---------------------------- MODULE DockerProject ----------------------------
(***************************************************************************)
(* The containers, volumes and record files that `docker compose` keeps    *)
(* from one invocation of the CLI to the next.  Invocations follow one     *)
(* another, each with options of its own, and each may be killed.          *)
(* LocalNode takes the project as one thing; here every container has the  *)
(* definition that the chosen compose files gave it, and every record file *)
(* the ledger it belongs to.                                               *)
(***************************************************************************)
CONSTANTS
    Dirs,       \* working directories
    Options,    \* the options a start or restart may have
    Faults      \* what may go wrong outside the program

ASSUME OptionsAssumption ==
    Options \subseteq [full : BOOLEAN, multi : BOOLEAN, block : BOOLEAN,
                       user : BOOLEAN, dir : Dirs]
ASSUME FaultsAssumption == Faults \subseteq {"up", "split", "kill", "sigint"}

VARIABLES
    cmd,        \* the command that the process runs or the last one has run
    opt,        \* its options
    pc,         \* where it is ("idle": no process)
    fresh,      \* what it has started from scratch: the log, the ledger
    stack,      \* the containers: their definitions, and whether they run
    records,    \* per directory and node: the ledgers that have record files
    bucket,     \* those with record files in the volume of minio
    db,         \* those that the mirror node has imported
    log,        \* lines about a topic in the monitor's log
    heard       \* those that `docker logs` has delivered in two pieces

control == <<cmd, opt, pc, fresh>>
streams == <<records, bucket, db>>
topic == <<log, heard>>
vars == <<control, stack, streams, topic>>

Consensus == {"node", "node1"}
Uploaders == {"uploader", "uploader1"}
NodeOf(u) == IF u = "uploader" THEN "node" ELSE "node1"

-----------------------------------------------------------------------------
(* The compose files.  Of the services of each kind one is modelled, and   *)
(* of the nodes and uploaders of the multinode mode the first.             *)

Definitions ==
    [ base |-> [node |-> "one", monitor |-> "real", uploader |-> "real",
                importer |-> "minio", block |-> "real"],
      evm |-> [uploader |-> "disabled", importer |-> "local"],
      noBlock |-> [block |-> "disabled"],
      multinode |-> [node |-> "many", node1 |-> "many", uploader1 |-> "real"],
      multinodeBlock |-> [block1 |-> "real"],
      multinodeEvm |-> [uploader1 |-> "disabled", importer |-> "localAll"],
      user |-> [user |-> "real"] ]

\* Of two definitions of a service that of the later file counts.
With(condition, file, merged) ==
    LET here == DOMAIN Definitions[file] IN
    IF condition
    THEN [s \in here \cup DOMAIN merged |->
            IF s \in here THEN Definitions[file][s] ELSE merged[s]]
    ELSE merged

\* dockerComposeUp and getUserComposeFiles.
Merged ==
    [o \in Options |->
        LET mode == With(~o.full, "evm", Definitions.base)
            blockNode == With(~o.block, "noBlock", mode)
            multiNode == With(o.multi, "multinode", blockNode)
            multiBlock == With(o.multi /\ o.block, "multinodeBlock", multiNode)
            multiMode == With(~o.full /\ o.multi, "multinodeEvm", multiBlock)
        IN  With(o.user, "user", multiMode)]

\* Compose replaces a container whose definition has changed: by its entry in
\* the files, or by the directory that is mounted into it.
Mounting == Consensus \cup Uploaders \cup {"monitor", "importer"}
Definition(s, o) == <<Merged[o][s], IF s \in Mounting THEN o.dir ELSE "none">>

Has(s) == s \in DOMAIN stack
Entry(s) == stack[s].def[1]
Dir(s) == stack[s].def[2]
Running(s) == Has(s) /\ stack[s].runs

-----------------------------------------------------------------------------

\* The stop command has no options but its directory.
StopOptions(d) ==
    [full |-> FALSE, multi |-> FALSE, block |-> FALSE, user |-> FALSE, dir |-> d]

NoOptions == StopOptions("none")

Init ==
    /\ cmd = "none" /\ opt = NoOptions /\ pc = "idle" /\ fresh = {}
    /\ stack = <<>>
    /\ records = [x \in Dirs \X Consensus |-> {}] /\ bucket = {} /\ db = {}
    /\ log = {} /\ heard = {}

Goto(l) == pc' = l /\ UNCHANGED <<cmd, opt, fresh>>

\* The process ends, before or after it has started containers.
Exit == pc' = "idle" /\ cmd' = "none" /\ opt' = NoOptions /\ UNCHANGED fresh
ExitBefore == pc' = "idle" /\ cmd' = "none" /\ opt' = NoOptions /\ fresh' = {}

\* What stop leaves to the next command; nothing else sets cmd to this.
Stopped == pc' = "idle" /\ cmd' = "stopped" /\ opt' = NoOptions /\ fresh' = {}

\* restart stops the network before it starts it.
Begin ==
    /\ pc = "idle"
    /\ \/ cmd' = "start" /\ pc' = "ports" /\ opt' \in Options
       \/ cmd' = "restart" /\ pc' = "kill" /\ opt' \in Options
       \/ cmd' = "stop" /\ pc' = "kill" /\ \E d \in Dirs : opt' = StopOptions(d)
    /\ fresh' = {}
    /\ UNCHANGED <<stack, streams, topic>>

\* What was of the current ledger is of one that is gone.
Outdated(ledgers) == IF ledgers = {} THEN {} ELSE {"gone"}

-----------------------------------------------------------------------------
(* StopState, tryDockerRecovery and isPortInUse *)

Listed == DOMAIN Definitions.base

\* `docker compose kill --remove-orphans` knows the base file only: what that
\* does not list is an orphan and is removed.
ComposeKill ==
    /\ stack' = [s \in DOMAIN stack \cap Listed |-> [stack[s] EXCEPT !.runs = FALSE]]
    /\ UNCHANGED <<streams, topic>>

\* Mutant of ComposeDown: without -v.
ComposeDown_KeepsVolumes ==
    /\ stack' = <<>> /\ log' = {} /\ UNCHANGED <<bucket, db, heard>>
    /\ records' = [x \in DOMAIN records |-> Outdated(records[x])]

\* Mutant of ComposeDown: `docker compose stop`, which keeps it all.
ComposeDown_OnlyStops ==
    /\ stack' = [s \in DOMAIN stack |-> [stack[s] EXCEPT !.runs = FALSE]]
    /\ UNCHANGED <<streams, topic>>

\* `docker compose down -v --remove-orphans`: containers and volumes go, and
\* with them the ledger.
ComposeDown ==
    /\ stack' = <<>> /\ log' = {} /\ UNCHANGED heard
    /\ bucket' = {} /\ db' = {}
    /\ records' = [x \in DOMAIN records |-> Outdated(records[x])]

Stopping ==
    \/ pc = "kill" /\ ComposeKill /\ Goto("down")
    \/ pc = "down" /\ ComposeDown /\ Goto("clean")

\* Mutant of StopClean: network-logs of the package only.
StopClean_PackageOnly ==
    /\ pc = "clean"
    /\ IF cmd = "restart" THEN Goto("ports") ELSE Stopped
    /\ UNCHANGED <<stack, streams, topic>>

\* Mutant of StopClean: stop goes on as restart does.
StopClean_GoesOn ==
    /\ pc = "clean"
    /\ records' = [x \in DOMAIN records |-> IF x[1] = opt.dir THEN {} ELSE records[x]]
    /\ Goto("ports")
    /\ UNCHANGED <<stack, bucket, db, topic>>

\* rm -rf of network-logs under the directory of this command line.
StopClean ==
    /\ pc = "clean"
    /\ records' = [x \in DOMAIN records |-> IF x[1] = opt.dir THEN {} ELSE records[x]]
    /\ IF cmd = "restart" THEN Goto("ports") ELSE Stopped
    /\ UNCHANGED <<stack, bucket, db, topic>>

Recovering ==
    \/ pc = "recover.kill" /\ ComposeKill /\ Goto("recover.down")
    \/ pc = "recover.down" /\ ComposeDown /\ Goto("again")

\* The consensus node and the mirror node hold necessary ports; those of other
\* programs are in LocalNode.
CheckPorts ==
    /\ pc = "ports"
    /\ IF Running("node") \/ Running("importer") THEN ExitBefore ELSE Goto("up")
    /\ UNCHANGED <<stack, streams, topic>>

-----------------------------------------------------------------------------
(* StartState *)

\* Mutant of Started: leaves existing containers as they are.
Started_NotReplaced(S) ==
    [s \in DOMAIN stack \cup S |->
        IF s \in S /\ ~Has(s)
        THEN [def |-> Definition(s, opt), runs |-> Merged[opt][s] # "disabled"]
        ELSE IF s \in S THEN [stack[s] EXCEPT !.runs = Entry(s) # "disabled"]
        ELSE stack[s]]

\* The containers after `up` has started those of S: new ones and those whose
\* definition has changed are created, what no file mentions stays.
Started(S) ==
    [s \in DOMAIN stack \cup S |->
        IF s \in S
        THEN [def |-> Definition(s, opt), runs |-> Merged[opt][s] # "disabled"]
        ELSE stack[s]]

Created(s, S) == s \in S /\ (~Has(s) \/ stack[s].def # Definition(s, opt))

\* A disabled uploader deletes the record files that it finds, and stops; this
\* is long before the node writes any.
Emptied(S) ==
    {<<opt.dir, NodeOf(u)>> : u \in {v \in Uploaders \cap S : Merged[opt][v] = "disabled"}}

\* A new container of the consensus node starts a ledger, one of the monitor a
\* log; in a monitor that starts again the lines of its last run remain.
Up(S) ==
    /\ stack' = Started(S)
    /\ LET aged(ledgers) == IF Created("node", S) THEN Outdated(ledgers) ELSE ledgers
       IN  /\ records' = [x \in DOMAIN records |->
                            IF x \in Emptied(S) THEN {} ELSE aged(records[x])]
           /\ bucket' = aged(bucket) /\ db' = aged(db)
    /\ log' = (IF "monitor" \notin S \/ Running("monitor") THEN log
               ELSE IF Created("monitor", S) \/ log = {} THEN {} ELSE {"old"})
    /\ UNCHANGED heard

\* What a failed `up` has started: nothing, the services that wait for nobody,
\* or all but the monitor, which waits for all the others.
Partial == {{}, {"node", "uploader"}, DOMAIN Merged[opt] \ {"monitor"}}

\* restart has removed everything; start may find nothing to be there. The
\* uploaders of full mode need an empty directory too.
Scratch ==
    IF cmd = "restart" THEN {"log", "ledger"}
    ELSE IF stack # <<>> \/ bucket # {} \/ db # {} THEN {}
    ELSE IF opt.full /\ \E n \in Consensus : records[<<opt.dir, n>>] # {} THEN {"log"}
    ELSE {"log", "ledger"}

ComposeUp ==
    /\ pc = "up"
    /\ fresh' = Scratch
    /\ \/ Up(DOMAIN Merged[opt]) /\ pc' = "fire"
       \/ /\ "up" \in Faults
          /\ \E S \in Partial : Up(S)
          /\ pc' \in {"recover.kill", "fire"}
    /\ UNCHANGED <<cmd, opt>>

\* The second attempt, whose exit code is not looked at. The recovery has not
\* emptied the directory.
ComposeUpAgain ==
    /\ pc = "again"
    /\ fresh' = (IF opt.full THEN fresh \ {"ledger"} ELSE fresh) /\ pc' = "fire"
    /\ \/ Up(DOMAIN Merged[opt])
       \/ "up" \in Faults /\ \E S \in Partial : Up(S)
    /\ UNCHANGED <<cmd, opt>>

\* Both services answer, or the attempts run out.
WaitForFiringUp ==
    /\ pc = "fire"
    /\ \/ Running("importer") /\ Running("node") /\ Goto("topic")
       \/ Exit
    /\ UNCHANGED <<stack, streams, topic>>

-----------------------------------------------------------------------------
(* waitForTopicCreation: `docker logs -f` delivers the log of the monitor  *)
(* from its beginning, in chunks that are searched one by one.             *)

FirstOf(lines) == IF "old" \in lines THEN "old" ELSE "own"

\* Mutant of Deliver: listens to the first chunk only.
Deliver_FirstOnly ==
    /\ pc = "topic" /\ log # {} /\ heard = {}
    /\ \/ heard' = {} /\ Exit
       \/ "split" \in Faults /\ heard' = {FirstOf(log)} /\ UNCHANGED control
    /\ UNCHANGED <<stack, streams, log>>

\* A line ends the wait, unless it is cut in two and not found.
Deliver ==
    /\ pc = "topic" /\ log \ heard # {}
    /\ \/ heard' = {} /\ Exit
       \/ /\ "split" \in Faults
          /\ heard' = heard \cup {FirstOf(log \ heard)} /\ UNCHANGED control
    /\ UNCHANGED <<stack, streams, log>>

\* Without a monitor the command ends, and nothing is left to wait for.
Drain ==
    /\ pc = "topic" /\ ~Running("monitor")
    /\ heard' = {} /\ Exit
    /\ UNCHANGED <<stack, streams, log>>

-----------------------------------------------------------------------------
(* What happens to the process, and what the containers do *)

Kill ==
    /\ "kill" \in Faults /\ pc # "idle"
    /\ IF pc \in {"fire", "topic"} THEN Exit ELSE ExitBefore
    /\ heard' = {}
    /\ UNCHANGED <<stack, streams, log>>

\* SIGINT at an await: stop, with the options of the interrupted command.
Interrupt ==
    /\ "sigint" \in Faults /\ pc \in {"ports", "fire", "topic"}
    /\ cmd' = "stop" /\ pc' = "kill" /\ opt' = StopOptions(opt.dir)
    /\ fresh' = {} /\ heard' = {}
    /\ UNCHANGED <<stack, streams, log>>

Stream(n) ==
    /\ Running(n) /\ "current" \notin records[<<Dir(n), n>>]
    /\ records' = [records EXCEPT ![<<Dir(n), n>>] = @ \cup {"current"}]
    /\ UNCHANGED <<control, stack, bucket, db, topic>>

Upload(u) ==
    /\ Running(u) /\ ~(records[<<Dir(u), NodeOf(u)>>] \subseteq bucket)
    /\ bucket' = bucket \cup records[<<Dir(u), NodeOf(u)>>]
    /\ UNCHANGED <<control, stack, records, db, topic>>

\* Where the importer looks for record files.
Source ==
    CASE Entry("importer") = "minio" -> bucket
      [] Entry("importer") = "local" -> records[<<Dir("importer"), "node">>]
      [] OTHER -> UNION {records[<<Dir("importer"), n>>] : n \in Consensus}

Import ==
    /\ Running("importer") /\ ~(Source \subseteq db)
    /\ db' = db \cup Source
    /\ UNCHANGED <<control, stack, records, bucket, topic>>

\* The monitor creates a topic whenever it has started.
MonitorCreatesTopic ==
    /\ Running("monitor") /\ Running("node") /\ "own" \notin log
    /\ log' = log \cup {"own"}
    /\ UNCHANGED <<control, stack, streams, heard>>

Environment ==
    \/ \E n \in Consensus : Stream(n)
    \/ \E u \in Uploaders : Upload(u)
    \/ Import \/ MonitorCreatesTopic

Work ==
    \/ Stopping \/ StopClean \/ Recovering \/ CheckPorts
    \/ ComposeUp \/ ComposeUpAgain \/ WaitForFiringUp \/ Deliver \/ Drain

Next == Begin \/ Work \/ Kill \/ Interrupt \/ Environment

Spec == Init /\ [][Next]_vars

\* Commands return, and the output of `docker logs` is delivered.
FairSpec == Spec /\ WF_vars(Work)

-----------------------------------------------------------------------------
(* Properties *)

Services == UNION {DOMAIN Definitions[f] : f \in DOMAIN Definitions}
Entries ==
    [s \in Services |->
        {Definitions[f][s] : f \in {g \in DOMAIN Definitions : s \in DOMAIN Definitions[g]}}]
Ledgers == {"current", "gone"}

\* Every variable has its type; containers have definitions of the compose
\* files, and only start and restart get to the steps that start them.
TypeOK ==
    /\ cmd \in {"none", "start", "restart", "stop", "stopped"}
    /\ opt \in Options \cup {StopOptions(d) : d \in Dirs} \cup {NoOptions}
    /\ pc \in {"idle", "kill", "down", "clean", "ports", "up", "recover.kill",
               "recover.down", "again", "fire", "topic"}
    /\ pc \notin {"idle", "kill", "down", "clean"} =>
        cmd \in {"start", "restart"} /\ opt \in Options
    /\ fresh \subseteq {"log", "ledger"}
    /\ DOMAIN stack \subseteq Services
    /\ \A s \in DOMAIN stack :
        /\ stack[s].runs \in BOOLEAN
        /\ Entry(s) \in Entries[s]
        /\ Dir(s) \in Dirs \cup {"none"}
    /\ records \in [Dirs \X Consensus -> SUBSET Ledgers]
    /\ bucket \subseteq Ledgers /\ db \subseteq Ledgers
    /\ log \subseteq {"old", "own"} /\ heard \subseteq {"old", "own"}

\* The services that the options ask for.
Asked(o) ==
    {"node", "monitor", "importer"}
    \cup (IF o.full THEN {"uploader"} ELSE {})
    \cup (IF o.block THEN {"block"} ELSE {})
    \cup (IF o.multi THEN {"node1"} ELSE {})
    \cup (IF o.multi /\ o.full THEN {"uploader1"} ELSE {})
    \cup (IF o.multi /\ o.block THEN {"block1"} ELSE {})
    \cup (IF o.user THEN {"user"} ELSE {})

\* Whatever containers earlier invocations with other options have left, once
\* the services answer and the monitor runs, the services asked for run and no
\* others, from this working directory, in the mode asked for.
StackAsAsked ==
    pc = "topic" /\ Running("monitor") =>
        /\ {s \in DOMAIN stack : Running(s)} = Asked(opt)
        /\ \A s \in Mounting : Running(s) => Dir(s) = opt.dir
        /\ Entry("node") = (IF opt.multi THEN "many" ELSE "one")
        /\ Entry("importer") =
            (IF opt.full THEN "minio" ELSE IF opt.multi THEN "localAll" ELSE "local")

HasStarted(part) == pc \in {"fire", "topic", "idle"} /\ part \in fresh

\* The mirror node of a network that was started from scratch (by restart, or
\* by start with no containers and volumes there) imports no record of a ledger
\* that is gone, whatever directories and modes were used before. In full mode
\* this takes an empty directory (as after a restart) and no recovery, which
\* does not empty it again.
FreshImport == HasStarted("ledger") => db \subseteq {"current"}

\* The log in which it waits for its topic holds no line of a monitor that ran
\* before.
OwnTopic == HasStarted("log") => "old" \notin log

\* A stop, or SIGINT, with whatever options the network was started, leaves no
\* container, no volume and no record file in its working directory.
StopRemovesAll ==
    [][cmd = "stop" /\ cmd' = "stopped" =>
        /\ stack' = <<>> /\ bucket' = {} /\ db' = {} /\ log' = {}
        /\ \A n \in Consensus : records'[<<opt.dir, n>>] = {}]_vars

\* Once the monitor has logged its topic the wait for it ends, unless that very
\* line was cut in two.
TopicEndsWait ==
    pc = "topic" /\ "own" \in log ~> pc # "topic" \/ "own" \in heard

=============================================================================
