------------------------- MODULE DockerProjectProofs -------------------------
(***************************************************************************)
(* What stop leaves behind, whose log the wait for the topic reads and     *)
(* which records a new importer finds, for any directories, any options    *)
(* and any faults.  The first two follow from the order of kill, down and  *)
(* up alone, the third also from what a compose file says of the importer. *)
(* At the end, that what runs after `up` is what the merged files list,    *)
(* and that the containers together are the one project LocalNode knows.   *)
(***************************************************************************)
EXTENDS DockerProject, TLAPS

\* What `down -v` leaves: no container runs that could write anything again.
Gone == stack = <<>> /\ bucket = {} /\ db = {} /\ log = {}

\* After `down -v` nothing is there until the next `up`.
EmptyInv ==
    /\ pc \in {"clean", "again"} => Gone
    /\ pc \in {"ports", "up"} /\ cmd = "restart" =>
        stack = <<>> /\ bucket = {} /\ db = {}

\* A log is that of a container.
LogInv == "monitor" \notin DOMAIN stack => log = {}

IInv == EmptyInv /\ LogInv /\ OwnTopic

-----------------------------------------------------------------------------

LEMMA NoContainer == ASSUME stack = <<>>, NEW s PROVE ~Has(s) /\ ~Running(s)
  BY DEF Has, Running

LEMMA InitInv == Init => IInv
  BY DEF Init, IInv, EmptyInv, LogInv, OwnTopic, HasStarted

LEMMA ListsMonitor == "monitor" \in Listed
  BY DEF Listed, Definitions

\* `kill` keeps the containers of the base file, and their logs.
LEMMA KillKeepsLog == ASSUME LogInv, ComposeKill PROVE LogInv'
  BY ListsMonitor DEF LogInv, ComposeKill, topic

LEMMA DownRemovesAll == ComposeDown => Gone'
  BY DEF ComposeDown, Gone

\* An `up` where there is nothing starts with no log at all.
LEMMA UpFromNothing ==
  ASSUME NEW S, Up(S), LogInv, stack = <<>> PROVE log' = {}
  BY NoContainer DEF Up, LogInv, Created

\* An `up` makes no log without a monitor.
LEMMA UpKeepsLog == ASSUME NEW S, Up(S), LogInv PROVE LogInv'
<1>1. DOMAIN stack' = DOMAIN stack \cup S
  BY DEF Up, Started
<1>2. "monitor" \notin S => log' = log
  BY DEF Up
<1> QED
  BY <1>1, <1>2 DEF LogInv

-----------------------------------------------------------------------------

LEMMA StoppingStep == ASSUME IInv, Stopping PROVE IInv'
<1>1. CASE pc = "kill" /\ ComposeKill /\ Goto("down")
  BY <1>1, KillKeepsLog DEF Goto, IInv, EmptyInv, OwnTopic, HasStarted
<1>2. CASE pc = "down" /\ ComposeDown /\ Goto("clean")
  BY <1>2, DownRemovesAll DEF Goto, Gone, IInv, EmptyInv, LogInv, OwnTopic, HasStarted
<1> QED
  BY <1>1, <1>2 DEF Stopping

LEMMA RecoveringStep == ASSUME IInv, Recovering PROVE IInv'
<1>1. CASE pc = "recover.kill" /\ ComposeKill /\ Goto("recover.down")
  BY <1>1, KillKeepsLog DEF Goto, IInv, EmptyInv, OwnTopic, HasStarted
<1>2. CASE pc = "recover.down" /\ ComposeDown /\ Goto("again")
  BY <1>2, DownRemovesAll DEF Goto, Gone, IInv, EmptyInv, LogInv, OwnTopic, HasStarted
<1> QED
  BY <1>1, <1>2 DEF Recovering

LEMMA StopCleanStep == ASSUME IInv, StopClean PROVE IInv'
  BY DEF StopClean, Goto, Stopped, topic, Gone, IInv, EmptyInv, LogInv, OwnTopic, HasStarted

\* The network was started from scratch only where no container was.
LEMMA ComposeUpStep == ASSUME IInv, ComposeUp PROVE IInv'
<1>1. PICK S : Up(S)
  BY DEF ComposeUp
<1>2. LogInv'
  BY <1>1, UpKeepsLog DEF IInv
<1>3. pc' \in {"fire", "recover.kill"} /\ fresh' = Scratch
  BY DEF ComposeUp
<1>4. "log" \in Scratch => stack = <<>>
  BY DEF Scratch, ComposeUp, IInv, EmptyInv
<1>5. OwnTopic'
  BY <1>1, <1>3, <1>4, UpFromNothing DEF IInv, OwnTopic, HasStarted
<1> QED
  BY <1>2, <1>3, <1>5 DEF IInv, EmptyInv

LEMMA ComposeUpAgainStep == ASSUME IInv, ComposeUpAgain PROVE IInv'
<1>1. PICK S : Up(S)
  BY DEF ComposeUpAgain
<1>2. LogInv'
  BY <1>1, UpKeepsLog DEF IInv
<1>3. pc' = "fire" /\ stack = <<>>
  BY DEF ComposeUpAgain, IInv, EmptyInv, Gone
<1>4. log' = {}
  BY <1>1, <1>3, UpFromNothing DEF IInv
<1> QED
  BY <1>2, <1>3, <1>4 DEF IInv, EmptyInv, OwnTopic, HasStarted

\* Steps of the process that change nothing in Docker.
LEMMA ProcessStep ==
  ASSUME IInv, Begin \/ CheckPorts \/ WaitForFiringUp \/ Deliver \/ Drain \/ Kill \/ Interrupt
  PROVE  IInv'
<1>1. stack' = stack /\ bucket' = bucket /\ db' = db /\ log' = log
  BY DEF Begin, CheckPorts, WaitForFiringUp, Deliver, Drain, Kill, Interrupt, streams, topic
<1>2. \/ pc' = pc /\ cmd' = cmd /\ fresh' = fresh
      \/ pc' \in {"kill", "ports", "idle"} /\ fresh' = {} /\ (pc' = "ports" => cmd' = "start")
      \/ pc = "ports" /\ pc' = "up" /\ cmd' = cmd /\ fresh' = fresh
      \/ pc \in {"fire", "topic"} /\ pc' \in {"topic", "idle"} /\ fresh' = fresh
  BY DEF Begin, CheckPorts, WaitForFiringUp, Deliver, Drain, Kill, Interrupt, control,
         Goto, Exit, ExitBefore
<1> QED
  BY <1>1, <1>2 DEF Gone, IInv, EmptyInv, LogInv, OwnTopic, HasStarted

\* What the containers do takes a container.
LEMMA EnvironmentStep == ASSUME IInv, Environment PROVE IInv'
<1>1. UNCHANGED <<pc, cmd, fresh, stack>> /\ (stack = <<>> => FALSE)
  BY NoContainer DEF Environment, Stream, Upload, Import, MonitorCreatesTopic, control
<1>2. log' = log \/ (log' = log \cup {"own"} /\ "monitor" \in DOMAIN stack)
  BY DEF Environment, Stream, Upload, Import, MonitorCreatesTopic, topic, Running, Has
<1> QED
  BY <1>1, <1>2 DEF Gone, IInv, EmptyInv, LogInv, OwnTopic, HasStarted

LEMMA NextInv == IInv /\ [Next]_vars => IInv'
<1>1. IInv /\ UNCHANGED vars => IInv'
  BY DEF vars, control, streams, topic, Gone, IInv, EmptyInv, LogInv, OwnTopic, HasStarted
<1> QED
  BY <1>1, StoppingStep, RecoveringStep, StopCleanStep, ComposeUpStep, ComposeUpAgainStep,
     ProcessStep, EnvironmentStep DEF Next, Work

LEMMA SpecInv == Spec => []IInv
  BY InitInv, NextInv, PTL DEF Spec

-----------------------------------------------------------------------------

\* The log in which a network that was started from scratch waits for its topic
\* holds no line of an earlier monitor, whatever was killed or failed before.
THEOREM OwnTopicCorrect == Spec => []OwnTopic
<1>1. IInv => OwnTopic
  BY DEF IInv
<1> QED
  BY SpecInv, <1>1, PTL

\* A command has a directory, and every directory its record files.
DirInv ==
    /\ pc # "idle" => opt.dir \in Dirs
    /\ DOMAIN records = Dirs \X Consensus

LEMMA DirInit == Init => DirInv
  BY DEF Init, DirInv

LEMMA DirStep == DirInv /\ [Next]_vars => DirInv'
<1> SUFFICES ASSUME DirInv, [Next]_vars PROVE DirInv'
  OBVIOUS
<1>1. DOMAIN records' = DOMAIN records
  BY DEF Next, vars, control, streams, topic, Work, Begin, Stopping, StopClean, Recovering,
         CheckPorts, ComposeKill, ComposeDown, ComposeUp, ComposeUpAgain, Up,
         WaitForFiringUp, Deliver, Drain, Kill, Interrupt, Environment, Stream, Upload,
         Import, MonitorCreatesTopic
<1>2. CASE Begin
  <2>1. opt' \in Options \/ \E d \in Dirs : opt' = StopOptions(d)
    BY <1>2 DEF Begin
  <2>2. opt'.dir \in Dirs
    BY <2>1, OptionsAssumption DEF StopOptions
  <2> QED
    BY <1>1, <2>2 DEF DirInv
<1>3. CASE ~Begin
  <2>1. CASE Kill \/ Interrupt
    BY <1>1, <2>1 DEF Kill, Interrupt, Exit, ExitBefore, StopOptions, DirInv
  <2>2. CASE Environment \/ UNCHANGED vars
    BY <1>1, <2>2 DEF Environment, Stream, Upload, Import, MonitorCreatesTopic, vars, control,
                      DirInv
  <2>3. CASE Work
    <3>1. pc # "idle" /\ (pc' = "idle" \/ opt' = opt)
      BY <2>3 DEF Work, Stopping, StopClean, Recovering, CheckPorts, ComposeUp,
                  ComposeUpAgain, WaitForFiringUp, Deliver, Drain, control, Goto, Exit,
                  ExitBefore, Stopped
    <3> QED
      BY <1>1, <3>1 DEF DirInv
  <2> QED
    BY <1>3, <2>1, <2>2, <2>3 DEF Next
<1> QED
  BY <1>2, <1>3

LEMMA DirSpec == Spec => []DirInv
  BY DirInit, DirStep, PTL DEF Spec

\* Only the last step of a stop is one.
LEMMA StopStep ==
  ASSUME IInv, DirInv, [Next]_vars, cmd = "stop", cmd' = "stopped"
  PROVE  /\ stack' = <<>> /\ bucket' = {} /\ db' = {} /\ log' = {}
         /\ \A n \in Consensus : records'[<<opt.dir, n>>] = {}
<1>1. StopClean
  BY DEF Next, vars, control, Work, Begin, Stopping, Recovering, CheckPorts, ComposeUp,
         ComposeUpAgain, WaitForFiringUp, Deliver, Drain, Kill, Interrupt, Environment,
         Stream, Upload, Import, MonitorCreatesTopic, Goto, Exit, ExitBefore
<1>2. opt.dir \in Dirs /\ DOMAIN records = Dirs \X Consensus
  BY <1>1 DEF DirInv, StopClean
<1>3. \A n \in Consensus : <<opt.dir, n>> \in DOMAIN records
  BY <1>2
<1>4. \A n \in Consensus : records'[<<opt.dir, n>>] = {}
  BY <1>1, <1>3 DEF StopClean
<1> QED
  BY <1>1, <1>4 DEF StopClean, topic, IInv, EmptyInv, Gone

\* A stop, whatever options the network was started with, leaves no container, no
\* volume, no log and no record file in its directory.
THEOREM StopRemovesAllCorrect == Spec => StopRemovesAll
  BY SpecInv, DirSpec, StopStep, PTL DEF Spec, StopRemovesAll

-----------------------------------------------------------------------------
(* FreshImport.  It speaks of what has been imported; what makes it last is *)
(* where the importer reads: MirrorSafe says that nothing of an older      *)
(* ledger is there, nor where it would be taken from to there.             *)

Current == {"current"}

MinioSafe ==
    /\ bucket \subseteq Current
    /\ \A u \in Uploaders : Running(u) =>
        Dir(u) \in Dirs /\ records[<<Dir(u), NodeOf(u)>>] \subseteq Current

MirrorSafe ==
    /\ db \subseteq Current
    /\ Has("importer") =>
        /\ Dir("importer") \in Dirs
        /\ Entry("importer") = "minio" => MinioSafe
        /\ Entry("importer") = "local" =>
            records[<<Dir("importer"), "node">>] \subseteq Current
        /\ Entry("importer") \notin {"minio", "local"} =>
            \A n \in Consensus : records[<<Dir("importer"), n>>] \subseteq Current

\* Start and restart have options of their own, and restart has emptied its
\* directory before it gets to `up`.
OptionsInv ==
    /\ pc \notin {"idle", "kill", "down", "clean"} => opt \in Options
    /\ pc # "idle" /\ cmd = "restart" => opt \in Options
    /\ pc \in {"ports", "up"} /\ cmd = "restart" =>
        \A n \in Consensus : records[<<opt.dir, n>>] = {}

SafeInv == HasStarted("ledger") => MirrorSafe

FInv == IInv /\ DirInv /\ OptionsInv /\ SafeInv

-----------------------------------------------------------------------------

\* What the compose files make of the importer and the uploaders.
LEMMA Composition ==
  ASSUME NEW o \in Options
  PROVE  /\ "uploader" \in DOMAIN Merged[o]
         /\ o.multi => "uploader1" \in DOMAIN Merged[o]
         /\ o.full => Merged[o]["importer"] = "minio"
         /\ ~o.full =>
            /\ Merged[o]["importer"] = (IF o.multi THEN "localAll" ELSE "local")
            /\ Merged[o]["uploader"] = "disabled"
            /\ o.multi => Merged[o]["uploader1"] = "disabled"
<1> DEFINE mode == With(~o.full, "evm", Definitions.base)
           blockNode == With(~o.block, "noBlock", mode)
           multiNode == With(o.multi, "multinode", blockNode)
           multiBlock == With(o.multi /\ o.block, "multinodeBlock", multiNode)
           multiMode == With(~o.full /\ o.multi, "multinodeEvm", multiBlock)
           all == With(o.user, "user", multiMode)
<1>0. o.full \in BOOLEAN /\ o.multi \in BOOLEAN
  BY OptionsAssumption
<1>1. /\ {"uploader", "importer"} \subseteq DOMAIN mode
      /\ mode["importer"] = (IF o.full THEN "minio" ELSE "local")
      /\ ~o.full => mode["uploader"] = "disabled"
  BY DEF With, Definitions
<1>2. /\ {"uploader", "importer"} \subseteq DOMAIN blockNode
      /\ blockNode["importer"] = mode["importer"]
      /\ blockNode["uploader"] = mode["uploader"]
  BY <1>1 DEF With, Definitions
<1> HIDE DEF mode
<1>3. /\ {"uploader", "importer"} \subseteq DOMAIN multiNode
      /\ multiNode["importer"] = mode["importer"]
      /\ multiNode["uploader"] = mode["uploader"]
      /\ o.multi => "uploader1" \in DOMAIN multiNode
  BY <1>2 DEF With, Definitions
<1> HIDE DEF blockNode
<1>4. /\ {"uploader", "importer"} \subseteq DOMAIN multiBlock
      /\ multiBlock["importer"] = mode["importer"]
      /\ multiBlock["uploader"] = mode["uploader"]
      /\ o.multi => "uploader1" \in DOMAIN multiBlock
  BY <1>3 DEF With, Definitions
<1> HIDE DEF multiNode
<1>5. /\ {"uploader", "importer"} \subseteq DOMAIN multiMode
      /\ multiMode["uploader"] = mode["uploader"]
      /\ multiMode["importer"] =
            (IF ~o.full /\ o.multi THEN "localAll" ELSE mode["importer"])
      /\ o.multi => "uploader1" \in DOMAIN multiMode
      /\ ~o.full /\ o.multi => multiMode["uploader1"] = "disabled"
  BY <1>4 DEF With, Definitions
<1> HIDE DEF multiBlock
<1>6. /\ {"uploader", "importer"} \subseteq DOMAIN all
      /\ all["uploader"] = multiMode["uploader"]
      /\ all["importer"] = multiMode["importer"]
      /\ o.multi => "uploader1" \in DOMAIN all /\ all["uploader1"] = multiMode["uploader1"]
  BY <1>5 DEF With, Definitions
<1>7. Merged[o] = all
  BY DEF Merged, mode, blockNode, multiNode, multiBlock
<1> HIDE DEF multiMode, all
<1> QED
  BY <1>0, <1>1, <1>5, <1>6, <1>7

\* An `up` of S has no importer without the uploaders that empty the directory
\* for it.
LEMMA WithUploaders ==
  ASSUME opt \in Options, NEW S \in Partial \cup {DOMAIN Merged[opt]}, "importer" \in S
  PROVE  "uploader" \in S /\ (opt.multi => "uploader1" \in S)
  BY Composition DEF Partial

\* What `up` makes of nothing: all containers have this directory, and the place
\* where the importer reads is empty.
LEMMA UpSafe ==
  ASSUME opt \in Options, DOMAIN records = Dirs \X Consensus,
         stack = <<>>, bucket = {}, db = {},
         NEW S \in Partial \cup {DOMAIN Merged[opt]}, Up(S),
         opt.full => \A n \in Consensus : records[<<opt.dir, n>>] = {}
  PROVE  MirrorSafe'
<1>1. opt.dir \in Dirs /\ opt.full \in BOOLEAN /\ opt.multi \in BOOLEAN
  BY OptionsAssumption
<1>2. bucket' = {} /\ db' = {}
  BY DEF Up, Outdated
<1>3. /\ DOMAIN stack' = S
      /\ \A s \in S : stack'[s].def = Definition(s, opt)
  BY DEF Up, Started
<1>4. \A s \in S \cap Mounting : Entry(s)' = Merged[opt][s] /\ Dir(s)' = opt.dir
  BY <1>3 DEF Entry, Dir, Definition
<1>5. \A n \in Consensus : <<opt.dir, n>> \in DOMAIN records
  BY <1>1
<1>6. \A n \in Consensus :
        records[<<opt.dir, n>>] = {} \/ <<opt.dir, n>> \in Emptied(S)
            => records'[<<opt.dir, n>>] = {}
  BY <1>5 DEF Up, Outdated
<1>7. Uploaders \subseteq Mounting /\ "importer" \in Mounting
  BY DEF Mounting
<1>8. CASE "importer" \notin S
  BY <1>2, <1>3, <1>8 DEF MirrorSafe, Has
<1>9. CASE "importer" \in S /\ opt.full
  <2>1. Entry("importer")' = "minio"
    BY <1>4, <1>7, <1>9, Composition
  <2>2. \A u \in Uploaders \cap S : records'[<<opt.dir, NodeOf(u)>>] = {}
    BY <1>6, <1>9 DEF NodeOf, Consensus
  <2>3. MinioSafe'
    BY <1>1, <1>2, <1>3, <1>4, <1>7, <2>2 DEF MinioSafe, Running, Has
  <2> QED
    BY <1>1, <1>2, <1>4, <1>7, <1>9, <2>1, <2>3 DEF MirrorSafe
<1>10. CASE "importer" \in S /\ ~opt.full
  <2>1. "uploader" \in S /\ (opt.multi => "uploader1" \in S)
    BY <1>10, WithUploaders
  <2>2. <<opt.dir, "node">> \in Emptied(S)
    BY <2>1, <1>10, Composition DEF Emptied, Uploaders, NodeOf
  <2>3. opt.multi => <<opt.dir, "node1">> \in Emptied(S)
    BY <2>1, <1>10, Composition DEF Emptied, Uploaders, NodeOf
  <2>4. /\ records'[<<opt.dir, "node">>] = {}
        /\ opt.multi => records'[<<opt.dir, "node1">>] = {}
    BY <1>6, <2>2, <2>3 DEF Consensus
  <2>5. Entry("importer")' = (IF opt.multi THEN "localAll" ELSE "local")
    BY <1>4, <1>7, <1>10, Composition
  <2>6. Dir("importer")' = opt.dir
    BY <1>4, <1>7, <1>10
  <2>7. opt.multi => \A n \in Consensus : records'[<<opt.dir, n>>] = {}
    BY <2>4 DEF Consensus
  <2> QED
    BY <1>1, <1>2, <2>4, <2>5, <2>6, <2>7 DEF MirrorSafe
<1> QED
  BY <1>1, <1>8, <1>9, <1>10

LEMMA OptionsInit == Init => OptionsInv /\ SafeInv
  BY DEF Init, OptionsInv, SafeInv, HasStarted

\* Up starts something only where nothing was, or nothing is claimed.
LEMMA ComposeUpSafe == ASSUME FInv, ComposeUp PROVE SafeInv'
<1>1. PICK S \in Partial \cup {DOMAIN Merged[opt]} : Up(S)
  BY DEF ComposeUp
<1>2. opt \in Options /\ DOMAIN records = Dirs \X Consensus
  BY DEF FInv, OptionsInv, DirInv, ComposeUp
<1>3. SUFFICES ASSUME "ledger" \in Scratch PROVE MirrorSafe'
  BY DEF ComposeUp, SafeInv, HasStarted
<1>4. stack = <<>> /\ bucket = {} /\ db = {}
  BY <1>3 DEF Scratch, ComposeUp, FInv, IInv, EmptyInv
<1>5. opt.full => \A n \in Consensus : records[<<opt.dir, n>>] = {}
  BY <1>3 DEF Scratch, ComposeUp, FInv, OptionsInv
<1> QED
  BY <1>1, <1>2, <1>4, <1>5, UpSafe

\* In full mode nothing is claimed after a recovery.
LEMMA ComposeUpAgainSafe == ASSUME FInv, ComposeUpAgain PROVE SafeInv'
<1>1. PICK S \in Partial \cup {DOMAIN Merged[opt]} : Up(S)
  BY DEF ComposeUpAgain
<1>2. opt \in Options /\ DOMAIN records = Dirs \X Consensus
  BY DEF FInv, OptionsInv, DirInv, ComposeUpAgain
<1>3. SUFFICES ASSUME ~opt.full PROVE MirrorSafe'
  BY DEF ComposeUpAgain, SafeInv, HasStarted
<1>4. stack = <<>> /\ bucket = {} /\ db = {}
  BY DEF ComposeUpAgain, FInv, IInv, EmptyInv, Gone
<1> QED
  BY <1>1, <1>2, <1>3, <1>4, UpSafe

\* The containers pass on what is current.
LEMMA EnvironmentSafe == ASSUME FInv, Environment PROVE SafeInv'
<1>1. UNCHANGED <<pc, cmd, opt, fresh, stack>>
  BY DEF Environment, Stream, Upload, Import, MonitorCreatesTopic, control
<1>2. SUFFICES ASSUME MirrorSafe PROVE MirrorSafe'
  BY <1>1 DEF FInv, SafeInv, HasStarted
<1>3. /\ \A s : Has(s)' = Has(s) /\ Running(s)' = Running(s)
      /\ \A s : Entry(s)' = Entry(s) /\ Dir(s)' = Dir(s)
  BY <1>1 DEF Has, Running, Entry, Dir
<1>4. CASE \E n \in Consensus : Stream(n)
  <2>1. \A x \in Dirs \X Consensus : records'[x] \subseteq records[x] \cup Current
    BY <1>4 DEF Stream, FInv, DirInv, Current
  <2>2. bucket' = bucket /\ db' = db
    BY <1>4 DEF Stream
  <2>3. MinioSafe => MinioSafe'
    <3>1. \A u \in Uploaders : NodeOf(u) \in Consensus
      BY DEF NodeOf, Consensus
    <3> QED
      BY <1>3, <2>1, <2>2, <3>1 DEF MinioSafe
  <2>4. \A d \in Dirs, n \in Consensus :
          records[<<d, n>>] \subseteq Current => records'[<<d, n>>] \subseteq Current
    BY <2>1
  <2>5. "node" \in Consensus
    BY DEF Consensus
  <2> QED
    BY <1>2, <1>3, <2>2, <2>3, <2>4, <2>5 DEF MirrorSafe
<1>5. CASE \E u \in Uploaders : Upload(u)
  <2>1. MinioSafe => MinioSafe'
    BY <1>1, <1>3, <1>5 DEF Upload, MinioSafe
  <2> QED
    BY <1>2, <1>3, <1>5, <2>1 DEF Upload, MirrorSafe
<1>6. CASE Import
  <2>1. Source \subseteq Current
    BY <1>2, <1>6 DEF Import, Running, Source, MirrorSafe, MinioSafe
  <2>2. db' \subseteq Current /\ records' = records /\ bucket' = bucket
    BY <1>2, <1>6, <2>1 DEF Import, MirrorSafe
  <2> QED
    BY <1>2, <1>3, <2>2 DEF MirrorSafe, MinioSafe
<1>7. CASE MonitorCreatesTopic
  BY <1>2, <1>3, <1>7 DEF MonitorCreatesTopic, streams, MirrorSafe, MinioSafe
<1> QED
  BY <1>4, <1>5, <1>6, <1>7 DEF Environment

\* No other step both claims anything and touches what it is about.
LEMMA OtherSafe ==
  ASSUME FInv, [Next]_vars, ~ComposeUp, ~ComposeUpAgain, ~Environment
  PROVE  SafeInv'
<1>1. \/ "ledger" \notin fresh' \/ pc' \notin {"fire", "topic", "idle"}
      \/ HasStarted("ledger") /\ UNCHANGED <<stack, records, bucket, db>>
  BY DEF Next, vars, control, streams, Work, Begin, Stopping, StopClean, Recovering,
         CheckPorts, WaitForFiringUp, Deliver, Drain, Kill, Interrupt, Goto, Exit, ExitBefore,
         Stopped, HasStarted
<1>2. CASE UNCHANGED <<stack, records, bucket, db>> /\ HasStarted("ledger")
  <2>1. MirrorSafe
    BY <1>2 DEF FInv, SafeInv
  <2>2. MirrorSafe'
    BY <1>2, <2>1 DEF MirrorSafe, MinioSafe, Has, Running, Entry, Dir
  <2> QED
    BY <2>2 DEF SafeInv
<1> QED
  BY <1>1, <1>2 DEF SafeInv, HasStarted

\* The options are chosen when a start or restart begins.
LEMMA OptionsStep == ASSUME FInv, [Next]_vars PROVE OptionsInv'
<1>1. pc' \notin {"idle", "kill", "down", "clean"} => opt' \in Options
  BY DEF FInv, OptionsInv, Next, vars, control, Work, Begin, Stopping, StopClean, Recovering,
         CheckPorts, ComposeUp, ComposeUpAgain, WaitForFiringUp, Deliver, Drain, Kill,
         Interrupt, Environment, Stream, Upload, Import, MonitorCreatesTopic, Goto, Exit,
         ExitBefore, Stopped
<1>2. pc' # "idle" /\ cmd' = "restart" => opt' \in Options
  BY DEF FInv, OptionsInv, Next, vars, control, Work, Begin, Stopping, StopClean, Recovering,
         CheckPorts, ComposeUp, ComposeUpAgain, WaitForFiringUp, Deliver, Drain, Kill,
         Interrupt, Environment, Stream, Upload, Import, MonitorCreatesTopic, Goto, Exit,
         ExitBefore, Stopped
<1>3. ASSUME pc' \in {"ports", "up"}, cmd' = "restart", NEW n \in Consensus
      PROVE  records'[<<opt'.dir, n>>] = {}
  <2>1. CASE StopClean
    <3>1. opt' = opt /\ opt.dir \in Dirs /\ DOMAIN records = Dirs \X Consensus
      BY <1>3, <2>1 DEF StopClean, Goto, Stopped, FInv, DirInv
    <3> QED
      BY <2>1, <3>1 DEF StopClean
  <2>2. CASE CheckPorts
    BY <1>3, <2>2 DEF CheckPorts, Goto, ExitBefore, streams, FInv, OptionsInv
  <2>3. CASE Environment \/ UNCHANGED vars
    <3>1. UNCHANGED <<pc, cmd, opt, stack>>
      BY <2>3 DEF Environment, Stream, Upload, Import, MonitorCreatesTopic, control, vars
    <3>2. stack = <<>>
      BY <1>3, <3>1 DEF FInv, IInv, EmptyInv
    <3>3. ~Environment
      BY <3>2, NoContainer DEF Environment, Stream, Upload, Import, MonitorCreatesTopic
    <3> QED
      BY <1>3, <2>3, <3>1, <3>3 DEF vars, streams, FInv, OptionsInv
  <2>4. CASE ~StopClean /\ ~CheckPorts /\ ~Environment /\ ~UNCHANGED vars
    BY <1>3, <2>4 DEF Next, Work, Begin, Stopping, Recovering, ComposeUp, ComposeUpAgain,
         WaitForFiringUp, Deliver, Drain, Kill, Interrupt, Goto, Exit, ExitBefore, control
  <2> QED
    BY <2>1, <2>2, <2>3, <2>4
<1> QED
  BY <1>1, <1>2, <1>3 DEF OptionsInv

LEMMA FSpec == Spec => []FInv
<1>1. Init => FInv
  BY InitInv, DirInit, OptionsInit DEF FInv
<1>2. FInv /\ [Next]_vars => FInv'
  BY NextInv, DirStep, OptionsStep, ComposeUpSafe, ComposeUpAgainSafe, EnvironmentSafe,
     OtherSafe DEF FInv
<1> QED
  BY <1>1, <1>2, PTL DEF Spec

\* The mirror node of a network that was started from scratch imports nothing of
\* a ledger that is gone.
THEOREM FreshImportCorrect == Spec => []FreshImport
<1>1. FInv => FreshImport
  BY DEF FInv, SafeInv, MirrorSafe, FreshImport, Current
<1> QED
  BY FSpec, <1>1, PTL

-----------------------------------------------------------------------------
(* Types.  A container has a definition that the compose files make of its *)
(* service, and those with a mounted directory have one that exists.       *)

Values == UNION {Entries[s] : s \in Services}

Containers == [def : Values \X (Dirs \cup {"none"}), runs : BOOLEAN]

Typed(merged) == DOMAIN merged \subseteq Services
                 /\ \A s \in DOMAIN merged : merged[s] \in Entries[s]

StackInv ==
    /\ DOMAIN stack \subseteq Services
    /\ \A s \in DOMAIN stack :
        /\ stack[s] \in Containers /\ Entry(s) \in Entries[s]
        /\ s \in Mounting => Dir(s) \in Dirs

TInv == TypeOK /\ StackInv

LEMMA EntriesOf ==
  ASSUME NEW f \in DOMAIN Definitions, NEW s \in DOMAIN Definitions[f]
  PROVE  s \in Services /\ Definitions[f][s] \in Entries[s]
<1>1. s \in Services
  BY DEF Services
<1>2. Entries[s] =
        {Definitions[g][s] : g \in {g \in DOMAIN Definitions : s \in DOMAIN Definitions[g]}}
  BY <1>1 DEF Entries
<1> QED
  BY <1>1, <1>2

LEMMA WithTyped ==
  ASSUME NEW c, NEW f \in DOMAIN Definitions, NEW merged, Typed(merged)
  PROVE  Typed(With(c, f, merged))
  BY EntriesOf DEF With, Typed

LEMMA MergedTyped == ASSUME NEW o \in Options PROVE Typed(Merged[o])
<1> DEFINE mode == With(~o.full, "evm", Definitions.base)
           blockNode == With(~o.block, "noBlock", mode)
           multiNode == With(o.multi, "multinode", blockNode)
           multiBlock == With(o.multi /\ o.block, "multinodeBlock", multiNode)
           multiMode == With(~o.full /\ o.multi, "multinodeEvm", multiBlock)
           all == With(o.user, "user", multiMode)
<1>1. {"base", "evm", "noBlock", "multinode", "multinodeBlock", "multinodeEvm", "user"}
        \subseteq DOMAIN Definitions
  BY DEF Definitions
<1>2. Typed(Definitions["base"])
  BY <1>1, EntriesOf DEF Typed
<1>3. Typed(mode)
  BY <1>1, <1>2, WithTyped
<1>4. Typed(blockNode)
  BY <1>1, <1>3, WithTyped
<1>5. Typed(multiNode)
  BY <1>1, <1>4, WithTyped
<1>6. Typed(multiBlock)
  BY <1>1, <1>5, WithTyped
<1>7. Typed(multiMode)
  BY <1>1, <1>6, WithTyped
<1>8. Typed(all)
  BY <1>1, <1>7, WithTyped
<1>9. Merged[o] = all
  BY DEF Merged
<1> QED
  BY <1>8, <1>9

\* A container that compose creates.
LEMMA CreatedType ==
  ASSUME NEW o \in Options, NEW s \in DOMAIN Merged[o]
  PROVE  /\ s \in Services /\ Merged[o][s] \in Entries[s]
         /\ \A runs \in BOOLEAN : [def |-> Definition(s, o), runs |-> runs] \in Containers
         /\ Definition(s, o)[1] = Merged[o][s]
         /\ s \in Mounting => Definition(s, o)[2] \in Dirs
<1>1. s \in Services /\ Merged[o][s] \in Entries[s]
  BY MergedTyped DEF Typed
<1>2. Merged[o][s] \in Values
  BY <1>1 DEF Values
<1>3. o.dir \in Dirs
  BY OptionsAssumption
<1> QED
  BY <1>1, <1>2, <1>3 DEF Definition, Containers

\* Every start has a consensus node.
LEMMA HasNode == ASSUME NEW o \in Options PROVE "node" \in DOMAIN Merged[o]
<1>1. DOMAIN Definitions.base \subseteq DOMAIN Merged[o]
  BY DEF Merged, With
<1> QED
  BY <1>1 DEF Definitions

\* What an `up` has started is part of the merged files.
LEMMA Startable ==
  ASSUME opt \in Options, NEW S \in Partial \cup {DOMAIN Merged[opt]}
  PROVE  S \subseteq DOMAIN Merged[opt]
  BY Composition, HasNode DEF Partial

LEMMA StartedType ==
  ASSUME StackInv, opt \in Options, NEW S \in Partial \cup {DOMAIN Merged[opt]}, Up(S)
  PROVE  StackInv'
<1>1. S \subseteq DOMAIN Merged[opt]
  BY Startable
<1>2. DOMAIN stack' = DOMAIN stack \cup S
  BY DEF Up, Started
<1>3. ASSUME NEW s \in S
      PROVE  /\ s \in Services /\ stack'[s] \in Containers /\ Entry(s)' \in Entries[s]
             /\ s \in Mounting => Dir(s)' \in Dirs
  <2>1. stack'[s] = [def |-> Definition(s, opt), runs |-> Merged[opt][s] # "disabled"]
    BY <1>3 DEF Up, Started
  <2>2. PICK runs \in BOOLEAN : stack'[s] = [def |-> Definition(s, opt), runs |-> runs]
    BY <2>1, Zenon
  <2>3. stack'[s] \in Containers /\ stack'[s].def = Definition(s, opt)
    BY <2>2, <1>1, <1>3, CreatedType
  <2> QED
    BY <2>3, <1>1, <1>3, CreatedType DEF Entry, Dir
<1>4. \A s \in DOMAIN stack \ S : stack'[s] = stack[s]
  BY DEF Up, Started
<1> QED
  BY <1>2, <1>3, <1>4 DEF StackInv, Entry, Dir

LEMMA InitTInv == Init => TInv
  BY DEF Init, TInv, TypeOK, StackInv, Ledgers

LEMMA StackValues ==
  ASSUME StackInv, NEW s \in DOMAIN stack
  PROVE  stack[s].runs \in BOOLEAN /\ Dir(s) \in Dirs \cup {"none"}
  BY DEF StackInv, Containers, Dir

\* The command, its options and its place.
ControlOK ==
    /\ cmd \in {"none", "start", "restart", "stop", "stopped"}
    /\ opt \in Options \cup {StopOptions(d) : d \in Dirs} \cup {NoOptions}
    /\ pc \in {"idle", "kill", "down", "clean", "ports", "up", "recover.kill",
               "recover.down", "again", "fire", "topic"}
    /\ pc \notin {"idle", "kill", "down", "clean"} =>
        cmd \in {"start", "restart"} /\ opt \in Options
    /\ fresh \subseteq {"log", "ledger"}

\* What the containers have written.
DataOK ==
    /\ records \in [Dirs \X Consensus -> SUBSET Ledgers]
    /\ bucket \subseteq Ledgers /\ db \subseteq Ledgers
    /\ log \subseteq {"old", "own"} /\ heard \subseteq {"old", "own"}

LEMMA Parts == ASSUME StackInv, ControlOK, DataOK PROVE TypeOK
<1>1. \A s \in DOMAIN stack : stack[s].runs \in BOOLEAN /\ Dir(s) \in Dirs \cup {"none"}
  BY StackValues
<1> QED
  BY <1>1 DEF TypeOK, StackInv, ControlOK, DataOK

LEMMA ControlStep ==
  ASSUME ControlOK, DirInv, OptionsInv, [Next]_vars PROVE ControlOK'
<1>1. CASE Begin
  BY <1>1 DEF Begin, ControlOK
<1>2. CASE Environment \/ UNCHANGED vars
  <2>1. UNCHANGED control
    BY <1>2 DEF Environment, Stream, Upload, Import, MonitorCreatesTopic, vars
  <2> QED
    BY <2>1 DEF control, ControlOK
<1>3. CASE Interrupt
  <2>1. opt.dir \in Dirs
    BY <1>3 DEF Interrupt, DirInv
  <2> QED
    BY <1>3, <2>1 DEF Interrupt, ControlOK
<1>4. CASE Kill \/ WaitForFiringUp \/ Deliver \/ Drain
  BY <1>4 DEF Kill, WaitForFiringUp, Deliver, Drain, Goto, Exit, ExitBefore, control, ControlOK
<1>5. CASE Stopping \/ StopClean \/ Recovering \/ CheckPorts
  <2>1. pc = "clean" /\ cmd = "restart" => opt \in Options
    BY DEF OptionsInv
  <2> QED
    BY <1>5, <2>1 DEF Stopping, StopClean, Recovering, CheckPorts, Goto, Stopped, ExitBefore, ControlOK
<1>6. CASE ComposeUp
  <2>1. Scratch \subseteq {"log", "ledger"}
    BY DEF Scratch
  <2> QED
    BY <1>6, <2>1 DEF ComposeUp, ControlOK
<1>7. CASE ComposeUpAgain
  BY <1>7 DEF ComposeUpAgain, ControlOK
<1> QED
  BY <1>1, <1>2, <1>3, <1>4, <1>5, <1>6, <1>7 DEF Next, Work

LEMMA OutdatedType ==
  /\ "current" \in Ledgers /\ {} \subseteq Ledgers
  /\ \A ledgers : Outdated(ledgers) \subseteq Ledgers
  BY DEF Outdated, Ledgers

LEMMA UpData == ASSUME DataOK, NEW S, Up(S) PROVE DataOK'
<1>1. /\ bucket' \in {bucket, Outdated(bucket)} /\ db' \in {db, Outdated(db)}
      /\ log' \in {log, {}, {"old"}} /\ heard' = heard
  BY DEF Up
<1>2. /\ records' = [x \in DOMAIN records |-> records'[x]]
      /\ \A x \in DOMAIN records : records'[x] \in {{}, records[x], Outdated(records[x])}
  BY DEF Up
<1>3. records' \in [Dirs \X Consensus -> SUBSET Ledgers]
  BY <1>2, OutdatedType DEF DataOK
<1> QED
  BY <1>1, <1>3, OutdatedType DEF DataOK

\* Uploaders and the importer read where their directories are.
LEMMA EnvironmentData == ASSUME StackInv, DataOK, Environment PROVE DataOK'
<1>1. \A s \in DOMAIN stack \cap Mounting : \A n \in Consensus :
        records[<<Dir(s), n>>] \subseteq Ledgers
  BY DEF StackInv, DataOK
<1>2. CASE \E n \in Consensus : Stream(n)
  <2>1. PICK n \in Consensus : Stream(n)
    BY <1>2
  <2>2. <<Dir(n), n>> \in Dirs \X Consensus
    BY <2>1 DEF Stream, Running, Has, StackInv, Mounting
  <2>3. records' \in [Dirs \X Consensus -> SUBSET Ledgers]
    BY <2>1, <2>2, OutdatedType DEF Stream, DataOK
  <2> QED
    BY <2>1, <2>3 DEF Stream, DataOK, topic
<1>3. CASE \E u \in Uploaders : Upload(u)
  <2>1. PICK u \in Uploaders : Upload(u)
    BY <1>3
  <2>2. u \in DOMAIN stack \cap Mounting /\ NodeOf(u) \in Consensus
    BY <2>1 DEF Upload, Running, Has, Mounting, NodeOf, Consensus
  <2> QED
    BY <1>1, <2>1, <2>2 DEF Upload, DataOK, topic
<1>4. CASE Import
  <2>1. "importer" \in DOMAIN stack \cap Mounting /\ "node" \in Consensus
    BY <1>4 DEF Import, Running, Has, Mounting, Consensus
  <2>2. UNION {records[<<Dir("importer"), n>>] : n \in Consensus} \subseteq Ledgers
    BY <1>1, <2>1
  <2>3. Source \subseteq Ledgers
    BY <1>1, <2>1, <2>2 DEF Source, DataOK
  <2> QED
    BY <1>4, <2>3 DEF Import, DataOK, topic
<1>5. CASE MonitorCreatesTopic
  BY <1>5 DEF MonitorCreatesTopic, DataOK, streams
<1> QED
  BY <1>2, <1>3, <1>4, <1>5 DEF Environment

LEMMA DataStep == ASSUME StackInv, DataOK, [Next]_vars PROVE DataOK'
<1>1. CASE Environment
  BY <1>1, EnvironmentData
<1>2. CASE ComposeUp \/ ComposeUpAgain
  BY <1>2, UpData DEF ComposeUp, ComposeUpAgain
<1>3. CASE Stopping \/ Recovering
  <2>1. CASE ComposeDown
    BY <2>1, OutdatedType DEF ComposeDown, DataOK
  <2> QED
    BY <1>3, <2>1 DEF Stopping, Recovering, ComposeKill, DataOK, streams, topic
<1>4. CASE StopClean
  BY <1>4 DEF StopClean, DataOK, topic
<1>5. CASE Deliver
  <2>1. heard' = {} \/ heard' = heard \cup {FirstOf(log \ heard)}
    BY <1>5 DEF Deliver
  <2> QED
    BY <1>5, <2>1 DEF Deliver, FirstOf, DataOK, streams
<1>6. CASE Begin \/ CheckPorts \/ WaitForFiringUp \/ Drain \/ Kill \/ Interrupt \/ UNCHANGED vars
  BY <1>6 DEF Begin, CheckPorts, WaitForFiringUp, Drain, Kill, Interrupt, vars, DataOK,
              streams, topic
<1> QED
  BY <1>1, <1>2, <1>3, <1>4, <1>5, <1>6 DEF Next, Work

LEMMA KillType == ASSUME StackInv, ComposeKill PROVE StackInv'
<1>1. DOMAIN stack' \subseteq DOMAIN stack
  BY DEF ComposeKill
<1>2. ASSUME NEW s \in DOMAIN stack'
      PROVE  stack'[s] \in Containers /\ stack'[s].def = stack[s].def
  BY <1>1, <1>2 DEF ComposeKill, StackInv, Containers
<1> QED
  BY <1>1, <1>2 DEF StackInv, Entry, Dir

LEMMA StackStep == ASSUME StackInv, ControlOK, [Next]_vars PROVE StackInv'
<1>1. CASE Stopping \/ Recovering
  BY <1>1, KillType DEF Stopping, Recovering, ComposeDown, StackInv
<1>2. CASE ComposeUp \/ ComposeUpAgain
  <2>1. opt \in Options
    BY <1>2 DEF ComposeUp, ComposeUpAgain, ControlOK
  <2>2. \E S \in Partial \cup {DOMAIN Merged[opt]} : Up(S)
    BY <1>2 DEF ComposeUp, ComposeUpAgain
  <2> QED
    BY <2>1, <2>2, StartedType
<1>3. CASE ~Stopping /\ ~Recovering /\ ~ComposeUp /\ ~ComposeUpAgain
  <2>1. stack' = stack
    BY <1>3 DEF Next, vars, Work, Begin, StopClean, CheckPorts, WaitForFiringUp, Deliver, Drain,
                Kill, Interrupt, Environment, Stream, Upload, Import, MonitorCreatesTopic
  <2> QED
    BY <2>1 DEF StackInv, Entry, Dir
<1> QED
  BY <1>1, <1>2, <1>3

\* Whatever the options of the invocations and the faults, the variables keep
\* their types; only start and restart get to the steps that start containers.
THEOREM TypeCorrect == Spec => []TypeOK
<1> DEFINE Inv == ControlOK /\ DataOK /\ StackInv
<1>1. Init => Inv
  BY InitTInv DEF TInv, TypeOK, ControlOK, DataOK
<1>2. FInv /\ Inv /\ [Next]_vars => Inv'
  BY ControlStep, DataStep, StackStep DEF FInv
<1>3. Inv => TypeOK
  BY Parts
<1> HIDE DEF Inv
<1> QED
  BY <1>1, <1>2, <1>3, FSpec, PTL DEF Spec

-----------------------------------------------------------------------------
(* StackAsAsked.  What is left over when a command gets to `up` does not   *)
(* run: whoever has started a container has started the consensus node,    *)
(* which holds a necessary port until something stops it all.              *)

\* No container runs without the consensus node, and none before `up`.
NodeRuns == \A s : Running(s) => Running("node")
Quiet == pc \in {"up", "again"} => \A s : ~Running(s)

AsAsked ==
    /\ {s \in DOMAIN stack : Running(s)} = Asked(opt)
    /\ \A s \in Mounting : Running(s) => Dir(s) = opt.dir
    /\ Entry("node") = (IF opt.multi THEN "many" ELSE "one")
    /\ Entry("importer") =
        (IF opt.full THEN "minio" ELSE IF opt.multi THEN "localAll" ELSE "local")

UpInv == pc \in {"fire", "topic"} /\ Running("monitor") => AsAsked

SInv == NodeRuns /\ Quiet /\ UpInv

LEMMA InitSInv == Init => SInv
  BY NoContainer DEF Init, SInv, NodeRuns, Quiet, UpInv

\* What the merged files list, and which of it is to run.
LEMMA Listing ==
  ASSUME NEW o \in Options
  PROVE  /\ {s \in DOMAIN Merged[o] : Merged[o][s] # "disabled"} = Asked(o)
         /\ Merged[o]["node"] = (IF o.multi THEN "many" ELSE "one")
<1> DEFINE mode == With(~o.full, "evm", Definitions.base)
           blockNode == With(~o.block, "noBlock", mode)
           multiNode == With(o.multi, "multinode", blockNode)
           multiBlock == With(o.multi /\ o.block, "multinodeBlock", multiNode)
           multiMode == With(~o.full /\ o.multi, "multinodeEvm", multiBlock)
           all == With(o.user, "user", multiMode)
           On(m) == {s \in DOMAIN m : m[s] # "disabled"}
<1>1. /\ o.full \in BOOLEAN /\ o.multi \in BOOLEAN
      /\ o.block \in BOOLEAN /\ o.user \in BOOLEAN
  BY OptionsAssumption
<1>2. /\ On(mode) = {"node", "monitor", "importer", "block"}
                      \cup (IF o.full THEN {"uploader"} ELSE {})
      /\ "node" \in DOMAIN mode /\ mode["node"] = "one"
  BY <1>1 DEF With, Definitions
<1> HIDE DEF mode
<1>3. /\ On(blockNode) = {"node", "monitor", "importer"}
                      \cup (IF o.full THEN {"uploader"} ELSE {})
                      \cup (IF o.block THEN {"block"} ELSE {})
      /\ "node" \in DOMAIN blockNode /\ blockNode["node"] = "one"
  BY <1>1, <1>2 DEF With, Definitions
<1> HIDE DEF blockNode
<1>4. /\ On(multiNode) = {"node", "monitor", "importer"}
                      \cup (IF o.full THEN {"uploader"} ELSE {})
                      \cup (IF o.block THEN {"block"} ELSE {})
                      \cup (IF o.multi THEN {"node1", "uploader1"} ELSE {})
      /\ "node" \in DOMAIN multiNode
      /\ multiNode["node"] = (IF o.multi THEN "many" ELSE "one")
  BY <1>1, <1>3 DEF With, Definitions
<1> HIDE DEF multiNode
<1>5. /\ On(multiBlock) = {"node", "monitor", "importer"}
                      \cup (IF o.full THEN {"uploader"} ELSE {})
                      \cup (IF o.block THEN {"block"} ELSE {})
                      \cup (IF o.multi THEN {"node1", "uploader1"} ELSE {})
                      \cup (IF o.multi /\ o.block THEN {"block1"} ELSE {})
      /\ "node" \in DOMAIN multiBlock
      /\ multiBlock["node"] = (IF o.multi THEN "many" ELSE "one")
  BY <1>1, <1>4 DEF With, Definitions
<1> HIDE DEF multiBlock
<1>6. /\ On(multiMode) = {"node", "monitor", "importer"}
                      \cup (IF o.full THEN {"uploader"} ELSE {})
                      \cup (IF o.block THEN {"block"} ELSE {})
                      \cup (IF o.multi THEN {"node1"} ELSE {})
                      \cup (IF o.multi /\ o.full THEN {"uploader1"} ELSE {})
                      \cup (IF o.multi /\ o.block THEN {"block1"} ELSE {})
      /\ "node" \in DOMAIN multiMode
      /\ multiMode["node"] = (IF o.multi THEN "many" ELSE "one")
  BY <1>1, <1>5 DEF With, Definitions
<1> HIDE DEF multiMode
<1>7. On(all) = Asked(o) /\ "node" \in DOMAIN all /\ all["node"] = multiMode["node"]
  BY <1>1, <1>6 DEF With, Definitions, Asked
<1>8. Merged[o] = all
  BY DEF Merged, mode, blockNode, multiNode, multiBlock, multiMode
<1> HIDE DEF all
<1> QED
  BY <1>6, <1>7, <1>8

\* An `up` where nothing runs: what runs then is of S, and only an `up` of
\* everything starts the monitor.
LEMMA UpAsAskedFor ==
  ASSUME opt \in Options, opt' = opt, \A s : ~Running(s),
         NEW S \in Partial \cup {DOMAIN Merged[opt]}, Up(S)
  PROVE  NodeRuns' /\ (Running("monitor")' => AsAsked')
<1>1. S \subseteq DOMAIN Merged[opt] /\ "node" \in DOMAIN Merged[opt]
  BY Startable, HasNode
<1>2. DOMAIN stack' = DOMAIN stack \cup S
  BY DEF Up, Started
<1>3. ASSUME NEW s \in S
      PROVE  /\ Running(s)' <=> Merged[opt][s] # "disabled"
             /\ stack'[s].def = Definition(s, opt)
  <2>1. stack'[s] = [def |-> Definition(s, opt), runs |-> Merged[opt][s] # "disabled"]
    BY <1>3 DEF Up, Started
  <2>2. PICK on \in BOOLEAN :
          /\ stack'[s] = [def |-> Definition(s, opt), runs |-> on]
          /\ on <=> Merged[opt][s] # "disabled"
    BY <2>1, Zenon
  <2>3. stack'[s].def = Definition(s, opt) /\ stack'[s].runs = on
    BY <2>2
  <2>4. s \in DOMAIN stack'
    BY <1>2, <1>3
  <2> QED
    BY <2>2, <2>3, <2>4, Zenon DEF Running, Has
<1>4. ASSUME NEW s, s \notin S PROVE ~Running(s)'
  <2>1. s \in DOMAIN stack' => s \in DOMAIN stack /\ stack'[s] = stack[s]
    BY <1>2, <1>4 DEF Up, Started
  <2> QED
    BY <2>1 DEF Running, Has
<1>5. NodeRuns'
  <2>1. Merged[opt]["node"] # "disabled"
    BY Listing
  <2>2. S = {} \/ "node" \in S
    BY <1>1 DEF Partial
  <2> QED
    BY <1>3, <1>4, <2>1, <2>2 DEF NodeRuns
<1>6. ASSUME Running("monitor")' PROVE AsAsked'
  <2>1. S = DOMAIN Merged[opt]
    BY <1>4, <1>6 DEF Partial
  <2>2. {s \in DOMAIN stack' : Running(s)'} = {s \in DOMAIN Merged[opt] : Merged[opt][s] # "disabled"}
    BY <1>2, <1>3, <1>4, <2>1
  <2>3. {s \in DOMAIN stack : Running(s)}' = Asked(opt)
    BY <2>2, Listing
  <2>4. \A s \in Mounting : Running(s)' => Dir(s)' = opt.dir
    BY <1>3, <1>4 DEF Dir, Definition
  <2>5. "importer" \in DOMAIN Merged[opt]
    BY Listing DEF Asked
  <2>6. Entry("node")' = Merged[opt]["node"] /\ Entry("importer")' = Merged[opt]["importer"]
    BY <1>1, <1>3, <2>1, <2>5 DEF Entry, Definition
  <2>7. Merged[opt]["importer"] =
          (IF opt.full THEN "minio" ELSE IF opt.multi THEN "localAll" ELSE "local")
    BY Composition
  <2>8. Asked(opt)' = Asked(opt)
    BY DEF Asked
  <2> QED
    BY <2>3, <2>4, <2>6, <2>7, <2>8, Listing DEF AsAsked
<1> QED
  BY <1>5, <1>6

LEMMA SStep == ASSUME FInv, StackInv, SInv, [Next]_vars PROVE SInv'
<1>1. CASE ComposeUp \/ ComposeUpAgain
  <2>1. opt \in Options /\ opt' = opt /\ \A s : ~Running(s)
    BY <1>1 DEF ComposeUp, ComposeUpAgain, FInv, OptionsInv, SInv, Quiet
  <2>2. PICK S \in Partial \cup {DOMAIN Merged[opt]} : Up(S)
    BY <1>1 DEF ComposeUp, ComposeUpAgain
  <2>3. NodeRuns' /\ (Running("monitor")' => AsAsked')
    BY <2>1, <2>2, UpAsAskedFor
  <2>4. pc' \in {"recover.kill", "fire"}
    BY <1>1 DEF ComposeUp, ComposeUpAgain
  <2> QED
    BY <2>3, <2>4 DEF SInv, Quiet, UpInv
<1>2. CASE Stopping \/ Recovering
  <2>1. CASE ComposeKill
    <3>1. \A s \in DOMAIN stack' : stack'[s].runs = FALSE
      BY <2>1 DEF ComposeKill, StackInv, Containers
    <3>2. \A s : ~Running(s)'
      BY <3>1 DEF Running, Has
    <3>3. pc' \in {"down", "recover.down", "clean", "again"}
      BY <1>2 DEF Stopping, Recovering, Goto
    <3> QED
      BY <3>2, <3>3 DEF SInv, NodeRuns, Quiet, UpInv
  <2>2. CASE ComposeDown
    <3>1. \A s : ~Running(s)'
      BY <2>2 DEF ComposeDown, Running, Has
    <3> QED
      BY <3>1 DEF SInv, NodeRuns, Quiet, UpInv
  <2> QED
    BY <1>2, <2>1, <2>2 DEF Stopping, Recovering
<1>3. CASE ~Stopping /\ ~Recovering /\ ~ComposeUp /\ ~ComposeUpAgain
  <2>1. stack' = stack
    BY <1>3 DEF Next, vars, Work, Begin, StopClean, CheckPorts, WaitForFiringUp, Deliver, Drain,
                Kill, Interrupt, Environment, Stream, Upload, Import, MonitorCreatesTopic
  <2>2. /\ \A s : Running(s)' = Running(s) /\ Entry(s)' = Entry(s) /\ Dir(s)' = Dir(s)
        /\ NodeRuns' = NodeRuns
    BY <2>1 DEF Running, Has, Entry, Dir, NodeRuns
  <2>3. \/ pc' = pc /\ opt' = opt
        \/ pc = "ports" /\ pc' = "up" /\ ~Running("node")
        \/ pc = "fire" /\ pc' = "topic" /\ opt' = opt
        \/ pc' \notin {"up", "again", "fire", "topic"}
    BY <1>3 DEF Next, vars, control, Work, Begin, StopClean, CheckPorts, WaitForFiringUp, Deliver,
                Drain, Kill, Interrupt, Environment, Stream, Upload, Import, MonitorCreatesTopic,
                Goto, Exit, ExitBefore, Stopped
  <2>4. opt' = opt => AsAsked' = AsAsked
    BY <2>1, <2>2 DEF AsAsked
  <2>5. Quiet'
    BY <2>2, <2>3 DEF SInv, NodeRuns, Quiet
  <2>6. UpInv'
    BY <2>2, <2>3, <2>4 DEF SInv, UpInv
  <2> QED
    BY <2>2, <2>5, <2>6 DEF SInv
<1> QED
  BY <1>1, <1>2, <1>3

\* Whatever containers earlier invocations have left, once the services answer
\* and the monitor runs, exactly the services that the options ask for run, with
\* their directory and in their mode.
THEOREM StackAsAskedCorrect == Spec => []StackAsAsked
<1> DEFINE Inv == ControlOK /\ StackInv /\ SInv
<1>1. Init => Inv
  BY InitTInv, InitSInv DEF TInv, TypeOK, ControlOK
<1>2. FInv /\ Inv /\ [Next]_vars => Inv'
  BY ControlStep, StackStep, SStep DEF FInv
<1>3. Inv => StackAsAsked
  BY DEF SInv, UpInv, AsAsked, StackAsAsked
<1> HIDE DEF Inv
<1> QED
  BY <1>1, <1>2, <1>3, FSpec, PTL DEF Spec

-----------------------------------------------------------------------------
(* The refinement of ComposeProject, the project taken as one thing, as    *)
(* LocalNode takes it.  With the monitor everything runs, and without it   *)
(* what a failed `up` has left; the volumes hold uploads and imports.      *)

Together ==
    IF DOMAIN stack = {} THEN "none"
    ELSE IF Running("monitor") THEN "up"
    ELSE IF Running("node") THEN "partial" ELSE "stopped"

Volumes == IF bucket = {} /\ db = {} THEN "empty" ELSE "filled"

Project == INSTANCE ComposeProject WITH containers <- Together, volumes <- Volumes

\* Who has started any container has started the consensus node.
NodeIn == DOMAIN stack # {} => "node" \in DOMAIN stack

\* What an `up` with nothing running makes of the containers.
LEMMA UpProject ==
  ASSUME opt \in Options, \A s : ~Running(s), NodeIn,
         NEW S \in Partial \cup {DOMAIN Merged[opt]}, Up(S)
  PROVE  NodeIn' /\ [Project!Up]_(Project!vars)
<1>1. S \subseteq DOMAIN Merged[opt] /\ (S = {} \/ "node" \in S)
  BY Startable, HasNode DEF Partial
<1>2. DOMAIN stack' = DOMAIN stack \cup S
  BY DEF Up, Started
<1>3. NodeIn'
  BY <1>1, <1>2 DEF NodeIn
<1>4. Volumes' = Volumes
  BY DEF Up, Outdated, Volumes
<1>5. Together \in {"none", "stopped"}
  BY DEF Together
<1>6. CASE S = {}
  <2>1. DOMAIN stack' = DOMAIN stack /\ \A s \in DOMAIN stack : stack'[s] = stack[s]
    BY <1>2, <1>6 DEF Up, Started
  <2>2. Together' = Together
    BY <2>1 DEF Together, Running, Has
  <2> QED
    BY <1>3, <1>4, <2>2 DEF Project!vars
<1>7. CASE "node" \in S
  <2>1. stack'["node"] = [def |-> Definition("node", opt), runs |-> Merged[opt]["node"] # "disabled"]
    BY <1>7 DEF Up, Started
  <2>2. PICK on \in BOOLEAN :
          /\ stack'["node"] = [def |-> Definition("node", opt), runs |-> on]
          /\ on <=> Merged[opt]["node"] # "disabled"
    BY <2>1, Zenon
  <2>3. "node" \in DOMAIN stack' /\ stack'["node"].runs = on /\ on
    BY <1>2, <1>7, <2>2, Listing
  <2>4. Running("node")'
    BY <2>3, Zenon DEF Running, Has
  <2>5. Together' \in {"partial", "up"}
    BY <2>3, <2>4 DEF Together
  <2> QED
    BY <1>3, <1>4, <1>5, <2>5 DEF Project!Up
<1> QED
  BY <1>1, <1>6, <1>7

LEMMA KillProject ==
  ASSUME StackInv, NodeIn, ComposeKill PROVE NodeIn' /\ [Project!Kill]_(Project!vars)
<1>1. /\ DOMAIN stack' = DOMAIN stack \cap Listed
      /\ \A s \in DOMAIN stack' : stack'[s].runs = FALSE
  BY DEF ComposeKill, StackInv, Containers
<1>2. "node" \in Listed
  BY DEF Listed, Definitions
<1>3. NodeIn' /\ (DOMAIN stack' = {} <=> DOMAIN stack = {})
  BY <1>1, <1>2 DEF NodeIn
<1>4. \A s : ~Running(s)'
  BY <1>1 DEF Running, Has
<1>5. Together' = (IF DOMAIN stack = {} THEN "none" ELSE "stopped")
  BY <1>3, <1>4 DEF Together
<1>6. Volumes' = Volumes
  BY DEF ComposeKill, streams, Volumes
<1>7. CASE DOMAIN stack = {}
  <2>1. Together = "none"
    BY <1>7 DEF Together
  <2> QED
    BY <1>3, <1>5, <1>6, <1>7, <2>1 DEF Project!vars
<1>8. CASE DOMAIN stack # {}
  <2>1. Together # "none"
    BY <1>8 DEF Together
  <2> QED
    BY <1>3, <1>5, <1>6, <1>8, <2>1 DEF Project!Kill
<1> QED
  BY <1>7, <1>8

LEMMA DownProject == ASSUME ComposeDown PROVE NodeIn' /\ Project!Down
<1>1. DOMAIN stack' = {} /\ bucket' = {} /\ db' = {}
  BY DEF ComposeDown
<1> QED
  BY <1>1 DEF NodeIn, Together, Volumes, Project!Down

\* Uploaders and the importer run with the consensus node, and write into the
\* volumes; everything else that the containers do is of no concern here.
LEMMA EnvironmentProject ==
  ASSUME NodeRuns, NodeIn, Environment PROVE NodeIn' /\ [Project!Write]_(Project!vars)
<1>1. stack' = stack
  BY DEF Environment, Stream, Upload, Import, MonitorCreatesTopic
<1>2. NodeIn' /\ Together' = Together
  BY <1>1 DEF NodeIn, Together, Running, Has
<1>3. CASE UNCHANGED <<bucket, db>>
  BY <1>2, <1>3 DEF Project!vars, Volumes
<1>4. CASE ~UNCHANGED <<bucket, db>>
  <2>1. (\E u : Upload(u)) \/ Import
    BY <1>4 DEF Environment, Stream, MonitorCreatesTopic, streams
  <2>2. \E s : Running(s)
    BY <2>1 DEF Upload, Import
  <2>3. Running("node") /\ DOMAIN stack # {}
    BY <2>2 DEF NodeRuns, Running, Has
  <2>4. Together \in {"partial", "up"}
    BY <2>3 DEF Together
  <2>5. bucket \subseteq bucket' /\ db \subseteq db'
    BY <2>1 DEF Upload, Import
  <2>6. Volumes' = "filled"
    BY <1>4, <2>5 DEF Volumes
  <2> QED
    BY <1>2, <2>4, <2>6 DEF Project!Write
<1> QED
  BY <1>3, <1>4

LEMMA ProjectStep ==
  ASSUME FInv, StackInv, SInv, NodeIn, [Next]_vars
  PROVE  NodeIn' /\ [Project!Next]_(Project!vars)
<1>1. CASE ComposeUp \/ ComposeUpAgain
  <2>1. opt \in Options /\ \A s : ~Running(s)
    BY <1>1 DEF ComposeUp, ComposeUpAgain, FInv, OptionsInv, SInv, Quiet
  <2>2. PICK S \in Partial \cup {DOMAIN Merged[opt]} : Up(S)
    BY <1>1 DEF ComposeUp, ComposeUpAgain
  <2> QED
    BY <2>1, <2>2, UpProject DEF Project!Next
<1>2. CASE Stopping \/ Recovering
  BY <1>2, KillProject, DownProject DEF Stopping, Recovering, Project!Next
<1>3. CASE Environment
  BY <1>3, EnvironmentProject DEF SInv, Project!Next
<1>4. CASE \/ Begin \/ StopClean \/ CheckPorts \/ WaitForFiringUp \/ Deliver \/ Drain
           \/ Kill \/ Interrupt \/ UNCHANGED vars
  <2>1. UNCHANGED <<stack, bucket, db>>
    BY <1>4 DEF Begin, StopClean, CheckPorts, WaitForFiringUp, Deliver, Drain, Kill,
                Interrupt, vars, streams
  <2> QED
    BY <2>1 DEF NodeIn, Project!vars, Together, Volumes, Running, Has
<1> QED
  BY <1>1, <1>2, <1>3, <1>4 DEF Next, Work

\* However the options of the invocations differ, and whatever fails or is
\* killed, the containers together behave as the one project that LocalNode
\* takes them to be: only an `up` makes anything run, volumes are written only
\* while it runs, a `kill` leaves nothing running, and only `down -v` takes the
\* project or what its volumes hold away.
THEOREM ComposeProjectCorrect == Spec => Project!Spec
<1> DEFINE Inv == ControlOK /\ StackInv /\ SInv /\ NodeIn
<1>1. Init => Inv /\ Project!Init
  <2>1. Init => DOMAIN stack = {}
    BY DEF Init
  <2> QED
    BY <2>1, InitTInv, InitSInv
    DEF Init, TInv, TypeOK, ControlOK, NodeIn, Project!Init, Together, Volumes
<1>2. FInv /\ Inv /\ [Next]_vars => Inv' /\ [Project!Next]_(Project!vars)
  BY ControlStep, StackStep, SStep, ProjectStep DEF FInv
<1> HIDE DEF Inv
<1> QED
  BY <1>1, <1>2, FSpec, PTL DEF Spec, Project!Spec

=============================================================================
