----------------------------- MODULE LocalNode -----------------------------
(***************************************************************************)
(* The CLI of the local node: every invocation is a process that runs one  *)
(* procedure of StateData under a StateController, and all invocations act *)
(* on one Docker installation and one working directory.                   *)
(*                                                                         *)
(* A step is what one process does between two shell commands, two file    *)
(* writes or two awaits: shelljs runs commands synchronously, so the       *)
(* callbacks of a process (its SIGINT handler, the promises it has not     *)
(* awaited) run only where the process waits, but another process can act  *)
(* between any two commands.                                               *)
(***************************************************************************)
EXTENDS Naturals, Sequences, FiniteSets

CONSTANTS
    Proc,       \* the invocations of the CLI
    Options,    \* the commands and options they may be given
    Modes,      \* what the options make InitState write and CleanUpState revert
    NAccounts,  \* accounts that one invocation creates
    Faults,     \* what may go wrong outside the program
    Overlap     \* may an invocation start while another one is running?

\* StateData: the states of every procedure, in order.
Procedure ==
    [ start |-> <<"Init", "Start", "NetworkPrep", "AccountCreation",
                  "ResourceCreation", "CleanUp", "Attach">>,
      restart |-> <<"CleanUp", "Stop", "Init", "Start", "NetworkPrep",
                    "AccountCreation", "ResourceCreation", "CleanUp", "Attach">>,
      stop |-> <<"Stop">>,
      accountCreation |-> <<"AccountCreation">> ]

\* The point of each state at which its onStart begins.
Entry ==
    [ CleanUp |-> "clean.node", Stop |-> "stop.kill", Init |-> "init.check",
      Start |-> "start.images", NetworkPrep |-> "net.fees",
      AccountCreation |-> "acc.begin", ResourceCreation |-> "res.begin",
      Attach |-> "attach" ]

FaultKinds == {"preflight", "port", "copy", "images", "compose1", "compose",
               "mount", "insert", "query", "split", "accounts", "down", "sigint", "kill"}

ASSUME ModesAssumption == Modes \cap {"absent", "original", "mixed", "none"} = {}
ASSUME OptionsAssumption ==
    Options \subseteq [command : DOMAIN Procedure, mode : Modes, async : BOOLEAN,
                       blocklist : BOOLEAN, resources : BOOLEAN]
ASSUME NAccountsAssumption == NAccounts \in Nat
ASSUME FaultsAssumption == Faults \subseteq FaultKinds
ASSUME OverlapAssumption == Overlap \in BOOLEAN
ASSUME ProcAssumption == Proc \cap {"topic", "resource"} = {}

Services == {"node", "mirror"}
NotRunning == [s \in Services |-> "none"]

VARIABLES
    cmd,        \* the procedure of the process's StateController
    opts,       \* its command line
    curr,       \* currStateNum, counted from 1
    pc,         \* where the process is
    exit,       \* how it ended
    jobs,       \* account creations launched and not yet carried out
    seen,       \* the ledger in which it saw the topic being created (0: none)
    containers, \* "none", "stopped", "up", or "partial": all but the monitor run
    booted,     \* the services that have read their configuration and listen
    running,    \* the configuration they have read
    ledger,     \* number of the current ledger: a new one per `down -v`
    entities,   \* what has been created in it, in order of entity id
    fees,       \* the fee files present in the mirror node's database
    logs,       \* ledgers with record files under workDir/network-logs
    boot,       \* bootstrap.properties of the working directory
    mirror      \* application.yml of the working directory

control == <<cmd, opts, curr, pc, exit, jobs, seen>>
docker == <<containers, booted, running>>
data == <<ledger, entities, fees, logs>>
files == <<boot, mirror>>
vars == <<control, docker, data, files>>

Init ==
    /\ opts \in [Proc -> Options]
    /\ cmd = [p \in Proc |-> opts[p].command]
    /\ curr = [p \in Proc |-> 1]
    /\ pc = [p \in Proc |-> "new"]
    /\ exit = [p \in Proc |-> "none"]
    /\ jobs = [p \in Proc |-> 0]
    /\ seen = [p \in Proc |-> 0]
    /\ containers = "none" /\ booted = {} /\ running = NotRunning
    /\ ledger = 1 /\ entities = <<>> /\ fees = {} /\ logs = {}
    /\ boot = "absent" /\ mirror = "absent"

-----------------------------------------------------------------------------
(* The StateController *)

Ended(p) == pc[p] = "done"
Active(p) == pc[p] \notin {"new", "done"}

\* The process is in an await that gives control back to the event loop.
AwaitPoints == {"init.check", "init.ports", "start.mirror", "start.node",
                "net.fees", "net.rates", "net.topic", "acc.wait", "res.wait",
                "stalled"}
Waiting(p) ==
    \/ pc[p] \in AwaitPoints
    \/ pc[p] = "acc.begin" /\ opts[p].blocklist

Goto(p, l) == pc' = [pc EXCEPT ![p] = l] /\ UNCHANGED <<cmd, opts, curr, exit>>

ExitAs(p, how) ==
    /\ exit' = [exit EXCEPT ![p] = how]
    /\ pc' = [pc EXCEPT ![p] = "done"]
    /\ UNCHANGED <<cmd, opts, curr>>

\* update(Finish): exit(0) after the last state, otherwise enter the next one.
Finish(p) ==
    \/ /\ curr[p] >= Len(Procedure[cmd[p]])
       /\ ExitAs(p, "finished")
    \/ /\ curr[p] < Len(Procedure[cmd[p]])
       /\ curr' = [curr EXCEPT ![p] = @ + 1]
       /\ pc' = [pc EXCEPT ![p] = Entry[Procedure[cmd[p]][curr[p] + 1]]]
       /\ UNCHANGED <<cmd, opts, exit>>

\* Mutant of Fail: exits before CleanUpState has run.
Fail_WithoutCleanUp(p) == ExitAs(p, "failed")

\* update(UnknownError or UnresolvableError): CleanUpState, then exit(1).
Fail(p) == Goto(p, "fail.node")

\* A rejection of onStart: exit(1) by transitionToNextState, or by yargs when
\* it comes from the first state; CleanUpState does not run.
Crash(p) == ExitAs(p, "crashed")

Launch(p) ==
    /\ pc[p] = "new"
    /\ Overlap \/ \A q \in Proc : ~Active(q)
    /\ Goto(p, Entry[Procedure[cmd[p]][1]])
    /\ UNCHANGED <<jobs, seen, docker, data, files>>

-----------------------------------------------------------------------------
(* InitState *)

\* The checks of Docker: Configuration has them in detail. A version of Docker
\* compose that semver cannot parse makes it throw.
InitCheck(p) ==
    /\ pc[p] = "init.check"
    /\ \/ Goto(p, "init.ports")
       \/ "preflight" \in Faults /\ (Fail(p) \/ Crash(p))
    /\ UNCHANGED <<jobs, seen, docker, data, files>>

\* isPortInUse: running containers hold the necessary ports; others may too.
InitPorts(p) ==
    /\ pc[p] = "init.ports"
    /\ \/ containers # "up" /\ Goto(p, "init.copy")
       \/ containers \in {"up", "partial"} /\ ExitAs(p, "portInUse")
       \/ "port" \in Faults /\ ExitAs(p, "portInUse")
    /\ UNCHANGED <<jobs, seen, docker, data, files>>

\* prepareWorkDirectory: an error of either copy is logged and ignored.
PrepareWorkDirectory(p) ==
    /\ pc[p] = "init.copy"
    /\ boot' = "original" \/ ("copy" \in Faults /\ boot' = boot)
    /\ mirror' = "original" \/ ("copy" \in Faults /\ mirror' = mirror)
    /\ Goto(p, "init.node")
    /\ UNCHANGED <<jobs, seen, docker, data>>

\* The file is written anew; that throws in a directory that does not exist,
\* because the copy has failed and so has every one before it.
ConfigureNodeProperties(p) ==
    /\ pc[p] = "init.node"
    /\ \/ boot' = opts[p].mode /\ Goto(p, "init.mirror")
       \/ boot = "absent" /\ boot' = boot /\ Crash(p)
    /\ UNCHANGED <<jobs, seen, docker, data, mirror>>

\* Keys are added to what application.yml already holds, which is not the
\* original when the copy has failed and nobody has reverted the file.
ConfigureMirrorNodeProperties(p) ==
    /\ pc[p] = "init.mirror"
    /\ \/ /\ mirror # "absent"
          /\ mirror' = IF mirror \in {"original", opts[p].mode} THEN opts[p].mode
                                                              ELSE "mixed"
          /\ Finish(p)
       \/ mirror = "absent" /\ mirror' = mirror /\ Crash(p)
    /\ UNCHANGED <<jobs, seen, docker, data, boot>>

-----------------------------------------------------------------------------
(* StartState, with the RecoveryState that update(DockerError) runs in it *)

\* Without output of `docker compose config` checkDockerImages throws a
\* TypeError, which transitionToNextState swallows: nothing runs any more.
CheckDockerImages(p) ==
    /\ pc[p] = "start.images"
    /\ \/ Goto(p, "start.up")
       \/ "images" \in Faults /\ Goto(p, "stalled")
    /\ UNCHANGED <<jobs, seen, docker, data, files>>

\* dockerComposeUp as its caller sees it: exit code 1 leads to l1, any other
\* code to l, and a mount error in the output ends the process with exit(0).
\* When it fails it has started all of the containers, some or none.
ComposeUp(p, l, l1) ==
    /\ UNCHANGED <<booted, running>>
    /\ \/ containers' = "up" /\ Goto(p, l)
       \/ /\ containers' \in {containers, "partial", "up"}
          /\ containers = "up" => containers' = "up"
          /\ \/ "compose1" \in Faults /\ Goto(p, l1)
             \/ "compose" \in Faults /\ Goto(p, l)
             \/ "mount" \in Faults /\ ExitAs(p, "mountError")

StartUp(p) ==
    /\ pc[p] = "start.up"
    /\ ComposeUp(p, "start.mirror", "recover.kill")
    /\ UNCHANGED <<jobs, seen, data, files>>

\* `docker compose kill`: its exit code is ignored, here and below.
ComposeKill ==
    \/ /\ containers' = IF containers = "none" THEN "none" ELSE "stopped"
       /\ booted' = {} /\ running' = NotRunning
    \/ "down" \in Faults /\ UNCHANGED docker

\* `docker compose down -v`: containers and volumes, hence the ledger, go.
ComposeDown ==
    \/ /\ containers' = "none" /\ booted' = {} /\ running' = NotRunning
       /\ ledger' = ledger + 1 /\ entities' = <<>> /\ fees' = {}
    \/ "down" \in Faults /\ UNCHANGED <<docker, ledger, entities, fees>>

RecoveryKill(p) ==
    /\ pc[p] = "recover.kill"
    /\ ComposeKill /\ Goto(p, "recover.down")
    /\ UNCHANGED <<jobs, seen, data, files>>

RecoveryDown(p) ==
    /\ pc[p] = "recover.down"
    /\ ComposeDown /\ Goto(p, "recover.clean")
    /\ UNCHANGED <<jobs, seen, logs, files>>

\* Only the package's own network-logs directory is emptied, which holds no
\* record files; the UnknownError emitted after it has no observer.
RecoveryClean(p) ==
    /\ pc[p] = "recover.clean"
    /\ Goto(p, "start.again")
    /\ UNCHANGED <<jobs, seen, docker, data, files>>

\* The exit code of the second attempt is not looked at.
StartUpAgain(p) ==
    /\ pc[p] = "start.again"
    /\ ComposeUp(p, "start.mirror", "start.mirror")
    /\ UNCHANGED <<jobs, seen, data, files>>

\* Mutant of WaitForFiringUp: the attempts are not counted.
WaitForFiringUp_Unbounded(p, here, service, next) ==
    /\ pc[p] = here
    /\ service \in booted /\ next
    /\ UNCHANGED <<jobs, seen, docker, data, files>>

\* waitForFiringUp: the port answers, or the attempts run out.
WaitForFiringUp(p, here, service, next) ==
    /\ pc[p] = here
    /\ \/ service \in booted /\ next
       \/ Fail(p)
    /\ UNCHANGED <<jobs, seen, docker, data, files>>

WaitForMirror(p) ==
    WaitForFiringUp(p, "start.mirror", "mirror", Goto(p, "start.node"))
WaitForNode(p) == WaitForFiringUp(p, "start.node", "node", Finish(p))

-----------------------------------------------------------------------------
(* NetworkPrepState *)

\* importFees, one of the two files: query it, then insert it into the
\* database by a command whose failure goes unnoticed.
ImportFile(p, here, file, next) ==
    /\ pc[p] = here
    /\ \/ /\ "node" \in booted /\ Goto(p, next)
          /\ \/ fees' = fees \cup {file}
             \/ "insert" \in Faults /\ fees' = fees
       \/ /\ "node" \notin booted \/ "query" \in Faults
          /\ Crash(p) /\ fees' = fees
    /\ UNCHANGED <<jobs, seen, docker, ledger, entities, logs, files>>

ImportFees(p) == ImportFile(p, "net.fees", 111, "net.rates")
ImportExchangeRates(p) == ImportFile(p, "net.rates", 112, "net.topic")

Created(e) == \E i \in DOMAIN entities : entities[i] = e

\* Mutant of WaitForTopic: the promise is not awaited.
WaitForTopic_NotAwaited(p) ==
    /\ pc[p] = "net.topic"
    /\ Finish(p)
    /\ seen' = [seen EXCEPT ![p] = ledger]
    /\ UNCHANGED <<jobs, docker, data, files>>

\* The monitor's log says that the topic has been created.
TopicLogged == Created("topic") /\ containers # "none"

\* waitForTopicCreation: the log shows the topic.  The promise has no other way
\* to be settled: not when the line is cut in two by the chunks of the log, each
\* searched by itself, nor when no monitor runs and `docker logs -f` ends.
WaitForTopic(p) ==
    /\ pc[p] = "net.topic"
    /\ \/ /\ TopicLogged
          /\ Finish(p)
          /\ seen' = [seen EXCEPT ![p] = ledger]
       \/ /\ IF TopicLogged THEN "split" \in Faults ELSE containers # "up"
          /\ Goto(p, "stalled") /\ seen' = seen
    /\ UNCHANGED <<jobs, docker, data, files>>

-----------------------------------------------------------------------------
(* AccountCreationState and ResourceCreationState *)

\* Mutant of BeginAccounts: the accounts are never awaited.
BeginAccounts_NotAwaited(p) ==
    /\ pc[p] = "acc.begin"
    /\ jobs' = [jobs EXCEPT ![p] = NAccounts]
    /\ Finish(p)
    /\ UNCHANGED <<seen, docker, data, files>>

\* The accounts are launched; only without --async are they awaited.
BeginAccounts(p) ==
    /\ pc[p] = "acc.begin"
    /\ jobs' = [jobs EXCEPT ![p] = NAccounts]
    /\ IF opts[p].async THEN Finish(p) ELSE Goto(p, "acc.wait")
    /\ UNCHANGED <<seen, docker, data, files>>

\* A launched creation proceeds whenever its process waits, whatever for.
CreateAccount(p) ==
    /\ jobs[p] > 0 /\ Waiting(p)
    /\ "node" \in booted
    /\ jobs' = [jobs EXCEPT ![p] = @ - 1]
    /\ entities' = Append(entities, p)
    /\ UNCHANGED <<cmd, opts, curr, pc, exit, seen, docker, ledger, fees, logs, files>>

\* A failed creation rejects the awaited promise, or is an unhandled rejection.
AccountFails(p) ==
    /\ jobs[p] > 0 /\ Waiting(p)
    /\ "node" \notin booted \/ "accounts" \in Faults
    /\ Crash(p)
    /\ UNCHANGED <<jobs, seen, docker, data, files>>

AccountsCreated(p) ==
    /\ pc[p] = "acc.wait" /\ jobs[p] = 0
    /\ Finish(p)
    /\ UNCHANGED <<jobs, seen, docker, data, files>>

BeginResources(p) ==
    /\ pc[p] = "res.begin"
    /\ IF opts[p].resources /\ ~opts[p].async THEN Goto(p, "res.wait") ELSE Finish(p)
    /\ UNCHANGED <<jobs, seen, docker, data, files>>

CreateResources(p) ==
    /\ pc[p] = "res.wait"
    /\ \/ /\ "node" \in booted /\ Finish(p)
          /\ entities' = Append(entities, "resource")
       \/ /\ "node" \notin booted \/ "accounts" \in Faults
          /\ Crash(p) /\ entities' = entities
    /\ UNCHANGED <<jobs, seen, docker, ledger, fees, logs, files>>

-----------------------------------------------------------------------------
(* CleanUpState: as a state of a procedure, and from update before exit(1) *)

Reverted(f) == IF f = "absent" THEN f ELSE "original"

RevertNodeProperties(p) ==
    /\ \/ pc[p] = "clean.node" /\ Goto(p, "clean.mirror")
       \/ pc[p] = "fail.node" /\ Goto(p, "fail.mirror")
    /\ boot' = Reverted(boot)
    /\ UNCHANGED <<jobs, seen, docker, data, mirror>>

RevertMirrorNodeProperties(p) ==
    /\ \/ pc[p] = "clean.mirror" /\ Finish(p)
       \/ pc[p] = "fail.mirror" /\ ExitAs(p, "failed")
    /\ mirror' = Reverted(mirror)
    /\ UNCHANGED <<jobs, seen, docker, data, boot>>

AttachState(p) ==
    /\ pc[p] = "attach" /\ Finish(p)
    /\ UNCHANGED <<jobs, seen, docker, data, files>>

-----------------------------------------------------------------------------
(* StopState *)

StopKill(p) ==
    /\ pc[p] = "stop.kill"
    /\ ComposeKill /\ Goto(p, "stop.down")
    /\ UNCHANGED <<jobs, seen, data, files>>

\* Mutant of StopDown: `docker compose down` without -v keeps the volumes.
StopDown_KeepsVolumes(p) ==
    /\ pc[p] = "stop.down"
    /\ containers' = "none" /\ booted' = {} /\ running' = NotRunning
    /\ Goto(p, "stop.clean")
    /\ UNCHANGED <<jobs, seen, data, files>>

StopDown(p) ==
    /\ pc[p] = "stop.down"
    /\ ComposeDown /\ Goto(p, "stop.clean")
    /\ UNCHANGED <<jobs, seen, logs, files>>

StopClean(p) ==
    /\ pc[p] = "stop.clean"
    /\ logs' = {}
    /\ Finish(p)
    /\ UNCHANGED <<jobs, seen, docker, ledger, entities, fees, files>>

-----------------------------------------------------------------------------
(* What happens to a process, and what Docker does by itself *)

\* Mutant of Interrupt: the handler keeps the controller's currStateNum.
Interrupt_SameController(p) ==
    /\ "sigint" \in Faults /\ Waiting(p)
    /\ cmd' = [cmd EXCEPT ![p] = "stop"]
    /\ pc' = [pc EXCEPT ![p] = Entry[Procedure["stop"][1]]]
    /\ UNCHANGED <<opts, curr, exit, jobs, seen, docker, data, files>>

\* The SIGINT handler: a second StateController runs "stop" to its exit(0).
Interrupt(p) ==
    /\ "sigint" \in Faults /\ Waiting(p)
    /\ cmd' = [cmd EXCEPT ![p] = "stop"]
    /\ curr' = [curr EXCEPT ![p] = 1]
    /\ pc' = [pc EXCEPT ![p] = Entry[Procedure["stop"][1]]]
    /\ UNCHANGED <<opts, exit, jobs, seen, docker, data, files>>

\* The process is killed, or the host goes down.
Kill(p) ==
    /\ "kill" \in Faults /\ Active(p)
    /\ ExitAs(p, "killed")
    /\ UNCHANGED <<jobs, seen, docker, data, files>>

\* With nothing left to wait for Node ends the process with code 0; sockets
\* that are still open may keep it alive, and `docker logs -f` does so for as
\* long as the monitor runs.
Drain(p) ==
    /\ pc[p] = "stalled"
    /\ Procedure[cmd[p]][curr[p]] = "NetworkPrep" => containers # "up"
    /\ ExitAs(p, "drained")
    /\ UNCHANGED <<jobs, seen, docker, data, files>>

\* A service reads its mounted configuration and starts to listen.
Boot(service, file) ==
    /\ containers \in {"up", "partial"} /\ service \notin booted
    /\ file # "absent"
    /\ booted' = booted \cup {service}
    /\ running' = [running EXCEPT ![service] = file]
    /\ UNCHANGED <<control, containers, data, files>>

BootNode == Boot("node", boot)
BootMirror == Boot("mirror", mirror)

\* The mirror node's monitor creates its topic, once per ledger.
MonitorCreatesTopic ==
    /\ containers = "up" /\ booted = Services /\ ~Created("topic")
    /\ entities' = Append(entities, "topic")
    /\ UNCHANGED <<control, docker, ledger, fees, logs, files>>

\* The consensus node streams record files into workDir/network-logs.
StreamRecords ==
    /\ "node" \in booted /\ ledger \notin logs
    /\ logs' = logs \cup {ledger}
    /\ UNCHANGED <<control, docker, ledger, entities, fees, files>>

-----------------------------------------------------------------------------

InitState(p) ==
    \/ InitCheck(p) \/ InitPorts(p) \/ PrepareWorkDirectory(p)
    \/ ConfigureNodeProperties(p) \/ ConfigureMirrorNodeProperties(p)

StartState(p) ==
    \/ CheckDockerImages(p) \/ StartUp(p)
    \/ RecoveryKill(p) \/ RecoveryDown(p) \/ RecoveryClean(p)
    \/ StartUpAgain(p) \/ WaitForMirror(p) \/ WaitForNode(p)

NetworkPrepState(p) ==
    ImportFees(p) \/ ImportExchangeRates(p) \/ WaitForTopic(p)

AccountCreationState(p) ==
    BeginAccounts(p) \/ CreateAccount(p) \/ AccountFails(p) \/ AccountsCreated(p)

ResourceCreationState(p) == BeginResources(p) \/ CreateResources(p)

CleanUpState(p) == RevertNodeProperties(p) \/ RevertMirrorNodeProperties(p)

StopState(p) == StopKill(p) \/ StopDown(p) \/ StopClean(p)

\* What the process does of its own accord.
Work(p) ==
    \/ Launch(p) \/ InitState(p) \/ StartState(p) \/ NetworkPrepState(p)
    \/ AccountCreationState(p) \/ ResourceCreationState(p) \/ CleanUpState(p)
    \/ AttachState(p) \/ StopState(p)

Disturb(p) == Interrupt(p) \/ Kill(p) \/ Drain(p)

Environment == BootNode \/ BootMirror \/ MonitorCreatesTopic \/ StreamRecords

\* All processes have ended, and so has everything Docker does by itself.
Terminated == \A p \in Proc : Ended(p)
Done == Terminated /\ UNCHANGED vars

Next ==
    \/ \E p \in Proc : Work(p) \/ Disturb(p)
    \/ Environment
    \/ Done

Spec == Init /\ [][Next]_vars

\* Node runs a process whose await is settled, and a shell command returns.
\* Nothing is assumed of the containers: they may never boot, and the monitor
\* may never create its topic.
Fairness == \A p \in Proc : WF_vars(Work(p))

FairSpec == Spec /\ Fairness

-----------------------------------------------------------------------------
(* Types *)

ModeOrOriginal == Modes \cup {"absent", "original", "mixed"}
Points == {"new", "done"} \cup AwaitPoints \cup
    {"init.copy", "init.node", "init.mirror", "start.images", "start.up",
     "recover.kill", "recover.down", "recover.clean", "start.again",
     "acc.begin", "res.begin", "clean.node", "clean.mirror", "fail.node",
     "fail.mirror", "attach", "stop.kill", "stop.down", "stop.clean"}
Exits == {"none", "finished", "failed", "crashed", "portInUse", "mountError",
          "drained", "killed"}

ControlTypeOK ==
    /\ cmd \in [Proc -> DOMAIN Procedure]
    /\ opts \in [Proc -> Options]
    /\ curr \in [Proc -> Nat \ {0}]
    /\ \A p \in Proc : curr[p] <= Len(Procedure[cmd[p]])
    /\ pc \in [Proc -> Points]
    /\ exit \in [Proc -> Exits]
    /\ \A p \in Proc : Ended(p) <=> exit[p] # "none"

JobsTypeOK ==
    /\ jobs \in [Proc -> 0..NAccounts]
    /\ seen \in [Proc -> Nat]
    /\ \A p \in Proc : seen[p] <= ledger

DockerTypeOK ==
    /\ containers \in {"none", "stopped", "partial", "up"}
    /\ booted \subseteq Services
    /\ running \in [Services -> ModeOrOriginal \cup {"none"}]

DataTypeOK ==
    /\ ledger \in Nat \ {0}
    /\ entities \in Seq(Proc \cup {"topic", "resource"})
    /\ fees \subseteq {111, 112}
    /\ logs \subseteq 1..ledger

FilesTypeOK == boot \in ModeOrOriginal /\ mirror \in ModeOrOriginal

\* Every variable has its type, and a process has a way it ended exactly when
\* it has ended (process.exit and the ways Node ends by itself).
TypeOK ==
    ControlTypeOK /\ JobsTypeOK /\ DockerTypeOK /\ DataTypeOK /\ FilesTypeOK

-----------------------------------------------------------------------------
(* The abstract specification of the control *)

\* The points of each state, its own and those of what it calls.
PointsOf ==
    [ CleanUp |-> {"clean.node", "clean.mirror"},
      Stop |-> {"stop.kill", "stop.down", "stop.clean"},
      Init |-> {"init.check", "init.ports", "init.copy", "init.node", "init.mirror"},
      Start |-> {"start.images", "start.up", "start.mirror", "start.node", "stalled",
                 "recover.kill", "recover.down", "recover.clean", "start.again"},
      NetworkPrep |-> {"net.fees", "net.rates", "net.topic", "stalled"},
      AccountCreation |-> {"acc.begin", "acc.wait"},
      ResourceCreation |-> {"res.begin", "res.wait"},
      Attach |-> {"attach"} ]

\* What a process at point l does, seen from outside, when currStateNum
\* selects state s.
StageOf(l, s) ==
    CASE l \in {"new", "done"} -> l
      [] l \in {"fail.node", "fail.mirror"} -> "revert"
      [] l = "stalled" -> s
      [] OTHER -> CHOOSE t \in DOMAIN PointsOf : l \in PointsOf[t]

Stage(p) == StageOf(pc[p], Procedure[cmd[p]][curr[p]])

Controller == INSTANCE Lifecycle WITH
    Procedure <- Procedure,
    Interruptible <- {"Init", "Start", "NetworkPrep", "AccountCreation", "ResourceCreation"},
    Deaths <- {"crashed", "portInUse", "mountError", "drained", "killed"},
    at <- curr,
    stage <- [p \in Proc |-> Stage(p)]

-----------------------------------------------------------------------------
(* Properties *)

StartUpCommands == {"start", "restart"}

\* StateController runs the states of a procedure one by one in the order of
\* StateData, whatever happens inside them, and reports success only after the
\* last: LocalNode implements Lifecycle.
FollowsLifecycle == Controller!Spec

\* The process has run its own procedure to the end, or has gone through
\* update's error branch, or has stopped before it touched a file.
EndedInOrder(p) ==
    /\ Ended(p)
    /\ \/ exit[p] \in {"failed", "portInUse"}
       \/ exit[p] = "finished" /\ cmd[p] = opts[p].command

\* When every start and restart that was launched has ended in order, the
\* config files it shares with the others hold their original contents, in
\* whatever way their configuring and reverting writes were interleaved.
FilesReverted ==
    (\A p \in Proc :
        opts[p].command \in StartUpCommands => pc[p] = "new" \/ EndedInOrder(p))
    => {boot, mirror} \subseteq {"absent", "original"}

\* An account that a process creates in the ledger in which it saw the
\* monitor's topic comes after that topic, so that its id is not shifted by it.
AccountsFollowTopic ==
    \A p \in Proc : seen[p] = ledger =>
        \A i \in DOMAIN entities : entities[i] = p =>
            \E j \in 1..(i - 1) : entities[j] = "topic"

Succeeds(p) == ~Ended(p) /\ exit'[p] = "finished" /\ cmd'[p] = opts[p].command

AccountsOf(p) == {i \in DOMAIN entities : entities[i] = p}

Served(p) ==
    /\ booted = Services
    /\ fees = {111, 112}
    /\ Created("topic")
    /\ ~opts[p].async =>
        /\ Cardinality(AccountsOf(p)) = NAccounts
        /\ opts[p].resources => Created("resource")
    /\ {boot, mirror} = {"original"}

\* A start or restart that ends with exit(0) leaves a network that listens,
\* with the fees imported, the topic, its accounts and resources created and
\* the config files reverted, whatever the invocations before it left behind.
ServedOnSuccess ==
    [][\A p \in Proc :
        opts[p].command \in StartUpCommands /\ Succeeds(p) => Served(p)']_vars

ScratchLedger(p) ==
    /\ running = [s \in Services |-> opts[p].mode]
    /\ opts[p].async \/ AccountsOf(p) = 2..(NAccounts + 1)

\* A successful restart runs services that have read the configuration of its
\* own options (never that of an earlier run, nor the reverted files), in a
\* ledger whose first entities are the topic and then its own accounts.
RestartFromScratch ==
    [][\A p \in Proc :
        opts[p].command = "restart" /\ Succeeds(p) => ScratchLedger(p)']_vars

\* "Stops the local hedera network and delete all the existing data": a stop,
\* by command or by SIGINT in the middle of any procedure, ends with exit(0)
\* only when no container, no ledger entity and no record file is left.
StopLeavesNothing ==
    [][\A p \in Proc :
        ~Ended(p) /\ exit'[p] = "finished" /\ cmd[p] = "stop" =>
            containers' = "none" /\ entities' = <<>> /\ logs' = {}]_vars

\* The promise of waitForTopicCreation, NetworkPrepState.ts:142, is not settled:
\* the topic has not been logged, or its line has been missed.
AwaitsTopic(p) ==
    \/ pc[p] = "net.topic" /\ ~TopicLogged
    \/ pc[p] = "stalled" /\ Procedure[cmd[p]][curr[p]] = "NetworkPrep"

\* Whatever the containers do and fail to do, an invocation ends, or waits for
\* ever for the topic: the one await of the procedures without a timeout.  All
\* other waits, recoveries, reverts and an interrupting stop come to an end.
Termination == \A p \in Proc : <>[](Ended(p) \/ AwaitsTopic(p))

\* StateController.ts:107-108, a TypeError is ignored and execution continues:
\* no process ends because it has nothing left to run.
TypeErrorIgnored == \A p \in Proc : exit[p] # "drained"

\* DockerService.ts:426, the recovery cleans volumes and temp files: when the
\* second attempt to start begins, no record file is left.
RecoveryCleans == \A p \in Proc : pc[p] = "start.again" => logs = {}

=============================================================================
