-------------------------- MODULE LocalNodeProofs --------------------------
(***************************************************************************)
(* Proofs about LocalNode, for any set of invocations with any options and *)
(* any faults:                                                             *)
(*   TypeCorrect                   every reachable state has its type;     *)
(*   FilesRevertedCorrect          FilesReverted, from FilesInv;           *)
(*   AccountsFollowTopicCorrect    AccountsFollowTopic, from TopicInv;     *)
(*   StepsBounded,                                                         *)
(*   EveryStepDescends             no invocation goes on for ever;         *)
(*   WaitsForBootable              who waits finds both config files;      *)
(* when the command whose failure would go unnoticed does not fail:        *)
(*   OnlyUpSpoilsStop              StopLeavesNothing, from StopInv, unless *)
(*                                 another process calls `up` meanwhile;   *)
(*   ServedBesideGenerators        ServedOnSuccess, from ServedInv, beside *)
(*                                 generate-accounts;                      *)
(* and from these, when invocations follow one another:                    *)
(*   StopLeavesNothingCorrect, ServedOnSuccessCorrect;                     *)
(*   RestartFromScratchCorrect     RestartFromScratch, from RestartInv.    *)
(* ControlInv ties the point where a process is to the state its           *)
(* StateController has selected, which all of them need.                   *)
(***************************************************************************)
EXTENDS LocalNode, FiniteSetTheorems, TLAPS

StateNames == {"Init", "Start", "NetworkPrep", "AccountCreation",
               "ResourceCreation", "CleanUp", "Attach", "Stop"}

\* The commands of the CLI.
LEMMA ProcedureDomain ==
    DOMAIN Procedure = {"start", "restart", "stop", "accountCreation"}
BY DEF Procedure

\* How many states each procedure has.
LEMMA ProcedureLengths ==
    /\ Len(Procedure["start"]) = 7
    /\ Len(Procedure["restart"]) = 9
    /\ Len(Procedure["stop"]) = 1
    /\ Len(Procedure["accountCreation"]) = 1
BY DEF Procedure

\* Which states they are.
LEMMA ProcedureStates ==
    /\ \A i \in 1..7 : Procedure["start"][i] =
            <<"Init", "Start", "NetworkPrep", "AccountCreation",
              "ResourceCreation", "CleanUp", "Attach">>[i]
    /\ \A i \in 1..9 : Procedure["restart"][i] =
            <<"CleanUp", "Stop", "Init", "Start", "NetworkPrep",
              "AccountCreation", "ResourceCreation", "CleanUp", "Attach">>[i]
    /\ Procedure["stop"][1] = "Stop"
    /\ Procedure["accountCreation"][1] = "AccountCreation"
BY DEF Procedure

\* Every position of a procedure holds one of the states.
LEMMA ProcedureType ==
    \A c \in DOMAIN Procedure :
        /\ Len(Procedure[c]) \in Nat \ {0}
        /\ \A i \in 1..Len(Procedure[c]) : Procedure[c][i] \in StateNames
<1> SUFFICES ASSUME NEW c \in DOMAIN Procedure
             PROVE  /\ Len(Procedure[c]) \in Nat \ {0}
                    /\ \A i \in 1..Len(Procedure[c]) : Procedure[c][i] \in StateNames
  OBVIOUS
<1>1. CASE c = "start"
  BY <1>1, ProcedureLengths, ProcedureStates DEF StateNames
<1>2. CASE c = "restart"
  BY <1>2, ProcedureLengths, ProcedureStates DEF StateNames
<1>3. CASE c = "stop"
  BY <1>3, ProcedureLengths, ProcedureStates DEF StateNames
<1>4. CASE c = "accountCreation"
  BY <1>4, ProcedureLengths, ProcedureStates DEF StateNames
<1> QED BY <1>1, <1>2, <1>3, <1>4, ProcedureDomain

\* Every state begins at a point of its own.
LEMMA EntryType ==
    \A s \in StateNames : Entry[s] \in Points \ {"new", "done"}
BY DEF Entry, Points, StateNames, AwaitPoints

\* What follows a state in its procedure.
LEMMA Successor ==
    ASSUME NEW c \in DOMAIN Procedure, NEW i \in 1..Len(Procedure[c])
    PROVE  /\ Procedure[c][i] = "Init" =>
                i < Len(Procedure[c]) /\ Procedure[c][i + 1] = "Start"
           /\ Procedure[c][i] = "Start" =>
                i < Len(Procedure[c]) /\ Procedure[c][i + 1] = "NetworkPrep"
           /\ Procedure[c][i] = "NetworkPrep" =>
                i < Len(Procedure[c]) /\ Procedure[c][i + 1] = "AccountCreation"
           /\ Procedure[c][i] = "AccountCreation" /\ c # "accountCreation" =>
                i < Len(Procedure[c]) /\ Procedure[c][i + 1] = "ResourceCreation"
           /\ Procedure[c][i] = "ResourceCreation" =>
                i < Len(Procedure[c]) /\ Procedure[c][i + 1] = "CleanUp"
<1>1. CASE c = "start"
  BY <1>1, ProcedureLengths, ProcedureStates
<1>2. CASE c = "restart"
  BY <1>2, ProcedureLengths, ProcedureStates
<1>3. CASE c = "stop"
  BY <1>3, ProcedureLengths, ProcedureStates
<1>4. CASE c = "accountCreation"
  BY <1>4, ProcedureLengths, ProcedureStates
<1> QED BY <1>1, <1>2, <1>3, <1>4, ProcedureDomain

-----------------------------------------------------------------------------
(* Type correctness *)

\* Moving to another point keeps the type of the control.
LEMMA GotoType ==
    ASSUME ControlTypeOK, NEW p \in Proc, ~Ended(p),
           NEW l \in Points \ {"done"}, Goto(p, l)
    PROVE  ControlTypeOK'
BY DEF ControlTypeOK, Goto, Ended

\* So does ending.
LEMMA ExitAsType ==
    ASSUME ControlTypeOK, NEW p \in Proc, NEW how \in Exits \ {"none"},
           ExitAs(p, how)
    PROVE  ControlTypeOK'
BY DEF ControlTypeOK, ExitAs, Ended, Points

\* So does entering the next state or ending after the last.
LEMMA FinishType ==
    ASSUME ControlTypeOK, NEW p \in Proc, ~Ended(p), Finish(p)
    PROVE  ControlTypeOK'
<1> DEFINE len == Len(Procedure[cmd[p]])
<1>1. len \in Nat \ {0} /\ cmd[p] \in DOMAIN Procedure /\ curr[p] \in 1..len
  BY ProcedureType DEF ControlTypeOK
<1>2. CASE ExitAs(p, "finished")
  BY <1>2, ExitAsType DEF Exits
<1>3. CASE curr[p] < len /\ ~ExitAs(p, "finished")
  <2>1. Procedure[cmd[p]][curr[p] + 1] \in StateNames
    BY <1>1, <1>3, ProcedureType
  <2>2. Entry[Procedure[cmd[p]][curr[p] + 1]] \in Points \ {"new", "done"}
    BY <2>1, EntryType
  <2> DEFINE next == Entry[Procedure[cmd[p]][curr[p] + 1]]
  <2>3. /\ curr' = [curr EXCEPT ![p] = curr[p] + 1]
        /\ pc' = [pc EXCEPT ![p] = next]
        /\ UNCHANGED <<cmd, opts, exit>>
    BY <1>3 DEF Finish
  <2> HIDE DEF next
  <2>4. \A q \in Proc : curr'[q] \in Nat \ {0} /\ curr'[q] <= Len(Procedure[cmd[q]])
    BY <1>1, <1>3, <2>3 DEF ControlTypeOK
  <2>5. curr' \in [Proc -> Nat \ {0}]
    BY <1>1, <2>3 DEF ControlTypeOK
  <2>6. pc' \in [Proc -> Points] /\ \A q \in Proc : Ended(q)' <=> exit[q] # "none"
    BY <2>2, <2>3 DEF ControlTypeOK, Ended, next
  <2> QED BY <2>3, <2>4, <2>5, <2>6 DEF ControlTypeOK
<1> QED BY <1>2, <1>3 DEF Finish

\* The initial states are well typed.
THEOREM InitTypeOK == Init => TypeOK
<1> SUFFICES ASSUME Init PROVE TypeOK
  OBVIOUS
<1>1. \A p \in Proc : cmd[p] \in DOMAIN Procedure /\ Len(Procedure[cmd[p]]) \in Nat \ {0}
  BY OptionsAssumption, ProcedureType DEF Init
<1>2. ControlTypeOK
  BY <1>1 DEF Init, ControlTypeOK, Points, Exits, Ended
<1>3. JobsTypeOK /\ DockerTypeOK /\ FilesTypeOK
  BY NAccountsAssumption
  DEF Init, JobsTypeOK, DockerTypeOK, FilesTypeOK, ModeOrOriginal, NotRunning
<1>4. DataTypeOK
  BY DEF Init, DataTypeOK
<1> QED BY <1>2, <1>3, <1>4 DEF TypeOK

\* The actions of a process, one by one.
ProcessAction(p) ==
    \/ Launch(p) \/ InitCheck(p) \/ InitPorts(p) \/ PrepareWorkDirectory(p)
    \/ ConfigureNodeProperties(p) \/ ConfigureMirrorNodeProperties(p)
    \/ CheckDockerImages(p) \/ StartUp(p) \/ RecoveryKill(p)
    \/ RecoveryDown(p) \/ RecoveryClean(p) \/ StartUpAgain(p)
    \/ WaitForMirror(p) \/ WaitForNode(p) \/ ImportFees(p)
    \/ ImportExchangeRates(p) \/ WaitForTopic(p) \/ BeginAccounts(p)
    \/ CreateAccount(p) \/ AccountFails(p) \/ AccountsCreated(p)
    \/ BeginResources(p) \/ CreateResources(p) \/ RevertNodeProperties(p)
    \/ RevertMirrorNodeProperties(p) \/ AttachState(p) \/ StopKill(p)
    \/ StopDown(p) \/ StopClean(p) \/ Interrupt(p) \/ Kill(p) \/ Drain(p)

\* Work and Disturb, spelled out as one list of actions.
LEMMA ActionsOfProcess ==
    ASSUME NEW p \in Proc, Work(p) \/ Disturb(p)
    PROVE  ProcessAction(p)
BY DEF Work, Disturb, ProcessAction, InitState, StartState, NetworkPrepState,
       AccountCreationState, ResourceCreationState, CleanUpState, StopState

\* The first state of a procedure begins at one of the points.
LEMMA EntryOfFirst ==
    ASSUME ControlTypeOK, NEW p \in Proc
    PROVE  Entry[Procedure[cmd[p]][1]] \in Points \ {"new", "done"}
<1>1. cmd[p] \in DOMAIN Procedure
  BY DEF ControlTypeOK
<1>2. Procedure[cmd[p]][1] \in StateNames
  BY <1>1, ProcedureType
<1> QED BY <1>2, EntryType

\* Switching the controller to "stop" keeps the type of the control.
LEMMA InterruptType ==
    ASSUME ControlTypeOK, NEW p \in Proc, Interrupt(p)
    PROVE  ControlTypeOK'
<1>1. "stop" \in DOMAIN Procedure /\ Len(Procedure["stop"]) = 1
  BY ProcedureDomain, ProcedureLengths
<1>2. Entry[Procedure["stop"][1]] = "stop.kill"
  BY ProcedureStates DEF Entry
<1>3. ~Ended(p)
  BY DEF Interrupt, Waiting, AwaitPoints, Ended
<1> QED BY <1>1, <1>2, <1>3 DEF Interrupt, ControlTypeOK, Points, Ended

\* Every action of a process keeps the type of the control.
LEMMA ControlStep ==
    ASSUME ControlTypeOK, NEW p \in Proc, ProcessAction(p)
    PROVE  ControlTypeOK'
<1>1. CASE Launch(p)
  BY <1>1, EntryOfFirst, GotoType
  DEF Launch, Ended
<1>2. CASE InitCheck(p)
  BY <1>2, GotoType, ExitAsType
  DEF InitCheck, Fail, Crash, Points, AwaitPoints, Exits, Ended
<1>3. CASE InitPorts(p)
  BY <1>3, GotoType, ExitAsType
  DEF InitPorts, Points, Exits, Ended
<1>4. CASE PrepareWorkDirectory(p)
  BY <1>4, GotoType
  DEF PrepareWorkDirectory, Points, Ended
<1>5. CASE ConfigureNodeProperties(p)
  BY <1>5, GotoType, ExitAsType
  DEF ConfigureNodeProperties, Crash, Points, Exits, Ended
<1>6. CASE ConfigureMirrorNodeProperties(p)
  BY <1>6, FinishType, ExitAsType
  DEF ConfigureMirrorNodeProperties, Crash, Exits, Ended
<1>7. CASE CheckDockerImages(p)
  BY <1>7, GotoType
  DEF CheckDockerImages, Points, AwaitPoints, Ended
<1>8. CASE StartUp(p)
  BY <1>8, GotoType, ExitAsType
  DEF StartUp, ComposeUp, Exits, Points, AwaitPoints, Ended
<1>9. CASE RecoveryKill(p)
  BY <1>9, GotoType
  DEF RecoveryKill, Points, Ended
<1>10. CASE RecoveryDown(p)
  BY <1>10, GotoType
  DEF RecoveryDown, Points, Ended
<1>11. CASE RecoveryClean(p)
  BY <1>11, GotoType
  DEF RecoveryClean, Points, Ended
<1>12. CASE StartUpAgain(p)
  BY <1>12, GotoType, ExitAsType
  DEF StartUpAgain, ComposeUp, Exits, Points, AwaitPoints, Ended
<1>13. CASE WaitForMirror(p)
  BY <1>13, GotoType
  DEF WaitForMirror, WaitForFiringUp, Fail, Points, AwaitPoints, Ended
<1>14. CASE WaitForNode(p)
  BY <1>14, GotoType, FinishType
  DEF WaitForNode, WaitForFiringUp, Fail, Points, Ended
<1>15. CASE ImportFees(p)
  BY <1>15, GotoType, ExitAsType
  DEF ImportFees, ImportFile, Crash, Exits, Points, AwaitPoints, Ended
<1>16. CASE ImportExchangeRates(p)
  BY <1>16, GotoType, ExitAsType
  DEF ImportExchangeRates, ImportFile, Crash, Exits, Points, AwaitPoints,
      Ended
<1>17. CASE WaitForTopic(p)
  BY <1>17, GotoType, FinishType
  DEF WaitForTopic, Points, AwaitPoints, Ended
<1>18. CASE BeginAccounts(p)
  BY <1>18, GotoType, FinishType
  DEF BeginAccounts, Points, AwaitPoints, Ended
<1>19. CASE CreateAccount(p)
  BY <1>19
  DEF CreateAccount, ControlTypeOK, Ended
<1>20. CASE AccountFails(p)
  BY <1>20, ExitAsType
  DEF AccountFails, Crash, Exits
<1>21. CASE AccountsCreated(p)
  BY <1>21, FinishType
  DEF AccountsCreated, Ended
<1>22. CASE BeginResources(p)
  BY <1>22, GotoType, FinishType
  DEF BeginResources, Points, AwaitPoints, Ended
<1>23. CASE CreateResources(p)
  BY <1>23, FinishType, ExitAsType
  DEF CreateResources, Crash, Exits, Ended
<1>24. CASE RevertNodeProperties(p)
  BY <1>24, GotoType
  DEF RevertNodeProperties, Points, Ended
<1>25. CASE RevertMirrorNodeProperties(p)
  BY <1>25, FinishType, ExitAsType
  DEF RevertMirrorNodeProperties, Exits, Ended
<1>26. CASE AttachState(p)
  BY <1>26, FinishType
  DEF AttachState, Ended
<1>27. CASE StopKill(p)
  BY <1>27, GotoType
  DEF StopKill, Points, Ended
<1>28. CASE StopDown(p)
  BY <1>28, GotoType
  DEF StopDown, Points, Ended
<1>29. CASE StopClean(p)
  BY <1>29, FinishType
  DEF StopClean, Ended
<1>30. CASE Interrupt(p)
  BY <1>30, InterruptType
<1>31. CASE Kill(p)
  BY <1>31, ExitAsType
  DEF Kill, Exits
<1>32. CASE Drain(p)
  BY <1>32, ExitAsType
  DEF Drain, Exits
<1> QED BY <1>1, <1>2, <1>3, <1>4, <1>5, <1>6, <1>7, <1>8, <1>9, <1>10, <1>11,
       <1>12, <1>13, <1>14, <1>15, <1>16, <1>17, <1>18, <1>19, <1>20, <1>21,
       <1>22, <1>23, <1>24, <1>25, <1>26, <1>27, <1>28, <1>29, <1>30, <1>31,
       <1>32
   DEF ProcessAction

WorldTypeOK == JobsTypeOK /\ DockerTypeOK /\ DataTypeOK /\ FilesTypeOK

\* An action that changes nothing but where its process is.
LEMMA WorldUnchanged ==
    ASSUME WorldTypeOK, UNCHANGED <<jobs, seen, docker, data, files>>
    PROVE  WorldTypeOK'
BY DEF WorldTypeOK, JobsTypeOK, DockerTypeOK, DataTypeOK, FilesTypeOK,
       docker, data, files

\* `docker compose up` keeps the type of what Docker holds.
LEMMA ComposeUpType ==
    ASSUME WorldTypeOK, NEW p \in Proc, NEW l, NEW l1, ComposeUp(p, l, l1),
           UNCHANGED <<jobs, seen, data, files>>
    PROVE  WorldTypeOK'
BY DEF ComposeUp, WorldTypeOK, JobsTypeOK, DockerTypeOK, DataTypeOK,
       FilesTypeOK, data, files

\* So does `docker compose kill`.
LEMMA ComposeKillType ==
    ASSUME WorldTypeOK, ComposeKill, UNCHANGED <<jobs, seen, data, files>>
    PROVE  WorldTypeOK'
BY DEF ComposeKill, WorldTypeOK, JobsTypeOK, DockerTypeOK, DataTypeOK,
       FilesTypeOK, NotRunning, docker, data, files

\* So does `docker compose down -v`, which starts another ledger.
LEMMA ComposeDownType ==
    ASSUME WorldTypeOK, ComposeDown, UNCHANGED <<jobs, seen, logs, files>>
    PROVE  WorldTypeOK'
<1>1. DockerTypeOK'
  BY DEF ComposeDown, WorldTypeOK, DockerTypeOK, NotRunning, docker
<1>2. DataTypeOK'
  <2>1. CASE ledger' = ledger + 1 /\ entities' = <<>> /\ fees' = {}
    BY <2>1 DEF WorldTypeOK, DataTypeOK
  <2>2. CASE UNCHANGED <<ledger, entities, fees>>
    BY <2>2 DEF WorldTypeOK, DataTypeOK
  <2> QED BY <2>1, <2>2 DEF ComposeDown
<1>3. JobsTypeOK' /\ FilesTypeOK'
  BY DEF ComposeDown, WorldTypeOK, JobsTypeOK, DataTypeOK, FilesTypeOK, files
<1> QED BY <1>1, <1>2, <1>3 DEF WorldTypeOK

\* What InitState writes into a config file is one of its contents.
LEMMA ModeType ==
    ASSUME ControlTypeOK
    PROVE  \A p \in Proc : opts[p].mode \in ModeOrOriginal
BY OptionsAssumption DEF ControlTypeOK, ModeOrOriginal

\* A new entity, of a process or of the monitor, is well typed.
LEMMA AppendType ==
    ASSUME WorldTypeOK, NEW e \in Proc \cup {"topic", "resource"},
           entities' = Append(entities, e), jobs' \in [Proc -> 0..NAccounts],
           UNCHANGED <<seen, docker, ledger, fees, logs, files>>
    PROVE  WorldTypeOK'
BY DEF WorldTypeOK, JobsTypeOK, DockerTypeOK, DataTypeOK, FilesTypeOK, docker, files

\* Every action of a process keeps the type of everything it shares.
LEMMA WorldStep ==
    ASSUME ControlTypeOK, WorldTypeOK, NEW p \in Proc, ProcessAction(p)
    PROVE  WorldTypeOK'
<1>1. CASE \/ Launch(p) \/ InitCheck(p) \/ InitPorts(p)
           \/ CheckDockerImages(p) \/ RecoveryClean(p) \/ WaitForMirror(p)
           \/ WaitForNode(p) \/ AccountFails(p) \/ AccountsCreated(p)
           \/ BeginResources(p) \/ AttachState(p) \/ Interrupt(p) \/ Kill(p)
           \/ Drain(p)
  BY <1>1, WorldUnchanged
  DEF Launch, InitCheck, InitPorts, CheckDockerImages, RecoveryClean,
      WaitForMirror, WaitForNode, AccountFails, AccountsCreated,
      BeginResources, AttachState, Interrupt, Kill, Drain, WaitForFiringUp
<1>2. CASE PrepareWorkDirectory(p)
  BY <1>2
  DEF PrepareWorkDirectory, WorldTypeOK, JobsTypeOK, DockerTypeOK, DataTypeOK,
      FilesTypeOK, ModeOrOriginal, docker, data, files
<1>3. CASE ConfigureNodeProperties(p)
  BY <1>3, ModeType
  DEF ConfigureNodeProperties, WorldTypeOK, JobsTypeOK, DockerTypeOK,
      DataTypeOK, FilesTypeOK, docker, data
<1>4. CASE ConfigureMirrorNodeProperties(p)
  BY <1>4, ModeType
  DEF ConfigureMirrorNodeProperties, WorldTypeOK, JobsTypeOK, DockerTypeOK,
      DataTypeOK, FilesTypeOK, ModeOrOriginal, docker, data
<1>5. CASE StartUp(p)
  BY <1>5, ComposeUpType
  DEF StartUp
<1>6. CASE RecoveryKill(p)
  BY <1>6, ComposeKillType
  DEF RecoveryKill
<1>7. CASE RecoveryDown(p)
  BY <1>7, ComposeDownType
  DEF RecoveryDown
<1>8. CASE StartUpAgain(p)
  BY <1>8, ComposeUpType
  DEF StartUpAgain
<1>9. CASE ImportFees(p)
  BY <1>9
  DEF ImportFees, ImportFile, WorldTypeOK, JobsTypeOK, DockerTypeOK,
      DataTypeOK, FilesTypeOK, docker, files
<1>10. CASE ImportExchangeRates(p)
  BY <1>10
  DEF ImportExchangeRates, ImportFile, WorldTypeOK, JobsTypeOK, DockerTypeOK,
      DataTypeOK, FilesTypeOK, docker, files
<1>11. CASE WaitForTopic(p)
  <2>1. /\ jobs' = jobs /\ seen' \in {seen, [seen EXCEPT ![p] = ledger]}
        /\ UNCHANGED <<docker, data, files>>
    BY <1>11 DEF WaitForTopic
  <2>2. JobsTypeOK'
    BY <2>1 DEF WorldTypeOK, JobsTypeOK, DataTypeOK, data
  <2> QED BY <2>1, <2>2
      DEF WorldTypeOK, DockerTypeOK, DataTypeOK, FilesTypeOK, docker, data, files
<1>12. CASE BeginAccounts(p)
  BY <1>12, NAccountsAssumption
  DEF BeginAccounts, WorldTypeOK, JobsTypeOK, DockerTypeOK, DataTypeOK,
      FilesTypeOK, docker, data, files
<1>13. CASE CreateAccount(p)
  <2>1. jobs' \in [Proc -> 0..NAccounts]
    BY <1>13, NAccountsAssumption DEF CreateAccount, WorldTypeOK, JobsTypeOK
  <2>2. /\ entities' = Append(entities, p)
        /\ UNCHANGED <<seen, docker, ledger, fees, logs, files>>
    BY <1>13 DEF CreateAccount
  <2> QED BY <2>1, <2>2, AppendType
<1>14. CASE CreateResources(p)
  <2>1. CASE entities' = Append(entities, "resource")
    BY <1>14, <2>1, AppendType DEF CreateResources, WorldTypeOK, JobsTypeOK
  <2>2. CASE UNCHANGED entities
    BY <1>14, <2>2, WorldUnchanged DEF CreateResources, data
  <2> QED BY <1>14, <2>1, <2>2 DEF CreateResources
<1>15. CASE RevertNodeProperties(p)
  BY <1>15
  DEF RevertNodeProperties, Reverted, WorldTypeOK, JobsTypeOK, DockerTypeOK,
      DataTypeOK, FilesTypeOK, ModeOrOriginal, docker, data
<1>16. CASE RevertMirrorNodeProperties(p)
  BY <1>16
  DEF RevertMirrorNodeProperties, Reverted, WorldTypeOK, JobsTypeOK,
      DockerTypeOK, DataTypeOK, FilesTypeOK, ModeOrOriginal, docker, data
<1>17. CASE StopKill(p)
  BY <1>17, ComposeKillType
  DEF StopKill
<1>18. CASE StopDown(p)
  BY <1>18, ComposeDownType
  DEF StopDown
<1>19. CASE StopClean(p)
  BY <1>19
  DEF StopClean, WorldTypeOK, JobsTypeOK, DockerTypeOK, DataTypeOK,
      FilesTypeOK, docker, files
<1> QED BY <1>1, <1>2, <1>3, <1>4, <1>5, <1>6, <1>7, <1>8, <1>9, <1>10, <1>11,
       <1>12, <1>13, <1>14, <1>15, <1>16, <1>17, <1>18, <1>19
   DEF ProcessAction

\* So does what Docker and the services do by themselves.
LEMMA EnvironmentStep ==
    ASSUME WorldTypeOK, Environment
    PROVE  WorldTypeOK' /\ UNCHANGED control
<1>1. CASE BootNode \/ BootMirror
  <2>1. PICK s \in Services, f \in ModeOrOriginal :
            /\ booted' = booted \cup {s} /\ running' = [running EXCEPT ![s] = f]
            /\ UNCHANGED <<control, containers, data, files>>
    BY <1>1 DEF BootNode, BootMirror, Boot, Services, WorldTypeOK, FilesTypeOK
  <2>2. DockerTypeOK'
    BY <2>1 DEF WorldTypeOK, DockerTypeOK
  <2> QED BY <2>1, <2>2
      DEF WorldTypeOK, JobsTypeOK, DataTypeOK, FilesTypeOK, control, data, files
<1>2. CASE MonitorCreatesTopic
  BY <1>2, AppendType DEF MonitorCreatesTopic, control, WorldTypeOK, JobsTypeOK
<1>3. CASE StreamRecords
  BY <1>3 DEF StreamRecords, WorldTypeOK, JobsTypeOK, DockerTypeOK,
      DataTypeOK, FilesTypeOK, control, docker, files
<1> QED BY <1>1, <1>2, <1>3 DEF Environment

\* Every step of the system keeps every type.
THEOREM TypeStep == TypeOK /\ [Next]_vars => TypeOK'
<1> SUFFICES ASSUME TypeOK, [Next]_vars PROVE TypeOK'
  OBVIOUS
<1> USE DEF TypeOK, WorldTypeOK
<1>1. CASE \E p \in Proc : Work(p) \/ Disturb(p)
  BY <1>1, ActionsOfProcess, ControlStep, WorldStep
<1>2. CASE Environment
  BY <1>2, EnvironmentStep DEF control, ControlTypeOK, Ended
<1>3. CASE UNCHANGED vars
  BY <1>3, WorldUnchanged DEF vars, control, ControlTypeOK, Ended
<1> QED BY <1>1, <1>2, <1>3 DEF Next, Done

\* Every reachable state of the CLI, its files and Docker has its type.
THEOREM TypeCorrect == Spec => []TypeOK
BY InitTypeOK, TypeStep, PTL DEF Spec

-----------------------------------------------------------------------------
(* Where a process can be *)

\* The points of each state; update's error branch is reached from Init and
\* Start, a swallowed TypeError and a lost monitor from Start and NetworkPrep.
PointsIn ==
    [ Init |-> {"init.check", "init.ports", "init.copy", "init.node",
                "init.mirror", "fail.node", "fail.mirror"},
      Start |-> {"start.images", "start.up", "recover.kill", "recover.down",
                 "recover.clean", "start.again", "start.mirror", "start.node",
                 "stalled", "fail.node", "fail.mirror"},
      NetworkPrep |-> {"net.fees", "net.rates", "net.topic", "stalled"},
      AccountCreation |-> {"acc.begin", "acc.wait"},
      ResourceCreation |-> {"res.begin", "res.wait"},
      CleanUp |-> {"clean.node", "clean.mirror"},
      Attach |-> {"attach"},
      Stop |-> {"stop.kill", "stop.down", "stop.clean"} ]

StateOf(p) == Procedure[cmd[p]][curr[p]]
Interrupted(p) == cmd[p] # opts[p].command

\* A process is at a point of the state that currStateNum selects, and one
\* that was interrupted runs the stop procedure and nothing else.
ControlInv ==
    \A p \in Proc :
        /\ pc[p] = "new" => curr[p] = 1
        /\ Active(p) => pc[p] \in PointsIn[StateOf(p)]
        /\ Interrupted(p) =>
            /\ cmd[p] = "stop"
            /\ pc[p] \in PointsIn["Stop"] \cup {"done"}
            /\ exit[p] \in {"none", "finished", "killed"}

\* A state begins at a point of that state.
LEMMA EntryPoint == \A s \in StateNames : Entry[s] \in PointsIn[s]
BY DEF Entry, PointsIn, StateNames

\* A process at a point of a state has begun and not ended.
LEMMA PointsOfActive ==
    \A s \in StateNames : PointsIn[s] \subseteq Points \ {"new", "done"}
BY DEF PointsIn, StateNames, Points, AwaitPoints

\* currStateNum selects a state of the procedure; "stop" has just one.
LEMMA StateOfType ==
    ASSUME ControlTypeOK, NEW p \in Proc
    PROVE  /\ cmd[p] \in DOMAIN Procedure
           /\ Len(Procedure[cmd[p]]) \in Nat \ {0}
           /\ curr[p] \in 1..Len(Procedure[cmd[p]])
           /\ StateOf(p) \in StateNames
           /\ cmd[p] = "stop" => StateOf(p) = "Stop" /\ curr[p] = Len(Procedure[cmd[p]])
<1>1. /\ cmd[p] \in DOMAIN Procedure
      /\ Len(Procedure[cmd[p]]) \in Nat \ {0}
      /\ curr[p] \in 1..Len(Procedure[cmd[p]])
  BY ProcedureType DEF ControlTypeOK
<1>2. StateOf(p) \in StateNames
  BY <1>1, ProcedureType DEF StateOf
<1>3. ASSUME cmd[p] = "stop"
      PROVE  StateOf(p) = "Stop" /\ curr[p] = Len(Procedure[cmd[p]])
  BY <1>1, <1>3, ProcedureLengths, ProcedureStates DEF StateOf
<1> QED BY <1>1, <1>2, <1>3

\* Moving within the state keeps the process in the state selected.
LEMMA GotoControl ==
    ASSUME ControlTypeOK, ControlInv, NEW p \in Proc, Active(p),
           NEW l \in PointsIn[StateOf(p)], Goto(p, l)
    PROVE  ControlInv'
<1>1. l \in Points \ {"new", "done"}
  BY StateOfType, PointsOfActive
<1>2. pc' = [pc EXCEPT ![p] = l] /\ UNCHANGED <<cmd, opts, curr, exit>>
  BY DEF Goto
<1>3. Interrupted(p) => l \in PointsIn["Stop"]
  BY StateOfType DEF ControlInv
<1>4. \A q \in Proc : q # p => pc'[q] = pc[q]
  BY <1>2 DEF ControlTypeOK
<1>5. pc'[p] = l
  BY <1>2 DEF ControlTypeOK
<1> QED BY <1>1, <1>2, <1>3, <1>4, <1>5 DEF ControlInv, Active, Interrupted, StateOf

\* Ending keeps ControlInv, for one that was interrupted only with success or by a kill.
LEMMA ExitControl ==
    ASSUME ControlTypeOK, ControlInv, NEW p \in Proc, NEW how, ExitAs(p, how),
           Interrupted(p) => how \in {"finished", "killed"}
    PROVE  ControlInv'
<1>1. \A q \in Proc : q # p => pc'[q] = pc[q] /\ exit'[q] = exit[q]
  BY DEF ControlTypeOK, ExitAs
<1>2. pc'[p] = "done" /\ exit'[p] = how
  BY DEF ControlTypeOK, ExitAs
<1> QED BY <1>1, <1>2 DEF ControlInv, Active, Interrupted, StateOf, ExitAs

\* Entering the next state selects it too.
LEMMA FinishControl ==
    ASSUME ControlTypeOK, ControlInv, NEW p \in Proc, Active(p), Finish(p)
    PROVE  ControlInv'
<1>1. CASE ExitAs(p, "finished")
  BY <1>1, ExitControl
<1>2. CASE curr[p] < Len(Procedure[cmd[p]]) /\ ~ExitAs(p, "finished")
  <2> DEFINE s == Procedure[cmd[p]][curr[p] + 1]
  <2>1. s \in StateNames
    BY <1>2, StateOfType, ProcedureType
  <2>2. Entry[s] \in PointsIn[s] /\ Entry[s] \in Points \ {"new", "done"}
    BY <2>1, EntryPoint, EntryType
  <2>3. cmd[p] # "stop"
    BY <1>2, StateOfType
  <2>4. /\ curr' = [curr EXCEPT ![p] = curr[p] + 1]
        /\ pc' = [pc EXCEPT ![p] = Entry[s]]
        /\ UNCHANGED <<cmd, opts, exit>>
    BY <1>2 DEF Finish
  <2>5. \A q \in Proc : q # p => pc'[q] = pc[q] /\ curr'[q] = curr[q]
    BY <2>4 DEF ControlTypeOK
  <2>6. pc'[p] = Entry[s] /\ curr'[p] = curr[p] + 1
    BY <2>4 DEF ControlTypeOK
  <2>7. StateOf(p)' = s
    BY <2>4, <2>6 DEF StateOf
  <2> HIDE DEF s
  <2>8. ~Interrupted(p)
    BY <2>3 DEF ControlInv
  <2> QED BY <2>2, <2>4, <2>5, <2>6, <2>7, <2>8
      DEF ControlInv, Active, Interrupted, StateOf
<1> QED BY <1>1, <1>2 DEF Finish

\* The handler selects StopState and enters it.
LEMMA InterruptControl ==
    ASSUME ControlTypeOK, ControlInv, NEW p \in Proc, Interrupt(p)
    PROVE  ControlInv'
<1>1. Entry[Procedure["stop"][1]] = "stop.kill" /\ Procedure["stop"][1] = "Stop"
  BY ProcedureStates DEF Entry
<1>2. exit[p] = "none"
  BY DEF Interrupt, Waiting, AwaitPoints, ControlTypeOK, Ended
<1>3. \A q \in Proc : q # p =>
        pc'[q] = pc[q] /\ curr'[q] = curr[q] /\ cmd'[q] = cmd[q]
  BY DEF Interrupt, ControlTypeOK
<1>4. pc'[p] = "stop.kill" /\ curr'[p] = 1 /\ cmd'[p] = "stop"
  BY <1>1 DEF Interrupt, ControlTypeOK
<1>5. exit' = exit /\ opts' = opts
  BY DEF Interrupt
<1>6. \A q \in Proc : q # p => StateOf(q)' = StateOf(q)
  BY <1>3 DEF StateOf
<1>7. StateOf(p)' = "Stop" /\ "stop.kill" \in PointsIn["Stop"]
  BY <1>1, <1>4 DEF StateOf, PointsIn
<1> QED BY <1>2, <1>3, <1>4, <1>5, <1>6, <1>7 DEF ControlInv, Active, Interrupted

\* Which state a process is in follows from the point where it is.
LEMMA StateAt ==
    ASSUME ControlTypeOK, ControlInv, NEW p \in Proc, Active(p)
    PROVE  /\ pc[p] \in PointsIn[StateOf(p)]
           /\ StateOf(p) \in StateNames
           /\ pc[p] \notin PointsIn["Stop"] => ~Interrupted(p)
BY StateOfType DEF ControlInv, Active

\* No process is anywhere yet.
LEMMA ControlInvInit == Init => ControlInv
BY DEF Init, ControlInv, Active, Interrupted

\* A process begins at the first state, which is the one selected.
LEMMA LaunchControl ==
    ASSUME ControlTypeOK, ControlInv, NEW p \in Proc, Launch(p)
    PROVE  ControlInv'
<1>1. curr[p] = 1 /\ ~Interrupted(p)
  BY DEF Launch, ControlInv, PointsIn
<1>2. Entry[StateOf(p)] \in PointsIn[StateOf(p)] /\ Entry[StateOf(p)] # "new"
  BY StateOfType, EntryPoint, EntryType
<1>3. pc' = [pc EXCEPT ![p] = Entry[StateOf(p)]] /\ UNCHANGED <<cmd, opts, curr, exit>>
  BY <1>1 DEF Launch, Goto, StateOf
<1>4. \A q \in Proc : q # p => pc'[q] = pc[q]
  BY <1>3 DEF ControlTypeOK
<1>5. pc'[p] = Entry[StateOf(p)]
  BY <1>3 DEF ControlTypeOK
<1> QED BY <1>1, <1>2, <1>3, <1>4, <1>5 DEF ControlInv, Active, Interrupted, StateOf

\* Every action of a process keeps ControlInv.
LEMMA ControlInvStep ==
    ASSUME ControlTypeOK, ControlInv, NEW p \in Proc, ProcessAction(p)
    PROVE  ControlInv'
<1>1. CASE Launch(p)
  BY <1>1, LaunchControl
<1>2. CASE InitCheck(p)
  BY <1>2, StateAt, GotoControl, ExitControl
  DEF InitCheck, Fail, Crash, Active, PointsIn, StateNames
<1>3. CASE InitPorts(p)
  BY <1>3, StateAt, GotoControl, ExitControl
  DEF InitPorts, Active, PointsIn, StateNames
<1>4. CASE PrepareWorkDirectory(p)
  BY <1>4, StateAt, GotoControl
  DEF PrepareWorkDirectory, Active, PointsIn, StateNames
<1>5. CASE ConfigureNodeProperties(p)
  BY <1>5, StateAt, GotoControl, ExitControl
  DEF ConfigureNodeProperties, Crash, Active, PointsIn, StateNames
<1>6. CASE ConfigureMirrorNodeProperties(p)
  BY <1>6, StateAt, FinishControl, ExitControl
  DEF ConfigureMirrorNodeProperties, Crash, Active, PointsIn, StateNames
<1>7. CASE CheckDockerImages(p)
  BY <1>7, StateAt, GotoControl
  DEF CheckDockerImages, Active, PointsIn, StateNames
<1>8. CASE StartUp(p)
  BY <1>8, StateAt, GotoControl, ExitControl
  DEF StartUp, ComposeUp, Active, PointsIn, StateNames
<1>9. CASE RecoveryKill(p)
  BY <1>9, StateAt, GotoControl
  DEF RecoveryKill, Active, PointsIn, StateNames
<1>10. CASE RecoveryDown(p)
  BY <1>10, StateAt, GotoControl
  DEF RecoveryDown, Active, PointsIn, StateNames
<1>11. CASE RecoveryClean(p)
  BY <1>11, StateAt, GotoControl
  DEF RecoveryClean, Active, PointsIn, StateNames
<1>12. CASE StartUpAgain(p)
  BY <1>12, StateAt, GotoControl, ExitControl
  DEF StartUpAgain, ComposeUp, Active, PointsIn, StateNames
<1>13. CASE WaitForMirror(p)
  BY <1>13, StateAt, GotoControl
  DEF WaitForMirror, WaitForFiringUp, Fail, Active, PointsIn, StateNames
<1>14. CASE WaitForNode(p)
  BY <1>14, StateAt, GotoControl, FinishControl
  DEF WaitForNode, WaitForFiringUp, Fail, Active, PointsIn, StateNames
<1>15. CASE ImportFees(p)
  BY <1>15, StateAt, GotoControl, ExitControl
  DEF ImportFees, ImportFile, Crash, Active, PointsIn, StateNames
<1>16. CASE ImportExchangeRates(p)
  BY <1>16, StateAt, GotoControl, ExitControl
  DEF ImportExchangeRates, ImportFile, Crash, Active, PointsIn, StateNames
<1>17. CASE WaitForTopic(p)
  BY <1>17, StateAt, GotoControl, FinishControl
  DEF WaitForTopic, Active, PointsIn, StateNames
<1>18. CASE BeginAccounts(p)
  BY <1>18, StateAt, GotoControl, FinishControl
  DEF BeginAccounts, Active, PointsIn, StateNames
<1>19. CASE CreateAccount(p)
  BY <1>19 DEF CreateAccount, ControlInv, Active, Interrupted, StateOf
<1>20. CASE AccountFails(p)
  BY <1>20, StateAt, ExitControl
  DEF AccountFails, Crash, Active, PointsIn, StateNames, Waiting, AwaitPoints
<1>21. CASE AccountsCreated(p)
  BY <1>21, StateAt, FinishControl
  DEF AccountsCreated, Active, PointsIn, StateNames
<1>22. CASE BeginResources(p)
  BY <1>22, StateAt, GotoControl, FinishControl
  DEF BeginResources, Active, PointsIn, StateNames
<1>23. CASE CreateResources(p)
  BY <1>23, StateAt, FinishControl, ExitControl
  DEF CreateResources, Crash, Active, PointsIn, StateNames
<1>24. CASE RevertNodeProperties(p)
  BY <1>24, StateAt, GotoControl
  DEF RevertNodeProperties, Active, PointsIn, StateNames
<1>25. CASE RevertMirrorNodeProperties(p)
  BY <1>25, StateAt, FinishControl, ExitControl
  DEF RevertMirrorNodeProperties, Active, PointsIn, StateNames
<1>26. CASE AttachState(p)
  BY <1>26, StateAt, FinishControl
  DEF AttachState, Active, PointsIn, StateNames
<1>27. CASE StopKill(p)
  BY <1>27, StateAt, GotoControl
  DEF StopKill, Active, PointsIn, StateNames
<1>28. CASE StopDown(p)
  BY <1>28, StateAt, GotoControl
  DEF StopDown, Active, PointsIn, StateNames
<1>29. CASE StopClean(p)
  BY <1>29, StateAt, FinishControl
  DEF StopClean, Active, PointsIn, StateNames
<1>30. CASE Interrupt(p)
  BY <1>30, InterruptControl
<1>31. CASE Kill(p)
  BY <1>31, StateAt, ExitControl
  DEF Kill, Active, PointsIn, StateNames
<1>32. CASE Drain(p)
  BY <1>32, StateAt, ExitControl
  DEF Drain, Active, PointsIn, StateNames
<1> QED BY <1>1, <1>2, <1>3, <1>4, <1>5, <1>6, <1>7, <1>8, <1>9, <1>10, <1>11,
       <1>12, <1>13, <1>14, <1>15, <1>16, <1>17, <1>18, <1>19, <1>20, <1>21,
       <1>22, <1>23, <1>24, <1>25, <1>26, <1>27, <1>28, <1>29, <1>30, <1>31,
       <1>32
   DEF ProcessAction

-----------------------------------------------------------------------------
(* The config files *)

\* Who has changed a config file and has not reverted it: a start or restart
\* that is between the two writes, was interrupted, or did not end in order.
Owes(p, points) ==
    /\ opts[p].command \in StartUpCommands
    /\ \/ Interrupted(p)
       \/ Ended(p) /\ ~EndedInOrder(p)
       \/ pc[p] \in points

ConfiguredPoints ==
    (PointsIn["Start"] \ {"fail.mirror"}) \cup PointsIn["NetworkPrep"]
    \cup PointsIn["AccountCreation"] \cup PointsIn["ResourceCreation"]
    \cup {"clean.node"}
BootPoints == ConfiguredPoints \cup {"init.mirror"}
MirrorPoints == ConfiguredPoints \cup {"clean.mirror", "fail.mirror"}

Originals == {"absent", "original"}
FilesInv ==
    /\ boot \notin Originals => \E p \in Proc : Owes(p, BootPoints)
    /\ mirror \notin Originals => \E p \in Proc : Owes(p, MirrorPoints)

\* Every state but AccountCreation and Stop belongs to a start or restart.
LEMMA StartUpStates ==
    ASSUME ControlTypeOK, NEW p \in Proc,
           StateOf(p) \in {"Init", "Start", "NetworkPrep", "ResourceCreation",
                          "CleanUp", "Attach"}
    PROVE  cmd[p] \in StartUpCommands
<1>1. cmd[p] # "stop"
  BY StateOfType
<1>2. cmd[p] # "accountCreation"
  BY StateOfType, ProcedureLengths, ProcedureStates DEF StateOf
<1> QED BY <1>1, <1>2, StateOfType, ProcedureDomain DEF StartUpCommands

\* Where Finish takes a process, state by state.
LEMMA FinishGoes ==
    ASSUME ControlTypeOK, ControlInv, NEW p \in Proc, Active(p), Finish(p)
    PROVE  /\ StateOf(p) = "Init" => pc'[p] = "start.images"
           /\ StateOf(p) = "Start" => pc'[p] = "net.fees"
           /\ StateOf(p) = "NetworkPrep" => pc'[p] = "acc.begin"
           /\ StateOf(p) = "AccountCreation" /\ cmd[p] \in StartUpCommands =>
                pc'[p] = "res.begin"
           /\ StateOf(p) = "ResourceCreation" => pc'[p] = "clean.node"
<1> DEFINE i == curr[p]
           c == cmd[p]
<1>1. c \in DOMAIN Procedure /\ i \in 1..Len(Procedure[c]) /\ Len(Procedure[c]) \in Nat
  BY StateOfType
<1>2. i < Len(Procedure[c]) => pc'[p] = Entry[Procedure[c][i + 1]]
  BY <1>1 DEF Finish, ControlTypeOK
<1> QED BY <1>1, <1>2, Successor DEF StateOf, Entry, StartUpCommands

\* A step of one process leaves the others where they are.
LEMMA OthersStay ==
    ASSUME ControlTypeOK, NEW p \in Proc, ProcessAction(p), NEW q \in Proc, q # p
    PROVE  /\ pc'[q] = pc[q] /\ exit'[q] = exit[q] /\ curr'[q] = curr[q]
           /\ cmd'[q] = cmd[q] /\ opts'[q] = opts[q]
<1> USE DEF ControlTypeOK, Goto, ExitAs, Finish, Fail, Crash
<1>1. CASE Launch(p)
  BY <1>1 DEF Launch
<1>2. CASE InitCheck(p)
  BY <1>2 DEF InitCheck
<1>3. CASE InitPorts(p)
  BY <1>3 DEF InitPorts
<1>4. CASE PrepareWorkDirectory(p)
  BY <1>4 DEF PrepareWorkDirectory
<1>5. CASE ConfigureNodeProperties(p)
  BY <1>5 DEF ConfigureNodeProperties
<1>6. CASE ConfigureMirrorNodeProperties(p)
  BY <1>6 DEF ConfigureMirrorNodeProperties
<1>7. CASE CheckDockerImages(p)
  BY <1>7 DEF CheckDockerImages
<1>8. CASE StartUp(p)
  BY <1>8 DEF StartUp, ComposeUp
<1>9. CASE RecoveryKill(p)
  BY <1>9 DEF RecoveryKill
<1>10. CASE RecoveryDown(p)
  BY <1>10 DEF RecoveryDown
<1>11. CASE RecoveryClean(p)
  BY <1>11 DEF RecoveryClean
<1>12. CASE StartUpAgain(p)
  BY <1>12 DEF StartUpAgain, ComposeUp
<1>13. CASE WaitForMirror(p)
  BY <1>13 DEF WaitForMirror, WaitForFiringUp
<1>14. CASE WaitForNode(p)
  BY <1>14 DEF WaitForNode, WaitForFiringUp
<1>15. CASE ImportFees(p)
  BY <1>15 DEF ImportFees, ImportFile
<1>16. CASE ImportExchangeRates(p)
  BY <1>16 DEF ImportExchangeRates, ImportFile
<1>17. CASE WaitForTopic(p)
  BY <1>17 DEF WaitForTopic
<1>18. CASE BeginAccounts(p)
  BY <1>18 DEF BeginAccounts
<1>19. CASE CreateAccount(p)
  BY <1>19 DEF CreateAccount
<1>20. CASE AccountFails(p)
  BY <1>20 DEF AccountFails
<1>21. CASE AccountsCreated(p)
  BY <1>21 DEF AccountsCreated
<1>22. CASE BeginResources(p)
  BY <1>22 DEF BeginResources
<1>23. CASE CreateResources(p)
  BY <1>23 DEF CreateResources
<1>24. CASE RevertNodeProperties(p)
  BY <1>24 DEF RevertNodeProperties
<1>25. CASE RevertMirrorNodeProperties(p)
  BY <1>25 DEF RevertMirrorNodeProperties
<1>26. CASE AttachState(p)
  BY <1>26 DEF AttachState
<1>27. CASE StopKill(p)
  BY <1>27 DEF StopKill
<1>28. CASE StopDown(p)
  BY <1>28 DEF StopDown
<1>29. CASE StopClean(p)
  BY <1>29 DEF StopClean
<1>30. CASE Interrupt(p)
  BY <1>30 DEF Interrupt
<1>31. CASE Kill(p)
  BY <1>31 DEF Kill
<1>32. CASE Drain(p)
  BY <1>32 DEF Drain
<1> QED BY <1>1, <1>2, <1>3, <1>4, <1>5, <1>6, <1>7, <1>8, <1>9, <1>10, <1>11,
       <1>12, <1>13, <1>14, <1>15, <1>16, <1>17, <1>18, <1>19, <1>20, <1>21,
       <1>22, <1>23, <1>24, <1>25, <1>26, <1>27, <1>28, <1>29, <1>30, <1>31,
       <1>32
   DEF ProcessAction

\* The command line of a process never changes.
LEMMA OptionsFixed ==
    ASSUME NEW p \in Proc, ProcessAction(p)
    PROVE  opts' = opts /\ (cmd' = cmd \/ Interrupt(p)) /\ pc[p] # "done"
<1> USE DEF Goto, ExitAs, Finish, Fail, Crash
<1>1. CASE Launch(p)
  BY <1>1 DEF Launch
<1>2. CASE InitCheck(p)
  BY <1>2 DEF InitCheck
<1>3. CASE InitPorts(p)
  BY <1>3 DEF InitPorts
<1>4. CASE PrepareWorkDirectory(p)
  BY <1>4 DEF PrepareWorkDirectory
<1>5. CASE ConfigureNodeProperties(p)
  BY <1>5 DEF ConfigureNodeProperties
<1>6. CASE ConfigureMirrorNodeProperties(p)
  BY <1>6 DEF ConfigureMirrorNodeProperties
<1>7. CASE CheckDockerImages(p)
  BY <1>7 DEF CheckDockerImages
<1>8. CASE StartUp(p)
  BY <1>8 DEF StartUp, ComposeUp
<1>9. CASE RecoveryKill(p)
  BY <1>9 DEF RecoveryKill
<1>10. CASE RecoveryDown(p)
  BY <1>10 DEF RecoveryDown
<1>11. CASE RecoveryClean(p)
  BY <1>11 DEF RecoveryClean
<1>12. CASE StartUpAgain(p)
  BY <1>12 DEF StartUpAgain, ComposeUp
<1>13. CASE WaitForMirror(p)
  BY <1>13 DEF WaitForMirror, WaitForFiringUp
<1>14. CASE WaitForNode(p)
  BY <1>14 DEF WaitForNode, WaitForFiringUp
<1>15. CASE ImportFees(p)
  BY <1>15 DEF ImportFees, ImportFile
<1>16. CASE ImportExchangeRates(p)
  BY <1>16 DEF ImportExchangeRates, ImportFile
<1>17. CASE WaitForTopic(p)
  BY <1>17 DEF WaitForTopic
<1>18. CASE BeginAccounts(p)
  BY <1>18 DEF BeginAccounts
<1>19. CASE CreateAccount(p)
  BY <1>19 DEF CreateAccount, Waiting, AwaitPoints
<1>20. CASE AccountFails(p)
  BY <1>20 DEF AccountFails, Waiting, AwaitPoints
<1>21. CASE AccountsCreated(p)
  BY <1>21 DEF AccountsCreated
<1>22. CASE BeginResources(p)
  BY <1>22 DEF BeginResources
<1>23. CASE CreateResources(p)
  BY <1>23 DEF CreateResources
<1>24. CASE RevertNodeProperties(p)
  BY <1>24 DEF RevertNodeProperties
<1>25. CASE RevertMirrorNodeProperties(p)
  BY <1>25 DEF RevertMirrorNodeProperties
<1>26. CASE AttachState(p)
  BY <1>26 DEF AttachState
<1>27. CASE StopKill(p)
  BY <1>27 DEF StopKill
<1>28. CASE StopDown(p)
  BY <1>28 DEF StopDown
<1>29. CASE StopClean(p)
  BY <1>29 DEF StopClean
<1>30. CASE Interrupt(p)
  BY <1>30 DEF Interrupt, Waiting, AwaitPoints
<1>31. CASE Kill(p)
  BY <1>31 DEF Kill, Active
<1>32. CASE Drain(p)
  BY <1>32 DEF Drain
<1> QED BY <1>1, <1>2, <1>3, <1>4, <1>5, <1>6, <1>7, <1>8, <1>9, <1>10, <1>11,
       <1>12, <1>13, <1>14, <1>15, <1>16, <1>17, <1>18, <1>19, <1>20, <1>21,
       <1>22, <1>23, <1>24, <1>25, <1>26, <1>27, <1>28, <1>29, <1>30, <1>31,
       <1>32
   DEF ProcessAction

\* A process that was interrupted by SIGINT remains so.
LEMMA InterruptedStays ==
    ASSUME ControlTypeOK, NEW p \in Proc, ProcessAction(p), Interrupted(p),
           opts[p].command \in StartUpCommands
    PROVE  Interrupted(p)'
<1>1. opts' = opts /\ (cmd' = cmd \/ cmd'[p] = "stop")
  BY OptionsFixed DEF Interrupt, ControlTypeOK
<1> QED BY <1>1 DEF Interrupted, StartUpCommands

\* Leaving a state in which the files are configured, a start or restart goes
\* to another such state or to CleanUpState.
LEMMA FinishConfigured ==
    ASSUME ControlTypeOK, ControlInv, NEW p \in Proc, Finish(p),
           cmd[p] \in StartUpCommands,
           pc[p] \in {"init.mirror", "start.node", "net.topic", "acc.begin",
                     "acc.wait", "res.begin", "res.wait"}
    PROVE  pc'[p] \in ConfiguredPoints
<1>1. Active(p)
  BY DEF Active
<1>2. StateOf(p) \in {"Init", "Start", "NetworkPrep", "AccountCreation", "ResourceCreation"}
  BY <1>1, StateAt DEF PointsIn, StateNames
<1>3. pc'[p] \in {"start.images", "net.fees", "acc.begin", "res.begin", "clean.node"}
  BY <1>1, <1>2, FinishGoes
<1> QED BY <1>3 DEF ConfiguredPoints, PointsIn

\* A process stops owing the contents of the file only by reverting it.
LEMMA OwesBoot ==
    ASSUME ControlTypeOK, ControlInv, NEW p \in Proc, ProcessAction(p),
           Owes(p, BootPoints)
    PROVE  boot' \in Originals \/ Owes(p, BootPoints)'
<1> USE DEF Owes
<1>0. opts' = opts /\ pc[p] # "done" /\ opts[p].command \in StartUpCommands
  BY OptionsFixed
<1>1. CASE Interrupted(p)
  BY <1>0, <1>1, OptionsFixed, InterruptedStays
<1>2. CASE ~Interrupted(p)
  <2>1. Active(p) /\ pc[p] \in BootPoints /\ cmd[p] \in StartUpCommands
    BY <1>0, <1>2 DEF Active, Ended, Interrupted, BootPoints, ConfiguredPoints, PointsIn
  <2> USE DEF BootPoints, ConfiguredPoints, PointsIn, StateNames
  <2>2. CASE Launch(p)
    BY <2>2, <1>0, <2>1
    DEF Launch, Goto, ControlTypeOK
  <2>3. CASE InitCheck(p)
    BY <2>3, <1>0, <2>1
    DEF InitCheck, Fail, Crash, Goto, ControlTypeOK, ExitAs, Ended, EndedInOrder
  <2>4. CASE InitPorts(p)
    BY <2>4, <1>0, <2>1
    DEF InitPorts, Goto, ControlTypeOK, ExitAs, Ended, EndedInOrder
  <2>5. CASE PrepareWorkDirectory(p)
    BY <2>5, <1>0, <2>1
    DEF PrepareWorkDirectory, Goto, ControlTypeOK
  <2>6. CASE ConfigureNodeProperties(p)
    BY <2>6, <1>0, <2>1
    DEF ConfigureNodeProperties, Crash, Goto, ControlTypeOK, ExitAs, Ended,
        EndedInOrder
  <2>7. CASE ConfigureMirrorNodeProperties(p)
    BY <2>7, <1>0, <2>1, FinishConfigured
    DEF ConfigureMirrorNodeProperties, Crash, ExitAs, Ended, EndedInOrder,
        ControlTypeOK
  <2>8. CASE CheckDockerImages(p)
    BY <2>8, <1>0, <2>1
    DEF CheckDockerImages, Goto, ControlTypeOK
  <2>9. CASE StartUp(p)
    BY <2>9, <1>0, <2>1
    DEF StartUp, ComposeUp, Goto, ControlTypeOK, ExitAs, Ended, EndedInOrder
  <2>10. CASE RecoveryKill(p)
    BY <2>10, <1>0, <2>1
    DEF RecoveryKill, Goto, ControlTypeOK
  <2>11. CASE RecoveryDown(p)
    BY <2>11, <1>0, <2>1
    DEF RecoveryDown, Goto, ControlTypeOK
  <2>12. CASE RecoveryClean(p)
    BY <2>12, <1>0, <2>1
    DEF RecoveryClean, Goto, ControlTypeOK
  <2>13. CASE StartUpAgain(p)
    BY <2>13, <1>0, <2>1
    DEF StartUpAgain, ComposeUp, Goto, ControlTypeOK, ExitAs, Ended,
        EndedInOrder
  <2>14. CASE WaitForMirror(p)
    BY <2>14, <1>0, <2>1
    DEF WaitForMirror, WaitForFiringUp, Fail, Goto, ControlTypeOK
  <2>15. CASE WaitForNode(p)
    BY <2>15, <1>0, <2>1, FinishConfigured
    DEF WaitForNode, WaitForFiringUp, Fail, Goto, ControlTypeOK
  <2>16. CASE ImportFees(p)
    BY <2>16, <1>0, <2>1
    DEF ImportFees, ImportFile, Crash, Goto, ControlTypeOK, ExitAs, Ended,
        EndedInOrder
  <2>17. CASE ImportExchangeRates(p)
    BY <2>17, <1>0, <2>1
    DEF ImportExchangeRates, ImportFile, Crash, Goto, ControlTypeOK, ExitAs,
        Ended, EndedInOrder
  <2>18. CASE WaitForTopic(p)
    BY <2>18, <1>0, <2>1, FinishConfigured
    DEF WaitForTopic, Goto, ControlTypeOK
  <2>19. CASE BeginAccounts(p)
    BY <2>19, <1>0, <2>1, FinishConfigured
    DEF BeginAccounts, Goto, ControlTypeOK
  <2>20. CASE CreateAccount(p)
    BY <1>0, <2>20, <2>1 DEF CreateAccount
  <2>21. CASE AccountFails(p)
    BY <2>21, <1>0, <2>1
    DEF AccountFails, Crash, ExitAs, Ended, EndedInOrder, ControlTypeOK
  <2>22. CASE AccountsCreated(p)
    BY <2>22, <1>0, <2>1, FinishConfigured
    DEF AccountsCreated
  <2>23. CASE BeginResources(p)
    BY <2>23, <1>0, <2>1, FinishConfigured
    DEF BeginResources, Goto, ControlTypeOK
  <2>24. CASE CreateResources(p)
    BY <2>24, <1>0, <2>1, FinishConfigured
    DEF CreateResources, Crash, ExitAs, Ended, EndedInOrder, ControlTypeOK
  <2>25. CASE RevertNodeProperties(p)
    BY <2>25, <1>0, <2>1
    DEF RevertNodeProperties, Goto, ControlTypeOK, Reverted, Originals
  <2>26. CASE RevertMirrorNodeProperties(p)
    BY <2>26, <1>0, <2>1, FinishConfigured
    DEF RevertMirrorNodeProperties, ExitAs, Ended, EndedInOrder, ControlTypeOK
  <2>27. CASE AttachState(p)
    BY <2>27, <1>0, <2>1, FinishConfigured
    DEF AttachState
  <2>28. CASE StopKill(p)
    BY <2>28, <1>0, <2>1
    DEF StopKill, Goto, ControlTypeOK
  <2>29. CASE StopDown(p)
    BY <2>29, <1>0, <2>1
    DEF StopDown, Goto, ControlTypeOK
  <2>30. CASE StopClean(p)
    BY <2>30, <1>0, <2>1, FinishConfigured
    DEF StopClean
  <2>31. CASE Interrupt(p)
    BY <1>0, <2>31 DEF Interrupt, Interrupted, ControlTypeOK, StartUpCommands
  <2>32. CASE Kill(p)
    BY <2>32, <1>0, <2>1
    DEF Kill, ExitAs, Ended, EndedInOrder, ControlTypeOK
  <2>33. CASE Drain(p)
    BY <2>33, <1>0, <2>1
    DEF Drain, ExitAs, Ended, EndedInOrder, ControlTypeOK
  <2> QED BY <2>2, <2>3, <2>4, <2>5, <2>6, <2>7, <2>8, <2>9, <2>10, <2>11,
         <2>12, <2>13, <2>14, <2>15, <2>16, <2>17, <2>18, <2>19, <2>20, <2>21,
         <2>22, <2>23, <2>24, <2>25, <2>26, <2>27, <2>28, <2>29, <2>30, <2>31,
         <2>32, <2>33
     DEF ProcessAction
<1> QED BY <1>1, <1>2

\* A process stops owing the contents of the file only by reverting it.
LEMMA OwesMirror ==
    ASSUME ControlTypeOK, ControlInv, NEW p \in Proc, ProcessAction(p),
           Owes(p, MirrorPoints)
    PROVE  mirror' \in Originals \/ Owes(p, MirrorPoints)'
<1> USE DEF Owes
<1>0. opts' = opts /\ pc[p] # "done" /\ opts[p].command \in StartUpCommands
  BY OptionsFixed
<1>1. CASE Interrupted(p)
  BY <1>0, <1>1, OptionsFixed, InterruptedStays
<1>2. CASE ~Interrupted(p)
  <2>1. Active(p) /\ pc[p] \in MirrorPoints /\ cmd[p] \in StartUpCommands
    BY <1>0, <1>2 DEF Active, Ended, Interrupted, MirrorPoints, ConfiguredPoints, PointsIn
  <2> USE DEF MirrorPoints, ConfiguredPoints, PointsIn, StateNames
  <2>2. CASE Launch(p)
    BY <2>2, <1>0, <2>1
    DEF Launch, Goto, ControlTypeOK
  <2>3. CASE InitCheck(p)
    BY <2>3, <1>0, <2>1
    DEF InitCheck, Fail, Crash, Goto, ControlTypeOK, ExitAs, Ended, EndedInOrder
  <2>4. CASE InitPorts(p)
    BY <2>4, <1>0, <2>1
    DEF InitPorts, Goto, ControlTypeOK, ExitAs, Ended, EndedInOrder
  <2>5. CASE PrepareWorkDirectory(p)
    BY <2>5, <1>0, <2>1
    DEF PrepareWorkDirectory, Goto, ControlTypeOK
  <2>6. CASE ConfigureNodeProperties(p)
    BY <2>6, <1>0, <2>1
    DEF ConfigureNodeProperties, Crash, Goto, ControlTypeOK, ExitAs, Ended,
        EndedInOrder
  <2>7. CASE ConfigureMirrorNodeProperties(p)
    BY <2>7, <1>0, <2>1, FinishConfigured
    DEF ConfigureMirrorNodeProperties, Crash, ExitAs, Ended, EndedInOrder,
        ControlTypeOK
  <2>8. CASE CheckDockerImages(p)
    BY <2>8, <1>0, <2>1
    DEF CheckDockerImages, Goto, ControlTypeOK
  <2>9. CASE StartUp(p)
    BY <2>9, <1>0, <2>1
    DEF StartUp, ComposeUp, Goto, ControlTypeOK, ExitAs, Ended, EndedInOrder
  <2>10. CASE RecoveryKill(p)
    BY <2>10, <1>0, <2>1
    DEF RecoveryKill, Goto, ControlTypeOK
  <2>11. CASE RecoveryDown(p)
    BY <2>11, <1>0, <2>1
    DEF RecoveryDown, Goto, ControlTypeOK
  <2>12. CASE RecoveryClean(p)
    BY <2>12, <1>0, <2>1
    DEF RecoveryClean, Goto, ControlTypeOK
  <2>13. CASE StartUpAgain(p)
    BY <2>13, <1>0, <2>1
    DEF StartUpAgain, ComposeUp, Goto, ControlTypeOK, ExitAs, Ended,
        EndedInOrder
  <2>14. CASE WaitForMirror(p)
    BY <2>14, <1>0, <2>1
    DEF WaitForMirror, WaitForFiringUp, Fail, Goto, ControlTypeOK
  <2>15. CASE WaitForNode(p)
    BY <2>15, <1>0, <2>1, FinishConfigured
    DEF WaitForNode, WaitForFiringUp, Fail, Goto, ControlTypeOK
  <2>16. CASE ImportFees(p)
    BY <2>16, <1>0, <2>1
    DEF ImportFees, ImportFile, Crash, Goto, ControlTypeOK, ExitAs, Ended,
        EndedInOrder
  <2>17. CASE ImportExchangeRates(p)
    BY <2>17, <1>0, <2>1
    DEF ImportExchangeRates, ImportFile, Crash, Goto, ControlTypeOK, ExitAs,
        Ended, EndedInOrder
  <2>18. CASE WaitForTopic(p)
    BY <2>18, <1>0, <2>1, FinishConfigured
    DEF WaitForTopic, Goto, ControlTypeOK
  <2>19. CASE BeginAccounts(p)
    BY <2>19, <1>0, <2>1, FinishConfigured
    DEF BeginAccounts, Goto, ControlTypeOK
  <2>20. CASE CreateAccount(p)
    BY <1>0, <2>20, <2>1 DEF CreateAccount
  <2>21. CASE AccountFails(p)
    BY <2>21, <1>0, <2>1
    DEF AccountFails, Crash, ExitAs, Ended, EndedInOrder, ControlTypeOK
  <2>22. CASE AccountsCreated(p)
    BY <2>22, <1>0, <2>1, FinishConfigured
    DEF AccountsCreated
  <2>23. CASE BeginResources(p)
    BY <2>23, <1>0, <2>1, FinishConfigured
    DEF BeginResources, Goto, ControlTypeOK
  <2>24. CASE CreateResources(p)
    BY <2>24, <1>0, <2>1, FinishConfigured
    DEF CreateResources, Crash, ExitAs, Ended, EndedInOrder, ControlTypeOK
  <2>25. CASE RevertNodeProperties(p)
    BY <2>25, <1>0, <2>1
    DEF RevertNodeProperties, Goto, ControlTypeOK
  <2>26. CASE RevertMirrorNodeProperties(p)
    BY <2>26, <1>0, <2>1, FinishConfigured
    DEF RevertMirrorNodeProperties, ExitAs, Ended, EndedInOrder,
        ControlTypeOK, Reverted, Originals
  <2>27. CASE AttachState(p)
    BY <2>27, <1>0, <2>1, FinishConfigured
    DEF AttachState
  <2>28. CASE StopKill(p)
    BY <2>28, <1>0, <2>1
    DEF StopKill, Goto, ControlTypeOK
  <2>29. CASE StopDown(p)
    BY <2>29, <1>0, <2>1
    DEF StopDown, Goto, ControlTypeOK
  <2>30. CASE StopClean(p)
    BY <2>30, <1>0, <2>1, FinishConfigured
    DEF StopClean
  <2>31. CASE Interrupt(p)
    BY <1>0, <2>31 DEF Interrupt, Interrupted, ControlTypeOK, StartUpCommands
  <2>32. CASE Kill(p)
    BY <2>32, <1>0, <2>1
    DEF Kill, ExitAs, Ended, EndedInOrder, ControlTypeOK
  <2>33. CASE Drain(p)
    BY <2>33, <1>0, <2>1
    DEF Drain, ExitAs, Ended, EndedInOrder, ControlTypeOK
  <2> QED BY <2>2, <2>3, <2>4, <2>5, <2>6, <2>7, <2>8, <2>9, <2>10, <2>11,
         <2>12, <2>13, <2>14, <2>15, <2>16, <2>17, <2>18, <2>19, <2>20, <2>21,
         <2>22, <2>23, <2>24, <2>25, <2>26, <2>27, <2>28, <2>29, <2>30, <2>31,
         <2>32, <2>33
     DEF ProcessAction
<1> QED BY <1>1, <1>2

\* The only actions that write the config files.
FileWriter(p) ==
    \/ PrepareWorkDirectory(p)
    \/ ConfigureNodeProperties(p) \/ ConfigureMirrorNodeProperties(p)
    \/ RevertNodeProperties(p) \/ RevertMirrorNodeProperties(p)

\* Only these actions change a config file.
LEMMA OthersDoNotWrite ==
    ASSUME NEW p \in Proc, ProcessAction(p), ~FileWriter(p)
    PROVE  UNCHANGED files
BY DEF ProcessAction, FileWriter, Launch, InitCheck, InitPorts,
       CheckDockerImages, StartUp, RecoveryKill, RecoveryDown, RecoveryClean,
       StartUpAgain, WaitForMirror, WaitForNode, ImportFees,
       ImportExchangeRates, WaitForTopic, BeginAccounts, CreateAccount,
       AccountFails, AccountsCreated, BeginResources, CreateResources,
       AttachState, StopKill, StopDown, StopClean, Interrupt, Kill, Drain,
       WaitForFiringUp, ImportFile, ComposeUp

\* What another process owes does not change.
LEMMA OwingOthers ==
    ASSUME ControlTypeOK, NEW p \in Proc, ProcessAction(p), NEW q \in Proc, q # p,
           NEW points, Owes(q, points)
    PROVE  Owes(q, points)'
BY OthersStay DEF Owes, Interrupted, Ended, EndedInOrder

\* A changed bootstrap.properties has somebody who owes its contents.
LEMMA BootInvStep ==
    ASSUME ControlTypeOK, ControlInv, FilesInv, NEW p \in Proc, ProcessAction(p),
           boot' \notin Originals
    PROVE  \E q \in Proc : Owes(q, BootPoints)'
<1>1. CASE boot \notin Originals
  <2>1. PICK q \in Proc : Owes(q, BootPoints)
    BY <1>1 DEF FilesInv
  <2>2. CASE q = p
    BY <2>1, <2>2, OwesBoot
  <2>3. CASE q # p
    BY <2>1, <2>3, OwingOthers
  <2> QED BY <2>2, <2>3
<1>2. CASE boot \in Originals
  <2>1. ConfigureNodeProperties(p)
    <3>1. FileWriter(p)
      BY <1>2, OthersDoNotWrite DEF files
    <3> QED BY <1>2, <3>1 DEF FileWriter, PrepareWorkDirectory, files,
          ConfigureNodeProperties, ConfigureMirrorNodeProperties,
          RevertNodeProperties, RevertMirrorNodeProperties, Reverted, Originals
  <2>2. Active(p) /\ StateOf(p) = "Init" /\ ~Interrupted(p)
    <3>1. pc[p] = "init.node" /\ Active(p)
      BY <2>1 DEF ConfigureNodeProperties, Active
    <3> QED BY <3>1, StateAt DEF PointsIn, StateNames
  <2>3. cmd[p] = opts[p].command /\ cmd[p] \in StartUpCommands
    BY <2>2, StartUpStates DEF Interrupted
  <2>4. pc'[p] = "init.mirror" /\ opts' = opts
    BY <1>2, <2>1 DEF ConfigureNodeProperties, Goto, Crash, ControlTypeOK
  <2> QED BY <2>3, <2>4 DEF Owes, BootPoints
<1> QED BY <1>1, <1>2

\* A changed application.yml has somebody who owes its contents.
LEMMA MirrorInvStep ==
    ASSUME ControlTypeOK, ControlInv, FilesInv, NEW p \in Proc, ProcessAction(p),
           mirror' \notin Originals
    PROVE  \E q \in Proc : Owes(q, MirrorPoints)'
<1>1. CASE mirror \notin Originals
  <2>1. PICK q \in Proc : Owes(q, MirrorPoints)
    BY <1>1 DEF FilesInv
  <2>2. CASE q = p
    BY <2>1, <2>2, OwesMirror
  <2>3. CASE q # p
    BY <2>1, <2>3, OwingOthers
  <2> QED BY <2>2, <2>3
<1>2. CASE mirror \in Originals
  <2>1. ConfigureMirrorNodeProperties(p) /\ Finish(p)
    <3>1. FileWriter(p)
      BY <1>2, OthersDoNotWrite DEF files
    <3> QED BY <1>2, <3>1 DEF FileWriter, PrepareWorkDirectory, files,
          ConfigureNodeProperties, ConfigureMirrorNodeProperties,
          RevertNodeProperties, RevertMirrorNodeProperties, Reverted, Originals
  <2>2. pc[p] = "init.mirror" /\ StateOf(p) = "Init" /\ ~Interrupted(p)
    <3>1. pc[p] = "init.mirror" /\ Active(p)
      BY <2>1 DEF ConfigureMirrorNodeProperties, Active
    <3> QED BY <3>1, StateAt DEF PointsIn, StateNames
  <2>3. cmd[p] = opts[p].command /\ cmd[p] \in StartUpCommands
    BY <2>2, StartUpStates DEF Interrupted
  <2>4. pc'[p] \in ConfiguredPoints
    BY <2>1, <2>2, <2>3, FinishConfigured
  <2>5. opts' = opts
    BY OptionsFixed
  <2> QED BY <2>3, <2>4, <2>5 DEF Owes, MirrorPoints
<1> QED BY <1>1, <1>2

\* A step that changes neither control nor files keeps the invariant.
LEMMA StaysInv ==
    ASSUME ControlInv, FilesInv, UNCHANGED control, UNCHANGED files
    PROVE  ControlInv' /\ FilesInv'
<1>1. \A p \in Proc : (Interrupted(p) <=> Interrupted(p)') /\ (Active(p) <=> Active(p)')
                    /\ StateOf(p)' = StateOf(p)
  BY DEF control, Interrupted, Active, StateOf
<1>2. ControlInv'
  BY <1>1 DEF control, ControlInv
<1>3. \A p \in Proc : \A points : Owes(p, points) => Owes(p, points)'
  BY DEF control, Owes, Interrupted, Ended, EndedInOrder
<1>4. FilesInv'
  BY <1>3 DEF files, FilesInv
<1> QED BY <1>2, <1>4

-----------------------------------------------------------------------------
(* The inductive invariant *)

Inv == TypeOK /\ ControlInv /\ FilesInv

\* The invariant holds initially.
THEOREM InitInv == Init => Inv
BY InitTypeOK, ControlInvInit DEF Init, Inv, FilesInv, Originals

\* Every step of the system keeps the invariant.
THEOREM InvStep == Inv /\ [Next]_vars => Inv'
<1> SUFFICES ASSUME Inv, [Next]_vars PROVE ControlInv' /\ FilesInv'
  BY TypeStep DEF Inv
<1> USE DEF Inv, TypeOK
<1>1. CASE \E p \in Proc : Work(p) \/ Disturb(p)
  <2>1. PICK p \in Proc : ProcessAction(p)
    BY <1>1, ActionsOfProcess
  <2>2. FilesInv'
    BY <2>1, BootInvStep, MirrorInvStep DEF FilesInv
  <2> QED BY <2>1, <2>2, ControlInvStep
<1>2. CASE Environment
  <2>1. UNCHANGED control /\ UNCHANGED files
    BY <1>2, EnvironmentStep DEF Environment, BootNode, BootMirror, Boot,
       MonitorCreatesTopic, StreamRecords, WorldTypeOK
  <2> QED BY <2>1, StaysInv
<1>3. CASE UNCHANGED vars
  BY <1>3, StaysInv DEF vars
<1> QED BY <1>1, <1>2, <1>3 DEF Next, Done

\* When nobody owes anything the files are the originals.
LEMMA FilesInvImplies == ControlInv /\ FilesInv => FilesReverted
<1> SUFFICES ASSUME ControlInv, FilesInv, NEW p \in Proc,
                    opts[p].command \in StartUpCommands =>
                        pc[p] = "new" \/ EndedInOrder(p)
             PROVE  ~Owes(p, BootPoints) /\ ~Owes(p, MirrorPoints)
  BY DEF FilesReverted, FilesInv, Originals
<1>1. CASE pc[p] = "new"
  BY <1>1 DEF Owes, ControlInv, Ended, PointsIn, BootPoints, MirrorPoints,
              ConfiguredPoints
<1>2. CASE EndedInOrder(p)
  BY <1>2 DEF Owes, ControlInv, Ended, EndedInOrder, Interrupted, PointsIn,
              BootPoints, MirrorPoints, ConfiguredPoints
<1>3. CASE opts[p].command \notin StartUpCommands
  BY <1>3 DEF Owes
<1> QED BY <1>1, <1>2, <1>3

\* In every reachable state each process is at a point of the state selected,
\* and a config file that is not the original has somebody who owes it.
THEOREM InvCorrect == Spec => []Inv
BY InitInv, InvStep, PTL DEF Spec

\* However the writes of concurrent invocations are interleaved, once every
\* start and restart has ended in order the config files are the originals.
THEOREM FilesRevertedCorrect == Spec => []FilesReverted
BY InvCorrect, FilesInvImplies, PTL DEF Inv

-----------------------------------------------------------------------------
(* Accounts and the monitor's topic *)

\* The process has reached its account creation, or was interrupted.
Late(p) ==
    \/ Interrupted(p)
    \/ \E i \in 1..curr[p] : Procedure[cmd[p]][i] = "AccountCreation"

\* A ledger in which a process saw the topic contains it; and no process has
\* launched or created an account before its account creation began.
TopicInv ==
    /\ \A p \in Proc : seen[p] = ledger => Created("topic")
    /\ \A p \in Proc : jobs[p] > 0 \/ Created(p) => Late(p)
    /\ AccountsFollowTopic

\* In a start or restart NetworkPrepState comes before AccountCreationState.
LEMMA PrepBeforeAccounts ==
    ASSUME NEW c \in DOMAIN Procedure, NEW i \in 1..Len(Procedure[c]),
           Procedure[c][i] = "NetworkPrep", NEW j \in 1..i
    PROVE  Procedure[c][j] # "AccountCreation"
<1>1. CASE c = "start"
  BY <1>1, ProcedureLengths, ProcedureStates
<1>2. CASE c = "restart"
  BY <1>2, ProcedureLengths, ProcedureStates
<1>3. CASE c \in {"stop", "accountCreation"}
  BY <1>3, ProcedureLengths, ProcedureStates
<1> QED BY <1>1, <1>2, <1>3, ProcedureDomain

\* Only a procedure with states to wait in can be interrupted.
LEMMA InterruptInterrupts ==
    ASSUME ControlTypeOK, ControlInv, NEW p \in Proc, Interrupt(p)
    PROVE  Interrupted(p)'
<1>1. Active(p) /\ pc[p] \notin PointsIn["Stop"]
  BY DEF Interrupt, Waiting, AwaitPoints, Active, PointsIn
<1>2. ~Interrupted(p) /\ StateOf(p) # "Stop"
  BY <1>1, StateAt
<1>3. opts[p].command # "stop"
  BY <1>2, StateOfType DEF Interrupted
<1> QED BY <1>3 DEF Interrupt, Interrupted, ControlTypeOK

\* currStateNum never decreases but by an interrupt.
LEMMA CurrGrows ==
    ASSUME ControlTypeOK, NEW p \in Proc, ProcessAction(p), ~Interrupt(p)
    PROVE  curr'[p] >= curr[p]
<1>0. curr[p] \in Nat
  BY DEF ControlTypeOK
<1> USE DEF ControlTypeOK, Goto, ExitAs, Finish, Fail, Crash
<1>1. CASE Launch(p)
  BY <1>0, <1>1 DEF Launch
<1>2. CASE InitCheck(p)
  BY <1>0, <1>2 DEF InitCheck
<1>3. CASE InitPorts(p)
  BY <1>0, <1>3 DEF InitPorts
<1>4. CASE PrepareWorkDirectory(p)
  BY <1>0, <1>4 DEF PrepareWorkDirectory
<1>5. CASE ConfigureNodeProperties(p)
  BY <1>0, <1>5 DEF ConfigureNodeProperties
<1>6. CASE ConfigureMirrorNodeProperties(p)
  BY <1>0, <1>6 DEF ConfigureMirrorNodeProperties
<1>7. CASE CheckDockerImages(p)
  BY <1>0, <1>7 DEF CheckDockerImages
<1>8. CASE StartUp(p)
  BY <1>0, <1>8 DEF StartUp, ComposeUp
<1>9. CASE RecoveryKill(p)
  BY <1>0, <1>9 DEF RecoveryKill
<1>10. CASE RecoveryDown(p)
  BY <1>0, <1>10 DEF RecoveryDown
<1>11. CASE RecoveryClean(p)
  BY <1>0, <1>11 DEF RecoveryClean
<1>12. CASE StartUpAgain(p)
  BY <1>0, <1>12 DEF StartUpAgain, ComposeUp
<1>13. CASE WaitForMirror(p)
  BY <1>0, <1>13 DEF WaitForMirror, WaitForFiringUp
<1>14. CASE WaitForNode(p)
  BY <1>0, <1>14 DEF WaitForNode, WaitForFiringUp
<1>15. CASE ImportFees(p)
  BY <1>0, <1>15 DEF ImportFees, ImportFile
<1>16. CASE ImportExchangeRates(p)
  BY <1>0, <1>16 DEF ImportExchangeRates, ImportFile
<1>17. CASE WaitForTopic(p)
  BY <1>0, <1>17 DEF WaitForTopic
<1>18. CASE BeginAccounts(p)
  BY <1>0, <1>18 DEF BeginAccounts
<1>19. CASE CreateAccount(p)
  BY <1>0, <1>19 DEF CreateAccount
<1>20. CASE AccountFails(p)
  BY <1>0, <1>20 DEF AccountFails
<1>21. CASE AccountsCreated(p)
  BY <1>0, <1>21 DEF AccountsCreated
<1>22. CASE BeginResources(p)
  BY <1>0, <1>22 DEF BeginResources
<1>23. CASE CreateResources(p)
  BY <1>0, <1>23 DEF CreateResources
<1>24. CASE RevertNodeProperties(p)
  BY <1>0, <1>24 DEF RevertNodeProperties
<1>25. CASE RevertMirrorNodeProperties(p)
  BY <1>0, <1>25 DEF RevertMirrorNodeProperties
<1>26. CASE AttachState(p)
  BY <1>0, <1>26 DEF AttachState
<1>27. CASE StopKill(p)
  BY <1>0, <1>27 DEF StopKill
<1>28. CASE StopDown(p)
  BY <1>0, <1>28 DEF StopDown
<1>29. CASE StopClean(p)
  BY <1>0, <1>29 DEF StopClean
<1>31. CASE Kill(p)
  BY <1>0, <1>31 DEF Kill
<1>32. CASE Drain(p)
  BY <1>0, <1>32 DEF Drain
<1> QED BY <1>1, <1>2, <1>3, <1>4, <1>5, <1>6, <1>7, <1>8, <1>9, <1>10, <1>11,
       <1>12, <1>13, <1>14, <1>15, <1>16, <1>17, <1>18, <1>19, <1>20, <1>21,
       <1>22, <1>23, <1>24, <1>25, <1>26, <1>27, <1>28, <1>29, <1>31, <1>32
   DEF ProcessAction

\* A process that is past the wait for the topic stays past it.
LEMMA LateStays ==
    ASSUME ControlTypeOK, ControlInv, NEW p \in Proc, ProcessAction(p),
           NEW q \in Proc, Late(q)
    PROVE  Late(q)'
<1>1. CASE Interrupt(p) /\ q = p
  BY <1>1, InterruptInterrupts DEF Late
<1>2. CASE ~Interrupt(p) /\ q = p
  <2>1. opts' = opts /\ cmd' = cmd
    BY <1>2, OptionsFixed
  <2>2. curr[p] \in Nat /\ curr'[p] \in Nat /\ curr'[p] >= curr[p]
    BY <1>2, CurrGrows, ControlStep DEF ControlTypeOK
  <2> QED BY <1>2, <2>1, <2>2 DEF Late, Interrupted
<1>3. CASE q # p
  BY <1>3, OthersStay DEF Late, Interrupted
<1> QED BY <1>1, <1>2, <1>3

\* Appending an entity keeps the order of those before it.
LEMMA AppendKeeps ==
    ASSUME DataTypeOK, TopicInv, UNCHANGED <<ledger, seen>>,
           NEW e \in Proc \cup {"topic", "resource"}, entities' = Append(entities, e)
    PROVE  /\ \A p \in Proc : seen'[p] = ledger' => Created("topic")'
           /\ \A d : Created(d)' => Created(d) \/ d = e
           /\ AccountsFollowTopic'
<1>1. /\ Len(entities) \in Nat /\ DOMAIN entities = 1..Len(entities)
      /\ DOMAIN entities' = 1..(Len(entities) + 1)
      /\ \A i \in 1..Len(entities) : entities'[i] = entities[i]
      /\ entities'[Len(entities) + 1] = e
  BY DEF DataTypeOK
<1>2. \A p \in Proc : seen'[p] = ledger' => Created("topic")'
  BY <1>1 DEF TopicInv, Created
<1>3. \A d : Created(d)' => Created(d) \/ d = e
  BY <1>1 DEF Created
<1>4. ASSUME NEW p \in Proc, seen'[p] = ledger',
             NEW i \in DOMAIN entities', entities'[i] = p
      PROVE  \E j \in 1..(i - 1) : entities'[j] = "topic"
  <2>1. CASE i \in 1..Len(entities)
    <3>1. PICK j \in 1..(i - 1) : entities[j] = "topic"
      BY <1>1, <1>4, <2>1 DEF TopicInv, AccountsFollowTopic
    <3> QED BY <1>1, <2>1, <3>1
  <2>2. CASE i = Len(entities) + 1
    <3>1. PICK j \in 1..Len(entities) : entities[j] = "topic"
      BY <1>1, <1>4 DEF TopicInv, Created
    <3> QED BY <1>1, <2>2, <3>1
  <2> QED BY <1>1, <2>1, <2>2
<1> QED BY <1>2, <1>3, <1>4 DEF AccountsFollowTopic

\* `docker compose down -v` starts a ledger in which nobody has seen a topic.
LEMMA DownKeeps ==
    ASSUME DataTypeOK, JobsTypeOK, TopicInv, ComposeDown, UNCHANGED <<jobs, seen>>
    PROVE  /\ \A p \in Proc : seen'[p] = ledger' => Created("topic")'
           /\ \A d : Created(d)' => Created(d)
           /\ AccountsFollowTopic'
<1>1. CASE ledger' = ledger + 1 /\ entities' = <<>>
  <2>1. \A p \in Proc : seen'[p] # ledger'
    BY <1>1 DEF JobsTypeOK, DataTypeOK
  <2> QED BY <1>1, <2>1 DEF Created, AccountsFollowTopic
<1>2. CASE UNCHANGED <<ledger, entities>>
  BY <1>2 DEF TopicInv, Created, AccountsFollowTopic
<1> QED BY <1>1, <1>2 DEF ComposeDown

\* The actions that neither create an entity nor replace the ledger.
LEMMA SameLedger ==
    ASSUME NEW p \in Proc, ProcessAction(p),
           ~BeginAccounts(p), ~CreateAccount(p), ~WaitForTopic(p),
           ~CreateResources(p), ~RecoveryDown(p), ~StopDown(p)
    PROVE  UNCHANGED <<jobs, seen, ledger, entities>>
BY DEF ProcessAction, data, Launch, InitCheck, InitPorts,
       PrepareWorkDirectory, ConfigureNodeProperties,
       ConfigureMirrorNodeProperties, CheckDockerImages, StartUp,
       RecoveryKill, RecoveryClean, StartUpAgain, WaitForMirror, WaitForNode,
       ImportFees, ImportExchangeRates, AccountFails, AccountsCreated,
       BeginResources, RevertNodeProperties, RevertMirrorNodeProperties,
       AttachState, StopKill, StopClean, Interrupt, Kill, Drain,
       WaitForFiringUp, ImportFile, ComposeUp

\* Every action of a process keeps TopicInv.
LEMMA TopicInvStep ==
    ASSUME TypeOK, ControlInv, TopicInv, NEW p \in Proc, ProcessAction(p)
    PROVE  TopicInv'
<1> USE DEF TypeOK
<1>0. \A q \in Proc : Late(q) => Late(q)'
  BY LateStays
<1>1. CASE UNCHANGED <<jobs, seen, ledger, entities>>
  BY <1>0, <1>1 DEF TopicInv, Created, AccountsFollowTopic
<1>2. CASE BeginAccounts(p)
  <2>1. /\ UNCHANGED <<seen, ledger, entities>>
        /\ \A q \in Proc : q # p => jobs'[q] = jobs[q]
    BY <1>2 DEF BeginAccounts, data, JobsTypeOK
  <2>2. Late(p)
    <3>1. Active(p) /\ pc[p] = "acc.begin"
      BY <1>2 DEF BeginAccounts, Active
    <3>2. StateOf(p) = "AccountCreation"
      BY <3>1, StateAt DEF PointsIn, StateNames
    <3>3. curr[p] \in 1..curr[p]
      BY DEF ControlTypeOK
    <3> QED BY <3>2, <3>3 DEF StateOf, Late
  <2> QED BY <1>0, <2>1, <2>2 DEF TopicInv, Created, AccountsFollowTopic
<1>3. CASE CreateAccount(p)
  <2>1. /\ UNCHANGED <<seen, ledger>> /\ entities' = Append(entities, p)
        /\ Late(p) /\ \A q \in Proc : q # p => jobs'[q] = jobs[q]
    BY <1>3 DEF CreateAccount, TopicInv, JobsTypeOK
  <2> QED BY <1>0, <2>1, AppendKeeps DEF TopicInv
<1>4. CASE CreateResources(p)
  <2>1. CASE entities' = Append(entities, "resource")
    BY <1>0, <1>4, <2>1, AppendKeeps, ProcAssumption DEF CreateResources, TopicInv
  <2>2. CASE entities' = entities
    BY <1>0, <1>4, <2>2 DEF CreateResources, TopicInv, Created, AccountsFollowTopic
  <2> QED BY <1>4, <2>1, <2>2 DEF CreateResources
<1>5. CASE RecoveryDown(p) \/ StopDown(p)
  BY <1>0, <1>5, DownKeeps DEF RecoveryDown, StopDown, TopicInv
<1>6. CASE WaitForTopic(p)
  <2>1. UNCHANGED <<jobs, ledger, entities>>
    BY <1>6 DEF WaitForTopic, data
  <2>2. ~Late(p)
    <3>1. Active(p) /\ pc[p] = "net.topic"
      BY <1>6 DEF WaitForTopic, Active
    <3>2. StateOf(p) = "NetworkPrep" /\ ~Interrupted(p)
      BY <3>1, StateAt DEF PointsIn, StateNames
    <3> QED BY <3>2, StateOfType, PrepBeforeAccounts DEF StateOf, Late
  <2>3. ~Created(p)
    BY <2>2 DEF TopicInv
  <2>4. CASE Created("topic") /\ seen' = [seen EXCEPT ![p] = ledger]
    <3>1. \A q \in Proc : q # p => seen'[q] = seen[q]
      BY <2>4 DEF JobsTypeOK
    <3>2. AccountsFollowTopic'
      BY <2>1, <2>3, <3>1 DEF TopicInv, AccountsFollowTopic, Created
    <3> QED BY <1>0, <2>1, <2>4, <3>2 DEF TopicInv, Created
  <2>5. CASE seen' = seen
    BY <1>0, <2>1, <2>5 DEF TopicInv, Created, AccountsFollowTopic
  <2> QED BY <1>6, <2>4, <2>5 DEF WaitForTopic, TopicLogged
<1> QED BY <1>1, <1>2, <1>3, <1>4, <1>5, <1>6, SameLedger

\* So does what Docker and the services do by themselves.
LEMMA TopicInvEnvironment ==
    ASSUME TypeOK, TopicInv, Environment
    PROVE  TopicInv'
<1>1. UNCHANGED control /\ UNCHANGED ledger
  BY EnvironmentStep DEF TypeOK, WorldTypeOK, Environment, BootNode, BootMirror,
     Boot, MonitorCreatesTopic, StreamRecords, data
<1>2. \A p \in Proc : (Late(p) <=> Late(p)')
  BY <1>1 DEF control, Late, Interrupted
<1>3. CASE UNCHANGED entities
  BY <1>1, <1>2, <1>3 DEF control, TopicInv, Created, AccountsFollowTopic
<1>4. CASE entities' = Append(entities, "topic")
  BY <1>1, <1>2, <1>4, AppendKeeps, ProcAssumption DEF control, TopicInv, TypeOK
<1> QED BY <1>3, <1>4 DEF Environment, BootNode, BootMirror, Boot,
       MonitorCreatesTopic, StreamRecords, data

\* TopicInv holds initially.
THEOREM InitTopicInv == Init => TopicInv
BY InitTypeOK DEF Init, TopicInv, Created, AccountsFollowTopic

\* In every reachable state who has accounts, or has launched some, is past the
\* wait for the topic, and who has seen the topic of this ledger has it before
\* its accounts.
THEOREM TopicInvCorrect == Spec => []TopicInv
<1>1. Inv /\ TopicInv /\ [Next]_vars => TopicInv'
  <2> SUFFICES ASSUME Inv, TopicInv, [Next]_vars PROVE TopicInv'
    OBVIOUS
  <2>1. CASE \E p \in Proc : Work(p) \/ Disturb(p)
    BY <2>1, ActionsOfProcess, TopicInvStep DEF Inv
  <2>2. CASE Environment
    BY <2>2, TopicInvEnvironment DEF Inv
  <2>3. CASE UNCHANGED vars
    BY <2>3 DEF vars, control, data, TopicInv, Created, AccountsFollowTopic, Late,
                Interrupted
  <2> QED BY <2>1, <2>2, <2>3 DEF Next, Done
<1> QED BY <1>1, InitTopicInv, InvCorrect, PTL DEF Spec

\* In every interleaving of invocations and restarts, no account that a process
\* creates in the ledger whose topic it waited for comes before that topic.
THEOREM AccountsFollowTopicCorrect == Spec => []AccountsFollowTopic
BY TopicInvCorrect, PTL DEF TopicInv
-----------------------------------------------------------------------------
(* What a stop leaves                                                      *)

\* Nothing runs that could write to the ledger.
Silent == containers \in {"none", "stopped"} /\ booted = {}

\* One invocation at a time.
Alone == \A p, q \in Proc : Active(p) /\ Active(q) => p = q

\* Between `kill` and the end of a stop nothing happens in Docker.
StopInv ==
    /\ \A p \in Proc : pc[p] \in {"stop.down", "stop.clean"} => Silent
    /\ \A p \in Proc : pc[p] = "stop.clean" => containers = "none" /\ entities = <<>>

\* In this step nobody calls `docker compose up` between the `kill` of a stop
\* and its end.
NoUpBesideStop ==
    (\E p \in Proc : pc[p] \in {"stop.down", "stop.clean"}) =>
        \A q \in Proc : ~StartUp(q) /\ ~StartUpAgain(q)

\* A process that does anything but begin has begun.
LEMMA OnlyActive ==
    ASSUME NEW p \in Proc, ProcessAction(p), ~Launch(p)
    PROVE  Active(p)
BY DEF ProcessAction, Active, Waiting, AwaitPoints, InitCheck, InitPorts,
       PrepareWorkDirectory, ConfigureNodeProperties, ConfigureMirrorNodeProperties,
       CheckDockerImages, StartUp, RecoveryKill, RecoveryDown, RecoveryClean,
       StartUpAgain, WaitForMirror, WaitForNode, WaitForFiringUp, ImportFees,
       ImportExchangeRates, ImportFile, WaitForTopic, BeginAccounts, CreateAccount,
       AccountFails, AccountsCreated, BeginResources, CreateResources,
       RevertNodeProperties, RevertMirrorNodeProperties, AttachState, StopKill,
       StopDown, StopClean, Interrupt, Kill, Drain

\* In StopState a process awaits nothing: it goes on or is killed.
LEMMA InStopState ==
    ASSUME NEW p \in Proc, ProcessAction(p), pc[p] \in PointsIn["Stop"]
    PROVE  StopKill(p) \/ StopDown(p) \/ StopClean(p) \/ Kill(p)
<1>1. pc[p] \in {"stop.kill", "stop.down", "stop.clean"}
  BY DEF PointsIn
<1> QED
  BY <1>1
  DEF ProcessAction, Launch, Waiting, AwaitPoints, InitCheck, InitPorts,
      PrepareWorkDirectory, ConfigureNodeProperties, ConfigureMirrorNodeProperties,
      CheckDockerImages, StartUp, RecoveryKill, RecoveryDown, RecoveryClean,
      StartUpAgain, WaitForMirror, WaitForNode, WaitForFiringUp, ImportFees,
      ImportExchangeRates, ImportFile, WaitForTopic, BeginAccounts, CreateAccount,
      AccountFails, AccountsCreated, BeginResources, CreateResources,
      RevertNodeProperties, RevertMirrorNodeProperties, AttachState, Interrupt, Drain

\* A state begins at its first point, never in the middle of a stop.
LEMMA BeginsFirst ==
    ASSUME ControlTypeOK, NEW p \in Proc, Finish(p) \/ Launch(p) \/ Interrupt(p)
    PROVE  pc'[p] \notin {"stop.down", "stop.clean"}
<1>1. \A s \in StateNames : Entry[s] \notin {"stop.down", "stop.clean"}
  BY DEF Entry, StateNames
<1>2. CASE Finish(p)
  <2>1. curr[p] < Len(Procedure[cmd[p]]) =>
            Procedure[cmd[p]][curr[p] + 1] \in StateNames
    BY StateOfType, ProcedureType
  <2> QED BY <1>1, <1>2, <2>1 DEF Finish, ExitAs, ControlTypeOK
<1>3. CASE Launch(p)
  <2>1. Procedure[cmd[p]][1] \in StateNames
    BY StateOfType, ProcedureType
  <2> QED BY <1>1, <1>3, <2>1 DEF Launch, Goto, ControlTypeOK
<1>4. CASE Interrupt(p)
  <2>1. Procedure["stop"][1] = "Stop" /\ "Stop" \in StateNames
    BY ProcedureStates DEF StateNames
  <2> QED BY <1>1, <1>4, <2>1 DEF Interrupt, ControlTypeOK
<1> QED BY <1>2, <1>3, <1>4

\* The inner points of a stop are reached in order.
LEMMA StopInOrder ==
    ASSUME ControlTypeOK, NEW p \in Proc, ProcessAction(p),
           pc'[p] \in {"stop.down", "stop.clean"}
    PROVE  \/ StopKill(p) /\ pc'[p] = "stop.down"
           \/ StopDown(p) /\ pc'[p] = "stop.clean"
<1>1. ~Finish(p) /\ ~Launch(p) /\ ~Interrupt(p)
  BY BeginsFirst
<1>2. pc'[p] # pc[p]
  <2> SUFFICES ASSUME pc'[p] = pc[p] PROVE FALSE
    OBVIOUS
  <2>1. pc[p] \in PointsIn["Stop"]
    BY DEF PointsIn
  <2> QED
    BY <1>1, <2>1, InStopState
    DEF StopKill, StopDown, StopClean, Kill, Goto, ExitAs, ControlTypeOK
<1>3. ~Kill(p) /\ ~Drain(p)
  BY DEF Kill, Drain, ExitAs, ControlTypeOK
<1>4. \A l : Goto(p, l) => pc'[p] = l
  BY DEF Goto, ControlTypeOK
<1>5. \A how : ~ExitAs(p, how)
  BY DEF ExitAs, ControlTypeOK
<1>6. ~InitState(p)
  BY <1>1, <1>4, <1>5 DEF InitState, InitCheck, InitPorts, PrepareWorkDirectory,
     ConfigureNodeProperties, ConfigureMirrorNodeProperties, Fail, Crash
<1>7. ~StartState(p)
  BY <1>1, <1>4, <1>5 DEF StartState, CheckDockerImages, StartUp, RecoveryKill, RecoveryDown,
     RecoveryClean, StartUpAgain, ComposeUp, WaitForMirror, WaitForNode, WaitForFiringUp, Fail
<1>8. ~NetworkPrepState(p)
  BY <1>1, <1>4, <1>5 DEF NetworkPrepState, ImportFees, ImportExchangeRates, ImportFile,
     WaitForTopic, Crash
<1>9. ~AccountCreationState(p) /\ ~ResourceCreationState(p)
  BY <1>1, <1>2, <1>4, <1>5 DEF AccountCreationState, BeginAccounts, CreateAccount,
     AccountFails, AccountsCreated, ResourceCreationState, BeginResources, CreateResources,
     Crash
<1>10. ~CleanUpState(p) /\ ~AttachState(p) /\ ~StopClean(p)
  BY <1>1, <1>4, <1>5 DEF CleanUpState, RevertNodeProperties, RevertMirrorNodeProperties,
     AttachState, StopClean
<1>11. StopKill(p) \/ StopDown(p)
  BY <1>1, <1>3, <1>6, <1>7, <1>8, <1>9, <1>10 DEF ProcessAction, InitState, StartState,
     NetworkPrepState, AccountCreationState, ResourceCreationState, CleanUpState
<1>12. StopKill(p) => pc'[p] = "stop.down"
  BY DEF StopKill, Goto, ControlTypeOK
<1>13. StopDown(p) => pc'[p] = "stop.clean"
  BY DEF StopDown, Goto, ControlTypeOK
<1> QED
  BY <1>11, <1>12, <1>13

\* Who makes a step is alone.
LEMMA OthersInactive ==
    ASSUME ~Overlap, ControlTypeOK, Alone, NEW p \in Proc, ProcessAction(p)
    PROVE  Alone' /\ \A q \in Proc : q # p => ~Active(q) /\ pc'[q] = pc[q]
<1>1. \A q \in Proc : q # p => pc'[q] = pc[q]
  BY OthersStay
<1>2. \A q \in Proc : q # p => ~Active(q)
  BY OnlyActive DEF Launch, Alone
<1> QED BY <1>1, <1>2 DEF Alone, Active

\* Alone is kept by every step, if nobody may start beside another.
LEMMA AloneCorrect == ASSUME ~Overlap PROVE Spec => []Alone
<1>1. Init => Alone
  BY DEF Init, Alone, Active
<1>2. TypeOK /\ Alone /\ [Next]_vars => Alone'
  <2> SUFFICES ASSUME TypeOK, Alone, [Next]_vars PROVE Alone'
    OBVIOUS
  <2>1. CASE \E p \in Proc : Work(p) \/ Disturb(p)
    BY <2>1, ActionsOfProcess, OthersInactive DEF TypeOK
  <2>2. CASE Environment
    BY <2>2, EnvironmentStep DEF TypeOK, WorldTypeOK, control, Alone, Active
  <2>3. CASE UNCHANGED vars
    BY <2>3 DEF vars, control, Alone, Active
  <2> QED BY <2>1, <2>2, <2>3 DEF Next, Done
<1> QED BY <1>1, <1>2, TypeCorrect, PTL DEF Spec

\* Where nothing runs, only an `up` makes something run or be created.
LEMMA StaysSilent ==
    ASSUME NEW p \in Proc, ProcessAction(p), Silent, ~StartUp(p), ~StartUpAgain(p)
    PROVE  /\ Silent'
           /\ containers = "none" => containers' = "none"
           /\ entities = <<>> => entities' = <<>>
<1>1. CASE StopKill(p) \/ RecoveryKill(p)
  BY <1>1 DEF StopKill, RecoveryKill, ComposeKill, Silent, docker, data
<1>2. CASE StopDown(p) \/ RecoveryDown(p)
  BY <1>2 DEF StopDown, RecoveryDown, ComposeDown, Silent, docker
<1>3. CASE CreateResources(p)
  BY <1>3 DEF CreateResources, Silent, docker
<1>4. ~CreateAccount(p)
  BY DEF CreateAccount, Silent
<1>5. CASE UNCHANGED <<docker, entities>>
  BY <1>5 DEF Silent, docker
<1>6. \/ StopKill(p) \/ RecoveryKill(p) \/ StopDown(p) \/ RecoveryDown(p) \/ CreateResources(p)
      \/ UNCHANGED <<docker, entities>>
  BY <1>4 DEF ProcessAction, data, Launch, InitCheck, InitPorts, PrepareWorkDirectory,
     ConfigureNodeProperties, ConfigureMirrorNodeProperties, CheckDockerImages,
     RecoveryClean, WaitForMirror, WaitForNode, WaitForFiringUp, ImportFees,
     ImportExchangeRates, ImportFile, WaitForTopic, BeginAccounts, AccountFails,
     AccountsCreated, BeginResources, RevertNodeProperties, RevertMirrorNodeProperties,
     AttachState, StopClean, Interrupt, Kill, Drain
<1> QED BY <1>1, <1>2, <1>3, <1>5, <1>6

\* With commands that succeed, a step of a process that is no such `up` keeps
\* StopInv, whatever the others are doing.
LEMMA StopInvStep ==
    ASSUME "down" \notin Faults, ControlTypeOK, StopInv, NEW p \in Proc, ProcessAction(p),
           NoUpBesideStop
    PROVE  StopInv'
<1>1. SUFFICES ASSUME NEW q \in Proc, pc'[q] \in {"stop.down", "stop.clean"}
               PROVE  Silent' /\ (pc'[q] = "stop.clean" => containers' = "none" /\ entities' = <<>>)
  BY DEF StopInv
<1>2. CASE q = p
  <2>1. CASE StopKill(p) /\ pc'[p] = "stop.down"
    BY <1>2, <2>1 DEF StopKill, ComposeKill, Silent
  <2>2. CASE StopDown(p) /\ pc'[p] = "stop.clean"
    BY <1>2, <2>2 DEF StopDown, ComposeDown, Silent
  <2> QED BY <1>1, <1>2, <2>1, <2>2, StopInOrder
<1>3. CASE q # p
  <2>1. pc'[q] = pc[q]
    BY <1>3, OthersStay
  <2>2. Silent /\ (pc[q] = "stop.clean" => containers = "none" /\ entities = <<>>)
    BY <1>1, <2>1 DEF StopInv
  <2>3. ~StartUp(p) /\ ~StartUpAgain(p)
    BY <1>1, <2>1 DEF NoUpBesideStop
  <2> QED BY <2>1, <2>2, <2>3, StaysSilent
<1> QED BY <1>2, <1>3

\* Without running containers Docker does nothing by itself.
LEMMA StopInvEnvironment ==
    ASSUME StopInv, Environment PROVE StopInv'
<1>1. UNCHANGED control
  BY DEF Environment, BootNode, BootMirror, Boot, MonitorCreatesTopic, StreamRecords
<1>2. ~Silent
  BY DEF Silent, Services, Environment, BootNode, BootMirror, Boot, MonitorCreatesTopic,
         StreamRecords
<1> QED BY <1>1, <1>2 DEF StopInv, control

\* Only the last step of StopState ends a stop with exit(0).
LEMMA StopEnds ==
    ASSUME Inv, NEW p \in Proc, ProcessAction(p), NEW q \in Proc,
           ~Ended(q), exit'[q] = "finished", cmd[q] = "stop"
    PROVE  p = q /\ StopClean(q)
<1> USE DEF Inv, TypeOK
<1>1. exit[q] = "none"
  BY DEF ControlTypeOK
<1>2. p = q
  BY <1>1, OthersStay
<1>3. ~Launch(q)
  BY <1>1 DEF Launch, Goto
<1>4. Active(q)
  BY <1>2, <1>3, OnlyActive
<1>5. pc[q] \in PointsIn["Stop"]
  BY <1>4, StateAt, StateOfType
<1> QED
  BY <1>1, <1>2, <1>5, InStopState DEF StopKill, StopDown, Kill, Goto, ExitAs, ControlTypeOK

LEMMA StopInvCorrect ==
    ASSUME "down" \notin Faults PROVE Spec /\ [][NoUpBesideStop]_vars => []StopInv
<1>1. Init => StopInv
  BY DEF Init, StopInv
<1>2. TypeOK /\ StopInv /\ [Next]_vars /\ [NoUpBesideStop]_vars => StopInv'
  <2> SUFFICES ASSUME TypeOK, StopInv, [Next]_vars, [NoUpBesideStop]_vars PROVE StopInv'
    OBVIOUS
  <2>1. CASE UNCHANGED vars
    BY <2>1 DEF vars, control, docker, data, StopInv, Silent
  <2>2. CASE (\E p \in Proc : Work(p) \/ Disturb(p)) /\ NoUpBesideStop
    BY <2>2, ActionsOfProcess, StopInvStep DEF TypeOK
  <2>3. CASE Environment
    BY <2>3, StopInvEnvironment
  <2> QED BY <2>1, <2>2, <2>3 DEF Next, Done
<1> QED BY <1>1, <1>2, TypeCorrect, PTL DEF Spec

\* If `docker compose down` succeeds, whatever other invocations do beside a
\* stop, by command or by SIGINT in the middle of any procedure, it ends with
\* exit(0) only when no container, no entity and no record file is left, unless
\* one of them calls `docker compose up` between the stop's `kill` and its end.
THEOREM OnlyUpSpoilsStop ==
    ASSUME "down" \notin Faults
    PROVE  Spec /\ [][NoUpBesideStop]_vars => StopLeavesNothing
<1>1. Inv /\ StopInv /\ [Next]_vars =>
        [\A p \in Proc :
            ~Ended(p) /\ exit'[p] = "finished" /\ cmd[p] = "stop" =>
                containers' = "none" /\ entities' = <<>> /\ logs' = {}]_vars
  <2> SUFFICES ASSUME Inv, StopInv, [Next]_vars, NEW q \in Proc,
                      ~Ended(q), exit'[q] = "finished", cmd[q] = "stop"
               PROVE  containers' = "none" /\ entities' = <<>> /\ logs' = {}
    OBVIOUS
  <2>1. exit' # exit
    BY DEF Inv, TypeOK, ControlTypeOK
  <2>2. PICK p \in Proc : ProcessAction(p)
    BY <2>1, ActionsOfProcess
    DEF Next, Done, vars, control, Environment, BootNode, BootMirror, Boot,
        MonitorCreatesTopic, StreamRecords
  <2>3. StopClean(q)
    BY <2>2, StopEnds
  <2> QED BY <2>3 DEF StopClean, StopInv, docker
<1> QED BY <1>1, InvCorrect, StopInvCorrect, PTL DEF Spec, StopLeavesNothing

\* Who is alone has nobody beside him that could call `up`.
LEMMA AloneNoUp == ASSUME Alone PROVE NoUpBesideStop
BY DEF Alone, Active, NoUpBesideStop, StartUp, StartUpAgain

\* When invocations follow one another and `docker compose down` succeeds, a
\* stop, by command or by SIGINT in the middle of any procedure, ends with
\* exit(0) only when no container, no entity and no record file is left.
THEOREM StopLeavesNothingCorrect ==
    ASSUME ~Overlap, "down" \notin Faults PROVE Spec => StopLeavesNothing
<1>1. Alone => [NoUpBesideStop]_vars
  BY AloneNoUp
<1> QED BY <1>1, AloneCorrect, OnlyUpSpoilsStop, PTL

-----------------------------------------------------------------------------
(* What a start or restart that succeeds leaves                            *)

\* How far a start or restart has got. CleanUpState is also the first state of a
\* restart.
FromResources == {"res.begin", "res.wait"}
FromAccounts == {"acc.begin", "acc.wait"} \cup FromResources
FromPrep == {"net.fees", "net.rates", "net.topic"} \cup FromAccounts
FromStart == {"start.images", "start.up", "start.mirror", "start.node", "start.again",
              "recover.kill", "recover.down", "recover.clean"} \cup FromPrep
CleanPoints == {"clean.node", "clean.mirror"}
Past(p, points) ==
    \/ pc[p] \in points \cup {"attach"}
    \/ pc[p] \in CleanPoints /\ curr[p] > 5

Ordinary(p) == ~Interrupted(p) /\ cmd[p] \in StartUpCommands

\* What it has found or made so far.
MadeSoFar(p) ==
    /\ pc[p] = "start.node" => "mirror" \in booted
    /\ Past(p, FromPrep) => booted = Services
    /\ Past(p, FromPrep \ {"net.fees"}) /\ "insert" \notin Faults => 111 \in fees
    /\ Past(p, FromPrep \ {"net.fees", "net.rates"}) /\ "insert" \notin Faults => 112 \in fees
    /\ Past(p, FromAccounts) => Created("topic")
    /\ Past(p, {}) /\ opts[p].resources /\ ~opts[p].async => Created("resource")

FilesSoFar(p) ==
    /\ Past(p, FromStart \cup {"init.mirror"}) => boot # "absent"
    /\ Past(p, FromStart) => mirror # "absent"
    /\ pc[p] = "clean.mirror" /\ curr[p] > 5 => boot = "original"
    /\ pc[p] = "attach" => boot = "original" /\ mirror = "original"

ServedInv == \A p \in Proc : Ordinary(p) => MadeSoFar(p) /\ FilesSoFar(p)

\* It starts, restarts or stops the network, as the handler of SIGINT also does:
\* it is no generate-accounts.
Governs(p) == Active(p) /\ cmd[p] # "accountCreation"

\* One governs at a time; any number of generate-accounts may run beside it.
Exclusive == \A p, q \in Proc : Governs(p) /\ Governs(q) => p = q

LEMMA AloneExclusive == ASSUME Alone PROVE Exclusive
BY DEF Alone, Exclusive, Governs

\* What generate-accounts does to the others: it adds entities.
LEMMA GeneratorStep ==
    ASSUME ControlTypeOK, ControlInv, NEW p \in Proc, ProcessAction(p), ~Governs(p)
    PROVE  /\ UNCHANGED <<docker, ledger, fees, logs, files>>
           /\ entities' = entities \/ entities' = Append(entities, p)
<1>1. CASE Launch(p)
  BY <1>1 DEF Launch, data
<1>2. CASE ~Launch(p)
  <2>1. Active(p) /\ cmd[p] = "accountCreation"
    BY <1>2, OnlyActive DEF Governs
  <2>2. StateOf(p) = "AccountCreation"
    BY <2>1, StateOfType, ProcedureStates, ProcedureLengths DEF StateOf
  <2>3. pc[p] \in {"acc.begin", "acc.wait"}
    BY <2>1, <2>2, StateAt DEF PointsIn
  <2> QED
    BY <1>2, <2>3 DEF data, ProcessAction, InitCheck, InitPorts,
       PrepareWorkDirectory, ConfigureNodeProperties, ConfigureMirrorNodeProperties,
       CheckDockerImages, StartUp, RecoveryKill, RecoveryDown, RecoveryClean, StartUpAgain,
       WaitForMirror, WaitForNode, WaitForFiringUp, ImportFees, ImportExchangeRates, ImportFile,
       WaitForTopic, BeginAccounts, CreateAccount, AccountFails, AccountsCreated,
       BeginResources, CreateResources, RevertNodeProperties, RevertMirrorNodeProperties,
       AttachState, StopKill, StopDown, StopClean, Interrupt, Kill, Drain
<1> QED BY <1>1, <1>2

\* Beside a start or restart nobody else governs.
LEMMA BesideOrdinary ==
    ASSUME ControlTypeOK, Exclusive, NEW p \in Proc, NEW q \in Proc, q # p, Active(q), Ordinary(q)
    PROVE  ~Governs(p)
BY DEF Exclusive, Governs, Ordinary, StartUpCommands

\* Where the states of a start or restart end.
LEMMA FinishOrdinary ==
    ASSUME ControlTypeOK, ControlInv, NEW p \in Proc, Active(p), Ordinary(p), Finish(p)
    PROVE  /\ StateOf(p) = "ResourceCreation" => pc'[p] = "clean.node" /\ curr'[p] > 5
           /\ StateOf(p) = "CleanUp" =>
                pc'[p] = (IF curr[p] > 5 THEN "attach" ELSE "stop.kill")
           /\ StateOf(p) = "Stop" => pc'[p] = "init.check"
           /\ StateOf(p) = "Attach" => pc'[p] = "done"
<1> DEFINE i == curr[p]
           c == cmd[p]
<1>1. c \in DOMAIN Procedure /\ i \in 1..Len(Procedure[c]) /\ Len(Procedure[c]) \in Nat
  BY StateOfType
<1>2. /\ i < Len(Procedure[c]) =>
            pc'[p] = Entry[Procedure[c][i + 1]] /\ curr'[p] = i + 1
      /\ i >= Len(Procedure[c]) => pc'[p] = "done"
  BY <1>1 DEF Finish, ExitAs, ControlTypeOK
<1>3. CASE c = "start"
  BY <1>1, <1>2, <1>3, ProcedureLengths, ProcedureStates DEF StateOf, Entry
<1>4. CASE c = "restart"
  BY <1>1, <1>2, <1>4, ProcedureLengths, ProcedureStates DEF StateOf, Entry
<1> QED BY <1>3, <1>4 DEF Ordinary, StartUpCommands

\* The steps of a start or restart, from point to point, that do not end it.
Path ==
    {<<"new", "init.check">>, <<"new", "clean.node">>,
     <<"init.check", "init.ports">>, <<"init.check", "fail.node">>,
     <<"init.ports", "init.copy">>, <<"init.copy", "init.node">>,
     <<"init.node", "init.mirror">>, <<"init.mirror", "start.images">>,
     <<"start.images", "start.up">>, <<"start.images", "stalled">>,
     <<"start.up", "start.mirror">>, <<"start.up", "recover.kill">>,
     <<"recover.kill", "recover.down">>, <<"recover.down", "recover.clean">>,
     <<"recover.clean", "start.again">>, <<"start.again", "start.mirror">>,
     <<"start.mirror", "start.node">>, <<"start.mirror", "fail.node">>,
     <<"start.node", "net.fees">>, <<"start.node", "fail.node">>,
     <<"net.fees", "net.rates">>, <<"net.rates", "net.topic">>,
     <<"net.topic", "acc.begin">>, <<"net.topic", "stalled">>,
     <<"acc.begin", "acc.wait">>, <<"acc.begin", "res.begin">>,
     <<"acc.wait", "res.begin">>, <<"res.begin", "res.wait">>,
     <<"res.begin", "clean.node">>, <<"res.wait", "clean.node">>,
     <<"clean.node", "clean.mirror">>, <<"clean.mirror", "attach">>,
     <<"clean.mirror", "stop.kill">>, <<"stop.kill", "stop.down">>,
     <<"stop.down", "stop.clean">>, <<"stop.clean", "init.check">>,
     <<"fail.node", "fail.mirror">>}

\* The first state of a start or restart.
LEMMA BeginsOrdinary ==
    ASSUME ControlTypeOK, NEW p \in Proc, Ordinary(p), Launch(p)
    PROVE  pc[p] = "new" /\ pc'[p] \in {"init.check", "clean.node"}
<1>1. Entry[Procedure[cmd[p]][1]] \in {"init.check", "clean.node"}
  BY ProcedureStates DEF Ordinary, StartUpCommands, Entry
<1> QED BY <1>1 DEF Launch, Goto, ControlTypeOK

\* The point where a process is tells in which state it is.
LEMMA WhichState ==
    ASSUME ControlTypeOK, ControlInv, NEW p \in Proc, Active(p)
    PROVE  /\ pc[p] = "init.mirror" => StateOf(p) = "Init"
           /\ pc[p] = "start.node" => StateOf(p) = "Start"
           /\ pc[p] = "net.topic" => StateOf(p) = "NetworkPrep"
           /\ pc[p] \in {"acc.begin", "acc.wait"} => StateOf(p) = "AccountCreation"
           /\ pc[p] \in {"res.begin", "res.wait"} => StateOf(p) = "ResourceCreation"
           /\ pc[p] \in {"clean.node", "clean.mirror"} => StateOf(p) = "CleanUp"
           /\ pc[p] = "attach" => StateOf(p) = "Attach"
           /\ pc[p] = "stop.clean" => StateOf(p) = "Stop"
<1>1. pc[p] \in PointsIn[StateOf(p)] /\ StateOf(p) \in StateNames
  BY StateAt
<1> QED BY <1>1 DEF PointsIn, StateNames

\* A step of a start or restart follows the path or ends it; only CleanUpState
\* has two ways on, and currStateNum tells which.
LEMMA OrdinaryStep ==
    ASSUME ControlTypeOK, ControlInv, NEW p \in Proc, ProcessAction(p), Ordinary(p),
           ~Interrupt(p)
    PROVE  /\ pc'[p] = "done" \/ CreateAccount(p) \/ <<pc[p], pc'[p]>> \in Path
           /\ pc'[p] = "attach" => pc[p] = "clean.mirror" /\ curr[p] > 5
           /\ pc[p] = pc'[p] => CreateAccount(p)
           /\ pc'[p] \in CleanPoints =>
                (curr'[p] > 5 <=>
                    pc[p] \in FromResources \/ (pc[p] = "clean.node" /\ curr[p] > 5))
<1> USE DEF Path, CleanPoints, FromResources, ControlTypeOK, Goto, ExitAs
<1>1. CASE Launch(p)
  <2>1. curr'[p] = curr[p] /\ curr[p] = 1 /\ pc'[p] \in {"init.check", "clean.node"}
    BY <1>1, BeginsOrdinary DEF Launch, ControlInv
  <2> QED BY <1>1, <2>1 DEF Launch
<1>2. CASE InitCheck(p)
  BY <1>2 DEF InitCheck, Fail, Crash
<1>3. CASE InitPorts(p)
  BY <1>3 DEF InitPorts
<1>4. CASE PrepareWorkDirectory(p)
  BY <1>4 DEF PrepareWorkDirectory
<1>5. CASE ConfigureNodeProperties(p)
  BY <1>5 DEF ConfigureNodeProperties, Crash
<1>6. CASE CheckDockerImages(p)
  BY <1>6 DEF CheckDockerImages
<1>7. CASE StartUp(p)
  BY <1>7 DEF StartUp, ComposeUp
<1>8. CASE RecoveryKill(p)
  BY <1>8 DEF RecoveryKill
<1>9. CASE RecoveryDown(p)
  BY <1>9 DEF RecoveryDown
<1>10. CASE RecoveryClean(p)
  BY <1>10 DEF RecoveryClean
<1>11. CASE StartUpAgain(p)
  BY <1>11 DEF StartUpAgain, ComposeUp
<1>12. CASE WaitForMirror(p)
  BY <1>12 DEF WaitForMirror, WaitForFiringUp, Fail
<1>13. CASE ImportFees(p)
  BY <1>13 DEF ImportFees, ImportFile, Crash
<1>14. CASE ImportExchangeRates(p)
  BY <1>14 DEF ImportExchangeRates, ImportFile, Crash
<1>15. CASE AccountFails(p)
  BY <1>15 DEF AccountFails, Crash, Waiting, AwaitPoints
<1>16. CASE RevertNodeProperties(p)
  BY <1>16 DEF RevertNodeProperties
<1>17. CASE StopKill(p)
  BY <1>17 DEF StopKill
<1>18. CASE StopDown(p)
  BY <1>18 DEF StopDown
<1>19. CASE Kill(p)
  BY <1>19 DEF Kill, Active
<1>20. CASE Drain(p)
  BY <1>20 DEF Drain
<1>21. CASE CreateAccount(p)
  BY <1>21 DEF CreateAccount, Waiting, AwaitPoints
<1>22. CASE ConfigureMirrorNodeProperties(p)
  <2>1. Active(p) /\ pc[p] = "init.mirror"
    BY <1>22 DEF ConfigureMirrorNodeProperties, Active
  <2>2. StateOf(p) = "Init" /\ cmd[p] \in StartUpCommands
    BY <2>1, WhichState DEF Ordinary
  <2> QED BY <1>22, <2>1, <2>2, FinishGoes, FinishOrdinary DEF ConfigureMirrorNodeProperties, Crash
<1>23. CASE WaitForNode(p)
  <2>1. Active(p) /\ pc[p] = "start.node"
    BY <1>23 DEF WaitForNode, Active, WaitForFiringUp
  <2>2. StateOf(p) = "Start" /\ cmd[p] \in StartUpCommands
    BY <2>1, WhichState DEF Ordinary
  <2> QED BY <1>23, <2>1, <2>2, FinishGoes, FinishOrdinary DEF WaitForNode, WaitForFiringUp, Fail
<1>24. CASE WaitForTopic(p)
  <2>1. Active(p) /\ pc[p] = "net.topic"
    BY <1>24 DEF WaitForTopic, Active
  <2>2. StateOf(p) = "NetworkPrep" /\ cmd[p] \in StartUpCommands
    BY <2>1, WhichState DEF Ordinary
  <2> QED BY <1>24, <2>1, <2>2, FinishGoes, FinishOrdinary DEF WaitForTopic
<1>25. CASE BeginAccounts(p)
  <2>1. Active(p) /\ pc[p] = "acc.begin"
    BY <1>25 DEF BeginAccounts, Active
  <2>2. StateOf(p) = "AccountCreation" /\ cmd[p] \in StartUpCommands
    BY <2>1, WhichState DEF Ordinary
  <2> QED BY <1>25, <2>1, <2>2, FinishGoes, FinishOrdinary DEF BeginAccounts
<1>26. CASE AccountsCreated(p)
  <2>1. Active(p) /\ pc[p] = "acc.wait"
    BY <1>26 DEF AccountsCreated, Active
  <2>2. StateOf(p) = "AccountCreation" /\ cmd[p] \in StartUpCommands
    BY <2>1, WhichState DEF Ordinary
  <2> QED BY <1>26, <2>1, <2>2, FinishGoes, FinishOrdinary DEF AccountsCreated
<1>27. CASE BeginResources(p)
  <2>1. Active(p) /\ pc[p] = "res.begin"
    BY <1>27 DEF BeginResources, Active
  <2>2. StateOf(p) = "ResourceCreation" /\ cmd[p] \in StartUpCommands
    BY <2>1, WhichState DEF Ordinary
  <2> QED BY <1>27, <2>1, <2>2, FinishGoes, FinishOrdinary DEF BeginResources
<1>28. CASE CreateResources(p)
  <2>1. Active(p) /\ pc[p] = "res.wait"
    BY <1>28 DEF CreateResources, Active
  <2>2. StateOf(p) = "ResourceCreation" /\ cmd[p] \in StartUpCommands
    BY <2>1, WhichState DEF Ordinary
  <2> QED BY <1>28, <2>1, <2>2, FinishGoes, FinishOrdinary DEF CreateResources, Crash
<1>29. CASE AttachState(p)
  <2>1. Active(p) /\ pc[p] = "attach"
    BY <1>29 DEF AttachState, Active
  <2>2. StateOf(p) = "Attach" /\ cmd[p] \in StartUpCommands
    BY <2>1, WhichState DEF Ordinary
  <2> QED BY <1>29, <2>1, <2>2, FinishGoes, FinishOrdinary DEF AttachState
<1>30. CASE StopClean(p)
  <2>1. Active(p) /\ pc[p] = "stop.clean"
    BY <1>30 DEF StopClean, Active
  <2>2. StateOf(p) = "Stop" /\ cmd[p] \in StartUpCommands
    BY <2>1, WhichState DEF Ordinary
  <2> QED BY <1>30, <2>1, <2>2, FinishGoes, FinishOrdinary DEF StopClean
<1>31. CASE RevertMirrorNodeProperties(p)
  <2>1. CASE pc[p] = "fail.mirror"
    BY <1>31, <2>1 DEF RevertMirrorNodeProperties
  <2>2. CASE pc[p] = "clean.mirror"
    <3>1. Active(p) /\ Finish(p)
      BY <1>31, <2>2 DEF RevertMirrorNodeProperties, Active
    <3>2. StateOf(p) = "CleanUp"
      BY <2>2, <3>1, WhichState
    <3> QED BY <2>2, <3>1, <3>2, FinishOrdinary
  <2> QED BY <1>31, <2>1, <2>2 DEF RevertMirrorNodeProperties
<1> QED
  BY <1>1, <1>2, <1>3, <1>4, <1>5, <1>6, <1>7, <1>8, <1>9, <1>10, <1>11, <1>12,
     <1>13, <1>14, <1>15, <1>16, <1>17, <1>18, <1>19, <1>20, <1>21, <1>22,
     <1>23, <1>24, <1>25, <1>26, <1>27, <1>28, <1>29, <1>30, <1>31
  DEF ProcessAction

\* Once both services answer a start or restart stops nothing and deletes
\* nothing.
LEMMA KeepsMade ==
    ASSUME DataTypeOK, NEW p \in Proc, ProcessAction(p),
           pc[p] \in {"start.mirror", "start.node", "attach"} \cup FromPrep \cup CleanPoints
    PROVE  /\ docker' = docker /\ ledger' = ledger /\ fees \subseteq fees'
           /\ \A e : Created(e) => Created(e)'
<1>1. docker' = docker /\ ledger' = ledger /\ fees \subseteq fees'
  BY DEF FromPrep, FromAccounts, FromResources, CleanPoints, data, ProcessAction, Launch,
     InitCheck, InitPorts, PrepareWorkDirectory, ConfigureNodeProperties,
     ConfigureMirrorNodeProperties, CheckDockerImages, StartUp, RecoveryKill,
     RecoveryDown, RecoveryClean, StartUpAgain, WaitForMirror, WaitForNode,
     WaitForFiringUp, ImportFees, ImportExchangeRates, ImportFile, WaitForTopic,
     BeginAccounts, CreateAccount, AccountFails, AccountsCreated, BeginResources,
     CreateResources, RevertNodeProperties, RevertMirrorNodeProperties, AttachState,
     StopKill, StopDown, StopClean, Interrupt, Kill, Drain
<1>2. \/ entities' = entities
      \/ \E e \in Proc \cup {"topic", "resource"} : entities' = Append(entities, e)
  <2>1. ~RecoveryDown(p) /\ ~StopDown(p)
    BY DEF FromPrep, FromAccounts, FromResources, CleanPoints, RecoveryDown, StopDown
  <2>2. BeginAccounts(p) \/ WaitForTopic(p) => entities' = entities
    BY DEF BeginAccounts, WaitForTopic, data
  <2> QED BY <2>1, <2>2, SameLedger DEF CreateAccount, CreateResources
<1>3. \A e \in Proc \cup {"topic", "resource"} : entities' = Append(entities, e) =>
        \A d : Created(d) => Created(d)'
  BY DEF DataTypeOK, Created
<1> QED BY <1>1, <1>2, <1>3 DEF Created

\* Who writes the config files.
LEMMA KeepsFiles ==
    ASSUME NEW p \in Proc, ProcessAction(p),
           pc[p] \notin {"init.copy", "init.node", "init.mirror", "clean.node",
                         "clean.mirror", "fail.node", "fail.mirror"}
    PROVE  UNCHANGED files
BY DEF files, data, ProcessAction, Launch,
   InitCheck, InitPorts, PrepareWorkDirectory, ConfigureNodeProperties,
   ConfigureMirrorNodeProperties, CheckDockerImages, StartUp, RecoveryKill,
   RecoveryDown, RecoveryClean, StartUpAgain, WaitForMirror, WaitForNode,
   WaitForFiringUp, ImportFees, ImportExchangeRates, ImportFile, WaitForTopic,
   BeginAccounts, CreateAccount, AccountFails, AccountsCreated, BeginResources,
   CreateResources, RevertNodeProperties, RevertMirrorNodeProperties, AttachState,
   StopKill, StopDown, StopClean, Interrupt, Kill, Drain

\* The action of a start or restart that goes on from a point.
LEMMA ActionAt ==
    ASSUME ControlTypeOK, NEW p \in Proc, ProcessAction(p), pc'[p] # "done", pc'[p] # pc[p],
           ~Interrupt(p)
    PROVE  /\ pc[p] = "init.copy" => PrepareWorkDirectory(p)
           /\ pc[p] = "init.node" => ConfigureNodeProperties(p)
           /\ pc[p] = "init.mirror" => ConfigureMirrorNodeProperties(p)
           /\ pc[p] = "start.mirror" => WaitForMirror(p)
           /\ pc[p] = "start.node" => WaitForNode(p)
           /\ pc[p] = "net.fees" => ImportFees(p)
           /\ pc[p] = "net.rates" => ImportExchangeRates(p)
           /\ pc[p] = "net.topic" => WaitForTopic(p)
           /\ pc[p] = "acc.begin" => BeginAccounts(p)
           /\ pc[p] = "acc.wait" => AccountsCreated(p)
           /\ pc[p] = "res.begin" => BeginResources(p)
           /\ pc[p] = "res.wait" => CreateResources(p)
           /\ pc[p] = "clean.node" => RevertNodeProperties(p)
           /\ pc[p] = "clean.mirror" => RevertMirrorNodeProperties(p)
<1>1. ~CreateAccount(p) /\ ~AccountFails(p) /\ ~Kill(p) /\ ~Drain(p)
  BY DEF CreateAccount, AccountFails, Crash, Kill, Drain, ExitAs, ControlTypeOK
<1> QED
  BY <1>1 DEF ProcessAction, Launch,
     InitCheck, InitPorts, PrepareWorkDirectory, ConfigureNodeProperties,
     ConfigureMirrorNodeProperties, CheckDockerImages, StartUp, RecoveryKill,
     RecoveryDown, RecoveryClean, StartUpAgain, WaitForMirror, WaitForNode,
     WaitForFiringUp, ImportFees, ImportExchangeRates, ImportFile, WaitForTopic,
     BeginAccounts, AccountsCreated, BeginResources,
     CreateResources, RevertNodeProperties, RevertMirrorNodeProperties, AttachState,
     StopKill, StopDown, StopClean

\* Who is a start or restart after a step was one before.
LEMMA StaysOrdinary ==
    ASSUME ControlTypeOK, ControlInv, NEW p \in Proc, ProcessAction(p), Ordinary(p)'
    PROVE  Ordinary(p) /\ ~Interrupt(p) /\ opts' = opts /\ cmd' = cmd
BY InterruptInterrupts, OptionsFixed DEF Ordinary, Interrupted

\* By which step a start or restart gets past a point.
LEMMA GetsPast ==
    ASSUME ControlTypeOK, ControlInv, NEW p \in Proc, ProcessAction(p), Ordinary(p),
           ~Interrupt(p), pc'[p] # "done"
    PROVE  /\ Past(p, FromPrep)' => Past(p, FromPrep) \/ pc[p] = "start.node"
           /\ Past(p, FromPrep \ {"net.fees"})' =>
                Past(p, FromPrep \ {"net.fees"}) \/ pc[p] = "net.fees"
           /\ Past(p, FromPrep \ {"net.fees", "net.rates"})' =>
                Past(p, FromPrep \ {"net.fees", "net.rates"}) \/ pc[p] = "net.rates"
           /\ Past(p, FromAccounts)' => Past(p, FromAccounts) \/ pc[p] = "net.topic"
           /\ Past(p, FromResources)' =>
                Past(p, FromResources) \/ pc[p] \in {"acc.begin", "acc.wait"}
           /\ Past(p, {})' => Past(p, {}) \/ pc[p] \in FromResources
           /\ Past(p, FromStart)' => Past(p, FromStart) \/ pc[p] = "init.mirror"
           /\ Past(p, FromStart \cup {"init.mirror"})' =>
                Past(p, FromStart \cup {"init.mirror"}) \/ pc[p] = "init.node"
<1>1. CASE CreateAccount(p)
  BY <1>1 DEF CreateAccount, Past
<1>2. CASE <<pc[p], pc'[p]>> \in Path
  <2>1. /\ pc'[p] = "attach" => pc[p] = "clean.mirror" /\ curr[p] > 5
        /\ pc'[p] \in CleanPoints =>
            (curr'[p] > 5 <=> pc[p] \in FromResources \/ (pc[p] = "clean.node" /\ curr[p] > 5))
    BY OrdinaryStep
  <2> QED
    BY <1>2, <2>1 DEF Path, Past, FromStart, FromPrep, FromAccounts, FromResources, CleanPoints
<1> QED BY <1>1, <1>2, OrdinaryStep

\* What a start or restart has made stays while it goes on.
LEMMA MadeStep ==
    ASSUME TypeOK, ControlInv, NEW p \in Proc, ProcessAction(p),
           Ordinary(p), ~Interrupt(p), opts' = opts, MadeSoFar(p)
    PROVE  MadeSoFar(p)'
<1> USE DEF TypeOK
<1>1. CASE pc'[p] = "done"
  BY <1>1 DEF MadeSoFar, Past, FromPrep, FromAccounts, FromResources, CleanPoints
<1>2. CASE pc'[p] # "done"
  <2> DEFINE Kept == /\ docker' = docker /\ fees \subseteq fees'
                     /\ \A e : Created(e) => Created(e)'
  <2>1. pc[p] \in {"start.mirror", "start.node", "attach"} \cup FromPrep \cup CleanPoints
            => Kept
    BY KeepsMade
  <2>2. \A S \in SUBSET FromPrep : Past(p, S) => Kept
    BY <2>1 DEF Past
  <2>3. pc[p] = pc'[p] \/ ~CreateAccount(p)
    BY DEF CreateAccount
  <2>4. ASSUME pc'[p] = "start.node" PROVE "mirror" \in booted'
    <3>1. CASE CreateAccount(p)
      BY <2>4, <3>1 DEF CreateAccount, MadeSoFar, docker
    <3>2. CASE ~CreateAccount(p)
      <4>1. pc[p] = "start.mirror" /\ pc'[p] # pc[p]
        BY <2>4, <3>2, OrdinaryStep DEF Path
      <4>2. WaitForMirror(p)
        BY <1>2, <4>1, ActionAt
      <4>3. "mirror" \in booted
        BY <2>4, <4>2 DEF WaitForMirror, WaitForFiringUp, Fail, Goto, ControlTypeOK
      <4> QED BY <4>1, <4>3, <2>1 DEF docker
    <3> QED BY <3>1, <3>2
  <2>5. ASSUME Past(p, FromPrep)' PROVE booted' = Services
    <3>1. CASE Past(p, FromPrep)
      BY <3>1, <2>2 DEF MadeSoFar, docker
    <3>2. CASE ~Past(p, FromPrep)
      <4>1. pc[p] = "start.node" /\ pc'[p] # pc[p]
        BY <1>2, <2>5, <3>2, GetsPast DEF Past, FromPrep, FromAccounts, FromResources, CleanPoints
      <4>2. WaitForNode(p)
        BY <1>2, <4>1, ActionAt
      <4>3. pc'[p] # "fail.node"
        BY <2>5 DEF Past, FromPrep, FromAccounts, FromResources, CleanPoints
      <4>4. "node" \in booted
        BY <4>2, <4>3 DEF WaitForNode, WaitForFiringUp, Fail, Goto, ControlTypeOK
      <4>5. booted = Services
        BY <4>1, <4>4 DEF MadeSoFar, Services, DockerTypeOK
      <4> QED BY <4>1, <4>5, <2>1 DEF docker
    <3> QED BY <3>1, <3>2
  <2>6. ASSUME Past(p, FromPrep \ {"net.fees"})', "insert" \notin Faults PROVE 111 \in fees'
    <3>1. CASE Past(p, FromPrep \ {"net.fees"})
      BY <2>6, <3>1, <2>2 DEF MadeSoFar
    <3>2. CASE ~Past(p, FromPrep \ {"net.fees"})
      <4>1. pc[p] = "net.fees" /\ pc'[p] # pc[p]
        BY <1>2, <2>6, <3>2, GetsPast DEF Past, FromPrep, FromAccounts, FromResources, CleanPoints
      <4>2. ImportFees(p)
        BY <1>2, <4>1, ActionAt
      <4> QED BY <1>2, <2>6, <4>2 DEF ImportFees, ImportFile, Crash, ExitAs, ControlTypeOK
    <3> QED BY <3>1, <3>2
  <2>7. ASSUME Past(p, FromPrep \ {"net.fees", "net.rates"})', "insert" \notin Faults
        PROVE  112 \in fees'
    <3>1. CASE Past(p, FromPrep \ {"net.fees", "net.rates"})
      BY <2>7, <3>1, <2>2 DEF MadeSoFar
    <3>2. CASE ~Past(p, FromPrep \ {"net.fees", "net.rates"})
      <4>1. pc[p] = "net.rates" /\ pc'[p] # pc[p]
        BY <1>2, <2>7, <3>2, GetsPast DEF Past, FromPrep, FromAccounts, FromResources, CleanPoints
      <4>2. ImportExchangeRates(p)
        BY <1>2, <4>1, ActionAt
      <4> QED BY <1>2, <2>7, <4>2 DEF ImportExchangeRates, ImportFile, Crash, ExitAs, ControlTypeOK
    <3> QED BY <3>1, <3>2
  <2>8. ASSUME Past(p, FromAccounts)' PROVE Created("topic")'
    <3>1. CASE Past(p, FromAccounts)
      BY <3>1, <2>2 DEF MadeSoFar, FromPrep
    <3>2. CASE ~Past(p, FromAccounts)
      <4>1. pc[p] = "net.topic" /\ pc'[p] # pc[p]
        BY <1>2, <2>8, <3>2, GetsPast DEF Past, FromAccounts, FromResources, CleanPoints
      <4>2. WaitForTopic(p)
        BY <1>2, <4>1, ActionAt
      <4>3. pc'[p] # "stalled"
        BY <2>8 DEF Past, FromAccounts, FromResources, CleanPoints
      <4>4. Created("topic")
        BY <4>2, <4>3 DEF WaitForTopic, TopicLogged, Goto, ControlTypeOK
      <4> QED BY <4>1, <4>4, <2>1 DEF FromPrep
    <3> QED BY <3>1, <3>2
  <2>9. ASSUME Past(p, {})', opts[p].resources, ~opts[p].async PROVE Created("resource")'
    <3>1. CASE Past(p, {})
      BY <2>9, <3>1, <2>2 DEF MadeSoFar
    <3>2. CASE ~Past(p, {})
      <4>1. pc[p] \in FromResources /\ pc'[p] # pc[p]
        BY <1>2, <2>9, <3>2, GetsPast DEF Past, FromResources, CleanPoints
      <4>2. pc'[p] # "res.wait"
        BY <2>9 DEF Past, CleanPoints
      <4>3. CreateResources(p)
        BY <1>2, <2>9, <4>1, <4>2, ActionAt DEF FromResources, BeginResources, Goto, ControlTypeOK
      <4>4. entities' = Append(entities, "resource")
        BY <1>2, <4>3 DEF CreateResources, Crash, ExitAs, ControlTypeOK
      <4> QED BY <4>4 DEF DataTypeOK, Created
    <3> QED BY <3>1, <3>2
  <2> QED BY <2>4, <2>5, <2>6, <2>7, <2>8, <2>9 DEF MadeSoFar
<1> QED BY <1>1, <1>2

\* Its config files are there, and reverted at last.
LEMMA FilesStep ==
    ASSUME TypeOK, ControlInv, NEW p \in Proc, ProcessAction(p),
           Ordinary(p), ~Interrupt(p), FilesSoFar(p)
    PROVE  FilesSoFar(p)'
<1> USE DEF TypeOK
<1>0. opts[p].mode \notin {"absent", "original"}
  BY ModesAssumption, OptionsAssumption DEF ControlTypeOK
<1>1. CASE pc'[p] = "done"
  BY <1>1 DEF FilesSoFar, Past, FromStart, FromPrep, FromAccounts, FromResources, CleanPoints
<1>2. CASE pc'[p] = pc[p]
  BY <1>2, OrdinaryStep DEF CreateAccount, FilesSoFar, Past, files
<1>3. CASE pc'[p] # "done" /\ pc'[p] # pc[p]
  <2>1. <<pc[p], pc'[p]>> \in Path
    BY <1>3, OrdinaryStep DEF CreateAccount
  <2>2. ASSUME Past(p, FromStart \cup {"init.mirror"})' PROVE boot' # "absent"
    <3>1. CASE pc[p] = "init.node"
      BY <1>0, <1>3, <3>1, ActionAt DEF ConfigureNodeProperties, Crash, ExitAs, ControlTypeOK
    <3>2. CASE pc[p] # "init.node"
      <4>1. Past(p, FromStart \cup {"init.mirror"})
        BY <1>3, <2>2, <3>2, GetsPast
      <4>2. boot # "absent"
        BY <4>1 DEF FilesSoFar
      <4>3. CASE pc[p] = "init.mirror"
        BY <1>3, <4>2, <4>3, ActionAt DEF ConfigureMirrorNodeProperties
      <4>4. CASE pc[p] = "clean.node" \/ pc[p] = "clean.mirror"
        BY <1>3, <4>2, <4>4, ActionAt
        DEF RevertNodeProperties, RevertMirrorNodeProperties, Reverted
      <4>5. CASE pc[p] \notin {"init.mirror", "clean.node", "clean.mirror"}
        BY <4>1, <4>2, <4>5, KeepsFiles
        DEF files, Past, FromStart, FromPrep, FromAccounts, FromResources, CleanPoints
      <4> QED BY <4>3, <4>4, <4>5
    <3> QED BY <3>1, <3>2
  <2>3. ASSUME Past(p, FromStart)' PROVE mirror' # "absent"
    <3>1. CASE pc[p] = "init.mirror"
      BY <1>0, <1>3, <3>1, ActionAt
      DEF ConfigureMirrorNodeProperties, Crash, ExitAs, ControlTypeOK
    <3>2. CASE pc[p] # "init.mirror"
      <4>1. Past(p, FromStart)
        BY <1>3, <2>3, <3>2, GetsPast
      <4>2. mirror # "absent"
        BY <4>1 DEF FilesSoFar
      <4>3. CASE pc[p] = "clean.node" \/ pc[p] = "clean.mirror"
        BY <1>3, <4>2, <4>3, ActionAt
        DEF RevertNodeProperties, RevertMirrorNodeProperties, Reverted
      <4>4. CASE pc[p] \notin {"clean.node", "clean.mirror"}
        BY <4>1, <4>2, <4>4, KeepsFiles
        DEF files, Past, FromStart, FromPrep, FromAccounts, FromResources, CleanPoints
      <4> QED BY <4>3, <4>4
    <3> QED BY <3>1, <3>2
  <2>4. ASSUME pc'[p] = "clean.mirror", curr'[p] > 5 PROVE boot' = "original"
    <3>1. pc[p] = "clean.node"
      BY <2>1, <2>4 DEF Path
    <3>2. curr[p] > 5
      BY <2>4, <3>1, OrdinaryStep DEF CleanPoints, FromResources
    <3>3. boot # "absent"
      BY <3>1, <3>2 DEF FilesSoFar, Past, CleanPoints
    <3> QED BY <1>3, <3>1, <3>3, ActionAt DEF RevertNodeProperties, Reverted
  <2>5. ASSUME pc'[p] = "attach" PROVE boot' = "original" /\ mirror' = "original"
    <3>1. pc[p] = "clean.mirror" /\ curr[p] > 5
      BY <2>5, OrdinaryStep
    <3>2. boot = "original" /\ mirror # "absent"
      BY <3>1 DEF FilesSoFar, Past, CleanPoints
    <3> QED BY <1>3, <3>1, <3>2, ActionAt DEF RevertMirrorNodeProperties, Reverted
  <2> QED BY <2>2, <2>3, <2>4, <2>5 DEF FilesSoFar
<1> QED BY <1>1, <1>2, <1>3

\* Docker and the services take nothing away.
LEMMA ServedEnvironment ==
    ASSUME TypeOK, ServedInv, Environment PROVE ServedInv'
<1>1. UNCHANGED control
  BY EnvironmentStep DEF TypeOK, WorldTypeOK
<1>2. /\ booted \subseteq booted' /\ booted' \subseteq Services /\ fees' = fees /\ files' = files
      /\ booted = Services => booted' = Services
  BY DEF Environment, BootNode, BootMirror, Boot, MonitorCreatesTopic, StreamRecords,
         docker, data, files, TypeOK, DockerTypeOK, Services
<1>3. \A e : Created(e) => Created(e)'
  <2>1. entities' = entities \/ entities' = Append(entities, "topic")
    BY DEF Environment, BootNode, BootMirror, Boot, MonitorCreatesTopic, StreamRecords, data
  <2>2. entities' = Append(entities, "topic") => \A e : Created(e) => Created(e)'
    BY DEF TypeOK, DataTypeOK, Created
  <2> QED BY <2>1, <2>2 DEF Created
<1>4. \A p \in Proc : MadeSoFar(p) => MadeSoFar(p)'
  BY <1>1, <1>2, <1>3 DEF control, MadeSoFar, Past
<1>5. \A p \in Proc : FilesSoFar(p) => FilesSoFar(p)'
  BY <1>1, <1>2 DEF control, files, FilesSoFar, Past
<1> QED BY <1>1, <1>4, <1>5 DEF ServedInv, Ordinary, Interrupted, control

\* Nothing is claimed of one that has not begun or has ended.
LEMMA NothingYet ==
    ASSUME NEW p \in Proc, ~Active(p) PROVE MadeSoFar(p) /\ FilesSoFar(p)
BY DEF MadeSoFar, FilesSoFar, Past, Active, FromStart, FromPrep, FromAccounts,
       FromResources, CleanPoints

\* Who ended or has not begun, or creates accounts, does not undo it.
LEMMA ServedOthers ==
    ASSUME TypeOK, ControlInv, NEW p \in Proc, ProcessAction(p), ~Governs(p),
           NEW q \in Proc, q # p, MadeSoFar(q), FilesSoFar(q)
    PROVE  MadeSoFar(q)' /\ FilesSoFar(q)'
<1>1. /\ UNCHANGED <<docker, fees, files>>
      /\ entities' = entities \/ entities' = Append(entities, p)
  BY GeneratorStep DEF TypeOK
<1>2. pc'[q] = pc[q] /\ curr'[q] = curr[q] /\ opts'[q] = opts[q]
  BY OthersStay DEF TypeOK
<1>3. \A e : Created(e) => Created(e)'
  <2>1. entities' = Append(entities, p) => \A e : Created(e) => Created(e)'
    BY DEF TypeOK, DataTypeOK, Created
  <2> QED BY <1>1, <2>1 DEF Created
<1> QED BY <1>1, <1>2, <1>3 DEF MadeSoFar, FilesSoFar, Past, docker, files

LEMMA ServedStep ==
    ASSUME TypeOK, ControlInv, Exclusive, ServedInv, NEW p \in Proc, ProcessAction(p)
    PROVE  ServedInv'
<1>1. SUFFICES ASSUME NEW q \in Proc, Ordinary(q)' PROVE MadeSoFar(q)' /\ FilesSoFar(q)'
  BY DEF ServedInv
<1>2. CASE q # p
  <2>1. pc'[q] = pc[q] /\ cmd'[q] = cmd[q] /\ opts'[q] = opts[q]
    BY <1>2, OthersStay DEF TypeOK
  <2>2. CASE ~Active(q)
    BY <2>1, <2>2 DEF MadeSoFar, FilesSoFar, Past, Active, FromStart, FromPrep, FromAccounts,
                      FromResources, CleanPoints
  <2>3. CASE Active(q)
    <3>1. Ordinary(q) /\ MadeSoFar(q) /\ FilesSoFar(q)
      BY <1>1, <2>1 DEF Ordinary, Interrupted, ServedInv
    <3> QED BY <1>2, <2>3, <3>1, BesideOrdinary, ServedOthers DEF TypeOK
  <2> QED BY <2>2, <2>3
<1>3. CASE q = p
  <2>1. Ordinary(p) /\ ~Interrupt(p) /\ opts' = opts
    BY <1>1, <1>3, StaysOrdinary DEF TypeOK
  <2> QED BY <1>3, <2>1, MadeStep, FilesStep DEF ServedInv
<1> QED BY <1>2, <1>3

-----------------------------------------------------------------------------
(* How many accounts a start or restart has created                        *)

AccountsSoFar(p) ==
    /\ pc[p] # "done" /\ ~Past(p, {"acc.wait"} \cup FromResources) =>
        jobs[p] = 0 /\ AccountsOf(p) = {}
    /\ Past(p, {"acc.wait"} \cup FromResources) /\ ~opts[p].async =>
        jobs[p] + Cardinality(AccountsOf(p)) = NAccounts
    /\ Past(p, FromResources) /\ ~opts[p].async => jobs[p] = 0

CountInv == \A p \in Proc : Ordinary(p) => AccountsSoFar(p)

\* What a new entity adds.
LEMMA AccountsAppended ==
    ASSUME DataTypeOK, NEW q \in Proc, NEW e, entities' = Append(entities, e)
    PROVE  /\ e # q => AccountsOf(q)' = AccountsOf(q)
           /\ e = q => Cardinality(AccountsOf(q)') = Cardinality(AccountsOf(q)) + 1
<1>1. /\ Len(entities) \in Nat /\ DOMAIN entities = 1..Len(entities)
      /\ DOMAIN entities' = 1..(Len(entities) + 1)
      /\ \A i \in 1..Len(entities) : entities'[i] = entities[i]
      /\ entities'[Len(entities) + 1] = e
  BY DEF DataTypeOK
<1>2. e # q => AccountsOf(q)' = AccountsOf(q)
  BY <1>1 DEF AccountsOf
<1>3. ASSUME e = q PROVE Cardinality(AccountsOf(q)') = Cardinality(AccountsOf(q)) + 1
  <2>1. /\ AccountsOf(q)' = AccountsOf(q) \cup {Len(entities) + 1}
        /\ Len(entities) + 1 \notin AccountsOf(q)
    BY <1>1, <1>3 DEF AccountsOf
  <2>2. IsFiniteSet(1..Len(entities)) /\ AccountsOf(q) \subseteq 1..Len(entities)
    BY <1>1, FS_Interval DEF AccountsOf
  <2>3. IsFiniteSet(AccountsOf(q))
    BY <2>2, FS_Subset
  <2> QED BY <2>1, <2>3, FS_AddElement
<1> QED BY <1>2, <1>3

LEMMA NoAccounts ==
    ASSUME entities' = <<>>, NEW q \in Proc PROVE AccountsOf(q)' = {}
BY DEF AccountsOf

\* Whose accounts a step changes.
LEMMA AccountsOfOthers ==
    ASSUME TypeOK, NEW p \in Proc, ProcessAction(p), NEW q \in Proc,
           ~(CreateAccount(p) /\ q = p)
    PROVE  /\ AccountsOf(q)' = {} \/ AccountsOf(q)' = AccountsOf(q)
           /\ ~RecoveryDown(p) /\ ~StopDown(p) => AccountsOf(q)' = AccountsOf(q)
           /\ ~(BeginAccounts(p) /\ q = p) => jobs'[q] = jobs[q]
<1>1. CASE CreateAccount(p)
  BY <1>1, AccountsAppended DEF TypeOK, CreateAccount, JobsTypeOK
<1>2. CASE CreateResources(p)
  BY <1>2, AccountsAppended, ProcAssumption DEF TypeOK, CreateResources, AccountsOf
<1>3. CASE RecoveryDown(p) \/ StopDown(p)
  BY <1>3, NoAccounts DEF RecoveryDown, StopDown, ComposeDown, AccountsOf
<1>4. CASE BeginAccounts(p) \/ WaitForTopic(p)
  BY <1>4 DEF TypeOK, JobsTypeOK, BeginAccounts, WaitForTopic, data, AccountsOf
<1>5. CASE UNCHANGED <<jobs, seen, ledger, entities>>
  BY <1>5 DEF AccountsOf
<1> QED BY <1>1, <1>2, <1>3, <1>4, <1>5, SameLedger

\* Accounts of its own are all that a start or restart counts.
LEMMA CountStep ==
    ASSUME TypeOK, ControlInv, NEW p \in Proc, ProcessAction(p),
           Ordinary(p), ~Interrupt(p), opts' = opts, AccountsSoFar(p)
    PROVE  AccountsSoFar(p)'
<1> DEFINE Counted == {"acc.wait"} \cup FromResources
<1> USE DEF TypeOK
<1>1. CASE pc'[p] = "done"
  BY <1>1 DEF AccountsSoFar, Past, FromResources, CleanPoints
<1>2. CASE CreateAccount(p)
  <2>1. /\ \A S : Past(p, S)' <=> Past(p, S)
        /\ pc'[p] = pc[p] /\ jobs[p] > 0 /\ jobs'[p] = jobs[p] - 1
    BY <1>2 DEF CreateAccount, Past, JobsTypeOK
  <2>2. Cardinality(AccountsOf(p)') = Cardinality(AccountsOf(p)) + 1
    BY <1>2, AccountsAppended DEF CreateAccount
  <2>3. IsFiniteSet(AccountsOf(p)) /\ Cardinality(AccountsOf(p)) \in Nat
    <3>1. IsFiniteSet(1..Len(entities)) /\ AccountsOf(p) \subseteq 1..Len(entities)
      BY FS_Interval DEF AccountsOf, DataTypeOK
    <3> QED BY <3>1, FS_Subset, FS_CardinalityType
  <2>4. jobs[p] \in Nat /\ pc[p] # "done"
    BY <1>2, NAccountsAssumption DEF JobsTypeOK, CreateAccount, Waiting, AwaitPoints
  <2>5. Past(p, Counted)
    BY <2>1, <2>4 DEF AccountsSoFar
  <2> QED BY <1>2, <2>1, <2>2, <2>3, <2>4, <2>5 DEF AccountsSoFar, CreateAccount
<1>3. CASE pc'[p] # "done" /\ ~CreateAccount(p)
  <2>1. <<pc[p], pc'[p]>> \in Path /\ pc[p] # pc'[p]
    BY <1>3, OrdinaryStep
  <2>2. CASE pc[p] = "acc.begin"
    <3>1. BeginAccounts(p) /\ pc'[p] \in {"acc.wait", "res.begin"}
      BY <1>3, <2>1, <2>2, ActionAt DEF Path
    <3>2. jobs[p] = 0 /\ AccountsOf(p) = {}
      BY <2>2 DEF AccountsSoFar, Past, FromResources, CleanPoints
    <3>3. AccountsOf(p)' = {} /\ jobs'[p] = NAccounts
      BY <3>1, <3>2 DEF BeginAccounts, data, AccountsOf, JobsTypeOK
    <3>4. ~opts[p].async => pc'[p] = "acc.wait"
      BY <3>1 DEF BeginAccounts, Goto, ControlTypeOK
    <3>5. Cardinality(AccountsOf(p)') = 0
      BY <3>3, FS_EmptySet
    <3> QED
      BY <3>1, <3>3, <3>4, <3>5, NAccountsAssumption DEF AccountsSoFar, Past, FromResources, CleanPoints
  <2>3. CASE pc[p] # "acc.begin"
    <3>1. /\ AccountsOf(p)' = {} \/ AccountsOf(p)' = AccountsOf(p)
          /\ ~RecoveryDown(p) /\ ~StopDown(p) => AccountsOf(p)' = AccountsOf(p)
          /\ jobs'[p] = jobs[p]
      BY <1>3, <2>3, AccountsOfOthers DEF BeginAccounts
    <3>2. /\ pc'[p] = "attach" => pc[p] = "clean.mirror" /\ curr[p] > 5
          /\ pc'[p] \in CleanPoints =>
                (curr'[p] > 5 <=>
                    pc[p] \in FromResources \/ (pc[p] = "clean.node" /\ curr[p] > 5))
      BY <1>3, OrdinaryStep
    <3>3. Past(p, Counted)' => Past(p, Counted) /\ pc[p] \notin {"recover.down", "stop.down"}
      BY <2>1, <2>3, <3>2 DEF Path, Past, FromResources, CleanPoints
    <3>4. Past(p, Counted) => Past(p, Counted)'
      <4>1. pc[p] = "clean.mirror" /\ curr[p] > 5 => pc'[p] = "attach"
        <5> SUFFICES ASSUME pc[p] = "clean.mirror", curr[p] > 5 PROVE pc'[p] = "attach"
          OBVIOUS
        <5>1. Active(p) /\ Finish(p)
          BY <1>3, <2>1, ActionAt DEF RevertMirrorNodeProperties, Active
        <5> QED BY <5>1, WhichState, FinishOrdinary
      <4>2. pc[p] = "attach" => FALSE
        BY <2>1 DEF Path
      <4> QED BY <2>1, <3>2, <4>1, <4>2 DEF Path, Past, FromResources, CleanPoints
    <3>5. Past(p, FromResources)' => Past(p, FromResources) \/ pc[p] = "acc.wait"
      BY <1>3, <2>3, GetsPast
    <3>6. pc[p] = "acc.wait" => jobs[p] = 0
      BY <1>3, <2>1, ActionAt DEF AccountsCreated
    <3>7. (~RecoveryDown(p) /\ ~StopDown(p)) \/ pc[p] \in {"recover.down", "stop.down"}
      BY DEF RecoveryDown, StopDown
    <3>8. pc[p] # "done"
      BY <2>1 DEF Path
    <3> QED BY <3>1, <3>3, <3>4, <3>5, <3>6, <3>7, <3>8 DEF AccountsSoFar
  <2> QED BY <2>2, <2>3
<1> QED BY <1>1, <1>2, <1>3

\* Whoever else creates accounts, they are not its own.
LEMMA CountInvStep ==
    ASSUME TypeOK, ControlInv, Exclusive, CountInv, NEW p \in Proc, ProcessAction(p)
    PROVE  CountInv'
<1>1. SUFFICES ASSUME NEW q \in Proc, Ordinary(q)' PROVE AccountsSoFar(q)'
  BY DEF CountInv
<1>2. CASE q # p
  <2>1. /\ pc'[q] = pc[q] /\ cmd'[q] = cmd[q] /\ opts'[q] = opts[q] /\ curr'[q] = curr[q]
    BY <1>2, OthersStay DEF TypeOK
  <2>2. /\ AccountsOf(q)' = {} \/ AccountsOf(q)' = AccountsOf(q)
        /\ jobs'[q] = jobs[q]
    BY <1>2, AccountsOfOthers
  <2>3. AccountsSoFar(q)
    BY <1>1, <2>1 DEF CountInv, Ordinary, Interrupted
  <2>4. CASE ~Active(q)
    BY <2>1, <2>2, <2>3, <2>4 DEF AccountsSoFar, Past, Active, FromResources, CleanPoints
  <2>5. CASE Active(q)
    <3>1. ~Governs(p)
      BY <1>1, <1>2, <2>1, <2>5, BesideOrdinary DEF Ordinary, Interrupted, TypeOK
    <3>2. entities' = entities \/ entities' = Append(entities, p)
      BY <3>1, GeneratorStep DEF TypeOK
    <3>3. AccountsOf(q)' = AccountsOf(q)
      BY <1>2, <3>2, AccountsAppended DEF AccountsOf, TypeOK
    <3> QED BY <2>1, <2>2, <2>3, <3>3 DEF AccountsSoFar, Past
  <2> QED BY <2>4, <2>5
<1>3. CASE q = p
  <2>1. Ordinary(p) /\ ~Interrupt(p) /\ opts' = opts
    BY <1>1, <1>3, StaysOrdinary DEF TypeOK
  <2> QED BY <1>3, <2>1, CountStep DEF CountInv
<1> QED BY <1>2, <1>3

LEMMA CountEnvironment ==
    ASSUME TypeOK, CountInv, Environment PROVE CountInv'
<1>1. UNCHANGED control
  BY EnvironmentStep DEF TypeOK, WorldTypeOK
<1>2. entities' = entities \/ entities' = Append(entities, "topic")
  BY DEF Environment, BootNode, BootMirror, Boot, MonitorCreatesTopic, StreamRecords, data
<1>3. \A p \in Proc : AccountsOf(p)' = AccountsOf(p)
  <2>1. CASE entities' = entities
    BY <2>1 DEF AccountsOf
  <2>2. CASE entities' = Append(entities, "topic")
    BY <2>2, AccountsAppended, ProcAssumption DEF TypeOK
  <2> QED BY <1>2, <2>1, <2>2
<1> QED BY <1>1, <1>3 DEF CountInv, AccountsSoFar, Past, Ordinary, Interrupted, control

-----------------------------------------------------------------------------

\* Only at the end of its last state does a process end with exit(0).
LEMMA FinishesWith ==
    ASSUME ControlTypeOK, NEW p \in Proc, ProcessAction(p), exit[p] # "finished",
           exit'[p] = "finished"
    PROVE  Finish(p)
<1> SUFFICES ASSUME ~Finish(p) PROVE FALSE
  OBVIOUS
<1>1. \A l : ~Goto(p, l)
  BY DEF Goto
<1>2. \A how : ExitAs(p, how) => how = "finished"
  BY DEF ExitAs, ControlTypeOK
<1>3. ~ExitAs(p, "failed") /\ ~ExitAs(p, "crashed") /\ ~ExitAs(p, "portInUse")
      /\ ~ExitAs(p, "mountError") /\ ~ExitAs(p, "killed") /\ ~ExitAs(p, "drained")
  BY <1>2
<1>4. ~CreateAccount(p) /\ ~Interrupt(p) /\ ~Launch(p) /\ ~Kill(p) /\ ~Drain(p)
  BY <1>1, <1>3 DEF CreateAccount, Interrupt, Launch, Kill, Drain
<1>5. ~InitState(p)
  BY <1>1, <1>3 DEF InitState, InitCheck, InitPorts, PrepareWorkDirectory,
     ConfigureNodeProperties, ConfigureMirrorNodeProperties, Fail, Crash
<1>6. ~StartState(p)
  BY <1>1, <1>3 DEF StartState, CheckDockerImages, StartUp, RecoveryKill, RecoveryDown,
     RecoveryClean, StartUpAgain, ComposeUp, WaitForMirror, WaitForNode, WaitForFiringUp, Fail
<1>7. ~NetworkPrepState(p)
  BY <1>1, <1>3 DEF NetworkPrepState, ImportFees, ImportExchangeRates, ImportFile,
     WaitForTopic, Crash
<1>8. ~BeginAccounts(p) /\ ~AccountFails(p) /\ ~AccountsCreated(p) /\ ~ResourceCreationState(p)
  BY <1>1, <1>3 DEF BeginAccounts, AccountFails, AccountsCreated, ResourceCreationState,
     BeginResources, CreateResources, Crash
<1>9. ~CleanUpState(p) /\ ~AttachState(p) /\ ~StopState(p)
  BY <1>1, <1>3 DEF CleanUpState, RevertNodeProperties, RevertMirrorNodeProperties,
     AttachState, StopState, StopKill, StopDown, StopClean
<1> QED
  BY <1>4, <1>5, <1>6, <1>7, <1>8, <1>9 DEF ProcessAction, InitState, StartState,
     NetworkPrepState, ResourceCreationState, CleanUpState, StopState

LEMMA SuccessAttaches ==
    ASSUME Inv, NEW p \in Proc, ProcessAction(p), NEW q \in Proc, Succeeds(q),
           opts[q].command \in StartUpCommands
    PROVE  p = q /\ Ordinary(q) /\ AttachState(q)
<1> USE DEF Inv, TypeOK
<1>1. exit[q] = "none" /\ exit'[q] = "finished"
  BY DEF ControlTypeOK, Succeeds
<1>2. p = q
  BY <1>1, OthersStay
<1>3. Finish(q)
  BY <1>1, <1>2, FinishesWith
<1>4. ~Launch(q) /\ ~Interrupt(q)
  BY <1>1 DEF Launch, Goto, Interrupt
<1>5. Active(q) /\ cmd'[q] = cmd[q]
  BY <1>2, <1>4, OnlyActive, OptionsFixed
<1>6. Ordinary(q)
  BY <1>5 DEF Succeeds, Ordinary, Interrupted
<1>7. pc'[q] = "done"
  BY <1>1, <1>3 DEF Finish, ExitAs, ControlTypeOK
<1>8. StateOf(q) = "Attach"
  BY <1>3, <1>5, <1>6, <1>7, FinishGoes, FinishOrdinary, StateOfType DEF StateNames, Ordinary
<1>9. pc[q] = "attach"
  BY <1>5, <1>8, StateAt DEF PointsIn
<1>10. ~Kill(q) /\ ~CreateAccount(q) /\ ~AccountFails(q)
  BY <1>1, <1>9 DEF Kill, ExitAs, CreateAccount, AccountFails, Waiting, AwaitPoints, ControlTypeOK
<1> QED
  BY <1>2, <1>4, <1>6, <1>9, <1>10 DEF ProcessAction,
     InitCheck, InitPorts, PrepareWorkDirectory, ConfigureNodeProperties,
     ConfigureMirrorNodeProperties, CheckDockerImages, StartUp, RecoveryKill,
     RecoveryDown, RecoveryClean, StartUpAgain, WaitForMirror, WaitForNode,
     WaitForFiringUp, ImportFees, ImportExchangeRates, ImportFile, WaitForTopic,
     BeginAccounts, AccountsCreated, BeginResources,
     CreateResources, RevertNodeProperties, RevertMirrorNodeProperties,
     StopKill, StopDown, StopClean, Drain

LEMMA ServedInvCorrect ==
    Spec /\ []Exclusive => [](ServedInv /\ CountInv)
<1>1. Init => ServedInv /\ CountInv
  <2> SUFFICES ASSUME Init PROVE ServedInv /\ CountInv
    OBVIOUS
  <2>1. \A p \in Proc : ~Active(p) /\ jobs[p] = 0 /\ AccountsOf(p) = {} /\ pc[p] = "new"
    BY DEF Init, Active, AccountsOf
  <2> QED
    BY <2>1, NothingYet
    DEF ServedInv, CountInv, AccountsSoFar, Past, FromResources, CleanPoints
<1>2. Inv /\ Exclusive /\ ServedInv /\ CountInv /\ [Next]_vars => (ServedInv /\ CountInv)'
  <2> SUFFICES ASSUME Inv, Exclusive, ServedInv, CountInv, [Next]_vars
               PROVE  ServedInv' /\ CountInv'
    OBVIOUS
  <2>1. CASE \E p \in Proc : Work(p) \/ Disturb(p)
    BY <2>1, ActionsOfProcess, ServedStep, CountInvStep DEF Inv
  <2>2. CASE Environment
    BY <2>2, ServedEnvironment, CountEnvironment DEF Inv
  <2>3. CASE UNCHANGED vars
    <3>1. \A p \in Proc : /\ MadeSoFar(p)' = MadeSoFar(p)
                          /\ FilesSoFar(p)' = FilesSoFar(p)
                          /\ AccountsSoFar(p)' = AccountsSoFar(p)
                          /\ Ordinary(p)' = Ordinary(p)
      BY <2>3 DEF vars, control, docker, data, files, MadeSoFar, FilesSoFar, AccountsSoFar, Past,
                  Created, AccountsOf, Ordinary, Interrupted
    <3> QED BY <3>1 DEF ServedInv, CountInv
  <2> QED BY <2>1, <2>2, <2>3 DEF Next, Done
<1> QED BY <1>1, <1>2, InvCorrect, PTL DEF Spec

LEMMA BothFees ==
    ASSUME DataTypeOK, 111 \in fees, 112 \in fees PROVE fees = {111, 112}
<1>1. fees \subseteq {111, 112}
  BY DEF DataTypeOK
<1> QED BY <1>1

\* If the inserts into the mirror node's database succeed and no other invocation
\* starts, restarts or stops the network meanwhile, whatever generate-accounts
\* run beside it, a start or restart that ends with exit(0) leaves a network that
\* serves: the services listen, the fees are imported, the topic, its own
\* accounts and the resources exist and the config files are the originals.
THEOREM ServedBesideGenerators ==
    ASSUME "insert" \notin Faults PROVE Spec /\ []Exclusive => ServedOnSuccess
<1>1. Inv /\ ServedInv /\ CountInv /\ [Next]_vars =>
        [\A p \in Proc :
            opts[p].command \in StartUpCommands /\ Succeeds(p) => Served(p)']_vars
  <2> SUFFICES ASSUME Inv, ServedInv, CountInv, [Next]_vars, NEW q \in Proc,
                      opts[q].command \in StartUpCommands, Succeeds(q)
               PROVE  Served(q)'
    OBVIOUS
  <2>1. exit' # exit
    BY DEF Inv, TypeOK, ControlTypeOK, Succeeds
  <2>2. PICK p \in Proc : ProcessAction(p)
    BY <2>1, ActionsOfProcess
    DEF Next, Done, vars, control, Environment, BootNode, BootMirror, Boot,
        MonitorCreatesTopic, StreamRecords
  <2>3. Ordinary(q) /\ AttachState(q)
    BY <2>2, SuccessAttaches
  <2>4. pc[q] = "attach" /\ MadeSoFar(q) /\ FilesSoFar(q) /\ AccountsSoFar(q)
    BY <2>3 DEF AttachState, ServedInv, CountInv
  <2>5. \A S : Past(q, S)
    BY <2>4 DEF Past
  <2>6. Served(q)
    <3>1. /\ booted = Services /\ 111 \in fees /\ 112 \in fees
          /\ Created("topic") /\ {boot, mirror} = {"original"}
      BY <2>4, <2>5 DEF MadeSoFar, FilesSoFar
    <3>2. fees = {111, 112}
      BY <3>1, BothFees DEF Inv, TypeOK
    <3>3. ASSUME ~opts[q].async
          PROVE  /\ Cardinality(AccountsOf(q)) = NAccounts
                 /\ opts[q].resources => Created("resource")
      <4>1. /\ jobs[q] = 0 /\ jobs[q] + Cardinality(AccountsOf(q)) = NAccounts
            /\ opts[q].resources => Created("resource")
        BY <2>4, <2>5, <3>3 DEF MadeSoFar, AccountsSoFar
      <4>2. IsFiniteSet(1..Len(entities)) /\ AccountsOf(q) \subseteq 1..Len(entities)
        BY FS_Interval DEF AccountsOf, Inv, TypeOK, DataTypeOK
      <4>3. Cardinality(AccountsOf(q)) \in Nat
        BY <4>2, FS_Subset, FS_CardinalityType
      <4> QED BY <4>1, <4>3
    <3> QED BY <3>1, <3>2, <3>3 DEF Served
  <2>7. UNCHANGED <<docker, data, files>> /\ opts' = opts
    BY <2>2, <2>3, OptionsFixed DEF AttachState
  <2> QED
    BY <2>6, <2>7 DEF docker, data, files, Served, Created, AccountsOf
<1> QED BY <1>1, InvCorrect, ServedInvCorrect, PTL DEF Spec, ServedOnSuccess

\* When invocations follow one another and the inserts into the mirror node's
\* database succeed, a start or restart that ends with exit(0) leaves a network
\* that serves, whatever the invocations before it have left.
THEOREM ServedOnSuccessCorrect ==
    ASSUME ~Overlap, "insert" \notin Faults PROVE Spec => ServedOnSuccess
BY AloneCorrect, AloneExclusive, ServedBesideGenerators, PTL

-----------------------------------------------------------------------------
(* What a restart finds and makes of it                                    *)

Erased == {"stop.clean", "init.check", "init.ports", "init.copy", "init.node", "init.mirror",
           "start.images", "start.up"}
Restored == {"stop.kill", "stop.down", "stop.clean", "init.check", "init.ports", "init.copy",
             "init.node", "init.mirror"}
StartPoints == {"start.images", "start.up", "start.mirror", "start.node", "start.again",
                "recover.kill", "recover.down", "recover.clean"}
BeforeAccounts == StartPoints \cup {"net.fees", "net.rates", "net.topic", "acc.begin"}
Counted == {"acc.wait"} \cup FromResources

\* It finds nothing in Docker, and a mirror node configuration without a mode;
\* what starts reads its own, and its accounts follow the topic at once.
DockerSoFar(p) ==
    /\ pc[p] \in Erased => Silent /\ entities = <<>>
    /\ pc[p] \in StartPoints \/ Past(p, FromPrep) =>
        \A s \in booted : running[s] = opts[p].mode

ModesSoFar(p) ==
    /\ pc[p] \in Restored => mirror \in Originals
    /\ pc[p] \in {"init.mirror"} \cup StartPoints => boot = opts[p].mode
    /\ pc[p] \in StartPoints => mirror = opts[p].mode

LedgerSoFar(p) ==
    /\ pc[p] \in BeforeAccounts => entities \in {<<>>, <<"topic">>}
    /\ Past(p, Counted) /\ ~opts[p].async =>
        AccountsOf(p) = 2..(NAccounts + 1 - jobs[p])
    /\ pc[p] = "acc.wait" => Len(entities) = NAccounts + 1 - jobs[p]

Restarts(p) == Ordinary(p) /\ cmd[p] = "restart"

RestartInv == \A p \in Proc :
    Restarts(p) => DockerSoFar(p) /\ ModesSoFar(p) /\ LedgerSoFar(p)

LEMMA RestartActionAt ==
    ASSUME ControlTypeOK, NEW p \in Proc, ProcessAction(p), pc'[p] # "done", pc'[p] # pc[p],
           ~Interrupt(p)
    PROVE  /\ pc[p] = "stop.kill" => StopKill(p)
           /\ pc[p] = "stop.down" => StopDown(p)
           /\ pc[p] = "stop.clean" => StopClean(p)
           /\ pc[p] = "init.check" => InitCheck(p)
           /\ pc[p] = "init.ports" => InitPorts(p)
           /\ pc[p] = "start.images" => CheckDockerImages(p)
           /\ pc[p] = "start.up" => StartUp(p)
           /\ pc[p] = "recover.kill" => RecoveryKill(p)
           /\ pc[p] = "recover.down" => RecoveryDown(p)
           /\ pc[p] = "recover.clean" => RecoveryClean(p)
           /\ pc[p] = "start.again" => StartUpAgain(p)
<1>1. ~CreateAccount(p) /\ ~AccountFails(p) /\ ~Kill(p) /\ ~Drain(p)
  BY DEF CreateAccount, AccountFails, Crash, Kill, Drain, ExitAs, ControlTypeOK
<1> QED
  BY <1>1 DEF ProcessAction, Launch,
     InitCheck, InitPorts, PrepareWorkDirectory, ConfigureNodeProperties,
     ConfigureMirrorNodeProperties, CheckDockerImages, StartUp, RecoveryKill,
     RecoveryDown, RecoveryClean, StartUpAgain, WaitForMirror, WaitForNode,
     WaitForFiringUp, ImportFees, ImportExchangeRates, ImportFile, WaitForTopic,
     BeginAccounts, AccountsCreated, BeginResources,
     CreateResources, RevertNodeProperties, RevertMirrorNodeProperties, AttachState,
     StopKill, StopDown, StopClean

\* A restart begins with CleanUpState and StopState.
LEMMA RestartBegins ==
    ASSUME ControlTypeOK, NEW p \in Proc, Restarts(p), Launch(p) PROVE pc'[p] = "clean.node"
<1>1. Entry[Procedure[cmd[p]][1]] = "clean.node"
  BY ProcedureStates DEF Restarts, Entry
<1> QED BY <1>1 DEF Launch, Goto, ControlTypeOK

\* A step on the path of a restart.
RestartStep(p) ==
    /\ ProcessAction(p) /\ Restarts(p) /\ ~Interrupt(p) /\ opts' = opts
    /\ pc'[p] # "done" /\ pc'[p] # pc[p] /\ <<pc[p], pc'[p]>> \in Path
    /\ pc[p] = "new" => pc'[p] = "clean.node"

LEMMA ModesStep ==
    ASSUME TypeOK, ControlInv, NEW p \in Proc, RestartStep(p), ModesSoFar(p)
    PROVE  ModesSoFar(p)'
<1> USE DEF TypeOK
<1>0. opts[p].mode \notin {"absent", "original"}
  BY ModesAssumption, OptionsAssumption DEF ControlTypeOK
<1>1. /\ ProcessAction(p) /\ Restarts(p) /\ ~Interrupt(p) /\ opts' = opts
      /\ pc'[p] # "done" /\ pc'[p] # pc[p] /\ <<pc[p], pc'[p]>> \in Path
      /\ pc[p] = "new" => pc'[p] = "clean.node"
  BY DEF RestartStep
<1>2. ASSUME pc'[p] \in Restored PROVE mirror' \in Originals
  <2>1. CASE pc[p] = "clean.mirror"
    BY <1>1, <2>1, ActionAt DEF RevertMirrorNodeProperties, Reverted, Originals
  <2>2. CASE pc[p] # "clean.mirror"
    <3>1. pc[p] \in Restored
      BY <1>1, <1>2, <2>2 DEF Path, Restored
    <3>2. mirror \in Originals
      BY <3>1 DEF ModesSoFar
    <3>3. CASE pc[p] \in {"init.copy", "init.node"}
      BY <1>1, <3>2, <3>3, ActionAt DEF PrepareWorkDirectory, ConfigureNodeProperties, Originals
    <3>4. CASE pc[p] \notin {"init.copy", "init.node"}
      <4>1. pc[p] # "init.mirror"
        BY <1>1, <1>2 DEF Path, Restored
      <4> QED BY <1>1, <3>1, <3>2, <3>4, <4>1, KeepsFiles DEF Restored, files
    <3> QED BY <3>3, <3>4
  <2> QED BY <2>1, <2>2
<1>3. ASSUME pc'[p] \in {"init.mirror"} \cup StartPoints PROVE boot' = opts[p].mode
  <2>1. CASE pc[p] = "init.node"
    BY <1>1, <2>1, ActionAt DEF ConfigureNodeProperties, Crash, ExitAs, ControlTypeOK
  <2>2. CASE pc[p] # "init.node"
    <3>1. pc[p] \in {"init.mirror"} \cup StartPoints
      BY <1>1, <1>3, <2>2 DEF Path, StartPoints
    <3>2. boot = opts[p].mode
      BY <3>1 DEF ModesSoFar
    <3>3. CASE pc[p] = "init.mirror"
      BY <1>1, <3>2, <3>3, ActionAt DEF ConfigureMirrorNodeProperties
    <3>4. CASE pc[p] # "init.mirror"
      BY <1>1, <3>1, <3>2, <3>4, KeepsFiles DEF StartPoints, files
    <3> QED BY <3>3, <3>4
  <2> QED BY <2>1, <2>2
<1>4. ASSUME pc'[p] \in StartPoints PROVE mirror' = opts[p].mode
  <2>1. CASE pc[p] = "init.mirror"
    <3>1. mirror \in Originals
      BY <2>1 DEF ModesSoFar, Restored
    <3> QED
      BY <1>0, <1>1, <2>1, <3>1, ActionAt
      DEF ConfigureMirrorNodeProperties, Crash, ExitAs, ControlTypeOK, Originals
  <2>2. CASE pc[p] # "init.mirror"
    <3>1. pc[p] \in StartPoints
      BY <1>1, <1>4, <2>2 DEF Path, StartPoints
    <3> QED BY <1>1, <3>1, KeepsFiles DEF ModesSoFar, StartPoints, files
  <2> QED BY <2>1, <2>2
<1> QED BY <1>1, <1>2, <1>3, <1>4 DEF ModesSoFar

\* Between two points of Erased nothing happens to Docker or the ledger.
LEMMA ErasedKeeps ==
    ASSUME ControlTypeOK, NEW p \in Proc, RestartStep(p), pc[p] \in Erased \ {"start.up"}
    PROVE  UNCHANGED <<docker, entities>>
<1>1. /\ ProcessAction(p) /\ ~Interrupt(p) /\ pc'[p] # "done" /\ pc'[p] # pc[p]
  BY DEF RestartStep
<1>2. \/ StopClean(p) \/ InitCheck(p) \/ InitPorts(p) \/ PrepareWorkDirectory(p)
      \/ ConfigureNodeProperties(p) \/ ConfigureMirrorNodeProperties(p) \/ CheckDockerImages(p)
  BY <1>1, ActionAt, RestartActionAt DEF Erased
<1> QED
  BY <1>2 DEF StopClean, InitCheck, InitPorts, PrepareWorkDirectory, ConfigureNodeProperties,
              ConfigureMirrorNodeProperties, CheckDockerImages, data

LEMMA DockerStep ==
    ASSUME "down" \notin Faults, TypeOK, ControlInv, NEW p \in Proc, RestartStep(p),
           DockerSoFar(p)
    PROVE  DockerSoFar(p)'
<1> USE DEF TypeOK
<1>1. /\ ProcessAction(p) /\ Ordinary(p) /\ ~Interrupt(p) /\ opts' = opts
      /\ pc'[p] # "done" /\ pc'[p] # pc[p] /\ <<pc[p], pc'[p]>> \in Path
      /\ pc[p] = "new" => pc'[p] = "clean.node"
  BY DEF RestartStep, Restarts
<1>2. ASSUME pc'[p] \in Erased PROVE Silent' /\ entities' = <<>>
  <2>1. CASE pc[p] = "stop.down"
    BY <1>1, <2>1, RestartActionAt DEF StopDown, ComposeDown, Silent
  <2>2. CASE pc[p] # "stop.down"
    <3>1. pc[p] \in Erased \ {"start.up"}
      BY <1>1, <1>2, <2>2 DEF Path, Erased
    <3>2. Silent /\ entities = <<>>
      BY <3>1 DEF DockerSoFar
    <3> QED BY <3>1, <3>2, ErasedKeeps DEF Silent, docker
  <2> QED BY <2>1, <2>2
<1>3. ASSUME (pc[p] \in StartPoints \/ Past(p, FromPrep))'
      PROVE  \A s \in booted' : running'[s] = opts[p].mode
  <2>1. CASE pc[p] = "init.mirror"
    <3>1. Silent
      BY <2>1 DEF DockerSoFar, Erased
    <3> QED BY <2>1, <3>1, ErasedKeeps DEF Erased, Silent, docker
  <2>2. CASE pc[p] # "init.mirror"
    <3>1. pc'[p] \in StartPoints => pc[p] \in StartPoints
      BY <1>1, <2>2 DEF Path, StartPoints
    <3>2. Past(p, FromPrep)' => Past(p, FromPrep) \/ pc[p] \in StartPoints
      BY <1>1, GetsPast DEF StartPoints
    <3>3. pc[p] \in StartPoints \/ Past(p, FromPrep)
      BY <1>3, <3>1, <3>2
    <3>4. \A s \in booted : running[s] = opts[p].mode
      BY <3>3 DEF DockerSoFar
    <3>5. CASE pc[p] \in {"start.mirror", "start.node"} \/ Past(p, FromPrep)
      <4>1. docker' = docker
        BY <1>1, <3>5, KeepsMade DEF Past
      <4> QED BY <3>4, <4>1 DEF docker
    <3>6. CASE pc[p] \in {"start.images", "recover.clean"}
      BY <1>1, <3>4, <3>6, RestartActionAt DEF CheckDockerImages, RecoveryClean, docker
    <3>7. CASE pc[p] \in {"start.up", "start.again"}
      BY <1>1, <3>4, <3>7, RestartActionAt DEF StartUp, StartUpAgain, ComposeUp
    <3>8. CASE pc[p] = "recover.kill"
      BY <1>1, <3>8, RestartActionAt DEF RecoveryKill, ComposeKill
    <3>9. CASE pc[p] = "recover.down"
      BY <1>1, <3>9, RestartActionAt DEF RecoveryDown, ComposeDown
    <3> QED BY <3>3, <3>5, <3>6, <3>7, <3>8, <3>9 DEF StartPoints
  <2> QED BY <2>1, <2>2
<1> QED BY <1>1, <1>2, <1>3 DEF DockerSoFar

\* The accounts are launched when the topic is all there is.
LEMMA LedgerBegins ==
    ASSUME TypeOK, NEW p \in Proc, BeginAccounts(p), LedgerSoFar(p), MadeSoFar(p)
    PROVE  AccountsOf(p)' = {} /\ Len(entities') = 1 /\ jobs'[p] = NAccounts
<1>1. entities \in {<<>>, <<"topic">>} /\ Created("topic")
  BY DEF BeginAccounts, LedgerSoFar, BeforeAccounts, MadeSoFar, Past, FromAccounts
<1>2. entities' = entities /\ jobs'[p] = NAccounts
  BY DEF BeginAccounts, data, TypeOK, JobsTypeOK
<1>3. entities = <<"topic">>
  BY <1>1 DEF Created
<1> QED BY <1>2, <1>3, ProcAssumption DEF AccountsOf

LEMMA LedgerStep ==
    ASSUME TypeOK, ControlInv, NEW p \in Proc, RestartStep(p), DockerSoFar(p), LedgerSoFar(p),
           MadeSoFar(p)
    PROVE  LedgerSoFar(p)'
<1> USE DEF TypeOK
<1>1. /\ ProcessAction(p) /\ Ordinary(p) /\ ~Interrupt(p) /\ opts' = opts
      /\ pc'[p] # "done" /\ pc'[p] # pc[p] /\ <<pc[p], pc'[p]>> \in Path
      /\ pc[p] = "new" => pc'[p] = "clean.node"
  BY DEF RestartStep, Restarts
<1>2. ~CreateAccount(p)
  BY <1>1 DEF CreateAccount
<1>3. ASSUME pc'[p] \in BeforeAccounts PROVE entities' \in {<<>>, <<"topic">>}
  <2>1. CASE pc[p] = "init.mirror"
    BY <2>1, ErasedKeeps DEF Erased, DockerSoFar
  <2>2. CASE pc[p] # "init.mirror"
    <3>1. pc[p] \in BeforeAccounts \ {"acc.begin"}
      BY <1>1, <1>3, <2>2 DEF Path, BeforeAccounts, StartPoints
    <3>2. entities \in {<<>>, <<"topic">>}
      BY <3>1 DEF LedgerSoFar
    <3>3. ~BeginAccounts(p) /\ ~CreateResources(p) /\ ~StopDown(p)
      BY <3>1 DEF BeginAccounts, CreateResources, StopDown, BeforeAccounts, StartPoints
    <3>4. CASE RecoveryDown(p)
      BY <3>2, <3>4 DEF RecoveryDown, ComposeDown
    <3>5. CASE ~RecoveryDown(p)
      <4>1. entities' = entities
        BY <1>1, <1>2, <3>3, <3>5, SameLedger DEF WaitForTopic, data
      <4> QED BY <3>2, <4>1
    <3> QED BY <3>4, <3>5
  <2> QED BY <2>1, <2>2
<1>4. ASSUME Past(p, Counted)', ~opts[p].async
      PROVE  AccountsOf(p)' = 2..(NAccounts + 1 - jobs'[p])
  <2>1. CASE pc[p] = "acc.begin"
    <3>1. BeginAccounts(p)
      BY <1>1, <2>1, ActionAt
    <3> QED BY <3>1, LedgerBegins, NAccountsAssumption
  <2>2. CASE pc[p] # "acc.begin"
    <3>1. Past(p, Counted) /\ pc[p] \notin {"recover.down", "stop.down"}
      BY <1>1, <1>4, <2>2, OrdinaryStep
      DEF Path, Past, Counted, FromResources, CleanPoints
    <3>2. AccountsOf(p)' = AccountsOf(p) /\ jobs'[p] = jobs[p]
      BY <1>1, <1>2, <2>2, <3>1, AccountsOfOthers DEF BeginAccounts, RecoveryDown, StopDown
    <3> QED BY <1>4, <3>1, <3>2 DEF LedgerSoFar
  <2> QED BY <2>1, <2>2
<1>5. ASSUME pc'[p] = "acc.wait" PROVE Len(entities') = NAccounts + 1 - jobs'[p]
  <2>1. pc[p] = "acc.begin"
    BY <1>1, <1>5 DEF Path
  <2>2. BeginAccounts(p)
    BY <1>1, <2>1, ActionAt
  <2>3. Len(entities') = 1 /\ jobs'[p] = NAccounts
    BY <2>2, LedgerBegins
  <2>4. NAccounts + 1 - NAccounts = 1
    BY NAccountsAssumption
  <2> QED BY <2>3, <2>4
<1> QED BY <1>1, <1>3, <1>4, <1>5 DEF LedgerSoFar

\* An account is created while its process awaits it, or with --async, when
\* nothing is claimed of the ledger.
LEMMA RestartCreates ==
    ASSUME TypeOK, NEW p \in Proc, CreateAccount(p), DockerSoFar(p), ModesSoFar(p),
           LedgerSoFar(p), AccountsSoFar(p)
    PROVE  DockerSoFar(p)' /\ ModesSoFar(p)' /\ LedgerSoFar(p)'
<1> USE DEF TypeOK
<1>1. /\ UNCHANGED <<docker, files, pc, curr, opts>> /\ "node" \in booted /\ pc[p] # "done"
      /\ jobs[p] > 0 /\ jobs'[p] = jobs[p] - 1 /\ jobs[p] \in Nat
      /\ entities' = Append(entities, p)
  BY NAccountsAssumption DEF CreateAccount, Waiting, AwaitPoints, JobsTypeOK
<1>2. pc[p] \notin Erased
  BY <1>1 DEF DockerSoFar, Silent
<1>3. Past(p, Counted)
  BY <1>1 DEF AccountsSoFar, Counted
<1>4. pc[p] \notin BeforeAccounts
  BY <1>3 DEF Past, Counted, BeforeAccounts, StartPoints, FromResources, CleanPoints
<1>5. pc[p] = "acc.wait" => Len(entities') = NAccounts + 1 - jobs'[p]
  BY <1>1, NAccountsAssumption DEF LedgerSoFar, DataTypeOK
<1>6. ASSUME ~opts[p].async PROVE AccountsOf(p)' = 2..(NAccounts + 1 - jobs'[p])
  <2>1. ~Past(p, FromResources)
    BY <1>1, <1>6 DEF AccountsSoFar
  <2>2. pc[p] = "acc.wait"
    BY <1>3, <2>1 DEF Past, Counted
  <2>3. AccountsOf(p) = 2..(NAccounts + 1 - jobs[p]) /\ Len(entities) = NAccounts + 1 - jobs[p]
    BY <1>3, <1>6, <2>2 DEF LedgerSoFar
  <2>4. /\ Len(entities) \in Nat /\ DOMAIN entities = 1..Len(entities)
        /\ DOMAIN entities' = 1..(Len(entities) + 1)
        /\ \A i \in 1..Len(entities) : entities'[i] = entities[i]
        /\ entities'[Len(entities) + 1] = p
    BY <1>1 DEF DataTypeOK
  <2>5. AccountsOf(p)' = AccountsOf(p) \cup {Len(entities) + 1}
    BY <2>4 DEF AccountsOf
  <2>6. NAccounts + 1 - jobs'[p] = Len(entities) + 1 /\ Len(entities) >= 1
    BY <1>1, <2>3, NAccountsAssumption DEF JobsTypeOK
  <2> QED BY <2>3, <2>4, <2>5, <2>6
<1>7. LedgerSoFar(p)'
  BY <1>1, <1>4, <1>5, <1>6 DEF LedgerSoFar
<1> QED BY <1>1, <1>2, <1>7 DEF DockerSoFar, ModesSoFar, Past, docker, files

\* Nothing is claimed of one that has not begun or has ended.
LEMMA NothingClaimed ==
    ASSUME NEW p \in Proc, ~Active(p) PROVE DockerSoFar(p) /\ ModesSoFar(p) /\ LedgerSoFar(p)
<1>1. pc[p] \in {"new", "done"}
  BY DEF Active
<1> QED
  BY <1>1 DEF DockerSoFar, ModesSoFar, LedgerSoFar, Past, Erased, Restored, StartPoints,
    BeforeAccounts, Counted, FromPrep, FromAccounts, FromResources, CleanPoints

LEMMA RestartInvStep ==
    ASSUME ~Overlap, "down" \notin Faults, TypeOK, ControlInv, Alone, ServedInv, CountInv,
           RestartInv, NEW p \in Proc, ProcessAction(p)
    PROVE  RestartInv'
<1> USE DEF TypeOK
<1>1. SUFFICES ASSUME NEW q \in Proc, Restarts(q)'
               PROVE  DockerSoFar(q)' /\ ModesSoFar(q)' /\ LedgerSoFar(q)'
  BY DEF RestartInv
<1>2. CASE ~Active(q)'
  BY <1>2 DEF Active, DockerSoFar, ModesSoFar, LedgerSoFar, Past, Erased, Restored,
     StartPoints, BeforeAccounts, Counted, FromPrep, FromAccounts, FromResources, CleanPoints
<1>3. CASE Active(q)'
  <2>1. q = p
    BY <1>3, OthersInactive DEF Active
  <2>2. Restarts(p) /\ ~Interrupt(p) /\ opts' = opts
    BY <1>1, <2>1, StaysOrdinary DEF Restarts
  <2>3. /\ DockerSoFar(p) /\ ModesSoFar(p) /\ LedgerSoFar(p)
        /\ MadeSoFar(p) /\ AccountsSoFar(p)
    BY <2>2 DEF RestartInv, ServedInv, CountInv, Restarts
  <2>4. CASE CreateAccount(p)
    BY <2>1, <2>3, <2>4, RestartCreates
  <2>5. CASE ~CreateAccount(p)
    <3>1. pc'[p] # "done" /\ pc'[p] # pc[p] /\ <<pc[p], pc'[p]>> \in Path
      BY <1>3, <2>1, <2>2, <2>5, OrdinaryStep DEF Active, Restarts
    <3>2. pc[p] = "new" => Launch(p)
      BY OnlyActive DEF Active
    <3>3. RestartStep(p)
      BY <2>2, <3>1, <3>2, RestartBegins DEF RestartStep
    <3> QED BY <2>1, <2>3, <3>3, DockerStep, ModesStep, LedgerStep
  <2> QED BY <2>4, <2>5
<1> QED BY <1>2, <1>3

\* What boots reads the files of the restart, and the topic comes first.
LEMMA RestartEnvironment ==
    ASSUME TypeOK, ServedInv, RestartInv, Environment PROVE RestartInv'
<1> USE DEF TypeOK
<1>1. UNCHANGED control /\ UNCHANGED files
  BY DEF Environment, BootNode, BootMirror, Boot, MonitorCreatesTopic, StreamRecords
<1>2. SUFFICES ASSUME NEW p \in Proc, Restarts(p)
               PROVE  DockerSoFar(p)' /\ ModesSoFar(p)' /\ LedgerSoFar(p)'
  BY <1>1 DEF RestartInv, Restarts, Ordinary, Interrupted, control
<1>3. DockerSoFar(p) /\ ModesSoFar(p) /\ LedgerSoFar(p) /\ MadeSoFar(p)
  BY <1>2 DEF RestartInv, ServedInv, Restarts
<1>4. ~Silent
  BY DEF Silent, Services, Environment, BootNode, BootMirror, Boot, MonitorCreatesTopic,
         StreamRecords
<1>5. pc[p] \notin Erased
  BY <1>3, <1>4 DEF DockerSoFar
<1>6. ASSUME pc[p] \in StartPoints \/ Past(p, FromPrep)
      PROVE  \A s \in booted' : running'[s] = opts[p].mode
  <2>1. \A s \in booted : running[s] = opts[p].mode
    BY <1>3, <1>6 DEF DockerSoFar
  <2>2. CASE docker' = docker
    BY <2>1, <2>2 DEF docker
  <2>3. CASE BootNode \/ BootMirror
    <3>1. booted # Services
      BY <2>3 DEF BootNode, BootMirror, Boot, Services
    <3>2. ~Past(p, FromPrep)
      BY <1>3, <3>1 DEF MadeSoFar
    <3>3. boot = opts[p].mode /\ mirror = opts[p].mode
      BY <1>3, <1>6, <3>2 DEF ModesSoFar
    <3>4. PICK s \in Services : booted' = booted \cup {s} /\ s \notin booted
                                /\ running' = [running EXCEPT ![s] = opts[p].mode]
      BY <2>3, <3>3 DEF BootNode, BootMirror, Boot, Services
    <3> QED BY <2>1, <3>4 DEF DockerTypeOK
  <2> QED
    BY <2>2, <2>3 DEF Environment, MonitorCreatesTopic, StreamRecords
<1>7. DockerSoFar(p)' /\ ModesSoFar(p)'
  BY <1>1, <1>3, <1>5, <1>6 DEF DockerSoFar, ModesSoFar, Past, control, files
<1>8. LedgerSoFar(p)'
  <2>1. CASE entities' = entities
    BY <1>1, <1>3, <2>1 DEF LedgerSoFar, AccountsOf, Past, control
  <2>2. CASE entities' = Append(entities, "topic") /\ ~Created("topic")
    <3>1. ~Past(p, FromAccounts)
      BY <1>3, <2>2 DEF MadeSoFar
    <3>2. ~Past(p, Counted)
      BY <3>1 DEF Past, Counted, FromAccounts, FromResources
    <3>3. pc[p] # "acc.wait"
      BY <3>2 DEF Past, Counted
    <3>4. ASSUME entities \in {<<>>, <<"topic">>} PROVE entities' = <<"topic">>
      <4>1. entities = <<>>
        BY <2>2, <3>4 DEF Created
      <4> QED BY <2>2, <4>1
    <3> QED BY <1>1, <1>3, <3>2, <3>3, <3>4 DEF LedgerSoFar, Past, control
  <2> QED
    BY <2>1, <2>2 DEF Environment, BootNode, BootMirror, Boot, MonitorCreatesTopic,
       StreamRecords, data
<1> QED BY <1>7, <1>8

LEMMA RestartInvCorrect ==
    ASSUME ~Overlap, "down" \notin Faults PROVE Spec => []RestartInv
<1>1. Init => RestartInv
  <2> SUFFICES ASSUME Init PROVE RestartInv
    OBVIOUS
  <2>1. \A p \in Proc : ~Active(p)
    BY DEF Init, Active
  <2> QED BY <2>1, NothingClaimed DEF RestartInv
<1>2. Inv /\ Alone /\ ServedInv /\ CountInv /\ RestartInv /\ [Next]_vars => RestartInv'
  <2> SUFFICES ASSUME Inv, Alone, ServedInv, CountInv, RestartInv, [Next]_vars
               PROVE  RestartInv'
    OBVIOUS
  <2>1. CASE \E p \in Proc : Work(p) \/ Disturb(p)
    BY <2>1, ActionsOfProcess, RestartInvStep DEF Inv
  <2>2. CASE Environment
    BY <2>2, RestartEnvironment DEF Inv
  <2>3. CASE UNCHANGED vars
    <3>1. \A p \in Proc : /\ DockerSoFar(p)' = DockerSoFar(p)
                          /\ ModesSoFar(p)' = ModesSoFar(p)
                          /\ LedgerSoFar(p)' = LedgerSoFar(p)
                          /\ Restarts(p)' = Restarts(p)
      BY <2>3 DEF vars, control, docker, data, files, DockerSoFar, ModesSoFar, LedgerSoFar,
                  Past, Silent, AccountsOf, Restarts, Ordinary, Interrupted
    <3> QED BY <3>1 DEF RestartInv
  <2> QED BY <2>1, <2>2, <2>3 DEF Next, Done
<1> QED
  BY <1>1, <1>2, InvCorrect, AloneCorrect, AloneExclusive, ServedInvCorrect, PTL DEF Spec

\* When invocations follow one another and `docker compose down` succeeds, a
\* restart that ends with exit(0) has services that read its own configuration,
\* in a ledger whose first entities are the topic and its accounts.
THEOREM RestartFromScratchCorrect ==
    ASSUME ~Overlap, "down" \notin Faults PROVE Spec => RestartFromScratch
<1>1. Inv /\ ServedInv /\ CountInv /\ RestartInv /\ [Next]_vars =>
        [\A p \in Proc :
            opts[p].command = "restart" /\ Succeeds(p) => ScratchLedger(p)']_vars
  <2> SUFFICES ASSUME Inv, ServedInv, CountInv, RestartInv, [Next]_vars, NEW q \in Proc,
                      opts[q].command = "restart", Succeeds(q)
               PROVE  ScratchLedger(q)'
    OBVIOUS
  <2>1. exit' # exit
    BY DEF Inv, TypeOK, ControlTypeOK, Succeeds
  <2>2. PICK p \in Proc : ProcessAction(p)
    BY <2>1, ActionsOfProcess
    DEF Next, Done, vars, control, Environment, BootNode, BootMirror, Boot,
        MonitorCreatesTopic, StreamRecords
  <2>3. Ordinary(q) /\ AttachState(q)
    BY <2>2, SuccessAttaches DEF StartUpCommands
  <2>4. pc[q] = "attach" /\ Restarts(q)
    BY <2>3 DEF AttachState, Restarts, Ordinary, Interrupted
  <2>5. /\ DockerSoFar(q) /\ LedgerSoFar(q) /\ MadeSoFar(q) /\ AccountsSoFar(q)
        /\ \A S : Past(q, S)
    BY <2>4 DEF RestartInv, ServedInv, CountInv, Restarts, Past
  <2>6. running = [s \in Services |-> opts[q].mode]
    <3>1. booted = Services /\ \A s \in booted : running[s] = opts[q].mode
      BY <2>5 DEF MadeSoFar, DockerSoFar
    <3> QED BY <3>1 DEF Inv, TypeOK, DockerTypeOK
  <2>7. opts[q].async \/ AccountsOf(q) = 2..(NAccounts + 1)
    <3>1. ~opts[q].async => jobs[q] = 0 /\ AccountsOf(q) = 2..(NAccounts + 1 - jobs[q])
      BY <2>5 DEF AccountsSoFar, LedgerSoFar
    <3> QED BY <3>1, NAccountsAssumption
  <2>8. UNCHANGED <<docker, data, files>> /\ opts' = opts
    BY <2>2, <2>3, OptionsFixed DEF AttachState
  <2> QED
    BY <2>6, <2>7, <2>8 DEF docker, data, ScratchLedger, AccountsOf
<1> QED
  BY <1>1, InvCorrect, AloneCorrect, AloneExclusive, ServedInvCorrect, RestartInvCorrect, PTL
  DEF Spec, RestartFromScratch

-----------------------------------------------------------------------------
(* How long an invocation can go on                                        *)

\* How many steps a process at point l has before it at most, not counting the
\* accounts it creates; `erasing` in the states that only a restart begins with.
ToGo(l, erasing) ==
    CASE l = "done" -> 0
      [] l = "attach" -> 1
      [] l = "clean.mirror" -> IF erasing THEN 27 ELSE 2
      [] l = "clean.node" -> IF erasing THEN 28 ELSE 3
      [] l = "stop.clean" -> IF erasing THEN 24 ELSE 1
      [] l = "stop.down" -> IF erasing THEN 25 ELSE 2
      [] l = "stop.kill" -> IF erasing THEN 26 ELSE 3
      [] l = "fail.mirror" -> 1
      [] l = "fail.node" -> 2
      [] l = "stalled" -> 4
      [] l = "res.wait" -> 4
      [] l = "res.begin" -> 5
      [] l = "acc.wait" -> 6
      [] l = "acc.begin" -> 7
      [] l = "net.topic" -> 8
      [] l = "net.rates" -> 9
      [] l = "net.fees" -> 10
      [] l = "start.node" -> 11
      [] l = "start.mirror" -> 12
      [] l = "start.again" -> 13
      [] l = "recover.clean" -> 14
      [] l = "recover.down" -> 15
      [] l = "recover.kill" -> 16
      [] l = "start.up" -> 17
      [] l = "start.images" -> 18
      [] l = "init.mirror" -> 19
      [] l = "init.node" -> 20
      [] l = "init.copy" -> 21
      [] l = "init.ports" -> 22
      [] l = "init.check" -> 23
      [] l = "new" -> 29

Erasing(p) == cmd[p] = "restart" /\ curr[p] <= 2
PointsToGo(p) == ToGo(pc[p], Erasing(p))

\* The accounts are launched at acc.begin, seven points before the end.
StepsLeft(p) ==
    PointsToGo(p) + jobs[p] + (IF PointsToGo(p) >= 7 THEN NAccounts ELSE 0)

\* What Docker and the services still do by themselves.
Yet(done) == IF done THEN 0 ELSE 1
DockerLeft ==
    Yet("node" \in booted) + Yet("mirror" \in booted) + Yet(Created("topic"))
    + Yet(ledger \in logs)

LEMMA ToGoDone == \A e : ToGo("done", e) = 0
BY DEF ToGo

LEMMA ToGoPositive ==
    ASSUME NEW l \in Points, l # "done", NEW e
    PROVE  ToGo(l, e) \in 1..29
<1>1. CASE l \in {"new", "stalled"} \cup PointsIn["Init"]
  BY <1>1 DEF ToGo, PointsIn
<1>2. CASE l \in PointsIn["Start"]
  BY <1>2 DEF ToGo, PointsIn
<1>3. CASE l \in PointsIn["NetworkPrep"] \cup PointsIn["AccountCreation"]
              \cup PointsIn["ResourceCreation"]
  BY <1>3 DEF ToGo, PointsIn
<1>4. CASE l \in PointsIn["CleanUp"] \cup PointsIn["Attach"] \cup PointsIn["Stop"]
  BY <1>4 DEF ToGo, PointsIn
<1>5. \/ l \in {"new", "stalled"} \cup PointsIn["Init"]
      \/ l \in PointsIn["Start"]
      \/ l \in PointsIn["NetworkPrep"] \cup PointsIn["AccountCreation"]
              \cup PointsIn["ResourceCreation"]
      \/ l \in PointsIn["CleanUp"] \cup PointsIn["Attach"] \cup PointsIn["Stop"]
  BY DEF Points, AwaitPoints, PointsIn
<1> QED BY <1>1, <1>2, <1>3, <1>4, <1>5

LEMMA PointsToGoType ==
    ASSUME ControlTypeOK, NEW p \in Proc
    PROVE  PointsToGo(p) \in 0..29 /\ (pc[p] # "done" => PointsToGo(p) > 0)
<1>1. pc[p] \in Points
  BY DEF ControlTypeOK
<1>2. CASE pc[p] = "done"
  BY <1>2, ToGoDone DEF PointsToGo
<1>3. CASE pc[p] # "done"
  BY <1>1, <1>3, ToGoPositive DEF PointsToGo
<1> QED BY <1>2, <1>3

LEMMA StepsLeftType ==
    ASSUME ControlTypeOK, JobsTypeOK, NEW p \in Proc
    PROVE  StepsLeft(p) \in Nat
<1>1. PointsToGo(p) \in Nat /\ jobs[p] \in Nat
  BY PointsToGoType, NAccountsAssumption DEF JobsTypeOK
<1> QED BY <1>1, NAccountsAssumption DEF StepsLeft

\* Which commands erase what they find, and when.
LEMMA ErasingStates ==
    ASSUME ControlTypeOK, ControlInv, NEW p \in Proc, Active(p)
    PROVE  /\ StateOf(p) = "CleanUp" => (Erasing(p) <=> curr[p] <= 5) /\ (Erasing(p) => curr[p] = 1)
           /\ StateOf(p) = "Stop" /\ Ordinary(p) => Erasing(p)
           /\ StateOf(p) \in {"Stop", "AccountCreation"} /\ ~Ordinary(p) =>
                ~Erasing(p) /\ curr[p] >= Len(Procedure[cmd[p]])
<1>1. cmd[p] \in DOMAIN Procedure /\ curr[p] \in 1..Len(Procedure[cmd[p]])
  BY StateOfType
<1>2. CASE cmd[p] = "start"
  BY <1>1, <1>2, ProcedureLengths, ProcedureStates
  DEF StateOf, Erasing, Ordinary, StartUpCommands, ControlInv
<1>3. CASE cmd[p] = "restart"
  BY <1>1, <1>3, ProcedureLengths, ProcedureStates
  DEF StateOf, Erasing, Ordinary, StartUpCommands, ControlInv
<1>4. CASE cmd[p] = "stop"
  BY <1>1, <1>4, ProcedureLengths, ProcedureStates
  DEF StateOf, Erasing, Ordinary, StartUpCommands
<1>5. CASE cmd[p] = "accountCreation"
  BY <1>1, <1>5, ProcedureLengths, ProcedureStates
  DEF StateOf, Erasing, Ordinary, StartUpCommands
<1> QED BY <1>1, <1>2, <1>3, <1>4, <1>5, ProcedureDomain

\* Ending leaves nothing to do.
LEMMA ExitDescends ==
    ASSUME ControlTypeOK, NEW p \in Proc, pc[p] # "done", NEW how, ExitAs(p, how)
    PROVE  PointsToGo(p)' < PointsToGo(p)
<1>1. pc'[p] = "done"
  BY DEF ExitAs, ControlTypeOK
<1>2. PointsToGo(p)' = 0
  BY <1>1 DEF PointsToGo, ToGo
<1> QED BY <1>2, PointsToGoType

\* Where a state may end.
LastPoints == {"init.mirror", "start.node", "net.topic", "acc.begin", "acc.wait", "res.begin",
               "res.wait", "clean.mirror", "stop.clean", "attach"}

\* The next state is closer to the end than the last point of this one.
LEMMA FinishDescends ==
    ASSUME ControlTypeOK, ControlInv, NEW p \in Proc, pc[p] \in LastPoints, Finish(p)
    PROVE  PointsToGo(p)' < PointsToGo(p)
<1>1. Active(p)
  BY DEF Active, LastPoints
<1>2. CASE ExitAs(p, "finished")
  BY <1>2, ExitDescends DEF LastPoints
<1>3. CASE ~ExitAs(p, "finished")
  <2>1. /\ curr[p] < Len(Procedure[cmd[p]])
        /\ curr'[p] = curr[p] + 1 /\ cmd' = cmd /\ pc'[p] # "done"
    BY <1>3, <1>1, StateOfType, ProcedureType, EntryType DEF Finish, ControlTypeOK
  <2>2. ~Interrupted(p) /\ cmd[p] \notin {"stop", "accountCreation"}
    <3>1. cmd[p] # "stop"
      BY <2>1, StateOfType
    <3>2. cmd[p] # "accountCreation"
      <4> SUFFICES ASSUME cmd[p] = "accountCreation" PROVE FALSE
        OBVIOUS
      <4>1. Len(Procedure[cmd[p]]) = 1
        BY ProcedureLengths
      <4>2. curr[p] \in 1..1 /\ curr[p] < 1
        BY <2>1, <4>1, StateOfType
      <4> QED BY <4>2
    <3> QED BY <3>1, <3>2 DEF ControlInv
  <2>3. Ordinary(p)
    BY <2>2, StateOfType, ProcedureDomain DEF Ordinary, StartUpCommands
  <2>4. StateOf(p) \in StateNames
    BY StateOfType
  <2>5. CASE StateOf(p) \in {"Init", "Start", "NetworkPrep", "AccountCreation"}
    <3>1. <<pc[p], pc'[p]>> \in {<<"init.mirror", "start.images">>, <<"start.node", "net.fees">>,
              <<"net.topic", "acc.begin">>, <<"acc.begin", "res.begin">>,
              <<"acc.wait", "res.begin">>}
      BY <1>1, <2>3, <2>5, StateAt, FinishGoes DEF PointsIn, LastPoints, Ordinary
    <3> QED BY <3>1 DEF PointsToGo, ToGo
  <2>6. CASE StateOf(p) = "ResourceCreation"
    <3>1. pc[p] \in {"res.begin", "res.wait"}
      BY <1>1, <2>6, StateAt DEF PointsIn
    <3>2. pc'[p] = "clean.node" /\ curr'[p] > 5
      BY <1>1, <2>3, <2>6, FinishOrdinary
    <3>3. ~Erasing(p)'
      BY <2>1, <3>2, StateOfType DEF Erasing
    <3> QED BY <3>1, <3>2, <3>3 DEF PointsToGo, ToGo
  <2>7. CASE StateOf(p) = "CleanUp"
    <3>1. pc[p] = "clean.mirror"
      BY <1>1, <2>7, StateAt DEF PointsIn, LastPoints
    <3>2. CASE Erasing(p)
      <4>1. curr[p] = 1 /\ pc'[p] = "stop.kill"
        BY <1>1, <2>3, <2>7, <3>2, ErasingStates, FinishOrdinary
      <4>2. Erasing(p)'
        BY <2>1, <3>2, <4>1 DEF Erasing
      <4> QED BY <3>1, <3>2, <4>1, <4>2 DEF PointsToGo, ToGo
    <3>3. CASE ~Erasing(p)
      <4>1. pc'[p] = "attach"
        BY <1>1, <2>3, <2>7, <3>3, ErasingStates, FinishOrdinary, StateOfType
      <4> QED BY <3>1, <3>3, <4>1 DEF PointsToGo, ToGo
    <3> QED BY <3>2, <3>3
  <2>8. CASE StateOf(p) = "Stop"
    <3>1. pc[p] = "stop.clean" /\ pc'[p] = "init.check" /\ Erasing(p)
      BY <1>1, <2>3, <2>8, StateAt, FinishOrdinary, ErasingStates DEF PointsIn, LastPoints
    <3> QED BY <3>1 DEF PointsToGo, ToGo
  <2>9. CASE StateOf(p) = "Attach"
    BY <1>1, <2>1, <2>3, <2>9, FinishOrdinary
  <2> QED BY <2>4, <2>5, <2>6, <2>7, <2>8, <2>9 DEF StateNames
<1> QED BY <1>2, <1>3

\* The first point of a procedure is closer to the end than where it has not begun.
LEMMA LaunchDescends ==
    ASSUME ControlTypeOK, ControlInv, NEW p \in Proc, Launch(p)
    PROVE  PointsToGo(p)' < PointsToGo(p)
<1>1. pc[p] = "new" /\ PointsToGo(p) = 29
  BY DEF Launch, PointsToGo, ToGo
<1>2. pc'[p] = Entry[Procedure[cmd[p]][1]]
  BY DEF Launch, Goto, ControlTypeOK
<1>3. Entry[Procedure[cmd[p]][1]] \in {"init.check", "clean.node", "stop.kill", "acc.begin"}
  BY StateOfType, ProcedureDomain, ProcedureStates DEF Entry
<1>4. \A e : /\ ToGo("init.check", e) < 29 /\ ToGo("clean.node", e) < 29
             /\ ToGo("stop.kill", e) < 29 /\ ToGo("acc.begin", e) < 29
  BY DEF ToGo
<1>5. PointsToGo(p)' = ToGo(pc'[p], Erasing(p)')
  BY DEF PointsToGo
<1> QED BY <1>1, <1>2, <1>3, <1>4, <1>5

\* Every step of an invocation but the creation of an account brings it closer
\* to its end, and SIGINT too: it is looked at only where the handler's three
\* commands are less than what was left.
LEMMA ProcessDescends ==
    ASSUME ControlTypeOK, ControlInv, NEW p \in Proc, ProcessAction(p), ~CreateAccount(p)
    PROVE  PointsToGo(p)' < PointsToGo(p)
<1>1. ASSUME NEW l, Goto(p, l)
      PROVE  PointsToGo(p)' = ToGo(l, Erasing(p))
  BY <1>1 DEF Goto, PointsToGo, Erasing, ControlTypeOK
<1>2. \A how : ExitAs(p, how) => PointsToGo(p)' < PointsToGo(p)
  BY ExitDescends, OptionsFixed
<1>3. pc[p] \in LastPoints /\ Finish(p) => PointsToGo(p)' < PointsToGo(p)
  BY FinishDescends
<1> DEFINE Goes(l) == Goto(p, l) /\ ToGo(l, Erasing(p)) < PointsToGo(p)
<1>4. \A l : Goes(l) => PointsToGo(p)' < PointsToGo(p)
  BY <1>1
<1> USE DEF Goes, PointsToGo, ToGo
<1>5. CASE Launch(p)
  BY <1>5, LaunchDescends
<1>6. CASE InitState(p)
  <2>1. \/ pc[p] \in LastPoints /\ Finish(p)
        \/ \E how : ExitAs(p, how)
        \/ \E l : Goes(l)
    BY <1>6 DEF InitState, InitCheck, InitPorts, PrepareWorkDirectory, ConfigureNodeProperties,
       ConfigureMirrorNodeProperties, Fail, Crash, LastPoints
  <2> QED BY <2>1, <1>2, <1>3, <1>4
<1>7. CASE StartState(p)
  <2>1. \/ pc[p] \in LastPoints /\ Finish(p)
        \/ \E how : ExitAs(p, how)
        \/ \E l : Goes(l)
    BY <1>7 DEF StartState, CheckDockerImages, StartUp, RecoveryKill, RecoveryDown,
       RecoveryClean, StartUpAgain, ComposeUp, WaitForMirror, WaitForNode, WaitForFiringUp,
       Fail, LastPoints
  <2> QED BY <2>1, <1>2, <1>3, <1>4
<1>8. CASE NetworkPrepState(p)
  <2>1. \/ pc[p] \in LastPoints /\ Finish(p)
        \/ \E how : ExitAs(p, how)
        \/ \E l : Goes(l)
    BY <1>8 DEF NetworkPrepState, ImportFees, ImportExchangeRates, ImportFile, WaitForTopic,
       Crash, LastPoints
  <2> QED BY <2>1, <1>2, <1>3, <1>4
<1>9. CASE BeginAccounts(p) \/ AccountFails(p) \/ AccountsCreated(p) \/ ResourceCreationState(p)
  <2>1. \/ pc[p] \in LastPoints /\ Finish(p)
        \/ \E how : ExitAs(p, how)
        \/ \E l : Goes(l)
    BY <1>9 DEF BeginAccounts, AccountFails, AccountsCreated, ResourceCreationState,
       BeginResources, CreateResources, Crash, LastPoints
  <2> QED BY <2>1, <1>2, <1>3, <1>4
<1>10. CASE CleanUpState(p) \/ AttachState(p) \/ StopState(p)
  <2>1. \/ pc[p] \in LastPoints /\ Finish(p)
        \/ \E how : ExitAs(p, how)
        \/ \E l : Goes(l)
    BY <1>10 DEF CleanUpState, RevertNodeProperties, RevertMirrorNodeProperties, AttachState,
       StopState, StopKill, StopDown, StopClean, LastPoints
  <2> QED BY <2>1, <1>2, <1>3, <1>4
<1>11. CASE Kill(p) \/ Drain(p)
  BY <1>11, <1>2 DEF Kill, Drain
<1>12. CASE Interrupt(p)
  <2>1. pc'[p] = "stop.kill" /\ cmd'[p] = "stop"
    BY <1>12, ProcedureStates DEF Interrupt, Entry, ControlTypeOK
  <2>2. PointsToGo(p)' = 3
    BY <2>1 DEF Erasing
  <2>3. PointsToGo(p) > 3
    BY <1>12 DEF Interrupt, Waiting, AwaitPoints
  <2> QED BY <2>2, <2>3
<1> QED
  BY <1>5, <1>6, <1>7, <1>8, <1>9, <1>10, <1>11, <1>12
  DEF ProcessAction, InitState, StartState, NetworkPrepState, ResourceCreationState,
      CleanUpState, StopState

\* Accounts are launched and created by these two actions alone.
LEMMA JobsStay ==
    ASSUME NEW p \in Proc, ProcessAction(p), ~BeginAccounts(p), ~CreateAccount(p)
    PROVE  jobs' = jobs
BY DEF ProcessAction, Launch, InitCheck, InitPorts, PrepareWorkDirectory,
       ConfigureNodeProperties, ConfigureMirrorNodeProperties, CheckDockerImages, StartUp,
       RecoveryKill, RecoveryDown, RecoveryClean, StartUpAgain, WaitForMirror, WaitForNode,
       WaitForFiringUp, ImportFees, ImportExchangeRates, ImportFile, WaitForTopic,
       AccountFails, AccountsCreated, BeginResources, CreateResources, RevertNodeProperties,
       RevertMirrorNodeProperties, AttachState, StopKill, StopDown, StopClean, Interrupt,
       Kill, Drain

\* Every step of an invocation, creations of accounts included, uses up one of
\* the steps it has left.
LEMMA StepsDescend ==
    ASSUME ControlTypeOK, ControlInv, JobsTypeOK, NEW p \in Proc, ProcessAction(p)
    PROVE  StepsLeft(p)' < StepsLeft(p)
<1>1. jobs[p] \in Nat /\ PointsToGo(p) \in Nat
  BY PointsToGoType, NAccountsAssumption DEF JobsTypeOK
<1>2. CASE CreateAccount(p)
  <2>1. PointsToGo(p)' = PointsToGo(p) /\ jobs'[p] = jobs[p] - 1
    BY <1>2 DEF CreateAccount, PointsToGo, Erasing, JobsTypeOK
  <2> QED BY <1>1, <2>1, NAccountsAssumption DEF StepsLeft
<1>3. CASE ~CreateAccount(p)
  <2>1. PointsToGo(p)' < PointsToGo(p) /\ PointsToGo(p)' \in Nat
    <3>1. ControlTypeOK'
      BY ControlStep
    <3>2. PointsToGo(p)' \in 0..29
      <4>1. pc'[p] \in Points
        BY <3>1 DEF ControlTypeOK
      <4> QED BY <4>1, ToGoDone, ToGoPositive DEF PointsToGo
    <3> QED BY <1>3, <3>2, ProcessDescends
  <2>2. CASE BeginAccounts(p)
    <3>1. PointsToGo(p) = 7 /\ jobs'[p] = NAccounts
      BY <2>2 DEF BeginAccounts, PointsToGo, ToGo, JobsTypeOK
    <3> QED BY <1>1, <2>1, <3>1, NAccountsAssumption DEF StepsLeft
  <2>3. CASE ~BeginAccounts(p)
    <3>1. jobs'[p] = jobs[p]
      BY <1>3, <2>3, JobsStay
    <3> QED BY <1>1, <2>1, <3>1, NAccountsAssumption DEF StepsLeft
  <2> QED BY <2>2, <2>3
<1> QED BY <1>2, <1>3

\* A step of one invocation leaves the others what they had.
LEMMA OthersKeepSteps ==
    ASSUME ControlTypeOK, JobsTypeOK, NEW p \in Proc, ProcessAction(p), NEW q \in Proc, q # p
    PROVE  StepsLeft(q)' = StepsLeft(q)
<1>1. pc'[q] = pc[q] /\ cmd'[q] = cmd[q] /\ curr'[q] = curr[q]
  BY OthersStay
<1>2. jobs'[q] = jobs[q]
  BY JobsStay DEF BeginAccounts, CreateAccount, JobsTypeOK
<1>3. PointsToGo(q)' = PointsToGo(q)
  BY <1>1 DEF PointsToGo, Erasing
<1> QED BY <1>2, <1>3 DEF StepsLeft

\* What Docker and the services do by themselves comes to an end.
LEMMA DockerDescends ==
    ASSUME DataTypeOK, Environment
    PROVE  DockerLeft' < DockerLeft /\ \A p \in Proc : StepsLeft(p)' = StepsLeft(p)
<1>1. \A p \in Proc : StepsLeft(p)' = StepsLeft(p)
  BY DEF Environment, BootNode, BootMirror, Boot, MonitorCreatesTopic, StreamRecords, control,
     StepsLeft, PointsToGo, Erasing
<1> DEFINE n == Yet("node" \in booted)
           m == Yet("mirror" \in booted)
           t == Yet(Created("topic"))
           r == Yet(ledger \in logs)
<1>2. /\ n \in {0, 1} /\ m \in {0, 1} /\ t \in {0, 1} /\ r \in {0, 1}
      /\ DockerLeft = n + m + t + r /\ DockerLeft' = n' + m' + t' + r'
  BY DEF DockerLeft, Yet
<1>3. CASE BootNode
  <2>1. n' = 0 /\ n = 1 /\ m' = m /\ t' = t /\ r' = r
    BY <1>3 DEF BootNode, Boot, data, Yet, Created
  <2> QED BY <1>1, <1>2, <2>1
<1>4. CASE BootMirror
  <2>1. n' = n /\ m' = 0 /\ m = 1 /\ t' = t /\ r' = r
    BY <1>4 DEF BootMirror, Boot, data, Yet, Created
  <2> QED BY <1>1, <1>2, <2>1
<1>5. CASE MonitorCreatesTopic
  <2>1. ~Created("topic") /\ Created("topic")'
    BY <1>5 DEF MonitorCreatesTopic, Created, DataTypeOK
  <2>2. n' = n /\ m' = m /\ t' = 0 /\ t = 1 /\ r' = r
    BY <1>5, <2>1 DEF MonitorCreatesTopic, docker, Yet
  <2> QED BY <1>1, <1>2, <2>2
<1>6. CASE StreamRecords
  <2>1. n' = n /\ m' = m /\ t' = t /\ r' = 0 /\ r = 1
    BY <1>6 DEF StreamRecords, docker, Yet, Created
  <2> QED BY <1>1, <1>2, <2>1
<1> QED BY <1>1, <1>3, <1>4, <1>5, <1>6 DEF Environment

\* Whatever goes wrong and however invocations overlap, none takes more than 29
\* steps beside one per account: no retry, no recovery, no SIGINT and no error
\* path leads a process back to where it has been.
THEOREM StepsBounded == Spec => [](\A p \in Proc : StepsLeft(p) \in 0..(29 + NAccounts))
<1> DEFINE Bounded == \A p \in Proc : StepsLeft(p) \in 0..(29 + NAccounts)
<1>1. Init => Bounded
  BY NAccountsAssumption DEF Init, StepsLeft, PointsToGo, ToGo
<1>2. Inv /\ Inv' /\ Bounded /\ [Next]_vars => Bounded'
  <2> SUFFICES ASSUME Inv, Inv', Bounded, [Next]_vars, NEW p \in Proc
               PROVE  StepsLeft(p)' \in 0..(29 + NAccounts)
    OBVIOUS
  <2>1. StepsLeft(p)' \in Nat
    <3>1. ControlTypeOK' /\ JobsTypeOK'
      BY DEF Inv, TypeOK
    <3>2. pc'[p] \in Points /\ jobs'[p] \in Nat
      BY <3>1, NAccountsAssumption DEF ControlTypeOK, JobsTypeOK
    <3>3. PointsToGo(p)' \in 0..29
      BY <3>2, ToGoDone, ToGoPositive DEF PointsToGo
    <3> QED BY <3>2, <3>3, NAccountsAssumption DEF StepsLeft
  <2>2. StepsLeft(p)' <= StepsLeft(p)
    <3>1. CASE \E q \in Proc : Work(q) \/ Disturb(q)
      BY <2>1, <3>1, ActionsOfProcess, StepsDescend, OthersKeepSteps, StepsLeftType
      DEF Inv, TypeOK
    <3>2. CASE Environment
      BY <2>1, <3>2, DockerDescends DEF Inv, TypeOK
    <3>3. CASE UNCHANGED vars
      BY <2>1, <3>3 DEF vars, control, StepsLeft, PointsToGo, Erasing
    <3> QED BY <3>1, <3>2, <3>3 DEF Next, Done
  <2> QED BY <2>1, <2>2, NAccountsAssumption
<1> QED BY <1>1, <1>2, InvCorrect, PTL DEF Spec

\* No behaviour changes its state for ever: each step uses up one of the bounded
\* steps of an invocation, or else one of the at most four things that Docker
\* and the services do between two of those.
THEOREM EveryStepDescends ==
    Spec => [][ /\ \A p \in Proc : StepsLeft(p)' <= StepsLeft(p)
                /\ \/ \E p \in Proc : StepsLeft(p)' < StepsLeft(p)
                   \/ DockerLeft' < DockerLeft /\ DockerLeft \in 0..4 ]_vars
<1> DEFINE Descends ==
             /\ \A p \in Proc : StepsLeft(p)' <= StepsLeft(p)
             /\ \/ \E p \in Proc : StepsLeft(p)' < StepsLeft(p)
                \/ DockerLeft' < DockerLeft /\ DockerLeft \in 0..4
<1>1. Inv /\ [Next]_vars => [Descends]_vars
  <2> SUFFICES ASSUME Inv, [Next]_vars PROVE Descends \/ UNCHANGED vars
    OBVIOUS
  <2>0. \A p \in Proc : StepsLeft(p) \in Nat
    BY StepsLeftType DEF Inv, TypeOK
  <2>1. CASE \E q \in Proc : Work(q) \/ Disturb(q)
    <3>1. PICK q \in Proc : ProcessAction(q)
      BY <2>1, ActionsOfProcess
    <3>2. StepsLeft(q)' < StepsLeft(q)
      BY <3>1, StepsDescend DEF Inv, TypeOK
    <3>3. \A p \in Proc : p # q => StepsLeft(p)' = StepsLeft(p)
      BY <3>1, OthersKeepSteps DEF Inv, TypeOK
    <3>4. StepsLeft(q)' <= StepsLeft(q)
      <4>1. pc'[q] \in Points /\ jobs'[q] \in Nat
        BY NAccountsAssumption, TypeStep DEF Inv, TypeOK, ControlTypeOK, JobsTypeOK
      <4>2. PointsToGo(q)' \in Nat
        BY <4>1, ToGoDone, ToGoPositive DEF PointsToGo
      <4>3. StepsLeft(q)' \in Nat
        BY <4>1, <4>2, NAccountsAssumption DEF StepsLeft
      <4> QED BY <2>0, <3>2, <4>3
    <3> QED BY <2>0, <3>2, <3>3, <3>4
  <2>2. CASE Environment
    <3>1. DockerLeft \in 0..4
      BY DEF DockerLeft, Yet
    <3> QED BY <2>0, <2>2, <3>1, DockerDescends DEF Inv, TypeOK
  <2> QED BY <2>1, <2>2 DEF Next, Done
<1> QED BY <1>1, InvCorrect, PTL DEF Spec

-----------------------------------------------------------------------------
(* What it waits for can come                                              *)

\* A config file that has been written is there for good.
LEMMA NeverAbsent ==
    ASSUME TypeOK, NEW p \in Proc, ProcessAction(p)
    PROVE  /\ boot # "absent" => boot' # "absent"
           /\ mirror # "absent" => mirror' # "absent"
           /\ pc[p] = "init.node" /\ pc'[p] = "init.mirror" => boot' # "absent"
           /\ pc[p] = "init.mirror" /\ pc'[p] = "start.images" => mirror' # "absent"
<1>1. opts[p].mode # "absent"
  BY OptionsAssumption, ModesAssumption DEF TypeOK, ControlTypeOK
<1>2. CASE FileWriter(p)
  BY <1>1, <1>2
  DEF FileWriter, PrepareWorkDirectory, ConfigureNodeProperties, ConfigureMirrorNodeProperties,
      RevertNodeProperties, RevertMirrorNodeProperties, Reverted, Crash, ExitAs, TypeOK,
      ControlTypeOK
<1>3. CASE ~FileWriter(p)
  <2>1. UNCHANGED files
    BY <1>3, OthersDoNotWrite
  <2>2. ~(pc[p] = "init.node" /\ pc'[p] = "init.mirror")
        /\ ~(pc[p] = "init.mirror" /\ pc'[p] = "start.images")
    BY <1>3, ActionAt DEF TypeOK, FileWriter, Interrupt, Waiting, AwaitPoints
  <2> QED BY <2>1, <2>2 DEF files
<1> QED BY <1>2, <1>3

NetworkPoints == StartPoints \cup {"net.fees", "net.rates", "net.topic"}

PresentInv ==
    \A p \in Proc : Ordinary(p) =>
        /\ pc[p] \in {"init.mirror"} \cup NetworkPoints => boot # "absent"
        /\ pc[p] \in NetworkPoints => mirror # "absent"

LEMMA PresentStep ==
    ASSUME Inv, PresentInv, NEW p \in Proc, ProcessAction(p) PROVE PresentInv'
<1> USE DEF Inv, TypeOK
<1> SUFFICES ASSUME NEW q \in Proc, Ordinary(q)'
             PROVE  /\ pc'[q] \in {"init.mirror"} \cup NetworkPoints => boot' # "absent"
                    /\ pc'[q] \in NetworkPoints => mirror' # "absent"
  BY DEF PresentInv
<1>1. CASE q # p
  <2>1. pc'[q] = pc[q] /\ Ordinary(q)
    BY <1>1, OthersStay DEF Ordinary, Interrupted
  <2> QED BY <2>1, NeverAbsent DEF PresentInv
<1>2. CASE q = p
  <2>1. Ordinary(p) /\ ~Interrupt(p)
    BY <1>2, StaysOrdinary
  <2>2. \/ pc'[p] = "done" \/ CreateAccount(p)
        \/ <<pc[p], pc'[p]>> \in Path
    BY <2>1, OrdinaryStep
  <2>3. CASE CreateAccount(p)
    BY <1>2, <2>1, <2>3, NeverAbsent DEF CreateAccount, PresentInv
  <2>4. CASE <<pc[p], pc'[p]>> \in Path
    <3>1. /\ pc'[p] = "init.mirror" => pc[p] = "init.node"
          /\ pc'[p] \in NetworkPoints =>
                pc[p] \in NetworkPoints \/ (pc[p] = "init.mirror" /\ pc'[p] = "start.images")
      BY <2>4 DEF Path, NetworkPoints, StartPoints
    <3> QED BY <1>2, <2>1, <3>1, NeverAbsent DEF PresentInv
  <2> QED BY <1>2, <2>2, <2>3, <2>4 DEF NetworkPoints, StartPoints
<1> QED BY <1>1, <1>2

\* Whatever the others do and whichever copies have failed, who waits for a
\* service or for what a service does finds both config files, without which
\* Docker could not start the service.
THEOREM WaitsForBootable ==
    Spec => [](\A p \in Proc :
        pc[p] \in {"start.mirror", "start.node", "net.fees", "net.rates", "net.topic"} =>
            "absent" \notin {boot, mirror})
<1>1. Init => PresentInv
  BY DEF Init, PresentInv, NetworkPoints, StartPoints
<1>2. Inv /\ PresentInv /\ [Next]_vars => PresentInv'
  <2> SUFFICES ASSUME Inv, PresentInv, [Next]_vars PROVE PresentInv'
    OBVIOUS
  <2>1. CASE \E p \in Proc : Work(p) \/ Disturb(p)
    BY <2>1, ActionsOfProcess, PresentStep
  <2>2. CASE Environment
    BY <2>2 DEF Environment, BootNode, BootMirror, Boot, MonitorCreatesTopic, StreamRecords,
       control, files, PresentInv, Ordinary, Interrupted
  <2>3. CASE UNCHANGED vars
    BY <2>3 DEF vars, control, files, PresentInv, Ordinary, Interrupted
  <2> QED BY <2>1, <2>2, <2>3 DEF Next, Done
<1>3. Inv /\ PresentInv => \A p \in Proc :
        pc[p] \in {"start.mirror", "start.node", "net.fees", "net.rates", "net.topic"} =>
            "absent" \notin {boot, mirror}
  <2> SUFFICES ASSUME Inv, PresentInv, NEW p \in Proc,
                      pc[p] \in {"start.mirror", "start.node", "net.fees", "net.rates", "net.topic"}
               PROVE  "absent" \notin {boot, mirror}
    OBVIOUS
  <2>1. Active(p)
    BY DEF Active
  <2>2. StateOf(p) \in {"Start", "NetworkPrep"} /\ ~Interrupted(p)
    BY <2>1, StateAt DEF Inv, TypeOK, PointsIn, StateNames
  <2>3. Ordinary(p)
    BY <2>2, StartUpStates DEF Inv, TypeOK, Ordinary
  <2> QED BY <2>3 DEF PresentInv, NetworkPoints, StartPoints
<1> QED BY <1>1, <1>2, <1>3, InvCorrect, PTL DEF Spec

=============================================================================
