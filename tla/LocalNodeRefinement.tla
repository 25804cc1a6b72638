------------------------ MODULE LocalNodeRefinement ------------------------
(***************************************************************************)
(* LocalNode implements Lifecycle: whatever happens inside the states, the *)
(* process goes through them as StateController promises.  A step maps to  *)
(* a step of Lifecycle when it leaves a state, and to a stutter otherwise. *)
(* It also implements ComposeProject: its shell commands are steps of the  *)
(* project, and what the network creates is written into the volumes.      *)
(***************************************************************************)
EXTENDS LocalNodeProofs

FailPoints == {"fail.node", "fail.mirror"}

Deaths == {"crashed", "portInUse", "mountError", "drained", "killed"}

\* The points of a state show that state, whatever else may be running.
LEMMA StageOfState ==
    \A s \in StateNames : \A l \in PointsOf[s] : StageOf(l, s) = s
<1> SUFFICES ASSUME NEW s \in StateNames, NEW l \in PointsOf[s]
             PROVE  StageOf(l, s) = s
  OBVIOUS
<1>1. l \notin {"new", "done"} \cup FailPoints
  BY DEF PointsOf, StateNames, FailPoints
<1>2. CASE l = "stalled"
  BY <1>1, <1>2 DEF StageOf, FailPoints
<1>3. CASE l # "stalled"
  <2>1. DOMAIN PointsOf = StateNames
    BY DEF PointsOf, StateNames
  <2>2. \A t \in StateNames : l \in PointsOf[t] => t = s
    BY <1>3 DEF PointsOf, StateNames
  <2>3. (CHOOSE t \in DOMAIN PointsOf : l \in PointsOf[t]) = s
    BY <2>1, <2>2
  <2> QED BY <1>1, <1>3, <2>3 DEF StageOf, FailPoints
<1> QED BY <1>2, <1>3

\* Before, after and in the error branch no state is shown.
LEMMA StageElsewhere ==
    \A s : /\ StageOf("new", s) = "new"
           /\ StageOf("done", s) = "done"
           /\ \A l \in FailPoints : StageOf(l, s) = "revert"
BY DEF StageOf, FailPoints

\* A process in a state is at a point of it or in the error branch.
LEMMA PointsOfState ==
    \A s \in StateNames : PointsIn[s] \subseteq PointsOf[s] \cup FailPoints
BY DEF PointsIn, PointsOf, StateNames, FailPoints

\* A process that is in no error branch is in the state selected.
LEMMA StageSelected ==
    ASSUME ControlTypeOK, ControlInv, NEW p \in Proc, Active(p),
           pc[p] \notin FailPoints
    PROVE  /\ StateOf(p) \in StateNames
           /\ pc[p] \in PointsOf[StateOf(p)]
           /\ Stage(p) = StateOf(p)
<1>1. StateOf(p) \in StateNames /\ pc[p] \in PointsOf[StateOf(p)]
  BY StateAt, PointsOfState
<1> QED BY <1>1, StageOfState DEF Stage, StateOf

\* A step of p shows in the stage of p only.
LEMMA StageStep ==
    ASSUME NEW p \in Proc, NEW x, Stage(p)' = x,
           \A q \in Proc : q # p => Stage(q)' = Stage(q)
    PROVE  [q \in Proc |-> Stage(q)]' = [[q \in Proc |-> Stage(q)] EXCEPT ![p] = x]
OBVIOUS

\* The others are where they were.
LEMMA OthersKeepStage ==
    ASSUME ControlTypeOK, NEW p \in Proc, NEW l, pc' = [pc EXCEPT ![p] = l],
           UNCHANGED <<cmd, curr>>
    PROVE  \A q \in Proc : q # p => Stage(q)' = Stage(q)
BY DEF ControlTypeOK, Stage

\* Moving within a state, or within the error branch, is a stutter.
LEMMA GotoStutters ==
    ASSUME ControlTypeOK, ControlInv, NEW p \in Proc, Active(p), NEW l, Goto(p, l),
           \/ pc[p] \notin FailPoints /\ l \in PointsOf[StateOf(p)]
           \/ pc[p] \in FailPoints /\ l \in FailPoints
    PROVE  UNCHANGED Controller!vars
<1>1. pc' = [pc EXCEPT ![p] = l] /\ UNCHANGED <<cmd, opts, curr, exit>>
  BY DEF Goto
<1>2. Stage(p)' = StageOf(l, StateOf(p))
  BY <1>1 DEF Stage, StateOf, ControlTypeOK
<1>3. StageOf(l, StateOf(p)) = Stage(p)
  <2>1. CASE pc[p] \notin FailPoints /\ l \in PointsOf[StateOf(p)]
    BY <2>1, StageSelected, StageOfState
  <2>2. CASE pc[p] \in FailPoints /\ l \in FailPoints
    BY <2>2, StageElsewhere DEF Stage
  <2> QED BY <2>1, <2>2
<1>4. \A q \in Proc : Stage(q)' = Stage(q)
  BY <1>1, <1>2, <1>3, OthersKeepStage
<1> QED BY <1>1, <1>4 DEF Controller!vars

\* update(UnknownError or UnresolvableError): CleanUpState.
LEMMA FailIsError ==
    ASSUME ControlTypeOK, ControlInv, NEW p \in Proc, Active(p),
           pc[p] \notin FailPoints, Fail(p)
    PROVE  Controller!Error(p)
<1>1. pc' = [pc EXCEPT ![p] = "fail.node"] /\ UNCHANGED <<cmd, opts, curr, exit>>
  BY DEF Fail, Goto
<1>2. Stage(p)' = "revert"
  BY <1>1, StageElsewhere DEF Stage, FailPoints, ControlTypeOK
<1>3. [q \in Proc |-> Stage(q)]' = [[q \in Proc |-> Stage(q)] EXCEPT ![p] = "revert"]
  BY <1>1, <1>2, OthersKeepStage, StageStep
<1>4. Stage(p) = Procedure[cmd[p]][curr[p]]
  BY StageSelected DEF StateOf
<1> QED BY <1>1, <1>3, <1>4 DEF Controller!Error, Controller!InState

\* Ending shows as the end.
LEMMA ExitIsEnd ==
    ASSUME ControlTypeOK, NEW p \in Proc, NEW how, ExitAs(p, how)
    PROVE  Controller!End(p, how)
<1>1. /\ pc' = [pc EXCEPT ![p] = "done"]
      /\ exit' = [exit EXCEPT ![p] = how]
      /\ UNCHANGED <<cmd, opts, curr>>
  BY DEF ExitAs
<1>2. Stage(p)' = "done"
  BY <1>1, StageElsewhere DEF Stage, ControlTypeOK
<1>3. [q \in Proc |-> Stage(q)]' = [[q \in Proc |-> Stage(q)] EXCEPT ![p] = "done"]
  BY <1>1, <1>2, OthersKeepStage, StageStep
<1> QED BY <1>1, <1>3 DEF Controller!End

\* Every other way to end is one that the controller does not choose.
LEMMA ExitIsDeath ==
    ASSUME ControlTypeOK, ControlInv, NEW p \in Proc, Active(p),
           NEW how \in Deaths, ExitAs(p, how)
    PROVE  Controller!Die(p)
<1>1. Controller!End(p, how)
  BY ExitIsEnd
<1>2. CASE pc[p] \notin FailPoints
  BY <1>1, <1>2, StageSelected DEF Controller!Die, Controller!InState, StateOf, Deaths
<1>3. CASE pc[p] \in FailPoints
  BY <1>1, <1>3, StageElsewhere DEF Controller!Die, Stage, Deaths
<1> QED BY <1>2, <1>3

\* After the CleanUpState of the error branch comes exit(1).
LEMMA ExitIsFailure ==
    ASSUME ControlTypeOK, NEW p \in Proc, pc[p] \in FailPoints, ExitAs(p, "failed")
    PROVE  Controller!Failed(p)
BY ExitIsEnd, StageElsewhere DEF Controller!Failed, Stage

\* update(Finish): exit(0) after the last state, otherwise the next one.
LEMMA FinishIsAdvance ==
    ASSUME ControlTypeOK, ControlInv, NEW p \in Proc, Active(p),
           pc[p] \notin FailPoints, Finish(p)
    PROVE  Controller!Advance(p) \/ Controller!Succeed(p)
<1>1. Stage(p) = Procedure[cmd[p]][curr[p]]
  BY StageSelected DEF StateOf
<1>2. /\ curr[p] \in 1..Len(Procedure[cmd[p]])
      /\ Len(Procedure[cmd[p]]) \in Nat
  BY StateOfType
<1>3. CASE curr[p] >= Len(Procedure[cmd[p]]) /\ ExitAs(p, "finished")
  BY <1>1, <1>2, <1>3, ExitIsEnd DEF Controller!Succeed, Controller!InState
<1>4. CASE curr[p] < Len(Procedure[cmd[p]]) /\ ~(curr[p] >= Len(Procedure[cmd[p]]))
  <2> DEFINE s == Procedure[cmd[p]][curr[p] + 1]
  <2>1. s \in StateNames
    BY <1>2, <1>4, StateOfType, ProcedureType
  <2>2. /\ curr' = [curr EXCEPT ![p] = curr[p] + 1]
        /\ pc' = [pc EXCEPT ![p] = Entry[s]]
        /\ UNCHANGED <<cmd, opts, exit>>
    BY <1>4 DEF Finish
  <2>3. Entry[s] \in PointsOf[s]
    BY <2>1 DEF Entry, PointsOf, StateNames
  <2>4. Stage(p)' = StageOf(Entry[s], s)
    BY <2>2 DEF Stage, ControlTypeOK
  <2> HIDE DEF s
  <2>5. Stage(p)' = s
    BY <2>1, <2>3, <2>4, StageOfState
  <2>6. \A q \in Proc : q # p => Stage(q)' = Stage(q)
    BY <2>2 DEF Stage, ControlTypeOK
  <2>7. [q \in Proc |-> Stage(q)]' = [[q \in Proc |-> Stage(q)] EXCEPT ![p] = s]
    BY <2>5, <2>6, StageStep
  <2> QED BY <1>1, <1>4, <2>2, <2>7 DEF s, Controller!Advance, Controller!InState
<1> QED BY <1>2, <1>3, <1>4 DEF Finish

\* startStateMachine enters the first state.
LEMMA LaunchIsEnter ==
    ASSUME ControlTypeOK, ControlInv, NEW p \in Proc, Launch(p)
    PROVE  Controller!Enter(p)
<1> DEFINE s == Procedure[cmd[p]][1]
<1>1. curr[p] = 1 /\ StateOf(p) = s /\ s \in StateNames
  BY StateOfType DEF Launch, ControlInv, StateOf
<1>2. pc' = [pc EXCEPT ![p] = Entry[s]] /\ UNCHANGED <<cmd, opts, curr, exit>>
  BY DEF Launch, Goto
<1>3. Entry[s] \in PointsOf[s]
  BY <1>1 DEF Entry, PointsOf, StateNames
<1>4. Stage(p)' = StageOf(Entry[s], s)
  BY <1>1, <1>2 DEF Stage, StateOf, ControlTypeOK
<1> HIDE DEF s
<1>5. Stage(p)' = s
  BY <1>1, <1>3, <1>4, StageOfState
<1>6. [q \in Proc |-> Stage(q)]' = [[q \in Proc |-> Stage(q)] EXCEPT ![p] = s]
  BY <1>2, <1>5, OthersKeepStage, StageStep
<1>7. Stage(p) = "new"
  BY StageElsewhere DEF Launch, Stage
<1> QED BY <1>2, <1>6, <1>7 DEF s, Controller!Enter

\* A process waits only in the states that SIGINT can interrupt.
LEMMA WaitingState ==
    ASSUME ControlTypeOK, ControlInv, NEW p \in Proc, Waiting(p)
    PROVE  /\ Active(p) /\ pc[p] \notin FailPoints
           /\ Stage(p) \in {"Init", "Start", "NetworkPrep", "AccountCreation",
                            "ResourceCreation"}
<1>1. Active(p) /\ pc[p] \notin FailPoints
  BY DEF Waiting, AwaitPoints, Active, FailPoints
<1>2. /\ StateOf(p) \in StateNames
      /\ pc[p] \in PointsOf[StateOf(p)]
      /\ Stage(p) = StateOf(p)
  BY <1>1, StageSelected
<1>3. StateOf(p) \notin {"CleanUp", "Stop", "Attach"}
  BY <1>2 DEF Waiting, AwaitPoints, PointsOf
<1> QED BY <1>1, <1>2, <1>3 DEF StateNames

\* The SIGINT handler starts the procedure "stop".
LEMMA InterruptIsInterrupt ==
    ASSUME ControlTypeOK, ControlInv, NEW p \in Proc, Interrupt(p)
    PROVE  Controller!Interrupt(p)
<1>1. Entry[Procedure["stop"][1]] = "stop.kill" /\ Procedure["stop"][1] = "Stop"
  BY ProcedureStates DEF Entry
<1>2. /\ cmd' = [cmd EXCEPT ![p] = "stop"]
      /\ curr' = [curr EXCEPT ![p] = 1]
      /\ pc' = [pc EXCEPT ![p] = "stop.kill"]
      /\ UNCHANGED exit
      /\ Waiting(p)
  BY <1>1 DEF Interrupt
<1>3. Stage(p)' = "Stop"
  <2>1. Stage(p)' = StageOf("stop.kill", "Stop")
    BY <1>1, <1>2 DEF Stage, ControlTypeOK
  <2>2. "stop.kill" \in PointsOf["Stop"] /\ "Stop" \in StateNames
    BY DEF PointsOf, StateNames
  <2> QED BY <2>1, <2>2, StageOfState
<1>4. \A q \in Proc : q # p => Stage(q)' = Stage(q)
  BY <1>2 DEF Stage, ControlTypeOK
<1>5. [q \in Proc |-> Stage(q)]' = [[q \in Proc |-> Stage(q)] EXCEPT ![p] = "Stop"]
  BY <1>3, <1>4, StageStep
<1>6. Stage(p) = Procedure[cmd[p]][curr[p]]
  BY <1>2, WaitingState, StageSelected DEF StateOf
<1> QED BY <1>1, <1>2, <1>5, <1>6, WaitingState
    DEF Controller!Interrupt, Controller!InState

\* What leaves the control of the processes alone is a stutter.
LEMMA ControlStutters ==
    ASSUME UNCHANGED <<cmd, curr, pc, exit>>
    PROVE  UNCHANGED Controller!vars
BY DEF Controller!vars, Stage

-----------------------------------------------------------------------------

\* The part of StageSelected that a move within a state needs.
LEMMA SelectedPoint ==
    ASSUME ControlTypeOK, ControlInv, NEW p \in Proc, Active(p),
           pc[p] \notin FailPoints
    PROVE  StateOf(p) \in StateNames /\ pc[p] \in PointsOf[StateOf(p)]
BY StageSelected

\* Every action of a process is a step of its controller or a stutter.
LEMMA ProcessRefines ==
    ASSUME ControlTypeOK, ControlInv, NEW p \in Proc, ProcessAction(p)
    PROVE  Controller!Next \/ UNCHANGED Controller!vars
<1> DEFINE Step == \/ Controller!Enter(p) \/ Controller!Advance(p)
                   \/ Controller!Succeed(p) \/ Controller!Error(p)
                   \/ Controller!Failed(p) \/ Controller!Die(p)
                   \/ Controller!Interrupt(p)
<1> SUFFICES Step \/ UNCHANGED Controller!vars
  BY DEF Controller!Next
<1>1. CASE Launch(p)
  BY <1>1, LaunchIsEnter
<1>2. CASE InitCheck(p)
  BY <1>2, SelectedPoint, GotoStutters, FailIsError, ExitIsDeath
  DEF InitCheck, Crash, Active, FailPoints, PointsOf, StateNames, Deaths
<1>3. CASE InitPorts(p)
  BY <1>3, SelectedPoint, GotoStutters, ExitIsDeath
  DEF InitPorts, Active, FailPoints, PointsOf, StateNames, Deaths
<1>4. CASE PrepareWorkDirectory(p)
  BY <1>4, SelectedPoint, GotoStutters
  DEF PrepareWorkDirectory, Active, FailPoints, PointsOf, StateNames
<1>5. CASE ConfigureNodeProperties(p)
  BY <1>5, SelectedPoint, GotoStutters, ExitIsDeath
  DEF ConfigureNodeProperties, Crash, Active, FailPoints, PointsOf, StateNames, Deaths
<1>6. CASE ConfigureMirrorNodeProperties(p)
  BY <1>6, FinishIsAdvance, SelectedPoint, ExitIsDeath
  DEF ConfigureMirrorNodeProperties, Crash, Active, FailPoints, Deaths
<1>7. CASE CheckDockerImages(p)
  BY <1>7, SelectedPoint, GotoStutters
  DEF CheckDockerImages, Active, FailPoints, PointsOf, StateNames
<1>8. CASE StartUp(p)
  BY <1>8, SelectedPoint, GotoStutters, ExitIsDeath
  DEF StartUp, ComposeUp, Active, FailPoints, PointsOf, StateNames, Deaths
<1>9. CASE RecoveryKill(p)
  BY <1>9, SelectedPoint, GotoStutters
  DEF RecoveryKill, Active, FailPoints, PointsOf, StateNames
<1>10. CASE RecoveryDown(p)
  BY <1>10, SelectedPoint, GotoStutters
  DEF RecoveryDown, Active, FailPoints, PointsOf, StateNames
<1>11. CASE RecoveryClean(p)
  BY <1>11, SelectedPoint, GotoStutters
  DEF RecoveryClean, Active, FailPoints, PointsOf, StateNames
<1>12. CASE StartUpAgain(p)
  BY <1>12, SelectedPoint, GotoStutters, ExitIsDeath
  DEF StartUpAgain, ComposeUp, Active, FailPoints, PointsOf, StateNames, Deaths
<1>13. CASE WaitForMirror(p)
  BY <1>13, SelectedPoint, GotoStutters, FailIsError
  DEF WaitForMirror, WaitForFiringUp, Active, FailPoints, PointsOf, StateNames
<1>14. CASE WaitForNode(p)
  BY <1>14, FinishIsAdvance, SelectedPoint, FailIsError
  DEF WaitForNode, WaitForFiringUp, Active, FailPoints, PointsOf, StateNames
<1>15. CASE ImportFees(p)
  BY <1>15, SelectedPoint, GotoStutters, ExitIsDeath
  DEF ImportFees, ImportFile, Crash, Active, FailPoints, PointsOf, StateNames, Deaths
<1>16. CASE ImportExchangeRates(p)
  BY <1>16, SelectedPoint, GotoStutters, ExitIsDeath
  DEF ImportExchangeRates, ImportFile, Crash, Active, FailPoints, PointsOf, StateNames, Deaths
<1>17. CASE WaitForTopic(p)
  BY <1>17, FinishIsAdvance, SelectedPoint, GotoStutters
  DEF WaitForTopic, Active, FailPoints, PointsOf, StateNames
<1>18. CASE BeginAccounts(p)
  BY <1>18, FinishIsAdvance, SelectedPoint, GotoStutters
  DEF BeginAccounts, Active, FailPoints, PointsOf, StateNames
<1>19. CASE CreateAccount(p)
  BY <1>19, ControlStutters DEF CreateAccount
<1>20. CASE AccountFails(p)
  BY <1>20, ExitIsDeath
  DEF AccountFails, Crash, Waiting, AwaitPoints, Active, FailPoints, Deaths
<1>21. CASE AccountsCreated(p)
  BY <1>21, FinishIsAdvance
  DEF AccountsCreated, Active, FailPoints
<1>22. CASE BeginResources(p)
  BY <1>22, FinishIsAdvance, SelectedPoint, GotoStutters
  DEF BeginResources, Active, FailPoints, PointsOf, StateNames
<1>23. CASE CreateResources(p)
  BY <1>23, FinishIsAdvance, SelectedPoint, ExitIsDeath
  DEF CreateResources, Crash, Active, FailPoints, Deaths
<1>24. CASE RevertNodeProperties(p)
  BY <1>24, SelectedPoint, GotoStutters
  DEF RevertNodeProperties, Active, FailPoints, PointsOf, StateNames
<1>25. CASE RevertMirrorNodeProperties(p)
  BY <1>25, FinishIsAdvance, ExitIsFailure
  DEF RevertMirrorNodeProperties, Active, FailPoints
<1>26. CASE AttachState(p)
  BY <1>26, FinishIsAdvance
  DEF AttachState, Active, FailPoints
<1>27. CASE StopKill(p)
  BY <1>27, SelectedPoint, GotoStutters
  DEF StopKill, Active, FailPoints, PointsOf, StateNames
<1>28. CASE StopDown(p)
  BY <1>28, SelectedPoint, GotoStutters
  DEF StopDown, Active, FailPoints, PointsOf, StateNames
<1>29. CASE StopClean(p)
  BY <1>29, FinishIsAdvance
  DEF StopClean, Active, FailPoints
<1>30. CASE Interrupt(p)
  BY <1>30, InterruptIsInterrupt
<1>31. CASE Kill(p)
  BY <1>31, SelectedPoint, ExitIsDeath
  DEF Kill, Active, FailPoints, Deaths
<1>32. CASE Drain(p)
  BY <1>32, SelectedPoint, ExitIsDeath
  DEF Drain, Active, FailPoints, Deaths
<1> QED BY <1>1, <1>2, <1>3, <1>4, <1>5, <1>6, <1>7, <1>8, <1>9, <1>10, <1>11, <1>12, <1>13, <1>14, <1>15, <1>16, <1>17, <1>18, <1>19, <1>20, <1>21, <1>22, <1>23, <1>24, <1>25, <1>26, <1>27, <1>28, <1>29, <1>30, <1>31, <1>32
   DEF ProcessAction

\* Every step of LocalNode is a step of Lifecycle or a stutter.
LEMMA StepRefines ==
    Inv /\ [Next]_vars => [Controller!Next]_(Controller!vars)
<1> SUFFICES ASSUME Inv, [Next]_vars
             PROVE  Controller!Next \/ UNCHANGED Controller!vars
  OBVIOUS
<1>1. ASSUME NEW p \in Proc, Work(p) \/ Disturb(p)
      PROVE  Controller!Next \/ UNCHANGED Controller!vars
  BY <1>1, ActionsOfProcess, ProcessRefines DEF Inv, TypeOK
<1>2. CASE Environment
  BY <1>2, ControlStutters
  DEF Environment, BootNode, BootMirror, Boot, MonitorCreatesTopic, StreamRecords,
      control
<1>3. CASE UNCHANGED vars
  BY <1>3, ControlStutters DEF vars, control
<1> QED BY <1>1, <1>2, <1>3 DEF Next, Done

\* No invocation has entered a state.
LEMMA InitRefines == Init => Controller!Init
<1> SUFFICES ASSUME Init PROVE Controller!Init
  OBVIOUS
<1>1. cmd \in [Proc -> DOMAIN Procedure]
  BY InitTypeOK DEF TypeOK, ControlTypeOK
<1>2. \A p \in Proc : Stage(p) = "new"
  BY StageElsewhere DEF Init, Stage
<1> QED BY <1>1, <1>2 DEF Init, Controller!Init

\* StateController's promise: in every interleaving and under every fault the
\* states of a procedure run in order, and success is the end of the last one.
THEOREM LifecycleCorrect == Spec => FollowsLifecycle
BY InitRefines, StepRefines, InvCorrect, PTL
DEF Spec, FollowsLifecycle, Controller!Spec

-----------------------------------------------------------------------------
(* The refinement of ComposeProject: what LocalNode takes Docker to be. The  *)
(* volumes hold the ledger's entities and the mirror node's database.        *)

Volumes == IF entities = <<>> /\ fees = {} THEN "empty" ELSE "filled"

Project == INSTANCE ComposeProject WITH containers <- containers, volumes <- Volumes

\* What listens is in a container that runs.
BootedInv == booted # {} => containers \in {"partial", "up"}

\* A step that neither starts nor stops containers, and writes nothing.
Idle ==
    /\ UNCHANGED <<containers, entities, fees>>
    /\ booted' = booted \/ containers \in {"partial", "up"}

LEMMA IdleRefines == ASSUME BootedInv, Idle PROVE BootedInv' /\ UNCHANGED Project!vars
BY DEF BootedInv, Idle, Project!vars, Volumes

LEMMA IdleSteps ==
    ASSUME NEW p \in Proc,
           \/ Launch(p) \/ InitState(p) \/ CheckDockerImages(p) \/ RecoveryClean(p)
           \/ WaitForMirror(p) \/ WaitForNode(p) \/ WaitForTopic(p) \/ BeginAccounts(p)
           \/ AccountFails(p) \/ AccountsCreated(p) \/ BeginResources(p) \/ CleanUpState(p)
           \/ AttachState(p) \/ StopClean(p) \/ Disturb(p)
    PROVE  Idle
<1>1. CASE Launch(p) \/ InitState(p)
  BY <1>1 DEF Launch, InitState, InitCheck, InitPorts, PrepareWorkDirectory,
     ConfigureNodeProperties, ConfigureMirrorNodeProperties, docker, data, Idle
<1>2. CASE CheckDockerImages(p) \/ RecoveryClean(p) \/ WaitForMirror(p) \/ WaitForNode(p)
  BY <1>2 DEF CheckDockerImages, RecoveryClean, WaitForMirror, WaitForNode, WaitForFiringUp,
     docker, data, Idle
<1>3. CASE WaitForTopic(p) \/ BeginAccounts(p) \/ AccountFails(p) \/ AccountsCreated(p)
           \/ BeginResources(p)
  BY <1>3 DEF WaitForTopic, BeginAccounts, AccountFails, AccountsCreated, BeginResources,
     docker, data, Idle
<1>4. CASE CleanUpState(p) \/ AttachState(p) \/ StopClean(p) \/ Disturb(p)
  BY <1>4 DEF CleanUpState, RevertNodeProperties, RevertMirrorNodeProperties, AttachState,
     StopClean, Disturb, Interrupt, Kill, Drain, docker, data, Idle
<1> QED BY <1>1, <1>2, <1>3, <1>4

\* A container that runs, and only such a one, adds to the volumes.
LEMMA Writes ==
    ASSUME TypeOK, BootedInv, booted # {}, UNCHANGED docker,
           \/ fees' = fees /\ \E x : entities' = Append(entities, x)
           \/ UNCHANGED entities /\ fees \subseteq fees'
    PROVE  BootedInv' /\ [Project!Write]_(Project!vars)
<1>1. BootedInv' /\ containers' = containers /\ containers \in {"partial", "up"}
  BY DEF BootedInv, docker
<1>2. CASE fees' = fees /\ \E x : entities' = Append(entities, x)
  <2>1. PICK x : entities' = Append(entities, x)
    BY <1>2
  <2>2. entities' # <<>>
    BY <2>1 DEF TypeOK, DataTypeOK
  <2> QED BY <1>1, <2>2 DEF Project!Write, Volumes
<1>3. CASE UNCHANGED entities /\ fees \subseteq fees'
  <2>1. CASE fees' = fees
    BY <1>1, <1>3, <2>1 DEF Project!vars, Volumes
  <2>2. CASE fees' # fees
    <3>1. fees' # {}
      BY <1>3, <2>2
    <3> QED BY <1>1, <3>1 DEF Project!Write, Volumes
  <2> QED BY <2>1, <2>2
<1> QED BY <1>2, <1>3

LEMMA NetworkWrites ==
    ASSUME TypeOK, BootedInv,
           (\E p \in Proc : ImportFees(p) \/ ImportExchangeRates(p) \/ CreateAccount(p)
                            \/ CreateResources(p))
           \/ MonitorCreatesTopic
    PROVE  BootedInv' /\ [Project!Write]_(Project!vars)
<1>1. CASE MonitorCreatesTopic
  <2>1. booted # {}
    BY <1>1 DEF MonitorCreatesTopic, Services
  <2> QED BY <1>1, <2>1, Writes DEF MonitorCreatesTopic
<1>2. ASSUME NEW p \in Proc, ImportFees(p) \/ ImportExchangeRates(p)
      PROVE  BootedInv' /\ [Project!Write]_(Project!vars)
  <2>1. UNCHANGED <<docker, entities>> /\ fees \subseteq fees'
        /\ (booted # {} \/ fees' = fees)
    BY <1>2 DEF ImportFees, ImportExchangeRates, ImportFile
  <2>2. CASE fees' = fees
    <3>1. Idle
      BY <2>1, <2>2 DEF Idle, docker
    <3> QED BY <3>1, IdleRefines
  <2>3. CASE booted # {}
    BY <2>1, <2>3, Writes
  <2> QED BY <2>1, <2>2, <2>3
<1>3. ASSUME NEW p \in Proc, CreateAccount(p) \/ CreateResources(p)
      PROVE  BootedInv' /\ [Project!Write]_(Project!vars)
  <2>1. UNCHANGED <<docker, fees>>
        /\ \/ booted # {} /\ \E x : entities' = Append(entities, x)
           \/ entities' = entities
    BY <1>3 DEF CreateAccount, CreateResources
  <2>2. CASE entities' = entities
    <3>1. Idle
      BY <2>1, <2>2 DEF Idle, docker
    <3> QED BY <3>1, IdleRefines
  <2>3. CASE booted # {} /\ \E x : entities' = Append(entities, x)
    BY <2>1, <2>3, Writes
  <2> QED BY <2>1, <2>2, <2>3
<1> QED BY <1>1, <1>2, <1>3

\* The shell commands: each is a step of the project, or has failed unnoticed.
LEMMA Commands ==
    ASSUME TypeOK, BootedInv, NEW p \in Proc,
           StartUp(p) \/ StartUpAgain(p) \/ RecoveryKill(p) \/ RecoveryDown(p)
           \/ StopKill(p) \/ StopDown(p)
    PROVE  BootedInv' /\ [Project!Next]_(Project!vars)
<1>1. containers \in {"none", "stopped", "partial", "up"}
  BY DEF TypeOK, DockerTypeOK
<1>2. CASE StartUp(p) \/ StartUpAgain(p)
  <2>1. /\ containers' \in {containers, "partial", "up"} /\ booted' = booted
        /\ containers = "up" => containers' = "up"
        /\ UNCHANGED <<entities, fees>>
    BY <1>2 DEF StartUp, StartUpAgain, ComposeUp, data
  <2>2. BootedInv'
    BY <2>1 DEF BootedInv
  <2>3. UNCHANGED Project!vars \/ Project!Up
    BY <1>1, <2>1 DEF Project!vars, Project!Up, Volumes
  <2> QED BY <2>2, <2>3 DEF Project!Next
<1>3. CASE RecoveryKill(p) \/ StopKill(p)
  <2>1. UNCHANGED <<entities, fees>> /\ ComposeKill
    BY <1>3 DEF RecoveryKill, StopKill, data
  <2>2. CASE UNCHANGED docker
    <3>1. Idle
      BY <2>1, <2>2 DEF Idle, docker
    <3> QED BY <3>1, IdleRefines
  <2>3. CASE /\ containers' = IF containers = "none" THEN "none" ELSE "stopped"
             /\ booted' = {}
    <3>1. BootedInv'
      BY <2>3 DEF BootedInv
    <3>2. UNCHANGED Project!vars \/ Project!Kill
      BY <2>1, <2>3 DEF Project!vars, Project!Kill, Volumes
    <3> QED BY <3>1, <3>2 DEF Project!Next
  <2> QED BY <2>1, <2>2, <2>3 DEF ComposeKill
<1>4. CASE RecoveryDown(p) \/ StopDown(p)
  <2>1. ComposeDown
    BY <1>4 DEF RecoveryDown, StopDown
  <2>2. CASE UNCHANGED <<docker, ledger, entities, fees>>
    <3>1. Idle
      BY <2>2 DEF Idle, docker
    <3> QED BY <3>1, IdleRefines
  <2>3. CASE containers' = "none" /\ booted' = {} /\ entities' = <<>> /\ fees' = {}
    BY <2>3 DEF BootedInv, Project!Next, Project!Down, Volumes
  <2> QED BY <2>1, <2>2, <2>3 DEF ComposeDown
<1> QED BY <1>2, <1>3, <1>4

LEMMA ProjectStep ==
    ASSUME TypeOK, BootedInv, [Next]_vars
    PROVE  BootedInv' /\ [Project!Next]_(Project!vars)
<1>1. ASSUME NEW p \in Proc, Work(p) \/ Disturb(p)
      PROVE  BootedInv' /\ [Project!Next]_(Project!vars)
  <2>1. CASE Launch(p) \/ InitState(p) \/ CheckDockerImages(p) \/ RecoveryClean(p)
             \/ WaitForMirror(p) \/ WaitForNode(p) \/ WaitForTopic(p) \/ BeginAccounts(p)
             \/ AccountFails(p) \/ AccountsCreated(p) \/ BeginResources(p) \/ CleanUpState(p)
             \/ AttachState(p) \/ StopClean(p) \/ Disturb(p)
    BY <2>1, IdleSteps, IdleRefines
  <2>2. CASE ImportFees(p) \/ ImportExchangeRates(p) \/ CreateAccount(p) \/ CreateResources(p)
    BY <2>2, NetworkWrites DEF Project!Next
  <2>3. CASE StartUp(p) \/ StartUpAgain(p) \/ RecoveryKill(p) \/ RecoveryDown(p)
             \/ StopKill(p) \/ StopDown(p)
    BY <2>3, Commands
  <2> QED
    BY <1>1, <2>1, <2>2, <2>3 DEF Work, StartState, NetworkPrepState, AccountCreationState,
       ResourceCreationState, StopState
<1>2. CASE MonitorCreatesTopic
  BY <1>2, NetworkWrites DEF Project!Next
<1>3. CASE BootNode \/ BootMirror \/ StreamRecords \/ UNCHANGED vars
  <2>1. Idle
    BY <1>3 DEF BootNode, BootMirror, Boot, StreamRecords, vars, docker, data, Idle
  <2> QED BY <2>1, IdleRefines
<1> QED BY <1>1, <1>2, <1>3 DEF Next, Environment, Done

\* Whatever the invocations do to one another, and whichever commands fail,
\* the volumes of the project are written only while its containers run, and
\* only `down -v` removes containers or empties volumes: LocalNode implements
\* ComposeProject.
THEOREM ComposeProjectCorrect == Spec => Project!Spec
<1>1. Init => BootedInv /\ Project!Init
  BY DEF Init, BootedInv, Project!Init, Volumes
<1>2. TypeOK /\ BootedInv /\ [Next]_vars => BootedInv' /\ [Project!Next]_(Project!vars)
  BY ProjectStep
<1> QED BY <1>1, <1>2, TypeCorrect, PTL DEF Spec, Project!Spec

=============================================================================
