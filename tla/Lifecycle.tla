----------------------------- MODULE Lifecycle -----------------------------
(***************************************************************************)
(* What StateController promises of every invocation: it enters the states *)
(* of its procedure one by one, in the order of StateData, and exits with  *)
(* success only after the last one; an error leads through CleanUpState to *)
(* exit code 1; SIGINT, in a state that waits, starts the procedure "stop".*)
(***************************************************************************)
EXTENDS Naturals, Sequences

CONSTANTS
    Proc,           \* the invocations
    Procedure,      \* the states of each command
    Interruptible,  \* the states that wait for something
    Deaths          \* the ways to end that the controller does not choose

VARIABLES
    cmd,    \* the procedure that the invocation is running
    at,     \* the number of its current state
    stage,  \* that state, "revert" after an error, "new" or "done"
    exit    \* how it ended

vars == <<cmd, at, stage, exit>>

Init ==
    /\ cmd \in [Proc -> DOMAIN Procedure]
    /\ at = [p \in Proc |-> 1]
    /\ stage = [p \in Proc |-> "new"]
    /\ exit = [p \in Proc |-> "none"]

InState(p) == stage[p] = Procedure[cmd[p]][at[p]]

Enter(p) ==
    /\ stage[p] = "new"
    /\ stage' = [stage EXCEPT ![p] = Procedure[cmd[p]][1]]
    /\ UNCHANGED <<cmd, at, exit>>

Advance(p) ==
    /\ InState(p) /\ at[p] < Len(Procedure[cmd[p]])
    /\ at' = [at EXCEPT ![p] = @ + 1]
    /\ stage' = [stage EXCEPT ![p] = Procedure[cmd[p]][at[p] + 1]]
    /\ UNCHANGED <<cmd, exit>>

End(p, how) ==
    /\ stage' = [stage EXCEPT ![p] = "done"]
    /\ exit' = [exit EXCEPT ![p] = how]
    /\ UNCHANGED <<cmd, at>>

Succeed(p) == InState(p) /\ at[p] = Len(Procedure[cmd[p]]) /\ End(p, "finished")

Error(p) ==
    /\ InState(p)
    /\ stage' = [stage EXCEPT ![p] = "revert"]
    /\ UNCHANGED <<cmd, at, exit>>

Failed(p) == stage[p] = "revert" /\ End(p, "failed")

Die(p) ==
    /\ InState(p) \/ stage[p] = "revert"
    /\ \E how \in Deaths : End(p, how)

Interrupt(p) ==
    /\ InState(p) /\ stage[p] \in Interruptible
    /\ cmd' = [cmd EXCEPT ![p] = "stop"]
    /\ at' = [at EXCEPT ![p] = 1]
    /\ stage' = [stage EXCEPT ![p] = Procedure["stop"][1]]
    /\ UNCHANGED exit

Next ==
    \E p \in Proc :
        \/ Enter(p) \/ Advance(p) \/ Succeed(p)
        \/ Error(p) \/ Failed(p) \/ Die(p) \/ Interrupt(p)

Spec == Init /\ [][Next]_vars
=============================================================================
