------------------------------- MODULE Batches -------------------------------
(***************************************************************************)
(* What the two creation states promise the StateController: batches of    *)
(* jobs, each batch launched at once and only when the one before it is    *)
(* done.  Finish is emitted when all of them are done, or at once with     *)
(* --async; the first job that fails ends the process, and so does the end *)
(* of the procedure, which waits for none of them.                         *)
(***************************************************************************)
EXTENDS Naturals, Sequences

VARIABLES
    sizes,    \* how many jobs each batch has
    async,    \* --async
    batch,    \* the batch that is under way (0: none yet)
    jobs,     \* its jobs that are not done
    outcome   \* of the state: "new", "pending", "finished", "failed" or "exited"

vars == <<sizes, async, batch, jobs, outcome>>

Init ==
    /\ sizes \in Seq(Nat) /\ sizes # <<>>
    /\ async \in BOOLEAN /\ batch = 0 /\ jobs = 0 /\ outcome = "new"

Alive == outcome \in {"pending", "finished"}

Begin ==
    /\ outcome = "new"
    /\ outcome' = IF async THEN "finished" ELSE "pending"
    /\ batch' = 1 /\ jobs' = sizes[1]
    /\ UNCHANGED <<sizes, async>>

Do ==
    /\ Alive /\ jobs > 0
    /\ jobs' = jobs - 1
    /\ UNCHANGED <<sizes, async, batch, outcome>>

NextBatch ==
    /\ Alive /\ jobs = 0 /\ batch < Len(sizes)
    /\ batch' = batch + 1 /\ jobs' = sizes[batch + 1]
    /\ UNCHANGED <<sizes, async, outcome>>

\* A job that is done can no longer fail.
Fail ==
    /\ Alive /\ jobs > 0
    /\ outcome' = "failed"
    /\ UNCHANGED <<sizes, async, batch, jobs>>

Finish ==
    /\ outcome = "pending" /\ jobs = 0 /\ batch = Len(sizes)
    /\ outcome' = "finished"
    /\ UNCHANGED <<sizes, async, batch, jobs>>

Exit ==
    /\ outcome = "finished"
    /\ outcome' = "exited"
    /\ UNCHANGED <<sizes, async, batch, jobs>>

Next == Begin \/ Do \/ NextBatch \/ Fail \/ Finish \/ Exit

Spec == Init /\ [][Next]_vars
=============================================================================
