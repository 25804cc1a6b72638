------------------------------ MODULE FiringUp ------------------------------
(***************************************************************************)
(* ConnectionService.waitForFiringUp: a new connection every 100 ms until  *)
(* one of them has received data or the attempts are used up.  A step is   *)
(* the loop between two sleeps or one event of a socket; time is counted   *)
(* in sleeps.                                                              *)
(***************************************************************************)
EXTENDS Integers

CONSTANTS
    Retries,    \* FIRING_UP_RETRY_ATTEMPTS, 100 by default
    LogDelay,   \* delay of debouncedErrorLog, in sleeps: 5000 ms are 50
    MaxElapsed  \* bound: sleeps looked at when attempts are not counted

ASSUME RetriesAssumption == Retries \in Nat
ASSUME LogDelayAssumption == LogDelay \in Nat \ {0}
ASSUME MaxElapsedAssumption == MaxElapsed \in Nat

VARIABLES
    state,      \* of the call: "called", "asleep", "resolved" or "thrown"
    counted,    \* is FIRING_UP_RETRY_ATTEMPTS a number?
    retries,    \* connections it may still open; below 0 it throws
    elapsed,    \* sleeps that are over
    isReady,    \* has data been received?
    readyAt,    \* when it was first received
    opening,    \* connections not answered yet
    open,       \* connections established, which are never closed
    port,       \* "closed", "silent" (accepts, says nothing) or "ready"
    served,     \* has it been ready since the call?
    quiet,      \* sleeps until the timer of the debounced log fires
    logged      \* when it last logged (-LogDelay: never)

sockets == <<opening, open>>
log == <<quiet, logged>>
vars == <<state, counted, retries, elapsed, isReady, readyAt, sockets, port, served, log>>

Init ==
    /\ state = "called"
    /\ counted \in BOOLEAN
    /\ retries = (IF counted THEN Retries ELSE 0)
    /\ elapsed = 0
    /\ isReady = FALSE /\ readyAt = 0
    /\ opening = 0 /\ open = 0
    /\ port \in {"closed", "silent", "ready"} /\ served = (port = "ready")
    /\ quiet = 0 /\ logged = 0 - LogDelay

\* One round of the loop, up to its sleep: retries-- leaves NaN as it is.
Connect ==
    /\ state' = "asleep"
    /\ opening' = opening + 1
    /\ retries' = (IF counted THEN retries - 1 ELSE retries)
    /\ UNCHANGED <<counted, isReady, readyAt, open, port, served>>

Call ==
    /\ state = "called"
    /\ Connect
    /\ UNCHANGED <<elapsed, log>>

\* Time for the debounced log: its timer re-arms it.
Pass ==
    /\ elapsed' = elapsed + 1
    /\ quiet' = IF quiet = 0 THEN 0 ELSE quiet - 1
    /\ UNCHANGED logged

Ends(how) ==
    /\ state' = how
    /\ UNCHANGED <<counted, retries, isReady, readyAt, sockets, port, served>>

\* The next round; the bound is one of the model, not of the code.
Again == (counted \/ elapsed < MaxElapsed) /\ Connect

\* Mutant of Wake: gives up one attempt too early.
Wake_TooEarly ==
    /\ state = "asleep"
    /\ Pass
    /\ \/ counted /\ retries <= 0 /\ Ends("thrown")
       \/ ~(counted /\ retries <= 0) /\ isReady /\ Ends("resolved")
       \/ ~(counted /\ retries <= 0) /\ ~isReady /\ Again

\* Mutant of Wake: one attempt too many.
Wake_TooLate ==
    /\ state = "asleep"
    /\ Pass
    /\ \/ counted /\ retries < -1 /\ Ends("thrown")
       \/ ~(counted /\ retries < -1) /\ isReady /\ Ends("resolved")
       \/ ~(counted /\ retries < -1) /\ ~isReady /\ Again

\* Mutant of Wake: without a number to count, the answer is not looked at.
Wake_NumberFirst ==
    /\ state = "asleep"
    /\ Pass
    /\ \/ counted /\ retries < 0 /\ Ends("thrown")
       \/ counted /\ retries >= 0 /\ isReady /\ Ends("resolved")
       \/ (counted => retries >= 0 /\ ~isReady) /\ Again

RunOut == counted /\ retries < 0

\* After the sleep: the attempts are looked at before isReady is. NaN is never
\* below 0.
Wake ==
    /\ state = "asleep"
    /\ Pass
    /\ \/ RunOut /\ Ends("thrown")
       \/ ~RunOut /\ isReady /\ Ends("resolved")
       \/ ~RunOut /\ ~isReady /\ Again

\* Mutant of Refused: the log is not debounced.
Refused_LogsAlways ==
    /\ opening > 0 /\ port = "closed"
    /\ opening' = opening - 1
    /\ quiet' = LogDelay /\ logged' = elapsed
    /\ UNCHANGED <<state, counted, retries, elapsed, isReady, readyAt, open, port, served>>

\* 'error' with ECONNREFUSED: logged unless the debounced log is quiet.
Refused ==
    /\ opening > 0 /\ port = "closed"
    /\ opening' = opening - 1
    /\ \/ quiet = 0 /\ quiet' = LogDelay /\ logged' = elapsed
       \/ quiet > 0 /\ UNCHANGED log
    /\ UNCHANGED <<state, counted, retries, elapsed, isReady, readyAt, open, port, served>>

\* Mutant of Accepted: takes an established connection for a service.
Accepted_IsReady ==
    /\ opening > 0 /\ port # "closed"
    /\ opening' = opening - 1 /\ open' = open + 1
    /\ isReady' = TRUE
    /\ readyAt' = IF isReady THEN readyAt ELSE elapsed
    /\ UNCHANGED <<state, counted, retries, elapsed, port, served, log>>

\* The connection is established; nobody listens for that event.
Accepted ==
    /\ opening > 0 /\ port # "closed"
    /\ opening' = opening - 1 /\ open' = open + 1
    /\ UNCHANGED <<state, counted, retries, elapsed, isReady, readyAt, port, served, log>>

\* 'data': the service behind the port has said something.
Data ==
    /\ open > 0 /\ port = "ready" /\ ~isReady
    /\ isReady' = TRUE /\ readyAt' = elapsed
    /\ UNCHANGED <<state, counted, retries, elapsed, sockets, port, served, log>>

\* Docker publishes the port before the service behind it listens; a service
\* that stops takes its connections with it.
Service ==
    /\ \/ port = "closed" /\ port' = "silent" /\ open' = open
       \/ port = "silent" /\ port' = "ready" /\ open' = open
       \/ port # "closed" /\ port' = "closed" /\ open' = 0
    /\ served' = (served \/ port' = "ready")
    /\ UNCHANGED <<state, counted, retries, elapsed, isReady, readyAt, opening, log>>

Settled == state \in {"resolved", "thrown"}

Next ==
    \/ Call \/ Wake
    \/ Refused \/ Accepted \/ Data
    \/ Service

Spec == Init /\ [][Next]_vars

\* setTimeout fires: nothing is assumed of the port and the connections.
FairSpec == Spec /\ WF_vars(Call) /\ WF_vars(Wake)

-----------------------------------------------------------------------------
(* Properties *)

Rounds == IF counted THEN Retries + 1 ELSE MaxElapsed + 1

\* Every variable has its type; a round makes one connection, and of those
\* answered with an error none is still held.
TypeOK ==
    /\ state \in {"called", "asleep", "resolved", "thrown"}
    /\ counted \in BOOLEAN
    /\ retries \in -1..Retries
    /\ opening + open <= elapsed + 1
    /\ isReady \in BOOLEAN
    /\ {elapsed, readyAt, opening, open} \subseteq 0..Rounds
    /\ port \in {"closed", "silent", "ready"}
    /\ served \in BOOLEAN
    /\ quiet \in 0..LogDelay
    /\ logged \in {0 - LogDelay} \cup (0..Rounds)

\* A port that Docker has published but behind which no service has spoken
\* yet never passes for a service that is ready.
ReadyWasServed == isReady => served

\* The call is given up only after all its attempts, and an answer that comes
\* before the last of them is never lost.
GivesUpLast ==
    state = "thrown" =>
        /\ counted /\ elapsed = Retries + 1
        /\ isReady => readyAt >= Retries

\* While the port is refused the user is told so, but at most once per delay.
LogsSpaced == [][logged' # logged => logged' >= logged + LogDelay]_vars

\* The call settles, whatever the port does, if its attempts are counted; an
\* answer ends it in any case, also when FIRING_UP_RETRY_ATTEMPTS is not a
\* number and nothing else does.
Settles == counted \/ isReady ~> Settled

=============================================================================
