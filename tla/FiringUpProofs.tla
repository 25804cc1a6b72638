---------------------------- MODULE FiringUpProofs ----------------------------
(***************************************************************************)
(* The polling loop, for any number of attempts, counted or not, any delay *)
(* of the debounced log and whatever the port and the sockets do.          *)
(***************************************************************************)
EXTENDS FiringUp, TLAPS

Types ==
    /\ state \in {"called", "asleep", "resolved", "thrown"}
    /\ counted \in BOOLEAN /\ isReady \in BOOLEAN /\ served \in BOOLEAN
    /\ port \in {"closed", "silent", "ready"}
    /\ retries \in Int /\ elapsed \in Nat /\ readyAt \in Nat
    /\ opening \in Nat /\ open \in Nat
    /\ quiet \in 0..LogDelay
    /\ logged \in Int

\* Attempts and sleeps add up: a round makes one of each, and the last sleep is
\* that of the attempt after which retries is below 0.
RoundInv ==
    /\ state = "called" => elapsed = 0 /\ retries \in {0, Retries} /\ (counted => retries = Retries)
    /\ state # "called" /\ counted =>
        /\ retries \in -1..(Retries - 1)
        /\ elapsed = Retries - 1 - retries + (IF state = "asleep" THEN 0 ELSE 1)
    /\ ~counted => retries = 0 /\ elapsed <= (IF state = "asleep" THEN MaxElapsed ELSE MaxElapsed + 1)

\* Every socket is of a round, and the last round has none of its own yet.
SocketInv ==
    /\ opening + open <= elapsed + (IF state = "asleep" THEN 1 ELSE 0)
    /\ state = "called" => opening = 0 /\ open = 0

\* An answer is seen at the end of the sleep in which it came.
AnswerInv ==
    /\ readyAt <= elapsed
    /\ isReady => state # "called"
    /\ isReady /\ state = "asleep" => readyAt = elapsed
    /\ port = "ready" => served

\* What is left of the delay covers the time since the last line.
LogInv ==
    /\ logged = 0 - LogDelay \/ logged \in 0..elapsed
    /\ logged + LogDelay <= elapsed + quiet

IInv ==
    Types /\ RoundInv /\ SocketInv /\ AnswerInv /\ LogInv /\ GivesUpLast /\ ReadyWasServed

-----------------------------------------------------------------------------

LEMMA Constants == Retries \in Nat /\ LogDelay \in Nat /\ LogDelay > 0 /\ MaxElapsed \in Nat
  BY RetriesAssumption, LogDelayAssumption, MaxElapsedAssumption

LEMMA InitInv == Init => IInv
<1> SUFFICES ASSUME Init PROVE IInv
  OBVIOUS
<1>1. served \in BOOLEAN /\ (port = "ready" => served)
  BY DEF Init
<1>2. Types
  <2>1. retries \in Int
    BY Constants DEF Init
  <2>2. quiet \in 0..LogDelay /\ logged \in Int
    BY Constants DEF Init
  <2> QED
    BY <1>1, <2>1, <2>2 DEF Init, Types
<1>3. LogInv
  BY Constants DEF Init, LogInv
<1>4. RoundInv /\ SocketInv
  BY Constants DEF Init, RoundInv, SocketInv
<1>5. AnswerInv
  BY <1>1 DEF Init, AnswerInv
<1>6. GivesUpLast /\ ReadyWasServed
  BY DEF Init, GivesUpLast, ReadyWasServed
<1> QED
  BY <1>2, <1>3, <1>4, <1>5, <1>6 DEF IInv

\* The bounds of the type follow from how attempts, sleeps and sockets add up.
LEMMA InvType == IInv => TypeOK
<1> SUFFICES ASSUME IInv PROVE TypeOK
  OBVIOUS
<1>1. retries \in -1..Retries
  BY Constants DEF IInv, Types, RoundInv
<1>2. Rounds \in Nat /\ elapsed <= Rounds /\ (state = "asleep" => elapsed + 1 <= Rounds)
  BY Constants DEF IInv, Types, RoundInv, Rounds
<1>3. opening <= Rounds /\ open <= Rounds /\ opening + open <= elapsed + 1
  BY <1>2 DEF IInv, Types, SocketInv
<1>4. readyAt <= Rounds
  BY <1>2 DEF IInv, Types, AnswerInv
<1>5. logged \in {0 - LogDelay} \cup (0..Rounds)
  BY <1>2, Constants DEF IInv, Types, LogInv
<1>6. {elapsed, readyAt, opening, open} \subseteq 0..Rounds
  BY <1>2, <1>3, <1>4 DEF IInv, Types
<1> QED
  BY <1>1, <1>3, <1>5, <1>6 DEF IInv, Types, TypeOK

-----------------------------------------------------------------------------

LEMMA CallStep == ASSUME IInv, Call PROVE IInv'
<1> USE DEF Call, Connect, log
<1>1. Types'
  BY Constants DEF IInv, Types
<1>2. RoundInv'
  BY Constants DEF IInv, Types, RoundInv
<1>3. SocketInv' /\ AnswerInv' /\ LogInv'
  BY Constants DEF IInv, Types, SocketInv, AnswerInv, LogInv
<1>4. GivesUpLast' /\ ReadyWasServed'
  BY DEF IInv, GivesUpLast, ReadyWasServed
<1> QED
  BY <1>1, <1>2, <1>3, <1>4 DEF IInv

\* The timer of the log goes on whatever else happens.
LEMMA PassStep ==
  ASSUME IInv, Pass PROVE LogInv' /\ quiet' \in 0..LogDelay /\ elapsed' = elapsed + 1 /\ logged' = logged
  BY Constants DEF Pass, IInv, Types, LogInv

\* It throws after the last attempt, and an answer it has not seen came in the
\* sleep before that.
LEMMA WakeStep == ASSUME IInv, Wake PROVE IInv'
<1>1. LogInv' /\ quiet' \in 0..LogDelay /\ elapsed' = elapsed + 1 /\ logged' = logged
  BY PassStep DEF Wake
<1>2. state = "asleep"
  BY DEF Wake
<1>3. CASE \E how \in {"thrown", "resolved"} : Ends(how) /\ (how = "thrown" => RunOut)
  <2>1. PICK how \in {"thrown", "resolved"} : Ends(how) /\ (how = "thrown" => RunOut)
    BY <1>3
  <2>2. /\ state' = how
        /\ UNCHANGED <<counted, retries, isReady, readyAt, opening, open, port, served>>
    BY <2>1 DEF Ends, sockets
  <2>3. Types'
    BY <1>1, <2>2 DEF IInv, Types
  <2>4. RoundInv'
    BY <1>1, <1>2, <2>2, Constants DEF IInv, Types, RoundInv
  <2>5. SocketInv' /\ AnswerInv' /\ ReadyWasServed'
    BY <1>1, <1>2, <2>2 DEF IInv, Types, SocketInv, AnswerInv, ReadyWasServed
  <2>6. GivesUpLast'
    BY <1>1, <1>2, <2>1, <2>2, Constants
    DEF IInv, Types, RoundInv, AnswerInv, GivesUpLast, RunOut
  <2> QED
    BY <1>1, <2>3, <2>4, <2>5, <2>6 DEF IInv
<1>4. CASE ~RunOut /\ ~isReady /\ Again
  <2>1. /\ state' = "asleep" /\ opening' = opening + 1
        /\ retries' = (IF counted THEN retries - 1 ELSE retries)
        /\ counted \/ elapsed < MaxElapsed
        /\ UNCHANGED <<counted, isReady, readyAt, open, port, served>>
    BY <1>4 DEF Again, Connect
  <2>2. Types'
    BY <1>1, <2>1 DEF IInv, Types
  <2>3. RoundInv'
    BY <1>1, <1>2, <1>4, <2>1, Constants DEF IInv, Types, RoundInv, RunOut
  <2>4. SocketInv' /\ AnswerInv'
    BY <1>1, <1>2, <1>4, <2>1 DEF IInv, Types, SocketInv, AnswerInv
  <2>5. GivesUpLast' /\ ReadyWasServed'
    BY <2>1 DEF IInv, GivesUpLast, ReadyWasServed
  <2> QED
    BY <1>1, <2>2, <2>3, <2>4, <2>5 DEF IInv
<1> QED
  BY <1>3, <1>4 DEF Wake

\* The events of the sockets and of the port leave the loop where it is.
LEMMA EventStep ==
  ASSUME IInv, Refused \/ Accepted \/ Data \/ Service PROVE IInv'
<1>1. UNCHANGED <<state, counted, retries, elapsed>>
  BY DEF Refused, Accepted, Data, Service
<1>2. served' \in BOOLEAN /\ (served => served') /\ (port' = "ready" => served')
  <2>1. served \in BOOLEAN /\ (port = "ready" => served)
    BY DEF IInv, Types, AnswerInv
  <2>2. CASE UNCHANGED <<port, served>>
    BY <2>1, <2>2
  <2>3. CASE served' = (served \/ port' = "ready")
    BY <2>3
  <2> QED
    BY <2>2, <2>3 DEF Refused, Accepted, Data, Service
<1>3. Types'
  <2>1. opening' \in Nat /\ open' \in Nat
    BY DEF Refused, Accepted, Data, Service, sockets, IInv, Types
  <2>2. readyAt' \in Nat /\ isReady' \in BOOLEAN
    <3>1. \/ UNCHANGED <<isReady, readyAt>>
          \/ isReady' = TRUE /\ readyAt' = elapsed
      BY DEF Refused, Accepted, Data, Service
    <3> QED
      BY <3>1 DEF IInv, Types
  <2>3. quiet' \in 0..LogDelay /\ logged' \in Int
    BY Constants DEF Refused, Accepted, Data, Service, log, IInv, Types
  <2>4. port' \in {"closed", "silent", "ready"}
    BY DEF Refused, Accepted, Data, Service, IInv, Types
  <2> QED
    BY <1>1, <1>2, <2>1, <2>3, <2>4, <2>2 DEF IInv, Types
<1>4. RoundInv'
  BY <1>1 DEF IInv, RoundInv
<1>5. SocketInv'
  BY <1>1 DEF Refused, Accepted, Data, Service, sockets, IInv, Types, SocketInv
<1>6. AnswerInv' /\ ReadyWasServed'
  <2>1. CASE UNCHANGED <<isReady, readyAt>>
    BY <1>1, <1>2, <2>1 DEF IInv, AnswerInv, ReadyWasServed
  <2>2. CASE Data
    BY <1>1, <1>2, <2>2 DEF Data, IInv, Types, SocketInv, AnswerInv, ReadyWasServed
  <2> QED
    BY <2>1, <2>2 DEF Refused, Accepted, Service
<1>7. LogInv'
  BY <1>1, Constants DEF Refused, Accepted, Data, Service, log, IInv, Types, LogInv
<1>8. GivesUpLast'
  BY <1>1, Constants DEF Refused, Accepted, Data, Service, IInv, Types, RoundInv, GivesUpLast
<1> QED
  BY <1>3, <1>4, <1>5, <1>6, <1>7, <1>8 DEF IInv

LEMMA StutterStep == ASSUME IInv, UNCHANGED vars PROVE IInv'
  BY DEF vars, sockets, log, IInv, Types, RoundInv, SocketInv, AnswerInv, LogInv,
         GivesUpLast, ReadyWasServed

LEMMA NextInv == IInv /\ [Next]_vars => IInv'
  BY CallStep, WakeStep, EventStep, StutterStep DEF Next

\* The strengthening of the invariants, inductive.
LEMMA SpecInv == Spec => []IInv
  BY InitInv, NextInv, PTL DEF Spec

-----------------------------------------------------------------------------

\* Every variable has its type: waitForFiringUp never makes more than one
\* connection an attempt, which it never closes.
THEOREM TypeCorrect == Spec => []TypeOK
  BY InvType, SpecInv, PTL

\* A published port with nothing behind it never passes for a service.
THEOREM ReadyWasServedCorrect == Spec => []ReadyWasServed
<1>1. IInv => ReadyWasServed
  BY DEF IInv
<1> QED
  BY <1>1, SpecInv, PTL

\* waitForFiringUp throws only after all its attempts, and never when an answer
\* has come before the last sleep.
THEOREM GivesUpLastCorrect == Spec => []GivesUpLast
<1>1. IInv => GivesUpLast
  BY DEF IInv
<1> QED
  BY <1>1, SpecInv, PTL

\* The debounced log speaks at most once per delay.
THEOREM LogsSpacedCorrect == Spec => LogsSpaced
<1>1. IInv /\ [Next]_vars => [logged' # logged => logged' >= logged + LogDelay]_vars
  <2> SUFFICES ASSUME IInv, [Next]_vars, logged' # logged PROVE logged' >= logged + LogDelay
    OBVIOUS
  <2>1. Refused /\ quiet = 0 /\ logged' = elapsed
    BY DEF Next, Call, Wake, Pass, Refused, Accepted, Data, Service, vars, log
  <2> QED
    BY <2>1, Constants DEF IInv, Types, LogInv
<1> QED
  BY <1>1, SpecInv, PTL DEF Spec, LogsSpaced

=============================================================================
