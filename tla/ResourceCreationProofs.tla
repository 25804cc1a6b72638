------------------------ MODULE ResourceCreationProofs ------------------------
(***************************************************************************)
(* The order of the batches, what their transactions name and what a state *)
(* that has finished has created, for any contents of                      *)
(* initialResources.json, awaited or not, with any errors.  At the end,    *)
(* what keeps it from going on or waiting for ever.                        *)
(***************************************************************************)
EXTENDS ResourceCreation, FiniteSetTheorems, WellFoundedInduction, TLAPS

Transactions ==
    [kind : {"token", "account", "associate", "mint"}, task : Tasks, ids : SUBSET Nat]

Same(x, y) == x.kind = y.kind /\ x.task = y.task

Awaits == {"receipt", "info", "associating", "minting"}

\* The await at which a task is while its transaction of a kind is on its way.
Place(kind) ==
    IF kind \in {"token", "account"} THEN "receipt"
    ELSE IF kind = "associate" THEN "associating" ELSE "minting"

\* Where it can be once the transaction has been carried out.
After(kind) ==
    {Place(kind), "resolved", "rejected"} \cup
    (IF kind \in {"token", "account"} THEN {"info", "associating"} ELSE {})

\* The steps of a task of a batch while its batch is under way.
StepsOf(b) ==
    {"execute", "resolved", "rejected"} \cup
    (IF b = 1 THEN {"receipt"}
     ELSE IF b = 2 THEN {"receipt", "info", "associating"} ELSE {"minting"})

Types ==
    /\ resources \in Resources /\ batch \in 0..3
    /\ outcome \in {"new", "pending", "finished", "failed", "exited"}
    /\ outcome = "new" <=> batch = 0
    /\ step \in [Tasks -> Steps]
    /\ tokenId \in [TokenTasks -> Nat]
    /\ sent \subseteq Transactions
    /\ ledger \in Seq(Transactions)

\* The batches before the one under way are done, those after it are new.
StepInv ==
    \A b \in 1..3 : \A t \in Batch[b] :
        /\ b < batch => step[t] = "resolved"
        /\ b = batch => step[t] \in StepsOf(b)
        /\ b > batch => step[t] = "new"

\* What is on its way is of the batch under way, of a task that awaits it or
\* has given up.
FlightInv ==
    \A x \in sent :
        /\ BatchOf(x.kind) = batch /\ x.task \in Batch[batch]
        /\ step[x.task] \in {Place(x.kind), "rejected"}

LedgerInv ==
    \A n \in 1..Len(ledger) :
        /\ BatchOf(ledger[n].kind) <= batch
        /\ ledger[n].task \in Batch[BatchOf(ledger[n].kind)]
        /\ step[ledger[n].task] \in After(ledger[n].kind)

\* A task submits one transaction of a kind.
OnceInv ==
    /\ \A x, y \in sent : Same(x, y) => x = y
    /\ \A x \in sent : \A n \in 1..Len(ledger) : ~Same(x, ledger[n])

IInv == Types /\ StepInv /\ FlightInv /\ LedgerInv /\ OnceInv /\ BatchesInOrder

-----------------------------------------------------------------------------
(* The tasks and their batches *)

LEMMA SameTasks ==
  ASSUME resources' = resources
  PROVE  /\ TokenTasks' = TokenTasks /\ AccountTasks' = AccountTasks
         /\ MintTasks' = MintTasks /\ Batch' = Batch /\ Tasks' = Tasks
         /\ Transactions' = Transactions
  BY DEF TokenTasks, AccountTasks, MintTasks, Batch, Tasks, Tokens, Accounts, Transactions

LEMMA Batches3 ==
  /\ Batch[1] = TokenTasks /\ Batch[2] = AccountTasks /\ Batch[3] = MintTasks
  /\ \A b \in 1..3 : Batch[b] \subseteq Tasks
  /\ \A t \in Tasks : \E b \in 1..3 : t \in Batch[b]
  BY DEF Batch, Tasks

\* The kind of a task tells its batch.
LEMMA KindOf ==
  /\ \A t \in Batch[1] : t[1] = "token"
  /\ \A t \in Batch[2] : t[1] = "account"
  /\ \A t \in Batch[3] : t[1] = "mint"
  BY Batches3 DEF TokenTasks, AccountTasks, MintTasks

LEMMA Disjoint ==
  ASSUME NEW b \in 1..3, NEW c \in 1..3, NEW t \in Batch[b], t \in Batch[c] PROVE b = c
  BY KindOf

LEMMA KindBatch == \A x \in Transactions : BatchOf(x.kind) \in 1..3
  BY DEF Transactions, BatchOf

-----------------------------------------------------------------------------

LEMMA InitInv == Init => IInv
<1> SUFFICES ASSUME Init PROVE IInv
  OBVIOUS
<1>1. Types
  BY DEF Init, Types, Steps
<1>2. StepInv
  BY Batches3 DEF Init, StepInv
<1>3. FlightInv /\ LedgerInv /\ OnceInv /\ BatchesInOrder
  BY DEF Init, FlightInv, LedgerInv, OnceInv, BatchesInOrder
<1> QED
  BY <1>1, <1>2, <1>3 DEF IInv

\* A batch is launched when nothing of the one before is on its way.
LEMMA LaunchStep ==
  ASSUME IInv, NEW b \in 1..3, b = batch + 1, Launch(b), outcome' \in {outcome, "pending", "finished"},
         outcome' # "new", outcome # "new" => Resolved(batch)
  PROVE  IInv'
<1>1. /\ batch' = b
      /\ step' = [t \in Tasks |-> IF t \in Batch[b] THEN "execute" ELSE step[t]]
      /\ UNCHANGED <<resources, async, tokenId, sent, ledger>>
  BY DEF Launch, network
<1>2. sent = {}
  <2> SUFFICES ASSUME NEW x \in sent PROVE FALSE
    OBVIOUS
  <2>1. BatchOf(x.kind) = batch /\ x.task \in Batch[batch] /\ step[x.task] \in {Place(x.kind), "rejected"}
    BY DEF IInv, FlightInv
  <2>2. batch # 0
    BY <2>1, KindBatch DEF IInv, Types
  <2>3. step[x.task] = "resolved"
    BY <2>1, <2>2 DEF Resolved, IInv, Types
  <2> QED
    BY <2>1, <2>3 DEF Place
<1>3. \A c \in 1..3 : \A t \in Batch[c] : step'[t] = IF c = b THEN "execute" ELSE step[t]
  BY <1>1, Batches3, Disjoint
<1>4. Types'
  BY <1>1, SameTasks DEF IInv, Types, Steps
<1>5. StepInv'
  <2> SUFFICES ASSUME NEW c \in 1..3, NEW t \in Batch[c]
               PROVE  /\ c < b => step'[t] = "resolved"
                      /\ c = b => step'[t] \in StepsOf(c)
                      /\ c > b => step'[t] = "new"
    BY <1>1, SameTasks DEF StepInv
  <2>1. CASE c < batch
    BY <1>3, <2>1 DEF IInv, Types, StepInv
  <2>2. CASE c = batch
    BY <1>3, <2>2 DEF IInv, Types, Resolved
  <2>3. CASE c = b
    BY <1>3, <2>3 DEF StepsOf
  <2>4. CASE c > b
    BY <1>3, <2>4 DEF IInv, Types, StepInv
  <2> QED
    BY <2>1, <2>2, <2>3, <2>4 DEF IInv, Types
<1>6. LedgerInv'
  <2> SUFFICES ASSUME NEW n \in 1..Len(ledger)
               PROVE  /\ BatchOf(ledger[n].kind) <= b
                      /\ ledger[n].task \in Batch[BatchOf(ledger[n].kind)]
                      /\ step'[ledger[n].task] \in After(ledger[n].kind)
    BY <1>1, SameTasks DEF LedgerInv, BatchOf, After, Place
  <2>1. ledger[n] \in Transactions /\ BatchOf(ledger[n].kind) \in 1..3
    BY KindBatch DEF IInv, Types
  <2>2. /\ BatchOf(ledger[n].kind) <= batch
        /\ ledger[n].task \in Batch[BatchOf(ledger[n].kind)]
        /\ step[ledger[n].task] \in After(ledger[n].kind)
    BY DEF IInv, LedgerInv
  <2> QED
    BY <1>3, <2>1, <2>2 DEF IInv, Types
<1>7. FlightInv' /\ OnceInv' /\ BatchesInOrder'
  BY <1>1, <1>2 DEF IInv, FlightInv, OnceInv, BatchesInOrder, BatchOf
<1> QED
  BY <1>4, <1>5, <1>6, <1>7 DEF IInv

LEMMA BeginStep == ASSUME IInv, Begin PROVE IInv'
  BY LaunchStep DEF Begin, IInv, Types

LEMMA NextBatchStep == ASSUME IInv, NextBatch PROVE IInv'
  BY LaunchStep DEF NextBatch, Alive

\* Neither Finish nor the end of the process touches a task or the network.
LEMMA FinishStep == ASSUME IInv, Finish \/ Exit PROVE IInv'
<1>1. /\ outcome \in {"pending", "finished"} /\ outcome' \in {"finished", "exited"}
      /\ UNCHANGED <<resources, async, batch, step, tokenId, sent, ledger>>
  BY DEF Finish, Exit, tasks, network
<1>2. Types'
  BY <1>1, SameTasks DEF IInv, Types
<1> QED
  BY <1>1, <1>2, SameTasks
  DEF IInv, StepInv, FlightInv, LedgerInv, OnceInv, BatchesInOrder, StepsOf, BatchOf, Place, After, Same

-----------------------------------------------------------------------------
(* A task goes from await to await *)

LEMMA LedgerDomain == IInv => DOMAIN ledger = 1..Len(ledger) /\ Len(ledger) \in Nat
  BY DEF IInv, Types

\* What the ledger holds is of a task that has got that far.
LEMMA Landed ==
  ASSUME IInv, NEW n \in 1..Len(ledger)
  PROVE  ledger[n] \in Transactions /\ step[ledger[n].task] \in After(ledger[n].kind)
<1>1. ledger[n] \in Transactions
  BY DEF IInv, Types
<1> QED
  BY <1>1 DEF IInv, LedgerInv

\* What is still on its way for the task is awaited there.
StillFlying(t, s, sending) ==
    \A x \in sending : x.task = t => s \in {Place(x.kind), "rejected"}

LEMMA TaskStep ==
  ASSUME IInv, NEW t \in Batch[batch], NEW s \in StepsOf(batch) \ {"execute"},
         Alive, step[t] \notin {"resolved", "rejected", "new"},
         step' = [step EXCEPT ![t] = s],
         outcome' \in {outcome, "failed"},
         UNCHANGED <<resources, async, batch, ledger>>,
         tokenId' \in [TokenTasks -> Nat],
         \A x \in sent' \ sent :
            /\ x \in Transactions /\ x.task = t /\ BatchOf(x.kind) = batch
            /\ \A y \in sent' : Same(x, y) => x = y
            /\ \A n \in 1..Len(ledger) : ~Same(x, ledger[n]),
         StillFlying(t, s, sent'),
         \A n \in 1..Len(ledger) : ledger[n].task = t => s \in After(ledger[n].kind)
  PROVE  IInv'
<1>1. batch \in 1..3 /\ outcome # "new" /\ outcome' # "new" /\ t \in Tasks
  BY Batches3 DEF Alive, IInv, Types
<1>2. step'[t] = s /\ \A u \in Tasks : u # t => step'[u] = step[u]
  BY <1>1 DEF IInv, Types
<1>3. Types'
  <2>1. s \in Steps
    BY DEF StepsOf, Steps
  <2> QED
    BY <1>1, <2>1, SameTasks DEF IInv, Types
<1>4. StepInv'
  <2> SUFFICES ASSUME NEW c \in 1..3, NEW u \in Batch[c]
               PROVE  /\ c < batch => step'[u] = "resolved"
                      /\ c = batch => step'[u] \in StepsOf(c)
                      /\ c > batch => step'[u] = "new"
    BY SameTasks DEF StepInv, StepsOf
  <2>1. u \in Tasks
    BY Batches3
  <2>2. CASE u = t
    BY <1>1, <1>2, <2>2, Disjoint
  <2>3. CASE u # t
    BY <1>2, <2>1, <2>3 DEF IInv, StepInv
  <2> QED
    BY <2>2, <2>3
<1>5. FlightInv'
  <2> SUFFICES ASSUME NEW x \in sent'
               PROVE  /\ BatchOf(x.kind) = batch /\ x.task \in Batch[batch]
                      /\ step'[x.task] \in {Place(x.kind), "rejected"}
    BY SameTasks DEF FlightInv, BatchOf, Place
  <2>1. BatchOf(x.kind) = batch /\ x.task \in Batch[batch]
    BY DEF IInv, FlightInv
  <2>2. CASE x.task = t
    BY <1>2, <2>1, <2>2 DEF StillFlying
  <2>3. CASE x.task # t
    BY <1>1, <1>2, <2>1, <2>3, Batches3 DEF IInv, FlightInv
  <2> QED
    BY <2>1, <2>2, <2>3
<1>6. LedgerInv'
  <2> SUFFICES ASSUME NEW n \in 1..Len(ledger)
               PROVE  /\ BatchOf(ledger[n].kind) <= batch
                      /\ ledger[n].task \in Batch[BatchOf(ledger[n].kind)]
                      /\ step'[ledger[n].task] \in After(ledger[n].kind)
    BY SameTasks DEF LedgerInv, BatchOf, After, Place
  <2>1. ledger[n].task \in Tasks
    BY Landed DEF Transactions
  <2> QED
    BY <1>2, <2>1 DEF IInv, LedgerInv
<1>7. OnceInv'
  <2>1. \A x, y \in sent' : Same(x, y) => x = y
    BY DEF IInv, OnceInv, Same
  <2>2. \A x \in sent' : \A n \in 1..Len(ledger) : ~Same(x, ledger[n])
    BY DEF IInv, OnceInv
  <2> QED
    BY <2>1, <2>2 DEF OnceInv, Same
<1>8. BatchesInOrder'
  BY DEF IInv, BatchesInOrder, BatchOf
<1> QED
  BY <1>3, <1>4, <1>5, <1>6, <1>7, <1>8 DEF IInv

\* A task that is not done is of the batch under way.
LEMMA Current ==
  ASSUME IInv, NEW t \in Tasks, Alive, step[t] \in Awaits \cup {"execute"}
  PROVE  /\ t \in Batch[batch] /\ batch \in 1..3 /\ step[t] \in StepsOf(batch)
         /\ batch = 1 <=> t \in TokenTasks
         /\ batch = 2 <=> t \in AccountTasks
         /\ batch = 3 <=> t \in MintTasks
<1>1. PICK b \in 1..3 : t \in Batch[b]
  BY Batches3
<1>2. b = batch
  BY <1>1 DEF IInv, Types, StepInv, Awaits
<1> QED
  BY <1>1, <1>2, Batches3, Disjoint DEF IInv, StepInv

\* Where a task is tells which of its transactions are on their way.
LEMMA Flying ==
  ASSUME IInv, NEW t \in Tasks, NEW x \in sent, x.task = t PROVE step[t] \in {Place(x.kind), "rejected"}
  BY DEF IInv, FlightInv

-----------------------------------------------------------------------------

\* A task submits its first transaction of a kind.
LEMMA SubmitStep ==
  ASSUME IInv, NEW t \in Tasks, NEW x \in Transactions, Alive,
         step[t] \in {"execute", "info"}, x.task = t, BatchOf(x.kind) = batch,
         step[t] = "info" => x.kind = "associate",
         step' = [step EXCEPT ![t] = Place(x.kind)], outcome' = outcome,
         sent' = sent \cup {x},
         UNCHANGED <<resources, async, batch, tokenId, ledger>>
  PROVE  IInv'
<1>1. t \in Batch[batch] /\ batch \in 1..3
  BY Current DEF Awaits
<1>2. \A y \in sent : y.task # t
  BY Flying DEF Place
<1>3. \A n \in 1..Len(ledger) : ledger[n].task = t => ledger[n].kind \in {"token", "account"} /\ step[t] = "info"
  BY Landed DEF After, Place, Transactions
<1>4. Place(x.kind) \in StepsOf(batch) \ {"execute"}
  BY <1>1 DEF Place, StepsOf, BatchOf, Transactions
<1>5. StillFlying(t, Place(x.kind), sent')
  BY <1>2 DEF StillFlying
<1>6. \A n \in 1..Len(ledger) :
        /\ ledger[n].task = t => Place(x.kind) \in After(ledger[n].kind)
        /\ ~Same(x, ledger[n])
  BY <1>3 DEF After, Place, Same
<1>7. \A y \in sent : ~Same(x, y)
  BY <1>2 DEF Same
<1>8. tokenId' \in [TokenTasks -> Nat]
  BY DEF IInv, Types
<1>9. step[t] \notin {"resolved", "rejected", "new"}
  OBVIOUS
<1>10. \A y \in sent' \ sent : y = x
  OBVIOUS
<1>11. \A y \in sent' : Same(x, y) => x = y
  BY <1>7
<1>12. \A y \in sent' \ sent :
         /\ y \in Transactions /\ y.task = t /\ BatchOf(y.kind) = batch
         /\ \A z \in sent' : Same(y, z) => y = z
         /\ \A n \in 1..Len(ledger) : ~Same(y, ledger[n])
  BY <1>6, <1>10, <1>11
<1>13. /\ outcome' \in {outcome, "failed"}
       /\ \A n \in 1..Len(ledger) : ledger[n].task = t => Place(x.kind) \in After(ledger[n].kind)
  BY <1>6
<1> QED
  BY <1>1, <1>4, <1>5, <1>8, <1>9, <1>12, <1>13, TaskStep

\* A task goes on or gives up.
LEMMA MoveStep ==
  ASSUME IInv, NEW t \in Tasks, NEW s \in StepsOf(batch) \ {"execute"},
         Alive, step[t] \in Awaits \cup {"execute"},
         step' = [step EXCEPT ![t] = s], outcome' \in {outcome, "failed"},
         sent' \subseteq sent, StillFlying(t, s, sent'),
         tokenId' \in [TokenTasks -> Nat],
         \A n \in 1..Len(ledger) : ledger[n].task = t => s \in After(ledger[n].kind),
         UNCHANGED <<resources, async, batch, ledger>>
  PROVE  IInv'
<1>1. t \in Batch[batch] /\ step[t] \notin {"resolved", "rejected", "new"}
  BY Current DEF Awaits
<1> QED
  BY <1>1, TaskStep

LEMMA RejectStep ==
  ASSUME IInv, NEW t \in Tasks, Alive, step[t] \in Awaits \cup {"execute"}, Reject(t),
         sent' \subseteq sent, UNCHANGED <<resources, async, batch, tokenId, ledger>>
  PROVE  IInv'
<1>1. "rejected" \in StepsOf(batch) \ {"execute"} /\ StillFlying(t, "rejected", sent')
  BY DEF StepsOf, StillFlying
<1>2. \A n \in 1..Len(ledger) : "rejected" \in After(ledger[n].kind)
  BY DEF After
<1>3. tokenId' \in [TokenTasks -> Nat]
  BY DEF IInv, Types
<1> QED
  BY <1>1, <1>2, <1>3, MoveStep DEF Reject

-----------------------------------------------------------------------------
(* The actions of a task *)

LEMMA ExecuteTokenStep == ASSUME IInv, NEW t \in Tasks, ExecuteToken(t) PROVE IInv'
<1>1. CASE Reject(t) /\ UNCHANGED sent
  BY <1>1, RejectStep DEF ExecuteToken
<1>2. CASE Goto(t, "receipt") /\ sent' = sent \cup {Transaction("token", t, {})}
  <2>1. Alive /\ step[t] = "execute" /\ t \in TokenTasks
        /\ UNCHANGED <<resources, async, batch, tokenId, ledger>>
    BY DEF ExecuteToken
  <2>2. batch = 1
    BY <2>1, Current
  <2> DEFINE x == Transaction("token", t, {})
  <2>3. x \in Transactions /\ x.task = t /\ BatchOf(x.kind) = 1 /\ Place(x.kind) = "receipt"
    BY DEF Transaction, Transactions, BatchOf, Place
  <2> HIDE DEF x
  <2> QED
    BY <1>2, <2>1, <2>2, <2>3, SubmitStep DEF Goto, x
<1> QED
  BY <1>1, <1>2 DEF ExecuteToken

LEMMA ExecuteAccountStep == ASSUME IInv, NEW t \in Tasks, ExecuteAccount(t) PROVE IInv'
<1>1. /\ Alive /\ step[t] = "execute" /\ t \in AccountTasks
      /\ Goto(t, "receipt") /\ sent' = sent \cup {Transaction("account", t, {})}
      /\ UNCHANGED <<resources, async, batch, tokenId, ledger>>
  BY DEF ExecuteAccount
<1>2. batch = 2
  BY <1>1, Current
<1> DEFINE x == Transaction("account", t, {})
<1>3. x \in Transactions /\ x.task = t /\ BatchOf(x.kind) = 2 /\ Place(x.kind) = "receipt"
  BY DEF Transaction, Transactions, BatchOf, Place
<1> HIDE DEF x
<1> QED
  BY <1>1, <1>2, <1>3, SubmitStep DEF Goto, x

LEMMA CreateReceiptStep == ASSUME IInv, NEW t \in Tasks, CreateReceipt(t) PROVE IInv'
<1>1. PICK n \in 1..Len(ledger) :
        /\ ledger[n] = Transaction(t[1], t, {})
        /\ tokenId' = IF t \in TokenTasks THEN [tokenId EXCEPT ![t] = n] ELSE tokenId
  BY LedgerDomain DEF CreateReceipt
<1> DEFINE s == IF t \in TokenTasks THEN "resolved" ELSE "info"
<1>2. /\ Alive /\ step[t] = "receipt" /\ t \in TokenTasks \cup AccountTasks
      /\ step' = [step EXCEPT ![t] = s] /\ outcome' = outcome
      /\ UNCHANGED <<resources, async, batch, sent, ledger>>
  BY DEF CreateReceipt, Goto, network
<1>3. s \in StepsOf(batch) \ {"execute"}
  <2>1. CASE t \in TokenTasks
    <3>1. batch = 1
      BY <1>2, <2>1, Current DEF Awaits
    <3> QED
      BY <2>1, <3>1 DEF StepsOf
  <2>2. CASE t \notin TokenTasks
    <3>1. batch = 2
      BY <1>2, <2>2, Current DEF Awaits
    <3> QED
      BY <2>2, <3>1 DEF StepsOf
  <2> QED
    BY <2>1, <2>2
<1>4. \A x \in sent : x.task # t
  <2> SUFFICES ASSUME NEW x \in sent, x.task = t PROVE FALSE
    OBVIOUS
  <2>1. x \in Transactions /\ x.kind \in {"token", "account"} /\ x.task \in Batch[BatchOf(x.kind)]
    BY <1>2, Flying DEF Place, IInv, Types, FlightInv, Transactions
  <2>2. x.kind = t[1]
    BY <2>1, KindOf DEF BatchOf
  <2>3. Same(x, ledger[n])
    BY <1>1, <2>2 DEF Same, Transaction
  <2> QED
    BY <2>3 DEF IInv, OnceInv
<1>5. \A m \in 1..Len(ledger) : ledger[m].task = t => s \in After(ledger[m].kind)
  BY <1>2, Landed DEF After, Place, Transactions
<1>6. tokenId' \in [TokenTasks -> Nat]
  BY <1>1 DEF IInv, Types
<1>7. StillFlying(t, s, sent') /\ sent' \subseteq sent
  BY <1>2, <1>4 DEF StillFlying
<1> HIDE DEF s
<1> QED
  BY <1>2, <1>3, <1>5, <1>6, <1>7, MoveStep DEF Awaits

LEMMA LastReceiptStep == ASSUME IInv, NEW t \in Tasks, LastReceipt(t) PROVE IInv'
<1>1. PICK n \in 1..Len(ledger) :
        ledger[n].task = t /\ ledger[n].kind \in {"associate", "mint"}
  BY LedgerDomain DEF LastReceipt
<1>2. /\ Alive /\ step[t] \in {"associating", "minting"}
      /\ step' = [step EXCEPT ![t] = "resolved"] /\ outcome' = outcome
      /\ UNCHANGED <<resources, async, batch, tokenId, sent, ledger>>
  BY DEF LastReceipt, Goto, network
<1>3. \A x \in sent : x.task # t
  <2> SUFFICES ASSUME NEW x \in sent, x.task = t PROVE FALSE
    OBVIOUS
  <2>1. step[t] = Place(x.kind) /\ x \in Transactions
    BY <1>2, Flying DEF IInv, Types
  <2>2. ledger[n] \in Transactions /\ step[t] \in After(ledger[n].kind)
    BY <1>1, Landed
  <2>3. x.kind = ledger[n].kind
    BY <1>1, <1>2, <2>1, <2>2 DEF Place, After, Transactions
  <2> QED
    BY <1>1, <2>3 DEF IInv, OnceInv, Same
<1>4. "resolved" \in StepsOf(batch) \ {"execute"} /\ StillFlying(t, "resolved", sent')
  BY <1>2, <1>3 DEF StepsOf, StillFlying
<1>5. \A m \in 1..Len(ledger) : "resolved" \in After(ledger[m].kind)
  BY DEF After
<1>6. tokenId' \in [TokenTasks -> Nat]
  BY <1>2 DEF IInv, Types
<1> QED
  BY <1>2, <1>4, <1>5, <1>6, MoveStep DEF Awaits

LEMMA ErrorStep == ASSUME IInv, NEW t \in Tasks, Error(t) PROVE IInv'
  BY RejectStep DEF Error, Awaits

-----------------------------------------------------------------------------
(* The ids that a task names *)

\* A set of numbers up to n has a greatest one: the one of those above which
\* the fewest lie.
LEMMA MaxExists ==
  ASSUME NEW n \in Nat, NEW S \in SUBSET (1..n), S # {}
  PROVE  \E m \in S : \A s \in S : s <= m
<1> DEFINE Above(m) == {s \in S : s > m}
           F == {Above(m) : m \in S}
<1>1. IsFiniteSet(1..n)
  BY FS_Interval
<1>2. IsFiniteSet(S)
  BY <1>1, FS_Subset
<1>3. \A m \in S : Above(m) \in FiniteSubsetsOf(S)
  <2> SUFFICES ASSUME NEW m \in S PROVE Above(m) \in FiniteSubsetsOf(S)
    OBVIOUS
  <2>1. Above(m) \in SUBSET S
    OBVIOUS
  <2>2. IsFiniteSet(Above(m))
    BY <1>2, <2>1, FS_Subset
  <2> QED
    BY <2>1, <2>2 DEF FiniteSubsetsOf
<1>4. F \subseteq FiniteSubsetsOf(S) /\ F # {}
  BY <1>3
<1> HIDE DEF F
<1>5. \E A \in F : \A B \in F : ~ (<<B, A>> \in StrictSubsetOrdering(S))
  BY <1>4, FS_StrictSubsetOrderingWellFounded, WFMin
<1>6. PICK m \in S : \A k \in S : ~ (<<Above(k), Above(m)>> \in StrictSubsetOrdering(S))
  BY <1>5 DEF F
<1>7. ASSUME NEW s \in S, s > m PROVE FALSE
  <2>1. S \subseteq Nat
    OBVIOUS
  <2>2. \A x \in Above(s) : x \in Above(m)
    BY <1>7, <2>1
  <2>3. s \in Above(m) /\ s \notin Above(s)
    BY <1>7, <2>1
  <2>4. Above(s) \in SUBSET S /\ Above(m) \in SUBSET S
    OBVIOUS
  <2> QED
    BY <1>6, <2>2, <2>3, <2>4 DEF StrictSubsetOrdering
<1> QED
  BY <1>7

LEMMA TokensType == IInv => DOMAIN Tokens = 1..Len(Tokens) /\ Len(Tokens) \in Nat
  BY ResourcesAssumption DEF IInv, Types, Tokens

\* createToken knows the token of a symbol: IdOf is what one of the tasks with
\* that symbol has learnt.
LEMMA LastToken ==
  ASSUME IInv, NEW s, \E t \in TokenTasks : Symbol(t) = s
  PROVE  \E t \in TokenTasks : Symbol(t) = s /\ IdOf(s) = tokenId[t]
<1> DEFINE places == {t \in TokenTasks : Symbol(t) = s}
           Numbers == {i \in 1..Len(Tokens) : <<"token", i, 0>> \in places}
<1>1. \A t \in places : t[2] \in Numbers /\ t = <<"token", t[2], 0>>
  BY TokensType DEF TokenTasks
<1>2. Numbers # {} /\ Numbers \in SUBSET (1..Len(Tokens)) /\ Len(Tokens) \in Nat
  BY <1>1, TokensType
<1> HIDE DEF Numbers
<1>3. \E m \in Numbers : \A i \in Numbers : i <= m
  BY <1>2, MaxExists
<1>4. PICK m \in Numbers : \A i \in Numbers : i <= m
  BY <1>3
<1>5. <<"token", m, 0>> \in places
  BY DEF Numbers
<1> HIDE DEF places
<1>6. \E t \in places : \A u \in places : u[2] <= t[2]
  BY <1>1, <1>4, <1>5
<1>7. (CHOOSE t \in places : \A u \in places : u[2] <= t[2]) \in places
  BY <1>6
<1> QED
  BY <1>7 DEF IdOf, places

\* A mint is of an entry that has a token.
LEMMA MintedToken ==
  ASSUME NEW t \in MintTasks PROVE \E u \in TokenTasks : Symbol(u) = Symbol(t)
<1>1. PICK i \in DOMAIN Tokens : t \in {<<"mint", i, j>> : j \in 1..Tokens[i].mints}
  BY DEF MintTasks
<1>2. t[2] = i /\ <<"token", i, 0>> \in TokenTasks
  BY <1>1 DEF TokenTasks
<1> QED
  BY <1>2 DEF Symbol

LEMMA IdsAreNumbers ==
  ASSUME IInv, NEW t \in Tasks
  PROVE  /\ TokenIdsFor(t) \subseteq Nat
         /\ t \in MintTasks => IdOf(Symbol(t)) \in Nat
<1>1. \A s : (\E u \in TokenTasks : Symbol(u) = s) => IdOf(s) \in Nat
  <2> SUFFICES ASSUME NEW s, \E u \in TokenTasks : Symbol(u) = s PROVE IdOf(s) \in Nat
    OBVIOUS
  <2>1. PICK u \in TokenTasks : IdOf(s) = tokenId[u]
    BY LastToken
  <2> QED
    BY <2>1 DEF IInv, Types
<1>2. TokenIdsFor(t) \subseteq Nat
  BY <1>1 DEF TokenIdsFor
<1> QED
  BY <1>1, <1>2, MintedToken

LEMMA QueryInfoStep == ASSUME IInv, NEW t \in Tasks, QueryInfo(t) PROVE IInv'
<1>1. /\ Alive /\ step[t] = "info"
      /\ UNCHANGED <<resources, async, batch, tokenId, ledger>>
  BY DEF QueryInfo
<1>2. batch = 2
  BY <1>1, Current DEF Awaits, StepsOf
<1>3. CASE Goto(t, "resolved") /\ UNCHANGED sent
  <2>1. \A x \in sent : x.task # t
    BY <1>1, Flying DEF Place
  <2>2. "resolved" \in StepsOf(batch) \ {"execute"} /\ StillFlying(t, "resolved", sent')
    BY <1>3, <2>1 DEF StepsOf, StillFlying
  <2>3. \A m \in 1..Len(ledger) : "resolved" \in After(ledger[m].kind)
    BY DEF After
  <2>4. tokenId' \in [TokenTasks -> Nat]
    BY <1>1 DEF IInv, Types
  <2> QED
    BY <1>1, <1>3, <2>2, <2>3, <2>4, MoveStep DEF Awaits, Goto
<1>4. CASE Goto(t, "associating") /\ sent' = sent \cup {Transaction("associate", t, TokenIdsFor(t))}
  <2> DEFINE x == Transaction("associate", t, TokenIdsFor(t))
  <2>1. x \in Transactions /\ x.task = t /\ x.kind = "associate"
    BY IdsAreNumbers DEF Transaction, Transactions
  <2> HIDE DEF x
  <2>2. BatchOf(x.kind) = 2 /\ Place(x.kind) = "associating"
    BY <2>1 DEF BatchOf, Place
  <2>3. sent' = sent \cup {x}
    BY <1>4 DEF x
  <2> QED
    BY <1>1, <1>2, <1>4, <2>1, <2>2, <2>3, SubmitStep DEF Goto
<1> QED
  BY <1>3, <1>4 DEF QueryInfo

LEMMA ExecuteMintStep == ASSUME IInv, NEW t \in Tasks, ExecuteMint(t) PROVE IInv'
<1>1. /\ Alive /\ step[t] = "execute" /\ t \in MintTasks /\ Goto(t, "minting")
      /\ UNCHANGED <<resources, async, batch, tokenId, ledger>>
  BY DEF ExecuteMint
<1>2. batch = 3
  BY <1>1, Current
<1> DEFINE x == Transaction("mint", t, {IdOf(Symbol(t))})
<1>3. sent' = sent \cup {x}
  BY DEF ExecuteMint
<1>4. x \in Transactions /\ x.task = t /\ x.kind = "mint"
  BY <1>1, IdsAreNumbers DEF Transaction, Transactions
<1> HIDE DEF x
<1>5. BatchOf(x.kind) = 3 /\ Place(x.kind) = "minting"
  BY <1>4 DEF BatchOf, Place
<1> QED
  BY <1>1, <1>2, <1>3, <1>4, <1>5, SubmitStep DEF Goto

-----------------------------------------------------------------------------

\* The network carries out a transaction of the batch under way.
LEMMA ConsensusStep == ASSUME IInv, Consensus PROVE IInv'
<1>1. PICK x \in sent : sent' = sent \ {x} /\ ledger' = Append(ledger, x)
  BY DEF Consensus
<1>2. UNCHANGED <<resources, async, outcome, batch, step, tokenId>>
  BY DEF Consensus, tasks
<1>3. x \in Transactions /\ ledger \in Seq(Transactions) /\ Len(ledger) \in Nat
  BY DEF IInv, Types
<1>4. /\ Len(ledger') = Len(ledger) + 1 /\ ledger' \in Seq(Transactions)
      /\ ledger'[Len(ledger) + 1] = x
      /\ \A n \in 1..Len(ledger) : ledger'[n] = ledger[n]
  BY <1>1, <1>3
<1>5. Types'
  BY <1>1, <1>2, <1>4, SameTasks DEF IInv, Types
<1>6. StepInv' /\ FlightInv'
  BY <1>1, <1>2, SameTasks DEF IInv, StepInv, FlightInv, StepsOf, BatchOf, Place
<1>7. BatchOf(x.kind) = batch /\ x.task \in Batch[batch] /\ step[x.task] \in After(x.kind)
  BY DEF IInv, FlightInv, After
<1>8. \A n \in 1..Len(ledger') : n \in 1..Len(ledger) \/ n = Len(ledger) + 1
  BY <1>3, <1>4
<1>9. LedgerInv'
  <2> SUFFICES ASSUME NEW n \in 1..Len(ledger')
               PROVE  /\ BatchOf(ledger'[n].kind) <= batch
                      /\ ledger'[n].task \in Batch[BatchOf(ledger'[n].kind)]
                      /\ step[ledger'[n].task] \in After(ledger'[n].kind)
    BY <1>2, SameTasks DEF LedgerInv, BatchOf, After, Place
  <2>1. CASE n \in 1..Len(ledger)
    BY <1>4, <2>1 DEF IInv, LedgerInv
  <2>2. CASE n = Len(ledger) + 1
    BY <1>4, <1>7, <2>2 DEF IInv, Types
  <2> QED
    BY <1>8, <2>1, <2>2
<1>10. OnceInv'
  <2>1. \A y, z \in sent' : Same(y, z) => y = z
    BY <1>1 DEF IInv, OnceInv
  <2>2. \A y \in sent' : \A n \in 1..Len(ledger') : ~Same(y, ledger'[n])
    BY <1>1, <1>4, <1>8 DEF IInv, OnceInv
  <2> QED
    BY <2>1, <2>2 DEF OnceInv, Same
<1>11. BatchesInOrder'
  <2> SUFFICES ASSUME NEW n \in 1..Len(ledger'), NEW m \in 1..n
               PROVE  BatchOf(ledger'[m].kind) <= BatchOf(ledger'[n].kind)
    BY <1>4 DEF BatchesInOrder, BatchOf
  <2>1. CASE n \in 1..Len(ledger)
    BY <1>3, <1>4, <2>1 DEF IInv, BatchesInOrder
  <2>2. CASE n = Len(ledger) + 1
    <3>1. BatchOf(ledger'[n].kind) = batch
      BY <1>4, <1>7, <2>2
    <3>2. m \in 1..Len(ledger) \/ m = n
      BY <1>3, <2>2
    <3> QED
      BY <1>4, <3>1, <3>2 DEF IInv, Types, LedgerInv
  <2> QED
    BY <1>8, <2>1, <2>2
<1> QED
  BY <1>5, <1>6, <1>9, <1>10, <1>11 DEF IInv

LEMMA StutterStep == ASSUME IInv, UNCHANGED vars PROVE IInv'
<1>1. UNCHANGED <<resources, async, outcome, batch, step, tokenId, sent, ledger>>
  BY DEF vars, tasks, network
<1> QED
  BY <1>1, SameTasks
  DEF IInv, Types, StepInv, FlightInv, LedgerInv, OnceInv, BatchesInOrder, StepsOf, BatchOf,
      Place, After, Same

LEMMA NextInv == IInv /\ [Next]_vars => IInv'
<1> SUFFICES ASSUME IInv, [Next]_vars PROVE IInv'
  OBVIOUS
<1>1. ASSUME NEW t \in Tasks, Task(t) PROVE IInv'
  BY <1>1, ExecuteTokenStep, ExecuteAccountStep, ExecuteMintStep, CreateReceiptStep,
     QueryInfoStep, LastReceiptStep, ErrorStep DEF Task
<1> QED
  BY <1>1, BeginStep, NextBatchStep, FinishStep, ConsensusStep, StutterStep DEF Next

LEMMA SpecInv == Spec => []IInv
  BY InitInv, NextInv, PTL DEF Spec

\* Promise.all separates the batches: the network never carries out a
\* transaction of a later batch before one of an earlier batch, not even after
\* the state has failed.
THEOREM BatchesInOrderCorrect == Spec => []BatchesInOrder
<1>1. IInv => BatchesInOrder
  BY DEF IInv
<1> QED
  BY <1>1, SpecInv, PTL

-----------------------------------------------------------------------------
(* What the transactions name exists *)

IsToken(id, n) == id \in 1..n /\ ledger[id].kind = "token"
HasAccount(t, n) == \E m \in 1..n : ledger[m].kind = "account" /\ ledger[m].task = t

\* All that a transaction names is among the first n entities.
Refers(x, n) ==
    /\ \A id \in x.ids : IsToken(id, n) /\ Symbol(ledger[id].task) \in Wanted(x)
    /\ x.kind = "associate" => HasAccount(x.task, n)

\* What a task has learnt from its receipt is true.
TokenInv ==
    \A t \in TokenTasks : step[t] = "resolved" =>
        IsToken(tokenId[t], Len(ledger)) /\ ledger[tokenId[t]].task = t

SeenInv == \A t \in AccountTasks : step[t] = "info" => HasAccount(t, Len(ledger))

FlyingRefs == \A x \in sent : Refers(x, Len(ledger))

RInv == TokenInv /\ SeenInv /\ FlyingRefs /\ ReferencesExist

LEMMA InitRefs == Init => RInv
  BY Batches3 DEF Init, RInv, TokenInv, SeenInv, FlyingRefs, ReferencesExist

\* While the ledger does not grow it is enough to look at what a task has
\* learnt and at what it submits.
LEMMA RefStep ==
  ASSUME IInv, RInv, UNCHANGED <<resources, ledger>>,
         \A u \in TokenTasks : step'[u] = "resolved" =>
            \/ step[u] = "resolved" /\ tokenId'[u] = tokenId[u]
            \/ IsToken(tokenId'[u], Len(ledger)) /\ ledger[tokenId'[u]].task = u,
         \A u \in AccountTasks : step'[u] = "info" => step[u] = "info" \/ HasAccount(u, Len(ledger)),
         \A x \in sent' \ sent : Refers(x, Len(ledger))
  PROVE  RInv'
<1>1. TokenInv' /\ SeenInv'
  BY SameTasks DEF RInv, TokenInv, SeenInv, IsToken, HasAccount
<1>2. \A x : Refers(x, Len(ledger))' = Refers(x, Len(ledger))
  BY DEF Refers, IsToken, HasAccount, Wanted, Symbol, Associated, Tokens, Accounts
<1>3. FlyingRefs'
  <2> SUFFICES ASSUME NEW x \in sent' PROVE Refers(x, Len(ledger))'
    BY DEF FlyingRefs
  <2>1. Refers(x, Len(ledger))
    BY DEF RInv, FlyingRefs
  <2> QED
    BY <1>2, <2>1
<1>4. ReferencesExist'
  BY DEF RInv, ReferencesExist, Wanted, Symbol, Associated, Tokens, Accounts
<1> QED
  BY <1>1, <1>3, <1>4 DEF RInv

\* Once the tokens are done, an id that IdOf gives is that of a token with the
\* symbol.
LEMMA IdOfToken ==
  ASSUME IInv, RInv, batch > 1, NEW s, \E t \in TokenTasks : Symbol(t) = s
  PROVE  IsToken(IdOf(s), Len(ledger)) /\ Symbol(ledger[IdOf(s)].task) = s
<1>1. PICK t \in TokenTasks : Symbol(t) = s /\ IdOf(s) = tokenId[t]
  BY LastToken
<1>2. step[t] = "resolved"
  BY Batches3 DEF IInv, StepInv
<1> QED
  BY <1>1, <1>2 DEF RInv, TokenInv

LEMMA QueryInfoRefs == ASSUME IInv, RInv, NEW t \in Tasks, QueryInfo(t) PROVE RInv'
<1>1. /\ Alive /\ step[t] = "info" /\ UNCHANGED <<resources, async, batch, tokenId, ledger>>
      /\ \E s \in {"resolved", "associating"} : step' = [step EXCEPT ![t] = s]
  BY DEF QueryInfo, Goto
<1>2. batch = 2 /\ t \in AccountTasks /\ t \notin TokenTasks
  BY <1>1, Current DEF Awaits, StepsOf
<1>3. \A u \in Tasks : u # t => step'[u] = step[u]
  BY <1>1 DEF IInv, Types
<1>4. \A u \in TokenTasks : step'[u] = step[u] /\ tokenId'[u] = tokenId[u]
  BY <1>1, <1>2, <1>3, Batches3
<1>5. \A u \in AccountTasks : step'[u] = "info" => step[u] = "info"
  BY <1>1, <1>3, Batches3
<1>6. ASSUME NEW x \in sent' \ sent PROVE Refers(x, Len(ledger))
  <2>1. x = Transaction("associate", t, TokenIdsFor(t))
    BY <1>6 DEF QueryInfo
  <2>2. HasAccount(t, Len(ledger))
    BY <1>1, <1>2 DEF RInv, SeenInv
  <2>3. ASSUME NEW id \in TokenIdsFor(t)
        PROVE  IsToken(id, Len(ledger)) /\ Symbol(ledger[id].task) \in Associated(t)
    <3>1. PICK s \in Associated(t) : (\E u \in TokenTasks : Symbol(u) = s) /\ id = IdOf(s)
      BY <2>3 DEF TokenIdsFor
    <3> QED
      BY <1>2, <3>1, IdOfToken
  <2>4. x.kind = "associate" /\ x.task = t /\ x.ids = TokenIdsFor(t) /\ Wanted(x) = Associated(t)
    BY <2>1 DEF Transaction, Wanted
  <2> QED
    BY <2>2, <2>3, <2>4 DEF Refers
<1> QED
  BY <1>1, <1>4, <1>5, <1>6, RefStep

LEMMA ExecuteMintRefs == ASSUME IInv, RInv, NEW t \in Tasks, ExecuteMint(t) PROVE RInv'
<1>1. /\ Alive /\ step[t] = "execute" /\ t \in MintTasks
      /\ UNCHANGED <<resources, async, batch, tokenId, ledger>>
      /\ step' = [step EXCEPT ![t] = "minting"]
      /\ sent' = sent \cup {Transaction("mint", t, {IdOf(Symbol(t))})}
  BY DEF ExecuteMint, Goto
<1>2. batch = 3
  BY <1>1, Current
<1>3. \A u \in Tasks : step'[u] \in {step[u], "minting"}
  BY <1>1 DEF IInv, Types
<1>4. /\ \A u \in TokenTasks : step'[u] = "resolved" => step[u] = "resolved" /\ tokenId'[u] = tokenId[u]
      /\ \A u \in AccountTasks : step'[u] = "info" => step[u] = "info"
  BY <1>1, <1>3, Batches3
<1>5. ASSUME NEW x \in sent' \ sent PROVE Refers(x, Len(ledger))
  <2>1. x.kind = "mint" /\ x.task = t /\ x.ids = {IdOf(Symbol(t))} /\ Wanted(x) = {Symbol(t)}
    BY <1>1, <1>5 DEF Transaction, Wanted
  <2>2. IsToken(IdOf(Symbol(t)), Len(ledger)) /\ Symbol(ledger[IdOf(Symbol(t))].task) = Symbol(t)
    BY <1>1, <1>2, MintedToken, IdOfToken
  <2> QED
    BY <2>1, <2>2 DEF Refers
<1> QED
  BY <1>1, <1>4, <1>5, RefStep

\* A creation names nothing.
LEMMA ExecuteRefs ==
  ASSUME IInv, RInv, NEW t \in Tasks, ExecuteToken(t) \/ ExecuteAccount(t) \/ Error(t) PROVE RInv'
<1>1. /\ UNCHANGED <<resources, tokenId, ledger>>
      /\ \E s \in {"receipt", "rejected"} : step' = [step EXCEPT ![t] = s]
      /\ \A x \in sent' \ sent : x \in {Transaction("token", t, {}), Transaction("account", t, {})}
  BY DEF ExecuteToken, ExecuteAccount, Error, Reject, Goto
<1>2. \A u \in Tasks : step'[u] \in {step[u], "receipt", "rejected"}
  BY <1>1 DEF IInv, Types
<1>3. /\ \A u \in TokenTasks : step'[u] = "resolved" => step[u] = "resolved" /\ tokenId'[u] = tokenId[u]
      /\ \A u \in AccountTasks : step'[u] = "info" => step[u] = "info"
  BY <1>1, <1>2, Batches3
<1>4. \A x \in sent' \ sent : Refers(x, Len(ledger))
  BY <1>1 DEF Transaction, Refers
<1> QED
  BY <1>1, <1>3, <1>4, RefStep

LEMMA CreateReceiptRefs == ASSUME IInv, RInv, NEW t \in Tasks, CreateReceipt(t) PROVE RInv'
<1>1. PICK n \in 1..Len(ledger) :
        /\ ledger[n] = Transaction(t[1], t, {})
        /\ tokenId' = IF t \in TokenTasks THEN [tokenId EXCEPT ![t] = n] ELSE tokenId
  BY LedgerDomain DEF CreateReceipt
<1>2. /\ t \in TokenTasks \cup AccountTasks
      /\ step' = [step EXCEPT ![t] = IF t \in TokenTasks THEN "resolved" ELSE "info"]
      /\ UNCHANGED <<resources, sent, ledger>>
  BY DEF CreateReceipt, Goto, network
<1>3. /\ ledger[n].task = t
      /\ t \in TokenTasks => ledger[n].kind = "token"
      /\ t \in AccountTasks => ledger[n].kind = "account"
  BY <1>1, KindOf, Batches3 DEF Transaction
<1>4. ASSUME NEW u \in TokenTasks, step'[u] = "resolved"
      PROVE  \/ step[u] = "resolved" /\ tokenId'[u] = tokenId[u]
             \/ IsToken(tokenId'[u], Len(ledger)) /\ ledger[tokenId'[u]].task = u
  <2>1. CASE u = t
    <3>1. tokenId'[u] = n
      BY <1>1, <2>1 DEF IInv, Types
    <3> QED
      BY <1>3, <2>1, <3>1 DEF IsToken
  <2>2. CASE u # t
    BY <1>1, <1>2, <1>4, <2>2, Batches3 DEF IInv, Types
  <2> QED
    BY <2>1, <2>2
<1>5. ASSUME NEW u \in AccountTasks, step'[u] = "info"
      PROVE  step[u] = "info" \/ HasAccount(u, Len(ledger))
  <2>1. CASE u = t
    BY <1>3, <2>1 DEF HasAccount
  <2>2. CASE u # t
    BY <1>2, <1>5, <2>2, Batches3 DEF IInv, Types
  <2> QED
    BY <2>1, <2>2
<1> QED
  BY <1>2, <1>4, <1>5, RefStep

LEMMA LastReceiptRefs == ASSUME IInv, RInv, NEW t \in Tasks, LastReceipt(t) PROVE RInv'
<1>1. /\ Alive /\ step[t] \in {"associating", "minting"}
      /\ step' = [step EXCEPT ![t] = "resolved"]
      /\ UNCHANGED <<resources, batch, tokenId, sent, ledger>>
  BY DEF LastReceipt, Goto, network
<1>2. t \notin TokenTasks
  BY <1>1, Current DEF Awaits, StepsOf
<1>3. /\ \A u \in TokenTasks : step'[u] = "resolved" => step[u] = "resolved" /\ tokenId'[u] = tokenId[u]
      /\ \A u \in AccountTasks : step'[u] = "info" => step[u] = "info"
  BY <1>1, <1>2, Batches3 DEF IInv, Types
<1> QED
  BY <1>1, <1>3, RefStep

\* What exists goes on to exist when the ledger grows.
LEMMA ConsensusRefs == ASSUME IInv, RInv, Consensus PROVE RInv'
<1>1. PICK y \in sent : sent' = sent \ {y} /\ ledger' = Append(ledger, y)
  BY DEF Consensus
<1>2. UNCHANGED <<resources, step, tokenId>>
  BY DEF Consensus, tasks
<1>3. y \in Transactions /\ ledger \in Seq(Transactions) /\ Len(ledger) \in Nat
  BY DEF IInv, Types
<1>4. /\ Len(ledger') = Len(ledger) + 1 /\ ledger'[Len(ledger) + 1] = y
      /\ DOMAIN ledger' = 1..(Len(ledger) + 1)
      /\ \A n \in 1..Len(ledger) : ledger'[n] = ledger[n]
  BY <1>1, <1>3
<1>5. ASSUME NEW n \in 0..Len(ledger), NEW x, Refers(x, n)
      PROVE  /\ \A id \in x.ids : /\ id \in 1..n /\ ledger'[id].kind = "token"
                                  /\ Symbol(ledger'[id].task) \in Wanted(x)
             /\ x.kind = "associate" =>
                  \E m \in 1..n : ledger'[m].kind = "account" /\ ledger'[m].task = x.task
  BY <1>3, <1>4, <1>5 DEF Refers, IsToken, HasAccount
<1>6. TokenInv'
  BY <1>2, <1>3, <1>4, SameTasks DEF RInv, TokenInv, IsToken
<1>7. SeenInv'
  BY <1>2, <1>3, <1>4, SameTasks DEF RInv, SeenInv, HasAccount
<1>8. FlyingRefs'
  <2> SUFFICES ASSUME NEW x \in sent' PROVE Refers(x, Len(ledger))'
    BY DEF FlyingRefs
  <2>1. Refers(x, Len(ledger))
    BY <1>1 DEF RInv, FlyingRefs
  <2>2. /\ \A id \in x.ids : /\ id \in 1..Len(ledger) /\ ledger'[id].kind = "token"
                             /\ Symbol(ledger'[id].task) \in Wanted(x)
        /\ x.kind = "associate" =>
             \E m \in 1..Len(ledger) : ledger'[m].kind = "account" /\ ledger'[m].task = x.task
    BY <1>3, <1>5, <2>1
  <2> QED
    BY <1>2, <1>3, <1>4, <2>2
    DEF Refers, IsToken, HasAccount, Symbol, Wanted, Associated, Tokens, Accounts
<1>9. ReferencesExist'
  <2> SUFFICES ASSUME NEW n \in 1..(Len(ledger) + 1)
               PROVE  /\ \A id \in ledger'[n].ids :
                          /\ id \in 1..(n - 1) /\ ledger'[id].kind = "token"
                          /\ Symbol(ledger'[id].task) \in Wanted(ledger'[n])
                      /\ ledger'[n].kind = "associate" =>
                          \E m \in 1..(n - 1) :
                            ledger'[m].kind = "account" /\ ledger'[m].task = ledger'[n].task
    BY <1>2, <1>4 DEF ReferencesExist, Symbol, Wanted, Associated, Tokens, Accounts
  <2>1. n - 1 \in 0..Len(ledger)
    BY <1>3
  <2>2. Refers(ledger'[n], n - 1)
    <3>1. CASE n \in 1..Len(ledger)
      BY <1>3, <1>4, <3>1, LedgerDomain DEF RInv, ReferencesExist, Refers, IsToken, HasAccount
    <3>2. CASE n = Len(ledger) + 1
      BY <1>3, <1>4, <3>2 DEF RInv, FlyingRefs
    <3> QED
      BY <1>3, <3>1, <3>2
  <2> QED
    BY <1>5, <2>1, <2>2
<1> QED
  BY <1>6, <1>7, <1>8, <1>9 DEF RInv

LEMMA LaunchRefs ==
  ASSUME IInv, RInv, NEW b \in 1..3, Launch(b) PROVE RInv'
<1>1. /\ \A u \in Tasks : step'[u] \in {step[u], "execute"}
      /\ UNCHANGED <<resources, tokenId, sent, ledger>>
  BY DEF Launch, network
<1>2. /\ \A u \in TokenTasks : step'[u] = "resolved" => step[u] = "resolved" /\ tokenId'[u] = tokenId[u]
      /\ \A u \in AccountTasks : step'[u] = "info" => step[u] = "info"
  BY <1>1, Batches3
<1> QED
  BY <1>1, <1>2, RefStep

LEMMA OtherRefs ==
  ASSUME IInv, RInv, Begin \/ NextBatch \/ Finish \/ Exit \/ UNCHANGED vars
  PROVE  RInv'
<1>1. CASE Begin \/ NextBatch
  BY <1>1, LaunchRefs DEF Begin, NextBatch
<1>2. CASE Finish \/ Exit \/ UNCHANGED vars
  <2>1. UNCHANGED <<resources, step, tokenId, sent, ledger>>
    BY <1>2 DEF Finish, Exit, vars, tasks, network
  <2> QED
    BY <2>1, RefStep
<1> QED
  BY <1>1, <1>2

LEMMA NextRefs == IInv /\ RInv /\ [Next]_vars => RInv'
<1> SUFFICES ASSUME IInv, RInv, [Next]_vars PROVE RInv'
  OBVIOUS
<1>1. ASSUME NEW t \in Tasks, Task(t) PROVE RInv'
  BY <1>1, ExecuteRefs, ExecuteMintRefs, CreateReceiptRefs, QueryInfoRefs, LastReceiptRefs DEF Task
<1> QED
  BY <1>1, OtherRefs, ConsensusRefs DEF Next

\* Associations and mints that reach the network name tokens and accounts that
\* exist, with the symbols that initialResources.json lists.
THEOREM ReferencesExistCorrect == Spec => []ReferencesExist
<1>1. RInv => ReferencesExist
  BY DEF RInv
<1> QED
  BY <1>1, SpecInv, InitRefs, NextRefs, PTL DEF Spec

-----------------------------------------------------------------------------
(* The refinement of Batches *)

\* The tasks of a batch that Batches counts.
Open(b) == {t \in Batch[b] : step[t] # "resolved"}

LEMMA ImageFinite ==
  ASSUME NEW n \in Nat, NEW S, NEW F \in [1..n -> S], \A x \in S : \E i \in 1..n : F[i] = x
  PROVE  IsFiniteSet(S)
<1>1. F \in Surjection(1..n, S)
  BY DEF Surjection
<1>2. IsFiniteSet(1..n)
  BY FS_Interval
<1> QED
  BY <1>1, <1>2, FS_Surjection

LEMMA EntryType ==
  ASSUME NEW S, NEW s \in Seq(S), NEW i \in 1..Len(s) PROVE s[i] \in S
  OBVIOUS

LEMMA BatchesFinite ==
  ASSUME IInv, NEW b \in 1..3 PROVE IsFiniteSet(Batch[b]) /\ Cardinality(Batch[b]) \in Nat
<1>1. /\ Tokens \in Seq([symbol : Symbols, mints : Nat, valid : BOOLEAN])
      /\ Accounts \in Seq(SUBSET Symbols)
  BY ResourcesAssumption DEF IInv, Types, Tokens, Accounts
<1>2. /\ DOMAIN Tokens = 1..Len(Tokens) /\ Len(Tokens) \in Nat
      /\ DOMAIN Accounts = 1..Len(Accounts) /\ Len(Accounts) \in Nat
      /\ \A i \in 1..Len(Tokens) : Tokens[i].mints \in Nat
  <2>1. DOMAIN Tokens = 1..Len(Tokens) /\ Len(Tokens) \in Nat
    BY <1>1
  <2>2. DOMAIN Accounts = 1..Len(Accounts) /\ Len(Accounts) \in Nat
    BY <1>1
  <2>3. ASSUME NEW i \in 1..Len(Tokens) PROVE Tokens[i].mints \in Nat
    <3>1. Tokens[i] \in [symbol : Symbols, mints : Nat, valid : BOOLEAN]
      BY <1>1, EntryType
    <3> QED
      BY <3>1
  <2> QED
    BY <2>1, <2>2, <2>3
<1>3. IsFiniteSet(TokenTasks)
  <2> DEFINE F == [i \in 1..Len(Tokens) |-> <<"token", i, 0>>]
  <2>1. F \in [1..Len(Tokens) -> TokenTasks] /\ \A t \in TokenTasks : \E i \in 1..Len(Tokens) : F[i] = t
    BY <1>2 DEF TokenTasks
  <2> HIDE DEF F
  <2> QED
    BY <1>2, <2>1, ImageFinite
<1>4. IsFiniteSet(AccountTasks)
  <2> DEFINE F == [i \in 1..Len(Accounts) |-> <<"account", i, 0>>]
  <2>1. F \in [1..Len(Accounts) -> AccountTasks] /\ \A t \in AccountTasks : \E i \in 1..Len(Accounts) : F[i] = t
    BY <1>2 DEF AccountTasks
  <2> HIDE DEF F
  <2> QED
    BY <1>2, <2>1, ImageFinite
<1>5. IsFiniteSet(MintTasks)
  <2> DEFINE Of(i) == {<<"mint", i, j>> : j \in 1..Tokens[i].mints}
             Family == {Of(i) : i \in DOMAIN Tokens}
  <2>1. ASSUME NEW i \in DOMAIN Tokens PROVE IsFiniteSet(Of(i))
    <3> DEFINE F == [j \in 1..Tokens[i].mints |-> <<"mint", i, j>>]
    <3>1. F \in [1..Tokens[i].mints -> Of(i)] /\ \A t \in Of(i) : \E j \in 1..Tokens[i].mints : F[j] = t
      OBVIOUS
    <3> HIDE DEF F, Of
    <3> QED
      BY <1>2, <2>1, <3>1, ImageFinite
  <2> HIDE DEF Of
  <2>2. IsFiniteSet(Family)
    <3> DEFINE F == [i \in 1..Len(Tokens) |-> Of(i)]
    <3>1. F \in [1..Len(Tokens) -> Family] /\ \A S \in Family : \E i \in 1..Len(Tokens) : F[i] = S
      BY <1>2
    <3> HIDE DEF F, Family
    <3> QED
      BY <1>2, <3>1, ImageFinite
  <2>3. \A S \in Family : IsFiniteSet(S)
    BY <2>1
  <2>4. IsFiniteSet(UNION Family)
    BY <2>2, <2>3, FS_UNION
  <2> QED
    BY <2>4 DEF MintTasks, Of
<1>6. IsFiniteSet(Batch[b])
  BY <1>3, <1>4, <1>5, Batches3
<1> QED
  BY <1>6, FS_CardinalityType

LEMMA OpenFinite ==
  ASSUME IInv, NEW b \in 1..3
  PROVE  /\ IsFiniteSet(Open(b)) /\ Cardinality(Open(b)) \in Nat
         /\ Cardinality(Open(b)) = 0 <=> Resolved(b)
<1>1. Open(b) \in SUBSET Batch[b]
  BY DEF Open
<1>2. IsFiniteSet(Open(b))
  BY <1>1, BatchesFinite, FS_Subset
<1>3. Cardinality(Open(b)) \in Nat /\ (Cardinality(Open(b)) = 0 <=> Open(b) = {})
  BY <1>2, FS_CardinalityType, FS_EmptySet
<1>4. Open(b) = {} <=> Resolved(b)
  BY DEF Open, Resolved
<1> QED
  BY <1>2, <1>3, <1>4

jobs == IF batch = 0 THEN 0 ELSE Cardinality(Open(batch))
sizes == [b \in 1..3 |-> Cardinality(Batch[b])]

LEMMA Sizes == IInv => sizes \in Seq(Nat) /\ Len(sizes) = 3 /\ sizes # <<>>
  BY BatchesFinite DEF sizes

LEMMA RefineInit == Init => Awaited!Init
<1> SUFFICES ASSUME Init PROVE Awaited!Init
  OBVIOUS
<1>1. sizes \in Seq(Nat) /\ sizes # <<>>
  BY InitInv, Sizes
<1> QED
  BY <1>1 DEF Init, Awaited!Init, sizes

\* A launch makes all tasks of its batch jobs.
LEMMA LaunchJobs ==
  ASSUME IInv, NEW b \in 1..3, Launch(b)
  PROVE  jobs' = Cardinality(Batch[b]) /\ sizes' = sizes
<1>1. /\ batch' = b /\ resources' = resources
      /\ step' = [t \in Tasks |-> IF t \in Batch[b] THEN "execute" ELSE step[t]]
  BY DEF Launch
<1>2. Open(b)' = Batch[b]
  BY <1>1, SameTasks, Batches3 DEF Open
<1>3. jobs' = Cardinality(Open(b)')
  BY <1>1 DEF jobs, Open
<1> QED
  BY <1>1, <1>2, <1>3, SameTasks DEF sizes

LEMMA RefineTask ==
  ASSUME IInv, NEW t \in Tasks, Task(t) PROVE [Awaited!Next]_(Awaited!vars)
<1>1. /\ Alive /\ step[t] \in Awaits \cup {"execute"}
      /\ UNCHANGED <<resources, async, batch>>
      /\ \/ outcome' = outcome /\ \E s \in {"receipt", "info", "associating", "minting", "resolved"} :
                                    step' = [step EXCEPT ![t] = s]
         \/ outcome' = "failed" /\ step' = [step EXCEPT ![t] = "rejected"]
  BY DEF Task, ExecuteToken, ExecuteAccount, ExecuteMint, CreateReceipt, QueryInfo, LastReceipt,
         Error, Goto, Reject, Awaits, network
<1>2. t \in Batch[batch] /\ batch \in 1..3
  BY <1>1, Current
<1>3. t \in Open(batch) /\ sizes' = sizes /\ batch' = batch
  BY <1>1, <1>2, SameTasks DEF Open, Awaits, sizes
<1>4. /\ jobs = Cardinality(Open(batch)) /\ jobs' = Cardinality(Open(batch)')
      /\ jobs \in Nat /\ jobs > 0
  <2>1. jobs = Cardinality(Open(batch)) /\ jobs' = Cardinality(Open(batch)')
    BY <1>2, <1>3 DEF jobs, Open
  <2>2. ~Resolved(batch)
    BY <1>1, <1>2 DEF Resolved, Awaits
  <2> QED
    BY <1>2, <2>1, <2>2, OpenFinite
<1>5. CASE \E s \in {"receipt", "info", "associating", "minting", "rejected"} :
             step' = [step EXCEPT ![t] = s]
  <2>1. Open(batch)' = Open(batch)
    BY <1>1, <1>2, <1>3, <1>5, SameTasks, Batches3 DEF Open, IInv, Types
  <2>2. jobs' = jobs
    BY <1>4, <2>1
  <2> QED
    BY <1>1, <1>3, <1>4, <2>2
    DEF Awaited!Next, Awaited!Fail, Awaited!Alive, Awaited!vars, Alive, jobs, sizes, Open
<1>6. CASE outcome' = outcome /\ step' = [step EXCEPT ![t] = "resolved"]
  <2>1. Open(batch)' = Open(batch) \ {t}
    BY <1>1, <1>2, <1>3, <1>6, SameTasks, Batches3 DEF Open, IInv, Types
  <2>2. Cardinality(Open(batch) \ {t}) = Cardinality(Open(batch)) - 1
    BY <1>2, <1>3, OpenFinite, FS_RemoveElement
  <2>3. jobs' = jobs - 1
    BY <1>4, <2>1, <2>2
  <2> QED
    BY <1>1, <1>3, <1>4, <1>6, <2>3
    DEF Awaited!Next, Awaited!Do, Awaited!Alive, Alive, jobs, sizes, Open
<1> QED
  BY <1>1, <1>5, <1>6

LEMMA RefineNext == IInv /\ [Next]_vars => [Awaited!Next]_(Awaited!vars)
<1> SUFFICES ASSUME IInv, [Next]_vars PROVE [Awaited!Next]_(Awaited!vars)
  OBVIOUS
<1>1. CASE Begin
  <2>1. jobs' = Cardinality(Batch[1]) /\ sizes' = sizes
    BY <1>1, LaunchJobs DEF Begin
  <2>2. batch' = 1 /\ UNCHANGED <<async>>
    BY <1>1 DEF Begin, Launch
  <2> QED
    BY <1>1, <2>1, <2>2 DEF Begin, Awaited!Next, Awaited!Begin, jobs, sizes, Open
<1>2. CASE NextBatch
  <2>1. batch \in {1, 2} /\ Alive /\ Resolved(batch) /\ UNCHANGED <<async, outcome>> /\ batch' = batch + 1
    BY <1>2 DEF NextBatch, Launch
  <2>2. jobs' = Cardinality(Batch[batch + 1]) /\ sizes' = sizes
    BY <1>2, <2>1, LaunchJobs DEF NextBatch
  <2>3. jobs = 0
    BY <2>1, OpenFinite DEF jobs
  <2>4. Len(sizes) = 3 /\ sizes[batch + 1] = Cardinality(Batch[batch + 1])
    BY <2>1, Sizes DEF sizes
  <2> QED
    BY <2>1, <2>2, <2>3, <2>4 DEF Awaited!Next, Awaited!NextBatch, Awaited!Alive, Alive, jobs, sizes, Open
<1>3. CASE Finish
  <2>1. /\ outcome = "pending" /\ batch = 3 /\ Resolved(3) /\ outcome' = "finished"
        /\ UNCHANGED <<resources, async, batch, step>>
    BY <1>3 DEF Finish, tasks
  <2>2. jobs = 0 /\ Len(sizes) = 3
    BY <2>1, OpenFinite, Sizes DEF jobs
  <2>3. jobs' = jobs /\ sizes' = sizes
    BY <2>1, SameTasks DEF jobs, sizes, Open
  <2> QED
    BY <2>1, <2>2, <2>3 DEF Awaited!Next, Awaited!Finish, jobs, sizes, Open
<1>4. CASE \E t \in Tasks : Task(t)
  BY <1>4, RefineTask
<1>5. CASE Exit
  <2>1. /\ outcome = "finished" /\ outcome' = "exited"
        /\ UNCHANGED <<resources, async, batch, step>>
    BY <1>5 DEF Exit, tasks
  <2>2. jobs' = jobs /\ sizes' = sizes
    BY <2>1, SameTasks DEF jobs, sizes, Open
  <2> QED
    BY <2>1, <2>2 DEF Awaited!Next, Awaited!Exit, jobs, sizes, Open
<1>6. CASE Consensus \/ UNCHANGED vars
  <2>1. UNCHANGED <<resources, async, outcome, batch, step>>
    BY <1>6 DEF Consensus, vars, tasks
  <2>2. jobs' = jobs /\ sizes' = sizes
    BY <2>1, SameTasks DEF jobs, sizes, Open
  <2> QED
    BY <2>1, <2>2 DEF Awaited!vars, jobs, sizes, Open
<1> QED
  BY <1>1, <1>2, <1>3, <1>4, <1>5, <1>6 DEF Next

\* Seen from its caller, the state runs its three batches one after another,
\* each of jobs that are done one by one, and the first that fails ends it.
THEOREM ImplementsBatchesCorrect == Spec => ImplementsBatches
<1>1. Spec => []IInv
  BY SpecInv
<1>2. Init => Awaited!Init
  BY RefineInit
<1>3. IInv /\ [Next]_vars => [Awaited!Next]_(Awaited!vars)
  BY RefineNext
<1> QED
  BY <1>1, <1>2, <1>3, PTL DEF Spec, ImplementsBatches, Awaited!Spec

-----------------------------------------------------------------------------
(* What is there when the state has finished *)

Made(t, n) == \E m \in 1..n : ledger[m].kind = t[1] /\ ledger[m].task = t
Joined(t, n) == \E m \in 1..n : ledger[m].kind = "associate" /\ ledger[m].task = t

\* What a step of a task says of the ledger.
Shows(t, s, n) ==
    /\ s \in {"info", "associating", "resolved"} => Made(t, n)
    /\ s = "resolved" /\ t \in AccountTasks /\ Associated(t) # {} => Joined(t, n)

ShownInv == \A t \in Tasks : Shows(t, step[t], Len(ledger))

\* An association is of a task that lists tokens, and names all those that exist.
Fitting(x) ==
    x.kind = "associate" => Associated(x.task) # {} /\ x.ids = TokenIdsFor(x.task)

FittingInv == (\A x \in sent : Fitting(x)) /\ \A n \in 1..Len(ledger) : Fitting(ledger[n])

EndInv == outcome = "finished" => async \/ (batch = 3 /\ Resolved(3))

LedgerOnce == \A m, n \in 1..Len(ledger) : Same(ledger[m], ledger[n]) => m = n

IdInv == \A t \in TokenTasks : tokenId[t] \in 0..Len(ledger)

CInv ==
    /\ async \in BOOLEAN /\ IsFiniteSet(sent)
    /\ ShownInv /\ FittingInv /\ EndInv /\ LedgerOnce /\ IdInv

LEMMA InitComplete == Init => CInv
<1> SUFFICES ASSUME Init PROVE CInv
  OBVIOUS
<1>1. IsFiniteSet(sent)
  BY FS_EmptySet DEF Init
<1>2. ShownInv
  BY DEF Init, ShownInv, Shows
<1>3. FittingInv /\ EndInv /\ LedgerOnce /\ IdInv
  BY DEF Init, FittingInv, EndInv, LedgerOnce, IdInv
<1> QED
  BY <1>1, <1>2, <1>3 DEF Init, CInv

\* No task moves any more once the state has finished without --async.
LEMMA StillMoving ==
  ASSUME IInv, CInv, NEW t \in Tasks, Alive, step[t] \in Awaits \cup {"execute"},
         outcome = "finished"
  PROVE  async
<1>1. PICK b \in 1..3 : t \in Batch[b]
  BY Batches3
<1>2. ASSUME batch = 3, Resolved(3) PROVE FALSE
  <2>1. step[t] = "resolved"
    BY <1>1, <1>2 DEF Resolved, IInv, StepInv
  <2> QED
    BY <2>1 DEF Awaits
<1> QED
  BY <1>2 DEF CInv, EndInv

\* While the ledger does not grow it is enough to look at where a task has got
\* to and at what it submits.
LEMMA CompleteStep ==
  ASSUME IInv, CInv, UNCHANGED <<resources, async, ledger>>, EndInv', IsFiniteSet(sent'),
         tokenId' = tokenId \/ (batch = 1 /\ sent' \subseteq sent),
         \A u \in TokenTasks : tokenId'[u] \in 0..Len(ledger),
         \A u \in Tasks : Shows(u, step'[u], Len(ledger)),
         \A x \in sent' \ sent : Fitting(x)
  PROVE  CInv'
<1>1. ShownInv'
  BY SameTasks DEF ShownInv, Shows, Made, Joined, Associated, Accounts
<1>2. IdInv' /\ LedgerOnce'
  BY SameTasks DEF CInv, IdInv, LedgerOnce, Same
<1>3. FittingInv'
  <2>1. CASE tokenId' = tokenId
    <3>1. \A x : Fitting(x)' = Fitting(x)
      BY <2>1, SameTasks DEF Fitting, Associated, Accounts, TokenIdsFor, IdOf, Symbol, Tokens
    <3>2. \A x \in sent' : Fitting(x)
      BY DEF CInv, FittingInv
    <3>3. (\A x \in sent' : Fitting(x)') /\ \A n \in 1..Len(ledger) : Fitting(ledger[n])'
      BY <3>1, <3>2 DEF CInv, FittingInv
    <3> QED
      BY <3>3 DEF FittingInv, Fitting
  <2>2. CASE batch = 1 /\ sent' \subseteq sent
    <3>1. \A x \in sent' : x.kind # "associate"
      BY <2>2 DEF IInv, FlightInv, BatchOf
    <3>2. \A n \in 1..Len(ledger) : ledger[n].kind # "associate"
      BY <2>2 DEF IInv, LedgerInv, BatchOf
    <3> QED
      BY <3>1, <3>2 DEF FittingInv, Fitting
  <2> QED
    BY <2>1, <2>2
<1> QED
  BY <1>1, <1>2, <1>3 DEF CInv

\* What has been shown once stays so, also of a task that gives up.
LEMMA Stays ==
  ASSUME IInv, CInv, NEW t \in Tasks, NEW s, step' = [step EXCEPT ![t] = s],
         Shows(t, s, Len(ledger))
  PROVE  \A u \in Tasks : Shows(u, step'[u], Len(ledger))
<1>1. \A u \in Tasks : step'[u] = IF u = t THEN s ELSE step[u]
  BY DEF IInv, Types
<1> QED
  BY <1>1 DEF CInv, ShownInv

LEMMA SubmitComplete ==
  ASSUME IInv, CInv, NEW t \in Tasks,
         ExecuteToken(t) \/ ExecuteAccount(t) \/ ExecuteMint(t) \/ Error(t)
  PROVE  CInv'
<1>1. /\ Alive /\ step[t] \in Awaits \cup {"execute"}
      /\ UNCHANGED <<resources, async, batch, tokenId, ledger>>
      /\ outcome' \in {outcome, "failed"}
      /\ \E s \in {"receipt", "minting", "rejected"} : step' = [step EXCEPT ![t] = s]
  BY DEF ExecuteToken, ExecuteAccount, ExecuteMint, Error, Reject, Goto, Awaits
<1>2. \/ sent' \subseteq sent
      \/ \E x : sent' = sent \cup {x} /\ x.kind # "associate"
  BY DEF ExecuteToken, ExecuteAccount, ExecuteMint, Error, Transaction
<1>3. IsFiniteSet(sent')
  BY <1>2, FS_Subset, FS_AddElement DEF CInv
<1>4. \A s \in {"receipt", "minting", "rejected"} : Shows(t, s, Len(ledger))
  BY DEF Shows
<1>5. \A u \in Tasks : Shows(u, step'[u], Len(ledger))
  BY <1>1, <1>4, Stays
<1>6. EndInv'
  BY <1>1, StillMoving DEF EndInv, CInv
<1>7. \A x \in sent' \ sent : Fitting(x)
  BY <1>2 DEF Fitting
<1> QED
  BY <1>1, <1>3, <1>5, <1>6, <1>7, CompleteStep DEF CInv, IdInv

LEMMA CreateReceiptComplete ==
  ASSUME IInv, CInv, NEW t \in Tasks, CreateReceipt(t) PROVE CInv'
<1>1. PICK n \in 1..Len(ledger) :
        /\ ledger[n] = Transaction(t[1], t, {})
        /\ tokenId' = IF t \in TokenTasks THEN [tokenId EXCEPT ![t] = n] ELSE tokenId
  BY LedgerDomain DEF CreateReceipt
<1> DEFINE s == IF t \in TokenTasks THEN "resolved" ELSE "info"
<1>2. /\ Alive /\ step[t] \in Awaits \cup {"execute"} /\ outcome' = outcome
      /\ step' = [step EXCEPT ![t] = s]
      /\ UNCHANGED <<resources, async, batch, sent, ledger>>
  BY DEF CreateReceipt, Goto, network, Awaits
<1>3. Made(t, Len(ledger))
  BY <1>1 DEF Made, Transaction
<1>4. t \in TokenTasks => t \notin AccountTasks
  BY KindOf, Batches3
<1>5. Shows(t, s, Len(ledger))
  BY <1>3, <1>4 DEF Shows
<1> HIDE DEF s
<1>6. \A u \in Tasks : Shows(u, step'[u], Len(ledger))
  BY <1>2, <1>5, Stays
<1>7. tokenId' = tokenId \/ (batch = 1 /\ sent' \subseteq sent)
  BY <1>1, <1>2, Current
<1>8. \A u \in TokenTasks : tokenId'[u] \in 0..Len(ledger)
  <2>1. \A u \in TokenTasks : tokenId'[u] \in {n, tokenId[u]}
    BY <1>1 DEF IInv, Types
  <2>2. n \in 0..Len(ledger)
    OBVIOUS
  <2> QED
    BY <2>1, <2>2 DEF CInv, IdInv
<1>9. EndInv' /\ IsFiniteSet(sent')
  BY <1>2, StillMoving DEF EndInv, CInv
<1> QED
  BY <1>2, <1>6, <1>7, <1>8, <1>9, CompleteStep

LEMMA QueryInfoComplete == ASSUME IInv, CInv, NEW t \in Tasks, QueryInfo(t) PROVE CInv'
<1>1. /\ Alive /\ step[t] = "info" /\ outcome' = outcome
      /\ UNCHANGED <<resources, async, batch, tokenId, ledger>>
  BY DEF QueryInfo, Goto
<1>2. Made(t, Len(ledger))
  BY <1>1 DEF CInv, ShownInv, Shows
<1>3. EndInv'
  BY <1>1, StillMoving DEF EndInv, CInv, Awaits
<1>4. CASE Associated(t) = {} /\ Goto(t, "resolved") /\ UNCHANGED sent
  <2>1. Shows(t, "resolved", Len(ledger))
    BY <1>2, <1>4 DEF Shows
  <2>2. \A u \in Tasks : Shows(u, step'[u], Len(ledger))
    BY <1>4, <2>1, Stays DEF Goto
  <2> QED
    BY <1>1, <1>3, <1>4, <2>2, CompleteStep DEF CInv, IdInv
<1>5. CASE /\ Associated(t) # {} /\ Goto(t, "associating")
           /\ sent' = sent \cup {Transaction("associate", t, TokenIdsFor(t))}
  <2>1. Shows(t, "associating", Len(ledger))
    BY <1>2 DEF Shows
  <2>2. \A u \in Tasks : Shows(u, step'[u], Len(ledger))
    BY <1>5, <2>1, Stays DEF Goto
  <2>3. Fitting(Transaction("associate", t, TokenIdsFor(t)))
    BY <1>5 DEF Fitting, Transaction
  <2>4. IsFiniteSet(sent')
    BY <1>5, FS_AddElement DEF CInv
  <2> QED
    BY <1>1, <1>3, <1>5, <2>2, <2>3, <2>4, CompleteStep DEF CInv, IdInv
<1> QED
  BY <1>4, <1>5 DEF QueryInfo

LEMMA LastReceiptComplete == ASSUME IInv, CInv, NEW t \in Tasks, LastReceipt(t) PROVE CInv'
<1>1. PICK n \in 1..Len(ledger) :
        ledger[n].task = t /\ ledger[n].kind \in {"associate", "mint"}
  BY LedgerDomain DEF LastReceipt
<1>2. /\ Alive /\ step[t] \in {"associating", "minting"} /\ outcome' = outcome
      /\ step' = [step EXCEPT ![t] = "resolved"]
      /\ UNCHANGED <<resources, async, batch, tokenId, sent, ledger>>
  BY DEF LastReceipt, Goto, network
<1>3. t \in Batch[BatchOf(ledger[n].kind)]
  BY <1>1 DEF IInv, LedgerInv
<1>4. Shows(t, "resolved", Len(ledger))
  <2>1. CASE ledger[n].kind = "mint"
    <3>1. t[1] = "mint" /\ t \notin AccountTasks
      BY <1>3, <2>1, KindOf, Batches3 DEF BatchOf
    <3> QED
      BY <1>1, <2>1, <3>1 DEF Shows, Made
  <2>2. CASE ledger[n].kind = "associate"
    <3>1. step[t] = "associating"
      <4>1. step[t] \in After("associate")
        BY <1>1, <2>2, Landed
      <4> QED
        BY <1>2, <4>1 DEF After, Place
    <3> QED
      BY <1>1, <2>2, <3>1 DEF Shows, Joined, CInv, ShownInv
  <2> QED
    BY <1>1, <2>1, <2>2
<1>5. \A u \in Tasks : Shows(u, step'[u], Len(ledger))
  BY <1>2, <1>4, Stays
<1>6. EndInv' /\ IsFiniteSet(sent')
  BY <1>2, StillMoving DEF EndInv, CInv, Awaits
<1> QED
  BY <1>2, <1>5, <1>6, CompleteStep DEF CInv, IdInv

LEMMA LaunchComplete ==
  ASSUME IInv, CInv, NEW b \in 1..3, Launch(b), EndInv' PROVE CInv'
<1>1. /\ step' = [t \in Tasks |-> IF t \in Batch[b] THEN "execute" ELSE step[t]]
      /\ UNCHANGED <<resources, async, tokenId, sent, ledger>>
  BY DEF Launch, network
<1>2. \A u \in Tasks : Shows(u, step'[u], Len(ledger))
  BY <1>1 DEF CInv, ShownInv, Shows
<1> QED
  BY <1>1, <1>2, CompleteStep DEF CInv, IdInv

LEMMA OtherComplete ==
  ASSUME IInv, CInv, Begin \/ NextBatch \/ Finish \/ Exit \/ UNCHANGED vars
  PROVE  CInv'
<1>1. CASE Begin
  <2>1. EndInv'
    BY <1>1 DEF Begin, Launch, EndInv, CInv
  <2> QED
    BY <1>1, <2>1, LaunchComplete DEF Begin
<1>2. CASE NextBatch
  <2>1. EndInv'
    BY <1>2 DEF NextBatch, Launch, EndInv, CInv
  <2> QED
    BY <1>2, <2>1, LaunchComplete DEF NextBatch
<1>3. CASE Finish \/ Exit \/ UNCHANGED vars
  <2>1. UNCHANGED <<resources, async, batch, step, tokenId, sent, ledger>>
    BY <1>3 DEF Finish, Exit, vars, tasks, network
  <2>2. outcome' \in {outcome, "exited"} \/ (batch = 3 /\ Resolved(3))
    BY <1>3 DEF Finish, Exit, vars
  <2>3. Resolved(3)' = Resolved(3)
    BY <2>1, SameTasks DEF Resolved
  <2>4. EndInv'
    BY <2>1, <2>2, <2>3 DEF EndInv, CInv
  <2> QED
    BY <2>1, <2>4, CompleteStep DEF CInv, ShownInv, IdInv
<1> QED
  BY <1>1, <1>2, <1>3

LEMMA ConsensusComplete == ASSUME IInv, CInv, Consensus PROVE CInv'
<1>1. PICK x \in sent : sent' = sent \ {x} /\ ledger' = Append(ledger, x)
  BY DEF Consensus
<1>2. UNCHANGED <<resources, async, outcome, batch, step, tokenId>>
  BY DEF Consensus, tasks
<1>3. /\ Len(ledger') = Len(ledger) + 1 /\ ledger'[Len(ledger) + 1] = x
      /\ \A n \in 1..Len(ledger) : ledger'[n] = ledger[n]
      /\ Len(ledger) \in Nat
  BY <1>1 DEF IInv, Types
<1>4. \A n \in 1..Len(ledger') : n \in 1..Len(ledger) \/ n = Len(ledger) + 1
  BY <1>3
<1>5. IsFiniteSet(sent')
  BY <1>1, FS_RemoveElement DEF CInv
<1>6. ShownInv'
  <2> SUFFICES ASSUME NEW t \in Tasks PROVE Shows(t, step[t], Len(ledger))'
    BY <1>2, SameTasks DEF ShownInv, Shows
  <2>1. Shows(t, step[t], Len(ledger))
    BY DEF CInv, ShownInv
  <2>2. /\ Made(t, Len(ledger)) => Made(t, Len(ledger))'
        /\ Joined(t, Len(ledger)) => Joined(t, Len(ledger))'
    BY <1>3 DEF Made, Joined
  <2> QED
    BY <1>2, <2>1, <2>2, SameTasks DEF Shows, Associated, Accounts
<1>7. FittingInv'
  <2>1. \A y : Fitting(y)' = Fitting(y)
    BY <1>2, SameTasks DEF Fitting, Associated, Accounts, TokenIdsFor, IdOf, Symbol, Tokens
  <2>2. \A y \in sent' : Fitting(y)
    BY <1>1 DEF CInv, FittingInv
  <2>3. \A n \in 1..Len(ledger') : Fitting(ledger'[n])
    BY <1>1, <1>3, <1>4 DEF CInv, FittingInv
  <2>4. (\A y \in sent' : Fitting(y)') /\ \A n \in 1..Len(ledger') : Fitting(ledger[n])'
    <3>1. \A y \in sent' : Fitting(y)'
      BY <2>1, <2>2
    <3>2. ASSUME NEW n \in 1..Len(ledger') PROVE Fitting(ledger[n])'
      <4>1. \A t : Associated(t)' = Associated(t) /\ TokenIdsFor(t)' = TokenIdsFor(t)
        BY <1>2, SameTasks DEF Associated, Accounts, TokenIdsFor, IdOf, Symbol, Tokens
      <4>2. Fitting(ledger'[n])
        BY <2>3
      <4> QED
        BY <4>1, <4>2 DEF Fitting
    <3> QED
      BY <3>1, <3>2
  <2> QED
    BY <2>4 DEF FittingInv, Fitting
<1>8. EndInv'
  BY <1>2, SameTasks DEF CInv, EndInv, Resolved
<1>9. LedgerOnce'
  <2>1. \A n \in 1..Len(ledger) : ~Same(x, ledger[n])
    BY <1>1 DEF IInv, OnceInv
  <2> QED
    BY <1>3, <1>4, <2>1 DEF CInv, LedgerOnce, Same
<1>10. IdInv'
  BY <1>2, <1>3, SameTasks DEF CInv, IdInv
<1> QED
  BY <1>2, <1>5, <1>6, <1>7, <1>8, <1>9, <1>10 DEF CInv

LEMMA NextComplete == IInv /\ CInv /\ [Next]_vars => CInv'
<1> SUFFICES ASSUME IInv, CInv, [Next]_vars PROVE CInv'
  OBVIOUS
<1>1. ASSUME NEW t \in Tasks, Task(t) PROVE CInv'
  BY <1>1, SubmitComplete, CreateReceiptComplete, QueryInfoComplete, LastReceiptComplete DEF Task
<1> QED
  BY <1>1, OtherComplete, ConsensusComplete DEF Next

LEMMA CompleteSpec == Spec => []CInv
  BY SpecInv, InitComplete, NextComplete, PTL DEF Spec

-----------------------------------------------------------------------------

\* The ledger has no transaction twice: it is as large as the set of them.
LEMMA LedgerSize ==
  ASSUME IInv, CInv, NEW F, NEW T, F \in [1..Len(ledger) -> T],
         \A m, n \in 1..Len(ledger) : F[m] = F[n] => Same(ledger[m], ledger[n]),
         \A x \in T : \E n \in 1..Len(ledger) : F[n] = x
  PROVE  IsFiniteSet(T) /\ Cardinality(T) = Len(ledger)
<1>1. Len(ledger) \in Nat
  BY LedgerDomain
<1>2. IsFiniteSet(1..Len(ledger)) /\ Cardinality(1..Len(ledger)) = Len(ledger)
  <2>1. /\ IsFiniteSet(1..Len(ledger))
        /\ Cardinality(1..Len(ledger)) = IF 1 > Len(ledger) THEN 0 ELSE Len(ledger) - 1 + 1
    BY <1>1, FS_Interval
  <2> QED
    BY <1>1, <2>1
<1>3. F \in Bijection(1..Len(ledger), T)
  <2>1. \A m, n \in 1..Len(ledger) : F[m] = F[n] => m = n
    BY DEF CInv, LedgerOnce
  <2> QED
    BY <2>1 DEF Bijection, Injection, IsInjective, Surjection
<1> QED
  BY <1>2, <1>3, FS_Bijection DEF ExistsBijection

Carried == {ledger[n] : n \in DOMAIN ledger}

LEMMA InvType == IInv /\ RInv /\ CInv => TypeOK
<1> SUFFICES ASSUME IInv, RInv, CInv PROVE TypeOK
  OBVIOUS
<1>1. DOMAIN ledger = 1..Len(ledger) /\ Len(ledger) \in Nat
  BY LedgerDomain
<1>2. IsFiniteSet(Carried) /\ Cardinality(Carried) = Len(ledger)
  <2> DEFINE F == [n \in 1..Len(ledger) |-> ledger[n]]
  <2>1. /\ F \in [1..Len(ledger) -> Carried]
        /\ \A m, n \in 1..Len(ledger) : F[m] = F[n] => Same(ledger[m], ledger[n])
        /\ \A x \in Carried : \E n \in 1..Len(ledger) : F[n] = x
    BY <1>1 DEF Carried, Same
  <2> HIDE DEF F
  <2> QED
    BY <2>1, LedgerSize
<1>3. sent \cap Carried = {}
  BY <1>1 DEF IInv, OnceInv, Carried, Same
<1>4. Cardinality(sent \cup Carried) = Cardinality(sent) + Len(ledger)
  <2>1. Cardinality(sent \cup Carried) =
          Cardinality(sent) + Cardinality(Carried) - Cardinality(sent \cap Carried)
    BY <1>2, FS_Union DEF CInv
  <2>2. Cardinality(sent \cap Carried) = 0 /\ Cardinality(sent) \in Nat
    BY <1>3, FS_EmptySet, FS_CardinalityType DEF CInv
  <2> QED
    BY <1>1, <1>2, <2>1, <2>2
<1>5. ASSUME NEW x \in sent \cup Carried
      PROVE  x \in [kind : {"token", "account", "associate", "mint"}, task : Tasks,
                    ids : SUBSET (0..Len(ledger))]
  <2>1. x \in Transactions
    BY <1>1 DEF Carried, IInv, Types
  <2>2. x.ids \subseteq 0..Len(ledger)
    <3>1. CASE x \in sent
      BY <1>1, <3>1 DEF RInv, FlyingRefs, Refers, IsToken
    <3>2. CASE x \in Carried
      BY <1>1, <3>2 DEF RInv, ReferencesExist, Carried
    <3> QED
      BY <3>1, <3>2
  <2> QED
    BY <2>1, <2>2 DEF Transactions
<1>6. tokenId \in [TokenTasks -> 0..Len(ledger)]
  BY DEF IInv, Types, CInv, IdInv
<1> QED
  BY <1>4, <1>5, <1>6 DEF TypeOK, Carried, IInv, Types, CInv

\* Every variable has its type, and no transaction is submitted or carried out
\* twice, however the tasks interleave.
THEOREM TypeCorrect == Spec => []TypeOK
  BY SpecInv, InitRefs, NextRefs, CompleteSpec, InvType, PTL DEF Spec

\* The accounts that are to be associated with tokens.
Joining == {t \in AccountTasks : Associated(t) # {}}
\* What is to be done for them, beside all the tasks.
JoinOf(t) == <<"associate", t[2], 0>>
Joins == {JoinOf(t) : t \in Joining}

LEMMA JoinsSize ==
  ASSUME IInv
  PROVE  /\ IsFiniteSet(Joins) /\ Cardinality(Joins) = Cardinality(Joining)
         /\ Joins \cap Tasks = {}
         /\ \A t, u \in AccountTasks : JoinOf(t) = JoinOf(u) => t = u
<1>1. \A t, u \in AccountTasks : JoinOf(t) = JoinOf(u) => t = u
  <2> SUFFICES ASSUME NEW t \in AccountTasks, NEW u \in AccountTasks, JoinOf(t) = JoinOf(u)
               PROVE  t = u
    OBVIOUS
  <2>1. PICK i \in DOMAIN Accounts : t = <<"account", i, 0>>
    BY DEF AccountTasks
  <2>2. PICK j \in DOMAIN Accounts : u = <<"account", j, 0>>
    BY DEF AccountTasks
  <2> QED
    BY <2>1, <2>2 DEF JoinOf
<1>2. IsFiniteSet(Joining)
  <2>1. IsFiniteSet(AccountTasks)
    BY BatchesFinite, Batches3
  <2> QED
    BY <2>1, FS_Subset DEF Joining
<1>3. IsFiniteSet(Joins) /\ Cardinality(Joins) = Cardinality(Joining)
  <2> DEFINE F == [t \in Joining |-> JoinOf(t)]
  <2>1. F \in Bijection(Joining, Joins)
    BY <1>1 DEF Bijection, Injection, IsInjective, Surjection, Joins, Joining
  <2> HIDE DEF F
  <2> QED
    BY <1>2, <2>1, FS_Bijection DEF ExistsBijection
<1>4. Joins \cap Tasks = {}
  <2> SUFFICES ASSUME NEW x \in Joins, x \in Tasks PROVE FALSE
    OBVIOUS
  <2>1. x[1] = "associate"
    BY DEF Joins, JoinOf
  <2>2. x[1] \in {"token", "account", "mint"}
    BY Batches3, KindOf
  <2> QED
    BY <2>1, <2>2
<1> QED
  BY <1>1, <1>3, <1>4

\* When all tasks are done, the ledger holds one transaction for each, one more
\* for each account that lists tokens, and nothing else.
LEMMA AllDone ==
  ASSUME IInv, CInv, \A t \in Tasks : step[t] = "resolved" PROVE Complete
<1>1. DOMAIN ledger = 1..Len(ledger) /\ Len(ledger) \in Nat
  BY LedgerDomain
<1>2. sent = {}
  <2> SUFFICES ASSUME NEW x \in sent PROVE FALSE
    OBVIOUS
  <2>1. x.task \in Tasks /\ step[x.task] \in {Place(x.kind), "rejected"}
    BY DEF IInv, FlightInv, Types, Transactions
  <2> QED
    BY <2>1 DEF Place
<1>3. ASSUME NEW t \in Tasks
      PROVE  /\ \E n \in 1..Len(ledger) : ledger[n].kind = t[1] /\ ledger[n].task = t
             /\ t \in Joining =>
                  \E n \in 1..Len(ledger) : ledger[n].kind = "associate" /\ ledger[n].task = t
  BY DEF CInv, ShownInv, Shows, Made, Joined, Joining
<1>4. ASSUME NEW n \in 1..Len(ledger)
      PROVE  /\ ledger[n].task \in Tasks
             /\ ledger[n].kind # "associate" => ledger[n].kind = ledger[n].task[1]
             /\ ledger[n].kind = "associate" => ledger[n].task \in Joining
  <2>1. ledger[n] \in Transactions /\ ledger[n].task \in Batch[BatchOf(ledger[n].kind)]
    BY Landed DEF IInv, LedgerInv
  <2>2. ledger[n].kind # "associate" => ledger[n].kind = ledger[n].task[1]
    BY <2>1, KindOf DEF BatchOf, Transactions
  <2>3. ledger[n].kind = "associate" => ledger[n].task \in Joining
    BY <2>1, Batches3 DEF BatchOf, CInv, FittingInv, Fitting, Joining
  <2> QED
    BY <2>1, <2>2, <2>3 DEF Transactions
<1>5. Cardinality(Tasks \cup Joins) = Len(ledger)
  <2> DEFINE F == [n \in 1..Len(ledger) |->
                    IF ledger[n].kind = "associate" THEN JoinOf(ledger[n].task)
                    ELSE ledger[n].task]
  <2>1. F \in [1..Len(ledger) -> Tasks \cup Joins]
    BY <1>4 DEF Joins
  <2>2. ASSUME NEW m \in 1..Len(ledger), NEW n \in 1..Len(ledger), F[m] = F[n]
        PROVE  Same(ledger[m], ledger[n])
    <3>1. CASE ledger[m].kind = "associate" /\ ledger[n].kind = "associate"
      <4>1. JoinOf(ledger[m].task) = JoinOf(ledger[n].task)
        BY <2>2, <3>1
      <4> QED
        BY <1>4, <3>1, <4>1, JoinsSize DEF Same, Joining
    <3>2. CASE ledger[m].kind # "associate" /\ ledger[n].kind # "associate"
      <4>1. ledger[m].task = ledger[n].task
        BY <2>2, <3>2
      <4> QED
        BY <1>4, <3>2, <4>1 DEF Same
    <3>3. ASSUME NEW k \in 1..Len(ledger), NEW l \in 1..Len(ledger), F[k] = F[l],
                 ledger[k].kind = "associate", ledger[l].kind # "associate"
          PROVE  FALSE
      <4>1. JoinOf(ledger[k].task) = ledger[l].task
        BY <3>3
      <4> QED
        BY <1>4, <3>3, <4>1, JoinsSize DEF Joins
    <3> QED
      BY <2>2, <3>1, <3>2, <3>3
  <2>3. ASSUME NEW x \in Tasks \cup Joins PROVE \E n \in 1..Len(ledger) : F[n] = x
    <3>1. CASE x \in Tasks
      <4>1. PICK n \in 1..Len(ledger) : ledger[n].kind = x[1] /\ ledger[n].task = x
        BY <1>3, <3>1
      <4>2. x[1] # "associate"
        BY <3>1, Batches3, KindOf
      <4> QED
        BY <4>1, <4>2
    <3>2. CASE x \in Joins
      <4>1. PICK t \in Joining : x = JoinOf(t)
        BY <3>2 DEF Joins
      <4>2. t \in Tasks
        BY Batches3 DEF Joining
      <4>3. PICK n \in 1..Len(ledger) : ledger[n].kind = "associate" /\ ledger[n].task = t
        BY <1>3, <4>1, <4>2
      <4> QED
        BY <4>1, <4>3
    <3> QED
      BY <3>1, <3>2
  <2> HIDE DEF F
  <2> QED
    BY <2>1, <2>2, <2>3, LedgerSize
<1>6. Cardinality(Tasks \cup Joins) = Cardinality(Tasks) + Cardinality(Joining)
  <2>1. IsFiniteSet(Tasks)
    <3>1. Tasks = Batch[1] \cup Batch[2] \cup Batch[3]
      BY Batches3
    <3>2. IsFiniteSet(Batch[1]) /\ IsFiniteSet(Batch[2]) /\ IsFiniteSet(Batch[3])
      BY BatchesFinite
    <3>3. \A S, T : IsFiniteSet(S) /\ IsFiniteSet(T) => IsFiniteSet(S \cup T)
      BY FS_Union
    <3>4. IsFiniteSet(Batch[1] \cup Batch[2])
      BY <3>2, <3>3
    <3>5. IsFiniteSet((Batch[1] \cup Batch[2]) \cup Batch[3])
      BY <3>2, <3>3, <3>4
    <3> QED
      BY <3>1, <3>5
  <2>2. Cardinality(Tasks \cup Joins) =
          Cardinality(Tasks) + Cardinality(Joins) - Cardinality(Tasks \cap Joins)
    BY <2>1, JoinsSize, FS_Union
  <2>3. Cardinality(Tasks \cap Joins) = 0
    BY JoinsSize, FS_EmptySet
  <2>4. Cardinality(Tasks) \in Nat /\ Cardinality(Joins) \in Nat
    BY <2>1, JoinsSize, FS_CardinalityType
  <2> QED
    BY <2>2, <2>3, <2>4, JoinsSize
<1>7. ASSUME NEW t \in AccountTasks, NEW s \in Associated(t),
             \E u \in TokenTasks : Symbol(u) = s
      PROVE  \E n \in DOMAIN ledger : ledger[n].task = t /\ IdOf(s) \in ledger[n].ids
  <2>1. PICK n \in 1..Len(ledger) : ledger[n].kind = "associate" /\ ledger[n].task = t
    BY <1>3, <1>7, Batches3 DEF Joining
  <2>2. ledger[n].ids = TokenIdsFor(t)
    BY <2>1 DEF CInv, FittingInv, Fitting
  <2>3. IdOf(s) \in TokenIdsFor(t)
    BY <1>7 DEF TokenIdsFor
  <2> QED
    BY <1>1, <2>1, <2>2, <2>3
<1> QED
  BY <1>2, <1>5, <1>6, <1>7 DEF Complete, Joining

\* Without --async the state emits Finish only when every token, account, mint
\* and association of initialResources.json is there, each once.
THEOREM CompleteOnFinishCorrect == Spec => []CompleteOnFinish
<1>1. ASSUME IInv, CInv PROVE CompleteOnFinish
  <2> SUFFICES ASSUME outcome = "finished", ~async PROVE Complete
    BY DEF CompleteOnFinish
  <2>1. batch = 3 /\ Resolved(3)
    BY <1>1 DEF CInv, EndInv
  <2>2. ASSUME NEW t \in Tasks PROVE step[t] = "resolved"
    <3>1. PICK b \in 1..3 : t \in Batch[b]
      BY Batches3
    <3> QED
      BY <1>1, <2>1, <3>1 DEF Resolved, IInv, StepInv
  <2> QED
    BY <1>1, <2>2, AllDone
<1> QED
  BY <1>1, SpecInv, CompleteSpec, PTL

-----------------------------------------------------------------------------
(* Every task comes to an end.  That a step is taken at all is the fairness *)
(* of FairSpec; here, that no await is in vain and that no task goes on for *)
(* ever.                                                                    *)

\* What has been submitted and not refused.
Known == sent \cup {ledger[n] : n \in DOMAIN ledger}

\* What a task at step s waits for is among the transactions known.
Answered(t, s, known) ==
    /\ s = "receipt" => Transaction(t[1], t, {}) \in known
    /\ s \in {"associating", "minting"} =>
        \E x \in known : x.task = t /\ x.kind \in {"associate", "mint"}

ReceiptComes == \A t \in Tasks : Answered(t, step[t], Known)

\* The most steps that a task has left.
StepsLeft(t) ==
    IF step[t] = "new" THEN 5 ELSE IF step[t] = "execute" THEN 4
    ELSE IF step[t] = "receipt" THEN 3 ELSE IF step[t] = "info" THEN 2
    ELSE IF step[t] \in {"associating", "minting"} THEN 1 ELSE 0

StateLeft ==
    CASE outcome = "new" -> 3
      [] outcome = "pending" -> 2
      [] outcome = "finished" -> 1
      [] OTHER -> 0

\* A step that takes neither a task nor the state back, and brings one of them,
\* or the network with what it has been sent, nearer to its end.
GetsOn ==
    /\ \A t \in Tasks : StepsLeft(t)' <= StepsLeft(t)
    /\ StateLeft' <= StateLeft /\ batch' >= batch
    /\ \/ \E t \in Tasks : StepsLeft(t)' < StepsLeft(t)
       \/ StateLeft' < StateLeft
       \/ batch' > batch
       \/ sent' \subseteq sent /\ sent' # sent

\* One task gets on and leaves what the others wait for.
LEMMA AnsweredStep ==
  ASSUME IInv, ReceiptComes, resources' = resources, NEW t \in Tasks, NEW s,
         step' = [step EXCEPT ![t] = s],
         \A x \in Known : x.task # t => x \in Known',
         Answered(t, s, Known')
  PROVE  ReceiptComes'
<1>1. \A u \in Tasks : step'[u] = IF u = t THEN s ELSE step[u]
  BY DEF IInv, Types
<1>2. ASSUME NEW u \in Tasks, u # t PROVE Answered(u, step[u], Known')
  <2>1. Answered(u, step[u], Known)
    BY DEF ReceiptComes
  <2>2. Transaction(u[1], u, {}).task = u
    BY DEF Transaction
  <2> QED
    BY <1>2, <2>1, <2>2 DEF Answered
<1>3. \A u \in Tasks : Answered(u, step'[u], Known')
  BY <1>1, <1>2
<1>4. Tasks' = Tasks
  BY SameTasks
<1> QED
  BY <1>3, <1>4 DEF ReceiptComes, Answered, Transaction

\* Submitting, and giving up, only add to what is known or take from it what
\* is of the task itself.
LEMMA AnsweredTask ==
  ASSUME IInv, ReceiptComes, NEW t \in Tasks, Task(t) PROVE ReceiptComes'
<1>1. resources' = resources /\ ledger' = ledger
  BY DEF Task, ExecuteToken, ExecuteAccount, ExecuteMint, CreateReceipt, QueryInfo, LastReceipt,
         Error, network
<1>2. /\ TokenTasks \cup AccountTasks \cup MintTasks = Tasks
      /\ \A u \in TokenTasks : u[1] = "token"
      /\ \A u \in AccountTasks : u[1] = "account"
  BY Batches3, KindOf
<1>3. ASSUME NEW x, sent' = sent \cup {x}, NEW s, step' = [step EXCEPT ![t] = s],
             \/ s = "receipt" /\ x = Transaction(t[1], t, {})
             \/ /\ s \in {"associating", "minting"}
                /\ x.task = t /\ x.kind \in {"associate", "mint"}
      PROVE  ReceiptComes'
  <2>1. Known' = Known \cup {x}
    BY <1>1, <1>3 DEF Known
  <2> QED
    BY <1>1, <1>3, <2>1, AnsweredStep DEF Answered
<1>4. ASSUME \A x \in sent : x.task # t => x \in sent',
             NEW s \in {"info", "resolved", "rejected"}, step' = [step EXCEPT ![t] = s]
      PROVE  ReceiptComes'
  <2>1. \A x \in Known : x.task # t => x \in Known'
    BY <1>1, <1>4 DEF Known
  <2> QED
    BY <1>1, <1>4, <2>1, AnsweredStep DEF Answered
<1>5. CASE ExecuteToken(t)
  <2>1. CASE ~Valid(t)
    BY <1>4, <1>5, <2>1 DEF ExecuteToken, Reject
  <2>2. CASE Valid(t)
    BY <1>2, <1>3, <1>5, <2>2 DEF ExecuteToken, Goto
  <2> QED
    BY <2>1, <2>2
<1>6. CASE ExecuteAccount(t)
  BY <1>2, <1>3, <1>6 DEF ExecuteAccount, Goto
<1>7. CASE ExecuteMint(t)
  <2>1. /\ sent' = sent \cup {Transaction("mint", t, {IdOf(Symbol(t))})}
        /\ step' = [step EXCEPT ![t] = "minting"]
    BY <1>7 DEF ExecuteMint, Goto
  <2>2. /\ Transaction("mint", t, {IdOf(Symbol(t))}).task = t
        /\ Transaction("mint", t, {IdOf(Symbol(t))}).kind = "mint"
    BY DEF Transaction
  <2> QED
    BY <1>3, <2>1, <2>2
<1>8. CASE CreateReceipt(t) \/ LastReceipt(t)
  <2>1. sent' = sent /\ \E s \in {"info", "resolved"} : step' = [step EXCEPT ![t] = s]
    BY <1>8 DEF CreateReceipt, LastReceipt, Goto, network
  <2> QED
    BY <1>4, <2>1
<1>9. CASE QueryInfo(t)
  <2>1. CASE Associated(t) = {}
    BY <1>4, <1>9, <2>1 DEF QueryInfo, Goto
  <2>2. CASE Associated(t) # {}
    <3>1. /\ sent' = sent \cup {Transaction("associate", t, TokenIdsFor(t))}
          /\ step' = [step EXCEPT ![t] = "associating"]
      BY <1>9, <2>2 DEF QueryInfo, Goto
    <3>2. /\ Transaction("associate", t, TokenIdsFor(t)).task = t
          /\ Transaction("associate", t, TokenIdsFor(t)).kind = "associate"
      BY DEF Transaction
    <3> QED
      BY <1>3, <3>1, <3>2
  <2> QED
    BY <2>1, <2>2
<1>10. CASE Error(t)
  BY <1>4, <1>10 DEF Error, Reject
<1> QED
  BY <1>5, <1>6, <1>7, <1>8, <1>9, <1>10 DEF Task

\* A transaction that is carried out stays known.
LEMMA KnownConsensus == ASSUME IInv, Consensus PROVE Known' = Known
<1>1. PICK x \in sent : sent' = sent \ {x} /\ ledger' = Append(ledger, x)
  BY DEF Consensus
<1>2. ledger \in Seq(Transactions)
  BY DEF IInv, Types
<1>3. /\ DOMAIN ledger' = DOMAIN ledger \cup {Len(ledger) + 1}
      /\ ledger'[Len(ledger) + 1] = x
      /\ \A n \in DOMAIN ledger : ledger'[n] = ledger[n]
  BY <1>1, <1>2
<1> QED
  BY <1>1, <1>3 DEF Known

LEMMA LaunchAnswered ==
  ASSUME IInv, ReceiptComes, NEW b, Launch(b) PROVE ReceiptComes'
<1>1. /\ step' = [u \in Tasks |-> IF u \in Batch[b] THEN "execute" ELSE step[u]]
      /\ UNCHANGED <<resources, sent, ledger>>
  BY DEF Launch, network
<1>2. Tasks' = Tasks /\ Known' = Known
  BY <1>1, SameTasks DEF Known
<1>3. \A u \in Tasks : Answered(u, step'[u], Known)
  BY <1>1 DEF ReceiptComes, Answered
<1> QED
  BY <1>2, <1>3 DEF ReceiptComes, Answered, Transaction

LEMMA AnsweredNext == IInv /\ ReceiptComes /\ [Next]_vars => ReceiptComes'
<1> SUFFICES ASSUME IInv, ReceiptComes, [Next]_vars PROVE ReceiptComes'
  OBVIOUS
<1>1. CASE Begin \/ NextBatch
  BY <1>1, LaunchAnswered DEF Begin, NextBatch
<1>2. CASE \E t \in Tasks : Task(t)
  BY <1>2, AnsweredTask
<1>3. CASE Consensus \/ Finish \/ Exit \/ UNCHANGED vars
  <2>1. UNCHANGED <<resources, step>>
    BY <1>3 DEF Consensus, Finish, Exit, vars, tasks
  <2>2. Known' = Known
    BY <1>3, KnownConsensus DEF Finish, Exit, vars, network, Known
  <2> QED
    BY <2>1, <2>2, SameTasks DEF ReceiptComes, Answered, Transaction
<1> QED
  BY <1>1, <1>2, <1>3 DEF Next

\* No task waits for a receipt that cannot come: what it has submitted is on
\* its way or has been carried out.
THEOREM ReceiptComesCorrect == Spec => []ReceiptComes
<1>1. Init => ReceiptComes
  BY DEF Init, ReceiptComes, Answered
<1> QED
  BY <1>1, SpecInv, AnsweredNext, PTL DEF Spec

\* The steps of a task of which only the step changes.
LEMMA TaskDescends ==
  ASSUME IInv, NEW t \in Tasks, Task(t) PROVE GetsOn
<1>1. /\ resources' = resources /\ batch' = batch
      /\ outcome' \in {outcome, "failed"}
  BY DEF Task, ExecuteToken, ExecuteAccount, ExecuteMint, CreateReceipt, QueryInfo, LastReceipt,
         Error, Goto, Reject
<1>2. PICK s \in Steps :
        /\ step' = [step EXCEPT ![t] = s]
        /\ \/ step[t] = "execute" /\ s \in {"receipt", "minting", "rejected"}
           \/ step[t] = "receipt" /\ s \in {"info", "resolved", "rejected"}
           \/ step[t] = "info" /\ s \in {"associating", "resolved", "rejected"}
           \/ step[t] \in {"associating", "minting"} /\ s \in {"resolved", "rejected"}
  <2>1. CASE ExecuteToken(t) \/ ExecuteAccount(t) \/ ExecuteMint(t)
    BY <2>1 DEF ExecuteToken, ExecuteAccount, ExecuteMint, Goto, Reject, Steps
  <2>2. CASE CreateReceipt(t) \/ QueryInfo(t) \/ LastReceipt(t)
    BY <2>2 DEF CreateReceipt, QueryInfo, LastReceipt, Goto, Steps
  <2>3. CASE Error(t)
    BY <2>3 DEF Error, Reject, Steps
  <2> QED
    BY <2>1, <2>2, <2>3 DEF Task
<1>3. \A u \in Tasks : step'[u] = IF u = t THEN s ELSE step[u]
  BY <1>2 DEF IInv, Types
<1>4. StepsLeft(t)' < StepsLeft(t)
  BY <1>2, <1>3 DEF StepsLeft
<1>5. \A u \in Tasks : StepsLeft(u)' <= StepsLeft(u)
  <2> SUFFICES ASSUME NEW u \in Tasks PROVE StepsLeft(u)' <= StepsLeft(u)
    OBVIOUS
  <2>1. CASE u = t
    BY <1>2, <1>3, <2>1 DEF StepsLeft
  <2>2. CASE u # t
    BY <1>3, <2>2 DEF StepsLeft
  <2> QED
    BY <2>1, <2>2
<1>6. StateLeft' <= StateLeft
  BY <1>1 DEF StateLeft
<1>7. batch' >= batch
  BY <1>1 DEF IInv, Types
<1> QED
  BY <1>4, <1>5, <1>6, <1>7 DEF GetsOn

LEMMA LaunchDescends ==
  ASSUME IInv, NEW b \in 1..3, b = batch + 1, Launch(b), StateLeft' <= StateLeft
  PROVE  GetsOn
<1>1. \A t \in Tasks : step'[t] = IF t \in Batch[b] THEN "execute" ELSE step[t]
  BY DEF Launch
<1>2. \A t \in Batch[b] : step[t] = "new"
  BY DEF IInv, StepInv, Types
<1>3. \A t \in Tasks : StepsLeft(t)' <= StepsLeft(t)
  <2> SUFFICES ASSUME NEW t \in Tasks PROVE StepsLeft(t)' <= StepsLeft(t)
    OBVIOUS
  <2>1. CASE t \in Batch[b]
    BY <1>1, <1>2, <2>1 DEF StepsLeft
  <2>2. CASE t \notin Batch[b]
    BY <1>1, <2>2 DEF StepsLeft
  <2> QED
    BY <2>1, <2>2
<1>4. batch' > batch /\ batch' >= batch
  BY DEF Launch, IInv, Types
<1> QED
  BY <1>3, <1>4 DEF GetsOn

LEMMA Descends == IInv /\ [Next]_vars => [GetsOn]_vars
<1> SUFFICES ASSUME IInv, Next PROVE GetsOn
  BY DEF vars
<1>1. CASE Begin
  <2>1. StateLeft' <= StateLeft
    BY <1>1 DEF Begin, StateLeft
  <2>2. batch = 0 /\ Launch(1)
    BY <1>1 DEF Begin, IInv, Types
  <2> QED
    BY <2>1, <2>2, LaunchDescends
<1>2. CASE NextBatch
  <2>1. StateLeft' <= StateLeft
    BY <1>2 DEF NextBatch, StateLeft
  <2>2. batch + 1 \in 1..3 /\ Launch(batch + 1)
    BY <1>2 DEF NextBatch
  <2> QED
    BY <2>1, <2>2, LaunchDescends
<1>3. CASE \E t \in Tasks : Task(t)
  BY <1>3, TaskDescends
<1>4. CASE Finish \/ Exit \/ Consensus
  <2>1. UNCHANGED <<step, batch>>
    BY <1>4 DEF Finish, Exit, Consensus, tasks
  <2>2. \A t \in Tasks : StepsLeft(t)' <= StepsLeft(t)
    <3>1. \A t \in Tasks : StepsLeft(t)' = StepsLeft(t) /\ StepsLeft(t) \in Nat
      BY <2>1 DEF StepsLeft
    <3> QED
      BY <3>1
  <2>3. CASE Finish \/ Exit
    <3>1. StateLeft \in {1, 2} /\ StateLeft' = StateLeft - 1
      BY <2>3 DEF Finish, Exit, StateLeft
    <3> QED
      BY <2>1, <2>2, <3>1 DEF GetsOn, IInv, Types
  <2>4. CASE Consensus
    <3>1. sent' \subseteq sent /\ sent' # sent /\ outcome' = outcome
      BY <2>4 DEF Consensus
    <3>2. StateLeft' <= StateLeft
      BY <3>1 DEF StateLeft
    <3> QED
      BY <2>1, <2>2, <3>1, <3>2 DEF GetsOn, IInv, Types
  <2> QED
    BY <1>4, <2>3, <2>4
<1> QED
  BY <1>1, <1>2, <1>3, <1>4 DEF Next

\* A task takes at most five steps, no step takes a task, the batch or the
\* state back, and each brings one of them, or the network, nearer to its end:
\* whatever the file contains, the state does not go on for ever.
THEOREM EveryStepDescends == Spec => [][GetsOn]_vars
  BY SpecInv, Descends, PTL DEF Spec

=============================================================================
