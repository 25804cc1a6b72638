------------------------ MODULE AccountCreationProofs ------------------------
(***************************************************************************)
(* What the creation of accounts keeps, for any kinds and numbers of keys, *)
(* any number of retries, awaited or not, with any outages and errors.  At *)
(* the end, what keeps it from going on or waiting for ever.               *)
(***************************************************************************)
EXTENDS AccountCreation, FiniteSetTheorems, TLAPS

\* What is on its way for a key is the transaction of its current attempt,
\* which awaits its receipt or has given up.
FlightInv ==
    \A k \in Keys, n \in Nat :
        <<k, n>> \in sent => n = retries[k] /\ step[k] \in {"receipt", "rejected"}

\* What a task has learnt of is an account of its key.
AccountInv ==
    \A k \in Keys : step[k] \in {"info", "resolved"} => account[k] \in AccountsOf(k)

FinishInv == outcome = "finished" /\ ~async => \A k \in Keys : Resolved(k)

\* Each attempt costs one balance, and only once it has been carried out.
CreditInv ==
    \A k \in Keys :
        /\ credits[k] <= retries[k] + 1
        /\ step[k] \in {"new", "execute"} \/ <<k, retries[k]>> \in sent =>
            credits[k] <= retries[k]

\* An account is of a balance of its own, or the only one of an alias.
OwnerInv ==
    \A k \in Keys :
        /\ Cardinality(AccountsOf(k)) <= credits[k]
        /\ IsAlias(k) => Cardinality(AccountsOf(k)) <= 1

\* Only a task that may try again waits to do so.
DelayInv == \A k \in Keys : step[k] = "delay" => retries[k] # MaxRetries - 1

NewInv == outcome = "new" => sent = {} /\ \A k \in Keys : step[k] = "new"

IInv == TypeOK /\ NewInv /\ DelayInv /\ FlightInv /\ AccountInv /\ FinishInv /\ CreditInv /\ OwnerInv

-----------------------------------------------------------------------------

LEMMA Attempts == 0 \in 0..(MaxRetries - 1) /\ MaxRetries - 1 \in Nat
  BY MaxRetriesAssumption

LEMMA InitInv == Init => IInv
<1> SUFFICES ASSUME Init PROVE IInv
  OBVIOUS
<1>1. TypeOK
  BY Attempts DEF Init, TypeOK, Steps
<1>2. \A k \in Keys : AccountsOf(k) = {}
  BY DEF Init, AccountsOf
<1>3. \A k \in Keys : Cardinality(AccountsOf(k)) = 0
  BY <1>2, FS_EmptySet
<1> QED
  BY <1>1, <1>2, <1>3
  DEF Init, IInv, NewInv, DelayInv, FlightInv, AccountInv, FinishInv, CreditInv, OwnerInv

\* The accounts of a key are among those of the network.
LEMMA OwnedFinite ==
  ASSUME TypeOK, NEW k \in Keys
  PROVE  IsFiniteSet(AccountsOf(k)) /\ Cardinality(AccountsOf(k)) \in Nat
<1>1. DOMAIN accounts = 1..Len(accounts) /\ Len(accounts) \in Nat
  BY DEF TypeOK
<1>2. AccountsOf(k) \subseteq 1..Len(accounts)
  BY <1>1 DEF AccountsOf
<1>3. IsFiniteSet(1..Len(accounts))
  BY <1>1, FS_Interval
<1> HIDE DEF AccountsOf
<1>4. IsFiniteSet(AccountsOf(k))
  BY <1>2, <1>3, FS_Subset
<1> QED
  BY <1>4, FS_CardinalityType

LEMMA InvOneAttempt == IInv => OneAttemptInFlight
<1> SUFFICES ASSUME IInv, NEW k \in Keys
             PROVE  Cardinality({n \in 0..MaxRetries : <<k, n>> \in sent}) <= 1
  BY DEF OneAttemptInFlight
<1>1. {n \in 0..MaxRetries : <<k, n>> \in sent} \in SUBSET {retries[k]}
  BY MaxRetriesAssumption DEF IInv, FlightInv
<1>2. IsFiniteSet({retries[k]}) /\ Cardinality({retries[k]}) = 1
  BY FS_Singleton
<1> QED
  BY <1>1, <1>2, FS_Subset

LEMMA InvListed == IInv => ListedAccountsExist
  BY DEF IInv, AccountInv, FinishInv, ListedAccountsExist, Resolved

LEMMA InvBounded == IInv => RetriesBounded
<1> SUFFICES ASSUME IInv, NEW k \in Keys
             PROVE  /\ credits[k] <= MaxRetries
                    /\ Cardinality(AccountsOf(k)) <= IF IsAlias(k) THEN 1 ELSE MaxRetries
  BY DEF RetriesBounded
<1>1. retries[k] \in 0..(MaxRetries - 1) /\ credits[k] \in Nat
  BY DEF IInv, TypeOK
<1>2. credits[k] <= MaxRetries
  <2>1. credits[k] <= retries[k] + 1
    BY DEF IInv, CreditInv
  <2> QED
    BY <1>1, <2>1, MaxRetriesAssumption
<1>3. Cardinality(AccountsOf(k)) \in Nat
  BY OwnedFinite DEF IInv
<1> QED
  BY <1>1, <1>2, <1>3, MaxRetriesAssumption DEF IInv, OwnerInv

-----------------------------------------------------------------------------
(* The tasks *)

Busy == {"execute", "receipt", "info", "delay"}

\* The tasks disturb one another only through the client: what IInv says of the
\* other keys follows from where this one gets to.
LEMMA TaskStep ==
  ASSUME IInv, NEW k \in Keys, NEW s \in Steps,
         Alive, step[k] \in Busy, s # "new",
         step' = [step EXCEPT ![k] = s],
         outcome' \in {outcome, "failed"},
         UNCHANGED <<async, accounts, credits>>,
         TypeOK',
         \A j \in Keys : j # k => retries'[j] = retries[j] /\ account'[j] = account[j],
         \A j \in Keys, n \in Nat : j # k /\ <<j, n>> \in sent' => <<j, n>> \in sent,
         \A n \in Nat : <<k, n>> \in sent' => n = retries'[k] /\ s \in {"receipt", "rejected"},
         s = "delay" => retries'[k] # MaxRetries - 1,
         s \in {"info", "resolved"} => account'[k] \in AccountsOf(k),
         credits[k] <= retries'[k] + 1,
         s = "execute" \/ <<k, retries'[k]>> \in sent' => credits[k] <= retries'[k]
  PROVE  IInv'
<1>1. step'[k] = s /\ \A j \in Keys : j # k => step'[j] = step[j]
  BY DEF IInv, TypeOK
<1>2. \A j \in Keys : AccountsOf(j)' = AccountsOf(j)
  BY DEF AccountsOf
<1>3. FlightInv'
  BY <1>1 DEF IInv, FlightInv
<1>4. AccountInv'
  BY <1>1, <1>2 DEF IInv, AccountInv
<1>5. FinishInv'
  BY DEF IInv, FinishInv, Resolved, Busy
<1>6. CreditInv'
  <2> SUFFICES ASSUME NEW j \in Keys
               PROVE  /\ credits[j] <= retries'[j] + 1
                      /\ step'[j] \in {"new", "execute"} \/ <<j, retries'[j]>> \in sent' =>
                          credits[j] <= retries'[j]
    BY DEF CreditInv
  <2>1. retries[j] \in Nat
    BY MaxRetriesAssumption DEF IInv, TypeOK
  <2>2. /\ credits[j] <= retries[j] + 1
        /\ step[j] \in {"new", "execute"} \/ <<j, retries[j]>> \in sent => credits[j] <= retries[j]
    BY DEF IInv, CreditInv
  <2> QED
    BY <1>1, <2>1, <2>2
<1>7. OwnerInv'
  BY <1>2 DEF IInv, OwnerInv, IsAlias
<1>8. DelayInv'
  BY <1>1 DEF IInv, DelayInv
<1>9. NewInv'
  BY DEF NewInv, Alive
<1> QED
  BY <1>3, <1>4, <1>5, <1>6, <1>7, <1>8, <1>9 DEF IInv

\* What the two invariants say of the credits of one key.
LEMMA Credits ==
  ASSUME IInv, NEW k \in Keys
  PROVE  /\ credits[k] \in Nat /\ retries[k] \in Nat /\ retries[k] \in 0..(MaxRetries - 1)
         /\ credits[k] <= retries[k] + 1
         /\ step[k] \in {"new", "execute"} \/ <<k, retries[k]>> \in sent =>
             credits[k] <= retries[k]
         /\ step[k] \notin {"receipt", "rejected"} => \A n \in Nat : <<k, n>> \notin sent
         /\ \A n \in Nat : <<k, n>> \in sent => n = retries[k]
<1>1. retries[k] \in 0..(MaxRetries - 1) /\ credits[k] \in Nat
  BY DEF IInv, TypeOK
<1>2. retries[k] \in Nat
  BY <1>1, MaxRetriesAssumption
<1> QED
  BY <1>1, <1>2 DEF IInv, CreditInv, FlightInv

\* The catch of retryTask, at an await that leaves nothing on its way.
LEMMA CatchRetryableStep ==
  ASSUME IInv, NEW k \in Keys, Alive, step[k] \in {"execute", "info"}, CatchRetryable(k),
         UNCHANGED <<async, retries, account, healthy, network>>
  PROVE  IInv'
<1>1. PICK s \in {"delay", "rejected"} :
        /\ step' = [step EXCEPT ![k] = s] /\ outcome' \in {outcome, "failed"}
        /\ s = "delay" => retries[k] # MaxRetries - 1
  BY DEF CatchRetryable, Reject, Goto
<1>2. TypeOK'
  BY <1>1 DEF IInv, TypeOK, Steps, network
<1>3. \A n \in Nat : <<k, n>> \notin sent'
  BY Credits DEF network
<1> QED
  BY <1>1, <1>2, <1>3, Credits, TaskStep DEF network, Busy, Steps

LEMMA ExecuteStep == ASSUME IInv, NEW k \in Keys, Execute(k) PROVE IInv'
<1>1. CASE ~healthy
  BY <1>1, CatchRetryableStep DEF Execute, network
<1>2. CASE healthy
  <2>1. /\ sent' = sent \cup {<<k, retries[k]>>} /\ step' = [step EXCEPT ![k] = "receipt"]
        /\ step[k] = "execute" /\ Alive
        /\ UNCHANGED <<async, retries, account, outcome, healthy, accounts, credits>>
    BY <1>2 DEF Execute, Goto
  <2>2. <<k, retries[k]>> \in Keys \X (0..(MaxRetries - 1))
    BY Credits
  <2>3. TypeOK'
    BY <2>1, <2>2 DEF IInv, TypeOK, Steps
  <2> QED
    BY <2>1, <2>3, Credits, TaskStep DEF Busy, Steps
<1> QED
  BY <1>1, <1>2

LEMMA GetReceiptStep == ASSUME IInv, NEW k \in Keys, GetReceipt(k) PROVE IInv'
<1>1. PICK i \in AccountsOf(k) : account' = [account EXCEPT ![k] = i]
  BY DEF GetReceipt
<1>2. /\ <<k, retries[k]>> \notin sent /\ step' = [step EXCEPT ![k] = "info"]
      /\ step[k] = "receipt" /\ Alive /\ UNCHANGED <<async, retries, outcome, healthy, network>>
  BY DEF GetReceipt, Goto
<1>3. i \in Nat
  BY DEF AccountsOf, IInv, TypeOK
<1>4. TypeOK'
  BY <1>1, <1>2, <1>3 DEF IInv, TypeOK, Steps, network
<1>5. account'[k] = i /\ \A j \in Keys : j # k => account'[j] = account[j]
  BY <1>1 DEF IInv, TypeOK
<1>6. \A n \in Nat : <<k, n>> \notin sent'
  BY <1>2, Credits DEF network
<1> QED
  BY <1>2, <1>4, <1>5, <1>6, Credits, TaskStep DEF Busy, Steps, network

LEMMA QueryInfoStep == ASSUME IInv, NEW k \in Keys, QueryInfo(k) PROVE IInv'
<1>1. CASE ~healthy
  BY <1>1, CatchRetryableStep DEF QueryInfo
<1>2. CASE healthy
  <2>1. /\ step' = [step EXCEPT ![k] = "resolved"] /\ step[k] = "info" /\ Alive
        /\ UNCHANGED <<async, retries, account, outcome, healthy, network>>
    BY <1>2 DEF QueryInfo, Goto
  <2>2. TypeOK'
    BY <2>1 DEF IInv, TypeOK, Steps, network
  <2>3. account[k] \in AccountsOf(k)
    BY <2>1 DEF IInv, AccountInv
  <2>4. \A n \in Nat : <<k, n>> \notin sent'
    BY <2>1, Credits DEF network
  <2> QED
    BY <2>1, <2>2, <2>3, <2>4, Credits, TaskStep DEF Busy, Steps, network
<1> QED
  BY <1>1, <1>2

LEMMA CatchOtherStep == ASSUME IInv, NEW k \in Keys, CatchOther(k) PROVE IInv'
<1>1. /\ step' = [step EXCEPT ![k] = "rejected"] /\ outcome' = "failed"
      /\ step[k] \in Busy /\ Alive /\ sent' \subseteq sent
      /\ UNCHANGED <<async, retries, account, healthy, accounts, credits>>
  BY DEF CatchOther, Reject, Goto, Busy
<1>2. TypeOK'
  BY <1>1 DEF IInv, TypeOK, Steps
<1>3. \A n \in Nat : <<k, n>> \in sent' => n = retries'[k]
  BY <1>1, Credits
<1>4. <<k, retries'[k]>> \in sent' => credits[k] <= retries'[k]
  BY <1>1, Credits
<1> QED
  BY <1>1, <1>2, <1>3, <1>4, Credits, TaskStep DEF Steps

LEMMA StartOverStep == ASSUME IInv, NEW k \in Keys, StartOver(k) PROVE IInv'
<1>1. /\ retries' = [retries EXCEPT ![k] = @ + 1] /\ step' = [step EXCEPT ![k] = "execute"]
      /\ step[k] = "delay" /\ Alive
      /\ UNCHANGED <<async, account, outcome, healthy, network>>
  BY DEF StartOver, Goto
<1>2. retries'[k] = retries[k] + 1 /\ \A j \in Keys : j # k => retries'[j] = retries[j]
  BY <1>1 DEF IInv, TypeOK
<1>3. retries[k] + 1 \in 0..(MaxRetries - 1)
  BY <1>1, MaxRetriesAssumption DEF IInv, TypeOK, DelayInv
<1>4. TypeOK'
  BY <1>1, <1>3 DEF IInv, TypeOK, Steps, network
<1>5. \A n \in Nat : <<k, n>> \notin sent'
  BY <1>1, Credits DEF network
<1>6. credits[k] <= retries'[k]
  BY <1>2, Credits
<1>7. credits[k] <= retries'[k] + 1
  <2>1. credits[k] \in Nat /\ retries[k] \in Nat
    BY Credits
  <2> QED
    BY <1>2, <1>6, <2>1
<1> QED
  BY <1>1, <1>2, <1>4, <1>5, <1>6, <1>7, TaskStep DEF Busy, Steps, network

-----------------------------------------------------------------------------
(* The state and the network *)

LEMMA BeginStep == ASSUME IInv, Begin PROVE IInv'
<1>1. /\ step' = [k \in Keys |-> "execute"] /\ outcome = "new"
      /\ outcome' = IF async THEN "finished" ELSE "pending"
      /\ UNCHANGED <<async, retries, account, healthy, sent, accounts, credits>>
  BY DEF Begin, network
<1>2. TypeOK'
  BY <1>1 DEF IInv, TypeOK, Steps
<1>3. \A k \in Keys : step[k] = "new" /\ step'[k] = "execute" /\ sent = {}
  BY <1>1 DEF IInv, NewInv
<1>4. NewInv' /\ DelayInv' /\ FlightInv' /\ CreditInv'
  BY <1>1, <1>3 DEF IInv, NewInv, DelayInv, FlightInv, CreditInv
<1>5. AccountInv' /\ FinishInv' /\ OwnerInv'
  BY <1>1, <1>3 DEF IInv, AccountInv, FinishInv, OwnerInv, AccountsOf, IsAlias
<1> QED
  BY <1>2, <1>4, <1>5 DEF IInv

\* The end of the process leaves its tasks and the network as they are.
LEMMA ExitStep == ASSUME IInv, Exit PROVE IInv'
<1>1. /\ outcome' = "exited"
      /\ UNCHANGED <<async, step, retries, account, healthy, sent, accounts, credits>>
  BY DEF Exit, network, tasks
<1>2. TypeOK'
  BY <1>1 DEF IInv, TypeOK
<1>3. NewInv' /\ DelayInv' /\ FlightInv' /\ FinishInv' /\ CreditInv'
  BY <1>1 DEF IInv, NewInv, DelayInv, FlightInv, FinishInv, CreditInv
<1>4. AccountInv' /\ OwnerInv'
  BY <1>1 DEF IInv, AccountInv, OwnerInv, AccountsOf, IsAlias
<1> QED
  BY <1>2, <1>3, <1>4 DEF IInv

LEMMA FinishStep == ASSUME IInv, Finish PROVE IInv'
<1>1. /\ outcome' = "finished" /\ \A k \in Keys : Resolved(k)
      /\ UNCHANGED <<async, step, retries, account, healthy, sent, accounts, credits>>
  BY DEF Finish, network, tasks
<1>2. TypeOK'
  BY <1>1 DEF IInv, TypeOK
<1>3. NewInv' /\ DelayInv' /\ FlightInv' /\ CreditInv'
  BY <1>1 DEF IInv, NewInv, DelayInv, FlightInv, CreditInv
<1>4. AccountInv' /\ FinishInv' /\ OwnerInv'
  BY <1>1 DEF IInv, AccountInv, FinishInv, OwnerInv, AccountsOf, Resolved, IsAlias
<1> QED
  BY <1>2, <1>3, <1>4 DEF IInv

\* A transaction that is carried out has a task whose attempt it is.
LEMMA ConsensusStep ==
  ASSUME IInv, NEW k \in Keys, NEW n \in 0..MaxRetries, Consensus(k, n) PROVE IInv'
<1>1. /\ <<k, n>> \in sent /\ sent' = sent \ {<<k, n>>}
      /\ credits' = [credits EXCEPT ![k] = @ + 1]
      /\ UNCHANGED <<async, step, retries, account, outcome, healthy>>
      /\ accounts' = IF IsAlias(k) /\ AccountsOf(k) # {} THEN accounts
                                                        ELSE Append(accounts, <<k, n>>)
  BY DEF Consensus, tasks
<1>2. n = retries[k] /\ n \in 0..(MaxRetries - 1) /\ credits[k] <= retries[k]
  <2>1. n \in Nat
    BY MaxRetriesAssumption
  <2>2. n = retries[k]
    BY <1>1, <2>1, Credits
  <2> QED
    BY <1>1, <2>2, Credits
<1>3. credits'[k] = credits[k] + 1 /\ \A j \in Keys : j # k => credits'[j] = credits[j]
  BY <1>1 DEF IInv, TypeOK
<1>4. TypeOK'
  <2>1. accounts' \in Seq(Keys \X (0..(MaxRetries - 1)))
    BY <1>1, <1>2 DEF IInv, TypeOK
  <2> QED
    BY <1>1, <1>3, <2>1 DEF IInv, TypeOK
<1>5. /\ \A j \in Keys : j # k => AccountsOf(j)' = AccountsOf(j)
      /\ \/ AccountsOf(k)' = AccountsOf(k)
         \/ /\ AccountsOf(k)' = AccountsOf(k) \cup {Len(accounts) + 1}
            /\ IsAlias(k) => AccountsOf(k) = {}
  <2>1. CASE accounts' = accounts
    BY <2>1 DEF AccountsOf
  <2>2. CASE accounts' = Append(accounts, <<k, n>>) /\ (IsAlias(k) => AccountsOf(k) = {})
    <3>1. accounts \in Seq(Keys \X (0..(MaxRetries - 1))) /\ <<k, n>> \in Keys \X (0..(MaxRetries - 1))
      BY <1>2 DEF IInv, TypeOK
    <3>2. /\ DOMAIN accounts' = 1..(Len(accounts) + 1) /\ DOMAIN accounts = 1..Len(accounts)
          /\ accounts'[Len(accounts) + 1] = <<k, n>>
          /\ \A i \in 1..Len(accounts) : accounts'[i] = accounts[i]
          /\ Len(accounts) \in Nat
      BY <2>2, <3>1
    <3>3. ASSUME NEW j \in Keys
          PROVE  AccountsOf(j)' = IF j = k THEN AccountsOf(j) \cup {Len(accounts) + 1}
                                           ELSE AccountsOf(j)
      <4>1. AccountsOf(j)' = {i \in 1..(Len(accounts) + 1) : accounts'[i][1] = j}
        BY <3>2 DEF AccountsOf
      <4>2. AccountsOf(j) = {i \in 1..Len(accounts) : accounts[i][1] = j}
        BY <3>2 DEF AccountsOf
      <4>3. accounts'[Len(accounts) + 1][1] = k
        BY <3>2
      <4> QED
        BY <3>2, <4>1, <4>2, <4>3
    <3> QED
      BY <2>2, <3>3
  <2> QED
    BY <1>1, <2>1, <2>2
<1>6. OwnerInv'
  <2> SUFFICES ASSUME NEW j \in Keys
               PROVE  /\ Cardinality(AccountsOf(j)') <= credits'[j]
                      /\ IsAlias(j) => Cardinality(AccountsOf(j)') <= 1
    BY DEF OwnerInv, IsAlias
  <2>1. /\ Cardinality(AccountsOf(j)) <= credits[j] /\ credits[j] \in Nat
        /\ IsAlias(j) => Cardinality(AccountsOf(j)) <= 1
    BY DEF IInv, OwnerInv, TypeOK
  <2>2. IsFiniteSet(AccountsOf(j)) /\ Cardinality(AccountsOf(j)) \in Nat
    BY OwnedFinite DEF IInv
  <2>3. CASE AccountsOf(j)' = AccountsOf(j)
    BY <1>3, <2>1, <2>2, <2>3
  <2>4. CASE j = k /\ AccountsOf(k)' = AccountsOf(k) \cup {Len(accounts) + 1}
                   /\ (IsAlias(k) => AccountsOf(k) = {})
    <3> DEFINE S == AccountsOf(k)
    <3> HIDE DEF S
    <3>1. IsFiniteSet(S) /\ Cardinality(S) \in Nat
      BY <2>2, <2>4 DEF S
    <3>2. /\ IsFiniteSet(S \cup {Len(accounts) + 1})
          /\ \/ Cardinality(S \cup {Len(accounts) + 1}) = Cardinality(S)
             \/ Cardinality(S \cup {Len(accounts) + 1}) = Cardinality(S) + 1
      BY <3>1, FS_AddElement
    <3>3. Cardinality(AccountsOf(k)') <= Cardinality(AccountsOf(k)) + 1
      BY <2>4, <3>1, <3>2 DEF S
    <3>4. Cardinality(AccountsOf(k)') \in Nat
      BY <2>4, <3>2, FS_CardinalityType DEF S
    <3>5. IsAlias(k) => Cardinality(AccountsOf(k)) = 0
      BY <2>4, FS_EmptySet
    <3> QED
      BY <1>3, <2>1, <2>2, <2>4, <3>3, <3>4, <3>5
  <2> QED
    BY <1>5, <2>3, <2>4
<1>7. CreditInv'
  <2> SUFFICES ASSUME NEW j \in Keys
               PROVE  /\ credits'[j] <= retries[j] + 1
                      /\ step[j] \in {"new", "execute"} \/ <<j, retries[j]>> \in sent' =>
                          credits'[j] <= retries[j]
    BY <1>1 DEF CreditInv
  <2>1. CASE j = k
    <3>1. step[k] \notin {"new", "execute"} /\ <<k, retries[k]>> \notin sent'
      BY <1>1, <1>2, Credits
    <3> QED
      BY <1>2, <1>3, <2>1, <3>1, Credits
  <2>2. CASE j # k
    BY <1>1, <1>3, <2>2, Credits
  <2> QED
    BY <2>1, <2>2
<1>8. AccountInv'
  BY <1>1, <1>5 DEF IInv, AccountInv
<1>9. NewInv' /\ DelayInv' /\ FlightInv' /\ FinishInv'
  BY <1>1 DEF IInv, NewInv, DelayInv, FlightInv, FinishInv, Resolved
<1> QED
  BY <1>4, <1>6, <1>7, <1>8, <1>9 DEF IInv

\* The client's list of nodes is no part of the invariant.
LEMMA ClientStep == ASSUME IInv, LoseNode \/ ReadmitNode \/ UNCHANGED vars PROVE IInv'
<1>1. UNCHANGED <<async, step, retries, account, outcome, sent, accounts, credits>>
  BY DEF LoseNode, ReadmitNode, vars, tasks, network
<1>2. healthy' \in BOOLEAN
  BY DEF LoseNode, ReadmitNode, vars, IInv, TypeOK
<1>3. TypeOK'
  BY <1>1, <1>2 DEF IInv, TypeOK
<1>4. NewInv' /\ DelayInv' /\ FlightInv' /\ CreditInv'
  BY <1>1 DEF IInv, NewInv, DelayInv, FlightInv, CreditInv
<1>5. AccountInv' /\ FinishInv' /\ OwnerInv'
  BY <1>1 DEF IInv, AccountInv, FinishInv, OwnerInv, AccountsOf, Resolved, IsAlias
<1> QED
  BY <1>3, <1>4, <1>5 DEF IInv

LEMMA NextInv == IInv /\ [Next]_vars => IInv'
<1> SUFFICES ASSUME IInv, [Next]_vars PROVE IInv'
  OBVIOUS
<1>1. CASE Begin
  BY <1>1, BeginStep
<1>2. CASE Finish \/ Exit
  BY <1>2, FinishStep, ExitStep
<1>3. CASE \E k \in Keys : Task(k)
  BY <1>3, ExecuteStep, GetReceiptStep, QueryInfoStep, CatchOtherStep, StartOverStep DEF Task
<1>4. CASE \E k \in Keys, n \in 0..MaxRetries : Consensus(k, n)
  BY <1>4, ConsensusStep
<1>5. CASE LoseNode \/ ReadmitNode \/ Done \/ UNCHANGED vars
  BY <1>5, ClientStep DEF Done
<1> QED
  BY <1>1, <1>2, <1>3, <1>4, <1>5 DEF Next

\* The strengthening of all four invariants, inductive.
LEMMA SpecInv == Spec => []IInv
  BY InitInv, NextInv, PTL DEF Spec

-----------------------------------------------------------------------------

\* Every variable has its type, and a task counts fewer than maxRetries
\* retries: the catch of retryTask rejects before the counter gets there.
THEOREM TypeCorrect == Spec => []TypeOK
<1>1. IInv => TypeOK
  BY DEF IInv
<1> QED
  BY <1>1, SpecInv, PTL

\* An account that generateAccounts lists exists and is that of the private key
\* beside it, however the tasks interleave and are retried.
THEOREM ListedAccountsExistCorrect == Spec => []ListedAccountsExist
  BY InvListed, SpecInv, PTL

\* retryTask never submits a transaction for a key while that of an earlier
\* attempt is on its way.
THEOREM OneAttemptInFlightCorrect == Spec => []OneAttemptInFlight
  BY InvOneAttempt, SpecInv, PTL

\* A key costs at most maxRetries initial balances, and an alias has a single
\* account, whatever errors retryTask meets.
THEOREM RetriesBoundedCorrect == Spec => []RetriesBounded
  BY InvBounded, SpecInv, PTL

-----------------------------------------------------------------------------
(* The refinement of Batches *)

\* The tasks that Batches counts.
Open == {k \in Keys : step[k] \notin {"new", "resolved"}}

LEMMA KeysFinite == IsFiniteSet(Keys) /\ Cardinality(Keys) \in Nat
<1>1. Count \in Nat
  BY LimitAssumption DEF Count
<1>2. IsFiniteSet(1..Count)
  BY <1>1, FS_Interval
<1>3. IsFiniteSet(Keys)
  BY <1>2, KindsAssumption, FS_Product DEF Keys
<1> QED
  BY <1>3, FS_CardinalityType

LEMMA OpenFinite ==
  /\ IsFiniteSet(Open) /\ Cardinality(Open) \in Nat
  /\ Open # {} => Cardinality(Open) > 0
<1>1. Open \in SUBSET Keys
  BY DEF Open
<1>2. IsFiniteSet(Open)
  BY <1>1, KeysFinite, FS_Subset
<1>3. Cardinality(Open) \in Nat /\ (Cardinality(Open) = 0 <=> Open = {})
  BY <1>2, FS_CardinalityType, FS_EmptySet
<1> QED
  BY <1>2, <1>3

\* A task that goes on is a stutter, one that fails is the Fail of Batches.
LEMMA RefineStep ==
  ASSUME IInv, NEW k \in Keys, NEW s \in Steps, s \notin {"new", "resolved"},
         Alive, step[k] \in Busy, step' = [step EXCEPT ![k] = s],
         outcome' \in {outcome, "failed"}, async' = async
  PROVE  [Awaited!Next]_(Awaited!vars)
<1>1. Open' = Open /\ k \in Open
  BY DEF Open, Busy, IInv, TypeOK
<1>2. CASE outcome' = outcome
  BY <1>1, <1>2 DEF Awaited!vars, Open
<1>3. CASE outcome' = "failed"
  <2>1. Cardinality(Open) > 0
    BY <1>1, OpenFinite
  <2> QED
    BY <1>1, <1>3, <2>1 DEF Awaited!Next, Awaited!Fail, Awaited!Alive, Alive, Open
<1> QED
  BY <1>2, <1>3

LEMMA RefineResolve ==
  ASSUME IInv, NEW k \in Keys, Alive, step[k] = "info",
         step' = [step EXCEPT ![k] = "resolved"],
         outcome' = outcome, async' = async
  PROVE  Awaited!Do
<1>1. Open' = Open \ {k} /\ k \in Open
  BY DEF Open, IInv, TypeOK
<1>2. Cardinality(Open \ {k}) = Cardinality(Open) - 1
  BY <1>1, OpenFinite, FS_RemoveElement
<1>3. Cardinality(Open) > 0
  BY <1>1, OpenFinite
<1> QED
  BY <1>1, <1>2, <1>3 DEF Awaited!Do, Awaited!Alive, Alive, Open

LEMMA RefineTask ==
  ASSUME IInv, NEW k \in Keys, Task(k) PROVE [Awaited!Next]_(Awaited!vars)
<1>1. /\ Alive /\ step[k] \in Busy /\ async' = async
      /\ outcome' \in {outcome, "failed"}
      /\ \/ step[k] = "info" /\ step' = [step EXCEPT ![k] = "resolved"] /\ outcome' = outcome
         \/ \E s \in Steps \ {"new", "resolved"} : step' = [step EXCEPT ![k] = s]
  BY DEF Task, Execute, GetReceipt, QueryInfo, CatchOther, StartOver, CatchRetryable,
         Reject, Goto, Busy, Steps
<1> QED
  BY <1>1, RefineStep, RefineResolve DEF Awaited!Next

LEMMA RefineInit == Init => Awaited!Init
<1> SUFFICES ASSUME Init PROVE Awaited!Init
  OBVIOUS
<1>1. Open = {}
  BY DEF Init, Open
<1>2. Cardinality(Open) = 0
  BY <1>1, FS_EmptySet
<1>3. <<Cardinality(Keys)>> \in Seq(Nat) /\ <<Cardinality(Keys)>> # <<>>
  BY KeysFinite
<1> QED
  BY <1>2, <1>3 DEF Init, Awaited!Init, Open

LEMMA RefineNext == IInv /\ [Next]_vars => [Awaited!Next]_(Awaited!vars)
<1> SUFFICES ASSUME IInv, [Next]_vars PROVE [Awaited!Next]_(Awaited!vars)
  OBVIOUS
<1>1. CASE Begin
  <2>1. Open' = Keys
    BY <1>1 DEF Begin, Open
  <2> QED
    BY <1>1, <2>1 DEF Begin, Awaited!Next, Awaited!Begin, Open
<1>2. CASE Finish
  <2>1. Open = {}
    BY <1>2 DEF Finish, Resolved, Open
  <2>2. Cardinality(Open) = 0
    BY <2>1, FS_EmptySet
  <2>3. UNCHANGED <<async, step>>
    BY <1>2 DEF Finish, tasks
  <2> QED
    BY <1>2, <2>2, <2>3 DEF Finish, Awaited!Next, Awaited!Finish, Open
<1>3. CASE \E k \in Keys : Task(k)
  BY <1>3, RefineTask
<1>4. CASE Exit
  <2>1. UNCHANGED <<async, step>> /\ outcome = "finished" /\ outcome' = "exited"
    BY <1>4 DEF Exit, tasks
  <2> QED
    BY <2>1 DEF Awaited!Next, Awaited!Exit
<1>5. CASE \/ \E k \in Keys, n \in 0..MaxRetries : Consensus(k, n)
           \/ LoseNode \/ ReadmitNode \/ Done \/ UNCHANGED vars
  <2>1. UNCHANGED <<async, step, outcome>>
    BY <1>5 DEF Consensus, LoseNode, ReadmitNode, Done, vars, tasks
  <2> QED
    BY <2>1 DEF Awaited!vars
<1> QED
  BY <1>1, <1>2, <1>3, <1>4, <1>5 DEF Next

\* Seen from its caller, generateAccounts is a single batch of jobs that are
\* done one by one, or of which the first that fails ends the process.
THEOREM ImplementsBatchesCorrect == Spec => ImplementsBatches
<1>1. Spec => []IInv
  BY SpecInv
<1>2. Init => Awaited!Init
  BY RefineInit
<1>3. IInv /\ [Next]_vars => [Awaited!Next]_(Awaited!vars)
  BY RefineNext
<1> QED
  BY <1>1, <1>2, <1>3, PTL DEF Spec, ImplementsBatches, Awaited!Spec

-----------------------------------------------------------------------------
(* Every task comes to an end.  That a step is taken at all is the fairness *)
(* of FairSpec; here, that no await is in vain and that no task goes on for *)
(* ever.                                                                    *)

\* What a task that awaits its receipt waits for: its transaction is on its
\* way, or has made the account that GetReceipt finds.
Answered(k) ==
    \/ <<k, retries[k]>> \in sent
    \/ \E i \in AccountsOf(k) : IsAlias(k) \/ accounts[i][2] = retries[k]

ReceiptComes == \A k \in Keys : step[k] = "receipt" => Answered(k)

\* The steps of an attempt that are left, its back-off included.
Rank(s) ==
    IF s = "execute" THEN 4 ELSE IF s = "receipt" THEN 3
    ELSE IF s = "info" THEN 2 ELSE 1

\* A bound on the steps a task has left, those of its retries included.
StepsLeft(k) ==
    IF step[k] = "new" THEN 4 * MaxRetries + 1
    ELSE IF step[k] \in {"resolved", "rejected"} THEN 0
    ELSE 4 * (MaxRetries - 1 - retries[k]) + Rank(step[k])

StateLeft ==
    CASE outcome = "new" -> 3
      [] outcome = "pending" -> 2
      [] outcome = "finished" -> 1
      [] OTHER -> 0

\* A step that takes neither a task nor the state back, and brings one of them,
\* or the network with what it has been sent, nearer to its end, unless it
\* loses or readmits the node.
GetsOn ==
    /\ (\A k \in Keys : StepsLeft(k)' <= StepsLeft(k)) /\ StateLeft' <= StateLeft
    /\ \/ \E k \in Keys : StepsLeft(k)' < StepsLeft(k)
       \/ StateLeft' < StateLeft
       \/ sent' \subseteq sent /\ sent' # sent
       \/ healthy' # healthy

\* One task gets on and leaves what the others wait for.
LEMMA AnsweredStep ==
  ASSUME IInv, ReceiptComes, NEW k \in Keys, NEW s,
         step' = [step EXCEPT ![k] = s],
         accounts' = accounts,
         \A j \in Keys : j # k => retries'[j] = retries[j],
         \A j \in Keys, n \in Nat : j # k /\ <<j, n>> \in sent => <<j, n>> \in sent',
         s = "receipt" => <<k, retries'[k]>> \in sent'
  PROVE  ReceiptComes'
<1> SUFFICES ASSUME NEW j \in Keys, step'[j] = "receipt" PROVE Answered(j)'
  BY DEF ReceiptComes
<1>1. CASE j = k
  BY <1>1 DEF Answered, IInv, TypeOK
<1>2. CASE j # k
  <2>1. step[j] = "receipt" /\ retries'[j] = retries[j] /\ retries[j] \in Nat
    BY <1>2, Credits DEF IInv, TypeOK
  <2>2. Answered(j)
    BY <2>1 DEF ReceiptComes
  <2> QED
    BY <1>2, <2>1, <2>2 DEF Answered, AccountsOf
<1> QED
  BY <1>1, <1>2

LEMMA AnsweredTask == ASSUME IInv, ReceiptComes, NEW k \in Keys, Task(k) PROVE ReceiptComes'
<1>1. CASE Execute(k) /\ healthy
  <2>1. /\ sent' = sent \cup {<<k, retries[k]>>} /\ step' = [step EXCEPT ![k] = "receipt"]
        /\ UNCHANGED <<retries, accounts>>
    BY <1>1 DEF Execute, Goto
  <2> QED
    BY <2>1, AnsweredStep
<1>2. CASE (Execute(k) /\ ~healthy) \/ QueryInfo(k)
  <2>1. PICK s \in {"delay", "rejected", "resolved"} : step' = [step EXCEPT ![k] = s]
    BY <1>2 DEF Execute, QueryInfo, CatchRetryable, Reject, Goto
  <2>2. UNCHANGED <<retries, sent, accounts>>
    BY <1>2 DEF Execute, QueryInfo, network
  <2> QED
    BY <2>1, <2>2, AnsweredStep
<1>3. CASE GetReceipt(k)
  BY <1>3, AnsweredStep DEF GetReceipt, Goto, network
<1>4. CASE CatchOther(k)
  BY <1>4, AnsweredStep DEF CatchOther, Reject, Goto
<1>5. CASE StartOver(k)
  <2>1. /\ retries' = [retries EXCEPT ![k] = @ + 1] /\ step' = [step EXCEPT ![k] = "execute"]
        /\ UNCHANGED <<sent, accounts>>
    BY <1>5 DEF StartOver, Goto, network
  <2>2. \A j \in Keys : j # k => retries'[j] = retries[j]
    BY <2>1 DEF IInv, TypeOK
  <2> QED
    BY <2>1, <2>2, AnsweredStep
<1> QED
  BY <1>1, <1>2, <1>3, <1>4, <1>5 DEF Task

\* A transaction that is carried out leaves the account its task looks for: it
\* is that of the task's attempt, or of an alias that has one.
LEMMA AnsweredConsensus ==
  ASSUME IInv, ReceiptComes, NEW k \in Keys, NEW n \in 0..MaxRetries, Consensus(k, n)
  PROVE  ReceiptComes'
<1>1. /\ <<k, n>> \in sent /\ sent' = sent \ {<<k, n>>} /\ UNCHANGED <<step, retries>>
      /\ accounts' = IF IsAlias(k) /\ AccountsOf(k) # {} THEN accounts
                                                        ELSE Append(accounts, <<k, n>>)
  BY DEF Consensus, tasks
<1>2. n = retries[k]
  BY <1>1 DEF IInv, FlightInv
<1> SUFFICES ASSUME NEW j \in Keys, step[j] = "receipt" PROVE Answered(j)'
  BY <1>1 DEF ReceiptComes
<1>3. Answered(j)
  BY DEF ReceiptComes
<1>4. \A i \in AccountsOf(j) : i \in AccountsOf(j)' /\ accounts'[i] = accounts[i]
  <2>1. accounts \in Seq(Keys \X (0..(MaxRetries - 1)))
    BY DEF IInv, TypeOK
  <2>2. CASE accounts' = accounts
    BY <2>2 DEF AccountsOf
  <2>3. CASE accounts' = Append(accounts, <<k, n>>)
    BY <2>1, <2>3 DEF AccountsOf
  <2> QED
    BY <1>1, <2>2, <2>3
<1>5. CASE \E i \in AccountsOf(j) : IsAlias(j) \/ accounts[i][2] = retries[j]
  BY <1>1, <1>4, <1>5 DEF Answered, IsAlias
<1>6. CASE <<j, retries[j]>> \in sent /\ j # k
  BY <1>1, <1>6 DEF Answered
<1>7. CASE j = k /\ IsAlias(k) /\ AccountsOf(k) # {}
  BY <1>4, <1>7 DEF Answered, IsAlias
<1>8. CASE j = k /\ ~(IsAlias(k) /\ AccountsOf(k) # {})
  <2>1. accounts' = Append(accounts, <<k, n>>) /\ accounts \in Seq(Keys \X (0..(MaxRetries - 1)))
    BY <1>1, <1>8 DEF IInv, TypeOK
  <2>2. Len(accounts) + 1 \in DOMAIN accounts' /\ accounts'[Len(accounts) + 1] = <<k, n>>
    BY <2>1
  <2> QED
    BY <1>1, <1>2, <1>8, <2>2 DEF Answered, AccountsOf
<1> QED
  BY <1>3, <1>5, <1>6, <1>7, <1>8 DEF Answered

LEMMA AnsweredNext == IInv /\ ReceiptComes /\ [Next]_vars => ReceiptComes'
<1> SUFFICES ASSUME IInv, ReceiptComes, [Next]_vars PROVE ReceiptComes'
  OBVIOUS
<1>1. CASE Begin
  BY <1>1 DEF Begin, ReceiptComes
<1>2. CASE \E k \in Keys : Task(k)
  BY <1>2, AnsweredTask
<1>3. CASE \E k \in Keys, n \in 0..MaxRetries : Consensus(k, n)
  BY <1>3, AnsweredConsensus
<1>4. CASE Finish \/ Exit \/ LoseNode \/ ReadmitNode \/ Done \/ UNCHANGED vars
  <2>1. UNCHANGED <<step, retries, sent, accounts>>
    BY <1>4 DEF Finish, Exit, LoseNode, ReadmitNode, Done, vars, tasks, network
  <2> QED
    BY <2>1 DEF ReceiptComes, Answered, AccountsOf
<1> QED
  BY <1>1, <1>2, <1>3, <1>4 DEF Next

\* No task waits for a receipt that cannot come: its transaction is on its way
\* or has made the account it is about to learn of, of whichever attempt.
THEOREM ReceiptComesCorrect == Spec => []ReceiptComes
<1>1. Init => ReceiptComes
  BY DEF Init, ReceiptComes
<1> QED
  BY <1>1, SpecInv, AnsweredNext, PTL DEF Spec

\* What is left of a task of which the step and the counter are known.
LEMMA Left ==
  ASSUME IInv, NEW k \in Keys
  PROVE  /\ retries[k] \in 0..(MaxRetries - 1) /\ MaxRetries \in Nat \ {0}
         /\ StepsLeft(k) \in 0..(4 * MaxRetries + 1)
         /\ step[k] = "new" => StepsLeft(k) = 4 * MaxRetries + 1
         /\ step[k] = "execute" => StepsLeft(k) = 4 * (MaxRetries - 1 - retries[k]) + 4
         /\ step[k] = "receipt" => StepsLeft(k) = 4 * (MaxRetries - 1 - retries[k]) + 3
         /\ step[k] = "info" => StepsLeft(k) = 4 * (MaxRetries - 1 - retries[k]) + 2
         /\ step[k] = "delay" => StepsLeft(k) = 4 * (MaxRetries - 1 - retries[k]) + 1
         /\ step[k] \in {"resolved", "rejected"} => StepsLeft(k) = 0
<1>1. retries[k] \in 0..(MaxRetries - 1) /\ MaxRetries \in Nat \ {0} /\ step[k] \in Steps
  BY MaxRetriesAssumption DEF IInv, TypeOK
<1> QED
  BY <1>1 DEF StepsLeft, Rank, Steps

\* A step of a task brings it nearer to its end and leaves the others alone.
LEMMA TaskDescends ==
  ASSUME IInv, IInv', NEW k \in Keys, Task(k)
  PROVE  /\ StepsLeft(k)' < StepsLeft(k)
         /\ \A j \in Keys : j # k => StepsLeft(j)' = StepsLeft(j)
         /\ StateLeft' <= StateLeft
<1>1. CASE StartOver(k)
  <2>1. /\ retries' = [retries EXCEPT ![k] = @ + 1] /\ step' = [step EXCEPT ![k] = "execute"]
        /\ step[k] = "delay" /\ outcome' = outcome
    BY <1>1 DEF StartOver, Goto
  <2>2. /\ step'[k] = "execute" /\ retries'[k] = retries[k] + 1
        /\ \A j \in Keys : j # k => step'[j] = step[j] /\ retries'[j] = retries[j]
    BY <2>1 DEF IInv, TypeOK
  <2>3. StepsLeft(k) = 4 * (MaxRetries - 1 - retries[k]) + 1 /\ retries[k] \in Int /\ MaxRetries \in Int
    BY <2>1, Left
  <2>4. StepsLeft(k)' = 4 * (MaxRetries - 1 - (retries[k] + 1)) + 4
    BY <2>2 DEF StepsLeft, Rank
  <2> QED
    BY <2>1, <2>2, <2>3, <2>4 DEF StepsLeft, StateLeft
<1>2. CASE ~StartOver(k)
  <2>1. PICK s \in Steps \ {"new", "execute"} :
          /\ step' = [step EXCEPT ![k] = s] /\ outcome' \in {outcome, "failed"}
          /\ UNCHANGED retries
          /\ \/ step[k] = "execute" /\ s \in {"receipt", "delay", "rejected"}
             \/ step[k] = "receipt" /\ s \in {"info", "rejected"}
             \/ step[k] = "info" /\ s \in {"resolved", "delay", "rejected"}
    BY <1>2 DEF Task, Execute, GetReceipt, QueryInfo, CatchOther, CatchRetryable, Reject, Goto,
                Steps
  <2>2. step'[k] = s /\ \A j \in Keys : j # k => step'[j] = step[j]
    BY <2>1 DEF IInv, TypeOK
  <2>3. retries[k] \in 0..(MaxRetries - 1) /\ MaxRetries \in Nat \ {0}
    BY Left
  <2>4. StepsLeft(k)' = IF s \in {"resolved", "rejected"} THEN 0
                        ELSE 4 * (MaxRetries - 1 - retries[k]) + Rank(s)
    BY <2>1, <2>2 DEF StepsLeft
  <2>5. StepsLeft(k)' < StepsLeft(k)
    BY <2>1, <2>3, <2>4, Left DEF Rank
  <2>6. \A j \in Keys : j # k => StepsLeft(j)' = StepsLeft(j)
    BY <2>1, <2>2 DEF StepsLeft
  <2> QED
    BY <2>1, <2>5, <2>6 DEF StateLeft, Alive
<1> QED
  BY <1>1, <1>2

LEMMA Descends ==
  ASSUME IInv, IInv', [Next]_vars
  PROVE  [GetsOn]_vars
<1> SUFFICES ASSUME Next PROVE GetsOn \/ UNCHANGED vars
  OBVIOUS
<1>1. (\A k \in Keys : StepsLeft(k) \in Nat /\ StepsLeft(k)' \in Nat) /\ StateLeft \in Nat
  <2>1. \A k \in Keys : StepsLeft(k) \in Nat
    BY Left
  <2>2. ASSUME NEW k \in Keys PROVE StepsLeft(k)' \in Nat
    <3>1. retries'[k] \in 0..(MaxRetries - 1) /\ MaxRetries \in Nat \ {0}
      BY MaxRetriesAssumption DEF IInv, TypeOK
    <3> QED
      BY <3>1 DEF StepsLeft, Rank
  <2> QED
    BY <2>1, <2>2 DEF StateLeft
<1>2. CASE \E k \in Keys : Task(k)
  <2>1. PICK k \in Keys : Task(k)
    BY <1>2
  <2> QED
    BY <1>1, <2>1, TaskDescends DEF GetsOn
<1>3. CASE Begin
  <2>1. outcome = "new" /\ outcome' \in {"pending", "finished"} /\ UNCHANGED retries
    BY <1>3 DEF Begin
  <2>2. \A k \in Keys : step[k] = "new" /\ step'[k] = "execute"
    BY <1>3 DEF Begin, IInv, NewInv
  <2>3. ASSUME NEW k \in Keys PROVE StepsLeft(k)' <= StepsLeft(k)
    <3>1. StepsLeft(k) = 4 * MaxRetries + 1 /\ retries[k] \in 0..(MaxRetries - 1) /\ MaxRetries \in Nat
      BY <2>2, Left
    <3>2. StepsLeft(k)' = 4 * (MaxRetries - 1 - retries[k]) + 4
      BY <2>1, <2>2 DEF StepsLeft, Rank
    <3> QED
      BY <3>1, <3>2
  <2> QED
    BY <2>1, <2>3 DEF GetsOn, StateLeft
<1>4. CASE \/ Finish \/ Exit \/ LoseNode \/ ReadmitNode
           \/ \E k \in Keys, n \in 0..MaxRetries : Consensus(k, n)
  <2>1. UNCHANGED <<step, retries>>
    BY <1>4 DEF Finish, Exit, LoseNode, ReadmitNode, Consensus, tasks
  <2>2. \A k \in Keys : StepsLeft(k)' = StepsLeft(k)
    BY <2>1 DEF StepsLeft
  <2>3. CASE Finish \/ Exit
    <3>1. StateLeft \in {1, 2} /\ StateLeft' = StateLeft - 1
      BY <2>3 DEF Finish, Exit, StateLeft
    <3> QED
      BY <1>1, <2>2, <3>1 DEF GetsOn
  <2>4. CASE LoseNode \/ ReadmitNode
    <3>1. healthy' # healthy /\ outcome' = outcome
      BY <2>4 DEF LoseNode, ReadmitNode
    <3> QED
      BY <1>1, <2>2, <3>1 DEF GetsOn, StateLeft
  <2>5. CASE \E k \in Keys, n \in 0..MaxRetries : Consensus(k, n)
    <3>1. sent' \subseteq sent /\ sent' # sent /\ outcome' = outcome
      BY <2>5 DEF Consensus
    <3> QED
      BY <1>1, <2>2, <3>1 DEF GetsOn, StateLeft
  <2> QED
    BY <1>4, <2>3, <2>4, <2>5
<1>5. CASE Done
  BY <1>5 DEF Done
<1> QED
  BY <1>2, <1>3, <1>4, <1>5 DEF Next

\* A task takes at most 4 * maxRetries + 1 steps, however its attempts end.
THEOREM StepsBounded == Spec => [](\A k \in Keys : StepsLeft(k) \in 0..(4 * MaxRetries + 1))
<1>1. IInv => \A k \in Keys : StepsLeft(k) \in 0..(4 * MaxRetries + 1)
  BY Left
<1> QED
  BY <1>1, SpecInv, PTL

\* No step takes a task or the state back, and each brings one of them, or the
\* network with what it has been sent, nearer to its end: only the node may be
\* lost and readmitted for ever.
THEOREM EveryStepDescends == Spec => [][GetsOn]_vars
<1>1. IInv /\ IInv' /\ [Next]_vars => [GetsOn]_vars
  BY Descends
<1> QED
  BY <1>1, SpecInv, PTL DEF Spec

=============================================================================
