------------------------ MODULE TestnetScriptsProofs ------------------------
(***************************************************************************)
(* What the scripts submit reaches the ledger at most once and in order,   *)
(* and completely when they report success, for any number of NFTs, any    *)
(* size of the batches, any number of attempts and whatever errors the     *)
(* calls raise; and how many steps it takes at most.                       *)
(***************************************************************************)
EXTENDS TestnetScripts, FiniteSetTheorems, SequenceTheorems, TLAPS

\* The ids that transactions have: no attempt makes one of its own.
Frozen == [call : Nat, attempt : {0}]

\* What is on its way has been submitted by this call, or by one that was
\* caught, and has not been carried out.
FlightInv ==
    /\ flight \subseteq Frozen
    /\ pos = 0 => flight = {}
    /\ \A t \in flight : t.call <= pos /\ IsTransaction(t.call)
    /\ \A n \in 1..Len(ledger) : ledger[n] \notin flight

LedgerInv ==
    /\ ledger \in Seq(Frozen)
    /\ \A n \in 1..Len(ledger) : ledger[n].call <= pos
    /\ \A m, n \in 1..Len(ledger) : ledger[m] = ledger[n] => m = n

IInv ==
    /\ pos \in Nat /\ (pos = 0 => at = "execute" /\ retries = 0)
    /\ FlightInv /\ LedgerInv /\ NothingLate /\ InOrder

-----------------------------------------------------------------------------

LEMMA SameCalls == ASSUME script' = script, alice' = alice PROVE Calls' = Calls
  BY DEF Calls, NftScript

\* Two ids of one call are the same id.
LEMMA OneId ==
  ASSUME NEW t \in Frozen, NEW u \in Frozen, t.call = u.call PROVE t = u
  BY DEF Frozen

LEMMA LedgerDomain == IInv => DOMAIN ledger = 1..Len(ledger)
  BY DEF IInv, LedgerInv

LEMMA InitInv == Init => IInv
  BY DEF Init, network, IInv, FlightInv, LedgerInv, NothingLate, InOrder, Frozen

LEMMA InvOnce == IInv => AtMostOnce
  <1>1. SUFFICES ASSUME IInv, NEW m \in 1..Len(ledger), NEW n \in 1..Len(ledger),
                        ledger[m].call = ledger[n].call
                 PROVE  m = n
    BY LedgerDomain DEF AtMostOnce
  <1>2. ledger[m] \in Frozen /\ ledger[n] \in Frozen
    BY <1>1 DEF IInv, LedgerInv
  <1> QED
    BY <1>1, <1>2, OneId DEF IInv, LedgerInv

\* A script that goes on, or ends with success, leaves nothing on its way that
\* it has not caught.
Leaves ==
    pos' # pos \/ outcome' = "done" =>
        \A t \in flight' : t.call = pos => Calls[pos].caught

\* A step of the script that may submit its transaction.
LEMMA ScriptStep ==
  ASSUME IInv, script' = script, alice' = alice, outcome = "running", pos > 0,
         pos' \in Nat, pos' >= pos, Leaves,
         (Submit /\ IsTransaction(pos)) \/ UNCHANGED network
  PROVE  IInv'
<1>1. Calls' = Calls
  BY SameCalls
<1>2. ledger' = ledger
  BY DEF Submit, network
<1>3. \A t \in flight' : t \in flight \/
        (t = [call |-> pos, attempt |-> 0] /\ IsTransaction(pos) /\ t \notin Carried)
  BY DEF Submit, network, Transaction, Id, Known
<1>4. DOMAIN ledger = 1..Len(ledger)
  BY LedgerDomain
<1>5. FlightInv'
  <2>1. \A t \in flight' : t \in Frozen
    BY <1>3 DEF IInv, FlightInv, Frozen
  <2>2. \A t \in flight' : t.call <= pos' /\ IsTransaction(t.call)'
    <3>1. ASSUME NEW t \in flight' PROVE t.call <= pos /\ t.call \in Nat /\ IsTransaction(t.call)
      BY <1>3 DEF IInv, FlightInv, Frozen
    <3>2. ASSUME NEW t \in flight' PROVE IsTransaction(t.call)'
      BY <3>1, <1>1 DEF IsTransaction
    <3> QED
      BY <3>1, <3>2 DEF IInv
  <2>3. \A n \in 1..Len(ledger) : ledger[n] \notin flight'
    BY <1>3, <1>4 DEF IInv, FlightInv, Carried
  <2>4. pos' # 0
    BY DEF IInv
  <2> QED
    BY <2>1, <2>2, <2>3, <2>4, <1>2 DEF FlightInv
<1>6. LedgerInv'
  <2>1. \A n \in 1..Len(ledger) : ledger[n].call <= pos'
    <3> SUFFICES ASSUME NEW n \in 1..Len(ledger) PROVE ledger[n].call <= pos'
      OBVIOUS
    <3>1. ledger[n] \in Frozen /\ ledger[n].call <= pos
      BY DEF IInv, LedgerInv
    <3> QED
      BY <3>1 DEF IInv, Frozen
  <2> QED
    BY <2>1, <1>2 DEF IInv, LedgerInv
<1>7. NothingLate'
  <2> SUFFICES ASSUME NEW t \in flight'
               PROVE  (t.call = pos' /\ outcome' # "done") \/ Calls[t.call].caught
    BY <1>1 DEF NothingLate
  <2>1. t.call = pos \/ Calls[t.call].caught
    BY <1>3 DEF IInv, NothingLate
  <2> QED
    BY <2>1 DEF Leaves
<1>8. InOrder'
  BY <1>1, <1>2 DEF IInv, InOrder
<1> QED
  BY <1>5, <1>6, <1>7, <1>8 DEF IInv

\* An error leaves behind only what the call it ends has caught.
LEMMA ThrowLeaves ==
  ASSUME pos \in Nat, Throw PROVE pos' \in Nat /\ pos' >= pos /\ Leaves
  BY DEF Throw, Proceed, Leaves

LEMMA FailsLeaves ==
  ASSUME pos \in Nat, outcome = "running", Fails
  PROVE  pos' \in Nat /\ pos' >= pos /\ Leaves
  BY ThrowLeaves DEF Fails, CatchBusy, Leaves

-----------------------------------------------------------------------------

\* What a step of the script has to keep to.
Going == script' = script /\ alice' = alice /\ pos' \in Nat /\ pos' >= pos /\ Leaves

LEMMA ExecuteStep == ASSUME IInv, Execute PROVE IInv'
<1>1. Going
  BY FailsLeaves DEF IInv, Execute, Going, Leaves
<1> QED
  BY <1>1, ScriptStep DEF Execute, Going

\* The receipt of a transaction comes after it has been carried out, and a call
\* has one transaction: nothing of it is left.
LEMMA GetReceiptStep == ASSUME IInv, GetReceipt PROVE IInv'
<1>1. pos \in Nat /\ pos > 0 /\ outcome = "running" /\ flight' = flight
  BY DEF IInv, GetReceipt, network
<1>2. CASE Transaction \in Carried /\ Return
  <2>1. \A t \in flight : t.call # pos
    <3> SUFFICES ASSUME NEW t \in flight, t.call = pos PROVE FALSE
      OBVIOUS
    <3>1. t = Transaction
      BY DEF IInv, FlightInv, Frozen, Transaction, Id
    <3> QED
      BY <3>1, <1>2, LedgerDomain DEF IInv, FlightInv, Carried
  <2>2. Going
    BY <1>1, <1>2, <2>1 DEF Return, Proceed, Going, Leaves, GetReceipt
  <2> QED
    BY <1>1, <2>2, ScriptStep DEF GetReceipt, Going
<1>3. CASE Fails
  <2>1. Going
    BY <1>1, <1>3, FailsLeaves DEF Going, GetReceipt
  <2> QED
    BY <1>1, <2>1, ScriptStep DEF GetReceipt, Going
<1> QED
  BY <1>2, <1>3 DEF GetReceipt

LEMMA DelayedStep == ASSUME IInv, Delayed PROVE IInv'
<1>1. Going
  BY ThrowLeaves DEF IInv, Delayed, Going, Leaves
<1> QED
  BY <1>1, ScriptStep DEF IInv, Delayed, Going

\* A call that submits nothing has nothing on its way.
LEMMA LookStep == ASSUME IInv, Look PROVE IInv'
<1>1. \A t \in flight' : t.call # pos
  BY DEF IInv, FlightInv, Look, network
<1>2. Going
  BY <1>1, ThrowLeaves DEF IInv, Look, Return, Proceed, Going, Leaves
<1> QED
  BY <1>2, ScriptStep DEF Look, Going

LEMMA BeginStep == ASSUME IInv, Begin PROVE IInv'
<1>1. Calls' = Calls
  BY SameCalls DEF Begin
<1>2. /\ flight = {} /\ flight' = {} /\ ledger' = ledger
      /\ pos = 0 /\ pos' \in {0, 1} /\ at' = at /\ retries' = retries
  BY DEF IInv, FlightInv, Begin, network
<1>3. LedgerInv'
  <2>1. \A n \in 1..Len(ledger) : ledger[n] \in Frozen /\ ledger[n].call <= 0
    BY <1>2 DEF IInv, LedgerInv
  <2>2. \A n \in 1..Len(ledger) : ledger[n].call <= pos'
    BY <1>2, <2>1 DEF Frozen
  <2> QED
    BY <1>2, <2>2 DEF IInv, LedgerInv
<1>4. FlightInv' /\ NothingLate'
  BY <1>2 DEF FlightInv, NothingLate
<1>5. InOrder'
  BY <1>1, <1>2 DEF IInv, InOrder
<1> QED
  BY <1>2, <1>3, <1>4, <1>5 DEF IInv

\* Consensus carries out what no place of the ledger holds, and what is not of
\* the call under way has been caught.
LEMMA ConsensusStep == ASSUME IInv, Consensus PROVE IInv'
<1>1. PICK t \in flight :
        /\ flight' = flight \ {t}
        /\ \/ ledger' = Append(ledger, t)
           \/ ledger' = ledger
  BY DEF Consensus
<1>2. /\ Calls' = Calls /\ pos' = pos /\ at' = at /\ outcome' = outcome
      /\ retries' = retries
  BY SameCalls DEF Consensus, control
<1>3. t \in Frozen /\ t.call <= pos /\ (t.call = pos \/ Calls[t.call].caught)
  BY DEF IInv, FlightInv, NothingLate
<1>4. NothingLate'
  BY <1>1, <1>2 DEF IInv, NothingLate
<1>5. flight' \subseteq Frozen /\ (pos' = 0 => flight' = {})
  BY <1>1, <1>2 DEF IInv, FlightInv
<1>6. \A u \in flight' : u.call <= pos' /\ IsTransaction(u.call)'
  BY <1>1, <1>2 DEF IInv, FlightInv, IsTransaction
<1>7. CASE ledger' = ledger
  BY <1>1, <1>2, <1>4, <1>5, <1>6, <1>7 DEF IInv, FlightInv, LedgerInv, InOrder
<1>8. CASE ledger' = Append(ledger, t)
  <2>1. /\ ledger \in Seq(Frozen) /\ ledger' \in Seq(Frozen)
        /\ Len(ledger') = Len(ledger) + 1 /\ Len(ledger) \in Nat
        /\ \A n \in 1..Len(ledger) : ledger'[n] = ledger[n]
        /\ ledger'[Len(ledger) + 1] = t
    BY <1>3, <1>8 DEF IInv, LedgerInv
  <2>2. \A n \in 1..Len(ledger) : ledger[n] # t /\ ledger[n] \notin flight
    BY DEF IInv, FlightInv
  <2>3. \A n \in 1..Len(ledger') : n \in 1..Len(ledger) \/ n = Len(ledger) + 1
    BY <2>1
  <2>4. FlightInv'
    <3>1. \A n \in 1..Len(ledger') : ledger'[n] \notin flight'
      BY <1>1, <2>1, <2>2, <2>3
    <3> QED
      BY <3>1, <1>5, <1>6 DEF FlightInv
  <2>5. LedgerInv'
    <3>1. \A n \in 1..Len(ledger') : ledger'[n].call <= pos'
      BY <1>2, <1>3, <2>1, <2>3 DEF IInv, LedgerInv
    <3>2. \A m, n \in 1..Len(ledger') : ledger'[m] = ledger'[n] => m = n
      BY <2>1, <2>2, <2>3 DEF IInv, LedgerInv
    <3> QED
      BY <2>1, <3>1, <3>2 DEF LedgerInv
  <2>6. InOrder'
    <3>1. DOMAIN ledger' = 1..Len(ledger') /\ DOMAIN ledger = 1..Len(ledger)
      BY <2>1, LedgerDomain
    <3> SUFFICES ASSUME NEW n \in 1..Len(ledger'), NEW m \in 1..n
                 PROVE  ledger'[m].call <= ledger'[n].call \/ Calls[ledger'[n].call].caught
      BY <3>1, <1>2 DEF InOrder
    <3>2. CASE n \in 1..Len(ledger)
      <4>1. m \in 1..Len(ledger)
        BY <3>2, <2>1
      <4> QED
        BY <4>1, <3>1, <3>2, <2>1 DEF IInv, InOrder
    <3>3. CASE n = Len(ledger) + 1
      <4>1. ledger'[m].call <= pos /\ pos \in Nat
        BY <1>3, <2>1, <2>3, <3>3 DEF IInv, LedgerInv
      <4> QED
        BY <4>1, <1>3, <2>1, <3>3
    <3> QED
      BY <2>3, <3>2, <3>3
  <2> QED
    BY <1>2, <1>4, <2>4, <2>5, <2>6 DEF IInv
<1> QED
  BY <1>1, <1>7, <1>8

LEMMA StutterStep == ASSUME IInv, UNCHANGED vars PROVE IInv'
<1>1. Calls' = Calls
  BY SameCalls DEF vars
<1> QED
  BY <1>1 DEF vars, control, network, IInv, FlightInv, LedgerInv, NothingLate, InOrder,
              IsTransaction

LEMMA NextInv == IInv /\ [Next]_vars => IInv'
  BY BeginStep, ExecuteStep, GetReceiptStep, DelayedStep, LookStep, ConsensusStep,
     StutterStep DEF Next, Main

LEMMA SpecInv == Spec => []IInv
  BY InitInv, NextInv, PTL DEF Spec

-----------------------------------------------------------------------------

\* No transaction that executeTransaction submits again after BUSY is carried
\* out twice, whatever became of the attempt before.
THEOREM AtMostOnceCorrect == Spec => []AtMostOnce
  BY SpecInv, InvOnce, PTL

\* The ledger has the script's own order, but for what index.js has caught.
THEOREM InOrderCorrect == Spec => []InOrder
<1>1. IInv => InOrder
  BY DEF IInv
<1> QED
  BY SpecInv, <1>1, PTL

\* When a script has failed at most its last transaction is undecided.
THEOREM NothingLateCorrect == Spec => []NothingLate
<1>1. IInv => NothingLate
  BY DEF IInv
<1> QED
  BY SpecInv, <1>1, PTL

-----------------------------------------------------------------------------
(* The calls of a script *)

Names ==
    { "treasury's balance", "Alice's balance", "account", "token", "mint", "associate",
      "transfer", "balance", "HelloHedera.json", "contract", "setGlobalMessage",
      "getGlobalMessage", "setMyMessage", "getMyMessage" }

CallType ==
    [how : {"once", "retried", "query", "read"}, what : Names, nfts : SUBSET Nat,
     caught : BOOLEAN]

NumBatches == (Metadata + MaxBatchSize - 1) \div MaxBatchSize

LEMMA EntryType ==
  ASSUME NEW S, NEW s \in Seq(S), NEW i \in 1..Len(s) PROVE s[i] \in S
  OBVIOUS

LEMMA Division ==
  ASSUME NEW a \in Nat, NEW n \in Nat \ {0}
  PROVE  a \div n \in Nat /\ n * (a \div n) <= a /\ a < n * ((a \div n) + 1)
  OBVIOUS

LEMMA Monotone ==
  ASSUME NEW a \in Nat, NEW b \in Nat, NEW n \in Nat, a <= b PROVE a * n <= b * n
  OBVIOUS

LEMMA BatchType ==
  ASSUME NEW first, NEW last, first..last \subseteq Nat
  PROVE  /\ Batch(first, last) \in CallType
         /\ Batch(first, last).how = "retried" /\ ~Batch(first, last).caught
         /\ Batch(first, last).nfts = first..last
<1> DEFINE slice == first..last
<1>1. slice \in SUBSET Nat
  OBVIOUS
<1>2. Batch(first, last) = [Call("retried", "mint") EXCEPT !.nfts = slice]
  BY DEF Batch
<1>3. /\ Call("retried", "mint") \in CallType
      /\ Call("retried", "mint").how = "retried" /\ ~Call("retried", "mint").caught
  <2>1. Call("retried", "mint") \in CallType
    BY DEF Call, CallType, Names
  <2>2. Call("retried", "mint").how = "retried"
    BY DEF Call
  <2>3. Call("retried", "mint").caught = FALSE
    BY DEF Call
  <2> QED
    BY <2>1, <2>2, <2>3
<1> HIDE DEF slice
<1>4. Batch(first, last) \in CallType
  BY <1>1, <1>2, <1>3 DEF CallType
<1>5. /\ Batch(first, last).how = "retried" /\ ~Batch(first, last).caught
      /\ Batch(first, last).nfts = slice
  BY <1>2, <1>3 DEF CallType
<1> QED
  BY <1>4, <1>5 DEF slice

LEMMA BatchesType ==
  /\ NumBatches \in Nat
  /\ MintBatches = [b \in 1..NumBatches |->
        Batch((b - 1) * MaxBatchSize + 1, Least(b * MaxBatchSize, Metadata))]
  /\ MintBatches \in Seq(CallType) /\ Len(MintBatches) = NumBatches
<1>1. NumBatches \in Nat
  BY Division, MetadataAssumption, MaxBatchSizeAssumption DEF NumBatches
<1>2. ASSUME NEW b \in 1..NumBatches
      PROVE  Batch((b - 1) * MaxBatchSize + 1, Least(b * MaxBatchSize, Metadata)) \in CallType
  <2>1. (b - 1) * MaxBatchSize \in Nat
    BY <1>1, MaxBatchSizeAssumption
  <2>2. ((b - 1) * MaxBatchSize + 1)..Least(b * MaxBatchSize, Metadata) \subseteq Nat
    BY <2>1, MetadataAssumption, MaxBatchSizeAssumption DEF Least
  <2> QED
    BY <2>2, BatchType
<1> QED
  BY <1>1, <1>2 DEF MintBatches, NumBatches

\* The batches are slices: each NFT is in one of them, and none is too large.
LEMMA Slices ==
  /\ \A nft \in 1..Metadata : \E b \in 1..NumBatches : nft \in MintBatches[b].nfts
  /\ \A b, c \in 1..NumBatches : \A nft \in Nat :
        nft \in MintBatches[b].nfts /\ nft \in MintBatches[c].nfts => b = c
  /\ \A b \in 1..NumBatches : Cardinality(MintBatches[b].nfts) <= MaxBatchSize
<1> USE MetadataAssumption, MaxBatchSizeAssumption
<1> DEFINE B == MaxBatchSize
<1>1. \A b \in 1..NumBatches :
        MintBatches[b].nfts = ((b - 1) * B + 1)..Least(b * B, Metadata)
  BY BatchesType DEF Batch, Call
<1>2. NumBatches \in Nat /\ Metadata + B - 1 < B * (NumBatches + 1)
  BY Division DEF NumBatches
<1>3. \A b \in Nat \ {0} : (b - 1) * B \in Nat /\ b * B = (b - 1) * B + B
  OBVIOUS
<1>4. ASSUME NEW nft \in 1..Metadata
      PROVE  \E b \in 1..NumBatches : nft \in MintBatches[b].nfts
  <2> DEFINE q == (nft - 1) \div B
  <2>1. q \in Nat /\ B * q <= nft - 1 /\ nft - 1 < B * (q + 1)
    BY Division
  <2> HIDE DEF q
  <2>2. q < NumBatches
    <3> SUFFICES ASSUME NumBatches <= q PROVE FALSE
      BY <1>2, <2>1
    <3>1. NumBatches * B <= q * B
      BY <1>2, <2>1, Monotone
    <3>2. B * (NumBatches + 1) = NumBatches * B + B /\ B * q = q * B
      BY <1>2, <2>1
    <3>3. NumBatches * B \in Nat /\ q * B \in Nat
      BY <1>2, <2>1
    <3> QED
      BY <1>2, <2>1, <3>1, <3>2, <3>3
  <2>3. nft \in (q * B + 1)..Least((q + 1) * B, Metadata)
    <3>1. q * B \in Nat /\ (q + 1) * B \in Nat /\ q * B = B * q /\ (q + 1) * B = B * (q + 1)
      BY <2>1
    <3> QED
      BY <2>1, <3>1 DEF Least
  <2>4. q + 1 \in 1..NumBatches /\ (q + 1) - 1 = q
    BY <1>2, <2>1, <2>2
  <2> QED
    BY <1>1, <2>3, <2>4
<1>5. ASSUME NEW b \in 1..NumBatches, NEW c \in 1..NumBatches, NEW nft \in Nat,
             nft \in MintBatches[b].nfts, nft \in MintBatches[c].nfts, b < c
      PROVE  FALSE
  <2>1. b \in Nat \ {0} /\ c \in Nat \ {0} /\ c - 1 \in Nat /\ b <= c - 1
    BY <1>2, <1>5
  <2>2. b * B <= (c - 1) * B /\ b * B \in Nat /\ (c - 1) * B \in Nat
    BY <2>1, Monotone
  <2>3. nft <= b * B
    BY <1>1, <1>5, <2>2 DEF Least
  <2>4. (c - 1) * B + 1 <= nft
    <3>1. nft \in ((c - 1) * B + 1)..Least(c * B, Metadata)
      BY <1>1, <1>5
    <3>2. (c - 1) * B + 1 \in Nat /\ Least(c * B, Metadata) \in Int
      BY <1>3, <2>1, <2>2 DEF Least
    <3> HIDE DEF B
    <3> QED
      BY <3>1, <3>2
  <2> QED
    BY <2>2, <2>3, <2>4
<1>6. ASSUME NEW b \in 1..NumBatches PROVE Cardinality(MintBatches[b].nfts) <= B
  <2>1. b \in Nat \ {0}
    BY <1>2
  <2> DEFINE first == (b - 1) * B + 1
             last == Least(b * B, Metadata)
  <2>2. first \in Nat /\ last \in Int /\ last <= first + B - 1
    BY <1>3, <2>1 DEF Least
  <2>3. MintBatches[b].nfts = first..last
    BY <1>1
  <2> HIDE DEF first, last
  <2>4. Cardinality(first..last) = IF first > last THEN 0 ELSE last - first + 1
    BY <2>2, FS_Interval
  <2> QED
    BY <2>2, <2>3, <2>4
<1>7. \A b, c \in 1..NumBatches : b < c \/ c < b \/ b = c
  BY <1>2
<1> QED
  BY <1>4, <1>5, <1>6, <1>7

-----------------------------------------------------------------------------
(* Where the batches are in nft.js: behind the account, if one is made, and *)
(* the token.                                                               *)

Plain(s) == s \in Seq(CallType) /\ \A i \in 1..Len(s) : s[i].nfts = {}

LEMMA PlainCall ==
  ASSUME NEW how \in {"once", "retried", "query", "read"}, NEW what \in Names
  PROVE  /\ Call(how, what) \in CallType /\ Call(how, what).nfts = {}
         /\ Caught(Call(how, what)) \in CallType /\ Caught(Call(how, what)).nfts = {}
<1>1. Call(how, what) = [how |-> how, what |-> what, nfts |-> {}, caught |-> FALSE]
  BY DEF Call
<1>2. Call(how, what) \in CallType /\ Call(how, what).nfts = {}
  BY <1>1 DEF CallType
<1>3. Caught(Call(how, what)) \in CallType /\ Caught(Call(how, what)).nfts = {}
  BY <1>2 DEF Caught, CallType
<1> QED
  BY <1>2, <1>3

LEMMA PlainOne ==
  ASSUME NEW c \in CallType, c.nfts = {} PROVE Plain(<<c>>) /\ Len(<<c>>) = 1
  BY DEF Plain

LEMMA PlainTwo ==
  ASSUME NEW c \in CallType, NEW d \in CallType, c.nfts = {}, d.nfts = {}
  PROVE  Plain(<<c, d>>) /\ Len(<<c, d>>) = 2
  BY DEF Plain

\* A sequence of calls with all batches behind the first k calls, and no other.
Sliced(s, k) ==
    /\ s \in Seq(CallType) /\ k + NumBatches <= Len(s)
    /\ \A b \in 1..NumBatches : s[k + b] = MintBatches[b]
    /\ \A i \in 1..Len(s) : i \in (k + 1)..(k + NumBatches) \/ s[i].nfts = {}

LEMMA Slicing ==
  ASSUME NEW s, Plain(s) PROVE Len(s) \in Nat /\ Sliced(s \o MintBatches, Len(s))
<1>1. s \in Seq(CallType) /\ MintBatches \in Seq(CallType) /\ Len(MintBatches) = NumBatches
      /\ NumBatches \in Nat /\ Len(s) \in Nat
  BY BatchesType DEF Plain
<1>2. /\ s \o MintBatches \in Seq(CallType)
      /\ Len(s \o MintBatches) = Len(s) + NumBatches
      /\ \A i \in 1..(Len(s) + NumBatches) :
            (s \o MintBatches)[i] = IF i <= Len(s) THEN s[i] ELSE MintBatches[i - Len(s)]
  BY <1>1, ConcatProperties
<1>3. \A b \in 1..NumBatches : (s \o MintBatches)[Len(s) + b] = MintBatches[b]
  BY <1>1, <1>2
<1>4. \A i \in 1..(Len(s) + NumBatches) :
        i \in (Len(s) + 1)..(Len(s) + NumBatches) \/ (s \o MintBatches)[i].nfts = {}
  BY <1>1, <1>2 DEF Plain
<1> QED
  BY <1>1, <1>2, <1>3, <1>4 DEF Sliced

LEMMA SlicedThenPlain ==
  ASSUME NEW s, NEW k \in Nat, NEW t, Sliced(s, k), Plain(t) PROVE Sliced(s \o t, k)
<1>1. /\ s \in Seq(CallType) /\ t \in Seq(CallType) /\ Len(s) \in Nat /\ Len(t) \in Nat
      /\ NumBatches \in Nat
  BY BatchesType DEF Sliced, Plain
<1>2. /\ s \o t \in Seq(CallType) /\ Len(s \o t) = Len(s) + Len(t)
      /\ \A i \in 1..(Len(s) + Len(t)) :
            (s \o t)[i] = IF i <= Len(s) THEN s[i] ELSE t[i - Len(s)]
  BY <1>1, ConcatProperties
<1>3. \A b \in 1..NumBatches : (s \o t)[k + b] = MintBatches[b]
  BY <1>1, <1>2 DEF Sliced
<1>4. ASSUME NEW i \in 1..(Len(s) + Len(t))
      PROVE  i \in (k + 1)..(k + NumBatches) \/ (s \o t)[i].nfts = {}
  <2>1. CASE i <= Len(s)
    BY <1>1, <1>2, <2>1 DEF Sliced
  <2>2. CASE i > Len(s)
    <3>1. i - Len(s) \in 1..Len(t) /\ (s \o t)[i] = t[i - Len(s)]
      BY <1>1, <1>2, <2>2
    <3> QED
      BY <3>1 DEF Plain
  <2> QED
    BY <1>1, <2>1, <2>2
<1> QED
  BY <1>1, <1>2, <1>3, <1>4 DEF Sliced

LEMMA PlainConcat ==
  ASSUME NEW s, NEW t, Plain(s), Plain(t) PROVE Plain(s \o t)
<1>1. /\ s \in Seq(CallType) /\ t \in Seq(CallType)
      /\ Len(s) \in Nat /\ Len(t) \in Nat
  BY DEF Plain
<1>2. /\ s \o t \in Seq(CallType) /\ Len(s \o t) = Len(s) + Len(t)
      /\ \A i \in 1..(Len(s) + Len(t)) :
            (s \o t)[i] = IF i <= Len(s) THEN s[i] ELSE t[i - Len(s)]
  BY <1>1, ConcatProperties
<1> QED
  BY <1>1, <1>2 DEF Plain

LEMMA NftSliced == \E k \in Nat \ {0} : Sliced(NftScript, k)
<1> DEFINE account == IF alice = "usable" THEN <<>> ELSE <<Call("once", "account")>>
           token == <<Call("retried", "token")>>
           associate == <<Call("once", "associate")>>
           transfer == <<Call("once", "transfer")>>
<1>1. Plain(account)
  <2>1. Plain(<<>>)
    BY DEF Plain
  <2>2. Plain(<<Call("once", "account")>>)
    BY PlainCall, PlainOne DEF Names
  <2> QED
    BY <2>1, <2>2
<1>2. Plain(token) /\ Plain(associate) /\ Plain(transfer)
  <2>1. /\ Call("retried", "token") \in CallType /\ Call("retried", "token").nfts = {}
        /\ Call("once", "associate") \in CallType /\ Call("once", "associate").nfts = {}
        /\ Call("once", "transfer") \in CallType /\ Call("once", "transfer").nfts = {}
    BY PlainCall DEF Names
  <2> QED
    BY <2>1, PlainOne
<1>3. Plain(Balances)
  <2>1. /\ Call("query", "treasury's balance") \in CallType
        /\ Call("query", "treasury's balance").nfts = {}
        /\ Call("query", "Alice's balance") \in CallType
        /\ Call("query", "Alice's balance").nfts = {}
    BY PlainCall DEF Names
  <2> QED
    BY <2>1, PlainTwo DEF Balances
<1>4. NftScript =
        account \o token \o MintBatches \o associate \o Balances \o transfer \o Balances
  BY DEF NftScript
<1> HIDE DEF account, token, associate, transfer
<1>5. PICK k \in Nat \ {0} : Sliced(account \o token \o MintBatches, k)
  <2>1. Plain(account \o token)
    BY <1>1, <1>2, PlainConcat
  <2>2. Len(account \o token) = Len(account) + 1 /\ Len(account) \in Nat
    <3>1. account \in Seq(CallType) /\ token \in Seq(CallType) /\ Len(token) = 1
      BY <1>1, <1>2 DEF Plain, token
    <3> QED
      BY <3>1, ConcatProperties
  <2> QED
    <3>1. Len(account \o token) \in Nat \ {0}
      BY <2>2
    <3> QED
      BY <2>1, <3>1, Slicing
<1>6. Sliced(account \o token \o MintBatches \o associate, k)
  BY <1>2, <1>5, SlicedThenPlain
<1>7. Sliced(account \o token \o MintBatches \o associate \o Balances, k)
  BY <1>3, <1>6, SlicedThenPlain
<1>8. Sliced(account \o token \o MintBatches \o associate \o Balances \o transfer, k)
  BY <1>2, <1>7, SlicedThenPlain
<1> QED
  BY <1>3, <1>4, <1>8, SlicedThenPlain

LEMMA SetupPlain == Plain(SetupScript) /\ Len(SetupScript) = 11
<1> DEFINE c == SetupScript
<1>1. Len(c) = 11 /\ c = [i \in 1..11 |-> c[i]]
  BY DEF SetupScript
<1>2. /\ c[1] = Call("once", "account") /\ c[2] = Call("query", "balance")
      /\ c[3] = Caught(Call("once", "token")) /\ c[4] = Caught(Call("once", "mint"))
      /\ c[5] = Call("query", "balance") /\ c[6] = Call("read", "HelloHedera.json")
      /\ c[7] = Call("once", "contract") /\ c[8] = Call("once", "setGlobalMessage")
      /\ c[9] = Call("query", "getGlobalMessage") /\ c[10] = Call("once", "setMyMessage")
      /\ c[11] = Call("query", "getMyMessage")
  BY DEF SetupScript
<1> HIDE DEF c
<1>3. \A i \in 1..11 : i = 1 \/ i = 2 \/ i = 3 \/ i = 4 \/ i = 5 \/ i = 6 \/ i = 7 \/ i = 8
                       \/ i = 9 \/ i = 10 \/ i = 11
  OBVIOUS
<1>4. \A i \in 1..11 : c[i] \in CallType /\ c[i].nfts = {}
  <2> DEFINE Fits(call) == call \in CallType /\ call.nfts = {}
  <2>1. Fits(c[1]) /\ Fits(c[7]) /\ Fits(c[8]) /\ Fits(c[10])
    BY <1>2, PlainCall DEF Names
  <2>4. Fits(c[3]) /\ Fits(c[4])
    BY <1>2, PlainCall DEF Names
  <2>2. Fits(c[2]) /\ Fits(c[5]) /\ Fits(c[6]) /\ Fits(c[9]) /\ Fits(c[11])
    BY <1>2, PlainCall DEF Names
  <2> HIDE DEF Fits
  <2>3. \A i \in 1..11 : Fits(c[i])
    BY <1>3, <2>1, <2>2, <2>4
  <2> QED
    BY <2>3 DEF Fits
<1>5. c \in Seq(CallType)
  BY <1>1, <1>4
<1> QED
  BY <1>1, <1>4, <1>5 DEF Plain, c

\* There are calls, each made in one of the four ways, and no batch is too large.
LEMMA CallsType ==
  /\ Len(Calls) \in Nat \ {0} /\ DOMAIN Calls = 1..Len(Calls)
  /\ \A p \in 1..Len(Calls) :
        /\ Calls[p].how \in {"once", "retried", "query", "read"}
        /\ Cardinality(Calls[p].nfts) <= MaxBatchSize
<1>1. Cardinality({}) = 0
  BY FS_EmptySet
<1>2. CASE script = "nft.js"
  <2>1. PICK k \in Nat \ {0} : Sliced(Calls, k)
    BY <1>2, NftSliced DEF Calls
  <2>2. Calls \in Seq(CallType) /\ NumBatches \in Nat
    BY <2>1, BatchesType DEF Sliced
  <2>5. Len(Calls) \in Nat \ {0} /\ DOMAIN Calls = 1..Len(Calls)
    BY <2>1, <2>2 DEF Sliced
  <2>3. ASSUME NEW p \in 1..Len(Calls) PROVE Cardinality(Calls[p].nfts) <= MaxBatchSize
    <3>1. CASE Calls[p].nfts = {}
      BY <1>1, <3>1, MaxBatchSizeAssumption
    <3>2. CASE p \in (k + 1)..(k + NumBatches)
      <4>1. p - k \in 1..NumBatches /\ k + (p - k) = p
        BY <2>2, <3>2
      <4> QED
        BY <2>1, <4>1, Slices DEF Sliced
    <3> QED
      BY <2>1, <3>1, <3>2 DEF Sliced
  <2>4. \A p \in 1..Len(Calls) : Calls[p] \in CallType
    BY <2>2, EntryType
  <2> QED
    BY <2>3, <2>4, <2>5 DEF CallType
<1>3. CASE script # "nft.js"
  <2>1. Plain(Calls)
    BY <1>3, SetupPlain DEF Calls
  <2>2. \A p \in 1..Len(Calls) : Calls[p] \in CallType /\ Calls[p].nfts = {}
    BY <2>1, EntryType DEF Plain
  <2>3. Len(Calls) \in Nat \ {0} /\ DOMAIN Calls = 1..Len(Calls)
    <3>1. Len(Calls) = 11
      BY <1>3, SetupPlain DEF Calls
    <3> QED
      BY <2>1, <3>1 DEF Plain
  <2>4. \A p \in 1..Len(Calls) : Calls[p].how \in {"once", "retried", "query", "read"}
    BY <2>2 DEF CallType
  <2>5. \A p \in 1..Len(Calls) : Cardinality(Calls[p].nfts) = 0
    BY <1>1, <2>2
  <2> QED
    BY <2>3, <2>4, <2>5, MaxBatchSizeAssumption
<1> QED
  BY <1>2, <1>3

-----------------------------------------------------------------------------
(* Types *)

ControlOK ==
    /\ pos \in 0..Len(Calls)
    /\ at \in {"execute", "receipt", "delay"}
    /\ outcome \in {"running", "done", "error"}
    /\ retries \in 0..(IF at = "delay" \/ outcome = "error" THEN MaxRetries ELSE MaxRetries - 1)
    /\ retries > 0 => Calls[pos].how = "retried"

NetworkOK == flight \cup refused \cup Carried \subseteq Ids

LEMMA TypeParts ==
  TypeOK <=> /\ script \in {"nft.js", "index.js"} /\ operator \in BOOLEAN
             /\ alice \in {"usable", "invalid", "missing"} /\ ControlOK /\ NetworkOK
  BY DEF TypeOK, ControlOK, NetworkOK

LEMMA ProceedType ==
  ASSUME ControlOK, outcome = "running", Calls' = Calls, NEW p \in 1..(Len(Calls) + 1),
         Proceed(p)
  PROVE  ControlOK'
  BY CallsType, MaxRetriesAssumption DEF ControlOK, Proceed

LEMMA ThrowType ==
  ASSUME ControlOK, outcome = "running", pos > 0, Calls' = Calls, Throw PROVE ControlOK'
<1>1. pos \in 1..Len(Calls) /\ Len(Calls) \in Nat
  BY CallsType DEF ControlOK
<1>2. CASE \E p \in pos..Len(Calls) : Proceed(p)
  BY <1>1, <1>2, ProceedType
<1>3. CASE outcome' = "error" /\ UNCHANGED <<pos, at, retries>>
  BY <1>3, MaxRetriesAssumption DEF ControlOK
<1> QED
  BY <1>2, <1>3 DEF Throw

LEMMA FailsType ==
  ASSUME ControlOK, outcome = "running", pos > 0, at # "delay", Calls' = Calls, Fails
  PROVE  ControlOK'
<1>1. CASE CatchBusy
  BY <1>1, MaxRetriesAssumption DEF ControlOK, CatchBusy
<1> QED
  BY <1>1, ThrowType DEF Fails

LEMMA ReturnType ==
  ASSUME ControlOK, outcome = "running", pos > 0, Calls' = Calls, Return PROVE ControlOK'
<1>1. pos + 1 \in 1..(Len(Calls) + 1)
  BY CallsType DEF ControlOK
<1> QED
  BY <1>1, ProceedType DEF Return

LEMMA SubmitType ==
  ASSUME ControlOK, pos > 0, NetworkOK, Calls' = Calls, Submit PROVE NetworkOK'
<1>1. Transaction \in Ids
  BY CallsType, MaxRetriesAssumption DEF ControlOK, Transaction, Id, Ids
<1>2. Ids' = Ids
  BY DEF Ids
<1>3. Carried' = Carried
  BY DEF Submit, Carried
<1> QED
  BY <1>1, <1>2, <1>3 DEF NetworkOK, Submit

LEMMA SameNetwork ==
  ASSUME NetworkOK, Calls' = Calls, UNCHANGED network PROVE NetworkOK'
  BY DEF NetworkOK, network, Carried, Ids

LEMMA SameControl ==
  ASSUME ControlOK, Calls' = Calls, UNCHANGED control PROVE ControlOK'
  BY DEF ControlOK, control

LEMMA TypeInit == Init => TypeOK
<1> SUFFICES ASSUME Init PROVE ControlOK /\ NetworkOK
  BY TypeParts DEF Init
<1>1. ControlOK
  BY CallsType, MaxRetriesAssumption DEF Init, ControlOK
<1>2. Carried = {}
  BY DEF Init, Carried
<1> QED
  BY <1>1, <1>2 DEF Init, NetworkOK

LEMMA TypeStep == ASSUME IInv, TypeOK, [Next]_vars PROVE TypeOK'
<1>1. /\ script' = script /\ alice' = alice /\ operator' = operator
  BY DEF Next, Main, Begin, Execute, GetReceipt, Delayed, Look, Consensus, vars
<1>2. Calls' = Calls
  BY <1>1, SameCalls
<1>3. ControlOK /\ NetworkOK /\ (at # "execute" => pos > 0)
  BY TypeParts DEF IInv
<1> SUFFICES ControlOK' /\ NetworkOK'
  BY <1>1, TypeParts DEF TypeOK, ControlOK, NetworkOK, Ids
<1>4. CASE Begin
  <2>1. ControlOK'
    <3>1. /\ retries' = 0 /\ at' = "execute" /\ pos' \in 0..1
          /\ outcome' \in {"running", "error"}
      BY <1>4 DEF IInv, Begin
    <3> QED
      BY <1>2, <3>1, CallsType, MaxRetriesAssumption DEF ControlOK
  <2> QED
    BY <1>2, <1>3, <1>4, <2>1, SameNetwork DEF Begin
<1>5. CASE Execute
  <2>1. NetworkOK'
    BY <1>2, <1>3, <1>5, SubmitType, SameNetwork DEF Execute
  <2>2. CASE at' = "receipt" /\ UNCHANGED <<pos, retries, outcome>>
    <3>1. retries \in 0..(MaxRetries - 1) /\ outcome' = "running"
      BY <1>3, <1>5, <2>2 DEF ControlOK, Execute
    <3> QED
      BY <1>2, <1>3, <2>1, <2>2, <3>1, MaxRetriesAssumption DEF ControlOK
  <2> QED
    BY <1>2, <1>3, <1>5, <2>1, <2>2, FailsType DEF Execute
<1>6. CASE GetReceipt
  BY <1>2, <1>3, <1>6, FailsType, ReturnType, SameNetwork DEF GetReceipt
<1>7. CASE Delayed
  <2>1. NetworkOK'
    BY <1>2, <1>3, <1>7, SameNetwork DEF Delayed
  <2>2. CASE retries < MaxRetries /\ at' = "execute" /\ UNCHANGED <<pos, retries, outcome>>
    <3>1. retries \in 0..(MaxRetries - 1) /\ outcome' = "running"
      BY <1>3, <1>7, <2>2, MaxRetriesAssumption DEF ControlOK, Delayed
    <3> QED
      BY <1>2, <1>3, <2>1, <2>2, <3>1, MaxRetriesAssumption DEF ControlOK
  <2> QED
    BY <1>2, <1>3, <1>7, <2>1, <2>2, ThrowType DEF Delayed
<1>8. CASE Look
  BY <1>2, <1>3, <1>8, ReturnType, ThrowType, SameNetwork DEF Look
<1>9. CASE Consensus
  <2>1. PICK t \in flight :
          /\ flight' = flight \ {t}
          /\ \/ ledger' = Append(ledger, t) /\ refused' = refused
             \/ refused' = refused \cup {t} /\ ledger' = ledger
    BY <1>9 DEF Consensus
  <2>2. Carried' \subseteq Carried \cup {t}
    <3>1. CASE ledger' = ledger
      BY <3>1 DEF Carried
    <3>2. CASE ledger' = Append(ledger, t)
      <4>1. /\ DOMAIN ledger' = 1..(Len(ledger) + 1) /\ DOMAIN ledger = 1..Len(ledger)
            /\ \A n \in DOMAIN ledger' :
                 ledger'[n] = IF n <= Len(ledger) THEN ledger[n] ELSE t
        BY <3>2 DEF IInv, LedgerInv
      <4> QED
        BY <4>1 DEF Carried, IInv, LedgerInv
    <3> QED
      BY <2>1, <3>1, <3>2
  <2>3. Ids' = Ids
    BY <1>2 DEF Ids
  <2> QED
    BY <1>2, <1>3, <1>9, <2>1, <2>2, <2>3, SameControl DEF Consensus, NetworkOK
<1>10. CASE UNCHANGED vars
  BY <1>2, <1>3, <1>10, SameNetwork, SameControl DEF vars
<1> QED
  BY <1>4, <1>5, <1>6, <1>7, <1>8, <1>9, <1>10 DEF Next, Main

LEMMA TypeSpec == Spec => []TypeOK
  BY TypeInit, TypeStep, SpecInv, PTL DEF Spec

\* Every variable has its type; executeTransaction makes at most MaxRetries
\* attempts, and no other call is repeated.
THEOREM TypeCorrect == Spec => []TypeOK
  BY TypeSpec

-----------------------------------------------------------------------------
(* What a script has done when it has got to a call, or to its end *)

\* A call lies behind the script that may not be skipped.
Passed(p) == (p < pos \/ outcome = "done") /\ IsTransaction(p) /\ ~Calls[p].caught

DoneInv == \A p \in 1..Len(Calls) : Passed(p) => \E t \in Carried : t.call = p

\* A script that goes on from a call has skipped, or it has seen the receipt.
LEMMA PassedStep ==
  ASSUME TypeOK, DoneInv, Calls' = Calls, Carried \subseteq Carried', outcome = "running",
         \A p \in 1..Len(Calls) : Passed(p)' =>
            Passed(p) \/ \E t \in Carried : t.call = p
  PROVE  DoneInv'
  BY DEF DoneInv

\* Nothing is passed when the script stays at its call or fails there.
LEMMA PassedStays ==
  ASSUME Calls' = Calls, pos' = pos, outcome' # "done", NEW p \in 1..Len(Calls), Passed(p)'
  PROVE  Passed(p)
  BY DEF Passed, IsTransaction

LEMMA PassedThrow ==
  ASSUME TypeOK, outcome = "running", pos > 0, Calls' = Calls, Throw,
         NEW p \in 1..Len(Calls), Passed(p)'
  PROVE  Passed(p)
<1>1. pos \in 1..Len(Calls) /\ Len(Calls) \in Nat
  BY CallsType DEF TypeOK
<1>2. CASE ~Calls[pos].caught
  BY <1>2, PassedStays DEF Throw
<1>3. CASE Calls[pos].caught
  <2>1. PICK q \in pos..Len(Calls) :
          (\A r \in pos..(q - 1) : Calls[r].caught) /\ Proceed(q)
    BY <1>3 DEF Throw
  <2>2. pos' = q /\ outcome' = "running"
    BY <1>1, <2>1 DEF Proceed
  <2>3. p < q /\ ~Calls[p].caught /\ IsTransaction(p)
    BY <2>2 DEF Passed, IsTransaction
  <2>4. p < pos
    BY <1>1, <2>1, <2>3
  <2> QED
    BY <2>3, <2>4 DEF Passed
<1> QED
  BY <1>2, <1>3

LEMMA PassedFails ==
  ASSUME TypeOK, outcome = "running", pos > 0, Calls' = Calls, Fails,
         NEW p \in 1..Len(Calls), Passed(p)'
  PROVE  Passed(p)
<1>1. CASE CatchBusy
  BY <1>1, PassedStays DEF CatchBusy
<1> QED
  BY <1>1, PassedThrow DEF Fails

LEMMA PassedReturn ==
  ASSUME TypeOK, outcome = "running", pos > 0, Calls' = Calls, Return,
         NEW p \in 1..Len(Calls), Passed(p)'
  PROVE  Passed(p) \/ (p = pos /\ IsTransaction(p))
<1>1. pos \in 1..Len(Calls) /\ Len(Calls) \in Nat
  BY CallsType DEF TypeOK
<1>2. IsTransaction(p) /\ ~Calls[p].caught /\ (p < pos' \/ outcome' = "done")
  BY DEF Passed, IsTransaction
<1>3. p <= pos
  BY <1>1, <1>2 DEF Return, Proceed
<1> QED
  BY <1>1, <1>2, <1>3 DEF Passed

LEMMA DoneInit == Init => DoneInv
  BY DEF Init, DoneInv, Passed

LEMMA DoneStep == ASSUME IInv, TypeOK, DoneInv, [Next]_vars PROVE DoneInv'
<1>1. script' = script /\ alice' = alice
  BY DEF Next, Main, Begin, Execute, GetReceipt, Delayed, Look, Consensus, vars
<1>2. Calls' = Calls /\ (at # "execute" => pos > 0)
  BY <1>1, SameCalls DEF IInv
<1>3. CASE Begin
  <2>1. Carried' = Carried /\ outcome = "running"
    BY <1>3 DEF Begin, network, Carried
  <2>2. pos' \in 0..1 /\ outcome' # "done"
    BY <1>3 DEF Begin
  <2>3. \A p \in 1..Len(Calls) : ~Passed(p)'
    BY <2>2, CallsType DEF Passed
  <2> QED
    BY <1>2, <2>1, <2>3, PassedStep
<1>4. CASE Execute
  <2>1. Carried' = Carried /\ outcome = "running" /\ pos > 0
    BY <1>4 DEF Execute, Submit, network, Carried
  <2>2. \A p \in 1..Len(Calls) : Passed(p)' => Passed(p)
    BY <1>2, <1>4, <2>1, PassedStays, PassedFails DEF Execute
  <2> QED
    BY <1>2, <2>1, <2>2, PassedStep
<1>5. CASE GetReceipt
  <2>1. Carried' = Carried /\ outcome = "running" /\ pos > 0
    BY <1>2, <1>5 DEF GetReceipt, network, Carried
  <2>2. CASE Fails
    <3>1. \A p \in 1..Len(Calls) : Passed(p)' => Passed(p)
      BY <1>2, <2>1, <2>2, PassedFails
    <3> QED
      BY <1>2, <2>1, <3>1, PassedStep
  <2>3. CASE Transaction \in Carried /\ Return
    <3>1. \E t \in Carried : t.call = pos
      BY <2>3 DEF Transaction, Id
    <3>2. \A p \in 1..Len(Calls) : Passed(p)' => Passed(p) \/ p = pos
      BY <1>2, <2>1, <2>3, PassedReturn
    <3> QED
      BY <1>2, <2>1, <3>1, <3>2, PassedStep
  <2> QED
    BY <1>5, <2>2, <2>3 DEF GetReceipt
<1>6. CASE Delayed
  <2>1. Carried' = Carried /\ outcome = "running" /\ pos > 0
    BY <1>2, <1>6 DEF Delayed, network, Carried
  <2>2. \A p \in 1..Len(Calls) : Passed(p)' => Passed(p)
    BY <1>2, <1>6, <2>1, PassedStays, PassedThrow DEF Delayed
  <2> QED
    BY <1>2, <2>1, <2>2, PassedStep
<1>7. CASE Look
  <2>1. Carried' = Carried /\ outcome = "running" /\ pos > 0 /\ ~IsTransaction(pos)
    BY <1>7 DEF Look, network, Carried
  <2>2. \A p \in 1..Len(Calls) : Passed(p)' => Passed(p)
    BY <1>2, <1>7, <2>1, PassedReturn, PassedThrow DEF Look
  <2> QED
    BY <1>2, <2>1, <2>2, PassedStep
<1>8. CASE Consensus
  <2>1. \E t : ledger' = ledger \/ ledger' = Append(ledger, t)
    BY <1>8 DEF Consensus
  <2>2. Carried \subseteq Carried'
    BY <2>1 DEF IInv, LedgerInv, Carried
  <2>3. pos' = pos /\ outcome' = outcome
    BY <1>8 DEF Consensus, control
  <2>4. \A p \in 1..Len(Calls) : Passed(p)' => Passed(p)
    BY <1>2, <2>3 DEF Passed, IsTransaction
  <2> QED
    BY <1>2, <2>2, <2>4 DEF DoneInv
<1>9. CASE UNCHANGED vars
  <2>1. pos' = pos /\ outcome' = outcome /\ Carried' = Carried
    BY <1>9 DEF vars, control, network, Carried
  <2>2. \A p \in 1..Len(Calls) : Passed(p)' => Passed(p)
    BY <1>2, <2>1 DEF Passed, IsTransaction
  <2> QED
    BY <1>2, <2>1, <2>2 DEF DoneInv
<1> QED
  BY <1>3, <1>4, <1>5, <1>6, <1>7, <1>8, <1>9 DEF Next, Main

LEMMA DoneSpec == Spec => []DoneInv
  BY DoneInit, DoneStep, SpecInv, TypeSpec, PTL DEF Spec

\* The batch of an NFT is the only call that mints it.
LEMMA OneBatch ==
  ASSUME script = "nft.js", NEW nft \in 1..Metadata
  PROVE  \E p \in 1..Len(Calls) :
            /\ nft \in Calls[p].nfts /\ IsTransaction(p) /\ ~Calls[p].caught
            /\ \A q \in 1..Len(Calls) : nft \in Calls[q].nfts => q = p
<1>1. PICK k \in Nat \ {0} : Sliced(Calls, k)
  BY NftSliced DEF Calls
<1>2. PICK b \in 1..NumBatches : nft \in MintBatches[b].nfts
  BY Slices
<1>3. NumBatches \in Nat /\ Len(Calls) \in Nat /\ nft \in Nat
  BY BatchesType, CallsType, MetadataAssumption
<1>4. k + b \in 1..Len(Calls) /\ Calls[k + b] = MintBatches[b]
  BY <1>1, <1>3 DEF Sliced
<1>5. MintBatches[b].how = "retried" /\ ~MintBatches[b].caught
  <2>1. MintBatches[b] = Batch((b - 1) * MaxBatchSize + 1, Least(b * MaxBatchSize, Metadata))
    BY BatchesType
  <2>2. (b - 1) * MaxBatchSize \in Nat
    BY <1>3, MaxBatchSizeAssumption
  <2>3. ((b - 1) * MaxBatchSize + 1)..Least(b * MaxBatchSize, Metadata) \subseteq Nat
    BY <2>2, MetadataAssumption, MaxBatchSizeAssumption DEF Least
  <2> QED
    BY <2>1, <2>3, BatchType
<1>6. ASSUME NEW q \in 1..Len(Calls), nft \in Calls[q].nfts PROVE q = k + b
  <2>1. q \in (k + 1)..(k + NumBatches)
    BY <1>1, <1>6 DEF Sliced
  <2>2. q - k \in 1..NumBatches /\ k + (q - k) = q
    BY <1>3, <2>1
  <2>3. nft \in MintBatches[q - k].nfts
    BY <1>1, <1>6, <2>2 DEF Sliced
  <2>4. q - k = b
    BY <1>2, <1>3, <2>2, <2>3, Slices
  <2> QED
    BY <1>3, <2>2, <2>4
<1> QED
  BY <1>2, <1>4, <1>5, <1>6 DEF IsTransaction

\* "NFT script completed successfully" is true: every transaction that is not
\* caught has been carried out, every NFT minted by exactly one batch, and no
\* batch is larger than the network takes.
THEOREM CompleteOnSuccessCorrect == Spec => []CompleteOnSuccess
<1>1. ASSUME IInv, TypeOK, DoneInv PROVE CompleteOnSuccess
  <2> SUFFICES ASSUME outcome = "done"
               PROVE  /\ \A p \in 1..Len(Calls) : IsTransaction(p) /\ ~Calls[p].caught =>
                            \E t \in Carried : t.call = p
                      /\ script = "nft.js" =>
                            \A nft \in 1..Metadata : Cardinality(Minted(nft)) = 1
                      /\ \A p \in 1..Len(Calls) : Cardinality(Calls[p].nfts) <= MaxBatchSize
    BY CallsType DEF CompleteOnSuccess
  <2>1. \A p \in 1..Len(Calls) : IsTransaction(p) /\ ~Calls[p].caught =>
            \E t \in Carried : t.call = p
    BY <1>1 DEF DoneInv, Passed
  <2>2. ASSUME script = "nft.js", NEW nft \in 1..Metadata PROVE Cardinality(Minted(nft)) = 1
    <3>1. PICK p \in 1..Len(Calls) :
            /\ nft \in Calls[p].nfts /\ IsTransaction(p) /\ ~Calls[p].caught
            /\ \A q \in 1..Len(Calls) : nft \in Calls[q].nfts => q = p
      BY <2>2, OneBatch
    <3>2. PICK n \in DOMAIN ledger : ledger[n].call = p
      BY <2>1, <3>1 DEF Carried
    <3>3. \A m \in DOMAIN ledger : ledger[m].call \in 1..Len(Calls)
      BY <1>1 DEF TypeOK, Carried, Ids
    <3>4. \A m \in Minted(nft) : m = n
      BY <1>1, <3>1, <3>2, <3>3, InvOnce DEF Minted, AtMostOnce
    <3>5. Minted(nft) = {n}
      BY <3>1, <3>2, <3>4 DEF Minted
    <3> QED
      BY <3>5, FS_Singleton
  <2> QED
    BY <2>1, <2>2, CallsType
<1> QED
  BY <1>1, SpecInv, TypeSpec, DoneSpec, PTL

-----------------------------------------------------------------------------
(* Every script comes to an end.  That a step is taken at all is the        *)
(* fairness of FairSpec; here, that the script does not go on for ever.     *)

\* The steps a call has left with its attempts, and the most a call takes.
CallLeft ==
    3 * (MaxRetries - retries) +
    (IF at = "execute" THEN 2 ELSE IF at = "receipt" THEN 1 ELSE 3)

CallSteps == 3 * MaxRetries + 3

StepsLeft ==
    IF outcome # "running" THEN 0 ELSE (Len(Calls) - pos) * CallSteps + CallLeft

LEMMA CallLeftType ==
  ASSUME ControlOK
  PROVE  /\ retries \in 0..MaxRetries /\ MaxRetries \in Nat \ {0}
         /\ CallLeft \in 1..CallSteps /\ CallSteps \in Nat
         /\ Len(Calls) - pos \in Nat /\ Len(Calls) \in Nat /\ pos \in Nat
<1>1. retries \in 0..MaxRetries /\ MaxRetries \in Nat \ {0}
  BY MaxRetriesAssumption DEF ControlOK
<1>2. CallLeft \in 1..CallSteps /\ CallSteps \in Nat
  BY <1>1 DEF CallLeft, CallSteps
<1>3. Len(Calls) - pos \in Nat /\ Len(Calls) \in Nat /\ pos \in Nat
  BY CallsType DEF ControlOK
<1> QED
  BY <1>1, <1>2, <1>3

\* A call that lies ahead costs all the steps it may take.
LEMMA Further ==
  ASSUME NEW a \in Nat, NEW b \in Nat, a < b, NEW w \in Nat
  PROVE  a * w + w <= b * w /\ a * w \in Nat /\ b * w \in Nat
<1>1. a + 1 \in Nat /\ a + 1 <= b
  OBVIOUS
<1>2. (a + 1) * w <= b * w
  BY <1>1, Monotone
<1>3. (a + 1) * w = a * w + w
  OBVIOUS
<1>4. a * w \in Nat /\ b * w \in Nat
  OBVIOUS
<1> QED
  BY <1>2, <1>3, <1>4

LEMMA StepsLeftType ==
  ASSUME ControlOK
  PROVE  /\ StepsLeft \in 0..(Len(Calls) * CallSteps + CallSteps)
         /\ outcome = "running" => StepsLeft > 0
<1>1. /\ CallLeft \in 1..CallSteps /\ CallSteps \in Nat
      /\ Len(Calls) - pos \in Nat /\ Len(Calls) \in Nat /\ pos \in Nat
  BY CallLeftType
<1>2. (Len(Calls) - pos) * CallSteps <= Len(Calls) * CallSteps
  BY <1>1, Monotone
<1>3. (Len(Calls) - pos) * CallSteps \in Nat /\ Len(Calls) * CallSteps \in Nat
  BY <1>1
<1> QED
  BY <1>1, <1>2, <1>3 DEF StepsLeft

\* Another attempt at the same call, or the await behind this one.
LEMMA CallDescends ==
  ASSUME ControlOK, ControlOK', Calls' = Calls, outcome = "running", outcome' = "running",
         pos' = pos,
         \/ at = "execute" /\ at' = "receipt" /\ retries' = retries
         \/ at = "delay" /\ at' = "execute" /\ retries' = retries
         \/ at # "delay" /\ at' = "delay" /\ retries' = retries + 1
  PROVE  StepsLeft' < StepsLeft
<1>1. /\ retries \in Nat /\ MaxRetries \in Nat /\ CallLeft \in Nat /\ CallSteps \in Nat
      /\ Len(Calls) - pos \in Nat
  BY CallLeftType
<1>2. CallLeft' < CallLeft /\ CallLeft' \in Int
  <2>1. CASE at = "execute" /\ at' = "receipt" /\ retries' = retries
    BY <1>1, <2>1 DEF CallLeft
  <2>2. CASE at = "delay" /\ at' = "execute" /\ retries' = retries
    BY <1>1, <2>2 DEF CallLeft
  <2>3. CASE at # "delay" /\ at' = "delay" /\ retries' = retries + 1
    <3>1. CallLeft >= 3 * (MaxRetries - retries) + 1
      BY <1>1, <2>3 DEF CallLeft
    <3>2. CallLeft' = 3 * (MaxRetries - (retries + 1)) + 3
      BY <2>3 DEF CallLeft
    <3> QED
      BY <1>1, <3>1, <3>2
  <2> QED
    BY <2>1, <2>2, <2>3
<1>3. (Len(Calls) - pos) * CallSteps \in Nat
  BY <1>1
<1>4. StepsLeft = (Len(Calls) - pos) * CallSteps + CallLeft
  BY DEF StepsLeft
<1>5. StepsLeft' = (Len(Calls) - pos) * CallSteps + CallLeft'
  BY DEF StepsLeft, CallSteps
<1> QED
  BY <1>1, <1>2, <1>3, <1>4, <1>5

\* The script goes on at a later call, or ends.
LEMMA ScriptDescends ==
  ASSUME ControlOK, ControlOK', Calls' = Calls, outcome = "running",
         outcome' # "running" \/ (pos' > pos /\ at' = "execute" /\ retries' = 0)
  PROVE  StepsLeft' < StepsLeft
<1>1. CASE outcome' # "running"
  <2>1. StepsLeft > 0
    BY StepsLeftType
  <2> QED
    BY <1>1, <2>1 DEF StepsLeft
<1>2. CASE pos' > pos /\ at' = "execute" /\ retries' = 0 /\ outcome' = "running"
  <2>1. /\ MaxRetries \in Nat /\ CallLeft \in 1..CallSteps /\ CallSteps \in Nat
        /\ Len(Calls) - pos \in Nat /\ Len(Calls) \in Nat /\ pos \in Nat
    BY CallLeftType
  <2>2. pos' \in 0..Len(Calls)
    BY DEF ControlOK
  <2>3. Len(Calls) - pos' \in Nat /\ Len(Calls) - pos' < Len(Calls) - pos
    BY <1>2, <2>1, <2>2
  <2>4. /\ (Len(Calls) - pos') * CallSteps + CallSteps <= (Len(Calls) - pos) * CallSteps
        /\ (Len(Calls) - pos') * CallSteps \in Nat /\ (Len(Calls) - pos) * CallSteps \in Nat
    BY <2>1, <2>3, Further
  <2>5. StepsLeft = (Len(Calls) - pos) * CallSteps + CallLeft
    BY DEF StepsLeft
  <2>6. CallLeft' = 3 * MaxRetries + 2
    BY <1>2, <2>1 DEF CallLeft
  <2>7. StepsLeft' = (Len(Calls) - pos') * CallSteps + CallLeft'
    BY <1>2 DEF StepsLeft, CallSteps
  <2>8. CallLeft' < CallSteps /\ CallLeft' \in Nat
    BY <2>1, <2>6 DEF CallSteps
  <2> QED
    BY <2>1, <2>4, <2>5, <2>7, <2>8
<1> QED
  BY <1>1, <1>2

LEMMA ThrowDescends ==
  ASSUME ControlOK, ControlOK', Calls' = Calls, outcome = "running", pos > 0, Throw
  PROVE  StepsLeft' < StepsLeft
<1>1. CASE ~Calls[pos].caught
  BY <1>1, ScriptDescends DEF Throw
<1>2. CASE Calls[pos].caught
  <2>1. PICK p \in pos..Len(Calls) : ~Calls[p].caught /\ Proceed(p)
    BY <1>2 DEF Throw
  <2>2. p > pos
    BY <1>2, <2>1, CallLeftType
  <2> QED
    BY <2>1, <2>2, ScriptDescends DEF Proceed
<1> QED
  BY <1>1, <1>2

LEMMA MainDescends ==
  ASSUME IInv, TypeOK, TypeOK', Main, Calls' = Calls PROVE StepsLeft' < StepsLeft
<1>1. ControlOK /\ ControlOK' /\ (at # "execute" => pos > 0)
  BY TypeParts DEF IInv, TypeOK, ControlOK
<1>2. outcome = "running" /\ pos \in Nat
  BY <1>1, CallLeftType DEF Main, Begin, Execute, GetReceipt, Delayed, Look
<1>3. ASSUME Return PROVE StepsLeft' < StepsLeft
  <2>1. at' = "execute" /\ retries' = 0 /\ (pos' = pos + 1 \/ outcome' = "done")
    BY <1>3 DEF Return, Proceed
  <2> QED
    BY <1>1, <1>2, <2>1, ScriptDescends
<1>4. ASSUME Fails, at # "delay", pos > 0 PROVE StepsLeft' < StepsLeft
  <2>1. CASE CatchBusy
    BY <1>1, <1>2, <1>4, <2>1, CallDescends DEF CatchBusy
  <2>2. CASE Throw
    BY <1>1, <1>2, <1>4, <2>2, ThrowDescends
  <2> QED
    BY <1>4, <2>1, <2>2 DEF Fails
<1>5. CASE Begin
  <2>1. pos = 0 /\ UNCHANGED <<at, retries>> /\ (pos' = 1 \/ outcome' = "error")
    BY <1>5 DEF Begin
  <2>2. at = "execute" /\ retries = 0
    BY <2>1 DEF IInv
  <2> QED
    BY <1>1, <1>2, <2>1, <2>2, ScriptDescends
<1>6. CASE Execute
  <2>1. CASE at' = "receipt" /\ UNCHANGED <<pos, retries, outcome>>
    BY <1>1, <1>2, <1>6, <2>1, CallDescends DEF Execute
  <2> QED
    BY <1>4, <1>6, <2>1 DEF Execute
<1>7. CASE GetReceipt
  BY <1>1, <1>3, <1>4, <1>7 DEF GetReceipt
<1>8. CASE Delayed
  <2>1. CASE at' = "execute" /\ UNCHANGED <<pos, retries, outcome>>
    BY <1>1, <1>2, <1>8, <2>1, CallDescends DEF Delayed
  <2>2. CASE Throw
    BY <1>1, <1>2, <1>8, <2>2, ThrowDescends DEF Delayed
  <2> QED
    BY <1>8, <2>1, <2>2 DEF Delayed
<1>9. CASE Look
  BY <1>1, <1>2, <1>3, <1>9, ThrowDescends DEF Look
<1> QED
  BY <1>5, <1>6, <1>7, <1>8, <1>9 DEF Main

\* A script takes at most 3 * MAX_RETRIES + 3 steps for each of its calls and as
\* many to begin with.
THEOREM StepsBounded == Spec => [](StepsLeft \in 0..(Len(Calls) * CallSteps + CallSteps))
<1>1. TypeOK => StepsLeft \in 0..(Len(Calls) * CallSteps + CallSteps)
  BY StepsLeftType, TypeParts
<1> QED
  BY <1>1, TypeSpec, PTL

\* Each step of a script brings it nearer to its end, whatever errors it meets,
\* and the network decides on what it was sent, one transaction after the other:
\* busy for ever or not, there is no endless loop in executeTransaction.
THEOREM EveryStepDescends ==
  Spec => [][\/ StepsLeft' < StepsLeft
             \/ StepsLeft' = StepsLeft /\ \E t \in flight : flight' = flight \ {t}]_vars
<1>1. ASSUME IInv, TypeOK, TypeOK', [Next]_vars
      PROVE  [\/ StepsLeft' < StepsLeft
              \/ StepsLeft' = StepsLeft /\ \E t \in flight : flight' = flight \ {t}]_vars
  <2>1. Main \/ Consensus => Calls' = Calls
    BY SameCalls DEF Main, Begin, Execute, GetReceipt, Delayed, Look, Consensus
  <2>2. CASE Main
    BY <1>1, <2>1, <2>2, MainDescends
  <2>3. CASE Consensus
    <3>1. \E t \in flight : flight' = flight \ {t}
      BY <2>3 DEF Consensus
    <3>2. StepsLeft' = StepsLeft
      BY <2>1, <2>3 DEF Consensus, control, StepsLeft, CallLeft, CallSteps
    <3> QED
      BY <3>1, <3>2
  <2> QED
    BY <1>1, <2>2, <2>3 DEF Next
<1> QED
  BY <1>1, SpecInv, TypeSpec, PTL DEF Spec

=============================================================================
