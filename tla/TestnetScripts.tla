--------------------------- MODULE TestnetScripts ---------------------------
(***************************************************************************)
(* nft.js and index.js: each runs a fixed sequence of calls to a public    *)
(* network, one after the other.  A step is what runs between two awaits.  *)
(* A call may submit its transaction again, and an error says little about *)
(* a transaction that is on its way.                                       *)
(***************************************************************************)
EXTENDS Naturals, Sequences, FiniteSets

CONSTANTS
    Metadata,       \* number of NFTs to mint: the CIDs of nft.js
    MaxBatchSize,   \* MAX_BATCH_SIZE
    MaxRetries      \* MAX_RETRIES

ASSUME MetadataAssumption == Metadata \in Nat
ASSUME MaxBatchSizeAssumption == MaxBatchSize \in Nat \ {0}
ASSUME MaxRetriesAssumption == MaxRetries \in Nat \ {0}

VARIABLES
    script,     \* which script runs
    operator,   \* are there usable credentials for the operator in .env?
    alice,      \* and for Alice: "usable", "invalid" or "missing"
    pos,        \* the call that is under way (0: none yet)
    at,         \* where in it: "execute", "receipt" or "delay"
    retries,    \* of executeTransaction
    outcome,    \* "running", "done" (the last call has returned) or "error"
    flight,     \* transactions submitted that the network has not decided
    refused,    \* those it has refused
    ledger      \* those it has carried out, in their order

control == <<pos, at, retries, outcome>>
network == <<flight, refused, ledger>>
vars == <<script, operator, alice, control, network>>

-----------------------------------------------------------------------------
(* The scripts.  How a call is made: "once" and "retried" (by              *)
(* executeTransaction) submit a transaction and await its receipt, "query" *)
(* and "read" have no effect.  Of a caught call an error is logged, and    *)
(* the script goes on behind the try block.                                *)

Call(how, what) == [how |-> how, what |-> what, nfts |-> {}, caught |-> FALSE]
Caught(call) == [call EXCEPT !.caught = TRUE]

Batch(first, last) == [Call("retried", "mint") EXCEPT !.nfts = first..last]
Least(m, n) == IF m <= n THEN m ELSE n

\* Mutant of MintBatches: only batches that are full.
MintBatches_FullOnly ==
    [b \in 1..(Metadata \div MaxBatchSize) |->
        Batch((b - 1) * MaxBatchSize + 1, b * MaxBatchSize)]

\* mintNFTBatch: slices of at most MaxBatchSize.
MintBatches ==
    [b \in 1..((Metadata + MaxBatchSize - 1) \div MaxBatchSize) |->
        Batch((b - 1) * MaxBatchSize + 1, Least(b * MaxBatchSize, Metadata))]

Balances == <<Call("query", "treasury's balance"), Call("query", "Alice's balance")>>

\* ensureAliceAccount makes an account unless the credentials can be parsed.
NftScript ==
    (IF alice = "usable" THEN <<>> ELSE <<Call("once", "account")>>)
    \o <<Call("retried", "token")>> \o MintBatches
    \o <<Call("once", "associate")>> \o Balances
    \o <<Call("once", "transfer")>> \o Balances

\* ContractCreateFlow sends several transactions (the file of the bytecode, the
\* contract); they stand here as one, which nothing repeats.
SetupScript ==
    << Call("once", "account"), Call("query", "balance"),
       Caught(Call("once", "token")), Caught(Call("once", "mint")),
       Call("query", "balance"), Call("read", "HelloHedera.json"),
       Call("once", "contract"),
       Call("once", "setGlobalMessage"), Call("query", "getGlobalMessage"),
       Call("once", "setMyMessage"), Call("query", "getMyMessage") >>

Calls == IF script = "nft.js" THEN NftScript ELSE SetupScript

IsTransaction(p) == Calls[p].how \in {"once", "retried"}

-----------------------------------------------------------------------------

Init ==
    /\ script \in {"nft.js", "index.js"} /\ operator \in BOOLEAN
    /\ alice \in {"usable", "invalid", "missing"}
    /\ pos = 0 /\ at = "execute" /\ retries = 0 /\ outcome = "running"
    /\ flight = {} /\ refused = {} /\ ledger = <<>>

Begin ==
    /\ outcome = "running" /\ pos = 0
    /\ \/ operator /\ pos' = 1 /\ outcome' = outcome
       \/ ~operator /\ pos' = pos /\ outcome' = "error"
    /\ UNCHANGED <<script, operator, alice, at, retries, network>>

\* A transaction is known to the network by the id it is given when it is
\* frozen.
Id(attempt) == [call |-> pos, attempt |-> attempt]

\* Mutant of Transaction: executeTransaction builds it anew in every attempt.
Transaction_Rebuilt == Id(retries)

\* It is frozen, and its id locked, before executeTransaction is called.
Transaction == Id(0)

Carried == {ledger[n] : n \in DOMAIN ledger}
Known == flight \cup refused \cup Carried

\* The network takes a transaction that it knows for a duplicate.
Submit == flight' = flight \cup ({Transaction} \ Known) /\ UNCHANGED <<refused, ledger>>

\* The script goes on at call p, or is at its end.
Proceed(p) ==
    /\ at' = "execute" /\ retries' = 0
    /\ \/ p <= Len(Calls) /\ pos' = p /\ outcome' = outcome
       \/ p > Len(Calls) /\ pos' = pos /\ outcome' = "done"

Return == Proceed(pos + 1)

\* Mutant of Throw: every error is only logged.
Throw_Logged == Return

\* An error ends the script, unless the call is in a try block of its own.
Throw ==
    \/ /\ Calls[pos].caught
       /\ \E p \in pos..Len(Calls) :
            ~Calls[p].caught /\ (\A q \in pos..(p - 1) : Calls[q].caught) /\ Proceed(p)
    \/ /\ ~Calls[pos].caught
       /\ outcome' = "error" /\ UNCHANGED <<pos, at, retries>>

\* Mutant of CatchBusy: the attempts are not counted.
CatchBusy_NotCounted ==
    /\ Calls[pos].how = "retried"
    /\ at' = "delay" /\ UNCHANGED <<pos, retries, outcome>>

\* executeTransaction: an error with BUSY in it is followed by a pause.
CatchBusy ==
    /\ Calls[pos].how = "retried"
    /\ retries' = retries + 1 /\ at' = "delay" /\ UNCHANGED <<pos, outcome>>

\* An error, of whatever kind; only executeTransaction tells BUSY from others.
Fails == CatchBusy \/ Throw

\* Mutant of Delayed: one attempt too many.
Delayed_OneMore ==
    /\ outcome = "running" /\ at = "delay"
    /\ \/ retries <= MaxRetries /\ at' = "execute" /\ UNCHANGED <<pos, retries, outcome>>
       \/ retries > MaxRetries /\ Throw
    /\ UNCHANGED <<script, operator, alice, network>>

\* After the pause: another attempt, or "Transaction failed".
Delayed ==
    /\ outcome = "running" /\ at = "delay"
    /\ \/ retries < MaxRetries /\ at' = "execute" /\ UNCHANGED <<pos, retries, outcome>>
       \/ retries >= MaxRetries /\ Throw
    /\ UNCHANGED <<script, operator, alice, network>>

\* Mutant of Execute: the receipt is not awaited.
Execute_NoReceipt ==
    /\ outcome = "running" /\ pos > 0 /\ at = "execute" /\ IsTransaction(pos)
    /\ \/ Submit /\ Return
       \/ (Submit \/ UNCHANGED network) /\ Fails
    /\ UNCHANGED <<script, operator, alice>>

\* execute(client): an error may hide that a node has taken the transaction.
Execute ==
    /\ outcome = "running" /\ pos > 0 /\ at = "execute" /\ IsTransaction(pos)
    /\ \/ Submit /\ at' = "receipt" /\ UNCHANGED <<pos, retries, outcome>>
       \/ (Submit \/ UNCHANGED network) /\ Fails
    /\ UNCHANGED <<script, operator, alice>>

\* getReceipt(client): a status other than success is an error, and so is a
\* receipt that does not come.
GetReceipt ==
    /\ outcome = "running" /\ at = "receipt"
    /\ Fails \/ (Transaction \in Carried /\ Return)
    /\ UNCHANGED <<script, operator, alice, network>>

\* A query, or the file of the compiled contract.
Look ==
    /\ outcome = "running" /\ pos > 0 /\ ~IsTransaction(pos)
    /\ Return \/ Throw
    /\ UNCHANGED <<script, operator, alice, network>>

\* The network decides on a transaction, whether or not anyone still waits.
Consensus ==
    /\ \E t \in flight :
        /\ flight' = flight \ {t}
        /\ \/ ledger' = Append(ledger, t) /\ refused' = refused
           \/ refused' = refused \cup {t} /\ ledger' = ledger
    /\ UNCHANGED <<script, operator, alice, control>>

Main == Begin \/ Execute \/ GetReceipt \/ Delayed \/ Look

Next == Main \/ Consensus

Spec == Init /\ [][Next]_vars

\* Node goes on when an await is settled; the client gives every request at
\* most ten attempts and five minutes.
FairSpec == Spec /\ WF_vars(Main)

-----------------------------------------------------------------------------
(* Properties *)

Ids == [call : 1..Len(Calls), attempt : 0..MaxRetries]

\* Every variable has its type; a call makes at most MaxRetries attempts, and
\* only those of executeTransaction are repeated.
TypeOK ==
    /\ script \in {"nft.js", "index.js"} /\ operator \in BOOLEAN
    /\ alice \in {"usable", "invalid", "missing"}
    /\ pos \in 0..Len(Calls)
    /\ at \in {"execute", "receipt", "delay"}
    /\ outcome \in {"running", "done", "error"}
    /\ retries \in 0..(IF at = "delay" \/ outcome = "error" THEN MaxRetries ELSE MaxRetries - 1)
    /\ retries > 0 => Calls[pos].how = "retried"
    /\ flight \cup refused \cup Carried \subseteq Ids

\* Submitting a transaction again after BUSY never carries it out twice, even
\* when the attempt before has reached the network: no second token, no NFT
\* minted twice.
AtMostOnce ==
    \A m, n \in DOMAIN ledger : ledger[m].call = ledger[n].call => m = n

\* The network carries out what the script does in the order of the script, and
\* nothing before what it depends on (the mint before the transfer of serial 1,
\* the contract before the calls to it). Only the token operations of index.js,
\* whose errors are caught, may be late.
InOrder ==
    \A n \in DOMAIN ledger : \A m \in 1..n :
        ledger[m].call <= ledger[n].call \/ Calls[ledger[n].call].caught

\* A script that has failed leaves at most its last transaction undecided, and
\* one that goes on leaves nothing behind that it has not caught.
NothingLate ==
    \A t \in flight : (t.call = pos /\ outcome # "done") \/ Calls[t.call].caught

Minted(nft) == {n \in DOMAIN ledger : nft \in Calls[ledger[n].call].nfts}

\* "NFT script completed successfully": every transaction has been carried out,
\* every NFT has been minted by exactly one batch, no batch is too large.
CompleteOnSuccess ==
    outcome = "done" =>
        /\ \A p \in DOMAIN Calls :
            IsTransaction(p) /\ ~Calls[p].caught => \E t \in Carried : t.call = p
        /\ script = "nft.js" => \A nft \in 1..Metadata : Cardinality(Minted(nft)) = 1
        /\ \A p \in DOMAIN Calls : Cardinality(Calls[p].nfts) <= MaxBatchSize

\* Every script ends, however often the network is busy.
Settles == <>(outcome # "running")

=============================================================================
