--------------------------- MODULE AccountCreation ---------------------------
(***************************************************************************)
(* AccountCreationState in detail: one task of RetryUtils.retryTask for    *)
(* every private key, all of them launched at once on one shared client.   *)
(* A task submits a transaction, awaits its receipt and queries the        *)
(* account; an error that shouldRetry accepts starts it over, with another *)
(* transaction.  A step is what runs between two awaits.                   *)
(***************************************************************************)
EXTENDS Naturals, Sequences, FiniteSets

CONSTANTS
    Kinds,        \* the kinds of accounts: "alias" and others
    Limit,        \* --accounts
    PrivateKeys,  \* how many predefined private keys each kind has
    Startup,      \* nodeStartup: a start or restart, not generate-accounts
    MaxRetries,   \* maxRetries of retryTask
    Faults        \* what may go wrong on the network

ASSUME LimitAssumption == Limit \in Nat /\ PrivateKeys \in Nat
ASSUME MaxRetriesAssumption == MaxRetries \in Nat \ {0}
ASSUME StartupAssumption == Startup \in BOOLEAN
ASSUME FaultsAssumption == Faults \subseteq {"outage", "error"}
ASSUME KindsAssumption == IsFiniteSet(Kinds)

\* The predefined keys at startup, random ones otherwise, cut off at the limit.
Count == IF Startup /\ PrivateKeys < Limit THEN PrivateKeys ELSE Limit

Keys == Kinds \X (1..Count)
IsAlias(k) == k[1] = "alias"

VARIABLES
    async,      \* --async
    step,       \* where the task of each key is
    retries,    \* its loop counter
    account,    \* the account it has learnt of (0: none)
    outcome,    \* of the state: "new", "pending", "finished", "failed" or, when the
                \* process has ended with success, "exited"
    healthy,    \* is the consensus node among the client's healthy nodes?
    sent,       \* transactions submitted: the key and the attempt
    accounts,   \* the network's accounts: for whom, and by which attempt
    credits     \* initial balances transferred to the owner of each key

tasks == <<step, retries, account>>
network == <<sent, accounts, credits>>
vars == <<async, tasks, outcome, healthy, network>>

Init ==
    /\ async \in BOOLEAN
    /\ step = [k \in Keys |-> "new"]
    /\ retries = [k \in Keys |-> 0]
    /\ account = [k \in Keys |-> 0]
    /\ outcome = "new"
    /\ healthy = TRUE
    /\ sent = {} /\ accounts = <<>>
    /\ credits = [k \in Keys |-> 0]

AccountsOf(k) == {i \in DOMAIN accounts : accounts[i][1] = k}
Resolved(k) == step[k] = "resolved"

\* The process runs: a rejection ends it, awaited or not, and so does Exit.
Alive == outcome \in {"pending", "finished"}

-----------------------------------------------------------------------------

Goto(k, s) == step' = [step EXCEPT ![k] = s]

\* onStart: generateAccounts runs up to the first awaits of all tasks; only
\* without --async is it awaited.
Begin ==
    /\ outcome = "new"
    /\ step' = [k \in Keys |-> "execute"]
    /\ outcome' = IF async THEN "finished" ELSE "pending"
    /\ UNCHANGED <<async, retries, account, healthy, network>>

\* Promise.all rejects with the first rejection.
Reject(k) == Goto(k, "rejected") /\ outcome' = "failed"

\* Mutant of CatchRetryable: the last attempt is retried too.
CatchRetryable_OneMore(k) ==
    \/ retries[k] = MaxRetries /\ Reject(k)
    \/ retries[k] # MaxRetries /\ Goto(k, "delay") /\ UNCHANGED outcome

\* The catch of retryTask for an error that shouldRetry accepts.
CatchRetryable(k) ==
    \/ retries[k] = MaxRetries - 1 /\ Reject(k)
    \/ retries[k] # MaxRetries - 1 /\ Goto(k, "delay") /\ UNCHANGED outcome

\* execute: the only retryable error comes before anything is submitted.
Execute(k) ==
    /\ Alive /\ step[k] = "execute"
    /\ \/ /\ healthy
          /\ sent' = sent \cup {<<k, retries[k]>>}
          /\ Goto(k, "receipt") /\ UNCHANGED outcome
       \/ ~healthy /\ sent' = sent /\ CatchRetryable(k)
    /\ UNCHANGED <<async, retries, account, healthy, accounts, credits>>

\* Mutant of GetReceipt: the receipt is not awaited.
GetReceipt_NotAwaited(k) ==
    /\ Alive /\ step[k] = "receipt"
    /\ account' = [account EXCEPT ![k] = Len(accounts) + 1]
    /\ Goto(k, "info")
    /\ UNCHANGED <<async, retries, outcome, healthy, network>>

\* getReceipt asks the node of the transaction, healthy or not, and is done
\* when the transaction is.
GetReceipt(k) ==
    /\ Alive /\ step[k] = "receipt" /\ <<k, retries[k]>> \notin sent
    /\ \E i \in AccountsOf(k) :
        /\ IsAlias(k) \/ accounts[i][2] = retries[k]
        /\ account' = [account EXCEPT ![k] = i]
    /\ Goto(k, "info")
    /\ UNCHANGED <<async, retries, outcome, healthy, network>>

\* AccountInfoQuery: a retryable error although the account has been created.
QueryInfo(k) ==
    /\ Alive /\ step[k] = "info"
    /\ \/ healthy /\ Goto(k, "resolved") /\ UNCHANGED outcome
       \/ ~healthy /\ CatchRetryable(k)
    /\ UNCHANGED <<async, retries, account, healthy, network>>

\* Mutant of CatchOther: every error is retried, retryTask's default.
CatchOther_Retried(k) ==
    /\ Alive /\ step[k] \in {"execute", "receipt", "info"} /\ "error" \in Faults
    /\ CatchRetryable(k)
    /\ sent' \in {sent, sent \ {<<k, retries[k]>>}}
    /\ UNCHANGED <<async, retries, account, healthy, accounts, credits>>

\* Any other error is thrown: a transaction may have been refused, or may
\* still be carried out when its receipt has timed out.
CatchOther(k) ==
    /\ Alive /\ step[k] \in {"execute", "receipt", "info"} /\ "error" \in Faults
    /\ Reject(k)
    /\ sent' \in {sent, sent \ {<<k, retries[k]>>}}
    /\ UNCHANGED <<async, retries, account, healthy, accounts, credits>>

\* Mutant of StartOver: the retries are not counted.
StartOver_NotCounted(k) ==
    /\ Alive /\ step[k] = "delay"
    /\ Goto(k, "execute")
    /\ UNCHANGED <<async, retries, account, outcome, healthy, network>>

\* After the backOff the loop starts the task over.
StartOver(k) ==
    /\ Alive /\ step[k] = "delay"
    /\ retries' = [retries EXCEPT ![k] = @ + 1]
    /\ Goto(k, "execute")
    /\ UNCHANGED <<async, account, outcome, healthy, network>>

\* Mutant of Finish: Promise.race in the place of Promise.all.
Finish_First ==
    /\ outcome = "pending" /\ \E k \in Keys : Resolved(k)
    /\ outcome' = "finished"
    /\ UNCHANGED <<async, tasks, healthy, network>>

\* All tasks are awaited: onStart emits Finish.
Finish ==
    /\ outcome = "pending" /\ \A k \in Keys : Resolved(k)
    /\ outcome' = "finished"
    /\ UNCHANGED <<async, tasks, healthy, network>>

\* The states that follow do not wait for tasks launched with --async: at the
\* end of the procedure transitionToNextState calls process.exit(0), whatever
\* these have done, and with the procedures of StateData it does so before any
\* of them has gone past its first await.
Exit ==
    /\ outcome = "finished"
    /\ outcome' = "exited"
    /\ UNCHANGED <<async, tasks, healthy, network>>

-----------------------------------------------------------------------------
(* The network and the SDK's client *)

\* A transaction is carried out; a transfer to an alias that has an account
\* already adds to its balance.
Consensus(k, n) ==
    /\ <<k, n>> \in sent
    /\ sent' = sent \ {<<k, n>>}
    /\ accounts' = IF IsAlias(k) /\ AccountsOf(k) # {} THEN accounts
                                                      ELSE Append(accounts, <<k, n>>)
    /\ credits' = [credits EXCEPT ![k] = @ + 1]
    /\ UNCHANGED <<async, tasks, outcome, healthy>>

\* A call in flight loses its connection: the client they all share takes the
\* node from its list until it is readmitted.
LoseNode ==
    /\ "outage" \in Faults /\ healthy
    /\ Alive /\ \E k \in Keys : step[k] \in {"execute", "receipt", "info"}
    /\ healthy' = FALSE
    /\ UNCHANGED <<async, tasks, outcome, network>>

ReadmitNode ==
    /\ ~healthy /\ Alive
    /\ healthy' = TRUE
    /\ UNCHANGED <<async, tasks, outcome, network>>

-----------------------------------------------------------------------------

Task(k) ==
    \/ Execute(k) \/ GetReceipt(k) \/ QueryInfo(k)
    \/ CatchOther(k) \/ StartOver(k)

Terminated ==
    /\ sent = {}
    /\ \/ outcome \in {"failed", "exited"}
       \/ outcome = "finished" /\ \A k \in Keys : Resolved(k)

Done == Terminated /\ UNCHANGED vars

Next ==
    \/ Begin \/ Finish \/ Exit
    \/ \E k \in Keys : Task(k) \/ \E n \in 0..MaxRetries : Consensus(k, n)
    \/ LoseNode \/ ReadmitNode
    \/ Done

Spec == Init /\ [][Next]_vars

\* While the process is there Node runs what is not waiting; the network
\* carries out what it was sent.  Nothing is assumed of an outage, which may
\* last for ever, nor of Exit, which may come at once or after all tasks.
Fairness ==
    /\ WF_vars(Begin) /\ WF_vars(Finish)
    /\ \A k \in Keys :
        /\ WF_vars(Task(k))
        /\ \A n \in 0..MaxRetries : WF_vars(Consensus(k, n))

FairSpec == Spec /\ Fairness

-----------------------------------------------------------------------------
(* Properties *)

Steps == {"new", "execute", "receipt", "info", "delay", "resolved", "rejected"}

\* Every variable has its type; a task counts fewer than maxRetries retries.
TypeOK ==
    /\ async \in BOOLEAN
    /\ step \in [Keys -> Steps]
    /\ retries \in [Keys -> 0..(MaxRetries - 1)]
    /\ account \in [Keys -> Nat]
    /\ outcome \in {"new", "pending", "finished", "failed", "exited"}
    /\ healthy \in BOOLEAN
    /\ sent \subseteq Keys \X (0..(MaxRetries - 1))
    /\ accounts \in Seq(Keys \X (0..(MaxRetries - 1)))
    /\ credits \in [Keys -> Nat]

\* However the tasks interleave and are retried, an account that is listed
\* exists and belongs to the private key printed beside it; when Finish is
\* emitted without --async there is one for every key.
ListedAccountsExist ==
    /\ \A k \in Keys : Resolved(k) => account[k] \in AccountsOf(k)
    /\ outcome = "finished" /\ ~async => \A k \in Keys : Resolved(k)

\* A retry never races the attempt before it: of the transactions submitted
\* for one key at most one is not yet carried out, because shouldRetry accepts
\* only errors after which nothing is in flight.
OneAttemptInFlight ==
    \A k \in Keys : Cardinality({n \in 0..MaxRetries : <<k, n>> \in sent}) <= 1

\* However often the node is lost, a key costs at most maxRetries initial
\* balances, and an alias has a single account.
RetriesBounded ==
    \A k \in Keys :
        /\ credits[k] <= MaxRetries
        /\ Cardinality(AccountsOf(k)) <= IF IsAlias(k) THEN 1 ELSE MaxRetries

\* Seen from outside, all that counts is how many tasks are not done and that
\* the first failure ends it all: AccountCreation implements Batches with a
\* single batch.
Awaited == INSTANCE Batches WITH
    sizes <- <<Cardinality(Keys)>>,
    async <- async,
    batch <- IF outcome = "new" THEN 0 ELSE 1,
    jobs <- Cardinality({k \in Keys : step[k] \notin {"new", "resolved"}}),
    outcome <- outcome

ImplementsBatches == Awaited!Spec

\* The tasks come to an end, all in success or with the first failure, even
\* when the node is never readmitted: the retries run out.  Only the end of a
\* process that did not await them, with --async, may leave tasks unfinished.
Settles ==
    <>(\/ outcome = "failed"
       \/ async /\ outcome = "exited"
       \/ \A k \in Keys : Resolved(k))

=============================================================================
