-------------------------- MODULE ResourceCreation --------------------------
(***************************************************************************)
(* ResourceCreationState with --createInitialResources: the tokens of      *)
(* initialResources.json, then its accounts with their associations, then  *)
(* the mints of its NFTs, three batches of concurrent tasks.  A task       *)
(* submits a transaction, awaits its receipt and goes on; a step is what   *)
(* runs between two awaits.                                                *)
(***************************************************************************)
EXTENDS Naturals, Sequences, FiniteSets

CONSTANTS
    Resources,  \* the contents that initialResources.json may have
    Symbols,    \* the token symbols in it
    Faults      \* may "error" strike a call to the network?

\* Of a token its symbol, the number of mints of an NFT (0 for others, whose
\* mints are ignored) and whether validateTokenProperties accepts it; of an
\* account the symbols that it is to be associated with.
ASSUME ResourcesAssumption ==
    Resources \subseteq
        [tokens : Seq([symbol : Symbols, mints : Nat, valid : BOOLEAN]),
         accounts : Seq(SUBSET Symbols)]
ASSUME FaultsAssumption == Faults \subseteq {"error"}

VARIABLES
    resources,  \* what initialResources.json contains
    async,      \* --async
    outcome,    \* of the state: "new", "pending", "finished", "failed" or, when the
                \* process has ended with success, "exited"
    batch,      \* the batch that is under way
    step,       \* where each task is
    tokenId,    \* the token each task of the first batch has learnt of (0: none)
    sent,       \* transactions submitted and not yet carried out
    ledger      \* those carried out: an entity's id is its place here

tasks == <<step, tokenId>>
network == <<sent, ledger>>
vars == <<resources, async, outcome, batch, tasks, network>>

Tokens == resources.tokens
Accounts == resources.accounts

\* A task has a kind, the place of its entry in the file and that of its mint.
TokenTasks == {<<"token", i, 0>> : i \in DOMAIN Tokens}
AccountTasks == {<<"account", i, 0>> : i \in DOMAIN Accounts}
MintTasks == UNION {{<<"mint", i, j>> : j \in 1..Tokens[i].mints} : i \in DOMAIN Tokens}
Batch == <<TokenTasks, AccountTasks, MintTasks>>
Tasks == UNION {Batch[b] : b \in 1..3}

Symbol(t) == Tokens[t[2]].symbol
Valid(t) == Tokens[t[2]].valid
Associated(t) == Accounts[t[2]]

Init ==
    /\ resources \in Resources /\ async \in BOOLEAN
    /\ outcome = "new" /\ batch = 0
    /\ step = [t \in Tasks |-> "new"]
    /\ tokenId = [t \in TokenTasks |-> 0]
    /\ sent = {} /\ ledger = <<>>

\* The process runs: a rejection ends it, awaited or not, and so does Exit.
Alive == outcome \in {"pending", "finished"}
Resolved(b) == \A t \in Batch[b] : step[t] = "resolved"

-----------------------------------------------------------------------------
(* The batches *)

Launch(b) ==
    /\ batch' = b
    /\ step' = [t \in Tasks |-> IF t \in Batch[b] THEN "execute" ELSE step[t]]
    /\ UNCHANGED <<resources, async, tokenId, network>>

\* onStart, up to the first awaits of the token tasks.
Begin ==
    /\ outcome = "new"
    /\ outcome' = IF async THEN "finished" ELSE "pending"
    /\ Launch(1)

\* Mutant of NextBatch: Promise.race in the place of Promise.all.
NextBatch_First ==
    /\ Alive /\ batch \in {1, 2}
    /\ Batch[batch] # {} => \E t \in Batch[batch] : step[t] = "resolved"
    /\ Launch(batch + 1)
    /\ UNCHANGED outcome

\* Mutant of NextBatch: a batch without tasks is never done.
NextBatch_NeverEmpty ==
    /\ Alive /\ batch \in {1, 2} /\ Resolved(batch) /\ Batch[batch] # {}
    /\ Launch(batch + 1)
    /\ UNCHANGED outcome

\* Promise.all of a batch is awaited before the next one.
NextBatch ==
    /\ Alive /\ batch \in {1, 2} /\ Resolved(batch)
    /\ Launch(batch + 1)
    /\ UNCHANGED outcome

\* Mutant of Finish: the mints are not awaited.
Finish_MintsNotAwaited ==
    /\ outcome = "pending" /\ batch = 3
    /\ outcome' = "finished"
    /\ UNCHANGED <<resources, async, batch, tasks, network>>

Finish ==
    /\ outcome = "pending" /\ batch = 3 /\ Resolved(3)
    /\ outcome' = "finished"
    /\ UNCHANGED <<resources, async, batch, tasks, network>>

\* The states that follow do not wait for batches launched with --async: at the
\* end of the procedure transitionToNextState calls process.exit(0), whatever
\* these have done, and with the procedures of StateData it does so before any
\* task has gone past its first await.
Exit ==
    /\ outcome = "finished"
    /\ outcome' = "exited"
    /\ UNCHANGED <<resources, async, batch, tasks, network>>

-----------------------------------------------------------------------------
(* The tasks *)

Goto(t, s) == step' = [step EXCEPT ![t] = s] /\ UNCHANGED outcome

\* Promise.all rejects with the first rejection.
Reject(t) == step' = [step EXCEPT ![t] = "rejected"] /\ outcome' = "failed"

Transaction(kind, t, ids) == [kind |-> kind, task |-> t, ids |-> ids]

\* The map from symbols to ids, filled in the order of the file: the last
\* token with a symbol counts.
IdOf(s) ==
    LET places == {t \in TokenTasks : Symbol(t) = s}
    IN  tokenId[CHOOSE t \in places : \A u \in places : u[2] <= t[2]]

\* Mutant of TokenIdsFor: symbols without a token are not filtered out.
TokenIdsFor_Unfiltered(t) ==
    {IF \E u \in TokenTasks : Symbol(u) = s THEN IdOf(s) ELSE 0 : s \in Associated(t)}

\* getTokenIdsFor: symbols without a token are skipped with a warning.
TokenIdsFor(t) ==
    {IdOf(s) : s \in Associated(t) \cap {Symbol(u) : u \in TokenTasks}}

\* createToken validates the properties before it submits anything.
ExecuteToken(t) ==
    /\ Alive /\ step[t] = "execute" /\ t \in TokenTasks
    /\ \/ ~Valid(t) /\ Reject(t) /\ UNCHANGED sent
       \/ Valid(t) /\ Goto(t, "receipt") /\ sent' = sent \cup {Transaction("token", t, {})}
    /\ UNCHANGED <<resources, async, batch, tokenId, ledger>>

\* createAccountFromProps: whichever transaction it takes makes one account.
ExecuteAccount(t) ==
    /\ Alive /\ step[t] = "execute" /\ t \in AccountTasks
    /\ Goto(t, "receipt") /\ sent' = sent \cup {Transaction("account", t, {})}
    /\ UNCHANGED <<resources, async, batch, tokenId, ledger>>

\* The receipt tells the id of a token; an account is queried next.
CreateReceipt(t) ==
    /\ Alive /\ step[t] = "receipt" /\ t \in TokenTasks \cup AccountTasks
    /\ \E n \in DOMAIN ledger :
        /\ ledger[n] = Transaction(t[1], t, {})
        /\ tokenId' = IF t \in TokenTasks THEN [tokenId EXCEPT ![t] = n] ELSE tokenId
    /\ Goto(t, IF t \in TokenTasks THEN "resolved" ELSE "info")
    /\ UNCHANGED <<resources, async, batch, network>>

\* Mutant of QueryInfo: the association is not awaited.
QueryInfo_NotAwaited(t) ==
    /\ Alive /\ step[t] = "info"
    /\ Goto(t, "resolved")
    /\ sent' = IF Associated(t) = {} THEN sent
               ELSE sent \cup {Transaction("associate", t, TokenIdsFor(t))}
    /\ UNCHANGED <<resources, async, batch, tokenId, ledger>>

\* AccountInfoQuery, then the association if tokens are listed, known or not.
QueryInfo(t) ==
    /\ Alive /\ step[t] = "info"
    /\ IF Associated(t) = {}
          THEN Goto(t, "resolved") /\ UNCHANGED sent
          ELSE /\ Goto(t, "associating")
               /\ sent' = sent \cup {Transaction("associate", t, TokenIdsFor(t))}
    /\ UNCHANGED <<resources, async, batch, tokenId, ledger>>

ExecuteMint(t) ==
    /\ Alive /\ step[t] = "execute" /\ t \in MintTasks
    /\ Goto(t, "minting")
    /\ sent' = sent \cup {Transaction("mint", t, {IdOf(Symbol(t))})}
    /\ UNCHANGED <<resources, async, batch, tokenId, ledger>>

\* The receipt of the last transaction of a task.
LastReceipt(t) ==
    /\ Alive /\ step[t] \in {"associating", "minting"}
    /\ \E n \in DOMAIN ledger :
        ledger[n].task = t /\ ledger[n].kind \in {"associate", "mint"}
    /\ Goto(t, "resolved")
    /\ UNCHANGED <<resources, async, batch, tokenId, network>>

\* Mutant of Error: the task is started over, as AccountCreationState does.
Error_Retried(t) ==
    /\ "error" \in Faults
    /\ Alive /\ step[t] \in {"execute", "receipt", "info", "associating", "minting"}
    /\ Goto(t, "execute")
    /\ sent' \in {sent, {x \in sent : x.task # t}}
    /\ UNCHANGED <<resources, async, batch, tokenId, ledger>>

\* Nothing is retried. The transaction may have been refused, or may still be
\* carried out when its receipt has timed out.
Error(t) ==
    /\ "error" \in Faults
    /\ Alive /\ step[t] \in {"execute", "receipt", "info", "associating", "minting"}
    /\ Reject(t)
    /\ sent' \in {sent, {x \in sent : x.task # t}}
    /\ UNCHANGED <<resources, async, batch, tokenId, ledger>>

\* The network carries out a transaction.
Consensus ==
    /\ \E x \in sent : sent' = sent \ {x} /\ ledger' = Append(ledger, x)
    /\ UNCHANGED <<resources, async, outcome, batch, tasks>>

-----------------------------------------------------------------------------

Task(t) ==
    \/ ExecuteToken(t) \/ ExecuteAccount(t) \/ ExecuteMint(t)
    \/ CreateReceipt(t) \/ QueryInfo(t) \/ LastReceipt(t) \/ Error(t)

Next ==
    \/ Begin \/ NextBatch \/ Finish \/ Exit
    \/ \E t \in Tasks : Task(t)
    \/ Consensus

Spec == Init /\ [][Next]_vars

\* While the process is there Node runs what is not waiting; the network
\* carries out what it was sent.  Nothing is assumed of Exit, which may come at
\* once or after all tasks.
Fairness ==
    /\ WF_vars(Begin) /\ WF_vars(NextBatch) /\ WF_vars(Finish)
    /\ WF_vars(\E t \in Tasks : Task(t)) /\ WF_vars(Consensus)

FairSpec == Spec /\ Fairness

-----------------------------------------------------------------------------
(* Properties *)

Steps == {"new", "execute", "receipt", "info", "associating", "minting", "resolved",
          "rejected"}

\* Every variable has its type; a transaction is submitted and carried out only
\* once.
TypeOK ==
    /\ resources \in Resources /\ async \in BOOLEAN /\ batch \in 0..3
    /\ outcome \in {"new", "pending", "finished", "failed", "exited"}
    /\ step \in [Tasks -> Steps]
    /\ tokenId \in [TokenTasks -> 0..Len(ledger)]
    /\ sent \cup {ledger[n] : n \in DOMAIN ledger} \subseteq
        [kind : {"token", "account", "associate", "mint"}, task : Tasks,
         ids : SUBSET (0..Len(ledger))]
    /\ Cardinality(sent \cup {ledger[n] : n \in DOMAIN ledger}) =
        Cardinality(sent) + Len(ledger)

Wanted(x) == IF x.kind = "mint" THEN {Symbol(x.task)} ELSE Associated(x.task)

\* However the tasks interleave, a mint or an association that reaches the
\* network names tokens that exist, with the symbols its entry lists, for an
\* account that exists.
ReferencesExist ==
    \A n \in DOMAIN ledger :
        /\ \A id \in ledger[n].ids :
            /\ id \in 1..(n - 1) /\ ledger[id].kind = "token"
            /\ Symbol(ledger[id].task) \in Wanted(ledger[n])
        /\ ledger[n].kind = "associate" =>
            \E m \in 1..(n - 1) :
                ledger[m].kind = "account" /\ ledger[m].task = ledger[n].task

BatchOf(kind) ==
    IF kind = "token" THEN 1 ELSE IF kind = "mint" THEN 3 ELSE 2

\* The network never carries out a transaction of a later batch before one of
\* an earlier batch, not even one that is still on its way when the state fails.
BatchesInOrder ==
    \A n \in DOMAIN ledger : \A m \in 1..n :
        BatchOf(ledger[m].kind) <= BatchOf(ledger[n].kind)

\* What the file lists is there: every token, account, mint and association.
Complete ==
    /\ sent = {} /\ Len(ledger) =
        Cardinality(Tasks) + Cardinality({t \in AccountTasks : Associated(t) # {}})
    /\ \A t \in AccountTasks : \A s \in Associated(t) :
        (\E u \in TokenTasks : Symbol(u) = s) =>
            \E n \in DOMAIN ledger : ledger[n].task = t /\ IdOf(s) \in ledger[n].ids

\* "The resources from the JSON file will be auto-created on startup": without
\* --async the state emits Finish only when all of them are there.
CompleteOnFinish == outcome = "finished" /\ ~async => Complete

\* ResourceCreation implements Batches with its three batches.
Awaited == INSTANCE Batches WITH
    sizes <- [b \in 1..3 |-> Cardinality(Batch[b])],
    jobs <- IF batch = 0 THEN 0
            ELSE Cardinality({t \in Batch[batch] : step[t] # "resolved"})

ImplementsBatches == Awaited!Spec

\* The batches come to an end, all three in success or with the first failure.
\* Only the end of a process that did not await them, with --async, may leave
\* tasks unfinished or batches that are never launched.
Settles ==
    <>(\/ outcome = "failed"
       \/ async /\ outcome = "exited"
       \/ batch = 3 /\ Resolved(3))

=============================================================================
