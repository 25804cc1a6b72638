# A verification development for the Hiero local node

This directory holds TLA+ specifications of the program in
`src/hiero-local-node-main` (the npm package *hiero-local-node*) and of the two
scripts beside it, the TLC configurations that model-check them, and proofs about them that TLAPS checks.
`H/` below stands for `src/hiero-local-node-main/src/`.

The repository has three parts. `src/hiero-local-node-main` is a command line
tool that starts, restarts and stops a complete Hedera network (consensus node,
record streams, mirror node, relay, monitor) in Docker on one machine: it has
nearly all of the control in the repository.
`src/index.js` and `src/nft.js` are sequential scripts against the public
testnet, one of which repeats its transactions. `src/contracts` and the thousands of JSON, YAML and
dashboard files are examples and data.

Contents: [the system](#1-the-system) ·
[modules and code](#2-the-modules-and-the-code-they-model) ·
[what is checked](#3-what-the-runs-check-and-show) ·
[what is proved](#4-what-is-proved) ·
[disagreements](#5-where-the-code-and-its-documentation-disagree) ·
[what is left out](#6-what-is-not-modelled) ·
[the plan](#7-the-plan)

## 1. The system

### Components, their state and their operations

| component | state | operations | what makes it correct |
|---|---|---|---|
| **StateController, StateData** (`H/controller`, `H/data`) | `stateConfiguration`, `currStateNum`, the promise chain | `startStateMachine`, `update(event)`, `transitionToNextState` | the states of a command run one by one, in order; exit 0 only after the last; an error goes through `CleanUpState` to exit 1 |
| **entry point** (`H/index.ts`) | none | the four commands; SIGINT runs the procedure *stop* on a second controller | SIGINT at any await leaves nothing behind |
| **InitState** | the working directory: `bootstrap.properties`, `application.yml`; environment variables | preflight checks, `isPortInUse`, `prepareWorkDirectory`, `configureNodeProperties`, `configureMirrorNodeProperties` | what the services read is what the options ask for |
| **StartState, RecoveryState** | the Docker project | `checkDockerImages`, `docker compose up`, recovery, second attempt, two waits | success means both services listen |
| **NetworkPrepState** | the fee files in the mirror node's database; the monitor's log | `importFees`, `waitForTopicCreation` | accounts come after the monitor's topic |
| **AccountCreationState, RetryUtils, AccountUtils** | one task per private key; the shared SDK client; the network | `generateAccounts`, `retryTask`, `createAccount`, `createAliasedAccount` | every listed account exists and belongs to its key; retries never race the attempt before |
| **ResourceCreationState, TokenUtils** | tokens, topics, contracts of the ledger | three concurrent batches | all or an error |
| **CleanUpState** | the two config files | `revertNodeProperties`, `revertMirrorNodeProperties` | the working directory is back to its originals |
| **StopState, AttachState** | containers, volumes, `network-logs` | `docker compose kill`, `down -v`, `rm -rf` | nothing is left |
| **Docker Compose** (the `docker-compose*.yml`) | containers with their definitions, volumes, record files, logs | `up`, `kill`, `down`; streams, uploads and imports of the containers | each invocation gets the services of its own options and finds nothing of an earlier ledger |
| **DockerService** | none of its own | compose files, image, port and resource checks, `tryDockerRecovery` | see its callers |
| **ConnectionService, debounce** | one polling loop, its sockets, one log timer | `waitForFiringUp` | waits for a *service*, not for a published port; ends |
| **nft.js, index.js** | the call under way, its attempts; the testnet | `executeTransaction`, `mintNFTBatch`, `ensureAliceAccount`, `environmentSetup` | every transaction at most once and in order; success means all of them |
| **ClientService, CLIService, FileSystemUtils, ServiceLocator, LoggerService** | the client; options; none | lookups, parsing, `copyPaths`, logging | – |

### How they interact

`index.ts` hands a command to a `StateController`, which creates the states that
`StateData` lists for it, subscribes itself as their observer and calls
`onStart` of the first. A state ends by calling `update(event)` on the
controller. `update` is `async` and no state awaits it; it calls `onStart` of
the next state. The states reach Docker through `shelljs.exec`, which is
synchronous and blocks the whole process, and through `child_process`; they
reach the network through one SDK client. Two processes (or one process and its
own SIGINT handler) share everything that lasts: the Docker project, the ledger
in its volumes, the config files of the working directory, `network-logs`.

### Which behaviours are hard

* **Interleaving.** Two invocations share Docker and files without a lock, and
  the check that no other node is running (`isPortInUse`) is made long before
  the port is taken. SIGINT starts a second controller in the same process.
* **Order across components.** Account ids are right only if the monitor's
  topic was created first, in the same ledger; that takes two states, two
  containers and the volume that `down -v` removes.
* **Partial failure.** Exit codes of shell commands are mostly ignored; errors
  of the file copy are logged; a TypeError in a state is swallowed.
* **Crashes.** A killed start leaves containers, configured files and records.
* **What lasts.** The project in Docker outlives the command line: the next one
  may choose other compose files or another directory, and `stop` knows neither
  the options nor, unless it is told, the directory of the start before it.
* **Retries and shared resources.** Several creations run concurrently on one
  client that may lose its only node; a retry repeats all the awaits of a task.
* **Lost answers.** An error says little about a transaction that is on its way;
  the scripts submit it again, or go on without it.
* **Time.** The polling loop, its 100 ms sleeps, late sockets and a debounced
  log.

`PROJECT.json` lists each of these under "hazards", at its line.

## 2. The modules and the code they model

| module | models | role |
|---|---|---|
| `LocalNode` | all states, the controller, SIGINT, and what Docker and the network do by themselves | the core: several invocations on one machine |
| `Lifecycle` | what `StateController` promises | abstract specification; `LocalNode` implements it |
| `LocalNodeProofs` | – | its types, its two invariants, its three step properties, each under the overlap it bears, and that invocations are bounded, proved |
| `LocalNodeRefinement` | – | `LocalNode` implements `Lifecycle` and `ComposeProject`, proved |
| `AccountCreation` | `AccountCreationState`, `RetryUtils`, `AccountUtils`, the client and the network | the tasks in detail |
| `AccountCreationProofs` | – | its types, its three invariants, that it implements `Batches`, and why it comes to an end, proved |
| `ResourceCreation` | `ResourceCreationState`, `TokenUtils`, the network | the three batches of initial resources in detail |
| `ResourceCreationProofs` | – | its types, its three invariants, that it implements `Batches`, and why it comes to an end, proved |
| `Batches` | what these two states promise their caller | abstract specification; `AccountCreation` (one batch) and `ResourceCreation` (three) implement it |
| `Configuration` | `InitState`'s checks, copies and settings; `CleanUpState`'s reverts | the config files, setting by setting |
| `ConfigurationProofs` | – | its types and both of its invariants, proved |
| `FiringUp` | `ConnectionService.waitForFiringUp`, `debounce` | the polling loop in detail |
| `FiringUpProofs` | – | its types and its three safety properties, proved |
| `DockerProject` | `StopState`, `StartState`, `dockerComposeUp`, `tryDockerRecovery`, `waitForTopicCreation`, the compose files and what the containers do | what lasts in Docker from one invocation to the next, container by container |
| `DockerProjectProofs` | – | its types, its four safety properties and that it implements `ComposeProject`, proved |
| `ComposeProject` | `docker compose up`, `kill` and `down` as the CLI uses them, and who writes into the volumes | abstract specification of the Docker project; `LocalNode` and `DockerProject` implement it |
| `TestnetScripts` | `src/nft.js`, `src/index.js`, the network | both scripts call by call |
| `TestnetScriptsProofs` | – | its types, its four invariants and a bound on its steps, proved |
| `MCDockerProject`, `MCLocalNode`, `MCAccountCreation`, `MCResourceCreation`, `MCConfiguration` | – | options, faults, file contents, installations and symmetry for TLC |

### LocalNode

A process is an element of `Proc`. Its control is `cmd` (the procedure of its
controller; SIGINT changes it to `stop`), `curr` (`currStateNum`, from 1), `pc`
(where inside `onStart` it is) and `exit` (how it ended). Every action is what a
process does between two points where something else can happen: two shell
commands, two file writes, two awaits. The end of each onStart includes what
`update(Finish)` does (`Finish`), because nothing can come between them.

Since `shelljs.exec` blocks, the callbacks of a process itself (the SIGINT
handler, account creations that are not awaited) run only at an await:
`AwaitPoints` and `Waiting` name these. Another process can act between any two
steps.

| TLA+ | code |
|---|---|
| `InitCheck` … `ConfigureMirrorNodeProperties` | `InitState.onStart` and the methods it calls |
| `CheckDockerImages`, `StartUp`, `RecoveryKill/Down/Clean`, `StartUpAgain`, `WaitForMirror`, `WaitForNode` | `StartState.onStart`, with `DockerService` and the `RecoveryState` that exit code 1 leads to |
| `ImportFees`, `ImportExchangeRates`, `WaitForTopic` | `NetworkPrepState` |
| `BeginAccounts`, `CreateAccount`, `AccountFails`, `AccountsCreated` | `AccountCreationState`, as a count of jobs (`AccountCreation` has the detail) |
| `BeginResources`, `CreateResources` | `ResourceCreationState`, as one step (`ResourceCreation` has the detail) |
| `RevertNodeProperties`, `RevertMirrorNodeProperties` | `CleanUpState`, as a state and in `update`'s error branch |
| `StopKill`, `StopDown`, `StopClean`, `AttachState` | `StopState`, `AttachState` |
| `Interrupt`, `Kill`, `Drain` | the SIGINT handler; a killed process; an empty event loop |
| `BootNode`, `BootMirror`, `MonitorCreatesTopic`, `StreamRecords` | external: containers, the monitor, the record stream |

Data are abstracted to what the properties tell apart. A config file is
`"absent"`, `"original"`, the mode (the set of options) last written into it, or
`"mixed"` when settings of two modes came together (a failed copy, or two
invocations at once); `Configuration` shows what this stands for.
A ledger is a number that `down -v` increases; its contents are the sequence
`entities` of who created what, in the order of entity ids. `logs` is the set of
ledgers whose record files are under `workDir/network-logs`. `containers` is
`"partial"` when all containers but the monitor are up: an `up` that fails may have
started all of them, these, or none, and of its exit code only 1 is looked at,
that of the second `up` not at all.

`waitForTopicCreation` has neither a timeout nor a rejection. `WaitForTopic` goes
on when the line is found; it stalls for good when the line was cut in two
(`split`), or when no monitor runs that could write it. A stalled wait keeps the
process while `docker logs` does, and SIGINT still ends it; when there is no
monitor to follow, the event loop may run empty and the process exits (`Drain`).

What may go wrong is the constant `Faults`:

| fault | the code it stands for |
|---|---|
| `preflight`, `port` | a failed check of `InitState`, or one that throws; a port held by some other program |
| `copy` | `FileSystemUtils.copyPaths` logs an error and goes on |
| `images` | `docker compose config` gives no output: TypeError in `checkDockerImages` |
| `compose1`, `compose`, `mount` | `docker compose up` fails with 1, with another code, with a mount error |
| `insert`, `query`, `accounts` | the INSERT fails unnoticed; `FileContentsQuery` or an account creation throws |
| `down` | `docker compose kill` or `down` fails unnoticed |
| `split` | the chunks of `docker logs` cut the line that announces the topic in two, and `waitForTopicCreation` looks at each chunk by itself |
| `sigint`, `kill` | Ctrl-C at an await; the process is killed anywhere |

### AccountCreation

A task is a private key of a kind. `step[k]` says at which await it is:
`execute` (the transaction has not been submitted), `receipt`, `info` (the
`AccountInfoQuery`), or `delay` (the back-off of `retryTask`); `retries[k]` is
the loop counter. `sent` holds the transactions submitted and not yet carried
out, `accounts` the accounts of the network with the key and attempt that made
them, `credits` the initial balances transferred to each key. `healthy` is the
SDK client's list of healthy nodes: the network has a single one, so a lost
connection of *any* task empties the list for all. The error
`failed to find a healthy working node`, the only one that `shouldRetry`
accepts, is raised when that list is empty: before anything is submitted, or by
the query after the account exists. Every other error (`CatchOther`) rejects.

With `--async` nothing awaits the tasks, and the procedure goes on. With the
procedures of this repository no later state waits for anything: an unawaited
`ResourceCreationState` only launches its own batches, `CleanUpState` and
`AttachState` are synchronous. So `process.exit(0)` (`StateController.ts:113-115`)
comes in the same tick, before any task has passed its first await, and no account
is made. The module describes the state, not the procedure it stands in: after an
`async` finish the process may end at any time, at once included (`Exit`), and with
it every task (`Alive`); the outcome is then `"exited"`, and what was on its way
is carried out or not. `LocalNode`, which knows the procedures, creates no account
with `--async`.

### ResourceCreation

A task is an entry of `initialResources.json`: a token, an account or one mint.
`step[t]` says at which await it is, `tokenId[t]` what the receipt of a token
has told. `sent` holds the transactions that are on their way, `ledger` those
carried out, in their order: an entity's id is its place there. `batch` is the
batch that is under way; `Promise.all` separates the batches. Nothing is
retried: an error at any await (`Error`) rejects, the process ends, and what is
on its way is carried out or not. `IdOf` is the map from symbols to ids that the
code fills in the order of the file, so that the last token with a symbol
counts; `TokenIdsFor` skips symbols that no token has. `Exit` and `"exited"` are
those of `AccountCreation`.

### Configuration

One invocation follows another without end (`Begin`), and each forgets what it
knew (`Exit`): only the files last. `bootstrap`, `application` and `yml` are
the settings that `bootstrap.properties`, `application.properties` and
`application.yml` hold beyond those that never change. `"node"` and `"block"`
are the original node configuration and the block stream settings; `"turbo"` is
`dataPath` and `sources`, written unless `--full`; `"bytes"` is what persists
the transaction bytes; each way to list the monitor's nodes is a setting of its
own. The environment that the checks find is any member of `Environments`, anew
for each invocation. `boot` and `mirror` repeat, action by action, what
`LocalNode` says of two of these files, and `AbstractionSound` relates them to
the settings: this is what licenses the one-mode-per-file view of `LocalNode`.
What `CleanUpState` does not revert stays in the model: all of
`application.properties`, `"bytes"`, and the way a full node is listed in place
of the template's.

### FiringUp

`retries`, `isReady` and the loop are those of the code. Sockets are counted:
`opening` ones have not been answered, `open` ones are established and never
closed. The port is `closed`, `silent` (Docker has published it, nothing behind
it listens) or `ready`. Time is counted in sleeps of 100 ms; the debounced log
is the number of sleeps until its timer fires. `counted` says whether
`FIRING_UP_RETRY_ATTEMPTS` is a number: of `NaN`, which is never below 0,
`retries` keeps no count (`MaxElapsed` bounds the sleeps in that case).

### DockerProject

`LocalNode` takes the Docker project as one thing and assumes that all
invocations use the same directory, nodes and compose files; here they do not.
One invocation follows another (`Begin`), each with its own member of `Options`
(mode, number of nodes, block nodes, user files, directory). `stack` is the set of
containers, each with the definition that the merged compose files gave it
(`Merged`, by `docker compose`'s rule that the later file counts) and whether it
runs. Of the services of a kind one is kept: the consensus node and the first
further one of the multinode mode, an uploader for each, the importer, the
monitor, a block node for each, and one of a user's. `records`, `bucket` and `db` follow the record files of a ledger from
the directory into the volume of minio and the database; a ledger is `"current"`
or `"gone"`, and `Outdated` is what happens to record files when their
ledger goes. `log` is what the monitor has logged, `"old"` by a run before and
`"own"`; `heard` are the lines that have arrived in two pieces.

| TLA+ | code |
|---|---|
| `Stopping`, `StopClean` | `StopState.onStart`: `kill`, `down -v`, the removal of `network-logs` under its own directory |
| `CheckPorts`, `ComposeUp`, `Recovering`, `ComposeUpAgain`, `WaitForFiringUp` | `isPortInUse`, `StartState.onStart`, `tryDockerRecovery` |
| `With`, `Merged`, `Definitions` | `dockerComposeUp`, `getUserComposeFiles` and the files they name |
| `Deliver`, `Drain` | `waitForTopicCreation`, chunk by chunk |
| `Kill`, `Interrupt` | a killed process; SIGINT at an await |
| `Up`, `Stream`, `Upload`, `Import`, `MonitorCreatesTopic` | external: Compose, and the containers |

`up` makes containers whose definition has changed anew and leaves alone what the
chosen files do not mention; `kill --remove-orphans` and `down` know the base
file only. A failed `up` has started one of `Partial`. `fresh` remembers for the
properties what this invocation has started from scratch.

Both `LocalNode` and `DockerProject` implement `ComposeProject`, in which the
project is a whole that is not there, stopped, partly up or up, and its volumes
are empty or not: this is what licenses `LocalNode` to take it so, although
Compose has files, definitions and states container by container. `"up"` is that
the monitor runs, which waits for all others. What the abstraction leaves out is
the ledger: in `LocalNode` a new one begins at `down -v` alone, in `DockerProject`
also when `up` replaces the container of the consensus node.

### TestnetScripts

A script is a sequence of calls (`NftScript`, `SetupScript`); `pos` is the one
under way, `at` the await in it, `retries` the counter of `executeTransaction`.
A transaction is known by the id that `freezeWith` gave it before
`executeTransaction` was called: signing locks it, so that every attempt submits
the same id and the network takes the later ones for duplicates. `flight` are
transactions that are on their way, `ledger` those carried out, in their order.
An error can come at every await, before or after the network has taken the
transaction, and any of them may read BUSY (the SDK gives up after ten attempts
with a message that names the last status). Errors within the `try` block of the
token operations of `index.js` are `Caught`: the script goes on behind the block. The
transactions of `ContractCreateFlow` (`index.js:105`: the file of the bytecode, and
the contract) are one call, since the script neither repeats it nor goes on
after an error of any of them; what it may leave half done is not modelled.

## 3. What the runs check and show

| run | configuration | properties | states |
|---|---|---|---|
| `solo` | one invocation, all four commands, all options, all faults but `images` and `kill`, 2 accounts | `TypeOK`, `Termination` | 46 thousand |
| `sequential` | two invocations, one after the other: `start`, `restart`, `stop`, two modes; all faults but `insert` and `down` | `FollowsLifecycle`, `ServedOnSuccess`, `RestartFromScratch`, `StopLeavesNothing` | 782 thousand |
| `overlap` | two invocations at the same time: `start`, `restart`, `generate-accounts`; `compose1`, `insert`, `down`, `split`, `sigint` | `FilesReverted`, `AccountsFollowTopic` | 4.3 million |
| `accounts` | three creations, one of each kind, two attempts each, awaited or `--async` with an end of the process at any time, outages and errors | `TypeOK`, `ListedAccountsExist`, `OneAttemptInFlight`, `RetriesBounded`, `ImplementsBatches`, `Settles` | 319 thousand |
| `firing_up` | 8 attempts or none that is a number, a log delay of 3 sleeps, a port that opens and closes at will | `TypeOK`, `GivesUpLast`, `ReadyWasServed`, `LogsSpaced`, `Settles` | 23 thousand |
| `configuration` | any number of invocations in a row, all sixteen sets of options, ten installations, ports in use, failed copies, kills | `TypeOK`, `AbstractionSound`, `UpAsAsked` | 431 thousand |
| `docker_project` | any number of invocations in a row, five sets of options in two directories, failing `up`, kills, SIGINT, lines cut in two | `TypeOK`, `StackAsAsked`, `FreshImport`, `OwnTopic`, `StopRemovesAll`, `TopicEndsWait` | 1.4 million |
| `scripts` | both scripts, with and without credentials, 12 NFTs in batches of 5, 5 attempts, errors at every await | `TypeOK`, `AtMostOnce`, `InOrder`, `NothingLate`, `CompleteOnSuccess`, `Settles` | 2.5 thousand |
| `resources` | five contents of `initialResources.json`, awaited or `--async` with an end of the process at any time, errors at every await | `TypeOK`, `ReferencesExist`, `BatchesInOrder`, `CompleteOnFinish`, `ImplementsBatches`, `Settles` | 3.6 thousand |

`sequential` and `overlap` treat invocations as interchangeable, and
modes too (TLC symmetry): no command or option is tied to one of them, and what
these runs check are invariants and properties of single steps.

**What they show.**

* `ServedOnSuccess`: a `start` or `restart` that exits with 0 by itself leaves a
  network that listens, with both fee files, the topic, all its accounts and
  reverted config files, *whatever* the invocation before it left behind:
  killed in any state, interrupted, failed.
* `RestartFromScratch`: a successful `restart` runs services that have read the
  configuration of its own options (in spite of a failed start's `CleanUpState`,
  which reverts the files while that start's containers still boot), in a new
  ledger in which its accounts are entities 2 to n + 1.
* `StopLeavesNothing`: `stop`, and SIGINT at any await of any command, exits
  with 0 only when containers, ledger and record files are gone.
* `StackAsAsked`: whatever containers of other modes, nodes and directories are
  there, running, stopped or orphaned, once a `start` or `restart` has found both
  services and the monitor up, exactly the services of its own options run, in
  its mode and from its directory.
* `FreshImport`: a network started from scratch (by `restart`, or by `start` with no
  containers and volumes there) imports no record of a ledger that is gone,
  also after kills between any two commands and with record files of other
  directories and modes. In EVM mode the disabled uploaders see to
  that, which delete what they find. In full mode it takes an empty directory,
  as `restart` leaves it, and no recovery: the recovery removes the volumes and
  not the record files, and the uploaders send these to the new volume.
* `OwnTopic`, `TopicEndsWait`: the wait of a network started from scratch never
  takes a line of an earlier monitor for its own, and ends once its topic is
  logged, unless the chunks of `docker logs` cut that very line in two; then
  nothing ends it.
* `StopRemovesAll`: `stop` and SIGINT, which know the base file only, leave no
  container of any file, no volume, and no record file in their own directory.
* `AtMostOnce`, `InOrder`, `NothingLate`, `CompleteOnSuccess`: repeating a
  transaction after BUSY never carries it out twice; nothing comes before what it
  depends on; at most the last transaction of a failed script is undecided; the
  last line of `nft.js` is printed only when every NFT has been minted once. What
  `index.js` has caught may come late.
* `FilesReverted`: however the writes of two invocations interleave, once all
  starts and restarts have ended in order (by their own last state, by the error
  branch, or because of a port in use) both files are back to their originals.
  `EndedInOrder` leaves out crashes, mount errors and SIGINT, after which
  nobody reverts the files.
* `AccountsFollowTopic`: an account made in the ledger in which its process has
  seen the topic comes after it, even when another invocation restarts the
  network in between.
* `FollowsLifecycle`, `ImplementsBatches`: the detailed specifications
  implement the abstract ones.
* `ListedAccountsExist`, `OneAttemptInFlight`, `RetriesBounded`: an account that
  is printed exists and is that of the key printed beside it; a retry never
  races its predecessor; a key costs at most `maxRetries` balances.
* `GivesUpLast`, `ReadyWasServed`, `LogsSpaced`: the loop gives up only after
  all attempts and loses no answer that came before the last; a published port
  with nothing behind it never passes for a service; the error log is debounced.
* `AbstractionSound`, `UpAsAsked`: whatever earlier invocations have left in the
  working directory, killed in the middle or with copies that failed, the
  services start with the properties of this command line, and with exactly its
  mirror node settings when `application.yml` has been copied; a `restart` gets
  fitting ones even when copying fails, because its `CleanUpState` comes first.
  A `start` whose copy fails does not get that: this is what `"mixed"` says.
* `ReferencesExist`, `BatchesInOrder`, `CompleteOnFinish`: mints and associations
  name tokens that exist and carry the symbols of their entry; no transaction of
  a later batch overtakes one of an earlier batch, also when the state fails;
  without `--async`, Finish means that all that the file lists is there.
* `Termination`, `Settles`: see *fairness*.

Every property is paired in `PROJECT.json` with a mutant: a plausible bug in one
definition (kept beside the original in the module, named `<Definition>_<Bug>`)
under which the same run reports the property violated.

**The faults that runs exclude.** A run states its property for the faults under
which the code keeps it, and the exclusion is part of what it says.
`sequential` leaves out `insert` and `down`: with an unnoticed failure of the
INSERT a start succeeds without a fee file, and with one of `down` a stop
succeeds with everything in place; neither command's exit code is looked at.
`solo` leaves out `images` (the swallowed
TypeError may hang on open sockets, so that nothing is promised) and `kill`
(which ends the process at once and could only make termination easier).
`overlap` leaves out faults that end one process before it has written
anything, to keep the run small; `FilesReverted` is *proved* for all faults.

**The bounds and why they are enough.** Two processes suffice for every race
over files, Docker and the ledger: each property relates one process to what
others did, and "others" is one whose steps can be anywhere; the theorems remove
this bound where they apply. Two modes are enough to tell "my configuration"
from "another's". Two accounts let a creation fail while another one is under
way. The number of ledgers is bounded by the number of `down -v` that two
processes can run, so that no counter needs a cap. Three kinds with one key each
cover alias and plain creations side by side (keys of one kind behave alike);
two attempts are enough to retry once and to run out of attempts. They are
asked for two accounts of a kind with one predefined key, so that the limit is
cut off. In `FiringUp`
8 attempts and a delay of 3 let the log fire, be suppressed and fire again
several times; the loop treats all attempts alike. `MaxElapsed` ends the uncounted loop of the model, not of the
code, where nothing does; the property about it needs an answer.
In `docker_project` the number of invocations is not bounded: the state is finite.
Its five sets of options choose each compose file once and leave it out once,
and change mode, number of nodes and directory from one invocation to the next; a
third directory would behave as the second. In `scripts` 12 NFTs make two full
batches and one of two (the repository mints five, one batch).
In `configuration` nothing is bounded: the settings are finitely many, and the run covers every history. The
ten installations pass each check, fail each one alone (with the two thresholds
that only warn), and fail with an old Node or npm. The five contents of the
resources file are that of the repository, one with a symbol twice and a symbol
without token, one with an invalid token, one without tokens and one without
accounts: two tasks of a kind show every race within a batch.

**Fairness.** `LocalNode`: weak fairness of `Work(p)`, because Node runs a
process whose await is settled and a shell command returns. Nothing is assumed
of the containers, which may never boot, of the monitor, which may never create its
topic or never have been started, of faults, of SIGINT and of `Drain`.
So `Termination` does not say that every invocation ends: it ends or, from some
moment on, waits for the topic for ever (`AwaitsTopic`), the one await without a
timeout. Every other wait, the recovery, the reverts and a stop that interrupts
them come to an end. `AccountCreation`: while the process is there (`Alive`), weak
fairness of the tasks, because the SDK's awaits end by their own timeouts, and of
consensus on each transaction that was submitted; nothing is assumed of outages,
which may last for ever, so that `Settles` means that the retries run out.
`ResourceCreation`: the same, and nothing is assumed of errors. Nor is anything
assumed of `Exit`: `Settles` says that the state fails, or all tasks are resolved,
or, with `--async` only, the process has ended before. That launched tasks get to
run in that case is not assumed and not promised. `FiringUp`: weak fairness of the two
timers only; the port and the sockets may never answer. `DockerProject`: weak
fairness of the commands and of the delivery of `docker logs`; nothing is assumed
of the containers, which may never boot. `TestnetScripts`: weak fairness of the
script, since every await of the SDK ends by its own attempts and timeout;
nothing is assumed of the network.

Deadlock is checked in every run of `LocalNode` and `AccountCreation`, where
`Done` is the only way to stop; the port of `FiringUp` can always change, and
in `Configuration` another invocation can always begin. `resources`, `scripts` and
`docker_project` do not check it: the state or the script ends for good, and
`Settles` says that it does not stop earlier; a wait for a topic whose line was cut in
two stops for good when nothing can interrupt it.

## 4. What is proved

Every theorem is for all values of the constants that the module's named
assumptions allow, and these are types and little else:

* `LocalNode`: any number of processes, any set of options and modes, any number
  of accounts and any set of faults, with overlapping invocations or without.
  Assumed is that no mode is called `"absent"`, `"original"`, `"mixed"` or
  `"none"` and no process `"topic"` or `"resource"`, so that these can be told
  apart.
* `Configuration`: any set of installations and of faults.
* `AccountCreation`: any finite set of kinds, any number of keys and of accounts,
  any positive number of retries, with outages and errors or without.
* `ResourceCreation`: any set of resource files, each with any number of tokens,
  accounts and mints, with errors or without.
* `FiringUp`: any number of attempts (or one that is not a number), any log delay.
* `DockerProject`: any set of options and of directories, any faults.
* `TestnetScripts`: any number of NFTs, any batch size and number of attempts,
  both scripts.

| theorem | says |
|---|---|
| `LocalNodeProofs!TypeCorrect` | `Spec => []TypeOK` |
| `LocalNodeProofs!FilesRevertedCorrect` | `Spec => []FilesReverted` |
| `LocalNodeProofs!AccountsFollowTopicCorrect` | `Spec => []AccountsFollowTopic` |
| `LocalNodeProofs!OnlyUpSpoilsStop` | no unnoticed failure of `down`: `Spec /\ [][NoUpBesideStop]_vars => StopLeavesNothing` |
| `LocalNodeProofs!StopLeavesNothingCorrect` | no overlap, no unnoticed failure of `down`: `Spec => StopLeavesNothing` |
| `LocalNodeProofs!ServedBesideGenerators` | no unnoticed failure of an insert: `Spec /\ []Exclusive => ServedOnSuccess` |
| `LocalNodeProofs!ServedOnSuccessCorrect` | no overlap, no unnoticed failure of an insert: `Spec => ServedOnSuccess` |
| `LocalNodeProofs!RestartFromScratchCorrect` | no overlap, no unnoticed failure of `down`: `Spec => RestartFromScratch` |
| `LocalNodeProofs!StepsBounded` | an invocation has at most 29 + `NAccounts` steps left |
| `LocalNodeProofs!EveryStepDescends` | each step uses up one of these, or one of at most four things that Docker does between two of them |
| `LocalNodeProofs!WaitsForBootable` | who waits for a service finds both config files, without which Docker could not start it |
| `LocalNodeRefinement!LifecycleCorrect` | `Spec => FollowsLifecycle` (`Controller!Spec`) |
| `LocalNodeRefinement!ComposeProjectCorrect` | `Spec => Project!Spec` (`ComposeProject`) |
| `ConfigurationProofs!Typing` | `Spec => []TypeOK` |
| `ConfigurationProofs!LocalNodeAbstraction` | `Spec => []AbstractionSound` |
| `ConfigurationProofs!StartedAsAsked` | `Spec => []UpAsAsked` |
| `AccountCreationProofs!TypeCorrect` | `Spec => []TypeOK` |
| `AccountCreationProofs!ListedAccountsExistCorrect` | `Spec => []ListedAccountsExist` |
| `AccountCreationProofs!OneAttemptInFlightCorrect` | `Spec => []OneAttemptInFlight` |
| `AccountCreationProofs!RetriesBoundedCorrect` | `Spec => []RetriesBounded` |
| `AccountCreationProofs!ImplementsBatchesCorrect` | `Spec => ImplementsBatches` (`Batches` with one batch) |
| `AccountCreationProofs!ReceiptComesCorrect` | `Spec => []ReceiptComes`: no task waits for a receipt that cannot come |
| `AccountCreationProofs!StepsBounded` | a task has at most 4 · `MaxRetries` + 1 steps left |
| `AccountCreationProofs!EveryStepDescends` | `Spec => [][GetsOn]_vars`: each step gets something on, but the node may be lost and found for ever |
| `ResourceCreationProofs!TypeCorrect` | `Spec => []TypeOK` |
| `ResourceCreationProofs!CompleteOnFinishCorrect` | `Spec => []CompleteOnFinish` |
| `ResourceCreationProofs!BatchesInOrderCorrect` | `Spec => []BatchesInOrder` |
| `ResourceCreationProofs!ReferencesExistCorrect` | `Spec => []ReferencesExist` |
| `ResourceCreationProofs!ImplementsBatchesCorrect` | `Spec => ImplementsBatches` (`Batches` with three) |
| `ResourceCreationProofs!ReceiptComesCorrect` | `Spec => []ReceiptComes` |
| `ResourceCreationProofs!EveryStepDescends` | `Spec => [][GetsOn]_vars`: each step gets something on |
| `FiringUpProofs!TypeCorrect` | `Spec => []TypeOK` |
| `FiringUpProofs!ReadyWasServedCorrect` | `Spec => []ReadyWasServed` |
| `FiringUpProofs!GivesUpLastCorrect` | `Spec => []GivesUpLast` |
| `FiringUpProofs!LogsSpacedCorrect` | `Spec => LogsSpaced` (an action property) |
| `DockerProjectProofs!TypeCorrect` | `Spec => []TypeOK` |
| `DockerProjectProofs!StackAsAskedCorrect` | `Spec => []StackAsAsked` |
| `DockerProjectProofs!OwnTopicCorrect` | `Spec => []OwnTopic` |
| `DockerProjectProofs!StopRemovesAllCorrect` | `Spec => StopRemovesAll` (an action property) |
| `DockerProjectProofs!FreshImportCorrect` | `Spec => []FreshImport` |
| `DockerProjectProofs!ComposeProjectCorrect` | `Spec => Project!Spec` (`ComposeProject`) |
| `TestnetScriptsProofs!TypeCorrect` | `Spec => []TypeOK` |
| `TestnetScriptsProofs!CompleteOnSuccessCorrect` | `Spec => []CompleteOnSuccess` |
| `TestnetScriptsProofs!AtMostOnceCorrect` | `Spec => []AtMostOnce` |
| `TestnetScriptsProofs!InOrderCorrect` | `Spec => []InOrder` |
| `TestnetScriptsProofs!NothingLateCorrect` | `Spec => []NothingLate` |
| `TestnetScriptsProofs!StepsBounded` | a script has at most (calls + 1) · (3 · `MaxRetries` + 3) steps left |
| `TestnetScriptsProofs!EveryStepDescends` | each step lowers that number, or the network carries out or drops what it was sent |

**The arguments.**

* *Types* (`LocalNode`). `TypeOK` is inductive. The proof has one lemma on the control part
  (`ControlStep`) and one on Docker, data and files (`WorldStep`), each with a
  case per action, resting on lemmas on the helpers (`GotoType`, `FinishType`,
  `ComposeUpType`, …) and on the table of procedures.
* *Control.* `ControlInv`: a process that runs is at a point of the state that
  `curr` selects in its procedure. `TypeOK` alone does not say this, and without
  it neither of the other invariants can use the order of a procedure.
* *Files.* `FilesReverted` speaks only of moments when everyone has ended and is
  not inductive. `FilesInv` names *who owes the file*: while a config file is not
  at its original there is a start or restart that is at a point from which it
  will still revert it, or that was interrupted or has ended out of order
  (`Owes`). A process that owes a file either reverts it in its next step or
  still owes it after that step (`OwesBoot`, `OwesMirror`), whoever has written
  the file in between; the steps of others leave its debt alone.
* *Topic.* `AccountsFollowTopic` is strengthened to `TopicInv`: a current ledger
  in which a process has seen the topic contains it, and a process has launched
  or created accounts only if it has reached its `AccountCreationState` (`Late`).
  So a process at `WaitForTopic` has none yet, and what it appends later comes
  after the topic. The step to watch is `down -v` by another process: it empties
  `entities` and renumbers the ledger at once, which makes `seen` outdated.
* *Stop.* Between `kill` and the end of a stop nothing runs that could write
  (`Silent`, in `StopInv`): Docker starts nothing by itself, and of all that
  another process can do only an `up` makes anything run again. So no assumption
  on overlap is needed but that no `up` comes between (`NoUpBesideStop`): another
  stop, creations of accounts, a start that is before or behind its `StartState`
  do no harm. Only the last step of StopState ends a stop with exit(0)
  (`StopEnds`). Without overlap `NoUpBesideStop` holds. The run `overlap` has
  starts that do call `up`, and does not check it.
* *Success.* `Path` lists the steps of a start or restart from point to point
  (`OrdinaryStep`), `Past` says how far it has got; only `currStateNum` tells the
  CleanUpState a restart begins with from the one it ends with. What it has made so
  far stays (`MadeSoFar`, `FilesSoFar`, `AccountsSoFar`), because nobody else
  stops containers or writes files (`Exclusive`) and from its wait for the services
  on it stops nothing. What `generate-accounts` does at the same time only adds to
  the ledger (`GeneratorStep`). It ends with exit(0) from AttachState only
  (`SuccessAttaches`), when all of it has been made.
* *Restart.* `RestartInv` adds what the stop at its beginning is for: until `up`
  nothing runs and the ledger is empty (`DockerSoFar`); the files are originals
  until it writes its own mode, and its own mode until the services have read them
  (`ModesSoFar`); its accounts begin when the topic is the only entity
  (`LedgerSoFar`). So a service that boots finds its configuration and no other,
  and accounts have the ids after the topic's.
  An insert that fails unnoticed spoils none of this; a `down` that does, all of it.
* *Ends.* Liveness is beyond the prover, but two of the three reasons for it are
  safety properties and proved. *Nothing goes on for ever*: a measure
  (`StepsLeft`) that every step of a process lowers and no step of anybody else
  raises. In `LocalNode` it is the length of the longest way to the end from where
  the process is (`ToGo`), the error branch, the recovery and a SIGINT included,
  and the accounts it has still to create; in `AccountCreation` and
  `TestnetScripts` it counts the attempts left, and is where the loops' bounds on
  `retries` are needed; in `ResourceCreation` the batches left, too. What
  is not bounded is external (a node lost and found again). *No wait is
  in vain*: a task that waits for a receipt has its transaction on its way or
  carried out (`ReceiptComes`, from `FlightInv`), and a process that waits for
  containers has both files that Docker must find (`WaitsForBootable`). That is no
  promise that they come: a container may fail, and the monitor may not have been
  started at all. The third reason, that a step which can be taken is taken, is ENABLED and fairness, and
  TLC's: `Termination`, `Settles`. (`FiringUp` is bounded by `TypeOK`, which bounds
  `elapsed`; `DockerProject` and `Configuration` go on by intention, one
  invocation after another.)
* *Refinement.* `StageOf` maps a point to the state it belongs to. Each action
  is shown to be a step of `Lifecycle` by the way it leaves its point: `Goto`
  within a state stutters, `Finish` is `Advance` or `Succeed`, `Fail` is
  `Error`, `ExitAs` is `Failed` or `Die`, the handler is `Interrupt`. It rests
  on `ControlInv`.
* *Project.* `ComposeProject` says who may write into volumes. In `LocalNode` that
  needs `BootedInv` (what listens is in a container that runs); in `DockerProject`
  `NodeRuns` (whatever runs, the consensus node does), `Quiet` (nothing runs when
  an `up` begins) and `NodeIn` (who has any container has that of the consensus
  node, which `kill --remove-orphans` keeps, so that a stopped project is not
  taken for none).
* *Settings* (`Configuration`). `UpAsAsked` speaks of one point only. `IInv` adds how far the files
  have been written at each point (`Progress`), that a restart which has been
  through `CleanUpState` finds nothing of an earlier mode until it writes its own
  (`Cleaned`), and that only the two reverts run once an invocation is ending
  (`Ending`). `Cleaned` is what makes a restart independent of the copies, and
  the part of `TypeOK` that has exactly one way of listing nodes in the file is
  what makes writing one of them replace the other.

* *Accounts.* The core is `FlightInv`: what is on its way for a key is the
  transaction of its *current* attempt, and the task awaits its receipt or has
  given up. It is what a retry depends on: `shouldRetry` accepts one error only,
  which comes before anything is submitted or after everything has been carried
  out, so that nothing is in flight at `delay`. With `CreditInv` (each attempt
  costs one balance, once it is carried out) and `OwnerInv` (an account is of a
  balance of its own, or the only one of an alias) the bounds of
  `RetriesBounded` follow.
* *Resources.* `StepInv` relates a task's step to the batch under way (earlier
  batches done, later ones new), `FlightInv` says that what is on its way is of
  that batch, `OnceInv` that a task submits one transaction of a kind. This is
  inductive with `BatchesInOrder`. `ReferencesExist` needs in addition what the
  tasks have *learnt* (`TokenInv`, `SeenInv`): an id from a receipt is a place in
  the ledger, which only grows. That a symbol's id is that of the last token
  with it is a maximum over a set of numbers (`LastToken`).
  `CompleteOnFinish` counts the ledger: `CInv` says which transactions a task's
  step shows to be there, so that at the end the ledger is in bijection with the
  tasks and the accounts that associate tokens.
* *Batches.* The abstract count of jobs is the cardinality of the tasks that are
  not resolved. Each step takes one task out of that set or none (a stutter); the
  step that ends a batch finds it empty.
* *Firing up.* `RoundInv`: attempts left and sleeps over add up to the number of
  attempts. `LogInv`: what is left of the delay covers the time since the last
  line.
* *Docker.* `EmptyInv`: between `down -v` and the next `up` nothing is there, so
  that the log that a network started from scratch writes is its own.
  `FreshImport` speaks of what has been imported; `MirrorSafe` adds that nothing of
  an older ledger is where the importer reads, nor where its uploaders would take
  it from, which is what makes it last. It is the only part that looks at what the
  compose files say (lemma `Composition`): which source the importer of a mode has and
  whether the uploaders are disabled.
  `StackAsAsked` looks at what runs already: whoever runs a container runs the
  consensus node (`NodeRuns`), which holds a port that InitState looks at, so that
  nothing runs when `up` begins (`Quiet`) and what runs afterwards is what the
  merged files list (`Listing`).
* *Scripts.* Ids are frozen, so that no two transactions that are on their way
  or carried out share one (`FlightInv`, `LedgerInv`), and a script that goes on
  leaves nothing on its way that it has not caught (`Leaves`). Each call it has
  passed without catching an error has been carried out (`DoneInv`), and each NFT
  lies in exactly one slice of the metadata (`Slices`).

**Model-checked only.** Liveness (`Termination`, `Settles`, `TopicEndsWait`),
of which *Ends* above says what is proved. All other properties of the passing runs
are proved; `StopLeavesNothing` and `ServedOnSuccess` for more overlap than the
run `sequential` has. The three runs that expect a violation are TLC's.
**Proved only.** The bounds on steps, `ReceiptComes`, `WaitsForBootable` and the
two refinements of `ComposeProject` have no run of their own.

Each proof is checked with `tlapm <module>.tla`, each run with
`tlc -config <cfg> <module>.tla`.

## 5. Where the code and its documentation disagree

Each of these is a run in which TLC finds the documented property violated.

* `type_error`: `StateController.ts:107-108` says that a TypeError is ignored
  and execution continues. It is ignored, and nothing calls the next state.
* `recovery`: `DockerService.ts:426` says that the recovery cleans volumes and
  temp files. It empties the package's `network-logs`; the record files are in
  the one of the working directory.
* `docker_checks`: the unit test at
  `src/hiero-local-node-main/test/unit/states/InitState.spec.ts:151` says that
  InitState stops on the Docker checks. With an old Node or npm, which by itself
  is only logged, the condition at `H/state/InitState.ts:117` lets it go on.

Met while modelling, and not turned into runs:

* `README.md:228-229` says that accounts beyond the predefined private keys get
  random ones. At startup there are none beyond them (`Count` of
  `AccountCreation`).
* `index.js` prints "Setup complete" after an error too: `environmentSetup` has
  caught and logged it.
* A start after a stop that was killed may delete, in EVM mode, record files that
  nobody has imported.
* Volumes that a user's compose file declares are not removed by `stop`, which
  reads the base file only.
* `README.md:143` says that *n* accounts are generated; when the node is lost
  between receipt and query, the retry makes a second one for the same key, and
  a retried alias creation credits its account twice.
* `ConnectionService.ts:62` says that it throws if the port is not ready; data
  that arrives during the last sleep makes it ready, and it throws. The comment
  at `ConnectionService.ts:69` counts 100 retries as 100 seconds; they take
  about 10.
* `stop` and `restart` ignore the exit codes of their docker commands.
* `README.md:134` and `README.md:147` offer "asynchronous creation of accounts";
  with `--async` the process exits in the same tick in which it launches them, so
  that none is submitted (see *AccountCreation*).
* `docs/multinode-mode.md` asks for 14 GB of memory; with 4 GB or more that is
  only a warning.
* `H/configuration/README.md:49` gives the balance of an initial account in
  tinybars; the code takes hbars.
* Of two tokens with one symbol in the resources file, the last gets the mints
  and associations of both.

## 6. What is not modelled

* Parsing of options, logging, the service locator, colours and tables: no state
  that outlives a call.
* Of the compose files, all but which services they define, disable and mount;
  dashboards and templates. What the containers do is modelled as external
  actions, from the compose files and from how `H/` uses them. `DockerProject`
  takes it that a disabled uploader deletes what it finds before the consensus
  node of the same `up` writes its first record file.
* Image tags and environment variables: every invocation of the models uses the
  same images.
* In `DockerProject`, failures of `kill` and `down` and two invocations at the
  same time: both are in `LocalNode`.
* Of the config files, the values of settings and the settings that never change;
  what two overlapping invocations write into them setting by setting (`LocalNode`
  has their interleaving, file by file).
* `checkConnection`, the procedure `resourceCreation` and `createAccountFromProps`
  for tokens: no caller, no command, or part of an abstracted step.
* The sample contracts: `HelloHedera.sol` sets and gets two strings.

## 7. The plan

Done: `LocalNode`, `Lifecycle` and their proofs first, since every property of
the program as a whole lives there; then the detailed models of what `LocalNode`
takes as one step or one value: `AccountCreation`, `FiringUp`,
`ResourceCreation` (both creation states with `Batches`) and `Configuration`
with their proofs; then what it assumes to be the same in all invocations,
`DockerProject`, and the programs beside it, `TestnetScripts`.

Models to come: `Environment`, which image tags and environment variables the
compose files see after the options of several invocations.

Proofs, done: every safety property that a passing run checks, the refinements of
`Lifecycle`, `Batches` and `ComposeProject`, the overlap that `StopLeavesNothing`
and `ServedOnSuccess` bear, and bounds on the steps of everything that is to end.
To come: that `LocalNode`, process by process, implements `Batches`
(`BeginAccounts` to `AccountsCreated`, which takes a history variable for what has
been done), and that its `WaitForFiringUp` is what `FiringUp` promises: `LocalNode`
lets a start pass if the service listens at that moment, `FiringUp` on an answer of
up to one sleep before, which matters only if another invocation stops the service
in between.
