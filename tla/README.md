# IndexFlow backend: specifications, checks and proofs

This directory holds TLA+ specifications of the IndexFlow backend, the TLC
configurations that check them on small instances, and proofs for TLAPS about
every instance. Paths are relative to the repository's root (`src/...` is its
source directory).

    tlc  -config listener_safety.cfg MCListener      # one check
    tlapm ListenerProofs.tla                         # one module of proofs

`PROJECT.json` lists the runs, the definitions with the lines they stand for,
for each property a change of the code that breaks it, the hazards, the
findings and the theorems.

## 1. The system

The backend indexes an ERC-20 token and its side contracts (staking, proof of
indexing, contributions) on several chains into MongoDB, evaluates wallets of
campaigns over what is indexed, and runs a protocol API for datasets over
Postgres and ElasticSearch. It is one Express process, `src/server.ts`, and
long-running listener scripts. Everything is single-threaded JavaScript: code
between two awaits is atomic, and any other request, timer or process comes in
between.

| component | state it keeps | operations | talks to |
|---|---|---|---|
| live listener, generic chains (`runListener.ts`) | `lastProcessedBlock` in memory; the `indexer_state` document; the collections of transfers and events | start, poll, refresh the cursor, process a block, write the cursor | RPC pool, MongoDB |
| live listener, Sepolia (`sepolia.listener.ts`) | the same, code of its own; started by importing the file, also by `server.ts` | start, poll, fetch a range, store each log, write the cursor | its own RPC pool, MongoDB; other listeners through the same cursor |
| RPC pool and retries (`provider.ts`, `retry.ts`, `ratelimiter.ts`) | the context with the index of the current endpoint, shared by all callers | call, rotate, retry, wait for a token | JSON-RPC endpoints |
| backfill (`runBackfill.ts`, parsers) | none across runs but the collections; in a run the block times got so far and the promise of a collection | go through the kinds of events, batch by batch, and store each log | RPC pool, MongoDB |
| MongoDB connection (`mongo.ts`) | one promise of a connection | connect, get, close | MongoDB |
| datasets, challenges, rewards (`dataService.ts`, `challengeService.ts`, `rewardService.ts`) | five tables of Postgres | submit, record a verification, challenge, distribute a reward, register on chain, claim | validator service, Postgres, search index |
| search index (`elasticService.ts`) | a document for each dataset | index, search, remove (never called) | ElasticSearch |
| evaluator and caches (`evaluatorService.ts`, `cacheService.ts`, `services/metrics`) | `usageOutputCache`, the metrics cache, the runners of each request | evaluate a wallet, run a campaign; find the blocks of a window and count its transfers | MongoDB, RPC |
| insights and commentary | caches keyed by proof hash and wallet | build, ask a provider, fall back | evaluator, OpenAI |
| ENS resolution (`ensService.ts`) | five slots with a queue, a bounded cache | resolve | RPC |
| faucet (`routes/faucet.ts`) | the times of the last grants | check, transfer, remember | RPC |
| settings (`adminService.ts`, `settingsRepository.ts`) | one row of Postgres | create with defaults, read, update the parameters, update the oracle | Postgres |
| stakes, audit trail | rows of Postgres; log lines | insert, delete | Postgres |
| usage evaluation and insights (`evaluateUsageV1.ts`, `insightsV1.ts`), canonical JSON, proof hash | none: pure functions | evaluate, score, tag | the evaluator, insights |
| query services, HTTP application, configuration, mock data, placeholders | none that a property is about | reads, routing, constants | |

### What is hard

- **Crashes and restarts.** The listeners keep a position in memory and one in
  the database; what is stored, what is believed and what is written down
  disagree in between.
- **Failures of one step of several.** Every RPC call and every query may fail,
  and a write may fail after it was applied. Some failures end a block, some a
  range, some a log, some nothing.
- **Endpoints that disagree.** The pool rotates; an endpoint that lags reports an
  older head, or answers `getLogs` for a block it lacks with an empty list.
- **Several processes over one document.** Two Sepolia listeners overwrite one
  another's cursor; backfill and listener write the same collections.
- **Read, await, write.** The handlers of the protocol API check a row in one
  query and act on it in another; the faucet and the ENS resolver do the same
  with memory.
- **Caches.** The evaluator stacks two, both keyed without the block; runners of
  one request and of others fill them at the same time.
- **Reorganizations** of the chain, which the indexer promises to survive.
- **Searches and counts at their edges.** Blocks that share a timestamp, windows
  that end before they begin to hold a block, chunks, transfers to oneself, caps
  and penalties in a score.

### What makes each part correct

- *Listeners*: no log between start and cursor is missing without an explanation;
  the cursor does not go back or past the chain; a restart loses nothing; all
  blocks are reached in the end; a reorganization is repaired.
- *Datasets*: no verdict without its entry in the audit trail; no reward for a
  dataset that was not approved; no challenge on record for a dataset that was
  not marked; no update lost; the search index has nothing the database never had.
- *Evaluator*: every wallet of a request once and in its place; nothing served
  older than the lifetime; nothing counted after the block; replays agree; every
  request ends.
- *Window of the RPC source*: each transfer of the window counted once, no other.
- *RPC pools*: a working endpoint is found in a bounded number of calls.
- *Backfill*: nothing lost without a line in the log, nothing stored twice by runs
  that follow one another, transfers never.
- *ENS*: no slot lost or doubled, every caller served. *Faucet*: a cooldown between
  two grants. *Settings*: no update lost. *Commentary*: what is said is of what is
  shown, and signed by who wrote it.
- *Usage*: the order and spelling of transactions do not matter; more use never
  hurts; who is verified is not suspected.

The hazards of `PROJECT.json` name each of these at the line where it bites.

## 2. The modules

| module | what it is | extends | code |
|---|---|---|---|
| `IndexLedger` | what an indexer promises: a cursor that only moves over settled blocks | | abstract |
| `Listener` | the listener of one chain | | `runListener.ts`, `db/state.ts`, `db/transfers.ts` |
| `ListenerReorg` | the same over a chain that replaces a branch | `Listener` | the same |
| `ListenerProofs` | theorems about `Listener` and `ListenerReorg` | `ListenerReorg` | |
| `SharedLedger` | what is left of that promise when several indexers write one cursor | `IndexLedger` | abstract |
| `SepoliaListener` | any number of Sepolia listeners over one cursor | | `sepolia.listener.ts` |
| `SepoliaProofs` | theorems about it | `SepoliaListener` | |
| `MultiRpc` | the pool behind the calls of a Sepolia listener | | `MultiRpcProvider` in `sepolia.listener.ts` |
| `RpcPool` | callers that share a pool of endpoints and its limiter | | `services/provider.ts`, `utils/retry.ts`, `services/ratelimiter.ts` |
| `PoolProofs` | theorems about it | `RpcPool` | |
| `Backfill` | runs over the same collections | | `runBackfill.ts`, `parsers`, `db/mongo.ts` |
| `BackfillProofs` | theorems about it | `Backfill` | |
| `Datasets` | concurrent requests over datasets | | `dataService.ts`, `challengeService.ts`, `rewardService.ts`, their repositories, `elasticService.ts` |
| `DatasetsProofs` | theorems about it | `Datasets` | |
| `Evaluator` | concurrent batches over two caches and two sources | | `evaluatorService.ts`, `cacheService.ts`, `services/metrics` |
| `EvaluatorProofs` | theorems about it | `Evaluator` | |
| `RpcWindow` | what one of the sources does for an answer | | `RpcMetricsProvider.ts` |
| `Usage` | evaluation and insights as operators | | `evaluateUsageV1.ts`, `criteriaPresets.ts`, `insightsV1.ts` |
| `MetricsProofs` | theorems about `RpcWindow` and `Usage`, where the numbers come from and what is made of them | both | |
| `Commentary` | requests for insights and commentary over two caches | | `insightsService.ts`, `commentaryService.ts`, `commentary.controller.ts` |
| `EnsSlots` | callers over the slots of the resolver and its cache | | `ensService.ts`, `cacheService.ts` |
| `Faucet` | requests over the cooldowns | | `routes/faucet.ts` |
| `Settings` | requests over the settings row | | `adminService.ts`, `settingsRepository.ts` |
| `ServiceProofs` | theorems about `MultiRpc`, `Commentary`, `EnsSlots`, `Faucet`, `Settings`, and about all of `MCServices` | `MCServices`, `BackfillProofs`, `MetricsProofs` | |
| `MC*` | instances small enough to check; `MCServices` holds eight components that share no state, one of which moves | | |

A definition that starts with the comment `Mutant:` is not part of a
specification. It is the form a plausible bug would give the definition that
follows it, and shows that the property named in `PROJECT.json` can fail.

### Listener

`pc` is the await the process is at: `poll` (getBlockNumber), `refresh` (the
upsert of the state document at the top of the loop), `block` (getBlock), `logs`
(the walk of `processBlock` over the four streams), `persist` (the upsert at
the end of a batch), and `down`. `state` is the document of `indexer_state`,
`docs` the collections, by the log they come from and by where their date comes
from: the chain, the clock of the host, or zero.

| action | code |
|---|---|
| `Start` | `resolveStartingBlock`: the persisted cursor, `START_BLOCK`, the head, or the deployment |
| `Poll`, `Refresh` | the loop of `runListener`, up to the choice of a batch |
| `FetchTimestamp` | `getBlock`; a failure leaves timestamp 0 and goes on |
| `FetchLogs`, `FetchBehind`, `FetchFails`, `SkipStream` | `fetchLogs` of one stream: an answer, an answer of an endpoint that lacks the block, an error that is logged and becomes an empty list, a stream that is not configured or deployed |
| `StoreLog`, `ParseFails` | one log: parse and upsert; a parser that throws ends the batch |
| `FinishBlock`, `PersistBatch` | the cursor in memory, then in the database |
| `Mine`, `Crash` | the environment |

`reported`, `unseen` and `origin` are for observation: logs dropped with an error
in the log, logs an endpoint did not have, and the block the walk started after.

`NoGap` is the central property: below the persisted cursor every log that
should be indexed is stored, reported or unseen. It does not say that they are
all stored, because the code does not: a `getLogs` that fails for the last time
is logged and passed. What it says is that there is no *other* way to lose one.

`ImplementsLedger` maps the listener to `IndexLedger`: a block is settled when
nothing is owed of it, the base is `origin`, the cursor that of the document.

### ListenerReorg

One reorganization replaces the logs from some block on by those of another
branch, at any moment. The code is told nothing and has no notion of a branch,
so the module adds just that action to `Listener`, and `exposed`, the blocks the
listener had begun by then.

### SepoliaListener

Each process is `down`, `dead` (`startListener` has rejected, the process lives
on without a listener), or in its loop. The differences from `runListener.ts`
are the specification's: one `getLogs` from the cursor to the head; a range that
cannot be fetched is tried again, not passed; a log that cannot be processed is
given up, and does not stop the range; a cursor of 0 means none; and a failed
refresh of the cursor starts the loop over. `SetCursor` is an upsert with
no guard that all listeners share. `announced` is the least block a listener
has said it would start from.

`ImplementsSharedLedger` maps the listeners to `SharedLedger`. Again a block is
settled when nothing is owed of it; the base is the block announced first, or
the cursor found (`ClaimBase`). The abstract cursor may go back (`Overwrite`), since one
listener overwrites what another knows better, and the first write may come from
one who found the head himself (`OpenAtBase`); never is it written below the base, or
over a block that is not settled.

### Datasets

Each request in flight is a handler with the await it is at and the row it has
read. Every query is an action: it succeeds, fails without effect (`Fail`), or
fails after it was applied (the second alternative of `AfterWrite`). `Restart`
is the death of the process with all requests in flight. `UpdateDataset` sets the
columns it names and no others, as the code's `SET` list does; `IndexDocument`
swallows its failure. A dataset is its status, the verdict in its summary, and
whether it is registered on chain; the rest of the row takes no part in any
decision. The constants `HasValidator` and `HasElastic` are the two services that
configuration may leave out.

### Evaluator

A request is a list of wallets, the block it is for, and up to `Concurrency`
runners over one cursor (`mapWithConcurrency`). A runner takes a wallet (`Take`),
finds its output or its metrics in a cache or awaits a source (`AskDb`,
`DbNotAvailable`, `AskRpc`, `RpcNotAvailable`), writes the metrics cache
(`Measured`), and a microtask later the output cache (`Evaluate`). `Settled` keeps
the world outside out of that moment: microtasks run before the next I/O event
or timer, but those of other runners may come in between. Cache entries carry the
time they have left, so that no absolute clock is needed; expired entries are
forgotten. An evaluation is the wallet, the transfers counted and, for one
property only, its age. A failed wallet rejects its request at once while the
other runners go on.

### RpcPool

`Listener` sees a call as an outcome; this is what is behind it. All callers in a
process share the context of a chain: the index of the current endpoint and a
limiter with a queue and two slots. A caller is `idle`, `waiting` for a job it has
given to the limiter (`Call`, `TryAgain`), or `pausing` between two tries. The
context's provider is looked up when the job starts (`StartJob`), not when it is
queued. After the last try, the error decides: a code of `shouldFailover` rotates
the context (`FailOver`), whatever endpoint is current by then, and starts over;
any other error, a timeout among them, ends the call (`GiveUp`). A job whose
caller has timed out stays with the limiter, is started if it was queued, and
keeps its slot until it ends (`Discard`). The limiter's reservoir of calls per second
only delays a job, which the model does anyway. Calls that go to
`provider.provider` directly (getBlock) use the current endpoint and change nothing.

### MultiRpc

The Sepolia listener makes one call at a time. A try that is refused rotates the
pool before the pause (`TryRefused`), any other failure does not (`TryFails`). Each
provider the pool ever made keeps its error handler, so that an endpoint that was
left behind can rotate the pool too, during a call (`StrayError`) and between two
(`IdleError`). `strays` counts the events since the call began, for observation.

### Backfill

A run is a process: it asks for the head and connects (`StartRun`, `StartFails`),
goes through the four kinds (`NextKind`) and the batches of each (`FetchLogs`,
`FetchGivenUp`), and stores each log of a batch: its time (`ResolveTime`), the
collection (`OpenTransfers`, `RejectedTransfers`), and an upsert in two halves
(`FindDocument`, `InsertDocument`), because MongoDB's upsert without a unique index
is a search and an insert, and two of them may overlap. `InsertAnswerLost` is an
insert that is applied and tried again; `WriteGivenUp` is reported and passed;
`ParseThrows` and `KillRun` end the run. A batch is a set, since the order of an
answer is the endpoint's. `reported` and `together` are for observation.

A date is in the model (`dated`) and in no property: a second run whose
`getBlock` fails overwrites a right date, as in the listener, but no text promises
the dates of a backfill.

### RpcWindow

`phase` is the stage of `getWalletMetrics`: the limits, the search for the first
block (`StepAfter`, `EndAfter`), for the last (`StepBefore`, `EndBefore`), the chunks
of each target (`CollectChunk`, `NextTarget`) and the count (`Count`). One round of a
search is one step; any call may fail (`CallFails`). `Evaluator` sees all this as
one answer: the number of transfers up to a block.

`WindowExact` is relative to `minBlock`, the lowest block the code looks at. Where
the blocks just below it share its timestamp and the window starts there, they are
left out; where timestamps strictly grow, as the second part of the property
says, nothing is.

### Usage

The state is the last input and what was made of it, so that a property can
compare two evaluations. Numbers of an input come in halves, because the code
truncates. `computeInsightV1` uses floating point; its weights are all multiples of
1/12000, and the model works in these parts, where it is exact. A refused input
is a refusal without its wording.

In production only summaries are evaluated: both sources give
`unique_contracts: 0` (`docs/campaigns.md:43`: "currently fixed to `0` (pending)"), so that
with the default preset no wallet is verified today. The properties are about
the function, for all summaries.

### Commentary

A request holds an entry for each wallet: the output, its insights and the
commentary or none yet. Outputs come from the evaluator, fresh or cached, and two
requests may have different outputs of one wallet. `CampaignCommentary` and
`PostCommentary` go up to the await of the provider; `ProviderWrites` and
`ProviderFails` are its settling, in any order among wallets and requests;
both write the cache, so that a slower call that failed can replace a good commentary
by the fallback's, which is then signed as such.
`PostCommentary` takes output and insights from the client, and its key covers the
output's hash only; the model has clients send what an answer gave them.

### EnsSlots

A caller is `idle`, `waiting` in the queue, or `resolving`. `Release` is the code's
`activeResolves -= 1` and, in the same turn, the resolver of the first in the queue,
which adds the one again. The cache is a sequence in the order of use: a hit moves
a name to the end (`Hit`), a new one pushes out the first (`Remember`).

### Faucet

`Ask` is the two checks and the sending of the transfer, `Grant` the code after
`tx.wait()`, which sets both cooldowns to the time of the *arrival*. Cooldowns are
in memory only (`FaucetRestart`). `crowded` has the wallets and IPs that had two
transfers under way at once since the start, for which the code gives no spacing:
both are granted, and the later write may carry the earlier time.

### Settings

Each request is `ensureSettings` and then a statement of its own. An update has two
steps: the snapshot its subqueries see (`StartUpdate`), and the write
(`UpdateParameters`, `UpdateOracle`), which on a conflict sets only the columns asked
for.

## 3. What is checked

| run | distinct states | what it asks | result |
|---|---|---|---|
| `listener_safety` | 66,859 | `TypeOK`, `NoGap`, `NeverPastHead`, `CursorMonotone`, `ImplementsLedger` with crashes, failed calls, stale endpoints and a log that cannot be parsed | holds |
| `listener_reorg` | 107,632 | `GapOnlyWhereExposed`, `EveryBlockReached` with one reorganization as well | holds |
| `listener_reorg_heals` | | `ReorgHeals`, no fault but the reorganization | violated |
| `listener_dates` | | `DatesKept` | violated |
| `sepolia_listeners` | 30,721 | `TypeOK`, `NoGap`, `EveryBlockReached`, `ImplementsSharedLedger`: one listener that starts at the head, or two that start at a block | holds |
| `sepolia_from_head` | | `NothingStranded`: two that start at the head | violated |
| `datasets_safety` | 648,978 | `TypeOK`, `VerdictTrail`, `DocumentsBacked`, `RewardsBacked`, `ChallengesMarked`, `RegistrationKept`: two requests at a time | holds |
| `datasets_reward` | | `RewardWhileIndexed` | violated |
| `rpc_pool` | 73,650 | `TypeOK`, `OneBadEndpointTolerated`, `PoolSettles`, `EveryCallEnds`: two callers, three endpoints | holds |
| `evaluator` | 738,128 | `TypeOK`, `EveryWalletOnce`, `OneLifetimeAtMost`, `NothingAfterTheBlock`, `EveryRequestEnds` | holds |
| `evaluator_replay` | | `Replayable` | violated |
| `services` | 268,928 | the components below, one moving at a time | holds |

The run `services` checks the components that share no state with the others:

| component | properties |
|---|---|
| all | `ServicesTypeOK`, the conjunction of their type invariants |
| `RpcWindow` | `WindowExact`, `EveryQueryEnds` |
| `Usage` | `UsageOrderFree`, `MoreUseNeverHurts`, `VerifiedNotSuspected` |
| `Commentary` | `CommentaryTrue` |
| `Backfill` | `NothingLostSilently`, `StoredOnce` |
| `MultiRpc` | `ExhaustedByStraysOnly` |
| `EnsSlots` | `SlotsExact`, `EveryNameAnswered` |
| `Faucet` | `GrantsSpaced` |
| `Settings` | `NoUpdateLost` |

### What the violations show

- **Reorganizations are not repaired** (`ReorgHeals`). The listener follows the
  newest block, compares no parent hashes and deletes nothing. Transfers of the
  dropped branch stay and those of the canonical one are missed, in blocks
  already processed. `README.md:38` promises "Restart- and reorg-safe". What
  does hold is `GapOnlyWhereExposed`: other blocks are not harmed.
- **A date can change** (`DatesKept`). A block that is processed a second time
  while `getBlock` fails has its stored timestamp overwritten by the clock of the
  host (`db/transfers.ts:74`), against "Deterministic and replayable".
- **Two listeners that start at the head can strand blocks** (`NothingStranded`).
  Both find no cursor, both choose a head, the later one wins, and a restart of
  the first then continues from there. Setting `SEPOLIA_START_BLOCK` rules it
  out, for any number of listeners, and so does having one listener only: this is
  the theorem `SafeStartStrandsNothing`.
- **A reward for a dataset that is not indexed** (`RewardWhileIndexed`). A
  challenge or a rejection between the check and the insert of
  `recordRewardDistribution` goes unseen. What does hold is `RewardsBacked`: the
  dataset was approved at some time. With one request at a time the rule is kept
  (`OneAtATimeRewardsIndexed`), so it is the interleaving alone that breaks it.
- **Runs cannot be replayed** (`Replayable`). The caches are keyed without the
  block, so a cached output is served for any block, under the block of the new
  request. `docs/README_API.md:22` says that `meta.as_of_block` is there "so runs
  can be replayed deterministically".

### Bounds, and why they are enough

- *Listener*: blocks 0 to 3, six logs in three streams, two of them in one block
  and stream; batches of two, so that there is a full and a short one; the
  staking contract deployed at block 2, with a staking log of block 1 that must be
  left out; endpoints one block behind; three faults, enough for a crash, a write
  that is applied but fails, and one thing more. A larger chain adds batches of
  the kinds already there. The theorems drop all of these bounds.
- *Reorg*: three blocks, one reorganization at any block and moment, logs that
  vanish, move and become parsable; two faults.
- *Sepolia*: head 3 growing to 4, so that there are blocks before, at and after the
  start; two listeners; a log that is not valid between two that are; two faults.
  The theorems about the gap and the ledger drop these limits.
- *Datasets*: one dataset, since every query names one, and no statement relates
  two; two requests, each slot used again without end, so that sequences of
  requests of any length are covered and any two are in flight at the same time.
  There is no bound on failures or restarts.
- *RpcPool*: two callers over three endpoints, the fewest for which there are more
  endpoints than callers (with as many callers as endpoints, double rotation can
  exhaust the pool although an endpoint works: `OneBad` excludes it); two tries, so
  that there is a first and a last one; pools with one that refuses, fails or hangs, with
  several, and with nothing else. `MaxAbandoned` bounds the jobs given up on. The theorems take any
  number of callers, endpoints, tries, slots and jobs given up on.
- *Evaluator*: two slots, one with two wallets and one with the first of them; two
  runners, enough for two in one request and two requests over one wallet; a
  lifetime of two ticks, so that an entry is seen fresh, aged and expired; one
  transfer, in the block that is mined. `evaluator_replay` needs less.
- *RpcWindow*: chains of four blocks with every nondecreasing sequence of timestamps
  0 to 3, five logs over two targets, one of them to oneself; every window, with
  and without a block; a range limit and a chunk of two, so that both cut. The
  theorems drop all of this.
- *Usage*: 120 summaries on both sides of every threshold and cap, inputs that are
  refused for each reason, and up to three transactions of eight kinds in every order;
  none of this in the theorems.
- *Commentary*: two requests, two wallets, one of them with two outputs, one of which
  has the hash of the other wallet's output.
- *Backfill*: two runs, heads 2 and 3, three logs: two kinds in one block, the last
  of a batch, and one log that cannot be parsed; one fault, since each of them
  alone ends, skips or repeats something. The theorems take any number.
- *MultiRpc*: three endpoints, five tries, eight stray events: exactly the number
  with which one bad endpoint can exhaust the call, so that the bound of
  `ExhaustedByStraysOnly` is reached. The theorem shows it for any numbers.
- *EnsSlots*: four callers over two slots and two names, a cache of one entry.
  *Faucet*: two requests, two wallets, two IPs, three instants with a cooldown of two.
  *Settings*: three requests, so that a third sees what two have done.

`MaxFaults` is a budget: without it the liveness properties would say only that
a world in which every call fails makes no progress. The deadlock check is off for
the Sepolia runs only: a deployment whose listeners all are `dead` on a chain that
has stopped growing does stop.

### Fairness

- `Listener`: `WF(Process)`. The loop awaits only its own calls and timers, which
  answer or time out; a process that exited is started again by its supervisor
  (the wrappers exit with code 1 for that purpose). `WF(Mine)`: the chain grows.
  No strong fairness, and none on the success of a call: that is the budget.
- `SepoliaListener`: the same for each process that is to run. A `dead` listener is
  never promised to come back, since nothing in the code brings it back; hence
  the second alternative of `EveryBlockReached`.
- `Evaluator`: each await of each runner settles. None on `Tick`, `Mine`, `Index`
  or `Arrive`: requests end without their help.
- `RpcPool`: the limiter starts jobs, endpoints reply or the request ends, timers go
  off. `SF(Timeout)` rather than `WF`, because the bound on abandoned jobs may
  disable a timer for a while, which nothing in the code does. No fairness on `Call`.
- `RpcWindow`: `WF(WindowStep)`: each call settles. A failure is allowed to end the
  search, never required.
- `EnsSlots`: `WF` of each lookup's end, by an answer or an error: ethers gives up a
  request of its own accord. None on expiry or new callers: the queue is served in
  order however many keep asking.
- `Datasets`, `Backfill`, `Usage`, `Commentary`, `MultiRpc`, `Faucet`, `Settings`: none;
  all their properties are safety.

## 4. What is proved

| theorem | statement |
|---|---|
| `ListenerProofs!TypeCorrect` | `Spec => []TypeOK` |
| `ListenerProofs!Invariance` | `Spec => []IInv` |
| `ListenerProofs!ListenerNoGap` | `Spec => []NoGap` |
| `ListenerProofs!ListenerNeverPastHead` | `Spec => []NeverPastHead` |
| `ListenerProofs!ListenerCursorMonotone` | `Spec => CursorMonotone` |
| `ListenerProofs!ListenerImplementsLedger` | `Spec => ImplementsLedger`, that is, `Spec => Ledger!Spec` |
| `ListenerProofs!ReorgDamageConfined` | `SpecR => []GapOnlyWhereExposed` |
| `SepoliaProofs!TypeCorrect` | `Spec => []TypeOK` |
| `SepoliaProofs!Invariance` | under `SafeStart`: `Spec => []IInv` |
| `SepoliaProofs!SeveralListenersNoGap` | under `SafeStart`: `Spec => []NoGap` |
| `SepoliaProofs!SeveralListenersShareLedger` | under `SafeStart`: `Spec => ImplementsSharedLedger`, that is, `Spec => Ledger!SharedSpec` |
| `SepoliaProofs!SafeStartStrandsNothing` | under `SafeStart`: `Spec => []NothingStranded` |
| `PoolProofs!PoolTypes` | `Spec => []TypeOK`: a waiting caller has one job, the others none |
| `PoolProofs!PoolToleratesOneBad` | `Spec => []OneBadEndpointTolerated` |
| `PoolProofs!PoolNeverReturns` | `Spec => BrokenLeftForGood` |
| `PoolProofs!PoolExhaustedByAll` | `Spec => []ExhaustedAloneByAll` |
| `DatasetsProofs!TypeCorrect`, `!Invariance` | `Spec => []TypeOK`, `Spec => []IInv` |
| `DatasetsProofs!EveryVerdictHasItsTrail` | `Spec => []VerdictTrail` |
| `DatasetsProofs!EveryDocumentIsBacked` | `Spec => []DocumentsBacked` |
| `DatasetsProofs!EveryRewardIsBacked` | `Spec => []RewardsBacked` |
| `DatasetsProofs!EveryChallengeWasMarked` | `Spec => []ChallengesMarked` |
| `DatasetsProofs!RegistrationIsKept` | `Spec => RegistrationKept` |
| `DatasetsProofs!OneAtATimeRewardsIndexed` | with at most one handler: `Spec => RewardWhileIndexed` |
| `EvaluatorProofs!EvaluatorTypes` | `Spec => []TypeOK` |
| `EvaluatorProofs!WalletsOnceInPlace` | `Spec => []EveryWalletOnce` |
| `EvaluatorProofs!CachesShareOneLifetime` | `Spec => []OneLifetimeAtMost` |
| `EvaluatorProofs!ChainStopsAtTheBlock` | `Spec => []NothingAfterTheBlock` |
| `MetricsProofs!RpcWindowExact` | `WindowSpec => []WindowExact` |
| `MetricsProofs!WindowTypeCorrect` | `WindowSpec => []WindowTypeOK` |
| `MetricsProofs!UsageOrderIndependent` | `UsageSpec => []UsageOrderFree` |
| `MetricsProofs!UsageMoreNeverHurts` | `UsageSpec => MoreUseNeverHurts` |
| `MetricsProofs!UsageVerifiedNotSuspected` | `UsageSpec => []VerifiedNotSuspected` |
| `MetricsProofs!UsageTypeCorrect` | `UsageSpec => []UsageTypeOK` |
| `BackfillProofs!BackfillLosesNothing` | `BackfillSpec => []NothingLostSilently` |
| `BackfillProofs!BackfillStoresOnce` | `BackfillSpec => []StoredOnce` |
| `BackfillProofs!BackfillTypeCorrect` | `BackfillSpec => []BackfillTypeOK` |
| `ServiceProofs!MultiRpcExhaustion`, `!MultiRpcTypeCorrect` | `MultiRpcSpec => []ExhaustedByStraysOnly`, `[]MultiRpcTypeOK` |
| `ServiceProofs!EnsSlotsExact`, `!EnsTypeCorrect` | `EnsSpec => []SlotsExact`, `[]EnsTypeOK` |
| `ServiceProofs!FaucetSpacesGrants`, `!FaucetTypeCorrect` | `FaucetSpec => GrantsSpaced`, `[]FaucetTypeOK` |
| `ServiceProofs!SettingsLoseNoUpdate`, `!SettingsTypeCorrect` | `SettingsSpec => []NoUpdateLost`, `[]SettingsTypeOK` |
| `ServiceProofs!CommentaryIsTrue`, `!CommentaryTypeCorrect` | `CommentarySpec => []CommentaryTrue`, `[]CommentaryTypeOK` |
| `ServiceProofs!ServicesTypeCorrect` | `ServicesSpec => []ServicesTypeOK`: the types of the eight beside each other |
| `ServiceProofs!ServicesKeepPromises` | `ServicesSpec` implies the properties of all eight at once |

`SafeStart` says that each deployment sets `SEPOLIA_START_BLOCK` or has at most one
listener.

They hold for every value of the constants that the modules' named `ASSUME`s admit:
every set of logs, configuration, chain, lag, lifetime and number of faults, any
number of requests, runs, datasets, wallets, callers, endpoints and Sepolia listeners.
The assumptions are types of the constants, for Sepolia also that the chain has some
blocks when the first listener starts, for `Commentary` that a wallet and a hash
determine an output, for `Backfill` that logs have identities, for `RpcWindow` that a
chain has finitely many logs and its timestamps do not decrease, and for `RpcPool` that
no caller has the name that marks an abandoned job or an empty slot. The
theorems about the eight services together are as general: `MCServices` names values
for TLC to put in, and the proofs use none of them.

**Listener.** `NoGap` is not inductive: a cursor is persisted from memory, and
that memory is trusted because the walk of a block leaves nothing behind. `IInv`
is the chain of these claims, each weaker than the next step needs:

- `WalkOK`: the block being worked on is the one after the cursor in memory, and
  exists;
- `StreamsDone`: of that block, the logs of the streams and indexes already passed
  are accounted for;
- `MemoryBacked`: of the blocks up to the cursor in memory, all are;
- `DurableBehindMemory`: the persisted cursor is not ahead of the one in memory.

What is accounted for stays so (`AccountedStable`), so a step disturbs one link of
the chain at a time, and one lemma per link shows that it does not break. The last link gives `CursorMonotone`
as well: an upsert without a guard does not go back because nobody but one process
writes it. For the refinement, a step either writes the cursor (`Checkpoint`),
chooses the start while there is none (`ChooseBase`), or works on the logs
(`Settle`), and never does two of these.

The claims about logs leave out a set X of blocks, which is empty for `Spec` and
`exposed` for `SpecR`. The listener's own steps are the same lemmas for any X. A
reorganization exposes every block from the branch point up to the furthest the
listener knows of (`Reach`), so what it knows of and is not exposed lies below the
branch and keeps its logs.

**Sepolia.** With several listeners the cursor *does* go back, so
`DurableBehindMemory` is false and the argument is another one: everything any
listener believes is backed by the database (`MemoryBacked`), so it does not
matter whose belief is written last. That needs all listeners to have started
from one place (`OneStart`), which holds where a start block is set, since that is
what the first announces and no cursor is ever written below, or where nobody else
could have started. It fails otherwise, as `sepolia_from_head` shows.

For the refinement a step again does one of the abstract ones: `Settle` where logs
are stored or passed, `ChooseBase` where a listener announces its start and there is no
cursor, `Overwrite` where one is written, and `OpenAtBase` where a listener that starts
at the head announces and writes at once. An announcement beside a cursor must not
move the base (`AnnouncedOnce`), and what is written must be a block of the chain
(`BelowHead`), as only those can be settled.

**RpcPool.** The type invariant counts the jobs of a caller in the queue and in the
slots. `JobsOK` says the same without counting (no two places, not both, one if it is
waiting), which is what the operations on the limiter preserve and the provers can
follow; `JobsCounted` shows that the two agree. For the broken endpoint, `OneBadOK`
bounds the callers that may still rotate the pool: only those with a job *there*
(`Armed`), one rotation each, and while a working endpoint is current there are fewer
of them than rotations left until the broken one comes round (`Away`). No new one joins,
as jobs start at the current endpoint. So the pool stops short of it
(`BrokenLeftForGood`), and a call that has rotated once is answered at a working
endpoint, before it counts enough rotations to be exhausted.

A caller that shares the pool with nobody (`AloneOK`) has its job at the current endpoint,
and the endpoints it has rotated past are those the pool has left last; when the count
of attempts is used up, these are all there are.

**Datasets.** A handler acts on a row it read some awaits ago, which may have
changed. `HandlerOK` says what it relies on at each await, and it is only
what cannot be undone: rows are not deleted, the trail and the set of datasets once
marked only grow, and the row a handler carries to the search index came back from
the database. So no step of another handler can take it away (`OtherHandlers`), and
each handler gets to its next await with what it needs there (`OwnHandler`). One
lemma, `RowStep`, says which writes to a row there are; the merge of the columns
of an `UPDATE` (`Merge`) is treated in lemmas of its own. `RewardWhileIndexed`
fails because what it relies on, that a dataset *is* indexed, can be undone.

**Evaluator.** `EveryWalletOnce` rests on the cursor a request's runners share: what
is at or after it is untouched, and what is before it has a result or is at
exactly one runner (`RequestOK`, `RunnerOK`). `OneLifetimeAtMost` would fail if an
output were made from metrics that had aged: `CachesOK` says that a wallet's metrics
outlive its output only while a runner is between its two writes, and in that
time the clock stands still, so what the runner found is `Fresh`.

**RpcWindow.** Each search is described by what it has found out about the blocks on
either side (`AfterInv`, `BeforeInv`), which with nondecreasing timestamps makes
`fromBlock .. toBlock` the blocks of the window; `CollectInv` says that the keys
collected are those of the targets and blocks passed. The types add that the logs of a
chain are finite, so that they can be counted at all.

**Backfill.** `Progress` says how far a run has come: of the kinds before the current
one all logs are handled, of the current one those before `start`, but for the
pending ones. `Stranger` is what a run knows when it is about to insert: the documents
of this log that have come since it looked are of other runs, beside it. As every
action belongs to one run, a lemma (`Aside`) covers the others once.

**Usage.** Monotonicity of the score and of the verdict in each number, and a bound on
the farm score at the preset's thresholds: both linear in the capped numbers. Where
the summary is counted from transactions, the loop is a recursive function of the
number of rounds (`Rounds`), and what it has counted after `n` of them is the size of
the sets of places, days and contracts among the first `n` transactions. That is an
induction over naturals, written as one over the *set* of numbers for which it holds.
From it follows that the numbers are naturals, and that the order does not matter:
a permutation of the places maps each of these sets onto its counterpart.

**Services.** `EnsSlots`: `SlotsExact` is inductive with the types; for these, the cache
is a list without repetition, which a hit and an eviction keep. `Faucet`: for what is
not crowded, the cooldown *is* the latest grant and at most one transfer is under
way, which the check spaced when it was admitted (`WalletQuiet`, `IpQuiet`).
`Settings`: a request past `ensureSettings` finds a row, and the row is never
deleted. `Commentary`: every entry of both caches is of the output its key is of,
since a key tells outputs apart (`KeysTellApart`). `MultiRpc`: each try that is refused
by the one bad endpoint rotates the pool once, and only events of endpoints left behind
can have brought it round again; `StraysOK` says how many of them the tries so far
must have seen (`Owed`) and how far the pool is past the bad endpoint (`Past`).

All of them, the backfill, the window and the usage run in `MCServices`. A step of one
leaves the variables of the others alone, so a behaviour of the whole is a behaviour of
each (`EachOnItsOwn`), and what is proved of each holds of the whole.

**Only model-checked.** Liveness (`EveryBlockReached`, `EveryRequestEnds`,
`EveryCallEnds`, `PoolSettles`, `EveryQueryEnds`, `EveryNameAnswered`), which is out of
the prover's reach. All safety properties of passing runs are proved. `BrokenLeftForGood`
and `ExhaustedAloneByAll` are stated and proved without a run of their own.

## 5. What is not modelled

- Text: addresses, JSON, log messages, the wording of a commentary. Canonical JSON
  and the proof hash are text and keccak: `UsageOrderFree` compares whole outputs, of
  which the hash is a function, and `Commentary` takes a hash to identify its output.
- Reward claims: they set `rewards_to_claim` to 0, which is what every stake has it
  at, as nothing in the code raises it. Stakes: one row, inserted and deleted by one
  statement each.
- Mock metrics, health and query endpoints, validator operations, placeholders,
  configuration, routing: they keep no state, or only read.
- The audit trail and the rate limiter of the HTTP application: log lines, a library.
- In `Evaluator`: a request whose block cannot be resolved (it fails before it has
  runners and changes nothing), the insides of the database source, and the LRU
  bound of its caches (`EnsSlots` has that of the same class).
- In `Backfill`: liveness. A run is started by hand, and one that meets a log which
  cannot be parsed fails every time.
- In `Datasets`: `removeDatasetDocument`, which nothing calls; the rows' other columns,
  `poiHash` among them.
- Closing the MongoDB connection: only scripts that end do it.

## 6. Plan

Done: the listeners and the ledgers with their proofs; the datasets with theirs; the
evaluator, the window of its chain source and the usage it evaluates, with theirs;
the backfill with its; the RPC pools with theirs; ENS, faucet, settings and commentary
with their proofs, also beside one another.

Left:

1. `Backfill` beside `Listener`, over one collection of transfers: as both upsert under
   the unique index, the composition should add nothing but the dates.
2. Sufficient conditions for the two remaining statements that fail: `DatesKept` where
   `getBlock` answers, and `Replayable` where the caches are empty.
