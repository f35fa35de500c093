------------------------------ MODULE Listener ------------------------------
(***************************************************************************)
(* The live listener of one chain, src/infra/indexer/listener/             *)
(* runListener.ts, with the state document it persists (db/state.ts) and   *)
(* the four collections it upserts into (db/transfers.ts and the           *)
(* updateOne calls of processBlock).                                       *)
(*                                                                         *)
(* One process per chain polls the head, walks the next blocks one by one, *)
(* and for each block fetches and stores the logs of up to four contracts. *)
(* Every await is a step, so that the chain moves, the process dies and    *)
(* the RPC pool or MongoDB fail between any two of them.                   *)
(*                                                                         *)
(* withRetry and the RPC pool show only in their outcome here: a call      *)
(* succeeds, or it has failed for the last time.                           *)
(***************************************************************************)
EXTENDS Integers, FiniteSets

CONSTANTS
  Logs,          \* the logs of the chain, see LogType
  Poison,        \* the logs whose parser throws
  Deploy,        \* deployBlock of the contract of each stream, or Absent
  BatchSize,     \* LISTENER_BATCH_SIZE
  DeployBlock,   \* deployBlock of the chain's configuration
  StartBlock,    \* START_BLOCK: a number, 0 if not finite and positive, or Absent
  MaxBlock,      \* bound: the chain stops growing here
  MaxLag,        \* bound: how far an endpoint of the pool is behind the head
  MaxFaults      \* bound: crashes, failed calls and stale answers in all

(* The streams in the order processBlock visits them.                      *)
Transfers     == 1
Staking       == 2
Poi           == 3
Contributions == 4
Streams       == Transfers .. Contributions

LogType == [block : Nat, fork : Nat, stream : Streams, index : Nat]

Absent == -1

ASSUME LogsAssumption ==
  /\ Logs \subseteq LogType
  /\ Poison \subseteq Logs

ASSUME ConfigAssumption ==
  /\ Deploy \in [Streams -> Nat \cup {Absent}]
  /\ BatchSize \in Nat \ {0}
  /\ DeployBlock \in Nat
  /\ StartBlock \in Nat \cup {Absent}

ASSUME BoundsAssumption ==
  /\ MaxBlock \in Nat
  /\ MaxLag \in Nat
  /\ MaxFaults \in Nat

VARIABLES
  \* the chain, as the healthiest endpoint of the pool sees it
  head,                \* number of the newest block
  chain,               \* the logs of the canonical chain
  \* MongoDB
  state,               \* the indexer_state document of the chain
  docs,                \* docs[l]: the document of log l, by the origin of its date
  \* the listener process
  pc,
  lastProcessedBlock,
  latestBlock,
  targetBlock,
  blockNumber,
  dated,               \* the block's timestamp is known
  stream,              \* the stream processBlock is at
  pending,             \* fetched logs not yet handled
  \* observation: logs the process gave up, and the position it started from
  reported,            \* given up with an error in the log
  unseen,              \* missed because the endpoint did not have the block
  origin,              \* where the walk of the chain started
  faults

envVars  == <<head, chain>>
dbVars   == <<state, docs>>
walkVars == <<targetBlock, blockNumber, dated, stream, pending>>
procVars == <<pc, lastProcessedBlock, latestBlock, targetBlock, blockNumber,
              dated, stream, pending>>
obsVars  == <<reported, unseen, origin>>
vars     == <<envVars, dbVars, procVars, obsVars, faults>>

NoState == [lastProcessedBlock |-> -1, currentChainBlock |-> -1]

(* A stored document is dated by the chain, by the clock of the host       *)
(* (normalizeTimestamp of a missing timestamp), or not at all.             *)
DocStates == {"none", "chain", "clock", "zero"}

AtLeast0(n) == IF n < 0 THEN 0 ELSE n

LowerOfMutant(m, n) == n   \* the batch is not clipped to the head

LowerOf(m, n) == IF m < n THEN m ELSE n

-----------------------------------------------------------------------------
(* Faults come out of one budget.                                          *)
Charge(bad) == IF bad THEN faults < MaxFaults /\ faults' = faults + 1
                      ELSE UNCHANGED faults

(* What some endpoint of the pool believes the head to be.                 *)
EndpointHeads == AtLeast0(head - MaxLag) .. head

LogsAt(b, s) == {l \in chain : l.block = b /\ l.stream = s}

(* Transfers are fetched for every block, the other streams once their     *)
(* contract is configured and deployed.                                    *)
Ready(s, b) == s = Transfers \/ (Deploy[s] # Absent /\ b >= Deploy[s])

(* The date a stored log gets.  A transfer without a block timestamp is    *)
(* dated by Date.now(), a staking event by 0; the other two carry their    *)
(* own.                                                                    *)
DocDate(s) == IF dated \/ s \in {Poi, Contributions} THEN "chain"
              ELSE IF s = Transfers THEN "clock"
              ELSE "zero"

\* Mutants: Math.max(0, ...) forgotten; the persisted cursor forgotten.
StartingBlocksMutant ==
  IF state # NoState THEN {state.lastProcessedBlock} ELSE {h - 1 : h \in EndpointHeads}

StartingBlocksForget == {AtLeast0(h - 1) : h \in EndpointHeads}

(* resolveStartingBlock: the persisted cursor, else START_BLOCK - 1, else  *)
(* just below the head if START_BLOCK is no positive number, else just     *)
(* below the deployment.                                                   *)
StartingBlocks ==
  IF state # NoState THEN {state.lastProcessedBlock}
  ELSE IF StartBlock = Absent THEN {AtLeast0(DeployBlock - 1)}
  ELSE IF StartBlock > 0 THEN {StartBlock - 1}
  ELSE {AtLeast0(h - 1) : h \in EndpointHeads}

\* Mutant: the arguments are swapped.
PersistMutant(last, latest) ==
  /\ state' = [lastProcessedBlock |-> latest, currentChainBlock |-> last]
  /\ UNCHANGED faults

(* persistLastProcessedBlock: one unconditional upsert.  A write to        *)
(* MongoDB that fails may have been applied all the same.                  *)
Persist(last, latest) ==
  \E ok, applied \in BOOLEAN :
    /\ ok => applied
    /\ Charge(~ok)
    /\ state' = IF applied
                THEN [lastProcessedBlock |-> last, currentChainBlock |-> latest]
                ELSE state

(* The locals of one batch are dead outside it.                            *)
LeaveBatch == /\ targetBlock' = 0
              /\ blockNumber' = 0
              /\ dated' = FALSE
              /\ stream' = Transfers
              /\ pending' = {}

-----------------------------------------------------------------------------
Init == /\ head \in 0 .. MaxBlock
        /\ chain = {l \in Logs : l.fork = 0}
        /\ state = NoState
        /\ docs = [l \in Logs |-> "none"]
        /\ pc = "down"
        /\ lastProcessedBlock = 0
        /\ latestBlock = 0
        /\ targetBlock = 0
        /\ blockNumber = 0
        /\ dated = FALSE
        /\ stream = Transfers
        /\ pending = {}
        /\ reported = {}
        /\ unseen = {}
        /\ origin = 0
        /\ faults = 0

(* The chain grows by a block.                                             *)
Mine == /\ head < MaxBlock
        /\ head' = head + 1
        /\ UNCHANGED <<chain, dbVars, procVars, obsVars, faults>>

(* The process (re)starts and resolves where to go on.  A start that fails *)
(* leaves it down.                                                         *)
Start == /\ pc = "down"
         /\ pc' = "poll"
         /\ \E b \in StartingBlocks :
              /\ lastProcessedBlock' = b
              /\ origin' = IF state = NoState THEN b ELSE origin
         /\ UNCHANGED <<envVars, dbVars, latestBlock, walkVars, reported, unseen, faults>>

(* The process dies: it is killed, or getBlockNumber, which is outside of  *)
(* every try, rejects runListener and the wrapper exits.                   *)
Crash == /\ pc # "down"
         /\ Charge(TRUE)
         /\ pc' = "down"
         /\ lastProcessedBlock' = 0
         /\ latestBlock' = 0
         /\ LeaveBatch
         /\ UNCHANGED <<envVars, dbVars, obsVars>>

(* getBlockNumber, answered by any endpoint.                               *)
Poll == /\ pc = "poll"
        /\ \E h \in EndpointHeads :
             /\ Charge(h # head)
             /\ latestBlock' = h
        /\ pc' = "refresh"
        /\ UNCHANGED <<envVars, dbVars, lastProcessedBlock, walkVars, obsVars>>

\* Mutant: the cursor is written at the end of a batch only.
RefreshMutant ==
  /\ pc = "refresh"
  /\ IF lastProcessedBlock >= latestBlock
     THEN pc' = "poll" /\ UNCHANGED walkVars
     ELSE /\ pc' = "block"
          /\ targetBlock' = LowerOf(latestBlock, lastProcessedBlock + BatchSize)
          /\ blockNumber' = lastProcessedBlock + 1
          /\ UNCHANGED <<dated, stream, pending>>
  /\ UNCHANGED <<envVars, dbVars, lastProcessedBlock, latestBlock, obsVars, faults>>

(* The state document is refreshed, whether that works or not; then the    *)
(* loop sleeps if there is no new block, or sets out on a batch.           *)
Refresh ==
  /\ pc = "refresh"
  /\ Persist(lastProcessedBlock, latestBlock)
  /\ IF lastProcessedBlock >= latestBlock
     THEN /\ pc' = "poll"
          /\ UNCHANGED walkVars
     ELSE /\ pc' = "block"
          /\ targetBlock' = LowerOf(latestBlock, lastProcessedBlock + BatchSize)
          /\ blockNumber' = lastProcessedBlock + 1
          /\ UNCHANGED <<dated, stream, pending>>
  /\ UNCHANGED <<envVars, docs, lastProcessedBlock, latestBlock, obsVars>>

(* processBlock begins with getBlock.  When it fails, or the endpoint does *)
(* not have the block, the timestamp is 0 and the walk goes on.            *)
FetchTimestamp ==
  /\ pc = "block"
  /\ \E ok \in BOOLEAN : Charge(~ok) /\ dated' = ok
  /\ pc' = "logs"
  /\ stream' = Transfers
  /\ UNCHANGED <<envVars, dbVars, lastProcessedBlock, latestBlock, targetBlock,
                 blockNumber, pending, obsVars>>

(* fetchLogs of the current stream: the logs of the block; nothing, when   *)
(* the endpoint that answers is behind the block; or an error after the    *)
(* last retry, logged and turned into nothing.                             *)
AtStream == pc = "logs" /\ stream \in Streams /\ pending = {}

AfterFetch(logs) ==
  /\ pending' = logs
  /\ stream' = IF logs = {} THEN stream + 1 ELSE stream
  /\ UNCHANGED <<envVars, dbVars, pc, lastProcessedBlock, latestBlock, targetBlock,
                 blockNumber, dated, origin>>

FetchLogs ==
  /\ AtStream
  /\ Ready(stream, blockNumber)
  /\ AfterFetch(LogsAt(blockNumber, stream))
  /\ UNCHANGED <<reported, unseen, faults>>

FetchBehind ==
  /\ AtStream
  /\ Ready(stream, blockNumber)
  /\ \E h \in EndpointHeads : h < blockNumber
  /\ Charge(TRUE)
  /\ AfterFetch({})
  /\ unseen' = unseen \cup LogsAt(blockNumber, stream)
  /\ UNCHANGED reported

FetchFails ==
  /\ AtStream
  /\ Ready(stream, blockNumber)
  /\ Charge(TRUE)
  /\ AfterFetch({})
  /\ reported' = reported \cup LogsAt(blockNumber, stream)
  /\ UNCHANGED unseen

SkipStream ==
  /\ AtStream
  /\ ~Ready(stream, blockNumber)
  /\ AfterFetch({})
  /\ UNCHANGED <<reported, unseen, faults>>

(* The next log of the answer, in log order.                               *)
IsNextLog(l) == l \in pending /\ \A m \in pending : l.index <= m.index

(* The log is parsed and upserted under (chain, txHash, logIndex); a write *)
(* that failed for the last time is logged and dropped.                    *)
StoreLog ==
  /\ pc = "logs"
  /\ \E l \in pending \ Poison, ok, applied \in BOOLEAN :
       /\ IsNextLog(l)
       /\ ok => applied
       /\ Charge(~ok)
       /\ docs' = IF applied THEN [docs EXCEPT ![l] = DocDate(l.stream)] ELSE docs
       /\ reported' = IF ok THEN reported ELSE reported \cup {l}
       /\ pending' = pending \ {l}
       /\ stream' = IF pending = {l} THEN stream + 1 ELSE stream
  /\ UNCHANGED <<envVars, state, pc, lastProcessedBlock, latestBlock, targetBlock,
                 blockNumber, dated, unseen, origin>>

\* Mutant: a log that cannot be parsed is skipped.
ParseFailsMutant ==
  /\ pc = "logs"
  /\ \E l \in pending \cap Poison :
       /\ IsNextLog(l)
       /\ pending' = pending \ {l}
       /\ stream' = IF pending = {l} THEN stream + 1 ELSE stream
  /\ UNCHANGED <<envVars, dbVars, pc, lastProcessedBlock, latestBlock, targetBlock,
                 blockNumber, dated, obsVars, faults>>

(* A parser that throws is caught by the loop only: the batch ends where   *)
(* it is, the cursor keeps the blocks before.                              *)
ParseFails ==
  /\ pc = "logs"
  /\ \E l \in pending \cap Poison : IsNextLog(l)
  /\ pc' = "poll"
  /\ LeaveBatch
  /\ UNCHANGED <<envVars, dbVars, lastProcessedBlock, latestBlock, obsVars, faults>>

\* Mutant: the cursor in memory jumps to the end of the batch.
FinishBlockMutant ==
  /\ pc = "logs"
  /\ stream \notin Streams
  /\ lastProcessedBlock' = targetBlock
  /\ IF blockNumber < targetBlock
     THEN pc' = "block" /\ blockNumber' = blockNumber + 1
     ELSE pc' = "persist" /\ UNCHANGED blockNumber
  /\ UNCHANGED <<envVars, dbVars, latestBlock, targetBlock, dated, stream, pending,
                 obsVars, faults>>

(* The block is done; only now does the cursor in memory move.             *)
FinishBlock ==
  /\ pc = "logs"
  /\ stream \notin Streams
  /\ lastProcessedBlock' = blockNumber
  /\ IF blockNumber < targetBlock
     THEN pc' = "block" /\ blockNumber' = blockNumber + 1
     ELSE pc' = "persist" /\ UNCHANGED blockNumber
  /\ UNCHANGED <<envVars, dbVars, latestBlock, targetBlock, dated, stream, pending,
                 obsVars, faults>>

(* The batch ends with the cursor written out; a failure is only logged.   *)
PersistBatch ==
  /\ pc = "persist"
  /\ Persist(lastProcessedBlock, latestBlock)
  /\ pc' = "poll"
  /\ LeaveBatch
  /\ UNCHANGED <<envVars, docs, lastProcessedBlock, latestBlock, obsVars>>

Fetch == FetchLogs \/ FetchBehind \/ FetchFails \/ SkipStream

Process == \/ Start
           \/ Poll
           \/ Refresh
           \/ FetchTimestamp
           \/ Fetch
           \/ StoreLog
           \/ ParseFails
           \/ FinishBlock
           \/ PersistBatch

Next == Mine \/ Crash \/ Process

Spec == Init /\ [][Next]_vars

(* The loop never waits for anything but its own calls and timers, so it   *)
(* takes its next step; a supervisor starts it again after an exit.  The   *)
(* chain goes on growing (up to the bound).                                *)
FairSpec == Spec /\ WF_vars(Process) /\ WF_vars(Mine)
-----------------------------------------------------------------------------
(* Every variable has the type its declaration in the code gives it, and   *)
(* the document of the state collection is absent or complete.             *)
TypeOK == /\ head \in 0 .. MaxBlock
          /\ chain \subseteq Logs
          /\ state = NoState \/ state \in [lastProcessedBlock : Nat, currentChainBlock : Nat]
          /\ docs \in [Logs -> DocStates]
          /\ pc \in {"down", "poll", "refresh", "block", "logs", "persist"}
          /\ lastProcessedBlock \in Nat
          /\ latestBlock \in Nat
          /\ targetBlock \in Nat
          /\ blockNumber \in Nat
          /\ dated \in BOOLEAN
          /\ stream \in Transfers .. Contributions + 1
          /\ pending \subseteq Logs
          /\ stream \notin Streams => pending = {}
          /\ reported \subseteq Logs
          /\ unseen \subseteq Logs
          /\ origin \in Nat
          /\ faults \in 0 .. MaxFaults

(* A log the indexer should have: of a contract it indexes at that block.  *)
Wanted(l) == l \in chain /\ Ready(l.stream, l.block)

Accounted(l) == docs[l] # "none" \/ l \in reported \/ l \in unseen

AccountedBlock(b) == \A l \in Logs : l.block = b /\ Wanted(l) => Accounted(l)

(* NO UNEXPLAINED GAP.  Whatever crashed or failed in between, every log   *)
(* of a block between the start and the persisted cursor is stored, or an  *)
(* error for it was logged, or no endpoint that answered had the block.    *)
(* In particular a log that cannot be parsed is never passed in silence.   *)
NoGap == state # NoState =>
           \A b \in origin + 1 .. state.lastProcessedBlock : AccountedBlock(b)

(* The cursor is never past a block that does not exist yet: the next      *)
(* batch is clipped to a head an endpoint has reported, unless START_BLOCK *)
(* itself lies in the future.                                              *)
NeverPastHead == lastProcessedBlock <= head \/ lastProcessedBlock <= origin

(* CURSOR NEVER GOES BACK.  The upsert of the cursor has no guard; that    *)
(* the document only ever moves forward, over crashes, failed writes and   *)
(* endpoints that report an older head, rests on the order of the loop.    *)
CursorMonotone ==
  [][state # NoState =>
       /\ state' # NoState
       /\ state'.lastProcessedBlock >= state.lastProcessedBlock]_state

(* A block of which nothing is owed any more.                              *)
Settled == {b \in 0 .. MaxBlock : AccountedBlock(b)}

Ledger == INSTANCE IndexLedger
            WITH settled <- Settled, base <- origin, cursor <- state.lastProcessedBlock

(* REFINEMENT.  The document of the state collection is the cursor of an   *)
(* IndexLedger whose settled blocks are the accounted ones.                *)
ImplementsLedger == Ledger!Spec

(* A date taken from the chain is not lost again, whatever is restarted    *)
(* and processed a second time.                                            *)
DatesKept ==
  [][\A l \in Logs : docs[l] = "chain" => docs'[l] = "chain"]_docs

(* PROGRESS.  With faults that end, every block of the chain up to the     *)
(* first log that cannot be parsed is eventually under the durable cursor. *)
Passable(b) == \A l \in Poison : l.block <= b => ~Wanted(l)

EveryBlockReached ==
  \A b \in 1 .. MaxBlock :
    (head >= b /\ Passable(b)) ~> (state.lastProcessedBlock >= b)
=============================================================================
