----------------------------- MODULE RpcWindow -----------------------------
(***************************************************************************)
(* RpcMetricsProvider.getWalletMetrics: the transfers of a wallet in a     *)
(* window of time, counted over an RPC endpoint that only knows blocks.    *)
(*                                                                         *)
(* The window is turned into a range of blocks by two binary searches over *)
(* the timestamps of the blocks, the logs of the range are fetched chunk   *)
(* by chunk for each target, once as sender and once as recipient, and     *)
(* counted by target, transaction and index.  One step of the model is one *)
(* call of the provider, and any of them may fail.                         *)
(***************************************************************************)
EXTENDS Integers, Sequences, FiniteSets

CONSTANTS
  Chains,          \* the chains considered, see ChainType
  WindowRequests,  \* the requests considered, see RequestType
  Targets,         \* the ERC-20 targets of the campaign, in their order
  MaxBlockRange,   \* MAX_BLOCK_RANGE
  LogBlockChunk,   \* LOG_BLOCK_CHUNK
  DaySeconds       \* DAY_SECONDS

NoBlock == -1

(* A Transfer log of the wallet: sent by it, received by it, or both.      *)
TargetIds == 1 .. Len(Targets)

LogRecords == {l \in [target : TargetIds, tx : Nat, index : Nat, block : Nat,
                      sent : BOOLEAN, received : BOOLEAN] : l.sent \/ l.received}

Nondecreasing(stamp, top) ==
  \A a, b \in 0 .. top : a <= b => stamp[a] <= stamp[b]

StrictlyIncreasing(stamp, top) ==
  \A a, b \in 0 .. top : a < b => stamp[a] < stamp[b]

(* What the endpoint serves: the blocks up to top, the newest, and their   *)
(* logs.  Blocks of some chains share a timestamp.                         *)
IsChain(c) == /\ c.top \in Nat
              /\ c.stamp \in [0 .. c.top -> Nat]
              /\ Nondecreasing(c.stamp, c.top)
              /\ c.logs \subseteq LogRecords /\ IsFiniteSet(c.logs)
              /\ \A l \in c.logs : l.block <= c.top

RequestType == [start : Nat, end : Nat, asOf : Nat \cup {NoBlock}]

ASSUME WindowAssumption ==
  /\ MaxBlockRange \in Nat
  /\ LogBlockChunk \in Nat \ {0}
  /\ DaySeconds \in Nat \ {0}
  /\ WindowRequests \subseteq RequestType
  /\ Targets \in Seq(STRING)
  /\ \A c \in Chains : IsChain(c)

VARIABLES
  phase,       \* where the call is
  chain,       \* the chain the endpoint serves during the call
  request,
  asOfBlock,
  minBlock,    \* the lowest block the call looks at
  left, right, resolved,   \* the binary search under way
  fromBlock, toBlock,      \* the range of blocks found
  targetNo,    \* the target whose logs are fetched
  chunkStart,  \* the first block of the next chunk
  matched,     \* the keys collected, each with its block
  metrics      \* the answer

search     == <<left, right, resolved>>
range      == <<fromBlock, toBlock>>
collection == <<targetNo, chunkStart, matched>>
WindowVars == <<phase, chain, request, asOfBlock, minBlock, search, range, collection, metrics>>

NoChain   == [top |-> 0, stamp |-> [b \in 0 .. 0 |-> 0], logs |-> {}]
NoRequest == [start |-> 0, end |-> 0, asOf |-> NoBlock]
NoMetrics == [tx_count |-> 0, days_active |-> 0]

Lesser(a, b) == IF a <= b THEN a ELSE b

Stamp(b) == chain.stamp[b]

-----------------------------------------------------------------------------
ClearCall == /\ asOfBlock' = 0 /\ minBlock' = 0
             /\ left' = 0 /\ right' = 0 /\ resolved' = 0
             /\ fromBlock' = 0 /\ toBlock' = 0
             /\ targetNo' = 1 /\ chunkStart' = 0 /\ matched' = {}

WindowInit == /\ phase = "idle"
              /\ chain = NoChain /\ request = NoRequest /\ metrics = NoMetrics
              /\ asOfBlock = 0 /\ minBlock = 0
              /\ left = 0 /\ right = 0 /\ resolved = 0
              /\ fromBlock = 0 /\ toBlock = 0
              /\ targetNo = 1 /\ chunkStart = 0 /\ matched = {}

(* A call with a window that ends before it starts is refused; any other   *)
(* begins with the number of the newest block.                             *)
Query ==
  /\ phase = "idle"
  /\ \E c \in Chains, r \in WindowRequests :
       /\ chain' = c /\ request' = r
       /\ phase' = IF r.end < r.start THEN "failed" ELSE "limits"
       /\ asOfBlock' = IF r.asOf = NoBlock THEN c.top ELSE Lesser(c.top, r.asOf)
  /\ minBlock' = IF asOfBlock' > MaxBlockRange THEN asOfBlock' - MaxBlockRange ELSE 0
  /\ UNCHANGED <<search, range, collection, metrics>>

(* The timestamps of the two ends.  The window must not start before the   *)
(* lowest block.                                                           *)
Limits ==
  /\ phase = "limits"
  /\ IF request.start < Stamp(minBlock)
     THEN phase' = "failed" /\ UNCHANGED search
     ELSE phase' = "after" /\ left' = minBlock /\ right' = asOfBlock /\ resolved' = asOfBlock + 1
  /\ UNCHANGED <<chain, request, asOfBlock, minBlock, range, collection, metrics>>

Middle == (left + right) \div 2

\* Mutants: the first block after the start only; a search that stands still.
StepAfterLate ==
  /\ phase = "after" /\ left <= right
  /\ IF Stamp(Middle) > request.start
     THEN resolved' = Middle /\ right' = Middle - 1 /\ UNCHANGED left
     ELSE left' = Middle + 1 /\ UNCHANGED <<right, resolved>>
  /\ UNCHANGED <<phase, chain, request, asOfBlock, minBlock, range, collection, metrics>>

(* findBlockAtOrAfter, one round.                                          *)
StepAfter ==
  /\ phase = "after" /\ left <= right
  /\ IF Stamp(Middle) >= request.start
     THEN resolved' = Middle /\ right' = Middle - 1 /\ UNCHANGED left
     ELSE left' = Middle + 1 /\ UNCHANGED <<right, resolved>>
  /\ UNCHANGED <<phase, chain, request, asOfBlock, minBlock, range, collection, metrics>>

EndAfter ==
  /\ phase = "after" /\ left > right
  /\ fromBlock' = resolved
  /\ phase' = "before" /\ left' = minBlock /\ right' = asOfBlock /\ resolved' = minBlock - 1
  /\ UNCHANGED <<chain, request, asOfBlock, minBlock, toBlock, collection, metrics>>

BoundedEnd == Lesser(request.end, Stamp(asOfBlock))

StepBeforeStuck ==
  /\ phase = "before" /\ left <= right
  /\ IF Stamp(Middle) <= BoundedEnd
     THEN resolved' = Middle /\ left' = Middle /\ UNCHANGED right
     ELSE right' = Middle - 1 /\ UNCHANGED <<left, resolved>>
  /\ UNCHANGED <<phase, chain, request, asOfBlock, minBlock, range, collection, metrics>>

(* findBlockAtOrBefore, one round.                                         *)
StepBefore ==
  /\ phase = "before" /\ left <= right
  /\ IF Stamp(Middle) <= BoundedEnd
     THEN resolved' = Middle /\ left' = Middle + 1 /\ UNCHANGED right
     ELSE right' = Middle - 1 /\ UNCHANGED <<left, resolved>>
  /\ UNCHANGED <<phase, chain, request, asOfBlock, minBlock, range, collection, metrics>>

(* No block in the window: zeros.  The check of the range that follows in  *)
(* the code never fails: both ends are between minBlock and asOfBlock.     *)
EndBefore ==
  /\ phase = "before" /\ left > right
  /\ toBlock' = resolved
  /\ IF fromBlock > resolved
     THEN phase' = "done" /\ metrics' = NoMetrics /\ UNCHANGED collection
     ELSE /\ phase' = "collect" /\ UNCHANGED metrics
          /\ targetNo' = 1 /\ chunkStart' = fromBlock /\ matched' = {}
  /\ UNCHANGED <<chain, request, asOfBlock, minBlock, search, fromBlock>>

-----------------------------------------------------------------------------
TransferKey(l) == [target |-> l.target, tx |-> l.tx, index |-> l.index, block |-> l.block]

ChunkEnd == Lesser(chunkStart + LogBlockChunk - 1, toBlock)

Sent(from, to)     == {l \in chain.logs : l.target = targetNo /\ l.block \in from .. to /\ l.sent}
Received(from, to) == {l \in chain.logs : l.target = targetNo /\ l.block \in from .. to /\ l.received}

(* collectTransferLogs, one chunk of one target: the logs the wallet has   *)
(* sent and those it has received.  A log that is both has one key.        *)
CollectChunk ==
  /\ phase = "collect" /\ targetNo \in TargetIds /\ chunkStart <= toBlock
  /\ matched' = matched \cup {TransferKey(l) : l \in Sent(chunkStart, ChunkEnd)}
                        \cup {TransferKey(l) : l \in Received(chunkStart, ChunkEnd)}
  /\ chunkStart' = chunkStart + LogBlockChunk
  /\ UNCHANGED <<phase, chain, request, asOfBlock, minBlock, search, range, targetNo, metrics>>

(* The logs of a target are complete.                                      *)
NextTarget ==
  /\ phase = "collect" /\ targetNo \in TargetIds /\ chunkStart > toBlock
  /\ targetNo' = targetNo + 1 /\ chunkStart' = fromBlock
  /\ UNCHANGED <<phase, chain, request, asOfBlock, minBlock, search, range, matched, metrics>>

(* All logs are there: they are counted, and the days of their blocks.     *)
Count ==
  /\ phase = "collect" /\ targetNo = Len(Targets) + 1
  /\ phase' = "done"
  /\ metrics' = [tx_count    |-> Cardinality(matched),
                 days_active |-> Cardinality({Stamp(k.block) \div DaySeconds : k \in matched})]
  /\ UNCHANGED <<chain, request, asOfBlock, minBlock, search, range, collection>>

(* A call of the provider fails, or a block is not found: the metrics are  *)
(* not available.                                                          *)
CallFails ==
  /\ phase \in {"limits", "after", "before", "collect"}
  /\ phase' = "failed"
  /\ UNCHANGED <<chain, request, asOfBlock, minBlock, search, range, collection, metrics>>

(* The caller has its answer.                                              *)
Answered ==
  /\ phase \in {"done", "failed"}
  /\ phase' = "idle" /\ chain' = NoChain /\ request' = NoRequest /\ metrics' = NoMetrics
  /\ ClearCall

WindowStep == \/ Limits \/ StepAfter \/ EndAfter \/ StepBefore \/ EndBefore
              \/ CollectChunk \/ NextTarget \/ Count

WindowNext == Query \/ WindowStep \/ CallFails \/ Answered

WindowSpec == WindowInit /\ [][WindowNext]_WindowVars

WindowFairness == WF_WindowVars(WindowStep)

-----------------------------------------------------------------------------
WindowTypeOK ==
  /\ phase \in {"idle", "limits", "after", "before", "collect", "done", "failed"}
  /\ IsChain(chain)
  /\ request \in RequestType
  /\ asOfBlock \in 0 .. chain.top /\ minBlock \in 0 .. asOfBlock
  /\ left \in 0 .. asOfBlock + 1 /\ right \in -1 .. asOfBlock /\ resolved \in -1 .. asOfBlock + 1
  /\ fromBlock \in 0 .. asOfBlock + 1 /\ toBlock \in -1 .. asOfBlock
  /\ targetNo \in 1 .. Len(Targets) + 1 /\ chunkStart \in Nat
  /\ \A k \in matched : k.block \in 0 .. asOfBlock
  /\ metrics \in [tx_count : Nat, days_active : Nat]

(* The transfers of the wallet within the window, between two blocks.      *)
InWindow(low) ==
  {TransferKey(l) : l \in {k \in chain.logs : /\ k.block \in low .. asOfBlock
                                     /\ request.start <= Stamp(k.block)
                                     /\ Stamp(k.block) <= request.end}}

MetricsOf(keys) == [tx_count    |-> Cardinality(keys),
                    days_active |-> Cardinality({Stamp(k.block) \div DaySeconds : k \in keys})]

(* THE WINDOW IS EXACT.  An answer counts each transfer of the window once,*)
(* and no other: the searches, the chunks and the two queries neither miss *)
(* nor double one, whichever blocks share a timestamp and wherever the     *)
(* window ends.  Blocks below the lowest one looked at are left out.  Where*)
(* no blocks share a timestamp they are before the window anyway.          *)
WindowExact ==
  phase = "done" =>
    /\ metrics = MetricsOf(InWindow(minBlock))
    /\ StrictlyIncreasing(chain.stamp, chain.top) => InWindow(minBlock) = InWindow(0)

(* EVERY QUERY ENDS: the searches converge, the chunks run out.            *)
EveryQueryEnds == phase # "idle" ~> phase \in {"idle", "done", "failed"}
=============================================================================
