---------------------------- MODULE MetricsProofs ---------------------------
(***************************************************************************)
(* What the metrics promise: the window of RpcMetricsProvider is exact for *)
(* every chain, request and list of targets, for every range limit and     *)
(* chunk size, and the evaluation of usage for every input.                *)
(*                                                                         *)
(* The invariant of the window says what each search has found out so far  *)
(* about the blocks on either side of it, and which logs have been         *)
(* collected.                                                              *)
(*                                                                         *)
(* The loop over the transactions of an input is an induction over their   *)
(* number.  It is made in the form of sets, with Induction: the least      *)
(* number without the property would follow one that has it.               *)
(***************************************************************************)
EXTENDS RpcWindow, Usage, FiniteSetTheorems, TLAPS

Blocks == minBlock .. asOfBlock

(* The call is about a chain, up to a block of it.                         *)
Base == /\ phase \in {"idle", "limits", "after", "before", "collect", "done", "failed"}
        /\ IsChain(chain) /\ request \in RequestType
        /\ asOfBlock \in 0 .. chain.top /\ minBlock \in 0 .. asOfBlock

(* What the two searches are for.                                          *)
FromExact(f) == /\ f \in minBlock .. asOfBlock + 1
                /\ \A b \in Blocks : b < f <=> Stamp(b) < request.start

ToExact(t) == /\ t \in minBlock - 1 .. asOfBlock
              /\ \A b \in Blocks : b <= t <=> Stamp(b) <= BoundedEnd

StartsAbove == phase \in {"after", "before", "collect"} => request.start >= Stamp(minBlock)

Bounds == /\ left \in minBlock .. asOfBlock + 1
          /\ right \in minBlock - 1 .. asOfBlock
          /\ left <= right + 1

AfterInv == phase = "after" =>
  /\ Bounds /\ resolved = right + 1
  /\ \A b \in Blocks : /\ b < left => Stamp(b) < request.start
                       /\ b > right => Stamp(b) >= request.start

BeforeInv == phase = "before" =>
  /\ FromExact(fromBlock)
  /\ Bounds /\ resolved = left - 1
  /\ \A b \in Blocks : /\ b < left => Stamp(b) <= BoundedEnd
                       /\ b > right => Stamp(b) > BoundedEnd

Keys(logs) == {TransferKey(l) : l \in logs}

(* The logs that are fetched before a chunk of a target.                   *)
Fetched(tn, cs) == {l \in chain.logs : /\ l.block \in fromBlock .. toBlock
                                       /\ l.target < tn \/ (l.target = tn /\ l.block < cs)}

CollectInv == phase = "collect" =>
  /\ FromExact(fromBlock) /\ ToExact(toBlock) /\ fromBlock <= toBlock
  /\ targetNo \in 1 .. Len(Targets) + 1
  /\ chunkStart \in Int /\ chunkStart >= fromBlock
  /\ matched = Keys(Fetched(targetNo, chunkStart))

WindowIInv == /\ Base /\ StartsAbove
              /\ AfterInv /\ BeforeInv /\ CollectInv
              /\ WindowExact

-----------------------------------------------------------------------------
(* Timestamps are numbers that never fall.                                 *)
LEMMA Stamps ==
  ASSUME Base
  PROVE  /\ \A b \in 0 .. asOfBlock : Stamp(b) \in Nat
         /\ \A a, b \in 0 .. asOfBlock : a <= b => Stamp(a) <= Stamp(b)
         /\ Blocks \subseteq 0 .. asOfBlock
         /\ asOfBlock \in Nat /\ minBlock \in Nat /\ minBlock <= asOfBlock
         /\ request.start \in Nat /\ request.end \in Nat
<1>1. /\ chain.top \in Nat /\ chain.stamp \in [0 .. chain.top -> Nat]
      /\ \A a, b \in 0 .. chain.top : a <= b => chain.stamp[a] <= chain.stamp[b]
  BY DEF Base, IsChain, Nondecreasing
<1>2. asOfBlock \in Nat /\ asOfBlock <= chain.top /\ minBlock \in Nat /\ minBlock <= asOfBlock
  BY <1>1 DEF Base
<1>3. 0 .. asOfBlock \subseteq 0 .. chain.top
  BY <1>1, <1>2
<1>4. request.start \in Nat /\ request.end \in Nat
  BY DEF Base, RequestType
<1> QED BY <1>1, <1>2, <1>3, <1>4 DEF Stamp, Blocks

(* The end is the earlier of the request's and the newest block's, which   *)
(* makes no difference to the blocks.                                      *)
LEMMA EndBounded ==
  ASSUME Base
  PROVE  /\ BoundedEnd \in Nat
         /\ \A b \in Blocks : Stamp(b) <= BoundedEnd <=> Stamp(b) <= request.end
<1>1. asOfBlock \in 0 .. asOfBlock
  BY Stamps
<1> QED BY <1>1, Stamps DEF BoundedEnd, Lesser, Blocks

(* The middle of a range that is not empty is in it.                       *)
LEMMA MiddleBetween ==
  ASSUME left \in Int, right \in Int, left <= right
  PROVE  Middle \in left .. right
BY DEF Middle

(* The logs of the range of blocks are those of the window.                *)
LEMMA RangeIsWindow ==
  ASSUME Base, FromExact(fromBlock), NEW t, ToExact(t)
  PROVE  Keys({l \in chain.logs : l.block \in fromBlock .. t}) = InWindow(minBlock)
<1> DEFINE R == {l \in chain.logs : l.block \in fromBlock .. t}
           W == {k \in chain.logs : /\ k.block \in minBlock .. asOfBlock
                                    /\ request.start <= Stamp(k.block)
                                    /\ Stamp(k.block) <= request.end}
<1>1. ASSUME NEW l \in chain.logs PROVE l \in R <=> l \in W
  <2>1. l.block \in Nat
    BY DEF Base, IsChain, LogRecords
  <2>2. fromBlock \in Int /\ t \in Int /\ fromBlock >= minBlock /\ t <= asOfBlock
    BY Stamps DEF FromExact, ToExact
  <2>3. CASE l.block \in Blocks
    <3>1. l.block >= fromBlock <=> request.start <= Stamp(l.block)
      BY <2>1, <2>2, <2>3, Stamps DEF FromExact
    <3>2. l.block <= t <=> Stamp(l.block) <= request.end
      BY <2>3, EndBounded DEF ToExact
    <3> QED BY <2>1, <2>2, <2>3, <3>1, <3>2 DEF Blocks
  <2>4. CASE l.block \notin Blocks
    BY <2>1, <2>2, <2>4, Stamps DEF Blocks
  <2> QED BY <2>3, <2>4
<1>2. R = W
  BY <1>1
<1> HIDE DEF R
<1> QED BY <1>2 DEF Keys, InWindow, R

(* Where no blocks share a timestamp the blocks below the lowest one are   *)
(* before the window.                                                      *)
LEMMA NothingBelow ==
  ASSUME Base, request.start >= Stamp(minBlock), StrictlyIncreasing(chain.stamp, chain.top)
  PROVE  InWindow(minBlock) = InWindow(0)
<1> DEFINE W(low) == {k \in chain.logs : /\ k.block \in low .. asOfBlock
                                         /\ request.start <= Stamp(k.block)
                                         /\ Stamp(k.block) <= request.end}
<1>1. ASSUME NEW k \in chain.logs, k.block \in 0 .. asOfBlock, request.start <= Stamp(k.block)
      PROVE  k.block >= minBlock
  <2> SUFFICES ASSUME k.block < minBlock PROVE FALSE
    BY <1>1, Stamps
  <2>1. k.block \in 0 .. chain.top /\ minBlock \in 0 .. chain.top
    BY <1>1 DEF Base, IsChain
  <2>2. Stamp(k.block) < Stamp(minBlock)
    BY <2>1 DEF StrictlyIncreasing, Stamp
  <2>3. Stamp(k.block) \in Nat /\ Stamp(minBlock) \in Nat
    BY <1>1, Stamps
  <2> QED BY <1>1, <2>2, <2>3, Stamps
<1>2. W(minBlock) = W(0)
  BY <1>1, Stamps
<1> HIDE DEF W
<1> QED BY <1>2 DEF InWindow, W
-----------------------------------------------------------------------------
(* A call begins, fails or is answered: there is nothing to say yet.       *)
LEMMA QueryKeeps ==
  ASSUME WindowIInv, Query
  PROVE  WindowIInv'
<1> PICK c \in Chains, r \in WindowRequests :
      /\ chain' = c /\ request' = r
      /\ phase' = IF r.end < r.start THEN "failed" ELSE "limits"
      /\ asOfBlock' = IF r.asOf = NoBlock THEN c.top ELSE Lesser(c.top, r.asOf)
  BY DEF Query
<1>1. IsChain(c) /\ r \in RequestType /\ c.top \in Nat
  BY WindowAssumption DEF IsChain
<1>2. r.asOf \in Nat \/ r.asOf = NoBlock
  BY <1>1 DEF RequestType
<1>3. asOfBlock' \in 0 .. c.top
  BY <1>1, <1>2 DEF Lesser
<1>4. minBlock' \in 0 .. asOfBlock'
  BY <1>1, <1>3, WindowAssumption DEF Query
<1>5. phase' \in {"failed", "limits"}
  OBVIOUS
<1>6. Base'
  BY <1>1, <1>3, <1>4, <1>5 DEF Base, IsChain
<1> QED BY <1>5, <1>6 DEF WindowIInv, StartsAbove, AfterInv, BeforeInv, CollectInv, WindowExact

LEMMA AnsweredKeeps ==
  ASSUME WindowIInv, Answered
  PROVE  WindowIInv'
<1>1. IsChain(NoChain) /\ NoRequest \in RequestType
  BY FS_EmptySet DEF IsChain, NoChain, Nondecreasing, LogRecords, NoRequest, RequestType, NoBlock
<1>2. Base'
  BY <1>1 DEF Answered, ClearCall, Base, NoChain
<1> QED BY <1>2
        DEF WindowIInv, StartsAbove, AfterInv, BeforeInv, CollectInv, WindowExact, Answered

LEMMA CallFailsKeeps ==
  ASSUME WindowIInv, CallFails
  PROVE  WindowIInv'
BY DEF CallFails, WindowIInv, Base, IsChain, StartsAbove, AfterInv, BeforeInv, CollectInv,
       WindowExact

(* The first search begins with the whole range of blocks.                 *)
LEMMA LimitsKeeps ==
  ASSUME WindowIInv, Limits
  PROVE  WindowIInv'
<1>1. Base /\ Base'
  BY DEF WindowIInv, Limits, Base, IsChain
<1>2. CASE request.start < Stamp(minBlock)
  BY <1>1, <1>2 DEF Limits, WindowIInv, StartsAbove, AfterInv, BeforeInv, CollectInv, WindowExact
<1>3. CASE ~ (request.start < Stamp(minBlock))
  <2>1. /\ phase' = "after" /\ left' = minBlock /\ right' = asOfBlock
        /\ resolved' = asOfBlock + 1
        /\ UNCHANGED <<chain, request, asOfBlock, minBlock>>
    BY <1>3 DEF Limits
  <2>2. request.start >= Stamp(minBlock)
    BY <1>1, <1>3, Stamps
  <2>3. StartsAbove'
    BY <2>1, <2>2 DEF StartsAbove, Stamp
  <2>4. AfterInv'
    BY <1>1, <2>1, Stamps DEF AfterInv, Bounds, Blocks
  <2> QED BY <1>1, <2>1, <2>3, <2>4 DEF WindowIInv, BeforeInv, CollectInv, WindowExact
<1> QED BY <1>2, <1>3

(* Each round of the first search moves one of its ends past the middle.   *)
LEMMA StepAfterKeeps ==
  ASSUME WindowIInv, StepAfter
  PROVE  WindowIInv'
<1>1. Base /\ Base'
  BY DEF WindowIInv, StepAfter, Base, IsChain
<1>2. /\ phase = "after" /\ left <= right /\ UNCHANGED <<phase, chain, request, asOfBlock, minBlock>>
  BY DEF StepAfter
<1>3. /\ Bounds /\ left \in Int /\ right \in Int
      /\ \A b \in Blocks : /\ b < left => Stamp(b) < request.start
                           /\ b > right => Stamp(b) >= request.start
  BY <1>1, <1>2, Stamps DEF WindowIInv, AfterInv, Bounds
<1> DEFINE m == Middle
<1>4. m \in left .. right /\ m \in Blocks
  BY <1>1, <1>2, <1>3, MiddleBetween, Stamps DEF Bounds, Blocks
<1>5. \A b \in Blocks : /\ b < m => Stamp(b) <= Stamp(m)
                        /\ b > m => Stamp(b) >= Stamp(m)
                        /\ Stamp(b) \in Nat
  BY <1>1, <1>4, Stamps DEF Blocks
<1>6. CASE Stamp(m) >= request.start
  <2>1. left' = left /\ right' = m - 1 /\ resolved' = m
    BY <1>6 DEF StepAfter
  <2> HIDE DEF m
  <2>2. \A b \in Blocks : b > m - 1 => Stamp(b) >= request.start
    BY <1>1, <1>4, <1>5, <1>6, Stamps DEF Blocks
  <2>3. Bounds' /\ resolved' = right' + 1
    BY <1>1, <1>2, <1>3, <1>4, <2>1, Stamps DEF Bounds, Blocks
  <2> QED BY <1>1, <1>2, <1>3, <2>1, <2>2, <2>3
          DEF WindowIInv, StartsAbove, AfterInv, BeforeInv, CollectInv, WindowExact, Blocks, Stamp
<1>7. CASE ~ (Stamp(m) >= request.start)
  <2>1. left' = m + 1 /\ right' = right /\ resolved' = resolved
    BY <1>7 DEF StepAfter
  <2> HIDE DEF m
  <2>2. \A b \in Blocks : b < m + 1 => Stamp(b) < request.start
    BY <1>1, <1>4, <1>5, <1>7, Stamps DEF Blocks
  <2>3. Bounds' /\ resolved' = right' + 1
    BY <1>1, <1>2, <1>3, <1>4, <2>1, Stamps DEF Bounds, Blocks, WindowIInv, AfterInv
  <2> QED BY <1>1, <1>2, <1>3, <2>1, <2>2, <2>3
          DEF WindowIInv, StartsAbove, AfterInv, BeforeInv, CollectInv, WindowExact, Blocks, Stamp
<1> QED BY <1>6, <1>7

(* It ends with the first block of the window; the second search begins.   *)
LEMMA EndAfterKeeps ==
  ASSUME WindowIInv, EndAfter
  PROVE  WindowIInv'
<1>1. Base /\ Base'
  BY DEF WindowIInv, EndAfter, Base, IsChain
<1>2. /\ phase = "after" /\ left > right /\ phase' = "before"
      /\ fromBlock' = resolved /\ left' = minBlock /\ right' = asOfBlock
      /\ resolved' = minBlock - 1
      /\ UNCHANGED <<chain, request, asOfBlock, minBlock>>
  BY DEF EndAfter
<1>3. /\ left \in Int /\ right \in Int /\ left = right + 1 /\ resolved = left
      /\ left \in minBlock .. asOfBlock + 1
      /\ \A b \in Blocks : /\ b < left => Stamp(b) < request.start
                           /\ b > right => Stamp(b) >= request.start
  BY <1>1, <1>2, Stamps DEF WindowIInv, AfterInv, Bounds
<1>4. FromExact(left)
  <2>1. ASSUME NEW b \in Blocks PROVE b < left <=> Stamp(b) < request.start
    <3>1. b \in Int /\ Stamp(b) \in Nat /\ request.start \in Nat
      BY <1>1, <2>1, Stamps
    <3>2. /\ b < left => Stamp(b) < request.start
          /\ b > right => Stamp(b) >= request.start
      BY <1>3, <2>1
    <3>3. left \in Int /\ right \in Int /\ left = right + 1
      BY <1>3
    <3> QED BY <3>1, <3>2, <3>3
  <2> QED BY <1>3, <2>1 DEF FromExact
<1>5. FromExact(fromBlock)'
  BY <1>2, <1>3, <1>4 DEF FromExact, Blocks, Stamp
<1>6. BeforeInv'
  BY <1>1, <1>2, <1>5, Stamps DEF BeforeInv, Bounds, Blocks
<1> QED BY <1>1, <1>2, <1>6
        DEF WindowIInv, StartsAbove, AfterInv, CollectInv, WindowExact, Stamp

LEMMA StepBeforeKeeps ==
  ASSUME WindowIInv, StepBefore
  PROVE  WindowIInv'
<1>1. Base /\ Base'
  BY DEF WindowIInv, StepBefore, Base, IsChain
<1>2. /\ phase = "before" /\ left <= right
      /\ UNCHANGED <<phase, chain, request, asOfBlock, minBlock, fromBlock>>
  BY DEF StepBefore, range
<1>3. /\ Bounds /\ left \in Int /\ right \in Int /\ resolved = left - 1 /\ FromExact(fromBlock)
      /\ \A b \in Blocks : /\ b < left => Stamp(b) <= BoundedEnd
                           /\ b > right => Stamp(b) > BoundedEnd
  BY <1>1, <1>2, Stamps DEF WindowIInv, BeforeInv, Bounds
<1> DEFINE m == Middle
<1>4. m \in left .. right /\ m \in Blocks
  BY <1>1, <1>2, <1>3, MiddleBetween, Stamps DEF Bounds, Blocks
<1>5. \A b \in Blocks : /\ b < m => Stamp(b) <= Stamp(m)
                        /\ b > m => Stamp(b) >= Stamp(m)
                        /\ Stamp(b) \in Nat
  BY <1>1, <1>4, Stamps DEF Blocks
<1>6. BoundedEnd' = BoundedEnd /\ BoundedEnd \in Nat /\ FromExact(fromBlock)'
  <2>1. BoundedEnd' = BoundedEnd /\ FromExact(fromBlock)'
    BY <1>2, <1>3 DEF BoundedEnd, Stamp, FromExact, Blocks
  <2> QED BY <1>1, <2>1, EndBounded
<1>7. CASE Stamp(m) <= BoundedEnd
  <2>1. right' = right /\ left' = m + 1 /\ resolved' = m
    BY <1>7 DEF StepBefore
  <2> HIDE DEF m
  <2>2. \A b \in Blocks : b < m + 1 => Stamp(b) <= BoundedEnd
    BY <1>1, <1>4, <1>5, <1>6, <1>7, Stamps DEF Blocks
  <2>3. Bounds' /\ resolved' = left' - 1
    BY <1>1, <1>2, <1>3, <1>4, <2>1, Stamps DEF Bounds, Blocks
  <2> QED BY <1>1, <1>2, <1>3, <1>6, <2>1, <2>2, <2>3
          DEF WindowIInv, StartsAbove, AfterInv, BeforeInv, CollectInv, WindowExact, Blocks, Stamp
<1>8. CASE ~ (Stamp(m) <= BoundedEnd)
  <2>1. right' = m - 1 /\ left' = left /\ resolved' = resolved
    BY <1>8 DEF StepBefore
  <2> HIDE DEF m
  <2>2. \A b \in Blocks : b > m - 1 => Stamp(b) > BoundedEnd
    BY <1>1, <1>4, <1>5, <1>6, <1>8, Stamps DEF Blocks
  <2>3. Bounds' /\ resolved' = left' - 1
    BY <1>1, <1>2, <1>3, <1>4, <2>1, Stamps DEF Bounds, Blocks
  <2> QED BY <1>1, <1>2, <1>3, <1>6, <2>1, <2>2, <2>3
          DEF WindowIInv, StartsAbove, AfterInv, BeforeInv, CollectInv, WindowExact, Blocks, Stamp
<1> QED BY <1>7, <1>8
(* It ends with the last block of the window.  A range without blocks is   *)
(* answered with zeros, and its window has no logs either.                 *)
LEMMA EndBeforeKeeps ==
  ASSUME WindowIInv, EndBefore
  PROVE  WindowIInv'
<1>1. Base /\ Base'
  BY DEF WindowIInv, EndBefore, Base, IsChain
<1>2. /\ phase = "before" /\ left > right /\ toBlock' = resolved
      /\ UNCHANGED <<chain, request, asOfBlock, minBlock, fromBlock>>
  BY DEF EndBefore
<1>3. /\ left \in Int /\ right \in Int /\ left = right + 1 /\ resolved = left - 1
      /\ left \in minBlock .. asOfBlock + 1 /\ FromExact(fromBlock)
      /\ \A b \in Blocks : /\ b < left => Stamp(b) <= BoundedEnd
                           /\ b > right => Stamp(b) > BoundedEnd
  BY <1>1, <1>2, Stamps DEF WindowIInv, BeforeInv, Bounds
<1>4. ToExact(resolved)
  <2>1. ASSUME NEW b \in Blocks PROVE b <= resolved <=> Stamp(b) <= BoundedEnd
    <3>1. b \in Int /\ Stamp(b) \in Nat /\ BoundedEnd \in Nat
      BY <1>1, <2>1, Stamps, EndBounded
    <3>2. /\ b < left => Stamp(b) <= BoundedEnd
          /\ b > right => Stamp(b) > BoundedEnd
      BY <1>3, <2>1
    <3>3. left \in Int /\ right \in Int /\ left = right + 1 /\ resolved = left - 1
      BY <1>3
    <3> QED BY <3>1, <3>2, <3>3
  <2>2. resolved \in minBlock - 1 .. asOfBlock
    BY <1>1, <1>3, Stamps
  <2> QED BY <2>1, <2>2 DEF ToExact
<1>5. request.start >= Stamp(minBlock)
  BY <1>2 DEF WindowIInv, StartsAbove
<1>6. FromExact(fromBlock)' /\ ToExact(toBlock)'
  BY <1>2, <1>3, <1>4 DEF FromExact, ToExact, Blocks, Stamp, BoundedEnd
<1>7. fromBlock \in Int /\ resolved \in Int
  BY <1>1, <1>3, Stamps DEF FromExact
<1>8. fromBlock' = fromBlock /\ toBlock' = resolved /\ InWindow(minBlock)' = InWindow(minBlock)
  BY <1>2 DEF InWindow, Stamp
<1>9. CASE fromBlock > resolved
  <2>1. phase' = "done" /\ metrics' = NoMetrics
    BY <1>9 DEF EndBefore
  <2>2. fromBlock .. resolved = {}
    BY <1>7, <1>9
  <2>3. Keys({l \in chain.logs : l.block \in fromBlock .. resolved}) = {}
    BY <2>2 DEF Keys
  <2>4. InWindow(minBlock) = {}
    BY <1>1, <1>3, <1>4, <2>3, RangeIsWindow
  <2>5. MetricsOf({}) = NoMetrics
    BY FS_EmptySet DEF MetricsOf, NoMetrics
  <2>6. MetricsOf({})' = NoMetrics
    BY FS_EmptySet DEF MetricsOf, NoMetrics
  <2>7. WindowExact'
    <3>1. metrics' = MetricsOf(InWindow(minBlock))'
      BY <1>8, <2>1, <2>4, <2>6 DEF MetricsOf
    <3>2. StrictlyIncreasing(chain.stamp, chain.top) => InWindow(minBlock) = InWindow(0)
      BY <1>1, <1>5, NothingBelow
    <3>3. InWindow(0)' = InWindow(0)
      BY <1>2 DEF InWindow, Stamp
    <3> QED BY <1>2, <1>8, <3>1, <3>2, <3>3 DEF WindowExact
  <2> QED BY <1>1, <2>1, <2>7 DEF WindowIInv, StartsAbove, AfterInv, BeforeInv, CollectInv
<1>10. CASE ~ (fromBlock > resolved)
  <2>1. /\ phase' = "collect" /\ targetNo' = 1 /\ chunkStart' = fromBlock /\ matched' = {}
    BY <1>10 DEF EndBefore
  <2>2. Fetched(1, fromBlock)' = {}
    <3>1. \A l \in chain.logs : l.target \in TargetIds /\ l.block \in Nat
      BY <1>1 DEF Base, IsChain, LogRecords
    <3> QED BY <1>2, <1>7, <3>1 DEF Fetched, TargetIds
  <2>3. matched' = Keys(Fetched(targetNo, chunkStart))'
    BY <1>2, <2>1, <2>2 DEF Keys, Fetched
  <2>4. 1 \in 1 .. Len(Targets) + 1
    BY WindowAssumption
  <2> QED BY <1>1, <1>2, <1>5, <1>6, <1>7, <1>8, <1>10, <2>1, <2>3, <2>4
          DEF WindowIInv, StartsAbove, AfterInv, BeforeInv, CollectInv, WindowExact, Stamp
<1> QED BY <1>9, <1>10
(* The logs have a target and a block, and are sent or received.           *)
LEMMA LogFacts ==
  ASSUME Base, NEW l \in chain.logs
  PROVE  /\ l.target \in TargetIds /\ l.block \in Nat
         /\ l.sent \/ l.received
BY DEF Base, IsChain, LogRecords

(* A chunk adds the logs of its blocks, and no others.                     *)
LEMMA CollectChunkKeeps ==
  ASSUME WindowIInv, CollectChunk
  PROVE  WindowIInv'
<1>1. Base /\ Base'
  BY DEF WindowIInv, CollectChunk, Base, IsChain
<1>2. /\ phase = "collect" /\ targetNo \in TargetIds /\ chunkStart <= toBlock
      /\ chunkStart' = chunkStart + LogBlockChunk
      /\ UNCHANGED <<phase, chain, request, asOfBlock, minBlock, fromBlock, toBlock, targetNo>>
  BY DEF CollectChunk, range
<1>3. /\ FromExact(fromBlock) /\ ToExact(toBlock) /\ fromBlock <= toBlock
      /\ targetNo \in 1 .. Len(Targets) + 1
      /\ chunkStart \in Int /\ chunkStart >= fromBlock
      /\ matched = Keys(Fetched(targetNo, chunkStart))
      /\ fromBlock \in Int /\ toBlock \in Int
  BY <1>1, <1>2, Stamps DEF WindowIInv, CollectInv, FromExact, ToExact
<1> DEFINE cs   == chunkStart + LogBlockChunk
           S    == Sent(chunkStart, ChunkEnd)
           R    == Received(chunkStart, ChunkEnd)
           old  == Fetched(targetNo, chunkStart)
           new  == Fetched(targetNo, cs)
<1>4. matched' = Keys(old) \cup Keys(S) \cup Keys(R)
  BY <1>3 DEF CollectChunk, Keys
<1>5. new = old \cup S \cup R
  <2>1. ASSUME NEW l \in chain.logs PROVE l \in new <=> l \in old \cup S \cup R
    <3>1. /\ l.target \in Int /\ l.block \in Int /\ targetNo \in Int
          /\ l.sent \/ l.received
      BY <1>1, <1>2, LogFacts DEF TargetIds
    <3>2. LogBlockChunk \in Int /\ LogBlockChunk > 0
      BY WindowAssumption
    <3>3. CASE l.target # targetNo \/ l.block < chunkStart \/ l.block > toBlock
      BY <1>2, <1>3, <3>1, <3>2, <3>3 DEF Fetched, Sent, Received, ChunkEnd, Lesser
    <3>4. CASE l.target = targetNo /\ l.block >= chunkStart /\ l.block <= toBlock
      BY <1>2, <1>3, <3>1, <3>2, <3>4 DEF Fetched, Sent, Received, ChunkEnd, Lesser
    <3> QED BY <1>3, <3>1, <3>3, <3>4
  <2>2. new \subseteq chain.logs /\ old \cup S \cup R \subseteq chain.logs
    BY DEF Fetched, Sent, Received
  <2> HIDE DEF new, old, S, R
  <2> QED BY <2>1, <2>2
<1> HIDE DEF new, old, S, R
<1>6. matched' = Keys(new)
  BY <1>4, <1>5 DEF Keys
<1>7. matched' = Keys(Fetched(targetNo, chunkStart))'
  BY <1>2, <1>6 DEF Keys, Fetched, TransferKey, new
<1>8. chunkStart' \in Int /\ chunkStart' >= fromBlock
  BY <1>2, <1>3, WindowAssumption
<1>9. FromExact(fromBlock)' /\ ToExact(toBlock)'
  BY <1>2, <1>3 DEF FromExact, ToExact, Blocks, Stamp, BoundedEnd
<1> QED BY <1>1, <1>2, <1>3, <1>7, <1>8, <1>9
        DEF WindowIInv, StartsAbove, AfterInv, BeforeInv, CollectInv, WindowExact, Stamp

(* All chunks of a target are all of its logs in the range.                *)
LEMMA NextTargetKeeps ==
  ASSUME WindowIInv, NextTarget
  PROVE  WindowIInv'
<1>1. Base /\ Base'
  BY DEF WindowIInv, NextTarget, Base, IsChain
<1>2. /\ phase = "collect" /\ targetNo \in TargetIds /\ chunkStart > toBlock
      /\ targetNo' = targetNo + 1 /\ chunkStart' = fromBlock
      /\ UNCHANGED <<phase, chain, request, asOfBlock, minBlock, fromBlock, toBlock, matched>>
  BY DEF NextTarget, range
<1>3. /\ FromExact(fromBlock) /\ ToExact(toBlock) /\ fromBlock <= toBlock
      /\ chunkStart \in Int /\ chunkStart >= fromBlock
      /\ matched = Keys(Fetched(targetNo, chunkStart))
      /\ fromBlock \in Int /\ toBlock \in Int
  BY <1>1, <1>2, Stamps DEF WindowIInv, CollectInv, FromExact, ToExact
<1>4. Fetched(targetNo, chunkStart) = Fetched(targetNo + 1, fromBlock)
  <2>1. ASSUME NEW l \in chain.logs
        PROVE  l \in Fetched(targetNo, chunkStart) <=> l \in Fetched(targetNo + 1, fromBlock)
    <3>1. l.target \in Int /\ l.block \in Int /\ targetNo \in Int
      BY <1>1, <1>2, LogFacts DEF TargetIds
    <3> QED BY <1>2, <1>3, <3>1 DEF Fetched
  <2> QED BY <2>1 DEF Fetched
<1>5. Fetched(targetNo, chunkStart)' = Fetched(targetNo + 1, fromBlock)
  BY <1>2 DEF Fetched
<1>6. matched' = Keys(Fetched(targetNo, chunkStart))'
  BY <1>2, <1>3, <1>4, <1>5 DEF Keys, TransferKey
<1>7. FromExact(fromBlock)' /\ ToExact(toBlock)'
  BY <1>2, <1>3 DEF FromExact, ToExact, Blocks, Stamp, BoundedEnd
<1>8. targetNo' \in 1 .. Len(Targets) + 1
  BY <1>2, WindowAssumption DEF TargetIds
<1> QED BY <1>1, <1>2, <1>3, <1>6, <1>7, <1>8
        DEF WindowIInv, StartsAbove, AfterInv, BeforeInv, CollectInv, WindowExact, Stamp

(* When all targets are through, the keys are those of the window.         *)
LEMMA CountKeeps ==
  ASSUME WindowIInv, Count
  PROVE  WindowIInv'
<1>1. Base /\ Base'
  BY DEF WindowIInv, Count, Base, IsChain
<1>2. /\ phase = "collect" /\ targetNo = Len(Targets) + 1
      /\ phase' = "done" /\ metrics' = MetricsOf(matched)
      /\ UNCHANGED <<chain, request, asOfBlock, minBlock>>
  BY DEF Count, MetricsOf
<1>3. /\ FromExact(fromBlock) /\ ToExact(toBlock)
      /\ matched = Keys(Fetched(targetNo, chunkStart))
      /\ request.start >= Stamp(minBlock)
  BY <1>2 DEF WindowIInv, CollectInv, StartsAbove
<1>4. Fetched(targetNo, chunkStart) = {l \in chain.logs : l.block \in fromBlock .. toBlock}
  <2>1. \A l \in chain.logs : l.target < targetNo
    BY <1>1, <1>2, LogFacts, WindowAssumption DEF TargetIds
  <2> QED BY <2>1 DEF Fetched
<1>5. matched = InWindow(minBlock)
  BY <1>1, <1>3, <1>4, RangeIsWindow
<1>6. StrictlyIncreasing(chain.stamp, chain.top) => InWindow(minBlock) = InWindow(0)
  BY <1>1, <1>3, NothingBelow
<1>7. WindowExact'
  <2>1. InWindow(minBlock)' = InWindow(minBlock) /\ InWindow(0)' = InWindow(0)
    BY <1>2 DEF InWindow, Stamp
  <2>2. metrics' = MetricsOf(InWindow(minBlock))'
    BY <1>2, <1>5, <2>1 DEF MetricsOf, Stamp
  <2> QED BY <1>2, <1>6, <2>1, <2>2 DEF WindowExact
<1> QED BY <1>1, <1>2, <1>7 DEF WindowIInv, StartsAbove, AfterInv, BeforeInv, CollectInv

-----------------------------------------------------------------------------
LEMMA WindowStarts == WindowInit => WindowIInv
<1> SUFFICES ASSUME WindowInit PROVE WindowIInv
  OBVIOUS
<1>1. IsChain(NoChain) /\ NoRequest \in RequestType
  BY FS_EmptySet DEF IsChain, NoChain, Nondecreasing, LogRecords, NoRequest, RequestType, NoBlock
<1> QED BY <1>1
        DEF WindowInit, WindowIInv, Base, NoChain, StartsAbove, AfterInv, BeforeInv, CollectInv,
            WindowExact

LEMMA WindowInductive == WindowSpec => []WindowIInv
<1>1. WindowIInv /\ [WindowNext]_WindowVars => WindowIInv'
  <2> SUFFICES ASSUME WindowIInv, [WindowNext]_WindowVars PROVE WindowIInv'
    OBVIOUS
  <2>1. CASE Query        BY <2>1, QueryKeeps
  <2>2. CASE Limits       BY <2>2, LimitsKeeps
  <2>3. CASE StepAfter    BY <2>3, StepAfterKeeps
  <2>4. CASE EndAfter     BY <2>4, EndAfterKeeps
  <2>5. CASE StepBefore   BY <2>5, StepBeforeKeeps
  <2>6. CASE EndBefore    BY <2>6, EndBeforeKeeps
  <2>7. CASE CollectChunk BY <2>7, CollectChunkKeeps
  <2>8. CASE NextTarget   BY <2>8, NextTargetKeeps
  <2>9. CASE Count        BY <2>9, CountKeeps
  <2>10. CASE CallFails   BY <2>10, CallFailsKeeps
  <2>11. CASE Answered    BY <2>11, AnsweredKeeps
  <2>12. CASE UNCHANGED WindowVars
    BY <2>12
       DEF WindowVars, search, range, collection, WindowIInv, Base, IsChain, StartsAbove,
           AfterInv, BeforeInv, CollectInv, WindowExact, Bounds, Blocks, Stamp, BoundedEnd,
           FromExact, ToExact, Keys, Fetched, TransferKey, InWindow, MetricsOf
  <2> QED BY <2>1, <2>2, <2>3, <2>4, <2>5, <2>6, <2>7, <2>8, <2>9, <2>10, <2>11, <2>12
          DEF WindowNext, WindowStep
<1> QED BY WindowStarts, <1>1, PTL DEF WindowSpec

(* THE WINDOW IS EXACT: for every chain, whichever blocks share a          *)
(* timestamp, and every request, list of targets, MAX_BLOCK_RANGE and      *)
(* LOG_BLOCK_CHUNK, getWalletMetrics counts each transfer of the window    *)
(* once and no other.                                                      *)
THEOREM RpcWindowExact == WindowSpec => []WindowExact
<1>1. WindowIInv => WindowExact
  BY DEF WindowIInv
<1> QED BY <1>1, WindowInductive, PTL

(* What the types say beyond Base.  An idle call has left nothing behind.  *)
SearchTyped == /\ left \in 0 .. asOfBlock + 1 /\ right \in -1 .. asOfBlock
               /\ resolved \in -1 .. asOfBlock + 1

RangeTyped == fromBlock \in 0 .. asOfBlock + 1 /\ toBlock \in -1 .. asOfBlock

CollectionTyped == /\ targetNo \in 1 .. Len(Targets) + 1 /\ chunkStart \in Nat
                   /\ \A k \in matched : k.block \in 0 .. asOfBlock

Cleared == /\ left = 0 /\ right = 0 /\ resolved = 0
           /\ fromBlock = 0 /\ toBlock = 0 /\ matched = {}

WindowTypes == /\ SearchTyped /\ RangeTyped /\ CollectionTyped
               /\ metrics \in [tx_count : Nat, days_active : Nat]
               /\ phase = "idle" => Cleared

LEMMA NumbersOfCall ==
  ASSUME Base
  PROVE  asOfBlock \in Nat /\ minBlock \in Nat /\ minBlock <= asOfBlock
BY Stamps

(* What is counted of finitely many logs are natural numbers.              *)
LEMMA MetricsTyped ==
  ASSUME Base, NEW low
  PROVE  MetricsOf(InWindow(low)) \in [tx_count : Nat, days_active : Nat]
<1> DEFINE L == {k \in chain.logs : /\ k.block \in low .. asOfBlock
                                    /\ request.start <= Stamp(k.block)
                                    /\ Stamp(k.block) <= request.end}
           keys == {TransferKey(l) : l \in L}
           days == {Stamp(k.block) \div DaySeconds : k \in keys}
<1>1. IsFiniteSet(L)
  <2>1. IsFiniteSet(chain.logs) /\ L \subseteq chain.logs
    BY DEF Base, IsChain
  <2> QED BY <2>1, FS_Subset
<1>2. /\ [l \in L |-> TransferKey(l)] \in Surjection(L, keys)
      /\ [k \in keys |-> Stamp(k.block) \div DaySeconds] \in Surjection(keys, days)
  BY DEF Surjection
<1>3. IsFiniteSet(keys) /\ IsFiniteSet(days)
  <2> HIDE DEF L, keys, days
  <2> QED BY <1>1, <1>2, FS_Surjection
<1>4. Cardinality(keys) \in Nat /\ Cardinality(days) \in Nat
  BY <1>3, FS_CardinalityType
<1>5. MetricsOf(InWindow(low)) = [tx_count |-> Cardinality(keys), days_active |-> Cardinality(days)]
  BY DEF MetricsOf, InWindow
<1> QED BY <1>4, <1>5

LEMMA QueryTypes ==
  ASSUME WindowIInv', WindowTypes, Query
  PROVE  WindowTypes'
<1>1. /\ Cleared /\ Cleared' /\ phase' # "idle"
      /\ targetNo' = targetNo /\ chunkStart' = chunkStart /\ metrics' = metrics
  BY DEF Query, WindowTypes, Cleared, search, range, collection
<1>2. asOfBlock' \in Nat
  <2>1. Base'
    BY DEF WindowIInv
  <2> QED BY <2>1 DEF Base, IsChain
<1>3. SearchTyped' /\ RangeTyped'
  <2>1. \A a \in Nat : 0 \in 0 .. a + 1 /\ 0 \in -1 .. a + 1 /\ 0 \in -1 .. a
    OBVIOUS
  <2> QED BY <1>1, <1>2, <2>1 DEF SearchTyped, RangeTyped, Cleared
<1>4. CollectionTyped'
  BY <1>1 DEF CollectionTyped, WindowTypes, Cleared
<1> QED BY <1>1, <1>3, <1>4 DEF WindowTypes

(* A search stays between the blocks it is about.                          *)
LEMMA SearchKept ==
  ASSUME WindowIInv, phase \in {"after", "before"}
  PROVE  SearchTyped
<1>1. Base /\ Bounds /\ (resolved = right + 1 \/ resolved = left - 1)
  BY DEF WindowIInv, AfterInv, BeforeInv
<1>2. asOfBlock \in Nat /\ minBlock \in Nat /\ minBlock <= asOfBlock
  BY <1>1, NumbersOfCall
<1>3. left \in 0 .. asOfBlock + 1 /\ right \in -1 .. asOfBlock
  BY <1>1, <1>2 DEF Bounds
<1>4. resolved \in -1 .. asOfBlock + 1
  BY <1>1, <1>2, <1>3
<1> QED BY <1>3, <1>4 DEF SearchTyped

LEMMA SearchTypes ==
  ASSUME WindowIInv, WindowIInv', WindowTypes,
         Limits \/ StepAfter \/ StepBefore \/ EndAfter
  PROVE  WindowTypes'
<1>1. /\ UNCHANGED <<asOfBlock, minBlock, toBlock, targetNo, chunkStart, matched, metrics>>
      /\ phase' # "idle"
  BY DEF Limits, StepAfter, StepBefore, EndAfter, range, collection
<1>2. SearchTyped'
  <2>1. CASE phase' \in {"after", "before"}
    <3>1. (WindowIInv /\ phase \in {"after", "before"} => SearchTyped)'
      BY SearchKept, PTL
    <3> QED BY <2>1, <3>1
  <2>2. CASE phase' \notin {"after", "before"}
    BY <2>2 DEF Limits, StepAfter, StepBefore, EndAfter, search, SearchTyped, WindowTypes
  <2> QED BY <2>1, <2>2
<1>3. fromBlock' \in 0 .. asOfBlock' + 1
  <2>1. CASE EndAfter
    <3>1. Base /\ fromBlock' \in minBlock' .. asOfBlock' + 1
      BY <2>1 DEF EndAfter, WindowIInv, BeforeInv, FromExact
    <3>2. minBlock' \in Nat /\ asOfBlock' \in Nat
      BY <1>1, <3>1, NumbersOfCall
    <3>3. \A m, a \in Nat : m .. a + 1 \subseteq 0 .. a + 1
      OBVIOUS
    <3> QED BY <3>1, <3>2, <3>3
  <2>2. CASE ~ EndAfter
    BY <1>1, <2>2 DEF Limits, StepAfter, StepBefore, range, WindowTypes, RangeTyped
  <2> QED BY <2>1, <2>2
<1> QED BY <1>1, <1>2, <1>3 DEF WindowTypes, RangeTyped, CollectionTyped

LEMMA EndBeforeTypes ==
  ASSUME WindowIInv, WindowTypes, EndBefore
  PROVE  WindowTypes'
<1>1. /\ phase = "before" /\ toBlock' = resolved /\ phase' # "idle"
      /\ UNCHANGED <<asOfBlock, minBlock, left, right, resolved, fromBlock>>
      /\ \/ metrics' = NoMetrics /\ UNCHANGED <<targetNo, chunkStart, matched>>
         \/ metrics' = metrics /\ targetNo' = 1 /\ chunkStart' = fromBlock /\ matched' = {}
  BY DEF EndBefore, search, collection
<1>2. Base /\ Bounds /\ resolved = left - 1
  BY <1>1 DEF WindowIInv, BeforeInv
<1>3. resolved \in -1 .. asOfBlock
  BY <1>2, NumbersOfCall DEF Bounds
<1>4. /\ NoMetrics \in [tx_count : Nat, days_active : Nat]
      /\ fromBlock \in Nat /\ 1 \in 1 .. Len(Targets) + 1
  BY <1>2, NumbersOfCall, WindowAssumption DEF NoMetrics, WindowTypes, RangeTyped
<1> QED BY <1>1, <1>3, <1>4 DEF WindowTypes, SearchTyped, RangeTyped, CollectionTyped

LEMMA CollectTypes ==
  ASSUME WindowIInv, WindowIInv', WindowTypes, CollectChunk \/ NextTarget \/ Count
  PROVE  WindowTypes'
<1>1. /\ UNCHANGED <<asOfBlock, minBlock, left, right, resolved, fromBlock, toBlock>>
      /\ phase' # "idle" /\ phase = "collect"
  BY DEF CollectChunk, NextTarget, Count, search, range
<1>2. Base /\ SearchTyped' /\ RangeTyped'
  BY <1>1 DEF WindowTypes, SearchTyped, RangeTyped, WindowIInv
<1>3. CollectionTyped'
  <2>1. targetNo' \in 1 .. Len(Targets) + 1
    BY WindowAssumption
       DEF CollectChunk, NextTarget, Count, collection, TargetIds, WindowTypes, CollectionTyped
  <2>2. chunkStart' \in Nat
    BY <1>2, NumbersOfCall, WindowAssumption
       DEF CollectChunk, NextTarget, Count, collection, WindowTypes, CollectionTyped, RangeTyped
  <2>3. ASSUME NEW k \in matched' PROVE k.block \in 0 .. asOfBlock
    <3>1. CASE CollectChunk
      <4>1. /\ matched = Keys(Fetched(targetNo, chunkStart))
            /\ matched' = Keys(Fetched(targetNo, chunkStart))'
        BY <1>1, <3>1 DEF WindowIInv, CollectInv, CollectChunk
      <4>2. PICK l \in chain.logs : k.block = l.block /\ l.block \in fromBlock .. toBlock
        <5>1. PICK l \in Fetched(targetNo, chunkStart)' : k = TransferKey(l)'
          BY <4>1 DEF Keys
        <5>2. l \in chain.logs /\ l.block \in fromBlock .. toBlock
          BY <1>1, <3>1, <5>1 DEF Fetched, CollectChunk
        <5> QED BY <5>1, <5>2 DEF TransferKey
      <4>3. fromBlock \in Nat /\ toBlock \in -1 .. asOfBlock /\ asOfBlock \in Nat
        BY <1>2, NumbersOfCall DEF WindowTypes, RangeTyped
      <4> QED BY <4>2, <4>3
    <3>2. CASE ~ CollectChunk
      BY <3>2 DEF NextTarget, Count, collection, WindowTypes, CollectionTyped
    <3> QED BY <3>1, <3>2
  <2> QED BY <1>1, <2>1, <2>2, <2>3 DEF CollectionTyped
<1>4. metrics' \in [tx_count : Nat, days_active : Nat]
  <2>1. CASE Count
    <3>1. metrics' = MetricsOf(InWindow(minBlock))' /\ Base'
      BY <2>1 DEF Count, WindowIInv, WindowExact
    <3>2. MetricsOf(InWindow(minBlock))' = MetricsOf(InWindow(minBlock))
      BY <1>1, <2>1 DEF Count, MetricsOf, InWindow, Stamp
    <3> QED BY <1>2, <3>1, <3>2, MetricsTyped
  <2>2. CASE ~ Count
    BY <2>2 DEF CollectChunk, NextTarget, WindowTypes
  <2> QED BY <2>1, <2>2
<1> QED BY <1>1, <1>2, <1>3, <1>4 DEF WindowTypes

LEMMA ClearTypes ==
  ASSUME WindowTypes, CallFails \/ Answered \/ UNCHANGED WindowVars
  PROVE  WindowTypes'
<1>1. CASE CallFails
  BY <1>1 DEF CallFails, search, range, collection, WindowTypes, SearchTyped, RangeTyped,
              CollectionTyped
<1>2. CASE Answered
  <2>1. NoMetrics \in [tx_count : Nat, days_active : Nat] /\ 1 \in 1 .. Len(Targets) + 1
    BY WindowAssumption DEF NoMetrics
  <2> QED BY <1>2, <2>1 DEF Answered, ClearCall, WindowTypes, SearchTyped, RangeTyped,
                            CollectionTyped, Cleared
<1>3. CASE UNCHANGED WindowVars
  BY <1>3 DEF WindowVars, search, range, collection, WindowTypes, SearchTyped, RangeTyped,
              CollectionTyped, Cleared
<1> QED BY <1>1, <1>2, <1>3

(* THE TYPES OF A CALL: every block it names is a block of the chain or    *)
(* next to one, and what it answers are natural numbers.                   *)
THEOREM WindowTypeCorrect == WindowSpec => []WindowTypeOK
<1>1. WindowInit => WindowTypes
  <2>1. NoMetrics \in [tx_count : Nat, days_active : Nat] /\ 1 \in 1 .. Len(Targets) + 1
    BY WindowAssumption DEF NoMetrics
  <2> QED BY <2>1 DEF WindowInit, WindowTypes, SearchTyped, RangeTyped, CollectionTyped, Cleared
<1>2. WindowIInv /\ WindowIInv' /\ WindowTypes /\ [WindowNext]_WindowVars => WindowTypes'
  BY QueryTypes, SearchTypes, EndBeforeTypes, CollectTypes, ClearTypes DEF WindowNext, WindowStep
<1>3. WindowIInv /\ WindowTypes => WindowTypeOK
  BY DEF WindowIInv, Base, WindowTypes, SearchTyped, RangeTyped, CollectionTyped, WindowTypeOK
<1> QED BY <1>1, <1>2, <1>3, WindowInductive, PTL DEF WindowSpec

-----------------------------------------------------------------------------
(* Induction over the rounds of the loop, in the form of sets: the least   *)
(* number of a set, from the finite sets 0 .. m.                           *)
LEMMA LeastNumber ==
  ASSUME NEW T \in SUBSET Nat, T # {}
  PROVE  \E m \in T : \A k \in T : m <= k
<1> DEFINE U == {0 .. m : m \in T}
<1>1. U \subseteq FiniteSubsetsOf(Nat) /\ U # {}
  <2>1. ASSUME NEW m \in T PROVE 0 .. m \in FiniteSubsetsOf(Nat)
    BY FS_Interval DEF FiniteSubsetsOf
  <2> QED BY <2>1
<1>2. PICK x \in U : \A y \in U : <<y, x>> \notin StrictSubsetOrdering(Nat)
  <2> HIDE DEF U
  <2> QED BY <1>1, FS_StrictSubsetOrderingWellFounded, WFMin
<1>3. PICK m \in T : x = 0 .. m
  BY <1>2
<1>4. ASSUME NEW k \in T, k < m PROVE FALSE
  <2>1. 0 .. k \subseteq 0 .. m /\ m \in 0 .. m /\ m \notin 0 .. k
    BY <1>4
  <2>2. <<0 .. k, 0 .. m>> \in StrictSubsetOrdering(Nat)
    BY <2>1 DEF StrictSubsetOrdering
  <2> QED BY <1>2, <1>3, <2>2
<1> QED BY <1>4

LEMMA Induction ==
  ASSUME NEW S, 0 \in S, \A n \in Nat : n \in S => n + 1 \in S
  PROVE  Nat \subseteq S
<1>1. CASE Nat \ S # {}
  <2>1. PICK m \in Nat \ S : \A k \in Nat \ S : m <= k
    BY <1>1, LeastNumber
  <2>2. m - 1 \in Nat /\ m - 1 \in S
    BY <2>1
  <2> QED BY <2>1, <2>2
<1> QED BY <1>1

(* The loop is well defined: it starts with nothing, and each round counts *)
(* one transaction more.                                                   *)
RoundsOf(f, txs, w, k) ==
  f = [n \in 0 .. k |-> IF n = 0 THEN NothingCounted
                        ELSE CountTransaction(f[n - 1], txs[n], w)]

LEMMA RoundsDefined ==
  ASSUME NEW txs, NEW w, Len(txs) \in Nat
  PROVE  RoundsOf(Rounds(txs, w), txs, w, Len(txs))
<1> DEFINE S == {k \in Nat : \E f : RoundsOf(f, txs, w, k)}
<1>1. 0 \in S
  <2>1. RoundsOf([n \in 0 .. 0 |-> NothingCounted], txs, w, 0)
    BY DEF RoundsOf
  <2> QED BY <2>1
<1>2. ASSUME NEW k \in Nat, k \in S PROVE k + 1 \in S
  <2>1. PICK f : RoundsOf(f, txs, w, k)
    BY <1>2
  <2> DEFINE last == CountTransaction(f[k], txs[k + 1], w)
             g    == [n \in 0 .. k + 1 |-> IF n = k + 1 THEN last ELSE f[n]]
  <2>2. ASSUME NEW n \in 0 .. k + 1
        PROVE  g[n] = IF n = 0 THEN NothingCounted ELSE CountTransaction(g[n - 1], txs[n], w)
    <3>1. CASE n = k + 1
      BY <3>1
    <3>2. CASE n \in 0 .. k /\ n # 0
      <4>1. f[n] = CountTransaction(f[n - 1], txs[n], w)
        BY <2>1, <3>2 DEF RoundsOf
      <4>2. g[n] = f[n] /\ g[n - 1] = f[n - 1]
        BY <3>2
      <4> QED BY <3>2, <4>1, <4>2
    <3>3. CASE n = 0
      BY <2>1, <3>3 DEF RoundsOf
    <3> QED BY <3>1, <3>2, <3>3
  <2>3. g = [n \in 0 .. k + 1 |-> g[n]]
    OBVIOUS
  <2> HIDE DEF g
  <2>4. RoundsOf(g, txs, w, k + 1)
    BY <2>2, <2>3 DEF RoundsOf
  <2> QED BY <2>4
<1>3. \E f : RoundsOf(f, txs, w, Len(txs))
  <2> HIDE DEF S
  <2>1. Len(txs) \in S
    BY <1>1, <1>2, Induction
  <2> QED BY <2>1 DEF S
<1>4. Rounds(txs, w) = CHOOSE f : RoundsOf(f, txs, w, Len(txs))
  BY DEF Rounds, RoundsOf
<1> QED BY <1>3, <1>4
-----------------------------------------------------------------------------
(* What the loop computes: unless one of the transactions is refused, the  *)
(* transactions of the window, their days and their contracts.             *)
Refused(t, w) == /\ t.contract # "null"
                 /\ ~ t.time.finite \/ (Trunc(t.time) \in w.start .. w.end /\ Blank(t))

CountedIn(t, w) == /\ t.contract # "null" /\ t.time.finite
                  /\ Trunc(t.time) \in w.start .. w.end /\ ~ Blank(t)

Day(t) == Trunc(t.time) \div SecondsPerDay

SomeRefused(txs, w, n) == \E k \in 1 .. n : Refused(txs[k], w)

Hits(txs, w, n) == {k \in 1 .. n : CountedIn(txs[k], w)}

Tally(txs, w, n) ==
  [rejected |-> FALSE, tx_count |-> Cardinality(Hits(txs, w, n)),
   days |-> {Day(txs[k]) : k \in Hits(txs, w, n)},
   contracts |-> {txs[k].contract : k \in Hits(txs, w, n)}]

LEMMA HitsFinite ==
  ASSUME NEW txs, NEW w, NEW n \in Nat
  PROVE  IsFiniteSet(Hits(txs, w, n)) /\ Cardinality(Hits(txs, w, n)) \in Nat
<1>1. IsFiniteSet(1 .. n) /\ Hits(txs, w, n) \subseteq 1 .. n
  BY FS_Interval DEF Hits
<1> QED BY <1>1, FS_Subset, FS_CardinalityType

LEMMA CountOneMore ==
  ASSUME NEW txs, NEW w, NEW n \in Nat, ~ Refused(txs[n + 1], w)
  PROVE  CountTransaction(Tally(txs, w, n), txs[n + 1], w) = Tally(txs, w, n + 1)
<1> DEFINE t == txs[n + 1]
           H == Hits(txs, w, n)
<1>1. CASE CountedIn(t, w)
  <2>1. Hits(txs, w, n + 1) = H \cup {n + 1} /\ n + 1 \notin H
    BY <1>1 DEF Hits
  <2>2. Cardinality(Hits(txs, w, n + 1)) = Cardinality(H) + 1
    BY <2>1, HitsFinite, FS_AddElement
  <2>3. {Day(txs[k]) : k \in Hits(txs, w, n + 1)} = {Day(txs[k]) : k \in H} \cup {Day(t)}
    BY <2>1
  <2>4. {txs[k].contract : k \in Hits(txs, w, n + 1)} = {txs[k].contract : k \in H} \cup {t.contract}
    BY <2>1
  <2>5. CountTransaction(Tally(txs, w, n), t, w)
          = [Tally(txs, w, n) EXCEPT !.tx_count  = @ + 1,
                                     !.days      = @ \cup {Day(t)},
                                     !.contracts = @ \cup {t.contract}]
    BY <1>1 DEF CountTransaction, CountedIn, Tally, Day
  <2> QED BY <2>2, <2>3, <2>4, <2>5 DEF Tally
<1>2. CASE ~ CountedIn(t, w)
  <2>1. Hits(txs, w, n + 1) = H
    BY <1>2 DEF Hits
  <2>2. CountTransaction(Tally(txs, w, n), t, w) = Tally(txs, w, n)
    BY <1>2 DEF CountTransaction, CountedIn, Refused, Tally
  <2> QED BY <2>1, <2>2 DEF Tally
<1> QED BY <1>1, <1>2

LEMMA CountRefused ==
  ASSUME NEW txs, NEW w, NEW n \in Nat, Refused(txs[n + 1], w)
  PROVE  CountTransaction(Tally(txs, w, n), txs[n + 1], w).rejected
BY DEF CountTransaction, Refused, Tally

LEMMA RoundsCount ==
  ASSUME NEW txs, NEW w, Len(txs) \in Nat, NEW n \in 0 .. Len(txs)
  PROVE  /\ SomeRefused(txs, w, n) => Rounds(txs, w)[n].rejected
         /\ ~ SomeRefused(txs, w, n) => Rounds(txs, w)[n] = Tally(txs, w, n)
<1> DEFINE f == Rounds(txs, w)
           P(m) == /\ SomeRefused(txs, w, m) => f[m].rejected
                   /\ ~ SomeRefused(txs, w, m) => f[m] = Tally(txs, w, m)
           S == {m \in Nat : m <= Len(txs) => P(m)}
<1>1. \A m \in 0 .. Len(txs) :
        f[m] = IF m = 0 THEN NothingCounted ELSE CountTransaction(f[m - 1], txs[m], w)
  <2> HIDE DEF f
  <2> QED BY RoundsDefined DEF RoundsOf, f
<1> HIDE DEF f
<1>2. 0 \in S
  <2>1. Hits(txs, w, 0) = {} /\ ~ SomeRefused(txs, w, 0)
    BY DEF Hits, SomeRefused
  <2>2. Tally(txs, w, 0) = NothingCounted
    BY <2>1, FS_EmptySet DEF Tally, NothingCounted
  <2>3. f[0] = NothingCounted
    BY <1>1
  <2> QED BY <2>1, <2>2, <2>3
<1>3. ASSUME NEW m \in Nat, m \in S PROVE m + 1 \in S
  <2> SUFFICES ASSUME m + 1 <= Len(txs) PROVE P(m + 1)
    OBVIOUS
  <2>1. P(m) /\ f[m + 1] = CountTransaction(f[m], txs[m + 1], w)
    BY <1>1, <1>3
  <2>2. SomeRefused(txs, w, m + 1) <=> SomeRefused(txs, w, m) \/ Refused(txs[m + 1], w)
    BY DEF SomeRefused
  <2>3. CASE SomeRefused(txs, w, m)
    BY <2>1, <2>2, <2>3 DEF CountTransaction
  <2>4. CASE ~ SomeRefused(txs, w, m) /\ Refused(txs[m + 1], w)
    BY <2>1, <2>2, <2>4, CountRefused
  <2>5. CASE ~ SomeRefused(txs, w, m) /\ ~ Refused(txs[m + 1], w)
    BY <2>1, <2>2, <2>5, CountOneMore
  <2> QED BY <2>3, <2>4, <2>5
<1>4. n \in S
  <2> HIDE DEF S
  <2> QED BY <1>2, <1>3, Induction
<1> QED BY <1>4 DEF f

(* The same of an input: one refused transaction refuses the input.        *)
LEMMA CountedExactly ==
  ASSUME NEW i, NEW w, Len(i.transactions) \in Nat
  PROVE  LET txs == i.transactions
             n   == Len(i.transactions)
         IN /\ SomeRefused(txs, w, n) => Counted(i, w).rejected
            /\ ~ SomeRefused(txs, w, n) => Counted(i, w) = Tally(txs, w, n) /\ ~ Counted(i, w).rejected
<1> DEFINE txs == i.transactions
           n   == Len(i.transactions)
<1>1. Counted(i, w) = Rounds(txs, w)[n] /\ n \in 0 .. Len(txs)
  BY DEF Counted
<1>2. ~ Tally(txs, w, n).rejected
  BY DEF Tally
<1> HIDE DEF txs, n
<1>3. /\ SomeRefused(txs, w, n) => Rounds(txs, w)[n].rejected
      /\ ~ SomeRefused(txs, w, n) => Rounds(txs, w)[n] = Tally(txs, w, n)
  BY <1>1, RoundsCount DEF txs, n
<1> QED BY <1>1, <1>2, <1>3 DEF txs, n

-----------------------------------------------------------------------------
Summary == [SummaryNames -> Nat]

Thresholds == [ParamNames -> Nat]

(* The fields of a summary are numbers.                                    *)
LEMMA SummaryFields ==
  ASSUME NEW s \in Summary
  PROVE  s.days_active \in Nat /\ s.tx_count \in Nat /\ s.unique_contracts \in Nat
  BY DEF Summary, SummaryNames

(* More days, transactions and contracts never lower the score.            *)
LEMMA ScoreMonotone ==
  ASSUME NEW s \in Summary, NEW t \in Summary, Uses(s, t)
  PROVE  OverallScore(t) >= OverallScore(s)
<1> DEFINE balance(u) == Activity(u) * 100 - FarmRaw(u) * 35
           score(n)   == (Clamp(n, 0, 1200000) + 6000) \div 12000
<1>1. /\ s.days_active <= t.days_active /\ s.tx_count <= t.tx_count
      /\ s.unique_contracts <= t.unique_contracts
  BY DEF Uses, SummaryNames
<1>2. balance(s) \in Int /\ balance(t) \in Int /\ balance(s) <= balance(t)
  BY <1>1, SummaryFields, SMTT(30) DEF Activity, FarmRaw, Days, Txs, Uniq, AtMost
<1>3. \A m, n \in Int : m <= n => score(m) <= score(n)
  BY SMTT(30) DEF Clamp, AtMost
<1>4. OverallScore(s) = score(balance(s)) /\ OverallScore(t) = score(balance(t))
  BY SMTT(30) DEF OverallScore
<1> HIDE DEF balance, score
<1>5. score(balance(s)) \in Int /\ score(balance(t)) \in Int
  BY <1>2, SMTT(30) DEF score, Clamp, AtMost
<1> QED BY <1>2, <1>3, <1>4, <1>5

(* Nor do they take the verification away.                                 *)
LEMMA VerificationMonotone ==
  ASSUME NEW s \in Summary, NEW t \in Summary, NEW p \in Thresholds,
         Uses(s, t), VerifiedUsage(s, p)
  PROVE  VerifiedUsage(t, p)
BY SummaryFields DEF Uses, SummaryNames, VerifiedUsage, Thresholds, ParamNames

(* At the thresholds of the preset a verified wallet is not suspected: its *)
(* contracts are more than a farm's, and its days more than those of one   *)
(* that is inactive.                                                       *)
LEMMA VerifiedTag ==
  ASSUME NEW s \in Summary, NEW p \in Thresholds, VerifiedUsage(s, p),
         \A n \in ParamNames : p[n] >= PresetParams[n]
  PROVE  BehaviorTag(s) \in {"organic", "mixed"}
<1>1. s.days_active >= 7 /\ s.unique_contracts >= 3
  BY SummaryFields DEF VerifiedUsage, Thresholds, ParamNames, PresetParams
<1> QED BY <1>1, SummaryFields, SMTT(30) DEF BehaviorTag

-----------------------------------------------------------------------------
(* What an accepted output says is what was made of its summary.           *)
Derived(o) ==
  o.accepted => /\ o.verified_usage = VerifiedUsage(o.usage_summary, o.params)
                /\ o.insights = ComputeInsight(o.usage_summary)

LEMMA EvaluationDerived == ASSUME NEW i PROVE Derived(EvaluateUsageV1(i))
<1> DEFINE o == EvaluateUsageV1(i)
<1>1. CASE Accepts(i)
  <2> DEFINE s == ResolveSummary(i, ResolveWindow(i.window))
             q == ResolveParams(i)
  <2>1. /\ o.usage_summary = s /\ o.params = q
        /\ o.verified_usage = VerifiedUsage(s, q)
        /\ o.insights = ComputeInsight(s)
    BY <1>1 DEF EvaluateUsageV1
  <2> QED BY <2>1 DEF Derived
<1>2. CASE ~ Accepts(i)
  BY <1>2 DEF EvaluateUsageV1, Rejection, Derived
<1> QED BY <1>1, <1>2

-----------------------------------------------------------------------------
LEMMA NumberTruncated == ASSUME NEW n \in Numbers PROVE Trunc(n) \in Int
<1>1. n \in [finite : {TRUE}, half : Int] \/ n = Absent \/ n = NotFinite
  BY DEF Numbers
<1>2. CASE n \in [finite : {TRUE}, half : Int]
  <2>1. n.half \in Int
    BY <1>2
  <2> QED BY <2>1 DEF Trunc
<1>3. CASE n = Absent \/ n = NotFinite
  BY <1>3 DEF Absent, NotFinite, Trunc
<1> QED BY <1>1, <1>2, <1>3

(* What the code accepts are natural numbers once they are truncated.      *)
LEMMA AcceptedNumber ==
  ASSUME NEW n \in Numbers, NonNegative(n) \/ n = Absent
  PROVE  Trunc(n) \in Nat
<1>1. CASE NonNegative(n)
  BY <1>1, NumberTruncated DEF NonNegative
<1>2. CASE n = Absent
  BY <1>2 DEF Absent, Trunc
<1> QED BY <1>1, <1>2

(* As many days and contracts are found as there are images of the hits.   *)
LEMMA CountTyped ==
  ASSUME NEW txs, NEW w, NEW n \in Nat
  PROVE  /\ Cardinality(Tally(txs, w, n).days) \in Nat
         /\ Tally(txs, w, n).tx_count \in Nat
         /\ Cardinality(Tally(txs, w, n).contracts) \in Nat
<1> DEFINE H == Hits(txs, w, n)
           days == {Day(txs[k]) : k \in H}
           contracts == {txs[k].contract : k \in H}
<1>1. IsFiniteSet(H) /\ Cardinality(H) \in Nat
  BY HitsFinite
<1>2. /\ [k \in H |-> Day(txs[k])] \in Surjection(H, days)
      /\ [k \in H |-> txs[k].contract] \in Surjection(H, contracts)
  BY DEF Surjection
<1>3. IsFiniteSet(days) /\ IsFiniteSet(contracts)
  <2> HIDE DEF H, days, contracts
  <2> QED BY <1>1, <1>2, FS_Surjection
<1>4. Cardinality(days) \in Nat /\ Cardinality(contracts) \in Nat
  BY <1>3, FS_CardinalityType
<1> QED BY <1>1, <1>4 DEF Tally

LEMMA EvaluationTyped ==
  ASSUME NEW i \in UsageInputType, Accepts(i)
  PROVE  /\ ResolveParams(i) \in Thresholds
         /\ ResolveSummary(i, ResolveWindow(i.window)) \in Summary
         /\ ResolveWindow(i.window) \in [start : Int, end : Int]
<1>1. ASSUME NEW p \in ParamNames PROVE Trunc(Param(i, p)) \in Nat
  <2>1. NonNegative(Param(i, p))
    BY DEF Accepts
  <2>2. i.overrides[p] \in Numbers
    BY DEF UsageInputType
  <2>3. PresetParams[p] \in Nat
    BY DEF PresetParams, ParamNames
  <2>4. [finite |-> TRUE, half |-> 2 * PresetParams[p]] \in Numbers
    BY <2>3 DEF Numbers
  <2>5. Absent \in Numbers
    BY DEF Numbers
  <2>6. Param(i, p) \in Numbers
    BY <2>2, <2>4, <2>5 DEF Param
  <2> QED BY <2>1, <2>6, AcceptedNumber
<1>2. ASSUME i.activity = "summary", NEW n \in SummaryNames
      PROVE  Trunc(i.usage[n]) \in Nat
  <2>1. i.usage[n] = Absent \/ NonNegative(i.usage[n])
    BY <1>2 DEF Accepts, UsageValid
  <2>2. i.usage[n] \in Numbers
    BY DEF UsageInputType
  <2> QED BY <2>1, <2>2, AcceptedNumber
<1>3. ASSUME i.activity = "transactions"
      PROVE  ResolveSummary(i, ResolveWindow(i.window)) \in Summary
  <2> DEFINE w == ResolveWindow(i.window)
             c == Counted(i, w)
  <2>1. Len(i.transactions) \in Nat
    BY DEF UsageInputType
  <2>2. c = Tally(i.transactions, w, Len(i.transactions))
    <3>1. ~ c.rejected
      BY <1>3 DEF Accepts, UsageValid
    <3> QED BY <2>1, <3>1, CountedExactly
  <2>3. Cardinality(c.days) \in Nat /\ c.tx_count \in Nat /\ Cardinality(c.contracts) \in Nat
    BY <2>1, <2>2, CountTyped
  <2>4. ResolveSummary(i, w) = [days_active |-> Cardinality(c.days), tx_count |-> c.tx_count,
                                unique_contracts |-> Cardinality(c.contracts)]
    BY <1>3 DEF ResolveSummary
  <2> HIDE DEF c, w
  <2>5. ResolveSummary(i, w) \in Summary
    BY <2>3, <2>4 DEF Summary, SummaryNames
  <2> QED BY <2>5 DEF w
<1>4. i.activity \in {"transactions", "summary"}
  BY DEF UsageInputType
<1>5. ResolveWindow(i.window) \in [start : Int, end : Int]
  <2>1. /\ i.window.start \in Numbers /\ i.window.end \in Numbers
        /\ i.window.type \in {"none", "custom"} \cup DOMAIN WindowSeconds
    BY DEF UsageInputType
  <2>2. Trunc(i.window.start) \in Int /\ Trunc(i.window.end) \in Int
    BY <2>1, NumberTruncated
  <2>3. i.window.start = Absent => WindowSeconds[i.window.type] \in Nat
    <3>1. Absent.finite = FALSE
      BY DEF Absent
    <3> QED BY <2>1, <3>1, UsageAssumption DEF Accepts, WindowValid
  <2> QED BY <2>2, <2>3 DEF ResolveWindow
<1> QED BY <1>1, <1>2, <1>3, <1>4, <1>5 DEF ResolveParams, ResolveSummary, Thresholds, Summary

(* The insights stay on their scales, whatever the summary.                *)
LEMMA InsightTyped ==
  ASSUME NEW s \in Summary
  PROVE  /\ ComputeInsight(s).overall_score \in 0 .. 100
         /\ ComputeInsight(s).farming_percent \in 0 .. 100
         /\ ComputeInsight(s).behavior_tag \in {"inactive", "suspected_farm", "organic", "mixed"}
<1>1. /\ Days(s) \in Int /\ 0 <= Days(s) /\ Days(s) <= 30
      /\ Txs(s) \in Int /\ 0 <= Txs(s) /\ Txs(s) <= 120
      /\ Uniq(s) \in Int /\ 0 <= Uniq(s) /\ Uniq(s) <= 20
  BY SummaryFields DEF Days, Txs, Uniq, AtMost
<1> DEFINE farm(d, x, u) == 55 * x + (3000 - 150 * u) + (2400 - 80 * d)
           active(d, x, u) == 180 * d + 35 * x + 120 * u
<1>2. ASSUME NEW d \in Int, NEW x \in Int, NEW u \in Int,
             0 <= d, d <= 30, 0 <= x, x <= 120, 0 <= u, u <= 20
      PROVE  /\ farm(d, x, u) \in Int /\ active(d, x, u) \in Int
             /\ 0 <= farm(d, x, u) /\ farm(d, x, u) <= 12000
  BY <1>2, SMTT(30)
<1>3. /\ FarmRaw(s) = farm(Days(s), Txs(s), Uniq(s))
      /\ Activity(s) = active(Days(s), Txs(s), Uniq(s))
  BY SMTT(30) DEF FarmRaw, Activity
<1>4. FarmRaw(s) \in Int /\ 0 <= FarmRaw(s) /\ FarmRaw(s) <= 12000 /\ Activity(s) \in Int
  <2>1. PICK d \in Int, x \in Int, u \in Int : d = Days(s) /\ x = Txs(s) /\ u = Uniq(s)
    BY <1>1
  <2>2. 0 <= d /\ d <= 30 /\ 0 <= x /\ x <= 120 /\ 0 <= u /\ u <= 20
    BY <1>1, <2>1, Zenon
  <2>3. /\ farm(d, x, u) \in Int /\ active(d, x, u) \in Int
        /\ 0 <= farm(d, x, u) /\ farm(d, x, u) <= 12000
    BY <1>2, <2>2, SMTT(30)
  <2> HIDE DEF farm, active
  <2>4. FarmRaw(s) = farm(d, x, u) /\ Activity(s) = active(d, x, u)
    BY <1>3, <2>1
  <2> QED BY <2>3, <2>4, SMTT(30)
<1>5. ASSUME NEW n \in Int, 0 <= n, n <= 1200000
      PROVE  (n + 6000) \div 12000 \in 0 .. 100
  BY <1>5, SMTT(30)
<1>6. FarmRaw(s) * 100 \in Int /\ 0 <= FarmRaw(s) * 100 /\ FarmRaw(s) * 100 <= 1200000
  BY <1>4, SMTT(30)
<1>7. (FarmRaw(s) * 100 + 6000) \div 12000 \in 0 .. 100
  BY <1>5, <1>6, SMTT(30)
<1>8. ASSUME NEW n \in Int
      PROVE  /\ Clamp(n, 0, 1200000) \in Int
             /\ 0 <= Clamp(n, 0, 1200000) /\ Clamp(n, 0, 1200000) <= 1200000
  BY SMTT(30) DEF Clamp, AtMost
<1>9. Activity(s) * 100 - FarmRaw(s) * 35 \in Int
  BY <1>4, SMTT(30)
<1>10. OverallScore(s) \in 0 .. 100
  BY <1>5, <1>8, <1>9, SMTT(30) DEF OverallScore
<1> QED BY <1>7, <1>10, SMTT(30) DEF ComputeInsight, BehaviorTag

-----------------------------------------------------------------------------
UsageIInv == /\ UsageTypeOK
             /\ usageOutput = EvaluateUsageV1(usageInput)
             /\ Derived(usageOutput)

LEMMA EvaluationInv ==
  ASSUME NEW i \in UsageInputType
  PROVE  LET o == EvaluateUsageV1(i)
         IN /\ Derived(o)
            /\ o.accepted \in BOOLEAN /\ o.verified_usage \in BOOLEAN
            /\ o.window \in [start : Int, end : Int]
            /\ o.params \in Thresholds
            /\ o.usage_summary \in Summary
            /\ o.insights = ComputeInsight(o.usage_summary)
<1>1. CASE Accepts(i)
  <2> DEFINE w == ResolveWindow(i.window)
             s == ResolveSummary(i, w)
             q == ResolveParams(i)
             o == EvaluateUsageV1(i)
  <2>1. /\ o.accepted = TRUE /\ o.window = w /\ o.params = q /\ o.usage_summary = s
        /\ o.verified_usage = VerifiedUsage(s, q) /\ o.insights = ComputeInsight(s)
    BY <1>1 DEF EvaluateUsageV1
  <2>2. VerifiedUsage(s, q) \in BOOLEAN
    BY DEF VerifiedUsage
  <2>3. w \in [start : Int, end : Int] /\ q \in Thresholds /\ s \in Summary
    BY <1>1, EvaluationTyped
  <2>4. Derived(o)
    BY EvaluationDerived
  <2> HIDE DEF o, w, q, s
  <2>5. /\ o.accepted \in BOOLEAN /\ o.verified_usage \in BOOLEAN
        /\ o.window \in [start : Int, end : Int] /\ o.params \in Thresholds
        /\ o.usage_summary \in Summary /\ o.insights = ComputeInsight(o.usage_summary)
    BY <2>1, <2>2, <2>3
  <2> QED BY <2>4, <2>5 DEF o
<1>2. CASE ~ Accepts(i)
  <2>1. EvaluateUsageV1(i) = Rejection
    BY <1>2 DEF EvaluateUsageV1
  <2>2. /\ Rejection.accepted = FALSE /\ Rejection.verified_usage = FALSE
        /\ Rejection.window \in [start : Int, end : Int]
        /\ Rejection.params \in Thresholds /\ Rejection.usage_summary = Nothing
        /\ Rejection.insights = ComputeInsight(Nothing)
    BY DEF Rejection, Thresholds
  <2>3. Nothing \in Summary
    BY DEF Nothing, Summary
  <2> QED BY <2>1, <2>2, <2>3, EvaluationDerived
<1> QED BY <1>1, <1>2

LEMMA UsageInductive == UsageSpec => []UsageIInv
<1>1. ASSUME NEW i \in UsageInputType, usageInput = i, usageOutput = EvaluateUsageV1(i)
      PROVE  UsageIInv
  <2>1. usageOutput.usage_summary \in Summary /\ usageOutput.insights = ComputeInsight(usageOutput.usage_summary)
    BY <1>1, EvaluationInv
  <2> QED
    BY <1>1, <2>1, EvaluationInv, InsightTyped DEF UsageIInv, UsageTypeOK, Thresholds, Summary
<1>2. ASSUME NEW i \in UsageInputType, usageInput' = i, usageOutput' = EvaluateUsageV1(i)
      PROVE  UsageIInv'
  <2>1. usageOutput'.usage_summary \in Summary /\ usageOutput'.insights = ComputeInsight(usageOutput'.usage_summary)
    BY <1>2, EvaluationInv
  <2> QED
    BY <1>2, <2>1, EvaluationInv, InsightTyped DEF UsageIInv, UsageTypeOK, Thresholds, Summary
<1>3. UsageInit => UsageIInv
  BY <1>1, UsageAssumption DEF UsageInit
<1>4. UsageIInv /\ [UsageNext]_UsageVars => UsageIInv'
  <2> SUFFICES ASSUME UsageIInv, [UsageNext]_UsageVars PROVE UsageIInv'
    OBVIOUS
  <2>1. CASE EvaluateInput
    BY <1>2, <2>1, UsageAssumption DEF EvaluateInput
  <2>2. CASE EvaluateLonger
    <3>1. PICK t \in Transactions :
            usageInput' = [usageInput EXCEPT !.transactions = Append(@, t)]
      BY <2>2 DEF EvaluateLonger
    <3>2. usageInput \in UsageInputType /\ t \in TransactionType
      BY UsageAssumption DEF UsageIInv, UsageTypeOK
    <3>3. Append(usageInput.transactions, t) \in Seq(TransactionType)
      BY <3>2 DEF UsageInputType
    <3>4. usageInput' \in UsageInputType
      BY <3>1, <3>2, <3>3 DEF UsageInputType
    <3> QED BY <1>2, <2>2, <3>4 DEF EvaluateLonger
  <2>3. CASE UNCHANGED UsageVars
    BY <2>3 DEF UsageVars, UsageIInv, UsageTypeOK, Derived
  <2> QED BY <2>1, <2>2, <2>3 DEF UsageNext
<1> QED BY <1>3, <1>4, PTL DEF UsageSpec

(* MORE USE NEVER HURTS, whatever inputs are evaluated one after another:  *)
(* neither the verification nor the score of evaluateUsageV1 ever falls    *)
(* from an output to one with at least its days, transactions and          *)
(* contracts.                                                              *)
THEOREM UsageMoreNeverHurts == UsageSpec => MoreUseNeverHurts
<1> DEFINE A == (/\ usageOutput.accepted /\ usageOutput'.accepted
                 /\ usageOutput'.params = usageOutput.params
                 /\ Uses(usageOutput.usage_summary, usageOutput'.usage_summary))
                => /\ usageOutput.verified_usage => usageOutput'.verified_usage
                   /\ usageOutput'.insights.overall_score >= usageOutput.insights.overall_score
<1>1. /\ UsageIInv /\ UsageIInv'  => A
  <2> SUFFICES ASSUME UsageIInv, UsageIInv',
                      usageOutput.accepted, usageOutput'.accepted,
                      usageOutput'.params = usageOutput.params,
                      Uses(usageOutput.usage_summary, usageOutput'.usage_summary)
               PROVE  /\ usageOutput.verified_usage => usageOutput'.verified_usage
                      /\ usageOutput'.insights.overall_score >= usageOutput.insights.overall_score
    OBVIOUS
  <2> DEFINE s == usageOutput.usage_summary
             t == usageOutput'.usage_summary
             p == usageOutput.params
  <2>1. s \in Summary /\ t \in Summary /\ p \in Thresholds
    BY DEF UsageIInv, UsageTypeOK, Summary, Thresholds
  <2>2. /\ usageOutput.verified_usage = VerifiedUsage(s, p)
        /\ usageOutput'.verified_usage = VerifiedUsage(t, p)
        /\ usageOutput.insights.overall_score = OverallScore(s)
        /\ usageOutput'.insights.overall_score = OverallScore(t)
    BY SMTT(30) DEF UsageIInv, Derived, ComputeInsight
  <2> HIDE DEF s, t, p
  <2>3. Uses(s, t)
    BY DEF s, t
  <2> QED BY <2>1, <2>2, <2>3, ScoreMonotone, VerificationMonotone
<1>2. /\ UsageIInv /\ UsageIInv'
      => [A]_UsageVars
  BY <1>1
<1> QED BY <1>2, UsageInductive, PTL DEF MoreUseNeverHurts

(* WHO IS VERIFIED IS NEVER SUSPECTED, whatever the summary: the tags      *)
(* computeInsightV1 gives for inactive wallets and farms exclude           *)
(* verification at the thresholds of the preset or above.                  *)
THEOREM UsageVerifiedNotSuspected == UsageSpec => []VerifiedNotSuspected
<1>1. UsageIInv => VerifiedNotSuspected
  <2> SUFFICES ASSUME UsageIInv,
                      usageOutput.accepted, usageOutput.verified_usage,
                      \A n \in ParamNames : usageOutput.params[n] >= PresetParams[n]
               PROVE  usageOutput.insights.behavior_tag \in {"organic", "mixed"}
    BY DEF VerifiedNotSuspected
  <2>1. usageOutput.usage_summary \in Summary /\ usageOutput.params \in Thresholds
    BY DEF UsageIInv, UsageTypeOK, Summary, Thresholds
  <2>2. VerifiedUsage(usageOutput.usage_summary, usageOutput.params)
    BY Zenon DEF UsageIInv, Derived
  <2>3. usageOutput.insights.behavior_tag = BehaviorTag(usageOutput.usage_summary)
    BY SMTT(30) DEF UsageIInv, Derived, ComputeInsight
  <2> QED BY <2>1, <2>2, <2>3, VerifiedTag
<1> QED BY <1>1, UsageInductive, PTL

(* THE TYPES OF AN EVALUATION, whatever input is evaluated: numbers that   *)
(* are natural once they are accepted, and insights on their scales.       *)
THEOREM UsageTypeCorrect == UsageSpec => []UsageTypeOK
<1>1. UsageIInv => UsageTypeOK
  BY DEF UsageIInv
<1> QED BY <1>1, UsageInductive, PTL

-----------------------------------------------------------------------------
(* The order of the transactions.  A surjection of the places of a list    *)
(* on themselves is a bijection, so what is counted at some places of one  *)
(* list is counted at as many places of the other.                         *)
LEMMA Places ==
  ASSUME NEW n \in Nat, NEW p \in Surjection(1 .. n, 1 .. n)
  PROVE  p \in Injection(1 .. n, 1 .. n)
BY FS_Interval, FS_SurjSameCardinalityImpliesInj

LEMMA ListOf ==
  ASSUME NEW n \in Nat, NEW f, f = [m \in 1 .. n |-> f[m]]
  PROVE  Len(f) = n
<1>1. f \in Seq({f[m] : m \in 1 .. n}) /\ DOMAIN f = 1 .. n
  OBVIOUS
<1> QED BY <1>1

Alike(txs, other, p, n) ==
  \A k \in 1 .. n : /\ other[k].time = txs[p[k]].time
                    /\ other[k].contract = txs[p[k]].contract

LEMMA CountAlike ==
  ASSUME NEW txs, NEW other, NEW w, NEW n \in Nat,
         NEW p \in Surjection(1 .. n, 1 .. n), Alike(txs, other, p, n)
  PROVE  /\ SomeRefused(other, w, n) <=> SomeRefused(txs, w, n)
         /\ Tally(other, w, n) = Tally(txs, w, n)
<1> DEFINE H == Hits(txs, w, n)
           G == Hits(other, w, n)
<1>1. /\ \A k \in 1 .. n : p[k] \in 1 .. n
      /\ \A k \in 1 .. n : \E m \in 1 .. n : p[m] = k
  BY DEF Surjection
<1>2. \A j, k \in 1 .. n : p[j] = p[k] => j = k
  BY Places DEF Injection, IsInjective
<1>3. ASSUME NEW k \in 1 .. n
      PROVE  /\ Refused(other[k], w) <=> Refused(txs[p[k]], w)
             /\ CountedIn(other[k], w) <=> CountedIn(txs[p[k]], w)
             /\ Day(other[k]) = Day(txs[p[k]])
             /\ other[k].contract = txs[p[k]].contract
  BY DEF Alike, Refused, CountedIn, Blank, Day
<1>4. SomeRefused(other, w, n) <=> SomeRefused(txs, w, n)
  BY <1>1, <1>3 DEF SomeRefused
<1>5. \A k \in 1 .. n : k \in G <=> p[k] \in H
  BY <1>1, <1>3 DEF Hits
<1>6. G \subseteq 1 .. n /\ H \subseteq 1 .. n
  BY DEF Hits
<1>7. Cardinality(G) = Cardinality(H)
  <2> DEFINE g == [k \in G |-> p[k]]
  <2> HIDE DEF G, H
  <2>1. g \in [G -> H]
    BY <1>5, <1>6
  <2>2. \A k \in H : \E m \in G : g[m] = k
    BY <1>1, <1>5, <1>6
  <2>3. \A j, k \in G : g[j] = g[k] => j = k
    BY <1>2, <1>6
  <2>4. g \in Surjection(G, H) /\ g \in Injection(G, H)
    BY <2>1, <2>2, <2>3 DEF Injection, IsInjective, Surjection
  <2>5. IsFiniteSet(G)
    BY HitsFinite DEF G
  <2> HIDE DEF g
  <2> QED BY <2>4, <2>5, FS_Surjection
<1>8. /\ {Day(other[k]) : k \in G} = {Day(txs[k]) : k \in H}
      /\ {other[k].contract : k \in G} = {txs[k].contract : k \in H}
  <2> HIDE DEF G, H
  <2>1. ASSUME NEW k \in G
        PROVE  \E m \in H : Day(other[k]) = Day(txs[m]) /\ other[k].contract = txs[m].contract
    BY <1>3, <1>5, <1>6
  <2>2. ASSUME NEW m \in H
        PROVE  \E k \in G : Day(other[k]) = Day(txs[m]) /\ other[k].contract = txs[m].contract
    <3>1. PICK k \in 1 .. n : p[k] = m
      BY <1>1, <1>6
    <3> QED BY <1>3, <1>5, <3>1
  <2>3. {Day(other[k]) : k \in G} = {Day(txs[k]) : k \in H}
    BY <2>1, <2>2
  <2>4. {other[k].contract : k \in G} = {txs[k].contract : k \in H}
    BY <2>1, <2>2
  <2> QED BY <2>3, <2>4
<1> QED BY <1>4, <1>7, <1>8 DEF Tally

(* Inputs that differ in the order of their transactions and the spelling  *)
(* of their contracts only are evaluated alike.                            *)
SameBesidesTransactions(i, j) ==
  /\ j.wallet = i.wallet /\ j.campaign = i.campaign /\ j.window = i.window
  /\ j.criteria_set_id = i.criteria_set_id /\ j.overrides = i.overrides
  /\ j.activity = i.activity /\ Len(j.transactions) = Len(i.transactions)

LEMMA EvaluationAlike ==
  ASSUME NEW i \in UsageInputType, NEW j, i.activity = "transactions",
         SameBesidesTransactions(i, j),
         NEW p \in Surjection(1 .. Len(i.transactions), 1 .. Len(i.transactions)),
         Alike(i.transactions, j.transactions, p, Len(i.transactions))
  PROVE  EvaluateUsageV1(j) = EvaluateUsageV1(i)
<1> DEFINE n == Len(i.transactions)
           w == ResolveWindow(i.window)
<1>1. n \in Nat /\ Len(j.transactions) = n
  BY DEF UsageInputType, SameBesidesTransactions
<1>2. /\ SomeRefused(j.transactions, w, n) <=> SomeRefused(i.transactions, w, n)
      /\ Tally(j.transactions, w, n) = Tally(i.transactions, w, n)
  <2> HIDE DEF w
  <2> QED BY <1>1, CountAlike
<1>3. /\ Counted(j, w).rejected <=> Counted(i, w).rejected
      /\ ~ Counted(i, w).rejected => Counted(j, w) = Counted(i, w)
  <2> HIDE DEF w
  <2>1. /\ SomeRefused(i.transactions, w, n) => Counted(i, w).rejected
        /\ ~ SomeRefused(i.transactions, w, n)
             => Counted(i, w) = Tally(i.transactions, w, n) /\ ~ Counted(i, w).rejected
    BY <1>1, CountedExactly
  <2>2. /\ SomeRefused(j.transactions, w, n) => Counted(j, w).rejected
        /\ ~ SomeRefused(j.transactions, w, n)
             => Counted(j, w) = Tally(j.transactions, w, n) /\ ~ Counted(j, w).rejected
    BY <1>1, CountedExactly
  <2> QED BY <1>2, <2>1, <2>2, Zenon
<1>4. ResolveWindow(j.window) = w /\ j.activity = "transactions"
  BY DEF SameBesidesTransactions
<1>5. \A q \in ParamNames : Param(j, q) = Param(i, q)
  BY DEF SameBesidesTransactions, Param
<1>6. ResolveParams(j) = ResolveParams(i)
  BY <1>5 DEF ResolveParams
<1>7. UsageValid(j, w) <=> UsageValid(i, w)
  <2> HIDE DEF w
  <2> QED BY <1>3, <1>4, Zenon DEF UsageValid
<1>8. ~ Counted(i, w).rejected => ResolveSummary(j, w) = ResolveSummary(i, w)
  <2> HIDE DEF w
  <2> QED BY <1>3, <1>4, Zenon DEF ResolveSummary
<1>9. Accepts(j) <=> Accepts(i)
  <2>1. /\ j.wallet = i.wallet /\ j.campaign = i.campaign /\ j.window = i.window
        /\ (\A q \in ParamNames : NonNegative(Param(j, q)))
             <=> (\A q \in ParamNames : NonNegative(Param(i, q)))
    BY <1>5 DEF SameBesidesTransactions
  <2> QED BY <1>4, <1>7, <2>1, Zenon DEF Accepts
<1>10. CASE Accepts(i)
  <2>1. ~ Counted(i, w).rejected
    BY <1>10, Zenon DEF Accepts, UsageValid
  <2>2. ResolveSummary(j, w) = ResolveSummary(i, w)
    BY <1>8, <2>1
  <2> QED BY <1>4, <1>6, <1>9, <1>10, <2>2, Zenon DEF EvaluateUsageV1
<1>11. CASE ~ Accepts(i)
  BY <1>9, <1>11, Zenon DEF EvaluateUsageV1
<1> QED BY <1>10, <1>11

(* THE ORDER OF THE TRANSACTIONS DOES NOT MATTER, however many there are,  *)
(* nor how their contracts are spelled: evaluateUsageV1 makes the same     *)
(* output of every order and spelling of them.                             *)
THEOREM UsageOrderIndependent == UsageSpec => []UsageOrderFree
<1>1. UsageIInv => UsageOrderFree
  <2> SUFFICES ASSUME UsageIInv, usageInput.activity = "transactions"
               PROVE  /\ \A p \in Orders(DOMAIN usageInput.transactions) :
                           EvaluateUsageV1(Reordered(usageInput, p)) = usageOutput
                      /\ EvaluateUsageV1(Respelled(usageInput)) = usageOutput
    BY DEF UsageOrderFree
  <2> DEFINE i   == usageInput
             txs == i.transactions
             n   == Len(txs)
  <2>1. i \in UsageInputType /\ usageOutput = EvaluateUsageV1(i)
    BY DEF UsageIInv, UsageTypeOK
  <2>2. txs \in Seq(TransactionType) /\ n \in Nat /\ DOMAIN txs = 1 .. n
    BY <2>1 DEF UsageInputType
  <2>3. ASSUME NEW p \in Orders(DOMAIN txs)
        PROVE  EvaluateUsageV1(Reordered(i, p)) = usageOutput
    <3> DEFINE j     == Reordered(i, p)
               other == [m \in 1 .. n |-> txs[p[m]]]
    <3>1. p \in Surjection(1 .. n, 1 .. n)
      BY <2>2, <2>3 DEF Orders, Surjection
    <3>2. j = [i EXCEPT !.transactions = other]
      BY <2>1, <2>2 DEF Reordered, UsageInputType
    <3>3. Len(other) = n
      BY <2>2, ListOf
    <3>4. j.transactions = other /\ SameBesidesTransactions(i, j)
      BY <2>1, <3>2, <3>3 DEF SameBesidesTransactions, UsageInputType
    <3>5. Alike(txs, other, p, n)
      BY DEF Alike
    <3> HIDE DEF j, other
    <3>6. EvaluateUsageV1(j) = EvaluateUsageV1(i)
      BY <2>1, <3>1, <3>4, <3>5, EvaluationAlike
    <3> QED BY <2>1, <3>6 DEF j
  <2>4. EvaluateUsageV1(Respelled(i)) = usageOutput
    <3> DEFINE j     == Respelled(i)
               other == [m \in 1 .. n |-> [txs[m] EXCEPT !.spelling = "other"]]
               p     == [m \in 1 .. n |-> m]
    <3>1. p \in Surjection(1 .. n, 1 .. n)
      BY DEF Surjection
    <3>2. j = [i EXCEPT !.transactions = other]
      BY <2>1, <2>2 DEF Respelled, UsageInputType
    <3>3. Len(other) = n
      BY <2>2, ListOf
    <3>4. j.transactions = other /\ SameBesidesTransactions(i, j)
      BY <2>1, <3>2, <3>3 DEF SameBesidesTransactions, UsageInputType
    <3>5. Alike(txs, other, p, n)
      <4>1. \A m \in 1 .. n : txs[m] \in TransactionType
        BY <2>2
      <4> QED BY <4>1 DEF Alike, TransactionType
    <3> HIDE DEF j, other, p
    <3>6. EvaluateUsageV1(j) = EvaluateUsageV1(i)
      BY <2>1, <3>1, <3>4, <3>5, EvaluationAlike
    <3> QED BY <2>1, <3>6 DEF j
  <2> QED BY <2>3, <2>4
<1> QED BY <1>1, UsageInductive, PTL
=============================================================================
