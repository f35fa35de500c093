--------------------------- MODULE ListenerProofs ---------------------------
(***************************************************************************)
(* Theorems about the listener of one chain, for every set of logs, every  *)
(* configuration and any number of faults.                                 *)
(*                                                                         *)
(* The cursor of the database is safe because of a chain of weaker claims  *)
(* about the process: the current block is accounted for up to the current *)
(* stream (StreamsDone), the blocks up to the cursor in memory are         *)
(* accounted for completely (MemoryBacked), and the cursor of the database *)
(* is never ahead of the one in memory (DurableBehindMemory).              *)
(*                                                                         *)
(* The claims about logs leave out a set X of blocks.  It is empty for a   *)
(* chain that does not reorganise.  Of one that does it holds the blocks   *)
(* whose logs were replaced behind the listener's back, and the same steps *)
(* show that nothing else is harmed.                                       *)
(***************************************************************************)
EXTENDS ListenerReorg, TLAPS

Running == pc # "down"

(* Between two awaits of processBlock: the block is the next one, and it   *)
(* exists.                                                                 *)
WalkOK == /\ pc \in {"block", "logs"} =>
               /\ blockNumber = lastProcessedBlock + 1
               /\ blockNumber <= targetBlock
               /\ targetBlock <= head
          /\ pc = "refresh" => latestBlock <= head
          /\ pc # "logs" => pending = {}

(* The wanted logs of the current block that are behind the walk.          *)
Behind(l) == /\ l.block = blockNumber
             /\ \/ l.stream < stream
                \/ l.stream = stream /\ pending # {} /\ l \notin pending

StreamsDone(X) == pc = "logs" /\ blockNumber \notin X =>
                    \A l \in Logs : Wanted(l) /\ Behind(l) => Accounted(l)

MemoryBacked(X) ==
  Running =>
    /\ origin <= lastProcessedBlock
    /\ \A b \in (origin + 1 .. lastProcessedBlock) \ X : AccountedBlock(b)

DurableBehindMemory ==
  state # NoState =>
    /\ origin <= state.lastProcessedBlock
    /\ Running => state.lastProcessedBlock <= lastProcessedBlock
    /\ state.lastProcessedBlock <= head \/ state.lastProcessedBlock <= origin

(* NoGap, but for the blocks of X.                                         *)
NoGapBut(X) ==
  state # NoState =>
    \A b \in (origin + 1 .. state.lastProcessedBlock) \ X : AccountedBlock(b)

IInvBut(X) == /\ TypeOK
              /\ WalkOK
              /\ StreamsDone(X)
              /\ MemoryBacked(X)
              /\ DurableBehindMemory
              /\ NoGapBut(X)
              /\ NeverPastHead

IInv == IInvBut({})

-----------------------------------------------------------------------------
(* What has been accounted for stays accounted for, as long as the chain   *)
(* is not rewritten and documents are not deleted.                         *)
Grows == /\ chain' = chain
         /\ \A l \in Logs : docs[l] # "none" => docs'[l] # "none"
         /\ reported \subseteq reported'
         /\ unseen \subseteq unseen'

LEMMA AccountedStable ==
  ASSUME Grows, NEW l \in Logs, Wanted(l) => Accounted(l)
  PROVE  Wanted(l)' => Accounted(l)'
BY DEF Grows, Wanted, Accounted, Ready

LEMMA BlocksStable ==
  ASSUME Grows, NEW b, AccountedBlock(b)
  PROVE  AccountedBlock(b)'
BY AccountedStable DEF AccountedBlock, Wanted, Accounted, Ready

LEMMA NextGrows == ASSUME TypeOK, [Next]_vars PROVE Grows
<1> USE DEF vars, envVars, dbVars, walkVars, procVars, obsVars
<1>1. CASE UNCHANGED vars
  BY <1>1 DEF Grows
<1>2. CASE Mine
  BY <1>2 DEF Mine, Grows
<1>3. CASE Crash
  BY <1>3 DEF Crash, Grows
<1>4. CASE Start
  BY <1>4 DEF Start, Grows
<1>5. CASE Poll
  BY <1>5 DEF Poll, Grows
<1>6. CASE Refresh
  BY <1>6 DEF Refresh, Grows
<1>7. CASE FetchTimestamp
  BY <1>7 DEF FetchTimestamp, Grows
<1>8. CASE Fetch
  BY <1>8 DEF Fetch, FetchLogs, FetchBehind, FetchFails, SkipStream, AfterFetch, Grows
<1>9. CASE StoreLog
  <2>1. PICK l \in pending \ Poison, ok \in BOOLEAN, applied \in BOOLEAN :
             /\ docs' = IF applied THEN [docs EXCEPT ![l] = DocDate(l.stream)] ELSE docs
             /\ reported' = IF ok THEN reported ELSE reported \cup {l}
    BY <1>9 DEF StoreLog
  <2>2. DocDate(l.stream) # "none"
    BY DEF DocDate
  <2>3. \A m \in Logs : docs[m] # "none" => docs'[m] # "none"
    BY <2>1, <2>2 DEF TypeOK
  <2> QED
    BY <1>9, <2>1, <2>3 DEF StoreLog, Grows
<1>10. CASE ParseFails
  BY <1>10 DEF ParseFails, Grows
<1>11. CASE FinishBlock
  BY <1>11 DEF FinishBlock, Grows
<1>12. CASE PersistBatch
  BY <1>12 DEF PersistBatch, Grows
<1> QED
  BY <1>1, <1>2, <1>3, <1>4, <1>5, <1>6, <1>7, <1>8, <1>9, <1>10, <1>11, <1>12
  DEF Next, Process

-----------------------------------------------------------------------------
(* Helpers: faults stay within their bound, and a persisted document is    *)
(* the one given, unless the write had no effect.                          *)
LEMMA ChargeType ==
  ASSUME faults \in 0 .. MaxFaults, NEW bad \in BOOLEAN, Charge(bad)
  PROVE  faults' \in 0 .. MaxFaults
BY BoundsAssumption DEF Charge

LEMMA PersistEffect ==
  ASSUME TypeOK, NEW last \in Nat, NEW latest \in Nat, Persist(last, latest)
  PROVE  /\ faults' \in 0 .. MaxFaults
         /\ \/ state' = state
            \/ state' = [lastProcessedBlock |-> last, currentChainBlock |-> latest]
<1>1. PICK ok \in BOOLEAN, applied \in BOOLEAN :
           /\ Charge(~ok)
           /\ state' = IF applied
                       THEN [lastProcessedBlock |-> last, currentChainBlock |-> latest]
                       ELSE state
  BY DEF Persist
<1>2. faults' \in 0 .. MaxFaults
  BY <1>1, ChargeType DEF TypeOK
<1> QED
  BY <1>1, <1>2

LEMMA StartingBlockType ==
  ASSUME TypeOK, NEW b \in StartingBlocks
  PROVE  b \in Nat
BY ConfigAssumption, BoundsAssumption
DEF StartingBlocks, TypeOK, AtLeast0, EndpointHeads, NoState, Absent

LEMMA EndpointHeadType ==
  ASSUME TypeOK, NEW h \in EndpointHeads
  PROVE  h \in Nat /\ h <= head
BY BoundsAssumption DEF EndpointHeads, AtLeast0, TypeOK

LEMMA LeaveBatchType ==
  ASSUME LeaveBatch
  PROVE  /\ targetBlock' \in Nat /\ blockNumber' \in Nat /\ dated' \in BOOLEAN
         /\ stream' \in Transfers .. Contributions + 1
         /\ pending' \subseteq Logs
         /\ pending' = {}
<1>1. dated' \in BOOLEAN
  BY Zenon DEF LeaveBatch
<1> QED
  BY <1>1 DEF LeaveBatch, Transfers, Contributions

LEMMA InitType == Init => TypeOK
<1> SUFFICES ASSUME Init PROVE TypeOK
  OBVIOUS
<1>1. dated \in BOOLEAN
  BY Zenon DEF Init
<1>2. docs \in [Logs -> DocStates]
  BY DEF Init, DocStates
<1> QED
  BY <1>1, <1>2, BoundsAssumption DEF Init, TypeOK, Transfers, Contributions

LEMMA NextType == TypeOK /\ [Next]_vars => TypeOK'
<1> SUFFICES ASSUME TypeOK, [Next]_vars PROVE TypeOK'
  OBVIOUS
<1> USE DEF vars, envVars, dbVars, walkVars, procVars, obsVars
<1>1. CASE UNCHANGED vars
  BY <1>1 DEF TypeOK
<1>2. CASE Mine
  BY <1>2, BoundsAssumption DEF Mine, TypeOK
<1>3. CASE Crash
  <2>1. faults' \in 0 .. MaxFaults
    BY <1>3, ChargeType DEF Crash, TypeOK
  <2> QED
    BY <1>3, <2>1, LeaveBatchType DEF Crash, TypeOK
<1>4. CASE Start
  <2>1. PICK b \in StartingBlocks :
             /\ lastProcessedBlock' = b
             /\ origin' = IF state = NoState THEN b ELSE origin
    BY <1>4 DEF Start
  <2>2. b \in Nat
    BY StartingBlockType
  <2> QED
    BY <1>4, <2>1, <2>2 DEF Start, TypeOK
<1>5. CASE Poll
  <2>1. PICK h \in EndpointHeads : Charge(h # head) /\ latestBlock' = h
    BY <1>5 DEF Poll
  <2>2. h \in Nat /\ faults' \in 0 .. MaxFaults
    BY <2>1, EndpointHeadType, ChargeType DEF TypeOK
  <2> QED
    BY <1>5, <2>1, <2>2 DEF Poll, TypeOK
<1>6. CASE Refresh
  <2>1. /\ faults' \in 0 .. MaxFaults
        /\ \/ state' = state
           \/ state' = [lastProcessedBlock |-> lastProcessedBlock,
                        currentChainBlock |-> latestBlock]
    BY <1>6, PersistEffect DEF Refresh, TypeOK
  <2>2. state' = NoState \/ state' \in [lastProcessedBlock : Nat, currentChainBlock : Nat]
    BY <2>1 DEF TypeOK
  <2> QED
    BY <1>6, <2>1, <2>2, ConfigAssumption DEF Refresh, TypeOK, LowerOf
<1>7. CASE FetchTimestamp
  <2>1. faults' \in 0 .. MaxFaults /\ dated' \in BOOLEAN
    BY <1>7, ChargeType DEF FetchTimestamp, TypeOK
  <2> QED
    BY <1>7, <2>1 DEF FetchTimestamp, TypeOK, Streams, Transfers, Contributions
<1>8. CASE Fetch
  <2>1. \A b, s : LogsAt(b, s) \subseteq Logs
    BY DEF LogsAt, TypeOK
  <2>2. faults' \in 0 .. MaxFaults
    <3>1. Charge(TRUE) \/ UNCHANGED faults
      BY <1>8 DEF Fetch, FetchLogs, FetchBehind, FetchFails, SkipStream
    <3> QED
      BY <3>1, BoundsAssumption DEF Charge, TypeOK
  <2>3. /\ stream' \in Transfers .. Contributions + 1
        /\ pending' \subseteq Logs
        /\ stream' \notin Streams => pending' = {}
    <3>1. stream \in Streams
      BY <1>8 DEF Fetch, FetchLogs, FetchBehind, FetchFails, SkipStream, AtStream
    <3>2. \/ pending' = {} /\ stream' = stream + 1
          \/ pending' = LogsAt(blockNumber, stream) /\ stream' = stream
          \/ pending' = {} /\ stream' = stream
      BY <1>8 DEF Fetch, FetchLogs, FetchBehind, FetchFails, SkipStream, AfterFetch
    <3>3. LogsAt(blockNumber, stream) \subseteq Logs
      BY <2>1
    <3> QED
      BY <3>1, <3>2, <3>3 DEF Streams, Transfers, Contributions
  <2>4. reported' \subseteq Logs /\ unseen' \subseteq Logs
    BY <1>8, <2>1 DEF Fetch, FetchLogs, FetchBehind, FetchFails, SkipStream, TypeOK
  <2> QED
    BY <1>8, <2>2, <2>3, <2>4
    DEF Fetch, FetchLogs, FetchBehind, FetchFails, SkipStream, AfterFetch, TypeOK
<1>9. CASE StoreLog
  <2>1. PICK l \in pending \ Poison, ok \in BOOLEAN, applied \in BOOLEAN :
             /\ Charge(~ok)
             /\ docs' = IF applied THEN [docs EXCEPT ![l] = DocDate(l.stream)] ELSE docs
             /\ reported' = IF ok THEN reported ELSE reported \cup {l}
             /\ pending' = pending \ {l}
             /\ stream' = IF pending = {l} THEN stream + 1 ELSE stream
    BY <1>9 DEF StoreLog
  <2>2. faults' \in 0 .. MaxFaults
    BY <2>1, ChargeType DEF TypeOK
  <2>3. docs' \in [Logs -> DocStates]
    <3>1. DocDate(l.stream) \in DocStates
      BY DEF DocDate, DocStates
    <3> QED
      BY <2>1, <3>1 DEF TypeOK
  <2>4. /\ stream' \in Transfers .. Contributions + 1
        /\ stream' \notin Streams => pending' = {}
    BY <2>1 DEF TypeOK, Streams, Transfers, Contributions
  <2> QED
    BY <1>9, <2>1, <2>2, <2>3, <2>4 DEF StoreLog, TypeOK
<1>10. CASE ParseFails
  BY <1>10, LeaveBatchType DEF ParseFails, TypeOK
<1>11. CASE FinishBlock
  BY <1>11 DEF FinishBlock, TypeOK
<1>12. CASE PersistBatch
  <2>1. /\ faults' \in 0 .. MaxFaults
        /\ \/ state' = state
           \/ state' = [lastProcessedBlock |-> lastProcessedBlock,
                        currentChainBlock |-> latestBlock]
    BY <1>12, PersistEffect DEF PersistBatch, TypeOK
  <2>2. state' = NoState \/ state' \in [lastProcessedBlock : Nat, currentChainBlock : Nat]
    BY <2>1 DEF TypeOK
  <2> QED
    BY <1>12, <2>1, <2>2, LeaveBatchType DEF PersistBatch, TypeOK
<1> QED
  BY <1>1, <1>2, <1>3, <1>4, <1>5, <1>6, <1>7, <1>8, <1>9, <1>10, <1>11, <1>12
  DEF Next, Process

(* TYPE CORRECTNESS for every configuration.                               *)
THEOREM TypeCorrect == Spec => []TypeOK
BY InitType, NextType, PTL DEF Spec

-----------------------------------------------------------------------------
LEMMA InitInvariant ==
  ASSUME NEW X, Init
  PROVE  IInvBut(X)
<1> QED
  BY InitType DEF Init, IInvBut, WalkOK, StreamsDone, MemoryBacked, DurableBehindMemory,
                  NoGapBut, NeverPastHead, Running

(* The walk stays on existing blocks.                                      *)
LEMMA WalkStep ==
  ASSUME NEW X, IInvBut(X), [Next]_vars
  PROVE  WalkOK'
<1> USE DEF vars, envVars, dbVars, walkVars, procVars, obsVars
<1>0. TypeOK /\ WalkOK
  BY DEF IInvBut
<1>1. CASE UNCHANGED vars
  BY <1>0, <1>1 DEF WalkOK
<1>2. CASE Mine
  BY <1>0, <1>2 DEF Mine, WalkOK, TypeOK
<1>3. CASE Crash
  BY <1>0, <1>3, LeaveBatchType DEF Crash, WalkOK
<1>4. CASE Start
  BY <1>0, <1>4 DEF Start, WalkOK
<1>5. CASE Poll
  BY <1>0, <1>5, EndpointHeadType DEF Poll, WalkOK
<1>6. CASE Refresh
  BY <1>0, <1>6, ConfigAssumption DEF Refresh, WalkOK, TypeOK, LowerOf
<1>7. CASE FetchTimestamp
  BY <1>0, <1>7 DEF FetchTimestamp, WalkOK
<1>8. CASE Fetch
  <2>1. pc' = "logs" /\ pc = "logs"
    BY <1>8 DEF Fetch, FetchLogs, FetchBehind, FetchFails, SkipStream, AfterFetch, AtStream
  <2>2. UNCHANGED <<head, lastProcessedBlock, targetBlock, blockNumber>>
    BY <1>8 DEF Fetch, FetchLogs, FetchBehind, FetchFails, SkipStream, AfterFetch
  <2> QED
    BY <1>0, <2>1, <2>2 DEF WalkOK
<1>9. CASE StoreLog
  BY <1>0, <1>9 DEF StoreLog, WalkOK
<1>10. CASE ParseFails
  BY <1>0, <1>10, LeaveBatchType DEF ParseFails, WalkOK
<1>11. CASE FinishBlock
  BY <1>0, <1>11 DEF FinishBlock, WalkOK, TypeOK
<1>12. CASE PersistBatch
  BY <1>0, <1>12, LeaveBatchType DEF PersistBatch, WalkOK
<1> QED
  BY <1>1, <1>2, <1>3, <1>4, <1>5, <1>6, <1>7, <1>8, <1>9, <1>10, <1>11, <1>12
  DEF Next, Process

(* Within a block, what the walk has left behind is accounted for.         *)
LEMMA StreamsStep ==
  ASSUME NEW X, IInvBut(X), [Next]_vars
  PROVE  StreamsDone(X)'
<1> SUFFICES ASSUME pc' = "logs", blockNumber' \notin X,
                    NEW l \in Logs, Wanted(l)', Behind(l)'
             PROVE  Accounted(l)'
  BY DEF StreamsDone
<1> USE DEF vars, envVars, dbVars, walkVars, procVars, obsVars
<1>0. TypeOK /\ WalkOK /\ StreamsDone(X) /\ Grows
  BY NextGrows DEF IInvBut
<1>1. Wanted(l) /\ (Accounted(l) => Accounted(l)')
  BY <1>0, AccountedStable DEF Grows, Wanted, Ready
<1>2. ASSUME pc = "logs", UNCHANGED <<blockNumber, stream, pending>>
      PROVE  Accounted(l)'
  BY <1>0, <1>1, <1>2 DEF StreamsDone, Behind
<1>3. ASSUME Refresh \/ Start \/ Poll \/ Crash \/ ParseFails \/ PersistBatch \/ FinishBlock
      PROVE  FALSE
  BY <1>3 DEF Refresh, Start, Poll, Crash, ParseFails, PersistBatch, FinishBlock
<1>4. CASE UNCHANGED vars
  BY <1>2, <1>4
<1>5. CASE Mine
  BY <1>2, <1>5 DEF Mine
<1>6. CASE FetchTimestamp
  <2>1. stream' = Transfers /\ pending' = {}
    BY <1>0, <1>6 DEF FetchTimestamp, WalkOK
  <2>2. l.stream \in Streams
    BY LogsAssumption DEF LogType
  <2> QED
    BY <2>1, <2>2 DEF Behind, Streams, Transfers, Contributions
<1>7. CASE Fetch
  <2>1. /\ pc = "logs" /\ stream \in Streams /\ pending = {}
        /\ blockNumber' = blockNumber /\ chain' = chain
    BY <1>7 DEF Fetch, FetchLogs, FetchBehind, FetchFails, SkipStream, AfterFetch, AtStream
  <2>2. l.stream \in Streams /\ l.block = blockNumber
    BY <2>1, LogsAssumption DEF LogType, Behind
  <2>3. CASE l.stream < stream
    BY <1>0, <1>1, <2>1, <2>2, <2>3 DEF StreamsDone, Behind
  <2>4. CASE l.stream = stream
    <3>1. l \in LogsAt(blockNumber, stream) /\ Ready(stream, blockNumber)
      BY <1>1, <2>2, <2>4 DEF LogsAt, Wanted
    <3>2. CASE FetchLogs
      <4>1. pending' = LogsAt(blockNumber, stream) /\ pending' # {} /\ stream' = stream
        BY <3>1, <3>2 DEF FetchLogs, AfterFetch
      <4> QED
        BY <3>1, <4>1, <2>4, <2>1 DEF Behind, Streams, Transfers, Contributions
    <3>3. CASE FetchBehind
      BY <3>1, <3>3 DEF FetchBehind, Accounted
    <3>4. CASE FetchFails
      BY <3>1, <3>4 DEF FetchFails, Accounted
    <3>5. CASE SkipStream
      BY <3>1, <3>5 DEF SkipStream
    <3> QED
      BY <1>7, <3>2, <3>3, <3>4, <3>5 DEF Fetch
  <2>5. CASE l.stream > stream
    <3>1. stream' = stream \/ (stream' = stream + 1 /\ pending' = {})
      BY <1>7 DEF Fetch, FetchLogs, FetchBehind, FetchFails, SkipStream, AfterFetch
    <3> QED
      BY <3>1, <2>1, <2>2, <2>5 DEF Behind, Streams, Transfers, Contributions
  <2> QED
    BY <2>1, <2>2, <2>3, <2>4, <2>5 DEF Streams, Transfers, Contributions
<1>8. CASE StoreLog
  <2>1. PICK k \in pending \ Poison, ok \in BOOLEAN, applied \in BOOLEAN :
             /\ ok => applied
             /\ docs' = IF applied THEN [docs EXCEPT ![k] = DocDate(k.stream)] ELSE docs
             /\ reported' = IF ok THEN reported ELSE reported \cup {k}
             /\ pending' = pending \ {k}
             /\ stream' = IF pending = {k} THEN stream + 1 ELSE stream
    BY <1>8 DEF StoreLog
  <2>2. pc = "logs" /\ blockNumber' = blockNumber /\ stream \in Streams
    BY <1>8, <2>1, <1>0 DEF StoreLog, TypeOK
  <2>3. Accounted(k)'
    <3>1. k \in Logs
      BY <1>0 DEF TypeOK
    <3>2. DocDate(k.stream) # "none"
      BY DEF DocDate
    <3>3. CASE ok
      BY <2>1, <3>1, <3>2, <3>3, <1>0 DEF Accounted, TypeOK
    <3>4. CASE ~ok
      BY <2>1, <3>4 DEF Accounted
    <3> QED
      BY <3>3, <3>4
  <2>4. l = k \/ Behind(l)
    BY <2>1, <2>2, LogsAssumption DEF Behind, LogType, Streams, Transfers, Contributions
  <2> QED
    BY <1>0, <1>1, <2>2, <2>3, <2>4 DEF StreamsDone
<1> QED
  BY <1>3, <1>4, <1>5, <1>6, <1>7, <1>8 DEF Next, Process

(* The cursor in memory moves over accounted blocks only.                  *)
LEMMA MemoryStep ==
  ASSUME NEW X, IInvBut(X), [Next]_vars
  PROVE  MemoryBacked(X)'
<1> SUFFICES ASSUME Running'
             PROVE  /\ (origin <= lastProcessedBlock)'
                    /\ (\A b \in (origin + 1 .. lastProcessedBlock) \ X : AccountedBlock(b))'
  BY DEF MemoryBacked
<1> USE DEF vars, envVars, dbVars, walkVars, procVars, obsVars
<1>0. TypeOK /\ TypeOK' /\ MemoryBacked(X) /\ Grows
  BY NextGrows, NextType DEF IInvBut
<1>1. ASSUME Running, UNCHANGED <<origin, lastProcessedBlock>>
      PROVE  /\ (origin <= lastProcessedBlock)'
             /\ (\A b \in (origin + 1 .. lastProcessedBlock) \ X : AccountedBlock(b))'
  BY <1>0, <1>1, BlocksStable DEF MemoryBacked
<1>2. CASE Start
  <2>1. CASE state = NoState
    <3>1. origin' = lastProcessedBlock' /\ origin' \in Nat
      BY <1>0, <1>2, <2>1 DEF Start, TypeOK
    <3>2. \A i \in Nat : i <= i /\ i + 1 .. i = {}
      OBVIOUS
    <3>3. origin' <= lastProcessedBlock' /\ origin' + 1 .. lastProcessedBlock' = {}
      BY <3>1, <3>2
    <3> QED
      BY <3>3
  <2>2. CASE state # NoState
    <3>1. lastProcessedBlock' = state.lastProcessedBlock /\ origin' = origin
      BY <1>2, <2>2 DEF Start, StartingBlocks
    <3>2. origin <= state.lastProcessedBlock
      BY <2>2 DEF IInvBut, DurableBehindMemory
    <3>3. \A b \in (origin + 1 .. state.lastProcessedBlock) \ X : AccountedBlock(b)
      BY <2>2 DEF IInvBut, NoGapBut
    <3> QED
      BY <1>0, <3>1, <3>2, <3>3, BlocksStable
  <2> QED
    BY <2>1, <2>2
<1>3. CASE FinishBlock
  <2>1. /\ pc = "logs" /\ Running /\ stream \notin Streams
        /\ origin' = origin /\ lastProcessedBlock' = blockNumber
    BY <1>3 DEF FinishBlock, Running
  <2>2. blockNumber = lastProcessedBlock + 1
    BY <2>1 DEF IInvBut, WalkOK
  <2>3. blockNumber \notin X => AccountedBlock(blockNumber)
    <3>1. \A l \in Logs : l.stream < stream
      BY <1>0, <2>1, LogsAssumption
      DEF TypeOK, LogType, Streams, Transfers, Contributions
    <3>2. blockNumber \notin X =>
            \A l \in Logs : Wanted(l) /\ l.block = blockNumber => Accounted(l)
      BY <2>1, <3>1 DEF IInvBut, StreamsDone, Behind
    <3> QED
      BY <3>2 DEF AccountedBlock
  <2>4. \A b \in (origin + 1 .. blockNumber) \ X : AccountedBlock(b)
    BY <1>0, <2>1, <2>2, <2>3 DEF MemoryBacked, TypeOK
  <2> QED
    BY <1>0, <2>1, <2>2, <2>4, BlocksStable DEF MemoryBacked, TypeOK
<1>4. CASE Crash
  BY <1>4 DEF Crash, Running
<1>5. CASE UNCHANGED vars
  BY <1>1, <1>5 DEF Running
<1>6. CASE Mine
  BY <1>1, <1>6 DEF Mine, Running
<1>7. CASE Poll \/ Refresh \/ FetchTimestamp \/ StoreLog \/ ParseFails \/ PersistBatch
  BY <1>1, <1>7 DEF Poll, Refresh, FetchTimestamp, StoreLog, ParseFails, PersistBatch, Running
<1>8. CASE Fetch
  BY <1>1, <1>8 DEF Fetch, FetchLogs, FetchBehind, FetchFails, SkipStream, AfterFetch,
                    AtStream, Running
<1> QED
  BY <1>2, <1>3, <1>4, <1>5, <1>6, <1>7, <1>8 DEF Next, Process

(* The persisted cursor changes in two places, and there it takes the      *)
(* value of the cursor in memory.                                          *)
LEMMA CursorStep ==
  ASSUME NEW X, IInvBut(X), [Next]_vars
  PROVE  \/ state' = state
         \/ /\ Running /\ Running'
            /\ state' # NoState
            /\ state'.lastProcessedBlock = lastProcessedBlock
            /\ lastProcessedBlock' = lastProcessedBlock
            /\ origin' = origin
<1> USE DEF vars, envVars, dbVars, walkVars, procVars, obsVars
<1>0. TypeOK
  BY DEF IInvBut
<1>1. CASE Refresh
  <2>1. \/ state' = state
        \/ state' = [lastProcessedBlock |-> lastProcessedBlock,
                     currentChainBlock |-> latestBlock]
    BY <1>0, <1>1, PersistEffect DEF Refresh, TypeOK
  <2> QED
    BY <1>0, <1>1, <2>1 DEF Refresh, Running, NoState, TypeOK
<1>2. CASE PersistBatch
  <2>1. \/ state' = state
        \/ state' = [lastProcessedBlock |-> lastProcessedBlock,
                     currentChainBlock |-> latestBlock]
    BY <1>0, <1>2, PersistEffect DEF PersistBatch, TypeOK
  <2> QED
    BY <1>0, <1>2, <2>1 DEF PersistBatch, Running, NoState, TypeOK
<1>3. CASE Mine \/ Crash \/ Start \/ Poll \/ FetchTimestamp \/ StoreLog \/ ParseFails
           \/ FinishBlock \/ UNCHANGED vars
  BY <1>3 DEF Mine, Crash, Start, Poll, FetchTimestamp, StoreLog, ParseFails, FinishBlock
<1>4. CASE Fetch
  BY <1>4 DEF Fetch, FetchLogs, FetchBehind, FetchFails, SkipStream, AfterFetch
<1> QED
  BY <1>1, <1>2, <1>3, <1>4 DEF Next, Process

LEMMA NeverPastHeadStep ==
  ASSUME NEW X, IInvBut(X), [Next]_vars
  PROVE  NeverPastHead'
<1> USE DEF vars, envVars, dbVars, walkVars, procVars, obsVars
<1>0. TypeOK /\ TypeOK' /\ NeverPastHead
  BY NextType DEF IInvBut
<1>1. ASSUME UNCHANGED <<lastProcessedBlock, origin>>, head <= head'
      PROVE  NeverPastHead'
  BY <1>0, <1>1 DEF NeverPastHead, TypeOK
<1>2. CASE Start
  <2>1. CASE state = NoState
    <3>1. origin' = lastProcessedBlock' /\ lastProcessedBlock' \in Nat
      BY <1>0, <1>2, <2>1, StartingBlockType DEF Start
    <3> QED
      BY <3>1 DEF NeverPastHead
  <2>2. CASE state # NoState
    <3>1. lastProcessedBlock' = state.lastProcessedBlock /\ origin' = origin /\ head' = head
      BY <1>2, <2>2 DEF Start, StartingBlocks
    <3> QED
      BY <2>2, <3>1 DEF IInvBut, DurableBehindMemory, NeverPastHead
  <2> QED
    BY <2>1, <2>2
<1>3. CASE FinishBlock
  <2>1. lastProcessedBlock' = blockNumber /\ head' = head /\ pc = "logs"
    BY <1>3 DEF FinishBlock
  <2>2. blockNumber <= head
    BY <1>0, <2>1 DEF IInvBut, WalkOK, TypeOK
  <2> QED
    BY <2>1, <2>2 DEF NeverPastHead
<1>4. CASE Crash
  BY <1>0, <1>4, BoundsAssumption DEF Crash, NeverPastHead, TypeOK
<1>5. CASE UNCHANGED vars
  BY <1>0, <1>1, <1>5 DEF TypeOK
<1>6. CASE Mine
  BY <1>0, <1>1, <1>6 DEF Mine, TypeOK
<1>7. CASE Poll \/ Refresh \/ FetchTimestamp \/ StoreLog \/ ParseFails \/ PersistBatch
  BY <1>0, <1>1, <1>7
  DEF Poll, Refresh, FetchTimestamp, StoreLog, ParseFails, PersistBatch, TypeOK
<1>8. CASE Fetch
  <2>1. UNCHANGED <<head, lastProcessedBlock, origin>>
    BY <1>8 DEF Fetch, FetchLogs, FetchBehind, FetchFails, SkipStream, AfterFetch
  <2> QED
    BY <1>0, <1>1, <2>1 DEF TypeOK
<1> QED
  BY <1>2, <1>3, <1>4, <1>5, <1>6, <1>7, <1>8 DEF Next, Process

(* While a cursor is persisted, a step keeps the start of the walk, the    *)
(* head never falls, and the cursor in memory only rises or dies.          *)
LEMMA MemoryRises ==
  ASSUME NEW X, IInvBut(X), [Next]_vars, state # NoState
  PROVE  /\ origin' = origin
         /\ head <= head'
         /\ Running' => state.lastProcessedBlock <= lastProcessedBlock'
<1> USE DEF vars, envVars, dbVars, walkVars, procVars, obsVars
<1>0. TypeOK /\ DurableBehindMemory /\ WalkOK
  BY DEF IInvBut
<1>1. ASSUME UNCHANGED <<head, origin, lastProcessedBlock>>, Running' => Running
      PROVE  /\ origin' = origin
             /\ head <= head'
             /\ Running' => state.lastProcessedBlock <= lastProcessedBlock'
  BY <1>0, <1>1 DEF DurableBehindMemory, TypeOK
<1>2. CASE Start
  BY <1>0, <1>2 DEF Start, StartingBlocks, TypeOK
<1>3. CASE FinishBlock
  <2>1. /\ lastProcessedBlock' = blockNumber /\ UNCHANGED <<head, origin>>
        /\ pc = "logs" /\ Running
    BY <1>3 DEF FinishBlock, Running
  <2>2. blockNumber = lastProcessedBlock + 1
    BY <1>0, <2>1 DEF WalkOK
  <2> QED
    BY <1>0, <2>1, <2>2 DEF DurableBehindMemory, TypeOK
<1>4. CASE Crash
  BY <1>0, <1>4 DEF Crash, Running, TypeOK
<1>5. CASE Mine
  BY <1>0, <1>5 DEF Mine, Running, DurableBehindMemory, TypeOK
<1>6. CASE Poll \/ Refresh \/ FetchTimestamp \/ StoreLog \/ ParseFails \/ PersistBatch
           \/ UNCHANGED vars
  BY <1>1, <1>6
  DEF Poll, Refresh, FetchTimestamp, StoreLog, ParseFails, PersistBatch, Running
<1>7. CASE Fetch
  BY <1>1, <1>7 DEF Fetch, FetchLogs, FetchBehind, FetchFails, SkipStream, AfterFetch,
                    AtStream, Running
<1> QED
  BY <1>2, <1>3, <1>4, <1>5, <1>6, <1>7 DEF Next, Process

LEMMA DurableStep ==
  ASSUME NEW X, IInvBut(X), [Next]_vars
  PROVE  DurableBehindMemory' /\ NoGapBut(X)'
<1> SUFFICES ASSUME state' # NoState
             PROVE  /\ (origin <= state.lastProcessedBlock)'
                    /\ (Running => state.lastProcessedBlock <= lastProcessedBlock)'
                    /\ (\/ state.lastProcessedBlock <= head
                        \/ state.lastProcessedBlock <= origin)'
                    /\ (\A b \in (origin + 1 .. state.lastProcessedBlock) \ X : AccountedBlock(b))'
  BY DEF DurableBehindMemory, NoGapBut
<1>0. TypeOK /\ TypeOK' /\ Grows /\ MemoryBacked(X)' /\ NeverPastHead'
  BY NextGrows, NextType, MemoryStep, NeverPastHeadStep DEF IInvBut
<1>1. CASE state' = state
  <2>1. state # NoState
    BY <1>1
  <2>2. /\ origin' = origin /\ head <= head'
        /\ Running' => state.lastProcessedBlock <= lastProcessedBlock'
    BY <2>1, MemoryRises
  <2>3. /\ origin <= state.lastProcessedBlock
        /\ state.lastProcessedBlock <= head \/ state.lastProcessedBlock <= origin
        /\ \A b \in (origin + 1 .. state.lastProcessedBlock) \ X : AccountedBlock(b)
    BY <2>1 DEF IInvBut, DurableBehindMemory, NoGapBut
  <2>4. (\A b \in (origin + 1 .. state.lastProcessedBlock) \ X : AccountedBlock(b))'
    BY <1>0, <1>1, <2>2, <2>3, BlocksStable
  <2>5. state.lastProcessedBlock <= head' \/ state.lastProcessedBlock <= origin
    BY <1>0, <2>1, <2>2, <2>3 DEF TypeOK
  <2> QED
    BY <1>1, <2>2, <2>3, <2>4, <2>5
<1>2. CASE /\ Running /\ Running'
           /\ state'.lastProcessedBlock = lastProcessedBlock
           /\ lastProcessedBlock' = lastProcessedBlock
  <2>1. state'.lastProcessedBlock = lastProcessedBlock'
    BY <1>2
  <2>2. /\ origin' <= lastProcessedBlock'
        /\ \A b \in (origin' + 1 .. lastProcessedBlock') \ X : AccountedBlock(b)'
    BY <1>0, <1>2 DEF MemoryBacked
  <2>3. /\ origin' <= state'.lastProcessedBlock
        /\ \A b \in (origin' + 1 .. state'.lastProcessedBlock) \ X : AccountedBlock(b)'
    BY <2>1, <2>2
  <2>4. \/ state'.lastProcessedBlock <= head'
        \/ state'.lastProcessedBlock <= origin'
    BY <1>0, <2>1 DEF NeverPastHead
  <2>5. state'.lastProcessedBlock <= lastProcessedBlock'
    BY <1>0, <2>1 DEF TypeOK
  <2> QED
    BY <2>3, <2>4, <2>5
<1> QED
  BY <1>1, <1>2, CursorStep

LEMMA InductiveStep ==
  ASSUME NEW X, IInvBut(X), [Next]_vars
  PROVE  IInvBut(X)'
BY NextType, WalkStep, StreamsStep, MemoryStep, DurableStep, NeverPastHeadStep DEF IInvBut

THEOREM Invariance == Spec => []IInv
<1>1. Init => IInv
  BY InitInvariant DEF IInv
<1>2. IInv /\ [Next]_vars => IInv'
  BY InductiveStep DEF IInv
<1> QED
  BY <1>1, <1>2, PTL DEF Spec

LEMMA NothingLeftOut == NoGapBut({}) <=> NoGap
BY DEF NoGapBut, NoGap

(* NO UNEXPLAINED GAP: whatever dies or fails, every wanted log between    *)
(* the start of the walk and the persisted cursor is stored, was given up  *)
(* with an error in the log, or was missed by an endpoint behind it.       *)
THEOREM ListenerNoGap == Spec => []NoGap
<1>1. IInv => NoGap
  BY NothingLeftOut DEF IInv, IInvBut
<1> QED
  BY <1>1, Invariance, PTL

(* The cursor is never past the head of the chain, unless START_BLOCK is.  *)
THEOREM ListenerNeverPastHead == Spec => []NeverPastHead
BY Invariance, PTL DEF IInv, IInvBut

(* THE CURSOR NEVER GOES BACK, although its upsert has no guard.           *)
THEOREM ListenerCursorMonotone == Spec => CursorMonotone
<1>1. IInv /\ [Next]_vars =>
        [state # NoState =>
           /\ state' # NoState
           /\ state'.lastProcessedBlock >= state.lastProcessedBlock]_state
  <2> SUFFICES ASSUME IInv, [Next]_vars, state # NoState, state' # state
               PROVE  /\ state' # NoState
                      /\ state'.lastProcessedBlock >= state.lastProcessedBlock
    OBVIOUS
  <2>1. /\ Running /\ state' # NoState
        /\ state'.lastProcessedBlock = lastProcessedBlock
    BY CursorStep DEF IInv
  <2>2. state.lastProcessedBlock <= lastProcessedBlock
    BY <2>1 DEF IInv, IInvBut, DurableBehindMemory
  <2> QED
    BY <2>1, <2>2 DEF IInv, IInvBut, TypeOK
<1> QED
  BY <1>1, Invariance, PTL DEF Spec, CursorMonotone

-----------------------------------------------------------------------------
(* The refinement.  A step of the listener writes the cursor, or decides   *)
(* where to start while there is none, or works on the logs; it never does *)
(* two of these at once.                                                   *)
LEMMA OneThingAtATime ==
  ASSUME IInv, [Next]_vars
  PROVE  \/ UNCHANGED <<state, origin>>
         \/ /\ UNCHANGED <<chain, docs, reported, unseen>>
            /\ state' = state \/ origin' = origin
            /\ origin' # origin => state = NoState
<1> USE DEF vars, envVars, dbVars, walkVars, procVars, obsVars
<1>1. CASE Start
  BY <1>1 DEF Start
<1>2. CASE Refresh \/ PersistBatch
  BY <1>2 DEF Refresh, PersistBatch
<1>3. CASE Mine \/ Crash \/ Poll \/ FetchTimestamp \/ StoreLog \/ ParseFails
           \/ FinishBlock \/ UNCHANGED vars
  BY <1>3 DEF Mine, Crash, Poll, FetchTimestamp, StoreLog, ParseFails, FinishBlock
<1>4. CASE Fetch
  BY <1>4 DEF Fetch, FetchLogs, FetchBehind, FetchFails, SkipStream, AfterFetch
<1> QED
  BY <1>1, <1>2, <1>3, <1>4 DEF Next, Process

LEMMA SettledGrows ==
  ASSUME IInv, [Next]_vars
  PROVE  /\ Settled \subseteq Settled'
         /\ UNCHANGED <<chain, docs, reported, unseen>> => Settled' = Settled
<1>1. Grows
  BY NextGrows DEF IInv, IInvBut
<1>2. Settled \subseteq Settled'
  BY <1>1, BlocksStable DEF Settled
<1>3. ASSUME UNCHANGED <<chain, docs, reported, unseen>>
      PROVE  Settled' = Settled
  BY <1>3 DEF Settled, AccountedBlock, Wanted, Accounted, Ready
<1> QED
  BY <1>2, <1>3

LEMMA LedgerStep == IInv /\ IInv' /\ [Next]_vars => [Ledger!Next]_(Ledger!vars)
<1> SUFFICES ASSUME IInv, IInv', [Next]_vars PROVE [Ledger!Next]_(Ledger!vars)
  OBVIOUS
<1> USE DEF Ledger!vars, Ledger!Next
<1>1. CASE UNCHANGED <<state, origin>>
  <2>1. Ledger!Settle
    BY <1>1, SettledGrows DEF Ledger!Settle
  <2> QED
    BY <2>1
<1>2. CASE /\ UNCHANGED <<chain, docs, reported, unseen>>
           /\ state' = state
           /\ origin' # origin => state = NoState
  <2>1. Settled' = Settled
    BY <1>2, SettledGrows
  <2>2. CASE origin' = origin
    BY <1>2, <2>1, <2>2
  <2>3. CASE origin' # origin
    <3>1. Ledger!ChooseBase
      BY <1>2, <2>1, <2>3 DEF Ledger!ChooseBase, Ledger!NoCursor, NoState, IInv, IInvBut, TypeOK
    <3> QED
      BY <3>1
  <2> QED
    BY <2>2, <2>3
<1>3. CASE /\ UNCHANGED <<chain, docs, reported, unseen>>
           /\ origin' = origin
           /\ state' # state
  <2>1. Settled' = Settled
    BY <1>3, SettledGrows
  <2>2. state' # NoState /\ state'.lastProcessedBlock = lastProcessedBlock /\ Running
    BY <1>3, CursorStep DEF IInv
  <2>3. state'.lastProcessedBlock \in Nat /\ origin' <= state'.lastProcessedBlock
    BY <2>2 DEF IInv, IInvBut, TypeOK, DurableBehindMemory
  <2>4. state.lastProcessedBlock <= state'.lastProcessedBlock
    <3>1. CASE state = NoState
      BY <2>3, <3>1 DEF NoState
    <3>2. CASE state # NoState
      BY <2>2, <3>2 DEF IInv, IInvBut, DurableBehindMemory
    <3> QED
      BY <3>1, <3>2
  <2>5. \A b \in origin' + 1 .. state'.lastProcessedBlock : b \in Settled'
    <3>1. \A b \in origin' + 1 .. state'.lastProcessedBlock : AccountedBlock(b)'
      BY <2>2 DEF IInv, IInvBut, NoGapBut
    <3>2. /\ \/ state'.lastProcessedBlock <= head'
             \/ state'.lastProcessedBlock <= origin'
          /\ head' \in Nat /\ head' <= MaxBlock /\ origin' \in Nat
      BY <2>2, BoundsAssumption DEF IInv, IInvBut, DurableBehindMemory, TypeOK
    <3>3. \A b \in origin' + 1 .. state'.lastProcessedBlock : b \in 0 .. MaxBlock
      <4>1. \A o, c, h, m \in Nat : h <= m /\ (c <= h \/ c <= o) =>
              \A b \in o + 1 .. c : b \in 0 .. m
        OBVIOUS
      <4> QED
        BY <2>3, <3>2, <4>1, BoundsAssumption
    <3> QED
      BY <3>1, <3>3 DEF Settled
  <2>6. Ledger!Checkpoint
    BY <1>3, <2>1, <2>3, <2>4, <2>5 DEF Ledger!Checkpoint
  <2> QED
    BY <2>6
<1> QED
  BY <1>1, <1>2, <1>3, OneThingAtATime

(* REFINEMENT: the document of the state collection is the cursor of an    *)
(* IndexLedger.                                                            *)
THEOREM ListenerImplementsLedger == Spec => ImplementsLedger
<1>1. Init => Ledger!Init
  <2> SUFFICES ASSUME Init PROVE Ledger!Init
    OBVIOUS
  <2>1. Settled \subseteq Nat
    BY BoundsAssumption DEF Settled
  <2> QED
    BY <2>1 DEF Init, Ledger!Init, Ledger!NoCursor, NoState
<1> QED
  BY <1>1, LedgerStep, Invariance, PTL DEF Spec, ImplementsLedger, Ledger!Spec

-----------------------------------------------------------------------------
(* A reorganization.  The blocks whose logs are replaced are exposed, or   *)
(* nobody knows of them yet.  Everything else is as without one.           *)
ReorgInv == IInvBut(exposed)

(* Reach is the furthest of what the listener knows of.                    *)
LEMMA ReachIsFurthest ==
  ASSUME TypeOK
  PROVE  /\ Reach \in Int
         /\ lastProcessedBlock <= Reach /\ blockNumber <= Reach
         /\ state.lastProcessedBlock <= Reach
<1> DEFINE Known == {lastProcessedBlock, blockNumber, state.lastProcessedBlock}
<1>1. Known \subseteq Int
  BY DEF TypeOK, NoState
<1>2. \E b \in Known : \A c \in Known : c <= b
  <2>1. \A x, y, z \in Int : \E b \in {x, y, z} : \A c \in {x, y, z} : c <= b
    OBVIOUS
  <2> QED
    BY <1>1, <2>1
<1>3. Reach \in Known /\ \A c \in Known : c <= Reach
  <2> HIDE DEF Known
  <2>1. Reach = CHOOSE b \in Known : \A c \in Known : c <= b
    BY DEF Reach, Known
  <2> QED
    BY <1>2, <2>1
<1> QED
  BY <1>1, <1>3

(* A block below the branch point keeps its logs.                          *)
LEMMA BelowTheBranch ==
  ASSUME Reorg, NEW b, NEW c \in Nat, c < b,
         b \in 1 .. head,
         chain' = {l \in chain : l.block < b} \cup {l \in Logs : l.fork = 1 /\ l.block >= b}
  PROVE  /\ \A l \in Logs : l.block = c => (Wanted(l)' <=> Wanted(l)) /\ (Accounted(l)' <=> Accounted(l))
         /\ AccountedBlock(c) => AccountedBlock(c)'
<1>1. \A l \in Logs : l.block = c => (l \in chain' <=> l \in chain)
  OBVIOUS
<1>2. UNCHANGED <<docs, reported, unseen>>
  BY DEF Reorg, dbVars, obsVars
<1>3. \A l \in Logs : l.block = c => (Wanted(l)' <=> Wanted(l)) /\ (Accounted(l)' <=> Accounted(l))
  BY <1>1, <1>2 DEF Wanted, Accounted, Ready
<1> QED
  BY <1>3 DEF AccountedBlock

(* The replacement of logs itself keeps the invariant, as it exposes all   *)
(* known blocks from the branch point on.                                  *)
LEMMA ReorgKeeps ==
  ASSUME ReorgInv, ~ reorged => exposed = {}, Reorg
  PROVE  ReorgInv'
<1> USE DEF envVars, dbVars, walkVars, procVars, obsVars
<1>1. PICK b \in 1 .. head :
           /\ chain' = {l \in chain : l.block < b}
                         \cup {l \in Logs : l.fork = 1 /\ l.block >= b}
           /\ exposed' = b .. Reach
  BY DEF Reorg
<1>2. /\ exposed = {}
      /\ UNCHANGED <<head, state, docs, pc, lastProcessedBlock, latestBlock, targetBlock,
                     blockNumber, dated, stream, pending, reported, unseen, origin, faults>>
  BY DEF Reorg
<1>3. /\ TypeOK /\ WalkOK /\ StreamsDone({}) /\ MemoryBacked({})
      /\ DurableBehindMemory /\ NoGapBut({}) /\ NeverPastHead
  BY <1>2 DEF ReorgInv, IInvBut
<1>4. /\ lastProcessedBlock <= Reach /\ blockNumber <= Reach
      /\ state # NoState => state.lastProcessedBlock <= Reach
  BY <1>3, ReachIsFurthest
<1>5. Reach \in Int
  BY <1>3, ReachIsFurthest
<1>6. \A c \in Nat : c <= Reach /\ c \notin exposed' => c < b
  BY <1>1, <1>5
<1>7. TypeOK'
  BY <1>1, <1>2, <1>3 DEF TypeOK
<1>8. WalkOK' /\ DurableBehindMemory' /\ NeverPastHead'
  BY <1>2, <1>3 DEF WalkOK, DurableBehindMemory, NeverPastHead, Running
<1>9. StreamsDone(exposed)'
  <2> SUFFICES ASSUME pc = "logs", blockNumber \notin exposed',
                      NEW l \in Logs, Wanted(l)', Behind(l)'
               PROVE  Accounted(l)'
    BY <1>2 DEF StreamsDone
  <2>1. Behind(l) /\ l.block = blockNumber
    BY <1>2 DEF Behind
  <2>2. blockNumber \in Nat /\ blockNumber < b
    BY <1>3, <1>4, <1>6 DEF TypeOK
  <2>3. Wanted(l) /\ (Accounted(l)' <=> Accounted(l))
    BY <1>1, <2>1, <2>2, BelowTheBranch
  <2> QED
    BY <1>3, <2>1, <2>3 DEF StreamsDone
<1>10. MemoryBacked(exposed)'
  <2> SUFFICES ASSUME Running
               PROVE  /\ origin <= lastProcessedBlock
                      /\ \A c \in (origin + 1 .. lastProcessedBlock) \ exposed' : AccountedBlock(c)'
    BY <1>2 DEF MemoryBacked, Running
  <2>1. SUFFICES ASSUME NEW c \in origin + 1 .. lastProcessedBlock, c \notin exposed'
                 PROVE  AccountedBlock(c)'
    BY <1>3 DEF MemoryBacked
  <2>2. c \in Nat /\ c < b
    BY <1>3, <1>4, <1>5, <1>6, <2>1 DEF TypeOK
  <2>3. AccountedBlock(c)
    BY <1>3, <2>1 DEF MemoryBacked
  <2> QED
    BY <1>1, <2>2, <2>3, BelowTheBranch
<1>11. NoGapBut(exposed)'
  <2> SUFFICES ASSUME state # NoState,
                      NEW c \in origin + 1 .. state.lastProcessedBlock, c \notin exposed'
               PROVE  AccountedBlock(c)'
    BY <1>2 DEF NoGapBut
  <2>1. c \in Nat /\ c < b
    BY <1>3, <1>4, <1>5, <1>6 DEF TypeOK
  <2>2. AccountedBlock(c)
    BY <1>3 DEF NoGapBut
  <2> QED
    BY <1>1, <2>1, <2>2, BelowTheBranch
<1> QED
  BY <1>7, <1>8, <1>9, <1>10, <1>11 DEF ReorgInv, IInvBut

(* So does every step of the listener, on the branch there is.             *)
LEMMA BranchKeeps ==
  ASSUME ReorgInv, [Next]_vars, UNCHANGED exposed
  PROVE  ReorgInv'
<1>1. PICK X : X = exposed
  OBVIOUS
<1>2. IInvBut(X)
  BY <1>1 DEF ReorgInv, IInvBut, StreamsDone, MemoryBacked, NoGapBut
<1>3. IInvBut(X)'
  BY <1>2, InductiveStep
<1>4. exposed' = X
  BY <1>1
<1> QED
  BY <1>3, <1>4 DEF ReorgInv, IInvBut, StreamsDone, MemoryBacked, NoGapBut

(* DAMAGE IS CONFINED, wherever and whenever the chain reorganises: below  *)
(* the cursor only blocks that the listener had begun by then may lack     *)
(* logs of the canonical branch without an explanation.                    *)
THEOREM ReorgDamageConfined == SpecR => []GapOnlyWhereExposed
<1> DEFINE Inv == ReorgInv /\ (~ reorged => exposed = {})
<1>1. InitR => Inv
  <2> SUFFICES ASSUME InitR PROVE Inv
    OBVIOUS
  <2>1. exposed = {} /\ IInvBut({})
    BY InitInvariant DEF InitR
  <2> QED
    BY <2>1 DEF ReorgInv, IInvBut, StreamsDone, MemoryBacked, NoGapBut
<1>2. Inv /\ [NextR]_reorgVars => Inv'
  <2> SUFFICES ASSUME Inv, [NextR]_reorgVars PROVE Inv'
    OBVIOUS
  <2>1. CASE Reorg
    BY <2>1, ReorgKeeps DEF Reorg
  <2>2. CASE [Next]_vars /\ UNCHANGED <<reorged, exposed>>
    BY <2>2, BranchKeeps
  <2> QED
    BY <2>1, <2>2 DEF NextR, OnBranch, reorgVars
<1>3. Inv => GapOnlyWhereExposed
  BY DEF ReorgInv, IInvBut, NoGapBut, GapOnlyWhereExposed
<1> QED
  BY <1>1, <1>2, <1>3, PTL DEF SpecR
=============================================================================
