------------------------------ MODULE Backfill ------------------------------
(***************************************************************************)
(* runBackfill: the logs of a chain from its deploy block to the head,     *)
(* stored in the collections of db/mongo.ts.                               *)
(*                                                                         *)
(* A run goes through the kinds of events in their order and through the   *)
(* blocks batch by batch.  Whatever fails on the way is reported in the    *)
(* log of the process and left out, and the run goes on.  Only a log that  *)
(* cannot be parsed, the head and the connection end it.  Each run is a    *)
(* process of its own, which may be killed and started again, and several  *)
(* may be under way.  Only transfers have a unique index.                  *)
(***************************************************************************)
EXTENDS Integers, Sequences

CONSTANTS
  Runs,           \* the processes that fill the collections
  ChainLogs,      \* the logs of the chain, see LogType
  DeployBlock,    \* of the token
  UtilityBlocks,  \* utility contracts that are configured: kind -> deploy block
  BackfillHeads,  \* what getBlockNumber may answer
  BatchSize,      \* INDEXER_BATCH_SIZE
  MaxFaults       \* bound: calls given up, and processes killed

Kinds == <<"transfer", "staking", "poi", "contribution">>

NoBlockOfItsOwn == -1   \* deployBlock of a utility contract is not set

LogType == [id : Nat, kind : {Kinds[i] : i \in DOMAIN Kinds}, block : Nat, malformed : BOOLEAN]

ASSUME BackfillAssumption ==
  /\ ChainLogs \subseteq LogType
  /\ \A l, m \in ChainLogs : l.id = m.id => l = m
  /\ DeployBlock \in Nat
  /\ DOMAIN UtilityBlocks \subseteq {"staking", "poi", "contribution"}
  /\ \A k \in DOMAIN UtilityBlocks : UtilityBlocks[k] \in Nat \cup {NoBlockOfItsOwn}
  /\ BackfillHeads \subseteq Nat
  /\ BatchSize \in Nat \ {0}
  /\ MaxFaults \in Nat

VARIABLES
  runPc,       \* where each run is
  latest,      \* the head it has seen
  kindNo,      \* the kind it is at
  start,       \* the first block of its next batch
  pending,     \* the logs of its batch it has still to store
  current,     \* the one it is at
  blockTimes,  \* its cache of timestamps: block -> whether it was got
  transfersCollection,   \* its transfersCollectionPromise
  documents,   \* the collections: a document holds a log, the run that inserted
               \* it, and whether it has the time of its block
  \* observation
  reported,    \* logs the run has reported as lost
  together,    \* two runs have been under way at a time
  faults

scan         == <<latest, kindNo, start, pending, current>>
memory       == <<blockTimes, transfersCollection>>
observed     == <<reported, together>>
BackfillVars == <<runPc, scan, memory, documents, observed, faults>>

NoLog == [kind |-> "none"]

Active(r) == runPc[r] \notin {"idle", "done", "failed"}

-----------------------------------------------------------------------------
(* resolveTarget: the first block to look at, or none.                     *)
Configured(k) == k = "transfer" \/ k \in DOMAIN UtilityBlocks

FirstBlock(k) == IF k = "transfer" \/ UtilityBlocks[k] = NoBlockOfItsOwn
                 THEN DeployBlock ELSE UtilityBlocks[k]

(* The documents updateOne finds for a log.                                *)
Found(l) == {d \in documents : d.log = l}

BackfillInit == /\ runPc = [r \in Runs |-> "idle"]
                /\ latest = [r \in Runs |-> 0]
                /\ kindNo = [r \in Runs |-> 1]
                /\ start = [r \in Runs |-> 0]
                /\ pending = [r \in Runs |-> {}]
                /\ current = [r \in Runs |-> NoLog]
                /\ blockTimes = [r \in Runs |-> <<>>]
                /\ transfersCollection = [r \in Runs |-> "none"]
                /\ documents = {}
                /\ reported = [r \in Runs |-> {}]
                /\ together = FALSE
                /\ faults = 0

(* A process starts: the head, then the connection.  Without one of them   *)
(* it has failed.                                                          *)
StartRun(r) ==
  /\ ~ Active(r)
  /\ \E h \in BackfillHeads : latest' = [latest EXCEPT ![r] = h]
  /\ runPc' = [runPc EXCEPT ![r] = "scanning"]
  /\ kindNo' = [kindNo EXCEPT ![r] = 1]
  /\ start' = [start EXCEPT ![r] = FirstBlock("transfer")]
  /\ pending' = [pending EXCEPT ![r] = {}]
  /\ current' = [current EXCEPT ![r] = NoLog]
  /\ blockTimes' = [blockTimes EXCEPT ![r] = <<>>]
  /\ transfersCollection' = [transfersCollection EXCEPT ![r] = "none"]
  /\ reported' = [reported EXCEPT ![r] = {}]
  /\ together' = (together \/ \E o \in Runs : Active(o))
  /\ UNCHANGED <<documents, faults>>

StartFails(r) ==
  /\ ~ Active(r) /\ faults < MaxFaults
  /\ faults' = faults + 1
  /\ runPc' = [runPc EXCEPT ![r] = "failed"]
  /\ UNCHANGED <<scan, memory, documents, observed>>

(* The batches of a kind are through: the next kind, or the end.           *)
NextKind(r) ==
  /\ runPc[r] = "scanning" /\ kindNo[r] <= Len(Kinds)
  /\ ~ Configured(Kinds[kindNo[r]]) \/ start[r] > latest[r]
  /\ kindNo' = [kindNo EXCEPT ![r] = @ + 1]
  /\ start' = [start EXCEPT ![r] =
       IF kindNo[r] < Len(Kinds) /\ Configured(Kinds[kindNo'[r]])
       THEN FirstBlock(Kinds[kindNo'[r]]) ELSE 0]
  /\ runPc' = [runPc EXCEPT ![r] = IF kindNo[r] = Len(Kinds) THEN "done" ELSE @]
  /\ UNCHANGED <<latest, pending, current, memory, documents, observed, faults>>

AtBatch(r) == /\ runPc[r] = "scanning" /\ kindNo[r] <= Len(Kinds)
              /\ Configured(Kinds[kindNo[r]]) /\ start[r] <= latest[r]

BatchEnd(r) == IF start[r] + BatchSize - 1 <= latest[r] THEN start[r] + BatchSize - 1 ELSE latest[r]

Batch(r) == {l \in ChainLogs : /\ l.kind = Kinds[kindNo[r]]
                               /\ l.block \in start[r] .. BatchEnd(r)}

\* Mutant: the batches leave a block out between them.
FetchLogsGap(r) ==
  /\ AtBatch(r)
  /\ pending' = [pending EXCEPT ![r] = {l \in Batch(r) : l.block < BatchEnd(r)}]
  /\ runPc' = [runPc EXCEPT ![r] = IF pending'[r] = {} THEN "scanning" ELSE "storing"]
  /\ start' = [start EXCEPT ![r] = @ + BatchSize]
  /\ UNCHANGED <<latest, kindNo, current, memory, documents, observed, faults>>

(* fetchLogs of a batch.                                                   *)
FetchLogs(r) ==
  /\ AtBatch(r)
  /\ pending' = [pending EXCEPT ![r] = Batch(r)]
  /\ runPc' = [runPc EXCEPT ![r] = IF Batch(r) = {} THEN "scanning" ELSE "storing"]
  /\ start' = [start EXCEPT ![r] = @ + BatchSize]
  /\ UNCHANGED <<latest, kindNo, current, memory, documents, observed, faults>>

(* It fails for good: the range is reported and skipped.                   *)
FetchGivenUp(r) ==
  /\ AtBatch(r) /\ faults < MaxFaults
  /\ faults' = faults + 1
  /\ reported' = [reported EXCEPT ![r] = @ \cup Batch(r)]
  /\ start' = [start EXCEPT ![r] = @ + BatchSize]
  /\ UNCHANGED <<runPc, latest, kindNo, pending, current, memory, documents, together>>

-----------------------------------------------------------------------------
(* onLog, for the logs of a batch in the order of the answer, which is up  *)
(* to the endpoint.  A log that does not parse ends the run.               *)
ParseThrows(r) ==
  /\ runPc[r] = "storing"
  /\ \E l \in pending[r] : l.malformed
  /\ runPc' = [runPc EXCEPT ![r] = "failed"]
  /\ UNCHANGED <<scan, memory, documents, observed, faults>>

TimeFromBlock(l) == l.kind \in {"transfer", "staking"}

(* Transfers and stakes get the time of their block, which is asked for    *)
(* once.  An answer that could not be got is kept as 0.                    *)
ResolveTime(r) ==
  /\ runPc[r] = "storing"
  /\ \E l \in pending[r] :
       /\ ~ l.malformed
       /\ current' = [current EXCEPT ![r] = l]
       /\ IF TimeFromBlock(l) /\ l.block \notin DOMAIN blockTimes[r]
          THEN \E got \in BOOLEAN :
                 /\ got \/ faults < MaxFaults
                 /\ faults' = IF got THEN faults ELSE faults + 1
                 /\ blockTimes' = [blockTimes EXCEPT ![r] =
                      [b \in DOMAIN @ \cup {l.block} |-> IF b = l.block THEN got ELSE @[b]]]
          ELSE UNCHANGED <<blockTimes, faults>>
  /\ runPc' = [runPc EXCEPT ![r] = "finding"]
  /\ UNCHANGED <<latest, kindNo, start, pending, transfersCollection, documents, observed>>

(* A stake without a time is stored with 0, a transfer with the time of    *)
(* the write; the others have the time of the event.                       *)
Dated(r) == TimeFromBlock(current[r]) => blockTimes[r][current[r].block]

(* The next log of the batch.                                              *)
LogDone(r) ==
  /\ pending' = [pending EXCEPT ![r] = @ \ {current[r]}]
  /\ current' = [current EXCEPT ![r] = NoLog]
  /\ runPc' = [runPc EXCEPT ![r] = IF pending[r] = {current[r]} THEN "scanning" ELSE "storing"]
  /\ UNCHANGED <<latest, kindNo, start>>

(* getTransfersCollection: the indexes, once in a process.  A promise that *)
(* was rejected is kept.                                                   *)
OpenTransfers(r) ==
  /\ runPc[r] = "finding" /\ current[r].kind = "transfer"
  /\ transfersCollection[r] = "none"
  /\ \E opened \in {"ready", "rejected"} :
       /\ opened = "ready" \/ faults < MaxFaults
       /\ faults' = IF opened = "ready" THEN faults ELSE faults + 1
       /\ transfersCollection' = [transfersCollection EXCEPT ![r] = opened]
  /\ UNCHANGED <<runPc, scan, blockTimes, documents, observed>>

Lose(r) == /\ reported' = [reported EXCEPT ![r] = @ \cup {current[r]}]
           /\ LogDone(r)

RejectedTransfers(r) ==
  /\ runPc[r] = "finding" /\ current[r].kind = "transfer"
  /\ transfersCollection[r] = "rejected"
  /\ Lose(r)
  /\ UNCHANGED <<memory, documents, together, faults>>

Writable(r) == current[r].kind = "transfer" => transfersCollection[r] = "ready"

(* updateOne with upsert, first half: a document is there and updated, or  *)
(* one is to be inserted.                                                  *)
FindDocument(r) ==
  /\ runPc[r] = "finding" /\ Writable(r)
  /\ IF Found(current[r]) # {}
     THEN /\ \E d \in Found(current[r]) :
               documents' = (documents \ {d}) \cup {[d EXCEPT !.dated = Dated(r)]}
          /\ LogDone(r)
     ELSE /\ runPc' = [runPc EXCEPT ![r] = "inserting"]
          /\ UNCHANGED <<scan, documents>>
  /\ UNCHANGED <<memory, observed, faults>>

Document(r) == [log |-> current[r], by |-> r, dated |-> Dated(r)]

\* Mutant: no unique index on the transfers.
InsertedMutant(r) == documents \cup {Document(r)}

(* Second half.  The unique index of the transfers refuses a second        *)
(* document, which counts as stored.                                       *)
Inserted(r) == IF current[r].kind = "transfer" /\ Found(current[r]) # {}
               THEN documents ELSE documents \cup {Document(r)}

InsertDocument(r) ==
  /\ runPc[r] = "inserting"
  /\ documents' = Inserted(r)
  /\ LogDone(r)
  /\ UNCHANGED <<memory, observed, faults>>

(* The document is inserted, the answer is lost, and the write is retried. *)
InsertAnswerLost(r) ==
  /\ runPc[r] = "inserting" /\ faults < MaxFaults
  /\ faults' = faults + 1
  /\ documents' = Inserted(r)
  /\ runPc' = [runPc EXCEPT ![r] = "finding"]
  /\ UNCHANGED <<scan, memory, observed>>

(* Every try has failed: the log is reported and left out.                 *)
WriteGivenUp(r) ==
  /\ runPc[r] \in {"finding", "inserting"} /\ Writable(r) /\ faults < MaxFaults
  /\ faults' = faults + 1
  /\ Lose(r)
  /\ UNCHANGED <<memory, documents, together>>

(* The process is killed.                                                  *)
KillRun(r) ==
  /\ Active(r) /\ faults < MaxFaults
  /\ faults' = faults + 1
  /\ runPc' = [runPc EXCEPT ![r] = "idle"]
  /\ UNCHANGED <<scan, memory, documents, observed>>

BackfillStep(r) == \/ NextKind(r) \/ FetchLogs(r) \/ FetchGivenUp(r)
                   \/ ParseThrows(r) \/ ResolveTime(r)
                   \/ OpenTransfers(r) \/ RejectedTransfers(r)
                   \/ FindDocument(r) \/ InsertDocument(r)
                   \/ InsertAnswerLost(r) \/ WriteGivenUp(r)

BackfillNext == \E r \in Runs : StartRun(r) \/ StartFails(r) \/ BackfillStep(r) \/ KillRun(r)

BackfillSpec == BackfillInit /\ [][BackfillNext]_BackfillVars

-----------------------------------------------------------------------------
BackfillTypeOK ==
  /\ runPc \in [Runs -> {"idle", "scanning", "storing", "finding", "inserting", "done", "failed"}]
  /\ latest \in [Runs -> Nat]
  /\ kindNo \in [Runs -> 1 .. Len(Kinds) + 1]
  /\ start \in [Runs -> Nat]
  /\ pending \in [Runs -> SUBSET ChainLogs]
  /\ current \in [Runs -> ChainLogs \cup {NoLog}]
  /\ \A r \in Runs : \A b \in DOMAIN blockTimes[r] : blockTimes[r][b] \in BOOLEAN
  /\ transfersCollection \in [Runs -> {"none", "ready", "rejected"}]
  /\ documents \subseteq [log : ChainLogs, by : Runs, dated : BOOLEAN]
  /\ reported \in [Runs -> SUBSET ChainLogs]
  /\ together \in BOOLEAN
  /\ faults \in 0 .. MaxFaults

(* The logs a run is meant to store.                                       *)
Scope(r) == {l \in ChainLogs : /\ Configured(l.kind)
                               /\ l.block \in FirstBlock(l.kind) .. latest[r]}

(* NOTHING IS LOST SILENTLY.  When a run has ended well, each log up to    *)
(* its head is in its collection or was reported by this run, wherever the *)
(* batches begin and whatever failed, was killed or ran beside it.         *)
NothingLostSilently ==
  \A r \in Runs :
    runPc[r] = "done" => \A l \in Scope(r) : Found(l) # {} \/ l \in reported[r]

(* STORED ONCE.  However often runs are killed and started again, a log    *)
(* has two documents only after runs were under way at a time, from        *)
(* different runs, and never if it is a transfer.                          *)
StoredOnce ==
  \A d, e \in documents :
    (d.log = e.log /\ d # e) => /\ d.log.kind # "transfer"
                                /\ d.by # e.by
                                /\ together
=============================================================================
