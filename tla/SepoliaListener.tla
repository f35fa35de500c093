-------------------------- MODULE SepoliaListener --------------------------
(***************************************************************************)
(* The live listener of Sepolia, src/infra/indexer/listener/               *)
(* sepolia.listener.ts.  It shares no code with runListener.ts: it takes   *)
(* everything from its cursor to the head in one getLogs, tries a failed   *)
(* range again instead of passing it, gives up a log that cannot be        *)
(* processed instead of stopping at it, and starts at the head of the      *)
(* chain when it knows nothing better.                                     *)
(*                                                                         *)
(* Importing the file starts a listener.  server.ts imports it, and the    *)
(* documentation has the operator start the script next to the API, so     *)
(* several listeners share one indexer_state document and one collection.  *)
(***************************************************************************)
EXTENDS Integers, FiniteSets

CONSTANTS
  Listeners,     \* the processes that may run a listener
  Deployments,   \* the deployments considered, see DeploymentType
  Logs,          \* the Transfer logs of the token, see LogType
  FirstHead,     \* the head when the first listener is started
  MaxBlock,      \* bound: the chain stops growing here
  MaxLag,        \* bound: how far an endpoint of the pool is behind the head
  MaxFaults      \* bound: crashes, failed calls and stale answers in all

(* valid: the log parses, has checksummable addresses and passes           *)
(* TransferSchema.                                                         *)
LogType == [block : Nat, index : Nat, valid : BOOLEAN]

(* Which processes run a listener, and SEPOLIA_START_BLOCK (0 if unset).   *)
DeploymentType == [running : SUBSET Listeners, startBlock : Nat]

ASSUME SepoliaAssumption ==
  /\ Logs \subseteq LogType
  /\ Deployments \subseteq DeploymentType
  /\ MaxBlock \in Nat
  /\ MaxLag \in Nat
  /\ MaxFaults \in Nat
  /\ FirstHead \in Nat
  /\ MaxLag + 1 < FirstHead    \* Sepolia was not born yesterday
  /\ FirstHead <= MaxBlock

VARIABLES
  deployment,          \* fixed in the initial state
  head,                \* the newest block
  \* MongoDB
  cursor,              \* lastProcessedBlock of the indexer_state document
  docs,                \* the logs in the transfers collection
  \* each listener
  pc,
  lastProcessedBlock,
  currentBlock,
  pending,             \* fetched logs not yet handled
  \* observation
  reported,            \* logs given up with an error in the log
  unseen,              \* logs missed because the endpoint did not have the block
  announced,           \* the least startBlock - 1 a listener has announced
  faults

NoCursor == -1
Nothing  == -1

procVars == <<pc, lastProcessedBlock, currentBlock, pending>>
obsVars  == <<reported, unseen, announced>>
vars     == <<deployment, head, cursor, docs, procVars, obsVars, faults>>

-----------------------------------------------------------------------------
(* Faults come out of one budget.                                          *)
Charge(bad) == IF bad THEN faults < MaxFaults /\ faults' = faults + 1
                      ELSE UNCHANGED faults

EndpointHeads == {h \in 0 .. head : head - h <= MaxLag}

Goto(p, label) == pc' = [pc EXCEPT ![p] = label]

Range(from, to) == {l \in Logs : from <= l.block /\ l.block <= to}

\* Mutant: the last block of a range is left to be scanned again.
SetCursorMutant(n, ok) == \E applied \in BOOLEAN :
                            /\ ok => applied
                            /\ Charge(~ok)
                            /\ cursor' = IF applied THEN n - 1 ELSE cursor

(* setLastProcessedBlock: one unconditional upsert; a write that fails may *)
(* have been applied all the same.                                         *)
SetCursor(n, ok) == \E applied \in BOOLEAN :
                      /\ ok => applied
                      /\ Charge(~ok)
                      /\ cursor' = IF applied THEN n ELSE cursor

(* TransferRepository.insert: an upsert under (chainId, txHash, logIndex), *)
(* so that a log stored before, by whichever listener, is stored once.     *)
Insert(l, applied) == docs' = IF applied THEN docs \cup {l} ELSE docs

(* 'Starting polling indexer loop', with the first block it will index.    *)
Announce(b) == announced' = IF announced = Nothing \/ b < announced THEN b ELSE announced

-----------------------------------------------------------------------------
Init == /\ deployment \in Deployments
        /\ head = FirstHead
        /\ cursor = NoCursor
        /\ docs = {}
        /\ pc = [p \in Listeners |-> "down"]
        /\ lastProcessedBlock = [p \in Listeners |-> 0]
        /\ currentBlock = [p \in Listeners |-> 0]
        /\ pending = [p \in Listeners |-> {}]
        /\ reported = {}
        /\ unseen = {}
        /\ announced = Nothing
        /\ faults = 0

(* The chain grows by a block.                                             *)
Mine == /\ head < MaxBlock
        /\ head' = head + 1
        /\ UNCHANGED <<deployment, cursor, docs, procVars, obsVars, faults>>

(* The process dies and with it what the listener had in memory; a         *)
(* listener that did not come up ("dead") goes only with its process.      *)
Crash(p) == /\ pc[p] # "down"
            /\ Charge(TRUE)
            /\ Goto(p, "down")
            /\ lastProcessedBlock' = [lastProcessedBlock EXCEPT ![p] = 0]
            /\ currentBlock' = [currentBlock EXCEPT ![p] = 0]
            /\ pending' = [pending EXCEPT ![p] = {}]
            /\ UNCHANGED <<deployment, head, cursor, docs, obsVars>>

(* startListener rejects before its loop: an error is logged, and the      *)
(* process lives on without a listener.                                    *)
StartFails(p) == /\ pc[p] \in {"down", "init"}
                 /\ p \in deployment.running
                 /\ Charge(TRUE)
                 /\ Goto(p, "dead")
                 /\ UNCHANGED <<deployment, head, cursor, docs, lastProcessedBlock,
                                currentBlock, pending, obsVars>>

(* The listener reads its cursor, with SEPOLIA_START_BLOCK to fall back    *)
(* on.                                                                     *)
Start(p) ==
  LET b == IF cursor # NoCursor THEN cursor ELSE deployment.startBlock
  IN /\ pc[p] = "down"
     /\ p \in deployment.running
     /\ lastProcessedBlock' = [lastProcessedBlock EXCEPT ![p] = b]
     /\ IF b = 0
        THEN Goto(p, "init") /\ UNCHANGED announced
        ELSE Goto(p, "poll") /\ Announce(b)
     /\ UNCHANGED <<deployment, head, cursor, docs, currentBlock, pending,
                    reported, unseen, faults>>

(* A cursor of 0 means none: the listener asks for the head, ...           *)
InitHead(p) ==
  /\ pc[p] = "init"
  /\ \E h \in EndpointHeads :
       /\ Charge(h # head)
       /\ lastProcessedBlock' = [lastProcessedBlock EXCEPT ![p] = h - 1]
       /\ currentBlock' = [currentBlock EXCEPT ![p] = h]
  /\ Goto(p, "initPersist")
  /\ UNCHANGED <<deployment, head, cursor, docs, pending, obsVars>>

(* ... and writes the block below it as its cursor.                        *)
InitPersist(p) ==
  /\ pc[p] = "initPersist"
  /\ \E ok \in BOOLEAN :
       /\ SetCursor(lastProcessedBlock[p], ok)
       /\ IF ok THEN Goto(p, "poll") /\ Announce(lastProcessedBlock[p])
                ELSE Goto(p, "dead") /\ UNCHANGED announced
  /\ UNCHANGED <<deployment, head, docs, lastProcessedBlock, currentBlock, pending,
                 reported, unseen>>

Poll(p) ==
  /\ pc[p] = "poll"
  /\ \E h \in EndpointHeads :
       /\ Charge(h # head)
       /\ currentBlock' = [currentBlock EXCEPT ![p] = h]
  /\ Goto(p, "refresh")
  /\ UNCHANGED <<deployment, head, cursor, docs, lastProcessedBlock, pending, obsVars>>

(* The cursor is written again; the loop goes on to the logs if that       *)
(* worked and there is a new block.                                        *)
Refresh(p) ==
  /\ pc[p] = "refresh"
  /\ \E ok \in BOOLEAN :
       /\ SetCursor(lastProcessedBlock[p], ok)
       /\ Goto(p, IF ok /\ lastProcessedBlock[p] < currentBlock[p] THEN "logs" ELSE "poll")
  /\ UNCHANGED <<deployment, head, docs, lastProcessedBlock, currentBlock, pending, obsVars>>

\* Mutant: a range that cannot be fetched is passed over.
GetLogsFailsMutant(p) ==
  /\ pc[p] = "logs"
  /\ Charge(TRUE)
  /\ Goto(p, "store")
  /\ UNCHANGED <<deployment, head, cursor, docs, lastProcessedBlock, currentBlock,
                 pending, obsVars>>

(* getLogs of the whole range has failed for the last time: the loop       *)
(* starts over.                                                            *)
GetLogsFails(p) ==
  /\ pc[p] = "logs"
  /\ Charge(TRUE)
  /\ Goto(p, "poll")
  /\ UNCHANGED <<deployment, head, cursor, docs, lastProcessedBlock, currentBlock,
                 pending, obsVars>>

\* Mutant: the range begins at the cursor, not after it.
GetLogsMutant(p) ==
  /\ pc[p] = "logs"
  /\ pending' = [pending EXCEPT ![p] = Range(lastProcessedBlock[p], currentBlock[p])]
  /\ Goto(p, "store")
  /\ UNCHANGED <<deployment, head, cursor, docs, lastProcessedBlock, currentBlock,
                 obsVars, faults>>

(* getLogs, answered by an endpoint that may lack the last blocks.         *)
GetLogs(p) ==
  /\ pc[p] = "logs"
  /\ \E h \in EndpointHeads :
       LET have == Range(lastProcessedBlock[p] + 1,
                         IF h < currentBlock[p] THEN h ELSE currentBlock[p])
       IN /\ Charge(h < currentBlock[p])
          /\ pending' = [pending EXCEPT ![p] = have]
          /\ unseen' = unseen \cup
                         (Range(lastProcessedBlock[p] + 1, currentBlock[p]) \ have)
  /\ Goto(p, "store")
  /\ UNCHANGED <<deployment, head, cursor, docs, lastProcessedBlock, currentBlock,
                 reported, announced>>

(* The next log of the answer, in log order.                               *)
IsNextLog(p, l) == /\ l \in pending[p]
                   /\ \A m \in pending[p] : \/ l.block < m.block
                                            \/ l.block = m.block /\ l.index <= m.index

\* Mutant: a log that cannot be processed ends the round.
StoreLogMutant(p) ==
  /\ pc[p] = "store"
  /\ \E l \in pending[p] :
       /\ IsNextLog(p, l)
       /\ docs' = IF l.valid THEN docs \cup {l} ELSE docs
       /\ pending' = [pending EXCEPT ![p] = IF l.valid THEN @ \ {l} ELSE {}]
       /\ IF l.valid THEN UNCHANGED pc ELSE Goto(p, "poll")
  /\ UNCHANGED <<deployment, head, cursor, lastProcessedBlock, currentBlock,
                 obsVars, faults>>

(* One log: it is parsed, its block fetched, it is validated and upserted. *)
(* Whatever fails is logged, and the loop goes on with the next log.       *)
StoreLog(p) ==
  /\ pc[p] = "store"
  /\ \E l \in pending[p], ok, applied \in BOOLEAN :
       /\ IsNextLog(p, l)
       /\ ok => applied
       /\ applied => l.valid
       /\ Charge(l.valid /\ ~ok)
       /\ Insert(l, applied)
       /\ reported' = IF ok THEN reported ELSE reported \cup {l}
       /\ pending' = [pending EXCEPT ![p] = @ \ {l}]
  /\ UNCHANGED <<deployment, head, cursor, pc, lastProcessedBlock, currentBlock,
                 unseen, announced>>

FinishRange(p) ==
  /\ pc[p] = "store"
  /\ pending[p] = {}
  /\ lastProcessedBlock' = [lastProcessedBlock EXCEPT ![p] = currentBlock[p]]
  /\ Goto(p, "persist")
  /\ UNCHANGED <<deployment, head, cursor, docs, currentBlock, pending, obsVars, faults>>

PersistRange(p) ==
  /\ pc[p] = "persist"
  /\ \E ok \in BOOLEAN : SetCursor(lastProcessedBlock[p], ok)
  /\ Goto(p, "poll")
  /\ UNCHANGED <<deployment, head, docs, lastProcessedBlock, currentBlock, pending, obsVars>>

Work(p) == \/ Start(p)
           \/ InitHead(p)
           \/ InitPersist(p)
           \/ Poll(p)
           \/ Refresh(p)
           \/ GetLogs(p)
           \/ StoreLog(p)
           \/ FinishRange(p)
           \/ PersistRange(p)

Fail(p) == Crash(p) \/ StartFails(p) \/ GetLogsFails(p)

Next == Mine \/ \E p \in Listeners : Work(p) \/ Fail(p)

Spec == Init /\ [][Next]_vars

(* Each listener is a loop of its own calls and timers, and a process that *)
(* exits is started again.  The chain goes on growing (up to the bound).   *)
FairSpec == Spec /\ WF_vars(Mine) /\ \A p \in Listeners : WF_vars(Work(p))
-----------------------------------------------------------------------------
(* The variables have their declared types, and a listener handles logs    *)
(* only of the range it is at.                                             *)
TypeOK ==
  /\ deployment \in Deployments
  /\ head \in 0 .. MaxBlock
  /\ cursor \in Nat \cup {NoCursor}
  /\ docs \subseteq Logs
  /\ pc \in [Listeners -> {"down", "dead", "init", "initPersist", "poll", "refresh",
                           "logs", "store", "persist"}]
  /\ lastProcessedBlock \in [Listeners -> Nat]
  /\ currentBlock \in [Listeners -> Nat]
  /\ pending \in [Listeners -> SUBSET Logs]
  /\ \A p \in Listeners :
       \A l \in pending[p] : /\ pc[p] = "store"
                             /\ lastProcessedBlock[p] < l.block
                             /\ l.block <= currentBlock[p]
  /\ reported \subseteq Logs
  /\ unseen \subseteq Logs
  /\ announced \in Nat \cup {Nothing}
  /\ faults \in 0 .. MaxFaults

AccountedTo(b) == \A l \in Range(announced + 1, b) : l \in docs \cup reported \cup unseen

(* NO UNEXPLAINED GAP WITH SEVERAL LISTENERS.  The listeners overwrite one *)
(* another's cursor without looking, also with an older one; yet every     *)
(* transfer between the first announced start and the cursor is stored, or *)
(* was given up in the log, or was missed by an endpoint behind it.        *)
NoGap == announced # Nothing => AccountedTo(cursor)

(* What the listeners claim begins after the first announced start; one    *)
(* that fails between writing and announcing it has fixed it all the same. *)
ClaimBase == IF announced # Nothing THEN announced
             ELSE IF cursor # NoCursor THEN cursor ELSE 0

Settled == {b \in 0 .. MaxBlock :
              \A l \in Logs : l.block = b => l \in docs \cup reported \cup unseen}

Ledger == INSTANCE SharedLedger WITH settled <- Settled, base <- ClaimBase

(* REFINEMENT WITH SEVERAL LISTENERS.  Where SEPOLIA_START_BLOCK is set, or*)
(* there is one listener, the cursor document is the cursor of a shared    *)
(* ledger: the start of its claim is fixed by the first write, and however *)
(* the listeners overwrite one another, it is never written below that     *)
(* start nor over a block of which something is still owed.                *)
ImplementsSharedLedger == Ledger!SharedSpec

(* README.md: "Restart- and reorg-safe".  A transfer after the first       *)
(* announced start that is not accounted for yet is still ahead of the     *)
(* cursor, or of a listener that is alive: it is not lost by a restart.    *)
NothingStranded ==
  announced # Nothing =>
    \A l \in Range(announced + 1, head) \ (docs \cup reported \cup unseen) :
      \/ cursor < l.block
      \/ \E p \in Listeners : pc[p] \notin {"down", "dead"} /\ lastProcessedBlock[p] < l.block

(* PROGRESS.  While a listener is left that came up, the cursor reaches    *)
(* every block of the chain, logs that cannot be processed and ranges that *)
(* could not be fetched notwithstanding.                                   *)
EveryBlockReached ==
  \A b \in 1 .. MaxBlock :
    head >= b ~> (cursor >= b \/ \A p \in deployment.running : pc[p] = "dead")
=============================================================================
