--------------------------- MODULE BackfillProofs ---------------------------
(***************************************************************************)
(* The backfill neither loses a log silently nor stores a transfer twice,  *)
(* for any number of runs and faults, any chain, heads and batch size.     *)
(*                                                                         *)
(* The first follows from how far a run has come: what is behind it is     *)
(* stored, reported or still pending.  The second from what a run knows    *)
(* that is about to insert: what was stored since it looked is not its     *)
(* own, and whose it is runs beside it.                                    *)
(***************************************************************************)
EXTENDS Backfill, TLAPS

Types ==
  /\ runPc \in [Runs -> {"idle", "scanning", "storing", "finding", "inserting", "done", "failed"}]
  /\ latest \in [Runs -> Nat]
  /\ kindNo \in [Runs -> 1 .. 5]
  /\ start \in [Runs -> Nat]
  /\ pending \in [Runs -> SUBSET ChainLogs]
  /\ current \in [Runs -> ChainLogs \cup {NoLog}]
  /\ reported \in [Runs -> SUBSET ChainLogs]
  /\ documents \subseteq [log : ChainLogs, by : Runs, dated : BOOLEAN]
  /\ together \in BOOLEAN

Handled(r, l) == Found(l) # {} \/ l \in reported[r]

(* How far a run has come.                                                 *)
Place(r) ==
  /\ runPc[r] = "scanning" => pending[r] = {}
  /\ runPc[r] \in {"finding", "inserting"} => current[r] \in pending[r]
  /\ Active(r) => kindNo[r] \in 1 .. 4
  /\ runPc[r] = "done" => kindNo[r] = 5

KindsDone(r) ==
  Active(r) \/ runPc[r] = "done" =>
    \A l \in Scope(r) : \A j \in 1 .. 4 : (l.kind = Kinds[j] /\ j < kindNo[r]) => Handled(r, l)

BatchesDone(r) ==
  Active(r) =>
    \A l \in Scope(r) :
      (l.kind = Kinds[kindNo[r]] /\ l.block < start[r]) => Handled(r, l) \/ l \in pending[r]

Progress(r) == Place(r) /\ KindsDone(r) /\ BatchesDone(r)

(* What was stored since a run has looked for the log it inserts.          *)
Stranger(r) == runPc[r] = "inserting" => \A d \in Found(current[r]) : d.by # r /\ together

BackfillIInv == /\ Types
                /\ \A r \in Runs : Progress(r) /\ Stranger(r)
                /\ \A r, o \in Runs : (r # o /\ Active(r) /\ Active(o)) => together
                /\ StoredOnce

LEMMA FourKinds == Len(Kinds) = 4 /\ DOMAIN Kinds = 1 .. 4
BY DEF Kinds

-----------------------------------------------------------------------------
(* What is found is found again after a step.                              *)
Kept == \A l : Found(l) # {} => Found(l)' # {}

(* A step of one run is no step of another.                                *)
Aside(q) == /\ runPc'[q] = runPc[q] /\ latest'[q] = latest[q] /\ kindNo'[q] = kindNo[q]
            /\ start'[q] = start[q] /\ pending'[q] = pending[q]
            /\ current'[q] = current[q] /\ reported'[q] = reported[q]

LEMMA ProgressAside ==
  ASSUME NEW q \in Runs, Progress(q), Aside(q), Kept
  PROVE  Progress(q)'
<1>1. Scope(q)' = Scope(q) /\ Active(q)' = Active(q)
  BY DEF Aside, Scope, Active
<1>2. \A l : Handled(q, l) => Handled(q, l)'
  BY DEF Kept, Handled, Aside
<1>3. Place(q)'
  BY <1>1 DEF Progress, Place, Aside
<1>4. KindsDone(q)'
  BY <1>1, <1>2 DEF Progress, KindsDone, Aside
<1>5. BatchesDone(q)'
  BY <1>1, <1>2 DEF Progress, BatchesDone, Aside
<1> QED BY <1>3, <1>4, <1>5 DEF Progress

(* A run that has ended otherwise than well has nothing to show.           *)
LEMMA ProgressEnded ==
  ASSUME NEW r \in Runs, runPc'[r] \in {"idle", "failed"}
  PROVE  Progress(r)'
BY DEF Progress, Place, KindsDone, BatchesDone, Active

(* A run that goes on at the same place of the scan.                       *)
LEMMA ProgressSame ==
  ASSUME NEW r \in Runs, Types, Progress(r), Kept, Active(r),
         runPc'[r] \in {"storing", "finding", "inserting"},
         runPc'[r] # "storing" => current'[r] \in pending[r],
         latest' = latest, kindNo' = kindNo, start' = start, pending' = pending,
         reported' = reported
  PROVE  Progress(r)'
<1>1. Scope(r)' = Scope(r) /\ Active(r)'
  BY DEF Scope, Active
<1>2. \A l : Handled(r, l) => Handled(r, l)'
  BY DEF Kept, Handled
<1>3. Place(r)'
  BY <1>1 DEF Progress, Place
<1>4. KindsDone(r)'
  BY <1>1, <1>2 DEF Progress, KindsDone
<1>5. BatchesDone(r)'
  BY <1>1, <1>2 DEF Progress, BatchesDone
<1> QED BY <1>3, <1>4, <1>5 DEF Progress

(* A log is done once it is stored or reported.                            *)
LEMMA ProgressDone ==
  ASSUME NEW r \in Runs, NEW c, Types, Progress(r), runPc[r] \in {"finding", "inserting"},
         LogDone(r), c = current[r], Handled(r, c)', \A l : Handled(r, l) => Handled(r, l)'
  PROVE  Progress(r)' /\ runPc'[r] \in {"scanning", "storing"}
<1>1. /\ pending'[r] = pending[r] \ {c} /\ latest'[r] = latest[r]
      /\ kindNo'[r] = kindNo[r] /\ start'[r] = start[r]
      /\ runPc'[r] = IF pending[r] = {c} THEN "scanning" ELSE "storing"
  BY DEF LogDone, Types
<1>2. Scope(r)' = Scope(r) /\ Active(r) /\ Active(r)' /\ runPc'[r] \in {"scanning", "storing"}
  BY <1>1 DEF Scope, Active
<1>3. Place(r)'
  BY <1>1, <1>2 DEF Progress, Place
<1>4. KindsDone(r)'
  BY <1>1, <1>2 DEF Progress, KindsDone
<1>5. BatchesDone(r)'
  <2> SUFFICES ASSUME NEW l \in Scope(r), l.kind = Kinds[kindNo[r]], l.block < start[r]
               PROVE  Handled(r, l)' \/ l \in pending'[r]
    BY <1>1, <1>2 DEF BatchesDone
  <2>1. Handled(r, l) \/ l \in pending[r]
    BY <1>2 DEF Progress, BatchesDone
  <2> QED BY <1>1, <2>1
<1> QED BY <1>2, <1>3, <1>4, <1>5 DEF Progress

-----------------------------------------------------------------------------
(* The steps of the scan.                                                  *)
LEMMA ProgressStart ==
  ASSUME NEW r \in Runs, Types, StartRun(r)
  PROVE  Progress(r)'
<1>1. /\ runPc'[r] = "scanning" /\ kindNo'[r] = 1 /\ start'[r] = FirstBlock("transfer")
      /\ pending'[r] = {}
  BY DEF StartRun, Types
<1>2. Place(r)' /\ KindsDone(r)'
  BY <1>1 DEF Place, KindsDone, Active
<1>3. BatchesDone(r)'
  <2> SUFFICES ASSUME NEW l \in Scope(r)', l.kind = Kinds[1] PROVE ~ (l.block < start'[r])
    BY <1>1 DEF BatchesDone
  <2>1. l.block \in FirstBlock(l.kind) .. latest'[r] /\ l.kind = "transfer" /\ l.block \in Nat
    BY BackfillAssumption DEF Scope, Kinds, LogType
  <2>2. FirstBlock("transfer") \in Nat
    BY BackfillAssumption DEF FirstBlock
  <2>3. latest'[r] \in Nat
    BY BackfillAssumption DEF StartRun, Types
  <2> QED BY <1>1, <2>1, <2>2, <2>3
<1> QED BY <1>2, <1>3 DEF Progress

LEMMA FirstBlockNat == \A k \in DOMAIN UtilityBlocks \cup {"transfer"} : FirstBlock(k) \in Nat
BY BackfillAssumption DEF FirstBlock

LEMMA ScopeFacts ==
  ASSUME NEW r \in Runs, Types, NEW l \in Scope(r)
  PROVE  /\ l \in ChainLogs /\ Configured(l.kind) /\ l.block \in Nat
         /\ FirstBlock(l.kind) \in Nat /\ latest[r] \in Nat
         /\ FirstBlock(l.kind) <= l.block /\ l.block <= latest[r]
         /\ \E j \in 1 .. 4 : l.kind = Kinds[j]
<1>1. l \in ChainLogs /\ Configured(l.kind) /\ l.block \in FirstBlock(l.kind) .. latest[r]
  BY DEF Scope
<1>2. l.block \in Nat /\ l.kind \in {Kinds[i] : i \in DOMAIN Kinds}
  BY <1>1, BackfillAssumption DEF LogType
<1>3. FirstBlock(l.kind) \in Nat
  BY <1>1, FirstBlockNat DEF Configured
<1>4. latest[r] \in Nat
  BY DEF Types
<1> QED BY <1>1, <1>2, <1>3, <1>4, FourKinds

(* The batches of a kind end past the head, so all its logs are behind.    *)
LEMMA ProgressNextKind ==
  ASSUME NEW r \in Runs, Types, Progress(r), NextKind(r)
  PROVE  Progress(r)' /\ start'[r] \in Nat /\ kindNo'[r] \in 1 .. 5
<1> DEFINE k == kindNo[r]
<1>1. /\ runPc[r] = "scanning" /\ k \in 1 .. 4 /\ Active(r) /\ pending[r] = {}
      /\ ~ Configured(Kinds[k]) \/ start[r] > latest[r]
      /\ kindNo'[r] = k + 1
      /\ runPc'[r] = IF k = 4 THEN "done" ELSE "scanning"
      /\ UNCHANGED <<latest, pending, reported, documents>>
  BY FourKinds DEF NextKind, Types, Progress, Place, Active, observed
<1>2. start'[r] = IF k < 4 /\ Configured(Kinds[k + 1]) THEN FirstBlock(Kinds[k + 1]) ELSE 0
  BY <1>1, FourKinds DEF NextKind, Types
<1>3. start'[r] \in Nat
  BY <1>2, FirstBlockNat DEF Configured
<1>4. Scope(r)' = Scope(r) /\ (\A l : Handled(r, l) <=> Handled(r, l)')
  BY <1>1 DEF Scope, Handled, Found
<1>5. Place(r)'
  BY <1>1 DEF Place, Active
<1>6. KindsDone(r)'
  <2> SUFFICES ASSUME NEW l \in Scope(r), NEW j \in 1 .. 4, l.kind = Kinds[j], j < k + 1
               PROVE  Handled(r, l)
    BY <1>1, <1>4 DEF KindsDone
  <2>1. CASE j < k
    BY <1>1, <2>1 DEF Progress, KindsDone
  <2>2. CASE j = k
    <3>1. start[r] > latest[r]
      BY <1>1, <2>2, ScopeFacts
    <3>2. l.block < start[r]
      BY <3>1, ScopeFacts DEF Types
    <3> QED BY <1>1, <2>2, <3>2 DEF Progress, BatchesDone
  <2> QED BY <1>1, <2>1, <2>2
<1>7. BatchesDone(r)'
  <2> SUFFICES ASSUME NEW l \in Scope(r), l.kind = Kinds[k + 1], Active(r)'
               PROVE  ~ (l.block < start'[r])
    BY <1>1, <1>4 DEF BatchesDone
  <2>1. k < 4
    BY <1>1 DEF Active
  <2>2. start'[r] = FirstBlock(l.kind)
    BY <1>2, <2>1, ScopeFacts
  <2> QED BY <2>2, ScopeFacts
<1> QED BY <1>1, <1>3, <1>5, <1>6, <1>7 DEF Progress

(* A batch is pending once it is fetched, or reported.                     *)
LEMMA BatchCovers ==
  ASSUME NEW r \in Runs, Types, AtBatch(r), NEW l \in Scope(r), l.kind = Kinds[kindNo[r]],
         l.block < start[r] + BatchSize
  PROVE  l.block < start[r] \/ l \in Batch(r)
<1>1. /\ l.block \in Nat /\ l.block <= latest[r] /\ latest[r] \in Nat /\ l \in ChainLogs
      /\ start[r] \in Nat /\ BatchSize \in Nat
  BY ScopeFacts, BackfillAssumption DEF Types
<1> QED BY <1>1 DEF Batch, BatchEnd

LEMMA ProgressFetch ==
  ASSUME NEW r \in Runs, Types, Progress(r), FetchLogs(r)
  PROVE  Progress(r)' /\ start'[r] \in Nat /\ pending'[r] \in SUBSET ChainLogs
<1>1. /\ runPc[r] = "scanning" /\ kindNo[r] \in 1 .. 4 /\ Active(r) /\ pending[r] = {}
      /\ pending'[r] = Batch(r) /\ start'[r] = start[r] + BatchSize
      /\ runPc'[r] = IF Batch(r) = {} THEN "scanning" ELSE "storing"
      /\ UNCHANGED <<latest, kindNo, reported, documents>>
  BY DEF FetchLogs, AtBatch, Types, Progress, Place, Active, observed
<1>2. start'[r] \in Nat /\ pending'[r] \in SUBSET ChainLogs
  BY <1>1, BackfillAssumption DEF Types, Batch
<1>3. Scope(r)' = Scope(r) /\ Active(r)' /\ (\A l : Handled(r, l) <=> Handled(r, l)')
  BY <1>1 DEF Scope, Handled, Found, Active
<1>4. Place(r)'
  BY <1>1, <1>3 DEF Place
<1>5. KindsDone(r)'
  BY <1>1, <1>3 DEF Progress, KindsDone
<1>6. BatchesDone(r)'
  <2> SUFFICES ASSUME NEW l \in Scope(r), l.kind = Kinds[kindNo[r]], l.block < start[r] + BatchSize
               PROVE  Handled(r, l) \/ l \in Batch(r)
    BY <1>1, <1>3 DEF BatchesDone
  <2>1. AtBatch(r)
    BY DEF FetchLogs
  <2> QED BY <1>1, <2>1, BatchCovers DEF Progress, BatchesDone
<1> QED BY <1>2, <1>4, <1>5, <1>6 DEF Progress

LEMMA ProgressGivenUp ==
  ASSUME NEW r \in Runs, Types, Progress(r), FetchGivenUp(r)
  PROVE  Progress(r)' /\ start'[r] \in Nat /\ reported'[r] \in SUBSET ChainLogs
<1>1. /\ runPc[r] = "scanning" /\ kindNo[r] \in 1 .. 4 /\ Active(r) /\ pending[r] = {}
      /\ reported'[r] = reported[r] \cup Batch(r) /\ start'[r] = start[r] + BatchSize
      /\ UNCHANGED <<runPc, latest, kindNo, pending, documents>>
  BY DEF FetchGivenUp, AtBatch, Types, Progress, Place, Active
<1>2. start'[r] \in Nat /\ reported'[r] \in SUBSET ChainLogs
  BY <1>1, BackfillAssumption DEF Types, Batch
<1>3. /\ Scope(r)' = Scope(r) /\ Active(r)'
      /\ \A l : Handled(r, l) \/ l \in Batch(r) => Handled(r, l)'
  BY <1>1 DEF Scope, Handled, Found, Active
<1>4. Place(r)'
  BY <1>1, <1>3 DEF Place, Progress
<1>5. KindsDone(r)'
  BY <1>1, <1>3 DEF Progress, KindsDone
<1>6. BatchesDone(r)'
  <2> SUFFICES ASSUME NEW l \in Scope(r), l.kind = Kinds[kindNo[r]], l.block < start[r] + BatchSize
               PROVE  Handled(r, l)'
    BY <1>1, <1>3 DEF BatchesDone
  <2>1. AtBatch(r)
    BY DEF FetchGivenUp
  <2> QED BY <1>1, <1>3, <2>1, BatchCovers DEF Progress, BatchesDone
<1> QED BY <1>2, <1>4, <1>5, <1>6 DEF Progress
-----------------------------------------------------------------------------
(* The documents a step of a run leaves: as before but for their dates, or *)
(* its own.                                                                *)
Grows(r) == \A d \in documents' :
              (\E e \in documents : e.log = d.log /\ e.by = d.by) \/ d.by = r

OthersAside(r) == \A q \in Runs \ {r} : Aside(q)

(* Who starts beside another run is noticed.                               *)
Noticed(r) == /\ together => together'
              /\ Active(r)' /\ ~ Active(r) => together' \/ \A q \in Runs : ~ Active(q)

(* What is to be shown of a step of one run.                               *)
LEMMA StepOfOne ==
  ASSUME BackfillIInv, NEW r \in Runs, OthersAside(r), Kept, Grows(r), Noticed(r),
         Active(r) \/ documents' = documents,
         Types', Progress(r)', Stranger(r)', StoredOnce'
  PROVE  BackfillIInv'
<1>1. ASSUME NEW q \in Runs, q # r PROVE Progress(q)' /\ Stranger(q)'
  <2>1. Aside(q)
    BY <1>1 DEF OthersAside
  <2>2. Progress(q)'
    BY <2>1, ProgressAside DEF BackfillIInv
  <2>3. Stranger(q)'
    <3> SUFFICES ASSUME runPc[q] = "inserting", NEW d \in documents', d.log = current[q]
                 PROVE  d.by # q /\ together'
      BY <2>1 DEF Stranger, Found, Aside
    <3>1. Active(q) /\ (together => together')
      BY DEF Active, Noticed
    <3>2. CASE \E e \in documents : e.log = d.log /\ e.by = d.by
      BY <3>1, <3>2 DEF BackfillIInv, Stranger, Found
    <3>3. CASE d.by = r /\ d \notin documents
      <4>1. Active(r)
        BY <3>3
      <4> QED BY <1>1, <3>1, <3>3, <4>1 DEF BackfillIInv
    <3> QED BY <3>2, <3>3 DEF Grows
  <2> QED BY <2>2, <2>3
<1>2. ASSUME NEW q \in Runs, NEW o \in Runs, q # o, Active(q)', Active(o)' PROVE together'
  <2>1. \A p \in Runs \ {r} : Active(p)' <=> Active(p)
    BY DEF OthersAside, Aside, Active
  <2> QED BY <1>2, <2>1 DEF BackfillIInv, Noticed
<1> QED BY <1>1, <1>2 DEF BackfillIInv

(* A step that leaves the documents alone.                                 *)
LEMMA QuietStep ==
  ASSUME BackfillIInv, NEW r \in Runs, OthersAside(r), Noticed(r), documents' = documents,
         Types', Progress(r)', Stranger(r)'
  PROVE  BackfillIInv'
<1>1. Kept /\ Grows(r)
  BY DEF Kept, Grows, Found
<1>2. StoredOnce'
  BY DEF BackfillIInv, StoredOnce, Noticed
<1> QED BY <1>1, <1>2, StepOfOne

LEMMA NotInserting == ASSUME NEW r, runPc'[r] # "inserting" PROVE Stranger(r)'
BY DEF Stranger

-----------------------------------------------------------------------------
LEMMA StartRunKeeps ==
  ASSUME BackfillIInv, NEW r \in Runs, StartRun(r)
  PROVE  BackfillIInv'
<1>1. Types
  BY DEF BackfillIInv
<1>2. runPc'[r] = "scanning" /\ documents' = documents
  BY <1>1 DEF StartRun, Types
<1>3. OthersAside(r)
  BY <1>1 DEF StartRun, OthersAside, Aside, Types
<1>4. FirstBlock("transfer") \in Nat
  BY FirstBlockNat
<1>5. Types'
  BY <1>1, <1>4, BackfillAssumption DEF StartRun, Types
<1>6. Noticed(r)
  BY <1>1 DEF StartRun, Noticed, Types
<1> QED BY <1>1, <1>2, <1>3, <1>5, <1>6, ProgressStart, NotInserting, QuietStep

LEMMA EndsKeep ==
  ASSUME BackfillIInv, NEW r \in Runs, StartFails(r) \/ ParseThrows(r) \/ KillRun(r)
  PROVE  BackfillIInv'
<1>1. Types
  BY DEF BackfillIInv
<1>2. /\ \/ runPc' = [runPc EXCEPT ![r] = "failed"]
         \/ runPc' = [runPc EXCEPT ![r] = "idle"]
      /\ UNCHANGED <<latest, kindNo, start, pending, current, documents, reported, together>>
  BY DEF StartFails, ParseThrows, KillRun, scan, observed
<1>3. runPc'[r] \in {"idle", "failed"}
  BY <1>1, <1>2 DEF Types
<1>4. OthersAside(r)
  BY <1>1, <1>2 DEF OthersAside, Aside, Types
<1>5. Types'
  BY <1>1, <1>2 DEF Types
<1>6. Noticed(r)
  BY <1>2, <1>3 DEF Noticed, Active
<1> QED BY <1>2, <1>3, <1>4, <1>5, <1>6, ProgressEnded, NotInserting, QuietStep

LEMMA ScanKeeps ==
  ASSUME BackfillIInv, NEW r \in Runs, NextKind(r) \/ FetchLogs(r) \/ FetchGivenUp(r)
  PROVE  BackfillIInv'
<1>1. Types /\ Progress(r)
  BY DEF BackfillIInv
<1>2. /\ Progress(r)' /\ start'[r] \in Nat /\ pending'[r] \in SUBSET ChainLogs
      /\ reported'[r] \in SUBSET ChainLogs /\ kindNo'[r] \in 1 .. 5
  <2>1. CASE NextKind(r)
    BY <1>1, <2>1, ProgressNextKind DEF NextKind, Types, observed
  <2>2. CASE FetchLogs(r)
    BY <1>1, <2>2, ProgressFetch DEF FetchLogs, Types, observed
  <2>3. CASE FetchGivenUp(r)
    BY <1>1, <2>3, ProgressGivenUp DEF FetchGivenUp, Types
  <2> QED BY <2>1, <2>2, <2>3
<1>3. /\ runPc[r] = "scanning" /\ runPc'[r] \in {"scanning", "storing", "done"}
      /\ UNCHANGED <<latest, current, documents, together>>
  BY <1>1 DEF NextKind, FetchLogs, FetchGivenUp, AtBatch, Types, observed
<1>4. /\ \E v : runPc' = [runPc EXCEPT ![r] = v]
      /\ \E v : start' = [start EXCEPT ![r] = v]
      /\ \E v : pending' = [pending EXCEPT ![r] = v]
      /\ \E v : reported' = [reported EXCEPT ![r] = v]
      /\ \E v : kindNo' = [kindNo EXCEPT ![r] = v]
  <2>1. runPc = [runPc EXCEPT ![r] = runPc[r]] /\ pending = [pending EXCEPT ![r] = pending[r]]
    BY <1>1 DEF Types
  <2>2. reported = [reported EXCEPT ![r] = reported[r]] /\ kindNo = [kindNo EXCEPT ![r] = kindNo[r]]
    BY <1>1 DEF Types
  <2> QED BY <2>1, <2>2 DEF NextKind, FetchLogs, FetchGivenUp, observed
<1>5. OthersAside(r)
  BY <1>1, <1>3, <1>4 DEF OthersAside, Aside, Types
<1>6. Types'
  BY <1>1, <1>2, <1>3, <1>4 DEF Types
<1>7. Noticed(r)
  BY <1>3 DEF Noticed, Active
<1> QED BY <1>2, <1>3, <1>5, <1>6, <1>7, NotInserting, QuietStep
-----------------------------------------------------------------------------
(* The steps of onLog that store nothing yet.                              *)
LEMMA ResolveTimeKeeps ==
  ASSUME BackfillIInv, NEW r \in Runs, ResolveTime(r)
  PROVE  BackfillIInv'
<1>1. Types /\ Progress(r)
  BY DEF BackfillIInv
<1>2. PICK l \in pending[r] : current' = [current EXCEPT ![r] = l]
  BY DEF ResolveTime
<1>3. /\ runPc[r] = "storing" /\ runPc' = [runPc EXCEPT ![r] = "finding"]
      /\ UNCHANGED <<latest, kindNo, start, pending, documents, reported, together>>
  BY DEF ResolveTime, observed
<1>4. /\ runPc'[r] = "finding" /\ current'[r] \in pending[r]
      /\ Active(r) /\ l \in ChainLogs
  BY <1>1, <1>2, <1>3 DEF Types, Active
<1>5. OthersAside(r)
  BY <1>1, <1>2, <1>3 DEF OthersAside, Aside, Types
<1>6. Types'
  BY <1>1, <1>2, <1>3, <1>4 DEF Types
<1>7. Noticed(r) /\ Kept
  BY <1>3, <1>4 DEF Noticed, Kept, Found
<1>8. Progress(r)'
  BY <1>1, <1>3, <1>4, <1>7, ProgressSame
<1> QED BY <1>3, <1>4, <1>5, <1>6, <1>7, <1>8, NotInserting, QuietStep

LEMMA OpenTransfersKeeps ==
  ASSUME BackfillIInv, NEW r \in Runs, OpenTransfers(r)
  PROVE  BackfillIInv'
<1>1. Types /\ Progress(r) /\ Stranger(r)
  BY DEF BackfillIInv
<1>2. UNCHANGED <<runPc, latest, kindNo, start, pending, current, documents, reported, together>>
  BY DEF OpenTransfers, scan, observed
<1>3. OthersAside(r) /\ Aside(r) /\ Noticed(r) /\ Kept
  BY <1>2 DEF OthersAside, Aside, Noticed, Active, Kept, Found
<1>4. Progress(r)'
  BY <1>1, <1>3, ProgressAside
<1>5. Types' /\ Stranger(r)'
  BY <1>1, <1>2 DEF Types, Stranger, Found
<1> QED BY <1>2, <1>3, <1>4, <1>5, QuietStep

(* What LogDone leaves of the types and of the other runs.                 *)
LEMMA LogDoneTypes ==
  ASSUME Types, NEW r \in Runs, LogDone(r), NEW R \in [Runs -> SUBSET ChainLogs], reported' = R,
         \A q \in Runs \ {r} : R[q] = reported[q],
         documents' \subseteq [log : ChainLogs, by : Runs, dated : BOOLEAN], together' = together
  PROVE  Types' /\ OthersAside(r) /\ runPc'[r] \in {"scanning", "storing"}
<1>1. Types'
  BY DEF Types, LogDone
<1>2. OthersAside(r)
  BY DEF Types, LogDone, OthersAside, Aside
<1> QED BY <1>1, <1>2 DEF Types, LogDone

(* The log is reported and left out.                                       *)
LEMMA LoseKeeps ==
  ASSUME BackfillIInv, NEW r \in Runs, RejectedTransfers(r) \/ WriteGivenUp(r)
  PROVE  BackfillIInv'
<1>1. Types /\ Progress(r)
  BY DEF BackfillIInv
<1>2. /\ runPc[r] \in {"finding", "inserting"} /\ LogDone(r)
      /\ reported' = [reported EXCEPT ![r] = @ \cup {current[r]}]
      /\ documents' = documents /\ together' = together
  BY DEF RejectedTransfers, WriteGivenUp, Lose
<1>3. PICK c : c = current[r]
  OBVIOUS
<1>4. c \in pending[r] /\ c \in ChainLogs /\ Active(r)
  BY <1>1, <1>2, <1>3 DEF Progress, Place, Types, Active
<1>5. /\ reported' \in [Runs -> SUBSET ChainLogs]
      /\ \A q \in Runs \ {r} : reported'[q] = reported[q]
      /\ reported'[r] = reported[r] \cup {c}
  BY <1>1, <1>2, <1>3, <1>4 DEF Types
<1>6. documents' \subseteq [log : ChainLogs, by : Runs, dated : BOOLEAN]
  BY <1>1, <1>2 DEF Types
<1>7. Types' /\ OthersAside(r) /\ runPc'[r] \in {"scanning", "storing"}
  BY <1>1, <1>2, <1>5, <1>6, LogDoneTypes
<1>8. Handled(r, c)' /\ \A l : Handled(r, l) => Handled(r, l)'
  BY <1>2, <1>5 DEF Handled, Found
<1>9. Progress(r)'
  BY <1>1, <1>2, <1>3, <1>8, ProgressDone
<1>10. Noticed(r)
  BY <1>2, <1>4 DEF Noticed
<1> QED BY <1>2, <1>7, <1>9, <1>10, NotInserting, QuietStep

-----------------------------------------------------------------------------
(* A document that is there is updated, which changes its date only.  A    *)
(* run that finds none is about to insert one.                             *)
LEMMA FindDocumentKeeps ==
  ASSUME BackfillIInv, NEW r \in Runs, FindDocument(r)
  PROVE  BackfillIInv'
<1>1. Types /\ Progress(r) /\ StoredOnce
  BY DEF BackfillIInv
<1>2. runPc[r] = "finding" /\ reported' = reported /\ together' = together /\ Active(r)
  BY DEF FindDocument, observed, Active
<1>3. PICK c : c = current[r]
  OBVIOUS
<1>4. CASE Found(current[r]) = {}
  <2>1. /\ runPc' = [runPc EXCEPT ![r] = "inserting"]
        /\ UNCHANGED <<latest, kindNo, start, pending, current, documents>>
    BY <1>4 DEF FindDocument, scan
  <2>2. runPc'[r] = "inserting" /\ current'[r] \in pending[r]
    BY <1>1, <1>2, <2>1 DEF Types, Progress, Place
  <2>3. OthersAside(r)
    BY <1>1, <1>2, <2>1 DEF OthersAside, Aside, Types
  <2>4. Types'
    BY <1>1, <1>2, <2>1 DEF Types
  <2>5. Noticed(r) /\ Kept
    BY <1>2, <2>1 DEF Noticed, Kept, Found
  <2>6. Progress(r)'
    BY <1>1, <1>2, <2>1, <2>2, <2>5, ProgressSame
  <2>7. Stranger(r)'
    BY <1>4, <2>1 DEF Stranger, Found
  <2> QED BY <2>1, <2>3, <2>4, <2>5, <2>6, <2>7, QuietStep
<1>5. CASE Found(current[r]) # {}
  <2>1. PICK d \in Found(c) :
          documents' = (documents \ {d}) \cup {[d EXCEPT !.dated = Dated(r)]}
    BY <1>3, <1>5 DEF FindDocument
  <2>2. LogDone(r) /\ d \in documents /\ d.log = c /\ d \in [log : ChainLogs, by : Runs, dated : BOOLEAN]
    BY <1>1, <1>3, <1>5, <2>1 DEF FindDocument, Found, Types
  <2>3. PICK e : e = [d EXCEPT !.dated = Dated(r)]
    OBVIOUS
  <2>4. Dated(r) \in BOOLEAN
    BY DEF Dated
  <2>5. /\ e \in [log : ChainLogs, by : Runs, dated : BOOLEAN] /\ e.log = c /\ e.by = d.by
        /\ documents' = (documents \ {d}) \cup {e}
    BY <2>1, <2>2, <2>3, <2>4
  <2>6. documents' \subseteq [log : ChainLogs, by : Runs, dated : BOOLEAN]
    BY <1>1, <2>5 DEF Types
  <2>7. Types' /\ OthersAside(r) /\ runPc'[r] \in {"scanning", "storing"}
    BY <1>1, <1>2, <2>2, <2>6, LogDoneTypes DEF Types
  <2>8. Kept
    BY <2>2, <2>5 DEF Kept, Found
  <2>9. Handled(r, c)' /\ \A l : Handled(r, l) => Handled(r, l)'
    BY <1>2, <2>5, <2>8 DEF Handled, Found, Kept
  <2>10. Progress(r)'
    BY <1>1, <1>2, <1>3, <2>2, <2>9, ProgressDone
  <2>11. Grows(r) /\ Noticed(r)
    BY <1>2, <2>2, <2>5 DEF Grows, Noticed
  <2>12. StoredOnce'
    BY <1>1, <1>2, <2>2, <2>5 DEF StoredOnce
  <2> QED BY <1>2, <2>7, <2>8, <2>10, <2>11, <2>12, NotInserting, StepOfOne
<1> QED BY <1>4, <1>5

(* The insert: a transfer only where there is none, and anything else      *)
(* beside documents of other runs.                                         *)
LEMMA InsertedOnce ==
  ASSUME BackfillIInv, NEW r \in Runs, runPc[r] = "inserting", NEW c, c = current[r],
         documents' = Inserted(r), together' = together
  PROVE  /\ documents' \subseteq [log : ChainLogs, by : Runs, dated : BOOLEAN]
         /\ Kept /\ Grows(r) /\ StoredOnce'
         /\ \E d \in documents' : d.log = c
         /\ c \in pending[r] /\ c \in ChainLogs
<1>1. Types /\ Progress(r) /\ StoredOnce /\ Stranger(r)
  BY DEF BackfillIInv
<1>2. c \in pending[r] /\ c \in ChainLogs
  BY <1>1 DEF Progress, Place, Types
<1>3. CASE c.kind = "transfer" /\ Found(c) # {}
  <2>1. documents' = documents
    BY <1>3 DEF Inserted
  <2> QED BY <1>1, <1>2, <1>3, <2>1 DEF Types, Kept, Grows, StoredOnce, Found
<1>4. CASE ~ (c.kind = "transfer" /\ Found(c) # {})
  <2>1. PICK D : D = Document(r)
    OBVIOUS
  <2>2. D.log = c /\ D.by = r /\ documents' = documents \cup {D}
    BY <1>4, <2>1 DEF Inserted, Document
  <2>3. D \in [log : ChainLogs, by : Runs, dated : BOOLEAN]
    BY <1>2, <2>1 DEF Document, Dated
  <2>4. StoredOnce'
    <3>1. \A d \in documents : d.log = c => d.log.kind # "transfer" /\ d.by # r /\ together
      BY <1>1, <1>4 DEF Stranger, Found
    <3> QED BY <1>1, <2>2, <3>1 DEF StoredOnce
  <2> QED BY <1>1, <1>2, <2>2, <2>3, <2>4 DEF Types, Kept, Grows, Found
<1> QED BY <1>3, <1>4

LEMMA InsertDocumentKeeps ==
  ASSUME BackfillIInv, NEW r \in Runs, InsertDocument(r)
  PROVE  BackfillIInv'
<1>1. Types /\ Progress(r)
  BY DEF BackfillIInv
<1>2. /\ runPc[r] = "inserting" /\ documents' = Inserted(r) /\ LogDone(r)
      /\ reported' = reported /\ together' = together /\ Active(r)
  BY DEF InsertDocument, observed, Active
<1>3. PICK c : c = current[r]
  OBVIOUS
<1>4. /\ documents' \subseteq [log : ChainLogs, by : Runs, dated : BOOLEAN]
      /\ Kept /\ Grows(r) /\ StoredOnce' /\ \E d \in documents' : d.log = c
  BY <1>2, <1>3, InsertedOnce
<1>5. Types' /\ OthersAside(r) /\ runPc'[r] \in {"scanning", "storing"}
  BY <1>1, <1>2, <1>4, LogDoneTypes DEF Types
<1>6. Handled(r, c)' /\ \A l : Handled(r, l) => Handled(r, l)'
  BY <1>2, <1>4 DEF Handled, Found, Kept
<1>7. Progress(r)'
  BY <1>1, <1>2, <1>3, <1>6, ProgressDone
<1>8. Noticed(r)
  BY <1>2 DEF Noticed
<1> QED BY <1>2, <1>4, <1>5, <1>7, <1>8, NotInserting, StepOfOne

(* The same, but the run looks again.                                      *)
LEMMA InsertAnswerLostKeeps ==
  ASSUME BackfillIInv, NEW r \in Runs, InsertAnswerLost(r)
  PROVE  BackfillIInv'
<1>1. Types /\ Progress(r)
  BY DEF BackfillIInv
<1>2. /\ runPc[r] = "inserting" /\ documents' = Inserted(r)
      /\ runPc' = [runPc EXCEPT ![r] = "finding"]
      /\ UNCHANGED <<latest, kindNo, start, pending, current, reported, together>> /\ Active(r)
  BY DEF InsertAnswerLost, scan, observed, Active
<1>3. PICK c : c = current[r]
  OBVIOUS
<1>4. /\ documents' \subseteq [log : ChainLogs, by : Runs, dated : BOOLEAN]
      /\ Kept /\ Grows(r) /\ StoredOnce' /\ c \in pending[r]
  BY <1>2, <1>3, InsertedOnce
<1>5. runPc'[r] = "finding" /\ OthersAside(r)
  BY <1>1, <1>2 DEF Types, OthersAside, Aside
<1>6. Types'
  BY <1>1, <1>2, <1>4 DEF Types
<1>7. Progress(r)'
  BY <1>1, <1>2, <1>3, <1>4, <1>5, ProgressSame
<1>8. Noticed(r)
  BY <1>2 DEF Noticed
<1> QED BY <1>2, <1>4, <1>5, <1>6, <1>7, <1>8, NotInserting, StepOfOne

-----------------------------------------------------------------------------
LEMMA BackfillStarts == BackfillInit => BackfillIInv
<1> SUFFICES ASSUME BackfillInit PROVE BackfillIInv
  OBVIOUS
<1>1. Types
  <2>1. /\ runPc \in [Runs -> {"idle", "scanning", "storing", "finding", "inserting", "done", "failed"}]
        /\ latest \in [Runs -> Nat] /\ kindNo \in [Runs -> 1 .. 5] /\ start \in [Runs -> Nat]
    BY DEF BackfillInit
  <2>2. pending \in [Runs -> SUBSET ChainLogs] /\ reported \in [Runs -> SUBSET ChainLogs]
    BY DEF BackfillInit
  <2>3. current \in [Runs -> ChainLogs \cup {NoLog}]
    BY DEF BackfillInit
  <2>4. together \in BOOLEAN /\ documents = {}
    BY DEF BackfillInit
  <2> QED BY <2>1, <2>2, <2>3, <2>4 DEF Types
<1>2. ASSUME NEW r \in Runs PROVE runPc[r] = "idle"
  BY DEF BackfillInit
<1>3. ASSUME NEW r \in Runs PROVE Progress(r) /\ Stranger(r)
  BY <1>2 DEF Progress, Place, KindsDone, BatchesDone, Active, Stranger
<1>4. \A r, o \in Runs : (r # o /\ Active(r) /\ Active(o)) => together
  BY <1>2 DEF Active
<1>5. StoredOnce
  BY DEF BackfillInit, StoredOnce
<1> QED BY <1>1, <1>3, <1>4, <1>5 DEF BackfillIInv

LEMMA BackfillInductive == BackfillSpec => []BackfillIInv
<1>1. BackfillIInv /\ [BackfillNext]_BackfillVars => BackfillIInv'
  <2> SUFFICES ASSUME BackfillIInv, [BackfillNext]_BackfillVars PROVE BackfillIInv'
    OBVIOUS
  <2>1. ASSUME NEW r \in Runs, StartRun(r) PROVE BackfillIInv'
    BY <2>1, StartRunKeeps
  <2>2. ASSUME NEW r \in Runs, StartFails(r) \/ ParseThrows(r) \/ KillRun(r) PROVE BackfillIInv'
    BY <2>2, EndsKeep
  <2>3. ASSUME NEW r \in Runs, NextKind(r) \/ FetchLogs(r) \/ FetchGivenUp(r) PROVE BackfillIInv'
    BY <2>3, ScanKeeps
  <2>4. ASSUME NEW r \in Runs, ResolveTime(r) PROVE BackfillIInv'
    BY <2>4, ResolveTimeKeeps
  <2>5. ASSUME NEW r \in Runs, OpenTransfers(r) PROVE BackfillIInv'
    BY <2>5, OpenTransfersKeeps
  <2>6. ASSUME NEW r \in Runs, RejectedTransfers(r) \/ WriteGivenUp(r) PROVE BackfillIInv'
    BY <2>6, LoseKeeps
  <2>7. ASSUME NEW r \in Runs, FindDocument(r) PROVE BackfillIInv'
    BY <2>7, FindDocumentKeeps
  <2>8. ASSUME NEW r \in Runs, InsertDocument(r) PROVE BackfillIInv'
    BY <2>8, InsertDocumentKeeps
  <2>9. ASSUME NEW r \in Runs, InsertAnswerLost(r) PROVE BackfillIInv'
    BY <2>9, InsertAnswerLostKeeps
  <2>10. CASE UNCHANGED BackfillVars
    BY <2>10
       DEF BackfillVars, scan, memory, observed, BackfillIInv, Types, Progress, Place, KindsDone,
           BatchesDone, Handled, Stranger, StoredOnce, Active, Scope, Found
  <2> QED BY <2>1, <2>2, <2>3, <2>4, <2>5, <2>6, <2>7, <2>8, <2>9, <2>10
          DEF BackfillNext, BackfillStep
<1> QED BY BackfillStarts, <1>1, PTL DEF BackfillSpec

(* NOTHING IS LOST SILENTLY by runBackfill: when it has ended well, each   *)
(* log up to the head it saw is stored or reported, for any chain and      *)
(* batch size, however many runs there are and whatever fails.             *)
THEOREM BackfillLosesNothing == BackfillSpec => []NothingLostSilently
<1>1. BackfillIInv => NothingLostSilently
  <2> SUFFICES ASSUME BackfillIInv, NEW r \in Runs, runPc[r] = "done", NEW l \in Scope(r)
               PROVE  Found(l) # {} \/ l \in reported[r]
    BY DEF NothingLostSilently
  <2>1. Types /\ Progress(r)
    BY DEF BackfillIInv
  <2>2. PICK j \in 1 .. 4 : l.kind = Kinds[j]
    BY <2>1, ScopeFacts
  <2>3. kindNo[r] = 5
    BY <2>1 DEF Progress, Place
  <2> QED BY <2>1, <2>2, <2>3 DEF Progress, KindsDone, Handled
<1> QED BY <1>1, BackfillInductive, PTL

(* STORED ONCE: a transfer never has two documents, and another event only *)
(* from different runs and after runs were under way at a time, however    *)
(* often runs are killed and started again.                                *)
THEOREM BackfillStoresOnce == BackfillSpec => []StoredOnce
<1>1. BackfillIInv => StoredOnce
  BY DEF BackfillIInv
<1> QED BY <1>1, BackfillInductive, PTL

-----------------------------------------------------------------------------
(* The memory of a run: what it knows of the times of blocks, and whether  *)
(* its collection could be opened.                                         *)
MemoryTypes ==
  /\ DOMAIN blockTimes = Runs
  /\ \A r \in Runs : \A b \in DOMAIN blockTimes[r] : blockTimes[r][b] \in BOOLEAN
  /\ transfersCollection \in [Runs -> {"none", "ready", "rejected"}]
  /\ faults \in 0 .. MaxFaults

LEMMA OneFaultMore ==
  ASSUME faults \in 0 .. MaxFaults, faults < MaxFaults
  PROVE  faults + 1 \in 0 .. MaxFaults
BY BackfillAssumption

LEMMA StartForgets ==
  ASSUME MemoryTypes, NEW r \in Runs, StartRun(r)
  PROVE  MemoryTypes'
<1>1. /\ blockTimes' = [blockTimes EXCEPT ![r] = <<>>]
      /\ transfersCollection' = [transfersCollection EXCEPT ![r] = "none"] /\ faults' = faults
  BY DEF StartRun
<1>2. DOMAIN blockTimes' = Runs /\ DOMAIN blockTimes'[r] = {}
  BY <1>1 DEF MemoryTypes
<1>3. \A q \in Runs \ {r} : blockTimes'[q] = blockTimes[q]
  BY <1>1 DEF MemoryTypes
<1> QED BY <1>1, <1>2, <1>3 DEF MemoryTypes

(* Steps that only count a fault, or none.                                 *)
LEMMA MemoryKept ==
  ASSUME MemoryTypes, UNCHANGED memory,
         faults' = faults \/ (faults' = faults + 1 /\ faults < MaxFaults)
  PROVE  MemoryTypes'
<1>1. faults' \in 0 .. MaxFaults
  BY OneFaultMore DEF MemoryTypes
<1> QED BY <1>1 DEF MemoryTypes, memory

LEMMA TimeRemembered ==
  ASSUME MemoryTypes, NEW r \in Runs, ResolveTime(r)
  PROVE  MemoryTypes'
<1>1. PICK l \in pending[r] :
        IF TimeFromBlock(l) /\ l.block \notin DOMAIN blockTimes[r]
        THEN \E got \in BOOLEAN :
               /\ got \/ faults < MaxFaults
               /\ faults' = IF got THEN faults ELSE faults + 1
               /\ blockTimes' = [blockTimes EXCEPT ![r] =
                    [b \in DOMAIN @ \cup {l.block} |-> IF b = l.block THEN got ELSE @[b]]]
        ELSE UNCHANGED <<blockTimes, faults>>
  BY DEF ResolveTime
<1>2. transfersCollection' = transfersCollection
  BY DEF ResolveTime
<1>3. CASE TimeFromBlock(l) /\ l.block \notin DOMAIN blockTimes[r]
  <2>1. PICK got \in BOOLEAN :
          /\ got \/ faults < MaxFaults
          /\ faults' = IF got THEN faults ELSE faults + 1
          /\ blockTimes' = [blockTimes EXCEPT ![r] =
               [b \in DOMAIN blockTimes[r] \cup {l.block} |->
                  IF b = l.block THEN got ELSE blockTimes[r][b]]]
    BY <1>1, <1>3
  <2>2. faults' \in 0 .. MaxFaults
    BY <2>1, OneFaultMore DEF MemoryTypes
  <2>3. DOMAIN blockTimes' = Runs /\ \A q \in Runs \ {r} : blockTimes'[q] = blockTimes[q]
    BY <2>1 DEF MemoryTypes
  <2>4. \A b \in DOMAIN blockTimes'[r] : blockTimes'[r][b] \in BOOLEAN
    BY <2>1 DEF MemoryTypes
  <2> QED BY <1>2, <2>2, <2>3, <2>4 DEF MemoryTypes
<1>4. CASE ~ (TimeFromBlock(l) /\ l.block \notin DOMAIN blockTimes[r])
  BY <1>1, <1>2, <1>4 DEF MemoryTypes
<1> QED BY <1>3, <1>4

LEMMA CollectionOpened ==
  ASSUME MemoryTypes, NEW r \in Runs, OpenTransfers(r)
  PROVE  MemoryTypes'
<1>1. PICK opened \in {"ready", "rejected"} :
        /\ opened = "ready" \/ faults < MaxFaults
        /\ faults' = IF opened = "ready" THEN faults ELSE faults + 1
        /\ transfersCollection' = [transfersCollection EXCEPT ![r] = opened]
  BY DEF OpenTransfers
<1>2. faults' \in 0 .. MaxFaults
  BY <1>1, OneFaultMore DEF MemoryTypes
<1>3. blockTimes' = blockTimes
  BY DEF OpenTransfers
<1> QED BY <1>1, <1>2, <1>3 DEF MemoryTypes

(* THE TYPES OF THE BACKFILL: what is stored and what is reported are logs *)
(* of the chain, in every interleaving of the runs.                        *)
THEOREM BackfillTypeCorrect == BackfillSpec => []BackfillTypeOK
<1>1. BackfillInit => MemoryTypes
  BY BackfillAssumption DEF BackfillInit, MemoryTypes
<1>2. MemoryTypes /\ [BackfillNext]_BackfillVars => MemoryTypes'
  <2> SUFFICES ASSUME MemoryTypes, [BackfillNext]_BackfillVars PROVE MemoryTypes'
    OBVIOUS
  <2>1. ASSUME NEW r \in Runs, StartRun(r) PROVE MemoryTypes'
    BY <2>1, StartForgets
  <2>2. ASSUME NEW r \in Runs, ResolveTime(r) PROVE MemoryTypes'
    BY <2>2, TimeRemembered
  <2>3. ASSUME NEW r \in Runs, OpenTransfers(r) PROVE MemoryTypes'
    BY <2>3, CollectionOpened
  <2>4. ASSUME NEW r \in Runs,
               \/ NextKind(r) \/ FetchLogs(r) \/ ParseThrows(r) \/ RejectedTransfers(r)
               \/ FindDocument(r) \/ InsertDocument(r)
        PROVE  MemoryTypes'
    <3>1. UNCHANGED memory /\ faults' = faults
      BY <2>4
         DEF NextKind, FetchLogs, ParseThrows, RejectedTransfers, FindDocument, InsertDocument
    <3> QED BY <3>1, MemoryKept
  <2>5. ASSUME NEW r \in Runs,
               \/ StartFails(r) \/ FetchGivenUp(r) \/ InsertAnswerLost(r) \/ WriteGivenUp(r)
               \/ KillRun(r)
        PROVE  MemoryTypes'
    <3>1. UNCHANGED memory /\ faults' = faults + 1 /\ faults < MaxFaults
      BY <2>5 DEF StartFails, FetchGivenUp, InsertAnswerLost, WriteGivenUp, KillRun
    <3> QED BY <3>1, MemoryKept
  <2>6. CASE UNCHANGED BackfillVars
    <3>1. UNCHANGED memory /\ faults' = faults
      BY <2>6 DEF BackfillVars
    <3> QED BY <3>1, MemoryKept
  <2> QED BY <2>1, <2>2, <2>3, <2>4, <2>5, <2>6 DEF BackfillNext, BackfillStep
<1>3. BackfillIInv /\ MemoryTypes => BackfillTypeOK
  BY FourKinds DEF BackfillIInv, Types, MemoryTypes, BackfillTypeOK
<1> QED BY <1>1, <1>2, <1>3, BackfillInductive, PTL DEF BackfillSpec
=============================================================================
