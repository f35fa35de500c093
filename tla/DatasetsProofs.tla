--------------------------- MODULE DatasetsProofs ---------------------------
(***************************************************************************)
(* Theorems about the life of a dataset, for any number of requests and    *)
(* datasets and with or without the two optional services.                 *)
(*                                                                         *)
(* A handler acts on what it found some awaits ago.  That is safe as far   *)
(* as it relies on facts that cannot be undone: a row is never deleted,    *)
(* the trail only grows, a dataset once marked has been marked.  HandlerOK *)
(* says which of these a handler relies on at each await.                  *)
(***************************************************************************)
EXTENDS Datasets, TLAPS

HandlerOK(h) ==
  LET id == job[h].id
      op == job[h].op
  IN /\ pc[h] # "idle" => job[h] \in Job
     /\ pc[h] = "read" => op \in Verdicts \cup {"challenge", "reward"}
     /\ pc[h] \in {"trail", "update"} => op \in Verdicts
     /\ pc[h] \in {"trail", "update", "mark", "open", "pay", "index"} => rows[id] # Absent
     /\ pc[h] = "create" => row[h] \in Row /\ row[h].status = "pending"
     /\ pc[h] = "index" => row[h] \in Row /\ Backed(id, row[h])
     /\ pc[h] = "update" => <<id, op>> \in verifications
     /\ pc[h] = "pay" => <<id, "approve">> \in verifications
     /\ pc[h] = "open" => id \in marked

IInv == /\ TypeOK
        /\ \A h \in Handlers : HandlerOK(h)
        /\ VerdictTrail
        /\ DocumentsBacked
        /\ RewardsBacked
        /\ ChallengesMarked

-----------------------------------------------------------------------------
(* The merge of the columns of an UPDATE into a row.                       *)
Merge(r, columns) == [c \in DOMAIN r |-> IF c \in DOMAIN columns THEN columns[c] ELSE r[c]]

LEMMA AbsentIsNoRow == Absent \notin Row
BY DEF Absent, Row

LEMMA MergeVerdict ==
  ASSUME NEW r \in Row, NEW v \in Verdicts
  PROVE  LET m == Merge(r, Verdict(v))
         IN /\ m \in Row
            /\ m.status = Verdict(v).status
            /\ m.summary = Verdict(v).summary
            /\ m.contractId = r.contractId
BY DEF Merge, Row, Verdict, Verdicts

LEMMA MergeMark ==
  ASSUME NEW r \in Row
  PROVE  LET m == Merge(r, [status |-> "challenged"])
         IN m \in Row /\ m.status = "challenged" /\ m.contractId = r.contractId
BY DEF Merge, Row

LEMMA MergeContract ==
  ASSUME NEW r \in Row
  PROVE  LET m == Merge(r, [contractId |-> TRUE])
         IN /\ m \in Row
            /\ m.status = r.status
            /\ m.summary = r.summary
            /\ m.contractId = TRUE
BY DEF Merge, Row

(* A written row is backed if its verdict is in the trail already, or if   *)
(* the write leaves the verdict alone.                                     *)
LEMMA VerdictBacked ==
  ASSUME NEW id, NEW v \in Verdicts, NEW r,
         r.status = Verdict(v).status, r.summary = Verdict(v).summary,
         <<id, v>> \in verifications
  PROVE  Backed(id, r)
BY DEF Backed, Verdict, Verdicts

-----------------------------------------------------------------------------
(* What a handler leaves to the others.                                    *)
LEMMA OthersKept ==
  ASSUME TypeOK, NEW h \in Handlers, Step(h), NEW g \in Handlers \ {h}
  PROVE  pc'[g] = pc[g] /\ job'[g] = job[g] /\ row'[g] = row[g]
BY DEF TypeOK, Step, Arrive, Fail, Validate, CreateDataset, GetDatasetById, InsertVerification,
       RecordVerdict, MarkChallenged, InsertChallenge, InsertReward, SetContractInfo,
       IndexDocument, UpdateDataset, AfterWrite, GoOn

(* What one handler does to a row: it inserts the row it has, or merges    *)
(* the columns of its request.                                             *)
RowWritten(h, id) ==
  \/ rows'[id] = rows[id]
  \/ /\ id = job[h].id
     /\ \/ /\ pc[h] = "create"
           /\ rows[id] = Absent
           /\ rows'[id] = row[h]
        \/ /\ pc[h] = "update"
           /\ rows[id] # Absent
           /\ rows'[id] = Merge(rows[id], Verdict(job[h].op))
        \/ /\ pc[h] = "mark"
           /\ rows[id] # Absent
           /\ rows'[id] = Merge(rows[id], [status |-> "challenged"])
        \/ /\ pc[h] = "setContract"
           /\ rows[id] # Absent
           /\ rows'[id] = Merge(rows[id], [contractId |-> TRUE])

LEMMA RowStep ==
  ASSUME IInv, NEW h \in Handlers, Step(h), NEW id \in Ids
  PROVE  RowWritten(h, id)
<1>0. TypeOK /\ HandlerOK(h)
  BY DEF IInv
<1>1. CASE CreateDataset(h)
  BY <1>0, <1>1 DEF CreateDataset, RowWritten, TypeOK, HandlerOK, Job
<1>2. CASE RecordVerdict(h)
  BY <1>0, <1>2 DEF RecordVerdict, UpdateDataset, RowWritten, Merge, TypeOK, HandlerOK, Job
<1>3. CASE MarkChallenged(h)
  BY <1>0, <1>3 DEF MarkChallenged, UpdateDataset, RowWritten, Merge, TypeOK, HandlerOK, Job
<1>4. CASE SetContractInfo(h)
  BY <1>0, <1>4 DEF SetContractInfo, UpdateDataset, RowWritten, Merge, TypeOK, HandlerOK, Job
<1>5. CASE \/ Arrive(h) \/ Fail(h) \/ Validate(h) \/ GetDatasetById(h) \/ InsertVerification(h)
           \/ InsertChallenge(h) \/ InsertReward(h) \/ IndexDocument(h)
  BY <1>5 DEF Arrive, Fail, Validate, GetDatasetById, InsertVerification, InsertChallenge,
              InsertReward, IndexDocument, postgres, RowWritten
<1> QED
  BY <1>1, <1>2, <1>3, <1>4, <1>5 DEF Step

(* Rows stay rows and are never deleted.                                   *)
LEMMA RowsStay ==
  ASSUME IInv, NEW h \in Handlers, Step(h), NEW id \in Ids
  PROVE  /\ rows'[id] \in Row \cup {Absent}
         /\ rows[id] # Absent => rows'[id] # Absent
<1>1. RowWritten(h, id) /\ TypeOK /\ HandlerOK(h)
  BY RowStep DEF IInv
<1>2. rows[id] \in Row \cup {Absent}
  BY <1>1 DEF TypeOK
<1>3. CASE pc[h] = "create" /\ rows'[id] = row[h]
  BY <1>1, <1>3, AbsentIsNoRow DEF HandlerOK
<1>4. CASE pc[h] = "update" /\ rows[id] # Absent /\ rows'[id] = Merge(rows[id], Verdict(job[h].op))
  <2>1. job[h].op \in Verdicts /\ rows[id] \in Row
    BY <1>1, <1>2, <1>4 DEF HandlerOK
  <2> QED
    BY <1>4, <2>1, MergeVerdict, AbsentIsNoRow
<1>5. CASE rows[id] # Absent /\ rows'[id] = Merge(rows[id], [status |-> "challenged"])
  BY <1>2, <1>5, MergeMark, AbsentIsNoRow
<1>6. CASE rows[id] # Absent /\ rows'[id] = Merge(rows[id], [contractId |-> TRUE])
  BY <1>2, <1>6, MergeContract, AbsentIsNoRow
<1> QED
  BY <1>1, <1>2, <1>3, <1>4, <1>5, <1>6 DEF RowWritten

(* The trail and the observation only grow.                                *)
LEMMA TrailGrows ==
  ASSUME NEW h \in Handlers, Step(h)
  PROVE  verifications \subseteq verifications' /\ marked \subseteq marked'
BY DEF Step, Arrive, Fail, Validate, CreateDataset, GetDatasetById, InsertVerification,
       RecordVerdict, MarkChallenged, InsertChallenge, InsertReward, SetContractInfo,
       IndexDocument, postgres

LEMMA BackedStays ==
  ASSUME NEW id, NEW r, Backed(id, r), verifications \subseteq verifications'
  PROVE  Backed(id, r)'
BY DEF Backed

-----------------------------------------------------------------------------
(* TYPE CORRECTNESS.  One action at a time; the rows are RowsStay.         *)
LEMMA RowsType ==
  ASSUME IInv, NEW h \in Handlers, Step(h)
  PROVE  rows' \in [Ids -> Row \cup {Absent}]
<1>1. rows' = [id \in Ids |-> rows'[id]]
  BY DEF IInv, TypeOK, Step, Arrive, Fail, Validate, CreateDataset, GetDatasetById,
         InsertVerification, RecordVerdict, MarkChallenged, InsertChallenge, InsertReward,
         SetContractInfo, IndexDocument, UpdateDataset, postgres
<1> QED
  BY <1>1, RowsStay

LEMMA HandlerType ==
  ASSUME IInv, NEW h \in Handlers, Step(h)
  PROVE  /\ job' \in [Handlers -> Job \cup {NoJob}]
         /\ pc' \in [Handlers -> {"idle", "validate", "create", "read", "trail", "update", "mark",
                                  "open", "pay", "setContract", "index"}]
         /\ row' \in [Handlers -> Row \cup {Absent}]
<1>0. /\ TypeOK
      /\ HandlerOK(h)
      /\ RowWritten(h, job[h].id) \/ pc[h] = "idle"
  BY RowStep DEF IInv, HandlerOK, Job
<1>1. CASE Arrive(h)
  BY <1>0, <1>1 DEF Arrive, Entry, TypeOK, Job, Verdicts
<1>2. CASE Fail(h) \/ InsertChallenge(h) \/ InsertReward(h) \/ IndexDocument(h)
  BY <1>0, <1>2 DEF Fail, InsertChallenge, InsertReward, IndexDocument, GoOn, TypeOK
<1>3. CASE Validate(h)
  BY <1>0, <1>3 DEF Validate, GoOn, TypeOK, Row
<1>4. CASE CreateDataset(h) \/ InsertVerification(h)
  BY <1>0, <1>4 DEF CreateDataset, InsertVerification, AfterWrite, GoOn, TypeOK
<1>5. CASE GetDatasetById(h)
  BY <1>0, <1>5 DEF GetDatasetById, GoOn, AfterRead, HandlerOK, Job, TypeOK, Verdicts
<1>6. CASE RecordVerdict(h) \/ MarkChallenged(h) \/ SetContractInfo(h)
  <2>1. job[h] \in Job /\ rows'[job[h].id] \in Row \cup {Absent}
    BY <1>0, <1>6, RowsStay DEF RecordVerdict, MarkChallenged, SetContractInfo, HandlerOK, Job
  <2>2. \E got, label : /\ AfterWrite(h, label, got)
                        /\ got = rows'[job[h].id]
                        /\ label \in {"index", "open", "idle"}
    BY <1>0, <1>6, <2>1 DEF RecordVerdict, MarkChallenged, SetContractInfo, UpdateDataset, TypeOK, Job
  <2> QED
    BY <1>0, <2>1, <2>2 DEF AfterWrite, GoOn, TypeOK
<1> QED
  BY <1>1, <1>2, <1>3, <1>4, <1>5, <1>6 DEF Step

(* The tables that refer to a row.  An insert names a row that was there   *)
(* when the handler read it, and rows stay.                                *)
HasRow(id) == rows[id] = Absent =>
                id \notin {v[1] : v \in verifications} \cup challenges \cup rewards \cup marked

LEMMA ChildrenType ==
  ASSUME IInv, NEW h \in Handlers, Step(h)
  PROVE  /\ verifications' \subseteq Ids \X Verdicts
         /\ challenges' \subseteq Ids
         /\ rewards' \subseteq Ids
         /\ marked' \subseteq Ids
         /\ \A id \in Ids : HasRow(id)'
<1>0. TypeOK /\ HandlerOK(h) /\ \A id \in Ids : HasRow(id)
  BY DEF IInv, TypeOK, HasRow
<1>1. \A id \in Ids : rows'[id] = Absent => rows[id] = Absent
  BY RowsStay
<1>2. CASE InsertVerification(h)
  <2>1. /\ job[h].id \in Ids /\ job[h].op \in Verdicts /\ rows[job[h].id] # Absent
        /\ verifications' = verifications \cup {<<job[h].id, job[h].op>>}
        /\ UNCHANGED <<rows, challenges, rewards, marked>>
    BY <1>0, <1>2 DEF InsertVerification, HandlerOK, Job
  <2>2. \A v \in verifications' : v \in verifications \/ v[1] = job[h].id
    BY <2>1
  <2>3. verifications' \subseteq Ids \X Verdicts
    BY <1>0, <2>1 DEF TypeOK
  <2>4. ASSUME NEW id \in Ids PROVE HasRow(id)'
    <3>1. HasRow(id) /\ rows' = rows /\ rows[job[h].id] # Absent
      BY <1>0, <2>1
    <3>2. rows[id] = Absent => \A v \in verifications' : v[1] # id
      BY <2>2, <3>1 DEF HasRow
    <3> QED
      BY <2>1, <3>1, <3>2 DEF HasRow
  <2> QED
    BY <1>0, <2>1, <2>3, <2>4 DEF TypeOK
<1>3. CASE MarkChallenged(h) \/ InsertChallenge(h) \/ InsertReward(h)
  <2>1. /\ job[h].id \in Ids /\ rows[job[h].id] # Absent
        /\ verifications' = verifications
        /\ challenges' \subseteq challenges \cup {job[h].id}
        /\ rewards' \subseteq rewards \cup {job[h].id}
        /\ marked' \subseteq marked \cup {job[h].id}
    BY <1>0, <1>3 DEF MarkChallenged, InsertChallenge, InsertReward, HandlerOK, Job
  <2> QED
    BY <1>0, <1>1, <2>1 DEF TypeOK, HasRow
<1>4. CASE \/ Arrive(h) \/ Fail(h) \/ Validate(h) \/ CreateDataset(h) \/ GetDatasetById(h)
           \/ RecordVerdict(h) \/ SetContractInfo(h) \/ IndexDocument(h)
  <2>1. UNCHANGED <<verifications, challenges, rewards, marked>>
    BY <1>4 DEF Arrive, Fail, Validate, CreateDataset, GetDatasetById, RecordVerdict,
                SetContractInfo, IndexDocument, postgres
  <2> QED
    BY <1>0, <1>1, <2>1 DEF TypeOK, HasRow
<1> QED
  BY <1>2, <1>3, <1>4 DEF Step

LEMMA DocumentsStep ==
  ASSUME IInv, NEW h \in Handlers, Step(h)
  PROVE  documents' \in [Ids -> Row \cup {Absent}] /\ DocumentsBacked'
<1>0. TypeOK /\ HandlerOK(h) /\ DocumentsBacked /\ verifications \subseteq verifications'
  BY TrailGrows DEF IInv
<1>1. \A id \in Ids : rows[id] # Absent => rows'[id] # Absent
  BY RowsStay
<1>2. \A id \in Ids : \/ documents'[id] = documents[id]
                      \/ rows[id] # Absent /\ Backed(id, documents'[id])
  <2>1. CASE IndexDocument(h)
    BY <1>0, <2>1 DEF IndexDocument, TypeOK, HandlerOK, Job
  <2>2. CASE ~IndexDocument(h)
    BY <2>2 DEF Step, Arrive, Fail, Validate, CreateDataset, GetDatasetById, InsertVerification,
                RecordVerdict, MarkChallenged, InsertChallenge, InsertReward, SetContractInfo
  <2> QED
    BY <2>1, <2>2
<1>3. documents' \in [Ids -> Row \cup {Absent}]
  <2>1. CASE IndexDocument(h)
    BY <1>0, <2>1 DEF IndexDocument, TypeOK, HandlerOK, Job
  <2>2. CASE ~IndexDocument(h)
    BY <1>0, <2>2 DEF TypeOK, Step, Arrive, Fail, Validate, CreateDataset, GetDatasetById,
                InsertVerification, RecordVerdict, MarkChallenged, InsertChallenge, InsertReward,
                SetContractInfo
  <2> QED
    BY <2>1, <2>2
<1>4. ASSUME NEW id \in Ids
      PROVE  Backed(id, documents[id])' /\ (documents'[id] # Absent => rows'[id] # Absent)
  <2>1. Backed(id, documents'[id])
    BY <1>0, <1>2 DEF DocumentsBacked
  <2>2. Backed(id, documents[id])'
    BY <1>0, <2>1 DEF Backed
  <2> QED
    BY <1>0, <1>1, <1>2, <2>2 DEF DocumentsBacked
<1> QED
  BY <1>3, <1>4 DEF DocumentsBacked

-----------------------------------------------------------------------------
(* THE AUDIT TRAIL.  The one write that sets a verdict comes after the     *)
(* trail's; those that follow a verdict change its status to "challenged"  *)
(* or leave it alone.                                                      *)
LEMMA TrailStep ==
  ASSUME IInv, NEW h \in Handlers, Step(h)
  PROVE  VerdictTrail'
<1> SUFFICES ASSUME NEW id \in Ids PROVE Backed(id, rows[id])'
  BY DEF VerdictTrail
<1>0. /\ HandlerOK(h) /\ Backed(id, rows[id]) /\ rows[id] \in Row \cup {Absent}
      /\ verifications \subseteq verifications'
      /\ RowWritten(h, id)
  BY TrailGrows, RowStep DEF IInv, VerdictTrail, TypeOK
<1>1. Backed(id, rows'[id])
  <2>1. CASE rows'[id] = rows[id]
    BY <1>0, <2>1
  <2>2. CASE pc[h] = "create" /\ rows'[id] = row[h]
    BY <1>0, <2>2 DEF HandlerOK, Backed
  <2>3. CASE /\ id = job[h].id /\ pc[h] = "update" /\ rows[id] # Absent
             /\ rows'[id] = Merge(rows[id], Verdict(job[h].op))
    <3>1. job[h].op \in Verdicts /\ <<id, job[h].op>> \in verifications /\ rows[id] \in Row
      BY <1>0, <2>3 DEF HandlerOK
    <3>2. /\ rows'[id].status = Verdict(job[h].op).status
          /\ rows'[id].summary = Verdict(job[h].op).summary
      BY <2>3, <3>1, MergeVerdict
    <3> QED
      BY <3>1, <3>2, VerdictBacked
  <2>4. CASE rows[id] # Absent /\ rows'[id] = Merge(rows[id], [status |-> "challenged"])
    BY <1>0, <2>4, MergeMark DEF Backed
  <2>5. CASE rows[id] # Absent /\ rows'[id] = Merge(rows[id], [contractId |-> TRUE])
    BY <1>0, <2>5, MergeContract DEF Backed
  <2> QED
    BY <1>0, <2>1, <2>2, <2>3, <2>4, <2>5 DEF RowWritten
<1> QED
  BY <1>0, <1>1 DEF Backed

LEMMA RewardsStep ==
  ASSUME IInv, NEW h \in Handlers, Step(h)
  PROVE  RewardsBacked' /\ ChallengesMarked'
<1>0. /\ HandlerOK(h) /\ RewardsBacked /\ ChallengesMarked
      /\ verifications \subseteq verifications'
      /\ marked \subseteq marked'
  BY TrailGrows DEF IInv
<1>1. CASE InsertReward(h) \/ InsertChallenge(h)
  BY <1>0, <1>1 DEF InsertReward, InsertChallenge, HandlerOK, RewardsBacked, ChallengesMarked
<1>2. CASE ~(InsertReward(h) \/ InsertChallenge(h))
  <2>1. UNCHANGED <<rewards, challenges>>
    BY <1>2 DEF Step, Arrive, Fail, Validate, CreateDataset, GetDatasetById, InsertVerification,
                RecordVerdict, MarkChallenged, SetContractInfo, IndexDocument, postgres
  <2> QED
    BY <1>0, <2>1 DEF RewardsBacked, ChallengesMarked
<1> QED
  BY <1>1, <1>2

-----------------------------------------------------------------------------
(* What another handler relies on is not taken from it.                    *)
LEMMA OtherHandlers ==
  ASSUME IInv, NEW h \in Handlers, Step(h), NEW g \in Handlers \ {h}
  PROVE  HandlerOK(g)'
<1>1. /\ HandlerOK(g) /\ pc'[g] = pc[g] /\ job'[g] = job[g] /\ row'[g] = row[g]
      /\ verifications \subseteq verifications' /\ marked \subseteq marked'
  BY OthersKept, TrailGrows DEF IInv
<1>2. \A id \in Ids : rows[id] # Absent => rows'[id] # Absent
  BY RowsStay
<1>3. pc[g] # "idle" => job[g].id \in Ids
  BY <1>1 DEF HandlerOK, Job
<1>4. Backed(job[g].id, row[g]) => Backed(job[g].id, row[g])'
  BY <1>1 DEF Backed
<1> QED
  BY <1>1, <1>2, <1>3, <1>4 DEF HandlerOK

(* The handler itself gets to its next await with what it relies on there. *)
LEMMA OwnHandler ==
  ASSUME IInv, NEW h \in Handlers, Step(h)
  PROVE  HandlerOK(h)'
<1>0. TypeOK /\ HandlerOK(h)
  BY DEF IInv
<1>1. CASE Arrive(h)
  BY <1>0, <1>1 DEF Arrive, Entry, HandlerOK, TypeOK, Job, Verdicts
<1>2. CASE Fail(h) \/ InsertChallenge(h) \/ InsertReward(h) \/ IndexDocument(h)
  BY <1>0, <1>2 DEF Fail, InsertChallenge, InsertReward, IndexDocument, GoOn, HandlerOK, TypeOK
<1>3. CASE Validate(h)
  BY <1>0, <1>3 DEF Validate, GoOn, HandlerOK, TypeOK, Row
<1>4. CASE CreateDataset(h)
  <2>1. /\ job[h] \in Job /\ job[h].id \in Ids
        /\ row[h] \in Row /\ row[h].status = "pending"
        /\ rows' = [rows EXCEPT ![job[h].id] = row[h]]
        /\ AfterWrite(h, "index", row[h])
    BY <1>0, <1>4 DEF CreateDataset, HandlerOK, Job
  <2>2. rows'[job[h].id] # Absent
    BY <1>0, <2>1, AbsentIsNoRow DEF TypeOK
  <2> QED
    BY <1>0, <2>1, <2>2 DEF AfterWrite, GoOn, HandlerOK, TypeOK, Backed
<1>5. CASE GetDatasetById(h)
  <2> DEFINE id == job[h].id
             op == job[h].op
             r == rows[id]
  <2>1. /\ job[h] \in Job /\ id \in Ids /\ op \in Verdicts \cup {"challenge", "reward"}
        /\ UNCHANGED <<rows, verifications, marked>>
    BY <1>0, <1>5 DEF GetDatasetById, HandlerOK, Job, postgres
  <2>2. CASE Refused(op, r)
    BY <1>0, <1>5, <2>2 DEF GetDatasetById, GoOn, HandlerOK, TypeOK
  <2>3. CASE ~Refused(op, r)
    <3>1. r # Absent /\ (op = "reward" => <<id, "approve">> \in verifications)
      BY <2>1, <2>3 DEF Refused, IInv, VerdictTrail, Backed
    <3>2. pc'[h] = AfterRead(op) /\ job' = job
      BY <1>0, <1>5, <2>1, <2>3 DEF GetDatasetById, GoOn, AfterRead, TypeOK, Verdicts
    <3> QED
      BY <2>1, <3>1, <3>2 DEF AfterRead, HandlerOK, Verdicts
  <2> QED
    BY <2>2, <2>3
<1>6. CASE InsertVerification(h)
  <2>1. /\ job[h] \in Job /\ job[h].op \in Verdicts /\ rows' = rows
        /\ rows[job[h].id] # Absent
        /\ <<job[h].id, job[h].op>> \in verifications'
        /\ AfterWrite(h, "update", row[h])
    BY <1>0, <1>6 DEF InsertVerification, HandlerOK
  <2> QED
    BY <1>0, <2>1 DEF AfterWrite, GoOn, HandlerOK, TypeOK
<1>7. CASE RecordVerdict(h)
  <2>1. /\ job[h] \in Job /\ job[h].id \in Ids
        /\ rows[job[h].id] # Absent
        /\ AfterWrite(h, "index", rows'[job[h].id])
    BY <1>0, <1>7 DEF RecordVerdict, UpdateDataset, HandlerOK, Job, TypeOK
  <2>2. rows'[job[h].id] \in Row /\ rows'[job[h].id] # Absent
    BY <2>1, RowsStay
  <2>3. \A id \in Ids :
          /\ rows'[id].status = "indexed" => /\ rows'[id].summary = "valid"
                                             /\ <<id, "approve">> \in verifications'
          /\ rows'[id].status = "rejected" => /\ rows'[id].summary = "invalid"
                                              /\ <<id, "reject">> \in verifications'
    BY TrailStep DEF VerdictTrail, Backed
  <2> QED
    BY <1>0, <2>1, <2>2, <2>3 DEF AfterWrite, GoOn, HandlerOK, TypeOK, Backed
<1>8. CASE MarkChallenged(h)
  <2>1. /\ job[h] \in Job /\ job[h].id \in Ids
        /\ rows[job[h].id] # Absent
        /\ job[h].id \in marked'
        /\ AfterWrite(h, "open", rows'[job[h].id])
    BY <1>0, <1>8 DEF MarkChallenged, UpdateDataset, HandlerOK, Job, TypeOK
  <2>2. rows'[job[h].id] # Absent
    BY <2>1, RowsStay
  <2> QED
    BY <1>0, <2>1, <2>2 DEF AfterWrite, GoOn, HandlerOK, TypeOK
<1>9. CASE SetContractInfo(h)
  <2>1. \E got : AfterWrite(h, "idle", got)
    BY <1>9 DEF SetContractInfo, UpdateDataset
  <2> QED
    BY <1>0, <2>1 DEF AfterWrite, GoOn, HandlerOK, TypeOK
<1> QED
  BY <1>1, <1>2, <1>3, <1>4, <1>5, <1>6, <1>7, <1>8, <1>9 DEF Step

-----------------------------------------------------------------------------
(* The inductive invariant.                                                *)
LEMMA InitInvariant == Init => IInv
BY DEF Init, IInv, TypeOK, HandlerOK, VerdictTrail, DocumentsBacked, RewardsBacked,
       ChallengesMarked, Backed, Absent

LEMMA NextInvariant == IInv /\ [Next]_vars => IInv'
<1> SUFFICES ASSUME IInv, [Next]_vars PROVE IInv'
  OBVIOUS
<1>1. ASSUME NEW h \in Handlers, Step(h) PROVE IInv'
  <2>1. TypeOK'
    BY <1>1, RowsType, HandlerType, ChildrenType, DocumentsStep DEF TypeOK, HasRow
  <2>2. \A g \in Handlers : HandlerOK(g)'
    BY <1>1, OtherHandlers, OwnHandler
  <2> QED
    BY <1>1, <2>1, <2>2, TrailStep, DocumentsStep, RewardsStep DEF IInv
<1>2. CASE Restart
  BY <1>2 DEF Restart, postgres, IInv, TypeOK, HandlerOK, VerdictTrail, DocumentsBacked,
              RewardsBacked, ChallengesMarked, Backed
<1>3. CASE UNCHANGED vars
  BY <1>3 DEF vars, postgres, IInv, TypeOK, HandlerOK, VerdictTrail, DocumentsBacked,
              RewardsBacked, ChallengesMarked, Backed
<1> QED
  BY <1>1, <1>2, <1>3 DEF Next

(* At every await, what a handler relies on is so.                         *)
THEOREM Invariance == Spec => []IInv
BY InitInvariant, NextInvariant, PTL DEF Spec

(* TYPE CORRECTNESS: also, no verification, challenge or reward refers to  *)
(* a row that is not there.                                                *)
THEOREM TypeCorrect == Spec => []TypeOK
<1>1. IInv => TypeOK
  BY DEF IInv
<1> QED
  BY <1>1, Invariance, PTL

(* AUDIT TRAIL: no dataset is indexed or rejected without a verification   *)
(* of that verdict.                                                        *)
THEOREM EveryVerdictHasItsTrail == Spec => []VerdictTrail
<1>1. IInv => VerdictTrail
  BY DEF IInv
<1> QED
  BY <1>1, Invariance, PTL

(* THE SEARCH INDEX holds nothing the database did not.                    *)
THEOREM EveryDocumentIsBacked == Spec => []DocumentsBacked
<1>1. IInv => DocumentsBacked
  BY DEF IInv
<1> QED
  BY <1>1, Invariance, PTL

(* REWARDS: a reward only for what was once approved.                      *)
THEOREM EveryRewardIsBacked == Spec => []RewardsBacked
<1>1. IInv => RewardsBacked
  BY DEF IInv
<1> QED
  BY <1>1, Invariance, PTL

(* CHALLENGES: a challenge only for what was marked.                       *)
THEOREM EveryChallengeWasMarked == Spec => []ChallengesMarked
<1>1. IInv => ChallengesMarked
  BY DEF IInv
<1> QED
  BY <1>1, Invariance, PTL

(* NO LOST REGISTRATION: none of the writes that come from an older read   *)
(* touches it.                                                             *)
THEOREM RegistrationIsKept == Spec => RegistrationKept
<1>1. ASSUME IInv, [Next]_vars
      PROVE  [\A id \in Ids : rows[id].contractId => rows'[id].contractId]_rows
  <2>1. ASSUME NEW h \in Handlers, Step(h), NEW id \in Ids
        PROVE  rows[id].contractId => rows'[id].contractId
    <3>1. /\ RowWritten(h, id) /\ HandlerOK(h)
          /\ rows[id] \in Row \cup {Absent}
      BY <1>1, <2>1, RowStep DEF IInv, TypeOK
    <3>2. CASE rows'[id] = rows[id] \/ rows[id] = Absent
      BY <3>2 DEF Absent
    <3>3. CASE /\ pc[h] = "update" /\ rows[id] # Absent
               /\ rows'[id] = Merge(rows[id], Verdict(job[h].op))
      BY <3>1, <3>3, MergeVerdict DEF HandlerOK
    <3>4. CASE rows[id] # Absent /\ rows'[id] = Merge(rows[id], [status |-> "challenged"])
      BY <3>1, <3>4, MergeMark
    <3>5. CASE rows[id] # Absent /\ rows'[id] = Merge(rows[id], [contractId |-> TRUE])
      BY <3>1, <3>5, MergeContract
    <3> QED
      BY <3>1, <3>2, <3>3, <3>4, <3>5 DEF RowWritten
  <2>2. CASE Restart \/ UNCHANGED vars
    BY <2>2 DEF Restart, vars, postgres
  <2> QED
    BY <1>1, <2>1, <2>2 DEF Next
<1> QED
  BY <1>1, Invariance, PTL DEF Spec, RegistrationKept

-----------------------------------------------------------------------------
(* One request at a time.  What the read has found of the status is still  *)
(* so when the reward is inserted, because there is nobody to change it.   *)
OneAtATime == \A g, h \in Handlers : g = h

PaidAsRead == \A h \in Handlers : pc[h] = "pay" => rows[job[h].id].status = "indexed"

LEMMA PaidStep ==
  ASSUME OneAtATime, IInv, [Next]_vars, PaidAsRead
  PROVE  PaidAsRead'
<1>1. ASSUME NEW h \in Handlers, Step(h) PROVE PaidAsRead'
  <2> SUFFICES ASSUME pc'[h] = "pay" PROVE rows'[job'[h].id].status = "indexed"
    BY DEF OneAtATime, PaidAsRead
  <2>0. TypeOK /\ HandlerOK(h)
    BY DEF IInv
  <2>1. GetDatasetById(h)
    BY <1>1, <2>0 DEF Step, Arrive, Entry, Fail, Validate, CreateDataset, InsertVerification,
                      RecordVerdict, MarkChallenged, InsertChallenge, InsertReward,
                      SetContractInfo, IndexDocument, UpdateDataset, AfterWrite, GoOn, TypeOK
  <2>2. /\ ~Refused(job[h].op, rows[job[h].id]) /\ job' = job /\ rows' = rows
        /\ AfterRead(job[h].op) = "pay"
    BY <2>0, <2>1 DEF GetDatasetById, GoOn, TypeOK, postgres
  <2>3. job[h].op = "reward"
    BY <2>0, <2>1, <2>2 DEF GetDatasetById, HandlerOK, AfterRead, Verdicts
  <2> QED
    BY <2>2, <2>3 DEF Refused
<1>2. CASE Restart
  BY <1>2 DEF Restart, PaidAsRead
<1>3. CASE UNCHANGED vars
  BY <1>3 DEF vars, postgres, PaidAsRead
<1> QED
  BY <1>1, <1>2, <1>3 DEF Next

(* REWARDS, ONE REQUEST AT A TIME: "Dataset must be indexed before rewards *)
(* are disbursed" is kept by the check of the read as long as no other     *)
(* request comes in between, whatever fails and however often the process  *)
(* dies.  It is the interleaving alone that breaks it.                     *)
THEOREM OneAtATimeRewardsIndexed == ASSUME OneAtATime PROVE Spec => RewardWhileIndexed
<1>1. Init => PaidAsRead
  BY DEF Init, PaidAsRead
<1>2. IInv /\ PaidAsRead /\ [Next]_vars => PaidAsRead'
  BY PaidStep
<1>3. IInv /\ PaidAsRead /\ [Next]_vars
        => [\A id \in rewards' \ rewards : rows[id].status = "indexed"]_rewards
  <2> SUFFICES ASSUME IInv, PaidAsRead, [Next]_vars, NEW id \in rewards' \ rewards
               PROVE  rows[id].status = "indexed"
    OBVIOUS
  <2>1. PICK h \in Handlers : InsertReward(h)
    BY DEF Next, Restart, vars, postgres, Step, Arrive, Fail, Validate, CreateDataset,
           GetDatasetById, InsertVerification, RecordVerdict, MarkChallenged, InsertChallenge,
           SetContractInfo, IndexDocument
  <2> QED
    BY <2>1 DEF InsertReward, PaidAsRead
<1> QED
  BY <1>1, <1>2, <1>3, Invariance, PTL DEF Spec, RewardWhileIndexed
=============================================================================
