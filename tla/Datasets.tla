------------------------------ MODULE Datasets ------------------------------
(***************************************************************************)
(* The life of a dataset in the protocol API: services/dataService.ts,     *)
(* challengeService.ts and rewardService.ts over the repositories of       *)
(* Postgres and the search index of elasticService.ts.                     *)
(*                                                                         *)
(* Each request is a handler of its own that awaits one query after        *)
(* another, each query a transaction of its own.  Nothing locks a dataset  *)
(* between a handler's read and its write, a query may fail after it was   *)
(* applied, and the process may die with every request in flight.          *)
(***************************************************************************)
EXTENDS FiniteSets

CONSTANTS
  Handlers,      \* requests in flight, each slot used again and again
  Ids,           \* the ids a submission may draw
  HasValidator,  \* DATA_VALIDATOR_URL is set
  HasElastic     \* ELASTIC_NODE is set

ASSUME DatasetsAssumption == HasValidator \in BOOLEAN /\ HasElastic \in BOOLEAN

(* A row of protocol_datasets.  summary is validatorSummary.valid;         *)
(* contractId says whether metadata.contractDatasetId is set.              *)
Row == [status : {"pending", "indexed", "challenged", "rejected"},
        summary : {"none", "valid", "invalid"},
        contractId : BOOLEAN]

Absent == [status |-> "absent", summary |-> "none", contractId |-> FALSE]

(* A request: the operation and the dataset it names.  recordVerification  *)
(* comes with a verdict.                                                   *)
Verdicts == {"approve", "reject"}

Job == [op : {"submit", "challenge", "reward", "register"} \cup Verdicts, id : Ids]

NoJob == [op |-> "none"]

VARIABLES
  \* Postgres
  rows,            \* protocol_datasets
  verifications,   \* protocol_verifications, as pairs of dataset and verdict
  challenges,      \* datasets with a row in protocol_challenges
  rewards,         \* datasets with a row in protocol_reward_events
  \* ElasticSearch
  documents,       \* the indexed document of each dataset
  \* each handler
  job,             \* the request
  pc,              \* the await it is at
  row,             \* the dataset it has read or has got back
  \* observation
  marked           \* datasets whose status has been "challenged"

postgres == <<rows, verifications, challenges, rewards>>
vars == <<postgres, documents, job, pc, row, marked>>

-----------------------------------------------------------------------------
(* The handler goes on to its next await, with what it has got; "idle"     *)
(* when the request is answered.                                           *)
GoOn(h, label, got) ==
  /\ pc' = [pc EXCEPT ![h] = label]
  /\ job' = [job EXCEPT ![h] = IF label = "idle" THEN NoJob ELSE @]
  /\ row' = [row EXCEPT ![h] = IF label = "idle" THEN Absent ELSE got]

(* The same after a write: one that is reported as failed, applied or not, *)
(* rejects the handler, and next(error) answers with a 500.                *)
AfterWrite(h, label, got) == GoOn(h, label, got) \/ GoOn(h, "idle", got)

\* Mutant: the whole row the handler has read is written back.
UpdateDatasetMutant(h, columns, label) ==
  LET id == job[h].id
      old == IF row[h] = Absent THEN rows[id] ELSE row[h]
      new == [c \in DOMAIN old |-> IF c \in DOMAIN columns THEN columns[c] ELSE old[c]]
  IN /\ rows[id] # Absent
     /\ rows' = [rows EXCEPT ![id] = new]
     /\ AfterWrite(h, label, new)

(* UPDATE protocol_datasets SET ... WHERE id = ... RETURNING.  Only the    *)
(* columns of the request are in the SET list.                             *)
UpdateDataset(h, columns, label) ==
  LET id == job[h].id
      new == [c \in DOMAIN rows[id] |->
                IF c \in DOMAIN columns THEN columns[c] ELSE rows[id][c]]
  IN /\ rows[id] # Absent
     /\ rows' = [rows EXCEPT ![id] = new]
     /\ AfterWrite(h, label, new)

-----------------------------------------------------------------------------
Init == /\ rows = [id \in Ids |-> Absent]
        /\ verifications = {}
        /\ challenges = {}
        /\ rewards = {}
        /\ documents = [id \in Ids |-> Absent]
        /\ job = [h \in Handlers |-> NoJob]
        /\ pc = [h \in Handlers |-> "idle"]
        /\ row = [h \in Handlers |-> Absent]
        /\ marked = {}

(* The first await of each operation.                                      *)
Entry(op) == CASE op = "submit"    -> "validate"
               [] op = "register"  -> "setContract"
               [] OTHER            -> "read"

(* A request arrives.                                                      *)
Arrive(h) == /\ pc[h] = "idle"
             /\ \E j \in Job :
                  /\ job' = [job EXCEPT ![h] = j]
                  /\ pc' = [pc EXCEPT ![h] = Entry(j.op)]
             /\ UNCHANGED <<postgres, documents, row, marked>>

(* The query or call the handler awaits fails without effect: 4xx or 5xx.  *)
(* A failure of the search index is swallowed instead.                     *)
Fail(h) == /\ pc[h] \notin {"idle", "index"}
           /\ GoOn(h, "idle", Absent)
           /\ UNCHANGED <<postgres, documents, marked>>

(* The process dies with all its requests.                                 *)
Restart == /\ pc' = [h \in Handlers |-> "idle"]
           /\ job' = [h \in Handlers |-> NoJob]
           /\ row' = [h \in Handlers |-> Absent]
           /\ UNCHANGED <<postgres, documents, marked>>

-----------------------------------------------------------------------------
(* submitDataset: runValidator, which has no opinion without a validator   *)
(* or a sample; then the insert of a row under a fresh id.                 *)
Validate(h) ==
  /\ pc[h] = "validate"
  /\ \E s \in IF HasValidator THEN {"none", "valid", "invalid"} ELSE {"none"} :
       GoOn(h, "create", [status |-> "pending", summary |-> s, contractId |-> FALSE])
  /\ UNCHANGED <<postgres, documents, marked>>

CreateDataset(h) ==
  /\ pc[h] = "create"
  /\ rows[job[h].id] = Absent
  /\ rows' = [rows EXCEPT ![job[h].id] = row[h]]
  /\ AfterWrite(h, "index", row[h])
  /\ UNCHANGED <<verifications, challenges, rewards, documents, marked>>

-----------------------------------------------------------------------------
\* Mutant: the status is not looked at.
RefusedMutant(op, r) == r = Absent

\* Mutant: a dataset that is not there is not refused.
RefusedOnlyStatus(op, r) == \/ op = "challenge" /\ r.status = "rejected"
                            \/ op = "reward" /\ r.status # "indexed"

(* What is refused on the strength of the read: 404 for a dataset that is  *)
(* not there, 409 for a status that does not fit.                          *)
Refused(op, r) == \/ r = Absent
                  \/ op = "challenge" /\ r.status = "rejected"
                  \/ op = "reward" /\ r.status # "indexed"

AfterRead(op) == CASE op \in Verdicts   -> "trail"
                   [] op = "challenge" -> "mark"
                   [] op = "reward"    -> "pay"

GetDatasetById(h) ==
  LET r == rows[job[h].id]
  IN /\ pc[h] = "read"
     /\ GoOn(h, IF Refused(job[h].op, r) THEN "idle" ELSE AfterRead(job[h].op), r)
     /\ UNCHANGED <<postgres, documents, marked>>

-----------------------------------------------------------------------------
\* Mutant: the trail is not awaited, and its failure goes unnoticed.
InsertVerificationMutant(h) ==
  /\ pc[h] = "trail"
  /\ \E applied \in BOOLEAN :
       verifications' = IF applied THEN verifications \cup {<<job[h].id, job[h].op>>}
                        ELSE verifications
  /\ GoOn(h, "update", row[h])
  /\ UNCHANGED <<rows, challenges, rewards, documents, marked>>

(* recordVerification writes the audit trail first, ...                    *)
InsertVerification(h) ==
  /\ pc[h] = "trail"
  /\ verifications' = verifications \cup {<<job[h].id, job[h].op>>}
  /\ AfterWrite(h, "update", row[h])
  /\ UNCHANGED <<rows, challenges, rewards, documents, marked>>

Verdict(v) == IF v = "approve" THEN [status |-> "indexed", summary |-> "valid"]
                               ELSE [status |-> "rejected", summary |-> "invalid"]

(* ... then the verdict over whatever status the dataset has by now.       *)
RecordVerdict(h) ==
  /\ pc[h] = "update"
  /\ UpdateDataset(h, Verdict(job[h].op), "index")
  /\ UNCHANGED <<verifications, challenges, rewards, documents, marked>>

-----------------------------------------------------------------------------
\* Mutant: the mark is not awaited, and its failure goes unnoticed.
MarkChallengedMutant(h) ==
  /\ pc[h] = "mark"
  /\ GoOn(h, "open", row[h])
  /\ UNCHANGED <<postgres, documents, marked>>

(* createChallenge marks the dataset, then inserts the challenge.          *)
MarkChallenged(h) ==
  /\ pc[h] = "mark"
  /\ UpdateDataset(h, [status |-> "challenged"], "open")
  /\ marked' = marked \cup {job[h].id}
  /\ UNCHANGED <<verifications, challenges, rewards, documents>>

InsertChallenge(h) ==
  /\ pc[h] = "open"
  /\ challenges' = challenges \cup {job[h].id}
  /\ GoOn(h, "idle", Absent)
  /\ UNCHANGED <<rows, verifications, rewards, documents, marked>>

(* recordRewardDistribution: the event, on the strength of the read.       *)
InsertReward(h) ==
  /\ pc[h] = "pay"
  /\ rewards' = rewards \cup {job[h].id}
  /\ GoOn(h, "idle", Absent)
  /\ UNCHANGED <<rows, verifications, challenges, documents, marked>>

(* registerDatasetOnChain: one update of the metadata; the 404 of a     *)
(* dataset that is not there is Fail.                                      *)
SetContractInfo(h) ==
  /\ pc[h] = "setContract"
  /\ UpdateDataset(h, [contractId |-> TRUE], "idle")
  /\ UNCHANGED <<verifications, challenges, rewards, documents, marked>>

-----------------------------------------------------------------------------
\* Mutant: the submitted status is merged into the document by the client.
IndexDocumentMutant(h) ==
  /\ pc[h] = "index"
  /\ documents' = [documents EXCEPT ![job[h].id].status = row[h].status]
  /\ GoOn(h, "idle", Absent)
  /\ UNCHANGED <<postgres, marked>>

(* indexDatasetDocument: the row that came back from Postgres, if the      *)
(* search index is there and takes it.                                     *)
IndexDocument(h) ==
  /\ pc[h] = "index"
  /\ \E applied \in IF HasElastic THEN BOOLEAN ELSE {FALSE} :
       documents' = IF applied THEN [documents EXCEPT ![job[h].id] = row[h]] ELSE documents
  /\ GoOn(h, "idle", Absent)
  /\ UNCHANGED <<postgres, marked>>

Step(h) == \/ Arrive(h)
           \/ Fail(h)
           \/ Validate(h)
           \/ CreateDataset(h)
           \/ GetDatasetById(h)
           \/ InsertVerification(h)
           \/ RecordVerdict(h)
           \/ MarkChallenged(h)
           \/ InsertChallenge(h)
           \/ InsertReward(h)
           \/ SetContractInfo(h)
           \/ IndexDocument(h)

Next == Restart \/ \E h \in Handlers : Step(h)

Spec == Init /\ [][Next]_vars
-----------------------------------------------------------------------------
(* The variables have their declared types; a row that is not there has no *)
(* child rows.                                                             *)
TypeOK ==
  /\ rows \in [Ids -> Row \cup {Absent}]
  /\ verifications \subseteq Ids \X Verdicts
  /\ challenges \subseteq Ids
  /\ rewards \subseteq Ids
  /\ documents \in [Ids -> Row \cup {Absent}]
  /\ job \in [Handlers -> Job \cup {NoJob}]
  /\ pc \in [Handlers -> {"idle", "validate", "create", "read", "trail", "update", "mark",
                          "open", "pay", "setContract", "index"}]
  /\ row \in [Handlers -> Row \cup {Absent}]
  /\ marked \subseteq Ids
  /\ \A id \in Ids : rows[id] = Absent =>
       id \notin {v[1] : v \in verifications} \cup challenges \cup rewards \cup marked

(* A row agrees with the verdict it carries, and the audit trail has it.   *)
Backed(id, r) ==
  /\ r.status = "indexed"  => r.summary = "valid" /\ <<id, "approve">> \in verifications
  /\ r.status = "rejected" => r.summary = "invalid" /\ <<id, "reject">> \in verifications

(* AUDIT TRAIL.  Whatever fails or dies in between, no dataset is indexed  *)
(* or rejected without a verification of that verdict in the trail.        *)
VerdictTrail == \A id \in Ids : Backed(id, rows[id])

(* THE SEARCH INDEX IS BACKED.  Updates of the index overtake one another  *)
(* and get lost, so that a document may be old; but it is one the database *)
(* had: it agrees with a verdict of the trail.                             *)
DocumentsBacked ==
  \A id \in Ids : /\ Backed(id, documents[id])
                  /\ documents[id] # Absent => rows[id] # Absent

(* Rewards go only to datasets that were approved at some time, though the *)
(* status may have changed between the check and the insert.               *)
RewardsBacked == \A id \in rewards : <<id, "approve">> \in verifications

(* A challenge is never on record for a dataset that was not marked: the   *)
(* status is written first, and a crash between the two leaves a mark      *)
(* without a challenge and not the other way round.                        *)
ChallengesMarked == challenges \subseteq marked

(* NO LOST REGISTRATION.  A verdict or a challenge computed from an older  *)
(* read does not undo a registration that came in between.                 *)
RegistrationKept ==
  [][\A id \in Ids : rows[id].contractId => rows'[id].contractId]_rows

(* rewardService.ts: "Dataset must be indexed before rewards are           *)
(* disbursed".  It is indexed when the reward is inserted.                 *)
RewardWhileIndexed ==
  [][\A id \in rewards' \ rewards : rows[id].status = "indexed"]_rewards
=============================================================================
