----------------------------- MODULE PoolProofs -----------------------------
(***************************************************************************)
(* Theorems about the pool of RPC endpoints that the callers of a process  *)
(* share, for any number of callers, endpoints, tries and slots.           *)
(*                                                                         *)
(* A job is in one place: JobsOK says so without counting, and is what the *)
(* steps keep.  OneBadOK is the argument about rotations: while a working  *)
(* endpoint is current, fewer callers can still rotate the pool than it    *)
(* takes to get back to the broken one, so it never does.                  *)
(***************************************************************************)
EXTENDS RpcPool, FiniteSetTheorems, TLAPS

Jobs == Callers \cup {Abandoned}

SlotType == {Free} \cup [caller : Jobs, endpoint : Endpoints]

PcType == {"idle", "waiting", "pausing"}

(* TypeOK without its count of jobs.                                       *)
PlainTypes ==
  /\ behaviour \in Behaviours
  /\ currentRpcIndex \in Endpoints
  /\ queue \in Seq(Jobs)
  /\ slots \in [SlotIds -> SlotType]
  /\ pc \in [Callers -> PcType]
  /\ round \in [Callers -> Endpoints]
  /\ try \in [Callers -> 0 .. Attempts]
  /\ outcome \in [Callers -> {"none", "answered", "failed", "exhausted"}]

(* The count of jobs in terms of places: a caller is in one of them if it  *)
(* waits, and in none if it does not.                                      *)
JobOK(c) ==
  /\ \A i, j \in Queued(c) : i = j
  /\ \A s, t \in Running(c) : s = t
  /\ Queued(c) = {} \/ Running(c) = {}
  /\ pc[c] = "waiting" <=> Queued(c) # {} \/ Running(c) # {}

JobsOK == \A c \in Callers : JobOK(c)

-----------------------------------------------------------------------------
(* One of two finite sets has one element and the other none.              *)
LEMMA OneOfTwo ==
  ASSUME NEW A, NEW B, IsFiniteSet(A), IsFiniteSet(B), NEW w \in BOOLEAN
  PROVE  (Cardinality(A) + Cardinality(B) = IF w THEN 1 ELSE 0)
           <=> /\ \A x, y \in A : x = y
               /\ \A x, y \in B : x = y
               /\ A = {} \/ B = {}
               /\ w <=> A # {} \/ B # {}
<1>1. Cardinality(A) \in Nat /\ Cardinality(B) \in Nat
  BY FS_CardinalityType
<1>2. (Cardinality(A) = 0 <=> A = {}) /\ (Cardinality(B) = 0 <=> B = {})
  BY FS_EmptySet
<1>3. (Cardinality(A) = 1 <=> \E x : A = {x}) /\ (Cardinality(B) = 1 <=> \E x : B = {x})
  BY FS_Singleton
<1>4. ASSUME NEW S PROVE (\E x : S = {x}) <=> S # {} /\ \A x, y \in S : x = y
  <2>1. ASSUME S # {}, \A x, y \in S : x = y PROVE \E x : S = {x}
    <3>1. PICK z : z \in S
      BY <2>1
    <3>2. S = {z}
      BY <2>1, <3>1
    <3> QED
      BY <3>2
  <2> QED
    BY <2>1
<1>5. /\ Cardinality(A) = 1 <=> A # {} /\ \A x, y \in A : x = y
      /\ Cardinality(B) = 1 <=> B # {} /\ \A x, y \in B : x = y
  BY <1>3, <1>4
<1>6. CASE A = {}
  BY <1>1, <1>2, <1>5, <1>6
<1>7. CASE B = {}
  BY <1>1, <1>2, <1>5, <1>7
<1>8. CASE A # {} /\ B # {}
  BY <1>1, <1>2, <1>8
<1> QED
  BY <1>6, <1>7, <1>8

LEMMA JobsCounted ==
  ASSUME PlainTypes
  PROVE  TypeOK <=> JobsOK
<1>1. ASSUME NEW c \in Callers
      PROVE  Cardinality(Queued(c)) + Cardinality(Running(c))
               = (IF pc[c] = "waiting" THEN 1 ELSE 0) <=> JobOK(c)
  <2>1. Queued(c) \subseteq 1 .. Len(queue) /\ Len(queue) \in Nat
    BY DEF Queued, PlainTypes
  <2>2. Running(c) \subseteq 1 .. MaxConcurrent /\ MaxConcurrent \in Nat
    BY RpcPoolAssumption DEF Running, SlotIds
  <2>3. IsFiniteSet(1 .. Len(queue)) /\ IsFiniteSet(1 .. MaxConcurrent)
    BY <2>1, <2>2, FS_Interval
  <2>4. IsFiniteSet(Queued(c)) /\ IsFiniteSet(Running(c))
    BY <2>1, <2>2, <2>3, FS_Subset
  <2> QED
    BY <2>4, OneOfTwo DEF JobOK
<1> QED
  BY <1>1 DEF TypeOK, PlainTypes, JobsOK, Jobs, SlotType, PcType

-----------------------------------------------------------------------------
(* What each operation on the limiter does to the jobs of a caller.        *)
LEMMA CallersAreReal ==
  \A c \in Callers : c # Abandoned /\ c # Free.caller
BY RpcPoolAssumption

LEMMA Scheduled ==
  ASSUME PlainTypes, NEW c \in Callers, Schedule(c)
  PROVE  /\ queue' \in Seq(Jobs)
         /\ Queued(c)' = Queued(c) \cup {Len(queue) + 1}
         /\ \A d \in Callers \ {c} : Queued(d)' = Queued(d)
<1>1. queue' = Append(queue, c) /\ queue \in Seq(Jobs) /\ c \in Jobs
  BY DEF Schedule, PlainTypes, Jobs
<1>2. /\ queue' \in Seq(Jobs) /\ Len(queue) \in Nat /\ Len(queue') = Len(queue) + 1
      /\ \A i \in 1 .. Len(queue) : queue'[i] = queue[i]
      /\ queue'[Len(queue) + 1] = c
  BY <1>1
<1> QED
  BY <1>1, <1>2 DEF Queued

LEMMA Started ==
  ASSUME PlainTypes, NEW s \in SlotIds, StartJob(s)
  PROVE  /\ queue' \in Seq(Jobs) /\ slots' \in [SlotIds -> SlotType]
         /\ \A c \in Callers :
              \/ /\ 1 \in Queued(c)
                 /\ Queued(c)' = {i - 1 : i \in Queued(c) \ {1}}
                 /\ Running(c)' = Running(c) \cup {s}
              \/ /\ 1 \notin Queued(c)
                 /\ Queued(c)' = {i - 1 : i \in Queued(c)}
                 /\ Running(c)' = Running(c)
<1>1. /\ queue \in Seq(Jobs) /\ queue # <<>> /\ queue' = Tail(queue)
      /\ slots \in [SlotIds -> SlotType] /\ slots[s] = Free
      /\ slots' = [slots EXCEPT ![s] = [caller |-> Head(queue), endpoint |-> currentRpcIndex]]
      /\ currentRpcIndex \in Endpoints
  BY DEF StartJob, PlainTypes
<1>2. /\ queue' \in Seq(Jobs) /\ Len(queue) \in Nat \ {0} /\ Len(queue') = Len(queue) - 1
      /\ \A i \in 1 .. Len(queue') : queue'[i] = queue[i + 1]
      /\ Head(queue) = queue[1] /\ Head(queue) \in Jobs
  BY <1>1
<1>3. slots' \in [SlotIds -> SlotType]
  BY <1>1, <1>2 DEF SlotType
<1>4. ASSUME NEW c \in Callers
      PROVE  /\ 1 \in Queued(c) <=> Head(queue) = c
             /\ Queued(c)' = {i - 1 : i \in Queued(c) \ {1}}
             /\ Running(c)' = IF Head(queue) = c THEN Running(c) \cup {s} ELSE Running(c)
  <2>1. Queued(c) = {i \in 1 .. Len(queue) : queue[i] = c}
    BY <1>1 DEF Queued
  <2>2. Queued(c)' = {i \in 1 .. Len(queue) - 1 : queue[i + 1] = c}
    BY <1>2 DEF Queued
  <2>3. Queued(c)' = {i - 1 : i \in Queued(c) \ {1}}
    <3>1. ASSUME NEW i \in Queued(c)' PROVE i + 1 \in Queued(c) \ {1} /\ i = (i + 1) - 1
      BY <1>2, <2>1, <2>2
    <3>2. ASSUME NEW i \in Queued(c) \ {1} PROVE i - 1 \in Queued(c)'
      BY <1>2, <2>1, <2>2
    <3> QED
      BY <3>1, <3>2
  <2>4. slots[s].caller # c
    BY <1>1, CallersAreReal
  <2> QED
    BY <1>1, <1>2, <2>1, <2>3, <2>4 DEF Running
<1> QED
  BY <1>2, <1>3, <1>4

(* A slot that is freed loses the job it had, and no other.                *)
LEMMA Freed ==
  ASSUME PlainTypes, NEW s \in SlotIds, slots' = [slots EXCEPT ![s] = Free]
  PROVE  /\ slots' \in [SlotIds -> SlotType]
         /\ \A c \in Callers : Running(c)' = Running(c) \ {s}
BY CallersAreReal DEF PlainTypes, SlotType, Running

LEMMA JobsAbandoned ==
  ASSUME PlainTypes, NEW c \in Callers, Abandon(c)
  PROVE  /\ queue' \in Seq(Jobs) /\ slots' \in [SlotIds -> SlotType]
         /\ Queued(c)' = {} /\ Running(c)' = {}
         /\ \A d \in Callers \ {c} : Queued(d)' = Queued(d) /\ Running(d)' = Running(d)
<1>1. /\ queue \in Seq(Jobs) /\ Len(queue) \in Nat /\ DOMAIN queue = 1 .. Len(queue)
      /\ queue' = [i \in 1 .. Len(queue) |-> IF queue[i] = c THEN Abandoned ELSE queue[i]]
  BY DEF Abandon, PlainTypes
<1>2. queue' \in Seq(Jobs) /\ DOMAIN queue' = 1 .. Len(queue)
  BY <1>1 DEF Jobs
<1>3. slots' = [t \in SlotIds |-> IF slots[t].caller = c
                                  THEN [slots[t] EXCEPT !.caller = Abandoned]
                                  ELSE slots[t]]
  BY DEF Abandon
<1>4. ASSUME NEW t \in SlotIds
      PROVE  /\ slots'[t] \in SlotType
             /\ slots'[t].caller = IF slots[t].caller = c THEN Abandoned ELSE slots[t].caller
  <2>1. slots[t] \in SlotType
    BY DEF PlainTypes
  <2>2. CASE slots[t].caller = c
    <3>1. slots[t] \in [caller : Jobs, endpoint : Endpoints]
      BY <2>1, <2>2, CallersAreReal DEF SlotType
    <3> QED
      BY <1>3, <2>2, <3>1 DEF SlotType, Jobs
  <2> QED
    BY <1>3, <2>1, <2>2
<1>5. slots' \in [SlotIds -> SlotType]
  BY <1>3, <1>4
<1> QED
  BY <1>1, <1>2, <1>4, <1>5, CallersAreReal DEF Queued, Running

-----------------------------------------------------------------------------
LEMMA Successor ==
  ASSUME NEW e \in Endpoints
  PROVE  (e + 1) % N = IF e + 1 = N THEN 0 ELSE e + 1
<1>1. \A n \in Nat \ {0} : n % n = 0
  OBVIOUS
<1>2. \A n \in Nat \ {0} : \A k \in 0 .. n - 1 : k % n = k
  OBVIOUS
<1> QED
  BY <1>1, <1>2, RpcPoolAssumption DEF Endpoints

LEMMA RotateType ==
  ASSUME PlainTypes, Rotate
  PROVE  currentRpcIndex' \in Endpoints
BY Successor, RpcPoolAssumption DEF PlainTypes, Rotate, Endpoints

PausesOK == \A c \in Callers : pc[c] = "pausing" => try[c] < Attempts

Sound == PlainTypes /\ JobsOK /\ PausesOK

(* The ends of a call and of a try, for the caller that comes to one.      *)
LEMMA ReturnKeeps ==
  ASSUME PlainTypes, PausesOK, NEW c \in Callers,
         NEW how \in {"answered", "failed", "exhausted"}, Return(c, how)
  PROVE  /\ pc' \in [Callers -> PcType] /\ round' \in [Callers -> Endpoints]
         /\ try' \in [Callers -> 0 .. Attempts]
         /\ outcome' \in [Callers -> {"none", "answered", "failed", "exhausted"}]
         /\ pc'[c] # "waiting" /\ \A d \in Callers \ {c} : pc'[d] = pc[d]
         /\ PausesOK'
BY RpcPoolAssumption DEF PlainTypes, Return, PcType, Endpoints, PausesOK

LEMMA PauseKeeps ==
  ASSUME PlainTypes, PausesOK, NEW c \in Callers, Pause(c)
  PROVE  /\ pc' \in [Callers -> PcType]
         /\ pc'[c] # "waiting" /\ \A d \in Callers \ {c} : pc'[d] = pc[d]
         /\ PausesOK'
BY DEF PlainTypes, Pause, PcType, PausesOK

(* The caller of a running job waits for it.                               *)
LEMMA RunningWaits ==
  ASSUME Sound, NEW c \in Callers, NEW s \in SlotIds, slots[s].caller = c
  PROVE  pc[c] = "waiting" /\ Queued(c) = {} /\ Running(c) = {s}
BY DEF Sound, JobsOK, JobOK, Running

-----------------------------------------------------------------------------
(* Every action keeps the types and the count of jobs.                     *)
LEMMA CallKeeps == ASSUME Sound, NEW c \in Callers, Call(c) PROVE Sound'
<1>1. PlainTypes /\ Schedule(c) /\ pc[c] = "idle" /\ slots' = slots
  BY DEF Sound, Call
<1>2. PlainTypes' /\ PausesOK'
  BY <1>1, Scheduled, RpcPoolAssumption
  DEF Sound, PlainTypes, PausesOK, Call, PcType, Endpoints
<1>3. Queued(c) = {} /\ Running(c) = {}
  BY <1>1 DEF Sound, JobsOK, JobOK
<1>4. \A d \in Callers : Running(d)' = Running(d)
  BY <1>1 DEF Running
<1>5. pc'[c] = "waiting" /\ \A d \in Callers \ {c} : pc'[d] = pc[d]
  BY <1>1 DEF Call, PlainTypes
<1>6. JobOK(c)'
  BY <1>1, <1>3, <1>4, <1>5, Scheduled DEF JobOK
<1>7. \A d \in Callers \ {c} : JobOK(d)'
  BY <1>1, <1>4, <1>5, Scheduled DEF Sound, JobsOK, JobOK
<1> QED
  BY <1>2, <1>6, <1>7 DEF Sound, JobsOK

LEMMA TryAgainKeeps == ASSUME Sound, NEW c \in Callers, TryAgain(c) PROVE Sound'
<1>1. PlainTypes /\ Schedule(c) /\ pc[c] = "pausing" /\ slots' = slots
  BY DEF Sound, TryAgain
<1>2. try' \in [Callers -> 0 .. Attempts]
  BY <1>1, RpcPoolAssumption DEF PlainTypes, TryAgain, Sound, PausesOK
<1>3. PlainTypes' /\ PausesOK'
  BY <1>1, <1>2, Scheduled DEF Sound, PlainTypes, PausesOK, TryAgain, PcType
<1>4. Queued(c) = {} /\ Running(c) = {}
  BY <1>1 DEF Sound, JobsOK, JobOK
<1>5. \A d \in Callers : Running(d)' = Running(d)
  BY <1>1 DEF Running
<1>6. pc'[c] = "waiting" /\ \A d \in Callers \ {c} : pc'[d] = pc[d]
  BY <1>1 DEF TryAgain, PlainTypes
<1>7. JobOK(c)'
  BY <1>1, <1>4, <1>5, <1>6, Scheduled DEF JobOK
<1>8. \A d \in Callers \ {c} : JobOK(d)'
  BY <1>1, <1>5, <1>6, Scheduled DEF Sound, JobsOK, JobOK
<1> QED
  BY <1>3, <1>7, <1>8 DEF Sound, JobsOK

LEMMA StartJobKeeps == ASSUME Sound, NEW s \in SlotIds, StartJob(s) PROVE Sound'
<1>1. UNCHANGED <<behaviour, currentRpcIndex, calls>>
  BY DEF StartJob
<1>2. PlainTypes' /\ PausesOK'
  BY <1>1, Started DEF Sound, PlainTypes, PausesOK, calls
<1>3. ASSUME NEW c \in Callers PROVE JobOK(c)'
  <2>1. JobOK(c) /\ Queued(c) \subseteq Int /\ pc'[c] = pc[c]
    BY <1>1 DEF Sound, JobsOK, PlainTypes, Queued, calls
  <2>2. CASE 1 \in Queued(c)
    <3>1. Queued(c) = {1} /\ Running(c) = {}
      BY <2>1, <2>2 DEF JobOK
    <3>2. Queued(c)' = {} /\ Running(c)' = {s}
      BY <2>2, <3>1, Started DEF Sound
    <3> QED
      BY <2>1, <3>1, <3>2 DEF JobOK
  <2>3. CASE 1 \notin Queued(c)
    <3>1. Queued(c)' = {i - 1 : i \in Queued(c)} /\ Running(c)' = Running(c)
      BY <2>3, Started DEF Sound
    <3>2. Queued(c)' = {} <=> Queued(c) = {}
      BY <3>1
    <3>3. \A i, j \in Queued(c)' : i = j
      BY <2>1, <3>1 DEF JobOK
    <3> QED
      BY <2>1, <3>1, <3>2, <3>3 DEF JobOK
  <2> QED
    BY <2>2, <2>3
<1> QED
  BY <1>2, <1>3 DEF Sound, JobsOK

LEMMA DiscardKeeps == ASSUME Sound, NEW s \in SlotIds, Discard(s) PROVE Sound'
<1>1. /\ slots' = [slots EXCEPT ![s] = Free] /\ slots[s].caller = Abandoned
      /\ UNCHANGED <<behaviour, currentRpcIndex, queue, calls>>
  BY DEF Discard
<1>2. PlainTypes' /\ PausesOK'
  BY <1>1, Freed DEF Sound, PlainTypes, PausesOK, calls
<1>3. \A c \in Callers : s \notin Running(c) /\ Queued(c)' = Queued(c) /\ pc'[c] = pc[c]
  BY <1>1, CallersAreReal DEF Running, Queued, calls
<1>4. \A c \in Callers : Running(c)' = Running(c) \ {s}
  BY <1>1, Freed DEF Sound
<1> QED
  BY <1>2, <1>3, <1>4 DEF Sound, JobsOK, JobOK

LEMMA TimeoutKeeps == ASSUME Sound, NEW c \in Callers, Timeout(c) PROVE Sound'
<1>1. /\ PlainTypes /\ PausesOK /\ Abandon(c) /\ UNCHANGED <<behaviour, currentRpcIndex>>
      /\ Pause(c) \/ GiveUp(c)
  BY DEF Timeout, Sound
<1>2. /\ PlainTypes' /\ PausesOK'
      /\ pc'[c] # "waiting" /\ \A d \in Callers \ {c} : pc'[d] = pc[d]
  <2>1. CASE Pause(c)
    BY <1>1, <2>1, PauseKeeps, JobsAbandoned DEF PlainTypes, Pause
  <2>2. CASE GiveUp(c)
    BY <1>1, <2>2, ReturnKeeps, JobsAbandoned DEF PlainTypes, GiveUp
  <2> QED
    BY <1>1, <2>1, <2>2
<1>3. JobOK(c)'
  BY <1>1, <1>2, JobsAbandoned DEF JobOK
<1>4. \A d \in Callers \ {c} : JobOK(d)'
  BY <1>1, <1>2, JobsAbandoned DEF Sound, JobsOK, JobOK
<1> QED
  BY <1>2, <1>3, <1>4 DEF Sound, JobsOK

LEMMA ReplyKeeps == ASSUME Sound, NEW s \in SlotIds, Reply(s) PROVE Sound'
<1>0. PICK c \in Callers : c = slots[s].caller
  BY DEF Reply
<1>1. /\ slots[s].caller = c /\ PlainTypes /\ PausesOK
      /\ slots' = [slots EXCEPT ![s] = Free] /\ behaviour' = behaviour
  BY <1>0 DEF Reply, Sound
<1>2. pc[c] = "waiting" /\ Queued(c) = {} /\ Running(c) = {s}
  BY <1>1, RunningWaits
<1>3. /\ Running(c)' = {} /\ slots' \in [SlotIds -> SlotType]
      /\ \A d \in Callers \ {c} : Running(d)' = Running(d)
  <2>1. slots' \in [SlotIds -> SlotType] /\ \A d \in Callers : Running(d)' = Running(d) \ {s}
    BY <1>1, Freed
  <2>2. \A d \in Callers \ {c} : s \notin Running(d)
    BY <1>1 DEF Running
  <2> QED
    BY <1>2, <2>1, <2>2
(* The call ends or pauses, and has no job any more.                       *)
<1>4. ASSUME PlainTypes', PausesOK', queue' = queue,
             pc'[c] # "waiting", \A d \in Callers \ {c} : pc'[d] = pc[d]
      PROVE  Sound'
  <2>1. \A d \in Callers : Queued(d)' = Queued(d)
    BY <1>4 DEF Queued
  <2>2. JobOK(c)'
    BY <1>1, <1>2, <1>3, <1>4, <2>1 DEF JobOK
  <2>3. \A d \in Callers \ {c} : JobOK(d)'
    BY <1>3, <1>4, <2>1 DEF Sound, JobsOK, JobOK
  <2> QED
    BY <1>4, <2>2, <2>3 DEF Sound, JobsOK
(* It goes on at the next endpoint, and has a job in the queue.            *)
<1>5. ASSUME PlainTypes', PausesOK', Schedule(c), pc' = pc
      PROVE  Sound'
  <2>1. JobOK(c)'
    BY <1>1, <1>2, <1>3, <1>5, Scheduled DEF JobOK
  <2>2. \A d \in Callers \ {c} : JobOK(d)'
    BY <1>1, <1>3, <1>5, Scheduled DEF Sound, JobsOK, JobOK
  <2> QED
    BY <1>5, <2>1, <2>2 DEF Sound, JobsOK
<1>6. CASE Return(c, "answered") /\ UNCHANGED <<currentRpcIndex, queue>>
  BY <1>1, <1>3, <1>4, <1>6, ReturnKeeps DEF PlainTypes
<1>7. CASE Pause(c) /\ UNCHANGED <<currentRpcIndex, queue>>
  BY <1>1, <1>3, <1>4, <1>7, PauseKeeps DEF PlainTypes, Pause
<1>8. CASE FailOver(c)
  <2>1. currentRpcIndex' \in Endpoints
    BY <1>1, <1>8, RotateType DEF FailOver
  <2>2. CASE /\ round[c] + 1 < N
             /\ round' = [round EXCEPT ![c] = @ + 1]
             /\ try' = [try EXCEPT ![c] = 1]
             /\ Schedule(c)
             /\ UNCHANGED <<pc, outcome>>
    <3>1. round' \in [Callers -> Endpoints] /\ try' \in [Callers -> 0 .. Attempts]
      BY <1>1, <2>2, RpcPoolAssumption DEF PlainTypes, Endpoints
    <3>2. PlainTypes' /\ PausesOK'
      BY <1>1, <1>2, <1>3, <2>1, <2>2, <3>1, Scheduled DEF PlainTypes, PausesOK
    <3> QED
      BY <1>5, <2>2, <3>2
  <2>3. CASE /\ round[c] + 1 = N
             /\ Return(c, "exhausted")
             /\ UNCHANGED queue
    BY <1>1, <1>3, <1>4, <2>1, <2>3, ReturnKeeps DEF PlainTypes
  <2> QED
    BY <1>8, <2>2, <2>3 DEF FailOver
<1>9. CASE GiveUp(c) /\ UNCHANGED <<currentRpcIndex, queue>>
  BY <1>1, <1>3, <1>4, <1>9, ReturnKeeps DEF PlainTypes, GiveUp
<1> QED
  BY <1>1, <1>6, <1>7, <1>8, <1>9 DEF Reply

LEMMA SoundInit == Init => Sound
<1> SUFFICES ASSUME Init PROVE Sound
  OBVIOUS
<1>1. PlainTypes /\ PausesOK
  BY RpcPoolAssumption DEF Init, PlainTypes, PausesOK, PcType, SlotType, Endpoints
<1>2. \A c \in Callers : Queued(c) = {} /\ Running(c) = {} /\ pc[c] # "waiting"
  BY CallersAreReal DEF Init, Queued, Running
<1> QED
  BY <1>1, <1>2 DEF Sound, JobsOK, JobOK

LEMMA SoundNext == Sound /\ [Next]_vars => Sound'
<1> SUFFICES ASSUME Sound, [Next]_vars PROVE Sound'
  OBVIOUS
<1>1. CASE UNCHANGED vars
  BY <1>1 DEF vars, context, calls, Sound, PlainTypes, JobsOK, JobOK, PausesOK, Queued, Running
<1> QED
  BY <1>1, CallKeeps, TryAgainKeeps, TimeoutKeeps, StartJobKeeps, ReplyKeeps, DiscardKeeps
  DEF Next

(* ONE JOB FOR A CALLER THAT WAITS, none for any other, and every variable *)
(* has its type, whatever the endpoints do and however late their replies. *)
THEOREM PoolTypes == Spec => []TypeOK
<1>1. Sound => TypeOK
  BY JobsCounted DEF Sound
<1> QED
  BY <1>1, SoundInit, SoundNext, PTL DEF Spec

-----------------------------------------------------------------------------
(* One endpoint refuses.  Armed are the callers with a job at it: they can *)
(* rotate the pool.  Away are the rotations until it is current again.     *)
OnlyRefuses(b) == {e \in Endpoints : behaviour[e] = "refuses"} = {b}

Armed(b) == {c \in Callers : \E s \in SlotIds : slots[s].caller = c /\ slots[s].endpoint = b}

Away(b) == IF currentRpcIndex <= b THEN b - currentRpcIndex ELSE b - currentRpcIndex + N

(* Once the pool has left b, those that are armed are too few to bring it  *)
(* back, and who has failed over is not armed again.                       *)
OneBadOK(b) ==
  /\ currentRpcIndex # b => Cardinality(Armed(b)) < Away(b)
  /\ \A c \in Callers : round[c] = 0 \/ /\ round[c] = 1
                                        /\ currentRpcIndex # b
                                        /\ c \notin Armed(b)
  /\ \A c \in Callers : outcome[c] # "exhausted"

FewCallers == Cardinality(Callers) < N

LEMMA ArmedFinite ==
  ASSUME NEW b
  PROVE  /\ Armed(b) \subseteq Callers /\ IsFiniteSet(Armed(b)) /\ IsFiniteSet(Armed(b)')
         /\ Cardinality(Armed(b)) \in Nat /\ Cardinality(Armed(b)') \in Nat
         /\ Cardinality(Armed(b)) <= Cardinality(Callers) /\ Cardinality(Callers) \in Nat
<1>1. Armed(b) \subseteq Callers /\ Armed(b)' \subseteq Callers
  BY DEF Armed
<1>2. IsFiniteSet(Callers)
  BY RpcPoolAssumption
<1> QED
  BY <1>1, <1>2, FS_Subset, FS_CardinalityType

(* A step that does not rotate the pool, arms nobody unless b is current,  *)
(* and ends no call as exhausted.                                          *)
LEMMA QuietStep ==
  ASSUME Sound, NEW b \in Endpoints, OneBadOK(b),
         currentRpcIndex' = currentRpcIndex,
         Armed(b)' \subseteq Armed(b) \/ currentRpcIndex = b,
         \A c \in Callers : round'[c] = round[c] \/ round'[c] = 0,
         \A c \in Callers : outcome'[c] # "exhausted"
  PROVE  OneBadOK(b)'
<1>1. CASE currentRpcIndex = b
  BY <1>1 DEF OneBadOK
<1>2. CASE currentRpcIndex # b
  <2>1. Cardinality(Armed(b)') <= Cardinality(Armed(b))
    BY <1>2, ArmedFinite, FS_Subset
  <2>2. Away(b)' = Away(b) /\ Away(b) \in Int
    BY RpcPoolAssumption DEF Away, Sound, PlainTypes, Endpoints
  <2>3. Cardinality(Armed(b)') < Away(b)'
    BY <1>2, <2>1, <2>2, ArmedFinite DEF OneBadOK
  <2> QED
    BY <1>2, <2>3 DEF OneBadOK
<1> QED
  BY <1>1, <1>2

(* A caller fails over: it was armed, and is no longer.                    *)
LEMMA FailOverStep ==
  ASSUME Sound, NEW b \in Endpoints, OneBadOK(b), FewCallers,
         NEW s \in SlotIds, NEW c \in Callers,
         slots[s].caller = c, slots[s].endpoint = b,
         slots' = [slots EXCEPT ![s] = Free], FailOver(c)
  PROVE  OneBadOK(b)' /\ currentRpcIndex' # b
<1> DEFINE n == Cardinality(Armed(b))
           m == Cardinality(Armed(b)')
<1>1. c \in Armed(b) /\ round[c] = 0 /\ Running(c) = {s}
  BY RunningWaits DEF Armed, OneBadOK
<1>2. Armed(b)' = Armed(b) \ {c}
  <2>1. \A t \in SlotIds : slots'[t] = IF t = s THEN Free ELSE slots[t]
    BY DEF Sound, PlainTypes
  <2>2. c \notin Armed(b)'
    BY <1>1, <2>1, CallersAreReal DEF Armed, Running
  <2>3. ASSUME NEW d \in Callers, d # c PROVE d \in Armed(b)' <=> d \in Armed(b)
    BY <2>1, <2>3, CallersAreReal DEF Armed
  <2> QED
    BY <2>2, <2>3 DEF Armed
<1>3. n \in Nat \ {0} /\ m = n - 1 /\ n < N
  <2>1. Cardinality(Armed(b) \ {c}) = n - 1
    BY <1>1, ArmedFinite, FS_RemoveElement
  <2> QED
    BY <1>2, <2>1, ArmedFinite, RpcPoolAssumption DEF FewCallers
<1>4. currentRpcIndex' # b /\ m < Away(b)'
  <2>1. currentRpcIndex' = IF currentRpcIndex + 1 = N THEN 0 ELSE currentRpcIndex + 1
    BY Successor DEF FailOver, Rotate, Sound, PlainTypes
  <2>2. currentRpcIndex \in 0 .. N - 1 /\ b \in 0 .. N - 1 /\ N \in Nat
    BY RpcPoolAssumption DEF Sound, PlainTypes, Endpoints
  <2>3. currentRpcIndex # b => n < Away(b)
    BY DEF OneBadOK
  <2> HIDE DEF n, m
  <2> QED
    BY <1>3, <2>1, <2>2, <2>3 DEF Away
<1>5. /\ round' = [round EXCEPT ![c] = @ + 1]
      /\ UNCHANGED outcome
  BY <1>1, <1>3 DEF FailOver
<1>6. round'[c] = 1 /\ \A d \in Callers \ {c} : round'[d] = round[d]
  BY <1>1, <1>5 DEF Sound, PlainTypes
<1> QED
  BY <1>2, <1>4, <1>5, <1>6 DEF OneBadOK

LEMMA OneBadNext ==
  ASSUME Sound, NEW b \in Endpoints, OnlyRefuses(b), FewCallers, OneBadOK(b), [Next]_vars
  PROVE  OneBadOK(b)' /\ (currentRpcIndex # b => currentRpcIndex' # b)
<1>1. ASSUME NEW c \in Callers, Call(c) \/ TryAgain(c)
      PROVE  OneBadOK(b)' /\ UNCHANGED currentRpcIndex
  <2>1. /\ UNCHANGED <<currentRpcIndex, slots>>
        /\ \A d \in Callers : round'[d] = round[d] \/ round'[d] = 0
        /\ \A d \in Callers : outcome'[d] # "exhausted"
    BY <1>1 DEF Call, TryAgain, Sound, PlainTypes, OneBadOK
  <2>2. Armed(b)' = Armed(b)
    BY <2>1 DEF Armed
  <2> QED
    BY <2>1, <2>2, QuietStep
<1>2. ASSUME NEW c \in Callers, Pause(c) \/ GiveUp(c) \/ Return(c, "answered"),
             currentRpcIndex' = currentRpcIndex, Armed(b)' \subseteq Armed(b)
      PROVE  OneBadOK(b)'
  <2>1. /\ \A d \in Callers : round'[d] = round[d] \/ round'[d] = 0
        /\ \A d \in Callers : outcome'[d] # "exhausted"
    BY <1>2 DEF Pause, GiveUp, Return, Sound, PlainTypes, OneBadOK
  <2> QED
    BY <1>2, <2>1, QuietStep
<1>3. ASSUME NEW c \in Callers, Timeout(c)
      PROVE  OneBadOK(b)' /\ UNCHANGED currentRpcIndex
  <2>1. ASSUME NEW s \in SlotIds, NEW d \in Callers,
               slots'[s].caller = d, slots'[s].endpoint = b
        PROVE  slots[s].caller = d /\ slots[s].endpoint = b
    BY <1>3, <2>1, CallersAreReal DEF Timeout, Abandon, Sound, PlainTypes, SlotType
  <2>2. Armed(b)' \subseteq Armed(b)
    BY <2>1 DEF Armed
  <2> QED
    BY <1>2, <1>3, <2>2 DEF Timeout
<1>4. ASSUME NEW s \in SlotIds, StartJob(s)
      PROVE  OneBadOK(b)' /\ UNCHANGED currentRpcIndex
  <2>1. UNCHANGED <<currentRpcIndex, calls>>
    BY <1>4 DEF StartJob
  <2>2. ASSUME currentRpcIndex # b PROVE Armed(b)' \subseteq Armed(b)
    <3>1. \A t \in SlotIds : t # s => slots'[t] = slots[t]
      BY <1>4 DEF StartJob, Sound, PlainTypes
    <3>2. slots'[s].endpoint # b
      BY <1>4, <2>2 DEF StartJob, Sound, PlainTypes
    <3> QED
      BY <3>1, <3>2 DEF Armed
  <2> QED
    BY <2>1, <2>2, QuietStep DEF calls, OneBadOK
<1>5. ASSUME NEW s \in SlotIds, slots' = [slots EXCEPT ![s] = Free]
      PROVE  Armed(b)' \subseteq Armed(b)
  <2>1. \A t \in SlotIds : slots'[t] = IF t = s THEN Free ELSE slots[t]
    BY <1>5 DEF Sound, PlainTypes
  <2> QED
    BY <2>1, CallersAreReal DEF Armed
<1>6. ASSUME NEW s \in SlotIds, Discard(s)
      PROVE  OneBadOK(b)' /\ UNCHANGED currentRpcIndex
  BY <1>5, <1>6, QuietStep DEF Discard, calls, OneBadOK
<1>7. ASSUME NEW s \in SlotIds, Reply(s)
      PROVE  OneBadOK(b)' /\ (currentRpcIndex # b => currentRpcIndex' # b)
  <2>1. PICK c \in Callers : c = slots[s].caller
    BY <1>7 DEF Reply
  <2>2. slots' = [slots EXCEPT ![s] = Free]
    BY <1>7 DEF Reply
  <2>3. CASE /\ Return(c, "answered") \/ Pause(c) \/ GiveUp(c)
             /\ currentRpcIndex' = currentRpcIndex
    BY <1>2, <1>5, <2>2, <2>3
  <2>4. CASE behaviour[slots[s].endpoint] = "refuses" /\ FailOver(c)
    <3>1. slots[s].endpoint \in Endpoints
      <4>1. slots[s] \in SlotType /\ slots[s].caller # Free.caller
        BY <2>1, CallersAreReal DEF Sound, PlainTypes
      <4> QED
        BY <4>1 DEF SlotType
    <3>2. slots[s].endpoint = b
      BY <2>4, <3>1 DEF OnlyRefuses
    <3> QED
      BY <2>1, <2>2, <2>4, <3>2, FailOverStep
  <2> QED
    BY <1>7, <2>1, <2>3, <2>4 DEF Reply
<1>8. CASE UNCHANGED vars
  <2>1. UNCHANGED <<currentRpcIndex, slots, round, outcome>>
    BY <1>8 DEF vars, context, calls
  <2> QED
    BY <2>1 DEF OneBadOK, Away, Armed
<1> QED
  BY <1>1, <1>3, <1>4, <1>6, <1>7, <1>8 DEF Next

-----------------------------------------------------------------------------
OneBadInv == \A b \in Endpoints : OnlyRefuses(b) /\ FewCallers => OneBadOK(b)

LEMMA BehaviourFixed == ASSUME [Next]_vars, NEW b PROVE OnlyRefuses(b)' <=> OnlyRefuses(b)
<1>1. behaviour' = behaviour
  BY DEF Next, vars, Call, TryAgain, Timeout, StartJob, Reply, Discard
<1> QED
  BY <1>1 DEF OnlyRefuses

LEMMA OneBadInductive == Spec => [](Sound /\ OneBadInv)
<1>1. Init => OneBadInv
  <2> SUFFICES ASSUME Init, NEW b \in Endpoints, FewCallers PROVE OneBadOK(b)
    BY DEF OneBadInv
  <2>1. Armed(b) = {}
    BY CallersAreReal DEF Init, Armed
  <2>2. currentRpcIndex # b => Cardinality(Armed(b)) < Away(b)
    BY <2>1, FS_EmptySet, RpcPoolAssumption DEF Init, Away, Endpoints
  <2> QED
    BY <2>2 DEF Init, OneBadOK
<1>2. Sound /\ OneBadInv /\ [Next]_vars => OneBadInv'
  <2> SUFFICES ASSUME Sound, OneBadInv, [Next]_vars,
                      NEW b \in Endpoints, OnlyRefuses(b)', FewCallers
               PROVE  OneBadOK(b)'
    BY DEF OneBadInv, FewCallers
  <2> QED
    BY OneBadNext, BehaviourFixed DEF OneBadInv
<1> QED
  BY <1>1, <1>2, SoundInit, SoundNext, PTL DEF Spec

LEMMA OneBadNamed == OneBad => FewCallers /\ \E b \in Endpoints : OnlyRefuses(b)
<1> SUFFICES ASSUME OneBad PROVE FewCallers /\ \E b \in Endpoints : OnlyRefuses(b)
  OBVIOUS
<1> DEFINE Bad == {e \in Endpoints : behaviour[e] = "refuses"}
<1>1. IsFiniteSet(Bad)
  <2>1. IsFiniteSet(Endpoints)
    BY FS_Interval, RpcPoolAssumption DEF Endpoints
  <2> QED
    BY <2>1, FS_Subset
<1>2. \E b : Bad = {b}
  BY <1>1, FS_Singleton DEF OneBad
<1> QED
  BY <1>2 DEF OneBad, FewCallers, OnlyRefuses

(* ONE BROKEN ENDPOINT IS TOLERATED, by pools of any size with fewer       *)
(* callers than endpoints: executeWithFailover never runs out of attempts. *)
THEOREM PoolToleratesOneBad == Spec => []OneBadEndpointTolerated
<1>1. Sound /\ OneBadInv => OneBadEndpointTolerated
  BY OneBadNamed DEF OneBadInv, OneBadOK, OneBadEndpointTolerated
<1> QED
  BY <1>1, OneBadInductive, PTL

(* THE BROKEN ENDPOINT IS LEFT FOR GOOD.  However the callers rotate the   *)
(* shared context under one another, they never bring it back.             *)
THEOREM PoolNeverReturns == Spec => BrokenLeftForGood
<1> DEFINE A == \A b \in Endpoints :
                  OneBad /\ behaviour[b] = "refuses" /\ currentRpcIndex # b
                    => currentRpcIndex' # b
<1>1. Sound /\ OneBadInv /\ [Next]_vars => A
  <2> SUFFICES ASSUME Sound, OneBadInv, [Next]_vars, NEW b \in Endpoints,
                      OneBad, behaviour[b] = "refuses", currentRpcIndex # b
               PROVE  currentRpcIndex' # b
    OBVIOUS
  <2>1. FewCallers /\ OnlyRefuses(b)
    BY OneBadNamed DEF OnlyRefuses
  <2> QED
    BY <2>1, OneBadNext DEF OneBadInv
<1>2. Sound /\ OneBadInv /\ [Next]_vars => [A]_vars
  BY <1>1
<1> QED
  BY <1>2, OneBadInductive, PTL DEF Spec, BrokenLeftForGood

-----------------------------------------------------------------------------
(* A caller that is alone.  Nobody rotates the pool under it: its job is   *)
(* at the current endpoint, and those it has rotated past since the call   *)
(* began are the last that the pool has left.                              *)
AloneOK(c) ==
  /\ \A s \in SlotIds : slots[s].caller = c => slots[s].endpoint = currentRpcIndex
  /\ \A e \in Endpoints : Away(e) >= N - round[c] => behaviour[e] = "refuses"
  /\ outcome[c] = "exhausted" => \A e \in Endpoints : behaviour[e] = "refuses"

LEMMA AwayBelow ==
  ASSUME PlainTypes, NEW e \in Endpoints
  PROVE  Away(e) \in 0 .. N - 1
BY RpcPoolAssumption DEF PlainTypes, Away, Endpoints

(* A step that rotates nothing: a call goes on, or is over.                *)
LEMMA AloneQuiet ==
  ASSUME Sound, NEW c \in Callers, AloneOK(c), UNCHANGED <<behaviour, currentRpcIndex>>,
         \A s \in SlotIds : slots'[s].caller = c => slots'[s].endpoint = currentRpcIndex,
         round'[c] = round[c] \/ round'[c] = 0,
         outcome'[c] = outcome[c] \/ outcome'[c] # "exhausted"
  PROVE  AloneOK(c)'
<1>1. \A e \in Endpoints : Away(e)' = Away(e) /\ Away(e) \in 0 .. N - 1
  BY AwayBelow DEF Sound, Away
<1> QED
  BY <1>1, RpcPoolAssumption DEF AloneOK

(* The endpoint that refused becomes the last one left.                    *)
LEMMA AloneFailOver ==
  ASSUME Sound, NEW c \in Callers, AloneOK(c), NEW s \in SlotIds, slots[s].caller = c,
         behaviour[slots[s].endpoint] = "refuses", behaviour' = behaviour,
         slots' = [slots EXCEPT ![s] = Free], FailOver(c)
  PROVE  AloneOK(c)'
<1>1. /\ PlainTypes /\ currentRpcIndex \in 0 .. N - 1 /\ N \in Nat \ {0}
      /\ round[c] \in 0 .. N - 1 /\ behaviour[currentRpcIndex] = "refuses"
  BY RpcPoolAssumption DEF Sound, PlainTypes, Endpoints, AloneOK
<1>2. currentRpcIndex' = IF currentRpcIndex + 1 = N THEN 0 ELSE currentRpcIndex + 1
  BY <1>1, Successor DEF FailOver, Rotate, Endpoints
<1>3. \A t \in SlotIds : slots'[t].caller # c
  <2>1. Running(c) = {s}
    BY RunningWaits
  <2>2. Running(c)' = Running(c) \ {s}
    BY <1>1, Freed
  <2> QED
    BY <2>1, <2>2 DEF Running
<1>4. \A e \in Endpoints :
        /\ e = currentRpcIndex \/ (Away(e)' = Away(e) - 1 /\ Away(e) >= 1)
        /\ Away(e) \in 0 .. N - 1 /\ Away(e)' \in 0 .. N - 1
  <2> SUFFICES ASSUME NEW e \in 0 .. N - 1
               PROVE  /\ e = currentRpcIndex \/ (Away(e)' = Away(e) - 1 /\ Away(e) >= 1)
                      /\ Away(e) \in 0 .. N - 1 /\ Away(e)' \in 0 .. N - 1
    BY DEF Endpoints
  <2>1. /\ Away(e) = IF currentRpcIndex <= e THEN e - currentRpcIndex ELSE e - currentRpcIndex + N
        /\ Away(e)' = IF currentRpcIndex' <= e THEN e - currentRpcIndex'
                                               ELSE e - currentRpcIndex' + N
    BY DEF Away
  <2> QED
    BY <1>1, <1>2, <2>1
<1>5. CASE round[c] + 1 < N
  <2>1. round'[c] = round[c] + 1 /\ outcome' = outcome
    BY <1>1, <1>5 DEF FailOver, PlainTypes
  <2>2. ASSUME NEW e \in Endpoints, Away(e)' >= N - round'[c] PROVE behaviour'[e] = "refuses"
    BY <1>1, <1>4, <2>1, <2>2 DEF AloneOK
  <2> QED
    BY <1>3, <2>1, <2>2 DEF AloneOK
<1>6. CASE round[c] + 1 = N
  <2>1. \A e \in Endpoints : behaviour'[e] = "refuses"
    BY <1>1, <1>4, <1>6 DEF AloneOK
  <2> QED
    BY <1>3, <2>1 DEF AloneOK
<1> QED
  BY <1>1, <1>5, <1>6

LEMMA AloneNext ==
  ASSUME Sound, NEW c \in Callers, Callers = {c}, AloneOK(c), [Next]_vars
  PROVE  AloneOK(c)'
<1>1. CASE Call(c) \/ TryAgain(c)
  BY <1>1, AloneQuiet DEF Call, TryAgain, Sound, PlainTypes, AloneOK
<1>2. CASE Timeout(c)
  <2>1. \A s \in SlotIds : slots'[s].caller # c
    <3>1. Running(c)' = {}
      BY <1>2, JobsAbandoned DEF Timeout, Sound
    <3> QED
      BY <3>1 DEF Running
  <2>2. Pause(c) \/ GiveUp(c)
    BY <1>2 DEF Timeout
  <2>3. /\ round'[c] = round[c] \/ round'[c] = 0
        /\ outcome'[c] = outcome[c] \/ outcome'[c] # "exhausted"
    BY <2>2 DEF Pause, GiveUp, Return, Sound, PlainTypes
  <2> QED
    BY <1>2, <2>1, <2>3, AloneQuiet DEF Timeout
<1>3. ASSUME NEW s \in SlotIds, StartJob(s) PROVE AloneOK(c)'
  <2>1. /\ \A t \in SlotIds : t # s => slots'[t] = slots[t]
        /\ slots'[s].endpoint = currentRpcIndex
    BY <1>3 DEF StartJob, Sound, PlainTypes
  <2>2. UNCHANGED <<behaviour, currentRpcIndex, round, outcome>>
    BY <1>3 DEF StartJob, calls
  <2>3. \A t \in SlotIds : slots'[t].caller = c => slots'[t].endpoint = currentRpcIndex
    BY <2>1 DEF AloneOK
  <2> QED
    BY <2>2, <2>3, AloneQuiet
<1>4. ASSUME NEW s \in SlotIds, slots' = [slots EXCEPT ![s] = Free]
      PROVE  \A t \in SlotIds : slots'[t].caller = c => slots'[t].endpoint = currentRpcIndex
  <2>1. \A t \in SlotIds : slots'[t] = IF t = s THEN Free ELSE slots[t]
    BY <1>4 DEF Sound, PlainTypes
  <2> QED
    BY <2>1, CallersAreReal DEF AloneOK
<1>5. ASSUME NEW s \in SlotIds, Discard(s) PROVE AloneOK(c)'
  BY <1>4, <1>5, AloneQuiet DEF Discard, calls
<1>6. ASSUME NEW s \in SlotIds, Reply(s) PROVE AloneOK(c)'
  <2>1. slots[s].caller = c /\ slots' = [slots EXCEPT ![s] = Free] /\ behaviour' = behaviour
    BY <1>6 DEF Reply
  <2>2. CASE /\ Return(c, "answered") \/ Pause(c) \/ GiveUp(c)
             /\ currentRpcIndex' = currentRpcIndex
    <3>1. /\ round'[c] = round[c] \/ round'[c] = 0
          /\ outcome'[c] = outcome[c] \/ outcome'[c] # "exhausted"
      BY <2>2 DEF Pause, GiveUp, Return, Sound, PlainTypes
    <3> QED
      BY <1>4, <2>1, <2>2, <3>1, AloneQuiet
  <2>3. CASE behaviour[slots[s].endpoint] = "refuses" /\ FailOver(c)
    BY <2>1, <2>3, AloneFailOver
  <2> QED
    BY <1>6, <2>1, <2>2, <2>3 DEF Reply
<1>7. CASE UNCHANGED vars
  BY <1>7, AloneQuiet DEF vars, context, calls, AloneOK
<1> QED
  BY <1>1, <1>2, <1>3, <1>5, <1>6, <1>7 DEF Next

(* ALONE, EVERY ENDPOINT IS TRIED: a caller that shares the pool with      *)
(* nobody runs out of attempts only when every endpoint has refused it.    *)
THEOREM PoolExhaustedByAll == Spec => []ExhaustedAloneByAll
<1> DEFINE I == \A c \in Callers : Callers = {c} => AloneOK(c)
<1>1. Init => I
  <2> SUFFICES ASSUME Init, NEW c \in Callers PROVE AloneOK(c)
    OBVIOUS
  <2>1. \A e \in Endpoints : Away(e) < N
    BY RpcPoolAssumption DEF Init, Away, Endpoints
  <2>2. \A s \in SlotIds : slots[s].caller # c
    BY CallersAreReal DEF Init
  <2>3. round[c] = 0 /\ outcome[c] = "none"
    BY DEF Init
  <2>4. \A e \in Endpoints : ~(Away(e) >= N - round[c])
    BY <2>1, <2>3, RpcPoolAssumption DEF Init, Away, Endpoints
  <2> QED
    BY <2>2, <2>3, <2>4 DEF AloneOK
<1>2. Sound /\ I /\ [Next]_vars => I'
  BY AloneNext
<1>3. I => ExhaustedAloneByAll
  BY DEF AloneOK, ExhaustedAloneByAll
<1> QED
  BY <1>1, <1>2, <1>3, SoundInit, SoundNext, PTL DEF Spec
=============================================================================
