------------------------------ MODULE RpcPool ------------------------------
(***************************************************************************)
(* The pool of RPC endpoints of one chain, services/provider.ts, with      *)
(* withRetry of utils/retry.ts and the limiter of ratelimiter.ts.          *)
(*                                                                         *)
(* All callers of a process share one context: the current endpoint and    *)
(* the limiter.  A call is tried a number of times through the limiter;    *)
(* when the last try ends with the code of a broken endpoint, the context  *)
(* is rotated and the call starts over.  A try that takes too long has no  *)
(* such code.  Its caller gives up on it, the limiter does not.            *)
(***************************************************************************)
EXTENDS Integers, Sequences, FiniteSets

CONSTANTS
  Callers,        \* concurrent users of the context, each calls again and again
  N,              \* rpcPool.length
  Attempts,       \* attempts of withRetry, 5 in the code
  MaxConcurrent,  \* maxConcurrent of the limiter, 2 in the code
  Behaviours,     \* what the endpoints may be like, see BehaviourType
  MaxAbandoned    \* bound: tries given up on that are still with the limiter

Endpoints == 0 .. N - 1

(* An endpoint answers, refuses with a code shouldFailover knows, fails    *)
(* with any other error, or does not reply in time.                        *)
BehaviourType == [Endpoints -> {"answers", "refuses", "fails", "hangs"}]

Abandoned == "abandoned"   \* the caller of a job nobody waits for
Free == [caller |-> "none"]

ASSUME RpcPoolAssumption ==
  /\ IsFiniteSet(Callers)
  /\ Callers \cap {Abandoned, Free.caller} = {}
  /\ N \in Nat \ {0}
  /\ Attempts \in Nat \ {0}
  /\ MaxConcurrent \in Nat \ {0}
  /\ Behaviours \subseteq BehaviourType
  /\ MaxAbandoned \in Nat

VARIABLES
  behaviour,         \* fixed in the initial state
  \* the context
  currentRpcIndex,
  queue,             \* jobs the limiter has not started, by their caller
  slots,             \* the job in each slot of the limiter
  \* each caller
  pc,
  round,             \* attempt of executeWithFailover
  try,               \* attempt of withRetry
  outcome            \* how its last call ended

context == <<currentRpcIndex, queue, slots>>
calls   == <<pc, round, try, outcome>>
vars    == <<behaviour, context, calls>>

SlotIds == 1 .. MaxConcurrent

AbandonedJobs == {i \in DOMAIN queue : queue[i] = Abandoned}
                   \cup {s \in SlotIds : slots[s].caller = Abandoned}

-----------------------------------------------------------------------------
Init == /\ behaviour \in Behaviours
        /\ currentRpcIndex = 0
        /\ queue = <<>>
        /\ slots = [s \in SlotIds |-> Free]
        /\ pc = [c \in Callers |-> "idle"]
        /\ round = [c \in Callers |-> 0]
        /\ try = [c \in Callers |-> 0]
        /\ outcome = [c \in Callers |-> "none"]

-----------------------------------------------------------------------------
(* The caller hands its next try to the limiter.                           *)
Schedule(c) == queue' = Append(queue, c)

Call(c) == /\ pc[c] = "idle"
           /\ pc' = [pc EXCEPT ![c] = "waiting"]
           /\ round' = [round EXCEPT ![c] = 0]
           /\ try' = [try EXCEPT ![c] = 1]
           /\ outcome' = [outcome EXCEPT ![c] = "none"]
           /\ Schedule(c)
           /\ UNCHANGED <<behaviour, currentRpcIndex, slots>>

(* The pause between two tries is over.                                    *)
TryAgain(c) == /\ pc[c] = "pausing"
               /\ pc' = [pc EXCEPT ![c] = "waiting"]
               /\ try' = [try EXCEPT ![c] = @ + 1]
               /\ Schedule(c)
               /\ UNCHANGED <<behaviour, currentRpcIndex, slots, round, outcome>>

\* Mutant: the endpoint of the job is the first of the pool.
StartJobMutant(s) ==
  /\ slots[s] = Free
  /\ queue # <<>>
  /\ slots' = [slots EXCEPT ![s] = [caller |-> Head(queue), endpoint |-> 0]]
  /\ queue' = Tail(queue)
  /\ UNCHANGED <<behaviour, currentRpcIndex, calls>>

(* The limiter starts its next job, also one nobody waits for.  Only now   *)
(* is the context's provider looked up.                                    *)
StartJob(s) ==
  /\ slots[s] = Free
  /\ queue # <<>>
  /\ slots' = [slots EXCEPT ![s] = [caller |-> Head(queue), endpoint |-> currentRpcIndex]]
  /\ queue' = Tail(queue)
  /\ UNCHANGED <<behaviour, currentRpcIndex, calls>>

-----------------------------------------------------------------------------
Return(c, how) == /\ pc' = [pc EXCEPT ![c] = "idle"]
                  /\ outcome' = [outcome EXCEPT ![c] = how]
                  /\ round' = [round EXCEPT ![c] = 0]
                  /\ try' = [try EXCEPT ![c] = 0]

\* Mutants: the pool falls back to its first endpoint; it runs over its end.
RotateToPrimary == currentRpcIndex' = IF currentRpcIndex = 0 THEN 1 % N ELSE 0

RotateOver == currentRpcIndex' = currentRpcIndex + 1

(* rotateProvider: whatever endpoint is current, not the one that failed.  *)
Rotate == currentRpcIndex' = (currentRpcIndex + 1) % N

(* Not the last try: withRetry pauses, whatever the error.                 *)
Pause(c) == /\ try[c] < Attempts
            /\ pc' = [pc EXCEPT ![c] = "pausing"]
            /\ UNCHANGED <<round, try, outcome>>

\* Mutant: the attempts of a call are not counted.
FailOverMutant(c) ==
  /\ try[c] = Attempts
  /\ Rotate
  /\ try' = [try EXCEPT ![c] = 1]
  /\ Schedule(c)
  /\ UNCHANGED <<pc, round, outcome>>

(* The last try ends with a code of shouldFailover.  The context is        *)
(* rotated, after the last attempt of the call as well.                    *)
FailOver(c) == /\ try[c] = Attempts
               /\ Rotate
               /\ \/ /\ round[c] + 1 < N
                     /\ round' = [round EXCEPT ![c] = @ + 1]
                     /\ try' = [try EXCEPT ![c] = 1]
                     /\ Schedule(c)
                     /\ UNCHANGED <<pc, outcome>>
                  \/ /\ round[c] + 1 = N
                     /\ Return(c, "exhausted")
                     /\ UNCHANGED queue

(* The last try ends with any other error: the call fails there.           *)
GiveUp(c) == try[c] = Attempts /\ Return(c, "failed")

-----------------------------------------------------------------------------
(* The endpoint replies to a job its caller waits for.                     *)
Reply(s) ==
  LET c == slots[s].caller
  IN /\ c \in Callers
     /\ slots' = [slots EXCEPT ![s] = Free]
     /\ \/ /\ behaviour[slots[s].endpoint] = "answers"
           /\ Return(c, "answered")
           /\ UNCHANGED <<currentRpcIndex, queue>>
        \/ /\ behaviour[slots[s].endpoint] \in {"refuses", "fails"}
           /\ Pause(c)
           /\ UNCHANGED <<currentRpcIndex, queue>>
        \/ /\ behaviour[slots[s].endpoint] = "refuses"
           /\ FailOver(c)
        \/ /\ behaviour[slots[s].endpoint] = "fails"
           /\ GiveUp(c)
           /\ UNCHANGED <<currentRpcIndex, queue>>
     /\ UNCHANGED behaviour

(* The reply, or the end, of a job given up on.                            *)
Discard(s) == /\ slots[s].caller = Abandoned
              /\ slots' = [slots EXCEPT ![s] = Free]
              /\ UNCHANGED <<behaviour, currentRpcIndex, queue, calls>>

Abandon(c) ==
  /\ slots' = [s \in SlotIds |-> IF slots[s].caller = c
                                 THEN [slots[s] EXCEPT !.caller = Abandoned]
                                 ELSE slots[s]]
  /\ queue' = [i \in DOMAIN queue |-> IF queue[i] = c THEN Abandoned ELSE queue[i]]

(* withTimeout: a try may take too long wherever it is, in the queue of    *)
(* the limiter or at an endpoint.                                          *)
Timeout(c) ==
  /\ pc[c] = "waiting"
  /\ Cardinality(AbandonedJobs) < MaxAbandoned
  /\ Abandon(c)
  /\ Pause(c) \/ GiveUp(c)
  /\ UNCHANGED <<behaviour, currentRpcIndex>>

Next == \/ \E c \in Callers : Call(c) \/ TryAgain(c) \/ Timeout(c)
        \/ \E s \in SlotIds : StartJob(s) \/ Reply(s) \/ Discard(s)

Spec == Init /\ [][Next]_vars

(* The limiter starts what it can, every request ends some time, replies   *)
(* and timers arrive.  Nobody has to call.  A timer goes off whatever the  *)
(* others do; that the bound can hold it up is made good by strong         *)
(* fairness.                                                               *)
FairSpec ==
  /\ Spec
  /\ \A c \in Callers : WF_vars(TryAgain(c)) /\ SF_vars(Timeout(c))
  /\ \A s \in SlotIds : WF_vars(StartJob(s)) /\ WF_vars(Reply(s)) /\ WF_vars(Discard(s))
-----------------------------------------------------------------------------
Queued(c)  == {i \in DOMAIN queue : queue[i] = c}
Running(c) == {s \in SlotIds : slots[s].caller = c}

(* The variables have their types, and a caller that waits has one job     *)
(* with the limiter, any other none.                                       *)
TypeOK ==
  /\ behaviour \in Behaviours
  /\ currentRpcIndex \in Endpoints
  /\ queue \in Seq(Callers \cup {Abandoned})
  /\ slots \in [SlotIds -> {Free} \cup [caller : Callers \cup {Abandoned}, endpoint : Endpoints]]
  /\ pc \in [Callers -> {"idle", "waiting", "pausing"}]
  /\ round \in [Callers -> Endpoints]
  /\ try \in [Callers -> 0 .. Attempts]
  /\ outcome \in [Callers -> {"none", "answered", "failed", "exhausted"}]
  /\ \A c \in Callers : Cardinality(Queued(c)) + Cardinality(Running(c))
                          = IF pc[c] = "waiting" THEN 1 ELSE 0

(* One endpoint refuses, and there are more endpoints than callers.        *)
OneBad == /\ Cardinality({e \in Endpoints : behaviour[e] = "refuses"}) = 1
          /\ Cardinality(Callers) < N

(* ONE BROKEN ENDPOINT IS TOLERATED.  A caller rotates whatever is current *)
(* by then, so that two callers that fail at one endpoint skip another.    *)
(* With fewer callers than endpoints no call exhausts the pool for that.   *)
OneBadEndpointTolerated == OneBad => \A c \in Callers : outcome[c] # "exhausted"

(* THE BROKEN ENDPOINT IS LEFT FOR GOOD.  Callers that failed at it while  *)
(* it was current rotate the pool later, one after the other, and still    *)
(* never round to where they came from.                                    *)
BrokenLeftForGood ==
  [][\A b \in Endpoints :
       OneBad /\ behaviour[b] = "refuses" /\ currentRpcIndex # b => currentRpcIndex' # b]_vars

(* ALONE, EVERY ENDPOINT IS TRIED.  The loop of executeWithFailover counts *)
(* attempts, not endpoints; for a caller that shares the pool with nobody  *)
(* these are the same, wherever earlier calls have left the pool.          *)
ExhaustedAloneByAll ==
  \A c \in Callers : Callers = {c} /\ outcome[c] = "exhausted"
                       => \A e \in Endpoints : behaviour[e] = "refuses"

(* THE POOL SETTLES.  Nor do such callers go on for ever to rotate the     *)
(* pool under one another.                                                 *)
PoolSettles == OneBad => <>[][UNCHANGED currentRpcIndex]_currentRpcIndex

(* EVERY CALL ENDS, though calls that hang hold the slots of the limiter   *)
(* after their callers have given up on them.                              *)
EveryCallEnds == \A c \in Callers : pc[c] # "idle" ~> pc[c] = "idle"
=============================================================================
