-------------------------- MODULE EvaluatorProofs --------------------------
(***************************************************************************)
(* The evaluator's invariants for any number of requests and runners, any  *)
(* lists of wallets, any logs and lifetime.                                *)
(*                                                                         *)
(* The runners of a request share its cursor: what is before it is done or *)
(* at one of them, what is not is untouched.  The two caches may differ    *)
(* only while a runner is between its writes to them, and in that time the *)
(* clock stands still, so that what it found is as fresh as can be.        *)
(***************************************************************************)
EXTENDS Evaluator, FiniteSetTheorems, TLAPS

Shapes ==
  /\ head \in Blocks /\ indexed \in 0 .. head
  /\ DOMAIN outputs = Wallets /\ DOMAIN metrics = Wallets
  /\ phase \in [Requests -> {"idle", "running", "answered", "failed"}]
  /\ batch \in [Requests -> Seq(Wallets)]
  /\ asOf \in [Requests -> Blocks]
  /\ cursor \in [Requests -> Nat]
  /\ DOMAIN results = Requests
  /\ DOMAIN runner = Requests
  /\ \A r \in Requests : DOMAIN runner[r] = Runners

(* An entry's age and the time it has yet to live make up its lifetime.    *)
EntryOK(entry, w) ==
  \/ entry = None
  \/ /\ entry \in [value : Evaluation, left : 0 .. TTL]
     /\ entry.value.wallet = w
     /\ entry.value.age + entry.left = TTL

Evaluated(w) == \E r \in Requests, k \in Runners :
                  runner[r][k].at = "evaluate" /\ batch[r][runner[r][k].n] = w

Fresh(w) == Found(metrics[w]) /\ metrics[w].left = TTL

CachesOK(w) == /\ EntryOK(outputs[w], w)
               /\ EntryOK(metrics[w], w)
               /\ metrics[w].left <= outputs[w].left \/ Evaluated(w)

Waiting(r) == [at : {"db", "rpc"}, n : 1 .. Len(batch[r])]

Knowing(r) == [at : {"evaluate"}, n : 1 .. Len(batch[r]),
               via : {"metrics", "db", "rpc"}, value : Evaluation]

Bounded(r, e) == e.via = "rpc" => e.count <= Count(e.wallet, asOf[r])

RunnerOK(r, k) ==
  /\ runner[r][k] \in {Turn, Ended} \cup Waiting(r) \cup Knowing(r)
  /\ runner[r][k].n # 0 =>
       /\ runner[r][k].n < cursor[r]
       /\ results[r][runner[r][k].n] = None
       /\ \A j \in Runners \ {k} : runner[r][j].n # runner[r][k].n
  /\ runner[r][k].at = "evaluate" =>
       /\ runner[r][k].value.wallet = batch[r][runner[r][k].n]
       /\ runner[r][k].value.age = 0
       /\ Fresh(batch[r][runner[r][k].n])
       /\ runner[r][k].via = "rpc" =>
            runner[r][k].value.count <= Count(runner[r][k].value.wallet, asOf[r])

Result == [wallet : Wallets, count : 0 .. Cardinality(Logs), age : Nat,
           via : {"metrics", "db", "rpc", "outputs"}]

ResultOK(r, i) ==
  \/ results[r][i] = None
  \/ /\ results[r][i] \in Result
     /\ results[r][i].wallet = batch[r][i]
     /\ results[r][i].age < TTL
     /\ Bounded(r, results[r][i])

RequestOK(r) ==
  /\ batch[r] \in Batches[r] \cup {<<>>}
  /\ cursor[r] \in 1 .. Len(batch[r]) + 1
  /\ DOMAIN results[r] = 1 .. Len(batch[r])
  /\ \A i \in 1 .. Len(batch[r]) :
       /\ ResultOK(r, i)
       /\ i >= cursor[r] => results[r][i] = None
       /\ (phase[r] = "running" /\ i < cursor[r]) =>
            results[r][i] # None \/ \E k \in Runners : runner[r][k].n = i
       /\ phase[r] = "answered" => results[r][i] # None

IInv == /\ Shapes
        /\ \A w \in Wallets : CachesOK(w)
        /\ \A r \in Requests : RequestOK(r)
        /\ \A r \in Requests, k \in Runners : RunnerOK(r, k)

-----------------------------------------------------------------------------
(* Counting.                                                               *)
LEMMA CountType ==
  ASSUME NEW w, NEW b
  PROVE  Count(w, b) \in 0 .. Cardinality(Logs)
<1> DEFINE L == {l \in Logs : l.wallet = w /\ l.block <= b}
<1>1. L \subseteq Logs /\ IsFiniteSet(Logs)
  BY EvaluatorAssumption
<1>2. Cardinality(L) \in Nat /\ Cardinality(Logs) \in Nat /\ Cardinality(L) <= Cardinality(Logs)
  BY <1>1, FS_Subset, FS_CardinalityType
<1> QED BY <1>2 DEF Count

LEMMA CountGrows ==
  ASSUME NEW w, NEW b \in Nat, NEW d \in Nat, b <= d
  PROVE  Count(w, b) <= Count(w, d)
<1> DEFINE L == {l \in Logs : l.wallet = w /\ l.block <= b}
           M == {l \in Logs : l.wallet = w /\ l.block <= d}
<1>1. L \subseteq M /\ M \subseteq Logs /\ IsFiniteSet(Logs)
  BY EvaluatorAssumption
<1>2. IsFiniteSet(M)
  BY <1>1, FS_Subset
<1>3. Cardinality(L) <= Cardinality(M)
  BY <1>1, <1>2, FS_Subset
<1> QED BY <1>3 DEF Count

(* No result, and no entry that is found, is None.                         *)
LEMMA NotNone ==
  /\ \A e \in Result : e # None
  /\ ~ Found(None)
  /\ \A e : Put(e) # None
<1>1. "wallet" \notin DOMAIN None /\ "value" \notin DOMAIN None
  BY DEF None
<1>2. \A e \in Result : "wallet" \in DOMAIN e
  BY DEF Result
<1>3. \A e : "value" \in DOMAIN Put(e)
  BY DEF Put
<1>4. ~ Found(None)
  BY DEF Found, None
<1> QED BY <1>1, <1>2, <1>3, <1>4

LEMMA PutOK ==
  ASSUME NEW w \in Wallets, NEW e \in Evaluation, e.wallet = w, e.age = 0
  PROVE  EntryOK(Put(e), w) /\ Put(e).left = TTL /\ Found(Put(e)) /\ Put(e).value = e
BY EvaluatorAssumption DEF EntryOK, Put, Found

LEMMA FoundEntry ==
  ASSUME NEW w, NEW entry, EntryOK(entry, w), Found(entry)
  PROVE  /\ entry.value \in Evaluation /\ entry.value.wallet = w
         /\ entry.value.age < TTL /\ entry.left \in 1 .. TTL
         /\ entry.left = TTL => entry.value.age = 0
BY NotNone, EvaluatorAssumption DEF EntryOK, Found, Evaluation

LEMMA LeftType ==
  ASSUME NEW w, NEW entry, EntryOK(entry, w)
  PROVE  entry.left \in 0 .. TTL
BY EvaluatorAssumption DEF EntryOK, None

-----------------------------------------------------------------------------
(* What a step of one runner leaves alone.                                 *)
Moves(r, k, x) == runner' = [runner EXCEPT ![r][k] = x]

LEMMA MovesOnly ==
  ASSUME Shapes, NEW r \in Requests, NEW k \in Runners, NEW x, Moves(r, k, x)
  PROVE  /\ DOMAIN runner' = Requests /\ \A q \in Requests : DOMAIN runner'[q] = Runners
         /\ runner'[r][k] = x
         /\ \A j \in Runners \ {k} : runner'[r][j] = runner[r][j]
         /\ \A q \in Requests \ {r} : runner'[q] = runner[q]
BY DEF Shapes, Moves

LEMMA OtherRequests ==
  ASSUME IInv, NEW r \in Requests, NEW k \in Runners, NEW x, Moves(r, k, x),
         batch' = batch, asOf' = asOf,
         \A w \in Wallets : Fresh(w) => Fresh(w)',
         \A q \in Requests \ {r} : /\ cursor'[q] = cursor[q] /\ results'[q] = results[q]
                                   /\ phase'[q] = phase[q]
  PROVE  \A q \in Requests \ {r} : RequestOK(q)' /\ \A j \in Runners : RunnerOK(q, j)'
<1> SUFFICES ASSUME NEW q \in Requests \ {r}
             PROVE  RequestOK(q)' /\ \A j \in Runners : RunnerOK(q, j)'
  OBVIOUS
<1>1. runner'[q] = runner[q]
  BY MovesOnly DEF IInv
<1>2. RequestOK(q)'
  BY <1>1 DEF IInv, RequestOK, ResultOK, Bounded
<1>3. ASSUME NEW j \in Runners PROVE RunnerOK(q, j)'
  <2>1. RunnerOK(q, j)
    BY DEF IInv
  <2>2. runner[q][j].at = "evaluate" => batch[q][runner[q][j].n] \in Wallets
    BY <2>1 DEF RunnerOK, IInv, Shapes, Turn, Ended, Waiting, Knowing
  <2> QED BY <1>1, <2>1, <2>2 DEF RunnerOK, Waiting, Knowing
<1> QED BY <1>2, <1>3

LEMMA OtherRunners ==
  ASSUME IInv, NEW r \in Requests, NEW k \in Runners, NEW x, Moves(r, k, x),
         batch' = batch, asOf' = asOf,
         \A w \in Wallets : Fresh(w) => Fresh(w)',
         cursor'[r] \in Nat, cursor[r] <= cursor'[r],
         \A j \in Runners \ {k} : runner[r][j].n # 0 =>
           /\ results'[r][runner[r][j].n] = results[r][runner[r][j].n]
           /\ x.n # runner[r][j].n
  PROVE  \A j \in Runners \ {k} : RunnerOK(r, j)'
<1> SUFFICES ASSUME NEW j \in Runners \ {k} PROVE RunnerOK(r, j)'
  OBVIOUS
<1>1. /\ RunnerOK(r, j) /\ runner'[r][j] = runner[r][j] /\ cursor[r] \in Nat
      /\ \A i \in Runners : runner'[r][i] = IF i = k THEN x ELSE runner[r][i]
  BY MovesOnly DEF IInv, Shapes
<1>2. runner[r][j].at = "evaluate" => batch[r][runner[r][j].n] \in Wallets
  BY <1>1 DEF RunnerOK, IInv, Shapes, Turn, Ended, Waiting, Knowing
<1>3. runner[r][j].n \in Nat
  BY <1>1 DEF RunnerOK, Turn, Ended, Waiting, Knowing
<1> QED BY <1>1, <1>2, <1>3 DEF RunnerOK, Waiting, Knowing

(* The three kinds of a runner's state.                                    *)
LEMMA RunnerKinds ==
  ASSUME IInv, NEW r \in Requests, NEW k \in Runners
  PROVE  /\ runner[r][k].n \in 0 .. Len(batch[r])
         /\ runner[r][k].at = "turn" => runner[r][k] = Turn
         /\ runner[r][k].at = "ended" => runner[r][k] = Ended
         /\ runner[r][k].at \in {"db", "rpc"} => runner[r][k] \in Waiting(r)
         /\ runner[r][k].at = "evaluate" => runner[r][k] \in Knowing(r)
         /\ runner[r][k].n # 0 => batch[r][runner[r][k].n] \in Wallets
<1>1. RunnerOK(r, k) /\ batch[r] \in Seq(Wallets) /\ Len(batch[r]) \in Nat
  BY DEF IInv, Shapes
<1>2. \A i \in 1 .. Len(batch[r]) : batch[r][i] \in Wallets
  BY <1>1
<1> QED BY <1>1, <1>2 DEF RunnerOK, Turn, Ended, Waiting, Knowing

-----------------------------------------------------------------------------
(* A step that leaves the requests alone.                                  *)
LEMMA Outside ==
  ASSUME IInv, Mine \/ Index \/ UNCHANGED vars
  PROVE  IInv'
<1>1. head' \in Blocks /\ indexed' \in 0 .. head'
  BY EvaluatorAssumption DEF IInv, Shapes, Mine, Index, vars, Blocks
<1>2. UNCHANGED <<caches, requestVars>>
  BY DEF Mine, Index, vars
<1> QED BY <1>1, <1>2 DEF caches, requestVars, IInv, Shapes, CachesOK, Evaluated, RequestOK,
           ResultOK, Bounded, RunnerOK, Fresh, Waiting, Knowing

(* An entry a tick later is still as old as it has lived.                  *)
LEMMA OlderOK ==
  ASSUME NEW w, NEW entry, EntryOK(entry, w)
  PROVE  /\ EntryOK(Older(entry), w)
         /\ Older(entry).left = IF entry.left = 0 THEN 0 ELSE entry.left - 1
<1>1. CASE entry.left = 0
  BY <1>1 DEF Older, EntryOK, None
<1>2. CASE entry.left # 0
  <2>1. /\ entry \in [value : Evaluation, left : 0 .. TTL] /\ entry.value.wallet = w
        /\ entry.value.age + entry.left = TTL
    BY <1>2 DEF EntryOK, None
  <2>2. [entry.value EXCEPT !.age = @ + 1] \in Evaluation
    BY <2>1 DEF Evaluation
  <2>3. /\ [entry.value EXCEPT !.age = @ + 1].wallet = w
        /\ [entry.value EXCEPT !.age = @ + 1].age = entry.value.age + 1
        /\ entry.value.age \in Nat
    BY <2>1 DEF Evaluation
  <2>4. Older(entry) = [value |-> [entry.value EXCEPT !.age = @ + 1], left |-> entry.left - 1]
    BY <1>2 DEF Older
  <2>5. /\ entry.left \in Nat /\ entry.left <= TTL /\ TTL \in Nat
        /\ entry.left - 1 \in 0 .. TTL /\ (entry.value.age + 1) + (entry.left - 1) = TTL
    BY <1>2, <2>1, <2>3, EvaluatorAssumption
  <2>6. PICK v \in Evaluation : /\ v = [entry.value EXCEPT !.age = @ + 1]
                               /\ v.wallet = w /\ v.age = entry.value.age + 1
    BY <2>2, <2>3
  <2>7. /\ Older(entry).value = v /\ Older(entry).left = entry.left - 1
        /\ Older(entry) \in [value : Evaluation, left : 0 .. TTL]
    BY <2>4, <2>5, <2>6
  <2> QED BY <1>2, <2>5, <2>6, <2>7 DEF EntryOK
<1> QED BY <1>1, <1>2

(* The clock ticks for both caches at once, with no runner in between.     *)
LEMMA TickKeeps ==
  ASSUME IInv, Tick
  PROVE  IInv'
<1>1. /\ UNCHANGED <<head, indexed, phase, batch, asOf, cursor, results, runner>>
      /\ outputs' = [w \in Wallets |-> Older(outputs[w])]
      /\ metrics' = [w \in Wallets |-> Older(metrics[w])]
      /\ \A r \in Requests, k \in Runners : runner[r][k].at # "evaluate"
  BY DEF Tick, Settled, requestVars
<1>2. Shapes'
  BY <1>1 DEF IInv, Shapes
<1>3. ASSUME NEW w \in Wallets PROVE CachesOK(w)'
  <2>1. EntryOK(outputs[w], w) /\ EntryOK(metrics[w], w) /\ metrics[w].left <= outputs[w].left
    BY <1>1 DEF IInv, CachesOK, Evaluated
  <2>2. outputs[w].left \in 0 .. TTL /\ metrics[w].left \in 0 .. TTL
    BY <2>1, LeftType
  <2>3. /\ EntryOK(outputs'[w], w) /\ EntryOK(metrics'[w], w)
        /\ outputs'[w].left = (IF outputs[w].left = 0 THEN 0 ELSE outputs[w].left - 1)
        /\ metrics'[w].left = (IF metrics[w].left = 0 THEN 0 ELSE metrics[w].left - 1)
    BY <1>1, <2>1, OlderOK
  <2>4. metrics'[w].left <= outputs'[w].left
    BY <2>1, <2>2, <2>3, EvaluatorAssumption
  <2> QED BY <2>3, <2>4 DEF CachesOK, EntryOK
<1>4. \A r \in Requests : RequestOK(r)'
  BY <1>1 DEF IInv, RequestOK, ResultOK, Bounded
<1>5. \A r \in Requests, k \in Runners : RunnerOK(r, k)'
  BY <1>1 DEF IInv, RunnerOK, Waiting, Knowing
<1> QED BY <1>2, <1>3, <1>4, <1>5 DEF IInv

(* A request comes to a slot without runners.                              *)
LEMMA ArriveKeeps ==
  ASSUME IInv, NEW r \in Requests, Arrive(r)
  PROVE  IInv'
<1>1. PICK ws \in Batches[r], b \in 0 .. head :
        /\ batch' = [batch EXCEPT ![r] = ws]
        /\ asOf' = [asOf EXCEPT ![r] = b]
        /\ results' = [results EXCEPT ![r] = [i \in 1 .. Len(ws) |-> None]]
        /\ runner' = [runner EXCEPT ![r] =
                        [k \in Runners |-> IF k <= Len(ws) THEN Turn ELSE Ended]]
  BY DEF Arrive
<1>2. /\ Settled /\ UNCHANGED <<head, indexed, outputs, metrics>>
      /\ phase' = [phase EXCEPT ![r] = "running"] /\ cursor' = [cursor EXCEPT ![r] = 1]
      /\ \A q \in Requests, k \in Runners : runner[q][k].at # "evaluate"
  BY DEF Arrive, caches, Settled
<1>3. ws \in Seq(Wallets) /\ Len(ws) \in Nat /\ b \in Blocks
  BY EvaluatorAssumption DEF IInv, Shapes, Blocks
<1>4. /\ batch'[r] = ws /\ asOf'[r] = b /\ phase'[r] = "running" /\ cursor'[r] = 1
      /\ results'[r] = [i \in 1 .. Len(ws) |-> None]
      /\ \A k \in Runners : runner'[r][k] \in {Turn, Ended}
      /\ \A q \in Requests \ {r} :
           /\ batch'[q] = batch[q] /\ asOf'[q] = asOf[q] /\ phase'[q] = phase[q]
           /\ cursor'[q] = cursor[q] /\ results'[q] = results[q] /\ runner'[q] = runner[q]
  BY <1>1, <1>2 DEF IInv, Shapes
<1>5. Shapes'
  BY <1>1, <1>2, <1>3 DEF IInv, Shapes
<1>6. ASSUME NEW w \in Wallets PROVE CachesOK(w)'
  BY <1>2 DEF IInv, CachesOK, Evaluated
<1>7. RequestOK(r)' /\ \A k \in Runners : RunnerOK(r, k)'
  <2>1. RequestOK(r)'
    BY <1>3, <1>4 DEF RequestOK, ResultOK
  <2>2. \A k \in Runners : RunnerOK(r, k)'
    BY <1>4 DEF RunnerOK, Turn, Ended
  <2> QED BY <2>1, <2>2
<1>8. ASSUME NEW q \in Requests \ {r}
      PROVE  RequestOK(q)' /\ \A k \in Runners : RunnerOK(q, k)'
  <2>0. /\ batch'[q] = batch[q] /\ asOf'[q] = asOf[q] /\ phase'[q] = phase[q]
        /\ cursor'[q] = cursor[q] /\ results'[q] = results[q] /\ runner'[q] = runner[q]
        /\ RequestOK(q)
    BY <1>4 DEF IInv
  <2>1. RequestOK(q)'
    BY <2>0 DEF RequestOK, ResultOK, Bounded
  <2>2. \A k \in Runners : RunnerOK(q, k)'
    BY <1>2, <2>0 DEF IInv, RunnerOK, Waiting, Knowing
  <2> QED BY <2>1, <2>2
<1> QED BY <1>5, <1>6, <1>7, <1>8 DEF IInv

-----------------------------------------------------------------------------
(* The steps of a runner.  A result is delivered for the item taken.       *)
LEMMA Delivered ==
  ASSUME IInv, NEW r \in Requests, NEW n \in 1 .. Len(batch[r]), NEW e \in Evaluation,
         NEW via \in {"metrics", "db", "rpc", "outputs"},
         e.wallet = batch[r][n], e.age < TTL,
         via = "rpc" => e.count <= Count(e.wallet, asOf[r]),
         results' = [results EXCEPT ![r][n] =
           [wallet |-> e.wallet, count |-> e.count, age |-> e.age, via |-> via]],
         batch' = batch, asOf' = asOf
  PROVE  /\ DOMAIN results' = Requests /\ DOMAIN results'[r] = 1 .. Len(batch[r])
         /\ \A q \in Requests \ {r} : results'[q] = results[q]
         /\ \A i \in 1 .. Len(batch[r]) : i # n => results'[r][i] = results[r][i]
         /\ results'[r][n] # None /\ ResultOK(r, n)'
<1> DEFINE res == [wallet |-> e.wallet, count |-> e.count, age |-> e.age, via |-> via]
<1>1. DOMAIN results = Requests /\ DOMAIN results[r] = 1 .. Len(batch[r])
  BY DEF IInv, Shapes, RequestOK
<1>2. /\ res \in Result /\ res.wallet = e.wallet /\ res.count = e.count /\ res.age = e.age
      /\ res.via = via
  BY DEF Result, Evaluation
<1>3. res # None
  BY <1>2, NotNone
<1> HIDE DEF res
<1>4. /\ DOMAIN results' = Requests /\ DOMAIN results'[r] = 1 .. Len(batch[r])
      /\ \A q \in Requests \ {r} : results'[q] = results[q]
      /\ \A i \in 1 .. Len(batch[r]) : i # n => results'[r][i] = results[r][i]
      /\ results'[r][n] = res
  BY <1>1 DEF res
<1>5. ResultOK(r, n)'
  BY <1>2, <1>4 DEF ResultOK, Bounded
<1> QED BY <1>3, <1>4, <1>5

(* The next item is taken: its output is cached ...                        *)
LEMMA TakeCached ==
  ASSUME IInv, NEW r \in Requests, NEW k \in Runners, Take(r, k),
         Found(outputs[batch[r][cursor[r]]])
  PROVE  IInv'
<1>0. PICK n, w, e : n = cursor[r] /\ w = batch[r][n] /\ e = outputs[w].value
  OBVIOUS
<1>1. /\ RequestOK(r) /\ RunnerOK(r, k) /\ n \in 1 .. Len(batch[r]) /\ w \in Wallets
      /\ runner[r][k] = Turn /\ runner[r][k].n = 0 /\ batch[r] \in Seq(Wallets)
  BY <1>0 DEF IInv, Shapes, RequestOK, Take, Turn
<1>2. /\ cursor' = [cursor EXCEPT ![r] = n + 1] /\ Deliver(r, k, n, e, "outputs")
      /\ UNCHANGED <<head, indexed, outputs, metrics, phase, batch, asOf>>
  BY <1>0 DEF Take, caches
<1>3. e \in Evaluation /\ e.wallet = w /\ e.age < TTL
  BY <1>0, <1>1, FoundEntry DEF IInv, CachesOK
<1>4. /\ results' = [results EXCEPT ![r][n] =
           [wallet |-> e.wallet, count |-> e.count, age |-> e.age, via |-> "outputs"]]
      /\ Moves(r, k, Turn)
  BY <1>2 DEF Deliver, Await, Moves
<1>5. /\ DOMAIN results' = Requests /\ DOMAIN results'[r] = 1 .. Len(batch[r])
      /\ \A q \in Requests \ {r} : results'[q] = results[q]
      /\ \A i \in 1 .. Len(batch[r]) : i # n => results'[r][i] = results[r][i]
      /\ results'[r][n] # None /\ ResultOK(r, n)'
  <2>1. e.wallet = batch[r][n] /\ batch' = batch /\ asOf' = asOf
    BY <1>0, <1>2, <1>3
  <2> QED BY <1>1, <1>3, <1>4, <2>1, Delivered
<1>6. /\ cursor'[r] = n + 1 /\ cursor[r] = n /\ n \in Nat
      /\ \A q \in Requests \ {r} : cursor'[q] = cursor[q]
  BY <1>0, <1>1, <1>2 DEF IInv, Shapes
<1>7. Shapes'
  <2>1. cursor' \in [Requests -> Nat]
    BY <1>2, <1>6 DEF IInv, Shapes
  <2> QED BY <1>2, <1>4, <1>5, <2>1, MovesOnly DEF IInv, Shapes
<1>8. \A u \in Wallets : CachesOK(u)'
  <2>1. \A u \in Wallets : Evaluated(u) => Evaluated(u)'
    BY <1>1, <1>2, <1>4, MovesOnly DEF IInv, Evaluated, Turn
  <2> QED BY <1>2, <2>1 DEF IInv, CachesOK
<1>9. \A q \in Requests \ {r} : RequestOK(q)' /\ \A j \in Runners : RunnerOK(q, j)'
  BY <1>2, <1>4, <1>5, <1>6, OtherRequests DEF Fresh
<1>10. \A j \in Runners \ {k} : RunnerOK(r, j)'
  <2>1. \A j \in Runners \ {k} : runner[r][j].n # 0 =>
          /\ results'[r][runner[r][j].n] = results[r][runner[r][j].n] /\ 0 # runner[r][j].n
    <3>1. \A j \in Runners : runner[r][j].n # 0 => runner[r][j].n < n
      BY <1>6 DEF IInv, RunnerOK
    <3> QED BY <1>5, <1>6, <3>1, RunnerKinds
  <2> QED BY <1>2, <1>4, <1>6, <2>1, OtherRunners DEF Fresh, Turn
<1>11. RunnerOK(r, k)'
  BY <1>4, MovesOnly DEF IInv, RunnerOK, Turn
<1>12. RequestOK(r)'
  <2>1. \A j \in Runners : runner[r][j].n # 0 => runner'[r][j] = runner[r][j]
    BY <1>1, <1>4, MovesOnly DEF IInv
  <2>2. ASSUME NEW i \in 1 .. Len(batch[r]), i # n
        PROVE  /\ ResultOK(r, i)'
               /\ i >= n + 1 => results'[r][i] = None
               /\ (phase[r] = "running" /\ i < n + 1) =>
                    results'[r][i] # None \/ \E j \in Runners : runner'[r][j].n = i
               /\ phase[r] = "answered" => results'[r][i] # None
    <3>1. /\ results'[r][i] = results[r][i] /\ ResultOK(r, i) /\ i \in Nat
          /\ i >= n => results[r][i] = None
          /\ (phase[r] = "running" /\ i < n) =>
               results[r][i] # None \/ \E j \in Runners : runner[r][j].n = i
          /\ phase[r] = "answered" => results[r][i] # None
      BY <1>0, <1>1, <1>5, <2>2 DEF RequestOK
    <3>2. i # 0 /\ (i >= n + 1 => i >= n) /\ (i < n + 1 => i < n)
      BY <1>6, <2>2, <3>1
    <3>3. ResultOK(r, i)'
      BY <1>2, <3>1 DEF ResultOK, Bounded
    <3> QED BY <2>1, <3>1, <3>2, <3>3
  <2>3. /\ batch'[r] = batch[r] /\ phase'[r] = phase[r] /\ Len(batch[r]) \in Nat
        /\ n + 1 \in 1 .. Len(batch[r]) + 1 /\ ~ (n >= n + 1)
    BY <1>1, <1>2, <1>6
  <2> QED BY <1>1, <1>5, <1>6, <2>2, <2>3 DEF RequestOK
<1> QED BY <1>7, <1>8, <1>9, <1>10, <1>11, <1>12 DEF IInv

(* ... or not: it waits, or goes on with cached metrics, which another     *)
(* runner has just written.                                                *)
LEMMA TakeNotCached ==
  ASSUME IInv, NEW r \in Requests, NEW k \in Runners, Take(r, k),
         ~ Found(outputs[batch[r][cursor[r]]])
  PROVE  IInv'
<1> DEFINE n == cursor[r]
           w == batch[r][n]
           x == IF Found(metrics[w])
                THEN [at |-> "evaluate", n |-> n, via |-> "metrics", value |-> metrics[w].value]
                ELSE [at |-> "db", n |-> n]
<1>1. /\ RequestOK(r) /\ n \in 1 .. Len(batch[r]) /\ w \in Wallets
      /\ runner[r][k] = Turn /\ runner[r][k].n = 0 /\ batch[r] \in Seq(Wallets)
  BY DEF IInv, Shapes, RequestOK, Take, Turn
<1>2. /\ cursor' = [cursor EXCEPT ![r] = n + 1] /\ Moves(r, k, x) /\ results' = results
      /\ UNCHANGED <<head, indexed, outputs, metrics, phase, batch, asOf>>
  BY DEF Take, caches, Moves, Await
<1>3. Found(metrics[w]) => /\ metrics[w].value \in Evaluation /\ metrics[w].value.wallet = w
                           /\ metrics[w].value.age = 0 /\ Fresh(w)
  <2> SUFFICES ASSUME Found(metrics[w])
               PROVE  /\ metrics[w].value \in Evaluation /\ metrics[w].value.wallet = w
                      /\ metrics[w].value.age = 0 /\ Fresh(w)
    OBVIOUS
  <2>1. CachesOK(w)
    BY <1>1 DEF IInv
  <2>2. /\ metrics[w].value \in Evaluation /\ metrics[w].value.wallet = w
        /\ metrics[w].left \in 1 .. TTL
        /\ metrics[w].left = TTL => metrics[w].value.age = 0
    BY <2>1, FoundEntry DEF CachesOK
  <2>3. ~ (metrics[w].left <= outputs[w].left)
    <3>1. outputs[w].left \in 0 .. TTL /\ ~ (outputs[w].left > 0)
      BY <2>1, LeftType DEF CachesOK, Found
    <3> QED BY <2>2, <3>1, EvaluatorAssumption
  <2>4. PICK q \in Requests, j \in Runners :
          runner[q][j].at = "evaluate" /\ batch[q][runner[q][j].n] = w
    BY <2>1, <2>3 DEF CachesOK, Evaluated
  <2>5. Fresh(w)
    BY <2>4 DEF IInv, RunnerOK
  <2> QED BY <2>2, <2>5 DEF Fresh
<1>4. /\ x.n = n /\ x \in Waiting(r) \cup Knowing(r)
      /\ x.at = "evaluate" => /\ x.value.wallet = w /\ x.value.age = 0 /\ Fresh(w)
                              /\ x.via # "rpc"
  BY <1>1, <1>3 DEF Waiting, Knowing
<1> HIDE DEF n, w, x
<1>5. /\ cursor'[r] = n + 1 /\ cursor[r] = n /\ n \in Nat
      /\ \A q \in Requests \ {r} : cursor'[q] = cursor[q]
  BY <1>1, <1>2 DEF IInv, Shapes, n
<1>6. Shapes'
  <2>1. cursor' \in [Requests -> Nat]
    BY <1>2, <1>5 DEF IInv, Shapes
  <2> QED BY <1>2, <2>1, MovesOnly DEF IInv, Shapes
<1>7. \A u \in Wallets : CachesOK(u)'
  <2>1. \A u \in Wallets : Evaluated(u) => Evaluated(u)'
    BY <1>1, <1>2, MovesOnly DEF IInv, Evaluated, Turn
  <2> QED BY <1>2, <2>1 DEF IInv, CachesOK
<1>8. \A q \in Requests \ {r} : RequestOK(q)' /\ \A j \in Runners : RunnerOK(q, j)'
  BY <1>2, <1>5, OtherRequests DEF Fresh
<1>9. \A j \in Runners \ {k} : runner[r][j].n # 0 => runner[r][j].n < n
  BY <1>5 DEF IInv, RunnerOK
<1>10. \A j \in Runners \ {k} : RunnerOK(r, j)'
  <2>1. \A j \in Runners \ {k} : runner[r][j].n \in Nat
    BY <1>1, RunnerKinds
  <2> QED BY <1>2, <1>4, <1>5, <1>9, <2>1, OtherRunners DEF Fresh
<1>11. RunnerOK(r, k)'
  <2>1. /\ runner'[r][k] = x /\ \A j \in Runners \ {k} : runner'[r][j] = runner[r][j]
        /\ results[r][n] = None
    BY <1>1, <1>2, <1>5, MovesOnly DEF IInv, RequestOK
  <2>2. \A j \in Runners \ {k} : runner'[r][j].n # n
    BY <1>1, <1>9, <2>1, RunnerKinds
  <2>3. x.n # 0 /\ x.n < cursor'[r] /\ batch[r][n] = w
    BY <1>1, <1>4, <1>5 DEF w
  <2> QED BY <1>2, <1>4, <2>1, <2>2, <2>3 DEF RunnerOK, Fresh, Waiting, Knowing
<1>12. RequestOK(r)'
  <2>1. /\ runner'[r][k].n = n
        /\ \A j \in Runners : runner[r][j].n # 0 => runner'[r][j] = runner[r][j]
    BY <1>1, <1>2, <1>4, MovesOnly DEF IInv
  <2>2. ASSUME NEW i \in 1 .. Len(batch[r])
        PROVE  /\ ResultOK(r, i)'
               /\ i >= n + 1 => results'[r][i] = None
               /\ (phase[r] = "running" /\ i < n + 1) =>
                    results'[r][i] # None \/ \E j \in Runners : runner'[r][j].n = i
               /\ phase[r] = "answered" => results'[r][i] # None
    BY <1>1, <1>2, <1>5, <2>1 DEF RequestOK, ResultOK, Bounded
  <2> QED BY <1>1, <1>2, <1>5, <2>2 DEF RequestOK
<1> QED BY <1>6, <1>7, <1>8, <1>10, <1>11, <1>12 DEF IInv

(* A source answers.                                                       *)
LEMMA MeasuredKeeps ==
  ASSUME IInv, NEW r \in Requests, NEW k \in Runners, NEW source \in {"db", "rpc"},
         NEW count \in 0 .. Cardinality(Logs), runner[r][k].at \in {"db", "rpc"},
         Measured(r, k, source, count),
         source = "rpc" => count <= Count(batch[r][runner[r][k].n], asOf[r])
  PROVE  IInv'
<1>1. PICK n, w : n = runner[r][k].n /\ w = batch[r][n]
  OBVIOUS
<1>2. /\ RequestOK(r) /\ RunnerOK(r, k) /\ n \in 1 .. Len(batch[r]) /\ n # 0 /\ w \in Wallets
      /\ n < cursor[r] /\ results[r][n] = None
      /\ \A j \in Runners \ {k} : runner[r][j].n # n
  <2>1. runner[r][k] \in Waiting(r)
    BY RunnerKinds
  <2>2. n \in 1 .. Len(batch[r]) /\ n # 0
    BY <1>1, <2>1 DEF Waiting
  <2> QED BY <1>1, <2>2, RunnerKinds DEF IInv, RunnerOK
<1>3. PICK e, x : /\ e = [wallet |-> w, count |-> count, age |-> 0]
                  /\ x = [at |-> "evaluate", n |-> n, via |-> source, value |-> e]
  OBVIOUS
<1>4. e \in Evaluation /\ e.wallet = w /\ e.age = 0 /\ e.count = count
  BY <1>2, <1>3 DEF Evaluation
<1>5. /\ metrics' = [metrics EXCEPT ![w] = Put(e)] /\ Moves(r, k, x)
      /\ UNCHANGED <<head, indexed, outputs, phase, batch, asOf, cursor, results>>
  BY <1>1, <1>3 DEF Measured, Moves, Await
<1>6. /\ x \in Knowing(r) /\ x.n = n /\ x.at = "evaluate" /\ x.via = source /\ x.value = e
  BY <1>2, <1>3, <1>4 DEF Knowing
<1>7. /\ metrics'[w] = Put(e) /\ DOMAIN metrics' = Wallets
      /\ \A u \in Wallets \ {w} : metrics'[u] = metrics[u]
  BY <1>2, <1>5 DEF IInv, Shapes
<1>8. Fresh(w)' /\ \A u \in Wallets : Fresh(u) => Fresh(u)'
  BY <1>2, <1>4, <1>7, PutOK DEF Fresh
<1>9. Shapes'
  BY <1>5, <1>7, MovesOnly DEF IInv, Shapes
<1>10. \A u \in Wallets : CachesOK(u)'
  <2>1. ASSUME NEW u \in Wallets PROVE Evaluated(u) => Evaluated(u)'
    <3>1. \A q \in Requests, j \in Runners :
            runner[q][j].at = "evaluate" => runner'[q][j] = runner[q][j]
      BY <1>5, MovesOnly DEF IInv
    <3> QED BY <1>5, <3>1 DEF Evaluated
  <2>2. Evaluated(w)'
    BY <1>1, <1>5, <1>6, MovesOnly DEF IInv, Evaluated
  <2>3. CachesOK(w)'
    BY <1>2, <1>4, <1>5, <1>7, <2>2, PutOK DEF IInv, CachesOK, EntryOK
  <2>4. ASSUME NEW u \in Wallets \ {w} PROVE CachesOK(u)'
    BY <1>5, <1>7, <2>1 DEF IInv, CachesOK, EntryOK
  <2> QED BY <2>3, <2>4
<1>11. \A q \in Requests \ {r} : RequestOK(q)' /\ \A j \in Runners : RunnerOK(q, j)'
  BY <1>5, <1>8, OtherRequests
<1>12. \A j \in Runners \ {k} : RunnerOK(r, j)'
  <2>1. cursor'[r] \in Nat /\ cursor[r] <= cursor'[r]
    BY <1>5 DEF IInv, Shapes
  <2> QED BY <1>2, <1>5, <1>6, <1>8, <2>1, OtherRunners
<1>13. RunnerOK(r, k)'
  <2>1. /\ runner'[r][k] = x /\ \A j \in Runners \ {k} : runner'[r][j] = runner[r][j]
        /\ batch'[r][n] = w
    BY <1>1, <1>5, MovesOnly DEF IInv
  <2>2. source = "rpc" => count <= Count(w, asOf'[r])
    BY <1>1, <1>5
  <2> QED BY <1>2, <1>4, <1>5, <1>6, <1>8, <2>1, <2>2 DEF RunnerOK, Knowing
<1>14. RequestOK(r)'
  <2>1. \A j \in Runners : runner'[r][j].n = runner[r][j].n
    BY <1>1, <1>5, <1>6, MovesOnly DEF IInv
  <2> QED BY <1>2, <1>5, <2>1 DEF RequestOK, ResultOK, Bounded
<1> QED BY <1>9, <1>10, <1>11, <1>12, <1>13, <1>14 DEF IInv

(* The database has no answer, and the chain is asked for the same item.   *)
LEMMA DbNotAvailableKeeps ==
  ASSUME IInv, NEW r \in Requests, NEW k \in Runners, DbNotAvailable(r, k)
  PROVE  IInv'
<1>1. PICK x : x = [runner[r][k] EXCEPT !.at = "rpc"]
  OBVIOUS
<1>2. /\ runner[r][k].at = "db" /\ Moves(r, k, x)
      /\ UNCHANGED <<head, indexed, outputs, metrics, phase, batch, asOf, cursor, results>>
  BY <1>1 DEF DbNotAvailable, Moves, Await, caches
<1>3. x \in Waiting(r) /\ x.n = runner[r][k].n /\ x.at = "rpc"
  <2>1. runner[r][k] \in Waiting(r)
    BY <1>2, RunnerKinds
  <2> QED BY <1>1, <2>1 DEF Waiting
<1>4. Shapes'
  BY <1>2, MovesOnly DEF IInv, Shapes
<1>5. \A u \in Wallets : CachesOK(u)'
  <2>1. \A q \in Requests, j \in Runners :
          runner[q][j].at = "evaluate" => runner'[q][j] = runner[q][j]
    BY <1>2, MovesOnly DEF IInv
  <2> QED BY <1>2, <2>1 DEF IInv, CachesOK, EntryOK, Evaluated
<1>6. \A q \in Requests \ {r} : RequestOK(q)' /\ \A j \in Runners : RunnerOK(q, j)'
  BY <1>2, OtherRequests DEF Fresh
<1>7. \A j \in Runners : runner'[r][j].n = runner[r][j].n
  BY <1>2, <1>3, MovesOnly DEF IInv
<1>8. \A j \in Runners \ {k} : RunnerOK(r, j)'
  <2>1. cursor'[r] \in Nat /\ cursor[r] <= cursor'[r]
    BY <1>2 DEF IInv, Shapes
  <2>2. \A j \in Runners \ {k} : runner[r][j].n # 0 => x.n # runner[r][j].n
    BY <1>3 DEF IInv, RunnerOK
  <2> QED BY <1>2, <2>1, <2>2, OtherRunners DEF Fresh
<1>9. RunnerOK(r, k)'
  <2>1. runner'[r][k] = x /\ RunnerOK(r, k)
    BY <1>2, MovesOnly DEF IInv
  <2> QED BY <1>2, <1>3, <1>7, <2>1 DEF RunnerOK, Waiting
<1>10. RequestOK(r)'
  BY <1>2, <1>7 DEF IInv, RequestOK, ResultOK, Bounded
<1> QED BY <1>4, <1>5, <1>6, <1>8, <1>9, <1>10 DEF IInv

(* The output is cached and the result delivered.                          *)
LEMMA EvaluateKeeps ==
  ASSUME IInv, NEW r \in Requests, NEW k \in Runners, Evaluate(r, k)
  PROVE  IInv'
<1>1. PICK n, w, e, via : /\ n = runner[r][k].n /\ w = batch[r][n]
                          /\ e = runner[r][k].value /\ via = runner[r][k].via
  OBVIOUS
<1>2. /\ RequestOK(r) /\ RunnerOK(r, k) /\ runner[r][k].at = "evaluate"
      /\ n \in 1 .. Len(batch[r]) /\ n \in Nat /\ n # 0 /\ w \in Wallets /\ Fresh(w)
      /\ e \in Evaluation /\ e.wallet = w /\ e.age = 0 /\ via \in {"metrics", "db", "rpc"}
      /\ via = "rpc" => e.count <= Count(w, asOf[r])
      /\ n < cursor[r] /\ \A j \in Runners \ {k} : runner[r][j].n # n
  <2>1. runner[r][k].at = "evaluate" /\ RunnerOK(r, k) /\ RequestOK(r)
    BY DEF Evaluate, IInv
  <2>2. runner[r][k] \in Knowing(r)
    BY <2>1, RunnerKinds
  <2>3. /\ n \in 1 .. Len(batch[r]) /\ n \in Nat /\ n # 0 /\ e \in Evaluation
        /\ via \in {"metrics", "db", "rpc"}
    BY <1>1, <2>2 DEF Knowing
  <2> QED BY <1>1, <2>1, <2>3, RunnerKinds DEF RunnerOK
<1>3. /\ outputs' = [outputs EXCEPT ![w] = Put(e)] /\ Moves(r, k, Turn)
      /\ results' = [results EXCEPT ![r][n] =
           [wallet |-> e.wallet, count |-> e.count, age |-> e.age, via |-> via]]
      /\ UNCHANGED <<head, indexed, metrics, phase, batch, asOf, cursor>>
  BY <1>1 DEF Evaluate, Deliver, Await, Moves
<1>4. /\ DOMAIN results' = Requests /\ DOMAIN results'[r] = 1 .. Len(batch[r])
      /\ \A q \in Requests \ {r} : results'[q] = results[q]
      /\ \A i \in 1 .. Len(batch[r]) : i # n => results'[r][i] = results[r][i]
      /\ results'[r][n] # None /\ ResultOK(r, n)'
  <2>1. e.age < TTL /\ e.wallet = batch[r][n] /\ batch' = batch /\ asOf' = asOf
    BY <1>1, <1>2, <1>3, EvaluatorAssumption
  <2> QED BY <1>2, <1>3, <2>1, Delivered
<1>5. /\ outputs'[w] = Put(e) /\ DOMAIN outputs' = Wallets
      /\ \A u \in Wallets \ {w} : outputs'[u] = outputs[u]
  BY <1>2, <1>3 DEF IInv, Shapes
<1>6. Shapes'
  BY <1>3, <1>4, <1>5, MovesOnly DEF IInv, Shapes
<1>7. \A u \in Wallets : CachesOK(u)'
  <2>1. CachesOK(w)'
    <3>1. EntryOK(Put(e), w) /\ Put(e).left = TTL
      BY <1>2, PutOK
    <3>2. EntryOK(metrics[w], w) /\ metrics[w].left = TTL
      BY <1>2 DEF IInv, CachesOK, Fresh
    <3>3. metrics'[w].left <= outputs'[w].left
      BY <1>3, <1>5, <3>1, <3>2, EvaluatorAssumption
    <3> QED BY <1>3, <1>5, <3>1, <3>2, <3>3 DEF CachesOK, EntryOK
  <2>2. ASSUME NEW u \in Wallets \ {w} PROVE CachesOK(u)'
    <3>1. Evaluated(u) => Evaluated(u)'
      <4>1. \A q \in Requests, j \in Runners :
              batch[q][runner[q][j].n] = u => runner'[q][j] = runner[q][j]
        BY <1>1, <1>3, <2>2, MovesOnly DEF IInv
      <4> QED BY <1>3, <4>1 DEF Evaluated
    <3> QED BY <1>3, <1>5, <3>1 DEF IInv, CachesOK, EntryOK
  <2> QED BY <2>1, <2>2
<1>8. \A q \in Requests \ {r} : RequestOK(q)' /\ \A j \in Runners : RunnerOK(q, j)'
  BY <1>3, <1>4, OtherRequests DEF Fresh
<1>9. \A j \in Runners \ {k} : RunnerOK(r, j)'
  <2>1. cursor'[r] \in Nat /\ cursor[r] <= cursor'[r]
    BY <1>3 DEF IInv, Shapes
  <2>2. \A j \in Runners \ {k} : runner[r][j].n # 0 =>
          /\ results'[r][runner[r][j].n] = results[r][runner[r][j].n]
          /\ 0 # runner[r][j].n
    <3>1. \A j \in Runners : runner[r][j].n # 0 => runner[r][j].n \in 1 .. Len(batch[r])
      <4>1. Len(batch[r]) \in Nat
        BY DEF IInv, Shapes
      <4> QED BY <4>1, RunnerKinds
    <3> QED BY <1>2, <1>4, <3>1
  <2> QED BY <1>3, <2>1, <2>2, OtherRunners DEF Fresh, Turn
<1>10. RunnerOK(r, k)'
  BY <1>3, MovesOnly DEF IInv, RunnerOK, Turn
<1>11. RequestOK(r)'
  <2>1. \A j \in Runners \ {k} : runner'[r][j] = runner[r][j]
    BY <1>3, MovesOnly DEF IInv
  <2>2. ASSUME NEW i \in 1 .. Len(batch[r]), i # n
        PROVE  /\ ResultOK(r, i)'
               /\ i >= cursor[r] => results'[r][i] = None
               /\ (phase[r] = "running" /\ i < cursor[r]) =>
                    results'[r][i] # None \/ \E j \in Runners : runner'[r][j].n = i
               /\ phase[r] = "answered" => results'[r][i] # None
    <3>1. /\ results'[r][i] = results[r][i] /\ ResultOK(r, i)
          /\ i >= cursor[r] => results[r][i] = None
          /\ (phase[r] = "running" /\ i < cursor[r]) =>
               results[r][i] # None \/ \E j \in Runners : runner[r][j].n = i
          /\ phase[r] = "answered" => results[r][i] # None
      BY <1>2, <1>4, <2>2 DEF RequestOK
    <3>2. ResultOK(r, i)'
      BY <1>3, <3>1 DEF ResultOK, Bounded
    <3> QED BY <1>1, <2>1, <2>2, <3>1, <3>2
  <2>3. ~ (n >= cursor[r]) /\ batch' = batch /\ phase' = phase /\ cursor' = cursor
    BY <1>2, <1>3 DEF IInv, Shapes
  <2> QED BY <1>2, <1>4, <2>2, <2>3 DEF RequestOK
<1> QED BY <1>6, <1>7, <1>8, <1>9, <1>10, <1>11 DEF IInv

(* A runner ends, as nothing is left for it or as the last source failed.  *)
LEMMA RunnerEnds ==
  ASSUME IInv, NEW r \in Requests, NEW k \in Runners, RpcNotAvailable(r, k) \/ End(r, k)
  PROVE  IInv'
<1>1. /\ Moves(r, k, Ended) /\ runner[r][k].at \in {"turn", "rpc"}
      /\ UNCHANGED <<head, indexed, outputs, metrics, batch, asOf, cursor, results>>
  BY DEF RpcNotAvailable, End, Moves, Await, caches, Turn
<1>2. PICK ph \in {"idle", "running", "answered", "failed"} : phase' = [phase EXCEPT ![r] = ph]
  <2>1. phase[r] \in {"idle", "running", "answered", "failed"}
    BY DEF IInv, Shapes
  <2>2. CASE RpcNotAvailable(r, k)
    BY <2>2 DEF RpcNotAvailable
  <2>3. CASE End(r, k)
    BY <2>1, <2>3 DEF End
  <2> QED BY <2>2, <2>3
<1>3. phase'[r] = ph /\ \A q \in Requests \ {r} : phase'[q] = phase[q]
  BY <1>2 DEF IInv, Shapes
<1>4. Shapes'
  BY <1>1, <1>2, MovesOnly DEF IInv, Shapes
<1>5. \A u \in Wallets : CachesOK(u)'
  <2>1. \A q \in Requests, j \in Runners :
          runner[q][j].at = "evaluate" => runner'[q][j] = runner[q][j]
    BY <1>1, MovesOnly DEF IInv
  <2> QED BY <1>1, <2>1 DEF IInv, CachesOK, EntryOK, Evaluated
<1>6. \A q \in Requests \ {r} : RequestOK(q)' /\ \A j \in Runners : RunnerOK(q, j)'
  BY <1>1, <1>3, OtherRequests DEF Fresh
<1>7. \A j \in Runners \ {k} : RunnerOK(r, j)'
  <2>1. cursor'[r] \in Nat /\ cursor[r] <= cursor'[r]
    BY <1>1 DEF IInv, Shapes
  <2>2. Ended.n = 0
    BY DEF Ended
  <2> QED BY <1>1, <2>1, <2>2, OtherRunners DEF Fresh
<1>8. RunnerOK(r, k)'
  BY <1>1, MovesOnly DEF IInv, RunnerOK, Ended
<1>9. RequestOK(r)'
  <2>1. /\ RequestOK(r) /\ Len(batch[r]) \in Nat /\ cursor[r] \in Nat
    BY DEF IInv, Shapes
  <2>2. CASE RpcNotAvailable(r, k)
    <3>1. ph = "failed"
      BY <1>3, <2>2 DEF RpcNotAvailable, IInv, Shapes
    <3> QED BY <1>1, <1>3, <2>1, <3>1 DEF RequestOK, ResultOK, Bounded
  <2>3. CASE End(r, k)
    <3>1. /\ runner[r][k] = Turn /\ runner[r][k].n = 0 /\ cursor[r] > Len(batch[r])
          /\ ph = IF phase[r] = "running" /\ \A j \in Runners \ {k} : runner[r][j] = Ended
                  THEN "answered" ELSE phase[r]
      BY <1>3, <2>3 DEF End, IInv, Shapes, Turn
    <3>2. \A j \in Runners : runner'[r][j].n = runner[r][j].n
      BY <1>1, <3>1, MovesOnly DEF IInv, Ended
    <3>3. ASSUME NEW i \in 1 .. Len(batch[r])
          PROVE  /\ ph = "running" => results[r][i] # None \/ \E j \in Runners : runner[r][j].n = i
                 /\ ph = "answered" => results[r][i] # None
      <4>1. i < cursor[r]
        BY <2>1, <3>1
      <4>2. /\ phase[r] = "running" => results[r][i] # None \/ \E j \in Runners : runner[r][j].n = i
            /\ phase[r] = "answered" => results[r][i] # None
        BY <2>1, <4>1 DEF RequestOK
      <4>3. (\A j \in Runners \ {k} : runner[r][j] = Ended) => ~ \E j \in Runners : runner[r][j].n = i
        BY <3>1 DEF Ended
      <4> QED BY <3>1, <4>2, <4>3
    <3> QED BY <1>1, <1>3, <2>1, <3>2, <3>3 DEF RequestOK, ResultOK, Bounded
  <2> QED BY <2>2, <2>3
<1> QED BY <1>4, <1>5, <1>6, <1>7, <1>8, <1>9 DEF IInv

-----------------------------------------------------------------------------
LEMMA StepKeeps ==
  ASSUME IInv, NEW r \in Requests, NEW k \in Runners, Step(r, k)
  PROVE  IInv'
<1>1. CASE Take(r, k)
  BY <1>1, TakeCached, TakeNotCached
<1>2. CASE Evaluate(r, k)
  BY <1>2, EvaluateKeeps
<1>3. CASE AskDb(r, k)
  <2>1. PICK count : count = Count(batch[r][runner[r][k].n], indexed)
    OBVIOUS
  <2>2. count \in 0 .. Cardinality(Logs)
    BY <2>1, CountType
  <2> QED BY <1>3, <2>1, <2>2, MeasuredKeeps DEF AskDb
<1>4. CASE AskRpc(r, k)
  <2>1. PICK latest \in EndpointHeads :
          Measured(r, k, "rpc", Count(batch[r][runner[r][k].n],
                                      IF latest < asOf[r] THEN latest ELSE asOf[r]))
    BY <1>4 DEF AskRpc
  <2>2. PICK b, count : /\ b = IF latest < asOf[r] THEN latest ELSE asOf[r]
                        /\ count = Count(batch[r][runner[r][k].n], b)
    OBVIOUS
  <2>3. asOf[r] \in Nat /\ latest \in Nat
    BY EvaluatorAssumption DEF IInv, Shapes, Blocks, EndpointHeads
  <2>4. b \in Nat /\ b <= asOf[r]
    BY <2>2, <2>3
  <2>5. count \in 0 .. Cardinality(Logs) /\ count <= Count(batch[r][runner[r][k].n], asOf[r])
    BY <2>2, <2>3, <2>4, CountType, CountGrows
  <2> QED BY <1>4, <2>1, <2>2, <2>5, MeasuredKeeps DEF AskRpc
<1>5. CASE DbNotAvailable(r, k)
  BY <1>5, DbNotAvailableKeeps
<1>6. CASE RpcNotAvailable(r, k) \/ End(r, k)
  BY <1>6, RunnerEnds
<1> QED BY <1>1, <1>2, <1>3, <1>4, <1>5, <1>6 DEF Step

LEMMA EvaluatorStarts == Init => IInv
<1> SUFFICES ASSUME Init PROVE IInv
  OBVIOUS
<1>1. Shapes
  BY EvaluatorAssumption DEF Init, Shapes, Blocks
<1>2. ASSUME NEW w \in Wallets PROVE CachesOK(w)
  BY DEF Init, CachesOK, EntryOK, None
<1>3. ASSUME NEW r \in Requests PROVE RequestOK(r)
  BY DEF Init, RequestOK
<1>4. ASSUME NEW r \in Requests, NEW k \in Runners PROVE RunnerOK(r, k)
  BY DEF Init, RunnerOK, Ended
<1> QED BY <1>1, <1>2, <1>3, <1>4 DEF IInv

LEMMA EvaluatorInductive == Spec => []IInv
<1>1. IInv /\ [Next]_vars => IInv'
  BY Outside, TickKeeps, ArriveKeeps, StepKeeps DEF Next
<1> QED BY EvaluatorStarts, <1>1, PTL DEF Spec

(* TYPE CORRECTNESS; also, a cache has under a wallet what was found out   *)
(* about that wallet only.                                                 *)
THEOREM EvaluatorTypes == Spec => []TypeOK
<1>1. IInv => TypeOK
  <2> SUFFICES ASSUME IInv PROVE TypeOK
    OBVIOUS
  <2>1. ASSUME NEW w \in Wallets PROVE IsEntry(outputs[w], w) /\ IsEntry(metrics[w], w)
    BY DEF IInv, CachesOK, EntryOK, IsEntry
  <2>2. ASSUME NEW r \in Requests, NEW k \in Runners
        PROVE  \/ runner[r][k] \in {Turn, Ended}
               \/ runner[r][k] \in [at : {"db", "rpc"}, n : 1 .. Len(batch[r])]
               \/ /\ runner[r][k].at = "evaluate"
                  /\ runner[r][k].n \in 1 .. Len(batch[r])
                  /\ runner[r][k].value.wallet = batch[r][runner[r][k].n]
    BY DEF IInv, RunnerOK, Waiting, Knowing
  <2>3. ASSUME NEW r \in Requests
        PROVE  /\ batch[r] \in Batches[r] \cup {<<>>}
               /\ cursor[r] \in 1 .. Len(batch[r]) + 1
               /\ DOMAIN results[r] = 1 .. Len(batch[r])
    BY DEF IInv, RequestOK
  <2> QED BY <2>1, <2>2, <2>3 DEF IInv, Shapes, TypeOK
<1> QED BY <1>1, EvaluatorInductive, PTL

(* EVERY WALLET ONCE, IN ITS PLACE: mapWithConcurrency, for any list and   *)
(* any concurrency.                                                        *)
THEOREM WalletsOnceInPlace == Spec => []EveryWalletOnce
<1>1. IInv => EveryWalletOnce
  <2> SUFFICES ASSUME IInv, NEW r \in Requests
               PROVE  /\ \A k \in Runners : runner[r][k].n # 0 =>
                           /\ results[r][runner[r][k].n] = None
                           /\ \A j \in Runners \ {k} : runner[r][j].n # runner[r][k].n
                      /\ phase[r] = "answered" =>
                           \A i \in 1 .. Len(batch[r]) : /\ results[r][i] # None
                                                         /\ results[r][i].wallet = batch[r][i]
    BY DEF EveryWalletOnce
  <2>1. \A k \in Runners : RunnerOK(r, k)
    BY DEF IInv
  <2>2. RequestOK(r)
    BY DEF IInv
  <2> QED BY <2>1, <2>2 DEF RunnerOK, RequestOK, ResultOK
<1> QED BY <1>1, EvaluatorInductive, PTL

(* ONE LIFETIME, THOUGH THERE ARE TWO CACHES: no answer holds metrics a    *)
(* source gave a lifetime ago or earlier.                                  *)
THEOREM CachesShareOneLifetime == Spec => []OneLifetimeAtMost
<1>1. IInv => OneLifetimeAtMost
  BY DEF IInv, RequestOK, ResultOK, OneLifetimeAtMost
<1> QED BY <1>1, EvaluatorInductive, PTL

(* NOTHING AFTER THE BLOCK of the request is counted by the chain's source.*)
THEOREM ChainStopsAtTheBlock == Spec => []NothingAfterTheBlock
<1>1. IInv => NothingAfterTheBlock
  BY DEF IInv, RequestOK, ResultOK, Bounded, NothingAfterTheBlock
<1> QED BY <1>1, EvaluatorInductive, PTL
=============================================================================
