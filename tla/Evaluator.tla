----------------------------- MODULE Evaluator -----------------------------
(***************************************************************************)
(* Evaluations of wallets, services/evaluatorService.ts over the metrics   *)
(* providers of services/metrics and the caches of cacheService.ts.        *)
(*                                                                         *)
(* A request evaluates a list of wallets of one campaign in one window, at *)
(* a block: the one it names, or the head when it arrives.  A number of    *)
(* runners take the wallets in turn.  Each looks for the wallet's output   *)
(* in one cache and for its metrics in another, and asks the indexer's     *)
(* database, and the chain if the database has nothing.  Both caches are   *)
(* keyed by the wallet (and campaign and window), not by the block.        *)
(*                                                                         *)
(* POST /v1/evaluate is a request of one wallet.                           *)
(***************************************************************************)
EXTENDS Naturals, Sequences, FiniteSets

CONSTANTS
  Requests,     \* requests in flight, each slot used again and again
  Wallets,
  Batches,      \* the lists of wallets the requests of a slot come with
  Logs,         \* the Transfer logs of the campaign in the window
  Sources,      \* which of "db" and "rpc" may answer
  Concurrency,  \* runners of a request, 15 in the code
  TTL,          \* DEFAULT_CACHE_TTL_MS in ticks of the clock
  FirstHead,    \* the head in the initial state
  MaxBlock,     \* bound: the chain stops growing here
  MaxLag        \* bound: how far an endpoint is behind the head

ASSUME EvaluatorAssumption ==
  /\ Batches \in [Requests -> SUBSET (Seq(Wallets) \ {<<>>})]
  /\ Logs \subseteq [block : Nat, index : Nat, wallet : Wallets]
  /\ IsFiniteSet(Logs)
  /\ Sources \subseteq {"db", "rpc"}
  /\ Concurrency \in Nat \ {0}
  /\ TTL \in Nat \ {0}
  /\ FirstHead \in Nat
  /\ MaxBlock \in Nat
  /\ FirstHead <= MaxBlock
  /\ MaxLag \in Nat

VARIABLES
  head,          \* the newest block
  indexed,       \* the newest block whose logs are in the transfers collection
  \* the caches, keyed by wallet
  outputs,       \* usageOutputCache
  metrics,       \* the cache of CacheMetricsProvider
  \* each request
  phase,
  batch,         \* the wallets
  asOf,          \* as_of_block, resolved when the request is read
  cursor,        \* the next item of mapWithConcurrency
  results,
  \* each runner of each request
  runner         \* what it awaits and for which item

caches == <<outputs, metrics>>
requestVars == <<phase, batch, asOf, cursor, results, runner>>
vars == <<head, indexed, caches, requestVars>>

Blocks  == 0 .. MaxBlock
Runners == 1 .. Concurrency

Count(w, b) == Cardinality({l \in Logs : l.wallet = w /\ l.block <= b})

(* What is known of a wallet: the transfers counted and, for the           *)
(* properties only, how long ago.                                          *)
Evaluation == [wallet : Wallets, count : 0 .. Cardinality(Logs), age : Nat]

-----------------------------------------------------------------------------
(* TTLCache.  The entry of a key holds an evaluation and left, the time it *)
(* has yet to live (expiresAt - now).                                      *)
None == [left |-> 0]

Put(e) == [value |-> e, left |-> TTL]

\* Mutant: an entry is found also at the time it expires.
FoundMutant(entry) == entry # None

Found(entry) == entry.left > 0

(* A tick later.  What has expired may as well be gone.                    *)
Older(entry) == IF entry.left = 0 THEN None
                ELSE [value |-> [entry.value EXCEPT !.age = @ + 1],
                      left  |-> entry.left - 1]

-----------------------------------------------------------------------------
(* What a runner awaits: its turn, one of the sources for item n, or       *)
(* nothing any more.                                                       *)
Turn  == [at |-> "turn", n |-> 0]
Ended == [at |-> "ended", n |-> 0]

Init == /\ head = FirstHead
        /\ indexed = 0
        /\ outputs = [w \in Wallets |-> None]
        /\ metrics = [w \in Wallets |-> None]
        /\ phase = [r \in Requests |-> "idle"]
        /\ batch = [r \in Requests |-> <<>>]
        /\ asOf = [r \in Requests |-> 0]
        /\ cursor = [r \in Requests |-> 1]
        /\ results = [r \in Requests |-> <<>>]
        /\ runner = [r \in Requests |-> [k \in Runners |-> Ended]]

(* No runner is between its writes to the two caches.  It goes from one to *)
(* the other at once, before anything comes in from outside or the clock   *)
(* ticks; only other runners may get a turn in between.                    *)
Settled == \A r \in Requests, k \in Runners : runner[r][k].at # "evaluate"

Mine == /\ Settled
        /\ head < MaxBlock
        /\ head' = head + 1
        /\ UNCHANGED <<indexed, caches, requestVars>>

(* The listener stores the logs of another block.                          *)
Index == /\ Settled
         /\ indexed < head
         /\ indexed' = indexed + 1
         /\ UNCHANGED <<head, caches, requestVars>>

Tick == /\ Settled
        /\ outputs' = [w \in Wallets |-> Older(outputs[w])]
        /\ metrics' = [w \in Wallets |-> Older(metrics[w])]
        /\ UNCHANGED <<head, indexed, requestVars>>

-----------------------------------------------------------------------------
EndpointHeads == {h \in 0 .. head : head - h <= MaxLag}

(* A request arrives in a slot nothing works for any more.                 *)
(* runCampaignBatch resolves its as_of_block, a block the chain has, and   *)
(* starts the runners.                                                     *)
Arrive(r) ==
  /\ Settled
  /\ phase[r] # "running"
  /\ \A k \in Runners : runner[r][k] = Ended
  /\ \E ws \in Batches[r], b \in 0 .. head :
       /\ batch' = [batch EXCEPT ![r] = ws]
       /\ asOf' = [asOf EXCEPT ![r] = b]
       /\ results' = [results EXCEPT ![r] = [i \in 1 .. Len(ws) |-> None]]
       /\ runner' = [runner EXCEPT ![r] =
                       [k \in Runners |-> IF k <= Len(ws) THEN Turn ELSE Ended]]
  /\ phase' = [phase EXCEPT ![r] = "running"]
  /\ cursor' = [cursor EXCEPT ![r] = 1]
  /\ UNCHANGED <<head, indexed, caches>>

Await(r, k, what) == runner' = [runner EXCEPT ![r][k] = what]

(* Item n is done; the runner goes on to its next turn.  via says where    *)
(* the evaluation was found.                                               *)
Deliver(r, k, n, e, via) ==
  /\ results' = [results EXCEPT ![r][n] =
       [wallet |-> e.wallet, count |-> e.count, age |-> e.age, via |-> via]]
  /\ Await(r, k, Turn)

\* Mutant: the cursor moves on when the item is done, not when it is taken.
TakeMutant(r, k) ==
  /\ runner[r][k] = Turn
  /\ cursor[r] <= Len(batch[r])
  /\ Await(r, k, [at |-> "db", n |-> cursor[r]])
  /\ UNCHANGED <<head, indexed, caches, phase, batch, asOf, cursor, results>>

(* The next wallet: its output from the cache, or its metrics from theirs, *)
(* or a query of the database.                                             *)
Take(r, k) ==
  LET n == cursor[r]
      w == batch[r][n]
  IN /\ runner[r][k] = Turn
     /\ n <= Len(batch[r])
     /\ cursor' = [cursor EXCEPT ![r] = n + 1]
     /\ \/ /\ Found(outputs[w])
           /\ Deliver(r, k, n, outputs[w].value, "outputs")
        \/ /\ ~Found(outputs[w])
           /\ Await(r, k, IF Found(metrics[w])
                          THEN [at |-> "evaluate", n |-> n, via |-> "metrics",
                                value |-> metrics[w].value]
                          ELSE [at |-> "db", n |-> n])
           /\ UNCHANGED results
     /\ UNCHANGED <<head, indexed, caches, phase, batch, asOf>>

(* A source answers: the metrics are cached ...                            *)
Measured(r, k, source, count) ==
  LET n == runner[r][k].n
      w == batch[r][n]
      e == [wallet |-> w, count |-> count, age |-> 0]
  IN /\ metrics' = [metrics EXCEPT ![w] = Put(e)]
     /\ Await(r, k, [at |-> "evaluate", n |-> n, via |-> source, value |-> e])
     /\ UNCHANGED <<head, indexed, outputs, phase, batch, asOf, cursor, results>>

\* Mutant: the output is cached under the next wallet to be taken.
EvaluateMutant(r, k) ==
  LET n == runner[r][k].n
      w == batch[r][IF cursor[r] <= Len(batch[r]) THEN cursor[r] ELSE n]
  IN /\ runner[r][k].at = "evaluate"
     /\ outputs' = [outputs EXCEPT ![w] = Put(runner[r][k].value)]
     /\ Deliver(r, k, n, runner[r][k].value, runner[r][k].via)
     /\ UNCHANGED <<head, indexed, metrics, phase, batch, asOf, cursor>>

(* ... and, as soon as the runner goes on with them, the output.           *)
Evaluate(r, k) ==
  LET n == runner[r][k].n
  IN /\ runner[r][k].at = "evaluate"
     /\ outputs' = [outputs EXCEPT ![batch[r][n]] = Put(runner[r][k].value)]
     /\ Deliver(r, k, n, runner[r][k].value, runner[r][k].via)
     /\ UNCHANGED <<head, indexed, metrics, phase, batch, asOf, cursor>>

(* IndexerDbMetricsProvider counts what is indexed, up to whatever block.  *)
(* Without any log of the targets the database is not an answer.           *)
AskDb(r, k) == /\ runner[r][k].at = "db"
               /\ "db" \in Sources
               /\ \E l \in Logs : l.block <= indexed
               /\ Measured(r, k, "db", Count(batch[r][runner[r][k].n], indexed))

(* It has no answer or cannot be reached: FallbackMetricsProvider goes on. *)
DbNotAvailable(r, k) ==
  /\ runner[r][k].at = "db"
  /\ Await(r, k, [runner[r][k] EXCEPT !.at = "rpc"])
  /\ UNCHANGED <<head, indexed, caches, phase, batch, asOf, cursor, results>>

\* Mutant: as_of_block is not looked at.
AskRpcMutant(r, k) ==
  /\ runner[r][k].at = "rpc"
  /\ "rpc" \in Sources
  /\ Measured(r, k, "rpc", Count(batch[r][runner[r][k].n], head))

(* RpcMetricsProvider counts the logs up to as_of_block, or up to the head *)
(* its endpoint knows.                                                     *)
AskRpc(r, k) ==
  /\ runner[r][k].at = "rpc"
  /\ "rpc" \in Sources
  /\ \E latest \in EndpointHeads :
       Measured(r, k, "rpc", Count(batch[r][runner[r][k].n],
                                    IF latest < asOf[r] THEN latest ELSE asOf[r]))

\* Mutant: after the last source comes the first again.
RpcNotAvailableMutant(r, k) ==
  /\ runner[r][k].at = "rpc"
  /\ Await(r, k, [runner[r][k] EXCEPT !.at = "db"])
  /\ UNCHANGED <<head, indexed, caches, phase, batch, asOf, cursor, results>>

(* The last source fails: the runner rejects, and the request with it at   *)
(* once.  Its other runners are not told and go on.                        *)
RpcNotAvailable(r, k) ==
  /\ runner[r][k].at = "rpc"
  /\ Await(r, k, Ended)
  /\ phase' = [phase EXCEPT ![r] = "failed"]
  /\ UNCHANGED <<head, indexed, caches, batch, asOf, cursor, results>>

(* No wallet is left for the runner; the last one answers the request.     *)
End(r, k) ==
  /\ runner[r][k] = Turn
  /\ cursor[r] > Len(batch[r])
  /\ Await(r, k, Ended)
  /\ phase' = [phase EXCEPT ![r] =
                 IF @ = "running" /\ \A j \in Runners \ {k} : runner[r][j] = Ended
                 THEN "answered" ELSE @]
  /\ UNCHANGED <<head, indexed, caches, batch, asOf, cursor, results>>

Step(r, k) == \/ Take(r, k)
              \/ Evaluate(r, k)
              \/ AskDb(r, k)
              \/ DbNotAvailable(r, k)
              \/ AskRpc(r, k)
              \/ RpcNotAvailable(r, k)
              \/ End(r, k)

Next == \/ Mine
        \/ Index
        \/ Tick
        \/ \E r \in Requests : Arrive(r) \/ \E k \in Runners : Step(r, k)

Spec == Init /\ [][Next]_vars

(* Each await of a runner settles: queries and calls answer or time out.   *)
FairSpec == Spec /\ \A r \in Requests, k \in Runners : WF_vars(Step(r, k))
-----------------------------------------------------------------------------
IsEntry(entry, w) == \/ entry = None
                     \/ /\ entry.left \in 0 .. TTL
                        /\ entry.value \in Evaluation
                        /\ entry.value.wallet = w

(* The variables have their declared types, and a cache has under a wallet *)
(* nothing but what was found out about that wallet.                       *)
TypeOK ==
  /\ head \in Blocks
  /\ indexed \in 0 .. head
  /\ \A w \in Wallets : IsEntry(outputs[w], w) /\ IsEntry(metrics[w], w)
  /\ phase \in [Requests -> {"idle", "running", "answered", "failed"}]
  /\ asOf \in [Requests -> Blocks]
  /\ \A r \in Requests :
       /\ batch[r] \in Batches[r] \cup {<<>>}
       /\ cursor[r] \in 1 .. Len(batch[r]) + 1
       /\ DOMAIN results[r] = 1 .. Len(batch[r])
       /\ \A k \in Runners :
            \/ runner[r][k] \in {Turn, Ended}
            \/ runner[r][k] \in [at : {"db", "rpc"}, n : 1 .. Len(batch[r])]
            \/ /\ runner[r][k].at = "evaluate"
               /\ runner[r][k].n \in 1 .. Len(batch[r])
               /\ runner[r][k].value.wallet = batch[r][runner[r][k].n]

(* EVERY WALLET ONCE, IN ITS PLACE.  The runners share one cursor.  A      *)
(* wallet of the list is at one runner at most and not yet in the results, *)
(* and an answered request has for each wallet, in the order of the list,  *)
(* what was found out about that wallet.                                   *)
EveryWalletOnce ==
  \A r \in Requests :
    /\ \A k \in Runners : runner[r][k].n # 0 =>
         /\ results[r][runner[r][k].n] = None
         /\ \A j \in Runners \ {k} : runner[r][j].n # runner[r][k].n
    /\ phase[r] = "answered" =>
         \A i \in 1 .. Len(batch[r]) : /\ results[r][i] # None
                                       /\ results[r][i].wallet = batch[r][i]

(* ONE LIFETIME, THOUGH THERE ARE TWO CACHES.  The caches are stacked, and *)
(* an output computed from cached metrics starts a lifetime of its own.    *)
(* Yet no request is given what a source said a lifetime ago or earlier:   *)
(* metrics are found without an output only in the moment between the two  *)
(* writes of another runner.                                               *)
OneLifetimeAtMost ==
  \A r \in Requests : \A i \in DOMAIN results[r] :
    results[r][i] # None => results[r][i].age < TTL

(* NOTHING AFTER THE BLOCK.  What the chain is asked for a request does    *)
(* not count a transfer after the request's block, though the chain grows  *)
(* while the request's runners are at work.                                *)
NothingAfterTheBlock ==
  \A r \in Requests : \A i \in DOMAIN results[r] :
    LET e == results[r][i]
    IN e # None /\ e.via = "rpc" => e.count <= Count(e.wallet, asOf[r])

(* docs/README_API.md: "Responses now include `meta.as_of_block` at top    *)
(* level so runs can be replayed deterministically."  Two answers for the  *)
(* same block, old enough that no endpoint lacks it, agree on a wallet.    *)
Replayable ==
  \A r, s \in Requests :
    (phase[r] = "answered" /\ phase[s] = "answered" /\ asOf[r] = asOf[s]) =>
      \A i \in DOMAIN results[r], j \in DOMAIN results[s] :
        results[r][i].wallet = results[s][j].wallet =>
          results[r][i].count = results[s][j].count

(* EVERY REQUEST ENDS, answered or failed, and so do the runners it leaves *)
(* behind when it fails.                                                   *)
EveryRequestEnds ==
  \A r \in Requests :
    phase[r] = "running" ~> /\ phase[r] # "running"
                            /\ \A k \in Runners : runner[r][k] = Ended
=============================================================================
