----------------------------- MODULE Commentary -----------------------------
(***************************************************************************)
(* Insights and commentary: insightsService.ts and commentaryService.ts    *)
(* behind the two handlers of commentary.controller.ts.                    *)
(*                                                                         *)
(* The outputs of a campaign come from the evaluator, as fresh or as old   *)
(* as its caches leave them.  The insights of an output and its commentary *)
(* have a cache each.  The commentaries of a request are written at the    *)
(* same time, by a provider that may fail, and several requests are under  *)
(* way.                                                                    *)
(***************************************************************************)

CONSTANTS
  Viewers,   \* requests in flight, each slot used again and again
  Outputs    \* the outputs the evaluator gives: of a wallet, with a hash

ASSUME CommentaryAssumption ==
  \A o, p \in Outputs : (o.wallet = p.wallet /\ o.hash = p.hash) => o = p

VARIABLES
  provider,          \* COMMENTARY_PROVIDER: its name, fixed in the initial state
  entries,           \* what each request has so far: wallet -> entry
  insightsCache,
  commentaryCache

CommentaryVars == <<provider, entries, insightsCache, commentaryCache>>

Fallback == "disabled"

OutputWallets == {o.wallet : o \in Outputs}

NoCommentary == [of |-> "none"]

\* Mutant: the hash of the output is not a part of the keys.
CommentaryKeyMutant(o) == o.wallet

(* buildInsightCacheKey and buildCommentaryCacheKey: campaign, window and  *)
(* criteria are the same here, and the hash is of the whole output.        *)
CommentaryKey(o) == <<o.wallet, o.hash>>

(* computeInsightV1 depends on nothing but the output.                     *)
InsightOf(o) == [of |-> o]

Put(cache, key, value) ==
  [k \in DOMAIN cache \cup {key} |-> IF k = key THEN value ELSE cache[k]]

-----------------------------------------------------------------------------
CommentaryInit == /\ provider \in {"openai", Fallback}
                  /\ entries = [v \in Viewers |-> <<>>]
                  /\ insightsCache = <<>>
                  /\ commentaryCache = <<>>

(* getCommentaryForOutput up to its await: the cached commentary, or none. *)
Entry(o, insights) ==
  [output |-> o, insights |-> insights,
   commentary |-> IF CommentaryKey(o) \in DOMAIN commentaryCache
                  THEN commentaryCache[CommentaryKey(o)] ELSE NoCommentary]

(* runCampaignInsights: the insights of every output, cached or computed.  *)
InsightsAfter(asked) ==
  [k \in DOMAIN insightsCache \cup {CommentaryKey(o) : o \in asked} |->
     IF k \in DOMAIN insightsCache THEN insightsCache[k]
     ELSE InsightOf(CHOOSE o \in asked : CommentaryKey(o) = k)]

(* postCampaignCommentary: once the evaluator has answered, the insights   *)
(* and then every commentary that is cached.                               *)
CampaignCommentary(v) ==
  /\ entries[v] = <<>>
  /\ \E wallets \in SUBSET OutputWallets \ {{}} :
       \E output \in [wallets -> Outputs] :
         /\ \A w \in wallets : output[w].wallet = w
         /\ insightsCache' = InsightsAfter({output[w] : w \in wallets})
         /\ entries' = [entries EXCEPT ![v] =
              [w \in wallets |-> Entry(output[w], insightsCache'[CommentaryKey(output[w])])]]
  /\ UNCHANGED <<provider, commentaryCache>>

(* postCommentary: an output and its insights, as an earlier answer gave   *)
(* them.                                                                   *)
PostCommentary(v) ==
  /\ entries[v] = <<>>
  /\ \E o \in Outputs : entries' = [entries EXCEPT ![v] =
                                      [w \in {o.wallet} |-> Entry(o, InsightOf(o))]]
  /\ UNCHANGED <<provider, insightsCache, commentaryCache>>

Writing(v, w) == w \in DOMAIN entries[v] /\ entries[v][w].commentary = NoCommentary

(* The commentary of an entry is there, and cached.                        *)
Written(v, w, writer, model) ==
  LET e == entries[v][w]
      commentary == [of |-> e.output, insights |-> e.insights, by |-> writer, model |-> model]
  IN /\ entries' = [entries EXCEPT ![v][w].commentary = commentary]
     /\ commentaryCache' = Put(commentaryCache, CommentaryKey(e.output), commentary)
     /\ UNCHANGED <<provider, insightsCache>>

ProviderWrites(v, w) == Writing(v, w) /\ Written(v, w, provider, provider)

(* It refuses, answers with nothing, or has not answered in time.  The     *)
(* fallback writes instead, and signs.                                     *)
ProviderFails(v, w) == /\ Writing(v, w) /\ provider # Fallback
                       /\ Written(v, w, Fallback, Fallback)

(* Promise.all: the answer once every commentary is there.                 *)
Respond(v) == /\ entries[v] # <<>>
              /\ \A w \in DOMAIN entries[v] : ~ Writing(v, w)
              /\ entries' = [entries EXCEPT ![v] = <<>>]
              /\ UNCHANGED <<provider, insightsCache, commentaryCache>>

Dropped(cache, key) == [k \in DOMAIN cache \ {key} |-> cache[k]]

(* The time of an entry is over.                                           *)
InsightsExpire == /\ \E k \in DOMAIN insightsCache : insightsCache' = Dropped(insightsCache, k)
                  /\ UNCHANGED <<provider, entries, commentaryCache>>

CommentaryExpires ==
  /\ \E k \in DOMAIN commentaryCache : commentaryCache' = Dropped(commentaryCache, k)
  /\ UNCHANGED <<provider, entries, insightsCache>>

CommentaryNext == \/ \E v \in Viewers : \/ CampaignCommentary(v) \/ PostCommentary(v) \/ Respond(v)
                                        \/ \E w \in OutputWallets : \/ ProviderWrites(v, w)
                                                                    \/ ProviderFails(v, w)
                  \/ InsightsExpire
                  \/ CommentaryExpires

CommentarySpec == CommentaryInit /\ [][CommentaryNext]_CommentaryVars

-----------------------------------------------------------------------------
Commentaries == [of : Outputs, insights : [of : Outputs],
                 by : {"openai", Fallback}, model : {"openai", Fallback}]

CommentaryTypeOK ==
  /\ provider \in {"openai", Fallback}
  /\ DOMAIN entries = Viewers
  /\ \A v \in Viewers : \A w \in DOMAIN entries[v] :
       entries[v][w] \in [output : Outputs, insights : [of : Outputs],
                          commentary : Commentaries \cup {NoCommentary}]
  /\ \A k \in DOMAIN insightsCache : insightsCache[k] \in [of : Outputs]
  /\ \A k \in DOMAIN commentaryCache : commentaryCache[k] \in Commentaries

(* WHAT IS SAID IS OF WHAT IS SHOWN.  The insights and the commentary next *)
(* to an output are of that very output, the commentary says who wrote it, *)
(* and what the fallback wrote is not signed by the provider, whoever      *)
(* filled the caches, before the output changed or while it did.           *)
CommentaryTrue ==
  \A v \in Viewers : \A w \in DOMAIN entries[v] :
    LET e == entries[v][w]
    IN /\ e.output.wallet = w
       /\ e.insights = InsightOf(e.output)
       /\ e.commentary # NoCommentary =>
            /\ e.commentary.of = e.output
            /\ e.commentary.insights = e.insights
            /\ e.commentary.model = e.commentary.by
=============================================================================
