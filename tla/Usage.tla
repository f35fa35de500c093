-------------------------------- MODULE Usage --------------------------------
(***************************************************************************)
(* evaluateUsageV1, the deterministic evaluation of a wallet's usage, and  *)
(* computeInsightV1, the insights it leads to.                             *)
(*                                                                         *)
(* Both are pure functions.  The module has the last input and what was    *)
(* made of it as its state, so that properties can compare an evaluation   *)
(* with the next.  Numbers of an input come in halves, since the code      *)
(* truncates them.                                                         *)
(***************************************************************************)
EXTENDS Integers, Sequences, FiniteSets

CONSTANTS
  UsageInputs,       \* the inputs considered, see UsageInputType
  Transactions,      \* the transactions that may be added to one
  MaxTransactions,   \* bound: their number
  WindowSeconds,     \* WINDOW_SECONDS: the type of a window -> its length
  SecondsPerDay      \* 24 * 60 * 60

ParamNames   == {"min_days_active", "min_tx_count", "min_unique_contracts"}
SummaryNames == {"days_active", "tx_count", "unique_contracts"}

(* criteriaPresets[DEFAULT_CRITERIA_SET_ID].params.                        *)
PresetParams == [min_days_active |-> 7, min_tx_count |-> 10, min_unique_contracts |-> 3]

Absent    == [finite |-> FALSE, half |-> 0]   \* undefined
NotFinite == [finite |-> FALSE, half |-> 1]   \* NaN, Infinity, no number at all
Numbers   == [finite : {TRUE}, half : Int] \cup {Absent, NotFinite}

(* The contract of a transaction is a contract in some spelling, a blank   *)
(* text or no text.  "null" stands for a transaction that is not there.    *)
TransactionType == [time : Numbers, contract : STRING, spelling : STRING]

UsageInputType ==
  [wallet : STRING, campaign : STRING,
   window : [type : {"none", "custom"} \cup DOMAIN WindowSeconds, start : Numbers, end : Numbers],
   criteria_set_id : STRING, overrides : [ParamNames -> Numbers],
   activity : {"transactions", "summary"}, usage : [SummaryNames -> Numbers],
   transactions : Seq(TransactionType)]

ASSUME UsageAssumption ==
  /\ UsageInputs \subseteq UsageInputType
  /\ Transactions \subseteq TransactionType
  /\ MaxTransactions \in Nat
  /\ WindowSeconds \in [DOMAIN WindowSeconds -> Nat]
  /\ SecondsPerDay \in Nat \ {0}

VARIABLES usageInput, usageOutput

UsageVars == <<usageInput, usageOutput>>

-----------------------------------------------------------------------------
(* toInteger and toNonNegativeInteger, which refuse what is not finite.    *)
Trunc(n) == IF n.half >= 0 THEN n.half \div 2 ELSE - ((- n.half) \div 2)

NonNegative(n) == n.finite /\ Trunc(n) >= 0

(* resolveWindow.                                                          *)
WindowValid(w) == /\ w.type # "none" /\ w.end.finite
                  /\ w.start.finite \/ (w.start = Absent /\ w.type # "custom")

ResolveWindow(w) ==
  [start |-> IF w.start = Absent THEN Trunc(w.end) - WindowSeconds[w.type] ELSE Trunc(w.start),
   end   |-> Trunc(w.end)]

(* resolveCriteriaParams: the override, or the preset of a known set.      *)
Param(i, p) == IF i.overrides[p] # Absent THEN i.overrides[p]
               ELSE IF i.criteria_set_id = "airdrop/basic@1"
                    THEN [finite |-> TRUE, half |-> 2 * PresetParams[p]] ELSE Absent

ResolveParams(i) == [p \in ParamNames |-> Trunc(Param(i, p))]

(* resolveSummaryFromTransactions, one round of its loop.                  *)
Blank(t) == t.contract \in {"blank", "not a string"}

\* Mutant: a contract in two spellings is two contracts.
CountTransactionMutant(s, t, w) ==
  IF s.rejected \/ t.contract = "null" THEN s
  ELSE IF ~ t.time.finite THEN [s EXCEPT !.rejected = TRUE]
  ELSE IF Trunc(t.time) \notin w.start .. w.end THEN s
  ELSE IF Blank(t) THEN [s EXCEPT !.rejected = TRUE]
  ELSE [s EXCEPT !.tx_count  = @ + 1,
                 !.days      = @ \cup {Trunc(t.time) \div SecondsPerDay},
                 !.contracts = @ \cup {<<t.contract, t.spelling>>}]

CountTransaction(s, t, w) ==
  IF s.rejected \/ t.contract = "null" THEN s
  ELSE IF ~ t.time.finite THEN [s EXCEPT !.rejected = TRUE]
  ELSE IF Trunc(t.time) \notin w.start .. w.end THEN s
  ELSE IF Blank(t) THEN [s EXCEPT !.rejected = TRUE]
  ELSE [s EXCEPT !.tx_count  = @ + 1,
                 !.days      = @ \cup {Trunc(t.time) \div SecondsPerDay},
                 !.contracts = @ \cup {t.contract}]

NothingCounted == [rejected |-> FALSE, tx_count |-> 0, days |-> {}, contracts |-> {}]

(* What the loop has counted after n rounds.                               *)
Rounds(txs, w) ==
  LET sum[n \in 0 .. Len(txs)] ==
        IF n = 0 THEN NothingCounted ELSE CountTransaction(sum[n - 1], txs[n], w)
  IN sum

Counted(i, w) == Rounds(i.transactions, w)[Len(i.transactions)]

(* resolveSummary.                                                         *)
UsageValid(i, w) ==
  IF i.activity = "transactions" THEN ~ Counted(i, w).rejected
  ELSE \A s \in SummaryNames : i.usage[s] = Absent \/ NonNegative(i.usage[s])

ResolveSummary(i, w) ==
  IF i.activity = "transactions"
  THEN LET c == Counted(i, w)
       IN [days_active |-> Cardinality(c.days), tx_count |-> c.tx_count,
           unique_contracts |-> Cardinality(c.contracts)]
  ELSE [s \in SummaryNames |-> Trunc(i.usage[s])]

VerifiedUsage(s, p) == /\ s.days_active >= p.min_days_active
                       /\ s.tx_count >= p.min_tx_count
                       /\ s.unique_contracts >= p.min_unique_contracts

-----------------------------------------------------------------------------
(* computeInsightV1, in parts of 12000.                                    *)
AtMost(n, top) == IF n <= top THEN n ELSE top
Clamp(n, low, top) == IF n < low THEN low ELSE AtMost(n, top)

Days(s) == AtMost(s.days_active, 30)
Txs(s)  == AtMost(s.tx_count, 120)
Uniq(s) == AtMost(s.unique_contracts, 20)

Activity(s) == 180 * Days(s) + 35 * Txs(s) + 120 * Uniq(s)
FarmRaw(s)  == 55 * Txs(s) + (3000 - 150 * Uniq(s)) + (2400 - 80 * Days(s))

\* Mutant: three contracts are still few for a farm.
BehaviorTagMutant(s) ==
  IF s.tx_count < 3 /\ s.days_active < 2 THEN "inactive"
  ELSE IF FarmRaw(s) >= 7800 /\ s.unique_contracts <= 3 THEN "suspected_farm"
  ELSE IF Activity(s) >= 8400 /\ FarmRaw(s) < 6600 THEN "organic"
  ELSE "mixed"

BehaviorTag(s) ==
  IF s.tx_count < 3 /\ s.days_active < 2 THEN "inactive"
  ELSE IF FarmRaw(s) >= 7800 /\ s.unique_contracts <= 2 THEN "suspected_farm"
  ELSE IF Activity(s) >= 8400 /\ FarmRaw(s) < 6600 THEN "organic"
  ELSE "mixed"

\* Mutant: farming weighs as much as activity.
OverallScoreMutant(s) == (Clamp(Activity(s) * 100 - FarmRaw(s) * 100, 0, 1200000) + 6000) \div 12000

OverallScore(s) == (Clamp(Activity(s) * 100 - FarmRaw(s) * 35, 0, 1200000) + 6000) \div 12000

ComputeInsight(s) ==
  [overall_score |-> OverallScore(s),
   farming_percent |-> (FarmRaw(s) * 100 + 6000) \div 12000,
   behavior_tag |-> BehaviorTag(s)]

-----------------------------------------------------------------------------
Nothing == [s \in SummaryNames |-> 0]

Rejection == [accepted |-> FALSE, window |-> [start |-> 0, end |-> 0],
              params |-> [p \in ParamNames |-> 0], usage_summary |-> Nothing,
              verified_usage |-> FALSE, insights |-> ComputeInsight(Nothing)]

Accepts(i) == /\ i.wallet # "no address" /\ i.campaign # "blank"
              /\ WindowValid(i.window)
              /\ \A p \in ParamNames : NonNegative(Param(i, p))
              /\ UsageValid(i, ResolveWindow(i.window))

(* The output, without the parts that are copied into it.                  *)
EvaluateUsageV1(i) ==
  IF Accepts(i)
  THEN LET w == ResolveWindow(i.window)
           p == ResolveParams(i)
           s == ResolveSummary(i, w)
       IN [accepted |-> TRUE, window |-> w, params |-> p, usage_summary |-> s,
           verified_usage |-> VerifiedUsage(s, p), insights |-> ComputeInsight(s)]
  ELSE Rejection

UsageInit == /\ usageInput \in UsageInputs
             /\ usageOutput = EvaluateUsageV1(usageInput)

(* A client has another input evaluated.                                   *)
EvaluateInput == /\ usageInput' \in UsageInputs
                 /\ usageOutput' = EvaluateUsageV1(usageInput')

(* The same input with one transaction more.                               *)
EvaluateLonger == /\ usageInput.activity = "transactions"
                  /\ Len(usageInput.transactions) < MaxTransactions
                  /\ \E t \in Transactions :
                       usageInput' = [usageInput EXCEPT !.transactions = Append(@, t)]
                  /\ usageOutput' = EvaluateUsageV1(usageInput')

UsageNext == EvaluateInput \/ EvaluateLonger

UsageSpec == UsageInit /\ [][UsageNext]_UsageVars

-----------------------------------------------------------------------------
UsageTypeOK ==
  /\ usageInput \in UsageInputType
  /\ usageOutput.accepted \in BOOLEAN /\ usageOutput.verified_usage \in BOOLEAN
  /\ usageOutput.window \in [start : Int, end : Int]
  /\ usageOutput.params \in [ParamNames -> Nat]
  /\ usageOutput.usage_summary \in [SummaryNames -> Nat]
  /\ usageOutput.insights.overall_score \in 0 .. 100
  /\ usageOutput.insights.farming_percent \in 0 .. 100
  /\ usageOutput.insights.behavior_tag \in {"inactive", "suspected_farm", "organic", "mixed"}

Orders(S) == {p \in [S -> S] : \A k \in S : \E m \in S : p[m] = k}

Reordered(i, p) == [i EXCEPT !.transactions = [n \in DOMAIN @ |-> i.transactions[p[n]]]]

Respelled(i) == [i EXCEPT !.transactions = [n \in DOMAIN @ |-> [i.transactions[n] EXCEPT !.spelling = "other"]]]

(* THE ORDER OF THE TRANSACTIONS DOES NOT MATTER, nor how their contracts  *)
(* are spelled: the same output or the same refusal, so the same hash.     *)
UsageOrderFree ==
  usageInput.activity = "transactions" =>
    /\ \A p \in Orders(DOMAIN usageInput.transactions) :
         EvaluateUsageV1(Reordered(usageInput, p)) = usageOutput
    /\ EvaluateUsageV1(Respelled(usageInput)) = usageOutput

Uses(s, t) == \A n \in SummaryNames : s[n] <= t[n]

(* MORE USE NEVER HURTS.  Whoever has been as active in every respect is   *)
(* verified if the other is, and scores no less: the penalty for what      *)
(* looks like farming never outweighs the activity that caused it.         *)
MoreUseNeverHurts ==
  [][ (/\ usageOutput.accepted /\ usageOutput'.accepted
       /\ usageOutput'.params = usageOutput.params
       /\ Uses(usageOutput.usage_summary, usageOutput'.usage_summary))
      => /\ usageOutput.verified_usage => usageOutput'.verified_usage
         /\ usageOutput'.insights.overall_score >= usageOutput.insights.overall_score ]_UsageVars

(* WHO IS VERIFIED IS NEVER SUSPECTED: at the thresholds of the preset no  *)
(* verified wallet is taken for inactive or for a farm.                    *)
VerifiedNotSuspected ==
  (/\ usageOutput.accepted /\ usageOutput.verified_usage
   /\ \A p \in ParamNames : usageOutput.params[p] >= PresetParams[p])
  => usageOutput.insights.behavior_tag \in {"organic", "mixed"}
=============================================================================
