----------------------------- MODULE MCServices -----------------------------
(***************************************************************************)
(* The components that share no state with one another, one at a time: the *)
(* initial state says which of them moves.  The states of the components   *)
(* add up in this way instead of multiplying, and nothing is lost, since   *)
(* no step of one of them depends on another.                              *)
(***************************************************************************)
EXTENDS RpcWindow, EnsSlots, Faucet, Settings, MultiRpc, Backfill, Commentary, Usage

VARIABLE part   \* the component that moves

ServiceParts == {"window", "ens", "faucet", "settings", "pool", "backfill", "commentary", "usage"}

CONSTANTS c1, c2, c3, c4   \* callers, requests and runs

-----------------------------------------------------------------------------
(* Chains of four blocks, also with equal timestamps.  Targets 1 and 2     *)
(* have logs, one of them sent by the wallet to itself.                    *)
log(t, x, i, n, s, r) ==
  [target |-> t, tx |-> x, index |-> i, block |-> n, sent |-> s, received |-> r]

walletLogs == {log(1, 0, 0, 0, TRUE, FALSE), log(1, 1, 0, 1, TRUE, TRUE),
               log(1, 1, 1, 1, FALSE, TRUE), log(2, 2, 0, 2, TRUE, FALSE),
               log(1, 3, 0, 3, FALSE, TRUE)}

chains == {[top |-> 3, stamp |-> s, logs |-> walletLogs] :
             s \in {f \in [0 .. 3 -> 0 .. 3] : Nondecreasing(f, 3)}}

windowRequests == [start : 0 .. 3, end : 0 .. 3, asOf : {NoBlock, 0, 2, 5}]

targets == <<"first", "second">>

parameterInputs ==
  {[baseReward |-> 10, challengeBond |-> 0, validatorQuorum |-> 100, slashPercentage |-> 0],
   [baseReward |-> 0, challengeBond |-> 0, validatorQuorum |-> 50, slashPercentage |-> 10]}

oracleInputs == {[url |-> "o", http |-> TRUE], [url |-> "x", http |-> FALSE]}

(* One bad endpoint, in use or not at first, all bad, and one that fails.  *)
rpcBehaviours == {[e \in 0 .. 2 |-> IF e = 0 THEN "refuses" ELSE "answers"],
                  [e \in 0 .. 2 |-> IF e = 1 THEN "refuses" ELSE "answers"],
                  [e \in 0 .. 2 |-> "refuses"],
                  [e \in 0 .. 2 |-> IF e = 0 THEN "fails" ELSE "refuses"]}

(* Two kinds share a block, the last of a batch, and one log cannot be     *)
(* parsed: the runs that see it fail.                                      *)
chainLogs == {[id |-> 1, kind |-> "transfer", block |-> 2, malformed |-> FALSE],
              [id |-> 2, kind |-> "staking",  block |-> 2, malformed |-> FALSE],
              [id |-> 3, kind |-> "poi",      block |-> 3, malformed |-> TRUE]}

utilityBlocks == [k \in {"staking", "poi"} |-> IF k = "poi" THEN 3 ELSE NoBlockOfItsOwn]

outputs == {[wallet |-> "w1", hash |-> 1], [wallet |-> "w1", hash |-> 2],
            [wallet |-> "w2", hash |-> 1]}

-----------------------------------------------------------------------------
half(h) == [finite |-> TRUE, half |-> h]

noOverrides == [p \in ParamNames |-> Absent]

lowThresholds == [noOverrides EXCEPT !["min_days_active"] = half(2),
                                     !["min_tx_count"] = half(3),
                                     !["min_unique_contracts"] = half(2)]

input == [wallet |-> "w", campaign |-> "c",
          window |-> [type |-> "last_7_days", start |-> Absent, end |-> half(14)],
          criteria_set_id |-> "airdrop/basic@1", overrides |-> noOverrides,
          activity |-> "summary", usage |-> [s \in SummaryNames |-> Absent],
          transactions |-> <<>>]

(* Summaries on both sides of every threshold and of every cap.            *)
summaries ==
  {[input EXCEPT !.usage = [days_active |-> half(2 * m), tx_count |-> half(2 * t),
                            unique_contracts |-> half(2 * u)]] :
     m \in {0, 1, 7, 30, 31}, t \in {0, 2, 3, 10, 120, 500}, u \in {0, 2, 3, 20}}

oddInputs ==
  {[input EXCEPT !.wallet = "no address"], [input EXCEPT !.campaign = "blank"],
   [input EXCEPT !.window.end = Absent], [input EXCEPT !.window.type = "custom"],
   [input EXCEPT !.overrides["min_tx_count"] = half(-2)],
   [input EXCEPT !.overrides["min_tx_count"] = half(-1)],
   [input EXCEPT !.criteria_set_id = "other"],
   [input EXCEPT !.criteria_set_id = "other", !.overrides = lowThresholds],
   [input EXCEPT !.usage["tx_count"] = NotFinite]}

usageInputs ==
  {input} \cup summaries \cup oddInputs \cup
  {[input EXCEPT !.activity = "transactions", !.overrides = lowThresholds],
   [input EXCEPT !.activity = "transactions",
                 !.window = [type |-> "custom", start |-> half(3), end |-> half(9)]]}

transaction(h, k, s) == [time |-> half(h), contract |-> k, spelling |-> s]

transactions ==
  {transaction(2, "a", "lower"), transaction(8, "a", "other"), transaction(9, "b", "lower"),
   transaction(11, "a", "lower"), transaction(6, "null", "lower"),
   transaction(30, "blank", "lower"), transaction(8, "blank", "lower"),
   [transaction(2, "a", "lower") EXCEPT !.time = NotFinite]}

windowSeconds == [last_7_days |-> 4]

-----------------------------------------------------------------------------
(* The components with several initial states begin with each of them only *)
(* when they are the one that moves.                                       *)
OnlyIf(moving, otherwise) == moving \/ otherwise

ServicesInit ==
  /\ part \in ServiceParts
  /\ WindowInit /\ EnsInit /\ FaucetInit /\ SettingsInit
  /\ MultiRpcInit /\ BackfillInit /\ CommentaryInit /\ UsageInit
  /\ OnlyIf(part = "ens", rpcUrl)
  /\ OnlyIf(part = "settings", settings = NoRow)
  /\ OnlyIf(part = "pool", rpcBehaviour[1] = "answers" /\ rpcBehaviour[2] = "answers")
  /\ OnlyIf(part = "commentary", provider = Fallback)
  /\ OnlyIf(part = "usage", usageInput = input)

NotWindow     == UNCHANGED WindowVars
NotEns        == UNCHANGED EnsVars
NotFaucet     == UNCHANGED FaucetVars
NotSettings   == UNCHANGED SettingsVars
NotPool       == UNCHANGED MultiRpcVars
NotBackfill   == UNCHANGED BackfillVars
NotCommentary == UNCHANGED CommentaryVars
NotUsage      == UNCHANGED UsageVars

ServicesNext ==
  /\ UNCHANGED part
  /\ \/ part = "window" /\ WindowNext /\ NotEns /\ NotFaucet /\ NotSettings
                        /\ NotPool /\ NotBackfill /\ NotCommentary /\ NotUsage
     \/ part = "ens" /\ EnsNext /\ NotWindow /\ NotFaucet /\ NotSettings
                     /\ NotPool /\ NotBackfill /\ NotCommentary /\ NotUsage
     \/ part = "faucet" /\ FaucetNext /\ NotWindow /\ NotEns /\ NotSettings
                        /\ NotPool /\ NotBackfill /\ NotCommentary /\ NotUsage
     \/ part = "settings" /\ SettingsNext /\ NotWindow /\ NotEns /\ NotFaucet
                          /\ NotPool /\ NotBackfill /\ NotCommentary /\ NotUsage
     \/ part = "pool" /\ MultiRpcNext /\ NotWindow /\ NotEns /\ NotFaucet
                      /\ NotSettings /\ NotBackfill /\ NotCommentary /\ NotUsage
     \/ part = "backfill" /\ BackfillNext /\ NotWindow /\ NotEns /\ NotFaucet
                          /\ NotSettings /\ NotPool /\ NotCommentary /\ NotUsage
     \/ part = "commentary" /\ CommentaryNext /\ NotWindow /\ NotEns /\ NotFaucet
                            /\ NotSettings /\ NotPool /\ NotBackfill /\ NotUsage
     \/ part = "usage" /\ UsageNext /\ NotWindow /\ NotEns /\ NotFaucet
                       /\ NotSettings /\ NotPool /\ NotBackfill /\ NotCommentary

ServicesVars == <<part, WindowVars, EnsVars, FaucetVars, SettingsVars,
                  MultiRpcVars, BackfillVars, CommentaryVars, UsageVars>>

(* A component that does not move has nothing to do, so that its fairness  *)
(* asks for nothing.                                                       *)
ServicesSpec == /\ ServicesInit /\ [][ServicesNext]_ServicesVars
                /\ WindowFairness /\ EnsFairness

(* Every component is in a state of its types.                             *)
ServicesTypeOK == /\ WindowTypeOK /\ EnsTypeOK /\ FaucetTypeOK /\ SettingsTypeOK
                  /\ MultiRpcTypeOK /\ BackfillTypeOK /\ CommentaryTypeOK /\ UsageTypeOK
=============================================================================
