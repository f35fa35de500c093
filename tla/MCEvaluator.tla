---------------------------- MODULE MCEvaluator ----------------------------
(* One client runs a campaign of two wallets, the other evaluates the      *)
(* first of them.  That one has a transfer, in the block yet to come.      *)
EXTENDS Evaluator, TLC

CONSTANTS w1, w2, run, evaluate

MCBatches == (run :> {<<w1, w2>>}) @@ (evaluate :> {<<w1>>})

MCLogs == {[block |-> 1, index |-> 0, wallet |-> w1]}

MCSingles == [r \in Requests |-> {<<w1>>}]
=============================================================================
