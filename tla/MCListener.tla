----------------------------- MODULE MCListener -----------------------------
(* Instances of Listener small enough to check. *)
EXTENDS Listener, TLC

Log(b, s, i) == [block |-> b, fork |-> 0, stream |-> s, index |-> i]

(* Two transfers in one block, two streams in another, a staking log of a  *)
(* block before its contract was deployed, and a log of the last block.    *)
PlainLogs == {Log(1, Transfers, 0), Log(1, Transfers, 2), Log(1, Staking, 1),
              Log(2, Transfers, 0), Log(2, Staking, 1), Log(3, Poi, 0)}

NoLogs == {}

LastLogs == {Log(3, Poi, 0)}

(* The staking contract is deployed at block 2, the contribution registry  *)
(* is not configured.                                                      *)
StakingFromTwo ==
  (Transfers :> 0) @@ (Staking :> 2) @@ (Poi :> 0) @@ (Contributions :> Absent)
=============================================================================
