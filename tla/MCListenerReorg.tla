-------------------------- MODULE MCListenerReorg --------------------------
(* An instance of ListenerReorg: the replacing branch drops a transfer of  *)
(* block 1, moves the one of block 2 and replaces, in block 3, a log that  *)
(* cannot be parsed by one that can.                                       *)
EXTENDS ListenerReorg, TLC

Log(b, f, i) == [block |-> b, fork |-> f, stream |-> Transfers, index |-> i]

BranchedLogs == {Log(1, 0, 0), Log(1, 0, 1), Log(1, 1, 0),
                 Log(2, 0, 0), Log(2, 1, 3), Log(3, 0, 1), Log(3, 1, 0)}

OldLast == {Log(3, 0, 1)}

NoLogs == {}

TransfersOnly ==
  (Transfers :> 0) @@ (Staking :> Absent) @@ (Poi :> Absent) @@ (Contributions :> Absent)
=============================================================================
