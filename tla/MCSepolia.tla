----------------------------- MODULE MCSepolia -----------------------------
(* Instances of SepoliaListener small enough to check. *)
EXTENDS SepoliaListener

CONSTANTS api, worker   \* the API server and the listener script

TheLogs == {[block |-> 3, index |-> 0, valid |-> TRUE],
            [block |-> 4, index |-> 1, valid |-> FALSE],
            [block |-> 4, index |-> 3, valid |-> TRUE]}

(* One listener that starts at the head, or two that start at a block.     *)
SafeDeployments == {[running |-> {api}, startBlock |-> 0],
                    [running |-> {api, worker}, startBlock |-> 2]}

(* Two listeners that start at the head.                                   *)
TwoFromHead == {[running |-> {api, worker}, startBlock |-> 0]}
=============================================================================
