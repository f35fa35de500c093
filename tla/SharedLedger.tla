---------------------------- MODULE SharedLedger ----------------------------
(***************************************************************************)
(* What is left of the promise of IndexLedger when several indexers write  *)
(* one cursor without looking.  The claim may shrink, since one that knows *)
(* less overwrites one that knows more.  But it is never a false one: it   *)
(* always starts at the base of the first checkpoint, and whatever is      *)
(* written covers settled blocks only.                                     *)
(***************************************************************************)
EXTENDS IndexLedger

(* The first checkpoint may be where the claim starts.                     *)
OpenAtBase == /\ cursor = NoCursor
              /\ base' \in Nat
              /\ cursor' = base'
              /\ UNCHANGED settled

(* An indexer puts down what it knows, be it less than what is there.      *)
Overwrite == /\ cursor' \in Nat
             /\ base <= cursor'
             /\ \A b \in base + 1 .. cursor' : b \in settled
             /\ UNCHANGED <<settled, base>>

SharedNext == Next \/ OpenAtBase \/ Overwrite

SharedSpec == Init /\ [][SharedNext]_vars
=============================================================================
