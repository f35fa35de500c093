---------------------------- MODULE IndexLedger ----------------------------
(***************************************************************************)
(* What an indexer of a chain promises the readers of its database, with   *)
(* nothing about how it fetches, retries, stores or restarts.              *)
(*                                                                         *)
(* A block is settled once every event of it is either stored or given up  *)
(* on.  The durable cursor is a claim about a prefix: everything after     *)
(* base, up to and including the cursor, is settled.  The claim is only    *)
(* ever extended, and the position it starts from is fixed by the first    *)
(* checkpoint.                                                             *)
(***************************************************************************)
EXTENDS Integers

VARIABLES settled,   \* blocks whose events are all accounted for
          base,      \* the block the claim starts after
          cursor     \* the durable cursor, -1 while none was written

vars == <<settled, base, cursor>>

NoCursor == -1

Init == /\ settled \subseteq Nat
        /\ base \in Nat
        /\ cursor = NoCursor

(* Where to start from may be reconsidered until the first checkpoint.     *)
ChooseBase == /\ cursor = NoCursor
              /\ base' \in Nat
              /\ UNCHANGED <<settled, cursor>>

(* Events reach the database (or are given up) in any order, a block can   *)
(* be worked on again, but what is settled stays settled.                  *)
Settle == /\ settled \subseteq settled'
          /\ UNCHANGED <<base, cursor>>

(* The cursor moves forward over settled blocks only.                      *)
Checkpoint == /\ cursor' \in Nat
              /\ base <= cursor'
              /\ cursor <= cursor'
              /\ \A b \in base + 1 .. cursor' : b \in settled
              /\ UNCHANGED <<settled, base>>

Next == ChooseBase \/ Settle \/ Checkpoint

Spec == Init /\ [][Next]_vars
=============================================================================
