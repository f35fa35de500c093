--------------------------- MODULE ListenerReorg ---------------------------
(***************************************************************************)
(* The listener of runListener.ts over a chain that reorganises: from some *)
(* block on, the canonical chain is replaced by another branch, of which   *)
(* the listener is told nothing.  The code has no notion of a branch: it   *)
(* keeps block numbers only, compares no parent hashes and deletes no      *)
(* document.                                                               *)
(***************************************************************************)
EXTENDS Listener

VARIABLES reorged,   \* the reorganisation has happened (bound: at most one)
          exposed    \* blocks the listener had begun when their branch was replaced

reorgVars == <<vars, reorged, exposed>>

(* The furthest block of which the listener, or its cursor, knows.         *)
Reach == CHOOSE b \in {lastProcessedBlock, blockNumber, state.lastProcessedBlock} :
           \A c \in {lastProcessedBlock, blockNumber, state.lastProcessedBlock} : c <= b

Reorg == /\ ~reorged
         /\ \E b \in 1 .. head :
              /\ chain' = {l \in chain : l.block < b}
                            \cup {l \in Logs : l.fork = 1 /\ l.block >= b}
              /\ exposed' = b .. Reach
         /\ reorged' = TRUE
         /\ UNCHANGED <<head, dbVars, procVars, obsVars, faults>>

InitR == Init /\ reorged = FALSE /\ exposed = {}

OnBranch(A) == A /\ UNCHANGED <<reorged, exposed>>

NextR == OnBranch(Next) \/ Reorg

SpecR == InitR /\ [][NextR]_reorgVars

FairSpecR == SpecR /\ WF_reorgVars(OnBranch(Process)) /\ WF_reorgVars(OnBranch(Mine))

-----------------------------------------------------------------------------
(* DAMAGE IS CONFINED.  A reorganisation can leave a gap only in blocks    *)
(* the listener had already begun: all other blocks under the cursor are   *)
(* accounted for on the branch that is canonical now.                      *)
GapOnlyWhereExposed ==
  state # NoState =>
    \A b \in (origin + 1 .. state.lastProcessedBlock) \ exposed : AccountedBlock(b)

(* README.md promises an indexer that is "Restart- and reorg-safe": when   *)
(* the chain has settled, the stored logs are those of the canonical       *)
(* branch.                                                                 *)
ReorgHeals ==
  <>[](\A l \in Logs : l.block > origin /\ l.block <= head =>
                         (docs[l] # "none") = Wanted(l))
=============================================================================
