----------------------------- MODULE MCDatasets -----------------------------
(* Two requests in flight over one dataset, again and again. *)
EXTENDS Datasets

CONSTANTS h1, h2, d1
=============================================================================
