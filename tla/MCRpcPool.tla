----------------------------- MODULE MCRpcPool -----------------------------
(* Two callers over a pool of three endpoints of which one or more fail.   *)
EXTENDS RpcPool, TLC

CONSTANTS c1, c2

Pool(a, b, c) == (0 :> a) @@ (1 :> b) @@ (2 :> c)

SomeFail == {Pool("refuses", "answers", "answers"),
             Pool("fails", "refuses", "answers"),
             Pool("refuses", "hangs", "answers"),
             Pool("refuses", "refuses", "answers"),
             Pool("refuses", "refuses", "refuses"),
             Pool("hangs", "hangs", "hangs")}
=============================================================================
