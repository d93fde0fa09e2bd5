----------------------------- MODULE MCLifecycle -----------------------------
(***************************************************************************)
(* A small workflow and a few requests for Lifecycle.                      *)
(***************************************************************************)
EXTENDS Lifecycle, TLC

CONSTANTS t1, t2, t3

(* t1 and t2 in one batch, and t3 needs t1 *)
ForkDeps == t1 :> {} @@ t2 :> {} @@ t3 :> {t1}

(* t2 needs t1 *)
ChainDeps == t1 :> {} @@ t2 :> {t1}

AlikeRequests == Permutations(Requests)
=============================================================================
