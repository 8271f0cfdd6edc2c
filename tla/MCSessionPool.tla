--------------------------- MODULE MCSessionPool ---------------------------
(***************************************************************************)
(* Model-checking instances of SessionPool.                                *)
(***************************************************************************)
EXTENDS SessionPool, TLC

CONSTANTS k1, n1, a1, a2, a3

\* A thread and a native dispatch, which compete for the pool.
Both == {k1, n1}
NativeKey == {n1}

\* Callers are alike.
TwoCallers == {a1, a2}
ThreeCallers == {a1, a2, a3}
TwoAlike == Permutations(TwoCallers)
Alike == Permutations(ThreeCallers)
=============================================================================
