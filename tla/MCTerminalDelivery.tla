------------------------- MODULE MCTerminalDelivery -------------------------
(***************************************************************************)
(* Model-checking instances of TerminalDelivery: one or two live turns     *)
(* that capture the same delivery, and the managers that reconcile it.     *)
(***************************************************************************)
EXTENDS TerminalDelivery, TLC

CONSTANTS l1, l2, m1, m2

OneTurn   == {l1}
TwoTurns  == {l1, l2}
OneManager  == {m1}
TwoManagers == {m1, m2}

\* Managers are alike, and so are live turns.
Alike == Permutations(TwoManagers) \cup Permutations(TwoTurns)
=============================================================================
