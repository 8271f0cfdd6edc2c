------------------------- MODULE DelegationPromise -------------------------
(***************************************************************************)
(* What the control plane promises of a delegation: each admission is open *)
(* for a while, a bounded number of them at a time, and ends exactly once. *)
(* The initiator hears one result at most, which may cross with one notice *)
(* that the admission ended without it; a completed admission was heard of *)
(* before it ended, and is never contradicted.                             *)
(***************************************************************************)
EXTENDS Naturals, FiniteSets

CONSTANTS
  MaxGen,        \* how many admissions there can be
  MaxInflight    \* how many may be open at a time

VARIABLES
  standing,      \* none, open, completed or ended
  result,        \* result frames that the initiator was sent
  notice         \* notices of another ending that it was sent

vars == <<standing, result, notice>>

Gens == 1 .. MaxGen
Open == {g \in Gens : standing[g] = "open"}

Init == /\ standing = [g \in Gens |-> "none"]
        /\ result = [g \in Gens |-> 0]
        /\ notice = [g \in Gens |-> 0]

Admit(g) ==
  /\ standing[g] = "none" /\ Cardinality(Open) < MaxInflight
  /\ standing' = [standing EXCEPT ![g] = "open"]
  /\ UNCHANGED <<result, notice>>

\* The answer is sent; the admission may have ended in the meantime.
Answer(g) ==
  /\ standing[g] \in {"open", "ended"} /\ result[g] = 0
  /\ result' = [result EXCEPT ![g] = 1]
  /\ UNCHANGED <<standing, notice>>

Complete(g) ==
  /\ standing[g] = "open" /\ result[g] = 1
  /\ standing' = [standing EXCEPT ![g] = "completed"]
  /\ UNCHANGED <<result, notice>>

\* A cancellation, a disconnect or a deadline ends one admission or several.
End(S) ==
  /\ S # {} /\ S \subseteq Open
  /\ standing' = [g \in Gens |-> IF g \in S THEN "ended" ELSE standing[g]]
  /\ UNCHANGED <<result, notice>>

Tell(g) ==
  /\ standing[g] = "ended" /\ notice[g] = 0
  /\ notice' = [notice EXCEPT ![g] = 1]
  /\ UNCHANGED <<standing, result>>

Next == \/ \E g \in Gens : Admit(g) \/ Answer(g) \/ Complete(g) \/ Tell(g)
        \/ \E S \in SUBSET Open : End(S)

Spec == Init /\ [][Next]_vars
=============================================================================
