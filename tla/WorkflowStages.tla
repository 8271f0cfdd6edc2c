--------------------------- MODULE WorkflowStages ---------------------------
(***************************************************************************)
(* The pure core of the native three-agent workflow: the stages, the role  *)
(* each stage expects, the legal transitions, and the validator's cap on   *)
(* the defect loop (crates/openab-core/src/workflow/state.rs and           *)
(* validator.rs).  No state: every module of the workflow uses these.      *)
(***************************************************************************)
EXTENDS Naturals

Stages == {"PRIMARY_ACTIVE", "VERIFIER_ACTIVE", "FINAL_REVIEWER_ACTIVE",
           "PRIMARY_CORRECTION_PENDING", "TECH_LEAD_WAIT", "BLOCKED"}

Roles == {"PRIMARY", "VERIFIER", "FINAL_REVIEWER"}

Results == {"COMPLETE", "PASS", "FAIL"}

Terminal == {"TECH_LEAD_WAIT", "BLOCKED"}

NoRole == "NO_ROLE"

\* The only role whose claim a stage accepts; none for a terminal stage.
ExpectedRole(stage) ==
  CASE stage \in {"PRIMARY_ACTIVE", "PRIMARY_CORRECTION_PENDING"} -> "PRIMARY"
    [] stage = "VERIFIER_ACTIVE"       -> "VERIFIER"
    [] stage = "FINAL_REVIEWER_ACTIVE" -> "FINAL_REVIEWER"
    [] OTHER                           -> NoRole

\* The six legal transitions as <<stage, role, result, next stage>>.
Transitions ==
  { <<"PRIMARY_ACTIVE",  "PRIMARY",  "COMPLETE", "VERIFIER_ACTIVE">>,
    <<"VERIFIER_ACTIVE", "VERIFIER", "PASS", "FINAL_REVIEWER_ACTIVE">>,
    <<"VERIFIER_ACTIVE", "VERIFIER", "FAIL", "PRIMARY_CORRECTION_PENDING">>,
    <<"FINAL_REVIEWER_ACTIVE", "FINAL_REVIEWER", "PASS", "TECH_LEAD_WAIT">>,
    <<"FINAL_REVIEWER_ACTIVE", "FINAL_REVIEWER", "FAIL",
      "PRIMARY_CORRECTION_PENDING">>,
    <<"PRIMARY_CORRECTION_PENDING", "PRIMARY", "COMPLETE", "VERIFIER_ACTIVE">> }

Legal(stage, role, result, next) == <<stage, role, result, next>> \in Transitions

\* At most one PRIMARY_CORRECTION_PENDING round (SUPPORTED_DEFECT_LOOP_MAX).
DefectLoopMax == 1

\* Mutated form of EffectiveNext: the cap is not consulted.
EffectiveNextUncapped(next, loops) == next

\* The validator's fail-closed re-route: a claim that would enter the
\* correction stage once the cap is used up goes to BLOCKED instead.
EffectiveNext(next, loops) ==
  IF next = "PRIMARY_CORRECTION_PENDING" /\ loops >= DefectLoopMax
  THEN "BLOCKED" ELSE next

\* Loop count after entering `next' on behalf of a reviewing role.
LoopsAfter(next, role, loops) ==
  IF next = "PRIMARY_CORRECTION_PENDING" /\ role \in {"VERIFIER", "FINAL_REVIEWER"}
  THEN loops + 1 ELSE loops

\* The result a ledger row is filed under: derived from the role alone, so a
\* FAIL claim is filed under the PASS row of its revision.
AcceptancePairResult(role) == IF role = "PRIMARY" THEN "COMPLETE" ELSE "PASS"
=============================================================================
