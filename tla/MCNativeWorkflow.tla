-------------------------- MODULE MCNativeWorkflow --------------------------
(***************************************************************************)
(* Model-checking instances of NativeWorkflow: the three daemons of the    *)
(* deployment, each claiming its own role, or agents that claim anything.  *)
(***************************************************************************)
EXTENDS NativeWorkflow, TLC

CONSTANTS claude, codex, gemini

OwnRole == (claude :> {"PRIMARY"}) @@ (codex :> {"VERIFIER"})
             @@ (gemini :> {"FINAL_REVIEWER"})

TwoBots == (claude :> {"PRIMARY", "FINAL_REVIEWER"}) @@ (codex :> {"VERIFIER"})

AnyRole == [d \in Daemons |-> Roles]

\* Overlapping turns are explored up to the third revision and four messages.
Bounded == assignment.rev <= 2 /\ Len(activations) <= 3

Symmetry == Permutations(Daemons)
=============================================================================
