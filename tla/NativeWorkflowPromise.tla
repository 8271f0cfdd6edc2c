------------------------ MODULE NativeWorkflowPromise ------------------------
(***************************************************************************)
(* What the workflow service promises the people who read the channel, as  *)
(* if a revision were committed in one step: a stage is announced before   *)
(* it starts, by one message; the workflow then enters exactly the stage   *)
(* that was announced; a terminal stage is final.  No files, no ledger, no *)
(* recovery.                                                               *)
(***************************************************************************)
EXTENDS WorkflowStages, Sequences

CONSTANT Configured   \* roles that can be woken

VARIABLES stage, revision, loops, announced

NeedsAnnouncement(next) == next \notin Terminal /\ ExpectedRole(next) \in Configured

\* Where the expected role's result leads from the present stage.
Successors ==
  {EffectiveNext(t[4], loops) : t \in {u \in Transitions : u[1] = stage}}

AnnouncedNext == {i \in DOMAIN announced : announced[i].rev = revision + 1}

PInit == /\ stage = "PRIMARY_ACTIVE" /\ revision = 0 /\ loops = 0
         /\ announced = <<>>

Announce ==
  /\ AnnouncedNext = {}
  /\ \E next \in Successors :
       /\ NeedsAnnouncement(next)
       /\ announced' = Append(announced, [rev |-> revision + 1, stage |-> next])
  /\ UNCHANGED <<stage, revision, loops>>

Enter ==
  \E next \in Successors :
    /\ NeedsAnnouncement(next) => AnnouncedNext # {}
    /\ \A i \in AnnouncedNext : announced[i].stage = next
    /\ stage' = next
    /\ revision' = revision + 1
    /\ loops' = IF next = "PRIMARY_CORRECTION_PENDING" THEN loops + 1 ELSE loops
    /\ UNCHANGED announced

PNext == Announce \/ Enter

PromiseSpec == PInit /\ [][PNext]_<<stage, revision, loops, announced>>
=============================================================================
