--------------------------- MODULE NativeWorkflow ---------------------------
(***************************************************************************)
(* The native workflow service: the commit protocol that advances a        *)
(* project's workflow, and the recovery that reconciles its transition     *)
(* ledger after a daemon restart.                                          *)
(*                                                                         *)
(* The durable state is two files of the project, written atomically and   *)
(* separately: workflow_assignment.json (`assignment') and                 *)
(* workflow_transitions.json (`ledger').  A daemon that finishes an agent  *)
(* turn runs on_turn_complete over them; each file access, and the await   *)
(* on Discord, is one step, because a crash can fall between any two.      *)
(* Several daemons share the files and nothing locks them: Overlap says    *)
(* whether their turns may interleave.                                     *)
(***************************************************************************)
EXTENDS WorkflowStages, FiniteSets, Sequences

CONSTANTS
  Daemons,           \* daemon processes bound to the project
  MayClaim,          \* the roles each daemon's agent may claim in its turns
  Configured,        \* roles whose bot has a Discord user id in the configuration
  MaxLedgerEntries,  \* MAX_LEDGER_ENTRIES
  Overlap            \* may two daemons be inside on_turn_complete at once?

ASSUME MayClaimAssumption == MayClaim \in [Daemons -> SUBSET Roles]
ASSUME ConfiguredAssumption == Configured \subseteq Roles
ASSUME MaxLedgerEntriesAssumption == MaxLedgerEntries \in Nat \ {0}
ASSUME OverlapAssumption == Overlap \in BOOLEAN

VARIABLES
  assignment,   \* the durable assignment file
  ledger,       \* the durable ledger file: transition id -> row
  reconciled,   \* daemons whose reconciled_projects cookie is set
  turn,         \* what each daemon's on_turn_complete holds in memory
  activations   \* history: the wake-ups Discord posted, in order; a message's
                \* id is its place in the sequence

vars == <<assignment, ledger, reconciled, turn, activations>>
-----------------------------------------------------------------------------
(***************************************************************************)
(* Transition ids and ledger rows.  The id is a hash of the workflow id,   *)
(* revision, stage, role and result; the model keeps the tuple and leaves  *)
(* out the workflow id (there is one) and the role (the stage fixes it).   *)
(***************************************************************************)
TransitionIds == Nat \X Stages \X Results
NoTransition == <<>>

Rev(t) == t[1]

Statuses == {"RESERVED", "PENDING", "DELIVERED", "FAILED"}

\* mid is openab_message_id, 0 for none.
Rows == [status : Statuses, mid : Nat]

IsLedger(l) == /\ DOMAIN l \subseteq TransitionIds
               /\ l = [t \in DOMAIN l |-> l[t]]
               /\ \A t \in DOMAIN l : l[t] \in Rows

EmptyLedger == [t \in {} |-> [status |-> "RESERVED", mid |-> 0]]

StatusOf(l, t) == IF t \in DOMAIN l THEN l[t].status ELSE "NONE"

Put(l, t, row) == [x \in DOMAIN l \cup {t} |-> IF x = t THEN row ELSE l[x]]

Keep(l, S) == [x \in DOMAIN l \cap S |-> l[x]]

WithStatus(l, t, status) == [l EXCEPT ![t].status = status]

\* A new RESERVED row; a row already RESERVED is returned as it is.
Reserve(l, t) ==
  IF StatusOf(l, t) = "NONE"
  THEN Put(l, t, [status |-> "RESERVED", mid |-> 0]) ELSE l

MarkPending(l, t) == WithStatus(l, t, "PENDING")

MarkFailed(l, t) ==
  IF StatusOf(l, t) \in {"RESERVED", "PENDING"} THEN WithStatus(l, t, "FAILED") ELSE l

DeliveredRows(l) == {t \in DOMAIN l : l[t].status = "DELIVERED"}

\* Newest deliveries first, as many as fit beside the rows that are not
\* DELIVERED; those are never dropped.  Rows are delivered in the order of their
\* revisions, so the revision stands for delivered_at.
Prune(l) ==
  LET active   == DOMAIN l \ DeliveredRows(l)
      newer(t) == {u \in DeliveredRows(l) : Rev(u) > Rev(t)}
      kept     == {t \in DeliveredRows(l) :
                     Cardinality(active) + Cardinality(newer(t)) < MaxLedgerEntries}
  IN  IF Cardinality(DOMAIN l) <= MaxLedgerEntries THEN l ELSE Keep(l, active \cup kept)

MarkDelivered(l, t, mid) ==
  IF StatusOf(l, t) = "PENDING"
  THEN Prune([l EXCEPT ![t] = [status |-> "DELIVERED", mid |-> mid]]) ELSE l

-----------------------------------------------------------------------------
Assignments == [state : Stages, rev : Nat, loops : Nat,
                last : TransitionIds \cup {NoTransition}, mid : Nat]

NewAssignment == [state |-> "PRIMARY_ACTIVE", rev |-> 0, loops |-> 0,
                  last |-> NoTransition, mid |-> 0]

\* What parse_role_completion finds in the turn's text: one claim, or none
\* (no block, several, or a malformed one).
Claims == Roles \X Results
NoClaim == <<NoRole, "COMPLETE">>

Steps == {"idle", "recover", "classify", "recoverSave", "load", "validate",
          "reserve", "saveReserved", "savePending", "send", "saveFailed",
          "saveAssignment", "saveDelivered"}

Committing == {"saveReserved", "savePending", "send", "saveFailed",
               "saveAssignment", "saveDelivered"}

Idle == [step |-> "idle", claim |-> NoClaim, asg |-> NewAssignment,
         led |-> EmptyLedger, next |-> "PRIMARY_ACTIVE", mid |-> 0]

\* Mutated form of ClaimedTransition: the revision before the present one.
ClaimedOneRevisionBack(asg, claim) == <<asg.rev - 1, asg.state, claim[2]>>

\* The id derived from the claim, which the validator looks up ...
ClaimedTransition(asg, claim) == <<asg.rev, asg.state, claim[2]>>

\* ... and the id of the row that commit_protocol reserves.
LedgerTransition(asg) ==
  <<asg.rev, asg.state, AcceptancePairResult(ExpectedRole(asg.state))>>

\* Terminal stages wake nobody, nor does a role without a configured bot.
SendRequired(next) == next \notin Terminal /\ ExpectedRole(next) \in Configured

\* Mutated form of Updated: the revision is left alone.
UpdatedSameRevision(t) ==
  [state |-> t.next, rev |-> t.asg.rev,
   loops |-> LoopsAfter(t.next, t.claim[1], t.asg.loops),
   last |-> ClaimedTransition(t.asg, t.claim), mid |-> t.mid]

\* Mutated form of Updated: the defect loop is never counted.
UpdatedUncounted(t) ==
  [state |-> t.next, rev |-> t.asg.rev + 1, loops |-> t.asg.loops,
   last |-> ClaimedTransition(t.asg, t.claim), mid |-> t.mid]

\* Mutated form of Updated: without a message, the one of the stage before stays.
UpdatedKeepsMessage(t) ==
  [state |-> t.next, rev |-> t.asg.rev + 1,
   loops |-> LoopsAfter(t.next, t.claim[1], t.asg.loops),
   last |-> ClaimedTransition(t.asg, t.claim),
   mid |-> IF t.mid = 0 THEN t.asg.mid ELSE t.mid]

\* The assignment a turn commits.
Updated(t) ==
  [state |-> t.next, rev |-> t.asg.rev + 1,
   loops |-> LoopsAfter(t.next, t.claim[1], t.asg.loops),
   last |-> ClaimedTransition(t.asg, t.claim), mid |-> t.mid]

Init == /\ assignment = NewAssignment
        /\ ledger = EmptyLedger
        /\ reconciled = {}
        /\ turn = [d \in Daemons |-> Idle]
        /\ activations = <<>>

\* One step of d's turn: d goes to `step' with the fields of `now'.
Go(d, now, step) == turn' = [turn EXCEPT ![d] = [now EXCEPT !.step = step]]
Finish(d) == turn' = [turn EXCEPT ![d] = Idle]

\* A terminal agent turn of the pinned project calls on_turn_complete.  The
\* daemon's first turn runs recovery; the cookie is set before it does.
BeginTurn(d) ==
  /\ turn[d].step = "idle"
  /\ Overlap \/ \A e \in Daemons : turn[e].step = "idle"
  /\ \E claim \in (MayClaim[d] \X Results) \cup {NoClaim} :
       Go(d, [Idle EXCEPT !.claim = claim],
          IF d \in reconciled THEN "load" ELSE "recover")
  /\ reconciled' = reconciled \cup {d}
  /\ UNCHANGED <<assignment, ledger, activations>>

\* Recovery reads the ledger file; when it still cannot after two more attempts it
\* panics, and the cookie stays ...
RecoverLoad(d) ==
  /\ turn[d].step = "recover"
  /\ Go(d, [turn[d] EXCEPT !.led = ledger], "classify") \/ Finish(d)
  /\ UNCHANGED <<assignment, ledger, reconciled, activations>>

\* Does the assignment prove that the PENDING row's commit went through?
Advanced(t, asg) ==
  /\ Legal(t[2], ExpectedRole(t[2]), t[3], asg.state)
  /\ asg.rev = Rev(t) + 1

\* Mutated form of Reconcile: PENDING rows are released with the RESERVED ones.
ReconcileReleasesPending(l, asg) ==
  LET kept == {t \in DOMAIN l : l[t].status \notin {"RESERVED", "PENDING"}}
  IN  Keep(l, kept)

\* Mutated form of Reconcile: every PENDING row is taken for delivered.
ReconcileOptimistic(l, asg) ==
  LET kept == {t \in DOMAIN l : l[t].status # "RESERVED"}
  IN  [t \in kept |-> IF l[t].status = "PENDING"
                      THEN [status |-> "DELIVERED", mid |-> asg.mid] ELSE l[t]]

\* The PENDING row that the assignment proves committed becomes DELIVERED, every
\* RESERVED row is deleted, all others stay.  (A RESERVED row is newer than the
\* proved one, so it still counts when mark_delivered prunes.)
Reconcile(l, asg) ==
  LET proved == {t \in DOMAIN l : l[t].status = "PENDING" /\ Advanced(t, asg)}
      marked == [t \in DOMAIN l |->
                   IF t \in proved THEN [status |-> "DELIVERED", mid |-> asg.mid]
                                   ELSE l[t]]
  IN  Keep(IF proved = {} THEN l ELSE Prune(marked),
           {t \in DOMAIN l : l[t].status # "RESERVED"})

\* ... then the assignment file, and classifies every row; a file that cannot be
\* read proves no more than a new one ...
RecoverClassify(d) ==
  /\ turn[d].step = "classify"
  /\ \E asg \in {assignment, NewAssignment} :
       Go(d, [turn[d] EXCEPT !.led = Reconcile(@, asg)], "recoverSave")
  /\ UNCHANGED <<assignment, ledger, reconciled, activations>>

\* ... and writes the ledger back.  A failed write clears the cookie, and the
\* turn goes on.
RecoverSave(d) ==
  /\ turn[d].step = "recoverSave"
  /\ \/ ledger' = turn[d].led /\ UNCHANGED reconciled
     \/ reconciled' = reconciled \ {d} /\ UNCHANGED ledger
  /\ Go(d, [Idle EXCEPT !.claim = turn[d].claim], "load")
  /\ UNCHANGED <<assignment, activations>>

\* The turn ends here without a claim, or when the file cannot be read.
LoadAssignment(d) ==
  /\ turn[d].step = "load"
  /\ \/ /\ turn[d].claim # NoClaim
        /\ Go(d, [turn[d] EXCEPT !.asg = assignment], "validate")
     \/ Finish(d)
  /\ UNCHANGED <<assignment, ledger, reconciled, activations>>

\* The validator accepts a claim of the expected role with a legal result, whose
\* transition id has no row or, as replay_state has it, whose ledger cannot be
\* read.  A rejected turn has no effect.
Validate(d) ==
  LET asg == turn[d].asg
      claim == turn[d].claim
      IsNew == ClaimedTransition(asg, claim) \notin DOMAIN ledger
      Accepts(next) == /\ asg.state \notin Terminal
                       /\ claim[1] = ExpectedRole(asg.state)
                       /\ Legal(asg.state, claim[1], claim[2], next)
  IN  /\ turn[d].step = "validate"
      /\ \/ \E next \in Stages, unreadable \in BOOLEAN :
              /\ Accepts(next) /\ (IsNew \/ unreadable)
              /\ Go(d, [turn[d] EXCEPT !.next = EffectiveNext(next, asg.loops)],
                    "reserve")
         \/ /\ ~IsNew \/ ~\E next \in Stages : Accepts(next)
            /\ Finish(d)
      /\ UNCHANGED <<assignment, ledger, reconciled, activations>>

\* Step A reads the ledger again; only a new or a RESERVED row may go on, and a
\* ledger that cannot be read ends the turn.
ReserveRow(d) ==
  LET id == LedgerTransition(turn[d].asg)
      l  == Reserve(ledger, id)
  IN  /\ turn[d].step = "reserve"
      /\ \/ /\ StatusOf(l, id) = "RESERVED"
            /\ Go(d, [turn[d] EXCEPT !.led = l], "saveReserved")
         \/ Finish(d)
      /\ UNCHANGED <<assignment, ledger, reconciled, activations>>

\* A step that writes d's ledger: it succeeds and d continues with `then', or it
\* fails and d marks the row FAILED.
SaveLedger(d, now, then) ==
  LET id == LedgerTransition(turn[d].asg)
  IN  \/ ledger' = turn[d].led /\ Go(d, now, then)
      \/ /\ UNCHANGED ledger
         /\ Go(d, [turn[d] EXCEPT !.led = MarkFailed(@, id)], "saveFailed")

\* Step B; on success the row is PENDING in memory (step D).
SaveReserved(d) ==
  /\ turn[d].step = "saveReserved"
  /\ SaveLedger(d, [turn[d] EXCEPT !.led = MarkPending(@, LedgerTransition(turn[d].asg))],
                "savePending")
  /\ UNCHANGED <<assignment, reconciled, activations>>

\* Mutated form of SavePending: the message is sent before the row is durable.
SavePendingLate(d) ==
  /\ turn[d].step = "savePending"
  /\ Go(d, turn[d], IF SendRequired(turn[d].next) THEN "send" ELSE "saveAssignment")
  /\ UNCHANGED <<assignment, ledger, reconciled, activations>>

\* Step E.
SavePending(d) ==
  /\ turn[d].step = "savePending"
  /\ SaveLedger(d, turn[d],
                IF SendRequired(turn[d].next) THEN "send" ELSE "saveAssignment")
  /\ UNCHANGED <<assignment, reconciled, activations>>

\* Mutated form of Send: a failed call marks the row FAILED and commits anyway.
SendIgnoresFailure(d) ==
  LET posted == Append(activations,
                       [rev |-> turn[d].asg.rev + 1, stage |-> turn[d].next])
      id == LedgerTransition(turn[d].asg)
  IN  /\ turn[d].step = "send"
      /\ \/ /\ activations' = posted
            /\ Go(d, [turn[d] EXCEPT !.mid = Len(posted)], "saveAssignment")
         \/ /\ activations' \in {activations, posted}
            /\ Go(d, [turn[d] EXCEPT !.led = MarkFailed(@, id)], "saveAssignment")
      /\ UNCHANGED <<assignment, ledger, reconciled>>

\* Step F.  Discord posts the message and its id comes back, or the call fails;
\* a failed call may have posted it all the same.
Send(d) ==
  LET posted == Append(activations,
                       [rev |-> turn[d].asg.rev + 1, stage |-> turn[d].next])
      id == LedgerTransition(turn[d].asg)
  IN  /\ turn[d].step = "send"
      /\ \/ /\ activations' = posted
            /\ Go(d, [turn[d] EXCEPT !.mid = Len(posted)], "saveAssignment")
         \/ /\ activations' \in {activations, posted}
            /\ Go(d, [turn[d] EXCEPT !.led = MarkFailed(@, id)], "saveFailed")
      /\ UNCHANGED <<assignment, ledger, reconciled>>

\* Mutated form of SaveFailed: the row is released instead of kept as FAILED.
SaveFailedReleases(d) ==
  /\ turn[d].step = "saveFailed"
  /\ ledger' = Keep(ledger, DOMAIN ledger \ {LedgerTransition(turn[d].asg)})
  /\ Finish(d)
  /\ UNCHANGED <<assignment, reconciled, activations>>

\* The FAILED row is written, or is lost with a second failed write.
SaveFailed(d) ==
  /\ turn[d].step = "saveFailed"
  /\ ledger' \in {turn[d].led, ledger}
  /\ Finish(d)
  /\ UNCHANGED <<assignment, reconciled, activations>>

\* Step J.  save_assignment_atomic refuses a defect loop above the cap.  After a
\* failed write the row stays PENDING and the turn ends.
SaveAssignment(d) ==
  LET now == Updated(turn[d])
      id  == LedgerTransition(turn[d].asg)
  IN  /\ turn[d].step = "saveAssignment"
      /\ \/ /\ now.loops <= DefectLoopMax
            /\ assignment' = now
            /\ Go(d, [turn[d] EXCEPT !.led = MarkDelivered(@, id, turn[d].mid)],
                  "saveDelivered")
         \/ UNCHANGED assignment /\ Finish(d)
      /\ UNCHANGED <<ledger, reconciled, activations>>

\* Step L; a failed write is only logged.
SaveDelivered(d) ==
  /\ turn[d].step = "saveDelivered"
  /\ ledger' \in {turn[d].led, ledger}
  /\ Finish(d)
  /\ UNCHANGED <<assignment, reconciled, activations>>

\* The daemon dies: its turn and its cookie are gone, the files stay.
Crash(d) ==
  /\ d \in reconciled \/ turn[d].step # "idle"
  /\ reconciled' = reconciled \ {d}
  /\ Finish(d)
  /\ UNCHANGED <<assignment, ledger, activations>>

DaemonStep(d) ==
  \/ BeginTurn(d) \/ RecoverLoad(d) \/ RecoverClassify(d) \/ RecoverSave(d)
  \/ LoadAssignment(d) \/ Validate(d) \/ ReserveRow(d) \/ SaveReserved(d)
  \/ SavePending(d) \/ Send(d) \/ SaveFailed(d) \/ SaveAssignment(d)
  \/ SaveDelivered(d) \/ Crash(d)

Next == \E d \in Daemons : DaemonStep(d)

Spec == Init /\ [][Next]_vars
-----------------------------------------------------------------------------
IsTurn(t) == /\ t = [step |-> t.step, claim |-> t.claim, asg |-> t.asg,
                     led |-> t.led, next |-> t.next, mid |-> t.mid]
             /\ t.step \in Steps
             /\ t.claim \in Claims \cup {NoClaim}
             /\ t.asg \in Assignments
             /\ IsLedger(t.led)
             /\ t.next \in Stages
             /\ t.mid \in Nat

\* The shape of the two files, of a turn's memory and of the history.
TypeOK == /\ assignment \in Assignments
          /\ IsLedger(ledger)
          /\ reconciled \subseteq Daemons
          /\ turn = [d \in Daemons |-> turn[d]]
          /\ \A d \in Daemons : IsTurn(turn[d])
          /\ activations \in Seq([rev : Nat, stage : Stages])

\* Each workflow revision wakes at most one bot, once: across crashes, failed
\* writes, sends that failed after posting, and a reviewer that first claims
\* FAIL and then PASS (commit_protocol: "send exactly one targeted Discord
\* activation"; recovery: "never generates a duplicate Discord delivery").
AtMostOneActivation ==
  \A i, j \in DOMAIN activations : activations[i].rev = activations[j].rev => i = j

\* No bot is woken for a stage that the durable workflow does not have, or will
\* not be given by the commit in progress: a message is never about a revision
\* beyond the next one, and the one about the present revision names its stage.
ActivationMatchesAssignment ==
  \A i \in DOMAIN activations :
    /\ activations[i].rev <= assignment.rev + 1
    /\ activations[i].rev = assignment.rev => activations[i].stage = assignment.state

\* The write-ahead rule that recovery relies on: once a message for the next
\* revision may be out, the row of the present one is durably PENDING or FAILED,
\* never RESERVED or absent (release_stale_reserved: a RESERVED row means
\* "Discord was never contacted").
SentIsOnRecord ==
  \A i \in DOMAIN activations :
    activations[i].rev = assignment.rev + 1 =>
      StatusOf(ledger, LedgerTransition(assignment)) \in {"PENDING", "FAILED"}

\* A DELIVERED row, whether the commit or recovery wrote it, is about a revision
\* that the assignment has left, and its message id is that of the message
\* posted for it.
DeliveredIsCommitted ==
  \A t \in DeliveredRows(ledger) :
    /\ Rev(t) < assignment.rev
    /\ ledger[t].mid # 0 => /\ ledger[t].mid \in DOMAIN activations
                            /\ activations[ledger[t].mid].rev = Rev(t) + 1

\* A FAILED row stops the workflow at its revision: no later claim, whatever its
\* result, gets past it ("no automatic retry").
FailedNeverAdvances ==
  \A t \in DOMAIN ledger : ledger[t].status = "FAILED" => Rev(t) = assignment.rev

\* The primary is sent back to correct its work at most once, counting the
\* messages and not the counter (SUPPORTED_DEFECT_LOOP_MAX).
OneCorrectionRound ==
  \A i, j \in DOMAIN activations :
    (/\ activations[i].stage = "PRIMARY_CORRECTION_PENDING"
     /\ activations[j].stage = "PRIMARY_CORRECTION_PENDING") => i = j

\* The workflow never rests in a stage whose bot was not told: the message of
\* the present revision was posted, and it is the one the assignment names.
StageWasAnnounced ==
  /\ assignment.rev > 0 /\ SendRequired(assignment.state) => assignment.mid # 0
  /\ assignment.mid # 0 =>
       /\ assignment.mid \in DOMAIN activations
       /\ activations[assignment.mid] =
            [rev |-> assignment.rev, stage |-> assignment.state]

\* Even when the daemons' turns overlap, as long as each daemon claims only its
\* own role: the assignment moves along the legal transitions one revision at a
\* time and is never overwritten with an older one ("at most one
\* workflow_revision increment").
AssignmentStep ==
  /\ assignment'.rev = assignment.rev + 1
  /\ assignment.state \notin Terminal
  /\ \E t \in Transitions :
       /\ t[1] = assignment.state /\ t[3] = assignment'.last[3]
       /\ assignment'.state = EffectiveNext(t[4], assignment.loops)
  /\ assignment'.last[1] = assignment.rev

AssignmentNeverRegresses == [][AssignmentStep]_assignment

Promise == INSTANCE NativeWorkflowPromise
             WITH stage <- assignment.state, revision <- assignment.rev,
                  loops <- assignment.loops, announced <- activations

\* Every step of the service, crashes and failed writes included, is a step of
\* the promise or changes nothing a reader of the channel can tell.
KeepsPromise == Promise!PromiseSpec
=============================================================================
