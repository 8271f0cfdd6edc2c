------------------------ MODULE NativeWorkflowProofs ------------------------
(***************************************************************************)
(* Proofs about NativeWorkflow for any set of daemons, any set of          *)
(* configured bots and any claims, when the turns of the project do not    *)
(* overlap.  The inductive invariant ties what a turn holds in memory to   *)
(* the two files: as long as turns do not overlap, the snapshot it took is *)
(* still the file, and the in-memory ledger differs from the durable one   *)
(* only in the row being committed.                                        *)
(***************************************************************************)
EXTENDS NativeWorkflow, TLAPS

Current == LedgerTransition(assignment)

\* No message about the next revision has been posted.
NothingSent == \A i \in DOMAIN activations : activations[i].rev # assignment.rev + 1

\* The stage a turn commits to is what its claim and the cap lead to.
Chosen(t) == /\ t.claim[1] = ExpectedRole(t.asg.state)
             /\ \E n \in Stages : /\ Legal(t.asg.state, t.claim[1], t.claim[2], n)
                                  /\ t.next = EffectiveNext(n, t.asg.loops)

WithSnapshot == {"validate", "reserve", "saveReserved", "savePending",
                 "send", "saveFailed", "saveAssignment"}

\* What the in-memory ledger of a turn is, step by step.
MemoryInv(t) ==
  /\ t.step \in WithSnapshot => t.asg = assignment
  /\ t.step \in {"reserve"} \cup Committing => Chosen(t)
  /\ t.step = "classify" => t.led = ledger
  /\ t.step = "recoverSave" =>
       \E asg \in {assignment, NewAssignment} : t.led = Reconcile(ledger, asg)
  /\ t.step = "saveReserved" =>
       /\ t.led = Reserve(ledger, Current)
       /\ StatusOf(t.led, Current) = "RESERVED"
  /\ t.step = "savePending" =>
       /\ StatusOf(ledger, Current) = "RESERVED"
       /\ t.led = MarkPending(ledger, Current)
  /\ t.step \in {"send", "saveAssignment"} =>
       /\ t.led = ledger
       /\ StatusOf(ledger, Current) = "PENDING"
  /\ t.step = "send" => SendRequired(t.next)
  /\ t.step = "saveFailed" =>
       /\ DOMAIN ledger \subseteq DOMAIN t.led
       /\ DOMAIN t.led \subseteq DOMAIN ledger \cup {Current}
       /\ \A x \in DOMAIN ledger : x # Current => t.led[x] = ledger[x]
       /\ StatusOf(t.led, Current) = "FAILED"
  /\ t.step = "saveDelivered" =>
       /\ assignment = Updated(t)
       /\ StatusOf(ledger, LedgerTransition(t.asg)) = "PENDING"
       /\ t.led = MarkDelivered(ledger, LedgerTransition(t.asg), t.mid)

BeforeSend == {"recover", "classify", "recoverSave", "load", "validate", "reserve",
               "saveReserved", "savePending", "send"}

\* What a turn knows about the messages.
MessageInv(t) ==
  /\ t.step \in {"saveReserved", "savePending", "send"} => NothingSent
  /\ t.step = "saveAssignment" =>
       /\ SendRequired(t.next) => t.mid # 0
       /\ t.mid = 0 => NothingSent
       /\ t.mid # 0 => /\ t.mid \in DOMAIN activations
                       /\ activations[t.mid] = [rev |-> assignment.rev + 1,
                                                stage |-> t.next]
  /\ t.step \in BeforeSend => t.mid = 0

TurnInv == \A d \in Daemons : MemoryInv(turn[d]) /\ MessageInv(turn[d])

Serial == \A d, e \in Daemons :
            turn[d].step # "idle" /\ turn[e].step # "idle" => d = e

\* A correction message about the next revision can only be the first one.
CorrectionInv ==
  \A i \in DOMAIN activations :
    activations[i].stage = "PRIMARY_CORRECTION_PENDING" =>
      IF activations[i].rev = assignment.rev + 1 THEN assignment.loops = 0
                                                 ELSE assignment.loops # 0

\* A revision has at most one row, the one commit_protocol files its claim under.
RowsInv == \A t \in DOMAIN ledger :
             Rev(t) <= assignment.rev /\ (Rev(t) = assignment.rev => t = Current)

FilesInv == /\ AtMostOneActivation
            /\ ActivationMatchesAssignment
            /\ SentIsOnRecord
            /\ DeliveredIsCommitted
            /\ FailedNeverAdvances
            /\ StageWasAnnounced
            /\ OneCorrectionRound
            /\ CorrectionInv
            /\ RowsInv
            /\ assignment.loops <= DefectLoopMax

IInv == TypeOK /\ Serial /\ TurnInv /\ FilesInv
-----------------------------------------------------------------------------
(* Facts about the operators. *)

\* An assignment's ledger transition is one, and is told from others by its revision.
LEMMA CurrentType ==
  ASSUME NEW asg \in Assignments
  PROVE  LedgerTransition(asg) \in TransitionIds /\ Rev(LedgerTransition(asg)) = asg.rev
BY DEF LedgerTransition, TransitionIds, Rev, Assignments, AcceptancePairResult, Results

\* Keeping some rows of a ledger keeps its type.
LEMMA KeepType ==
  ASSUME NEW l, IsLedger(l), NEW S
  PROVE  /\ IsLedger(Keep(l, S))
         /\ DOMAIN Keep(l, S) = DOMAIN l \cap S
         /\ \A t \in DOMAIN l \cap S : Keep(l, S)[t] = l[t]
BY DEF Keep, IsLedger

\* prune_delivered drops rows that are DELIVERED and changes none.
LEMMA PruneKeeps ==
  ASSUME NEW l, IsLedger(l)
  PROVE  /\ IsLedger(Prune(l))
         /\ DOMAIN Prune(l) \subseteq DOMAIN l
         /\ \A t \in DOMAIN Prune(l) : Prune(l)[t] = l[t]
         /\ \A t \in DOMAIN l : l[t].status # "DELIVERED" => t \in DOMAIN Prune(l)
<1>1. CASE Cardinality(DOMAIN l) <= MaxLedgerEntries
  BY <1>1 DEF Prune
<1>2. CASE ~(Cardinality(DOMAIN l) <= MaxLedgerEntries)
  <2> DEFINE active == DOMAIN l \ DeliveredRows(l)
             newer(t) == {u \in DeliveredRows(l) : Rev(u) > Rev(t)}
             kept == {t \in DeliveredRows(l) :
                        Cardinality(active) + Cardinality(newer(t)) < MaxLedgerEntries}
  <2>1. Prune(l) = Keep(l, active \cup kept)
    BY <1>2 DEF Prune
  <2>2. \A t \in DOMAIN l : l[t].status # "DELIVERED" => t \in active
    BY DEF DeliveredRows
  <2> DEFINE S == active \cup kept
  <2>3. \A t \in DOMAIN l : l[t].status # "DELIVERED" => t \in S
    BY <2>2
  <2>4. Prune(l) = Keep(l, S)
    BY <2>1
  <2> HIDE DEF S
  <2>5. /\ IsLedger(Keep(l, S))
        /\ DOMAIN Keep(l, S) = DOMAIN l \cap S
        /\ \A t \in DOMAIN l \cap S : Keep(l, S)[t] = l[t]
    BY KeepType
  <2>6. QED
    BY <2>3, <2>4, <2>5
<1>3. QED
  BY <1>1, <1>2

\* A reservation adds one well-formed row.
LEMMA ReserveType ==
  ASSUME NEW l, IsLedger(l), NEW t \in TransitionIds
  PROVE  /\ IsLedger(Reserve(l, t))
         /\ t \in DOMAIN Reserve(l, t)
         /\ DOMAIN Reserve(l, t) = DOMAIN l \cup {t}
         /\ \A x \in DOMAIN l : Reserve(l, t)[x] = l[x]
         /\ t \notin DOMAIN l => Reserve(l, t)[t] = [status |-> "RESERVED", mid |-> 0]
BY DEF IsLedger, Reserve, Put, StatusOf, Rows, Statuses

\* A row that changes its status stays well formed.
LEMMA WithStatusType ==
  ASSUME NEW l, IsLedger(l), NEW t \in DOMAIN l, NEW st \in Statuses
  PROVE  /\ IsLedger(WithStatus(l, t, st))
         /\ DOMAIN WithStatus(l, t, st) = DOMAIN l
         /\ WithStatus(l, t, st)[t].status = st
         /\ WithStatus(l, t, st)[t].mid = l[t].mid
         /\ \A x \in DOMAIN l : x # t => WithStatus(l, t, st)[x] = l[x]
<1>1. l[t] \in Rows /\ [l[t] EXCEPT !.status = st] \in Rows
  BY DEF IsLedger, Rows
<1>2. QED
  BY <1>1 DEF IsLedger, WithStatus, Rows

\* So does a row that is marked delivered.
LEMMA MarkDeliveredType ==
  ASSUME NEW l, IsLedger(l), NEW t \in DOMAIN l, l[t].status = "PENDING", NEW mid \in Nat
  PROVE  /\ IsLedger(MarkDelivered(l, t, mid))
         /\ DOMAIN MarkDelivered(l, t, mid) \subseteq DOMAIN l
         /\ \A x \in DOMAIN MarkDelivered(l, t, mid) :
              x # t => MarkDelivered(l, t, mid)[x] = l[x]
         /\ t \in DOMAIN MarkDelivered(l, t, mid) =>
              MarkDelivered(l, t, mid)[t] = [status |-> "DELIVERED", mid |-> mid]
         /\ \A x \in DOMAIN l : x # t /\ l[x].status # "DELIVERED" =>
              x \in DOMAIN MarkDelivered(l, t, mid)
<1> DEFINE m == [l EXCEPT ![t] = [status |-> "DELIVERED", mid |-> mid]]
<1>1. IsLedger(m) /\ DOMAIN m = DOMAIN l
  BY DEF IsLedger, Rows, Statuses
<1>2. m[t] = [status |-> "DELIVERED", mid |-> mid] /\ \A x \in DOMAIN l : x # t => m[x] = l[x]
  BY DEF IsLedger
<1>3. MarkDelivered(l, t, mid) = Prune(m)
  BY DEF MarkDelivered, StatusOf
<1> HIDE DEF m
<1>4. QED
  BY <1>1, <1>2, <1>3, PruneKeeps

\* Recovery keeps every row that is not RESERVED as it is, but for the PENDING
\* rows that the assignment proves committed, and for pruned DELIVERED rows.
LEMMA ReconcileType ==
  ASSUME NEW l, IsLedger(l), NEW asg \in Assignments
  PROVE  LET r == Reconcile(l, asg) IN
         /\ IsLedger(r)
         /\ DOMAIN r \subseteq DOMAIN l
         /\ \A t \in DOMAIN r :
              \/ r[t] = l[t] /\ l[t].status # "RESERVED"
              \/ /\ l[t].status = "PENDING" /\ Advanced(t, asg)
                 /\ r[t] = [status |-> "DELIVERED", mid |-> asg.mid]
         /\ \A t \in DOMAIN l :
              l[t].status \in {"PENDING", "FAILED"} /\ ~Advanced(t, asg) =>
                t \in DOMAIN r /\ r[t] = l[t]
<1> DEFINE proved == {t \in DOMAIN l : l[t].status = "PENDING" /\ Advanced(t, asg)}
           marked == [t \in DOMAIN l |->
                        IF t \in proved THEN [status |-> "DELIVERED", mid |-> asg.mid]
                                        ELSE l[t]]
           full == IF proved = {} THEN l ELSE Prune(marked)
           kept == {t \in DOMAIN l : l[t].status # "RESERVED"}
<1>1. Reconcile(l, asg) = Keep(full, kept)
  BY DEF Reconcile
<1>2. IsLedger(marked) /\ DOMAIN marked = DOMAIN l
  BY DEF IsLedger, Rows, Statuses, Assignments
<1>3. \A t \in DOMAIN l : /\ t \in proved => marked[t] = [status |-> "DELIVERED", mid |-> asg.mid]
                          /\ t \notin proved => marked[t] = l[t]
  OBVIOUS
<1>4. \A t \in DOMAIN l : t \in proved <=> l[t].status = "PENDING" /\ Advanced(t, asg)
  OBVIOUS
<1> HIDE DEF marked, proved
<1>5. /\ IsLedger(full)
      /\ DOMAIN full \subseteq DOMAIN l
      /\ \A t \in DOMAIN full :
           /\ t \in proved => full[t] = [status |-> "DELIVERED", mid |-> asg.mid]
           /\ t \notin proved => full[t] = l[t]
      /\ \A t \in DOMAIN l : l[t].status # "DELIVERED" /\ t \notin proved => t \in DOMAIN full
  BY <1>2, <1>3, PruneKeeps
<1> HIDE DEF full
<1>6. \A t : t \in kept <=> t \in DOMAIN l /\ l[t].status # "RESERVED"
  OBVIOUS
<1> HIDE DEF kept
<1> DEFINE r == Keep(full, kept)
<1>7. /\ IsLedger(r)
      /\ DOMAIN r = DOMAIN full \cap kept
      /\ \A t \in DOMAIN full \cap kept : r[t] = full[t]
  BY <1>5, KeepType
<1> HIDE DEF r
<1>8. \A t \in DOMAIN r : \/ r[t] = l[t] /\ l[t].status # "RESERVED"
                          \/ /\ l[t].status = "PENDING" /\ Advanced(t, asg)
                             /\ r[t] = [status |-> "DELIVERED", mid |-> asg.mid]
  BY <1>4, <1>5, <1>6, <1>7
<1>9. \A t \in DOMAIN l :
         l[t].status \in {"PENDING", "FAILED"} /\ ~Advanced(t, asg) =>
           t \in DOMAIN r /\ r[t] = l[t]
  BY <1>4, <1>5, <1>6, <1>7
<1>10. Reconcile(l, asg) = r
  BY <1>1 DEF r
<1>11. QED
  BY <1>5, <1>7, <1>8, <1>9, <1>10
-----------------------------------------------------------------------------
(* Type correctness. *)

\* Every operation of the ledger keeps its type.
LEMMA LedgerOperatorsType ==
  ASSUME NEW l, IsLedger(l), NEW t
  PROVE  /\ \A st \in Statuses : IsLedger(WithStatus(l, t, st))
         /\ IsLedger(MarkPending(l, t))
         /\ IsLedger(MarkFailed(l, t))
         /\ \A mid \in Nat : IsLedger(MarkDelivered(l, t, mid))
<1>1. ASSUME NEW st \in Statuses PROVE IsLedger(WithStatus(l, t, st))
  <2>1. CASE t \in DOMAIN l
    BY <2>1, WithStatusType
  <2>2. CASE t \notin DOMAIN l
    BY <2>2 DEF WithStatus, IsLedger
  <2>3. QED
    BY <2>1, <2>2
<1>2. ASSUME NEW mid \in Nat PROVE IsLedger(MarkDelivered(l, t, mid))
  <2>1. CASE StatusOf(l, t) = "PENDING"
    BY <2>1, MarkDeliveredType DEF StatusOf
  <2>2. CASE StatusOf(l, t) # "PENDING"
    BY <2>2 DEF MarkDelivered
  <2>3. QED
    BY <2>1, <2>2
<1>3. QED
  BY <1>1, <1>2 DEF MarkPending, MarkFailed, Statuses

\* A turn with nothing in memory is well formed.
LEMMA IdleType == IsTurn(Idle)
BY DEF IsTurn, Idle, Steps, Claims, NoClaim, NewAssignment, Assignments, Stages,
       IsLedger, EmptyLedger

\* So is one that has only its claim.
LEMMA IdleWithClaim ==
  ASSUME NEW c \in Claims \cup {NoClaim}
  PROVE  IsTurn([Idle EXCEPT !.claim = c])
BY IdleType DEF IsTurn, Idle

\* Changing fields of a turn keeps it a turn.
LEMMA TurnFields ==
  ASSUME NEW t, IsTurn(t), NEW s \in Steps
  PROVE  /\ IsTurn([t EXCEPT !.step = s])
         /\ [t EXCEPT !.step = s].step = s
         /\ \A l : IsLedger(l) => IsTurn([t EXCEPT !.led = l])
         /\ \A a \in Assignments : IsTurn([t EXCEPT !.asg = a])
         /\ \A n \in Stages : IsTurn([t EXCEPT !.next = n])
         /\ \A m \in Nat : IsTurn([t EXCEPT !.mid = m])
         /\ \A c \in Claims \cup {NoClaim} : IsTurn([t EXCEPT !.claim = c])
<1>1. IsTurn([t EXCEPT !.step = s]) /\ [t EXCEPT !.step = s].step = s
  BY DEF IsTurn
<1>2. ASSUME NEW l, IsLedger(l) PROVE IsTurn([t EXCEPT !.led = l])
  BY <1>2 DEF IsTurn
<1>3. ASSUME NEW a \in Assignments PROVE IsTurn([t EXCEPT !.asg = a])
  BY DEF IsTurn
<1>4. ASSUME NEW n \in Stages PROVE IsTurn([t EXCEPT !.next = n])
  BY DEF IsTurn
<1>5. ASSUME NEW m \in Nat PROVE IsTurn([t EXCEPT !.mid = m])
  BY DEF IsTurn
<1>6. ASSUME NEW c \in Claims \cup {NoClaim} PROVE IsTurn([t EXCEPT !.claim = c])
  BY DEF IsTurn
<1>7. QED
  BY <1>1, <1>2, <1>3, <1>4, <1>5, <1>6

\* What a step of d's turn does to the variable turn.
LEMMA GoType ==
  ASSUME TypeOK, NEW d \in Daemons, NEW now, IsTurn(now), NEW s \in Steps,
         Go(d, now, s)
  PROVE  /\ turn' = [e \in Daemons |-> turn'[e]]
         /\ \A e \in Daemons : IsTurn(turn'[e])
         /\ \A e \in Daemons : e # d => turn'[e] = turn[e]
         /\ turn'[d].step = s
         /\ turn'[d].claim = now.claim /\ turn'[d].asg = now.asg
         /\ turn'[d].led = now.led /\ turn'[d].next = now.next /\ turn'[d].mid = now.mid
<1>1. turn'[d] = [now EXCEPT !.step = s] /\ \A e \in Daemons : e # d => turn'[e] = turn[e]
  BY DEF TypeOK, Go
<1>2. turn' = [e \in Daemons |-> turn'[e]]
  BY DEF TypeOK, Go
<1>3. IsTurn([now EXCEPT !.step = s])
  BY TurnFields
<1>4. /\ turn'[d].step = s
      /\ turn'[d].claim = now.claim /\ turn'[d].asg = now.asg
      /\ turn'[d].led = now.led /\ turn'[d].next = now.next /\ turn'[d].mid = now.mid
  BY <1>1 DEF IsTurn
<1>5. QED
  BY <1>1, <1>2, <1>3, <1>4 DEF TypeOK

\* A turn that ends keeps the types.
LEMMA FinishType ==
  ASSUME TypeOK, NEW d \in Daemons, Finish(d)
  PROVE  /\ turn' = [e \in Daemons |-> turn'[e]]
         /\ \A e \in Daemons : IsTurn(turn'[e])
         /\ \A e \in Daemons : e # d => turn'[e] = turn[e]
         /\ turn'[d] = Idle
BY IdleType DEF TypeOK, Finish

\* The assignment a transition writes is well formed.
LEMMA UpdatedType ==
  ASSUME NEW t, IsTurn(t)
  PROVE  Updated(t) \in Assignments
BY DEF Updated, IsTurn, Assignments, ClaimedTransition, TransitionIds, Claims, NoClaim,
       Results, LoopsAfter

\* The stage a claim leads to, capped or not, is a stage.
LEMMA EffectiveNextType ==
  ASSUME NEW n \in Stages, NEW loops
  PROVE  EffectiveNext(n, loops) \in Stages
BY DEF EffectiveNext, Stages

\* Every step keeps the types.
LEMMA TypeStep == TypeOK /\ [Next]_vars => TypeOK'
<1> SUFFICES ASSUME TypeOK, [Next]_vars PROVE TypeOK'
  OBVIOUS
<1>1. CASE UNCHANGED vars
  BY <1>1 DEF TypeOK, vars
<1>2. ASSUME NEW d \in Daemons, DaemonStep(d) PROVE TypeOK'
  <2> DEFINE t == turn[d]
             id == LedgerTransition(t.asg)
  <2>0. /\ IsTurn(t) /\ IsLedger(t.led) /\ t.asg \in Assignments /\ t.mid \in Nat
        /\ t.claim \in Claims \cup {NoClaim}
    BY DEF TypeOK, IsTurn
  <2>a. ASSUME NEW now, IsTurn(now), NEW s \in Steps, Go(d, now, s),
               assignment' \in Assignments, IsLedger(ledger'), reconciled' \subseteq Daemons,
               activations' \in Seq([rev : Nat, stage : Stages])
        PROVE  TypeOK'
    BY <2>a, GoType DEF TypeOK
  <2>b. ASSUME Finish(d),
               assignment' \in Assignments, IsLedger(ledger'), reconciled' \subseteq Daemons,
               activations' \in Seq([rev : Nat, stage : Stages])
        PROVE  TypeOK'
    BY <2>b, FinishType DEF TypeOK
  <2>c. /\ assignment \in Assignments /\ IsLedger(ledger) /\ reconciled \subseteq Daemons
        /\ activations \in Seq([rev : Nat, stage : Stages])
    BY DEF TypeOK
  <2>d. ASSUME NEW now, IsTurn(now), NEW s \in Steps, SaveLedger(d, now, s),
               UNCHANGED <<assignment, reconciled, activations>>
        PROVE  TypeOK'
    <3>1. IsTurn([t EXCEPT !.led = MarkFailed(@, id)]) /\ "saveFailed" \in Steps
      BY <2>0, TurnFields, LedgerOperatorsType DEF Steps
    <3>2. CASE ledger' = t.led /\ Go(d, now, s)
      BY <3>2, <2>0, <2>a, <2>c, <2>d
    <3>3. CASE UNCHANGED ledger /\ Go(d, [t EXCEPT !.led = MarkFailed(@, id)], "saveFailed")
      BY <3>1, <3>3, <2>a, <2>c, <2>d
    <3>4. QED
      BY <2>d, <3>2, <3>3 DEF SaveLedger
  <2> HIDE DEF t, id
  <2>1. CASE BeginTurn(d)
    <3>1. PICK claim \in (MayClaim[d] \X Results) \cup {NoClaim} :
            Go(d, [Idle EXCEPT !.claim = claim],
               IF d \in reconciled THEN "load" ELSE "recover")
      BY <2>1 DEF BeginTurn
    <3>2. claim \in Claims \cup {NoClaim}
      BY MayClaimAssumption DEF Claims
    <3>3. IsTurn([Idle EXCEPT !.claim = claim])
      BY <3>2, IdleWithClaim
    <3>4. (IF d \in reconciled THEN "load" ELSE "recover") \in Steps
      BY DEF Steps
    <3>5. QED
      BY <2>1, <3>1, <3>3, <3>4, <2>a, <2>c DEF BeginTurn
  <2>2. CASE RecoverLoad(d)
    <3>1. IsTurn([t EXCEPT !.led = ledger]) /\ "classify" \in Steps
      BY <2>0, <2>c, TurnFields DEF Steps
    <3>2. QED
      BY <2>2, <3>1, <2>a, <2>b, <2>c DEF RecoverLoad, t
  <2>3. CASE RecoverClassify(d)
    <3>1. PICK asg \in {assignment, NewAssignment} :
            Go(d, [t EXCEPT !.led = Reconcile(@, asg)], "recoverSave")
      BY <2>3 DEF RecoverClassify, t
    <3>2. asg \in Assignments
      BY <2>c, IdleType DEF IsTurn, Idle
    <3>3. IsTurn([t EXCEPT !.led = Reconcile(@, asg)]) /\ "recoverSave" \in Steps
      BY <2>0, <3>2, TurnFields, ReconcileType DEF Steps
    <3>4. QED
      BY <2>3, <3>1, <3>3, <2>a, <2>c DEF RecoverClassify, t
  <2>4. CASE RecoverSave(d)
    <3>1. IsTurn([Idle EXCEPT !.claim = t.claim]) /\ "load" \in Steps
      BY <2>0, IdleType DEF Steps, IsTurn, Idle
    <3>2. IsLedger(ledger') /\ reconciled' \subseteq Daemons
      BY <2>4, <2>0, <2>c DEF RecoverSave, t
    <3>3. QED
      BY <2>4, <3>1, <3>2, <2>a, <2>c DEF RecoverSave, t
  <2>5. CASE LoadAssignment(d)
    <3>1. IsTurn([t EXCEPT !.asg = assignment]) /\ "validate" \in Steps
      BY <2>0, <2>c, TurnFields DEF Steps
    <3>2. QED
      BY <2>5, <3>1, <2>a, <2>b, <2>c DEF LoadAssignment, t
  <2>6. CASE Validate(d)
    <3>1. \A n \in Stages : IsTurn([t EXCEPT !.next = EffectiveNext(n, t.asg.loops)])
      BY <2>0, TurnFields, EffectiveNextType DEF Steps
    <3>2. "reserve" \in Steps
      BY DEF Steps
    <3>3. QED
      BY <2>6, <3>1, <3>2, <2>a, <2>b, <2>c DEF Validate, t
  <2>7. CASE ReserveRow(d)
    <3>1. IsTurn([t EXCEPT !.led = Reserve(ledger, id)]) /\ "saveReserved" \in Steps
      BY <2>0, <2>c, TurnFields, ReserveType, CurrentType DEF Steps, id
    <3>2. QED
      BY <2>7, <3>1, <2>a, <2>b, <2>c DEF ReserveRow, t, id
  <2>8. CASE SaveReserved(d)
    <3>1. IsTurn([t EXCEPT !.led = MarkPending(@, id)]) /\ "savePending" \in Steps
      BY <2>0, TurnFields, LedgerOperatorsType DEF Steps
    <3>2. QED
      BY <2>8, <3>1, <2>d DEF SaveReserved, t, id
  <2>9. CASE SavePending(d)
    <3>1. (IF SendRequired(t.next) THEN "send" ELSE "saveAssignment") \in Steps
      BY DEF Steps
    <3>2. QED
      BY <2>0, <2>9, <3>1, <2>d DEF SavePending, t
  <2>10. CASE Send(d)
    <3> DEFINE m == [rev |-> t.asg.rev + 1, stage |-> t.next]
               posted == Append(activations, m)
    <3>1. posted \in Seq([rev : Nat, stage : Stages]) /\ Len(posted) \in Nat
      BY <2>0, <2>c DEF Assignments, IsTurn
    <3>2. IsTurn([t EXCEPT !.mid = Len(posted)]) /\ "saveAssignment" \in Steps
      BY <2>0, <3>1, TurnFields DEF Steps
    <3>3. IsTurn([t EXCEPT !.led = MarkFailed(@, id)]) /\ "saveFailed" \in Steps
      BY <2>0, TurnFields, LedgerOperatorsType DEF Steps
    <3> HIDE DEF m
    <3>4. QED
      BY <2>10, <3>1, <3>2, <3>3, <2>a, <2>c DEF Send, t, id, m
  <2>11. CASE SaveFailed(d)
    BY <2>11, <2>0, <2>b, <2>c DEF SaveFailed, t
  <2>12. CASE SaveAssignment(d)
    <3>1. IsTurn([t EXCEPT !.led = MarkDelivered(@, id, t.mid)]) /\ "saveDelivered" \in Steps
      BY <2>0, TurnFields, LedgerOperatorsType DEF Steps
    <3>2. Updated(t) \in Assignments
      BY <2>0, UpdatedType
    <3>3. QED
      BY <2>12, <3>1, <3>2, <2>a, <2>b, <2>c DEF SaveAssignment, t, id
  <2>13. CASE SaveDelivered(d)
    BY <2>13, <2>0, <2>b, <2>c DEF SaveDelivered, t
  <2>14. CASE Crash(d)
    BY <2>14, <2>b, <2>c DEF Crash
  <2>15. QED
    BY <1>2, <2>1, <2>2, <2>3, <2>4, <2>5, <2>6, <2>7, <2>8, <2>9, <2>10, <2>11, <2>12,
       <2>13, <2>14 DEF DaemonStep
<1>3. QED
  BY <1>1, <1>2 DEF Next

\* The types hold at first.
LEMMA InitType == Init => TypeOK
BY IdleType DEF Init, TypeOK, NewAssignment, Assignments, Stages, IsLedger, EmptyLedger

\* The two files, every turn's memory and the history keep their shape,
\* whatever the daemons do, overlapping or not.
THEOREM TypeCorrect == Spec => []TypeOK
  BY InitType, TypeStep, PTL DEF Spec
-----------------------------------------------------------------------------
(* The inductive invariant, one lemma per kind of step. *)

\* Steps that leave the files and the messages alone keep what is said of them.
LEMMA FilesSame ==
  ASSUME FilesInv, UNCHANGED <<assignment, ledger, activations>>
  PROVE  FilesInv'
BY DEF FilesInv, AtMostOneActivation, ActivationMatchesAssignment, SentIsOnRecord,
       DeliveredIsCommitted, FailedNeverAdvances, StageWasAnnounced, OneCorrectionRound,
       CorrectionInv, RowsInv, Current, DeliveredRows

\* Steps that change only the ledger have four facts to preserve.
LEMMA LedgerChange ==
  ASSUME FilesInv, UNCHANGED <<assignment, activations>>,
         (SentIsOnRecord /\ DeliveredIsCommitted /\ FailedNeverAdvances /\ RowsInv)'
  PROVE  FilesInv'
BY DEF FilesInv, AtMostOneActivation, ActivationMatchesAssignment, StageWasAnnounced,
       OneCorrectionRound, CorrectionInv

\* Of an idle turn the invariant says nothing.
LEMMA IdleInv ==
  ASSUME NEW t, t.step = "idle"
  PROVE  MemoryInv(t) /\ MessageInv(t)
BY DEF MemoryInv, MessageInv, WithSnapshot, Committing, BeforeSend

\* While d is inside on_turn_complete every other daemon is idle, so only d's
\* memory is at stake.
LEMMA OnlyOneTurn ==
  ASSUME Serial, TurnInv, NEW d \in Daemons,
         \A e \in Daemons : e # d => turn[e].step = "idle",
         \A e \in Daemons : e # d => turn'[e] = turn[e],
         (MemoryInv(turn[d]) /\ MessageInv(turn[d]))'
  PROVE  (Serial /\ TurnInv)'
<1>1. \A e \in Daemons : e # d => turn'[e].step = "idle"
  OBVIOUS
<1>2. ASSUME NEW e \in Daemons, e # d PROVE (MemoryInv(turn[e]) /\ MessageInv(turn[e]))'
  <2>1. turn'[e].step = "idle"
    BY <1>1, <1>2
  <2>2. QED
    BY <2>1 DEF MemoryInv, MessageInv, WithSnapshot, Committing, BeforeSend
<1>3. TurnInv'
  BY <1>2 DEF TurnInv
<1>4. Serial'
  BY <1>1 DEF Serial
<1>5. QED
  BY <1>3, <1>4

\* Begin keeps the invariant.
LEMMA BeginInv ==
  ASSUME IInv, Overlap = FALSE, NEW d \in Daemons, BeginTurn(d)
  PROVE  (Serial /\ TurnInv /\ FilesInv)'
<1>1. \A e \in Daemons : turn[e].step = "idle"
  BY DEF BeginTurn
<1>2. PICK claim \in (MayClaim[d] \X Results) \cup {NoClaim} :
        Go(d, [Idle EXCEPT !.claim = claim],
           IF d \in reconciled THEN "load" ELSE "recover")
  BY DEF BeginTurn
<1>3. claim \in Claims \cup {NoClaim}
  BY MayClaimAssumption DEF Claims
<1>4. IsTurn([Idle EXCEPT !.claim = claim])
  BY <1>3, IdleWithClaim
<1>5. /\ \A e \in Daemons : e # d => turn'[e] = turn[e]
      /\ turn'[d].step \in {"load", "recover"}
      /\ turn'[d].mid = 0
  <2> DEFINE s == IF d \in reconciled THEN "load" ELSE "recover"
  <2>1. s \in Steps /\ s \in {"load", "recover"}
    BY DEF Steps
  <2> DEFINE now == [Idle EXCEPT !.claim = claim]
  <2>2. TypeOK /\ Go(d, now, s) /\ IsTurn(now) /\ now.mid = 0
    BY <1>2, <1>4 DEF IInv, Idle
  <2> HIDE DEF s, now
  <2>3. QED
    BY <2>1, <2>2, GoType
<1>6. (MemoryInv(turn[d]) /\ MessageInv(turn[d]))'
  BY <1>5 DEF MemoryInv, MessageInv, WithSnapshot, Committing, BeforeSend
<1>7. (Serial /\ TurnInv)'
  BY <1>1, <1>5, <1>6, OnlyOneTurn DEF IInv
<1>8. QED
  BY <1>7, FilesSame DEF IInv, BeginTurn

\* Crash keeps the invariant.
LEMMA CrashInv ==
  ASSUME IInv, NEW d \in Daemons, Crash(d)
  PROVE  (Serial /\ TurnInv /\ FilesInv)'
<1>1. /\ \A e \in Daemons : e # d => turn'[e] = turn[e]
      /\ turn'[d] = Idle
  BY FinishType DEF IInv, Crash
<1>2. turn'[d].step = "idle"
  BY <1>1 DEF Idle
<1>3. UNCHANGED <<assignment, ledger, activations>>
  BY DEF Crash
<1>4. ASSUME NEW e \in Daemons PROVE (MemoryInv(turn[e]) /\ MessageInv(turn[e]))'
  <2>1. CASE e = d
    BY <1>2, <2>1 DEF MemoryInv, MessageInv, WithSnapshot, Committing, BeforeSend
  <2>2. CASE e # d
    <3>1. MemoryInv(turn[e]) /\ MessageInv(turn[e])
      BY DEF IInv, TurnInv
    <3>2. QED
      BY <3>1, <1>1, <1>3, <2>2 DEF MemoryInv, MessageInv, NothingSent, Current
  <2>3. QED
    BY <2>1, <2>2
<1>5. (Serial /\ TurnInv)'
  BY <1>1, <1>2, <1>4 DEF IInv, Serial, TurnInv
<1>6. QED
  BY <1>5, <1>3, FilesSame DEF IInv

\* A step of a turn under way: what it leaves to prove about d alone.
LEMMA TurnUnderWay ==
  ASSUME IInv, NEW d \in Daemons, turn[d].step # "idle",
         \A e \in Daemons : e # d => turn'[e] = turn[e],
         (MemoryInv(turn[d]) /\ MessageInv(turn[d]))'
  PROVE  (Serial /\ TurnInv)'
BY OnlyOneTurn DEF IInv, Serial

\* Finish keeps the invariant.
LEMMA FinishInv ==
  ASSUME IInv, NEW d \in Daemons, turn[d].step # "idle", Finish(d)
  PROVE  (Serial /\ TurnInv)'
<1>1. /\ \A e \in Daemons : e # d => turn'[e] = turn[e]
      /\ turn'[d].step = "idle"
  BY FinishType DEF IInv, Idle
<1>2. (MemoryInv(turn[d]) /\ MessageInv(turn[d]))'
  BY <1>1 DEF MemoryInv, MessageInv, WithSnapshot, Committing, BeforeSend
<1>3. QED
  BY <1>1, <1>2, TurnUnderWay

\* One step of the turn under way, as its effect on d's memory.
LEMMA StepOf ==
  ASSUME IInv, NEW d \in Daemons, turn[d].step # "idle",
         NEW now, IsTurn(now), NEW s \in Steps, Go(d, now, s)
  PROVE  /\ turn'[d].step = s
         /\ turn'[d].claim = now.claim /\ turn'[d].asg = now.asg
         /\ turn'[d].led = now.led /\ turn'[d].next = now.next /\ turn'[d].mid = now.mid
         /\ (MemoryInv(turn[d]) /\ MessageInv(turn[d]))' => (Serial /\ TurnInv)'
BY GoType, TurnUnderWay DEF IInv

\* What the invariant says of a turn that holds the project.
LEMMA MemoryFacts ==
  ASSUME IInv, NEW d \in Daemons
  PROVE  /\ IsTurn(turn[d]) /\ IsLedger(turn[d].led) /\ turn[d].asg \in Assignments
         /\ turn[d].mid \in Nat /\ turn[d].claim \in Claims \cup {NoClaim}
         /\ turn[d].next \in Stages
         /\ MemoryInv(turn[d]) /\ MessageInv(turn[d])
         /\ assignment \in Assignments /\ IsLedger(ledger)
         /\ activations \in Seq([rev : Nat, stage : Stages])
         /\ Current \in TransitionIds /\ Rev(Current) = assignment.rev
BY CurrentType DEF IInv, TypeOK, IsTurn, TurnInv, Current

\* The other fields stay when one changes.
LEMMA Fields ==
  ASSUME NEW t, IsTurn(t), NEW x
  PROVE  /\ [t EXCEPT !.led = x].led = x /\ [t EXCEPT !.led = x].asg = t.asg
         /\ [t EXCEPT !.led = x].claim = t.claim /\ [t EXCEPT !.led = x].next = t.next
         /\ [t EXCEPT !.led = x].mid = t.mid
         /\ [t EXCEPT !.asg = x].asg = x /\ [t EXCEPT !.asg = x].mid = t.mid
         /\ [t EXCEPT !.asg = x].claim = t.claim
         /\ [t EXCEPT !.next = x].next = x /\ [t EXCEPT !.next = x].asg = t.asg
         /\ [t EXCEPT !.next = x].claim = t.claim /\ [t EXCEPT !.next = x].mid = t.mid
         /\ [t EXCEPT !.mid = x].mid = x /\ [t EXCEPT !.mid = x].asg = t.asg
         /\ [t EXCEPT !.mid = x].claim = t.claim /\ [t EXCEPT !.mid = x].next = t.next
         /\ [t EXCEPT !.mid = x].led = t.led
BY DEF IsTurn

\* RecoverLoad keeps the invariant.
LEMMA RecoverLoadInv ==
  ASSUME IInv, NEW d \in Daemons, RecoverLoad(d)
  PROVE  (Serial /\ TurnInv /\ FilesInv)'
<1>1. CASE Finish(d)
  BY <1>1, FinishInv, FilesSame DEF IInv, RecoverLoad
<1>2. CASE Go(d, [turn[d] EXCEPT !.led = ledger], "classify")
  <2> DEFINE now == [turn[d] EXCEPT !.led = ledger]
  <2>1. IsTurn(now) /\ "classify" \in Steps
    BY MemoryFacts, TurnFields DEF Steps
  <2>a. turn[d].mid = 0
    <3>1. turn[d].step = "recover"
      BY DEF RecoverLoad
    <3>2. QED
      BY <3>1, MemoryFacts DEF MessageInv, BeforeSend
  <2>2. now.led = ledger /\ now.mid = 0
    BY <2>a, MemoryFacts, Fields
  <2>3. Go(d, now, "classify") /\ turn[d].step # "idle"
    BY <1>2 DEF RecoverLoad
  <2> HIDE DEF now
  <2>4. /\ turn'[d].step = "classify" /\ turn'[d].led = ledger /\ turn'[d].mid = 0
        /\ (MemoryInv(turn[d]) /\ MessageInv(turn[d]))' => (Serial /\ TurnInv)'
    BY <2>1, <2>2, <2>3, StepOf
  <2>5. (MemoryInv(turn[d]) /\ MessageInv(turn[d]))'
    BY <2>4 DEF RecoverLoad, MemoryInv, MessageInv, WithSnapshot, Committing, BeforeSend
  <2>6. QED
    BY <2>4, <2>5, FilesSame DEF IInv, RecoverLoad
<1>3. QED
  BY <1>1, <1>2 DEF RecoverLoad

\* RecoverClassify keeps the invariant.
LEMMA RecoverClassifyInv ==
  ASSUME IInv, NEW d \in Daemons, RecoverClassify(d)
  PROVE  (Serial /\ TurnInv /\ FilesInv)'
<1>a. PICK asg \in {assignment, NewAssignment} :
        Go(d, [turn[d] EXCEPT !.led = Reconcile(@, asg)], "recoverSave")
  BY DEF RecoverClassify
<1>b. asg \in Assignments
  BY MemoryFacts, IdleType DEF IsTurn, Idle
<1> DEFINE now == [turn[d] EXCEPT !.led = Reconcile(@, asg)]
<1>1. /\ IsTurn(now) /\ now.led = Reconcile(turn[d].led, asg) /\ now.mid = 0
      /\ "recoverSave" \in Steps /\ Go(d, now, "recoverSave")
  <2>1. IsTurn(now) /\ "recoverSave" \in Steps
    BY <1>b, MemoryFacts, TurnFields, ReconcileType DEF Steps
  <2>a. turn[d].mid = 0
    <3>1. turn[d].step = "classify"
      BY DEF RecoverClassify
    <3>2. QED
      BY <3>1, MemoryFacts DEF MessageInv, BeforeSend
  <2>2. now.led = Reconcile(turn[d].led, asg) /\ now.mid = 0
    BY <2>a, MemoryFacts, Fields
  <2>3. QED
    BY <1>a, <2>1, <2>2
<1> HIDE DEF now
<1>2. turn[d].led = ledger
  BY MemoryFacts DEF MemoryInv, RecoverClassify
<1>3. /\ turn'[d].step = "recoverSave" /\ turn'[d].led = Reconcile(ledger, asg)
      /\ turn'[d].mid = 0
      /\ (MemoryInv(turn[d]) /\ MessageInv(turn[d]))' => (Serial /\ TurnInv)'
  BY <1>1, <1>2, StepOf DEF RecoverClassify
<1>4. UNCHANGED <<assignment, ledger>>
  BY DEF RecoverClassify
<1>5. \E x \in {assignment', NewAssignment} : turn'[d].led = Reconcile(ledger', x)
  BY <1>3, <1>4
<1>6. (MemoryInv(turn[d]) /\ MessageInv(turn[d]))'
  BY <1>3, <1>5 DEF MemoryInv, MessageInv, WithSnapshot, Committing, BeforeSend
<1>7. QED
  BY <1>3, <1>6, FilesSame DEF IInv, RecoverClassify

\* A file that cannot be read proves nothing.
LEMMA NewProvesNothing ==
  ASSUME NEW t \in TransitionIds
  PROVE  ~Advanced(t, NewAssignment)
BY DEF Advanced, NewAssignment, Rev, TransitionIds

\* Recovery writes back a ledger that still holds the row of every message that
\* may be out, and whose new DELIVERED row the assignment vouches for.
LEMMA RecoverSaveInv ==
  ASSUME IInv, NEW d \in Daemons, RecoverSave(d)
  PROVE  (Serial /\ TurnInv /\ FilesInv)'
<1> DEFINE now == [Idle EXCEPT !.claim = turn[d].claim]
<1>1. IsTurn(now) /\ "load" \in Steps /\ Go(d, now, "load") /\ now.mid = 0
  <2>1. IsTurn(now)
    BY MemoryFacts, IdleWithClaim
  <2>2. QED
    BY <2>1 DEF RecoverSave, Steps, Idle
<1> HIDE DEF now
<1>2. /\ turn'[d].step = "load" /\ turn'[d].mid = 0
      /\ (MemoryInv(turn[d]) /\ MessageInv(turn[d]))' => (Serial /\ TurnInv)'
  BY <1>1, StepOf DEF RecoverSave
<1>3. (MemoryInv(turn[d]) /\ MessageInv(turn[d]))'
  BY <1>2 DEF MemoryInv, MessageInv, WithSnapshot, Committing, BeforeSend
<1>4. UNCHANGED <<assignment, activations>>
  BY DEF RecoverSave
<1>5. CASE UNCHANGED ledger
  BY <1>2, <1>3, <1>4, <1>5, FilesSame DEF IInv
<1>6. CASE ledger' = turn[d].led
  <2>a. PICK asg \in {assignment, NewAssignment} : turn[d].led = Reconcile(ledger, asg)
    BY MemoryFacts DEF MemoryInv, RecoverSave
  <2>b. asg \in Assignments
    BY MemoryFacts, IdleType DEF IsTurn, Idle
  <2>c. \A t \in TransitionIds : Advanced(t, asg) => asg = assignment
    BY NewProvesNothing
  <2> DEFINE r == Reconcile(ledger, asg)
  <2>1. ledger' = r
    BY <1>6, <2>a
  <2>2. /\ IsLedger(r) /\ DOMAIN r \subseteq DOMAIN ledger
        /\ \A t \in DOMAIN r :
             \/ r[t] = ledger[t] /\ ledger[t].status # "RESERVED"
             \/ /\ ledger[t].status = "PENDING" /\ Advanced(t, assignment)
                /\ r[t] = [status |-> "DELIVERED", mid |-> assignment.mid]
        /\ \A t \in DOMAIN ledger :
             ledger[t].status \in {"PENDING", "FAILED"} /\ ~Advanced(t, assignment) =>
               t \in DOMAIN r /\ r[t] = ledger[t]
    <3>1. /\ IsLedger(r) /\ DOMAIN r \subseteq DOMAIN ledger
          /\ \A t \in DOMAIN r :
               \/ r[t] = ledger[t] /\ ledger[t].status # "RESERVED"
               \/ /\ ledger[t].status = "PENDING" /\ Advanced(t, asg)
                  /\ r[t] = [status |-> "DELIVERED", mid |-> asg.mid]
          /\ \A t \in DOMAIN ledger :
               ledger[t].status \in {"PENDING", "FAILED"} /\ ~Advanced(t, asg) =>
                 t \in DOMAIN r /\ r[t] = ledger[t]
      BY <2>b, MemoryFacts, ReconcileType
    <3> HIDE DEF r
    <3>2. DOMAIN ledger \subseteq TransitionIds
      BY MemoryFacts DEF IsLedger
    <3>3. QED
      BY <2>c, <3>1, <3>2
  <2> HIDE DEF r
  <2>3. ~Advanced(Current, assignment) /\ Current' = Current
    BY <1>4, MemoryFacts DEF Advanced, Assignments, Current
  <2>4. StatusOf(ledger, Current) \in {"PENDING", "FAILED"} =>
          StatusOf(ledger', Current) \in {"PENDING", "FAILED"}
    BY <2>1, <2>2, <2>3 DEF StatusOf
  <2>5. SentIsOnRecord'
    BY <1>4, <2>3, <2>4 DEF IInv, FilesInv, SentIsOnRecord, Current
  <2>6. DeliveredIsCommitted'
    <3> SUFFICES ASSUME NEW t \in DOMAIN r, r[t].status = "DELIVERED"
                 PROVE  /\ Rev(t) < assignment.rev
                        /\ r[t].mid # 0 => /\ r[t].mid \in DOMAIN activations
                                           /\ activations[r[t].mid].rev = Rev(t) + 1
      BY <1>4, <2>1 DEF DeliveredIsCommitted, DeliveredRows
    <3>1. CASE r[t] = ledger[t]
      BY <3>1, <2>2 DEF IInv, FilesInv, DeliveredIsCommitted, DeliveredRows
    <3>2. CASE Advanced(t, assignment) /\ r[t] = [status |-> "DELIVERED", mid |-> assignment.mid]
      <4>1. assignment.rev = Rev(t) + 1 /\ Rev(t) \in Nat /\ assignment.rev \in Nat
        BY <3>2, <2>2, MemoryFacts DEF Advanced, Rev, IsLedger, TransitionIds, Assignments
      <4>2. QED
        BY <3>2, <4>1 DEF IInv, FilesInv, StageWasAnnounced
    <3>3. QED
      BY <3>1, <3>2, <2>2
  <2>7. FailedNeverAdvances' /\ RowsInv'
    BY <1>4, <2>1, <2>2, <2>3 DEF IInv, FilesInv, FailedNeverAdvances, RowsInv
  <2>8. QED
    BY <1>2, <1>3, <1>4, <2>5, <2>6, <2>7, LedgerChange DEF IInv
<1>7. QED
  BY <1>5, <1>6 DEF RecoverSave

\* LoadAssignment keeps the invariant.
LEMMA LoadAssignmentInv ==
  ASSUME IInv, NEW d \in Daemons, LoadAssignment(d)
  PROVE  (Serial /\ TurnInv /\ FilesInv)'
<1>1. CASE Finish(d)
  BY <1>1, FinishInv, FilesSame DEF IInv, LoadAssignment
<1>2. CASE Go(d, [turn[d] EXCEPT !.asg = assignment], "validate")
  <2> DEFINE now == [turn[d] EXCEPT !.asg = assignment]
  <2>1. IsTurn(now) /\ "validate" \in Steps
    BY MemoryFacts, TurnFields DEF Steps
  <2>a. turn[d].mid = 0
    <3>1. turn[d].step = "load"
      BY DEF LoadAssignment
    <3>2. QED
      BY <3>1, MemoryFacts DEF MessageInv, BeforeSend
  <2>2. now.asg = assignment /\ now.mid = 0
    BY <2>a, MemoryFacts, Fields
  <2>3. Go(d, now, "validate") /\ turn[d].step # "idle"
    BY <1>2 DEF LoadAssignment
  <2> HIDE DEF now
  <2>4. /\ turn'[d].step = "validate" /\ turn'[d].asg = assignment /\ turn'[d].mid = 0
        /\ (MemoryInv(turn[d]) /\ MessageInv(turn[d]))' => (Serial /\ TurnInv)'
    BY <2>1, <2>2, <2>3, StepOf
  <2>5. (MemoryInv(turn[d]) /\ MessageInv(turn[d]))'
    BY <2>4 DEF LoadAssignment, MemoryInv, MessageInv, WithSnapshot, Committing, BeforeSend
  <2>6. QED
    BY <2>4, <2>5, FilesSame DEF IInv, LoadAssignment
<1>3. QED
  BY <1>1, <1>2 DEF LoadAssignment

\* Validate keeps the invariant.
LEMMA ValidateInv ==
  ASSUME IInv, NEW d \in Daemons, Validate(d)
  PROVE  (Serial /\ TurnInv /\ FilesInv)'
<1>1. CASE Finish(d)
  BY <1>1, FinishInv, FilesSame DEF IInv, Validate
<1>2. CASE ~Finish(d)
  <2>1. PICK next \in Stages :
          /\ turn[d].claim[1] = ExpectedRole(turn[d].asg.state)
          /\ Legal(turn[d].asg.state, turn[d].claim[1], turn[d].claim[2], next)
          /\ Go(d, [turn[d] EXCEPT !.next = EffectiveNext(next, turn[d].asg.loops)],
                "reserve")
    BY <1>2 DEF Validate
  <2> DEFINE n == EffectiveNext(next, turn[d].asg.loops)
             now == [turn[d] EXCEPT !.next = n]
  <2>2. IsTurn(now) /\ "reserve" \in Steps
    BY MemoryFacts, TurnFields, EffectiveNextType DEF Steps
  <2>a. turn[d].mid = 0
    <3>1. turn[d].step = "validate"
      BY DEF Validate
    <3>2. QED
      BY <3>1, MemoryFacts DEF MessageInv, BeforeSend
  <2>3. /\ now.next = n /\ now.asg = turn[d].asg /\ now.claim = turn[d].claim
        /\ now.mid = 0
    BY <2>a, MemoryFacts, Fields
  <2>4. turn[d].step # "idle" /\ Go(d, now, "reserve") /\ turn[d].asg = assignment
    BY <2>1, MemoryFacts DEF Validate, MemoryInv, WithSnapshot
  <2>5. UNCHANGED <<assignment, ledger, activations>>
    BY DEF Validate
  <2> HIDE DEF now
  <2>6. /\ turn'[d].step = "reserve" /\ turn'[d].asg = turn[d].asg
        /\ turn'[d].claim = turn[d].claim /\ turn'[d].next = n /\ turn'[d].mid = 0
        /\ (MemoryInv(turn[d]) /\ MessageInv(turn[d]))' => (Serial /\ TurnInv)'
    BY <2>2, <2>3, <2>4, StepOf
  <2>7. Chosen(turn[d])'
    BY <2>1, <2>6 DEF Chosen
  <2>8. (MemoryInv(turn[d]) /\ MessageInv(turn[d]))'
    BY <2>4, <2>5, <2>6, <2>7 DEF MemoryInv, MessageInv, WithSnapshot, Committing, BeforeSend
  <2>9. QED
    BY <2>5, <2>6, <2>8, FilesSame DEF IInv
<1>3. QED
  BY <1>1, <1>2

\* ReserveRow keeps the invariant.
LEMMA ReserveRowInv ==
  ASSUME IInv, NEW d \in Daemons, ReserveRow(d)
  PROVE  (Serial /\ TurnInv /\ FilesInv)'
<1>1. turn[d].asg = assignment /\ Chosen(turn[d]) /\ turn[d].step = "reserve"
  BY MemoryFacts DEF ReserveRow, MemoryInv, WithSnapshot
<1>2. CASE Finish(d)
  BY <1>1, <1>2, FinishInv, FilesSame DEF IInv, ReserveRow
<1>3. CASE ~Finish(d)
  <2> DEFINE l == Reserve(ledger, Current)
             now == [turn[d] EXCEPT !.led = l]
  <2>1. Go(d, now, "saveReserved") /\ StatusOf(l, Current) = "RESERVED"
    BY <1>1, <1>3 DEF ReserveRow, Current
  <2>2. IsTurn(now) /\ "saveReserved" \in Steps
    BY MemoryFacts, TurnFields, ReserveType DEF Steps
  <2>3. /\ now.led = l /\ now.asg = turn[d].asg /\ now.claim = turn[d].claim
        /\ now.next = turn[d].next /\ now.mid = turn[d].mid
    BY MemoryFacts, Fields
  <2>4. UNCHANGED <<assignment, ledger, activations>>
    BY DEF ReserveRow
  <2>5. StatusOf(ledger, Current) \notin {"PENDING", "FAILED"}
    BY <2>1, MemoryFacts, ReserveType DEF StatusOf
  <2>6. NothingSent
    BY <2>5 DEF IInv, FilesInv, SentIsOnRecord, NothingSent, Current
  <2> HIDE DEF now
  <2>7. /\ turn'[d].step = "saveReserved" /\ turn'[d].asg = turn[d].asg
        /\ turn'[d].claim = turn[d].claim /\ turn'[d].next = turn[d].next
        /\ turn'[d].led = l /\ turn'[d].mid = turn[d].mid
        /\ (MemoryInv(turn[d]) /\ MessageInv(turn[d]))' => (Serial /\ TurnInv)'
    BY <1>1, <2>1, <2>2, <2>3, StepOf
  <2>8. Chosen(turn[d])' /\ NothingSent' /\ Current' = Current /\ l' = l
    BY <1>1, <2>4, <2>6, <2>7 DEF Chosen, NothingSent, Current
  <2>9. turn[d].mid = 0
    BY <1>1, MemoryFacts DEF MessageInv, BeforeSend
  <2>10. (MemoryInv(turn[d]) /\ MessageInv(turn[d]))'
    BY <1>1, <2>1, <2>4, <2>7, <2>8, <2>9 DEF MemoryInv, MessageInv, WithSnapshot, Committing, BeforeSend
  <2>11. QED
    BY <2>4, <2>7, <2>10, FilesSame DEF IInv
<1>4. QED
  BY <1>2, <1>3

\* What a turn that is committing shares with the files.
LEMMA CommitFacts ==
  ASSUME IInv, NEW d \in Daemons,
         turn[d].step \in {"saveReserved", "savePending", "send", "saveAssignment"}
  PROVE  /\ turn[d].asg = assignment /\ LedgerTransition(turn[d].asg) = Current
         /\ Chosen(turn[d]) /\ turn[d].step # "idle"
         /\ IsLedger(turn[d].led) /\ IsLedger(ledger) /\ Current \in TransitionIds
BY MemoryFacts DEF MemoryInv, WithSnapshot, Committing, Current

\* A failed step leaves a turn that is about to write its row as FAILED.
LEMMA ToSaveFailed ==
  ASSUME IInv, NEW d \in Daemons,
         turn[d].step \in {"saveReserved", "savePending", "send"},
         UNCHANGED <<assignment, ledger>>,
         Go(d, [turn[d] EXCEPT !.led = MarkFailed(@, LedgerTransition(turn[d].asg))],
            "saveFailed"),
         DOMAIN ledger \subseteq DOMAIN turn[d].led,
         DOMAIN turn[d].led \subseteq DOMAIN ledger \cup {Current},
         \A x \in DOMAIN ledger : x # Current => turn[d].led[x] = ledger[x],
         StatusOf(turn[d].led, Current) \in {"RESERVED", "PENDING"}
  PROVE  (Serial /\ TurnInv)'
<1> DEFINE l == MarkFailed(turn[d].led, Current)
           now == [turn[d] EXCEPT !.led = l]
<1>1. /\ turn[d].asg = assignment /\ LedgerTransition(turn[d].asg) = Current
      /\ Chosen(turn[d]) /\ turn[d].step # "idle"
      /\ IsLedger(turn[d].led) /\ IsLedger(ledger) /\ Current \in TransitionIds
  BY CommitFacts
<1>2. Current \in DOMAIN turn[d].led
  BY DEF StatusOf
<1>3. l = WithStatus(turn[d].led, Current, "FAILED")
  BY DEF MarkFailed
<1>4. /\ IsLedger(l) /\ DOMAIN l = DOMAIN turn[d].led
      /\ l[Current].status = "FAILED"
      /\ \A x \in DOMAIN turn[d].led : x # Current => l[x] = turn[d].led[x]
  <2> DEFINE m == turn[d].led
             w == WithStatus(m, Current, "FAILED")
  <2>1. IsLedger(m) /\ Current \in DOMAIN m /\ "FAILED" \in Statuses /\ l = w
    BY <1>1, <1>2, <1>3 DEF Statuses
  <2> HIDE DEF m, l
  <2>2. /\ IsLedger(w) /\ DOMAIN w = DOMAIN m
        /\ w[Current].status = "FAILED"
        /\ \A x \in DOMAIN m : x # Current => w[x] = m[x]
    BY <2>1, WithStatusType
  <2> HIDE DEF w
  <2>3. QED
    BY <2>1, <2>2 DEF m
<1> HIDE DEF l
<1>5. /\ DOMAIN ledger \subseteq DOMAIN l
      /\ DOMAIN l \subseteq DOMAIN ledger \cup {Current}
      /\ \A x \in DOMAIN ledger : x # Current => l[x] = ledger[x]
      /\ StatusOf(l, Current) = "FAILED"
  BY <1>2, <1>4 DEF StatusOf
<1>6. IsTurn(now) /\ "saveFailed" \in Steps
  BY <1>4, MemoryFacts, TurnFields DEF Steps
<1>7. /\ now.led = l /\ now.asg = turn[d].asg /\ now.claim = turn[d].claim
      /\ now.next = turn[d].next
  BY MemoryFacts, Fields
<1>8. Go(d, now, "saveFailed")
  BY <1>1 DEF l
<1> HIDE DEF now
<1>9. /\ turn'[d].step = "saveFailed" /\ turn'[d].asg = turn[d].asg
      /\ turn'[d].claim = turn[d].claim /\ turn'[d].next = turn[d].next
      /\ turn'[d].led = l
      /\ (MemoryInv(turn[d]) /\ MessageInv(turn[d]))' => (Serial /\ TurnInv)'
  BY <1>1, <1>6, <1>7, <1>8, StepOf
<1>10. Chosen(turn[d])' /\ Current' = Current
  BY <1>1, <1>9 DEF Chosen, Current
<1>11. (MemoryInv(turn[d]) /\ MessageInv(turn[d]))'
  BY <1>1, <1>5, <1>9, <1>10 DEF MemoryInv, MessageInv, WithSnapshot, Committing, BeforeSend
<1>12. QED
  BY <1>9, <1>11

\* Reserving the row of the present revision, or making it PENDING, before any
\* message is sent.
LEMMA SaveRowInv ==
  ASSUME IInv, NothingSent, UNCHANGED <<assignment, activations>>,
         Current \in TransitionIds, IsLedger(ledger),
         DOMAIN ledger' = DOMAIN ledger \cup {Current},
         \A x \in DOMAIN ledger : x # Current => ledger'[x] = ledger[x],
         StatusOf(ledger', Current) \in {"RESERVED", "PENDING"}
  PROVE  FilesInv'
<1>1. Current' = Current /\ Rev(Current) = assignment.rev /\ assignment.rev \in Nat
  BY CurrentType DEF IInv, TypeOK, Current, Assignments
<1>2. SentIsOnRecord'
  BY DEF NothingSent, SentIsOnRecord
<1>3. \A t \in DOMAIN ledger' : t # Current => t \in DOMAIN ledger /\ ledger'[t] = ledger[t]
  OBVIOUS
<1>4. ledger'[Current].status \in {"RESERVED", "PENDING"}
  BY DEF StatusOf
<1>5. DeliveredIsCommitted'
  BY <1>3, <1>4 DEF IInv, FilesInv, DeliveredIsCommitted, DeliveredRows
<1>6. FailedNeverAdvances' /\ RowsInv'
  BY <1>1, <1>3, <1>4 DEF IInv, FilesInv, FailedNeverAdvances, RowsInv
<1>7. QED
  BY <1>2, <1>5, <1>6, LedgerChange DEF IInv

\* SaveReserved keeps the invariant.
LEMMA SaveReservedInv ==
  ASSUME IInv, NEW d \in Daemons, SaveReserved(d)
  PROVE  (Serial /\ TurnInv /\ FilesInv)'
<1>0. turn[d].step = "saveReserved"
  BY DEF SaveReserved
<1>1. /\ turn[d].asg = assignment /\ LedgerTransition(turn[d].asg) = Current
      /\ Chosen(turn[d]) /\ turn[d].step # "idle"
      /\ IsLedger(turn[d].led) /\ IsLedger(ledger) /\ Current \in TransitionIds
  BY <1>0, CommitFacts
<1>2. turn[d].led = Reserve(ledger, Current) /\ StatusOf(turn[d].led, Current) = "RESERVED"
  BY <1>0, MemoryFacts DEF MemoryInv
<1>3. /\ DOMAIN turn[d].led = DOMAIN ledger \cup {Current}
      /\ \A x \in DOMAIN ledger : turn[d].led[x] = ledger[x]
  <2> DEFINE r == Reserve(ledger, Current)
  <2>1. /\ DOMAIN r = DOMAIN ledger \cup {Current}
        /\ \A x \in DOMAIN ledger : r[x] = ledger[x]
    BY <1>1, ReserveType
  <2>2. turn[d].led = r
    BY <1>2
  <2> HIDE DEF r
  <2>3. QED
    BY <2>1, <2>2
<1>4. NothingSent /\ turn[d].mid = 0
  BY <1>0, MemoryFacts DEF MessageInv, BeforeSend
<1>5. UNCHANGED <<assignment, activations>>
  BY DEF SaveReserved
<1> DEFINE l == MarkPending(turn[d].led, Current)
           now == [turn[d] EXCEPT !.led = l]
<1>6. CASE ledger' = turn[d].led /\ Go(d, now, "savePending")
  <2>1. l = WithStatus(turn[d].led, Current, "PENDING")
    BY DEF MarkPending
  <2>2. IsLedger(l)
    BY <1>1, <2>1, LedgerOperatorsType
  <2>3. l = MarkPending(ledger', Current)
    BY <1>6
  <2>4. Current' = Current
    BY <1>5 DEF Current
  <2> HIDE DEF l
  <2>5. IsTurn(now) /\ "savePending" \in Steps
    BY <2>2, MemoryFacts, TurnFields DEF Steps
  <2>6. /\ now.led = l /\ now.asg = turn[d].asg /\ now.claim = turn[d].claim
        /\ now.next = turn[d].next /\ now.mid = turn[d].mid
    BY MemoryFacts, Fields
  <2> HIDE DEF now
  <2>7. /\ turn'[d].step = "savePending" /\ turn'[d].asg = turn[d].asg
        /\ turn'[d].claim = turn[d].claim /\ turn'[d].next = turn[d].next
        /\ turn'[d].led = l /\ turn'[d].mid = turn[d].mid
        /\ (MemoryInv(turn[d]) /\ MessageInv(turn[d]))' => (Serial /\ TurnInv)'
    BY <1>1, <1>6, <2>5, <2>6, StepOf
  <2>8. Chosen(turn[d])' /\ NothingSent'
    BY <1>1, <1>4, <1>5, <2>7 DEF Chosen, NothingSent
  <2>9. StatusOf(ledger', Current) = "RESERVED"
    BY <1>2, <1>6
  <2>10. (MemoryInv(turn[d]) /\ MessageInv(turn[d]))'
    BY <1>1, <1>4, <1>5, <2>3, <2>4, <2>7, <2>8, <2>9
    DEF MemoryInv, MessageInv, WithSnapshot, Committing, BeforeSend
  <2>11. FilesInv'
    BY <1>1, <1>3, <1>4, <1>5, <1>6, <2>9, SaveRowInv
  <2>12. QED
    BY <2>7, <2>10, <2>11
<1>7. CASE /\ UNCHANGED ledger
           /\ Go(d, [turn[d] EXCEPT !.led = MarkFailed(@, LedgerTransition(turn[d].asg))],
                 "saveFailed")
  <2>1. FilesInv'
    BY <1>5, <1>7, FilesSame DEF IInv
  <2>2. QED
    BY <1>0, <1>2, <1>3, <1>5, <1>7, <2>1, ToSaveFailed
<1>8. QED
  BY <1>1, <1>6, <1>7 DEF SaveReserved, SaveLedger

\* SavePending keeps the invariant.
LEMMA SavePendingInv ==
  ASSUME IInv, NEW d \in Daemons, SavePending(d)
  PROVE  (Serial /\ TurnInv /\ FilesInv)'
<1>0. turn[d].step = "savePending"
  BY DEF SavePending
<1>1. /\ turn[d].asg = assignment /\ LedgerTransition(turn[d].asg) = Current
      /\ Chosen(turn[d]) /\ turn[d].step # "idle"
      /\ IsLedger(turn[d].led) /\ IsLedger(ledger) /\ Current \in TransitionIds
  BY <1>0, CommitFacts
<1>2. turn[d].led = MarkPending(ledger, Current) /\ StatusOf(ledger, Current) = "RESERVED"
  BY <1>0, MemoryFacts DEF MemoryInv
<1>3. /\ DOMAIN turn[d].led = DOMAIN ledger /\ Current \in DOMAIN ledger
      /\ \A x \in DOMAIN ledger : x # Current => turn[d].led[x] = ledger[x]
      /\ StatusOf(turn[d].led, Current) = "PENDING"
  <2>1. Current \in DOMAIN ledger
    BY <1>2 DEF StatusOf
  <2>2. QED
    BY <1>1, <1>2, <2>1, WithStatusType DEF MarkPending, StatusOf, Statuses
<1>4. NothingSent /\ turn[d].mid = 0
  BY <1>0, MemoryFacts DEF MessageInv, BeforeSend
<1>5. UNCHANGED <<assignment, activations>>
  BY DEF SavePending
<1> DEFINE s == IF SendRequired(turn[d].next) THEN "send" ELSE "saveAssignment"
<1>6. CASE ledger' = turn[d].led /\ Go(d, turn[d], s)
  <2>1. /\ s \in {"send", "saveAssignment"} /\ s \in Steps
        /\ s = "send" <=> SendRequired(turn[d].next)
    BY DEF Steps
  <2> HIDE DEF s
  <2>2. IsTurn(turn[d]) /\ Current' = Current
    BY <1>5, MemoryFacts DEF Current
  <2>3. /\ turn'[d].step = s /\ turn'[d].asg = turn[d].asg
        /\ turn'[d].claim = turn[d].claim /\ turn'[d].next = turn[d].next
        /\ turn'[d].led = turn[d].led /\ turn'[d].mid = turn[d].mid
        /\ (MemoryInv(turn[d]) /\ MessageInv(turn[d]))' => (Serial /\ TurnInv)'
    BY <1>1, <1>6, <2>1, <2>2, StepOf
  <2>4. Chosen(turn[d])' /\ NothingSent'
    BY <1>1, <1>4, <1>5, <2>3 DEF Chosen, NothingSent
  <2>5. StatusOf(ledger', Current) = "PENDING"
    BY <1>3, <1>6
  <2>6. (MemoryInv(turn[d]) /\ MessageInv(turn[d]))'
    BY <1>1, <1>4, <1>5, <1>6, <2>1, <2>2, <2>3, <2>4, <2>5
    DEF MemoryInv, MessageInv, WithSnapshot, Committing, BeforeSend
  <2>7. FilesInv'
    BY <1>1, <1>3, <1>4, <1>5, <1>6, <2>5, SaveRowInv
  <2>8. QED
    BY <2>3, <2>6, <2>7
<1>7. CASE /\ UNCHANGED ledger
           /\ Go(d, [turn[d] EXCEPT !.led = MarkFailed(@, LedgerTransition(turn[d].asg))],
                 "saveFailed")
  <2>1. FilesInv'
    BY <1>5, <1>7, FilesSame DEF IInv
  <2>2. QED
    BY <1>0, <1>3, <1>5, <1>7, <2>1, ToSaveFailed
<1>8. QED
  BY <1>6, <1>7 DEF SavePending, SaveLedger

\* An activation message is well formed.
LEMMA ActivationType ==
  ASSUME IInv, NEW i \in DOMAIN activations
  PROVE  activations[i].rev \in Nat /\ activations[i].stage \in Stages
<1> DEFINE S == [rev : Nat, stage : Stages]
<1>1. activations \in Seq(S)
  BY DEF IInv, TypeOK
<1> HIDE DEF S
<1>2. activations[i] \in S
  BY <1>1
<1>3. QED
  BY <1>2 DEF S

\* What appending does to a sequence.
LEMMA AppendFacts ==
  ASSUME NEW S, NEW s \in Seq(S), NEW e \in S
  PROVE  LET k == Len(s) + 1 IN
         /\ Len(Append(s, e)) = k /\ k \in Nat /\ k # 0
         /\ DOMAIN Append(s, e) = DOMAIN s \cup {k}
         /\ k \notin DOMAIN s /\ 0 \notin DOMAIN s
         /\ Append(s, e)[k] = e
         /\ \A i \in DOMAIN s : Append(s, e)[i] = s[i]
OBVIOUS

\* Posting the first message about the next revision: the row is durably
\* PENDING, and a correction is announced only while none has been counted.
LEMMA PostInv ==
  ASSUME IInv, NothingSent, UNCHANGED <<assignment, ledger>>, NEW n \in Stages,
         activations' = Append(activations, [rev |-> assignment.rev + 1, stage |-> n]),
         n = "PRIMARY_CORRECTION_PENDING" => assignment.loops = 0,
         StatusOf(ledger, Current) = "PENDING"
  PROVE  FilesInv'
<1> DEFINE k == Len(activations) + 1
           m == [rev |-> assignment.rev + 1, stage |-> n]
<1>1. /\ activations \in Seq([rev : Nat, stage : Stages]) /\ assignment.rev \in Nat
      /\ FilesInv
  BY DEF IInv, TypeOK, Assignments
<1>2. m \in [rev : Nat, stage : Stages]
  BY <1>1
<1>3. /\ DOMAIN activations' = DOMAIN activations \cup {k}
      /\ k \notin DOMAIN activations /\ k # 0 /\ 0 \notin DOMAIN activations
      /\ activations'[k] = m
      /\ \A i \in DOMAIN activations : activations'[i] = activations[i]
  BY <1>1, <1>2, AppendFacts
<1>4. m.rev = assignment.rev + 1 /\ m.stage = n
  OBVIOUS
<1>a. \A i \in DOMAIN activations : activations[i].rev \in Nat
  BY ActivationType
<1> HIDE DEF k, m
<1>b. AtMostOneActivation'
  BY <1>1, <1>3, <1>4 DEF FilesInv, AtMostOneActivation, NothingSent
<1>c. ActivationMatchesAssignment'
  BY <1>1, <1>a, <1>3, <1>4 DEF FilesInv, ActivationMatchesAssignment
<1>5. AtMostOneActivation' /\ ActivationMatchesAssignment'
  BY <1>b, <1>c
<1>6. SentIsOnRecord'
  BY DEF SentIsOnRecord, Current
<1>7. DeliveredIsCommitted' /\ StageWasAnnounced'
  BY <1>1, <1>3 DEF FilesInv, DeliveredIsCommitted, DeliveredRows, StageWasAnnounced
<1>8. FailedNeverAdvances' /\ RowsInv' /\ assignment'.loops <= DefectLoopMax
  BY <1>1 DEF FilesInv, FailedNeverAdvances, RowsInv, Current
<1>9. OneCorrectionRound' /\ CorrectionInv'
  BY <1>1, <1>3, <1>4 DEF FilesInv, OneCorrectionRound, CorrectionInv, NothingSent
<1>10. QED
  BY <1>5, <1>6, <1>7, <1>8, <1>9 DEF FilesInv

\* A turn is sent to the correction stage only while the counter is zero, and
\* then on behalf of a reviewing role.
LEMMA ChosenCorrection ==
  ASSUME NEW t, Chosen(t), t.next = "PRIMARY_CORRECTION_PENDING", t.asg.loops \in Nat
  PROVE  t.asg.loops = 0 /\ LoopsAfter(t.next, t.claim[1], t.asg.loops) = 1
<1>1. PICK n \in Stages : /\ Legal(t.asg.state, t.claim[1], t.claim[2], n)
                          /\ t.next = EffectiveNext(n, t.asg.loops)
  BY DEF Chosen
<1>2. n = "PRIMARY_CORRECTION_PENDING" /\ ~(t.asg.loops >= DefectLoopMax)
  BY <1>1 DEF EffectiveNext
<1>3. t.claim[1] \in {"VERIFIER", "FINAL_REVIEWER"}
  BY <1>1, <1>2 DEF Legal, Transitions
<1>4. QED
  BY <1>2, <1>3 DEF DefectLoopMax, LoopsAfter

\* Send keeps the invariant.
LEMMA SendInv ==
  ASSUME IInv, NEW d \in Daemons, Send(d)
  PROVE  (Serial /\ TurnInv /\ FilesInv)'
<1>0. turn[d].step = "send"
  BY DEF Send
<1>1. /\ turn[d].asg = assignment /\ LedgerTransition(turn[d].asg) = Current
      /\ Chosen(turn[d]) /\ turn[d].step # "idle"
      /\ IsLedger(turn[d].led) /\ IsLedger(ledger) /\ Current \in TransitionIds
  BY <1>0, CommitFacts
<1>2. turn[d].led = ledger /\ StatusOf(ledger, Current) = "PENDING" /\ NothingSent
  BY <1>0, MemoryFacts DEF MemoryInv, MessageInv
<1>3. UNCHANGED <<assignment, ledger>> /\ Current' = Current
  BY DEF Send, Current
<1> DEFINE posted == Append(activations, [rev |-> assignment.rev + 1, stage |-> turn[d].next])
<1>4. ASSUME activations' = posted PROVE FilesInv'
  <2>1. turn[d].next = "PRIMARY_CORRECTION_PENDING" => assignment.loops = 0
    BY <1>1, MemoryFacts, ChosenCorrection DEF Assignments
  <2>2. turn[d].next \in Stages
    BY MemoryFacts
  <2>3. QED
    BY <1>2, <1>3, <1>4, <2>1, <2>2, PostInv
<1>5. CASE activations' = posted /\ Go(d, [turn[d] EXCEPT !.mid = Len(posted)], "saveAssignment")
  <2> DEFINE now == [turn[d] EXCEPT !.mid = Len(posted)]
  <2>1. /\ Len(posted) \in Nat \ {0} /\ Len(posted) \in DOMAIN activations'
        /\ activations'[Len(posted)] = [rev |-> assignment.rev + 1, stage |-> turn[d].next]
    <3> DEFINE S == [rev : Nat, stage : Stages]
               m == [rev |-> assignment.rev + 1, stage |-> turn[d].next]
    <3>a. activations \in Seq(S)
      BY MemoryFacts
    <3>b. assignment.rev + 1 \in Nat /\ turn[d].next \in Stages
      BY MemoryFacts DEF Assignments
    <3>1. activations \in Seq(S) /\ m \in S
      BY <3>a, <3>b
    <3>2. activations' = Append(activations, m) /\ posted = Append(activations, m)
      BY <1>5
    <3> HIDE DEF S, m, posted
    <3>3. /\ Len(posted) = Len(activations) + 1 /\ Len(posted) \in Nat /\ Len(posted) # 0
          /\ Len(posted) \in DOMAIN activations' /\ activations'[Len(posted)] = m
      BY <3>1, <3>2, AppendFacts
    <3>4. QED
      BY <3>3 DEF m
  <2> HIDE DEF posted
  <2>2. IsTurn(now) /\ "saveAssignment" \in Steps
    BY <2>1, MemoryFacts, TurnFields DEF Steps
  <2>3. /\ now.led = turn[d].led /\ now.asg = turn[d].asg /\ now.claim = turn[d].claim
        /\ now.next = turn[d].next /\ now.mid = Len(posted)
    BY MemoryFacts, Fields
  <2>4. Go(d, now, "saveAssignment")
    BY <1>5
  <2> HIDE DEF now
  <2>5. /\ turn'[d].step = "saveAssignment" /\ turn'[d].asg = turn[d].asg
        /\ turn'[d].claim = turn[d].claim /\ turn'[d].next = turn[d].next
        /\ turn'[d].led = turn[d].led /\ turn'[d].mid = Len(posted)
        /\ (MemoryInv(turn[d]) /\ MessageInv(turn[d]))' => (Serial /\ TurnInv)'
    BY <1>1, <2>2, <2>3, <2>4, StepOf
  <2>6. Chosen(turn[d])'
    BY <1>1, <2>5 DEF Chosen
  <2>7. (MemoryInv(turn[d]) /\ MessageInv(turn[d]))'
    BY <1>1, <1>2, <1>3, <2>1, <2>5, <2>6
    DEF MemoryInv, MessageInv, WithSnapshot, Committing, BeforeSend
  <2>8. QED
    BY <1>4, <1>5, <2>5, <2>7
<1>6. CASE /\ activations' \in {activations, posted}
           /\ Go(d, [turn[d] EXCEPT !.led = MarkFailed(@, LedgerTransition(turn[d].asg))],
                 "saveFailed")
  <2>1. FilesInv'
    BY <1>3, <1>4, <1>6, FilesSame DEF IInv
  <2>2. QED
    BY <1>0, <1>2, <1>3, <1>6, <2>1, ToSaveFailed
<1>7. QED
  BY <1>1, <1>5, <1>6 DEF Send

\* SaveFailed keeps the invariant.
LEMMA SaveFailedInv ==
  ASSUME IInv, NEW d \in Daemons, SaveFailed(d)
  PROVE  (Serial /\ TurnInv /\ FilesInv)'
<1>0. turn[d].step = "saveFailed" /\ Finish(d) /\ UNCHANGED <<assignment, activations>>
  BY DEF SaveFailed
<1>1. (Serial /\ TurnInv)'
  BY <1>0, FinishInv
<1>2. CASE UNCHANGED ledger
  BY <1>0, <1>1, <1>2, FilesSame DEF IInv
<1>3. CASE ledger' = turn[d].led
  <2>1. /\ DOMAIN ledger' \subseteq DOMAIN ledger \cup {Current}
        /\ \A x \in DOMAIN ledger : x # Current => ledger'[x] = ledger[x]
        /\ StatusOf(ledger', Current) = "FAILED"
    BY <1>0, <1>3, MemoryFacts DEF MemoryInv
  <2>2. Current' = Current /\ Rev(Current) = assignment.rev /\ assignment.rev \in Nat
    BY <1>0, MemoryFacts DEF Current, Assignments
  <2>3. ledger'[Current].status = "FAILED"
    BY <2>1 DEF StatusOf
  <2>4. SentIsOnRecord'
    BY <2>1, <2>2 DEF SentIsOnRecord, Current
  <2>5. DeliveredIsCommitted'
    BY <1>0, <2>1, <2>3 DEF IInv, FilesInv, DeliveredIsCommitted, DeliveredRows
  <2>6. FailedNeverAdvances' /\ RowsInv'
    BY <1>0, <2>1, <2>2, <2>3 DEF IInv, FilesInv, FailedNeverAdvances, RowsInv
  <2>7. QED
    BY <1>0, <1>1, <2>4, <2>5, <2>6, LedgerChange DEF IInv
<1>4. QED
  BY <1>2, <1>3 DEF SaveFailed

\* The commit: the assignment moves to the stage that was announced.
LEMMA SaveAssignmentInv ==
  ASSUME IInv, NEW d \in Daemons, SaveAssignment(d)
  PROVE  (Serial /\ TurnInv /\ FilesInv)'
<1>0. turn[d].step = "saveAssignment" /\ UNCHANGED <<ledger, activations>>
  BY DEF SaveAssignment
<1>1. /\ turn[d].asg = assignment /\ LedgerTransition(turn[d].asg) = Current
      /\ Chosen(turn[d]) /\ turn[d].step # "idle"
      /\ IsLedger(turn[d].led) /\ IsLedger(ledger) /\ Current \in TransitionIds
  BY <1>0, CommitFacts
<1>2. turn[d].led = ledger /\ StatusOf(ledger, Current) = "PENDING"
  BY <1>0, MemoryFacts DEF MemoryInv
<1>3. CASE UNCHANGED assignment /\ Finish(d)
  BY <1>0, <1>1, <1>3, FinishInv, FilesSame DEF IInv
<1> DEFINE new == Updated(turn[d])
           l == MarkDelivered(turn[d].led, Current, turn[d].mid)
           now == [turn[d] EXCEPT !.led = l]
<1>4. CASE new.loops <= DefectLoopMax /\ assignment' = new /\ Go(d, now, "saveDelivered")
  <2>1. IsTurn(now) /\ "saveDelivered" \in Steps /\ IsLedger(l)
    <3>1. IsLedger(l)
      BY <1>1, MemoryFacts, LedgerOperatorsType
    <3> HIDE DEF l
    <3>2. QED
      BY <3>1, MemoryFacts, TurnFields DEF Steps
  <2>2. /\ now.led = l /\ now.asg = turn[d].asg /\ now.claim = turn[d].claim
        /\ now.next = turn[d].next /\ now.mid = turn[d].mid
    BY MemoryFacts, Fields
  <2>3. Go(d, now, "saveDelivered")
    BY <1>4
  <2>4. /\ new.rev = assignment.rev + 1 /\ new.state = turn[d].next /\ new.mid = turn[d].mid
        /\ new.loops = LoopsAfter(turn[d].next, turn[d].claim[1], assignment.loops)
    BY <1>1 DEF Updated
  <2> HIDE DEF now
  <2>5. /\ turn'[d].step = "saveDelivered" /\ turn'[d].asg = turn[d].asg
        /\ turn'[d].claim = turn[d].claim /\ turn'[d].next = turn[d].next
        /\ turn'[d].led = l /\ turn'[d].mid = turn[d].mid
        /\ (MemoryInv(turn[d]) /\ MessageInv(turn[d]))' => (Serial /\ TurnInv)'
    BY <1>1, <2>1, <2>2, <2>3, StepOf
  <2>6. Chosen(turn[d])' /\ Updated(turn'[d]) = new
    BY <1>1, <2>5 DEF Chosen, Updated
  <2>7. l = MarkDelivered(ledger', LedgerTransition(turn'[d].asg), turn'[d].mid)
    BY <1>0, <1>1, <1>2, <2>5
  <2>8. StatusOf(ledger', LedgerTransition(turn'[d].asg)) = "PENDING"
    BY <1>0, <1>1, <1>2, <2>5
  <2> HIDE DEF l, new
  <2>9. (MemoryInv(turn[d]) /\ MessageInv(turn[d]))'
    BY <1>4, <2>5, <2>6, <2>7, <2>8
    DEF MemoryInv, MessageInv, WithSnapshot, Committing, BeforeSend
  <2>10. /\ SendRequired(turn[d].next) => turn[d].mid # 0
         /\ turn[d].mid = 0 => NothingSent
         /\ turn[d].mid # 0 => /\ turn[d].mid \in DOMAIN activations
                               /\ activations[turn[d].mid] =
                                    [rev |-> assignment.rev + 1, stage |-> turn[d].next]
    BY <1>0, MemoryFacts DEF MessageInv
  <2>11. /\ assignment.rev \in Nat /\ assignment.loops \in Nat
         /\ \A i \in DOMAIN activations : activations[i].rev \in Nat
         /\ \A x \in DOMAIN ledger : Rev(x) \in Nat
    <3>1. \A i \in DOMAIN activations : activations[i].rev \in Nat
      BY ActivationType
    <3>2. QED
      BY <3>1, MemoryFacts DEF Assignments, IsLedger, TransitionIds, Rev
  <2>12. \A i \in DOMAIN activations :
           /\ activations[i].rev # assignment.rev + 2
           /\ activations[i].rev = assignment.rev + 1 =>
                i = turn[d].mid /\ activations[i].stage = turn[d].next
    BY <2>10, <2>11 DEF IInv, FilesInv, ActivationMatchesAssignment, AtMostOneActivation,
                        NothingSent
  <2>13. AtMostOneActivation' /\ OneCorrectionRound'
    BY <1>0 DEF IInv, FilesInv, AtMostOneActivation, OneCorrectionRound
  <2>14. ActivationMatchesAssignment' /\ SentIsOnRecord'
    BY <1>0, <1>4, <2>4, <2>11, <2>12
    DEF IInv, FilesInv, ActivationMatchesAssignment, SentIsOnRecord
  <2>15. DeliveredIsCommitted'
    BY <1>0, <1>4, <2>4, <2>11 DEF IInv, FilesInv, DeliveredIsCommitted, DeliveredRows
  <2>16. FailedNeverAdvances'
    <3>1. \A x \in DOMAIN ledger : ledger[x].status # "FAILED"
      BY <1>2 DEF IInv, FilesInv, FailedNeverAdvances, RowsInv, StatusOf
    <3>2. QED
      BY <1>0, <3>1 DEF FailedNeverAdvances
  <2>17. StageWasAnnounced'
    BY <1>0, <1>4, <2>4, <2>10 DEF StageWasAnnounced
  <2>18. CorrectionInv'
    <3> SUFFICES ASSUME NEW i \in DOMAIN activations,
                        activations[i].stage = "PRIMARY_CORRECTION_PENDING"
                 PROVE  new.loops # 0
      BY <1>0, <1>4, <2>4, <2>11, <2>12 DEF CorrectionInv
    <3>1. CASE activations[i].rev = assignment.rev + 1
      BY <1>1, <2>4, <2>11, <2>12, <3>1, ChosenCorrection
    <3>2. CASE activations[i].rev # assignment.rev + 1
      <4>1. assignment.loops # 0
        BY <3>2 DEF IInv, FilesInv, CorrectionInv
      <4>2. QED
        BY <4>1, <2>4, <2>11 DEF LoopsAfter
    <3>3. QED
      BY <3>1, <3>2
  <2>19. RowsInv' /\ assignment'.loops <= DefectLoopMax
    BY <1>0, <1>4, <2>4, <2>11 DEF IInv, FilesInv, RowsInv
  <2>20. QED
    BY <2>5, <2>9, <2>13, <2>14, <2>15, <2>16, <2>17, <2>18, <2>19 DEF FilesInv
<1>5. QED
  BY <1>1, <1>3, <1>4 DEF SaveAssignment

\* SaveDelivered keeps the invariant.
LEMMA SaveDeliveredInv ==
  ASSUME IInv, NEW d \in Daemons, SaveDelivered(d)
  PROVE  (Serial /\ TurnInv /\ FilesInv)'
<1>0. turn[d].step = "saveDelivered" /\ Finish(d) /\ UNCHANGED <<assignment, activations>>
  BY DEF SaveDelivered
<1>1. (Serial /\ TurnInv)'
  BY <1>0, FinishInv
<1>2. CASE UNCHANGED ledger
  BY <1>0, <1>1, <1>2, FilesSame DEF IInv
<1>3. CASE ledger' = turn[d].led
  <2> DEFINE id == LedgerTransition(turn[d].asg)
             l == MarkDelivered(ledger, id, turn[d].mid)
  <2>1. /\ assignment = Updated(turn[d]) /\ StatusOf(ledger, id) = "PENDING"
        /\ ledger' = l
    BY <1>0, <1>3, MemoryFacts DEF MemoryInv
  <2>2. /\ id \in DOMAIN ledger /\ ledger[id].status = "PENDING"
        /\ IsLedger(ledger) /\ turn[d].mid \in Nat
    BY <2>1, MemoryFacts DEF StatusOf
  <2>3. /\ Rev(id) = turn[d].asg.rev /\ assignment.rev = turn[d].asg.rev + 1
        /\ assignment.mid = turn[d].mid /\ turn[d].asg.rev \in Nat
    BY <2>1, MemoryFacts, CurrentType DEF Updated, Assignments
  <2> HIDE DEF id
  <2>4. /\ DOMAIN l \subseteq DOMAIN ledger
        /\ \A x \in DOMAIN l : x # id => l[x] = ledger[x]
        /\ id \in DOMAIN l => l[id] = [status |-> "DELIVERED", mid |-> turn[d].mid]
        /\ \A x \in DOMAIN ledger : x # id /\ ledger[x].status # "DELIVERED" => x \in DOMAIN l
    BY <2>2, MarkDeliveredType
  <2> HIDE DEF l
  <2>5. Current' = Current /\ Current # id
    BY <1>0, <2>3, MemoryFacts DEF Current
  <2>6. SentIsOnRecord'
    BY <1>0, <2>1, <2>4, <2>5 DEF IInv, FilesInv, SentIsOnRecord, Current, StatusOf
  <2>7. DeliveredIsCommitted'
    <3> SUFFICES ASSUME NEW x \in DOMAIN l, l[x].status = "DELIVERED"
                 PROVE  /\ Rev(x) < assignment.rev
                        /\ l[x].mid # 0 => /\ l[x].mid \in DOMAIN activations
                                           /\ activations[l[x].mid].rev = Rev(x) + 1
      BY <1>0, <2>1 DEF DeliveredIsCommitted, DeliveredRows
    <3>1. CASE x = id
      BY <2>3, <2>4, <3>1 DEF IInv, FilesInv, StageWasAnnounced
    <3>2. CASE x # id
      BY <2>4, <3>2 DEF IInv, FilesInv, DeliveredIsCommitted, DeliveredRows
    <3>3. QED
      BY <3>1, <3>2
  <2>8. FailedNeverAdvances' /\ RowsInv'
    BY <1>0, <2>1, <2>4, <2>5 DEF IInv, FilesInv, FailedNeverAdvances, RowsInv
  <2>9. QED
    BY <1>0, <1>1, <2>6, <2>7, <2>8, LedgerChange DEF IInv
<1>4. QED
  BY <1>2, <1>3 DEF SaveDelivered
-----------------------------------------------------------------------------
(* The theorems. *)

\* The invariant holds at first.
LEMMA InitInv == Init => IInv
<1> SUFFICES ASSUME Init PROVE IInv
  OBVIOUS
<1>1. TypeOK
  BY InitType
<1>2. \A d \in Daemons : turn[d].step = "idle"
  BY DEF Init, Idle
<1>3. Serial /\ TurnInv
  BY <1>2, IdleInv DEF Serial, TurnInv
<1>4. FilesInv
  BY DEF Init, NewAssignment, EmptyLedger, FilesInv, AtMostOneActivation,
         ActivationMatchesAssignment, SentIsOnRecord, DeliveredIsCommitted, DeliveredRows,
         FailedNeverAdvances, StageWasAnnounced, OneCorrectionRound, CorrectionInv, RowsInv,
         DefectLoopMax
<1>5. QED
  BY <1>1, <1>3, <1>4 DEF IInv

\* Every step keeps the invariant.
LEMMA NextInv ==
  ASSUME Overlap = FALSE
  PROVE  IInv /\ [Next]_vars => IInv'
<1> SUFFICES ASSUME IInv, [Next]_vars PROVE IInv'
  OBVIOUS
<1>1. TypeOK'
  BY TypeStep DEF IInv
<1>2. CASE UNCHANGED vars
  <2>1. FilesInv' /\ Serial'
    BY <1>2, FilesSame DEF vars, IInv, Serial
  <2>2. TurnInv'
    BY <1>2 DEF vars, IInv, TurnInv, MemoryInv, MessageInv, NothingSent, Current
  <2>3. QED
    BY <1>1, <2>1, <2>2 DEF IInv
<1>3. ASSUME NEW d \in Daemons, DaemonStep(d) PROVE (Serial /\ TurnInv /\ FilesInv)'
  BY <1>3, BeginInv, RecoverLoadInv, RecoverClassifyInv, RecoverSaveInv, LoadAssignmentInv,
     ValidateInv, ReserveRowInv, SaveReservedInv, SavePendingInv, SendInv, SaveFailedInv,
     SaveAssignmentInv, SaveDeliveredInv, CrashInv DEF DaemonStep
<1>4. QED
  BY <1>1, <1>2, <1>3 DEF Next, IInv

\* While turns do not overlap, the daemons, whatever they crash on, keep the
\* inductive invariant (on_turn_complete and reconcile_project_workflow).
THEOREM Inductive ==
  ASSUME Overlap = FALSE
  PROVE  Spec => []IInv
<1>1. Init => IInv
  BY InitInv
<1>2. IInv /\ [Next]_vars => IInv'
  BY NextInv
<1>3. QED
  BY <1>1, <1>2, PTL DEF Spec

\* Each revision of the workflow wakes at most one bot, once (commit_protocol's
\* "exactly one targeted Discord activation"; recovery "never generates a duplicate
\* Discord delivery").
THEOREM NoDuplicateActivation ==
  ASSUME Overlap = FALSE
  PROVE  Spec => []AtMostOneActivation
<1>1. IInv => AtMostOneActivation
  BY DEF IInv, FilesInv
<1>2. QED
  BY <1>1, Inductive, PTL

\* The bot that was woken is the one of the stage that is entered
\* (commit_protocol's activation and the assignment it saves).
THEOREM AnnouncedIsEntered ==
  ASSUME Overlap = FALSE
  PROVE  Spec => []ActivationMatchesAssignment
<1>1. IInv => ActivationMatchesAssignment
  BY DEF IInv, FilesInv
<1>2. QED
  BY <1>1, Inductive, PTL

\* Whenever a daemon may crash, a message that may be out has its row in the ledger
\* (commit_protocol's order of saves, release_stale_reserved).
THEOREM LedgerIsTruthful ==
  ASSUME Overlap = FALSE
  PROVE  Spec => []SentIsOnRecord
<1>1. IInv => SentIsOnRecord
  BY DEF IInv, FilesInv
<1>2. QED
  BY <1>1, Inductive, PTL

\* A FAILED row is never passed (mark_failed).
THEOREM FailuresStop ==
  ASSUME Overlap = FALSE
  PROVE  Spec => []FailedNeverAdvances
<1>1. IInv => FailedNeverAdvances
  BY DEF IInv, FilesInv
<1>2. QED
  BY <1>1, Inductive, PTL

\* The correction stage is announced at most once (SUPPORTED_DEFECT_LOOP_MAX and
\* the validator's fail-closed cap).
THEOREM OneCorrection ==
  ASSUME Overlap = FALSE
  PROVE  Spec => []OneCorrectionRound
<1>1. IInv => OneCorrectionRound
  BY DEF IInv, FilesInv
<1>2. QED
  BY <1>1, Inductive, PTL
-----------------------------------------------------------------------------
(* The service implements its promise. *)

\* The stage a turn chose is a successor of the present one.
LEMMA ChosenIsSuccessor ==
  ASSUME NEW d \in Daemons, Chosen(turn[d]), turn[d].asg = assignment
  PROVE  turn[d].next \in Promise!Successors
<1>1. PICK n \in Stages :
        /\ <<assignment.state, turn[d].claim[1], turn[d].claim[2], n>> \in Transitions
        /\ turn[d].next = EffectiveNext(n, assignment.loops)
  BY DEF Chosen, Legal
<1> DEFINE t == <<assignment.state, turn[d].claim[1], turn[d].claim[2], n>>
<1>2. t \in Transitions /\ t[1] = assignment.state /\ t[4] = n
  BY <1>1
<1>3. QED
  BY <1>1, <1>2 DEF Promise!Successors, Promise!Transitions, Transitions,
                    Promise!EffectiveNext, EffectiveNext, Promise!DefectLoopMax, DefectLoopMax

\* The promise and the code agree on which stages are announced.
LEMMA SameAnnouncement ==
  ASSUME NEW n
  PROVE  Promise!NeedsAnnouncement(n) <=> SendRequired(n)
BY DEF Promise!NeedsAnnouncement, SendRequired, Promise!Terminal, Terminal,
       Promise!ExpectedRole, ExpectedRole, Promise!NoRole, NoRole

\* A successful send announces the stage it is made for.
LEMMA SendAnnounces ==
  ASSUME IInv, NEW d \in Daemons, Send(d)
  PROVE  Promise!Announce \/ UNCHANGED <<assignment, activations>>
<1>0. turn[d].step = "send"
  BY DEF Send
<1>1. Chosen(turn[d]) /\ turn[d].asg = assignment
  BY <1>0, CommitFacts
<1>2. NothingSent /\ SendRequired(turn[d].next)
  BY <1>0, MemoryFacts DEF MemoryInv, MessageInv
<1>3. CASE activations' = Append(activations, [rev |-> assignment.rev + 1,
                                               stage |-> turn[d].next])
  <2>1. UNCHANGED assignment
    BY DEF Send
  <2>2. Promise!AnnouncedNext = {}
    BY <1>2 DEF NothingSent, Promise!AnnouncedNext
  <2>3. turn[d].next \in Promise!Successors /\ Promise!NeedsAnnouncement(turn[d].next)
    BY <1>1, <1>2, ChosenIsSuccessor, SameAnnouncement
  <2>4. QED
    BY <1>3, <2>1, <2>2, <2>3 DEF Promise!Announce
<1>4. QED
  BY <1>1, <1>3 DEF Send

\* Saving the assignment enters the stage of its update.
LEMMA CommitEnters ==
  ASSUME IInv, NEW d \in Daemons, SaveAssignment(d)
  PROVE  Promise!Enter \/ UNCHANGED <<assignment, activations>>
<1>0. turn[d].step = "saveAssignment" /\ UNCHANGED activations
  BY DEF SaveAssignment
<1>1. Chosen(turn[d]) /\ turn[d].asg = assignment
  BY <1>0, CommitFacts
<1> DEFINE n == turn[d].next
<1>2. CASE assignment' = Updated(turn[d])
  <2>1. /\ assignment'.state = n /\ assignment'.rev = assignment.rev + 1
        /\ assignment'.loops = LoopsAfter(n, turn[d].claim[1], assignment.loops)
    BY <1>1, <1>2 DEF Updated
  <2>2. assignment'.loops = IF n = "PRIMARY_CORRECTION_PENDING" THEN assignment.loops + 1
                                                               ELSE assignment.loops
    <3>1. CASE n = "PRIMARY_CORRECTION_PENDING"
      BY <1>1, <2>1, <3>1, MemoryFacts, ChosenCorrection DEF Assignments
    <3>2. CASE n # "PRIMARY_CORRECTION_PENDING"
      BY <2>1, <3>2 DEF LoopsAfter
    <3>3. QED
      BY <3>1, <3>2
  <2>3. /\ SendRequired(n) => turn[d].mid # 0
        /\ turn[d].mid = 0 => NothingSent
        /\ turn[d].mid # 0 => /\ turn[d].mid \in DOMAIN activations
                              /\ activations[turn[d].mid] =
                                   [rev |-> assignment.rev + 1, stage |-> n]
    BY <1>0, MemoryFacts DEF MessageInv
  <2>4. Promise!AnnouncedNext = {i \in DOMAIN activations :
                                   activations[i].rev = assignment.rev + 1}
    BY DEF Promise!AnnouncedNext
  <2>5. Promise!NeedsAnnouncement(n) => Promise!AnnouncedNext # {}
    BY <2>3, <2>4, SameAnnouncement
  <2>6. \A i \in Promise!AnnouncedNext : activations[i].stage = n
    BY <2>3, <2>4 DEF IInv, FilesInv, AtMostOneActivation, NothingSent
  <2>7. n \in Promise!Successors
    BY <1>1, ChosenIsSuccessor
  <2>8. QED
    BY <1>0, <2>1, <2>2, <2>5, <2>6, <2>7 DEF Promise!Enter
<1>3. QED
  BY <1>0, <1>2 DEF SaveAssignment

\* Every step of the service, crash or failed write included, announces a stage
\* that was not announced, enters the one that was, or changes nothing that a
\* reader of the channel can tell (the whole of commit_protocol and recovery).
THEOREM Refinement ==
  ASSUME Overlap = FALSE
  PROVE  Spec => KeepsPromise
<1>1. Init => Promise!PInit
  BY DEF Init, NewAssignment, Promise!PInit
<1>2. IInv /\ [Next]_vars =>
        [Promise!PNext]_<<assignment.state, assignment.rev, assignment.loops, activations>>
  <2> SUFFICES ASSUME IInv, [Next]_vars
               PROVE  Promise!PNext \/ UNCHANGED <<assignment, activations>>
    OBVIOUS
  <2>1. CASE UNCHANGED vars
    BY <2>1 DEF vars
  <2>2. ASSUME NEW d \in Daemons, DaemonStep(d)
        PROVE  Promise!PNext \/ UNCHANGED <<assignment, activations>>
    <3>1. CASE Send(d)
      BY <3>1, SendAnnounces DEF Promise!PNext
    <3>2. CASE SaveAssignment(d)
      BY <3>2, CommitEnters DEF Promise!PNext
    <3>3. CASE ~Send(d) /\ ~SaveAssignment(d)
      BY <2>2, <3>3 DEF DaemonStep, BeginTurn, RecoverLoad, RecoverClassify, RecoverSave,
           LoadAssignment, Validate, ReserveRow, SaveReserved, SavePending, SaveFailed,
           SaveDelivered, Crash
    <3>4. QED
      BY <3>1, <3>2, <3>3
  <2>3. QED
    BY <2>1, <2>2 DEF Next
<1>3. QED
  BY <1>1, <1>2, Inductive, PTL DEF Spec, KeepsPromise, Promise!PromiseSpec
=============================================================================
