--------------------- MODULE NativeWorkflowOverlapProofs ---------------------
(***************************************************************************)
(* Proofs about NativeWorkflow when the turns of its daemons do overlap.   *)
(* Nothing locks the two files, and two turns do overwrite each other's    *)
(* ledger rows.  What keeps the assignment in order all the same is that   *)
(* each stage has one role and each role one daemon: a turn whose claim    *)
(* fits its snapshot is the only one that may advance the file, so the     *)
(* snapshot is still the file when it is saved.                            *)
(***************************************************************************)
EXTENDS NativeWorkflowProofs, SequenceTheorems, FiniteSetTheorems

\* The deployment: a role is claimed in the turns of one daemon only.
RolesAreOwned == \A d, e \in Daemons : d # e => MayClaim[d] \cap MayClaim[e] = {}

\* Turns do not overlap, or no two daemons may advance the same stage.
OneWriter == Overlap = FALSE \/ RolesAreOwned
-----------------------------------------------------------------------------
(* What one step does to the memory of its turn, by kind. *)

SameTurn(d) == /\ turn'[d].claim = turn[d].claim /\ turn'[d].asg = turn[d].asg
               /\ turn'[d].mid = turn[d].mid

\* The turn is over or lost.
Ends(d) == turn'[d] = Idle /\ UNCHANGED <<assignment, activations>>

\* The turn begins, or does a step of the recovery.
Recovers(d) ==
  /\ turn'[d].step \in {"recover", "classify", "recoverSave", "load"}
  /\ \/ /\ turn'[d].claim \in (MayClaim[d] \X Results) \cup {NoClaim}
        /\ Overlap \/ \A e \in Daemons : turn[e].step = "idle"
     \/ turn'[d].claim = turn[d].claim /\ turn[d].step # "idle"
  /\ \/ turn'[d].mid = 0
     \/ turn[d].step \in BeforeSend /\ turn'[d].mid = turn[d].mid
  /\ UNCHANGED <<assignment, activations>>

\* The snapshot is taken.
Loads(d) ==
  /\ turn[d].step = "load" /\ turn'[d].step = "validate"
  /\ turn'[d].asg = assignment /\ turn'[d].claim = turn[d].claim /\ turn[d].claim # NoClaim
  /\ turn'[d].mid = turn[d].mid
  /\ UNCHANGED <<assignment, activations>>

\* The claim is accepted.
Accepted(d) ==
  /\ turn[d].step = "validate" /\ turn'[d].step = "reserve"
  /\ SameTurn(d) /\ Chosen(turn'[d])
  /\ UNCHANGED <<assignment, activations>>

\* The row is made durable.
Records(d) ==
  /\ turn[d].step \in {"reserve", "saveReserved", "savePending"}
  /\ turn'[d].step \in {"saveReserved", "savePending", "send", "saveAssignment", "saveFailed"}
  /\ SameTurn(d) /\ turn'[d].next = turn[d].next
  /\ turn'[d].step = "send" => SendRequired(turn[d].next)
  /\ turn'[d].step = "saveAssignment" => ~SendRequired(turn[d].next)
  /\ UNCHANGED <<assignment, activations>>

\* The bot is woken, or the call fails.
Posts(d) ==
  LET posted == Append(activations, [rev |-> turn[d].asg.rev + 1, stage |-> turn[d].next]) IN
  /\ turn[d].step = "send" /\ turn'[d].step \in {"saveAssignment", "saveFailed"}
  /\ turn'[d].claim = turn[d].claim /\ turn'[d].asg = turn[d].asg
  /\ turn'[d].next = turn[d].next
  /\ activations' \in {activations, posted}
  /\ turn'[d].step = "saveAssignment" =>
       activations' = posted /\ turn'[d].mid = Len(posted)
  /\ UNCHANGED assignment

\* The assignment is committed.
Saves(d) ==
  /\ turn[d].step = "saveAssignment" /\ turn'[d].step = "saveDelivered"
  /\ SameTurn(d) /\ turn'[d].next = turn[d].next
  /\ turn'[d].led = MarkDelivered(turn[d].led, LedgerTransition(turn[d].asg), turn[d].mid)
  /\ assignment' = Updated(turn[d]) /\ Updated(turn[d]).loops <= DefectLoopMax
  /\ UNCHANGED activations

\* The delivered rows of m are delivered rows of l.
Inherits(l, m) == \A t \in DeliveredRows(m) : t \in DeliveredRows(l) /\ m[t].mid = l[t].mid

\* Where the rows of the files and of the turn come from.
LedgerMoves(d) ==
  /\ ledger' = ledger \/ ledger' = turn[d].led
  /\ \/ Inherits(turn[d].led, turn'[d].led) \/ Inherits(ledger, turn'[d].led)
     \/ /\ turn[d].step = "classify" /\ UNCHANGED assignment
        /\ \E asg \in {assignment, NewAssignment} :
             turn'[d].led = Reconcile(turn[d].led, asg)
     \/ Saves(d)

Moves(d) == /\ \A e \in Daemons : e # d => turn'[e] = turn[e]
            /\ \/ Ends(d) \/ Recovers(d) \/ Loads(d) \/ Accepted(d)
               \/ Records(d) \/ Posts(d) \/ Saves(d)
            /\ LedgerMoves(d)

\* Nothing is inherited by an empty ledger.
LEMMA EmptyInherits ==
  ASSUME NEW l
  PROVE  Inherits(l, EmptyLedger) /\ Inherits(l, Idle.led) /\ Inherits(l, l)
BY DEF Inherits, EmptyLedger, DeliveredRows, Idle

\* Rows are reserved, marked PENDING and marked FAILED without a delivery.
LEMMA MarksInherit ==
  ASSUME NEW l, IsLedger(l), NEW t \in TransitionIds
  PROVE  Inherits(l, Reserve(l, t)) /\ Inherits(l, MarkPending(l, t))
         /\ Inherits(l, MarkFailed(l, t))
<1>1. Inherits(l, Reserve(l, t))
  <2>1. PICK r : r = Reserve(l, t)
    OBVIOUS
  <2>2. /\ DOMAIN r = DOMAIN l \cup {t}
        /\ \A x \in DOMAIN l : r[x] = l[x]
        /\ t \notin DOMAIN l => r[t] = [status |-> "RESERVED", mid |-> 0]
    BY <2>1, ReserveType
  <2>3. \A x \in DeliveredRows(r) : x \in DOMAIN l /\ r[x] = l[x]
    BY <2>2 DEF DeliveredRows
  <2> QED BY <2>1, <2>3 DEF Inherits, DeliveredRows
<1>2. ASSUME NEW st \in {"PENDING", "FAILED"} PROVE Inherits(l, WithStatus(l, t, st))
  <2>1. CASE t \in DOMAIN l
    <3>1. st \in Statuses /\ st # "DELIVERED"
      BY DEF Statuses
    <3> QED BY <2>1, <3>1, WithStatusType DEF Inherits, DeliveredRows
  <2>2. CASE t \notin DOMAIN l
    BY <2>2 DEF WithStatus, IsLedger, Inherits, DeliveredRows
  <2> QED BY <2>1, <2>2
<1>3. Inherits(l, MarkPending(l, t)) /\ Inherits(l, MarkFailed(l, t))
  BY <1>2, EmptyInherits DEF MarkPending, MarkFailed
<1> QED BY <1>1, <1>3

\* A turn with another ledger in its memory.
LEMMA WithLedger ==
  ASSUME NEW t, IsTurn(t), NEW l, IsLedger(l), NEW now, now = [t EXCEPT !.led = l]
  PROVE  /\ IsTurn(now) /\ now.led = l /\ now.asg = t.asg /\ now.claim = t.claim
         /\ now.mid = t.mid /\ now.next = t.next
<1>1. "idle" \in Steps
  BY DEF Steps
<1>2. IsTurn(now)
  BY <1>1, TurnFields
<1> QED BY <1>2, Fields

\* A turn that ends.
LEMMA EndsMove ==
  ASSUME TypeOK, NEW d \in Daemons, Finish(d), UNCHANGED <<assignment, activations>>,
         ledger' = ledger \/ ledger' = turn[d].led
  PROVE  Moves(d)
<1>1. turn'[d] = Idle /\ \A e \in Daemons : e # d => turn'[e] = turn[e]
  BY FinishType
<1>2. Inherits(turn[d].led, turn'[d].led)
  BY <1>1, EmptyInherits
<1> QED BY <1>1, <1>2 DEF Moves, Ends, LedgerMoves

\* Every step of a daemon is of one of these kinds.
LEMMA MovesBy == ASSUME TypeOK, NEW d \in Daemons, DaemonStep(d) PROVE Moves(d)
<1> DEFINE t == turn[d]
           id == LedgerTransition(t.asg)
<1>0. /\ IsTurn(t) /\ IsLedger(t.led) /\ t.asg \in Assignments /\ t.mid \in Nat
      /\ t.claim \in Claims \cup {NoClaim} /\ IsLedger(ledger) /\ id \in TransitionIds
  BY CurrentType DEF TypeOK, IsTurn
<1> HIDE DEF t, id
<1>1. CASE BeginTurn(d)
  <2>1. PICK c \in (MayClaim[d] \X Results) \cup {NoClaim} :
          Go(d, [Idle EXCEPT !.claim = c], IF d \in reconciled THEN "load" ELSE "recover")
    BY <1>1 DEF BeginTurn
  <2>2. PICK now : now = [Idle EXCEPT !.claim = c]
    OBVIOUS
  <2>3. IsTurn(now) /\ now.claim = c /\ now.mid = 0 /\ now.led = EmptyLedger
    <3>1. c \in Claims \cup {NoClaim}
      BY MayClaimAssumption DEF Claims
    <3> QED BY <2>2, <3>1, IdleWithClaim DEF Idle
  <2>4. PICK s \in {"load", "recover"} : Go(d, now, s) /\ s \in Steps
    BY <2>1, <2>2 DEF Steps
  <2>5. /\ turn'[d].step = s /\ turn'[d].claim = c /\ turn'[d].mid = 0
        /\ turn'[d].led = EmptyLedger /\ \A e \in Daemons : e # d => turn'[e] = turn[e]
    BY <2>3, <2>4, GoType
  <2>6. Recovers(d)
    BY <1>1, <2>4, <2>5 DEF Recovers, BeginTurn
  <2> QED BY <1>1, <2>5, <2>6, EmptyInherits DEF Moves, LedgerMoves, BeginTurn
<1>10. CASE RecoverLoad(d) /\ Finish(d)
  BY <1>10, EndsMove DEF RecoverLoad
<1>2. CASE (RecoverLoad(d) /\ ~Finish(d)) \/ RecoverClassify(d)
  <2>1. PICK l, s :
          /\ IsLedger(l) /\ s \in {"classify", "recoverSave"}
          /\ Go(d, [t EXCEPT !.led = l], s)
          /\ \/ RecoverLoad(d) /\ l = ledger
             \/ /\ RecoverClassify(d)
                /\ \E asg \in {assignment, NewAssignment} : l = Reconcile(t.led, asg)
    <3>1. CASE RecoverLoad(d) /\ ~Finish(d)
      <4>1. Go(d, [t EXCEPT !.led = ledger], "classify")
        BY <3>1 DEF RecoverLoad, t
      <4> QED BY <1>0, <3>1, <4>1
    <3>2. CASE RecoverClassify(d)
      <4>1. PICK asg \in {assignment, NewAssignment} :
              Go(d, [t EXCEPT !.led = Reconcile(t.led, asg)], "recoverSave")
        BY <3>2 DEF RecoverClassify, t
      <4>2. asg \in Assignments
        BY IdleType DEF TypeOK, IsTurn, Idle
      <4>3. PICK l : l = Reconcile(t.led, asg)
        OBVIOUS
      <4>4. IsLedger(l)
        BY <1>0, <4>2, <4>3, ReconcileType
      <4>5. Go(d, [t EXCEPT !.led = l], "recoverSave")
        BY <4>1, <4>3
      <4> QED BY <3>2, <4>3, <4>4, <4>5
    <3> QED BY <1>2, <3>1, <3>2
  <2>2. /\ Go(d, [t EXCEPT !.led = l], s)
        /\ s \in {"classify", "recoverSave"} /\ s \in Steps
    BY <2>1 DEF Steps
  <2>3. PICK now : now = [t EXCEPT !.led = l]
    OBVIOUS
  <2>4. IsTurn(now) /\ now.led = l /\ now.claim = t.claim /\ now.mid = t.mid
    BY <1>0, <2>1, <2>2, <2>3, TurnFields DEF IsTurn
  <2>5. /\ turn'[d].step = s /\ turn'[d].claim = t.claim /\ turn'[d].mid = t.mid
        /\ turn'[d].led = l /\ \A e \in Daemons : e # d => turn'[e] = turn[e]
    BY <2>2, <2>3, <2>4, GoType
  <2>6. /\ UNCHANGED <<assignment, activations, ledger>>
        /\ \/ l = ledger
           \/ /\ t.step = "classify"
              /\ \E asg \in {assignment, NewAssignment} : l = Reconcile(t.led, asg)
        /\ t.step \in {"recover", "classify"}
    BY <2>1 DEF RecoverLoad, RecoverClassify, t
  <2>7. Recovers(d)
    BY <2>2, <2>5, <2>6 DEF Recovers, BeforeSend, t
  <2>8. LedgerMoves(d)
    <3>1. CASE l = ledger
      BY <2>5, <2>6, <3>1, EmptyInherits DEF LedgerMoves
    <3>2. CASE l # ledger
      <4>1. turn[d].led = t.led /\ turn[d].step = t.step
        BY DEF t
      <4>2. PICK asg \in {assignment, NewAssignment} : l = Reconcile(t.led, asg)
        BY <2>6, <3>2
      <4>3. turn'[d].led = Reconcile(turn[d].led, asg)
        BY <2>5, <4>1, <4>2
      <4> QED BY <2>6, <3>2, <4>1, <4>3 DEF LedgerMoves
    <3> QED BY <3>1, <3>2
  <2> QED BY <2>5, <2>7, <2>8 DEF Moves
<1>3. CASE RecoverSave(d)
  <2>1. PICK now : now = [Idle EXCEPT !.claim = t.claim]
    OBVIOUS
  <2>2. IsTurn(now) /\ now.claim = t.claim /\ now.mid = 0 /\ now.led = EmptyLedger
    BY <1>0, <2>1, IdleWithClaim DEF Idle
  <2>3. Go(d, now, "load") /\ "load" \in Steps
    BY <1>3, <2>1 DEF RecoverSave, Steps, t
  <2>4. /\ turn'[d].step = "load" /\ turn'[d].claim = t.claim /\ turn'[d].mid = 0
        /\ turn'[d].led = EmptyLedger /\ \A e \in Daemons : e # d => turn'[e] = turn[e]
    BY <2>2, <2>3, GoType
  <2>5. Recovers(d)
    BY <1>3, <2>4 DEF Recovers, RecoverSave, t
  <2> QED BY <1>3, <2>4, <2>5, EmptyInherits DEF Moves, LedgerMoves, RecoverSave
<1>4. CASE LoadAssignment(d)
  <2>1. CASE Finish(d)
    BY <1>4, <2>1, EndsMove DEF LoadAssignment
  <2>2. ASSUME ~Finish(d) PROVE Moves(d)
    <3>1. PICK now : now = [t EXCEPT !.asg = assignment]
      OBVIOUS
    <3>2. /\ IsTurn(now) /\ now.asg = assignment /\ now.claim = t.claim /\ now.mid = t.mid
          /\ now.led = t.led
      <4>1. assignment \in Assignments /\ "load" \in Steps
        BY DEF TypeOK, Steps
      <4> QED BY <1>0, <3>1, <4>1, TurnFields DEF IsTurn
    <3>3. Go(d, now, "validate") /\ "validate" \in Steps
      BY <1>4, <2>2, <3>1 DEF LoadAssignment, Steps, t
    <3>4. /\ turn'[d].step = "validate" /\ turn'[d].claim = t.claim /\ turn'[d].mid = t.mid
          /\ turn'[d].asg = assignment
          /\ turn'[d].led = t.led /\ \A e \in Daemons : e # d => turn'[e] = turn[e]
      BY <3>2, <3>3, GoType
    <3>5. Loads(d)
      BY <1>4, <2>2, <3>4 DEF Loads, LoadAssignment, t
    <3> QED BY <1>4, <3>4, <3>5, EmptyInherits DEF Moves, LedgerMoves, LoadAssignment, t
  <2> QED BY <2>1, <2>2
<1>5. CASE Validate(d)
  <2>1. CASE Finish(d)
    BY <1>5, <2>1, EndsMove DEF Validate
  <2>2. ASSUME ~Finish(d) PROVE Moves(d)
    <3>1. PICK n \in Stages :
            /\ t.claim[1] = ExpectedRole(t.asg.state)
            /\ Legal(t.asg.state, t.claim[1], t.claim[2], n)
            /\ Go(d, [t EXCEPT !.next = EffectiveNext(n, t.asg.loops)], "reserve")
      BY <1>5, <2>2 DEF Validate, t
    <3>2. PICK now : now = [t EXCEPT !.next = EffectiveNext(n, t.asg.loops)]
      OBVIOUS
    <3>3. IsTurn(now) /\ "reserve" \in Steps
      BY <1>0, <3>2, TurnFields, EffectiveNextType DEF Steps
    <3>4. /\ now.asg = t.asg /\ now.claim = t.claim /\ now.mid = t.mid /\ now.led = t.led
          /\ now.next = EffectiveNext(n, t.asg.loops)
      BY <1>0, <3>2 DEF IsTurn
    <3>5. /\ turn'[d].step = "reserve" /\ turn'[d].claim = t.claim /\ turn'[d].mid = t.mid
          /\ turn'[d].asg = t.asg /\ turn'[d].next = EffectiveNext(n, t.asg.loops)
          /\ turn'[d].led = t.led /\ \A e \in Daemons : e # d => turn'[e] = turn[e]
      BY <3>1, <3>2, <3>3, <3>4, GoType
    <3>6. Chosen(turn'[d])
      BY <3>1, <3>5 DEF Chosen
    <3>7. Accepted(d)
      BY <1>5, <3>5, <3>6 DEF Accepted, SameTurn, Validate, t
    <3> QED BY <1>5, <3>5, <3>7, EmptyInherits DEF Moves, LedgerMoves, Validate, t
  <2> QED BY <2>1, <2>2
<1>6. CASE ReserveRow(d) \/ SaveReserved(d) \/ SavePending(d)
  <2>1. CASE Finish(d)
    <3>1. UNCHANGED <<assignment, activations>> /\ (ledger' = ledger \/ ledger' = turn[d].led)
      BY <1>6 DEF ReserveRow, SaveReserved, SavePending, SaveLedger
    <3> QED BY <2>1, <3>1, EndsMove
  <2>2. ASSUME ~Finish(d) PROVE Moves(d)
    <3>1. PICK s \in {"saveReserved", "savePending", "send", "saveAssignment", "saveFailed"},
               l \in {t.led, Reserve(ledger, id), MarkPending(t.led, id), MarkFailed(t.led, id)} :
            /\ Go(d, [t EXCEPT !.led = l], s)
            /\ s = "send" => SendRequired(t.next)
            /\ s = "saveAssignment" => ~SendRequired(t.next)
      <4>1. t = [t EXCEPT !.led = t.led]
        BY <1>0 DEF IsTurn
      <4>2. CASE ReserveRow(d)
        BY <2>2, <4>2 DEF ReserveRow, t, id
      <4>3. CASE SaveReserved(d)
        BY <4>3 DEF SaveReserved, SaveLedger, t, id
      <4>4. CASE SavePending(d)
        BY <4>1, <4>4 DEF SavePending, SaveLedger, t, id
      <4> QED BY <1>6, <4>2, <4>3, <4>4
    <3>2. /\ IsLedger(l) /\ s \in Steps
          /\ Inherits(t.led, l) \/ Inherits(ledger, l)
      <4>1. s \in Steps
        BY DEF Steps
      <4>2. CASE l = t.led
        BY <1>0, <4>1, <4>2, EmptyInherits
      <4>3. CASE l = Reserve(ledger, id)
        BY <1>0, <4>1, <4>3, ReserveType, MarksInherit
      <4>4. CASE l = MarkPending(t.led, id)
        BY <1>0, <4>1, <4>4, LedgerOperatorsType, MarksInherit
      <4>5. CASE l = MarkFailed(t.led, id)
        BY <1>0, <4>1, <4>5, LedgerOperatorsType, MarksInherit
      <4> QED BY <4>2, <4>3, <4>4, <4>5
    <3>3. PICK now : now = [t EXCEPT !.led = l]
      OBVIOUS
    <3>4. /\ IsTurn(now) /\ now.led = l /\ now.asg = t.asg /\ now.claim = t.claim
          /\ now.mid = t.mid /\ now.next = t.next
      BY <1>0, <3>2, <3>3, WithLedger
    <3>5. /\ turn'[d].step = s /\ turn'[d].claim = t.claim /\ turn'[d].mid = t.mid
          /\ turn'[d].asg = t.asg /\ turn'[d].next = t.next
          /\ turn'[d].led = l /\ \A e \in Daemons : e # d => turn'[e] = turn[e]
      BY <3>1, <3>2, <3>3, <3>4, GoType
    <3>6. /\ t.step \in {"reserve", "saveReserved", "savePending"}
          /\ UNCHANGED <<assignment, activations>> /\ (ledger' = ledger \/ ledger' = t.led)
      BY <1>6 DEF ReserveRow, SaveReserved, SavePending, SaveLedger, t
    <3>7. Records(d)
      BY <3>1, <3>5, <3>6 DEF Records, SameTurn, t
    <3>8. LedgerMoves(d)
      BY <3>2, <3>5, <3>6 DEF LedgerMoves, t
    <3> QED BY <3>5, <3>7, <3>8 DEF Moves
  <2> QED BY <2>1, <2>2
<1>7. CASE Send(d)
  <2>1. PICK posted : posted = Append(activations, [rev |-> t.asg.rev + 1, stage |-> t.next])
    OBVIOUS
  <2>2. /\ t.step = "send" /\ UNCHANGED <<assignment, ledger>>
        /\ activations' \in {activations, posted}
        /\ \/ /\ activations' = posted
              /\ Go(d, [t EXCEPT !.mid = Len(posted)], "saveAssignment")
           \/ Go(d, [t EXCEPT !.led = MarkFailed(@, id)], "saveFailed")
    BY <1>7, <2>1 DEF Send, t, id
  <2>3. Len(posted) \in Nat
    <3>1. activations \in Seq([rev : Nat, stage : Stages])
      BY DEF TypeOK
    <3>2. [rev |-> t.asg.rev + 1, stage |-> t.next] \in [rev : Nat, stage : Stages]
      BY <1>0 DEF IsTurn, Assignments
    <3>3. posted \in Seq([rev : Nat, stage : Stages])
      BY <2>1, <3>1, <3>2, AppendProperties
    <3> QED BY <3>3, LenProperties
  <2>4. ASSUME NEW now, NEW s, Go(d, now, s), IsTurn(now),
               s \in {"saveAssignment", "saveFailed"}, s \in Steps,
               now.claim = t.claim, now.asg = t.asg, now.next = t.next,
               Inherits(t.led, now.led),
               s = "saveAssignment" => activations' = posted /\ now.mid = Len(posted)
        PROVE  Moves(d)
    <3>1. /\ turn'[d].step = s /\ turn'[d].claim = t.claim /\ turn'[d].asg = t.asg
          /\ turn'[d].next = t.next /\ turn'[d].mid = now.mid
          /\ turn'[d].led = now.led /\ \A e \in Daemons : e # d => turn'[e] = turn[e]
      BY <2>4, GoType
    <3>2. Posts(d)
      BY <2>1, <2>2, <2>4, <3>1 DEF Posts, t
    <3>3. LedgerMoves(d)
      BY <2>2, <2>4, <3>1 DEF LedgerMoves, t
    <3> QED BY <3>1, <3>2, <3>3 DEF Moves
  <2>5. CASE activations' = posted /\ Go(d, [t EXCEPT !.mid = Len(posted)], "saveAssignment")
    <3>1. PICK now : now = [t EXCEPT !.mid = Len(posted)]
      OBVIOUS
    <3>2. "saveAssignment" \in Steps
      BY DEF Steps
    <3>3. IsTurn(now)
      BY <1>0, <2>3, <3>1, <3>2, TurnFields
    <3>4. /\ now.claim = t.claim /\ now.asg = t.asg /\ now.next = t.next
          /\ now.led = t.led /\ now.mid = Len(posted)
      BY <1>0, <3>1, <3>3 DEF IsTurn
    <3>5. Go(d, now, "saveAssignment") /\ activations' = posted
      BY <2>5, <3>1
    <3>6. Inherits(t.led, now.led)
      BY <3>4, EmptyInherits
    <3> QED BY <2>4, <3>2, <3>3, <3>4, <3>5, <3>6
  <2>6. CASE Go(d, [t EXCEPT !.led = MarkFailed(@, id)], "saveFailed")
    <3>1. PICK l : l = MarkFailed(t.led, id)
      OBVIOUS
    <3>2. PICK now : now = [t EXCEPT !.led = l]
      OBVIOUS
    <3>3. "saveFailed" \in Steps /\ IsLedger(l) /\ Inherits(t.led, l)
      BY <1>0, <3>1, LedgerOperatorsType, MarksInherit DEF Steps
    <3>4. /\ IsTurn(now) /\ now.claim = t.claim /\ now.asg = t.asg /\ now.next = t.next
          /\ now.led = l
      BY <1>0, <3>2, <3>3, WithLedger
    <3>5. Go(d, now, "saveFailed")
      BY <2>6, <3>1, <3>2
    <3> QED BY <2>4, <3>3, <3>4, <3>5
  <2> QED BY <2>2, <2>5, <2>6
<1>8. CASE SaveAssignment(d)
  <2>1. CASE UNCHANGED assignment /\ Finish(d)
    BY <1>8, <2>1, EndsMove DEF SaveAssignment
  <2>2. CASE /\ assignment' = Updated(t) /\ Updated(t).loops <= DefectLoopMax
             /\ Go(d, [t EXCEPT !.led = MarkDelivered(@, id, t.mid)], "saveDelivered")
    <3>1. PICK l : l = MarkDelivered(t.led, id, t.mid)
      OBVIOUS
    <3>2. PICK now : now = [t EXCEPT !.led = l]
      OBVIOUS
    <3>3. "saveDelivered" \in Steps /\ IsLedger(l)
      BY <1>0, <3>1, LedgerOperatorsType DEF Steps
    <3>4. /\ IsTurn(now) /\ now.claim = t.claim /\ now.asg = t.asg /\ now.next = t.next
          /\ now.led = l /\ now.mid = t.mid
      BY <1>0, <3>2, <3>3, WithLedger
    <3>5. /\ turn'[d].step = "saveDelivered" /\ turn'[d].claim = t.claim
          /\ turn'[d].asg = t.asg /\ turn'[d].next = t.next /\ turn'[d].mid = t.mid
          /\ turn'[d].led = l /\ \A e \in Daemons : e # d => turn'[e] = turn[e]
      BY <2>2, <3>1, <3>2, <3>3, <3>4, GoType
    <3>6. Saves(d)
      BY <1>8, <2>2, <3>1, <3>5 DEF Saves, SameTurn, SaveAssignment, t, id
    <3> QED BY <1>8, <3>5, <3>6 DEF Moves, LedgerMoves, SaveAssignment
  <2> QED BY <1>8, <2>1, <2>2 DEF SaveAssignment, t, id
<1>9. CASE SaveFailed(d) \/ SaveDelivered(d) \/ Crash(d)
  BY <1>9, EndsMove DEF SaveFailed, SaveDelivered, Crash
<1> QED
  BY <1>1, <1>2, <1>3, <1>4, <1>5, <1>6, <1>7, <1>8, <1>9, <1>10 DEF DaemonStep
-----------------------------------------------------------------------------
(* The assignment moves along the legal transitions. *)

\* The turn answers for the stage of its snapshot.
Serves(t) == t.claim[1] = ExpectedRole(t.asg.state)

\* A turn claims what its daemon may claim, and while it answers for the stage of
\* its snapshot, the snapshot is the file.
WriterOf(d) ==
  LET t == turn[d] IN
  /\ t.claim \in (MayClaim[d] \X Results) \cup {NoClaim}
  /\ t.step \in WithSnapshot \cup {"saveDelivered"} => t.claim # NoClaim
  /\ t.step \in {"reserve"} \cup Committing => Chosen(t)
  /\ t.step \in WithSnapshot /\ Serves(t) => t.asg = assignment

WriterInv == /\ TypeOK
             /\ Overlap = FALSE => Serial
             /\ \A d \in Daemons : WriterOf(d)

\* A claim that is one names a role of its daemon.
LEMMA ClaimsOwnRole ==
  ASSUME NEW d \in Daemons, NEW c \in (MayClaim[d] \X Results) \cup {NoClaim}, c # NoClaim
  PROVE  c[1] \in MayClaim[d] /\ c[1] \in Roles
BY MayClaimAssumption

\* No other turn may answer for the stage that d is about to leave.
LEMMA NobodyElseServes ==
  ASSUME OneWriter, WriterInv, NEW d \in Daemons, turn[d].step = "saveAssignment",
         NEW e \in Daemons, e # d, turn[e].step \in WithSnapshot
  PROVE  ~Serves(turn[e])
<1> SUFFICES ASSUME Serves(turn[e]) PROVE FALSE
  OBVIOUS
<1>1. turn[d].step \in WithSnapshot /\ turn[d].step \in Committing
  BY DEF WithSnapshot, Committing
<1>2. WriterOf(d) /\ WriterOf(e)
  BY DEF WriterInv
<1>3. Serves(turn[d])
  BY <1>1, <1>2 DEF WriterOf, Chosen, Serves
<1>4. turn[d].asg = assignment /\ turn[e].asg = assignment
  BY <1>1, <1>2, <1>3 DEF WriterOf
<1>5. turn[d].claim[1] = turn[e].claim[1]
  BY <1>3, <1>4 DEF Serves
<1>6. turn[d].claim[1] \in MayClaim[d] /\ turn[e].claim[1] \in MayClaim[e]
  BY <1>1, <1>2, ClaimsOwnRole DEF WriterOf
<1>7. CASE Overlap = FALSE
  <2>1. turn[d].step # "idle" /\ turn[e].step # "idle"
    BY DEF WithSnapshot
  <2> QED BY <1>7, <2>1 DEF WriterInv, Serial
<1>8. CASE RolesAreOwned
  BY <1>5, <1>6, <1>8 DEF RolesAreOwned
<1> QED BY <1>7, <1>8 DEF OneWriter

\* Of an idle turn there is nothing to say.
LEMMA IdleWriter ==
  ASSUME NEW d \in Daemons, turn[d] = Idle
  PROVE  WriterOf(d)
BY DEF WriterOf, Idle, WithSnapshot, Committing

\* The turn that moves.
LEMMA MoverWrites ==
  ASSUME WriterInv, NEW d \in Daemons, Moves(d)
  PROVE  WriterOf(d)'
<1>0. WriterOf(d) /\ IsTurn(turn[d])
  BY DEF WriterInv, TypeOK
<1>1. CASE Ends(d)
  BY <1>1 DEF Ends, WriterOf, Idle, WithSnapshot, Committing
<1>2. CASE Recovers(d)
  BY <1>0, <1>2 DEF Recovers, WriterOf, WithSnapshot, Committing
<1>3. CASE Loads(d)
  BY <1>0, <1>3 DEF Loads, WriterOf, WithSnapshot, Committing
<1>4. CASE Accepted(d)
  <2>1. turn[d].step \in WithSnapshot /\ turn'[d].step \in WithSnapshot
    BY <1>4 DEF Accepted, WithSnapshot
  <2>2. Serves(turn[d]) /\ Serves(turn'[d])
    BY <1>4 DEF Accepted, Serves, Chosen, SameTurn
  <2> QED BY <1>0, <1>4, <2>1, <2>2 DEF Accepted, WriterOf, SameTurn
<1>5. CASE Records(d) \/ Posts(d)
  <2>1. /\ turn[d].step \in WithSnapshot /\ turn[d].step \in {"reserve"} \cup Committing
        /\ turn'[d].claim = turn[d].claim /\ turn'[d].asg = turn[d].asg
        /\ turn'[d].next = turn[d].next /\ UNCHANGED assignment
    BY <1>5 DEF Records, Posts, SameTurn, WithSnapshot, Committing
  <2>2. Chosen(turn[d]) /\ turn[d].claim # NoClaim
    BY <1>0, <2>1 DEF WriterOf
  <2>3. Chosen(turn'[d]) /\ Serves(turn[d]) /\ Serves(turn'[d])
    BY <2>1, <2>2 DEF Chosen, Serves
  <2> QED BY <1>0, <2>1, <2>2, <2>3 DEF WriterOf
<1>6. CASE Saves(d)
  <2>1. /\ turn[d].step \in WithSnapshot /\ turn[d].step \in {"reserve"} \cup Committing
        /\ turn'[d].claim = turn[d].claim /\ turn'[d].asg = turn[d].asg
        /\ turn'[d].next = turn[d].next /\ turn'[d].step \notin WithSnapshot
    BY <1>6 DEF Saves, SameTurn, WithSnapshot, Committing
  <2>2. Chosen(turn[d]) /\ turn[d].claim # NoClaim
    BY <1>0, <2>1 DEF WriterOf
  <2>3. Chosen(turn'[d])
    BY <2>1, <2>2 DEF Chosen
  <2> QED BY <1>0, <2>1, <2>2, <2>3 DEF WriterOf
<1> QED BY <1>1, <1>2, <1>3, <1>4, <1>5, <1>6 DEF Moves

\* Only a save changes the assignment.
LEMMA OnlySavesMove ==
  ASSUME NEW d \in Daemons, Moves(d)
  PROVE  Saves(d) \/ UNCHANGED assignment
BY DEF Moves, Ends, Recovers, Loads, Accepted, Records, Posts

\* While turns do not overlap, they still do not.
LEMMA StaysSerial ==
  ASSUME Overlap = FALSE, Serial, NEW d \in Daemons, Moves(d)
  PROVE  Serial'
<1>1. \A e \in Daemons : e # d => turn'[e] = turn[e]
  BY DEF Moves
<1>2. CASE turn'[d].step = "idle"
  BY <1>1, <1>2 DEF Serial
<1>3. CASE turn[d].step # "idle"
  BY <1>1, <1>3 DEF Serial
<1>4. CASE turn[d].step = "idle" /\ turn'[d].step # "idle"
  <2>1. Recovers(d)
    BY <1>4 DEF Moves, Ends, Idle, Loads, Accepted, Records, Posts, Saves
  <2>2. \A e \in Daemons : turn[e].step = "idle"
    BY <1>4, <2>1 DEF Recovers
  <2> QED BY <1>1, <2>2 DEF Serial
<1> QED BY <1>2, <1>3, <1>4

LEMMA WriterStep ==
  ASSUME OneWriter
  PROVE  WriterInv /\ [Next]_vars => WriterInv'
<1> SUFFICES ASSUME WriterInv, [Next]_vars PROVE WriterInv'
  OBVIOUS
<1>1. TypeOK'
  BY TypeStep DEF WriterInv
<1>2. CASE UNCHANGED vars
  BY <1>1, <1>2 DEF vars, WriterInv, WriterOf, Serial
<1>3. ASSUME NEW d \in Daemons, DaemonStep(d) PROVE WriterInv'
  <2>1. Moves(d)
    BY <1>3, MovesBy DEF WriterInv
  <2>2. ASSUME NEW e \in Daemons, e # d PROVE WriterOf(e)'
    <3>1. WriterOf(e) /\ turn'[e] = turn[e]
      BY <2>1, <2>2 DEF WriterInv, Moves
    <3>2. CASE UNCHANGED assignment
      BY <3>1, <3>2 DEF WriterOf
    <3>3. CASE Saves(d)
      <4>1. turn[d].step = "saveAssignment"
        BY <3>3 DEF Saves
      <4>2. turn[e].step \in WithSnapshot => ~Serves(turn[e])
        BY <2>2, <4>1, NobodyElseServes
      <4> QED BY <3>1, <4>2 DEF WriterOf
    <3> QED BY <2>1, <3>2, <3>3, OnlySavesMove
  <2>3. WriterOf(d)'
    BY <2>1, MoverWrites
  <2>4. Overlap = FALSE => Serial'
    BY <2>1, StaysSerial DEF WriterInv
  <2> QED BY <1>1, <2>2, <2>3, <2>4 DEF WriterInv
<1> QED BY <1>2, <1>3 DEF Next

LEMMA WriterInit == Init => WriterInv
<1> SUFFICES ASSUME Init PROVE WriterInv
  OBVIOUS
<1>1. \A d \in Daemons : turn[d] = Idle
  BY DEF Init
<1>2. \A d \in Daemons : WriterOf(d)
  BY <1>1, IdleWriter
<1>3. Serial
  BY <1>1 DEF Serial, Idle
<1> QED BY <1>2, <1>3, InitType DEF WriterInv

LEMMA WriterAlways ==
  ASSUME OneWriter
  PROVE  Spec => []WriterInv
<1>1. WriterInv /\ [Next]_vars => WriterInv'
  BY WriterStep
<1> QED BY <1>1, WriterInit, PTL DEF Spec

\* A commit is of the present assignment, by a legal transition.
LEMMA SavesFacts ==
  ASSUME WriterInv, NEW d \in Daemons, Saves(d)
  PROVE  /\ turn[d].asg = assignment /\ Chosen(turn[d]) /\ assignment' = Updated(turn[d])
         /\ turn[d].claim \in Claims /\ IsTurn(turn[d]) /\ assignment \in Assignments
         /\ assignment.state \notin Terminal
<1>1. WriterOf(d) /\ IsTurn(turn[d]) /\ assignment \in Assignments
  BY DEF WriterInv, TypeOK
<1>2. turn[d].step = "saveAssignment" /\ assignment' = Updated(turn[d])
  BY DEF Saves
<1>3. turn[d].step \in WithSnapshot /\ turn[d].step \in Committing
  BY <1>2 DEF WithSnapshot, Committing
<1>4. Chosen(turn[d]) /\ turn[d].claim # NoClaim
  BY <1>1, <1>3 DEF WriterOf
<1>5. turn[d].asg = assignment
  BY <1>1, <1>3, <1>4 DEF WriterOf, Serves, Chosen
<1>6. turn[d].claim \in Claims /\ turn[d].claim[1] \in Roles
  <2>1. turn[d].claim \in (MayClaim[d] \X Results) \cup {NoClaim}
    BY <1>1 DEF WriterOf
  <2> QED BY <1>4, <2>1, MayClaimAssumption DEF Claims
<1>7. assignment.state \notin Terminal
  BY <1>4, <1>5, <1>6 DEF Chosen, ExpectedRole, Terminal, NoRole, Roles
<1> QED BY <1>1, <1>2, <1>4, <1>5, <1>6, <1>7

LEMMA SavesStep ==
  ASSUME WriterInv, NEW d \in Daemons, Saves(d)
  PROVE  AssignmentStep
<1>1. /\ turn[d].asg = assignment /\ Chosen(turn[d]) /\ assignment' = Updated(turn[d])
      /\ assignment.state \notin Terminal
  BY SavesFacts
<1>2. PICK n \in Stages :
        /\ <<assignment.state, turn[d].claim[1], turn[d].claim[2], n>> \in Transitions
        /\ turn[d].next = EffectiveNext(n, assignment.loops)
  BY <1>1 DEF Chosen, Legal
<1>3. /\ assignment'.state = turn[d].next /\ assignment'.rev = assignment.rev + 1
      /\ assignment'.last = <<assignment.rev, assignment.state, turn[d].claim[2]>>
  BY <1>1 DEF Updated, ClaimedTransition
<1>4. PICK t : t = <<assignment.state, turn[d].claim[1], turn[d].claim[2], n>>
  OBVIOUS
<1>5. /\ t \in Transitions /\ t[1] = assignment.state /\ t[3] = assignment'.last[3]
      /\ assignment'.state = EffectiveNext(t[4], assignment.loops)
  BY <1>2, <1>3, <1>4
<1> QED BY <1>1, <1>3, <1>5 DEF AssignmentStep

\* The assignment goes from revision to revision along the legal transitions and
\* never back (commit_protocol, step J), though nothing locks its file: it is
\* enough that the turns do not overlap, or that no role has two daemons.
THEOREM NeverRegresses ==
  ASSUME OneWriter
  PROVE  Spec => AssignmentNeverRegresses
<1>1. WriterInv /\ [Next]_vars => [AssignmentStep]_assignment
  <2> SUFFICES ASSUME WriterInv, [Next]_vars PROVE AssignmentStep \/ UNCHANGED assignment
    OBVIOUS
  <2>1. CASE UNCHANGED vars
    BY <2>1 DEF vars
  <2>2. ASSUME NEW d \in Daemons, DaemonStep(d)
        PROVE  AssignmentStep \/ UNCHANGED assignment
    BY <2>2, MovesBy, OnlySavesMove, SavesStep DEF WriterInv
  <2> QED BY <2>1, <2>2 DEF Next
<1>2. Spec => []WriterInv
  BY WriterAlways
<1> QED BY <1>1, <1>2, PTL DEF Spec, AssignmentNeverRegresses
-----------------------------------------------------------------------------
(* The stage that is entered was announced. *)

\* The message of a turn is the one it posted for the revision it commits.
Told(t) ==
  /\ t.step \in BeforeSend => t.mid = 0
  /\ t.step = "send" => SendRequired(t.next)
  /\ t.step = "saveAssignment" =>
       /\ SendRequired(t.next) => t.mid # 0
       /\ t.mid # 0 => /\ t.mid \in DOMAIN activations
                       /\ activations[t.mid] = [rev |-> t.asg.rev + 1, stage |-> t.next]

ToldInv == TypeOK /\ StageWasAnnounced /\ \A d \in Daemons : Told(turn[d])

\* What is posted stays posted.
LEMMA PostsKeep ==
  ASSUME TypeOK, NEW d \in Daemons, Moves(d)
  PROVE  /\ \A i \in DOMAIN activations : i \in DOMAIN activations' /\ activations'[i] = activations[i]
         /\ Posts(d) /\ turn'[d].step = "saveAssignment" =>
              /\ turn'[d].mid # 0 /\ turn'[d].mid \in DOMAIN activations'
              /\ activations'[turn'[d].mid] = [rev |-> turn[d].asg.rev + 1, stage |-> turn[d].next]
<1>1. CASE UNCHANGED activations /\ ~Posts(d)
  BY <1>1
<1>2. CASE Posts(d)
  <2>1. PICK m : m = [rev |-> turn[d].asg.rev + 1, stage |-> turn[d].next]
    OBVIOUS
  <2>2. m \in [rev : Nat, stage : Stages] /\ activations \in Seq([rev : Nat, stage : Stages])
    BY <2>1 DEF TypeOK, IsTurn, Assignments
  <2>3. PICK posted : posted = Append(activations, m)
    OBVIOUS
  <2>4. /\ DOMAIN activations = 1 .. Len(activations) /\ Len(activations) \in Nat
        /\ DOMAIN posted = 1 .. Len(posted) /\ Len(posted) = Len(activations) + 1
        /\ \A i \in 1 .. Len(activations) : posted[i] = activations[i]
        /\ posted[Len(posted)] = m
    <3>1. /\ posted \in Seq([rev : Nat, stage : Stages]) /\ Len(posted) = Len(activations) + 1
          /\ \A i \in 1 .. Len(activations) : posted[i] = activations[i]
          /\ posted[Len(activations) + 1] = m
      BY <2>2, <2>3, AppendProperties
    <3> QED BY <2>2, <3>1, LenProperties
  <2>5. activations' = activations \/ activations' = posted
    BY <1>2, <2>1, <2>3 DEF Posts
  <2>6. turn'[d].step = "saveAssignment" => activations' = posted /\ turn'[d].mid = Len(posted)
    BY <1>2, <2>1, <2>3 DEF Posts
  <2> QED BY <2>1, <2>4, <2>5, <2>6
<1> QED BY <1>1, <1>2 DEF Moves, Ends, Recovers, Loads, Accepted, Records, Saves

\* The turn that moves.
LEMMA MoverTold ==
  ASSUME TypeOK, NEW d \in Daemons, Told(turn[d]), Moves(d)
  PROVE  Told(turn[d])'
<1>1. CASE Ends(d)
  BY <1>1 DEF Ends, Told, Idle, BeforeSend
<1>2. CASE Recovers(d)
  BY <1>2 DEF Recovers, Told
<1>3. CASE Loads(d)
  BY <1>3 DEF Loads, Told, BeforeSend
<1>4. CASE Accepted(d)
  BY <1>4 DEF Accepted, Told, SameTurn, BeforeSend
<1>5. CASE Records(d)
  BY <1>5 DEF Records, Told, SameTurn, BeforeSend
<1>6. CASE Posts(d)
  BY <1>6, PostsKeep DEF Posts, Told, BeforeSend
<1>7. CASE Saves(d)
  BY <1>7 DEF Saves, Told, BeforeSend
<1> QED BY <1>1, <1>2, <1>3, <1>4, <1>5, <1>6, <1>7 DEF Moves

LEMMA ToldStep == ToldInv /\ [Next]_vars => ToldInv'
<1> SUFFICES ASSUME ToldInv, [Next]_vars PROVE ToldInv'
  OBVIOUS
<1>1. TypeOK'
  BY TypeStep DEF ToldInv
<1>2. CASE UNCHANGED vars
  BY <1>1, <1>2 DEF vars, ToldInv, Told, StageWasAnnounced
<1>3. ASSUME NEW d \in Daemons, DaemonStep(d) PROVE ToldInv'
  <2>1. Moves(d) /\ TypeOK
    BY <1>3, MovesBy DEF ToldInv
  <2>2. \A i \in DOMAIN activations :
          i \in DOMAIN activations' /\ activations'[i] = activations[i]
    BY <2>1, PostsKeep
  <2>3. ASSUME NEW e \in Daemons PROVE Told(turn[e])'
    <3>1. CASE e = d
      BY <2>1, <3>1, MoverTold DEF ToldInv
    <3>2. CASE e # d
      <4>1. turn'[e] = turn[e] /\ Told(turn[e])
        BY <2>1, <3>2 DEF ToldInv, Moves
      <4> QED BY <2>2, <4>1 DEF Told
    <3> QED BY <3>1, <3>2
  <2>4. StageWasAnnounced'
    <3>1. CASE UNCHANGED assignment
      BY <2>2, <3>1 DEF ToldInv, StageWasAnnounced
    <3>2. CASE Saves(d)
      <4>1. /\ assignment'.state = turn[d].next /\ assignment'.rev = turn[d].asg.rev + 1
            /\ assignment'.mid = turn[d].mid /\ turn[d].step = "saveAssignment"
            /\ activations' = activations
        BY <3>2 DEF Saves, Updated
      <4>2. Told(turn[d])
        BY DEF ToldInv
      <4> QED BY <4>1, <4>2 DEF Told, StageWasAnnounced
    <3> QED BY <2>1, <3>1, <3>2, OnlySavesMove
  <2> QED BY <1>1, <2>3, <2>4 DEF ToldInv
<1> QED BY <1>2, <1>3 DEF Next

LEMMA ToldAlways == Spec => []ToldInv
<1>1. Init => ToldInv
  <2> SUFFICES ASSUME Init PROVE ToldInv
    OBVIOUS
  <2>1. StageWasAnnounced
    BY DEF Init, NewAssignment, StageWasAnnounced
  <2>2. \A d \in Daemons : turn[d] = Idle
    BY DEF Init
  <2>3. \A d \in Daemons : Told(turn[d])
    BY <2>2 DEF Told, Idle, BeforeSend
  <2> QED BY <2>1, <2>3, InitType DEF ToldInv
<1> QED BY <1>1, ToldStep, PTL DEF Spec

\* However many daemons are inside on_turn_complete at once and whatever they
\* claim, crashes and failed saves included, the workflow never rests in a stage
\* whose bot was not told, and the message the assignment names is the one of its
\* revision and its stage.
THEOREM Announced == Spec => []StageWasAnnounced
<1>1. ToldInv => StageWasAnnounced
  BY DEF ToldInv
<1> QED BY <1>1, ToldAlways, PTL
-----------------------------------------------------------------------------
(* A DELIVERED row is about a commit that happened. *)

\* The delivered rows of l are about revisions the assignment has left, and name
\* the messages posted for them.
Committed(l) ==
  \A t \in DeliveredRows(l) :
    /\ Rev(t) < assignment.rev
    /\ l[t].mid # 0 => /\ l[t].mid \in DOMAIN activations
                       /\ activations[l[t].mid].rev = Rev(t) + 1

RowsCommitted == Committed(ledger) /\ \A d \in Daemons : Committed(turn[d].led)

DeliveryInv == WriterInv /\ ToldInv /\ RowsCommitted

\* What is inherited from rows that are committed is committed.
LEMMA InheritsCommitted ==
  ASSUME NEW l, NEW m, Committed(l), Inherits(l, m)
  PROVE  Committed(m)
BY DEF Committed, Inherits

\* Recovery delivers the row whose commit it sees in the assignment.
LEMMA ReconcileCommitted ==
  ASSUME TypeOK, StageWasAnnounced, NEW l, IsLedger(l), Committed(l),
         NEW asg \in {assignment, NewAssignment}
  PROVE  Committed(Reconcile(l, asg))
<1>1. PICK r : r = Reconcile(l, asg)
  OBVIOUS
<1>2. asg \in Assignments
  BY IdleType DEF TypeOK, IsTurn, Idle
<1>3. /\ DOMAIN r \subseteq DOMAIN l
      /\ \A t \in DOMAIN r :
           \/ r[t] = l[t]
           \/ /\ Advanced(t, assignment)
              /\ r[t] = [status |-> "DELIVERED", mid |-> assignment.mid]
  <2>1. \A t \in DOMAIN l : Advanced(t, asg) => asg = assignment
    BY NewProvesNothing DEF IsLedger
  <2>2. /\ DOMAIN r \subseteq DOMAIN l
        /\ \A t \in DOMAIN r :
             \/ r[t] = l[t]
             \/ Advanced(t, asg) /\ r[t] = [status |-> "DELIVERED", mid |-> asg.mid]
    BY <1>1, <1>2, ReconcileType
  <2> QED BY <2>1, <2>2
<1>4. assignment.rev \in Nat /\ \A t \in DOMAIN l : Rev(t) \in Nat
  BY DEF TypeOK, Assignments, IsLedger, TransitionIds, Rev
<1>5. ASSUME NEW t \in DeliveredRows(r)
      PROVE  /\ Rev(t) < assignment.rev
             /\ r[t].mid # 0 => /\ r[t].mid \in DOMAIN activations
                                /\ activations[r[t].mid].rev = Rev(t) + 1
  <2>1. t \in DOMAIN r /\ t \in DOMAIN l /\ r[t].status = "DELIVERED"
    BY <1>3 DEF DeliveredRows
  <2>2. CASE r[t] = l[t]
    <3>1. t \in DeliveredRows(l)
      BY <2>1, <2>2 DEF DeliveredRows
    <3> QED BY <2>2, <3>1 DEF Committed
  <2>3. CASE Advanced(t, assignment) /\ r[t].mid = assignment.mid
    BY <1>4, <2>1, <2>3 DEF Advanced, StageWasAnnounced
  <2> QED BY <1>3, <2>1, <2>2, <2>3
<1> QED BY <1>1, <1>5 DEF Committed

\* So does the turn that commits.
LEMMA MarkedCommitted ==
  ASSUME WriterInv, ToldInv, NEW d \in Daemons, Saves(d), Committed(turn[d].led)
  PROVE  Committed(turn[d].led)'
<1>1. /\ turn[d].asg = assignment /\ assignment' = Updated(turn[d])
      /\ IsTurn(turn[d]) /\ assignment \in Assignments
  BY SavesFacts
<1>2. PICK id \in TransitionIds : id = LedgerTransition(assignment) /\ Rev(id) = assignment.rev
  BY <1>1, CurrentType
<1>3. PICK l : l = turn[d].led
  OBVIOUS
<1>4. PICK mid \in Nat : mid = turn[d].mid
  BY <1>1 DEF IsTurn
<1>5. IsLedger(l) /\ Committed(l) /\ turn'[d].led = MarkDelivered(l, id, mid)
  BY <1>1, <1>2, <1>3, <1>4 DEF IsTurn, Saves
<1>6. /\ assignment'.rev = assignment.rev + 1 /\ assignment.rev \in Nat
      /\ activations' = activations
  BY <1>1 DEF Updated, Assignments, Saves
<1>7. \A t \in DOMAIN l : Rev(t) \in Nat
  BY <1>5 DEF IsLedger, TransitionIds, Rev
<1>8. mid # 0 => mid \in DOMAIN activations /\ activations[mid].rev = assignment.rev + 1
  <2>1. Told(turn[d]) /\ turn[d].step = "saveAssignment"
    BY DEF ToldInv, Saves
  <2> QED BY <1>1, <1>4, <2>1 DEF Told
<1>9. CASE id \in DOMAIN l /\ l[id].status = "PENDING"
  <2>1. PICK m : m = MarkDelivered(l, id, mid)
    OBVIOUS
  <2>2. /\ DOMAIN m \subseteq DOMAIN l
        /\ \A x \in DOMAIN m : x # id => m[x] = l[x]
        /\ id \in DOMAIN m => m[id] = [status |-> "DELIVERED", mid |-> mid]
    BY <1>5, <1>9, <2>1, MarkDeliveredType
  <2>3. ASSUME NEW t \in DeliveredRows(m)
        PROVE  /\ Rev(t) < assignment'.rev
               /\ m[t].mid # 0 => /\ m[t].mid \in DOMAIN activations
                                  /\ activations[m[t].mid].rev = Rev(t) + 1
    <3>1. CASE t = id
      BY <1>2, <1>6, <1>8, <2>2, <3>1 DEF DeliveredRows
    <3>2. CASE t # id
      <4>1. t \in DeliveredRows(l) /\ m[t] = l[t] /\ Rev(t) \in Nat
        BY <1>7, <2>2, <3>2 DEF DeliveredRows
      <4> QED BY <1>5, <1>6, <4>1 DEF Committed
    <3> QED BY <3>1, <3>2
  <2> QED BY <1>5, <1>6, <2>1, <2>3 DEF Committed
<1>10. CASE ~(id \in DOMAIN l /\ l[id].status = "PENDING")
  <2>1. turn'[d].led = l
    BY <1>5, <1>10 DEF MarkDelivered, StatusOf
  <2>2. \A t \in DeliveredRows(l) : Rev(t) \in Nat
    BY <1>7 DEF DeliveredRows
  <2> QED BY <1>5, <1>6, <2>1, <2>2 DEF Committed
<1> QED BY <1>9, <1>10

\* What was committed stays so.
LEMMA CommittedStays ==
  ASSUME WriterInv, NEW d \in Daemons, Moves(d), NEW l, IsLedger(l), Committed(l)
  PROVE  \A t \in DeliveredRows(l) :
           /\ Rev(t) < assignment'.rev
           /\ l[t].mid # 0 => /\ l[t].mid \in DOMAIN activations'
                              /\ activations'[l[t].mid].rev = Rev(t) + 1
<1>1. \A i \in DOMAIN activations : i \in DOMAIN activations' /\ activations'[i] = activations[i]
  BY PostsKeep DEF WriterInv
<1>2. assignment.rev \in Nat /\ \A t \in DeliveredRows(l) : Rev(t) \in Nat
  BY DEF WriterInv, TypeOK, Assignments, IsLedger, TransitionIds, Rev, DeliveredRows
<1>3. assignment'.rev = assignment.rev \/ assignment'.rev = assignment.rev + 1
  BY OnlySavesMove, SavesStep DEF AssignmentStep
<1> QED BY <1>1, <1>2, <1>3 DEF Committed

LEMMA DeliveryStep ==
  ASSUME OneWriter
  PROVE  DeliveryInv /\ [Next]_vars => DeliveryInv'
<1> SUFFICES ASSUME DeliveryInv, [Next]_vars PROVE RowsCommitted'
  BY WriterStep, ToldStep DEF DeliveryInv
<1>1. CASE UNCHANGED vars
  BY <1>1 DEF vars, DeliveryInv, RowsCommitted, Committed, DeliveredRows
<1>2. ASSUME NEW d \in Daemons, DaemonStep(d) PROVE RowsCommitted'
  <2>1. Moves(d) /\ TypeOK /\ StageWasAnnounced
    BY <1>2, MovesBy DEF DeliveryInv, WriterInv, ToldInv
  <2>2. /\ IsLedger(ledger) /\ Committed(ledger)
        /\ \A e \in Daemons : IsLedger(turn[e].led) /\ Committed(turn[e].led)
    BY DEF DeliveryInv, RowsCommitted, WriterInv, TypeOK, IsTurn
  <2>3. ASSUME NEW l, IsLedger(l), Committed(l), NEW m, Inherits(l, m)
        PROVE  \A t \in DeliveredRows(m) :
                 /\ Rev(t) < assignment'.rev
                 /\ m[t].mid # 0 => /\ m[t].mid \in DOMAIN activations'
                                    /\ activations'[m[t].mid].rev = Rev(t) + 1
    <3>1. \A t \in DeliveredRows(l) :
             /\ Rev(t) < assignment'.rev
             /\ l[t].mid # 0 => /\ l[t].mid \in DOMAIN activations'
                                /\ activations'[l[t].mid].rev = Rev(t) + 1
      BY <2>1, <2>3, CommittedStays DEF DeliveryInv
    <3> QED BY <2>3, <3>1 DEF Inherits
  <2>4. Committed(ledger)'
    <3>1. ledger' = ledger \/ ledger' = turn[d].led
      BY <2>1 DEF Moves, LedgerMoves
    <3>2. Inherits(ledger, ledger) /\ Inherits(turn[d].led, turn[d].led)
      BY EmptyInherits
    <3> QED BY <2>2, <2>3, <3>1, <3>2 DEF Committed
  <2>5. ASSUME NEW e \in Daemons, e # d PROVE Committed(turn[e].led)'
    <3>1. turn'[e] = turn[e] /\ Inherits(turn[e].led, turn[e].led)
      BY <2>1, <2>5, EmptyInherits DEF Moves
    <3> QED BY <2>2, <2>3, <3>1 DEF Committed
  <2>6. Committed(turn[d].led)'
    <3>1. CASE Inherits(turn[d].led, turn'[d].led) \/ Inherits(ledger, turn'[d].led)
      BY <2>2, <2>3, <3>1 DEF Committed
    <3>2. CASE /\ turn[d].step = "classify" /\ UNCHANGED assignment
               /\ \E asg \in {assignment, NewAssignment} :
                    turn'[d].led = Reconcile(turn[d].led, asg)
      <4>0. PICK asg \in {assignment, NewAssignment} :
              turn'[d].led = Reconcile(turn[d].led, asg)
        BY <3>2
      <4>1. PICK r : r = Reconcile(turn[d].led, asg)
        OBVIOUS
      <4>2. IsLedger(r) /\ Committed(r) /\ Inherits(r, r)
        <5>1. IsLedger(r)
          <6> asg \in Assignments
            BY <2>1, IdleType DEF TypeOK, IsTurn, Idle
          <6> QED BY <2>2, <4>1, ReconcileType
        <5> QED BY <2>1, <2>2, <4>1, <5>1, ReconcileCommitted, EmptyInherits
      <4> QED BY <2>3, <4>0, <4>1, <4>2 DEF Committed
    <3>3. CASE Saves(d)
      BY <2>2, <3>3, MarkedCommitted DEF DeliveryInv
    <3> QED BY <2>1, <3>1, <3>2, <3>3 DEF Moves, LedgerMoves
  <2> QED BY <2>4, <2>5, <2>6 DEF RowsCommitted
<1> QED BY <1>1, <1>2 DEF Next

\* A DELIVERED row, whichever turn or recovery wrote it and whatever older copy of
\* the ledger a slower turn has put back since, is about a commit that happened,
\* and names the message posted for it (mark_delivered, recovery's classification
\* of the PENDING rows).
THEOREM DeliveredAreCommitted ==
  ASSUME OneWriter
  PROVE  Spec => []DeliveredIsCommitted
<1>1. Init => DeliveryInv
  <2> SUFFICES ASSUME Init PROVE DeliveryInv
    OBVIOUS
  <2>1. WriterInv
    BY WriterInit
  <2>2. ToldInv
    <3>1. StageWasAnnounced
      BY DEF Init, NewAssignment, StageWasAnnounced
    <3>2. \A d \in Daemons : turn[d] = Idle
      BY DEF Init
    <3>3. \A d \in Daemons : Told(turn[d])
      BY <3>2 DEF Told, Idle, BeforeSend
    <3> QED BY <3>1, <3>3, InitType DEF ToldInv
  <2>3. RowsCommitted
    <3>1. ledger = EmptyLedger /\ \A d \in Daemons : turn[d].led = EmptyLedger
      BY DEF Init, Idle
    <3>2. DeliveredRows(EmptyLedger) = {}
      BY DEF DeliveredRows, EmptyLedger
    <3> QED BY <3>1, <3>2 DEF RowsCommitted, Committed
  <2> QED BY <2>1, <2>2, <2>3 DEF DeliveryInv
<1>2. DeliveryInv => DeliveredIsCommitted
  BY DEF DeliveryInv, RowsCommitted, Committed, DeliveredIsCommitted
<1>3. DeliveryInv /\ [Next]_vars => DeliveryInv'
  BY DeliveryStep
<1> QED BY <1>1, <1>2, <1>3, PTL DEF Spec
-----------------------------------------------------------------------------
(* The work is bounded. *)

\* How many commits of a round lie behind a stage; a correction begins a new
\* round.
Behind(stage) ==
  CASE stage = "VERIFIER_ACTIVE"       -> 1
    [] stage = "FINAL_REVIEWER_ACTIVE" -> 2
    [] stage \in Terminal              -> 3
    [] OTHER                           -> 0

WorkInv ==
  /\ WriterInv
  /\ assignment.loops <= DefectLoopMax
  /\ assignment.rev <= Behind(assignment.state) + 3 * assignment.loops

\* The stage of an accepted claim lies forward in its round, or begins the next
\* round.
LEMMA GoesForward ==
  ASSUME WorkInv, NEW t, Chosen(t), t.asg = assignment
  PROVE  LET loops == LoopsAfter(t.next, t.claim[1], assignment.loops) IN
         /\ loops \in Nat /\ loops <= DefectLoopMax
         /\ assignment.rev \in Nat /\ assignment.rev + 1 <= Behind(t.next) + 3 * loops
<1>1. /\ assignment.rev \in Nat /\ assignment.loops \in Nat
      /\ assignment.loops <= DefectLoopMax
      /\ assignment.rev <= Behind(assignment.state) + 3 * assignment.loops
  BY DEF WorkInv, WriterInv, TypeOK, Assignments
<1>2. PICK n \in Stages :
        /\ <<assignment.state, t.claim[1], t.claim[2], n>> \in Transitions
        /\ t.next = EffectiveNext(n, assignment.loops)
  BY DEF Chosen, Legal
<1>3. PICK l : l = LoopsAfter(t.next, t.claim[1], assignment.loops)
  OBVIOUS
<1>4. CASE t.next = "PRIMARY_CORRECTION_PENDING"
  <2>1. assignment.loops = 0 /\ l = 1
    BY <1>1, <1>3, <1>4, ChosenCorrection
  <2>2. Behind(assignment.state) <= 2 /\ Behind(assignment.state) \in Nat
    BY <1>2, <1>4 DEF Transitions, Behind, Terminal
  <2>3. Behind(t.next) = 0
    BY <1>4 DEF Behind, Terminal
  <2>4. l \in Nat /\ l <= DefectLoopMax /\ assignment.rev + 1 <= Behind(t.next) + 3 * l
    BY <1>1, <2>1, <2>2, <2>3 DEF DefectLoopMax
  <2> QED BY <1>1, <1>3, <2>4
<1>5. CASE t.next # "PRIMARY_CORRECTION_PENDING"
  <2>1. l = assignment.loops
    BY <1>3, <1>5 DEF LoopsAfter
  <2>2. /\ Behind(assignment.state) + 1 <= Behind(t.next)
        /\ Behind(assignment.state) \in Nat /\ Behind(t.next) \in Nat
    BY <1>2, <1>5 DEF Transitions, Behind, Terminal, EffectiveNext
  <2>3. l \in Nat /\ l <= DefectLoopMax /\ assignment.rev + 1 <= Behind(t.next) + 3 * l
    BY <1>1, <2>1, <2>2
  <2> QED BY <1>1, <1>3, <2>3
<1> QED BY <1>4, <1>5

LEMMA CommitsGoForward ==
  ASSUME WorkInv, NEW d \in Daemons, Saves(d)
  PROVE  /\ assignment'.loops <= DefectLoopMax
         /\ assignment'.rev <= Behind(assignment'.state) + 3 * assignment'.loops
<1>1. turn[d].asg = assignment /\ Chosen(turn[d]) /\ assignment' = Updated(turn[d])
  BY SavesFacts DEF WorkInv
<1>2. /\ assignment'.state = turn[d].next /\ assignment'.rev = assignment.rev + 1
      /\ assignment'.loops = LoopsAfter(turn[d].next, turn[d].claim[1], assignment.loops)
  BY <1>1 DEF Updated
<1> QED BY <1>1, <1>2, GoesForward

LEMMA WorkStep == OneWriter /\ WorkInv /\ [Next]_vars => WorkInv'
<1> SUFFICES ASSUME OneWriter, WorkInv, [Next]_vars
             PROVE  /\ assignment'.loops <= DefectLoopMax
                    /\ assignment'.rev <= Behind(assignment'.state) + 3 * assignment'.loops
  BY WriterStep DEF WorkInv
<1>1. CASE UNCHANGED assignment
  BY <1>1 DEF WorkInv
<1>2. ASSUME NEW d \in Daemons, DaemonStep(d) PROVE Saves(d) \/ UNCHANGED assignment
  BY <1>2, MovesBy, OnlySavesMove DEF WorkInv, WriterInv
<1>3. (\E d \in Daemons : Saves(d)) \/ UNCHANGED assignment
  BY <1>2 DEF Next, vars
<1> QED BY <1>1, <1>3, CommitsGoForward

LEMMA WorkAlways ==
  ASSUME OneWriter
  PROVE  Spec => []WorkInv
<1>1. Init => WorkInv
  <2> SUFFICES ASSUME Init PROVE WorkInv
    OBVIOUS
  <2>1. /\ assignment.loops = 0 /\ assignment.rev = 0
        /\ Behind(assignment.state) = 0
    BY DEF Init, NewAssignment, Behind, Terminal
  <2> QED BY <2>1, WriterInit DEF WorkInv, DefectLoopMax
<1> QED BY <1>1, WorkStep, PTL DEF Spec

\* The three bots cannot keep each other at work for ever: whatever they claim and
\* however often daemons crash and retry, a workflow is over after six commits,
\* two rounds of three (SUPPORTED_DEFECT_LOOP_MAX, and the terminal stages).
THEOREM WorkIsBounded ==
  ASSUME OneWriter
  PROVE  Spec => [](assignment.rev <= 3 * (DefectLoopMax + 1))
<1>1. WorkInv => assignment.rev <= 3 * (DefectLoopMax + 1)
  <2> SUFFICES ASSUME WorkInv PROVE assignment.rev <= 3 * (DefectLoopMax + 1)
    OBVIOUS
  <2>1. assignment.loops \in Nat /\ assignment.rev \in Nat
    BY DEF WorkInv, WriterInv, TypeOK, Assignments
  <2>2. Behind(assignment.state) \in 0 .. 3
    BY DEF Behind
  <2>3. DefectLoopMax = 1
    BY DEF DefectLoopMax
  <2> QED BY <2>1, <2>2, <2>3 DEF WorkInv
<1> QED BY <1>1, WorkAlways, PTL
-----------------------------------------------------------------------------
(* And so are the messages. *)

\* The last revision that a bot can be woken for.
LastWoken == 3 * DefectLoopMax + 2

\* Every message is about one of the first revisions.
Paced == \A i \in DOMAIN activations : activations[i].rev \in 1 .. LastWoken

PacedInv == WorkInv /\ ToldInv /\ Paced

\* A message about the stage that a claim leads to.
LEMMA NextIsPaced ==
  ASSUME WorkInv, NEW d \in Daemons, turn[d].step = "send", Told(turn[d])
  PROVE  turn[d].asg.rev + 1 \in 1 .. LastWoken
<1>1. WriterOf(d)
  BY DEF WorkInv, WriterInv
<1>2. turn[d].step \in WithSnapshot /\ turn[d].step \in Committing
  BY DEF WithSnapshot, Committing
<1>3. Chosen(turn[d]) /\ turn[d].asg = assignment
  BY <1>1, <1>2 DEF WriterOf, Serves, Chosen
<1>4. SendRequired(turn[d].next)
  BY DEF Told
<1>5. Behind(turn[d].next) \in 0 .. 2
  BY <1>4 DEF SendRequired, Behind, Terminal
<1>6. PICK l : l = LoopsAfter(turn[d].next, turn[d].claim[1], assignment.loops)
  OBVIOUS
<1>7. /\ l \in Nat /\ l <= DefectLoopMax
      /\ assignment.rev \in Nat /\ assignment.rev + 1 <= Behind(turn[d].next) + 3 * l
  BY <1>3, <1>6, GoesForward
<1>8. assignment.rev + 1 \in 1 .. LastWoken
  BY <1>5, <1>7 DEF LastWoken, DefectLoopMax
<1> QED BY <1>3, <1>8

LEMMA PacedStep == OneWriter /\ PacedInv /\ [Next]_vars => PacedInv'
<1> SUFFICES ASSUME OneWriter, PacedInv, [Next]_vars PROVE Paced'
  BY WorkStep, ToldStep DEF PacedInv
<1>1. CASE UNCHANGED activations
  BY <1>1 DEF PacedInv, Paced
<1>2. ASSUME NEW d \in Daemons, Posts(d) PROVE Paced'
  <2>1. PICK m : m = [rev |-> turn[d].asg.rev + 1, stage |-> turn[d].next]
    OBVIOUS
  <2>2. m \in [rev : Nat, stage : Stages] /\ activations \in Seq([rev : Nat, stage : Stages])
    BY <2>1 DEF PacedInv, ToldInv, TypeOK, IsTurn, Assignments
  <2>3. m.rev \in 1 .. LastWoken
    <3>1. turn[d].step = "send"
      BY <1>2 DEF Posts
    <3>2. Told(turn[d]) /\ WorkInv
      BY DEF PacedInv, ToldInv
    <3> QED BY <2>1, <3>1, <3>2, NextIsPaced
  <2>4. activations' = activations \/ activations' = Append(activations, m)
    BY <1>2, <2>1 DEF Posts
  <2>5. ASSUME activations' = Append(activations, m), NEW i \in DOMAIN activations'
        PROVE  activations'[i].rev \in 1 .. LastWoken
    <3>1. /\ DOMAIN activations = 1 .. Len(activations) /\ Len(activations) \in Nat
          /\ DOMAIN activations' = 1 .. Len(activations) + 1
          /\ \A j \in 1 .. Len(activations) : activations'[j] = activations[j]
          /\ activations'[Len(activations) + 1] = m
      <4>1. Append(activations, m) \in Seq([rev : Nat, stage : Stages])
        BY <2>2, AppendProperties
      <4> QED BY <2>2, <2>5, <4>1, AppendProperties, LenProperties
    <3>2. CASE i = Len(activations) + 1
      BY <2>3, <3>1, <3>2
    <3>3. CASE i # Len(activations) + 1
      <4>1. i \in DOMAIN activations /\ activations'[i] = activations[i]
        BY <2>5, <3>1, <3>3
      <4> QED BY <4>1 DEF PacedInv, Paced
    <3> QED BY <3>2, <3>3
  <2> QED BY <1>1, <2>4, <2>5 DEF Paced
<1>3. ASSUME NEW d \in Daemons, DaemonStep(d) PROVE Posts(d) \/ UNCHANGED activations
  BY <1>3, MovesBy DEF PacedInv, ToldInv, Moves, Ends, Recovers, Loads, Accepted, Records, Saves
<1>4. (\E d \in Daemons : Posts(d)) \/ UNCHANGED activations
  BY <1>3 DEF Next, vars
<1> QED BY <1>1, <1>2, <1>4

LEMMA PacedAlways ==
  ASSUME OneWriter
  PROVE  Spec => []Paced
<1>1. Init => Paced
  BY DEF Init, Paced
<1>2. PacedInv => Paced
  BY DEF PacedInv
<1>3. Paced /\ WorkInv /\ ToldInv => PacedInv
  BY DEF PacedInv
<1> QED BY <1>1, <1>2, <1>3, PacedStep, WorkAlways, ToldAlways, PTL DEF Spec

\* Different numbers between 1 and m are not more than m.
LEMMA NoMoreThan ==
  ASSUME NEW n \in Nat, NEW m \in Nat, NEW f \in [1 .. n -> 1 .. m],
         \A x, y \in 1 .. n : f[x] = f[y] => x = y
  PROVE  n <= m
<1>1. IsFiniteSet(1 .. n) /\ Cardinality(1 .. n) = n
  <2>1. 1 \in Int /\ n \in Int /\ (IF 1 > n THEN 0 ELSE n - 1 + 1) = n
    OBVIOUS
  <2>2. IsFiniteSet(1 .. n) /\ Cardinality(1 .. n) = IF 1 > n THEN 0 ELSE n - 1 + 1
    BY <2>1, FS_Interval
  <2> QED BY <2>1, <2>2
<1>2. IsFiniteSet(1 .. m) /\ Cardinality(1 .. m) = m
  <2>1. 1 \in Int /\ m \in Int /\ (IF 1 > m THEN 0 ELSE m - 1 + 1) = m
    OBVIOUS
  <2>2. IsFiniteSet(1 .. m) /\ Cardinality(1 .. m) = IF 1 > m THEN 0 ELSE m - 1 + 1
    BY <2>1, FS_Interval
  <2> QED BY <2>1, <2>2
<1>3. ~(Cardinality(1 .. m) < Cardinality(1 .. n))
  <2> SUFFICES ASSUME Cardinality(1 .. m) < Cardinality(1 .. n) PROVE FALSE
    OBVIOUS
  <2>1. \E x, y \in 1 .. n : x # y /\ f[x] = f[y]
    BY <1>1, <1>2, FS_PigeonHole
  <2> QED BY <2>1
<1> QED BY <1>1, <1>2, <1>3

\* When turns do not overlap, a project costs its bots five messages at most,
\* whatever they claim, and however many sends time out, daemons crash, saves fail
\* and recoveries are gone through: no revision is announced twice and only five
\* of them are announced (commit_protocol; SUPPORTED_DEFECT_LOOP_MAX).
THEOREM MessagesAreFew ==
  ASSUME Overlap = FALSE
  PROVE  Spec => [](Len(activations) <= 3 * DefectLoopMax + 2)
<1>1. OneWriter
  BY DEF OneWriter
<1>2. TypeOK /\ AtMostOneActivation /\ Paced => Len(activations) <= 3 * DefectLoopMax + 2
  <2> SUFFICES ASSUME TypeOK, AtMostOneActivation, Paced
               PROVE  Len(activations) <= LastWoken
    BY DEF LastWoken
  <2>1. /\ DOMAIN activations = 1 .. Len(activations) /\ Len(activations) \in Nat
    BY LenProperties DEF TypeOK
  <2>2. LastWoken \in Nat
    BY DEF LastWoken, DefectLoopMax
  <2>3. PICK f : f = [i \in 1 .. Len(activations) |-> activations[i].rev]
    OBVIOUS
  <2>4. f \in [1 .. Len(activations) -> 1 .. LastWoken]
    BY <2>1, <2>3 DEF Paced
  <2>5. \A x, y \in 1 .. Len(activations) : f[x] = f[y] => x = y
    BY <2>1, <2>3 DEF AtMostOneActivation
  <2> QED BY <2>1, <2>2, <2>4, <2>5, NoMoreThan
<1> QED BY <1>1, <1>2, TypeCorrect, NoDuplicateActivation, PacedAlways, PTL
=============================================================================
