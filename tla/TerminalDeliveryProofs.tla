----------------------- MODULE TerminalDeliveryProofs -----------------------
(***************************************************************************)
(* For any number of turns and managers, crashes and attempts: the row's   *)
(* revision and lease keep the answer from being posted twice, and what    *)
(* the row says of it is true.                                             *)
(***************************************************************************)
EXTENDS TerminalDelivery, FiniteSetTheorems, TLAPS

WorkerStates == [step : Steps, snap : Records, tries : Nat, mid : Nat]

\* Where a worker is between its claim and the end of it.
InClaim == {"send", "evidence", "deliver", "retry", "exhausted", "reject", "ambiguous"}

Unsent == {"NONE", "PENDING_RESULT", "READY_TO_DELIVER", "RETRY_SCHEDULED",
           "PERMANENT_REJECTED"}

\* While the revisions agree, a snapshot is the row, but for its times.
SameRow(snap, row) == /\ snap.state = row.state
                      /\ snap.mid = row.mid
                      /\ snap.lease = row.lease

\* The states a worker's snapshot may be in.
SnapState(v) ==
  /\ v.step \in {"materialize", "recoverPending"} => v.snap.state = "PENDING_RESULT"
  /\ v.step \in {"claim", "reread", "recheck"} => v.snap.state \in Claimable
  /\ v.step \in InClaim \cup {"recoverStale"} => v.snap.state = "DELIVERING"
  /\ v.step = "hold" => v.snap.state = "RETRY_SCHEDULED"
  /\ v.step \in {"claimRead", "read", "verified", "ifExhausted", "holdAmbiguous"}
       => v.snap.state = "AMBIGUOUS"
  /\ v.step \in {"claimRead", "read", "verified"} => v.snap.mid # 0

SnapFits(v, row) ==
  v.step # "idle" => /\ row.state # "NONE"
                     /\ v.snap.rev <= row.rev
                     /\ v.snap.rev = row.rev => SameRow(v.snap, row)
                     /\ SnapState(v)

\* A worker within its claim: the row is not ready for another, and what the worker
\* knows of Discord is so.
ClaimFits(v, row, posted, sent) ==
  v.step \in InClaim =>
    /\ row.state \notin Unsent
    /\ v.step = "send" => posted = 0 /\ sent < row.attempts
    /\ v.step \in {"retry", "exhausted", "reject"} => posted = 0
    /\ v.step = "evidence" => v.mid \in 1 .. posted
    /\ v.step = "deliver" => v.snap.mid \in 1 .. posted

RowFits(row, posted, sent) ==
  /\ row.state = "NONE" => row = NoRecord
  /\ posted <= 1
  /\ row.state \in Unsent => posted = 0
  /\ row.mid <= posted
  /\ row.state = "DELIVERED" => row.mid # 0
  /\ sent <= row.attempts

SnapsFit == \A w \in Workers : SnapFits(worker[w], rec)
ClaimsFit == \A w \in Workers : ClaimFits(worker[w], rec, posts, sends)

\* One worker at a time is within a claim.
OneClaim == \A w, x \in Workers :
              worker[w].step \in InClaim /\ worker[x].step \in InClaim => w = x

\* The inductive invariant.
IInv == TypeOK /\ SnapsFit /\ ClaimsFit /\ OneClaim /\ RowFits(rec, posts, sends)

-----------------------------------------------------------------------------
(* Lemmas on the steps' shapes. *)

\* A worker with nothing in memory is well formed.
LEMMA IdleFits == Idle \in WorkerStates /\ Idle.step = "idle"
  BY DEF Idle, WorkerStates, Steps, Records, NoRecord

\* What the state machine allows, by the state that is entered.
LEMMA MovesInto ==
  ASSUME NEW s
  PROVE  /\ <<s, "READY_TO_DELIVER">> \in Moves => s \in {"PENDING_RESULT", "OPERATOR_HOLD"}
         /\ <<s, "DELIVERING">> \in Moves => s \in Claimable
         /\ <<s, "RETRY_SCHEDULED">> \in Moves => s = "DELIVERING"
         /\ <<s, "PERMANENT_REJECTED">> \in Moves => s \in {"DELIVERING", "OPERATOR_HOLD"}
         /\ <<s, "AMBIGUOUS">> \in Moves => s = "DELIVERING"
         /\ <<s, "DELIVERED">> \in Moves => s \in {"DELIVERING", "AMBIGUOUS", "OPERATOR_HOLD"}
         /\ <<s, "OPERATOR_HOLD">> \in Moves
              => s \in {"PENDING_RESULT", "READY_TO_DELIVER", "RETRY_SCHEDULED", "AMBIGUOUS"}
  BY DEF Moves, Claimable

\* A step that moves one worker from v to a state that fits, and the row forward
\* or only in time, preserves the invariant if nobody else is within a claim
\* whenever that worker enters one or the history or the row's standing changes.
LEMMA StepPreserves ==
  ASSUME IInv, NEW w \in Workers, NEW v \in WorkerStates,
         worker' = [worker EXCEPT ![w] = v],
         rec' \in Records, {reads', sends', posts', gets', faults'} \subseteq Nat,
         rec'.lease # 0 <=> rec'.state = "DELIVERING",
         rec'.rev > rec.rev \/ (rec'.rev = rec.rev /\ SameRow(rec', rec)),
         rec.state # "NONE" => rec'.state # "NONE",
         SnapFits(v, rec'),
         ClaimFits(v, rec', posts', sends'),
         RowFits(rec', posts', sends'),
         \/ worker[w].step \in InClaim
         \/ v.step \in InClaim /\ rec.state \in Unsent
         \/ /\ v.step \notin InClaim
            /\ rec'.state \in Unsent => rec.state \in Unsent
            /\ rec'.attempts = rec.attempts
            /\ posts' = posts /\ sends' = sends
  PROVE  IInv'
<1> USE DEF WorkerStates
<1>1. TypeOK'
  BY DEF IInv, TypeOK
<1>2. SnapsFit'
  <2> SUFFICES ASSUME NEW x \in Workers
               PROVE  SnapFits(worker'[x], rec')
    BY DEF SnapsFit
  <2>1. CASE x = w
    BY <2>1 DEF IInv, TypeOK
  <2>2. CASE x # w
    <3>1. worker'[x] = worker[x] /\ worker[x] \in WorkerStates
      BY <2>2 DEF IInv, TypeOK
    <3>2. SnapFits(worker[x], rec)
      BY DEF IInv, SnapsFit
    <3>3. rec.rev \in Nat /\ rec'.rev \in Nat /\ worker[x].snap.rev \in Nat
      BY <3>1 DEF IInv, TypeOK, Records
    <3> QED
      BY <3>1, <3>2, <3>3 DEF SnapFits, SameRow
  <2> QED
    BY <2>1, <2>2
<1>3. ClaimsFit'
  <2> SUFFICES ASSUME NEW x \in Workers
               PROVE  ClaimFits(worker'[x], rec', posts', sends')
    BY DEF ClaimsFit
  <2>1. CASE x = w
    BY <2>1 DEF IInv, TypeOK
  <2>2. CASE x # w
    <3>1. worker'[x] = worker[x]
      BY <2>2 DEF IInv, TypeOK
    <3>2. ClaimFits(worker[x], rec, posts, sends)
      BY DEF IInv, ClaimsFit
    <3>3. CASE worker[w].step \in InClaim
      BY <2>2, <3>1, <3>3 DEF IInv, OneClaim, ClaimFits
    <3>4. CASE rec.state \in Unsent
      BY <3>1, <3>2, <3>4 DEF ClaimFits
    <3>5. CASE /\ rec'.state \in Unsent => rec.state \in Unsent
               /\ rec'.attempts = rec.attempts
               /\ posts' = posts /\ sends' = sends
      BY <3>1, <3>2, <3>5 DEF ClaimFits
    <3> QED
      BY <3>3, <3>4, <3>5
  <2> QED
    BY <2>1, <2>2
<1>4. OneClaim'
  <2> SUFFICES ASSUME NEW x \in Workers, NEW y \in Workers,
                      worker'[x].step \in InClaim, worker'[y].step \in InClaim,
                      x # y
               PROVE  FALSE
    BY DEF OneClaim
  <2>1. \A z \in Workers : z # w => worker'[z] = worker[z]
    BY DEF IInv, TypeOK
  <2>2. worker'[w] = v
    BY DEF IInv, TypeOK
  <2>3. \A z \in Workers : worker[z].step \in InClaim => rec.state \notin Unsent
    BY DEF IInv, ClaimsFit, ClaimFits
  <2>4. PICK z \in {x, y} : z # w
    OBVIOUS
  <2>5. worker[z].step \in InClaim
    BY <2>1, <2>4
  <2>6. z \in Workers
    BY <2>4
  <2>7. worker[w].step \notin InClaim
    BY <2>4, <2>5, <2>6 DEF IInv, OneClaim
  <2>8. rec.state \notin Unsent
    BY <2>3, <2>5, <2>6
  <2>9. v.step \notin InClaim
    BY <2>7, <2>8
  <2>10. x # w /\ y # w
    BY <2>2, <2>9
  <2> QED
    BY <2>1, <2>10 DEF IInv, OneClaim
<1> QED
  BY <1>1, <1>2, <1>3, <1>4 DEF IInv

\* The invariant holds at first.
LEMMA InitHolds == Init => IInv
  BY IdleFits DEF Init, IInv, TypeOK, SnapsFit, ClaimsFit, OneClaim, RowFits, SnapFits,
     ClaimFits, Records, NoRecord, WorkerStates, InClaim

\* A worker that gives up leaves everything in order.
LEMMA FinishPreserves ==
  ASSUME IInv, NEW w \in Workers, Finish(w), faults' \in Nat,
         UNCHANGED <<rec, reads, sends, posts, gets>>
  PROVE  IInv'
<1>1. SnapFits(Idle, rec') /\ ClaimFits(Idle, rec', posts', sends')
  BY IdleFits DEF SnapFits, ClaimFits, InClaim
<1>2. RowFits(rec', posts', sends')
  BY DEF IInv
<1>3. rec.rev \in Nat
  BY DEF IInv, TypeOK, Records
<1> QED
  BY <1>1, <1>2, <1>3, IdleFits, StepPreserves
     DEF IInv, TypeOK, Finish, InClaim, SameRow

\* A worker that reads the row, or goes on with what it has, outside a claim.
LEMMA MovesOn ==
  ASSUME IInv, NEW w \in Workers, NEW v \in WorkerStates,
         worker' = [worker EXCEPT ![w] = v],
         SnapFits(v, rec), v.step \notin InClaim,
         UNCHANGED <<rec, sends, posts>>, {reads', gets', faults'} \subseteq Nat
  PROVE  IInv'
<1>1. SnapFits(v, rec') /\ ClaimFits(v, rec', posts', sends')
  BY DEF ClaimFits
<1>2. RowFits(rec', posts', sends')
  BY DEF IInv
<1>3. rec.rev \in Nat
  BY DEF IInv, TypeOK, Records
<1> QED
  BY <1>1, <1>2, <1>3, StepPreserves DEF IInv, TypeOK, SameRow

\* Time changes nothing the invariant speaks of.
LEMMA TimePassesPreserves == IInv /\ TimePasses => IInv'
<1> SUFFICES ASSUME IInv, TimePasses PROVE IInv'
  OBVIOUS
<1>1. /\ rec' \in Records /\ rec'.rev = rec.rev /\ rec'.attempts = rec.attempts
      /\ SameRow(rec', rec)
  BY DEF TimePasses, IInv, TypeOK, Records, SameRow
<1>2. UNCHANGED <<reads, worker, sends, posts, gets, faults>>
  BY DEF TimePasses
<1>3. TypeOK'
  BY <1>1, <1>2 DEF IInv, TypeOK, SameRow
<1>4. SnapsFit'
  BY <1>1, <1>2 DEF IInv, SnapsFit, SnapFits, SameRow
<1>5. ClaimsFit' /\ OneClaim'
  BY <1>1, <1>2 DEF IInv, ClaimsFit, ClaimFits, OneClaim, SameRow
<1>6. rec.state # "NONE"
  BY DEF TimePasses, IInv, RowFits, NoRecord
<1>7. RowFits(rec', posts', sends')
  BY <1>1, <1>2, <1>6 DEF IInv, RowFits, SameRow
<1> QED
  BY <1>3, <1>4, <1>5, <1>7 DEF IInv

-----------------------------------------------------------------------------
(* The live turn. *)

\* create_or_reuse keeps the invariant: the row is created only if there is none.
LEMMA CapturePreserves ==
  ASSUME IInv, NEW w \in Workers, Capture(w) PROVE IInv'
<1> DEFINE row == IF rec.state = "NONE" THEN [NoRecord EXCEPT !.state = "PENDING_RESULT"]
                                        ELSE rec
           v(step) == [worker[w] EXCEPT !.snap = row, !.step = step]
<1>1. /\ row \in Records /\ rec.rev \in Nat /\ rec \in Records
      /\ worker[w] \in WorkerStates
  BY DEF IInv, TypeOK, Records, NoRecord, States, WorkerStates
<1>2. /\ rec' = row
      /\ \/ row.state = "PENDING_RESULT" /\ worker' = [worker EXCEPT ![w] = v("materialize")]
         \/ row.state \in Claimable /\ worker' = [worker EXCEPT ![w] = v("claim")]
         \/ Finish(w)
      /\ UNCHANGED <<reads, sends, posts, gets, faults>>
      /\ worker[w].step = "idle"
  BY DEF Capture, Holding, Go
<1>3. CASE rec.state # "NONE"
  <2>1. rec' = rec
    BY <1>2, <1>3
  <2>2. CASE Finish(w)
    BY <1>2, <2>1, <2>2, FinishPreserves DEF IInv, TypeOK
  <2>3. ASSUME NEW step \in {"materialize", "claim"},
               step = "materialize" => rec.state = "PENDING_RESULT",
               step = "claim" => rec.state \in Claimable,
               worker' = [worker EXCEPT ![w] = v(step)]
        PROVE  IInv'
    <3>1. v(step) \in WorkerStates /\ v(step).step = step /\ v(step).snap = rec
      BY <1>1, <1>3, <2>3 DEF WorkerStates, Steps
    <3>2. SnapFits(v(step), rec)
      BY <1>1, <1>3, <2>3, <3>1 DEF SnapFits, SnapState, SameRow, InClaim
    <3>3. v(step).step \notin InClaim
      BY <3>1 DEF InClaim
    <3> HIDE DEF v
    <3> QED
      BY <1>2, <2>1, <2>3, <3>1, <3>2, <3>3, MovesOn DEF IInv, TypeOK
  <2> QED
    BY <1>2, <1>3, <2>1, <2>2, <2>3
<1>4. CASE rec.state = "NONE"
  <2>1. /\ row.state = "PENDING_RESULT" /\ row.rev = 0 /\ row.attempts = 0 /\ row.mid = 0
        /\ row.lease = 0
    BY <1>4 DEF NoRecord
  <2> DEFINE u == v("materialize")
  <2>2. \A x \in Workers : worker[x].step = "idle"
    BY <1>4 DEF IInv, SnapsFit, SnapFits
  <2>3. posts = 0 /\ sends = 0
    BY <1>4 DEF IInv, TypeOK, RowFits, Unsent, NoRecord
  <2>4. u \in WorkerStates /\ u.step = "materialize" /\ u.snap = row
    BY <1>1 DEF WorkerStates, Steps
  <2>5. worker' = [worker EXCEPT ![w] = u] \/ worker' = [worker EXCEPT ![w] = Idle]
    BY <1>2, <2>1 DEF Claimable, Finish
  <2>6. PICK i \in {u, Idle} : worker' = [worker EXCEPT ![w] = i]
    BY <2>5
  <2>7. i \in WorkerStates /\ i.step \notin InClaim /\ SnapFits(i, rec')
    <3>1. CASE i = u
      <4>1. SnapState(u)
        BY <2>1, <2>4 DEF SnapState, InClaim
      <4>2. rec' = row /\ u.snap.rev <= row.rev /\ row.state # "NONE"
        BY <1>1, <1>2, <2>1, <2>4
      <4> HIDE DEF u
      <4> QED
        BY <2>4, <3>1, <4>1, <4>2 DEF InClaim, SnapFits, SameRow
    <3>2. CASE i = Idle
      BY <3>2, IdleFits DEF InClaim, SnapFits
    <3> QED
      BY <2>6, <3>1, <3>2
  <2> HIDE DEF u
  <2>8. \A x \in Workers : worker'[x].step \notin InClaim /\ SnapFits(worker'[x], rec')
    <3> SUFFICES ASSUME NEW x \in Workers
                 PROVE  worker'[x].step \notin InClaim /\ SnapFits(worker'[x], rec')
      OBVIOUS
    <3>1. CASE x = w
      BY <2>6, <2>7, <3>1 DEF IInv, TypeOK
    <3>2. CASE x # w
      <4>1. worker'[x].step = "idle"
        BY <2>2, <2>6, <3>2 DEF IInv, TypeOK
      <4> QED
        BY <4>1 DEF SnapFits, InClaim
    <3> QED
      BY <3>1, <3>2
  <2>9. TypeOK'
    BY <1>1, <1>2, <2>1, <2>6, <2>7 DEF IInv, TypeOK, WorkerStates
  <2>10. RowFits(rec', posts', sends')
    BY <1>2, <2>1, <2>3 DEF RowFits
  <2> QED
    BY <2>8, <2>9, <2>10 DEF IInv, SnapsFit, ClaimsFit, ClaimFits, OneClaim
<1> QED
  BY <1>3, <1>4

-----------------------------------------------------------------------------
(* The compare-and-swaps that are not a claim. *)

\* w's snapshot still is the row, which goes to state s and holds no lease; or w
\* gives up.
Advances(w, s, step) ==
  \/ Finish(w) /\ UNCHANGED rec /\ faults' \in Nat
  \/ /\ SameRow(worker[w].snap, rec)
     /\ rec' \in Records /\ rec'.rev = rec.rev + 1
     /\ rec'.attempts = rec.attempts /\ rec'.mid = rec.mid
     /\ rec'.state = s /\ rec'.lease = 0
     /\ UNCHANGED faults
     /\ worker' = [worker EXCEPT ![w] = IF step = "idle" THEN Idle
                                        ELSE [worker[w] EXCEPT !.snap = rec', !.step = step]]

\* Such a step is in order if the verdict s is true.
LEMMA AdvancePreserves ==
  ASSUME IInv, NEW w \in Workers, worker[w].step # "idle",
         NEW s \in States \ {"DELIVERING"}, NEW step,
         step = "idle" \/ (step = "claim" /\ s = "READY_TO_DELIVER")
                       \/ (step = "hold" /\ s = "RETRY_SCHEDULED"),
         Advances(w, s, step), UNCHANGED <<reads, sends, posts, gets>>,
         SameRow(worker[w].snap, rec) =>
           /\ s \in Unsent => posts = 0
           /\ s = "DELIVERED" => rec.mid # 0
           /\ worker[w].step \in InClaim \/ (s \in Unsent => rec.state \in Unsent)
  PROVE  IInv'
<1>1. CASE Finish(w) /\ UNCHANGED rec /\ faults' \in Nat
  BY <1>1, FinishPreserves
<1>2. CASE /\ SameRow(worker[w].snap, rec)
           /\ rec' \in Records /\ rec'.rev = rec.rev + 1
           /\ rec'.attempts = rec.attempts /\ rec'.mid = rec.mid
           /\ rec'.state = s /\ rec'.lease = 0
           /\ UNCHANGED faults
           /\ worker' = [worker EXCEPT ![w] = IF step = "idle" THEN Idle
                             ELSE [worker[w] EXCEPT !.snap = rec', !.step = step]]
  <2> DEFINE u == IF step = "idle" THEN Idle
                  ELSE [worker[w] EXCEPT !.snap = rec', !.step = step]
  <2>1. rec.rev \in Nat /\ rec'.rev \in Nat /\ s # "NONE" /\ worker[w] \in WorkerStates
    BY <1>2 DEF IInv, TypeOK, Records, WorkerStates, States
  <2>2. /\ u \in WorkerStates /\ u.step = step
        /\ step # "idle" => u.snap = rec'
    BY <1>2, <2>1, IdleFits DEF WorkerStates, Steps
  <2> HIDE DEF u
  <2>3. u.step \notin InClaim
    BY <2>2 DEF InClaim
  <2>4. SnapFits(u, rec')
    BY <1>2, <2>1, <2>2 DEF SnapFits, SnapState, SameRow, InClaim, Claimable
  <2>5. ClaimFits(u, rec', posts', sends')
    BY <2>3 DEF ClaimFits
  <2>6. RowFits(rec', posts', sends')
    BY <1>2, <2>1 DEF IInv, RowFits
  <2>7. worker' = [worker EXCEPT ![w] = u]
    BY <1>2 DEF u
  <2>8. /\ {reads', sends', posts', gets', faults'} \subseteq Nat
        /\ rec'.lease # 0 <=> rec'.state = "DELIVERING"
        /\ rec'.rev > rec.rev
    BY <1>2, <2>1 DEF IInv, TypeOK
  <2> QED
    BY <1>2, <2>1, <2>2, <2>3, <2>4, <2>5, <2>6, <2>7, <2>8, StepPreserves
<1> QED
  BY <1>1, <1>2 DEF Advances

\* What the row is after an update of some of its fields.
LEMMA EnteredRow ==
  ASSUME NEW r \in Records, NEW s \in States
  PROVE  LET n == [r EXCEPT !.state = s]
         IN  /\ n \in Records /\ n.attempts = r.attempts /\ n.mid = r.mid
             /\ n.state = s /\ n.lease = r.lease
  BY DEF Records

\* The row at the end of a claim.
LEMMA ReleasedRow ==
  ASSUME NEW r \in Records, NEW s \in States
  PROVE  LET n == Released(r, s)
         IN  /\ n \in Records /\ n.attempts = r.attempts /\ n.mid = r.mid
             /\ n.state = s /\ n.lease = 0
  BY DEF Records, Released

\* The row at the end of a claim, with the time of the next one.
LEMMA ScheduledRow ==
  ASSUME NEW r \in Records, NEW s \in States, NEW t \in {"none", "later", "past"}
  PROVE  LET n == [Released(r, s) EXCEPT !.next = t]
         IN  /\ n \in Records /\ n.attempts = r.attempts /\ n.mid = r.mid
             /\ n.state = s /\ n.lease = 0
<1> DEFINE q == Released(r, s)
<1>1. q \in Records /\ q.attempts = r.attempts /\ q.mid = r.mid /\ q.state = s /\ q.lease = 0
  BY ReleasedRow
<1> HIDE DEF q
<1>2. LET n == [q EXCEPT !.next = t]
      IN  /\ n \in Records /\ n.attempts = q.attempts /\ n.mid = q.mid
          /\ n.state = q.state /\ n.lease = q.lease
  BY <1>1 DEF Records
<1> QED
  BY <1>1, <1>2 DEF q

\* Materialize is such a compare-and-swap.
LEMMA MaterializeAdvances ==
  ASSUME IInv, NEW w \in Workers, Materialize(w)
  PROVE  /\ Advances(w, "READY_TO_DELIVER", "claim")
         /\ worker[w].snap.state = "PENDING_RESULT" /\ worker[w].step # "idle"
         /\ UNCHANGED <<reads, sends, posts, gets>>
<1>1. /\ rec \in Records /\ faults \in Nat
      /\ rec.lease # 0 <=> rec.state = "DELIVERING"
      /\ worker[w].step # "idle" /\ worker[w].snap.state = "PENDING_RESULT"
      /\ worker[w].snap.rev = rec.rev => SameRow(worker[w].snap, rec)
  BY DEF Materialize, IInv, TypeOK, SnapsFit, SnapFits, SnapState, InClaim
<1>2. Advances(w, "READY_TO_DELIVER", "claim")
  <2> DEFINE row == [rec EXCEPT !.state = "READY_TO_DELIVER"]
             new == [row EXCEPT !.rev = rec.rev + 1]
  <2>1. CASE Finish(w) /\ UNCHANGED rec /\ faults' \in Nat
    BY <2>1 DEF Advances
  <2>2. CASE Owns(w, "READY_TO_DELIVER") /\ UNCHANGED faults /\ rec' = new
             /\ worker' = [worker EXCEPT ![w] = [worker[w] EXCEPT !.snap = new, !.step = "claim"]]
    <3>0. "READY_TO_DELIVER" \in States
      BY DEF States
    <3>1. SameRow(worker[w].snap, rec)
      BY <1>1, <2>2 DEF Owns
    <3>2. row \in Records /\ row.attempts = rec.attempts /\ row.mid = rec.mid
          /\ row.state = "READY_TO_DELIVER" /\ row.lease = 0
      BY <1>1, <3>1, <3>0, EnteredRow DEF SameRow
    <3>3. rec.rev \in Nat
      BY <1>1 DEF Records
    <3> HIDE DEF row
    <3>4. /\ rec' \in Records /\ rec'.rev = rec.rev + 1
          /\ rec'.attempts = rec.attempts /\ rec'.mid = rec.mid
          /\ rec'.state = "READY_TO_DELIVER" /\ rec'.lease = 0
      BY <2>2, <3>2, <3>3 DEF Records
    <3> QED
      BY <2>2, <3>1, <3>4 DEF Advances
  <2> QED
    BY <1>1, <2>1, <2>2 DEF Materialize, Cas, Fault, Finish, Holding, Go
<1>3. UNCHANGED <<reads, sends, posts, gets>>
  BY DEF Materialize
<1> QED
  BY <1>1, <1>2, <1>3

\* The verdict of Materialize is true when it is given.
LEMMA MaterializePreserves ==
  ASSUME IInv, NEW w \in Workers, Materialize(w) PROVE IInv'
<1>1. SameRow(worker[w].snap, rec) =>
        /\ "READY_TO_DELIVER" \in Unsent => posts = 0
        /\ "READY_TO_DELIVER" = "DELIVERED" => rec.mid # 0
        /\ worker[w].step \in InClaim \/ ("READY_TO_DELIVER" \in Unsent => rec.state \in Unsent)
  BY MaterializeAdvances DEF Materialize, IInv, TypeOK, SnapsFit, SnapFits, SnapState, ClaimsFit, ClaimFits, RowFits,
     SameRow, InClaim, Unsent
<1> QED
  BY <1>1, MaterializeAdvances, AdvancePreserves DEF States

\* RecoverPending is such a compare-and-swap.
LEMMA RecoverPendingAdvances ==
  ASSUME IInv, NEW w \in Workers, RecoverPending(w)
  PROVE  /\ Advances(w, "READY_TO_DELIVER", "idle")
         /\ worker[w].snap.state = "PENDING_RESULT" /\ worker[w].step # "idle"
         /\ UNCHANGED <<reads, sends, posts, gets>>
<1>1. /\ rec \in Records /\ faults \in Nat
      /\ rec.lease # 0 <=> rec.state = "DELIVERING"
      /\ worker[w].step # "idle" /\ worker[w].snap.state = "PENDING_RESULT"
      /\ worker[w].snap.rev = rec.rev => SameRow(worker[w].snap, rec)
  BY DEF RecoverPending, IInv, TypeOK, SnapsFit, SnapFits, SnapState, InClaim
<1>2. Advances(w, "READY_TO_DELIVER", "idle")
  <2> DEFINE row == [rec EXCEPT !.state = "READY_TO_DELIVER"]
             new == [row EXCEPT !.rev = rec.rev + 1]
  <2>1. CASE Finish(w) /\ UNCHANGED rec /\ faults' \in Nat
    BY <2>1 DEF Advances
  <2>2. CASE Owns(w, "READY_TO_DELIVER") /\ UNCHANGED faults /\ rec' = new
             /\ worker' = [worker EXCEPT ![w] = Idle]
    <3>0. "READY_TO_DELIVER" \in States
      BY DEF States
    <3>1. SameRow(worker[w].snap, rec)
      BY <1>1, <2>2 DEF Owns
    <3>2. row \in Records /\ row.attempts = rec.attempts /\ row.mid = rec.mid
          /\ row.state = "READY_TO_DELIVER" /\ row.lease = 0
      BY <1>1, <3>1, <3>0, EnteredRow DEF SameRow
    <3>3. rec.rev \in Nat
      BY <1>1 DEF Records
    <3> HIDE DEF row
    <3>4. /\ rec' \in Records /\ rec'.rev = rec.rev + 1
          /\ rec'.attempts = rec.attempts /\ rec'.mid = rec.mid
          /\ rec'.state = "READY_TO_DELIVER" /\ rec'.lease = 0
      BY <2>2, <3>2, <3>3 DEF Records
    <3> QED
      BY <2>2, <3>1, <3>4 DEF Advances
  <2> QED
    BY <1>1, <2>1, <2>2 DEF RecoverPending, Cas, Fault, Finish, Holding, Go
<1>3. UNCHANGED <<reads, sends, posts, gets>>
  BY DEF RecoverPending
<1> QED
  BY <1>1, <1>2, <1>3

\* The verdict of RecoverPending is true when it is given.
LEMMA RecoverPendingPreserves ==
  ASSUME IInv, NEW w \in Workers, RecoverPending(w) PROVE IInv'
<1>1. SameRow(worker[w].snap, rec) =>
        /\ "READY_TO_DELIVER" \in Unsent => posts = 0
        /\ "READY_TO_DELIVER" = "DELIVERED" => rec.mid # 0
        /\ worker[w].step \in InClaim \/ ("READY_TO_DELIVER" \in Unsent => rec.state \in Unsent)
  BY RecoverPendingAdvances DEF RecoverPending, IInv, TypeOK, SnapsFit, SnapFits, SnapState, ClaimsFit, ClaimFits, RowFits,
     SameRow, InClaim, Unsent
<1> QED
  BY <1>1, RecoverPendingAdvances, AdvancePreserves DEF States

\* Deliver is such a compare-and-swap.
LEMMA DeliverAdvances ==
  ASSUME IInv, NEW w \in Workers, Deliver(w)
  PROVE  /\ Advances(w, "DELIVERED", "idle")
         /\ worker[w].snap.state = "DELIVERING" /\ worker[w].step # "idle"
         /\ UNCHANGED <<reads, sends, posts, gets>>
<1>1. /\ rec \in Records /\ faults \in Nat
      /\ rec.lease # 0 <=> rec.state = "DELIVERING"
      /\ worker[w].step # "idle" /\ worker[w].snap.state = "DELIVERING"
      /\ worker[w].snap.rev = rec.rev => SameRow(worker[w].snap, rec)
  BY DEF Deliver, IInv, TypeOK, SnapsFit, SnapFits, SnapState, InClaim
<1>2. Advances(w, "DELIVERED", "idle")
  <2> DEFINE row == Released(rec, "DELIVERED")
             new == [row EXCEPT !.rev = rec.rev + 1]
  <2>1. CASE Finish(w) /\ UNCHANGED rec /\ faults' \in Nat
    BY <2>1 DEF Advances
  <2>2. CASE OwnsLease(w, "DELIVERED") /\ UNCHANGED faults /\ rec' = new
             /\ worker' = [worker EXCEPT ![w] = Idle]
    <3>0. "DELIVERED" \in States
      BY DEF States
    <3>1. SameRow(worker[w].snap, rec)
      BY <1>1, <2>2 DEF OwnsLease, Owns
    <3>2. row \in Records /\ row.attempts = rec.attempts /\ row.mid = rec.mid
          /\ row.state = "DELIVERED" /\ row.lease = 0
      BY <1>1, <3>1, <3>0, ReleasedRow DEF SameRow
    <3>3. rec.rev \in Nat
      BY <1>1 DEF Records
    <3> HIDE DEF row
    <3>4. /\ rec' \in Records /\ rec'.rev = rec.rev + 1
          /\ rec'.attempts = rec.attempts /\ rec'.mid = rec.mid
          /\ rec'.state = "DELIVERED" /\ rec'.lease = 0
      BY <2>2, <3>2, <3>3 DEF Records
    <3> QED
      BY <2>2, <3>1, <3>4 DEF Advances
  <2> QED
    BY <1>1, <2>1, <2>2 DEF Deliver, Cas, Fault, Finish, Holding, Go
<1>3. UNCHANGED <<reads, sends, posts, gets>>
  BY DEF Deliver
<1> QED
  BY <1>1, <1>2, <1>3

\* The verdict of Deliver is true when it is given.
LEMMA DeliverPreserves ==
  ASSUME IInv, NEW w \in Workers, Deliver(w) PROVE IInv'
<1>1. SameRow(worker[w].snap, rec) =>
        /\ "DELIVERED" \in Unsent => posts = 0
        /\ "DELIVERED" = "DELIVERED" => rec.mid # 0
        /\ worker[w].step \in InClaim \/ ("DELIVERED" \in Unsent => rec.state \in Unsent)
  BY DeliverAdvances DEF Deliver, IInv, TypeOK, SnapsFit, SnapFits, SnapState, ClaimsFit, ClaimFits, RowFits,
     SameRow, InClaim, Unsent
<1> QED
  BY <1>1, DeliverAdvances, AdvancePreserves DEF States

\* Retry is such a compare-and-swap.
LEMMA RetryAdvances ==
  ASSUME IInv, NEW w \in Workers, Retry(w)
  PROVE  /\ Advances(w, "RETRY_SCHEDULED", "idle")
         /\ worker[w].snap.state = "DELIVERING" /\ worker[w].step # "idle"
         /\ UNCHANGED <<reads, sends, posts, gets>>
<1>1. /\ rec \in Records /\ faults \in Nat
      /\ rec.lease # 0 <=> rec.state = "DELIVERING"
      /\ worker[w].step # "idle" /\ worker[w].snap.state = "DELIVERING"
      /\ worker[w].snap.rev = rec.rev => SameRow(worker[w].snap, rec)
  BY DEF Retry, IInv, TypeOK, SnapsFit, SnapFits, SnapState, InClaim
<1>2. Advances(w, "RETRY_SCHEDULED", "idle")
  <2> DEFINE row == [Released(rec, "RETRY_SCHEDULED") EXCEPT !.next = "later"]
             new == [row EXCEPT !.rev = rec.rev + 1]
  <2>1. CASE Finish(w) /\ UNCHANGED rec /\ faults' \in Nat
    BY <2>1 DEF Advances
  <2>2. CASE OwnsLease(w, "RETRY_SCHEDULED") /\ UNCHANGED faults /\ rec' = new
             /\ worker' = [worker EXCEPT ![w] = Idle]
    <3>0. "RETRY_SCHEDULED" \in States
      BY DEF States
    <3>1. SameRow(worker[w].snap, rec)
      BY <1>1, <2>2 DEF OwnsLease, Owns
    <3>2. row \in Records /\ row.attempts = rec.attempts /\ row.mid = rec.mid
          /\ row.state = "RETRY_SCHEDULED" /\ row.lease = 0
      BY <1>1, <3>1, <3>0, ScheduledRow DEF SameRow
    <3>3. rec.rev \in Nat
      BY <1>1 DEF Records
    <3> HIDE DEF row
    <3>4. /\ rec' \in Records /\ rec'.rev = rec.rev + 1
          /\ rec'.attempts = rec.attempts /\ rec'.mid = rec.mid
          /\ rec'.state = "RETRY_SCHEDULED" /\ rec'.lease = 0
      BY <2>2, <3>2, <3>3 DEF Records
    <3> QED
      BY <2>2, <3>1, <3>4 DEF Advances
  <2> QED
    BY <1>1, <2>1, <2>2 DEF Retry, Cas, Fault, Finish, Holding, Go
<1>3. UNCHANGED <<reads, sends, posts, gets>>
  BY DEF Retry
<1> QED
  BY <1>1, <1>2, <1>3

\* The verdict of Retry is true when it is given.
LEMMA RetryPreserves ==
  ASSUME IInv, NEW w \in Workers, Retry(w) PROVE IInv'
<1>1. SameRow(worker[w].snap, rec) =>
        /\ "RETRY_SCHEDULED" \in Unsent => posts = 0
        /\ "RETRY_SCHEDULED" = "DELIVERED" => rec.mid # 0
        /\ worker[w].step \in InClaim \/ ("RETRY_SCHEDULED" \in Unsent => rec.state \in Unsent)
  BY RetryAdvances DEF Retry, IInv, TypeOK, SnapsFit, SnapFits, SnapState, ClaimsFit, ClaimFits, RowFits,
     SameRow, InClaim, Unsent
<1> QED
  BY <1>1, RetryAdvances, AdvancePreserves DEF States

\* Exhausted is such a compare-and-swap.
LEMMA ExhaustedAdvances ==
  ASSUME IInv, NEW w \in Workers, Exhausted(w)
  PROVE  /\ Advances(w, "RETRY_SCHEDULED", "hold")
         /\ worker[w].snap.state = "DELIVERING" /\ worker[w].step # "idle"
         /\ UNCHANGED <<reads, sends, posts, gets>>
<1>1. /\ rec \in Records /\ faults \in Nat
      /\ rec.lease # 0 <=> rec.state = "DELIVERING"
      /\ worker[w].step # "idle" /\ worker[w].snap.state = "DELIVERING"
      /\ worker[w].snap.rev = rec.rev => SameRow(worker[w].snap, rec)
  BY DEF Exhausted, IInv, TypeOK, SnapsFit, SnapFits, SnapState, InClaim
<1>2. Advances(w, "RETRY_SCHEDULED", "hold")
  <2> DEFINE row == Released(rec, "RETRY_SCHEDULED")
             new == [row EXCEPT !.rev = rec.rev + 1]
  <2>1. CASE Finish(w) /\ UNCHANGED rec /\ faults' \in Nat
    BY <2>1 DEF Advances
  <2>2. CASE OwnsLease(w, "RETRY_SCHEDULED") /\ UNCHANGED faults /\ rec' = new
             /\ worker' = [worker EXCEPT ![w] = [worker[w] EXCEPT !.snap = new, !.step = "hold"]]
    <3>0. "RETRY_SCHEDULED" \in States
      BY DEF States
    <3>1. SameRow(worker[w].snap, rec)
      BY <1>1, <2>2 DEF OwnsLease, Owns
    <3>2. row \in Records /\ row.attempts = rec.attempts /\ row.mid = rec.mid
          /\ row.state = "RETRY_SCHEDULED" /\ row.lease = 0
      BY <1>1, <3>1, <3>0, ReleasedRow DEF SameRow
    <3>3. rec.rev \in Nat
      BY <1>1 DEF Records
    <3> HIDE DEF row
    <3>4. /\ rec' \in Records /\ rec'.rev = rec.rev + 1
          /\ rec'.attempts = rec.attempts /\ rec'.mid = rec.mid
          /\ rec'.state = "RETRY_SCHEDULED" /\ rec'.lease = 0
      BY <2>2, <3>2, <3>3 DEF Records
    <3> QED
      BY <2>2, <3>1, <3>4 DEF Advances
  <2> QED
    BY <1>1, <2>1, <2>2 DEF Exhausted, Cas, Fault, Finish, Holding, Go
<1>3. UNCHANGED <<reads, sends, posts, gets>>
  BY DEF Exhausted
<1> QED
  BY <1>1, <1>2, <1>3

\* The verdict of Exhausted is true when it is given.
LEMMA ExhaustedPreserves ==
  ASSUME IInv, NEW w \in Workers, Exhausted(w) PROVE IInv'
<1>1. SameRow(worker[w].snap, rec) =>
        /\ "RETRY_SCHEDULED" \in Unsent => posts = 0
        /\ "RETRY_SCHEDULED" = "DELIVERED" => rec.mid # 0
        /\ worker[w].step \in InClaim \/ ("RETRY_SCHEDULED" \in Unsent => rec.state \in Unsent)
  BY ExhaustedAdvances DEF Exhausted, IInv, TypeOK, SnapsFit, SnapFits, SnapState, ClaimsFit, ClaimFits, RowFits,
     SameRow, InClaim, Unsent
<1> QED
  BY <1>1, ExhaustedAdvances, AdvancePreserves DEF States

\* Hold is such a compare-and-swap.
LEMMA HoldAdvances ==
  ASSUME IInv, NEW w \in Workers, Hold(w)
  PROVE  /\ Advances(w, "OPERATOR_HOLD", "idle")
         /\ worker[w].snap.state = "RETRY_SCHEDULED" /\ worker[w].step # "idle"
         /\ UNCHANGED <<reads, sends, posts, gets>>
<1>1. /\ rec \in Records /\ faults \in Nat
      /\ rec.lease # 0 <=> rec.state = "DELIVERING"
      /\ worker[w].step # "idle" /\ worker[w].snap.state = "RETRY_SCHEDULED"
      /\ worker[w].snap.rev = rec.rev => SameRow(worker[w].snap, rec)
  BY DEF Hold, IInv, TypeOK, SnapsFit, SnapFits, SnapState, InClaim
<1>2. Advances(w, "OPERATOR_HOLD", "idle")
  <2> DEFINE row == [rec EXCEPT !.state = "OPERATOR_HOLD"]
             new == [row EXCEPT !.rev = rec.rev + 1]
  <2>1. CASE Finish(w) /\ UNCHANGED rec /\ faults' \in Nat
    BY <2>1 DEF Advances
  <2>2. CASE Owns(w, "OPERATOR_HOLD") /\ UNCHANGED faults /\ rec' = new
             /\ worker' = [worker EXCEPT ![w] = Idle]
    <3>0. "OPERATOR_HOLD" \in States
      BY DEF States
    <3>1. SameRow(worker[w].snap, rec)
      BY <1>1, <2>2 DEF Owns
    <3>2. row \in Records /\ row.attempts = rec.attempts /\ row.mid = rec.mid
          /\ row.state = "OPERATOR_HOLD" /\ row.lease = 0
      BY <1>1, <3>1, <3>0, EnteredRow DEF SameRow
    <3>3. rec.rev \in Nat
      BY <1>1 DEF Records
    <3> HIDE DEF row
    <3>4. /\ rec' \in Records /\ rec'.rev = rec.rev + 1
          /\ rec'.attempts = rec.attempts /\ rec'.mid = rec.mid
          /\ rec'.state = "OPERATOR_HOLD" /\ rec'.lease = 0
      BY <2>2, <3>2, <3>3 DEF Records
    <3> QED
      BY <2>2, <3>1, <3>4 DEF Advances
  <2> QED
    BY <1>1, <2>1, <2>2 DEF Hold, Cas, Fault, Finish, Holding, Go
<1>3. UNCHANGED <<reads, sends, posts, gets>>
  BY DEF Hold
<1> QED
  BY <1>1, <1>2, <1>3

\* The verdict of Hold is true when it is given.
LEMMA HoldPreserves ==
  ASSUME IInv, NEW w \in Workers, Hold(w) PROVE IInv'
<1>1. SameRow(worker[w].snap, rec) =>
        /\ "OPERATOR_HOLD" \in Unsent => posts = 0
        /\ "OPERATOR_HOLD" = "DELIVERED" => rec.mid # 0
        /\ worker[w].step \in InClaim \/ ("OPERATOR_HOLD" \in Unsent => rec.state \in Unsent)
  BY HoldAdvances DEF Hold, IInv, TypeOK, SnapsFit, SnapFits, SnapState, ClaimsFit, ClaimFits, RowFits,
     SameRow, InClaim, Unsent
<1> QED
  BY <1>1, HoldAdvances, AdvancePreserves DEF States

\* Reject is such a compare-and-swap.
LEMMA RejectAdvances ==
  ASSUME IInv, NEW w \in Workers, Reject(w)
  PROVE  /\ Advances(w, "PERMANENT_REJECTED", "idle")
         /\ worker[w].snap.state = "DELIVERING" /\ worker[w].step # "idle"
         /\ UNCHANGED <<reads, sends, posts, gets>>
<1>1. /\ rec \in Records /\ faults \in Nat
      /\ rec.lease # 0 <=> rec.state = "DELIVERING"
      /\ worker[w].step # "idle" /\ worker[w].snap.state = "DELIVERING"
      /\ worker[w].snap.rev = rec.rev => SameRow(worker[w].snap, rec)
  BY DEF Reject, IInv, TypeOK, SnapsFit, SnapFits, SnapState, InClaim
<1>2. Advances(w, "PERMANENT_REJECTED", "idle")
  <2> DEFINE row == Released(rec, "PERMANENT_REJECTED")
             new == [row EXCEPT !.rev = rec.rev + 1]
  <2>1. CASE Finish(w) /\ UNCHANGED rec /\ faults' \in Nat
    BY <2>1 DEF Advances
  <2>2. CASE OwnsLease(w, "PERMANENT_REJECTED") /\ UNCHANGED faults /\ rec' = new
             /\ worker' = [worker EXCEPT ![w] = Idle]
    <3>0. "PERMANENT_REJECTED" \in States
      BY DEF States
    <3>1. SameRow(worker[w].snap, rec)
      BY <1>1, <2>2 DEF OwnsLease, Owns
    <3>2. row \in Records /\ row.attempts = rec.attempts /\ row.mid = rec.mid
          /\ row.state = "PERMANENT_REJECTED" /\ row.lease = 0
      BY <1>1, <3>1, <3>0, ReleasedRow DEF SameRow
    <3>3. rec.rev \in Nat
      BY <1>1 DEF Records
    <3> HIDE DEF row
    <3>4. /\ rec' \in Records /\ rec'.rev = rec.rev + 1
          /\ rec'.attempts = rec.attempts /\ rec'.mid = rec.mid
          /\ rec'.state = "PERMANENT_REJECTED" /\ rec'.lease = 0
      BY <2>2, <3>2, <3>3 DEF Records
    <3> QED
      BY <2>2, <3>1, <3>4 DEF Advances
  <2> QED
    BY <1>1, <2>1, <2>2 DEF Reject, Cas, Fault, Finish, Holding, Go
<1>3. UNCHANGED <<reads, sends, posts, gets>>
  BY DEF Reject
<1> QED
  BY <1>1, <1>2, <1>3

\* The verdict of Reject is true when it is given.
LEMMA RejectPreserves ==
  ASSUME IInv, NEW w \in Workers, Reject(w) PROVE IInv'
<1>1. SameRow(worker[w].snap, rec) =>
        /\ "PERMANENT_REJECTED" \in Unsent => posts = 0
        /\ "PERMANENT_REJECTED" = "DELIVERED" => rec.mid # 0
        /\ worker[w].step \in InClaim \/ ("PERMANENT_REJECTED" \in Unsent => rec.state \in Unsent)
  BY RejectAdvances DEF Reject, IInv, TypeOK, SnapsFit, SnapFits, SnapState, ClaimsFit, ClaimFits, RowFits,
     SameRow, InClaim, Unsent
<1> QED
  BY <1>1, RejectAdvances, AdvancePreserves DEF States

\* Ambiguous is such a compare-and-swap.
LEMMA AmbiguousAdvances ==
  ASSUME IInv, NEW w \in Workers, Ambiguous(w)
  PROVE  /\ Advances(w, "AMBIGUOUS", "idle")
         /\ worker[w].snap.state = "DELIVERING" /\ worker[w].step # "idle"
         /\ UNCHANGED <<reads, sends, posts, gets>>
<1>1. /\ rec \in Records /\ faults \in Nat
      /\ rec.lease # 0 <=> rec.state = "DELIVERING"
      /\ worker[w].step # "idle" /\ worker[w].snap.state = "DELIVERING"
      /\ worker[w].snap.rev = rec.rev => SameRow(worker[w].snap, rec)
  BY DEF Ambiguous, IInv, TypeOK, SnapsFit, SnapFits, SnapState, InClaim
<1>2. Advances(w, "AMBIGUOUS", "idle")
  <2> DEFINE row == Released(rec, "AMBIGUOUS")
             new == [row EXCEPT !.rev = rec.rev + 1]
  <2>1. CASE Finish(w) /\ UNCHANGED rec /\ faults' \in Nat
    BY <2>1 DEF Advances
  <2>2. CASE OwnsLease(w, "AMBIGUOUS") /\ UNCHANGED faults /\ rec' = new
             /\ worker' = [worker EXCEPT ![w] = Idle]
    <3>0. "AMBIGUOUS" \in States
      BY DEF States
    <3>1. SameRow(worker[w].snap, rec)
      BY <1>1, <2>2 DEF OwnsLease, Owns
    <3>2. row \in Records /\ row.attempts = rec.attempts /\ row.mid = rec.mid
          /\ row.state = "AMBIGUOUS" /\ row.lease = 0
      BY <1>1, <3>1, <3>0, ReleasedRow DEF SameRow
    <3>3. rec.rev \in Nat
      BY <1>1 DEF Records
    <3> HIDE DEF row
    <3>4. /\ rec' \in Records /\ rec'.rev = rec.rev + 1
          /\ rec'.attempts = rec.attempts /\ rec'.mid = rec.mid
          /\ rec'.state = "AMBIGUOUS" /\ rec'.lease = 0
      BY <2>2, <3>2, <3>3 DEF Records
    <3> QED
      BY <2>2, <3>1, <3>4 DEF Advances
  <2> QED
    BY <1>1, <2>1, <2>2 DEF Ambiguous, Cas, Fault, Finish, Holding, Go
<1>3. UNCHANGED <<reads, sends, posts, gets>>
  BY DEF Ambiguous
<1> QED
  BY <1>1, <1>2, <1>3

\* The verdict of Ambiguous is true when it is given.
LEMMA AmbiguousPreserves ==
  ASSUME IInv, NEW w \in Workers, Ambiguous(w) PROVE IInv'
<1>1. SameRow(worker[w].snap, rec) =>
        /\ "AMBIGUOUS" \in Unsent => posts = 0
        /\ "AMBIGUOUS" = "DELIVERED" => rec.mid # 0
        /\ worker[w].step \in InClaim \/ ("AMBIGUOUS" \in Unsent => rec.state \in Unsent)
  BY AmbiguousAdvances DEF Ambiguous, IInv, TypeOK, SnapsFit, SnapFits, SnapState, ClaimsFit, ClaimFits, RowFits,
     SameRow, InClaim, Unsent
<1> QED
  BY <1>1, AmbiguousAdvances, AdvancePreserves DEF States

\* RecoverStale is such a compare-and-swap.
LEMMA RecoverStaleAdvances ==
  ASSUME IInv, NEW w \in Workers, RecoverStale(w)
  PROVE  /\ Advances(w, "AMBIGUOUS", "idle")
         /\ worker[w].snap.state = "DELIVERING" /\ worker[w].step # "idle"
         /\ UNCHANGED <<reads, sends, posts, gets>>
<1>1. /\ rec \in Records /\ faults \in Nat
      /\ rec.lease # 0 <=> rec.state = "DELIVERING"
      /\ worker[w].step # "idle" /\ worker[w].snap.state = "DELIVERING"
      /\ worker[w].snap.rev = rec.rev => SameRow(worker[w].snap, rec)
  BY DEF RecoverStale, IInv, TypeOK, SnapsFit, SnapFits, SnapState, InClaim
<1>2. Advances(w, "AMBIGUOUS", "idle")
  <2> DEFINE row == [Released(rec, "AMBIGUOUS") EXCEPT !.next = "none"]
             new == [row EXCEPT !.rev = rec.rev + 1]
  <2>1. CASE Finish(w) /\ UNCHANGED rec /\ faults' \in Nat
    BY <2>1 DEF Advances
  <2>2. CASE OwnsLease(w, "AMBIGUOUS") /\ UNCHANGED faults /\ rec' = new
             /\ worker' = [worker EXCEPT ![w] = Idle]
    <3>0. "AMBIGUOUS" \in States
      BY DEF States
    <3>1. SameRow(worker[w].snap, rec)
      BY <1>1, <2>2 DEF OwnsLease, Owns
    <3>2. row \in Records /\ row.attempts = rec.attempts /\ row.mid = rec.mid
          /\ row.state = "AMBIGUOUS" /\ row.lease = 0
      BY <1>1, <3>1, <3>0, ScheduledRow DEF SameRow
    <3>3. rec.rev \in Nat
      BY <1>1 DEF Records
    <3> HIDE DEF row
    <3>4. /\ rec' \in Records /\ rec'.rev = rec.rev + 1
          /\ rec'.attempts = rec.attempts /\ rec'.mid = rec.mid
          /\ rec'.state = "AMBIGUOUS" /\ rec'.lease = 0
      BY <2>2, <3>2, <3>3 DEF Records
    <3> QED
      BY <2>2, <3>1, <3>4 DEF Advances
  <2> QED
    BY <1>1, <2>1, <2>2 DEF RecoverStale, Cas, Fault, Finish, Holding, Go
<1>3. UNCHANGED <<reads, sends, posts, gets>>
  BY DEF RecoverStale
<1> QED
  BY <1>1, <1>2, <1>3

\* The verdict of RecoverStale is true when it is given.
LEMMA RecoverStalePreserves ==
  ASSUME IInv, NEW w \in Workers, RecoverStale(w) PROVE IInv'
<1>1. SameRow(worker[w].snap, rec) =>
        /\ "AMBIGUOUS" \in Unsent => posts = 0
        /\ "AMBIGUOUS" = "DELIVERED" => rec.mid # 0
        /\ worker[w].step \in InClaim \/ ("AMBIGUOUS" \in Unsent => rec.state \in Unsent)
  BY RecoverStaleAdvances DEF RecoverStale, IInv, TypeOK, SnapsFit, SnapFits, SnapState, ClaimsFit, ClaimFits, RowFits,
     SameRow, InClaim, Unsent
<1> QED
  BY <1>1, RecoverStaleAdvances, AdvancePreserves DEF States

\* Verified is such a compare-and-swap.
LEMMA VerifiedAdvances ==
  ASSUME IInv, NEW w \in Workers, Verified(w)
  PROVE  /\ Advances(w, "DELIVERED", "idle")
         /\ worker[w].snap.state = "AMBIGUOUS" /\ worker[w].step # "idle"
         /\ UNCHANGED <<reads, sends, posts, gets>>
<1>1. /\ rec \in Records /\ faults \in Nat
      /\ rec.lease # 0 <=> rec.state = "DELIVERING"
      /\ worker[w].step # "idle" /\ worker[w].snap.state = "AMBIGUOUS"
      /\ worker[w].snap.rev = rec.rev => SameRow(worker[w].snap, rec)
  BY DEF Verified, IInv, TypeOK, SnapsFit, SnapFits, SnapState, InClaim
<1>2. Advances(w, "DELIVERED", "idle")
  <2> DEFINE row == [rec EXCEPT !.state = "DELIVERED"]
             new == [row EXCEPT !.rev = rec.rev + 1]
  <2>1. CASE Finish(w) /\ UNCHANGED rec /\ faults' \in Nat
    BY <2>1 DEF Advances
  <2>2. CASE Owns(w, "DELIVERED") /\ UNCHANGED faults /\ rec' = new
             /\ worker' = [worker EXCEPT ![w] = Idle]
    <3>0. "DELIVERED" \in States
      BY DEF States
    <3>1. SameRow(worker[w].snap, rec)
      BY <1>1, <2>2 DEF Owns
    <3>2. row \in Records /\ row.attempts = rec.attempts /\ row.mid = rec.mid
          /\ row.state = "DELIVERED" /\ row.lease = 0
      BY <1>1, <3>1, <3>0, EnteredRow DEF SameRow
    <3>3. rec.rev \in Nat
      BY <1>1 DEF Records
    <3> HIDE DEF row
    <3>4. /\ rec' \in Records /\ rec'.rev = rec.rev + 1
          /\ rec'.attempts = rec.attempts /\ rec'.mid = rec.mid
          /\ rec'.state = "DELIVERED" /\ rec'.lease = 0
      BY <2>2, <3>2, <3>3 DEF Records
    <3> QED
      BY <2>2, <3>1, <3>4 DEF Advances
  <2> QED
    BY <1>1, <2>1, <2>2 DEF Verified, Cas, Fault, Finish, Holding, Go
<1>3. UNCHANGED <<reads, sends, posts, gets>>
  BY DEF Verified
<1> QED
  BY <1>1, <1>2, <1>3

\* The verdict of Verified is true when it is given.
LEMMA VerifiedPreserves ==
  ASSUME IInv, NEW w \in Workers, Verified(w) PROVE IInv'
<1>1. SameRow(worker[w].snap, rec) =>
        /\ "DELIVERED" \in Unsent => posts = 0
        /\ "DELIVERED" = "DELIVERED" => rec.mid # 0
        /\ worker[w].step \in InClaim \/ ("DELIVERED" \in Unsent => rec.state \in Unsent)
  BY VerifiedAdvances DEF Verified, IInv, TypeOK, SnapsFit, SnapFits, SnapState, ClaimsFit, ClaimFits, RowFits,
     SameRow, InClaim, Unsent
<1> QED
  BY <1>1, VerifiedAdvances, AdvancePreserves DEF States

\* HoldAmbiguous is such a compare-and-swap.
LEMMA HoldAmbiguousAdvances ==
  ASSUME IInv, NEW w \in Workers, HoldAmbiguous(w)
  PROVE  /\ Advances(w, "OPERATOR_HOLD", "idle")
         /\ worker[w].snap.state = "AMBIGUOUS" /\ worker[w].step # "idle"
         /\ UNCHANGED <<reads, sends, posts, gets>>
<1>1. /\ rec \in Records /\ faults \in Nat
      /\ rec.lease # 0 <=> rec.state = "DELIVERING"
      /\ worker[w].step # "idle" /\ worker[w].snap.state = "AMBIGUOUS"
      /\ worker[w].snap.rev = rec.rev => SameRow(worker[w].snap, rec)
  BY DEF HoldAmbiguous, IInv, TypeOK, SnapsFit, SnapFits, SnapState, InClaim
<1>2. Advances(w, "OPERATOR_HOLD", "idle")
  <2> DEFINE row == [rec EXCEPT !.state = "OPERATOR_HOLD"]
             new == [row EXCEPT !.rev = rec.rev + 1]
  <2>1. CASE Finish(w) /\ UNCHANGED rec /\ faults' \in Nat
    BY <2>1 DEF Advances
  <2>2. CASE Owns(w, "OPERATOR_HOLD") /\ UNCHANGED faults /\ rec' = new
             /\ worker' = [worker EXCEPT ![w] = Idle]
    <3>0. "OPERATOR_HOLD" \in States
      BY DEF States
    <3>1. SameRow(worker[w].snap, rec)
      BY <1>1, <2>2 DEF Owns
    <3>2. row \in Records /\ row.attempts = rec.attempts /\ row.mid = rec.mid
          /\ row.state = "OPERATOR_HOLD" /\ row.lease = 0
      BY <1>1, <3>1, <3>0, EnteredRow DEF SameRow
    <3>3. rec.rev \in Nat
      BY <1>1 DEF Records
    <3> HIDE DEF row
    <3>4. /\ rec' \in Records /\ rec'.rev = rec.rev + 1
          /\ rec'.attempts = rec.attempts /\ rec'.mid = rec.mid
          /\ rec'.state = "OPERATOR_HOLD" /\ rec'.lease = 0
      BY <2>2, <3>2, <3>3 DEF Records
    <3> QED
      BY <2>2, <3>1, <3>4 DEF Advances
  <2> QED
    BY <1>1, <2>1, <2>2 DEF HoldAmbiguous, Cas, Fault, Finish, Holding, Go
<1>3. UNCHANGED <<reads, sends, posts, gets>>
  BY DEF HoldAmbiguous
<1> QED
  BY <1>1, <1>2, <1>3

\* The verdict of HoldAmbiguous is true when it is given.
LEMMA HoldAmbiguousPreserves ==
  ASSUME IInv, NEW w \in Workers, HoldAmbiguous(w) PROVE IInv'
<1>1. SameRow(worker[w].snap, rec) =>
        /\ "OPERATOR_HOLD" \in Unsent => posts = 0
        /\ "OPERATOR_HOLD" = "DELIVERED" => rec.mid # 0
        /\ worker[w].step \in InClaim \/ ("OPERATOR_HOLD" \in Unsent => rec.state \in Unsent)
  BY HoldAmbiguousAdvances DEF HoldAmbiguous, IInv, TypeOK, SnapsFit, SnapFits, SnapState, ClaimsFit, ClaimFits, RowFits,
     SameRow, InClaim, Unsent
<1> QED
  BY <1>1, HoldAmbiguousAdvances, AdvancePreserves DEF States

-----------------------------------------------------------------------------
(* Claims, and what is done under one. *)

\* The row as a claim leaves it.
LEMMA ClaimedRow ==
  ASSUME NEW r \in Records
  PROVE  LET n == Claimed(r)
         IN  /\ n \in Records /\ n.rev = r.rev + 1 /\ n.attempts = r.attempts + 1
             /\ n.mid = r.mid /\ n.state = "DELIVERING" /\ n.lease = r.rev + 1
<1> DEFINE n == Claimed(r)
<1>1. /\ r.rev \in Nat /\ r.attempts \in Nat /\ r.mid \in Nat
      /\ r.next \in {"none", "later", "past"}
  BY DEF Records
<1>2. /\ n.rev = r.rev + 1 /\ n.attempts = r.attempts + 1 /\ n.mid = r.mid
      /\ n.state = "DELIVERING" /\ n.lease = r.rev + 1
      /\ n.next = r.next /\ n.started = "fresh"
  BY DEF Records, Claimed
<1> DEFINE a == [r EXCEPT !.state = "DELIVERING"]
           b == [a EXCEPT !.rev = r.rev + 1]
           c == [b EXCEPT !.attempts = r.attempts + 1]
           d == [c EXCEPT !.lease = r.rev + 1]
           e == [d EXCEPT !.started = "fresh"]
<1>3. a \in Records
  BY DEF Records, States
<1>4. n = e
  BY DEF Claimed, Records
<1> HIDE DEF n, a
<1>5. b \in Records
  BY <1>1, <1>3 DEF Records
<1> HIDE DEF b
<1>6. c \in Records
  BY <1>1, <1>5 DEF Records
<1> HIDE DEF c
<1>7. d \in Records
  BY <1>1, <1>6 DEF Records
<1> HIDE DEF d
<1>8. e \in Records
  BY <1>1, <1>7 DEF Records
<1> QED
  BY <1>2, <1>4, <1>8 DEF n

\* A claim succeeds only on a row that was not posted and that nobody holds.
LEMMA ClaimPreserves ==
  ASSUME IInv, NEW w \in Workers, Claim(w) PROVE IInv'
<1> DEFINE now == [worker[w] EXCEPT !.tries = @ + 1]
           new == Claimed(rec)
           sending == [[now EXCEPT !.snap = new] EXCEPT !.step = "send"]
<1>1. /\ rec \in Records /\ worker[w] \in WorkerStates /\ worker[w].step = "claim"
      /\ rec.rev \in Nat /\ faults \in Nat
      /\ SnapFits(worker[w], rec)
  BY DEF IInv, TypeOK, WorkerStates, Records, Claim, SnapsFit
<1>2. now \in WorkerStates /\ now.snap = worker[w].snap
  BY <1>1 DEF WorkerStates
<1>3. UNCHANGED <<reads, sends, posts, gets>>
  BY DEF Claim
<1>4. CASE /\ Owns(w, "DELIVERING") /\ rec' = new /\ UNCHANGED faults
           /\ worker' = [worker EXCEPT ![w] = sending]
  <2>1. /\ new \in Records /\ new.rev = rec.rev + 1 /\ new.attempts = rec.attempts + 1
        /\ new.mid = rec.mid /\ new.state = "DELIVERING" /\ new.lease = rec.rev + 1
    BY <1>1, ClaimedRow
  <2>2. sending \in WorkerStates /\ sending.step = "send" /\ sending.snap = new
    <3> HIDE DEF now, new
    <3>1. [now EXCEPT !.snap = new] \in WorkerStates /\ [now EXCEPT !.snap = new].snap = new
      BY <1>2, <2>1 DEF WorkerStates
    <3> QED
      BY <3>1 DEF WorkerStates, Steps
  <2>3. rec.state \in Claimable
    BY <1>4, MovesInto DEF Owns
  <2>4. rec.state \in Unsent /\ rec.state # "NONE"
    BY <2>3 DEF Claimable, Unsent
  <2> HIDE DEF new, sending
  <2>5. RowFits(rec', posts', sends') /\ posts = 0 /\ sends < rec'.attempts
    BY <1>1, <1>3, <1>4, <2>1, <2>4 DEF IInv, TypeOK, RowFits, Unsent, Records
  <2>6. SnapFits(sending, rec')
    BY <1>1, <1>4, <2>1, <2>2 DEF SnapFits, SnapState, SameRow, InClaim
  <2>7. ClaimFits(sending, rec', posts', sends')
    BY <1>3, <1>4, <2>1, <2>2, <2>5 DEF ClaimFits, InClaim, Unsent
  <2>8. /\ {reads', sends', posts', gets', faults'} \subseteq Nat
        /\ rec'.lease # 0 <=> rec'.state = "DELIVERING"
        /\ rec'.rev > rec.rev /\ rec'.state # "NONE"
    BY <1>1, <1>3, <1>4, <2>1 DEF IInv, TypeOK
  <2>9. sending.step \in InClaim
    BY <2>2 DEF InClaim
  <2> QED
    BY <1>4, <2>1, <2>2, <2>4, <2>5, <2>6, <2>7, <2>8, <2>9, StepPreserves
<1>5. ASSUME NEW step \in {"reread", "recheck"}, UNCHANGED rec, faults' \in Nat,
             worker' = [worker EXCEPT ![w] = [now EXCEPT !.step = step]]
      PROVE  IInv'
  <2> DEFINE u == [now EXCEPT !.step = step]
  <2> HIDE DEF now
  <2>1. u \in WorkerStates /\ u.step = step /\ u.snap = worker[w].snap
    BY <1>2, <1>5 DEF WorkerStates, Steps
  <2> HIDE DEF u
  <2>2. SnapFits(u, rec) /\ u.step \notin InClaim
    BY <1>1, <1>5, <2>1 DEF SnapFits, SnapState, InClaim
  <2>3. {reads', gets', faults'} \subseteq Nat
    BY <1>3, <1>5 DEF IInv, TypeOK
  <2> QED
    BY <1>3, <1>5, <2>1, <2>2, <2>3, MovesOn DEF u
<1>6. CASE Finish(w) /\ UNCHANGED rec /\ faults' \in Nat
  BY <1>3, <1>6, FinishPreserves
<1> QED
  BY <1>1, <1>4, <1>5, <1>6 DEF Claim, Go, Fault

\* After a refused or failed claim the worker goes on with the row as it is now, or
\* with the snapshot it had.
LEMMA ReclaimPreserves ==
  ASSUME IInv, NEW w \in Workers, Reread(w) \/ Recheck(w) PROVE IInv'
<1>1. /\ rec \in Records /\ worker[w] \in WorkerStates /\ faults \in Nat /\ rec.rev \in Nat
      /\ worker[w].step \in {"reread", "recheck"} /\ SnapFits(worker[w], rec)
  BY DEF IInv, TypeOK, Records, WorkerStates, Reread, Recheck, SnapsFit
<1>2. UNCHANGED <<rec, reads, sends, posts, gets>> /\ faults' \in Nat
  BY <1>1 DEF Reread, Recheck, Fault
<1>3. CASE Finish(w)
  BY <1>2, <1>3, FinishPreserves
<1>4. ASSUME NEW row, row \in {rec, worker[w].snap}, row.state \in Claimable,
             Holding(w, row, "claim")
      PROVE  IInv'
  <2> DEFINE u == [[worker[w] EXCEPT !.snap = row] EXCEPT !.step = "claim"]
  <2>1. row \in Records
    BY <1>1, <1>4 DEF WorkerStates
  <2>2. u \in WorkerStates /\ u.step = "claim" /\ u.snap = row
    <3> DEFINE h == [worker[w] EXCEPT !.snap = row]
    <3>1. h \in WorkerStates /\ h.snap = row
      BY <1>1, <2>1 DEF WorkerStates
    <3> HIDE DEF h
    <3>2. [h EXCEPT !.step = "claim"] \in WorkerStates
          /\ [h EXCEPT !.step = "claim"].step = "claim" /\ [h EXCEPT !.step = "claim"].snap = row
      BY <3>1 DEF WorkerStates, Steps
    <3> QED
      BY <3>2 DEF h
  <2>3. worker' = [worker EXCEPT ![w] = u]
    BY <1>4 DEF Holding, Go
  <2> HIDE DEF u
  <2>4. SnapFits(u, rec)
    BY <1>1, <1>4, <2>2 DEF SnapFits, SnapState, SameRow, InClaim, Claimable
  <2>5. u.step \notin InClaim
    BY <2>2 DEF InClaim
  <2> QED
    BY <1>2, <2>2, <2>3, <2>4, <2>5, MovesOn DEF IInv, TypeOK
<1>5. rec.state \in Claimable /\ Holding(w, rec, "claim") => IInv'
  BY <1>4
<1>6. Holding(w, worker[w].snap, "claim") => IInv'
  BY <1>1, <1>4 DEF SnapFits, SnapState
<1>7. CASE Reread(w)
  BY <1>3, <1>5, <1>7 DEF Reread
<1>8. CASE Recheck(w)
  BY <1>3, <1>5, <1>6, <1>8 DEF Recheck
<1> QED
  BY <1>7, <1>8

\* A worker outside a claim goes on to another step with the snapshot it has.
LEMMA GoesOn ==
  ASSUME IInv, NEW w \in Workers, NEW step,
         \/ worker[w].step = "claimRead" /\ step \in {"read", "ifExhausted"}
         \/ worker[w].step = "read" /\ step \in {"verified", "ifExhausted", "holdAmbiguous"},
         Go(w, worker[w], step),
         UNCHANGED <<rec, sends, posts>>, {reads', gets', faults'} \subseteq Nat
  PROVE  IInv'
<1> DEFINE u == [worker[w] EXCEPT !.step = step]
<1>1. worker[w] \in WorkerStates /\ SnapFits(worker[w], rec)
  BY DEF IInv, TypeOK, WorkerStates, SnapsFit
<1>2. u \in WorkerStates /\ u.step = step /\ u.snap = worker[w].snap
  BY <1>1 DEF WorkerStates, Steps
<1>3. worker' = [worker EXCEPT ![w] = u]
  BY DEF Go
<1> HIDE DEF u
<1>4. SnapFits(u, rec) /\ u.step \notin InClaim
  BY <1>1, <1>2 DEF SnapFits, SnapState, InClaim
<1> QED
  BY <1>2, <1>3, <1>4, MovesOn

\* A worker reads the row, and goes on with it.
LEMMA Looks ==
  ASSUME IInv, NEW w \in Workers, NEW step \in Steps \ InClaim, Holding(w, rec, step),
         step # "idle", rec.state # "NONE",
         \A v \in WorkerStates : v.step = step /\ v.snap = rec => SnapState(v),
         UNCHANGED <<rec, reads, sends, posts, gets, faults>>
  PROVE  IInv'
<1> DEFINE h == [worker[w] EXCEPT !.snap = rec]
           u == [h EXCEPT !.step = step]
<1>1. worker[w] \in WorkerStates /\ rec \in Records /\ rec.rev \in Nat
  BY DEF IInv, TypeOK, WorkerStates, Records
<1>2. h \in WorkerStates /\ h.snap = rec
  BY <1>1 DEF WorkerStates
<1>3. worker' = [worker EXCEPT ![w] = u]
  BY DEF Holding, Go
<1> HIDE DEF h
<1>4. u \in WorkerStates /\ u.step = step /\ u.snap = rec
  BY <1>2 DEF WorkerStates
<1> HIDE DEF u
<1>5. SnapFits(u, rec)
  BY <1>1, <1>4 DEF SnapFits, SameRow
<1> QED
  BY <1>3, <1>4, <1>5, MovesOn DEF IInv, TypeOK

\* A manager's scan keeps the invariant.
LEMMA ScanPreserves ==
  ASSUME IInv, NEW w \in Workers, Scan(w) PROVE IInv'
<1>1. UNCHANGED <<rec, reads, sends, posts, gets, faults>>
  BY DEF Scan
<1>2. CASE rec.state = "PENDING_RESULT" /\ Holding(w, rec, "recoverPending")
  BY <1>1, <1>2, Looks DEF SnapState, Steps, InClaim
<1>3. CASE rec.state \in Claimable /\ Holding(w, rec, "claim")
  BY <1>1, <1>3, Looks DEF SnapState, Steps, InClaim, Claimable
<1>4. CASE rec.state = "DELIVERING" /\ Holding(w, rec, "recoverStale")
  BY <1>1, <1>4, Looks DEF SnapState, Steps, InClaim
<1>5. CASE rec.state = "AMBIGUOUS" /\ Holding(w, rec, "holdAmbiguous")
  BY <1>1, <1>5, Looks DEF SnapState, Steps, InClaim
<1>6. CASE rec.state = "AMBIGUOUS" /\ rec.mid # 0 /\ Holding(w, rec, "claimRead")
  BY <1>1, <1>6, Looks DEF SnapState, Steps, InClaim
<1> QED
  BY <1>2, <1>3, <1>4, <1>5, <1>6 DEF Scan, Claimable

\* So does its look at the read budget.
LEMMA IfExhaustedPreserves ==
  ASSUME IInv, NEW w \in Workers, IfExhausted(w) PROVE IInv'
<1>1. UNCHANGED <<rec, reads, sends, posts, gets>> /\ faults' \in Nat
  BY DEF IfExhausted, Fault, IInv, TypeOK
<1>2. CASE Finish(w)
  BY <1>1, <1>2, FinishPreserves
<1>3. CASE rec.state = "AMBIGUOUS" /\ Holding(w, rec, "holdAmbiguous") /\ UNCHANGED faults
  BY <1>1, <1>3, Looks DEF SnapState, Steps, InClaim
<1> QED
  BY <1>2, <1>3 DEF IfExhausted

\* A read of Discord changes no verdict.
LEMMA ReadPreserves ==
  ASSUME IInv, NEW w \in Workers, ClaimRead(w) \/ Read(w) PROVE IInv'
<1>1. /\ UNCHANGED <<rec, sends, posts>>
      /\ {reads', gets', faults'} \subseteq Nat
  BY DEF ClaimRead, Read, Fault, IInv, TypeOK
<1>2. CASE Finish(w) /\ UNCHANGED <<reads, gets>>
  BY <1>1, <1>2, FinishPreserves
<1>3. CASE ClaimRead(w)
  <2>1. worker[w].step = "claimRead" /\ UNCHANGED gets
    BY <1>3 DEF ClaimRead
  <2>2. CASE Go(w, worker[w], "read")
    BY <1>1, <2>1, <2>2, GoesOn
  <2>3. CASE Go(w, worker[w], "ifExhausted")
    BY <1>1, <2>1, <2>3, GoesOn
  <2> QED
    BY <1>2, <1>3, <2>1, <2>2, <2>3 DEF ClaimRead
<1>4. CASE Read(w)
  BY <1>1, <1>4, GoesOn DEF Read
<1> QED
  BY <1>3, <1>4

\* Sending: the message is posted at most once more, and the worker knows as much of
\* it as its next step says.
LEMMA SendPreserves ==
  ASSUME IInv, NEW w \in Workers, Send(w) PROVE IInv'
<1>1. /\ rec \in Records /\ worker[w] \in WorkerStates /\ worker[w].step = "send"
      /\ rec.rev \in Nat /\ rec.attempts \in Nat
      /\ SnapFits(worker[w], rec) /\ ClaimFits(worker[w], rec, posts, sends)
  BY DEF IInv, TypeOK, Records, WorkerStates, Send, SnapsFit, ClaimsFit
<1>2. /\ posts = 0 /\ sends \in Nat /\ sends < rec.attempts /\ rec.state \notin Unsent
      /\ RowFits(rec, posts, sends)
  BY <1>1 DEF ClaimFits, InClaim, IInv, TypeOK
<1>3. /\ sends' = sends + 1 /\ UNCHANGED <<rec, reads, gets, faults>>
      /\ posts' \in {0, 1}
  BY <1>2 DEF Send
<1>4. RowFits(rec', posts', sends')
  BY <1>1, <1>2, <1>3 DEF RowFits, Records, Unsent
<1>5. ASSUME NEW v \in WorkerStates, worker' = [worker EXCEPT ![w] = v],
             v.snap = worker[w].snap, v.step \in InClaim \ {"send", "deliver"},
             v.step \in {"retry", "exhausted", "reject"} => posts' = 0,
             v.step = "evidence" => posts' = 1 /\ v.mid = 1
      PROVE  IInv'
  <2>1. SnapFits(v, rec')
    BY <1>1, <1>3, <1>5 DEF SnapFits, SnapState, InClaim
  <2>2. ClaimFits(v, rec', posts', sends')
    BY <1>2, <1>3, <1>5 DEF ClaimFits
  <2>3. {reads', sends', posts', gets', faults'} \subseteq Nat
    BY <1>2, <1>3 DEF IInv, TypeOK
  <2> QED
    BY <1>1, <1>2, <1>3, <1>4, <1>5, <2>1, <2>2, <2>3, StepPreserves
       DEF IInv, TypeOK, SameRow, InClaim
<1>6. ASSUME NEW step \in {"exhausted", "retry", "reject", "ambiguous"},
             worker' = [worker EXCEPT ![w] = [worker[w] EXCEPT !.step = step]],
             step = "ambiguous" \/ posts' = 0
      PROVE  IInv'
  <2> DEFINE u == [worker[w] EXCEPT !.step = step]
  <2>1. u \in WorkerStates /\ u.step = step /\ u.snap = worker[w].snap
    BY <1>1 DEF WorkerStates, Steps
  <2> HIDE DEF u
  <2>2. worker' = [worker EXCEPT ![w] = u]
    BY <1>6 DEF u
  <2> QED
    BY <1>5, <1>6, <2>1, <2>2 DEF InClaim
<1>7. ASSUME posts' = 1,
             worker' = [worker EXCEPT ![w] = [[worker[w] EXCEPT !.mid = 1] EXCEPT !.step = "evidence"]]
      PROVE  IInv'
  <2> DEFINE h == [worker[w] EXCEPT !.mid = 1]
             u == [h EXCEPT !.step = "evidence"]
  <2>1. h \in WorkerStates /\ h.mid = 1 /\ h.snap = worker[w].snap
    BY <1>1 DEF WorkerStates
  <2> HIDE DEF h
  <2>2. u \in WorkerStates /\ u.step = "evidence" /\ u.mid = 1 /\ u.snap = worker[w].snap
    BY <2>1 DEF WorkerStates, Steps
  <2> HIDE DEF u
  <2>3. worker' = [worker EXCEPT ![w] = u]
    BY <1>7 DEF u, h
  <2> QED
    BY <1>5, <1>7, <2>2, <2>3 DEF InClaim
<1>8. \/ /\ posts' = 1
         /\ worker' = [worker EXCEPT ![w] = [[worker[w] EXCEPT !.mid = 1] EXCEPT !.step = "evidence"]]
      \/ /\ posts' = 0 /\ worker' = [worker EXCEPT ![w] = [worker[w] EXCEPT !.step = "exhausted"]]
      \/ /\ posts' = 0 /\ worker' = [worker EXCEPT ![w] = [worker[w] EXCEPT !.step = "retry"]]
      \/ /\ posts' = 0 /\ worker' = [worker EXCEPT ![w] = [worker[w] EXCEPT !.step = "reject"]]
      \/ worker' = [worker EXCEPT ![w] = [worker[w] EXCEPT !.step = "ambiguous"]]
  BY <1>2 DEF Send, Go, AfterPost
<1> QED
  BY <1>6, <1>7, <1>8

\* The accepted id goes on record under the claim that posted it.
LEMMA EvidencePreserves ==
  ASSUME IInv, NEW w \in Workers, Evidence(w) PROVE IInv'
<1> DEFINE new == [[rec EXCEPT !.mid = worker[w].mid] EXCEPT !.rev = rec.rev + 1]
           u == [[worker[w] EXCEPT !.snap = new] EXCEPT !.step = "deliver"]
<1>1. /\ rec \in Records /\ worker[w] \in WorkerStates /\ worker[w].step = "evidence"
      /\ rec.rev \in Nat /\ faults \in Nat /\ worker[w].mid \in 1 .. posts
      /\ posts \in Nat
      /\ RowFits(rec, posts, sends)
  BY DEF IInv, TypeOK, Records, WorkerStates, Evidence, ClaimsFit, ClaimFits, InClaim
<1>2. UNCHANGED <<reads, sends, posts, gets>>
  BY DEF Evidence
<1>3. CASE Finish(w) /\ UNCHANGED rec /\ faults' \in Nat
  BY <1>2, <1>3, FinishPreserves
<1>4. CASE /\ rec.state = "DELIVERING" /\ rec' = new /\ UNCHANGED faults
           /\ worker' = [worker EXCEPT ![w] = u]
  <2>1. new \in Records /\ new.rev = rec.rev + 1 /\ new.mid = worker[w].mid
        /\ new.attempts = rec.attempts /\ new.state = rec.state /\ new.lease = rec.lease
    <3> DEFINE a == [rec EXCEPT !.mid = worker[w].mid]
    <3>1. a \in Records /\ a.mid = worker[w].mid /\ a.attempts = rec.attempts
          /\ a.state = rec.state /\ a.lease = rec.lease
      BY <1>1 DEF Records
    <3> HIDE DEF a
    <3>2. LET n == [a EXCEPT !.rev = rec.rev + 1]
          IN  n \in Records /\ n.rev = rec.rev + 1 /\ n.mid = a.mid
              /\ n.attempts = a.attempts /\ n.state = a.state /\ n.lease = a.lease
      BY <1>1, <3>1 DEF Records
    <3> QED
      BY <3>1, <3>2 DEF a
  <2> HIDE DEF new
  <2>2. u \in WorkerStates /\ u.step = "deliver" /\ u.snap = new
    <3> DEFINE h == [worker[w] EXCEPT !.snap = new]
    <3>1. h \in WorkerStates /\ h.snap = new
      BY <1>1, <2>1 DEF WorkerStates
    <3> HIDE DEF h
    <3>2. LET n == [h EXCEPT !.step = "deliver"]
          IN  n \in WorkerStates /\ n.step = "deliver" /\ n.snap = new
      BY <3>1 DEF WorkerStates, Steps
    <3> QED
      BY <3>2 DEF h
  <2> HIDE DEF u
  <2>3. SnapFits(u, rec')
    BY <1>1, <1>4, <2>1, <2>2 DEF SnapFits, SnapState, SameRow, InClaim
  <2>4. ClaimFits(u, rec', posts', sends')
    BY <1>1, <1>2, <1>4, <2>1, <2>2 DEF ClaimFits, InClaim, Unsent
  <2>5. RowFits(rec', posts', sends')
    BY <1>1, <1>2, <1>4, <2>1 DEF RowFits, Unsent
  <2>6. /\ {reads', sends', posts', gets', faults'} \subseteq Nat
        /\ rec'.lease # 0 <=> rec'.state = "DELIVERING"
        /\ rec'.rev > rec.rev /\ rec'.state # "NONE"
    BY <1>1, <1>2, <1>4, <2>1 DEF IInv, TypeOK
  <2> QED
    BY <1>1, <1>4, <2>1, <2>2, <2>3, <2>4, <2>5, <2>6, StepPreserves DEF InClaim
<1> QED
  BY <1>1, <1>3, <1>4 DEF Evidence, Cas, Fault, Holding, Go

\* A crash loses only what the worker had in memory.
LEMMA CrashPreserves ==
  ASSUME IInv, NEW w \in Workers, Crash(w) PROVE IInv'
  BY FinishPreserves DEF Crash, Fault, IInv, TypeOK

-----------------------------------------------------------------------------
\* Every step keeps the invariant.
LEMMA NextPreserves == IInv /\ [Next]_vars => IInv'
<1> SUFFICES ASSUME IInv, [Next]_vars PROVE IInv'
  OBVIOUS
<1>1. CASE UNCHANGED vars
  BY <1>1 DEF vars, IInv, TypeOK, SnapsFit, ClaimsFit, OneClaim
<1>2. CASE TimePasses
  BY <1>2, TimePassesPreserves
<1>3. ASSUME NEW w \in Workers,
             Capture(w) \/ Materialize(w) \/ DeliverReady(w) \/ Reconcile(w) \/ Crash(w)
      PROVE  IInv'
  <2>1. CASE Capture(w) \/ Materialize(w) \/ Crash(w)
    BY <2>1, CapturePreserves, MaterializePreserves, CrashPreserves
  <2>2. CASE DeliverReady(w)
    BY <2>2, ClaimPreserves, ReclaimPreserves, SendPreserves, EvidencePreserves,
       DeliverPreserves, RetryPreserves, ExhaustedPreserves, HoldPreserves,
       RejectPreserves, AmbiguousPreserves DEF DeliverReady
  <2>3. CASE Reconcile(w)
    BY <2>3, ScanPreserves, RecoverPendingPreserves, RecoverStalePreserves,
       ReadPreserves, VerifiedPreserves, IfExhaustedPreserves, HoldAmbiguousPreserves
       DEF Reconcile
  <2> QED
    BY <1>3, <2>1, <2>2, <2>3
<1> QED
  BY <1>1, <1>2, <1>3 DEF Next

\* The strengthened invariant, for every number of workers, crashes and attempts.
THEOREM Inductive == Spec => []IInv
<1> QED
  BY InitHolds, NextPreserves, PTL DEF Spec

\* The types, and a lease held exactly while a row is DELIVERING.
THEOREM TypeCorrect == Spec => []TypeOK
<1>1. IInv => TypeOK
  BY DEF IInv
<1> QED
  BY <1>1, Inductive, PTL

\* transition_inner's revision check and the lease of deliver_ready's claim: the
\* user is not answered twice, whatever crashes, times out or races.
THEOREM PostedOnce == Spec => []AtMostOnePost
<1>1. IInv => AtMostOnePost
  BY DEF IInv, RowFits, AtMostOnePost
<1> QED
  BY <1>1, Inductive, PTL

\* A row that is still to be sent, or rejected, says so truly: nothing was posted.
THEOREM VerdictsAreTrue == Spec => []UnsentIsUnposted
<1>1. IInv => UnsentIsUnposted
  BY DEF IInv, TypeOK, Records, RowFits, Unsent, UnsentIsUnposted
<1> QED
  BY <1>1, Inductive, PTL

\* A DELIVERED row has the id of a message that was posted.
THEOREM DeliveriesAreEvidenced == Spec => []DeliveredHasEvidence
<1>1. IInv => DeliveredHasEvidence
  BY DEF IInv, TypeOK, Records, RowFits, DeliveredHasEvidence
<1> QED
  BY <1>1, Inductive, PTL

\* attempt_count is claimed before the send it counts.
THEOREM Counted == Spec => []SendsAreCounted
<1>1. IInv => SendsAreCounted
  BY DEF IInv, RowFits, SendsAreCounted
<1> QED
  BY <1>1, Inductive, PTL

-----------------------------------------------------------------------------
(* The budget of evidence reads. *)

\* The workers that have put a read on record and not made it yet.
Readers == {w \in Workers : worker[w].step = "read"}

ReadsFit == /\ IsFiniteSet(Readers)
            /\ gets + Cardinality(Readers) <= reads /\ reads <= MaxReads

LEMMA WorkersAreFunctions == TypeOK => worker \in [Workers -> WorkerStates]
BY DEF TypeOK, WorkerStates

\* Where a step takes a worker.
LEMMA Proceeds ==
  ASSUME TypeOK, NEW w \in Workers, NEW now, "step" \in DOMAIN now, NEW step, Go(w, now, step)
  PROVE  worker'[w].step = step /\ \A x \in Workers : x # w => worker'[x] = worker[x]
<1> DEFINE v == [now EXCEPT !.step = step]
<1>1. v.step = step
  OBVIOUS
<1>2. worker' = [worker EXCEPT ![w] = v]
  BY DEF Go
<1> HIDE DEF v
<1> QED BY <1>1, <1>2, WorkersAreFunctions

LEMMA Finishes ==
  ASSUME TypeOK, NEW w \in Workers, Finish(w)
  PROVE  worker'[w].step = "idle" /\ \A x \in Workers : x # w => worker'[x] = worker[x]
BY WorkersAreFunctions DEF Finish, Idle

\* Whatever else a step has changed in a worker's memory, it has a step.
LEMMA HasStep ==
  ASSUME TypeOK, NEW w \in Workers
  PROVE  /\ "step" \in DOMAIN worker[w]
         /\ \A row : "step" \in DOMAIN [worker[w] EXCEPT !.snap = row]
         /\ \A id : "step" \in DOMAIN [worker[w] EXCEPT !.mid = id]
         /\ \A n : "step" \in DOMAIN [worker[w] EXCEPT !.tries = n]
         /\ \A n, row : "step" \in DOMAIN [[worker[w] EXCEPT !.tries = n] EXCEPT !.snap = row]
<1>1. worker[w] \in WorkerStates
  BY WorkersAreFunctions
<1> QED BY <1>1 DEF WorkerStates

\* A worker that is not about to read, and was perhaps, changes nothing else.
LEMMA ReaderLeaves ==
  ASSUME TypeOK, ReadsFit, NEW w \in Workers, worker'[w].step # "read",
         \A x \in Workers : x # w => worker'[x] = worker[x],
         reads' = reads,
         gets' = gets \/ (worker[w].step = "read" /\ gets' = gets + 1)
  PROVE  ReadsFit'
<1>1. Readers' = Readers \ {w}
  BY DEF Readers
<1>2. /\ IsFiniteSet(Readers \ {w})
      /\ Cardinality(Readers \ {w})
           = IF w \in Readers THEN Cardinality(Readers) - 1 ELSE Cardinality(Readers)
  BY FS_RemoveElement DEF ReadsFit
<1>3. Cardinality(Readers) \in Nat /\ gets \in Nat /\ reads \in Nat /\ MaxReads \in Nat
  BY FS_CardinalityType, MaxReadsAssumption DEF ReadsFit, TypeOK
<1>4. worker[w].step = "read" <=> w \in Readers
  BY DEF Readers
<1>5. gets' + Cardinality(Readers \ {w}) <= reads
  BY <1>2, <1>3, <1>4 DEF ReadsFit
<1> QED BY <1>1, <1>2, <1>5 DEF ReadsFit

\* A read is put on record while the budget lasts.
LEMMA ReaderEnters ==
  ASSUME TypeOK, ReadsFit, NEW w \in Workers, MayRead(w), reads' = reads + 1, gets' = gets,
         worker[w].step # "read", worker'[w].step = "read",
         \A x \in Workers : x # w => worker'[x] = worker[x]
  PROVE  ReadsFit'
<1>1. Readers' = Readers \cup {w} /\ w \notin Readers
  BY DEF Readers
<1>2. /\ IsFiniteSet(Readers \cup {w})
      /\ Cardinality(Readers \cup {w}) = Cardinality(Readers) + 1
  BY <1>1, FS_AddElement DEF ReadsFit
<1>3. Cardinality(Readers) \in Nat /\ gets \in Nat /\ reads \in Nat /\ MaxReads \in Nat
  BY FS_CardinalityType, MaxReadsAssumption DEF ReadsFit, TypeOK
<1>4. gets + (Cardinality(Readers) + 1) <= reads + 1 /\ reads + 1 <= MaxReads
  BY <1>3 DEF ReadsFit, MayRead
<1> QED BY <1>1, <1>2, <1>4 DEF ReadsFit

LEMMA ReadsStep == TypeOK /\ ReadsFit /\ [Next]_vars => ReadsFit'
<1> SUFFICES ASSUME TypeOK, ReadsFit, [Next]_vars PROVE ReadsFit'
  OBVIOUS
<1>1. ASSUME worker' = worker, reads' = reads, gets' = gets PROVE ReadsFit'
  BY <1>1 DEF ReadsFit, Readers
<1>2. ASSUME NEW w \in Workers, ClaimRead(w) PROVE ReadsFit'
  <2>1. CASE MayRead(w) /\ reads' = reads + 1 /\ Go(w, worker[w], "read")
    <3>1. worker[w].step # "read" /\ gets' = gets
      BY <1>2 DEF ClaimRead
    <3>2. worker'[w].step = "read" /\ \A x \in Workers : x # w => worker'[x] = worker[x]
      BY <2>1, HasStep, Proceeds
    <3> QED BY <2>1, <3>1, <3>2, ReaderEnters
  <2>2. CASE reads' = reads /\ (Go(w, worker[w], "ifExhausted") \/ Finish(w))
    <3>1. gets' = gets
      BY <1>2 DEF ClaimRead
    <3>2. worker'[w].step # "read" /\ \A x \in Workers : x # w => worker'[x] = worker[x]
      BY <2>2, HasStep, Proceeds, Finishes
    <3> QED BY <2>2, <3>1, <3>2, ReaderLeaves
  <2> QED BY <1>2, <2>1, <2>2 DEF ClaimRead
<1>3. ASSUME NEW w \in Workers, Read(w) PROVE ReadsFit'
  <2>1. worker[w].step = "read" /\ gets' = gets + 1 /\ reads' = reads
    BY <1>3 DEF Read
  <2>2. PICK step \in {"verified", "ifExhausted", "holdAmbiguous"} : Go(w, worker[w], step)
    BY <1>3 DEF Read
  <2>3. worker'[w].step # "read" /\ \A x \in Workers : x # w => worker'[x] = worker[x]
    BY <2>2, HasStep, Proceeds
  <2> QED BY <2>1, <2>3, ReaderLeaves
<1>4. ASSUME NEW w \in Workers,
             \/ Capture(w) \/ Materialize(w) \/ DeliverReady(w) \/ Scan(w)
             \/ RecoverPending(w) \/ RecoverStale(w) \/ Verified(w) \/ IfExhausted(w)
             \/ HoldAmbiguous(w) \/ Crash(w)
      PROVE  ReadsFit'
  <2>1. reads' = reads /\ gets' = gets
    BY <1>4 DEF Capture, Materialize, DeliverReady, Claim, Reread, Recheck, Send, Evidence,
                Deliver, Retry, Exhausted, Hold, Reject, Ambiguous, Scan, RecoverPending,
                RecoverStale, Verified, IfExhausted, HoldAmbiguous, Crash
  <2>2. worker'[w].step # "read" /\ \A x \in Workers : x # w => worker'[x] = worker[x]
    <3> USE HasStep, Proceeds, Finishes
    <3>1. CASE Capture(w)
      BY <3>1 DEF Capture, Holding
    <3>2. CASE Scan(w)
      BY <3>2 DEF Scan, Holding
    <3>3. CASE IfExhausted(w)
      BY <3>3 DEF IfExhausted, Holding
    <3>4. CASE Claim(w)
      <4> DEFINE now == [worker[w] EXCEPT !.tries = @ + 1]
                 took == [now EXCEPT !.snap = Claimed(rec)]
      <4>1. "step" \in DOMAIN now /\ "step" \in DOMAIN took
        OBVIOUS
      <4>2. Go(w, took, "send") \/ Go(w, now, "reread") \/ Go(w, now, "recheck") \/ Finish(w)
        BY <3>4 DEF Claim
      <4> HIDE DEF now, took
      <4> QED BY <4>1, <4>2
    <3>5. CASE Reread(w)
      BY <3>5 DEF Reread, Holding
    <3>6. CASE Recheck(w)
      BY <3>6 DEF Recheck, Holding
    <3>7. CASE Send(w)
      BY <3>7 DEF Send, AfterPost
    <3>8. CASE Crash(w)
      BY <3>8 DEF Crash
    <3>9. CASE Materialize(w)
      BY <3>9 DEF Materialize, Cas, Holding
    <3>10. CASE Evidence(w)
      BY <3>10 DEF Evidence, Cas, Holding
    <3>11. CASE Deliver(w)
      BY <3>11 DEF Deliver, Cas, Holding
    <3>12. CASE Retry(w)
      BY <3>12 DEF Retry, Cas, Holding
    <3>13. CASE Exhausted(w)
      BY <3>13 DEF Exhausted, Cas, Holding
    <3>14. CASE Hold(w)
      BY <3>14 DEF Hold, Cas, Holding
    <3>15. CASE Reject(w)
      BY <3>15 DEF Reject, Cas, Holding
    <3>16. CASE Ambiguous(w)
      BY <3>16 DEF Ambiguous, Cas, Holding
    <3>17. CASE RecoverPending(w)
      BY <3>17 DEF RecoverPending, Cas, Holding
    <3>18. CASE RecoverStale(w)
      BY <3>18 DEF RecoverStale, Cas, Holding
    <3>19. CASE Verified(w)
      BY <3>19 DEF Verified, Cas, Holding
    <3>20. CASE HoldAmbiguous(w)
      BY <3>20 DEF HoldAmbiguous, Cas, Holding
    <3> QED
      BY <1>4, <3>1, <3>2, <3>3, <3>4, <3>5, <3>6, <3>7, <3>8, <3>9, <3>10,
              <3>11, <3>12, <3>13, <3>14, <3>15, <3>16, <3>17, <3>18, <3>19, <3>20 DEF DeliverReady
  <2> QED BY <2>1, <2>2, ReaderLeaves
<1> QED BY <1>1, <1>2, <1>3, <1>4 DEF Next, Reconcile, TimePasses, vars

\* Concurrent managers together stay within the budget of evidence reads.
THEOREM ReadsBudgeted == Spec => []ReadsAreBounded
<1>1. Init => ReadsFit
  <2> SUFFICES ASSUME Init PROVE ReadsFit
    OBVIOUS
  <2>1. Readers = {}
    BY DEF Init, Readers, Idle
  <2> QED BY <2>1, FS_EmptySet, MaxReadsAssumption DEF Init, ReadsFit
<1>2. TypeOK /\ ReadsFit => ReadsAreBounded
  <2> SUFFICES ASSUME TypeOK, ReadsFit PROVE ReadsAreBounded
    OBVIOUS
  <2>1. Cardinality(Readers) \in Nat /\ gets \in Nat /\ reads \in Nat
    BY FS_CardinalityType DEF ReadsFit, TypeOK
  <2> QED BY <2>1 DEF ReadsFit, ReadsAreBounded
<1> QED
  BY <1>1, <1>2, ReadsStep, TypeCorrect, PTL DEF Spec

-----------------------------------------------------------------------------
(* The outbox implements its promise: every step keeps the outcome and the   *)
(* number of posts, or is one of the promise's.                              *)

\* No compare-and-swap leaves a final state, and none leaves OPERATOR_HOLD.
LEMMA AdvanceKeepsPromise ==
  ASSUME IInv, IInv', NEW w \in Workers, NEW s \in States \ {"DELIVERING"}, NEW step,
         Advances(w, s, step), UNCHANGED posts,
         worker[w].snap.state \notin Final \cup {"OPERATOR_HOLD"}
  PROVE  [Promise!Next]_<<Outcome, posts>>
<1>1. CASE UNCHANGED rec
  BY <1>1 DEF Outcome
<1>2. CASE rec.state = worker[w].snap.state /\ rec'.state = s
  <2>1. Outcome = "open"
    BY <1>2 DEF Outcome, Final
  <2>2. CASE s = "DELIVERED"
    <3>1. posts = 1
      <4>1. rec' \in Records /\ posts' \in Nat /\ RowFits(rec', posts', sends')
        BY DEF IInv, TypeOK
      <4> QED
        BY <1>2, <2>2, <4>1 DEF Records, RowFits
    <3> QED
      BY <1>2, <2>1, <2>2, <3>1 DEF Outcome, Promise!Next, Promise!ConfirmDelivery
  <2>3. CASE s = "PERMANENT_REJECTED"
    <3>1. posts = 0
      BY <1>2, <2>3 DEF IInv, RowFits, Unsent
    <3> QED
      BY <1>2, <2>1, <2>3, <3>1 DEF Outcome, Promise!Next, Promise!ConfirmRejection
  <2>4. CASE s = "OPERATOR_HOLD"
    BY <1>2, <2>1, <2>4 DEF Outcome, Promise!Next, Promise!AskOperator
  <2>5. CASE s \notin {"DELIVERED", "PERMANENT_REJECTED", "OPERATOR_HOLD"}
    BY <1>2, <2>1, <2>5 DEF Outcome
  <2> QED
    BY <2>2, <2>3, <2>4, <2>5
<1> QED
  BY <1>1, <1>2 DEF Advances, SameRow

\* A step that does not move the row, or only between open states, and posts nothing.
LEMMA QuietKeepsPromise ==
  ASSUME UNCHANGED posts,
         \/ rec'.state = rec.state
         \/ {rec.state, rec'.state} \cap (Final \cup {"OPERATOR_HOLD"}) = {}
  PROVE  [Promise!Next]_<<Outcome, posts>>
  BY DEF Outcome, Final

\* A send posts only what is open or held, and was not posted.
LEMMA SendKeepsPromise ==
  ASSUME IInv, NEW w \in Workers, Send(w)
  PROVE  [Promise!Next]_<<Outcome, posts>>
<1>1. worker[w].step = "send" /\ posts = 0 /\ rec.state \notin Unsent /\ RowFits(rec, posts, sends)
  BY DEF Send, IInv, ClaimsFit, ClaimFits, InClaim
<1>2. rec.state # "DELIVERED" /\ rec.state # "PERMANENT_REJECTED"
  BY <1>1 DEF IInv, TypeOK, Records, RowFits, Unsent
<1>3. rec' = rec /\ posts' \in {0, 1}
  BY <1>1 DEF Send
<1> QED
  BY <1>1, <1>2, <1>3 DEF Outcome, Promise!Next, Promise!Post

\* Every compare-and-swap that is not a claim keeps the promise.
LEMMA CasKeepsPromise ==
  ASSUME IInv, IInv', NEW w \in Workers,
         \/ Materialize(w) \/ RecoverPending(w) \/ Deliver(w) \/ Retry(w) \/ Exhausted(w)
         \/ Hold(w) \/ Reject(w) \/ Ambiguous(w) \/ RecoverStale(w) \/ Verified(w)
         \/ HoldAmbiguous(w)
  PROVE  [Promise!Next]_<<Outcome, posts>>
<1>1. CASE Materialize(w)
  BY <1>1, MaterializeAdvances, AdvanceKeepsPromise DEF States, Final
<1>2. CASE RecoverPending(w)
  BY <1>2, RecoverPendingAdvances, AdvanceKeepsPromise DEF States, Final
<1>3. CASE Deliver(w)
  BY <1>3, DeliverAdvances, AdvanceKeepsPromise DEF States, Final
<1>4. CASE Retry(w)
  BY <1>4, RetryAdvances, AdvanceKeepsPromise DEF States, Final
<1>5. CASE Exhausted(w)
  BY <1>5, ExhaustedAdvances, AdvanceKeepsPromise DEF States, Final
<1>6. CASE Hold(w)
  BY <1>6, HoldAdvances, AdvanceKeepsPromise DEF States, Final
<1>7. CASE Reject(w)
  BY <1>7, RejectAdvances, AdvanceKeepsPromise DEF States, Final
<1>8. CASE Ambiguous(w)
  BY <1>8, AmbiguousAdvances, AdvanceKeepsPromise DEF States, Final
<1>9. CASE RecoverStale(w)
  BY <1>9, RecoverStaleAdvances, AdvanceKeepsPromise DEF States, Final
<1>10. CASE Verified(w)
  BY <1>10, VerifiedAdvances, AdvanceKeepsPromise DEF States, Final
<1>11. CASE HoldAmbiguous(w)
  BY <1>11, HoldAmbiguousAdvances, AdvanceKeepsPromise DEF States, Final
<1> QED
  BY <1>1, <1>2, <1>3, <1>4, <1>5, <1>6, <1>7, <1>8, <1>9, <1>10, <1>11

\* Every step keeps the promise.
LEMMA StepKeepsPromise ==
  ASSUME IInv, IInv', [Next]_vars
  PROVE  [Promise!Next]_<<Outcome, posts>>
<1>1. CASE UNCHANGED vars
  BY <1>1, QuietKeepsPromise DEF vars
<1>2. CASE TimePasses
  <2>1. rec'.state = rec.state /\ UNCHANGED posts
    BY <1>2 DEF TimePasses, IInv, TypeOK, Records
  <2> QED
    BY <2>1, QuietKeepsPromise
<1>3. ASSUME NEW w \in Workers, Capture(w)
      PROVE  [Promise!Next]_<<Outcome, posts>>
  <2>1. /\ posts' = posts
        /\ rec' = rec \/ (rec.state = "NONE" /\ rec' = [NoRecord EXCEPT !.state = "PENDING_RESULT"])
    BY <1>3 DEF Capture
  <2>2. [NoRecord EXCEPT !.state = "PENDING_RESULT"].state = "PENDING_RESULT"
    BY DEF NoRecord
  <2> QED
    BY <2>1, <2>2, QuietKeepsPromise DEF Final
<1>4. ASSUME NEW w \in Workers, Claim(w)
      PROVE  [Promise!Next]_<<Outcome, posts>>
  <2>1. /\ posts' = posts
        /\ rec' = rec \/ (rec' = Claimed(rec) /\ Owns(w, "DELIVERING"))
    BY <1>4 DEF Claim
  <2>2. rec \in Records
    BY DEF IInv, TypeOK
  <2>3. CASE rec' = Claimed(rec) /\ Owns(w, "DELIVERING")
    <3>1. rec'.state = "DELIVERING" /\ rec.state \in Claimable
      BY <2>2, <2>3, ClaimedRow, MovesInto DEF Owns
    <3> QED
      BY <2>1, <3>1, QuietKeepsPromise DEF Final, Claimable
  <2> QED
    BY <2>1, <2>3, QuietKeepsPromise
<1>5. ASSUME NEW w \in Workers, Evidence(w)
      PROVE  [Promise!Next]_<<Outcome, posts>>
  <2>1. UNCHANGED posts /\ rec \in Records
    BY <1>5 DEF Evidence, IInv, TypeOK
  <2>2. rec'.state = rec.state
    BY <1>5, <2>1 DEF Evidence, Cas, Records
  <2> QED
    BY <2>1, <2>2, QuietKeepsPromise
<1>6. ASSUME NEW w \in Workers,
             Reread(w) \/ Recheck(w) \/ Scan(w) \/ ClaimRead(w) \/ Read(w) \/ IfExhausted(w)
               \/ Crash(w)
      PROVE  [Promise!Next]_<<Outcome, posts>>
  <2>1. UNCHANGED <<rec, posts>>
    BY <1>6 DEF Reread, Recheck, Scan, ClaimRead, Read, IfExhausted, Crash
  <2> QED
    BY <2>1, QuietKeepsPromise
<1> QED
  BY <1>1, <1>2, <1>3, <1>4, <1>5, <1>6, SendKeepsPromise, CasKeepsPromise
     DEF Next, DeliverReady, Reconcile

\* An answer is posted at most once, and only while it is open or held; a verdict on
\* it is true when it is given and never changes.
THEOREM Refinement == Spec => KeepsPromise
<1>1. Init => Promise!Init
  BY DEF Init, Promise!Init, Outcome, NoRecord
<1>2. IInv /\ IInv' /\ [Next]_vars => [Promise!Next]_<<Outcome, posts>>
  BY StepKeepsPromise
<1> QED
  BY <1>1, <1>2, Inductive, PTL DEF Spec, KeepsPromise, Promise!Spec, Promise!vars
=============================================================================
