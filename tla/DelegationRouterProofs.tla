----------------------- MODULE DelegationRouterProofs -----------------------
(***************************************************************************)
(* For any number of connections, delegations, losses and deadlines: slots *)
(* are taken and given back once, an admission ends once and for its own   *)
(* reason, its ancestry is genuine, nothing is in flight for the dead, and *)
(* the router implements DelegationPromise.                                *)
(***************************************************************************)
EXTENDS DelegationRouter, FiniteSetTheorems, SequenceTheorems, TLAPS

Locked == {"select", "reserve", "insert", "forward", "rollback", "unreserve"}
Ends == {"cancelling", "failing", "expiring"}
Ways == {"none", "withdrawn", "completed", "cancelled", "failed", "expired"}

Selecting == [step : {"select"}, req : Requests]
Work == Doings \cup Selecting

\* The types of all but what the tasks do, which is typed apart.
Data == /\ registered \subseteq listening /\ listening \subseteq Handles
        /\ active \in [Handles -> Nat]
        /\ inflight \in [Ids -> 0 .. minted]
        /\ minted \in 0 .. MaxGen
        /\ adm \in Seq(Entries) /\ Len(adm) = minted
        /\ now \in 0 .. Horizon
        /\ {forwarded, cancels, asked} \subseteq SUBSET (1 .. minted)
        /\ results \in [Gens -> Nat] /\ notices \in [Gens -> Nat]
        /\ how \in [Gens -> Ways]
        /\ lock \in Handles \cup {None}

LockFits == \A t \in Tasks : task[t].step \in Locked <=> lock = t

LEMMA TypesAre == TypeOK <=> Data /\ task \in [Tasks -> Work] /\ LockFits
BY DEF TypeOK, Data, Work, Selecting, LockFits, Locked, Ways

LEMMA Counting ==
  /\ MaxGen \in Nat /\ MaxInflight \in Nat /\ MaxDepth \in Nat /\ Horizon \in Nat
  /\ Max \in [Handles -> Nat] /\ NameOf \in [Handles -> Names]
  /\ Sweeper \notin Handles /\ None \notin Tasks
  /\ Sweeper \in Tasks /\ Handles \subseteq Tasks /\ Tasks \ {Sweeper} = Handles
BY RouterAssumption DEF Tasks

\* An admission has an entry.
LEMMA AdmType ==
  ASSUME Data, NEW g \in 1 .. minted
  PROVE  /\ adm[g] \in Entries /\ g \in Gens /\ g \in Nat /\ g # 0
         /\ adm[g].id \in Ids /\ adm[g].from \in Handles /\ adm[g].to \in Handles
         /\ adm[g].deadline \in Nat /\ adm[g].chain \in Chains
         /\ adm[g].parent \in 0 .. MaxGen
<1>1. minted \in Nat /\ minted <= MaxGen /\ MaxGen \in Nat
  BY Counting DEF Data
<1>2. g \in Gens /\ g \in Nat /\ g # 0
  BY <1>1 DEF Gens
<1>3. adm[g] \in Entries
  <2>1. g \in 1 .. Len(adm)
    BY DEF Data
  <2> QED BY <2>1, ElementOfSeq DEF Data
<1> QED BY <1>2, <1>3 DEF Entries
-----------------------------------------------------------------------------
(* Where the steps take the tasks. *)

\* Only t moves, to such a task.
To(t, step, g, echo, victim, batch) ==
  /\ task'[t] \in Doings
  /\ task'[t].step = step /\ task'[t].g = g /\ task'[t].echo = echo
  /\ task'[t].victim = victim /\ task'[t].batch = batch
  /\ \A u \in Tasks \ {t} : task'[u] = task[u]

ToIdle(t) == To(t, "idle", 0, 0, None, {})

\* The task goes on to another step with what it has.
Onto(t, step) == To(t, step, task[t].g, task[t].echo, task[t].victim, task[t].batch)

ToEnding(t, step, victim, batch) ==
  IF batch = {} /\ victim # t THEN ToIdle(t) ELSE To(t, step, 0, 0, victim, batch)

LEMMA TaskIs ==
  ASSUME TypeOK, NEW t \in Tasks
  PROVE  /\ task[t] \in Work
         /\ task[t].step # "select" => task[t] \in Doings
         /\ task[t].step = "select" => task[t] \in Selecting /\ task[t].req \in Requests
         /\ task[t].step \in Steps
BY TypesAre DEF Work, Doings, Selecting, Steps

LEMMA GoesTo ==
  ASSUME TypeOK, NEW t \in Tasks, NEW v \in Doings, Goes(t, v)
  PROVE  To(t, v.step, v.g, v.echo, v.victim, v.batch)
BY TypesAre DEF Goes, To

LEMMA DoingIs ==
  ASSUME NEW s \in Steps \ {"select"}
  PROVE  /\ Doing(s) \in Doings
         /\ Doing(s).step = s /\ Doing(s).g = 0 /\ Doing(s).echo = 0
         /\ Doing(s).victim = None /\ Doing(s).batch = {}
BY Counting DEF Doing, Doings, Gens

LEMMA GoesIdle == ASSUME TypeOK, NEW t \in Tasks, Goes(t, Doing("idle")) PROVE ToIdle(t)
<1>1. "idle" \in Steps \ {"select"}
  BY DEF Steps
<1> QED BY <1>1, DoingIs, GoesTo DEF ToIdle

LEMMA GoesOnto ==
  ASSUME TypeOK, NEW t \in Tasks, task[t].step # "select", NEW s \in Steps \ {"select"},
         Goes(t, [task[t] EXCEPT !.step = s])
  PROVE  Onto(t, s)
<1> DEFINE v == [task[t] EXCEPT !.step = s]
<1>1. task[t] \in Doings
  BY TaskIs
<1>2. /\ v \in Doings /\ v.step = s /\ v.g = task[t].g /\ v.echo = task[t].echo
      /\ v.victim = task[t].victim /\ v.batch = task[t].batch
  BY <1>1 DEF Doings
<1> HIDE DEF v
<1> QED BY <1>2, GoesTo DEF Onto, v

LEMMA GoesEnding ==
  ASSUME TypeOK, NEW t \in Tasks, NEW s \in Steps \ {"select"},
         NEW victim \in Handles \cup {None}, NEW batch \in SUBSET Gens,
         Goes(t, Ending(t, s, victim, batch))
  PROVE  ToEnding(t, s, victim, batch)
<1>1. CASE batch = {} /\ victim # t
  BY <1>1, GoesIdle DEF Ending, ToEnding
<1>2. CASE ~(batch = {} /\ victim # t)
  <2> DEFINE d == Doing(s)
             w == [d EXCEPT !.victim = victim]
             v == [w EXCEPT !.batch = batch]
  <2>2. Goes(t, v)
    BY <1>2 DEF Ending
  <2>3. d \in Doings /\ d.step = s /\ d.g = 0 /\ d.echo = 0 /\ d.batch = {}
    BY DoingIs
  <2> HIDE DEF d
  <2>4. /\ w \in Doings /\ w.step = s /\ w.g = 0 /\ w.echo = 0 /\ w.victim = victim
    BY <2>3 DEF Doings
  <2> HIDE DEF w
  <2>1. /\ v \in Doings /\ v.step = s /\ v.g = 0 /\ v.echo = 0
        /\ v.victim = victim /\ v.batch = batch
    BY <2>4 DEF Doings
  <2> HIDE DEF v
  <2> QED BY <1>2, <2>1, <2>2, GoesTo DEF ToEnding
<1> QED BY <1>1, <1>2

\* A task that has deregistered a connection turns to what is in flight for it.
LEMMA FailsFor ==
  ASSUME TypeOK, NEW t \in Tasks, NEW h \in Handles,
         Goes(t, [Doing("fail") EXCEPT !.victim = h])
  PROVE  To(t, "fail", 0, 0, h, {})
<1> DEFINE d == Doing("fail")
           v == [d EXCEPT !.victim = h]
<1>1. d \in Doings /\ d.step = "fail" /\ d.g = 0 /\ d.echo = 0 /\ d.batch = {}
  BY DoingIs DEF Steps
<1> HIDE DEF d
<1>2. /\ v \in Doings /\ v.step = "fail" /\ v.g = 0 /\ v.echo = 0 /\ v.victim = h
      /\ v.batch = {}
  BY <1>1 DEF Doings
<1>3. Goes(t, v)
  BY DEF d
<1> HIDE DEF v
<1> QED BY <1>2, <1>3, GoesTo

\* A request is taken up.
ToSelect(h, r) ==
  /\ task'[h] \in Selecting /\ task'[h].step = "select" /\ task'[h].req = r
  /\ \A u \in Tasks \ {h} : task'[u] = task[u]

\* A request that names a parent, which its sender serves.
ParentFits(h, r) ==
  IF r.parent = 0 THEN r.chain = <<>>
  ELSE /\ r.parent \in 1 .. minted /\ adm[r.parent].to = h
       /\ r.chain = adm[r.parent].chain /\ r.limit = adm[r.parent].deadline

LEMMA DelegateMoves ==
  ASSUME TypeOK, NEW h \in Handles, Delegate(h)
  PROVE  \E r \in Requests : ToSelect(h, r) /\ inflight[r.id] = 0 /\ ParentFits(h, r)
<1>1. PICK id \in Ids, want \in Selectors, deadline \in Deadlines,
           p \in {0} \cup {g \in forwarded : adm[g].to = h} :
        /\ inflight[id] = 0
        /\ p # 0 => Parent(h, p) # 0
        /\ Goes(h, [step |-> "select",
                    req |-> Request(id, want, deadline, p, IF p = 0 THEN 0 ELSE Parent(h, p))])
  BY DEF Delegate
<1>2. Data /\ task \in [Tasks -> Work] /\ h \in Tasks
  BY TypesAre, Counting
<1>3. p # 0 => p \in 1 .. minted /\ adm[p].to = h /\ Parent(h, p) = p
  BY <1>1, <1>2 DEF Data, Parent
<1> DEFINE e == IF p = 0 THEN 0 ELSE Parent(h, p)
           r == Request(id, want, deadline, p, e)
<1>4. e = p
  BY <1>3
<1>5. /\ r.id = id /\ r.parent = p
      /\ p = 0 => r.chain = <<>>
      /\ p # 0 => r.chain = adm[p].chain /\ r.limit = adm[p].deadline
  BY <1>4 DEF Request
<1>6. r \in Requests
  <2>1. want \in SUBSET Names /\ deadline \in Nat /\ now \in Nat
    BY <1>2, RouterAssumption DEF Data
  <2>2. CASE p = 0
    <3>1. r = [id |-> id, want |-> want, deadline |-> deadline, at |-> now, parent |-> 0,
               chain |-> <<>>, limit |-> deadline]
      BY <2>2, <1>4 DEF Request
    <3>2. <<>> \in Chains /\ 0 \in 0 .. MaxGen
      BY EmptySeq, Counting DEF Chains
    <3> QED BY <3>1, <3>2, <2>1 DEF Requests
  <2>3. CASE p # 0
    <3>1. r = [id |-> id, want |-> want, deadline |-> deadline, at |-> now, parent |-> p,
               chain |-> adm[p].chain, limit |-> adm[p].deadline]
      BY <2>3, <1>4 DEF Request
    <3>2. adm[p].chain \in Chains /\ adm[p].deadline \in Nat /\ p \in Gens
      BY <2>3, <1>2, <1>3, AdmType
    <3>3. p \in 0 .. MaxGen
      BY <3>2, Counting DEF Gens
    <3> QED BY <3>1, <3>2, <3>3, <2>1 DEF Requests
  <2> QED BY <2>2, <2>3
<1> HIDE DEF r, e
<1>7. Goes(h, [step |-> "select", req |-> r])
  BY <1>1 DEF r, e
<1>8. [step |-> "select", req |-> r] \in Selecting
  BY <1>6 DEF Selecting
<1>9. ToSelect(h, r)
  BY <1>2, <1>7, <1>8 DEF Goes, ToSelect
<1>10. ParentFits(h, r)
  BY <1>3, <1>5 DEF ParentFits
<1> QED BY <1>1, <1>5, <1>6, <1>9, <1>10

LEMMA SelectMoves ==
  ASSUME TypeOK, NEW h \in Handles, Select(h)
  PROVE  LET r == task[h].req IN
         \/ \E to \in Candidates(r) :
              /\ Allowed(h, to, r) /\ minted < MaxGen /\ minted' = minted + 1
              /\ adm' = Append(adm, [id |-> r.id, from |-> h, to |-> to,
                                     deadline |-> r.deadline, parent |-> r.parent,
                                     chain |-> Append(r.chain, NameOf[h])])
              /\ lock' = lock
              /\ To(h, "reserve", minted + 1, 0, None, {})
         \/ /\ minted' = minted /\ adm' = adm /\ lock' = None /\ ToIdle(h)
<1> DEFINE r == task[h].req
<1>1. h \in Tasks /\ minted \in Nat /\ MaxGen \in Nat
  BY Counting, TypesAre DEF Data
<1>2. CASE \E to \in Candidates(r) :
              /\ Allowed(h, to, r) /\ minted < MaxGen
              /\ minted' = minted + 1
              /\ adm' = Append(adm, [id |-> r.id, from |-> h, to |-> to,
                                     deadline |-> r.deadline, parent |-> r.parent,
                                     chain |-> Append(r.chain, NameOf[h])])
              /\ Goes(h, [Doing("reserve") EXCEPT !.g = minted + 1])
              /\ UNCHANGED lock
  <2>1. PICK to \in Candidates(r) :
              /\ Allowed(h, to, r) /\ minted < MaxGen
              /\ minted' = minted + 1
              /\ adm' = Append(adm, [id |-> r.id, from |-> h, to |-> to,
                                     deadline |-> r.deadline, parent |-> r.parent,
                                     chain |-> Append(r.chain, NameOf[h])])
              /\ Goes(h, [Doing("reserve") EXCEPT !.g = minted + 1])
              /\ UNCHANGED lock
    BY <1>2
  <2> DEFINE d == Doing("reserve")
             v == [d EXCEPT !.g = minted + 1]
  <2>2. /\ d \in Doings /\ d.step = "reserve" /\ d.echo = 0 /\ d.victim = None /\ d.batch = {}
    BY DoingIs DEF Steps
  <2>3. minted + 1 \in 0 .. MaxGen
    BY <1>1, <2>1
  <2> HIDE DEF d
  <2>4. /\ v \in Doings /\ v.step = "reserve" /\ v.g = minted + 1 /\ v.echo = 0
        /\ v.victim = None /\ v.batch = {}
    BY <2>2, <2>3 DEF Doings
  <2>5. Goes(h, v)
    BY <2>1 DEF d
  <2> HIDE DEF v
  <2>6. To(h, "reserve", minted + 1, 0, None, {})
    BY <1>1, <2>4, <2>5, GoesTo
  <2> QED BY <2>1, <2>6
<1>3. CASE /\ lock' = None /\ Goes(h, Doing("idle"))
           /\ UNCHANGED <<minted, adm>>
  BY <1>1, <1>3, GoesIdle
<1> QED BY <1>2, <1>3 DEF Select

\* The steps of an admission under the lock.
LEMMA AdmissionMoves ==
  ASSUME TypeOK, NEW h \in Handles
  PROVE  /\ Reserve(h) => Onto(h, "insert")
         /\ Insert(h) => Onto(h, "forward")
         /\ Forward(h) => \/ lock' = None /\ ToIdle(h)
                          \/ lock' = lock /\ forwarded' = forwarded /\ Onto(h, "rollback")
         /\ Rollback(h) => \/ /\ Holds(task[h].g) /\ Remove({task[h].g}, "withdrawn")
                              /\ lock' = lock /\ Onto(h, "unreserve")
                           \/ /\ ~Holds(task[h].g) /\ UNCHANGED <<inflight, how>>
                              /\ lock' = None /\ ToIdle(h)
         /\ Unreserve(h) => ToIdle(h)
<1>1. {"insert", "forward", "rollback", "unreserve"} \subseteq Steps \ {"select"} /\ h \in Tasks
  BY Counting DEF Steps
<1> USE <1>1, GoesOnto, GoesIdle
<1>2. Reserve(h) => Onto(h, "insert")
  BY DEF Reserve
<1>3. Insert(h) => Onto(h, "forward")
  BY DEF Insert
<1>4. Forward(h) => \/ lock' = None /\ ToIdle(h)
                    \/ lock' = lock /\ forwarded' = forwarded /\ Onto(h, "rollback")
  BY DEF Forward
<1>5. Rollback(h) => \/ /\ Holds(task[h].g) /\ Remove({task[h].g}, "withdrawn")
                        /\ lock' = lock /\ Onto(h, "unreserve")
                     \/ /\ ~Holds(task[h].g) /\ UNCHANGED <<inflight, how>>
                        /\ lock' = None /\ ToIdle(h)
  BY DEF Rollback
<1>6. Unreserve(h) => ToIdle(h)
  BY DEF Unreserve
<1> QED BY <1>2, <1>3, <1>4, <1>5, <1>6

\* The steps of a result.
LEMMA ResultMoves ==
  ASSUME TypeOK, NEW h \in Handles
  PROVE  /\ Result(h) => \E g \in 1 .. minted : /\ g \in forwarded /\ adm[g].to = h /\ Holds(g)
                                                /\ To(h, "deliver", g, g, None, {})
         /\ Deliver(h) => \/ ToIdle(h) /\ results' = results
                          \/ /\ adm[task[h].g].from \in registered
                             /\ results' = [results EXCEPT ![task[h].echo] = @ + 1]
                             /\ Onto(h, "commit")
         /\ Commit(h) => \/ /\ Commits(h) # 0 /\ Remove({Commits(h)}, "completed")
                            /\ Onto(h, "free")
                         \/ /\ Commits(h) = 0 /\ UNCHANGED <<inflight, how>>
                            /\ ToIdle(h)
         /\ FreeSlot(h) => ToIdle(h)
<1>1. {"commit", "free", "deliver"} \subseteq Steps \ {"select"} /\ h \in Tasks
  BY Counting DEF Steps
<1>2. ASSUME Result(h)
      PROVE  \E g \in 1 .. minted : /\ g \in forwarded /\ adm[g].to = h /\ Holds(g)
                                    /\ To(h, "deliver", g, g, None, {})
  <2>1. PICK g \in forwarded :
          /\ adm[g].to = h /\ Serving(h, g)
          /\ Goes(h, [[Doing("deliver") EXCEPT !.g = inflight[adm[g].id]] EXCEPT !.echo = g])
    BY <1>2 DEF Result
  <2>2. g \in 1 .. minted /\ g \in Gens
    BY TypesAre, AdmType DEF Data
  <2>3. inflight[adm[g].id] = g
    BY <2>1 DEF Serving
  <2> DEFINE d == Doing("deliver")
             w == [d EXCEPT !.g = g]
             v == [w EXCEPT !.echo = g]
  <2>4. Goes(h, v)
    BY <2>1, <2>3
  <2>5. g \in 0 .. MaxGen
    BY <2>2, Counting DEF Gens
  <2>6. d \in Doings /\ d.step = "deliver" /\ d.victim = None /\ d.batch = {}
    BY <1>1, DoingIs
  <2> HIDE DEF d
  <2>7. w \in Doings /\ w.step = "deliver" /\ w.g = g /\ w.victim = None /\ w.batch = {}
    BY <2>5, <2>6 DEF Doings
  <2> HIDE DEF w
  <2>8. /\ v \in Doings /\ v.step = "deliver" /\ v.g = g /\ v.echo = g /\ v.victim = None
        /\ v.batch = {}
    BY <2>5, <2>7 DEF Doings
  <2> HIDE DEF v
  <2>9. To(h, "deliver", g, g, None, {})
    BY <1>1, <2>4, <2>8, GoesTo
  <2> QED BY <2>1, <2>2, <2>3, <2>9 DEF Holds
<1> USE <1>1, GoesOnto, GoesIdle
<1>3. Deliver(h) => \/ ToIdle(h) /\ results' = results
                    \/ /\ adm[task[h].g].from \in registered
                       /\ results' = [results EXCEPT ![task[h].echo] = @ + 1]
                       /\ Onto(h, "commit")
  BY DEF Deliver
<1>4. Commit(h) => \/ /\ Commits(h) # 0 /\ Remove({Commits(h)}, "completed")
                      /\ Onto(h, "free")
                   \/ /\ Commits(h) = 0 /\ UNCHANGED <<inflight, how>>
                      /\ ToIdle(h)
  BY DEF Commit
<1>5. FreeSlot(h) => ToIdle(h)
  BY DEF FreeSlot
<1> QED BY <1>2, <1>3, <1>4, <1>5

\* The steps of a connection's life.
LEMMA LifeMoves ==
  ASSUME TypeOK, NEW h \in Handles
  PROVE  /\ Register(h) => ToIdle(h)
         /\ Break(h) => To(h, "fail", 0, 0, h, {})
         /\ DropReceiver(h) => /\ task[h].step = "failing" /\ task[h].victim = h
                               /\ task[h].batch = {} /\ To(h, "gone", 0, 0, None, {})
<1>1. {"fail", "failing", "gone"} \subseteq Steps \ {"select"} /\ h \in Tasks
  BY Counting DEF Steps
<1>2. Register(h) => ToIdle(h)
  BY <1>1, GoesIdle DEF Register
<1>3. Break(h) => To(h, "fail", 0, 0, h, {})
  BY <1>1, FailsFor DEF Break
<1>4. ASSUME DropReceiver(h)
      PROVE  /\ task[h].step = "failing" /\ task[h].victim = h
             /\ task[h].batch = {} /\ To(h, "gone", 0, 0, None, {})
  <2>1. task[h].step = "failing" /\ task[h].victim = h /\ task[h].batch = {}
    <3>1. Doing("failing") \in Doings /\ Doing("failing").step = "failing"
      BY <1>1, DoingIs
    <3>2. task[h] = [[Doing("failing") EXCEPT !.victim = h] EXCEPT !.batch = {}]
      BY <1>4 DEF DropReceiver, Ending
    <3> QED BY <3>1, <3>2 DEF Doings
  <2>2. To(h, "gone", 0, 0, None, {})
    <3> DEFINE d == Doing("gone")
    <3>1. /\ d \in Doings /\ d.step = "gone" /\ d.g = 0 /\ d.echo = 0 /\ d.victim = None
          /\ d.batch = {}
      BY <1>1, DoingIs
    <3>2. Goes(h, d)
      BY <1>4 DEF DropReceiver
    <3> HIDE DEF d
    <3> QED BY <1>1, <3>1, <3>2, GoesTo
  <2> QED BY <2>1, <2>2
<1> QED BY <1>2, <1>3, <1>4

LEMMA LiveIs ==
  ASSUME Data
  PROVE  Live \subseteq 1 .. minted /\ Live \subseteq Gens /\ IsFiniteSet(Live)
<1>1. Live \subseteq 1 .. minted
  BY DEF Live
<1>2. minted \in Nat /\ IsFiniteSet(1 .. minted)
  BY FS_Interval DEF Data
<1> QED BY <1>1, <1>2, AdmType, FS_Subset

\* The steps that take admissions out of the table for another reason.
LEMMA EndingMoves ==
  ASSUME TypeOK
  PROVE  /\ \A h \in Handles : Cancel(h) =>
              \E g \in 1 .. minted : /\ Holds(g) /\ adm[g].from = h
                                     /\ Remove({g}, "cancelled") /\ asked' = asked \cup {g}
                                     /\ To(h, "cancelling", 0, 0, None, {g})
         /\ ExpireLease => \E h \in registered : /\ Deregistered(h)
                                                 /\ To(Sweeper, "fail", 0, 0, h, {})
         /\ SweepDeadlines => To(Sweeper, "expiring", 0, 0, None, Overdue)
<1>0. Data /\ {"cancelling", "expiring"} \subseteq Steps \ {"select"} /\ None \notin Tasks
  BY TypesAre, Counting DEF Steps
<1>1. ASSUME NEW h \in Handles, Cancel(h)
      PROVE  \E g \in 1 .. minted : /\ Holds(g) /\ adm[g].from = h
                                    /\ Remove({g}, "cancelled") /\ asked' = asked \cup {g}
                                    /\ To(h, "cancelling", 0, 0, None, {g})
  <2>1. PICK g \in forwarded :
          /\ adm[g].from = h /\ Claimed(h, g) # 0 /\ Remove({Claimed(h, g)}, "cancelled")
          /\ asked' = asked \cup {g}
          /\ Goes(h, Ending(h, "cancelling", None, {Claimed(h, g)}))
    BY <1>1 DEF Cancel
  <2>2. g \in 1 .. minted /\ g \in Gens /\ Claimed(h, g) = g /\ Holds(g)
    BY <1>0, <2>1, AdmType DEF Data, Claimed, Holds
  <2>3. ToEnding(h, "cancelling", None, {g})
    BY <1>0, <2>1, <2>2, GoesEnding, Counting
  <2> QED BY <2>1, <2>2, <2>3 DEF ToEnding
<1>2. ASSUME ExpireLease
      PROVE  \E h \in registered : Deregistered(h) /\ To(Sweeper, "fail", 0, 0, h, {})
  BY <1>0, <1>2, FailsFor, Counting DEF ExpireLease, Data
<1>3. ASSUME SweepDeadlines PROVE To(Sweeper, "expiring", 0, 0, None, Overdue)
  <2>1. Overdue # {} /\ Overdue \in SUBSET Gens
    BY <1>0, <1>3, LiveIs DEF SweepDeadlines, Overdue
  <2>2. ToEnding(Sweeper, "expiring", None, Overdue)
    BY <1>0, <1>3, <2>1, GoesEnding, Counting DEF SweepDeadlines
  <2> QED BY <2>1, <2>2 DEF ToEnding
<1> QED BY <1>1, <1>2, <1>3

LEMMA FailMoves ==
  ASSUME TypeOK, NEW t \in Tasks, FailInstance(t)
  PROVE  ToEnding(t, "failing", task[t].victim, Touching(task[t].victim))
<1>1. task[t] \in Doings
  BY TaskIs DEF FailInstance
<1>2. task[t].victim \in Handles \cup {None} /\ "failing" \in Steps \ {"select"}
  BY <1>1 DEF Doings, Steps
<1>3. Touching(task[t].victim) \in SUBSET Gens
  BY TypesAre, LiveIs DEF Touching
<1> QED BY <1>2, <1>3, GoesEnding DEF FailInstance

LEMMA ReleaseMoves ==
  ASSUME TypeOK, NEW t \in Tasks, Release(t)
  PROVE  \E g \in task[t].batch :
           /\ active' = Freed(adm[g].to)
           /\ notices' = IF TellsInitiator(t, g) /\ adm[g].from \in registered
                            THEN [notices EXCEPT ![g] = @ + 1] ELSE notices
           /\ cancels' = IF TellsTarget(t, g) /\ adm[g].to \in registered
                            THEN cancels \cup {g} ELSE cancels
           /\ ToEnding(t, task[t].step, task[t].victim, task[t].batch \ {g})
<1>1. task[t] \in Doings /\ task[t].step \in Ends
  BY TaskIs DEF Release, Ends
<1>2. /\ task[t].victim \in Handles \cup {None} /\ task[t].step \in Steps \ {"select"}
      /\ task[t].batch \in SUBSET Gens
  BY <1>1 DEF Doings, Steps, Ends
<1>3. PICK g \in task[t].batch :
           /\ active' = Freed(adm[g].to)
           /\ notices' = IF TellsInitiator(t, g) /\ adm[g].from \in registered
                            THEN [notices EXCEPT ![g] = @ + 1] ELSE notices
           /\ cancels' = IF TellsTarget(t, g) /\ adm[g].to \in registered
                            THEN cancels \cup {g} ELSE cancels
           /\ Goes(t, Ending(t, task[t].step, task[t].victim, task[t].batch \ {g}))
  BY DEF Release
<1>4. task[t].batch \ {g} \in SUBSET Gens
  BY <1>2
<1>5. ToEnding(t, task[t].step, task[t].victim, task[t].batch \ {g})
  BY <1>2, <1>3, <1>4, GoesEnding
<1> QED BY <1>3, <1>5

-----------------------------------------------------------------------------
(* Types. *)

LEMMA Typed ==
  ASSUME TypeOK, NEW t \in Tasks, NEW v, Goes(t, v), task'[t] \in Work,
         \A u \in Tasks \ {t} : task'[u] = task[u],
         task'[t].step \in Locked <=> lock' = t,
         lock' = lock \/ {lock, lock'} \subseteq {None, t},
         Data'
  PROVE  TypeOK'
<1>1. task \in [Tasks -> Work] /\ LockFits
  BY TypesAre
<1>2. task' \in [Tasks -> Work]
  <2>1. task' = [u \in Tasks |-> task'[u]]
    BY <1>1 DEF Goes
  <2>2. \A u \in Tasks : task'[u] \in Work
    BY <1>1
  <2> QED BY <2>1, <2>2
<1>3. LockFits'
  BY <1>1, Counting DEF LockFits
<1>4. Data' /\ task' \in [Tasks -> Work] /\ LockFits' => TypeOK'
  BY DEF TypeOK, Data, Work, Selecting, LockFits, Locked, Ways
<1> QED BY <1>2, <1>3, <1>4

\* The usual case: the task is in Doings, and it keeps the lock, or leaves it.
LEMMA TypedTo ==
  ASSUME TypeOK, NEW t \in Tasks, NEW v, Goes(t, v), NEW step, NEW g, NEW echo, NEW victim,
         NEW batch, To(t, step, g, echo, victim, batch), Data',
         \/ task[t].step \notin Locked /\ step \notin Locked /\ lock' = lock
         \/ task[t].step \in Locked /\ step \in Locked /\ lock' = lock
         \/ task[t].step \in Locked /\ step \notin Locked /\ lock' = None
  PROVE  TypeOK'
<1>1. /\ task'[t] \in Work /\ task'[t].step = step
      /\ \A u \in Tasks \ {t} : task'[u] = task[u]
  BY DEF To, Work
<1>2. task[t].step \in Locked <=> lock = t
  BY TypesAre DEF LockFits
<1>3. None # t
  BY Counting
<1> QED BY <1>1, <1>2, <1>3, Typed

LEMMA RemoveTyped ==
  ASSUME Data, NEW S, NEW way \in Ways, Remove(S, way), minted' = minted
  PROVE  inflight' \in [Ids -> 0 .. minted'] /\ how' \in [Gens -> Ways]
<1>1. minted \in Nat
  BY Counting DEF Data
<1> QED BY <1>1 DEF Data, Remove

LEMMA SlotsTyped ==
  ASSUME Data, NEW h \in Handles
  PROVE  Taken(h) \in [Handles -> Nat] /\ Freed(h) \in [Handles -> Nat]
<1>1. active \in [Handles -> Nat]
  BY DEF Data
<1>2. Taken(h) \in [Handles -> Nat]
  BY <1>1 DEF Taken
<1>3. CASE h \in registered /\ active[h] > 0
  <2>1. active[h] - 1 \in Nat
    BY <1>1, <1>3
  <2>2. [active EXCEPT ![h] = @ - 1] \in [Handles -> Nat]
    BY <1>1, <2>1
  <2> QED BY <1>2, <1>3, <2>2 DEF Freed
<1>4. CASE ~(h \in registered /\ active[h] > 0)
  BY <1>1, <1>2, <1>4 DEF Freed
<1> QED BY <1>3, <1>4

\* Where the entries of the tasks' admissions are.  t's own part of it, for
\* a state v of t.
Root(t, v) ==
  /\ v.step \in {"reserve", "insert", "forward", "rollback", "unreserve"} =>
       t \in Handles /\ v.g \in 1 .. minted /\ adm[v.g].from = t
  /\ v.step \in {"deliver", "commit", "free"} =>
       t \in Handles /\ v.g \in 1 .. minted /\ adm[v.g].to = t /\ v.echo = v.g
  /\ v.step \in Ends => v.batch \subseteq 1 .. minted
  /\ v.step \in {"fail", "failing"} => /\ v.victim \in Handles
                                       /\ t \in Handles => v.victim = t
  /\ v.step \in {"select", "new", "gone"} => t \in Handles

Rooted == \A t \in Tasks : Root(t, task[t])

\* Who is in the registry still.
Registry(t, v) ==
  /\ v.step \in {"fail", "failing"} => v.victim \notin registered
  /\ v.step \in {"new", "fail", "failing", "gone"} => t \notin registered

RegistryFits == /\ \A t \in Tasks : Registry(t, task[t])
                /\ \A t \in Tasks : task[t].step \in {"fail", "failing"} =>
                     task[task[t].victim].step # "new"
                /\ \A h \in Handles \ registered : active[h] = 0

Typing == TypeOK /\ Rooted /\ RegistryFits

\* A connection's task is among the tasks, and the parts of the typing.
LEMMA TypingGives ==
  ASSUME Typing
  PROVE  /\ Data /\ TypeOK /\ Rooted /\ RegistryFits /\ LockFits
         /\ Handles \subseteq Tasks /\ Sweeper \in Tasks /\ None \notin Tasks
         /\ \A t \in Tasks : Root(t, task[t]) /\ Registry(t, task[t])
BY TypesAre, Counting DEF Typing, Rooted, RegistryFits

LEMMA LifeTyped ==
  ASSUME Typing, NEW h \in Handles, Register(h) \/ Break(h) \/ DropReceiver(h)
  PROVE  TypeOK'
<1>1. Data /\ TypeOK /\ h \in Tasks
  BY TypingGives
<1>2. CASE Register(h)
  <2>1. Data'
    BY <1>1, <1>2 DEF Register, Data, history
  <2>2. /\ lock' = lock /\ task[h].step = "new" /\ Goes(h, Doing("idle"))
    BY <1>2 DEF Register
  <2> QED BY <1>1, <1>2, <2>1, <2>2, LifeMoves, TypedTo DEF ToIdle, Locked
<1>3. CASE Break(h)
  <2>1. Data'
    BY <1>1, <1>3 DEF Break, Deregistered, Data, history
  <2>2. lock' = lock /\ task[h].step = "idle" /\ Goes(h, [Doing("fail") EXCEPT !.victim = h])
    BY <1>3 DEF Break
  <2> QED BY <1>1, <1>3, <2>1, <2>2, LifeMoves, TypedTo DEF Locked
<1>4. CASE DropReceiver(h)
  <2>1. task[h].step = "failing" /\ h \notin registered
    BY <1>1, <1>4, LifeMoves, TypingGives DEF Registry
  <2>2. Data'
    BY <1>1, <1>4, <2>1 DEF DropReceiver, Data, history
  <2>3. lock' = lock /\ Goes(h, Doing("gone"))
    BY <1>4 DEF DropReceiver
  <2> QED BY <1>1, <1>4, <2>1, <2>2, <2>3, LifeMoves, TypedTo DEF Locked
<1> QED BY <1>2, <1>3, <1>4

\* What a new admission is made of.
LEMMA EntryTyped ==
  ASSUME Typing, NEW h \in Handles, task[h].step = "select", NEW to \in registered
  PROVE  LET r == task[h].req
         IN  [id |-> r.id, from |-> h, to |-> to, deadline |-> r.deadline, parent |-> r.parent,
              chain |-> Append(r.chain, NameOf[h])] \in Entries
<1>1. task[h].req \in Requests /\ to \in Handles /\ NameOf[h] \in Names
  BY TypingGives, TaskIs, Counting DEF Data
<1>2. task[h].req.chain \in Seq(Names)
  BY <1>1 DEF Requests, Chains
<1>3. Append(task[h].req.chain, NameOf[h]) \in Chains
  BY <1>1, <1>2, AppendProperties DEF Chains
<1> QED BY <1>1, <1>3 DEF Requests, Entries

\* The entries only grow.
Grows == /\ minted' \in Nat /\ minted <= minted'
         /\ \A g \in 1 .. minted : g \in 1 .. minted' /\ adm'[g] = adm[g]

LEMMA Minted ==
  ASSUME Data, NEW e \in Entries, minted < MaxGen, minted' = minted + 1, adm' = Append(adm, e)
  PROVE  /\ adm' \in Seq(Entries) /\ Len(adm') = minted' /\ minted' \in 0 .. MaxGen
         /\ adm'[minted'] = e /\ minted' \in 1 .. minted' /\ minted' \in Gens
         /\ Grows
<1>1. minted \in Nat /\ MaxGen \in Nat /\ adm \in Seq(Entries) /\ Len(adm) = minted
  BY Counting DEF Data
<1>2. /\ adm' \in Seq(Entries) /\ Len(adm') = Len(adm) + 1 /\ adm'[Len(adm) + 1] = e
      /\ \A i \in 1 .. Len(adm) : adm'[i] = adm[i]
  BY <1>1, AppendProperties
<1> QED BY <1>1, <1>2 DEF Grows, Gens

LEMMA AdmissionTyped ==
  ASSUME Typing, NEW h \in Handles,
         \/ Delegate(h) \/ Select(h) \/ Reserve(h) \/ Insert(h) \/ Forward(h)
         \/ Rollback(h) \/ Unreserve(h)
  PROVE  TypeOK'
<1>1. Data /\ TypeOK /\ h \in Tasks /\ h # None /\ Root(h, task[h]) /\ minted \in Nat
  BY TypingGives DEF Data
<1>2. CASE Delegate(h)
  <2>1. PICK r \in Requests : ToSelect(h, r)
    BY <1>1, <1>2, DelegateMoves
  <2>2. Data' /\ lock' = h /\ lock = None
    BY <1>1, <1>2 DEF Delegate, Data, history
  <2>3. task'[h] \in Work /\ task'[h].step \in Locked /\ \A u \in Tasks \ {h} : task'[u] = task[u]
    BY <2>1 DEF ToSelect, Work, Locked
  <2>4. PICK v : Goes(h, v)
    BY <1>2 DEF Delegate
  <2> QED BY <1>1, <2>2, <2>3, <2>4, Typed
<1>3. CASE Select(h)
  <2> DEFINE r == task[h].req
  <2>1. task[h].step = "select" /\ \E v : Goes(h, v)
    BY <1>3 DEF Select
  <2>2. PICK v : Goes(h, v)
    BY <2>1
  <2>3. UNCHANGED <<registered, listening, active, inflight, now, history>>
    BY <1>3 DEF Select
  <2>4. CASE minted' = minted /\ adm' = adm /\ lock' = None /\ ToIdle(h)
    <3>1. Data'
      BY <1>1, <2>3, <2>4 DEF Data, history
    <3> QED BY <1>1, <2>1, <2>2, <2>4, <3>1, TypedTo DEF ToIdle, Locked
  <2>5. ASSUME NEW to \in Candidates(r), minted < MaxGen, minted' = minted + 1,
               adm' = Append(adm, [id |-> r.id, from |-> h, to |-> to,
                                   deadline |-> r.deadline, parent |-> r.parent,
                                   chain |-> Append(r.chain, NameOf[h])]),
               lock' = lock, To(h, "reserve", minted + 1, 0, None, {})
        PROVE  TypeOK'
    <3> DEFINE e == [id |-> r.id, from |-> h, to |-> to, deadline |-> r.deadline,
                     parent |-> r.parent, chain |-> Append(r.chain, NameOf[h])]
    <3>1. e \in Entries
      BY <2>1, EntryTyped DEF Candidates
    <3> HIDE DEF e
    <3>2. adm' = Append(adm, e)
      BY <2>5 DEF e
    <3>3. adm' \in Seq(Entries) /\ Len(adm') = minted' /\ minted' \in 0 .. MaxGen
      BY <1>1, <2>5, <3>1, <3>2, Minted
    <3>4. 0 .. minted \subseteq 0 .. minted' /\ 1 .. minted \subseteq 1 .. minted'
      BY <1>1, <2>5
    <3>5. Data'
      BY <1>1, <2>3, <2>5, <3>3, <3>4 DEF Data, history
    <3> QED BY <1>1, <2>1, <2>2, <2>5, <3>5, TypedTo DEF Locked
  <2> QED BY <1>1, <1>3, <2>4, <2>5, SelectMoves
<1>4. CASE Reserve(h)
  <2>1. task[h].step = "reserve" /\ lock' = lock /\ Goes(h, [task[h] EXCEPT !.step = "insert"])
    BY <1>4 DEF Reserve
  <2>2. adm[task[h].g].to \in Handles
    BY <1>1, <2>1, AdmType DEF Root
  <2>3. active' \in [Handles -> Nat]
    BY <1>1, <1>4, <2>2, SlotsTyped DEF Reserve
  <2>4. Data'
    BY <1>1, <1>4, <2>3 DEF Reserve, Data, history
  <2> QED BY <1>1, <1>4, <2>1, <2>4, AdmissionMoves, TypedTo DEF Onto, Locked
<1>5. CASE Insert(h)
  <2>1. task[h].step = "insert" /\ lock' = lock /\ Goes(h, [task[h] EXCEPT !.step = "forward"])
    BY <1>5 DEF Insert
  <2>2. task[h].g \in 0 .. minted /\ inflight \in [Ids -> 0 .. minted]
    BY <1>1, <2>1 DEF Root, Data
  <2>3. inflight' \in [Ids -> 0 .. minted]
    BY <1>5, <2>2 DEF Insert
  <2>4. Data'
    BY <1>1, <1>5, <2>3 DEF Insert, Data, history
  <2> QED BY <1>1, <1>5, <2>1, <2>4, AdmissionMoves, TypedTo DEF Onto, Locked
<1>6. CASE Forward(h)
  <2>1. task[h].step = "forward" /\ \E v : Goes(h, v)
    BY <1>6 DEF Forward
  <2>2. PICK v : Goes(h, v)
    BY <2>1
  <2>3. task[h].g \in 1 .. minted
    BY <1>1, <2>1 DEF Root
  <2>4. /\ forwarded' = forwarded \/ forwarded' = forwarded \cup {task[h].g}
        /\ lock' = None \/ lock' = lock
        /\ UNCHANGED <<registered, listening, active, inflight, minted, adm, now,
                       results, notices, cancels, asked, how>>
    BY <1>6 DEF Forward
  <2>5. Data'
    BY <1>1, <2>3, <2>4 DEF Data
  <2> QED BY <1>1, <1>6, <2>1, <2>2, <2>5, AdmissionMoves, TypedTo DEF Onto, ToIdle, Locked
<1>7. CASE Rollback(h)
  <2>1. task[h].step = "rollback" /\ \E v : Goes(h, v)
    BY <1>7 DEF Rollback
  <2>2. PICK v : Goes(h, v)
    BY <2>1
  <2>3. /\ lock' = None \/ lock' = lock
        /\ UNCHANGED <<registered, listening, active, minted, adm, now,
                       forwarded, results, notices, cancels, asked>>
    BY <1>7 DEF Rollback
  <2>4. Remove({task[h].g}, "withdrawn") \/ UNCHANGED <<inflight, how>>
    BY <1>7 DEF Rollback
  <2>5. inflight' \in [Ids -> 0 .. minted'] /\ how' \in [Gens -> Ways]
    BY <1>1, <2>3, <2>4, RemoveTyped DEF Ways, Data
  <2>6. Data'
    BY <1>1, <2>3, <2>5 DEF Data
  <2> QED BY <1>1, <1>7, <2>1, <2>2, <2>6, AdmissionMoves, TypedTo DEF Onto, ToIdle, Locked
<1>8. CASE Unreserve(h)
  <2>1. task[h].step = "unreserve" /\ lock' = None /\ Goes(h, Doing("idle"))
    BY <1>8 DEF Unreserve
  <2>2. adm[task[h].g].to \in Handles
    BY <1>1, <2>1, AdmType DEF Root
  <2>3. active' \in [Handles -> Nat]
    BY <1>1, <1>8, <2>2, SlotsTyped DEF Unreserve
  <2>4. Data'
    BY <1>1, <1>8, <2>3 DEF Unreserve, Data, history
  <2> QED BY <1>1, <1>8, <2>1, <2>4, AdmissionMoves, TypedTo DEF ToIdle, Locked
<1> QED BY <1>2, <1>3, <1>4, <1>5, <1>6, <1>7, <1>8

LEMMA ResultTyped ==
  ASSUME Typing, NEW h \in Handles,
         Result(h) \/ Deliver(h) \/ Commit(h) \/ FreeSlot(h)
  PROVE  TypeOK'
<1>1. Data /\ TypeOK /\ h \in Tasks /\ Root(h, task[h]) /\ minted \in Nat
  BY TypingGives DEF Data
<1>2. CASE Result(h)
  <2>1. task[h].step = "idle" /\ lock' = lock /\ \E v : Goes(h, v)
    BY <1>2 DEF Result, shared
  <2>2. PICK v : Goes(h, v)
    BY <2>1
  <2>3. Data'
    BY <1>1, <1>2 DEF Result, Data, shared, history
  <2> QED BY <1>1, <1>2, <2>1, <2>2, <2>3, ResultMoves, TypedTo DEF Locked
<1>3. CASE Deliver(h)
  <2>1. task[h].step = "deliver" /\ lock' = lock /\ \E v : Goes(h, v)
    BY <1>3 DEF Deliver
  <2>2. PICK v : Goes(h, v)
    BY <2>1
  <2>3. task[h].echo \in Gens /\ results \in [Gens -> Nat]
    BY <1>1, <2>1, AdmType DEF Root, Data
  <2>4. results' = results \/ results' = [results EXCEPT ![task[h].echo] = @ + 1]
    BY <1>1, <1>3, ResultMoves
  <2>5. results' \in [Gens -> Nat]
    BY <2>3, <2>4
  <2>6. Data'
    BY <1>1, <1>3, <2>5 DEF Deliver, Data
  <2>7. ToIdle(h) \/ Onto(h, "commit")
    BY <1>1, <1>3, ResultMoves
  <2> QED BY <1>1, <2>1, <2>2, <2>6, <2>7, TypedTo DEF Onto, ToIdle, Locked
<1>4. CASE Commit(h)
  <2>1. task[h].step = "commit" /\ \E v : Goes(h, v)
    BY <1>4 DEF Commit
  <2>2. PICK v : Goes(h, v)
    BY <2>1
  <2>3. UNCHANGED <<registered, listening, active, minted, adm, lock, now,
                    forwarded, results, notices, cancels, asked>>
    BY <1>4 DEF Commit
  <2>4. Remove({Commits(h)}, "completed") \/ UNCHANGED <<inflight, how>>
    BY <1>4 DEF Commit
  <2>5. inflight' \in [Ids -> 0 .. minted'] /\ how' \in [Gens -> Ways]
    BY <1>1, <2>3, <2>4, RemoveTyped DEF Ways, Data
  <2>6. Data'
    BY <1>1, <2>3, <2>5 DEF Data
  <2>7. ToIdle(h) \/ Onto(h, "free")
    BY <1>1, <1>4, ResultMoves
  <2> QED BY <1>1, <2>1, <2>2, <2>3, <2>6, <2>7, TypedTo DEF Onto, ToIdle, Locked
<1>5. CASE FreeSlot(h)
  <2>1. task[h].step = "free" /\ lock' = lock /\ Goes(h, Doing("idle"))
    BY <1>5 DEF FreeSlot
  <2>2. adm[task[h].g].to \in Handles
    BY <1>1, <2>1, AdmType DEF Root
  <2>3. active' \in [Handles -> Nat]
    BY <1>1, <1>5, <2>2, SlotsTyped DEF FreeSlot
  <2>4. Data'
    BY <1>1, <1>5, <2>3 DEF FreeSlot, Data, history
  <2> QED BY <1>1, <1>5, <2>1, <2>4, ResultMoves, TypedTo DEF ToIdle, Locked
<1> QED BY <1>2, <1>3, <1>4, <1>5

LEMMA EndingTyped ==
  ASSUME Typing,
         \/ \E h \in Handles : Cancel(h)
         \/ ExpireLease \/ SweepDeadlines
         \/ \E t \in Tasks : FailInstance(t) \/ Release(t)
  PROVE  TypeOK'
<1>1. Data /\ TypeOK /\ minted \in Nat /\ Sweeper \in Tasks /\ Handles \subseteq Tasks
  BY TypingGives DEF Data
<1>2. ASSUME NEW h \in Handles, Cancel(h) PROVE TypeOK'
  <2>1. task[h].step = "idle" /\ lock' = lock /\ \E v : Goes(h, v)
    BY <1>2 DEF Cancel
  <2>2. PICK v : Goes(h, v)
    BY <2>1
  <2>3. PICK g \in 1 .. minted : /\ Remove({g}, "cancelled") /\ asked' = asked \cup {g}
                                 /\ To(h, "cancelling", 0, 0, None, {g})
    BY <1>1, <1>2, EndingMoves
  <2>4. UNCHANGED <<registered, listening, active, minted, adm, lock, now,
                    forwarded, results, notices, cancels>>
    BY <1>2 DEF Cancel
  <2>5. inflight' \in [Ids -> 0 .. minted'] /\ how' \in [Gens -> Ways]
    BY <1>1, <2>3, <2>4, RemoveTyped DEF Ways
  <2>6. Data'
    BY <1>1, <2>3, <2>4, <2>5 DEF Data
  <2> QED BY <1>1, <2>1, <2>2, <2>3, <2>6, TypedTo DEF Locked
<1>3. CASE ExpireLease
  <2>1. task[Sweeper].step = "idle" /\ lock' = lock /\ \E v : Goes(Sweeper, v)
    BY <1>3 DEF ExpireLease
  <2>2. PICK v : Goes(Sweeper, v)
    BY <2>1
  <2>3. PICK h \in registered : Deregistered(h) /\ To(Sweeper, "fail", 0, 0, h, {})
    BY <1>1, <1>3, EndingMoves
  <2>4. Data'
    BY <1>1, <1>3, <2>3 DEF ExpireLease, Deregistered, Data, history
  <2> QED BY <1>1, <2>1, <2>2, <2>3, <2>4, TypedTo DEF Locked
<1>4. CASE SweepDeadlines
  <2>1. /\ task[Sweeper].step = "idle" /\ lock' = lock
        /\ Goes(Sweeper, Ending(Sweeper, "expiring", None, Overdue))
    BY <1>4 DEF SweepDeadlines
  <2>2. UNCHANGED <<registered, listening, active, minted, adm, lock, now,
                    forwarded, results, notices, cancels, asked>>
    BY <1>4 DEF SweepDeadlines
  <2>3. inflight' \in [Ids -> 0 .. minted'] /\ how' \in [Gens -> Ways]
    BY <1>1, <1>4, <2>2, RemoveTyped DEF SweepDeadlines, Ways
  <2>4. Data'
    BY <1>1, <2>2, <2>3 DEF Data
  <2> QED BY <1>1, <1>4, <2>1, <2>4, EndingMoves, TypedTo DEF Locked
<1>5. ASSUME NEW t \in Tasks, FailInstance(t) PROVE TypeOK'
  <2>1. task[t].step = "fail" /\ lock' = lock /\ \E v : Goes(t, v)
    BY <1>5 DEF FailInstance
  <2>2. PICK v : Goes(t, v)
    BY <2>1
  <2>3. UNCHANGED <<registered, listening, active, minted, adm, lock, now,
                    forwarded, results, notices, cancels, asked>>
    BY <1>5 DEF FailInstance
  <2>4. inflight' \in [Ids -> 0 .. minted'] /\ how' \in [Gens -> Ways]
    BY <1>1, <1>5, <2>3, RemoveTyped DEF FailInstance, Ways
  <2>5. Data'
    BY <1>1, <2>3, <2>4 DEF Data
  <2> QED BY <1>1, <1>5, <2>1, <2>2, <2>5, FailMoves, TypedTo DEF ToEnding, ToIdle, Locked
<1>6. ASSUME NEW t \in Tasks, Release(t) PROVE TypeOK'
  <2>1. task[t].step \in Ends /\ lock' = lock /\ \E v : Goes(t, v)
    BY <1>6 DEF Release, Ends
  <2>2. PICK v : Goes(t, v)
    BY <2>1
  <2>3. PICK g \in task[t].batch :
           /\ active' = Freed(adm[g].to)
           /\ notices' = notices \/ notices' = [notices EXCEPT ![g] = @ + 1]
           /\ cancels' = cancels \/ cancels' = cancels \cup {g}
           /\ ToEnding(t, task[t].step, task[t].victim, task[t].batch \ {g})
    BY <1>1, <1>6, ReleaseMoves
  <2>4. g \in 1 .. minted
    BY <1>1, <2>1, TypingGives DEF Root
  <2>5. g \in Gens /\ adm[g].to \in Handles
    BY <1>1, <2>4, AdmType
  <2>6. active' \in [Handles -> Nat]
    BY <1>1, <2>3, <2>5, SlotsTyped
  <2>7. notices \in [Gens -> Nat] => notices' \in [Gens -> Nat]
    BY <2>3, <2>5
  <2>8. UNCHANGED <<registered, listening, inflight, minted, adm, lock, now,
                    forwarded, results, asked, how>>
    BY <1>6 DEF Release
  <2>9. Data'
    BY <1>1, <2>3, <2>4, <2>6, <2>7, <2>8 DEF Data
  <2>10. task[t].step \notin Locked
    BY <2>1 DEF Ends, Locked
  <2> QED BY <1>1, <2>1, <2>2, <2>3, <2>9, <2>10, TypedTo DEF ToEnding, ToIdle, Locked
<1> QED BY <1>2, <1>3, <1>4, <1>5, <1>6

LEMMA TypeOKStep == Typing /\ [Next]_vars => TypeOK'
<1> SUFFICES ASSUME Typing, [Next]_vars PROVE TypeOK'
  OBVIOUS
<1>1. CASE Tick
  <2>1. now' \in 0 .. Horizon
    BY <1>1, TypingGives, Counting DEF Tick, Data
  <2> QED BY <1>1, <2>1, TypingGives DEF Tick, TypeOK, history
<1>2. CASE UNCHANGED vars
  BY <1>2, TypingGives DEF vars, TypeOK
<1> QED BY <1>1, <1>2, LifeTyped, AdmissionTyped, ResultTyped, EndingTyped DEF Next, Continue

-----------------------------------------------------------------------------
(* What the tasks hold on to. *)

LEMMA SameGrows == ASSUME Data, minted' = minted, adm' = adm PROVE Grows
<1>1. minted \in Nat
  BY Counting DEF Data
<1> QED BY <1>1 DEF Grows

LEMMA RootedMoves ==
  ASSUME Typing, NEW t \in Tasks, \A u \in Tasks \ {t} : task'[u] = task[u],
         Grows, Root(t, task[t])'
  PROVE  Rooted'
<1> SUFFICES ASSUME NEW u \in Tasks \ {t} PROVE Root(u, task[u])'
  BY DEF Rooted
<1>1. Root(u, task[u]) /\ task'[u] = task[u]
  BY TypingGives
<1>2. \A g \in 1 .. minted : g \in 1 .. minted' /\ adm'[g] = adm[g]
  BY DEF Grows
<1> QED BY <1>1, <1>2 DEF Root

LEMMA RootedIdle ==
  ASSUME Typing, NEW t \in Tasks, ToIdle(t), Grows
  PROVE  Rooted'
BY RootedMoves DEF ToIdle, To, Root, Ends

LEMMA RootedStep == Typing /\ [Next]_vars => Rooted'
<1> SUFFICES ASSUME Typing, [Next]_vars PROVE Rooted'
  OBVIOUS
<1>0. Data /\ TypeOK /\ minted \in Nat /\ Sweeper \in Tasks /\ Handles \subseteq Tasks
  BY TypingGives DEF Data
<1>1. CASE Tick \/ UNCHANGED vars
  <2>1. task' = task /\ minted' = minted /\ adm' = adm
    BY <1>1 DEF Tick, vars
  <2> QED BY <2>1, TypingGives DEF Rooted, Root
<1>2. ASSUME NEW h \in Handles, Register(h) \/ Break(h) \/ DropReceiver(h) PROVE Rooted'
  <2>1. Grows
    BY <1>0, <1>2, SameGrows DEF Register, Break, DropReceiver
  <2>2. ToIdle(h) \/ To(h, "fail", 0, 0, h, {}) \/ To(h, "gone", 0, 0, None, {})
    BY <1>0, <1>2, LifeMoves
  <2> QED BY <1>0, <2>1, <2>2, RootedMoves DEF ToIdle, To, Root, Ends
<1>3. ASSUME NEW h \in Handles, Delegate(h) PROVE Rooted'
  <2>1. PICK r \in Requests : ToSelect(h, r)
    BY <1>0, <1>3, DelegateMoves
  <2>2. Grows
    BY <1>0, <1>3, SameGrows DEF Delegate
  <2> QED BY <1>0, <2>1, <2>2, RootedMoves DEF ToSelect, Root, Ends
<1>4. ASSUME NEW h \in Handles, Select(h) PROVE Rooted'
  <2> DEFINE r == task[h].req
  <2>1. CASE minted' = minted /\ adm' = adm /\ ToIdle(h)
    BY <1>0, <2>1, SameGrows, RootedIdle
  <2>2. ASSUME NEW to \in Candidates(r), minted < MaxGen, minted' = minted + 1,
               adm' = Append(adm, [id |-> r.id, from |-> h, to |-> to,
                                   deadline |-> r.deadline, parent |-> r.parent,
                                   chain |-> Append(r.chain, NameOf[h])]),
               To(h, "reserve", minted + 1, 0, None, {})
        PROVE  Rooted'
    <3> DEFINE e == [id |-> r.id, from |-> h, to |-> to, deadline |-> r.deadline,
                     parent |-> r.parent, chain |-> Append(r.chain, NameOf[h])]
    <3>1. e \in Entries /\ e.from = h
      BY <1>4, EntryTyped DEF Candidates, Select
    <3> HIDE DEF e
    <3>2. adm' = Append(adm, e)
      BY <2>2 DEF e
    <3>3. adm'[minted'] = e /\ minted' \in 1 .. minted' /\ Grows
      BY <1>0, <2>2, <3>1, <3>2, Minted
    <3>4. Root(h, task[h])'
      BY <2>2, <3>1, <3>3 DEF To, Root, Ends
    <3> QED BY <1>0, <2>2, <3>3, <3>4, RootedMoves DEF To
  <2> QED BY <1>0, <1>4, <2>1, <2>2, SelectMoves
<1>5. ASSUME NEW h \in Handles,
             \/ Reserve(h) \/ Insert(h) \/ Forward(h) \/ Rollback(h) \/ Unreserve(h)
      PROVE  Rooted'
  <2>1. Grows
    BY <1>0, <1>5, SameGrows DEF Reserve, Insert, Forward, Rollback, Unreserve
  <2>2. /\ task[h].step \in {"reserve", "insert", "forward", "rollback", "unreserve"}
        /\ \/ ToIdle(h) \/ Onto(h, "insert") \/ Onto(h, "forward") \/ Onto(h, "rollback")
           \/ Onto(h, "unreserve")
    BY <1>0, <1>5, AdmissionMoves DEF Reserve, Insert, Forward, Rollback, Unreserve
  <2>3. task[h].g \in 1 .. minted /\ adm[task[h].g].from = h
    BY <1>0, <2>2, TypingGives DEF Root
  <2>4. task[h].g \in 1 .. minted' /\ adm'[task[h].g].from = h
    BY <2>1, <2>3 DEF Grows
  <2> QED BY <1>0, <2>1, <2>2, <2>4, RootedMoves DEF ToIdle, Onto, To, Root, Ends
<1>6. ASSUME NEW h \in Handles, Result(h) PROVE Rooted'
  <2>1. Grows
    BY <1>0, <1>6, SameGrows DEF Result, shared
  <2>2. PICK g \in 1 .. minted : adm[g].to = h /\ To(h, "deliver", g, g, None, {})
    BY <1>0, <1>6, ResultMoves
  <2>3. g \in 1 .. minted' /\ adm'[g].to = h
    BY <2>1, <2>2 DEF Grows
  <2> QED BY <1>0, <2>1, <2>2, <2>3, RootedMoves DEF To, Root, Ends
<1>7. ASSUME NEW h \in Handles, Deliver(h) \/ Commit(h) \/ FreeSlot(h) PROVE Rooted'
  <2>1. Grows
    BY <1>0, <1>7, SameGrows DEF Deliver, Commit, FreeSlot
  <2>2. /\ task[h].step \in {"deliver", "commit", "free"}
        /\ ToIdle(h) \/ Onto(h, "commit") \/ Onto(h, "free")
    BY <1>0, <1>7, ResultMoves DEF Deliver, Commit, FreeSlot
  <2>3. task[h].g \in 1 .. minted /\ adm[task[h].g].to = h /\ task[h].echo = task[h].g
    BY <1>0, <2>2, TypingGives DEF Root
  <2>4. task[h].g \in 1 .. minted' /\ adm'[task[h].g].to = h
    BY <2>1, <2>3 DEF Grows
  <2> QED BY <1>0, <2>1, <2>2, <2>3, <2>4, RootedMoves DEF ToIdle, Onto, To, Root, Ends
<1>8. ASSUME NEW h \in Handles, Cancel(h) PROVE Rooted'
  <2>1. Grows
    BY <1>0, <1>8, SameGrows DEF Cancel
  <2>2. PICK g \in 1 .. minted : To(h, "cancelling", 0, 0, None, {g})
    BY <1>0, <1>8, EndingMoves
  <2>3. g \in 1 .. minted'
    BY <2>1 DEF Grows
  <2> QED BY <1>0, <2>1, <2>2, <2>3, RootedMoves DEF To, Root, Ends
<1>9. CASE ExpireLease
  <2>1. Grows
    BY <1>0, <1>9, SameGrows DEF ExpireLease
  <2>2. PICK h \in registered : To(Sweeper, "fail", 0, 0, h, {})
    BY <1>0, <1>9, EndingMoves
  <2>3. h \in Handles /\ Sweeper \notin Handles
    BY <1>0, Counting DEF Data
  <2> QED BY <1>0, <2>1, <2>2, <2>3, RootedMoves DEF To, Root, Ends
<1>10. CASE SweepDeadlines
  <2>1. Grows /\ minted' = minted
    BY <1>0, <1>10, SameGrows DEF SweepDeadlines
  <2>2. To(Sweeper, "expiring", 0, 0, None, Overdue) /\ Overdue \subseteq 1 .. minted
    BY <1>0, <1>10, EndingMoves, LiveIs DEF Overdue
  <2> QED BY <1>0, <2>1, <2>2, RootedMoves DEF To, Root, Ends
<1>11. ASSUME NEW t \in Tasks, FailInstance(t) PROVE Rooted'
  <2>1. Grows /\ minted' = minted
    BY <1>0, <1>11, SameGrows DEF FailInstance
  <2> DEFINE B == Touching(task[t].victim)
  <2>2. ToEnding(t, "failing", task[t].victim, B) /\ B \subseteq 1 .. minted
    BY <1>0, <1>11, FailMoves, LiveIs DEF Touching
  <2>3. task[t].victim \in Handles /\ (t \in Handles => task[t].victim = t)
    BY <1>0, <1>11, TypingGives DEF Root, FailInstance
  <2> HIDE DEF B
  <2> QED BY <1>0, <2>1, <2>2, <2>3, RootedMoves DEF ToEnding, ToIdle, To, Root, Ends
<1>12. ASSUME NEW t \in Tasks, Release(t) PROVE Rooted'
  <2>1. Grows /\ minted' = minted
    BY <1>0, <1>12, SameGrows DEF Release
  <2>2. PICK g : ToEnding(t, task[t].step, task[t].victim, task[t].batch \ {g})
    BY <1>0, <1>12, ReleaseMoves
  <2>3. /\ task[t].step \in Ends /\ task[t].batch \subseteq 1 .. minted
        /\ task[t].step = "failing" =>
             task[t].victim \in Handles /\ (t \in Handles => task[t].victim = t)
    BY <1>0, <1>12, TypingGives DEF Root, Release, Ends
  <2> DEFINE B == task[t].batch \ {g}
  <2>4. B \subseteq 1 .. minted
    BY <2>3
  <2> HIDE DEF B
  <2>5. ToEnding(t, task[t].step, task[t].victim, B)
    BY <2>2 DEF B
  <2> QED BY <1>0, <2>1, <2>3, <2>4, <2>5, RootedMoves DEF ToEnding, ToIdle, To, Root, Ends
<1> QED
  BY <1>1, <1>2, <1>3, <1>4, <1>5, <1>6, <1>7, <1>8, <1>9, <1>10, <1>11, <1>12
     DEF Next, Continue

-----------------------------------------------------------------------------
(* The registry and the connections' tasks. *)

LEMMA RegistryMoves ==
  ASSUME Typing, NEW t \in Tasks, \A u \in Tasks \ {t} : task'[u] = task[u],
         \/ registered' \subseteq registered
         \/ registered' = registered \cup {t} /\ task[t].step = "new",
         Registry(t, task[t])', task'[t].step # "new",
         task'[t].step \in {"fail", "failing"} =>
           /\ task'[t].victim \in Tasks
           /\ task'[t].victim # t => task[task'[t].victim].step # "new",
         \A h \in Handles \ registered' : active'[h] = 0
  PROVE  RegistryFits'
<1>1. /\ \A u \in Tasks : Registry(u, task[u]) /\ Root(u, task[u])
      /\ \A u \in Tasks : task[u].step \in {"fail", "failing"} =>
           task[task[u].victim].step # "new"
      /\ Handles \subseteq Tasks
  BY TypingGives DEF RegistryFits
<1>2. ASSUME NEW u \in Tasks \ {t} PROVE Registry(u, task[u])'
  <2>1. Registry(u, task[u]) /\ task'[u] = task[u]
    BY <1>1
  <2>2. task[u].step \in {"fail", "failing"} /\ task[t].step = "new" => task[u].victim # t
    BY <1>1
  <2> QED BY <2>1, <2>2 DEF Registry
<1>3. ASSUME NEW u \in Tasks \ {t}, task'[u].step \in {"fail", "failing"}
      PROVE  task'[task'[u].victim].step # "new"
  <2>1. task'[u] = task[u] /\ task[u].victim \in Tasks /\ task[task[u].victim].step # "new"
    BY <1>1, <1>3 DEF Root
  <2> QED BY <2>1
<1>4. task'[t].step \in {"fail", "failing"} => task'[task'[t].victim].step # "new"
  OBVIOUS
<1> QED BY <1>2, <1>3, <1>4 DEF RegistryFits

LEMMA SlotsRegistered ==
  ASSUME Typing, NEW h \in Handles, NEW k \in Handles \ registered
  PROVE  Taken(h)[k] = 0 /\ Freed(h)[k] = 0
<1>1. active \in [Handles -> Nat] /\ active[k] = 0
  BY TypingGives DEF Data, RegistryFits
<1> QED BY <1>1 DEF Taken, Freed

\* The usual case: the registry is left alone, and so are the connections that
\* have left it.
LEMMA RegistryKept ==
  ASSUME Typing, NEW t \in Tasks, \A u \in Tasks \ {t} : task'[u] = task[u],
         registered' = registered,
         task'[t].step \notin {"new", "fail", "failing", "gone"},
         active' = active \/ \E h \in Handles : active' = Taken(h) \/ active' = Freed(h)
  PROVE  RegistryFits'
<1>1. \A h \in Handles \ registered : active[h] = 0
  BY TypingGives DEF RegistryFits
<1>2. \A h \in Handles \ registered' : active'[h] = 0
  BY <1>1, SlotsRegistered
<1>3. Registry(t, task[t])'
  BY DEF Registry
<1> QED BY <1>2, <1>3, RegistryMoves

LEMMA RegistryStep == Typing /\ [Next]_vars => RegistryFits'
<1> SUFFICES ASSUME Typing, [Next]_vars PROVE RegistryFits'
  OBVIOUS
<1>0. /\ Data /\ TypeOK /\ Sweeper \in Tasks /\ Handles \subseteq Tasks
      /\ \A t \in Tasks : Root(t, task[t]) /\ Registry(t, task[t])
      /\ \A h \in Handles \ registered : active[h] = 0
      /\ \A t \in Tasks : task[t].step \in {"fail", "failing"} =>
           task[task[t].victim].step # "new"
      /\ registered \subseteq Handles
  BY TypingGives DEF RegistryFits, Data
<1>1. CASE Tick \/ UNCHANGED vars
  <2>1. task' = task /\ registered' = registered /\ active' = active
    BY <1>1 DEF Tick, vars
  <2> QED BY <1>0, <2>1 DEF RegistryFits, Registry
<1>2. ASSUME NEW h \in Handles, Register(h) PROVE RegistryFits'
  <2>1. registered' = registered \cup {h} /\ task[h].step = "new" /\ active' = active
    BY <1>2 DEF Register
  <2>2. ToIdle(h)
    BY <1>0, <1>2, LifeMoves
  <2>3. \A k \in Handles \ registered' : active'[k] = 0
    BY <1>0, <2>1
  <2> QED BY <1>0, <2>1, <2>2, <2>3, RegistryMoves DEF ToIdle, To, Registry
<1>3. ASSUME NEW t \in Tasks, NEW h \in Handles, Deregistered(h), task[t].step = "idle",
             To(t, "fail", 0, 0, h, {}), t = Sweeper => h \in registered,
             t # Sweeper => t = h
      PROVE  RegistryFits'
  <2>1. registered' = registered \ {h} /\ \A k \in Handles \ registered' : active'[k] = 0
    BY <1>0, <1>3 DEF Deregistered, Data
  <2>2. h # t => task[h].step # "new"
    BY <1>0, <1>3 DEF Registry
  <2>3. Registry(t, task[t])'
    BY <1>0, <1>3, <2>1, Counting DEF To, Registry
  <2>4. task'[t].step = "fail" /\ task'[t].victim = h /\ \A u \in Tasks \ {t} : task'[u] = task[u]
    BY <1>3 DEF To
  <2> QED BY <1>0, <2>1, <2>2, <2>3, <2>4, RegistryMoves
<1>4. ASSUME NEW h \in Handles, Break(h) PROVE RegistryFits'
  <2>1. To(h, "fail", 0, 0, h, {})
    BY <1>0, <1>4, LifeMoves
  <2>2. Deregistered(h) /\ task[h].step = "idle" /\ h \in Tasks
    BY <1>0, <1>4 DEF Break
  <2> QED BY <1>3, <2>1, <2>2, Counting
<1>5. CASE ExpireLease
  <2>1. PICK h \in registered : Deregistered(h) /\ To(Sweeper, "fail", 0, 0, h, {})
    BY <1>0, <1>5, EndingMoves
  <2> QED BY <1>0, <1>3, <1>5, <2>1 DEF ExpireLease
<1>6. ASSUME NEW h \in Handles, Delegate(h) PROVE RegistryFits'
  <2>1. PICK r \in Requests : ToSelect(h, r)
    BY <1>0, <1>6, DelegateMoves
  <2>2. registered' = registered /\ active' = active
    BY <1>6 DEF Delegate
  <2> QED BY <1>0, <2>1, <2>2, RegistryKept DEF ToSelect
<1>7. ASSUME NEW h \in Handles, Select(h) PROVE RegistryFits'
  <2>1. registered' = registered /\ active' = active
    BY <1>7 DEF Select
  <2>2. ToIdle(h) \/ To(h, "reserve", minted + 1, 0, None, {})
    BY <1>0, <1>7, SelectMoves
  <2> QED BY <1>0, <2>1, <2>2, RegistryKept DEF ToIdle, To
<1>8. ASSUME NEW h \in Handles,
             \/ Reserve(h) \/ Insert(h) \/ Forward(h) \/ Rollback(h) \/ Unreserve(h)
      PROVE  RegistryFits'
  <2>1. \/ ToIdle(h) \/ Onto(h, "insert") \/ Onto(h, "forward") \/ Onto(h, "rollback")
        \/ Onto(h, "unreserve")
    BY <1>0, <1>8, AdmissionMoves
  <2>2. task[h].step \in {"reserve", "unreserve"} => adm[task[h].g].to \in Handles
    BY <1>0, AdmType DEF Root
  <2>3. /\ registered' = registered
        /\ active' = active \/ \E k \in Handles : active' = Taken(k) \/ active' = Freed(k)
    BY <1>8, <2>2 DEF Reserve, Insert, Forward, Rollback, Unreserve
  <2> QED BY <1>0, <2>1, <2>3, RegistryKept DEF ToIdle, Onto, To
<1>9. ASSUME NEW h \in Handles, Result(h) \/ Cancel(h) PROVE RegistryFits'
  <2>1. registered' = registered /\ active' = active
    BY <1>9 DEF Result, Cancel, shared
  <2>2. \/ \E g : To(h, "deliver", g, g, None, {})
        \/ \E g : To(h, "cancelling", 0, 0, None, {g})
    BY <1>0, <1>9, ResultMoves, EndingMoves
  <2> QED BY <1>0, <2>1, <2>2, RegistryKept DEF To
<1>10. ASSUME NEW h \in Handles, Deliver(h) \/ Commit(h) \/ FreeSlot(h) PROVE RegistryFits'
  <2>1. ToIdle(h) \/ Onto(h, "commit") \/ Onto(h, "free")
    BY <1>0, <1>10, ResultMoves
  <2>2. task[h].step = "free" => adm[task[h].g].to \in Handles
    BY <1>0, AdmType DEF Root
  <2>3. /\ registered' = registered
        /\ active' = active \/ \E k \in Handles : active' = Freed(k)
    BY <1>10, <2>2 DEF Deliver, Commit, FreeSlot
  <2> QED BY <1>0, <2>1, <2>3, RegistryKept DEF ToIdle, Onto, To
<1>11. CASE SweepDeadlines
  <2>1. registered' = registered /\ active' = active
    BY <1>11 DEF SweepDeadlines
  <2> QED BY <1>0, <1>11, <2>1, EndingMoves, RegistryKept DEF To
<1>12. ASSUME NEW t \in Tasks, task[t].step \in {"fail", "failing"}, registered' = registered,
              NEW B, ToEnding(t, "failing", task[t].victim, B),
              active' = active \/ \E h \in Handles : active' = Freed(h)
       PROVE  RegistryFits'
  <2>1. CASE ToIdle(t)
    BY <1>0, <1>12, <2>1, RegistryKept DEF ToIdle, To
  <2>2. CASE To(t, "failing", 0, 0, task[t].victim, B)
    <3>1. \A k \in Handles \ registered' : active'[k] = 0
      BY <1>0, <1>12, SlotsRegistered
    <3>2. /\ task'[t].step = "failing" /\ task'[t].victim = task[t].victim
          /\ \A u \in Tasks \ {t} : task'[u] = task[u]
      BY <2>2 DEF To
    <3>3. Registry(t, task[t])'
      BY <1>0, <1>12, <3>2 DEF Registry
    <3>4. task[t].victim \in Tasks /\ task[task[t].victim].step # "new"
      BY <1>0, <1>12 DEF Root
    <3> QED BY <1>12, <3>1, <3>2, <3>3, <3>4, RegistryMoves
  <2> QED BY <1>12, <2>1, <2>2 DEF ToEnding
<1>13. ASSUME NEW t \in Tasks, FailInstance(t) PROVE RegistryFits'
  <2>1. registered' = registered /\ active' = active /\ task[t].step = "fail"
    BY <1>13 DEF FailInstance
  <2>2. ToEnding(t, "failing", task[t].victim, Touching(task[t].victim))
    BY <1>0, <1>13, FailMoves
  <2> QED BY <1>12, <2>1, <2>2
<1>14. ASSUME NEW t \in Tasks, Release(t) PROVE RegistryFits'
  <2>1. PICK g \in task[t].batch :
          /\ active' = Freed(adm[g].to)
          /\ ToEnding(t, task[t].step, task[t].victim, task[t].batch \ {g})
    BY <1>0, <1>14, ReleaseMoves
  <2>2. task[t].step \in Ends /\ registered' = registered
    BY <1>14 DEF Release, Ends
  <2>3. adm[g].to \in Handles
    BY <1>0, <2>1, <2>2, AdmType DEF Root
  <2>4. CASE task[t].step = "failing"
    BY <1>12, <2>1, <2>2, <2>3, <2>4
  <2>5. CASE task[t].step # "failing"
    <3>1. task'[t].step \in {"idle", "cancelling", "expiring"}
          /\ \A u \in Tasks \ {t} : task'[u] = task[u]
      BY <2>1, <2>2, <2>5 DEF ToEnding, ToIdle, To, Ends
    <3> QED BY <2>1, <2>2, <2>3, <3>1, RegistryKept
  <2> QED BY <2>4, <2>5
<1>15. ASSUME NEW h \in Handles, DropReceiver(h) PROVE RegistryFits'
  <2>1. registered' = registered /\ active' = active
    BY <1>15 DEF DropReceiver
  <2>2. task[h].step = "failing" /\ To(h, "gone", 0, 0, None, {})
    BY <1>0, <1>15, LifeMoves
  <2>3. h \notin registered
    BY <1>0, <2>2 DEF Registry
  <2> QED BY <1>0, <2>1, <2>2, <2>3, RegistryMoves DEF To, Registry
<1> QED
  BY <1>1, <1>2, <1>4, <1>5, <1>6, <1>7, <1>8, <1>9, <1>10, <1>11, <1>13, <1>14, <1>15
     DEF Next, Continue

LEMMA TypingInit == Init => Typing
<1> SUFFICES ASSUME Init PROVE Typing
  OBVIOUS
<1>1. \A t \in Tasks : task[t] = IF t = Sweeper THEN Doing("idle") ELSE Doing("new")
  BY DEF Init
<1>2. \A t \in Tasks : /\ task[t] \in Doings
                       /\ task[t].step = IF t = Sweeper THEN "idle" ELSE "new"
  BY <1>1, DoingIs DEF Steps
<1>3. Data
  <2>1. <<>> \in Seq(Entries) /\ Len(<<>>) = 0
    BY EmptySeq
  <2> QED BY <2>1, Counting DEF Init, Data, Gens, Ways
<1>4. task \in [Tasks -> Work]
  <2>1. task = [t \in Tasks |-> task[t]]
    BY DEF Init
  <2> QED BY <1>2, <2>1 DEF Work
<1>5. LockFits
  BY <1>2, Counting DEF Init, LockFits, Locked
<1>6. Rooted
  BY <1>2, Counting DEF Rooted, Root, Ends
<1>7. RegistryFits
  BY <1>2 DEF Init, RegistryFits, Registry
<1> QED BY <1>3, <1>4, <1>5, <1>6, <1>7, TypesAre DEF Typing

LEMMA TypingStep == Typing /\ [Next]_vars => Typing'
BY TypeOKStep, RootedStep, RegistryStep DEF Typing

\* Every state of the router is well formed, and the admission lock is held by
\* the task that is admitting and by no other (HandleDelegate in router.rs).
THEOREM TypeCorrect == Spec => []TypeOK
<1>1. Typing => TypeOK
  BY DEF Typing
<1> QED BY <1>1, TypingInit, TypingStep, PTL DEF Spec

-----------------------------------------------------------------------------
(* Ancestry. *)

\* What is being admitted extends what its initiator serves.
AncestryFits == /\ AncestryIsGenuine
                /\ \A t \in Handles : task[t].step = "select" => ParentFits(t, task[t].req)

\* Admissions are minted by Select alone, and requests taken up by Delegate.
LEMMA AdmissionsCome ==
  ASSUME Typing, [Next]_vars
  PROVE  /\ (minted' = minted /\ adm' = adm) \/ \E h \in Handles : Select(h)
         /\ \A t \in Handles : task'[t].step = "select" => task'[t] = task[t] \/ Delegate(t)
<1>0. Data /\ TypeOK /\ Sweeper \in Tasks /\ Handles \subseteq Tasks
  BY TypingGives
<1> DEFINE Still == /\ (minted' = minted /\ adm' = adm) \/ \E h \in Handles : Select(h)
                    /\ \A t \in Tasks : task'[t].step = "select" =>
                         task'[t] = task[t] \/ (t \in Handles /\ Delegate(t))
<1>1. ASSUME Tick \/ UNCHANGED vars PROVE Still
  BY <1>1 DEF Tick, vars
<1>2. ASSUME NEW h \in Handles,
             Register(h) \/ Break(h) \/ Result(h) \/ Cancel(h) \/ DropReceiver(h)
      PROVE  Still
  <2>1. minted' = minted /\ adm' = adm
    BY <1>2 DEF Register, Break, Result, Cancel, DropReceiver, shared
  <2>2. \/ ToIdle(h) \/ To(h, "fail", 0, 0, h, {}) \/ To(h, "gone", 0, 0, None, {})
        \/ \E g : To(h, "deliver", g, g, None, {}) \/ To(h, "cancelling", 0, 0, None, {g})
    BY <1>0, <1>2, LifeMoves, ResultMoves, EndingMoves
  <2> QED BY <2>1, <2>2 DEF To, ToIdle
<1>3. ASSUME NEW h \in Handles, Delegate(h) PROVE Still
  <2>1. PICK r \in Requests : ToSelect(h, r)
    BY <1>0, <1>3, DelegateMoves
  <2>2. minted' = minted /\ adm' = adm
    BY <1>3 DEF Delegate
  <2> QED BY <1>3, <2>1, <2>2 DEF ToSelect
<1>4. ASSUME NEW h \in Handles, Select(h) PROVE Still
  <2>1. ToIdle(h) \/ To(h, "reserve", minted + 1, 0, None, {})
    BY <1>0, <1>4, SelectMoves
  <2> QED BY <1>4, <2>1 DEF To, ToIdle
<1>5. ASSUME NEW h \in Handles,
             \/ Reserve(h) \/ Insert(h) \/ Forward(h) \/ Rollback(h) \/ Unreserve(h)
             \/ Deliver(h) \/ Commit(h) \/ FreeSlot(h)
      PROVE  Still
  <2>1. minted' = minted /\ adm' = adm
    BY <1>5 DEF Reserve, Insert, Forward, Rollback, Unreserve, Deliver, Commit, FreeSlot
  <2>2. \/ ToIdle(h) \/ Onto(h, "insert") \/ Onto(h, "forward") \/ Onto(h, "rollback")
        \/ Onto(h, "unreserve") \/ Onto(h, "commit") \/ Onto(h, "free")
    BY <1>0, <1>5, AdmissionMoves, ResultMoves
  <2> QED BY <2>1, <2>2 DEF Onto, To, ToIdle
<1>6. ASSUME ExpireLease \/ SweepDeadlines PROVE Still
  <2>1. minted' = minted /\ adm' = adm
    BY <1>6 DEF ExpireLease, SweepDeadlines
  <2>2. \/ To(Sweeper, "expiring", 0, 0, None, Overdue)
        \/ \E h : To(Sweeper, "fail", 0, 0, h, {})
    BY <1>0, <1>6, EndingMoves
  <2>3. /\ task'[Sweeper].step # "select"
        /\ \A u \in Tasks \ {Sweeper} : task'[u] = task[u]
    BY <2>2 DEF To
  <2> QED BY <2>1, <2>3
<1>7. ASSUME NEW t \in Tasks, FailInstance(t) \/ Release(t) PROVE Still
  <2>1. minted' = minted /\ adm' = adm
    BY <1>7 DEF FailInstance, Release
  <2>2. \E B : \/ ToEnding(t, "failing", task[t].victim, B)
               \/ task[t].step \in Ends /\ ToEnding(t, task[t].step, task[t].victim, B)
    BY <1>0, <1>7, FailMoves, ReleaseMoves DEF Release, Ends
  <2> QED BY <2>1, <2>2 DEF ToEnding, ToIdle, To, Ends
<1> HIDE DEF Still
<1>8. Still
  BY <1>1, <1>2, <1>3, <1>4, <1>5, <1>6, <1>7 DEF Next, Continue
<1> QED BY <1>0, <1>8 DEF Still

\* An agent that is not in a chain, and is not added to it, is not in it then.
LEMMA InChainAppend ==
  ASSUME NEW chain \in Chains, NEW m \in Names, NEW n \in Names, n # m, ~InChain(n, chain)
  PROVE  /\ ~InChain(n, Append(chain, m))
         /\ Len(Append(chain, m)) = Len(chain) + 1
<1>1. chain \in Seq(Names)
  BY DEF Chains
<1>2. /\ Len(Append(chain, m)) = Len(chain) + 1
      /\ \A i \in 1 .. Len(chain) : Append(chain, m)[i] = chain[i]
      /\ Append(chain, m)[Len(chain) + 1] = m
  BY <1>1, AppendProperties
<1>3. Len(chain) \in Nat
  BY <1>1, LenProperties
<1> QED BY <1>2, <1>3 DEF InChain

\* The new admission has the ancestry it was asked under.
LEMMA AncestryMinted ==
  ASSUME Typing, AncestryFits, NEW h \in Handles, task[h].step = "select",
         NEW to \in Candidates(task[h].req), Allowed(h, to, task[h].req), minted < MaxGen,
         minted' = minted + 1,
         adm' = Append(adm, [id |-> task[h].req.id, from |-> h, to |-> to,
                             deadline |-> task[h].req.deadline,
                             parent |-> task[h].req.parent,
                             chain |-> Append(task[h].req.chain, NameOf[h])])
  PROVE  AncestryIsGenuine'
<1> DEFINE r == task[h].req
           e == [id |-> r.id, from |-> h, to |-> to, deadline |-> r.deadline,
                 parent |-> r.parent, chain |-> Append(r.chain, NameOf[h])]
<1>1. /\ Data /\ minted \in Nat /\ r \in Requests /\ to \in Handles /\ h \in Tasks
      /\ NameOf[h] \in Names /\ NameOf[to] \in Names
  <2>1. Data /\ TypeOK /\ h \in Tasks
    BY TypingGives
  <2>2. r \in Requests
    BY <2>1, TaskIs
  <2>3. to \in Handles /\ minted \in Nat
    BY <2>1, Counting DEF Data, Candidates
  <2> QED BY <2>1, <2>2, <2>3, Counting
<1>2. r.chain \in Chains /\ r.deadline \in Nat
  BY <1>1 DEF Requests
<1>3. /\ ~InChain(NameOf[to], Append(r.chain, NameOf[h]))
      /\ Len(Append(r.chain, NameOf[h])) <= MaxDepth
  <2>1. /\ NameOf[to] # NameOf[h] /\ ~InChain(NameOf[to], r.chain)
        /\ Len(r.chain) + 1 <= MaxDepth
    BY DEF Allowed
  <2> QED BY <1>1, <1>2, <2>1, InChainAppend
<1>4. ParentFits(h, r) /\ r.deadline <= r.limit
  BY DEF AncestryFits, Allowed
<1>5. /\ e \in Entries /\ e.from = h /\ e.to = to /\ e.deadline = r.deadline
      /\ e.parent = r.parent /\ e.chain = Append(r.chain, NameOf[h])
  BY EntryTyped DEF Candidates
<1> HIDE DEF e
<1>6. adm' = Append(adm, e)
  BY DEF e
<1>7. adm'[minted'] = e /\ Grows
  BY <1>1, <1>5, <1>6, Minted
<1>8. \A g \in 1 .. minted : adm'[g] = adm[g]
  BY <1>7 DEF Grows
<1> SUFFICES ASSUME NEW g \in 1 .. minted'
             PROVE  /\ adm'[g].parent # 0 =>
                         /\ adm'[g].parent < g
                         /\ adm'[adm'[g].parent].to = adm'[g].from
                         /\ adm'[g].deadline <= adm'[adm'[g].parent].deadline
                    /\ adm'[g].chain = Append(IF adm'[g].parent = 0 THEN <<>>
                                              ELSE adm'[adm'[g].parent].chain,
                                              NameOf[adm'[g].from])
                    /\ ~InChain(NameOf[adm'[g].to], adm'[g].chain)
                    /\ Len(adm'[g].chain) <= MaxDepth
  BY DEF AncestryIsGenuine, InChain
<1>9. CASE g = minted'
  <2>1. adm'[g] = e
    BY <1>7, <1>9
  <2>2. CASE r.parent = 0
    <3>1. r.chain = <<>>
      BY <1>4, <2>2 DEF ParentFits
    <3> QED BY <1>3, <1>5, <2>1, <2>2, <3>1
  <2>3. CASE r.parent # 0
    <3>1. /\ r.parent \in 1 .. minted /\ adm[r.parent].to = h
          /\ r.chain = adm[r.parent].chain /\ r.limit = adm[r.parent].deadline
      BY <1>4, <2>3 DEF ParentFits
    <3> DEFINE p == r.parent
    <3>2. p \in 1 .. minted
      BY <3>1
    <3> HIDE DEF p
    <3>3. adm'[p] = adm[p] /\ p < g
      <4>1. adm'[p] = adm[p]
        BY <1>8, <3>2
      <4>2. minted \in Nat /\ g = minted + 1
        BY <1>1, <1>9
      <4>3. p < minted + 1
        BY <4>2, <3>2
      <4> QED BY <4>1, <4>2, <4>3
    <3>4. adm'[g].parent = p /\ p # 0 /\ r.parent = p
      BY <1>5, <2>1, <2>3 DEF p
    <3> HIDE DEF r
    <3> QED BY <1>3, <1>4, <1>5, <2>1, <3>1, <3>3, <3>4
  <2> QED BY <2>2, <2>3
<1>10. CASE g # minted'
  <2>1. g \in 1 .. minted /\ g \in Nat
    BY <1>1, <1>10
  <2>2. adm'[g] = adm[g]
    BY <1>8, <2>1
  <2> DEFINE p == adm[g].parent
  <2>3. /\ p # 0 => /\ p < g /\ adm[p].to = adm[g].from
                    /\ adm[g].deadline <= adm[p].deadline
        /\ adm[g].chain = Append(IF p = 0 THEN <<>> ELSE adm[p].chain, NameOf[adm[g].from])
        /\ ~InChain(NameOf[adm[g].to], adm[g].chain) /\ Len(adm[g].chain) <= MaxDepth
    BY <2>1 DEF AncestryFits, AncestryIsGenuine
  <2>4. p \in 0 .. MaxGen
    BY <1>1, <2>1, AdmType
  <2>5. p # 0 => p \in 1 .. minted
    BY <1>1, <2>1, <2>3, <2>4
  <2>6. p # 0 => adm'[p] = adm[p]
    BY <1>8, <2>5
  <2> QED BY <2>2, <2>3, <2>6
<1> QED BY <1>9, <1>10

LEMMA AncestryStep == Typing /\ AncestryFits /\ [Next]_vars => AncestryFits'
<1> SUFFICES ASSUME Typing, AncestryFits, [Next]_vars PROVE AncestryFits'
  OBVIOUS
<1>0. Data /\ TypeOK /\ Handles \subseteq Tasks
  BY TypingGives
<1>1. AncestryIsGenuine' /\ Grows
  <2>1. CASE minted' = minted /\ adm' = adm
    BY <1>0, <2>1, SameGrows DEF AncestryFits, AncestryIsGenuine, InChain
  <2>2. ASSUME NEW h \in Handles, Select(h) PROVE AncestryIsGenuine' /\ Grows
    <3> DEFINE r == task[h].req
    <3>1. task[h].step = "select"
      BY <2>2 DEF Select
    <3>2. ASSUME NEW to \in Candidates(r), Allowed(h, to, r), minted < MaxGen,
                 minted' = minted + 1,
                 adm' = Append(adm, [id |-> r.id, from |-> h, to |-> to,
                                     deadline |-> r.deadline, parent |-> r.parent,
                                     chain |-> Append(r.chain, NameOf[h])])
          PROVE  AncestryIsGenuine' /\ Grows
      <4>1. AncestryIsGenuine'
        BY <3>1, <3>2, AncestryMinted
      <4>2. [id |-> r.id, from |-> h, to |-> to, deadline |-> r.deadline,
             parent |-> r.parent, chain |-> Append(r.chain, NameOf[h])] \in Entries
        BY <3>1, <3>2, EntryTyped DEF Candidates
      <4> QED BY <1>0, <3>2, <4>1, <4>2, Minted
    <3> QED BY <1>0, <2>1, <2>2, <3>2, SelectMoves
  <2> QED BY <2>1, <2>2, AdmissionsCome
<1>2. ASSUME NEW t \in Handles, task'[t].step = "select"
      PROVE  ParentFits(t, task[t].req)'
  <2>1. CASE task'[t] = task[t]
    <3>1. ParentFits(t, task[t].req)
      BY <1>2, <2>1 DEF AncestryFits
    <3> QED BY <1>1, <2>1, <3>1 DEF ParentFits, Grows
  <2>2. CASE Delegate(t)
    <3>1. PICK r \in Requests : ToSelect(t, r) /\ ParentFits(t, r)
      BY <1>0, <2>2, DelegateMoves
    <3> QED BY <1>1, <3>1 DEF ParentFits, Grows, ToSelect
  <2> QED BY <1>2, <2>1, <2>2, AdmissionsCome
<1> QED BY <1>1, <1>2 DEF AncestryFits

\* A child's chain and budget are those of the very admission it was asked under,
\* and no agent works for itself, however often the parent's id has been admitted
\* since (the parent token of HandleDelegate, and policy.rs).
THEOREM Ancestry == Spec => []AncestryIsGenuine
<1>1. Init => AncestryFits
  <2> SUFFICES ASSUME Init PROVE AncestryFits
    OBVIOUS
  <2>1. minted = 0 /\ \A t \in Handles : task[t] = Doing("new")
    BY Counting DEF Init
  <2>2. \A t \in Handles : task[t].step = "new"
    BY <2>1, DoingIs DEF Steps
  <2> QED BY <2>1, <2>2 DEF AncestryFits, AncestryIsGenuine
<1>2. AncestryFits => AncestryIsGenuine
  BY DEF AncestryFits
<1> QED BY <1>1, <1>2, TypingInit, TypingStep, AncestryStep, PTL DEF Spec

-----------------------------------------------------------------------------
(* How admissions end. *)

WayOf(step) == IF step = "cancelling" THEN "cancelled"
               ELSE IF step = "failing" THEN "failed" ELSE "expired"

\* What t, in a state v, knows of the table and of how its admissions ended.
Stage(t, v) ==
  /\ v.step \in {"select", "reserve", "insert"} => Cardinality(Live) < MaxInflight
  /\ v.step = "select" => inflight[v.req.id] = 0
  /\ v.step \in {"reserve", "insert"} => inflight[adm[v.g].id] = 0 /\ how[v.g] = "none"
  /\ v.step = "unreserve" => how[v.g] = "withdrawn"
  /\ v.step \in {"deliver", "commit"} => Holds(v.g) \/ how[v.g] # "none"
  /\ v.step = "free" => how[v.g] = "completed"
  /\ v.step \in Ends => \A g \in v.batch : how[g] = WayOf(v.step)

OwesIn(v, g) == \/ v.step \in {"insert", "unreserve", "free"} /\ v.g = g
                \/ v.step \in Ends /\ g \in v.batch

\* No slot is owed twice.
OwedOnce == \A t, u \in Tasks, g \in 1 .. minted : Owes(t, g) /\ Owes(u, g) => t = u

Unended == \A g \in 1 .. minted : Holds(g) => how[g] = "none"

Fresh == \A g \in Gens : g > minted => how[g] = "none" /\ results[g] = 0 /\ notices[g] = 0

HowFits == (\A t \in Tasks : Stage(t, task[t])) /\ OwedOnce /\ Unended /\ Fresh

LEMMA OwesIs == \A t, g : Owes(t, g) <=> OwesIn(task[t], g)
BY DEF Owes, OwesIn, Ends

LEMMA OwesIsThen == \A t, g : Owes(t, g)' <=> OwesIn(task'[t], g)
BY DEF Owes, OwesIn, Ends

\* An admission whose slot is owed is not in the table; it has ended, or is about
\* to be recorded.
LEMMA OwedIsNotHeld ==
  ASSUME Typing, HowFits, NEW t \in Tasks, NEW g, Owes(t, g)
  PROVE  /\ g \in 1 .. minted /\ ~Holds(g)
         /\ how[g] = "none" => task[t].step = "insert" /\ adm[g].from = t /\ task[t].g = g
<1>1. Root(t, task[t]) /\ Stage(t, task[t]) /\ Data
  BY TypingGives DEF HowFits
<1>2. g \in 1 .. minted
  BY <1>1, OwesIs DEF OwesIn, Root
<1>3. g # 0
  BY <1>1, <1>2, AdmType
<1>4. how[g] # "none" => ~Holds(g)
  BY <1>2 DEF HowFits, Unended
<1>5. CASE task[t].step \in {"insert", "unreserve", "free"} /\ task[t].g = g
  BY <1>1, <1>2, <1>3, <1>4, <1>5 DEF Root, Stage, Holds
<1>6. CASE task[t].step \in Ends /\ g \in task[t].batch
  BY <1>1, <1>2, <1>4, <1>6 DEF Stage, WayOf
<1> QED BY <1>5, <1>6, OwesIs DEF OwesIn

\* What every step respects of the table, and what all but Insert do.
Evolves ==
  /\ Grows
  /\ \A g \in 1 .. minted : how[g] # "none" => how'[g] = how[g]
  /\ \A g \in 1 .. minted : how[g] = "none" /\ ~Holds(g) => how'[g] = "none"
  /\ \A g \in 1 .. minted : Holds(g) => Holds(g)' \/ how'[g] # "none"

Shrinks == /\ \A i \in Ids : inflight[i] = 0 => inflight'[i] = 0
           /\ Live' \subseteq Live

LEMMA CalmEvolves ==
  ASSUME Typing, HowFits, UNCHANGED <<inflight, how, minted, adm>>
  PROVE  Evolves /\ Shrinks /\ Unended'
<1>1. Grows
  BY TypingGives, SameGrows
<1> QED BY <1>1 DEF Evolves, Shrinks, HowFits, Unended, Holds, Live

\* Some admissions leave the table, and no others are touched.
LEMMA RemoveHolds ==
  ASSUME Data, NEW S, S \subseteq Live, NEW way, Remove(S, way), adm' = adm, minted' = minted
  PROVE  /\ \A g \in 1 .. minted : Holds(g)' <=> Holds(g) /\ g \notin S
         /\ \A i \in Ids : inflight[i] = 0 => inflight'[i] = 0
         /\ \A g \in Gens : how'[g] = IF g \in S THEN way ELSE how[g]
<1>1. \A g \in 1 .. minted : g # 0 /\ adm[g].id \in Ids
  BY AdmType
<1>2. S \subseteq 1 .. minted
  BY LiveIs
<1>3. \A i \in Ids : inflight'[i] = IF inflight[i] \in S THEN 0 ELSE inflight[i]
  BY DEF Remove
<1>4. ASSUME NEW g \in 1 .. minted PROVE Holds(g)' <=> Holds(g) /\ g \notin S
  BY <1>1, <1>3 DEF Holds
<1>5. \A g \in Gens : how'[g] = IF g \in S THEN way ELSE how[g]
  BY DEF Remove
<1> QED BY <1>3, <1>4, <1>5

LEMMA RemoveEvolves ==
  ASSUME Typing, HowFits, NEW S, S \subseteq Live, NEW way, way # "none", Remove(S, way),
         adm' = adm, minted' = minted
  PROVE  /\ Evolves /\ Shrinks /\ Unended'
         /\ \A g \in S : how'[g] = way
         /\ \A g \in Gens : g > minted => how'[g] = how[g]
<1>1. Data /\ Grows /\ minted \in Nat
  BY TypingGives, SameGrows DEF Data
<1>2. /\ \A g \in 1 .. minted : Holds(g)' <=> Holds(g) /\ g \notin S
      /\ \A i \in Ids : inflight[i] = 0 => inflight'[i] = 0
      /\ \A g \in Gens : how'[g] = IF g \in S THEN way ELSE how[g]
  BY <1>1, RemoveHolds
<1>3. S \subseteq 1 .. minted /\ \A g \in S : Holds(g) /\ how[g] = "none"
  BY DEF Live, Holds, HowFits, Unended
<1>4. \A g \in 1 .. minted : g \in Gens
  BY <1>1, AdmType
<1>5. \A g \in Gens : g > minted => g \notin S
  BY <1>1, <1>3 DEF Gens
<1>6. Evolves
  BY <1>1, <1>2, <1>3, <1>4 DEF Evolves
<1>7. Live' \subseteq Live
  BY <1>2 DEF Live, Holds
<1>8. Unended'
  BY <1>2, <1>4 DEF HowFits, Unended
<1> QED BY <1>2, <1>3, <1>4, <1>5, <1>6, <1>7, <1>8 DEF Shrinks

\* What the other tasks know stays true.
LEMMA StageKept ==
  ASSUME Typing, HowFits, NEW u \in Tasks, task'[u] = task[u], Evolves, Shrinks \/ lock # u
  PROVE  Stage(u, task[u])'
<1> PICK v : v = task[u]
  OBVIOUS
<1>1. /\ Stage(u, v) /\ Root(u, v) /\ Data /\ task'[u] = v
      /\ v.step \in {"select", "reserve", "insert"} => lock = u
  BY TypingGives DEF HowFits, LockFits, Locked
<1>2. v.step = "select" => v.req.id \in Ids
  BY TypingGives, TaskIs DEF Requests
<1>3. /\ v.step \in {"reserve", "insert", "unreserve", "deliver", "commit", "free"} =>
           v.g \in 1 .. minted
      /\ v.step \in Ends => v.batch \subseteq 1 .. minted
  BY <1>1 DEF Root
<1>4. \A g \in 1 .. minted : adm'[g] = adm[g] /\ adm[g].id \in Ids /\ g # 0
  BY <1>1, AdmType DEF Evolves, Grows
<1> SUFFICES Stage(u, v)'
  BY <1>1
<1>5. CASE v.step \in {"select", "reserve", "insert"}
  <2>1. Shrinks
    BY <1>1, <1>5
  <2>2. Cardinality(Live') < MaxInflight
    <3>1. Cardinality(Live') <= Cardinality(Live)
      BY <1>1, <2>1, LiveIs, FS_Subset DEF Shrinks
    <3>2. Cardinality(Live') \in Nat /\ Cardinality(Live) \in Nat
      BY <1>1, <2>1, LiveIs, FS_Subset, FS_CardinalityType DEF Shrinks
    <3>3. Cardinality(Live) < MaxInflight
      BY <1>1, <1>5 DEF Stage
    <3> QED BY <3>1, <3>2, <3>3, Counting
  <2>3. v.step = "select" => inflight'[v.req.id] = 0
    BY <1>1, <1>2, <2>1 DEF Stage, Shrinks
  <2>4. ASSUME v.step \in {"reserve", "insert"}
        PROVE  inflight'[adm'[v.g].id] = 0 /\ how'[v.g] = "none"
    <3>1. inflight[adm[v.g].id] = 0 /\ how[v.g] = "none" /\ v.g \in 1 .. minted
      BY <1>1, <1>3, <2>4 DEF Stage
    <3>2. ~Holds(v.g)
      BY <1>4, <3>1 DEF Holds
    <3> QED BY <1>4, <2>1, <3>1, <3>2 DEF Shrinks, Evolves
  <2> QED BY <1>1, <1>5, <2>2, <2>3, <2>4 DEF Stage, Ends
<1>6. CASE v.step \notin {"select", "reserve", "insert"}
  <2>1. v.step \in {"unreserve", "free"} => how'[v.g] = how[v.g]
    BY <1>1, <1>3 DEF Stage, Evolves
  <2>2. v.step \in {"deliver", "commit"} => Holds(v.g)' \/ how'[v.g] # "none"
    BY <1>1, <1>3 DEF Stage, Evolves
  <2>3. v.step \in Ends => \A g \in v.batch : how'[g] = how[g]
    BY <1>1, <1>3 DEF Stage, Evolves, WayOf
  <2> QED BY <1>1, <1>6, <2>1, <2>2, <2>3 DEF Stage
<1> QED BY <1>5, <1>6

LEMMA OwedOnceMoves ==
  ASSUME Typing, HowFits, NEW t \in Tasks, \A u \in Tasks \ {t} : task'[u] = task[u],
         \A g : OwesIn(task'[t], g) =>
           \/ Owes(t, g)
           \/ Holds(g)
           \/ how[g] = "none" /\ adm[g].from = t
  PROVE  OwedOnce'
<1> SUFFICES ASSUME NEW u \in Tasks \ {t}, NEW g, Owes(u, g)', Owes(t, g)' PROVE FALSE
  <2> SUFFICES ASSUME NEW u \in Tasks, NEW v \in Tasks, NEW g, Owes(u, g)', Owes(v, g)', u # v
               PROVE  FALSE
    BY DEF OwedOnce
  <2>1. CASE u = t
    BY <2>1
  <2>2. CASE v = t
    BY <2>2
  <2>3. CASE u # t /\ v # t
    <3>1. Owes(u, g) /\ Owes(v, g)
      BY <2>3, OwesIs, OwesIsThen
    <3>2. g \in 1 .. minted
      BY <3>1, OwedIsNotHeld
    <3> QED BY <3>1, <3>2 DEF HowFits, OwedOnce
  <2> QED BY <2>1, <2>2, <2>3
<1>1. Owes(u, g) /\ OwesIn(task'[t], g)
  BY OwesIs, OwesIsThen
<1>2. g \in 1 .. minted /\ ~Holds(g)
  BY <1>1, OwedIsNotHeld
<1>3. CASE Owes(t, g)
  BY <1>1, <1>2, <1>3 DEF HowFits, OwedOnce
<1>4. CASE how[g] = "none" /\ adm[g].from = t
  BY <1>1, <1>4, OwedIsNotHeld
<1> QED BY <1>1, <1>2, <1>3, <1>4

\* A slot comes to be owed when its admission leaves the table, or before it
\* is recorded.
Owing == \A t \in Tasks, g \in 1 .. minted :
           Owes(t, g)' => Owes(t, g) \/ Holds(g) \/ how[g] = "none"

HowKept == HowFits' /\ Evolves /\ Owing

LEMMA HowMoves ==
  ASSUME Typing, HowFits, NEW t \in Tasks, \A u \in Tasks \ {t} : task'[u] = task[u],
         Evolves, Shrinks \/ lock = t, Unended',
         \A g \in Gens : g > minted =>
           how'[g] = how[g] /\ results'[g] = results[g] /\ notices'[g] = notices[g],
         Stage(t, task[t])',
         \A g : OwesIn(task'[t], g) =>
           \/ Owes(t, g)
           \/ Holds(g)
           \/ how[g] = "none" /\ adm[g].from = t
  PROVE  HowKept
<1>1. \A u \in Tasks : Stage(u, task[u])'
  BY StageKept
<1>2. OwedOnce'
  BY OwedOnceMoves
<1>3. Fresh'
  <2>1. minted \in Nat /\ minted' \in Nat /\ minted <= minted'
    BY TypingGives, Counting DEF Data, Evolves, Grows
  <2> SUFFICES ASSUME NEW g \in Gens, g > minted'
               PROVE  how'[g] = "none" /\ results'[g] = 0 /\ notices'[g] = 0
    BY DEF Fresh
  <2>2. g > minted
    BY <2>1 DEF Gens
  <2> QED BY <2>2 DEF HowFits, Fresh
<1>4. Owing
  BY OwesIs, OwesIsThen DEF Owing
<1> QED BY <1>1, <1>2, <1>3, <1>4 DEF HowFits, HowKept

\* The usual case: the table is left alone, and t comes to owe nothing more.
LEMMA HowCalm ==
  ASSUME Typing, HowFits, NEW t \in Tasks, \A u \in Tasks \ {t} : task'[u] = task[u],
         UNCHANGED <<inflight, how, minted, adm>>,
         \A g \in Gens : g > minted => results'[g] = results[g] /\ notices'[g] = notices[g],
         Stage(t, task[t])',
         \A g : OwesIn(task'[t], g) => Owes(t, g)
  PROVE  HowKept
<1>1. Evolves /\ Shrinks /\ Unended'
  BY CalmEvolves
<1> QED BY <1>1, HowMoves

\* A task that only goes idle knows nothing.
LEMMA HowIdle ==
  ASSUME Typing, HowFits, NEW t \in Tasks, \A u \in Tasks \ {t} : task'[u] = task[u],
         task'[t].step \in {"idle", "fail", "gone"},
         UNCHANGED <<inflight, how, minted, adm>>,
         \A g \in Gens : g > minted => results'[g] = results[g] /\ notices'[g] = notices[g]
  PROVE  HowKept
<1>1. Stage(t, task[t])'
  BY DEF Stage, Ends
<1>2. \A g : ~OwesIn(task'[t], g)
  BY DEF OwesIn, Ends
<1> QED BY <1>1, <1>2, HowCalm

\* Admissions that t has taken out of the table are all that it owes then.
LEMMA HowRemoves ==
  ASSUME Typing, HowFits, NEW t \in Tasks, \A u \in Tasks \ {t} : task'[u] = task[u],
         NEW S, S \subseteq Live, NEW way, way # "none", Remove(S, way),
         adm' = adm, minted' = minted, results' = results, notices' = notices,
         Stage(t, task[t])',
         \A g : OwesIn(task'[t], g) => g \in S
  PROVE  HowKept
<1>1. /\ Evolves /\ Shrinks /\ Unended'
      /\ \A g \in Gens : g > minted => how'[g] = how[g]
  BY RemoveEvolves
<1>2. \A g \in S : Holds(g)
  BY DEF Live, Holds
<1> QED BY <1>1, <1>2, HowMoves

LEMMA HowEnding ==
  ASSUME Typing, HowFits, NEW t \in Tasks, NEW S, S \subseteq Live, NEW step \in Ends,
         Remove(S, WayOf(step)), NEW victim,
         adm' = adm, minted' = minted, results' = results, notices' = notices,
         ToEnding(t, step, victim, S)
  PROVE  HowKept
<1>1. WayOf(step) # "none"
  BY DEF WayOf
<1>2. \A g \in S : how'[g] = WayOf(step)
  BY <1>1, RemoveEvolves
<1>3. /\ \A u \in Tasks \ {t} : task'[u] = task[u]
      /\ \/ task'[t].step = "idle"
         \/ task'[t].step = step /\ task'[t].batch = S
  BY DEF ToEnding, ToIdle, To
<1>4. Stage(t, task[t])'
  BY <1>2, <1>3 DEF Stage, Ends
<1>5. \A g : OwesIn(task'[t], g) => g \in S
  BY <1>3 DEF OwesIn, Ends
<1> QED BY <1>1, <1>3, <1>4, <1>5, HowRemoves

LEMMA HowAdmission ==
  ASSUME Typing, HowFits, NEW h \in Handles,
         \/ Delegate(h) \/ Select(h) \/ Reserve(h) \/ Insert(h) \/ Forward(h)
         \/ Rollback(h) \/ Unreserve(h)
  PROVE  HowKept
<1>0. /\ Data /\ TypeOK /\ h \in Tasks /\ minted \in Nat /\ Root(h, task[h])
      /\ Stage(h, task[h])
  BY TypingGives DEF Data, HowFits
<1>1. CASE Delegate(h)
  <2>1. PICK r \in Requests : ToSelect(h, r) /\ inflight[r.id] = 0
    BY <1>0, <1>1, DelegateMoves
  <2>2. /\ UNCHANGED <<inflight, how, minted, adm, results, notices>>
        /\ Cardinality(Live) < MaxInflight
    BY <1>1 DEF Delegate, history
  <2>3. Live' = Live
    BY <2>2 DEF Live
  <2>4. Stage(h, task[h])'
    BY <2>1, <2>2, <2>3 DEF ToSelect, Stage, Ends
  <2>5. \A g : ~OwesIn(task'[h], g)
    BY <2>1 DEF ToSelect, OwesIn, Ends
  <2> QED BY <1>0, <2>1, <2>2, <2>4, <2>5, HowCalm DEF ToSelect
<1>2. CASE Select(h)
  <2> DEFINE r == task[h].req
  <2>1. /\ task[h].step = "select"
        /\ UNCHANGED <<inflight, how, results, notices>>
    BY <1>2 DEF Select, history
  <2>2. CASE minted' = minted /\ adm' = adm /\ ToIdle(h)
    BY <1>0, <2>1, <2>2, HowIdle DEF ToIdle, To
  <2>3. ASSUME NEW to \in Candidates(r), minted < MaxGen, minted' = minted + 1,
               adm' = Append(adm, [id |-> r.id, from |-> h, to |-> to,
                                   deadline |-> r.deadline, parent |-> r.parent,
                                   chain |-> Append(r.chain, NameOf[h])]),
               To(h, "reserve", minted + 1, 0, None, {})
        PROVE  HowKept
    <3> DEFINE e == [id |-> r.id, from |-> h, to |-> to, deadline |-> r.deadline,
                     parent |-> r.parent, chain |-> Append(r.chain, NameOf[h])]
    <3>1. e \in Entries /\ e.id = r.id /\ r.id \in Ids
      BY <1>0, <2>1, EntryTyped, TaskIs DEF Candidates, Requests
    <3> HIDE DEF e
    <3>2. adm' = Append(adm, e)
      BY <2>3 DEF e
    <3>3. adm'[minted'] = e /\ Grows /\ minted' \in Gens
      BY <1>0, <2>3, <3>1, <3>2, Minted
    <3>4. \A g \in 1 .. minted : adm'[g] = adm[g]
      BY <3>3 DEF Grows
    <3>5. inflight[r.id] = 0 /\ Cardinality(Live) < MaxInflight /\ how[minted'] = "none"
      BY <1>0, <2>1, <2>3, <3>3 DEF Stage, HowFits, Fresh
    <3>6. \A g \in 1 .. minted' : inflight'[adm'[g].id] = g => g \in 1 .. minted /\ Holds(g)
      <4> SUFFICES ASSUME NEW g \in 1 .. minted', inflight'[adm'[g].id] = g
                   PROVE  g \in 1 .. minted /\ Holds(g)
        OBVIOUS
      <4>1. g # minted'
        BY <2>1, <3>1, <3>3, <3>5
      <4>2. g \in 1 .. minted
        BY <1>0, <2>3, <4>1
      <4> QED BY <2>1, <3>4, <4>2 DEF Holds
    <3>7. Live' = Live
      <4>1. Live' \subseteq Live
        BY <3>6 DEF Live, Holds
      <4>2. Live \subseteq Live'
        BY <2>1, <3>3, <3>4 DEF Live, Grows
      <4> QED BY <4>1, <4>2
    <3>8. Evolves /\ Shrinks /\ Unended'
      <4>1. Unended'
        BY <2>1, <3>6 DEF Unended, Holds, HowFits
      <4>2. Evolves
        BY <2>1, <3>3, <3>4 DEF Evolves, Holds
      <4> QED BY <2>1, <3>7, <4>1, <4>2 DEF Shrinks
    <3>9. Stage(h, task[h])'
      <4>1. task'[h].step = "reserve" /\ task'[h].g = minted'
        BY <2>3 DEF To
      <4> QED BY <2>1, <3>1, <3>3, <3>5, <3>7, <4>1 DEF Stage, Ends
    <3>10. \A g : ~OwesIn(task'[h], g)
      BY <2>3 DEF To, OwesIn, Ends
    <3>11. \A u \in Tasks \ {h} : task'[u] = task[u]
      BY <2>3 DEF To
    <3> QED BY <1>0, <2>1, <3>8, <3>9, <3>10, <3>11, HowMoves
  <2> QED BY <1>0, <1>2, <2>2, <2>3, SelectMoves
<1>3. CASE Reserve(h)
  <2>1. task[h].step = "reserve" /\ UNCHANGED <<inflight, how, minted, adm, results, notices>>
    BY <1>3 DEF Reserve, history
  <2>2. /\ task'[h].step = "insert" /\ task'[h].g = task[h].g
        /\ \A u \in Tasks \ {h} : task'[u] = task[u]
    BY <1>0, <1>3, AdmissionMoves DEF Onto, To
  <2>3. Live' = Live
    BY <2>1 DEF Live
  <2>4. Stage(h, task[h])'
    BY <1>0, <2>1, <2>2, <2>3 DEF Stage, Ends
  <2>5. \A g : OwesIn(task'[h], g) => how[g] = "none" /\ adm[g].from = h
    BY <1>0, <2>1, <2>2 DEF OwesIn, Root, Stage, Ends
  <2> QED BY <1>0, <2>1, <2>2, <2>4, <2>5, CalmEvolves, HowMoves
<1>4. CASE Insert(h)
  <2> DEFINE k == task[h].g
             i == adm[task[h].g].id
  <2>1. /\ task[h].step = "insert" /\ UNCHANGED <<how, minted, adm, results, notices>>
        /\ inflight' = [inflight EXCEPT ![i] = k] /\ lock = h
    BY <1>0, <1>4, TypingGives DEF Insert, history, LockFits, Locked
  <2>2. /\ task'[h].step = "forward"
        /\ \A u \in Tasks \ {h} : task'[u] = task[u]
    BY <1>0, <1>4, AdmissionMoves DEF Onto, To
  <2>3. k \in 1 .. minted /\ inflight[i] = 0 /\ how[k] = "none"
    BY <1>0, <2>1 DEF Root, Stage
  <2>4. inflight \in [Ids -> 0 .. minted] /\ i \in Ids
    BY <1>0, <2>3, AdmType DEF Data
  <2> HIDE DEF i, k
  <2>5. \A j \in Ids : inflight'[j] = IF j = i THEN k ELSE inflight[j]
    BY <2>1, <2>4
  <2>6. \A g \in 1 .. minted : Holds(g) => Holds(g)'
    BY <1>0, <2>1, <2>3, <2>5, AdmType DEF Holds
  <2>7. \A g \in 1 .. minted : Holds(g)' => g = k \/ Holds(g)
    BY <1>0, <2>1, <2>3, <2>5, AdmType DEF Holds
  <2>8. Evolves
    BY <1>0, <2>1, <2>6, SameGrows DEF Evolves
  <2>9. Unended'
    BY <2>1, <2>3, <2>7 DEF HowFits, Unended
  <2>10. Stage(h, task[h])'
    BY <2>2 DEF Stage, Ends
  <2>11. \A g : ~OwesIn(task'[h], g)
    BY <2>2 DEF OwesIn, Ends
  <2> QED BY <1>0, <2>1, <2>2, <2>8, <2>9, <2>10, <2>11, HowMoves
<1>5. CASE Forward(h)
  <2>1. UNCHANGED <<inflight, how, minted, adm, results, notices>>
    BY <1>5 DEF Forward
  <2>2. /\ task'[h].step \in {"idle", "rollback"}
        /\ \A u \in Tasks \ {h} : task'[u] = task[u]
    BY <1>0, <1>5, AdmissionMoves DEF Onto, ToIdle, To
  <2>3. Stage(h, task[h])' /\ \A g : ~OwesIn(task'[h], g)
    BY <2>2 DEF Stage, OwesIn, Ends
  <2> QED BY <1>0, <2>1, <2>2, <2>3, HowCalm
<1>6. CASE Rollback(h)
  <2>1. UNCHANGED <<minted, adm, results, notices>> /\ task[h].step = "rollback"
    BY <1>6 DEF Rollback
  <2>2. CASE UNCHANGED <<inflight, how>> /\ ToIdle(h)
    BY <1>0, <2>1, <2>2, HowIdle DEF ToIdle, To
  <2>3. CASE Holds(task[h].g) /\ Remove({task[h].g}, "withdrawn") /\ Onto(h, "unreserve")
    <3>1. PICK g \in 1 .. minted : g = task[h].g
      BY <1>0, <2>1 DEF Root
    <3>2. {g} \subseteq Live /\ Remove({g}, "withdrawn")
      BY <2>3, <3>1 DEF Live, Holds
    <3>3. how'[g] = "withdrawn"
      BY <2>1, <3>2, RemoveEvolves
    <3>4. /\ task'[h].step = "unreserve" /\ task'[h].g = g
          /\ \A u \in Tasks \ {h} : task'[u] = task[u]
      BY <2>3, <3>1 DEF Onto, To
    <3>5. Stage(h, task[h])' /\ \A x : OwesIn(task'[h], x) => x \in {g}
      BY <3>3, <3>4 DEF Stage, OwesIn, Ends
    <3> QED BY <1>0, <2>1, <3>2, <3>4, <3>5, HowRemoves
  <2> QED BY <1>0, <1>6, <2>2, <2>3, AdmissionMoves
<1>7. CASE Unreserve(h)
  <2>1. UNCHANGED <<inflight, how, minted, adm, results, notices>>
    BY <1>7 DEF Unreserve, history
  <2> QED BY <1>0, <1>7, <2>1, AdmissionMoves, HowIdle DEF ToIdle, To
<1> QED BY <1>1, <1>2, <1>3, <1>4, <1>5, <1>6, <1>7

LEMMA HowResult ==
  ASSUME Typing, HowFits, NEW h \in Handles,
         Result(h) \/ Deliver(h) \/ Commit(h) \/ FreeSlot(h)
  PROVE  HowKept
<1>0. /\ Data /\ TypeOK /\ h \in Tasks /\ minted \in Nat /\ Root(h, task[h])
      /\ Stage(h, task[h])
  BY TypingGives DEF Data, HowFits
<1>1. CASE Result(h)
  <2>1. UNCHANGED <<inflight, how, minted, adm, results, notices>>
    BY <1>1 DEF Result, shared, history
  <2>2. PICK g \in 1 .. minted : Holds(g) /\ To(h, "deliver", g, g, None, {})
    BY <1>0, <1>1, ResultMoves
  <2>3. /\ task'[h].step = "deliver" /\ task'[h].g = g
        /\ \A u \in Tasks \ {h} : task'[u] = task[u]
    BY <2>2 DEF To
  <2>4. Stage(h, task[h])' /\ \A x : ~OwesIn(task'[h], x)
    BY <2>1, <2>2, <2>3 DEF Stage, OwesIn, Ends, Holds
  <2> QED BY <1>0, <2>1, <2>3, <2>4, HowCalm
<1>2. CASE Deliver(h)
  <2>1. UNCHANGED <<inflight, how, minted, adm, notices>> /\ task[h].step = "deliver"
    BY <1>2 DEF Deliver
  <2>2. task[h].echo \in 1 .. minted /\ task[h].echo = task[h].g
    BY <1>0, <2>1 DEF Root
  <2>3. results' = results \/ results' = [results EXCEPT ![task[h].echo] = @ + 1]
    BY <1>0, <1>2, ResultMoves
  <2>4. ASSUME NEW g \in Gens, g > minted PROVE results'[g] = results[g]
    <3>1. PICK k \in 1 .. minted : k = task[h].echo
      BY <2>2
    <3>2. g # k /\ results \in [Gens -> Nat]
      BY <1>0, <2>4 DEF Gens, Data
    <3> QED BY <2>3, <3>1, <3>2
  <2>5. /\ \/ task'[h].step = "idle"
           \/ task'[h].step = "commit" /\ task'[h].g = task[h].g
        /\ \A u \in Tasks \ {h} : task'[u] = task[u]
    BY <1>0, <1>2, ResultMoves DEF Onto, ToIdle, To
  <2>6. Stage(h, task[h])' /\ \A x : ~OwesIn(task'[h], x)
    BY <1>0, <2>1, <2>5 DEF Stage, OwesIn, Ends, Holds
  <2> QED BY <1>0, <2>1, <2>4, <2>5, <2>6, HowCalm
<1>3. CASE Commit(h)
  <2>1. UNCHANGED <<minted, adm, results, notices>> /\ task[h].step = "commit"
    BY <1>3 DEF Commit
  <2>2. CASE UNCHANGED <<inflight, how>> /\ ToIdle(h)
    BY <1>0, <2>1, <2>2, HowIdle DEF ToIdle, To
  <2>3. CASE Commits(h) # 0 /\ Remove({Commits(h)}, "completed") /\ Onto(h, "free")
    <3>1. PICK g \in 1 .. minted : g = task[h].g
      BY <1>0, <2>1 DEF Root
    <3>2. Commits(h) = g /\ Holds(g)
      BY <2>3, <3>1 DEF Commits, Holds
    <3>3. {g} \subseteq Live /\ Remove({g}, "completed")
      BY <2>3, <3>2 DEF Live, Holds
    <3>4. how'[g] = "completed"
      BY <2>1, <3>3, RemoveEvolves
    <3>5. /\ task'[h].step = "free" /\ task'[h].g = g
          /\ \A u \in Tasks \ {h} : task'[u] = task[u]
      BY <2>3, <3>1 DEF Onto, To
    <3>6. Stage(h, task[h])' /\ \A x : OwesIn(task'[h], x) => x \in {g}
      BY <3>4, <3>5 DEF Stage, OwesIn, Ends
    <3> QED BY <1>0, <2>1, <3>3, <3>5, <3>6, HowRemoves
  <2> QED BY <1>0, <1>3, <2>2, <2>3, ResultMoves
<1>4. CASE FreeSlot(h)
  <2>1. UNCHANGED <<inflight, how, minted, adm, results, notices>>
    BY <1>4 DEF FreeSlot, history
  <2> QED BY <1>0, <1>4, <2>1, ResultMoves, HowIdle DEF ToIdle, To
<1> QED BY <1>1, <1>2, <1>3, <1>4

LEMMA HowStep == Typing /\ HowFits /\ [Next]_vars => HowKept
<1> SUFFICES ASSUME Typing, HowFits, [Next]_vars PROVE HowKept
  OBVIOUS
<1>0. Data /\ TypeOK /\ minted \in Nat /\ Sweeper \in Tasks /\ Handles \subseteq Tasks
  BY TypingGives DEF Data
<1>1. CASE Tick \/ UNCHANGED vars
  <2>1. UNCHANGED <<task, inflight, how, minted, adm, results, notices>>
    BY <1>1 DEF Tick, vars, history
  <2>2. Stage(Sweeper, task[Sweeper])'
    BY <1>0, <2>1 DEF HowFits, Stage, Holds, Live
  <2> QED BY <1>0, <2>1, <2>2, HowCalm, OwesIs
<1>2. ASSUME NEW h \in Handles, Register(h) \/ Break(h) \/ DropReceiver(h) PROVE HowKept
  <2>1. UNCHANGED <<inflight, how, minted, adm, results, notices>>
    BY <1>2 DEF Register, Break, DropReceiver, history
  <2>2. ToIdle(h) \/ To(h, "fail", 0, 0, h, {}) \/ To(h, "gone", 0, 0, None, {})
    BY <1>0, <1>2, LifeMoves
  <2> QED BY <1>0, <2>1, <2>2, HowIdle DEF ToIdle, To
<1>3. ASSUME NEW h \in Handles, Cancel(h) PROVE HowKept
  <2>1. UNCHANGED <<minted, adm, results, notices>>
    BY <1>3 DEF Cancel
  <2>2. PICK g \in 1 .. minted : /\ Holds(g) /\ Remove({g}, "cancelled")
                                 /\ To(h, "cancelling", 0, 0, None, {g})
    BY <1>0, <1>3, EndingMoves
  <2>3. {g} \subseteq Live /\ Remove({g}, WayOf("cancelling")) /\ "cancelling" \in Ends
    BY <2>2 DEF Live, Holds, WayOf, Ends
  <2>4. ToEnding(h, "cancelling", None, {g})
    BY <2>2 DEF ToEnding
  <2> QED BY <1>0, <2>1, <2>3, <2>4, HowEnding
<1>4. CASE ExpireLease
  <2>1. UNCHANGED <<inflight, how, minted, adm, results, notices>>
    BY <1>4 DEF ExpireLease, history
  <2>2. PICK h \in registered : To(Sweeper, "fail", 0, 0, h, {})
    BY <1>0, <1>4, EndingMoves
  <2> QED BY <1>0, <2>1, <2>2, HowIdle DEF To
<1>5. CASE SweepDeadlines
  <2>1. /\ UNCHANGED <<minted, adm, results, notices>>
        /\ Remove(Overdue, "expired") /\ Overdue # {}
    BY <1>5 DEF SweepDeadlines
  <2>2. ToEnding(Sweeper, "expiring", None, Overdue)
    BY <1>0, <1>5, <2>1, EndingMoves DEF ToEnding
  <2>3. Overdue \subseteq Live /\ Remove(Overdue, WayOf("expiring")) /\ "expiring" \in Ends
    BY <2>1 DEF Overdue, WayOf, Ends
  <2> QED BY <1>0, <2>1, <2>2, <2>3, HowEnding
<1>6. ASSUME NEW t \in Tasks, FailInstance(t) PROVE HowKept
  <2> DEFINE B == Touching(task[t].victim)
  <2>1. UNCHANGED <<minted, adm, results, notices>> /\ Remove(B, "failed")
    BY <1>6 DEF FailInstance
  <2>2. ToEnding(t, "failing", task[t].victim, B)
    BY <1>0, <1>6, FailMoves
  <2>3. B \subseteq Live /\ Remove(B, WayOf("failing")) /\ "failing" \in Ends
    BY <2>1 DEF Touching, WayOf, Ends
  <2> HIDE DEF B
  <2> QED BY <1>0, <2>1, <2>2, <2>3, HowEnding
<1>7. ASSUME NEW t \in Tasks, Release(t) PROVE HowKept
  <2>1. UNCHANGED <<inflight, how, minted, adm, results>> /\ task[t].step \in Ends
    BY <1>7 DEF Release, Ends
  <2>2. PICK g \in task[t].batch :
          /\ notices' = notices \/ notices' = [notices EXCEPT ![g] = @ + 1]
          /\ ToEnding(t, task[t].step, task[t].victim, task[t].batch \ {g})
    BY <1>0, <1>7, ReleaseMoves
  <2>3. g \in 1 .. minted
    BY <1>0, <2>1, TypingGives DEF Root
  <2>4. ASSUME NEW x \in Gens, x > minted PROVE notices'[x] = notices[x]
    <3>1. x # g /\ notices \in [Gens -> Nat]
      BY <1>0, <2>3, <2>4 DEF Gens, Data
    <3> QED BY <2>2, <3>1
  <2>5. /\ \A u \in Tasks \ {t} : task'[u] = task[u]
        /\ \/ task'[t].step = "idle"
           \/ task'[t].step = task[t].step /\ task'[t].batch = task[t].batch \ {g}
    BY <2>2 DEF ToEnding, ToIdle, To
  <2>6. Stage(t, task[t])
    BY DEF HowFits
  <2>7. \A x \in task[t].batch : how'[x] = WayOf(task[t].step)
    BY <2>1, <2>6 DEF Stage
  <2>8. Stage(t, task[t])'
    BY <2>1, <2>5, <2>7 DEF Stage, Ends
  <2>9. \A x : OwesIn(task'[t], x) => Owes(t, x)
    BY <2>1, <2>5, OwesIs DEF OwesIn, Ends
  <2> QED BY <1>0, <2>1, <2>4, <2>5, <2>8, <2>9, HowCalm
<1> QED
  BY <1>1, <1>2, <1>3, <1>4, <1>5, <1>6, <1>7, HowAdmission, HowResult DEF Next, Continue

LEMMA HowInit == Init => HowFits
<1> SUFFICES ASSUME Init PROVE HowFits
  OBVIOUS
<1>1. \A t \in Tasks : task[t] = IF t = Sweeper THEN Doing("idle") ELSE Doing("new")
  BY DEF Init
<1>2. \A t \in Tasks : task[t].step \in {"idle", "new"}
  BY <1>1, DoingIs DEF Steps
<1>3. \A t \in Tasks : Stage(t, task[t])
  BY <1>2 DEF Stage, Ends
<1>4. OwedOnce /\ Unended /\ Fresh
  BY DEF Init, OwedOnce, Unended, Fresh
<1> QED BY <1>3, <1>4 DEF HowFits

-----------------------------------------------------------------------------
(* What the initiators and the targets were told. *)

\* The steps that tell nobody anything, and complete nothing.
Plain ==
  /\ UNCHANGED <<results, notices, cancels, asked>> /\ now <= now'
  /\ \A g \in Gens : how'[g] \in {how[g], "withdrawn", "failed"}
  /\ \A t \in Tasks : \/ task'[t] = task[t]
                      \/ /\ task[t].step \notin {"deliver", "commit"}
                         /\ task'[t].step \notin {"deliver", "commit"}

LEMMA PlainMoves ==
  ASSUME Typing, NEW t \in Tasks, \A u \in Tasks \ {t} : task'[u] = task[u],
         task[t].step \notin {"deliver", "commit"}, task'[t].step \notin {"deliver", "commit"},
         UNCHANGED <<results, notices, cancels, asked, now>>,
         how' = how \/ \E S : Remove(S, "withdrawn") \/ Remove(S, "failed")
  PROVE  Plain
<1>1. now <= now'
  <2>1. now \in Nat
    BY TypingGives DEF Data
  <2> QED BY <2>1
<1>2. \A g \in Gens : how'[g] \in {how[g], "withdrawn", "failed"}
  BY DEF Remove
<1> QED BY <1>1, <1>2 DEF Plain

LEMMA PlainOrNot ==
  ASSUME Typing, [Next]_vars
  PROVE  \/ Plain
         \/ \E h \in Handles : Result(h) \/ Deliver(h) \/ Commit(h) \/ Cancel(h)
         \/ SweepDeadlines
         \/ \E t \in Tasks : Release(t)
<1>0. Data /\ TypeOK /\ Sweeper \in Tasks /\ Handles \subseteq Tasks
  BY TypingGives
<1>1. ASSUME Tick \/ UNCHANGED vars PROVE Plain
  <2>1. now \in Nat
    BY <1>0 DEF Data
  <2> QED BY <1>1, <2>1 DEF Tick, vars, history, Plain
<1>2. ASSUME NEW h \in Handles, Register(h) \/ Break(h) \/ DropReceiver(h) PROVE Plain
  <2>1. /\ UNCHANGED <<how, results, notices, cancels, asked, now>>
        /\ task[h].step \notin {"deliver", "commit"}
    BY <1>0, <1>2, LifeMoves DEF Register, Break, DropReceiver, history
  <2>2. ToIdle(h) \/ To(h, "fail", 0, 0, h, {}) \/ To(h, "gone", 0, 0, None, {})
    BY <1>0, <1>2, LifeMoves
  <2> QED BY <1>0, <2>1, <2>2, PlainMoves DEF ToIdle, To
<1>3. ASSUME NEW h \in Handles, Delegate(h) PROVE Plain
  <2>1. /\ UNCHANGED <<how, results, notices, cancels, asked, now>>
        /\ task[h].step \notin {"deliver", "commit"}
    BY <1>3 DEF Delegate, history
  <2>2. PICK r \in Requests : ToSelect(h, r)
    BY <1>0, <1>3, DelegateMoves
  <2> QED BY <1>0, <2>1, <2>2, PlainMoves DEF ToSelect
<1>4. ASSUME NEW h \in Handles,
             \/ Select(h) \/ Reserve(h) \/ Insert(h) \/ Forward(h) \/ Rollback(h)
             \/ Unreserve(h) \/ FreeSlot(h)
      PROVE  Plain
  <2>1. /\ UNCHANGED <<results, notices, cancels, asked, now>>
        /\ task[h].step \notin {"deliver", "commit"}
    BY <1>4 DEF Select, Reserve, Insert, Forward, Rollback, Unreserve, FreeSlot, history
  <2>2. how' = how \/ \E S : Remove(S, "withdrawn")
    BY <1>4 DEF Select, Reserve, Insert, Forward, Rollback, Unreserve, FreeSlot, history
  <2>3. \/ ToIdle(h) \/ Onto(h, "insert") \/ Onto(h, "forward") \/ Onto(h, "rollback")
        \/ Onto(h, "unreserve") \/ To(h, "reserve", minted + 1, 0, None, {})
    BY <1>0, <1>4, SelectMoves, AdmissionMoves, ResultMoves
  <2> QED BY <1>0, <2>1, <2>2, <2>3, PlainMoves DEF Onto, ToIdle, To
<1>5. ASSUME ExpireLease PROVE Plain
  <2>1. /\ UNCHANGED <<how, results, notices, cancels, asked, now>>
        /\ task[Sweeper].step \notin {"deliver", "commit"}
    BY <1>5 DEF ExpireLease, history
  <2>2. PICK h : To(Sweeper, "fail", 0, 0, h, {})
    BY <1>0, <1>5, EndingMoves
  <2> QED BY <1>0, <2>1, <2>2, PlainMoves DEF To
<1>6. ASSUME NEW t \in Tasks, FailInstance(t) PROVE Plain
  <2>1. /\ UNCHANGED <<results, notices, cancels, asked, now>>
        /\ task[t].step \notin {"deliver", "commit"} /\ \E S : Remove(S, "failed")
    BY <1>6 DEF FailInstance
  <2>2. ToEnding(t, "failing", task[t].victim, Touching(task[t].victim))
    BY <1>0, <1>6, FailMoves
  <2> QED BY <1>0, <2>1, <2>2, PlainMoves DEF ToEnding, ToIdle, To
<1> QED BY <1>1, <1>2, <1>3, <1>4, <1>5, <1>6 DEF Next, Continue

Reply(t, v) == /\ v.step = "deliver" => results[v.g] = 0
               /\ v.step = "commit" => results[v.g] = 1

\* A result is counted once its admission is complete, or is about to be.
ResultsFit ==
  /\ \A t \in Tasks : Reply(t, task[t])
  /\ \A g \in 1 .. minted :
       /\ results[g] <= 1
       /\ results[g] # 0 => \/ how[g] # "none"
                            \/ task[adm[g].to].step = "commit" /\ task[adm[g].to].g = g
       /\ how[g] = "completed" => results[g] = 1

\* An admission of then, if it is not new, is one of now.
LEMMA OldOrNew ==
  ASSUME Typing, Typing', HowFits, HowKept, NEW g \in 1 .. minted'
  PROVE  /\ g \in Gens
         /\ \/ /\ g \in 1 .. minted /\ adm'[g] = adm[g] /\ adm[g].to \in Handles
               /\ adm[g].from \in Handles /\ g # 0
               /\ how[g] # "none" => how'[g] = how[g]
            \/ g \notin 1 .. minted /\ how[g] = "none" /\ results[g] = 0 /\ notices[g] = 0
<1>1. minted \in Nat /\ minted' \in 0 .. MaxGen /\ MaxGen \in Nat /\ Data
  BY Counting, TypingGives DEF Data, Typing, TypeOK
<1>2. g \in Gens
  BY <1>1 DEF Gens
<1>3. CASE g \in 1 .. minted
  BY <1>1, <1>2, <1>3, AdmType DEF HowKept, Evolves, Grows
<1>4. CASE g \notin 1 .. minted
  <2>1. g > minted
    BY <1>1, <1>2, <1>4 DEF Gens
  <2> QED BY <1>2, <1>4, <2>1 DEF HowFits, Fresh
<1> QED BY <1>3, <1>4

\* Nothing is counted.
LEMMA ResultsMoves ==
  ASSUME Typing, Typing', HowFits, HowKept, ResultsFit, results' = results,
         NEW t \in Tasks, \A u \in Tasks \ {t} : task'[u] = task[u],
         \A g \in Gens : how'[g] = "completed" => results[g] = 1,
         task[t].step = "commit" => task'[t] = task[t] \/ how'[task[t].g] # "none",
         Reply(t, task[t])'
  PROVE  ResultsFit'
<1>1. \A u \in Tasks : Reply(u, task[u])'
  BY DEF ResultsFit, Reply
<1> SUFFICES ASSUME NEW g \in 1 .. minted'
             PROVE  /\ results'[g] <= 1
                    /\ results'[g] # 0 =>
                         \/ how'[g] # "none"
                         \/ task'[adm'[g].to].step = "commit" /\ task'[adm'[g].to].g = g
                    /\ how'[g] = "completed" => results'[g] = 1
  BY <1>1 DEF ResultsFit
<1>2. CASE g \in 1 .. minted
  <2>1. adm'[g] = adm[g] /\ adm[g].to \in Tasks /\ g \in Gens
        /\ (how[g] # "none" => how'[g] = how[g])
    BY <1>2, OldOrNew, TypingGives
  <2>2. /\ results[g] <= 1
        /\ results[g] # 0 => \/ how[g] # "none"
                             \/ task[adm[g].to].step = "commit" /\ task[adm[g].to].g = g
    BY <1>2 DEF ResultsFit
  <2> QED BY <2>1, <2>2
<1>3. CASE g \notin 1 .. minted
  BY <1>3, OldOrNew
<1> QED BY <1>2, <1>3

LEMMA ResultsStep ==
  Typing /\ Typing' /\ HowFits /\ HowKept /\ ResultsFit /\ [Next]_vars => ResultsFit'
<1> SUFFICES ASSUME Typing, Typing', HowFits, HowKept, ResultsFit, [Next]_vars
             PROVE  ResultsFit'
  OBVIOUS
<1>0. /\ Data /\ TypeOK /\ minted \in Nat /\ Sweeper \in Tasks /\ Handles \subseteq Tasks
      /\ \A t \in Tasks : Root(t, task[t]) /\ Stage(t, task[t]) /\ Reply(t, task[t])
  BY TypingGives DEF Data, HowFits, ResultsFit
<1>1. \A g \in Gens : how[g] = "completed" => results[g] = 1
  <2> SUFFICES ASSUME NEW g \in Gens, how[g] = "completed" PROVE results[g] = 1
    OBVIOUS
  <2>1. g \in 1 .. minted
    BY <1>0 DEF HowFits, Fresh, Gens
  <2> QED BY <2>1 DEF ResultsFit
<1>2. CASE Plain
  <2>1. \A g \in Gens : how'[g] = "completed" => results[g] = 1
    BY <1>1, <1>2 DEF Plain
  <2>2. \A t \in Tasks : Reply(t, task[t])'
    BY <1>0, <1>2 DEF Plain, Reply
  <2> SUFFICES ASSUME NEW g \in 1 .. minted'
               PROVE  /\ results'[g] <= 1
                      /\ results'[g] # 0 =>
                           \/ how'[g] # "none"
                           \/ task'[adm'[g].to].step = "commit" /\ task'[adm'[g].to].g = g
                      /\ how'[g] = "completed" => results'[g] = 1
    BY <2>2 DEF ResultsFit
  <2>3. g \in Gens /\ results' = results
    BY <1>2, OldOrNew DEF Plain
  <2>4. CASE g \in 1 .. minted
    <3>1. adm'[g] = adm[g] /\ adm[g].to \in Tasks /\ (how[g] # "none" => how'[g] = how[g])
      BY <1>0, <2>4, OldOrNew
    <3>2. /\ results[g] <= 1
          /\ results[g] # 0 => \/ how[g] # "none"
                               \/ task[adm[g].to].step = "commit" /\ task[adm[g].to].g = g
      BY <2>4 DEF ResultsFit
    <3>3. task[adm[g].to].step = "commit" => task'[adm[g].to] = task[adm[g].to]
      BY <1>2, <3>1 DEF Plain
    <3> QED BY <2>1, <2>3, <3>1, <3>2, <3>3
  <2>5. CASE g \notin 1 .. minted
    BY <2>1, <2>3, <2>5, OldOrNew
  <2> QED BY <2>4, <2>5
<1>3. ASSUME NEW h \in Handles, Result(h) PROVE ResultsFit'
  <2>1. UNCHANGED <<how, results>> /\ task[h].step = "idle"
    BY <1>3 DEF Result, history
  <2>2. PICK g \in 1 .. minted : adm[g].to = h /\ Holds(g) /\ To(h, "deliver", g, g, None, {})
    BY <1>0, <1>3, ResultMoves
  <2>3. results[g] = 0
    BY <2>1, <2>2 DEF ResultsFit, HowFits, Unended
  <2>4. Reply(h, task[h])' /\ \A u \in Tasks \ {h} : task'[u] = task[u]
    BY <2>1, <2>2, <2>3 DEF To, Reply
  <2> QED BY <1>0, <1>1, <2>1, <2>4, ResultsMoves
<1>4. ASSUME NEW h \in Handles, Deliver(h) PROVE ResultsFit'
  <2>1. how' = how /\ adm' = adm /\ minted' = minted /\ task[h].step = "deliver"
    BY <1>4 DEF Deliver
  <2>2. CASE ToIdle(h) /\ results' = results
    BY <1>0, <1>1, <2>1, <2>2, ResultsMoves DEF ToIdle, To, Reply
  <2>3. CASE results' = [results EXCEPT ![task[h].echo] = @ + 1] /\ Onto(h, "commit")
    <3>1. PICK k \in 1 .. minted : k = task[h].g /\ k = task[h].echo /\ adm[k].to = h
      BY <1>0, <2>1 DEF Root
    <3>2. results[k] = 0 /\ k \in Gens /\ results \in [Gens -> Nat]
      BY <1>0, <2>1, <3>1, AdmType DEF Reply, Data
    <3>3. /\ results'[k] = 1
          /\ \A g \in Gens \ {k} : results'[g] = results[g]
      BY <2>3, <3>1, <3>2
    <3>4. /\ task'[h].step = "commit" /\ task'[h].g = k
          /\ \A u \in Tasks \ {h} : task'[u] = task[u]
      BY <2>3, <3>1 DEF Onto, To
    <3>5. ASSUME NEW u \in Tasks \ {h} PROVE Reply(u, task[u])'
      <4>1. task[u].step \in {"deliver", "commit"} => task[u].g \in 1 .. minted /\ task[u].g # k
        BY <1>0, <3>1 DEF Root
      <4>2. task[u].step \in {"deliver", "commit"} => results'[task[u].g] = results[task[u].g]
        BY <1>0, <3>3, <4>1, AdmType
      <4> QED BY <1>0, <3>4, <4>2 DEF Reply
    <3>6. \A u \in Tasks : Reply(u, task[u])'
      BY <3>3, <3>4, <3>5 DEF Reply
    <3>7. ASSUME NEW g \in 1 .. minted
          PROVE  /\ results'[g] <= 1
                 /\ results'[g] # 0 =>
                      \/ how'[g] # "none"
                      \/ task'[adm'[g].to].step = "commit" /\ task'[adm'[g].to].g = g
                 /\ how'[g] = "completed" => results'[g] = 1
      <4>1. CASE g = k
        BY <2>1, <3>1, <3>3, <3>4, <4>1
      <4>2. CASE g # k
        <5>1. results'[g] = results[g] /\ adm[g].to \in Tasks
          BY <1>0, <3>3, <4>2, AdmType
        <5>2. task[adm[g].to].step = "commit" => task'[adm[g].to] = task[adm[g].to]
          BY <2>1, <3>4, <5>1
        <5> QED BY <2>1, <5>1, <5>2 DEF ResultsFit
      <4> QED BY <4>1, <4>2
    <3> QED BY <2>1, <3>6, <3>7 DEF ResultsFit
  <2> QED BY <1>0, <1>4, <2>2, <2>3, ResultMoves
<1>5. ASSUME NEW h \in Handles, Commit(h) PROVE ResultsFit'
  <2>1. UNCHANGED <<minted, adm, results>> /\ task[h].step = "commit"
    BY <1>5 DEF Commit
  <2>2. PICK k \in 1 .. minted : k = task[h].g /\ adm[k].to = h
    BY <1>0, <2>1 DEF Root
  <2>3. results[k] = 1
    BY <1>0, <2>1, <2>2 DEF Reply
  <2>4. CASE Commits(h) = 0 /\ UNCHANGED <<inflight, how>> /\ ToIdle(h)
    <3>1. ~Holds(k) /\ k # 0
      BY <1>0, <2>2, <2>4, AdmType DEF Commits, Holds
    <3>2. how[k] # "none"
      BY <1>0, <2>1, <2>2, <3>1 DEF Stage
    <3>3. Reply(h, task[h])' /\ \A u \in Tasks \ {h} : task'[u] = task[u]
      BY <2>4 DEF ToIdle, To, Reply
    <3> QED BY <1>0, <1>1, <2>1, <2>2, <2>4, <3>2, <3>3, ResultsMoves
  <2>5. CASE Commits(h) # 0 /\ Remove({Commits(h)}, "completed") /\ Onto(h, "free")
    <3>1. Commits(h) = k
      BY <2>2, <2>5 DEF Commits
    <3>2. \A g \in Gens : how'[g] = IF g = k THEN "completed" ELSE how[g]
      BY <2>5, <3>1 DEF Remove
    <3>3. Reply(h, task[h])' /\ \A u \in Tasks \ {h} : task'[u] = task[u]
      BY <2>5 DEF Onto, To, Reply
    <3>4. k \in Gens
      BY <1>0, AdmType
    <3>5. \A g \in Gens : how'[g] = "completed" => results[g] = 1
      BY <1>1, <2>3, <3>2
    <3>6. how'[task[h].g] # "none"
      BY <2>2, <3>2, <3>4
    <3> QED BY <1>0, <2>1, <3>3, <3>5, <3>6, ResultsMoves
  <2> QED BY <1>0, <1>5, <2>4, <2>5, ResultMoves
<1>6. ASSUME NEW t \in Tasks, \A u \in Tasks \ {t} : task'[u] = task[u], results' = results,
             task[t].step \notin {"deliver", "commit"},
             task'[t].step \notin {"deliver", "commit"},
             \A g \in Gens : how'[g] = "completed" => how[g] = "completed"
      PROVE  ResultsFit'
  BY <1>0, <1>1, <1>6, ResultsMoves DEF Reply
<1>7. ASSUME NEW h \in Handles, Cancel(h) PROVE ResultsFit'
  <2>1. results' = results /\ task[h].step = "idle"
    BY <1>7 DEF Cancel
  <2>2. PICK g : Remove({g}, "cancelled") /\ To(h, "cancelling", 0, 0, None, {g})
    BY <1>0, <1>7, EndingMoves
  <2>3. \A x \in Gens : how'[x] \in {how[x], "cancelled"}
    BY <2>2 DEF Remove
  <2> QED BY <1>0, <1>6, <2>1, <2>2, <2>3 DEF To
<1>8. CASE SweepDeadlines
  <2>1. /\ results' = results /\ task[Sweeper].step = "idle"
        /\ \A x \in Gens : how'[x] \in {how[x], "expired"}
    BY <1>8 DEF SweepDeadlines, Remove
  <2>2. To(Sweeper, "expiring", 0, 0, None, Overdue)
    BY <1>0, <1>8, EndingMoves
  <2> QED BY <1>0, <1>6, <2>1, <2>2 DEF To
<1>9. ASSUME NEW t \in Tasks, Release(t) PROVE ResultsFit'
  <2>1. UNCHANGED <<how, results>> /\ task[t].step \in Ends
    BY <1>9 DEF Release, Ends
  <2>2. PICK B : ToEnding(t, task[t].step, task[t].victim, B)
    BY <1>0, <1>9, ReleaseMoves
  <2>3. /\ task'[t].step \in {"idle", task[t].step}
        /\ \A u \in Tasks \ {t} : task'[u] = task[u]
    BY <2>2 DEF ToEnding, ToIdle, To
  <2> QED BY <1>6, <2>1, <2>3 DEF Ends
<1> QED BY <1>2, <1>3, <1>4, <1>5, <1>7, <1>8, <1>9, PlainOrNot

\* A notice is counted once the admission has ended for it, and its slot is back.
NoticesFit ==
  \A g \in 1 .. minted :
    /\ notices[g] <= 1
    /\ notices[g] # 0 => how[g] \in {"failed", "expired"} /\ \A t \in Tasks : ~Owes(t, g)

\* An admission of which nothing is told.
LEMMA NoticesKept ==
  ASSUME Typing, Typing', HowFits, HowKept, NoticesFit, NEW g \in 1 .. minted',
         notices'[g] = notices[g]
  PROVE  /\ notices'[g] <= 1
         /\ notices'[g] # 0 => /\ how'[g] \in {"failed", "expired"}
                               /\ \A t \in Tasks : ~Owes(t, g)'
<1>1. CASE g \in 1 .. minted
  <2>1. /\ notices[g] <= 1
        /\ notices[g] # 0 => how[g] \in {"failed", "expired"} /\ \A t \in Tasks : ~Owes(t, g)
    BY <1>1 DEF NoticesFit
  <2>2. how[g] # "none" => how'[g] = how[g] /\ ~Holds(g)
    BY <1>1 DEF HowKept, Evolves, HowFits, Unended
  <2>3. \A t \in Tasks : Owes(t, g)' => Owes(t, g) \/ Holds(g) \/ how[g] = "none"
    BY <1>1 DEF HowKept, Owing
  <2> QED BY <2>1, <2>2, <2>3
<1>2. CASE g \notin 1 .. minted
  BY <1>2, OldOrNew
<1> QED BY <1>1, <1>2

LEMMA NoticesStep ==
  Typing /\ Typing' /\ HowFits /\ HowKept /\ NoticesFit /\ [Next]_vars => NoticesFit'
<1> SUFFICES ASSUME Typing, Typing', HowFits, HowKept, NoticesFit, [Next]_vars
             PROVE  NoticesFit'
  OBVIOUS
<1>0. Data /\ TypeOK /\ Sweeper \in Tasks /\ Handles \subseteq Tasks
  BY TypingGives
<1>1. CASE notices' = notices
  BY <1>1, NoticesKept DEF NoticesFit
<1>2. ASSUME NEW t \in Tasks, Release(t) PROVE NoticesFit'
  <2>1. PICK k \in task[t].batch :
          /\ notices' = IF TellsInitiator(t, k) /\ adm[k].from \in registered
                           THEN [notices EXCEPT ![k] = @ + 1] ELSE notices
          /\ ToEnding(t, task[t].step, task[t].victim, task[t].batch \ {k})
    BY <1>0, <1>2, ReleaseMoves
  <2>2. /\ task[t].step \in Ends /\ minted' = minted /\ how' = how
        /\ notices \in [Gens -> Nat]
    BY <1>0, <1>2 DEF Release, Ends, Data
  <2>3. Owes(t, k) /\ k \in 1 .. minted /\ k \in Gens
    BY <1>0, <2>1, <2>2, OwesIs, TypingGives, AdmType DEF OwesIn, Root
  <2>4. how[k] = WayOf(task[t].step)
    BY <2>1, <2>2 DEF HowFits, Stage
  <2> SUFFICES ASSUME NEW g \in 1 .. minted'
               PROVE  /\ notices'[g] <= 1
                      /\ notices'[g] # 0 => /\ how'[g] \in {"failed", "expired"}
                                            /\ \A u \in Tasks : ~Owes(u, g)'
    BY DEF NoticesFit
  <2>5. CASE notices'[g] = notices[g]
    BY <2>5, NoticesKept
  <2>6. CASE notices'[g] # notices[g]
    <3>1. g = k /\ TellsInitiator(t, k) /\ notices'[k] = notices[k] + 1
      BY <2>1, <2>2, <2>3, <2>6
    <3>2. notices[k] = 0
      BY <2>2, <2>3 DEF NoticesFit
    <3>3. how'[k] \in {"failed", "expired"}
      BY <2>2, <2>4, <3>1 DEF TellsInitiator, WayOf
    <3>4. ~OwesIn(task'[t], k)
      BY <2>1, <2>2 DEF ToEnding, ToIdle, To, OwesIn, Ends
    <3>5. ASSUME NEW u \in Tasks \ {t} PROVE ~Owes(u, k)'
      <4>1. task'[u] = task[u]
        BY <2>1 DEF ToEnding, ToIdle, To
      <4>2. ~Owes(u, k)
        BY <2>3 DEF HowFits, OwedOnce
      <4> QED BY <4>1, <4>2, OwesIs, OwesIsThen
    <3> QED BY <3>1, <3>2, <3>3, <3>4, <3>5, OwesIsThen
  <2> QED BY <2>5, <2>6
<1>3. CASE \E h \in Handles : Result(h) \/ Deliver(h) \/ Commit(h) \/ Cancel(h)
  BY <1>1, <1>3 DEF Result, Deliver, Commit, Cancel, history
<1>4. CASE Plain \/ SweepDeadlines
  BY <1>1, <1>4 DEF Plain, SweepDeadlines
<1> QED BY <1>2, <1>3, <1>4, PlainOrNot

\* The reasons for which admissions ended, but for completion.
Reasons ==
  \A g \in 1 .. minted :
    /\ how[g] = "cancelled" => g \in asked
    /\ how[g] = "expired" => adm[g].deadline <= now
    /\ g \in cancels => how[g] \in {"cancelled", "failed", "expired"}

LEMMA ReasonsMoves ==
  ASSUME Typing, Typing', HowFits, HowKept, Reasons,
         \A g \in Gens : \/ how'[g] = how[g]
                         \/ how'[g] \in {"withdrawn", "completed", "failed"}
                         \/ how'[g] = "cancelled" /\ g \in asked'
                         \/ how'[g] = "expired" /\ adm'[g].deadline <= now',
         asked \subseteq asked', now <= now',
         \A g \in cancels' : g \in cancels \/ how[g] \in {"cancelled", "failed", "expired"}
  PROVE  Reasons'
<1> SUFFICES ASSUME NEW g \in 1 .. minted'
             PROVE  /\ how'[g] = "cancelled" => g \in asked'
                    /\ how'[g] = "expired" => adm'[g].deadline <= now'
                    /\ g \in cancels' => how'[g] \in {"cancelled", "failed", "expired"}
  BY DEF Reasons
<1>1. CASE g \in 1 .. minted
  <2>1. /\ g \in Gens /\ adm'[g] = adm[g] /\ (how[g] # "none" => how'[g] = how[g])
        /\ adm[g].deadline \in Nat /\ now \in Nat /\ now' \in Nat
    <3>1. Data /\ now' \in 0 .. Horizon
      BY TypingGives DEF Typing, TypeOK
    <3>2. now \in Nat /\ now' \in Nat
      BY <3>1, Counting DEF Data
    <3>3. adm[g].deadline \in Nat
      BY <1>1, <3>1, AdmType
    <3>4. g \in Gens /\ adm'[g] = adm[g] /\ (how[g] # "none" => how'[g] = how[g])
      BY <1>1, OldOrNew
    <3> QED BY <3>2, <3>3, <3>4
  <2>2. /\ how[g] = "cancelled" => g \in asked
        /\ how[g] = "expired" => adm[g].deadline <= now
        /\ g \in cancels => how[g] \in {"cancelled", "failed", "expired"}
    BY <1>1 DEF Reasons
  <2>3. how[g] = "expired" => adm'[g].deadline <= now'
    BY <2>1, <2>2
  <2> QED BY <2>1, <2>2, <2>3
<1>2. CASE g \notin 1 .. minted
  <2>1. g \in Gens /\ how[g] = "none" /\ g \notin cancels
    BY <1>2, OldOrNew, TypingGives DEF Data
  <2> QED BY <2>1
<1> QED BY <1>1, <1>2

LEMMA ReasonsStep ==
  Typing /\ Typing' /\ HowFits /\ HowKept /\ Reasons /\ [Next]_vars => Reasons'
<1> SUFFICES ASSUME Typing, Typing', HowFits, HowKept, Reasons, [Next]_vars
             PROVE  Reasons'
  OBVIOUS
<1>0. Data /\ TypeOK /\ Sweeper \in Tasks /\ Handles \subseteq Tasks /\ now \in Nat /\ now <= now
  BY TypingGives DEF Data
<1>1. CASE Plain
  BY <1>1, ReasonsMoves DEF Plain
<1>2. ASSUME NEW h \in Handles, Result(h) \/ Deliver(h) \/ Commit(h) PROVE Reasons'
  <2>1. UNCHANGED <<asked, cancels, now>>
    BY <1>2 DEF Result, Deliver, Commit, shared, history
  <2>2. \A g \in Gens : how'[g] \in {how[g], "completed"}
    BY <1>2 DEF Result, Deliver, Commit, shared, history, Remove
  <2> QED BY <1>0, <2>1, <2>2, ReasonsMoves
<1>3. ASSUME NEW h \in Handles, Cancel(h) PROVE Reasons'
  <2>1. UNCHANGED <<cancels, now>>
    BY <1>3 DEF Cancel
  <2>2. PICK k : Remove({k}, "cancelled") /\ asked' = asked \cup {k}
    BY <1>0, <1>3, EndingMoves
  <2>3. \A g \in Gens : how'[g] = IF g = k THEN "cancelled" ELSE how[g]
    BY <2>2 DEF Remove
  <2> QED BY <1>0, <2>1, <2>2, <2>3, ReasonsMoves
<1>4. CASE SweepDeadlines
  <2>1. UNCHANGED <<asked, cancels, now, adm>>
    BY <1>4 DEF SweepDeadlines
  <2>2. \A g \in Gens : how'[g] = IF g \in Overdue THEN "expired" ELSE how[g]
    BY <1>4 DEF SweepDeadlines, Remove
  <2>3. \A g \in Overdue : adm'[g].deadline <= now'
    BY <2>1 DEF Overdue
  <2> QED BY <1>0, <2>1, <2>2, <2>3, ReasonsMoves
<1>5. ASSUME NEW t \in Tasks, Release(t) PROVE Reasons'
  <2>1. UNCHANGED <<how, asked, now>> /\ task[t].step \in Ends
    BY <1>5 DEF Release, Ends
  <2>2. PICK k \in task[t].batch : cancels' = cancels \/ cancels' = cancels \cup {k}
    BY <1>0, <1>5, ReleaseMoves
  <2>3. how[k] \in {"cancelled", "failed", "expired"}
    BY <2>1, <2>2 DEF HowFits, Stage, WayOf
  <2> QED BY <1>0, <2>1, <2>2, <2>3, ReasonsMoves
<1> QED BY <1>1, <1>2, <1>3, <1>4, <1>5, PlainOrNot

\* What is recorded of the past.
Recorded == HowFits /\ ResultsFit /\ NoticesFit /\ Reasons

LEMMA RecordedInit == Init => Recorded
<1> SUFFICES ASSUME Init PROVE Recorded
  OBVIOUS
<1>1. \A t \in Tasks : task[t] = IF t = Sweeper THEN Doing("idle") ELSE Doing("new")
  BY DEF Init
<1>2. \A t \in Tasks : task[t].step \in {"idle", "new"}
  BY <1>1, DoingIs DEF Steps
<1>3. minted = 0
  BY DEF Init
<1>4. ResultsFit
  BY <1>2, <1>3 DEF ResultsFit, Reply
<1> QED BY <1>3, <1>4, HowInit DEF Recorded, NoticesFit, Reasons

LEMMA RecordedStep == Typing /\ Recorded /\ [Next]_vars => Recorded'
BY TypingStep, HowStep, ResultsStep, NoticesStep, ReasonsStep DEF Recorded, HowKept

\* An admission ends for its own reason: by a result that was delivered, a cancel
\* that named its token, its own deadline (Inflight::commit_completion, claim and
\* take_expired, which compare tokens where ids are used again).
THEOREM TrueEnds == Spec => []EndsAreTrue
<1>1. Recorded => EndsAreTrue
  BY DEF Recorded, ResultsFit, Reasons, EndsAreTrue
<1> QED BY <1>1, TypingInit, TypingStep, RecordedInit, RecordedStep, PTL DEF Spec

\* For a token the initiator is sent at most one result and at most one notice of
\* another ending, and a notice only of what failed or expired (the result is
\* queued before the entry is taken, in HandleResult).
THEOREM Terminal == Spec => []TerminalOnce
<1>1. Typing /\ Recorded => TerminalOnce
  <2> SUFFICES ASSUME Typing, Recorded, NEW g \in Gens
               PROVE  /\ results[g] <= 1 /\ notices[g] <= 1
                      /\ notices[g] = 1 => how[g] \in {"failed", "expired"}
    BY DEF TerminalOnce
  <2>1. CASE g \in 1 .. minted
    BY <2>1 DEF Recorded, ResultsFit, NoticesFit
  <2>2. CASE g \notin 1 .. minted
    <3>1. g > minted
      BY <2>2, TypingGives DEF Data, Gens
    <3> QED BY <3>1 DEF Recorded, HowFits, Fresh
  <2> QED BY <2>1, <2>2
<1> QED BY <1>1, TypingInit, TypingStep, RecordedInit, RecordedStep, PTL DEF Spec

-----------------------------------------------------------------------------
(* What is in the table. *)

\* Nothing comes to be in the table but by Insert.
LEMMA HoldsComes ==
  ASSUME Typing, Recorded, [Next]_vars, NEW g \in 1 .. minted', Holds(g)'
  PROVE  \/ g \in 1 .. minted /\ adm'[g] = adm[g] /\ Holds(g)
         \/ \E h \in Handles : Insert(h) /\ g = task[h].g
<1>0. /\ Data /\ minted \in Nat /\ Typing' /\ HowFits /\ HowKept /\ Sweeper \in Tasks
      /\ TypeOK /\ Handles \subseteq Tasks /\ inflight \in [Ids -> 0 .. minted]
  BY TypingGives, TypingStep, HowStep DEF Recorded, Data
<1>1. g \in Gens /\ g # 0 /\ (g \in 1 .. minted => adm'[g] = adm[g])
  BY <1>0, OldOrNew DEF Gens
<1>2. CASE \A i \in Ids : inflight'[i] \in {0, inflight[i]}
  <2>1. adm'[g].id \in Ids
    <3>1. adm' \in Seq(Entries) /\ Len(adm') = minted'
      BY <1>0 DEF Typing, TypeOK
    <3>2. adm'[g] \in Entries
      BY <3>1, ElementOfSeq
    <3> QED BY <3>2 DEF Entries
  <2>2. inflight[adm'[g].id] = g
    BY <1>1, <1>2, <2>1 DEF Holds
  <2>3. g \in 1 .. minted
    BY <1>0, <1>1, <2>1, <2>2
  <2> QED BY <1>1, <2>2, <2>3 DEF Holds
<1>3. ASSUME NEW h \in Handles, Insert(h)
      PROVE  \/ g \in 1 .. minted /\ adm'[g] = adm[g] /\ Holds(g)
             \/ g = task[h].g
  <2>1. /\ task[h].step = "insert" /\ minted' = minted /\ adm' = adm
        /\ inflight' = [inflight EXCEPT ![adm[task[h].g].id] = task[h].g]
    BY <1>3 DEF Insert
  <2>2. adm[g].id \in Ids
    BY <1>0, <2>1, AdmType
  <2> QED BY <1>0, <2>1, <2>2 DEF Holds
<1>4. CASE ~ \E h \in Handles : Insert(h)
  <2>1. inflight' = inflight \/ \E S, way : Remove(S, way)
    <3>1. ASSUME NEW h \in Handles, Register(h) \/ Break(h) \/ Delegate(h) \/ Result(h) \/ Cancel(h)
          PROVE  inflight' = inflight \/ \E S, way : Remove(S, way)
      BY <3>1 DEF Register, Break, Delegate, Result, Cancel, shared
    <3>2. ASSUME NEW h \in Handles,
                 \/ Select(h) \/ Reserve(h) \/ Forward(h) \/ Rollback(h)
                 \/ Unreserve(h) \/ Deliver(h) \/ Commit(h) \/ FreeSlot(h) \/ DropReceiver(h)
          PROVE  inflight' = inflight \/ \E S, way : Remove(S, way)
      BY <3>2 DEF Select, Reserve, Forward, Rollback, Unreserve, Deliver, Commit, FreeSlot,
                  DropReceiver
    <3>3. ASSUME NEW t \in Tasks, FailInstance(t) \/ Release(t)
          PROVE  inflight' = inflight \/ \E S, way : Remove(S, way)
      BY <3>3 DEF FailInstance, Release
    <3>4. CASE Tick \/ UNCHANGED vars \/ ExpireLease \/ SweepDeadlines
      BY <3>4 DEF Tick, vars, ExpireLease, SweepDeadlines
    <3> QED BY <1>4, <3>1, <3>2, <3>3, <3>4 DEF Next, Continue
  <2>2. \A i \in Ids : inflight'[i] \in {0, inflight[i]}
    BY <2>1 DEF Remove
  <2> QED BY <1>2, <2>2
<1> QED BY <1>3, <1>4

\* A teardown that is seeing to its work has found what was in flight for it.
DeadFits == \A t \in Handles : task[t].step \in {"failing", "gone"} =>
              \A g \in 1 .. minted : adm[g].from = t => ~Holds(g)

LEMMA TeardownComes ==
  ASSUME Typing, [Next]_vars, NEW t \in Handles, task'[t].step \in {"failing", "gone"}
  PROVE  task[t].step \in {"failing", "gone"} \/ FailInstance(t)
<1>0. Data /\ TypeOK /\ Sweeper \in Tasks /\ Handles \subseteq Tasks /\ t # Sweeper
  BY TypingGives, Counting
<1> DEFINE Known == task[t].step \in {"failing", "gone"} \/ FailInstance(t)
<1>1. ASSUME NEW u \in Tasks, \A v \in Tasks \ {u} : task'[v] = task[v],
             task'[u].step \notin {"failing", "gone"}
      PROVE  Known
  BY <1>0, <1>1
<1>2. ASSUME Tick \/ UNCHANGED vars PROVE Known
  BY <1>2 DEF Tick, vars
<1>3. ASSUME NEW h \in Handles, Register(h) \/ Break(h) \/ Result(h) \/ Cancel(h) PROVE Known
  <2>1. \/ ToIdle(h) \/ To(h, "fail", 0, 0, h, {})
        \/ \E g : To(h, "deliver", g, g, None, {}) \/ To(h, "cancelling", 0, 0, None, {g})
    BY <1>0, <1>3, LifeMoves, ResultMoves, EndingMoves
  <2> QED BY <1>0, <1>1, <2>1 DEF ToIdle, To
<1>4. ASSUME NEW h \in Handles, DropReceiver(h) PROVE Known
  <2>1. task[h].step = "failing" /\ To(h, "gone", 0, 0, None, {})
    BY <1>0, <1>4, LifeMoves
  <2> QED BY <1>0, <2>1 DEF To
<1>5. ASSUME NEW h \in Handles, Delegate(h) PROVE Known
  <2>1. PICK r \in Requests : ToSelect(h, r)
    BY <1>0, <1>5, DelegateMoves
  <2> QED BY <1>0, <1>1, <2>1 DEF ToSelect
<1>6. ASSUME NEW h \in Handles,
             \/ Select(h) \/ Reserve(h) \/ Insert(h) \/ Forward(h) \/ Rollback(h)
             \/ Unreserve(h) \/ Deliver(h) \/ Commit(h) \/ FreeSlot(h)
      PROVE  Known
  <2>1. \/ ToIdle(h) \/ Onto(h, "insert") \/ Onto(h, "forward") \/ Onto(h, "rollback")
        \/ Onto(h, "unreserve") \/ To(h, "reserve", minted + 1, 0, None, {})
        \/ Onto(h, "commit") \/ Onto(h, "free")
    BY <1>0, <1>6, SelectMoves, AdmissionMoves, ResultMoves
  <2> QED BY <1>0, <1>1, <2>1 DEF Onto, ToIdle, To
<1>7. ASSUME ExpireLease \/ SweepDeadlines PROVE Known
  <2>1. \/ To(Sweeper, "expiring", 0, 0, None, Overdue)
        \/ \E h : To(Sweeper, "fail", 0, 0, h, {})
    BY <1>0, <1>7, EndingMoves
  <2> QED BY <1>0, <1>1, <2>1 DEF To
<1>8. ASSUME NEW u \in Tasks, FailInstance(u) PROVE Known
  <2>1. ToEnding(u, "failing", task[u].victim, Touching(task[u].victim))
    BY <1>0, <1>8, FailMoves
  <2>2. \A v \in Tasks \ {u} : task'[v] = task[v]
    BY <2>1 DEF ToEnding, ToIdle, To
  <2> QED BY <1>0, <1>8, <2>2
<1>9. ASSUME NEW u \in Tasks, Release(u) PROVE Known
  <2>1. task[u].step \in Ends /\ \E B : ToEnding(u, task[u].step, task[u].victim, B)
    BY <1>0, <1>9, ReleaseMoves DEF Release, Ends
  <2>2. /\ \A v \in Tasks \ {u} : task'[v] = task[v]
        /\ task'[u].step \in {"idle", task[u].step}
    BY <2>1 DEF ToEnding, ToIdle, To
  <2> QED BY <1>0, <1>1, <2>2
<1> HIDE DEF Known
<1>10. Known
  BY <1>2, <1>3, <1>4, <1>5, <1>6, <1>7, <1>8, <1>9 DEF Next, Continue
<1> QED BY <1>10 DEF Known

LEMMA DeadStep == Typing /\ Recorded /\ DeadFits /\ [Next]_vars => DeadFits'
<1> SUFFICES ASSUME Typing, Recorded, DeadFits, [Next]_vars, NEW t \in Handles,
                    task'[t].step \in {"failing", "gone"}, NEW g \in 1 .. minted',
                    adm'[g].from = t, Holds(g)'
             PROVE  FALSE
  BY DEF DeadFits
<1>0. Data /\ TypeOK /\ Handles \subseteq Tasks /\ \A u \in Tasks : Root(u, task[u])
  BY TypingGives
<1>1. CASE g \in 1 .. minted /\ adm'[g] = adm[g] /\ Holds(g)
  <2>1. FailInstance(t)
    BY <1>1, TeardownComes DEF DeadFits
  <2>2. /\ task[t].victim = t /\ UNCHANGED <<adm, minted>>
        /\ Remove(Touching(t), "failed")
    BY <1>0, <2>1 DEF FailInstance, Root
  <2>3. g \in Touching(t) /\ Touching(t) \subseteq Live
    BY <1>1 DEF Touching, Live, Holds
  <2> QED BY <1>0, <1>1, <2>2, <2>3, RemoveHolds
<1>2. ASSUME NEW h \in Handles, Insert(h), g = task[h].g PROVE FALSE
  <2>1. task[h].step = "insert" /\ adm' = adm
    BY <1>2 DEF Insert
  <2>2. adm[g].from = h
    BY <1>0, <1>2, <2>1 DEF Root
  <2>3. task'[h].step = "forward"
    BY <1>0, <1>2, AdmissionMoves DEF Onto, To
  <2> QED BY <2>1, <2>2, <2>3
<1> QED BY <1>1, <1>2, HoldsComes

\* When the teardown of a connection is over nothing is in flight that it asked
\* for, though the sweeper may have failed its work while it was delegating more
\* (teardown in server.rs calls fail_instance whoever took the registration).
THEOREM NothingLeft == Spec => []NothingForTheDead
<1>1. Init => DeadFits
  BY DEF Init, DeadFits
<1>2. Typing /\ DeadFits => NothingForTheDead
  <2> SUFFICES ASSUME Typing, DeadFits, NEW g \in 1 .. minted, task[adm[g].from].step = "gone"
               PROVE  ~Holds(g)
    BY DEF NothingForTheDead
  <2>1. adm[g].from \in Handles
    BY TypingGives, AdmType
  <2> QED BY <2>1 DEF DeadFits
<1> QED
  BY <1>1, <1>2, TypingInit, TypingStep, RecordedInit, RecordedStep, DeadStep, PTL DEF Spec

-----------------------------------------------------------------------------
(* Slots. *)

SlotsRight(h) == active[h] = Cardinality(Holders(h)) /\ active[h] <= Max[h]

\* A slot that is about to be taken is free, and nobody was asked before it came.
SlotsFit ==
  /\ \A h \in registered : SlotsRight(h)
  /\ \A t \in Handles : task[t].step = "reserve" /\ adm[task[t].g].to \in registered =>
       active[adm[task[t].g].to] < Max[adm[task[t].g].to]
  /\ \A g \in 1 .. minted : task[adm[g].to].step # "new"

\* The usual case: no slot is taken.
LEMMA SlotsMoves ==
  ASSUME Typing, Typing', SlotsFit, NEW t \in Tasks, \A u \in Tasks \ {t} : task'[u] = task[u],
         task'[t].step \notin {"new", "reserve"}, minted' = minted, adm' = adm,
         registered' \subseteq registered,
         \A h \in registered' : active'[h] <= active[h] /\ SlotsRight(h)'
  PROVE  SlotsFit'
<1>1. /\ Data /\ Handles \subseteq Tasks /\ \A u \in Tasks : Root(u, task[u])
      /\ active \in [Handles -> Nat] /\ active' \in [Handles -> Nat] /\ registered \subseteq Handles
      /\ \A g \in 1 .. minted : adm[g].to \in Handles
  BY TypingGives, AdmType DEF Data, Typing, TypeOK
<1>2. ASSUME NEW u \in Handles, task'[u].step = "reserve", adm[task'[u].g].to \in registered'
      PROVE  active'[adm[task'[u].g].to] < Max[adm[task'[u].g].to]
  <2>1. u # t /\ task'[u] = task[u]
    BY <1>1, <1>2
  <2>2. PICK h \in registered' : h = adm[task[u].g].to
    BY <1>2, <2>1
  <2>3. active[h] < Max[h] /\ active'[h] <= active[h]
    BY <1>2, <2>1, <2>2 DEF SlotsFit
  <2>4. active[h] \in Nat /\ active'[h] \in Nat /\ Max[h] \in Nat
    BY <1>1, <2>2, Counting
  <2>5. active'[h] < Max[h]
    BY <2>3, <2>4
  <2> QED BY <2>1, <2>2, <2>5
<1>3. \A g \in 1 .. minted : task'[adm[g].to].step # "new"
  BY <1>1 DEF SlotsFit
<1> QED BY <1>2, <1>3 DEF SlotsFit

Occupies(g) == Holds(g) \/ \E t \in Tasks : Owes(t, g)

LEMMA HoldersAre == \A h : Holders(h) = {g \in 1 .. minted : adm[g].to = h /\ Occupies(g)}
BY DEF Holders, Occupies

LEMMA HoldersFinite ==
  ASSUME Data, NEW h
  PROVE  IsFiniteSet(Holders(h)) /\ Cardinality(Holders(h)) \in Nat
<1>1. minted \in Nat /\ IsFiniteSet(1 .. minted)
  BY FS_Interval DEF Data
<1>2. Holders(h) \subseteq 1 .. minted
  BY DEF Holders
<1> QED BY <1>1, <1>2, FS_Subset, FS_CardinalityType

\* What a step of t does to an admission's slot is seen in the table and in t.
LEMMA OccupiesThen ==
  ASSUME NEW t \in Tasks, \A u \in Tasks \ {t} : task'[u] = task[u], NEW g,
         Holds(g)' \/ OwesIn(task'[t], g) <=> Holds(g) \/ OwesIn(task[t], g)
  PROVE  Occupies(g)' <=> Occupies(g)
<1>1. Occupies(g) <=> \/ Holds(g) \/ OwesIn(task[t], g)
                      \/ \E u \in Tasks \ {t} : OwesIn(task[u], g)
  BY OwesIs DEF Occupies
<1>2. Occupies(g)' <=> \/ Holds(g)' \/ OwesIn(task'[t], g)
                       \/ \E u \in Tasks \ {t} : OwesIn(task'[u], g)
  BY OwesIsThen DEF Occupies
<1> QED BY <1>1, <1>2

LEMMA SlotsCalm ==
  ASSUME Typing, Typing', SlotsFit, NEW t \in Tasks, \A u \in Tasks \ {t} : task'[u] = task[u],
         task'[t].step \notin {"new", "reserve"}, minted' = minted, adm' = adm,
         registered' \subseteq registered, \A h \in registered' : active'[h] = active[h],
         \A g \in 1 .. minted :
           Holds(g)' \/ OwesIn(task'[t], g) <=> Holds(g) \/ OwesIn(task[t], g)
  PROVE  SlotsFit'
<1>1. \A g \in 1 .. minted : Occupies(g)' <=> Occupies(g)
  BY OccupiesThen
<1>2. \A h : Holders(h)' = Holders(h)
  BY <1>1, HoldersAre DEF Holders, Occupies
<1>3. active \in [Handles -> Nat] /\ registered \subseteq Handles
  BY TypingGives DEF Data
<1>4. \A h \in registered' : active'[h] <= active[h] /\ SlotsRight(h)'
  BY <1>2, <1>3 DEF SlotsFit, SlotsRight
<1> QED BY <1>4, SlotsMoves

\* The table is left alone by a task that owes nothing, before and after.
LEMMA SlotsIdle ==
  ASSUME Typing, Typing', SlotsFit, NEW t \in Tasks, \A u \in Tasks \ {t} : task'[u] = task[u],
         task'[t].step \notin {"new", "reserve", "insert", "unreserve", "free"} \cup Ends,
         task[t].step \notin {"insert", "unreserve", "free"} \cup Ends,
         UNCHANGED <<minted, adm, inflight>>,
         registered' \subseteq registered, \A h \in registered' : active'[h] = active[h]
  PROVE  SlotsFit'
<1>1. \A g \in 1 .. minted :
        Holds(g)' \/ OwesIn(task'[t], g) <=> Holds(g) \/ OwesIn(task[t], g)
  BY DEF Holds, OwesIn
<1> QED BY <1>1, SlotsCalm

\* The slot of what t takes out of the table is owed by t.
LEMMA SlotsRemove ==
  ASSUME Typing, Typing', SlotsFit, NEW t \in Tasks, \A u \in Tasks \ {t} : task'[u] = task[u],
         task'[t].step \notin {"new", "reserve"},
         task[t].step \notin {"insert", "unreserve", "free"} \cup Ends,
         NEW S, S \subseteq Live, NEW way, Remove(S, way),
         UNCHANGED <<minted, adm, registered, active>>,
         \A g : OwesIn(task'[t], g) <=> g \in S
  PROVE  SlotsFit'
<1>1. \A g \in 1 .. minted : Holds(g)' <=> Holds(g) /\ g \notin S
  BY TypingGives, RemoveHolds
<1>2. \A g \in S : Holds(g)
  BY DEF Live, Holds
<1>3. \A g \in 1 .. minted :
        Holds(g)' \/ OwesIn(task'[t], g) <=> Holds(g) \/ OwesIn(task[t], g)
  BY <1>1, <1>2 DEF OwesIn
<1> QED BY <1>3, SlotsCalm

\* A slot is given back, once.
LEMMA SlotsGiven ==
  ASSUME Typing, Typing', Recorded, SlotsFit, NEW t \in Tasks,
         \A u \in Tasks \ {t} : task'[u] = task[u], task'[t].step \notin {"new", "reserve"},
         UNCHANGED <<minted, adm, inflight, registered>>,
         NEW k, Owes(t, k), active' = Freed(adm[k].to),
         \A g : OwesIn(task'[t], g) <=> OwesIn(task[t], g) /\ g # k
  PROVE  SlotsFit'
<1>0. /\ Data /\ HowFits /\ k \in 1 .. minted /\ ~Holds(k) /\ adm[k].to \in Handles
      /\ active \in [Handles -> Nat] /\ registered \subseteq Handles
  <2>1. Data /\ HowFits
    BY TypingGives DEF Recorded
  <2>2. k \in 1 .. minted /\ ~Holds(k)
    BY <2>1, OwedIsNotHeld
  <2> QED BY <2>1, <2>2, AdmType DEF Data
<1> DEFINE to == adm[k].to
<1>1. Occupies(k) /\ ~Occupies(k)'
  <2>1. Occupies(k)
    BY DEF Occupies
  <2>2. ASSUME NEW u \in Tasks, Owes(u, k)' PROVE FALSE
    <3>1. u # t
      BY <2>2, OwesIsThen
    <3>2. Owes(u, k)
      BY <2>2, <3>1, OwesIs, OwesIsThen
    <3> QED BY <1>0, <3>1, <3>2 DEF HowFits, OwedOnce
  <2> QED BY <1>0, <2>1, <2>2 DEF Occupies, Holds
<1>2. \A g \in (1 .. minted) \ {k} : Occupies(g)' <=> Occupies(g)
  <2>1. \A g \in (1 .. minted) \ {k} :
          Holds(g)' \/ OwesIn(task'[t], g) <=> Holds(g) \/ OwesIn(task[t], g)
    BY DEF Holds
  <2> QED BY <2>1, OccupiesThen
<1>3. Holders(to)' = Holders(to) \ {k} /\ k \in Holders(to)
  <2>1. Holders(to)' = {g \in 1 .. minted : adm[g].to = adm[k].to /\ Occupies(g)'}
    BY DEF Holders, Occupies
  <2> QED BY <1>0, <1>1, <1>2, <2>1, HoldersAre
<1>4. ASSUME NEW h \in Handles, h # to PROVE Holders(h)' = Holders(h)
  <2>1. Holders(h)' = {g \in 1 .. minted : adm[g].to = h /\ Occupies(g)'}
    BY DEF Holders, Occupies
  <2> QED BY <1>2, <1>4, <2>1, HoldersAre
<1>5. ASSUME NEW h \in registered, h # to PROVE active'[h] <= active[h] /\ SlotsRight(h)'
  <2>1. active'[h] = active[h] /\ active[h] \in Nat
    BY <1>0, <1>5 DEF Freed
  <2>2. SlotsRight(h) /\ Holders(h)' = Holders(h)
    BY <1>0, <1>4, <1>5 DEF SlotsFit
  <2> QED BY <2>1, <2>2 DEF SlotsRight
<1>6. ASSUME to \in registered PROVE active'[to] <= active[to] /\ SlotsRight(to)'
  <2>1. SlotsRight(to) /\ IsFiniteSet(Holders(to)) /\ Cardinality(Holders(to)) \in Nat
    BY <1>0, <1>6, HoldersFinite DEF SlotsFit
  <2>2. /\ Cardinality(Holders(to) \ {k}) = Cardinality(Holders(to)) - 1
        /\ Cardinality(Holders(to) \ {k}) \in Nat
    BY <1>3, <2>1, FS_RemoveElement, FS_CardinalityType
  <2>3. active[to] = Cardinality(Holders(to)) /\ active[to] <= Max[to] /\ Max[to] \in Nat
    BY <1>0, <2>1, Counting DEF SlotsRight
  <2>4. active'[to] = active[to] - 1
    BY <1>0, <1>6, <2>1, <2>2, <2>3 DEF Freed
  <2>5. active'[to] = Cardinality(Holders(to)') /\ active'[to] <= Max[to] /\ active'[to] <= active[to]
    BY <1>3, <2>1, <2>2, <2>3, <2>4
  <2> QED BY <2>5 DEF SlotsRight
<1>7. \A h \in registered' : active'[h] <= active[h] /\ SlotsRight(h)'
  BY <1>5, <1>6
<1> QED BY <1>7, SlotsMoves

\* The chosen instance has a slot to spare, and the lock keeps it so.
LEMMA SlotsMinted ==
  ASSUME Typing, SlotsFit, NEW h \in Handles, task[h].step = "select",
         NEW n, n = minted + 1, minted' = n, Grows,
         NEW to \in registered, active[to] < Max[to], adm'[n].to = to, adm'[n].id \in Ids,
         UNCHANGED <<inflight, registered, active>>,
         To(h, "reserve", n, 0, None, {})
  PROVE  SlotsFit'
<1>0. /\ Data /\ minted \in Nat /\ h \in Tasks /\ Handles \subseteq Tasks
      /\ \A u \in Tasks : Root(u, task[u]) /\ Registry(u, task[u])
      /\ inflight \in [Ids -> 0 .. minted] /\ registered \subseteq Handles
  BY TypingGives DEF Data
<1>1. ASSUME NEW g \in 1 .. minted
      PROVE  adm'[g] = adm[g] /\ g # n /\ adm[g].to \in Handles
  <2>1. adm'[g] = adm[g] /\ adm[g].to \in Handles
    BY <1>0, AdmType DEF Grows
  <2> QED BY <1>0, <2>1
<1>2. /\ task'[h].step = "reserve" /\ task'[h].g = n
      /\ \A u \in Tasks \ {h} : task'[u] = task[u]
  BY DEF To
<1>3. ASSUME NEW x \in Handles PROVE Holders(x)' = Holders(x)
  <2>1. ~Occupies(n)'
    <3>1. ~Holds(n)'
      <4>1. inflight[adm'[n].id] # n
        BY <1>0
      <4> QED BY <4>1 DEF Holds
    <3>2. \A u \in Tasks : ~OwesIn(task'[u], n)
      <4>1. ~OwesIn(task'[h], n)
        BY <1>2 DEF OwesIn, Ends
      <4>2. ASSUME NEW u \in Tasks \ {h} PROVE ~OwesIn(task[u], n)
        BY <1>0, <1>1 DEF OwesIn, Root
      <4> QED BY <1>2, <4>1, <4>2
    <3> QED BY <3>1, <3>2, OwesIsThen DEF Occupies
  <2>2. ASSUME NEW g \in 1 .. minted PROVE Occupies(g)' <=> Occupies(g)
    <3>1. Holds(g)' <=> Holds(g)
      BY <1>1 DEF Holds
    <3>2. ~OwesIn(task'[h], g) /\ ~OwesIn(task[h], g)
      BY <1>2 DEF OwesIn, Ends
    <3> QED BY <1>0, <1>2, <3>1, <3>2, OccupiesThen
  <2>3. Holders(x)' = {g \in 1 .. n : adm'[g].to = x /\ Occupies(g)'}
    BY DEF Holders, Occupies
  <2>4. 1 .. n = (1 .. minted) \cup {n}
    BY <1>0
  <2>5. Holders(x)' = {g \in 1 .. minted : adm'[g].to = x /\ Occupies(g)'}
    BY <2>1, <2>3, <2>4
  <2> QED BY <1>1, <2>2, <2>5, HoldersAre
<1>4. \A x \in registered' : SlotsRight(x)'
  BY <1>0, <1>3 DEF SlotsFit, SlotsRight, Data
<1>5. ASSUME NEW u \in Handles, task'[u].step = "reserve", adm'[task'[u].g].to \in registered'
      PROVE  active'[adm'[task'[u].g].to] < Max[adm'[task'[u].g].to]
  <2>1. CASE u = h
    BY <1>2, <2>1
  <2>2. CASE u # h
    <3>1. task'[u] = task[u] /\ task[u].g \in 1 .. minted
      BY <1>0, <1>2, <1>5, <2>2 DEF Root
    <3> QED BY <1>1, <1>5, <3>1 DEF SlotsFit
  <2> QED BY <2>1, <2>2
<1>6. ASSUME NEW g \in 1 .. n PROVE task'[adm'[g].to].step # "new"
  <2>1. task[to].step # "new"
    BY <1>0 DEF Registry
  <2>2. CASE g \in 1 .. minted
    <3>1. adm'[g].to = adm[g].to /\ adm[g].to \in Tasks /\ task[adm[g].to].step # "new"
      BY <1>0, <1>1, <2>2 DEF SlotsFit
    <3> QED BY <1>2, <3>1
  <2>3. CASE g = n
    BY <1>0, <1>2, <2>1, <2>3
  <2> QED BY <1>0, <2>2, <2>3
<1> QED BY <1>4, <1>5, <1>6 DEF SlotsFit

LEMMA SlotsReserve ==
  ASSUME Typing, Typing', Recorded, SlotsFit, NEW h \in Handles, Reserve(h)
  PROVE  SlotsFit'
<1>0. /\ Data /\ HowFits /\ h \in Tasks /\ Handles \subseteq Tasks
      /\ \A u \in Tasks : Root(u, task[u]) /\ Stage(u, task[u])
      /\ active \in [Handles -> Nat] /\ registered \subseteq Handles
  BY TypingGives DEF Recorded, HowFits, Data
<1>1. /\ task[h].step = "reserve" /\ active' = Taken(adm[task[h].g].to)
      /\ UNCHANGED <<inflight, minted, adm, registered, lock>>
  BY DEF Reserve
<1>2. PICK k \in 1 .. minted : k = task[h].g /\ adm[k].from = h
  BY <1>0, <1>1 DEF Root
<1>3. /\ task'[h].step = "insert" /\ task'[h].g = k
      /\ \A u \in Tasks \ {h} : task'[u] = task[u]
  BY <1>0, <1>2, AdmissionMoves, TypingGives DEF Onto, To
<1> PICK to : to = adm[k].to
  OBVIOUS
<1>4. to \in Handles /\ k # 0
  BY <1>0, AdmType
<1>5. ~Holds(k) /\ how[k] = "none"
  BY <1>0, <1>1, <1>2, <1>4 DEF Stage, Holds
<1>6. ~Occupies(k) /\ Occupies(k)'
  <2>1. ASSUME NEW u \in Tasks, Owes(u, k) PROVE FALSE
    BY <1>0, <1>1, <1>2, <1>5, <2>1, OwedIsNotHeld
  <2>2. Owes(h, k)'
    BY <1>3, OwesIsThen DEF OwesIn
  <2> QED BY <1>0, <1>5, <2>1, <2>2 DEF Occupies
<1>7. ASSUME NEW g \in (1 .. minted) \ {k} PROVE Occupies(g)' <=> Occupies(g)
  <2>1. Holds(g)' <=> Holds(g)
    BY <1>1 DEF Holds
  <2>2. ~OwesIn(task'[h], g) /\ ~OwesIn(task[h], g)
    BY <1>1, <1>3 DEF OwesIn, Ends
  <2> QED BY <1>0, <1>3, <2>1, <2>2, OccupiesThen
<1>8. \A x : Holders(x)' = {g \in 1 .. minted : adm[g].to = x /\ Occupies(g)'}
  BY <1>1 DEF Holders, Occupies
<1>9. Holders(to)' = Holders(to) \cup {k} /\ k \notin Holders(to)
  BY <1>6, <1>7, <1>8, HoldersAre
<1>10. ASSUME NEW x \in registered, x # to PROVE SlotsRight(x)'
  <2>1. Holders(x)' = Holders(x)
    BY <1>6, <1>7, <1>8, <1>10, HoldersAre
  <2>2. active'[x] = active[x]
    BY <1>0, <1>1, <1>2, <1>10 DEF Taken
  <2> QED BY <2>1, <2>2 DEF SlotsFit, SlotsRight
<1>11. ASSUME to \in registered PROVE SlotsRight(to)'
  <2>1. SlotsRight(to) /\ active[to] < Max[to]
    BY <1>1, <1>2, <1>11 DEF SlotsFit
  <2>2. active'[to] = active[to] + 1
    BY <1>0, <1>1, <1>2, <1>4, <1>11 DEF Taken
  <2>3. Cardinality(Holders(to)') = Cardinality(Holders(to)) + 1
    BY <1>0, <1>9, HoldersFinite, FS_AddElement
  <2>4. active[to] \in Nat /\ Max[to] \in Nat
    BY <1>0, <1>4, Counting
  <2>5. active'[to] = Cardinality(Holders(to)') /\ active'[to] <= Max[to]
    BY <2>1, <2>2, <2>3, <2>4 DEF SlotsRight
  <2> QED BY <2>5 DEF SlotsRight
<1>12. \A u \in Handles : task'[u].step # "reserve"
  <2>1. lock = h
    BY <1>0, <1>1, TypingGives DEF LockFits, Locked
  <2>2. ASSUME NEW u \in Handles, u # h PROVE task[u].step # "reserve"
    BY <1>0, <2>1, <2>2, TypingGives DEF LockFits, Locked
  <2> QED BY <1>0, <1>3, <2>2
<1>13. \A g \in 1 .. minted : task'[adm[g].to].step # "new"
  <2>1. \A g \in 1 .. minted : adm[g].to \in Tasks
    BY <1>0, AdmType
  <2> QED BY <1>3, <2>1 DEF SlotsFit
<1> QED BY <1>1, <1>10, <1>11, <1>12, <1>13 DEF SlotsFit

\* A connection comes without anything to its name.
LEMMA SlotsRegister ==
  ASSUME Typing, Typing', Recorded, SlotsFit, NEW h \in Handles, Register(h)
  PROVE  SlotsFit'
<1>0. /\ Data /\ TypeOK /\ h \in Tasks /\ Handles \subseteq Tasks
      /\ \A u \in Tasks : Root(u, task[u])
      /\ active \in [Handles -> Nat] /\ registered \subseteq Handles
  BY TypingGives DEF Data
<1>1. /\ task[h].step = "new" /\ registered' = registered \cup {h}
      /\ UNCHANGED <<inflight, minted, adm, active>>
  BY DEF Register
<1>2. task'[h].step = "idle" /\ \A u \in Tasks \ {h} : task'[u] = task[u]
  BY <1>0, LifeMoves DEF ToIdle, To
<1>3. ASSUME NEW g \in 1 .. minted PROVE Occupies(g)' <=> Occupies(g)
  <2>1. Holds(g)' <=> Holds(g)
    BY <1>1 DEF Holds
  <2>2. ~OwesIn(task'[h], g) /\ ~OwesIn(task[h], g)
    BY <1>1, <1>2 DEF OwesIn, Ends
  <2> QED BY <1>0, <1>2, <2>1, <2>2, OccupiesThen
<1>4. \A x : Holders(x)' = Holders(x)
  <2>1. \A x : Holders(x)' = {g \in 1 .. minted : adm[g].to = x /\ Occupies(g)'}
    BY <1>1 DEF Holders, Occupies
  <2> QED BY <1>3, <2>1, HoldersAre
<1>5. active[h] = 0 /\ Holders(h) = {}
  <2>1. active[h] = 0
    BY <1>0, <1>1, TypingGives DEF Registry, RegistryFits
  <2> QED BY <1>1, <2>1 DEF SlotsFit, Holders
<1>6. SlotsRight(h)'
  BY <1>1, <1>4, <1>5, FS_EmptySet, Counting DEF SlotsRight
<1>7. \A x \in registered' : SlotsRight(x)'
  BY <1>1, <1>4, <1>6 DEF SlotsFit, SlotsRight
<1>8. ASSUME NEW u \in Handles, task'[u].step = "reserve", adm'[task'[u].g].to \in registered'
      PROVE  active'[adm'[task'[u].g].to] < Max[adm'[task'[u].g].to]
  <2>1. u # h /\ task'[u] = task[u] /\ task[u].g \in 1 .. minted
    BY <1>0, <1>2, <1>8 DEF Root
  <2>2. adm[task[u].g].to # h
    BY <1>1, <2>1 DEF SlotsFit
  <2> QED BY <1>1, <1>8, <2>1, <2>2 DEF SlotsFit
<1>9. \A g \in 1 .. minted : task'[adm[g].to].step # "new"
  <2>1. \A g \in 1 .. minted : adm[g].to \in Tasks
    BY <1>0, AdmType
  <2> QED BY <1>2, <2>1 DEF SlotsFit
<1> QED BY <1>1, <1>7, <1>8, <1>9 DEF SlotsFit

LEMMA SlotsAdmission ==
  ASSUME Typing, Typing', Recorded, SlotsFit, NEW h \in Handles,
         \/ Delegate(h) \/ Select(h) \/ Insert(h) \/ Forward(h) \/ Rollback(h) \/ Unreserve(h)
  PROVE  SlotsFit'
<1>0. /\ Data /\ TypeOK /\ h \in Tasks /\ Root(h, task[h]) /\ Stage(h, task[h])
  BY TypingGives DEF Recorded, HowFits
<1>1. CASE Delegate(h)
  <2>1. PICK r \in Requests : ToSelect(h, r)
    BY <1>0, <1>1, DelegateMoves
  <2>2. UNCHANGED <<inflight, minted, adm, registered, active>> /\ task[h].step = "idle"
    BY <1>1 DEF Delegate
  <2> QED BY <1>0, <2>1, <2>2, SlotsIdle DEF ToSelect, Ends
<1>2. CASE Select(h)
  <2> DEFINE r == task[h].req
  <2>1. /\ task[h].step = "select"
        /\ UNCHANGED <<inflight, registered, active>>
    BY <1>2 DEF Select
  <2>2. CASE minted' = minted /\ adm' = adm /\ ToIdle(h)
    BY <1>0, <2>1, <2>2, SlotsIdle DEF ToIdle, To, Ends
  <2>3. ASSUME NEW to \in Candidates(r), minted < MaxGen, minted' = minted + 1,
               adm' = Append(adm, [id |-> r.id, from |-> h, to |-> to,
                                   deadline |-> r.deadline, parent |-> r.parent,
                                   chain |-> Append(r.chain, NameOf[h])]),
               To(h, "reserve", minted + 1, 0, None, {})
        PROVE  SlotsFit'
    <3> DEFINE e == [id |-> r.id, from |-> h, to |-> to, deadline |-> r.deadline,
                     parent |-> r.parent, chain |-> Append(r.chain, NameOf[h])]
    <3>1. e \in Entries /\ e.to = to /\ to \in registered /\ active[to] < Max[to]
      BY <2>1, EntryTyped DEF Candidates
    <3> HIDE DEF e
    <3>2. adm' = Append(adm, e)
      BY <2>3 DEF e
    <3>3. adm'[minted'] = e /\ Grows
      BY <1>0, <2>3, <3>1, <3>2, Minted
    <3>4. PICK n : n = minted'
      OBVIOUS
    <3>5. n = minted + 1 /\ To(h, "reserve", n, 0, None, {})
      BY <2>3, <3>4
    <3>6. adm'[n].to = to /\ adm'[n].id \in Ids
      BY <3>1, <3>3, <3>4 DEF Entries
    <3> QED BY <2>1, <3>1, <3>3, <3>4, <3>5, <3>6, SlotsMinted
  <2> QED BY <1>0, <1>2, <2>2, <2>3, SelectMoves
<1>3. CASE Insert(h)
  <2> PICK k : k = task[h].g
    OBVIOUS
  <2>1. /\ task[h].step = "insert" /\ UNCHANGED <<minted, adm, registered, active>>
        /\ inflight' = [inflight EXCEPT ![adm[k].id] = k]
    BY <1>3 DEF Insert
  <2>2. /\ task'[h].step = "forward"
        /\ \A u \in Tasks \ {h} : task'[u] = task[u]
    BY <1>0, <1>3, AdmissionMoves DEF Onto, To
  <2>3. k \in 1 .. minted /\ inflight[adm[k].id] = 0
    BY <1>0, <2>1 DEF Root, Stage
  <2>4. ASSUME NEW g \in 1 .. minted
        PROVE  Holds(g)' \/ OwesIn(task'[h], g) <=> Holds(g) \/ OwesIn(task[h], g)
    <3>1. adm[g].id \in Ids /\ adm[k].id \in Ids /\ g # 0 /\ inflight \in [Ids -> 0 .. minted]
      BY <1>0, <2>3, AdmType DEF Data
    <3>2. Holds(g)' <=> Holds(g) \/ g = k
      BY <2>1, <2>3, <3>1 DEF Holds
    <3>3. OwesIn(task[h], g) <=> g = k
      BY <2>1 DEF OwesIn, Ends
    <3>4. ~OwesIn(task'[h], g)
      BY <2>2 DEF OwesIn, Ends
    <3> QED BY <3>2, <3>3, <3>4
  <2> QED BY <1>0, <2>1, <2>2, <2>4, SlotsCalm
<1>4. CASE Forward(h)
  <2>1. /\ UNCHANGED <<inflight, minted, adm, registered, active>>
        /\ task[h].step = "forward"
    BY <1>4 DEF Forward
  <2>2. /\ task'[h].step \in {"idle", "rollback"}
        /\ \A u \in Tasks \ {h} : task'[u] = task[u]
    BY <1>0, <1>4, AdmissionMoves DEF Onto, ToIdle, To
  <2> QED BY <1>0, <2>1, <2>2, SlotsIdle DEF Ends
<1>5. CASE Rollback(h)
  <2>1. UNCHANGED <<minted, adm, registered, active>> /\ task[h].step = "rollback"
    BY <1>5 DEF Rollback
  <2>2. CASE UNCHANGED <<inflight, how>> /\ ToIdle(h)
    BY <1>0, <2>1, <2>2, SlotsIdle DEF ToIdle, To, Ends
  <2>3. CASE Holds(task[h].g) /\ Remove({task[h].g}, "withdrawn") /\ Onto(h, "unreserve")
    <3>1. PICK k \in 1 .. minted : k = task[h].g
      BY <1>0, <2>1 DEF Root
    <3>2. {k} \subseteq Live /\ Remove({k}, "withdrawn")
      BY <2>3, <3>1 DEF Live, Holds
    <3>3. /\ task'[h].step = "unreserve" /\ task'[h].g = k
          /\ \A u \in Tasks \ {h} : task'[u] = task[u]
      BY <2>3, <3>1 DEF Onto, To
    <3>4. \A x : OwesIn(task'[h], x) <=> x \in {k}
      BY <3>3 DEF OwesIn, Ends
    <3> QED BY <1>0, <2>1, <3>2, <3>3, <3>4, SlotsRemove DEF Ends
  <2> QED BY <1>0, <1>5, <2>2, <2>3, AdmissionMoves
<1>6. CASE Unreserve(h)
  <2>1. /\ UNCHANGED <<inflight, minted, adm, registered>> /\ task[h].step = "unreserve"
        /\ active' = Freed(adm[task[h].g].to)
    BY <1>6 DEF Unreserve
  <2>2. task'[h].step = "idle" /\ \A u \in Tasks \ {h} : task'[u] = task[u]
    BY <1>0, <1>6, AdmissionMoves DEF ToIdle, To
  <2>3. Owes(h, task[h].g) /\ \A x : OwesIn(task'[h], x) <=> OwesIn(task[h], x) /\ x # task[h].g
    BY <2>1, <2>2, OwesIs DEF OwesIn, Ends
  <2> QED BY <1>0, <2>1, <2>2, <2>3, SlotsGiven
<1> QED BY <1>1, <1>2, <1>3, <1>4, <1>5, <1>6

LEMMA SlotsStep == Typing /\ Typing' /\ Recorded /\ SlotsFit /\ [Next]_vars => SlotsFit'
<1> SUFFICES ASSUME Typing, Typing', Recorded, SlotsFit, [Next]_vars PROVE SlotsFit'
  OBVIOUS
<1>0. /\ Data /\ TypeOK /\ minted \in Nat /\ Sweeper \in Tasks /\ Handles \subseteq Tasks
      /\ \A t \in Tasks : Root(t, task[t]) /\ Stage(t, task[t])
      /\ active \in [Handles -> Nat] /\ registered \subseteq Handles
  BY TypingGives DEF Recorded, HowFits, Data
<1>1. CASE Tick \/ UNCHANGED vars
  <2>1. UNCHANGED <<task, inflight, minted, adm, registered, active>>
    BY <1>1 DEF Tick, vars
  <2>2. \A h : Holders(h)' = Holders(h)
    BY <2>1 DEF Holders, Holds, Owes
  <2> QED BY <2>1, <2>2 DEF SlotsFit, SlotsRight
<1>2. ASSUME NEW t \in Tasks, NEW h \in Handles, Deregistered(h), task[t].step = "idle",
             To(t, "fail", 0, 0, h, {}), UNCHANGED <<inflight, minted, adm>>
      PROVE  SlotsFit'
  <2>1. registered' \subseteq registered /\ \A k \in registered' : active'[k] = active[k]
    BY <1>0, <1>2 DEF Deregistered
  <2>2. task'[t].step = "fail" /\ \A u \in Tasks \ {t} : task'[u] = task[u]
    BY <1>2 DEF To
  <2> QED BY <1>2, <2>1, <2>2, SlotsIdle DEF Ends
<1>3. ASSUME NEW h \in Handles, Break(h) PROVE SlotsFit'
  <2>1. /\ Deregistered(h) /\ task[h].step = "idle" /\ UNCHANGED <<inflight, minted, adm>>
        /\ h \in Tasks
    BY <1>0, <1>3 DEF Break
  <2>2. To(h, "fail", 0, 0, h, {})
    BY <1>0, <1>3, LifeMoves
  <2> QED BY <1>2, <2>1, <2>2
<1>4. CASE ExpireLease
  <2>1. task[Sweeper].step = "idle" /\ UNCHANGED <<inflight, minted, adm>>
    BY <1>4 DEF ExpireLease
  <2>2. PICK h \in registered : Deregistered(h) /\ To(Sweeper, "fail", 0, 0, h, {})
    BY <1>0, <1>4, EndingMoves
  <2> QED BY <1>0, <1>2, <2>1, <2>2
<1>5. ASSUME NEW h \in Handles, DropReceiver(h) PROVE SlotsFit'
  <2>1. UNCHANGED <<inflight, minted, adm, registered, active>>
    BY <1>5 DEF DropReceiver
  <2>2. /\ task[h].step = "failing" /\ task[h].batch = {}
        /\ task'[h].step = "gone" /\ \A u \in Tasks \ {h} : task'[u] = task[u]
    BY <1>0, <1>5, LifeMoves DEF To
  <2>3. \A g : ~OwesIn(task'[h], g) /\ ~OwesIn(task[h], g)
    BY <2>2 DEF OwesIn, Ends
  <2>4. \A g \in 1 .. minted :
          Holds(g)' \/ OwesIn(task'[h], g) <=> Holds(g) \/ OwesIn(task[h], g)
    BY <2>1, <2>3 DEF Holds
  <2> QED BY <1>0, <2>1, <2>2, <2>4, SlotsCalm
<1>6. ASSUME NEW h \in Handles, Result(h) \/ Deliver(h) PROVE SlotsFit'
  <2>1. /\ UNCHANGED <<inflight, minted, adm, registered, active>>
        /\ task[h].step \in {"idle", "deliver"}
    BY <1>6 DEF Result, Deliver, shared
  <2>2. \/ ToIdle(h) \/ Onto(h, "commit") \/ \E g : To(h, "deliver", g, g, None, {})
    BY <1>0, <1>6, ResultMoves
  <2>3. /\ task'[h].step \in {"idle", "commit", "deliver"}
        /\ \A u \in Tasks \ {h} : task'[u] = task[u]
    BY <2>2 DEF ToIdle, Onto, To
  <2> QED BY <1>0, <2>1, <2>3, SlotsIdle DEF Ends
<1>7. ASSUME NEW h \in Handles, Commit(h) PROVE SlotsFit'
  <2>1. UNCHANGED <<minted, adm, registered, active>> /\ task[h].step = "commit"
    BY <1>7 DEF Commit
  <2>2. CASE UNCHANGED <<inflight, how>> /\ ToIdle(h)
    BY <1>0, <2>1, <2>2, SlotsIdle DEF ToIdle, To, Ends
  <2>3. CASE Commits(h) # 0 /\ Remove({Commits(h)}, "completed") /\ Onto(h, "free")
    <3>1. PICK k \in 1 .. minted : k = task[h].g
      BY <1>0, <2>1 DEF Root
    <3>2. {k} \subseteq Live /\ Remove({k}, "completed")
      BY <2>3, <3>1 DEF Live, Commits
    <3>3. /\ task'[h].step = "free" /\ task'[h].g = k
          /\ \A u \in Tasks \ {h} : task'[u] = task[u]
      BY <2>3, <3>1 DEF Onto, To
    <3>4. \A x : OwesIn(task'[h], x) <=> x \in {k}
      BY <3>3 DEF OwesIn, Ends
    <3> QED BY <1>0, <2>1, <3>2, <3>3, <3>4, SlotsRemove DEF Ends
  <2> QED BY <1>0, <1>7, <2>2, <2>3, ResultMoves
<1>8. ASSUME NEW h \in Handles, FreeSlot(h) PROVE SlotsFit'
  <2>1. /\ UNCHANGED <<inflight, minted, adm, registered>> /\ task[h].step = "free"
        /\ active' = Freed(adm[task[h].g].to)
    BY <1>8 DEF FreeSlot
  <2>2. task'[h].step = "idle" /\ \A u \in Tasks \ {h} : task'[u] = task[u]
    BY <1>0, <1>8, ResultMoves DEF ToIdle, To
  <2>3. Owes(h, task[h].g) /\ \A x : OwesIn(task'[h], x) <=> OwesIn(task[h], x) /\ x # task[h].g
    BY <2>1, <2>2, OwesIs DEF OwesIn, Ends
  <2> QED BY <1>0, <2>1, <2>2, <2>3, SlotsGiven
<1>9. ASSUME NEW t \in Tasks, task[t].step \in {"idle", "fail"}, NEW step \in Ends, NEW victim,
             NEW S, S \subseteq Live, NEW way, Remove(S, way), ToEnding(t, step, victim, S),
             UNCHANGED <<minted, adm, registered, active>>
      PROVE  SlotsFit'
  <2>1. /\ \A u \in Tasks \ {t} : task'[u] = task[u]
        /\ \/ task'[t].step = "idle" /\ S = {}
           \/ task'[t].step = step /\ task'[t].batch = S
    BY <1>9 DEF ToEnding, ToIdle, To
  <2>2. \A x : OwesIn(task'[t], x) <=> x \in S
    BY <2>1 DEF OwesIn, Ends
  <2> QED BY <1>9, <2>1, <2>2, SlotsRemove DEF Ends
<1>10. ASSUME NEW h \in Handles, Cancel(h) PROVE SlotsFit'
  <2>1. UNCHANGED <<minted, adm, registered, active>> /\ task[h].step = "idle"
    BY <1>10 DEF Cancel
  <2>2. PICK g \in 1 .. minted : /\ Holds(g) /\ Remove({g}, "cancelled")
                                 /\ To(h, "cancelling", 0, 0, None, {g})
    BY <1>0, <1>10, EndingMoves
  <2>3. {g} \subseteq Live /\ ToEnding(h, "cancelling", None, {g}) /\ "cancelling" \in Ends
    BY <2>2 DEF Live, Holds, ToEnding, Ends
  <2> QED BY <1>0, <1>9, <2>1, <2>2, <2>3
<1>11. CASE SweepDeadlines
  <2>1. /\ UNCHANGED <<minted, adm, registered, active>> /\ task[Sweeper].step = "idle"
        /\ Remove(Overdue, "expired") /\ Overdue # {}
    BY <1>11 DEF SweepDeadlines
  <2>2. /\ ToEnding(Sweeper, "expiring", None, Overdue) /\ Overdue \subseteq Live
        /\ "expiring" \in Ends
    BY <1>0, <1>11, <2>1, EndingMoves DEF ToEnding, Overdue, Ends
  <2> QED BY <1>0, <1>9, <2>1, <2>2
<1>12. ASSUME NEW t \in Tasks, FailInstance(t) PROVE SlotsFit'
  <2> DEFINE B == Touching(task[t].victim)
  <2>1. /\ UNCHANGED <<minted, adm, registered, active>> /\ Remove(B, "failed")
        /\ task[t].step = "fail"
    BY <1>12 DEF FailInstance
  <2>2. ToEnding(t, "failing", task[t].victim, B) /\ B \subseteq Live /\ "failing" \in Ends
    BY <1>0, <1>12, FailMoves DEF Touching, Ends
  <2> HIDE DEF B
  <2> QED BY <1>0, <1>9, <2>1, <2>2
<1>13. ASSUME NEW t \in Tasks, Release(t) PROVE SlotsFit'
  <2>1. UNCHANGED <<inflight, minted, adm, registered>> /\ task[t].step \in Ends
    BY <1>13 DEF Release, Ends
  <2>2. PICK k \in task[t].batch :
          /\ active' = Freed(adm[k].to)
          /\ ToEnding(t, task[t].step, task[t].victim, task[t].batch \ {k})
    BY <1>0, <1>13, ReleaseMoves
  <2>3. /\ \A u \in Tasks \ {t} : task'[u] = task[u]
        /\ \/ task'[t].step = "idle" /\ task[t].batch \ {k} = {}
           \/ task'[t].step = task[t].step /\ task'[t].batch = task[t].batch \ {k}
    BY <2>2 DEF ToEnding, ToIdle, To
  <2>4. Owes(t, k) /\ \A x : OwesIn(task'[t], x) <=> OwesIn(task[t], x) /\ x # k
    BY <2>1, <2>2, <2>3, OwesIs DEF OwesIn, Ends
  <2>5. task'[t].step \notin {"new", "reserve"}
    BY <2>1, <2>3 DEF Ends
  <2> QED BY <1>0, <2>1, <2>2, <2>3, <2>4, <2>5, SlotsGiven
<1> QED
  BY <1>1, <1>3, <1>4, <1>5, <1>6, <1>7, <1>8, <1>10, <1>11, <1>12, <1>13,
     SlotsAdmission, SlotsReserve, SlotsRegister DEF Next, Continue

\* However an admission ends, and whoever races to end it, its slot was taken once
\* and is given back once: active_sessions of registry.rs is the number of
\* admissions that occupy a slot, and never above what the instance agreed to.
THEOREM Slots == Spec => []SlotsAreCounted
<1>1. Init => SlotsFit
  BY DEF Init, SlotsFit
<1>2. SlotsFit => SlotsAreCounted
  BY DEF SlotsFit, SlotsRight, SlotsAreCounted
<1> QED
  BY <1>1, <1>2, TypingInit, TypingStep, RecordedInit, RecordedStep, SlotsStep, PTL DEF Spec

-----------------------------------------------------------------------------
(* The promise. *)

\* The instance counts as this module does.
LEMMA SameCardinality == \A S : Promise!Cardinality(S) = Cardinality(S)
BY DEF Promise!Cardinality, Cardinality

Stands == [g \in Gens |-> Standing(g)]

\* What is open is what is in the table.
LEMMA OpenIs == ASSUME Data PROVE Promise!Open = Live
<1>1. minted \in Nat
  BY DEF Data
<1>2. ASSUME NEW g \in Gens PROVE Standing(g) = "open" <=> g \in Live
  BY <1>1, <1>2 DEF Standing, Live, Holds, Gens
<1> QED BY <1>2, LiveIs DEF Promise!Open, Promise!Gens, Gens

LEMMA StandingIs ==
  ASSUME Typing, HowFits, NEW g \in 1 .. minted
  PROVE  /\ g \in Gens
         /\ Standing(g) = IF Holds(g) THEN "open" ELSE IF how[g] = "none" THEN "none"
                          ELSE IF how[g] = "completed" THEN "completed" ELSE "ended"
         /\ Holds(g) => how[g] = "none"
<1>1. Data /\ minted \in Nat
  BY TypingGives DEF Data
<1>2. ~(g > minted)
  BY <1>1
<1> QED BY <1>1, <1>2, AdmType DEF Standing, HowFits, Unended

\* Nothing stands otherwise than it did while the table and the endings are the
\* same, though a token may have been minted.
LEMMA StandingKept ==
  ASSUME Typing, Typing', HowFits, Grows, UNCHANGED <<inflight, how>>
  PROVE  Stands' = Stands
<1>1. /\ Data /\ minted \in Nat /\ minted' \in Nat /\ inflight \in [Ids -> 0 .. minted]
      /\ adm' \in Seq(Entries) /\ Len(adm') = minted'
  BY TypingGives DEF Data, Typing, TypeOK
<1> SUFFICES ASSUME NEW g \in Gens PROVE Standing(g)' = Standing(g)
  BY DEF Stands
<1>2. CASE g \in 1 .. minted
  <2>1. adm'[g] = adm[g] /\ ~(g > minted) /\ ~(g > minted')
    BY <1>1, <1>2 DEF Grows
  <2> QED BY <2>1 DEF Standing, Holds
<1>3. CASE g \notin 1 .. minted
  <2>1. g > minted /\ how[g] = "none"
    BY <1>1, <1>3 DEF HowFits, Fresh, Gens
  <2>2. CASE g > minted'
    BY <2>1, <2>2 DEF Standing
  <2>3. CASE ~(g > minted')
    <3>1. g \in 1 .. Len(adm')
      BY <1>1, <2>3 DEF Gens
    <3>2. adm'[g] \in Entries
      BY <1>1, <3>1, ElementOfSeq
    <3>3. adm'[g].id \in Ids
      BY <3>2 DEF Entries
    <3>4. inflight'[adm'[g].id] # g
      BY <1>1, <2>1, <3>3
    <3> QED BY <2>1, <2>3, <3>4 DEF Standing, Holds
  <2> QED BY <2>2, <2>3
<1> QED BY <1>2, <1>3

\* What leaves the table is completed, or ended otherwise.
LEMMA StandingRemove ==
  ASSUME Typing, HowFits, NEW S, S \subseteq Live, NEW way, way # "none", Remove(S, way),
         adm' = adm, minted' = minted
  PROVE  Stands' = [g \in Gens |-> IF g \notin S THEN Standing(g)
                                   ELSE IF way = "completed" THEN "completed" ELSE "ended"]
<1>1. /\ \A g \in 1 .. minted : Holds(g)' <=> Holds(g) /\ g \notin S
      /\ \A g \in Gens : how'[g] = IF g \in S THEN way ELSE how[g]
  BY TypingGives, RemoveHolds
<1>2. S \subseteq 1 .. minted /\ minted \in Nat
  BY TypingGives, LiveIs DEF Data
<1> SUFFICES ASSUME NEW g \in Gens
             PROVE  Standing(g)' = IF g \notin S THEN Standing(g)
                                   ELSE IF way = "completed" THEN "completed" ELSE "ended"
  BY DEF Stands
<1>3. CASE g > minted
  <2>1. g \notin S
    BY <1>2, <1>3 DEF Gens
  <2> QED BY <1>3, <2>1 DEF Standing
<1>4. CASE ~(g > minted)
  <2>1. g \in 1 .. minted
    BY <1>2, <1>4 DEF Gens
  <2> QED BY <1>1, <1>4, <2>1 DEF Standing
<1> QED BY <1>3, <1>4

Keeps == [Promise!Next]_<<Stands, results, notices>>

\* An ending that is told to nobody yet.
LEMMA EndingKeeps ==
  ASSUME Typing, HowFits, NEW S, S \subseteq Live, NEW way, way \notin {"none", "completed"},
         Remove(S, way), adm' = adm, minted' = minted, UNCHANGED <<results, notices>>
  PROVE  Keeps
<1>1. Stands' = [g \in Gens |-> IF g \in S THEN "ended" ELSE Standing(g)]
  BY StandingRemove
<1>2. CASE S = {}
  <2>1. Stands' = Stands
    BY <1>1, <1>2 DEF Stands
  <2> QED BY <2>1 DEF Keeps
<1>3. CASE S # {}
  <2>1. S \in SUBSET Promise!Open
    BY TypingGives, OpenIs
  <2>2. Promise!End(S)
    BY <1>1, <1>3, <2>1 DEF Promise!End, Promise!Gens, Gens, Stands
  <2> QED BY <2>1, <2>2 DEF Keeps, Promise!Next
<1> QED BY <1>2, <1>3

LEMMA InsertKeeps ==
  ASSUME Typing, HowFits, NEW h \in Handles, Insert(h)
  PROVE  Keeps
<1>0. Data /\ h \in Tasks /\ Root(h, task[h]) /\ Stage(h, task[h])
  BY TypingGives DEF HowFits
<1>1. PICK k : k = task[h].g
  OBVIOUS
<1>2. /\ task[h].step = "insert" /\ minted' = minted /\ adm' = adm /\ how' = how
      /\ inflight' = [inflight EXCEPT ![adm[k].id] = k]
      /\ UNCHANGED <<results, notices>>
  BY <1>1 DEF Insert, history
<1>3. /\ k \in 1 .. minted /\ inflight[adm[k].id] = 0 /\ how[k] = "none"
      /\ Cardinality(Live) < MaxInflight
  BY <1>0, <1>1, <1>2 DEF Root, Stage
<1>4. k \in Gens /\ k # 0 /\ adm[k].id \in Ids
  BY <1>0, <1>3, AdmType
<1>5. Standing(k) = "none"
  BY <1>3, <1>4, StandingIs DEF Holds
<1>6. ASSUME NEW g \in Gens PROVE Standing(g)' = IF g = k THEN "open" ELSE Standing(g)
  <2>1. CASE g > minted
    <3>1. g # k
      BY <1>0, <1>3, <2>1 DEF Data
    <3> QED BY <1>2, <2>1, <3>1 DEF Standing
  <2>2. CASE ~(g > minted)
    <3>1. g \in 1 .. minted
      BY <1>0, <2>2 DEF Gens, Data
    <3>2. adm[g].id \in Ids /\ g # 0
      BY <1>0, <3>1, AdmType
    <3>3. inflight \in [Ids -> 0 .. minted]
      BY <1>0 DEF Data
    <3>4. Holds(g)' <=> g = k \/ Holds(g)
      BY <1>2, <1>3, <1>4, <3>2, <3>3 DEF Holds
    <3> QED BY <1>2, <2>2, <3>4 DEF Standing
  <2> QED BY <2>1, <2>2
<1>7. Stands' = [Stands EXCEPT ![k] = "open"]
  BY <1>4, <1>6 DEF Stands
<1>8. Promise!Cardinality(Promise!Open) < MaxInflight
  BY <1>0, <1>3, OpenIs, SameCardinality
<1>9. Promise!Admit(k)
  BY <1>2, <1>4, <1>5, <1>7, <1>8 DEF Promise!Admit, Stands
<1> QED BY <1>4, <1>9 DEF Keeps, Promise!Next, Promise!Gens, Gens

LEMMA DeliverKeeps ==
  ASSUME Typing, Typing', Recorded, NEW h \in Handles, Deliver(h)
  PROVE  Keeps
<1>0. /\ Data /\ TypeOK /\ HowFits /\ h \in Tasks /\ Root(h, task[h]) /\ Stage(h, task[h])
      /\ Reply(h, task[h]) /\ results \in [Gens -> Nat]
  BY TypingGives DEF Recorded, HowFits, ResultsFit, Data
<1>1. PICK k : k = task[h].g
  OBVIOUS
<1>2. task[h].step = "deliver" /\ UNCHANGED <<minted, adm, inflight, how, notices>>
  BY DEF Deliver
<1>3. /\ k \in 1 .. minted /\ task[h].echo = k /\ results[k] = 0
      /\ Holds(k) \/ how[k] # "none"
  BY <1>0, <1>1, <1>2 DEF Root, Stage, Reply
<1>4. Stands' = Stands
  BY <1>0, <1>2, SameGrows, StandingKept
<1>5. CASE results' = results
  BY <1>2, <1>4, <1>5 DEF Keeps
<1>6. CASE results' = [results EXCEPT ![task[h].echo] = @ + 1]
  <2>1. k \in Gens /\ Standing(k) \in {"open", "ended"}
    BY <1>0, <1>3, StandingIs DEF Recorded, ResultsFit
  <2>2. results' = [results EXCEPT ![k] = 1]
    BY <1>0, <1>3, <1>6, <2>1
  <2>3. Promise!Answer(k)
    BY <1>2, <1>3, <1>4, <2>1, <2>2 DEF Promise!Answer, Stands
  <2> QED BY <2>1, <2>3 DEF Keeps, Promise!Next, Promise!Gens, Gens
<1> QED BY <1>0, <1>5, <1>6, ResultMoves

LEMMA CommitKeeps ==
  ASSUME Typing, Typing', Recorded, NEW h \in Handles, Commit(h)
  PROVE  Keeps
<1>0. /\ Data /\ TypeOK /\ HowFits /\ h \in Tasks /\ Root(h, task[h]) /\ Reply(h, task[h])
  BY TypingGives DEF Recorded, HowFits, ResultsFit
<1>1. PICK k : k = task[h].g
  OBVIOUS
<1>2. task[h].step = "commit" /\ UNCHANGED <<minted, adm, results, notices>>
  BY DEF Commit
<1>3. k \in 1 .. minted /\ results[k] = 1
  BY <1>0, <1>1, <1>2 DEF Root, Reply
<1>4. CASE Commits(h) # 0 /\ Remove({Commits(h)}, "completed")
  <2>1. Commits(h) = k /\ Holds(k)
    BY <1>1, <1>4 DEF Commits, Holds
  <2>2. {k} \subseteq Live /\ Remove({k}, "completed")
    BY <1>3, <1>4, <2>1 DEF Live, Holds
  <2>3. k \in Gens /\ Standing(k) = "open"
    BY <1>0, <1>3, <2>1, StandingIs
  <2>4. Stands' = [g \in Gens |-> IF g \notin {k} THEN Standing(g)
                                  ELSE IF "completed" = "completed" THEN "completed" ELSE "ended"]
    BY <1>0, <1>2, <2>2, StandingRemove
  <2>5. Stands' = [Stands EXCEPT ![k] = "completed"]
    BY <2>3, <2>4 DEF Stands
  <2>6. Promise!Complete(k)
    BY <1>2, <1>3, <2>3, <2>5 DEF Promise!Complete, Stands
  <2> QED BY <2>3, <2>6 DEF Keeps, Promise!Next, Promise!Gens, Gens
<1>5. CASE UNCHANGED <<inflight, how>>
  <2>1. Stands' = Stands
    BY <1>0, <1>2, <1>5, SameGrows, StandingKept
  <2> QED BY <1>2, <2>1 DEF Keeps
<1> QED BY <1>0, <1>4, <1>5, ResultMoves

LEMMA ReleaseKeeps ==
  ASSUME Typing, Typing', Recorded, NEW t \in Tasks, Release(t)
  PROVE  Keeps
<1>0. /\ Data /\ TypeOK /\ HowFits /\ Root(t, task[t]) /\ Stage(t, task[t])
      /\ notices \in [Gens -> Nat]
  BY TypingGives DEF Recorded, HowFits, Data
<1>1. task[t].step \in Ends /\ UNCHANGED <<minted, adm, inflight, how, results>>
  BY DEF Release, Ends
<1>2. PICK k \in task[t].batch :
        notices' = IF TellsInitiator(t, k) /\ adm[k].from \in registered
                      THEN [notices EXCEPT ![k] = @ + 1] ELSE notices
  BY <1>0, ReleaseMoves
<1>3. Stands' = Stands
  BY <1>0, <1>1, SameGrows, StandingKept
<1>4. CASE notices' = notices
  BY <1>1, <1>3, <1>4 DEF Keeps
<1>5. CASE TellsInitiator(t, k) /\ notices' = [notices EXCEPT ![k] = @ + 1]
  <2>1. Owes(t, k) /\ k \in 1 .. minted
    BY <1>0, <1>1, OwesIs DEF OwesIn, Root
  <2>2. how[k] \in {"failed", "expired"}
    BY <1>0, <1>1, <1>5 DEF Stage, TellsInitiator, WayOf
  <2>3. notices[k] = 0
    BY <2>1 DEF Recorded, NoticesFit
  <2>4. k \in Gens /\ Standing(k) = "ended"
    BY <1>0, <2>1, <2>2, StandingIs
  <2>5. notices' = [notices EXCEPT ![k] = 1]
    BY <1>0, <1>5, <2>3, <2>4
  <2>6. Promise!Tell(k)
    BY <1>1, <1>3, <2>3, <2>4, <2>5 DEF Promise!Tell, Stands
  <2> QED BY <2>4, <2>6 DEF Keeps, Promise!Next, Promise!Gens, Gens
<1> QED BY <1>2, <1>4, <1>5

\* Every other step leaves the table alone, or takes from it for another reason.
LEMMA StepKeeps == Typing /\ Typing' /\ Recorded /\ [Next]_vars => Keeps
<1> SUFFICES ASSUME Typing, Typing', Recorded, [Next]_vars PROVE Keeps
  OBVIOUS
<1>0. /\ Data /\ TypeOK /\ HowFits /\ Grows /\ Sweeper \in Tasks /\ Handles \subseteq Tasks
  BY TypingGives, HowStep DEF Recorded, HowKept, Evolves
<1>1. ASSUME UNCHANGED <<inflight, how, results, notices>> PROVE Keeps
  <2>1. Stands' = Stands
    BY <1>0, <1>1, StandingKept
  <2> QED BY <1>1, <2>1 DEF Keeps
<1>2. CASE Tick \/ ExpireLease \/ UNCHANGED vars
  BY <1>1, <1>2 DEF Tick, ExpireLease, vars, history
<1>3. ASSUME NEW h \in Handles,
             \/ Register(h) \/ Break(h) \/ Delegate(h) \/ Result(h) \/ Select(h) \/ Reserve(h)
             \/ Forward(h) \/ Unreserve(h) \/ FreeSlot(h) \/ DropReceiver(h)
      PROVE  Keeps
  BY <1>1, <1>3 DEF Register, Break, Delegate, Result, Select, Reserve, Forward, Unreserve,
                    FreeSlot, DropReceiver, history, shared
<1>4. ASSUME NEW h \in Handles, Cancel(h) PROVE Keeps
  <2>1. UNCHANGED <<minted, adm, results, notices>>
    BY <1>4 DEF Cancel
  <2>2. PICK g \in 1 .. minted : Holds(g) /\ Remove({g}, "cancelled")
    BY <1>0, <1>4, EndingMoves
  <2>3. {g} \subseteq Live
    BY <2>2 DEF Live, Holds
  <2> QED BY <1>0, <2>1, <2>2, <2>3, EndingKeeps
<1>5. CASE SweepDeadlines
  <2>1. UNCHANGED <<minted, adm, results, notices>> /\ Remove(Overdue, "expired")
    BY <1>5 DEF SweepDeadlines
  <2>2. Overdue \subseteq Live
    BY DEF Overdue
  <2> QED BY <1>0, <2>1, <2>2, EndingKeeps
<1>6. ASSUME NEW t \in Tasks, FailInstance(t) PROVE Keeps
  <2>1. /\ UNCHANGED <<minted, adm, results, notices>>
        /\ Remove(Touching(task[t].victim), "failed")
    BY <1>6 DEF FailInstance
  <2>2. Touching(task[t].victim) \subseteq Live
    BY DEF Touching
  <2> QED BY <1>0, <2>1, <2>2, EndingKeeps
<1>7. ASSUME NEW h \in Handles, Rollback(h) PROVE Keeps
  <2>1. UNCHANGED <<minted, adm, results, notices>> /\ task[h].step = "rollback"
    BY <1>7 DEF Rollback
  <2>2. CASE Holds(task[h].g) /\ Remove({task[h].g}, "withdrawn")
    <3>1. task[h].g \in 1 .. minted
      BY <1>0, <2>1, TypingGives DEF Root
    <3>2. {task[h].g} \subseteq Live
      BY <2>2, <3>1 DEF Live, Holds
    <3> QED BY <1>0, <2>1, <2>2, <3>2, EndingKeeps
  <2>3. CASE UNCHANGED <<inflight, how>>
    BY <1>1, <2>1, <2>3
  <2> QED BY <1>0, <1>7, <2>2, <2>3, AdmissionMoves
<1> QED
  BY <1>0, <1>2, <1>3, <1>4, <1>5, <1>6, <1>7, InsertKeeps, DeliverKeeps, CommitKeeps,
     ReleaseKeeps DEF Next, Continue

LEMMA KeepsInit == Init => Promise!Init
<1> SUFFICES ASSUME Init PROVE Promise!Init
  OBVIOUS
<1>1. /\ minted = 0 /\ results = [g \in Gens |-> 0] /\ notices = [g \in Gens |-> 0]
  BY DEF Init
<1>2. ASSUME NEW g \in Gens PROVE Standing(g) = "none"
  BY <1>1 DEF Standing, Gens
<1> QED BY <1>1, <1>2 DEF Promise!Init, Promise!Gens, Gens

\* The router implements DelegationPromise: at most max_inflight_delegations are
\* open at a time, each is admitted once and ends once, the initiator is sent one
\* result at most and a completion only after it, and a notice only of an admission
\* that ended without being completed.
THEOREM Refinement == Spec => KeepsPromise
<1>1. Typing /\ Typing' /\ Recorded /\ [Next]_vars =>
        [Promise!Next]_<<[g \in Gens |-> Standing(g)], results, notices>>
  BY StepKeeps DEF Keeps, Stands
<1> QED
  BY <1>1, KeepsInit, TypingInit, TypingStep, RecordedInit, RecordedStep, PTL
     DEF Spec, KeepsPromise, Promise!Spec, Promise!vars
=============================================================================
