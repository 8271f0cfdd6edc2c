-------------------------- MODULE DelegationRouter --------------------------
(***************************************************************************)
(* The control plane through which one agent delegates work to another     *)
(* (crates/openab-cp/src/router.rs, with the registry, the policy and the  *)
(* connection tasks of server.rs that call it).                            *)
(*                                                                         *)
(* One namespace.  Others have entries and registrations of their own and  *)
(* share only the bound MaxInflight: one at work elsewhere may have a      *)
(* delegation refused here, which changes nothing.  A connection task      *)
(* handles the frames of its peer one at a time and tears itself down at   *)
(* the end; a sweeper expires leases and deadlines.  They share the table, *)
(* the registry and the admission lock, and every critical section is one  *)
(* step here.                                                              *)
(*                                                                         *)
(* An outbound queue is bounded in frames and bytes and its peer may be    *)
(* slow, so any frame may be refused; what is in a queue is not kept.      *)
(***************************************************************************)
EXTENDS Naturals, Sequences, FiniteSets

CONSTANTS
  Handles,        \* registration handles, one for each connection, never reused
  Names,          \* logical agents
  NameOf,         \* the authenticated name of each connection
  MaySend,        \* names that may initiate: primaries, and workers if allowed
  Max,            \* effective max_delegated_sessions of each handle
  Ids,            \* delegation ids, chosen by the initiator and reusable
  Selectors,      \* what a target selector matches: sets of names
  MaxGen,         \* the ceiling of the token counter
  MaxInflight,    \* max_inflight_delegations
  MaxDepth,       \* max_depth of the namespace
  MaxAhead,       \* max_deadline_secs
  Deadlines,      \* deadlines that a request may ask for
  Horizon,        \* bound: the clock stops here
  MaxLosses,      \* bound: connections that close or let their lease expire
  Sweeper, None   \* the sweeper task; no handle

ASSUME RouterAssumption ==
  /\ NameOf \in [Handles -> Names] /\ MaySend \subseteq Names
  /\ Max \in [Handles -> Nat]
  /\ Selectors \subseteq SUBSET Names /\ Deadlines \subseteq Nat
  /\ {MaxGen, MaxInflight, MaxDepth, MaxAhead, Horizon, MaxLosses} \subseteq Nat
  /\ Sweeper \notin Handles /\ None \notin Handles \cup {Sweeper}

Tasks == Handles \cup {Sweeper}
Gens  == 1 .. MaxGen

VARIABLES
  registered,   \* handles in the registry
  listening,    \* handles whose outbound queue still has its receiver
  active,       \* active_sessions, 0 once deregistered
  inflight,     \* the table: the admission that holds an id, 0 for none
  minted,       \* the last admission token
  adm,          \* the InFlight entry of each admission; it never changes
  lock,         \* who holds the admission lock
  task,         \* what each task is doing
  now,          \* the clock
  forwarded,    \* history: admissions whose cp/delegate was queued
  results,      \* history: cp/delegate_result frames queued, by their token
  notices,      \* history: synthesized timeout and target_disconnected frames
  cancels,      \* history: admissions whose cp/cancel was queued
  asked,        \* history: admissions that a cp/cancel of the initiator named
  how           \* history: how each admission left the table

shared == <<registered, listening, active, inflight, minted, adm, lock, now>>
history == <<forwarded, results, notices, cancels, asked, how>>
vars == <<registered, listening, active, inflight, minted, adm, lock,
          task, now, forwarded, results, notices, cancels, asked, how>>
-----------------------------------------------------------------------------
Chains == Seq(Names)

\* An entry of the table; parent is the token the initiator named, 0 for a root.
Entries == [id : Ids, from : Handles, to : Handles, deadline : Nat, chain : Chains,
            parent : 0 .. MaxGen]

\* A request past the duplicate check: at is when it came in, limit the
\* deadline of its parent.
Requests == [id : Ids, want : SUBSET Names, deadline : Nat, at : Nat,
             parent : 0 .. MaxGen, chain : Chains, limit : Nat]

Steps == {"new", "idle", "select", "reserve", "insert", "forward", "rollback",
          "unreserve", "deliver", "commit", "free", "cancelling", "fail",
          "failing", "expiring", "gone"}

Doing(step) == [step |-> step, g |-> 0, echo |-> 0, victim |-> None,
                batch |-> {}]

\* Entries have been taken out of the table and are to be seen to; only the
\* teardown of a connection has anything to do after that.
Ending(t, step, victim, batch) ==
  IF batch = {} /\ victim # t THEN Doing("idle")
  ELSE [Doing(step) EXCEPT !.victim = victim, !.batch = batch]

Live == {g \in 1 .. minted : inflight[adm[g].id] = g}

Init == /\ registered = {} /\ listening = {}
        /\ active = [h \in Handles |-> 0]
        /\ inflight = [i \in Ids |-> 0]
        /\ minted = 0 /\ adm = <<>>
        /\ lock = None
        /\ task = [t \in Tasks |-> IF t = Sweeper THEN Doing("idle") ELSE Doing("new")]
        /\ now = 0
        /\ forwarded = {} /\ cancels = {} /\ asked = {}
        /\ results = [g \in Gens |-> 0] /\ notices = [g \in Gens |-> 0]
        /\ how = [g \in Gens |-> "none"]

Goes(t, what) == task' = [task EXCEPT ![t] = what]

\* adjust_sessions: a handle that has left the registry is not touched.
Taken(h) == IF h \in registered THEN [active EXCEPT ![h] = @ + 1] ELSE active
Freed(h) == IF h \in registered /\ active[h] > 0 THEN [active EXCEPT ![h] = @ - 1]
            ELSE active

\* The table without S, whose admissions ended in that way.
Remove(S, way) ==
  /\ inflight' = [i \in Ids |-> IF inflight[i] \in S THEN 0 ELSE inflight[i]]
  /\ how' = [g \in Gens |-> IF g \in S THEN way ELSE how[g]]
-----------------------------------------------------------------------------
(* Connections. *)

\* register_conn, after the handshake
Register(h) ==
  /\ task[h].step = "new"
  /\ registered' = registered \cup {h} /\ listening' = listening \cup {h}
  /\ Goes(h, Doing("idle"))
  /\ UNCHANGED <<active, inflight, minted, adm, lock, now, history>>

Deregistered(h) == /\ registered' = registered \ {h}
                   /\ active' = [active EXCEPT ![h] = 0]

Lost == {h \in Handles : task[h].step # "new"} \ registered

\* Mutated form of Break: the registration is left to the lease.
BreakKeepsRegistration(h) ==
  /\ task[h].step = "idle"
  /\ Goes(h, [Doing("fail") EXCEPT !.victim = h])
  /\ UNCHANGED <<registered, listening, active, inflight, minted, adm, lock, now, history>>

\* The peer went away, a write failed, or the task saw that it was asked to
\* close: teardown begins.
Break(h) ==
  /\ task[h].step = "idle"
  /\ h \in registered => Cardinality(Lost) < MaxLosses
  /\ Deregistered(h)
  /\ Goes(h, [Doing("fail") EXCEPT !.victim = h])
  /\ UNCHANGED <<listening, inflight, minted, adm, lock, now, history>>
-----------------------------------------------------------------------------
(* cp/delegate, on the initiator's connection, under the admission lock. *)

\* Mutated form of Parent: whatever holds the parent's id now will do.
ParentById(h, p) == LET e == inflight[adm[p].id]
                    IN  IF e # 0 /\ adm[e].to = h THEN e ELSE 0

\* The entry a child extends: the caller serves it, under the token it names.
Parent(h, p) == LET e == inflight[adm[p].id]
                IN  IF e # 0 /\ adm[e].to = h /\ e = p THEN e ELSE 0

Request(id, want, deadline, p, e) ==
  [id |-> id, want |-> want, deadline |-> deadline, at |-> now, parent |-> p,
   chain |-> IF e = 0 THEN <<>> ELSE adm[e].chain,
   limit |-> IF e = 0 THEN deadline ELSE adm[e].deadline]

\* The frame is read, the lock taken and the table consulted.  The reads of the
\* table are one step: under the lock it can only shrink between them.
Delegate(h) ==
  /\ h \in registered /\ task[h].step = "idle" /\ lock = None
  /\ Cardinality(Live) < MaxInflight
  /\ \E id \in Ids, want \in Selectors, deadline \in Deadlines,
        p \in {0} \cup {g \in forwarded : adm[g].to = h} :
       /\ inflight[id] = 0
       /\ p # 0 => Parent(h, p) # 0
       /\ Goes(h, [step |-> "select",
                   req |-> Request(id, want, deadline, p, IF p = 0 THEN 0 ELSE Parent(h, p))])
  /\ lock' = h
  /\ UNCHANGED <<registered, listening, active, inflight, minted, adm, now,
                 history>>

InChain(name, chain) == \E i \in 1 .. Len(chain) : chain[i] = name

\* policy::check
Allowed(h, to, r) ==
  /\ NameOf[h] \in MaySend
  /\ Len(r.chain) + 1 <= MaxDepth
  /\ NameOf[to] # NameOf[h] /\ ~InChain(NameOf[to], r.chain)
  /\ r.at < r.deadline /\ r.deadline - r.at <= MaxAhead /\ r.deadline <= r.limit

\* Registry::select; which of the unsaturated matches is preferred is left open.
Candidates(r) == {to \in registered : NameOf[to] \in r.want /\ active[to] < Max[to]}

\* Select, check the policy and mint the token; or refuse.
Select(h) ==
  /\ task[h].step = "select"
  /\ LET r == task[h].req IN
     \/ \E to \in Candidates(r) :
          /\ Allowed(h, to, r) /\ minted < MaxGen
          /\ minted' = minted + 1
          /\ adm' = Append(adm, [id |-> r.id, from |-> h, to |-> to,
                                 deadline |-> r.deadline, parent |-> r.parent,
                                 chain |-> Append(r.chain, NameOf[h])])
          /\ Goes(h, [Doing("reserve") EXCEPT !.g = minted + 1])
          /\ UNCHANGED lock
     \/ /\ \/ Candidates(r) = {} \/ minted = MaxGen
           \/ \E to \in Candidates(r) : ~Allowed(h, to, r)
        /\ lock' = None /\ Goes(h, Doing("idle"))
        /\ UNCHANGED <<minted, adm>>
  /\ UNCHANGED <<registered, listening, active, inflight, now, history>>

Reserve(h) ==
  /\ task[h].step = "reserve"
  /\ active' = Taken(adm[task[h].g].to)
  /\ Goes(h, [task[h] EXCEPT !.step = "insert"])
  /\ UNCHANGED <<registered, listening, inflight, minted, adm, lock, now, history>>

Insert(h) ==
  /\ task[h].step = "insert"
  /\ inflight' = [inflight EXCEPT ![adm[task[h].g].id] = task[h].g]
  /\ Goes(h, [task[h] EXCEPT !.step = "forward"])
  /\ UNCHANGED <<registered, listening, active, minted, adm, lock, now, history>>

\* The frame goes through the sender cloned by select: the target may have left
\* the registry, and is refused only once its receiver is gone.
Forward(h) ==
  /\ task[h].step = "forward"
  /\ \/ /\ adm[task[h].g].to \in listening
        /\ forwarded' = forwarded \cup {task[h].g}
        /\ lock' = None /\ Goes(h, Doing("idle"))
     \/ /\ Goes(h, [task[h] EXCEPT !.step = "rollback"])
        /\ UNCHANGED <<forwarded, lock>>
  /\ UNCHANGED <<registered, listening, active, inflight, minted, adm, now,
                 results, notices, cancels, asked, how>>

Holds(g) == inflight[adm[g].id] = g

\* Mutated form of Rollback: the slot is given back whoever took the entry.
RollbackAlways(h) ==
  /\ task[h].step = "rollback"
  /\ Remove({task[h].g} \cap Live, "withdrawn")
  /\ Goes(h, [task[h] EXCEPT !.step = "unreserve"])
  /\ UNCHANGED <<registered, listening, active, minted, adm, lock, now,
                 forwarded, results, notices, cancels, asked>>

\* remove_generation
Rollback(h) ==
  /\ task[h].step = "rollback"
  /\ \/ /\ Holds(task[h].g)
        /\ Remove({task[h].g}, "withdrawn")
        /\ Goes(h, [task[h] EXCEPT !.step = "unreserve"])
        /\ UNCHANGED lock
     \/ /\ ~Holds(task[h].g)
        /\ lock' = None /\ Goes(h, Doing("idle"))
        /\ UNCHANGED <<inflight, how>>
  /\ UNCHANGED <<registered, listening, active, minted, adm, now,
                 forwarded, results, notices, cancels, asked>>

Unreserve(h) ==
  /\ task[h].step = "unreserve"
  /\ active' = Freed(adm[task[h].g].to)
  /\ lock' = None /\ Goes(h, Doing("idle"))
  /\ UNCHANGED <<registered, listening, inflight, minted, adm, now, history>>
-----------------------------------------------------------------------------
(* cp/delegate_result, on the connection of the serving instance. *)

\* Mutated form of Serving: the echoed token is not compared.
ServingById(h, g) == LET e == inflight[adm[g].id] IN e # 0 /\ adm[e].to = h

\* peek_for_completion; the caller may echo any token it was ever sent.
Serving(h, g) == LET e == inflight[adm[g].id] IN e # 0 /\ adm[e].to = h /\ e = g

Result(h) ==
  /\ h \in registered /\ task[h].step = "idle"
  /\ \E g \in {x \in forwarded : adm[x].to = h} :
       /\ Serving(h, g)
       /\ Goes(h, [Doing("deliver") EXCEPT !.g = inflight[adm[g].id], !.echo = g])
  /\ UNCHANGED <<shared, history>>

\* The frame is queued before anything is ended.  The entry stays if the initiator
\* is gone, and if it cannot take the frame, when it is asked to close.
Deliver(h) ==
  /\ task[h].step = "deliver"
  /\ LET from == adm[task[h].g].from IN
     \/ Goes(h, Doing("idle")) /\ UNCHANGED results
     \/ /\ from \in registered
        /\ results' = [results EXCEPT ![task[h].echo] = @ + 1]
        /\ Goes(h, [task[h] EXCEPT !.step = "commit"])
  /\ UNCHANGED <<registered, listening, active, inflight, minted, adm, lock, now,
                 forwarded, notices, cancels, asked, how>>

\* Mutated form of Commits: the entry of that id is ended, of whatever token.
CommitsById(h) == LET e == inflight[adm[task[h].g].id]
                  IN  IF e # 0 /\ adm[e].to = h THEN e ELSE 0

\* The entry that a commit ends: the admission that was peeked, or none.
Commits(h) == LET e == inflight[adm[task[h].g].id]
              IN  IF e # 0 /\ adm[e].to = h /\ e = task[h].g THEN e ELSE 0

\* commit_completion
Commit(h) ==
  /\ task[h].step = "commit"
  /\ \/ /\ Commits(h) # 0
        /\ Remove({Commits(h)}, "completed")
        /\ Goes(h, [task[h] EXCEPT !.step = "free"])
     \/ /\ Commits(h) = 0
        /\ Goes(h, Doing("idle"))
        /\ UNCHANGED <<inflight, how>>
  /\ UNCHANGED <<registered, listening, active, minted, adm, lock, now,
                 forwarded, results, notices, cancels, asked>>

FreeSlot(h) ==
  /\ task[h].step = "free"
  /\ active' = Freed(adm[task[h].g].to)
  /\ Goes(h, Doing("idle"))
  /\ UNCHANGED <<registered, listening, inflight, minted, adm, lock, now, history>>
-----------------------------------------------------------------------------
(* The other endings: cp/cancel, a disconnect, a deadline. *)

\* Mutated form of Claimed: the named token is not compared.
ClaimedById(h, g) == LET e == inflight[adm[g].id]
                     IN  IF e # 0 /\ adm[e].from = h THEN e ELSE 0

\* claim: the caller initiated it, and names its live admission.
Claimed(h, g) == LET e == inflight[adm[g].id]
                 IN  IF e # 0 /\ adm[e].from = h /\ e = g THEN e ELSE 0

\* cp/cancel; the caller may name any token it was ever given.
Cancel(h) ==
  /\ h \in registered /\ task[h].step = "idle"
  /\ \E g \in {x \in forwarded : adm[x].from = h} :
       /\ Claimed(h, g) # 0
       /\ Remove({Claimed(h, g)}, "cancelled")
       /\ asked' = asked \cup {g}
       /\ Goes(h, Ending(h, "cancelling", None, {Claimed(h, g)}))
  /\ UNCHANGED <<registered, listening, active, minted, adm, lock, now,
                 forwarded, results, notices, cancels>>

\* sweep_leases: an instance that has not sent a heartbeat for the lease's length
\* is asked to close and loses its registration.
ExpireLease ==
  /\ task[Sweeper].step = "idle" /\ Cardinality(Lost) < MaxLosses
  /\ \E h \in registered :
       /\ Deregistered(h)
       /\ Goes(Sweeper, [Doing("fail") EXCEPT !.victim = h])
  /\ UNCHANGED <<listening, inflight, minted, adm, lock, now, history>>

\* Mutated form of Touching: only what the instance served is failed.
ServedBy(h) == {g \in Live : adm[g].to = h}

Touching(h) == {g \in Live : adm[g].to = h \/ adm[g].from = h}

\* fail_instance, after the registry entry has gone: the slots of what the
\* instance served went with it.
FailInstance(t) ==
  /\ task[t].step = "fail"
  /\ Remove(Touching(task[t].victim), "failed")
  /\ Goes(t, Ending(t, "failing", task[t].victim, Touching(task[t].victim)))
  /\ UNCHANGED <<registered, listening, active, minted, adm, lock, now,
                 forwarded, results, notices, cancels, asked>>

\* Mutated form of Overdue: an instance that is gone is not looked after.
OverdueAndServed == {g \in Live : adm[g].deadline <= now /\ adm[g].to \in registered}

Overdue == {g \in Live : adm[g].deadline <= now}

\* sweep_deadlines
SweepDeadlines ==
  /\ task[Sweeper].step = "idle" /\ Overdue # {}
  /\ Remove(Overdue, "expired")
  /\ Goes(Sweeper, Ending(Sweeper, "expiring", None, Overdue))
  /\ UNCHANGED <<registered, listening, active, minted, adm, lock, now,
                 forwarded, results, notices, cancels, asked>>

\* Who hears of an ended admission.
TellsInitiator(t, g) ==
  \/ task[t].step = "expiring"
  \/ task[t].step = "failing" /\ adm[g].to = task[t].victim
TellsTarget(t, g) ==
  task[t].step # "failing" \/ adm[g].to # task[t].victim

\* The ended admissions are seen to one by one: the slot is given back and the
\* frames are queued.  (The code queues the frames of a whole pass after it; it
\* does not look at whether a queue takes them, and neither does the model.)
Release(t) ==
  /\ task[t].step \in {"cancelling", "failing", "expiring"}
  /\ \E g \in task[t].batch :
       /\ active' = Freed(adm[g].to)
       /\ notices' = IF TellsInitiator(t, g) /\ adm[g].from \in registered
                        THEN [notices EXCEPT ![g] = @ + 1] ELSE notices
       /\ cancels' = IF TellsTarget(t, g) /\ adm[g].to \in registered
                        THEN cancels \cup {g} ELSE cancels
       /\ Goes(t, Ending(t, task[t].step, task[t].victim, task[t].batch \ {g}))
  /\ UNCHANGED <<registered, listening, inflight, minted, adm, lock, now,
                 forwarded, results, asked, how>>

\* The end of teardown drops the receiver, and the task is gone.
DropReceiver(h) ==
  /\ task[h] = Ending(h, "failing", h, {})
  /\ listening' = listening \ {h} /\ Goes(h, Doing("gone"))
  /\ UNCHANGED <<registered, active, inflight, minted, adm, lock, now, history>>
-----------------------------------------------------------------------------
Tick == /\ now < Horizon /\ now' = now + 1
        /\ UNCHANGED <<registered, listening, active, inflight, minted, adm,
                       lock, task, history>>

\* What a task goes on with once it has begun.
Continue(t) ==
  \/ /\ t \in Handles
     /\ \/ Select(t) \/ Reserve(t) \/ Insert(t) \/ Forward(t) \/ Rollback(t)
        \/ Unreserve(t) \/ Deliver(t) \/ Commit(t) \/ FreeSlot(t) \/ DropReceiver(t)
  \/ FailInstance(t) \/ Release(t)

Next == \/ \E h \in Handles : \/ Register(h) \/ Break(h) \/ Delegate(h)
                              \/ Result(h) \/ Cancel(h)
        \/ ExpireLease \/ SweepDeadlines \/ Tick
        \/ \E t \in Tasks : Continue(t)

Spec == Init /\ [][Next]_vars

\* Frames are handled without awaiting anything, the sweeper ticks every second,
\* and clocks advance.  No peer has to send a frame or to keep its connection.
FairSpec == /\ Spec
            /\ WF_vars(Tick) /\ WF_vars(SweepDeadlines)
            /\ \A t \in Tasks : WF_vars(Continue(t))

-----------------------------------------------------------------------------
Doings == [step : Steps \ {"select"}, g : 0 .. MaxGen, echo : 0 .. MaxGen,
           victim : Handles \cup {None}, batch : SUBSET Gens]

\* The types, and who may be inside the admission lock.
TypeOK ==
  /\ registered \subseteq listening /\ listening \subseteq Handles
  /\ active \in [Handles -> Nat]
  /\ inflight \in [Ids -> 0 .. minted]
  /\ minted \in 0 .. MaxGen
  /\ adm \in Seq(Entries) /\ Len(adm) = minted
  /\ now \in 0 .. Horizon
  /\ task \in [Tasks -> Doings \cup [step : {"select"}, req : Requests]]
  /\ {forwarded, cancels, asked} \subseteq SUBSET (1 .. minted)
  /\ results \in [Gens -> Nat] /\ notices \in [Gens -> Nat]
  /\ how \in [Gens -> {"none", "withdrawn", "completed", "cancelled", "failed", "expired"}]
  /\ lock \in Handles \cup {None}
  /\ \A t \in Tasks : task[t].step \in {"select", "reserve", "insert", "forward",
                                      "rollback", "unreserve"} <=> lock = t

\* t has reserved the slot of g and not yet recorded it, or has ended g and not
\* yet given its slot back.
Owes(t, g) ==
  \/ task[t].step \in {"insert", "unreserve", "free"} /\ task[t].g = g
  \/ task[t].step \in {"cancelling", "failing", "expiring"} /\ g \in task[t].batch

\* The admissions that occupy a slot of h.
Holders(h) == {g \in 1 .. minted :
                 adm[g].to = h /\ (Holds(g) \/ \E t \in Tasks : Owes(t, g))}

\* However an admission ends, and whoever races to end it, its slot is taken
\* once and given back once: the counter that routing trusts is the truth, and
\* no instance serves more than it agreed to.
SlotsAreCounted ==
  \A h \in registered : /\ active[h] = Cardinality(Holders(h))
                        /\ active[h] <= Max[h]

\* An admission is ended only for its own reason, whatever becomes of its id: by
\* its own result, by a cancel that named it, by its own deadline.
EndsAreTrue ==
  \A g \in 1 .. minted :
    /\ how[g] = "completed" => results[g] = 1
    /\ how[g] = "cancelled" => g \in asked
    /\ how[g] = "expired" => adm[g].deadline <= now
    /\ g \in cancels => how[g] \in {"cancelled", "failed", "expired"}

\* The initiator hears at most one result and one synthesized ending for a token
\* (of which it takes the first), and none for an admission that it cancelled.
TerminalOnce ==
  \A g \in Gens : /\ results[g] <= 1 /\ notices[g] <= 1
                  /\ notices[g] = 1 => how[g] \in {"failed", "expired"}

\* The chain and the budget of a child are those of the very admission it was
\* asked under, though its parent's id may have been admitted again since; and
\* so no agent is ever asked to work for itself.
AncestryIsGenuine ==
  \A g \in 1 .. minted :
    LET p == adm[g].parent IN
    /\ p # 0 => /\ p < g /\ adm[p].to = adm[g].from
                /\ adm[g].deadline <= adm[p].deadline
    /\ adm[g].chain = Append(IF p = 0 THEN <<>> ELSE adm[p].chain, NameOf[adm[g].from])
    /\ ~InChain(NameOf[adm[g].to], adm[g].chain) /\ Len(adm[g].chain) <= MaxDepth

\* When the teardown of an initiator is over, nothing is in flight for it, though
\* the sweeper may have failed its work while it was delegating more.
NothingForTheDead ==
  \A g \in 1 .. minted : task[adm[g].from].step = "gone" => ~Holds(g)

\* Every admission ends and gives its slot back, whatever becomes of its
\* initiator, of its target and of their frames.
Settles ==
  \A g \in Gens : minted >= g ~> /\ minted >= g /\ ~Holds(g)
                                 /\ \A t \in Tasks : ~Owes(t, g)

-----------------------------------------------------------------------------
(* Said of the code, and not so. *)

\* What the module documentation of router.rs says: delegations on an instance
\* that disconnects fail immediately.
DisconnectFails ==
  \A g \in 1 .. minted :
    task[adm[g].to].step = "gone" /\ lock = None => ~Holds(g)

-----------------------------------------------------------------------------
Standing(g) == IF g > minted THEN "none"
               ELSE IF Holds(g) THEN "open"
               ELSE IF how[g] = "none" THEN "none"
               ELSE IF how[g] = "completed" THEN "completed" ELSE "ended"

Promise == INSTANCE DelegationPromise
             WITH standing <- [g \in Gens |-> Standing(g)],
                  result <- results, notice <- notices

\* The router implements the promise.
KeepsPromise == Promise!Spec
=============================================================================
