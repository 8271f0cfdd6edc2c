------------------------- MODULE SessionPoolProofs -------------------------
(***************************************************************************)
(* For any number of threads, callers and slots: the pool's reservations   *)
(* and its capacity, the exclusion of creations, prompts and evictions,    *)
(* and what can be resumed after a crash.                                  *)
(***************************************************************************)
EXTENDS SessionPool, FiniteSetTheorems, TLAPS

Tasks == [step : Steps, key : Keys, conn : Sessions, saved : Sessions]

\* A caller that creates for a thread holds the thread's gate.
GatesHeld == \A a \in Callers :
  /\ task[a].step \in {"look", "reserve", "spawn", "insert"}
  /\ task[a].key \notin Native
  => gate[task[a].key] = a

InPrompt == {"enter", "running", "release"}

\* A caller with a connection claimed has set its phase; within a running prompt
\* or question it has the mutex.
ClaimsHeld == \A a \in Callers :
  /\ task[a].step \in InPrompt => task[a].conn # 0 /\ phase[task[a].conn] = "busy"
  /\ task[a].step \in {"claim", "asking", "asked", "look", "insert"} => task[a].conn # 0
  /\ task[a].step \in {"running", "asked"} => mutex[task[a].conn] = a

\* Only connections that were spawned are anywhere; the others are idle.
Spawned ==
  /\ \A k \in Keys : active[k] <= Len(sid)
  /\ \A a \in Callers : task[a].conn <= Len(sid)
  /\ \A c \in Conns : c > Len(sid) => phase[c] = "idle"

\* A new connection is its creator's alone until it is in the pool, and a
\* connection is in the pool under one key.
NewIsOwn == \A a \in Callers : task[a].step = "insert" =>
  /\ phase[task[a].conn] = "idle"
  /\ \A k \in Keys : active[k] # task[a].conn
  /\ \A b \in Callers : task[b].conn = task[a].conn => a = b

OneKey == \A k, l \in Keys : active[k] = active[l] /\ active[k] # 0 => k = l

\* A connection being evicted is in the pool no longer.
EvictedIsOut == \A c \in Conns, k \in Keys : phase[c] = "evicting" => active[k] # c

ConnsFit == ClaimsHeld /\ OnePrompt /\ Spawned /\ NewIsOwn /\ OneKey /\ EvictedIsOut

\* A caller that creates for a thread has, to load, nothing or what the thread
\* last had; the connection it has made is in that session or in one that nobody
\* has had.  For a native dispatch there is nothing to load.
InCreation == {"look", "reserve", "spawn", "insert"}

IsNew(c) == sid[c] = c /\ \A l \in Keys : latest[l] # c

OwnSession(a) ==
  LET t == task[a] IN
  t.step \in InCreation =>
    /\ t.saved = 0 \/ (t.key \notin Native /\ t.saved = latest[t.key])
    /\ t.step = "look" => t.key \notin Native /\ sid[t.conn] = latest[t.key]
    /\ t.step = "insert" =>
         IsNew(t.conn) \/ (t.key \notin Native /\ sid[t.conn] = latest[t.key])

\* No two threads last had the same session, and the one in the pool is the last.
Owners ==
  /\ \A k \in Keys : latest[k] <= Len(sid)
  /\ \A k, l \in Keys : k # l => latest[k] = 0 \/ latest[k] # latest[l]
  /\ \A k \in Keys : active[k] # 0 => sid[active[k]] = latest[k]
  /\ \A a \in Callers : OwnSession(a)

\* The inductive invariant.
IInv == TypeOK /\ CapacityHolds /\ GatesHeld /\ ConnsFit /\ LiveIsResumable /\ Owners
-----------------------------------------------------------------------------
(* What the shapes of the steps give. *)

LEMMA IdleIsTask == Idle \in Tasks /\ Idle.step = "idle" /\ Idle.conn = 0
  BY PoolAssumption DEF Idle, Doing, Tasks, Steps, Sessions

\* The reservations are finitely many, and one that is held is counted.
LEMMA ReservationCounts ==
  ASSUME TypeOK, CapacityHolds
  PROVE  /\ IsFiniteSet(Reserving) /\ IsFiniteSet(Live)
         /\ Cardinality(Reserving) \in Nat /\ Cardinality(Live) \in Nat
         /\ \A a \in Reserving : outstanding >= 1
<1>1. IsFiniteSet(Reserving) /\ IsFiniteSet(Live)
  BY PoolAssumption, FS_Subset DEF Reserving, Live
<1>2. Cardinality(Reserving) \in Nat /\ Cardinality(Live) \in Nat
  BY <1>1, FS_CardinalityType
<1>3. ASSUME NEW a \in Reserving PROVE outstanding >= 1
  <2>1. Cardinality(Reserving) # 0
    BY <1>1, FS_EmptySet, <1>3
  <2> QED BY <2>1, <1>2 DEF CapacityHolds
<1> QED BY <1>1, <1>2, <1>3

\* Fewer sessions in the pool, or one more or less.
LEMMA LiveShrinks ==
  ASSUME TypeOK, CapacityHolds, Live' \subseteq Live
  PROVE  Cardinality(Live') \in Nat /\ Cardinality(Live') <= Cardinality(Live)
BY ReservationCounts, FS_Subset, FS_CardinalityType

LEMMA LiveGrows ==
  ASSUME TypeOK, CapacityHolds, NEW k, Live' \subseteq Live \cup {k}
  PROVE  Cardinality(Live') \in Nat /\ Cardinality(Live') <= Cardinality(Live) + 1
<1>1. IsFiniteSet(Live \cup {k}) /\ Cardinality(Live \cup {k}) <= Cardinality(Live) + 1
  BY ReservationCounts, FS_AddElement
<1>2. Live' \in SUBSET (Live \cup {k})
  OBVIOUS
<1>3. /\ IsFiniteSet(Live') /\ Cardinality(Live') <= Cardinality(Live \cup {k})
  BY <1>1, <1>2, FS_Subset
<1> QED BY <1>1, <1>3, FS_CardinalityType, ReservationCounts

\* A step that takes a slot: there was room, or a session made it.
LEMMA SlotTaken ==
  ASSUME TypeOK, CapacityHolds, NEW a \in Callers, a \notin Reserving,
         Reserving' = Reserving \cup {a}, outstanding' = outstanding + 1,
         \/ Live' = Live /\ Room
         \/ \E k \in Live : Live' = Live \ {k}
  PROVE  CapacityHolds'
<1>1. Cardinality(Reserving') = Cardinality(Reserving) + 1
  BY ReservationCounts, FS_AddElement
<1>2. CASE Live' = Live /\ Room
  BY <1>1, <1>2, PoolAssumption, ReservationCounts DEF CapacityHolds, Room, TypeOK
<1>3. CASE \E k \in Live : Live' = Live \ {k}
  <2>1. PICK k \in Live : Live' = Live \ {k}
    BY <1>3
  <2>2. Cardinality(Live') = Cardinality(Live) - 1
    BY <2>1, ReservationCounts, FS_RemoveElement
  <2> QED BY <1>1, <2>2, PoolAssumption, ReservationCounts DEF CapacityHolds, TypeOK
<1> QED BY <1>2, <1>3

\* A step that gives a slot back, or puts a connection in it.
LEMMA SlotGiven ==
  ASSUME TypeOK, CapacityHolds, NEW a \in Reserving, NEW k,
         Reserving' = Reserving \ {a}, outstanding' = outstanding - 1,
         Live' \subseteq Live \cup {k}
  PROVE  CapacityHolds'
<1>1. Cardinality(Reserving') = Cardinality(Reserving) - 1
  BY ReservationCounts, FS_RemoveElement
<1>2. Cardinality(Live') \in Nat /\ Cardinality(Live') <= Cardinality(Live) + 1
  BY LiveGrows
<1> QED BY <1>1, <1>2, PoolAssumption, ReservationCounts DEF CapacityHolds, TypeOK

\* A step that leaves the reservations alone.
LEMMA SlotsKept ==
  ASSUME TypeOK, CapacityHolds,
         Reserving' = Reserving, outstanding' = outstanding, Live' \subseteq Live
  PROVE  CapacityHolds'
BY LiveShrinks, PoolAssumption, ReservationCounts DEF CapacityHolds, TypeOK
-----------------------------------------------------------------------------
(* Types. *)

LEMMA TypeOKInit == Init => TypeOK
  BY PoolAssumption, IdleIsTask DEF Init, TypeOK, Sessions, Conns, Tasks

LEMMA DoingType ==
  ASSUME NEW step \in Steps, NEW k \in Keys, NEW c \in Sessions, NEW s \in Sessions
  PROVE  /\ Doing(step, k, c, s) \in Tasks
         /\ Doing(step, k, c, s).step = step /\ Doing(step, k, c, s).key = k
         /\ Doing(step, k, c, s).conn = c /\ Doing(step, k, c, s).saved = s
BY DEF Doing, Tasks

LEMMA AtType ==
  ASSUME TypeOK, NEW a \in Callers, NEW step \in Steps
  PROVE  /\ At(a, step) \in Tasks
         /\ At(a, step).step = step /\ At(a, step).key = task[a].key
         /\ At(a, step).conn = task[a].conn
BY DoingType DEF At, TypeOK

LEMMA GoesTo ==
  ASSUME TypeOK, NEW a \in Callers, NEW v \in Tasks, Goes(a, v)
  PROVE  /\ task' \in [Callers -> Tasks] /\ task'[a] = v
         /\ \A b \in Callers \ {a} : task'[b] = task[b]
BY DEF TypeOK, Goes, Tasks

LEMMA ReturnsTo ==
  ASSUME TypeOK, NEW a \in Callers, Returns(a)
  PROVE  /\ task' \in [Callers -> Tasks] /\ task'[a] = Idle
         /\ \A b \in Callers \ {a} : task'[b] = task[b]
         /\ gate' \in [Keys -> Callers \cup {Nobody}]
         /\ \A k \in Keys : gate[k] # a => gate'[k] = gate[k]
BY GoesTo, IdleIsTask DEF TypeOK, Returns

LEMMA ReleasedType ==
  ASSUME TypeOK, CapacityHolds, NEW a \in Callers
  PROVE  Released(a) \in Nat
BY ReservationCounts DEF TypeOK, Released

\* A connection that somebody has was spawned, and its session is known.
LEMMA SessionOf ==
  ASSUME TypeOK, NEW c \in Sessions, c # 0, c <= Len(sid)
  PROVE  c \in Conns /\ sid[c] \in Conns
<1>1. c \in Conns
  BY PoolAssumption DEF Sessions, Conns
<1>2. sid \in Seq(Conns) /\ Len(sid) \in Nat
  BY DEF TypeOK
<1>3. c \in 1 .. Len(sid)
  BY <1>1, <1>2 DEF Conns
<1> QED BY <1>1, <1>2, <1>3

LEMMA TypeOKStep ==
  ASSUME TypeOK, CapacityHolds, ClaimsHeld, Spawned, [Next]_vars
  PROVE  TypeOK'
<1> USE PoolAssumption DEF maps, conns
<1>t. Conns \subseteq Sessions /\ 0 \in Sessions
  BY DEF Conns, Sessions
<1>1. ASSUME NEW a \in Callers, Creation(a) PROVE TypeOK'
  <2>0. task[a] \in Tasks /\ task[a].key \in Keys /\ task[a].saved \in Sessions
    BY DEF TypeOK, Tasks
  <2>1. CASE Look(a)
    <3>1. CASE Returns(a)
      BY <2>1, <3>1, ReturnsTo DEF Look, TypeOK, Tasks
    <3>2. CASE ~Returns(a)
      <4>1. task[a].conn # 0 /\ task[a].conn <= Len(sid) /\ task[a].conn \in Sessions
        BY <2>1 DEF Look, ClaimsHeld, Spawned, TypeOK
      <4>2. sid[task[a].conn] \in Sessions
        BY <4>1, SessionOf, <1>t
      <4>3. PICK s \in Sessions : Goes(a, Doing("reserve", task[a].key, 0, s))
        BY <2>0, <2>1, <3>2, <4>2 DEF Look
      <4>4. task' \in [Callers -> Tasks]
        BY <4>3, <2>0, <1>t, DoingType, GoesTo DEF Steps
      <4> QED BY <2>1, <3>2, <4>4 DEF Look, TypeOK, Tasks
    <3> QED BY <3>1, <3>2
  <2>2. CASE Reserve(a)
    <3>1. task' \in [Callers -> Tasks]
      BY <2>2, AtType, GoesTo DEF Reserve, Steps
    <3> QED BY <2>2, <3>1 DEF Reserve, TypeOK, Tasks
  <2>3. CASE Exhausted(a)
    BY <2>3, ReturnsTo DEF Exhausted, TypeOK, Tasks
  <2>4. CASE SpawnFails(a)
    BY <2>4, ReturnsTo, ReleasedType DEF SpawnFails, TypeOK, Tasks
  <2>5. CASE Connect(a)
    <3>1. PICK s \in {Len(sid) + 1} \cup ({task[a].saved} \ {0}) : sid' = Append(sid, s)
      BY <2>5 DEF Connect
    <3>2. Len(sid) + 1 \in Conns /\ s \in Conns
      BY <2>5, <2>0, <3>1 DEF Connect, Conns, Sessions
    <3>3. sid' \in Seq(Conns) /\ Len(sid') = Len(sid) + 1
      BY <3>1, <3>2 DEF TypeOK
    <3>4. task' \in [Callers -> Tasks]
      <4>1. Doing("insert", task[a].key, Len(sid) + 1, task[a].saved) \in Tasks
        BY <2>0, <3>2, <1>t, DoingType DEF Steps
      <4>2. Goes(a, Doing("insert", task[a].key, Len(sid) + 1, task[a].saved))
        BY <2>5 DEF Connect
      <4> QED BY <4>1, <4>2, GoesTo
    <3>5. Len(sid') <= MaxConns /\ dead' \subseteq 1 .. Len(sid')
      BY <2>5, <3>2, <3>3 DEF Connect, TypeOK, Conns
    <3> QED BY <2>5, <3>3, <3>4, <3>5 DEF Connect, TypeOK, Tasks
  <2>6. CASE Yield(a)
    BY <2>6, ReturnsTo, ReleasedType DEF Yield, TypeOK, Tasks
  <2>7. CASE Insert(a)
    <3>1. task[a].step = "insert" /\ a \in Reserving
      BY <2>7 DEF Insert, Reserving
    <3>2. outstanding' \in Nat
      BY <2>7, <3>1, ReservationCounts DEF Insert, TypeOK
    <3>3. task[a].conn \in Sessions /\ sid[task[a].conn] \in Sessions
      BY <3>1, SessionOf, <1>t DEF ClaimsHeld, Spawned, TypeOK
    <3>4. /\ active' \in [Keys -> Sessions] /\ latest' \in [Keys -> Sessions]
          /\ persisted' \in [Keys -> Sessions] /\ suspended' \in [Keys -> Sessions]
          /\ saved' \in [Keys -> Sessions]
      <4>1. CASE task[a].key \in Native
        BY <2>7, <4>1, <3>3 DEF Insert, Stored, TypeOK
      <4>2. CASE task[a].key \notin Native
        <5>1. active' \in [Keys -> Sessions] /\ latest' \in [Keys -> Sessions]
          BY <2>7, <3>3 DEF Insert, TypeOK
        <5>2. /\ persisted' \in [Keys -> Sessions] /\ suspended' \in [Keys -> Sessions]
              /\ saved' = persisted'
          <6>1. Stored(task[a].key, sid[task[a].conn])
            BY <2>7 DEF Insert
          <6>2. persisted \in [Keys -> Sessions] /\ suspended \in [Keys -> Sessions]
            BY DEF TypeOK
          <6> QED BY <4>2, <6>1, <6>2, <3>3, <1>t DEF Stored
        <5> QED BY <5>1, <5>2
      <4> QED BY <4>1, <4>2
    <3> QED BY <2>7, <3>2, <3>4, ReturnsTo DEF Insert, TypeOK, Tasks
  <2> QED BY <1>1, <2>1, <2>2, <2>3, <2>4, <2>5, <2>6, <2>7 DEF Creation
<1>2. ASSUME NEW a \in Callers, Use(a) PROVE TypeOK'
  <2>1. task' \in [Callers -> Tasks]
    BY <1>2, AtType, GoesTo, IdleIsTask
       DEF Use, Claim, Refused, Enter, Unlock, Release, Steps
  <2>2. phase' \in [Conns -> {"idle", "busy", "evicting"}]
    BY <1>2 DEF Use, Claim, Refused, Enter, Unlock, Release, PhaseFreed, TypeOK
  <2>3. mutex' \in [Conns -> Callers \cup {Nobody}]
    BY <1>2 DEF Use, Claim, Refused, Enter, Unlock, Release, TypeOK
  <2>4. UNCHANGED <<maps, gate, outstanding, sid, dead, stale, hung, restarts, latest>>
    BY <1>2 DEF Use, Claim, Refused, Enter, Unlock, Release
  <2> QED BY <2>1, <2>2, <2>3, <2>4 DEF TypeOK, Tasks
<1>3. ASSUME NEW a \in Callers, Cancelled(a) PROVE TypeOK'
  BY <1>3, ReturnsTo, ReleasedType DEF Cancelled, PhaseFreed, TypeOK, Tasks
<1>4. ASSUME NEW a \in Callers, NEW k \in Keys, Begin(a, k) PROVE TypeOK'
  <2>1. active[k] \in Sessions /\ suspended[k] \in Sessions
    BY DEF TypeOK
  <2>2. task' \in [Callers -> Tasks]
    <3>1. PICK v : Goes(a, v) /\ v \in {Doing("reserve", k, 0, 0),
                                         Doing("reserve", k, active[k], suspended[k]),
                                         Doing("look", k, active[k], suspended[k])}
      BY <1>4 DEF Begin
    <3>2. v \in Tasks
      BY <3>1, <2>1, <1>t, DoingType DEF Steps
    <3> QED BY <3>1, <3>2, GoesTo
  <2> QED BY <1>4, <2>2 DEF Begin, TypeOK, Tasks
<1>5. ASSUME NEW a \in Callers, NEW k \in Keys, Evict(a, k) PROVE TypeOK'
  <2>1. task' \in [Callers -> Tasks]
    BY <1>5, AtType, GoesTo DEF Evict, Steps
  <2>2. sid[active[k]] \in Sessions
    BY <1>5, SessionOf, <1>t DEF Evict, Evictable, Spawned, TypeOK
  <2>3. /\ active' \in [Keys -> Sessions]
        /\ persisted' \in [Keys -> Sessions] /\ suspended' \in [Keys -> Sessions]
    BY <1>5, <2>2, <1>t DEF Evict, Suspend, TypeOK
  <2>4. phase' \in [Conns -> {"idle", "busy", "evicting"}]
    BY <1>5 DEF Evict, TypeOK
  <2>5. outstanding' \in Nat
    BY <1>5 DEF Evict, TypeOK
  <2>6. UNCHANGED <<saved, gate, sid, dead, mutex, stale, hung, restarts, latest>>
    BY <1>5 DEF Evict
  <2> QED BY <2>1, <2>3, <2>4, <2>5, <2>6 DEF TypeOK, Tasks
<1>6. ASSUME NEW a \in Callers, NEW k \in Keys, Prompt(a, k) \/ Ask(a, k) PROVE TypeOK'
  <2>1. task' \in [Callers -> Tasks]
    <3>1. active[k] \in Sessions
      BY DEF TypeOK
    <3>2. PICK step \in Steps : Goes(a, Doing(step, k, active[k], 0))
      BY <1>6 DEF Prompt, Ask, Steps
    <3> QED BY <3>1, <3>2, <1>t, DoingType, GoesTo
  <2> QED BY <1>6, <2>1 DEF Prompt, Ask, TypeOK, Tasks
<1>7. ASSUME NEW a \in Callers, NEW k \in Keys, Reset(a, k) PROVE TypeOK'
  BY <1>7, <1>t DEF Reset, Forgotten, GateAfterReset, TypeOK
<1>8. CASE Scan
  <2>1. \A k \in Live : k \in Keys /\ active[k] \in Conns
    BY DEF Live, TypeOK, Sessions, Conns
  <2>2. stale' \subseteq Keys \X Conns /\ hung' \subseteq Keys \X Conns
    BY <1>8, <2>1 DEF Scan
  <2> QED BY <1>8, <2>2 DEF Scan, TypeOK
<1>9. CASE Sweep
  <2>1. ASSUME NEW p \in Still(stale) PROVE sid[p[2]] \in Sessions
    <3>1. p[1] \in Keys /\ p[2] \in Conns /\ active[p[1]] = p[2]
      BY DEF Still, TypeOK
    <3>2. p[2] \in Sessions /\ p[2] # 0 /\ p[2] <= Len(sid)
      BY <3>1, <1>t DEF Spawned, Conns
    <3> QED BY <3>2, SessionOf, <1>t
  <2>2. /\ active' \in [Keys -> Sessions]
        /\ persisted' \in [Keys -> Sessions] /\ suspended' \in [Keys -> Sessions]
    BY <1>9, <2>1, <1>t DEF Sweep, TypeOK
  <2> QED BY <1>9, <2>2 DEF Sweep, TypeOK
<1>10. CASE Restart
  BY <1>10, <1>t, IdleIsTask DEF Restart, TypeOK, Tasks
<1>11. ASSUME NEW c \in Conns, Die(c) PROVE TypeOK'
  BY <1>11 DEF Die, TypeOK
<1>12. CASE UNCHANGED vars
  BY <1>12 DEF vars, TypeOK
<1> QED BY <1>1, <1>2, <1>3, <1>4, <1>5, <1>6, <1>7, <1>8, <1>9, <1>10, <1>11, <1>12 DEF Next
-----------------------------------------------------------------------------
(* Reservations and capacity. *)

LEMMA ReservingAfter ==
  ASSUME NEW a \in Callers, \A b \in Callers \ {a} : task'[b] = task[b]
  PROVE  /\ task'[a].step \in {"spawn", "insert"} => Reserving' = Reserving \cup {a}
         /\ task'[a].step \notin {"spawn", "insert"} => Reserving' = Reserving \ {a}
BY DEF Reserving

LEMMA CapacityInit == Init => CapacityHolds
<1> SUFFICES ASSUME Init PROVE CapacityHolds
  OBVIOUS
<1>1. Reserving = {} /\ Live = {}
  BY IdleIsTask DEF Init, Reserving, Live
<1> QED BY <1>1, FS_EmptySet, PoolAssumption DEF Init, CapacityHolds

\* A caller that returns gives back what it held.
LEMMA SlotReleased ==
  ASSUME TypeOK, CapacityHolds, NEW a \in Callers, Returns(a),
         outstanding' = Released(a), active' = active
  PROVE  CapacityHolds'
<1>1. Reserving' = Reserving \ {a}
  BY ReturnsTo, IdleIsTask, ReservingAfter
<1>2. Live' = Live
  BY DEF Live
<1>3. CASE a \in Reserving
  BY <1>1, <1>2, <1>3, SlotGiven DEF Released
<1>4. CASE a \notin Reserving
  BY <1>1, <1>2, <1>4, SlotsKept DEF Released
<1> QED BY <1>3, <1>4

\* A caller that moves on, and holds a reservation afterwards if it did before.
LEMMA SlotUntouched ==
  ASSUME TypeOK, CapacityHolds, NEW a \in Callers,
         \A b \in Callers \ {a} : task'[b] = task[b],
         task'[a].step \in {"spawn", "insert"} <=> task[a].step \in {"spawn", "insert"},
         outstanding' = outstanding, active' = active
  PROVE  CapacityHolds'
<1>1. Reserving' = Reserving
  BY ReservingAfter DEF Reserving
<1>2. Live' = Live
  BY DEF Live
<1> QED BY <1>1, <1>2, SlotsKept

LEMMA CapacityStep ==
  ASSUME TypeOK, CapacityHolds, [Next]_vars
  PROVE  CapacityHolds'
<1> USE DEF maps, conns
<1>1. ASSUME NEW a \in Callers, Creation(a) PROVE CapacityHolds'
  <2>1. CASE Look(a)
    <3>1. CASE Returns(a)
      BY <2>1, <3>1, SlotReleased DEF Look, Released, Reserving
    <3>2. CASE ~Returns(a)
      <4>1. PICK s : Goes(a, Doing("reserve", task[a].key, 0, s))
        BY <2>1, <3>2 DEF Look
      <4>2. task'[a].step = "reserve" /\ \A b \in Callers \ {a} : task'[b] = task[b]
        BY <4>1 DEF Goes, Doing, TypeOK
      <4> QED BY <2>1, <4>2, SlotUntouched DEF Look
    <3> QED BY <3>1, <3>2
  <2>2. CASE Reserve(a)
    <3>1. task'[a].step = "spawn" /\ \A b \in Callers \ {a} : task'[b] = task[b]
      BY <2>2, AtType, GoesTo DEF Reserve, Steps
    <3>2. Reserving' = Reserving \cup {a} /\ a \notin Reserving
      BY <2>2, <3>1, ReservingAfter DEF Reserve, Reserving
    <3>3. Live' = Live /\ Room /\ outstanding' = outstanding + 1
      BY <2>2 DEF Reserve, Live
    <3> QED BY <3>2, <3>3, SlotTaken
  <2>3. CASE Exhausted(a)
    BY <2>3, SlotReleased DEF Exhausted, Released, Reserving
  <2>4. CASE SpawnFails(a)
    BY <2>4, SlotReleased DEF SpawnFails
  <2>5. CASE Connect(a)
    <3>1. task'[a].step = "insert" /\ \A b \in Callers \ {a} : task'[b] = task[b]
      BY <2>5 DEF Connect, Goes, Doing, TypeOK
    <3> QED BY <2>5, <3>1, SlotUntouched DEF Connect
  <2>6. CASE Yield(a)
    BY <2>6, SlotReleased DEF Yield
  <2>7. CASE Insert(a)
    <3>1. a \in Reserving /\ Returns(a) /\ outstanding' = outstanding - 1
      BY <2>7 DEF Insert, Reserving
    <3>2. Reserving' = Reserving \ {a}
      BY <3>1, ReturnsTo, IdleIsTask, ReservingAfter
    <3>3. Live' \subseteq Live \cup {task[a].key}
      BY <2>7 DEF Insert, Live, TypeOK
    <3> QED BY <3>1, <3>2, <3>3, SlotGiven
  <2> QED BY <1>1, <2>1, <2>2, <2>3, <2>4, <2>5, <2>6, <2>7 DEF Creation
<1>2. ASSUME NEW a \in Callers, Use(a) PROVE CapacityHolds'
  <2>1. PICK v \in Tasks : /\ Goes(a, v)
                           /\ v.step \notin {"spawn", "insert"}
                           /\ task[a].step \notin {"spawn", "insert"}
    BY <1>2, AtType, IdleIsTask
       DEF Use, Claim, Refused, Enter, Unlock, Release, Steps
  <2>2. outstanding' = outstanding /\ active' = active
    BY <1>2 DEF Use, Claim, Refused, Enter, Unlock, Release
  <2> QED BY <2>1, <2>2, GoesTo, SlotUntouched
<1>3. ASSUME NEW a \in Callers, Cancelled(a) PROVE CapacityHolds'
  BY <1>3, SlotReleased DEF Cancelled
<1>4. ASSUME NEW a \in Callers, NEW k \in Keys, Begin(a, k) \/ Prompt(a, k) \/ Ask(a, k)
      PROVE  CapacityHolds'
  <2>1. /\ task[a].step = "idle" /\ outstanding' = outstanding /\ active' = active
    BY <1>4 DEF Begin, Prompt, Ask
  <2>2. PICK step, c, s : /\ step \in {"reserve", "look", "claim", "asking"}
                             /\ Goes(a, Doing(step, k, c, s))
    BY <1>4 DEF Begin, Prompt, Ask
  <2>3. task'[a].step = step /\ \A b \in Callers \ {a} : task'[b] = task[b]
    BY <2>2 DEF Goes, Doing, TypeOK
  <2>4. task'[a].step \notin {"spawn", "insert"} /\ task[a].step \notin {"spawn", "insert"}
    BY <2>1, <2>2, <2>3
  <2> QED BY <2>1, <2>3, <2>4, SlotUntouched
<1>5. ASSUME NEW a \in Callers, NEW k \in Keys, Evict(a, k) PROVE CapacityHolds'
  <2>1. task'[a].step = "spawn" /\ \A b \in Callers \ {a} : task'[b] = task[b]
    BY <1>5, AtType, GoesTo DEF Evict, Steps
  <2>2. Reserving' = Reserving \cup {a} /\ a \notin Reserving
    BY <1>5, <2>1, ReservingAfter DEF Evict, Reserving
  <2>3. k \in Live /\ Live' = Live \ {k} /\ outstanding' = outstanding + 1
    BY <1>5 DEF Evict, Evictable, Live, TypeOK
  <2> QED BY <2>2, <2>3, SlotTaken
<1>6. ASSUME UNCHANGED <<outstanding, task>>, \A k \in Keys : active'[k] \in {0, active[k]}
      PROVE  CapacityHolds'
  <2>1. Reserving' = Reserving /\ Live' \subseteq Live
    BY <1>6 DEF Reserving, Live
  <2> QED BY <1>6, <2>1, SlotsKept
<1>7. ASSUME NEW a \in Callers, NEW k \in Keys, Reset(a, k) PROVE CapacityHolds'
  BY <1>6, <1>7 DEF Reset, TypeOK
<1>8. CASE Scan \/ UNCHANGED vars
  BY <1>6, <1>8 DEF Scan, vars
<1>9. CASE Sweep
  BY <1>6, <1>9 DEF Sweep
<1>10. CASE Restart
  <2>1. Reserving' = {} /\ Live' = {} /\ outstanding' = 0
    BY <1>10, IdleIsTask DEF Restart, Reserving, Live
  <2> QED BY <2>1, FS_EmptySet, PoolAssumption DEF CapacityHolds
<1>11. ASSUME NEW c \in Conns, Die(c) PROVE CapacityHolds'
  BY <1>6, <1>11 DEF Die
<1> QED BY <1>1, <1>2, <1>3, <1>4, <1>5, <1>7, <1>8, <1>9, <1>10, <1>11 DEF Next
-----------------------------------------------------------------------------
(* The creating gates. *)

\* A caller that returns, or moves on with its key, or takes its gate.
LEMMA GatesReturned ==
  ASSUME TypeOK, GatesHeld, NEW a \in Callers, Returns(a)
  PROVE  GatesHeld'
<1> SUFFICES ASSUME NEW b \in Callers, task'[b].step \in InCreation, task'[b].key \notin Native
             PROVE  gate'[task'[b].key] = b
  BY DEF GatesHeld, InCreation
<1>1. b # a /\ task'[b] = task[b]
  BY ReturnsTo, IdleIsTask DEF InCreation
<1>2. gate[task[b].key] = b /\ task[b].key \in Keys
  BY <1>1 DEF GatesHeld, TypeOK, InCreation
<1> QED BY <1>1, <1>2, ReturnsTo

LEMMA GatesKept ==
  ASSUME TypeOK, GatesHeld, NEW a \in Callers, NEW v \in Tasks, Goes(a, v),
         gate' = gate,
         v.step \in InCreation => task[a].step \in InCreation /\ v.key = task[a].key
  PROVE  GatesHeld'
BY GoesTo DEF GatesHeld, InCreation, TypeOK

LEMMA GatesStep ==
  ASSUME TypeOK, TypeOK', GatesHeld, [Next]_vars
  PROVE  GatesHeld'
<1> USE DEF maps, conns
<1>1. ASSUME NEW a \in Callers, Creation(a) \/ Use(a) \/ Cancelled(a) PROVE GatesHeld'
  <2>1. CASE Returns(a)
    BY <2>1, GatesReturned
  <2>2. CASE ~Returns(a)
    <3>1. gate' = gate
      BY <1>1, <2>2 DEF Creation, Look, Reserve, Exhausted, SpawnFails, Connect, Yield,
           Insert, Use, Claim, Refused, Enter, Unlock, Release, Cancelled
    <3>2. PICK step, c, s : \/ /\ Goes(a, Doing(step, task[a].key, c, s))
                               /\ step \in InCreation => task[a].step \in InCreation
                            \/ Goes(a, Idle)
      <4>1. CASE Look(a)
        BY <2>2, <4>1 DEF Look, InCreation
      <4>2. CASE Reserve(a)
        BY <4>2 DEF Reserve, At, InCreation
      <4>3. CASE Connect(a)
        BY <4>3 DEF Connect, InCreation
      <4>4. CASE Claim(a) \/ Enter(a) \/ Release(a)
        BY <4>4 DEF Claim, Enter, Release, At, InCreation
      <4>5. CASE Unlock(a) \/ Refused(a)
        BY <4>5 DEF Unlock, Refused, At, InCreation
      <4> QED BY <1>1, <2>2, <4>1, <4>2, <4>3, <4>4, <4>5
              DEF Creation, Exhausted, SpawnFails, Yield, Insert, Use, Cancelled
    <3>3. /\ \A b \in Callers \ {a} : task'[b] = task[b]
          /\ task'[a].step \in InCreation
               => task[a].step \in InCreation /\ task'[a].key = task[a].key
      BY <3>2, IdleIsTask DEF Goes, Doing, TypeOK, InCreation
    <3> QED BY <3>1, <3>3 DEF GatesHeld, InCreation
  <2> QED BY <2>1, <2>2
<1>2. ASSUME NEW a \in Callers, NEW k \in Keys, Begin(a, k) PROVE GatesHeld'
  <2>1. PICK step, c, s : step \in InCreation /\ Goes(a, Doing(step, k, c, s))
    BY <1>2 DEF Begin, InCreation
  <2>2. task'[a].key = k /\ \A b \in Callers \ {a} : task'[b] = task[b]
    BY <2>1 DEF Goes, Doing, TypeOK
  <2>3. CASE k \in Native
    BY <1>2, <2>2, <2>3 DEF Begin, GatesHeld
  <2>4. CASE k \notin Native
    <3>1. gate[k] = Nobody /\ gate' = [gate EXCEPT ![k] = a]
      BY <1>2, <2>4 DEF Begin
    <3> SUFFICES ASSUME NEW b \in Callers, task'[b].step \in InCreation,
                        task'[b].key \notin Native
                 PROVE  gate'[task'[b].key] = b
      BY DEF GatesHeld, InCreation
    <3>2. CASE b = a
      BY <2>2, <3>1, <3>2 DEF TypeOK
    <3>3. CASE b # a
      <4>1. gate[task[b].key] = b /\ task[b].key \in Keys /\ task'[b] = task[b]
        BY <2>2, <3>3 DEF GatesHeld, TypeOK, InCreation
      <4> QED BY <3>1, <4>1, PoolAssumption DEF TypeOK
    <3> QED BY <3>2, <3>3
  <2> QED BY <2>3, <2>4
<1>3. ASSUME NEW a \in Callers, NEW k \in Keys, Prompt(a, k) \/ Ask(a, k) PROVE GatesHeld'
  <2>1. PICK step \in {"claim", "asking"} : Goes(a, Doing(step, k, active[k], 0))
    BY <1>3 DEF Prompt, Ask
  <2>2. task'[a].step = step /\ \A b \in Callers \ {a} : task'[b] = task[b]
    BY <2>1 DEF Goes, Doing, TypeOK
  <2>3. gate' = gate
    BY <1>3 DEF Prompt, Ask
  <2> QED BY <2>2, <2>3 DEF GatesHeld
<1>4. ASSUME NEW a \in Callers, NEW k \in Keys, Evict(a, k) PROVE GatesHeld'
  <2>1. task[a].step = "reserve" /\ gate' = gate /\ Goes(a, At(a, "spawn"))
    BY <1>4 DEF Evict
  <2> QED BY <2>1, AtType, GatesKept DEF Steps, InCreation
<1>5. ASSUME NEW a \in Callers, NEW k \in Keys, Reset(a, k) PROVE GatesHeld'
  BY <1>5 DEF Reset, GateAfterReset, GatesHeld
<1>6. CASE Scan \/ Sweep \/ UNCHANGED vars \/ \E c \in Conns : Die(c)
  BY <1>6 DEF Scan, Sweep, vars, Die, GatesHeld
<1>7. CASE Restart
  BY <1>7, IdleIsTask DEF Restart, GatesHeld
<1> QED BY <1>1, <1>2, <1>3, <1>4, <1>5, <1>6, <1>7 DEF Next

\* The holder of a gate is the only one to create.
LEMMA GateMeansOne == ASSUME TypeOK, GatesHeld PROVE OneCreator
<1> SUFFICES ASSUME NEW k \in Keys \ Native PROVE Cardinality(Creating(k)) <= 1
  BY DEF OneCreator
<1>1. Creating(k) \subseteq {gate[k]}
  BY DEF Creating, GatesHeld
<1>2. IsFiniteSet({gate[k]}) /\ Cardinality({gate[k]}) = 1
  BY FS_Singleton
<1>3. Cardinality(Creating(k)) <= Cardinality({gate[k]})
  BY <1>1, <1>2, FS_Subset
<1> QED BY <1>2, <1>3
-----------------------------------------------------------------------------
(* Connections: claims, prompts, evictions. *)

ConnSteps == {"claim", "asking", "look"}

LEMMA ConnTypes ==
  ASSUME TypeOK
  PROVE  /\ active \in [Keys -> Sessions] /\ Len(sid) \in Nat
         /\ phase \in [Conns -> {"idle", "busy", "evicting"}]
         /\ mutex \in [Conns -> Callers \cup {Nobody}]
         /\ \A b \in Callers : task[b].conn \in Sessions /\ task[b].step \in Steps
         /\ Sessions \subseteq Nat /\ 0 \in Sessions /\ Conns = Sessions \ {0}
BY PoolAssumption DEF TypeOK, Sessions, Conns

\* A step that touches no phase and no mutex and puts nothing in the pool; one
\* caller at most lets go of its connection or takes one of the pool.
LEMMA ConnsQuiet ==
  ASSUME TypeOK, TypeOK', ConnsFit, NEW a \in Callers,
         \A b \in Callers \ {a} : task'[b] = task[b],
         \/ task'[a] = task[a]
         \/ task'[a].step \in {"idle", "reserve", "spawn"}
         \/ task'[a].step \in ConnSteps /\ task'[a].conn # 0,
         \/ task'[a].conn \in {0, task[a].conn}
         \/ \E k \in Keys : task'[a].conn = active[k],
         UNCHANGED <<sid, phase, mutex>>,
         \A k \in Keys : active'[k] \in {0, active[k]}
  PROVE  ConnsFit'
<1> USE DEF ConnSteps, InPrompt
<1>1. ClaimsHeld' /\ OnePrompt'
  BY DEF ConnsFit, ClaimsHeld, OnePrompt
<1>2. Spawned'
  <2>1. 0 <= Len(sid)
    BY DEF TypeOK
  <2> QED BY <2>1 DEF ConnsFit, Spawned
<1>3. NewIsOwn'
  <2> SUFFICES ASSUME NEW b \in Callers, task'[b].step = "insert"
               PROVE  /\ phase'[task'[b].conn] = "idle"
                      /\ \A k \in Keys : active'[k] # task'[b].conn
                      /\ \A d \in Callers : task'[d].conn = task'[b].conn => b = d
    BY DEF NewIsOwn
  <2>1. task'[b] = task[b] /\ task[b].conn # 0
    BY DEF ConnsFit, ClaimsHeld
  <2> QED BY <2>1 DEF ConnsFit, NewIsOwn
<1>4. OneKey' /\ EvictedIsOut'
  BY DEF ConnsFit, OneKey, EvictedIsOut, Conns
<1> QED BY <1>1, <1>2, <1>3, <1>4 DEF ConnsFit

\* A caller that is not in a prompt afterwards, and a connection that is as it was
\* for all the others.
LEMMA ClaimsQuiet ==
  ASSUME ConnsFit, NEW a \in Callers,
         \A b \in Callers \ {a} : task'[b] = task[b],
         task'[a].step \in {"idle", "insert", "spawn"},
         task'[a].step = "insert" => task'[a].conn # 0,
         UNCHANGED <<phase, mutex>>
  PROVE  ClaimsHeld' /\ OnePrompt'
<1>1. ASSUME NEW b \in Callers
      PROVE  /\ task'[b].step \in InPrompt
                  => task'[b].conn # 0 /\ phase'[task'[b].conn] = "busy"
             /\ task'[b].step \in {"claim", "asking", "asked", "look", "insert"}
                  => task'[b].conn # 0
             /\ task'[b].step \in {"running", "asked"} => mutex'[task'[b].conn] = b
  <2>1. CASE b = a
    BY <2>1 DEF InPrompt
  <2>2. CASE b # a
    <3>1. task'[b] = task[b] /\ phase' = phase /\ mutex' = mutex
      BY <2>2
    <3>2. ClaimsHeld
      BY DEF ConnsFit
    <3> QED BY <3>1, <3>2 DEF ClaimsHeld
  <2> QED BY <2>1, <2>2
<1>2. ClaimsHeld'
  BY <1>1 DEF ClaimsHeld
<1>3. ASSUME NEW b \in Callers, task'[b].step \in InPrompt PROVE task'[b] = task[b]
  BY <1>3 DEF InPrompt
<1>4. OnePrompt'
  BY <1>3 DEF ConnsFit, OnePrompt, InPrompt
<1> QED BY <1>2, <1>4

LEMMA ConnsEvict ==
  ASSUME TypeOK, TypeOK', ConnsFit, NEW a \in Callers, NEW k \in Keys, Evict(a, k)
  PROVE  ConnsFit'
<1> DEFINE c == active[k]
<1>1. /\ task[a].step = "reserve" /\ task'[a].step = "spawn"
      /\ task'[a].conn = task[a].conn
      /\ \A b \in Callers \ {a} : task'[b] = task[b]
  BY AtType, GoesTo DEF Evict, Steps
<1>2. /\ c # 0 /\ c \in Conns /\ phase[c] = "idle" /\ c <= Len(sid)
      /\ phase' = [phase EXCEPT ![c] = "evicting"]
      /\ active' = [active EXCEPT ![k] = 0] /\ sid' = sid /\ mutex' = mutex
  <2>1. c # 0 /\ c \in Sessions
    BY ConnTypes DEF Evict, Evictable
  <2>2. c \in Conns
    BY <2>1, SessionOf, ConnTypes DEF ConnsFit, Spawned
  <2> QED BY <2>1, <2>2 DEF Evict, Evictable, ConnsFit, Spawned
<1>3. ClaimsHeld' /\ OnePrompt'
  <2>1. ASSUME NEW b \in Callers, task'[b].step \in InPrompt
        PROVE  task'[b] = task[b] /\ task[b].conn # c
    BY <1>1, <1>2, <2>1 DEF ConnsFit, ClaimsHeld, InPrompt
  <2>2. ASSUME NEW b \in Callers
        PROVE  /\ task'[b].step \in InPrompt
                    => task'[b].conn # 0 /\ phase'[task'[b].conn] = "busy"
               /\ task'[b].step \in {"claim", "asking", "asked", "look", "insert"}
                    => task'[b].conn # 0
               /\ task'[b].step \in {"running", "asked"} => mutex'[task'[b].conn] = b
    <3>1. CASE task'[b].step \in InPrompt
      BY <1>2, <2>1, <3>1, ConnTypes DEF ConnsFit, ClaimsHeld, InPrompt
    <3>2. CASE task'[b].step \notin InPrompt
      BY <1>1, <1>2, <3>2 DEF ConnsFit, ClaimsHeld, InPrompt
    <3> QED BY <3>1, <3>2
  <2>3. ClaimsHeld'
    BY <2>2 DEF ClaimsHeld
  <2>4. OnePrompt'
    BY <2>1 DEF ConnsFit, OnePrompt, InPrompt
  <2> QED BY <2>3, <2>4
<1>4. Spawned'
  <2>1. 0 <= Len(sid)
    BY ConnTypes
  <2> QED BY <1>1, <1>2, <2>1, ConnTypes DEF ConnsFit, Spawned
<1>5. NewIsOwn'
  <2> SUFFICES ASSUME NEW b \in Callers, task'[b].step = "insert"
               PROVE  /\ phase'[task'[b].conn] = "idle"
                      /\ \A l \in Keys : active'[l] # task'[b].conn
                      /\ \A d \in Callers : task'[d].conn = task'[b].conn => b = d
    BY DEF NewIsOwn
  <2>1. task'[b] = task[b] /\ task[b].conn # 0 /\ task[b].conn \in Conns
    BY <1>1, ConnTypes DEF ConnsFit, ClaimsHeld
  <2>2. /\ phase[task[b].conn] = "idle"
        /\ \A l \in Keys : active[l] # task[b].conn
        /\ \A d \in Callers : task[d].conn = task[b].conn => b = d
    BY <2>1 DEF ConnsFit, NewIsOwn
  <2>3. phase'[task[b].conn] = "idle"
    BY <1>2, <2>1, <2>2, ConnTypes
  <2>4. \A l \in Keys : active'[l] # task[b].conn
    BY <1>2, <2>1, <2>2, ConnTypes
  <2> QED BY <1>1, <2>1, <2>2, <2>3, <2>4
<1>6. OneKey'
  BY <1>2, ConnTypes DEF ConnsFit, OneKey
<1>7. EvictedIsOut'
  BY <1>2, ConnTypes DEF ConnsFit, EvictedIsOut, OneKey
<1> QED BY <1>3, <1>4, <1>5, <1>6, <1>7 DEF ConnsFit

LEMMA ConnsConnect ==
  ASSUME TypeOK, TypeOK', ConnsFit, NEW a \in Callers, Connect(a)
  PROVE  ConnsFit'
<1> DEFINE c == Len(sid) + 1
<1>1. /\ task'[a].step = "insert" /\ task'[a].conn = c /\ task[a].step = "spawn"
      /\ \A b \in Callers \ {a} : task'[b] = task[b]
  BY DEF Connect, Goes, Doing, TypeOK
<1>2. c \in Conns /\ c # 0 /\ Len(sid') = c /\ Len(sid) \in Nat
  <2>1. Len(sid') = Len(sid) + 1 /\ Len(sid) \in Nat /\ Len(sid) + 1 \in Conns
    BY DEF Connect
  <2> QED BY <2>1 DEF Conns
<1>3. UNCHANGED <<active, phase, mutex>>
  BY DEF Connect, maps
<1>4. ClaimsHeld' /\ OnePrompt'
  BY <1>1, <1>2, <1>3, ClaimsQuiet
<1>5. Spawned'
  <2>1. /\ \A k \in Keys : active[k] \in Nat
        /\ \A b \in Callers : task[b].conn \in Nat
        /\ \A d \in Conns : d \in Nat
    BY ConnTypes
  <2> QED BY <1>1, <1>2, <1>3, <2>1, ConnTypes DEF ConnsFit, Spawned
<1>6. NewIsOwn'
  <2>1. /\ \A k \in Keys : active[k] # c
        /\ \A b \in Callers : task[b].conn # c
        /\ phase[c] = "idle"
    BY <1>2, ConnTypes DEF ConnsFit, Spawned
  <2> QED BY <1>1, <1>3, <2>1, ConnTypes DEF ConnsFit, NewIsOwn
<1>7. OneKey' /\ EvictedIsOut'
  BY <1>3, ConnTypes DEF ConnsFit, OneKey, EvictedIsOut
<1> QED BY <1>4, <1>5, <1>6, <1>7 DEF ConnsFit

LEMMA ConnsInsert ==
  ASSUME TypeOK, TypeOK', ConnsFit, NEW a \in Callers, Insert(a)
  PROVE  ConnsFit'
<1> DEFINE c == task[a].conn
<1>1. /\ task'[a].step = "idle" /\ task'[a].conn = 0
      /\ \A b \in Callers \ {a} : task'[b] = task[b]
  BY ReturnsTo, IdleIsTask DEF Insert
<1>2. /\ task[a].step = "insert" /\ c # 0 /\ phase[c] = "idle"
      /\ \A k \in Keys : active[k] # c
      /\ \A b \in Callers : task[b].conn = c => a = b
  BY DEF Insert, ConnsFit, ClaimsHeld, NewIsOwn
<1>3. /\ active' = [active EXCEPT ![task[a].key] = c]
      /\ UNCHANGED <<sid, phase, mutex>>
  BY DEF Insert, conns
<1>4. ClaimsHeld' /\ OnePrompt'
  BY <1>1, <1>3, ClaimsQuiet
<1>5. Spawned'
  <2>1. 0 <= Len(sid)
    BY ConnTypes
  <2> QED BY <1>1, <1>3, <2>1, ConnTypes DEF ConnsFit, Spawned
<1>6. NewIsOwn'
  <2> SUFFICES ASSUME NEW b \in Callers, task'[b].step = "insert"
               PROVE  /\ phase'[task'[b].conn] = "idle"
                      /\ \A l \in Keys : active'[l] # task'[b].conn
                      /\ \A d \in Callers : task'[d].conn = task'[b].conn => b = d
    BY DEF NewIsOwn
  <2>1. task'[b] = task[b] /\ task[b].conn # 0 /\ task[b].conn \in Conns
    BY <1>1, ConnTypes DEF ConnsFit, ClaimsHeld
  <2>2. /\ phase[task[b].conn] = "idle"
        /\ \A l \in Keys : active[l] # task[b].conn
        /\ \A d \in Callers : task[d].conn = task[b].conn => b = d
    BY <2>1 DEF ConnsFit, NewIsOwn
  <2>3. b # a
    BY <1>1
  <2>4. \A l \in Keys : active'[l] # task[b].conn
    BY <1>2, <1>3, <2>1, <2>2, <2>3, ConnTypes
  <2> QED BY <1>1, <1>3, <2>1, <2>2, <2>4
<1>7. OneKey'
  BY <1>2, <1>3, ConnTypes DEF ConnsFit, OneKey
<1>8. EvictedIsOut'
  BY <1>2, <1>3, ConnTypes DEF ConnsFit, EvictedIsOut
<1> QED BY <1>4, <1>5, <1>6, <1>7, <1>8 DEF ConnsFit

LEMMA ConnsClaim ==
  ASSUME TypeOK, TypeOK', ConnsFit, NEW a \in Callers, Claim(a)
  PROVE  ConnsFit'
<1> DEFINE c == task[a].conn
<1>1. /\ task[a].step = "claim" /\ task'[a].step = "enter" /\ task'[a].conn = c
      /\ \A b \in Callers \ {a} : task'[b] = task[b]
  BY AtType, GoesTo DEF Claim, Steps
<1>2. c # 0 /\ c \in Conns /\ phase[c] = "idle" /\ c <= Len(sid)
  BY <1>1, SessionOf, ConnTypes DEF Claim, Claimable, ConnsFit, ClaimsHeld, Spawned
<1>3. phase' = [phase EXCEPT ![c] = "busy"] /\ UNCHANGED <<active, sid, mutex>>
  BY DEF Claim, maps
<1>4. ClaimsHeld'
  BY <1>1, <1>2, <1>3, ConnTypes DEF ConnsFit, ClaimsHeld, InPrompt
<1>5. OnePrompt'
  BY <1>1, <1>2, ConnTypes DEF ConnsFit, ClaimsHeld, OnePrompt, InPrompt
<1>6. Spawned'
  BY <1>1, <1>2, <1>3, ConnTypes DEF ConnsFit, Spawned
<1>7. NewIsOwn'
  <2> SUFFICES ASSUME NEW b \in Callers, task'[b].step = "insert"
               PROVE  /\ phase'[task'[b].conn] = "idle"
                      /\ \A k \in Keys : active'[k] # task'[b].conn
                      /\ \A d \in Callers : task'[d].conn = task'[b].conn => b = d
    BY DEF NewIsOwn
  <2>1. b # a /\ task'[b] = task[b]
    BY <1>1
  <2>2. /\ phase[task[b].conn] = "idle"
        /\ \A k \in Keys : active[k] # task[b].conn
        /\ \A d \in Callers : task[d].conn = task[b].conn => b = d
    BY <2>1 DEF ConnsFit, NewIsOwn
  <2>3. \A d \in Callers : task'[d].conn = task[d].conn
    BY <1>1
  <2>4. task[b].conn # c
    BY <2>1, <2>2
  <2>5. phase'[task[b].conn] = phase[task[b].conn]
    BY <1>3, <2>4, ConnTypes
  <2> QED BY <1>3, <2>1, <2>2, <2>3, <2>5
<1>8. OneKey' /\ EvictedIsOut'
  BY <1>2, <1>3, ConnTypes DEF ConnsFit, OneKey, EvictedIsOut
<1> QED BY <1>4, <1>5, <1>6, <1>7, <1>8 DEF ConnsFit

\* A step of a caller that uses its connection: nobody else has it claimed.
LEMMA ConnsUse ==
  ASSUME TypeOK, TypeOK', ConnsFit, NEW a \in Callers,
         ClaimsHeld', OnePrompt',
         \A b \in Callers \ {a} : task'[b] = task[b],
         task'[a].step # "insert", task'[a].conn \in {0, task[a].conn},
         \A c \in Conns : phase'[c] \in {phase[c], "idle"},
         UNCHANGED <<active, sid>>
  PROVE  ConnsFit'
<1>1. Spawned'
  BY ConnTypes DEF ConnsFit, Spawned
<1>2. NewIsOwn'
  <2> SUFFICES ASSUME NEW b \in Callers, task'[b].step = "insert"
               PROVE  /\ phase'[task'[b].conn] = "idle"
                      /\ \A l \in Keys : active'[l] # task'[b].conn
                      /\ \A d \in Callers : task'[d].conn = task'[b].conn => b = d
    BY DEF NewIsOwn
  <2>1. task'[b] = task[b] /\ task[b].conn # 0 /\ task[b].conn \in Conns
    BY ConnTypes DEF ConnsFit, ClaimsHeld
  <2>2. /\ phase[task[b].conn] = "idle"
        /\ \A l \in Keys : active[l] # task[b].conn
        /\ \A d \in Callers : task[d].conn = task[b].conn => b = d
    BY <2>1 DEF ConnsFit, NewIsOwn
  <2> QED BY <2>1, <2>2
<1>3. OneKey'
  BY DEF ConnsFit, OneKey
<1>4. EvictedIsOut'
  BY DEF ConnsFit, EvictedIsOut
<1> QED BY <1>1, <1>2, <1>3, <1>4 DEF ConnsFit

LEMMA ConnsEnter ==
  ASSUME TypeOK, TypeOK', ConnsFit, NEW a \in Callers, Enter(a) \/ Unlock(a)
  PROVE  ConnsFit'
<1> DEFINE c == task[a].conn
<1>1. /\ \A b \in Callers \ {a} : task'[b] = task[b]
      /\ \/ /\ task[a].step \in {"enter", "asking"} /\ Free(c)
            /\ mutex' = [mutex EXCEPT ![c] = a]
            /\ task'[a].step = IF task[a].step = "enter" THEN "running" ELSE "asked"
            /\ task'[a].conn = c
         \/ /\ task[a].step \in {"running", "asked"}
            /\ mutex' = [mutex EXCEPT ![c] = Nobody]
            /\ \/ task[a].step = "asked" /\ task'[a].step = "idle" /\ task'[a].conn = 0
               \/ task[a].step = "running" /\ task'[a].step = "release" /\ task'[a].conn = c
  <2>1. CASE Enter(a)
    BY <2>1, AtType, GoesTo DEF Enter, Steps
  <2>2. CASE Unlock(a)
    BY <2>2, AtType, GoesTo, IdleIsTask DEF Unlock, Steps
  <2> QED BY <2>1, <2>2
<1>2. UNCHANGED <<active, sid, phase>>
  BY DEF Enter, Unlock, maps
<1>3. c # 0 /\ c \in Conns
  BY <1>1, ConnTypes DEF ConnsFit, ClaimsHeld, InPrompt
<1>4. ASSUME NEW b \in Callers
      PROVE  /\ task'[b].step \in InPrompt
                  => task'[b].conn # 0 /\ phase'[task'[b].conn] = "busy"
             /\ task'[b].step \in {"claim", "asking", "asked", "look", "insert"}
                  => task'[b].conn # 0
             /\ task'[b].step \in {"running", "asked"} => mutex'[task'[b].conn] = b
  <2>1. CASE b = a
    BY <1>1, <1>2, <1>3, <2>1, ConnTypes DEF ConnsFit, ClaimsHeld, InPrompt
  <2>2. CASE b # a
    <3>1. task'[b] = task[b]
      BY <1>1, <2>2
    <3>2. ASSUME task[b].step \in {"running", "asked"} PROVE mutex'[task[b].conn] = b
      <4>1. mutex[task[b].conn] = b
        BY <3>2 DEF ConnsFit, ClaimsHeld
      <4>2. mutex[c] \in {Nobody, a}
        BY <1>1 DEF Free, ConnsFit, ClaimsHeld
      <4>3. task[b].conn # c
        BY <4>1, <4>2, <2>2, PoolAssumption
      <4>4. task[b].conn \in Conns
        BY <3>2, ConnTypes DEF ConnsFit, ClaimsHeld, InPrompt
      <4> QED BY <1>1, <4>1, <4>3, <4>4, ConnTypes
    <3>3. ClaimsHeld
      BY DEF ConnsFit
    <3> QED BY <1>2, <3>1, <3>2, <3>3 DEF ClaimsHeld
  <2> QED BY <2>1, <2>2
<1>5. ClaimsHeld'
  BY <1>4 DEF ClaimsHeld
<1>6. OnePrompt'
  <2>1. ASSUME NEW b \in Callers, task'[b].step \in InPrompt
        PROVE  task[b].step \in InPrompt /\ task'[b].conn = task[b].conn
    BY <1>1, <2>1 DEF InPrompt
  <2> QED BY <2>1 DEF ConnsFit, OnePrompt, InPrompt
<1> QED BY <1>1, <1>2, <1>5, <1>6, ConnsUse

LEMMA ConnsRelease ==
  ASSUME TypeOK, TypeOK', ConnsFit, NEW a \in Callers, Release(a) \/ Cancelled(a)
  PROVE  ConnsFit'
<1> DEFINE c == task[a].conn
<1>1. /\ task'[a].step = "idle" /\ task'[a].conn = 0
      /\ \A b \in Callers \ {a} : task'[b] = task[b]
  BY GoesTo, ReturnsTo, IdleIsTask DEF Release, Cancelled
<1>2. /\ UNCHANGED <<active, sid>>
      /\ phase' = phase \/ (task[a].step \in InPrompt /\ phase' = [phase EXCEPT ![c] = "idle"])
      /\ \A d \in Conns : mutex[d] # a => mutex'[d] = mutex[d]
  BY DEF Release, Cancelled, maps, PhaseFreed, InPrompt
<1>3. ASSUME NEW b \in Callers \ {a}, task[b].step \in InPrompt
      PROVE  phase'[task[b].conn] = "busy"
  <2>1. task[b].conn \in Conns /\ phase[task[b].conn] = "busy"
    BY <1>3, ConnTypes DEF ConnsFit, ClaimsHeld
  <2>2. task[a].step \in InPrompt => c # task[b].conn
    BY <1>3 DEF ConnsFit, OnePrompt, InPrompt
  <2> QED BY <1>2, <2>1, <2>2, ConnTypes
<1>4. ASSUME NEW b \in Callers \ {a}, task[b].step \in {"running", "asked"}
      PROVE  mutex'[task[b].conn] = b
  <2>1. mutex[task[b].conn] = b /\ task[b].conn \in Conns
    BY <1>4, ConnTypes DEF ConnsFit, ClaimsHeld, InPrompt
  <2> QED BY <1>2, <2>1
<1>5. ClaimsHeld'
  <2>1. ASSUME NEW b \in Callers
        PROVE  /\ task'[b].step \in InPrompt
                    => task'[b].conn # 0 /\ phase'[task'[b].conn] = "busy"
               /\ task'[b].step \in {"claim", "asking", "asked", "look", "insert"}
                    => task'[b].conn # 0
               /\ task'[b].step \in {"running", "asked"} => mutex'[task'[b].conn] = b
    <3>1. CASE b = a
      BY <1>1, <3>1 DEF InPrompt
    <3>2. CASE b # a
      BY <1>1, <1>3, <1>4, <3>2 DEF ConnsFit, ClaimsHeld
    <3> QED BY <3>1, <3>2
  <2> QED BY <2>1 DEF ClaimsHeld
<1>6. OnePrompt'
  <2>1. ASSUME NEW b \in Callers, task'[b].step \in InPrompt PROVE task'[b] = task[b]
    BY <1>1, <2>1 DEF InPrompt
  <2> QED BY <2>1 DEF ConnsFit, OnePrompt, InPrompt
<1>7. \A d \in Conns : phase'[d] \in {phase[d], "idle"}
  BY <1>2, ConnTypes
<1> QED BY <1>1, <1>2, <1>5, <1>6, <1>7, ConnsUse

LEMMA ConnsStep ==
  ASSUME TypeOK, TypeOK', ConnsFit, [Next]_vars
  PROVE  ConnsFit'
<1> USE DEF maps, conns
<1>1. ASSUME NEW a \in Callers, Creation(a) \/ Refused(a) PROVE ConnsFit'
  <2>1. CASE Connect(a) \/ Insert(a)
    BY <2>1, ConnsConnect, ConnsInsert
  <2>2. CASE Look(a) /\ ~Returns(a)
    <3>1. PICK s : Goes(a, Doing("reserve", task[a].key, 0, s))
      BY <2>2 DEF Look
    <3>2. /\ task'[a].step = "reserve" /\ task'[a].conn = 0
          /\ \A b \in Callers \ {a} : task'[b] = task[b]
      BY <3>1 DEF Goes, Doing, TypeOK
    <3>3. UNCHANGED <<sid, phase, mutex, active>>
      BY <2>2 DEF Look
    <3> QED BY <3>2, <3>3, ConnsQuiet
  <2>3. CASE Reserve(a)
    <3>1. /\ task'[a].step = "spawn" /\ task'[a].conn = task[a].conn
          /\ \A b \in Callers \ {a} : task'[b] = task[b]
      BY <2>3, AtType, GoesTo DEF Reserve, Steps
    <3>2. UNCHANGED <<sid, phase, mutex, active>>
      BY <2>3 DEF Reserve
    <3> QED BY <3>1, <3>2, ConnsQuiet
  <2>4. CASE \/ Look(a) /\ Returns(a)
             \/ Exhausted(a) \/ SpawnFails(a) \/ Yield(a) \/ Refused(a)
    <3>1. /\ task'[a].step = "idle" /\ task'[a].conn = 0
          /\ \A b \in Callers \ {a} : task'[b] = task[b]
      BY <2>4, ReturnsTo, GoesTo, IdleIsTask DEF Look, Exhausted, SpawnFails, Yield, Refused
    <3>2. UNCHANGED <<sid, phase, mutex, active>>
      BY <2>4 DEF Look, Exhausted, SpawnFails, Yield, Refused
    <3> QED BY <3>1, <3>2, ConnsQuiet
  <2> QED BY <1>1, <2>1, <2>2, <2>3, <2>4 DEF Creation
<1>2. ASSUME NEW a \in Callers, Use(a) \/ Cancelled(a) PROVE ConnsFit'
  BY <1>1, <1>2, ConnsClaim, ConnsEnter, ConnsRelease DEF Use
<1>3. ASSUME NEW a \in Callers, NEW k \in Keys, Begin(a, k) \/ Prompt(a, k) \/ Ask(a, k)
      PROVE  ConnsFit'
  <2>1. UNCHANGED <<sid, phase, mutex, active>>
    BY <1>3 DEF Begin, Prompt, Ask
  <2>2. PICK step, c, s : /\ Goes(a, Doing(step, k, c, s))
                          /\ \/ step = "reserve" /\ c \in {0, active[k]}
                             \/ step \in ConnSteps /\ c = active[k] /\ c # 0
    BY <1>3 DEF Begin, Prompt, Ask, ConnSteps
  <2>3. /\ task'[a].step = step /\ task'[a].conn = c
        /\ \A b \in Callers \ {a} : task'[b] = task[b]
    BY <2>2 DEF Goes, Doing, TypeOK
  <2> QED BY <2>1, <2>2, <2>3, ConnsQuiet
<1>4. ASSUME NEW a \in Callers, NEW k \in Keys, Evict(a, k) PROVE ConnsFit'
  BY <1>4, ConnsEvict
<1>5. ASSUME UNCHANGED <<sid, phase, mutex, task>>, \A k \in Keys : active'[k] \in {0, active[k]},
             NEW a \in Callers
      PROVE  ConnsFit'
  BY <1>5, ConnsQuiet
<1>6. ASSUME NEW a \in Callers, NEW k \in Keys, Reset(a, k) PROVE ConnsFit'
  <2>1. \A l \in Keys : active'[l] \in {0, active[l]}
    BY <1>6, ConnTypes DEF Reset
  <2> QED BY <1>5, <1>6, <2>1 DEF Reset
<1>7. CASE Callers = {} /\ (Scan \/ Sweep \/ UNCHANGED vars \/ \E c \in Conns : Die(c))
  <2>1. /\ UNCHANGED <<sid, phase, mutex, task>> /\ \A k \in Keys : active'[k] \in {0, active[k]}
    BY <1>7 DEF Scan, Sweep, vars, Die
  <2>2. ClaimsHeld' /\ OnePrompt' /\ NewIsOwn'
    BY <1>7 DEF ClaimsHeld, OnePrompt, NewIsOwn
  <2>3. Spawned'
    BY <1>7, <2>1, ConnTypes DEF ConnsFit, Spawned
  <2>4. OneKey' /\ EvictedIsOut'
    BY <2>1, ConnTypes DEF ConnsFit, OneKey, EvictedIsOut
  <2> QED BY <2>2, <2>3, <2>4 DEF ConnsFit
<1>8. CASE Callers # {} /\ (Scan \/ Sweep \/ UNCHANGED vars \/ \E c \in Conns : Die(c))
  <2>1. /\ UNCHANGED <<sid, phase, mutex, task>> /\ \A k \in Keys : active'[k] \in {0, active[k]}
    BY <1>8 DEF Scan, Sweep, vars, Die
  <2> QED BY <1>5, <1>8, <2>1
<1>9. CASE Restart
  <2>1. /\ \A b \in Callers : task'[b] = Idle
        /\ \A k \in Keys : active'[k] = 0
        /\ \A c \in Conns : phase'[c] = "idle"
        /\ sid' = sid
    BY <1>9 DEF Restart
  <2>2. \A k \in Keys : active'[k] <= Len(sid')
    BY <2>1, ConnTypes
  <2>3. \A b \in Callers : task'[b].conn <= Len(sid') /\ task'[b].step = "idle"
    BY <2>1, IdleIsTask, ConnTypes
  <2>4. Spawned' /\ ClaimsHeld' /\ OnePrompt' /\ NewIsOwn'
    BY <2>1, <2>2, <2>3 DEF Spawned, ClaimsHeld, OnePrompt, NewIsOwn, InPrompt
  <2>5. OneKey' /\ EvictedIsOut'
    BY <2>1 DEF OneKey, EvictedIsOut
  <2> QED BY <2>4, <2>5 DEF ConnsFit
<1> QED BY <1>1, <1>2, <1>3, <1>4, <1>6, <1>7, <1>8, <1>9 DEF Next

\* A connection being evicted has no prompt and is not in the pool.
LEMMA EvictedFits == ASSUME ConnsFit PROVE EvictedIsQuiet
  BY DEF ConnsFit, ClaimsHeld, EvictedIsOut, EvictedIsQuiet, InPrompt
-----------------------------------------------------------------------------
(* What can be resumed. *)

\* One thread: its connection and session in the pool, the maps and the history.
ThreadFits(k, c, s, sus, per, sav, lat) ==
  IF k \in Native THEN sus = 0 /\ per = 0 /\ sav = 0
  ELSE /\ c # 0 => sav = s
       /\ sav \in {0, lat} /\ per = sav /\ sus \in {0, per}

LEMMA ResumableStep ==
  ASSUME TypeOK, TypeOK', ConnsFit, LiveIsResumable, [Next]_vars
  PROVE  LiveIsResumable'
<1> USE DEF maps, conns
<1>0. /\ {active, suspended, persisted, saved, latest} \subseteq [Keys -> Sessions]
      /\ {active', suspended', persisted', saved', latest'} \subseteq [Keys -> Sessions]
  BY DEF TypeOK
<1>1. ASSUME UNCHANGED <<maps, latest>>, \A k \in Keys : sid'[active[k]] = sid[active[k]]
             \/ active[k] = 0
      PROVE  LiveIsResumable'
  BY <1>1 DEF LiveIsResumable
<1>2. ASSUME NEW a \in Callers, Creation(a) PROVE LiveIsResumable'
  <2>1. CASE Connect(a)
    <3>1. ASSUME NEW k \in Keys, active[k] # 0 PROVE sid'[active[k]] = sid[active[k]]
      <4>1. active[k] \in 1 .. Len(sid)
        BY <3>1, ConnTypes DEF ConnsFit, Spawned
      <4>2. PICK s : sid' = Append(sid, s) /\ s \in {Len(sid) + 1} \cup ({task[a].saved} \ {0})
        BY <2>1 DEF Connect
      <4>3. Len(sid) + 1 \in Conns /\ task[a].saved \in Sessions
        BY <2>1 DEF Connect, TypeOK
      <4>4. s \in Conns /\ sid \in Seq(Conns)
        BY <4>2, <4>3, ConnTypes DEF TypeOK
      <4> QED BY <4>1, <4>2, <4>4
    <3> QED BY <1>1, <2>1, <3>1 DEF Connect
  <2>2. CASE Insert(a)
    <3> DEFINE k == task[a].key
               s == sid[task[a].conn]
    <3>1. k \in Keys /\ s # 0
      <4>1. task[a].conn # 0 /\ task[a].conn <= Len(sid) /\ task[a].conn \in Sessions
        BY <2>2, ConnTypes DEF Insert, ConnsFit, ClaimsHeld, Spawned
      <4>2. s \in Conns
        BY <4>1, SessionOf
      <4> QED BY <4>2, ConnTypes DEF TypeOK
    <3>2. /\ active' = [active EXCEPT ![k] = task[a].conn] /\ sid' = sid
          /\ latest' = [latest EXCEPT ![k] = s] /\ Stored(k, s)
      BY <2>2 DEF Insert
    <3> SUFFICES ASSUME NEW l \in Keys
                 PROVE  ThreadFits(l, active[l], sid[active[l]], suspended[l],
                                   persisted[l], saved[l], latest[l])'
      BY PoolAssumption DEF ThreadFits, LiveIsResumable
    <3>3. CASE k \in Native
      BY <1>0, <3>1, <3>2, <3>3 DEF Stored, LiveIsResumable, ThreadFits
    <3>4. CASE k \notin Native
      <4>1. CASE l = k
        BY <1>0, <3>1, <3>2, <3>4, <4>1 DEF Stored, ThreadFits
      <4>2. CASE l # k
        BY <1>0, <3>1, <3>2, <3>4, <4>2 DEF Stored, LiveIsResumable, ThreadFits
      <4> QED BY <4>1, <4>2
    <3> QED BY <3>3, <3>4
  <2> QED BY <1>1, <1>2, <2>1, <2>2
          DEF Creation, Look, Reserve, Exhausted, SpawnFails, Yield
<1>3. ASSUME NEW a \in Callers, Use(a) \/ Cancelled(a) PROVE LiveIsResumable'
  BY <1>1, <1>3 DEF Use, Claim, Refused, Enter, Unlock, Release, Cancelled
<1>4. ASSUME NEW a \in Callers, NEW k \in Keys, Begin(a, k) \/ Prompt(a, k) \/ Ask(a, k)
      PROVE  LiveIsResumable'
  BY <1>1, <1>4 DEF Begin, Prompt, Ask
<1>5. ASSUME NEW a \in Callers, NEW k \in Keys, Evict(a, k) PROVE LiveIsResumable'
  <2>1. /\ active' = [active EXCEPT ![k] = 0] /\ active[k] # 0
        /\ UNCHANGED <<saved, sid, latest>> /\ Suspend(k, sid[active[k]])
    BY <1>5 DEF Evict, Evictable
  <2>2. CASE k \in Native
    BY <1>0, <2>1, <2>2 DEF Suspend, LiveIsResumable
  <2>3. CASE k \notin Native
    <3>1. sid[active[k]] = saved[k] /\ persisted = saved
      <4>1. \A l \in Keys : persisted[l] = saved[l]
        BY DEF LiveIsResumable
      <4>2. sid[active[k]] = saved[k]
        BY <2>1, <2>3 DEF LiveIsResumable
      <4> QED BY <1>0, <4>1, <4>2
    <3>2. persisted' = [persisted EXCEPT ![k] = saved[k]]
          /\ suspended' = [suspended EXCEPT ![k] = saved[k]]
      BY <2>1, <2>3, <3>1 DEF Suspend
    <3>3. persisted' = saved
      BY <1>0, <3>1, <3>2
    <3> QED BY <1>0, <2>1, <2>3, <3>2, <3>3 DEF LiveIsResumable
  <2> QED BY <2>2, <2>3
<1>6. ASSUME NEW a \in Callers, NEW k \in Keys, Reset(a, k) PROVE LiveIsResumable'
  <2>1. /\ active' = [active EXCEPT ![k] = 0]
        /\ suspended' = [suspended EXCEPT ![k] = 0]
        /\ persisted' = [persisted EXCEPT ![k] = 0]
        /\ saved' = persisted' /\ UNCHANGED <<sid, latest>>
    BY <1>6 DEF Reset, Forgotten
  <2> QED BY <1>0, <2>1 DEF LiveIsResumable
<1>7. CASE Scan \/ UNCHANGED vars \/ \E c \in Conns : Die(c)
  BY <1>1, <1>7 DEF Scan, vars, Die
<1>8. CASE Sweep
  <2> SUFFICES ASSUME NEW k \in Keys
               PROVE  ThreadFits(k, active[k], sid[active[k]], suspended[k],
                                 persisted[k], saved[k], latest[k])'
    BY PoolAssumption DEF ThreadFits, LiveIsResumable
  <2> DEFINE idle  == Still(stale)
             stuck == Still(hung)
             kept  == {p \in idle : p[1] \notin Native}
             New(m) == IF \E p \in kept : p[1] = k
                         THEN sid[(CHOOSE p \in kept : p[1] = k)[2]]
                       ELSE IF \E p \in stuck : p[1] = k THEN 0 ELSE m[k]
  <2>1. /\ active'[k] = IF k \in {p[1] : p \in idle \cup stuck} THEN 0 ELSE active[k]
        /\ suspended'[k] = New(suspended) /\ persisted'[k] = New(persisted)
        /\ saved'[k] = persisted'[k] /\ sid' = sid /\ latest' = latest
    BY <1>8 DEF Sweep
  <2>2. ThreadFits(k, active[k], sid[active[k]], suspended[k], persisted[k], saved[k],
                   latest[k])
    BY DEF LiveIsResumable, ThreadFits
  <2>3. CASE \E p \in kept : p[1] = k
    <3> DEFINE p == CHOOSE p \in kept : p[1] = k
    <3>1. p \in kept /\ p[1] = k
      BY <2>3
    <3>2. k \notin Native /\ active[k] = p[2] /\ p[2] \in Conns
      BY <3>1 DEF Still, TypeOK
    <3>3. sid[p[2]] = saved[k] /\ saved[k] = persisted[k]
      BY <3>2, <2>2, ConnTypes DEF ThreadFits
    <3>4. active'[k] = 0 /\ suspended'[k] = saved[k] /\ persisted'[k] = saved[k]
      BY <2>1, <3>1, <3>3
    <3> QED BY <2>1, <2>2, <3>2, <3>4 DEF ThreadFits
  <2>4. CASE ~(\E p \in kept : p[1] = k) /\ \E p \in stuck : p[1] = k
    <3>1. active'[k] = 0 /\ suspended'[k] = 0 /\ persisted'[k] = 0
      BY <2>1, <2>4
    <3> QED BY <2>1, <2>2, <3>1 DEF ThreadFits
  <2>5. CASE ~(\E p \in kept : p[1] = k) /\ ~\E p \in stuck : p[1] = k
    <3>1. active'[k] \in {0, active[k]} /\ suspended'[k] = suspended[k]
          /\ persisted'[k] = persisted[k]
      BY <2>1, <2>5
    <3> QED BY <2>1, <2>2, <3>1 DEF ThreadFits
  <2> QED BY <2>3, <2>4, <2>5
<1>9. CASE Restart
  <2>1. /\ active' = [l \in Keys |-> 0]
        /\ persisted' = saved /\ suspended' = saved /\ UNCHANGED <<saved, latest>>
    BY <1>9 DEF Restart
  <2> QED BY <1>0, <2>1 DEF LiveIsResumable
<1> QED BY <1>2, <1>3, <1>4, <1>5, <1>6, <1>7, <1>8, <1>9 DEF Next
-----------------------------------------------------------------------------
(* Whose the sessions are. *)

\* A step that opens no session, puts none in the pool, and leaves every caller as
\* it was or with a session of its thread.
LEMMA OwnersQuiet ==
  ASSUME TypeOK, Owners, UNCHANGED <<sid, latest>>,
         \A k \in Keys : active'[k] \in {0, active[k]},
         \A b \in Callers : task'[b] = task[b] \/ OwnSession(b)'
  PROVE  Owners'
<1>1. \A b \in Callers : OwnSession(b)'
  BY DEF Owners, OwnSession, IsNew
<1> QED BY <1>1 DEF Owners

\* A caller that creates nothing afterwards, or goes on with what it had to load.
LEMMA OwnersMove ==
  ASSUME TypeOK, Owners, NEW a \in Callers, UNCHANGED <<sid, latest>>,
         \A k \in Keys : active'[k] \in {0, active[k]},
         \A b \in Callers \ {a} : task'[b] = task[b],
         \/ task'[a].step \notin InCreation
         \/ /\ task[a].step \in InCreation /\ task'[a].step \in {"reserve", "spawn"}
            /\ task'[a].key = task[a].key /\ task'[a].saved = task[a].saved
  PROVE  Owners'
<1>1. OwnSession(a)'
  BY DEF Owners, OwnSession, InCreation
<1> QED BY <1>1, OwnersQuiet

\* A new process opens a session nobody had, or the one it was given to load.
LEMMA OwnersConnect ==
  ASSUME TypeOK, ConnsFit, Owners, NEW a \in Callers, Connect(a)
  PROVE  Owners'
<1> DEFINE c == Len(sid) + 1
           k == task[a].key
<1>1. PICK s \in {c} \cup ({task[a].saved} \ {0}) : sid' = Append(sid, s)
  BY DEF Connect
<1>2. /\ task[a].step = "spawn" /\ c \in Conns /\ task[a].saved \in Sessions /\ k \in Keys
      /\ UNCHANGED <<active, latest>>
  BY DEF Connect, TypeOK, maps
<1>3. s \in Conns /\ sid \in Seq(Conns) /\ Len(sid) \in Nat
  BY <1>1, <1>2, ConnTypes DEF TypeOK
<1>4. /\ Len(sid') = c /\ sid'[c] = s
      /\ \A d \in 1 .. Len(sid) : sid'[d] = sid[d]
  BY <1>1, <1>3
<1>5. /\ task'[a] = Doing("insert", k, c, task[a].saved)
      /\ \A b \in Callers \ {a} : task'[b] = task[b]
  BY DEF Connect, Goes, TypeOK
<1>6. /\ task'[a].step = "insert" /\ task'[a].key = k /\ task'[a].conn = c
      /\ task'[a].saved = task[a].saved
  BY <1>5 DEF Doing
<1>7. \A l \in Keys : latest[l] \in Nat /\ latest[l] <= Len(sid)
  BY ConnTypes DEF Owners, TypeOK
<1>8. OwnSession(a)'
  <2>1. task[a].saved = 0 \/ (k \notin Native /\ task[a].saved = latest[k])
    BY <1>2 DEF Owners, OwnSession, InCreation
  <2>2. s = c \/ (k \notin Native /\ s = latest[k])
    BY <1>1, <2>1
  <2>3. \A l \in Keys : latest'[l] # c
    BY <1>2, <1>3, <1>7
  <2>4. sid'[task'[a].conn] = s
    BY <1>4, <1>6
  <2> HIDE DEF c, k
  <2>5. IsNew(task[a].conn)' \/ (k \notin Native /\ sid'[task'[a].conn] = latest'[k])
    BY <1>2, <1>6, <2>2, <2>3, <2>4 DEF IsNew
  <2> QED BY <1>2, <1>6, <2>1, <2>5 DEF OwnSession
<1>9. ASSUME NEW b \in Callers PROVE OwnSession(b)'
  <2>1. CASE b = a
    BY <1>8, <2>1
  <2>2. CASE b # a /\ task[b].step \in {"look", "insert"}
    <3>1. task[b].conn \in 1 .. Len(sid)
      BY <2>2, ConnTypes DEF ConnsFit, ClaimsHeld, Spawned
    <3>2. sid'[task[b].conn] = sid[task[b].conn] /\ task'[b] = task[b]
      BY <1>4, <1>5, <2>2, <3>1
    <3> QED BY <1>2, <3>2 DEF Owners, OwnSession, IsNew
  <2>3. CASE b # a /\ task[b].step \notin {"look", "insert"}
    BY <1>2, <1>5, <2>3 DEF Owners, OwnSession
  <2> QED BY <2>1, <2>2, <2>3
<1>10. ASSUME NEW l \in Keys, active'[l] # 0 PROVE sid'[active'[l]] = latest'[l]
  <2>1. active[l] \in 1 .. Len(sid)
    BY <1>2, <1>10, ConnTypes DEF ConnsFit, Spawned
  <2> QED BY <1>2, <1>4, <1>10, <2>1 DEF Owners
<1>11. \A l \in Keys : latest'[l] <= Len(sid')
  BY <1>2, <1>3, <1>4, <1>7
<1>12. \A l, m \in Keys : l # m => latest'[l] = 0 \/ latest'[l] # latest'[m]
  BY <1>2 DEF Owners
<1> QED BY <1>9, <1>10, <1>11, <1>12 DEF Owners

\* The connection put in the pool makes its session the thread's: the creating
\* gate has kept every other creation away from the thread, and a new connection
\* is its creator's alone.
LEMMA OwnersInsert ==
  ASSUME TypeOK, GatesHeld, ConnsFit, Owners, NEW a \in Callers, Insert(a)
  PROVE  Owners'
<1>1. PICK k : k = task[a].key
  OBVIOUS
<1>2. PICK c : c = task[a].conn
  OBVIOUS
<1>3. PICK s : s = sid[c]
  OBVIOUS
<1>4. /\ task[a].step = "insert" /\ k \in Keys
      /\ c \in Sessions /\ c # 0 /\ c <= Len(sid)
  BY <1>1, <1>2, ConnTypes DEF Insert, TypeOK, ConnsFit, ClaimsHeld, Spawned
<1>5. s \in Conns
  BY <1>3, <1>4, SessionOf
<1>6. /\ active' = [active EXCEPT ![k] = c] /\ latest' = [latest EXCEPT ![k] = s]
      /\ sid' = sid /\ Returns(a)
  BY <1>1, <1>2, <1>3 DEF Insert, conns
<1>7. /\ active'[k] = c /\ latest'[k] = s
      /\ \A l \in Keys \ {k} : active'[l] = active[l] /\ latest'[l] = latest[l]
  BY <1>4, <1>6 DEF TypeOK
<1>8. \/ s = c /\ \A l \in Keys : latest[l] # c
      \/ k \notin Native /\ s = latest[k]
  BY <1>1, <1>2, <1>3, <1>4 DEF Owners, OwnSession, InCreation, IsNew
<1>9. s <= Len(sid) /\ s # 0 /\ \A l \in Keys \ {k} : latest[l] # s
  <2>1. s # 0
    BY <1>5, ConnTypes
  <2>2. CASE s = c /\ \A l \in Keys : latest[l] # c
    BY <1>4, <2>1, <2>2
  <2>3. CASE s = latest[k]
    BY <1>4, <2>1, <2>3 DEF Owners
  <2> QED BY <1>8, <2>2, <2>3
<1>10. \A l \in Keys : latest'[l] <= Len(sid')
  BY <1>6, <1>7, <1>9 DEF Owners
<1>11. \A l, m \in Keys : l # m => latest'[l] = 0 \/ latest'[l] # latest'[m]
  BY <1>7, <1>9 DEF Owners
<1>12. \A l \in Keys : active'[l] # 0 => sid'[active'[l]] = latest'[l]
  BY <1>3, <1>6, <1>7 DEF Owners
<1>13. ASSUME NEW b \in Callers PROVE OwnSession(b)'
  <2>1. CASE b = a
    BY <1>6, <2>1, ReturnsTo, IdleIsTask DEF OwnSession, InCreation
  <2>2. CASE b # a /\ task[b].step \in InCreation
    <3>1. task'[b] = task[b]
      BY <1>6, <2>2, ReturnsTo
    <3>2. task[b].step = "insert" => task[b].conn # c
      BY <1>2, <1>4, <2>2 DEF ConnsFit, NewIsOwn
    <3>3. IsNew(task[b].conn) /\ task[b].step = "insert" => IsNew(task[b].conn)'
      <4> SUFFICES ASSUME IsNew(task[b].conn), task[b].step = "insert"
                   PROVE  IsNew(task[b].conn)'
        OBVIOUS
      <4>1. s # task[b].conn
        BY <1>4, <1>8, <3>2 DEF IsNew
      <4>2. \A l \in Keys : latest'[l] # task[b].conn
        BY <1>7, <4>1 DEF IsNew
      <4> QED BY <1>6, <3>1, <4>2 DEF IsNew
    <3>4. task[b].key = k => k \in Native
      <4>1. k \notin Native => gate[k] = a
        BY <1>1, <1>4 DEF GatesHeld
      <4>2. task[b].key \notin Native => gate[task[b].key] = b
        BY <2>2 DEF GatesHeld, InCreation
      <4> QED BY <2>2, <4>1, <4>2
    <3>5. OwnSession(b) /\ task[b].key \in Keys
      BY DEF Owners, TypeOK
    <3>6. task[b].key \notin Native => latest'[task[b].key] = latest[task[b].key]
      BY <1>7, <3>4, <3>5
    <3> QED BY <1>6, <3>1, <3>3, <3>5, <3>6 DEF OwnSession
  <2>3. CASE b # a /\ task[b].step \notin InCreation
    BY <1>6, <2>3, ReturnsTo DEF OwnSession
  <2> QED BY <2>1, <2>2, <2>3
<1> QED BY <1>10, <1>11, <1>12, <1>13 DEF Owners

LEMMA OwnersStep ==
  ASSUME TypeOK, TypeOK', GatesHeld, ConnsFit, LiveIsResumable, Owners, [Next]_vars
  PROVE  Owners'
<1> USE DEF maps, conns
<1>1. ASSUME NEW a \in Callers, Creation(a) \/ Use(a) \/ Cancelled(a) PROVE Owners'
  <2>1. CASE Connect(a) \/ Insert(a)
    BY <2>1, OwnersConnect, OwnersInsert
  <2>2. CASE Look(a) /\ ~Returns(a)
    <3>1. PICK s : /\ Goes(a, Doing("reserve", task[a].key, 0, s))
                   /\ s \in {sid[task[a].conn], task[a].saved}
      BY <2>2 DEF Look
    <3>2. /\ task'[a].step = "reserve" /\ task'[a].key = task[a].key
          /\ task'[a].saved = s /\ \A b \in Callers \ {a} : task'[b] = task[b]
      BY <3>1 DEF Goes, Doing, TypeOK
    <3>3. s = 0 \/ (task[a].key \notin Native /\ s = latest[task[a].key])
      BY <2>2, <3>1 DEF Look, Owners, OwnSession, InCreation
    <3>4. UNCHANGED <<sid, active, latest>>
      BY <2>2 DEF Look
    <3>5. OwnSession(a)'
      BY <3>2, <3>3, <3>4 DEF OwnSession
    <3> QED BY <3>2, <3>4, <3>5, OwnersQuiet
  <2>3. CASE Reserve(a)
    <3>1. /\ task'[a].step = "spawn" /\ task'[a].key = task[a].key
          /\ task'[a].saved = task[a].saved
          /\ \A b \in Callers \ {a} : task'[b] = task[b]
      BY <2>3 DEF Reserve, Goes, At, Doing, TypeOK
    <3>2. UNCHANGED <<sid, active, latest>> /\ task[a].step \in InCreation
      BY <2>3 DEF Reserve, InCreation
    <3> QED BY <3>1, <3>2, OwnersMove
  <2>4. CASE Returns(a) /\ ~Insert(a)
    <3>1. task'[a].step \notin InCreation /\ \A b \in Callers \ {a} : task'[b] = task[b]
      BY <2>4, ReturnsTo, IdleIsTask DEF InCreation
    <3>2. UNCHANGED <<sid, active, latest>> \/ Connect(a)
      BY <1>1, <2>4 DEF Creation, Look, Reserve, Exhausted, SpawnFails, Yield, Use, Claim,
         Refused, Enter, Unlock, Release, Cancelled
    <3> QED BY <2>1, <3>1, <3>2, OwnersMove
  <2>5. CASE Use(a)
    <3>1. PICK v \in Tasks : Goes(a, v) /\ v.step \notin InCreation
      BY <2>5, AtType, IdleIsTask
         DEF Use, Claim, Refused, Enter, Unlock, Release, Steps, InCreation
    <3>2. task'[a].step \notin InCreation /\ \A b \in Callers \ {a} : task'[b] = task[b]
      BY <3>1, GoesTo
    <3>3. UNCHANGED <<sid, active, latest>>
      BY <2>5 DEF Use, Claim, Refused, Enter, Unlock, Release
    <3> QED BY <3>2, <3>3, OwnersMove
  <2> QED BY <1>1, <2>1, <2>2, <2>3, <2>4, <2>5
          DEF Creation, Exhausted, SpawnFails, Yield, Cancelled
<1>2. ASSUME NEW a \in Callers, NEW k \in Keys, Begin(a, k) PROVE Owners'
  <2>1. UNCHANGED <<sid, active, latest>>
    BY <1>2 DEF Begin
  <2>2. CASE k \in Native
    <3>1. /\ task'[a].step = "reserve" /\ task'[a].saved = 0
          /\ \A b \in Callers \ {a} : task'[b] = task[b]
      BY <1>2, <2>2 DEF Begin, Goes, Doing, TypeOK
    <3>2. OwnSession(a)'
      BY <3>1 DEF OwnSession
    <3> QED BY <2>1, <3>1, <3>2, OwnersQuiet
  <2>3. CASE k \notin Native
    <3>1. PICK step : /\ Goes(a, Doing(step, k, active[k], suspended[k]))
                      /\ step = IF active[k] = 0 THEN "reserve" ELSE "look"
      BY <1>2, <2>3 DEF Begin
    <3>2. /\ task'[a].step = step /\ task'[a].key = k /\ task'[a].conn = active[k]
          /\ task'[a].saved = suspended[k] /\ \A b \in Callers \ {a} : task'[b] = task[b]
      BY <3>1 DEF Goes, Doing, TypeOK
    <3>3. suspended[k] \in {0, latest[k]}
      BY <2>3 DEF LiveIsResumable
    <3>4. active[k] # 0 => sid[active[k]] = latest[k]
      BY DEF Owners
    <3>5. OwnSession(a)'
      BY <2>1, <2>3, <3>1, <3>2, <3>3, <3>4 DEF OwnSession
    <3> QED BY <2>1, <3>2, <3>5, OwnersQuiet
  <2> QED BY <2>2, <2>3
<1>3. ASSUME NEW a \in Callers, NEW k \in Keys, Prompt(a, k) \/ Ask(a, k) PROVE Owners'
  <2>1. PICK step \in {"claim", "asking"} : Goes(a, Doing(step, k, active[k], 0))
    BY <1>3 DEF Prompt, Ask
  <2>2. task'[a].step \notin InCreation /\ \A b \in Callers \ {a} : task'[b] = task[b]
    BY <2>1 DEF Goes, Doing, TypeOK, InCreation
  <2>3. UNCHANGED <<sid, active, latest>>
    BY <1>3 DEF Prompt, Ask
  <2> QED BY <2>2, <2>3, OwnersMove
<1>4. ASSUME NEW a \in Callers, NEW k \in Keys, Evict(a, k) PROVE Owners'
  <2>1. /\ task'[a].step = "spawn" /\ task'[a].key = task[a].key
        /\ task'[a].saved = task[a].saved
        /\ \A b \in Callers \ {a} : task'[b] = task[b]
    BY <1>4 DEF Evict, Goes, At, Doing, TypeOK
  <2>2. /\ UNCHANGED <<sid, latest>> /\ task[a].step \in InCreation
        /\ \A l \in Keys : active'[l] \in {0, active[l]}
    BY <1>4, ConnTypes DEF Evict, InCreation
  <2> QED BY <2>1, <2>2, OwnersMove
<1>5. ASSUME NEW a \in Callers, NEW k \in Keys, Reset(a, k) PROVE Owners'
  <2>1. \A l \in Keys : active'[l] \in {0, active[l]}
    BY <1>5, ConnTypes DEF Reset
  <2>2. UNCHANGED <<sid, latest, task>>
    BY <1>5 DEF Reset
  <2> QED BY <2>1, <2>2, OwnersQuiet
<1>6. CASE Scan \/ Sweep \/ UNCHANGED vars \/ \E c \in Conns : Die(c)
  <2>1. UNCHANGED <<sid, latest, task>> /\ \A k \in Keys : active'[k] \in {0, active[k]}
    BY <1>6 DEF Scan, Sweep, vars, Die
  <2> QED BY <2>1, OwnersQuiet
<1>7. CASE Restart
  <2>1. /\ UNCHANGED <<sid, latest>> /\ \A k \in Keys : active'[k] = 0
        /\ \A b \in Callers : task'[b] = Idle
    BY <1>7 DEF Restart
  <2>2. \A b \in Callers : OwnSession(b)'
    BY <2>1, IdleIsTask DEF OwnSession, InCreation
  <2> QED BY <2>1, <2>2, OwnersQuiet
<1> QED BY <1>1, <1>2, <1>3, <1>4, <1>5, <1>6, <1>7 DEF Next

\* What is remembered for a thread is what it last had.
LEMMA OwnersArePrivate ==
  ASSUME TypeOK, LiveIsResumable, Owners
  PROVE  SessionsArePrivate
<1>1. \A k \in Keys : Remembered(k) \subseteq {0, latest[k]}
  BY DEF Remembered, LiveIsResumable, Owners
<1> QED BY <1>1 DEF SessionsArePrivate, Owners
-----------------------------------------------------------------------------
(* The theorems. *)

LEMMA InvInit == Init => IInv
<1> SUFFICES ASSUME Init PROVE IInv
  OBVIOUS
<1>1. TypeOK /\ CapacityHolds
  BY TypeOKInit, CapacityInit
<1>2. \A a \in Callers : task[a] = Idle
  BY DEF Init
<1>3. GatesHeld
  BY <1>2, IdleIsTask DEF GatesHeld
<1>4. ConnsFit
  <2>1. Len(sid) = 0 /\ \A k \in Keys : active[k] = 0
    BY DEF Init
  <2>2. \A c \in Conns : phase[c] = "idle"
    BY DEF Init
  <2>3. ClaimsHeld /\ OnePrompt /\ NewIsOwn
    BY <1>2, IdleIsTask DEF ClaimsHeld, OnePrompt, NewIsOwn, InPrompt
  <2>4. Spawned /\ OneKey /\ EvictedIsOut
    BY <1>2, <2>1, <2>2, IdleIsTask DEF Spawned, OneKey, EvictedIsOut
  <2> QED BY <2>3, <2>4 DEF ConnsFit
<1>5. LiveIsResumable
  BY PoolAssumption DEF Init, LiveIsResumable
<1>6. Owners
  BY <1>2, IdleIsTask DEF Init, Owners, OwnSession, InCreation
<1> QED BY <1>1, <1>3, <1>4, <1>5, <1>6 DEF IInv

LEMMA InvStep == IInv /\ [Next]_vars => IInv'
<1> SUFFICES ASSUME IInv, [Next]_vars PROVE IInv'
  OBVIOUS
<1>1. TypeOK'
  BY TypeOKStep DEF IInv, ConnsFit
<1>2. CapacityHolds'
  BY CapacityStep DEF IInv
<1>3. GatesHeld' /\ ConnsFit' /\ LiveIsResumable' /\ Owners'
  BY <1>1, GatesStep, ConnsStep, ResumableStep, OwnersStep DEF IInv
<1> QED BY <1>1, <1>2, <1>3 DEF IInv

LEMMA InvAlways == Spec => []IInv
  BY InvInit, InvStep, PTL DEF Spec

\* Every variable keeps its type.
THEOREM TypeCorrect == Spec => []TypeOK
<1>1. IInv => TypeOK
  BY DEF IInv
<1> QED BY <1>1, InvAlways, PTL

\* However creations, evictions, failures, cancellations and resets meet, the
\* sessions and reservations together never exceed max_sessions, and no
\* reservation is lost or counted twice.
THEOREM Capacity == Spec => []CapacityHolds
<1>1. IInv => CapacityHolds
  BY DEF IInv
<1> QED BY <1>1, InvAlways, PTL

\* The creating gate lets one creation at a time through for each thread, across
\* resets.
THEOREM OneCreation == Spec => []OneCreator
<1>1. IInv => OneCreator
  BY GateMeansOne DEF IInv
<1> QED BY <1>1, InvAlways, PTL

\* The phase keeps prompts out of each other's way.
THEOREM Exclusion == Spec => []OnePrompt
<1>1. IInv => OnePrompt
  BY DEF IInv, ConnsFit
<1> QED BY <1>1, InvAlways, PTL

\* And it keeps evictions out of theirs.
THEOREM EvictionsAreSafe == Spec => []EvictedIsQuiet
<1>1. IInv => EvictedIsQuiet
  BY EvictedFits DEF IInv
<1> QED BY <1>1, InvAlways, PTL

\* At any moment, and so whenever the daemon crashes, the file names the session
\* of every live thread, never one the thread has left behind, and none of a
\* native dispatch.
THEOREM CrashKeepsSessions == Spec => []LiveIsResumable
<1>1. IInv => LiveIsResumable
  BY DEF IInv
<1> QED BY <1>1, InvAlways, PTL

\* No thread is ever given what another thread said: what the pool, its maps and
\* the file name for two threads are different sessions.
THEOREM Privacy == Spec => []SessionsArePrivate
<1>1. IInv => SessionsArePrivate
  BY OwnersArePrivate DEF IInv
<1> QED BY <1>1, InvAlways, PTL
=============================================================================
