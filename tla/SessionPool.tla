---------------------------- MODULE SessionPool ----------------------------
(***************************************************************************)
(* The pool of agent sessions (crates/openab-core/src/acp/pool.rs): one    *)
(* agent process per thread, at most max_sessions of them.                 *)
(*                                                                         *)
(* Callers run concurrently: they get or create a thread's session, prompt *)
(* it, ask something of it, reset it; a cleanup task looks for idle and    *)
(* hung sessions.  Any caller may be cancelled at any await.  Every        *)
(* critical section under the state lock is one step.                      *)
(*                                                                         *)
(* A session is named by the connection that opened it with session/new.   *)
(* Ages are not kept: any session may be old enough to be cleaned up, or   *)
(* its prompt long enough to count as hung, and which of the idle sessions *)
(* is the oldest is left open.  Project bindings and facade tokens are not *)
(* modelled.                                                               *)
(***************************************************************************)
EXTENDS Naturals, Sequences, FiniteSets

CONSTANTS
  Keys,          \* thread keys
  Native,        \* those of native-work dispatches
  Callers,       \* tasks that call the pool
  Nobody,        \* no caller
  MaxSessions,   \* max_sessions
  MaxConns,      \* bound: agent processes ever spawned
  MaxRestarts    \* bound: restarts of the daemon

ASSUME PoolAssumption ==
  /\ Native \subseteq Keys /\ Nobody \notin Callers
  /\ {MaxSessions, MaxConns, MaxRestarts} \subseteq Nat
  /\ IsFiniteSet(Keys) /\ Keys # {} /\ IsFiniteSet(Callers)

Conns    == 1 .. MaxConns
Sessions == 0 .. MaxConns       \* 0 is none

VARIABLES
  active,       \* the connection of each key, 0 for none
  suspended,    \* the session each key can resume, while it has no connection
  persisted,    \* the session each key can resume after a restart
  saved,        \* persisted as it is in the file
  gate,         \* who holds the creating gate of each key
  outstanding,  \* outstanding_creations
  sid,          \* the session of each connection spawned so far
  dead,         \* connections whose process has gone
  phase,        \* the lifecycle phase of each connection
  mutex,        \* who holds the mutex of each connection
  task,         \* what each caller is doing
  stale, hung,  \* what the cleanup pass found: keys with their connections
  restarts,     \* how often the daemon was restarted
  latest        \* history: the session last put in the pool for each key

maps  == <<active, suspended, persisted, saved>>
conns == <<sid, dead, phase, mutex>>
vars  == <<active, suspended, persisted, saved, gate, outstanding, sid, dead,
           phase, mutex, task, stale, hung, restarts, latest>>
-----------------------------------------------------------------------------
Steps == {"idle", "look", "reserve", "spawn", "insert", "claim", "enter",
          "running", "release", "asking", "asked"}

Doing(step, k, c, s) == [step |-> step, key |-> k, conn |-> c, saved |-> s]
Idle == Doing("idle", CHOOSE k \in Keys : TRUE, 0, 0)

Goes(a, what) == task' = [task EXCEPT ![a] = what]
At(a, step) == Doing(step, task[a].key, task[a].conn, task[a].saved)

\* The callers that hold a CreationReservation, and those creating for k.
Reserving   == {a \in Callers : task[a].step \in {"spawn", "insert"}}
Creating(k) == {a \in Callers : /\ task[a].key = k
                                /\ task[a].step \in {"look", "reserve", "spawn", "insert"}}

Live == {k \in Keys : active[k] # 0}
Free(c) == mutex[c] = Nobody

Init == /\ active = [k \in Keys |-> 0] /\ suspended = [k \in Keys |-> 0]
        /\ persisted = [k \in Keys |-> 0] /\ saved = [k \in Keys |-> 0]
        /\ gate = [k \in Keys |-> Nobody]
        /\ outstanding = 0
        /\ sid = <<>> /\ dead = {}
        /\ phase = [c \in Conns |-> "idle"] /\ mutex = [c \in Conns |-> Nobody]
        /\ task = [a \in Callers |-> Idle]
        /\ stale = {} /\ hung = {} /\ restarts = 0
        /\ latest = [k \in Keys |-> 0]
-----------------------------------------------------------------------------
(* get_or_create, and create_fresh_session_only for a native key. *)

\* The gate of the key is taken and the maps are read; a key with a connection
\* is looked at first.  A native dispatch does neither.
Begin(a, k) ==
  /\ task[a].step = "idle"
  /\ IF k \in Native
       THEN Goes(a, Doing("reserve", k, 0, 0)) /\ UNCHANGED gate
       ELSE /\ gate[k] = Nobody
            /\ gate' = [gate EXCEPT ![k] = a]
            /\ Goes(a, Doing(IF active[k] = 0 THEN "reserve" ELSE "look",
                             k, active[k], suspended[k]))
  /\ UNCHANGED <<maps, outstanding, conns, stale, hung, restarts, latest>>

\* The call of a returns: its gate is free again.
Returns(a) ==
  /\ Goes(a, Idle)
  /\ gate' = [k \in Keys |-> IF gate[k] = a THEN Nobody ELSE gate[k]]

\* Phase 5: a locked or living connection is used as it is; a dead one gives
\* its session, unless a suspended one is known.
Look(a) ==
  LET c == task[a].conn IN
  /\ task[a].step = "look"
  /\ IF ~Free(c) \/ c \notin dead
       THEN Returns(a)
       ELSE /\ Goes(a, Doing("reserve", task[a].key, 0,
                             IF task[a].saved = 0 THEN sid[c] ELSE task[a].saved))
            /\ UNCHANGED gate
  /\ UNCHANGED <<maps, outstanding, conns, stale, hung, restarts, latest>>

\* Mutated form of Room: only what is in the pool counts.
RoomInPool == Cardinality(Live) < MaxSessions

\* There is room, and the slot is reserved under the lock that saw it.
Room == Cardinality(Live) + outstanding < MaxSessions

Reserve(a) ==
  /\ task[a].step = "reserve" /\ Room
  /\ outstanding' = outstanding + 1
  /\ Goes(a, At(a, "spawn"))
  /\ UNCHANGED <<maps, gate, conns, stale, hung, restarts, latest>>

\* Mutated form of Evictable: a connection that is not locked will do.
EvictableUnlocked(k, own) == k # own /\ active[k] # 0 /\ Free(active[k])

\* A session that can make room: not the caller's own, unlocked and idle.
Evictable(k, own) ==
  k # own /\ active[k] # 0 /\ Free(active[k]) /\ phase[active[k]] = "idle"

\* The session of an evicted connection can be resumed, but for a native key.
Suspend(k, s) ==
  IF k \in Native THEN UNCHANGED <<suspended, persisted>>
  ELSE /\ suspended' = [suspended EXCEPT ![k] = s]
       /\ persisted' = [persisted EXCEPT ![k] = s]

\* Mutated form of Evict: the session is put away under the key it makes room for.
EvictUnderOwnKey(a, k) ==
  /\ task[a].step = "reserve" /\ ~Room /\ Evictable(k, task[a].key)
  /\ phase' = [phase EXCEPT ![active[k]] = "evicting"]
  /\ active' = [active EXCEPT ![k] = 0]
  /\ Suspend(task[a].key, sid[active[k]])
  /\ outstanding' = outstanding + 1
  /\ Goes(a, At(a, "spawn"))
  /\ UNCHANGED <<saved, gate, sid, dead, mutex, stale, hung, restarts, latest>>

\* The pool is full: an idle session is claimed and removed and its slot
\* reserved, all under the lock.  The file is not written.
Evict(a, k) ==
  /\ task[a].step = "reserve" /\ ~Room /\ Evictable(k, task[a].key)
  /\ phase' = [phase EXCEPT ![active[k]] = "evicting"]
  /\ active' = [active EXCEPT ![k] = 0]
  /\ Suspend(k, sid[active[k]])
  /\ outstanding' = outstanding + 1
  /\ Goes(a, At(a, "spawn"))
  /\ UNCHANGED <<saved, gate, sid, dead, mutex, stale, hung, restarts, latest>>

\* Pool exhausted: there is no candidate, or its claim was lost to a prompt.
Exhausted(a) ==
  /\ task[a].step = "reserve" /\ ~Room
  /\ Returns(a)
  /\ UNCHANGED <<maps, outstanding, conns, stale, hung, restarts, latest>>

\* Mutated form of Released: a caller without a reservation gives one back.
ReleasedAlways(a) == outstanding - 1

\* Drop of CreationReservation, on every way out but commit.
Released(a) == IF a \in Reserving THEN outstanding - 1 ELSE outstanding

\* The process does not start, is not initialised, or loads the session no
\* better than transiently.
SpawnFails(a) ==
  /\ task[a].step = "spawn"
  /\ outstanding' = Released(a)
  /\ Returns(a)
  /\ UNCHANGED <<maps, conns, stale, hung, restarts, latest>>

\* The process is up, with the saved session loaded or with a new one: there was
\* none, the agent cannot load, or it refused for good.
Connect(a) ==
  LET c == Len(sid) + 1 IN
  /\ task[a].step = "spawn" /\ c \in Conns
  /\ \E s \in {c} \cup ({task[a].saved} \ {0}) : sid' = Append(sid, s)
  /\ Goes(a, Doing("insert", task[a].key, c, task[a].saved))
  /\ UNCHANGED <<maps, gate, outstanding, dead, phase, mutex, stale, hung,
                 restarts, latest>>

\* Another connection has got into the pool meanwhile and is in use or alive.
InPool(k) == LET c == active[k]
             IN  k \notin Native /\ c # 0 /\ (~Free(c) \/ c \notin dead)

\* It is used as it is; the new process is dropped.
Yield(a) ==
  LET t == task[a] IN
  /\ t.step = "insert" /\ InPool(t.key)
  /\ outstanding' = Released(a)
  /\ Returns(a)
  /\ UNCHANGED <<maps, conns, stale, hung, restarts, latest>>

\* What the maps remember of a connection put in the pool, in one save.
Stored(k, s) ==
  IF k \in Native THEN UNCHANGED <<suspended, persisted, saved>>
  ELSE /\ persisted' = [persisted EXCEPT ![k] = s]
       /\ suspended' = [suspended EXCEPT ![k] = 0]
       /\ saved' = persisted'

\* The connection takes the slot that was reserved for it.
Insert(a) ==
  LET t == task[a] IN
  /\ t.step = "insert" /\ ~InPool(t.key)
  /\ active' = [active EXCEPT ![t.key] = t.conn]
  /\ Stored(t.key, sid[t.conn])
  /\ latest' = [latest EXCEPT ![t.key] = sid[t.conn]]
  /\ outstanding' = outstanding - 1
  /\ Returns(a)
  /\ UNCHANGED <<conns, stale, hung, restarts>>
-----------------------------------------------------------------------------
(* with_connection, and the calls that only lock the connection. *)

\* The connection of the key, read under the state lock.
Prompt(a, k) ==
  /\ task[a].step = "idle" /\ active[k] # 0
  /\ Goes(a, Doing("claim", k, active[k], 0))
  /\ UNCHANGED <<maps, gate, outstanding, conns, stale, hung, restarts, latest>>

\* Mutated form of Claimable: an unlocked connection is taken for idle.
ClaimableUnlocked(c) == Free(c)

Claimable(c) == Free(c) /\ phase[c] = "idle"

\* The claim of the phase, IDLE to BUSY.
Claim(a) ==
  LET c == task[a].conn IN
  /\ task[a].step = "claim" /\ Claimable(c)
  /\ phase' = [phase EXCEPT ![c] = "busy"]
  /\ Goes(a, At(a, "enter"))
  /\ UNCHANGED <<maps, gate, outstanding, sid, dead, mutex, stale, hung,
                 restarts, latest>>

\* The session is busy or being evicted.
Refused(a) ==
  /\ task[a].step = "claim" /\ ~Claimable(task[a].conn)
  /\ Goes(a, Idle)
  /\ UNCHANGED <<maps, gate, outstanding, conns, stale, hung, restarts, latest>>

\* conn.lock().await, of a prompt or of a question.
Enter(a) ==
  LET c == task[a].conn IN
  /\ task[a].step \in {"enter", "asking"} /\ Free(c)
  /\ mutex' = [mutex EXCEPT ![c] = a]
  /\ Goes(a, At(a, IF task[a].step = "enter" THEN "running" ELSE "asked"))
  /\ UNCHANGED <<maps, gate, outstanding, sid, dead, phase, stale, hung,
                 restarts, latest>>

\* The prompt has ended: the connection is unlocked first.
Unlock(a) ==
  /\ task[a].step \in {"running", "asked"}
  /\ mutex' = [mutex EXCEPT ![task[a].conn] = Nobody]
  /\ Goes(a, IF task[a].step = "asked" THEN Idle
             ELSE At(a, "release"))
  /\ UNCHANGED <<maps, gate, outstanding, sid, dead, phase, stale, hung,
                 restarts, latest>>

\* Drop of PhaseGuard: phase_force_set, which does nothing when the connection
\* is locked.
PhaseFreed(c) == IF Free(c) THEN [phase EXCEPT ![c] = "idle"] ELSE phase

Release(a) ==
  /\ task[a].step = "release"
  /\ phase' = PhaseFreed(task[a].conn)
  /\ Goes(a, Idle)
  /\ UNCHANGED <<maps, gate, outstanding, sid, dead, mutex, stale, hung,
                 restarts, latest>>

\* get_config_options, set_config_option, get_usage, set_session_write_policy
Ask(a, k) ==
  /\ task[a].step = "idle" /\ active[k] # 0
  /\ Goes(a, Doing("asking", k, active[k], 0))
  /\ UNCHANGED <<maps, gate, outstanding, conns, stale, hung, restarts, latest>>

\* The caller is cancelled.  What it holds is dropped, the last first: the
\* PhaseGuard of a running prompt finds the connection locked, and a prompt that
\* waits for the lock has no PhaseGuard yet.
Cancelled(a) ==
  /\ task[a].step \notin {"idle", "release"}
  /\ outstanding' = Released(a)
  /\ phase' = IF task[a].step = "running" THEN PhaseFreed(task[a].conn) ELSE phase
  /\ mutex' = [c \in Conns |-> IF mutex[c] = a THEN Nobody ELSE mutex[c]]
  /\ Returns(a)
  /\ UNCHANGED <<maps, sid, dead, stale, hung, restarts, latest>>
-----------------------------------------------------------------------------
(* Reset, cleanup, the end of a process and of the daemon. *)

Forgotten(k) ==
  /\ suspended' = [suspended EXCEPT ![k] = 0]
  /\ persisted' = [persisted EXCEPT ![k] = 0]

\* Mutated form of GateAfterReset: the gate goes with the rest.
GateDropped(k) == [gate EXCEPT ![k] = Nobody]

\* purge_session_entries leaves the gate alone.
GateAfterReset(k) == gate

\* tear_down, for reset_session and discard_session
Reset(a, k) ==
  /\ task[a].step = "idle"
  /\ active' = [active EXCEPT ![k] = 0]
  /\ Forgotten(k)
  /\ saved' = persisted'
  /\ gate' = GateAfterReset(k)
  /\ UNCHANGED <<outstanding, conns, task, stale, hung, restarts, latest>>

\* cleanup_idle looks at the connections: one that is not locked may be idle for
\* too long, or its process gone; a locked one whose prompt runs for too long is
\* hung.
Scan ==
  LET prompted == {k \in Live : \E a \in Callers : /\ task[a].step = "running"
                                                   /\ task[a].conn = active[k]}
      unlocked == {k \in Live : Free(active[k])}
  IN  /\ stale = {} /\ hung = {}
      /\ \E old \in SUBSET unlocked, slow \in SUBSET prompted :
           /\ old \cup slow # {}
           /\ {k \in unlocked : active[k] \in dead} \subseteq old
           /\ stale' = {<<k, active[k]>> : k \in old}
           /\ hung' = {<<k, active[k]>> : k \in slow}
      /\ UNCHANGED <<maps, gate, outstanding, conns, task, restarts, latest>>

\* Mutated form of Still: whatever the key has now is meant.
StillThere(S) == {p \in S : active[p[1]] # 0}

\* remove_if_same_handle: what was looked at is still in the pool.
Still(S) == {p \in S : active[p[1]] = p[2]}

\* What was found is removed under the lock; only idle sessions can be resumed.
Sweep ==
  LET idle == Still(stale)
      stuck == Still(hung)
      gone == {p[1] : p \in idle \cup stuck}
      kept == {p \in idle : p[1] \notin Native}
      Resumed(m) == [k \in Keys |-> IF \E p \in kept : p[1] = k
                                      THEN sid[(CHOOSE p \in kept : p[1] = k)[2]]
                                    ELSE IF \E p \in stuck : p[1] = k THEN 0 ELSE m[k]]
  IN  /\ stale \cup hung # {}
      /\ active' = [k \in Keys |-> IF k \in gone THEN 0 ELSE active[k]]
      /\ suspended' = Resumed(suspended) /\ persisted' = Resumed(persisted)
      /\ saved' = persisted'
      /\ stale' = {} /\ hung' = {}
      /\ UNCHANGED <<gate, outstanding, conns, task, restarts, latest>>

\* The agent process ends by itself, where somebody can still see it.
Die(c) ==
  /\ c \in 1 .. Len(sid) /\ c \notin dead
  /\ \/ \E k \in Keys : active[k] = c
     \/ \E a \in Callers : task[a].conn = c /\ task[a].step = "look"
  /\ dead' = dead \cup {c}
  /\ UNCHANGED <<maps, gate, outstanding, sid, phase, mutex, task, stale, hung,
                 restarts, latest>>

\* The daemon ends and is started again with what the file holds.
Restart ==
  /\ restarts < MaxRestarts /\ restarts' = restarts + 1
  /\ active' = [k \in Keys |-> 0]
  /\ persisted' = saved /\ suspended' = saved
  /\ gate' = [k \in Keys |-> Nobody] /\ outstanding' = 0
  /\ dead' = 1 .. Len(sid)
  /\ phase' = [c \in Conns |-> "idle"] /\ mutex' = [c \in Conns |-> Nobody]
  /\ task' = [a \in Callers |-> Idle]
  /\ stale' = {} /\ hung' = {}
  /\ UNCHANGED <<saved, sid, latest>>
-----------------------------------------------------------------------------
Creation(a) == Look(a) \/ Reserve(a) \/ Exhausted(a) \/ SpawnFails(a)
               \/ Connect(a) \/ Yield(a) \/ Insert(a)
Use(a) == Claim(a) \/ Refused(a) \/ Enter(a) \/ Unlock(a) \/ Release(a)

Next == \/ \E a \in Callers : Creation(a) \/ Use(a) \/ Cancelled(a)
        \/ \E a \in Callers, k \in Keys :
             Begin(a, k) \/ Evict(a, k) \/ Prompt(a, k) \/ Ask(a, k) \/ Reset(a, k)
        \/ Scan \/ Sweep \/ Restart \/ \E c \in Conns : Die(c)

Spec == Init /\ [][Next]_vars
-----------------------------------------------------------------------------
(* Properties. *)

TypeOK ==
  /\ active \in [Keys -> Sessions] /\ suspended \in [Keys -> Sessions]
  /\ persisted \in [Keys -> Sessions] /\ saved \in [Keys -> Sessions]
  /\ gate \in [Keys -> Callers \cup {Nobody}]
  /\ outstanding \in Nat
  /\ sid \in Seq(Conns) /\ Len(sid) <= MaxConns /\ dead \subseteq 1 .. Len(sid)
  /\ phase \in [Conns -> {"idle", "busy", "evicting"}]
  /\ mutex \in [Conns -> Callers \cup {Nobody}]
  /\ task \in [Callers -> [step : Steps, key : Keys, conn : Sessions, saved : Sessions]]
  /\ stale \subseteq Keys \X Conns /\ hung \subseteq Keys \X Conns
  /\ restarts \in 0 .. MaxRestarts /\ latest \in [Keys -> Sessions]

\* The pool never holds more sessions than it may, those being created
\* included, and the reservations counted are those held: none leaks when a
\* creation fails, yields to another or is cancelled (CreationReservation and
\* ensure_capacity_or_evict).
CapacityHolds ==
  /\ outstanding = Cardinality(Reserving)
  /\ Cardinality(Live) + outstanding <= MaxSessions

\* A thread has at most one session in the making, whatever resets and failures
\* come in between: rapid messages cannot load one session twice (the creating
\* gate).
OneCreator == \A k \in Keys \ Native : Cardinality(Creating(k)) <= 1

\* Capacity eviction and prompts exclude each other: a session claimed for
\* eviction has no prompt in it or about to enter, and has left the pool
\* (find_oldest_idle_eviction_candidate against with_connection).
EvictedIsQuiet ==
  \A c \in Conns : phase[c] = "evicting" =>
    /\ \A a \in Callers : task[a].conn = c =>
         task[a].step \notin {"enter", "running", "release"}
    /\ \A k \in Keys : active[k] # c

\* One prompt at a time: no second caller is between its claim of a connection
\* and its release (with_connection).
OnePrompt ==
  \A a, b \in Callers :
    /\ {task[a].step, task[b].step} \subseteq {"enter", "running", "release"}
    /\ task[a].conn = task[b].conn
    => a = b

\* A crash at any moment loses no session of a live thread, and none of a native
\* dispatch is ever kept for it: the file names the session that the thread last
\* had, and the session of its connection if it has one (get_or_create, the
\* evictions and cleanup_idle, against new).
LiveIsResumable ==
  /\ \A k \in Keys \ Native :
       /\ active[k] # 0 => saved[k] = sid[active[k]]
       /\ saved[k] \in {0, latest[k]} /\ persisted[k] = saved[k]
       /\ suspended[k] \in {0, persisted[k]}
  /\ \A k \in Native : suspended[k] = 0 /\ persisted[k] = 0 /\ saved[k] = 0

\* A conversation belongs to one thread: what is in the pool, put away or on file
\* for a thread was never another thread's, whichever of them made room for the
\* other and whatever was reset, cleaned up or restarted in between (the session
\* travels by key through get_or_create, the evictions and cleanup_idle).
Remembered(k) == {latest[k], suspended[k], persisted[k], saved[k]}
                 \cup (IF active[k] = 0 THEN {} ELSE {sid[active[k]]})

SessionsArePrivate ==
  \A k, l \in Keys : k # l => Remembered(k) \cap Remembered(l) \subseteq {0}

\* "On Drop (every exit path: success, error, cancellation, timeout, panic) the
\* phase transitions BUSY -> IDLE" (with_connection): a session of the pool is
\* busy only for a caller that has it claimed.
BusyMeansPrompt ==
  \A k \in Live : phase[active[k]] = "busy" =>
    \E a \in Callers : /\ task[a].conn = active[k]
                       /\ task[a].step \in {"enter", "running", "release"}
=============================================================================
