----------------------------- MODULE Dispatcher -----------------------------
(***************************************************************************)
(* The dispatcher that buffers the messages of one thread between turns    *)
(* (crates/openab-core/src/dispatch.rs).                                   *)
(*                                                                         *)
(* Every message is submitted by a task of its own.  A key has a consumer, *)
(* spawned on demand, with a bounded queue; it takes a batch of messages,  *)
(* makes one agent turn of it, and leaves when no message comes for a      *)
(* while.  Anyone may cancel the thread, which aborts its consumers.  With *)
(* grouping by thread there is one key; with grouping by lane one for each *)
(* sender, and all of them share the session of the thread.                *)
(*                                                                         *)
(* A consumer is named by its generation.  What a turn does with the agent *)
(* is left out; of the session only its claim is kept (see SessionPool).   *)
(***************************************************************************)
EXTENDS Naturals, Sequences, FiniteSets

CONSTANTS
  Keys,          \* the dispatcher keys of the thread
  Messages,      \* messages that may arrive
  KeyOf,         \* the key of each message
  Native,        \* messages with native_workflow metadata
  Tokens,        \* estimated_tokens of each message
  Cap,           \* max_buffered_messages, of the queue and of a batch
  MaxTokens,     \* max_batch_tokens
  MaxConsumers   \* bound: consumers ever spawned

ASSUME DispatcherAssumption ==
  /\ Keys # {} /\ KeyOf \in [Messages -> Keys] /\ Tokens \in [Messages -> Nat]
  /\ Native \subseteq Messages
  /\ Cap \in Nat \ {0} /\ MaxTokens \in Nat /\ MaxConsumers \in Nat

Consumers == 1 .. MaxConsumers

VARIABLES
  registered,  \* per_thread: the consumer of each key, 0 for none
  spawned,     \* consumers spawned so far
  key,         \* the key of each consumer
  step,        \* what each consumer is doing
  doomed,      \* consumers that were aborted
  queue,       \* the messages in the channel of each consumer
  held,        \* pending: at most one message, taken out of the queue
  batch,       \* the messages of the current turn
  call,        \* how far the submission of each message is, and to whom
  session,     \* the consumer that has claimed the session, 0 for none
  entered,     \* history: the messages each consumer was sent
  started,     \* history: the messages each consumer has made turns of
  refused      \* history: messages whose turn was refused the session while
               \* another lane used it

consumers == <<step, doomed, queue, held, batch, entered, started>>
vars == <<registered, spawned, key, step, doomed, queue, held, batch, call,
          session, entered, started, refused>>
-----------------------------------------------------------------------------
\* The receiver of a closed consumer has been dropped; the task of a gone one
\* is finished as well.
Receiving == {"waiting", "packing", "prompting", "leaving"}

\* Bound: consumers are only lost while another can be spawned for each key.
Spare == spawned + Cardinality(Keys) <= MaxConsumers

Submitting(at, to) == [at |-> at, to |-> to]

Init == /\ registered = [k \in Keys |-> 0] /\ spawned = 0
        /\ key = [g \in Consumers |-> CHOOSE k \in Keys : TRUE]
        /\ step = [g \in Consumers |-> "unborn"]
        /\ doomed = {}
        /\ queue = [g \in Consumers |-> <<>>] /\ held = [g \in Consumers |-> <<>>]
        /\ batch = [g \in Consumers |-> <<>>]
        /\ call = [m \in Messages |-> Submitting("new", 0)]
        /\ session = 0
        /\ entered = [g \in Consumers |-> <<>>] /\ started = [g \in Consumers |-> <<>>]
        /\ refused = {}
-----------------------------------------------------------------------------
(* submit *)

Calls(m, at, to) == call' = [call EXCEPT ![m] = Submitting(at, to)]

\* or_insert_with: m goes to the consumer r of its key, or to a fresh one.
SendTo(m, r, at) ==
  IF r # 0
    THEN Calls(m, at, r) /\ UNCHANGED <<registered, spawned, key, step>>
    ELSE LET g == spawned + 1 IN
         /\ g \in Consumers
         /\ spawned' = g
         /\ registered' = [registered EXCEPT ![KeyOf[m]] = g]
         /\ key' = [key EXCEPT ![g] = KeyOf[m]]
         /\ step' = [step EXCEPT ![g] = "waiting"]
         /\ Calls(m, at, g)

\* Under the lock an entry whose task has finished is replaced.
Look(m) ==
  LET r == registered[KeyOf[m]] IN
  /\ call[m].at = "new"
  /\ SendTo(m, IF r # 0 /\ step[r] = "gone" THEN 0 ELSE r, "send")
  /\ UNCHANGED <<doomed, queue, held, batch, session, entered, started, refused>>

\* Mutated form of Room: off by one.
RoomForOneMore(g) == Len(queue[g]) <= Cap

\* The capacity of the channel.
Room(g) == Len(queue[g]) < Cap

\* tx.send: parked while the queue is full.
Enqueue(m) ==
  LET g == call[m].to IN
  /\ call[m].at \in {"send", "resend"}
  /\ step[g] \in Receiving
  /\ Room(g)
  /\ queue' = [queue EXCEPT ![g] = Append(@, m)]
  /\ entered' = [entered EXCEPT ![g] = Append(@, m)]
  /\ Calls(m, "accepted", g)
  /\ UNCHANGED <<registered, spawned, key, step, doomed, held, batch, session,
                 started, refused>>

\* The receiver is gone, perhaps while m was parked.
SendFails(m) ==
  /\ call[m].at \in {"send", "resend"}
  /\ step[call[m].to] \notin Receiving
  /\ Calls(m, IF call[m].at = "send" THEN "evict" ELSE "give up", call[m].to)
  /\ UNCHANGED <<registered, spawned, key, consumers, session, refused>>

\* Mutated form of TryEvict: whoever is registered is removed.
TryEvictAnyone(k, g) == registered' = [registered EXCEPT ![k] = 0]

\* Mutated form of TryEvict: only an entry inserted since is removed.
TryEvictNewer(k, g) ==
  registered' = IF registered[k] > g THEN [registered EXCEPT ![k] = 0] ELSE registered

\* try_evict_locked
TryEvict(k, g) ==
  registered' = IF registered[k] = g THEN [registered EXCEPT ![k] = 0] ELSE registered

Evict(m) ==
  /\ \/ call[m].at = "evict" /\ Calls(m, "retry", call[m].to)
     \/ call[m].at = "give up" /\ Calls(m, "failed", call[m].to)
  /\ TryEvict(KeyOf[m], call[m].to)
  /\ UNCHANGED <<spawned, key, consumers, session, refused>>

\* The second attempt takes the consumer that is registered, finished or not.
Retry(m) ==
  /\ call[m].at = "retry"
  /\ SendTo(m, registered[KeyOf[m]], "resend")
  /\ UNCHANGED <<doomed, queue, held, batch, session, entered, started, refused>>
-----------------------------------------------------------------------------
(* consumer_loop *)

\* The tokens of the first n messages of s.
Weight(s, n) ==
  LET f[i \in Nat] == IF i = 0 THEN 0 ELSE f[i - 1] + Tokens[s[i]] IN f[n]

\* Mutated form of MayJoin: a native message is taken like any other.
MayJoinNative(s, n) == n <= Cap /\ Weight(s, n) <= MaxTokens

\* The n-th message of s may join the batch of those before it.
MayJoin(s, n) == /\ s[1] \notin Native /\ s[n] \notin Native
                 /\ n <= Cap /\ Weight(s, n) <= MaxTokens

\* How many messages a batch can take off the front of s: as many as may join,
\* one after the other.
BatchSizes(s) == {n \in 1 .. Len(s) : \A i \in 2 .. n : MayJoin(s, i)}

\* How many messages the drain takes out of the queue and cannot use: the one
\* that made it stop, if it did not stop for the size of the batch.
Parked(s, n) == IF s[1] \notin Native /\ n < Cap /\ n < Len(s) THEN 1 ELSE 0

\* Mutated form of Waiting: the held message goes behind the queue.
WaitingBehind(g) == queue[g] \o held[g]

\* What the consumer has before it: pending.take() comes first.
Waiting(g) == held[g] \o queue[g]

\* Mutated form of Ready: only the queue is looked at.
ReadyQueue(g) == queue[g] # <<>>

Ready(g) == Waiting(g) # <<>>

Collect(g) ==
  LET s == Waiting(g) IN
  /\ step[g] = "waiting"
  /\ Ready(g)
  /\ \E n \in BatchSizes(s) :
       /\ \A i \in BatchSizes(s) : i <= n
       /\ batch' = [batch EXCEPT ![g] = SubSeq(s, 1, n)]
       /\ held' = [held EXCEPT ![g] = SubSeq(s, n + 1, n + Parked(s, n))]
       /\ queue' = [queue EXCEPT ![g] = SubSeq(s, n + Parked(s, n) + 1, Len(s))]
       /\ started' = [started EXCEPT ![g] = @ \o SubSeq(s, 1, n)]
  /\ step' = [step EXCEPT ![g] = "packing"]
  /\ UNCHANGED <<registered, spawned, key, doomed, call, session, entered, refused>>

\* The consumer has waited idle_timeout for a message.
TimedOut(g) ==
  /\ step[g] = "waiting" /\ Waiting(g) = <<>> /\ Spare
  /\ step' = [step EXCEPT ![g] = "leaving"]
  /\ UNCHANGED <<registered, spawned, key, doomed, queue, held, batch, call,
                 session, entered, started, refused>>

\* The receiver is dropped with everything in it.
Closes(g) == /\ step' = [step EXCEPT ![g] = "closed"]
             /\ queue' = [queue EXCEPT ![g] = <<>>]
             /\ held' = [held EXCEPT ![g] = <<>>]
             /\ batch' = [batch EXCEPT ![g] = <<>>]

Leave(g) ==
  /\ step[g] = "leaving"
  /\ Closes(g)
  /\ UNCHANGED <<registered, spawned, key, doomed, call, session, entered, started,
                 refused>>

\* The task is marked finished.
Finish(g) ==
  /\ step[g] = "closed"
  /\ step' = [step EXCEPT ![g] = "gone"]
  /\ UNCHANGED <<registered, spawned, key, doomed, queue, held, batch, call,
                 session, entered, started, refused>>

\* At the end of a turn the claim of the session is given back, unless the
\* release finds the connection locked and leaves it.
Released(g) == session' = session \/ (session = g /\ session' = 0)

\* An aborted consumer ends at an await, a panicking one in its turn.  How far
\* an aborted one runs on before is left open.
Die(g) ==
  /\ \/ g \in doomed /\ step[g] \in {"waiting", "packing", "prompting"}
     \/ step[g] \in {"packing", "prompting"} /\ Spare
  /\ Closes(g)
  /\ Released(g)
  /\ UNCHANGED <<registered, spawned, key, doomed, call, entered, started, refused>>
-----------------------------------------------------------------------------
(* dispatch_batch *)

TurnOver(g) == /\ step' = [step EXCEPT ![g] = "waiting"]
               /\ batch' = [batch EXCEPT ![g] = <<>>]
               /\ UNCHANGED <<registered, spawned, key, doomed, queue, held, call,
                              entered, started>>

\* No prompt is made: the turn was suppressed, consumed by the Runtime, or had
\* no session.
EndsEarly(g) ==
  /\ step[g] = "packing"
  /\ TurnOver(g)
  /\ UNCHANGED <<session, refused>>

\* with_connection claims the session ...
Prompt(g) ==
  /\ step[g] = "packing" /\ session = 0
  /\ session' = g
  /\ step' = [step EXCEPT ![g] = "prompting"]
  /\ UNCHANGED <<registered, spawned, key, doomed, queue, held, batch, call, entered,
                 started, refused>>

\* ... or refuses: the user is told, and the messages are done with.
Refused(g) ==
  /\ step[g] = "packing" /\ session # 0
  /\ refused' = refused \cup
       (IF step[session] = "prompting" /\ session \notin doomed
          THEN {batch[g][i] : i \in 1 .. Len(batch[g])} ELSE {})
  /\ TurnOver(g)
  /\ UNCHANGED session

EndTurn(g) ==
  /\ step[g] = "prompting"
  /\ TurnOver(g)
  /\ Released(g)
  /\ UNCHANGED refused
-----------------------------------------------------------------------------
(* The rest *)

\* cancel_buffered_thread, and shutdown: every lane of the thread.
Cancel ==
  /\ \E k \in Keys : registered[k] # 0
  /\ Spare
  /\ doomed' = doomed \cup {registered[k] : k \in {j \in Keys : registered[j] # 0}}
  /\ registered' = [k \in Keys |-> 0]
  /\ UNCHANGED <<spawned, key, step, queue, held, batch, call, session, entered,
                 started, refused>>

\* sweep_stale
Stale(k) == registered[k] # 0 /\ step[registered[k]] = "gone"

Sweep ==
  /\ \E k \in Keys : Stale(k)
  /\ registered' = [k \in Keys |-> IF Stale(k) THEN 0 ELSE registered[k]]
  /\ UNCHANGED <<spawned, key, consumers, call, session, refused>>

\* A session left claimed, or hung, is evicted; a reset gives the thread a new
\* one.
Renew ==
  /\ session # 0
  /\ session' = 0
  /\ UNCHANGED <<registered, spawned, key, consumers, call, refused>>

Submits(m) == Look(m) \/ Enqueue(m) \/ SendFails(m) \/ Evict(m) \/ Retry(m)
Runs(g) == \/ Collect(g) \/ Leave(g) \/ Finish(g)
           \/ EndsEarly(g) \/ Prompt(g) \/ Refused(g) \/ EndTurn(g)

Next == \/ \E m \in Messages : Submits(m)
        \/ \E g \in Consumers : Runs(g) \/ TimedOut(g) \/ Die(g)
        \/ Cancel \/ Sweep \/ Renew

Spec == Init /\ [][Next]_vars

\* Submissions and consumers are scheduled; a turn ends, by its answer or by the
\* time limit of the prompt.  Nothing says that a consumer ever times out, that
\* anyone cancels, or that a sweep comes.
FairSpec == /\ Spec
            /\ \A m \in Messages : WF_vars(call[m].at # "new" /\ Submits(m))
            /\ \A g \in Consumers : WF_vars(Runs(g))
-----------------------------------------------------------------------------
Prefix(s, t) == Len(s) <= Len(t) /\ s = SubSeq(t, 1, Len(s))

\* Every variable has its type.
TypeOK ==
  /\ registered \in [Keys -> 0 .. spawned]
  /\ spawned \in 0 .. MaxConsumers
  /\ key \in [Consumers -> Keys]
  /\ step \in [Consumers -> Receiving \cup {"unborn", "closed", "gone"}]
  /\ doomed \subseteq 1 .. spawned
  /\ \A f \in {queue, held, batch, entered, started} : f \in [Consumers -> Seq(Messages)]
  /\ \A g \in Consumers : Len(queue[g]) <= Cap /\ Len(held[g]) <= 1
  /\ call \in [Messages ->
       [at : {"new", "send", "resend", "evict", "retry", "give up", "accepted", "failed"},
        to : 0 .. spawned]]
  /\ session \in 0 .. spawned
  /\ refused \subseteq Messages

\* A consumer that was not aborted and still takes messages is the one that is
\* registered for its key: no submission, sweep or lost race ever leaves two at
\* work for one key.
OneConsumer == \A g \in Consumers :
  step[g] \in Receiving /\ g \notin doomed => registered[key[g]] = g

\* No reordering: a consumer makes turns of its messages in the order they were
\* accepted, and as long as it receives, the ones it has not come to are waiting.
InOrderOnce == \A g \in Consumers :
  IF step[g] \in Receiving THEN entered[g] = started[g] \o Waiting(g)
                           ELSE Prefix(started[g], entered[g])

\* A native message has its turn for itself, and a turn of several messages keeps
\* to the limits.
BatchesAreFit == \A g \in Consumers :
  Len(batch[g]) > 1 => /\ \A i \in 1 .. Len(batch[g]) : batch[g][i] \notin Native
                       /\ Len(batch[g]) <= Cap
                       /\ Weight(batch[g], Len(batch[g])) <= MaxTokens

\* The second attempt of a submission never goes to the consumer that failed the
\* first: it has been retired, or someone else has replaced it already.
RetryGoesElsewhere == \A m \in Messages :
  call[m].at = "retry" => registered[KeyOf[m]] # call[m].to

\* Every submission ends: its message gets into a turn, or its sender is told, or
\* the consumer that had accepted it has gone.
Ends(m) == \/ call[m].at = "failed"
           \/ /\ call[m].at = "accepted"
              /\ \/ \E i \in 1 .. Len(started[call[m].to]) : started[call[m].to][i] = m
                 \/ step[call[m].to] \in {"closed", "gone"}
EveryMessageEnds == \A m \in Messages : (call[m].at # "new") ~> Ends(m)

\* Documented of the lanes (dispatch.rs:113-115): turns serialise through the shared
\* session.  No turn is refused because another lane has one under way.
TurnsSerialise == refused = {}

Promise == INSTANCE DispatcherPromise
  WITH Boxes <- Consumers, owner <- key, dismissed <- doomed,
       state <- [g \in Consumers |-> CASE step[g] = "unborn" -> "none"
                                       [] step[g] \in Receiving -> "open"
                                       [] OTHER -> "closed"],
       accepted <- entered, taken <- started,
       rejected <- {m \in Messages : call[m].at = "failed"}

\* A message is handed over to one consumer of its key or its sender is told that
\* it failed, never both and never twice, whatever retries, replaced consumers,
\* cancellations and late wake-ups of parked senders come together (submit and its
\* retry, consumer_loop).
KeepsPromise == Promise!PromiseSpec
=============================================================================
