-------------------------- MODULE DispatcherProofs --------------------------
(***************************************************************************)
(* For any number of keys, messages and consumers: one consumer at work    *)
(* for a key, no message reordered or taken twice, a failed submission is  *)
(* sent to another consumer, every turn keeps to the limits, and every     *)
(* step is one of DispatcherPromise or is not seen by it.                  *)
(***************************************************************************)
EXTENDS Dispatcher, SumTheorems, SequenceTheorems, TLAPS

\* A consumer not yet spawned has nothing.
UnbornAreEmpty == \A g \in Consumers : g > spawned =>
  /\ step[g] = "unborn"
  /\ queue[g] = <<>> /\ held[g] = <<>> /\ entered[g] = <<>> /\ started[g] = <<>>

\* A submission that is under way is with some consumer, and one that was
\* refused is with one that has gone.
CallsFit == \A m \in Messages :
  /\ call[m].at # "new" => call[m].to # 0
  /\ call[m].at \in {"evict", "retry", "give up"} => step[call[m].to] \notin Receiving

\* The inductive invariant.
IInv == TypeOK /\ UnbornAreEmpty /\ CallsFit /\ OneConsumer /\ InOrderOnce
             /\ RetryGoesElsewhere
-----------------------------------------------------------------------------
(* Sequences of messages. *)

\* A message put at the end of the queue is put at the end of all.
LEMMA AppendedLast ==
  ASSUME NEW S, NEW r \in Seq(S), NEW h \in Seq(S), NEW q \in Seq(S), NEW m \in S
  PROVE  r \o (h \o Append(q, m)) = Append(r \o (h \o q), m)
<1>1. Append(q, m) = q \o <<m>> /\ <<m>> \in Seq(S)
  BY AppendIsConcat
<1>2. h \o q \in Seq(S) /\ r \o (h \o q) \in Seq(S)
  BY ConcatProperties
<1>3. h \o Append(q, m) = (h \o q) \o <<m>>
  BY <1>1, ConcatAssociative
<1>4. r \o (h \o Append(q, m)) = (r \o (h \o q)) \o <<m>>
  BY <1>1, <1>2, <1>3, ConcatAssociative
<1> QED BY <1>2, <1>4, AppendIsConcat

\* A sequence cut in three.
LEMMA CutInThree ==
  ASSUME NEW S, NEW s \in Seq(S), NEW n \in 1 .. Len(s), NEW p \in Nat, n + p <= Len(s)
  PROVE  /\ SubSeq(s, 1, n) \in Seq(S) /\ Len(SubSeq(s, 1, n)) = n
         /\ SubSeq(s, n + 1, n + p) \in Seq(S) /\ Len(SubSeq(s, n + 1, n + p)) = p
         /\ SubSeq(s, n + p + 1, Len(s)) \in Seq(S)
         /\ Len(SubSeq(s, n + p + 1, Len(s))) = Len(s) - n - p
         /\ SubSeq(s, 1, n) \o (SubSeq(s, n + 1, n + p) \o SubSeq(s, n + p + 1, Len(s))) = s
<1>0. Len(s) \in Nat /\ \A i \in 1 .. Len(s) : s[i] \in S
  BY LenProperties, ElementOfSeq
<1>1. SubSeq(s, 1, n) \in Seq(S) /\ Len(SubSeq(s, 1, n)) = n
  BY <1>0, SubSeqProperties
<1>2. SubSeq(s, n + 1, n + p) \in Seq(S) /\ Len(SubSeq(s, n + 1, n + p)) = p
  <2>1. \A i \in n + 1 .. n + p : s[i] \in S
    BY <1>0
  <2> QED BY <2>1, SubSeqProperties
<1>3. SubSeq(s, n + p + 1, Len(s)) \in Seq(S) /\ Len(SubSeq(s, n + p + 1, Len(s))) = Len(s) - n - p
  <2>1. \A i \in n + p + 1 .. Len(s) : s[i] \in S
    BY <1>0
  <2> QED BY <2>1, <1>0, SubSeqProperties
<1>4. SubSeq(s, n + 1, n + p) \o SubSeq(s, n + p + 1, Len(s)) = SubSeq(s, n + 1, Len(s))
  <2>1. n + 1 \in 1 .. Len(s) + 1 /\ n + p \in (n + 1) - 1 .. Len(s) /\ Len(s) \in n + p .. Len(s)
    BY <1>0
  <2> QED BY <2>1, ConcatAdjacentSubSeq
<1>5. SubSeq(s, 1, n) \o SubSeq(s, n + 1, Len(s)) = SubSeq(s, 1, Len(s))
  <2>1. 1 \in 1 .. Len(s) + 1 /\ n \in 1 - 1 .. Len(s) /\ Len(s) \in n .. Len(s)
    BY <1>0
  <2> QED BY <2>1, ConcatAdjacentSubSeq
<1>6. SubSeq(s, 1, Len(s)) = s
  BY SubSeqFull
<1> QED BY <1>1, <1>2, <1>3, <1>4, <1>5, <1>6

\* What comes first is a prefix.
LEMMA FrontIsPrefix ==
  ASSUME NEW S, NEW r \in Seq(S), NEW w \in Seq(S)
  PROVE  Prefix(r, r \o w)
<1>1. /\ r \o w \in Seq(S) /\ Len(r \o w) = Len(r) + Len(w)
      /\ \A i \in 1 .. Len(r) : (r \o w)[i] = r[i]
  BY ConcatProperties
<1>2. Len(r) \in Nat /\ Len(w) \in Nat
  BY LenProperties
<1>3. \A i \in 1 .. Len(r) : (r \o w)[i] \in S
  BY <1>1, ElementOfSeq
<1> DEFINE t == SubSeq(r \o w, 1, Len(r))
<1>4. /\ t \in Seq(S) /\ Len(t) = Len(r)
      /\ \A i \in 1 .. Len(r) : t[i] = (r \o w)[i]
  BY <1>2, <1>3, SubSeqProperties
<1>5. t = r
  BY <1>1, <1>2, <1>4, SeqEqual
<1> QED BY <1>1, <1>2, <1>5 DEF Prefix
-----------------------------------------------------------------------------
(* Types. *)

Ats == {"new", "send", "resend", "evict", "retry", "give up", "accepted", "failed"}
AllSteps == Receiving \cup {"unborn", "closed", "gone"}

\* The sequences of each consumer.
LEMMA Sequences ==
  ASSUME TypeOK, NEW g \in Consumers
  PROVE  /\ queue[g] \in Seq(Messages) /\ held[g] \in Seq(Messages)
         /\ batch[g] \in Seq(Messages) /\ entered[g] \in Seq(Messages)
         /\ started[g] \in Seq(Messages) /\ Waiting(g) \in Seq(Messages)
         /\ Len(queue[g]) \in Nat /\ Len(held[g]) \in Nat
         /\ Len(Waiting(g)) = Len(held[g]) + Len(queue[g])
<1>1. /\ queue[g] \in Seq(Messages) /\ held[g] \in Seq(Messages)
      /\ batch[g] \in Seq(Messages) /\ entered[g] \in Seq(Messages)
      /\ started[g] \in Seq(Messages)
  BY DEF TypeOK
<1> QED BY <1>1, ConcatProperties, LenProperties DEF Waiting

LEMMA Counting ==
  ASSUME TypeOK
  PROVE  /\ MaxConsumers \in Nat /\ spawned \in Nat /\ spawned <= MaxConsumers
         /\ \A m \in Messages : KeyOf[m] \in Keys
<1>1. MaxConsumers \in Nat /\ KeyOf \in [Messages -> Keys]
  BY DispatcherAssumption
<1>2. spawned \in 0 .. MaxConsumers
  BY DEF TypeOK
<1> QED BY <1>1, <1>2

LEMMA SubmissionType ==
  ASSUME TypeOK, NEW m \in Messages
  PROVE  call[m].at \in Ats /\ call[m].to \in 0 .. spawned
BY DEF TypeOK, Ats

LEMMA CallsTo ==
  ASSUME TypeOK, NEW m \in Messages, NEW at \in Ats, NEW n \in Nat, spawned <= n,
         NEW to \in 0 .. n, Calls(m, at, to)
  PROVE  /\ call' \in [Messages -> [at : Ats, to : 0 .. n]]
         /\ call'[m].at = at /\ call'[m].to = to
         /\ \A x \in Messages : x # m => call'[x] = call[x]
<1>1. call \in [Messages -> [at : Ats, to : 0 .. spawned]] /\ spawned \in Nat
  BY Counting DEF TypeOK, Ats
<1>2. call \in [Messages -> [at : Ats, to : 0 .. n]]
  BY <1>1
<1>3. Submitting(at, to) \in [at : Ats, to : 0 .. n]
      /\ Submitting(at, to).at = at /\ Submitting(at, to).to = to
  BY DEF Submitting
<1> QED BY <1>2, <1>3 DEF Calls

\* Where a message is sent to, and what becomes of the map.
LEMMA SendsTo ==
  ASSUME TypeOK, NEW m \in Messages, NEW r \in 0 .. spawned, NEW at \in {"send", "resend"},
         SendTo(m, r, at)
  PROVE  /\ spawned' \in 0 .. MaxConsumers /\ spawned <= spawned'
         /\ call' \in [Messages -> [at : Ats, to : 0 .. spawned']]
         /\ call'[m].at = at /\ call'[m].to \in 1 .. spawned'
         /\ \A x \in Messages : x # m => call'[x] = call[x]
         /\ registered' \in [Keys -> 0 .. spawned'] /\ key' \in [Consumers -> Keys]
         /\ step' \in [Consumers -> AllSteps]
         /\ \/ r # 0 /\ UNCHANGED <<registered, spawned, key, step>>
            \/ /\ r = 0 /\ spawned' = spawned + 1
               /\ registered'[KeyOf[m]] = spawned'
               /\ \A k \in Keys : k # KeyOf[m] => registered'[k] = registered[k]
               /\ key'[spawned'] = KeyOf[m] /\ step'[spawned'] = "waiting"
               /\ \A g \in Consumers : g # spawned' => key'[g] = key[g] /\ step'[g] = step[g]
<1>1. spawned \in Nat /\ MaxConsumers \in Nat /\ at \in Ats /\ KeyOf[m] \in Keys
  BY Counting DEF Ats
<1>2. /\ registered \in [Keys -> 0 .. spawned] /\ key \in [Consumers -> Keys]
      /\ step \in [Consumers -> AllSteps] /\ spawned \in 0 .. MaxConsumers
  BY DEF TypeOK, AllSteps
<1>3. CASE r # 0
  <2>1. Calls(m, at, r) /\ UNCHANGED <<registered, spawned, key, step>>
    BY <1>3 DEF SendTo
  <2> QED BY <2>1, <1>1, <1>2, <1>3, CallsTo
<1>4. CASE r = 0
  <2>1. /\ spawned + 1 \in Consumers /\ spawned' = spawned + 1
        /\ registered' = [registered EXCEPT ![KeyOf[m]] = spawned + 1]
        /\ key' = [key EXCEPT ![spawned + 1] = KeyOf[m]]
        /\ step' = [step EXCEPT ![spawned + 1] = "waiting"]
        /\ Calls(m, at, spawned + 1)
    BY <1>4 DEF SendTo
  <2>2. /\ call' \in [Messages -> [at : Ats, to : 0 .. spawned + 1]]
        /\ call'[m].at = at /\ call'[m].to = spawned + 1
        /\ \A x \in Messages : x # m => call'[x] = call[x]
    BY <2>1, <1>1, CallsTo
  <2>3. "waiting" \in AllSteps
    BY DEF AllSteps, Receiving
  <2>4. /\ registered' \in [Keys -> 0 .. spawned + 1] /\ registered'[KeyOf[m]] = spawned + 1
        /\ \A k \in Keys : k # KeyOf[m] => registered'[k] = registered[k]
    BY <2>1, <1>1, <1>2
  <2>5. /\ key' \in [Consumers -> Keys] /\ step' \in [Consumers -> AllSteps]
        /\ key'[spawned + 1] = KeyOf[m] /\ step'[spawned + 1] = "waiting"
        /\ \A g \in Consumers : g # spawned + 1 => key'[g] = key[g] /\ step'[g] = step[g]
    BY <2>1, <2>3, <1>1, <1>2
  <2>6. spawned + 1 \in 0 .. MaxConsumers /\ spawned <= spawned + 1
        /\ spawned + 1 \in 1 .. spawned + 1
    BY <2>1, <1>1 DEF Consumers
  <2> QED BY <2>1, <2>2, <2>4, <2>5, <2>6, <1>4
<1> QED BY <1>3, <1>4

\* The consumer that is looked up.
LEMMA LooksAt ==
  ASSUME TypeOK, NEW m \in Messages, Look(m)
  PROVE  LET r == registered[KeyOf[m]]
             q == IF r # 0 /\ step[r] = "gone" THEN 0 ELSE r
         IN  q \in 0 .. spawned /\ SendTo(m, q, "send")
<1>1. registered[KeyOf[m]] \in 0 .. spawned /\ spawned \in Nat
  BY Counting DEF TypeOK
<1> QED BY <1>1 DEF Look

LEMMA RetriesAt ==
  ASSUME TypeOK, NEW m \in Messages, Retry(m)
  PROVE  registered[KeyOf[m]] \in 0 .. spawned /\ SendTo(m, registered[KeyOf[m]], "resend")
BY Counting DEF TypeOK, Retry

\* What a batch leaves of a consumer's messages.
LEMMA Leftovers ==
  ASSUME NEW s \in Seq(Messages), NEW n \in BatchSizes(s), NEW h \in Nat, NEW q \in Nat,
         Len(s) = h + q, h <= 1, q <= Cap
  PROVE  LET p == Parked(s, n) IN
         /\ SubSeq(s, 1, n) \in Seq(Messages) /\ SubSeq(s, n + 1, n + p) \in Seq(Messages)
         /\ SubSeq(s, n + p + 1, Len(s)) \in Seq(Messages)
         /\ Len(SubSeq(s, n + 1, n + p)) <= 1
         /\ Len(SubSeq(s, n + p + 1, Len(s))) <= Cap
         /\ s = SubSeq(s, 1, n) \o (SubSeq(s, n + 1, n + p) \o SubSeq(s, n + p + 1, Len(s)))
<1>1. n \in 1 .. Len(s) /\ Len(s) \in Nat /\ Cap \in Nat
  BY DispatcherAssumption DEF BatchSizes
<1>2. Parked(s, n) \in {0, 1} /\ n + Parked(s, n) <= Len(s)
  <2>1. CASE s[1] \notin Native /\ n < Cap /\ n < Len(s)
    BY <2>1, <1>1 DEF Parked
  <2>2. CASE ~(s[1] \notin Native /\ n < Cap /\ n < Len(s))
    BY <2>2, <1>1 DEF Parked
  <2> QED BY <2>1, <2>2
<1> DEFINE p == Parked(s, n)
<1>3. p \in Nat /\ p <= 1 /\ n + p <= Len(s)
  BY <1>2
<1> HIDE DEF p
<1>4. /\ SubSeq(s, 1, n) \in Seq(Messages) /\ SubSeq(s, n + 1, n + p) \in Seq(Messages)
      /\ Len(SubSeq(s, n + 1, n + p)) = p
      /\ SubSeq(s, n + p + 1, Len(s)) \in Seq(Messages)
      /\ Len(SubSeq(s, n + p + 1, Len(s))) = Len(s) - n - p
      /\ SubSeq(s, 1, n) \o (SubSeq(s, n + 1, n + p) \o SubSeq(s, n + p + 1, Len(s))) = s
  BY <1>1, <1>3, CutInThree
<1>5. Len(s) - n - p <= Cap
  BY <1>1, <1>3
<1> QED BY <1>3, <1>4, <1>5 DEF p

\* What a batch takes, and what it leaves.
LEMMA Collects ==
  ASSUME TypeOK, NEW g \in Consumers, Collect(g)
  PROVE  \E b \in Seq(Messages), h \in Seq(Messages), q \in Seq(Messages) :
           /\ Waiting(g) = b \o (h \o q) /\ Len(h) <= 1 /\ Len(q) <= Cap
           /\ batch' = [batch EXCEPT ![g] = b] /\ held' = [held EXCEPT ![g] = h]
           /\ queue' = [queue EXCEPT ![g] = q]
           /\ started' = [started EXCEPT ![g] = @ \o b]
<1> DEFINE s == Waiting(g)
           p(n) == Parked(s, n)
<1>1. Len(held[g]) <= 1 /\ Len(queue[g]) <= Cap
  BY DEF TypeOK
<1>2. PICK n \in BatchSizes(s) :
        /\ batch' = [batch EXCEPT ![g] = SubSeq(s, 1, n)]
        /\ held' = [held EXCEPT ![g] = SubSeq(s, n + 1, n + p(n))]
        /\ queue' = [queue EXCEPT ![g] = SubSeq(s, n + p(n) + 1, Len(s))]
        /\ started' = [started EXCEPT ![g] = @ \o SubSeq(s, 1, n)]
  BY DEF Collect
<1>3. /\ SubSeq(s, 1, n) \in Seq(Messages) /\ SubSeq(s, n + 1, n + p(n)) \in Seq(Messages)
      /\ SubSeq(s, n + p(n) + 1, Len(s)) \in Seq(Messages)
      /\ Len(SubSeq(s, n + 1, n + p(n))) <= 1
      /\ Len(SubSeq(s, n + p(n) + 1, Len(s))) <= Cap
      /\ s = SubSeq(s, 1, n) \o (SubSeq(s, n + 1, n + p(n)) \o SubSeq(s, n + p(n) + 1, Len(s)))
  <2> HIDE DEF s
  <2>1. /\ s \in Seq(Messages) /\ Len(held[g]) \in Nat /\ Len(queue[g]) \in Nat
        /\ Len(s) = Len(held[g]) + Len(queue[g])
    BY Sequences DEF s
  <2> QED BY <1>1, <2>1, Leftovers
<1> HIDE DEF s, p
<1> QED BY <1>2, <1>3 DEF s

-----------------------------------------------------------------------------
(* Every step keeps the types. *)

LEMMA TypeOKInit == Init => TypeOK
<1> SUFFICES ASSUME Init PROVE TypeOK
  OBVIOUS
<1>1. /\ \A f \in {queue, held, batch, entered, started} : f \in [Consumers -> Seq(Messages)]
      /\ \A g \in Consumers : Len(queue[g]) <= Cap /\ Len(held[g]) <= 1
  BY EmptySeq, DispatcherAssumption DEF Init
<1>2. key \in [Consumers -> Keys]
  BY DispatcherAssumption DEF Init
<1>3. call \in [Messages -> [at : Ats, to : 0 .. spawned]]
  BY DEF Init, Submitting, Ats
<1>4. /\ registered \in [Keys -> 0 .. spawned] /\ spawned \in 0 .. MaxConsumers
      /\ step \in [Consumers -> AllSteps] /\ doomed \subseteq 1 .. spawned
      /\ session \in 0 .. spawned /\ refused \subseteq Messages
  BY DispatcherAssumption DEF Init, AllSteps
<1> QED BY <1>1, <1>2, <1>3, <1>4 DEF TypeOK, Ats, AllSteps

\* The parts of the type, which the steps disturb one by one.
Map == /\ registered \in [Keys -> 0 .. spawned] /\ spawned \in 0 .. MaxConsumers
       /\ key \in [Consumers -> Keys] /\ step \in [Consumers -> AllSteps]
       /\ doomed \subseteq 1 .. spawned
Contents == /\ queue \in [Consumers -> Seq(Messages)] /\ held \in [Consumers -> Seq(Messages)]
            /\ batch \in [Consumers -> Seq(Messages)]
            /\ entered \in [Consumers -> Seq(Messages)]
            /\ started \in [Consumers -> Seq(Messages)]
            /\ \A g \in Consumers : Len(queue[g]) <= Cap /\ Len(held[g]) <= 1
CallsTyped == call \in [Messages -> [at : Ats, to : 0 .. spawned]]
Rest == session \in 0 .. spawned /\ refused \subseteq Messages

LEMMA TypeParts == TypeOK <=> Map /\ Contents /\ CallsTyped /\ Rest
BY DEF TypeOK, Map, Contents, CallsTyped, Rest, Ats, AllSteps

\* A batch, the queue and what is held may be dropped.
LEMMA ClosesTo ==
  ASSUME TypeOK, NEW g \in Consumers, Closes(g)
  PROVE  /\ step' \in [Consumers -> AllSteps] /\ step'[g] = "closed"
         /\ \A x \in Consumers : x # g => /\ step'[x] = step[x] /\ queue'[x] = queue[x]
                                          /\ held'[x] = held[x]
         /\ queue'[g] = <<>> /\ held'[g] = <<>>
         /\ queue' \in [Consumers -> Seq(Messages)] /\ held' \in [Consumers -> Seq(Messages)]
         /\ batch' \in [Consumers -> Seq(Messages)]
         /\ \A x \in Consumers : Len(queue'[x]) <= Cap /\ Len(held'[x]) <= 1
<1>1. Map /\ Contents /\ Cap \in Nat
  BY TypeParts, DispatcherAssumption
<1>2. <<>> \in Seq(Messages) /\ Len(<<>>) = 0 /\ "closed" \in AllSteps
  BY EmptySeq DEF AllSteps
<1>3. step' \in [Consumers -> AllSteps] /\ step'[g] = "closed"
      /\ \A x \in Consumers : x # g => step'[x] = step[x]
  BY <1>1, <1>2 DEF Closes, Map
<1>4. /\ queue' \in [Consumers -> Seq(Messages)] /\ held' \in [Consumers -> Seq(Messages)]
      /\ batch' \in [Consumers -> Seq(Messages)]
      /\ queue'[g] = <<>> /\ held'[g] = <<>>
      /\ \A x \in Consumers : x # g => queue'[x] = queue[x] /\ held'[x] = held[x]
  BY <1>1, <1>2 DEF Closes, Contents
<1>5. ASSUME NEW x \in Consumers PROVE Len(queue'[x]) <= Cap /\ Len(held'[x]) <= 1
  <2>1. CASE x = g
    BY <2>1, <1>1, <1>2, <1>4
  <2>2. CASE x # g
    BY <2>2, <1>1, <1>4 DEF Contents
  <2> QED BY <2>1, <2>2
<1> QED BY <1>3, <1>4, <1>5

LEMMA TypeOKStep == TypeOK /\ UnbornAreEmpty /\ [Next]_vars => TypeOK'
<1> SUFFICES ASSUME TypeOK, UnbornAreEmpty, [Next]_vars PROVE TypeOK'
  OBVIOUS
<1>0. Map /\ Contents /\ CallsTyped /\ Rest /\ spawned \in Nat
  BY TypeParts, Counting
<1>a. ASSUME Map', Contents', CallsTyped', Rest' PROVE TypeOK'
  BY <1>a DEF TypeOK, Map, Contents, CallsTyped, Rest, Ats, AllSteps
<1>1. ASSUME NEW m \in Messages, Look(m) \/ Retry(m) PROVE TypeOK'
  <2>1. PICK r \in 0 .. spawned, at \in {"send", "resend"} : SendTo(m, r, at)
    BY <1>1, LooksAt, RetriesAt
  <2>2. /\ spawned' \in 0 .. MaxConsumers /\ spawned <= spawned' /\ spawned' \in Nat
        /\ registered' \in [Keys -> 0 .. spawned'] /\ key' \in [Consumers -> Keys]
        /\ step' \in [Consumers -> AllSteps]
        /\ call' \in [Messages -> [at : Ats, to : 0 .. spawned']]
    BY <2>1, SendsTo
  <2>3. UNCHANGED <<doomed, queue, held, batch, session, entered, started, refused>>
    BY <1>1 DEF Look, Retry
  <2>4. Map' /\ Rest'
    BY <2>2, <2>3, <1>0 DEF Map, Rest
  <2>5. Contents' /\ CallsTyped'
    BY <2>2, <2>3, <1>0 DEF Contents, CallsTyped
  <2> QED BY <2>4, <2>5, <1>a
<1>2. ASSUME NEW m \in Messages, Enqueue(m) PROVE TypeOK'
  <2> DEFINE g == call[m].to
  <2>1. /\ step[g] \in Receiving /\ Room(g) /\ Calls(m, "accepted", g)
        /\ queue' = [queue EXCEPT ![g] = Append(@, m)]
        /\ entered' = [entered EXCEPT ![g] = Append(@, m)]
        /\ UNCHANGED <<registered, spawned, key, step, doomed, held, batch, session,
                       started, refused>>
    BY <1>2 DEF Enqueue
  <2>2. g \in 0 .. spawned
    BY SubmissionType
  <2> HIDE DEF g
  <2>3. Map' /\ Rest'
    BY <2>1, <1>0 DEF Map, Rest
  <2>4. CallsTyped'
    <3>1. "accepted" \in Ats /\ spawned' = spawned
      BY <2>1 DEF Ats
    <3>2. call' \in [Messages -> [at : Ats, to : 0 .. spawned]]
      BY <2>1, <2>2, <3>1, <1>0, CallsTo
    <3> QED BY <3>1, <3>2 DEF CallsTyped
  <2>5. ASSUME NEW x \in Consumers, x = g
        PROVE  /\ Append(queue[x], m) \in Seq(Messages) /\ Append(entered[x], m) \in Seq(Messages)
               /\ Len(Append(queue[x], m)) <= Cap
    <3>1. queue[x] \in Seq(Messages) /\ entered[x] \in Seq(Messages) /\ Len(queue[x]) \in Nat
      BY Sequences
    <3>2. Len(queue[x]) < Cap /\ Cap \in Nat
      BY <2>1, <2>5, DispatcherAssumption DEF Room
    <3> QED BY <3>1, <3>2, AppendProperties
  <2>6. Contents'
    BY <2>1, <2>5, <1>0 DEF Contents
  <2> QED BY <2>3, <2>4, <2>6, <1>a
<1>3. ASSUME NEW m \in Messages, SendFails(m) \/ Evict(m) PROVE TypeOK'
  <2>1. UNCHANGED <<spawned, key, step, doomed, queue, held, batch, entered, started,
                    session, refused>>
    BY <1>3 DEF SendFails, Evict, consumers
  <2>2. PICK at \in Ats : Calls(m, at, call[m].to)
    BY <1>3 DEF SendFails, Evict, Ats
  <2>3. CallsTyped'
    BY <2>1, <2>2, <1>0, SubmissionType, CallsTo DEF CallsTyped
  <2>4. registered' \in [Keys -> 0 .. spawned]
    <3>1. registered' = registered \/ registered' = [registered EXCEPT ![KeyOf[m]] = 0]
      BY <1>3 DEF SendFails, Evict, TryEvict
    <3>2. 0 \in 0 .. spawned
      BY <1>0
    <3> QED BY <3>1, <3>2, <1>0 DEF Map
  <2>5. Map' /\ Contents' /\ Rest'
    BY <2>1, <2>4, <1>0 DEF Map, Contents, Rest
  <2> QED BY <2>3, <2>5, <1>a
<1>4. ASSUME NEW g \in Consumers, Collect(g) PROVE TypeOK'
  <2>1. UNCHANGED <<registered, spawned, key, doomed, call, session, entered, refused>>
        /\ step' = [step EXCEPT ![g] = "packing"]
    BY <1>4 DEF Collect
  <2>2. PICK b \in Seq(Messages), h \in Seq(Messages), q \in Seq(Messages) :
           /\ Len(h) <= 1 /\ Len(q) <= Cap
           /\ batch' = [batch EXCEPT ![g] = b] /\ held' = [held EXCEPT ![g] = h]
           /\ queue' = [queue EXCEPT ![g] = q]
           /\ started' = [started EXCEPT ![g] = @ \o b]
    BY <1>4, Collects
  <2>3. started[g] \o b \in Seq(Messages)
    BY Sequences, ConcatProperties
  <2>4. Contents'
    BY <2>1, <2>2, <2>3, <1>0 DEF Contents
  <2>5. "packing" \in AllSteps
    BY DEF AllSteps, Receiving
  <2>6. Map' /\ CallsTyped' /\ Rest'
    BY <2>1, <2>5, <1>0 DEF Map, CallsTyped, Rest
  <2> QED BY <2>4, <2>6, <1>a
<1>5. ASSUME NEW g \in Consumers, Leave(g) \/ Die(g) PROVE TypeOK'
  <2>1. Closes(g) /\ UNCHANGED <<registered, spawned, key, doomed, call, entered, started, refused>>
        /\ session' \in {session, 0}
    BY <1>5 DEF Leave, Die, Released
  <2>2. Map' /\ Contents'
    BY <2>1, <1>0, ClosesTo DEF Map, Contents
  <2>3. CallsTyped' /\ Rest'
    BY <2>1, <1>0 DEF CallsTyped, Rest
  <2> QED BY <2>2, <2>3, <1>a
<1>6. ASSUME NEW g \in Consumers,
             TimedOut(g) \/ Finish(g) \/ EndsEarly(g) \/ Prompt(g) \/ Refused(g) \/ EndTurn(g)
      PROVE  TypeOK'
  <2>1. /\ UNCHANGED <<registered, spawned, key, doomed, queue, held, call, entered, started>>
        /\ batch' = batch \/ batch' = [batch EXCEPT ![g] = <<>>]
    BY <1>6 DEF TimedOut, Finish, EndsEarly, Prompt, Refused, EndTurn, TurnOver
  <2>2. PICK at \in AllSteps : step' = [step EXCEPT ![g] = at]
    BY <1>6 DEF TimedOut, Finish, EndsEarly, Prompt, Refused, EndTurn, TurnOver,
                AllSteps, Receiving
  <2>3. Map' /\ CallsTyped'
    BY <2>1, <2>2, <1>0 DEF Map, CallsTyped
  <2>4. Contents'
    <3>1. <<>> \in Seq(Messages)
      BY EmptySeq
    <3> QED BY <2>1, <3>1, <1>0 DEF Contents
  <2>5. session' \in 0 .. spawned
    <3>1. CASE Prompt(g)
      <4>1. session' = g /\ step[g] = "packing"
        BY <3>1 DEF Prompt
      <4>2. g \in 1 .. spawned
        BY <4>1, <1>0 DEF UnbornAreEmpty, Consumers
      <4> QED BY <4>1, <4>2
    <3>2. CASE ~Prompt(g)
      <4>1. session' \in {session, 0}
        BY <1>6, <3>2 DEF TimedOut, Finish, EndsEarly, Refused, EndTurn, Released
      <4> QED BY <4>1, <1>0 DEF Rest
    <3> QED BY <3>1, <3>2
  <2>6. refused' \subseteq Messages
    <3>1. CASE Refused(g)
      <4>1. batch[g] \in Seq(Messages)
        BY Sequences
      <4>2. \A i \in 1 .. Len(batch[g]) : batch[g][i] \in Messages
        BY <4>1, ElementOfSeq
      <4>3. refused' \subseteq refused \cup {batch[g][i] : i \in 1 .. Len(batch[g])}
        BY <3>1 DEF Refused
      <4> QED BY <4>2, <4>3, <1>0 DEF Rest
    <3>2. CASE ~Refused(g)
      <4>1. UNCHANGED refused
        BY <1>6, <3>2 DEF TimedOut, Finish, EndsEarly, Prompt, EndTurn
      <4> QED BY <4>1, <1>0 DEF Rest
    <3> QED BY <3>1, <3>2
  <2>7. Rest'
    BY <2>1, <2>5, <2>6 DEF Rest
  <2> QED BY <2>3, <2>4, <2>7, <1>a
<1>7. ASSUME Cancel \/ Sweep \/ Renew PROVE TypeOK'
  <2>1. UNCHANGED <<spawned, key, step, queue, held, batch, call, entered, started, refused>>
        /\ session' \in {session, 0}
    BY <1>7 DEF Cancel, Sweep, Renew, consumers
  <2>2. registered' \in [Keys -> 0 .. spawned]
    <3>1. \/ registered' = registered \/ registered' = [k \in Keys |-> 0]
          \/ registered' = [k \in Keys |-> IF Stale(k) THEN 0 ELSE registered[k]]
      BY <1>7 DEF Cancel, Sweep, Renew
    <3> QED BY <3>1, <1>0 DEF Map
  <2>3. doomed' \subseteq 1 .. spawned
    <3>1. doomed' \subseteq doomed \cup {registered[k] : k \in {j \in Keys : registered[j] # 0}}
      BY <1>7 DEF Cancel, Sweep, Renew, consumers
    <3>2. \A k \in Keys : registered[k] # 0 => registered[k] \in 1 .. spawned
      BY <1>0 DEF Map
    <3> QED BY <3>1, <3>2, <1>0 DEF Map
  <2>4. Map' /\ Contents' /\ CallsTyped' /\ Rest'
    BY <2>1, <2>2, <2>3, <1>0 DEF Map, Contents, CallsTyped, Rest
  <2> QED BY <2>4, <1>a
<1>8. CASE UNCHANGED vars
  <2>1. Map' /\ Contents' /\ CallsTyped' /\ Rest'
    BY <1>8, <1>0 DEF vars, Map, Contents, CallsTyped, Rest
  <2> QED BY <2>1, <1>a
<1> QED BY <1>1, <1>2, <1>3, <1>4, <1>5, <1>6, <1>7, <1>8 DEF Next, Submits, Runs
-----------------------------------------------------------------------------
(* What every step says of the consumers. *)

\* Consumers are spawned one after the other, and one that receives no longer
\* never does again.
LEMMA NoReturn ==
  ASSUME TypeOK, UnbornAreEmpty, [Next]_vars
  PROVE  /\ spawned \in Nat /\ spawned' \in Nat /\ spawned <= spawned'
         /\ \A g \in Consumers : g <= spawned /\ step[g] \notin Receiving
                                => step'[g] \notin Receiving
<1>0. spawned \in Nat /\ step \in [Consumers -> AllSteps]
  BY TypeParts, Counting DEF Map
<1>1. ASSUME NEW m \in Messages, Look(m) \/ Retry(m)
      PROVE  /\ spawned' \in Nat /\ spawned <= spawned'
             /\ \A g \in Consumers : g <= spawned /\ step[g] \notin Receiving
                                    => step'[g] \notin Receiving
  <2>1. PICK r \in 0 .. spawned, at \in {"send", "resend"} : SendTo(m, r, at)
    BY <1>1, LooksAt, RetriesAt
  <2>2. /\ spawned' \in 0 .. MaxConsumers
        /\ \/ spawned' = spawned /\ step' = step
           \/ /\ spawned' = spawned + 1
              /\ \A g \in Consumers : g # spawned' => step'[g] = step[g]
    BY <2>1, SendsTo
  <2> QED BY <2>2, <1>0
<1>2. ASSUME NEW g \in Consumers, Runs(g) \/ TimedOut(g) \/ Die(g)
      PROVE  /\ spawned' = spawned
             /\ \A x \in Consumers : step[x] \notin Receiving => step'[x] \notin Receiving
  <2>1. /\ spawned' = spawned
        /\ step[g] \in Receiving \/ (step[g] = "closed" /\ step' = [step EXCEPT ![g] = "gone"])
    BY <1>2 DEF Runs, Collect, TimedOut, Leave, Finish, Die, EndsEarly, Prompt, Refused,
                EndTurn, TurnOver, Receiving
  <2>2. PICK at : step' = [step EXCEPT ![g] = at]
    BY <1>2 DEF Runs, Collect, TimedOut, Leave, Finish, Die, Closes, EndsEarly, Prompt, Refused,
                EndTurn, TurnOver
  <2> QED BY <2>1, <2>2, <1>0 DEF Receiving
<1>3. ASSUME \/ \E m \in Messages : Enqueue(m) \/ SendFails(m) \/ Evict(m)
             \/ Cancel \/ Sweep \/ Renew \/ UNCHANGED vars
      PROVE  spawned' = spawned /\ step' = step
  BY <1>3 DEF Enqueue, SendFails, Evict, Cancel, Sweep, Renew, consumers, vars
<1> QED BY <1>0, <1>1, <1>2, <1>3 DEF Next, Submits

LEMMA UnbornStep ==
  ASSUME TypeOK, UnbornAreEmpty, CallsFit, [Next]_vars
  PROVE  UnbornAreEmpty'
<1>0. spawned \in Nat /\ spawned' \in Nat /\ spawned <= spawned'
  BY NoReturn
<1> SUFFICES ASSUME NEW x \in Consumers, x > spawned'
             PROVE  /\ step'[x] = "unborn" /\ queue'[x] = <<>> /\ held'[x] = <<>>
                    /\ entered'[x] = <<>> /\ started'[x] = <<>>
  BY DEF UnbornAreEmpty
<1>1. /\ x > spawned /\ step[x] = "unborn" /\ queue[x] = <<>> /\ held[x] = <<>>
      /\ entered[x] = <<>> /\ started[x] = <<>>
  BY <1>0 DEF UnbornAreEmpty, Consumers
<1>2. ASSUME NEW m \in Messages, Look(m) \/ Retry(m) PROVE step'[x] = "unborn"
  <2>1. PICK r \in 0 .. spawned, at \in {"send", "resend"} : SendTo(m, r, at)
    BY <1>2, LooksAt, RetriesAt
  <2>2. \/ spawned' = spawned /\ step' = step
        \/ /\ spawned' = spawned + 1
           /\ \A g \in Consumers : g # spawned' => step'[g] = step[g]
    BY <2>1, SendsTo
  <2> QED BY <2>2, <1>0, <1>1
<1>3. ASSUME NEW m \in Messages, Look(m) \/ Retry(m)
      PROVE  UNCHANGED <<queue, held, entered, started>>
  BY <1>3 DEF Look, Retry
<1>4. ASSUME NEW m \in Messages, Enqueue(m)
      PROVE  /\ step' = step /\ held' = held /\ started' = started
             /\ queue'[x] = queue[x] /\ entered'[x] = entered[x]
  <2>1. call[m].to # x
    BY <1>4, <1>1 DEF Enqueue, Receiving
  <2>2. /\ queue' = [queue EXCEPT ![call[m].to] = Append(@, m)]
        /\ entered' = [entered EXCEPT ![call[m].to] = Append(@, m)]
        /\ UNCHANGED <<step, held, started>>
    BY <1>4 DEF Enqueue
  <2>3. Contents
    BY TypeParts
  <2> QED BY <2>1, <2>2, <2>3 DEF Contents
<1>5. ASSUME NEW g \in Consumers, Runs(g) \/ TimedOut(g) \/ Die(g)
      PROVE  /\ step'[x] = step[x] /\ queue'[x] = queue[x] /\ held'[x] = held[x]
             /\ entered'[x] = entered[x] /\ started'[x] = started[x]
  <2>0. Map /\ Contents
    BY TypeParts
  <2>1. g # x /\ entered' = entered
    BY <1>5, <1>1 DEF Runs, Collect, TimedOut, Leave, Finish, Die, EndsEarly, Prompt, Refused,
                EndTurn, TurnOver
  <2>2. PICK at : step' = [step EXCEPT ![g] = at]
    BY <1>5 DEF Runs, Collect, TimedOut, Leave, Finish, Die, Closes, EndsEarly, Prompt, Refused,
                EndTurn, TurnOver
  <2>3. CASE Collect(g)
    <3>1. PICK b \in Seq(Messages), h \in Seq(Messages), q \in Seq(Messages) :
           /\ Waiting(g) = b \o (h \o q) /\ Len(h) <= 1 /\ Len(q) <= Cap
           /\ batch' = [batch EXCEPT ![g] = b] /\ held' = [held EXCEPT ![g] = h]
           /\ queue' = [queue EXCEPT ![g] = q]
           /\ started' = [started EXCEPT ![g] = @ \o b]
      BY <2>3, Collects
    <3> QED BY <3>1, <2>0, <2>1, <2>2 DEF Map, Contents
  <2>4. CASE Leave(g) \/ Die(g)
    <3>1. Closes(g) /\ started' = started
      BY <2>4 DEF Leave, Die
    <3> QED BY <3>1, <2>1, ClosesTo
  <2>5. CASE ~Collect(g) /\ ~Leave(g) /\ ~Die(g)
    <3>1. UNCHANGED <<queue, held, started>>
      BY <1>5, <2>5 DEF Runs, TimedOut, Finish, EndsEarly, Prompt, Refused, EndTurn, TurnOver
    <3> QED BY <3>1, <2>0, <2>1, <2>2 DEF Map
  <2> QED BY <2>3, <2>4, <2>5
<1>6. ASSUME \/ \E m \in Messages : SendFails(m) \/ Evict(m)
             \/ Cancel \/ Sweep \/ Renew \/ UNCHANGED vars
      PROVE  UNCHANGED <<step, queue, held, entered, started>>
  BY <1>6 DEF SendFails, Evict, Cancel, Sweep, Renew, consumers, vars
<1> QED BY <1>1, <1>2, <1>3, <1>4, <1>5, <1>6 DEF Next, Submits

LEMMA CallsStep ==
  ASSUME TypeOK, UnbornAreEmpty, CallsFit, [Next]_vars
  PROVE  CallsFit'
<1>0. /\ spawned \in Nat
      /\ \A g \in Consumers : g <= spawned /\ step[g] \notin Receiving
                             => step'[g] \notin Receiving
  BY NoReturn
<1> DEFINE Fits(x) == /\ call[x].at # "new" => call[x].to # 0
                      /\ call[x].at \in {"evict", "retry", "give up"}
                           => step[call[x].to] \notin Receiving
<1> SUFFICES ASSUME NEW x \in Messages PROVE Fits(x)'
  BY DEF CallsFit
<1>1. Fits(x) /\ call[x].to \in 0 .. spawned /\ MaxConsumers \in Nat /\ spawned <= MaxConsumers
  BY SubmissionType, Counting DEF CallsFit
<1>2. ASSUME call'[x] = call[x] PROVE Fits(x)'
  <2>1. ASSUME call[x].at \in {"evict", "retry", "give up"}
        PROVE  step'[call[x].to] \notin Receiving
    <3> DEFINE g == call[x].to
    <3>0. g # 0 /\ g \in 0 .. spawned
      BY <1>1, <2>1
    <3> HIDE DEF g
    <3>1. g \in Consumers /\ g <= spawned
      BY <3>0, Counting DEF Consumers
    <3> USE DEF g
    <3> QED BY <1>0, <1>1, <2>1, <3>1
  <2> QED BY <1>1, <1>2, <2>1
<1>3. ASSUME NEW m \in Messages, Look(m) \/ Retry(m) PROVE Fits(x)'
  <2>1. PICK r \in 0 .. spawned, at \in {"send", "resend"} : SendTo(m, r, at)
    BY <1>3, LooksAt, RetriesAt
  <2>2. /\ call'[m].at = at /\ call'[m].to \in 1 .. spawned'
        /\ m # x => call'[x] = call[x]
    BY <2>1, SendsTo
  <2>3. CASE m = x
    <3>0. call'[x].to # 0
      BY <2>2, <2>3, NoReturn
    <3>1. call'[x].to # 0 /\ call'[x].at \notin {"evict", "retry", "give up"}
      BY <2>2, <2>3, <3>0
    <3> QED BY <3>1
  <2> QED BY <2>2, <2>3, <1>2
<1>4. ASSUME NEW m \in Messages, Enqueue(m) \/ SendFails(m) \/ Evict(m) PROVE Fits(x)'
  <2>0. call \in [Messages -> [at : Ats, to : 0 .. spawned]]
    BY TypeParts DEF CallsTyped
  <2>1. CASE m # x
    <3>1. PICK at, to : Calls(m, at, to)
      BY <1>4 DEF Enqueue, SendFails, Evict
    <3> QED BY <2>0, <2>1, <3>1, <1>2 DEF Calls
  <2>2. CASE m = x /\ Enqueue(m)
    <3>1. call'[x].at = "accepted" /\ call'[x].to = call[x].to /\ call[x].at # "new"
      BY <2>0, <2>2 DEF Enqueue, Calls, Submitting
    <3> QED BY <3>1, <1>1
  <2>3. CASE m = x /\ SendFails(m)
    <3>1. /\ call'[x].to = call[x].to /\ call[x].at # "new"
          /\ step[call[x].to] \notin Receiving /\ step' = step
      BY <2>0, <2>3 DEF SendFails, Calls, Submitting, consumers
    <3> QED BY <3>1, <1>1
  <2>4. CASE m = x /\ Evict(m)
    <3>1. call[x].at \in {"evict", "give up"} /\ step' = step
      BY <2>4 DEF Evict, consumers
    <3>2. PICK at : Calls(x, at, call[x].to)
      BY <2>4 DEF Evict
    <3>3. call'[x].to = call[x].to
      BY <2>0, <3>2 DEF Calls, Submitting
    <3> QED BY <3>1, <3>3, <1>1
  <2> QED BY <1>4, <2>1, <2>2, <2>3, <2>4
<1>5. ASSUME \/ \E g \in Consumers : Runs(g) \/ TimedOut(g) \/ Die(g)
             \/ Cancel \/ Sweep \/ Renew \/ UNCHANGED vars
      PROVE  call' = call
  BY <1>5 DEF Runs, Collect, TimedOut, Leave, Finish, Die, EndsEarly, Prompt, Refused,
              EndTurn, TurnOver, Cancel, Sweep, Renew, vars
<1> QED BY <1>2, <1>3, <1>4, <1>5 DEF Next, Submits
-----------------------------------------------------------------------------
(* One consumer at work for each key. *)

LEMMA OneStep ==
  ASSUME TypeOK, UnbornAreEmpty, CallsFit, OneConsumer, [Next]_vars
  PROVE  OneConsumer'
<1>0. Map /\ spawned \in Nat /\ MaxConsumers \in Nat
  BY TypeParts, Counting
<1> SUFFICES ASSUME NEW x \in Consumers, step'[x] \in Receiving, x \notin doomed'
             PROVE  registered'[key'[x]] = x
  BY DEF OneConsumer
<1>a. step[x] \in Receiving /\ x \notin doomed => registered[key[x]] = x /\ key[x] \in Keys
  BY <1>0 DEF OneConsumer, Map
<1>1. ASSUME NEW m \in Messages, Look(m) \/ Retry(m) PROVE registered'[key'[x]] = x
  <2>1. PICK r \in 0 .. spawned, at \in {"send", "resend"} :
          /\ SendTo(m, r, at)
          /\ r = 0 => registered[KeyOf[m]] = 0 \/ step[registered[KeyOf[m]]] = "gone"
    BY <1>1, LooksAt, RetriesAt
  <2>2. doomed' = doomed
    BY <1>1 DEF Look, Retry
  <2>3. CASE r # 0
    <3>1. UNCHANGED <<registered, key, step>>
      BY <2>1, <2>3, SendsTo
    <3> QED BY <2>2, <3>1, <1>a
  <2>4. CASE r = 0
    <3>1. /\ registered'[KeyOf[m]] = spawned'
          /\ \A k \in Keys : k # KeyOf[m] => registered'[k] = registered[k]
          /\ key'[spawned'] = KeyOf[m]
          /\ \A g \in Consumers : g # spawned' => key'[g] = key[g] /\ step'[g] = step[g]
      BY <2>1, <2>4, SendsTo
    <3>2. CASE x = spawned'
      BY <3>1, <3>2
    <3>3. CASE x # spawned'
      <4>1. registered[key[x]] = x /\ key[x] \in Keys /\ key'[x] = key[x] /\ step[x] \in Receiving
        BY <2>2, <3>1, <3>3, <1>a
      <4>2. key[x] # KeyOf[m]
        BY <4>1, <2>1, <2>4, <1>0 DEF Receiving, Consumers
      <4> QED BY <3>1, <4>1, <4>2
    <3> QED BY <3>2, <3>3
  <2> QED BY <2>3, <2>4
<1>2. ASSUME NEW m \in Messages, Enqueue(m) \/ SendFails(m) PROVE registered'[key'[x]] = x
  <2>1. UNCHANGED <<registered, key, step, doomed>>
    BY <1>2 DEF Enqueue, SendFails, consumers
  <2> QED BY <2>1, <1>a
<1>3. ASSUME NEW m \in Messages, Evict(m) PROVE registered'[key'[x]] = x
  <2>1. UNCHANGED <<key, step, doomed>> /\ call[m].at \in {"evict", "give up"}
        /\ TryEvict(KeyOf[m], call[m].to)
    BY <1>3 DEF Evict, consumers
  <2>2. registered[key[x]] = x /\ key[x] \in Keys /\ x # call[m].to
    BY <2>1, <1>a DEF CallsFit
  <2> QED BY <2>1, <2>2, <1>0 DEF TryEvict, Map
<1>4. ASSUME NEW g \in Consumers, Runs(g) \/ TimedOut(g) \/ Die(g)
      PROVE  registered'[key'[x]] = x
  <2>1. UNCHANGED <<registered, key, doomed>>
    BY <1>4 DEF Runs, Collect, TimedOut, Leave, Finish, Die, EndsEarly, Prompt, Refused,
                EndTurn, TurnOver
  <2>2. PICK at : step' = [step EXCEPT ![g] = at]
    BY <1>4 DEF Runs, Collect, TimedOut, Leave, Finish, Die, Closes, EndsEarly, Prompt, Refused,
                EndTurn, TurnOver
  <2>3. step[g] \in Receiving \/ step' = [step EXCEPT ![g] = "gone"]
    BY <1>4 DEF Runs, Collect, TimedOut, Leave, Finish, Die, EndsEarly, Prompt, Refused,
                EndTurn, TurnOver, Receiving
  <2>4. step[x] \in Receiving
    BY <2>2, <2>3, <1>0 DEF Map, Receiving
  <2> QED BY <2>1, <2>4, <1>a
<1>5. ASSUME Cancel PROVE registered'[key'[x]] = x
  <2>1. /\ UNCHANGED <<key, step>>
        /\ doomed' = doomed \cup {registered[k] : k \in {j \in Keys : registered[j] # 0}}
    BY <1>5 DEF Cancel
  <2>2. registered[key[x]] = x /\ key[x] \in Keys /\ x # 0
    BY <2>1, <1>a, <1>0 DEF Consumers
  <2> QED BY <2>1, <2>2
<1>6. ASSUME Sweep PROVE registered'[key'[x]] = x
  <2>1. /\ UNCHANGED <<key, step, doomed>>
        /\ registered' = [k \in Keys |-> IF Stale(k) THEN 0 ELSE registered[k]]
    BY <1>6 DEF Sweep, consumers
  <2>2. registered[key[x]] = x /\ key[x] \in Keys /\ step[x] \in Receiving
    BY <2>1, <1>a
  <2>3. ~Stale(key[x])
    BY <2>2 DEF Stale, Receiving
  <2> QED BY <2>1, <2>2, <2>3
<1>7. ASSUME Renew \/ UNCHANGED vars PROVE registered'[key'[x]] = x
  <2>1. UNCHANGED <<registered, key, step, doomed>>
    BY <1>7 DEF Renew, vars, consumers
  <2> QED BY <2>1, <1>a
<1> QED BY <1>1, <1>2, <1>3, <1>4, <1>5, <1>6, <1>7 DEF Next, Submits

\* A failed submission finds its consumer retired.
LEMMA RetryStep ==
  ASSUME TypeOK, CallsFit, UnbornAreEmpty, RetryGoesElsewhere, [Next]_vars
  PROVE  RetryGoesElsewhere'
<1>0. Map /\ CallsTyped /\ spawned \in Nat
  BY TypeParts, Counting
<1> SUFFICES ASSUME NEW x \in Messages, call'[x].at = "retry"
             PROVE  registered'[KeyOf[x]] # call'[x].to
  BY DEF RetryGoesElsewhere
<1>1. /\ KeyOf[x] \in Keys /\ call[x].to \in 0 .. spawned
      /\ call[x].at = "retry" => registered[KeyOf[x]] # call[x].to /\ call[x].to # 0
  BY SubmissionType, Counting DEF RetryGoesElsewhere, CallsFit
<1>2. ASSUME NEW m \in Messages, Look(m) \/ Retry(m) PROVE registered'[KeyOf[x]] # call'[x].to
  <2>1. PICK r \in 0 .. spawned, at \in {"send", "resend"} : SendTo(m, r, at)
    BY <1>2, LooksAt, RetriesAt
  <2>2. /\ call'[m].at = at /\ \A y \in Messages : y # m => call'[y] = call[y]
        /\ \/ registered' = registered
           \/ /\ spawned' = spawned + 1 /\ registered'[KeyOf[m]] = spawned'
              /\ \A k \in Keys : k # KeyOf[m] => registered'[k] = registered[k]
    BY <2>1, SendsTo
  <2>3. x # m /\ call'[x] = call[x]
    BY <2>2
  <2>4. registered'[KeyOf[x]] \in {registered[KeyOf[x]], spawned + 1}
    BY <2>2, <1>1
  <2> QED BY <2>3, <2>4, <1>0, <1>1
<1>3. ASSUME NEW m \in Messages, Enqueue(m) \/ SendFails(m) PROVE registered'[KeyOf[x]] # call'[x].to
  <2>1. PICK at \in Ats : at # "retry" /\ Calls(m, at, call[m].to) /\ registered' = registered
    BY <1>3 DEF Enqueue, SendFails, Ats
  <2>2. x # m
    BY <2>1, <1>0 DEF Calls, Submitting, CallsTyped
  <2>3. call'[x] = call[x]
    BY <2>1, <2>2, <1>0 DEF Calls, CallsTyped
  <2> QED BY <2>1, <2>3, <1>1
<1>4. ASSUME NEW m \in Messages, Evict(m) PROVE registered'[KeyOf[x]] # call'[x].to
  <2>1. call[m].at \in {"evict", "give up"} /\ TryEvict(KeyOf[m], call[m].to)
    BY <1>4 DEF Evict
  <2>2. PICK at : Calls(m, at, call[m].to)
    BY <1>4 DEF Evict
  <2>3. \A k \in Keys : registered'[k] \in {registered[k], 0}
    BY <2>1, <1>0 DEF TryEvict, Map
  <2>4. CASE x # m
    <3>1. call'[x] = call[x]
      BY <2>2, <2>4, <1>0 DEF Calls, CallsTyped
    <3> QED BY <3>1, <2>3, <1>1
  <2>5. CASE x = m
    <3>1. call'[x].to = call[x].to
      BY <2>2, <2>5, <1>0 DEF Calls, CallsTyped, Submitting
    <3>2. call[x].to # 0
      BY <2>1, <2>5 DEF CallsFit
    <3>3. registered'[KeyOf[x]] # call[x].to
      BY <2>1, <2>5, <3>2, <1>0, <1>1 DEF TryEvict, Map
    <3> QED BY <3>1, <3>3
  <2> QED BY <2>4, <2>5
<1>5. ASSUME \/ \E g \in Consumers : Runs(g) \/ TimedOut(g) \/ Die(g)
             \/ Cancel \/ Sweep \/ Renew \/ UNCHANGED vars
      PROVE  registered'[KeyOf[x]] # call'[x].to
  <2>1. call' = call
    BY <1>5 DEF Runs, Collect, TimedOut, Leave, Finish, Die, EndsEarly, Prompt, Refused,
                EndTurn, TurnOver, Cancel, Sweep, Renew, vars
  <2>2. \/ registered' = registered \/ registered' = [k \in Keys |-> 0]
        \/ registered' = [k \in Keys |-> IF Stale(k) THEN 0 ELSE registered[k]]
    BY <1>5 DEF Runs, Collect, TimedOut, Leave, Finish, Die, EndsEarly, Prompt, Refused,
                EndTurn, TurnOver, Cancel, Sweep, Renew, vars
  <2>3. registered'[KeyOf[x]] \in {registered[KeyOf[x]], 0}
    BY <2>2, <1>1
  <2> QED BY <2>1, <2>3, <1>1
<1> QED BY <1>2, <1>3, <1>4, <1>5 DEF Next, Submits
-----------------------------------------------------------------------------
(* Messages stay in their order. *)

\* What InOrderOnce says of one consumer.
Ordered(g) == IF step[g] \in Receiving THEN entered[g] = started[g] \o Waiting(g)
                                       ELSE Prefix(started[g], entered[g])

LEMMA OrderedAs ==
  ASSUME NEW g \in Consumers, Ordered(g),
         step'[g] = step[g] \/ (step[g] \in Receiving /\ step'[g] \in Receiving),
         UNCHANGED <<queue[g], held[g], entered[g], started[g]>>
  PROVE  Ordered(g)'
BY DEF Ordered, Waiting

LEMMA OrderStep ==
  ASSUME TypeOK, UnbornAreEmpty, InOrderOnce, [Next]_vars
  PROVE  InOrderOnce'
<1>0. Map /\ Contents /\ spawned \in Nat /\ MaxConsumers \in Nat
  BY TypeParts, Counting
<1> SUFFICES ASSUME NEW x \in Consumers PROVE Ordered(x)'
  BY DEF InOrderOnce, Ordered
<1>1. Ordered(x)
  BY DEF InOrderOnce, Ordered
<1>2. ASSUME NEW m \in Messages, Look(m) \/ Retry(m) PROVE Ordered(x)'
  <2>1. PICK r \in 0 .. spawned, at \in {"send", "resend"} : SendTo(m, r, at)
    BY <1>2, LooksAt, RetriesAt
  <2>2. UNCHANGED <<queue, held, entered, started>>
    BY <1>2 DEF Look, Retry
  <2>3. \/ step' = step
        \/ /\ spawned' = spawned + 1 /\ step'[spawned'] = "waiting"
           /\ \A g \in Consumers : g # spawned' => step'[g] = step[g]
    BY <2>1, SendsTo
  <2>4. CASE step'[x] = step[x]
    BY <2>2, <2>4, <1>1, OrderedAs
  <2>5. CASE step'[x] # step[x]
    <3>1. x = spawned + 1
      BY <2>3, <2>5
    <3>2. queue[x] = <<>> /\ held[x] = <<>> /\ entered[x] = <<>> /\ started[x] = <<>>
      BY <3>1, <1>0 DEF UnbornAreEmpty
    <3>3. <<>> = <<>> \o (<<>> \o <<>>)
      BY EmptySeq, ConcatEmptySeq
    <3>4. Waiting(x)' = <<>> \o <<>> /\ entered'[x] = <<>> /\ started'[x] = <<>>
      BY <2>2, <3>2 DEF Waiting
    <3>5. step'[x] \in Receiving
      BY <2>3, <2>5 DEF Receiving
    <3> QED BY <3>3, <3>4, <3>5 DEF Ordered
  <2> QED BY <2>4, <2>5
<1>3. ASSUME NEW m \in Messages, Enqueue(m) PROVE Ordered(x)'
  <2> DEFINE g == call[m].to
  <2>1. /\ step[g] \in Receiving /\ queue' = [queue EXCEPT ![g] = Append(@, m)]
        /\ entered' = [entered EXCEPT ![g] = Append(@, m)]
        /\ UNCHANGED <<step, held, started>>
    BY <1>3 DEF Enqueue
  <2> HIDE DEF g
  <2>2. CASE x # g
    <3>1. UNCHANGED <<queue[x], held[x], entered[x], started[x]>> /\ step'[x] = step[x]
      BY <2>1, <2>2, <1>0 DEF Contents
    <3> QED BY <3>1, <1>1, OrderedAs
  <2>3. CASE x = g
    <3>1. /\ queue'[x] = Append(queue[x], m) /\ entered'[x] = Append(entered[x], m)
          /\ held'[x] = held[x] /\ started'[x] = started[x]
          /\ step[x] \in Receiving /\ step'[x] \in Receiving
      BY <2>1, <2>3, <1>0 DEF Contents
    <3>2. /\ queue[x] \in Seq(Messages) /\ held[x] \in Seq(Messages)
          /\ started[x] \in Seq(Messages)
      BY Sequences
    <3>3. entered[x] = started[x] \o (held[x] \o queue[x])
      BY <3>1, <1>1 DEF Ordered, Waiting
    <3>4. started[x] \o (held[x] \o Append(queue[x], m))
            = Append(started[x] \o (held[x] \o queue[x]), m)
      <4>1. \A r, h, q \in Seq(Messages) :
              r \o (h \o Append(q, m)) = Append(r \o (h \o q), m)
        BY AppendedLast
      <4> QED BY <3>2, <4>1, Zenon
    <3> QED BY <3>1, <3>3, <3>4 DEF Ordered, Waiting
  <2> QED BY <2>2, <2>3
<1>4. ASSUME NEW g \in Consumers, Collect(g) PROVE Ordered(x)'
  <2>1. step' = [step EXCEPT ![g] = "packing"] /\ step[g] = "waiting" /\ entered' = entered
    BY <1>4 DEF Collect
  <2>2. PICK b \in Seq(Messages), h \in Seq(Messages), q \in Seq(Messages) :
           /\ Waiting(g) = b \o (h \o q) /\ Len(h) <= 1 /\ Len(q) <= Cap
           /\ batch' = [batch EXCEPT ![g] = b] /\ held' = [held EXCEPT ![g] = h]
           /\ queue' = [queue EXCEPT ![g] = q]
           /\ started' = [started EXCEPT ![g] = @ \o b]
    BY <1>4, Collects
  <2>3. CASE x # g
    <3>1. UNCHANGED <<queue[x], held[x], entered[x], started[x]>> /\ step'[x] = step[x]
      BY <2>1, <2>2, <2>3, <1>0 DEF Contents, Map
    <3> QED BY <3>1, <1>1, OrderedAs
  <2>4. CASE x = g
    <3>1. /\ queue'[x] = q /\ held'[x] = h /\ started'[x] = started[x] \o b
          /\ step'[x] = "packing" /\ step[x] = "waiting"
      BY <2>1, <2>2, <2>4, <1>0 DEF Contents, Map
    <3>2. entered[x] = started[x] \o (b \o (h \o q))
      BY <2>2, <2>4, <3>1, <1>1 DEF Ordered, Receiving
    <3>3. h \o q \in Seq(Messages) /\ started[x] \in Seq(Messages)
      BY Sequences, ConcatProperties
    <3>4. started[x] \o (b \o (h \o q)) = (started[x] \o b) \o (h \o q)
      <4>1. \A r, v, w \in Seq(Messages) : (r \o v) \o w = r \o (v \o w)
        BY ConcatAssociative
      <4> QED BY <3>3, <4>1
    <3> QED BY <2>1, <3>1, <3>2, <3>4 DEF Ordered, Waiting, Receiving
  <2> QED BY <2>3, <2>4
<1>5. ASSUME NEW g \in Consumers, Leave(g) \/ Die(g) PROVE Ordered(x)'
  <2>1. Closes(g) /\ UNCHANGED <<entered, started>> /\ step[g] \in Receiving
    BY <1>5 DEF Leave, Die, Receiving
  <2>2. CASE x # g
    <3>1. UNCHANGED <<queue[x], held[x], entered[x], started[x]>> /\ step'[x] = step[x]
      BY <2>1, <2>2, ClosesTo
    <3> QED BY <3>1, <1>1, OrderedAs
  <2>3. CASE x = g
    <3>1. entered[x] = started[x] \o Waiting(x)
      BY <2>1, <2>3, <1>1 DEF Ordered
    <3>2. Prefix(started[x], entered[x])
      BY <3>1, Sequences, FrontIsPrefix
    <3>3. step'[x] = "closed"
      BY <2>1, <2>3, ClosesTo
    <3>4. Prefix(started'[x], entered'[x])
      BY <2>1, <3>2
    <3> QED BY <3>3, <3>4 DEF Ordered, Receiving
  <2> QED BY <2>2, <2>3
<1>6. ASSUME NEW g \in Consumers,
             TimedOut(g) \/ Finish(g) \/ EndsEarly(g) \/ Prompt(g) \/ Refused(g) \/ EndTurn(g)
      PROVE  Ordered(x)'
  <2>1. UNCHANGED <<queue, held, entered, started>>
    BY <1>6 DEF TimedOut, Finish, EndsEarly, Prompt, Refused, EndTurn, TurnOver
  <2>2. PICK at : /\ step' = [step EXCEPT ![g] = at]
                  /\ \/ step[g] \in Receiving /\ at \in Receiving
                     \/ step[g] = "closed" /\ at = "gone"
    BY <1>6 DEF TimedOut, Finish, EndsEarly, Prompt, Refused, EndTurn, TurnOver, Receiving
  <2>3. CASE x # g \/ step[g] \in Receiving
    <3>1. step'[x] = step[x] \/ (step[x] \in Receiving /\ step'[x] \in Receiving)
      BY <2>2, <2>3, <1>0 DEF Map, Receiving
    <3> QED BY <2>1, <3>1, <1>1, OrderedAs
  <2>4. CASE x = g /\ step[g] \notin Receiving
    <3>1. step'[x] \notin Receiving /\ step[x] \notin Receiving
      BY <2>2, <2>4, <1>0 DEF Map, Receiving
    <3> QED BY <2>1, <3>1, <1>1 DEF Ordered
  <2> QED BY <2>3, <2>4
<1>7. ASSUME \/ \E m \in Messages : SendFails(m) \/ Evict(m)
             \/ Cancel \/ Sweep \/ Renew \/ UNCHANGED vars
      PROVE  Ordered(x)'
  <2>1. UNCHANGED <<step, queue, held, entered, started>>
    BY <1>7 DEF SendFails, Evict, Cancel, Sweep, Renew, consumers, vars
  <2> QED BY <2>1, <1>1, OrderedAs
<1> QED BY <1>2, <1>3, <1>4, <1>5, <1>6, <1>7 DEF Next, Submits, Runs
-----------------------------------------------------------------------------
(* The theorems. *)

LEMMA InvInit == Init => IInv
<1> SUFFICES ASSUME Init PROVE IInv
  OBVIOUS
<1>1. UnbornAreEmpty /\ CallsFit /\ OneConsumer /\ RetryGoesElsewhere
  BY DEF Init, UnbornAreEmpty, CallsFit, OneConsumer, RetryGoesElsewhere, Submitting, Receiving
<1>2. InOrderOnce
  <2>1. ASSUME NEW g \in Consumers PROVE Prefix(started[g], entered[g])
    <3>1. <<>> \in Seq(Messages) /\ <<>> \o <<>> = <<>>
      BY EmptySeq, ConcatEmptySeq
    <3>2. Prefix(<<>>, <<>>)
      BY <3>1, FrontIsPrefix
    <3> QED BY <3>2 DEF Init
  <2> QED BY <2>1 DEF Init, InOrderOnce, Receiving
<1> QED BY <1>1, <1>2, TypeOKInit DEF IInv

LEMMA InvAlways == Spec => []IInv
<1>1. IInv /\ [Next]_vars => IInv'
  BY TypeOKStep, UnbornStep, CallsStep, OneStep, OrderStep, RetryStep DEF IInv
<1> QED BY <1>1, InvInit, PTL DEF Spec

\* Every variable of the dispatcher keeps its type: no queue outgrows the channel
\* and no more than one message is ever held back.
THEOREM TypeCorrect == Spec => []TypeOK
<1>1. IInv => TypeOK
  BY DEF IInv
<1> QED BY <1>1, InvAlways, PTL

\* However submissions, retries, cancellations, sweeps and dying consumers come
\* together, one consumer takes the messages of a key.
THEOREM OneAtWork == Spec => []OneConsumer
<1>1. IInv => OneConsumer
  BY DEF IInv
<1> QED BY <1>1, InvAlways, PTL

\* The messages accepted by a consumer get into its turns in the order in which
\* they were accepted, none twice and none left out.
THEOREM OrderKept == Spec => []InOrderOnce
<1>1. IInv => InOrderOnce
  BY DEF IInv
<1> QED BY <1>1, InvAlways, PTL

\* A submission that finds its consumer gone tries another one.
THEOREM RetriesElsewhere == Spec => []RetryGoesElsewhere
<1>1. IInv => RetryGoesElsewhere
  BY DEF IInv
<1> QED BY <1>1, InvAlways, PTL
-----------------------------------------------------------------------------
(* What a turn takes. *)

\* The weight of a batch grows by its messages.
LEMMA WeightIs ==
  ASSUME NEW s
  PROVE  /\ Weight(s, 0) = 0
         /\ \A n \in Nat \ {0} : Weight(s, n) = Weight(s, n - 1) + Tokens[s[n]]
<1>1. PICK v : v = [i \in Nat |-> Tokens[s[i]]]
  OBVIOUS
<1>2. PICK f : f = CHOOSE g : g = [i \in Nat |-> IF i = 0 THEN 0 ELSE g[i - 1] + Tokens[s[i]]]
  OBVIOUS
<1>3. \A n : Weight(s, n) = f[n]
  BY <1>2 DEF Weight
<1>4. \A g : [i \in Nat |-> IF i = 0 THEN 0 ELSE g[i - 1] + Tokens[s[i]]]
             = [i \in Nat |-> IF i = 0 THEN 0 ELSE g[i - 1] + v[i]]
  BY <1>1
<1>5. f = CHOOSE g : g = [i \in Nat |-> IF i = 0 THEN 0 ELSE g[i - 1] + v[i]]
  BY <1>2, <1>4, Zenon
<1>6. f = [i \in Nat |-> IF i = 0 THEN 0 ELSE f[i - 1] + v[i]]
  BY <1>5, SumIs
<1>7. f[0] = 0
  BY <1>6
<1>8. ASSUME NEW n \in Nat \ {0} PROVE f[n] = f[n - 1] + Tokens[s[n]]
  BY <1>1, <1>6
<1> QED BY <1>3, <1>7, <1>8

\* A batch weighs what it weighed at the front of the messages waiting.
LEMMA WeightOfFront ==
  ASSUME NEW s, NEW t, NEW n \in Nat, \A i \in 1 .. n : t[i] = s[i]
  PROVE  Weight(t, n) = Weight(s, n)
<1> DEFINE Differ == {k \in Nat : k <= n /\ Weight(t, k) # Weight(s, k)}
<1> SUFFICES ASSUME Differ # {} PROVE FALSE
  OBVIOUS
<1>1. PICK k \in Differ : \A j \in Differ : k <= j
  BY LeastOf
<1>2. k \in Nat /\ k <= n /\ Weight(t, k) # Weight(s, k)
  OBVIOUS
<1>3. k # 0
  <2>1. Weight(t, 0) = 0 /\ Weight(s, 0) = 0
    BY WeightIs
  <2> QED BY <1>2, <2>1
<1>4. k - 1 \in Nat /\ k - 1 <= n /\ ~(k <= k - 1) /\ k \in 1 .. n /\ k \in Nat \ {0}
  BY <1>2, <1>3
<1>5. Weight(t, k - 1) = Weight(s, k - 1)
  BY <1>1, <1>4
<1>6. /\ Weight(t, k) = Weight(t, k - 1) + Tokens[t[k]]
      /\ Weight(s, k) = Weight(s, k - 1) + Tokens[s[k]]
  BY <1>4, WeightIs
<1>7. t[k] = s[k]
  BY <1>4
<1> QED BY <1>2, <1>5, <1>6, <1>7

\* What one batch has to be.
Fit(b) == Len(b) > 1 => /\ \A i \in 1 .. Len(b) : b[i] \notin Native
                        /\ Len(b) <= Cap
                        /\ Weight(b, Len(b)) <= MaxTokens

\* Messages that may join, one after the other, make a batch that is fit.
LEMMA FrontIsFit ==
  ASSUME NEW s \in Seq(Messages), NEW n \in BatchSizes(s)
  PROVE  Fit(SubSeq(s, 1, n))
<1> DEFINE b == SubSeq(s, 1, n)
<1>1. n \in 1 .. Len(s) /\ \A i \in 2 .. n : MayJoin(s, i)
  BY DEF BatchSizes
<1>2. Len(s) \in Nat /\ \A i \in 1 .. Len(s) : s[i] \in Messages
  BY LenProperties, ElementOfSeq
<1>3. Len(b) = n /\ \A i \in 1 .. n : b[i] = s[i]
  BY <1>1, <1>2, SubSeqProperties
<1> HIDE DEF b
<1> SUFFICES ASSUME n > 1 PROVE Fit(b)
  BY <1>3 DEF Fit, b
<1>4. n \in Nat /\ n \in 2 .. n /\ 2 \in 2 .. n
  BY <1>1, <1>2
<1>5. ASSUME NEW i \in 1 .. n PROVE s[i] \notin Native
  <2>1. CASE i = 1
    BY <1>1, <1>4, <2>1 DEF MayJoin
  <2>2. CASE i # 1
    <3>1. i \in 2 .. n
      BY <1>4, <2>2
    <3> QED BY <1>1, <3>1 DEF MayJoin
  <2> QED BY <2>1, <2>2
<1>6. n <= Cap /\ Weight(s, n) <= MaxTokens
  BY <1>1, <1>4 DEF MayJoin
<1>7. Weight(b, n) = Weight(s, n)
  BY <1>3, <1>4, WeightOfFront
<1> QED BY <1>3, <1>5, <1>6, <1>7 DEF Fit

\* A batch stays as it is until it is done with.
LEMMA FitStep == TypeOK /\ BatchesAreFit /\ [Next]_vars => BatchesAreFit'
<1> SUFFICES ASSUME TypeOK, BatchesAreFit, [Next]_vars PROVE BatchesAreFit'
  OBVIOUS
<1>1. \A g \in Consumers : Fit(batch[g])
  BY DEF BatchesAreFit, Fit
<1>2. batch \in [Consumers -> Seq(Messages)]
  BY TypeParts DEF Contents
<1>3. Fit(<<>>)
  BY DEF Fit
<1>4. SUFFICES \A g \in Consumers : Fit(batch'[g])
  BY <1>4 DEF BatchesAreFit, Fit
<1>5. ASSUME batch' = batch PROVE \A g \in Consumers : Fit(batch'[g])
  BY <1>1, <1>5
<1>6. ASSUME NEW g \in Consumers, batch' = [batch EXCEPT ![g] = <<>>]
      PROVE  \A h \in Consumers : Fit(batch'[h])
  BY <1>1, <1>2, <1>3, <1>6
<1>7. CASE UNCHANGED vars
  BY <1>5, <1>7 DEF vars, consumers
<1>8. ASSUME NEW m \in Messages, Submits(m) PROVE batch' = batch
  <2>1. CASE Look(m) \/ Enqueue(m) \/ Retry(m)
    BY <2>1 DEF Look, Enqueue, Retry
  <2>2. CASE SendFails(m) \/ Evict(m)
    BY <2>2, Zenon DEF SendFails, Evict, consumers
  <2> QED BY <1>8, <2>1, <2>2 DEF Submits
<1>9. ASSUME NEW g \in Consumers, Collect(g) PROVE \A h \in Consumers : Fit(batch'[h])
  <2>1. Waiting(g) \in Seq(Messages)
    <3>1. held[g] \in Seq(Messages) /\ queue[g] \in Seq(Messages)
      BY TypeParts DEF Contents
    <3> QED BY <3>1, ConcatProperties DEF Waiting
  <2>2. PICK n \in BatchSizes(Waiting(g)) :
          batch' = [batch EXCEPT ![g] = SubSeq(Waiting(g), 1, n)]
    BY <1>9 DEF Collect
  <2>3. Fit(SubSeq(Waiting(g), 1, n))
    BY <2>1, <2>2, FrontIsFit
  <2> QED BY <1>1, <1>2, <2>2, <2>3
<1>10. ASSUME NEW g \in Consumers, Leave(g) \/ Die(g)
       PROVE  \A h \in Consumers : Fit(batch'[h])
  BY <1>6, <1>10 DEF Leave, Die, Closes
<1>11. ASSUME NEW g \in Consumers, EndsEarly(g) \/ Refused(g) \/ EndTurn(g)
       PROVE  \A h \in Consumers : Fit(batch'[h])
  BY <1>6, <1>11 DEF EndsEarly, Refused, EndTurn, TurnOver
<1>12. ASSUME NEW g \in Consumers, Finish(g) \/ Prompt(g) \/ TimedOut(g)
       PROVE  batch' = batch
  BY <1>12 DEF Finish, Prompt, TimedOut
<1>13. ASSUME Cancel \/ Sweep \/ Renew PROVE batch' = batch
  BY <1>13 DEF Cancel, Sweep, Renew, consumers
<1> QED BY <1>5, <1>7, <1>8, <1>9, <1>10, <1>11, <1>12, <1>13 DEF Next, Runs

\* A native message has its turn for itself, and a turn of several messages
\* keeps to max_buffered_messages and max_batch_tokens, whatever the sizes of the
\* messages that wait and however they came: by way of the queue, or set aside
\* by the turn before.
THEOREM BatchesFit == Spec => []BatchesAreFit
<1>1. Init => BatchesAreFit
  BY DEF Init, BatchesAreFit
<1> QED BY <1>1, FitStep, TypeCorrect, PTL DEF Spec
-----------------------------------------------------------------------------
(* The promise is kept. *)

\* A consumer is registered for its own key.
OfItsKey == \A k \in Keys : registered[k] # 0 => key[registered[k]] = k

\* A submission is with a consumer of its key.
SentToItsKey == \A m \in Messages : call[m].at # "new" => key[call[m].to] = KeyOf[m]

\* What a consumer was sent has been accepted: its submission is over.
EnteredAreOver == \A g \in Consumers : \A i \in 1 .. Len(entered[g]) :
  call[entered[g][i]].at = "accepted"

\* The invariant under which the steps of the dispatcher are steps of the promise.
RInv == IInv /\ OfItsKey /\ SentToItsKey /\ EnteredAreOver

\* A key is given to a consumer when it is spawned and stays with it, and only
\* that consumer is then registered for it.
LEMMA KeysStay ==
  ASSUME TypeOK, [Next]_vars
  PROVE  /\ \A g \in Consumers : g <= spawned => key'[g] = key[g]
         /\ \A k \in Keys : \/ registered'[k] = registered[k] \/ registered'[k] = 0
                            \/ key'[registered'[k]] = k
<1>0. Map /\ spawned \in Nat /\ MaxConsumers \in Nat
  BY TypeParts, Counting
<1> DEFINE Goal == /\ \A g \in Consumers : g <= spawned => key'[g] = key[g]
                   /\ \A k \in Keys : \/ registered'[k] = registered[k] \/ registered'[k] = 0
                                      \/ key'[registered'[k]] = k
<1>1. ASSUME NEW m \in Messages, Look(m) \/ Retry(m) PROVE Goal
  <2>1. PICK r \in 0 .. spawned, at \in {"send", "resend"} : SendTo(m, r, at)
    BY <1>1, LooksAt, RetriesAt
  <2>2. \/ UNCHANGED <<registered, key>>
        \/ /\ spawned' = spawned + 1 /\ registered'[KeyOf[m]] = spawned'
           /\ \A k \in Keys : k # KeyOf[m] => registered'[k] = registered[k]
           /\ key'[spawned'] = KeyOf[m]
           /\ \A g \in Consumers : g # spawned' => key'[g] = key[g]
    BY <2>1, SendsTo
  <2>3. \A g \in Consumers : g <= spawned => g # spawned + 1
    BY <1>0 DEF Consumers
  <2> QED BY <2>2, <2>3
<1>2. ASSUME NEW m \in Messages, Enqueue(m) \/ SendFails(m) PROVE Goal
  BY <1>2, Zenon DEF Enqueue, SendFails
<1>3. ASSUME NEW m \in Messages, Evict(m) PROVE Goal
  <2>1. key' = key /\ TryEvict(KeyOf[m], call[m].to)
    BY <1>3, Zenon DEF Evict
  <2>2. registered' = registered \/ registered' = [registered EXCEPT ![KeyOf[m]] = 0]
    BY <2>1 DEF TryEvict
  <2> QED BY <2>1, <2>2, <1>0 DEF Map
<1>4. ASSUME NEW g \in Consumers, Runs(g) \/ TimedOut(g) \/ Die(g) PROVE Goal
  <2>1. UNCHANGED <<registered, key>>
    BY <1>4 DEF Runs, Collect, TimedOut, Leave, Finish, Die, EndsEarly, Prompt, Refused,
                EndTurn, TurnOver
  <2> QED BY <2>1
<1>5. ASSUME Cancel \/ Sweep \/ Renew \/ UNCHANGED vars PROVE Goal
  <2>1. key' = key
    BY <1>5 DEF Cancel, Sweep, Renew, vars
  <2>2. \/ registered' = registered \/ registered' = [k \in Keys |-> 0]
        \/ registered' = [k \in Keys |-> IF Stale(k) THEN 0 ELSE registered[k]]
    BY <1>5 DEF Cancel, Sweep, Renew, vars
  <2> QED BY <2>1, <2>2
<1> QED BY <1>1, <1>2, <1>3, <1>4, <1>5 DEF Next, Submits

LEMMA OfItsKeyStep ==
  ASSUME TypeOK, OfItsKey, [Next]_vars
  PROVE  OfItsKey'
<1>1. ASSUME NEW k \in Keys, registered'[k] # 0 PROVE key'[registered'[k]] = k
  <2>1. CASE registered'[k] = registered[k]
    <3>1. registered[k] \in 0 .. spawned /\ registered[k] # 0
      BY <1>1, <2>1, TypeParts DEF Map
    <3>2. spawned \in Nat /\ MaxConsumers \in Nat /\ spawned <= MaxConsumers
      BY Counting
    <3>3. registered[k] \in Consumers /\ registered[k] <= spawned
      BY <3>1, <3>2 DEF Consumers
    <3> QED BY <2>1, <3>1, <3>3, KeysStay DEF OfItsKey
  <2>2. CASE registered'[k] # registered[k]
    BY <1>1, <2>2, KeysStay
  <2> QED BY <2>1, <2>2
<1> QED BY <1>1 DEF OfItsKey

\* What a step does to one submission.
LEMMA CallMoves ==
  ASSUME TypeOK, [Next]_vars, NEW x \in Messages
  PROVE  \/ call'[x] = call[x]
         \/ /\ call[x].at \notin {"new", "accepted", "failed"} /\ call'[x].to = call[x].to
         \/ /\ call[x].at \in {"new", "retry"}
            /\ call'[x].at \in {"send", "resend"}
            /\ \E r \in 0 .. spawned, at \in {"send", "resend"} :
                 SendTo(x, r, at) /\ r \in {0, registered[KeyOf[x]]}
<1>0. CallsTyped
  BY TypeParts
<1>1. ASSUME NEW m \in Messages, Look(m) \/ Retry(m) PROVE
         \/ call'[x] = call[x]
         \/ /\ call[x].at \in {"new", "retry"}
            /\ call'[x].at \in {"send", "resend"}
            /\ \E r \in 0 .. spawned, at \in {"send", "resend"} :
                 SendTo(x, r, at) /\ r \in {0, registered[KeyOf[x]]}
  <2>1. PICK r \in 0 .. spawned, at \in {"send", "resend"} :
          SendTo(m, r, at) /\ r \in {0, registered[KeyOf[m]]}
    BY <1>1, LooksAt, RetriesAt
  <2>2. call'[m].at = at /\ (m # x => call'[x] = call[x])
    BY <2>1, SendsTo
  <2>3. call[m].at \in {"new", "retry"}
    BY <1>1 DEF Look, Retry
  <2> QED BY <2>1, <2>2, <2>3
<1>2. ASSUME NEW m \in Messages, Enqueue(m) \/ SendFails(m) \/ Evict(m)
      PROVE  \/ call'[x] = call[x]
             \/ call[x].at \notin {"new", "accepted", "failed"} /\ call'[x].to = call[x].to
  <2>1. PICK at : Calls(m, at, call[m].to)
    BY <1>2, Zenon DEF Enqueue, SendFails, Evict
  <2>2. call[m].at \notin {"new", "accepted", "failed"}
    <3>1. CASE Enqueue(m) \/ SendFails(m)
      <4>1. call[m].at \in {"send", "resend"}
        BY <3>1, Zenon DEF Enqueue, SendFails
      <4> QED BY <4>1
    <3>2. CASE Evict(m)
      BY <3>2 DEF Evict
    <3> QED BY <1>2, <3>1, <3>2
  <2>3. m # x => call'[x] = call[x]
    BY <2>1, <1>0 DEF Calls, CallsTyped
  <2>4. call'[m].to = call[m].to
    BY <2>1, <1>0 DEF Calls, CallsTyped, Submitting
  <2> QED BY <2>2, <2>3, <2>4
<1>3. ASSUME \/ \E g \in Consumers : Runs(g) \/ TimedOut(g) \/ Die(g)
             \/ Cancel \/ Sweep \/ Renew \/ UNCHANGED vars
      PROVE  call' = call
  BY <1>3 DEF Runs, Collect, TimedOut, Leave, Finish, Die, EndsEarly, Prompt, Refused,
              EndTurn, TurnOver, Cancel, Sweep, Renew, vars
<1> QED BY <1>1, <1>2, <1>3 DEF Next, Submits

LEMMA SentToItsKeyStep ==
  ASSUME TypeOK, CallsFit, OfItsKey, SentToItsKey, [Next]_vars
  PROVE  SentToItsKey'
<1>0. spawned \in Nat /\ MaxConsumers \in Nat /\ spawned <= MaxConsumers
  BY Counting
<1> SUFFICES ASSUME NEW x \in Messages, call'[x].at # "new"
             PROVE  key'[call'[x].to] = KeyOf[x]
  BY DEF SentToItsKey
<1>1. ASSUME call[x].at # "new", call'[x].to = call[x].to
      PROVE  key'[call'[x].to] = KeyOf[x]
  <2> DEFINE g == call[x].to
  <2>1. g # 0 /\ g \in 0 .. spawned /\ key[g] = KeyOf[x]
    BY <1>1, SubmissionType DEF CallsFit, SentToItsKey
  <2> HIDE DEF g
  <2>2. g \in Consumers /\ g <= spawned
    BY <1>0, <2>1 DEF Consumers
  <2>3. key'[g] = key[g]
    BY <2>2, KeysStay
  <2> QED BY <1>1, <2>1, <2>3 DEF g
<1>2. ASSUME NEW r \in 0 .. spawned, NEW at \in {"send", "resend"}, SendTo(x, r, at),
             r \in {0, registered[KeyOf[x]]}
      PROVE  key'[call'[x].to] = KeyOf[x]
  <2>1. CallsTyped /\ Map /\ KeyOf[x] \in Keys
    BY TypeParts, Counting
  <2>2. CASE r # 0
    <3>1. Calls(x, at, r) /\ key' = key
      BY <1>2, <2>2 DEF SendTo
    <3>2. call'[x].to = r
      BY <2>1, <3>1 DEF Calls, CallsTyped, Submitting
    <3> QED BY <1>2, <2>1, <2>2, <3>1, <3>2 DEF OfItsKey
  <2>3. CASE r = 0
    <3>1. /\ spawned + 1 \in Consumers /\ Calls(x, at, spawned + 1)
          /\ key' = [key EXCEPT ![spawned + 1] = KeyOf[x]]
      BY <1>2, <2>3 DEF SendTo
    <3>2. call'[x].to = spawned + 1
      BY <2>1, <3>1 DEF Calls, CallsTyped, Submitting
    <3> QED BY <2>1, <3>1, <3>2 DEF Map
  <2> QED BY <2>2, <2>3
<1>3. CASE call'[x] = call[x]
  BY <1>1, <1>3
<1> QED BY <1>1, <1>2, <1>3, CallMoves

LEMMA EnteredStep ==
  ASSUME TypeOK, EnteredAreOver, [Next]_vars
  PROVE  EnteredAreOver'
<1>0. Contents /\ CallsTyped
  BY TypeParts
<1>1. ASSUME NEW x \in Messages, call[x].at = "accepted" PROVE call'[x].at = "accepted"
  BY <1>1, CallMoves
<1>2. ASSUME entered' = entered PROVE EnteredAreOver'
  <2> SUFFICES ASSUME NEW g \in Consumers, NEW i \in 1 .. Len(entered[g])
               PROVE  call'[entered[g][i]].at = "accepted"
    BY <1>2 DEF EnteredAreOver
  <2>1. entered[g][i] \in Messages
    BY <1>0, ElementOfSeq DEF Contents
  <2> QED BY <1>1, <2>1 DEF EnteredAreOver
<1>3. ASSUME NEW m \in Messages, Enqueue(m) PROVE EnteredAreOver'
  <2> SUFFICES ASSUME NEW g \in Consumers, NEW i \in 1 .. Len(entered'[g])
               PROVE  call'[entered'[g][i]].at = "accepted"
    BY DEF EnteredAreOver
  <2>1. /\ entered' = [entered EXCEPT ![call[m].to] = Append(@, m)]
        /\ Calls(m, "accepted", call[m].to)
    BY <1>3 DEF Enqueue
  <2>2. call'[m].at = "accepted"
    BY <1>0, <2>1 DEF Calls, CallsTyped, Submitting
  <2>3. entered[g] \in Seq(Messages) /\ Len(entered[g]) \in Nat
    BY Sequences, LenProperties
  <2>4. CASE g # call[m].to
    <3>1. entered'[g] = entered[g]
      BY <1>0, <2>1, <2>4 DEF Contents
    <3>2. entered[g][i] \in Messages
      BY <2>3, <3>1, ElementOfSeq
    <3> QED BY <1>1, <3>1, <3>2 DEF EnteredAreOver
  <2>5. CASE g = call[m].to
    <3>1. entered'[g] = Append(entered[g], m)
      BY <1>0, <2>1, <2>5 DEF Contents
    <3>2. CASE i = Len(entered[g]) + 1
      BY <2>2, <2>3, <3>1, <3>2, AppendProperties
    <3>3. CASE i # Len(entered[g]) + 1
      <4>1. i \in 1 .. Len(entered[g]) /\ entered'[g][i] = entered[g][i]
        BY <2>3, <3>1, <3>3, AppendProperties
      <4>2. entered[g][i] \in Messages
        BY <2>3, <4>1, ElementOfSeq
      <4> QED BY <1>1, <4>1, <4>2 DEF EnteredAreOver
    <3> QED BY <3>2, <3>3
  <2> QED BY <2>4, <2>5
<1>4. ASSUME NEW m \in Messages, Look(m) \/ SendFails(m) \/ Evict(m) \/ Retry(m)
      PROVE  entered' = entered
  <2>1. CASE Look(m) \/ Retry(m)
    BY <2>1 DEF Look, Retry
  <2>2. CASE SendFails(m) \/ Evict(m)
    BY <2>2, Zenon DEF SendFails, Evict, consumers
  <2> QED BY <1>4, <2>1, <2>2
<1>5. ASSUME \/ \E g \in Consumers : Runs(g) \/ TimedOut(g) \/ Die(g)
             \/ Cancel \/ Sweep \/ Renew \/ UNCHANGED vars
      PROVE  entered' = entered
  BY <1>5 DEF Runs, Collect, TimedOut, Leave, Finish, Die, EndsEarly, Prompt, Refused,
              EndTurn, TurnOver, Cancel, Sweep, Renew, consumers, vars
<1> QED BY <1>2, <1>3, <1>4, <1>5 DEF Next, Submits

LEMMA RInvAlways == Spec => []RInv
<1>1. Init => RInv
  BY InvInit DEF Init, RInv, OfItsKey, SentToItsKey, EnteredAreOver, Submitting
<1>2. RInv /\ [Next]_vars => RInv'
  BY TypeOKStep, UnbornStep, CallsStep, OneStep, OrderStep, RetryStep, OfItsKeyStep,
     SentToItsKeyStep, EnteredStep DEF IInv, RInv
<1> QED BY <1>1, <1>2, PTL DEF Spec
-----------------------------------------------------------------------------
(* Every step is a step of the promise, or is not seen by it. *)

\* What the promise sees of a consumer that is at s, of all consumers, and of the
\* submissions.
Seen(s) == CASE s = "unborn" -> "none" [] s \in Receiving -> "open" [] OTHER -> "closed"
StateOf == [g \in Consumers |-> Seen(step[g])]
Failed == {m \in Messages : call[m].at = "failed"}

Unseen == UNCHANGED <<key, StateOf, doomed, entered, started, Failed>>

LEMMA SeenAs ==
  ASSUME NEW s \in AllSteps
  PROVE  /\ Seen(s) = "none" <=> s = "unborn"
         /\ Seen(s) = "open" <=> s \in Receiving
         /\ Seen(s) = "closed" <=> s \in {"closed", "gone"}
BY DEF Seen, AllSteps, Receiving

LEMMA StateMoves ==
  ASSUME TypeOK, NEW g \in Consumers, NEW at, step' = [step EXCEPT ![g] = at]
  PROVE  StateOf' = [StateOf EXCEPT ![g] = Seen(at)]
<1>1. step \in [Consumers -> AllSteps]
  BY TypeParts DEF Map
<1>2. ASSUME NEW x \in Consumers
      PROVE  Seen(step'[x]) = IF x = g THEN Seen(at) ELSE StateOf[x]
  BY <1>1 DEF StateOf
<1> QED BY <1>2 DEF StateOf

LEMMA FailedUnless ==
  ASSUME NEW m \in Messages, TypeOK, NEW at, NEW to, Calls(m, at, to),
         call[m].at # "failed"
  PROVE  Failed' = IF at = "failed" THEN Failed \cup {m} ELSE Failed
<1>1. CallsTyped
  BY TypeParts
<1>2. call'[m].at = at /\ \A x \in Messages : x # m => call'[x] = call[x]
  BY <1>1 DEF Calls, CallsTyped, Submitting
<1> QED BY <1>2 DEF Failed

LEMMA UnseenStutters ==
  ASSUME Unseen
  PROVE  UNCHANGED <<key, [g \in Consumers |-> CASE step[g] = "unborn" -> "none"
                                                 [] step[g] \in Receiving -> "open"
                                                 [] OTHER -> "closed"],
                     doomed, entered, started, {m \in Messages : call[m].at = "failed"}>>
BY DEF Unseen, StateOf, Seen, Failed

\* A consumer that is spawned.
LEMMA Opens ==
  ASSUME NEW b \in Consumers, NEW k \in Keys,
         StateOf[b] = "none",
         \A c \in Consumers : StateOf[c] = "open" /\ c \notin doomed => key[c] # k,
         StateOf' = [StateOf EXCEPT ![b] = "open"], key' = [key EXCEPT ![b] = k],
         UNCHANGED <<doomed, entered, started, Failed>>
  PROVE  Promise!Open(b, k)
BY DEF Promise!Open, Promise!Serving, Promise!given, StateOf, Seen, Failed

LEMMA Accepts ==
  ASSUME NEW m \in Messages, NEW b \in Consumers,
         StateOf[b] = "open", key[b] = KeyOf[m],
         \A c \in Consumers : \A i \in 1 .. Len(entered[c]) : entered[c][i] # m,
         m \notin Failed, entered' = [entered EXCEPT ![b] = Append(@, m)],
         UNCHANGED <<key, StateOf, doomed, started, Failed>>
  PROVE  Promise!Accept(m, b)
BY DEF Promise!Accept, Promise!Accepted, StateOf, Seen, Failed

LEMMA Rejects ==
  ASSUME NEW m \in Messages,
         \A c \in Consumers : \A i \in 1 .. Len(entered[c]) : entered[c][i] # m,
         m \notin Failed, Failed' = Failed \cup {m},
         UNCHANGED <<key, StateOf, doomed, entered, started>>
  PROVE  Promise!Reject(m)
BY DEF Promise!Reject, Promise!Accepted, StateOf, Seen, Failed

LEMMA Takes ==
  ASSUME NEW b \in Consumers, StateOf[b] = "open",
         NEW n \in Len(started[b]) + 1 .. Len(entered[b]),
         started' = [started EXCEPT ![b] = SubSeq(entered[b], 1, n)],
         UNCHANGED <<key, StateOf, doomed, entered, Failed>>
  PROVE  Promise!Take(b)
BY DEF Promise!Take, StateOf, Seen, Failed

LEMMA Shuts ==
  ASSUME NEW b \in Consumers, StateOf[b] = "open",
         StateOf' = [StateOf EXCEPT ![b] = "closed"],
         UNCHANGED <<key, doomed, entered, started, Failed>>
  PROVE  Promise!Close(b)
BY DEF Promise!Close, Promise!given, StateOf, Seen, Failed

LEMMA Dismisses ==
  ASSUME doomed' \subseteq Consumers, doomed \subseteq doomed',
         UNCHANGED <<key, StateOf, entered, started, Failed>>
  PROVE  Promise!Dismiss
BY DEF Promise!Dismiss, Promise!given, StateOf, Seen, Failed

LEMMA NotYetEntered ==
  ASSUME EnteredAreOver, NEW m \in Messages, call[m].at # "accepted"
  PROVE  \A c \in Consumers : \A i \in 1 .. Len(entered[c]) : entered[c][i] # m
BY DEF EnteredAreOver

\* What Collect takes is a longer part of what the consumer was sent.
LEMMA TakesMore ==
  ASSUME TypeOK, InOrderOnce, NEW g \in Consumers, Collect(g)
  PROVE  \E n \in Len(started[g]) + 1 .. Len(entered[g]) :
           started' = [started EXCEPT ![g] = SubSeq(entered[g], 1, n)]
<1> DEFINE s == Waiting(g)
<1>1. PICK n \in BatchSizes(s) : started' = [started EXCEPT ![g] = @ \o SubSeq(s, 1, n)]
  BY DEF Collect
<1>2. entered[g] = started[g] \o s /\ started \in [Consumers -> Seq(Messages)]
  <2>1. step[g] \in Receiving
    BY DEF Collect, Receiving
  <2> QED BY <2>1, TypeParts DEF InOrderOnce, Contents
<1>3. s \in Seq(Messages) /\ started[g] \in Seq(Messages) /\ n \in 1 .. Len(s)
  BY Sequences DEF BatchSizes
<1> HIDE DEF s
<1>4. PICK b, z : b = SubSeq(s, 1, n) /\ z = SubSeq(s, n + 1, Len(s))
  OBVIOUS
<1>5. b \in Seq(Messages) /\ z \in Seq(Messages) /\ Len(b) = n /\ Len(z) = Len(s) - n
  <2>1. Len(s) \in Nat /\ \A i \in 1 .. Len(s) : s[i] \in Messages
    BY <1>3, LenProperties, ElementOfSeq
  <2>2. SubSeq(s, 1, n) \in Seq(Messages) /\ Len(SubSeq(s, 1, n)) = n
    BY <1>3, <2>1, SubSeqProperties
  <2>3. SubSeq(s, n + 1, Len(s)) \in Seq(Messages) /\ Len(SubSeq(s, n + 1, Len(s))) = Len(s) - n
    <3>1. \A i \in n + 1 .. Len(s) : s[i] \in Messages
      BY <1>3, <2>1
    <3> QED BY <1>3, <2>1, <3>1, SubSeqProperties
  <2> QED BY <1>4, <2>2, <2>3
<1>6. s = b \o z
  <2>1. 1 \in 1 .. Len(s) + 1 /\ n \in 1 - 1 .. Len(s) /\ Len(s) \in n .. Len(s)
    BY <1>3, LenProperties
  <2>2. SubSeq(s, 1, n) \o SubSeq(s, n + 1, Len(s)) = SubSeq(s, 1, Len(s))
    BY <1>3, <2>1, ConcatAdjacentSubSeq
  <2> QED BY <1>3, <1>4, <2>2, SubSeqFull
<1>7. PICK r : r = started[g] \o b
  OBVIOUS
<1>8. /\ r \in Seq(Messages) /\ Len(r) = Len(started[g]) + n
      /\ Len(r \o z) = Len(r) + Len(z)
  BY <1>3, <1>5, <1>7, ConcatProperties
<1>9. entered[g] = r \o z
  <2>1. \A u, v, w \in Seq(Messages) : (u \o v) \o w = u \o (v \o w)
    BY ConcatAssociative
  <2>2. (started[g] \o b) \o z = started[g] \o (b \o z)
    BY <1>3, <1>5, <2>1
  <2> QED BY <1>2, <1>6, <1>7, <2>2, Zenon
<1>10. r = SubSeq(entered[g], 1, Len(r))
  BY <1>5, <1>8, <1>9, FrontIsPrefix DEF Prefix
<1>11. Len(r) \in Len(started[g]) + 1 .. Len(entered[g])
  <2>1. Len(started[g]) \in Nat /\ Len(s) \in Nat /\ Len(entered[g]) = Len(r) + (Len(s) - n)
    BY <1>3, <1>5, <1>8, <1>9, LenProperties
  <2> QED BY <1>3, <1>8, <2>1
<1>12. started' = [started EXCEPT ![g] = SubSeq(entered[g], 1, Len(r))]
  BY <1>1, <1>2, <1>4, <1>7, <1>10
<1> QED BY <1>11, <1>12

\* A submission that looks for a consumer: none is seen, or one is opened.
LEMMA LookIsPromised ==
  ASSUME RInv, TypeOK', NEW m \in Messages, Look(m) \/ Retry(m)
  PROVE  Unseen \/ \E b \in Consumers, k \in Keys : Promise!Open(b, k)
<1>0. /\ TypeOK /\ UnbornAreEmpty /\ OneConsumer /\ Map /\ KeyOf[m] \in Keys
      /\ spawned \in Nat /\ MaxConsumers \in Nat
  BY TypeParts, Counting DEF RInv, IInv
<1>1. PICK r \in 0 .. spawned, at \in {"send", "resend"} :
        /\ SendTo(m, r, at)
        /\ r = 0 => registered[KeyOf[m]] = 0 \/ step[registered[KeyOf[m]]] = "gone"
  BY <1>0, LooksAt, RetriesAt
<1>2. UNCHANGED <<doomed, entered, started>> /\ call[m].at # "failed"
  BY DEF Look, Retry
<1>3. Failed' = Failed
  <2>1. PICK to : Calls(m, at, to)
    BY <1>1 DEF SendTo
  <2> QED BY <1>0, <1>2, <2>1, FailedUnless
<1>4. CASE r # 0
  <2>1. UNCHANGED <<key, step>>
    BY <1>1, <1>4 DEF SendTo
  <2> QED BY <1>2, <1>3, <2>1 DEF Unseen, StateOf
<1>5. CASE r = 0
  <2>1. PICK b : b = spawned + 1
    OBVIOUS
  <2>2. /\ b \in Consumers /\ b > spawned
        /\ key' = [key EXCEPT ![b] = KeyOf[m]] /\ step' = [step EXCEPT ![b] = "waiting"]
    BY <1>0, <1>1, <1>5, <2>1 DEF SendTo
  <2>3. Seen("waiting") = "open" /\ step[b] = "unborn"
    BY <1>0, <2>2 DEF Seen, Receiving, UnbornAreEmpty
  <2>4. StateOf[b] = "none"
    BY <1>0, <2>2, <2>3, SeenAs DEF StateOf, Map
  <2>5. ASSUME NEW c \in Consumers, StateOf[c] = "open", c \notin doomed
        PROVE  key[c] # KeyOf[m]
    <3>1. step[c] \in Receiving
      BY <1>0, <2>5, SeenAs DEF StateOf, Map
    <3>2. registered[key[c]] = c /\ step[c] # "gone" /\ c # 0
      BY <1>0, <2>5, <3>1 DEF OneConsumer, Receiving, Consumers
    <3> QED BY <1>1, <1>5, <3>2
  <2>6. StateOf' = [StateOf EXCEPT ![b] = "open"]
    BY <1>0, <2>2, <2>3, StateMoves
  <2>7. Promise!Open(b, KeyOf[m])
    BY <1>0, <1>2, <1>3, <2>2, <2>4, <2>5, <2>6, Opens
  <2> QED BY <1>0, <2>2, <2>7
<1> QED BY <1>4, <1>5

LEMMA StepIsPromised ==
  ASSUME RInv, TypeOK', [Next]_vars
  PROVE  Promise!PNext \/ Unseen
<1>0. /\ TypeOK /\ InOrderOnce /\ CallsFit /\ SentToItsKey /\ EnteredAreOver /\ Map /\ CallsTyped
      /\ spawned \in Nat /\ MaxConsumers \in Nat /\ spawned <= MaxConsumers
  BY TypeParts, Counting DEF RInv, IInv
<1>1. ASSUME NEW m \in Messages, Look(m) \/ Retry(m) PROVE Promise!PNext \/ Unseen
  BY <1>1, LookIsPromised DEF Promise!PNext
<1>2. ASSUME NEW m \in Messages, Enqueue(m) PROVE Promise!PNext
  <2>1. PICK g : g = call[m].to
    OBVIOUS
  <2>2. /\ step[g] \in Receiving /\ Calls(m, "accepted", g)
        /\ call[m].at \in {"send", "resend"}
        /\ entered' = [entered EXCEPT ![g] = Append(@, m)]
        /\ UNCHANGED <<key, step, doomed, started>>
    BY <1>2, <2>1 DEF Enqueue
  <2>3. g # 0 /\ g \in 0 .. spawned /\ key[g] = KeyOf[m]
    BY <1>0, <2>1, <2>2, SubmissionType DEF CallsFit, SentToItsKey
  <2>4. g \in Consumers
    BY <1>0, <2>3 DEF Consumers
  <2>5. StateOf[g] = "open" /\ StateOf' = StateOf
    BY <2>2, <2>4 DEF StateOf, Seen, Receiving
  <2>6. m \notin Failed /\ Failed' = Failed
    BY <1>0, <2>2, FailedUnless DEF Failed
  <2>7. Promise!Accept(m, g)
    BY <1>0, <2>2, <2>3, <2>4, <2>5, <2>6, NotYetEntered, Accepts
  <2> QED BY <2>4, <2>7 DEF Promise!PNext
<1>3. ASSUME NEW m \in Messages, SendFails(m) PROVE Unseen
  <2>1. UNCHANGED <<key, step, doomed, entered, started>>
    BY <1>3, Zenon DEF SendFails, consumers
  <2>2. call[m].at \in {"send", "resend"}
    BY <1>3, Zenon DEF SendFails
  <2>3. PICK at : Calls(m, at, call[m].to) /\ at # "failed"
    <3>1. Calls(m, IF call[m].at = "send" THEN "evict" ELSE "give up", call[m].to)
      BY <1>3, Zenon DEF SendFails
    <3>2. CASE call[m].at = "send"
      <4>1. Calls(m, "evict", call[m].to) /\ "evict" # "failed"
        BY <3>1, <3>2, Zenon
      <4> QED BY <4>1, Zenon
    <3>3. CASE call[m].at # "send"
      <4>1. Calls(m, "give up", call[m].to) /\ "give up" # "failed"
        BY <3>1, <3>3, Zenon
      <4> QED BY <4>1, Zenon
    <3> QED BY <3>2, <3>3, Zenon
  <2>4. Failed' = Failed
    BY <1>0, <2>2, <2>3, FailedUnless
  <2> QED BY <2>1, <2>4 DEF Unseen, StateOf
<1>4. ASSUME NEW m \in Messages, Evict(m) PROVE Promise!PNext \/ Unseen
  <2>1. UNCHANGED <<key, step, doomed, entered, started>>
    BY <1>4, Zenon DEF Evict, consumers
  <2>2. call[m].at # "failed" /\ call[m].at # "accepted"
    BY <1>4 DEF Evict
  <2>3. StateOf' = StateOf
    BY <2>1 DEF StateOf
  <2>4. PICK at : Calls(m, at, call[m].to)
    BY <1>4, Zenon DEF Evict
  <2>5. CASE at = "failed"
    <3>1. m \notin Failed /\ Failed' = Failed \cup {m}
      BY <1>0, <2>2, <2>4, <2>5, FailedUnless DEF Failed
    <3>2. Promise!Reject(m)
      BY <1>0, <2>1, <2>2, <2>3, <3>1, NotYetEntered, Rejects
    <3> QED BY <3>2 DEF Promise!PNext
  <2>6. CASE at # "failed"
    <3>1. Failed' = Failed
      BY <1>0, <2>2, <2>4, <2>6, FailedUnless
    <3> QED BY <2>1, <2>3, <3>1 DEF Unseen
  <2> QED BY <2>5, <2>6
<1>5. ASSUME NEW g \in Consumers, Collect(g) PROVE Promise!PNext
  <2>1. /\ UNCHANGED <<key, doomed, call, entered>>
        /\ step[g] = "waiting" /\ step' = [step EXCEPT ![g] = "packing"]
    BY <1>5 DEF Collect
  <2>2. Seen("waiting") = "open" /\ Seen("packing") = "open"
    BY DEF Seen, Receiving
  <2>3. StateOf[g] = "open"
    BY <2>1, <2>2 DEF StateOf
  <2>4. StateOf' = StateOf
    <3>1. StateOf' = [StateOf EXCEPT ![g] = "open"]
      BY <1>0, <2>1, <2>2, StateMoves
    <3> QED BY <2>3, <3>1 DEF StateOf
  <2>5. Failed' = Failed
    BY <2>1 DEF Failed
  <2>6. Promise!Take(g)
    BY <1>0, <1>5, <2>1, <2>3, <2>4, <2>5, TakesMore, Takes
  <2> QED BY <2>6 DEF Promise!PNext
<1>6. ASSUME NEW g \in Consumers, Leave(g) \/ Die(g) PROVE Promise!PNext
  <2>1. /\ UNCHANGED <<key, doomed, call, entered, started>>
        /\ step[g] \in Receiving /\ step' = [step EXCEPT ![g] = "closed"]
    BY <1>6 DEF Leave, Die, Closes, Receiving
  <2>2. Seen("closed") = "closed" /\ StateOf[g] = "open" /\ Failed' = Failed
    BY <2>1 DEF Seen, Receiving, StateOf, Failed
  <2>3. StateOf' = [StateOf EXCEPT ![g] = "closed"]
    BY <1>0, <2>1, <2>2, StateMoves
  <2>4. Promise!Close(g)
    BY <2>1, <2>2, <2>3, Shuts
  <2> QED BY <2>4 DEF Promise!PNext
<1>7. ASSUME NEW g \in Consumers,
             TimedOut(g) \/ Finish(g) \/ EndsEarly(g) \/ Prompt(g) \/ Refused(g) \/ EndTurn(g)
      PROVE  Unseen
  <2>1. UNCHANGED <<key, doomed, call, entered, started>>
    BY <1>7 DEF TimedOut, Finish, EndsEarly, Prompt, Refused, EndTurn, TurnOver
  <2>2. PICK at : /\ step' = [step EXCEPT ![g] = at]
                  /\ \/ step[g] \in Receiving /\ at \in Receiving
                     \/ step[g] = "closed" /\ at = "gone"
    BY <1>7 DEF TimedOut, Finish, EndsEarly, Prompt, Refused, EndTurn, TurnOver, Receiving
  <2>3. Seen(at) = StateOf[g]
    BY <2>2 DEF Seen, Receiving, StateOf
  <2>4. StateOf' = [StateOf EXCEPT ![g] = StateOf[g]]
    BY <1>0, <2>2, <2>3, StateMoves
  <2>5. StateOf' = StateOf /\ Failed' = Failed
    BY <2>1, <2>4 DEF StateOf, Failed
  <2> QED BY <2>1, <2>5 DEF Unseen
<1>8. ASSUME Cancel PROVE Promise!PNext
  <2>1. UNCHANGED <<key, step, call, entered, started>> /\ doomed \subseteq doomed'
    BY <1>8 DEF Cancel
  <2>2. doomed' \subseteq Consumers
    <3>1. Map'
      BY DEF TypeOK, Map, AllSteps
    <3>2. spawned' = spawned
      BY <1>8 DEF Cancel
    <3> QED BY <1>0, <3>1, <3>2 DEF Map, Consumers
  <2>3. StateOf' = StateOf /\ Failed' = Failed
    BY <2>1 DEF StateOf, Failed
  <2>4. Promise!Dismiss
    BY <2>1, <2>2, <2>3, Dismisses
  <2> QED BY <2>4 DEF Promise!PNext
<1>9. ASSUME Sweep \/ Renew \/ UNCHANGED vars PROVE Unseen
  <2>1. UNCHANGED <<key, step, doomed, call, entered, started>>
    BY <1>9 DEF Sweep, Renew, consumers, vars
  <2> QED BY <2>1 DEF Unseen, StateOf, Failed
<1> QED BY <1>1, <1>2, <1>3, <1>4, <1>5, <1>6, <1>7, <1>8, <1>9 DEF Next, Submits, Runs

\* The dispatcher, with its queues of bounded size, parked senders, retries and
\* replaced consumers, does what it promises: a message goes to one consumer of its
\* key or its sender is told that it failed, a consumer works off what it was sent
\* from the front, and no second consumer is opened for a key while one serves it.
THEOREM Refinement == Spec => KeepsPromise
<1>1. Init => Promise!PInit
  <2>1. ASSUME Init PROVE key \in [Consumers -> Keys]
    BY <2>1, TypeOKInit, TypeParts DEF Map
  <2> QED BY <2>1 DEF Init, Promise!PInit, Submitting, Receiving
<1>2. RInv /\ TypeOK' /\ [Next]_vars
        => Promise!PNext \/ Unseen
  BY StepIsPromised
<1>3. RInv /\ TypeOK' /\ [Next]_vars
        => [Promise!PNext]_<<key, [g \in Consumers |-> CASE step[g] = "unborn" -> "none"
                                                         [] step[g] \in Receiving -> "open"
                                                         [] OTHER -> "closed"],
                             doomed, entered, started,
                             {m \in Messages : call[m].at = "failed"}>>
  BY <1>2, UnseenStutters
<1> QED BY <1>1, <1>3, RInvAlways, TypeCorrect, PTL DEF Spec, KeepsPromise, Promise!PromiseSpec
=============================================================================
