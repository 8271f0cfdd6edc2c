-------------------------- MODULE DispatcherPromise --------------------------
(***************************************************************************)
(* What the dispatcher promises the senders of a thread, as if a message   *)
(* were handed over in one step: it goes into one mailbox of its key or is *)
(* refused, never both and never twice; mailboxes are emptied from the     *)
(* front; and at any time one of a key serves, the others are dismissed or *)
(* closed.  No locks, no retries, no queues of bounded size.               *)
(***************************************************************************)
EXTENDS Naturals, Sequences

CONSTANTS Keys, Messages, KeyOf, Boxes

VARIABLES
  owner,      \* the key of each mailbox
  state,      \* "none", "open" or "closed"
  dismissed,  \* mailboxes that were told to stop
  accepted,   \* what each mailbox was ever given, in order
  taken,      \* what was taken out of it, in order
  rejected    \* messages whose sender was told that they failed

given == <<accepted, taken, rejected>>

Accepted(m) == \E b \in Boxes : \E i \in 1 .. Len(accepted[b]) : accepted[b][i] = m

Serving(b) == state[b] = "open" /\ b \notin dismissed

PInit == /\ owner \in [Boxes -> Keys]
         /\ state = [b \in Boxes |-> "none"] /\ dismissed = {}
         /\ accepted = [b \in Boxes |-> <<>>] /\ taken = [b \in Boxes |-> <<>>]
         /\ rejected = {}

Open(b, k) ==
  /\ state[b] = "none" /\ \A c \in Boxes : Serving(c) => owner[c] # k
  /\ state' = [state EXCEPT ![b] = "open"] /\ owner' = [owner EXCEPT ![b] = k]
  /\ UNCHANGED <<dismissed, given>>

Accept(m, b) ==
  /\ state[b] = "open" /\ owner[b] = KeyOf[m]
  /\ ~Accepted(m) /\ m \notin rejected
  /\ accepted' = [accepted EXCEPT ![b] = Append(@, m)]
  /\ UNCHANGED <<owner, state, dismissed, taken, rejected>>

Reject(m) ==
  /\ ~Accepted(m) /\ m \notin rejected
  /\ rejected' = rejected \cup {m}
  /\ UNCHANGED <<owner, state, dismissed, accepted, taken>>

Take(b) ==
  /\ state[b] = "open"
  /\ \E n \in Len(taken[b]) + 1 .. Len(accepted[b]) :
       taken' = [taken EXCEPT ![b] = SubSeq(accepted[b], 1, n)]
  /\ UNCHANGED <<owner, state, dismissed, accepted, rejected>>

Dismiss ==
  /\ dismissed' \in SUBSET Boxes /\ dismissed \subseteq dismissed'
  /\ UNCHANGED <<owner, state, given>>

Close(b) ==
  /\ state[b] = "open" /\ state' = [state EXCEPT ![b] = "closed"]
  /\ UNCHANGED <<owner, dismissed, given>>

PNext == \/ \E b \in Boxes : Take(b) \/ Close(b) \/ \E k \in Keys : Open(b, k)
         \/ \E m \in Messages : Reject(m) \/ \E b \in Boxes : Accept(m, b)
         \/ Dismiss

PromiseSpec ==
  PInit /\ [][PNext]_<<owner, state, dismissed, accepted, taken, rejected>>
=============================================================================
