-------------------------- MODULE TerminalDelivery --------------------------
(***************************************************************************)
(* The durable outbox through which a finished Runtime turn reaches its    *)
(* user on Discord, at most once, whatever crashes in between              *)
(* (crates/openab-core/src/terminal_delivery.rs and                        *)
(* terminal_delivery_worker.rs).                                           *)
(*                                                                         *)
(* One row of terminal_deliveries is followed through its life; rows do    *)
(* not influence each other.  The live turn captures the row and delivers  *)
(* it; reconciliation managers scan for a row that was left behind.  Every *)
(* repository call is one SQLite transaction and one step here, and so is  *)
(* every call of Discord: the row may change between any two of them.      *)
(***************************************************************************)
EXTENDS Naturals

CONSTANTS
  Live,            \* turns that may capture the row (a replayed message is another)
  Managers,        \* reconciliation managers, one per running instance
  MaxAttempts,     \* MAX_EXTERNAL_ATTEMPTS
  MaxReads,        \* MAX_AMBIGUOUS_RECONCILIATION_ATTEMPTS
  MaxClaimTries,   \* MAX_CLAIM_RETRIES
  FlakyUpTo,       \* bound: Discord fails transiently on so many attempts at most
  MaxFaults        \* bound: crashes and storage errors

ASSUME MaxAttemptsAssumption == MaxAttempts \in Nat \ {0}
ASSUME MaxReadsAssumption == MaxReads \in Nat \ {0}
ASSUME BoundsAssumption == {MaxClaimTries, FlakyUpTo, MaxFaults} \subseteq Nat
ASSUME DisjointAssumption == Live \cap Managers = {}

Workers == Live \cup Managers

VARIABLES
  rec,      \* the durable row
  reads,    \* its AMBIGUOUS_RECONCILIATION_READ_ATTEMPT events
  worker,   \* what each worker holds in memory
  sends,    \* history: calls of send_terminal
  posts,    \* history: messages that Discord posted; the n-th has id n
  gets,     \* history: calls of get_message
  faults    \* crashes and storage errors so far

vars == <<rec, reads, worker, sends, posts, gets, faults>>
-----------------------------------------------------------------------------
States == {"PENDING_RESULT", "READY_TO_DELIVER", "DELIVERING", "RETRY_SCHEDULED",
           "AMBIGUOUS", "DELIVERED", "PERMANENT_REJECTED", "OPERATOR_HOLD"}

Final == {"DELIVERED", "PERMANENT_REJECTED"}

\* may_transition_to
Moves ==
  { <<"PENDING_RESULT", "READY_TO_DELIVER">>, <<"PENDING_RESULT", "OPERATOR_HOLD">>,
    <<"READY_TO_DELIVER", "DELIVERING">>, <<"READY_TO_DELIVER", "OPERATOR_HOLD">>,
    <<"DELIVERING", "DELIVERED">>, <<"DELIVERING", "RETRY_SCHEDULED">>,
    <<"DELIVERING", "PERMANENT_REJECTED">>, <<"DELIVERING", "AMBIGUOUS">>,
    <<"RETRY_SCHEDULED", "DELIVERING">>, <<"RETRY_SCHEDULED", "OPERATOR_HOLD">>,
    <<"AMBIGUOUS", "DELIVERED">>, <<"AMBIGUOUS", "OPERATOR_HOLD">>,
    <<"OPERATOR_HOLD", "READY_TO_DELIVER">>, <<"OPERATOR_HOLD", "DELIVERED">>,
    <<"OPERATOR_HOLD", "PERMANENT_REJECTED">> }

Claimable == {"READY_TO_DELIVER", "RETRY_SCHEDULED"}

\* A row: mid is discord_message_id and lease the delivery_lease_token (0 for
\* none; a token is named after the revision that issued it).  The two times are
\* kept as what the code compares them for: next_attempt_at is none, later than
\* now, or past; delivery_started_at is none, fresh, or older than
\* STALE_DELIVERING_AFTER_SECS.
Records == [state : States \cup {"NONE"}, rev : Nat, attempts : Nat, mid : Nat,
            lease : Nat, next : {"none", "later", "past"},
            started : {"none", "fresh", "stale"}]

NoRecord == [state |-> "NONE", rev |-> 0, attempts |-> 0, mid |-> 0, lease |-> 0,
             next |-> "none", started |-> "none"]

Steps == {"idle", "materialize", "claim", "reread", "recheck", "send", "evidence",
          "deliver", "retry", "exhausted", "hold", "reject", "ambiguous",
          "recoverPending", "recoverStale", "claimRead", "read", "verified",
          "ifExhausted", "holdAmbiguous"}

Idle == [step |-> "idle", snap |-> NoRecord, tries |-> 0, mid |-> 0]

Init == /\ rec = NoRecord
        /\ reads = 0
        /\ worker = [w \in Workers |-> Idle]
        /\ sends = 0 /\ posts = 0 /\ gets = 0
        /\ faults = 0

Go(w, now, step) == worker' = [worker EXCEPT ![w] = [now EXCEPT !.step = step]]
Finish(w) == worker' = [worker EXCEPT ![w] = Idle]

\* w goes on with `row' as its snapshot of the record.
Holding(w, row, step) == Go(w, [worker[w] EXCEPT !.snap = row], step)

Fault == faults < MaxFaults /\ faults' = faults + 1

\* Mutated form of Owns: only the state machine is consulted, not the revision.
OwnsByState(w, next) == rec.state \notin Final /\ <<rec.state, next>> \in Moves

\* The checks of transition_inner: w's snapshot is still the row.
Owns(w, next) == /\ rec.state \notin Final
                 /\ rec.rev = worker[w].snap.rev
                 /\ <<rec.state, next>> \in Moves

\* ... and those of transition_with_lease.
OwnsLease(w, next) == Owns(w, next) /\ rec.lease = worker[w].snap.lease

\* One compare-and-swap of the row.  If it succeeds w goes on with the new row at
\* `step'; if it is refused, or the storage fails, w's call ends with the error.
Cas(w, may, row, step) ==
  LET new == [row EXCEPT !.rev = rec.rev + 1]
  IN  \/ /\ may
         /\ rec' = new
         /\ IF step = "idle" THEN Finish(w) ELSE Holding(w, new, step)
         /\ UNCHANGED faults
      \/ ~may /\ Finish(w) /\ UNCHANGED <<rec, faults>>
      \/ Fault /\ Finish(w) /\ UNCHANGED rec

-----------------------------------------------------------------------------
(* The live turn. *)

\* capture_and_deliver: the row is created, or the one of the same turn reused.
Capture(w) ==
  LET row == IF rec.state = "NONE" THEN [NoRecord EXCEPT !.state = "PENDING_RESULT"]
                                   ELSE rec
  IN  /\ worker[w].step = "idle" /\ w \in Live
      /\ rec' = row
      /\ CASE row.state = "PENDING_RESULT" -> Holding(w, row, "materialize")
           [] row.state \in Claimable      -> Holding(w, row, "claim")
           [] OTHER                        -> Finish(w)
      /\ UNCHANGED <<reads, sends, posts, gets, faults>>

Materialize(w) ==
  /\ worker[w].step = "materialize"
  /\ Cas(w, Owns(w, "READY_TO_DELIVER"),
         [rec EXCEPT !.state = "READY_TO_DELIVER"], "claim")
  /\ UNCHANGED <<reads, sends, posts, gets>>

-----------------------------------------------------------------------------
(* deliver_ready: claim, send, record the outcome. *)

\* Mutated form of Claimed: only a first attempt is counted.
ClaimedUncounted(row) ==
  [row EXCEPT !.state = "DELIVERING", !.rev = @ + 1, !.attempts = 1,
              !.lease = row.rev + 1, !.started = "fresh"]

\* The row as a claim leaves it.
Claimed(row) ==
  [row EXCEPT !.state = "DELIVERING", !.rev = @ + 1, !.attempts = @ + 1,
              !.lease = row.rev + 1, !.started = "fresh"]

Claim(w) ==
  LET now == [worker[w] EXCEPT !.tries = @ + 1]
      new == Claimed(rec)
  IN  /\ worker[w].step = "claim"
      /\ \/ /\ Owns(w, "DELIVERING")
            /\ rec' = new
            /\ Go(w, [now EXCEPT !.snap = new], "send")
            /\ UNCHANGED faults
         \/ /\ ~Owns(w, "DELIVERING")
            /\ Go(w, now, "reread")
            /\ UNCHANGED <<rec, faults>>
         \/ /\ Fault /\ UNCHANGED rec
            /\ Go(w, now, "recheck") \/ Finish(w)
      /\ UNCHANGED <<reads, sends, posts, gets>>

\* The claim was refused: another worker has changed the row.
Reread(w) ==
  /\ worker[w].step = "reread"
  /\ \/ /\ rec.state \in Claimable /\ worker[w].tries < MaxClaimTries
        /\ Holding(w, rec, "claim")
        /\ UNCHANGED faults
     \/ /\ ~(rec.state \in Claimable /\ worker[w].tries < MaxClaimTries)
        /\ Finish(w) /\ UNCHANGED faults
     \/ Fault /\ Finish(w)
  /\ UNCHANGED <<rec, reads, sends, posts, gets>>

\* The claim met a locked database; here the row is read again if it can be.
Recheck(w) ==
  /\ worker[w].step = "recheck"
  /\ \/ /\ rec.state \in Claimable /\ worker[w].tries < MaxClaimTries
        /\ Holding(w, rec, "claim")
        /\ UNCHANGED faults
     \/ /\ ~(rec.state \in Claimable /\ worker[w].tries < MaxClaimTries)
        /\ Finish(w) /\ UNCHANGED faults
     \/ Fault /\ (IF worker[w].tries < MaxClaimTries THEN Holding(w, worker[w].snap, "claim")
                                                     ELSE Finish(w))
  /\ UNCHANGED <<rec, reads, sends, posts, gets>>

\* Mutated form of AfterPost: the accepted message is not put on record first.
AfterPostAtOnce == "deliver"
AfterPost == "evidence"

\* send_terminal, with its 30 s timeout: posted and answered, refused for now,
\* refused for good, or unknown.  As classify_adapter_error has it, a refusal
\* (429, 5xx, no connection; another 4xx) means that nothing was posted.
Send(w) ==
  /\ worker[w].step = "send"
  /\ sends' = sends + 1
  /\ \/ /\ posts' = posts + 1
        /\ Go(w, [worker[w] EXCEPT !.mid = posts + 1], AfterPost)
     \/ /\ worker[w].snap.attempts <= FlakyUpTo
        /\ posts' = posts
        /\ Go(w, worker[w],
              IF worker[w].snap.attempts >= MaxAttempts THEN "exhausted" ELSE "retry")
     \/ posts' = posts /\ Go(w, worker[w], "reject")
     \/ posts' \in {posts, posts + 1} /\ Go(w, worker[w], "ambiguous")
  /\ UNCHANGED <<rec, reads, gets, faults>>

\* persist_accepted_message_id; the id is write-once.
Evidence(w) ==
  /\ worker[w].step = "evidence"
  /\ Cas(w, /\ rec.state = "DELIVERING" /\ rec.rev = worker[w].snap.rev
            /\ rec.lease = worker[w].snap.lease /\ rec.mid = 0,
         [rec EXCEPT !.mid = worker[w].mid], "deliver")
  /\ UNCHANGED <<reads, sends, posts, gets>>

\* Mutated form of Released: the lease outlives the claim.
LeaseKept(row, state) == [row EXCEPT !.state = state]

\* The row as the end of a claim leaves it.
Released(row, state) == [row EXCEPT !.state = state, !.lease = 0]

Deliver(w) ==
  /\ worker[w].step = "deliver"
  /\ Cas(w, OwnsLease(w, "DELIVERED"),
         Released(rec, "DELIVERED"), "idle")
  /\ UNCHANGED <<reads, sends, posts, gets>>

Retry(w) ==
  /\ worker[w].step = "retry"
  /\ Cas(w, OwnsLease(w, "RETRY_SCHEDULED"),
         [Released(rec, "RETRY_SCHEDULED") EXCEPT !.next = "later"], "idle")
  /\ UNCHANGED <<reads, sends, posts, gets>>

\* The last permitted attempt failed: the row is held, by way of RETRY_SCHEDULED
\* (next_attempt_at stays as it was).
Exhausted(w) ==
  /\ worker[w].step = "exhausted"
  /\ Cas(w, OwnsLease(w, "RETRY_SCHEDULED"),
         Released(rec, "RETRY_SCHEDULED"), "hold")
  /\ UNCHANGED <<reads, sends, posts, gets>>

Hold(w) ==
  /\ worker[w].step = "hold"
  /\ Cas(w, Owns(w, "OPERATOR_HOLD"), [rec EXCEPT !.state = "OPERATOR_HOLD"], "idle")
  /\ UNCHANGED <<reads, sends, posts, gets>>

Reject(w) ==
  /\ worker[w].step = "reject"
  /\ Cas(w, OwnsLease(w, "PERMANENT_REJECTED"),
         Released(rec, "PERMANENT_REJECTED"), "idle")
  /\ UNCHANGED <<reads, sends, posts, gets>>

\* Mutated form of Ambiguous: a timeout is taken for a transient failure.
TimeoutRetries(w) ==
  /\ worker[w].step = "ambiguous"
  /\ Cas(w, OwnsLease(w, "RETRY_SCHEDULED"),
         [Released(rec, "RETRY_SCHEDULED") EXCEPT !.next = "later"], "idle")
  /\ UNCHANGED <<reads, sends, posts, gets>>

Ambiguous(w) ==
  /\ worker[w].step = "ambiguous"
  /\ Cas(w, OwnsLease(w, "AMBIGUOUS"),
         Released(rec, "AMBIGUOUS"), "idle")
  /\ UNCHANGED <<reads, sends, posts, gets>>

-----------------------------------------------------------------------------
(* A manager's scan. *)

\* reconcile_once: the row is read in the scan's batch and dealt with later, by
\* the state it had then.
Scan(w) ==
  /\ worker[w].step = "idle" /\ w \in Managers
  /\ \/ rec.state = "PENDING_RESULT" /\ Holding(w, rec, "recoverPending")
     \/ rec.state = "READY_TO_DELIVER" /\ Holding(w, rec, "claim")
     \/ rec.state = "RETRY_SCHEDULED" /\ rec.next = "past" /\ Holding(w, rec, "claim")
     \/ rec.state = "DELIVERING" /\ rec.started = "stale" /\ Holding(w, rec, "recoverStale")
     \/ rec.state = "AMBIGUOUS" /\ rec.mid = 0 /\ Holding(w, rec, "holdAmbiguous")
     \/ rec.state = "AMBIGUOUS" /\ rec.mid # 0 /\ Holding(w, rec, "claimRead")
  /\ UNCHANGED <<rec, reads, sends, posts, gets, faults>>

RecoverPending(w) ==
  /\ worker[w].step = "recoverPending"
  /\ Cas(w, Owns(w, "READY_TO_DELIVER"), [rec EXCEPT !.state = "READY_TO_DELIVER"], "idle")
  /\ UNCHANGED <<reads, sends, posts, gets>>

\* Mutated form of RecoverStale: a stale claim is taken for a send that never was.
RecoverStaleResends(w) ==
  /\ worker[w].step = "recoverStale"
  /\ Cas(w, OwnsLease(w, "RETRY_SCHEDULED"),
         [Released(rec, "RETRY_SCHEDULED") EXCEPT !.next = "later"], "idle")
  /\ UNCHANGED <<reads, sends, posts, gets>>

\* recover_stale_delivering
RecoverStale(w) ==
  /\ worker[w].step = "recoverStale"
  /\ Cas(w, OwnsLease(w, "AMBIGUOUS"),
         [Released(rec, "AMBIGUOUS") EXCEPT !.next = "none"], "idle")
  /\ UNCHANGED <<reads, sends, posts, gets>>

\* Mutated form of MayRead: the budget is exceeded by one.
MayReadOneMore(w) == /\ rec.state = "AMBIGUOUS" /\ rec.rev = worker[w].snap.rev
                     /\ reads <= MaxReads

MayRead(w) == /\ rec.state = "AMBIGUOUS" /\ rec.rev = worker[w].snap.rev
              /\ reads < MaxReads

\* claim_ambiguous_reconciliation_read: a read is recorded before it is made.
ClaimRead(w) ==
  /\ worker[w].step = "claimRead"
  /\ \/ /\ MayRead(w)
        /\ reads' = reads + 1
        /\ Go(w, worker[w], "read")
        /\ UNCHANGED faults
     \/ /\ ~MayRead(w)
        /\ Go(w, worker[w], "ifExhausted")
        /\ UNCHANGED <<reads, faults>>
     \/ Fault /\ Finish(w) /\ UNCHANGED reads
  /\ UNCHANGED <<rec, sends, posts, gets>>

\* get_message: found as sent; absent or unreadable for now; forbidden or another
\* message.
Read(w) ==
  /\ worker[w].step = "read"
  /\ gets' = gets + 1
  /\ \/ worker[w].snap.mid <= posts /\ Go(w, worker[w], "verified")
     \/ Go(w, worker[w], "ifExhausted")
     \/ Go(w, worker[w], "holdAmbiguous")
  /\ UNCHANGED <<rec, reads, sends, posts, faults>>

Verified(w) ==
  /\ worker[w].step = "verified"
  /\ Cas(w, Owns(w, "DELIVERED"), [rec EXCEPT !.state = "DELIVERED"], "idle")
  /\ UNCHANGED <<reads, sends, posts, gets>>

\* Mutated form of ReadsAreSpent: off by one.
ReadsAreOverspent == reads > MaxReads

ReadsAreSpent == reads >= MaxReads

\* hold_if_reconciliation_exhausted; its two reads of the repository are taken
\* together, since the hold that may follow fails if the row has changed.
IfExhausted(w) ==
  /\ worker[w].step = "ifExhausted"
  /\ \/ /\ rec.state = "AMBIGUOUS" /\ ReadsAreSpent
        /\ Holding(w, rec, "holdAmbiguous")
        /\ UNCHANGED faults
     \/ /\ ~(rec.state = "AMBIGUOUS" /\ ReadsAreSpent)
        /\ Finish(w) /\ UNCHANGED faults
     \/ Fault /\ Finish(w)
  /\ UNCHANGED <<rec, reads, sends, posts, gets>>

\* hold_ambiguous
HoldAmbiguous(w) ==
  /\ worker[w].step = "holdAmbiguous"
  /\ Cas(w, Owns(w, "OPERATOR_HOLD"), [rec EXCEPT !.state = "OPERATOR_HOLD"], "idle")
  /\ UNCHANGED <<reads, sends, posts, gets>>

-----------------------------------------------------------------------------
\* A retry falls due, or a claim grows older than STALE_DELIVERING_AFTER_SECS,
\* whether its worker is gone or only slow.
TimePasses ==
  /\ \/ rec.next = "later" /\ rec' = [rec EXCEPT !.next = "past"]
     \/ /\ rec.state = "DELIVERING" /\ rec.started = "fresh"
        /\ rec' = [rec EXCEPT !.started = "stale"]
  /\ UNCHANGED <<reads, worker, sends, posts, gets, faults>>

\* w's process stops, or the task is dropped: what it held is lost.
Crash(w) ==
  /\ worker[w].step # "idle"
  /\ Fault /\ Finish(w)
  /\ UNCHANGED <<rec, reads, sends, posts, gets>>

DeliverReady(w) == \/ Claim(w) \/ Reread(w) \/ Recheck(w) \/ Send(w)
                   \/ Evidence(w) \/ Deliver(w) \/ Retry(w) \/ Exhausted(w)
                   \/ Hold(w) \/ Reject(w) \/ Ambiguous(w)

Reconcile(w) == \/ Scan(w) \/ RecoverPending(w) \/ RecoverStale(w)
                \/ ClaimRead(w) \/ Read(w) \/ Verified(w)
                \/ IfExhausted(w) \/ HoldAmbiguous(w)

Next == \/ TimePasses
        \/ \E w \in Workers : \/ Capture(w) \/ Materialize(w) \/ DeliverReady(w)
                             \/ Reconcile(w) \/ Crash(w)

Spec == Init /\ [][Next]_vars

\* Each manager's loop goes on (spawn ticks every 45 s, and every call it awaits
\* returns), and clocks advance.  A live turn may hang for ever.
FairSpec == /\ Spec
            /\ WF_vars(TimePasses)
            /\ \A m \in Managers : WF_vars(DeliverReady(m) \/ Reconcile(m))

-----------------------------------------------------------------------------
\* The types, and the shape of a row: a lease is held exactly while DELIVERING.
TypeOK == /\ rec \in Records
          /\ worker \in [Workers -> [step : Steps, snap : Records, tries : Nat, mid : Nat]]
          /\ {reads, sends, posts, gets, faults} \subseteq Nat
          /\ rec.lease # 0 <=> rec.state = "DELIVERING"

\* Whatever crashes, times out or races, and however many instances reconcile,
\* the user is not answered twice.
AtMostOnePost == posts <= 1

\* A row that is still to be sent, or that is settled as rejected, stands for an
\* answer nobody has seen: deliver_ready sends again only what was never posted,
\* and PERMANENT_REJECTED is never said of a message that is there.
UnsentIsUnposted ==
  rec.state \in {"PENDING_RESULT", "READY_TO_DELIVER", "RETRY_SCHEDULED", "PERMANENT_REJECTED"}
    => posts = 0

\* DELIVERED is only said with evidence: the row holds the id of a message that
\* Discord posted, by the sender or by the reconciling reader.
DeliveredHasEvidence == rec.state = "DELIVERED" => rec.mid \in 1 .. posts

\* attempt_count is claimed before a send, so that no crash leaves a send which
\* the durable budget does not know of.
SendsAreCounted == sends <= rec.attempts

\* Concurrent managers together make no more than MAX_AMBIGUOUS_RECONCILIATION_-
\* ATTEMPTS exact-message reads, each recorded before it is made.
ReadsAreBounded == gets <= reads /\ reads <= MaxReads

\* A row that was captured is in the end delivered, rejected or handed to an
\* operator, though the turn that captured it may crash or hang at any point.
Settles == rec.state # "NONE" ~> rec.state \in Final \cup {"OPERATOR_HOLD"}

-----------------------------------------------------------------------------
(* Said of the code, and not so. *)

\* What the test definite_transient_exhaustion_holds_after_five_sends says: the
\* last permitted attempt is the last one.
SendsWithinBudget == sends <= MaxAttempts
-----------------------------------------------------------------------------
Outcome == CASE rec.state = "DELIVERED"          -> "delivered"
             [] rec.state = "PERMANENT_REJECTED" -> "rejected"
             [] rec.state = "OPERATOR_HOLD"      -> "held"
             [] OTHER                            -> "open"

Promise == INSTANCE TerminalDeliveryPromise WITH outcome <- Outcome, posted <- posts

\* The outbox and its workers implement the promise.
KeepsPromise == Promise!Spec
=============================================================================
