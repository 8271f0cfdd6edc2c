----------------------- MODULE TerminalDeliveryPromise -----------------------
(***************************************************************************)
(* What the terminal-delivery outbox promises about one answer: it is      *)
(* posted at most once, and a verdict about it is true and final.          *)
(***************************************************************************)
EXTENDS Naturals

VARIABLES
  outcome,  \* open, or the verdict on record
  posted    \* how often the user sees the answer

vars == <<outcome, posted>>

Init == outcome = "open" /\ posted = 0

\* The answer appears.  An operator may be asked while a slow send is still under
\* way; a rejected or a delivered answer does not appear any more.
Post == /\ outcome \in {"open", "held"}
        /\ posted = 0
        /\ posted' = 1
        /\ UNCHANGED outcome

ConfirmDelivery == /\ outcome = "open" /\ posted = 1
                   /\ outcome' = "delivered"
                   /\ UNCHANGED posted

ConfirmRejection == /\ outcome = "open" /\ posted = 0
                    /\ outcome' = "rejected"
                    /\ UNCHANGED posted

AskOperator == /\ outcome = "open"
               /\ outcome' = "held"
               /\ UNCHANGED posted

Next == Post \/ ConfirmDelivery \/ ConfirmRejection \/ AskOperator

Spec == Init /\ [][Next]_vars
=============================================================================
