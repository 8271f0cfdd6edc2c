---------------------------- MODULE MCDispatcher ----------------------------
(***************************************************************************)
(* Model-checking instances of Dispatcher.                                 *)
(***************************************************************************)
EXTENDS Dispatcher, TLC

CONSTANTS thread, lane1, lane2, u1, u2, nw

\* Grouping by thread: two messages of users, which fit in one batch, and a
\* native one.
Three == {u1, u2, nw}
OfThread == [m \in Three |-> thread]
NativeOne == {nw}
Weights == [m \in Three |-> 1]

\* Grouping by lane: two senders.
Two == {u1, u2}
OfSender == [m \in Two |-> IF m = u1 THEN lane1 ELSE lane2]
Ones == [m \in Two |-> 1]
=============================================================================
