------------------------ MODULE MCDelegationRouter ------------------------
(***************************************************************************)
(* Model-checking instances of DelegationRouter.                           *)
(***************************************************************************)
EXTENDS DelegationRouter, TLC

CONSTANTS p1, w1, v1, P, W, V, id1, id2

\* Three agents: two may ask the third, which may ask the first in its turn.
Three == {p1, w1, v1}
ThreeNames == {P, W, V}
NamesOfThree == p1 :> P @@ w1 :> W @@ v1 :> V
OneEach == p1 :> 1 @@ w1 :> 1 @@ v1 :> 1
Senders == ThreeNames
Pick == {{W}, {P}}

\* A primary and one worker.
Two == {p1, w1}
NamesOfTwo == p1 :> P @@ w1 :> W
OneOfTwo == p1 :> 0 @@ w1 :> 1
PickWorker == {{W}}

OneId == {id1}
TwoIds == {id1, id2}

Soon == {1}
SoonOrLater == {1, 2}

\* Ids are alike.
IdsAlike == Permutations(TwoIds)
=============================================================================
