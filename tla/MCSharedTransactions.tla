------------------------ MODULE MCSharedTransactions ------------------------
(* Instances of SharedTransactions for TLC.                                *)
EXTENDS SharedTransactions, TLC

CONSTANTS c1, c2, c3, r1, r2, s1, s2, t1

(* One question in each of two conversations; c3 only takes up room.       *)
OneEach   == r1 :> c1 @@ r2 :> c2
OneTenant == [c \in Conversations |-> t1]

(* Nothing tells the sessions apart, nor one conversation with its         *)
(* question from the other with its own.                                   *)
Swap == c1 :> c2 @@ c2 :> c1 @@ r1 :> r2 @@ r2 :> r1
MCSymmetry == {p @@ q : p \in Permutations(Sessions), q \in {Swap, [x \in DOMAIN Swap |-> x]}}
=============================================================================
