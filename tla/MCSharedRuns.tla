---------------------------- MODULE MCSharedRuns ----------------------------
(* Instances of SharedRuns for TLC.                                        *)
EXTENDS SharedRuns, TLC

CONSTANTS c1, r1, r2, w1, w2, b1, t1

(* Every question in conversation c1.                                      *)
PairConvOf == [r \in Requests |-> c1]
OneTenant  == [c \in Conversations |-> t1]
SameBinding == [w \in Workers |-> b1]
RequestBinding == [r \in Requests |-> b1]

(* Nothing tells workers or competing requests apart but their names.      *)
PairSymmetry == Permutations({r1, r2}) \cup Permutations({w1, w2})
=============================================================================
