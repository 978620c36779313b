---------------------------- MODULE MCCsvBrowser ----------------------------
(* Instances of CsvBrowser for TLC.                                        *)
EXTENDS CsvBrowser, TLC

CONSTANTS t1, t2

MCSymmetry == Permutations(Tokens)

(* Without a question, a crash and a failing transaction come together; a  *)
(* question comes alone, or, while no session changes, with either, and a  *)
(* second question at most with a crash.                                   *)
MCBounds ==
    \/ drawn = 0
    \/ drawn = 1 /\ crashes + faults = 0
    \/ /\ crashes + faults <= 1 /\ (drawn = 1 \/ faults = 0)
       /\ \A t \in Tokens : version[t] = 0
=============================================================================
