---------------------------- MODULE MCCsvLookups ----------------------------
(* Instances of CsvLookups for TLC.                                        *)
EXTENDS CsvLookups, TLC

CONSTANTS t1, t2, w1, w2, i1, i2, i3, i4

MCSymmetry ==
    Permutations(Tokens) \cup Permutations(Threads) \cup Permutations(Items)
=============================================================================
