--------------------------- MODULE MCCsvWorkspace ---------------------------
(* Instances of CsvWorkspace for TLC.                                      *)
EXTENDS CsvWorkspace, TLC

CONSTANTS t1, t2

MCSymmetry == Permutations(Tokens)
=============================================================================
