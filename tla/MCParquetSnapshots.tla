------------------------- MODULE MCParquetSnapshots -------------------------
(* Instances of ParquetSnapshots for TLC.                                  *)
EXTENDS ParquetSnapshots, TLC

CONSTANTS a1, a2, o1, o2

(* A refresh may change the number of rows or keep it.                     *)
Rows == <<1, 1, 2>>

MCSymmetry == Permutations(Servers)
=============================================================================
