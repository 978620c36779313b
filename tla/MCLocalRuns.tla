---------------------------- MODULE MCLocalRuns -----------------------------
(* Instances of RetainedRuns, and so of LocalRuns, for TLC.                *)
EXTENDS RetainedRuns, TLC

CONSTANTS c1, c2, r1, r2

(* r1 and r2 compete for conversation c1; c2 is never asked anything.      *)
MCConvOf == [r \in Requests |-> c1]
=============================================================================
