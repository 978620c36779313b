----------------------- MODULE MCDefinitionGovernance -----------------------
(* An instance of GovernedAnswers, and so of DefinitionGovernance, for TLC. *)
EXTENDS GovernedAnswers, TLC

CONSTANTS ann, ben, d1, d2, h1, h2, q1

(* One person edits and reviews: only the rules keep the two apart.        *)
Grants == ann :> {"REVIEW", "PUBLISH", "REVOKE"} @@ ben :> {"EDIT", "REVIEW"}

MCSymmetry == Permutations({d1, d2}) \cup Permutations({h1, h2})
=============================================================================
