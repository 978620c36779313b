---------------------------- MODULE RetainedRuns ----------------------------
(***************************************************************************)
(* LocalRuns with the retention command of its operator                    *)
(* (operations/retention.py).  A preview lists the conversations that were *)
(* last written before a cutoff; it is reviewed, possibly for days, while  *)
(* the application serves requests or crashes; then it is applied.  Both   *)
(* commands need the lock file of the worker, so the process is down.      *)
(* Times are abstracted: any set of conversations may lie before a cutoff, *)
(* but what is written later does not.                                     *)
(***************************************************************************)
EXTENDS LocalRuns

VARIABLE plan    \* the reviewed preview, or nothing

(* The plan hash covers the cutoff and every row.  The journal has it      *)
(* again only if the conversations it knew, which are listed in known, are *)
(* as they were and those created since are gone.                          *)
Plans == [known : SUBSET Conversations, listed : SUBSET Conversations,
          old : SUBSET Conversations, touched : SUBSET Conversations]

RetainedInit == Init /\ plan = {}

(* selection: all runs settled, and nothing written since the cutoff.      *)
Candidates(old) == {c \in old : ActiveIn(c) = {}}

Written(c) ==
    \/ conv'[c] # conv[c]
    \/ \E r \in Requests : ConvOf[r] = c /\ events'[r] # events[r]

(* A step of the application, as the plan hash sees it.                    *)
Application ==
    /\ Next
    /\ plan' = {[p EXCEPT !.touched = @ \cup {c \in p.known : Written(c)}] : p \in plan}

Preview(old) ==
    /\ mode = "down" /\ plan = {}
    /\ plan' = {[known |-> OpenConvs, old |-> old, listed |-> Candidates(old),
                 touched |-> {}]}
    /\ UNCHANGED vars

(* Mutant: the plan hash is not compared.                                  *)
MatchesAny(p) == TRUE

Matches(p) == OpenConvs = p.known /\ p.touched = {}

Remove(gone) ==
    LET runs == {r \in Requests : ConvOf[r] \in gone} IN
    /\ conv' = [c \in Conversations |-> IF c \in gone THEN "deleted" ELSE conv[c]]
    /\ status' = [r \in Requests |-> IF r \in runs THEN "ABSENT" ELSE status[r]]
    /\ events' = [r \in Requests |-> IF r \in runs THEN << >> ELSE events[r]]
    /\ answered' = answered \ runs
    /\ UNCHANGED <<revision, expected, process, tally>>

(* Applied in one transaction, or refused: then a new preview is due.  The *)
(* hash covers the definition streams too, so it may differ in any case.   *)
Apply ==
    /\ mode = "down"
    /\ \E p \in plan :
          \/ Matches(p) /\ Remove(Candidates(p.old \ p.touched))
          \/ UNCHANGED vars
    /\ plan' = {}

RetainedNext ==
    \/ Application
    \/ \E old \in SUBSET OpenConvs : Preview(old)
    \/ Apply

RetainedSpec == RetainedInit /\ [][RetainedNext]_<<vars, plan>>

FairRetainedSpec == RetainedSpec /\ Fairness
-----------------------------------------------------------------------------
(* Properties                                                              *)

(* While the process is down rows disappear only by a reviewed plan, and   *)
(* then all it listed and nothing else, each as it was when listed: no     *)
(* question that arrived, ran or was recovered after the review is lost.   *)
RetentionAsReviewed ==
    [][LET gone == {c \in Conversations : conv[c] = "open" /\ conv'[c] = "deleted"} IN
       mode = "down" /\ gone # {} =>
          \E p \in plan : gone = p.listed /\ p.touched = {}]_<<vars, plan>>
=============================================================================
