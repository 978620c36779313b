---------------------------- MODULE Publications ----------------------------
(***************************************************************************)
(* What definition governance promises to everything that answers          *)
(* questions: an append-only log of publications with effective times that *)
(* never step back, withdrawals that are never undone, and a current       *)
(* publication that only moves forward.  No reader learns of drafts,       *)
(* revisions or competing writers.  DefinitionGovernance implements it.    *)
(***************************************************************************)
EXTENDS Integers, Sequences

CONSTANTS
    Ids,        \* names of publications
    Instants,   \* the times a publication can take effect
    Seed        \* the approved bootstrap publication

VARIABLES
    log,        \* Seq([id : Ids, effective : Instants])
    withdrawn,  \* the ids that were withdrawn
    now         \* the clock

vars == <<log, withdrawn, now>>

Known == {log[i].id : i \in DOMAIN log}

(* The publication questions are answered with: the last one in effect.    *)
Current ==
    CHOOSE i \in DOMAIN log :
        /\ log[i].effective <= now
        /\ \A j \in DOMAIN log : log[j].effective <= now => j <= i

Init ==
    /\ log = <<[id |-> Seed, effective |-> 0]>>
    /\ withdrawn = {}
    /\ now = 0

Publish(x, t) ==
    /\ x \notin Known
    /\ t >= log[Len(log)].effective
    /\ log' = Append(log, [id |-> x, effective |-> t])
    /\ UNCHANGED <<withdrawn, now>>

Withdraw(x) ==
    /\ x \in Known \ withdrawn
    /\ withdrawn' = withdrawn \cup {x}
    /\ UNCHANGED <<log, now>>

Tick ==
    /\ now' = now + 1
    /\ UNCHANGED <<log, withdrawn>>

Next ==
    \/ \E x \in Ids, t \in Instants : Publish(x, t)
    \/ \E x \in Ids : Withdraw(x)
    \/ Tick

Spec == Init /\ [][Next]_vars
=============================================================================
