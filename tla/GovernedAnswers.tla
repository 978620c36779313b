--------------------------- MODULE GovernedAnswers ---------------------------
(***************************************************************************)
(* The answers of the internal profile under the governance of their       *)
(* definitions.  A run is pinned to the publication that was current when  *)
(* it was asked; the publication is resolved again before the work, when   *)
(* the answer is composed, before it is released, and before each reader   *)
(* is given it (internal/runs.py, internal/worker.py, internal/runtime.py, *)
(* api/run_routes.py).  Governance has its own database: nothing makes a   *)
(* check and the write that follows it one step, so that a publication may *)
(* be withdrawn between the two.  A reader reads first and is checked      *)
(* then; who cancels is checked first and is given the run as it is then.  *)
(***************************************************************************)
EXTENDS DefinitionGovernance

VARIABLES
    answer,   \* how far each run is
    client,   \* a request for each run, made by whoever may see it
    late      \* history: released when their publication was withdrawn

answers == <<answer, client, late>>

Ahead == {"asked", "started", "composed", "cleared"}

(* One request about a run is followed, whichever it is.  It has read the  *)
(* run and has yet to be checked ("reading"), or it was checked and has    *)
(* yet to cancel the run ("checked", and "overtaken" once the publication  *)
(* is withdrawn under it).  In the end it is given the answer ("given", or *)
(* "exposed" if it was overtaken) or nothing.                              *)
Given == {"given", "exposed"}

AnswersTypeOK ==
    /\ answer \in [Runs -> Ahead \cup {"none", "released", "refused"}]
    /\ client \in [Runs -> {"none", "reading", "checked", "overtaken"} \cup Given]
    /\ late \in SUBSET Runs

AnswersInit ==
    /\ Init
    /\ answer = [r \in Runs |-> "none"]
    /\ client = [r \in Runs |-> "none"]
    /\ late = {}

(* resolve, of a pinned publication that need not be current any more.     *)
Available(x) ==
    /\ x \notin store.revoked
    /\ \E i \in DOMAIN store.snapshots :
          store.snapshots[i].id = x /\ store.snapshots[i].effective <= clock

(* submit: the current publication is the one the user saw, or the request *)
(* is turned away.  The run is enqueued with it.                           *)
Ask(r) ==
    /\ Admit(r)
    /\ answer' = [answer EXCEPT ![r] = "asked"]
    /\ UNCHANGED <<client, late>>

(* Of a run that was refused there is no answer to give: a request that is *)
(* still on its way will be given nothing.                                 *)
Become(r, state) ==
    /\ answer' = [answer EXCEPT ![r] = state]
    /\ client' = [client EXCEPT ![r] = IF state = "refused" THEN "none" ELSE @]

Advance(r, from, to) ==
    /\ answer[r] = from
    /\ Become(r, IF Available(pin[r]) THEN to ELSE "refused")
    /\ UNCHANGED <<vars, late>>

(* authorize before the work, and the first line of answer.                *)
Start(r) == Advance(r, "asked", "started")

(* answer, once the pipeline has returned.                                 *)
Compose(r) == Advance(r, "started", "composed")

(* authorize before the release.                                           *)
Clear(r) == Advance(r, "composed", "cleared")

(* finish, in the transaction of another database.                         *)
Release(r) ==
    /\ answer[r] = "cleared"
    /\ answer' = [answer EXCEPT ![r] = "released"]
    /\ late' = IF pin[r] \in store.revoked THEN late \cup {r} ELSE late
    /\ UNCHANGED <<vars, client>>

(* The run fails, is cancelled or interrupted.                             *)
Abandon(r) ==
    /\ answer[r] \in Ahead
    /\ Become(r, "refused")
    /\ UNCHANGED <<vars, late>>

Request(r, from, to) ==
    /\ client[r] \in from
    /\ client' = [client EXCEPT ![r] = to]

(* RunContext.read: the run is read and then the reader is authorised.     *)
Read(r) ==
    /\ answer[r] = "released"
    /\ Request(r, {"none"}, "reading")
    /\ UNCHANGED <<vars, answer, late>>

(* Mutant: an answer that was released is shown without another check.     *)
VisibleOnceReleased(r) == answer[r] = "released"

Visible(r) == Available(pin[r])

Show(r) ==
    /\ Request(r, {"reading"}, IF Visible(r) THEN "given" ELSE "none")
    /\ UNCHANGED <<vars, answer, late>>

(* The cancel endpoint: read, whose check must succeed ...                 *)
CheckCaller(r) ==
    /\ answer[r] \in Ahead \cup {"released"} /\ Available(pin[r])
    /\ Request(r, {"none"}, "checked")
    /\ UNCHANGED <<vars, answer, late>>

(* ... and then cancel, which returns a run that was released meanwhile as *)
(* it is stored, with its answer.                                          *)
Cancel(r) ==
    /\ \/ /\ answer[r] \in Ahead
          /\ client[r] \in {"checked", "overtaken"}
          /\ Become(r, "refused")
       \/ /\ answer[r] = "released"
          /\ \/ Request(r, {"checked"}, "given")
             \/ Request(r, {"overtaken"}, "exposed")
          /\ UNCHANGED answer
    /\ UNCHANGED <<vars, late>>

(* A step of governance, as the cancel handlers meet it.                   *)
Governance ==
    /\ Govern
    /\ client' = [r \in Runs |->
                     IF client[r] = "checked" /\ pin[r] \in store'.revoked
                     THEN "overtaken" ELSE client[r]]
    /\ UNCHANGED <<answer, late>>

AnswersNext ==
    \/ Governance
    \/ \E r \in Runs :
          \/ Ask(r) \/ Start(r) \/ Compose(r) \/ Clear(r) \/ Release(r)
          \/ Abandon(r) \/ Read(r) \/ Show(r) \/ CheckCaller(r) \/ Cancel(r)

AnswersSpec == AnswersInit /\ [][AnswersNext]_<<vars, answers>>
-----------------------------------------------------------------------------
(* Properties                                                              *)

(* "Withdrawal blocks release of an affected result": not quite, since it  *)
(* may fall between the last check and the release.  But whoever reads     *)
(* such an answer is checked after reading it, withdrawals are never       *)
(* undone, and so no reader is shown it.  Who cancels the run may be given *)
(* it, but only when the withdrawal came while the handler was between its *)
(* check and its cancellation.                                             *)
WithdrawnNeverShown ==
    \A r \in late : client[r] # "given"
=============================================================================
