---------------------------- MODULE RunLifecycle ----------------------------
(***************************************************************************)
(* What a run journal promises to its readers, whichever store keeps it.   *)
(*                                                                         *)
(* A question becomes a run.  A reader sees the run's status, whether its  *)
(* answer was released, and its replay log: one event per committed write, *)
(* each carrying the status it was committed with.  A write moves a status *)
(* along the documented machine (DURABLE_CONVERSATIONS.md, "State          *)
(* transitions and cancellation") or along an edge the store adds to it,   *)
(* appends exactly one event, and never rewrites a replayed one; a run     *)
(* leaves the journal only with its whole conversation.  LocalRuns         *)
(* (SQLite) and SharedRuns (PostgreSQL) implement this specification.      *)
(***************************************************************************)
EXTENDS Integers, Sequences, FiniteSets

CONSTANTS
    Requests,       \* client request identifiers, each admitted at most once
    ConvOf,         \* the conversation each request belongs to
    Undocumented    \* the edges a store takes and the documents do not have

VARIABLES
    status,         \* [Requests -> Statuses]
    events,         \* [Requests -> Seq(Statuses)], the status in each event
    answered        \* the requests whose journal row carries a result

vars == <<status, events, answered>>

Active    == {"QUEUED", "RUNNING", "CANCELLATION_REQUESTED"}
Terminal  == {"COMPLETED", "FAILED", "CANCELLED", "INTERRUPTED"}
Statuses  == Active \cup Terminal \cup {"ABSENT"}

(* The documented edges, and those of the store.                           *)
Edges ==
    {<<"ABSENT", "QUEUED">>, <<"QUEUED", "RUNNING">>,
     <<"QUEUED", "CANCELLATION_REQUESTED">>,
     <<"RUNNING", "CANCELLATION_REQUESTED">>,
     <<"CANCELLATION_REQUESTED", "CANCELLED">>,
     <<"RUNNING", "COMPLETED">>, <<"RUNNING", "FAILED">>}
    \cup {<<a, "INTERRUPTED">> : a \in Active}
    \cup Undocumented

OneActive ==
    \A r, s \in Requests :
        r # s /\ ConvOf[r] = ConvOf[s] =>
            ~ (status[r] \in Active /\ status[s] \in Active)

Init ==
    /\ status = [r \in Requests |-> "ABSENT"]
    /\ events = [r \in Requests |-> << >>]
    /\ answered = {}

Untouched(r) ==
    /\ status'[r] = status[r]
    /\ events'[r] = events[r]
    /\ r \in answered' <=> r \in answered

(* One committed write of a run: an edge or a progress report, one event,  *)
(* and a result only with the step that completes the run.                 *)
Written(r) ==
    /\ <<status[r], status'[r]>> \in Edges \cup {<<"RUNNING", "RUNNING">>}
    /\ events'[r] = Append(events[r], status'[r])
    /\ r \notin answered
    /\ r \in answered' <=> status'[r] = "COMPLETED"

(* The run's conversation was deleted; only settled runs disappear.        *)
Forgotten(r) ==
    /\ status[r] \in Terminal
    /\ status'[r] = "ABSENT"
    /\ events'[r] = << >>
    /\ r \notin answered'

Next ==
    /\ DOMAIN status' = Requests
    /\ DOMAIN events' = Requests
    /\ answered' \subseteq Requests
    /\ \A r \in Requests : Untouched(r) \/ Written(r) \/ Forgotten(r)
    /\ OneActive'

Spec == Init /\ [][Next]_vars
=============================================================================
