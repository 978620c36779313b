----------------------------- MODULE LocalRuns ------------------------------
(***************************************************************************)
(* The one-worker profiles (CSV demo, internal reference): the SQLite run  *)
(* journal (services/run_store.py) and the coordinator that executes runs  *)
(* as tasks of the API's event loop (services/run_coordinator.py).         *)
(*                                                                         *)
(* Every store method is one transaction.  The coordinator runs between    *)
(* awaits without interruption by other coroutines, but the process may    *)
(* die between two transactions, so a handler that commits twice is two    *)
(* actions.  The exclusive lock file leaves one process: one mode.         *)
(***************************************************************************)
EXTENDS Integers, Sequences, FiniteSets

CONSTANTS
    Conversations, Requests,
    ConvOf,                \* [Requests -> Conversations]
    QueryEndpoint,         \* is POST /queries/{id}/cancel served (internal profile)
    MaximumConversations,  \* 512, or 16 of one owner
    MaximumActive,         \* the coordinator's tasks
    MaximumRuns,           \* 64 runs in a conversation
    EventBudget,           \* 60 events before a progress report is refused
    MaxStops,              \* bound on crashes and shutdowns
    MaxFaults              \* bound on transactions that SQLite fails

ASSUME LocalAssumption ==
    /\ ConvOf \in [Requests -> Conversations]
    /\ QueryEndpoint \in BOOLEAN
    /\ MaximumConversations \in Nat /\ MaximumActive \in Nat
    /\ MaximumRuns \in Nat /\ EventBudget \in Nat \ {0, 1}
    /\ MaxStops \in Nat /\ MaxFaults \in Nat

VARIABLES
    \* the database
    conv,        \* the conversation row: "unborn", "open", "deleted"
    revision, status, events, answered, expected,
    \* the process
    mode,        \* "recovering", "up", "closing" or "down"
    task,        \* where the task executing a run is
    cancelled,   \* the runs whose task was sent CancelledError
    confirming,  \* cancel handlers that found no task and finish the run
    stops, faults,
    stranded     \* history: the runs a failed transaction left with neither

database == <<conv, revision, status, events, answered, expected>>
process  == <<mode, task, cancelled, confirming>>
tally    == <<stops, faults, stranded>>
vars     == <<database, process, tally>>

Active   == {"QUEUED", "RUNNING", "CANCELLATION_REQUESTED"}
Terminal == {"COMPLETED", "FAILED", "CANCELLED", "INTERRUPTED"}
Statuses == Active \cup Terminal \cup {"ABSENT"}
Started  == {"authorizing", "operating", "releasing"}
Stages   == {"none", "created"} \cup Started

TypeOK ==
    /\ conv \in [Conversations -> {"unborn", "open", "deleted"}]
    /\ revision \in [Conversations -> Nat]
    /\ status \in [Requests -> Statuses]
    /\ events \in [Requests -> Seq(Statuses)]
    /\ answered \in SUBSET Requests
    /\ expected \in [Requests -> Nat]
    /\ mode \in {"recovering", "up", "closing", "down"}
    /\ task \in [Requests -> Stages]
    /\ cancelled \in SUBSET Requests
    /\ confirming \in SUBSET Requests
    /\ stops \in Nat /\ faults \in Nat
    /\ stranded \in SUBSET Requests

Init ==
    /\ conv = [c \in Conversations |-> "unborn"]
    /\ revision = [c \in Conversations |-> 0]
    /\ status = [r \in Requests |-> "ABSENT"]
    /\ events = [r \in Requests |-> << >>]
    /\ answered = {}
    /\ expected = [r \in Requests |-> 0]
    /\ mode = "up"
    /\ task = [r \in Requests |-> "none"]
    /\ cancelled = {} /\ confirming = {}
    /\ stops = 0 /\ faults = 0 /\ stranded = {}

RunsOf(c)   == {r \in Requests : ConvOf[r] = c /\ status[r] # "ABSENT"}
ActiveIn(c) == {r \in RunsOf(c) : status[r] \in Active}
Tasks       == {r \in Requests : task[r] # "none"}
OpenConvs   == {c \in Conversations : conv[c] = "open"}

(* _write: the row and one event, in the transaction of the caller.        *)
Write(r, s) ==
    /\ status' = [status EXCEPT ![r] = s]
    /\ events' = [events EXCEPT ![r] = Append(@, s)]

Keep == UNCHANGED <<status, events, answered>>

(* n transactions of this step fail; each is rolled back and raises.       *)
Failing(n) ==
    /\ faults + n <= MaxFaults
    /\ faults' = faults + n

Fault == Failing(1)

(* Mutant: a requested cancellation does not override the outcome.         *)
OutcomeAsAsked(r, s) == s

(* finish: a settled run keeps its outcome, and a requested cancellation   *)
(* overrides every outcome but an interruption.                            *)
Outcome(r, s) ==
    IF status[r] = "CANCELLATION_REQUESTED" /\ s # "INTERRUPTED" THEN "CANCELLED" ELSE s

Finish(r, s) ==
    IF status[r] \in Terminal THEN Keep
    ELSE /\ Write(r, Outcome(r, s))
         /\ answered' = IF Outcome(r, s) = "COMPLETED" THEN answered \cup {r} ELSE answered
-----------------------------------------------------------------------------
(* Conversations and admission                                             *)

CreateConversation(c) ==
    /\ mode = "up" /\ conv[c] = "unborn"
    /\ Cardinality(OpenConvs) < MaximumConversations
    /\ conv' = [conv EXCEPT ![c] = "open"]
    /\ UNCHANGED <<revision, status, events, answered, expected, process, tally>>

Delete(c) ==
    /\ mode = "up" /\ conv[c] = "open"
    /\ ActiveIn(c) = {}
    /\ conv' = [conv EXCEPT ![c] = "deleted"]
    /\ status' = [r \in Requests |-> IF ConvOf[r] = c THEN "ABSENT" ELSE status[r]]
    /\ events' = [r \in Requests |-> IF ConvOf[r] = c THEN << >> ELSE events[r]]
    /\ answered' = {r \in answered : ConvOf[r] # c}
    /\ UNCHANGED <<revision, expected, process, tally>>

(* Mutant: a stale revision.                                               *)
AdmissibleAtAnyRevision(r, e) ==
    /\ ActiveIn(ConvOf[r]) = {}
    /\ Cardinality(RunsOf(ConvOf[r])) < MaximumRuns /\ Cardinality(Tasks) < MaximumActive

(* What submit asks of a new request written against revision e.           *)
Admissible(r, e) ==
    LET c == ConvOf[r] IN
    /\ revision[c] = e
    /\ ActiveIn(c) = {}
    /\ Cardinality(RunsOf(c)) < MaximumRuns
    /\ Cardinality(Tasks) < MaximumActive

(* submit.  When accepted() raises (its checkpoint is a transaction of its *)
(* own) the run stays queued without a task.                               *)
Submit(r, e) ==
    LET c == ConvOf[r] IN
    /\ mode = "up"
    /\ conv[c] = "open" /\ status[r] = "ABSENT"
    /\ Admissible(r, e)
    /\ revision' = [revision EXCEPT ![c] = @ + 1]
    /\ expected' = [expected EXCEPT ![r] = e]
    /\ Write(r, "QUEUED")
    /\ \/ task' = [task EXCEPT ![r] = "created"] /\ UNCHANGED <<faults, stranded>>
       \/ Fault /\ stranded' = stranded \cup {r} /\ UNCHANGED task
    /\ UNCHANGED <<conv, answered, mode, cancelled, confirming, stops>>
-----------------------------------------------------------------------------
(* A run's task                                                            *)

At(r, stage) == mode \in {"up", "closing"} /\ task[r] = stage /\ r \notin cancelled

Goto(r, stage) == task' = [task EXCEPT ![r] = stage]

Gone(r) ==
    /\ Goto(r, "none")
    /\ cancelled' = cancelled \ {r}

(* The task ends.  After n failed transactions the store records outcome   *)
(* s, or it has nothing recorded and nobody is left to try again.          *)
Recorded(r, s, n) ==
    /\ Gone(r) /\ Failing(n) /\ Finish(r, s)
    /\ UNCHANGED <<conv, revision, expected, mode, confirming, stops, stranded>>

Lost(r, n) ==
    /\ Gone(r) /\ Failing(n)
    /\ stranded' = stranded \cup {r}
    /\ UNCHANGED <<database, mode, confirming, stops>>

(* An exception handler reports s; what it raises itself is not handled.   *)
Handle(r, s, n) == Recorded(r, s, n) \/ Lost(r, n + 1)

(* A report within the try block; when it fails the handler reports too.   *)
Report(r, s) == Recorded(r, s, 0) \/ Handle(r, "FAILED", 1)

Step(r, stage) ==
    /\ Goto(r, stage)
    /\ UNCHANGED <<database, mode, cancelled, confirming, tally>>

(* start is a transaction too: when it fails, the run is still queued, or  *)
(* its cancellation is already requested.                                  *)
Start(r) ==
    /\ At(r, "created")
    /\ \/ /\ status[r] = "QUEUED"
          /\ Write(r, "RUNNING") /\ UNCHANGED answered
          /\ Goto(r, "authorizing")
          /\ UNCHANGED <<conv, revision, expected, mode, cancelled, confirming, tally>>
       \/ status[r] # "QUEUED" /\ Report(r, "CANCELLED")
       \/ Handle(r, "FAILED", 1)

AuthorizeDispatch(r) ==
    /\ At(r, "authorizing")
    /\ Step(r, "operating") \/ Handle(r, "FAILED", 0)

(* progress: ignored once the run left RUNNING, refused past the budget.   *)
(* A cancelled operation still reports while it unwinds; when a report     *)
(* fails its error takes the place of the cancellation.                    *)
Progress(r) ==
    /\ mode \in {"up", "closing"} /\ task[r] = "operating"
    /\ \/ /\ status[r] = "RUNNING" /\ Len(events[r]) < EventBudget
          /\ Write(r, "RUNNING")
          /\ UNCHANGED <<conv, revision, answered, expected, process, tally>>
       \/ /\ status[r] = "RUNNING" /\ Len(events[r]) >= EventBudget
          /\ Handle(r, "FAILED", 0)
       \/ Handle(r, "FAILED", 1)

OperationReturns(r) ==
    /\ At(r, "operating")
    /\ Step(r, "releasing") \/ Handle(r, "FAILED", 0)

AuthorizeRelease(r) ==
    /\ At(r, "releasing")
    /\ Report(r, "COMPLETED") \/ Handle(r, "FAILED", 0)

(* The event loop delivers CancelledError.  A coroutine that never started *)
(* handles nothing: its run keeps its status.                              *)
Cancelled(r) ==
    /\ mode \in {"up", "closing"} /\ r \in cancelled
    /\ \/ /\ task[r] \in Started
          /\ Handle(r, IF mode = "closing" THEN "INTERRUPTED" ELSE "CANCELLED", 0)
       \/ /\ task[r] = "created"
          /\ Gone(r)
          /\ UNCHANGED <<database, mode, confirming, tally>>
-----------------------------------------------------------------------------
(* Cancelling a run                                                        *)

(* Mutant: a task that has not started yet is signalled too.               *)
SignalledEarly(r) == task[r] # "none"

Signalled(r) == task[r] # "none" /\ status[r] = "RUNNING"

(* cancel: the request is recorded first, then a running task is signalled *)
(* and a run without a task is finished at once.                           *)
Cancel(r) ==
    /\ mode = "up" /\ status[r] \in Active
    /\ IF status[r] = "CANCELLATION_REQUESTED" THEN Keep
       ELSE Write(r, "CANCELLATION_REQUESTED") /\ UNCHANGED answered
    /\ cancelled' = IF Signalled(r) THEN cancelled \cup {r} ELSE cancelled
    /\ confirming' = IF task[r] = "none" THEN confirming \cup {r} ELSE confirming
    /\ stranded' = stranded \ {r}
    /\ UNCHANGED <<conv, revision, expected, mode, task, stops, faults>>

(* The second transaction of cancel, which may fail like the first.        *)
ConfirmCancel(r) ==
    /\ mode \in {"up", "closing"} /\ r \in confirming
    /\ confirming' = confirming \ {r}
    /\ \/ Finish(r, "CANCELLED") /\ UNCHANGED <<faults, stranded>>
       \/ Fault /\ stranded' = stranded \cup {r} /\ Keep
    /\ UNCHANGED <<conv, revision, expected, mode, task, cancelled, stops>>

(* InternalQueryRuntime.cancel: the identifier of a run's query is derived *)
(* from its conversation and request, and nothing is written before the    *)
(* operation's task is cancelled.                                          *)
CancelQuery(r) ==
    /\ QueryEndpoint /\ mode = "up"
    /\ task[r] = "operating"
    /\ cancelled' = cancelled \cup {r}
    /\ UNCHANGED <<database, mode, task, confirming, tally>>
-----------------------------------------------------------------------------
(* Shutdown, crash and restart                                             *)

Close ==
    /\ mode = "up" /\ confirming = {} /\ stops < MaxStops
    /\ mode' = "closing"
    /\ cancelled' = Tasks
    /\ stops' = stops + 1
    /\ UNCHANGED <<database, task, confirming, faults, stranded>>

Crash ==
    /\ mode # "down" /\ stops < MaxStops
    /\ mode' = "down"
    /\ task' = [r \in Requests |-> "none"]
    /\ cancelled' = {} /\ confirming' = {} /\ stranded' = {}
    /\ stops' = stops + 1
    /\ UNCHANGED <<database, faults>>

(* Mutant: the journal is not recovered before requests are served.        *)
StartupServing ==
    /\ mode = "down"
    /\ mode' = "up"
    /\ UNCHANGED <<database, task, cancelled, confirming, tally>>

Startup ==
    /\ mode = "down"
    /\ mode' = "recovering"
    /\ UNCHANGED <<database, task, cancelled, confirming, tally>>

(* Mutant: a run waiting for its cancellation is not recovered.            *)
UnsettledButCancelled == {r \in Requests : status[r] \in {"QUEUED", "RUNNING"}}

(* recover settles one run in each transaction, when the journal is opened *)
(* and again when close has gathered the tasks.                            *)
Unsettled == {r \in Requests : status[r] \in Active}

Sweeping == mode = "recovering" \/ (mode = "closing" /\ Tasks = {})

Recover(r) ==
    /\ Sweeping /\ r \in Unsettled
    /\ Finish(r, "INTERRUPTED")
    /\ stranded' = stranded \ {r}
    /\ UNCHANGED <<conv, revision, expected, process, stops, faults>>

(* When it fails, the startup or the shutdown fails: the process ends.     *)
RecoverFails ==
    /\ Sweeping /\ Unsettled # {} /\ Fault
    /\ mode' = "down" /\ stranded' = {}
    /\ UNCHANGED <<database, task, cancelled, confirming, stops>>

Recovered ==
    /\ Sweeping /\ Unsettled = {}
    /\ mode' = IF mode = "recovering" THEN "up" ELSE "down"
    /\ UNCHANGED <<database, task, cancelled, confirming, tally>>
-----------------------------------------------------------------------------
User ==
    \/ \E c \in Conversations : CreateConversation(c) \/ Delete(c)
    \/ \E r \in Requests, e \in 0..MaximumRuns : Submit(r, e)
    \/ \E r \in Requests : Cancel(r) \/ CancelQuery(r)

Execute(r) ==
    \/ Start(r) \/ AuthorizeDispatch(r) \/ AuthorizeRelease(r)
    \/ Cancelled(r) \/ ConfirmCancel(r)

Operation(r) == Progress(r) \/ OperationReturns(r)

Restart == Startup \/ RecoverFails \/ Recovered \/ \E r \in Requests : Recover(r)

Next ==
    \/ User
    \/ \E r \in Requests : Execute(r) \/ Operation(r)
    \/ Close \/ Crash \/ Restart

Spec == Init /\ [][Next]_vars

(* The event loop is scheduled and a supervisor restarts the process.      *)
(* Nothing makes a user act or an operation return.                        *)
Fairness ==
    /\ \A r \in Requests : WF_vars(Execute(r))
    /\ WF_vars(Restart)

FairSpec == Spec /\ Fairness
-----------------------------------------------------------------------------
(* Properties                                                              *)

(* The journal operations/database.validate accepts: revisions and runs    *)
(* agree, and each log ends in its run's status within the event budget    *)
(* plus the cancellation and the final status.                             *)
JournalValid ==
    /\ \A c \in Conversations : conv[c] = "open" =>
          /\ revision[c] = Cardinality(RunsOf(c))
          /\ {expected[r] : r \in RunsOf(c)} = 0..(revision[c] - 1)
    /\ \A r \in Requests :
          IF status[r] = "ABSENT" THEN events[r] = << >>
          ELSE /\ Len(events[r]) \in 1..(EventBudget + 2)
               /\ events[r][Len(events[r])] = status[r]

(* While the process serves requests, an active run has exactly one of the *)
(* task that will settle it, a cancel handler that will, and a transaction *)
(* that failed for it and that nothing repeats; so a run nobody answers    *)
(* for is one that a failed transaction explains.  And a task never        *)
(* outlives an active run.                                                 *)
NoOrphan ==
    /\ mode = "up" =>
          \A r \in Requests : status[r] \in Active =>
              /\ task[r] = "none" <=> r \in confirming \cup stranded
              /\ r \notin confirming \cap stranded
    /\ \A r \in Tasks \cup confirming \cup stranded : status[r] \in Active

(* The journal readers see.  DURABLE_CONVERSATIONS.md: "Cancellation first *)
(* persists CANCELLATION_REQUESTED, then signals an active task."  That is *)
(* so where the query endpoint is not served; it cancels a running query   *)
(* in one write.  Nor does the documented machine let a queued run fail:   *)
(* only a step in which a transaction failed does that.                    *)
Journal == INSTANCE RunLifecycle WITH
    Undocumented <- (IF QueryEndpoint THEN {<<"RUNNING", "CANCELLED">>} ELSE {})
                    \cup (IF MaxFaults > 0 THEN {<<"QUEUED", "FAILED">>} ELSE {})

JournalSpec ==
    /\ Journal!Spec
    /\ [][\A r \in Requests :
             status[r] = "QUEUED" /\ status'[r] = "FAILED" => faults' > faults]_vars

(* A recorded cancellation is always settled, also by the restart of a     *)
(* process that died before it was delivered, unless the transaction that  *)
(* would have settled it failed.                                           *)
CancellationSettles ==
    \A r \in Requests :
        status[r] = "CANCELLATION_REQUESTED" ~> (status[r] \notin Active \/ r \in stranded)

(* Work interrupted by a crash or a shutdown is settled by the next start. *)
RestartSettles ==
    \A r \in Requests : (mode = "down" /\ status[r] \in Active) ~> status[r] \notin Active
=============================================================================
