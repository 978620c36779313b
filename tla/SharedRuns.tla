----------------------------- MODULE SharedRuns -----------------------------
(***************************************************************************)
(* The shared internal profile: the PostgreSQL run journal                 *)
(* (services/postgres_runs.py), its queue admission and its independent    *)
(* workers (services/distributed_runs.py, internal/worker.py).             *)
(*                                                                         *)
(* An API process admits runs; workers claim them, renew a lease while the *)
(* operation executes, and finish them.  A store method is one database    *)
(* transaction, hence one action.  A worker's coroutine is cut at every    *)
(* await: between two of its actions anything else may happen.             *)
(*                                                                         *)
(* Time is kept as what is left of it: lease[r] is lease_until minus the   *)
(* database clock, grant[r] is expires_at minus the clock, both stopping   *)
(* at 0, where the code's comparisons call them expired.  Tick is the      *)
(* database clock.  The worker's own clock is not assumed to agree.        *)
(***************************************************************************)
EXTENDS Integers, Sequences, FiniteSets

CONSTANTS
    Conversations, Requests, Workers, Bindings,
    NoWorker,                 \* a null fence
    ConvOf,                   \* [Requests -> Conversations]
    TenantOf,                 \* the tenant each conversation belongs to
    BindingOf,                \* the source binding each worker was built with
    BindingFor,               \* the source binding each request is admitted for
    LeaseTicks,               \* settings.lease_seconds
    GrantTicks,               \* longest remaining life of a signed token
    MaximumConversations,     \* settings.maximum_conversations
    MaximumPending,           \* settings.maximum_pending
    MaximumRunning,           \* settings.maximum_running
    MaximumRunningPerTenant,  \* settings.maximum_running_per_tenant
    MaximumActive,            \* the worker's own concurrency
    MaximumRuns,              \* 64 runs in a conversation
    EventBudget,              \* 60 events before a progress report is refused
    MaxStops                  \* bound on crashes and shutdowns of workers

ASSUME SharedAssumption ==
    /\ NoWorker \notin Workers
    /\ ConvOf \in [Requests -> Conversations]
    /\ BindingOf \in [Workers -> Bindings]
    /\ BindingFor \in [Requests -> Bindings]
    /\ LeaseTicks \in Nat \ {0} /\ GrantTicks \in Nat \ {0}
    /\ MaximumConversations \in Nat /\ MaximumPending \in Nat
    /\ MaximumRunning \in Nat /\ MaximumRunningPerTenant \in Nat
    /\ MaximumActive \in Nat /\ MaximumRuns \in Nat /\ MaxStops \in Nat
    /\ EventBudget \in Nat \ {0, 1}    \* admission and claim fit in it: it is 60

VARIABLES
    \* the database
    conv,        \* is the conversation row there: "unborn", "open", "deleted"
    revision,    \* the conversation's revision
    status,      \* the run's status, "ABSENT" when there is no row
    events,      \* the run's event rows, as the status in each
    answered,    \* the runs whose payload carries a result
    expected,    \* the revision the run's request was written against
    grant,       \* what is left of the run's authority
    fence,       \* the claim that owns the run
    lease,       \* what is left of that claim
    authority,   \* do the published grants still equal the conversation's scope
    \* the workers
    mode,        \* "polling", "stopping" (close) or "down"
    pc,          \* where the coroutine executing a claimed run is
    monitor,     \* where the task renewing its lease is
    pending,     \* the finish calls in flight, by the status they ask for
    dispatches,  \* how often the run's operation was started
    stops        \* crashes and shutdowns so far

database == <<conv, revision, status, events, answered, expected, grant,
              fence, lease>>
worker   == <<mode, pc, monitor, pending, dispatches, stops>>
vars     == <<database, authority, worker>>

Active    == {"QUEUED", "RUNNING", "CANCELLATION_REQUESTED"}
Executing == {"RUNNING", "CANCELLATION_REQUESTED"}
Terminal  == {"COMPLETED", "FAILED", "CANCELLED", "INTERRUPTED"}
Statuses  == Active \cup Terminal \cup {"ABSENT"}
Outcomes  == {"COMPLETED", "FAILED", "INTERRUPTED"}
Jobs      == Workers \X Requests
Stages    == {"none", "claimed", "authorized", "renewed", "operating",
              "returned", "finishing"}
Watches   == {"off", "sleeping", "checked"}

TypeOK ==
    /\ conv \in [Conversations -> {"unborn", "open", "deleted"}]
    /\ revision \in [Conversations -> Nat]
    /\ status \in [Requests -> Statuses]
    /\ events \in [Requests -> Seq(Statuses)]
    /\ answered \in SUBSET Requests
    /\ expected \in [Requests -> Nat]
    /\ grant \in [Requests -> 0..GrantTicks]
    /\ fence \in [Requests -> Workers \cup {NoWorker}]
    /\ lease \in [Requests -> 0..LeaseTicks]
    /\ authority \in [Conversations -> BOOLEAN]
    /\ mode \in [Workers -> {"polling", "stopping", "down"}]
    /\ pc \in [Jobs -> Stages]
    /\ monitor \in [Jobs -> Watches]
    /\ pending \in [Jobs -> SUBSET Outcomes]
    /\ dispatches \in [Requests -> Nat]
    /\ stops \in Nat

Init ==
    /\ conv = [c \in Conversations |-> "unborn"]
    /\ revision = [c \in Conversations |-> 0]
    /\ status = [r \in Requests |-> "ABSENT"]
    /\ events = [r \in Requests |-> << >>]
    /\ answered = {}
    /\ expected = [r \in Requests |-> 0]
    /\ grant = [r \in Requests |-> 0]
    /\ fence = [r \in Requests |-> NoWorker]
    /\ lease = [r \in Requests |-> 0]
    /\ authority = [c \in Conversations |-> TRUE]
    /\ mode = [w \in Workers |-> "polling"]
    /\ pc = [j \in Jobs |-> "none"]
    /\ monitor = [j \in Jobs |-> "off"]
    /\ pending = [j \in Jobs |-> {}]
    /\ dispatches = [r \in Requests |-> 0]
    /\ stops = 0

RunsOf(c)    == {r \in Requests : ConvOf[r] = c /\ status[r] # "ABSENT"}
ActiveIn(c)  == {r \in RunsOf(c) : status[r] \in Active}
Tenant(r)    == TenantOf[ConvOf[r]]
JobsOf(w)    == {r \in Requests : pc[<<w, r>>] # "none"}
OpenConvs    == {c \in Conversations : conv[c] = "open"}
Queued       == {r \in Requests : status[r] = "QUEUED"}
Running      == {r \in Requests : status[r] \in Executing}

(* _write: the row and the events of the touched runs, in one transaction. *)
Write(touched, new) ==
    /\ status' = new
    /\ events' = [r \in Requests |-> IF r \in touched THEN Append(events[r], new[r])
                                     ELSE events[r]]

WriteOne(r, s) == Write({r}, [status EXCEPT ![r] = s])
-----------------------------------------------------------------------------
(* The API                                                                 *)

CreateConversation(c) ==
    /\ conv[c] = "unborn"
    /\ Cardinality(OpenConvs) < MaximumConversations
    /\ conv' = [conv EXCEPT ![c] = "open"]
    /\ UNCHANGED <<revision, status, events, answered, expected, grant,
                   fence, lease, authority, worker>>

(* Mutant: a stale revision.                                               *)
AdmissibleAtAnyRevision(r, e) ==
    /\ ActiveIn(ConvOf[r]) = {}
    /\ Cardinality(RunsOf(ConvOf[r])) < MaximumRuns /\ Cardinality(Queued) < MaximumPending

(* What enqueue asks of a new request written against revision e.          *)
Admissible(r, e) ==
    LET c == ConvOf[r] IN
    /\ revision[c] = e
    /\ ActiveIn(c) = {}
    /\ Cardinality(RunsOf(c)) < MaximumRuns
    /\ Cardinality(Queued) < MaximumPending

(* enqueue, with a token that has g ticks left.  The signed identity was   *)
(* verified before this transaction began, so authority may have changed.  *)
Enqueue(r, e, g) ==
    LET c == ConvOf[r] IN
    /\ conv[c] = "open"
    /\ status[r] = "ABSENT"
    /\ g > 0
    /\ Admissible(r, e)
    /\ revision' = [revision EXCEPT ![c] = @ + 1]
    /\ expected' = [expected EXCEPT ![r] = e]
    /\ grant' = [grant EXCEPT ![r] = g]
    /\ WriteOne(r, "QUEUED")
    /\ UNCHANGED <<conv, answered, fence, lease, authority, worker>>

(* cancel: a queued run is settled at once, an executing one is marked.    *)
Cancel(r) ==
    /\ status[r] \in {"QUEUED", "RUNNING"}
    /\ WriteOne(r, IF status[r] = "QUEUED" THEN "CANCELLED" ELSE "CANCELLATION_REQUESTED")
    /\ UNCHANGED <<conv, revision, answered, expected, grant, fence, lease,
                   authority, worker>>

(* delete: the rows of the runs and of their events cascade.               *)
Delete(c) ==
    /\ conv[c] = "open"
    /\ ActiveIn(c) = {}
    /\ conv' = [conv EXCEPT ![c] = "deleted"]
    /\ status' = [r \in Requests |-> IF ConvOf[r] = c THEN "ABSENT" ELSE status[r]]
    /\ events' = [r \in Requests |-> IF ConvOf[r] = c THEN << >> ELSE events[r]]
    /\ answered' = {r \in answered : ConvOf[r] # c}
    /\ fence' = [r \in Requests |-> IF ConvOf[r] = c THEN NoWorker ELSE fence[r]]
    /\ UNCHANGED <<revision, expected, grant, lease, authority, worker>>

(* publish-grants, or a withdrawal of the pinned definition: what the      *)
(* worker's authorize callback compares.                                   *)
ChangeAuthority(c) ==
    /\ authority' = [authority EXCEPT ![c] = ~ @]
    /\ UNCHANGED <<database, worker>>

(* clock_timestamp() advances.                                             *)
Tick ==
    /\ \E r \in Requests : lease[r] > 0 \/ grant[r] > 0
    /\ lease' = [r \in Requests |-> IF lease[r] > 0 THEN lease[r] - 1 ELSE 0]
    /\ grant' = [r \in Requests |-> IF grant[r] > 0 THEN grant[r] - 1 ELSE 0]
    /\ UNCHANGED <<conv, revision, status, events, answered, expected,
                   fence, authority, worker>>
-----------------------------------------------------------------------------
(* Claiming                                                                *)

(* Mutant: only queued runs are swept.                                     *)
QueuedExpired == {r \in Requests : status[r] = "QUEUED" /\ grant[r] = 0}

Expired ==
    {r \in Requests : \/ status[r] \in Executing /\ lease[r] = 0
                      \/ status[r] = "QUEUED" /\ grant[r] = 0}

(* Mutant: a run whose lease ran out goes back to the queue.               *)
SweptToQueue == [r \in Requests |-> IF r \in Expired THEN "QUEUED" ELSE status[r]]

Swept == [r \in Requests |-> IF r \in Expired THEN "INTERRUPTED" ELSE status[r]]

(* The runs a worker may claim once the expired ones are interrupted.      *)
Claimable(w) ==
    LET running == Running \ Expired IN
    {r \in Queued \ Expired :
        /\ BindingFor[r] = BindingOf[w]
        /\ Cardinality(running) < MaximumRunning
        /\ Cardinality({s \in running : Tenant(s) = Tenant(r)}) < MaximumRunningPerTenant}

(* claim: interrupt what expired, then take one queued run.  SKIP LOCKED   *)
(* passes over rows a concurrent reader holds, so any claimable run may    *)
(* come first, and none may be free.  When the commit is acknowledged the  *)
(* tick starts a task; when the connection is lost there, the run stays    *)
(* claimed and no task knows of it.                                        *)
ClaimNothing(w) ==
    /\ Expired # {}
    /\ Write(Expired, Swept)
    /\ UNCHANGED <<fence, lease, pc>>

ClaimRun(w, r) ==
    /\ r \in Claimable(w)
    /\ Write(Expired \cup {r}, [Swept EXCEPT ![r] = "RUNNING"])
    /\ fence' = [fence EXCEPT ![r] = w]
    /\ lease' = [lease EXCEPT ![r] = LeaseTicks]
    /\ \/ pc' = [pc EXCEPT ![<<w, r>>] = "claimed"]
       \/ UNCHANGED pc

Claim(w) ==
    /\ mode[w] = "polling"
    /\ Cardinality(JobsOf(w)) < MaximumActive
    /\ ClaimNothing(w) \/ \E r \in Requests : ClaimRun(w, r)
    /\ UNCHANGED <<conv, revision, answered, expected, grant, authority,
                   mode, monitor, pending, dispatches, stops>>
-----------------------------------------------------------------------------
(* Executing a claimed run                                                 *)

(* Mutant: the lease is not compared with the clock.                       *)
OwnedByFence(w, r) == fence[r] = w /\ status[r] \in Executing

(* _owned: the fence, the lease and the status, read under the row lock.   *)
Owned(w, r) ==
    /\ fence[r] = w
    /\ lease[r] > 0
    /\ status[r] \in Executing

(* What the authorize callback accepts.  It may also fail for a reason the *)
(* database does not show: an unreachable store, the worker's own clock.   *)
Authorized(r) == authority[ConvOf[r]] /\ status[r] # "ABSENT"

(* The coroutine is about to finish the run with outcome o.                *)
Conclude(w, r, o) ==
    /\ pc' = [pc EXCEPT ![<<w, r>>] = "finishing"]
    /\ pending' = [pending EXCEPT ![<<w, r>>] = {o}]

At(w, r, stage) == mode[w] # "down" /\ pc[<<w, r>>] = stage

Authorize(w, r) ==
    /\ At(w, r, "claimed")
    /\ \/ /\ Authorized(r)
          /\ pc' = [pc EXCEPT ![<<w, r>>] = "authorized"]
          /\ UNCHANGED pending
       \/ Conclude(w, r, "FAILED")
    /\ UNCHANGED <<database, authority, mode, monitor, dispatches, stops>>

(* heartbeat: renew the lease unless the run is cancelled or its authority *)
(* has run out.                                                            *)
Renewable(w, r) == Owned(w, r) /\ status[r] = "RUNNING" /\ grant[r] > 0

(* Mutant: a renewal adds to the lease instead of restarting it.           *)
RenewOnTop(r) ==
    /\ lease' = [lease EXCEPT ![r] = @ + LeaseTicks]
    /\ UNCHANGED <<conv, revision, status, events, answered, expected, grant, fence>>

Renew(r) ==
    /\ lease' = [lease EXCEPT ![r] = LeaseTicks]
    /\ UNCHANGED <<conv, revision, status, events, answered, expected, grant, fence>>

HeartbeatBeforeDispatch(w, r) ==
    /\ At(w, r, "authorized")
    /\ \/ /\ Renewable(w, r)
          /\ Renew(r)
          /\ pc' = [pc EXCEPT ![<<w, r>>] = "renewed"]
          /\ UNCHANGED pending
       \/ Conclude(w, r, "FAILED") /\ UNCHANGED database
    /\ UNCHANGED <<authority, mode, monitor, dispatches, stops>>

Dispatch(w, r) ==
    /\ At(w, r, "renewed")
    /\ pc' = [pc EXCEPT ![<<w, r>>] = "operating"]
    /\ monitor' = [monitor EXCEPT ![<<w, r>>] = "sleeping"]
    /\ dispatches' = [dispatches EXCEPT ![r] = @ + 1]
    /\ UNCHANGED <<database, authority, mode, pending, stops>>

(* progress, called by the operation: a lost lease and a spent budget both *)
(* raise, which fails the operation.                                       *)
Progress(w, r) ==
    /\ At(w, r, "operating")
    /\ \/ /\ Owned(w, r)
          /\ status[r] = "RUNNING"
          /\ Len(events[r]) < EventBudget
          /\ WriteOne(r, "RUNNING")
          /\ UNCHANGED <<pc, pending>>
       \/ /\ ~ Owned(w, r) \/ (status[r] = "RUNNING" /\ Len(events[r]) >= EventBudget)
          /\ Conclude(w, r, "FAILED")
          /\ UNCHANGED <<status, events>>
    /\ UNCHANGED <<conv, revision, answered, expected, grant, fence, lease,
                   authority, mode, monitor, dispatches, stops>>

OperationReturns(w, r) ==
    /\ At(w, r, "operating")
    /\ \/ pc' = [pc EXCEPT ![<<w, r>>] = "returned"] /\ UNCHANGED pending
       \/ Conclude(w, r, "FAILED")
    /\ UNCHANGED <<database, authority, mode, monitor, dispatches, stops>>

(* The second authorize, before the answer is released.                    *)
AuthorizeRelease(w, r) ==
    /\ At(w, r, "returned")
    /\ \/ Authorized(r) /\ Conclude(w, r, "COMPLETED")
       \/ Conclude(w, r, "FAILED")
    /\ UNCHANGED <<database, authority, mode, monitor, dispatches, stops>>

(* Mutant: the monitor ends without cancelling the operation.              *)
StopWatching(w, r) ==
    /\ monitor' = [monitor EXCEPT ![<<w, r>>] = "off"]
    /\ UNCHANGED <<pc, pending>>

(* The monitor cancels the operation; one that already returned is left.   *)
StopOperation(w, r) ==
    /\ monitor' = [monitor EXCEPT ![<<w, r>>] = "off"]
    /\ IF pc[<<w, r>>] = "operating"
       THEN Conclude(w, r, "INTERRUPTED")
       ELSE UNCHANGED <<pc, pending>>

MonitorAuthorize(w, r) ==
    /\ mode[w] # "down" /\ monitor[<<w, r>>] = "sleeping"
    /\ \/ /\ Authorized(r)
          /\ monitor' = [monitor EXCEPT ![<<w, r>>] = "checked"]
          /\ UNCHANGED <<pc, pending>>
       \/ StopOperation(w, r)
    /\ UNCHANGED <<database, authority, mode, dispatches, stops>>

MonitorHeartbeat(w, r) ==
    /\ mode[w] # "down" /\ monitor[<<w, r>>] = "checked"
    /\ \/ /\ Renewable(w, r)
          /\ Renew(r)
          /\ monitor' = [monitor EXCEPT ![<<w, r>>] =
                            IF pc[<<w, r>>] = "operating" THEN "sleeping" ELSE "off"]
          /\ UNCHANGED <<pc, pending>>
       \/ StopOperation(w, r) /\ UNCHANGED database
    /\ UNCHANGED <<authority, mode, dispatches, stops>>
-----------------------------------------------------------------------------
(* Finishing                                                               *)

(* Mutant: the requested cancellation does not override the outcome.       *)
SettledAsAsked(r, s) == IF grant[r] = 0 THEN "INTERRUPTED" ELSE s

(* The status finish writes for a caller that asked for s.                 *)
Settled(r, s) ==
    CASE status[r] = "CANCELLATION_REQUESTED" -> "CANCELLED"
      [] status[r] # "CANCELLATION_REQUESTED" /\ grant[r] = 0 -> "INTERRUPTED"
      [] OTHER -> s

FinishWrite(w, r, s) ==
    /\ Owned(w, r)
    /\ WriteOne(r, Settled(r, s))
    /\ answered' = IF Settled(r, s) = "COMPLETED" THEN answered \cup {r} ELSE answered

(* The transaction was refused (LeaseLost) or rolled back (unavailable).   *)
FinishRefused == UNCHANGED <<status, events, answered>>

(* The finish calls of a job that remain after the call for s returned;    *)
(* with none left the task is done and its monitor cancelled.  A heartbeat *)
(* already in its thread goes on.                                          *)
Remaining(w, r, left) ==
    /\ pending' = [pending EXCEPT ![<<w, r>>] = left]
    /\ pc' = [pc EXCEPT ![<<w, r>>] = IF left = {} THEN "none" ELSE @]
    /\ monitor' = [monitor EXCEPT ![<<w, r>>] =
                      IF left = {} /\ @ = "sleeping" THEN "off" ELSE @]

(* A COMPLETED call that raises is followed by one for FAILED, unless the  *)
(* task was itself cancelled; the commit may have happened all the same.   *)
Finish(w, r) ==
    /\ At(w, r, "finishing")
    /\ \E s \in pending[<<w, r>>] :
        LET rest  == pending[<<w, r>>] \ {s}
            retry == IF s = "COMPLETED" /\ mode[w] = "polling"
                     THEN rest \cup {"FAILED"} ELSE rest
        IN \/ FinishWrite(w, r, s) /\ (Remaining(w, r, rest) \/ Remaining(w, r, retry))
           \/ FinishRefused /\ Remaining(w, r, retry)
    /\ UNCHANGED <<conv, revision, expected, grant, fence, lease, authority,
                   mode, dispatches, stops>>
-----------------------------------------------------------------------------
(* Stopping and losing a worker                                            *)

(* close: every task is cancelled.  One that was releasing its answer      *)
(* leaves that call running in its thread and asks for INTERRUPTED too.    *)
Close(w) ==
    /\ mode[w] = "polling" /\ stops < MaxStops
    /\ mode' = [mode EXCEPT ![w] = "stopping"]
    /\ pending' = [j \in Jobs |->
            IF j[1] = w /\ pc[j] # "none" /\ pending[j] \in {{}, {"COMPLETED"}}
            THEN pending[j] \cup {"INTERRUPTED"} ELSE pending[j]]
    /\ pc' = [j \in Jobs |-> IF j[1] = w /\ pc[j] # "none" THEN "finishing" ELSE pc[j]]
    /\ stops' = stops + 1
    /\ UNCHANGED <<database, authority, monitor, dispatches>>

Down(w) ==
    /\ mode' = [mode EXCEPT ![w] = "down"]
    /\ pc' = [j \in Jobs |-> IF j[1] = w THEN "none" ELSE pc[j]]
    /\ monitor' = [j \in Jobs |-> IF j[1] = w THEN "off" ELSE monitor[j]]
    /\ pending' = [j \in Jobs |-> IF j[1] = w THEN {} ELSE pending[j]]
    /\ UNCHANGED <<database, authority, dispatches>>

Closed(w) ==
    /\ mode[w] = "stopping"
    /\ JobsOf(w) = {}
    /\ Down(w)
    /\ UNCHANGED stops

Crash(w) ==
    /\ mode[w] # "down" /\ stops < MaxStops
    /\ Down(w)
    /\ stops' = stops + 1

Restart(w) ==
    /\ mode[w] = "down"
    /\ mode' = [mode EXCEPT ![w] = "polling"]
    /\ UNCHANGED <<database, authority, pc, monitor, pending, dispatches, stops>>
-----------------------------------------------------------------------------
Api ==
    \/ \E c \in Conversations : CreateConversation(c) \/ Delete(c)
    \/ \E r \in Requests : Cancel(r)
    \/ \E r \in Requests, e \in 0..MaximumRuns, g \in 0..GrantTicks : Enqueue(r, e, g)

Execution(w, r) ==
    \/ Authorize(w, r) \/ HeartbeatBeforeDispatch(w, r) \/ Dispatch(w, r)
    \/ AuthorizeRelease(w, r) \/ Finish(w, r)

Operation(w, r) == Progress(w, r) \/ OperationReturns(w, r)

Watch(w, r) == MonitorAuthorize(w, r) \/ MonitorHeartbeat(w, r)

Lifecycle(w) == Close(w) \/ Closed(w) \/ Crash(w) \/ Restart(w)

Next ==
    \/ Api
    \/ \E c \in Conversations : ChangeAuthority(c)
    \/ Tick
    \/ \E w \in Workers : Claim(w) \/ Lifecycle(w)
    \/ \E w \in Workers, r \in Requests :
          Execution(w, r) \/ Operation(w, r) \/ Watch(w, r)

Spec == Init /\ [][Next]_vars

(* The clock runs, poll loops and coroutines are scheduled, a supervisor   *)
(* restarts a worker.  Nothing makes users act or an operation return.     *)
Fairness ==
    /\ WF_vars(Tick)
    /\ \A w \in Workers :
        /\ WF_vars(Claim(w)) /\ WF_vars(Closed(w)) /\ WF_vars(Restart(w))
        /\ \A r \in Requests : WF_vars(Execution(w, r)) /\ WF_vars(Watch(w, r))

FairSpec == Spec /\ Fairness
-----------------------------------------------------------------------------
(* Properties                                                              *)

(* A conversation has at most one question in flight: enqueue counts the   *)
(* active runs under the row lock of the conversation.                     *)
OneActive ==
    \A r, s \in Requests :
        r # s /\ ConvOf[r] = ConvOf[s] =>
            ~ (status[r] \in Active /\ status[s] \in Active)

(* What operations/database.validate asks of a journal it restores: the    *)
(* revision counts the runs of a conversation, each revision was consumed  *)
(* by exactly one run, and the last event of a run carries its status.  A  *)
(* run writes at most two events once its progress budget is spent: the    *)
(* cancellation and the final status.                                      *)
JournalValid ==
    /\ \A c \in Conversations : conv[c] = "open" =>
          /\ revision[c] = Cardinality(RunsOf(c))
          /\ {expected[r] : r \in RunsOf(c)} = 0..(revision[c] - 1)
    /\ \A r \in Requests :
          IF status[r] = "ABSENT" THEN events[r] = << >>
          ELSE /\ Len(events[r]) \in 1..(EventBudget + 2)
               /\ events[r][Len(events[r])] = status[r]

(* An uncertain job is never redispatched: over its whole life, across     *)
(* crashes, lost claims and expired leases, the operation of a run is      *)
(* started at most once, and an answer belongs to a run that was started.  *)
NeverRedispatched ==
    \A r \in Requests :
        /\ dispatches[r] <= 1
        /\ \A v, w \in Workers :
              pc[<<v, r>>] # "none" /\ pc[<<w, r>>] # "none" => v = w
        /\ r \in answered => dispatches[r] = 1

(* Why a run is never redispatched: a run that was not claimed yet has no  *)
(* trace at any worker, a claimed one is in the hands of one worker, and   *)
(* its stage tells how often its operation started.  An answer is found    *)
(* only with a settled run, and a run that left the journal left nothing.  *)
Unclaimed(r) ==
    \/ status[r] = "QUEUED"
    \/ status[r] = "ABSENT" /\ conv[ConvOf[r]] # "deleted"

Fresh(r) == dispatches[r] = 0 /\ \A w \in Workers : pc[<<w, r>>] = "none"

DispatchInv ==
    /\ \A r \in Requests :
        /\ Unclaimed(r) => Fresh(r)
        /\ dispatches[r] \in {0, 1}
        /\ r \in answered => status[r] = "COMPLETED" /\ dispatches[r] = 1
        /\ status[r] = "ABSENT" => events[r] = << >>
        /\ \A v, w \in Workers :
              pc[<<v, r>>] # "none" /\ pc[<<w, r>>] # "none" => v = w
        /\ \A w \in Workers :
              /\ pc[<<w, r>>] \in {"claimed", "authorized", "renewed"} => dispatches[r] = 0
              /\ pc[<<w, r>>] \in {"operating", "returned"} => dispatches[r] = 1
              /\ "COMPLETED" \in pending[<<w, r>>] => dispatches[r] = 1

(* No late answer: a result enters the journal only while its authority    *)
(* and its worker's claim are live, and is written by the worker that owns *)
(* that claim after a release check of its own.                            *)
NoLateAnswer ==
    [][\A r \in answered' \ answered :
          /\ grant[r] > 0 /\ lease[r] > 0
          /\ \E w \in Workers : w = fence[r] /\ "COMPLETED" \in pending[<<w, r>>]]_vars

(* The journal readers see is the one DURABLE_CONVERSATIONS.md documents,  *)
(* plus the one-write cancellation of a queued run.                        *)
Journal == INSTANCE RunLifecycle WITH Undocumented <- {<<"QUEUED", "CANCELLED">>}
JournalSpec == Journal!Spec

(* Every admitted question is eventually settled, whichever workers crash, *)
(* lose their claims or hold operations that never return: leases and      *)
(* authorities run out and any polling worker sweeps the expired runs.     *)
EveryRunSettles ==
    \A r \in Requests : status[r] \in Active ~> status[r] \notin Active

(* Work on a run that was settled behind the worker's back is stopped: the *)
(* next heartbeat finds the claim gone and cancels the operation.          *)
OrphanWorkStops ==
    \A w \in Workers, r \in Requests :
        (pc[<<w, r>>] = "operating" /\ status[r] \notin Executing)
            ~> pc[<<w, r>>] # "operating"
=============================================================================
