------------------------- MODULE SharedTransactions -------------------------
(***************************************************************************)
(* The PostgreSQL run store below the level of SharedRuns: a store method  *)
(* (services/postgres_runs.py) is here a session's transaction, statement  *)
(* by statement, under READ COMMITTED and the row locks of FOR UPDATE.     *)
(* What a transaction counted may have changed when it writes; what it     *)
(* wrote is seen by others only after its commit.  A session is a process: *)
(* it has one connection and runs one transaction at a time                *)
(* (services/postgres_database.py), and any transaction may end in a lock  *)
(* timeout, a statement timeout or a lost connection, which roll it back.  *)
(***************************************************************************)
EXTENDS Integers, Sequences, FiniteSets

CONSTANTS
    Sessions, Conversations, Requests,
    Nobody,                   \* holds a row that nobody locked
    ConvOf,                   \* [Requests -> Conversations]
    TenantOf,                 \* the tenant of each conversation
    MaximumConversations,     \* settings.maximum_conversations
    MaximumPending,           \* settings.maximum_pending
    MaximumRunning,           \* settings.maximum_running
    MaximumRunningPerTenant,  \* settings.maximum_running_per_tenant
    Outcomes,                 \* what workers ask finish for
    MaximumRuns,              \* 64 runs in a conversation
    EventBudget               \* 60 events before a progress report is refused

ASSUME TransactionsAssumption ==
    /\ Nobody \notin Sessions
    /\ ConvOf \in [Requests -> Conversations]
    /\ IsFiniteSet(Conversations) /\ IsFiniteSet(Requests)
    /\ Conversations \cap Requests = {}
    /\ "admission" \notin Conversations \cup Requests
    /\ "grants" \notin Conversations \cup Requests
    /\ MaximumConversations \in Nat /\ MaximumPending \in Nat
    /\ MaximumRunning \in Nat /\ MaximumRunningPerTenant \in Nat
    /\ MaximumRuns \in Nat /\ EventBudget \in Nat
    /\ Outcomes \subseteq {"COMPLETED", "FAILED", "INTERRUPTED"}

VARIABLES
    \* the committed rows
    conv,      \* t2d_conversations: "unborn", "open", "deleted"
    status,    \* t2d_runs.status, "ABSENT" when there is no row
    events,    \* t2d_events, as the status in each
    answered,  \* the runs whose payload carries a result
    fence,     \* the session that claimed the run
    overdue,   \* the executing runs whose lease_until is past
    spent,     \* the active runs whose expires_at is past
    \* the sessions
    holder,    \* who holds a row locked
    tx         \* the transaction each session is in

rows == <<conv, status, events, answered, fence>>
vars == <<rows, overdue, spent, holder, tx>>

Active    == {"QUEUED", "RUNNING", "CANCELLATION_REQUESTED"}
Executing == {"RUNNING", "CANCELLATION_REQUESTED"}
Terminal  == {"COMPLETED", "FAILED", "CANCELLED", "INTERRUPTED"}
Statuses  == Active \cup Terminal \cup {"ABSENT"}
Rows      == {"admission", "grants"} \cup Conversations \cup Requests

OnConversation == {"create", "delete", "conversation"}
Fenced         == {"heartbeat", "progress", "finish"}
OnRun          == {"enqueue", "cancel", "read"} \cup Fenced
Methods        == OnConversation \cup OnRun \cup {"claim", "publish"}

(* A transaction: the method, what it is about, how many of the locks it   *)
(* begins with it has, the rows its current statement has yet to lock, the *)
(* expired runs it will interrupt, and which of its checks it passed.      *)
Stages == {"begun", "scanned", "counted", "owned", "passed", "late"}
Transactions ==
    [method : Methods \cup {"none"}, on : Conversations \cup Requests \cup {Nobody},
     locked : 0..2, left : SUBSET Requests, swept : SUBSET Requests, stage : Stages]

Begun(m, x) == [method |-> m, on |-> x, locked |-> 0, left |-> {}, swept |-> {},
                stage |-> "begun"]
Idle == Begun("none", Nobody)

TypeOK ==
    /\ conv \in [Conversations -> {"unborn", "open", "deleted"}]
    /\ status \in [Requests -> Statuses]
    /\ events \in [Requests -> Seq(Statuses)]
    /\ answered \in SUBSET Requests
    /\ fence \in [Requests -> Sessions \cup {Nobody}]
    /\ overdue \in SUBSET Requests /\ spent \in SUBSET Requests
    /\ holder \in [Rows -> Sessions \cup {Nobody}]
    /\ tx \in [Sessions -> Transactions]

Init ==
    /\ conv = [c \in Conversations |-> "unborn"]
    /\ status = [r \in Requests |-> "ABSENT"]
    /\ events = [r \in Requests |-> << >>]
    /\ answered = {}
    /\ fence = [r \in Requests |-> Nobody]
    /\ overdue = {} /\ spent = {}
    /\ holder = [x \in Rows |-> Nobody]
    /\ tx = [s \in Sessions |-> Idle]

OpenConvs   == {c \in Conversations : conv[c] = "open"}
RunsOf(c)   == {r \in Requests : ConvOf[r] = c /\ status[r] # "ABSENT"}
ActiveIn(c) == {r \in RunsOf(c) : status[r] \in Active}
Queued      == {r \in Requests : status[r] = "QUEUED"}
Running     == {r \in Requests : status[r] \in Executing}
Tenant(r)   == TenantOf[ConvOf[r]]
-----------------------------------------------------------------------------
(* Row locks                                                               *)

(* Mutant: a cancellation reads its conversation with FOR UPDATE as well.  *)
LocksWithConversation(m) ==
    CASE m \in {"create", "claim"}     -> <<"admission">>
      [] m \in {"enqueue", "delete"}   -> <<"admission", "conversation">>
      [] m = "publish"                 -> <<"admission", "grants">>
      [] m = "conversation"            -> <<"conversation">>
      [] m = "cancel"                  -> <<"run", "conversation">>
      [] OTHER                         -> <<"run">>

(* Mutant: enqueue counts the queue without the admission row.             *)
LocksWithoutAdmission(m) ==
    CASE m \in {"create", "claim"}     -> <<"admission">>
      [] m = "delete"                  -> <<"admission", "conversation">>
      [] m = "publish"                 -> <<"admission", "grants">>
      [] m \in {"enqueue", "conversation"} -> <<"conversation">>
      [] OTHER                         -> <<"run">>

(* The rows a method locks before it checks anything, in its order.        *)
Locks(m) ==
    CASE m \in {"create", "claim"}     -> <<"admission">>
      [] m \in {"enqueue", "delete"}   -> <<"admission", "conversation">>
      [] m = "publish"                 -> <<"admission", "grants">>
      [] m = "conversation"            -> <<"conversation">>
      [] OTHER                         -> <<"run">>

Row(t, kind) ==
    CASE kind \in {"admission", "grants"}                 -> kind
      [] kind = "conversation" /\ t.on \in Requests       -> ConvOf[t.on]
      [] OTHER                                            -> t.on

In(s, m)   == tx[s].method = m
Locking(s) == tx[s].method # "none" /\ tx[s].locked < Len(Locks(tx[s].method))
Ready(s)   == tx[s].method # "none" /\ tx[s].locked >= Len(Locks(tx[s].method))

(* The rows the statement a session is executing asks for.                 *)
Wanted(s) ==
    IF Locking(s) THEN {Row(tx[s], Locks(tx[s].method)[tx[s].locked + 1])}
    ELSE tx[s].left

Free(x, s) == holder[x] \in {Nobody, s}

Exists(x) ==
    /\ x \in Conversations => conv[x] = "open"
    /\ x \in Requests => status[x] # "ABSENT"

(* The end of a transaction, by commit or by rollback.                     *)
End(s) ==
    /\ tx' = [tx EXCEPT ![s] = Idle]
    /\ holder' = [x \in Rows |-> IF holder[x] = s THEN Nobody ELSE holder[x]]

Pass(s, stage) == tx' = [tx EXCEPT ![s].stage = stage]

(* A session calls a store method.  Only the session whose fence a run     *)
(* carries reports on it; for any other the row is not found.              *)
Begin(s, m, x) ==
    /\ In(s, "none")
    /\ CASE m \in OnConversation    -> x \in Conversations
         [] m \in Fenced            -> x \in Requests /\ fence[x] = s
         [] m \in {"claim", "publish"} -> x = Nobody
         [] OTHER                   -> x \in Requests
    /\ tx' = [tx EXCEPT ![s] = Begun(m, x)]
    /\ UNCHANGED <<rows, overdue, spent, holder>>

(* SELECT ... FOR UPDATE of one row.  A row that is gone once the lock is  *)
(* free is not found, which ends all methods but create.                   *)
Lock(s) ==
    /\ Locking(s)
    /\ \E x \in Wanted(s) :
          /\ Free(x, s)
          /\ IF Exists(x)
             THEN /\ holder' = [holder EXCEPT ![x] = s]
                  /\ tx' = [tx EXCEPT ![s].locked = @ + 1]
             ELSE End(s)
    /\ UNCHANGED <<rows, overdue, spent>>

(* A raised refusal, a timeout of the lock or the statement, a lost        *)
(* connection: the transaction is rolled back.                             *)
Rollback(s) ==
    /\ ~ In(s, "none")
    /\ End(s)
    /\ UNCHANGED <<rows, overdue, spent>>
-----------------------------------------------------------------------------
(* Writing                                                                 *)

(* _write: the row and one event of each touched run, seen at the commit.  *)
(* Nothing asks for the times of a settled run any more.                   *)
Write(touched, new) ==
    /\ status' = new
    /\ events' = [r \in Requests |-> IF r \in touched THEN Append(events[r], new[r])
                                     ELSE events[r]]
    /\ overdue' = {r \in overdue : new[r] \in Executing}
    /\ spent' = {r \in spent : new[r] \in Active}

WriteOne(r, new) == Write({r}, [status EXCEPT ![r] = new])

Keep == UNCHANGED <<status, events, answered, overdue, spent>>
-----------------------------------------------------------------------------
(* The API                                                                 *)

CreateConversation(s) ==
    /\ Ready(s) /\ In(s, "create")
    /\ \/ /\ tx[s].stage = "begun"
          /\ conv[tx[s].on] = "unborn" /\ Cardinality(OpenConvs) < MaximumConversations
          /\ Pass(s, "passed")
          /\ UNCHANGED <<conv, holder>>
       \/ /\ tx[s].stage = "passed"
          /\ conv' = [conv EXCEPT ![tx[s].on] = "open"]
          /\ End(s)
    /\ UNCHANGED <<status, events, answered, fence, overdue, spent>>

(* enqueue: the request again, the active runs and the total of the        *)
(* conversation, then the queue, each counted by a statement of its own.   *)
CountRuns(s) ==
    LET r == tx[s].on IN
    /\ Ready(s) /\ In(s, "enqueue") /\ tx[s].stage = "begun"
    /\ IF status[r] = "ABSENT" /\ ActiveIn(ConvOf[r]) = {}
          /\ Cardinality(RunsOf(ConvOf[r])) < MaximumRuns
       THEN Pass(s, "counted") /\ UNCHANGED holder
       ELSE End(s)
    /\ UNCHANGED <<rows, overdue, spent>>

CountPending(s) ==
    /\ Ready(s) /\ In(s, "enqueue") /\ tx[s].stage = "counted"
    /\ IF Cardinality(Queued) < MaximumPending
       THEN Pass(s, "passed") /\ UNCHANGED holder
       ELSE End(s)
    /\ UNCHANGED <<rows, overdue, spent>>

Enqueue(s) ==
    /\ Ready(s) /\ In(s, "enqueue") /\ tx[s].stage = "passed"
    /\ WriteOne(tx[s].on, "QUEUED")
    /\ End(s)
    /\ UNCHANGED <<conv, answered, fence>>

(* cancel: the run's row is locked, its conversation only read.            *)
Cancel(s) ==
    LET r == tx[s].on IN
    /\ Ready(s) /\ In(s, "cancel")
    /\ IF status[r] \in {"QUEUED", "RUNNING"}
       THEN /\ WriteOne(r, IF status[r] = "QUEUED" THEN "CANCELLED"
                           ELSE "CANCELLATION_REQUESTED")
            /\ UNCHANGED answered
       ELSE Keep
    /\ End(s)
    /\ UNCHANGED <<conv, fence>>

(* read, conversation, runs, existing, publish: nothing is written here.   *)
(* The grants that publish writes are compared by the worker (SharedRuns). *)
Observe(s) ==
    /\ Ready(s) /\ tx[s].method \in {"read", "conversation", "publish"}
    /\ End(s)
    /\ UNCHANGED <<rows, overdue, spent>>

(* delete: no run may be active; then the DELETE cascades to the rows of   *)
(* the runs, which it locks one after the other.                           *)
CheckDelete(s) ==
    LET c == tx[s].on IN
    /\ Ready(s) /\ In(s, "delete") /\ tx[s].stage = "begun"
    /\ IF ActiveIn(c) = {}
       THEN /\ tx' = [tx EXCEPT ![s].stage = "passed", ![s].left = RunsOf(c)]
            /\ UNCHANGED holder
       ELSE End(s)
    /\ UNCHANGED <<rows, overdue, spent>>

Cascade(s) ==
    /\ In(s, "delete")
    /\ \E r \in tx[s].left :
          /\ Free(r, s)
          /\ holder' = [holder EXCEPT ![r] = s]
          /\ tx' = [tx EXCEPT ![s].left = @ \ {r}]
    /\ UNCHANGED <<rows, overdue, spent>>

Delete(s) ==
    LET c == tx[s].on
        gone == {r \in Requests : ConvOf[r] = c}
    IN
    /\ In(s, "delete") /\ tx[s].stage = "passed" /\ tx[s].left = {}
    /\ conv' = [conv EXCEPT ![c] = "deleted"]
    /\ status' = [r \in Requests |-> IF r \in gone THEN "ABSENT" ELSE status[r]]
    /\ events' = [r \in Requests |-> IF r \in gone THEN << >> ELSE events[r]]
    /\ fence' = [r \in Requests |-> IF r \in gone THEN Nobody ELSE fence[r]]
    /\ answered' = answered \ gone
    /\ End(s)
    /\ UNCHANGED <<overdue, spent>>
-----------------------------------------------------------------------------
(* Claiming                                                                *)

Expired ==
    {r \in Requests : \/ status[r] \in Executing /\ r \in overdue
                      \/ status[r] = "QUEUED" /\ r \in spent}

(* The scan finds the expired rows of its moment; each is locked in turn   *)
(* and judged again as it is once its lock is free.                        *)
Scan(s) ==
    /\ Ready(s) /\ In(s, "claim") /\ tx[s].stage = "begun"
    /\ tx' = [tx EXCEPT ![s].stage = "scanned", ![s].left = Expired]
    /\ UNCHANGED <<rows, overdue, spent, holder>>

(* Mutant: a row the scan found is swept as it was found.                  *)
SweepAll(s) ==
    /\ In(s, "claim")
    /\ \E r \in tx[s].left :
          /\ Free(r, s)
          /\ holder' = [holder EXCEPT ![r] = s]
          /\ tx' = [tx EXCEPT ![s].left = @ \ {r}, ![s].swept = @ \cup {r}]
    /\ UNCHANGED <<rows, overdue, spent>>

Sweep(s) ==
    /\ In(s, "claim")
    /\ \E r \in tx[s].left :
          /\ Free(r, s)
          /\ IF r \in Expired
             THEN /\ holder' = [holder EXCEPT ![r] = s]
                  /\ tx' = [tx EXCEPT ![s].left = @ \ {r}, ![s].swept = @ \cup {r}]
             ELSE /\ tx' = [tx EXCEPT ![s].left = @ \ {r}]
                  /\ UNCHANGED holder
    /\ UNCHANGED <<rows, overdue, spent>>

(* What the transaction sees after its own sweep.                          *)
StillRunning(s) == Running \ tx[s].swept

Swept(s) == [r \in Requests |-> IF r \in tx[s].swept THEN "INTERRUPTED" ELSE status[r]]

(* claim returns without a run: the sweep is committed.                    *)
ClaimNothing(s) ==
    /\ Write(tx[s].swept, Swept(s))
    /\ End(s)
    /\ UNCHANGED <<conv, answered, fence>>

CountRunning(s) ==
    /\ In(s, "claim") /\ tx[s].stage = "scanned" /\ tx[s].left = {}
    /\ IF Cardinality(StillRunning(s)) < MaximumRunning
       THEN Pass(s, "counted") /\ UNCHANGED <<rows, overdue, spent, holder>>
       ELSE ClaimNothing(s)

(* FOR UPDATE SKIP LOCKED: a queued run of a tenant below its limit that   *)
(* no other session holds.                                                 *)
Claimable(s) ==
    {r \in Queued \ tx[s].swept :
        /\ holder[r] = Nobody
        /\ Cardinality({q \in StillRunning(s) : Tenant(q) = Tenant(r)})
              < MaximumRunningPerTenant}

Pick(s) ==
    /\ In(s, "claim") /\ tx[s].stage = "counted"
    /\ \/ /\ Claimable(s) = {}
          /\ ClaimNothing(s)
       \/ \E r \in Claimable(s) :
             /\ holder' = [holder EXCEPT ![r] = s]
             /\ tx' = [tx EXCEPT ![s].on = r, ![s].stage = "passed"]
             /\ UNCHANGED <<rows, overdue, spent>>

Claim(s) ==
    LET r == tx[s].on IN
    /\ In(s, "claim") /\ tx[s].stage = "passed"
    /\ Write(tx[s].swept \cup {r}, [Swept(s) EXCEPT ![r] = "RUNNING"])
    /\ fence' = [fence EXCEPT ![r] = s]
    /\ End(s)
    /\ UNCHANGED <<conv, answered>>
-----------------------------------------------------------------------------
(* Reporting on a claimed run                                              *)

(* _owned: whether the lease is live is asked after the lock was obtained. *)
CheckOwner(s) ==
    /\ Ready(s) /\ tx[s].method \in Fenced /\ tx[s].stage = "begun"
    /\ IF /\ fence[tx[s].on] = s /\ tx[s].on \notin overdue
          /\ status[tx[s].on] \in Executing
       THEN Pass(s, "owned") /\ UNCHANGED holder
       ELSE End(s)
    /\ UNCHANGED <<rows, overdue, spent>>

(* Heartbeat and finish ask whether the authority is live.                 *)
CheckAuthority(s) ==
    /\ tx[s].method \in {"heartbeat", "finish"} /\ tx[s].stage = "owned"
    /\ Pass(s, IF tx[s].on \in spent THEN "late" ELSE "passed")
    /\ UNCHANGED <<rows, overdue, spent, holder>>

Heartbeat(s) ==
    LET r == tx[s].on IN
    /\ In(s, "heartbeat") /\ tx[s].stage \in {"passed", "late"}
    /\ overdue' = IF tx[s].stage = "passed" /\ status[r] = "RUNNING"
                  THEN overdue \ {r} ELSE overdue
    /\ End(s)
    /\ UNCHANGED <<rows, spent>>

Progress(s) ==
    LET r == tx[s].on IN
    /\ In(s, "progress") /\ tx[s].stage = "owned"
    /\ IF status[r] = "RUNNING" /\ Len(events[r]) < EventBudget
       THEN WriteOne(r, "RUNNING") /\ UNCHANGED answered
       ELSE Keep
    /\ End(s)
    /\ UNCHANGED <<conv, fence>>

(* finish, for a caller that asks for outcome o.                           *)
Settled(s, o) ==
    CASE status[tx[s].on] = "CANCELLATION_REQUESTED" -> "CANCELLED"
      [] status[tx[s].on] = "RUNNING" /\ tx[s].stage = "late" -> "INTERRUPTED"
      [] OTHER -> o

Finish(s, o) ==
    LET r == tx[s].on IN
    /\ In(s, "finish") /\ tx[s].stage \in {"passed", "late"}
    /\ WriteOne(r, Settled(s, o))
    /\ answered' = IF Settled(s, o) = "COMPLETED" THEN answered \cup {r} ELSE answered
    /\ End(s)
    /\ UNCHANGED <<conv, fence>>

(* clock_timestamp() passes the lease, or the authority, of a run.         *)
Expire(r) ==
    /\ \/ /\ status[r] \in Executing /\ r \notin overdue
          /\ overdue' = overdue \cup {r} /\ UNCHANGED spent
       \/ /\ status[r] \in Active /\ r \notin spent
          /\ spent' = spent \cup {r} /\ UNCHANGED overdue
    /\ UNCHANGED <<rows, holder, tx>>
-----------------------------------------------------------------------------
Statement(s) ==
    \/ Lock(s) \/ Rollback(s)
    \/ CreateConversation(s) \/ Cancel(s) \/ Observe(s)
    \/ CountRuns(s) \/ CountPending(s) \/ Enqueue(s)
    \/ CheckDelete(s) \/ Cascade(s) \/ Delete(s)
    \/ Scan(s) \/ Sweep(s) \/ CountRunning(s) \/ Pick(s) \/ Claim(s)
    \/ CheckOwner(s) \/ CheckAuthority(s) \/ Heartbeat(s) \/ Progress(s)
    \/ \E o \in Outcomes : Finish(s, o)

Next ==
    \/ \E s \in Sessions, m \in Methods, x \in Conversations \cup Requests \cup {Nobody} :
          Begin(s, m, x)
    \/ \E s \in Sessions : Statement(s)
    \/ \E r \in Requests : Expire(r)

Spec == Init /\ [][Next]_vars
-----------------------------------------------------------------------------
(* Properties                                                              *)

(* No set of sessions waits for one another's rows, so that a method never *)
(* has to be ended by PostgreSQL's deadlock detection or by its own lock   *)
(* timeout: "Reads lock the run first; all methods which also modify runs  *)
(* use this order" (postgres_runs.read), admission before conversation     *)
(* before run, and several runs only under the admission row.              *)
WaitsFor(s, t) == \E x \in Wanted(s) : holder[x] = t

NoDeadlock ==
    ~ \E S \in (SUBSET Sessions) \ {{}} :
          \A s \in S : \E t \in S \ {s} : WaitsFor(s, t)

(* The admission limits hold at every commit although each is counted by   *)
(* an earlier statement, while cancellations, outcomes and expiry, which   *)
(* do not lock the admission row, change what was counted.                 *)
WithinLimits ==
    /\ Cardinality(OpenConvs) <= MaximumConversations
    /\ Cardinality(Queued) <= MaximumPending
    /\ Cardinality(Running) <= MaximumRunning
    /\ \A r \in Running :
          Cardinality({q \in Running : Tenant(q) = Tenant(r)}) <= MaximumRunningPerTenant
    /\ \A c \in Conversations : Cardinality(RunsOf(c)) <= MaximumRuns

(* Cut into statements, the store still writes the journal its readers are *)
(* promised: one question of a conversation in flight, no run admitted or  *)
(* claimed twice, none both swept and answered.                            *)
Journal == INSTANCE RunLifecycle WITH Undocumented <- {<<"QUEUED", "CANCELLED">>}
JournalSpec == Journal!Spec
=============================================================================
