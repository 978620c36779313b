-------------------------- MODULE SharedRunsProofs --------------------------
(* Theorems about SharedRuns, for every number of conversations, requests, *)
(* workers, ticks and limits.                                              *)
EXTENDS SharedRuns, FiniteSetTheorems, TLAPS

(* A transaction's writes keep the journal rows well typed.                *)
LEMMA WriteType ==
    ASSUME TypeOK, NEW touched, NEW new \in [Requests -> Statuses],
           Write(touched, new)
    PROVE  /\ status' \in [Requests -> Statuses]
           /\ events' \in [Requests -> Seq(Statuses)]
<1>1. \A r \in Requests : events[r] \in Seq(Statuses) /\ new[r] \in Statuses
  BY DEF TypeOK
<1>2. \A r \in Requests : Append(events[r], new[r]) \in Seq(Statuses)
  BY <1>1
<1> QED BY <1>1, <1>2 DEF Write

(* One row written: the same, and no other row changes.                    *)
LEMMA WriteOneType ==
    ASSUME TypeOK, NEW r \in Requests, NEW s \in Statuses, WriteOne(r, s)
    PROVE  /\ status' = [status EXCEPT ![r] = s]
           /\ status' \in [Requests -> Statuses]
           /\ events' \in [Requests -> Seq(Statuses)]
           /\ status'[r] = s
           /\ \A q \in Requests : q # r => status'[q] = status[q]
<1>1. status \in [Requests -> Statuses]
  BY DEF TypeOK
<1>2. [status EXCEPT ![r] = s] \in [Requests -> Statuses]
  BY <1>1
<1>3. status' = [status EXCEPT ![r] = s]
  BY DEF WriteOne, Write
<1>4. status'[r] = s /\ \A q \in Requests : q # r => status'[q] = status[q]
  BY <1>1, <1>3
<1> QED BY <1>2, <1>3, <1>4, WriteType DEF WriteOne, Write

(* Concluding a run moves only its own job.                                *)
LEMMA ConcludeType ==
    ASSUME TypeOK, NEW w \in Workers, NEW r \in Requests, NEW o \in Outcomes,
           Conclude(w, r, o)
    PROVE  /\ pc' \in [Jobs -> Stages]
           /\ pending' \in [Jobs -> SUBSET Outcomes]
BY DEF TypeOK, Conclude, Jobs, Stages

(* Renewing a claim never takes its lease beyond the configured length.    *)
LEMMA RenewType ==
    ASSUME TypeOK, NEW r \in Requests, Renew(r)
    PROVE  lease' \in [Requests -> 0..LeaseTicks]
BY SharedAssumption DEF TypeOK, Renew

(* An empty store, with every worker idle, is well typed.                  *)
LEMMA InitType == Init => TypeOK
BY SharedAssumption DEF Init, TypeOK, Statuses, Stages, Watches

(* Every step keeps the types: one case for each action.                   *)
LEMMA NextType ==
    ASSUME TypeOK, [Next]_vars
    PROVE  TypeOK'
<1> USE DEF Statuses, Active, Terminal, Outcomes, Stages, Watches, Jobs
<1>1. ASSUME NEW c \in Conversations, CreateConversation(c) PROVE TypeOK'
  BY <1>1 DEF CreateConversation, TypeOK, worker
<1>2. ASSUME NEW c \in Conversations, Delete(c) PROVE TypeOK'
  <2>1. /\ conv' \in [Conversations -> {"unborn", "open", "deleted"}]
        /\ status' \in [Requests -> Statuses]
        /\ answered' \in SUBSET Requests
        /\ fence' \in [Requests -> Workers \cup {NoWorker}]
    BY <1>2 DEF Delete, TypeOK
  <2>2. \A r \in Requests : events[r] \in Seq(Statuses) /\ << >> \in Seq(Statuses)
    BY DEF TypeOK
  <2>3. events' \in [Requests -> Seq(Statuses)]
    BY <1>2, <2>2 DEF Delete
  <2> QED BY <1>2, <2>1, <2>3 DEF Delete, TypeOK, worker
<1>3. ASSUME NEW r \in Requests, Cancel(r) PROVE TypeOK'
  <2>1. /\ status' \in [Requests -> Statuses]
        /\ events' \in [Requests -> Seq(Statuses)]
    BY <1>3, WriteOneType DEF Cancel
  <2> QED BY <1>3, <2>1 DEF Cancel, TypeOK, worker
<1>4. ASSUME NEW r \in Requests, NEW e \in 0..MaximumRuns, NEW g \in 0..GrantTicks,
             Enqueue(r, e, g)
      PROVE  TypeOK'
  <2>1. /\ status' \in [Requests -> Statuses]
        /\ events' \in [Requests -> Seq(Statuses)]
    BY <1>4, WriteOneType DEF Enqueue
  <2>2. ConvOf[r] \in Conversations /\ e \in Nat
    BY SharedAssumption
  <2>3. /\ revision' \in [Conversations -> Nat]
        /\ expected' \in [Requests -> Nat]
        /\ grant' \in [Requests -> 0..GrantTicks]
    BY <1>4, <2>2 DEF Enqueue, TypeOK
  <2> QED BY <1>4, <2>1, <2>3 DEF Enqueue, TypeOK, worker
<1>5. ASSUME NEW c \in Conversations, ChangeAuthority(c) PROVE TypeOK'
  BY <1>5 DEF ChangeAuthority, TypeOK, worker, database
<1>6. CASE Tick
  <2>1. \A r \in Requests : /\ lease[r] \in 0..LeaseTicks /\ grant[r] \in 0..GrantTicks
                            /\ 0 \in 0..LeaseTicks /\ 0 \in 0..GrantTicks
    BY SharedAssumption DEF TypeOK
  <2>2. \A r \in Requests :
           /\ (IF lease[r] > 0 THEN lease[r] - 1 ELSE 0) \in 0..LeaseTicks
           /\ (IF grant[r] > 0 THEN grant[r] - 1 ELSE 0) \in 0..GrantTicks
    BY <2>1, SharedAssumption
  <2>3. lease' \in [Requests -> 0..LeaseTicks] /\ grant' \in [Requests -> 0..GrantTicks]
    BY <1>6, <2>2 DEF Tick
  <2> QED BY <1>6, <2>3 DEF Tick, TypeOK, worker
<1>7. ASSUME NEW w \in Workers, Claim(w) PROVE TypeOK'
  <2>1. Swept \in [Requests -> Statuses]
    BY DEF Swept, TypeOK
  <2>2. CASE ClaimNothing(w)
    <3>1. status' \in [Requests -> Statuses] /\ events' \in [Requests -> Seq(Statuses)]
      BY <2>1, <2>2, WriteType DEF ClaimNothing
    <3> QED BY <1>7, <2>2, <3>1 DEF Claim, ClaimNothing, TypeOK
  <2>3. ASSUME NEW r \in Requests, ClaimRun(w, r) PROVE TypeOK'
    <3>1. [Swept EXCEPT ![r] = "RUNNING"] \in [Requests -> Statuses]
      BY <2>1
    <3>2. status' \in [Requests -> Statuses] /\ events' \in [Requests -> Seq(Statuses)]
      BY <2>3, <3>1, WriteType DEF ClaimRun
    <3>3. /\ fence' \in [Requests -> Workers \cup {NoWorker}]
          /\ lease' \in [Requests -> 0..LeaseTicks]
          /\ pc' \in [Jobs -> Stages]
      <4>1. LeaseTicks \in 0..LeaseTicks
        BY SharedAssumption
      <4>2. fence' = [fence EXCEPT ![r] = w] /\ lease' = [lease EXCEPT ![r] = LeaseTicks]
        BY <2>3 DEF ClaimRun
      <4>3. pc' = [pc EXCEPT ![<<w, r>>] = "claimed"] \/ pc' = pc
        BY <2>3 DEF ClaimRun
      <4> QED BY <4>1, <4>2, <4>3 DEF TypeOK
    <3>4. UNCHANGED <<conv, revision, answered, expected, grant, authority,
                      mode, monitor, pending, dispatches, stops>>
      BY <1>7 DEF Claim
    <3> QED BY <3>2, <3>3, <3>4 DEF TypeOK
  <2> QED BY <1>7, <2>2, <2>3 DEF Claim
<1>8. ASSUME NEW w \in Workers, NEW r \in Requests, Execution(w, r) PROVE TypeOK'
  <2>1. CASE Authorize(w, r)
    BY <2>1, ConcludeType DEF Authorize, TypeOK, database
  <2>2. CASE HeartbeatBeforeDispatch(w, r)
    <3>1. CASE Renew(r)
      <4>1. pc' \in [Jobs -> Stages] /\ pending' \in [Jobs -> SUBSET Outcomes]
        BY <2>2, ConcludeType DEF HeartbeatBeforeDispatch, TypeOK
      <4> QED BY <2>2, <3>1, <4>1, RenewType DEF HeartbeatBeforeDispatch, Renew, TypeOK
    <3>2. CASE UNCHANGED database
      <4>1. pc' \in [Jobs -> Stages] /\ pending' \in [Jobs -> SUBSET Outcomes]
        BY <2>2, ConcludeType DEF HeartbeatBeforeDispatch, TypeOK
      <4> QED BY <2>2, <3>2, <4>1 DEF HeartbeatBeforeDispatch, TypeOK, database
    <3> QED BY <2>2, <3>1, <3>2 DEF HeartbeatBeforeDispatch
  <2>3. CASE Dispatch(w, r)
    BY <2>3 DEF Dispatch, TypeOK, database
  <2>4. CASE AuthorizeRelease(w, r)
    BY <2>4, ConcludeType DEF AuthorizeRelease, TypeOK, database
  <2>5. CASE Finish(w, r)
    <3>1. PICK s \in pending[<<w, r>>], left \in SUBSET Outcomes :
             /\ FinishWrite(w, r, s) \/ FinishRefused
             /\ Remaining(w, r, left)
      BY <2>5 DEF Finish, TypeOK
    <3>2. s \in Outcomes
      BY <3>1 DEF TypeOK
    <3>3. /\ status' \in [Requests -> Statuses]
          /\ events' \in [Requests -> Seq(Statuses)]
          /\ answered' \in SUBSET Requests
      <4>1. CASE FinishWrite(w, r, s)
        <5>1. Settled(r, s) \in Statuses
          BY <3>2 DEF Settled
        <5>2. WriteOne(r, Settled(r, s)) /\ answered' \in SUBSET Requests
          BY <4>1 DEF FinishWrite, TypeOK
        <5> QED BY <5>1, <5>2, WriteOneType
      <4>2. CASE FinishRefused
        BY <4>2 DEF FinishRefused, TypeOK
      <4> QED BY <3>1, <4>1, <4>2
    <3>4. /\ pc' \in [Jobs -> Stages]
          /\ monitor' \in [Jobs -> Watches]
          /\ pending' \in [Jobs -> SUBSET Outcomes]
      BY <3>1 DEF Remaining, TypeOK
    <3> QED BY <2>5, <3>3, <3>4 DEF Finish, TypeOK
  <2> QED BY <1>8, <2>1, <2>2, <2>3, <2>4, <2>5 DEF Execution
<1>9. ASSUME NEW w \in Workers, NEW r \in Requests, Operation(w, r) PROVE TypeOK'
  <2>1. CASE Progress(w, r)
    <3>1. /\ status' \in [Requests -> Statuses]
          /\ events' \in [Requests -> Seq(Statuses)]
      BY <2>1, WriteOneType DEF Progress, TypeOK
    <3> QED BY <2>1, <3>1, ConcludeType DEF Progress, TypeOK
  <2>2. CASE OperationReturns(w, r)
    BY <2>2, ConcludeType DEF OperationReturns, TypeOK, database
  <2> QED BY <1>9, <2>1, <2>2 DEF Operation
<1>10. ASSUME NEW w \in Workers, NEW r \in Requests, Watch(w, r) PROVE TypeOK'
  <2>1. CASE MonitorAuthorize(w, r)
    BY <2>1, ConcludeType DEF MonitorAuthorize, StopOperation, TypeOK, database
  <2>2. CASE MonitorHeartbeat(w, r)
    <3>1. /\ pc' \in [Jobs -> Stages]
          /\ pending' \in [Jobs -> SUBSET Outcomes]
          /\ monitor' \in [Jobs -> Watches]
      BY <2>2, ConcludeType DEF MonitorHeartbeat, StopOperation, TypeOK
    <3>2. CASE Renew(r)
      BY <2>2, <3>1, <3>2, RenewType DEF MonitorHeartbeat, Renew, TypeOK
    <3>3. CASE UNCHANGED database
      BY <2>2, <3>1, <3>3 DEF MonitorHeartbeat, TypeOK, database
    <3> QED BY <2>2, <3>2, <3>3 DEF MonitorHeartbeat
  <2> QED BY <1>10, <2>1, <2>2 DEF Watch
<1>11. ASSUME NEW w \in Workers, Lifecycle(w) PROVE TypeOK'
  <2>1. CASE Close(w)
    <3>1. /\ mode' \in [Workers -> {"polling", "stopping", "down"}]
          /\ pc' \in [Jobs -> Stages]
          /\ pending' \in [Jobs -> SUBSET Outcomes]
          /\ stops' \in Nat
      BY <2>1 DEF Close, TypeOK
    <3> QED BY <2>1, <3>1 DEF Close, TypeOK, database
  <2>2. CASE Closed(w)
    BY <2>2 DEF Closed, Down, TypeOK, database
  <2>3. CASE Crash(w)
    BY <2>3 DEF Crash, Down, TypeOK, database
  <2>4. CASE Restart(w)
    BY <2>4 DEF Restart, TypeOK, database
  <2> QED BY <1>11, <2>1, <2>2, <2>3, <2>4 DEF Lifecycle
<1>12. CASE UNCHANGED vars
  BY <1>12 DEF vars, database, worker, TypeOK
<1> QED
  BY <1>1, <1>2, <1>3, <1>4, <1>5, <1>6, <1>7, <1>8, <1>9, <1>10, <1>11, <1>12
     DEF Next, Api

(* Every variable keeps its type in every behaviour of the specification.  *)
THEOREM TypeCorrect == Spec => []TypeOK
<1>1. TypeOK /\ [Next]_vars => TypeOK'
  BY NextType
<1> QED BY InitType, <1>1, PTL DEF Spec

-----------------------------------------------------------------------------
(* A finish call settles: its status is terminal whatever it was asked.    *)
LEMMA SettledIsTerminal ==
    ASSUME NEW r \in Requests, NEW s \in Outcomes
    PROVE  Settled(r, s) \in Terminal
BY DEF Settled, Outcomes, Terminal

(* The transactions that write runs: any other step keeps every row.       *)
LEMMA Writers ==
    ASSUME [Next]_vars
    PROVE  \/ UNCHANGED <<status, events, answered>>
           \/ \E c \in Conversations : Delete(c)
           \/ \E r \in Requests : Cancel(r)
           \/ \E r \in Requests, e \in 0..MaximumRuns, g \in 0..GrantTicks : Enqueue(r, e, g)
           \/ \E w \in Workers : Claim(w)
           \/ \E w \in Workers, r \in Requests : Finish(w, r) \/ Progress(w, r)
<1> DEFINE Quiet == UNCHANGED <<status, events, answered>>
<1>1. \A c \in Conversations : CreateConversation(c) \/ ChangeAuthority(c) => Quiet
  BY DEF CreateConversation, ChangeAuthority, database
<1>2. Tick => Quiet
  BY DEF Tick
<1>3. \A w \in Workers : Lifecycle(w) => Quiet
  BY DEF Lifecycle, Close, Closed, Crash, Down, Restart, database
<1>4. \A w \in Workers, r \in Requests : Execution(w, r) => Quiet \/ Finish(w, r)
  BY DEF Execution, Authorize, HeartbeatBeforeDispatch, Renew, Dispatch, AuthorizeRelease,
     database
<1>5. \A w \in Workers, r \in Requests : Operation(w, r) => Quiet \/ Progress(w, r)
  BY DEF Operation, OperationReturns, database
<1>6. \A w \in Workers, r \in Requests : Watch(w, r) => Quiet
  BY DEF Watch, MonitorAuthorize, MonitorHeartbeat, Renew, database
<1>7. UNCHANGED vars => Quiet
  BY DEF vars, database
<1>8. CASE Api
  BY <1>1, <1>8 DEF Api
<1>9. CASE \E w \in Workers, r \in Requests : Execution(w, r) \/ Operation(w, r) \/ Watch(w, r)
  BY <1>4, <1>5, <1>6, <1>9
<1>10. CASE \E w \in Workers : Claim(w) \/ Lifecycle(w)
  BY <1>3, <1>10
<1> QED BY <1>1, <1>2, <1>7, <1>8, <1>9, <1>10 DEF Next

(* Admission is the only step after which more runs are active.            *)
LEMMA OnlyEnqueueActivates ==
    ASSUME TypeOK, [Next]_vars,
           ~ \E r \in Requests, e \in 0..MaximumRuns, g \in 0..GrantTicks : Enqueue(r, e, g)
    PROVE  \A r \in Requests : status'[r] \in Active => status[r] \in Active
<1> DEFINE Kept == \A r \in Requests : status'[r] \in Active => status[r] \in Active
<1>1. CASE status' = status
  BY <1>1
<1>2. ASSUME NEW c \in Conversations, Delete(c) PROVE Kept
  BY <1>2 DEF Delete, Active
<1>3. ASSUME NEW r \in Requests, Cancel(r) PROVE Kept
  <2>1. PICK s \in Statuses : status[r] \in Active /\ WriteOne(r, s)
    BY <1>3 DEF Cancel, Active, Statuses, Terminal
  <2> QED BY <2>1, WriteOneType
<1>4. ASSUME NEW w \in Workers, Claim(w) PROVE Kept
  <2>1. \A r \in Requests : Swept[r] \in Active => status[r] \in Active
    BY DEF Swept, Active
  <2>2. CASE ClaimNothing(w)
    BY <2>1, <2>2 DEF ClaimNothing, Write
  <2>3. ASSUME NEW r \in Requests, ClaimRun(w, r) PROVE Kept
    <3>1. status' = [Swept EXCEPT ![r] = "RUNNING"] /\ status[r] = "QUEUED"
      BY <2>3 DEF ClaimRun, Write, Claimable, Queued
    <3> QED BY <2>1, <3>1 DEF Active, Swept
  <2> QED BY <1>4, <2>2, <2>3 DEF Claim
<1>5. ASSUME NEW w \in Workers, NEW r \in Requests, Finish(w, r) PROVE Kept
  <2>1. PICK s \in pending[<<w, r>>] : FinishWrite(w, r, s) \/ FinishRefused
    BY <1>5 DEF Finish
  <2>2. Settled(r, s) \in Terminal
    BY <2>1, SettledIsTerminal DEF TypeOK, Jobs
  <2>3. CASE FinishWrite(w, r, s)
    <3>1. WriteOne(r, Settled(r, s)) /\ Settled(r, s) \in Statuses \ Active
      BY <2>2, <2>3 DEF FinishWrite, Active, Terminal, Statuses
    <3> QED BY <3>1, WriteOneType
  <2>4. CASE FinishRefused
    BY <2>4 DEF FinishRefused
  <2> QED BY <2>1, <2>3, <2>4
<1>6. ASSUME NEW w \in Workers, NEW r \in Requests, Progress(w, r) PROVE Kept
  <2>1. CASE UNCHANGED status
    BY <2>1
  <2>2. CASE status[r] = "RUNNING" /\ WriteOne(r, "RUNNING")
    BY <2>2, WriteOneType DEF Active, Statuses
  <2> QED BY <1>6, <2>1, <2>2 DEF Progress
<1> QED BY <1>1, <1>2, <1>3, <1>4, <1>5, <1>6, Writers

(* OneActive is inductive: a run is admitted only into a conversation with *)
(* no active run, and nothing else makes a run active.                     *)
LEMMA NextOneActive ==
    ASSUME TypeOK, OneActive, [Next]_vars
    PROVE  OneActive'
<1>1. ASSUME NEW r \in Requests, NEW e \in 0..MaximumRuns, NEW g \in 0..GrantTicks,
             Enqueue(r, e, g)
      PROVE  OneActive'
  <2>1. status' = [status EXCEPT ![r] = "QUEUED"]
    BY <1>1 DEF Enqueue, WriteOne, Write
  <2>2. \A s \in Requests : s # r /\ ConvOf[s] = ConvOf[r] => status'[s] \notin Active
    BY <1>1, <2>1 DEF Enqueue, Admissible, ActiveIn, RunsOf, Active, TypeOK
  <2>3. \A s \in Requests : s # r => status'[s] = status[s]
    BY <2>1 DEF TypeOK
  <2> QED BY <2>2, <2>3 DEF OneActive
<1>2. CASE ~ \E r \in Requests, e \in 0..MaximumRuns, g \in 0..GrantTicks : Enqueue(r, e, g)
  BY <1>2, OnlyEnqueueActivates DEF OneActive
<1> QED BY <1>1, <1>2

(* At most one question of a conversation is in flight.                    *)
THEOREM OneActiveAlways == Spec => []OneActive
<1>1. Init => OneActive
  BY DEF Init, OneActive, Active
<1>2. TypeOK /\ OneActive /\ [Next]_vars => OneActive'
  BY NextOneActive
<1> QED BY <1>1, <1>2, TypeCorrect, PTL DEF Spec

-----------------------------------------------------------------------------
(* A job moves: what a step of worker w on run r may do to DispatchInv     *)
(* when it leaves the journal and every other job alone.                   *)
LEMMA JobStep ==
    ASSUME TypeOK, DispatchInv, NEW w \in Workers, NEW r \in Requests,
           pc[<<w, r>>] # "none",
           UNCHANGED <<conv, status, events, answered, dispatches>>,
           NEW stage \in Stages, pc' = [pc EXCEPT ![<<w, r>>] = stage],
           NEW asked \in SUBSET Outcomes, pending' = [pending EXCEPT ![<<w, r>>] = asked],
           stage \in {"claimed", "authorized", "renewed"} => dispatches[r] = 0,
           stage \in {"operating", "returned"} => dispatches[r] = 1,
           "COMPLETED" \in asked => dispatches[r] = 1
    PROVE  DispatchInv'
<1>1. \A v \in Workers, s \in Requests : <<v, s>> # <<w, r>> =>
         pc'[<<v, s>>] = pc[<<v, s>>] /\ pending'[<<v, s>>] = pending[<<v, s>>]
  BY DEF TypeOK, Jobs
<1>2. pc'[<<w, r>>] = stage /\ pending'[<<w, r>>] = asked
  BY DEF TypeOK, Jobs
<1>3. ~ Unclaimed(r)
  BY DEF DispatchInv, Fresh
<1>4. \A s \in Requests : Unclaimed(s)' <=> Unclaimed(s)
  BY DEF Unclaimed
<1>5. \A s \in Requests : Unclaimed(s)' => Fresh(s)'
  BY <1>1, <1>3, <1>4 DEF DispatchInv, Fresh
<1> QED BY <1>1, <1>2, <1>5 DEF DispatchInv

(* The journal moves: what a step may do to DispatchInv when it leaves the *)
(* jobs alone and settles, deletes or repeats the status of its runs.      *)
LEMMA JournalStep ==
    ASSUME TypeOK, DispatchInv,
           UNCHANGED <<pc, pending, dispatches>>,
           \A s \in Requests : Unclaimed(s)' => Unclaimed(s),
           \A s \in Requests : s \in answered' =>
              s \in answered /\ status'[s] = status[s],
           \A s \in Requests : status'[s] = "ABSENT" => events'[s] = << >>
    PROVE  DispatchInv'
BY DEF DispatchInv, Fresh

(* DispatchInv is inductive: one case for each action.                     *)
LEMMA NextDispatch ==
    ASSUME TypeOK, DispatchInv, [Next]_vars
    PROVE  DispatchInv'
<1> USE DEF Unclaimed
<1>1. ASSUME NEW c \in Conversations, CreateConversation(c) PROVE DispatchInv'
  BY <1>1, JournalStep DEF CreateConversation, worker, DispatchInv, TypeOK
<1>2. ASSUME NEW c \in Conversations, Delete(c) PROVE DispatchInv'
  <2>1. \A s \in Requests : Unclaimed(s)' => Unclaimed(s)
    BY <1>2, SharedAssumption DEF Delete, TypeOK
  <2>2. \A s \in Requests : status'[s] = "ABSENT" => events'[s] = << >>
    BY <1>2 DEF Delete, DispatchInv
  <2>3. \A s \in Requests : s \in answered' => s \in answered /\ status'[s] = status[s]
    BY <1>2 DEF Delete
  <2> QED BY <1>2, <2>1, <2>2, <2>3, JournalStep DEF Delete, worker
<1>3. ASSUME NEW r \in Requests, Cancel(r) PROVE DispatchInv'
  <2>1. PICK new \in {"CANCELLED", "CANCELLATION_REQUESTED"} :
           /\ status' = [status EXCEPT ![r] = new]
           /\ \A s \in Requests : s # r => events'[s] = events[s]
    BY <1>3 DEF Cancel, WriteOne, Write
  <2>2. UNCHANGED <<conv, answered, pc, pending, dispatches>>
    BY <1>3 DEF Cancel, worker
  <2>3. status[r] \in {"QUEUED", "RUNNING"} /\ status'[r] = new
    BY <1>3, <2>1 DEF Cancel, TypeOK
  <2>4. \A s \in Requests : s # r => status'[s] = status[s]
    BY <2>1 DEF TypeOK
  <2>5. \A s \in Requests : Unclaimed(s)' => Unclaimed(s)
    BY <2>2, <2>3, <2>4
  <2>6. \A s \in Requests : s \in answered' => s \in answered /\ status'[s] = status[s]
    BY <2>2, <2>3, <2>4 DEF DispatchInv
  <2>7. \A s \in Requests : status'[s] = "ABSENT" => events'[s] = << >>
    BY <2>1, <2>3, <2>4 DEF DispatchInv
  <2> QED BY <2>2, <2>5, <2>6, <2>7, JournalStep
<1>4. ASSUME NEW r \in Requests, NEW e \in 0..MaximumRuns, NEW g \in 0..GrantTicks,
             Enqueue(r, e, g)
      PROVE  DispatchInv'
  <2>1. /\ status' = [status EXCEPT ![r] = "QUEUED"]
        /\ \A s \in Requests : s # r => events'[s] = events[s]
    BY <1>4 DEF Enqueue, WriteOne, Write
  <2>2. \A s \in Requests : Unclaimed(s)' => Unclaimed(s)
    BY <1>4, <2>1 DEF Enqueue, TypeOK
  <2>3. \A s \in Requests : s \in answered' => s \in answered /\ status'[s] = status[s]
    BY <1>4, <2>1 DEF Enqueue, DispatchInv, TypeOK
  <2>4. \A s \in Requests : status'[s] = "ABSENT" => events'[s] = << >>
    BY <2>1 DEF DispatchInv, TypeOK
  <2> QED BY <1>4, <2>2, <2>3, <2>4, JournalStep DEF Enqueue, worker
<1>5. ASSUME NEW c \in Conversations, ChangeAuthority(c) PROVE DispatchInv'
  BY <1>5, JournalStep DEF ChangeAuthority, worker, database, DispatchInv
<1>6. CASE Tick
  BY <1>6, JournalStep DEF Tick, worker, DispatchInv
<1>7. ASSUME NEW w \in Workers, Claim(w) PROVE DispatchInv'
  <2>1. \A s \in Requests :
           \/ Swept[s] = status[s] /\ s \notin Expired
           \/ Swept[s] = "INTERRUPTED" /\ status[s] \in Active /\ s \in Expired
    BY DEF Swept, Expired, Executing, Active
  <2>2. CASE ClaimNothing(w)
    <3>1. /\ status' = Swept
          /\ \A s \in Requests : s \notin Expired => events'[s] = events[s]
      BY <2>2 DEF ClaimNothing, Write
    <3>2. UNCHANGED <<conv, answered, pc, pending, dispatches>>
      BY <1>7, <2>2 DEF Claim, ClaimNothing
    <3>3. \A s \in Requests :
             /\ Unclaimed(s)' => Unclaimed(s)
             /\ s \in answered' => status'[s] = status[s]
             /\ status'[s] = "ABSENT" => events'[s] = << >>
      <4> TAKE s \in Requests
      <4>1. Unclaimed(s)' => Unclaimed(s)
        BY <2>1, <3>1, <3>2 DEF Active
      <4>2. s \in answered => status[s] = "COMPLETED"
        BY DEF DispatchInv
      <4>3. s \in answered' => status'[s] = status[s]
        BY <2>1, <3>1, <3>2, <4>2 DEF Active
      <4>4. status'[s] = "ABSENT" => events'[s] = << >>
        BY <2>1, <3>1 DEF DispatchInv
      <4> QED BY <4>1, <4>3, <4>4
    <3> QED BY <3>2, <3>3, JournalStep
  <2>3. ASSUME NEW r \in Requests, ClaimRun(w, r) PROVE DispatchInv'
    <3>1. status[r] = "QUEUED" /\ Fresh(r)
      BY <2>3 DEF ClaimRun, Claimable, Queued, DispatchInv
    <3>2. /\ status' = [Swept EXCEPT ![r] = "RUNNING"]
          /\ \A s \in Requests :
                s \notin Expired \cup {r} => events'[s] = events[s]
      BY <2>3 DEF ClaimRun, Write
    <3>3. UNCHANGED <<conv, answered, pending, dispatches>>
      BY <1>7 DEF Claim
    <3>4. \A s \in Requests : /\ status'[s] # status[s] => status[s] \in Active
                              /\ status'[s] = "ABSENT" => status[s] = "ABSENT" /\ events'[s] = events[s]
                              /\ status'[s] = "QUEUED" => status[s] = "QUEUED" /\ s # r
                              /\ s = r => status'[s] = "RUNNING"
      BY <2>1, <3>1, <3>2 DEF Swept, Active
    <3>5. \/ pc' = pc
          \/ pc' = [pc EXCEPT ![<<w, r>>] = "claimed"]
      BY <2>3 DEF ClaimRun
    <3>6. \A v \in Workers, s \in Requests :
             s # r => pc'[<<v, s>>] = pc[<<v, s>>]
      BY <3>5 DEF TypeOK, Jobs
    <3>7. \A v \in Workers : pc'[<<v, r>>] = "none" \/ (v = w /\ pc'[<<v, r>>] = "claimed")
      BY <3>1, <3>5 DEF TypeOK, Jobs, Fresh
    <3>8. \A s \in Requests : s # r => (Unclaimed(s)' => Fresh(s)')
      BY <3>3, <3>4, <3>6 DEF DispatchInv, Fresh
    <3> QED BY <3>1, <3>3, <3>4, <3>6, <3>7, <3>8 DEF DispatchInv, Fresh, Active
  <2> QED BY <1>7, <2>2, <2>3 DEF Claim
<1>8. ASSUME NEW w \in Workers, NEW r \in Requests, Execution(w, r) PROVE DispatchInv'
  <2>1. CASE Authorize(w, r)
    <3>1. PICK stage \in {"authorized", "finishing"}, asked \in {pending[<<w, r>>], {"FAILED"}} :
             /\ pc' = [pc EXCEPT ![<<w, r>>] = stage]
             /\ pending' = [pending EXCEPT ![<<w, r>>] = asked]
      BY <2>1 DEF Authorize, Conclude, TypeOK, Jobs
    <3>2. /\ pc[<<w, r>>] = "claimed" /\ dispatches[r] = 0
          /\ UNCHANGED <<conv, status, events, answered, dispatches>>
      BY <2>1 DEF Authorize, At, Renew, database, DispatchInv
    <3>3. /\ stage \in Stages /\ asked \in SUBSET Outcomes
          /\ "COMPLETED" \in asked => dispatches[r] = 1
      <4>1. pending[<<w, r>>] \in SUBSET Outcomes
        BY DEF TypeOK, Jobs
      <4>2. "COMPLETED" \in pending[<<w, r>>] => dispatches[r] = 1
        BY DEF DispatchInv
      <4> QED BY <4>1, <4>2 DEF Stages, Outcomes
    <3> QED BY <3>1, <3>2, <3>3, JobStep
  <2>2. CASE HeartbeatBeforeDispatch(w, r)
    <3>1. PICK stage \in {"renewed", "finishing"}, asked \in {pending[<<w, r>>], {"FAILED"}} :
             /\ pc' = [pc EXCEPT ![<<w, r>>] = stage]
             /\ pending' = [pending EXCEPT ![<<w, r>>] = asked]
      BY <2>2 DEF HeartbeatBeforeDispatch, Conclude, TypeOK, Jobs
    <3>2. /\ pc[<<w, r>>] = "authorized" /\ dispatches[r] = 0
          /\ UNCHANGED <<conv, status, events, answered, dispatches>>
      BY <2>2 DEF HeartbeatBeforeDispatch, At, Renew, database, DispatchInv
    <3>3. /\ stage \in Stages /\ asked \in SUBSET Outcomes
          /\ "COMPLETED" \in asked => dispatches[r] = 1
      <4>1. pending[<<w, r>>] \in SUBSET Outcomes
        BY DEF TypeOK, Jobs
      <4>2. "COMPLETED" \in pending[<<w, r>>] => dispatches[r] = 1
        BY DEF DispatchInv
      <4> QED BY <4>1, <4>2 DEF Stages, Outcomes
    <3> QED BY <3>1, <3>2, <3>3, JobStep
  <2>3. CASE Dispatch(w, r)
    <3>1. /\ pc[<<w, r>>] = "renewed"
          /\ pc' = [pc EXCEPT ![<<w, r>>] = "operating"]
          /\ dispatches' = [dispatches EXCEPT ![r] = @ + 1]
          /\ UNCHANGED <<conv, status, events, answered, pending>>
      BY <2>3 DEF Dispatch, At, database
    <3>2. dispatches[r] = 0 /\ ~ Unclaimed(r) /\ dispatches'[r] = 1
      BY <3>1 DEF DispatchInv, Fresh, TypeOK
    <3>3. \A v \in Workers : v # w => pc[<<v, r>>] = "none" /\ pc'[<<v, r>>] = "none"
      BY <3>1 DEF DispatchInv, TypeOK, Jobs
    <3>4. pc'[<<w, r>>] = "operating"
      BY <3>1 DEF TypeOK, Jobs
    <3>5. \A s \in Requests : s # r =>
             /\ dispatches'[s] = dispatches[s]
             /\ \A v \in Workers : pc'[<<v, s>>] = pc[<<v, s>>]
      BY <3>1 DEF TypeOK, Jobs
    <3>6. \A s \in Requests : Unclaimed(s)' => Fresh(s)'
      BY <3>1, <3>2, <3>5 DEF DispatchInv, Fresh
    <3>7. \A s \in Requests :
             /\ dispatches'[s] \in {0, 1}
             /\ s \in answered' => status'[s] = "COMPLETED" /\ dispatches'[s] = 1
             /\ status'[s] = "ABSENT" => events'[s] = << >>
      BY <3>1, <3>2, <3>5 DEF DispatchInv
    <3>8. \A s \in Requests, u, v \in Workers :
             pc'[<<u, s>>] # "none" /\ pc'[<<v, s>>] # "none" => u = v
      BY <3>3, <3>5 DEF DispatchInv
    <3>9. \A s \in Requests, v \in Workers :
             /\ pc'[<<v, s>>] \in {"claimed", "authorized", "renewed"} => dispatches'[s] = 0
             /\ pc'[<<v, s>>] \in {"operating", "returned"} => dispatches'[s] = 1
             /\ "COMPLETED" \in pending'[<<v, s>>] => dispatches'[s] = 1
      <4>1. \A s \in Requests, v \in Workers :
               /\ pc[<<v, s>>] \in {"claimed", "authorized", "renewed"} => dispatches[s] = 0
               /\ pc[<<v, s>>] \in {"operating", "returned"} => dispatches[s] = 1
               /\ "COMPLETED" \in pending[<<v, s>>] => dispatches[s] = 1
        BY DEF DispatchInv
      <4>2. \A v \in Workers : "COMPLETED" \notin pending[<<v, r>>]
        BY <3>2, <4>1
      <4> TAKE s \in Requests, v \in Workers
      <4>3. CASE s = r
        BY <3>1, <3>2, <3>3, <3>4, <4>2, <4>3
      <4>4. CASE s # r
        BY <3>1, <3>5, <4>1, <4>4
      <4> QED BY <4>3, <4>4
    <3> QED BY <3>6, <3>7, <3>8, <3>9 DEF DispatchInv
  <2>4. CASE AuthorizeRelease(w, r)
    <3>1. PICK asked \in {{"COMPLETED"}, {"FAILED"}} :
             /\ pc' = [pc EXCEPT ![<<w, r>>] = "finishing"]
             /\ pending' = [pending EXCEPT ![<<w, r>>] = asked]
      BY <2>4 DEF AuthorizeRelease, Conclude
    <3>2. /\ pc[<<w, r>>] = "returned"
          /\ UNCHANGED <<conv, status, events, answered, dispatches>>
      BY <2>4 DEF AuthorizeRelease, At, database
    <3>3. dispatches[r] = 1
      BY <3>2 DEF DispatchInv
    <3>4. "finishing" \in Stages /\ asked \in SUBSET Outcomes
      BY DEF Stages, Outcomes
    <3> QED BY <3>1, <3>2, <3>3, <3>4, JobStep
  <2>5. CASE Finish(w, r)
    <3>0. /\ pending[<<w, r>>] \in SUBSET Outcomes
          /\ \E s \in pending[<<w, r>>], left \in SUBSET (pending[<<w, r>>] \cup {"FAILED"}) :
                /\ FinishWrite(w, r, s) \/ FinishRefused
                /\ Remaining(w, r, left)
      BY <2>5 DEF Finish, TypeOK, Jobs
    <3>1. PICK s \in pending[<<w, r>>], left \in SUBSET Outcomes :
             /\ FinishWrite(w, r, s) \/ FinishRefused
             /\ Remaining(w, r, left)
             /\ left \subseteq pending[<<w, r>>] \cup {"FAILED"}
      BY <3>0 DEF Outcomes
    <3>2. PICK stage \in {"none", "finishing"} : pc' = [pc EXCEPT ![<<w, r>>] = stage]
      BY <2>5, <3>1 DEF Finish, At, Remaining, TypeOK, Jobs
    <3>3. /\ pc[<<w, r>>] = "finishing" /\ UNCHANGED <<conv, dispatches>>
          /\ pending' = [pending EXCEPT ![<<w, r>>] = left]
      BY <2>5, <3>1 DEF Finish, At, Remaining
    <3>4. CASE FinishRefused
      <4>1. /\ stage \in Stages
            /\ "COMPLETED" \in left => dispatches[r] = 1
            /\ UNCHANGED <<conv, status, events, answered, dispatches>>
        BY <3>1, <3>3, <3>4 DEF FinishRefused, DispatchInv, Stages
      <4> QED BY <3>2, <3>3, <4>1, JobStep
    <3>5. CASE FinishWrite(w, r, s)
      <4>1. /\ status[r] \in Executing
            /\ status' = [status EXCEPT ![r] = Settled(r, s)]
            /\ \A q \in Requests : q # r => events'[q] = events[q]
        BY <3>5 DEF FinishWrite, Owned, WriteOne, Write
      <4>2. Settled(r, s) \in Terminal /\ (Settled(r, s) = "COMPLETED" => s = "COMPLETED")
        BY <3>1, SettledIsTerminal DEF TypeOK, Jobs, Settled
      <4>3. answered' = IF Settled(r, s) = "COMPLETED" THEN answered \cup {r} ELSE answered
        BY <3>5 DEF FinishWrite
      <4>4. r \notin answered /\ ~ Unclaimed(r) /\ ~ Unclaimed(r)'
        BY <4>1, <4>2 DEF DispatchInv, Executing, TypeOK, Terminal
      <4>5. status'[r] = Settled(r, s) /\ \A q \in Requests : q # r => status'[q] = status[q]
        BY <4>1 DEF TypeOK
      <4>6. \A v \in Workers, q \in Requests : <<v, q>> # <<w, r>> =>
               pc'[<<v, q>>] = pc[<<v, q>>] /\ pending'[<<v, q>>] = pending[<<v, q>>]
        BY <3>2, <3>3 DEF TypeOK, Jobs
      <4>7. pc'[<<w, r>>] = stage /\ pending'[<<w, r>>] = left
        BY <3>2, <3>3 DEF TypeOK, Jobs
      <4>8. \A q \in Requests : Unclaimed(q)' => Fresh(q)'
        BY <3>3, <4>4, <4>5, <4>6 DEF DispatchInv, Fresh
      <4>9. \A q \in Requests :
               /\ q \in answered' => status'[q] = "COMPLETED" /\ dispatches'[q] = 1
               /\ status'[q] = "ABSENT" => events'[q] = << >>
               /\ dispatches'[q] \in {0, 1}
        <5>1. \A q \in Requests : q # r =>
                 /\ q \in answered' <=> q \in answered
                 /\ status'[q] = status[q] /\ events'[q] = events[q]
          BY <4>1, <4>3, <4>5
        <5>2. "COMPLETED" \in pending[<<w, r>>] => dispatches[r] = 1
          BY DEF DispatchInv
        <5>3. r \in answered' => status'[r] = "COMPLETED" /\ dispatches[r] = 1
          BY <3>1, <4>2, <4>3, <4>4, <4>5, <5>2
        <5>4. status'[r] # "ABSENT"
          BY <4>2, <4>5 DEF Terminal
        <5> QED BY <3>3, <5>1, <5>3, <5>4 DEF DispatchInv
      <4>10. \A q \in Requests : \A v, u \in Workers :
                pc'[<<v, q>>] # "none" /\ pc'[<<u, q>>] # "none" => v = u
        BY <3>3, <4>6, <4>7 DEF DispatchInv
      <4>11. \A q \in Requests, v \in Workers :
                /\ pc'[<<v, q>>] \in {"claimed", "authorized", "renewed"} => dispatches'[q] = 0
                /\ pc'[<<v, q>>] \in {"operating", "returned"} => dispatches'[q] = 1
                /\ "COMPLETED" \in pending'[<<v, q>>] => dispatches'[q] = 1
        <5>1. "COMPLETED" \in left => dispatches[r] = 1
          BY <3>1 DEF DispatchInv
        <5>2. dispatches' = dispatches
          BY <3>3
        <5>3. \A q \in Requests, v \in Workers : <<v, q>> # <<w, r>> =>
                /\ pc'[<<v, q>>] \in {"claimed", "authorized", "renewed"} => dispatches'[q] = 0
                /\ pc'[<<v, q>>] \in {"operating", "returned"} => dispatches'[q] = 1
                /\ "COMPLETED" \in pending'[<<v, q>>] => dispatches'[q] = 1
          <6>1. \A q \in Requests, v \in Workers :
                  /\ pc[<<v, q>>] \in {"claimed", "authorized", "renewed"} => dispatches[q] = 0
                  /\ pc[<<v, q>>] \in {"operating", "returned"} => dispatches[q] = 1
                  /\ "COMPLETED" \in pending[<<v, q>>] => dispatches[q] = 1
            BY DEF DispatchInv
          <6> QED BY <4>6, <5>2, <6>1
        <5> QED BY <4>7, <5>1, <5>2, <5>3
      <4> QED BY <4>8, <4>9, <4>10, <4>11 DEF DispatchInv
    <3> QED BY <3>1, <3>4, <3>5
  <2> QED BY <1>8, <2>1, <2>2, <2>3, <2>4, <2>5 DEF Execution
<1>9. ASSUME NEW w \in Workers, NEW r \in Requests, Operation(w, r) PROVE DispatchInv'
  <2>1. CASE Progress(w, r)
    <3>1. CASE WriteOne(r, "RUNNING") /\ UNCHANGED <<pc, pending>>
      <4>1. /\ status' = [status EXCEPT ![r] = "RUNNING"]
            /\ \A s \in Requests : s # r => events'[s] = events[s]
        BY <3>1 DEF WriteOne, Write
      <4>2. status[r] = "RUNNING" \/ Conclude(w, r, "FAILED")
        BY <2>1 DEF Progress
      <4>3. status[r] = "RUNNING"
        BY <3>1, <4>2, <2>1 DEF Progress, Conclude, At, TypeOK, Jobs
      <4>4. UNCHANGED <<conv, answered, pc, pending, dispatches>>
        BY <2>1, <3>1 DEF Progress
      <4>5. \A s \in Requests : status'[s] = status[s]
        BY <4>1, <4>3 DEF TypeOK
      <4>6. \A s \in Requests : status'[s] = "ABSENT" => events'[s] = << >>
        BY <4>1, <4>3, <4>5 DEF DispatchInv
      <4> QED BY <4>4, <4>5, <4>6, JournalStep
    <3>2. CASE Conclude(w, r, "FAILED") /\ UNCHANGED <<status, events>>
      BY <2>1, <3>2, JobStep DEF Progress, Conclude, At, DispatchInv, Stages, Outcomes
    <3> QED BY <2>1, <3>1, <3>2 DEF Progress
  <2>2. CASE OperationReturns(w, r)
    <3>1. PICK stage \in {"returned", "finishing"}, asked \in {pending[<<w, r>>], {"FAILED"}} :
             /\ pc' = [pc EXCEPT ![<<w, r>>] = stage]
             /\ pending' = [pending EXCEPT ![<<w, r>>] = asked]
      BY <2>2 DEF OperationReturns, Conclude, TypeOK, Jobs
    <3>2. /\ pc[<<w, r>>] = "operating" /\ dispatches[r] = 1
          /\ UNCHANGED <<conv, status, events, answered, dispatches>>
      BY <2>2 DEF OperationReturns, At, Renew, database, DispatchInv
    <3>3. /\ stage \in Stages /\ asked \in SUBSET Outcomes
          /\ "COMPLETED" \in asked => dispatches[r] = 1
      <4>1. pending[<<w, r>>] \in SUBSET Outcomes
        BY DEF TypeOK, Jobs
      <4>2. "COMPLETED" \in pending[<<w, r>>] => dispatches[r] = 1
        BY DEF DispatchInv
      <4> QED BY <4>1, <4>2 DEF Stages, Outcomes
    <3> QED BY <3>1, <3>2, <3>3, JobStep
  <2> QED BY <1>9, <2>1, <2>2 DEF Operation
<1>10. ASSUME NEW w \in Workers, NEW r \in Requests, Watch(w, r) PROVE DispatchInv'
  <2>1. UNCHANGED <<conv, status, events, answered, dispatches>>
    BY <1>10 DEF Watch, MonitorAuthorize, MonitorHeartbeat, Renew, database
  <2>2. UNCHANGED <<pc, pending>> \/ (pc[<<w, r>>] = "operating" /\ Conclude(w, r, "INTERRUPTED"))
    BY <1>10 DEF Watch, MonitorAuthorize, MonitorHeartbeat, StopOperation
  <2>3. CASE UNCHANGED <<pc, pending>>
    BY <2>1, <2>3, JournalStep DEF DispatchInv
  <2>4. CASE pc[<<w, r>>] = "operating" /\ Conclude(w, r, "INTERRUPTED")
    BY <2>1, <2>4, JobStep DEF Conclude, Stages, Outcomes
  <2> QED BY <2>2, <2>3, <2>4
<1>11. ASSUME NEW w \in Workers, Lifecycle(w) PROVE DispatchInv'
  <2>1. UNCHANGED <<conv, status, events, answered, dispatches>>
    BY <1>11 DEF Lifecycle, Close, Closed, Crash, Down, Restart, database
  <2>2. \A j \in Jobs :
           /\ pc'[j] \in {pc[j], "none", "finishing"}
           /\ pc[j] = "none" => pc'[j] = "none"
           /\ "COMPLETED" \in pending'[j] => "COMPLETED" \in pending[j]
    <3>1. CASE Close(w)
      BY <3>1 DEF Close, TypeOK
    <3>2. CASE Down(w)
      BY <3>2 DEF Down
    <3>3. CASE Restart(w)
      BY <3>3 DEF Restart
    <3> QED BY <1>11, <3>1, <3>2, <3>3 DEF Lifecycle, Closed, Crash
  <2>3. \A s \in Requests, v \in Workers : <<v, s>> \in Jobs
    BY DEF Jobs
  <2>4. \A s \in Requests : Unclaimed(s)' => Fresh(s)'
    BY <2>1, <2>2, <2>3 DEF DispatchInv, Fresh
  <2> QED BY <2>1, <2>2, <2>3, <2>4 DEF DispatchInv
<1>12. CASE UNCHANGED vars
  BY <1>12, JournalStep DEF vars, database, worker, DispatchInv
<1> QED
  BY <1>1, <1>2, <1>3, <1>4, <1>5, <1>6, <1>7, <1>8, <1>9, <1>10, <1>11, <1>12
     DEF Next, Api

(* The inductive invariant behind the next theorem.                        *)
THEOREM DispatchAlways == Spec => []DispatchInv
<1>1. Init => DispatchInv
  BY DEF Init, DispatchInv, Unclaimed, Fresh, Jobs
<1>2. TypeOK /\ DispatchInv /\ [Next]_vars => DispatchInv'
  BY NextDispatch
<1> QED BY <1>1, <1>2, TypeCorrect, PTL DEF Spec

(* The operation of a run is started at most once, whatever crashes, lost  *)
(* claims and expired leases it meets.                                     *)
THEOREM AtMostOnce == Spec => []NeverRedispatched
<1>1. DispatchInv => NeverRedispatched
  BY DEF DispatchInv, NeverRedispatched
<1> QED BY <1>1, DispatchAlways, PTL

-----------------------------------------------------------------------------
(* Only a finish call adds an answer, and it does so for a run it owns.    *)
LEMMA NextNoLateAnswer ==
    ASSUME TypeOK, [Next]_vars
    PROVE  \A r \in answered' \ answered :
             /\ grant[r] > 0 /\ lease[r] > 0
             /\ \E w \in Workers : w = fence[r] /\ "COMPLETED" \in pending[<<w, r>>]
<1> DEFINE Good == \A r \in answered' \ answered :
             /\ grant[r] > 0 /\ lease[r] > 0
             /\ \E w \in Workers : w = fence[r] /\ "COMPLETED" \in pending[<<w, r>>]
<1>1. CASE answered' \subseteq answered
  BY <1>1
<1>2. ASSUME NEW w \in Workers, NEW r \in Requests, Finish(w, r) PROVE Good
  <2>1. PICK s \in pending[<<w, r>>] : FinishWrite(w, r, s) \/ FinishRefused
    BY <1>2 DEF Finish
  <2>2. CASE FinishWrite(w, r, s) /\ Settled(r, s) = "COMPLETED"
    <3>1. grant[r] # 0 /\ s = "COMPLETED"
      BY <2>2 DEF Settled
    <3>2. fence[r] = w /\ lease[r] > 0 /\ answered' = answered \cup {r}
      BY <2>2 DEF FinishWrite, Owned
    <3>3. grant[r] > 0
      BY <3>1, SharedAssumption DEF TypeOK
    <3> QED BY <2>1, <3>1, <3>2, <3>3
  <2>3. CASE FinishRefused \/ (FinishWrite(w, r, s) /\ Settled(r, s) # "COMPLETED")
    BY <2>3 DEF FinishRefused, FinishWrite
  <2> QED BY <2>1, <2>2, <2>3
<1>3. answered' \subseteq answered \/ \E w \in Workers, r \in Requests : Finish(w, r)
  BY Writers DEF Delete, Cancel, Enqueue, Claim, Progress
<1> QED BY <1>1, <1>2, <1>3

(* A result enters the journal only under a live authority and a live      *)
(* claim, from the worker that holds it.                                   *)
THEOREM NoLateAnswerEver == Spec => NoLateAnswer
<1>1. TypeOK /\ [Next]_vars =>
        [\A r \in answered' \ answered :
             /\ grant[r] > 0 /\ lease[r] > 0
             /\ \E w \in Workers : w = fence[r] /\ "COMPLETED" \in pending[<<w, r>>]]_vars
  BY NextNoLateAnswer
<1> QED BY <1>1, TypeCorrect, PTL DEF Spec, NoLateAnswer
-----------------------------------------------------------------------------
Moved(r) == Journal!Untouched(r) \/ Journal!Written(r) \/ Journal!Forgotten(r)

Edges == Journal!Edges \cup {<<"RUNNING", "RUNNING">>}

(* One row written along an edge is one write of the abstract journal.     *)
LEMMA WriteOneMoves ==
    ASSUME TypeOK, DispatchInv, NEW r \in Requests, NEW s \in Statuses, WriteOne(r, s),
           <<status[r], s>> \in Edges, status[r] # "COMPLETED",
           answered' = IF s = "COMPLETED" THEN answered \cup {r} ELSE answered
    PROVE  \A q \in Requests : Moved(q)
<1>1. /\ status' = [status EXCEPT ![r] = s]
      /\ events' = [q \in Requests |-> IF q \in {r} THEN Append(events[q], status'[q])
                                       ELSE events[q]]
  BY DEF WriteOne, Write
<1>2. \A q \in Requests : q # r => Journal!Untouched(q)
  BY <1>1 DEF Journal!Untouched, TypeOK
<1>3. r \notin answered /\ status'[r] = s /\ events'[r] = Append(events[r], status'[r])
  BY <1>1 DEF DispatchInv, TypeOK
<1>4. Journal!Written(r)
  BY <1>3 DEF Journal!Written, Edges
<1> QED BY <1>2, <1>4 DEF Moved

(* A step that keeps the journal rows keeps every run.                     *)
LEMMA KeptMoves ==
    ASSUME UNCHANGED <<status, events, answered>>
    PROVE  \A q \in Requests : Moved(q)
BY DEF Moved, Journal!Untouched

(* Every step of SharedRuns moves each run along the documented machine.   *)
LEMMA NextMoves ==
    ASSUME TypeOK, DispatchInv, [Next]_vars
    PROVE  \A q \in Requests : Moved(q)
<1> DEFINE All == \A q \in Requests : Moved(q)
<1>0. Edges = {<<"ABSENT", "QUEUED">>, <<"QUEUED", "RUNNING">>,
               <<"QUEUED", "CANCELLATION_REQUESTED">>, <<"RUNNING", "CANCELLATION_REQUESTED">>,
               <<"CANCELLATION_REQUESTED", "CANCELLED">>, <<"RUNNING", "COMPLETED">>,
               <<"RUNNING", "FAILED">>, <<"QUEUED", "INTERRUPTED">>,
               <<"RUNNING", "INTERRUPTED">>, <<"CANCELLATION_REQUESTED", "INTERRUPTED">>,
               <<"QUEUED", "CANCELLED">>, <<"RUNNING", "RUNNING">>}
  BY DEF Edges, Journal!Edges, Journal!Active
<1>1. CASE UNCHANGED <<status, events, answered>>
  BY <1>1, KeptMoves
<1>2. ASSUME NEW c \in Conversations, Delete(c) PROVE All
  <2>1. \A q \in Requests : ConvOf[q] # c => Journal!Untouched(q)
    BY <1>2 DEF Delete, Journal!Untouched
  <2>2. ASSUME NEW q \in Requests, ConvOf[q] = c, status[q] # "ABSENT"
        PROVE  Journal!Forgotten(q)
    <3>1. status[q] \notin Active
      BY <1>2, <2>2 DEF Delete, ActiveIn, RunsOf
    <3>2. status[q] \in Terminal
      BY <2>2, <3>1 DEF TypeOK, Statuses
    <3> QED BY <1>2, <2>2, <3>2 DEF Delete, Journal!Forgotten, Journal!Terminal, Terminal
  <2>3. ASSUME NEW q \in Requests, ConvOf[q] = c, status[q] = "ABSENT"
        PROVE  Journal!Untouched(q)
    BY <1>2, <2>3 DEF Delete, Journal!Untouched, DispatchInv
  <2> QED BY <2>1, <2>2, <2>3 DEF Moved
<1>3. ASSUME NEW r \in Requests, Cancel(r) PROVE All
  BY <1>0, <1>3, WriteOneMoves DEF Cancel, Statuses, Active, Terminal
<1>4. ASSUME NEW r \in Requests, NEW e \in 0..MaximumRuns, NEW g \in 0..GrantTicks,
             Enqueue(r, e, g)
      PROVE  All
  BY <1>0, <1>4, WriteOneMoves DEF Enqueue, Statuses, Active, Terminal
<1>5. ASSUME NEW w \in Workers, Claim(w) PROVE All
  <2>1. PICK touched \in SUBSET Requests, new \in [Requests -> Statuses] :
           /\ Write(touched, new)
           /\ \A q \in touched : <<status[q], new[q]>> \in Edges /\ new[q] # "COMPLETED"
                                 /\ status[q] # "COMPLETED"
           /\ \A q \in Requests \ touched : new[q] = status[q]
    <3>1. Swept \in [Requests -> Statuses] /\ Expired \in SUBSET Requests
      BY DEF Swept, TypeOK, Statuses, Terminal, Expired
    <3>2. \A q \in Expired : /\ <<status[q], Swept[q]>> \in Edges
                             /\ Swept[q] = "INTERRUPTED" /\ status[q] # "COMPLETED"
      BY <1>0 DEF Swept, Expired, Executing
    <3>3. \A q \in Requests \ Expired : Swept[q] = status[q]
      BY DEF Swept
    <3>4. CASE ClaimNothing(w)
      BY <3>1, <3>2, <3>3, <3>4 DEF ClaimNothing
    <3>5. ASSUME NEW r \in Requests, ClaimRun(w, r)
          PROVE  \E touched \in SUBSET Requests, new \in [Requests -> Statuses] :
                   /\ Write(touched, new)
                   /\ \A q \in touched : <<status[q], new[q]>> \in Edges /\ new[q] # "COMPLETED"
                                         /\ status[q] # "COMPLETED"
                   /\ \A q \in Requests \ touched : new[q] = status[q]
      <4> DEFINE new == [Swept EXCEPT ![r] = "RUNNING"]
      <4>1. status[r] = "QUEUED" /\ r \notin Expired /\ Write(Expired \cup {r}, new)
        BY <3>5 DEF ClaimRun, Claimable, Queued
      <4>2. /\ new \in [Requests -> Statuses] /\ new[r] = "RUNNING"
            /\ \A q \in Requests : q # r => new[q] = Swept[q]
        BY <3>1 DEF Statuses, Active
      <4> HIDE DEF new
      <4>3. \A q \in Expired \cup {r} : /\ <<status[q], new[q]>> \in Edges
                                        /\ new[q] # "COMPLETED" /\ status[q] # "COMPLETED"
        BY <1>0, <3>1, <3>2, <4>1, <4>2
      <4>4. \A q \in Requests \ (Expired \cup {r}) : new[q] = status[q]
        BY <3>3, <4>2
      <4>5. Expired \cup {r} \in SUBSET Requests
        BY <3>1
      <4> QED BY <4>1, <4>2, <4>3, <4>4, <4>5
    <3> QED BY <1>5, <3>4, <3>5 DEF Claim
  <2>2. answered' = answered
    BY <1>5 DEF Claim
  <2>3. ASSUME NEW q \in Requests PROVE Moved(q)
    <3>1. CASE q \in touched
      <4>1. q \notin answered /\ status'[q] = new[q] /\ events'[q] = Append(events[q], status'[q])
        BY <2>1, <3>1 DEF Write, DispatchInv
      <4>2. Journal!Written(q)
        BY <2>1, <2>2, <3>1, <4>1 DEF Journal!Written, Edges
      <4> QED BY <4>2 DEF Moved
    <3>2. CASE q \notin touched
      BY <2>1, <2>2, <3>2 DEF Write, Moved, Journal!Untouched
    <3> QED BY <3>1, <3>2
  <2> QED BY <2>3
<1>6. ASSUME NEW w \in Workers, NEW r \in Requests, Finish(w, r) PROVE All
  <2>1. PICK s \in pending[<<w, r>>] : FinishWrite(w, r, s) \/ FinishRefused
    BY <1>6 DEF Finish
  <2>2. CASE FinishWrite(w, r, s)
    <3>1. s \in Outcomes /\ status[r] \in Executing
      BY <2>1, <2>2 DEF TypeOK, Jobs, FinishWrite, Owned
    <3>2. <<status[r], Settled(r, s)>> \in Edges /\ Settled(r, s) \in Statuses
      BY <1>0, <3>1 DEF Settled, Executing, Outcomes, Statuses, Terminal
    <3>3. WriteOne(r, Settled(r, s))
          /\ answered' = IF Settled(r, s) = "COMPLETED" THEN answered \cup {r} ELSE answered
      BY <2>2 DEF FinishWrite
    <3> QED BY <3>1, <3>2, <3>3, WriteOneMoves DEF Executing
  <2>3. CASE FinishRefused
    BY <2>3, KeptMoves DEF FinishRefused
  <2> QED BY <2>1, <2>2, <2>3
<1>7. ASSUME NEW w \in Workers, NEW r \in Requests, Progress(w, r) PROVE All
  <2>1. CASE WriteOne(r, "RUNNING") /\ status[r] = "RUNNING"
    BY <1>0, <1>7, <2>1, WriteOneMoves DEF Progress, Statuses, Active
  <2>2. CASE UNCHANGED <<status, events>>
    BY <1>7, <2>2, KeptMoves DEF Progress
  <2> QED BY <1>7, <2>1, <2>2 DEF Progress
<1> QED BY <1>1, <1>2, <1>3, <1>4, <1>5, <1>6, <1>7, Writers

(* The PostgreSQL journal and its workers implement the abstract run       *)
(* lifecycle: every transaction is a step of it, or leaves it alone.       *)
THEOREM ImplementsLifecycle == Spec => JournalSpec
<1>1. Init => Journal!Init
  BY DEF Init, Journal!Init
<1>2. ASSUME TypeOK, TypeOK', DispatchInv, OneActive', [Next]_vars
      PROVE  [Journal!Next]_(Journal!vars)
  <2>1. /\ DOMAIN status' = Requests /\ DOMAIN events' = Requests
        /\ answered' \subseteq Requests
    BY <1>2 DEF TypeOK
  <2>2. Journal!OneActive'
    BY <1>2 DEF OneActive, Journal!OneActive, Active, Journal!Active
  <2> QED BY <1>2, <2>1, <2>2, NextMoves DEF Journal!Next, Moved
<1>3. TypeOK /\ TypeOK' /\ DispatchInv /\ OneActive' /\ [Next]_vars
        => [Journal!Next]_(Journal!vars)
  BY <1>2
<1> QED BY <1>1, <1>3, TypeCorrect, DispatchAlways, OneActiveAlways, PTL
        DEF Spec, JournalSpec, Journal!Spec

-----------------------------------------------------------------------------
(***************************************************************************)
(* What the journal keeps of its own.  A log is as long as its status      *)
(* allows: an active run leaves room for the writes that still await it.   *)
(* Runs are found in open conversations only, and an open conversation     *)
(* has handed out one revision for each of its runs.                       *)
(***************************************************************************)
Longest(s) ==
    CASE s = "QUEUED"                 -> 1
      [] s = "RUNNING"                -> EventBudget
      [] s = "CANCELLATION_REQUESTED" -> EventBudget + 1
      [] OTHER                        -> EventBudget + 2

LogOK(r) ==
    IF status[r] = "ABSENT" THEN events[r] = << >>
    ELSE /\ Len(events[r]) \in 1..Longest(status[r])
         /\ events[r][Len(events[r])] = status[r]

Logged == \A r \in Requests : LogOK(r)

RunsInOpen == \A r \in Requests : status[r] # "ABSENT" => conv[ConvOf[r]] = "open"

Numbered(c) ==
    /\ conv[c] = "unborn" => revision[c] = 0
    /\ conv[c] = "open" =>
          /\ IsFiniteSet(RunsOf(c))
          /\ revision[c] = Cardinality(RunsOf(c))
          /\ {expected[r] : r \in RunsOf(c)} = 0..(revision[c] - 1)

JournalInv == Logged /\ RunsInOpen /\ \A c \in Conversations : Numbered(c)

(* The room a run needs for one more event with status s.                  *)
Room(r, s) ==
    \/ status[r] \in Active /\ s \in Terminal
    \/ status[r] = "QUEUED" /\ s = "RUNNING"
    \/ status[r] \in {"QUEUED", "RUNNING"} /\ s = "CANCELLATION_REQUESTED"
    \/ status[r] = "RUNNING" /\ s = "RUNNING" /\ Len(events[r]) < EventBudget

LEMMA RoomIsEnough ==
    ASSUME TypeOK, Logged, NEW r \in Requests, NEW s, Room(r, s)
    PROVE  /\ Len(events[r]) + 1 \in 1..Longest(s)
           /\ status[r] # "ABSENT" /\ s # "ABSENT"
<1>1. EventBudget \in Nat /\ EventBudget >= 2
  BY SharedAssumption
<1>2. events[r] \in Seq(Statuses) /\ status[r] # "ABSENT" /\ s # "ABSENT"
  BY DEF TypeOK, Room, Active, Terminal
<1>3. Len(events[r]) \in Nat /\ Len(events[r]) <= Longest(status[r])
  BY <1>1, <1>2 DEF Logged, LogOK, Longest
<1>4. Len(events[r]) + 1 <= Longest(s) /\ Longest(s) \in Nat
  <2>1. CASE status[r] \in Active /\ s \in Terminal
    BY <1>1, <1>3, <2>1 DEF Active, Terminal, Longest
  <2>2. CASE status[r] = "QUEUED" /\ s = "RUNNING"
    BY <1>1, <1>3, <2>2 DEF Longest
  <2>3. CASE status[r] \in {"QUEUED", "RUNNING"} /\ s = "CANCELLATION_REQUESTED"
    BY <1>1, <1>3, <2>3 DEF Longest
  <2>4. CASE status[r] = "RUNNING" /\ s = "RUNNING" /\ Len(events[r]) < EventBudget
    BY <1>1, <1>3, <2>4 DEF Longest
  <2> QED BY <2>1, <2>2, <2>3, <2>4 DEF Room
<1> QED BY <1>2, <1>3, <1>4

(* A transaction that gives each run it touches one event more, where      *)
(* there is room, and admits nothing.                                      *)
LEMMA WritesJournal ==
    ASSUME TypeOK, JournalInv, UNCHANGED <<conv, revision, expected>>,
           NEW touched \in SUBSET Requests, NEW new \in [Requests -> Statuses],
           Write(touched, new),
           \A r \in touched : Room(r, new[r]),
           \A r \in Requests \ touched : new[r] = status[r]
    PROVE  JournalInv'
<1>1. /\ status' = new
      /\ \A r \in touched : events'[r] = Append(events[r], new[r])
      /\ \A r \in Requests \ touched : events'[r] = events[r]
  BY DEF Write
<1>2. ASSUME NEW r \in touched PROVE LogOK(r)' /\ status[r] # "ABSENT" /\ status'[r] # "ABSENT"
  <2>1. events[r] \in Seq(Statuses) /\ events'[r] = Append(events[r], new[r]) /\ status'[r] = new[r]
    BY <1>1 DEF TypeOK
  <2>2. Len(events'[r]) = Len(events[r]) + 1 /\ events'[r][Len(events'[r])] = new[r]
    BY <2>1
  <2>3. /\ Len(events[r]) + 1 \in 1..Longest(new[r])
        /\ status[r] # "ABSENT" /\ new[r] # "ABSENT"
    BY RoomIsEnough DEF JournalInv
  <2> QED BY <2>1, <2>2, <2>3 DEF LogOK, Longest
<1>3. ASSUME NEW r \in Requests \ touched PROVE LogOK(r)' /\ status'[r] = status[r]
  BY <1>1 DEF JournalInv, Logged, LogOK, Longest
<1>4. Logged'
  BY <1>2, <1>3 DEF Logged
<1>5. \A r \in Requests : status'[r] = "ABSENT" <=> status[r] = "ABSENT"
  BY <1>2, <1>3
<1>6. RunsInOpen'
  BY <1>5 DEF JournalInv, RunsInOpen
<1>7. \A c \in Conversations : RunsOf(c)' = RunsOf(c)
  BY <1>5 DEF RunsOf
<1>8. ASSUME NEW c \in Conversations PROVE Numbered(c)'
  BY <1>7 DEF JournalInv, Numbered
<1> QED BY <1>4, <1>6, <1>8 DEF JournalInv

(* The same for a transaction that writes one run.                         *)
LEMMA WriteOneJournal ==
    ASSUME TypeOK, JournalInv, UNCHANGED <<conv, revision, expected>>,
           NEW r \in Requests, NEW s \in Statuses, WriteOne(r, s), Room(r, s)
    PROVE  JournalInv'
<1>1. /\ [status EXCEPT ![r] = s] \in [Requests -> Statuses]
      /\ [status EXCEPT ![r] = s][r] = s
      /\ \A q \in Requests \ {r} : [status EXCEPT ![r] = s][q] = status[q]
  BY DEF TypeOK
<1> DEFINE new == [status EXCEPT ![r] = s]
<1>2. Write({r}, new) /\ \A q \in {r} : Room(q, new[q])
  BY <1>1 DEF WriteOne
<1> HIDE DEF new
<1>3. {r} \in SUBSET Requests /\ new \in [Requests -> Statuses]
      /\ \A q \in Requests \ {r} : new[q] = status[q]
  BY <1>1 DEF new
<1> QED BY <1>2, <1>3, WritesJournal

(* A transaction that leaves the rows alone.                               *)
LEMMA QuietJournal ==
    ASSUME JournalInv, UNCHANGED <<conv, revision, status, events, expected>>
    PROVE  JournalInv'
<1>1. \A c \in Conversations : RunsOf(c)' = RunsOf(c)
  BY DEF RunsOf
<1>2. \A c \in Conversations : Numbered(c)'
  BY <1>1 DEF JournalInv, Numbered
<1> QED BY <1>2 DEF JournalInv, Logged, LogOK, Longest, RunsInOpen

LEMMA CreateJournal ==
    ASSUME TypeOK, JournalInv, NEW c \in Conversations, CreateConversation(c)
    PROVE  JournalInv'
<1>1. UNCHANGED <<revision, status, events, expected>>
  BY DEF CreateConversation
<1>2. /\ conv[c] = "unborn" /\ conv'[c] = "open"
      /\ \A d \in Conversations : d # c => conv'[d] = conv[d]
  BY DEF CreateConversation, TypeOK
<1>3. Logged' /\ RunsInOpen'
  BY <1>1, <1>2, SharedAssumption DEF JournalInv, Logged, LogOK, Longest, RunsInOpen
<1>4. \A d \in Conversations : RunsOf(d)' = RunsOf(d)
  BY <1>1 DEF RunsOf
<1>5. ASSUME NEW d \in Conversations, d # c PROVE Numbered(d)'
  <2>1. Numbered(d) /\ RunsOf(d)' = RunsOf(d) /\ conv'[d] = conv[d]
    BY <1>2, <1>4, <1>5 DEF JournalInv
  <2> QED BY <1>1, <2>1 DEF Numbered
<1>6. Numbered(c)'
  <2>1. RunsOf(c)' = {} /\ revision'[c] = 0
    BY <1>1, <1>2, <1>4 DEF JournalInv, RunsInOpen, RunsOf, Numbered
  <2>2. {expected'[r] : r \in {}} = {} /\ 0..(0 - 1) = {}
    OBVIOUS
  <2> QED BY <1>2, <2>1, <2>2, FS_EmptySet DEF Numbered
<1> QED BY <1>3, <1>5, <1>6 DEF JournalInv

LEMMA DeleteJournal ==
    ASSUME TypeOK, JournalInv, NEW c \in Conversations, Delete(c)
    PROVE  JournalInv'
<1>1. /\ UNCHANGED <<revision, expected>> /\ conv'[c] = "deleted"
      /\ \A d \in Conversations : d # c => conv'[d] = conv[d]
  BY DEF Delete, TypeOK
<1>2. \A r \in Requests :
         /\ ConvOf[r] = c => status'[r] = "ABSENT" /\ events'[r] = << >>
         /\ ConvOf[r] # c => status'[r] = status[r] /\ events'[r] = events[r]
  BY DEF Delete
<1>3. Logged'
  BY <1>2 DEF JournalInv, Logged, LogOK, Longest
<1>4. RunsInOpen'
  BY <1>1, <1>2, SharedAssumption DEF JournalInv, RunsInOpen
<1>5. ASSUME NEW d \in Conversations, d # c PROVE Numbered(d)'
  <2>1. RunsOf(d)' = RunsOf(d) /\ conv'[d] = conv[d] /\ Numbered(d)
    BY <1>1, <1>2, <1>5 DEF RunsOf, JournalInv
  <2> QED BY <1>1, <2>1 DEF Numbered
<1>6. Numbered(c)'
  BY <1>1 DEF Numbered
<1> QED BY <1>3, <1>4, <1>5, <1>6 DEF JournalInv

LEMMA EnqueueJournal ==
    ASSUME TypeOK, JournalInv, NEW r \in Requests, NEW e \in Nat, NEW g, Enqueue(r, e, g)
    PROVE  JournalInv'
<1> DEFINE c == ConvOf[r]
<1>0. c \in Conversations
  BY SharedAssumption
<1>1. /\ status'[r] = "QUEUED" /\ status[r] = "ABSENT" /\ events'[r] = Append(events[r], "QUEUED")
      /\ \A q \in Requests : q # r => status'[q] = status[q] /\ events'[q] = events[q]
  BY DEF Enqueue, WriteOne, Write, TypeOK
<1>2. /\ conv[c] = "open" /\ revision[c] = e /\ revision'[c] = e + 1 /\ expected'[r] = e
      /\ \A d \in Conversations : d # c => revision'[d] = revision[d]
      /\ \A q \in Requests : q # r => expected'[q] = expected[q]
      /\ UNCHANGED conv
  BY <1>0 DEF Enqueue, Admissible, TypeOK
<1>3. Logged'
  <2>1. events'[r] = <<"QUEUED">>
    <3>1. events[r] = << >>
      BY <1>1 DEF JournalInv, Logged, LogOK
    <3> QED BY <1>1, <3>1
  <2>2. LogOK(r)'
    BY <1>1, <2>1 DEF LogOK, Longest
  <2>3. \A q \in Requests : q # r => LogOK(q)'
    BY <1>1 DEF JournalInv, Logged, LogOK, Longest
  <2> QED BY <2>2, <2>3 DEF Logged
<1>4. RunsInOpen'
  BY <1>1, <1>2 DEF JournalInv, RunsInOpen
<1>5. Numbered(c)'
  <2>1. RunsOf(c)' = RunsOf(c) \cup {r} /\ r \notin RunsOf(c)
    BY <1>1 DEF RunsOf
  <2>2. /\ IsFiniteSet(RunsOf(c)) /\ Cardinality(RunsOf(c)) = e
        /\ {expected[q] : q \in RunsOf(c)} = 0..(e - 1)
    BY <1>0, <1>2 DEF JournalInv, Numbered
  <2>3. IsFiniteSet(RunsOf(c)') /\ Cardinality(RunsOf(c)') = e + 1
    BY <2>1, <2>2, FS_AddElement
  <2>4. \A q \in RunsOf(c) : expected'[q] = expected[q]
    BY <1>2, <2>1 DEF RunsOf
  <2>5. {expected'[q] : q \in RunsOf(c) \cup {r}} = {expected[q] : q \in RunsOf(c)} \cup {e}
    BY <1>2, <2>4
  <2>6. (0..(e - 1)) \cup {e} = 0..((e + 1) - 1)
    OBVIOUS
  <2>7. conv'[c] = "open" /\ revision'[c] = e + 1
    BY <1>2
  <2>8. {expected'[q] : q \in RunsOf(c)'} = 0..(revision'[c] - 1)
    BY <2>1, <2>2, <2>5, <2>6, <2>7
  <2> QED BY <2>3, <2>7, <2>8 DEF Numbered
<1>6. ASSUME NEW d \in Conversations, d # c PROVE Numbered(d)'
  <2>1. RunsOf(d)' = RunsOf(d) /\ Numbered(d) /\ conv'[d] = conv[d] /\ revision'[d] = revision[d]
    BY <1>1, <1>2, <1>6 DEF RunsOf, JournalInv
  <2>2. \A q \in RunsOf(d) : expected'[q] = expected[q]
    BY <1>2, <1>6 DEF RunsOf
  <2>3. {expected'[q] : q \in RunsOf(d)} = {expected[q] : q \in RunsOf(d)}
    BY <2>2
  <2> QED BY <2>1, <2>3 DEF Numbered
<1> QED BY <1>0, <1>3, <1>4, <1>5, <1>6 DEF JournalInv

(* A claim interrupts what expired and may take one queued run.            *)
LEMMA ClaimJournal ==
    ASSUME TypeOK, JournalInv, NEW w \in Workers, Claim(w)
    PROVE  JournalInv'
<1>1. UNCHANGED <<conv, revision, expected>>
  BY DEF Claim
<1>2. Swept \in [Requests -> Statuses] /\ Expired \in SUBSET Requests
  BY DEF Swept, TypeOK, Statuses, Terminal, Expired
<1>3. \A q \in Expired : Room(q, Swept[q])
  BY DEF Swept, Expired, Room, Executing, Active, Terminal
<1>4. \A q \in Requests \ Expired : Swept[q] = status[q]
  BY DEF Swept
<1>5. CASE ClaimNothing(w)
  BY <1>1, <1>2, <1>3, <1>4, <1>5, WritesJournal DEF ClaimNothing
<1>6. ASSUME NEW r \in Requests, ClaimRun(w, r) PROVE JournalInv'
  <2> DEFINE new == [Swept EXCEPT ![r] = "RUNNING"]
  <2>1. status[r] = "QUEUED" /\ r \notin Expired /\ Write(Expired \cup {r}, new)
    BY <1>6 DEF ClaimRun, Claimable, Queued
  <2>2. /\ new \in [Requests -> Statuses] /\ new[r] = "RUNNING"
        /\ \A q \in Requests : q # r => new[q] = Swept[q]
    BY <1>2 DEF Statuses, Active
  <2> HIDE DEF new
  <2>3. \A q \in Expired \cup {r} : Room(q, new[q])
    BY <1>2, <1>3, <2>1, <2>2 DEF Room
  <2>4. \A q \in Requests \ (Expired \cup {r}) : new[q] = status[q]
    BY <1>4, <2>2
  <2>5. Expired \cup {r} \in SUBSET Requests
    BY <1>2
  <2> QED BY <1>1, <2>1, <2>2, <2>3, <2>4, <2>5, WritesJournal
<1> QED BY <1>5, <1>6 DEF Claim

LEMMA FinishJournal ==
    ASSUME TypeOK, JournalInv, NEW w \in Workers, NEW r \in Requests, Finish(w, r)
    PROVE  JournalInv'
<1>1. UNCHANGED <<conv, revision, expected>>
  BY DEF Finish
<1>2. PICK s \in pending[<<w, r>>] : FinishWrite(w, r, s) \/ FinishRefused
  BY DEF Finish
<1>3. CASE FinishWrite(w, r, s)
  <2>1. Settled(r, s) \in Terminal
    BY <1>2, SettledIsTerminal DEF TypeOK, Jobs
  <2>2. Settled(r, s) \in Statuses /\ Room(r, Settled(r, s)) /\ WriteOne(r, Settled(r, s))
    BY <1>3, <2>1 DEF FinishWrite, Owned, Executing, Active, Statuses, Room
  <2> QED BY <1>1, <2>2, WriteOneJournal
<1>4. CASE FinishRefused
  BY <1>1, <1>4, QuietJournal DEF FinishRefused
<1> QED BY <1>2, <1>3, <1>4

(* JournalInv is inductive: one case for each transaction that writes.     *)
LEMMA NextJournal ==
    ASSUME TypeOK, JournalInv, [Next]_vars
    PROVE  JournalInv'
<1>1. ASSUME NEW c \in Conversations, CreateConversation(c) PROVE JournalInv'
  BY <1>1, CreateJournal
<1>2. ASSUME NEW c \in Conversations, Delete(c) PROVE JournalInv'
  BY <1>2, DeleteJournal
<1>3. ASSUME NEW r \in Requests, Cancel(r) PROVE JournalInv'
  <2>1. PICK s \in Statuses : WriteOne(r, s) /\ Room(r, s)
    BY <1>3 DEF Cancel, Statuses, Room, Active, Terminal
  <2> QED BY <1>3, <2>1, WriteOneJournal DEF Cancel
<1>4. ASSUME NEW r \in Requests, NEW e \in 0..MaximumRuns, NEW g \in 0..GrantTicks,
             Enqueue(r, e, g)
      PROVE  JournalInv'
  <2>1. e \in Nat
    BY SharedAssumption
  <2> QED BY <1>4, <2>1, EnqueueJournal
<1>5. ASSUME NEW w \in Workers, Claim(w) PROVE JournalInv'
  BY <1>5, ClaimJournal
<1>6. ASSUME NEW w \in Workers, NEW r \in Requests, Finish(w, r) PROVE JournalInv'
  BY <1>6, FinishJournal
<1>7. ASSUME NEW w \in Workers, NEW r \in Requests, Progress(w, r) PROVE JournalInv'
  <2>1. UNCHANGED <<conv, revision, expected>>
    BY <1>7 DEF Progress
  <2>2. CASE WriteOne(r, "RUNNING") /\ status[r] = "RUNNING" /\ Len(events[r]) < EventBudget
    BY <2>1, <2>2, WriteOneJournal DEF Room, Statuses, Active
  <2>3. CASE UNCHANGED <<status, events>>
    BY <2>1, <2>3, QuietJournal
  <2> QED BY <1>7, <2>2, <2>3 DEF Progress
<1>8. CASE UNCHANGED <<conv, revision, status, events, expected>>
  BY <1>8, QuietJournal
<1> DEFINE Quiet == UNCHANGED <<conv, revision, status, events, expected>>
<1>9. /\ \A c \in Conversations : ChangeAuthority(c) => Quiet
      /\ Tick => Quiet
      /\ \A w \in Workers : Lifecycle(w) => Quiet
      /\ UNCHANGED vars => Quiet
  BY DEF ChangeAuthority, Tick, Lifecycle, Close, Closed, Crash, Down, Restart, database, vars
<1>10. \A w \in Workers, r \in Requests :
          /\ Execution(w, r) => Quiet \/ Finish(w, r)
          /\ Operation(w, r) => Quiet \/ Progress(w, r)
          /\ Watch(w, r) => Quiet
  BY DEF Execution, Authorize, HeartbeatBeforeDispatch, Renew, Dispatch, AuthorizeRelease,
         Operation, OperationReturns, Watch, MonitorAuthorize, MonitorHeartbeat, database
<1> HIDE DEF Quiet
<1>11. Quiet => JournalInv'
  BY <1>8 DEF Quiet
<1> QED BY <1>1, <1>2, <1>3, <1>4, <1>5, <1>6, <1>7, <1>9, <1>10, <1>11 DEF Next, Api

(* The inductive invariant behind the next theorem.                        *)
THEOREM JournalAlways == Spec => []JournalInv
<1>1. Init => JournalInv
  BY DEF Init, JournalInv, Logged, LogOK, RunsInOpen, Numbered
<1>2. TypeOK /\ JournalInv /\ [Next]_vars => JournalInv'
  BY NextJournal
<1> QED BY <1>1, <1>2, TypeCorrect, PTL DEF Spec

(* What operations/database.validate asks of a restored journal holds of   *)
(* every journal the service can write: revisions and runs are numbered    *)
(* alike, no log ends in another status than its run, and none is longer   *)
(* than the progress budget and the two closing events.                    *)
THEOREM JournalValidAlways == Spec => []JournalValid
<1>1. TypeOK /\ JournalInv => JournalValid
  <2> SUFFICES ASSUME TypeOK, JournalInv PROVE JournalValid
    OBVIOUS
  <2>1. \A c \in Conversations : conv[c] = "open" =>
          /\ revision[c] = Cardinality(RunsOf(c))
          /\ {expected[r] : r \in RunsOf(c)} = 0..(revision[c] - 1)
    BY DEF JournalInv, Numbered
  <2>2. \A r \in Requests : Longest(status[r]) \in Nat /\ Longest(status[r]) <= EventBudget + 2
    BY SharedAssumption DEF Longest
  <2>3. \A r \in Requests :
          IF status[r] = "ABSENT" THEN events[r] = << >>
          ELSE /\ Len(events[r]) \in 1..(EventBudget + 2)
               /\ events[r][Len(events[r])] = status[r]
    BY <2>2, SharedAssumption DEF JournalInv, Logged, LogOK
  <2> QED BY <2>1, <2>3 DEF JournalValid
<1> QED BY <1>1, JournalAlways, TypeCorrect, PTL

=============================================================================
