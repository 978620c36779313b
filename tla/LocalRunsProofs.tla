--------------------------- MODULE LocalRunsProofs ---------------------------
(* Theorems about LocalRuns and the retention of its journal, for every    *)
(* number of conversations, requests, stops and faults.                    *)
EXTENDS RetainedRuns, FiniteSetTheorems, TLAPS

(***************************************************************************)
(* How the process and the journal go together.  A task has an active run  *)
(* in the status of its stage; while requests are served, only a task that *)
(* started is signalled, and outside the query endpoint only once its      *)
(* cancellation is recorded; a confirming handler serves a run without a   *)
(* task, and so does a failed transaction, while the process lasts; a      *)
(* process that is down or recovering has no task.                         *)
(***************************************************************************)
Supervised ==
    /\ \A r \in Requests : task[r] = "created" =>
          status[r] \in {"QUEUED", "CANCELLATION_REQUESTED"}
    /\ \A r \in Requests : task[r] \in Started =>
          status[r] \in {"RUNNING", "CANCELLATION_REQUESTED"}
    /\ \A r \in cancelled : task[r] # "none"
    /\ mode = "up" => \A r \in cancelled :
          /\ task[r] \in Started
          /\ QueryEndpoint \/ status[r] = "CANCELLATION_REQUESTED"
    /\ \A r \in confirming :
          /\ mode = "up"
          /\ status[r] = "CANCELLATION_REQUESTED" /\ task[r] = "none"
    /\ \A r \in stranded :
          /\ mode \in {"up", "closing"} /\ status[r] \in Active
          /\ task[r] = "none" /\ r \notin confirming
    /\ mode \in {"down", "recovering"} => \A r \in Requests : task[r] = "none"
    /\ mode = "up" => \A r \in Requests :
          status[r] \in Active /\ task[r] = "none" => r \in confirming \cup stranded

IInv == TypeOK /\ Supervised

-----------------------------------------------------------------------------
(* What the steps do to the journal: a run moves along an edge, a          *)
(* conversation opens, conversations are forgotten, a run is admitted, or  *)
(* nothing changes.                                                        *)
Direct == IF QueryEndpoint THEN {"RUNNING"} ELSE {}

Moves(r, s) ==
    /\ Write(r, s)
    /\ answered' = IF s = "COMPLETED" THEN answered \cup {r} ELSE answered
    /\ UNCHANGED <<conv, revision, expected>>
    /\ status[r] \in Active
    /\ \/ s = "INTERRUPTED"
       \/ s = "RUNNING" /\ status[r] = "QUEUED"
       \/ s = "RUNNING" /\ status[r] = "RUNNING" /\ Len(events[r]) < EventBudget
       \/ s = "CANCELLATION_REQUESTED" /\ status[r] # s
       \/ s = "CANCELLED" /\ status[r] \in {"CANCELLATION_REQUESTED"} \cup Direct
       \/ s \in {"COMPLETED", "FAILED"} /\ status[r] = "RUNNING"
       \/ s = "FAILED" /\ status[r] = "QUEUED" /\ MaxFaults > 0 /\ faults' > faults

Opens(c) ==
    /\ conv[c] = "unborn"
    /\ conv' = [conv EXCEPT ![c] = "open"]
    /\ UNCHANGED <<revision, status, events, answered, expected>>

Forgets(gone) ==
    /\ \A c \in gone : conv[c] = "open" /\ ActiveIn(c) = {}
    /\ conv' = [c \in Conversations |-> IF c \in gone THEN "deleted" ELSE conv[c]]
    /\ status' = [r \in Requests |-> IF ConvOf[r] \in gone THEN "ABSENT" ELSE status[r]]
    /\ events' = [r \in Requests |-> IF ConvOf[r] \in gone THEN << >> ELSE events[r]]
    /\ answered' = {r \in answered : ConvOf[r] \notin gone}
    /\ UNCHANGED <<revision, expected>>

Admits(r, e) ==
    LET c == ConvOf[r] IN
    /\ conv[c] = "open" /\ status[r] = "ABSENT"
    /\ revision[c] = e /\ ActiveIn(c) = {}
    /\ revision' = [revision EXCEPT ![c] = @ + 1]
    /\ expected' = [expected EXCEPT ![r] = e]
    /\ Write(r, "QUEUED")
    /\ UNCHANGED <<conv, answered>>

JournalStep ==
    \/ UNCHANGED database
    \/ \E r \in Requests, s \in Statuses : Moves(r, s)
    \/ \E c \in Conversations : Opens(c)
    \/ \E gone \in SUBSET Conversations : Forgets(gone)
    \/ \E r \in Requests, e \in Nat : Admits(r, e)

(* finish, asked for an outcome of an active run, moves it along an edge.  *)
LEMMA FinishMoves ==
    ASSUME TypeOK, NEW r \in Requests, NEW s \in Terminal, Finish(r, s),
           UNCHANGED <<conv, revision, expected>>,
           status[r] \in Active,
           \/ s = "INTERRUPTED"
           \/ status[r] = "CANCELLATION_REQUESTED"
           \/ s \in {"COMPLETED", "FAILED"} /\ status[r] = "RUNNING"
           \/ s = "CANCELLED" /\ status[r] \in Direct
           \/ s = "FAILED" /\ status[r] = "QUEUED" /\ MaxFaults > 0 /\ faults' > faults
    PROVE  JournalStep
<1>1. Outcome(r, s) \in Statuses
  BY DEF Outcome, Statuses, Terminal
<1>2. Moves(r, Outcome(r, s))
  <2>1. status[r] \notin Terminal
    BY DEF Active, Terminal
  <2> QED BY <2>1 DEF Finish, Moves, Outcome, Terminal
<1> QED BY <1>1, <1>2 DEF JournalStep

(* So does the end of a task, which may also leave the journal alone.  The *)
(* outcomes a task asks for, after n failed transactions of its last step: *)
Asked(r, s, n) ==
    \/ s = "INTERRUPTED"
    \/ status[r] = "CANCELLATION_REQUESTED"
    \/ s \in {"COMPLETED", "FAILED"} /\ status[r] = "RUNNING"
    \/ s = "CANCELLED" /\ status[r] \in Direct
    \/ s = "FAILED" /\ status[r] = "QUEUED" /\ n > 0

LEMMA RecordedMoves ==
    ASSUME TypeOK, NEW r \in Requests, NEW s \in Terminal, NEW n \in Nat,
           Recorded(r, s, n), status[r] \in Active, Asked(r, s, n)
    PROVE  JournalStep
<1>1. Finish(r, s) /\ UNCHANGED <<conv, revision, expected>>
  BY DEF Recorded
<1>2. n > 0 => MaxFaults > 0 /\ faults' > faults
  BY LocalAssumption DEF Recorded, Failing, TypeOK
<1> QED BY <1>1, <1>2, FinishMoves DEF Asked

LEMMA HandleMoves ==
    ASSUME TypeOK, NEW r \in Requests, NEW s \in Terminal, NEW n \in Nat,
           Handle(r, s, n), status[r] \in Active, Asked(r, s, n)
    PROVE  JournalStep
<1>1. CASE Recorded(r, s, n)
  BY <1>1, RecordedMoves
<1>2. CASE Lost(r, n + 1)
  BY <1>2 DEF Lost, JournalStep
<1> QED BY <1>1, <1>2 DEF Handle

LEMMA ReportMoves ==
    ASSUME TypeOK, NEW r \in Requests, NEW s \in {"COMPLETED", "CANCELLED"},
           Report(r, s), status[r] \in {"RUNNING", "CANCELLATION_REQUESTED"},
           status[r] = "RUNNING" => s = "COMPLETED"
    PROVE  JournalStep
<1>1. /\ s \in Terminal /\ "FAILED" \in Terminal /\ status[r] \in Active
      /\ Asked(r, s, 0) /\ Asked(r, "FAILED", 1) /\ 0 \in Nat /\ 1 \in Nat
  BY DEF Terminal, Active, Asked
<1>2. CASE Recorded(r, s, 0)
  BY <1>1, <1>2, RecordedMoves
<1>3. CASE Handle(r, "FAILED", 1)
  BY <1>1, <1>3, HandleMoves
<1> QED BY <1>2, <1>3 DEF Report

(* Every step of the application is one of these.                          *)
LEMMA UserMoves ==
    ASSUME IInv, User
    PROVE  JournalStep
<1>1. ASSUME NEW c \in Conversations, CreateConversation(c) PROVE JournalStep
  <2>1. Opens(c)
    BY <1>1 DEF CreateConversation, Opens
  <2> QED BY <2>1 DEF JournalStep
<1>2. ASSUME NEW c \in Conversations, Delete(c) PROVE JournalStep
  <2>1. Forgets({c})
    <3>1. /\ conv \in [Conversations -> {"unborn", "open", "deleted"}]
          /\ status \in [Requests -> Statuses] /\ ConvOf \in [Requests -> Conversations]
      BY LocalAssumption DEF IInv, TypeOK
    <3>2. conv' = [d \in Conversations |-> IF d \in {c} THEN "deleted" ELSE conv[d]]
      BY <1>2, <3>1 DEF Delete
    <3>3. status' = [r \in Requests |-> IF ConvOf[r] \in {c} THEN "ABSENT" ELSE status[r]]
      BY <1>2 DEF Delete
    <3>4. events' = [r \in Requests |-> IF ConvOf[r] \in {c} THEN << >> ELSE events[r]]
      BY <1>2 DEF Delete
    <3>5. answered' = {r \in answered : ConvOf[r] \notin {c}}
      BY <1>2 DEF Delete
    <3>6. \A d \in {c} : conv[d] = "open" /\ ActiveIn(d) = {}
      BY <1>2 DEF Delete
    <3> QED BY <1>2, <3>2, <3>3, <3>4, <3>5, <3>6 DEF Delete, Forgets
  <2>2. {c} \in SUBSET Conversations
    OBVIOUS
  <2> QED BY <2>1, <2>2 DEF JournalStep
<1>3. ASSUME NEW r \in Requests, NEW e \in 0..MaximumRuns, Submit(r, e) PROVE JournalStep
  <2>1. Admits(r, e)
    BY <1>3 DEF Submit, Admissible, Admits
  <2>2. e \in Nat
    BY LocalAssumption
  <2> QED BY <2>1, <2>2 DEF JournalStep
<1>4. ASSUME NEW r \in Requests, Cancel(r) PROVE JournalStep
  <2>1. CASE status[r] = "CANCELLATION_REQUESTED"
    BY <1>4, <2>1 DEF Cancel, Keep, JournalStep, database
  <2>2. CASE status[r] # "CANCELLATION_REQUESTED"
    <3>1. Moves(r, "CANCELLATION_REQUESTED")
      BY <1>4, <2>2 DEF Cancel, Moves
    <3>2. "CANCELLATION_REQUESTED" \in Statuses
      BY DEF Statuses, Active
    <3> QED BY <3>1, <3>2 DEF JournalStep
  <2> QED BY <2>1, <2>2
<1>5. ASSUME NEW r \in Requests, CancelQuery(r) PROVE JournalStep
  BY <1>5 DEF CancelQuery, JournalStep
<1> QED BY <1>1, <1>2, <1>3, <1>4, <1>5 DEF User

LEMMA TaskMoves ==
    ASSUME IInv, NEW r \in Requests, Execute(r) \/ Operation(r)
    PROVE  JournalStep
<1> USE DEF IInv
<1>t. {"COMPLETED", "FAILED", "CANCELLED", "INTERRUPTED"} \subseteq Terminal
  BY DEF Terminal
<1>n. 0 \in Nat /\ 1 \in Nat
  OBVIOUS
<1>a. ASSUME status[r] \in {"RUNNING", "CANCELLATION_REQUESTED"}, NEW n \in Nat,
             Handle(r, "FAILED", n)
      PROVE  JournalStep
  BY <1>a, <1>t, HandleMoves DEF Asked, Active
<1>1. CASE Start(r)
  <2>0. status[r] \in {"QUEUED", "CANCELLATION_REQUESTED"}
    BY <1>1 DEF Start, At, Supervised
  <2>1. CASE status[r] = "QUEUED" /\ Write(r, "RUNNING") /\ UNCHANGED answered
    <3>1. UNCHANGED <<conv, revision, answered, expected>>
      BY <1>1, <2>1 DEF Start, Report, Handle, Recorded, Lost, database
    <3>2. Moves(r, "RUNNING") /\ "RUNNING" \in Statuses
      BY <2>1, <3>1 DEF Moves, Active, Statuses
    <3> QED BY <3>2 DEF JournalStep
  <2>2. CASE status[r] # "QUEUED" /\ Report(r, "CANCELLED")
    BY <2>0, <2>2, ReportMoves
  <2>3. CASE Handle(r, "FAILED", 1)
    BY <2>0, <2>3, <1>t, <1>n, HandleMoves DEF Asked, Active
  <2> QED BY <1>1, <2>1, <2>2, <2>3 DEF Start
<1>2. CASE AuthorizeDispatch(r)
  <2>1. status[r] \in {"RUNNING", "CANCELLATION_REQUESTED"}
    BY <1>2 DEF AuthorizeDispatch, At, Supervised, Started
  <2>2. CASE Step(r, "operating")
    BY <2>2 DEF Step, JournalStep
  <2> QED BY <1>2, <1>a, <1>n, <2>1, <2>2 DEF AuthorizeDispatch
<1>3. CASE AuthorizeRelease(r)
  <2>1. status[r] \in {"RUNNING", "CANCELLATION_REQUESTED"}
    BY <1>3 DEF AuthorizeRelease, At, Supervised, Started
  <2>2. CASE Report(r, "COMPLETED")
    BY <2>1, <2>2, ReportMoves
  <2> QED BY <1>3, <1>a, <1>n, <2>1, <2>2 DEF AuthorizeRelease
<1>4. CASE Cancelled(r)
  <2> DEFINE out == IF mode = "closing" THEN "INTERRUPTED" ELSE "CANCELLED"
  <2>1. CASE task[r] \in Started /\ Handle(r, out, 0)
    <3>1. status[r] \in {"RUNNING", "CANCELLATION_REQUESTED"} /\ status[r] \in Active
      BY <2>1 DEF Supervised, Active
    <3>2. mode # "closing" => mode = "up" /\ r \in cancelled
      BY <1>4 DEF Cancelled
    <3>3. mode # "closing" => status[r] = "CANCELLATION_REQUESTED" \/ status[r] \in Direct
      BY <3>1, <3>2 DEF Supervised, Direct
    <3>4. out \in Terminal /\ Asked(r, out, 0)
      BY <3>1, <3>3, <1>t DEF Asked
    <3> QED BY <2>1, <3>1, <3>4, <1>n, HandleMoves
  <2>2. CASE UNCHANGED database
    BY <2>2 DEF JournalStep
  <2> QED BY <1>4, <2>1, <2>2 DEF Cancelled
<1>5. CASE ConfirmCancel(r)
  <2>1. status[r] = "CANCELLATION_REQUESTED" /\ UNCHANGED <<conv, revision, expected>>
    BY <1>5 DEF ConfirmCancel, Supervised
  <2>2. CASE Finish(r, "CANCELLED")
    BY <2>1, <2>2, <1>t, FinishMoves DEF Active
  <2>3. CASE Keep
    BY <2>1, <2>3 DEF Keep, JournalStep, database
  <2> QED BY <1>5, <2>2, <2>3 DEF ConfirmCancel
<1>6. CASE Progress(r)
  <2>1. status[r] \in {"RUNNING", "CANCELLATION_REQUESTED"}
    BY <1>6 DEF Progress, Supervised, Started
  <2>2. CASE /\ status[r] = "RUNNING" /\ Len(events[r]) < EventBudget
             /\ Write(r, "RUNNING")
             /\ UNCHANGED <<conv, revision, answered, expected>>
    <3>1. Moves(r, "RUNNING") /\ "RUNNING" \in Statuses
      BY <2>2 DEF Moves, Active, Statuses
    <3> QED BY <3>1 DEF JournalStep
  <2> QED BY <1>6, <1>a, <1>n, <2>1, <2>2 DEF Progress
<1>7. CASE OperationReturns(r)
  <2>1. status[r] \in {"RUNNING", "CANCELLATION_REQUESTED"}
    BY <1>7 DEF OperationReturns, At, Supervised, Started
  <2>2. CASE Step(r, "releasing")
    BY <2>2 DEF Step, JournalStep
  <2> QED BY <1>7, <1>a, <1>n, <2>1, <2>2 DEF OperationReturns
<1> QED BY <1>1, <1>2, <1>3, <1>4, <1>5, <1>6, <1>7 DEF Execute, Operation

LEMMA NextMoves ==
    ASSUME IInv, [Next]_vars
    PROVE  JournalStep
<1>1. CASE User
  BY <1>1, UserMoves
<1>2. ASSUME NEW r \in Requests, Execute(r) \/ Operation(r) PROVE JournalStep
  BY <1>2, TaskMoves
<1>3. CASE Close \/ Crash \/ Startup \/ RecoverFails \/ Recovered \/ UNCHANGED vars
  BY <1>3 DEF Close, Crash, Startup, RecoverFails, Recovered, vars, JournalStep
<1>4. ASSUME NEW r \in Requests, Recover(r) PROVE JournalStep
  <2>1. status[r] \in Active /\ Finish(r, "INTERRUPTED")
    BY <1>4 DEF Recover, Unsettled
  <2>2. UNCHANGED <<conv, revision, expected>> /\ "INTERRUPTED" \in Terminal
    BY <1>4 DEF Recover, Terminal
  <2> QED BY <2>1, <2>2, FinishMoves DEF IInv
<1> QED BY <1>1, <1>2, <1>3, <1>4 DEF Next, Restart
-----------------------------------------------------------------------------
(* Types                                                                   *)

JournalType ==
    /\ conv \in [Conversations -> {"unborn", "open", "deleted"}]
    /\ revision \in [Conversations -> Nat]
    /\ status \in [Requests -> Statuses]
    /\ events \in [Requests -> Seq(Statuses)]
    /\ answered \in SUBSET Requests
    /\ expected \in [Requests -> Nat]

ProcessType ==
    /\ mode \in {"recovering", "up", "closing", "down"}
    /\ task \in [Requests -> Stages]
    /\ cancelled \in SUBSET Requests
    /\ confirming \in SUBSET Requests
    /\ stops \in Nat /\ faults \in Nat
    /\ stranded \in SUBSET Requests

LEMMA TypeParts == TypeOK <=> JournalType /\ ProcessType
BY DEF TypeOK, JournalType, ProcessType

LEMMA TypePartsNext == TypeOK' <=> JournalType' /\ ProcessType'
BY DEF TypeOK, JournalType, ProcessType

LEMMA InitType == Init => TypeOK
BY DEF Init, TypeOK, Statuses, Stages

LEMMA WriteType ==
    ASSUME JournalType, NEW r \in Requests, NEW s \in Statuses, Write(r, s)
    PROVE  /\ status' \in [Requests -> Statuses]
           /\ events' \in [Requests -> Seq(Statuses)]
<1>1. events[r] \in Seq(Statuses)
  BY DEF JournalType
<1>2. Append(events[r], s) \in Seq(Statuses)
  BY <1>1
<1>3. status' = [status EXCEPT ![r] = s] /\ events' = [events EXCEPT ![r] = Append(events[r], s)]
  BY DEF Write
<1> QED BY <1>2, <1>3 DEF JournalType

LEMMA ForgetsType ==
    ASSUME JournalType, NEW gone \in SUBSET Conversations, Forgets(gone)
    PROVE  JournalType'
<1>1. conv' \in [Conversations -> {"unborn", "open", "deleted"}]
  BY DEF Forgets, JournalType
<1>2. status' \in [Requests -> Statuses]
  BY DEF Forgets, JournalType, Statuses
<1>3. \A r \in Requests : events[r] \in Seq(Statuses) /\ << >> \in Seq(Statuses)
  BY DEF JournalType
<1>4. events' = [r \in Requests |-> IF ConvOf[r] \in gone THEN << >> ELSE events[r]]
  BY DEF Forgets
<1>5. events' \in [Requests -> Seq(Statuses)]
  BY <1>3, <1>4
<1>6. answered' \in SUBSET Requests
  BY DEF Forgets, JournalType
<1> QED BY <1>1, <1>2, <1>5, <1>6 DEF Forgets, JournalType

LEMMA JournalTyped ==
    ASSUME JournalType, JournalStep
    PROVE  JournalType'
<1>1. CASE UNCHANGED database
  BY <1>1 DEF database, JournalType
<1>2. ASSUME NEW r \in Requests, NEW s \in Statuses, Moves(r, s) PROVE JournalType'
  <2>1. Write(r, s) /\ answered' \in SUBSET Requests /\ UNCHANGED <<conv, revision, expected>>
    BY <1>2 DEF Moves, JournalType
  <2> QED BY <2>1, WriteType DEF JournalType
<1>3. ASSUME NEW c \in Conversations, Opens(c) PROVE JournalType'
  BY <1>3 DEF Opens, JournalType
<1>4. ASSUME NEW gone \in SUBSET Conversations, Forgets(gone) PROVE JournalType'
  BY <1>4, ForgetsType
<1>5. ASSUME NEW r \in Requests, NEW e \in Nat, Admits(r, e) PROVE JournalType'
  <2>1. Write(r, "QUEUED") /\ UNCHANGED <<conv, answered>> /\ "QUEUED" \in Statuses
    BY <1>5 DEF Admits, Statuses, Active
  <2>2. ConvOf[r] \in Conversations
    BY LocalAssumption
  <2>3. revision' \in [Conversations -> Nat] /\ expected' \in [Requests -> Nat]
    BY <1>5, <2>2 DEF Admits, JournalType
  <2> QED BY <2>1, <2>3, WriteType DEF JournalType
<1> QED BY <1>1, <1>2, <1>3, <1>4, <1>5 DEF JournalStep

LEMMA HandleProcess ==
    ASSUME ProcessType, NEW r \in Requests, NEW s, NEW n \in Nat,
           Recorded(r, s, n) \/ Handle(r, s, n)
    PROVE  ProcessType'
<1>1. /\ task' = [task EXCEPT ![r] = "none"] /\ cancelled' = cancelled \ {r}
      /\ UNCHANGED <<mode, confirming, stops>>
  BY DEF Handle, Recorded, Lost, Gone, Goto
<1>2. faults' \in Nat
  BY DEF Handle, Recorded, Lost, Failing, ProcessType
<1>3. stranded' \in SUBSET Requests
  BY DEF Handle, Recorded, Lost, ProcessType
<1> QED BY <1>1, <1>2, <1>3 DEF ProcessType, Stages

LEMMA ProcessTyped ==
    ASSUME ProcessType, [Next]_vars
    PROVE  ProcessType'
<1>n. 0 \in Nat /\ 1 \in Nat
  OBVIOUS
<1>r. ASSUME NEW r \in Requests, NEW s, Report(r, s) PROVE ProcessType'
  BY <1>n, <1>r, HandleProcess DEF Report
<1>1. CASE User
  <2>1. ASSUME NEW c \in Conversations, CreateConversation(c) \/ Delete(c) PROVE ProcessType'
    BY <2>1 DEF CreateConversation, Delete, process, tally, ProcessType
  <2>2. ASSUME NEW r \in Requests, NEW e \in 0..MaximumRuns, Submit(r, e) PROVE ProcessType'
    <3>1. /\ task' = task \/ task' = [task EXCEPT ![r] = "created"]
          /\ faults' \in Nat /\ stranded' \in SUBSET Requests
          /\ UNCHANGED <<mode, cancelled, confirming, stops>>
      BY <2>2 DEF Submit, Fault, Failing, ProcessType
    <3> QED BY <3>1 DEF ProcessType, Stages
  <2>3. ASSUME NEW r \in Requests, Cancel(r) PROVE ProcessType'
    BY <2>3 DEF Cancel, ProcessType
  <2>4. ASSUME NEW r \in Requests, CancelQuery(r) PROVE ProcessType'
    BY <2>4 DEF CancelQuery, tally, ProcessType
  <2> QED BY <1>1, <2>1, <2>2, <2>3, <2>4 DEF User
<1>2. ASSUME NEW r \in Requests, Start(r) PROVE ProcessType'
  <2>1. CASE Goto(r, "authorizing") /\ UNCHANGED <<mode, cancelled, confirming, tally>>
    BY <2>1 DEF Goto, tally, ProcessType, Stages, Started
  <2> QED BY <1>2, <1>n, <1>r, <2>1, HandleProcess DEF Start
<1>3. ASSUME NEW r \in Requests, NEW g \in Stages, Step(r, g) PROVE ProcessType'
  BY <1>3 DEF Step, Goto, tally, ProcessType
<1>4. ASSUME NEW r \in Requests, AuthorizeDispatch(r) \/ AuthorizeRelease(r) \/ OperationReturns(r)
      PROVE  ProcessType'
  <2>1. "operating" \in Stages /\ "releasing" \in Stages
    BY DEF Stages, Started
  <2> QED BY <1>3, <1>4, <1>n, <1>r, <2>1, HandleProcess
          DEF AuthorizeDispatch, AuthorizeRelease, OperationReturns
<1>5. ASSUME NEW r \in Requests, Cancelled(r) PROVE ProcessType'
  <2>1. CASE Gone(r) /\ UNCHANGED <<mode, confirming, tally>>
    BY <2>1 DEF Gone, Goto, tally, ProcessType, Stages
  <2> QED BY <1>5, <1>n, <2>1, HandleProcess DEF Cancelled
<1>6. ASSUME NEW r \in Requests, ConfirmCancel(r) PROVE ProcessType'
  <2>1. faults' \in Nat /\ stranded' \in SUBSET Requests
    BY <1>6 DEF ConfirmCancel, Fault, Failing, ProcessType
  <2> QED BY <1>6, <2>1 DEF ConfirmCancel, ProcessType
<1>7. ASSUME NEW r \in Requests, Progress(r) PROVE ProcessType'
  <2>1. CASE UNCHANGED <<process, tally>>
    BY <2>1 DEF process, tally, ProcessType
  <2> QED BY <1>7, <1>n, <2>1, HandleProcess DEF Progress
<1>8. CASE Close \/ Crash
  BY <1>8 DEF Close, Crash, Tasks, ProcessType, Stages
<1>9. CASE Startup \/ Recovered \/ UNCHANGED vars
  BY <1>9 DEF Startup, Recovered, vars, process, tally, ProcessType
<1>10. ASSUME NEW r \in Requests, Recover(r) PROVE ProcessType'
  BY <1>10 DEF Recover, process, ProcessType
<1>11. CASE RecoverFails
  BY <1>11 DEF RecoverFails, Fault, Failing, ProcessType
<1> QED BY <1>1, <1>2, <1>4, <1>5, <1>6, <1>7, <1>8, <1>9, <1>10, <1>11
        DEF Next, Execute, Operation, Restart
-----------------------------------------------------------------------------
(* The process and the journal stay together                               *)

LEMMA WriteElsewhere ==
    ASSUME TypeOK, NEW r \in Requests, NEW s, Write(r, s)
    PROVE  status'[r] = s /\ \A q \in Requests : q # r => status'[q] = status[q]
BY DEF Write, TypeOK

LEMMA FinishElsewhere ==
    ASSUME TypeOK, NEW r \in Requests, NEW s \in Terminal, Finish(r, s) \/ Keep
    PROVE  /\ \A q \in Requests : q # r => status'[q] = status[q]
           /\ Finish(r, s) => status'[r] \in Terminal
<1>1. CASE Keep
  <2>1. Finish(r, s) => status[r] \in Terminal
    <3>1. SUFFICES ASSUME Finish(r, s), status[r] \notin Terminal PROVE FALSE
      OBVIOUS
    <3>2. Write(r, Outcome(r, s)) /\ Outcome(r, s) \in Terminal
      BY <3>1 DEF Finish, Outcome, Terminal
    <3>3. status'[r] \in Terminal
      BY <3>2, WriteElsewhere
    <3> QED BY <1>1, <3>1, <3>3 DEF Keep
  <2> QED BY <1>1, <2>1 DEF Keep
<1>2. CASE Finish(r, s) /\ status[r] \notin Terminal
  <2>1. Write(r, Outcome(r, s)) /\ Outcome(r, s) \in Terminal
    BY <1>2 DEF Finish, Outcome, Terminal
  <2> QED BY <2>1, WriteElsewhere
<1>3. CASE Finish(r, s) /\ status[r] \in Terminal
  BY <1>3 DEF Finish, Keep
<1> QED BY <1>1, <1>2, <1>3

(* A task that ends leaves its run settled, or stranded by a transaction   *)
(* that failed, or the process no longer serves.                           *)
Retired(r) ==
    /\ task[r] # "none" /\ mode \in {"up", "closing"}
    /\ task' = [task EXCEPT ![r] = "none"]
    /\ cancelled' = cancelled \ {r}
    /\ UNCHANGED <<mode, confirming>>
    /\ \A q \in Requests : q # r => status'[q] = status[q]
    /\ \/ status'[r] \notin Active /\ UNCHANGED stranded
       \/ status'[r] = status[r] /\ stranded' = stranded \cup {r}
       \/ mode # "up" /\ UNCHANGED stranded

LEMMA RetiredSupervised ==
    ASSUME IInv, NEW r \in Requests, Retired(r)
    PROVE  Supervised'
<1> USE DEF IInv
<1>1. /\ task'[r] = "none" /\ \A q \in Requests : q # r => task'[q] = task[q]
  BY DEF Retired, TypeOK
<1>2. r \notin confirming /\ r \notin stranded
  BY DEF Supervised, Retired
<1>3. "none" \notin Started /\ status[r] \in Active
  BY DEF Started, Retired, Supervised, TypeOK, Stages, Active
<1>4. \A q \in stranded' : q \in stranded \/ (q = r /\ status'[r] = status[r])
  BY DEF Retired
<1>5. \A q \in stranded' : /\ mode' \in {"up", "closing"} /\ status'[q] \in Active
                          /\ task'[q] = "none" /\ q \notin confirming'
  BY <1>1, <1>2, <1>3, <1>4 DEF Retired, Supervised, TypeOK
<1>6. mode' = "up" => \A q \in Requests :
         status'[q] \in Active /\ task'[q] = "none" => q \in confirming' \cup stranded'
  BY <1>1 DEF Retired, Supervised
<1> QED BY <1>1, <1>2, <1>3, <1>5, <1>6 DEF Supervised, Retired, TypeOK

LEMMA HandleSupervised ==
    ASSUME IInv, NEW r \in Requests, NEW s \in Terminal, NEW n \in Nat,
           Recorded(r, s, n) \/ Handle(r, s, n),
           task[r] # "none", mode \in {"up", "closing"}
    PROVE  Supervised'
<1>1. /\ task' = [task EXCEPT ![r] = "none"] /\ cancelled' = cancelled \ {r}
      /\ UNCHANGED <<mode, confirming>>
  BY DEF Handle, Recorded, Lost, Gone, Goto
<1>2. CASE Recorded(r, s, n)
  <2>1. Finish(r, s) /\ UNCHANGED stranded
    BY <1>2 DEF Recorded
  <2>2. Retired(r)
    BY <1>1, <2>1, FinishElsewhere DEF Retired, IInv, Active, Terminal
  <2> QED BY <2>2, RetiredSupervised
<1>3. CASE Lost(r, n + 1)
  <2>1. UNCHANGED status /\ stranded' = stranded \cup {r}
    BY <1>3 DEF Lost, database
  <2>2. Retired(r)
    BY <1>1, <2>1 DEF Retired
  <2> QED BY <2>2, RetiredSupervised
<1> QED BY <1>2, <1>3 DEF Handle

(* A task that moves on keeps its run, and one that starts was queued.     *)
LEMMA AdvanceSupervised ==
    ASSUME IInv, NEW r \in Requests, NEW g \in Started,
           task' = [task EXCEPT ![r] = g],
           UNCHANGED <<mode, cancelled, confirming, stranded>>,
           task[r] # "none",
           \A q \in Requests : q # r => status'[q] = status[q],
           status'[r] \in {"RUNNING", "CANCELLATION_REQUESTED"},
           r \notin cancelled
    PROVE  Supervised'
<1> USE DEF IInv
<1>1. task'[r] = g /\ \A q \in Requests : q # r => task'[q] = task[q]
  BY DEF TypeOK
<1>2. r \notin confirming /\ r \notin stranded /\ g # "none" /\ g # "created"
  BY DEF Supervised, Started
<1> QED BY <1>1, <1>2 DEF Supervised, TypeOK

LEMMA UserSupervised ==
    ASSUME IInv, User
    PROVE  Supervised'
<1> USE DEF IInv
<1>1. ASSUME NEW c \in Conversations, CreateConversation(c) PROVE Supervised'
  BY <1>1 DEF CreateConversation, process, tally, Supervised
<1>2. ASSUME NEW c \in Conversations, Delete(c) PROVE Supervised'
  <2>1. \A r \in Requests : ConvOf[r] = c => status[r] \notin Active
    BY <1>2 DEF Delete, ActiveIn, RunsOf, Active
  <2>2. \A r \in Requests : task[r] # "none" => status[r] \in Active
    BY DEF Supervised, Active, Started, TypeOK, Stages
  <2>3. \A r \in Requests : status[r] \in Active => status'[r] = status[r]
    BY <1>2, <2>1 DEF Delete
  <2>4. \A r \in Requests : status'[r] \in Active => status'[r] = status[r]
    BY <1>2 DEF Delete, Active
  <2>5. UNCHANGED <<mode, task, cancelled, confirming, stranded>>
    BY <1>2 DEF Delete, process, tally
  <2>6. \A r \in Requests : task[r] # "none" => status'[r] = status[r]
    BY <2>2, <2>3
  <2>7. \A r \in confirming : status'[r] = status[r] /\ r \in Requests
    BY <2>3 DEF Supervised, Active, TypeOK
  <2>8. \A r \in stranded : status'[r] = status[r] /\ r \in Requests
    BY <2>3 DEF Supervised, TypeOK
  <2>9. \A r \in confirming' :
           mode' = "up" /\ status'[r] = "CANCELLATION_REQUESTED" /\ task'[r] = "none"
    BY <2>5, <2>7 DEF Supervised
  <2>10. \A r \in stranded' : /\ mode' \in {"up", "closing"} /\ status'[r] \in Active
                             /\ task'[r] = "none" /\ r \notin confirming'
    BY <2>5, <2>8 DEF Supervised
  <2>11. mode' = "up" => \A r \in Requests :
           status'[r] \in Active /\ task'[r] = "none" => r \in confirming' \cup stranded'
    BY <2>4, <2>5 DEF Supervised
  <2>12. \A r \in cancelled' : task'[r] # "none" /\ status'[r] = status[r]
    BY <2>5, <2>6 DEF Supervised, TypeOK
  <2>13. \A r \in Requests : task'[r] # "none" => status'[r] = status[r] /\ task'[r] = task[r]
    BY <2>5, <2>6
  <2> QED BY <2>5, <2>9, <2>10, <2>11, <2>12, <2>13 DEF Supervised, Started
<1>3. ASSUME NEW r \in Requests, NEW e \in 0..MaximumRuns, Submit(r, e) PROVE Supervised'
  <2>1. status'[r] = "QUEUED" /\ \A q \in Requests : q # r => status'[q] = status[q]
    BY <1>3, WriteElsewhere DEF Submit
  <2>2. mode = "up" /\ status[r] = "ABSENT"
    BY <1>3 DEF Submit
  <2>3. task[r] = "none" /\ r \notin confirming /\ r \notin cancelled /\ r \notin stranded
    BY <2>2 DEF Supervised, TypeOK, Stages, Started, Active
  <2>4. UNCHANGED <<mode, cancelled, confirming>>
    BY <1>3 DEF Submit
  <2>5. CASE task' = [task EXCEPT ![r] = "created"] /\ UNCHANGED stranded
    <3>1. task'[r] = "created" /\ \A q \in Requests : q # r => task'[q] = task[q]
      BY <2>5 DEF TypeOK
    <3> QED BY <2>1, <2>2, <2>3, <2>4, <2>5, <3>1 DEF Supervised, Started, TypeOK
  <2>6. CASE stranded' = stranded \cup {r} /\ UNCHANGED task
    <3>1. \A q \in stranded' : /\ mode' \in {"up", "closing"} /\ status'[q] \in Active
                              /\ task'[q] = "none" /\ q \notin confirming'
      BY <2>1, <2>2, <2>3, <2>4, <2>6 DEF Supervised, TypeOK, Active
    <3>2. \A q \in Requests : status'[q] \in Active /\ task'[q] = "none" =>
             q \in confirming' \cup stranded'
      BY <2>1, <2>2, <2>4, <2>6 DEF Supervised
    <3>3. \A q \in Requests : task[q] # "none" => status'[q] = status[q]
      BY <2>1, <2>3
    <3>4. \A q \in confirming \cup cancelled : status'[q] = status[q] /\ q \in Requests
      BY <2>1, <2>3 DEF TypeOK
    <3>5. task' = task /\ mode' = mode /\ cancelled' = cancelled /\ confirming' = confirming
      BY <2>4, <2>6
    <3> QED BY <2>2, <3>1, <3>2, <3>3, <3>4, <3>5 DEF Supervised, Started
  <2> QED BY <1>3, <2>5, <2>6 DEF Submit
<1>4. ASSUME NEW r \in Requests, Cancel(r) PROVE Supervised'
  <2>1. /\ status'[r] = "CANCELLATION_REQUESTED"
        /\ \A q \in Requests : q # r => status'[q] = status[q]
    BY <1>4, WriteElsewhere DEF Cancel, Keep
  <2>2. /\ mode = "up" /\ status[r] \in Active
        /\ UNCHANGED <<mode, task>> /\ stranded' = stranded \ {r}
    BY <1>4 DEF Cancel
  <2>3. \A q \in cancelled' : q \in cancelled \/ (q = r /\ task[r] # "none" /\ status[r] = "RUNNING")
    BY <1>4 DEF Cancel, Signalled
  <2>4. \A q \in cancelled' : task[q] \in Started
    BY <2>2, <2>3 DEF Supervised, TypeOK, Stages
  <2>5. confirming' = IF task[r] = "none" THEN confirming \cup {r} ELSE confirming
    BY <1>4 DEF Cancel
  <2>6. \A q \in cancelled' : QueryEndpoint \/ status'[q] = "CANCELLATION_REQUESTED"
    BY <2>1, <2>2, <2>3 DEF Supervised, TypeOK
  <2>7. \A q \in confirming' : status'[q] = "CANCELLATION_REQUESTED" /\ task[q] = "none"
    BY <2>1, <2>5 DEF Supervised, TypeOK
  <2>8. \A q \in Requests : status'[q] \in Active /\ task'[q] = "none" =>
           q \in confirming' \cup stranded'
    BY <2>1, <2>2, <2>5 DEF Supervised
  <2>9. \A q \in stranded' : /\ mode' \in {"up", "closing"} /\ status'[q] \in Active
                            /\ task'[q] = "none" /\ q \notin confirming'
    BY <2>1, <2>2, <2>5 DEF Supervised, TypeOK
  <2>10. \A q \in Requests : /\ task[q] = "created" => status'[q] \in {"QUEUED", "CANCELLATION_REQUESTED"}
                            /\ task[q] \in Started => status'[q] \in {"RUNNING", "CANCELLATION_REQUESTED"}
    BY <2>1 DEF Supervised
  <2> QED BY <2>1, <2>2, <2>4, <2>6, <2>7, <2>8, <2>9, <2>10 DEF Supervised, Started
<1>5. ASSUME NEW r \in Requests, CancelQuery(r) PROVE Supervised'
  BY <1>5 DEF CancelQuery, Supervised, database, tally, Started
<1> QED BY <1>1, <1>2, <1>3, <1>4, <1>5 DEF User

LEMMA TaskSupervised ==
    ASSUME IInv, NEW r \in Requests, Execute(r) \/ Operation(r)
    PROVE  Supervised'
<1> USE DEF IInv
<1>t. {"COMPLETED", "FAILED", "CANCELLED", "INTERRUPTED"} \subseteq Terminal
  BY DEF Terminal
<1>n. 0 \in Nat /\ 1 \in Nat
  OBVIOUS
<1>h. ASSUME task[r] # "none", mode \in {"up", "closing"}, NEW n \in Nat, NEW s \in Terminal,
             Handle(r, s, n) \/ Recorded(r, s, n)
      PROVE  Supervised'
  BY <1>h, HandleSupervised
<1>1. CASE Start(r)
  <2>0. task[r] # "none" /\ mode \in {"up", "closing"} /\ r \notin cancelled
    BY <1>1 DEF Start, At
  <2>1. CASE /\ Write(r, "RUNNING") /\ Goto(r, "authorizing")
             /\ UNCHANGED <<mode, cancelled, confirming, tally>>
    <3>1. "authorizing" \in Started
      BY DEF Started
    <3> QED BY <2>0, <2>1, <3>1, WriteElsewhere, AdvanceSupervised DEF Goto, tally
  <2>2. CASE Report(r, "CANCELLED") \/ Handle(r, "FAILED", 1)
    BY <2>0, <2>2, <1>t, <1>n, <1>h DEF Report
  <2> QED BY <1>1, <2>1, <2>2 DEF Start
<1>2. ASSUME NEW g \in Started, Step(r, g), task[r] \in Started, r \notin cancelled
      PROVE  Supervised'
  <2>1. /\ UNCHANGED <<status, mode, cancelled, confirming, stranded>>
        /\ task' = [task EXCEPT ![r] = g]
    BY <1>2 DEF Step, database, tally, Goto
  <2>2. status[r] \in {"RUNNING", "CANCELLATION_REQUESTED"} /\ task[r] # "none"
    BY <1>2 DEF Supervised, Started
  <2> QED BY <1>2, <2>1, <2>2, AdvanceSupervised
<1>3. CASE AuthorizeDispatch(r)
  <2>1. /\ task[r] \in Started /\ task[r] # "none" /\ r \notin cancelled
        /\ "operating" \in Started /\ mode \in {"up", "closing"}
    BY <1>3 DEF AuthorizeDispatch, At, Started
  <2> QED BY <1>2, <1>3, <2>1, <1>t, <1>n, <1>h DEF AuthorizeDispatch
<1>4. CASE AuthorizeRelease(r)
  BY <1>4, <1>t, <1>n, <1>h DEF AuthorizeRelease, At, Report
<1>5. CASE Cancelled(r)
  <2>0. mode \in {"up", "closing"} /\ r \in cancelled /\ task[r] # "none"
    BY <1>5 DEF Cancelled, Started
  <2>1. CASE Handle(r, IF mode = "closing" THEN "INTERRUPTED" ELSE "CANCELLED", 0)
    BY <2>0, <2>1, <1>t, <1>n, <1>h
  <2>2. CASE task[r] = "created" /\ Gone(r) /\ UNCHANGED <<database, mode, confirming, tally>>
    <3>1. mode # "up"
      BY <2>0, <2>2 DEF Supervised, Started
    <3> QED BY <2>0, <2>2, <3>1, RetiredSupervised DEF Retired, Gone, Goto, database, tally
  <2> QED BY <1>5, <2>1, <2>2 DEF Cancelled
<1>6. CASE ConfirmCancel(r)
  <2>1. r \in confirming /\ confirming' = confirming \ {r} /\ UNCHANGED <<mode, task, cancelled>>
    BY <1>6 DEF ConfirmCancel
  <2>2. /\ task[r] = "none" /\ r \notin cancelled /\ r \notin stranded
        /\ mode = "up" /\ status[r] = "CANCELLATION_REQUESTED"
    BY <2>1 DEF Supervised
  <2>3. \/ status'[r] \notin Active /\ UNCHANGED stranded
        \/ status'[r] = status[r] /\ stranded' = stranded \cup {r}
    BY <1>6, <1>t, FinishElsewhere DEF ConfirmCancel, Active, Terminal, Keep
  <2>4. \A q \in Requests : q # r => status'[q] = status[q]
    BY <1>6, <1>t, FinishElsewhere DEF ConfirmCancel
  <2>5. \A q \in stranded' : /\ mode' \in {"up", "closing"} /\ status'[q] \in Active
                            /\ task'[q] = "none" /\ q \notin confirming'
    BY <2>1, <2>2, <2>3, <2>4 DEF Supervised, TypeOK, Active
  <2>6. \A q \in Requests : status'[q] \in Active /\ task'[q] = "none" =>
           q \in confirming' \cup stranded'
    BY <2>1, <2>2, <2>3, <2>4 DEF Supervised
  <2>7. \A q \in confirming' :
           mode' = "up" /\ status'[q] = "CANCELLATION_REQUESTED" /\ task'[q] = "none"
    BY <2>1, <2>4 DEF Supervised, TypeOK
  <2>8. \A q \in Requests : task[q] # "none" => status'[q] = status[q]
    BY <2>2, <2>4
  <2>9. \A q \in cancelled : q \in Requests /\ task[q] # "none"
    BY DEF Supervised, TypeOK
  <2> QED BY <2>1, <2>2, <2>5, <2>6, <2>7, <2>8, <2>9 DEF Supervised, Started
<1>7. CASE Progress(r)
  <2>0. task[r] = "operating" /\ task[r] # "none" /\ mode \in {"up", "closing"}
    BY <1>7 DEF Progress
  <2>1. CASE status[r] = "RUNNING" /\ Write(r, "RUNNING") /\ UNCHANGED <<process, tally>>
    <3>1. \A q \in Requests : status'[q] = status[q]
      BY <2>1, WriteElsewhere
    <3> QED BY <2>1, <3>1 DEF process, tally, Supervised, TypeOK
  <2> QED BY <1>7, <2>0, <2>1, <1>t, <1>n, <1>h DEF Progress
<1>8. CASE OperationReturns(r)
  <2>1. /\ task[r] \in Started /\ task[r] # "none" /\ r \notin cancelled
        /\ "releasing" \in Started /\ mode \in {"up", "closing"}
    BY <1>8 DEF OperationReturns, At, Started
  <2> QED BY <1>2, <1>8, <2>1, <1>t, <1>n, <1>h DEF OperationReturns
<1> QED BY <1>1, <1>3, <1>4, <1>5, <1>6, <1>7, <1>8 DEF Execute, Operation

LEMMA NextSupervised ==
    ASSUME IInv, [Next]_vars
    PROVE  Supervised'
<1> USE DEF IInv
<1>1. CASE User
  BY <1>1, UserSupervised
<1>2. ASSUME NEW r \in Requests, Execute(r) \/ Operation(r) PROVE Supervised'
  BY <1>2, TaskSupervised
<1>3. CASE Close
  <2>1. /\ mode' = "closing" /\ confirming' = {} /\ UNCHANGED <<status, task, stranded>>
        /\ \A r \in cancelled' : task[r] # "none"
    BY <1>3 DEF Close, Tasks, database
  <2> QED BY <2>1 DEF Supervised
<1>4. CASE Crash
  <2>1. /\ mode' = "down" /\ confirming' = {} /\ cancelled' = {} /\ stranded' = {}
        /\ \A r \in Requests : task'[r] = "none"
    BY <1>4 DEF Crash
  <2> QED BY <2>1 DEF Supervised, Started
<1>5. CASE Startup
  BY <1>5 DEF Startup, Supervised, database, tally
<1>6. CASE Recovered
  <2>1. \A r \in Requests : status[r] \notin Active /\ task[r] = "none"
    BY <1>6 DEF Recovered, Sweeping, Unsettled, Tasks, Supervised
  <2>2. UNCHANGED <<status, task, cancelled, confirming, stranded>>
    BY <1>6 DEF Recovered, database, tally
  <2>3. cancelled = {} /\ confirming = {} /\ stranded = {}
    BY <1>6, <2>1 DEF Recovered, Sweeping, Supervised, TypeOK
  <2> QED BY <2>1, <2>2, <2>3 DEF Supervised, Started
<1>7. ASSUME NEW r \in Requests, Recover(r) PROVE Supervised'
  <2>1. \A q \in Requests : q # r => status'[q] = status[q]
    <3>1. Finish(r, "INTERRUPTED") /\ "INTERRUPTED" \in Terminal
      BY <1>7 DEF Recover, Terminal
    <3> QED BY <3>1, FinishElsewhere
  <2>2. mode # "up" /\ task[r] = "none"
    BY <1>7 DEF Recover, Sweeping, Tasks, Supervised
  <2>3. UNCHANGED <<mode, task, cancelled, confirming>> /\ stranded' = stranded \ {r}
    BY <1>7 DEF Recover, process
  <2> QED BY <2>1, <2>2, <2>3 DEF Supervised, Started, TypeOK
<1>8. CASE UNCHANGED vars
  BY <1>8 DEF vars, database, process, tally, Supervised
<1>9. CASE RecoverFails
  <2>1. \A r \in Requests : task[r] = "none" /\ r \notin cancelled /\ r \notin confirming
    BY <1>9 DEF RecoverFails, Sweeping, Tasks, Supervised, TypeOK
  <2>2. mode' = "down" /\ stranded' = {} /\ UNCHANGED <<task, cancelled, confirming>>
    BY <1>9 DEF RecoverFails
  <2> QED BY <2>1, <2>2 DEF Supervised, Started, TypeOK
<1> QED BY <1>1, <1>2, <1>3, <1>4, <1>5, <1>6, <1>7, <1>8, <1>9 DEF Next, Restart
-----------------------------------------------------------------------------
(***************************************************************************)
(* What the journal keeps of its own: the longest log of each status, one  *)
(* active run in a conversation, and one revision for each run of it.      *)
(***************************************************************************)
Longest(s) ==
    CASE s = "QUEUED"                 -> 1
      [] s = "RUNNING"                -> EventBudget
      [] s = "CANCELLATION_REQUESTED" -> EventBudget + 1
      [] OTHER                        -> EventBudget + 2

LogOK(r) ==
    IF status[r] = "ABSENT" THEN events[r] = << >>
    ELSE /\ Len(events[r]) \in 1..Longest(status[r])
         /\ events[r][Len(events[r])] = status[r]

Logged == \A r \in Requests : LogOK(r)

AnswersOfCompleted == \A r \in answered : status[r] = "COMPLETED"

RunsInOpen == \A r \in Requests : status[r] # "ABSENT" => conv[ConvOf[r]] = "open"

OneActive ==
    \A r, s \in Requests :
        r # s /\ ConvOf[r] = ConvOf[s] =>
            ~ (status[r] \in Active /\ status[s] \in Active)

Numbered(c) ==
    /\ conv[c] = "unborn" => revision[c] = 0
    /\ conv[c] = "open" =>
          /\ IsFiniteSet(RunsOf(c))
          /\ revision[c] = Cardinality(RunsOf(c))
          /\ {expected[r] : r \in RunsOf(c)} = 0..(revision[c] - 1)

JournalInv ==
    /\ Logged /\ AnswersOfCompleted /\ RunsInOpen /\ OneActive
    /\ \A c \in Conversations : Numbered(c)

LEMMA InitJournal == Init => JournalInv
BY DEF Init, JournalInv, Logged, LogOK, AnswersOfCompleted, RunsInOpen, OneActive, Numbered, Active

(* One event more, for a run that moves along an edge.                     *)
LEMMA MoveLogged ==
    ASSUME JournalType, Logged, NEW r \in Requests, NEW s \in Statuses, Moves(r, s)
    PROVE  Logged'
<1>1. /\ status'[r] = s /\ events'[r] = Append(events[r], s)
      /\ \A q \in Requests : q # r => status'[q] = status[q] /\ events'[q] = events[q]
  BY DEF Moves, Write, JournalType
<1>2. events[r] \in Seq(Statuses)
  BY DEF JournalType
<1>3. Len(events'[r]) = Len(events[r]) + 1 /\ events'[r][Len(events'[r])] = s
  BY <1>1, <1>2
<1>4. EventBudget \in Nat /\ EventBudget >= 2
  BY LocalAssumption
<1>5. Len(events[r]) \in Nat /\ Len(events[r]) >= 1 /\ Len(events[r]) <= Longest(status[r])
  BY <1>2, <1>4 DEF Moves, Logged, LogOK, Active, Longest
<1>6. Len(events[r]) + 1 <= Longest(s) /\ s # "ABSENT"
  BY <1>4, <1>5 DEF Moves, Active, Longest, Direct
<1>7. Longest(s) \in Nat
  BY <1>4 DEF Longest
<1>8. Len(events'[r]) \in 1..Longest(s)
  BY <1>3, <1>5, <1>6, <1>7
<1>9. LogOK(r)'
  BY <1>1, <1>3, <1>6, <1>8 DEF LogOK, Longest
<1>10. \A q \in Requests : q # r => LogOK(q)'
  BY <1>1 DEF Logged, LogOK, Longest
<1> QED BY <1>9, <1>10 DEF Logged

LEMMA MoveJournal ==
    ASSUME JournalType, JournalInv, NEW r \in Requests, NEW s \in Statuses, Moves(r, s)
    PROVE  JournalInv'
<1>1. /\ status'[r] = s /\ status[r] \in Active /\ s # "ABSENT"
      /\ \A q \in Requests : q # r => status'[q] = status[q]
      /\ UNCHANGED <<conv, revision, expected>>
  BY DEF Moves, Write, JournalType, Active
<1>2. Logged'
  BY MoveLogged DEF JournalInv
<1>3. AnswersOfCompleted'
  <2>1. r \notin answered
    BY <1>1 DEF JournalInv, AnswersOfCompleted, Active
  <2> QED BY <1>1, <2>1 DEF JournalInv, AnswersOfCompleted, Moves, JournalType
<1>4. RunsInOpen'
  BY <1>1 DEF JournalInv, RunsInOpen, Active
<1>5. OneActive'
  BY <1>1 DEF JournalInv, OneActive
<1>6. \A c \in Conversations : RunsOf(c)' = RunsOf(c)
  BY <1>1 DEF RunsOf, Active
<1>7. ASSUME NEW c \in Conversations PROVE Numbered(c)'
  <2>1. Numbered(c) /\ RunsOf(c)' = RunsOf(c) /\ UNCHANGED <<conv, revision, expected>>
    BY <1>1, <1>6 DEF JournalInv
  <2> QED BY <2>1 DEF Numbered
<1> QED BY <1>2, <1>3, <1>4, <1>5, <1>7 DEF JournalInv

LEMMA OpenJournal ==
    ASSUME JournalType, JournalInv, NEW c \in Conversations, Opens(c)
    PROVE  JournalInv'
<1>1. UNCHANGED <<revision, status, events, answered, expected>>
  BY DEF Opens
<1>2. conv'[c] = "open" /\ conv[c] = "unborn" /\ \A d \in Conversations : d # c => conv'[d] = conv[d]
  BY DEF Opens, JournalType
<1>3. Logged' /\ AnswersOfCompleted' /\ OneActive'
  BY <1>1 DEF JournalInv, Logged, LogOK, Longest, AnswersOfCompleted, OneActive
<1>4. RunsInOpen'
  BY <1>1, <1>2, LocalAssumption DEF JournalInv, RunsInOpen
<1>5. \A d \in Conversations : RunsOf(d)' = RunsOf(d)
  BY <1>1 DEF RunsOf
<1>6. ASSUME NEW d \in Conversations, d # c PROVE Numbered(d)'
  <2>1. Numbered(d) /\ RunsOf(d)' = RunsOf(d) /\ conv'[d] = conv[d]
    BY <1>2, <1>5, <1>6 DEF JournalInv
  <2> QED BY <1>1, <2>1 DEF Numbered
<1>7. Numbered(c)'
  <2>1. RunsOf(c) = {}
    BY <1>2 DEF JournalInv, RunsInOpen, RunsOf
  <2>2. RunsOf(c)' = {} /\ revision'[c] = 0
    BY <1>1, <1>2, <1>5, <2>1 DEF JournalInv, Numbered
  <2>3. {expected'[r] : r \in {}} = {} /\ 0..(0 - 1) = {}
    OBVIOUS
  <2> QED BY <1>2, <2>2, <2>3, FS_EmptySet DEF Numbered
<1> QED BY <1>3, <1>4, <1>6, <1>7 DEF JournalInv

LEMMA ForgetJournal ==
    ASSUME JournalType, JournalInv, NEW gone \in SUBSET Conversations, Forgets(gone)
    PROVE  JournalInv'
<1>1. UNCHANGED <<revision, expected>>
  BY DEF Forgets
<1>2. \A c \in Conversations : conv'[c] = IF c \in gone THEN "deleted" ELSE conv[c]
  BY DEF Forgets
<1>3. \A r \in Requests :
         /\ ConvOf[r] \in gone => status'[r] = "ABSENT" /\ events'[r] = << >>
         /\ ConvOf[r] \notin gone => status'[r] = status[r] /\ events'[r] = events[r]
  BY DEF Forgets
<1>4. \A r \in answered' : r \in answered /\ status'[r] = status[r]
  BY <1>3 DEF Forgets, JournalType
<1>5. AnswersOfCompleted'
  BY <1>4 DEF JournalInv, AnswersOfCompleted
<1>6. Logged'
  BY <1>3 DEF JournalInv, Logged, LogOK, Longest
<1>7. RunsInOpen'
  BY <1>2, <1>3, LocalAssumption DEF JournalInv, RunsInOpen
<1>8. OneActive'
  BY <1>3 DEF JournalInv, OneActive, Active
<1>9. ASSUME NEW c \in Conversations PROVE Numbered(c)'
  <2>1. CASE c \in gone
    BY <1>2, <2>1 DEF Numbered
  <2>2. CASE c \notin gone
    <3>1. RunsOf(c)' = RunsOf(c)
      BY <1>3, <2>2 DEF RunsOf
    <3>2. conv'[c] = conv[c] /\ Numbered(c)
      BY <1>2, <2>2 DEF JournalInv
    <3> QED BY <1>1, <3>1, <3>2 DEF Numbered
  <2> QED BY <2>1, <2>2
<1> QED BY <1>5, <1>6, <1>7, <1>8, <1>9 DEF JournalInv

LEMMA AdmitJournal ==
    ASSUME JournalType, JournalInv, NEW r \in Requests, NEW e \in Nat, Admits(r, e)
    PROVE  JournalInv'
<1> DEFINE c == ConvOf[r]
<1>0. c \in Conversations
  BY LocalAssumption
<1>1. /\ status'[r] = "QUEUED" /\ status[r] = "ABSENT" /\ events'[r] = Append(events[r], "QUEUED")
      /\ \A q \in Requests : q # r => status'[q] = status[q] /\ events'[q] = events[q]
  BY DEF Admits, Write, JournalType
<1>2. /\ conv[c] = "open" /\ revision[c] = e /\ revision'[c] = e + 1 /\ expected'[r] = e
      /\ \A d \in Conversations : d # c => revision'[d] = revision[d]
      /\ \A q \in Requests : q # r => expected'[q] = expected[q]
      /\ UNCHANGED <<conv, answered>> /\ ActiveIn(c) = {}
  BY <1>0 DEF Admits, JournalType
<1>3. Logged'
  <2>1. events[r] = << >>
    BY <1>1 DEF JournalInv, Logged, LogOK
  <2>2. events'[r] = <<"QUEUED">>
    BY <1>1, <2>1
  <2>3. LogOK(r)'
    BY <1>1, <2>2 DEF LogOK, Longest
  <2>4. \A q \in Requests : q # r => LogOK(q)'
    BY <1>1 DEF JournalInv, Logged, LogOK, Longest
  <2> QED BY <2>3, <2>4 DEF Logged
<1>4. AnswersOfCompleted'
  BY <1>1, <1>2 DEF JournalInv, AnswersOfCompleted, JournalType
<1>5. RunsInOpen'
  BY <1>1, <1>2 DEF JournalInv, RunsInOpen
<1>6. OneActive'
  <2>1. \A q \in Requests : ConvOf[q] = c => status[q] \notin Active
    BY <1>2 DEF ActiveIn, RunsOf, Active
  <2> QED BY <1>1, <2>1 DEF JournalInv, OneActive
<1>7. Numbered(c)'
  <2>1. RunsOf(c)' = RunsOf(c) \cup {r} /\ r \notin RunsOf(c)
    BY <1>1 DEF RunsOf
  <2>2. /\ IsFiniteSet(RunsOf(c)) /\ Cardinality(RunsOf(c)) = e
        /\ {expected[q] : q \in RunsOf(c)} = 0..(e - 1)
    BY <1>0, <1>2 DEF JournalInv, Numbered
  <2>3. IsFiniteSet(RunsOf(c)') /\ Cardinality(RunsOf(c)') = e + 1
    BY <2>1, <2>2, FS_AddElement
  <2>4. \A q \in RunsOf(c) : expected'[q] = expected[q]
    BY <1>2, <2>1 DEF RunsOf
  <2>5. {expected'[q] : q \in RunsOf(c) \cup {r}} = {expected[q] : q \in RunsOf(c)} \cup {e}
    BY <1>2, <2>4
  <2>6. (0..(e - 1)) \cup {e} = 0..((e + 1) - 1)
    OBVIOUS
  <2>7. conv'[c] = "open" /\ revision'[c] = e + 1
    BY <1>2
  <2>8. {expected'[q] : q \in RunsOf(c)'} = 0..(revision'[c] - 1)
    BY <2>1, <2>2, <2>5, <2>6, <2>7
  <2> QED BY <2>3, <2>7, <2>8 DEF Numbered
<1>8. ASSUME NEW d \in Conversations, d # c PROVE Numbered(d)'
  <2>1. RunsOf(d)' = RunsOf(d) /\ Numbered(d) /\ conv'[d] = conv[d] /\ revision'[d] = revision[d]
    BY <1>1, <1>2, <1>8 DEF RunsOf, JournalInv
  <2>2. \A q \in RunsOf(d) : expected'[q] = expected[q]
    BY <1>2, <1>8 DEF RunsOf
  <2>3. {expected'[q] : q \in RunsOf(d)} = {expected[q] : q \in RunsOf(d)}
    BY <2>2
  <2> QED BY <2>1, <2>3 DEF Numbered
<1> QED BY <1>0, <1>3, <1>4, <1>5, <1>6, <1>7, <1>8 DEF JournalInv

LEMMA JournalKept ==
    ASSUME JournalType, JournalInv, JournalStep
    PROVE  JournalInv'
<1>1. CASE UNCHANGED database
  <2>1. \A c \in Conversations : RunsOf(c)' = RunsOf(c)
    BY <1>1 DEF database, RunsOf
  <2>2. \A c \in Conversations : Numbered(c)'
    BY <1>1, <2>1 DEF database, JournalInv, Numbered
  <2>3. Logged' /\ AnswersOfCompleted' /\ RunsInOpen' /\ OneActive'
    BY <1>1 DEF database, JournalInv, Logged, LogOK, Longest, AnswersOfCompleted,
                RunsInOpen, OneActive
  <2> QED BY <2>2, <2>3 DEF JournalInv
<1> QED BY <1>1, MoveJournal, OpenJournal, ForgetJournal, AdmitJournal DEF JournalStep
-----------------------------------------------------------------------------
(* The reviewed plan                                                       *)

(* A row keeps its status as long as neither its log nor its conversation  *)
(* changes.                                                                *)
LEMMA StatusIsLogged ==
    ASSUME JournalType, JournalStep, NEW r \in Requests,
           events'[r] = events[r], conv'[ConvOf[r]] = conv[ConvOf[r]]
    PROVE  status'[r] = status[r]
<1>0. events[r] \in Seq(Statuses) /\ \A s : Len(Append(events[r], s)) = Len(events[r]) + 1
  BY DEF JournalType
<1>1. ASSUME NEW q \in Requests, NEW s, Write(q, s) PROVE status'[r] = status[r]
  <2>1. CASE q = r
    <3>1. events'[r] = Append(events[r], s)
      BY <1>1, <2>1 DEF Write, JournalType
    <3> QED BY <1>0, <3>1
  <2>2. CASE q # r
    BY <1>1, <2>2 DEF Write, JournalType
  <2> QED BY <2>1, <2>2
<1>2. ASSUME NEW gone \in SUBSET Conversations, Forgets(gone) PROVE status'[r] = status[r]
  <2>1. ConvOf[r] \in Conversations
    BY LocalAssumption
  <2>2. ConvOf[r] \notin gone
    BY <1>2, <2>1 DEF Forgets
  <2> QED BY <1>2, <2>2 DEF Forgets
<1> QED BY <1>1, <1>2 DEF JournalStep, Moves, Opens, Admits, database

PlanInv ==
    \A p \in plan :
        /\ p \in Plans
        /\ p.old \subseteq p.known /\ p.listed \subseteq p.old
        /\ \A c \in p.old \ p.touched : c \in p.listed <=> ActiveIn(c) = {}

RInv == IInv /\ JournalInv /\ PlanInv

LEMMA ApplyForgets ==
    ASSUME RInv, NEW p \in plan, Matches(p), Remove(Candidates(p.old \ p.touched))
    PROVE  /\ Candidates(p.old \ p.touched) = p.listed
           /\ p.listed \in SUBSET Conversations
           /\ Forgets(p.listed)
<1>1. /\ p.touched = {} /\ OpenConvs = p.known
      /\ p.old \subseteq p.known /\ p.listed \subseteq p.old
      /\ \A c \in p.old : c \in p.listed <=> ActiveIn(c) = {}
  BY DEF Matches, RInv, PlanInv
<1>2. Candidates(p.old \ p.touched) = p.listed
  BY <1>1 DEF Candidates
<1>3. \A c \in p.listed : c \in Conversations /\ conv[c] = "open" /\ ActiveIn(c) = {}
  BY <1>1 DEF OpenConvs
<1> DEFINE gone == p.listed
<1>4. Remove(gone)
  BY <1>2
<1>5. /\ conv' = [c \in Conversations |-> IF c \in gone THEN "deleted" ELSE conv[c]]
      /\ UNCHANGED <<revision, expected>>
  BY <1>4 DEF Remove
<1>6. status' = [r \in Requests |-> IF ConvOf[r] \in gone THEN "ABSENT" ELSE status[r]]
  BY <1>4 DEF Remove
<1>7. events' = [r \in Requests |-> IF ConvOf[r] \in gone THEN << >> ELSE events[r]]
  BY <1>4 DEF Remove
<1>8. answered' = {r \in answered : ConvOf[r] \notin gone}
  <2>1. answered \subseteq Requests
    BY DEF RInv, IInv, TypeOK
  <2> QED BY <1>4, <2>1 DEF Remove
<1>9. Forgets(gone)
  BY <1>3, <1>5, <1>6, <1>7, <1>8 DEF Forgets
<1> QED BY <1>2, <1>3, <1>9

LEMMA ApplicationPlan ==
    ASSUME RInv, Application
    PROVE  PlanInv'
<1>0. JournalType /\ JournalStep
  BY NextMoves, TypeParts DEF RInv, IInv, Application
<1>1. SUFFICES ASSUME NEW p \in plan PROVE
        LET t == p.touched \cup {c \in p.known : Written(c)}
            q == [p EXCEPT !.touched = t] IN
        /\ q \in Plans
        /\ q.old \subseteq q.known /\ q.listed \subseteq q.old
        /\ \A c \in q.old \ q.touched : c \in q.listed <=> ActiveIn(c)' = {}
  BY DEF Application, PlanInv
<1> DEFINE t == p.touched \cup {c \in p.known : Written(c)}
           q == [p EXCEPT !.touched = t]
<1>2. p \in Plans /\ p.old \subseteq p.known /\ p.listed \subseteq p.old
  BY DEF RInv, PlanInv
<1>3. t \in SUBSET Conversations
  BY <1>2 DEF Plans
<1>4. /\ q \in Plans /\ q.old = p.old /\ q.known = p.known /\ q.listed = p.listed
      /\ q.touched = t
  BY <1>2, <1>3 DEF Plans
<1>5. ASSUME NEW c \in p.old, c \notin t PROVE c \in p.listed <=> ActiveIn(c)' = {}
  <2>1. c \in p.known /\ ~ Written(c) /\ c \notin p.touched
    BY <1>2, <1>5
  <2>2. conv'[c] = conv[c] /\ \A r \in Requests : ConvOf[r] = c => events'[r] = events[r]
    BY <2>1 DEF Written
  <2>3. \A r \in Requests : ConvOf[r] = c => status'[r] = status[r]
    BY <1>0, <2>2, StatusIsLogged
  <2>4. ActiveIn(c)' = ActiveIn(c)
    BY <2>3 DEF ActiveIn, RunsOf
  <2> QED BY <2>1, <2>4 DEF RInv, PlanInv
<1> QED BY <1>2, <1>4, <1>5

LEMMA PreviewPlan ==
    ASSUME RInv, NEW old \in SUBSET OpenConvs, Preview(old)
    PROVE  PlanInv'
<1> DEFINE p == [known |-> OpenConvs, old |-> old, listed |-> Candidates(old), touched |-> {}]
<1>1. /\ p \in Plans /\ p.old = old /\ p.known = OpenConvs
      /\ p.listed = Candidates(old) /\ p.touched = {}
  BY DEF Plans, OpenConvs, Candidates
<1>2. plan' = {p} /\ UNCHANGED vars
  BY DEF Preview
<1>3. \A c \in Conversations : ActiveIn(c)' = ActiveIn(c)
  BY <1>2 DEF vars, database, ActiveIn, RunsOf
<1> QED BY <1>1, <1>2, <1>3 DEF PlanInv, Candidates, OpenConvs

LEMMA RInvStays ==
    ASSUME RInv, UNCHANGED vars
    PROVE  IInv' /\ JournalInv' /\ (UNCHANGED plan => PlanInv')
<1>1. JournalType /\ JournalStep
  BY TypeParts DEF RInv, IInv, vars, JournalStep
<1>2. JournalType' /\ JournalInv'
  BY <1>1, JournalTyped, JournalKept DEF RInv
<1>3. ProcessType' /\ Supervised'
  BY ProcessTyped, NextSupervised, TypeParts DEF RInv, IInv
<1>4. UNCHANGED plan => PlanInv'
  BY DEF vars, database, RInv, PlanInv, ActiveIn, RunsOf
<1> QED BY <1>2, <1>3, <1>4, TypePartsNext DEF IInv

LEMMA InitRInv == RetainedInit => RInv
BY InitType, InitJournal DEF RetainedInit, RInv, IInv, PlanInv, Init, Supervised, Active, Started

LEMMA NextRInv ==
    ASSUME RInv, [RetainedNext]_<<vars, plan>>
    PROVE  RInv'
<1>1. CASE Application
  <2>1. JournalType /\ JournalStep /\ [Next]_vars
    BY <1>1, NextMoves, TypeParts DEF RInv, IInv, Application
  <2>2. JournalType' /\ JournalInv'
    BY <2>1, JournalTyped, JournalKept DEF RInv
  <2>3. ProcessType' /\ Supervised'
    BY <2>1, ProcessTyped, NextSupervised, TypeParts DEF RInv, IInv
  <2> QED BY <1>1, <2>2, <2>3, TypePartsNext, ApplicationPlan DEF RInv, IInv
<1>2. ASSUME NEW old \in SUBSET OpenConvs, Preview(old) PROVE RInv'
  <2>1. UNCHANGED vars
    BY <1>2 DEF Preview
  <2> QED BY <1>2, <2>1, RInvStays, PreviewPlan DEF RInv
<1>3. CASE Apply
  <2>0. PlanInv'
    BY <1>3 DEF Apply, PlanInv
  <2>1. CASE UNCHANGED vars
    BY <2>0, <2>1, RInvStays DEF RInv
  <2>2. ASSUME NEW p \in plan, Matches(p), Remove(Candidates(p.old \ p.touched)) PROVE RInv'
    <3>1. JournalType /\ JournalStep
      BY <2>2, ApplyForgets, TypeParts DEF RInv, IInv, JournalStep
    <3>2. JournalType' /\ JournalInv'
      BY <3>1, JournalTyped, JournalKept DEF RInv
    <3>3. UNCHANGED <<process, tally>> /\ mode = "down"
      BY <1>3, <2>2 DEF Apply, Remove
    <3>4. ProcessType'
      BY <3>3, TypeParts DEF RInv, IInv, ProcessType, process, tally
    <3>5. \A r \in Requests : /\ task[r] = "none" /\ r \notin cancelled
                            /\ r \notin confirming /\ r \notin stranded
      BY <3>3 DEF RInv, IInv, Supervised
    <3>6. Supervised'
      BY <3>3, <3>5 DEF RInv, IInv, TypeOK, Supervised, process, tally, Started
    <3> QED BY <2>0, <3>2, <3>4, <3>6, TypePartsNext DEF RInv, IInv
  <2> QED BY <1>3, <2>1, <2>2 DEF Apply
<1>4. CASE UNCHANGED <<vars, plan>>
  BY <1>4, RInvStays DEF RInv
<1> QED BY <1>1, <1>2, <1>3, <1>4 DEF RetainedNext

THEOREM RInvAlways == RetainedSpec => []RInv
<1>1. RInv /\ [RetainedNext]_<<vars, plan>> => RInv'
  BY NextRInv
<1> QED BY InitRInv, <1>1, PTL DEF RetainedSpec
-----------------------------------------------------------------------------
(* Theorems                                                                *)

(* Every value of the journal and the process keeps its type.              *)
THEOREM TypeCorrect == RetainedSpec => []TypeOK
<1>1. RInv => TypeOK
  BY DEF RInv, IInv
<1> QED BY <1>1, RInvAlways, PTL

(* While requests are served, an active run has exactly one of a task, a   *)
(* cancel handler and a failed transaction of its own; and none of them    *)
(* outlives the run.                                                       *)
THEOREM NoOrphanAlways == RetainedSpec => []NoOrphan
<1>1. RInv => NoOrphan
  BY DEF RInv, IInv, TypeOK, Supervised, NoOrphan, Tasks, Stages, Started, Active
<1> QED BY <1>1, RInvAlways, PTL

(* Whatever crashes, recoveries, deletions and retention did, the journal  *)
(* is one the maintenance commands accept.                                 *)
THEOREM JournalValidAlways == RetainedSpec => []JournalValid
<1>1. RInv => JournalValid
  <2>1. SUFFICES ASSUME JournalInv PROVE JournalValid
    BY DEF RInv
  <2>2. EventBudget \in Nat /\ EventBudget >= 2
    BY LocalAssumption
  <2>3. ASSUME NEW r \in Requests, status[r] # "ABSENT"
        PROVE  /\ Len(events[r]) \in 1..(EventBudget + 2)
               /\ events[r][Len(events[r])] = status[r]
    <3>1. Longest(status[r]) \in 1..(EventBudget + 2)
      BY <2>2 DEF Longest
    <3> QED BY <2>1, <2>2, <2>3, <3>1 DEF JournalInv, Logged, LogOK
  <2>4. \A r \in Requests : status[r] = "ABSENT" => events[r] = << >>
    BY <2>1 DEF JournalInv, Logged, LogOK
  <2> QED BY <2>1, <2>3, <2>4 DEF JournalValid, JournalInv, Numbered
<1> QED BY <1>1, RInvAlways, PTL

(* While the process is down, rows go only by a reviewed plan, all that it *)
(* listed and nothing else, each as it was when it was listed.             *)
THEOREM RetentionReviewed == RetainedSpec => RetentionAsReviewed
<1> DEFINE gone == {c \in Conversations : conv[c] = "open" /\ conv'[c] = "deleted"}
<1>1. ASSUME RInv, [RetainedNext]_<<vars, plan>>, mode = "down", gone # {}
      PROVE  \E p \in plan : gone = p.listed /\ p.touched = {}
  <2>1. conv' # conv
    BY <1>1
  <2>2. ~ Application
    <3>1. SUFFICES ASSUME Next PROVE conv' = conv
      BY <2>1 DEF Application
    <3>2. ~ User
      BY <1>1 DEF User, CreateConversation, Delete, Submit, Cancel, CancelQuery
    <3>3. \A r \in Requests : task[r] = "none" /\ r \notin confirming
      BY <1>1 DEF RInv, IInv, Supervised
    <3>4. \A r \in Requests : ~ Execute(r) /\ ~ Operation(r)
      BY <3>3 DEF Execute, Operation, Start, AuthorizeDispatch, AuthorizeRelease, Cancelled,
                  ConfirmCancel, Progress, OperationReturns, At, Started
    <3>5. ~ Close /\ ~ Crash /\ ~ Recovered /\ ~ RecoverFails /\ \A r \in Requests : ~ Recover(r)
      BY <1>1 DEF Close, Crash, Recovered, RecoverFails, Recover, Sweeping
    <3>6. Startup
      BY <3>1, <3>2, <3>4, <3>5 DEF Next, Restart
    <3> QED BY <3>6 DEF Startup, database
  <2>3. Apply
    BY <1>1, <2>1, <2>2 DEF RetainedNext, Preview, vars, database
  <2>4. PICK p \in plan : Matches(p) /\ Remove(Candidates(p.old \ p.touched))
    BY <2>1, <2>3 DEF Apply, vars, database
  <2>5. /\ p.listed \in SUBSET Conversations
        /\ Forgets(p.listed)
    BY <1>1, <2>4, ApplyForgets
  <2>6. gone = p.listed
    <3>1. \A c \in p.listed : conv[c] = "open" /\ conv'[c] = "deleted"
      BY <2>5 DEF Forgets
    <3>2. \A c \in Conversations : c \notin p.listed => conv'[c] = conv[c]
      BY <2>5 DEF Forgets
    <3> QED BY <2>5, <3>1, <3>2
  <2> QED BY <2>4, <2>6 DEF Matches
<1>2. RInv /\ [RetainedNext]_<<vars, plan>>
        => [mode = "down" /\ gone # {} =>
              \E p \in plan : gone = p.listed /\ p.touched = {}]_<<vars, plan>>
  BY <1>1
<1> QED BY <1>2, RInvAlways, PTL DEF RetainedSpec, RetentionAsReviewed

(* What readers of the journal see.                                        *)
LEMMA StepIsJournal ==
    ASSUME JournalType, JournalInv, JournalStep
    PROVE  \A r \in Requests :
              Journal!Untouched(r) \/ Journal!Written(r) \/ Journal!Forgotten(r)
<1> DEFINE Seen(r) == Journal!Untouched(r) \/ Journal!Written(r) \/ Journal!Forgotten(r)
<1>1. ASSUME UNCHANGED <<status, events, answered>>, NEW r \in Requests PROVE Seen(r)
  BY <1>1 DEF Journal!Untouched
<1>2. ASSUME NEW r \in Requests, NEW s, Write(r, s),
             <<status[r], s>> \in Journal!Edges \cup {<<"RUNNING", "RUNNING">>},
             r \notin answered,
             answered' = IF s = "COMPLETED" THEN answered \cup {r} ELSE answered,
             NEW q \in Requests
      PROVE  Seen(q)
  <2>1. CASE q = r
    <3>1. Journal!Written(q)
      BY <1>2, <2>1 DEF Write, JournalType, Journal!Written
    <3> QED BY <3>1
  <2>2. CASE q # r
    <3>1. Journal!Untouched(q)
      BY <1>2, <2>2 DEF Write, JournalType, Journal!Untouched
    <3> QED BY <3>1
  <2> QED BY <2>1, <2>2
<1>3. ASSUME NEW r \in Requests, NEW s \in Statuses, Moves(r, s), NEW q \in Requests
      PROVE  Seen(q)
  <2>1. Write(r, s) /\ answered' = IF s = "COMPLETED" THEN answered \cup {r} ELSE answered
    BY <1>3 DEF Moves
  <2>2. r \notin answered
    BY <1>3 DEF Moves, JournalInv, AnswersOfCompleted, Active
  <2>3. <<status[r], s>> \in Journal!Edges \cup {<<"RUNNING", "RUNNING">>}
    BY <1>3 DEF Moves, Journal!Edges, Journal!Active, Active, Direct
  <2> QED BY <1>2, <2>1, <2>2, <2>3
<1>4. ASSUME NEW r \in Requests, NEW e \in Nat, Admits(r, e), NEW q \in Requests PROVE Seen(q)
  <2>1. Write(r, "QUEUED") /\ answered' = answered /\ status[r] = "ABSENT"
    BY <1>4 DEF Admits
  <2>2. r \notin answered
    BY <2>1 DEF JournalInv, AnswersOfCompleted
  <2>3. <<status[r], "QUEUED">> \in Journal!Edges
    BY <2>1 DEF Journal!Edges
  <2> QED BY <1>2, <2>1, <2>2, <2>3
<1>5. ASSUME NEW gone \in SUBSET Conversations, Forgets(gone), NEW r \in Requests PROVE Seen(r)
  <2>1. CASE ConvOf[r] \notin gone
    <3>1. Journal!Untouched(r)
      BY <1>5, <2>1 DEF Forgets, Journal!Untouched
    <3> QED BY <3>1
  <2>2. CASE ConvOf[r] \in gone /\ status[r] = "ABSENT"
    <3>1. events[r] = << >> /\ r \notin answered
      BY <2>2 DEF JournalInv, Logged, LogOK, AnswersOfCompleted
    <3>2. Journal!Untouched(r)
      BY <1>5, <2>2, <3>1 DEF Forgets, Journal!Untouched
    <3> QED BY <3>2
  <2>3. CASE ConvOf[r] \in gone /\ status[r] # "ABSENT"
    <3>1. status[r] \in Terminal
      BY <1>5, <2>3 DEF Forgets, ActiveIn, RunsOf, JournalType, Statuses
    <3>2. Journal!Forgotten(r)
      BY <1>5, <2>3, <3>1 DEF Forgets, Journal!Forgotten, Journal!Terminal, Terminal
    <3> QED BY <3>2
  <2> QED BY <2>1, <2>2, <2>3
<1>6. CASE UNCHANGED database
  BY <1>1, <1>6 DEF database
<1>7. ASSUME NEW c \in Conversations, Opens(c), NEW r \in Requests PROVE Seen(r)
  BY <1>1, <1>7 DEF Opens
<1> HIDE DEF Seen
<1>8. \A r \in Requests : Seen(r)
  BY <1>3, <1>4, <1>5, <1>6, <1>7, <1>1 DEF JournalStep, database
<1> QED BY <1>8 DEF Seen

(* A queued run fails only in a step in which a transaction failed.        *)
LEMMA FailsByFault ==
    ASSUME JournalType, JournalStep, NEW r \in Requests,
           status[r] = "QUEUED", status'[r] = "FAILED"
    PROVE  faults' > faults
<1>1. ASSUME NEW q \in Requests, NEW s \in Statuses, Moves(q, s) PROVE faults' > faults
  <2>1. q = r /\ s = "FAILED"
    BY <1>1 DEF Moves, Write, JournalType
  <2> QED BY <1>1, <2>1 DEF Moves
<1>2. ASSUME NEW q \in Requests, NEW e \in Nat, Admits(q, e) PROVE FALSE
  BY <1>2 DEF Admits, Write, JournalType
<1>3. ASSUME NEW gone \in SUBSET Conversations, Forgets(gone) PROVE FALSE
  BY <1>3 DEF Forgets
<1>4. status' # status
  OBVIOUS
<1> QED BY <1>1, <1>2, <1>3, <1>4 DEF JournalStep, database, Opens

(* The journal of one process, with its maintenance, is a run journal; and *)
(* the edge it adds for a failed transaction is taken by nothing else.     *)
THEOREM ImplementsLifecycle == RetainedSpec => JournalSpec
<1>1. RetainedInit => Journal!Init
  BY DEF RetainedInit, Init, Journal!Init
<1>j. ASSUME RInv, [RetainedNext]_<<vars, plan>> PROVE JournalStep
  <2>1. CASE Application
    BY <1>j, <2>1, NextMoves DEF RInv, Application
  <2>2. CASE UNCHANGED vars
    BY <2>2 DEF vars, JournalStep
  <2>3. ASSUME NEW p \in plan, Matches(p), Remove(Candidates(p.old \ p.touched))
        PROVE  JournalStep
    BY <1>j, <2>3, ApplyForgets DEF JournalStep
  <2> QED BY <1>j, <2>1, <2>2, <2>3 DEF RetainedNext, Preview, Apply, vars
<1>2. ASSUME RInv, RInv', [RetainedNext]_<<vars, plan>>
      PROVE  [Journal!Next]_(Journal!vars)
  <2>1. /\ DOMAIN status' = Requests /\ DOMAIN events' = Requests
        /\ answered' \subseteq Requests
    BY <1>2 DEF RInv, IInv, TypeOK
  <2>2. Journal!OneActive'
    BY <1>2 DEF RInv, JournalInv, OneActive, Journal!OneActive, Active, Journal!Active
  <2>3. JournalType /\ JournalInv /\ JournalStep
    BY <1>2, <1>j, TypeParts DEF RInv, IInv
  <2> QED BY <2>1, <2>2, <2>3, StepIsJournal DEF Journal!Next
<1>3. RInv /\ RInv' /\ [RetainedNext]_<<vars, plan>> => [Journal!Next]_(Journal!vars)
  BY <1>2
<1>4. RInv /\ [RetainedNext]_<<vars, plan>> =>
        [\A r \in Requests :
            status[r] = "QUEUED" /\ status'[r] = "FAILED" => faults' > faults]_vars
  <2>1. SUFFICES ASSUME RInv, [RetainedNext]_<<vars, plan>>, NEW r \in Requests,
                        status[r] = "QUEUED", status'[r] = "FAILED"
                 PROVE  faults' > faults
    OBVIOUS
  <2>2. JournalType /\ JournalStep
    BY <1>j, <2>1, TypeParts DEF RInv, IInv
  <2> QED BY <2>1, <2>2, FailsByFault
<1> QED BY <1>1, <1>3, <1>4, RInvAlways, PTL DEF RetainedSpec, JournalSpec, Journal!Spec
=============================================================================
