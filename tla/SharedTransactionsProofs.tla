---------------------- MODULE SharedTransactionsProofs ----------------------
(* Theorems about SharedTransactions, for every number of sessions,        *)
(* conversations and requests, and every limit.                            *)
EXTENDS SharedTransactions, FiniteSetTheorems, TLAPS

(* The order in which each method locks its first rows.                    *)
LEMMA LockOrder ==
    /\ \A m \in {"create", "claim"} : Locks(m) = <<"admission">>
    /\ \A m \in {"enqueue", "delete"} : Locks(m) = <<"admission", "conversation">>
    /\ Locks("publish") = <<"admission", "grants">>
    /\ Locks("conversation") = <<"conversation">>
    /\ \A m \in {"cancel", "read"} \cup Fenced : Locks(m) = <<"run">>
BY DEF Locks, Fenced

(* No method locks more than two rows before its first check.              *)
LEMMA LockCount == \A m \in Methods : Len(Locks(m)) \in 1..2
<1>1. /\ Len(<<"admission">>) = 1 /\ Len(<<"conversation">>) = 1 /\ Len(<<"run">>) = 1
      /\ Len(<<"admission", "conversation">>) = 2 /\ Len(<<"admission", "grants">>) = 2
  OBVIOUS
<1> QED BY <1>1, LockOrder DEF Methods, OnConversation, OnRun, Fenced

(* A transaction is about a row of the kind its method asks for.           *)
Fits ==
    \A s \in Sessions : /\ tx[s].method \in OnConversation => tx[s].on \in Conversations
                        /\ tx[s].method \in OnRun => tx[s].on \in Requests
-----------------------------------------------------------------------------
(* Types                                                                   *)

(* What a session begins, or is left with at an end, is a transaction.     *)
LEMMA BegunType ==
    ASSUME NEW m \in Methods \cup {"none"},
           NEW x \in Conversations \cup Requests \cup {Nobody}
    PROVE  Begun(m, x) \in Transactions
BY DEF Begun, Transactions, Stages

LEMMA EndType ==
    ASSUME TypeOK, NEW s \in Sessions, End(s)
    PROVE  /\ tx' \in [Sessions -> Transactions]
           /\ holder' \in [Rows -> Sessions \cup {Nobody}]
<1>1. Idle \in Transactions
  BY BegunType DEF Idle
<1>2. tx' = [tx EXCEPT ![s] = Idle] /\ tx \in [Sessions -> Transactions]
  BY DEF End, TypeOK
<1>3. holder' \in [Rows -> Sessions \cup {Nobody}]
  BY DEF End, TypeOK
<1> QED BY <1>1, <1>2, <1>3

(* A transaction's writes keep the rows and the clocks well typed.         *)
LEMMA WriteType ==
    ASSUME TypeOK, NEW touched, NEW new \in [Requests -> Statuses],
           Write(touched, new)
    PROVE  /\ status' \in [Requests -> Statuses]
           /\ events' \in [Requests -> Seq(Statuses)]
           /\ overdue' \in SUBSET Requests
           /\ spent' \in SUBSET Requests
<1>1. \A r \in Requests : events[r] \in Seq(Statuses) /\ new[r] \in Statuses
  BY DEF TypeOK
<1>2. \A r \in Requests : Append(events[r], new[r]) \in Seq(Statuses)
  BY <1>1
<1>3. events' \in [Requests -> Seq(Statuses)]
  BY <1>1, <1>2 DEF Write
<1> QED BY <1>3 DEF Write, TypeOK

LEMMA WriteOneType ==
    ASSUME TypeOK, NEW r, NEW a \in Statuses, WriteOne(r, a)
    PROVE  /\ status' \in [Requests -> Statuses]
           /\ events' \in [Requests -> Seq(Statuses)]
           /\ overdue' \in SUBSET Requests
           /\ spent' \in SUBSET Requests
<1>1. [status EXCEPT ![r] = a] \in [Requests -> Statuses]
  BY DEF TypeOK
<1> QED BY <1>1, WriteType DEF WriteOne

(* A session that passes a check is still in a well typed transaction.     *)
LEMMA PassType ==
    ASSUME TypeOK, NEW s \in Sessions, NEW g \in Stages, Pass(s, g)
    PROVE  tx' \in [Sessions -> Transactions]
<1>1. [tx[s] EXCEPT !.stage = g] \in Transactions
  BY DEF TypeOK, Transactions
<1> QED BY <1>1 DEF Pass, TypeOK

(* An empty journal, with every session idle, is well typed.               *)
LEMMA InitType == Init => TypeOK
<1>1. Idle \in Transactions
  BY BegunType DEF Idle
<1> QED BY <1>1 DEF Init, TypeOK, Statuses

LEMMA BeginType ==
    ASSUME TypeOK, NEW s \in Sessions, NEW m \in Methods,
           NEW x \in Conversations \cup Requests \cup {Nobody}, Begin(s, m, x)
    PROVE  TypeOK'
<1>1. Begun(m, x) \in Transactions
  BY BegunType
<1>2. tx' \in [Sessions -> Transactions]
  BY <1>1 DEF Begin, TypeOK
<1> QED BY <1>2 DEF Begin, TypeOK, rows

LEMMA LockType ==
    ASSUME TypeOK, NEW s \in Sessions, Lock(s)
    PROVE  TypeOK'
<1>1. UNCHANGED <<conv, status, events, answered, fence, overdue, spent>>
  BY DEF Lock, rows
<1>2. CASE End(s)
  BY <1>1, <1>2, EndType DEF TypeOK
<1>3. ASSUME NEW x \in Wanted(s), Free(x, s), holder' = [holder EXCEPT ![x] = s],
             tx' = [tx EXCEPT ![s].locked = @ + 1]
      PROVE  TypeOK'
  <2>1. tx[s] \in Transactions /\ tx[s].method \in Methods /\ tx[s].locked \in 0..2
    BY DEF Lock, Locking, TypeOK, Transactions
  <2>2. tx[s].locked + 1 \in 0..2
    <3>1. \E n \in 1..2 : tx[s].locked < n
      BY <2>1, LockCount DEF Lock, Locking
    <3> QED BY <2>1, <3>1
  <2>3. [tx[s] EXCEPT !.locked = @ + 1] \in Transactions
    BY <2>1, <2>2 DEF Transactions
  <2>4. tx' \in [Sessions -> Transactions]
    BY <1>3, <2>3 DEF TypeOK
  <2> QED BY <1>1, <1>3, <2>4 DEF TypeOK
<1> QED BY <1>2, <1>3 DEF Lock

LEMMA ApiType ==
    ASSUME TypeOK, NEW s \in Sessions,
           \/ CreateConversation(s) \/ Cancel(s) \/ Observe(s) \/ Rollback(s)
           \/ CountRuns(s) \/ CountPending(s) \/ Enqueue(s)
           \/ CheckDelete(s) \/ Cascade(s) \/ Delete(s)
    PROVE  TypeOK'
<1> USE DEF Statuses, Active, Terminal
<1>a. {"passed", "counted"} \subseteq Stages
  BY DEF Stages
<1>1. CASE CreateConversation(s)
  BY <1>1, <1>a, EndType, PassType DEF CreateConversation, TypeOK
<1>2. CASE Cancel(s)
  <2>1. /\ status' \in [Requests -> Statuses]
        /\ events' \in [Requests -> Seq(Statuses)]
        /\ overdue' \in SUBSET Requests /\ spent' \in SUBSET Requests
        /\ answered' = answered
    <3>1. CASE status[tx[s].on] \in {"QUEUED", "RUNNING"}
      BY <1>2, <3>1, WriteOneType DEF Cancel
    <3>2. CASE status[tx[s].on] \notin {"QUEUED", "RUNNING"}
      BY <1>2, <3>2 DEF Cancel, Keep, TypeOK
    <3> QED BY <3>1, <3>2
  <2> QED BY <1>2, <2>1, EndType DEF Cancel, TypeOK
<1>3. CASE Observe(s) \/ Rollback(s)
  BY <1>3, EndType DEF Observe, Rollback, TypeOK, rows
<1>4. CASE CountRuns(s)
  BY <1>4, <1>a, EndType, PassType DEF CountRuns, TypeOK, rows
<1>5. CASE CountPending(s)
  BY <1>5, <1>a, EndType, PassType DEF CountPending, TypeOK, rows
<1>6. CASE Enqueue(s)
  BY <1>6, EndType, WriteOneType DEF Enqueue, TypeOK
<1>7. CASE CheckDelete(s)
  <2>1. CASE End(s)
    BY <1>7, <2>1, EndType DEF CheckDelete, TypeOK, rows
  <2>2. CASE /\ tx' = [tx EXCEPT ![s].stage = "passed", ![s].left = RunsOf(tx[s].on)]
             /\ UNCHANGED holder
    <3>1. RunsOf(tx[s].on) \in SUBSET Requests
      BY DEF RunsOf
    <3>2. [tx[s] EXCEPT !.stage = "passed", !.left = RunsOf(tx[s].on)] \in Transactions
      BY <1>a, <3>1 DEF TypeOK, Transactions
    <3>3. tx' \in [Sessions -> Transactions]
      BY <2>2, <3>2 DEF TypeOK
    <3> QED BY <3>3, <1>7, <2>2, <3>2 DEF CheckDelete, TypeOK, rows
  <2> QED BY <1>7, <2>1, <2>2 DEF CheckDelete
<1>8. CASE Cascade(s)
  <2>1. PICK r \in tx[s].left : /\ holder' = [holder EXCEPT ![r] = s]
                               /\ tx' = [tx EXCEPT ![s].left = @ \ {r}]
    BY <1>8 DEF Cascade
  <2>2. tx[s] \in Transactions
    BY DEF TypeOK
  <2>3. [tx[s] EXCEPT !.left = @ \ {r}] \in Transactions
    BY <2>2 DEF Transactions
  <2>4. tx' \in [Sessions -> Transactions]
    BY <2>1, <2>3 DEF TypeOK
  <2>5. holder' \in [Rows -> Sessions \cup {Nobody}]
    BY <2>1 DEF TypeOK
  <2> QED BY <1>8, <2>4, <2>5 DEF Cascade, TypeOK, rows
<1>9. CASE Delete(s)
  <2>1. \A r \in Requests : events[r] \in Seq(Statuses) /\ << >> \in Seq(Statuses)
    BY DEF TypeOK
  <2>2. /\ events' \in [Requests -> Seq(Statuses)]
        /\ status' \in [Requests -> Statuses]
        /\ fence' \in [Requests -> Sessions \cup {Nobody}]
        /\ answered' \in SUBSET Requests
        /\ conv' \in [Conversations -> {"unborn", "open", "deleted"}]
    BY <1>9, <2>1 DEF Delete, TypeOK
  <2> QED BY <1>9, <2>2, EndType DEF Delete, TypeOK
<1> QED BY <1>1, <1>2, <1>3, <1>4, <1>5, <1>6, <1>7, <1>8, <1>9

LEMMA ClaimNothingType ==
    ASSUME TypeOK, NEW s \in Sessions, ClaimNothing(s)
    PROVE  TypeOK'
<1>1. Swept(s) \in [Requests -> Statuses]
  BY DEF Swept, TypeOK, Statuses, Terminal
<1> QED BY <1>1, WriteType, EndType DEF ClaimNothing, TypeOK

LEMMA ClaimType ==
    ASSUME TypeOK, NEW s \in Sessions,
           Scan(s) \/ Sweep(s) \/ CountRunning(s) \/ Pick(s) \/ Claim(s)
    PROVE  TypeOK'
<1>a. {"scanned", "passed", "counted"} \subseteq Stages
  BY DEF Stages
<1>1. CASE Scan(s)
  <2>1. Expired \in SUBSET Requests
    BY DEF Expired
  <2>2. [tx[s] EXCEPT !.stage = "scanned", !.left = Expired] \in Transactions
    BY <1>a, <2>1 DEF TypeOK, Transactions
  <2>3. tx' \in [Sessions -> Transactions]
    BY <1>1, <2>2 DEF Scan, TypeOK
  <2> QED BY <1>1, <2>3 DEF Scan, TypeOK, rows
<1>2. CASE Sweep(s)
  <2>1. PICK r \in tx[s].left :
           /\ Free(r, s)
           /\ IF r \in Expired
              THEN /\ holder' = [holder EXCEPT ![r] = s]
                   /\ tx' = [tx EXCEPT ![s].left = @ \ {r}, ![s].swept = @ \cup {r}]
              ELSE /\ tx' = [tx EXCEPT ![s].left = @ \ {r}]
                   /\ UNCHANGED holder
    BY <1>2 DEF Sweep
  <2>2. tx[s] \in Transactions /\ r \in Requests
    BY <2>1 DEF TypeOK, Transactions
  <2>3. tx' \in [Sessions -> Transactions]
    <3>1. /\ [tx[s] EXCEPT !.left = @ \ {r}] \in Transactions
          /\ [tx[s] EXCEPT !.left = @ \ {r}, !.swept = @ \cup {r}] \in Transactions
      BY <2>2 DEF Transactions
    <3> QED BY <2>1, <3>1 DEF TypeOK
  <2>4. holder' \in [Rows -> Sessions \cup {Nobody}]
    BY <2>1 DEF TypeOK
  <2> QED BY <1>2, <2>3, <2>4 DEF Sweep, TypeOK, rows
<1>3. CASE CountRunning(s)
  BY <1>3, <1>a, PassType, ClaimNothingType DEF CountRunning, TypeOK, rows
<1>4. CASE Pick(s)
  <2>1. CASE ClaimNothing(s)
    BY <2>1, ClaimNothingType
  <2>2. ASSUME NEW r \in Claimable(s), holder' = [holder EXCEPT ![r] = s],
               tx' = [tx EXCEPT ![s].on = r, ![s].stage = "passed"],
               UNCHANGED <<rows, overdue, spent>>
        PROVE  TypeOK'
    <3>1. r \in Requests
      BY DEF Claimable, Queued
    <3>2. [tx[s] EXCEPT !.on = r, !.stage = "passed"] \in Transactions
      BY <1>a, <3>1 DEF TypeOK, Transactions
    <3>3. tx' \in [Sessions -> Transactions]
      BY <2>2, <3>2 DEF TypeOK
    <3> QED BY <2>2, <3>3 DEF TypeOK, rows
  <2> QED BY <1>4, <2>1, <2>2 DEF Pick
<1>5. CASE Claim(s)
  <2>1. [Swept(s) EXCEPT ![tx[s].on] = "RUNNING"] \in [Requests -> Statuses]
    BY DEF Swept, TypeOK, Statuses, Terminal, Active
  <2>2. fence' \in [Requests -> Sessions \cup {Nobody}]
    BY <1>5 DEF Claim, TypeOK
  <2> QED BY <1>5, <2>1, <2>2, WriteType, EndType DEF Claim, TypeOK
<1> QED BY <1>1, <1>2, <1>3, <1>4, <1>5

LEMMA ReportType ==
    ASSUME TypeOK, Fits, NEW s \in Sessions,
           \/ CheckOwner(s) \/ CheckAuthority(s) \/ Heartbeat(s) \/ Progress(s)
           \/ \E o \in Outcomes : Finish(s, o)
    PROVE  TypeOK'
<1> USE DEF Statuses, Active, Terminal
<1>a. {"owned", "passed", "late"} \subseteq Stages
  BY DEF Stages
<1>1. CASE CheckOwner(s)
  BY <1>1, <1>a, EndType, PassType DEF CheckOwner, TypeOK, rows
<1>2. CASE CheckAuthority(s)
  BY <1>2, <1>a, PassType DEF CheckAuthority, TypeOK, rows
<1>3. CASE Heartbeat(s)
  BY <1>3, EndType DEF Heartbeat, TypeOK, rows
<1>4. CASE Progress(s)
  <2>1. /\ status' \in [Requests -> Statuses]
        /\ events' \in [Requests -> Seq(Statuses)]
        /\ overdue' \in SUBSET Requests /\ spent' \in SUBSET Requests
        /\ answered' = answered
    <3>1. CASE WriteOne(tx[s].on, "RUNNING") /\ UNCHANGED answered
      BY <3>1, WriteOneType
    <3>2. CASE Keep
      BY <3>2 DEF Keep, TypeOK
    <3> QED BY <1>4, <3>1, <3>2 DEF Progress
  <2> QED BY <1>4, <2>1, EndType DEF Progress, TypeOK
<1>5. ASSUME NEW o \in Outcomes, Finish(s, o) PROVE TypeOK'
  <2>1. Settled(s, o) \in Statuses
    BY TransactionsAssumption DEF Settled
  <2>2. tx[s].on \in Requests
    BY <1>5 DEF Finish, Fits, In, OnRun, Fenced
  <2> QED BY <1>5, <2>1, <2>2, WriteOneType, EndType DEF Finish, TypeOK
<1> QED BY <1>1, <1>2, <1>3, <1>4, <1>5

(* What a statement leaves of its session's transaction.                   *)
Left(s, t) ==
    \/ t = Idle
    \/ /\ t.method = tx[s].method
       /\ t.on = tx[s].on \/ tx[s].method = "claim"

LEMMA OwnStep ==
    ASSUME TypeOK, NEW s \in Sessions, Statement(s)
    PROVE  /\ tx[s].method \in Methods
           /\ \A t \in Sessions \ {s} : tx'[t] = tx[t]
           /\ Left(s, tx'[s])
<1> DEFINE Goal == (\A t \in Sessions \ {s} : tx'[t] = tx[t]) /\ Left(s, tx'[s])
<1>a. tx \in [Sessions -> Transactions] /\ tx[s] \in Transactions
  BY DEF TypeOK
<1>3. tx[s].method \in Methods
  <2>1. Statement(s) => tx[s].method # "none"
    BY DEF Statement, Lock, Locking, Rollback, CreateConversation, Cancel, Observe,
           CountRuns, CountPending, Enqueue, CheckDelete, Cascade, Delete, Scan, Sweep,
           CountRunning, Pick, Claim, CheckOwner, CheckAuthority, Heartbeat, Progress,
           Finish, Ready, In, Fenced
  <2> QED BY <2>1, <1>a DEF Transactions
<1> SUFFICES Goal
  BY <1>3
<1>1. ASSUME End(s) PROVE Goal
  BY <1>1, <1>a DEF End, Left
<1>2. ASSUME NEW g, Pass(s, g) PROVE Goal
  BY <1>2, <1>a DEF Pass, Left, Transactions
<1>4. CASE Lock(s)
  <2>1. CASE tx' = [tx EXCEPT ![s].locked = @ + 1]
    BY <1>a, <2>1 DEF Left, Transactions
  <2> QED BY <1>1, <1>4, <2>1 DEF Lock
<1>5. CASE CheckDelete(s)
  <2>1. CASE tx' = [tx EXCEPT ![s].stage = "passed", ![s].left = RunsOf(tx[s].on)]
    BY <1>a, <2>1 DEF Left, Transactions
  <2> QED BY <1>1, <1>5, <2>1 DEF CheckDelete
<1>6. CASE Scan(s)
  BY <1>a, <1>6 DEF Left, Transactions, Scan
<1>7. CASE Cascade(s) \/ Sweep(s)
  <2>1. ASSUME NEW r, tx' = [tx EXCEPT ![s].left = @ \ {r}] PROVE Goal
    BY <1>a, <2>1 DEF Left, Transactions
  <2>2. ASSUME NEW r, tx' = [tx EXCEPT ![s].left = @ \ {r}, ![s].swept = @ \cup {r}]
        PROVE  Goal
    BY <1>a, <2>2 DEF Left, Transactions
  <2> QED BY <1>7, <2>1, <2>2 DEF Cascade, Sweep
<1>8. CASE Pick(s)
  <2>1. CASE ClaimNothing(s)
    BY <1>1, <2>1 DEF ClaimNothing
  <2>2. ASSUME NEW r, tx' = [tx EXCEPT ![s].on = r, ![s].stage = "passed"]
        PROVE  Goal
    BY <1>8, <1>a, <2>2 DEF Left, Transactions, Pick, In
  <2> QED BY <1>8, <2>1, <2>2 DEF Pick
<1>9. CASE CountRunning(s)
  BY <1>9, <1>1, <1>2 DEF CountRunning, ClaimNothing
<1>10. CASE CreateConversation(s) \/ CountRuns(s) \/ CountPending(s)
  BY <1>10, <1>1, <1>2 DEF CreateConversation, CountRuns, CountPending
<1>11. CASE CheckOwner(s) \/ CheckAuthority(s)
  BY <1>11, <1>1, <1>2 DEF CheckOwner, CheckAuthority
<1>12. CASE \/ Cancel(s) \/ Observe(s) \/ Rollback(s) \/ Enqueue(s) \/ Delete(s)
            \/ Claim(s) \/ Heartbeat(s) \/ Progress(s)
            \/ \E o \in Outcomes : Finish(s, o)
  <2>1. End(s)
    BY <1>12 DEF Cancel, Observe, Rollback, Enqueue, Delete, Claim, Heartbeat, Progress,
       Finish
  <2> QED BY <1>1, <2>1
<1> QED BY <1>4, <1>5, <1>6, <1>7, <1>8, <1>9, <1>10, <1>11, <1>12 DEF Statement

LEMMA InitFits == Init => Fits
BY DEF Init, Fits, Idle, Begun, OnConversation, OnRun, Fenced

LEMMA NextFits == ASSUME TypeOK, Fits, [Next]_vars PROVE Fits'
<1> USE DEF Fits
<1>1. ASSUME NEW s \in Sessions, NEW m \in Methods,
             NEW x \in Conversations \cup Requests \cup {Nobody}, Begin(s, m, x)
      PROVE  Fits'
  <2>1. /\ m \in OnConversation => x \in Conversations
        /\ m \in OnRun => x \in Requests
    <3>1. CASE m \in OnConversation
      BY <1>1, <3>1 DEF Begin, OnConversation, OnRun, Fenced
    <3>2. CASE m \in Fenced
      BY <1>1, <3>2 DEF Begin, OnConversation, Fenced
    <3>3. CASE m \in OnRun \ Fenced
      BY <1>1, <3>3 DEF Begin, OnConversation, OnRun, Fenced
    <3> QED BY <3>1, <3>2, <3>3
  <2>2. \A t \in Sessions : tx'[t] = IF t = s THEN Begun(m, x) ELSE tx[t]
    BY <1>1 DEF Begin, TypeOK
  <2>3. Begun(m, x).method = m /\ Begun(m, x).on = x
    BY DEF Begun
  <2> QED BY <2>1, <2>2, <2>3
<1>2. ASSUME NEW s \in Sessions, Statement(s) PROVE Fits'
  <2>1. Idle.method = "none" /\ "none" \notin OnConversation \cup OnRun
    BY DEF Idle, Begun, OnConversation, OnRun, Fenced
  <2>2. "claim" \notin OnConversation \cup OnRun
    BY DEF OnConversation, OnRun, Fenced
  <2> QED BY <1>2, <2>1, <2>2, OwnStep DEF Left
<1>3. CASE (\E r \in Requests : Expire(r)) \/ UNCHANGED vars
  BY <1>3 DEF Expire, vars
<1> QED BY <1>1, <1>2, <1>3 DEF Next

LEMMA NextType == ASSUME TypeOK, Fits, [Next]_vars PROVE TypeOK'
<1>1. ASSUME NEW r \in Requests, Expire(r) PROVE TypeOK'
  BY <1>1 DEF Expire, TypeOK, rows
<1>2. CASE UNCHANGED vars
  BY <1>2 DEF vars, rows, TypeOK
<1>3. ASSUME NEW s \in Sessions, Statement(s) PROVE TypeOK'
  BY <1>3, LockType, ApiType, ClaimType, ReportType DEF Statement
<1> QED BY <1>1, <1>2, <1>3, BeginType DEF Next

(* The rows and the sessions' transactions stay well formed.               *)
THEOREM TypeCorrect == Spec => []TypeOK
<1>1. Init => TypeOK /\ Fits
  BY InitType, InitFits
<1>2. TypeOK /\ Fits /\ [Next]_vars => (TypeOK /\ Fits)'
  BY NextType, NextFits
<1> QED BY <1>1, <1>2, PTL DEF Spec
-----------------------------------------------------------------------------
(* The order of the locks                                                  *)

(* The methods that begin with the admission row.                          *)
Admitting == {"create", "enqueue", "delete", "claim", "publish"}

(* A transaction has the rows its method begins with.                      *)
Full(s) == tx[s].locked >= IF tx[s].method \in {"enqueue", "delete", "publish"} THEN 2 ELSE 1

(* Why a session may hold a row.                                           *)
Acquired(s, x) ==
    \/ x = "admission" /\ tx[s].method \in Admitting /\ tx[s].locked > 0
    \/ x = "grants" /\ tx[s].method = "publish" /\ Full(s)
    \/ x \in Conversations /\ tx[s].method \in {"conversation", "enqueue", "delete"} /\ Full(s)
    \/ /\ x \in Requests /\ Full(s)
       /\ tx[s].method \in {"cancel", "read", "claim", "delete"} \cup Fenced

(* The order: what a session holds, it asked for in the order of its       *)
(* method, and several runs it asks for only under the admission row.      *)
Ordered(s) ==
    /\ \A x \in Rows : holder[x] = s => Acquired(s, x)
    /\ tx[s].method \in Admitting /\ tx[s].locked > 0 => holder["admission"] = s
    /\ tx[s].left # {} => tx[s].method \in {"claim", "delete"} /\ Full(s)
    /\ tx[s].stage # "begun" => tx[s].method # "none" /\ Full(s)

LockInv == \A s \in Sessions : Ordered(s)

LEMMA FullIsReady ==
    ASSUME TypeOK, NEW s \in Sessions, tx[s].method # "none"
    PROVE  (Ready(s) <=> Full(s)) /\ (Locking(s) <=> ~ Full(s))
<1>1. tx[s].method \in Methods /\ tx[s].locked \in 0..2
  BY DEF TypeOK, Transactions
<1>2. Len(Locks(tx[s].method)) = IF tx[s].method \in {"enqueue", "delete", "publish"} THEN 2 ELSE 1
  <2>1. /\ Len(<<"admission">>) = 1 /\ Len(<<"conversation">>) = 1 /\ Len(<<"run">>) = 1
        /\ Len(<<"admission", "conversation">>) = 2 /\ Len(<<"admission", "grants">>) = 2
    OBVIOUS
  <2> QED BY <1>1, <2>1, LockOrder DEF Methods, OnConversation, OnRun, Fenced
<1> QED BY <1>1, <1>2 DEF Ready, Locking, Full

(* The row a session locks next.                                           *)
LEMMA NextRow ==
    ASSUME TypeOK, Fits, NEW s \in Sessions, Locking(s), NEW x \in Wanted(s)
    PROVE  /\ x \in Rows
           /\ \/ /\ tx[s].locked = 0 /\ x = "admission" /\ tx[s].method \in Admitting
              \/ /\ tx[s].locked = 1 /\ x = "grants" /\ tx[s].method = "publish"
              \/ /\ tx[s].locked = 1 /\ x \in Conversations
                 /\ tx[s].method \in {"enqueue", "delete"}
              \/ /\ tx[s].locked = 0 /\ x \in Conversations /\ tx[s].method = "conversation"
              \/ /\ tx[s].locked = 0 /\ x \in Requests
                 /\ tx[s].method \in {"cancel", "read"} \cup Fenced
<1> DEFINE m == tx[s].method
           n == tx[s].locked
<1>1. m \in Methods /\ n \in 0..2 /\ ~ Full(s)
  BY FullIsReady DEF Locking, TypeOK, Transactions
<1>2. x = Row(tx[s], Locks(m)[n + 1])
  BY DEF Wanted
<1>3. CASE m \in {"create", "claim"}
  <2>1. n = 0 /\ Locks(m)[n + 1] = "admission"
    BY <1>1, <1>3, LockOrder DEF Full
  <2> QED BY <1>2, <1>3, <2>1 DEF Row, Admitting, Rows
<1>4. CASE m \in {"enqueue", "delete"}
  <2>1. \/ n = 0 /\ Locks(m)[n + 1] = "admission"
        \/ n = 1 /\ Locks(m)[n + 1] = "conversation"
    BY <1>1, <1>4, LockOrder DEF Full
  <2>2. CASE n = 0
    BY <1>2, <1>4, <2>1, <2>2 DEF Row, Admitting, Rows
  <2>3. CASE n = 1
    <3>1. tx[s].on \in Requests => ConvOf[tx[s].on] \in Conversations
      BY TransactionsAssumption
    <3>2. \/ m = "enqueue" /\ tx[s].on \in Requests
          \/ m = "delete" /\ tx[s].on \in Conversations
      BY <1>4 DEF Fits, OnConversation, OnRun
    <3>3. x \in Conversations
      BY <1>2, <2>1, <2>3, <3>1, <3>2, TransactionsAssumption DEF Row
    <3> QED BY <1>4, <2>3, <3>3 DEF Rows
  <2> QED BY <2>1, <2>2, <2>3
<1>5. CASE m = "publish"
  <2>1. \/ n = 0 /\ Locks(m)[n + 1] = "admission"
        \/ n = 1 /\ Locks(m)[n + 1] = "grants"
    BY <1>1, <1>5, LockOrder DEF Full
  <2> QED BY <1>2, <1>5, <2>1 DEF Row, Admitting, Rows
<1>6. CASE m = "conversation"
  <2>1. n = 0 /\ Locks(m)[n + 1] = "conversation" /\ tx[s].on \in Conversations
    BY <1>1, <1>6, LockOrder DEF Full, Fits, OnConversation
  <2>2. x = tx[s].on
    BY <1>2, <2>1, TransactionsAssumption DEF Row
  <2> QED BY <1>6, <2>1, <2>2 DEF Rows
<1>7. CASE m \in {"cancel", "read"} \cup Fenced
  <2>1. n = 0 /\ Locks(m)[n + 1] = "run" /\ tx[s].on \in Requests
    BY <1>1, <1>7, LockOrder DEF Full, Fits, OnRun, Fenced
  <2>2. x = tx[s].on
    BY <1>2, <2>1 DEF Row
  <2> QED BY <1>7, <2>1, <2>2 DEF Rows
<1> QED BY <1>1, <1>3, <1>4, <1>5, <1>6, <1>7 DEF Methods, OnConversation, OnRun

(* A statement takes rows nobody else has, and gives up only its own.      *)
LEMMA OthersLocks ==
    ASSUME TypeOK, NEW s \in Sessions, Statement(s), NEW t \in Sessions \ {s}, NEW x \in Rows
    PROVE  holder'[x] = t <=> holder[x] = t
<1> DEFINE Goal == holder'[x] = t <=> holder[x] = t
<1>a. holder \in [Rows -> Sessions \cup {Nobody}] /\ Nobody # t
  BY TransactionsAssumption DEF TypeOK
<1>1. ASSUME End(s) PROVE Goal
  BY <1>1, <1>a DEF End
<1>2. ASSUME UNCHANGED holder PROVE Goal
  BY <1>2
<1>3. ASSUME NEW y, Free(y, s), holder' = [holder EXCEPT ![y] = s] PROVE Goal
  BY <1>3, <1>a DEF Free
<1>4. CASE Lock(s)
  BY <1>4, <1>1, <1>3 DEF Lock
<1>5. CASE Cascade(s) \/ Sweep(s)
  BY <1>5, <1>2, <1>3 DEF Cascade, Sweep
<1>6. CASE Pick(s)
  <2>1. CASE ClaimNothing(s)
    BY <1>1, <2>1 DEF ClaimNothing
  <2>2. ASSUME NEW r \in Claimable(s), holder' = [holder EXCEPT ![r] = s] PROVE Goal
    <3>1. Free(r, s)
      BY DEF Claimable, Free
    <3> QED BY <1>3, <2>2, <3>1
  <2> QED BY <1>6, <2>1, <2>2 DEF Pick
<1>7. CASE \/ CreateConversation(s) \/ CountRuns(s) \/ CountPending(s) \/ CheckDelete(s)
           \/ Scan(s) \/ CheckOwner(s) \/ CheckAuthority(s) \/ CountRunning(s)
  BY <1>7, <1>1, <1>2 DEF CreateConversation, CountRuns, CountPending, CheckDelete,
     Scan, CheckOwner, CheckAuthority, CountRunning, ClaimNothing
<1>8. CASE \/ Cancel(s) \/ Observe(s) \/ Rollback(s) \/ Enqueue(s) \/ Delete(s)
           \/ Claim(s) \/ Heartbeat(s) \/ Progress(s)
           \/ \E o \in Outcomes : Finish(s, o)
  BY <1>8, <1>1 DEF Cancel, Observe, Rollback, Enqueue, Delete, Claim, Heartbeat,
     Progress, Finish
<1> QED BY <1>4, <1>5, <1>6, <1>7, <1>8 DEF Statement

LEMMA OthersOrdered ==
    ASSUME TypeOK, NEW s \in Sessions, Statement(s), NEW t \in Sessions \ {s}, Ordered(t)
    PROVE  Ordered(t)'
<1>1. tx'[t] = tx[t]
  BY OwnStep
<1>2. \A x \in Rows : holder'[x] = t <=> holder[x] = t
  BY OthersLocks
<1>3. "admission" \in Rows
  BY DEF Rows
<1> QED BY <1>1, <1>2, <1>3 DEF Ordered, Acquired, Full

(* At its end a session holds nothing.                                     *)
LEMMA EndOrdered ==
    ASSUME TypeOK, NEW s \in Sessions, End(s)
    PROVE  Ordered(s)'
<1>1. tx'[s] = Idle /\ \A x \in Rows : holder'[x] # s
  BY TransactionsAssumption DEF End, TypeOK
<1>2. Idle.method = "none" /\ Idle.left = {} /\ Idle.stage = "begun"
  BY DEF Idle, Begun
<1> QED BY <1>1, <1>2 DEF Ordered, Admitting

LEMMA LockOrdered ==
    ASSUME TypeOK, Fits, NEW s \in Sessions, Lock(s), Ordered(s)
    PROVE  Ordered(s)'
<1>1. ASSUME NEW x \in Wanted(s), holder' = [holder EXCEPT ![x] = s],
             tx' = [tx EXCEPT ![s].locked = @ + 1]
      PROVE  Ordered(s)'
  <2> DEFINE m == tx[s].method
             n == tx[s].locked
  <2>1. Locking(s)
    BY DEF Lock
  <2>2. tx[s] \in Transactions /\ n \in 0..2
    BY DEF TypeOK, Transactions
  <2>3. /\ tx'[s].method = m /\ tx'[s].locked = n + 1
        /\ tx'[s].left = tx[s].left /\ tx'[s].stage = tx[s].stage
    BY <1>1, <2>2 DEF TypeOK, Transactions
  <2>4. \A y \in Rows : holder'[y] = s => y = x \/ holder[y] = s
    BY <1>1 DEF TypeOK
  <2>5. x \in Rows /\ holder'[x] = s /\ \A y \in Rows : holder[y] = s => holder'[y] = s
    BY <1>1, <2>1, NextRow DEF TypeOK
  <2>6. Full(s) => Full(s)'
    BY <2>2, <2>3 DEF Full
  <2>7. \A y \in Rows : Acquired(s, y) => Acquired(s, y)'
    BY <2>2, <2>3, <2>6 DEF Acquired
  <2>8. Acquired(s, x)'
    BY <2>1, <2>2, <2>3, NextRow DEF Acquired, Full, Admitting, Fenced
  <2>9. m \in Admitting => holder'["admission"] = s
    <3>1. CASE n > 0
      BY <2>5, <3>1 DEF Ordered, Rows
    <3>2. CASE n = 0 /\ m \in Admitting
      <4>1. x = "admission"
        BY <2>1, <3>2, NextRow DEF Admitting, Fenced
      <4> QED BY <2>5, <4>1
    <3> QED BY <2>2, <3>1, <3>2
  <2> QED BY <2>3, <2>4, <2>6, <2>7, <2>8, <2>9 DEF Ordered
<1> QED BY <1>1, EndOrdered DEF Lock

(* A check that the transaction passes changes neither its rows nor what   *)
(* it waits for.                                                           *)
LEMMA PassOrdered ==
    ASSUME TypeOK, NEW s \in Sessions, NEW g, Pass(s, g), UNCHANGED holder,
           tx[s].method # "none", Full(s), Ordered(s)
    PROVE  Ordered(s)'
<1>1. /\ tx'[s].method = tx[s].method /\ tx'[s].locked = tx[s].locked
      /\ tx'[s].left = tx[s].left
  BY DEF Pass, TypeOK, Transactions
<1> QED BY <1>1 DEF Ordered, Acquired, Full

(* A claim or a deletion that takes one more run keeps the order.          *)
LEMMA TakesRun ==
    ASSUME TypeOK, NEW s \in Sessions, Ordered(s), NEW r \in Requests,
           tx[s].method \in {"claim", "delete"}, Full(s),
           tx'[s].method = tx[s].method, tx'[s].locked = tx[s].locked,
           holder' = [holder EXCEPT ![r] = s] \/ UNCHANGED holder
    PROVE  Ordered(s)'
<1>a. \A y \in Rows : /\ holder'[y] = s => y = r \/ holder[y] = s
                      /\ holder[y] = s => holder'[y] = s
  BY DEF TypeOK
<1>1. Full(s)'
  BY DEF Full
<1>2. Acquired(s, r)'
  BY <1>1 DEF Acquired
<1>3. \A y \in Rows : Acquired(s, y) => Acquired(s, y)'
  BY <1>1 DEF Acquired
<1>4. "admission" \in Rows
  BY DEF Rows
<1>5. ASSUME NEW y \in Rows, holder'[y] = s PROVE Acquired(s, y)'
  <2>1. CASE y = r
    BY <1>2, <2>1 DEF Acquired
  <2>2. CASE holder[y] = s
    BY <1>3, <2>2 DEF Ordered
  <2> QED BY <1>a, <1>5, <2>1, <2>2
<1>6. tx'[s].method \in Admitting /\ tx'[s].locked > 0 => holder'["admission"] = s
  <2>1. tx[s].method \in Admitting /\ tx[s].locked > 0 => holder["admission"] = s
    BY DEF Ordered
  <2> QED BY <1>a, <1>4, <2>1
<1> QED BY <1>1, <1>5, <1>6 DEF Ordered

LEMMA OwnOrdered ==
    ASSUME TypeOK, Fits, NEW s \in Sessions, Statement(s), Ordered(s)
    PROVE  Ordered(s)'
<1>a. tx[s] \in Transactions /\ tx[s].method \in Methods /\ tx[s].method # "none"
  <2>1. "none" \notin Methods
    BY DEF Methods, OnConversation, OnRun, Fenced
  <2> QED BY <2>1, OwnStep DEF TypeOK
<1>b. Ready(s) => Full(s)
  BY <1>a, FullIsReady
<1>1. CASE Lock(s)
  BY <1>1, LockOrdered
<1>2. CASE CheckDelete(s)
  <2>1. ASSUME UNCHANGED holder,
               tx' = [tx EXCEPT ![s].stage = "passed", ![s].left = RunsOf(tx[s].on)]
        PROVE  Ordered(s)'
    <3>1. /\ tx'[s].method = tx[s].method /\ tx'[s].locked = tx[s].locked
          /\ tx[s].method = "delete" /\ Full(s)
      BY <1>2, <1>b, <2>1, <1>a DEF CheckDelete, In, TypeOK, Transactions
    <3> QED BY <2>1, <3>1 DEF Ordered, Acquired, Full
  <2> QED BY <1>2, <2>1, EndOrdered DEF CheckDelete
<1>3. CASE Scan(s)
  <2>1. /\ tx'[s].method = tx[s].method /\ tx'[s].locked = tx[s].locked
        /\ tx[s].method = "claim" /\ Full(s) /\ UNCHANGED holder
    BY <1>3, <1>b, <1>a DEF Scan, In, TypeOK, Transactions
  <2> QED BY <2>1 DEF Ordered, Acquired, Full
<1>4. CASE Cascade(s) \/ Sweep(s)
  <2>1. PICK r \in tx[s].left :
           /\ holder' = [holder EXCEPT ![r] = s] \/ UNCHANGED holder
           /\ \/ tx' = [tx EXCEPT ![s].left = @ \ {r}]
              \/ tx' = [tx EXCEPT ![s].left = @ \ {r}, ![s].swept = @ \cup {r}]
    BY <1>4 DEF Cascade, Sweep
  <2>2. /\ tx'[s].method = tx[s].method /\ tx'[s].locked = tx[s].locked
        /\ tx'[s].stage = tx[s].stage
    BY <2>1, <1>a DEF TypeOK, Transactions
  <2>3. r \in Requests /\ tx[s].method \in {"claim", "delete"} /\ Full(s)
    BY <2>1, <1>a DEF Ordered, Transactions
  <2> QED BY <2>1, <2>2, <2>3, TakesRun
<1>5. CASE Pick(s)
  <2>1. ASSUME NEW r \in Claimable(s), holder' = [holder EXCEPT ![r] = s],
               tx' = [tx EXCEPT ![s].on = r, ![s].stage = "passed"]
        PROVE  Ordered(s)'
    <3>1. /\ tx'[s].method = tx[s].method /\ tx'[s].locked = tx[s].locked
          /\ tx'[s].left = tx[s].left
      BY <2>1, <1>a DEF TypeOK, Transactions
    <3>2. tx[s].method = "claim" /\ Full(s) /\ r \in Requests
      BY <1>5 DEF Pick, In, Ordered, Claimable, Queued
    <3> QED BY <2>1, <3>1, <3>2, TakesRun
  <2>2. CASE ClaimNothing(s)
    BY <2>2, EndOrdered DEF ClaimNothing
  <2> QED BY <1>5, <2>1, <2>2 DEF Pick
<1>6. CASE CreateConversation(s) \/ CountRuns(s) \/ CountPending(s) \/ CheckOwner(s)
  BY <1>6, <1>a, <1>b, EndOrdered, PassOrdered DEF CreateConversation, CountRuns,
     CountPending, CheckOwner
<1>7. CASE CountRunning(s) \/ CheckAuthority(s)
  <2>1. Full(s)
    BY <1>7 DEF CountRunning, CheckAuthority, Ordered
  <2> QED BY <1>7, <1>a, <2>1, EndOrdered, PassOrdered DEF CountRunning, ClaimNothing,
          CheckAuthority
<1>8. CASE \/ Cancel(s) \/ Observe(s) \/ Rollback(s) \/ Enqueue(s) \/ Delete(s)
           \/ Claim(s) \/ Heartbeat(s) \/ Progress(s)
           \/ \E o \in Outcomes : Finish(s, o)
  BY <1>8, EndOrdered DEF Cancel, Observe, Rollback, Enqueue, Delete, Claim, Heartbeat,
     Progress, Finish
<1> QED BY <1>1, <1>2, <1>3, <1>4, <1>5, <1>6, <1>7, <1>8 DEF Statement

LEMMA NextLocks == ASSUME TypeOK, Fits, LockInv, [Next]_vars PROVE LockInv'
<1>1. ASSUME NEW s \in Sessions, NEW m \in Methods,
             NEW x \in Conversations \cup Requests \cup {Nobody}, Begin(s, m, x)
      PROVE  LockInv'
  <2>1. \A t \in Sessions : tx'[t] = IF t = s THEN Begun(m, x) ELSE tx[t]
    BY <1>1 DEF Begin, TypeOK
  <2>2. UNCHANGED holder /\ tx[s].method = "none"
    BY <1>1 DEF Begin, In
  <2>3. \A y \in Rows : holder[y] # s
    BY <2>2 DEF LockInv, Ordered, Acquired, Admitting, Fenced
  <2>4. Begun(m, x).left = {} /\ Begun(m, x).locked = 0 /\ Begun(m, x).stage = "begun"
    BY DEF Begun
  <2> QED BY <2>1, <2>2, <2>3, <2>4 DEF LockInv, Ordered, Acquired, Full
<1>2. ASSUME NEW s \in Sessions, Statement(s) PROVE LockInv'
  BY <1>2, OthersOrdered, OwnOrdered DEF LockInv
<1>3. CASE (\E r \in Requests : Expire(r)) \/ UNCHANGED vars
  BY <1>3 DEF Expire, vars, LockInv, Ordered, Acquired, Full
<1> QED BY <1>1, <1>2, <1>3 DEF Next

LEMMA InitLocks == Init => LockInv
BY TransactionsAssumption DEF Init, LockInv, Ordered, Idle, Begun, Admitting

(* A session that waits while another waits for it has the admission row.  *)
LEMMA WaitingHasAdmission ==
    ASSUME TypeOK, Fits, LockInv, NEW s \in Sessions, NEW t \in Sessions,
           WaitsFor(s, t), NEW z \in Wanted(t)
    PROVE  /\ holder["admission"] = t
           /\ z # "admission"
<1>1. tx[s] \in Transactions /\ tx[t] \in Transactions
  BY DEF TypeOK
<1>2. PICK x \in Wanted(s) : holder[x] = t
  BY DEF WaitsFor
<1>3. x \in Rows
  BY <1>1, NextRow DEF Wanted, Rows, Transactions
<1>4. Acquired(t, x)
  BY <1>2, <1>3 DEF LockInv, Ordered
<1>5. tx[t].method # "none"
  BY <1>4 DEF Acquired, Admitting, Fenced
<1>6. CASE Locking(t)
  <2>1. ~ Full(t)
    BY <1>5, <1>6, FullIsReady
  <2>2. x = "admission" /\ tx[t].method \in Admitting /\ tx[t].locked > 0
    BY <1>4, <2>1 DEF Acquired
  <2>3. z # "admission"
    BY <1>1, <1>6, <2>2, NextRow, TransactionsAssumption DEF Transactions
  <2> QED BY <2>2, <2>3 DEF LockInv, Ordered
<1>7. CASE ~ Locking(t)
  <2>1. z \in tx[t].left /\ z \in Requests
    BY <1>1, <1>7 DEF Wanted, Transactions
  <2>2. tx[t].method \in {"claim", "delete"} /\ Full(t)
    BY <2>1 DEF LockInv, Ordered
  <2>3. tx[t].locked > 0
    BY <1>1, <2>2 DEF Full, Transactions
  <2> QED BY <2>1, <2>2, <2>3, TransactionsAssumption DEF LockInv, Ordered, Admitting
<1> QED BY <1>6, <1>7

(* Nor is there a deadlock among any number of sessions: of two sessions   *)
(* of a cycle that follow each other, both would have the admission row.   *)
LEMMA OrderedNeverDeadlocks == TypeOK /\ Fits /\ LockInv => NoDeadlock
<1> SUFFICES ASSUME TypeOK, Fits, LockInv, NEW S \in SUBSET Sessions, S # {},
                    \A s \in S : \E t \in S \ {s} : WaitsFor(s, t)
             PROVE  FALSE
  BY DEF NoDeadlock
<1>1. PICK s \in S : TRUE
  OBVIOUS
<1>2. PICK t \in S \ {s} : WaitsFor(s, t)
  OBVIOUS
<1>3. PICK u \in S \ {t} : WaitsFor(t, u)
  BY <1>2
<1>4. PICK v \in S \ {u} : WaitsFor(u, v)
  BY <1>3
<1>5. holder["admission"] = t
  BY <1>2, <1>3, WaitingHasAdmission DEF WaitsFor
<1>6. holder["admission"] = u
  BY <1>3, <1>4, WaitingHasAdmission DEF WaitsFor
<1> QED BY <1>3, <1>5, <1>6

(* No methods of the store ever wait for each other in a circle.           *)
THEOREM NeverDeadlocked == Spec => []NoDeadlock
<1>1. Init => TypeOK /\ Fits /\ LockInv
  BY InitType, InitFits, InitLocks
<1>2. TypeOK /\ Fits /\ LockInv /\ [Next]_vars => (TypeOK /\ Fits /\ LockInv)'
  BY NextType, NextFits, NextLocks
<1> QED BY <1>1, <1>2, OrderedNeverDeadlocks, PTL DEF Spec
-----------------------------------------------------------------------------
(* The admission limits and the journal                                    *)

(* What a session has locked for the write its method ends with.           *)
Held(t) ==
    /\ Full(t) /\ tx[t].method \in {"cancel", "read"} \cup Fenced => holder[tx[t].on] = t
    /\ tx[t].method \in Fenced /\ tx[t].stage # "begun" => status[tx[t].on] \in Executing
    /\ tx[t].method = "claim" =>
          \A r \in tx[t].swept : holder[r] = t /\ status[r] \in Active
    /\ tx[t].method = "claim" /\ tx[t].stage \in {"counted", "passed"} => tx[t].left = {}
    /\ tx[t].method = "claim" /\ tx[t].stage = "passed" =>
          /\ tx[t].on \in Requests \ tx[t].swept
          /\ holder[tx[t].on] = t /\ status[tx[t].on] = "QUEUED"

(* What a session counted still leaves room for the row it will add.       *)
Room(t) ==
    /\ tx[t].method = "create" /\ tx[t].stage = "passed" =>
          Cardinality(OpenConvs) < MaximumConversations
    /\ tx[t].method = "enqueue" /\ tx[t].stage # "begun" =>
          /\ status[tx[t].on] = "ABSENT" /\ ActiveIn(ConvOf[tx[t].on]) = {}
          /\ Cardinality(RunsOf(ConvOf[tx[t].on])) < MaximumRuns
    /\ tx[t].method = "enqueue" /\ tx[t].stage = "passed" =>
          Cardinality(Queued) < MaximumPending
    /\ tx[t].method = "delete" /\ tx[t].stage = "passed" => ActiveIn(tx[t].on) = {}
    /\ tx[t].method = "claim" /\ tx[t].stage \in {"counted", "passed"} =>
          Cardinality(StillRunning(t)) < MaximumRunning
    /\ tx[t].method = "claim" /\ tx[t].stage = "passed" =>
          Cardinality({q \in StillRunning(t) : Tenant(q) = Tenant(tx[t].on)})
             < MaximumRunningPerTenant
    /\ tx[t].method = "enqueue" => tx[t].stage \in {"begun", "counted", "passed"}

(* The committed rows: a result only on a completed run, no event of a run *)
(* that is gone, one active run in a conversation.                         *)
RowInv ==
    /\ \A r \in answered : status[r] = "COMPLETED"
    /\ \A r \in Requests : status[r] = "ABSENT" => events[r] = << >>
    /\ Journal!OneActive

IInv ==
    /\ TypeOK /\ Fits /\ LockInv
    /\ \A t \in Sessions : Held(t)
    /\ \A t \in Sessions : Room(t)
    /\ RowInv /\ WithinLimits

(* Counting                                                                *)

LEMMA Fewer ==
    ASSUME NEW T, IsFiniteSet(T), NEW S \in SUBSET T
    PROVE  IsFiniteSet(S) /\ Cardinality(S) \in Nat /\ Cardinality(S) <= Cardinality(T)
BY FS_Subset, FS_CardinalityType

LEMMA OneMore ==
    ASSUME NEW T, IsFiniteSet(T), NEW x, NEW S \in SUBSET (T \cup {x}), NEW n \in Nat,
           Cardinality(T) < n
    PROVE  Cardinality(S) <= n
<1>1. /\ IsFiniteSet(T \cup {x})
      /\ Cardinality(T \cup {x}) = Cardinality(T) \/ Cardinality(T \cup {x}) = Cardinality(T) + 1
  BY FS_AddElement
<1>2. Cardinality(T) \in Nat
  BY FS_CardinalityType
<1>3. Cardinality(S) <= Cardinality(T \cup {x}) /\ Cardinality(S) \in Nat
  BY <1>1, Fewer
<1> QED BY <1>1, <1>2, <1>3
(* The sets the limits bound are finite.                                   *)
LEMMA Finite ==
    /\ IsFiniteSet(OpenConvs) /\ IsFiniteSet(Queued) /\ IsFiniteSet(Running)
    /\ \A c : IsFiniteSet(RunsOf(c))
    /\ \A t : IsFiniteSet(StillRunning(t))
    /\ \A t, k : IsFiniteSet({q \in StillRunning(t) : Tenant(q) = k})
    /\ \A k : IsFiniteSet({q \in Running : Tenant(q) = k})
BY TransactionsAssumption, FS_Subset DEF OpenConvs, Queued, Running, RunsOf, StillRunning
-----------------------------------------------------------------------------
(* What a statement does to the rows of runs                               *)

(* One written run, from a to b.                                           *)
Moves ==
    {<<"QUEUED", "CANCELLED">>, <<"RUNNING", "CANCELLATION_REQUESTED">>,
     <<"QUEUED", "RUNNING">>, <<"RUNNING", "RUNNING">>, <<"RUNNING", "COMPLETED">>,
     <<"RUNNING", "FAILED">>, <<"CANCELLATION_REQUESTED", "CANCELLED">>}
    \cup {<<a, "INTERRUPTED">> : a \in Active}

HasAdmission(s) == holder["admission"] = s

Same(r) == status'[r] = status[r] /\ events'[r] = events[r] /\ (r \in answered' <=> r \in answered)

Appended(r) == /\ events'[r] = Append(events[r], status'[r])
               /\ r \in answered' <=> status'[r] = "COMPLETED"

(* The four things a statement of s may do to a run.                       *)
RunStep(s, r) ==
    \/ Same(r)
    \/ /\ holder[r] = s /\ <<status[r], status'[r]>> \in Moves /\ Appended(r)
       /\ status[r] = "QUEUED" /\ status'[r] = "RUNNING" => HasAdmission(s) /\ Claim(s)
    \/ /\ HasAdmission(s) /\ Enqueue(s)
       /\ status[r] = "ABSENT" /\ status'[r] = "QUEUED" /\ Appended(r)
    \/ /\ HasAdmission(s) /\ status[r] \in Terminal /\ status'[r] = "ABSENT"
       /\ events'[r] = << >> /\ r \notin answered'

(* A run that is written had no result before.                             *)
LEMMA NotAnswered ==
    ASSUME RowInv, NEW r \in Requests, status[r] \in Active \cup {"ABSENT"}
    PROVE  r \notin answered
BY DEF RowInv, Active

LEMMA WriteSteps ==
    ASSUME TypeOK, RowInv, NEW s \in Sessions, NEW T \in SUBSET Requests,
           NEW new \in [Requests -> Statuses], Write(T, new),
           \A r \in Requests \ T : new[r] = status[r],
           \A r \in T : /\ holder[r] = s /\ status[r] \in Active
                        /\ <<status[r], new[r]>> \in Moves
                        /\ status[r] = "QUEUED" /\ new[r] = "RUNNING" => HasAdmission(s) /\ Claim(s)
                        /\ r \in answered' <=> new[r] = "COMPLETED",
           \A r \in Requests \ T : r \in answered' <=> r \in answered
    PROVE  \A r \in Requests : RunStep(s, r)
<1>1. status' = new
  BY DEF Write
<1>2. \A r \in Requests : events'[r] = IF r \in T THEN Append(events[r], new[r]) ELSE events[r]
  BY DEF Write
<1> QED BY <1>1, <1>2 DEF RunStep, Same, Appended

LEMMA WriteOneSteps ==
    ASSUME TypeOK, RowInv, NEW s \in Sessions, NEW r \in Requests, NEW a \in Statuses,
           WriteOne(r, a), holder[r] = s, status[r] \in Active,
           <<status[r], a>> \in Moves,
           status[r] = "QUEUED" /\ a = "RUNNING" => HasAdmission(s) /\ Claim(s),
           answered' = IF a = "COMPLETED" THEN answered \cup {r} ELSE answered
    PROVE  \A q \in Requests : RunStep(s, q)
<1> DEFINE new == [status EXCEPT ![r] = a]
<1>1. new \in [Requests -> Statuses] /\ Write({r}, new)
  BY DEF TypeOK, WriteOne
<1>2. new[r] = a /\ \A q \in Requests \ {r} : new[q] = status[q]
  BY DEF TypeOK
<1>3. r \notin answered
  BY NotAnswered
<1> HIDE DEF new
<1> QED BY <1>1, <1>2, <1>3, WriteSteps

(* Nothing happens to the runs.                                            *)
LEMMA QuietSteps ==
    ASSUME UNCHANGED <<status, events, answered>>, NEW s
    PROVE  \A r \in Requests : RunStep(s, r)
BY DEF RunStep, Same

LEMMA SweptSteps ==
    ASSUME IInv, NEW s \in Sessions, tx[s].method = "claim"
    PROVE  /\ tx[s].swept \in SUBSET Requests
           /\ Swept(s) \in [Requests -> Statuses]
           /\ \A r \in Requests : Swept(s)[r] = IF r \in tx[s].swept THEN "INTERRUPTED" ELSE status[r]
           /\ \A r \in tx[s].swept : /\ holder[r] = s /\ status[r] \in Active
                                     /\ <<status[r], "INTERRUPTED">> \in Moves
<1>1. tx[s].swept \in SUBSET Requests
  BY DEF IInv, TypeOK, Transactions
<1>2. \A r \in tx[s].swept : holder[r] = s /\ status[r] \in Active
  BY DEF IInv, Held
<1>3. \A a \in Active : <<a, "INTERRUPTED">> \in Moves
  BY DEF Moves
<1>4. Swept(s) \in [Requests -> Statuses]
  BY DEF Swept, IInv, TypeOK, Statuses, Terminal
<1> QED BY <1>1, <1>2, <1>3, <1>4 DEF Swept

LEMMA ClaimNothingSteps ==
    ASSUME IInv, NEW s \in Sessions, tx[s].method = "claim", ClaimNothing(s)
    PROVE  \A r \in Requests : RunStep(s, r)
<1>1. TypeOK /\ RowInv
  BY DEF IInv
<1>2. Write(tx[s].swept, Swept(s)) /\ answered' = answered
  BY DEF ClaimNothing
<1>3. \A r \in tx[s].swept : r \notin answered /\ Swept(s)[r] = "INTERRUPTED"
  BY <1>1, SweptSteps, NotAnswered
<1> QED BY <1>1, <1>2, <1>3, SweptSteps, WriteSteps

(* A method that begins with the admission row has it once it is ready.    *)
LEMMA AdmissionHeld ==
    ASSUME IInv, NEW s \in Sessions, tx[s].method \in Admitting, Full(s)
    PROVE  HasAdmission(s)
<1>1. Ordered(s) /\ tx[s].locked \in 0..2
  BY DEF IInv, LockInv, TypeOK, Transactions
<1>2. tx[s].locked > 0
  BY <1>1 DEF Full
<1> QED BY <1>1, <1>2 DEF Ordered, HasAdmission

(* A session that waits for no first row has its transaction's rows.       *)
LEMMA ReadyFull ==
    ASSUME IInv, NEW s \in Sessions, tx[s].method # "none",
           Ready(s) \/ tx[s].stage # "begun" \/ tx[s].left # {}
    PROVE  Full(s)
BY FullIsReady DEF IInv, LockInv, Ordered

LEMMA ClaimSteps ==
    ASSUME IInv, NEW s \in Sessions, Claim(s)
    PROVE  /\ \A r \in Requests : RunStep(s, r)
           /\ tx[s].on \in Requests
           /\ status' = [Swept(s) EXCEPT ![tx[s].on] = "RUNNING"]
<1> DEFINE r == tx[s].on
           T == tx[s].swept \cup {r}
           new == [Swept(s) EXCEPT ![r] = "RUNNING"]
<1>1. TypeOK /\ RowInv /\ tx[s].method = "claim" /\ tx[s].stage = "passed"
  BY DEF IInv, Claim, In
<1>2. r \in Requests /\ r \notin tx[s].swept /\ holder[r] = s /\ status[r] = "QUEUED"
  BY <1>1 DEF IInv, Held
<1>3. HasAdmission(s)
  BY <1>1, AdmissionHeld, ReadyFull DEF Admitting
<1>4. new \in [Requests -> Statuses]
  BY <1>1, SweptSteps DEF Statuses, Active
<1>5. /\ new[r] = "RUNNING"
      /\ \A q \in Requests \ {r} : new[q] = Swept(s)[q]
  BY <1>1, <1>2, SweptSteps
<1>6. Write(T, new) /\ answered' = answered
  BY DEF Claim
<1>7. \A q \in T : q \notin answered
  <2>1. r \notin answered
    BY <1>1, <1>2, NotAnswered DEF Active
  <2>2. \A q \in tx[s].swept : q \in Requests /\ status[q] \in Active
    BY <1>1, SweptSteps
  <2>3. \A q \in tx[s].swept : q \notin answered
    BY <1>1, <2>2, NotAnswered
  <2> QED BY <2>1, <2>3
<1>8. T \in SUBSET Requests
  <2>1. tx[s].swept \subseteq Requests
    BY <1>1, SweptSteps
  <2> QED BY <1>2, <2>1
<1>9. <<"QUEUED", "RUNNING">> \in Moves /\ "QUEUED" \in Active
  BY DEF Moves, Active
<1>10. \A q \in Requests \ T : new[q] = status[q]
  BY <1>1, <1>5, SweptSteps
<1>11. \A q \in T : /\ holder[q] = s /\ status[q] \in Active
                    /\ <<status[q], new[q]>> \in Moves
                    /\ new[q] # "COMPLETED"
  BY <1>1, <1>2, <1>5, <1>9, SweptSteps
<1>12. status' = new
  BY <1>6 DEF Write
<1> HIDE DEF new, T
<1>13. \A q \in Requests : RunStep(s, q)
  BY <1>1, <1>3, <1>4, <1>6, <1>7, <1>8, <1>10, <1>11, WriteSteps
<1> QED BY <1>2, <1>12, <1>13 DEF new
LEMMA EnqueueSteps ==
    ASSUME IInv, NEW s \in Sessions, Enqueue(s)
    PROVE  /\ \A r \in Requests : RunStep(s, r)
           /\ tx[s].on \in Requests /\ status' = [status EXCEPT ![tx[s].on] = "QUEUED"]
<1> DEFINE r == tx[s].on
<1>1. tx[s].method = "enqueue" /\ tx[s].stage = "passed"
  BY DEF Enqueue, In
<1>2. HasAdmission(s)
  BY <1>1, AdmissionHeld, ReadyFull DEF Admitting
<1>3. r \in Requests /\ status[r] = "ABSENT" /\ r \notin answered
  BY <1>1, NotAnswered DEF IInv, Fits, OnRun, Room
<1>4. WriteOne(r, "QUEUED") /\ answered' = answered
  BY DEF Enqueue
<1>5. status' = [status EXCEPT ![r] = "QUEUED"] /\ status \in [Requests -> Statuses]
  BY <1>4 DEF WriteOne, Write, IInv, TypeOK
<1>6. \A q \in Requests : events'[q] = IF q = r THEN Append(events[q], status'[q]) ELSE events[q]
  BY <1>4, <1>5 DEF WriteOne, Write
<1> QED BY <1>2, <1>3, <1>4, <1>5, <1>6 DEF RunStep, Same, Appended

LEMMA DeleteSteps ==
    ASSUME IInv, NEW s \in Sessions, Delete(s)
    PROVE  /\ \A r \in Requests : RunStep(s, r)
           /\ HasAdmission(s)
<1> DEFINE c == tx[s].on
           gone == {r \in Requests : ConvOf[r] = c}
<1>1. tx[s].method = "delete" /\ tx[s].stage = "passed"
  BY DEF Delete, In
<1>2. HasAdmission(s)
  BY <1>1, AdmissionHeld, ReadyFull DEF Admitting
<1>3. ActiveIn(c) = {}
  BY <1>1 DEF IInv, Room
<1>4. \A r \in gone : status[r] \in Terminal \/ status[r] = "ABSENT"
  BY <1>3 DEF ActiveIn, RunsOf, IInv, TypeOK, Statuses
<1>5. \A r \in gone : status[r] = "ABSENT" => events[r] = << >> /\ r \notin answered
  BY NotAnswered DEF IInv, RowInv
<1>6. \A r \in Requests :
         /\ status'[r] = IF r \in gone THEN "ABSENT" ELSE status[r]
         /\ events'[r] = IF r \in gone THEN << >> ELSE events[r]
         /\ r \in answered' <=> r \in answered \ gone
  BY DEF Delete
<1> HIDE DEF gone
<1>7. ASSUME NEW r \in Requests PROVE RunStep(s, r)
  <2>1. CASE r \notin gone
    BY <1>6, <2>1 DEF RunStep, Same
  <2>2. CASE r \in gone /\ status[r] = "ABSENT"
    BY <1>5, <1>6, <2>2 DEF RunStep, Same
  <2>3. CASE r \in gone /\ status[r] \in Terminal
    BY <1>2, <1>6, <2>3 DEF RunStep
  <2> QED BY <1>4, <2>1, <2>2, <2>3
<1> QED BY <1>2, <1>7

LEMMA CancelSteps ==
    ASSUME IInv, NEW s \in Sessions, Cancel(s)
    PROVE  \A r \in Requests : RunStep(s, r)
<1> DEFINE r == tx[s].on
<1>1. tx[s].method = "cancel" /\ Full(s)
  BY ReadyFull DEF Cancel, In
<1>2. r \in Requests /\ holder[r] = s
  BY <1>1 DEF IInv, Fits, OnRun, Held
<1>3. CASE status[r] \in {"QUEUED", "RUNNING"}
  <2> DEFINE a == IF status[r] = "QUEUED" THEN "CANCELLED" ELSE "CANCELLATION_REQUESTED"
  <2>1. WriteOne(r, a) /\ answered' = answered
    BY <1>3 DEF Cancel
  <2>2. /\ <<status[r], a>> \in Moves /\ status[r] \in Active
        /\ a \in Statuses /\ a \notin {"COMPLETED", "RUNNING"}
    BY <1>3 DEF Moves, Active, Statuses, Terminal
  <2> HIDE DEF a
  <2> QED BY <1>2, <2>1, <2>2, WriteOneSteps DEF IInv
<1>4. CASE status[r] \notin {"QUEUED", "RUNNING"}
  BY <1>4, QuietSteps DEF Cancel, Keep
<1> QED BY <1>3, <1>4

LEMMA ProgressSteps ==
    ASSUME IInv, NEW s \in Sessions, Progress(s)
    PROVE  \A r \in Requests : RunStep(s, r)
<1> DEFINE r == tx[s].on
<1>1. tx[s].method = "progress" /\ Full(s)
  BY ReadyFull DEF Progress, In
<1>2. r \in Requests /\ holder[r] = s
  BY <1>1 DEF IInv, Fits, OnRun, Fenced, Held
<1>3. CASE Keep
  BY <1>3, QuietSteps DEF Keep
<1>4. CASE status[r] = "RUNNING" /\ WriteOne(r, "RUNNING") /\ UNCHANGED answered
  <2>1. /\ <<"RUNNING", "RUNNING">> \in Moves /\ "RUNNING" \in Active
        /\ "RUNNING" \in Statuses
    BY DEF Moves, Active, Statuses
  <2> QED BY <1>2, <1>4, <2>1, WriteOneSteps DEF IInv
<1> QED BY <1>3, <1>4 DEF Progress

LEMMA FinishSteps ==
    ASSUME IInv, NEW s \in Sessions, NEW o \in Outcomes, Finish(s, o)
    PROVE  \A r \in Requests : RunStep(s, r)
<1> DEFINE r == tx[s].on
           a == Settled(s, o)
<1>1. tx[s].method = "finish" /\ tx[s].stage # "begun" /\ Full(s)
  BY ReadyFull DEF Finish, In
<1>2. r \in Requests /\ holder[r] = s /\ status[r] \in Executing
  BY <1>1 DEF IInv, Fits, OnRun, Fenced, Held
<1>3. o \in {"COMPLETED", "FAILED", "INTERRUPTED"}
  BY TransactionsAssumption
<1>4. /\ <<status[r], a>> \in Moves /\ a \in Statuses /\ a # "RUNNING"
      /\ status[r] \in Active
  BY <1>2, <1>3 DEF Settled, Executing, Moves, Active, Statuses, Terminal
<1>5. WriteOne(r, a) /\ answered' = IF a = "COMPLETED" THEN answered \cup {r} ELSE answered
  BY DEF Finish
<1> HIDE DEF a
<1> QED BY <1>2, <1>4, <1>5, WriteOneSteps DEF IInv

(* Every statement does one of the four things to each run, and a          *)
(* conversation appears or goes only under the admission row.              *)
LEMMA RunSteps ==
    ASSUME IInv, NEW s \in Sessions, Statement(s)
    PROVE  /\ \A r \in Requests : RunStep(s, r)
           /\ conv' = conv \/ HasAdmission(s)
<1> DEFINE Goal == (\A r \in Requests : RunStep(s, r)) /\ (conv' = conv \/ HasAdmission(s))
<1>1. CASE UNCHANGED rows
  BY <1>1, QuietSteps DEF rows
<1>2. CASE CreateConversation(s)
  <2>1. tx[s].method = "create" /\ Full(s)
    BY <1>2, ReadyFull DEF CreateConversation, In
  <2>2. HasAdmission(s)
    BY <2>1, AdmissionHeld DEF Admitting
  <2> QED BY <1>2, <2>2, QuietSteps DEF CreateConversation
<1>3. CASE Enqueue(s)
  BY <1>3, EnqueueSteps DEF Enqueue
<1>4. CASE Delete(s)
  BY <1>4, DeleteSteps
<1>5. CASE Cancel(s)
  BY <1>5, CancelSteps DEF Cancel
<1>6. CASE Progress(s)
  BY <1>6, ProgressSteps DEF Progress
<1>7. ASSUME NEW o \in Outcomes, Finish(s, o) PROVE Goal
  BY <1>7, FinishSteps DEF Finish
<1>8. CASE Claim(s)
  BY <1>8, ClaimSteps DEF Claim
<1>9. ASSUME ClaimNothing(s), tx[s].method = "claim" PROVE Goal
  BY <1>9, ClaimNothingSteps DEF ClaimNothing
<1>10. CASE CountRunning(s)
  BY <1>1, <1>9, <1>10 DEF CountRunning, In
<1>11. CASE Pick(s)
  BY <1>1, <1>9, <1>11 DEF Pick, In
<1>12. CASE \/ Lock(s) \/ Rollback(s) \/ Observe(s) \/ CountRuns(s) \/ CountPending(s)
            \/ CheckDelete(s) \/ Cascade(s) \/ Scan(s) \/ Sweep(s) \/ CheckOwner(s)
            \/ CheckAuthority(s) \/ Heartbeat(s)
  <2>1. UNCHANGED rows
    BY <1>12 DEF Lock, Rollback, Observe, CountRuns, CountPending, CheckDelete, Cascade,
       Scan, Sweep, CheckOwner, CheckAuthority, Heartbeat
  <2> QED BY <1>1, <2>1
<1> QED BY <1>2, <1>3, <1>4, <1>5, <1>6, <1>7, <1>8, <1>10, <1>11, <1>12 DEF Statement-----------------------------------------------------------------------------
(* What the other sessions hold and counted stays true                     *)

LEMMA OthersHeld ==
    ASSUME IInv, NEW s \in Sessions, Statement(s), NEW t \in Sessions \ {s}
    PROVE  Held(t)'
<1>1. tx'[t] = tx[t] /\ tx[t] \in Transactions
  BY OwnStep DEF IInv, TypeOK
<1>2. \A r \in Requests : holder'[r] = t <=> holder[r] = t
  BY OthersLocks DEF IInv, Rows
<1>3. \A r \in Requests : holder[r] = t /\ status[r] \in Active => status'[r] = status[r]
  <2>1. Active \cap Terminal = {} /\ "ABSENT" \notin Active
    BY DEF Active, Terminal
  <2> QED BY <2>1, RunSteps DEF RunStep, Same
<1>4. Held(t) /\ (tx[t].method \in OnRun => tx[t].on \in Requests)
  BY DEF IInv, Fits
<1>5. tx[t].swept \in SUBSET Requests
  BY <1>1 DEF Transactions
<1>6. /\ Fenced \subseteq OnRun /\ {"cancel", "read"} \subseteq OnRun
      /\ Executing \subseteq Active /\ "QUEUED" \in Active
  BY DEF OnRun, Executing, Active
<1>7. Full(t)' <=> Full(t)
  BY <1>1 DEF Full
<1>8. tx[t].method \in Fenced /\ tx[t].stage # "begun" => holder[tx[t].on] = t
  BY <1>4 DEF Held, IInv, LockInv, Ordered
<1>9. Full(t)' /\ tx'[t].method \in {"cancel", "read"} \cup Fenced => holder'[tx'[t].on] = t
  BY <1>1, <1>2, <1>4, <1>6, <1>7 DEF Held
<1>10. tx'[t].method \in Fenced /\ tx'[t].stage # "begun" => status'[tx'[t].on] \in Executing
  BY <1>1, <1>3, <1>4, <1>6, <1>8 DEF Held
<1>11. tx'[t].method = "claim" =>
          \A r \in tx'[t].swept : holder'[r] = t /\ status'[r] \in Active
  BY <1>1, <1>2, <1>3, <1>4, <1>5 DEF Held
<1>12. tx'[t].method = "claim" /\ tx'[t].stage = "passed" =>
          /\ tx'[t].on \in Requests \ tx'[t].swept
          /\ holder'[tx'[t].on] = t /\ status'[tx'[t].on] = "QUEUED"
  BY <1>1, <1>2, <1>3, <1>4, <1>6 DEF Held
<1> QED BY <1>1, <1>4, <1>9, <1>10, <1>11, <1>12 DEF Held

(* Unless a run is admitted or claimed, the counted sets only shrink.      *)
LEMMA Shrinks ==
    ASSUME TypeOK, NEW s \in Sessions, \A r \in Requests : RunStep(s, r)
    PROVE  /\ ~ Enqueue(s) =>
                /\ Queued' \subseteq Queued
                /\ \A c : RunsOf(c)' \subseteq RunsOf(c)
                /\ \A c : ActiveIn(c)' \subseteq ActiveIn(c)
           /\ ~ Claim(s) => Running' \subseteq Running
           /\ ~ Enqueue(s) => \A r \in Requests : status[r] = "ABSENT" => status'[r] = "ABSENT"
<1> USE DEF Active, Executing, Terminal, Moves, RunStep, Same
<1>1. ~ Enqueue(s) => \A r \in Requests :
         /\ status'[r] = "QUEUED" => status[r] = "QUEUED"
         /\ status'[r] # "ABSENT" => status[r] # "ABSENT"
         /\ status'[r] \in Active => status[r] \in Active
  OBVIOUS
<1>2. ~ Claim(s) => \A r \in Requests : status'[r] \in Executing => status[r] \in Executing
  OBVIOUS
<1> QED BY <1>1, <1>2 DEF Queued, Running, RunsOf, ActiveIn

(* A count that is done under the admission row binds every other session. *)
LEMMA OthersRoom ==
    ASSUME IInv, NEW s \in Sessions, Statement(s), NEW t \in Sessions \ {s}
    PROVE  Room(t)'
<1>1. tx'[t] = tx[t] /\ tx[t] \in Transactions
  BY OwnStep DEF IInv, TypeOK
<1>2. Room(t) /\ (tx[t].method \in {"enqueue"} => tx[t].on \in Requests)
  BY DEF IInv, Fits, OnRun
<1>3. CASE tx[t].method \notin {"create", "enqueue", "delete", "claim"} \/ tx[t].stage = "begun"
  BY <1>1, <1>3 DEF Room
<1>4. CASE tx[t].method \in {"create", "enqueue", "delete", "claim"} /\ tx[t].stage # "begun"
  <2>1. holder["admission"] = t
    BY <1>4, AdmissionHeld, ReadyFull DEF Admitting, HasAdmission
  <2>2. ~ HasAdmission(s)
    BY <2>1 DEF HasAdmission
  <2>3. ~ Enqueue(s) /\ ~ Claim(s)
    <3>1. Enqueue(s) => tx[s].method = "enqueue" /\ tx[s].stage = "passed"
      BY DEF Enqueue, In
    <3>2. Claim(s) => tx[s].method = "claim" /\ tx[s].stage = "passed"
      BY DEF Claim, In
    <3> QED BY <2>2, <3>1, <3>2, AdmissionHeld, ReadyFull DEF Admitting
  <2>4. conv' = conv
    BY <2>2, RunSteps
  <2>5. /\ Queued' \subseteq Queued /\ Running' \subseteq Running
        /\ \A c : RunsOf(c)' \subseteq RunsOf(c)
        /\ \A c : ActiveIn(c)' \subseteq ActiveIn(c)
        /\ \A r \in Requests : status[r] = "ABSENT" => status'[r] = "ABSENT"
    BY <2>3, RunSteps, Shrinks DEF IInv
  <2>6. OpenConvs' = OpenConvs
    BY <2>4 DEF OpenConvs
  <2>7. /\ Cardinality(Queued') \in Nat /\ Cardinality(Queued') <= Cardinality(Queued)
        /\ Cardinality(Queued) \in Nat
    BY <2>5, Finite, Fewer
  <2>8. \A c : /\ Cardinality(RunsOf(c)') \in Nat /\ Cardinality(RunsOf(c)) \in Nat
              /\ Cardinality(RunsOf(c)') <= Cardinality(RunsOf(c))
    BY <2>5, Finite, Fewer
  <2>9. StillRunning(t)' \subseteq StillRunning(t)
    BY <1>1, <2>5 DEF StillRunning
  <2>10. /\ Cardinality(StillRunning(t)') \in Nat /\ Cardinality(StillRunning(t)) \in Nat
         /\ Cardinality(StillRunning(t)') <= Cardinality(StillRunning(t))
    BY <2>9, Finite, Fewer
  <2>11. \A k : LET S == {q \in StillRunning(t) : Tenant(q) = k}
                    N == {q \in StillRunning(t)' : Tenant(q) = k}
                IN  /\ Cardinality(S) \in Nat /\ Cardinality(N) \in Nat
                    /\ Cardinality(N) <= Cardinality(S)
    <3> TAKE k
    <3> DEFINE S == {q \in StillRunning(t) : Tenant(q) = k}
               N == {q \in StillRunning(t)' : Tenant(q) = k}
    <3>1. IsFiniteSet(S) /\ N \in SUBSET S
      BY <2>9, Finite
    <3> HIDE DEF S, N
    <3>2. Cardinality(S) \in Nat /\ Cardinality(N) \in Nat /\ Cardinality(N) <= Cardinality(S)
      BY <3>1, Fewer
    <3> QED BY <3>2 DEF S, N
  <2> USE TransactionsAssumption
  <2>12. CASE tx[t].method = "create"
    BY <1>1, <1>2, <2>6, <2>12 DEF Room
  <2>13. CASE tx[t].method = "enqueue"
    BY <1>1, <1>2, <2>5, <2>7, <2>8, <2>13 DEF Room
  <2>14. CASE tx[t].method = "delete"
    BY <1>1, <1>2, <2>5, <2>14 DEF Room
  <2>15. CASE tx[t].method = "claim"
    <3> DEFINE k == Tenant(tx[t].on)
               S == {q \in StillRunning(t) : Tenant(q) = k}
               N == {q \in StillRunning(t)' : Tenant(q) = k}
    <3>1. {q \in StillRunning(t)' : Tenant(q)' = Tenant(tx[t].on)'} = N
      BY <1>1 DEF Tenant
    <3>2. Cardinality(S) \in Nat /\ Cardinality(N) \in Nat /\ Cardinality(N) <= Cardinality(S)
      BY <2>11
    <3>3. /\ tx[t].stage \in {"counted", "passed"} => Cardinality(StillRunning(t)) < MaximumRunning
          /\ tx[t].stage = "passed" => Cardinality(S) < MaximumRunningPerTenant
      BY <1>2, <2>15 DEF Room
    <3> HIDE DEF S
    <3>4. tx[t].stage = "passed" => Cardinality(N) < MaximumRunningPerTenant
      BY <3>2, <3>3
    <3>5. tx[t].stage \in {"counted", "passed"} => Cardinality(StillRunning(t)') < MaximumRunning
      BY <2>10, <3>3
    <3> QED BY <1>1, <2>15, <3>1, <3>4, <3>5 DEF Room
  <2> QED BY <1>4, <2>12, <2>13, <2>14, <2>15
<1> QED BY <1>3, <1>4-----------------------------------------------------------------------------
(* What a session's own statement leaves it with                           *)

LEMMA EndOwn ==
    ASSUME TypeOK, NEW s \in Sessions, End(s)
    PROVE  Held(s)' /\ Room(s)'
<1>1. tx'[s] = Idle
  BY DEF End, TypeOK
<1>2. Idle.method = "none"
  BY DEF Idle, Begun
<1> QED BY <1>1, <1>2 DEF Held, Room, Fenced

LEMMA LockOwn ==
    ASSUME IInv, NEW s \in Sessions, Lock(s)
    PROVE  Held(s)' /\ Room(s)'
<1>1. ASSUME NEW x \in Wanted(s), holder' = [holder EXCEPT ![x] = s],
             tx' = [tx EXCEPT ![s].locked = @ + 1]
      PROVE  Held(s)' /\ Room(s)'
  <2>1. Locking(s) /\ UNCHANGED <<conv, status>>
    BY DEF Lock, rows
  <2>2. tx[s] \in Transactions /\ tx \in [Sessions -> Transactions] /\ TypeOK
    BY DEF IInv, TypeOK
  <2>3. /\ tx'[s].method = tx[s].method /\ tx'[s].on = tx[s].on
        /\ tx'[s].left = tx[s].left /\ tx'[s].stage = tx[s].stage
        /\ tx'[s].swept = tx[s].swept
    BY <1>1, <2>2 DEF Transactions
  <2>4. ~ Full(s) /\ tx[s].method # "none"
    BY <2>1, <2>2, FullIsReady DEF Locking
  <2>5. tx[s].stage = "begun" /\ tx[s].left = {}
    BY <2>4 DEF IInv, LockInv, Ordered
  <2>6. x \in Rows
    BY <2>1, NextRow DEF IInv
  <2>7. holder'[x] = s /\ \A y \in Rows : holder[y] = s => holder'[y] = s
    BY <1>1, <2>2, <2>6 DEF TypeOK
  <2>8. tx[s].method \in {"cancel", "read"} \cup Fenced => x = tx[s].on
    <3>1. SUFFICES ASSUME tx[s].method \in {"cancel", "read"} \cup Fenced
                   PROVE  x = tx[s].on
      OBVIOUS
    <3>2. Locks(tx[s].method) = <<"run">> /\ tx[s].locked = 0
      BY <2>2, <2>4, <3>1, LockOrder DEF Full, Transactions, Fenced
    <3>3. x = Row(tx[s], "run")
      BY <2>1, <3>2 DEF Wanted
    <3> QED BY <3>3 DEF Row
  <2>9. \A r \in tx[s].swept : r \in Rows
    BY <2>2 DEF Transactions, Rows
  <2>10. Held(s)'
    <3>1. Held(s)
      BY DEF IInv
    <3> QED BY <2>1, <2>3, <2>5, <2>7, <2>8, <2>9, <3>1 DEF Held
  <2>11. Room(s)'
    BY <2>1, <2>3, <2>5 DEF Room
  <2> QED BY <2>10, <2>11
<1> QED BY <1>1, EndOwn DEF Lock, IInv

(* A session that passes a check keeps its rows.                           *)
LEMMA PassHeld ==
    ASSUME IInv, NEW s \in Sessions, NEW g, Pass(s, g), UNCHANGED <<rows, holder>>,
           tx[s].method \in Fenced => status[tx[s].on] \in Executing,
           tx[s].method = "claim" => g = "counted" /\ tx[s].left = {}
    PROVE  Held(s)'
<1>1. /\ tx'[s].method = tx[s].method /\ tx'[s].on = tx[s].on
      /\ tx'[s].left = tx[s].left /\ tx'[s].swept = tx[s].swept
      /\ tx'[s].locked = tx[s].locked /\ tx'[s].stage = g
  BY DEF Pass, IInv, TypeOK, Transactions
<1>2. Held(s) /\ status' = status
  BY DEF IInv, rows
<1> QED BY <1>1, <1>2 DEF Held, Full

LEMMA CheckOwn ==
    ASSUME IInv, NEW s \in Sessions,
           \/ CreateConversation(s) \/ CountRuns(s) \/ CountPending(s)
           \/ CheckOwner(s) \/ CheckAuthority(s) \/ CountRunning(s)
    PROVE  Held(s)' /\ Room(s)'
<1>a. TypeOK /\ Held(s) /\ Room(s) /\ tx \in [Sessions -> Transactions]
  BY DEF IInv, TypeOK
<1>b. ASSUME NEW g, Pass(s, g)
      PROVE  /\ tx'[s].method = tx[s].method /\ tx'[s].on = tx[s].on
             /\ tx'[s].swept = tx[s].swept /\ tx'[s].stage = g
  BY <1>a, <1>b DEF Pass, Transactions
<1>1. CASE End(s)
  BY <1>a, <1>1, EndOwn
<1>2. CASE CreateConversation(s) /\ ~ End(s)
  <2>1. /\ tx[s].method = "create" /\ Pass(s, "passed") /\ UNCHANGED <<rows, holder>>
        /\ Cardinality(OpenConvs) < MaximumConversations
    BY <1>2 DEF CreateConversation, In, rows
  <2>2. Cardinality(OpenConvs') < MaximumConversations
    BY <2>1 DEF OpenConvs, rows
  <2> QED BY <2>1, <2>2, <1>b, PassHeld DEF Room, Fenced
<1>3. CASE CountRuns(s) /\ ~ End(s)
  <2> DEFINE c == ConvOf[tx[s].on]
  <2>1. /\ tx[s].method = "enqueue" /\ Pass(s, "counted") /\ UNCHANGED <<rows, holder>>
        /\ status[tx[s].on] = "ABSENT" /\ ActiveIn(c) = {}
        /\ Cardinality(RunsOf(c)) < MaximumRuns
    BY <1>3 DEF CountRuns, In
  <2>2. /\ status'[tx[s].on] = "ABSENT" /\ ActiveIn(c)' = {}
        /\ Cardinality(RunsOf(c)') < MaximumRuns /\ c' = c
    BY <1>b, <2>1 DEF ActiveIn, RunsOf, rows
  <2> QED BY <2>1, <2>2, <1>b, PassHeld DEF Room, Fenced
<1>4. CASE CountPending(s) /\ ~ End(s)
  <2> DEFINE c == ConvOf[tx[s].on]
  <2>1. /\ tx[s].method = "enqueue" /\ Pass(s, "passed") /\ UNCHANGED <<rows, holder>>
        /\ Cardinality(Queued) < MaximumPending /\ tx[s].stage = "counted"
    BY <1>4 DEF CountPending, In
  <2>2. /\ status[tx[s].on] = "ABSENT" /\ ActiveIn(c) = {}
        /\ Cardinality(RunsOf(c)) < MaximumRuns
    BY <1>a, <2>1 DEF Room
  <2>3. /\ status'[tx[s].on] = "ABSENT" /\ ActiveIn(c)' = {}
        /\ Cardinality(RunsOf(c)') < MaximumRuns /\ c' = c
        /\ Cardinality(Queued') < MaximumPending
    BY <1>b, <2>1, <2>2 DEF ActiveIn, RunsOf, Queued, rows
  <2> QED BY <2>1, <2>3, <1>b, PassHeld DEF Room, Fenced
<1>5. CASE CheckOwner(s) /\ ~ End(s)
  <2>1. /\ tx[s].method \in Fenced /\ Pass(s, "owned") /\ UNCHANGED <<rows, holder>>
        /\ status[tx[s].on] \in Executing
    BY <1>5 DEF CheckOwner
  <2> QED BY <2>1, <1>b, PassHeld DEF Room, Fenced
<1>6. CASE CheckAuthority(s)
  <2>1. /\ tx[s].method \in Fenced /\ UNCHANGED <<rows, holder>>
        /\ status[tx[s].on] \in Executing
    BY <1>a, <1>6 DEF CheckAuthority, Held, Fenced
  <2>2. \E g : Pass(s, g)
    BY <1>6 DEF CheckAuthority
  <2> QED BY <2>1, <2>2, <1>b, PassHeld DEF Room, Fenced
<1>7. CASE CountRunning(s) /\ ~ End(s)
  <2>1. /\ tx[s].method = "claim" /\ Pass(s, "counted") /\ UNCHANGED <<rows, holder>>
        /\ tx[s].left = {} /\ Cardinality(StillRunning(s)) < MaximumRunning
    BY <1>7 DEF CountRunning, In, ClaimNothing
  <2>2. StillRunning(s)' = StillRunning(s)
    BY <1>b, <2>1 DEF StillRunning, Running, rows
  <2> QED BY <2>1, <2>2, <1>b, PassHeld DEF Room, Fenced
<1> QED BY <1>1, <1>2, <1>3, <1>4, <1>5, <1>6, <1>7

LEMMA DeleteOwn ==
    ASSUME IInv, NEW s \in Sessions, CheckDelete(s) \/ Cascade(s)
    PROVE  Held(s)' /\ Room(s)'
<1>a. TypeOK /\ Room(s) /\ tx \in [Sessions -> Transactions]
  BY DEF IInv, TypeOK
<1>1. CASE End(s)
  BY <1>a, <1>1, EndOwn
<1>2. CASE CheckDelete(s) /\ ~ End(s)
  <2>1. /\ tx' = [tx EXCEPT ![s].stage = "passed", ![s].left = RunsOf(tx[s].on)]
        /\ tx[s].method = "delete" /\ ActiveIn(tx[s].on) = {} /\ UNCHANGED rows
    BY <1>2 DEF CheckDelete, In
  <2>2. tx'[s].method = "delete" /\ tx'[s].on = tx[s].on
    BY <1>a, <2>1 DEF Transactions
  <2>3. ActiveIn(tx[s].on)' = {}
    BY <2>1, <2>2 DEF ActiveIn, RunsOf, rows
  <2> QED BY <2>2, <2>3 DEF Held, Room, Fenced
<1>3. CASE Cascade(s)
  <2>1. PICK r : tx' = [tx EXCEPT ![s].left = @ \ {r}]
    BY <1>3 DEF Cascade
  <2>2. /\ tx'[s].method = "delete" /\ tx'[s].on = tx[s].on /\ tx'[s].stage = tx[s].stage
        /\ tx[s].method = "delete" /\ UNCHANGED rows
    BY <1>a, <1>3, <2>1 DEF Transactions, Cascade, In
  <2>3. ActiveIn(tx[s].on)' = ActiveIn(tx[s].on)
    BY <2>2 DEF ActiveIn, RunsOf, rows
  <2> QED BY <1>a, <2>2, <2>3 DEF Held, Room, Fenced
<1> QED BY <1>1, <1>2, <1>3

LEMMA SweepOwn ==
    ASSUME IInv, NEW s \in Sessions, Scan(s) \/ Sweep(s)
    PROVE  Held(s)' /\ Room(s)'
<1>a. TypeOK /\ Held(s) /\ tx \in [Sessions -> Transactions] /\ tx[s] \in Transactions
  BY DEF IInv, TypeOK
<1>1. CASE Scan(s)
  <2>1. /\ tx'[s].method = "claim" /\ tx'[s].stage = "scanned"
        /\ tx'[s].swept = tx[s].swept /\ tx[s].method = "claim"
        /\ UNCHANGED <<rows, holder>>
    BY <1>a, <1>1 DEF Scan, In, Transactions
  <2> QED BY <1>a, <2>1 DEF Held, Room, Fenced, rows
<1>2. CASE Sweep(s)
  <2>1. PICK r \in tx[s].left :
           /\ Free(r, s)
           /\ IF r \in Expired
              THEN /\ holder' = [holder EXCEPT ![r] = s]
                   /\ tx' = [tx EXCEPT ![s].left = @ \ {r}, ![s].swept = @ \cup {r}]
              ELSE /\ tx' = [tx EXCEPT ![s].left = @ \ {r}]
                   /\ UNCHANGED holder
    BY <1>2 DEF Sweep
  <2>2. /\ tx[s].method = "claim" /\ UNCHANGED rows /\ r \in Requests
        /\ tx[s].swept \subseteq Requests
    BY <1>a, <1>2 DEF Sweep, In, Transactions
  <2>3. tx[s].stage \notin {"counted", "passed"}
    BY <1>a, <2>1, <2>2 DEF Held
  <2>4. /\ tx'[s].method = "claim" /\ tx'[s].stage = tx[s].stage
        /\ \A q \in tx'[s].swept : q \in tx[s].swept \/ (q = r /\ r \in Expired /\ holder'[r] = s)
    <3>1. CASE r \in Expired
      <4>1. tx' = [tx EXCEPT ![s].left = @ \ {r}, ![s].swept = @ \cup {r}]
        BY <2>1, <3>1
      <4>2. tx'[s].method = "claim" /\ tx'[s].stage = tx[s].stage
            /\ tx'[s].swept = tx[s].swept \cup {r}
        BY <1>a, <2>2, <4>1 DEF Transactions
      <4>3. holder'[r] = s
        BY <1>a, <2>1, <2>2, <3>1 DEF TypeOK, Rows
      <4> QED BY <3>1, <4>2, <4>3
    <3>2. CASE r \notin Expired
      <4>1. tx' = [tx EXCEPT ![s].left = @ \ {r}]
        BY <2>1, <3>2
      <4>2. tx'[s].method = "claim" /\ tx'[s].stage = tx[s].stage
            /\ tx'[s].swept = tx[s].swept
        BY <1>a, <2>2, <4>1 DEF Transactions
      <4> QED BY <4>2
    <3> QED BY <3>1, <3>2
  <2>5. r \in Expired => status[r] \in Active
    BY DEF Expired, Executing, Active
  <2>6. \A q \in Requests : holder[q] = s => holder'[q] = s
    BY <1>a, <2>1, <2>2 DEF TypeOK, Rows
  <2> QED BY <1>a, <2>2, <2>3, <2>4, <2>5, <2>6 DEF Held, Room, Fenced, rows
<1> QED BY <1>1, <1>2

LEMMA PickOwn ==
    ASSUME IInv, NEW s \in Sessions, Pick(s)
    PROVE  Held(s)' /\ Room(s)'
<1>a. TypeOK /\ Held(s) /\ Room(s) /\ tx \in [Sessions -> Transactions]
      /\ tx[s] \in Transactions
  BY DEF IInv, TypeOK
<1>b. tx[s].method = "claim" /\ tx[s].stage = "counted"
  BY DEF Pick, In
<1>1. CASE ClaimNothing(s)
  BY <1>a, <1>1, EndOwn DEF ClaimNothing
<1>2. ASSUME NEW r \in Claimable(s), holder' = [holder EXCEPT ![r] = s],
             tx' = [tx EXCEPT ![s].on = r, ![s].stage = "passed"],
             UNCHANGED <<rows, overdue, spent>>
      PROVE  Held(s)' /\ Room(s)'
  <2>1. /\ tx'[s].method = "claim" /\ tx'[s].stage = "passed" /\ tx'[s].on = r
        /\ tx'[s].swept = tx[s].swept /\ tx'[s].left = tx[s].left
    BY <1>a, <1>b, <1>2 DEF Transactions
  <2>2. /\ r \in Requests \ tx[s].swept /\ status[r] = "QUEUED"
        /\ Cardinality({q \in StillRunning(s) : Tenant(q) = Tenant(r)})
              < MaximumRunningPerTenant
    BY DEF Claimable, Queued
  <2>3. \A q \in Requests : holder[q] = s \/ q = r => holder'[q] = s
    BY <1>a, <1>2 DEF TypeOK, Rows
  <2>4. tx[s].left = {} /\ Cardinality(StillRunning(s)) < MaximumRunning
        /\ tx[s].swept \subseteq Requests
    BY <1>a, <1>b DEF Held, Room, Transactions
  <2>5. StillRunning(s)' = StillRunning(s)
    BY <1>2, <2>1 DEF StillRunning, Running, rows
  <2>6. Held(s)'
    BY <1>a, <1>b, <1>2, <2>1, <2>2, <2>3, <2>4 DEF Held, Fenced, rows
  <2>7. {q \in StillRunning(s) : Tenant(q) = Tenant(r)}
           = {q \in StillRunning(s)' : Tenant(q)' = Tenant(tx'[s].on)}
    BY <2>1, <2>5 DEF Tenant
  <2>8. Room(s)'
    BY <2>1, <2>2, <2>4, <2>5, <2>7 DEF Room, Tenant
  <2> QED BY <2>6, <2>8
<1> QED BY <1>1, <1>2 DEF Pick

(* A statement leaves its session with the rows and the room it needs.     *)
LEMMA OwnStatement ==
    ASSUME IInv, NEW s \in Sessions, Statement(s)
    PROVE  Held(s)' /\ Room(s)'
<1>1. CASE \/ Cancel(s) \/ Observe(s) \/ Rollback(s) \/ Enqueue(s) \/ Delete(s)
           \/ Claim(s) \/ Heartbeat(s) \/ Progress(s)
           \/ \E o \in Outcomes : Finish(s, o)
  <2>1. End(s)
    BY <1>1 DEF Cancel, Observe, Rollback, Enqueue, Delete, Claim, Heartbeat, Progress,
       Finish
  <2> QED BY <2>1, EndOwn DEF IInv
<1> QED BY <1>1, LockOwn, CheckOwn, DeleteOwn, SweepOwn, PickOwn DEF Statement-----------------------------------------------------------------------------
(* The rows                                                                *)

LEMMA RowsKept ==
    ASSUME IInv, TypeOK', NEW s \in Sessions, Statement(s)
    PROVE  RowInv'
<1> USE DEF Active, Terminal, Moves, RunStep, Same, Appended
<1>a. TypeOK /\ RowInv /\ \A r \in Requests : RunStep(s, r)
  BY RunSteps DEF IInv
<1>1. \A r \in answered' : status'[r] = "COMPLETED"
  <2>1. \A r \in answered' : r \in Requests
    BY DEF TypeOK
  <2> QED BY <1>a, <2>1 DEF RowInv
<1>2. \A r \in Requests : status'[r] = "ABSENT" => events'[r] = << >>
  BY <1>a DEF RowInv
<1>3. ASSUME NEW r \in Requests, NEW q \in Requests, r # q, ConvOf[r] = ConvOf[q],
             status'[r] \in Active, status'[q] \in Active
      PROVE  FALSE
  <2>1. CASE ~ Enqueue(s)
    <3>1. status[r] \in Active /\ status[q] \in Active
      BY <1>a, <1>3, <2>1
    <3> QED BY <1>a, <1>3, <3>1 DEF RowInv, Journal!OneActive, Journal!Active
  <2>2. CASE Enqueue(s)
    <3>1. ActiveIn(ConvOf[tx[s].on]) = {}
      BY <2>2 DEF Enqueue, In, IInv, Room
    <3>2. status' = [status EXCEPT ![tx[s].on] = "QUEUED"] /\ tx[s].on \in Requests
      BY <2>2, EnqueueSteps
    <3>3. \A p \in Requests \ {tx[s].on} : status'[p] = status[p]
      BY <1>a, <3>2 DEF TypeOK
    <3>4. \A p \in Requests : ConvOf[p] = ConvOf[tx[s].on] => status[p] \notin Active
      BY <3>1 DEF ActiveIn, RunsOf
    <3>5. CASE r = tx[s].on \/ q = tx[s].on
      BY <1>3, <3>3, <3>4, <3>5
    <3>6. CASE r # tx[s].on /\ q # tx[s].on
      BY <1>a, <1>3, <3>3, <3>6 DEF RowInv, Journal!OneActive, Journal!Active
    <3> QED BY <3>5, <3>6
  <2> QED BY <2>1, <2>2
<1>4. Journal!OneActive'
  BY <1>3 DEF Journal!OneActive, Journal!Active
<1> QED BY <1>1, <1>2, <1>4 DEF RowInv

LEMMA OpenConvsKept ==
    ASSUME IInv, NEW s \in Sessions, Statement(s)
    PROVE  Cardinality(OpenConvs') <= MaximumConversations
<1>1. Cardinality(OpenConvs) <= MaximumConversations /\ IsFiniteSet(OpenConvs)
  BY Finite DEF IInv, WithinLimits
<1>2. CASE OpenConvs' \subseteq OpenConvs
  <2>1. /\ Cardinality(OpenConvs') \in Nat /\ Cardinality(OpenConvs) \in Nat
        /\ Cardinality(OpenConvs') <= Cardinality(OpenConvs)
    BY <1>1, <1>2, Fewer
  <2> QED BY <1>1, <2>1, TransactionsAssumption
<1>3. CASE CreateConversation(s)
  <2>1. CASE conv' = [conv EXCEPT ![tx[s].on] = "open"] /\ tx[s].stage = "passed"
    <3>1. OpenConvs' \subseteq OpenConvs \cup {tx[s].on}
      BY <2>1 DEF OpenConvs, IInv, TypeOK
    <3>2. Cardinality(OpenConvs) < MaximumConversations
      BY <1>3, <2>1 DEF CreateConversation, In, IInv, Room
    <3> QED BY <1>1, <3>1, <3>2, OneMore, TransactionsAssumption
  <2>2. CASE conv' = conv
    BY <1>2, <2>2 DEF OpenConvs
  <2> QED BY <1>3, <2>1, <2>2 DEF CreateConversation
<1>4. CASE Delete(s)
  <2>1. conv' = [conv EXCEPT ![tx[s].on] = "deleted"]
    BY <1>4 DEF Delete
  <2>2. OpenConvs' \subseteq OpenConvs
    BY <2>1 DEF OpenConvs, IInv, TypeOK
  <2> QED BY <1>2, <2>2
<1>5. CASE ~ CreateConversation(s) /\ ~ Delete(s)
  <2>1. conv' = conv
    BY <1>5 DEF Statement, Lock, Rollback, Cancel, Observe, CountRuns, CountPending, Enqueue,
       CheckDelete, Cascade, Scan, Sweep, CountRunning, Pick, Claim, CheckOwner,
       CheckAuthority, Heartbeat, Progress, Finish, ClaimNothing, rows
  <2> QED BY <1>2, <2>1 DEF OpenConvs
<1> QED BY <1>3, <1>4, <1>5

LEMMA QueueKept ==
    ASSUME IInv, NEW s \in Sessions, Statement(s)
    PROVE  /\ Cardinality(Queued') <= MaximumPending
           /\ \A c \in Conversations : Cardinality(RunsOf(c)') <= MaximumRuns
<1>a. /\ Cardinality(Queued) <= MaximumPending
      /\ \A c \in Conversations : Cardinality(RunsOf(c)) <= MaximumRuns
  BY DEF IInv, WithinLimits
<1>b. /\ MaximumPending \in Nat /\ MaximumRuns \in Nat
  BY TransactionsAssumption
<1>1. CASE ~ Enqueue(s)
  <2>1. Queued' \subseteq Queued /\ \A c : RunsOf(c)' \subseteq RunsOf(c)
    BY <1>1, RunSteps, Shrinks DEF IInv
  <2>2. /\ Cardinality(Queued') \in Nat /\ Cardinality(Queued) \in Nat
        /\ Cardinality(Queued') <= Cardinality(Queued)
    BY <2>1, Finite, Fewer
  <2>3. \A c : /\ Cardinality(RunsOf(c)') \in Nat /\ Cardinality(RunsOf(c)) \in Nat
              /\ Cardinality(RunsOf(c)') <= Cardinality(RunsOf(c))
    BY <2>1, Finite, Fewer
  <2> QED BY <1>a, <1>b, <2>2, <2>3
<1>2. CASE Enqueue(s)
  <2> DEFINE r == tx[s].on
  <2>1. r \in Requests /\ status' = [status EXCEPT ![r] = "QUEUED"]
    BY <1>2, EnqueueSteps
  <2>2. \A q \in Requests \ {r} : status'[q] = status[q]
    BY <2>1 DEF IInv, TypeOK
  <2>3. /\ Cardinality(Queued) < MaximumPending
        /\ Cardinality(RunsOf(ConvOf[r])) < MaximumRuns
    BY <1>2 DEF Enqueue, In, IInv, Room
  <2>4. Queued' \subseteq Queued \cup {r}
    BY <2>2 DEF Queued
  <2>5. Cardinality(Queued') <= MaximumPending
    BY <1>b, <2>3, <2>4, Finite, OneMore
  <2>6. ASSUME NEW c \in Conversations PROVE Cardinality(RunsOf(c)') <= MaximumRuns
    <3>1. CASE c = ConvOf[r]
      <4>1. RunsOf(c)' \subseteq RunsOf(c) \cup {r}
        BY <2>2 DEF RunsOf
      <4> QED BY <1>b, <2>3, <3>1, <4>1, Finite, OneMore
    <3>2. CASE c # ConvOf[r]
      <4>1. RunsOf(c)' \subseteq RunsOf(c)
        BY <2>2, <3>2 DEF RunsOf
      <4>2. /\ Cardinality(RunsOf(c)') \in Nat /\ Cardinality(RunsOf(c)) \in Nat
            /\ Cardinality(RunsOf(c)') <= Cardinality(RunsOf(c))
        BY <4>1, Finite, Fewer
      <4> QED BY <1>a, <1>b, <4>2
    <3> QED BY <3>1, <3>2
  <2> QED BY <2>5, <2>6
<1> QED BY <1>1, <1>2

LEMMA RunningKept ==
    ASSUME IInv, NEW s \in Sessions, Statement(s)
    PROVE  /\ Cardinality(Running') <= MaximumRunning
           /\ \A r \in Running' :
                 Cardinality({q \in Running' : Tenant(q) = Tenant(r)}) <= MaximumRunningPerTenant
<1> DEFINE Of(k) == {q \in Running : Tenant(q) = k}
           New(k) == {q \in Running' : Tenant(q) = k}
<1>a. /\ Cardinality(Running) <= MaximumRunning
      /\ \A r \in Running : Cardinality(Of(Tenant(r))) <= MaximumRunningPerTenant
  BY DEF IInv, WithinLimits
<1>b. MaximumRunning \in Nat /\ MaximumRunningPerTenant \in Nat
  BY TransactionsAssumption
<1>c. ASSUME NEW k, New(k) \subseteq Of(k)
      PROVE  /\ Cardinality(New(k)) \in Nat /\ Cardinality(Of(k)) \in Nat
             /\ Cardinality(New(k)) <= Cardinality(Of(k))
  <2>1. IsFiniteSet(Of(k))
    BY Finite
  <2> HIDE DEF Of, New
  <2> QED BY <1>c, <2>1, Fewer
<1>1. CASE ~ Claim(s)
  <2>1. Running' \subseteq Running
    BY <1>1, RunSteps, Shrinks DEF IInv
  <2>2. /\ Cardinality(Running') \in Nat /\ Cardinality(Running) \in Nat
        /\ Cardinality(Running') <= Cardinality(Running)
    BY <2>1, Finite, Fewer
  <2>3. ASSUME NEW r \in Running' PROVE Cardinality(New(Tenant(r))) <= MaximumRunningPerTenant
    <3>1. New(Tenant(r)) \subseteq Of(Tenant(r)) /\ r \in Running
      BY <2>1
    <3> HIDE DEF Of, New
    <3> QED BY <1>a, <1>b, <1>c, <3>1
  <2> QED BY <1>a, <1>b, <2>2, <2>3
<1>2. CASE Claim(s)
  <2> DEFINE c == tx[s].on
             S == StillRunning(s)
             Still(k) == {q \in S : Tenant(q) = k}
  <2>1. c \in Requests /\ status' = [Swept(s) EXCEPT ![c] = "RUNNING"]
    BY <1>2, ClaimSteps
  <2>2. tx[s].method = "claim" /\ tx[s].stage = "passed"
    BY <1>2 DEF Claim, In
  <2>3. Cardinality(S) < MaximumRunning /\ Cardinality(Still(Tenant(c))) < MaximumRunningPerTenant
    BY <2>2 DEF IInv, Room
  <2>4. Running' \subseteq S \cup {c}
    <3>1. \A q \in Requests \ {c} : status'[q] = Swept(s)[q]
      BY <2>1, <2>2, SweptSteps
    <3>2. \A q \in Requests \ {c} :
             status'[q] = IF q \in tx[s].swept THEN "INTERRUPTED" ELSE status[q]
      BY <2>2, <3>1, SweptSteps
    <3> QED BY <3>2 DEF Running, StillRunning, Executing
  <2>5. Cardinality(Running') <= MaximumRunning
    BY <1>b, <2>3, <2>4, Finite, OneMore
  <2>6. ASSUME NEW r \in Running' PROVE Cardinality(New(Tenant(r))) <= MaximumRunningPerTenant
    <3>1. CASE Tenant(r) = Tenant(c)
      <4>1. New(Tenant(r)) \subseteq Still(Tenant(c)) \cup {c}
        BY <2>4, <3>1
      <4>2. IsFiniteSet(Still(Tenant(c)))
        BY Finite
      <4> HIDE DEF New, Still
      <4> QED BY <1>b, <2>3, <4>1, <4>2, OneMore
    <3>2. CASE Tenant(r) # Tenant(c)
      <4>1. New(Tenant(r)) \subseteq Of(Tenant(r)) /\ r \in Running
        BY <2>4, <2>6, <3>2 DEF StillRunning
      <4> HIDE DEF New, Of
      <4> QED BY <1>a, <1>b, <1>c, <4>1
    <3> QED BY <3>1, <3>2
  <2> QED BY <2>5, <2>6
<1> QED BY <1>1, <1>2-----------------------------------------------------------------------------
(* The theorems                                                            *)

LEMMA InitInv == Init => IInv
<1> SUFFICES ASSUME Init PROVE IInv
  OBVIOUS
<1>1. TypeOK /\ Fits /\ LockInv
  BY InitType, InitFits, InitLocks
<1>2. \A t \in Sessions : tx[t].method = "none"
  BY DEF Init, Idle, Begun
<1>3. \A t \in Sessions : Held(t) /\ Room(t)
  BY <1>2 DEF Held, Room, Fenced
<1>4. RowInv
  BY DEF Init, RowInv, Journal!OneActive, Journal!Active
<1>5. /\ OpenConvs = {} /\ Queued = {} /\ Running = {} /\ \A c : RunsOf(c) = {}
  BY DEF Init, OpenConvs, Queued, Running, RunsOf, Executing
<1>6. WithinLimits
  BY <1>5, FS_EmptySet, TransactionsAssumption DEF WithinLimits
<1> QED BY <1>1, <1>3, <1>4, <1>6 DEF IInv

LEMMA NextInv == ASSUME IInv, [Next]_vars PROVE IInv'
<1>1. (TypeOK /\ Fits /\ LockInv)'
  BY NextType, NextFits, NextLocks DEF IInv
<1>2. ASSUME UNCHANGED <<conv, status, events, answered>> PROVE (RowInv /\ WithinLimits)'
  BY <1>2 DEF IInv, RowInv, WithinLimits, OpenConvs, Queued, Running, RunsOf, Tenant,
     Journal!OneActive
<1>3. ASSUME NEW s \in Sessions, NEW m \in Methods,
             NEW x \in Conversations \cup Requests \cup {Nobody}, Begin(s, m, x)
      PROVE  IInv'
  <2>1. \A t \in Sessions : tx'[t] = IF t = s THEN Begun(m, x) ELSE tx[t]
    BY <1>3 DEF Begin, IInv, TypeOK
  <2>2. UNCHANGED <<conv, status, events, answered, holder>>
    BY <1>3 DEF Begin, rows
  <2>3. /\ Begun(m, x).left = {} /\ Begun(m, x).locked = 0 /\ Begun(m, x).stage = "begun"
        /\ Begun(m, x).swept = {}
    BY DEF Begun
  <2>4. Held(s)' /\ Room(s)'
    BY <2>1, <2>3 DEF Held, Room, Full
  <2>5. ASSUME NEW t \in Sessions \ {s} PROVE Held(t)' /\ Room(t)'
    <3>1. tx'[t] = tx[t] /\ Held(t) /\ Room(t)
      BY <2>1 DEF IInv
    <3> QED BY <2>2, <3>1 DEF Held, Room, Full, OpenConvs, ActiveIn, RunsOf, Queued,
            StillRunning, Running, Tenant
  <2> QED BY <1>1, <1>2, <2>2, <2>4, <2>5 DEF IInv
<1>4. ASSUME NEW s \in Sessions, Statement(s) PROVE IInv'
  <2>1. \A t \in Sessions : Held(t)' /\ Room(t)'
    BY <1>4, OthersHeld, OthersRoom, OwnStatement
  <2>2. RowInv'
    BY <1>1, <1>4, RowsKept
  <2>3. WithinLimits'
    BY <1>4, OpenConvsKept, QueueKept, RunningKept DEF WithinLimits, Tenant
  <2> QED BY <1>1, <2>1, <2>2, <2>3 DEF IInv
<1>5. CASE (\E r \in Requests : Expire(r)) \/ UNCHANGED vars
  <2>1. UNCHANGED <<conv, status, events, answered, holder, tx>>
    BY <1>5 DEF Expire, vars, rows
  <2>2. \A t \in Sessions : Held(t)' /\ Room(t)'
    <3>1. ASSUME NEW t \in Sessions PROVE Held(t)' /\ Room(t)'
      <4>1. tx'[t] = tx[t] /\ Held(t) /\ Room(t)
        BY <2>1 DEF IInv
      <4>2. Held(t)'
        BY <2>1, <4>1 DEF Held, Full
      <4>3. Room(t)'
        BY <2>1, <4>1 DEF Room, OpenConvs, ActiveIn, RunsOf, Queued, StillRunning,
           Running, Tenant
      <4> QED BY <4>2, <4>3
    <3> QED BY <3>1
  <2> QED BY <1>1, <1>2, <2>1, <2>2 DEF IInv
<1> QED BY <1>3, <1>4, <1>5 DEF Next

(* No interleaving of transactions admits, starts or keeps more than the   *)
(* settings allow, although each limit is counted before it is used.       *)
THEOREM LimitsHold == Spec => []WithinLimits
<1>1. Init => IInv
  BY InitInv
<1>2. IInv /\ [Next]_vars => IInv'
  BY NextInv
<1>3. IInv => WithinLimits
  BY DEF IInv
<1> QED BY <1>1, <1>2, <1>3, PTL DEF Spec

(* Each statement is one step of the journal, or none.                     *)
LEMMA StatementIsJournal ==
    ASSUME IInv, IInv', NEW s \in Sessions, Statement(s)
    PROVE  Journal!Next
<1>1. \A r \in Requests : RunStep(s, r)
  BY RunSteps
<1>2. DOMAIN status' = Requests /\ DOMAIN events' = Requests /\ answered' \subseteq Requests
  BY DEF IInv, TypeOK
<1>3. Moves \subseteq Journal!Edges \cup {<<"RUNNING", "RUNNING">>}
  BY DEF Moves, Journal!Edges, Active, Journal!Active
<1>4. \A r \in Requests : status[r] \in Active \cup {"ABSENT"} => r \notin answered
  BY NotAnswered DEF IInv
<1>5. \A a, b : <<a, b>> \in Moves => a \in Active
  BY DEF Moves, Active
<1>6. <<"ABSENT", "QUEUED">> \in Journal!Edges
  BY DEF Journal!Edges
<1>7. ASSUME NEW r \in Requests
      PROVE  Journal!Untouched(r) \/ Journal!Written(r) \/ Journal!Forgotten(r)
  <2>1. CASE Same(r)
    BY <2>1 DEF Same, Journal!Untouched
  <2>2. CASE <<status[r], status'[r]>> \in Moves /\ Appended(r)
    <3>1. r \notin answered
      BY <1>4, <1>5, <2>2
    <3> QED BY <1>3, <2>2, <3>1 DEF Appended, Journal!Written
  <2>3. CASE status[r] = "ABSENT" /\ status'[r] = "QUEUED" /\ Appended(r)
    BY <1>4, <1>6, <2>3 DEF Appended, Journal!Written
  <2>4. CASE status[r] \in Terminal /\ status'[r] = "ABSENT" /\ events'[r] = << >>
             /\ r \notin answered'
    BY <2>4 DEF Journal!Forgotten, Terminal, Journal!Terminal
  <2> QED BY <1>1, <2>1, <2>2, <2>3, <2>4 DEF RunStep
<1>8. Journal!OneActive'
  BY DEF IInv, RowInv
<1> QED BY <1>2, <1>7, <1>8 DEF Journal!Next

(* The store cut into statements writes the journal its readers are        *)
(* promised.                                                               *)
THEOREM ImplementsJournal == Spec => JournalSpec
<1>1. Init => Journal!Init
  BY DEF Init, Journal!Init
<1>2. ASSUME IInv, IInv', [Next]_vars PROVE [Journal!Next]_(Journal!vars)
  <2>1. ASSUME UNCHANGED <<status, events, answered>> PROVE [Journal!Next]_(Journal!vars)
    BY <2>1 DEF Journal!vars
  <2>2. ASSUME NEW s \in Sessions, Statement(s) PROVE [Journal!Next]_(Journal!vars)
    BY <1>2, <2>2, StatementIsJournal
  <2>3. CASE \/ \E s \in Sessions, m \in Methods, x \in Conversations \cup Requests \cup {Nobody} :
                   Begin(s, m, x)
             \/ \E r \in Requests : Expire(r)
             \/ UNCHANGED vars
    BY <2>1, <2>3 DEF Begin, Expire, vars, rows
  <2> QED BY <1>2, <2>2, <2>3 DEF Next
<1>3. IInv /\ IInv' /\ [Next]_vars => [Journal!Next]_(Journal!vars)
  BY <1>2
<1>4. Init => IInv
  BY InitInv
<1>5. IInv /\ [Next]_vars => IInv'
  BY NextInv
<1> QED BY <1>1, <1>3, <1>4, <1>5, PTL DEF Spec, JournalSpec, Journal!Spec
=============================================================================
