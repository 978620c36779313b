----------------------------- MODULE CsvBrowser -----------------------------
(***************************************************************************)
(* A browser tab at the CSV workspace (apps/web/src/hooks/useWorkspace.ts, *)
(* lib/runs.ts).  It keeps its session and the question it is asking in    *)
(* the session storage of the tab, which survives a reload, and shows the  *)
(* progress of the run it follows.  The network may fail any call: the tab *)
(* then gives up waiting, while a submission it sent may still arrive.     *)
(* The server's half is CsvWorkspace; the journal of its runs is reduced   *)
(* to the number of events of each, the last of which settles it.          *)
(***************************************************************************)
EXTENDS CsvWorkspace, Sequences

CONSTANTS
    MaxAsks,     \* bound on the questions asked
    MaxEvents    \* bound on the progress of a run before it settles

ASSUME BrowserAssumption ==
    /\ MaxAsks \in Nat /\ MaxEvents \in Nat \ {0}

VARIABLES
    journal,    \* the runs of each conversation, in order
    posts,      \* submissions on their way
    drawn,      \* how many request identifiers the tab has drawn
    given,      \* the sessions it was given
    foreign,    \* the sessions that somebody else has a run in
    \* session storage
    stored,     \* the session
    pending,    \* the request whose outcome is not confirmed
    \* the page
    page,       \* "blank", or "open" once the state of the workspace is shown
    call,       \* what the operation in flight waits for
    current,    \* the run as far as the reader of its events has come
    shown,      \* the run on display, as far as the tab knows it
    stale       \* the answer to a cancellation, when it is still on its way

tab == <<drawn, given, stored, pending, page, call, current, shown, stale>>

(* ask numbers the user's questions, id is the client_request_id.          *)
Requests == [token : Tokens, ask : 1..MaxAsks, id : Nat, revision : 0..MaxAsks]
Runs     == [ask : 1..MaxAsks, id : Nat, events : Nat, settled : BOOLEAN]
Views    == [id : Nat, events : Nat, settled : BOOLEAN]

BrowserTypeOK ==
    /\ TypeOK
    /\ journal \in [Tokens -> Seq(Runs)]
    /\ posts \subseteq Requests /\ pending \subseteq Requests
    /\ drawn \in 0..MaxAsks /\ given \subseteq Tokens \ foreign /\ stored \subseteq given
    /\ page \in {"blank", "open"} /\ call \in {"none", "submit", "watch"}
    /\ current \cup shown \cup stale \subseteq Views
    /\ current # {} <=> call = "watch"
    /\ \A S \in {stored, pending, current, shown, stale} : \A x, y \in S : x = y

BrowserInit ==
    /\ Init
    /\ journal = [t \in Tokens |-> << >>] /\ posts = {} /\ drawn = 0 /\ foreign = {}
    /\ given = {} /\ stored = {} /\ pending = {}
    /\ page = "blank" /\ call = "none" /\ current = {} /\ shown = {} /\ stale = {}
-----------------------------------------------------------------------------
(* The journal                                                             *)

(* Rows of runs go with their conversation.                                *)
Cascaded == [t \in Tokens |-> IF t \in conv' THEN journal[t] ELSE << >>]

(* Mutant: the last commit before a crash is lost.                         *)
LosesTail(log) ==
    [i \in DOMAIN log |->
        [log[i] EXCEPT !.events = IF log[i].settled THEN @ ELSE 1]]

Durable(log) == log

Last(t) == journal[t][Len(journal[t])]

(* What recovery does to a run that a crash interrupted.                   *)
Interrupted(log) ==
    [i \in DOMAIN log |->
        IF log[i].settled THEN log[i]
        ELSE [log[i] EXCEPT !.events = @ + 1, !.settled = TRUE]]

Serve ==
    /\ Sessions
    /\ journal' = IF crashes' # crashes
                  THEN [t \in Tokens |-> Interrupted(Durable(journal[t]))]
                  ELSE Cascaded
    /\ UNCHANGED <<posts, foreign, tab>>

Log(t, n, settled) ==
    journal' = [Cascaded EXCEPT ![t][Len(journal[t])].events = @ + n,
                                ![t][Len(journal[t])].settled = settled]

(* A run reports progress or is asked to cancel.                           *)
RunWrites(t) ==
    /\ t \in given \cap tasks /\ step = Idle
    /\ Last(t).events < MaxEvents
    /\ UNCHANGED <<vars, posts, foreign, tab>>
    /\ Log(t, 1, FALSE)

(* A run ends, or is cancelled by another tab while it has no task: the    *)
(* request, unless it was made before, and its confirmation are written at *)
(* once.                                                                   *)
RunSettles(t) ==
    /\ t \in given
    /\ \/ RunEnds(t) /\ Commits /\ Log(t, 1, TRUE)
       \/ RunEnds(t) /\ Fails /\ journal' = Cascaded
       \/ Withdraw(t) /\ \E n \in 1..2 : Log(t, n, TRUE)
    /\ UNCHANGED <<posts, foreign, tab>>

(* Runs in the sessions of other people, whose journal is left out.        *)
Elsewhere(t) ==
    /\ t \notin given
    /\ Submit(t) \/ RunEnds(t) \/ Withdraw(t)
    /\ foreign' = foreign \cup {t}
    /\ journal' = Cascaded
    /\ UNCHANGED <<posts, tab>>
-----------------------------------------------------------------------------
(* The tab                                                                 *)

Idling == call = "none"

(* The answer to POST /sessions and the first state arrive.                *)
StartSession(t) ==
    /\ Idling /\ page = "blank"
    /\ t \in conv \ (given \cup foreign) /\ saved[t] # NoRow /\ step = Idle
    /\ given' = given \cup {t} /\ stored' = {t} /\ page' = "open"
    /\ UNCHANGED <<vars, journal, posts, foreign, drawn, pending, call, current, shown, stale>>

Snapshot(r) == [id |-> r.id, events |-> r.events, settled |-> r.settled]

(* The controls are disabled while a request of this session is pending or *)
(* a run is shown unsettled.                                               *)
Ready ==
    /\ Idling /\ page = "open"
    /\ \A p \in pending : p.token \notin stored
    /\ \A s \in shown : s.settled

(* The pending request is stored before it is sent.                        *)
Ask(e) ==
    /\ Ready /\ drawn < MaxAsks
    /\ \E t \in stored :
          LET q == [token |-> t, ask |-> drawn + 1, id |-> drawn + 1, revision |-> e] IN
          /\ e <= Len(journal[t])
          /\ pending' = {q} /\ posts' = posts \cup {q}
    /\ drawn' = drawn + 1
    /\ call' = "submit"
    /\ UNCHANGED <<vars, journal, foreign, given, stored, page, current, shown, stale>>

Stop == call' = "none" /\ current' = {}

Forget ==
    /\ stored' = {} /\ pending' = {} /\ page' = "blank" /\ shown' = {} /\ Stop
    /\ UNCHANGED <<drawn, given, stale>>

(* A refusal (a status below 500 other than 429) ends the request.         *)
Refused ==
    /\ pending' = {} /\ Stop
    /\ UNCHANGED <<drawn, given, stored, page, shown, stale>>

Show(s) == current' = {s} /\ shown' = {s}

Follow(r) ==
    /\ Show(Snapshot(r))
    /\ call' = "watch"
    /\ UNCHANGED <<drawn, given, stored, pending, page, stale>>

(* Timeouts, server failures, 429, twelve connections: what is pending     *)
(* stays for the user to resume.                                           *)
GiveUp ==
    /\ ~ Idling /\ Stop
    /\ UNCHANGED <<vars, journal, posts, foreign, drawn, given, stored, pending, page, shown, stale>>

Reload ==
    /\ page' = "blank" /\ shown' = {} /\ stale' = {} /\ Stop
    /\ UNCHANGED <<vars, journal, posts, foreign, drawn, given, stored, pending>>
-----------------------------------------------------------------------------
(* Submissions                                                             *)

(* The tab still waits for the answer to q.                                *)
Awaits(q) == call = "submit" /\ q \in pending

Admitted(q) == {i \in DOMAIN journal[q.token] : journal[q.token][i].id = q.id}

Started(q) == [ask |-> q.ask, id |-> q.id, events |-> 1, settled |-> FALSE]

OnlyLooks == UNCHANGED <<active, busy, tasks, stuck, step, clients, crashes, faults>>

(* submit_run: a request that is in the journal is answered with its run.  *)
(* What else may refuse it (the source, the definition, a failed pruning)  *)
(* is left open.  A run that was enqueued but could not be announced to    *)
(* its session is answered with a server failure.                          *)
Accept(q) ==
    LET t == q.token IN
    /\ Submit(t)
    /\ Admitted(q) = {} /\ Len(journal[t]) = q.revision
    /\ journal' = [Cascaded EXCEPT ![t] = Append(@, Started(q))]
    /\ IF Awaits(q) /\ Commits THEN Follow(Started(q)) ELSE UNCHANGED tab

Repeat(q) ==
    LET t == q.token IN
    /\ Opened(t) /\ Live(t) /\ t \in conv
    /\ \E i \in Admitted(q) :
          IF Awaits(q) THEN Follow(journal[t][i]) ELSE UNCHANGED tab
    /\ journal' = Cascaded
    /\ OnlyLooks

Deny(q) ==
    /\ \/ /\ Opened(q.token)
          /\ IF ~ Awaits(q) THEN UNCHANGED tab
             ELSE IF Live(q.token) THEN Refused ELSE Forget
          /\ OnlyLooks
       \/ PruneFails /\ IF Awaits(q) THEN Refused ELSE UNCHANGED tab
    /\ journal' = Cascaded

Deliver(q) ==
    /\ Accept(q) \/ Repeat(q) \/ Deny(q)
    /\ posts' = posts \ {q} /\ UNCHANGED foreign
-----------------------------------------------------------------------------
(* Following a run                                                         *)

(* A call for the tab's session: pruned first, and refused once expired.   *)
Calls(t) ==
    /\ t \in stored
    /\ Opened(t)
    /\ OnlyLooks /\ UNCHANGED foreign

Reads(t) == Calls(t) /\ journal' = Cascaded /\ UNCHANGED posts

RunShown(t, s) == {i \in DOMAIN journal[t] : journal[t][i].id = s.id}

Watches(t) == call = "watch" /\ Reads(t)

(* One event of the stream: the next one after the cursor.                 *)
Receive(t) ==
    /\ Watches(t) /\ Live(t)
    /\ \E s \in current : \E i \in RunShown(t, s) :
          LET r == journal[t][i] IN
          /\ s.events < r.events
          /\ Show([s EXCEPT !.events = @ + 1,
                            !.settled = r.settled /\ s.events + 1 = r.events])
    /\ UNCHANGED <<drawn, given, stored, pending, page, call, stale>>

(* The snapshot after a stream: a settled run ends the request.            *)
Recheck(t) ==
    /\ Watches(t) /\ Live(t)
    /\ \E s \in current : \E i \in RunShown(t, s) :
          LET r == journal[t][i] IN
          /\ s.events <= r.events
          /\ shown' = {Snapshot(r)}
          /\ IF r.settled THEN pending' = {} /\ Stop
             ELSE current' = {Snapshot(r)} /\ UNCHANGED <<pending, call>>
    /\ UNCHANGED <<drawn, given, stored, page, stale>>

(* The session expired, the run is gone, or its definition was withdrawn:  *)
(* a stream reports every failure as the loss of access.                   *)
LoseAccess(t) ==
    /\ Watches(t)
    /\ Forget \/ (Live(t) /\ Refused)

(* Mutant: the request is drawn up anew.                                   *)
Redrawn(q) == [q EXCEPT !.id = MaxAsks + 1, !.revision = Len(journal[q.token])]

(* The request that is resumed is the stored one, as it was sent.          *)
Resumed(q) == q

(* The stored session is restored after a reload, or refreshed, and its    *)
(* pending request resumed; without one the latest run is followed.        *)
ResumeRequest(t) ==
    /\ Idling /\ Calls(t) /\ Live(t) /\ t \in conv
    /\ \E q \in pending :
          /\ q.token = t
          /\ pending' = {Resumed(q)}
          /\ posts' = posts \cup {Resumed(q)}
    /\ page' = "open" /\ call' = "submit"
    /\ journal' = Cascaded
    /\ UNCHANGED <<drawn, given, stored, current, shown, stale>>

ResumeLatest(t) ==
    /\ Idling /\ Reads(t) /\ Live(t) /\ t \in conv
    /\ \A q \in pending : q.token # t
    /\ pending' = {} /\ page' = "open"
    /\ IF journal[t] = << >> THEN UNCHANGED <<call, current, shown>>
       ELSE Show(Snapshot(Last(t))) /\ call' = "watch"
    /\ UNCHANGED <<drawn, given, stored, stale>>

ResumeExpired(t) == Idling /\ Reads(t) /\ ~ Live(t) /\ Forget

(* The cancel button is served beside the operation in flight: the run has *)
(* settled or is being cancelled already, its task is asked to stop, or it *)
(* has none and is settled.  The answer replaces what is shown, whatever   *)
(* arrived in between.                                                     *)
CancelRun(t) ==
    /\ stale = {} /\ page = "open"
    /\ \E s \in shown : \E i \in RunShown(t, s) :
          LET r == journal[t][i] IN
          /\ ~ s.settled
          /\ \/ /\ Calls(t) /\ Live(t) /\ (r.settled \/ t \in tasks)
                /\ journal' = Cascaded
                /\ stale' = {Snapshot(r)}
             \/ /\ Calls(t) /\ Live(t) /\ t \in tasks /\ ~ r.settled /\ r.events < MaxEvents
                /\ Log(t, 1, FALSE)
                /\ stale' = {[Snapshot(r) EXCEPT !.events = @ + 1]}
             \/ /\ t \in stored /\ Withdraw(t) /\ UNCHANGED foreign /\ ~ r.settled
                /\ \E n \in 1..2 :
                      /\ Log(t, n, TRUE)
                      /\ stale' = {[Snapshot(r) EXCEPT !.events = @ + n, !.settled = TRUE]}
    /\ UNCHANGED <<posts, drawn, given, stored, pending, page, call, current, shown>>

CancelAnswered ==
    /\ \E s \in stale :
          /\ shown' = {s}
          /\ pending' = IF s.settled /\ Idling THEN {} ELSE pending
    /\ stale' = {}
    /\ UNCHANGED <<vars, journal, posts, foreign, drawn, given, stored, page, call, current>>

CancelFails ==
    /\ stale # {} /\ stale' = {}
    /\ UNCHANGED <<vars, journal, posts, foreign, drawn, given, stored, pending, page, call,
                   current, shown>>

TabActs(t) ==
    \/ StartSession(t) \/ Receive(t) \/ Recheck(t) \/ LoseAccess(t)
    \/ ResumeRequest(t) \/ ResumeLatest(t) \/ ResumeExpired(t) \/ CancelRun(t)

BrowserNext ==
    \/ Serve
    \/ \E t \in Tokens : Elsewhere(t) \/ RunWrites(t) \/ RunSettles(t) \/ TabActs(t)
    \/ \E e \in 0..MaxAsks : Ask(e)
    \/ \E q \in posts : Deliver(q)
    \/ GiveUp \/ Reload \/ CancelAnswered \/ CancelFails

BrowserSpec == BrowserInit /\ [][BrowserNext]_<<vars, journal, posts, foreign, tab>>
-----------------------------------------------------------------------------
(* Properties                                                              *)

(* However often a submission is repeated, lost, late or resumed after a   *)
(* reload, a crash or an expiry, a question is executed at most once.      *)
AskedOnce ==
    \A t1, t2 \in Tokens : \A i \in DOMAIN journal[t1], j \in DOMAIN journal[t2] :
        journal[t1][i].ask = journal[t2][j].ask => t1 = t2 /\ i = j

(* What the tab shows of a run is a prefix of its history, however stale:  *)
(* it calls a run settled exactly at its last event, and no cursor that it *)
(* resumes from is outside the history the server replays.                 *)
ShownIsHistory ==
    \A s \in shown \cup current, t \in stored : \A i \in RunShown(t, s) :
        LET r == journal[t][i] IN
        /\ s.events <= r.events
        /\ s.settled <=> (r.settled /\ s.events = r.events)
=============================================================================
