---------------------------- MODULE CsvWorkspace ----------------------------
(***************************************************************************)
(* The anonymous CSV workspace (services/csv_workspace.py): sessions held  *)
(* in memory, their checkpoints and conversations in SQLite                *)
(* (services/run_store.py), and the expiry that every operation enforces   *)
(* by pruning first.                                                       *)
(*                                                                         *)
(* Handlers run on one event loop, so an action is what a handler does     *)
(* between two awaits; step marks a handler between two of its database    *)
(* transactions, where only a crash can intervene.  Any transaction may    *)
(* fail, too: it is rolled back and the handler with it, what it had       *)
(* already done remains, and the process goes on.  Run endpoints that      *)
(* look a session up from a worker thread are taken to run in one piece.   *)
(* The wall clock and the monotonic clock agree: life[t] is what both say  *)
(* is left of a session.  What a session holds is abstracted to a version. *)
(***************************************************************************)
EXTENDS Integers, FiniteSets

CONSTANTS
    Tokens,            \* session capabilities, each issued once
    Ttl,               \* settings.session_ttl_seconds
    MaximumSessions,   \* settings.maximum_sessions
    MaxVersion,        \* bound on the changes of a session
    MaxCrashes,        \* bound on crashes
    MaxFaults          \* bound on failing transactions

NoRow == -1

ASSUME WorkspaceAssumption ==
    /\ Ttl \in Nat \ {0} /\ MaximumSessions \in Nat
    /\ MaxVersion \in Nat /\ MaxCrashes \in Nat /\ MaxFaults \in Nat

VARIABLES
    \* the database
    conv,      \* the sessions whose conversation row exists
    saved,     \* the version in each session's checkpoint row
    active,    \* the sessions whose conversation has an unsettled run
    \* the process
    held,      \* the sessions in memory
    version,   \* the version of each session in memory
    behind,    \* those whose version was not saved
    busy,      \* the sessions with an operation or a run in progress
    tasks,     \* those with a run whose task will release them
    stuck,     \* those that nothing will release
    step,      \* the handler between two transactions, and its session
    \* the environment
    issued,    \* the tokens drawn
    lost,      \* those of failed creations, which nobody was given
    life,      \* what is left of each session
    crashes, faults

database == <<conv, saved, active>>
memory   == <<held, version, behind, busy, tasks, stuck>>
clients  == <<issued, lost, life>>
vars     == <<database, memory, step, clients, crashes, faults>>

Idle  == {}
Doing == {"creating", "releasing", "clearing"}

TypeOK ==
    /\ conv \in SUBSET Tokens /\ active \in SUBSET Tokens
    /\ saved \in [Tokens -> 0..MaxVersion \cup {NoRow}]
    /\ held \in SUBSET Tokens /\ busy \in SUBSET held
    /\ version \in [Tokens -> 0..MaxVersion] /\ behind \in SUBSET Tokens
    /\ tasks \in SUBSET busy /\ stuck \in SUBSET (busy \ tasks)
    /\ step \in {Idle} \cup {{<<d, t>>} : d \in Doing, t \in Tokens}
    /\ issued \in SUBSET Tokens /\ lost \in SUBSET issued
    /\ life \in [Tokens -> 0..Ttl]
    /\ crashes \in 0..MaxCrashes /\ faults \in 0..MaxFaults

Init ==
    /\ conv = {} /\ active = {} /\ saved = [t \in Tokens |-> NoRow]
    /\ held = {} /\ version = [t \in Tokens |-> 0] /\ behind = {}
    /\ busy = {} /\ tasks = {} /\ stuck = {}
    /\ step = Idle /\ issued = {} /\ lost = {}
    /\ life = [t \in Tokens |-> 0] /\ crashes = 0 /\ faults = 0
-----------------------------------------------------------------------------
(* Transactions                                                            *)

Commits == faults' = faults

Fails == faults < MaxFaults /\ faults' = faults + 1

(* Mutant: saving a session leaves its checkpoint as it is.                *)
ForgetsToSave(rows, t, v) == saved' = rows

Persists(rows, t, v) == saved' = [rows EXCEPT ![t] = v]

(* persist: the checkpoint of t is written, or stays as it is in rows.     *)
Saves(rows, t, v) ==
    \/ Commits /\ Persists(rows, t, v) /\ behind' = behind \ {t}
    \/ Fails /\ saved' = rows /\ behind' = behind \cup {t}
-----------------------------------------------------------------------------
(* Pruning, the first thing every operation does                           *)

Rows == {t \in Tokens : saved[t] # NoRow}

(* The sessions in memory that _prune deletes one by one.                  *)
Due == {t \in held : life[t] = 0 /\ t \notin busy}

(* run_store.delete refuses a conversation that is gone or has a run.      *)
Deletable == {t \in Due : t \in conv /\ t \notin active}

(* Mutant: rows are dropped while a run of theirs is unsettled.            *)
ExpiredRowsAndRuns == {t \in Rows : life[t] = 0}

(* prune_checkpoints: it sees rows and runs, not what is busy in memory.   *)
ExpiredRows == {t \in Rows : life[t] = 0 /\ t \notin active}

PrunedConv  == conv \ (Due \cup ExpiredRows)
PrunedHeld  == held \ Due
PrunedSaved == [t \in Tokens |-> IF t \in Due \cup ExpiredRows THEN NoRow ELSE saved[t]]
PrunedRows  == Rows \ (Due \cup ExpiredRows)

Prunable == step = Idle /\ Due = Deletable

(* A deletion is refused, or one of the transactions fails: the operation  *)
(* fails, whatever it was for.  Sessions that come earlier in the          *)
(* dictionary have lost their rows, one perhaps only its conversation, or  *)
(* all rows are pruned but the definitions; memory is as it was.           *)
PruneFails ==
    /\ step = Idle
    /\ \/ \E gone \in SUBSET Deletable : \E half \in SUBSET gone :
             /\ conv' = conv \ gone
             /\ saved' = [t \in Tokens |-> IF t \in gone \ half THEN NoRow ELSE saved[t]]
             /\ \/ Due # Deletable /\ half = {} /\ Commits
                \/ Fails /\ \A t, u \in half : t = u
       \/ Due = Deletable /\ Fails /\ conv' = PrunedConv /\ saved' = PrunedSaved
    /\ UNCHANGED <<active, memory, step, clients, crashes>>
-----------------------------------------------------------------------------
(* Sessions                                                                *)

(* Mutant: the sessions in memory are counted instead of the rows.         *)
RoomInMemory == Cardinality(PrunedHeld) < MaximumSessions

Room == Cardinality(PrunedRows) < MaximumSessions

(* create_session: the session in memory, its conversation, its            *)
(* checkpoint.  When one of the two transactions fails the session stays   *)
(* in memory, and its token is lost.                                       *)
Create(t) ==
    /\ Prunable /\ Room
    /\ t \notin issued
    /\ issued' = issued \cup {t}
    /\ life' = [life EXCEPT ![t] = Ttl]
    /\ held' = PrunedHeld \cup {t}
    /\ saved' = PrunedSaved
    /\ \/ Commits /\ conv' = PrunedConv \cup {t} /\ step' = {<<"creating", t>>}
          /\ UNCHANGED <<behind, lost>>
       \/ Fails /\ conv' = PrunedConv /\ behind' = behind \cup {t} /\ lost' = lost \cup {t}
          /\ UNCHANGED step
    /\ UNCHANGED <<active, version, busy, tasks, stuck, crashes>>

Created(t) ==
    /\ step = {<<"creating", t>>}
    /\ step' = Idle
    /\ Saves(saved, t, version[t])
    /\ lost' = IF Commits THEN lost ELSE lost \cup {t}
    /\ UNCHANGED <<conv, active, held, version, busy, tasks, stuck, issued, life, crashes>>

(* get: prune, then restore a session that only its checkpoint remembers.  *)
Restores(t) == t \notin PrunedHeld /\ t \in PrunedRows

Found(t) == IF Restores(t) THEN saved[t] ELSE version[t]

Lookup(t) ==
    /\ Prunable
    /\ t \notin lost
    /\ conv' = PrunedConv
    /\ held' = IF Restores(t) THEN PrunedHeld \cup {t} ELSE PrunedHeld

Live(t) == t \in held' /\ life[t] > 0

Opened(t) ==
    /\ Lookup(t)
    /\ saved' = PrunedSaved
    /\ version' = [version EXCEPT ![t] = Found(t)]
    /\ UNCHANGED behind

Edits(v) == {v} \cup {w \in {v + 1} : w <= MaxVersion}

(* state drops, in memory, the answer of a definition that was withdrawn;  *)
(* a session that was never changed has none.                              *)
Dropped(t) ==
    /\ Lookup(t) /\ Live(t) /\ Found(t) > 0
    /\ saved' = PrunedSaved
    /\ \E v \in Edits(Found(t)) : version' = [version EXCEPT ![t] = v]
    /\ behind' = behind \cup {t}

(* A request that only reads, or is refused after the lookup.              *)
Visit(t) ==
    /\ Opened(t) \/ Dropped(t)
    /\ UNCHANGED <<active, busy, tasks, stuck, step, clients, crashes, faults>>

(* lease: an upload, a chat, a rerun or a definition change awaits while   *)
(* its session is busy; whether or not it changed it, it is saved.         *)
LeaseStart(t) ==
    /\ Opened(t) /\ Live(t)
    /\ t \notin busy
    /\ busy' = busy \cup {t}
    /\ UNCHANGED <<active, tasks, stuck, step, clients, crashes, faults>>

LeaseEnd(t) ==
    /\ step = Idle
    /\ t \in busy \ (tasks \cup stuck)
    /\ \E v \in Edits(version[t]) : version' = [version EXCEPT ![t] = v] /\ Saves(saved, t, v)
    /\ busy' = busy \ {t}
    /\ UNCHANGED <<conv, active, held, tasks, stuck, step, clients, crashes>>
-----------------------------------------------------------------------------
(* Runs                                                                    *)

(* submit_run: enqueued, then accepted() marks the session busy, drops the *)
(* last answer and saves.  When that fails, the run has no task and the    *)
(* session stays busy.                                                     *)
Submit(t) ==
    /\ Lookup(t) /\ Live(t)
    /\ t \notin busy /\ t \in conv \ active
    /\ active' = active \cup {t}
    /\ busy' = busy \cup {t}
    /\ \E v \in Edits(Found(t)) :
          version' = [version EXCEPT ![t] = v] /\ Saves(PrunedSaved, t, v)
    /\ IF Commits THEN tasks' = tasks \cup {t} /\ UNCHANGED stuck
                  ELSE stuck' = stuck \cup {t} /\ UNCHANGED tasks
    /\ UNCHANGED <<step, clients, crashes>>

(* The run's task settles it, unless that fails; released() adopts the     *)
(* answer and saves.                                                       *)
RunEnds(t) ==
    /\ step = Idle
    /\ t \in tasks
    /\ \/ Commits /\ active' = active \ {t}
       \/ Fails /\ UNCHANGED active
    /\ version' \in {[version EXCEPT ![t] = v] : v \in Edits(version[t])}
    /\ busy' = busy \ {t} /\ tasks' = tasks \ {t}
    /\ step' = {<<"releasing", t>>}
    /\ UNCHANGED <<conv, saved, held, behind, stuck, clients, crashes>>

(* It looks its run up first, which needs the conversation.                *)
Released(t) ==
    /\ step = {<<"releasing", t>>} /\ t \in conv
    /\ step' = Idle
    /\ Saves(saved, t, version[t])
    /\ UNCHANGED <<conv, active, held, version, busy, tasks, stuck, clients, crashes>>

(* A run that has no task is settled by whoever cancels it.                *)
Withdraw(t) ==
    /\ Opened(t) /\ Live(t)
    /\ t \in active \ tasks
    /\ active' = active \ {t}
    /\ UNCHANGED <<busy, tasks, stuck, step, clients, crashes, faults>>
-----------------------------------------------------------------------------
(* clear: the conversation, then the checkpoint and the session.  When the *)
(* second transaction fails both stay.                                     *)
Clear(t) ==
    /\ Prunable
    /\ t \notin lost
    /\ t \in PrunedHeld \cup PrunedRows /\ life[t] > 0
    /\ t \notin busy /\ t \in conv \ active
    /\ conv' = PrunedConv \ {t}
    /\ saved' = PrunedSaved
    /\ held' = PrunedHeld \cup {t}
    /\ version' = [version EXCEPT ![t] = Found(t)]
    /\ step' = {<<"clearing", t>>}
    /\ UNCHANGED <<active, behind, busy, tasks, stuck, clients, crashes, faults>>

Cleared(t) ==
    /\ step = {<<"clearing", t>>}
    /\ step' = Idle
    /\ \/ Commits /\ saved' = [saved EXCEPT ![t] = NoRow] /\ held' = held \ {t}
       \/ Fails /\ UNCHANGED <<saved, held>>
    /\ UNCHANGED <<conv, active, version, behind, busy, tasks, stuck, clients, crashes>>

Tick ==
    /\ \E t \in Tokens : life[t] > 0
    /\ life' = [t \in Tokens |-> IF life[t] > 0 THEN life[t] - 1 ELSE 0]
    /\ UNCHANGED <<database, memory, step, issued, lost, crashes, faults>>

(* The process dies and starts again; the journal's recovery settles its   *)
(* runs before a session is restored.                                      *)
Crash ==
    /\ crashes < MaxCrashes
    /\ crashes' = crashes + 1
    /\ held' = {} /\ behind' = {} /\ busy' = {} /\ tasks' = {} /\ stuck' = {}
    /\ active' = {} /\ step' = Idle
    /\ UNCHANGED <<conv, saved, version, clients, faults>>

(* What anyone who has the token of a session may do with it, its runs     *)
(* aside.                                                                  *)
Sessions ==
    \/ PruneFails
    \/ \E t \in Tokens :
        \/ Create(t) \/ Created(t) \/ Visit(t) \/ LeaseStart(t) \/ LeaseEnd(t)
        \/ Released(t) \/ Clear(t) \/ Cleared(t)
    \/ Tick \/ Crash

Next == Sessions \/ \E t \in Tokens : Submit(t) \/ RunEnds(t) \/ Withdraw(t)

Spec == Init /\ [][Next]_vars
-----------------------------------------------------------------------------
(* Properties                                                              *)

(* A session's expiry never takes the conversation away from a run that is *)
(* still executing in it, though pruning looks at rows and not at memory.  *)
RunKeepsConversation == active \subseteq conv /\ tasks \subseteq busy \cap active

(* A session that shows itself idle and live is on disk as it is in        *)
(* memory, unless its last save failed or an answer was withdrawn from it  *)
(* since: a restart between any two requests loses nothing else of it.     *)
IdleIsDurable ==
    step = Idle =>
        \A t \in held \ (busy \cup behind) : life[t] > 0 => saved[t] = version[t]

(* Restarting cannot reset the capacity: the sessions that can still be    *)
(* opened, in memory or on disk, never exceed it.                          *)
WithinCapacity ==
    Cardinality({t \in Tokens \ lost : life[t] > 0 /\ (t \in held \/ t \in Rows)})
        <= MaximumSessions

(* DURABLE_CONVERSATIONS.md: expired workspaces "are pruned during         *)
(* subsequent operations when inactive": an idle expired session can be    *)
(* deleted, so that pruning never fails the operation it precedes.         *)
ExpiredCanBePruned == step = Idle => Due = Deletable
=============================================================================
