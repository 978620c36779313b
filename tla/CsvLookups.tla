----------------------------- MODULE CsvLookups -----------------------------
(***************************************************************************)
(* How a session of the CSV workspace is found (CsvDemoWorkspace.get).     *)
(* The run endpoints look theirs up in a synchronous dependency, which     *)
(* FastAPI runs in a thread of its pool; every other handler does so on    *)
(* the event loop.  A lookup that finds nothing in memory reads the        *)
(* checkpoint and puts a new item into the dictionary; threads change at   *)
(* each of its database calls, so an action is what one caller does up to  *)
(* its next call or await.                                                 *)
(*                                                                         *)
(* CsvWorkspace takes a lookup in one piece and has what is left out here: *)
(* expiry, capacity, versions and durable runs.  Pruning removes nothing   *)
(* from sessions that do not expire, but a dictionary that grows while it  *)
(* is walked makes the lookup fail.                                        *)
(***************************************************************************)
EXTENDS Integers, FiniteSets

CONSTANTS
    Tokens,     \* session capabilities, each issued once
    Threads,    \* threads of the pool that look sessions up
    Loop,       \* the event loop
    Items,      \* the DemoWorkspaceSession objects that may exist at once
    None,       \* no item
    MaxCrashes  \* bound on restarts

Callers == Threads \cup {Loop}

ASSUME LookupAssumption ==
    /\ Loop \notin Threads /\ None \notin Items
    /\ MaxCrashes \in Nat

VARIABLES
    \* the database
    rows,      \* the sessions that have a checkpoint
    conv,      \* the sessions that have a conversation
    \* the process
    sessions,  \* the item in the dictionary for each token
    owner,     \* the token an item was made for
    busy,      \* the items with an operation in progress
    at,        \* where each caller stands, for which session and purpose
    \* the environment
    issued,    \* the tokens handed out
    fresh,     \* the sessions created by this process
    cleared,   \* the sessions whose clearing was acknowledged
    crashes

database == <<rows, conv>>
memory   == <<sessions, owner, busy>>
ghosts   == <<issued, fresh, cleared, crashes>>
vars     == <<database, memory, at, ghosts>>

Idle   == <<>>
Stages == {"looking", "restoring", "creating", "removing", "forgetting"}

(* What a caller looks a session up for.                                   *)
Aims(c) == IF c = Loop THEN {"visit", "lease", "clear"} ELSE {"visit"}

TypeOK ==
    /\ rows \in SUBSET Tokens /\ conv \in SUBSET Tokens
    /\ sessions \in [Tokens -> Items \cup {None}]
    /\ owner \in [Items -> Tokens \cup {None}]
    /\ busy \in SUBSET Items
    /\ at[Loop] \in {Idle} \cup Stages \X Tokens \X {"visit", "lease", "clear"}
    /\ \A c \in Threads : at[c] \in {Idle} \cup Stages \X Tokens \X {"visit"}
    /\ issued \in SUBSET Tokens /\ fresh \in SUBSET issued
    /\ cleared \in SUBSET issued
    /\ crashes \in 0..MaxCrashes

Init ==
    /\ rows = {} /\ conv = {}
    /\ sessions = [t \in Tokens |-> None] /\ owner = [i \in Items |-> None]
    /\ busy = {} /\ at = [c \in Callers |-> Idle]
    /\ issued = {} /\ fresh = {} /\ cleared = {} /\ crashes = 0
-----------------------------------------------------------------------------
Goes(c, place) == at' = [at EXCEPT ![c] = place]

(* Items nobody refers to any more are collected.                          *)
Unused == {i \in Items \ busy : \A t \in Tokens : sessions[t] # i}

Puts(t, i) ==
    /\ sessions' = [sessions EXCEPT ![t] = i]
    /\ owner' = [owner EXCEPT ![i] = t]

(* create_session: the item and the conversation, then the checkpoint; the *)
(* token is handed out with the answer.                                    *)
Create(t) ==
    /\ at[Loop] = Idle
    /\ t \notin conv \cup issued
    /\ \E i \in Unused : Puts(t, i)
    /\ conv' = conv \cup {t}
    /\ Goes(Loop, <<"creating", t, "visit">>)
    /\ UNCHANGED <<rows, busy, ghosts>>

Created(t) ==
    /\ at[Loop] = <<"creating", t, "visit">>
    /\ rows' = rows \cup {t}
    /\ issued' = issued \cup {t} /\ fresh' = fresh \cup {t}
    /\ Goes(Loop, Idle)
    /\ UNCHANGED <<conv, memory, cleared, crashes>>
-----------------------------------------------------------------------------
(* What a caller does with the item its lookup returned, up to its next    *)
(* call of the database.  A refused caller is done.                        *)

Visited(c) == Goes(c, Idle) /\ UNCHANGED <<conv, busy>>

(* Mutant: a session is cleared under an operation.                        *)
Unguarded(i) == TRUE

Available(i) == i \notin busy

Leased(c, i) ==
    /\ busy' = IF Available(i) THEN busy \cup {i} ELSE busy
    /\ Goes(c, Idle)
    /\ UNCHANGED conv

(* clear: the conversation goes first, and has to be there.                *)
Clearing(c, t, i) ==
    /\ IF Available(i) /\ t \in conv
       THEN conv' = conv \ {t} /\ Goes(c, <<"removing", t, "clear">>)
       ELSE conv' = conv /\ Goes(c, Idle)
    /\ UNCHANGED busy

Serves(c, t, aim, i) ==
    \/ aim = "visit" /\ Visited(c)
    \/ aim = "lease" /\ Leased(c, i)
    \/ aim = "clear" /\ Clearing(c, t, i)

(* Mutant: the checkpoint is read whatever memory holds.                   *)
AlwaysMissed(t) == TRUE

Missed(t) == sessions[t] = None

(* get: pruning calls the database, then the dictionary is consulted.      *)
Look(c, t) ==
    /\ at[c] = Idle /\ t \in issued
    /\ \E aim \in Aims(c) :
          \/ /\ ~Missed(t)
             /\ Serves(c, t, aim, sessions[t])
             /\ UNCHANGED <<rows, sessions, owner, ghosts>>
          \/ /\ Missed(t)
             /\ Goes(c, <<"looking", t, aim>>)
             /\ UNCHANGED <<database, memory, ghosts>>

(* run_store.restore: a session without a checkpoint is unknown.           *)
Read(c, t) ==
    /\ \E aim \in Aims(c) :
          /\ at[c] = <<"looking", t, aim>>
          /\ Goes(c, IF t \in rows THEN <<"restoring", t, aim>> ELSE Idle)
    /\ UNCHANGED <<database, memory, ghosts>>

(* The new item replaces whatever the dictionary holds by now.             *)
Restore(c, t) ==
    /\ \E aim \in Aims(c), i \in Unused :
          /\ at[c] = <<"restoring", t, aim>>
          /\ Puts(t, i)
          /\ Serves(c, t, aim, i)
    /\ UNCHANGED <<rows, ghosts>>

(* The dictionary grew while it was walked, or the database was locked.    *)
LookupFails(c) ==
    /\ at[c] # Idle /\ at[c][1] \in {"looking", "restoring"}
    /\ Goes(c, Idle)
    /\ UNCHANGED <<database, memory, ghosts>>

(* The operation ends and its item is saved.                               *)
LeaseEnd(i) ==
    /\ at[Loop] = Idle
    /\ i \in busy
    /\ busy' = busy \ {i}
    /\ rows' = rows \cup {owner[i]}
    /\ UNCHANGED <<conv, sessions, owner, at, ghosts>>
-----------------------------------------------------------------------------
(* The rest of clear: the checkpoint, then the dictionary.                 *)
RemoveRow(t) ==
    /\ at[Loop] = <<"removing", t, "clear">>
    /\ rows' = rows \ {t}
    /\ Goes(Loop, <<"forgetting", t, "clear">>)
    /\ UNCHANGED <<conv, memory, ghosts>>

Forget(t) ==
    /\ at[Loop] = <<"forgetting", t, "clear">>
    /\ sessions' = [sessions EXCEPT ![t] = None]
    /\ cleared' = cleared \cup {t}
    /\ Goes(Loop, Idle)
    /\ UNCHANGED <<database, owner, busy, issued, fresh, crashes>>

(* The process dies and starts again with what is on disk.                 *)
Crash ==
    /\ crashes < MaxCrashes
    /\ crashes' = crashes + 1
    /\ sessions' = [t \in Tokens |-> None]
    /\ owner' = [i \in Items |-> None] /\ busy' = {}
    /\ at' = [c \in Callers |-> Idle]
    /\ fresh' = {}
    /\ UNCHANGED <<database, issued, cleared>>

Next ==
    \/ \E t \in Tokens : Create(t) \/ Created(t) \/ RemoveRow(t) \/ Forget(t)
    \/ \E c \in Callers : LookupFails(c)
    \/ \E c \in Callers, t \in Tokens : Look(c, t) \/ Read(c, t) \/ Restore(c, t)
    \/ \E i \in Items : LeaseEnd(i)
    \/ Crash

Spec == Init /\ [][Next]_vars
-----------------------------------------------------------------------------
(* Properties                                                              *)

(* DEFINITION_GOVERNANCE.md: "Concurrent operations are blocked per CSV    *)
(* session".  For the sessions this process created they are, against      *)
(* every thread: the item an operation works on is the one that all other  *)
(* requests of the session find, so that none of them starts a second one  *)
(* or answers from another state of it.  A session restored after a        *)
(* restart has no such protection: the second of two lookups that overlap  *)
(* replaces the item of the first.                                         *)
FreshIsExclusive == \A i \in busy : owner[i] \in fresh => sessions[owner[i]] = i

(* A session that this process created and cleared does not come back:     *)
(* no lookup in progress, and no operation that ends late, puts it into    *)
(* memory or onto the disk again.                                          *)
ClearedIsGone ==
    \A t \in cleared \cap fresh : sessions[t] = None /\ t \notin rows
=============================================================================
