--------------------------- MODULE CsvLookupsProofs --------------------------
(* Theorems about CsvLookups, for every number of sessions, threads, items *)
(* and restarts.                                                           *)
EXTENDS CsvLookups, TLAPS

-----------------------------------------------------------------------------
(* The inductive invariant                                                 *)

Purposes == {"visit", "lease", "clear"}
Places   == {Idle} \cup Stages \X Tokens \X Purposes

(* A caller looks for nothing but issued sessions.  It misses none that    *)
(* this process created, unless it was cleared, and restores none.         *)
LookupOK(p) ==
    \A t \in Tokens, aim \in Purposes :
        /\ p = <<"looking", t, aim>> => t \in issued /\ (t \in fresh => t \in cleared)
        /\ p = <<"restoring", t, aim>> => t \in issued /\ t \notin fresh

(* The event loop creates a session nobody knows of, and clears one that   *)
(* no operation works on if this process created it.                       *)
Creating(t)   == <<"creating", t, "visit">>
Removing(t)   == <<"removing", t, "clear">>
Forgetting(t) == <<"forgetting", t, "clear">>

LoopOK(p) ==
    \A t \in Tokens :
        /\ p = Creating(t) => t \notin issued /\ sessions[t] # None
        /\ p = Removing(t) \/ p = Forgetting(t) =>
              t \in issued /\ (t \in fresh => \A i \in busy : owner[i] # t)
        /\ p = Forgetting(t) => t \notin rows

(* Every item in the dictionary was made for its token, and operations     *)
(* work on items of sessions somebody knows of.                            *)
Owned ==
    /\ \A t \in Tokens : sessions[t] # None => owner[sessions[t]] = t
    /\ \A i \in busy : owner[i] \in issued

(* What this process created stays in memory until it is cleared.          *)
Kept == \A t \in fresh : t \in cleared \/ sessions[t] # None

IInv ==
    /\ TypeOK /\ at \in [Callers -> Places]
    /\ Owned /\ Kept
    /\ \A c \in Callers : LookupOK(at[c])
    /\ LoopOK(at[Loop])
    /\ FreshIsExclusive /\ ClearedIsGone
-----------------------------------------------------------------------------
(* Where callers stand                                                     *)

PlacesOf(c) == {Idle} \cup Stages \X Tokens \X Aims(c)

LEMMA PlaceTypes ==
    /\ Loop \in Callers /\ \A c \in Threads : c \in Callers /\ c # Loop
    /\ \A c \in Callers : c = Loop \/ c \in Threads
    /\ Aims(Loop) = Purposes /\ \A c \in Threads : Aims(c) = {"visit"}
    /\ \A c \in Callers : PlacesOf(c) \subseteq Places /\ Idle \in PlacesOf(c)
    /\ \A c \in Callers : \A s \in Stages, t \in Tokens, aim \in Aims(c) :
          <<s, t, aim>> \in PlacesOf(c) /\ aim \in Purposes
BY LookupAssumption DEF Callers, Aims, Purposes, PlacesOf, Places

(* Only the caller that moves moves.                                       *)
LEMMA GoesMoves ==
    ASSUME TypeOK, at \in [Callers -> Places],
           NEW c \in Callers, NEW place \in PlacesOf(c), Goes(c, place)
    PROVE  /\ at' \in [Callers -> Places]
           /\ at'[c] = place
           /\ \A d \in Callers : d # c => at'[d] = at[d]
           /\ at'[Loop] \in {Idle} \cup Stages \X Tokens \X {"visit", "lease", "clear"}
           /\ \A d \in Threads : at'[d] \in {Idle} \cup Stages \X Tokens \X {"visit"}
<1>1. place \in Places
  BY PlaceTypes
<1>2. /\ at' \in [Callers -> Places] /\ at'[c] = place
      /\ \A d \in Callers : d # c => at'[d] = at[d]
  BY <1>1 DEF Goes
<1>3. \A d \in Callers : at'[d] \in PlacesOf(d)
  <2>1. \A d \in Callers : at[d] \in PlacesOf(d)
    BY PlaceTypes DEF TypeOK, PlacesOf, Purposes
  <2> QED BY <1>2, <2>1
<1> QED BY <1>2, <1>3, PlaceTypes DEF PlacesOf, Purposes

(* A caller that is done, or that never was anywhere, breaks nothing.      *)
LEMMA IdleOK == LookupOK(Idle) /\ LoopOK(Idle)
<1>1. \A s, t, aim : Idle # <<s, t, aim>>
  BY DEF Idle
<1> QED BY <1>1 DEF LookupOK, LoopOK, Creating, Removing, Forgetting

(* A caller moves on and leaves everything else as it is.                  *)
LEMMA MovesOn ==
    ASSUME IInv, NEW c \in Callers, NEW place \in PlacesOf(c), Goes(c, place),
           UNCHANGED <<database, memory, ghosts>>,
           LookupOK(place), c = Loop => LoopOK(place)
    PROVE  IInv'
<1>1. UNCHANGED <<rows, conv, sessions, owner, busy, issued, fresh, cleared, crashes>>
  BY DEF database, memory, ghosts
<1>2. /\ at' \in [Callers -> Places] /\ at'[c] = place
      /\ \A d \in Callers : d # c => at'[d] = at[d]
      /\ at'[Loop] \in {Idle} \cup Stages \X Tokens \X {"visit", "lease", "clear"}
      /\ \A d \in Threads : at'[d] \in {Idle} \cup Stages \X Tokens \X {"visit"}
  BY GoesMoves DEF IInv
<1>3. TypeOK'
  BY <1>1, <1>2 DEF IInv, TypeOK
<1>4. Owned' /\ Kept' /\ FreshIsExclusive' /\ ClearedIsGone'
  BY <1>1 DEF IInv, Owned, Kept, FreshIsExclusive, ClearedIsGone
<1>5. \A d \in Callers : LookupOK(at'[d])
  BY <1>2 DEF IInv
<1>6. LoopOK(at'[Loop])
  BY <1>2, PlaceTypes DEF IInv
<1>7. \A d \in Callers : LookupOK(at[d])'
  BY <1>1, <1>5 DEF LookupOK
<1>8. LoopOK(at[Loop])'
  BY <1>1, <1>6 DEF LoopOK
<1> QED BY <1>2, <1>3, <1>4, <1>7, <1>8 DEF IInv
-----------------------------------------------------------------------------
(* One lemma for each action                                               *)

LEMMA InitInv == Init => IInv
<1> SUFFICES ASSUME Init PROVE IInv
  OBVIOUS
<1>1. TypeOK /\ at \in [Callers -> Places]
  BY LookupAssumption DEF Init, TypeOK, Callers, Places
<1>2. \A c \in Callers : LookupOK(at[c]) /\ LoopOK(at[c])
  BY IdleOK DEF Init
<1> QED BY <1>1, <1>2, PlaceTypes DEF Init, IInv, Owned, Kept, FreshIsExclusive, ClearedIsGone

(* A new item is made of one that no operation and no token refers to.     *)
LEMMA PutsMoves ==
    ASSUME IInv, NEW t \in Tokens, NEW i \in Unused, Puts(t, i)
    PROVE  /\ i \in Items /\ i \notin busy /\ i # None
           /\ sessions' \in [Tokens -> Items \cup {None}]
           /\ owner' \in [Items -> Tokens \cup {None}]
           /\ sessions'[t] = i /\ owner'[i] = t
           /\ \A u \in Tokens : u # t => sessions'[u] = sessions[u] /\ sessions[u] # i
           /\ \A j \in Items : j # i => owner'[j] = owner[j]
           /\ \A j \in busy : j \in Items /\ owner'[j] = owner[j]
           /\ \A u \in Tokens : sessions'[u] # None => owner'[sessions'[u]] = u
<1>1. /\ i \in Items /\ i \notin busy /\ i # None
      /\ \A u \in Tokens : sessions[u] # i
  BY LookupAssumption DEF Unused
<1>2. /\ sessions' \in [Tokens -> Items \cup {None}]
      /\ owner' \in [Items -> Tokens \cup {None}]
      /\ sessions'[t] = i /\ owner'[i] = t
      /\ \A u \in Tokens : u # t => sessions'[u] = sessions[u]
      /\ \A j \in Items : j # i => owner'[j] = owner[j]
  BY <1>1 DEF IInv, TypeOK, Puts
<1>3. \A j \in busy : j \in Items /\ owner'[j] = owner[j]
  BY <1>1, <1>2 DEF IInv, TypeOK
<1>4. ASSUME NEW u \in Tokens, sessions'[u] # None PROVE owner'[sessions'[u]] = u
  <2>1. CASE u = t
    BY <1>2, <2>1
  <2>2. CASE u # t
    <3>1. sessions'[u] = sessions[u] /\ sessions[u] \in Items /\ sessions[u] # i
      BY <1>1, <1>2, <1>4, <2>2 DEF IInv, TypeOK
    <3>2. owner[sessions[u]] = u
      BY <1>4, <3>1 DEF IInv, Owned
    <3> QED BY <1>2, <3>1, <3>2
  <2> QED BY <2>1, <2>2
<1> QED BY <1>1, <1>2, <1>3, <1>4

LEMMA CreateInv ==
    ASSUME IInv, NEW t \in Tokens, Create(t)
    PROVE  IInv'
<1> DEFINE place == Creating(t)
<1>1. PICK i \in Unused : Puts(t, i)
  BY DEF Create
<1>2. /\ t \notin issued /\ conv' = conv \cup {t} /\ Goes(Loop, place)
      /\ UNCHANGED <<rows, busy, issued, fresh, cleared, crashes>>
  BY DEF Create, ghosts, Creating
<1>3. place \in PlacesOf(Loop) /\ Loop \in Callers
  BY PlaceTypes DEF Stages, Purposes, Creating
<1>4. LookupOK(place)
  BY DEF LookupOK, Creating
<1> HIDE DEF place
<1>5. /\ at' \in [Callers -> Places] /\ at'[Loop] = place
      /\ \A d \in Callers : d # Loop => at'[d] = at[d]
      /\ at'[Loop] \in {Idle} \cup Stages \X Tokens \X {"visit", "lease", "clear"}
      /\ \A d \in Threads : at'[d] \in {Idle} \cup Stages \X Tokens \X {"visit"}
  BY <1>2, <1>3, GoesMoves DEF IInv
<1>6. /\ sessions' \in [Tokens -> Items \cup {None}] /\ owner' \in [Items -> Tokens \cup {None}]
      /\ sessions'[t] # None
      /\ \A u \in Tokens : u # t => sessions'[u] = sessions[u]
      /\ \A j \in busy : owner'[j] = owner[j]
      /\ \A u \in Tokens : sessions'[u] # None => owner'[sessions'[u]] = u
  BY <1>1, PutsMoves
<1>7. TypeOK'
  BY <1>2, <1>5, <1>6 DEF IInv, TypeOK
<1>8. Owned'
  BY <1>2, <1>6 DEF IInv, Owned
<1>9. fresh \subseteq issued /\ cleared \subseteq issued /\ issued \subseteq Tokens
      /\ busy \subseteq Items
  BY DEF IInv, TypeOK
<1>10. Kept' /\ FreshIsExclusive' /\ ClearedIsGone'
  BY <1>2, <1>6, <1>9 DEF IInv, Kept, FreshIsExclusive, ClearedIsGone
<1>11. \A d \in Callers : LookupOK(at[d])'
  <2>1. \A d \in Callers : LookupOK(at'[d])
    BY <1>4, <1>5 DEF IInv
  <2> QED BY <1>2, <2>1 DEF LookupOK
<1>12. LoopOK(at[Loop])'
  <2>1. \A u \in Tokens : /\ place = Creating(u) => u = t
                          /\ place # Removing(u) /\ place # Forgetting(u)
    BY DEF place, Creating, Removing, Forgetting
  <2> QED BY <1>2, <1>5, <1>6, <2>1 DEF LoopOK
<1> QED BY <1>5, <1>7, <1>8, <1>10, <1>11, <1>12 DEF IInv

(* The token of a created session is handed out: nobody works on it yet.   *)
LEMMA CreatedInv ==
    ASSUME IInv, NEW t \in Tokens, Created(t)
    PROVE  IInv'
<1>1. /\ rows' = rows \cup {t} /\ issued' = issued \cup {t} /\ fresh' = fresh \cup {t}
      /\ Goes(Loop, Idle) /\ at[Loop] = Creating(t)
      /\ UNCHANGED <<conv, sessions, owner, busy, cleared, crashes>>
  BY DEF Created, memory, Creating
<1>2. Loop \in Callers /\ Idle \in PlacesOf(Loop)
  BY PlaceTypes
<1>3. /\ at' \in [Callers -> Places] /\ at'[Loop] = Idle
      /\ \A d \in Callers : d # Loop => at'[d] = at[d]
      /\ at'[Loop] \in {Idle} \cup Stages \X Tokens \X {"visit", "lease", "clear"}
      /\ \A d \in Threads : at'[d] \in {Idle} \cup Stages \X Tokens \X {"visit"}
  BY <1>1, <1>2, GoesMoves DEF IInv
<1>4. t \notin issued /\ sessions[t] # None
  BY <1>1 DEF IInv, LoopOK
<1>5. /\ fresh \subseteq issued /\ cleared \subseteq issued /\ issued \subseteq Tokens
      /\ busy \subseteq Items
      /\ \A i \in busy : owner[i] \in issued
  BY DEF IInv, TypeOK, Owned
<1>6. TypeOK'
  BY <1>1, <1>3, <1>5 DEF IInv, TypeOK
<1>7. Owned' /\ Kept' /\ FreshIsExclusive' /\ ClearedIsGone'
  BY <1>1, <1>4, <1>5 DEF IInv, Owned, Kept, FreshIsExclusive, ClearedIsGone
<1>8. \A d \in Callers : LookupOK(at'[d])
  BY <1>3, IdleOK DEF IInv
<1>9. \A d \in Callers : LookupOK(at[d])'
  <2> SUFFICES ASSUME NEW d \in Callers, NEW u \in Tokens, NEW aim \in Purposes
               PROVE  /\ at'[d] = <<"looking", u, aim>> =>
                            u \in issued' /\ (u \in fresh' => u \in cleared')
                      /\ at'[d] = <<"restoring", u, aim>> => u \in issued' /\ u \notin fresh'
    BY DEF LookupOK
  <2>1. /\ at'[d] = <<"looking", u, aim>> => u \in issued /\ (u \in fresh => u \in cleared)
        /\ at'[d] = <<"restoring", u, aim>> => u \in issued /\ u \notin fresh
    BY <1>8 DEF LookupOK
  <2> QED BY <1>1, <1>4, <2>1
<1>10. LoopOK(at[Loop])'
  <2>1. \A u \in Tokens : Idle # Creating(u) /\ Idle # Removing(u) /\ Idle # Forgetting(u)
    BY DEF Idle, Creating, Removing, Forgetting
  <2> QED BY <1>3, <2>1 DEF LoopOK
<1> QED BY <1>3, <1>6, <1>7, <1>9, <1>10 DEF IInv

(* An operation takes the item of its session, while nothing is cleared.   *)
LEMMA LeaseKept ==
    ASSUME IInv, NEW t \in Tokens, NEW i \in Items, t \in issued, sessions[t] = i,
           NEW b, b = busy \cup {i}
    PROVE  /\ b \subseteq Items
           /\ \A j \in b : owner[j] \in issued
           /\ \A j \in b : owner[j] \in fresh => sessions[owner[j]] = j
<1>1. owner[i] = t
  BY LookupAssumption DEF IInv, Owned
<1> QED BY <1>1 DEF IInv, TypeOK, Owned, FreshIsExclusive

LEMMA LookInv ==
    ASSUME IInv, NEW c \in Callers, NEW t \in Tokens, Look(c, t)
    PROVE  IInv'
<1>1. PICK aim \in Aims(c) :
         \/ /\ ~Missed(t) /\ Serves(c, t, aim, sessions[t])
            /\ UNCHANGED <<rows, sessions, owner, ghosts>>
         \/ /\ Missed(t) /\ Goes(c, <<"looking", t, aim>>)
            /\ UNCHANGED <<database, memory, ghosts>>
  BY DEF Look
<1>2. t \in issued /\ Idle \in PlacesOf(c)
  BY PlaceTypes DEF Look
<1>3. CASE Missed(t) /\ Goes(c, <<"looking", t, aim>>) /\ UNCHANGED <<database, memory, ghosts>>
  <2> DEFINE place == <<"looking", t, aim>>
  <2>1. place \in PlacesOf(c)
    BY PlaceTypes DEF Stages
  <2>2. t \in fresh => t \in cleared
    BY <1>3 DEF IInv, Kept, Missed
  <2>3. LookupOK(place)
    BY <1>2, <2>2 DEF LookupOK
  <2>4. LoopOK(place)
    BY DEF LoopOK, Creating, Removing, Forgetting
  <2> HIDE DEF place
  <2>5. Goes(c, place)
    BY <1>3 DEF place
  <2> QED BY <1>3, <2>1, <2>3, <2>4, <2>5, MovesOn
<1>4. CASE ~Missed(t) /\ Serves(c, t, aim, sessions[t]) /\ UNCHANGED <<rows, sessions, owner, ghosts>>
  <2>1. UNCHANGED <<rows, sessions, owner, issued, fresh, cleared, crashes>>
    BY <1>4 DEF ghosts
  <2>2. sessions[t] \in Items
    BY <1>4 DEF IInv, TypeOK, Missed
  <2>3. CASE Goes(c, Idle) /\ UNCHANGED <<conv, busy>>
    BY <1>2, <2>1, <2>3, IdleOK, MovesOn DEF database, memory, ghosts
  <2>4. CASE aim = "lease" /\ Leased(c, sessions[t])
    <3>1. c = Loop /\ Goes(c, Idle) /\ conv' = conv
          /\ (busy' = busy \/ busy' = busy \cup {sessions[t]})
      BY <2>4, PlaceTypes DEF Leased
    <3>2. /\ at' \in [Callers -> Places] /\ at'[Loop] = Idle
          /\ \A d \in Callers : d # Loop => at'[d] = at[d]
          /\ at'[Loop] \in {Idle} \cup Stages \X Tokens \X {"visit", "lease", "clear"}
          /\ \A d \in Threads : at'[d] \in {Idle} \cup Stages \X Tokens \X {"visit"}
      BY <1>2, <3>1, GoesMoves DEF IInv
    <3>3. /\ busy' \subseteq Items
          /\ \A j \in busy' : owner[j] \in issued
          /\ \A j \in busy' : owner[j] \in fresh => sessions[owner[j]] = j
      <4>1. CASE busy' = busy
        BY <4>1 DEF IInv, TypeOK, Owned, FreshIsExclusive
      <4>2. CASE busy' = busy \cup {sessions[t]}
        BY <1>2, <2>2, <4>2, LeaseKept
      <4> QED BY <3>1, <4>1, <4>2
    <3>4. TypeOK'
      BY <2>1, <3>1, <3>2, <3>3 DEF IInv, TypeOK
    <3>5. Owned' /\ Kept' /\ FreshIsExclusive' /\ ClearedIsGone'
      BY <2>1, <3>3 DEF IInv, Owned, Kept, FreshIsExclusive, ClearedIsGone
    <3>6. \A d \in Callers : LookupOK(at'[d])
      BY <3>2, IdleOK DEF IInv
    <3>7. \A d \in Callers : LookupOK(at[d])'
      BY <2>1, <3>6 DEF LookupOK
    <3>8. LoopOK(at[Loop])'
      <4>1. \A u \in Tokens : Idle # Creating(u) /\ Idle # Removing(u) /\ Idle # Forgetting(u)
        BY DEF Idle, Creating, Removing, Forgetting
      <4> QED BY <3>2, <4>1 DEF LoopOK
    <3> QED BY <3>2, <3>4, <3>5, <3>7, <3>8 DEF IInv
  <2>5. CASE aim = "clear" /\ busy' = busy /\ sessions[t] \notin busy
             /\ conv' = conv \ {t} /\ Goes(c, <<"removing", t, "clear">>)
    <3> DEFINE place == Removing(t)
    <3>1. c = Loop /\ Goes(c, place)
      BY <2>5, PlaceTypes DEF Removing
    <3>2. place \in PlacesOf(c) /\ LookupOK(place)
      BY <3>1, PlaceTypes DEF Stages, Purposes, Removing, LookupOK
    <3>3. t \in fresh => \A j \in busy : owner[j] # t
      BY <2>5 DEF IInv, FreshIsExclusive
    <3>4. LoopOK(place)
      BY <1>2, <3>3 DEF LoopOK, Creating, Removing, Forgetting
    <3> HIDE DEF place
    <3>5. /\ at' \in [Callers -> Places] /\ at'[Loop] = place
          /\ \A d \in Callers : d # Loop => at'[d] = at[d]
          /\ at'[Loop] \in {Idle} \cup Stages \X Tokens \X {"visit", "lease", "clear"}
          /\ \A d \in Threads : at'[d] \in {Idle} \cup Stages \X Tokens \X {"visit"}
      BY <3>1, <3>2, GoesMoves DEF IInv
    <3>6. TypeOK'
      BY <2>1, <2>5, <3>5 DEF IInv, TypeOK
    <3>7. Owned' /\ Kept' /\ FreshIsExclusive' /\ ClearedIsGone'
      BY <2>1, <2>5 DEF IInv, Owned, Kept, FreshIsExclusive, ClearedIsGone
    <3>8. \A d \in Callers : LookupOK(at'[d])
      BY <3>2, <3>5 DEF IInv
    <3>9. \A d \in Callers : LookupOK(at[d])'
      BY <2>1, <3>8 DEF LookupOK
    <3>10. LoopOK(at[Loop])'
      BY <2>1, <2>5, <3>4, <3>5 DEF LoopOK
    <3> QED BY <3>5, <3>6, <3>7, <3>9, <3>10 DEF IInv
  <2> QED BY <1>4, <2>3, <2>4, <2>5 DEF Serves, Visited, Clearing, Available
<1> QED BY <1>1, <1>3, <1>4

LEMMA ReadInv ==
    ASSUME IInv, NEW c \in Callers, NEW t \in Tokens, Read(c, t)
    PROVE  IInv'
<1>1. PICK aim \in Aims(c) :
         /\ at[c] = <<"looking", t, aim>>
         /\ Goes(c, IF t \in rows THEN <<"restoring", t, aim>> ELSE Idle)
         /\ UNCHANGED <<database, memory, ghosts>>
  BY DEF Read
<1>2. aim \in Purposes /\ Idle \in PlacesOf(c)
  BY PlaceTypes DEF Stages
<1>3. CASE t \notin rows
  BY <1>1, <1>2, <1>3, IdleOK, MovesOn
<1>4. CASE t \in rows
  <2> DEFINE place == <<"restoring", t, aim>>
  <2>1. place \in PlacesOf(c)
    BY PlaceTypes DEF Stages
  <2>2. t \in issued /\ (t \in fresh => t \in cleared)
    BY <1>1, <1>2 DEF IInv, LookupOK
  <2>3. t \notin fresh
    BY <1>4, <2>2 DEF IInv, ClearedIsGone
  <2>4. LookupOK(place) /\ LoopOK(place)
    BY <2>2, <2>3 DEF LookupOK, LoopOK, Creating, Removing, Forgetting
  <2>5. Goes(c, place)
    BY <1>1, <1>4
  <2> HIDE DEF place
  <2> QED BY <1>1, <2>1, <2>4, <2>5, MovesOn
<1> QED BY <1>3, <1>4

(* A restored session was not created by this process; what is done with   *)
(* the new item in its place cannot meet one that was.                     *)
LEMMA RestoreInv ==
    ASSUME IInv, NEW c \in Callers, NEW t \in Tokens, Restore(c, t)
    PROVE  IInv'
<1>1. PICK aim \in Aims(c), i \in Unused :
         at[c] = <<"restoring", t, aim>> /\ Puts(t, i) /\ Serves(c, t, aim, i)
  BY DEF Restore
<1>2. UNCHANGED <<rows, issued, fresh, cleared, crashes>>
  BY DEF Restore, ghosts
<1>3. t \in issued /\ t \notin fresh /\ Idle \in PlacesOf(c)
  BY <1>1, PlaceTypes DEF IInv, LookupOK, Stages
<1>4. /\ i \in Items /\ i \notin busy /\ i # None
      /\ sessions' \in [Tokens -> Items \cup {None}]
      /\ owner' \in [Items -> Tokens \cup {None}]
      /\ sessions'[t] = i /\ owner'[i] = t
      /\ \A u \in Tokens : u # t => sessions'[u] = sessions[u]
      /\ \A j \in busy : j \in Items /\ owner'[j] = owner[j]
      /\ \A u \in Tokens : sessions'[u] # None => owner'[sessions'[u]] = u
  BY <1>1, PutsMoves
<1>5. PICK place \in PlacesOf(c) :
         Goes(c, place) /\ (place = Idle \/ (c = Loop /\ place = Removing(t)))
  <2>1. CASE Goes(c, Idle)
    BY <1>3, <2>1
  <2>2. CASE aim = "clear" /\ Goes(c, <<"removing", t, "clear">>)
    <3>1. c = Loop /\ Removing(t) \in PlacesOf(c)
      BY <2>2, PlaceTypes DEF Stages, Purposes, Removing
    <3> QED BY <2>2, <3>1 DEF Removing
  <2> QED BY <1>1, <2>1, <2>2 DEF Serves, Visited, Leased, Clearing
<1>6. /\ conv' \subseteq Tokens
      /\ busy' = busy \/ (c = Loop /\ place = Idle /\ busy' = busy \cup {i})
  <2>1. conv \subseteq Tokens
    BY DEF IInv, TypeOK
  <2>2. CASE aim = "visit" /\ Visited(c)
    BY <2>1, <2>2 DEF Visited
  <2>3. CASE aim = "lease" /\ Leased(c, i)
    <3>1. c = Loop /\ Goes(c, Idle) /\ conv' = conv /\ busy' = busy \cup {i}
      BY <1>4, <2>3, PlaceTypes DEF Leased, Available
    <3>2. place = Idle
      <4>1. at \in [Callers -> Places] /\ place \in Places /\ Idle \in Places
        BY PlaceTypes DEF IInv
      <4>2. at'[c] = place /\ at'[c] = Idle
        BY <1>5, <3>1, <4>1 DEF Goes
      <4> QED BY <4>2
    <3> QED BY <2>1, <3>1, <3>2
  <2>4. CASE aim = "clear" /\ Clearing(c, t, i)
    BY <2>1, <2>4 DEF Clearing
  <2> QED BY <1>1, <2>2, <2>3, <2>4 DEF Serves
<1>7. /\ at' \in [Callers -> Places] /\ at'[c] = place
      /\ \A d \in Callers : d # c => at'[d] = at[d]
      /\ at'[Loop] \in {Idle} \cup Stages \X Tokens \X {"visit", "lease", "clear"}
      /\ \A d \in Threads : at'[d] \in {Idle} \cup Stages \X Tokens \X {"visit"}
  BY <1>5, GoesMoves DEF IInv
<1>8. /\ busy' \subseteq Items /\ fresh \subseteq issued /\ issued \subseteq Tokens
      /\ \A j \in busy' : owner'[j] \in issued
      /\ \A j \in busy' : owner'[j] \in fresh => owner'[j] # t /\ sessions'[owner'[j]] = j
  BY <1>3, <1>4, <1>6 DEF IInv, TypeOK, Owned, FreshIsExclusive
<1>9. TypeOK'
  BY <1>2, <1>4, <1>6, <1>7, <1>8 DEF IInv, TypeOK
<1>10. Owned' /\ Kept' /\ FreshIsExclusive' /\ ClearedIsGone'
  BY <1>2, <1>3, <1>4, <1>8 DEF IInv, Owned, Kept, FreshIsExclusive, ClearedIsGone
<1>11. LookupOK(place)
  BY <1>5, IdleOK DEF LookupOK, Removing
<1>12. \A d \in Callers : LookupOK(at'[d])
  BY <1>7, <1>11 DEF IInv
<1>13. \A d \in Callers : LookupOK(at[d])'
  BY <1>2, <1>12 DEF LookupOK
<1>14. \A u \in Tokens : /\ Idle # Creating(u) /\ Idle # Removing(u) /\ Idle # Forgetting(u)
                         /\ Removing(t) # Creating(u) /\ Removing(t) # Forgetting(u)
                         /\ Removing(t) = Removing(u) => u = t
  BY DEF Idle, Creating, Removing, Forgetting
<1>15. LoopOK(at[Loop])'
  <2>1. CASE c = Loop
    BY <1>2, <1>3, <1>5, <1>7, <1>14, <2>1 DEF LoopOK
  <2>2. CASE c # Loop
    <3>1. at'[Loop] = at[Loop] /\ busy' = busy /\ LoopOK(at[Loop])
      BY <1>6, <1>7, <2>2, PlaceTypes DEF IInv
    <3> QED BY <1>2, <1>4, <3>1 DEF LoopOK
  <2> QED BY <2>1, <2>2
<1> QED BY <1>7, <1>9, <1>10, <1>13, <1>15 DEF IInv

LEMMA LookupFailsInv ==
    ASSUME IInv, NEW c \in Callers, LookupFails(c)
    PROVE  IInv'
BY PlaceTypes, IdleOK, MovesOn DEF LookupFails

(* An operation that ends saves its session: one that is not cleared, if   *)
(* this process created it.                                                *)
LEMMA LeaseEndInv ==
    ASSUME IInv, NEW i \in Items, LeaseEnd(i)
    PROVE  IInv'
<1>1. /\ at[Loop] = Idle /\ i \in busy /\ busy' = busy \ {i} /\ rows' = rows \cup {owner[i]}
      /\ UNCHANGED <<conv, sessions, owner, at, issued, fresh, cleared, crashes>>
  BY DEF LeaseEnd, ghosts
<1>2. owner[i] \in issued /\ issued \subseteq Tokens
  BY <1>1 DEF IInv, TypeOK, Owned
<1>3. owner[i] \in fresh => owner[i] \notin cleared
  <2>1. i # None
    BY LookupAssumption
  <2> QED BY <1>1, <2>1 DEF IInv, FreshIsExclusive, ClearedIsGone
<1>4. TypeOK'
  BY <1>1, <1>2 DEF IInv, TypeOK
<1>5. Owned' /\ Kept' /\ FreshIsExclusive'
  BY <1>1 DEF IInv, Owned, Kept, FreshIsExclusive
<1>6. ClearedIsGone'
  BY <1>1, <1>3 DEF IInv, ClearedIsGone
<1>7. \A d \in Callers : LookupOK(at[d])'
  BY <1>1 DEF IInv, LookupOK
<1>8. LoopOK(at[Loop])'
  <2>1. \A u \in Tokens : Idle # Creating(u) /\ Idle # Removing(u) /\ Idle # Forgetting(u)
    BY DEF Idle, Creating, Removing, Forgetting
  <2> QED BY <1>1, <2>1 DEF LoopOK
<1> QED BY <1>1, <1>4, <1>5, <1>6, <1>7, <1>8 DEF IInv

LEMMA RemoveRowInv ==
    ASSUME IInv, NEW t \in Tokens, RemoveRow(t)
    PROVE  IInv'
<1> DEFINE place == Forgetting(t)
<1>1. /\ at[Loop] = Removing(t) /\ rows' = rows \ {t} /\ Goes(Loop, place)
      /\ UNCHANGED <<conv, sessions, owner, busy, issued, fresh, cleared, crashes>>
  BY DEF RemoveRow, memory, ghosts, Removing, Forgetting
<1>2. Loop \in Callers /\ place \in PlacesOf(Loop) /\ LookupOK(place)
  BY PlaceTypes DEF Stages, Purposes, Forgetting, LookupOK
<1>3. t \in issued /\ (t \in fresh => \A i \in busy : owner[i] # t)
  BY <1>1 DEF IInv, LoopOK
<1>4. \A u \in Tokens : /\ place # Creating(u) /\ place # Removing(u)
                        /\ place = Forgetting(u) => u = t
  BY DEF Creating, Removing, Forgetting
<1> HIDE DEF place
<1>5. /\ at' \in [Callers -> Places] /\ at'[Loop] = place
      /\ \A d \in Callers : d # Loop => at'[d] = at[d]
      /\ at'[Loop] \in {Idle} \cup Stages \X Tokens \X {"visit", "lease", "clear"}
      /\ \A d \in Threads : at'[d] \in {Idle} \cup Stages \X Tokens \X {"visit"}
  BY <1>1, <1>2, GoesMoves DEF IInv
<1>6. TypeOK'
  BY <1>1, <1>5 DEF IInv, TypeOK
<1>7. Owned' /\ Kept' /\ FreshIsExclusive' /\ ClearedIsGone'
  BY <1>1 DEF IInv, Owned, Kept, FreshIsExclusive, ClearedIsGone
<1>8. \A d \in Callers : LookupOK(at'[d])
  BY <1>2, <1>5 DEF IInv
<1>9. \A d \in Callers : LookupOK(at[d])'
  BY <1>1, <1>8 DEF LookupOK
<1>10. LoopOK(at[Loop])'
  BY <1>1, <1>3, <1>4, <1>5 DEF LoopOK
<1> QED BY <1>5, <1>6, <1>7, <1>9, <1>10 DEF IInv

LEMMA ForgetInv ==
    ASSUME IInv, NEW t \in Tokens, Forget(t)
    PROVE  IInv'
<1>1. /\ at[Loop] = Forgetting(t) /\ Goes(Loop, Idle) /\ cleared' = cleared \cup {t}
      /\ UNCHANGED <<rows, conv, owner, busy, issued, fresh, crashes>>
  BY DEF Forget, database, Forgetting
<1>2. /\ sessions' \in [Tokens -> Items \cup {None}] /\ sessions'[t] = None
      /\ \A u \in Tokens : u # t => sessions'[u] = sessions[u]
  BY DEF Forget, IInv, TypeOK
<1>3. t \in issued /\ t \notin rows /\ (t \in fresh => \A i \in busy : owner[i] # t)
  BY <1>1 DEF IInv, LoopOK
<1>4. Loop \in Callers /\ Idle \in PlacesOf(Loop)
  BY PlaceTypes
<1>5. /\ at' \in [Callers -> Places] /\ at'[Loop] = Idle
      /\ \A d \in Callers : d # Loop => at'[d] = at[d]
      /\ at'[Loop] \in {Idle} \cup Stages \X Tokens \X {"visit", "lease", "clear"}
      /\ \A d \in Threads : at'[d] \in {Idle} \cup Stages \X Tokens \X {"visit"}
  BY <1>1, <1>4, GoesMoves DEF IInv
<1>6. TypeOK'
  BY <1>1, <1>2, <1>3, <1>5 DEF IInv, TypeOK
<1>7. Owned' /\ Kept'
  BY <1>1, <1>2 DEF IInv, TypeOK, Owned, Kept
<1>8. FreshIsExclusive'
  <2>1. \A i \in busy : owner[i] \in Tokens
    BY DEF IInv, Owned, TypeOK
  <2> QED BY <1>1, <1>2, <1>3, <2>1 DEF IInv, FreshIsExclusive
<1>9. ClearedIsGone'
  <2>1. cleared \subseteq Tokens
    BY DEF IInv, TypeOK
  <2> QED BY <1>1, <1>2, <1>3, <2>1 DEF IInv, ClearedIsGone
<1>10. \A d \in Callers : LookupOK(at'[d])
  BY <1>5, IdleOK DEF IInv
<1>11. \A d \in Callers : LookupOK(at[d])'
  BY <1>1, <1>10 DEF LookupOK
<1>12. LoopOK(at[Loop])'
  <2>1. \A u \in Tokens : Idle # Creating(u) /\ Idle # Removing(u) /\ Idle # Forgetting(u)
    BY DEF Idle, Creating, Removing, Forgetting
  <2> QED BY <1>5, <2>1 DEF LoopOK
<1> QED BY <1>5, <1>6, <1>7, <1>8, <1>9, <1>11, <1>12 DEF IInv

LEMMA CrashInv == ASSUME IInv, Crash PROVE IInv'
<1>1. /\ at' = [c \in Callers |-> Idle] /\ fresh' = {} /\ busy' = {}
      /\ sessions' = [t \in Tokens |-> None] /\ owner' = [i \in Items |-> None]
      /\ UNCHANGED <<rows, conv, issued, cleared>>
  BY DEF Crash, database
<1>2. TypeOK' /\ at' \in [Callers -> Places]
  <2>1. crashes' \in 0..MaxCrashes
    BY LookupAssumption DEF IInv, TypeOK, Crash
  <2>2. \A c \in Callers : Idle \in Places /\ at'[c] = Idle
    BY <1>1 DEF Places
  <2> QED BY <1>1, <2>1, <2>2, PlaceTypes DEF IInv, TypeOK
<1>3. Owned' /\ Kept' /\ FreshIsExclusive' /\ ClearedIsGone'
  BY <1>1 DEF Owned, Kept, FreshIsExclusive, ClearedIsGone
<1>4. \A s, t, aim : Idle # <<s, t, aim>>
  BY DEF Idle
<1>5. (\A c \in Callers : LookupOK(at[c]))' /\ LoopOK(at[Loop])'
  BY <1>1, <1>4, PlaceTypes DEF LookupOK, LoopOK, Creating, Removing, Forgetting
<1> QED BY <1>2, <1>3, <1>5 DEF IInv

LEMMA NextInv == ASSUME IInv, [Next]_vars PROVE IInv'
<1>1. CASE UNCHANGED vars
  BY <1>1 DEF vars, database, memory, ghosts, IInv, TypeOK, Owned, Kept, LookupOK, LoopOK,
             FreshIsExclusive, ClearedIsGone
<1> QED BY <1>1, CreateInv, CreatedInv, RemoveRowInv, ForgetInv, LookupFailsInv, LookInv,
           ReadInv, RestoreInv, LeaseEndInv, CrashInv DEF Next
-----------------------------------------------------------------------------
(* Theorems                                                                *)

(* The inductive invariant holds in every behaviour.                       *)
THEOREM Invariance == Spec => []IInv
<1>1. IInv /\ [Next]_vars => IInv'
  BY NextInv
<1> QED BY InitInv, <1>1, PTL DEF Spec

(* Rows, items and places keep their types.                                *)
THEOREM TypeCorrect == Spec => []TypeOK
<1>1. IInv => TypeOK
  BY DEF IInv
<1> QED BY Invariance, <1>1, PTL

(* The item an operation works on is the one all others of the session     *)
(* find, for any number of threads that look it up meanwhile.              *)
THEOREM FreshIsExclusiveAlways == Spec => []FreshIsExclusive
<1>1. IInv => FreshIsExclusive
  BY DEF IInv
<1> QED BY Invariance, <1>1, PTL

(* No lookup and no operation brings a cleared session back.               *)
THEOREM ClearedIsGoneAlways == Spec => []ClearedIsGone
<1>1. IInv => ClearedIsGone
  BY DEF IInv
<1> QED BY Invariance, <1>1, PTL
=============================================================================
