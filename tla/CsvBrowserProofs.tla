-------------------------- MODULE CsvBrowserProofs --------------------------
(* Theorems about CsvWorkspace and CsvBrowser, for every number of         *)
(* sessions, versions, questions, events, crashes and failures.            *)
EXTENDS CsvBrowser, FiniteSetTheorems, TLAPS

(***************************************************************************)
(* The workspace.  A handler between two transactions works for a session  *)
(* in memory that nothing else uses; a live session in memory whose token  *)
(* somebody has got has a checkpoint, which says what memory says while    *)
(* the session is idle and not known to be behind.                         *)
(***************************************************************************)
Doer(t) ==
    \/ step = {<<"creating", t>>}
    \/ step = {<<"releasing", t>>}
    \/ step = {<<"clearing", t>>}

Saving(t) == step = {<<"creating", t>>} \/ step = {<<"releasing", t>>}

StepInv(t) ==
    /\ Doer(t) => t \in held /\ t \notin busy
    /\ step = {<<"releasing", t>>} => t \in conv

Saved(t) ==
    /\ t \in held \ (busy \cup behind) /\ life[t] > 0 => saved[t] = version[t] \/ Saving(t)
    /\ t \in held \ lost /\ life[t] > 0 => saved[t] # NoRow \/ step = {<<"creating", t>>}

Issued ==
    /\ IsFiniteSet(issued)
    /\ conv \subseteq issued /\ held \subseteq issued
    /\ \A t \in Tokens : saved[t] # NoRow => t \in issued

Open == {t \in Tokens \ lost : life[t] > 0 /\ (t \in held \/ t \in Rows)}

WInv ==
    /\ TypeOK /\ Issued /\ RunKeepsConversation
    /\ \A t \in Tokens : StepInv(t) /\ Saved(t)
    /\ Cardinality(Open) <= MaximumSessions

LEMMA Pairs ==
    ASSUME NEW a, NEW b, NEW c, NEW d, {<<a, b>>} = {<<c, d>>}
    PROVE  a = c /\ b = d
<1>1. <<a, b>> \in {<<c, d>>}
  OBVIOUS
<1>2. <<a, b>> = <<c, d>>
  BY <1>1
<1> QED BY <1>2

LEMMA NotIdle == \A a, b : {<<a, b>>} # Idle
BY DEF Idle

(* Versions fit, and the marker of a missing row is not one of them.       *)
LEMMA Versions == NoRow \notin 0..MaxVersion /\ 0 \in 0..MaxVersion
BY WorkspaceAssumption DEF NoRow

(* The steps that add no open session cannot exceed the capacity.          *)
LEMMA OpenShrinks ==
    ASSUME WInv, Open' \subseteq Open
    PROVE  Cardinality(Open') <= MaximumSessions
<1>1. Open \subseteq issued
  BY DEF WInv, Issued, Open, Rows
<1>2. IsFiniteSet(Open)
  BY <1>1, FS_Subset DEF WInv, Issued
<1>3. Cardinality(Open') <= Cardinality(Open) /\ IsFiniteSet(Open')
  BY <1>2, FS_Subset
<1>4. Cardinality(Open) \in Nat /\ Cardinality(Open') \in Nat
  BY <1>2, <1>3, FS_CardinalityType
<1> QED BY <1>3, <1>4, WorkspaceAssumption DEF WInv

(* What pruning takes is expired, and idle where a run could need it.      *)
LEMMA PruneFacts ==
    ASSUME WInv, Due = Deletable
    PROVE  /\ PrunedConv \subseteq conv /\ active \subseteq PrunedConv
           /\ \A t \in conv : life[t] > 0 => t \in PrunedConv
           /\ PrunedHeld \subseteq held /\ busy \subseteq PrunedHeld
           /\ PrunedSaved \in [Tokens -> 0..MaxVersion \cup {NoRow}]
           /\ \A t \in Tokens : /\ PrunedSaved[t] = saved[t] \/ (PrunedSaved[t] = NoRow /\ life[t] = 0)
                                /\ life[t] > 0 => PrunedSaved[t] = saved[t]
                                /\ life[t] > 0 /\ t \in held => t \in PrunedHeld
           /\ PrunedRows = {t \in Tokens : PrunedSaved[t] # NoRow}
<1> USE DEF WInv, TypeOK, RunKeepsConversation
<1>1. PrunedConv \subseteq conv /\ active \subseteq PrunedConv
  BY DEF PrunedConv, Deletable, ExpiredRows
<1>2. PrunedHeld \subseteq held /\ busy \subseteq PrunedHeld
  BY DEF PrunedHeld, Due
<1>3. PrunedSaved \in [Tokens -> 0..MaxVersion \cup {NoRow}]
  BY DEF PrunedSaved
<1>4. \A t \in Due \cup ExpiredRows : life[t] = 0
  BY DEF Due, ExpiredRows
<1>5. \A t \in Tokens : PrunedSaved[t] = IF t \in Due \cup ExpiredRows THEN NoRow ELSE saved[t]
  BY DEF PrunedSaved
<1>6. \A t \in Tokens : life[t] > 0 => t \notin Due \cup ExpiredRows
  BY <1>4
<1>7. PrunedRows = {t \in Tokens : PrunedSaved[t] # NoRow}
  BY <1>5 DEF PrunedRows, Rows
<1>8. \A t \in Tokens : /\ PrunedSaved[t] = saved[t] \/ (PrunedSaved[t] = NoRow /\ life[t] = 0)
                        /\ life[t] > 0 => PrunedSaved[t] = saved[t]
                        /\ life[t] > 0 /\ t \in held => t \in PrunedHeld
  BY <1>4, <1>5, <1>6 DEF PrunedHeld
<1>9. \A t \in conv : life[t] > 0 => t \in PrunedConv
  BY <1>6 DEF PrunedConv
<1> QED BY <1>1, <1>2, <1>3, <1>7, <1>8, <1>9

LEMMA InitW == Init => WInv
<1> SUFFICES ASSUME Init PROVE WInv
  OBVIOUS
<1>1. TypeOK
  BY WorkspaceAssumption DEF Init, TypeOK
<1>2. Open = {}
  BY DEF Init, Open
<1>3. Issued
  BY FS_EmptySet DEF Init, Issued
<1>4. \A t \in Tokens : StepInv(t) /\ Saved(t)
  BY NotIdle DEF Init, StepInv, Saved, Doer
<1>5. RunKeepsConversation
  BY DEF Init, RunKeepsConversation
<1> QED BY <1>1, <1>2, <1>3, <1>4, <1>5, FS_EmptySet, WorkspaceAssumption DEF WInv

(* No handler is between two transactions while the process is idle.       *)
LEMMA IdleSteps ==
    /\ step = Idle => \A t : ~ Doer(t)
    /\ \A d, t : step = {<<d, t>>} => \A u : Doer(u) => u = t
    /\ \A d, t, e, u : step = {<<d, t>>} /\ step = {<<e, u>>} => d = e /\ u = t
<1>1. ASSUME NEW d, NEW t, NEW e, NEW u, step = {<<d, t>>}, step = {<<e, u>>}
      PROVE  d = e /\ u = t
  <2>1. {<<d, t>>} = {<<e, u>>}
    BY <1>1
  <2> QED BY <2>1, Pairs
<1>2. step = Idle => \A t : ~ Doer(t)
  BY NotIdle DEF Doer
<1>3. ASSUME NEW d, NEW t, step = {<<d, t>>}, NEW u, Doer(u) PROVE u = t
  <2>1. CASE step = {<<"creating", u>>}
    BY <1>1, <1>3, <2>1
  <2>2. CASE step = {<<"releasing", u>>}
    BY <1>1, <1>3, <2>2
  <2>3. CASE step = {<<"clearing", u>>}
    BY <1>1, <1>3, <2>3
  <2> QED BY <1>3, <2>1, <2>2, <2>3 DEF Doer
<1> QED BY <1>1, <1>2, <1>3

(* What a lookup, after its pruning, may do with its session: read it, see *)
(* it change in memory, or save it.                                        *)
Content(t, v) ==
    /\ version' = [version EXCEPT ![t] = v]
    /\ \/ v = Found(t) /\ saved' = PrunedSaved /\ behind' = behind
       \/ saved' = PrunedSaved /\ behind' = behind \cup {t}
       \/ Live(t) /\ saved' = [PrunedSaved EXCEPT ![t] = v] /\ behind' = behind \ {t}

(* Who is busy with it afterwards, and with which run.                     *)
Engaged(t) ==
    \/ UNCHANGED <<busy, tasks, stuck>> /\ active' \subseteq active /\ tasks \subseteq active'
    \/ /\ Live(t) /\ busy' = busy \cup {t} /\ t \notin busy
       /\ \/ UNCHANGED <<active, tasks, stuck>>
          \/ /\ t \in conv /\ active' = active \cup {t}
             /\ \/ tasks' = tasks \cup {t} /\ stuck' = stuck
                \/ stuck' = stuck \cup {t} /\ tasks' = tasks

LEMMA LookupW ==
    ASSUME WInv, NEW t \in Tokens, NEW v \in 0..MaxVersion,
           Lookup(t), Content(t, v), Engaged(t),
           UNCHANGED <<step, clients, crashes>>, faults' \in 0..MaxFaults
    PROVE  WInv'
<1>0. TypeOK /\ Issued /\ RunKeepsConversation /\ \A q \in Tokens : StepInv(q) /\ Saved(q)
  BY DEF WInv
<1>1. /\ conv' = PrunedConv /\ t \notin lost
      /\ held' = IF Restores(t) THEN PrunedHeld \cup {t} ELSE PrunedHeld
      /\ step = Idle /\ Due = Deletable
      /\ UNCHANGED <<step, issued, lost, life, crashes>>
  BY DEF Lookup, Prunable, clients
<1>2. /\ PrunedConv \subseteq conv /\ active \subseteq PrunedConv
      /\ \A q \in conv : life[q] > 0 => q \in PrunedConv
      /\ PrunedHeld \subseteq held /\ busy \subseteq PrunedHeld
      /\ PrunedSaved \in [Tokens -> 0..MaxVersion \cup {NoRow}]
  BY <1>1, PruneFacts
<1>3. \A q \in Tokens :
         /\ PrunedSaved[q] = saved[q] \/ (PrunedSaved[q] = NoRow /\ life[q] = 0)
         /\ life[q] > 0 => PrunedSaved[q] = saved[q]
         /\ life[q] > 0 /\ q \in held => q \in PrunedHeld
  BY <1>1, PruneFacts
<1>4. Restores(t) => PrunedSaved[t] # NoRow /\ saved[t] = PrunedSaved[t]
  BY <1>1, <1>3, PruneFacts DEF Restores
<1>5. \A q \in Tokens : q # t => /\ saved'[q] = PrunedSaved[q] /\ version'[q] = version[q]
                                 /\ (q \in behind' <=> q \in behind)
                                 /\ (q \in held' <=> q \in PrunedHeld)
                                 /\ (q \in busy => q \in busy')
  <2>1. \A q \in Tokens : q # t => saved'[q] = PrunedSaved[q] /\ version'[q] = version[q]
    BY <1>0, <1>2 DEF Content, TypeOK
  <2> QED BY <1>1, <2>1 DEF Content, Engaged
<1>6. version'[t] = v /\ v # NoRow /\ (saved'[t] = PrunedSaved[t] \/ (Live(t) /\ saved'[t] = v))
  BY <1>0, <1>2, Versions DEF Content, TypeOK
<1>7. Live(t) => t \in held \/ saved[t] # NoRow
  BY <1>1, <1>2, <1>4 DEF Live
<1>8. TypeOK'
  <2>1. version' \in [Tokens -> 0..MaxVersion] /\ saved' \in [Tokens -> 0..MaxVersion \cup {NoRow}]
    BY <1>0, <1>2 DEF Content, TypeOK
  <2>2. held' \in SUBSET Tokens /\ busy' \in SUBSET held'
    BY <1>0, <1>1, <1>2 DEF TypeOK, Engaged, Live
  <2>3. conv' \in SUBSET Tokens /\ active' \in SUBSET Tokens /\ behind' \in SUBSET Tokens
    BY <1>0, <1>1, <1>2 DEF TypeOK, Engaged, Content
  <2>4. tasks' \in SUBSET busy' /\ stuck' \in SUBSET (busy' \ tasks')
    BY <1>0 DEF TypeOK, Engaged
  <2> QED BY <1>0, <1>1, <2>1, <2>2, <2>3, <2>4 DEF TypeOK
<1>9. Issued'
  <2>1. Restores(t) => t \in issued
    BY <1>0, <1>4 DEF Issued
  <2>2. \A q \in Tokens : saved'[q] # NoRow => q \in issued
    <3>1. \A q \in Tokens : PrunedSaved[q] # NoRow => q \in issued
      BY <1>0, <1>3 DEF Issued
    <3>2. Live(t) => t \in issued
      BY <1>0, <1>7 DEF Issued
    <3> QED BY <1>5, <1>6, <3>1, <3>2
  <2> QED BY <1>0, <1>1, <1>2, <2>1, <2>2 DEF Issued
<1>10. RunKeepsConversation'
  BY <1>0, <1>1, <1>2 DEF RunKeepsConversation, Engaged, Live
<1>11. \A q : ~ Doer(q) /\ ~ Doer(q)'
  BY <1>1, IdleSteps DEF Doer
<1>12. \A q \in Tokens : StepInv(q)' /\ Saved(q) /\ ~ Saving(q) /\ step # {<<"creating", q>>}
  BY <1>0, <1>11 DEF StepInv, Doer, Saving
<1>13. ASSUME NEW q \in Tokens, q # t PROVE Saved(q)'
  <2>1. life[q] > 0 => saved'[q] = saved[q]
    BY <1>3, <1>5, <1>13
  <2> QED BY <1>1, <1>2, <1>5, <1>12, <1>13, <2>1 DEF Saved
<1>14. Saved(t)'
  <2>1. life[t] > 0 /\ t \in held' => saved[t] # NoRow /\ PrunedSaved[t] = saved[t]
    BY <1>1, <1>2, <1>3, <1>4, <1>12 DEF Saved
  <2>2. ASSUME t \in held' \ (busy' \cup behind'), life[t] > 0 PROVE saved'[t] = version'[t]
    <3>1. CASE v = Found(t) /\ saved' = PrunedSaved /\ behind' = behind
      <4>1. t \notin busy /\ t \notin behind
        BY <2>2, <3>1 DEF Engaged
      <4>2. ~ Restores(t) => saved[t] = version[t]
        BY <1>1, <1>2, <1>12, <2>2, <4>1 DEF Saved
      <4> QED BY <1>6, <2>1, <2>2, <3>1, <4>2 DEF Found
    <3>2. CASE saved' = [PrunedSaved EXCEPT ![t] = v]
      BY <1>2, <1>6, <3>2
    <3> QED BY <2>2, <3>1, <3>2 DEF Content
  <2> QED BY <1>1, <1>6, <2>1, <2>2 DEF Saved
<1>15. Open' \subseteq Open
  <2>1. \A q \in Tokens : q \in held' => q \in held \/ saved[q] # NoRow
    BY <1>1, <1>2, <1>4
  <2>2. \A q \in Tokens : saved'[q] # NoRow => saved[q] # NoRow \/ (q = t /\ Live(t))
    BY <1>3, <1>5, <1>6
  <2> QED BY <1>1, <1>7, <2>1, <2>2 DEF Open, Rows
<1> QED BY <1>8, <1>9, <1>10, <1>12, <1>13, <1>14, <1>15, OpenShrinks DEF WInv

(* What is restored, and what it becomes.                                  *)
LEMMA FoundType ==
    ASSUME WInv, NEW t \in Tokens, Lookup(t)
    PROVE  Found(t) \in 0..MaxVersion /\ Edits(Found(t)) \subseteq 0..MaxVersion
<1>1. TypeOK
  BY DEF WInv
<1>2. Restores(t) => saved[t] # NoRow
  BY PruneFacts DEF Restores, Lookup, Prunable
<1>3. Found(t) \in 0..MaxVersion
  BY <1>1, <1>2 DEF Found, TypeOK
<1> QED BY <1>3, WorkspaceAssumption DEF Edits

LEMMA FaultsType ==
    ASSUME WInv, Commits \/ Fails
    PROVE  faults' \in 0..MaxFaults
BY WorkspaceAssumption DEF WInv, TypeOK, Commits, Fails

LEMMA VisitW ==
    ASSUME WInv, NEW t \in Tokens, Visit(t) \/ LeaseStart(t) \/ Submit(t) \/ Withdraw(t)
    PROVE  WInv'
<1>0. TypeOK /\ RunKeepsConversation
  BY DEF WInv
<1>1. Lookup(t) /\ UNCHANGED <<step, clients, crashes>> /\ (Commits \/ Fails)
  BY DEF Visit, LeaseStart, Submit, Withdraw, Opened, Dropped, Saves, Commits
<1>2. faults' \in 0..MaxFaults
  BY <1>1, FaultsType
<1>3. Engaged(t)
  <2>1. CASE Visit(t)
    BY <1>0, <2>1 DEF Visit, Engaged, RunKeepsConversation
  <2>2. CASE LeaseStart(t)
    BY <2>2 DEF LeaseStart, Engaged
  <2>3. CASE Submit(t)
    BY <2>3 DEF Submit, Engaged
  <2>4. CASE Withdraw(t)
    BY <1>0, <2>4 DEF Withdraw, Engaged, RunKeepsConversation
  <2> QED BY <2>1, <2>2, <2>3, <2>4
<1>4. Found(t) \in 0..MaxVersion /\ Edits(Found(t)) \subseteq 0..MaxVersion
  BY <1>1, FoundType
<1>5. \E v \in 0..MaxVersion : Content(t, v)
  <2>1. CASE Opened(t)
    BY <1>4, <2>1 DEF Opened, Content
  <2>2. CASE Dropped(t)
    BY <1>4, <2>2 DEF Dropped, Content
  <2>3. CASE Submit(t)
    <3>1. PICK v \in Edits(Found(t)) :
             version' = [version EXCEPT ![t] = v] /\ Saves(PrunedSaved, t, v) /\ Live(t)
      BY <2>3 DEF Submit
    <3> QED BY <1>4, <3>1 DEF Saves, Persists, Content
  <2> QED BY <2>1, <2>2, <2>3 DEF Visit, LeaseStart, Withdraw
<1> QED BY <1>1, <1>2, <1>3, <1>4, <1>5, LookupW

(* A failed pruning takes expired rows, whose sessions have no run.        *)
TakesExpired ==
    /\ conv' \subseteq conv /\ active \subseteq conv'
    /\ saved' \in [Tokens -> 0..MaxVersion \cup {NoRow}]
    /\ \A q \in Tokens : /\ life[q] > 0 => saved'[q] = saved[q]
                         /\ saved'[q] # NoRow => saved[q] # NoRow

LEMMA PruneFailsW ==
    ASSUME WInv, PruneFails
    PROVE  WInv'
<1>0. TypeOK /\ Issued /\ RunKeepsConversation /\ \A q \in Tokens : StepInv(q) /\ Saved(q)
  BY DEF WInv
<1>1. step = Idle /\ UNCHANGED <<active, memory, step, clients, crashes>> /\ (Commits \/ Fails)
  BY DEF PruneFails
<1>2. UNCHANGED <<active, held, version, behind, busy, tasks, stuck, step, issued, lost, life, crashes>>
  BY <1>1 DEF memory, clients
<1>3. TakesExpired
  <2>1. ASSUME NEW gone \in SUBSET Deletable, NEW half \in SUBSET gone, conv' = conv \ gone,
               saved' = [t \in Tokens |-> IF t \in gone \ half THEN NoRow ELSE saved[t]]
        PROVE  TakesExpired
    <3>1. \A t \in gone : life[t] = 0 /\ t \notin active
      BY DEF Deletable, Due
    <3>2. conv' \subseteq conv /\ active \subseteq conv'
      BY <1>0, <2>1, <3>1 DEF RunKeepsConversation
    <3>3. saved' \in [Tokens -> 0..MaxVersion \cup {NoRow}]
      BY <1>0, <2>1 DEF TypeOK
    <3> QED BY <2>1, <3>1, <3>2, <3>3 DEF TakesExpired
  <2>2. CASE Due = Deletable /\ conv' = PrunedConv /\ saved' = PrunedSaved
    BY <2>2, PruneFacts DEF TakesExpired
  <2> QED BY <2>1, <2>2 DEF PruneFails
<1>4. \A q \in Tokens : /\ life[q] > 0 => saved'[q] = saved[q]
                        /\ saved'[q] # NoRow => saved[q] # NoRow
  BY <1>3 DEF TakesExpired
<1>5. TypeOK'
  <2>1. faults' \in 0..MaxFaults
    BY <1>1, FaultsType
  <2>2. conv' \in SUBSET Tokens
    BY <1>0, <1>3 DEF TypeOK, TakesExpired
  <2> QED BY <1>0, <1>2, <1>3, <2>1, <2>2 DEF TypeOK, TakesExpired
<1>6. Issued'
  BY <1>0, <1>2, <1>3 DEF Issued, TakesExpired
<1>7. RunKeepsConversation'
  BY <1>0, <1>2, <1>3 DEF RunKeepsConversation, TakesExpired
<1>8. \A q : ~ Doer(q) /\ ~ Doer(q)'
  BY <1>1, <1>2, IdleSteps DEF Doer
<1>9. ASSUME NEW q \in Tokens PROVE StepInv(q)' /\ Saved(q)'
  <2>1. StepInv(q)'
    BY <1>8 DEF StepInv, Doer
  <2>2. Saved(q) /\ ~ Saving(q) /\ step # {<<"creating", q>>}
    BY <1>0, <1>8 DEF Doer, Saving
  <2> QED BY <1>2, <1>4, <2>1, <2>2 DEF Saved
<1>10. Open' \subseteq Open
  BY <1>2, <1>4 DEF Open, Rows
<1> QED BY <1>5, <1>6, <1>7, <1>9, <1>10, OpenShrinks DEF WInv

(* A new session: there was room for its row among the rows that remain.   *)
LEMMA CreateW ==
    ASSUME WInv, NEW t \in Tokens, Create(t)
    PROVE  WInv'
<1>0. TypeOK /\ Issued /\ RunKeepsConversation /\ \A q \in Tokens : StepInv(q) /\ Saved(q)
  BY DEF WInv
<1>1. /\ issued' = issued \cup {t} /\ t \notin issued
      /\ life' = [life EXCEPT ![t] = Ttl]
      /\ held' = PrunedHeld \cup {t} /\ saved' = PrunedSaved
      /\ UNCHANGED <<active, version, busy, tasks, stuck, crashes>>
      /\ step = Idle /\ Room /\ Due = Deletable
  BY DEF Create, Prunable
<1>2. \/ /\ conv' = PrunedConv \cup {t} /\ step' = {<<"creating", t>>}
         /\ lost' = lost /\ behind' = behind
      \/ /\ conv' = PrunedConv /\ step' = Idle
         /\ lost' = lost \cup {t} /\ behind' = behind \cup {t}
  BY <1>1 DEF Create
<1>3. /\ PrunedConv \subseteq conv /\ active \subseteq PrunedConv
      /\ PrunedHeld \subseteq held /\ busy \subseteq PrunedHeld
      /\ PrunedSaved \in [Tokens -> 0..MaxVersion \cup {NoRow}]
      /\ PrunedRows = {q \in Tokens : PrunedSaved[q] # NoRow}
  BY <1>1, PruneFacts
<1>4. \A q \in Tokens :
         /\ PrunedSaved[q] = saved[q] \/ (PrunedSaved[q] = NoRow /\ life[q] = 0)
         /\ life[q] > 0 => PrunedSaved[q] = saved[q]
  BY <1>1, PruneFacts
<1>5. TypeOK'
  <2>1. life' \in [Tokens -> 0..Ttl]
    BY <1>0, <1>1, WorkspaceAssumption DEF TypeOK
  <2>2. step' \in {Idle} \cup {{<<d, q>>} : d \in Doing, q \in Tokens}
    BY <1>2 DEF Doing
  <2>3. faults' \in 0..MaxFaults
    BY FaultsType DEF Create
  <2>4. lost' \in SUBSET issued' /\ behind' \in SUBSET Tokens /\ conv' \in SUBSET Tokens
    BY <1>0, <1>1, <1>2, <1>3 DEF TypeOK
  <2> QED BY <1>0, <1>1, <1>3, <2>1, <2>2, <2>3, <2>4 DEF TypeOK
<1>6. Issued'
  <2>1. IsFiniteSet(issued')
    BY <1>0, <1>1, FS_AddElement DEF Issued
  <2>2. conv' \subseteq issued' /\ held' \subseteq issued'
    BY <1>0, <1>1, <1>2, <1>3 DEF Issued
  <2> QED BY <1>0, <1>1, <1>4, <2>1, <2>2 DEF Issued
<1>7. RunKeepsConversation'
  BY <1>0, <1>1, <1>2, <1>3 DEF RunKeepsConversation
<1>8. t \notin held /\ t \notin busy
  BY <1>0, <1>1 DEF Issued, TypeOK
<1>9. \A q : ~ Doer(q)
  BY <1>1, IdleSteps
<1>10. \A q, e : step' = {<<e, q>>} => q = t /\ e = "creating"
  <2>1. ASSUME NEW q, NEW e, step' = {<<e, q>>} PROVE q = t /\ e = "creating"
    <3>1. {<<"creating", t>>} = {<<e, q>>}
      BY <1>2, <2>1, NotIdle
    <3> QED BY <3>1, Pairs
  <2> QED BY <2>1
<1>11. ASSUME NEW q \in Tokens, q # t PROVE StepInv(q)' /\ Saved(q)'
  <2>1. ~ Doer(q)' /\ step' # {<<"releasing", q>>}
    BY <1>10, <1>11 DEF Doer
  <2>2. StepInv(q)'
    BY <2>1 DEF StepInv
  <2>3. /\ life'[q] = life[q] /\ (q \in held' => q \in held) /\ (life[q] > 0 => saved'[q] = saved[q])
        /\ (q \in lost' <=> q \in lost) /\ (q \in behind' <=> q \in behind)
    BY <1>0, <1>1, <1>2, <1>3, <1>4, <1>11 DEF TypeOK
  <2>4. Saved(q) /\ step # {<<"creating", q>>} /\ ~ Saving(q)
    BY <1>0, <1>9 DEF Doer, Saving
  <2> QED BY <1>1, <2>2, <2>3, <2>4 DEF Saved
<1>12. StepInv(t)' /\ Saved(t)'
  <2>1. step' # {<<"releasing", t>>}
    <3>1. "releasing" # "creating"
      OBVIOUS
    <3> QED BY <1>10, <3>1
  <2>2. step' = {<<"creating", t>>} \/ (t \in lost' /\ t \in behind')
    BY <1>2
  <2> QED BY <1>1, <1>8, <2>1, <2>2 DEF StepInv, Saved, Saving
<1>13. Cardinality(Open') <= MaximumSessions
  <2>1. Open' \subseteq PrunedRows \cup {t}
    <3>1. ASSUME NEW q \in Tokens, q # t, q \notin lost', life'[q] > 0, q \in held' \/ saved'[q] # NoRow
          PROVE  PrunedSaved[q] # NoRow
      <4>1. life[q] > 0 /\ q \notin lost
        BY <1>0, <1>1, <1>2, <3>1 DEF TypeOK
      <4>2. q \in held' => saved[q] # NoRow
        <5>1. step # {<<"creating", q>>} /\ Saved(q)
          BY <1>0, <1>9 DEF Doer
        <5> QED BY <1>1, <1>3, <3>1, <4>1, <5>1 DEF Saved
      <4> QED BY <1>1, <1>4, <3>1, <4>1, <4>2
    <3> QED BY <1>3, <3>1 DEF Open, Rows
  <2>2. PrunedRows \subseteq issued
    BY <1>0, <1>3, <1>4 DEF Issued
  <2>3. IsFiniteSet(PrunedRows)
    BY <1>0, <2>2, FS_Subset DEF Issued
  <2>4. Cardinality(PrunedRows) \in Nat
    BY <2>3, FS_CardinalityType
  <2>5. /\ IsFiniteSet(PrunedRows \cup {t})
        /\ Cardinality(PrunedRows \cup {t}) <= Cardinality(PrunedRows) + 1
    BY <2>3, <2>4, FS_AddElement
  <2>6. IsFiniteSet(Open') /\ Cardinality(Open') <= Cardinality(PrunedRows \cup {t})
    BY <2>1, <2>5, FS_Subset
  <2>7. Cardinality(PrunedRows) < MaximumSessions
    BY <1>1 DEF Room
  <2>8. Cardinality(Open') \in Nat /\ Cardinality(PrunedRows \cup {t}) \in Nat
    BY <2>5, <2>6, FS_CardinalityType
  <2> QED BY <2>4, <2>5, <2>6, <2>7, <2>8, WorkspaceAssumption
<1> QED BY <1>5, <1>6, <1>7, <1>11, <1>12, <1>13 DEF WInv

(* A handler that ends leaves its session as the checkpoint has it, or     *)
(* marked as behind; a session that was not cleared stays as it was.       *)
LEMMA HandlerEndsW ==
    ASSUME WInv, NEW t \in Tokens, Created(t) \/ Released(t) \/ Cleared(t)
    PROVE  WInv'
<1>0. TypeOK /\ Issued /\ RunKeepsConversation /\ \A q \in Tokens : StepInv(q) /\ Saved(q)
  BY DEF WInv
<1>1. Doer(t) /\ \A q : Doer(q) => q = t
  BY IdleSteps DEF Created, Released, Cleared, Doer
<1>2. t \in held /\ t \notin busy
  BY <1>0, <1>1 DEF StepInv
<1>3. /\ step' = Idle /\ UNCHANGED <<conv, active, version, busy, tasks, stuck, issued, life, crashes>>
      /\ Commits \/ Fails
  BY DEF Created, Released, Cleared, clients, Saves
<1>4. \/ held' = held /\ saved' = [saved EXCEPT ![t] = version[t]] /\ lost' = lost /\ behind' = behind \ {t}
      \/ /\ held' = held /\ saved' = saved /\ behind' = behind \cup {t}
         /\ step = {<<"creating", t>>} /\ lost' = lost \cup {t}
      \/ /\ held' = held /\ saved' = saved /\ behind' = behind \cup {t}
         /\ step = {<<"releasing", t>>} /\ lost' = lost
      \/ held' = held \ {t} /\ saved' = [saved EXCEPT ![t] = NoRow] /\ lost' = lost /\ behind' = behind
      \/ held' = held /\ saved' = saved /\ lost' = lost /\ behind' = behind /\ step = {<<"clearing", t>>}
  <2>1. ASSUME Saves(saved, t, version[t])
        PROVE  \/ Commits /\ saved' = [saved EXCEPT ![t] = version[t]] /\ behind' = behind \ {t}
               \/ ~ Commits /\ saved' = saved /\ behind' = behind \cup {t}
    BY <1>0, <2>1 DEF Saves, Persists, Commits, Fails, TypeOK
  <2>2. CASE Created(t)
    BY <2>1, <2>2 DEF Created
  <2>3. CASE Released(t)
    BY <2>1, <2>3 DEF Released, clients
  <2>4. CASE Cleared(t)
    BY <2>4 DEF Cleared, clients
  <2> QED BY <2>2, <2>3, <2>4
<1>5. \A q : ~ Doer(q)' /\ ~ Saving(q)'
  BY <1>3, NotIdle DEF Doer, Saving
<1>6. \A q \in Tokens : q # t => /\ saved'[q] = saved[q] /\ (q \in held' <=> q \in held)
                                 /\ (q \in lost' <=> q \in lost) /\ (q \in behind' <=> q \in behind)
  BY <1>0, <1>4 DEF TypeOK
<1>7. t \in issued /\ version[t] \in 0..MaxVersion /\ version[t] # NoRow
  BY <1>0, <1>2, Versions DEF Issued, TypeOK
<1>8. TypeOK'
  <2>1. saved' \in [Tokens -> 0..MaxVersion \cup {NoRow}]
    BY <1>0, <1>4, <1>7 DEF TypeOK
  <2>2. busy' \in SUBSET held' /\ held' \in SUBSET Tokens
    BY <1>0, <1>2, <1>3, <1>4 DEF TypeOK
  <2>3. lost' \in SUBSET issued' /\ behind' \in SUBSET Tokens
    BY <1>0, <1>3, <1>4, <1>7 DEF TypeOK
  <2>4. faults' \in 0..MaxFaults
    BY <1>3, FaultsType
  <2> QED BY <1>0, <1>3, <2>1, <2>2, <2>3, <2>4 DEF TypeOK
<1>9. Issued'
  <2>1. \A q \in Tokens : saved'[q] # NoRow => q \in issued
    BY <1>0, <1>6, <1>7 DEF Issued
  <2>2. held' \subseteq held
    BY <1>4
  <2> QED BY <1>0, <1>3, <2>1, <2>2 DEF Issued
<1>10. RunKeepsConversation'
  BY <1>0, <1>3 DEF RunKeepsConversation
<1>11. \A q \in Tokens : StepInv(q)'
  BY <1>5 DEF StepInv, Doer
<1>12. ASSUME NEW q \in Tokens, q # t PROVE Saved(q)'
  <2>1. Saved(q) /\ ~ Saving(q) /\ step # {<<"creating", q>>}
    BY <1>0, <1>1, <1>12 DEF Doer, Saving
  <2> QED BY <1>3, <1>6, <1>12, <2>1 DEF Saved
<1>13. Saved(t)'
  <2>1. CASE saved' = [saved EXCEPT ![t] = version[t]]
    BY <1>0, <1>3, <1>7, <2>1 DEF Saved, TypeOK
  <2>2. CASE saved' = saved /\ behind' = behind \cup {t} /\ step = {<<"creating", t>>} /\ lost' = lost \cup {t}
    BY <2>2 DEF Saved
  <2>3. CASE /\ saved' = saved /\ behind' = behind \cup {t} /\ step = {<<"releasing", t>>}
             /\ held' = held /\ lost' = lost
    <3>1. "creating" # "releasing"
      OBVIOUS
    <3>2. step # {<<"creating", t>>}
      BY <2>3, <3>1, IdleSteps
    <3> QED BY <1>0, <1>3, <2>3, <3>2 DEF Saved
  <2>4. CASE t \notin held'
    BY <2>4 DEF Saved
  <2>5. CASE /\ held' = held /\ saved' = saved /\ lost' = lost /\ behind' = behind
             /\ step = {<<"clearing", t>>}
    <3>1. "creating" # "clearing" /\ "releasing" # "clearing"
      OBVIOUS
    <3>2. step # {<<"creating", t>>} /\ ~ Saving(t)
      BY <2>5, <3>1, IdleSteps DEF Saving
    <3> QED BY <1>0, <1>3, <2>5, <3>2 DEF Saved
  <2> QED BY <1>4, <2>1, <2>2, <2>3, <2>4, <2>5
<1>14. Open' \subseteq Open
  <2>1. lost \subseteq lost' /\ held' \subseteq held
    BY <1>4
  <2>2. \A q \in Tokens : saved'[q] # NoRow => saved[q] # NoRow \/ q \in held
    BY <1>2, <1>6
  <2> QED BY <1>3, <2>1, <2>2 DEF Open, Rows
<1> QED BY <1>8, <1>9, <1>10, <1>11, <1>12, <1>13, <1>14, OpenShrinks DEF WInv

LEMMA LeaseEndW ==
    ASSUME WInv, NEW t \in Tokens, LeaseEnd(t)
    PROVE  WInv'
<1>0. TypeOK /\ Issued /\ RunKeepsConversation /\ \A q \in Tokens : StepInv(q) /\ Saved(q)
  BY DEF WInv
<1>1. PICK v \in Edits(version[t]) : version' = [version EXCEPT ![t] = v] /\ Saves(saved, t, v)
  BY DEF LeaseEnd
<1>2. /\ step = Idle /\ t \in busy \ (tasks \cup stuck) /\ busy' = busy \ {t}
      /\ UNCHANGED <<conv, active, held, tasks, stuck, step, issued, lost, life, crashes>>
  BY DEF LeaseEnd, clients
<1>3. v \in 0..MaxVersion /\ v # NoRow
  BY <1>0, WorkspaceAssumption, Versions DEF Edits, TypeOK
<1>4. /\ version'[t] = v
      /\ \/ saved'[t] = v
         \/ saved'[t] = saved[t] /\ t \in behind'
      /\ \A q \in Tokens : q # t => /\ saved'[q] = saved[q] /\ version'[q] = version[q]
                                    /\ (q \in behind' <=> q \in behind) /\ (q \in busy' <=> q \in busy)
  BY <1>0, <1>1, <1>2 DEF TypeOK, Saves, Persists
<1>5. TypeOK'
  <2>1. faults' \in 0..MaxFaults
    BY <1>1, FaultsType DEF Saves
  <2>2. saved' \in [Tokens -> 0..MaxVersion \cup {NoRow}] /\ behind' \in SUBSET Tokens
    BY <1>0, <1>1, <1>3 DEF TypeOK, Saves, Persists
  <2>3. version' \in [Tokens -> 0..MaxVersion]
    BY <1>0, <1>1, <1>3 DEF TypeOK
  <2>4. busy' \in SUBSET held /\ tasks \in SUBSET busy' /\ stuck \in SUBSET (busy' \ tasks)
    BY <1>0, <1>2 DEF TypeOK
  <2> QED BY <1>0, <1>2, <2>1, <2>2, <2>3, <2>4 DEF TypeOK
<1>6. Issued'
  BY <1>0, <1>2, <1>4 DEF Issued, TypeOK
<1>7. RunKeepsConversation'
  BY <1>0, <1>2 DEF RunKeepsConversation
<1>8. \A q : ~ Doer(q) /\ ~ Doer(q)'
  BY <1>2, IdleSteps DEF Doer
<1>9. \A q \in Tokens : StepInv(q)' /\ Saved(q) /\ ~ Saving(q) /\ step # {<<"creating", q>>}
  BY <1>0, <1>8 DEF StepInv, Doer, Saving
<1>10. ASSUME NEW q \in Tokens PROVE Saved(q)'
  BY <1>2, <1>3, <1>4, <1>9 DEF Saved
<1>11. Open' \subseteq Open
  <2>1. t \in held
    BY <1>0, <1>2 DEF TypeOK
  <2> QED BY <1>2, <1>4, <2>1 DEF Open, Rows
<1> QED BY <1>5, <1>6, <1>7, <1>9, <1>10, <1>11, OpenShrinks DEF WInv

LEMMA RunEndsW ==
    ASSUME WInv, NEW t \in Tokens, RunEnds(t)
    PROVE  WInv'
<1>0. TypeOK /\ Issued /\ RunKeepsConversation /\ \A q \in Tokens : StepInv(q) /\ Saved(q)
  BY DEF WInv
<1>1. PICK v \in Edits(version[t]) : version' = [version EXCEPT ![t] = v]
  BY DEF RunEnds
<1>2. /\ step = Idle /\ t \in tasks /\ busy' = busy \ {t} /\ tasks' = tasks \ {t}
      /\ active' = active \ {t} \/ active' = active
      /\ step' = {<<"releasing", t>>}
      /\ UNCHANGED <<conv, saved, held, behind, stuck, issued, lost, life, crashes>>
  BY DEF RunEnds, clients
<1>3. v \in 0..MaxVersion
  BY <1>0, WorkspaceAssumption DEF Edits, TypeOK
<1>4. t \in conv /\ t \in busy /\ t \in held
  BY <1>0, <1>2 DEF RunKeepsConversation, TypeOK
<1>5. TypeOK'
  <2>1. step' \in {Idle} \cup {{<<d, q>>} : d \in Doing, q \in Tokens}
    BY <1>2 DEF Doing
  <2>2. faults' \in 0..MaxFaults
    BY FaultsType DEF RunEnds
  <2> QED BY <1>0, <1>1, <1>2, <1>3, <2>1, <2>2 DEF TypeOK
<1>6. Issued' /\ RunKeepsConversation'
  BY <1>0, <1>2 DEF Issued, RunKeepsConversation
<1>7. \A q : ~ Doer(q)
  BY <1>2, IdleSteps
<1>8. \A q : Doer(q)' => q = t
  <2>1. ASSUME NEW q, NEW e, step' = {<<e, q>>} PROVE q = t
    <3>1. {<<"releasing", t>>} = {<<e, q>>}
      BY <1>2, <2>1
    <3> QED BY <3>1, Pairs
  <2> QED BY <2>1 DEF Doer
<1>9. ASSUME NEW q \in Tokens PROVE StepInv(q)' /\ Saved(q)'
  <2>1. Saved(q) /\ ~ Saving(q) /\ step # {<<"creating", q>>}
    BY <1>0, <1>7 DEF Doer, Saving
  <2>2. CASE q = t
    <3>1. Doer(t)' /\ Saving(t)'
      BY <1>2 DEF Doer, Saving
    <3> QED BY <1>2, <1>4, <2>1, <2>2, <3>1 DEF StepInv, Saved
  <2>3. CASE q # t
    <3>1. ~ Doer(q)'
      BY <1>8, <2>3
    <3>2. StepInv(q)'
      BY <3>1 DEF StepInv, Doer
    <3>3. version'[q] = version[q] /\ (q \in busy' <=> q \in busy)
      BY <1>0, <1>1, <1>2, <2>3 DEF TypeOK
    <3> QED BY <1>2, <2>1, <3>2, <3>3 DEF Saved
  <2> QED BY <2>2, <2>3
<1>10. Open' \subseteq Open
  BY <1>2 DEF Open, Rows
<1> QED BY <1>5, <1>6, <1>9, <1>10, OpenShrinks DEF WInv

LEMMA ClearW ==
    ASSUME WInv, NEW t \in Tokens, Clear(t)
    PROVE  WInv'
<1>0. TypeOK /\ Issued /\ RunKeepsConversation /\ \A q \in Tokens : StepInv(q) /\ Saved(q)
  BY DEF WInv
<1>1. /\ conv' = PrunedConv \ {t} /\ saved' = PrunedSaved
      /\ held' = PrunedHeld \cup {t}
      /\ version' = [version EXCEPT ![t] = Found(t)]
      /\ t \in PrunedHeld \cup PrunedRows /\ life[t] > 0 /\ t \notin busy
      /\ t \in conv \ active /\ t \notin lost
      /\ step' = {<<"clearing", t>>} /\ step = Idle /\ Due = Deletable
      /\ UNCHANGED <<active, behind, busy, tasks, stuck, issued, lost, life, crashes, faults>>
  BY DEF Clear, Prunable, clients
<1>2. /\ PrunedConv \subseteq conv /\ active \subseteq PrunedConv
      /\ PrunedHeld \subseteq held /\ busy \subseteq PrunedHeld
      /\ PrunedSaved \in [Tokens -> 0..MaxVersion \cup {NoRow}]
      /\ PrunedRows = {q \in Tokens : PrunedSaved[q] # NoRow}
  BY <1>1, PruneFacts
<1>3. \A q \in Tokens :
         /\ PrunedSaved[q] = saved[q] \/ (PrunedSaved[q] = NoRow /\ life[q] = 0)
         /\ life[q] > 0 => PrunedSaved[q] = saved[q]
  BY <1>1, PruneFacts
<1>4. TypeOK'
  <2>1. version' \in [Tokens -> 0..MaxVersion]
    <3>1. Restores(t) => saved[t] \in 0..MaxVersion
      BY <1>0, <1>2, <1>3 DEF TypeOK, Restores
    <3> QED BY <1>0, <1>1, <3>1 DEF TypeOK, Found
  <2>2. step' \in {Idle} \cup {{<<d, q>>} : d \in Doing, q \in Tokens}
    BY <1>1 DEF Doing
  <2> QED BY <1>0, <1>1, <1>2, <2>1, <2>2 DEF TypeOK
<1>5. Issued'
  BY <1>0, <1>1, <1>2, <1>3 DEF Issued
<1>6. RunKeepsConversation'
  BY <1>0, <1>1, <1>2 DEF RunKeepsConversation
<1>7. \A q : ~ Doer(q)
  BY <1>1, IdleSteps
<1>8. \A q, e : step' = {<<e, q>>} => q = t /\ e = "clearing"
  <2>1. ASSUME NEW q, NEW e, step' = {<<e, q>>} PROVE q = t /\ e = "clearing"
    <3>1. {<<"clearing", t>>} = {<<e, q>>}
      BY <1>1, <2>1
    <3> QED BY <3>1, Pairs
  <2> QED BY <2>1
<1>9. \A q \in Tokens : Saved(q) /\ step # {<<"creating", q>>} /\ ~ Saving(q)
  BY <1>0, <1>7 DEF Doer, Saving
<1>10. ASSUME NEW q \in Tokens, q # t PROVE StepInv(q)' /\ Saved(q)'
  <2>1. ~ Doer(q)' /\ step' # {<<"releasing", q>>}
    BY <1>8, <1>10 DEF Doer
  <2>2. StepInv(q)'
    BY <2>1 DEF StepInv
  <2>3. /\ q \in held' => q \in held
        /\ life[q] > 0 => saved'[q] = saved[q]
        /\ version'[q] = version[q]
    BY <1>0, <1>1, <1>2, <1>3, <1>10 DEF TypeOK
  <2> QED BY <1>1, <1>9, <2>2, <2>3 DEF Saved
<1>11. StepInv(t)' /\ Saved(t)'
  <2>1. Doer(t)' /\ step' # {<<"releasing", t>>}
    <3>1. "clearing" # "releasing"
      OBVIOUS
    <3> QED BY <1>1, <1>8, <3>1 DEF Doer
  <2>2. StepInv(t)'
    BY <1>1, <2>1 DEF StepInv
  <2>3. saved'[t] = saved[t] /\ version'[t] = Found(t)
    BY <1>0, <1>1, <1>3 DEF TypeOK
  <2>4. CASE t \in PrunedHeld
    <3>1. t \in held /\ Found(t) = version[t]
      BY <1>2, <2>4 DEF Found, Restores
    <3> QED BY <1>1, <1>9, <2>2, <2>3, <3>1 DEF Saved
  <2>5. CASE t \notin PrunedHeld
    <3>1. PrunedSaved[t] # NoRow /\ Found(t) = saved[t]
      BY <1>1, <1>2, <2>5 DEF Found, Restores
    <3> QED BY <1>1, <2>2, <2>3, <3>1 DEF Saved
  <2> QED BY <2>4, <2>5
<1>12. Open' \subseteq Open
  <2>1. \A q \in Tokens : saved'[q] # NoRow => saved[q] # NoRow
    BY <1>1, <1>3
  <2>2. t \in held \/ saved[t] # NoRow
    BY <1>1, <1>2, <1>3
  <2> QED BY <1>1, <1>2, <2>1, <2>2 DEF Open, Rows
<1> QED BY <1>4, <1>5, <1>6, <1>10, <1>11, <1>12, OpenShrinks DEF WInv

LEMMA TickW ==
    ASSUME WInv, Tick
    PROVE  WInv'
<1>0. TypeOK /\ Issued /\ RunKeepsConversation /\ \A q \in Tokens : StepInv(q) /\ Saved(q)
  BY DEF WInv
<1>1. /\ life' = [t \in Tokens |-> IF life[t] > 0 THEN life[t] - 1 ELSE 0]
      /\ UNCHANGED <<conv, saved, active, held, version, behind, busy, tasks, stuck>>
      /\ UNCHANGED <<step, issued, lost, crashes, faults>>
  BY DEF Tick, database, memory
<1>2. \A q \in Tokens : life[q] \in 0..Ttl
  BY <1>0 DEF TypeOK
<1>3. \A q \in Tokens : life'[q] \in 0..Ttl /\ (life'[q] > 0 => life[q] > 0)
  BY <1>1, <1>2, WorkspaceAssumption
<1>4. TypeOK'
  <2>1. life' \in [Tokens -> 0..Ttl]
    BY <1>1, <1>3
  <2> QED BY <1>0, <1>1, <2>1 DEF TypeOK
<1>5. Issued' /\ RunKeepsConversation'
  BY <1>0, <1>1 DEF Issued, RunKeepsConversation
<1>6. \A q : (Doer(q)' <=> Doer(q)) /\ (Saving(q)' <=> Saving(q))
  BY <1>1 DEF Doer, Saving
<1>7. \A q \in Tokens : StepInv(q)' /\ Saved(q)'
  BY <1>0, <1>1, <1>3, <1>6 DEF StepInv, Saved
<1>8. Open' \subseteq Open
  BY <1>1, <1>3 DEF Open, Rows
<1> QED BY <1>4, <1>5, <1>7, <1>8, OpenShrinks DEF WInv

LEMMA CrashW ==
    ASSUME WInv, Crash
    PROVE  WInv'
<1>0. TypeOK /\ Issued
  BY DEF WInv
<1>1. /\ held' = {} /\ behind' = {} /\ busy' = {} /\ tasks' = {} /\ stuck' = {}
      /\ active' = {} /\ step' = Idle
      /\ crashes < MaxCrashes /\ crashes' = crashes + 1
      /\ UNCHANGED <<conv, saved, version, issued, lost, life, faults>>
  BY DEF Crash, clients
<1>2. TypeOK'
  BY <1>0, <1>1, WorkspaceAssumption DEF TypeOK
<1>3. Issued' /\ RunKeepsConversation'
  BY <1>0, <1>1 DEF Issued, RunKeepsConversation
<1>4. \A q : ~ Doer(q)'
  BY <1>1, NotIdle DEF Doer
<1>5. \A q \in Tokens : StepInv(q)' /\ Saved(q)'
  BY <1>1, <1>4 DEF StepInv, Saved, Doer
<1>6. Open' \subseteq Open
  BY <1>1 DEF Open, Rows
<1> QED BY <1>2, <1>3, <1>5, <1>6, OpenShrinks DEF WInv

LEMMA NextW ==
    ASSUME WInv, [Next]_vars
    PROVE  WInv'
<1>1. CASE UNCHANGED vars
  <2>1. /\ UNCHANGED <<conv, saved, active, held, version, behind, busy, tasks, stuck>>
        /\ UNCHANGED <<step, issued, lost, life, crashes, faults>>
    BY <1>1 DEF vars, database, memory, clients
  <2>2. TypeOK' /\ Issued' /\ RunKeepsConversation' /\ Open' = Open
    BY <2>1 DEF WInv, TypeOK, Issued, RunKeepsConversation, Open, Rows
  <2>3. \A t \in Tokens : StepInv(t)' /\ Saved(t)'
    BY <2>1 DEF WInv, StepInv, Saved, Doer, Saving
  <2> QED BY <2>2, <2>3 DEF WInv
<1> QED BY <1>1, VisitW, PruneFailsW, CreateW, HandlerEndsW, LeaseEndW, RunEndsW, ClearW, TickW, CrashW
        DEF Next, Sessions

THEOREM WInvAlways == Spec => []WInv
<1>1. WInv /\ [Next]_vars => WInv'
  BY NextW
<1> QED BY InitW, <1>1, PTL DEF Spec

(* Types, for every value of the constants.                                *)
THEOREM WorkspaceTypeCorrect == Spec => []TypeOK
<1>1. WInv => TypeOK
  BY DEF WInv
<1> QED BY <1>1, WInvAlways, PTL

(* Expiry never takes the conversation, nor the busy session, away from a  *)
(* run that executes in it.                                                *)
THEOREM RunKeepsConversationAlways == Spec => []RunKeepsConversation
<1>1. WInv => RunKeepsConversation
  BY DEF WInv
<1> QED BY <1>1, WInvAlways, PTL

(* An idle live session is on disk as it is in memory.                     *)
THEOREM IdleIsDurableAlways == Spec => []IdleIsDurable
<1>1. WInv => IdleIsDurable
  <2> SUFFICES ASSUME WInv, step = Idle, NEW t \in held \ (busy \cup behind), life[t] > 0
               PROVE  saved[t] = version[t]
    BY DEF IdleIsDurable
  <2>1. t \in Tokens /\ Saved(t)
    BY DEF WInv, TypeOK
  <2>2. ~ Saving(t)
    BY IdleSteps DEF Saving, Doer
  <2> QED BY <2>1, <2>2 DEF Saved
<1> QED BY <1>1, WInvAlways, PTL

(* No sequence of creations, restorations, crashes and expiries opens more *)
(* sessions than the configured number.                                    *)
THEOREM WithinCapacityAlways == Spec => []WithinCapacity
<1>1. WInv => WithinCapacity
  BY DEF WInv, WithinCapacity, Open
<1> QED BY <1>1, WInvAlways, PTL
(***************************************************************************)
(* Pruning fails for everybody once an idle expired session has lost its   *)
(* conversation or has an unsettled run.  Three things bring that about,   *)
(* and nothing else: a session that expires while it is busy, whose rows   *)
(* are pruned under it; a crash between the two transactions of clear,     *)
(* after which a checkpoint is restored whose conversation is gone; and a  *)
(* failing transaction that does not save a session, but creates its       *)
(* conversation, deletes it, drops its checkpoint or settles its run.      *)
(***************************************************************************)
BusyLives == \A t \in busy : life[t] > 0

ClearsThrough == crashes' # crashes => \A t \in Tokens : step # {<<"clearing", t>>}

OnlySavesFail ==
    faults' # faults => \E t \in Tokens : Created(t) \/ LeaseEnd(t) \/ Submit(t) \/ Released(t)

(* Whatever is in memory or on disk of a session has its conversation,     *)
(* until the session is being cleared, and a session with a run is busy.   *)
Rooted ==
    /\ \A t \in Tokens : t \in held \/ saved[t] # NoRow => t \in conv \/ step = {<<"clearing", t>>}
    /\ active \subseteq tasks \cup stuck

(* Then every session that is due can be deleted, and what pruning leaves  *)
(* of a session has its conversation.                                      *)
LEMMA RootedPrunes ==
    ASSUME WInv, Rooted, BusyLives, step = Idle
    PROVE  /\ Due = Deletable
           /\ \A t \in Tokens : t \in held \/ saved[t] # NoRow => t \in conv
           /\ \A t \in Tokens : t \in PrunedHeld \/ PrunedSaved[t] # NoRow => t \in PrunedConv
<1>1. active \subseteq busy /\ busy \subseteq held /\ held \subseteq Tokens
  BY DEF WInv, Rooted, TypeOK
<1>2. \A t \in Tokens : t \in held \/ saved[t] # NoRow => t \in conv
  BY NotIdle DEF Rooted
<1>3. Due = Deletable
  BY <1>1, <1>2 DEF Due, Deletable
<1>4. ASSUME NEW t \in Tokens, t \in PrunedHeld \/ PrunedSaved[t] # NoRow PROVE t \in PrunedConv
  <2>1. PrunedSaved[t] = IF t \in Due \cup ExpiredRows THEN NoRow ELSE saved[t]
    BY DEF PrunedSaved
  <2>2. t \notin Due /\ (t \in held \/ saved[t] # NoRow)
    BY <1>4, <2>1 DEF PrunedHeld
  <2>3. t \notin ExpiredRows
    <3>1. CASE t \in held
      BY <2>2, <3>1 DEF Due, ExpiredRows, BusyLives
    <3>2. CASE t \notin held
      BY <1>4, <2>1, <3>2 DEF PrunedHeld
    <3> QED BY <3>1, <3>2
  <2> QED BY <1>2, <2>2, <2>3 DEF PrunedConv
<1> QED BY <1>2, <1>3, <1>4

(* A lookup, whatever it does with its session afterwards.                 *)
LEMMA LookupRooted ==
    ASSUME WInv, Rooted, BusyLives, NEW t \in Tokens, Lookup(t),
           \A q \in Tokens : saved'[q] = PrunedSaved[q] \/ (q = t /\ Live(t)),
           active' \subseteq tasks' \cup stuck'
    PROVE  Rooted'
<1>1. /\ step = Idle /\ conv' = PrunedConv
      /\ held' = IF Restores(t) THEN PrunedHeld \cup {t} ELSE PrunedHeld
  BY DEF Lookup, Prunable
<1>2. \A q \in Tokens : q \in PrunedHeld \/ PrunedSaved[q] # NoRow => q \in PrunedConv
  BY <1>1, RootedPrunes
<1>3. Restores(t) => PrunedSaved[t] # NoRow
  BY <1>1, RootedPrunes, PruneFacts DEF Restores
<1>4. \A q \in Tokens : q \in held' \/ saved'[q] # NoRow => q \in conv'
  BY <1>1, <1>2, <1>3 DEF Live
<1> QED BY <1>4 DEF Rooted

(* The saves, which may fail, leave every session its conversation.        *)
LEMMA SaveRooted ==
    ASSUME WInv, Rooted, BusyLives, NEW t \in Tokens,
           Created(t) \/ LeaseEnd(t) \/ Submit(t) \/ Released(t)
    PROVE  Rooted'
<1>0. TypeOK /\ \A u \in Tokens : StepInv(u)
  BY DEF WInv
<1>1. CASE Submit(t)
  <2>1. \A q \in Tokens : saved'[q] = PrunedSaved[q] \/ (q = t /\ Live(t))
    BY <1>1 DEF Submit, Saves, Persists, PrunedSaved
  <2>2. active' \subseteq tasks' \cup stuck'
    BY <1>1 DEF Submit, Rooted
  <2> QED BY <1>1, <2>1, <2>2, LookupRooted DEF Submit
<1>2. ASSUME t \in held, UNCHANGED <<conv, held, active>>, step' = Idle,
             \A u \in Tokens : step # {<<"clearing", u>>},
             \A u \in Tokens : u # t => saved'[u] = saved[u],
             tasks' = tasks, stuck' = stuck
      PROVE  Rooted'
  BY <1>2 DEF Rooted
<1>3. ASSUME NEW v, Saves(saved, t, v) PROVE \A u \in Tokens : u # t => saved'[u] = saved[u]
  BY <1>0, <1>3 DEF Saves, Persists, TypeOK
<1>4. CASE Created(t)
  <2>1. \A u : step = {<<"clearing", u>>} => "creating" = "clearing"
    BY <1>4, IdleSteps DEF Created
  <2> QED BY <1>0, <1>2, <1>3, <1>4, <2>1 DEF Created, StepInv, Doer
<1>5. CASE Released(t)
  <2>1. \A u : step = {<<"clearing", u>>} => "releasing" = "clearing"
    BY <1>5, IdleSteps DEF Released
  <2> QED BY <1>0, <1>2, <1>3, <1>5, <2>1 DEF Released, StepInv, Doer
<1>6. CASE LeaseEnd(t)
  <2>1. step = Idle /\ t \in held /\ step' = Idle
    BY <1>0, <1>6 DEF LeaseEnd, TypeOK
  <2>2. \A u \in Tokens : u # t => saved'[u] = saved[u]
    BY <1>3, <1>6 DEF LeaseEnd
  <2>3. \A u \in Tokens : step # {<<"clearing", u>>}
    BY <2>1, NotIdle
  <2> QED BY <1>2, <1>6, <2>1, <2>2, <2>3 DEF LeaseEnd
<1> QED BY <1>1, <1>4, <1>5, <1>6

LEMMA RootedStep ==
    ASSUME WInv, Rooted, BusyLives, [Next]_vars, [ClearsThrough /\ OnlySavesFail]_vars
    PROVE  Rooted'
<1>0. TypeOK
  BY DEF WInv
<1>1. CASE UNCHANGED vars
  BY <1>1 DEF vars, database, memory, Rooted
<1>2. CASE faults' # faults
  <2>1. OnlySavesFail
    BY <1>2 DEF vars
  <2> QED BY <1>2, <2>1, SaveRooted DEF OnlySavesFail
<1> SUFFICES ASSUME Next, ClearsThrough, faults' = faults PROVE Rooted'
  BY <1>1, <1>2
<1>3. ~ Fails
  BY <1>0 DEF Fails, TypeOK
<1>4. ASSUME NEW t \in Tokens, Create(t) PROVE Rooted'
  <2>1. /\ step = Idle /\ step' = {<<"creating", t>>}
        /\ conv' = PrunedConv \cup {t} /\ held' = PrunedHeld \cup {t} /\ saved' = PrunedSaved
        /\ UNCHANGED <<active, tasks, stuck>>
    BY <1>3, <1>4 DEF Create, Prunable
  <2>2. \A q \in Tokens : q \in PrunedHeld \/ PrunedSaved[q] # NoRow => q \in PrunedConv
    BY <2>1, RootedPrunes
  <2>3. t \in conv'
    BY <2>1
  <2>4. \A q \in Tokens : q \in held' \/ saved'[q] # NoRow => q \in conv'
    BY <2>1, <2>2, <2>3
  <2> QED BY <2>1, <2>4 DEF Rooted
<1>5. ASSUME NEW t \in Tokens, Visit(t) \/ LeaseStart(t) \/ Withdraw(t) PROVE Rooted'
  <2>1. Lookup(t) /\ saved' = PrunedSaved
    BY <1>5 DEF Visit, LeaseStart, Withdraw, Opened, Dropped
  <2>2. active' \subseteq active /\ UNCHANGED <<tasks, stuck>>
    BY <1>5 DEF Visit, LeaseStart, Withdraw
  <2> QED BY <2>1, <2>2, LookupRooted DEF Rooted
<1>6. ASSUME NEW t \in Tokens, RunEnds(t) PROVE Rooted'
  <2>1. /\ step = Idle /\ UNCHANGED <<conv, saved, held, stuck>>
        /\ active' = active \ {t} /\ tasks' = tasks \ {t}
    BY <1>3, <1>6 DEF RunEnds
  <2> QED BY <2>1, RootedPrunes DEF Rooted
<1>7. ASSUME NEW t \in Tokens, Clear(t) PROVE Rooted'
  <2>1. /\ step = Idle /\ step' = {<<"clearing", t>>}
        /\ conv' = PrunedConv \ {t} /\ held' = PrunedHeld \cup {t} /\ saved' = PrunedSaved
        /\ UNCHANGED <<active, tasks, stuck>>
    BY <1>7 DEF Clear, Prunable
  <2>2. \A q \in Tokens : q \in PrunedHeld \/ PrunedSaved[q] # NoRow => q \in PrunedConv
    BY <2>1, RootedPrunes
  <2> QED BY <2>1, <2>2 DEF Rooted
<1>8. ASSUME NEW t \in Tokens, Cleared(t) PROVE Rooted'
  <2>1. \A u : step = {<<"clearing", u>>} => u = t
    BY <1>8, IdleSteps DEF Cleared
  <2>2. /\ saved' = [saved EXCEPT ![t] = NoRow] /\ held' = held \ {t}
        /\ UNCHANGED <<conv, active, tasks, stuck>>
    BY <1>3, <1>8 DEF Cleared
  <2>3. saved'[t] = NoRow /\ \A u \in Tokens : u # t => saved'[u] = saved[u]
    BY <1>0, <2>2 DEF TypeOK
  <2> QED BY <2>1, <2>2, <2>3 DEF Rooted
<1>9. CASE PruneFails
  BY <1>3, <1>9, RootedPrunes DEF PruneFails
<1>10. CASE Tick
  BY <1>10 DEF Tick, database, memory, Rooted
<1>11. CASE Crash
  <2>1. crashes' # crashes /\ held' = {} /\ active' = {} /\ UNCHANGED <<conv, saved>>
    BY <1>0, <1>11 DEF Crash, TypeOK
  <2>2. \A t \in Tokens : step # {<<"clearing", t>>}
    BY <2>1 DEF ClearsThrough
  <2> QED BY <2>1, <2>2 DEF Rooted
<1> QED
  BY <1>4, <1>5, <1>6, <1>7, <1>8, <1>9, <1>10, <1>11, SaveRooted DEF Next, Sessions

(* An idle expired session can always be deleted, as                       *)
(* DURABLE_CONVERSATIONS.md says, if no session expires while it is busy,  *)
(* no crash interrupts clear between its transactions and no transaction   *)
(* fails but those that save a session.                                    *)
THEOREM ExpiredPrunedUnlessOvertaken ==
    Spec /\ []BusyLives /\ [][ClearsThrough /\ OnlySavesFail]_vars => []ExpiredCanBePruned
<1>1. Init => Rooted
  BY DEF Init, Rooted
<1>2. WInv /\ Rooted /\ BusyLives /\ [Next]_vars /\ [ClearsThrough /\ OnlySavesFail]_vars => Rooted'
  BY RootedStep
<1>3. WInv /\ Rooted /\ BusyLives => ExpiredCanBePruned
  BY RootedPrunes DEF ExpiredCanBePruned
<1> QED BY <1>1, <1>2, <1>3, WInvAlways, PTL DEF Spec
-----------------------------------------------------------------------------
(***************************************************************************)
(* The tab.  Whatever it does, in whatever order its calls arrive, the     *)
(* server sees what some client with a token may do.                       *)
(***************************************************************************)
Tokened ==
    /\ stored \subseteq Tokens
    /\ \A q \in posts \cup pending : q.token \in Tokens

browser == <<vars, journal, posts, foreign, tab>>

LEMMA InitTokened == BrowserInit => Tokened
BY DEF BrowserInit, Tokened

LEMMA TokenedNext ==
    ASSUME Tokened, [BrowserNext]_browser
    PROVE  Tokened'
<1> USE DEF Tokened, tab
<1>1. CASE UNCHANGED browser
  BY <1>1 DEF browser
<1>2. CASE Serve \/ GiveUp \/ Reload \/ CancelFails
  BY <1>2 DEF Serve, GiveUp, Reload, CancelFails
<1>3. CASE CancelAnswered
  <2>1. posts' = posts /\ stored' = stored /\ pending' \subseteq pending
    BY <1>3 DEF CancelAnswered
  <2> QED BY <2>1
<1>4. CASE \E e \in 0..MaxAsks : Ask(e)
  <2>1. PICK e \in 0..MaxAsks : Ask(e)
    BY <1>4
  <2>2. PICK t \in stored :
            LET q == [token |-> t, ask |-> drawn + 1, id |-> drawn + 1, revision |-> e] IN
            pending' = {q} /\ posts' = posts \cup {q}
    BY <2>1 DEF Ask
  <2>3. stored' = stored
    BY <2>1 DEF Ask
  <2> QED BY <2>2, <2>3
<1>5. CASE \E q \in posts : Deliver(q)
  <2>1. PICK q \in posts : Deliver(q)
    BY <1>5
  <2>2. posts' \subseteq posts
    BY <2>1 DEF Deliver
  <2>3. (stored' = stored /\ pending' = pending) \/ Refused \/ Forget
    BY <2>1 DEF Deliver, Accept, Repeat, Deny, Follow
  <2> QED BY <2>2, <2>3 DEF Refused, Forget
<1>6. ASSUME NEW t \in Tokens, Elsewhere(t) \/ RunWrites(t) \/ RunSettles(t)
      PROVE  Tokened'
  BY <1>6 DEF Elsewhere, RunWrites, RunSettles
<1>7. ASSUME NEW t \in Tokens, TabActs(t)
      PROVE  Tokened'
  <2>1. CASE StartSession(t)
    BY <2>1 DEF StartSession
  <2>2. CASE Receive(t)
    BY <2>2 DEF Receive, Watches, Reads
  <2>3. CASE Recheck(t)
    <3>1. posts' = posts /\ stored' = stored /\ pending' \subseteq pending
      BY <2>3 DEF Recheck, Watches, Reads
    <3> QED BY <3>1
  <2>4. CASE LoseAccess(t) \/ ResumeExpired(t)
    BY <2>4 DEF LoseAccess, ResumeExpired, Watches, Reads, Forget, Refused
  <2>5. CASE ResumeRequest(t)
    BY <2>5 DEF ResumeRequest, Resumed
  <2>6. CASE ResumeLatest(t)
    BY <2>6 DEF ResumeLatest, Reads
  <2>7. CASE CancelRun(t)
    BY <2>7 DEF CancelRun
  <2> QED BY <1>7, <2>1, <2>2, <2>3, <2>4, <2>5, <2>6, <2>7 DEF TabActs
<1> QED BY <1>1, <1>2, <1>3, <1>4, <1>5, <1>6, <1>7 DEF BrowserNext, browser

(* A lookup that changes nothing else is a visit.                          *)
LEMMA CallVisits ==
    ASSUME NEW t \in Tokens, Opened(t), OnlyLooks
    PROVE  Next
BY DEF Next, Sessions, Visit, OnlyLooks

LEMMA ClientStep ==
    ASSUME Tokened, [BrowserNext]_browser
    PROVE  [Next]_vars
<1>1. CASE UNCHANGED vars
  BY <1>1
<1>2. CASE Serve
  BY <1>2 DEF Serve, Next
<1>3. CASE GiveUp \/ Reload \/ CancelFails \/ CancelAnswered \/ \E e \in 0..MaxAsks : Ask(e)
  BY <1>3 DEF GiveUp, Reload, CancelFails, CancelAnswered, Ask
<1>4. CASE \E q \in posts : Deliver(q)
  <2>1. PICK q \in posts : Deliver(q)
    BY <1>4
  <2>2. q.token \in Tokens
    BY DEF Tokened
  <2>3. CASE Accept(q)
    BY <2>2, <2>3 DEF Accept, Next
  <2>4. CASE Repeat(q)
    BY <2>2, <2>4, CallVisits DEF Repeat
  <2>5. CASE Deny(q)
    BY <2>2, <2>5, CallVisits DEF Deny, Next, Sessions
  <2> QED BY <2>1, <2>3, <2>4, <2>5 DEF Deliver
<1>5. ASSUME NEW t \in Tokens, Elsewhere(t) \/ RunWrites(t) \/ RunSettles(t)
      PROVE  [Next]_vars
  BY <1>5 DEF Elsewhere, RunWrites, RunSettles, Next
<1>6. ASSUME NEW t \in Tokens, TabActs(t)
      PROVE  [Next]_vars
  <2>1. StartSession(t) \/ Calls(t) \/ Withdraw(t)
    BY <1>6 DEF TabActs, Receive, Recheck, LoseAccess, ResumeRequest, ResumeLatest,
                ResumeExpired, CancelRun, Watches, Reads
  <2>2. CASE StartSession(t)
    BY <2>2 DEF StartSession
  <2>3. CASE Calls(t)
    BY <2>3, CallVisits DEF Calls
  <2>4. CASE Withdraw(t)
    BY <2>4 DEF Next
  <2> QED BY <2>1, <2>2, <2>3, <2>4
<1>7. CASE UNCHANGED browser
  BY <1>7 DEF browser
<1> QED BY <1>2, <1>3, <1>4, <1>5, <1>6, <1>7 DEF BrowserNext

(* The composition implements the workspace: every step of the tab is a    *)
(* call the workspace serves to anyone, so that what is proved of the      *)
(* workspace is proved of the two together.                                *)
THEOREM ClientOfWorkspace == BrowserSpec => Spec
<1>1. BrowserInit => Init
  BY DEF BrowserInit
<1>2. Tokened /\ [BrowserNext]_browser => Tokened'
  BY TokenedNext
<1>3. Tokened /\ [BrowserNext]_browser => [Next]_vars
  BY ClientStep
<1> QED BY InitTokened, <1>1, <1>2, <1>3, PTL DEF BrowserSpec, Spec, browser
-----------------------------------------------------------------------------
(***************************************************************************)
(* The journal and the requests.  A question has one request, whatever is  *)
(* sent again; the sessions of its runs and requests are the same.  Only   *)
(* the last run of a session can be unsettled, and it is while the session *)
(* has an active one.                                                      *)
(***************************************************************************)
Sending == posts \cup pending

Activity(t) ==
    /\ \A i \in DOMAIN journal[t] :
            ~ journal[t][i].settled => i = Len(journal[t]) /\ t \in active
    /\ t \in active => journal[t] # << >> /\ ~ Last(t).settled

LogOf(t) ==
    /\ journal[t] # << >> => t \in given /\ t \in conv
    /\ \A i \in DOMAIN journal[t] :
            journal[t][i].id = journal[t][i].ask /\ journal[t][i].ask <= drawn
    /\ t \in given => Activity(t)

Sent(q) ==
    /\ q.id = q.ask /\ q.ask <= drawn /\ q.token \in given
    /\ \A t \in Tokens : \A i \in DOMAIN journal[t] :
            journal[t][i].ask = q.ask => t = q.token

LogInv ==
    /\ given \subseteq issued
    /\ active \subseteq given \cup foreign
    /\ \A t \in Tokens : LogOf(t)
    /\ \A q \in Sending : Sent(q)
    /\ \A q, r \in Sending : q.ask = r.ask => q.token = r.token
    /\ AskedOnce

(***************************************************************************)
(* What the tab has of a run is a prefix of the run's history.  The run it *)
(* has something of was admitted: a request for it that still arrives is   *)
(* answered with that run.                                                 *)
(***************************************************************************)
Seen == current \cup shown \cup stale

Tells(s, r) ==
    /\ s.id = r.id /\ s.events <= r.events
    /\ s.settled <=> (r.settled /\ s.events = r.events)

ViewInv ==
    /\ \A s \in Seen : s.id \in 1..drawn
    /\ \A s \in Seen, t \in Tokens : \A i \in RunShown(t, s) : Tells(s, journal[t][i])
    /\ \A s \in Seen, q \in Sending :
            s.id = q.id /\ q.token \in conv => Admitted(q) # {}

BInv == WInv /\ BrowserTypeOK /\ LogInv /\ ViewInv
-----------------------------------------------------------------------------
(* What a step may do to the journal.                                      *)
Kept == journal' = Cascaded /\ active' = active /\ foreign' = foreign

Restarted ==
    /\ journal' = [t \in Tokens |-> Interrupted(journal[t])]
    /\ active' = {} /\ conv' = conv /\ foreign' = foreign

(* Its request to cancel and the confirmation are two events at once.      *)
Advanced(t, e, settled) ==
    /\ t \in given /\ t \in active /\ t \in conv' /\ e \in 1..2
    /\ Log(t, e, settled)
    /\ active' = IF settled THEN active \ {t} ELSE active
    /\ foreign' = foreign

Advances(t) == \E e \in 1..2, settled \in BOOLEAN : Advanced(t, e, settled)

Abroad(t) ==
    /\ t \notin given /\ journal' = Cascaded /\ foreign' = foreign \cup {t}
    /\ active' \in {active, active \cup {t}, active \ {t}}

Accepted(q) ==
    /\ q \in posts /\ Admitted(q) = {}
    /\ q.token \in conv /\ q.token \notin active /\ active' = active \cup {q.token}
    /\ journal' = [Cascaded EXCEPT ![q.token] = Append(@, Started(q))]
    /\ foreign' = foreign

(* The runs of a session survive with their order and identity, and only   *)
(* an unsettled one changes; or they go with their conversation.           *)
Moves(r, n) ==
    /\ n.id = r.id /\ n.ask = r.ask
    /\ n = r \/ (~ r.settled /\ n.events > r.events)

Evolves(old, new) ==
    /\ Len(new) = Len(old)
    /\ \A i \in DOMAIN old : Moves(old[i], new[i])

Logs == [Tokens -> Seq(Runs)]

Gone(t) == t \notin conv' /\ journal'[t] = << >>

Stays(t) == t \in conv' /\ Evolves(journal[t], journal'[t])

Grows == journal' \in Logs /\ \A t \in Tokens : Gone(t) \/ Stays(t)

Frame == drawn' = drawn /\ given' = given /\ Sending' \subseteq Sending

LEMMA CascadedFacts ==
    ASSUME journal \in Logs
    PROVE  /\ Cascaded \in Logs
           /\ \A t \in Tokens : t \in conv' => Cascaded[t] = journal[t]
           /\ \A t \in Tokens : t \notin conv' => Cascaded[t] = << >>
<1>1. << >> \in Seq(Runs)
  OBVIOUS
<1> QED BY <1>1 DEF Cascaded, Logs

(* A conversation that stays takes nothing with it.                        *)
LEMMA CascadedSame ==
    ASSUME journal \in Logs, conv' = conv, \A t \in Tokens : LogOf(t)
    PROVE  Cascaded = journal
<1>1. \A t \in Tokens : t \notin conv => journal[t] = << >>
  BY DEF LogOf
<1>2. \A t \in Tokens : Cascaded[t] = journal[t]
  BY <1>1 DEF Cascaded
<1> QED BY <1>2 DEF Cascaded, Logs

LEMMA EvolvesSame ==
    ASSUME NEW log \in Seq(Runs)
    PROVE  Evolves(log, log)
BY DEF Evolves, Moves

LEMMA OneTwo == 1 \in 1..2 /\ 2 \in 1..2
OBVIOUS

Bumped(r, e, b) == [[r EXCEPT !.events = @ + e] EXCEPT !.settled = b]

LEMMA RunMoves ==
    ASSUME NEW r \in Runs, NEW e \in 1..2, NEW b \in BOOLEAN, NEW n, n = Bumped(r, e, b)
    PROVE  /\ n \in Runs /\ n.id = r.id /\ n.ask = r.ask
           /\ n.events = r.events + e /\ n.events > r.events /\ n.settled = b
<1>1. /\ r.ask \in 1..MaxAsks /\ r.id \in Nat /\ r.events \in Nat
      /\ r = [ask |-> r.ask, id |-> r.id, events |-> r.events, settled |-> r.settled]
  BY DEF Runs
<1>2. n = [ask |-> r.ask, id |-> r.id, events |-> r.events + e, settled |-> b]
  BY <1>1 DEF Bumped
<1> QED BY <1>1, <1>2 DEF Runs

LEMMA InterruptedFacts ==
    ASSUME NEW log \in Seq(Runs)
    PROVE  /\ Interrupted(log) \in Seq(Runs)
           /\ Evolves(log, Interrupted(log))
           /\ \A i \in DOMAIN Interrupted(log) : Interrupted(log)[i].settled
<1> DEFINE n == Len(log)
           I == Interrupted(log)
<1>1. n \in Nat /\ DOMAIN log = 1..n
  OBVIOUS
<1>2. \A i \in 1..n :
        /\ log[i] \in Runs
        /\ I[i] = IF log[i].settled THEN log[i]
                  ELSE [log[i] EXCEPT !.events = @ + 1, !.settled = TRUE]
  BY <1>1 DEF Interrupted
<1>3. ASSUME NEW i \in 1..n
      PROVE  I[i] \in Runs /\ I[i].settled /\ Moves(log[i], I[i])
  <2>1. CASE log[i].settled
    BY <1>2, <2>1 DEF Moves
  <2>2. CASE ~ log[i].settled
    <3>1. I[i] = Bumped(log[i], 1, TRUE)
      BY <1>2, <2>2 DEF Bumped
    <3>2. log[i] \in Runs
      BY <1>2
    <3> HIDE DEF I
    <3>3. ASSUME NEW r \in Runs, NEW m, m = Bumped(r, 1, TRUE)
          PROVE  m \in Runs /\ m.settled /\ m.id = r.id /\ m.ask = r.ask /\ m.events > r.events
      <4>1. \A b \in BOOLEAN : m = Bumped(r, 1, b) =>
                m \in Runs /\ m.id = r.id /\ m.ask = r.ask /\ m.events > r.events /\ m.settled = b
        BY RunMoves, OneTwo
      <4> QED BY <3>3, <4>1
    <3> QED BY <2>2, <3>1, <3>2, <3>3 DEF Moves
  <2> QED BY <2>1, <2>2
<1>4. I = [i \in 1..n |-> I[i]]
  BY <1>1 DEF Interrupted
<1>5. I \in Seq(Runs) /\ Len(I) = n /\ DOMAIN I = 1..n
  BY <1>1, <1>3, <1>4
<1> QED BY <1>1, <1>3, <1>5 DEF Evolves

Written(C, t, n, e, settled) ==
    [C EXCEPT ![t][n].events = @ + e, ![t][n].settled = settled]

WrittenFacts(C, J, t, n, e, settled) ==
    /\ J \in Logs
    /\ \A u \in Tokens \ {t} : J[u] = C[u]
    /\ Evolves(C[t], J[t])
    /\ \A i \in 1..n : i # n => J[t][i] = C[t][i]
    /\ J[t][n].settled = settled /\ J[t][n].events = C[t][n].events + e

LEMMA LogFacts ==
    ASSUME NEW C \in Logs, NEW J, NEW t \in Tokens, NEW settled \in BOOLEAN,
           NEW e \in 1..2, NEW n, C[t] # << >>, n = Len(C[t]), ~ C[t][n].settled,
           J = Written(C, t, n, e, settled)
    PROVE  WrittenFacts(C, J, t, n, e, settled)
<1> DEFINE r == C[t][n]
           y == Bumped(r, e, settled)
           L == [C[t] EXCEPT ![n] = y]
<1>1. C[t] \in Seq(Runs) /\ n \in Nat \ {0} /\ n \in 1..n /\ DOMAIN C[t] = 1..n
  BY DEF Logs
<1>2. r \in Runs
  <2>1. C[t][n] \in Runs
    BY <1>1
  <2> QED BY <2>1
<1>3. y \in Runs /\ y.id = r.id /\ y.ask = r.ask /\ y.events = r.events + e /\ y.events > r.events /\ y.settled = settled
  BY <1>2, RunMoves
<1>4. L \in Seq(Runs) /\ Len(L) = n /\ DOMAIN L = 1..n
  BY <1>1, <1>3
<1>5. L[n] = y /\ \A i \in 1..n : i # n => L[i] = C[t][i]
  BY <1>1
<1>6. J = [C EXCEPT ![t] = L]
  <2> DEFINE x == [r EXCEPT !.events = @ + e]
  <2>1. [C EXCEPT ![t][n].events = @ + e] = [C EXCEPT ![t] = [C[t] EXCEPT ![n] = x]]
    OBVIOUS
  <2>2. J = [[C EXCEPT ![t] = [C[t] EXCEPT ![n] = x]] EXCEPT ![t][n].settled = settled]
    BY <2>1 DEF Written
  <2>3. y = [x EXCEPT !.settled = settled]
    BY DEF Bumped
  <2> DEFINE D == [C[t] EXCEPT ![n] = x]
             M == [C EXCEPT ![t] = D]
  <2>4. J = [M EXCEPT ![t] = [M[t] EXCEPT ![n] = [M[t][n] EXCEPT !.settled = settled]]]
    BY <2>2
  <2> HIDE DEF x, y, L
  <2>5. M[t] = D /\ D[n] = x
    BY <1>1 DEF Logs
  <2>6. [D EXCEPT ![n] = y] = L
    BY <1>1 DEF L
  <2> HIDE DEF D
  <2>7. [M EXCEPT ![t] = L] = [C EXCEPT ![t] = L]
    BY DEF Logs
  <2> HIDE DEF M
  <2> QED BY <2>3, <2>4, <2>5, <2>6, <2>7
<1> HIDE DEF r, y, L
<1>7. J \in Logs /\ J[t] = L /\ \A u \in Tokens \ {t} : J[u] = C[u]
  <2>1. ASSUME NEW K, K = [C EXCEPT ![t] = L]
        PROVE  K \in Logs /\ K[t] = L /\ \A u \in Tokens \ {t} : K[u] = C[u]
    BY <1>4, <2>1 DEF Logs
  <2> QED BY <1>6, <2>1
<1>8. Evolves(C[t], L)
  <2>1. Moves(r, y)
    BY <1>3 DEF Moves, r
  <2>2. \A i \in 1..n : Moves(C[t][i], L[i])
    BY <1>5, <2>1 DEF Moves, r
  <2> QED BY <1>1, <1>4, <2>2 DEF Evolves
<1> QED BY <1>3, <1>5, <1>7, <1>8 DEF r, WrittenFacts
-----------------------------------------------------------------------------
(* Each step does one of these things to the journal.                      *)
LEMMA SessionsKeepRuns ==
    ASSUME TypeOK, Sessions, ~ Crash
    PROVE  active' = active /\ crashes' = crashes
BY DEF Sessions, PruneFails, Create, Created, Visit, LeaseStart, LeaseEnd, Released, Clear,
       Cleared, Tick, database

LEMMA LiveStays ==
    ASSUME NEW t \in conv, Opened(t), life[t] > 0
    PROVE  t \in conv'
BY DEF Opened, Lookup, PrunedConv, Due, ExpiredRows

JournalStep ==
    \/ Kept \/ Restarted
    \/ \E t \in Tokens : Advances(t) \/ Abroad(t)
    \/ \E q \in posts : Accepted(q)

LEMMA ServeStep ==
    ASSUME BInv, Serve
    PROVE  Frame /\ (Kept \/ Restarted)
<1>1. Frame /\ foreign' = foreign
  BY DEF Serve, Frame, Sending, tab
<1>2. CASE Crash
  <2>1. crashes' # crashes /\ active' = {} /\ conv' = conv
    BY <1>2 DEF Crash, BInv, WInv, TypeOK
  <2>2. journal' = [t \in Tokens |-> Interrupted(journal[t])]
    BY <2>1 DEF Serve, Durable
  <2> QED BY <1>1, <2>1, <2>2 DEF Restarted
<1>3. CASE ~ Crash
  <2>1. active' = active /\ crashes' = crashes
    BY <1>3, SessionsKeepRuns DEF Serve, BInv, WInv
  <2> QED BY <1>1, <2>1 DEF Serve, Kept
<1> QED BY <1>2, <1>3

LEMMA NotBoth ==
    ASSUME BInv
    PROVE  ~ (Commits /\ Fails)
BY DEF BInv, WInv, TypeOK, Commits, Fails

LEMMA WithdrawStep ==
    ASSUME BInv, NEW t \in given, NEW n \in 1..2,
           Withdraw(t), Log(t, n, TRUE), foreign' = foreign
    PROVE  Advanced(t, n, TRUE)
<1>1. t \in active /\ t \in conv /\ Opened(t) /\ life[t] > 0 /\ active' = active \ {t}
  BY DEF Withdraw, Live, BInv, WInv, RunKeepsConversation
<1>2. t \in conv'
  BY <1>1, LiveStays
<1> QED BY <1>1, <1>2 DEF Advanced

LEMMA RunStep ==
    ASSUME BInv, NEW t \in Tokens, Elsewhere(t) \/ RunWrites(t) \/ RunSettles(t)
    PROVE  Frame /\ (Kept \/ Abroad(t) \/ Advances(t))
<1>1. Frame
  BY DEF Elsewhere, RunWrites, RunSettles, Frame, Sending, tab
<1>2. CASE Elsewhere(t)
  BY <1>1, <1>2 DEF Elsewhere, Abroad, Submit, RunEnds, Withdraw
<1>3. CASE RunWrites(t)
  <2>1. t \in conv' /\ t \in active /\ active' = active
    BY <1>3 DEF RunWrites, BInv, WInv, RunKeepsConversation, vars, database
  <2>2. Advanced(t, 1, FALSE)
    BY <1>3, <2>1, OneTwo DEF RunWrites, Advanced, tab
  <2> QED BY <1>1, <2>2, OneTwo DEF Advances
<1>4. ASSUME RunSettles(t), RunEnds(t), Commits, Log(t, 1, TRUE) PROVE Advances(t)
  <2>1. t \in conv' /\ t \in active
    BY <1>4 DEF RunEnds, BInv, WInv, RunKeepsConversation
  <2>2. active' = active \ {t}
    BY <1>4, NotBoth DEF RunEnds
  <2>3. Advanced(t, 1, TRUE)
    BY <1>4, <2>1, <2>2, OneTwo DEF RunSettles, Advanced
  <2> QED BY <2>3, OneTwo DEF Advances
<1>5. ASSUME RunSettles(t), RunEnds(t), Fails, journal' = Cascaded PROVE Kept
  BY <1>5, NotBoth DEF RunSettles, RunEnds, Kept
<1>6. ASSUME RunSettles(t), Withdraw(t), NEW n \in 1..2, Log(t, n, TRUE) PROVE Advances(t)
  <2>1. t \in given /\ foreign' = foreign
    BY <1>6 DEF RunSettles
  <2>2. Advanced(t, n, TRUE)
    BY <1>6, <2>1, WithdrawStep
  <2> QED BY <2>2 DEF Advances
<1>7. CASE RunSettles(t)
  BY <1>1, <1>4, <1>5, <1>6, <1>7 DEF RunSettles
<1> QED BY <1>2, <1>3, <1>7

LEMMA StillStep ==
    ASSUME BInv, UNCHANGED <<vars, journal, foreign>>
    PROVE  Kept
<1>1. conv' = conv /\ active' = active
  BY DEF vars, database
<1>2. Cascaded = journal
  BY <1>1, CascadedSame DEF BInv, LogInv, BrowserTypeOK, Logs
<1> QED BY <1>1, <1>2 DEF Kept

LEMMA DeliverStep ==
    ASSUME BInv, NEW q \in posts, Deliver(q)
    PROVE  Frame /\ (Kept \/ Accepted(q))
<1>1. posts' \subseteq posts /\ foreign' = foreign
  BY DEF Deliver
<1>2. CASE Accept(q)
  <2>1. /\ Submit(q.token) /\ Admitted(q) = {}
        /\ journal' = [Cascaded EXCEPT ![q.token] = Append(@, Started(q))]
        /\ drawn' = drawn /\ given' = given /\ pending' = pending
    BY <1>2 DEF Accept, Follow, tab
  <2>2. q.token \in conv /\ q.token \notin active /\ active' = active \cup {q.token}
    BY <2>1 DEF Submit
  <2> QED BY <1>1, <2>1, <2>2 DEF Frame, Sending, Accepted
<1>3. CASE Repeat(q)
  <2>1. drawn' = drawn /\ given' = given /\ pending' = pending /\ journal' = Cascaded /\ active' = active
    BY <1>3 DEF Repeat, Follow, tab, OnlyLooks
  <2> QED BY <1>1, <2>1 DEF Frame, Sending, Kept
<1>4. CASE Deny(q)
  <2>1. drawn' = drawn /\ given' = given /\ pending' \subseteq pending
    BY <1>4 DEF Deny, Refused, Forget, tab
  <2>2. journal' = Cascaded /\ active' = active
    BY <1>4 DEF Deny, PruneFails, OnlyLooks
  <2> QED BY <1>1, <2>1, <2>2 DEF Frame, Sending, Kept
<1> QED BY <1>2, <1>3, <1>4 DEF Deliver

(* The three answers to a cancellation: there is nothing left to do, the   *)
(* task is asked to stop, or there is none and the run is settled at once. *)
CancelKnown(t, r) ==
    /\ Calls(t) /\ Live(t)
    /\ journal' = Cascaded /\ stale' = {Snapshot(r)}

CancelAsked(t, r) ==
    /\ Calls(t) /\ Live(t) /\ t \in tasks /\ ~ r.settled
    /\ Log(t, 1, FALSE) /\ stale' = {[Snapshot(r) EXCEPT !.events = @ + 1]}

CancelDone(t, r, n) ==
    /\ t \in stored /\ Withdraw(t) /\ foreign' = foreign /\ ~ r.settled
    /\ Log(t, n, TRUE) /\ stale' = {[Snapshot(r) EXCEPT !.events = @ + n, !.settled = TRUE]}

LEMMA CancelCases ==
    ASSUME NEW t \in Tokens, CancelRun(t)
    PROVE  \E i \in DOMAIN journal[t] :
              \/ CancelKnown(t, journal[t][i]) \/ CancelAsked(t, journal[t][i])
              \/ \E n \in 1..2 : CancelDone(t, journal[t][i], n)
BY DEF CancelRun, RunShown, CancelKnown, CancelAsked, CancelDone

(* Each advances the run, or leaves it.                                    *)
LEMMA CancelMoves ==
    ASSUME BInv, NEW t \in Tokens, NEW i \in DOMAIN journal[t]
    PROVE  /\ CancelKnown(t, journal[t][i]) => Kept
           /\ CancelAsked(t, journal[t][i]) => Advanced(t, 1, FALSE)
           /\ \A n \in 1..2 : CancelDone(t, journal[t][i], n) => Advanced(t, n, TRUE)
<1>1. CancelKnown(t, journal[t][i]) => Kept
  BY DEF CancelKnown, Calls, OnlyLooks, Kept
<1>2. ASSUME CancelAsked(t, journal[t][i]) PROVE Advanced(t, 1, FALSE)
  <2>1. t \in given
    BY <1>2 DEF CancelAsked, Calls, BInv, BrowserTypeOK
  <2>2. t \in conv /\ t \in active /\ Opened(t) /\ life[t] > 0 /\ active' = active /\ foreign' = foreign
    BY <1>2 DEF CancelAsked, Calls, OnlyLooks, Live, BInv, WInv, RunKeepsConversation
  <2>3. t \in conv'
    BY <2>2, LiveStays
  <2> QED BY <1>2, <2>1, <2>2, <2>3, OneTwo DEF CancelAsked, Advanced
<1>3. ASSUME NEW n \in 1..2, CancelDone(t, journal[t][i], n) PROVE Advanced(t, n, TRUE)
  <2>1. t \in given
    BY <1>3 DEF CancelDone, BInv, BrowserTypeOK
  <2> QED BY <1>3, <2>1, WithdrawStep DEF CancelDone
<1> QED BY <1>1, <1>2, <1>3

LEMMA CancelStep ==
    ASSUME BInv, NEW t \in Tokens, CancelRun(t)
    PROVE  Frame /\ (Kept \/ Advances(t))
<1>1. Frame
  BY DEF CancelRun, Frame, Sending
<1>2. PICK i \in DOMAIN journal[t] :
          \/ CancelKnown(t, journal[t][i]) \/ CancelAsked(t, journal[t][i])
          \/ \E n \in 1..2 : CancelDone(t, journal[t][i], n)
  BY CancelCases
<1>3. Kept \/ Advanced(t, 1, FALSE) \/ \E n \in 1..2 : Advanced(t, n, TRUE)
  BY <1>2, CancelMoves
<1> QED BY <1>1, <1>3, OneTwo DEF Advances

LEMMA TabStep ==
    ASSUME BInv, NEW t \in Tokens, TabActs(t), ~ StartSession(t)
    PROVE  Frame /\ (Kept \/ Advances(t))
<1>1. CASE Receive(t)
  BY <1>1 DEF Receive, Watches, Reads, Calls, OnlyLooks, Frame, Sending, Kept
<1>2. CASE Recheck(t)
  <2>1. pending' \subseteq pending
    BY <1>2 DEF Recheck
  <2> QED BY <1>2, <2>1 DEF Recheck, Watches, Reads, Calls, OnlyLooks, Frame, Sending, Kept
<1>3. CASE LoseAccess(t)
  BY <1>3 DEF LoseAccess, Forget, Refused, Watches, Reads, Calls, OnlyLooks, Frame, Sending, Kept
<1>4. CASE ResumeRequest(t)
  BY <1>4 DEF ResumeRequest, Resumed, Calls, OnlyLooks, Frame, Sending, Kept
<1>5. CASE ResumeLatest(t)
  BY <1>5 DEF ResumeLatest, Reads, Calls, OnlyLooks, Frame, Sending, Kept
<1>6. CASE ResumeExpired(t)
  BY <1>6 DEF ResumeExpired, Forget, Reads, Calls, OnlyLooks, Frame, Sending, Kept
<1>7. CASE CancelRun(t)
  BY <1>7, CancelStep
<1> QED BY <1>1, <1>2, <1>3, <1>4, <1>5, <1>6, <1>7 DEF TabActs

LEMMA QuietStep ==
    ASSUME BInv, GiveUp \/ Reload \/ CancelFails \/ CancelAnswered \/ UNCHANGED browser
    PROVE  Frame /\ Kept
<1>1. UNCHANGED <<vars, journal, foreign>>
  BY DEF GiveUp, Reload, CancelFails, CancelAnswered, browser
<1>2. drawn' = drawn /\ given' = given /\ posts' = posts /\ pending' \subseteq pending
  BY DEF GiveUp, Reload, CancelFails, CancelAnswered, browser, tab
<1> QED BY <1>1, <1>2, StillStep DEF Frame, Sending

LEMMA Steps ==
    ASSUME BInv, [BrowserNext]_browser
    PROVE  \/ Frame /\ JournalStep
           \/ \E t \in Tokens : StartSession(t)
           \/ \E e \in 0..MaxAsks : Ask(e)
<1>1. CASE Serve
  BY <1>1, ServeStep DEF JournalStep
<1>2. CASE \E t \in Tokens : Elsewhere(t) \/ RunWrites(t) \/ RunSettles(t)
  BY <1>2, RunStep DEF JournalStep
<1>3. CASE \E t \in Tokens : TabActs(t)
  BY <1>3, TabStep DEF JournalStep
<1>4. CASE \E q \in posts : Deliver(q)
  BY <1>4, DeliverStep DEF JournalStep
<1>5. CASE GiveUp \/ Reload \/ CancelFails \/ CancelAnswered \/ UNCHANGED browser
  BY <1>5, QuietStep DEF JournalStep
<1> QED BY <1>1, <1>2, <1>3, <1>4, <1>5 DEF BrowserNext
-----------------------------------------------------------------------------
(* The journal evolves, or admits a request.                               *)
LEMMA KeptGrows ==
    ASSUME BInv, WInv', Frame, Kept \/ \E u \in Tokens : Abroad(u)
    PROVE  Grows /\ \A t \in given : Activity(t)'
<1>1. journal' = Cascaded /\ journal \in Logs
  BY DEF Kept, Abroad, BInv, BrowserTypeOK, Logs
<1>2. journal' \in Logs
  BY <1>1, CascadedFacts
<1>3. ASSUME NEW t \in Tokens
      PROVE  Gone(t) \/ (t \in conv' /\ journal'[t] = journal[t])
  BY <1>1, CascadedFacts DEF Gone
<1>4. ASSUME NEW t \in Tokens, t \in conv', journal'[t] = journal[t]
      PROVE  Stays(t)
  BY <1>1, <1>4, EvolvesSame DEF Stays, Logs
<1>5. ASSUME NEW t \in given
      PROVE  Activity(t)'
  <2>1. t \in Tokens /\ LogOf(t)
    BY DEF BInv, BrowserTypeOK, LogInv
  <2>2. t \in active' <=> t \in active
    BY DEF Kept, Abroad
  <2>3. t \in active' => t \in conv'
    BY DEF WInv, RunKeepsConversation
  <2>4. CASE Gone(t)
    BY <2>2, <2>3, <2>4 DEF Gone, Activity
  <2>5. CASE t \in conv' /\ journal'[t] = journal[t]
    BY <2>1, <2>2, <2>5 DEF LogOf, Activity, Last
  <2> QED BY <1>3, <2>1, <2>4, <2>5
<1> QED BY <1>2, <1>3, <1>4, <1>5 DEF Grows

LEMMA RestartedGrows ==
    ASSUME BInv, Restarted
    PROVE  Grows /\ \A t \in given : Activity(t)'
<1>1. journal \in Logs /\ \A t \in Tokens : journal[t] \in Seq(Runs)
  BY DEF BInv, BrowserTypeOK, Logs
<1>2. ASSUME NEW t \in Tokens
      PROVE  /\ journal'[t] = Interrupted(journal[t])
             /\ journal'[t] \in Seq(Runs) /\ Evolves(journal[t], journal'[t])
             /\ \A i \in DOMAIN journal'[t] : journal'[t][i].settled
  <2>1. journal'[t] = Interrupted(journal[t])
    BY DEF Restarted
  <2> QED BY <1>1, <2>1, InterruptedFacts
<1>3. journal' \in Logs
  BY <1>2 DEF Restarted, Logs
<1>4. ASSUME NEW t \in Tokens
      PROVE  Gone(t) \/ Stays(t)
  <2>1. CASE t \in conv
    BY <1>2, <2>1 DEF Stays, Restarted
  <2>2. CASE t \notin conv
    <3>1. Len(journal[t]) = 0
      BY <2>2 DEF BInv, LogInv, LogOf
    <3>2. Len(journal'[t]) = 0
      BY <1>2, <3>1 DEF Evolves
    <3>3. journal'[t] = << >>
      BY <1>2, <3>2
    <3> QED BY <2>2, <3>3 DEF Gone, Restarted
  <2> QED BY <2>1, <2>2
<1>5. ASSUME NEW t \in given
      PROVE  Activity(t)'
  <2>1. t \in Tokens /\ t \notin active'
    BY DEF BInv, BrowserTypeOK, Restarted
  <2> QED BY <1>2, <2>1 DEF Activity
<1> QED BY <1>3, <1>4, <1>5 DEF Grows

LEMMA AdvancedGrows ==
    ASSUME BInv, WInv', NEW u \in Tokens, NEW e \in 1..2, NEW settled \in BOOLEAN,
           Advanced(u, e, settled)
    PROVE  /\ Grows /\ \A t \in given : Activity(t)'
           /\ LET n == Len(journal[u])
              IN  journal'[u][n].events = journal[u][n].events + e
<1> DEFINE n == Len(journal[u])
<1>1. journal \in Logs /\ \A t \in Tokens : journal[t] \in Seq(Runs)
  BY DEF BInv, BrowserTypeOK, Logs
<1>2. /\ Cascaded \in Logs /\ Cascaded[u] = journal[u]
      /\ \A t \in Tokens : t \in conv' => Cascaded[t] = journal[t]
      /\ \A t \in Tokens : t \notin conv' => Cascaded[t] = << >>
  BY <1>1, CascadedFacts DEF Advanced
<1>3. journal[u] # << >> /\ ~ journal[u][n].settled
  BY DEF BInv, LogInv, LogOf, Activity, Last, Advanced
<1>4. journal' = Written(Cascaded, u, n, e, settled)
  BY DEF Advanced, Log, Written
<1>5. /\ journal' \in Logs
      /\ \A t \in Tokens \ {u} : journal'[t] = Cascaded[t]
      /\ Evolves(journal[u], journal'[u])
      /\ \A i \in 1..n : i # n => journal'[u][i] = journal[u][i]
      /\ journal'[u][n].settled = settled /\ journal'[u][n].events = journal[u][n].events + e
  <2>1. Cascaded[u] # << >> /\ n = Len(Cascaded[u]) /\ ~ Cascaded[u][n].settled
    BY <1>2, <1>3
  <2> HIDE DEF n
  <2>2. /\ journal' \in Logs
        /\ \A t \in Tokens \ {u} : journal'[t] = Cascaded[t]
        /\ Evolves(Cascaded[u], journal'[u])
        /\ \A i \in 1..n : i # n => journal'[u][i] = Cascaded[u][i]
        /\ journal'[u][n].settled = settled /\ journal'[u][n].events = Cascaded[u][n].events + e
    <3>1. WrittenFacts(Cascaded, journal', u, n, e, settled)
      BY <1>2, <1>4, <2>1, LogFacts
    <3> QED BY <3>1 DEF WrittenFacts
  <2> QED BY <1>2, <2>2
<1>6. ASSUME NEW t \in Tokens \ {u}
      PROVE  Gone(t) \/ (Stays(t) /\ journal'[t] = journal[t])
  BY <1>1, <1>2, <1>5, EvolvesSame DEF Gone, Stays
<1>7. Stays(u)
  BY <1>5 DEF Stays, Advanced
<1>8. ASSUME NEW t \in given, t # u
      PROVE  Activity(t)'
  <2>1. t \in Tokens /\ LogOf(t)
    BY DEF BInv, BrowserTypeOK, LogInv
  <2>2. t \in active' <=> t \in active
    BY <1>8 DEF Advanced
  <2>3. t \in active' => t \in conv'
    BY DEF WInv, RunKeepsConversation
  <2>4. CASE Gone(t)
    BY <2>2, <2>3, <2>4 DEF Gone, Activity
  <2>5. CASE journal'[t] = journal[t]
    BY <2>1, <2>2, <2>5 DEF LogOf, Activity, Last
  <2> QED BY <1>6, <1>8, <2>1, <2>4, <2>5
<1>9. Activity(u)'
  <2>1. n \in Nat \ {0} /\ Len(journal'[u]) = n /\ DOMAIN journal'[u] = 1..n /\ DOMAIN journal[u] = 1..n
    <3>1. journal'[u] \in Seq(Runs)
      BY <1>5 DEF Logs
    <3> QED BY <1>1, <1>3, <1>5, <3>1 DEF Evolves
  <2>2. journal'[u] # << >> /\ Last(u)'.settled = settled
    BY <1>5, <2>1 DEF Last
  <2>3. \A i \in 1..n : i # n => journal'[u][i].settled
    BY <1>5, <2>1 DEF BInv, LogInv, LogOf, Activity, Advanced
  <2>4. u \in active' <=> ~ settled
    BY DEF Advanced
  <2> QED BY <1>5, <2>1, <2>2, <2>3, <2>4 DEF Activity
<1> QED BY <1>5, <1>6, <1>7, <1>8, <1>9 DEF Grows

(* What the journal says of identities survives its evolution.             *)
LEMMA GrowsFacts ==
    ASSUME journal \in Logs, Grows, NEW t \in Tokens, NEW i \in DOMAIN journal'[t]
    PROVE  /\ t \in conv' /\ i \in DOMAIN journal[t] /\ journal[t] # << >>
           /\ Moves(journal[t][i], journal'[t][i])
           /\ journal[t][i] \in Runs /\ journal'[t][i] \in Runs
<1>1. journal[t] \in Seq(Runs) /\ journal'[t] \in Seq(Runs)
  BY DEF Grows, Logs
<1>2. ~ Gone(t)
  BY DEF Gone
<1>3. Stays(t)
  BY <1>2 DEF Grows
<1> QED BY <1>1, <1>3 DEF Stays, Evolves

(* A token that was handed out does not get a conversation again.          *)
LEMMA TokensAreNotReused ==
    ASSUME [Next]_vars
    PROVE  issued \subseteq issued' /\ \A t \in issued : t \in conv' => t \in conv
<1> USE DEF database, memory, clients, Lookup, PrunedConv
<1>1. CASE UNCHANGED vars
  BY <1>1 DEF vars
<1>2. CASE PruneFails \/ Tick \/ Crash
  BY <1>2 DEF PruneFails, Tick, Crash
<1>3. ASSUME NEW t \in Tokens, Create(t) \/ Created(t) \/ Visit(t) \/ LeaseStart(t)
      PROVE  issued \subseteq issued' /\ \A u \in issued : u \in conv' => u \in conv
  BY <1>3 DEF Create, Created, Visit, LeaseStart, Opened, Dropped
<1>4. ASSUME NEW t \in Tokens, LeaseEnd(t) \/ Released(t) \/ Clear(t) \/ Cleared(t)
      PROVE  issued \subseteq issued' /\ \A u \in issued : u \in conv' => u \in conv
  BY <1>4 DEF LeaseEnd, Released, Clear, Cleared
<1>5. ASSUME NEW t \in Tokens, Submit(t) \/ RunEnds(t) \/ Withdraw(t)
      PROVE  issued \subseteq issued' /\ \A u \in issued : u \in conv' => u \in conv
  BY <1>5 DEF Submit, RunEnds, Withdraw, Opened
<1> QED BY <1>1, <1>2, <1>3, <1>4, <1>5 DEF Next, Sessions

LEMMA GrowsLog ==
    ASSUME BInv, Frame, Grows, \A t \in given : Activity(t)',
           active' \subseteq given \cup foreign', issued \subseteq issued'
    PROVE  LogInv'
<1>1. /\ journal \in Logs /\ given' = given /\ drawn' = drawn /\ Sending' \subseteq Sending
      /\ given \subseteq issued' /\ LogInv
  BY DEF BInv, BrowserTypeOK, Logs, Frame, LogInv
<1>2. \A t \in Tokens : \A i \in DOMAIN journal'[t] :
        /\ t \in conv' /\ i \in DOMAIN journal[t] /\ journal[t] # << >>
        /\ journal'[t][i].id = journal[t][i].id
        /\ journal'[t][i].ask = journal[t][i].ask
  BY <1>1, GrowsFacts DEF Moves
<1>3. ASSUME NEW t \in Tokens
      PROVE  LogOf(t)'
  <2>1. LogOf(t)
    BY <1>1 DEF LogInv
  <2>2. CASE journal'[t] = << >>
    <3>1. DOMAIN journal'[t] = {}
      BY <2>2
    <3> QED BY <1>1, <2>2, <3>1 DEF LogOf
  <2>3. CASE journal'[t] # << >>
    <3>1. journal'[t] \in Seq(Runs)
      BY DEF Grows, Logs
    <3>2. 1 \in DOMAIN journal'[t]
      BY <2>3, <3>1
    <3>3. t \in conv' /\ t \in given'
      BY <1>1, <1>2, <2>1, <3>2 DEF LogOf
    <3>4. \A i \in DOMAIN journal'[t] :
            journal'[t][i].id = journal'[t][i].ask /\ journal'[t][i].ask <= drawn'
      BY <1>1, <1>2, <2>1 DEF LogOf
    <3> QED BY <1>1, <3>3, <3>4 DEF LogOf
  <2> QED BY <2>2, <2>3
<1>4. ASSUME NEW q \in Sending'
      PROVE  Sent(q)'
  <2>1. q \in Sending /\ Sent(q)
    BY <1>1 DEF LogInv
  <2> QED BY <1>1, <1>2, <2>1 DEF Sent
<1>5. AskedOnce'
  BY <1>1, <1>2 DEF LogInv, AskedOnce
<1> QED BY <1>1, <1>3, <1>4, <1>5 DEF LogInv

(* An accepted request is the only one of its question in the journal.     *)
LEMMA AcceptedFacts ==
    ASSUME BInv, WInv', NEW q \in posts, Accepted(q)
    PROVE  /\ q.token \in Tokens /\ q.token \in given /\ q.token \in conv'
           /\ journal' \in Logs
           /\ journal'[q.token] = Append(journal[q.token], Started(q))
           /\ \A t \in Tokens : \A i \in DOMAIN journal[t] : journal[t][i].ask # q.ask
           /\ \A t \in Tokens : t # q.token => Gone(t) \/ (t \in conv' /\ journal'[t] = journal[t])
<1>1. q \in Requests /\ q.token \in Tokens /\ Sent(q) /\ journal \in Logs
  BY DEF BInv, LogInv, BrowserTypeOK, Requests, Sending, Logs
<1>2. q.token \in conv'
  BY DEF WInv, RunKeepsConversation, Accepted
<1>3. /\ Cascaded \in Logs /\ Cascaded[q.token] = journal[q.token]
      /\ \A t \in Tokens : t \in conv' => Cascaded[t] = journal[t]
      /\ \A t \in Tokens : t \notin conv' => Cascaded[t] = << >>
  BY <1>1, <1>2, CascadedFacts
<1>4. Started(q) \in Runs
  BY <1>1 DEF Started, Requests, Runs
<1>5. Append(journal[q.token], Started(q)) \in Seq(Runs)
  BY <1>1, <1>4 DEF Logs
<1>6. journal' = [Cascaded EXCEPT ![q.token] = Append(journal[q.token], Started(q))]
  BY <1>3 DEF Accepted
<1>7. /\ journal' \in Logs
      /\ journal'[q.token] = Append(journal[q.token], Started(q))
      /\ \A t \in Tokens : t # q.token => journal'[t] = Cascaded[t]
  BY <1>1, <1>3, <1>5, <1>6 DEF Logs
<1>8. ASSUME NEW t \in Tokens, NEW i \in DOMAIN journal[t], journal[t][i].ask = q.ask
      PROVE  FALSE
  <2>1. t = q.token
    BY <1>1, <1>8 DEF Sent
  <2>2. journal[t][i].id = q.id
    BY <1>1, <1>8 DEF BInv, LogInv, LogOf, Sent
  <2>3. i \in Admitted(q)
    BY <1>8, <2>1, <2>2 DEF Admitted
  <2> QED BY <2>3 DEF Accepted
<1>9. q.token \in given
  BY <1>1 DEF Sent
<1>10. \A t \in Tokens : t # q.token => Gone(t) \/ (t \in conv' /\ journal'[t] = journal[t])
  BY <1>3, <1>7 DEF Gone
<1> QED BY <1>1, <1>2, <1>7, <1>8, <1>9, <1>10

(* Where a run of the journal after an admission comes from.               *)
LEMMA AcceptedRuns ==
    ASSUME BInv, WInv', NEW q \in posts, Accepted(q), NEW t \in Tokens, NEW i \in DOMAIN journal'[t]
    PROVE  /\ t \in conv'
           /\ \/ i \in DOMAIN journal[t] /\ journal'[t][i] = journal[t][i]
              \/ t = q.token /\ i = Len(journal[t]) + 1 /\ journal'[t][i] = Started(q)
<1>1. CASE t = q.token
  <2>1. journal[t] \in Seq(Runs) /\ journal'[t] = Append(journal[t], Started(q)) /\ t \in conv'
    BY <1>1, AcceptedFacts DEF BInv, BrowserTypeOK
  <2>2. i \in 1..Len(journal[t]) + 1
    BY <2>1
  <2> QED BY <1>1, <2>1, <2>2
<1>2. CASE t # q.token
  BY <1>2, AcceptedFacts DEF Gone
<1> QED BY <1>1, <1>2

LEMMA AcceptedLog ==
    ASSUME BInv, WInv', Frame, NEW q \in posts, Accepted(q), issued \subseteq issued'
    PROVE  LogInv'
<1>1. /\ given' = given /\ drawn' = drawn /\ Sending' \subseteq Sending
      /\ given \subseteq issued' /\ LogInv /\ foreign' = foreign
      /\ active' = active \cup {q.token} /\ q.token \notin active
  BY DEF BInv, Frame, LogInv, Accepted
<1>2. q \in Sending /\ Sent(q) /\ Started(q).id = q.id /\ Started(q).ask = q.ask /\ ~ Started(q).settled
  BY <1>1 DEF LogInv, Sending, Started
<1>3. ASSUME NEW t \in Tokens
      PROVE  LogOf(t)'
  <2>1. LogOf(t) /\ journal[t] \in Seq(Runs)
    BY <1>1 DEF LogInv, BInv, BrowserTypeOK
  <2>2. CASE t = q.token
    <3> DEFINE n == Len(journal[t])
    <3>1. /\ journal'[t] = Append(journal[t], Started(q))
          /\ t \in conv' /\ t \in given'
      BY <1>1, <2>2, AcceptedFacts
    <3>2. /\ n \in Nat /\ DOMAIN journal[t] = 1..n
          /\ Len(journal'[t]) = n + 1 /\ DOMAIN journal'[t] = 1..(n + 1)
          /\ journal'[t][n + 1] = Started(q)
          /\ \A i \in 1..n : journal'[t][i] = journal[t][i]
      BY <2>1, <3>1
    <3>3. \A i \in 1..n : journal[t][i].settled
      BY <1>1, <2>1, <2>2, <3>1, <3>2 DEF LogOf, Activity
    <3>4. journal'[t] # << >> /\ Last(t)' = Started(q)
      BY <3>2 DEF Last
    <3>5. t \in active'
      BY <1>1, <2>2
    <3>6. Activity(t)'
      BY <1>2, <3>2, <3>3, <3>4, <3>5 DEF Activity
    <3>7. \A i \in 1..(n + 1) :
            journal'[t][i].id = journal'[t][i].ask /\ journal'[t][i].ask <= drawn'
      BY <1>1, <1>2, <2>1, <3>2 DEF LogOf, Sent
    <3> QED BY <3>1, <3>2, <3>6, <3>7 DEF LogOf
  <2>3. CASE t # q.token /\ Gone(t)
    <3>1. t \notin active'
      BY <2>3 DEF Gone, WInv, RunKeepsConversation
    <3>2. DOMAIN journal'[t] = {}
      BY <2>3 DEF Gone
    <3> QED BY <2>3, <3>1, <3>2 DEF LogOf, Activity, Gone
  <2>4. CASE t # q.token /\ t \in conv' /\ journal'[t] = journal[t]
    <3>1. t \in active' <=> t \in active
      BY <1>1, <2>4
    <3> QED BY <1>1, <2>1, <2>4, <3>1 DEF LogOf, Activity, Last
  <2> QED BY <2>2, <2>3, <2>4, AcceptedFacts
<1>4. ASSUME NEW r \in Sending'
      PROVE  Sent(r)'
  <2>1. r \in Sending /\ Sent(r)
    BY <1>1 DEF LogInv
  <2>2. ASSUME NEW t \in Tokens, NEW i \in DOMAIN journal'[t], journal'[t][i].ask = r.ask
        PROVE  t = r.token
    <3>1. CASE i \in DOMAIN journal[t] /\ journal'[t][i] = journal[t][i]
      BY <2>1, <2>2, <3>1 DEF Sent
    <3>2. CASE t = q.token /\ journal'[t][i] = Started(q)
      BY <1>1, <1>2, <2>1, <2>2, <3>2 DEF LogInv
    <3> QED BY <3>1, <3>2, AcceptedRuns
  <2> QED BY <1>1, <2>1, <2>2 DEF Sent
<1>5. ASSUME NEW t1 \in Tokens, NEW t2 \in Tokens,
             NEW i \in DOMAIN journal'[t1], NEW j \in DOMAIN journal'[t2],
             journal'[t1][i].ask = journal'[t2][j].ask
      PROVE  t1 = t2 /\ i = j
  <2> DEFINE Old(t, k) == k \in DOMAIN journal[t] /\ journal'[t][k] = journal[t][k]
             Added(t, k) == t = q.token /\ k = Len(journal[t]) + 1 /\ journal'[t][k] = Started(q)
  <2>1. (Old(t1, i) \/ Added(t1, i)) /\ (Old(t2, j) \/ Added(t2, j))
    BY AcceptedRuns
  <2>2. \A t \in Tokens : \A k \in DOMAIN journal[t] : journal[t][k].ask # q.ask
    BY AcceptedFacts
  <2>3. CASE Old(t1, i) /\ Old(t2, j)
    BY <1>1, <1>5, <2>3 DEF LogInv, AskedOnce
  <2>4. CASE Added(t1, i) /\ Added(t2, j)
    BY <2>4
  <2> QED BY <1>2, <1>5, <2>1, <2>2, <2>3, <2>4
<1>6. AskedOnce'
  BY <1>5 DEF AskedOnce
<1>7. active' \subseteq given' \cup foreign'
  BY <1>1, AcceptedFacts DEF LogInv
<1> QED BY <1>1, <1>3, <1>4, <1>6, <1>7 DEF LogInv

LEMMA StartLog ==
    ASSUME BInv, NEW t \in Tokens, StartSession(t)
    PROVE  LogInv'
<1>1. /\ given' = given \cup {t} /\ t \in conv /\ t \notin given /\ t \notin foreign
      /\ Sending' = Sending
      /\ UNCHANGED <<journal, foreign, drawn, conv, active, issued>>
  BY DEF StartSession, vars, database, clients, Sending
<1>2. t \in issued /\ t \notin active /\ journal[t] = << >>
  BY <1>1 DEF BInv, WInv, Issued, LogInv, LogOf
<1>3. ASSUME NEW u \in Tokens
      PROVE  LogOf(u)'
  <2>1. CASE u = t
    <3>1. DOMAIN journal[t] = {}
      BY <1>2
    <3> QED BY <1>1, <1>2, <2>1, <3>1 DEF LogOf, Activity
  <2>2. CASE u # t
    BY <1>1, <2>2 DEF BInv, LogInv, LogOf, Activity, Last
  <2> QED BY <2>1, <2>2
<1>4. \A q \in Sending' : Sent(q)'
  BY <1>1 DEF BInv, LogInv, Sent
<1> QED BY <1>1, <1>2, <1>3, <1>4 DEF BInv, LogInv, AskedOnce

LEMMA AskLog ==
    ASSUME BInv, NEW e \in 0..MaxAsks, Ask(e)
    PROVE  LogInv'
<1>1. PICK t \in stored : \E q : 
          /\ q = [token |-> t, ask |-> drawn + 1, id |-> drawn + 1, revision |-> e]
          /\ pending' = {q} /\ posts' = posts \cup {q}
  BY DEF Ask
<1>2. PICK q :
          /\ q.token = t /\ q.ask = drawn + 1 /\ q.id = drawn + 1
          /\ pending' = {q} /\ posts' = posts \cup {q}
  BY <1>1
<1>3. /\ drawn \in Nat /\ drawn' = drawn + 1 /\ t \in given /\ t \in Tokens
      /\ UNCHANGED <<journal, foreign, given, conv, active, issued>>
      /\ Sending' \subseteq Sending \cup {q} /\ LogInv
      /\ \A u \in Tokens : journal[u] \in Seq(Runs)
      /\ Sending \subseteq Requests
  BY <1>2 DEF Ask, vars, database, clients, Sending, BInv, BrowserTypeOK
<1>4. \A u \in Tokens : \A i \in DOMAIN journal[u] :
          journal[u][i].ask \in Nat /\ journal[u][i].ask <= drawn
  <2>1. ASSUME NEW u \in Tokens, NEW i \in DOMAIN journal[u]
        PROVE  journal[u][i] \in Runs /\ journal[u][i].ask <= drawn
    BY <1>3 DEF LogInv, LogOf
  <2> QED BY <2>1 DEF Runs
<1>5. \A r \in Sending : r.ask \in Nat /\ r.ask <= drawn
  BY <1>3 DEF LogInv, Sent, Requests
<1>6. ASSUME NEW u \in Tokens
      PROVE  LogOf(u)'
  <2>1. \A i \in DOMAIN journal[u] : journal[u][i].ask <= drawn + 1
    BY <1>3, <1>4
  <2> QED BY <1>3, <2>1 DEF LogInv, LogOf, Activity, Last
<1>7. Sent(q)'
  BY <1>2, <1>3, <1>4 DEF Sent
<1>8. ASSUME NEW r \in Sending
      PROVE  Sent(r)'
  BY <1>3, <1>5 DEF LogInv, Sent
<1>9. \A r1, r2 \in Sending \cup {q} : r1.ask = r2.ask => r1.token = r2.token
  BY <1>2, <1>3, <1>5 DEF LogInv
<1> QED BY <1>3, <1>6, <1>7, <1>8, <1>9 DEF LogInv, AskedOnce

LEMMA LogInvNext ==
    ASSUME BInv, WInv', [Next]_vars, [BrowserNext]_browser
    PROVE  LogInv'
<1>1. issued \subseteq issued'
  BY TokensAreNotReused
<1>2. CASE Frame /\ (Kept \/ \E t \in Tokens : Abroad(t))
  <2>1. active' \subseteq given \cup foreign'
    BY <1>2 DEF BInv, LogInv, Kept, Abroad
  <2> QED BY <1>1, <1>2, <2>1, KeptGrows, GrowsLog
<1>3. CASE Frame /\ Restarted
  BY <1>1, <1>3, RestartedGrows, GrowsLog DEF Restarted
<1>4. CASE Frame /\ \E t \in Tokens : Advances(t)
  <2>1. PICK t \in Tokens, e \in 1..2, settled \in BOOLEAN : Advanced(t, e, settled)
    BY <1>4 DEF Advances
  <2>2. active' \subseteq given \cup foreign'
    BY <2>1 DEF BInv, LogInv, Advanced
  <2> QED BY <1>1, <1>4, <2>1, <2>2, AdvancedGrows, GrowsLog
<1>5. CASE Frame /\ \E q \in posts : Accepted(q)
  BY <1>1, <1>5, AcceptedLog
<1> QED BY <1>2, <1>3, <1>4, <1>5, Steps, StartLog, AskLog DEF JournalStep
-----------------------------------------------------------------------------
(* Types of the tab's own state.                                           *)
Single(S) == \A x, y \in S : x = y

TabTypes ==
    /\ stored \subseteq given
    /\ page \in {"blank", "open"} /\ call \in {"none", "submit", "watch"}
    /\ current \subseteq Views /\ shown \subseteq Views /\ stale \subseteq Views
    /\ current # {} <=> call = "watch"
    /\ Single(stored) /\ Single(pending) /\ Single(current) /\ Single(shown) /\ Single(stale)

LEMMA SnapshotFacts ==
    ASSUME NEW r \in Runs
    PROVE  /\ Snapshot(r) \in Views
           /\ Snapshot(r).id = r.id /\ Snapshot(r).events = r.events /\ Snapshot(r).settled = r.settled
           /\ Tells(Snapshot(r), r)
BY DEF Snapshot, Runs, Views, Tells

LEMMA FollowTypes ==
    ASSUME BInv, NEW r \in Runs, Follow(r)
    PROVE  TabTypes'
BY SnapshotFacts DEF BInv, BrowserTypeOK, TabTypes, Follow, Show, Single

LEMMA StartedRun ==
    ASSUME BInv, NEW q \in posts
    PROVE  Started(q) \in Runs /\ q.token \in Tokens
<1>1. q \in Requests
  BY DEF BInv, BrowserTypeOK
<1> QED BY <1>1 DEF Started, Requests, Runs

LEMMA RunsTyped ==
    ASSUME BInv, NEW t \in Tokens, NEW i \in DOMAIN journal[t]
    PROVE  journal[t][i] \in Runs
<1>1. journal[t] \in Seq(Runs)
  BY DEF BInv, BrowserTypeOK
<1> QED BY <1>1

LEMMA DeliverTypes ==
    ASSUME BInv, NEW q \in posts, Deliver(q)
    PROVE  TabTypes'
<1>1. CASE UNCHANGED tab
  BY <1>1 DEF tab, BInv, BrowserTypeOK, TabTypes, Single
<1>2. CASE Refused \/ Forget
  BY <1>2 DEF Refused, Forget, Stop, BInv, BrowserTypeOK, TabTypes, Single
<1>3. CASE Follow(Started(q))
  BY <1>3, StartedRun, FollowTypes
<1>4. CASE \E i \in Admitted(q) : Follow(journal[q.token][i])
  BY <1>4, StartedRun, RunsTyped, FollowTypes DEF Admitted
<1> QED BY <1>1, <1>2, <1>3, <1>4 DEF Deliver, Accept, Repeat, Deny

LEMMA NextView ==
    ASSUME NEW s \in Views, NEW e \in 1..2, NEW b \in BOOLEAN, NEW n, n = Bumped(s, e, b)
    PROVE  n \in Views /\ n.id = s.id /\ n.events = s.events + e /\ n.settled = b
<1>1. /\ s.id \in Nat /\ s.events \in Nat
      /\ s = [id |-> s.id, events |-> s.events, settled |-> s.settled]
  BY DEF Views
<1>2. n = [id |-> s.id, events |-> s.events + e, settled |-> b]
  BY <1>1 DEF Bumped
<1> QED BY <1>1, <1>2 DEF Views

LEMMA TabActTypes ==
    ASSUME BInv, NEW t \in Tokens, TabActs(t)
    PROVE  TabTypes'
<1>1. TabTypes /\ \A i \in DOMAIN journal[t] : journal[t][i] \in Runs
  BY RunsTyped DEF BInv, BrowserTypeOK, TabTypes, Single
<1>2. CASE StartSession(t)
  BY <1>1, <1>2 DEF StartSession, TabTypes, Single
<1>3. CASE Receive(t)
  <2>1. PICK s \in current : \E i \in RunShown(t, s) :
            Show(Bumped(s, 1, journal[t][i].settled /\ s.events + 1 = journal[t][i].events))
    BY <1>3 DEF Receive, Bumped
  <2>2. PICK i \in RunShown(t, s) :
            Show(Bumped(s, 1, journal[t][i].settled /\ s.events + 1 = journal[t][i].events))
    BY <2>1
  <2>3. s \in Views /\ (journal[t][i].settled /\ s.events + 1 = journal[t][i].events) \in BOOLEAN
    BY <1>1 DEF TabTypes
  <2>4. PICK n \in Views : Show(n)
    BY <2>2, <2>3, NextView, OneTwo
  <2>5. current' = {n} /\ shown' = {n} /\ call = "watch"
    BY <1>3, <2>4 DEF Show, Receive, Watches
  <2> QED BY <1>1, <1>3, <2>5 DEF Receive, TabTypes, Single
<1>4. CASE Recheck(t)
  <2>1. PICK r \in Runs :
            /\ shown' = {Snapshot(r)}
            /\ IF r.settled THEN pending' = {} /\ Stop
               ELSE current' = {Snapshot(r)} /\ UNCHANGED <<pending, call>>
    BY <1>1, <1>4 DEF Recheck, RunShown
  <2>2. call = "watch"
    BY <1>4 DEF Recheck, Watches
  <2> QED BY <1>1, <1>4, <2>1, <2>2, SnapshotFacts DEF Recheck, Stop, TabTypes, Single
<1>5. CASE LoseAccess(t) \/ ResumeExpired(t)
  BY <1>1, <1>5 DEF LoseAccess, ResumeExpired, Forget, Refused, Stop, TabTypes, Single
<1>6. CASE ResumeRequest(t)
  <2>1. current = {}
    BY <1>1, <1>6 DEF ResumeRequest, Idling, TabTypes
  <2>2. Single(pending') /\ call' = "submit" /\ page' = "open"
    BY <1>6 DEF ResumeRequest, Single
  <2> QED BY <1>1, <1>6, <2>1, <2>2 DEF ResumeRequest, TabTypes, Single
<1>7. CASE ResumeLatest(t)
  <2>1. pending' = {} /\ page' = "open" /\ stored' = stored /\ given' = given /\ stale' = stale
    BY <1>7 DEF ResumeLatest
  <2>2. CASE journal[t] = << >>
    BY <1>1, <1>7, <2>1, <2>2 DEF ResumeLatest, TabTypes, Single
  <2>3. CASE journal[t] # << >>
    <3>1. journal[t] \in Seq(Runs)
      BY DEF BInv, BrowserTypeOK
    <3>2. Last(t) \in Runs
      BY <2>3, <3>1 DEF Last
    <3>3. Show(Snapshot(Last(t))) /\ call' = "watch"
      BY <1>7, <2>3 DEF ResumeLatest
    <3> QED BY <1>1, <2>1, <3>2, <3>3, SnapshotFacts DEF Show, TabTypes, Single
  <2> QED BY <2>2, <2>3
<1>8. CASE CancelRun(t)
  <2>1. PICK r \in Runs :
            \/ stale' = {Snapshot(r)} \/ stale' = {[Snapshot(r) EXCEPT !.events = @ + 1]}
            \/ \E n \in 1..2 : stale' = {[Snapshot(r) EXCEPT !.events = @ + n, !.settled = TRUE]}
    BY <1>1, <1>8 DEF CancelRun, RunShown
  <2>2. /\ [Snapshot(r) EXCEPT !.events = @ + 1] \in Views /\ Snapshot(r) \in Views
        /\ \A n \in 1..2 : [Snapshot(r) EXCEPT !.events = @ + n, !.settled = TRUE] \in Views
    <3>1. ASSUME NEW v \in Views
          PROVE  [v EXCEPT !.events = @ + 1] \in Views /\ \A n \in 1..2 : Bumped(v, n, TRUE) \in Views
      <4>1. [v EXCEPT !.events = @ + 1] \in Views
        BY DEF Views
      <4> QED BY <4>1, NextView
    <3>2. Snapshot(r) \in Views
      BY SnapshotFacts
    <3> QED BY <3>1, <3>2 DEF Bumped
  <2>3. stale' \subseteq Views /\ Single(stale')
    BY <2>1, <2>2 DEF Single
  <2> QED BY <1>1, <1>8, <2>3 DEF CancelRun, TabTypes, Single
<1> QED BY <1>2, <1>3, <1>4, <1>5, <1>6, <1>7, <1>8 DEF TabActs

LEMMA TabTypesNext ==
    ASSUME BInv, [BrowserNext]_browser
    PROVE  TabTypes'
<1>1. TabTypes
  BY DEF BInv, BrowserTypeOK, TabTypes, Single
<1>2. CASE UNCHANGED tab
  BY <1>1, <1>2 DEF tab, TabTypes, Single
<1>3. CASE \E t \in Tokens : TabActs(t)
  BY <1>3, TabActTypes
<1>4. CASE \E e \in 0..MaxAsks : Ask(e)
  <2>1. current = {}
    BY <1>1, <1>4 DEF Ask, Ready, Idling, TabTypes
  <2>2. Single(pending') /\ call' = "submit"
    BY <1>4 DEF Ask, Single
  <2> QED BY <1>1, <1>4, <2>1, <2>2 DEF Ask, TabTypes, Single
<1>5. CASE \E q \in posts : Deliver(q)
  BY <1>5, DeliverTypes
<1>6. CASE GiveUp \/ Reload \/ CancelFails
  BY <1>1, <1>6 DEF GiveUp, Reload, CancelFails, Stop, TabTypes, Single
<1>7. CASE CancelAnswered
  BY <1>1, <1>7 DEF CancelAnswered, TabTypes, Single
<1> QED BY <1>2, <1>3, <1>4, <1>5, <1>6, <1>7
        DEF BrowserNext, browser, Serve, Elsewhere, RunWrites, RunSettles

LEMMA BrowserTypesNext ==
    ASSUME BInv, WInv', [BrowserNext]_browser
    PROVE  BrowserTypeOK'
<1>1. TypeOK' /\ TabTypes'
  BY TabTypesNext DEF WInv
<1>2. CASE Frame /\ JournalStep
  <2>1. journal' \in Logs
    BY <1>2, KeptGrows, RestartedGrows, AdvancedGrows, AcceptedFacts DEF JournalStep, Advances, Grows
  <2>2. /\ posts' \subseteq Requests /\ pending' \subseteq Requests
        /\ drawn' \in 0..MaxAsks
    BY <1>2 DEF Frame, Sending, BInv, BrowserTypeOK
  <2>3. given' \subseteq Tokens \ foreign'
    BY <1>2 DEF Frame, JournalStep, Kept, Restarted, Advances, Advanced, Abroad, Accepted, BInv, BrowserTypeOK
  <2> QED BY <1>1, <2>1, <2>2, <2>3 DEF TabTypes, Single, BrowserTypeOK, Logs
<1>3. CASE \E t \in Tokens : StartSession(t)
  <2>1. /\ UNCHANGED <<journal, posts, pending, drawn>>
        /\ given' \subseteq Tokens \ foreign'
    BY <1>3 DEF StartSession, BInv, BrowserTypeOK
  <2> QED BY <1>1, <2>1 DEF TabTypes, Single, BInv, BrowserTypeOK
<1>4. CASE \E e \in 0..MaxAsks : Ask(e)
  <2>1. PICK e \in 0..MaxAsks : Ask(e)
    BY <1>4
  <2>2. PICK t \in stored :
            /\ pending' = {[token |-> t, ask |-> drawn + 1, id |-> drawn + 1, revision |-> e]}
            /\ posts' = posts \cup {[token |-> t, ask |-> drawn + 1, id |-> drawn + 1, revision |-> e]}
    BY <2>1 DEF Ask
  <2>3. drawn' \in 0..MaxAsks /\ drawn + 1 \in 1..MaxAsks /\ drawn + 1 \in Nat /\ t \in Tokens
    BY <2>1, BrowserAssumption DEF Ask, BInv, BrowserTypeOK
  <2>4. [token |-> t, ask |-> drawn + 1, id |-> drawn + 1, revision |-> e] \in Requests
    BY <2>3 DEF Requests
  <2>5. posts' \subseteq Requests /\ pending' \subseteq Requests
    BY <2>2, <2>4 DEF BInv, BrowserTypeOK
  <2>6. UNCHANGED <<journal, given, foreign>>
    BY <2>1 DEF Ask
  <2> QED BY <1>1, <2>3, <2>5, <2>6 DEF TabTypes, Single, BInv, BrowserTypeOK
<1> QED BY <1>2, <1>3, <1>4, Steps
-----------------------------------------------------------------------------
(* What the tab newly shows it has from the journal.                       *)
Learned(s) == \E t \in Tokens : \E i \in DOMAIN journal'[t] : Tells(s, journal'[t][i])

LEMMA LearnedKept ==
    ASSUME BInv, journal' = Cascaded, NEW t \in Tokens, t \in conv',
           NEW i \in DOMAIN journal[t], NEW s, Tells(s, journal[t][i])
    PROVE  Learned(s)
<1>1. journal'[t] = journal[t]
  BY CascadedFacts DEF BInv, BrowserTypeOK, Logs
<1> QED BY <1>1 DEF Learned

LEMMA HasConversation ==
    ASSUME BInv, NEW t \in Tokens, NEW i \in DOMAIN journal[t], Opened(t), Live(t)
    PROVE  t \in conv'
<1>1. journal[t] # << >>
  OBVIOUS
<1>2. t \in conv
  BY <1>1 DEF BInv, LogInv, LogOf
<1> QED BY <1>2, LiveStays DEF Live

LEMMA DeliverLearns ==
    ASSUME BInv, WInv', NEW q \in posts, Deliver(q)
    PROVE  \A s \in Seen' : s \in Seen \/ Learned(s)
<1>1. CASE UNCHANGED tab \/ Refused \/ Forget
  BY <1>1 DEF tab, Refused, Forget, Stop, Seen
<1>2. ASSUME NEW r, Follow(r)
      PROVE  \A s \in Seen' : s \in Seen \/ s = Snapshot(r)
  BY <1>2 DEF Follow, Show, Seen
<1>3. CASE Accept(q) /\ Follow(Started(q))
  <2>1. Accepted(q)
    BY <1>3 DEF Accept, Submit, Accepted, Deliver
  <2>2. q.token \in Tokens /\ journal'[q.token] = Append(journal[q.token], Started(q))
    BY <2>1, AcceptedFacts
  <2>3. journal[q.token] \in Seq(Runs)
    BY <2>2 DEF BInv, BrowserTypeOK
  <2>4. /\ Len(journal[q.token]) + 1 \in DOMAIN journal'[q.token]
        /\ journal'[q.token][Len(journal[q.token]) + 1] = Started(q)
    BY <2>2, <2>3, StartedRun
  <2>5. Tells(Snapshot(Started(q)), Started(q))
    BY StartedRun, SnapshotFacts
  <2>6. Learned(Snapshot(Started(q)))
    BY <2>2, <2>4, <2>5 DEF Learned
  <2> QED BY <1>2, <1>3, <2>6
<1>4. CASE Repeat(q) /\ \E i \in Admitted(q) : Follow(journal[q.token][i])
  <2>1. PICK i \in Admitted(q) : Follow(journal[q.token][i])
    BY <1>4
  <2>2. i \in DOMAIN journal[q.token] /\ q.token \in Tokens
    BY StartedRun DEF Admitted
  <2>3. journal' = Cascaded /\ Opened(q.token) /\ Live(q.token)
    BY <1>4 DEF Repeat
  <2>4. Tells(Snapshot(journal[q.token][i]), journal[q.token][i])
    BY <2>2, RunsTyped, SnapshotFacts
  <2>5. Learned(Snapshot(journal[q.token][i]))
    BY <2>2, <2>3, <2>4, HasConversation, LearnedKept
  <2> QED BY <1>2, <2>1, <2>5
<1> QED BY <1>1, <1>3, <1>4 DEF Deliver, Accept, Repeat, Deny

LEMMA ReceiveLearns ==
    ASSUME BInv, NEW t \in Tokens, Receive(t)
    PROVE  \A s \in Seen' : s \in Seen \/ Learned(s)
<1>1. PICK s \in current : \E i \in RunShown(t, s) :
          /\ s.events < journal[t][i].events
          /\ Show(Bumped(s, 1, journal[t][i].settled /\ s.events + 1 = journal[t][i].events))
  BY DEF Receive, Bumped
<1>2. PICK i \in RunShown(t, s) :
          /\ s.events < journal[t][i].events
          /\ Show(Bumped(s, 1, journal[t][i].settled /\ s.events + 1 = journal[t][i].events))
  BY <1>1
<1> DEFINE r == journal[t][i]
           b == r.settled /\ s.events + 1 = r.events
           n == Bumped(s, 1, b)
<1>3. /\ s \in Views /\ r \in Runs /\ i \in DOMAIN journal[t]
      /\ journal' = Cascaded /\ t \in conv' /\ stale' = stale
  BY HasConversation, RunsTyped
     DEF BInv, BrowserTypeOK, RunShown, Receive, Watches, Reads, Calls
<1>4. n.id = s.id /\ n.events = s.events + 1 /\ n.settled = b
  <2>1. b \in BOOLEAN
    OBVIOUS
  <2> HIDE DEF b
  <2> QED BY <1>3, <2>1, NextView, OneTwo
<1>5. Tells(s, r)
  BY <1>3 DEF BInv, ViewInv, Seen, RunShown
<1>6. s.events \in Nat /\ r.events \in Nat
  BY <1>3 DEF Views, Runs
<1>7. Tells(n, r)
  <2>1. n.id = r.id /\ n.events <= r.events
    BY <1>2, <1>4, <1>5, <1>6 DEF Tells
  <2>2. n.settled <=> (r.settled /\ n.events = r.events)
    BY <1>4
  <2> HIDE DEF n
  <2> QED BY <2>1, <2>2 DEF Tells
<1>8. Learned(n)
  <2> HIDE DEF n
  <2> QED BY <1>3, <1>7, LearnedKept
<1>9. current' = {n} /\ shown' = {n}
  BY <1>2 DEF Show
<1> HIDE DEF n
<1> QED BY <1>3, <1>8, <1>9 DEF Seen

LEMMA RecheckLearns ==
    ASSUME BInv, NEW t \in Tokens, Recheck(t)
    PROVE  \A s \in Seen' : s \in Seen \/ Learned(s)
<1>1. PICK i \in DOMAIN journal[t] :
          /\ shown' = {Snapshot(journal[t][i])}
          /\ current' = {} \/ current' = {Snapshot(journal[t][i])}
  BY DEF Recheck, RunShown, Stop
<1>2. journal' = Cascaded /\ t \in conv' /\ stale' = stale
  BY HasConversation DEF Recheck, Watches, Reads, Calls
<1>3. Tells(Snapshot(journal[t][i]), journal[t][i])
  BY RunsTyped, SnapshotFacts
<1>4. Learned(Snapshot(journal[t][i]))
  BY <1>2, <1>3, LearnedKept
<1> QED BY <1>1, <1>2, <1>4 DEF Seen

LEMMA LatestLearns ==
    ASSUME BInv, NEW t \in Tokens, ResumeLatest(t)
    PROVE  \A s \in Seen' : s \in Seen \/ Learned(s)
<1>1. CASE journal[t] = << >>
  BY <1>1 DEF ResumeLatest, Seen
<1>2. CASE journal[t] # << >>
  <2> DEFINE i == Len(journal[t])
  <2>1. journal[t] \in Seq(Runs)
    BY DEF BInv, BrowserTypeOK
  <2>2. i \in DOMAIN journal[t] /\ Last(t) = journal[t][i]
    BY <1>2, <2>1 DEF Last
  <2>3. journal' = Cascaded /\ t \in conv' /\ stale' = stale /\ Show(Snapshot(Last(t)))
    BY <1>2, <2>2, HasConversation DEF ResumeLatest, Reads, Calls
  <2>4. Tells(Snapshot(journal[t][i]), journal[t][i])
    BY <2>2, RunsTyped, SnapshotFacts
  <2>5. Learned(Snapshot(Last(t)))
    BY <2>2, <2>3, <2>4, LearnedKept
  <2> QED BY <2>3, <2>5 DEF Show, Seen
<1> QED BY <1>1, <1>2

(* The answer to a cancellation counts the events it appended.             *)
LEMMA CancelLearns ==
    ASSUME BInv, WInv', NEW t \in Tokens, CancelRun(t)
    PROVE  \A s \in Seen' : s \in Seen \/ Learned(s)
<1>1. PICK i \in DOMAIN journal[t] :
          \/ CancelKnown(t, journal[t][i]) \/ CancelAsked(t, journal[t][i])
          \/ \E n \in 1..2 : CancelDone(t, journal[t][i], n)
  BY CancelCases
<1>2. journal[t][i] \in Runs /\ journal[t] \in Seq(Runs)
  BY RunsTyped DEF BInv, BrowserTypeOK
<1>3. current' = current /\ shown' = shown
  BY DEF CancelRun
<1>4. CASE CancelKnown(t, journal[t][i])
  <2>1. Tells(Snapshot(journal[t][i]), journal[t][i])
    BY <1>2, SnapshotFacts
  <2>2. t \in conv' /\ journal' = Cascaded /\ stale' = {Snapshot(journal[t][i])}
    BY <1>2, <1>4, HasConversation DEF CancelKnown, Calls
  <2>3. Learned(Snapshot(journal[t][i]))
    BY <1>2, <2>1, <2>2, LearnedKept
  <2> QED BY <1>3, <2>2, <2>3 DEF Seen
<1>5. ASSUME NEW e \in 1..2, NEW b \in BOOLEAN, Advanced(t, e, b), ~ journal[t][i].settled,
             NEW n, n = Bumped(Snapshot(journal[t][i]), e, b), stale' = {n}
      PROVE  \A q \in Seen' : q \in Seen \/ Learned(q)
  <2> DEFINE r == journal[t][i]
             m == journal'[t][i]
  <2>1. LogOf(t) /\ t \in given /\ t \in conv'
    BY <1>5 DEF BInv, LogInv, Advanced
  <2>2. i = Len(journal[t])
    BY <1>2, <1>5, <2>1 DEF LogOf, Activity
  <2>3. Grows /\ Activity(t)' /\ m.events = r.events + e
    BY <1>5, <2>1, <2>2, AdvancedGrows
  <2>4. Stays(t)
    BY <2>1, <2>3 DEF Grows, Gone
  <2>5. /\ i \in DOMAIN journal'[t] /\ Moves(r, m) /\ i = Len(journal'[t])
        /\ journal'[t] # << >>
    BY <1>2, <2>2, <2>3, <2>4 DEF Stays, Evolves, Grows, Logs
  <2>r. m \in Runs
    <3>1. journal'[t] \in Seq(Runs)
      BY <2>3 DEF Grows, Logs
    <3> QED BY <2>5, <3>1
  <2>6. m.settled = b
    <3>1. t \in active' <=> ~ b
      BY <1>5 DEF Advanced
    <3>2. m.settled \in BOOLEAN
      BY <2>r DEF Runs
    <3> QED BY <2>3, <2>5, <3>1, <3>2 DEF Activity, Last
  <2>7. /\ Snapshot(r) \in Views /\ Snapshot(r).id = r.id /\ Snapshot(r).events = r.events
    BY <1>2, SnapshotFacts
  <2>8. n.id = r.id /\ n.events = r.events + e /\ n.settled = b
    BY <1>5, <2>7, NextView
  <2>9. Tells(n, m)
    <3>1. m.id = r.id
      BY <2>5 DEF Moves
    <3>2. m.events \in Nat
      BY <2>r DEF Runs
    <3> QED BY <2>3, <2>6, <2>8, <3>1, <3>2 DEF Tells
  <2>10. Learned(n)
    BY <2>5, <2>9 DEF Learned
  <2> QED BY <1>3, <1>5, <2>10 DEF Seen
<1>6. CASE CancelAsked(t, journal[t][i])
  <2>1. Advanced(t, 1, FALSE) /\ ~ journal[t][i].settled
    BY <1>2, <1>6, CancelMoves DEF CancelAsked
  <2>2. stale' = {Bumped(Snapshot(journal[t][i]), 1, FALSE)}
    <3>1. ASSUME NEW x \in Views, x.settled = FALSE
          PROVE  [x EXCEPT !.events = @ + 1] = Bumped(x, 1, FALSE)
      BY <3>1 DEF Bumped, Views
    <3>2. Snapshot(journal[t][i]) \in Views /\ Snapshot(journal[t][i]).settled = FALSE
      BY <1>2, <2>1, SnapshotFacts DEF Runs
    <3> QED BY <1>6, <3>1, <3>2 DEF CancelAsked
  <2> QED BY <1>5, <2>1, <2>2, OneTwo
<1>7. ASSUME NEW e \in 1..2, CancelDone(t, journal[t][i], e)
      PROVE  \A s \in Seen' : s \in Seen \/ Learned(s)
  <2>1. Advanced(t, e, TRUE) /\ ~ journal[t][i].settled
    BY <1>2, <1>7, CancelMoves DEF CancelDone
  <2>2. stale' = {Bumped(Snapshot(journal[t][i]), e, TRUE)}
    BY <1>7 DEF CancelDone, Bumped
  <2> QED BY <1>5, <2>1, <2>2
<1> QED BY <1>1, <1>4, <1>6, <1>7

LEMMA SeenOrLearned ==
    ASSUME BInv, WInv', [BrowserNext]_browser
    PROVE  \A s \in Seen' : s \in Seen \/ Learned(s)
<1>1. CASE UNCHANGED tab
  BY <1>1 DEF tab, Seen
<1>2. CASE \E t \in Tokens : StartSession(t) \/ LoseAccess(t) \/ ResumeRequest(t) \/ ResumeExpired(t)
  BY <1>2 DEF StartSession, LoseAccess, ResumeRequest, ResumeExpired, Forget, Refused, Stop, Seen
<1>3. CASE \E e \in 0..MaxAsks : Ask(e)
  BY <1>3 DEF Ask, Seen
<1>4. CASE \E q \in posts : Deliver(q)
  BY <1>4, DeliverLearns
<1>5. CASE GiveUp \/ Reload \/ CancelFails \/ CancelAnswered
  BY <1>5 DEF GiveUp, Reload, CancelFails, CancelAnswered, Stop, Seen
<1> QED BY <1>1, <1>2, <1>3, <1>4, <1>5, ReceiveLearns, RecheckLearns, LatestLearns, CancelLearns
        DEF BrowserNext, browser, Serve, Elsewhere, RunWrites, RunSettles, TabActs
(* A view stays a prefix of the history of a run that moves on.            *)
LEMMA TellsMoves ==
    ASSUME NEW s \in Views, NEW r \in Runs, NEW n \in Runs, Tells(s, r), Moves(r, n)
    PROVE  Tells(s, n)
<1>1. s.events \in Nat /\ r.events \in Nat /\ n.events \in Nat
  BY DEF Views, Runs
<1> QED BY <1>1 DEF Tells, Moves

LEMMA SeenGrows ==
    ASSUME BInv, Frame, Grows, NEW s \in Seen
    PROVE  \A t \in Tokens : \A i \in RunShown(t, s)' : Tells(s, journal'[t][i])
<1>1. ASSUME NEW t \in Tokens, NEW i \in DOMAIN journal'[t], journal'[t][i].id = s.id
      PROVE  Tells(s, journal'[t][i])
  <2>1. /\ i \in DOMAIN journal[t] /\ Moves(journal[t][i], journal'[t][i])
        /\ journal[t][i] \in Runs /\ journal'[t][i] \in Runs
    BY GrowsFacts DEF BInv, BrowserTypeOK, Logs
  <2>2. i \in RunShown(t, s)
    BY <1>1, <2>1 DEF RunShown, Moves
  <2>3. Tells(s, journal[t][i]) /\ s \in Views
    BY <2>2 DEF BInv, ViewInv, BrowserTypeOK, Seen
  <2> QED BY <2>1, <2>3, TellsMoves
<1> QED BY <1>1 DEF RunShown

LEMMA AdmittedGrows ==
    ASSUME BInv, [Next]_vars, Frame, Grows, NEW s \in Seen, NEW q \in Sending',
           s.id = q.id, q.token \in conv'
    PROVE  Admitted(q)' # {}
<1>1. q \in Sending /\ q.token \in given /\ q.token \in Tokens
  BY DEF Frame, BInv, BrowserTypeOK, LogInv, Sent
<1>2. q.token \in conv
  BY <1>1, TokensAreNotReused DEF BInv, LogInv
<1>3. PICK i \in Admitted(q) : TRUE
  BY <1>1, <1>2 DEF BInv, ViewInv
<1>4. Stays(q.token) /\ i \in DOMAIN journal[q.token] /\ journal[q.token][i].id = q.id
  BY <1>1, <1>3 DEF Grows, Gone, Admitted
<1>5. i \in DOMAIN journal'[q.token] /\ journal'[q.token][i].id = q.id
  <2>1. journal[q.token] \in Seq(Runs) /\ journal'[q.token] \in Seq(Runs)
    BY <1>1 DEF BInv, BrowserTypeOK, Grows, Logs
  <2> QED BY <1>4, <2>1 DEF Stays, Evolves, Moves
<1>6. i \in Admitted(q)'
  BY <1>5 DEF Admitted
<1> QED BY <1>6

(* A request whose run the tab has seen is not accepted a second time.     *)
LEMMA SeenAccepted ==
    ASSUME BInv, WInv', NEW q \in posts, Accepted(q), NEW s \in Seen
    PROVE  \A t \in Tokens : \A i \in RunShown(t, s)' : Tells(s, journal'[t][i])
<1>1. s.id # q.id
  BY DEF BInv, ViewInv, Accepted, Sending
<1>2. ASSUME NEW t \in Tokens, NEW i \in DOMAIN journal'[t], journal'[t][i].id = s.id
      PROVE  Tells(s, journal'[t][i])
  <2>1. i \in DOMAIN journal[t] /\ journal'[t][i] = journal[t][i]
    <3>1. Started(q).id = q.id
      BY DEF Started
    <3> QED BY <1>1, <1>2, <3>1, AcceptedRuns
  <2>2. i \in RunShown(t, s)
    BY <1>2, <2>1 DEF RunShown
  <2> QED BY <2>1, <2>2 DEF BInv, ViewInv
<1> QED BY <1>2 DEF RunShown

LEMMA AdmittedAccepted ==
    ASSUME BInv, WInv', [Next]_vars, Frame, NEW p \in posts, Accepted(p),
           NEW s \in Seen, NEW q \in Sending', s.id = q.id, q.token \in conv'
    PROVE  Admitted(q)' # {}
<1>1. q \in Sending /\ q.token \in given /\ q.token \in Tokens
  BY DEF Frame, BInv, BrowserTypeOK, LogInv, Sent
<1>2. q.token \in conv
  BY <1>1, TokensAreNotReused DEF BInv, LogInv
<1>3. PICK i \in Admitted(q) : TRUE
  BY <1>1, <1>2 DEF BInv, ViewInv
<1>4. i \in DOMAIN journal[q.token] /\ journal[q.token][i].id = q.id
  BY <1>3 DEF Admitted
<1>5. i \in DOMAIN journal'[q.token] /\ journal'[q.token][i] = journal[q.token][i]
  <2>1. journal[q.token] \in Seq(Runs)
    BY <1>1 DEF BInv, BrowserTypeOK
  <2>2. CASE q.token = p.token
    <3>1. journal'[q.token] = Append(journal[q.token], Started(p)) /\ Started(p) \in Runs
      BY <2>2, AcceptedFacts, StartedRun
    <3> QED BY <1>4, <2>1, <3>1
  <2>3. CASE q.token # p.token
    BY <1>1, <1>4, <2>3, AcceptedFacts DEF Gone
  <2> QED BY <2>2, <2>3
<1>6. i \in Admitted(q)'
  BY <1>4, <1>5 DEF Admitted
<1> QED BY <1>6

(* What was just learned tells of one run only.                            *)
LEMMA LearnedFacts ==
    ASSUME BrowserTypeOK', LogInv', NEW s, Learned(s)
    PROVE  /\ s.id \in 1..drawn'
           /\ \A t \in Tokens : \A i \in RunShown(t, s)' : Tells(s, journal'[t][i])
           /\ \A q \in Sending' : s.id = q.id => Admitted(q)' # {}
<1>1. PICK t \in Tokens : \E i \in DOMAIN journal'[t] : Tells(s, journal'[t][i])
  BY DEF Learned
<1>2. PICK i \in DOMAIN journal'[t] : Tells(s, journal'[t][i])
  BY <1>1
<1>3. \A u \in Tokens : \A j \in DOMAIN journal'[u] :
          journal'[u][j].id = journal'[u][j].ask /\ journal'[u][j].ask <= drawn'
  BY DEF LogInv, LogOf
<1>4. s.id = journal'[t][i].id
  BY <1>2 DEF Tells
<1>5. s.id \in 1..drawn'
  <2>1. journal'[t] \in Seq(Runs) /\ drawn' \in 0..MaxAsks
    BY DEF BrowserTypeOK
  <2>2. journal'[t][i] \in Runs
    BY <2>1
  <2>3. journal'[t][i].ask \in 1..MaxAsks
    BY <2>2 DEF Runs
  <2> QED BY <1>3, <1>4, <2>1, <2>3, BrowserAssumption
<1>6. ASSUME NEW u \in Tokens, NEW j \in DOMAIN journal'[u], journal'[u][j].id = s.id
      PROVE  Tells(s, journal'[u][j])
  <2>1. journal'[u][j].ask = journal'[t][i].ask
    BY <1>3, <1>4, <1>6
  <2>2. u = t /\ j = i
    BY <2>1 DEF LogInv, AskedOnce
  <2> QED BY <1>2, <2>2
<1>7. ASSUME NEW q \in Sending', s.id = q.id
      PROVE  Admitted(q)' # {}
  <2>1. Sent(q)'
    BY DEF LogInv
  <2>2. journal'[t][i].ask = q.ask
    BY <1>3, <1>4, <1>7, <2>1 DEF Sent
  <2>3. t = q.token
    BY <2>1, <2>2 DEF Sent
  <2>4. i \in Admitted(q)'
    BY <1>4, <1>7, <2>3 DEF Admitted
  <2> QED BY <2>4
<1> QED BY <1>5, <1>6, <1>7 DEF RunShown

LEMMA ViewStep ==
    ASSUME BInv, WInv', [Next]_vars, Frame, JournalStep, NEW s \in Seen
    PROVE  /\ s.id \in 1..drawn'
           /\ \A t \in Tokens : \A i \in RunShown(t, s)' : Tells(s, journal'[t][i])
           /\ \A q \in Sending' : s.id = q.id /\ q.token \in conv' => Admitted(q)' # {}
<1>1. s.id \in 1..drawn'
  BY DEF BInv, ViewInv, Frame
<1>2. CASE Grows
  BY <1>1, <1>2, SeenGrows, AdmittedGrows
<1>3. CASE \E p \in posts : Accepted(p)
  BY <1>1, <1>3, SeenAccepted, AdmittedAccepted
<1>4. Grows \/ \E p \in posts : Accepted(p)
  BY KeptGrows, RestartedGrows, AdvancedGrows DEF JournalStep, Advances
<1> QED BY <1>2, <1>3, <1>4

LEMMA ViewInvNext ==
    ASSUME BInv, WInv', BrowserTypeOK', LogInv', [Next]_vars, [BrowserNext]_browser
    PROVE  ViewInv'
<1>1. ASSUME NEW s \in Seen', Learned(s)
      PROVE  /\ s.id \in 1..drawn'
             /\ \A t \in Tokens : \A i \in RunShown(t, s)' : Tells(s, journal'[t][i])
             /\ \A q \in Sending' : s.id = q.id /\ q.token \in conv' => Admitted(q)' # {}
  BY <1>1, LearnedFacts
<1>2. CASE Frame /\ JournalStep
  BY <1>1, <1>2, SeenOrLearned, ViewStep DEF ViewInv
<1>3. CASE \E t \in Tokens : StartSession(t)
  <2>1. UNCHANGED <<journal, drawn, posts, pending, current, shown, stale, conv>>
    BY <1>3 DEF StartSession, vars, database
  <2>2. Seen' = Seen /\ Sending' = Sending
    BY <2>1 DEF Seen, Sending
  <2>3. \A q \in Sending : Admitted(q)' = Admitted(q)
    BY <2>1 DEF Admitted
  <2>4. \A s \in Seen, t \in Tokens : RunShown(t, s)' = RunShown(t, s)
    BY <2>1 DEF RunShown
  <2> QED BY <2>1, <2>2, <2>3, <2>4 DEF BInv, ViewInv
<1>4. CASE \E e \in 0..MaxAsks : Ask(e)
  <2>1. PICK e \in 0..MaxAsks : Ask(e)
    BY <1>4
  <2>2. PICK t \in stored :
            LET q == [token |-> t, ask |-> drawn + 1, id |-> drawn + 1, revision |-> e] IN
            pending' = {q} /\ posts' = posts \cup {q}
    BY <2>1 DEF Ask
  <2>3. \A q \in Sending' : q \in Sending \/ q.id = drawn + 1
    BY <2>2 DEF Sending
  <2>4. /\ UNCHANGED <<journal, current, shown, stale, conv>>
        /\ drawn' = drawn + 1 /\ drawn \in Nat
    BY <2>1 DEF Ask, vars, database, BInv, BrowserTypeOK
  <2>5. Seen' = Seen
    BY <2>4 DEF Seen
  <2>6. \A q \in Sending : Admitted(q)' = Admitted(q)
    BY <2>4 DEF Admitted
  <2>7. \A s \in Seen, u \in Tokens : RunShown(u, s)' = RunShown(u, s)
    BY <2>4 DEF RunShown
  <2>8. \A s \in Seen : s.id \in 1..drawn
    BY DEF BInv, ViewInv
  <2>9. \A s \in Seen' : s.id \in 1..drawn' /\ s.id # drawn + 1
    BY <2>4, <2>5, <2>8
  <2>10. \A s \in Seen', u \in Tokens : \A i \in RunShown(u, s)' : Tells(s, journal'[u][i])
    BY <2>4, <2>5, <2>7 DEF BInv, ViewInv
  <2>11. \A s \in Seen', q \in Sending' : s.id = q.id /\ q.token \in conv' => Admitted(q)' # {}
    BY <2>3, <2>4, <2>5, <2>6, <2>9 DEF BInv, ViewInv
  <2> QED BY <2>9, <2>10, <2>11 DEF ViewInv
<1> QED BY <1>2, <1>3, <1>4, Steps

LEMMA InitB == BrowserInit => BInv
<1> SUFFICES ASSUME BrowserInit PROVE BInv
  OBVIOUS
<1> USE DEF BrowserInit
<1>1. WInv
  BY InitW
<1>2. BrowserTypeOK
  <2>1. << >> \in Seq(Runs)
    OBVIOUS
  <2>2. TypeOK
    BY <1>1 DEF WInv
  <2> QED BY <2>1, <2>2, BrowserAssumption DEF BrowserTypeOK
<1>3. LogInv
  <2>1. active = {} /\ conv = {}
    BY DEF Init
  <2>2. \A t \in Tokens : journal[t] = << >> /\ DOMAIN journal[t] = {}
    OBVIOUS
  <2> QED BY <2>1, <2>2 DEF LogInv, LogOf, Sending, AskedOnce
<1>4. ViewInv
  BY DEF ViewInv, Seen
<1> QED BY <1>1, <1>2, <1>3, <1>4 DEF BInv

LEMMA NextB ==
    ASSUME Tokened, BInv, [BrowserNext]_browser
    PROVE  BInv'
<1>1. [Next]_vars
  BY ClientStep
<1>2. WInv'
  BY <1>1, NextW DEF BInv
<1>3. BrowserTypeOK' /\ LogInv'
  BY <1>1, <1>2, BrowserTypesNext, LogInvNext
<1> QED BY <1>1, <1>2, <1>3, ViewInvNext DEF BInv

THEOREM BInvAlways == BrowserSpec => []BInv
<1>1. Tokened /\ [BrowserNext]_browser => Tokened'
  BY TokenedNext
<1>2. Tokened /\ BInv /\ [BrowserNext]_browser => BInv'
  BY NextB
<1> QED BY InitTokened, InitB, <1>1, <1>2, PTL DEF BrowserSpec, browser

(* Types of the tab, the network and the journal it is served from.        *)
THEOREM BrowserTypeCorrect == BrowserSpec => []BrowserTypeOK
<1>1. BInv => BrowserTypeOK
  BY DEF BInv
<1> QED BY <1>1, BInvAlways, PTL

(* Retries, late and repeated deliveries, reloads, cancellations, crashes  *)
(* and expiries never execute a question twice.                            *)
THEOREM AskedOnceAlways == BrowserSpec => []AskedOnce
<1>1. BInv => AskedOnce
  BY DEF BInv, LogInv
<1> QED BY <1>1, BInvAlways, PTL

(* However stale, what the tab shows is a prefix of the run's history.     *)
THEOREM ShownIsHistoryAlways == BrowserSpec => []ShownIsHistory
<1>1. BInv => ShownIsHistory
  <2> SUFFICES ASSUME BInv, NEW s \in shown \cup current, NEW t \in stored, NEW i \in RunShown(t, s)
               PROVE  /\ s.events <= journal[t][i].events
                      /\ s.settled <=> (journal[t][i].settled /\ s.events = journal[t][i].events)
    BY DEF ShownIsHistory
  <2>1. t \in Tokens /\ s \in Seen
    BY DEF BInv, BrowserTypeOK, Seen
  <2> QED BY <2>1 DEF BInv, ViewInv, Tells
<1> QED BY <1>1, BInvAlways, PTL
=============================================================================
