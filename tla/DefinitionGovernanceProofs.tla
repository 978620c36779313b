--------------------- MODULE DefinitionGovernanceProofs ---------------------
(* Theorems about DefinitionGovernance and about the answers it governs,   *)
(* for every number of people, drafts, overlapping handlers and runs, and  *)
(* for every assignment of grants.                                         *)
EXTENDS GovernedAnswers, FiniteSetTheorems, TLAPS

-----------------------------------------------------------------------------
(* The inductive invariant                                                 *)

(* Publications are ordered by effective time and numbered by their event. *)
Ordered(s) ==
    /\ \A i, j \in DOMAIN s.snapshots : i < j =>
          /\ s.snapshots[i].effective <= s.snapshots[j].effective
          /\ s.snapshots[i].sequence < s.snapshots[j].sequence
    /\ \A i \in DOMAIN s.snapshots : s.snapshots[i].sequence <= Len(s.events)

(* i is the last publication that is in effect at time t.                  *)
LastAt(s, t, i) ==
    /\ i \in DOMAIN s.snapshots
    /\ s.snapshots[i].effective <= t
    /\ \A j \in DOMAIN s.snapshots : s.snapshots[j].effective <= t => j <= i

AlwaysCurrent(s) == \A t \in Instants : \E i \in Nat : LastAt(s, t, i)

(* A published draft is published once: its name is taken from then on.    *)
NamesTaken(s) ==
    \A i \in DOMAIN s.snapshots :
        \/ s.snapshots[i].id = Seed
        \/ /\ s.snapshots[i].id \in Drafts
           /\ s.drafts[s.snapshots[i].id].status = "PUBLISHED"

(* Every draft has an author who may edit, every decided one a reviewer    *)
(* who may review and, where reviewers are separate, is someone else.      *)
Reviewed(s) ==
    \A d \in Drafts :
        LET r == s.drafts[d] IN
        /\ r.status # "ABSENT" =>
              r.author \in Users /\ "EDIT" \in Permits[r.author]
        /\ r.status \in {"APPROVED", "PUBLISHED"} =>
              /\ r.reviewer \in Users /\ "REVIEW" \in Permits[r.reviewer]
              /\ SeparateReviewer => r.author # r.reviewer

Good(s) ==
    /\ s \in State /\ s.snapshots # << >>
    /\ Ordered(s) /\ AlwaysCurrent(s) /\ NamesTaken(s) /\ Reviewed(s)

(* What one operation may do to the publications and withdrawals.          *)
Names(s) == {s.snapshots[i].id : i \in DOMAIN s.snapshots}

Published1(s, t, d, n, e) ==
    /\ d \notin Names(s)
    /\ e >= s.snapshots[Len(s.snapshots)].effective
    /\ t.snapshots = Append(s.snapshots, [id |-> d, sequence |-> n, effective |-> e])
    /\ t.revoked = s.revoked

OneStep(s, t) ==
    \/ t.snapshots = s.snapshots /\ t.revoked = s.revoked
    \/ \E d \in Ids, n \in Nat, e \in Instants : Published1(s, t, d, n, e)
    \/ \E x \in Names(s) \ s.revoked :
          t.snapshots = s.snapshots /\ t.revoked = s.revoked \cup {x}

(* A copy that may still be saved is one operation ahead of the store; no  *)
(* copy is further ahead, so that saving one makes every other one stale.  *)
IInv ==
    /\ TypeOK
    /\ Good(store)
    /\ \A h \in Handlers : \A s \in proposal[h] :
          /\ Good(s)
          /\ s.revision <= store.revision + 1
          /\ s.revision = store.revision + 1 => OneStep(store, s)
    /\ PinnedStaysAvailable
-----------------------------------------------------------------------------
(* The seed is in effect from the beginning.                               *)
LEMMA InitInv == Init => IInv
<1> SUFFICES ASSUME Init PROVE IInv
  OBVIOUS
<1> USE GovernanceAssumption
<1>1. NoDraft \in Draft
  BY DEF NoDraft, Draft, Ids, Instants
<1>2. store \in State /\ store.snapshots # << >>
  <2>1. [id |-> Seed, sequence |-> 0, effective |-> 0] \in Snapshot
    BY DEF Snapshot, Ids, Instants
  <2>2. <<[id |-> Seed, sequence |-> 0, effective |-> 0]>> \in Seq(Snapshot)
    BY <2>1
  <2>3. << >> \in Seq(Event)
    OBVIOUS
  <2>4. [d \in Drafts |-> NoDraft] \in [Drafts -> Draft]
    BY <1>1
  <2> QED BY <2>2, <2>3, <2>4 DEF Init, State
<1>3. TypeOK
  BY <1>2 DEF Init, TypeOK, Instants
<1>4. /\ DOMAIN store.snapshots = {1}
      /\ store.snapshots[1] = [id |-> Seed, sequence |-> 0, effective |-> 0]
      /\ Len(store.events) = 0
  BY DEF Init
<1>5. Ordered(store)
  BY <1>4 DEF Ordered
<1>6. AlwaysCurrent(store)
  <2> SUFFICES ASSUME NEW t \in Instants PROVE LastAt(store, t, 1)
    BY DEF AlwaysCurrent
  <2> QED BY <1>4 DEF LastAt, Instants
<1>7. NamesTaken(store)
  BY <1>4 DEF NamesTaken
<1>8. Reviewed(store)
  BY DEF Init, Reviewed, NoDraft
<1>9. PinnedStaysAvailable
  BY DEF Init, PinnedStaysAvailable
<1> QED BY <1>2, <1>3, <1>5, <1>6, <1>7, <1>8, <1>9 DEF Init, IInv, Good
(* The record an operation saves keeps the fields the operation kept.      *)
LEMMA ProposeInv ==
    ASSUME IInv, NEW h \in Handlers, NEW t, Good(t), OneStep(store, t),
           t.revision = store.revision, Propose(h, t)
    PROVE  IInv'
<1> DEFINE n == [t EXCEPT !.revision = @ + 1]
<1>1. /\ t \in State /\ t.revision \in Nat
      /\ n \in State /\ n.revision = store.revision + 1
      /\ n.snapshots = t.snapshots /\ n.drafts = t.drafts
      /\ n.events = t.events /\ n.revoked = t.revoked
  <2>1. t \in State
    BY DEF Good
  <2>2. /\ t.revision \in Nat /\ n \in State /\ n.revision = t.revision + 1
        /\ n.snapshots = t.snapshots /\ n.drafts = t.drafts
        /\ n.events = t.events /\ n.revoked = t.revoked
    BY <2>1 DEF State
  <2> QED BY <2>1, <2>2
<1>2. Good(n)
  <2>1. Ordered(n) /\ AlwaysCurrent(n) /\ NamesTaken(n)
    BY <1>1 DEF Good, Ordered, AlwaysCurrent, LastAt, NamesTaken
  <2>2. Reviewed(n)
    BY <1>1 DEF Good, Reviewed
  <2> QED BY <1>1, <2>1, <2>2 DEF Good
<1>3. OneStep(store, n)
  BY <1>1 DEF OneStep, Published1
<1>4. /\ proposal' = [proposal EXCEPT ![h] = {n}]
      /\ UNCHANGED <<store, clock, pin>>
  BY DEF Propose
<1> HIDE DEF n
<1>5. TypeOK'
  BY <1>1, <1>4 DEF IInv, TypeOK
<1>6. \A g \in Handlers : \A s \in proposal'[g] : s = n \/ s \in proposal[g]
  BY <1>4 DEF IInv, TypeOK
<1>7. PinnedStaysAvailable'
  BY <1>4 DEF IInv, PinnedStaysAvailable
<1>8. \A g \in Handlers : \A s \in proposal'[g] :
          /\ Good(s)
          /\ s.revision <= store.revision + 1
          /\ s.revision = store.revision + 1 => OneStep(store, s)
  <2>1. store.revision \in Nat
    BY DEF IInv, TypeOK, State
  <2> QED BY <1>1, <1>2, <1>3, <1>6, <2>1 DEF IInv
<1>9. (\A g \in Handlers : \A s \in proposal[g] :
          /\ Good(s)
          /\ s.revision <= store.revision + 1
          /\ s.revision = store.revision + 1 => OneStep(store, s))'
  BY <1>4, <1>8
<1>10. Good(store)'
  BY <1>4 DEF IInv
<1> QED BY <1>5, <1>7, <1>9, <1>10 DEF IInv

(* An operation on one draft alone keeps the publications in good order.   *)
LEMMA DraftGood ==
    ASSUME Good(store), NEW d \in Drafts, NEW r \in Draft,
           d \in Names(store) => r.status = "PUBLISHED",
           r.status # "ABSENT" => r.author \in Users /\ "EDIT" \in Permits[r.author],
           r.status \in {"APPROVED", "PUBLISHED"} =>
              /\ r.reviewer \in Users /\ "REVIEW" \in Permits[r.reviewer]
              /\ SeparateReviewer => r.author # r.reviewer,
           NEW t, t = [store EXCEPT !.drafts = [store.drafts EXCEPT ![d] = r]]
    PROVE  Good(t) /\ OneStep(store, t) /\ t.revision = store.revision
<1>1. store \in State /\ store.drafts \in [Drafts -> Draft]
  BY DEF Good, State
<1>2. /\ t \in State /\ t.revision = store.revision
      /\ t.snapshots = store.snapshots /\ t.revoked = store.revoked
      /\ t.events = store.events
      /\ t.drafts = [store.drafts EXCEPT ![d] = r]
  BY <1>1 DEF State
<1>3. Ordered(t) /\ AlwaysCurrent(t) /\ t.snapshots # << >>
  BY <1>2 DEF Good, Ordered, AlwaysCurrent, LastAt
<1>4. NamesTaken(t)
  BY <1>1, <1>2 DEF Good, NamesTaken, Names
<1>5. Reviewed(t)
  BY <1>1, <1>2 DEF Good, Reviewed
<1> QED BY <1>2, <1>3, <1>4, <1>5 DEF Good, OneStep

(* A new draft has its author and no reviewer yet.                         *)
LEMMA CreateDraftInv ==
    ASSUME IInv, NEW h \in Handlers, NEW u \in Users, NEW d \in Drafts,
           NEW e \in Instants, CreateDraft(h, u, d, e)
    PROVE  IInv'
<1> DEFINE r == [status |-> "DRAFT", revision |-> 1, author |-> u, reviewer |-> Nobody,
                 base |-> Newest.id, effective |-> e]
           t == [store EXCEPT !.drafts = [store.drafts EXCEPT ![d] = r]]
<1>1. store \in State /\ Good(store)
  BY DEF IInv, Good
<1>2. Newest \in Snapshot
  <2>1. store.snapshots \in Seq(Snapshot) /\ store.snapshots # << >>
    BY <1>1 DEF Good, State
  <2> QED BY <2>1 DEF Newest
<1>3. r \in Draft
  BY <1>2 DEF Draft, Snapshot
<1>4. store.drafts[d].status = "ABSENT"
  BY DEF CreateDraft, Created
<1>5. d \notin Names(store)
  BY <1>1, <1>4, GovernanceAssumption DEF Good, NamesTaken, Names
<1>6. Good(t) /\ OneStep(store, t) /\ t.revision = store.revision
  BY <1>1, <1>3, <1>5, DraftGood DEF CreateDraft
<1>7. Propose(h, t)
  BY <1>1 DEF CreateDraft, State
<1> QED BY <1>6, <1>7, ProposeInv

(* The draft's next revision keeps its author.                             *)
LEMMA AdvancedType ==
    ASSUME Good(store), NEW d \in Drafts, NEW u \in Users \cup {Nobody},
           NEW v \in {"IN_REVIEW", "APPROVED", "REJECTED", "PUBLISHED"}
    PROVE  /\ Advanced(d, v, u) \in Draft
           /\ Advanced(d, v, u).status = v
           /\ Advanced(d, v, u).author = store.drafts[d].author
           /\ Advanced(d, v, u).reviewer = u
<1>1. store.drafts[d] \in Draft
  BY DEF Good, State
<1> QED BY <1>1 DEF Advanced, Draft

(* An undecided or approved draft is not in the stream; it has an author.  *)
LEMMA Unpublished ==
    ASSUME Good(store), NEW d \in Drafts,
           store.drafts[d].status \in {"DRAFT", "IN_REVIEW", "APPROVED"}
    PROVE  /\ d \notin Names(store)
           /\ store.drafts[d].author \in Users
           /\ "EDIT" \in Permits[store.drafts[d].author]
<1>1. d \notin Names(store)
  BY GovernanceAssumption DEF Good, NamesTaken, Names
<1> QED BY <1>1 DEF Good, Reviewed

(* Submission changes neither author nor reviewer.                         *)
LEMMA SubmitInv ==
    ASSUME IInv, NEW h \in Handlers, NEW u \in Users, NEW d \in Drafts, NEW e,
           Submit(h, u, d, e)
    PROVE  IInv'
<1> DEFINE r == Advanced(d, "IN_REVIEW", store.drafts[d].reviewer)
           t == [store EXCEPT !.drafts = [store.drafts EXCEPT ![d] = r]]
<1>1. Good(store) /\ store \in State /\ store.drafts[d] \in Draft
  BY DEF IInv, Good, State
<1>2. store.drafts[d].status = "DRAFT" /\ store.drafts[d].reviewer \in Users \cup {Nobody}
  BY <1>1 DEF Submit, Allowed, Draft
<1>3. /\ r \in Draft /\ r.status = "IN_REVIEW"
      /\ r.author = store.drafts[d].author
  BY <1>1, <1>2, AdvancedType
<1>4. /\ d \notin Names(store)
      /\ store.drafts[d].author \in Users
      /\ "EDIT" \in Permits[store.drafts[d].author]
  BY <1>1, <1>2, Unpublished
<1> HIDE DEF r
<1>5. Good(t) /\ OneStep(store, t) /\ t.revision = store.revision
  BY <1>1, <1>3, <1>4, DraftGood
<1>6. Propose(h, t)
  BY <1>1 DEF Submit, State, r
<1> QED BY <1>5, <1>6, ProposeInv

(* A reviewer holds the grant and, where required, is not the author.      *)
LEMMA ReviewInv ==
    ASSUME IInv, NEW h \in Handlers, NEW u \in Users, NEW d \in Drafts, NEW e,
           NEW v \in {"APPROVED", "REJECTED"}, Review(h, u, d, e, v)
    PROVE  IInv'
<1> DEFINE r == Advanced(d, v, u)
           t == [store EXCEPT !.drafts = [store.drafts EXCEPT ![d] = r]]
<1>1. Good(store) /\ store \in State /\ store.drafts[d] \in Draft
  BY DEF IInv, Good, State
<1>2. /\ store.drafts[d].status = "IN_REVIEW" /\ "REVIEW" \in Permits[u]
      /\ SeparateReviewer => store.drafts[d].author # u
  BY DEF Review, Allowed, Independent
<1>3. /\ r \in Draft /\ r.status = v
      /\ r.author = store.drafts[d].author /\ r.reviewer = u
  BY <1>1, AdvancedType
<1>4. /\ d \notin Names(store)
      /\ store.drafts[d].author \in Users
      /\ "EDIT" \in Permits[store.drafts[d].author]
  BY <1>1, <1>2, Unpublished
<1> HIDE DEF r
<1>5. Good(t) /\ OneStep(store, t) /\ t.revision = store.revision
  BY <1>1, <1>2, <1>3, <1>4, DraftGood
<1>6. Propose(h, t)
  BY <1>1 DEF Review, State, r
<1> QED BY <1>5, <1>6, ProposeInv

(* A publication takes the next name, number and a time in order.          *)
LEMMA PublishInv ==
    ASSUME IInv, NEW h \in Handlers, NEW u \in Users, NEW d \in Drafts, NEW e,
           Publish(h, u, d, e)
    PROVE  IInv'
<1> DEFINE n == Len(store.events) + 1
           x == [id |-> d, sequence |-> n, effective |-> EffectiveOf(d)]
           r == Advanced(d, "PUBLISHED", store.drafts[d].reviewer)
           t == [store EXCEPT !.snapshots = Append(store.snapshots, x),
                              !.events = Append(store.events, [kind |-> "PUBLISHED", id |-> d]),
                              !.drafts = [store.drafts EXCEPT ![d] = r]]
<1>1. /\ Good(store) /\ store \in State /\ store.drafts[d] \in Draft
      /\ store.snapshots \in Seq(Snapshot) /\ store.snapshots # << >>
      /\ store.events \in Seq(Event) /\ clock \in Instants
  BY DEF IInv, Good, State, TypeOK
<1>2. store.drafts[d].status = "APPROVED" /\ store.drafts[d].reviewer \in Users \cup {Nobody}
  BY <1>1 DEF Publish, Allowed, Draft
<1>3. /\ r \in Draft /\ r.status = "PUBLISHED"
      /\ r.author = store.drafts[d].author /\ r.reviewer = store.drafts[d].reviewer
  BY <1>1, <1>2, AdvancedType
<1>4. /\ d \notin Names(store)
      /\ store.drafts[d].author \in Users
      /\ "EDIT" \in Permits[store.drafts[d].author]
  BY <1>1, <1>2, Unpublished
<1>5. Newest \in Snapshot /\ Newest.effective \in Instants
  <2>1. Newest \in Snapshot
    BY <1>1 DEF Newest
  <2> QED BY <2>1 DEF Snapshot
<1>6. EffectiveOf(d) \in Instants /\ EffectiveOf(d) >= Newest.effective
  BY <1>1, <1>5, GovernanceAssumption DEF EffectiveOf, Latest, Instants, Draft
<1>7. /\ n \in Nat /\ x \in Snapshot
      /\ x.id = d /\ x.sequence = n /\ x.effective = EffectiveOf(d)
  BY <1>1, <1>6 DEF Snapshot, Ids
<1> HIDE DEF r, x
<1>8. /\ t \in State /\ t.revision = store.revision /\ t.revoked = store.revoked
      /\ t.snapshots = Append(store.snapshots, x)
      /\ t.events = Append(store.events, [kind |-> "PUBLISHED", id |-> d])
      /\ t.drafts = [store.drafts EXCEPT ![d] = r]
  <2>1. Append(store.snapshots, x) \in Seq(Snapshot)
    BY <1>1, <1>7
  <2>2. [kind |-> "PUBLISHED", id |-> d] \in Event
    BY DEF Event, Ids
  <2>3. Append(store.events, [kind |-> "PUBLISHED", id |-> d]) \in Seq(Event)
    BY <1>1, <2>2
  <2>4. [store.drafts EXCEPT ![d] = r] \in [Drafts -> Draft]
    BY <1>1, <1>3 DEF State
  <2> QED BY <1>1, <2>1, <2>3, <2>4 DEF State
<1> HIDE DEF t
<1> DEFINE k == Len(store.snapshots)
<1>9. /\ k \in Nat \ {0} /\ DOMAIN store.snapshots = 1..k
      /\ DOMAIN t.snapshots = 1..(k + 1)
      /\ \A i \in 1..k : t.snapshots[i] = store.snapshots[i]
      /\ t.snapshots[k + 1] = x
      /\ Len(t.events) = n
  <2>1. k \in Nat \ {0} /\ DOMAIN store.snapshots = 1..k
    BY <1>1
  <2>2. /\ DOMAIN t.snapshots = 1..(k + 1)
        /\ \A i \in 1..k : t.snapshots[i] = store.snapshots[i]
        /\ t.snapshots[k + 1] = x
    BY <1>1, <1>7, <1>8
  <2>3. Len(t.events) = n
    BY <1>1, <1>8
  <2> QED BY <2>1, <2>2, <2>3
<1> HIDE DEF k
<1>10. \A i \in 1..k : /\ store.snapshots[i] \in Snapshot
                       /\ store.snapshots[i].effective \in Nat
                       /\ store.snapshots[i].sequence \in Nat
  <2> SUFFICES ASSUME NEW i \in 1..k
               PROVE  /\ store.snapshots[i] \in Snapshot
                      /\ store.snapshots[i].effective \in Nat
                      /\ store.snapshots[i].sequence \in Nat
    OBVIOUS
  <2>1. store.snapshots[i] \in Snapshot
    BY <1>1, <1>9
  <2>2. store.snapshots[i].effective \in Instants
    BY <2>1 DEF Snapshot
  <2> QED BY <2>1, <2>2, GovernanceAssumption DEF Snapshot, Instants
<1>11. \A i \in 1..k : /\ store.snapshots[i].effective <= x.effective
                       /\ store.snapshots[i].sequence < x.sequence
  <2> SUFFICES ASSUME NEW i \in 1..k
               PROVE  /\ store.snapshots[i].effective <= x.effective
                      /\ store.snapshots[i].sequence < x.sequence
    OBVIOUS
  <2>1. store.snapshots[i].effective <= Newest.effective
    <3> Newest = store.snapshots[k] /\ k \in 1..k
      BY <1>9 DEF Newest, k
    <3>1. CASE i = k
      BY <3>1, <1>10
    <3>2. CASE i < k
      BY <3>2, <1>1, <1>9 DEF Good, Ordered
    <3> QED BY <3>1, <3>2, <1>9
  <2>2. store.snapshots[i].sequence <= Len(store.events)
    BY <1>1, <1>9 DEF Good, Ordered
  <2>3. /\ x.effective \in Nat /\ Newest.effective \in Nat
        /\ x.effective >= Newest.effective /\ x.sequence = Len(store.events) + 1
    BY <1>5, <1>6, <1>7, GovernanceAssumption DEF Instants
  <2> QED BY <2>1, <2>2, <2>3, <1>1, <1>10
<1>12. Ordered(t)
  <2>1. \A i, j \in 1..k : i < j =>
           /\ store.snapshots[i].effective <= store.snapshots[j].effective
           /\ store.snapshots[i].sequence < store.snapshots[j].sequence
    BY <1>1, <1>9 DEF Good, Ordered
  <2>2. \A i, j \in 1..(k + 1) : i < j =>
           /\ t.snapshots[i].effective <= t.snapshots[j].effective
           /\ t.snapshots[i].sequence < t.snapshots[j].sequence
    <3> SUFFICES ASSUME NEW i \in 1..(k + 1), NEW j \in 1..(k + 1), i < j
                 PROVE  /\ t.snapshots[i].effective <= t.snapshots[j].effective
                        /\ t.snapshots[i].sequence < t.snapshots[j].sequence
      OBVIOUS
    <3>1. i \in 1..k
      BY <1>9
    <3>2. CASE j = k + 1
      BY <3>1, <3>2, <1>9, <1>11
    <3>3. CASE j # k + 1
      BY <3>1, <3>3, <2>1, <1>9
    <3> QED BY <3>2, <3>3
  <2>3. \A i \in 1..(k + 1) : t.snapshots[i].sequence <= n
    <3> SUFFICES ASSUME NEW i \in 1..(k + 1) PROVE t.snapshots[i].sequence <= n
      OBVIOUS
    <3>1. CASE i = k + 1
      BY <3>1, <1>7, <1>9
    <3>2. CASE i # k + 1
      BY <3>2, <1>7, <1>9, <1>10, <1>11
    <3> QED BY <3>1, <3>2
  <2> QED BY <2>2, <2>3, <1>9 DEF Ordered
<1>13. AlwaysCurrent(t)
  <2> SUFFICES ASSUME NEW m \in Instants PROVE \E i \in Nat : LastAt(t, m, i)
    BY DEF AlwaysCurrent
  <2>1. PICK i \in Nat : LastAt(store, m, i)
    BY <1>1 DEF Good, AlwaysCurrent
  <2>2. CASE x.effective <= m
    <3>1. LastAt(t, m, k + 1)
      BY <2>2, <1>9 DEF LastAt
    <3> QED BY <3>1, <1>9
  <2>3. CASE ~(x.effective <= m)
    <3>1. i \in 1..k /\ store.snapshots[i].effective <= m
      BY <2>1, <1>9 DEF LastAt
    <3>2. \A j \in 1..(k + 1) : t.snapshots[j].effective <= m => j <= i
      <4> SUFFICES ASSUME NEW j \in 1..(k + 1), t.snapshots[j].effective <= m
                   PROVE  j <= i
        OBVIOUS
      <4>1. j # k + 1
        BY <2>3, <1>9
      <4>2. j \in 1..k
        BY <4>1, <1>9
      <4> QED BY <4>2, <2>1, <1>9 DEF LastAt
    <3>3. LastAt(t, m, i)
      BY <3>1, <3>2, <1>9 DEF LastAt
    <3> QED BY <3>3
  <2> QED BY <2>2, <2>3
<1>14. NamesTaken(t)
  <2> SUFFICES ASSUME NEW i \in 1..(k + 1)
               PROVE  \/ t.snapshots[i].id = Seed
                      \/ /\ t.snapshots[i].id \in Drafts
                         /\ t.drafts[t.snapshots[i].id].status = "PUBLISHED"
    BY <1>9 DEF NamesTaken
  <2>1. store.drafts \in [Drafts -> Draft]
    BY <1>1 DEF State
  <2>2. CASE i = k + 1
    BY <2>1, <2>2, <1>3, <1>7, <1>8, <1>9
  <2>3. CASE i # k + 1
    <3>1. i \in 1..k /\ t.snapshots[i].id = store.snapshots[i].id
      BY <2>3, <1>9
    <3>2. CASE store.snapshots[i].id = Seed
      BY <3>1, <3>2
    <3>3. CASE /\ store.snapshots[i].id \in Drafts
               /\ store.drafts[store.snapshots[i].id].status = "PUBLISHED"
      BY <3>1, <3>3, <2>1, <1>3, <1>8
    <3> QED BY <3>1, <3>2, <3>3, <1>1, <1>9 DEF Good, NamesTaken
  <2> QED BY <2>2, <2>3
<1>15. Reviewed(t)
  BY <1>1, <1>2, <1>3, <1>8 DEF Good, State, Reviewed
<1>16. Good(t)
  BY <1>8, <1>9, <1>12, <1>13, <1>14, <1>15 DEF Good
<1>17. OneStep(store, t)
  BY <1>4, <1>6, <1>7, <1>8 DEF OneStep, Published1, Newest, Ids, x
<1>18. Propose(h, t)
  BY <1>1 DEF Publish, State, t, r, x
<1> QED BY <1>8, <1>16, <1>17, <1>18, ProposeInv

(* A withdrawal leaves publications and drafts alone.                      *)
LEMMA RevokeInv ==
    ASSUME IInv, NEW h \in Handlers, NEW u \in Users, NEW x \in Ids, NEW e,
           Revoke(h, u, x, e)
    PROVE  IInv'
<1> DEFINE v == [kind |-> "REVOKED", id |-> x]
           t == [store EXCEPT !.revoked = store.revoked \cup {x},
                              !.events = Append(store.events, v)]
<1>1. /\ Good(store) /\ store \in State /\ store.events \in Seq(Event)
      /\ store.snapshots \in Seq(Snapshot) /\ store.revoked \in SUBSET Ids
  BY DEF IInv, Good, State
<1>2. v \in Event /\ Append(store.events, v) \in Seq(Event)
  BY <1>1 DEF Event
<1>3. store.revoked \cup {x} \in SUBSET Ids
  BY <1>1
<1> HIDE DEF v
<1>4. /\ t \in State /\ t.revision = store.revision
      /\ t.snapshots = store.snapshots /\ t.drafts = store.drafts
      /\ t.events = Append(store.events, v) /\ t.revoked = store.revoked \cup {x}
  BY <1>1, <1>2, <1>3 DEF State
<1> HIDE DEF t
<1>5. Len(t.events) = Len(store.events) + 1 /\ Len(store.events) \in Nat
  BY <1>1, <1>2, <1>4
<1>6. \A i \in DOMAIN store.snapshots : store.snapshots[i].sequence \in Nat
  <2> SUFFICES ASSUME NEW i \in DOMAIN store.snapshots
               PROVE  store.snapshots[i].sequence \in Nat
    OBVIOUS
  <2>1. store.snapshots[i] \in Snapshot
    BY <1>1
  <2> QED BY <2>1 DEF Snapshot
<1>7. Ordered(t)
  BY <1>1, <1>4, <1>5, <1>6 DEF Good, Ordered
<1>8. AlwaysCurrent(t) /\ NamesTaken(t) /\ Reviewed(t) /\ t.snapshots # << >>
  BY <1>1, <1>4 DEF Good, AlwaysCurrent, LastAt, NamesTaken, Reviewed
<1>9. OneStep(store, t)
  BY <1>4 DEF Revoke, Revocable, Published, OneStep, Names
<1>10. Propose(h, t)
  BY DEF Revoke, t, v
<1> QED BY <1>4, <1>7, <1>8, <1>9, <1>10, ProposeInv DEF Good

(* What a name was pinned to stays where it is when publications are added.*)
LEMMA OneStepKeeps ==
    ASSUME NEW s, Good(s), NEW t, Good(t), OneStep(s, t)
    PROVE  /\ Len(s.snapshots) <= Len(t.snapshots)
           /\ \A i \in DOMAIN s.snapshots :
                 i \in DOMAIN t.snapshots /\ t.snapshots[i] = s.snapshots[i]
<1>1. s.snapshots \in Seq(Snapshot)
  BY DEF Good, State
<1>2. CASE t.snapshots = s.snapshots
  BY <1>1, <1>2
<1>3. ASSUME NEW d \in Ids, NEW n \in Nat, NEW e \in Instants, Published1(s, t, d, n, e)
      PROVE  /\ Len(s.snapshots) <= Len(t.snapshots)
             /\ \A i \in DOMAIN s.snapshots :
                   i \in DOMAIN t.snapshots /\ t.snapshots[i] = s.snapshots[i]
  <2>1. [id |-> d, sequence |-> n, effective |-> e] \in Snapshot
    BY DEF Snapshot
  <2> QED BY <1>1, <1>3, <2>1 DEF Published1
<1> QED BY <1>2, <1>3 DEF OneStep

(* The saved copy was one operation ahead; every other one becomes stale.  *)
LEMMA SaveInv ==
    ASSUME IInv, NEW h \in Handlers, NEW s \in proposal[h],
           Unchanged(s), store' = s, proposal' = [proposal EXCEPT ![h] = {}],
           UNCHANGED <<clock, pin>>
    PROVE  IInv' /\ OneStep(store, store')
<1>1. Good(store) /\ Good(s) /\ store.revision \in Nat /\ s.revision \in Nat
  BY DEF IInv, Good, State
<1>2. s.revision = store.revision + 1
  BY <1>1 DEF Unchanged
<1>3. OneStep(store, s)
  BY <1>2 DEF IInv
<1>4. TypeOK'
  BY <1>1 DEF IInv, TypeOK, Good
<1>5. \A g \in Handlers : \A t \in proposal'[g] : t \in proposal[g]
  BY DEF IInv, TypeOK
<1>6. \A g \in Handlers : \A t \in proposal'[g] :
         /\ Good(t) /\ t.revision <= s.revision + 1
         /\ t.revision # s.revision + 1
  <2> SUFFICES ASSUME NEW g \in Handlers, NEW t \in proposal'[g]
               PROVE  /\ Good(t) /\ t.revision <= s.revision + 1
                      /\ t.revision # s.revision + 1
    OBVIOUS
  <2>1. Good(t) /\ t.revision <= store.revision + 1
    BY <1>5 DEF IInv
  <2>2. t.revision \in Nat
    BY <2>1 DEF Good, State
  <2> QED BY <2>1, <2>2, <1>1, <1>2
<1>7. PinnedStaysAvailable'
  <2> SUFFICES ASSUME NEW r \in Runs, pin[r] # Nobody
               PROVE  \E i \in DOMAIN s.snapshots :
                         s.snapshots[i].id = pin[r] /\ s.snapshots[i].effective <= clock
    BY DEF PinnedStaysAvailable
  <2>1. PICK i \in DOMAIN store.snapshots :
           store.snapshots[i].id = pin[r] /\ store.snapshots[i].effective <= clock
    BY DEF IInv, PinnedStaysAvailable
  <2> QED BY <2>1, <1>1, <1>3, OneStepKeeps
<1>8. (\A g \in Handlers : \A t \in proposal[g] :
          /\ Good(t)
          /\ t.revision <= store.revision + 1
          /\ t.revision = store.revision + 1 => OneStep(store, t))'
  BY <1>6
<1> QED BY <1>1, <1>3, <1>4, <1>7, <1>8 DEF IInv

(* The publication that answers questions is the last one in effect.       *)
LEMMA CurrentIsLast ==
    ASSUME Good(store), clock \in Instants
    PROVE  Current \in Nat /\ LastAt(store, clock, Current)
<1> DEFINE s == store.snapshots
           Best(i) == /\ s[i].effective <= clock
                      /\ \A j \in DOMAIN s : s[j].effective <= clock =>
                            \/ s[j].effective < s[i].effective
                            \/ s[j].effective = s[i].effective /\ s[j].sequence <= s[i].sequence
<1>1. s \in Seq(Snapshot) /\ clock \in Nat
  BY GovernanceAssumption DEF Good, State, Instants
<1>2. ASSUME NEW i \in DOMAIN s
      PROVE  i \in Nat /\ s[i].effective \in Nat /\ s[i].sequence \in Nat
  <2>1. s[i] \in Snapshot
    BY <1>1
  <2>2. s[i].effective \in Instants /\ s[i].sequence \in Nat
    BY <2>1 DEF Snapshot
  <2> QED BY <1>1, <2>2, GovernanceAssumption DEF Instants
<1>3. PICK m \in Nat : LastAt(store, clock, m)
  BY DEF Good, AlwaysCurrent
<1>4. ASSUME NEW i \in DOMAIN s, NEW j \in DOMAIN s, i < j
      PROVE  s[i].effective <= s[j].effective /\ s[i].sequence < s[j].sequence
  BY <1>4 DEF Good, Ordered
<1>5. Best(m)
  <2> SUFFICES ASSUME NEW j \in DOMAIN s, s[j].effective <= clock
               PROVE  \/ s[j].effective < s[m].effective
                      \/ s[j].effective = s[m].effective /\ s[j].sequence <= s[m].sequence
    BY <1>3 DEF LastAt
  <2>1. j = m \/ j < m
    BY <1>2, <1>3 DEF LastAt
  <2> QED BY <2>1, <1>2, <1>3, <1>4 DEF LastAt
<1>6. Current = CHOOSE i \in DOMAIN s : Best(i)
  BY DEF Current
<1>7. Current \in DOMAIN s /\ Best(Current)
  BY <1>3, <1>5, <1>6 DEF LastAt
<1>8. ASSUME NEW j \in DOMAIN s, s[j].effective <= clock, ~(j <= Current)
      PROVE  FALSE
  <2>1. Current < j
    BY <1>2, <1>7, <1>8
  <2>2. s[Current].effective <= s[j].effective /\ s[Current].sequence < s[j].sequence
    BY <1>4, <1>7, <2>1
  <2>3. /\ s[j].effective \in Nat /\ s[j].sequence \in Nat
        /\ s[Current].effective \in Nat /\ s[Current].sequence \in Nat
    BY <1>2, <1>7
  <2> QED BY <1>7, <1>8, <2>2, <2>3
<1> QED BY <1>2, <1>7, <1>8 DEF LastAt

(* A run is admitted with a publication that is in effect.                 *)
LEMMA AdmitInv ==
    ASSUME IInv, NEW r \in Runs, Admit(r)
    PROVE  IInv'
<1>1. Good(store) /\ clock \in Instants /\ store.snapshots \in Seq(Snapshot)
  BY DEF IInv, TypeOK, Good, State
<1>2. /\ Current \in DOMAIN store.snapshots
      /\ store.snapshots[Current].effective <= clock
  BY <1>1, CurrentIsLast DEF LastAt
<1>3. store.snapshots[Current].id \in Ids
  <2>1. store.snapshots[Current] \in Snapshot
    BY <1>1, <1>2
  <2> QED BY <2>1 DEF Snapshot
<1>4. /\ pin' = [pin EXCEPT ![r] = store.snapshots[Current].id]
      /\ UNCHANGED <<store, proposal, clock>>
  BY DEF Admit
<1>5. TypeOK'
  BY <1>3, <1>4 DEF IInv, TypeOK
<1>6. PinnedStaysAvailable'
  BY <1>2, <1>4 DEF IInv, TypeOK, PinnedStaysAvailable
<1> QED BY <1>4, <1>5, <1>6 DEF IInv

(* Publications that were in effect stay in effect as time passes.         *)
LEMMA TickInv ==
    ASSUME IInv, Tick
    PROVE  IInv'
<1>1. clock \in Instants /\ clock' = clock + 1 /\ clock' \in Instants
  BY GovernanceAssumption DEF IInv, TypeOK, Tick, Instants
<1>2. UNCHANGED <<store, proposal, pin>>
  BY DEF Tick
<1>3. TypeOK'
  BY <1>1, <1>2 DEF IInv, TypeOK
<1>4. PinnedStaysAvailable'
  <2> SUFFICES ASSUME NEW r \in Runs, pin[r] # Nobody
               PROVE  \E i \in DOMAIN store.snapshots :
                         /\ store.snapshots[i].id = pin[r]
                         /\ store.snapshots[i].effective <= clock'
    BY <1>2 DEF PinnedStaysAvailable
  <2>1. PICK i \in DOMAIN store.snapshots :
           store.snapshots[i].id = pin[r] /\ store.snapshots[i].effective <= clock
    BY DEF IInv, PinnedStaysAvailable
  <2>2. store.snapshots[i].effective \in Nat /\ clock \in Nat
    <3>1. store.snapshots \in Seq(Snapshot)
      BY DEF IInv, Good, State
    <3>2. store.snapshots[i] \in Snapshot
      BY <3>1
    <3>3. store.snapshots[i].effective \in Instants
      BY <3>2 DEF Snapshot
    <3> QED BY <1>1, <3>3, GovernanceAssumption DEF Instants
  <2> QED BY <1>1, <2>1, <2>2
<1> QED BY <1>2, <1>3, <1>4 DEF IInv

(* What a step may do to the stream and the clock.                         *)
Evolves ==
    \/ UNCHANGED <<store, clock>>
    \/ UNCHANGED store /\ clock' = clock + 1
    \/ OneStep(store, store') /\ UNCHANGED clock

(* Every step keeps the invariant: one case for each action.               *)
LEMMA NextInv ==
    ASSUME IInv, [Next]_vars
    PROVE  IInv' /\ Evolves
<1> USE DEF Evolves
<1>1. CASE UNCHANGED vars
  BY <1>1 DEF vars, IInv, TypeOK, PinnedStaysAvailable
<1>2. ASSUME NEW h \in Handlers, NEW u \in Users, NEW d \in Drafts, NEW t \in Instants,
             CreateDraft(h, u, d, t)
      PROVE  IInv' /\ UNCHANGED <<store, clock>>
  BY <1>2, CreateDraftInv DEF CreateDraft, Propose
<1>3. ASSUME NEW h \in Handlers, NEW u \in Users, NEW d \in Drafts, NEW e \in 1..4,
             Submit(h, u, d, e)
      PROVE  IInv' /\ UNCHANGED <<store, clock>>
  BY <1>3, SubmitInv DEF Submit, Propose
<1>4. ASSUME NEW h \in Handlers, NEW u \in Users, NEW d \in Drafts, NEW e \in 1..4,
             Publish(h, u, d, e)
      PROVE  IInv' /\ UNCHANGED <<store, clock>>
  BY <1>4, PublishInv DEF Publish, Propose
<1>5. ASSUME NEW h \in Handlers, NEW u \in Users, NEW d \in Drafts, NEW e \in 1..4,
             NEW v \in {"APPROVED", "REJECTED"}, Review(h, u, d, e, v)
      PROVE  IInv' /\ UNCHANGED <<store, clock>>
  BY <1>5, ReviewInv DEF Review, Propose
<1>6. ASSUME NEW h \in Handlers, NEW u \in Users, NEW x \in Ids, Revoke(h, u, x, store.revision)
      PROVE  IInv' /\ UNCHANGED <<store, clock>>
  BY <1>6, RevokeInv DEF Revoke, Propose
<1>7. ASSUME NEW h \in Handlers, Save(h)
      PROVE  IInv' /\ Evolves
  BY <1>7, SaveInv DEF Save
<1>8. ASSUME NEW h \in Handlers, Drop(h)
      PROVE  IInv' /\ UNCHANGED <<store, clock>>
  <2>1. /\ proposal' = [proposal EXCEPT ![h] = {}]
        /\ UNCHANGED <<store, clock, pin>>
    BY <1>8 DEF Drop
  <2>2. TypeOK' /\ \A g \in Handlers : \A t \in proposal'[g] : t \in proposal[g]
    BY <2>1 DEF IInv, TypeOK
  <2> QED BY <2>1, <2>2 DEF IInv, PinnedStaysAvailable
<1>9. ASSUME NEW r \in Runs, Admit(r)
      PROVE  IInv' /\ UNCHANGED <<store, clock>>
  BY <1>9, AdmitInv DEF Admit
<1>10. CASE Tick
  BY <1>10, TickInv DEF Tick
<1> QED BY <1>1, <1>2, <1>3, <1>4, <1>5, <1>6, <1>7, <1>8, <1>9, <1>10 DEF Next, Govern, Idle
-----------------------------------------------------------------------------
(* Theorems                                                                *)

(* The inductive invariant holds in every behaviour.                       *)
THEOREM Invariance == Spec => []IInv
<1>1. IInv /\ [Next]_vars => IInv'
  BY NextInv
<1> QED BY InitInv, <1>1, PTL DEF Spec

(* Streams, copies, clock and pins keep their types.                       *)
THEOREM TypeCorrect == Spec => []TypeOK
<1>1. IInv => TypeOK
  BY DEF IInv
<1> QED BY Invariance, <1>1, PTL

(* Where reviewers are separate, an approved or published definition has   *)
(* two people behind it, each with the grant, however handlers overlap.    *)
THEOREM FourEyesAlways == Spec => []FourEyes
<1>1. IInv => FourEyes
  BY DEF IInv, Good, Reviewed, FourEyes
<1> QED BY Invariance, <1>1, PTL

(* The publication a run was admitted with can always be resolved again.   *)
THEOREM PinnedAlways == Spec => []PinnedStaysAvailable
<1>1. IInv => PinnedStaysAvailable
  BY DEF IInv
<1> QED BY Invariance, <1>1, PTL

(* The publication that answers questions never steps back.                *)
THEOREM NeverRegresses == Spec => CurrentNeverRegresses
<1>1. IInv => Current \in Nat /\ LastAt(store, clock, Current)
  BY CurrentIsLast DEF IInv, TypeOK
<1>2. (IInv => Current \in Nat /\ LastAt(store, clock, Current))'
  BY <1>1, PTL
<1>3. IInv /\ [Next]_vars => Current' >= Current
  <2> SUFFICES ASSUME IInv, [Next]_vars PROVE Current' >= Current
    OBVIOUS
  <2>1. IInv' /\ Evolves
    BY NextInv
  <2>2. /\ Current \in Nat /\ LastAt(store, clock, Current)
        /\ Current' \in Nat /\ LastAt(store', clock', Current')
    BY <1>1, <1>2, <2>1
  <2>3. /\ Current \in DOMAIN store'.snapshots
        /\ store'.snapshots[Current].effective = store.snapshots[Current].effective
    BY <2>1, <2>2, OneStepKeeps DEF Evolves, LastAt, IInv
  <2>4. store.snapshots[Current].effective \in Nat /\ clock \in Nat
    <3>1. store.snapshots \in Seq(Snapshot) /\ clock \in Instants
      BY DEF IInv, TypeOK, Good, State
    <3>2. store.snapshots[Current] \in Snapshot
      BY <2>2, <3>1 DEF LastAt
    <3>3. store.snapshots[Current].effective \in Instants
      BY <3>2 DEF Snapshot
    <3> QED BY <3>1, <3>3, GovernanceAssumption DEF Instants
  <2>5. store'.snapshots[Current].effective <= clock'
    BY <2>1, <2>2, <2>3, <2>4 DEF Evolves, LastAt
  <2>6. Current <= Current'
    BY <2>2, <2>3, <2>5 DEF LastAt
  <2> QED BY <2>2, <2>6
<1> QED BY Invariance, <1>3, PTL DEF Spec, CurrentNeverRegresses

(* What a reader of the stream sees of it.                                 *)
Shown(s) == [i \in DOMAIN s.snapshots |-> [id |-> s.snapshots[i].id,
                                           effective |-> s.snapshots[i].effective]]

(* Readers see an append-only log: every step of the handlers publishes,   *)
(* withdraws, lets time pass or leaves the log as it is.                   *)
THEOREM ImplementsPublications == Spec => LogSpec
<1>1. Init => Log!Init
  BY DEF Init, Log!Init
<1>2. IInv /\ [Next]_vars => [Log!Next]_(Log!vars)
  <2> SUFFICES ASSUME IInv, [Next]_vars PROVE [Log!Next]_(Log!vars)
    OBVIOUS
  <2>1. IInv' /\ Evolves
    BY NextInv
  <2>2. CASE UNCHANGED <<store, clock>>
    BY <2>2 DEF Log!vars
  <2>3. CASE UNCHANGED store /\ clock' = clock + 1
    BY <2>3 DEF Log!Next, Log!Tick
  <2>4. CASE OneStep(store, store') /\ UNCHANGED clock
    <3>1. /\ store.snapshots \in Seq(Snapshot) /\ store.snapshots # << >>
          /\ store'.snapshots \in Seq(Snapshot)
      BY <2>1 DEF IInv, Good, State
    <3>2. CASE store'.snapshots = store.snapshots /\ store'.revoked = store.revoked
      BY <2>4, <3>2 DEF Log!vars
    <3>3. ASSUME NEW d \in Ids, NEW n \in Nat, NEW e \in Instants,
                 Published1(store, store', d, n, e)
          PROVE  Log!Publish(d, e)
      <4> DEFINE x == [id |-> d, sequence |-> n, effective |-> e]
                 k == Len(store.snapshots)
      <4>1. x \in Snapshot /\ x.id = d /\ x.effective = e
        BY DEF Snapshot
      <4> HIDE DEF x
      <4>2. /\ k \in Nat \ {0} /\ DOMAIN store.snapshots = 1..k
            /\ store'.snapshots = Append(store.snapshots, x)
        BY <3>1, <3>3 DEF Published1, x
      <4>3. /\ DOMAIN store'.snapshots = 1..(k + 1)
            /\ \A i \in 1..k : store'.snapshots[i] = store.snapshots[i]
            /\ store'.snapshots[k + 1] = x
        BY <3>1, <4>1, <4>2
      <4> HIDE DEF k
      <4>4. /\ Shown(store) = [i \in 1..k |-> [id |-> store.snapshots[i].id,
                                                effective |-> store.snapshots[i].effective]]
            /\ Shown(store') = [i \in 1..(k + 1) |-> [id |-> store'.snapshots[i].id,
                                                effective |-> store'.snapshots[i].effective]]
        BY <4>2, <4>3 DEF Shown
      <4>5. Shown(store') = Append(Shown(store), [id |-> d, effective |-> e])
        BY <4>1, <4>2, <4>3, <4>4
      <4>6. DOMAIN Shown(store) = 1..k /\ Len(Shown(store)) = k
        BY <4>2, <4>4
      <4>7. \A i \in 1..k : /\ Shown(store)[i].id = store.snapshots[i].id
                           /\ Shown(store)[i].effective = store.snapshots[i].effective
        BY <4>4
      <4>8. d \notin {Shown(store)[i].id : i \in DOMAIN Shown(store)}
        BY <3>3, <4>2, <4>6, <4>7 DEF Published1, Names
      <4>9. e >= Shown(store)[Len(Shown(store))].effective
        BY <3>3, <4>2, <4>6, <4>7 DEF Published1, k
      <4> QED BY <2>4, <3>3, <4>5, <4>8, <4>9 DEF Log!Publish, Log!Known, Published1, Shown
    <3>4. ASSUME NEW x \in Names(store) \ store.revoked,
                 store'.snapshots = store.snapshots,
                 store'.revoked = store.revoked \cup {x}
          PROVE  x \in Ids /\ Log!Withdraw(x)
      <4>1. x \in Ids
        <5>1. PICK i \in DOMAIN store.snapshots : x = store.snapshots[i].id
          BY DEF Names
        <5>2. store.snapshots[i] \in Snapshot
          BY <3>1
        <5> QED BY <5>1, <5>2 DEF Snapshot
      <4>2. x \in {Shown(store)[i].id : i \in DOMAIN Shown(store)}
        BY DEF Names, Shown
      <4> QED BY <2>4, <3>4, <4>1, <4>2 DEF Log!Withdraw, Log!Known, Shown
    <3> QED BY <2>4, <3>2, <3>3, <3>4 DEF OneStep, Log!Next
  <2> QED BY <2>1, <2>2, <2>3, <2>4 DEF Evolves
<1> QED BY Invariance, <1>1, <1>2, PTL DEF Spec, LogSpec, Log!Spec
-----------------------------------------------------------------------------
(* The publications and their review                                       *)

(* The publications withdrawn according to an event log.                   *)
Withdrawals(log) == {x \in Ids : \E k \in DOMAIN log : log[k] = [kind |-> "REVOKED", id |-> x]}

(* Each publication but the seed has its reviewed draft and its event.     *)
Traced(s) ==
    \A i \in 2..Len(s.snapshots) :
        LET p == s.snapshots[i]
            q == s.snapshots[i - 1]
        IN /\ p.id \in Drafts
           /\ s.drafts[p.id].status = "PUBLISHED"
           /\ s.drafts[p.id].base = q.id
           /\ p.effective >= q.effective
           /\ p.effective >= s.drafts[p.id].effective
           /\ p.sequence > q.sequence
           /\ p.sequence \in DOMAIN s.events
           /\ s.events[p.sequence] = [kind |-> "PUBLISHED", id |-> p.id]

(* Each published draft is in the stream, and each event is a publication  *)
(* or the one withdrawal of it.                                            *)
Told(s) ==
    /\ \A d \in Drafts : s.drafts[d].status = "PUBLISHED" => d \in Names(s)
    /\ s.revoked = Withdrawals(s.events)
    /\ IsFiniteSet(s.revoked)
    /\ Len(s.events) = Len(s.snapshots) - 1 + Cardinality(s.revoked)

ChainInv ==
    /\ Traced(store) /\ Told(store)
    /\ \A h \in Handlers : \A s \in proposal[h] : Traced(s) /\ Told(s)

(* A copy that tells the story is proposed.                                *)
LEMMA ProposeChain ==
    ASSUME IInv, ChainInv, NEW h \in Handlers, NEW t \in State, Traced(t), Told(t),
           Propose(h, t)
    PROVE  ChainInv'
<1> DEFINE n == [t EXCEPT !.revision = @ + 1]
<1>1. /\ n.snapshots = t.snapshots /\ n.drafts = t.drafts
      /\ n.events = t.events /\ n.revoked = t.revoked
  BY DEF State
<1>2. Traced(n) /\ Told(n)
  BY <1>1 DEF Traced, Told, Names
<1>3. proposal' = [proposal EXCEPT ![h] = {n}] /\ store' = store
  BY DEF Propose
<1> HIDE DEF n
<1>4. \A g \in Handlers : \A s \in proposal'[g] : s = n \/ s \in proposal[g]
  BY <1>3 DEF IInv, TypeOK
<1>5. \A g \in Handlers : \A s \in proposal'[g] : Traced(s) /\ Told(s)
  BY <1>2, <1>4 DEF ChainInv
<1>6. (Traced(store) /\ Told(store))'
  BY <1>3 DEF ChainInv
<1>7. (\A g \in Handlers : \A s \in proposal[g] : Traced(s) /\ Told(s))'
  BY <1>5
<1> QED BY <1>6, <1>7 DEF ChainInv

(* An unpublished draft may change as long as it stays unpublished.        *)
LEMMA DraftChain ==
    ASSUME Good(store), Traced(store), Told(store),
           NEW d \in Drafts, NEW r \in Draft, d \notin Names(store), r.status # "PUBLISHED",
           NEW t, t = [store EXCEPT !.drafts = [store.drafts EXCEPT ![d] = r]]
    PROVE  t \in State /\ Traced(t) /\ Told(t)
<1>1. /\ store \in State /\ store.drafts \in [Drafts -> Draft]
      /\ store.snapshots \in Seq(Snapshot)
  BY DEF Good, State
<1>2. /\ t \in State
      /\ t.snapshots = store.snapshots /\ t.revoked = store.revoked
      /\ t.events = store.events
      /\ t.drafts = [store.drafts EXCEPT ![d] = r]
  BY <1>1 DEF State
<1>3. \A i \in 2..Len(store.snapshots) : store.snapshots[i].id # d
  BY <1>1 DEF Names
<1>4. /\ t.drafts[d] = r
      /\ \A c \in Drafts : c # d => t.drafts[c] = store.drafts[c]
  BY <1>1, <1>2
<1>5. Traced(t)
  <2> SUFFICES ASSUME NEW i \in 2..Len(store.snapshots)
               PROVE  LET p == store.snapshots[i]
                          q == store.snapshots[i - 1]
                      IN /\ p.id \in Drafts
                         /\ t.drafts[p.id].status = "PUBLISHED"
                         /\ t.drafts[p.id].base = q.id
                         /\ p.effective >= q.effective
                         /\ p.effective >= t.drafts[p.id].effective
                         /\ p.sequence > q.sequence
                         /\ p.sequence \in DOMAIN store.events
                         /\ store.events[p.sequence] = [kind |-> "PUBLISHED", id |-> p.id]
    BY <1>2 DEF Traced
  <2>1. t.drafts[store.snapshots[i].id] = store.drafts[store.snapshots[i].id]
    BY <1>3, <1>4 DEF Traced
  <2> QED BY <2>1 DEF Traced
<1>6. \A c \in Drafts : t.drafts[c].status = "PUBLISHED" => c \in Names(t)
  BY <1>2, <1>4 DEF Told, Names
<1>7. Told(t)
  BY <1>2, <1>6 DEF Told
<1> QED BY <1>2, <1>5, <1>7

(* One event more adds the withdrawal that it is, if it is one.            *)
LEMMA OneEventMore ==
    ASSUME NEW log \in Seq(Event), NEW v \in Event
    PROVE  /\ Append(log, v) \in Seq(Event)
           /\ Len(Append(log, v)) = Len(log) + 1
           /\ DOMAIN log = 1..Len(log) /\ Len(log) \in Nat
           /\ \A k \in DOMAIN log : k \in DOMAIN Append(log, v) /\ Append(log, v)[k] = log[k]
           /\ Append(log, v)[Len(log) + 1] = v /\ Len(log) + 1 \in DOMAIN Append(log, v)
           /\ Withdrawals(Append(log, v)) =
                 Withdrawals(log) \cup IF v.kind = "REVOKED" THEN {v.id} ELSE {}
<1> DEFINE more == Append(log, v)
<1>1. /\ more \in Seq(Event) /\ Len(more) = Len(log) + 1
      /\ DOMAIN log = 1..Len(log) /\ Len(log) \in Nat
      /\ DOMAIN more = 1..(Len(log) + 1)
      /\ \A k \in DOMAIN log : more[k] = log[k]
      /\ more[Len(log) + 1] = v
  OBVIOUS
<1> HIDE DEF more
<1>2. \A k \in DOMAIN more : k \in DOMAIN log \/ k = Len(log) + 1
  BY <1>1
<1>3. DOMAIN log \subseteq DOMAIN more /\ Len(log) + 1 \in DOMAIN more
  BY <1>1
<1>4. ASSUME NEW x \in Ids
      PROVE  (\E k \in DOMAIN more : more[k] = [kind |-> "REVOKED", id |-> x])
                <=> \/ \E k \in DOMAIN log : log[k] = [kind |-> "REVOKED", id |-> x]
                    \/ v = [kind |-> "REVOKED", id |-> x]
  BY <1>1, <1>2, <1>3
<1>5. /\ v.id \in Ids
      /\ \A x : v = [kind |-> "REVOKED", id |-> x] <=> v.kind = "REVOKED" /\ v.id = x
  BY DEF Event
<1>6. Withdrawals(more) = Withdrawals(log) \cup IF v.kind = "REVOKED" THEN {v.id} ELSE {}
  BY <1>4, <1>5 DEF Withdrawals
<1> QED BY <1>1, <1>3, <1>6 DEF more

(* A withdrawal is told by the last event.                                 *)
LEMMA RevokeChain ==
    ASSUME IInv, ChainInv, NEW h \in Handlers, NEW u \in Users, NEW x \in Ids, NEW e,
           Revoke(h, u, x, e)
    PROVE  ChainInv'
<1> DEFINE v == [kind |-> "REVOKED", id |-> x]
           t == [store EXCEPT !.revoked = store.revoked \cup {x},
                              !.events = Append(store.events, v)]
<1>1. /\ store \in State /\ store.events \in Seq(Event)
      /\ store.snapshots \in Seq(Snapshot) /\ store.revoked \in SUBSET Ids
  BY DEF IInv, Good, State
<1>2. v \in Event /\ v.kind = "REVOKED" /\ v.id = x
  BY DEF Event
<1>3. Propose(h, t) /\ x \notin store.revoked
  BY DEF Revoke, Revocable
<1> HIDE DEF v
<1>4. /\ t \in State
      /\ t.snapshots = store.snapshots /\ t.drafts = store.drafts
      /\ t.events = Append(store.events, v) /\ t.revoked = store.revoked \cup {x}
  BY <1>1, <1>2, OneEventMore DEF State
<1> HIDE DEF t
<1>5. /\ Len(t.events) = Len(store.events) + 1
      /\ \A k \in DOMAIN store.events : k \in DOMAIN t.events /\ t.events[k] = store.events[k]
      /\ Withdrawals(t.events) = Withdrawals(store.events) \cup {x}
  BY <1>1, <1>2, <1>4, OneEventMore
<1>6. Traced(t)
  BY <1>4, <1>5 DEF ChainInv, Traced
<1>7. Told(t)
  <2>1. /\ IsFiniteSet(store.revoked) /\ store.revoked = Withdrawals(store.events)
        /\ Len(store.events) = Len(store.snapshots) - 1 + Cardinality(store.revoked)
    BY DEF ChainInv, Told
  <2>2. /\ IsFiniteSet(t.revoked) /\ Cardinality(t.revoked) = Cardinality(store.revoked) + 1
        /\ Cardinality(store.revoked) \in Nat
    BY <1>3, <1>4, <2>1, FS_AddElement, FS_CardinalityType
  <2>3. Len(t.events) = Len(t.snapshots) - 1 + Cardinality(t.revoked)
    BY <1>1, <1>4, <1>5, <2>1, <2>2
  <2>4. \A d \in Drafts : t.drafts[d].status = "PUBLISHED" => d \in Names(t)
    BY <1>4 DEF ChainInv, Told, Names
  <2> QED BY <1>4, <1>5, <2>1, <2>2, <2>3, <2>4 DEF Told
<1> QED BY <1>3, <1>4, <1>6, <1>7, ProposeChain

(* A publication replaces the head its draft was reviewed against.         *)
LEMMA PublishChain ==
    ASSUME IInv, ChainInv, NEW h \in Handlers, NEW u \in Users, NEW d \in Drafts, NEW e,
           Publish(h, u, d, e)
    PROVE  ChainInv'
<1> DEFINE n == Len(store.events) + 1
           k == Len(store.snapshots)
           x == [id |-> d, sequence |-> n, effective |-> EffectiveOf(d)]
           v == [kind |-> "PUBLISHED", id |-> d]
           r == Advanced(d, "PUBLISHED", store.drafts[d].reviewer)
           t == [store EXCEPT !.snapshots = Append(store.snapshots, x),
                              !.events = Append(store.events, v),
                              !.drafts = [store.drafts EXCEPT ![d] = r]]
<1>1. /\ Good(store) /\ store \in State /\ store.drafts \in [Drafts -> Draft]
      /\ store.drafts[d] \in Draft
      /\ store.snapshots \in Seq(Snapshot) /\ store.snapshots # << >>
      /\ store.events \in Seq(Event) /\ clock \in Instants
  BY DEF IInv, Good, State, TypeOK
<1>2. /\ store.drafts[d].status = "APPROVED" /\ store.drafts[d].base = Newest.id
      /\ store.drafts[d].reviewer \in Users \cup {Nobody}
  BY <1>1 DEF Publish, Allowed, Publishable, Draft
<1>3. /\ r \in Draft /\ r.status = "PUBLISHED"
      /\ r.base = store.drafts[d].base /\ r.effective = store.drafts[d].effective
  BY <1>1, <1>2, AdvancedType DEF Advanced
<1>4. d \notin Names(store)
  BY <1>1, <1>2, Unpublished
<1>5. k \in Nat \ {0} /\ DOMAIN store.snapshots = 1..k /\ Newest = store.snapshots[k]
      /\ Newest \in Snapshot
  BY <1>1 DEF Newest
<1>6. /\ EffectiveOf(d) \in Instants
      /\ EffectiveOf(d) >= Newest.effective
      /\ EffectiveOf(d) >= store.drafts[d].effective
  BY <1>1, <1>5, GovernanceAssumption DEF EffectiveOf, Latest, Instants, Draft, Snapshot
<1>7. v \in Event /\ v.kind = "PUBLISHED"
  BY DEF Event, Ids
<1>8. /\ x \in Snapshot /\ x.id = d /\ x.sequence = n /\ x.effective = EffectiveOf(d)
      /\ n \in Nat
  BY <1>1, <1>6 DEF Snapshot, Ids
<1>9. Propose(h, t)
  BY <1>1 DEF Publish, State
<1> HIDE DEF r, x
<1>10. Append(store.snapshots, x) \in Seq(Snapshot)
  BY <1>1, <1>8
<1>11. /\ t \in State /\ t.revoked = store.revoked
       /\ t.snapshots = Append(store.snapshots, x)
       /\ t.events = Append(store.events, v)
       /\ t.drafts = [store.drafts EXCEPT ![d] = r]
  <2> HIDE DEF v
  <2>1. Append(store.events, v) \in Seq(Event)
    BY <1>1, <1>7, OneEventMore
  <2>2. [store.drafts EXCEPT ![d] = r] \in [Drafts -> Draft]
    BY <1>1, <1>3
  <2> QED BY <1>1, <1>10, <2>1, <2>2 DEF State
<1> HIDE DEF t
<1>12. /\ Len(t.snapshots) = k + 1 /\ DOMAIN t.snapshots = 1..(k + 1)
       /\ \A i \in 1..k : t.snapshots[i] = store.snapshots[i]
       /\ t.snapshots[k + 1] = x
  BY <1>1, <1>8, <1>11
<1>13. /\ Len(t.events) = Len(store.events) + 1
       /\ \A j \in DOMAIN store.events : j \in DOMAIN t.events /\ t.events[j] = store.events[j]
       /\ t.events[n] = v /\ n \in DOMAIN t.events
       /\ Withdrawals(t.events) = Withdrawals(store.events)
  <2> DEFINE more == Append(store.events, v)
  <2> HIDE DEF v
  <2>1. /\ Len(more) = Len(store.events) + 1
        /\ \A j \in DOMAIN store.events : j \in DOMAIN more /\ more[j] = store.events[j]
        /\ more[n] = v /\ n \in DOMAIN more
    BY <1>1, <1>7, OneEventMore
  <2>2. Withdrawals(more) = Withdrawals(store.events) \cup IF v.kind = "REVOKED" THEN {v.id} ELSE {}
    BY <1>1, <1>7, OneEventMore
  <2> HIDE DEF more, n
  <2>3. Withdrawals(more) = Withdrawals(store.events)
    BY <1>7, <2>2
  <2>4. t.events = more
    BY <1>11 DEF more
  <2> QED BY <2>1, <2>3, <2>4
<1>14. /\ t.drafts[d] = r
       /\ \A c \in Drafts : c # d => t.drafts[c] = store.drafts[c]
  BY <1>1, <1>11
<1>15. store.snapshots[k].sequence < n
  <2>1. store.snapshots[k].sequence \in Nat
    BY <1>5 DEF Snapshot
  <2>2. store.snapshots[k].sequence <= Len(store.events)
    BY <1>1, <1>5 DEF Good, Ordered
  <2> QED BY <1>1, <2>1, <2>2
<1> DEFINE Told1(i) == /\ t.snapshots[i].id \in Drafts
                       /\ t.drafts[t.snapshots[i].id].status = "PUBLISHED"
                       /\ t.drafts[t.snapshots[i].id].base = t.snapshots[i - 1].id
                       /\ t.snapshots[i].effective >= t.snapshots[i - 1].effective
                       /\ t.snapshots[i].effective >= t.drafts[t.snapshots[i].id].effective
                       /\ t.snapshots[i].sequence > t.snapshots[i - 1].sequence
                       /\ t.snapshots[i].sequence \in DOMAIN t.events
                       /\ t.events[t.snapshots[i].sequence] =
                             [kind |-> "PUBLISHED", id |-> t.snapshots[i].id]
<1> HIDE DEF k, n
<1>16. ASSUME NEW i \in 2..k PROVE Told1(i)
  <2>1. /\ i \in 1..k /\ i - 1 \in 1..k
        /\ t.snapshots[i] = store.snapshots[i] /\ t.snapshots[i - 1] = store.snapshots[i - 1]
    BY <1>5, <1>12
  <2>2. /\ store.snapshots[i].id \in Drafts /\ store.snapshots[i].id # d
        /\ store.drafts[store.snapshots[i].id].status = "PUBLISHED"
        /\ store.drafts[store.snapshots[i].id].base = store.snapshots[i - 1].id
        /\ store.snapshots[i].effective >= store.snapshots[i - 1].effective
        /\ store.snapshots[i].effective >= store.drafts[store.snapshots[i].id].effective
        /\ store.snapshots[i].sequence > store.snapshots[i - 1].sequence
        /\ store.snapshots[i].sequence \in DOMAIN store.events
        /\ store.events[store.snapshots[i].sequence] =
              [kind |-> "PUBLISHED", id |-> store.snapshots[i].id]
    BY <1>4, <1>5, <2>1 DEF ChainInv, Traced, Names, k
  <2> QED BY <1>13, <1>14, <2>1, <2>2
<1>17. Told1(k + 1)
  <2>1. t.snapshots[k + 1] = x /\ t.snapshots[(k + 1) - 1] = Newest
    BY <1>5, <1>12
  <2> QED BY <1>2, <1>3, <1>5, <1>6, <1>8, <1>13, <1>14, <1>15, <2>1
<1>18. Traced(t)
  <2>1. \A i \in 2..(k + 1) : i \in 2..k \/ i = k + 1
    BY <1>5
  <2>2. \A i \in 2..(k + 1) : Told1(i)
    BY <1>16, <1>17, <2>1
  <2> QED BY <1>12, <2>2 DEF Traced
<1>19. Told(t)
  <2>1. \A c \in Drafts : t.drafts[c].status = "PUBLISHED" => c \in Names(t)
    <3> SUFFICES ASSUME NEW c \in Drafts, t.drafts[c].status = "PUBLISHED"
                 PROVE  c \in Names(t)
      OBVIOUS
    <3>1. CASE c = d
      BY <1>5, <1>8, <1>12, <3>1 DEF Names
    <3>2. CASE c # d
      <4>1. c \in Names(store)
        BY <1>14, <3>2 DEF ChainInv, Told
      <4>2. PICK i \in 1..k : c = store.snapshots[i].id
        BY <1>5, <4>1 DEF Names
      <4> QED BY <1>5, <1>12, <4>2 DEF Names
    <3> QED BY <3>1, <3>2
  <2>2. /\ IsFiniteSet(store.revoked) /\ store.revoked = Withdrawals(store.events)
        /\ Len(store.events) = k - 1 + Cardinality(store.revoked)
    BY DEF ChainInv, Told, k
  <2>3. Len(t.events) = Len(t.snapshots) - 1 + Cardinality(t.revoked)
    <3>1. Cardinality(store.revoked) \in Nat
      BY <2>2, FS_CardinalityType
    <3> QED BY <1>5, <1>11, <1>12, <1>13, <2>2, <3>1
  <2> QED BY <1>11, <1>13, <2>1, <2>2, <2>3 DEF Told
<1> QED BY <1>9, <1>11, <1>18, <1>19, ProposeChain

(* ChainInv is inductive: one case for each operation that proposes, and   *)
(* saving puts a copy that tells the story in the place of the stream.     *)
LEMMA NextChain ==
    ASSUME IInv, ChainInv, [Next]_vars
    PROVE  ChainInv'
<1>1. Good(store) /\ store \in State /\ Traced(store) /\ Told(store)
  BY DEF IInv, Good, ChainInv
<1>2. ASSUME NEW h \in Handlers, NEW u \in Users, NEW d \in Drafts, NEW t \in Instants,
             CreateDraft(h, u, d, t)
      PROVE  ChainInv'
  <2> DEFINE r == [status |-> "DRAFT", revision |-> 1, author |-> u, reviewer |-> Nobody,
                   base |-> Newest.id, effective |-> t]
             s == [store EXCEPT !.drafts = [store.drafts EXCEPT ![d] = r]]
  <2>1. Newest \in Snapshot
    <3>1. store.snapshots \in Seq(Snapshot) /\ store.snapshots # << >>
      BY <1>1 DEF Good, State
    <3> QED BY <3>1 DEF Newest
  <2>2. r \in Draft /\ r.status # "PUBLISHED"
    BY <2>1 DEF Draft, Snapshot
  <2>3. d \notin Names(store)
    <3>1. store.drafts[d].status = "ABSENT"
      BY <1>2 DEF CreateDraft, Created
    <3> QED BY <1>1, <3>1, GovernanceAssumption DEF Good, NamesTaken, Names
  <2>4. Propose(h, s)
    BY <1>1, <1>2 DEF CreateDraft, State
  <2> HIDE DEF r
  <2>5. s \in State /\ Traced(s) /\ Told(s)
    BY <1>1, <2>2, <2>3, DraftChain
  <2> QED BY <2>4, <2>5, ProposeChain
<1>3. ASSUME NEW h \in Handlers, NEW d \in Drafts, NEW u \in Users \cup {Nobody},
             NEW v \in {"IN_REVIEW", "APPROVED", "REJECTED"},
             store.drafts[d].status \in {"DRAFT", "IN_REVIEW"},
             Propose(h, [store EXCEPT !.drafts = [store.drafts EXCEPT ![d] = Advanced(d, v, u)]])
      PROVE  ChainInv'
  <2> DEFINE r == Advanced(d, v, u)
             s == [store EXCEPT !.drafts = [store.drafts EXCEPT ![d] = r]]
  <2>1. r \in Draft /\ r.status # "PUBLISHED" /\ d \notin Names(store)
    BY <1>1, <1>3, AdvancedType, Unpublished
  <2>2. Propose(h, s)
    BY <1>3
  <2> HIDE DEF r
  <2>3. s \in State /\ Traced(s) /\ Told(s)
    BY <1>1, <2>1, DraftChain
  <2> QED BY <2>2, <2>3, ProposeChain
<1>4. ASSUME NEW h \in Handlers, NEW u \in Users, NEW d \in Drafts, NEW e \in 1..4,
             Submit(h, u, d, e)
      PROVE  ChainInv'
  <2>1. /\ store.drafts[d].status = "DRAFT"
        /\ store.drafts[d].reviewer \in Users \cup {Nobody}
    BY <1>1, <1>4 DEF Submit, Allowed, State, Draft
  <2>2. Propose(h, [store EXCEPT !.drafts =
                       [store.drafts EXCEPT ![d] =
                           Advanced(d, "IN_REVIEW", store.drafts[d].reviewer)]])
    BY <1>1, <1>4 DEF Submit, State
  <2> QED BY <1>3, <2>1, <2>2
<1>5. ASSUME NEW h \in Handlers, NEW u \in Users, NEW d \in Drafts, NEW e \in 1..4,
             NEW v \in {"APPROVED", "REJECTED"}, Review(h, u, d, e, v)
      PROVE  ChainInv'
  <2>1. store.drafts[d].status = "IN_REVIEW"
    BY <1>5 DEF Review, Allowed
  <2>2. Propose(h, [store EXCEPT !.drafts =
                       [store.drafts EXCEPT ![d] = Advanced(d, v, u)]])
    BY <1>1, <1>5 DEF Review, State
  <2> QED BY <1>3, <2>1, <2>2
<1>6. ASSUME NEW h \in Handlers, Save(h) PROVE ChainInv'
  <2>1. PICK s \in proposal[h] : store' = s /\ proposal' = [proposal EXCEPT ![h] = {}]
    BY <1>6 DEF Save
  <2>2. \A g \in Handlers : \A t \in proposal'[g] : t \in proposal[g]
    BY <2>1 DEF IInv, TypeOK
  <2>3. (Traced(store) /\ Told(store))'
    BY <2>1 DEF ChainInv
  <2>4. (\A g \in Handlers : \A t \in proposal[g] : Traced(t) /\ Told(t))'
    BY <2>2 DEF ChainInv
  <2> QED BY <2>3, <2>4 DEF ChainInv
<1>7. ASSUME store' = store, \A g \in Handlers : \A t \in proposal'[g] : t \in proposal[g]
      PROVE  ChainInv'
  <2>1. (Traced(store) /\ Told(store))'
    BY <1>1, <1>7
  <2>2. (\A g \in Handlers : \A t \in proposal[g] : Traced(t) /\ Told(t))'
    BY <1>7 DEF ChainInv
  <2> QED BY <2>1, <2>2 DEF ChainInv
<1>8. ASSUME NEW h \in Handlers, Drop(h) PROVE ChainInv'
  <2>1. store' = store /\ \A g \in Handlers : \A t \in proposal'[g] : t \in proposal[g]
    BY <1>8 DEF Drop, IInv, TypeOK
  <2> QED BY <1>7, <2>1
<1>9. Tick \/ (\E r \in Runs : Admit(r)) \/ UNCHANGED vars => ChainInv'
  <2>1. Tick \/ (\E r \in Runs : Admit(r)) \/ UNCHANGED vars => UNCHANGED <<store, proposal>>
    BY DEF Tick, Admit, vars
  <2> QED BY <1>7, <2>1
<1> QED BY <1>2, <1>4, <1>5, <1>6, <1>8, <1>9, PublishChain, RevokeChain DEF Next, Govern, Idle

(* The inductive invariant behind the next theorem.                        *)
THEOREM ChainInvariance == Spec => []ChainInv
<1>1. Init => ChainInv
  <2> SUFFICES ASSUME Init PROVE ChainInv
    OBVIOUS
  <2>1. /\ Len(store.snapshots) = 1 /\ store.events = << >> /\ store.revoked = {}
        /\ \A d \in Drafts : store.drafts[d].status = "ABSENT"
    BY DEF Init, NoDraft
  <2>2. Withdrawals(store.events) = {}
    BY <2>1 DEF Withdrawals
  <2>3. Traced(store)
    BY <2>1 DEF Traced
  <2>4. Told(store)
    BY <2>1, <2>2, FS_EmptySet DEF Told
  <2> QED BY <2>3, <2>4 DEF Init, ChainInv
<1>2. IInv /\ ChainInv /\ [Next]_vars => ChainInv'
  BY NextChain
<1> QED BY <1>1, <1>2, Invariance, PTL DEF Spec

(* Every publication was reviewed against the publication it replaced, and *)
(* the event log tells the same story as the stream, for any number of     *)
(* handlers that overlap.                                                  *)
THEOREM PublicationChainAlways == Spec => []PublicationChain
<1>1. IInv /\ ChainInv => PublicationChain
  <2> SUFFICES ASSUME IInv, ChainInv PROVE PublicationChain
    OBVIOUS
  <2>1. store.events \in Seq(Event)
    BY DEF IInv, Good, State
  <2>2. {v.id : v \in {store.events[k] : k \in DOMAIN store.events} \cap
                      [kind : {"REVOKED"}, id : Ids]} = Withdrawals(store.events)
    <3> DEFINE Noted == {store.events[k] : k \in DOMAIN store.events} \cap
                        [kind : {"REVOKED"}, id : Ids]
    <3>1. \A v \in [kind : {"REVOKED"}, id : Ids] :
             v = [kind |-> "REVOKED", id |-> v.id] /\ v.id \in Ids
      OBVIOUS
    <3>2. \A v \in Noted : v.id \in Withdrawals(store.events)
      BY <3>1 DEF Withdrawals
    <3>3. ASSUME NEW y \in Withdrawals(store.events) PROVE \E v \in Noted : v.id = y
      <4>1. PICK k \in DOMAIN store.events : store.events[k] = [kind |-> "REVOKED", id |-> y]
        BY DEF Withdrawals
      <4>2. y \in Ids
        BY DEF Withdrawals
      <4>3. store.events[k] \in Noted /\ store.events[k].id = y
        BY <4>1, <4>2
      <4> QED BY <4>3
    <3> QED BY <3>2, <3>3
  <2>3. Traced(store) /\ Told(store)
    BY DEF ChainInv
  <2> QED BY <2>2, <2>3 DEF Traced, Told, PublicationChain, Published, Names
<1> QED BY <1>1, Invariance, ChainInvariance, PTL
-----------------------------------------------------------------------------
(* Answers and the publications they are pinned to                         *)

(* A late answer stays withdrawn, because a withdrawal is never undone, so *)
(* that no check after its release succeeds, and it is given only after a  *)
(* check; a request that passed its check and was not overtaken has a      *)
(* publication that still stands.                                          *)
LateInv ==
    /\ AnswersTypeOK
    /\ \A r \in Runs : pin[r] = Nobody <=> answer[r] = "none"
    /\ \A r \in Runs : client[r] # "none" => answer[r] # "none"
    /\ \A r \in Runs : client[r] \in {"reading"} \cup Given => answer[r] = "released"
    /\ \A r \in Runs : client[r] = "checked" => pin[r] \notin store.revoked
    /\ \A r \in late : answer[r] = "released" /\ pin[r] \in store.revoked
    /\ WithdrawnNeverShown
-----------------------------------------------------------------------------
(* Seen from governance a step of a run is an admission or a stutter.      *)
LEMMA StepGoverns ==
    ASSUME [AnswersNext]_<<vars, answers>>
    PROVE  [Next]_vars
<1>1. CASE UNCHANGED <<vars, answers>>
  BY <1>1
<1>2. CASE Governance
  BY <1>2 DEF Governance, Next
<1>3. ASSUME NEW r \in Runs, Ask(r) PROVE [Next]_vars
  BY <1>3 DEF Ask, Next
<1>4. ASSUME NEW r \in Runs,
             Start(r) \/ Compose(r) \/ Clear(r) \/ Release(r) \/ Abandon(r) \/ Read(r) \/ Show(r)
             \/ CheckCaller(r) \/ Cancel(r)
      PROVE  UNCHANGED vars
  BY <1>4 DEF Start, Compose, Clear, Advance, Release, Abandon, Read, Show, CheckCaller, Cancel
<1> QED BY <1>1, <1>2, <1>3, <1>4 DEF AnswersNext

(* The composition runs governance as it is.                               *)
LEMMA GovernanceInside == AnswersSpec => Spec
<1>1. AnswersInit => Init
  BY DEF AnswersInit
<1>2. [AnswersNext]_<<vars, answers>> => [Next]_vars
  BY StepGoverns
<1> QED BY <1>1, <1>2, PTL DEF AnswersSpec, Spec

(* Withdrawals are never undone.                                           *)
LEMMA RevokedGrows ==
    ASSUME IInv, [Next]_vars
    PROVE  store.revoked \subseteq store'.revoked
<1>1. Evolves
  BY NextInv
<1> QED BY <1>1 DEF Evolves, OneStep, Published1

(* Governance moves no pin.                                                *)
LEMMA GovernKeepsPins ==
    ASSUME Govern
    PROVE  pin' = pin
<1>1. ASSUME NEW h \in Handlers, NEW u \in Users, NEW d \in Drafts,
             \/ \E t \in Instants : CreateDraft(h, u, d, t)
             \/ \E e \in 1..4 : Submit(h, u, d, e) \/ Publish(h, u, d, e)
             \/ \E e \in 1..4, v \in {"APPROVED", "REJECTED"} : Review(h, u, d, e, v)
      PROVE  pin' = pin
  BY <1>1 DEF CreateDraft, Submit, Publish, Review, Propose
<1>2. ASSUME NEW h \in Handlers, NEW u \in Users, NEW x \in Ids,
             Revoke(h, u, x, store.revision)
      PROVE  pin' = pin
  BY <1>2 DEF Revoke, Propose
<1>3. ASSUME NEW h \in Handlers, Save(h) \/ Drop(h)
      PROVE  pin' = pin
  BY <1>3 DEF Save, Drop
<1>4. CASE Tick
  BY <1>4 DEF Tick
<1> QED BY <1>1, <1>2, <1>3, <1>4 DEF Govern, Idle

(* LateInv is inductive: one case for each action.                         *)
LEMMA LateInvariant ==
    ASSUME IInv, LateInv, [AnswersNext]_<<vars, answers>>
    PROVE  LateInv'
<1>1. store.revoked \subseteq store'.revoked
  BY StepGoverns, RevokedGrows
<1> USE DEF LateInv, AnswersTypeOK, WithdrawnNeverShown, Given, Request, Become
<1>2. CASE UNCHANGED <<vars, answers>>
  BY <1>2 DEF vars, answers
<1>3. CASE Governance
  <2>1. pin' = pin /\ UNCHANGED <<answer, late>>
    BY <1>3, GovernKeepsPins DEF Governance
  <2>2. \A r \in Runs :
           client'[r] = IF client[r] = "checked" /\ pin[r] \in store'.revoked
                        THEN "overtaken" ELSE client[r]
    BY <1>3 DEF Governance
  <2>3. AnswersTypeOK'
    BY <1>3, <2>1 DEF Governance
  <2> QED BY <1>1, <2>1, <2>2, <2>3
<1>4. ASSUME NEW r \in Runs, Ask(r) PROVE LateInv'
  <2>1. /\ pin[r] = Nobody /\ pin' = [pin EXCEPT ![r] = store.snapshots[Current].id]
        /\ UNCHANGED <<store, client, late>>
        /\ answer' = [answer EXCEPT ![r] = "asked"]
    BY <1>4 DEF Ask, Admit
  <2>2. IInv'
    BY NextInv, StepGoverns
  <2>3. pin \in [Runs -> Ids \cup {Nobody}] /\ pin'[r] # Nobody
    <3>1. pin \in [Runs -> Ids \cup {Nobody}]
      BY DEF IInv, TypeOK
    <3>2. store.snapshots[Current].id \in Ids
      <4>1. LastAt(store, clock, Current)
        BY CurrentIsLast DEF IInv, TypeOK
      <4>2. store.snapshots \in Seq(Snapshot) /\ Current \in DOMAIN store.snapshots
        BY <4>1 DEF IInv, TypeOK, State, LastAt
      <4>3. store.snapshots[Current] \in Snapshot
        BY <4>2
      <4> QED BY <4>3 DEF Snapshot
    <3> QED BY <2>1, <3>1, <3>2, GovernanceAssumption
  <2>4. /\ answer[r] = "none" /\ r \notin late /\ client[r] = "none"
    BY <2>1
  <2> QED BY <2>1, <2>3, <2>4 DEF Ahead
<1>5. ASSUME NEW r \in Runs, NEW from \in Ahead, NEW to \in Ahead, Advance(r, from, to)
      PROVE  LateInv'
  BY <1>5 DEF Advance, Ahead, vars
<1>6. ASSUME NEW r \in Runs, Release(r) PROVE LateInv'
  BY <1>6 DEF Release, vars
<1>7. ASSUME NEW r \in Runs, Abandon(r) PROVE LateInv'
  BY <1>7 DEF Abandon, Ahead, vars
<1>8. ASSUME NEW r \in Runs, Read(r) PROVE LateInv'
  BY <1>8 DEF Read, vars
<1>9. ASSUME NEW r \in Runs, Show(r) PROVE LateInv'
  BY <1>9 DEF Show, Visible, Available, vars
<1>10. ASSUME NEW r \in Runs, Start(r) \/ Compose(r) \/ Clear(r) PROVE LateInv'
  BY <1>5, <1>10 DEF Start, Compose, Clear, Ahead
<1>11. ASSUME NEW r \in Runs, CheckCaller(r) PROVE LateInv'
  <2>1. /\ client[r] = "none" /\ client' = [client EXCEPT ![r] = "checked"]
        /\ answer[r] # "none" /\ pin[r] \notin store.revoked
        /\ UNCHANGED <<store, pin, answer, late>>
    BY <1>11 DEF CheckCaller, Available, Ahead, vars
  <2>2. r \notin late
    BY <2>1
  <2> QED BY <2>1, <2>2
<1>12. ASSUME NEW r \in Runs, Cancel(r) PROVE LateInv'
  BY <1>12 DEF Cancel, Ahead, vars
<1> QED BY <1>2, <1>3, <1>4, <1>6, <1>7, <1>8, <1>9, <1>10, <1>11, <1>12 DEF AnswersNext
-----------------------------------------------------------------------------
(* An answer released after its publication was withdrawn is given to no   *)
(* reader, and to who cancels its run only when the withdrawal overtook    *)
(* that handler, for any governance, any runs and any timing.              *)
THEOREM WithdrawnNeverShownEver == AnswersSpec => []WithdrawnNeverShown
<1>1. AnswersInit => LateInv
  BY DEF AnswersInit, Init, LateInv, AnswersTypeOK, WithdrawnNeverShown, Given
<1>2. AnswersSpec => []IInv
  BY GovernanceInside, Invariance, PTL
<1>3. IInv /\ LateInv /\ [AnswersNext]_<<vars, answers>> => LateInv'
  BY LateInvariant
<1>4. LateInv => WithdrawnNeverShown
  BY DEF LateInv
<1> QED BY <1>1, <1>2, <1>3, <1>4, PTL DEF AnswersSpec
=============================================================================
