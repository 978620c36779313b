------------------------ MODULE DefinitionGovernance ------------------------
(***************************************************************************)
(* Review and publication of business definitions                          *)
(* (services/definition_governance.py) over the compare-and-swap stores    *)
(* (services/definition_store.py, services/postgres_governance.py).        *)
(*                                                                         *)
(* A handler reads the whole stream, changes its copy and saves it if the  *)
(* stream's revision is still the one it read.  Handlers of several        *)
(* processes overlap, so reading and saving are two actions; the reading   *)
(* one also makes the change, since nothing is awaited between the two.    *)
(* A publication's id is the hash of its pack, and each edit raises a      *)
(* definition version: it is named here by the draft that it publishes.    *)
(***************************************************************************)
EXTENDS Integers, Sequences, FiniteSets

CONSTANTS
    Users, Drafts, Handlers,
    Runs,               \* runs and saved answers that pin a publication
    Seed,               \* the approved bootstrap publication
    Nobody,             \* no user, and a run without a pin
    Permits,            \* the actions each user holds, with full clearance
    SeparateReviewer,   \* FALSE in the demonstration profile
    MaximumDrafts,      \* 64
    MaximumSnapshots,   \* 64
    Horizon             \* bound on the clock

Acts == {"EDIT", "REVIEW", "PUBLISH", "REVOKE"}
Ids  == Drafts \cup {Seed}

ASSUME GovernanceAssumption ==
    /\ Seed \notin Drafts
    /\ Nobody \notin Users /\ Nobody \notin Ids
    /\ Permits \in [Users -> SUBSET Acts]
    /\ SeparateReviewer \in BOOLEAN
    /\ MaximumDrafts \in Nat /\ MaximumSnapshots \in Nat
    /\ Horizon \in Nat

VARIABLES
    store,      \* the committed stream, a State
    proposal,   \* the changed copy each handler is about to save, or nothing
    clock,
    pin         \* the publication each run was admitted with

vars == <<store, proposal, clock, pin>>

Instants  == 0..Horizon
Draft     == [status : {"ABSENT", "DRAFT", "IN_REVIEW", "APPROVED", "REJECTED", "PUBLISHED"},
              revision : Nat, author : Users \cup {Nobody},
              reviewer : Users \cup {Nobody}, base : Ids, effective : Instants]
Snapshot  == [id : Ids, sequence : Nat, effective : Instants]
Event     == [kind : {"PUBLISHED", "REVOKED"}, id : Ids]
State     == [revision : Nat, snapshots : Seq(Snapshot), drafts : [Drafts -> Draft],
              events : Seq(Event), revoked : SUBSET Ids]

TypeOK ==
    /\ store \in State /\ store.snapshots # << >>
    /\ proposal \in [Handlers -> SUBSET State]
    /\ clock \in Instants
    /\ pin \in [Runs -> Ids \cup {Nobody}]

NoDraft == [status |-> "ABSENT", revision |-> 0, author |-> Nobody,
            reviewer |-> Nobody, base |-> Seed, effective |-> 0]

Init ==
    /\ store = [revision |-> 1,
                snapshots |-> <<[id |-> Seed, sequence |-> 0, effective |-> 0]>>,
                drafts |-> [d \in Drafts |-> NoDraft],
                events |-> << >>, revoked |-> {}]
    /\ proposal = [h \in Handlers |-> {}]
    /\ clock = 0
    /\ pin = [r \in Runs |-> Nobody]

Newest    == store.snapshots[Len(store.snapshots)]
Published == {store.snapshots[i].id : i \in DOMAIN store.snapshots}
Created   == {d \in Drafts : store.drafts[d].status # "ABSENT"}

(* _current: the latest effective time, then the latest publication.       *)
Current ==
    CHOOSE i \in DOMAIN store.snapshots :
        LET s == store.snapshots IN
        /\ s[i].effective <= clock
        /\ \A j \in DOMAIN s : s[j].effective <= clock =>
              \/ s[j].effective < s[i].effective
              \/ s[j].effective = s[i].effective /\ s[j].sequence <= s[i].sequence
-----------------------------------------------------------------------------
(* A handler changes its copy                                              *)

Propose(h, changed) ==
    /\ proposal[h] = {}
    /\ proposal' = [proposal EXCEPT ![h] = {[changed EXCEPT !.revision = @ + 1]}]
    /\ UNCHANGED <<store, clock, pin>>

(* create_draft, by u, asking for time t; the id is new to every handler.  *)
CreateDraft(h, u, d, t) ==
    /\ "EDIT" \in Permits[u]
    /\ d \notin Created
    /\ \A g \in Handlers : \A s \in proposal[g] : s.drafts[d].status = "ABSENT"
    /\ Cardinality(Created) < MaximumDrafts
    /\ Propose(h, [store EXCEPT !.drafts[d] =
          [status |-> "DRAFT", revision |-> 1, author |-> u, reviewer |-> Nobody,
           base |-> Newest.id, effective |-> t]])

(* transition: u holds the action's grant and saw the draft at revision e. *)
Allowed(u, act, d, e, required) ==
    /\ act \in Permits[u]
    /\ store.drafts[d].status = required
    /\ store.drafts[d].revision = e

(* The draft's next revision.                                              *)
Advanced(d, status, reviewer) ==
    LET r == store.drafts[d] IN
    [status |-> status, revision |-> r.revision + 1, author |-> r.author,
     reviewer |-> reviewer, base |-> r.base, effective |-> r.effective]

Submit(h, u, d, e) ==
    /\ Allowed(u, "EDIT", d, e, "DRAFT")
    /\ store.drafts[d].author = u
    /\ Propose(h, [store EXCEPT !.drafts[d] =
          Advanced(d, "IN_REVIEW", store.drafts[d].reviewer)])

(* Mutant: authors review their own drafts.                                *)
AnyReviewer(u, d) == TRUE

Independent(u, d) == SeparateReviewer => store.drafts[d].author # u

Review(h, u, d, e, verdict) ==
    /\ Allowed(u, "REVIEW", d, e, "IN_REVIEW")
    /\ Independent(u, d)
    /\ Propose(h, [store EXCEPT !.drafts[d] = Advanced(d, verdict, u)])

Latest(t, u) == IF t >= u THEN t ELSE u

(* Publication cannot be backdated, nor precede the publication before it. *)
EffectiveOf(d) == Latest(Latest(store.drafts[d].effective, clock), Newest.effective)

(* Mutant: a draft is published over a head its reviewer never saw.        *)
Rebased(d) == Len(store.snapshots) < MaximumSnapshots

Publishable(d) ==
    /\ store.drafts[d].base = Newest.id
    /\ Len(store.snapshots) < MaximumSnapshots

Publish(h, u, d, e) ==
    LET next == Len(store.events) + 1 IN
    /\ Allowed(u, "PUBLISH", d, e, "APPROVED")
    /\ Publishable(d)
    /\ Propose(h, [store EXCEPT
          !.snapshots = Append(@, [id |-> d, sequence |-> next, effective |-> EffectiveOf(d)]),
          !.events = Append(@, [kind |-> "PUBLISHED", id |-> d]),
          !.drafts[d] = Advanced(d, "PUBLISHED", store.drafts[d].reviewer)])

(* Mutant: the withdrawn publication is not looked up.                     *)
RevocableUnread(x, e) == e = store.revision /\ x \notin store.revoked

Revocable(x, e) == e = store.revision /\ x \in Published \ store.revoked

(* revoke, by a user who saw the stream at revision e.                     *)
Revoke(h, u, x, e) ==
    /\ "REVOKE" \in Permits[u]
    /\ Revocable(x, e)
    /\ Propose(h, [store EXCEPT !.revoked = @ \cup {x},
                                !.events = Append(@, [kind |-> "REVOKED", id |-> x])])
-----------------------------------------------------------------------------
(* A handler saves its copy                                                *)

(* Mutant: the stored revision is not compared.                            *)
StillCurrent(s) == TRUE

Unchanged(s) == store.revision = s.revision - 1

Save(h) ==
    \E s \in proposal[h] :
        /\ Unchanged(s)
        /\ store' = s
        /\ proposal' = [proposal EXCEPT ![h] = {}]
        /\ UNCHANGED <<clock, pin>>

(* A conflict, an unavailable database or the death of the process.        *)
Drop(h) ==
    /\ proposal[h] # {}
    /\ proposal' = [proposal EXCEPT ![h] = {}]
    /\ UNCHANGED <<store, clock, pin>>
-----------------------------------------------------------------------------
(* resolve with require_current, when a run is admitted.                   *)
Admit(r) ==
    /\ pin[r] = Nobody
    /\ store.snapshots[Current].id \notin store.revoked
    /\ pin' = [pin EXCEPT ![r] = store.snapshots[Current].id]
    /\ UNCHANGED <<store, proposal, clock>>

Tick ==
    /\ clock < Horizon
    /\ clock' = clock + 1
    /\ UNCHANGED <<store, proposal, pin>>

(* A handler works on one request at a time.                                *)
Idle == {h \in Handlers : proposal[h] = {}}

Govern ==
    \/ \E h \in Idle, u \in Users, d \in Drafts :
          \/ \E t \in Instants : CreateDraft(h, u, d, t)
          \/ \E e \in 1..4 : Submit(h, u, d, e) \/ Publish(h, u, d, e)
          \/ \E e \in 1..4, v \in {"APPROVED", "REJECTED"} : Review(h, u, d, e, v)
    \/ \E h \in Idle, u \in Users, x \in Ids : Revoke(h, u, x, store.revision)
    \/ \E h \in Handlers : Save(h) \/ Drop(h)
    \/ Tick

Next == Govern \/ \E r \in Runs : Admit(r)

Spec == Init /\ [][Next]_vars
-----------------------------------------------------------------------------
(* Properties                                                              *)

(* Every publication was reviewed against the publication it replaced, is  *)
(* effective no earlier than it and than its author asked, and belongs to  *)
(* one published draft; the event log tells the same story as the stream.  *)
PublicationChain ==
    LET s == store.snapshots IN
    /\ \A i \in 2..Len(s) :
        /\ s[i].id \in Drafts
        /\ store.drafts[s[i].id].status = "PUBLISHED"
        /\ store.drafts[s[i].id].base = s[i - 1].id
        /\ s[i].effective >= s[i - 1].effective
        /\ s[i].effective >= store.drafts[s[i].id].effective
        /\ s[i].sequence > s[i - 1].sequence
        /\ store.events[s[i].sequence] = [kind |-> "PUBLISHED", id |-> s[i].id]
    /\ \A d \in Drafts : store.drafts[d].status = "PUBLISHED" => d \in Published
    /\ store.revoked = {e.id : e \in {store.events[k] : k \in DOMAIN store.events} \cap
                                     [kind : {"REVOKED"}, id : Ids]}
    /\ Len(store.events) = Len(s) - 1 + Cardinality(store.revoked)

(* Where reviewers are separate, nobody's edit goes live on their own      *)
(* word: author and reviewer differ and each held the grant it takes.      *)
FourEyes ==
    \A d \in Drafts :
        LET r == store.drafts[d] IN
        SeparateReviewer /\ r.status \in {"APPROVED", "PUBLISHED"} =>
            /\ r.author # r.reviewer
            /\ r.author \in Users /\ "EDIT" \in Permits[r.author]
            /\ r.reviewer \in Users /\ "REVIEW" \in Permits[r.reviewer]

(* The publication questions are answered with never steps back, whether   *)
(* time passes, handlers race or scheduled publications come into effect.  *)
CurrentNeverRegresses == [][Current' >= Current]_vars

(* A run or saved answer can always be resolved again: the publication it  *)
(* pinned is in the stream and in effect, however many handlers overlap.   *)
PinnedStaysAvailable ==
    \A r \in Runs : pin[r] # Nobody =>
        \E i \in DOMAIN store.snapshots :
            store.snapshots[i].id = pin[r] /\ store.snapshots[i].effective <= clock

(* Readers see an append-only log of publications and withdrawals.         *)
Log == INSTANCE Publications WITH
          log <- [i \in DOMAIN store.snapshots |->
                     [id |-> store.snapshots[i].id,
                      effective |-> store.snapshots[i].effective]],
          withdrawn <- store.revoked,
          now <- clock
LogSpec == Log!Spec
=============================================================================
