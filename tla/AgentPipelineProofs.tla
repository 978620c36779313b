------------------------ MODULE AgentPipelineProofs ------------------------
(***************************************************************************)
(* Theorems about AgentPipeline, for every catalog, every identity, every  *)
(* set of requests and every content of the source.                        *)
(***************************************************************************)
EXTENDS AgentPipeline, FiniteSetTheorems, WellFoundedInduction, TLAPS

(* First returns the outcome of a gate that holds and comes before every   *)
(* other that does, as the early returns of a handler do.                  *)
LEMMA FirstGate ==
    ASSUME NEW gates, NEW n \in 1..Len(gates), Len(gates) \in Nat, gates[n][1]
    PROVE  \E i \in 1..Len(gates) : /\ gates[i][1]
                                    /\ \A j \in 1..Len(gates) : gates[j][1] => i <= j
                                    /\ First(gates) = gates[i][2]
<1> DEFINE hit == {i \in 1..Len(gates) : gates[i][1]}
<1>1. hit # {} /\ hit \subseteq Nat
  OBVIOUS
<1> DEFINE less == OpToRel(<, Nat)
<1>2. IsWellFoundedOn(less, Nat)
  BY NatLessThanWellFounded
<1>3. \A i, j \in Nat : j < i => <<j, i>> \in less
  <2>1. less = {ss \in Nat \X Nat : ss[1] < ss[2]}
    BY Zenon DEF OpToRel
  <2> QED BY <2>1
<1> HIDE DEF less, hit
<1>4. PICK i \in hit : \A j \in hit : <<j, i>> \notin less
  BY <1>1, <1>2, WFMin
<1>5. ASSUME NEW j \in hit PROVE i <= j
  <2>1. i \in Nat /\ j \in Nat
    BY <1>1
  <2>2. <<j, i>> \notin less
    BY <1>4
  <2>3. ~(j < i)
    BY <1>3, <2>1, <2>2
  <2> QED BY <2>1, <2>3
<1>6. \A k \in hit : (\A j \in hit : k <= j) => k = i
  BY <1>1, <1>5
<1>7. First(gates) = gates[i][2]
  BY <1>5, <1>6 DEF First, hit
<1> QED BY <1>5, <1>7 DEF hit

(* What a verdict of admissibility.evaluate says of its question: it is    *)
(* one of the verdicts, and one that proceeds has passed the check of      *)
(* classifications.                                                        *)
LEMMA VerdictMeans ==
    ASSUME NEW question, NEW a, NEW i
    PROVE  /\ Verdict(question, a, i) \in Verdicts
           /\ Verdict(question, a, i) \in Proceeds => ScopeCleared(a, i)
<1> DEFINE gates == Gates(question, a, i)
<1>1. Len(gates) = 12 /\ gates[12][1]
  BY DEF Gates
<1>2. PICK k \in 1..12 : /\ gates[k][1]
                         /\ \A j \in 1..12 : gates[j][1] => k <= j
                         /\ First(gates) = gates[k][2]
  <2>1. 12 \in 1..Len(gates) /\ Len(gates) \in Nat
    BY <1>1
  <2> HIDE DEF gates
  <2>2. \E n \in 1..Len(gates) : /\ gates[n][1]
                                  /\ \A j \in 1..Len(gates) : gates[j][1] => n <= j
                                  /\ First(gates) = gates[n][2]
    BY <1>1, <2>1, FirstGate
  <2> QED BY <1>1, <2>2
<1>3. Verdict(question, a, i) = gates[k][2]
  BY <1>2 DEF Verdict
<1>4. gates[k][2] \in Verdicts
  BY DEF Gates, Verdicts
<1>5. gates[k][2] \in Proceeds => k \in {9, 10}
  BY DEF Gates, Proceeds
<1>6. k \in {9, 10} => ~gates[4][1]
  BY <1>2
<1>7. ~gates[4][1] => ScopeCleared(a, i)
  BY DEF Gates
<1> QED BY <1>3, <1>4, <1>5, <1>6, <1>7

-----------------------------------------------------------------------------
(* What a screened plan has passed: validate_plan comes before anything is *)
(* sent, and the reasons to decline are two.                               *)
LEMMA ScreeningMeans ==
    ASSUME NEW j
    PROVE  /\ Screening(j) \in {"NONE", "INVALID", "SOURCE_NOT_READY"}
           /\ Screening(j) = "NONE" => Accepts(j)
<1> DEFINE first  == j.kind = "SEED" /\ Mapped(j) /\ ~Inside(j.periods[1], SeedSpan)
           third  == j.kind = "CSV" /\ \E i \in DOMAIN j.periods :
                       ~(j.periods[i].start..j.periods[i].end \subseteq {f.day : f \in Facts[j.world]})
           gates  == << <<first, "SOURCE_NOT_READY">>, <<~Accepts(j), "INVALID">>,
                        <<third, "SOURCE_NOT_READY">>, <<TRUE, "NONE">> >>
<1>1. Screening(j) = First(gates)
  BY DEF Screening
<1> HIDE DEF first, third
<1>2. Len(gates) = 4 /\ gates[4][1]
  OBVIOUS
<1>3. PICK k \in 1..4 : /\ gates[k][1]
                        /\ \A i \in 1..4 : gates[i][1] => k <= i
                        /\ First(gates) = gates[k][2]
  <2>1. 4 \in 1..Len(gates) /\ Len(gates) \in Nat
    BY <1>2
  <2> HIDE DEF gates
  <2>2. \E n \in 1..Len(gates) : /\ gates[n][1]
                                  /\ \A i \in 1..Len(gates) : gates[i][1] => n <= i
                                  /\ First(gates) = gates[n][2]
    BY <1>2, <2>1, FirstGate
  <2> QED BY <1>2, <2>2
<1>4. gates[k][2] \in {"NONE", "INVALID", "SOURCE_NOT_READY"}
  OBVIOUS
<1>5. gates[k][2] = "NONE" => k = 4
  OBVIOUS
<1>6. k = 4 => ~gates[2][1]
  BY <1>3
<1> QED BY <1>1, <1>3, <1>4, <1>5, <1>6

(* Executing a plan yields rows, or one of two reasons to decline.         *)
LEMMA SourceStatusMeans ==
    ASSUME NEW j, j.kind \in Kinds
    PROVE  SourceStatus(j) \in {"ROWS", "INVALID", "SOURCE_NOT_READY"}
<1> DEFINE Fits(gates) == \A i \in 1..Len(gates) : gates[i][2] \in {"ROWS", "INVALID", "SOURCE_NOT_READY"}
<1>1. ASSUME NEW gates, Len(gates) \in Nat, NEW n \in 1..Len(gates), gates[n][1], Fits(gates)
      PROVE  First(gates) \in {"ROWS", "INVALID", "SOURCE_NOT_READY"}
  <2>1. \E i \in 1..Len(gates) : First(gates) = gates[i][2]
    BY <1>1, FirstGate
  <2> QED BY <1>1, <2>1
<1>2. ViewStatus(j) \in {"ROWS", "INVALID", "SOURCE_NOT_READY"}
  <2> DEFINE a == Cardinality(KeysOf(j, 1)) + Cardinality(KeysOf(j, 2)) >= MaximumGroups(j)
             b == ~(SameGroups(j) /\ \A i \in DOMAIN j.periods : Whole(j, i))
             c == Overfull(j, 1)
             gates == << <<a, "INVALID">>, <<b, "SOURCE_NOT_READY">>, <<c, "INVALID">>, <<TRUE, "ROWS">> >>
  <2>1. ViewStatus(j) = First(gates)
    BY DEF ViewStatus
  <2> HIDE DEF a, b, c
  <2>2. Len(gates) = 4 /\ gates[4][1] /\ Fits(gates)
    OBVIOUS
  <2> HIDE DEF gates, Fits
  <2> QED BY <1>1, <2>1, <2>2
<1>3. CsvStatus(j) \in {"ROWS", "INVALID", "SOURCE_NOT_READY"}
  <2> DEFINE a == Overfull(j, 1)
             b == ~Whole(j, 1)
             c == Compared(j) /\ Overfull(j, 2)
             d == Compared(j) /\ ~Whole(j, 2)
             e == ~SameGroups(j)
             gates == << <<a, "INVALID">>, <<b, "SOURCE_NOT_READY">>, <<c, "INVALID">>,
                         <<d, "SOURCE_NOT_READY">>, <<e, "SOURCE_NOT_READY">>, <<TRUE, "ROWS">> >>
  <2>1. CsvStatus(j) = First(gates)
    BY DEF CsvStatus
  <2> HIDE DEF a, b, c, d, e
  <2>2. Len(gates) = 6 /\ gates[6][1] /\ Fits(gates)
    OBVIOUS
  <2> HIDE DEF gates, Fits
  <2> QED BY <1>1, <2>1, <2>2
<1>4. TableStatus(j) \in {"ROWS", "INVALID", "SOURCE_NOT_READY"}
  <2> DEFINE a == ~PeriodsCovered(j)
             b == Overfull(j, 1) \/ Overfull(j, 2)
             gates == << <<a, "SOURCE_NOT_READY">>, <<b, "INVALID">>, <<TRUE, "ROWS">> >>
  <2>1. TableStatus(j) = First(gates)
    BY DEF TableStatus
  <2> HIDE DEF a, b
  <2>2. Len(gates) = 3 /\ gates[3][1] /\ Fits(gates)
    OBVIOUS
  <2> HIDE DEF gates, Fits
  <2> QED BY <1>1, <2>1, <2>2
<1> QED BY <1>2, <1>3, <1>4 DEF SourceStatus, Kinds

-----------------------------------------------------------------------------
(* Whether only the local model names the metric.                          *)
Suggested == ~Supervised /\ request.llm /\ q.metrics = {}

(* What an interpretation keeps of the catalog and of its question: it is  *)
(* about approved metrics, those the question names if it names any, with  *)
(* the domain of everything that will be grouped by and, unless only the   *)
(* local model names it, of what will be read.                             *)
Sound(i) ==
    /\ i.metrics \subseteq Metrics
    /\ q.metrics # {} => i.metrics = q.metrics
    /\ ~Suggested => \A m \in i.metrics : Metric[m].domain \in i.domains
    /\ \A e \in i.dims : Entity[e].domain \in i.domains

(* The interpretation by rules is sound.                                   *)
LEMMA RulesSound ==
    ASSUME request \in Requests
    PROVE  Sound(Rules(q))
<1>1. QuestionShape(q)
  BY RequestsAssumption DEF q
<1> QED BY <1>1 DEF Sound, Rules, DomainsOf, QuestionShape

(* So is what grounding makes of any answer of a provider.                 *)
LEMMA GroundSound ==
    ASSUME request \in Requests, NEW p \in Proposals(access)
    PROVE  Sound(Ground(q, p))
<1>1. QuestionShape(q)
  BY RequestsAssumption DEF q
<1>2. p.metric \subseteq Metrics
  BY LanguageAssumption DEF Proposals, LanguageCatalog
<1> QED BY <1>1, <1>2 DEF Sound, Ground, Rules, DomainsOf, QuestionShape

(* And what is made of any proposal of the local model.                    *)
LEMMA MergeSound ==
    ASSUME request \in Requests, ~Supervised, request.llm, NEW p \in LocalProposals
    PROVE  Sound(Merge(q, p))
<1>1. QuestionShape(q)
  BY RequestsAssumption DEF q
<1>2. q.metrics # {} => Merge(q, p).metrics = q.metrics
  BY DEF Merge
<1>3. Merge(q, p).domains = Rules(q).domains \cup p.domains
  BY DEF Merge
<1>4. ~Suggested => \A m \in Merge(q, p).metrics : Metric[m].domain \in Merge(q, p).domains
  BY <1>2, <1>3 DEF Suggested, Rules, DomainsOf
<1>5. Merge(q, p).dims \subseteq q.entities
  BY <1>1 DEF Merge, QuestionShape
<1>6. \A e \in q.entities : Entity[e].domain \in Rules(q).domains
  BY DEF Rules, DomainsOf
<1>7. Merge(q, p).metrics \subseteq Metrics
  BY <1>1, RequestsAssumption DEF Merge, LocalProposal, QuestionShape
<1> QED BY <1>2, <1>3, <1>4, <1>5, <1>6, <1>7 DEF Sound

(* What compiling must preserve of the authority behind an interpretation, *)
(* and what it adds to it.                                                 *)
Authority(pl) ==
    /\ May(access, "READ") /\ MetricCleared(access, pl.metric)
    /\ DomainCleared(access, Metric[pl.metric].domain) \/ Suggested
    /\ \A e \in pl.dims : EntityCleared(access, e) /\ DomainCleared(access, Entity[e].domain)
    /\ \A e \in DOMAIN pl.filters : EntityCleared(access, e)
    /\ q.metrics # {} => pl.metric \in q.metrics

(* A plan is compiled only from one metric of a cleared interpretation.    *)
LEMMA CompileKeepsAuthority ==
    ASSUME NEW i, NEW anchor, Sound(i), ScopeCleared(access, i), Refusal(q, access, i) = "NONE"
    PROVE  Authority(Compile(q, access, i, anchor))
<1> DEFINE m == Chosen(i.metrics)
<1>1. i.metrics # {}
  BY DEF Refusal
<1>2. m \in i.metrics
  BY <1>1 DEF Chosen
<1>3. /\ Compile(q, access, i, anchor).metric = m
      /\ Compile(q, access, i, anchor).dims = i.dims
      /\ Compile(q, access, i, anchor).filters = Filters(q, m)
  BY DEF Compile
<1>4. /\ May(access, "READ") /\ MetricCleared(access, m)
      /\ Fit(access, m, i.dims) /\ Fit(access, m, DOMAIN Filters(q, m))
  BY <1>1 DEF Refusal
<1> HIDE DEF m
<1>5. DomainCleared(access, Metric[m].domain) \/ Suggested
  BY <1>2 DEF Sound, ScopeCleared
<1>6. \A e \in i.dims : EntityCleared(access, e) /\ DomainCleared(access, Entity[e].domain)
  BY <1>4 DEF Fit, Sound, ScopeCleared
<1>7. \A e \in DOMAIN Filters(q, m) : EntityCleared(access, e)
  BY <1>4 DEF Fit
<1>8. q.metrics # {} => m \in q.metrics
  BY <1>2 DEF Sound
<1> QED BY <1>3, <1>4, <1>5, <1>6, <1>7, <1>8 DEF Authority

BeforeTheSource == {"created", "resolving", "noting", "counting", "calling", "pausing", "admitted",
                    "planning", "filing", "planned", "executing", "querying"}

(* The places of a question that was found admissible, and of its plan.    *)
Judged  == pc \in {"admitted", "planning"} \/ (pc = "noting" /\ status = "RUNNING")
Planned == pc \in {"filing", "planned", "executing", "querying"}

(* The authority of a request, followed from its interpretation through    *)
(* its plan to the source: each place of the task has passed the checks of *)
(* those before it, and nothing is read before the last of them.           *)
AuthorityInv ==
    /\ request \in Requests
    /\ Judged => Sound(meaning) /\ ScopeCleared(access, meaning)
    /\ Planned => Authority(plan)
    /\ pc = "querying" => Accepts(job)
    /\ pc \in BeforeTheSource => reads = {}
    /\ reads # {} => /\ Authority(plan) /\ Accepts(job)
                     /\ \A f \in reads : Matches(f, job)

(* A step that leaves the request, its meaning, its plan and what was read *)
(* alone keeps the invariant if it goes to no place that demands more.     *)
LEMMA QuietStep ==
    ASSUME AuthorityInv, UNCHANGED <<request, meaning, plan, reads>>,
           Judged' => Judged, Planned' => Planned,
           pc' = "querying" => pc = "querying" \/ Screening(job) = "NONE",
           pc' \in BeforeTheSource => pc \in BeforeTheSource
    PROVE  AuthorityInv'
<1>1. q' = q /\ access' = access /\ Supervised' = Supervised
  BY DEF q, access, Supervised
<1>2. job' = job /\ Suggested' = Suggested
  BY <1>1 DEF job, Suggested
<1>3. request' \in Requests
  BY DEF AuthorityInv
<1>4. Judged' => Sound(meaning)' /\ ScopeCleared(access', meaning')
  BY <1>1, <1>2 DEF AuthorityInv, Sound
<1>5. Planned' => Authority(plan)'
  BY <1>1, <1>2 DEF AuthorityInv, Authority
<1>6. pc' = "querying" => Accepts(job')
  BY <1>2, ScreeningMeans DEF AuthorityInv
<1>7. pc' \in BeforeTheSource => reads' = {}
  BY DEF AuthorityInv
<1>8. reads' # {} => Authority(plan)' /\ Accepts(job') /\ \A f \in reads' : Matches(f, job')
  BY <1>1, <1>2 DEF AuthorityInv, Authority
<1> QED BY <1>3, <1>4, <1>5, <1>6, <1>7, <1>8 DEF AuthorityInv

(* Nor does one that reads: what the source selects matches the plan.      *)
LEMMA ReadingStep ==
    ASSUME AuthorityInv, pc = "querying", UNCHANGED <<request, meaning, plan>>,
           reads' = reads \/ reads' = ReadByPlan,
           pc' \in {"executed", "verifying", "releasing", "settled", "unwinding"}
    PROVE  AuthorityInv'
<1>1. q' = q /\ access' = access /\ Supervised' = Supervised
  BY DEF q, access, Supervised
<1>2. job' = job /\ Suggested' = Suggested
  BY <1>1 DEF job, Suggested
<1>3. Authority(plan) /\ Accepts(job) /\ reads = {} /\ request' \in Requests
  BY DEF AuthorityInv, Planned, BeforeTheSource
<1>4. \A f \in reads' : Matches(f, job)
  BY <1>3 DEF ReadByPlan, Selected, Part
<1>5. Authority(plan)'
  BY <1>1, <1>2, <1>3 DEF Authority
<1>6. ~Judged' /\ ~Planned' /\ pc' \notin BeforeTheSource
  BY DEF Judged, Planned, BeforeTheSource
<1> QED BY <1>2, <1>3, <1>4, <1>5, <1>6 DEF AuthorityInv, BeforeTheSource

(* An interpretation that is sound is judged: if the task goes on to       *)
(* planning, the requester is cleared for all of it.                       *)
LEMMA JudgingStep ==
    ASSUME AuthorityInv, NEW i, Sound(i), meaning' = i, Judge(i),
           pc \in BeforeTheSource, UNCHANGED <<request, plan, reads>>
    PROVE  AuthorityInv'
<1> USE DEF Judge, Outcome, Succeed, Continue, Settle
<1>1. q' = q /\ access' = access /\ Supervised' = Supervised
  BY DEF q, access, Supervised
<1>2. Suggested' = Suggested
  BY <1>1 DEF Suggested
<1> DEFINE s == IF Verdict(q, access, i) \in Proceeds THEN "RUNNING" ELSE Verdict(q, access, i)
<1>3. s = "RUNNING" => ScopeCleared(access, i)
  <2>1. /\ Verdict(q, access, i) \in Verdicts
        /\ Verdict(q, access, i) \in Proceeds => ScopeCleared(access, i)
    BY VerdictMeans
  <2> QED BY <2>1 DEF Verdicts
<1>4. \/ pc' = "noting" /\ status' = s
      \/ pc' = "admitted" /\ s = "RUNNING"
      \/ pc' \in {"releasing", "settled"}
  <2> HIDE DEF s
  <2>1. Outcome("noting", "admitted", s)
    BY DEF s
  <2>2. CASE ~Supervised
    BY <2>1, <2>2
  <2>3. CASE Supervised
    BY <2>1, <2>3
  <2> QED BY <2>2, <2>3
<1>5. Judged' => Sound(meaning)' /\ ScopeCleared(access', meaning')
  <2>1. Judged' => s = "RUNNING"
    BY <1>4 DEF Judged
  <2> QED BY <1>1, <1>2, <1>3, <2>1 DEF Sound
<1>6. reads' = {} /\ request' \in Requests /\ ~Planned' /\ pc' # "querying"
  BY <1>4 DEF AuthorityInv, Planned
<1> QED BY <1>5, <1>6 DEF AuthorityInv

(* Every step of the task keeps the invariant.                             *)
LEMMA AuthorityStep ==
    ASSUME AuthorityInv, [Next]_vars
    PROVE  AuthorityInv'
<1> USE DEF data, model, Fail, Settle, Continue, Succeed, Outcome, Decline, Onward, BeforeTheSource, Judged, Planned
<1>1. CASE Begin \/ Open
  BY <1>1, QuietStep DEF Begin, Open, Start
<1>2. CASE Interpret
  <2>1. CASE /\ UNCHANGED meaning
             /\ pc' \in {"releasing", "settled"} \/ (pc' = "noting" /\ status' = "DENIED")
    BY <1>2, <2>1, QuietStep DEF Interpret
  <2>2. CASE meaning' = Rules(q) /\ Judge(Rules(q))
    <3>1. Sound(Rules(q))
      BY RulesSound DEF AuthorityInv
    <3>2. UNCHANGED <<request, plan, reads>> /\ pc = "resolving"
      BY <1>2 DEF Interpret
    <3> QED BY <2>2, <3>1, <3>2, JudgingStep
  <2> QED BY <1>2, <2>1, <2>2 DEF Interpret
<1>3. CASE Consult
  BY <1>3, QuietStep DEF Consult
<1>4. CASE Count
  BY <1>4, QuietStep DEF Count, Reserve
<1>5. CASE CallFails
  BY <1>5, QuietStep DEF CallFails
<1>6. CASE Wake
  BY <1>6, QuietStep DEF Wake, Reserve
<1>7. CASE Respond
  <2>1. pc = "calling" /\ UNCHANGED <<request, plan, reads>>
    BY <1>7 DEF Respond
  <2>2. \/ UNCHANGED meaning /\ pc' = "settled"
        \/ \E p \in Proposals(access) : meaning' = Ground(q, p) /\ Judge(Ground(q, p))
    BY <1>7 DEF Respond
  <2>3. CASE UNCHANGED meaning /\ pc' = "settled"
    BY <2>1, <2>3, QuietStep
  <2>4. ASSUME NEW p \in Proposals(access), meaning' = Ground(q, p), Judge(Ground(q, p))
        PROVE  AuthorityInv'
    <3>1. Sound(Ground(q, p))
      BY GroundSound DEF AuthorityInv
    <3> QED BY <2>1, <2>4, <3>1, JudgingStep
  <2> QED BY <2>2, <2>3, <2>4
<1>8. CASE Propose
  <2>1. pc = "resolving" /\ UNCHANGED <<request, plan, reads>> /\ ~Supervised /\ request.llm
    BY <1>8 DEF Propose
  <2>2. \/ UNCHANGED meaning /\ pc' = "settled"
        \/ meaning' = Rules(q) /\ Judge(Rules(q))
        \/ \E p \in LocalProposals : meaning' = Merge(q, p) /\ Judge(Merge(q, p))
    BY <1>8, <2>1 DEF Propose
  <2>3. CASE UNCHANGED meaning /\ pc' = "settled"
    BY <2>1, <2>3, QuietStep
  <2>4. CASE meaning' = Rules(q) /\ Judge(Rules(q))
    <3>1. Sound(Rules(q))
      BY RulesSound DEF AuthorityInv
    <3> QED BY <2>1, <2>4, <3>1, JudgingStep
  <2>5. ASSUME NEW p \in LocalProposals, meaning' = Merge(q, p), Judge(Merge(q, p))
        PROVE  AuthorityInv'
    <3>1. Sound(Merge(q, p))
      BY <2>1, MergeSound DEF AuthorityInv
    <3> QED BY <2>1, <2>5, <3>1, JudgingStep
  <2> QED BY <2>2, <2>3, <2>4, <2>5
<1>9. CASE Note \/ File
  BY <1>9, QuietStep DEF Note, File, Record
<1>10. CASE StartPlanner
  BY <1>10, QuietStep DEF StartPlanner, Start
<1>11. CASE Plan
  <2>1. CASE UNCHANGED plan /\ pc' \in {"settled", "releasing"}
    BY <1>11, <2>1, QuietStep DEF Plan
  <2>2. CASE plan' = Compile(q, access, meaning, request.anchor) /\ Refusal(q, access, meaning) = "NONE"
    <3>1. Sound(meaning) /\ ScopeCleared(access, meaning) /\ reads = {} /\ request \in Requests
      BY <1>11 DEF Plan, AuthorityInv
    <3>2. Authority(plan')
      BY <2>2, <3>1, CompileKeepsAuthority
    <3>3. UNCHANGED <<request, reads>> /\ pc' \in {"filing", "planned", "releasing", "settled"}
      BY <1>11 DEF Plan
    <3>4. q' = q /\ access' = access /\ Supervised' = Supervised
      BY <3>3 DEF q, access, Supervised
    <3>5. Authority(plan)'
      BY <3>2, <3>3, <3>4 DEF Authority, Suggested
    <3> QED BY <3>1, <3>3, <3>5 DEF AuthorityInv
  <2> QED BY <1>11, <2>1, <2>2 DEF Plan
<1>12. CASE StartExecutor
  BY <1>12, QuietStep DEF StartExecutor, Start
<1>13. CASE Query
  BY <1>13, QuietStep DEF Query
<1>14. CASE Execute
  BY <1>14, ReadingStep DEF Execute
<1>15. CASE SourceFails
  BY <1>15, ReadingStep DEF SourceFails
<1>16. CASE StartVerifier \/ StartComposer
  BY <1>16, QuietStep DEF StartVerifier, StartComposer, Start
<1>17. CASE Verify \/ Compose
  BY <1>17, QuietStep DEF Verify, Compose
<1>18. CASE Release \/ Expire \/ Unwind \/ OutOfTime
  BY <1>18, QuietStep DEF Release, Expire, Unwind, OutOfTime
<1>19. ASSUME NEW why, Interrupt(why) PROVE AuthorityInv'
  <2>1. CASE UNCHANGED reads
    BY <1>19, <2>1, QuietStep DEF Interrupt
  <2>2. CASE pc = "querying" /\ reads' = ReadByPlan
    BY <1>19, <2>2, ReadingStep DEF Interrupt
  <2> QED BY <1>19, <2>1, <2>2 DEF Interrupt
<1>20. CASE DeadlineFires
  BY <1>19, <1>20 DEF DeadlineFires
<1>21. CASE Cancel
  <2>1. CASE \E why : Interrupt(why)
    BY <1>19, <2>1
  <2>2. CASE pc' = "settled" /\ UNCHANGED <<request, meaning, plan, reads>>
    BY <2>2, QuietStep
  <2> QED BY <1>21, <2>1, <2>2 DEF Cancel
<1>22. CASE Done \/ UNCHANGED vars
  BY <1>22, QuietStep DEF Done, vars
<1> QED
  BY <1>1, <1>2, <1>3, <1>4, <1>5, <1>6, <1>7, <1>8, <1>9, <1>10, <1>11, <1>12, <1>13, <1>14,
     <1>15, <1>16, <1>17, <1>18, <1>20, <1>21, <1>22 DEF Next, Synchronous

(* Every request keeps to the authority that was checked, from its         *)
(* interpretation through its plan to the source.                          *)
THEOREM AuthorityKept == Spec => []AuthorityInv
<1>1. Init => AuthorityInv
  BY DEF Init, AuthorityInv, Judged, Planned
<1>2. AuthorityInv /\ [Next]_vars => AuthorityInv'
  BY AuthorityStep
<1> QED BY <1>1, <1>2, PTL DEF Spec

(* Whatever the source reads for a request, its requester may see.         *)
THEOREM ReadsAuthorisedAlways == Spec => []ReadsAreAuthorised
<1>1. ASSUME AuthorityInv PROVE ReadsAreAuthorised
  <2> SUFFICES ASSUME reads # {} PROVE ReadsAreAuthorised
    BY DEF ReadsAreAuthorised
  <2>1. Authority(plan) /\ Accepts(job) /\ \A f \in reads : Matches(f, job)
    BY <1>1 DEF AuthorityInv
  <2>2. job.kind = request.source /\ job.plan = plan /\ job.access = access /\ job.world = request.world
    BY DEF job, Job
  <2>3. request.source = "VIEW" => ViewAccepts(plan, access)
    BY <2>1, <2>2 DEF Accepts
  <2>4. request.source = "CSV" => CsvAccepts(request.world, plan, access)
    BY <2>1, <2>2 DEF Accepts
  <2>5. /\ Supervised => "READ" \in access.actions /\ access.regions # {}
        /\ request.source = "VIEW" => access.units # {}
    BY <2>3, <2>4 DEF Supervised, ViewAccepts, ExplicitScope, CsvAccepts
  <2>6. \A f \in reads : f.metric = plan.metric /\ Visible(f, request.source, plan.metric, access)
    BY <2>1, <2>2 DEF Matches
  <2> QED BY <2>1, <2>5, <2>6 DEF ReadsAreAuthorised, Authority, Suggested
<1> QED BY <1>1, AuthorityKept, PTL

(* No answer is composed after the deadline of its run.                    *)
THEOREM AnswersInTimeAlways == Spec => AnswersInTime
<1> DEFINE Prompt == status' = "ANSWERED" /\ status # "ANSWERED" => ~expired
<1>1. ASSUME AuthorityInv, [Next]_vars, status' = "ANSWERED", status # "ANSWERED" PROVE ~expired
  <2> USE DEF Fail, Settle, Continue, Succeed, Outcome, Decline
  <2>1. \A i : Verdict(q, access, i) # "ANSWERED"
    BY VerdictMeans DEF Verdicts
  <2>2. Refusal(q, access, meaning) # "ANSWERED"
    BY DEF Refusal
  <2>3. Screening(job) # "ANSWERED"
    BY ScreeningMeans
  <2>4. SourceStatus(job) # "ANSWERED"
    <3>1. job.kind \in Kinds
      BY <1>1, RequestsAssumption DEF AuthorityInv, job, Job
    <3> QED BY <3>1, SourceStatusMeans
  <2>5. ~Begin /\ ~Open /\ ~StartPlanner /\ ~StartExecutor /\ ~StartVerifier /\ ~StartComposer
    BY <1>1 DEF Begin, Open, StartPlanner, StartExecutor, StartVerifier, StartComposer, Start
  <2>6. ~Interpret /\ ~Respond /\ ~Propose
    BY <1>1, <2>1 DEF Interpret, Respond, Propose, Judge
  <2>7. ~Consult /\ ~Count /\ ~Wake /\ ~CallFails
    BY <1>1 DEF Consult, Count, Wake, CallFails, Reserve
  <2>8. ~Plan /\ ~Note /\ ~File
    BY <1>1, <2>2 DEF Plan, Note, File, Record
  <2>9. ~Query /\ ~Execute /\ ~SourceFails
    BY <1>1, <2>3, <2>4 DEF Query, Execute, SourceFails
  <2>10. ~Verify /\ ~Release /\ ~OutOfTime /\ ~Unwind
    BY <1>1 DEF Verify, Release, OutOfTime, Unwind
  <2>11. ~Expire /\ ~DeadlineFires /\ ~Cancel /\ ~Done
    BY <1>1 DEF Expire, DeadlineFires, Cancel, Interrupt, Done, vars
  <2>12. Compose
    BY <1>1, <2>5, <2>6, <2>7, <2>8, <2>9, <2>10, <2>11 DEF Next, Synchronous, vars
  <2> QED BY <1>1, <2>12 DEF Compose, Late
<1>2. AuthorityInv /\ [Next]_vars => [Prompt]_vars
  BY <1>1
<1> QED BY <1>2, AuthorityKept, PTL DEF Spec, AnswersInTime

-----------------------------------------------------------------------------
TurnedAway == {"DENIED", "OUT_OF_DOMAIN", "NO_SOURCE", "CLARIFICATION_REQUIRED"}

(* The places of a question whose plan is not yet recorded, and of one     *)
(* whose plan is.                                                          *)
Unfiled == {"created", "resolving", "noting", "planning", "filing"}
Filed   == {"executing", "querying", "verifying", "composing"}

(* What a session holds at each place of the task: nothing for a run of    *)
(* the specialists; before its plan is recorded, at most the question;     *)
(* and then both, of a question that was not turned away.                  *)
SessionInv ==
    /\ request \in Requests
    /\ "PLAN" \in stored => "QUESTION" \in stored /\ status \notin TurnedAway
    /\ Supervised => stored = {} /\ pc \notin {"noting", "filing"}
    /\ ~Supervised =>
         /\ pc \in Unfiled \cup Filed \cup {"settled"} /\ ~expired
         /\ stored # {} \/ pc \notin {"created", "settled"} => Usable
         /\ pc \in Unfiled => reads = {} /\ "PLAN" \notin stored
         /\ pc = "created" => stored = {} /\ status = "RUNNING"
         /\ pc \in {"planning", "filing"} => "QUESTION" \in stored
         /\ pc = "filing" => status \notin TurnedAway
         /\ pc \in Filed \/ reads # {} => "PLAN" \in stored
         /\ pc = "settled" /\ status # "FAILED" => "QUESTION" \in stored

(* Every step of the task keeps it: a supervised one records nothing, and  *)
(* the others record the question before the plan and the plan before the  *)
(* source is asked.                                                        *)
LEMMA SessionStep ==
    ASSUME SessionInv, [Next]_vars
    PROVE  SessionInv'
<1> USE DEF data, model, Fail, Settle, Continue, Succeed, Outcome, Decline, Onward, Unfiled, Filed, TurnedAway
<1>1. request' = request /\ request' \in Requests /\ Supervised' = Supervised /\ Usable' = Usable
  <2>1. request' = request
    BY DEF Next, Synchronous, Begin, Open, Interpret, Consult, Propose, Note, StartPlanner, Plan, File,
           StartExecutor, Query, StartVerifier, Verify, StartComposer, Compose, Release, OutOfTime, Start,
           Record, Count, CallFails, Wake, Respond, Execute, SourceFails, Expire, DeadlineFires, Cancel,
           Interrupt, Unwind, Done, vars
  <2> QED BY <2>1 DEF Supervised, Usable, SessionInv
<1>2. CASE Supervised
  <2>1. ~Note /\ ~File /\ ~Open
    BY <1>2 DEF Note, File, Record, Open, SessionInv
  <2>2. UNCHANGED stored
    BY <2>1 DEF Next, Synchronous, Begin, Interpret, Consult, Propose, StartPlanner, Plan,
           StartExecutor, Query, StartVerifier, Verify, StartComposer, Compose, Release, OutOfTime, Start,
           Count, CallFails, Wake, Respond, Execute, SourceFails, Expire, DeadlineFires, Cancel,
           Interrupt, Unwind, Done, vars
  <2>3. pc' \notin {"noting", "filing"}
    <3>1. CASE Begin \/ StartPlanner \/ StartExecutor \/ StartVerifier \/ StartComposer
      BY <3>1 DEF Begin, StartPlanner, StartExecutor, StartVerifier, StartComposer, Start
    <3>2. CASE Interpret \/ Respond \/ Propose \/ Consult
      BY <1>2, <3>2 DEF Interpret, Respond, Propose, Consult, Judge
    <3>3. CASE Count \/ Wake \/ CallFails
      BY <1>2, <3>3 DEF Count, Wake, CallFails, Reserve
    <3>4. CASE Plan \/ Query \/ Execute \/ SourceFails
      BY <1>2, <3>4 DEF Plan, Query, Execute, SourceFails
    <3>5. CASE Verify \/ Compose \/ Release \/ OutOfTime \/ Unwind
      BY <1>2, <3>5 DEF Verify, Compose, Release, OutOfTime, Unwind
    <3>6. CASE Expire \/ DeadlineFires \/ Cancel \/ Done \/ UNCHANGED vars
      BY <1>2, <3>6 DEF Expire, DeadlineFires, Cancel, Interrupt, Done, vars, SessionInv
    <3> QED BY <2>1, <3>1, <3>2, <3>3, <3>4, <3>5, <3>6 DEF Next, Synchronous
  <2> QED BY <1>1, <1>2, <2>2, <2>3 DEF SessionInv
<1>3. CASE ~Supervised
  <2>1. /\ pc \in Unfiled \cup Filed \cup {"settled"} /\ ~expired
        /\ ~Expire /\ ~DeadlineFires /\ ~Cancel /\ ~Unwind /\ ~OutOfTime /\ ~Release
        /\ ~Begin /\ ~StartPlanner /\ ~StartExecutor /\ ~StartVerifier /\ ~StartComposer
        /\ ~Consult /\ ~Count /\ ~Wake /\ ~CallFails /\ ~Respond
    BY <1>3 DEF SessionInv, Expire, DeadlineFires, Cancel, Unwind, OutOfTime, Release, Begin, StartPlanner,
                StartExecutor, StartVerifier, StartComposer, Start, Consult, Count, Wake, CallFails, Respond
  <2>2. CASE Open
    BY <1>1, <1>3, <2>2 DEF Open, SessionInv
  <2>3. CASE Interpret \/ Propose
    <3>1. /\ pc = "resolving" /\ UNCHANGED <<stored, reads, expired>>
          /\ pc' = "noting" \/ (pc' = "settled" /\ status' = "FAILED")
      BY <1>3, <2>3 DEF Interpret, Propose, Judge
    <3> QED BY <1>1, <1>3, <3>1 DEF SessionInv
  <2>4. CASE Note
    BY <1>1, <1>3, <2>4 DEF Note, Record, SessionInv
  <2>5. CASE Plan
    <3>1. pc = "planning" /\ UNCHANGED <<stored, reads, expired>>
      BY <2>5 DEF Plan
    <3>2. \/ pc' = "settled"
          \/ pc' = "filing" /\ status' \in {"RUNNING", "CONTEXT_NOT_CONNECTED"}
      BY <1>3, <2>5 DEF Plan
    <3> QED BY <1>1, <1>3, <3>1, <3>2 DEF SessionInv
  <2>6. CASE File
    BY <1>1, <1>3, <2>6 DEF File, Record, SessionInv
  <2>7. CASE Query
    <3>1. Screening(job) \in {"NONE", "INVALID", "SOURCE_NOT_READY"}
      BY ScreeningMeans
    <3>2. pc = "executing" /\ UNCHANGED <<stored, reads, expired>>
      BY <2>7 DEF Query
    <3>3. \/ pc' = "querying" /\ UNCHANGED status
          \/ pc' = "settled" /\ status' \in {"INVALID", "SOURCE_NOT_READY"}
      BY <1>3, <2>7, <3>1 DEF Query
    <3> QED BY <1>1, <1>3, <3>2, <3>3 DEF SessionInv
  <2>8. CASE Execute \/ SourceFails
    <3>1. SourceStatus(job) \in {"ROWS", "INVALID", "SOURCE_NOT_READY"}
      <4>1. job.kind \in Kinds
        BY RequestsAssumption DEF SessionInv, job, Job
      <4> QED BY <4>1, SourceStatusMeans
    <3>2. pc = "querying" /\ UNCHANGED <<stored, expired>>
      BY <2>8 DEF Execute, SourceFails
    <3>3. \/ pc' = "verifying" /\ UNCHANGED status
          \/ pc' = "settled" /\ status' \in {"INVALID", "SOURCE_NOT_READY", "FAILED"}
      BY <1>3, <2>8, <3>1 DEF Execute, SourceFails
    <3> QED BY <1>1, <1>3, <3>2, <3>3 DEF SessionInv
  <2>9. CASE Verify \/ Compose
    <3>1. pc \in {"verifying", "composing"} /\ UNCHANGED <<stored, reads, expired>>
      BY <2>9 DEF Verify, Compose
    <3>2. \/ pc' = "composing" /\ UNCHANGED status
          \/ pc' = "settled" /\ status' \in {"VERIFICATION_FAILED", "ANSWERED", "FAILED"}
      BY <1>3, <2>9 DEF Verify, Compose
    <3> QED BY <1>1, <1>3, <3>1, <3>2 DEF SessionInv
  <2>10. CASE Done \/ UNCHANGED vars
    BY <1>1, <2>10 DEF Done, vars, SessionInv
  <2> QED BY <2>1, <2>2, <2>3, <2>4, <2>5, <2>6, <2>7, <2>8, <2>9, <2>10 DEF Next, Synchronous
<1> QED BY <1>2, <1>3

(* The session of the reference application tells what was done with its   *)
(* question, whatever the store, the local model and the source do.        *)
THEOREM SessionTellsTheChatAlways == Spec => []SessionTellsTheChat
<1>1. Init => SessionInv
  BY DEF Init, SessionInv, Unfiled, Filed, TurnedAway
<1>2. SessionInv /\ [Next]_vars => SessionInv'
  BY SessionStep
<1>3. SessionInv => SessionTellsTheChat
  BY DEF SessionInv, SessionTellsTheChat, Usable, TurnedAway
<1> QED BY <1>1, <1>2, <1>3, PTL DEF Spec

-----------------------------------------------------------------------------
(* A report of n steps: all but the last have succeeded.                   *)
Ladder(n, last) == [i \in 1..n |-> IF i < n THEN S ELSE last]

(* What each response has behind it.                                       *)
Backed(s) ==
    /\ s \in {"DENIED", "OUT_OF_DOMAIN", "NO_SOURCE"} => steps = Ladder(1, S)
    /\ s \in {"CLARIFICATION_REQUIRED", "CONTEXT_NOT_CONNECTED"} => steps \in {Ladder(1, S), Ladder(2, S)}
    /\ s = "INVALID" => steps \in {Ladder(1, S), Ladder(2, S), Ladder(3, "FAILED")}
    /\ s = "SOURCE_NOT_READY" => steps \in {Ladder(1, S), Ladder(3, "FAILED")}
    /\ s = "VERIFICATION_FAILED" => steps = Ladder(4, S)
    /\ s = "ANSWERED" => steps = Ladder(5, S)

(* What may have become of the last step of a run that has settled.        *)
Closed(last) ==
    /\ last = "CANCELLED" => stop # "nothing"
    /\ last = "RUNNING" => code \in {"RUN_FAILED", "NONE"}

AskingModel == {"resolving", "counting", "calling", "pausing"}

(* How far the report of a supervised run is at each place of its task,    *)
(* and what the run can have come to by then.                              *)
Report ==
    /\ pc = "created" => steps = Ladder(0, S)
    /\ pc \in AskingModel => steps = Ladder(1, "RUNNING")
    /\ pc = "admitted" => steps = Ladder(1, S)
    /\ pc = "planning" => steps = Ladder(2, "RUNNING")
    /\ pc = "planned" => steps = Ladder(2, S)
    /\ pc \in {"executing", "querying"} => steps = Ladder(3, "RUNNING")
    /\ pc = "executed" => steps = Ladder(3, S)
    /\ pc = "verifying" => steps = Ladder(4, "RUNNING")
    /\ pc = "verified" => steps = Ladder(4, S)
    /\ pc = "composing" => steps = Ladder(5, "RUNNING")
    /\ pc = "unwinding" => /\ stop # "nothing"
                           /\ steps \in {Ladder(1, "RUNNING"), Ladder(3, "RUNNING")}
    /\ pc \notin {"releasing", "settled"} => status = "RUNNING" /\ code = "NONE"
    /\ pc = "releasing" => /\ status \in Responses /\ code = "NONE" /\ Backed(status)
                           /\ \E n \in 1..5, last \in {S, "FAILED"} : steps = Ladder(n, last)
    /\ pc = "settled" =>
         /\ Backed(status)
         /\ status = "ANSWERED" => code = "NONE"
         /\ \E n \in 0..5, last \in StepStatuses : steps = Ladder(n, last) /\ Closed(last)
    /\ Len(steps) <= MaximumSteps

StepsInv == IF Supervised THEN Report ELSE steps = <<>>

(* What the provider has consumed, against what was reserved for it: every *)
(* attempt is paid for by its reservation until its answer is accounted,   *)
(* and only a run that ends there can have overrun its budget.             *)
SpendInv ==
    /\ usage \in [calls : 0..MaximumCalls, reserved : 0..MaximumTotalTokens, last : Nat,
                  input : Nat, output : Nat, complete : BOOLEAN]
    /\ spent \in Nat
    /\ usage.complete => usage.input + usage.output = spent
    /\ pc \in {"created", "resolving", "counting"} => usage = NoUsage /\ spent = 0
    /\ pc \in {"calling", "pausing"} =>
         /\ usage.input = 0 /\ usage.output = 0 /\ ~usage.complete /\ usage.calls >= 1
         /\ spent <= usage.reserved
    /\ pc = "calling" => /\ spent + usage.last <= usage.reserved
                         /\ usage.calls = 1 => spent = 0
    /\ spent > MaximumTotalTokens => pc = "settled" /\ Len(steps) <= 1

-----------------------------------------------------------------------------
LEMMA LadderLength ==
    ASSUME NEW n \in 0..5, NEW x \in StepStatuses
    PROVE  /\ Ladder(n, x) \in Seq(StepStatuses) /\ Len(Ladder(n, x)) = n
           /\ DOMAIN Ladder(n, x) = 1..n
           /\ \A i \in 1..n : i < n => Ladder(n, x)[i] = S
           /\ n > 0 => Ladder(n, x)[n] = x
<1>1. \A i \in 1..n : (IF i < n THEN S ELSE x) \in StepStatuses
  BY DEF S, StepStatuses
<1> QED BY <1>1 DEF Ladder

(* A step begins, a step ends.                                             *)
LEMMA LadderGrows ==
    ASSUME NEW n \in 0..4, NEW x \in StepStatuses
    PROVE  Append(Ladder(n, S), x) = Ladder(n + 1, x)
<1>1. S \in StepStatuses
  BY DEF S, StepStatuses
<1> DEFINE a == Ladder(n, S)
<1>2. /\ n \in 0..5 /\ n + 1 \in 0..5
      /\ a \in Seq(StepStatuses) /\ Len(a) = n
      /\ \A i \in 1..n : a[i] = S
  <2>1. n \in 0..5 /\ n + 1 \in 0..5
    OBVIOUS
  <2>2. /\ a \in Seq(StepStatuses) /\ Len(a) = n
        /\ \A i \in 1..n : i < n => a[i] = S
        /\ n > 0 => a[n] = S
    BY <1>1, <2>1, LadderLength
  <2> HIDE DEF a
  <2> QED BY <2>1, <2>2
<1> HIDE DEF a
<1>3. /\ DOMAIN Append(a, x) = 1..(n + 1)
      /\ \A i \in 1..n : Append(a, x)[i] = S
      /\ Append(a, x)[n + 1] = x
      /\ Append(a, x) \in Seq(StepStatuses)
  BY <1>2
<1>4. \A i \in 1..(n + 1) : Append(a, x)[i] = (IF i < n + 1 THEN S ELSE x)
  BY <1>3
<1>5. Append(a, x) = [i \in 1..(n + 1) |-> IF i < n + 1 THEN S ELSE x]
  <2> DEFINE b == Append(a, x)
  <2>1. b \in Seq(StepStatuses) /\ DOMAIN b = 1..(n + 1)
    BY <1>3
  <2> HIDE DEF b
  <2>2. b = [i \in 1..(n + 1) |-> b[i]]
    <3>1. b \in [1..Len(b) -> StepStatuses] /\ DOMAIN b = 1..Len(b)
      BY <2>1
    <3> QED BY <2>1, <3>1
  <2>3. \A i \in 1..(n + 1) : b[i] = (IF i < n + 1 THEN S ELSE x)
    BY <1>4 DEF b
  <2>4. b = [i \in 1..(n + 1) |-> IF i < n + 1 THEN S ELSE x]
    BY <2>2, <2>3
  <2> QED BY <2>4 DEF b
<1>6. Append(a, x) = Ladder(n + 1, x)
  BY <1>5 DEF Ladder
<1> QED BY <1>6 DEF a

LEMMA LadderEnds ==
    ASSUME NEW n \in 1..5, NEW x \in StepStatuses, NEW y \in StepStatuses, steps = Ladder(n, x), EndStep(y)
    PROVE  steps' = Ladder(n, y)
<1>1. Len(steps) = n
  <2>1. n \in 0..5
    OBVIOUS
  <2> QED BY <2>1, LadderLength
<1>2. steps' = [Ladder(n, x) EXCEPT ![n] = y]
  BY <1>1 DEF EndStep
<1>3. [Ladder(n, x) EXCEPT ![n] = y] = [i \in 1..n |-> IF i = n THEN y ELSE Ladder(n, x)[i]]
  BY DEF Ladder
<1>4. \A i \in 1..n : (IF i = n THEN y ELSE Ladder(n, x)[i]) = (IF i < n THEN S ELSE y)
  BY DEF Ladder
<1> QED BY <1>2, <1>3, <1>4 DEF Ladder

(* The ladders a reader of a report meets.                                 *)
LEMMA Ladders ==
    ASSUME NEW x \in StepStatuses
    PROVE  /\ Ladder(0, x) = <<>> /\ Ladder(1, x) = <<x>> /\ Ladder(2, x) = <<S, x>>
           /\ Ladder(3, x) = <<S, S, x>> /\ Ladder(4, x) = <<S, S, S, x>>
           /\ Ladder(5, x) = <<S, S, S, S, x>>
<1>1. S \in StepStatuses
  BY DEF S, StepStatuses
<1>2. Ladder(0, x) = <<>>
  BY DEF Ladder
<1>3. Ladder(1, x) = <<x>>
  BY <1>1, LadderLength
<1>4. Ladder(2, x) = <<S, x>>
  BY <1>1, LadderLength
<1>5. Ladder(3, x) = <<S, S, x>>
  BY <1>1, LadderLength
<1>6. Ladder(4, x) = <<S, S, S, x>>
  BY <1>1, LadderLength
<1>7. Ladder(5, x) = <<S, S, S, S, x>>
  BY <1>1, LadderLength
<1> QED BY <1>2, <1>3, <1>4, <1>5, <1>6, <1>7

-----------------------------------------------------------------------------
AtWork == AskingModel \cup {"planning", "executing", "querying", "verifying", "composing", "unwinding"}

(* No report is longer than the step budget.                               *)
LEMMA ReportFits ==
    ASSUME Report, NEW n \in 0..5, NEW x \in StepStatuses, steps = Ladder(n, x)
    PROVE  n <= MaximumSteps
<1>1. Len(steps) = n
  BY LadderLength
<1> QED BY <1>1 DEF Report

(* At these places the last step of the report is under way.               *)
LEMMA LastIsRunning ==
    ASSUME Report, pc \in AtWork
    PROVE  \E n \in 1..5 : steps = Ladder(n, "RUNNING") /\ n <= MaximumSteps
<1>1. PICK n \in 1..5 : steps = Ladder(n, "RUNNING")
  BY DEF Report, AtWork
<1>2. n \in 0..5 /\ "RUNNING" \in StepStatuses
  BY DEF StepStatuses
<1> QED BY <1>1, <1>2, ReportFits

(* A run that settles without an answer may leave any report that is       *)
(* closed.                                                                 *)
LEMMA SettledReport ==
    ASSUME Supervised, request' = request, NEW n \in 0..5, NEW x \in StepStatuses,
           steps' = Ladder(n, x), n <= MaximumSteps, Closed(x)',
           pc' = "settled", status' \in {"FAILED", "CANCELLED"}
    PROVE  StepsInv'
<1>1. Supervised' /\ MaximumSteps' = MaximumSteps
  BY DEF Supervised, MaximumSteps
<1>2. Len(steps') = n
  BY LadderLength
<1>3. Backed(status)'
  BY DEF Backed
<1>4. \E m \in 0..5, last \in StepStatuses : steps' = Ladder(m, last) /\ Closed(last)'
  OBVIOUS
<1> QED BY <1>1, <1>2, <1>3, <1>4 DEF StepsInv, Report, AskingModel

(* A step that fails.                                                      *)
LEMMA FailReport ==
    ASSUME Supervised, Report, pc \in AtWork, NEW c, Fail(c), request' = request
    PROVE  StepsInv'
<1>1. PICK n \in 1..5 : steps = Ladder(n, "RUNNING") /\ n <= MaximumSteps
  BY LastIsRunning
<1>2. EndStep("FAILED") /\ pc' = "settled" /\ status' = "FAILED"
  BY DEF Fail, Settle
<1>3. {"RUNNING", "FAILED"} \subseteq StepStatuses /\ n \in 0..5
  BY DEF StepStatuses
<1>4. steps' = Ladder(n, "FAILED")
  BY <1>1, <1>2, <1>3, LadderEnds
<1>5. Closed("FAILED")'
  BY DEF Closed
<1> QED BY <1>1, <1>2, <1>3, <1>4, <1>5, SettledReport

(* A step that succeeds, or whose report cannot be written.                *)
LEMMA SucceedReport ==
    ASSUME Supervised, Report, NEW n \in 1..5, steps = Ladder(n, "RUNNING"), n <= MaximumSteps,
           NEW place, NEW s, Succeed(place, s), request' = request
    PROVE  StepsInv' \/ (steps' = Ladder(n, S) /\ pc' = place /\ status' = s /\ code' = code)
<1>1. {"RUNNING", S} \subseteq StepStatuses /\ n \in 0..5
  BY DEF StepStatuses, S
<1>2. EndStep(S) /\ (Continue(place, s) \/ Settle("FAILED", "RUN_FAILED"))
  BY DEF Succeed, S
<1>3. steps' = Ladder(n, S)
  BY <1>1, <1>2, LadderEnds
<1>4. CASE Continue(place, s)
  BY <1>3, <1>4 DEF Continue
<1>5. CASE Settle("FAILED", "RUN_FAILED")
  <2>1. Closed(S)'
    BY DEF Closed, S
  <2> QED BY <1>1, <1>3, <1>5, <2>1, SettledReport DEF Settle
<1> QED BY <1>2, <1>4, <1>5

(* A response that is held back until its definitions are resolved again.  *)
LEMMA HeldReport ==
    ASSUME Supervised, request' = request, NEW n \in 1..5, NEW x \in {S, "FAILED"},
           steps' = Ladder(n, x), n <= MaximumSteps,
           pc' = "releasing", status' \in Responses, code' = "NONE", Backed(status)'
    PROVE  StepsInv'
<1>1. Supervised' /\ MaximumSteps' = MaximumSteps
  BY DEF Supervised, MaximumSteps
<1>2. n \in 0..5 /\ x \in StepStatuses
  BY DEF StepStatuses, S
<1>3. Len(steps') = n
  BY <1>2, LadderLength
<1> QED BY <1>1, <1>3 DEF StepsInv, Report, AskingModel

(* A step that succeeds with such a response.                              *)
LEMMA HeldBack ==
    ASSUME Supervised, Report, NEW n \in 1..5, steps = Ladder(n, "RUNNING"), code = "NONE",
           NEW s \in Responses, Succeed("releasing", s), request' = request,
           steps' = Ladder(n, S) /\ status' = s => Backed(status)'
    PROVE  StepsInv'
<1>1. /\ n \in 0..5 /\ "RUNNING" \in StepStatuses
      /\ S \in {S, "FAILED"}
  BY DEF StepStatuses
<1>2. n <= MaximumSteps
  BY <1>1, ReportFits
<1>3. StepsInv' \/ (steps' = Ladder(n, S) /\ pc' = "releasing" /\ status' = s /\ code' = code)
  BY <1>2, SucceedReport
<1>4. ASSUME steps' = Ladder(n, S), pc' = "releasing", status' = s, code' = code
      PROVE  StepsInv'
  BY <1>1, <1>2, <1>4, HeldReport
<1> QED BY <1>3, <1>4

(* A step that begins, or cannot: n specialists have done their work.      *)
LEMMA StartReport ==
    ASSUME request \in Requests, Supervised, Report, NEW n \in 0..4, steps = Ladder(n, S),
           status = "RUNNING", code = "NONE", NEW from, NEW to, Start(from, to),
           to = <<"resolving", "planning", "executing", "verifying", "composing">>[n + 1]
    PROVE  StepsInv'
<1>1. {"RUNNING", S} \subseteq StepStatuses /\ n \in 0..5 /\ n + 1 \in 0..5
  BY DEF StepStatuses, S
<1>2. Len(steps) = n /\ n <= MaximumSteps
  BY <1>1, LadderLength, ReportFits
<1>3. request' = request /\ MaximumSteps \in Nat /\ Supervised' /\ MaximumSteps' = MaximumSteps
  BY RequestsAssumption DEF Start, MaximumSteps, Supervised
<1>4. CASE UNCHANGED steps /\ pc' = "settled" /\ status' = "FAILED"
  <2>1. Closed(S)'
    BY DEF Closed, S
  <2> QED BY <1>1, <1>2, <1>3, <1>4, <2>1, SettledReport
<1>5. CASE steps' = Append(steps, "RUNNING") /\ ~StepBudgetReached
  <2>1. steps' = Ladder(n + 1, "RUNNING")
    BY <1>1, <1>5, LadderGrows
  <2>2. Len(steps') = n + 1 /\ n + 1 <= MaximumSteps
    <3>1. Len(steps') = n + 1
      BY <1>1, <2>1, LadderLength
    <3> QED BY <1>2, <1>3, <1>5, <3>1 DEF StepBudgetReached
  <2>3. Continue(to, status) \/ Settle("FAILED", "RUN_FAILED")
    <3>1. steps' # steps
      BY <1>2, <2>2
    <3> QED BY <3>1 DEF Start
  <2>4. CASE Settle("FAILED", "RUN_FAILED")
    <3>1. Closed("RUNNING")'
      BY <2>4 DEF Closed, Settle
    <3> QED BY <1>1, <1>3, <2>1, <2>2, <2>4, <3>1, SettledReport DEF Settle
  <2>5. CASE Continue(to, status)
    <3>1. pc' = to /\ status' = "RUNNING" /\ code' = "NONE" /\ Len(steps') <= MaximumSteps'
      BY <1>3, <2>2, <2>5 DEF Continue
    <3>2. \/ to = "resolving" /\ steps' = Ladder(1, "RUNNING")
          \/ to = "planning" /\ steps' = Ladder(2, "RUNNING")
          \/ to = "executing" /\ steps' = Ladder(3, "RUNNING")
          \/ to = "verifying" /\ steps' = Ladder(4, "RUNNING")
          \/ to = "composing" /\ steps' = Ladder(5, "RUNNING")
      <4>1. n \in {0, 1, 2, 3, 4}
        OBVIOUS
      <4> QED BY <2>1, <4>1
    <3> QED BY <1>3, <3>1, <3>2 DEF StepsInv, Report, AskingModel
  <2> QED BY <2>3, <2>4, <2>5
<1> QED BY <1>4, <1>5 DEF Start, Settle

(* The interpretation is judged: an early answer, or on to planning.       *)
LEMMA JudgedReport ==
    ASSUME Supervised, Report, pc \in AskingModel, request' = request, NEW i, Judge(i)
    PROVE  StepsInv'
<1> DEFINE v == Verdict(q, access, i)
           s == IF v \in Proceeds THEN "RUNNING" ELSE v
           place == IF s = "RUNNING" THEN "admitted" ELSE "releasing"
<1>1. v \in Verdicts
  BY VerdictMeans
<1>2. Succeed(place, s)
  BY DEF Judge, Outcome
<1> HIDE DEF v
<1>3. pc \in AtWork /\ code = "NONE" /\ steps = Ladder(1, "RUNNING")
  BY DEF Report, AskingModel, AtWork
<1>4. 1 <= MaximumSteps
  <2>1. "RUNNING" \in StepStatuses /\ 1 \in 0..5
    BY DEF StepStatuses
  <2> QED BY <1>3, <2>1, ReportFits
<1> HIDE DEF s, place
<1>5. StepsInv' \/ (steps' = Ladder(1, S) /\ pc' = place /\ status' = s /\ code' = "NONE")
  <2>1. 1 \in 1..5
    OBVIOUS
  <2> QED BY <1>2, <1>3, <1>4, <2>1, SucceedReport
<1>6. ASSUME steps' = Ladder(1, S), pc' = place, status' = s, code' = "NONE"
      PROVE  StepsInv'
  <2>1. CASE s = "RUNNING"
    <3>1. Len(steps') = 1
      <4>1. S \in StepStatuses /\ 1 \in 0..5
        BY DEF StepStatuses, S
      <4> QED BY <1>6, <4>1, LadderLength
    <3>2. pc' = "admitted" /\ Supervised' /\ MaximumSteps' = MaximumSteps
      BY <1>6, <2>1 DEF place, Supervised, MaximumSteps
    <3> QED BY <1>4, <1>6, <2>1, <3>1, <3>2 DEF StepsInv, Report, AskingModel
  <2>2. CASE s # "RUNNING"
    <3>1. s \in Verdicts \ Proceeds
      BY <1>1, <2>2 DEF s
    <3>2. s \in Responses /\ pc' = "releasing"
      BY <1>6, <2>2, <3>1 DEF Responses, place
    <3>3. Backed(status)'
      BY <1>6, <3>1 DEF Backed, Verdicts
    <3>4. 1 \in 1..5 /\ S \in {S, "FAILED"}
      OBVIOUS
    <3> QED BY <1>4, <1>6, <3>2, <3>3, <3>4, HeldReport
  <2> QED BY <2>1, <2>2
<1> QED BY <1>5, <1>6

(* The source is not asked, or what it says is no answer.                  *)
LEMMA DeclinedReport ==
    ASSUME Supervised, Report, pc \in {"executing", "querying"}, request' = request,
           NEW s \in {"INVALID", "SOURCE_NOT_READY"}, Decline(s)
    PROVE  StepsInv'
<1>1. /\ 3 \in 0..5 /\ 3 \in 1..5 /\ {"RUNNING", "FAILED"} \subseteq StepStatuses
      /\ "FAILED" \in {S, "FAILED"}
  BY DEF StepStatuses
<1>2. steps = Ladder(3, "RUNNING") /\ code = "NONE"
  BY DEF Report
<1>3. 3 <= MaximumSteps
  BY <1>1, <1>2, ReportFits
<1>4. steps' = Ladder(3, "FAILED")
  BY <1>1, <1>2, LadderEnds DEF Decline
<1>5. CASE Continue("releasing", s)
  <2>1. status' \in Responses /\ code' = "NONE" /\ pc' = "releasing"
    BY <1>2, <1>5 DEF Continue, Responses, Verdicts, Proceeds
  <2>2. Backed(status)'
    BY <1>4, <1>5 DEF Backed, Continue
  <2> QED BY <1>1, <1>3, <1>4, <2>1, <2>2, HeldReport
<1>6. CASE Settle("FAILED", "RUN_FAILED")
  <2>1. Closed("FAILED")'
    BY DEF Closed
  <2> QED BY <1>1, <1>3, <1>4, <1>6, <2>1, SettledReport DEF Settle
<1> QED BY <1>5, <1>6 DEF Decline

(* What a run keeps when it moves on without a word in its report.         *)
LEMMA SilentReport ==
    ASSUME Supervised, Report, request' = request, UNCHANGED <<steps, status, code>>,
           stop' = stop \/ stop' # "nothing",
           \/ pc' = pc
           \/ pc \in AskingModel /\ pc' \in AskingModel
           \/ pc = "executing" /\ pc' = "querying"
           \/ pc \in {"counting", "calling", "pausing", "querying", "unwinding"} /\ pc' = "unwinding"
              /\ stop' # "nothing"
    PROVE  StepsInv'
<1>1. Supervised' /\ MaximumSteps' = MaximumSteps /\ Backed(status)' = Backed(status)
  BY DEF Supervised, MaximumSteps, Backed
<1>2. \A last : Closed(last) => Closed(last)'
  BY DEF Closed
<1>3. CASE pc' = pc
  BY <1>1, <1>2, <1>3 DEF StepsInv, Report
<1>4. CASE pc \in AskingModel /\ pc' \in AskingModel
  BY <1>1, <1>4 DEF StepsInv, Report, AskingModel
<1>5. CASE pc = "executing" /\ pc' = "querying"
  BY <1>1, <1>5 DEF StepsInv, Report, AskingModel
<1>6. CASE /\ pc \in {"counting", "calling", "pausing", "querying", "unwinding"}
           /\ pc' = "unwinding" /\ stop' # "nothing"
  BY <1>1, <1>6 DEF StepsInv, Report, AskingModel
<1> QED BY <1>3, <1>4, <1>5, <1>6

(* The report of a run keeps step with its task.                           *)
LEMMA StepsStep ==
    ASSUME SessionInv, StepsInv, [Next]_vars
    PROVE  StepsInv'
<1> USE DEF data, model
<1>1. request' = request /\ request \in Requests /\ Supervised' = Supervised
  <2>1. request' = request
    BY DEF Next, Synchronous, Begin, Open, Interpret, Consult, Propose, Note, StartPlanner, Plan, File,
           StartExecutor, Query, StartVerifier, Verify, StartComposer, Compose, Release, OutOfTime, Start,
           Record, Count, CallFails, Wake, Respond, Execute, SourceFails, Expire, DeadlineFires, Cancel,
           Interrupt, Unwind, Done, vars
  <2> QED BY <2>1 DEF Supervised, SessionInv
<1>2. CASE ~Supervised
  <2>1. /\ ~Expire /\ ~DeadlineFires /\ ~Cancel /\ ~Unwind /\ ~OutOfTime /\ ~Release
        /\ ~Begin /\ ~StartPlanner /\ ~StartExecutor /\ ~StartVerifier /\ ~StartComposer
        /\ ~Consult /\ ~Count /\ ~Wake /\ ~CallFails /\ ~Respond
    BY <1>2 DEF SessionInv, Unfiled, Filed, Expire, DeadlineFires, Cancel, Unwind, OutOfTime, Release, Begin,
                StartPlanner, StartExecutor, StartVerifier, StartComposer, Start, Consult, Count, Wake,
                CallFails, Respond
  <2>2. UNCHANGED steps
    BY <1>2, <2>1 DEF Next, Synchronous, Open, Interpret, Propose, Judge, Note, Plan, File, Record, Query,
           Verify, Compose, Execute, SourceFails, Decline, Outcome, Succeed, Fail, Done, vars
  <2> QED BY <1>1, <1>2, <2>2 DEF StepsInv
<1>3. CASE Supervised
  <2> USE <1>1, <1>3
  <2>1. Report /\ ~Note /\ ~File /\ ~Open /\ ~Propose
    BY DEF StepsInv, SessionInv, Note, File, Record, Open, Propose
  <2>2. {"RUNNING", "FAILED", "CANCELLED", S} \subseteq StepStatuses
    BY DEF StepStatuses, S
  <2>3. CASE Begin
    <3>1. Start("created", "resolving") /\ steps = Ladder(0, S) /\ status = "RUNNING" /\ code = "NONE"
      BY <2>1, <2>3 DEF Begin, Start, Report
    <3>2. 0 \in 0..4 /\ 0 + 1 = 1
      OBVIOUS
    <3> QED BY <2>1, <3>1, <3>2, StartReport
  <2>4. CASE StartPlanner
    <3>1. Start("admitted", "planning") /\ steps = Ladder(1, S) /\ status = "RUNNING" /\ code = "NONE"
      BY <2>1, <2>4 DEF StartPlanner, Start, Report
    <3>2. 1 \in 0..4 /\ 1 + 1 = 2
      OBVIOUS
    <3> QED BY <2>1, <3>1, <3>2, StartReport
  <2>5. CASE StartExecutor
    <3>1. Start("planned", "executing") /\ steps = Ladder(2, S) /\ status = "RUNNING" /\ code = "NONE"
      BY <2>1, <2>5 DEF StartExecutor, Start, Report
    <3>2. 2 \in 0..4 /\ 2 + 1 = 3
      OBVIOUS
    <3> QED BY <2>1, <3>1, <3>2, StartReport
  <2>6. CASE StartVerifier
    <3>1. Start("executed", "verifying") /\ steps = Ladder(3, S) /\ status = "RUNNING" /\ code = "NONE"
      BY <2>1, <2>6 DEF StartVerifier, Start, Report
    <3>2. 3 \in 0..4 /\ 3 + 1 = 4
      OBVIOUS
    <3> QED BY <2>1, <3>1, <3>2, StartReport
  <2>7. CASE StartComposer
    <3>1. Start("verified", "composing") /\ steps = Ladder(4, S) /\ status = "RUNNING" /\ code = "NONE"
      BY <2>1, <2>7 DEF StartComposer, Start, Report
    <3>2. 4 \in 0..4 /\ 4 + 1 = 5
      OBVIOUS
    <3> QED BY <2>1, <3>1, <3>2, StartReport
  <2>8. CASE Interpret
    <3>1. pc = "resolving" /\ pc \in AskingModel /\ pc \in AtWork
      BY <2>8 DEF Interpret, AskingModel, AtWork
    <3>2. CASE Judge(Rules(q))
      BY <2>1, <3>1, <3>2, JudgedReport
    <3>3. CASE Outcome("noting", "admitted", "DENIED")
      <4>1. Succeed("releasing", "DENIED") /\ steps = Ladder(1, "RUNNING") /\ code = "NONE"
        BY <2>1, <3>1, <3>3 DEF Outcome, Report
      <4>2. steps' = Ladder(1, S) /\ status' = "DENIED" => Backed(status)'
        BY DEF Backed
      <4>3. 1 \in 1..5 /\ "DENIED" \in Responses
        BY DEF Responses, Verdicts, Proceeds
      <4> QED BY <2>1, <4>1, <4>2, <4>3, HeldBack
    <3> QED BY <2>8, <3>2, <3>3 DEF Interpret
  <2>9. CASE Consult
    <3>1. pc \in AskingModel /\ pc \in AtWork
      BY <2>9 DEF Consult, AskingModel, AtWork
    <3>2. \/ \E c : Fail(c)
          \/ Continue("counting", status) /\ UNCHANGED steps
      BY <2>9 DEF Consult
    <3>3. UNCHANGED stop
      BY <2>9 DEF Consult
    <3>4. CASE \E c : Fail(c)
      BY <2>1, <3>1, <3>4, FailReport
    <3>5. CASE Continue("counting", status) /\ UNCHANGED steps
      BY <2>1, <3>1, <3>3, <3>5, SilentReport DEF Continue, AskingModel
    <3> QED BY <3>2, <3>4, <3>5
  <2>10. CASE Count \/ Wake \/ CallFails
    <3>1. pc \in AskingModel /\ pc \in AtWork
      BY <2>10 DEF Count, Wake, CallFails, AskingModel, AtWork
    <3>2. \/ \E c : Fail(c)
          \/ (Continue("calling", status) \/ Continue("pausing", status)) /\ UNCHANGED steps
      BY <2>10 DEF Count, Wake, CallFails, Reserve
    <3>3. UNCHANGED stop
      BY <2>10 DEF Count, Wake, CallFails
    <3>4. CASE \E c : Fail(c)
      BY <2>1, <3>1, <3>4, FailReport
    <3>5. CASE (Continue("calling", status) \/ Continue("pausing", status)) /\ UNCHANGED steps
      BY <2>1, <3>1, <3>3, <3>5, SilentReport DEF Continue, AskingModel
    <3> QED BY <3>2, <3>4, <3>5
  <2>11. CASE Respond
    <3>1. pc \in AskingModel /\ pc \in AtWork
      BY <2>11 DEF Respond, AskingModel, AtWork
    <3>2. (\E c : Fail(c)) \/ (\E p : Judge(Ground(q, p)))
      BY <2>11 DEF Respond
    <3> QED BY <2>1, <3>1, <3>2, FailReport, JudgedReport
  <2>12. CASE Plan
    <3>1. /\ pc = "planning" /\ pc \in AtWork /\ steps = Ladder(2, "RUNNING") /\ code = "NONE"
          /\ 2 \in 1..5 /\ 2 \in 0..5
      BY <2>1, <2>12 DEF Plan, Report, AtWork
    <3>2. CASE \E c : Fail(c)
      BY <2>1, <3>1, <3>2, FailReport
    <3>3. ASSUME NEW s \in {"INVALID", "CLARIFICATION_REQUIRED", "CONTEXT_NOT_CONNECTED"},
                 Succeed("releasing", s)
          PROVE  StepsInv'
      <4>1. steps' = Ladder(2, S) /\ status' = s => Backed(status)'
        BY DEF Backed
      <4>2. s \in Responses
        BY DEF Responses, Verdicts, Proceeds
      <4> QED BY <2>1, <3>1, <3>3, <4>1, <4>2, HeldBack
    <3>4. CASE Succeed("planned", "RUNNING")
      <4>1. 2 <= MaximumSteps
        BY <2>1, <2>2, <3>1, ReportFits
      <4>2. StepsInv' \/ (steps' = Ladder(2, S) /\ pc' = "planned" /\ status' = "RUNNING" /\ code' = code)
        BY <2>1, <3>1, <3>4, <4>1, SucceedReport
      <4>3. Len(Ladder(2, S)) = 2
        BY <2>2, <3>1, LadderLength
      <4> QED BY <3>1, <4>1, <4>2, <4>3 DEF StepsInv, Report, AskingModel, MaximumSteps
    <3>5. Refusal(q, access, meaning) \in {"NONE", "RAISED", "INVALID", "CLARIFICATION_REQUIRED"}
      BY DEF Refusal
    <3> QED BY <2>12, <3>2, <3>3, <3>4, <3>5 DEF Plan, Outcome
  <2>13. CASE Query
    <3>1. pc = "executing" /\ UNCHANGED stop
      BY <2>13 DEF Query
    <3>2. CASE Continue("querying", status) /\ UNCHANGED steps
      BY <2>1, <3>1, <3>2, SilentReport DEF Continue
    <3>3. CASE Screening(job) # "NONE" /\ Decline(Screening(job))
      <4>1. Screening(job) \in {"INVALID", "SOURCE_NOT_READY"}
        BY <3>3, ScreeningMeans
      <4> QED BY <2>1, <3>1, <3>3, <4>1, DeclinedReport
    <3> QED BY <2>13, <3>2, <3>3 DEF Query
  <2>14. CASE Execute
    <3>1. pc = "querying" /\ status = "RUNNING" /\ code = "NONE" /\ steps = Ladder(3, "RUNNING") /\ 3 \in 1..5
      BY <2>1, <2>14 DEF Execute, Report
    <3>2. CASE Succeed("executed", status)
      <4>1. 3 <= MaximumSteps
        BY <2>1, <2>2, <3>1, ReportFits
      <4>2. StepsInv' \/ (steps' = Ladder(3, S) /\ pc' = "executed" /\ status' = "RUNNING" /\ code' = code)
        BY <2>1, <3>1, <3>2, <4>1, SucceedReport
      <4>3. Len(Ladder(3, S)) = 3
        BY <2>2, <3>1, LadderLength
      <4> QED BY <3>1, <4>1, <4>2, <4>3 DEF StepsInv, Report, AskingModel, MaximumSteps
    <3>3. CASE SourceStatus(job) # "ROWS" /\ Decline(SourceStatus(job))
      <4>1. job.kind \in Kinds
        BY RequestsAssumption DEF job, Job
      <4>2. SourceStatus(job) \in {"INVALID", "SOURCE_NOT_READY"}
        BY <3>3, <4>1, SourceStatusMeans
      <4> QED BY <2>1, <3>1, <3>3, <4>2, DeclinedReport
    <3> QED BY <2>14, <3>2, <3>3 DEF Execute
  <2>15. CASE SourceFails
    <3>1. pc = "querying" /\ pc \in AtWork /\ (Decline("INVALID") \/ \E c : Fail(c))
      BY <2>15 DEF SourceFails, AtWork
    <3> QED BY <2>1, <3>1, FailReport, DeclinedReport
  <2>16. CASE Verify
    <3>1. /\ pc = "verifying" /\ pc \in AtWork /\ steps = Ladder(4, "RUNNING")
          /\ status = "RUNNING" /\ code = "NONE" /\ 4 \in 1..5
      BY <2>1, <2>16 DEF Verify, Report, AtWork
    <3>2. CASE \E c : Fail(c)
      BY <2>1, <3>1, <3>2, FailReport
    <3>3. CASE Succeed("releasing", "VERIFICATION_FAILED")
      <4>1. steps' = Ladder(4, S) /\ status' = "VERIFICATION_FAILED" => Backed(status)'
        BY DEF Backed
      <4>2. "VERIFICATION_FAILED" \in Responses
        BY DEF Responses
      <4> QED BY <2>1, <3>1, <3>3, <4>1, <4>2, HeldBack
    <3>4. CASE Succeed("verified", status)
      <4>1. 4 <= MaximumSteps
        BY <2>1, <2>2, <3>1, ReportFits
      <4>2. StepsInv' \/ (steps' = Ladder(4, S) /\ pc' = "verified" /\ status' = "RUNNING" /\ code' = code)
        BY <2>1, <3>1, <3>4, <4>1, SucceedReport
      <4>3. Len(Ladder(4, S)) = 4
        BY <2>2, <3>1, LadderLength
      <4> QED BY <3>1, <4>1, <4>2, <4>3 DEF StepsInv, Report, AskingModel, MaximumSteps
    <3> QED BY <2>16, <3>2, <3>3, <3>4 DEF Verify
  <2>17. CASE Compose
    <3>1. /\ pc = "composing" /\ pc \in AtWork /\ steps = Ladder(5, "RUNNING")
          /\ code = "NONE" /\ 5 \in 1..5
      BY <2>1, <2>17 DEF Compose, Report, AtWork
    <3>2. CASE \E c : Fail(c)
      BY <2>1, <3>1, <3>2, FailReport
    <3>3. CASE Succeed("releasing", "ANSWERED")
      <4>1. steps' = Ladder(5, S) /\ status' = "ANSWERED" => Backed(status)'
        BY DEF Backed
      <4>2. "ANSWERED" \in Responses
        BY DEF Responses
      <4> QED BY <2>1, <3>1, <3>3, <4>1, <4>2, HeldBack
    <3> QED BY <2>17, <3>2, <3>3 DEF Compose
  <2>18. CASE OutOfTime
    <3>1. pc \in AtWork /\ \E c : Fail(c)
      BY <2>18 DEF OutOfTime, AtWork, AskingModel
    <3> QED BY <2>1, <3>1, FailReport
  <2>19. CASE Release
    <3>1. pc = "releasing" /\ UNCHANGED <<steps, stop>>
      BY <2>19 DEF Release
    <3>2. PICK n \in 1..5, last \in {S, "FAILED"} : steps = Ladder(n, last)
      BY <2>1, <3>1 DEF Report
    <3>3. n \in 0..5 /\ last \in StepStatuses
      BY <2>2
    <3>4. n <= MaximumSteps /\ Closed(last)'
      BY <2>1, <3>2, <3>3, ReportFits DEF Closed, S
    <3>5. CASE Settle("FAILED", "DEFINITION_WITHDRAWN")
      BY <3>1, <3>2, <3>3, <3>4, <3>5, SettledReport DEF Settle
    <3>6. CASE Settle(status, code)
      <4>1. pc' = "settled" /\ UNCHANGED <<status, code>> /\ Backed(status)' /\ code = "NONE"
        BY <2>1, <3>1, <3>6 DEF Settle, Report, Backed
      <4>2. \E m \in 0..5, x \in StepStatuses : steps' = Ladder(m, x) /\ Closed(x)'
        BY <3>1, <3>2, <3>3, <3>4
      <4>3. Len(steps') <= MaximumSteps'
        BY <2>1, <3>1 DEF Report, MaximumSteps
      <4> QED BY <4>1, <4>2, <4>3 DEF StepsInv, Report, AskingModel
    <3> QED BY <2>19, <3>5, <3>6 DEF Release
  <2>20. ASSUME NEW why \in {"cancel", "deadline"}, Interrupt(why), pc \in Awaiting \cup {"unwinding"}
         PROVE  StepsInv'
    <3>1. pc' = "unwinding" /\ stop' # "nothing" /\ UNCHANGED <<steps, status, code>>
      BY <2>20 DEF Interrupt
    <3> QED BY <2>1, <2>20, <3>1, SilentReport DEF Awaiting
  <2>21. CASE DeadlineFires
    BY <2>20, <2>21 DEF DeadlineFires
  <2>22. CASE Cancel
    <3>1. CASE pc \in Awaiting \cup {"unwinding"} /\ Interrupt("cancel")
      BY <2>20, <3>1
    <3>2. CASE /\ pc \in {"created", "releasing"} /\ UNCHANGED <<steps, stop>>
               /\ Settle("CANCELLED", code)
      <4>1. PICK n \in 0..5, last \in {S, "FAILED"} : steps = Ladder(n, last)
        BY <2>1, <3>2 DEF Report
      <4>2. last \in StepStatuses /\ Closed(last)'
        BY <2>2 DEF Closed, S
      <4>3. n <= MaximumSteps
        BY <2>1, <4>1, <4>2, ReportFits
      <4> QED BY <3>2, <4>1, <4>2, <4>3, SettledReport DEF Settle
    <3> QED BY <2>22, <3>1, <3>2 DEF Cancel
  <2>23. CASE Unwind
    <3>1. pc = "unwinding" /\ pc \in AtWork /\ UNCHANGED stop
      BY <2>23 DEF Unwind, AtWork
    <3>2. CASE \E c : Fail(c)
      BY <2>1, <3>1, <3>2, FailReport
    <3>3. CASE EndStep("CANCELLED") /\ \E s \in {"FAILED", "CANCELLED"} : \E c : Settle(s, c)
      <4>1. PICK n \in 1..5 : steps = Ladder(n, "RUNNING") /\ n <= MaximumSteps
        BY <2>1, <3>1, LastIsRunning
      <4>2. n \in 0..5
        OBVIOUS
      <4>3. steps' = Ladder(n, "CANCELLED")
        BY <2>2, <3>3, <4>1, LadderEnds
      <4>4. Closed("CANCELLED")'
        BY <2>1, <3>1 DEF Closed, Report
      <4> QED BY <2>2, <3>3, <4>1, <4>2, <4>3, <4>4, SettledReport DEF Settle
    <3> QED BY <2>23, <3>2, <3>3 DEF Unwind
  <2>24. CASE Expire \/ Done \/ UNCHANGED vars
    <3>1. UNCHANGED <<pc, steps, status, code, stop>>
      BY <2>24 DEF Expire, Done, vars
    <3> QED BY <2>1, <3>1, SilentReport
  <2> QED
    BY <2>1, <2>3, <2>4, <2>5, <2>6, <2>7, <2>8, <2>9, <2>10, <2>11, <2>12, <2>13, <2>14, <2>15, <2>16,
       <2>17, <2>18, <2>19, <2>21, <2>22, <2>23, <2>24 DEF Next, Synchronous
<1> QED BY <1>2, <1>3

-----------------------------------------------------------------------------
(* How a question is withheld from the provider, and how its answer is     *)
(* turned down.                                                            *)
LEMMA WithheldMeans ==
    ASSUME NEW question, NEW a, NEW full, NEW long
    PROVE  Withheld(question, a, full, long) \in Codes
<1> DEFINE c1 == question.attack
           c3 == ~({"ASK", "READ"} \subseteq a.actions)
           c4 == LanguageCatalog(a) = {} \/ LanguageEntities(a) = {}
           c5 == \/ ~(question.metrics \subseteq LanguageCatalog(a))
                 \/ ~(question.entities \subseteq LanguageEntities(a))
           gates == << <<c1, "UNSUPPORTED_INSTRUCTION">>, <<full, "LANGUAGE_CAPACITY">>,
                       <<c3, "LANGUAGE_ACCESS_DENIED">>, <<c4, "LANGUAGE_CATALOG_EMPTY">>,
                       <<c5, "LANGUAGE_CONTEXT_DENIED">>, <<long, "PROMPT_LIMIT">>, <<TRUE, "NONE">> >>
<1>1. Withheld(question, a, full, long) = First(gates)
  BY DEF Withheld
<1> HIDE DEF c1, c3, c4, c5
<1>2. Len(gates) = 7 /\ gates[7][1] /\ \A i \in 1..7 : gates[i][2] \in Codes
  BY DEF Codes
<1> HIDE DEF gates
<1>3. 7 \in 1..Len(gates) /\ Len(gates) \in Nat
  BY <1>2
<1>4. \E i \in 1..Len(gates) : First(gates) = gates[i][2]
  BY <1>2, <1>3, FirstGate
<1> QED BY <1>1, <1>2, <1>4

LEMMA UngroundedMeans ==
    ASSUME NEW question, NEW p
    PROVE  Ungrounded(question, p) \in Codes
<1> DEFINE c1 == question.metrics # {} /\ p.metric # {} /\ ~(p.metric \subseteq question.metrics)
           c2 == p.dims # question.grouping
           gates == << <<c1, "METRIC_GROUNDING">>, <<c2, "DIMENSION_GROUNDING">>, <<TRUE, "NONE">> >>
<1>1. Ungrounded(question, p) = First(gates)
  BY DEF Ungrounded
<1> HIDE DEF c1, c2
<1>2. Len(gates) = 3 /\ gates[3][1] /\ \A i \in 1..3 : gates[i][2] \in Codes
  BY DEF Codes
<1> HIDE DEF gates
<1>3. 3 \in 1..Len(gates) /\ Len(gates) \in Nat
  BY <1>2
<1>4. \E i \in 1..Len(gates) : First(gates) = gates[i][2]
  BY <1>2, <1>3, FirstGate
<1> QED BY <1>1, <1>2, <1>4

(* Where a task can be, and what its response and its run can say.         *)
WordsInv == pc \in Places /\ status \in Statuses /\ code \in Codes

LEMMA WordsStep ==
    ASSUME SessionInv, WordsInv, [Next]_vars
    PROVE  WordsInv'
<1> USE DEF WordsInv, Fail, Settle, Continue, Succeed, Outcome, Decline
<1>1. {"FAILED", "CANCELLED", "RUNNING", "ANSWERED", "VERIFICATION_FAILED", "INVALID", "CLARIFICATION_REQUIRED",
       "SOURCE_NOT_READY", "DENIED", "CONTEXT_NOT_CONNECTED"} \subseteq Statuses
  BY DEF Statuses, Responses, Verdicts, Proceeds
<1>2. {"RUN_DEADLINE", "RUN_FAILED", "STEP_BUDGET", "MODEL_BUDGET", "INPUT_TOKEN_LIMIT", "OBSERVED_TOKEN_LIMIT",
       "PROVIDER_UNAVAILABLE", "PROVIDER_SCHEMA", "RETRY_DELAY_LIMIT", "DEFINITION_WITHDRAWN", "SESSION_DENIED",
       "SESSION_NOT_FOUND", "INTERPRETATION_UNAVAILABLE"} \subseteq Codes
  BY DEF Codes
<1>3. {"resolving", "planning", "executing", "verifying", "composing", "noting", "admitted", "filing", "planned",
       "executed", "verified", "releasing", "settled", "counting", "calling", "pausing", "querying",
       "unwinding"} \subseteq Places
  BY DEF Places, Awaiting
<1>4. /\ Onward["admitted"] \in Places /\ Onward["planned"] \in Places /\ Onward["executed"] \in Places
      /\ Onward["verified"] \in Places /\ Onward["releasing"] \in Places
  BY DEF Onward, Places, Awaiting
<1>5. CASE Begin \/ StartPlanner \/ StartExecutor \/ StartVerifier \/ StartComposer
  BY <1>1, <1>2, <1>3, <1>5 DEF Begin, StartPlanner, StartExecutor, StartVerifier, StartComposer, Start
<1>6. CASE Open \/ OutOfTime
  BY <1>1, <1>2, <1>3, <1>6 DEF Open, OutOfTime
<1>7. ASSUME NEW i, Judge(i) PROVE WordsInv'
  <2> DEFINE v == Verdict(q, access, i)
             s == IF v \in Proceeds THEN "RUNNING" ELSE v
  <2>1. s \in Statuses
    <3>1. v \in Verdicts
      BY VerdictMeans
    <3> HIDE DEF v
    <3> QED BY <1>1, <3>1 DEF Statuses, Responses
  <2>2. Outcome("noting", "admitted", s)
    BY <1>7 DEF Judge
  <2> HIDE DEF s
  <2> QED BY <1>1, <1>2, <1>3, <1>4, <2>1, <2>2
<1>8. CASE Interpret \/ Propose
  <2>1. CASE \E i : Judge(i)
    BY <1>7, <2>1
  <2>2. CASE Outcome("noting", "admitted", "DENIED") \/ Fail("INTERPRETATION_UNAVAILABLE")
    BY <1>1, <1>2, <1>3, <1>4, <2>2
  <2> QED BY <1>8, <2>1, <2>2 DEF Interpret, Propose
<1>9. CASE Note \/ File
  BY <1>1, <1>2, <1>3, <1>9 DEF Note, File, Record
<1>10. CASE Consult
  <2>1. \A full, long \in BOOLEAN : Withheld(q, access, full, long) \in Codes
    BY WithheldMeans
  <2> QED BY <1>1, <1>2, <1>3, <1>10, <2>1 DEF Consult
<1>11. CASE Count \/ Wake \/ CallFails
  BY <1>1, <1>2, <1>3, <1>11 DEF Count, Wake, CallFails, Reserve
<1>12. CASE Respond
  <2>1. (\E i : Judge(i)) \/ (\E c \in Codes : Fail(c))
    BY <1>2, <1>12, UngroundedMeans DEF Respond
  <2> QED BY <1>1, <1>2, <1>3, <1>7, <2>1
<1>13. CASE Plan
  <2>1. Refusal(q, access, meaning) \in {"NONE", "RAISED", "INVALID", "CLARIFICATION_REQUIRED"}
    BY DEF Refusal
  <2> QED BY <1>1, <1>2, <1>3, <1>4, <1>13, <2>1 DEF Plan
<1>14. CASE Query
  BY <1>1, <1>2, <1>3, <1>14, ScreeningMeans DEF Query
<1>15. CASE Execute
  <2>1. job.kind \in Kinds
    BY RequestsAssumption DEF SessionInv, job, Job
  <2> QED BY <1>1, <1>2, <1>3, <1>4, <1>15, <2>1, SourceStatusMeans DEF Execute
<1>16. CASE SourceFails
  BY <1>1, <1>2, <1>3, <1>16 DEF SourceFails
<1>17. CASE Verify \/ Compose
  BY <1>1, <1>2, <1>3, <1>4, <1>17 DEF Verify, Compose
<1>18. CASE Release \/ Unwind \/ Expire \/ Done \/ UNCHANGED vars
  BY <1>1, <1>2, <1>3, <1>18 DEF Release, Unwind, Expire, Done, vars
<1>19. CASE DeadlineFires \/ Cancel
  BY <1>1, <1>3, <1>19 DEF DeadlineFires, Cancel, Interrupt
<1> QED
  BY <1>5, <1>6, <1>8, <1>9, <1>10, <1>11, <1>12, <1>13, <1>14, <1>15, <1>16, <1>17, <1>18, <1>19
     DEF Next, Synchronous

(* The task, its report and its session, together.                         *)
LEMMA RunInvariance == Spec => [](SessionInv /\ WordsInv /\ StepsInv)
<1>1. Init => SessionInv /\ WordsInv /\ StepsInv
  <2> SUFFICES ASSUME Init PROVE SessionInv /\ WordsInv /\ StepsInv
    OBVIOUS
  <2>1. SessionInv
    BY DEF Init, SessionInv, Unfiled, Filed, TurnedAway
  <2>2. WordsInv
    BY DEF Init, WordsInv, Places, Statuses, Codes
  <2>3. StepsInv
    <3>1. S \in StepStatuses
      BY DEF S, StepStatuses
    <3>2. steps = Ladder(0, S) /\ Len(steps) = 0
      BY <3>1, Ladders DEF Init
    <3>3. MaximumSteps \in Nat
      BY RequestsAssumption DEF Init, MaximumSteps
    <3> QED BY <3>2, <3>3 DEF Init, StepsInv, Report, AskingModel
  <2> QED BY <2>1, <2>2, <2>3
<1>2. SessionInv /\ WordsInv /\ StepsInv /\ [Next]_vars => SessionInv' /\ WordsInv' /\ StepsInv'
  BY SessionStep, WordsStep, StepsStep
<1> QED BY <1>1, <1>2, PTL DEF Spec

(* A supervised run's report is one ladder, and its last step says how the *)
(* run came to an end.                                                     *)
LEMMA ReportIsLadder ==
    ASSUME Supervised, Report, SessionInv, WordsInv
    PROVE  \E n \in 0..5, last \in StepStatuses :
              steps = Ladder(n, last) /\ (pc = "settled" => Closed(last)) /\ (last = "CANCELLED" => stop # "nothing")
<1>1. {"RUNNING", "FAILED", S} \subseteq StepStatuses
  BY DEF StepStatuses, S
<1>2. CASE pc = "settled"
  BY <1>2 DEF Report, Closed
<1>3. CASE pc # "settled"
  <2>1. \E n \in 0..5, last \in {"RUNNING", "FAILED", S} : steps = Ladder(n, last)
    <3>1. CASE pc = "releasing"
      <4>1. PICK n \in 1..5, last \in {S, "FAILED"} : steps = Ladder(n, last)
        BY <3>1 DEF Report
      <4>2. n \in 0..5
        OBVIOUS
      <4> QED BY <4>1, <4>2
    <3>2. CASE pc # "releasing"
      <4>1. \/ steps \in {Ladder(0, S), Ladder(1, S), Ladder(2, S), Ladder(3, S), Ladder(4, S)}
            \/ steps \in {Ladder(1, "RUNNING"), Ladder(2, "RUNNING"), Ladder(3, "RUNNING"),
                          Ladder(4, "RUNNING"), Ladder(5, "RUNNING")}
        <5>1. \/ pc \in {"created", "admitted", "planned", "executed", "verified"}
              \/ pc \in AskingModel \cup {"planning", "executing", "querying", "verifying", "composing"}
              \/ pc = "unwinding"
          BY <1>3, <3>2 DEF SessionInv, WordsInv, Places, Awaiting, AskingModel
        <5>2. CASE pc \in {"created", "admitted", "planned", "executed", "verified"}
          BY <5>2 DEF Report
        <5>3. CASE pc \in AskingModel \cup {"planning", "executing", "querying", "verifying", "composing"}
          BY <5>3 DEF Report
        <5>4. CASE pc = "unwinding"
          BY <5>4 DEF Report
        <5> QED BY <5>1, <5>2, <5>3, <5>4
      <4>2. 0 \in 0..5 /\ 1 \in 0..5 /\ 2 \in 0..5 /\ 3 \in 0..5 /\ 4 \in 0..5 /\ 5 \in 0..5
        OBVIOUS
      <4> QED BY <4>1, <4>2
    <3> QED BY <3>1, <3>2
  <2> QED BY <1>1, <1>3, <2>1 DEF S
<1> QED BY <1>2, <1>3

(* The steps of a report and the outcome of its run tell the same story,   *)
(* whatever fails, is interrupted or cannot be written.                    *)
THEOREM StepsTellTheRunAlways == Spec => []StepsTellTheRun
<1>1. ASSUME SessionInv, WordsInv, StepsInv PROVE StepsTellTheRun
  <2>1. CASE ~Supervised
    BY <1>1, <2>1 DEF StepsInv, StepsTellTheRun
  <2>2. CASE Supervised
    <3>1. Report
      BY <1>1, <2>2 DEF StepsInv
    <3>2. PICK n \in 0..5, last \in StepStatuses :
            /\ steps = Ladder(n, last) /\ (pc = "settled" => Closed(last))
            /\ last = "CANCELLED" => stop # "nothing"
      BY <1>1, <2>2, <3>1, ReportIsLadder
    <3>3. /\ Len(steps) = n /\ DOMAIN steps = 1..n
          /\ \A i \in 1..n : i < n => steps[i] = S
          /\ n > 0 => steps[n] = last
      BY <3>2, LadderLength
    <3>4. \A i \in 1..(Len(steps) - 1) : steps[i] = S
      BY <3>3
    <3>5. \A i \in DOMAIN steps : steps[i] \in {S, last}
      BY <3>3
    <3>6. pc = "settled" /\ code \notin {"RUN_FAILED", "NONE"} => "RUNNING" \notin {steps[i] : i \in DOMAIN steps}
      BY <3>2, <3>5 DEF Closed, S
    <3>7. "CANCELLED" \in {steps[i] : i \in DOMAIN steps} => stop # "nothing"
      BY <3>2, <3>5 DEF S
    <3>8. /\ Ladder(1, S) = <<S>> /\ Ladder(2, S) = <<S, S>> /\ Ladder(4, S) = <<S, S, S, S>>
          /\ Ladder(5, S) = <<S, S, S, S, S>> /\ Ladder(3, "FAILED") = <<S, S, "FAILED">>
      <4>1. S \in StepStatuses /\ "FAILED" \in StepStatuses
        BY DEF S, StepStatuses
      <4> QED BY <4>1, Ladders
    <3>9. Backed(status) /\ (status = "ANSWERED" => code = "NONE") /\ Len(steps) <= MaximumSteps
      <4>1. CASE pc \in {"releasing", "settled"}
        BY <3>1, <4>1 DEF Report
      <4>2. CASE pc \notin {"releasing", "settled"}
        BY <3>1, <4>2 DEF Report, Backed
      <4> QED BY <3>1, <4>1, <4>2 DEF Report
    <3> HIDE DEF S
    <3> QED BY <2>2, <3>4, <3>6, <3>7, <3>8, <3>9 DEF StepsTellTheRun, Backed
  <2> QED BY <2>1, <2>2
<1> QED BY <1>1, RunInvariance, PTL

-----------------------------------------------------------------------------
(* The limits of a request.                                                *)
LEMMA Limits ==
    ASSUME request \in Requests
    PROVE  /\ MaximumSteps \in Nat /\ MaximumCalls \in Nat /\ MaximumTotalTokens \in Nat
           /\ MaximumOutput \in Nat /\ InputTokens \subseteq Nat /\ OutputTokens \subseteq Nat
<1>1. request.limits \in [steps : 1..6, calls : 1..2, total : Nat]
  BY RequestsAssumption
<1> QED BY <1>1, BudgetAssumption DEF MaximumSteps, MaximumCalls, MaximumTotalTokens

(* A step that neither reserves nor consumes.                              *)
LEMMA QuietSpend ==
    ASSUME SpendInv, UNCHANGED <<request, usage, spent>>, pc # "settled" \/ UNCHANGED <<pc, steps>>,
           pc' \in {"created", "resolving", "counting"} => pc \in {"created", "resolving", "counting"},
           pc' \in {"calling", "pausing"} => pc' = pc
    PROVE  SpendInv'
<1>1. MaximumCalls' = MaximumCalls /\ MaximumTotalTokens' = MaximumTotalTokens
  BY DEF MaximumCalls, MaximumTotalTokens
<1>2. spent > MaximumTotalTokens => pc' = "settled" /\ Len(steps') <= 1
  BY DEF SpendInv
<1> QED BY <1>1, <1>2 DEF SpendInv

(* A reservation, and the request that follows it: what has been consumed  *)
(* and what this attempt may consume are covered by what was reserved.     *)
LEMMA ReservedSpend ==
    ASSUME request \in Requests, request' = request, SpendInv, pc \in {"counting", "pausing"},
           NEW n \in Int, n + MaximumOutput \in Nat, Reserve(n), spent' = spent
    PROVE  SpendInv'
<1> DEFINE required == n + MaximumOutput
<1>1. MaximumCalls' = MaximumCalls /\ MaximumTotalTokens' = MaximumTotalTokens
  BY DEF MaximumCalls, MaximumTotalTokens
<1>2. MaximumCalls \in Nat /\ MaximumTotalTokens \in Nat
  BY Limits
<1>3. CASE \E c : Fail(c) /\ usage' = usage
  BY <1>3, QuietSpend DEF Fail, Settle
<1>4. CASE /\ ~OverBudget(required)
           /\ usage' = [usage EXCEPT !.calls = @ + 1, !.complete = FALSE,
                                     !.reserved = @ + required, !.last = required]
           /\ pc' \in {"calling", "settled"}
  <2>1. /\ usage \in [calls : 0..MaximumCalls, reserved : 0..MaximumTotalTokens, last : Nat,
                      input : Nat, output : Nat, complete : BOOLEAN]
        /\ spent \in Nat
    BY DEF SpendInv
  <2>2. usage.input = 0 /\ usage.output = 0 /\ spent <= usage.reserved
    <3>1. CASE pc = "counting"
      BY <3>1 DEF SpendInv, NoUsage
    <3>2. CASE pc = "pausing"
      BY <3>2 DEF SpendInv
    <3> QED BY <3>1, <3>2
  <2>3. usage.calls + 1 = 1 => spent = 0
    BY <2>1 DEF SpendInv
  <2>4. usage.calls + 1 \in 0..MaximumCalls /\ usage.reserved + required \in 0..MaximumTotalTokens
    <3>1. usage.calls \in Nat /\ usage.reserved \in Nat /\ required \in Nat
      BY <2>1
    <3>2. usage.calls < MaximumCalls /\ usage.reserved + required <= MaximumTotalTokens
      BY <1>2, <1>4, <3>1 DEF OverBudget
    <3> QED BY <1>2, <3>1, <3>2
  <2>5. /\ usage' \in [calls : 0..MaximumCalls, reserved : 0..MaximumTotalTokens, last : Nat,
                       input : Nat, output : Nat, complete : BOOLEAN]
        /\ usage'.calls = usage.calls + 1 /\ usage'.reserved = usage.reserved + required
        /\ usage'.last = required /\ usage'.input = 0 /\ usage'.output = 0 /\ usage'.complete = FALSE
    BY <1>4, <2>1, <2>2, <2>4
  <2>6. spent + required <= usage.reserved + required /\ spent <= MaximumTotalTokens
    <3>1. usage.reserved \in Nat /\ usage.reserved <= MaximumTotalTokens
      BY <1>2, <2>1
    <3> QED BY <1>2, <2>1, <2>2, <3>1
  <2>7. usage'.calls >= 1 /\ spent <= usage'.reserved
    <3>1. usage.calls \in Nat /\ usage.reserved \in Nat /\ required \in Nat
      BY <2>1
    <3> QED BY <2>1, <2>2, <2>5, <3>1
  <2> HIDE DEF required
  <2> QED BY <1>1, <1>2, <1>4, <2>1, <2>3, <2>5, <2>6, <2>7 DEF SpendInv
<1> QED BY <1>3, <1>4 DEF Reserve, Continue, Fail, Settle

(* The accounts of a run keep up with the provider.                        *)
LEMMA SpendStep ==
    ASSUME SessionInv, StepsInv, SpendInv, [Next]_vars
    PROVE  SpendInv'
<1> USE DEF data, model
<1>1. request' = request /\ request \in Requests /\ Supervised' = Supervised
  <2>1. request' = request
    BY DEF Next, Synchronous, Begin, Open, Interpret, Consult, Propose, Note, StartPlanner, Plan, File,
           StartExecutor, Query, StartVerifier, Verify, StartComposer, Compose, Release, OutOfTime, Start,
           Record, Count, CallFails, Wake, Respond, Execute, SourceFails, Expire, DeadlineFires, Cancel,
           Interrupt, Unwind, Done, vars
  <2> QED BY <2>1 DEF Supervised, SessionInv
<1>2. /\ MaximumCalls' = MaximumCalls /\ MaximumTotalTokens' = MaximumTotalTokens
      /\ MaximumCalls \in Nat /\ MaximumTotalTokens \in Nat
      /\ MaximumOutput \in Nat /\ InputTokens \subseteq Nat /\ OutputTokens \subseteq Nat
  BY <1>1, Limits DEF MaximumCalls, MaximumTotalTokens
<1>3. /\ usage \in [calls : 0..MaximumCalls, reserved : 0..MaximumTotalTokens, last : Nat,
                    input : Nat, output : Nat, complete : BOOLEAN]
      /\ usage.last \in Nat /\ usage.reserved \in Nat /\ usage.reserved <= MaximumTotalTokens
      /\ spent \in Nat
  BY <1>2 DEF SpendInv
<1>4. CASE Begin \/ Open \/ StartPlanner \/ StartExecutor \/ StartVerifier \/ StartComposer
  BY <1>1, <1>4, QuietSpend
     DEF Begin, Open, StartPlanner, StartExecutor, StartVerifier, StartComposer, Start, Continue, Settle
<1>5. CASE Interpret \/ Propose
  <2>1. UNCHANGED <<usage, spent>> /\ pc = "resolving" /\ pc' \in {"noting", "admitted", "releasing", "settled"}
    BY <1>5 DEF Interpret, Propose, Judge, Outcome, Succeed, Fail, Continue, Settle, Onward
  <2> QED BY <1>1, <2>1, QuietSpend
<1>6. CASE Note \/ File
  BY <1>1, <1>6, QuietSpend DEF Note, File, Record, Continue, Settle
<1>7. CASE Consult
  BY <1>1, <1>7, QuietSpend DEF Consult, Fail, Continue, Settle
<1>8. CASE Count
  <2>1. CASE UNCHANGED usage /\ \E c : Fail(c)
    BY <1>1, <1>8, <2>1, QuietSpend DEF Count, Fail, Settle
  <2>2. ASSUME NEW n \in InputTokens, Reserve(n) PROVE SpendInv'
    <3>1. n \in Int /\ n + MaximumOutput \in Nat
      BY <1>2
    <3> QED BY <1>1, <1>8, <2>2, <3>1, ReservedSpend DEF Count
  <2> QED BY <1>8, <2>1, <2>2 DEF Count
<1>9. CASE Wake
  <2>1. usage.last - MaximumOutput \in Int /\ (usage.last - MaximumOutput) + MaximumOutput \in Nat
    BY <1>2, <1>3
  <2> QED BY <1>1, <1>9, <2>1, ReservedSpend DEF Wake
<1>10. CASE CallFails
  <2>1. PICK used \in {0, usage.last} : spent' = spent + used
    BY <1>10 DEF CallFails
  <2>2. pc = "calling" /\ usage' = usage /\ pc' \in {"settled", "pausing"}
    BY <1>10 DEF CallFails, Fail, Continue, Settle
  <2>3. spent + usage.last <= usage.reserved /\ usage.input = 0 /\ usage.output = 0
        /\ usage.complete = FALSE /\ usage.calls >= 1
    BY <1>3, <2>2 DEF SpendInv
  <2>4. spent' \in Nat /\ spent' <= usage.reserved /\ spent' <= MaximumTotalTokens
    BY <1>2, <1>3, <2>1, <2>3
  <2> QED BY <1>2, <1>3, <2>2, <2>3, <2>4 DEF SpendInv
<1>11. CASE Respond
  <2>1. PICK input \in InputTokens, output \in OutputTokens :
          /\ spent' = spent + input + output
          /\ usage' = [usage EXCEPT !.input = @ + input, !.output = @ + output, !.complete = AccountComplete]
          /\ \/ \E c : Fail(c)
             \/ ~Exceeded(input, output) /\ \E i : Judge(i)
    BY <1>11 DEF Respond
  <2>2. pc = "calling" /\ Supervised
    BY <1>11 DEF Respond, SessionInv, Unfiled, Filed
  <2>3. /\ spent + usage.last <= usage.reserved /\ usage.input = 0 /\ usage.output = 0
        /\ usage.calls = 1 => spent = 0
    BY <2>2 DEF SpendInv
  <2>4. input \in Nat /\ output \in Nat
    BY <1>2
  <2>5. /\ usage' \in [calls : 0..MaximumCalls, reserved : 0..MaximumTotalTokens, last : Nat,
                       input : Nat, output : Nat, complete : BOOLEAN]
        /\ usage'.input = input /\ usage'.output = output /\ (usage'.complete => usage.calls = 1)
    <3>1. AccountComplete \in BOOLEAN /\ (AccountComplete => usage.calls = 1)
      BY DEF AccountComplete
    <3>2. usage.input + input \in Nat /\ usage.output + output \in Nat
      BY <1>3, <2>4
    <3>3. /\ usage' \in [calls : 0..MaximumCalls, reserved : 0..MaximumTotalTokens, last : Nat,
                         input : Nat, output : Nat, complete : BOOLEAN]
          /\ usage'.input = usage.input + input /\ usage'.output = usage.output + output
          /\ usage'.complete = AccountComplete
      BY <1>3, <2>1, <3>1, <3>2
    <3> QED BY <2>3, <2>4, <3>1, <3>3
  <2>6. spent' \in Nat /\ (usage'.complete => usage'.input + usage'.output = spent')
    BY <1>3, <2>1, <2>3, <2>4, <2>5
  <2>7. pc' \in {"settled", "noting", "admitted", "releasing"}
    BY <2>1 DEF Judge, Outcome, Succeed, Fail, Continue, Settle, Onward
  <2>8. spent' > MaximumTotalTokens => pc' = "settled" /\ Len(steps') <= 1
    <3>1. CASE \E c : Fail(c)
      <4>1. steps = Ladder(1, "RUNNING") /\ EndStep("FAILED") /\ pc' = "settled"
        BY <2>2, <3>1 DEF StepsInv, Report, AskingModel, Fail, Settle
      <4>2. {"RUNNING", "FAILED"} \subseteq StepStatuses /\ 1 \in 1..5 /\ 1 \in 0..5
        BY DEF StepStatuses
      <4>3. steps' = Ladder(1, "FAILED")
        BY <4>1, <4>2, LadderEnds
      <4>4. Len(steps') = 1
        BY <4>2, <4>3, LadderLength
      <4> QED BY <4>1, <4>4
    <3>2. CASE ~Exceeded(input, output)
      <4>1. usage.reserved - usage.last + input + output <= MaximumTotalTokens
        BY <1>2, <1>3, <2>4, <3>2 DEF Exceeded, OverTotal
      <4> QED BY <1>2, <1>3, <2>1, <2>3, <2>4, <4>1
    <3> QED BY <2>1, <3>1, <3>2
  <2> QED BY <1>2, <2>5, <2>6, <2>7, <2>8 DEF SpendInv
<1>12. CASE Plan
  BY <1>1, <1>12, QuietSpend DEF Plan, Outcome, Succeed, Fail, Continue, Settle, Onward
<1>13. CASE Query \/ Execute \/ SourceFails
  BY <1>1, <1>13, QuietSpend DEF Query, Execute, SourceFails, Decline, Succeed, Fail, Continue, Settle, Onward
<1>14. CASE Verify \/ Compose \/ Release \/ OutOfTime \/ Unwind
  BY <1>1, <1>14, QuietSpend
     DEF Verify, Compose, Release, OutOfTime, Unwind, Succeed, Fail, Continue, Settle, Onward
<1>15. ASSUME NEW why, Interrupt(why), pc # "settled" PROVE SpendInv'
  <2>1. PICK used \in (IF pc = "calling" THEN {0, usage.last} ELSE {0}) : spent' = spent + used
    BY <1>15 DEF Interrupt
  <2>2. pc' = "unwinding" /\ usage' = usage
    BY <1>15 DEF Interrupt
  <2>3. CASE pc = "calling"
    <3>1. spent + usage.last <= usage.reserved /\ usage.complete = FALSE
      BY <1>3, <2>3 DEF SpendInv
    <3>2. spent' \in Nat /\ spent' <= MaximumTotalTokens
      BY <1>2, <1>3, <2>1, <2>3, <3>1
    <3> QED BY <1>2, <1>3, <2>2, <3>1, <3>2 DEF SpendInv
  <2>4. CASE pc # "calling"
    <3>1. spent' = spent
      BY <1>3, <2>1, <2>4
    <3> QED BY <1>1, <1>15, <2>2, <3>1, QuietSpend
  <2> QED BY <2>3, <2>4
<1>16. CASE DeadlineFires \/ Cancel
  <2>1. CASE pc # "settled" /\ \E why : Interrupt(why)
    BY <1>15, <2>1
  <2>2. CASE pc # "settled" /\ pc' = "settled" /\ UNCHANGED <<usage, spent>>
    BY <1>1, <2>2, QuietSpend
  <2> QED BY <1>16, <2>1, <2>2 DEF DeadlineFires, Cancel, Awaiting, Settle
<1>17. CASE Expire \/ Done \/ UNCHANGED vars
  BY <1>1, <1>17, QuietSpend DEF Expire, Done, vars
<1> QED
  BY <1>4, <1>5, <1>6, <1>7, <1>8, <1>9, <1>10, <1>11, <1>12, <1>13, <1>14, <1>16, <1>17
     DEF Next, Synchronous

LEMMA SpendInvariance == Spec => []SpendInv
<1>1. Init => SpendInv
  <2> SUFFICES ASSUME Init PROVE SpendInv
    OBVIOUS
  <2>1. request \in Requests /\ MaximumCalls \in Nat /\ MaximumTotalTokens \in Nat
    BY Limits DEF Init
  <2> QED BY <2>1 DEF Init, SpendInv, NoUsage
<1>2. SessionInv /\ StepsInv /\ SpendInv /\ [Next]_vars => SpendInv'
  BY SpendStep
<1> QED BY <1>1, <1>2, RunInvariance, PTL DEF Spec

(* What a run reports of its tokens is what the provider consumed, or says *)
(* that it may not be; no run goes on to data once its budget is overrun.  *)
THEOREM UsageIsHonestAlways == Spec => []UsageIsHonest
<1>1. ASSUME SessionInv, SpendInv PROVE UsageIsHonest
  <2>1. MaximumCalls \in Nat /\ MaximumTotalTokens \in Nat
    BY <1>1, Limits DEF SessionInv
  <2>2. usage.calls <= MaximumCalls /\ (usage.complete => usage.input + usage.output = spent)
    BY <1>1, <2>1 DEF SpendInv
  <2>3. spent \in Nat /\ (spent > MaximumTotalTokens => Len(steps) <= 1)
    BY <1>1 DEF SpendInv
  <2>4. Len(steps) >= 2 => spent <= MaximumTotalTokens
    BY <2>1, <2>3
  <2> QED BY <2>2, <2>4 DEF UsageIsHonest
<1> QED BY <1>1, RunInvariance, SpendInvariance, PTL

-----------------------------------------------------------------------------
(* The clock, what interrupts the task, and what was read and recorded.    *)
TraceInv ==
    /\ expired \in BOOLEAN /\ stop \in {"nothing", "cancel", "deadline"}
    /\ reads \subseteq Facts[request.world] /\ stored \subseteq {"QUESTION", "PLAN"}

LEMMA TraceStep ==
    ASSUME TraceInv, [Next]_vars
    PROVE  TraceInv'
<1>1. /\ request' = request
      /\ expired' = expired \/ expired' = TRUE
      /\ stop' = stop \/ stop' \in {"cancel", "deadline"}
      /\ stored' = stored \/ stored' \in {stored \cup {"QUESTION"}, stored \cup {"PLAN"}}
      /\ reads' = reads \/ reads' = ReadByPlan
  <2> USE DEF Next, Synchronous, Begin, Open, Interpret, Consult, Propose, Note, StartPlanner, Plan, File,
          StartExecutor, Query, StartVerifier, Verify, StartComposer, Compose, Release, OutOfTime, Start,
          Record, Count, CallFails, Wake, Respond, Execute, SourceFails, Expire, DeadlineFires, Cancel,
          Interrupt, Unwind, Done, vars, data
  <2>1. request' = request
    OBVIOUS
  <2>2. expired' = expired \/ expired' = TRUE
    OBVIOUS
  <2>3. stop' = stop \/ stop' \in {"cancel", "deadline"}
    OBVIOUS
  <2>4. stored' = stored \/ stored' \in {stored \cup {"QUESTION"}, stored \cup {"PLAN"}}
    OBVIOUS
  <2>5. reads' = reads \/ reads' = ReadByPlan
    OBVIOUS
  <2> QED BY <2>1, <2>2, <2>3, <2>4, <2>5
<1>2. ReadByPlan \subseteq Facts[request.world]
  BY DEF ReadByPlan, Selected, Part, job, Job
<1> QED BY <1>1, <1>2 DEF TraceInv

(* Every variable of a request has its type at each step: its report has   *)
(* at most five steps, its accounts stay within the limits it was given,   *)
(* and it has read nothing but rows of its own source.                     *)
THEOREM TypeCorrect == Spec => []TypeOK
<1>1. Init => TraceInv
  BY DEF Init, TraceInv
<1>2. TraceInv /\ [Next]_vars => TraceInv'
  BY TraceStep
<1>3. Spec => []TraceInv
  BY <1>1, <1>2, PTL DEF Spec
<1>4. ASSUME SessionInv, WordsInv, StepsInv, SpendInv, TraceInv PROVE TypeOK
  <2>1. access \in AccessContexts /\ request.llm \in BOOLEAN
    BY <1>4, RequestsAssumption DEF SessionInv, access
  <2>2. steps \in Seq(StepStatuses) /\ Len(steps) <= 5
    <3>1. CASE Supervised
      <4>1. PICK n \in 0..5, last \in StepStatuses : steps = Ladder(n, last)
        BY <1>4, <3>1, ReportIsLadder DEF StepsInv
      <4>2. steps \in Seq(StepStatuses) /\ Len(steps) = n
        BY <4>1, LadderLength
      <4> QED BY <4>2
    <3>2. CASE ~Supervised
      BY <1>4, <3>2 DEF StepsInv
    <3> QED BY <3>1, <3>2
  <2> QED BY <1>4, <2>1, <2>2 DEF TypeOK, WordsInv, SpendInv, TraceInv
<1> QED BY <1>3, <1>4, RunInvariance, SpendInvariance, PTL

-----------------------------------------------------------------------------
(* How far each place is from the end, how many calls of the model may     *)
(* still be made, whether the deadline and a cancellation may still come,  *)
(* and so how many steps a request may still take.                         *)
Rank ==
    [created  |-> 13, resolving |-> 12, counting |-> 11, calling |-> 11, pausing |-> 10, noting |-> 10,
     admitted |-> 10, planning |-> 9, filing |-> 8, planned |-> 8, executing |-> 7, querying |-> 6,
     executed |-> 5, verifying |-> 4, verified |-> 3, composing |-> 2, releasing |-> 1, unwinding |-> 1,
     settled |-> 0]

CallsLeft ==
    IF pc \in {"created", "resolving", "counting"} THEN MaximumCalls
    ELSE IF pc \in {"calling", "pausing"} THEN MaximumCalls - usage.calls ELSE 0

AlarmsLeft == (IF expired THEN 0 ELSE 1) + (IF stop = "cancel" THEN 0 ELSE 1)

StepsLeft == Rank[pc] + 2 * CallsLeft + AlarmsLeft

LEMMA RankIs == \A place \in Places : Rank[place] \in 0..13
  BY DEF Places, Awaiting, Rank

LEMMA StepsLeftBounds ==
    ASSUME request \in Requests, TypeOK
    PROVE  /\ MaximumCalls \in Nat /\ CallsLeft \in 0..MaximumCalls
           /\ AlarmsLeft \in 0..2 /\ Rank[pc] \in 0..13
           /\ StepsLeft \in 0..15 + 2 * MaximumCalls
<1>1. MaximumCalls \in Nat
  BY Limits
<1>2. usage.calls \in 0..MaximumCalls
  BY DEF TypeOK
<1>3. CallsLeft \in 0..MaximumCalls
  BY <1>1, <1>2 DEF CallsLeft
<1>4. AlarmsLeft \in 0..2
  BY DEF AlarmsLeft
<1>5. Rank[pc] \in 0..13
  BY RankIs DEF TypeOK
<1>6. StepsLeft = Rank[pc] + 2 * CallsLeft + AlarmsLeft
  BY DEF StepsLeft
<1> HIDE DEF CallsLeft, AlarmsLeft, StepsLeft
<1> QED BY <1>1, <1>3, <1>4, <1>5, <1>6

(* A step to a place nearer the end, with no call more to come.            *)
LEMMA NearerStep ==
    ASSUME request \in Requests, TypeOK, request' = request, TypeOK',
           Rank[pc'] < Rank[pc], CallsLeft' <= CallsLeft, UNCHANGED <<expired, stop>>
    PROVE  StepsLeft' < StepsLeft
<1>1. (Rank[pc])' = Rank[pc'] /\ AlarmsLeft' = AlarmsLeft /\ MaximumCalls' = MaximumCalls
  BY DEF Rank, AlarmsLeft, MaximumCalls
<1>2. /\ CallsLeft \in Nat /\ Rank[pc] \in Nat /\ AlarmsLeft \in Nat
      /\ MaximumCalls \in Nat /\ usage'.calls \in 0..MaximumCalls' /\ pc' \in Places
  <2>1. usage'.calls \in 0..MaximumCalls' /\ pc' \in Places
    BY DEF TypeOK
  <2> QED BY <2>1, StepsLeftBounds
<1>3. CallsLeft' \in Nat
  BY <1>1, <1>2 DEF CallsLeft
<1>4. Rank[pc'] \in Nat
  BY <1>2, RankIs
<1>5. StepsLeft' = Rank[pc'] + 2 * CallsLeft' + AlarmsLeft' /\ StepsLeft = Rank[pc] + 2 * CallsLeft + AlarmsLeft
  BY <1>1 DEF StepsLeft
<1> HIDE DEF CallsLeft, AlarmsLeft, StepsLeft
<1> QED BY <1>1, <1>2, <1>3, <1>4, <1>5

LEMMA RequestStays ==
    ASSUME [Next]_vars
    PROVE  request' = request
BY DEF Next, Synchronous, Begin, Open, Interpret, Consult, Propose, Note, StartPlanner, Plan, File,
       StartExecutor, Query, StartVerifier, Verify, StartComposer, Compose, Release, OutOfTime, Start,
       Record, Count, CallFails, Wake, Respond, Execute, SourceFails, Expire, DeadlineFires, Cancel,
       Interrupt, Unwind, Done, vars

(* Every step brings a request nearer to its end: an attempt, and the      *)
(* pause before it, use up one of the calls that are left.                 *)
LEMMA AdvanceStep ==
    ASSUME request \in Requests, TypeOK, TypeOK', [Next]_vars, vars' # vars
    PROVE  StepsLeft' < StepsLeft
<1> USE DEF data, model
<1>1. request' = request
  BY RequestStays
<1>2. /\ MaximumCalls' = MaximumCalls /\ MaximumCalls \in Nat /\ usage.calls \in 0..MaximumCalls
      /\ usage'.calls \in 0..MaximumCalls /\ pc \in Places /\ pc' \in Places
  BY <1>1, Limits DEF TypeOK, MaximumCalls
<1>3. ASSUME Rank[pc'] < Rank[pc], UNCHANGED <<expired, stop>>,
             pc \notin {"counting", "calling", "pausing"},
             pc' \in {"resolving", "counting"} => pc \in {"created", "resolving"},
             pc' \notin {"created", "calling", "pausing"}
      PROVE  StepsLeft' < StepsLeft
  <2>1. CallsLeft' <= CallsLeft
    BY <1>2, <1>3 DEF CallsLeft
  <2> QED BY <1>1, <1>3, <2>1, NearerStep
<1>4. CASE Synchronous
  <2>1. UNCHANGED <<expired, stop>>
    BY <1>4 DEF Synchronous, Begin, Open, Interpret, Consult, Propose, Note, StartPlanner, Plan, File,
         StartExecutor, Query, StartVerifier, Verify, StartComposer, Compose, Release, OutOfTime, Start, Record
  <2>2. \/ pc = "created" /\ pc' \in {"resolving", "settled"}
        \/ pc = "resolving" /\ pc' \in {"counting", "noting", "admitted", "releasing", "settled"}
        \/ pc \in {"noting", "admitted"} /\ pc' \in {"planning", "settled"}
        \/ pc = "planning" /\ pc' \in {"filing", "planned", "releasing", "settled"}
        \/ pc \in {"filing", "planned"} /\ pc' \in {"executing", "settled"}
        \/ pc = "executing" /\ pc' \in {"querying", "releasing", "settled"}
        \/ pc = "executed" /\ pc' \in {"verifying", "settled"}
        \/ pc = "verifying" /\ pc' \in {"verified", "composing", "releasing", "settled"}
        \/ pc = "verified" /\ pc' \in {"composing", "settled"}
        \/ pc = "composing" /\ pc' \in {"releasing", "settled"}
        \/ pc = "releasing" /\ pc' = "settled"
    <3>1. CASE Begin \/ StartPlanner \/ StartExecutor \/ StartVerifier \/ StartComposer \/ Open
      BY <3>1 DEF Begin, StartPlanner, StartExecutor, StartVerifier, StartComposer, Open, Start, Continue, Settle
    <3>2. CASE Interpret \/ Propose
      BY <3>2 DEF Interpret, Propose, Judge, Outcome, Succeed, Fail, Continue, Settle
    <3>3. CASE Consult \/ OutOfTime
      BY <3>3 DEF Consult, OutOfTime, Fail, Continue, Settle
    <3>4. CASE Note \/ File
      BY <3>4 DEF Note, File, Record, Continue, Settle
    <3>5. CASE Plan
      BY <3>5 DEF Plan, Outcome, Succeed, Fail, Continue, Settle, Onward
    <3>6. CASE Query
      BY <3>6 DEF Query, Decline, Continue, Settle
    <3>7. CASE Verify \/ Compose
      BY <3>7 DEF Verify, Compose, Succeed, Fail, Continue, Settle, Onward
    <3>8. CASE Release
      BY <3>8 DEF Release, Settle
    <3> QED BY <1>4, <3>1, <3>2, <3>3, <3>4, <3>5, <3>6, <3>7, <3>8 DEF Synchronous
  <2>3. Rank[pc'] < Rank[pc]
    BY <2>2 DEF Rank
  <2> QED BY <1>3, <2>1, <2>2, <2>3
<1>5. CASE Execute \/ SourceFails
  <2>1. UNCHANGED <<expired, stop>> /\ pc = "querying"
    BY <1>5 DEF Execute, SourceFails
  <2>2. pc' \in {"executed", "verifying", "releasing", "settled"}
    BY <1>5 DEF Execute, SourceFails, Succeed, Decline, Fail, Continue, Settle, Onward
  <2>3. Rank[pc'] < Rank[pc]
    BY <2>1, <2>2 DEF Rank
  <2> QED BY <1>3, <2>1, <2>2, <2>3
<1>6. ASSUME UNCHANGED <<expired, stop>>, pc \in {"counting", "calling", "pausing"},
             pc' = "settled" \/ (pc = "calling" /\ pc' \in {"noting", "admitted", "releasing"})
      PROVE  StepsLeft' < StepsLeft
  <2>1. CallsLeft' = 0 /\ CallsLeft \in Nat
    BY <1>2, <1>6 DEF CallsLeft
  <2>2. Rank[pc'] < Rank[pc] /\ CallsLeft' <= CallsLeft
    <3>1. Rank[pc'] < Rank[pc]
      BY <1>6 DEF Rank
    <3> QED BY <2>1, <3>1
  <2> QED BY <1>1, <1>6, <2>2, NearerStep
<1>7. StepsLeft = Rank[pc] + 2 * CallsLeft + AlarmsLeft /\ StepsLeft' = Rank[pc'] + 2 * CallsLeft' + AlarmsLeft'
  <2>1. (Rank[pc])' = Rank[pc']
    BY DEF Rank
  <2> QED BY <2>1 DEF StepsLeft
<1>8. Rank[pc] \in Nat /\ Rank[pc'] \in Nat /\ AlarmsLeft \in 0..2 /\ AlarmsLeft' \in 0..2
      /\ CallsLeft \in Nat /\ CallsLeft' \in Nat
  <2>1. AlarmsLeft' \in 0..2 /\ CallsLeft' \in Nat
    BY <1>2 DEF AlarmsLeft, CallsLeft
  <2> QED BY <1>2, <2>1, RankIs, StepsLeftBounds
<1>9. ASSUME NEW n, Reserve(n), pc \in {"counting", "pausing"}, UNCHANGED <<expired, stop>>
      PROVE  StepsLeft' < StepsLeft
  <2>1. CASE pc' = "settled"
    BY <1>6, <1>9, <2>1
  <2>2. CASE pc' = "calling" /\ usage' = [usage EXCEPT !.calls = @ + 1, !.complete = FALSE,
                                             !.reserved = @ + (n + MaximumOutput), !.last = n + MaximumOutput]
    <3>1. usage'.calls = usage.calls + 1
      BY <2>2 DEF TypeOK
    <3>2. CallsLeft' <= CallsLeft - 1 /\ Rank[pc'] <= Rank[pc] + 1 /\ AlarmsLeft' = AlarmsLeft
      <4>1. CallsLeft' <= CallsLeft - 1
        BY <1>2, <1>9, <2>2, <3>1 DEF CallsLeft
      <4>2. Rank[pc'] <= Rank[pc] + 1
        BY <1>9, <2>2 DEF Rank
      <4>3. AlarmsLeft' = AlarmsLeft
        BY <1>9 DEF AlarmsLeft
      <4> QED BY <4>1, <4>2, <4>3
    <3> HIDE DEF CallsLeft, AlarmsLeft, StepsLeft, Rank
    <3> QED BY <1>7, <1>8, <3>2
  <2> QED BY <1>9, <2>1, <2>2 DEF Reserve, Continue, Fail, Settle
<1>10. CASE Count
  <2>1. pc = "counting" /\ UNCHANGED <<expired, stop>>
    BY <1>10 DEF Count
  <2>2. pc' = "settled" \/ \E n \in InputTokens : Reserve(n)
    BY <1>10 DEF Count, Fail, Settle
  <2> QED BY <1>6, <1>9, <2>1, <2>2
<1>11. CASE Wake
  <2>1. pc = "pausing" /\ UNCHANGED <<expired, stop>> /\ Reserve(usage.last - MaximumOutput)
    BY <1>11 DEF Wake
  <2> QED BY <1>9, <2>1
<1>12. CASE CallFails
  <2>1. pc = "calling" /\ UNCHANGED <<expired, stop, usage>> /\ pc' \in {"pausing", "settled"}
    BY <1>12 DEF CallFails, Fail, Continue, Settle
  <2>2. CASE pc' = "pausing"
    <3>1. Rank[pc'] < Rank[pc] /\ CallsLeft' <= CallsLeft
      <4>1. CallsLeft' = CallsLeft
        BY <1>2, <2>1, <2>2 DEF CallsLeft
      <4>2. Rank[pc'] < Rank[pc]
        BY <2>1, <2>2 DEF Rank
      <4> QED BY <1>8, <4>1, <4>2
    <3> QED BY <1>1, <2>1, <3>1, NearerStep
  <2> QED BY <1>6, <2>1, <2>2
<1>13. CASE Respond
  <2>1. pc = "calling" /\ UNCHANGED <<expired, stop>>
    BY <1>13 DEF Respond
  <2>2. pc' \in {"noting", "admitted", "releasing", "settled"}
    BY <1>13 DEF Respond, Judge, Outcome, Succeed, Fail, Continue, Settle
  <2> QED BY <1>6, <2>1, <2>2
<1>14. CASE Expire
  <2>1. CallsLeft' = CallsLeft /\ Rank[pc'] = Rank[pc]
    BY <1>2, <1>14 DEF Expire, CallsLeft
  <2>2. AlarmsLeft' = AlarmsLeft - 1
    BY <1>14 DEF Expire, AlarmsLeft
  <2> HIDE DEF CallsLeft, AlarmsLeft, StepsLeft, Rank
  <2> QED BY <1>7, <1>8, <2>1, <2>2
<1>15. ASSUME NEW why, Interrupt(why), pc \in Awaiting PROVE StepsLeft' < StepsLeft
  <2>1. CallsLeft' = 0 /\ Rank[pc'] = 1 /\ Rank[pc] >= 6
    BY <1>15 DEF Interrupt, Awaiting, CallsLeft, Rank
  <2> HIDE DEF CallsLeft, AlarmsLeft, StepsLeft, Rank
  <2> QED BY <1>7, <1>8, <2>1
<1>16. CASE DeadlineFires
  BY <1>15, <1>16 DEF DeadlineFires
<1>17. CASE Cancel
  <2>1. CASE pc \in Awaiting /\ Interrupt("cancel")
    BY <1>15, <2>1
  <2>2. CASE pc = "unwinding" /\ stop # "cancel" /\ Interrupt("cancel")
    <3>1. CallsLeft' = 0 /\ CallsLeft = 0 /\ Rank[pc'] = Rank[pc]
      BY <2>2 DEF Interrupt, CallsLeft
    <3>2. AlarmsLeft' = AlarmsLeft - 1
      BY <2>2 DEF Interrupt, AlarmsLeft
    <3> HIDE DEF CallsLeft, AlarmsLeft, StepsLeft, Rank
    <3> QED BY <1>7, <1>8, <3>1, <3>2
  <2>3. CASE pc \in {"created", "releasing"} /\ pc' = "settled" /\ UNCHANGED <<expired, stop>>
    <3>1. Rank[pc'] < Rank[pc]
      BY <2>3 DEF Rank
    <3> QED BY <1>3, <2>3, <3>1
  <2> QED BY <1>17, <2>1, <2>2, <2>3 DEF Cancel, Settle
<1>18. CASE Unwind
  <2>1. pc = "unwinding" /\ pc' = "settled" /\ UNCHANGED <<expired, stop>>
    BY <1>18 DEF Unwind, Fail, Settle
  <2>2. Rank[pc'] < Rank[pc]
    BY <2>1 DEF Rank
  <2> QED BY <1>3, <2>1, <2>2
<1>19. ~Done /\ Next
  BY DEF Done
<1> QED BY <1>4, <1>5, <1>10, <1>11, <1>12, <1>13, <1>14, <1>16, <1>17, <1>18, <1>19 DEF Next

(* A request that is being answered is on its way to an end: whatever its  *)
(* task, the model, the source, the clock and its owner do, each step      *)
(* leaves fewer to come, and from the start there are 15 and two for each  *)
(* call of the model at most.  A retry never starts the work over.         *)
THEOREM EveryStepAdvances ==
    Spec => [](StepsLeft \in 0..15 + 2 * MaximumCalls) /\ [][StepsLeft' < StepsLeft]_vars
<1>1. SessionInv => request \in Requests
  BY DEF SessionInv
<1>2. request \in Requests /\ TypeOK => StepsLeft \in 0..15 + 2 * MaximumCalls
  BY StepsLeftBounds
<1>3. request \in Requests /\ TypeOK /\ TypeOK' /\ [Next]_vars => [StepsLeft' < StepsLeft]_vars
  BY AdvanceStep
<1> QED BY <1>1, <1>2, <1>3, TypeCorrect, RunInvariance, PTL DEF Spec
-----------------------------------------------------------------------------
(* The calendar                                                            *)

(* The leap days of the first k years (negative: of the years before).     *)
Leaps(k) == k \div 4 - k \div 100 + k \div 400

(* The calendar divides by 4, 100 and 400 only.                            *)
LEMMA DivisionBounds ==
    ASSUME NEW k \in Int
    PROVE  /\ k \div 4 \in Int /\ k \div 100 \in Int /\ k \div 400 \in Int
           /\ 4 * (k \div 4) <= k /\ k < 4 * (k \div 4) + 4
           /\ 100 * (k \div 100) <= k /\ k < 100 * (k \div 100) + 100
           /\ 400 * (k \div 400) <= k /\ k < 400 * (k \div 400) + 400
OBVIOUS

(* A year begins on a day.                                                 *)
LEMMA YearStartType == ASSUME NEW y \in Int PROVE YearStart(y) \in Int
BY DEF YearStart

(* A year has 365 days, and 366 if it is a leap year.                      *)
LEMMA YearLength ==
    ASSUME NEW y \in Int
    PROVE  YearStart(y + 1) = YearStart(y) + 365 + (IF Leap(y) THEN 1 ELSE 0)
<1>1. y \div 4 = (y - 1) \div 4 + (IF y % 4 = 0 THEN 1 ELSE 0)
  OBVIOUS
<1>2. y \div 100 = (y - 1) \div 100 + (IF y % 100 = 0 THEN 1 ELSE 0)
  OBVIOUS
<1>3. y \div 400 = (y - 1) \div 400 + (IF y % 400 = 0 THEN 1 ELSE 0)
  OBVIOUS
<1>4. (y % 400 = 0 => y % 100 = 0) /\ (y % 100 = 0 => y % 4 = 0)
  OBVIOUS
<1> QED BY <1>1, <1>2, <1>3, <1>4 DEF YearStart, Leap

(* A later year begins later.                                              *)
LEMMA YearsAdvance ==
    ASSUME NEW y \in Int, NEW z \in Int, y < z
    PROVE  YearStart(y) < YearStart(z)
BY DivisionBounds DEF YearStart

(* Year finds the year of a day: there is only one, and the range it       *)
(* searches holds it from year -3 on. (Years before 1 are not in Python's  *)
(* calendar, but a window may look that far back from an anchor in year    *)
(* 1.)                                                                     *)
LEMMA YearIs ==
    ASSUME NEW y \in Int, y >= -3, NEW o \in Int, YearStart(y) <= o, o < YearStart(y + 1)
    PROVE  Year(o) = y
<1> DEFINE range == o \div 366 .. o \div 365 + 1
           holds(z) == YearStart(z) <= o /\ o < YearStart(z + 1)
<1>1. y \in range
  <2>1. /\ o \div 366 \in Int /\ o \div 365 \in Int
        /\ 366 * (o \div 366) <= o /\ o < 365 * (o \div 365) + 365
    OBVIOUS
  <2>2. y - 1 \in Int /\ y - 1 >= -4 /\ YearStart(y) = 365 * (y - 1) + Leaps(y - 1) + 1
    BY DEF YearStart, Leaps
  <2>3. YearStart(y + 1) = 365 * y + Leaps(y) + 1
    BY DEF YearStart, Leaps
  <2>4. ASSUME NEW k \in Int, k >= -4
        PROVE  Leaps(k) \in Int /\ -1 <= Leaps(k) /\ (k >= 0 => Leaps(k) >= 0 /\ Leaps(k) <= k)
                /\ (k < 0 => Leaps(k) = -1)
    BY <2>4 DEF Leaps
  <2>5. o >= 365 * (y - 1)
    BY <2>2, <2>4
  <2>6. o <= 366 * y + 365
    BY <2>3, <2>4
  <2> QED BY <2>1, <2>5, <2>6
<1>2. ASSUME NEW z \in range, holds(z) PROVE z = y
  <2>1. z \in Int
    OBVIOUS
  <2>2. ~(z < y)
    <3>1. z < y => z + 1 < y \/ z + 1 = y
      BY <2>1
    <3> QED BY <2>1, <3>1, <1>2, YearsAdvance, YearStartType
  <2>3. ~(y < z)
    <3>1. y < z => y + 1 < z \/ y + 1 = z
      BY <2>1
    <3> QED BY <2>1, <3>1, <1>2, YearsAdvance, YearStartType
  <2> QED BY <2>1, <2>2, <2>3
<1>3. holds(y)
  OBVIOUS
<1>4. Year(o) = CHOOSE z \in range : holds(z)
  BY DEF Year
<1> HIDE DEF range, holds
<1>5. \E z \in range : holds(z)
  BY <1>1, <1>3
<1>6. Year(o) \in range /\ holds(Year(o))
  BY <1>4, <1>5
<1> QED BY <1>2, <1>6

(* Day -730 is 1 January of year -1.                                       *)
LEMMA FirstYear == \A y \in Int : y = -1 => YearStart(y) = -730
<1> TAKE y \in Int
<1> HAVE y = -1
<1>1. PICK k \in Int : k = y - 1
  OBVIOUS
<1>2. k + 2 = 0
  BY <1>1
<1>3. k \div 4 + 1 = 0
  BY <1>2, DivisionBounds
<1>4. k \div 100 + 1 = 0
  BY <1>2, DivisionBounds
<1>5. k \div 400 + 1 = 0
  BY <1>2, DivisionBounds
<1> QED BY <1>1, <1>2, <1>3, <1>4, <1>5, DivisionBounds DEF YearStart

(* Every day from then on is in some year: the one before the first year   *)
(* that begins later.                                                      *)
LEMMA YearExists ==
    ASSUME NEW o \in Int, o >= -730
    PROVE  \E y \in Int : y >= -1 /\ YearStart(y) <= o /\ o < YearStart(y + 1)
<1> DEFINE past == {n \in Nat : o < YearStart(n)}
           less == OpToRel(<, Nat)
<1>1. past # {} /\ past \subseteq Nat
  <2>1. CASE o >= 0
    <3>1. o + 2 \in Nat /\ o < YearStart(o + 2)
      BY <2>1, DivisionBounds DEF YearStart
    <3> QED BY <3>1
  <2>2. CASE o < 0
    <3>1. o < YearStart(1)
      BY <2>2 DEF YearStart
    <3> QED BY <3>1
  <2> QED BY <2>1, <2>2
<1>2. IsWellFoundedOn(less, Nat)
  BY NatLessThanWellFounded
<1>3. \A i, j \in Nat : j < i => <<j, i>> \in less
  <2>1. less = {ss \in Nat \X Nat : ss[1] < ss[2]}
    BY Zenon DEF OpToRel
  <2> QED BY <2>1
<1>4. \A y \in Int : y = -1 => YearStart(y) <= o
  BY FirstYear
<1>5. \A n \in past : n \in Nat /\ o < YearStart(n)
  OBVIOUS
<1>6. \A n \in Nat : n \notin past => YearStart(n) <= o
  BY YearStartType
<1> HIDE DEF less, past
<1>7. PICK n \in past : \A j \in past : <<j, n>> \notin less
  BY <1>1, <1>2, WFMin
<1>8. n \in Nat /\ o < YearStart(n)
  BY <1>5
<1>9. YearStart(n - 1) <= o
  <2>1. CASE n = 0
    <3>1. n - 1 \in Int /\ n - 1 = -1
      BY <2>1
    <3> QED BY <3>1, <1>4
  <2>2. CASE n # 0
    <3>1. n - 1 \in Nat /\ n - 1 < n
      BY <1>8, <2>2
    <3>2. n - 1 \notin past
      BY <1>3, <1>7, <1>8, <3>1
    <3> QED BY <1>6, <3>1, <3>2
  <2> QED BY <2>1, <2>2
<1>10. n - 1 \in Int /\ n - 1 >= -1 /\ (n - 1) + 1 = n
  BY <1>8
<1> QED BY <1>8, <1>9, <1>10

(* There are twelve months.                                                *)
LEMMA Twelve ==
    \A m \in 1..12 : \/ m = 1 \/ m = 2 \/ m = 3 \/ m = 4 \/ m = 5 \/ m = 6
                    \/ m = 7 \/ m = 8 \/ m = 9 \/ m = 10 \/ m = 11 \/ m = 12
OBVIOUS

(* The days before each month of a common year.                            *)
LEMMA DaysBeforeIs ==
    /\ DaysBefore[1] = 0   /\ DaysBefore[2] = 31  /\ DaysBefore[3] = 59   /\ DaysBefore[4] = 90
    /\ DaysBefore[5] = 120 /\ DaysBefore[6] = 151 /\ DaysBefore[7] = 181  /\ DaysBefore[8] = 212
    /\ DaysBefore[9] = 243 /\ DaysBefore[10] = 273 /\ DaysBefore[11] = 304 /\ DaysBefore[12] = 334
    /\ DaysBefore[13] = 365
BY DEF DaysBefore

(* A month has at least 28 days, and the next one, or the next year,       *)
(* begins when they are over.                                              *)
LEMMA MonthEnds ==
    ASSUME NEW y \in Int, NEW m \in 1..12
    PROVE  /\ MonthStart(y, m) \in Int /\ MonthDays(y, m) \in Int
           /\ MonthDays(y, m) \in 28..31
           /\ 28 <= MonthDays(y, m)
           /\ m = 12 => MonthStart(y, m) + MonthDays(y, m) = YearStart(y + 1)
           /\ m < 12 => MonthStart(y, m) + MonthDays(y, m) = MonthStart(y, m + 1)
           /\ MonthStart(y, 1) = YearStart(y)
<1> DEFINE leap == IF Leap(y) THEN 1 ELSE 0
<1>1. leap \in 0..1 /\ YearStart(y) \in Int /\ YearStart(y + 1) = YearStart(y) + 365 + leap
  BY YearStartType, YearLength
<1>2. \A n \in 1..12 : MonthStart(y, n) = YearStart(y) + DaysBefore[n] + (IF n > 2 THEN leap ELSE 0)
  BY DEF MonthStart
<1>3. MonthDays(y, m) = DaysBefore[m + 1] - DaysBefore[m] + (IF m = 2 THEN leap ELSE 0)
  BY DEF MonthDays
<1> HIDE DEF leap
<1> QED BY <1>1, <1>2, <1>3, Twelve, DaysBeforeIs

(* December has 31 days, in every year.                                    *)
LEMMA YearEnds ==
    ASSUME NEW y \in Int
    PROVE  /\ MonthStart(y, 12) \in Int /\ MonthDays(y, 12) = 31
           /\ MonthStart(y, 12) + 31 = YearStart(y + 1)
<1>1. MonthDays(y, 12) = 31
  BY DaysBeforeIs DEF MonthDays
<1>2. 12 \in 1..12
  OBVIOUS
<1>3. MonthStart(y, 12) \in Int /\ MonthStart(y, 12) + MonthDays(y, 12) = YearStart(y + 1)
  BY <1>2, MonthEnds
<1> QED BY <1>1, <1>3

(* A month is over before a later one of its year begins.                  *)
LEMMA MonthsAdvance ==
    ASSUME NEW y \in Int, NEW m \in 1..12, NEW n \in 1..12, m < n
    PROVE  MonthStart(y, m) + MonthDays(y, m) <= MonthStart(y, n)
<1>1. \A k \in 1..11 : MonthStart(y, k) + 28 <= MonthStart(y, k + 1)
  <2> TAKE k \in 1..11
  <2>1. k \in 1..12 /\ k < 12 /\ k + 1 \in 1..12
    OBVIOUS
  <2>2. MonthStart(y, k) \in Int /\ MonthDays(y, k) \in Int /\ 28 <= MonthDays(y, k)
    BY <2>1, MonthEnds
  <2>3. MonthStart(y, k) + MonthDays(y, k) = MonthStart(y, k + 1)
    BY <2>1, MonthEnds
  <2> QED BY <2>2, <2>3
<1>2. \A k \in 1..12 : MonthStart(y, k) \in Int
  BY MonthEnds
<1>3. MonthStart(y, m) + MonthDays(y, m) = MonthStart(y, m + 1)
  <2>1. m < 12
    OBVIOUS
  <2> QED BY <2>1, MonthEnds
<1>4. \A k \in 1..12 : m + 1 <= k => MonthStart(y, m + 1) <= MonthStart(y, k)
  <2> DEFINE s(k) == MonthStart(y, k)
  <2>1. s(2) <= s(3) /\ s(3) <= s(4) /\ s(4) <= s(5) /\ s(5) <= s(6) /\ s(6) <= s(7)
        /\ s(7) <= s(8) /\ s(8) <= s(9) /\ s(9) <= s(10) /\ s(10) <= s(11) /\ s(11) <= s(12)
    BY <1>1, <1>2
  <2>2. \A k \in 2..12 : s(k) \in Int
    BY <1>2
  <2>3. \A k, l \in 2..12 : k <= l => s(k) <= s(l)
    <3> HIDE DEF s
    <3> TAKE k, l \in 2..12
    <3> HAVE k <= l
    <3>1. k = 2 \/ k = 3 \/ k = 4 \/ k = 5 \/ k = 6 \/ k = 7 \/ k = 8 \/ k = 9 \/ k = 10 \/ k = 11 \/ k = 12
      OBVIOUS
    <3>2. l = 2 \/ l = 3 \/ l = 4 \/ l = 5 \/ l = 6 \/ l = 7 \/ l = 8 \/ l = 9 \/ l = 10 \/ l = 11 \/ l = 12
      OBVIOUS
    <3> QED BY <2>1, <2>2, <3>1, <3>2, SMTT(30)
  <2> QED BY <2>3
<1> QED BY <1>3, <1>4

(* Year, Month and Day read back what a date was made of.                  *)
LEMMA DateIs ==
    ASSUME NEW y \in Int, y >= -3, NEW m \in 1..12, NEW d \in 1..MonthDays(y, m)
    PROVE  /\ Date(y, m, d) \in Int
           /\ Year(Date(y, m, d)) = y /\ Month(Date(y, m, d)) = m /\ Day(Date(y, m, d)) = d
<1> DEFINE o == Date(y, m, d)
           s(n) == MonthStart(y, n)
           l(n) == MonthDays(y, n)
           within(n) == o \in s(n)..Date(y, n, l(n))
<1>1. \A n \in 1..12 : s(n) \in Int /\ l(n) \in 28..31
  BY MonthEnds
<1>2. \A n \in 1..12 : Date(y, n, l(n)) = s(n) + l(n) - 1
  BY DEF Date
<1>3. o = s(m) + d - 1 /\ d \in Int /\ 1 <= d /\ d <= l(m)
  BY <1>1 DEF Date
<1>4. \A a, b \in 1..12 : a < b => s(a) + l(a) <= s(b)
  BY MonthsAdvance
<1>5. s(12) + l(12) = YearStart(y + 1) /\ s(1) = YearStart(y)
  BY MonthEnds
<1>6. Date(y, m, d) = o
  OBVIOUS
<1>7. Year(o) = y
  <2> HIDE DEF s, l, o
  <2>1. o \in Int
    BY <1>1, <1>3
  <2>2. s(1) <= s(m)
    <3>1. CASE m = 1
      BY <3>1, <1>1
    <3>2. CASE m # 1
      BY <3>2, <1>1, <1>4
    <3> QED BY <3>1, <3>2
  <2>3. s(m) + l(m) <= s(12) + l(12)
    <3>1. CASE m = 12
      BY <3>1, <1>1
    <3>2. CASE m # 12
      <4>1. s(m) + l(m) <= s(12)
        BY <3>2, <1>4
      <4> QED BY <4>1, <1>1
    <3> QED BY <3>1, <3>2
  <2>4. YearStart(y) <= o /\ o < YearStart(y + 1)
    BY <1>1, <1>3, <1>5, <2>1, <2>2, <2>3, YearStartType
  <2> QED BY <2>1, <2>4, YearIs
<1>8. \A n \in 1..12 : within(n) => n = m
  <2> TAKE n \in 1..12
  <2> HAVE within(n)
  <2>1. s(n) <= o /\ o <= s(n) + l(n) - 1
    BY <1>2
  <2> HIDE DEF s, l, o
  <2>2. ~(n < m) /\ ~(m < n)
    BY <1>1, <1>3, <1>4, <2>1
  <2> QED BY <2>2
<1>9. within(m)
  <2>1. Date(y, m, l(m)) = s(m) + l(m) - 1
    BY <1>2
  <2> HIDE DEF s, l, o
  <2> QED BY <1>1, <1>3, <2>1
<1>10. Month(o) = CHOOSE n \in 1..12 : within(n)
  BY <1>7 DEF Month
<1>11. Month(o) = m
  <2> HIDE DEF within, o
  <2> QED BY <1>8, <1>9, <1>10
<1>12. Day(o) = d
  <2>1. Day(o) = o - s(m) + 1
    BY <1>7, <1>11 DEF Day
  <2> HIDE DEF s, l, o
  <2> QED BY <1>1, <1>3, <2>1
<1>13. o \in Int
  <2> HIDE DEF s, l, o
  <2> QED BY <1>1, <1>3
<1> HIDE DEF o
<1> QED BY <1>6, <1>7, <1>11, <1>12, <1>13

(* Every day has a date.                                                   *)
LEMMA DateExists ==
    ASSUME NEW o \in Int, o >= -730
    PROVE  \E y \in Int, m \in 1..12 : y >= -1 /\ \E d \in 1..MonthDays(y, m) : o = Date(y, m, d)
<1>1. PICK y \in Int : y >= -1 /\ YearStart(y) <= o /\ o < YearStart(y + 1)
  BY YearExists
<1> DEFINE s(n) == MonthStart(y, n)
           l(n) == MonthDays(y, n)
<1>2. y \in Int
  OBVIOUS
<1>3. \A n \in 1..12 : s(n) \in Int /\ l(n) \in Int
  BY <1>2, MonthEnds
<1>4. \A n \in 1..12 : n < 12 => s(n) + l(n) = s(n + 1)
  BY <1>2, MonthEnds
<1>5. s(12) + l(12) = YearStart(y + 1) /\ s(1) = YearStart(y)
  BY <1>2, MonthEnds
<1>6. \E m \in 1..12 : s(m) <= o /\ o < s(m) + l(m)
  <2> HIDE DEF s, l
  <2>1. s(1) + l(1) = s(2) /\ s(2) + l(2) = s(3) /\ s(3) + l(3) = s(4) /\ s(4) + l(4) = s(5)
        /\ s(5) + l(5) = s(6) /\ s(6) + l(6) = s(7) /\ s(7) + l(7) = s(8) /\ s(8) + l(8) = s(9)
        /\ s(9) + l(9) = s(10) /\ s(10) + l(10) = s(11) /\ s(11) + l(11) = s(12)
    BY <1>4
  <2>2. YearStart(y) \in Int /\ YearStart(y + 1) \in Int
    BY <1>2, YearStartType
  <2> QED BY <1>1, <1>3, <1>5, <2>1, <2>2, SMTT(60)
<1>7. PICK m \in 1..12 : s(m) <= o /\ o < s(m) + l(m)
  BY <1>6
<1>8. o - s(m) + 1 \in 1..l(m)
  <2> HIDE DEF s, l
  <2> QED BY <1>3, <1>7
<1>9. o = Date(y, m, o - s(m) + 1)
  <2>1. Date(y, m, o - s(m) + 1) = s(m) + (o - s(m) + 1) - 1
    BY DEF Date
  <2> HIDE DEF s, l
  <2> QED BY <2>1, <1>3
<1>10. \E d \in 1..MonthDays(y, m) : o = Date(y, m, d)
  BY <1>8, <1>9
<1> QED BY <1>1, <1>10

(* The first of a month, and the day before it.                            *)
LEMMA MonthFirst ==
    ASSUME NEW y \in Int, y >= -2, NEW m \in 1..12
    PROVE  LET o == MonthStart(y, m) IN
           /\ o \in Int
           /\ Year(o) = y /\ Month(o) = m /\ Day(o) = 1 /\ Date(y, m, 1) = o
           /\ m > 1 => Year(o - 1) = y /\ Month(o - 1) = m - 1
           /\ m = 1 => Year(o - 1) = y - 1 /\ Month(o - 1) = 12
<1>1. /\ MonthStart(y, m) \in Int /\ MonthDays(y, m) \in Int /\ 28 <= MonthDays(y, m)
      /\ 1 \in 1..MonthDays(y, m)
  <2>1. /\ MonthStart(y, m) \in Int /\ MonthDays(y, m) \in Int
        /\ 28 <= MonthDays(y, m)
    BY MonthEnds
  <2> QED BY <2>1
<1>2. Date(y, m, 1) = MonthStart(y, m)
  BY <1>1 DEF Date
<1>3. /\ Year(MonthStart(y, m)) = y /\ Month(MonthStart(y, m)) = m /\ Day(MonthStart(y, m)) = 1
  BY <1>1, <1>2, DateIs
<1>4. ASSUME m > 1
      PROVE  Year(MonthStart(y, m) - 1) = y /\ Month(MonthStart(y, m) - 1) = m - 1
  <2>1. m - 1 \in 1..12 /\ m - 1 < 12 /\ (m - 1) + 1 = m
    BY <1>4
  <2>2. /\ MonthDays(y, m - 1) \in Int /\ 28 <= MonthDays(y, m - 1) /\ MonthStart(y, m - 1) \in Int
        /\ MonthStart(y, m - 1) + MonthDays(y, m - 1) = MonthStart(y, m)
    BY <2>1, MonthEnds
  <2>3. Date(y, m - 1, MonthDays(y, m - 1)) = MonthStart(y, m) - 1
    BY <2>2, <1>1 DEF Date
  <2>4. MonthDays(y, m - 1) \in 1..MonthDays(y, m - 1)
    BY <2>2
  <2> QED BY <2>1, <2>3, <2>4, DateIs
<1>5. ASSUME m = 1
      PROVE  Year(MonthStart(y, m) - 1) = y - 1 /\ Month(MonthStart(y, m) - 1) = 12
  <2>1. y - 1 \in Int /\ (y - 1) + 1 = y /\ y - 1 >= -3 /\ 12 \in 1..12
    OBVIOUS
  <2>2. /\ MonthDays(y - 1, 12) = 31 /\ MonthStart(y - 1, 12) \in Int
        /\ MonthStart(y - 1, 12) + 31 = YearStart(y)
    BY <2>1, YearEnds
  <2>3. MonthStart(y, 1) = YearStart(y)
    BY MonthEnds
  <2>4. Date(y - 1, 12, MonthDays(y - 1, 12)) = MonthStart(y, m) - 1
    BY <2>2, <2>3, <1>1, <1>5 DEF Date
  <2>5. MonthDays(y - 1, 12) \in 1..MonthDays(y - 1, 12)
    BY <2>2
  <2> QED BY <2>1, <2>4, <2>5, DateIs
<1> QED BY <1>1, <1>2, <1>3, <1>4, <1>5

(* _shift_year: the same day one year before, but for 29 February.         *)
LEMMA ShiftIsYearBefore ==
    ASSUME NEW o \in Int, o >= -730
    PROVE  ShiftBackOneYear(o) \in Int /\ YearBefore(o, ShiftBackOneYear(o))
<1>1. PICK y \in Int, m \in 1..12 : y >= -1 /\ \E d \in 1..MonthDays(y, m) : o = Date(y, m, d)
  BY DateExists
<1>2. PICK d \in 1..MonthDays(y, m) : o = Date(y, m, d)
  BY <1>1
<1> DEFINE n == MonthDays(y - 1, m)
           e == IF d > n THEN n ELSE d
<1>3. y - 1 \in Int /\ y - 1 >= -3 /\ y >= -3
  BY <1>1
<1>4. /\ n \in Int /\ 28 <= n
      /\ MonthDays(y, m) \in Int
  BY <1>3, MonthEnds
<1>5. /\ Year(o) = y /\ Month(o) = m /\ Day(o) = d
  BY <1>2, <1>3, DateIs
<1>6. ShiftBackOneYear(o) = Date(y - 1, m, e)
  BY <1>5 DEF ShiftBackOneYear
<1>7. d \in Int /\ 1 <= d /\ d <= MonthDays(y, m)
  BY <1>4
<1>8. e \in 1..n /\ e \in Int
  BY <1>4, <1>7
<1>9. e = IF d = 29 /\ m = 2 THEN 28 ELSE d
  <2>0. DaysBefore[m + 1] - DaysBefore[m] \in Int
    BY Twelve, DaysBeforeIs
  <2>1. CASE m # 2
    <3>1. n = MonthDays(y, m)
      BY <2>1, <2>0 DEF MonthDays
    <3> QED BY <2>1, <3>1, <1>4, <1>7
  <2>2. CASE m = 2
    <3>1. n = (IF Leap(y - 1) THEN 29 ELSE 28) /\ MonthDays(y, m) = (IF Leap(y) THEN 29 ELSE 28)
      BY <2>2, DaysBeforeIs DEF MonthDays
    <3>2. ~(Leap(y) /\ Leap(y - 1))
      BY DEF Leap
    <3> QED BY <2>2, <3>1, <3>2, <1>7
  <2> QED BY <2>1, <2>2
<1> HIDE DEF e, n
<1>10. /\ Date(y - 1, m, e) \in Int
       /\ Year(Date(y - 1, m, e)) = y - 1 /\ Month(Date(y - 1, m, e)) = m /\ Day(Date(y - 1, m, e)) = e
  BY <1>3, <1>8, DateIs DEF n
<1> QED BY <1>5, <1>6, <1>7, <1>9, <1>10 DEF YearBefore, MonthIndex

(* An earlier month begins at least 28 days before a later one.            *)
LEMMA MonthsOrdered ==
    ASSUME NEW y \in Int, NEW m \in 1..12, NEW z \in Int, NEW n \in 1..12,
           12 * y + m < 12 * z + n
    PROVE  MonthStart(y, m) + 28 <= MonthStart(z, n)
<1>1. /\ MonthStart(y, m) \in Int /\ MonthDays(y, m) \in Int /\ 28 <= MonthDays(y, m)
      /\ MonthStart(z, n) \in Int
  BY MonthEnds
<1>2. CASE y = z
  BY <1>1, <1>2, MonthsAdvance
<1>3. CASE y # z
  <2>1. y < z
    BY <1>3
  <2>2. MonthStart(y, m) + MonthDays(y, m) <= YearStart(y + 1)
    <3>1. MonthStart(y, 12) + 31 = YearStart(y + 1) /\ MonthStart(y, 12) \in Int /\ MonthDays(y, 12) = 31
      BY YearEnds
    <3>2. m < 12 => MonthStart(y, m) + MonthDays(y, m) <= MonthStart(y, 12)
      BY MonthsAdvance
    <3>3. m < 12 \/ m = 12
      OBVIOUS
    <3> QED BY <1>1, <3>1, <3>2, <3>3
  <2>3. YearStart(y + 1) <= YearStart(z)
    <3>1. y + 1 = z \/ y + 1 < z
      BY <2>1
    <3> QED BY <3>1, YearsAdvance, YearStartType
  <2>4. YearStart(z) <= MonthStart(z, n)
    <3>1. /\ MonthStart(z, 1) = YearStart(z) /\ MonthStart(z, 1) \in Int
          /\ MonthDays(z, 1) \in Int /\ 28 <= MonthDays(z, 1)
      BY MonthEnds
    <3>2. 1 < n => MonthStart(z, 1) + MonthDays(z, 1) <= MonthStart(z, n)
      BY MonthsAdvance
    <3>3. 1 < n \/ 1 = n
      OBVIOUS
    <3> QED BY <1>1, <3>1, <3>2, <3>3
  <2>5. YearStart(y + 1) \in Int /\ YearStart(z) \in Int
    BY YearStartType
  <2> QED BY <1>1, <2>2, <2>3, <2>4, <2>5
<1> QED BY <1>2, <1>3

(* No month of year -1 or later begins before day -730.                    *)
LEMMA MonthsBounded ==
    ASSUME NEW y \in Int, y >= -1, NEW m \in 1..12
    PROVE  MonthStart(y, m) >= -730
<1>1. PICK first \in Int : first = -1
  OBVIOUS
<1>2. MonthStart(first, 1) = -730 /\ MonthStart(y, m) \in Int
  <2>1. MonthStart(first, 1) = YearStart(first) /\ MonthStart(y, m) \in Int
    BY MonthEnds
  <2> QED BY <1>1, <2>1, FirstYear
<1>3. 12 * first + 1 < 12 * y + m => MonthStart(first, 1) + 28 <= MonthStart(y, m)
  BY MonthsOrdered
<1>4. 12 * first + 1 < 12 * y + m \/ (first = y /\ m = 1)
  BY <1>1
<1> QED BY <1>2, <1>3, <1>4

(* The units the windows are told in.                                      *)
LEMMA UnitIs ==
    /\ UnitOf["CURRENT_DAY"] = "DAY" /\ UnitOf["PREVIOUS_COMPLETE_DAY"] = "DAY"
    /\ UnitOf["CURRENT_WEEK"] = "WEEK" /\ UnitOf["PREVIOUS_COMPLETE_WEEK"] = "WEEK"
    /\ UnitOf["CURRENT_MONTH"] = "MONTH" /\ UnitOf["PREVIOUS_COMPLETE_MONTH"] = "MONTH"
    /\ UnitOf["CURRENT_QUARTER"] = "QUARTER" /\ UnitOf["PREVIOUS_COMPLETE_QUARTER"] = "QUARTER"
    /\ UnitOf["CURRENT_YEAR"] = "YEAR" /\ UnitOf["PREVIOUS_COMPLETE_YEAR"] = "YEAR"
    /\ UnitOf["ROLLING_30_DAYS"] = "DAY" /\ UnitOf["ROLLING_12_MONTHS"] = "MONTH"
BY DEF UnitOf

(* A range that is exactly the days a window asks for.                     *)
Exact(range, w) ==
    /\ range = Span(range.start, range.end)
    /\ range.start \in Int /\ range.end \in Int /\ range.start >= -730
    /\ range.start <= range.end
    /\ Asked(w, range.start) /\ Asked(w, range.end)
    /\ ~Asked(w, range.start - 1) /\ ~Asked(w, range.end + 1)

(* Days: today, yesterday and the last thirty.                             *)
LEMMA DaysAsked ==
    ASSUME NEW w, w.anchor \in Nat,
           w.preset \in {"CURRENT_DAY", "PREVIOUS_COMPLETE_DAY", "ROLLING_30_DAYS"}
    PROVE  Exact(Resolve(w), w)
<1> DEFINE a == w.anchor
<1>1. CASE w.preset = "CURRENT_DAY"
  <2>1. Resolve(w) = Span(a, a)
    BY <1>1 DEF Resolve
  <2>2. \A o \in Int : Asked(w, o) <=> a - o = 0 /\ o <= a
    BY <1>1, UnitIs DEF Asked, Index, CurrentPresets, PreviousPresets
  <2> QED BY <2>1, <2>2 DEF Exact, Span
<1>2. CASE w.preset = "PREVIOUS_COMPLETE_DAY"
  <2>1. Resolve(w) = Span(a - 1, a - 1)
    BY <1>2 DEF Resolve
  <2>2. \A o \in Int : Asked(w, o) <=> a - o = 1
    BY <1>2, UnitIs DEF Asked, Index, CurrentPresets, PreviousPresets
  <2> QED BY <2>1, <2>2 DEF Exact, Span
<1>3. CASE w.preset = "ROLLING_30_DAYS"
  <2>1. Resolve(w) = Span(a - 29, a)
    BY <1>3 DEF Resolve
  <2>2. \A o \in Int : Asked(w, o) <=> a - o \in 0..29
    BY <1>3, UnitIs DEF Asked, Index, CurrentPresets, PreviousPresets
  <2> QED BY <2>1, <2>2 DEF Exact, Span
<1> QED BY <1>1, <1>2, <1>3

(* Weeks begin on Monday.                                                  *)
LEMMA WeeksAsked ==
    ASSUME NEW w, w.anchor \in Nat,
           w.preset \in {"CURRENT_WEEK", "PREVIOUS_COMPLETE_WEEK"}
    PROVE  Exact(Resolve(w), w)
<1> DEFINE a == w.anchor
           week(o) == (o - 1) \div 7
<1>1. Weekday(a) \in 0..6 /\ a - Weekday(a) = 7 * week(a) + 1
  BY DEF Weekday
<1>2. \A o, k \in Int : week(o) = k <=> 7 * k + 1 <= o /\ o <= 7 * k + 7
  OBVIOUS
<1>3. \A o \in Int : week(o) \in Int
  OBVIOUS
<1>4. week(a) \in Int /\ week(a) >= -1
  OBVIOUS
<1>5. CASE w.preset = "CURRENT_WEEK"
  <2>1. Resolve(w) = Span(a - Weekday(a), a)
    BY <1>5 DEF Resolve
  <2>2. \A o \in Int : Asked(w, o) <=> week(a) - week(o) = 0 /\ o <= a
    BY <1>5, UnitIs DEF Asked, Index, CurrentPresets, PreviousPresets
  <2>3. \A o \in Int : Asked(w, o) <=> 7 * week(a) + 1 <= o /\ o <= 7 * week(a) + 7 /\ o <= a
    <3> HIDE DEF week
    <3> QED BY <2>2, <1>3, <1>2, <1>4
  <2> HIDE DEF week
  <2> QED BY <2>1, <2>3, <1>1, <1>4 DEF Exact, Span
<1>6. CASE w.preset = "PREVIOUS_COMPLETE_WEEK"
  <2>1. Resolve(w) = Span(a - (Weekday(a) + 1) - 6, a - (Weekday(a) + 1))
    BY <1>6 DEF Resolve
  <2>2. \A o \in Int : Asked(w, o) <=> week(a) - week(o) = 1
    BY <1>6, UnitIs DEF Asked, Index, CurrentPresets, PreviousPresets
  <2>3. \A o \in Int : Asked(w, o) <=> 7 * (week(a) - 1) + 1 <= o /\ o <= 7 * (week(a) - 1) + 7
    <3> HIDE DEF week
    <3>1. PICK k \in Int : k = week(a) - 1
      BY <1>4
    <3>2. \A o \in Int : Asked(w, o) <=> week(o) = k
      BY <2>2, <1>3, <1>4, <3>1
    <3> QED BY <1>2, <3>1, <3>2
  <2> HIDE DEF week
  <2> QED BY <2>1, <2>3, <1>1, <1>4 DEF Exact, Span
<1> QED BY <1>5, <1>6

(* The month of an anchor.                                                 *)
LEMMA AnchorIs ==
    ASSUME NEW a \in Nat
    PROVE  LET y == Year(a)
               m == Month(a)
           IN /\ y \in Int /\ y >= 0 /\ m \in 1..12
              /\ MonthStart(y, m) \in Int /\ MonthStart(y, m) <= a
<1>1. PICK y \in Int, m \in 1..12 : y >= -1 /\ \E d \in 1..MonthDays(y, m) : a = Date(y, m, d)
  BY DateExists
<1>2. PICK d \in 1..MonthDays(y, m) : a = Date(y, m, d)
  BY <1>1
<1>3. Year(a) = y /\ Month(a) = m
  BY <1>1, <1>2, DateIs
<1>4. MonthStart(y, m) \in Int /\ MonthDays(y, m) \in Int
  BY MonthEnds
<1>5. a = MonthStart(y, m) + d - 1
  BY <1>2 DEF Date
<1>6. MonthStart(y, m) <= a /\ a < MonthStart(y, m) + MonthDays(y, m)
  BY <1>4, <1>5
<1>7. y >= 0
  <2>1. CASE y = -1
    <3>1. MonthStart(y, m) + MonthDays(y, m) <= YearStart(y + 1)
      <4>1. /\ MonthStart(y, 12) + 31 = YearStart(y + 1)
            /\ MonthStart(y, 12) \in Int /\ MonthDays(y, 12) = 31
        BY YearEnds
      <4>2. m < 12 => MonthStart(y, m) + MonthDays(y, m) <= MonthStart(y, 12)
        BY MonthsAdvance
      <4>3. m < 12 \/ m = 12
        OBVIOUS
      <4> QED BY <1>4, <4>1, <4>2, <4>3
    <3>2. YearStart(y + 1) < 0 /\ YearStart(y + 1) \in Int
      <4>1. y + 1 = 0
        BY <2>1
      <4> QED BY <2>1, <4>1, FirstYear, YearLength
    <3> QED BY <1>4, <1>6, <3>1, <3>2
  <2>2. CASE y # -1
    BY <1>1, <2>2
  <2> QED BY <2>1, <2>2
<1> QED BY <1>3, <1>4, <1>6, <1>7

(* Day o opens month n of year z: the day before is the last of the month  *)
(* before it.                                                              *)
Opens(o, z, n) ==
    /\ o \in Int /\ o >= -730
    /\ MonthIndex(o) = 12 * z + n - 1
    /\ MonthIndex(o - 1) = 12 * z + n - 2

(* So does the day MonthStart computes.                                    *)
LEMMA MonthOpens ==
    ASSUME NEW z \in Int, z >= -1, NEW n \in 1..12
    PROVE  Opens(MonthStart(z, n), z, n)
<1>1. MonthStart(z, n) >= -730
  BY MonthsBounded
<1>2. /\ MonthStart(z, n) \in Int
      /\ Year(MonthStart(z, n)) = z /\ Month(MonthStart(z, n)) = n
      /\ n > 1 => Year(MonthStart(z, n) - 1) = z /\ Month(MonthStart(z, n) - 1) = n - 1
      /\ n = 1 => Year(MonthStart(z, n) - 1) = z - 1 /\ Month(MonthStart(z, n) - 1) = 12
  BY MonthFirst
<1> QED BY <1>1, <1>2 DEF Opens, MonthIndex

(* Months: this one, the one before, and the last twelve.                  *)
LEMMA MonthsAsked ==
    ASSUME NEW w, w.anchor \in Nat,
           w.preset \in {"CURRENT_MONTH", "PREVIOUS_COMPLETE_MONTH", "ROLLING_12_MONTHS"}
    PROVE  Exact(Resolve(w), w)
<1> DEFINE a == w.anchor
           y == Year(a)
           m == Month(a)
           month == MonthStart(y, m)
<1>1. /\ y \in Int /\ y >= 0 /\ m \in 1..12 /\ month \in Int /\ month <= a /\ a \in Nat
  BY AnchorIs
<1>2. MonthIndex(a) = 12 * y + m - 1
  BY DEF MonthIndex
<1> HIDE DEF month, y, m, a
<1>3. /\ MonthIndex(month) = 12 * y + m - 1 /\ MonthIndex(month - 1) = 12 * y + m - 2 /\ month >= -730
  <2>1. y >= -1
    BY <1>1
  <2>2. Opens(month, y, m)
    BY <1>1, <2>1, MonthOpens DEF month
  <2> QED BY <2>2 DEF Opens
<1>4. CASE w.preset = "CURRENT_MONTH"
  <2>1. Resolve(w) = Span(month, a)
    BY <1>4 DEF Resolve, a, month, y, m
  <2>2. \A o : Asked(w, o) <=> MonthIndex(a) - MonthIndex(o) = 0 /\ o <= a
    BY <1>4, UnitIs DEF Asked, Index, CurrentPresets, PreviousPresets, a
  <2> QED BY <2>1, <2>2, <1>1, <1>2, <1>3 DEF Exact, Span
<1>5. CASE w.preset = "PREVIOUS_COMPLETE_MONTH"
  <2> DEFINE start == MonthStart(Year(month - 1), Month(month - 1))
  <2>1. Resolve(w) = Span(start, month - 1)
    BY <1>5 DEF Resolve, a, month, y, m
  <2>2. \A o : Asked(w, o) <=> MonthIndex(a) - MonthIndex(o) = 1
    BY <1>5, UnitIs DEF Asked, Index, CurrentPresets, PreviousPresets, a
  <2>3. /\ m > 1 => Year(month - 1) = y /\ Month(month - 1) = m - 1
        /\ m = 1 => Year(month - 1) = y - 1 /\ Month(month - 1) = 12
    BY <1>1, MonthFirst DEF month
  <2>4. /\ Year(month - 1) \in Int /\ Year(month - 1) >= -1 /\ Month(month - 1) \in 1..12
        /\ 12 * Year(month - 1) + Month(month - 1) = 12 * y + m - 1
    BY <1>1, <2>3
  <2>5. /\ start \in Int /\ start >= -730
        /\ MonthIndex(start) = 12 * y + m - 2 /\ MonthIndex(start - 1) = 12 * y + m - 3
    <3>1. /\ start \in Int /\ start >= -730
          /\ MonthIndex(start) = 12 * Year(month - 1) + Month(month - 1) - 1
          /\ MonthIndex(start - 1) = 12 * Year(month - 1) + Month(month - 1) - 2
      <4>1. Opens(start, Year(month - 1), Month(month - 1))
        BY <2>4, MonthOpens
      <4> QED BY <4>1 DEF Opens
    <3> QED BY <1>1, <2>4, <3>1
  <2>6. start + 28 <= month
    <3>1. PICK z \in Int, n \in 1..12 : z = Year(month - 1) /\ n = Month(month - 1)
      BY <2>4
    <3>2. 12 * z + n < 12 * y + m
      BY <1>1, <2>4, <3>1
    <3>3. MonthStart(z, n) + 28 <= MonthStart(y, m)
      BY <1>1, <3>2, MonthsOrdered
    <3> QED BY <3>1, <3>3 DEF month
  <2>7. (month - 1) + 1 = month
    BY <1>1
  <2> HIDE DEF start
  <2> QED BY <2>1, <2>2, <2>5, <2>6, <2>7, <1>1, <1>2, <1>3 DEF Exact, Span
<1>6. CASE w.preset = "ROLLING_12_MONTHS"
  <2> DEFINE start == RollingStart(a)
  <2>1. Resolve(w) = Span(start, a)
    BY <1>6 DEF Resolve, a
  <2>2. \A o : Asked(w, o) <=> MonthIndex(a) - MonthIndex(o) \in 0..11 /\ o <= a
    BY <1>6, UnitIs DEF Asked, Index, CurrentPresets, PreviousPresets, a
  <2>3. \E z \in Int, n \in 1..12 : z >= -1 /\ start = MonthStart(z, n) /\ 12 * z + n = 12 * y + m - 11
    <3>1. CASE m = 12
      <4>1. start = MonthStart(y, 1)
        <5>1. start = Date(y, 1, 1)
          BY <3>1 DEF RollingStart, y, m
        <5> HIDE DEF start
        <5> QED BY <5>1, <1>1, MonthFirst
      <4> HIDE DEF start
      <4> QED BY <4>1, <3>1, <1>1
    <3>2. CASE m # 12
      <4>1. start = Date(y - 1, m + 1, 1)
        BY <3>2 DEF RollingStart, y, m
      <4>2. y - 1 \in Int /\ y - 1 >= -1 /\ m + 1 \in 1..12
        BY <1>1, <3>2
      <4> HIDE DEF start
      <4>3. start = MonthStart(y - 1, m + 1)
        BY <4>1, <4>2, MonthFirst
      <4>4. 12 * (y - 1) + (m + 1) = 12 * y + m - 11
        BY <1>1
      <4> QED BY <4>2, <4>3, <4>4
    <3> QED BY <3>1, <3>2
  <2> HIDE DEF start
  <2>4. PICK z \in Int, n \in 1..12 : z >= -1 /\ start = MonthStart(z, n) /\ 12 * z + n = 12 * y + m - 11
    BY <2>3
  <2>5. /\ start \in Int /\ start >= -730
        /\ MonthIndex(start) = 12 * z + n - 1 /\ MonthIndex(start - 1) = 12 * z + n - 2
    <3>1. Opens(start, z, n)
      BY <2>4, MonthOpens
    <3> QED BY <3>1 DEF Opens
  <2>6. start <= a
    <3>1. 12 * z + n < 12 * y + m
      BY <1>1, <2>4
    <3>2. MonthStart(z, n) + 28 <= MonthStart(y, m)
      BY <1>1, <3>1, MonthsOrdered
    <3> QED BY <1>1, <2>4, <2>5, <3>2 DEF month
  <2>7. MonthIndex(a) - MonthIndex(start) = 11 /\ MonthIndex(a) - MonthIndex(start - 1) = 12
    BY <1>1, <1>2, <2>4, <2>5
  <2>8. Asked(w, start) /\ ~Asked(w, start - 1)
    BY <1>1, <2>2, <2>5, <2>6, <2>7
  <2>9. Asked(w, a) /\ ~Asked(w, a + 1)
    BY <1>1, <1>2, <2>2
  <2> QED BY <2>1, <2>5, <2>6, <2>8, <2>9, <1>1 DEF Exact, Span
<1> QED BY <1>4, <1>5, <1>6

(* Quarters: this one and the one before.                                  *)
LEMMA QuartersAsked ==
    ASSUME NEW w, w.anchor \in Nat,
           w.preset \in {"CURRENT_QUARTER", "PREVIOUS_COMPLETE_QUARTER"}
    PROVE  Exact(Resolve(w), w)
<1> DEFINE a == w.anchor
           y == Year(a)
           m == Month(a)
           first(n) == ((n - 1) \div 3) * 3 + 1
           start == QuarterStart(a)
<1>0. \A n \in 1..12 : first(n) \in 1..12 /\ first(n) <= n /\ n <= first(n) + 2 /\ (first(n) - 1) % 3 = 0
  OBVIOUS
<1>1. /\ y \in Int /\ y >= 0 /\ m \in 1..12
      /\ MonthStart(y, m) \in Int /\ MonthStart(y, m) <= a /\ a \in Nat
  BY AnchorIs
<1>2. MonthIndex(a) = 12 * y + m - 1
  BY DEF MonthIndex
<1>3. start = MonthStart(y, first(m)) /\ \A o : QuarterStart(o) = MonthStart(Year(o), first(Month(o)))
  BY DEF QuarterStart
<1> HIDE DEF start, y, m, a, first
<1>4. /\ start \in Int /\ start >= -730
      /\ MonthIndex(start) = 12 * y + first(m) - 1 /\ MonthIndex(start - 1) = 12 * y + first(m) - 2
  <2>1. y >= -1 /\ first(m) \in 1..12
    BY <1>0, <1>1
  <2>2. Opens(start, y, first(m))
    BY <1>1, <1>3, <2>1, MonthOpens
  <2> QED BY <2>2 DEF Opens
<1>5. start <= MonthStart(y, m)
  <2>1. first(m) \in 1..12 /\ (first(m) = m \/ first(m) < m)
    BY <1>0, <1>1
  <2>2. first(m) < m => MonthStart(y, first(m)) + 28 <= MonthStart(y, m)
    <3>1. first(m) < m => 12 * y + first(m) < 12 * y + m
      BY <1>1, <2>1
    <3> QED BY <1>1, <2>1, <3>1, MonthsOrdered
  <2> QED BY <1>1, <1>3, <1>4, <2>1, <2>2
<1>6. CASE w.preset = "CURRENT_QUARTER"
  <2>1. Resolve(w) = Span(start, a)
    BY <1>6 DEF Resolve, a, start
  <2>2. \A o : Asked(w, o) <=> (MonthIndex(a) \div 3) - (MonthIndex(o) \div 3) = 0 /\ o <= a
    BY <1>6, UnitIs DEF Asked, Index, CurrentPresets, PreviousPresets, a
  <2>3. /\ MonthIndex(start) \div 3 = MonthIndex(a) \div 3
        /\ MonthIndex(start - 1) \div 3 = (MonthIndex(a) \div 3) - 1
        /\ MonthIndex(a) \div 3 \in Int
    BY <1>0, <1>1, <1>2, <1>4
  <2>4. Asked(w, start) /\ ~Asked(w, start - 1) /\ Asked(w, a) /\ ~Asked(w, a + 1)
    BY <2>2, <2>3, <1>1, <1>4, <1>5
  <2> QED BY <2>1, <2>4, <1>1, <1>4, <1>5 DEF Exact, Span
<1>7. CASE w.preset = "PREVIOUS_COMPLETE_QUARTER"
  <2> DEFINE z == Year(start - 1)
             n == Month(start - 1)
             before == QuarterStart(start - 1)
  <2>1. Resolve(w) = Span(before, start - 1)
    BY <1>7 DEF Resolve, a, start
  <2>2. \A o : Asked(w, o) <=> (MonthIndex(a) \div 3) - (MonthIndex(o) \div 3) = 1
    BY <1>7, UnitIs DEF Asked, Index, CurrentPresets, PreviousPresets, a
  <2>3. /\ z \in Int /\ z >= -1 /\ n \in 1..12 /\ 12 * z + n = 12 * y + first(m) - 1
    <3>1. first(m) \in 1..12 /\ y >= -2
      BY <1>0, <1>1
    <3>2. /\ first(m) > 1 => z = y /\ n = first(m) - 1
          /\ first(m) = 1 => z = y - 1 /\ n = 12
      BY <1>1, <1>3, <3>1, MonthFirst
    <3> QED BY <1>1, <3>1, <3>2
  <2>4. before = MonthStart(z, first(n))
    BY <1>3
  <2> HIDE DEF z, n, before
  <2>5. /\ before \in Int /\ before >= -730
        /\ MonthIndex(before) = 12 * z + first(n) - 1 /\ MonthIndex(before - 1) = 12 * z + first(n) - 2
    <3>1. first(n) \in 1..12
      BY <1>0, <2>3
    <3>2. Opens(before, z, first(n))
      BY <2>3, <2>4, <3>1, MonthOpens
    <3> QED BY <3>2 DEF Opens
  <2>6. before <= start - 1
    <3>1. PICK k \in 1..12, l \in 1..12 : k = first(n) /\ l = first(m)
      BY <1>0, <1>1, <2>3
    <3>2. 12 * z + k < 12 * y + l
      BY <1>0, <1>1, <2>3, <3>1
    <3>3. MonthStart(z, k) + 28 <= MonthStart(y, l)
      BY <1>1, <2>3, <3>2, MonthsOrdered
    <3> QED BY <1>3, <1>4, <2>4, <2>5, <3>1, <3>3
  <2>7. first(n) + 12 * z = 12 * y + first(m) - 3
    BY <1>0, <1>1, <2>3
  <2>8. /\ MonthIndex(before) \div 3 = (MonthIndex(a) \div 3) - 1
        /\ MonthIndex(before - 1) \div 3 = (MonthIndex(a) \div 3) - 2
        /\ MonthIndex(start - 1) \div 3 = (MonthIndex(a) \div 3) - 1
        /\ MonthIndex(start) \div 3 = MonthIndex(a) \div 3
        /\ MonthIndex(a) \div 3 \in Int
    BY <1>0, <1>1, <1>2, <1>4, <2>3, <2>5, <2>7
  <2>9. (start - 1) + 1 = start
    BY <1>4
  <2> QED BY <2>1, <2>2, <2>5, <2>6, <2>8, <2>9, <1>4 DEF Exact, Span
<1> QED BY <1>6, <1>7

(* Years: this one and the one before.                                     *)
LEMMA YearsAsked ==
    ASSUME NEW w, w.anchor \in Nat,
           w.preset \in {"CURRENT_YEAR", "PREVIOUS_COMPLETE_YEAR"}
    PROVE  Exact(Resolve(w), w)
<1> DEFINE a == w.anchor
           y == Year(a)
           m == Month(a)
<1>1. /\ y \in Int /\ y >= 0 /\ m \in 1..12
      /\ MonthStart(y, m) \in Int /\ MonthStart(y, m) <= a /\ a \in Nat
  BY AnchorIs
<1> HIDE DEF y, m, a
<1>2. ASSUME NEW z \in Int, z >= -1
      PROVE  /\ Date(z, 1, 1) = MonthStart(z, 1) /\ MonthStart(z, 1) \in Int /\ MonthStart(z, 1) >= -730
             /\ Year(MonthStart(z, 1)) = z /\ Year(MonthStart(z, 1) - 1) = z - 1
  BY <1>2, MonthFirst, MonthsBounded
<1>3. CASE w.preset = "CURRENT_YEAR"
  <2> DEFINE start == MonthStart(y, 1)
  <2>0. /\ Date(y, 1, 1) = start /\ start \in Int /\ start >= -730
        /\ Year(start) = y /\ Year(start - 1) = y - 1
    <3>1. y >= -1
      BY <1>1
    <3> QED BY <1>1, <1>2, <3>1
  <2>1. Resolve(w) = Span(start, a)
    BY <1>3, <2>0 DEF Resolve, a, y
  <2>2. \A o : Asked(w, o) <=> y - Year(o) = 0 /\ o <= a
    BY <1>3, UnitIs DEF Asked, Index, CurrentPresets, PreviousPresets, a, y
  <2>3. start <= a
    <3>1. 1 = m \/ 12 * y + 1 < 12 * y + m
      BY <1>1
    <3>2. 12 * y + 1 < 12 * y + m => start + 28 <= MonthStart(y, m)
      BY <1>1, MonthsOrdered
    <3> QED BY <1>1, <2>0, <3>1, <3>2
  <2>4. Year(a) = y
    BY DEF y
  <2> HIDE DEF start
  <2> QED BY <2>0, <2>1, <2>2, <2>3, <2>4, <1>1 DEF Exact, Span
<1>4. CASE w.preset = "PREVIOUS_COMPLETE_YEAR"
  <2> DEFINE start == MonthStart(y - 1, 1)
             next == MonthStart(y, 1)
  <2>0. /\ Date(y - 1, 1, 1) = start /\ start \in Int /\ start >= -730
        /\ Year(start) = y - 1 /\ Year(start - 1) = y - 2
        /\ next \in Int /\ Year(next) = y /\ Year(next - 1) = y - 1
    <3>1. y >= -1 /\ y - 1 \in Int /\ y - 1 >= -1 /\ (y - 1) - 1 = y - 2
      BY <1>1
    <3> QED BY <1>1, <1>2, <3>1
  <2>1. Date(y - 1, 12, 31) = next - 1
    <3>1. PICK z \in Int : z = y - 1 /\ z + 1 = y
      BY <1>1
    <3>2. MonthStart(z, 12) \in Int /\ MonthStart(z, 12) + 31 = YearStart(z + 1)
      BY YearEnds
    <3>3. MonthStart(y, 1) = YearStart(y)
      BY <1>1, MonthEnds
    <3>4. Date(z, 12, 31) = MonthStart(z, 12) + 31 - 1
      BY DEF Date
    <3> QED BY <2>0, <3>1, <3>2, <3>3, <3>4
  <2>2. Resolve(w) = Span(start, next - 1)
    BY <1>4, <2>0, <2>1 DEF Resolve, a, y
  <2>3. \A o : Asked(w, o) <=> y - Year(o) = 1
    BY <1>4, UnitIs DEF Asked, Index, CurrentPresets, PreviousPresets, a, y
  <2>4. start + 28 <= next
    <3>1. y - 1 \in Int /\ 12 * (y - 1) + 1 < 12 * y + 1
      BY <1>1
    <3> QED BY <1>1, <3>1, MonthsOrdered
  <2>5. (next - 1) + 1 = next
    BY <2>0
  <2> HIDE DEF start, next
  <2> QED BY <2>0, <2>2, <2>3, <2>4, <2>5, <1>1 DEF Exact, Span
<1> QED BY <1>3, <1>4

(* Every named window is exactly the days it asks for.                     *)
LEMMA WindowsExact ==
    ASSUME NEW w, w.anchor \in Nat, w.preset \in DOMAIN UnitOf
    PROVE  Exact(Resolve(w), w)
<1>1. DOMAIN UnitOf = {"CURRENT_DAY", "CURRENT_WEEK", "CURRENT_MONTH", "CURRENT_QUARTER", "CURRENT_YEAR",
                       "PREVIOUS_COMPLETE_DAY", "PREVIOUS_COMPLETE_WEEK", "PREVIOUS_COMPLETE_MONTH",
                       "PREVIOUS_COMPLETE_QUARTER", "PREVIOUS_COMPLETE_YEAR",
                       "ROLLING_30_DAYS", "ROLLING_12_MONTHS"}
  BY DEF UnitOf
<1> QED BY <1>1, DaysAsked, WeeksAsked, MonthsAsked, QuartersAsked, YearsAsked

(* A window resolves to the days it asks for, and the period it is         *)
(* compared with is the one before it or the one a year before.            *)
LEMMA WindowsMatch ==
    ASSUME NEW w, w.anchor \in Nat,
           \/ w.preset \in DOMAIN UnitOf
           \/ /\ w.preset = "CUSTOM"
              /\ \E first, last \in Nat : w.dates = Span(first, last),
           NEW comparison \in Comparisons
    PROVE  /\ Covers(Resolve(w), w)
           /\ comparison # "NONE" => Precedes(Against(Resolve(w), comparison), Resolve(w), comparison)
<1> DEFINE current == Resolve(w)
<1>1. /\ Covers(current, w)
      /\ current.start \in Int /\ current.end \in Int /\ current.start >= -730 /\ current.end >= -730
  <2>1. CASE w.preset \in DOMAIN UnitOf
    <3>1. Exact(current, w) /\ w.preset # "CUSTOM"
      <4>1. w.preset # "CUSTOM"
        BY <2>1 DEF UnitOf
      <4> QED BY <2>1, <4>1, WindowsExact
    <3> HIDE DEF current
    <3> QED BY <3>1 DEF Exact, Covers
  <2>2. CASE w.preset = "CUSTOM"
    <3>1. current = w.dates
      BY <2>2 DEF Resolve
    <3>2. "CUSTOM" \notin DOMAIN UnitOf
      BY DEF UnitOf
    <3>3. PICK first \in Nat, last \in Nat : w.dates = Span(first, last)
      BY <2>2, <3>2
    <3>4. current.start \in Nat /\ current.end \in Nat
      BY <3>1, <3>3 DEF Span
    <3> HIDE DEF current
    <3> QED BY <2>2, <3>1, <3>4 DEF Covers
  <2> QED BY <2>1, <2>2
<1> HIDE DEF current
<1>2. ASSUME comparison = "PRIOR_PERIOD"
      PROVE  Precedes(Against(current, comparison), current, comparison)
  BY <1>1, <1>2 DEF Against, Precedes, Span
<1>3. ASSUME comparison = "YEAR_OVER_YEAR"
      PROVE  Precedes(Against(current, comparison), current, comparison)
  <2>1. /\ YearBefore(current.start, ShiftBackOneYear(current.start))
        /\ YearBefore(current.end, ShiftBackOneYear(current.end))
    BY <1>1, ShiftIsYearBefore
  <2> QED BY <1>3, <2>1 DEF Against, Precedes, Span
<1> QED BY <1>1, <1>2, <1>3 DEF current, Comparisons

-----------------------------------------------------------------------------
(* The windows of plans                                                    *)

(* A plan whose periods are what its window and comparison ask for.        *)
Dated(pl) ==
    LET current == Resolve(pl.window)
    IN /\ Covers(current, pl.window)
       /\ pl.comparison # "NONE" => Precedes(Against(current, pl.comparison), current, pl.comparison)

(* Compiling dates a plan, whatever the words of the question: dates, the  *)
(* window they name, or the default window of the metric.                  *)
LEMMA CompileDates ==
    ASSUME request \in Requests, NEW i, i.metrics \subseteq Metrics, Refusal(q, access, i) = "NONE"
    PROVE  Dated(Compile(q, access, i, request.anchor))
<1> DEFINE m == Chosen(i.metrics)
           pl == Compile(q, access, i, request.anchor)
           w  == TimeWindow(q, m, request.anchor)
           n  == Len(q.dates)
<1>1. TimeShape(q) /\ request.anchor \in Nat
  BY RequestsAssumption DEF q
<1>2. i.metrics # {} /\ ~WindowRefused(q, m) /\ ~Dateless(q, m)
  BY DEF Refusal
<1>3. m \in Metrics
  BY <1>2 DEF Chosen
<1>4. Metric[m].window \in Presets /\ Metric[m].comparison \in Comparisons
  BY <1>3, CatalogAssumption DEF PackContract, MetricFields, Comparisons
<1>5. pl.window = w /\ pl.comparison = Comparison(q, i.intent, m)
  BY DEF Compile
<1> HIDE DEF m, pl, w
<1>6. Comparison(q, i.intent, m) \in Comparisons
  BY <1>1, <1>4 DEF Comparison, TimeShape, Comparisons
<1>7. /\ w.anchor = request.anchor
      /\ \/ w.preset \in DOMAIN UnitOf
         \/ /\ w.preset = "CUSTOM"
            /\ \E first, last \in Nat : w.dates = Span(first, last)
  <2>1. n \in Nat /\ q.dates \in Seq(Nat \cup {NoDay})
    BY <1>1 DEF TimeShape
  <2>2. CASE n > 0
    <3>1. q.dates[1] \in Nat /\ q.dates[n] \in Nat
      <4>1. 1 \in 1..n /\ n \in 1..n
        BY <2>1, <2>2
      <4>2. \A j \in 1..n : q.dates[j] \in Nat \cup {NoDay} /\ q.dates[j] # NoDay
        BY <1>2, <2>1 DEF WindowRefused
      <4> QED BY <4>1, <4>2
    <3>2. w = Window("CUSTOM", IF n = 1 THEN "DAY" ELSE Metric[m].grain, request.anchor,
                     Span(q.dates[1], q.dates[n]))
      BY <2>1, <2>2 DEF TimeWindow, w
    <3> QED BY <3>1, <3>2 DEF Window
  <2>3. CASE n = 0 /\ q.preset # Nothing
    <3>1. Chosen(q.preset) \in DOMAIN UnitOf
      BY <1>1, <2>3 DEF TimeShape, Chosen
    <3>2. w = Window(Chosen(q.preset), UnitOf[Chosen(q.preset)], request.anchor, NoDates)
      BY <2>3 DEF TimeWindow, w
    <3> QED BY <3>1, <3>2 DEF Window
  <2>4. CASE n = 0 /\ q.preset = Nothing
    <3>1. Metric[m].window \in DOMAIN UnitOf
      <4>1. Metric[m].window # "CUSTOM"
        <5>1. q.dates = <<>>
          BY <2>1, <2>4
        <5> QED BY <1>2, <2>4, <5>1 DEF Dateless
      <4> QED BY <1>4, <4>1
              DEF Presets, CurrentPresets, PreviousPresets, RollingPresets, UnitOf
    <3>2. w = Window(Metric[m].window, Metric[m].grain, request.anchor, NoDates)
      BY <2>4 DEF TimeWindow, w
    <3> QED BY <3>1, <3>2 DEF Window
  <2> QED BY <2>1, <2>2, <2>3, <2>4
<1> QED BY <1>1, <1>5, <1>6, <1>7, WindowsMatch DEF Dated, pl

(* Only Plan leads to the places where a plan waits to be recorded or      *)
(* executed; nothing changes a plan that waits there.                      *)
LEMMA OnlyPlanCompiles ==
    ASSUME [Next]_vars, ~Plan, pc' \in {"filing", "planned"}
    PROVE  UNCHANGED <<pc, plan>>
<1> USE DEF data, Fail, Settle, Continue, Succeed, Outcome, Decline, Onward
<1>1. ~Begin /\ ~Open /\ ~StartPlanner /\ ~StartExecutor /\ ~StartVerifier /\ ~StartComposer
  BY DEF Begin, Open, StartPlanner, StartExecutor, StartVerifier, StartComposer, Start
<1>2. ~Interpret /\ ~Respond /\ ~Propose /\ ~Consult
  BY DEF Interpret, Respond, Propose, Consult, Judge
<1>3. ~Count /\ ~Wake /\ ~CallFails /\ ~Note /\ ~File
  BY DEF Count, Wake, CallFails, Reserve, Note, File, Record
<1>4. ~Query /\ ~Execute /\ ~SourceFails
  BY DEF Query, Execute, SourceFails
<1>5. ~Verify /\ ~Compose /\ ~Release /\ ~OutOfTime /\ ~Unwind
  BY DEF Verify, Compose, Release, OutOfTime, Unwind
<1>6. ~DeadlineFires /\ ~Cancel
  BY DEF DeadlineFires, Cancel, Interrupt
<1>7. CASE Expire \/ Done \/ UNCHANGED vars
  BY <1>7 DEF Expire, Done, vars
<1> QED BY <1>1, <1>2, <1>3, <1>4, <1>5, <1>6, <1>7 DEF Next, Synchronous

(* The periods of every plan are what the words of its question mean on    *)
(* the calendar, for every anchor day and every window.                    *)
THEOREM PeriodsMatchCalendarAlways == Spec => []PeriodsMatchCalendar
<1>1. PeriodsMatchCalendar <=> (pc \in {"filing", "planned"} => Dated(plan))
  BY DEF PeriodsMatchCalendar, Dated
<1>2. Init => PeriodsMatchCalendar
  BY DEF Init, PeriodsMatchCalendar
<1>3. ASSUME PeriodsMatchCalendar, AuthorityInv, [Next]_vars PROVE PeriodsMatchCalendar'
  <2> SUFFICES ASSUME pc' \in {"filing", "planned"} PROVE Dated(plan)'
    BY DEF PeriodsMatchCalendar, Dated
  <2>1. CASE Plan
    <3>1. plan' = Compile(q, access, meaning, request.anchor) /\ Refusal(q, access, meaning) = "NONE"
      BY <2>1 DEF Plan, Fail, Settle, Succeed, Continue, Onward
    <3>2. request \in Requests /\ meaning.metrics \subseteq Metrics
      BY <1>3, <2>1 DEF AuthorityInv, Judged, Plan, Sound
    <3>3. Dated(plan')
      BY <3>1, <3>2, CompileDates
    <3> QED BY <3>3 DEF Dated
  <2>2. CASE ~Plan
    <3>1. UNCHANGED <<pc, plan>>
      BY <1>3, <2>2, OnlyPlanCompiles
    <3> QED BY <1>1, <1>3, <3>1 DEF Dated
  <2> QED BY <2>1, <2>2
<1> QED BY <1>2, <1>3, AuthorityKept, PTL DEF Spec

-----------------------------------------------------------------------------
(* What an answer says                                                     *)

(* A view yields rows only when each group is whole in each period.        *)
LEMMA ViewRows ==
    ASSUME NEW j, ViewStatus(j) = "ROWS"
    PROVE  SameGroups(j) /\ \A i \in DOMAIN j.periods : Whole(j, i)
<1> DEFINE a == Cardinality(KeysOf(j, 1)) + Cardinality(KeysOf(j, 2)) >= MaximumGroups(j)
           b == ~(SameGroups(j) /\ \A i \in DOMAIN j.periods : Whole(j, i))
           c == Overfull(j, 1)
           gates == << <<a, "INVALID">>, <<b, "SOURCE_NOT_READY">>, <<c, "INVALID">>, <<TRUE, "ROWS">> >>
<1>1. First(gates) = "ROWS"
  BY DEF ViewStatus
<1> SUFFICES ~b
  OBVIOUS
<1> HIDE DEF a, b, c
<1>2. Len(gates) = 4 /\ gates[4][1]
  OBVIOUS
<1>3. PICK n \in 1..4 : (\A i \in 1..4 : gates[i][1] => n <= i) /\ First(gates) = gates[n][2]
  <2> HIDE DEF gates
  <2>1. 4 \in 1..Len(gates) /\ Len(gates) \in Nat
    BY <1>2
  <2>2. \E n \in 1..Len(gates) : /\ gates[n][1]
                                  /\ \A i \in 1..Len(gates) : gates[i][1] => n <= i
                                  /\ First(gates) = gates[n][2]
    BY <1>2, <2>1, FirstGate
  <2> QED BY <1>2, <2>2
<1>4. n = 4
  BY <1>1, <1>3
<1>5. ~gates[2][1]
  BY <1>3, <1>4
<1> QED BY <1>5

(* So does a file.                                                         *)
LEMMA CsvRows ==
    ASSUME NEW j, CsvStatus(j) = "ROWS"
    PROVE  SameGroups(j) /\ Whole(j, 1) /\ (Compared(j) => Whole(j, 2))
<1> DEFINE a == Overfull(j, 1)
           b == ~Whole(j, 1)
           c == Compared(j) /\ Overfull(j, 2)
           d == Compared(j) /\ ~Whole(j, 2)
           e == ~SameGroups(j)
           gates == << <<a, "INVALID">>, <<b, "SOURCE_NOT_READY">>, <<c, "INVALID">>,
                       <<d, "SOURCE_NOT_READY">>, <<e, "SOURCE_NOT_READY">>, <<TRUE, "ROWS">> >>
<1>1. First(gates) = "ROWS"
  BY DEF CsvStatus
<1> SUFFICES ~b /\ ~d /\ ~e
  OBVIOUS
<1> HIDE DEF a, b, c, d, e
<1>2. Len(gates) = 6 /\ gates[6][1]
  OBVIOUS
<1>3. PICK n \in 1..6 : (\A i \in 1..6 : gates[i][1] => n <= i) /\ First(gates) = gates[n][2]
  <2> HIDE DEF gates
  <2>1. 6 \in 1..Len(gates) /\ Len(gates) \in Nat
    BY <1>2
  <2>2. \E n \in 1..Len(gates) : /\ gates[n][1]
                                  /\ \A i \in 1..Len(gates) : gates[i][1] => n <= i
                                  /\ First(gates) = gates[n][2]
    BY <1>2, <2>1, FirstGate
  <2> QED BY <1>2, <2>2
<1>4. n = 6
  BY <1>1, <1>3
<1>5. ~gates[2][1] /\ ~gates[4][1] /\ ~gates[5][1]
  BY <1>3, <1>4
<1> QED BY <1>5

(* The days of a complete group are all the days of its period.            *)
LEMMA CompleteIsEveryDay ==
    ASSUME NEW facts, NEW range, Complete(facts, range), range.start <= range.end,
           \A f \in facts : f.day \in Int /\ range.start <= f.day /\ f.day <= range.end
    PROVE  EveryDay(facts, range)
<1> DEFINE days == {f.day : f \in facts}
<1>1. range.start \in Int /\ range.end \in Int
  BY DEF Complete
<1>2. days \in SUBSET (range.start..range.end)
  BY <1>1
<1>3. Cardinality(days) = range.end - range.start + 1
  BY DEF Complete
<1>4. IsFiniteSet(range.start..range.end) /\ Cardinality(range.start..range.end) = range.end - range.start + 1
  BY <1>1, FS_Interval
<1>5. days = range.start..range.end
  <2> HIDE DEF days
  <2> QED BY <1>2, <1>3, <1>4, FS_Subset
<1> QED BY <1>5 DEF EveryDay, Complete

(* The periods of a plan: one, or two if it compares.                      *)
LEMMA PeriodsAre ==
    ASSUME NEW pl
    PROVE  /\ Len(PeriodsOf(pl)) = 2 <=> pl.comparison # "NONE"
           /\ DOMAIN PeriodsOf(pl) = IF pl.comparison = "NONE" THEN {1} ELSE {1, 2}
           /\ PeriodsOf(pl)[1] = Resolve(pl.window)
           /\ pl.comparison # "NONE" => PeriodsOf(pl)[2] = Against(Resolve(pl.window), pl.comparison)
<1> DEFINE current == Resolve(pl.window)
           earlier == Against(Resolve(pl.window), pl.comparison)
<1>1. PeriodsOf(pl) = IF pl.comparison = "NONE" THEN <<current>> ELSE <<current, earlier>>
  BY DEF PeriodsOf
<1> HIDE DEF current, earlier
<1>2. CASE pl.comparison = "NONE"
  BY <1>1, <1>2 DEF current
<1>3. CASE pl.comparison # "NONE"
  BY <1>1, <1>3 DEF current, earlier
<1> QED BY <1>2, <1>3

(* A plan that is what its question, as it was understood, compiles to.    *)
Faithful ==
    /\ meaning.metrics \subseteq Metrics /\ meaning.dims \in Groupings
    /\ Refusal(q, access, meaning) = "NONE"
    /\ plan = Compile(q, access, meaning, request.anchor)

(* The job of a faithful plan.                                             *)
LEMMA JobIs ==
    ASSUME Faithful
    PROVE  /\ job.kind = request.source /\ job.world = request.world /\ job.plan = plan
           /\ job.access = access /\ job.periods = PeriodsOf(plan)
           /\ plan.dims = meaning.dims /\ plan.filters = Filters(q, plan.metric)
           /\ plan.window = TimeWindow(q, plan.metric, request.anchor)
           /\ plan.comparison = Comparison(q, meaning.intent, plan.metric)
BY DEF Faithful, Compile, job, Job

(* Its WHERE clause keeps the facts an answer should be about.             *)
LEMMA MatchesWanted ==
    ASSUME Faithful, NEW f \in Facts[request.world], NEW range
    PROVE  f \in Wanted(plan.metric, range, NoKey) <=> Matches(f, job) /\ InPeriod(f, range)
<1> DEFINE m == plan.metric
           named(e) == Entity[e].values \cap q.values
           Fine == \A e \in Metric[m].dims : named(e) = {} \/ f.at[e] \in named(e)
<1>1. plan.filters = [e \in {d \in Metric[m].dims : named(d) # {}} |-> named(e)]
  BY JobIs DEF Filters
<1>2. (\A e \in DOMAIN plan.filters : f.at[e] \in plan.filters[e]) <=> Fine
  <2> HIDE DEF named, m
  <2> QED BY <1>1
<1>3. InPeriod(f, range) <=> range.start <= f.day /\ f.until <= range.end
  BY DEF InPeriod, Inside, Span
<1>4. f \in Wanted(m, range, NoKey) <=>
        /\ f.metric = m /\ Visible(f, request.source, m, access)
        /\ Fine /\ range.start <= f.day /\ f.until <= range.end
  BY DEF Wanted, NoKey
<1>5. Matches(f, job) <=> /\ f.metric = m /\ Visible(f, request.source, m, access)
                          /\ \A e \in DOMAIN plan.filters : f.at[e] \in plan.filters[e]
  BY JobIs DEF Matches
<1> QED BY <1>2, <1>3, <1>4, <1>5

(* The facts wanted of a group are those wanted that lie in the group.     *)
LEMMA WantedOfGroup ==
    ASSUME NEW g, NEW key, key = Key(g, plan), NEW m, NEW range
    PROVE  Wanted(m, range, key) = {f \in Wanted(m, range, NoKey) : Key(f, plan) = key}
<1>1. DOMAIN key = plan.dims /\ key = [e \in plan.dims |-> g.at[e]]
  BY DEF Key
<1>2. ASSUME NEW f
      PROVE  (\A e \in DOMAIN key : f.at[e] = key[e]) <=> Key(f, plan) = key
  BY <1>1, Zenon DEF Key
<1>3. \A f : f \in Wanted(m, range, key) <=>
               f \in Wanted(m, range, NoKey) /\ \A e \in DOMAIN key : f.at[e] = key[e]
  BY DEF Wanted, NoKey
<1> QED BY <1>2, <1>3

(* A group of the current period has every fact it should.                 *)
LEMMA CurrentGroup ==
    ASSUME Faithful, NEW g, NEW key, key = Key(g, plan)
    PROVE  /\ Part(job, 1) = Wanted(plan.metric, job.periods[1], NoKey)
           /\ Members(job, 1, key) = Wanted(plan.metric, job.periods[1], key)
<1> DEFINE everything == Wanted(plan.metric, job.periods[1], NoKey)
<1>1. 1 \in DOMAIN job.periods
  BY JobIs, PeriodsAre
<1>2. \A f \in Facts[request.world] : InPart(f, job, 1) <=> InPeriod(f, job.periods[1])
  BY <1>1 DEF InPart
<1>3. Part(job, 1) = everything
  <2>1. everything \subseteq Facts[request.world]
    BY DEF Wanted
  <2>2. \A f \in Facts[request.world] : f \in everything <=> Matches(f, job) /\ InPeriod(f, job.periods[1])
    BY MatchesWanted
  <2> HIDE DEF everything
  <2> QED BY <1>2, <2>1, <2>2, JobIs DEF Part
<1>4. Members(job, 1, key) = {f \in everything : Key(f, plan) = key}
  BY <1>3, JobIs DEF Members
<1> QED BY <1>3, <1>4, WantedOfGroup

(* So has one of the comparison period: a view leaves out the days that    *)
(* lie in both periods, and a group that lacks days is not whole.          *)
LEMMA ComparedGroup ==
    ASSUME Faithful, request \in Requests, plan.comparison # "NONE",
           NEW g, NEW key, key = Key(g, plan),
           job.kind = "VIEW" => /\ Complete(Members(job, 2, key), job.periods[2])
                                /\ job.periods[2].start <= job.periods[2].end
    PROVE  Members(job, 2, key) = Wanted(plan.metric, job.periods[2], key)
<1> DEFINE current == job.periods[1]
           earlier == job.periods[2]
           wanted  == Wanted(plan.metric, earlier, key)
           whole   == Wanted(plan.metric, earlier, NoKey)
           members == Members(job, 2, key)
<1>1. 2 \in DOMAIN job.periods
  BY JobIs, PeriodsAre
<1>2. wanted = {f \in whole : Key(f, plan) = key}
  BY WantedOfGroup
<1>3. whole \subseteq Facts[request.world]
  BY DEF Wanted
<1>4. \A f \in Facts[request.world] : f \in whole <=> Matches(f, job) /\ InPeriod(f, earlier)
  BY MatchesWanted
<1> HIDE DEF whole
<1>5. \A f : f \in members <=> f \in wanted /\ (job.kind = "VIEW" => ~InPeriod(f, current))
  BY <1>1, <1>2, <1>3, <1>4, JobIs DEF Members, Part, InPart
<1>6. ASSUME job.kind = "VIEW", NEW f \in wanted PROVE ~InPeriod(f, current)
  <2>1. wanted \subseteq Facts[request.world]
    BY <1>2, <1>3
  <2>2. \A h \in wanted : h.day \in Int /\ h.day = h.until
    <3>1. Viewed(request.world) /\ request.world \in DOMAIN Facts
      BY <1>6, JobIs, RequestsAssumption, WorldsAssumption
    <3>2. Facts[request.world] \subseteq Fact
      BY <3>1, SourceAssumption
    <3> QED BY <2>1, <3>1, <3>2 DEF Viewed, Daily, Fact
  <2>3. \A h \in wanted : earlier.start <= h.day /\ h.day <= earlier.end
    BY <2>2 DEF Wanted
  <2>4. EveryDay(members, earlier)
    BY <1>5, <1>6, <2>2, <2>3, CompleteIsEveryDay
  <2>5. earlier.start \in Int /\ earlier.end \in Int
    <3>1. {earlier.start, earlier.end} \subseteq {h.day : h \in members}
      BY <1>6 DEF Complete
    <3> HIDE DEF members, wanted
    <3> QED BY <1>5, <2>2, <3>1
  <2>6. PICK d \in members : d.day = f.day
    <3>1. f.day \in earlier.start..earlier.end
      BY <1>6, <2>2, <2>3, <2>5
    <3> HIDE DEF members, wanted
    <3> QED BY <2>4, <3>1 DEF EveryDay
  <2>7. d.day = f.day /\ d.until = f.until /\ ~InPeriod(d, current)
    BY <1>5, <1>6, <2>2, <2>6
  <2> QED BY <2>7 DEF InPeriod, Inside, Span
<1> HIDE DEF members, wanted
<1> QED BY <1>5, <1>6 DEF members, wanted

(* A row says of a group with a value in the current period what that      *)
(* value is, and what it was in the period compared with.                  *)
LEMMA RowsAre ==
    ASSUME NEW j, NEW r
    PROVE  r \in Rows(j) <=>
             \E k \in KeysOf(j, 1) : /\ Counted(Members(j, 1, k)) # {}
                                     /\ r = Merged(k, Total(Counted(Members(j, 1, k))), Value(Members(j, 2, k)))
<1>1. \A k, v : v \in Value(Members(j, 1, k)) <=>
                  Counted(Members(j, 1, k)) # {} /\ v = Total(Counted(Members(j, 1, k)))
  BY DEF Value
<1> QED BY <1>1 DEF Rows

(* The groups that have a row are those of the facts wanted that count.    *)
LEMMA GroupsAre ==
    ASSUME Faithful
    PROVE  {r.key : r \in Rows(job)} =
             {[e \in plan.dims |-> f.at[e]] : f \in Counted(Wanted(plan.metric, job.periods[1], NoKey))}
<1> DEFINE wanted  == Wanted(plan.metric, job.periods[1], NoKey)
           hasRow(k) == k \in KeysOf(job, 1) /\ Counted(Members(job, 1, k)) # {}
<1>1. Part(job, 1) = wanted
  BY CurrentGroup
<1> HIDE DEF wanted
<1>2. \A k : k \in {r.key : r \in Rows(job)} <=> hasRow(k)
  <2> DEFINE row(k) == Merged(k, Total(Counted(Members(job, 1, k))), Value(Members(job, 2, k)))
  <2>1. \A k : row(k).key = k
    BY DEF Merged
  <2> HIDE DEF row
  <2>2. \A r : r \in Rows(job) <=> \E k : hasRow(k) /\ r = row(k)
    BY RowsAre DEF row
  <2> HIDE DEF hasRow
  <2> QED BY <2>1, <2>2
<1>3. \A k : hasRow(k) <=> \E f \in Counted(wanted) : k = Key(f, plan)
  <2>1. \A k : k \in KeysOf(job, 1) <=> \E f \in wanted : k = Key(f, plan)
    BY <1>1, JobIs DEF KeysOf
  <2>2. \A k : Members(job, 1, k) = {f \in wanted : Key(f, plan) = k}
    BY <1>1, JobIs DEF Members
  <2> QED BY <2>1, <2>2 DEF Counted
<1>4. {Key(f, plan) : f \in Counted(wanted)} = {r.key : r \in Rows(job)}
  BY <1>2, <1>3
<1> QED BY <1>4 DEF wanted, Key

(* What a view or a file yields rows of is whole.                          *)
LEMMA SupervisedIsWhole ==
    ASSUME NEW j, j.kind \in {"VIEW", "CSV"}, SourceStatus(j) = "ROWS", NEW k \in KeysOf(j, 1),
           DOMAIN j.periods = IF Compared(j) THEN {1, 2} ELSE {1}
    PROVE  /\ Complete(Members(j, 1, k), j.periods[1])
           /\ Compared(j) => Complete(Members(j, 2, k), j.periods[2])
<1>1. SameGroups(j) /\ Whole(j, 1) /\ (Compared(j) => Whole(j, 2))
  <2>1. CASE j.kind = "VIEW"
    <3>1. ViewStatus(j) = "ROWS"
      BY <2>1 DEF SourceStatus
    <3> QED BY <3>1, ViewRows
  <2>2. CASE j.kind = "CSV"
    <3>1. CsvStatus(j) = "ROWS"
      BY <2>2 DEF SourceStatus
    <3> QED BY <3>1, CsvRows
  <2> QED BY <2>1, <2>2
<1> QED BY <1>1 DEF SameGroups, Whole

(* What a view or a file holds of a group that is complete is owed.        *)
LEMMA WholeIsOwed ==
    ASSUME request \in Requests, Supervised, NEW m, NEW range, NEW key,
           Complete(Wanted(m, range, key), range), range.start <= range.end
    PROVE  EveryDay(Wanted(m, range, key), range)
<1>1. Viewed(request.world) /\ request.world \in DOMAIN Facts
  BY RequestsAssumption, WorldsAssumption DEF Supervised, Imported
<1>2. Facts[request.world] \subseteq Fact
  BY <1>1, SourceAssumption
<1>3. \A f \in Wanted(m, range, key) :
         f.day \in Int /\ f.day = f.until /\ range.start <= f.day /\ f.until <= range.end
  BY <1>1, <1>2 DEF Wanted, Viewed, Daily, Fact
<1> HIDE DEF Wanted
<1> QED BY <1>3, CompleteIsEveryDay

(* A row of a verified receipt tells the value its group is owed in each   *)
(* of the periods.                                                         *)
LEMMA RowIsOwed ==
    ASSUME request \in Requests, Faithful, SourceStatus(job) = "ROWS", receipt = Receipt(job),
           Verified(receipt, plan.metric), NEW r \in receipt.rows
    PROVE  LET ps == job.periods
           IN /\ Owed(plan.metric, ps[1], r.key, r.value)
              /\ Len(ps) = 2 => \E p \in r.previous : r.previous = {p} /\ Owed(plan.metric, ps[2], r.key, p)
<1> DEFINE m  == plan.metric
           ps == job.periods
<1>1. receipt.rows = Rows(job) /\ receipt.periods = ps
  BY DEF Receipt
<1>2. PICK k \in KeysOf(job, 1) :
         /\ Counted(Members(job, 1, k)) # {}
         /\ r = Merged(k, Total(Counted(Members(job, 1, k))), Value(Members(job, 2, k)))
  BY <1>1, RowsAre
<1>3. /\ r.key = k /\ r.value = Total(Counted(Members(job, 1, k)))
      /\ r.previous = Value(Members(job, 2, k))
  BY <1>2 DEF Merged
<1>4. PICK g : k = Key(g, plan)
  BY JobIs DEF KeysOf
<1>5. Members(job, 1, k) = Wanted(m, ps[1], k)
  BY <1>4, CurrentGroup
<1>6. /\ Compared(job) <=> plan.comparison # "NONE"
      /\ DOMAIN ps = IF Compared(job) THEN {1, 2} ELSE {1}
  BY JobIs, PeriodsAre DEF Compared
<1>7. /\ ps[1].start <= ps[1].end
      /\ Compared(job) => ps[2].start <= ps[2].end
  BY <1>1, <1>6 DEF Verified, CoverageValid
<1>8. InBounds(r.value, m) /\ \A p \in r.previous : InBounds(p, m)
  BY DEF Verified, RowInBounds
<1>9. Compared(job) => \E p : p \in r.previous
  <2>1. Compared(job) <=> Len(receipt.periods) = 2
    BY <1>1 DEF Compared
  <2> QED BY <2>1 DEF Verified, Consistent
<1>10. Supervised => /\ Complete(Members(job, 1, k), ps[1])
                     /\ Compared(job) => Complete(Members(job, 2, k), ps[2])
  BY <1>6, JobIs, SupervisedIsWhole DEF Supervised
<1>11. Supervised => EveryDay(Wanted(m, ps[1], k), ps[1])
  BY <1>5, <1>7, <1>10, WholeIsOwed
<1>12. Owed(m, ps[1], r.key, r.value)
  <2> HIDE DEF m, ps
  <2> QED BY <1>2, <1>3, <1>5, <1>8, <1>11 DEF Owed
<1>13. ASSUME Compared(job) PROVE \E p \in r.previous : r.previous = {p} /\ Owed(m, ps[2], r.key, p)
  <2>1. job.kind = "VIEW" => Supervised
    BY JobIs DEF Supervised
  <2>2. Members(job, 2, k) = Wanted(m, ps[2], k)
    BY <1>4, <1>6, <1>7, <1>10, <1>13, <2>1, ComparedGroup
  <2>3. Supervised => EveryDay(Wanted(m, ps[2], k), ps[2])
    BY <1>7, <1>10, <1>13, <2>2, WholeIsOwed
  <2>4. PICK p : p \in r.previous
    BY <1>9, <1>13
  <2> DEFINE facts == Wanted(m, ps[2], k)
  <2>5. r.previous = {Total(Counted(facts))} /\ Counted(facts) # {}
    <3>1. r.previous = Value(facts)
      BY <1>3, <2>2
    <3> HIDE DEF facts
    <3> QED BY <2>4, <3>1 DEF Value
  <2>6. p = Total(Counted(facts)) /\ InBounds(p, m)
    BY <1>8, <2>4, <2>5
  <2>7. Owed(m, ps[2], r.key, p)
    <3> HIDE DEF m, ps
    <3> QED BY <1>3, <2>3, <2>5, <2>6 DEF Owed
  <2> QED BY <2>4, <2>5, <2>6, <2>7
<1> QED BY <1>12, <1>13 DEF Compared

(* A verified receipt of a faithful plan is true.                          *)
LEMMA ReceiptIsTrue ==
    ASSUME request \in Requests, Faithful, SourceStatus(job) = "ROWS", receipt = Receipt(job),
           Verified(receipt, plan.metric)
    PROVE  AnswerIsTrue
<1> DEFINE m  == plan.metric
           ps == receipt.periods
           comparison == Comparison(q, meaning.intent, m)
<1>1. ps = job.periods /\ receipt.rows = Rows(job)
  BY DEF Receipt
<1>2. /\ plan.window = TimeWindow(q, m, request.anchor) /\ plan.comparison = comparison
      /\ plan.dims \in Groupings
  BY JobIs DEF Faithful
<1>3. Dated(plan)
  BY CompileDates DEF Faithful
<1>4. /\ ps[1] = Resolve(plan.window)
      /\ Len(ps) = 2 <=> plan.comparison # "NONE"
      /\ plan.comparison # "NONE" => ps[2] = Against(ps[1], plan.comparison)
  BY <1>1, JobIs, PeriodsAre
<1>5. /\ Covers(ps[1], TimeWindow(q, m, request.anchor))
      /\ Len(ps) = 2 <=> comparison # "NONE"
      /\ Len(ps) = 2 => Precedes(ps[2], ps[1], comparison)
  BY <1>2, <1>3, <1>4 DEF Dated
<1>6. {r.key : r \in receipt.rows} =
         {[e \in plan.dims |-> f.at[e]] : f \in Counted(Wanted(m, ps[1], NoKey))}
  BY <1>1, GroupsAre
<1>7. \A r \in receipt.rows :
         /\ Owed(m, ps[1], r.key, r.value)
         /\ Len(ps) = 2 => \E p \in r.previous : r.previous = {p} /\ Owed(m, ps[2], r.key, p)
  BY <1>1, RowIsOwed
<1> QED BY <1>2, <1>5, <1>6, <1>7 DEF AnswerIsTrue

(* Where a task waits for the provider, where it has a plan, where it has  *)
(* what the source returned, and when that was verified.                   *)
Consulting == pc \in {"counting", "calling", "pausing"}
Drafted   == pc \in {"filing", "planned", "executing", "querying"}
Obtained  == pc \in {"executed", "verifying"}
Certified == pc \in {"verified", "composing"} \/ status = "ANSWERED"

(* What an answer rests on, followed from the interpretation of its        *)
(* question through its plan to the verified receipt.                      *)
AnswerInv ==
    /\ Consulting => Supervised /\ request.llm
    /\ Judged => meaning.dims \in Groupings
    /\ Drafted \/ Obtained \/ Certified => Faithful
    /\ Obtained \/ Certified => SourceStatus(job) = "ROWS" /\ receipt = Receipt(job) /\ reads = ReadByPlan
    /\ Certified => Verified(receipt, plan.metric)
    /\ status = "ANSWERED" => pc \in {"releasing", "settled"}

(* A step that leaves the meaning, the plan and the receipt alone keeps    *)
(* this if it goes to no place that demands more.                          *)
LEMMA AnswerHeld ==
    ASSUME AnswerInv, UNCHANGED <<request, meaning, plan, receipt>>,
           Consulting' => Consulting \/ (Supervised /\ request.llm),
           Judged' => Judged, Drafted' => Drafted, Obtained' => Obtained,
           Obtained' \/ Certified' => UNCHANGED reads,
           Certified' => Certified \/ (Obtained /\ Verified(receipt, plan.metric)),
           status' = "ANSWERED" => pc' \in {"releasing", "settled"}
    PROVE  AnswerInv'
<1>1. q' = q /\ access' = access /\ Supervised' = Supervised
  BY DEF q, access, Supervised
<1>2. job' = job /\ Groupings' = Groupings /\ ReadByPlan' = ReadByPlan
  BY <1>1 DEF job, Groupings, ReadByPlan
<1>3. Faithful' = Faithful
  BY <1>1, <1>2 DEF Faithful
<1>4. Consulting' => (Supervised /\ request.llm)'
  BY <1>1 DEF AnswerInv
<1> QED BY <1>2, <1>3, <1>4 DEF AnswerInv

(* A question is taken to group by what its words ask for.                 *)
LEMMA GroupsAsked ==
    ASSUME request \in Requests
    PROVE  /\ ~request.llm \/ ~Supervised => Rules(q).dims \in Groupings
           /\ \A p : request.llm /\ Supervised => Ground(q, p).dims \in Groupings
           /\ \A p : request.llm /\ ~Supervised => Merge(q, p).dims \in Groupings
<1>1. QuestionShape(q)
  BY RequestsAssumption DEF q
<1>2. q.by \subseteq q.grouping
  BY <1>1 DEF QuestionShape
<1> QED BY <1>2 DEF Groupings, Rules, Ground, Merge

(* A judged interpretation groups by what its question asks for.           *)
LEMMA JudgedGroups ==
    ASSUME AnswerInv, NEW i, i.dims \in Groupings, meaning' = i, Judge(i),
           pc \in {"resolving", "calling"}, UNCHANGED <<request, plan, receipt>>
    PROVE  AnswerInv'
<1>1. q' = q /\ Supervised' = Supervised
  BY DEF q, Supervised
<1>2. Groupings' = Groupings
  BY <1>1 DEF Groupings
<1>3. Verdict(q, access, i) # "ANSWERED"
  BY VerdictMeans DEF Verdicts
<1>4. pc' \in {"noting", "admitted", "releasing", "settled", "planning"} /\ status' # "ANSWERED"
  BY <1>3 DEF Judge, Outcome, Succeed, Continue, Settle, Onward
<1> QED BY <1>2, <1>4 DEF AnswerInv, Consulting, Drafted, Obtained, Certified

(* Every step of the task keeps it.                                        *)
LEMMA AnswerStep ==
    ASSUME AnswerInv, AuthorityInv, [Next]_vars
    PROVE  AnswerInv'
<1> USE DEF data, model, Fail, Settle, Continue, Succeed, Outcome, Decline, Onward,
            Judged, Consulting, Drafted, Obtained, Certified
<1>0. request \in Requests /\ (status = "ANSWERED" => pc \in {"releasing", "settled"})
  BY DEF AuthorityInv, AnswerInv
<1>1. CASE Begin \/ Open \/ StartPlanner
  BY <1>0, <1>1, AnswerHeld DEF Begin, Open, StartPlanner, Start
<1>2. CASE Interpret
  <2>1. CASE UNCHANGED meaning /\ pc' \in {"noting", "releasing", "settled"} /\ status' \in {"DENIED", "FAILED"}
    BY <1>2, <2>1, AnswerHeld DEF Interpret
  <2>2. CASE meaning' = Rules(q) /\ Judge(Rules(q)) /\ ~request.llm
    <3>1. Rules(q).dims \in Groupings
      BY <1>0, <2>2, GroupsAsked
    <3>2. UNCHANGED <<request, plan, receipt>> /\ pc = "resolving"
      BY <1>2 DEF Interpret
    <3> QED BY <2>2, <3>1, <3>2, JudgedGroups
  <2> QED BY <1>2, <2>1, <2>2 DEF Interpret
<1>3. CASE Propose
  <2>1. pc = "resolving" /\ UNCHANGED <<request, plan, receipt>> /\ ~Supervised /\ request.llm
    BY <1>3 DEF Propose
  <2>2. \/ UNCHANGED meaning /\ pc' = "settled" /\ status' = "FAILED"
        \/ meaning' = Rules(q) /\ Judge(Rules(q))
        \/ \E p \in LocalProposals : meaning' = Merge(q, p) /\ Judge(Merge(q, p))
    BY <1>3, <2>1 DEF Propose
  <2>3. CASE UNCHANGED meaning /\ pc' = "settled" /\ status' = "FAILED"
    BY <2>1, <2>3, AnswerHeld
  <2>4. CASE meaning' = Rules(q) /\ Judge(Rules(q))
    BY <1>0, <2>1, <2>4, GroupsAsked, JudgedGroups
  <2>5. ASSUME NEW p \in LocalProposals, meaning' = Merge(q, p), Judge(Merge(q, p))
        PROVE  AnswerInv'
    BY <1>0, <2>1, <2>5, GroupsAsked, JudgedGroups
  <2> QED BY <2>2, <2>3, <2>4, <2>5
<1>4. CASE Consult \/ Count \/ CallFails \/ Wake
  BY <1>0, <1>4, AnswerHeld DEF Consult, Count, CallFails, Wake, Reserve
<1>5. CASE Respond
  <2>1. /\ pc = "calling" /\ UNCHANGED <<request, plan, receipt>>
        /\ \/ UNCHANGED meaning /\ pc' = "settled" /\ status' = "FAILED"
           \/ \E p \in Proposals(access) : meaning' = Ground(q, p) /\ Judge(Ground(q, p))
    BY <1>5 DEF Respond
  <2>2. Supervised /\ request.llm
    BY <2>1 DEF AnswerInv
  <2>3. CASE UNCHANGED meaning /\ pc' = "settled" /\ status' = "FAILED"
    BY <2>1, <2>3, AnswerHeld
  <2>4. ASSUME NEW p \in Proposals(access), meaning' = Ground(q, p), Judge(Ground(q, p))
        PROVE  AnswerInv'
    BY <1>0, <2>1, <2>2, <2>4, GroupsAsked, JudgedGroups
  <2> QED BY <2>1, <2>3, <2>4
<1>6. CASE Note \/ File
  BY <1>0, <1>6, AnswerHeld DEF Note, File, Record
<1>7. CASE Plan
  <2>1. Refusal(q, access, meaning) # "ANSWERED"
    BY DEF Refusal
  <2>2. CASE UNCHANGED plan /\ pc' \in {"settled", "releasing"} /\ status' # "ANSWERED"
    BY <1>7, <2>2, AnswerHeld DEF Plan
  <2>3. CASE /\ plan' = Compile(q, access, meaning, request.anchor) /\ Refusal(q, access, meaning) = "NONE"
             /\ pc' \in {"filing", "planned", "releasing", "settled"} /\ status' # "ANSWERED"
    <3>1. UNCHANGED <<request, meaning, receipt>> /\ pc = "planning"
      BY <1>7 DEF Plan
    <3>2. meaning.dims \in Groupings /\ meaning.metrics \subseteq Metrics
      BY <3>1 DEF AnswerInv, AuthorityInv, Sound
    <3>3. q' = q /\ access' = access /\ Supervised' = Supervised
      BY <3>1 DEF q, access, Supervised
    <3>4. Groupings' = Groupings
      BY <3>1, <3>3 DEF Groupings
    <3>5. Faithful'
      BY <2>3, <3>1, <3>2, <3>3, <3>4 DEF Faithful
    <3> QED BY <2>3, <3>5 DEF AnswerInv
  <2> QED BY <1>7, <2>1, <2>2, <2>3 DEF Plan
<1>8. CASE StartExecutor \/ StartVerifier \/ StartComposer
  BY <1>0, <1>8, AnswerHeld DEF StartExecutor, StartVerifier, StartComposer, Start
<1>9. CASE Query
  <2>1. Screening(job) # "ANSWERED"
    BY ScreeningMeans
  <2> QED BY <1>0, <1>9, <2>1, AnswerHeld DEF Query
<1>10. CASE Execute
  <2>1. SourceStatus(job) # "ANSWERED"
    <3>1. job.kind \in Kinds
      BY <1>0, RequestsAssumption DEF job, Job
    <3> QED BY <3>1, SourceStatusMeans
  <2>2. CASE UNCHANGED receipt /\ pc' \in {"releasing", "settled"} /\ status' # "ANSWERED"
    BY <1>10, <2>2, AnswerHeld DEF Execute
  <2>3. CASE SourceStatus(job) = "ROWS" /\ receipt' = Receipt(job) /\ Succeed("executed", status)
    <3>1. UNCHANGED <<request, meaning, plan>> /\ pc = "querying"
      BY <1>10 DEF Execute
    <3>2. pc' \in {"executed", "verifying", "settled"} /\ status' # "ANSWERED"
      BY <1>0, <2>3, <3>1
    <3>3. q' = q /\ access' = access /\ Supervised' = Supervised
      BY <3>1 DEF q, access, Supervised
    <3>4. Groupings' = Groupings /\ job' = job /\ ReadByPlan' = ReadByPlan /\ reads' = ReadByPlan
      BY <1>10, <3>1, <3>3 DEF Groupings, job, ReadByPlan, Execute
    <3>5. Faithful /\ Faithful' = Faithful
      BY <3>1, <3>3, <3>4 DEF Faithful, AnswerInv
    <3> QED BY <2>3, <3>2, <3>4, <3>5 DEF AnswerInv
  <2> QED BY <1>10, <2>1, <2>2, <2>3 DEF Execute
<1>11. CASE SourceFails
  BY <1>0, <1>11, AnswerHeld DEF SourceFails
<1>12. CASE Verify
  BY <1>0, <1>12, AnswerHeld DEF Verify
<1>13. CASE Compose
  BY <1>0, <1>13, AnswerHeld DEF Compose
<1>14. CASE Release \/ Unwind \/ OutOfTime
  BY <1>0, <1>14, AnswerHeld DEF Release, Unwind, OutOfTime
<1>15. CASE Expire \/ Done \/ UNCHANGED vars
  BY <1>0, <1>15, AnswerHeld DEF Expire, Done, vars
<1>16. ASSUME NEW why, Interrupt(why), pc \in Awaiting \cup {"unwinding"} PROVE AnswerInv'
  BY <1>0, <1>16, AnswerHeld DEF Interrupt, Awaiting
<1>17. CASE DeadlineFires
  BY <1>16, <1>17 DEF DeadlineFires
<1>18. CASE Cancel
  BY <1>16, <1>18, AnswerHeld DEF Cancel
<1> QED
  BY <1>1, <1>2, <1>3, <1>4, <1>5, <1>6, <1>7, <1>8, <1>9, <1>10, <1>11, <1>12, <1>13, <1>14,
     <1>15, <1>17, <1>18 DEF Next, Synchronous

(* What an answer rests on is there wherever the task is.                  *)
LEMMA AnswerInvariance == Spec => [](AnswerInv /\ AuthorityInv)
<1>1. Init => AnswerInv
  BY DEF Init, AnswerInv, Consulting, Judged, Drafted, Obtained, Certified
<1>2. AnswerInv /\ AuthorityInv /\ [Next]_vars => AnswerInv'
  BY AnswerStep
<1> QED BY <1>1, <1>2, AuthorityKept, PTL DEF Spec

(* A released answer says what the data say of what was asked, whatever    *)
(* the source holds.                                                       *)
THEOREM AnswerIsTrueAlways == Spec => []AnswerIsTrue
<1>1. AnswerInv /\ AuthorityInv => AnswerIsTrue
  <2> SUFFICES ASSUME AnswerInv, AuthorityInv, status = "ANSWERED" PROVE AnswerIsTrue
    BY DEF AnswerIsTrue
  <2> QED BY ReceiptIsTrue DEF AnswerInv, AuthorityInv, Certified
<1> QED BY <1>1, AnswerInvariance, PTL

(* A verified receipt of a view or a file has read a valid fact of every   *)
(* day it is about.                                                        *)
LEMMA ReceiptIsCovered ==
    ASSUME request \in Requests, Supervised, Faithful, SourceStatus(job) = "ROWS", receipt = Receipt(job),
           Verified(receipt, plan.metric), reads = ReadByPlan
    PROVE  AnswersCoveredPeriods
<1> DEFINE ps == job.periods
<1>1. receipt.rows = Rows(job) /\ receipt.periods = ps
  BY DEF Receipt
<1>2. PICK r : r \in Rows(job)
  BY <1>1 DEF Verified
<1>3. PICK k : k \in KeysOf(job, 1)
  BY <1>2, RowsAre
<1>4. /\ Compared(job) <=> plan.comparison # "NONE"
      /\ DOMAIN ps = IF Compared(job) THEN {1, 2} ELSE {1}
  BY JobIs, PeriodsAre DEF Compared
<1>5. /\ Complete(Members(job, 1, k), ps[1])
      /\ Compared(job) => Complete(Members(job, 2, k), ps[2])
  BY <1>3, <1>4, JobIs, SupervisedIsWhole DEF Supervised
<1>6. /\ Viewed(request.world) /\ request.world \in DOMAIN Facts
      /\ Facts[request.world] \subseteq Fact
  BY RequestsAssumption, WorldsAssumption, SourceAssumption DEF Supervised, Imported
<1>7. ASSUME NEW i \in DOMAIN ps, NEW d \in ps[i].start..ps[i].end
      PROVE  \E f \in reads : f.valid /\ f.day <= d /\ d <= f.until
  <2> DEFINE facts == Members(job, i, k)
  <2>1. Complete(facts, ps[i])
    BY <1>4, <1>5, <1>7
  <2>2. ps[i].start <= ps[i].end
    BY <1>1, <1>7 DEF Verified, CoverageValid
  <2>3. facts \subseteq Facts[request.world] /\ \A f \in facts : InPeriod(f, ps[i])
    BY JobIs DEF Members, Part, InPart
  <2>4. facts \subseteq reads
    <3>1. i \in {1, 2}
      BY <1>4, <1>7
    <3> QED BY <3>1 DEF Members, ReadByPlan, Selected
  <2> HIDE DEF facts
  <2>5. \A f \in facts : f.day \in Int /\ f.day = f.until /\ ps[i].start <= f.day /\ f.day <= ps[i].end
    BY <1>6, <2>3 DEF Viewed, Daily, Fact, InPeriod, Inside, Span
  <2>6. EveryDay(facts, ps[i])
    BY <2>1, <2>2, <2>5, CompleteIsEveryDay
  <2>7. PICK f \in facts : f.day = d /\ f.valid
    BY <1>7, <2>6 DEF EveryDay
  <2> QED BY <2>4, <2>5, <2>7
<1> QED BY <1>1, <1>7 DEF AnswersCoveredPeriods

(* What README.md says of coverage is true of views and files, whatever    *)
(* they hold: only a mapped table or the synthetic facts can be silent     *)
(* about a day of an answered period.                                      *)
THEOREM ViewsAndFilesCover == Spec => [](Supervised => AnswersCoveredPeriods)
<1>1. AnswerInv /\ AuthorityInv => (Supervised => AnswersCoveredPeriods)
  <2> SUFFICES ASSUME AnswerInv, AuthorityInv, Supervised, status = "ANSWERED" PROVE AnswersCoveredPeriods
    BY DEF AnswersCoveredPeriods
  <2> QED BY ReceiptIsCovered DEF AnswerInv, AuthorityInv, Certified
<1> QED BY <1>1, AnswerInvariance, PTL
=============================================================================
