--------------------------- MODULE AgentPipeline ---------------------------
(***************************************************************************)
(* One governed question (services/demo_chat.py), from its words to its    *)
(* answer.                                                                 *)
(*                                                                         *)
(* In the internal profile (internal/runtime.py) and in the workspace of   *)
(* an uploaded file (csv_workspace.py) the chat is supervised: it runs as  *)
(* the five specialists of services/agent_runtime.py, under a deadline, a  *)
(* token budget and a budget of model calls, and its session is not kept.  *)
(* The task runs on an event loop: between two awaits nothing intervenes   *)
(* but the clock, so a cancellation or the timer of the deadline arrives   *)
(* only while the task waits.  Every notify() hands the report to an       *)
(* observer that may raise.  The provider's failed attempts are taken to   *)
(* consume nothing or what was reserved for them.                          *)
(*                                                                         *)
(* In the reference application (api/routes/chat.py) it is not: no step is *)
(* reported, nothing but the timeouts of the libraries bounds a wait, and  *)
(* the question and its plan are recorded in a durable session.            *)
(***************************************************************************)
EXTENDS AnalyticalSource

CONSTANTS
    Requests,              \* [question, access, source, world, anchor, llm, limits, session, required]
    LocalProposals,        \* what the local model may answer
    MaximumInput,          \* config.maximum_input_tokens
    MaximumOutput,         \* config.maximum_output_tokens
    InputTokens,           \* what the provider may count or consume
    OutputTokens

ASSUME BudgetAssumption ==
    /\ MaximumInput \in Nat /\ MaximumOutput \in Nat
    /\ InputTokens \subseteq Nat /\ OutputTokens \subseteq Nat

(* Whose session a request continues, if it does not open a new one.       *)
Sessions == {"NEW", "OWN", "OTHERS", "MISSING"}

ASSUME RequestsAssumption ==
    /\ LocalProposals \subseteq LocalProposal
    /\ \A r \in Requests :
       /\ r.access \in AccessContexts /\ r.world \in DOMAIN Facts /\ r.anchor \in Nat
       /\ r.source \in Kinds /\ r.session \in Sessions /\ {r.llm, r.required} \subseteq BOOLEAN
       /\ QuestionShape(r.question) /\ TimeShape(r.question)
       /\ r.limits \in [steps : 1..6, calls : 1..2, total : Nat] /\ MaximumOutput <= r.limits.total

(* A request's world is one its source can be in.                          *)
ASSUME WorldsAssumption ==
    \A r \in Requests :
       /\ r.source = "VIEW" => Viewed(r.world)
       /\ r.source = "CSV"  => Imported(r.world)
       /\ r.source = "SEED" => Synthetic(r.world)

VARIABLES
    request,   \* what was asked, by whom, of which data
    pc,        \* where the task is
    steps,     \* report.steps: the status of each specialist so far, in order
    usage,     \* report.usage, and last_reservation
    meaning,   \* the interpretation
    plan,      \* the compiled plan
    receipt,   \* what the source returned
    status,    \* the status of the response or of the run
    code,      \* report.error_code
    expired,   \* the deadline has passed
    stop,      \* what interrupts the task: nothing, a cancellation or the timer
    spent,     \* the tokens the provider has consumed
    reads,     \* the facts the source has read for this request
    stored     \* what the session has recorded of it

vars == <<request, pc, steps, usage, meaning, plan, receipt, status, code, expired, stop, spent, reads, stored>>
data == <<meaning, plan, receipt, reads>>
model == <<usage, spent>>

q == request.question
access == request.access
job == Job(request.source, request.world, plan, access)

(* Whether the chat is given an AgentRun.                                  *)
Supervised == request.source \in {"VIEW", "CSV"}

MaximumSteps       == request.limits.steps      \* AgentLimits
MaximumCalls       == request.limits.calls
MaximumTotalTokens == request.limits.total

Awaiting == {"counting", "calling", "pausing", "querying"}
Places   == Awaiting \cup {"created", "resolving", "noting", "admitted", "planning", "filing", "planned",
                           "executing", "executed", "verifying", "verified", "composing", "releasing",
                           "unwinding", "settled"}

(* Where a chat goes that has no step to report and nothing to release.    *)
Onward == [admitted |-> "planning", planned |-> "executing", executed |-> "verifying",
           verified |-> "composing", releasing |-> "settled"]

StepStatuses == {"RUNNING", "SUCCEEDED", "FAILED", "CANCELLED"}
Responses    == (Verdicts \ Proceeds) \cup {"ANSWERED", "VERIFICATION_FAILED"}
Statuses     == Responses \cup {"RUNNING", "FAILED", "CANCELLED"}
Codes        == {"NONE", "RUN_DEADLINE", "STEP_BUDGET", "RUN_FAILED", "MODEL_BUDGET", "INPUT_TOKEN_LIMIT",
                 "OBSERVED_TOKEN_LIMIT", "PROVIDER_UNAVAILABLE", "PROVIDER_SCHEMA", "RETRY_DELAY_LIMIT",
                 "UNSUPPORTED_INSTRUCTION", "LANGUAGE_CAPACITY", "LANGUAGE_ACCESS_DENIED",
                 "LANGUAGE_CATALOG_EMPTY", "LANGUAGE_CONTEXT_DENIED", "PROMPT_LIMIT",
                 "METRIC_GROUNDING", "DIMENSION_GROUNDING", "DEFINITION_WITHDRAWN",
                 "SESSION_DENIED", "SESSION_NOT_FOUND", "INTERPRETATION_UNAVAILABLE"}

Unset == [unset |-> TRUE]      \* what a later step will fill in

NoUsage == [calls |-> 0, reserved |-> 0, last |-> 0, input |-> 0, output |-> 0, complete |-> TRUE]

TypeOK ==
    /\ access \in AccessContexts /\ request.llm \in BOOLEAN /\ pc \in Places
    /\ steps \in Seq(StepStatuses) /\ Len(steps) <= 5
    /\ usage \in [calls : 0..MaximumCalls, reserved : 0..MaximumTotalTokens, last : Nat,
                  input : Nat, output : Nat, complete : BOOLEAN]
    /\ status \in Statuses /\ code \in Codes
    /\ expired \in BOOLEAN /\ stop \in {"nothing", "cancel", "deadline"}
    /\ spent \in Nat
    /\ reads \subseteq Facts[request.world] /\ stored \subseteq {"QUESTION", "PLAN"}

Init ==
    /\ request \in Requests /\ pc = "created" /\ steps = <<>>
    /\ usage = NoUsage /\ spent = 0
    /\ meaning = Unset /\ plan = Unset /\ receipt = Unset /\ reads = {} /\ stored = {}
    /\ status = "RUNNING" /\ code = "NONE"
    /\ expired = FALSE /\ stop = "nothing"
-----------------------------------------------------------------------------
(* AgentRun: how a step begins and ends                                    *)

Settle(s, c) == pc' = "settled" /\ status' = s /\ code' = c

Continue(place, s) == pc' = place /\ status' = s /\ UNCHANGED code

EndStep(result) == steps' = [steps EXCEPT ![Len(steps)] = result]

(* A step that raises: its error ends the run, unless the report of the    *)
(* step cannot be written either.                                          *)
Fail(c) ==
    \/ ~Supervised /\ UNCHANGED steps /\ Settle("FAILED", c)
    \/ Supervised /\ EndStep("FAILED") /\ \E d \in {c, "RUN_FAILED"} : Settle("FAILED", d)

(* A step that returns, and the notify() that follows it.                  *)
Succeed(place, s) ==
    \/ ~Supervised /\ UNCHANGED steps /\ Continue(Onward[place], s)
    \/ Supervised /\ EndStep("SUCCEEDED") /\ (Continue(place, s) \/ Settle("FAILED", "RUN_FAILED"))

(* A step whose outcome the session records first, at the place record,    *)
(* before it is an answer or leads on to next.                             *)
Outcome(record, next, s) ==
    \/ ~Supervised /\ UNCHANGED steps /\ Continue(record, s)
    \/ Supervised /\ Succeed(IF s = "RUNNING" THEN next ELSE "releasing", s)

(* Mutant: the step budget is not looked at.                               *)
Unbudgeted == FALSE

StepBudgetReached == Len(steps) >= MaximumSteps

(* _start; roles come in order because pc does.                            *)
Start(from, to) ==
    /\ pc = from
    /\ \/ /\ expired
          /\ Settle("FAILED", "RUN_DEADLINE") /\ UNCHANGED steps
       \/ /\ ~expired /\ StepBudgetReached
          /\ Settle("FAILED", "STEP_BUDGET") /\ UNCHANGED steps
       \/ /\ ~expired /\ ~StepBudgetReached
          /\ steps' = Append(steps, "RUNNING")
          /\ Continue(to, status) \/ Settle("FAILED", "RUN_FAILED")
    /\ UNCHANGED <<request, model, data, expired, stop, stored>>

(* Mutant: a synchronous step is not checked against the deadline when it  *)
(* has run.                                                                *)
NeverLate == FALSE

(* sync: remaining() after the operation.                                  *)
Late == expired

(* async_step: remaining() before the operation.                           *)
OutOfTime ==
    /\ pc \in {"resolving", "executing"} /\ expired
    /\ Fail("RUN_DEADLINE")
    /\ UNCHANGED <<request, model, data, expired, stop, stored>>
-----------------------------------------------------------------------------
(* SEMANTIC_RESOLVER                                                       *)

Begin == Supervised /\ Start("created", "resolving")

(* Mutant: any known session will do.                                      *)
Anyone == request.session # "MISSING"

Usable == request.session \in {"NEW", "OWN"}

(* The pack of the tenant and _resolve_session.                            *)
Open ==
    /\ ~Supervised /\ pc = "created"
    /\ \/ Usable /\ Continue("resolving", status)
       \/ ~Usable /\ Settle("FAILED", IF request.session = "OTHERS" THEN "SESSION_DENIED" ELSE "SESSION_NOT_FOUND")
       \/ Settle("FAILED", "RUN_FAILED")
    /\ UNCHANGED <<request, steps, model, data, expired, stop, stored>>

(* status_for_verdict: an early answer, or on to planning.                 *)
Judge(i) ==
    LET verdict == Verdict(q, access, i)
    IN Outcome("noting", "admitted", IF verdict \in Proceeds THEN "RUNNING" ELSE verdict)

(* can_ask, and the interpretation by rules.                               *)
Interpret ==
    /\ pc = "resolving"
    /\ \/ ~May(access, "ASK") /\ Outcome("noting", "admitted", "DENIED") /\ UNCHANGED meaning
       \/ May(access, "ASK") /\ ~request.llm /\ meaning' = Rules(q) /\ Judge(Rules(q))
    /\ UNCHANGED <<request, model, plan, receipt, reads, expired, stop, stored>>

(* The local model proposes, or fails: unless it is required, the rules    *)
(* then do without it.                                                     *)
Propose ==
    /\ pc = "resolving" /\ ~Supervised /\ request.llm /\ May(access, "ASK")
    /\ \/ \E p \in LocalProposals : meaning' = Merge(q, p) /\ Judge(Merge(q, p))
       \/ ~request.required /\ meaning' = Rules(q) /\ Judge(Rules(q))
       \/ request.required /\ Fail("INTERPRETATION_UNAVAILABLE") /\ UNCHANGED meaning
    /\ UNCHANGED <<request, model, plan, receipt, reads, expired, stop, stored>>

(* The session store commits a record, or raises.                          *)
Record(from, what, next) ==
    /\ pc = from
    /\ \/ /\ stored' = stored \cup {what}
          /\ Continue(IF status = "RUNNING" THEN next ELSE "settled", status)
       \/ UNCHANGED stored /\ Settle("FAILED", "RUN_FAILED")
    /\ UNCHANGED <<request, steps, model, data, expired, stop>>

(* record_evaluation and record_query_plan                                 *)
Note == Record("noting", "QUESTION", "planning")
File == Record("filing", "PLAN", "executing")

(* ClaudeRuntime.propose up to the token count.                            *)
Consult ==
    /\ pc = "resolving" /\ Supervised /\ request.llm /\ May(access, "ASK")
    /\ \E full, long \in BOOLEAN :
          LET refused == Withheld(q, access, full, long)
          IN \/ refused # "NONE" /\ Fail(refused)
             \/ refused = "NONE" /\ Continue("counting", status) /\ UNCHANGED steps
    /\ UNCHANGED <<request, model, data, expired, stop, stored>>

(* Mutant: the reservations of earlier attempts are forgotten.             *)
LastReservationOnly(required) == usage.calls >= MaximumCalls \/ required > MaximumTotalTokens

OverBudget(required) ==
    usage.calls >= MaximumCalls \/ usage.reserved + required > MaximumTotalTokens

(* reserve, and the request that follows it                                *)
Reserve(input) ==
    LET required == input + MaximumOutput
    IN \/ expired /\ Fail("RUN_DEADLINE") /\ UNCHANGED usage
       \/ ~expired /\ OverBudget(required) /\ Fail("MODEL_BUDGET") /\ UNCHANGED usage
       \/ /\ ~expired /\ ~OverBudget(required)
          /\ usage' = [usage EXCEPT !.calls = @ + 1, !.complete = FALSE,
                                    !.reserved = @ + required, !.last = required]
          /\ \/ Continue("calling", status) /\ UNCHANGED steps
             \/ Fail("RUN_FAILED")

Count ==
    /\ pc = "counting"
    /\ \/ Fail("PROVIDER_UNAVAILABLE") /\ UNCHANGED usage
       \/ \E n \in InputTokens :
             \/ n > MaximumInput /\ Fail("INPUT_TOKEN_LIMIT") /\ UNCHANGED usage
             \/ n <= MaximumInput /\ Reserve(n)
    /\ UNCHANGED <<request, spent, data, expired, stop, stored>>

(* A retryable answer (429 or 529) with calls left waits before the next.  *)
CallFails ==
    /\ pc = "calling"
    /\ \E used \in {0, usage.last} : spent' = spent + used
    /\ \/ \E c \in {"PROVIDER_UNAVAILABLE", "PROVIDER_SCHEMA"} : Fail(c)
       \/ usage.calls < MaximumCalls /\ Fail("RETRY_DELAY_LIMIT")
       \/ usage.calls < MaximumCalls /\ Continue("pausing", status) /\ UNCHANGED steps
    /\ UNCHANGED <<request, usage, data, expired, stop, stored>>

Wake ==
    /\ pc = "pausing"
    /\ Reserve(usage.last - MaximumOutput)
    /\ UNCHANGED <<request, spent, data, expired, stop, stored>>

(* What failed attempts consumed is not known.                             *)
AccountComplete == usage.calls = 1

(* Mutant: only the answer's own tokens are held against the run.          *)
OwnTokens(input, output) == input + output > MaximumTotalTokens

OverTotal(input, output) == usage.reserved - usage.last + input + output > MaximumTotalTokens

Exceeded(input, output) == input > MaximumInput \/ output > MaximumOutput \/ OverTotal(input, output)

(* _validate_response, _ground, and the rest of the evaluation             *)
Respond ==
    /\ pc = "calling"
    /\ \E input \in InputTokens, output \in OutputTokens :
          /\ spent' = spent + input + output
          /\ usage' = [usage EXCEPT !.input = @ + input, !.output = @ + output, !.complete = AccountComplete]
          /\ \/ Exceeded(input, output) /\ Fail("OBSERVED_TOKEN_LIMIT") /\ UNCHANGED meaning
             \/ ~Exceeded(input, output) /\ Fail("PROVIDER_SCHEMA") /\ UNCHANGED meaning
             \/ /\ ~Exceeded(input, output)
                /\ \E p \in Proposals(access) :
                      LET refused == Ungrounded(q, p)
                      IN \/ refused # "NONE" /\ Fail(refused) /\ UNCHANGED meaning
                         \/ refused = "NONE" /\ meaning' = Ground(q, p) /\ Judge(Ground(q, p))
    /\ UNCHANGED <<request, plan, receipt, reads, expired, stop, stored>>
-----------------------------------------------------------------------------
(* QUERY_PLANNER                                                           *)

StartPlanner == Start("admitted", "planning")

(* compile, and what _answer does with a question it does not execute:     *)
(* the outcome of the step is decided before anything reads the plan.      *)
Plan ==
    LET refused  == Refusal(q, access, meaning)
        compiled == Compile(q, access, meaning, request.anchor)
    IN /\ pc = "planning"
       /\ \/ refused = "RAISED" /\ Fail("RUN_FAILED") /\ UNCHANGED plan
          \/ refused # "RAISED" /\ Late /\ Fail("RUN_DEADLINE") /\ UNCHANGED plan
          \/ ~Late /\ refused \notin {"NONE", "RAISED"} /\ Succeed("releasing", refused) /\ UNCHANGED plan
          \/ /\ ~Late /\ refused = "NONE" /\ plan' = compiled
             /\ Outcome("filing", "planned",
                        IF Verdict(q, access, meaning) = "EXTERNAL" THEN "CONTEXT_NOT_CONNECTED" ELSE "RUNNING")
       /\ UNCHANGED <<request, model, meaning, receipt, reads, expired, stop, stored>>
-----------------------------------------------------------------------------
(* QUERY_EXECUTOR                                                          *)

StartExecutor == Start("planned", "executing")

(* The source rejects the plan or its result, or has no complete data: the *)
(* step fails and the request is answered without numbers.                 *)
Decline(s) ==
    \/ ~Supervised /\ UNCHANGED steps /\ Settle(s, code)
    \/ Supervised /\ EndStep("FAILED") /\ (Continue("releasing", s) \/ Settle("FAILED", "RUN_FAILED"))

(* What the connector finds out before anything is sent or awaited.        *)
Query ==
    /\ pc = "executing" /\ ~expired
    /\ \/ Screening(job) = "NONE" /\ Continue("querying", status) /\ UNCHANGED steps
       \/ Screening(job) # "NONE" /\ Decline(Screening(job))
    /\ UNCHANGED <<request, model, data, expired, stop, stored>>

(* All of it, if need be: a source that asks for one period after the      *)
(* other may stop after the first.                                         *)
ReadByPlan == Selected(job)

Execute ==
    /\ pc = "querying"
    /\ reads' = ReadByPlan
    /\ \/ SourceStatus(job) = "ROWS" /\ receipt' = Receipt(job) /\ Succeed("executed", status)
       \/ SourceStatus(job) # "ROWS" /\ Decline(SourceStatus(job)) /\ UNCHANGED receipt
    /\ UNCHANGED <<request, model, meaning, plan, expired, stop, stored>>

(* The driver fails, or the timeout of the connector ends the query: that  *)
(* of a view reads as the deadline of the run.                             *)
SourceFails ==
    /\ pc = "querying"
    /\ \/ request.source \in {"VIEW", "TABLE"} /\ Decline("INVALID")
       \/ request.source = "VIEW" /\ Fail("RUN_DEADLINE")
       \/ request.source \in {"CSV", "SEED"} /\ Fail("RUN_FAILED")
    /\ UNCHANGED reads \/ reads' = ReadByPlan
    /\ UNCHANGED <<request, model, meaning, plan, receipt, expired, stop, stored>>
-----------------------------------------------------------------------------
(* RESULT_VERIFIER and ANSWER_COMPOSER                                     *)

StartVerifier == Start("executed", "verifying")

Verify ==
    /\ pc = "verifying"
    /\ \/ Late /\ Fail("RUN_DEADLINE")
       \/ ~Late /\ Verified(receipt, plan.metric) /\ Succeed("verified", status)
       \/ ~Late /\ ~Verified(receipt, plan.metric) /\ Succeed("releasing", "VERIFICATION_FAILED")
    /\ UNCHANGED <<request, model, data, expired, stop, stored>>

StartComposer == Start("verified", "composing")

Compose ==
    /\ pc = "composing"
    /\ \/ Late /\ Fail("RUN_DEADLINE")
       \/ ~Late /\ Succeed("releasing", "ANSWERED")
    /\ UNCHANGED <<request, model, data, expired, stop, stored>>

(* The definitions are resolved again before the response is returned.     *)
Release ==
    /\ pc = "releasing"
    /\ Settle(status, code) \/ Settle("FAILED", "DEFINITION_WITHDRAWN")
    /\ UNCHANGED <<request, steps, model, data, expired, stop, stored>>
-----------------------------------------------------------------------------
(* Time and interruptions                                                  *)

Expire ==
    /\ Supervised /\ pc # "settled" /\ ~expired /\ expired' = TRUE
    /\ UNCHANGED <<request, pc, steps, model, data, status, code, stop, stored>>

(* Whatever is awaited is cancelled; a call under way may have consumed    *)
(* its reservation, and a query under way may have read its rows.          *)
Interrupt(why) ==
    /\ stop' = why /\ pc' = "unwinding"
    /\ \E used \in (IF pc = "calling" THEN {0, usage.last} ELSE {0}) : spent' = spent + used
    /\ UNCHANGED reads \/ (pc = "querying" /\ reads' = ReadByPlan)
    /\ UNCHANGED <<request, steps, usage, meaning, plan, receipt, status, code, expired, stored>>

(* Mutant: a query of the source is awaited without a timer.               *)
SourceUntimed == pc \in Awaiting \ {"querying"} /\ expired /\ Interrupt("deadline")

(* The timers of async_step and of finish fire one after the other.        *)
DeadlineFires == pc \in Awaiting /\ expired /\ Interrupt("deadline")

(* Runtime.cancel and the cancellation of a run; a task that has not begun *)
(* leaves no report of it, nor does one that has returned and whose caller *)
(* is still to be resumed.                                                 *)
Cancel ==
    \/ Supervised /\ pc \in Awaiting \cup {"unwinding"} /\ stop # "cancel" /\ Interrupt("cancel")
    \/ /\ Supervised /\ pc \in {"created", "releasing"} /\ Settle("CANCELLED", code)
       /\ request.source = "CSV" => pc = "created"
       /\ UNCHANGED <<request, steps, model, data, expired, stop, stored>>

(* A cancelled task: a cancellation stays one even when the timer fired    *)
(* too.  When only the timers fired, the inner one turns it into a failed  *)
(* step unless the outer one fired as well.                                *)
Unwind ==
    /\ pc = "unwinding"
    /\ \/ stop = "cancel" /\ EndStep("CANCELLED") /\ Settle("CANCELLED", code)
       \/ stop = "cancel" /\ EndStep("CANCELLED") /\ Settle("FAILED", "RUN_FAILED")
       \/ stop = "deadline" /\ Fail("RUN_DEADLINE")
       \/ /\ stop = "deadline" /\ EndStep("CANCELLED")
          /\ \E c \in {"RUN_DEADLINE", "RUN_FAILED"} : Settle("FAILED", c)
    /\ UNCHANGED <<request, model, data, expired, stop, stored>>

(* A settled request stays as it is.                                       *)
Done == pc = "settled" /\ UNCHANGED vars

Synchronous ==
    \/ Begin \/ Open \/ Interpret \/ Consult \/ Propose \/ Note
    \/ StartPlanner \/ Plan \/ File \/ StartExecutor \/ Query
    \/ StartVerifier \/ Verify \/ StartComposer \/ Compose \/ Release \/ OutOfTime

Next ==
    \/ Synchronous
    \/ Count \/ CallFails \/ Wake \/ Respond
    \/ Execute \/ SourceFails
    \/ Expire \/ DeadlineFires \/ Cancel \/ Unwind
    \/ Done

Spec == Init /\ [][Next]_vars

(* The event loop gets on with a task that awaits nothing: one of the      *)
(* synchronous actions or Unwind is then enabled, and each moves pc.  In   *)
(* the reference application every wait ends: httpx, SQLite's busy handler *)
(* and PostgreSQL's connect and statement timeouts see to it.              *)
GetsOn ==
    /\ pc \in Places \ {"settled"} /\ (Supervised => pc \notin Awaiting)
    /\ pc' \in Places \ {pc}

(* The clock runs on, and a timer that is due fires; neither the provider  *)
(* nor the source has to answer.                                           *)
Fairness == WF_pc(GetsOn) /\ WF_vars(Expire) /\ WF_vars(DeadlineFires)

FairSpec == Spec /\ Fairness
-----------------------------------------------------------------------------
(* Whatever the source has read for a request, the requester may see: it   *)
(* may read data (explicitly, if the source is a view or a file); the      *)
(* metric, what it groups by and what it filters on are cleared, and so    *)
(* are their domains, but for a metric that only the local model names;    *)
(* the rows lie in the requester's scope, and they are of a metric the     *)
(* question named if it named one.                                         *)
ReadsAreAuthorised ==
    reads # {} =>
      /\ IF Supervised THEN "READ" \in access.actions /\ access.regions # {} ELSE May(access, "READ")
      /\ request.source = "VIEW" => access.units # {}
      /\ MetricCleared(access, plan.metric)
      /\ \/ DomainCleared(access, Metric[plan.metric].domain)
         \/ ~Supervised /\ request.llm /\ q.metrics = {}
      /\ \A e \in plan.dims : EntityCleared(access, e) /\ DomainCleared(access, Entity[e].domain)
      /\ \A e \in DOMAIN plan.filters : EntityCleared(access, e)
      /\ \A f \in reads : f.metric = plan.metric /\ Visible(f, request.source, plan.metric, access)
      /\ q.metrics # {} => plan.metric \in q.metrics

(* The facts an answer should be about: those of the metric that the       *)
(* requester may see, wholly in a period, under the values the question    *)
(* names, in a group of what it asks to group by.                          *)
Wanted(m, range, key) ==
    {f \in Facts[request.world] :
        /\ f.metric = m /\ Visible(f, request.source, m, access)
        /\ \A e \in Metric[m].dims :
              LET named == Entity[e].values \cap q.values IN named = {} \/ f.at[e] \in named
        /\ \A e \in DOMAIN key : f.at[e] = key[e]
        /\ range.start <= f.day /\ f.until <= range.end}

(* What a question asks to group by: the local model may only choose among *)
(* its grouping words, and need not be heard.                              *)
Groupings ==
    IF ~request.llm THEN {q.by}
    ELSE IF Supervised THEN {q.grouping} ELSE {dims \in SUBSET q.grouping : q.by \subseteq dims}

NoKey == [e \in {} |-> {}]      \* that of every fact

EveryDay(facts, range) == {f.day : f \in facts} = range.start..range.end /\ \A f \in facts : f.valid

(* The value an answer owes a group: nothing without a valid fact, and     *)
(* from a view or a file nothing unless every day is there and valid.      *)
Owed(m, range, key, value) ==
    LET facts == Wanted(m, range, key)
    IN /\ value = Total(Counted(facts)) /\ Counted(facts) # {} /\ InBounds(value, m)
       /\ Supervised => EveryDay(facts, range)

(* A released answer says what the data say: every group the requester may *)
(* see has a row and no other does; its value, and the value it is         *)
(* compared with, are the totals over the whole of the periods the         *)
(* question asks for, and no day of a view or a file is missing.           *)
AnswerIsTrue ==
    status = "ANSWERED" =>
      LET m  == plan.metric
          ps == receipt.periods
      IN /\ Covers(ps[1], TimeWindow(q, m, request.anchor))
         /\ Len(ps) = 2 <=> Comparison(q, meaning.intent, m) # "NONE"
         /\ Len(ps) = 2 => Precedes(ps[2], ps[1], Comparison(q, meaning.intent, m))
         /\ plan.dims \in Groupings
         /\ {r.key : r \in receipt.rows} =
              {[e \in plan.dims |-> f.at[e]] : f \in Counted(Wanted(m, ps[1], NoKey))}
         /\ \A r \in receipt.rows :
               /\ Owed(m, ps[1], r.key, r.value)
               /\ Len(ps) = 2 => \E p \in r.previous : r.previous = {p} /\ Owed(m, ps[2], r.key, p)

(* resolve_time_window and resolve_comparison_range agree with what the    *)
(* words mean on the calendar, for every window and anchor of a request    *)
(* whose plan has just been compiled.                                      *)
PeriodsMatchCalendar ==
    pc \in {"filing", "planned"} =>
      LET current == Resolve(plan.window)
      IN /\ Covers(current, plan.window)
         /\ plan.comparison # "NONE" => Precedes(Against(current, plan.comparison), current, plan.comparison)

(* AgentUsage: an account that calls itself complete is the provider's, no *)
(* more calls are made than allowed, and nothing proceeds to data once the *)
(* provider has consumed more than the run's budget.                       *)
UsageIsHonest ==
    /\ usage.complete => usage.input + usage.output = spent
    /\ usage.calls <= MaximumCalls
    /\ Len(steps) >= 2 => spent <= MaximumTotalTokens

S == "SUCCEEDED"

(* The steps of a report and the outcome of its run tell the same story    *)
(* (docs/CLAUDE_ORCHESTRATION.md: clarification, denied access, missing    *)
(* source, invalid planning or failed verification terminates before later *)
(* stages): what each response has behind it, and what only an             *)
(* interruption or an unwritten report can leave.                          *)
StepsTellTheRun ==
    IF ~Supervised THEN steps = <<>> ELSE
    /\ \A i \in 1..(Len(steps) - 1) : steps[i] = S
    /\ status \in {"DENIED", "OUT_OF_DOMAIN", "NO_SOURCE"} => steps = <<S>>
    /\ status \in {"CLARIFICATION_REQUIRED", "CONTEXT_NOT_CONNECTED"} => steps \in {<<S>>, <<S, S>>}
    /\ status = "INVALID" => steps \in {<<S>>, <<S, S>>, <<S, S, "FAILED">>}
    /\ status = "SOURCE_NOT_READY" => steps \in {<<S>>, <<S, S, "FAILED">>}
    /\ status = "VERIFICATION_FAILED" => steps = <<S, S, S, S>>
    /\ status = "ANSWERED" => steps = <<S, S, S, S, S>> /\ code = "NONE"
    /\ pc = "settled" /\ code \notin {"RUN_FAILED", "NONE"} => "RUNNING" \notin {steps[i] : i \in DOMAIN steps}
    /\ "CANCELLED" \in {steps[i] : i \in DOMAIN steps} => stop # "nothing"
    /\ Len(steps) <= MaximumSteps

(* No answer is composed after the deadline of its run, however late the   *)
(* source or the provider was and whatever the order of the checks.        *)
AnswersInTime == [][status' = "ANSWERED" /\ status # "ANSWERED" => ~expired]_vars

(* Every request settles within its deadline, whatever the provider and    *)
(* the source do.                                                          *)
RunEnds == <>(pc = "settled")

(* The session of the reference application tells what was done with a     *)
(* question: only its owner's questions are recorded, every response has   *)
(* its question there, a plan only after its question, nothing is read for *)
(* a plan that is not recorded, and no plan is recorded for a question     *)
(* that was turned away.                                                   *)
SessionTellsTheChat ==
    /\ stored # {} => ~Supervised /\ request.session \in {"NEW", "OWN"}
    /\ "PLAN" \in stored => "QUESTION" \in stored
    /\ ~Supervised /\ pc = "settled" /\ status # "FAILED" => "QUESTION" \in stored
    /\ ~Supervised /\ reads # {} => "PLAN" \in stored
    /\ status \in {"DENIED", "OUT_OF_DOMAIN", "NO_SOURCE", "CLARIFICATION_REQUIRED"} => "PLAN" \notin stored

(* README.md: Talk2Data abstains when the source does not cover the        *)
(* requested period.  A mapped table is asked for its first and its last   *)
(* day only, and sums the rows that lie wholly inside the period.          *)
AnswersCoveredPeriods ==
    status = "ANSWERED" =>
      \A i \in DOMAIN receipt.periods : \A d \in receipt.periods[i].start..receipt.periods[i].end :
         \E f \in reads : f.valid /\ f.day <= d /\ d <= f.until
============================================================================
