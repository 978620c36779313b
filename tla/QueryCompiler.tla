--------------------------- MODULE QueryCompiler ---------------------------
(***************************************************************************)
(* From an admissible question to a query plan (services/query_compiler.py *)
(* and services/semantic.py).  The dates, the window and the comparison    *)
(* come from the words of the question, never from a language provider.    *)
(***************************************************************************)
EXTENDS Admissibility

NoDay == -1             \* a date that is not in the calendar

(* The parts of a question that the compiler reads:                        *)
(*   dates   - its ISO dates in order, on - whether "on" is one of its     *)
(*             words; preset - the window it names, with the grain of that *)
(*             window, or the empty set; compare - its comparison phrase.  *)
TimeShape(q) ==
    /\ q.dates \in Seq(Nat \cup {NoDay}) /\ q.on \in BOOLEAN
    /\ q.preset = Nothing \/ \E p \in DOMAIN UnitOf : q.preset = {p}
    /\ q.compare \in Comparisons

Chosen(s) == CHOOSE x \in s : TRUE

(* resolve_dimensions: the first gate an unfit dimension meets.            *)
Fit(access, m, dims) == \A e \in dims : e \in Metric[m].dims /\ EntityCleared(access, e)

(* _resolve_time_window: whether the words give a window.                  *)
WindowRefused(q, m) ==
    \/ Len(q.dates) > 2
    \/ \E i \in 1..Len(q.dates) : q.dates[i] = NoDay
    \/ Len(q.dates) = 2 /\ q.dates[1] > q.dates[2]
    \/ Len(q.dates) = 1 /\ ~q.on
    \/ q.dates = <<>> /\ q.preset # Nothing /\ UnitOf[Chosen(q.preset)] \notin Metric[m].grains

(* TimeWindow's validator: a metric may have CUSTOM for its default window, *)
(* which has no dates of its own.                                          *)
Dateless(q, m) == q.dates = <<>> /\ q.preset = Nothing /\ Metric[m].window = "CUSTOM"

Window(preset, grain, anchor, dates) ==
    [preset |-> preset, grain |-> grain, anchor |-> anchor, dates |-> dates]

NoDates == Span(0, 0)

TimeWindow(q, m, anchor) ==
    LET n == Len(q.dates)
    IN CASE n > 0 -> Window("CUSTOM", IF n = 1 THEN "DAY" ELSE Metric[m].grain, anchor,
                            Span(q.dates[1], q.dates[n]))
         [] n = 0 /\ q.preset # Nothing ->
              Window(Chosen(q.preset), UnitOf[Chosen(q.preset)], anchor, NoDates)
         [] n = 0 /\ q.preset = Nothing -> Window(Metric[m].window, Metric[m].grain, anchor, NoDates)

(* _resolve_comparison                                                     *)
Comparison(q, intent, m) ==
    IF q.compare # "NONE" THEN q.compare
    ELSE IF intent = "COMPARISON" THEN Metric[m].comparison ELSE "NONE"

(* _resolve_filters: the values the question names of the metric's own     *)
(* dimensions; a value of another entity is passed over.                   *)
Filters(q, m) ==
    [e \in {d \in Metric[m].dims : Entity[d].values \cap q.values # {}} |-> Entity[e].values \cap q.values]

(* BusinessQueryCompiler.compile: the status of a question without a plan, *)
(* or that the compiler raises.                                            *)
Refusal(q, access, i) ==
    LET m == Chosen(i.metrics)
    IN IF i.metrics = {} THEN "INVALID"
       ELSE IF Cardinality(i.metrics) > 1 THEN "CLARIFICATION_REQUIRED"
       ELSE IF \/ ~May(access, "READ") \/ ~MetricCleared(access, m)
               \/ Metric[m].source # "AVAILABLE"
               \/ ~Fit(access, m, i.dims)
               \/ WindowRefused(q, m)
            THEN "INVALID"
       ELSE IF Dateless(q, m) THEN "RAISED"
       ELSE IF Fit(access, m, DOMAIN Filters(q, m)) THEN "NONE" ELSE "INVALID"

Compile(q, access, i, anchor) ==
    LET m == Chosen(i.metrics)
    IN [metric |-> m, dims |-> i.dims, filters |-> Filters(q, m),
        window |-> TimeWindow(q, m, anchor), comparison |-> Comparison(q, i.intent, m)]
============================================================================
