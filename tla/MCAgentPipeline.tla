-------------------------- MODULE MCAgentPipeline --------------------------
(* A small catalog, a few worlds of facts, and the requests that meet each *)
(* rule of the pipeline at least once.                                     *)
EXTENDS AgentPipeline, TLC

MCMetric ==
    LET base == [class |-> 1, domain |-> "OPS", source |-> "AVAILABLE", dims |-> {"REGION", "PLAN"},
                 grains |-> Grains, grain |-> "DAY", window |-> "CURRENT_DAY",
                 comparison |-> "PRIOR_PERIOD", mapped |-> Kinds, least |-> 0, most |-> 100]
    IN "SALES"  :> base
       @@ "MARGIN" :> [base EXCEPT !.class = 2, !.domain = "FIN", !.dims = {"REGION"}, !.grains = {"MONTH"},
                                   !.grain = "MONTH", !.window = "PREVIOUS_COMPLETE_DAY", !.comparison = "NONE"]
       @@ "LATE"   :> [base EXCEPT !.source = "NOT_READY"]
       @@ "DEAD"   :> [base EXCEPT !.source = "UNAVAILABLE"]
       @@ "LOOSE"  :> [base EXCEPT !.mapped = {}]
       @@ "ODD"    :> [base EXCEPT !.window = "CUSTOM"]
       @@ "HOURLY" :> [base EXCEPT !.window = "PREVIOUS_COMPLETE_WEEK", !.grain = "HOUR"]
       @@ "CHURN"  :> [base EXCEPT !.mapped = {"SEED", "TABLE"}, !.dims = {"PLAN"}]

MCEntity ==
    "REGION" :> [class |-> 1, domain |-> "OPS", values |-> {"north", "south"}]
    @@ "PLAN" :> [class |-> 2, domain |-> "FIN", values |-> {"gold", "basic"}]

MCDomainClass == "OPS" :> 1 @@ "FIN" :> 2
MCAdjacent    == "weather" :> {"SALES"}

Today == Date(2024, 3, 1)

MCScopeMap == "north" :> {"north"} @@ "south" :> {"south"} @@ "national" :> {"north", "south"}

(* One row for each group on each day; north has two business units.       *)
Stretch(m, d, e, u, r, p, n) ==
    [metric |-> m, day |-> d, until |-> e, unit |-> u, at |-> "REGION" :> r @@ "PLAN" :> p,
     amount |-> n, valid |-> TRUE]

Row(m, d, u, r, p, n) == Stretch(m, d, d, u, r, p, n)

Days == {Today - 2, Today - 1, Today, Date(2023, 3, 1)}

Amount(d, r, p) == ((Today - d) % 3) + (IF r = "north" THEN 4 ELSE 8) + (IF p = "gold" THEN 16 ELSE 0)

Full ==
    {Row("SALES", d, "u1", r, p, Amount(d, r, p)) :
        d \in Days, r \in {"north", "south"}, p \in {"gold", "basic"}}
    \cup {Row("SALES", d, "u2", "north", "gold", 1) : d \in Days}
    \cup {Row("MARGIN", Today - 1, "u1", r, "gold", 5) : r \in {"north", "south"}}

(* The seed: a few groups, each day.                                       *)
MCSeedSpan == Span(Date(2023, 3, 1), Today)

Seeded ==
    {Row(m, d, "u1", g[1], g[2], Amount(d, g[1], g[2])) :
        m \in {"SALES", "CHURN"}, d \in Days, g \in {<<"north", "gold">>, <<"south", "gold">>, <<"south", "basic">>}}

(* A table of monthly rows, and one that straddles two months.             *)
Months == {<<2023, 10>>, <<2023, 11>>, <<2023, 12>>, <<2024, 1>>, <<2024, 2>>, <<2024, 3>>}

Monthly ==
    {Stretch(m, Date(t[1], t[2], 1), Date(t[1], t[2], MonthDays(t[1], t[2])), "u1", r, "gold", t[2] + (IF r = "north" THEN 2 ELSE 1)) :
        m \in {"SALES", "CHURN"}, t \in Months, r \in {"north", "south"}}

Straddling == Stretch("SALES", Date(2024, 2, 15), Date(2024, 3, 15), "u1", "north", "gold", 50)

MCFacts ==
    [seed   |-> Seeded,
     months |-> Monthly \cup {Straddling},
     sparse |-> {f \in Monthly : f.day # Date(2023, 12, 1)},
     nulls  |-> {[f EXCEPT !.valid = ~(f.at.REGION = "south" /\ f.day = Date(2024, 2, 1))] : f \in Monthly},
     orphan |-> {[f EXCEPT !.at.PLAN = IF f.day = Date(2024, 2, 1) THEN NoValue ELSE @] : f \in Monthly},
     full   |-> Full,
     empty  |-> {},
     gap    |-> {f \in Full : ~(f.day = Today - 1 /\ f.at.REGION = "south")},
     null   |-> {[f EXCEPT !.valid = ~(f.day = Today /\ f.unit = "u2")] : f \in Full},
     losses |-> {[f EXCEPT !.amount = IF f.day = Today THEN @ ELSE -1] : f \in Full},
     thin   |-> {f \in Full : f.at.PLAN = "gold"},
     zeros  |-> {[f EXCEPT !.amount = IF f.day = Today THEN @ ELSE 0] : f \in Full}]

MCColumns == [w \in DOMAIN MCFacts |-> IF w = "thin" THEN {"REGION"} ELSE {"REGION", "PLAN"}]

Question ==
    [metrics |-> {"SALES"}, entities |-> {}, by |-> {}, grouping |-> {}, domains |-> {}, topics |-> {},
     values |-> {}, cue |-> "UNKNOWN", nonadditive |-> FALSE, sums |-> FALSE, rates |-> FALSE, attack |-> FALSE,
     dates |-> <<>>, on |-> FALSE, preset |-> {}, compare |-> "NONE"]

By(dims)  == [Question EXCEPT !.entities = dims, !.by = dims, !.grouping = dims]
Of(m)     == [Question EXCEPT !.metrics = m]
On(dates) == [Question EXCEPT !.dates = dates, !.on = TRUE]

Answerable ==
    {Question, By({"REGION"}), By({"REGION", "PLAN"}),
     [Question EXCEPT !.values = {"south"}], [By({"PLAN"}) EXCEPT !.values = {"north", "gold"}],
     [Question EXCEPT !.compare = "PRIOR_PERIOD"], [By({"REGION"}) EXCEPT !.compare = "YEAR_OVER_YEAR"],
     [By({"REGION"}) EXCEPT !.cue = "COMPARISON"], On(<<Today - 2, Today>>),
     [On(<<Today - 2, Today>>) EXCEPT !.entities = {"REGION"}, !.by = {"REGION"}, !.grouping = {"REGION"}],
     [Question EXCEPT !.cue = "DRIVER_ANALYSIS"]}

Others ==
    {By({"PLAN"}), Of({"MARGIN"}), Of({"SALES", "MARGIN"}), Of({"LATE"}), Of({"DEAD"}), Of({"LOOSE"}), Of({}),
     Of({"ODD"}), [On(<<Today>>) EXCEPT !.metrics = {"ODD"}], [Of({"ODD"}) EXCEPT !.values = {"gold"}], Of({"HOURLY"}),
     [By({"REGION"}) EXCEPT !.metrics = {}], [By({"PLAN"}) EXCEPT !.metrics = {"MARGIN"}],
     [Question EXCEPT !.topics = {"weather"}], [Question EXCEPT !.nonadditive = TRUE],
     [Of({"MARGIN"}) EXCEPT !.values = {"south", "gold"}], [Of({"MARGIN"}) EXCEPT !.preset = {"CURRENT_DAY"}],
     [On(<<Today - 1>>) EXCEPT !.metrics = {"MARGIN"}], On(<<Today>>), [On(<<Today>>) EXCEPT !.on = FALSE],
     On(<<Today, Today - 1>>), On(<<NoDay>>), On(<<Today, Today, Today>>), On(<<Today - 800, Today>>)}

Analyst == [clearance |-> 2, actions |-> Actions, admin |-> FALSE,
            regions |-> {"north", "south"}, units |-> {"u1", "u2"}]
Local   == [Analyst EXCEPT !.clearance = 1, !.actions = {"ASK", "READ"}, !.regions = {"north"}, !.units = {"u1"}]
Admin   == [Analyst EXCEPT !.actions = {}, !.admin = TRUE]
Identities ==
    {Analyst, Local, Admin, [Analyst EXCEPT !.actions = {"ASK"}], [Analyst EXCEPT !.actions = {"READ"}],
     [Analyst EXCEPT !.regions = {}], [Analyst EXCEPT !.clearance = 0]}

Ample == [steps |-> 6, calls |-> 1, total |-> 8]

Request(question, identity, world, anchor, llm, limits) ==
    [question |-> question, access |-> identity, source |-> "VIEW", world |-> world, anchor |-> anchor,
     llm |-> llm, limits |-> limits, session |-> "NEW", required |-> FALSE]

ByRules ==
    {Request(question, a, "full", Today, FALSE, Ample) : question \in Answerable \cup Others, a \in Identities}
    \cup {Request(question, Analyst, w, Today, FALSE, Ample) : question \in Answerable, w \in {"full", "empty", "gap", "null", "losses", "zeros"}}
    \cup {Request(Question, Analyst, "full", Today, FALSE, [Ample EXCEPT !.steps = n]) : n \in 1..4}

ByModel ==
    {Request(question, a, "full", Today, TRUE, [Ample EXCEPT !.calls = 2, !.total = t]) :
        question \in {By({"REGION"}), Of({}), [Question EXCEPT !.attack = TRUE]},
        a \in {Analyst, Local, Admin, [Analyst EXCEPT !.clearance = 0]}, t \in {2, 3, 4}}
    \cup {Request(question, Analyst, "full", Today, TRUE, Ample) : question \in {Of({"LATE"}), Of({"LOOSE"}), Question}}

Anchors == {Date(y, m, d) : y \in {2023, 2024}, m \in {1, 3, 12}, d \in {1, 31}}
           \cup {Date(2024, 2, 29), Date(2023, 2, 28), Date(2024, 4, 30), Date(2024, 7, 15), Date(2025, 10, 5)}

OverPeriods ==
    {Request([Question EXCEPT !.preset = {p}, !.compare = c], Analyst, "empty", a, FALSE, Ample) :
        p \in DOMAIN UnitOf, c \in Comparisons, a \in Anchors}

(* An uploaded file, asked by the one user of its workspace.               *)
Uploader == [clearance |-> 3, actions |-> {"ASK", "READ"}, admin |-> FALSE,
             regions |-> {"north", "south"}, units |-> {"u1", "u2"}]

OfFile ==
    {[Request(question, Uploader, w, Today, FALSE, Ample) EXCEPT !.source = "CSV"] :
        question \in Answerable \cup {Of({"MARGIN"}), Of({"CHURN"}), Of({"ODD"}), Of({}), On(<<Today - 1, Today>>),
                                   [By({"REGION"}) EXCEPT !.dates = <<Today - 1, Today>>, !.on = TRUE]},
        w \in {"full", "thin", "gap", "empty"}}

(* The reference application: the seed, a mapped table, and local models.  *)
Local2 == [Local EXCEPT !.regions = {"national"}]

ReferenceIdentities ==
    Identities \cup {Local2, [Local2 EXCEPT !.regions = {"east"}], [Local2 EXCEPT !.regions = {"north", "east"}]}

OverMonths ==
    {[Question EXCEPT !.preset = {p}, !.compare = c, !.by = dims, !.grouping = dims, !.entities = dims] :
        p \in {"PREVIOUS_COMPLETE_MONTH", "CURRENT_MONTH", "PREVIOUS_COMPLETE_QUARTER", "CURRENT_QUARTER"},
        c \in {"NONE", "PRIOR_PERIOD"}, dims \in {{}, {"REGION"}, {"PLAN"}}}

OfMonth == [Question EXCEPT !.preset = {"PREVIOUS_COMPLETE_MONTH"}]

Reference(source, question, identity, world, anchor) ==
    [Request(question, identity, world, anchor, FALSE, Ample) EXCEPT !.source = source]

OfReference ==
    {Reference("SEED", question, a, "seed", Today) :
        question \in Answerable \cup Others \cup {Of({"CHURN"}), [Question EXCEPT !.rates = TRUE, !.sums = TRUE]},
        a \in ReferenceIdentities}
    \cup {Reference("TABLE", question, a, w, Date(2024, 3, 31)) :
            question \in OverMonths, a \in {Analyst, Local2}, w \in {"months", "sparse", "nulls", "orphan", "empty"}}
    \cup {Reference("TABLE", question, a, "months", Date(2024, 3, 31)) :
            question \in {Question, Of({"MARGIN"}), [OfMonth EXCEPT !.metrics = {"CHURN"}],
                          [OfMonth EXCEPT !.values = {"south"}]} \cup {OfMonth},
            a \in ReferenceIdentities}
    \cup {[Reference("TABLE", OfMonth, Analyst, "months", Date(2024, 3, 31)) EXCEPT !.session = t] : t \in Sessions}

MCLocalProposals ==
    [metrics : {{}, {"MARGIN"}, {"SALES", "MARGIN"}}, entities : {{}, {"PLAN"}}, domains : {{}},
     dims : {{}, {"REGION", "PLAN"}}, intent : {"UNKNOWN", "COMPARISON"}, unclear : BOOLEAN, sums : BOOLEAN]

OfLocalModel ==
    {[Reference("SEED", question, a, "seed", Today) EXCEPT !.llm = TRUE, !.required = must] :
        question \in {By({"REGION"}), Of({}), [By({}) EXCEPT !.metrics = {}, !.rates = TRUE],
                      [Question EXCEPT !.entities = {"PLAN", "REGION"}, !.grouping = {"PLAN", "REGION"}, !.by = {"PLAN"}]},
        a \in {Analyst, Local}, must \in BOOLEAN}

MCRequests == ByRules \cup ByModel \cup OverPeriods \cup OfFile \cup OfReference \cup OfLocalModel
============================================================================
