-------------------------- MODULE AnalyticalSource --------------------------
(***************************************************************************)
(* The sources a plan can be executed on: the checks it must pass, the     *)
(* rows its SELECT sums, the checks of the result, and the certification   *)
(* of the receipt (services/certification.py).                             *)
(*   VIEW  - an approved view (services/analytical_policy.py,              *)
(*           services/bigquery_sql.py, connectors/bigquery.py);            *)
(*   CSV   - an uploaded file (connectors/csv_demo.py);                    *)
(*   SEED  - the synthetic facts of the reference application              *)
(*           (connectors/demo_sqlite.py);                                  *)
(*   TABLE - a table behind a physical mapping (connectors/postgres.py,    *)
(*           domain/physical_mapping.py), whose rows may cover many days.  *)
(* Metrics are sums; a RATIO divides two sums of the same rows and is not  *)
(* modelled.                                                               *)
(***************************************************************************)
EXTENDS QueryCompiler, FiniteSetsExt

CONSTANTS
    Facts,         \* the rows of the source, in each world
    Columns,       \* the dimensions an uploaded file has a column for, in each world
    SeedSpan,      \* the coverage the synthetic facts are declared to have
    ScopeMap,      \* the physical regions approved for each region of an identity
    NoValue,       \* a dimension that is NULL
    RowLimit       \* min(100, the connector's maximum_rows)

(* A row speaks of the days from day to until; an amount that is not valid *)
(* is NULL, or of no use to a view's checks.                               *)
Fact == [metric : Metrics, day : Int, until : Int, unit : Units,
         at : [Entities -> Values \cup {NoValue}], amount : Int, valid : BOOLEAN]

(* What the rows of a world look like by the kind of their source: those   *)
(* of a view and of a file (parse_csv) are days and leave no dimension     *)
(* open, those of a file have a number each; the seed (_seed_rows) has a   *)
(* number for its first days, in few groups.  A mapped table may hold any. *)
Daily(w) == \A f \in Facts[w] : f.day = f.until

Viewed(w) == Daily(w) /\ \A f \in Facts[w], e \in Columns[w] : f.at[e] # NoValue

Imported(w) == Viewed(w) /\ \A f \in Facts[w] : f.valid

Synthetic(w) == /\ Daily(w) /\ \A f \in Facts[w] : f.valid
                /\ Cardinality({f.at : f \in Facts[w]}) <= RowLimit

(* The current period of a plan, then that of its comparison.              *)
PeriodsOf(plan) ==
    LET current == Resolve(plan.window)
    IN IF plan.comparison = "NONE" THEN <<current>>
       ELSE <<current, Against(current, plan.comparison)>>

(* A job: a plan executed for an identity on a source in some world.       *)
Job(kind, world, plan, access) ==
    [kind |-> kind, world |-> world, plan |-> plan, access |-> access, periods |-> PeriodsOf(plan)]

(* PhysicalConnectorMapping: scope rules name allowed physical values.     *)
MappingContract == DOMAIN ScopeMap \subseteq Regions /\ \A r \in DOMAIN ScopeMap : ScopeMap[r] \subseteq Entity[REGION].values

ASSUME SourceAssumption ==
    /\ RowLimit \in Nat \ {0} /\ NoValue \notin Values
    /\ \A w \in DOMAIN Facts : /\ Facts[w] \subseteq Fact /\ IsFiniteSet(Facts[w])
                               /\ \A f \in Facts[w] : f.day <= f.until
                               /\ REGION \in Columns[w] /\ Columns[w] \subseteq Entities
    /\ SeedSpan \in [start : Int, end : Int] /\ MappingContract
-----------------------------------------------------------------------------
(* validate_plan, for each kind of source                                  *)

LongestWindow == 730

(* Mutant: the roles of an administrator stand for the explicit action.    *)
AnyScope(access) == access.regions # {} /\ access.units # {}

ExplicitScope(access) == "READ" \in access.actions /\ access.regions # {} /\ access.units # {}

(* The dimensions a plan groups by or filters on.                          *)
Uses(plan) == plan.dims \cup DOMAIN plan.filters

RegionsWithin(plan, regions) == REGION \in DOMAIN plan.filters => plan.filters[REGION] \subseteq regions

WindowInContract(plan) ==
    LET range == Resolve(plan.window)
    IN plan.window.grain \in Metric[plan.metric].grains \ {"HOUR"} /\ range.end - range.start <= LongestWindow

(* validate_analytical_plan                                                *)
ViewAccepts(plan, access) ==
    /\ ExplicitScope(access)
    /\ MetricCleared(access, plan.metric)
    /\ \A e \in Uses(plan) : EntityCleared(access, e)
    /\ Uses(plan) \subseteq Metric[plan.metric].dims
    /\ RegionsWithin(plan, access.regions)
    /\ WindowInContract(plan)

(* The regions an identity's scope stands for at the source: those of the  *)
(* seed it names, those its scope is mapped to (resolve_scope_values), or  *)
(* its own.                                                                *)
ScopedRegions(kind, access) ==
    CASE kind = "SEED"  -> access.regions \cap Entity[REGION].values
      [] kind = "TABLE" -> UNION {ScopeMap[r] : r \in access.regions \cap DOMAIN ScopeMap}
      [] kind \in {"VIEW", "CSV"} -> access.regions

(* _check_access and validate_plan of the CSV connector                    *)
CsvAccepts(world, plan, access) ==
    /\ "READ" \in access.actions
    /\ access.regions # {} /\ access.regions \subseteq Entity[REGION].values
    /\ Uses(plan) \subseteq Columns[world]
    /\ RegionsWithin(plan, access.regions)

(* The seed bounds a filter only for an identity that names its regions.   *)
SeedAccepts(plan, access) ==
    /\ May(access, "READ")
    /\ Uses(plan) \subseteq Metric[plan.metric].dims
    /\ ScopedRegions("SEED", access) # {} => RegionsWithin(plan, ScopedRegions("SEED", access))

TableAccepts(plan, access) ==
    /\ May(access, "READ")
    /\ access.regions # {} /\ access.regions \subseteq DOMAIN ScopeMap
    /\ Uses(plan) \subseteq Metric[plan.metric].dims
    /\ RegionsWithin(plan, ScopedRegions("TABLE", access))

Mapped(job) == job.kind \in Metric[job.plan.metric].mapped

Accepts(job) ==
    /\ Mapped(job)
    /\ CASE job.kind = "VIEW"  -> ViewAccepts(job.plan, job.access)
         [] job.kind = "CSV"   -> CsvAccepts(job.world, job.plan, job.access)
         [] job.kind = "SEED"  -> SeedAccepts(job.plan, job.access)
         [] job.kind = "TABLE" -> TableAccepts(job.plan, job.access)
-----------------------------------------------------------------------------
(* The rows a plan sums, in each of its periods                            *)

Inside(inner, outer) == outer.start <= inner.start /\ inner.end <= outer.end

InPeriod(f, range) == Inside(Span(f.day, f.until), range)

(* Whether the WHERE clause holds a predicate on the region.               *)
Restricted(kind, m, access) ==
    kind \in {"VIEW", "CSV"} \/ (ScopedRegions(kind, access) # {} /\ REGION \in Metric[m].dims)

Visible(f, kind, m, access) ==
    /\ Restricted(kind, m, access) => f.at[REGION] \in ScopedRegions(kind, access)
    /\ kind = "VIEW" => f.unit \in access.units

(* The WHERE clause but for its dates.                                     *)
Matches(f, job) ==
    /\ f.metric = job.plan.metric
    /\ Visible(f, job.kind, job.plan.metric, job.access)
    /\ \A e \in DOMAIN job.plan.filters : f.at[e] \in job.plan.filters[e]

(* A view is read once, and CASE WHEN labels a day of both periods current;*)
(* the others are asked for one period after the other.                    *)
InPart(f, job, i) ==
    /\ i \in DOMAIN job.periods /\ InPeriod(f, job.periods[i])
    /\ job.kind = "VIEW" /\ i = 2 => ~InPeriod(f, job.periods[1])

Part(job, i) == {f \in Facts[job.world] : Matches(f, job) /\ InPart(f, job, i)}

(* Everything it reads.                                                    *)
Selected(job) == Part(job, 1) \cup Part(job, 2)

Key(f, plan) == [e \in plan.dims |-> f.at[e]]

(* GROUP BY                                                                *)
KeysOf(job, i) == {Key(f, job.plan) : f \in Part(job, i)}

Members(job, i, key) == {f \in Part(job, i) : Key(f, job.plan) = key}

Total(facts) == MapThenSumSet(LAMBDA f : f.amount, facts)

Counted(facts) == {f \in facts : f.valid}

(* SUM, as a set of at most one number: it passes over NULL, and is NULL   *)
(* when nothing else is there.                                             *)
Value(facts) == IF Counted(facts) = {} THEN {} ELSE {Total(Counted(facts))}

Magnitude(n) == IF n < 0 THEN -n ELSE n
-----------------------------------------------------------------------------
(* What the sources make of these rows                                     *)

Compared(job) == Len(job.periods) = 2

(* Mutant: the days in between are not counted.                            *)
SpansPeriod(facts, range) ==
    {range.start, range.end} \subseteq {f.day : f \in facts} /\ \A f \in facts : f.valid

(* _start, _end, _days and _invalid of a view's group, observed_days of a  *)
(* file's                                                                  *)
Complete(facts, range) ==
    /\ {range.start, range.end} \subseteq {f.day : f \in facts}
    /\ Cardinality({f.day : f \in facts}) = range.end - range.start + 1
    /\ \A f \in facts : f.valid

Whole(job, i) ==
    /\ KeysOf(job, i) # {}
    /\ \A k \in KeysOf(job, i) : Complete(Members(job, i, k), job.periods[i])

SameGroups(job) == Compared(job) => KeysOf(job, 1) = KeysOf(job, 2)

Overfull(job, i) == Cardinality(KeysOf(job, i)) > RowLimit

(* LIMIT cuts a view's groups at this number, and so many are truncated.   *)
MaximumGroups(job) == RowLimit * Len(job.periods) + 1

(* _validate_rows and merge_comparison_rows                                *)
ViewStatus(job) ==
    First(<<
      <<Cardinality(KeysOf(job, 1)) + Cardinality(KeysOf(job, 2)) >= MaximumGroups(job), "INVALID">>,
      <<~(SameGroups(job) /\ \A i \in DOMAIN job.periods : Whole(job, i)), "SOURCE_NOT_READY">>,
      <<Overfull(job, 1),                         "INVALID">>,
      <<TRUE,                                     "ROWS">> >>)

(* CsvDemoConnector._execute                                               *)
CsvStatus(job) ==
    First(<<
      <<Overfull(job, 1),                         "INVALID">>,
      <<~Whole(job, 1),                           "SOURCE_NOT_READY">>,
      <<Compared(job) /\ Overfull(job, 2),        "INVALID">>,
      <<Compared(job) /\ ~Whole(job, 2),          "SOURCE_NOT_READY">>,
      <<~SameGroups(job),                         "SOURCE_NOT_READY">>,
      <<TRUE,                                     "ROWS">> >>)

OfMetric(job) == {f \in Facts[job.world] : f.metric = job.plan.metric}

(* From the first day to the last: of a file, or of a metric in a table    *)
(* (_source_state), whatever lies between and whoever may see it.          *)
Envelope(facts) == Span(Min({f.day : f \in facts}), Max({f.until : f \in facts}))

PeriodsCovered(job) ==
    /\ OfMetric(job) # {}
    /\ \A i \in DOMAIN job.periods : Inside(job.periods[i], Envelope(OfMetric(job)))

(* PostgreSQLConnector._execute_sync                                       *)
TableStatus(job) ==
    First(<<
      <<~PeriodsCovered(job),                     "SOURCE_NOT_READY">>,
      <<Overfull(job, 1) \/ Overfull(job, 2),     "INVALID">>,
      <<TRUE,                                     "ROWS">> >>)

(* What is found out before anything is executed.                          *)
Screening(job) ==
    First(<<
      <<job.kind = "SEED" /\ Mapped(job) /\ ~Inside(job.periods[1], SeedSpan), "SOURCE_NOT_READY">>,
      <<~Accepts(job),                            "INVALID">>,
      <<job.kind = "CSV" /\ \E i \in DOMAIN job.periods :
           ~(job.periods[i].start..job.periods[i].end \subseteq {f.day : f \in Facts[job.world]}),
                                                  "SOURCE_NOT_READY">>,
      <<TRUE,                                     "NONE">> >>)

(* What executing an accepted plan yields when the driver does not fail.   *)
(* The seed always answers, with what its LIMIT leaves.                    *)
SourceStatus(job) ==
    CASE job.kind = "VIEW"  -> ViewStatus(job)
      [] job.kind = "CSV"   -> CsvStatus(job)
      [] job.kind = "TABLE" -> TableStatus(job)
      [] job.kind = "SEED"  -> "ROWS"
-----------------------------------------------------------------------------
(* The receipt                                                             *)

(* A row; previous and change are sets of at most one number, and relative *)
(* is the quotient change / |previous| as a pair.                          *)
Merged(key, value, previous) ==
    [key |-> key, value |-> value, previous |-> previous,
     change |-> {value - p : p \in previous},
     relative |-> {<<value - p, Magnitude(p)>> : p \in previous \ {0}}]

(* merge_comparison_rows: a group without a value is dropped, and one      *)
(* without a partner keeps no comparison.                                  *)
Rows(job) ==
    UNION {{Merged(k, v, Value(Members(job, 2, k))) : v \in Value(Members(job, 1, k))} : k \in KeysOf(job, 1)}

CoverageOf(job) ==
    CASE job.kind = "VIEW"  -> Span(Min({job.periods[i].start : i \in DOMAIN job.periods}),
                                    Max({job.periods[i].end : i \in DOMAIN job.periods}))
      [] job.kind = "CSV"   -> Envelope(Facts[job.world])
      [] job.kind = "TABLE" -> Envelope(OfMetric(job))
      [] job.kind = "SEED"  -> SeedSpan

Receipt(job) == [periods |-> job.periods, rows |-> Rows(job), coverage |-> CoverageOf(job)]
-----------------------------------------------------------------------------
(* ResultSenseValidator.validate                                           *)

InBounds(n, m) == Metric[m].least <= n /\ n <= Metric[m].most

RowInBounds(row, m) == InBounds(row.value, m) /\ \A p \in row.previous : InBounds(p, m)

(* _comparison_is_consistent                                               *)
Consistent(row, compared) ==
    IF ~compared THEN row.previous = {}
    ELSE \E p \in row.previous :
            /\ row.change = {row.value - p}
            /\ row.relative = IF p = 0 THEN {} ELSE {<<row.value - p, Magnitude(p)>>}

CoverageValid(receipt) ==
    \A i \in DOMAIN receipt.periods :
       receipt.periods[i].start <= receipt.periods[i].end /\ Inside(receipt.periods[i], receipt.coverage)

Verified(receipt, m) ==
    /\ receipt.rows # {}
    /\ CoverageValid(receipt)
    /\ \A r, s \in receipt.rows : r.key = s.key => r = s
    /\ \A r \in receipt.rows : /\ NoValue \notin {r.key[e] : e \in DOMAIN r.key}
                               /\ RowInBounds(r, m) /\ Consistent(r, Len(receipt.periods) = 2)
============================================================================
