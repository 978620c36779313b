--------------------------- MODULE Interpretation ---------------------------
(***************************************************************************)
(* What a question is taken to mean: the deterministic rules               *)
(* (services/interpreter.HeuristicQuestionInterpreter) and, when a         *)
(* language provider is enabled, its proposal checked against them: that   *)
(* of Claude or Gemini (services/language_contract.py), or that of the     *)
(* local model of the reference application (CompositeQuestionInterpreter).*)
(***************************************************************************)
EXTENDS Catalog

CONSTANTS
    LanguageMetrics,   \* config.allowed_metric_ids
    LanguageRank       \* the rank of config.maximum_classification

ASSUME LanguageAssumption == LanguageMetrics \subseteq Metrics /\ LanguageRank \in Levels

Nothing == {}           \* Python's None

Intents == {"DRIVER_ANALYSIS", "COMPARISON", "TREND_ANALYSIS", "METRIC_LOOKUP",
            "KNOWLEDGE_LOOKUP", "UNKNOWN"}

(* A question, as the phrases the rules find in its text:                  *)
(*   metrics, entities, domains, topics, values - the ones it names;       *)
(*   by, grouping - the entities after "by", and after any grouping word;  *)
(*   cue - the intent its words announce, or UNKNOWN;                      *)
(*   nonadditive - it asks to add up rates; sums - it asks for a sum, and  *)
(*   rates - it speaks of rates; attack - it matches INSTRUCTION_ATTACK;   *)
(*   dates, on, preset, compare - see QueryCompiler.                       *)
QuestionShape(q) ==
    /\ q.metrics \subseteq Metrics /\ q.domains \subseteq Domains
    /\ q.by \subseteq q.grouping /\ q.grouping \subseteq q.entities /\ q.entities \subseteq Entities
    /\ q.topics \subseteq Topics /\ q.values \subseteq Values
    /\ q.cue \in {"DRIVER_ANALYSIS", "COMPARISON", "TREND_ANALYSIS", "UNKNOWN"}
    /\ {q.nonadditive, q.sums, q.rates, q.attack} \subseteq BOOLEAN

DomainsOf(metrics, entities) == {Metric[m].domain : m \in metrics} \cup {Entity[e].domain : e \in entities}

(* _infer_intent                                                           *)
Intent(q) ==
    IF q.cue # "UNKNOWN" THEN q.cue
    ELSE IF q.metrics # {} THEN "METRIC_LOOKUP"
    ELSE IF q.entities \cup q.domains # {} THEN "KNOWLEDGE_LOOKUP" ELSE "UNKNOWN"

(* HeuristicQuestionInterpreter.interpret                                  *)
Rules(q) ==
    [metrics |-> q.metrics, entities |-> q.entities,
     domains |-> q.domains \cup DomainsOf(q.metrics, q.entities),
     dims |-> q.by, intent |-> Intent(q), ambiguous |-> FALSE, sums |-> q.sums]
-----------------------------------------------------------------------------
(* The catalog a language provider may see (permitted_pack)                *)

ReadableRank(access) == IF access.clearance < LanguageRank THEN access.clearance ELSE LanguageRank

Readable(access, level) == level <= ReadableRank(access)

LanguageEntities(access) ==
    {e \in Entities : Readable(access, Entity[e].class) /\ Readable(access, DomainClass[Entity[e].domain])}

LanguageCatalog(access) ==
    {m \in LanguageMetrics : /\ Readable(access, Metric[m].class)
                             /\ Readable(access, DomainClass[Metric[m].domain])
                             /\ Metric[m].source = "AVAILABLE"}

(* Why a question is not sent to the provider, in the order propose checks *)
(* it: full says whether the concurrent requests are all taken, long       *)
(* whether the prompt is over its byte limit.                              *)
Withheld(q, access, full, long) ==
    First(<<
      <<q.attack,                                   "UNSUPPORTED_INSTRUCTION">>,
      <<full,                                       "LANGUAGE_CAPACITY">>,
      <<~({"ASK", "READ"} \subseteq access.actions), "LANGUAGE_ACCESS_DENIED">>,
      <<LanguageCatalog(access) = {} \/ LanguageEntities(access) = {}, "LANGUAGE_CATALOG_EMPTY">>,
      <<\/ ~(q.metrics \subseteq LanguageCatalog(access))
        \/ ~(q.entities \subseteq LanguageEntities(access)), "LANGUAGE_CONTEXT_DENIED">>,
      <<long,                                       "PROMPT_LIMIT">>,
      <<TRUE,                                       "NONE">> >>)

(* What validate_proposal lets through of a provider's answer.             *)
Proposals(access) ==
    [metric : {{}} \cup {{m} : m \in LanguageCatalog(access)}, dims : SUBSET LanguageEntities(access),
     intent : Intents, unclear : BOOLEAN]

(* _ground: how a proposal is refused, and what it becomes otherwise.      *)
Ungrounded(q, p) ==
    First(<<
      <<q.metrics # {} /\ p.metric # {} /\ ~(p.metric \subseteq q.metrics), "METRIC_GROUNDING">>,
      <<p.dims # q.grouping,                                               "DIMENSION_GROUNDING">>,
      <<TRUE,                                                              "NONE">> >>)

Ground(q, p) ==
    LET metrics == IF q.metrics # {} THEN q.metrics ELSE p.metric
    IN [metrics |-> metrics, entities |-> q.entities,
        domains |-> DomainsOf(metrics, {}) \cup Rules(q).domains,
        dims |-> q.grouping,
        intent |-> IF q.metrics # {} THEN Intent(q) ELSE p.intent,
        ambiguous |-> p.unclear, sums |-> q.sums]
-----------------------------------------------------------------------------
(* CompositeQuestionInterpreter: what the local model may propose once its *)
(* unknown identifiers are dropped, and what is made of it.  It sees the   *)
(* whole pack, so its metric need not be one whose domain it also names.   *)
LocalProposal ==
    [metrics : SUBSET Metrics, entities : SUBSET Entities, domains : SUBSET Domains, dims : SUBSET Entities,
     intent : Intents, unclear : BOOLEAN, sums : BOOLEAN]

Merge(q, p) ==
    LET anchored == q.metrics # {}
    IN [metrics |-> IF anchored THEN q.metrics ELSE p.metrics,
        entities |-> q.entities \cup p.entities,
        domains |-> Rules(q).domains \cup p.domains,
        dims |-> q.by \cup (p.dims \cap q.grouping),
        intent |-> IF anchored \/ p.intent = "UNKNOWN" THEN Intent(q) ELSE p.intent,
        ambiguous |-> p.unclear,
        sums |-> IF anchored THEN q.sums ELSE p.sums]
============================================================================
