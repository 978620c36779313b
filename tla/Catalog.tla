------------------------------ MODULE Catalog ------------------------------
(***************************************************************************)
(* The approved definitions of a tenant (domain/models.TenantDomainPack),  *)
(* the identity that asks (AccessContext) and the deterministic checks of  *)
(* services/policy.py.  Names, aliases and texts are left out: a question  *)
(* is described by what the rules recognise in it (Interpretation.tla).    *)
(***************************************************************************)
EXTENDS Sequences, FiniteSets, Periods

CONSTANTS
    Metrics, Entities, Domains, Topics, Values, Units, Regions,
    Metric,     \* what each metric's definition says (MetricFields)
    Entity,     \* each entity's classification, domain and named values
    DomainClass, \* each domain's classification
    Adjacent    \* the metrics and entities each external topic is adjacent to

Grains    == {"HOUR", "DAY", "WEEK", "MONTH", "QUARTER", "YEAR"}
Sources   == {"AVAILABLE", "NOT_READY", "UNAVAILABLE"}
Levels    == 0..3       \* PUBLIC, INTERNAL, CONFIDENTIAL, RESTRICTED
Actions   == {"ASK", "READ", "MEMORY", "EXTERNAL"}
REGION    == "REGION"   \* the entity every source is scoped by

(* The kinds of source a question can be answered from: an approved view   *)
(* in BigQuery or its Parquet snapshot, an uploaded CSV, the synthetic     *)
(* seed of the reference application, and a mapped PostgreSQL table.       *)
Kinds == {"VIEW", "CSV", "SEED", "TABLE"}

MetricFields ==
    [class : Levels, domain : Domains, source : Sources, dims : SUBSET Entities,
     grains : SUBSET Grains, grain : Grains, window : Presets,
     comparison : Comparisons, mapped : SUBSET Kinds, least : Int, most : Int]

(* What the validators of the pack and of its mapping accept.              *)
PackContract ==
    /\ Metric \in [Metrics -> MetricFields]
    /\ \A m \in Metrics : Metric[m].grain \in Metric[m].grains
    /\ Entity \in [Entities -> [class : Levels, domain : Domains, values : SUBSET Values]]
    /\ DomainClass \in [Domains -> Levels]
    /\ Adjacent \in [Topics -> SUBSET (Metrics \cup Entities)]

ASSUME CatalogAssumption == PackContract /\ REGION \in Entities /\ Entity[REGION].values \subseteq Regions

AccessContexts ==
    [clearance : Levels, actions : SUBSET Actions, admin : BOOLEAN,
     regions : SUBSET Regions, units : SUBSET Units]
-----------------------------------------------------------------------------
(* services/policy.py                                                      *)

(* can_ask, can_read_data, can_read_memory and can_use_external_context.   *)
May(access, action) == access.admin \/ action \in access.actions

(* can_access_classification                                               *)
Cleared(access, level) == level <= access.clearance

MetricCleared(access, m) == Cleared(access, Metric[m].class)
EntityCleared(access, e) == Cleared(access, Entity[e].class)
DomainCleared(access, d) == Cleared(access, DomainClass[d])

(* The first of a list of <<condition, outcome>> gates that stops a        *)
(* request, as the early returns of a handler do.                          *)
First(gates) ==
    LET hit == {i \in 1..Len(gates) : gates[i][1]}
    IN gates[CHOOSE i \in hit : \A j \in hit : i <= j][2]
============================================================================
