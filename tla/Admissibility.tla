--------------------------- MODULE Admissibility ---------------------------
(***************************************************************************)
(* Which questions may proceed to data (services/admissibility.py).  The   *)
(* order of the gates is part of what is modelled: a question that fails   *)
(* several is answered with the first.                                     *)
(***************************************************************************)
EXTENDS Interpretation

(* The statuses of a response that carries no numbers, as demo_chat's      *)
(* status_for_verdict names them; PROCEED and EXTERNAL stand for the two   *)
(* verdicts that go on to planning.                                        *)
Verdicts == {"INVALID", "CLARIFICATION_REQUIRED", "OUT_OF_DOMAIN", "DENIED", "SOURCE_NOT_READY",
             "NO_SOURCE", "CONTEXT_NOT_CONNECTED", "PROCEED", "EXTERNAL"}

(* _valid_external_adjacencies                                             *)
External(q, i) == {t \in q.topics : Adjacent[t] \cap (i.metrics \cup i.entities) # {}}

(* required_classifications                                                *)
ScopeCleared(access, i) ==
    /\ \A m \in i.metrics  : MetricCleared(access, m)
    /\ \A e \in i.entities : EntityCleared(access, e)
    /\ \A d \in i.domains  : DomainCleared(access, d)

SourcesOf(i) == {Metric[m].source : m \in i.metrics}

(* What stops a question, and with which verdict, in the order in which    *)
(* evaluate looks at it.                                                   *)
Gates(q, access, i) ==
    <<
      <<q.nonadditive \/ (i.sums /\ q.rates),                              "INVALID">>,
      <<i.ambiguous,                                                       "CLARIFICATION_REQUIRED">>,
      <<i.metrics = {} /\ i.entities = {} /\ i.domains = {},               "OUT_OF_DOMAIN">>,
      <<~ScopeCleared(access, i),                                          "DENIED">>,
      <<External(q, i) # {} /\ ~May(access, "EXTERNAL"),                   "DENIED">>,
      <<i.metrics # {} /\ ~May(access, "READ"),                            "DENIED">>,
      <<"NOT_READY" \in SourcesOf(i),                                      "SOURCE_NOT_READY">>,
      <<"UNAVAILABLE" \in SourcesOf(i),                                    "NO_SOURCE">>,
      <<External(q, i) # {},                                               "EXTERNAL">>,
      <<i.metrics # {},                                                    "PROCEED">>,
      <<~May(access, "MEMORY"),                                            "DENIED">>,
      <<TRUE,                                                              "CONTEXT_NOT_CONNECTED">>
    >>

(* QuestionAdmissibilityEngine.evaluate, after the interpretation.         *)
Verdict(q, access, i) == First(Gates(q, access, i))

Proceeds == {"PROCEED", "EXTERNAL"}
============================================================================
