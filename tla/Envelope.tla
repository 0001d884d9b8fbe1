------------------------------ MODULE Envelope ------------------------------
(***************************************************************************)
(* The coordinator data-plan envelope, the predict cohort it may carry,    *)
(* the materialization request, and the decision which relations a request *)
(* reads (coordinator.rs, predict_cohort.rs, handle.rs).                   *)
(*                                                                         *)
(* An envelope is [version, schemaFp, plan, planFp, relationFp, cv,        *)
(* cohort]: plan is [id, sources, output], cv the coordinator_relations,   *)
(* cohort the predict_cohort (both None when absent).  A cohort is [role,  *)
(* physical, origins, relations, relationFp, hasTarget, cohortFp].  A      *)
(* request is [phase, fold, sources, output, schemaFp, planFp, relationFp, *)
(* requireRelations, cohort].                                              *)
(*                                                                         *)
(* A SHA-256 fingerprint is modelled by what comparing it decides: it is   *)
(* the content it digests, and an altered digest is any other value.       *)
(* Phases are lower case (the code compares them ignoring case), and the   *)
(* checks on the text of one field (non-empty, 64 hex digits) are left out.*)
(***************************************************************************)
EXTENDS Relations

Fingerprint(content) == content

(***************************************************************************)
(* PredictCohort.                                                          *)
(***************************************************************************)

\* FingerprintInput: what the cohort digest covers.
CohortContent(c) ==
  [role |-> c.role, physical |-> c.physical, origins |-> c.origins,
   relationFp |-> c.relationFp, relations |-> c.relations,
   hasTarget |-> c.hasTarget]

\* validate_members and validate.
ValidCohort(c) ==
  /\ c.physical # {} /\ c.origins # {}
  /\ c.role = "external_test" <=> c.hasTarget
  /\ ValidRelationSet(c.relations)
  /\ c.relationFp = Fingerprint(c.relations)
  /\ c.physical = PhysicalIds(c.relations)
  /\ c.origins = OriginIds(c.relations)
  /\ c.cohortFp = Fingerprint(CohortContent(c))

\* Slip: samples are compared with samples, origins are forgotten.
DisjointFromTraining_samples_only(c, training) ==
  /\ ValidCohort(c)
  /\ ValidRelationSet(training)
  /\ c.role = "external_test" => c.physical \cap PhysicalIds(training) = {}

\* validate_disjoint: nothing to check for an inference cohort.
DisjointFromTraining(c, training) ==
  /\ ValidCohort(c)
  /\ ValidRelationSet(training)
  /\ c.role = "external_test" =>
       (c.physical \cup c.origins) \cap
       (PhysicalIds(training) \cup ({r.origin : r \in training} \ {None})) = {}

(***************************************************************************)
(* CoordinatorDataPlanEnvelope::validate.                                  *)
(***************************************************************************)

ValidEnvelope(e) ==
  /\ e.version \in {1, 2}
  /\ e.version = 2 <=> e.cohort # None
  /\ e.cohort # None =>
       /\ ValidCohort(e.cohort)
       /\ e.cohort.role = "external_test" =>
            e.cv # None /\ DisjointFromTraining(e.cohort, e.cv)
  /\ e.planFp = Fingerprint(e.plan)
  /\ e.cv # None => ValidRelationSet(e.cv)
  /\ e.relationFp # None => e.cv # None

(***************************************************************************)
(* Materialization requests.                                               *)
(***************************************************************************)

ValidRequest(req) == req.requireRelations => req.relationFp # None

Prediction(req) == req.phase \in {"predict", "explain"}

\* A companion read of the external-test cohort during fitting.
Companion(req) ==
  req.phase \in {"fit_cv", "refit"} /\ req.cohort.role = "external_test"

\* The error paths of materialization_relations.
CohortReadAllowed(e, req) ==
  req.cohort # None =>
    /\ ValidCohort(req.cohort)
    /\ e.cohort = req.cohort
    /\ Prediction(req) \/ Companion(req)

\* A request that names the cohort, or predicts where there is one, reads it.
ReadsCohort(e, req) ==
  req.cohort # None \/ (Prediction(req) /\ e.cohort # None)

MaterializationRelations(e, req) ==
  IF ReadsCohort(e, req) THEN e.cohort.relations ELSE e.cv

\* validate_request_against_envelope.
RequestMatches(e, req) ==
  /\ req.schemaFp = e.schemaFp
  /\ req.planFp = e.planFp
  /\ req.relationFp = e.relationFp
  /\ req.requireRelations =>
       CohortReadAllowed(e, req) /\ MaterializationRelations(e, req) # None
  /\ req.output = e.plan.output
  /\ req.sources \subseteq e.plan.sources
=============================================================================
