------------------------------ MODULE Campaign ------------------------------
(***************************************************************************)
(* A small two-source campaign for TLC: one sample measured by two sources *)
(* and combined in a combo row, an augmented and an excluded row, an       *)
(* external-test cohort, and an inference cohort that overlaps training.   *)
(***************************************************************************)
EXTENDS Envelope

Row0(obs, sample, source) ==
  [obs |-> obs, sample |-> sample, source |-> source, group |-> None,
   origin |-> None, unit |-> obs, level |-> "observation", components |-> {},
   aug |-> FALSE, excluded |-> FALSE, metadata |-> {}, tags |-> {},
   target |-> None]

a1 == [Row0("a1", "s1", "A") EXCEPT !.tags = {"qc"},
         !.metadata = {<<"partition", "train">>, <<"fold_id", "fold0">>}]
b1 == Row0("b1", "s1", "B")
\* The combo of both measurements of s1, delivered with source A.
c1 == [Row0("c1", "s1", "A") EXCEPT !.level = "combo", !.unit = "combo1",
         !.components = {"a1", "b1"}, !.tags = {"qc"}]
g1 == [Row0("g1", "s3", "A") EXCEPT !.origin = "s1", !.aug = TRUE]
x2 == [Row0("x2", "s2", "A") EXCEPT !.excluded = TRUE]

\* External test rows: t2 is an augmentation of a sample outside training.
t1 == Row0("t1", "s8", "A")
t2 == [Row0("t2", "s9", "B") EXCEPT !.origin = "s8", !.aug = TRUE]
\* Rows that share an identity with training: through the sample, and
\* through the origin only.
p1 == Row0("p1", "s1", "A")
p2 == [Row0("p2", "s7", "A") EXCEPT !.origin = "s3", !.aug = TRUE]

Training == {a1, b1, c1, g1, x2}

\* Rows that name no source.
u1 == Row0("u1", "s1", None)
u2 == Row0("u2", "s2", None)

PlanAB == [id |-> "plan", sources |-> {"A", "B"}, output |-> "tabular"]

\* PredictCohort::from_relations.
CohortOf(role, rels) ==
  LET c == [role |-> role, physical |-> PhysicalIds(rels),
            origins |-> OriginIds(rels), relations |-> rels,
            relationFp |-> Fingerprint(rels),
            hasTarget |-> role = "external_test", cohortFp |-> None]
  IN [c EXCEPT !.cohortFp = Fingerprint(CohortContent(c))]

EnvelopeOf(version, cv, cohort) ==
  [version |-> version, schemaFp |-> "schema", plan |-> PlanAB,
   planFp |-> Fingerprint(PlanAB),
   relationFp |-> IF cv = None THEN None ELSE "source-table",
   cv |-> cv, cohort |-> cohort]

PlainEnvelope    == EnvelopeOf(1, Training, None)
LooseEnvelope    == EnvelopeOf(1, {u1, u2}, None)
BareEnvelope     == EnvelopeOf(1, None, None)
TestEnvelope     == EnvelopeOf(2, Training, CohortOf("external_test", {t1, t2}))
LeakyEnvelope    == EnvelopeOf(2, Training, CohortOf("external_test", {t1, p1}))
OriginEnvelope   == EnvelopeOf(2, Training, CohortOf("external_test", {t1, p2}))
InferEnvelope    == EnvelopeOf(2, Training, CohortOf("inference", {p1}))
TamperedEnvelope == [TestEnvelope EXCEPT !.cohort.relations = {t1, p1}]

Request0(phase, sources) ==
  [phase |-> phase, fold |-> None, sources |-> sources, output |-> "tabular",
   schemaFp |-> "schema", planFp |-> Fingerprint(PlanAB),
   relationFp |-> "source-table", requireRelations |-> TRUE, cohort |-> None]

\* For an envelope without relations.
Bare(req) == [req EXCEPT !.relationFp = None, !.requireRelations = FALSE]

Companion0(phase, cohort) == [Request0(phase, {}) EXCEPT !.cohort = cohort]

View0 ==
  [samples |-> None, partition |-> None, fold |-> None, sources |-> None,
   branch |-> None, includeAugmented |-> TRUE, includeExcluded |-> FALSE]

Branch0(mode) ==
  [mode |-> mode, sources |-> {}, metadata |-> {}, tags |-> {},
   filter |-> None]

FoldView    == [View0 EXCEPT !.partition = "train", !.fold = "fold0"]
PredictView == [View0 EXCEPT !.partition = "predict"]
SampleView  == [View0 EXCEPT !.samples = {"s1", "s8"}, !.partition = "train",
                  !.includeExcluded = TRUE]
BareView    == [View0 EXCEPT !.includeAugmented = FALSE]
SourceView  == [View0 EXCEPT !.sources = {"B"},
                  !.branch = [Branch0("by_source") EXCEPT !.sources = {"A", "B"}]]
TagView     == [View0 EXCEPT !.branch = [Branch0("by_tag") EXCEPT !.tags = {"qc"}]]
FilterView  == [View0 EXCEPT !.branch = [Branch0("by_filter") EXCEPT
                  !.filter = [metadata |-> {<<"fold_id", "fold0">>}, tags |-> {"qc"}]]]
=============================================================================
