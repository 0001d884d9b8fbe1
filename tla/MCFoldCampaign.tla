--------------------------- MODULE MCFoldCampaign ---------------------------
(***************************************************************************)
(* FoldCampaign on tables of a few rows and every two-fold set over three  *)
(* samples.                                                                *)
(***************************************************************************)
EXTENDS FoldCampaign

TableRow(obs, sample, source, group, origin) ==
  [obs |-> obs, sample |-> sample, source |-> source, group |-> group,
   origin |-> origin, aug |-> origin # None, excluded |-> FALSE,
   metadata |-> {}, tags |-> {}, target |-> None]

\* s1 measured twice, s2, an augmentation s3 of s1, and s4 without a target.
o1 == TableRow("o1", "s1", "A", None, None)
r1 == TableRow("r1", "s1", "B", "G", None)
o2 == TableRow("o2", "s2", "A", "G", None)
n2 == TableRow("n2", "s2", "A", None, None)
g3 == TableRow("g3", "s3", "A", None, "o1")
g2 == TableRow("g2", "s2", "B", None, "o1")
o4 == TableRow("o4", "s4", "A", None, None)
\* s3 again, augmented from an observation that is not there.
l3 == TableRow("l3", "s3", "A", None, "lost")

MCTables ==
  {{o1, r1, o2, g3}, {o1, r1, n2, g3, o4}, {o1, n2, g3, o4}, {o1, g2, g3},
   {o1, r1, o2, l3}}

Universe == {"s1", "s2", "s3"}

Folds == {f \in [train : SUBSET Universe, validation : SUBSET Universe] :
            f.train \cap f.validation = {}}

\* The second fold scores one sample, and trains on the others or on nothing.
FoldPairs ==
  {[f0 |-> a, f1 |-> b] :
     a \in Folds,
     b \in {f \in Folds : /\ Cardinality(f.validation) = 1
                          /\ f.train \in {{}, Universe \ f.validation}}}
  \cup {[f0 |-> [train |-> {"s2"}, validation |-> {"s3"}],
         f1 |-> [train |-> {}, validation |-> {"s1", "s2"}]]}

MCFoldSets ==
  {[universe |-> Universe, missing |-> m, groups |-> g, mode |-> o, folds |-> f] :
     m \in {{}, {"s4"}, {"s3", "s4"}},
     g \in {<< >>, [s1 |-> "G", s2 |-> "H", s3 |-> "G"]},
     o \in {"partition", "resampled"},
     f \in FoldPairs}

\* The default mode only.
MCPartitions == {fs \in MCFoldSets : fs.mode = "partition"}

MCSchema == [fp |-> "schema", samples |-> {"s1", "s2", "s4"},
             sources |-> {"A", "B"}, targets |-> {}]

MCPlan == [id |-> "plan", sources |-> {"A", "B"}, output |-> "tabular"]

MCEnvelopes == {FromParts(MCSchema, MCPlan, t) :
                  t \in {x \in MCTables : ValidTable(x)}}

MCRequests ==
  {[phase |-> "fit_cv", fold |-> None, sources |-> src, output |-> "tabular",
    schemaFp |-> "schema", planFp |-> Fingerprint(MCPlan),
    relationFp |-> Fingerprint(t), requireRelations |-> TRUE, cohort |-> None] :
     src \in {{}, {"B"}}, t \in MCTables}

MCViews ==
  {[samples |-> s, partition |-> side, fold |-> f, sources |-> src,
    branch |-> None, includeAugmented |-> src = None, includeExcluded |-> FALSE] :
     s \in SUBSET Universe, side \in Sides, f \in {"f0", "f1"},
     src \in {None, {"A"}}}
=============================================================================
