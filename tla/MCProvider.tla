----------------------------- MODULE MCProvider -----------------------------
(***************************************************************************)
(* Provider on the small campaign.                                         *)
(***************************************************************************)
EXTENDS Provider, Campaign

MCEnvelopes ==
  {PlainEnvelope, LooseEnvelope, BareEnvelope, TestEnvelope, LeakyEnvelope,
   OriginEnvelope}

MCRequests ==
  {Request0("fit_cv", {}), Request0("fit_cv", {"A"}), Request0("fit_cv", {"B"}),
   Request0("explain", {}), Bare(Request0("fit_cv", {})),
   Companion0("refit", TestEnvelope.cohort),
   Companion0("refit", OriginEnvelope.cohort)}

MCViews == {View0, BareView, SourceView}

\* fx holds all of source A, fp only a part of it, fb all of source B and one
\* unsourced row; fi has another representation.
MCFeatureStore ==
  [fx |-> [repr |-> "tabular", rows |-> {"a1", "c1", "g1", "x2", "t1", "p2"}],
   fp |-> [repr |-> "tabular", rows |-> {"a1", "x2", "u1", "u2"}],
   fb |-> [repr |-> "tabular", rows |-> {"b1", "t2", "u1"}],
   fi |-> [repr |-> "image",   rows |-> {"a1", "b1", "c1", "g1", "x2"}]]

MCTensorStore ==
  [tx |-> [repr |-> "tabular", rows |-> {"a1", "b1", "c1", "x2", "t1", "t2"}]]

MCSelectors ==
  {<<[source |-> "A", feature |-> "fx"], [source |-> "B", feature |-> "fb"]>>}
=============================================================================
