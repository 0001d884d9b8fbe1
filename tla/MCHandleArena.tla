--------------------------- MODULE MCHandleArena ---------------------------
(***************************************************************************)
(* HandleArena on the small campaign.                                      *)
(***************************************************************************)
EXTENDS HandleArena, Campaign

MCEnvelopes == {PlainEnvelope, BareEnvelope, TestEnvelope, LeakyEnvelope}

MCRequests ==
  {Request0("fit_cv", {}), Request0("fit_cv", {"B"}), Request0("fit_cv", {"A"}),
   Request0("predict", {}), Bare(Request0("fit_cv", {})),
   Companion0("refit", TestEnvelope.cohort)}

MCViews == {View0, FoldView, PredictView, SourceView, TagView}
=============================================================================
