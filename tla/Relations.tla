----------------------------- MODULE Relations -----------------------------
(***************************************************************************)
(* Coordinator relations: the identity rows every data handle and every    *)
(* view carries, and the pure functions of the core crate over them        *)
(* (coordinator.rs and the selection half of handle.rs).                   *)
(*                                                                         *)
(* A relation is a record                                                  *)
(*   [obs, sample, source, group, origin, unit, level, components,         *)
(*    aug, excluded, metadata, tags, target]                               *)
(* whose optional fields hold None when absent.  "unit" is what            *)
(* effective_unit_id returns for the row, or None when it returns an       *)
(* error; "metadata" is a set of <<key, value>> pairs.                     *)
(*                                                                         *)
(* A CoordinatorRelationSet is a set of relations.  The code keeps a Vec;  *)
(* validate refuses two rows with one observation, so a valid Vec is such  *)
(* a set together with an order, and the order of a view's rows is a       *)
(* function of the set and of DataView.sample_ids.  No property below      *)
(* depends on it.                                                          *)
(***************************************************************************)
EXTENDS Integers, FiniteSets

CONSTANT None   \* an absent Option field

(***************************************************************************)
(* Identity closures.                                                      *)
(***************************************************************************)

\* The origin a row contributes: its origin sample, or itself.
OriginOf(r) == IF r.origin = None THEN r.sample ELSE r.origin

PhysicalIds(rels) == {r.sample : r \in rels}
OriginIds(rels)   == {OriginOf(r) : r \in rels}
SourceIds(rels)   == {r.source : r \in rels} \ {None}
Observations(rels) == {r.obs : r \in rels}

(***************************************************************************)
(* CoordinatorRelationSet::validate.                                       *)
(***************************************************************************)

\* A combo row names other rows of the same set and of the same sample.
ComboResolves(rels, r) ==
  /\ r.components # {}
  /\ r.origin \in {None, r.sample}
  /\ \A c \in r.components :
        /\ c # r.obs
        /\ \E q \in rels : q.obs = c /\ q.sample = r.sample

ValidRelationSet(rels) ==
  /\ rels # {}
  /\ \A r \in rels : r.unit # None
  /\ \A r, q \in rels : r # q => r.obs # q.obs /\ r.unit # q.unit
  /\ \A r \in rels : IF r.level = "combo" THEN ComboResolves(rels, r)
                                          ELSE r.components = {}

(***************************************************************************)
(* CoordinatorBranchView::validate and validate_view.  A branch view is    *)
(* None or a record [mode, sources, metadata, tags, filter]; filter is     *)
(* None or [metadata, tags].                                               *)
(***************************************************************************)

ValidFilter(f) == f # None /\ (f.metadata # {} \/ f.tags # {})

ValidBranchView(b) ==
  /\ b.sources # {} \/ b.metadata # {} \/ b.tags # {} \/ b.filter # None
  /\ b.mode = "by_source"   => b.sources # {}
  /\ b.mode = "by_metadata" => b.metadata # {}
  /\ b.mode = "by_tag"      => b.tags # {}
  /\ b.mode = "by_filter"   =>
       /\ b.sources = {} /\ b.metadata = {} /\ b.tags = {}
       /\ ValidFilter(b.filter)

ValidView(view) == view.branch # None => ValidBranchView(view.branch)

(***************************************************************************)
(* The predicate a view puts on each row of its parent's relations.        *)
(***************************************************************************)

\* resolved_view_labels, the error: PREDICT is only for predict handles.
LabelsResolvable(view, phase) ==
  view.samples = None /\ view.partition = "predict" => phase = "predict"

WholeHandle(view) == view.partition \in {"full_train", "predict"}

\* resolved_view_labels, the <<key, label>> pairs a row's metadata must hold.
\* Explicit sample ids are authoritative: labels are then only provenance.
ViewLabels(view, parentFold) ==
  IF view.samples # None THEN {}
  ELSE {<<"partition", p>> : p \in {view.partition} \ {None, "full_train", "predict"}}
       \cup {<<"fold_id", f>> : f \in {view.fold} \
              (IF WholeHandle(view) THEN {None, parentFold} ELSE {None})}

BranchSelects(b, r) ==
  CASE b.mode = "by_source"   -> r.source # None /\ r.source \in b.sources
    [] b.mode = "by_metadata" -> b.metadata \subseteq r.metadata
    [] b.mode = "by_tag"      -> b.tags \subseteq r.tags
    [] b.mode = "by_filter"   -> /\ b.filter.metadata \subseteq r.metadata
                                 /\ b.filter.tags \subseteq r.tags
    [] OTHER                  -> TRUE       \* separation restricts nothing

\* Slip: a branch that names sources stands in for the view's source scope.
ViewSelects_branch_overrides(view, r) ==
  /\ view.samples # None => r.sample \in view.samples
  /\ view.sources # None => \/ r.source # None /\ r.source \in view.sources
                            \/ view.branch # None /\ view.branch.sources # {}
  /\ view.branch # None => BranchSelects(view.branch, r)
  /\ view.includeAugmented \/ ~r.aug
  /\ view.includeExcluded \/ ~r.excluded

\* Source scope and branch compose as an intersection.
ViewSelects(view, r) ==
  /\ view.samples # None => r.sample \in view.samples
  /\ view.sources # None => r.source # None /\ r.source \in view.sources
  /\ view.branch # None => BranchSelects(view.branch, r)
  /\ view.includeAugmented \/ ~r.aug
  /\ view.includeExcluded \/ ~r.excluded

FilterRelations(rels, view, parentFold) ==
  {r \in rels : /\ ViewLabels(view, parentFold) \subseteq r.metadata
                /\ ViewSelects(view, r)}

(***************************************************************************)
(* scoped_relations_for_materialization: restrict to the requested         *)
(* sources, then require the restriction to be a relation set by itself.   *)
(***************************************************************************)

ScopeToSources(rels, sources) ==
  IF sources = {} THEN rels
  ELSE {r \in rels : r.source # None /\ r.source \in sources}

\* Slip: only the relations of the envelope are validated, not the scoped ones.
ScopeAccepted_authority_only(rels, sources) ==
  ValidRelationSet(rels) /\ ScopeToSources(rels, sources) # {}

\* Both validate calls of the function: the authority, then what is kept.
ScopeAccepted(rels, sources) ==
  ValidRelationSet(rels) /\ ValidRelationSet(ScopeToSources(rels, sources))
=============================================================================
