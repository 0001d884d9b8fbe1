---------------------------- MODULE FoldCampaign ----------------------------
(***************************************************************************)
(* Cross-validation from end to end: the host's fold set is audited        *)
(* against the sample relation table, the table becomes an envelope, and   *)
(* the host then takes a train view and a validation view per fold through *)
(* the handle arena, with explicit sample ids, in any order and number.    *)
(*                                                                         *)
(* The host (the dag-ml coordinator) is not part of this repository: it is *)
(* modelled by what it may do with the calls the crates export, once it    *)
(* has kept to the rule that a refused fold set is not used.               *)
(***************************************************************************)
EXTENDS HandleArena, FoldSet

CONSTANTS
  Tables,     \* sample relation tables
  FoldSets,   \* fold sets the host may propose
  Schema,     \* the dataset schema
  Plan        \* the data plan

\* Identifiers are there, and the envelope of a table is one the arena knows.
ASSUME TablesAssumption ==
  \A t \in Tables :
    /\ \A r \in t : r.obs # None
    /\ TableFits(Schema, t) => FromParts(Schema, Plan, t) \in Envelopes

ASSUME FoldSetsAssumption ==
  \A fs \in FoldSets : /\ fs # None
                       /\ \A f \in DOMAIN fs.folds :
                            None \notin {fs.folds[f].train, fs.folds[f].validation}

VARIABLES
  table,      \* the relation table of the campaign
  fold_set    \* the fold set that passed the audit, or None

campaignVars == <<table, fold_set>>
vars == <<arenaVars, campaignVars>>

Init ==
  /\ ArenaInit
  /\ table \in Tables
  /\ fold_set = None

validate_fold_set(fs) ==
  /\ fold_set = None
  /\ FoldSetAccepted(table, fs)
  /\ fold_set' = fs
  /\ UNCHANGED <<arenaVars, table>>

open_table(req) ==
  /\ TableFits(Schema, table)
  /\ materialize(FromParts(Schema, Plan, table), req)
  /\ UNCHANGED campaignVars

\* A view of one side of fold f names exactly the samples of that side, and
\* whatever sources, branch and flags the host likes.
Sides == {"train", "validation"}

Side(f, side) == IF side = "train" THEN fold_set.folds[f].train
                                   ELSE fold_set.folds[f].validation

IsSide(view, f, side) ==
  /\ view.samples = Side(f, side)
  /\ view.partition = side
  /\ view.fold = f

make_fold_view(d, view) ==
  /\ fold_set # None
  /\ \E f \in DOMAIN fold_set.folds, side \in Sides : IsSide(view, f, side)
  /\ make_view(d, view)
  /\ UNCHANGED campaignVars

release(h) ==
  /\ release_handle(h)
  /\ UNCHANGED campaignVars

Next ==
  \/ \E fs \in FoldSets : validate_fold_set(fs)
  \/ \E req \in Requests : open_table(req)
  \/ \E d \in DataHandles, view \in Views : make_fold_view(d, view)
  \/ \E h \in LiveHandles : release(h)

Spec == Init /\ [][Next]_vars
-----------------------------------------------------------------------------
\* Views of one side of fold f.
SideViews(f, side) ==
  {v \in ViewHandles : /\ view_records[v].view.fold = f
                       /\ view_records[v].view.partition = side}

\* The groups a sample is in, by the fold set or by the table.
GroupsOf(s) ==
  {fold_set.groups[x] : x \in {s} \cap DOMAIN fold_set.groups}
    \cup ({r.group : r \in {q \in table : q.sample = s}} \ {None})

\* Two rows that must not meet across a fold: one sample, one group, or one
\* augmented from a sample of the other.
Leaks(r, q) ==
  \/ r.sample = q.sample
  \/ GroupsOf(r.sample) \cap GroupsOf(q.sample) # {}
  \/ OriginOf(r) = q.sample
  \/ OriginOf(q) = r.sample

\* ADR-05: after an accepted audit no row of a train view leaks into a row of
\* a validation view of the same fold, whichever handles the two were taken
\* of and whatever sources, branches and flags they asked for.
FoldViewsSeparate ==
  \A f \in IF fold_set = None THEN {} ELSE DOMAIN fold_set.folds :
    \A t \in SideViews(f, "train"), v \in SideViews(f, "validation") :
      \A r \in view_relations[t], q \in view_relations[v] : ~Leaks(r, q)

\* FoldPartitionMode::Partition, as the scores see it: no row is in the
\* validation views of two folds, and a target-missing sample is in no view.
ScoredOnce ==
  fold_set # None =>
    /\ fold_set.mode = "partition" =>
         \A f, g \in DOMAIN fold_set.folds :
           f # g => \A v \in SideViews(f, "validation"),
                       w \in SideViews(g, "validation") :
                      view_relations[v] \cap view_relations[w] = {}
    /\ \A v \in ViewHandles :
         PhysicalIds(view_relations[v]) \cap fold_set.missing = {}

\* Relations made from a sample table have no combo rows, so unlike views in
\* general (AcceptedViewsExportable) every view over them can be exported.
TableViewsExportable ==
  \A v \in ViewHandles : ValidRelationSet(view_relations[v])

\* ADR-05, point 4: "augmented rows derived from sample X carry X's group_id
\* and are constrained to X's fold": two augmentations of one observation are
\* never on the two sides of a fold.
SiblingsTogether ==
  fold_set # None =>
    \A f \in DOMAIN fold_set.folds : \A r, q \in table :
      r.origin # None /\ r.origin = q.origin =>
        ~(/\ r.sample \in fold_set.folds[f].train
          /\ q.sample \in fold_set.folds[f].validation)
=============================================================================
