------------------------- MODULE FoldCampaignProofs -------------------------
(***************************************************************************)
(* Theorems of the cross-validation campaign, for every table, every fold  *)
(* set and every set of views: what the audit accepts keeps the two sides  *)
(* of a fold apart in every view, each sample is scored by one fold, and   *)
(* every view can be exported.                                             *)
(***************************************************************************)
EXTENDS FoldCampaign, HandleArenaProofs

\* A campaign drives the arena through its own calls only.
LEMMA CampaignDrivesArena ==
  ASSUME table \in Tables, [Next]_vars
  PROVE  [ArenaNext]_arenaVars
<1>1. ASSUME NEW fs \in FoldSets, validate_fold_set(fs) PROVE [ArenaNext]_arenaVars
  BY <1>1 DEF validate_fold_set
<1>2. ASSUME NEW req \in Requests, open_table(req) PROVE [ArenaNext]_arenaVars
  <2>1. FromParts(Schema, Plan, table) \in Envelopes
    BY <1>2, TablesAssumption DEF open_table
  <2> QED BY <1>2, <2>1 DEF open_table, ArenaNext
<1>3. ASSUME NEW d \in DataHandles, NEW view \in Views, make_fold_view(d, view)
      PROVE  [ArenaNext]_arenaVars
  BY <1>3 DEF make_fold_view, ArenaNext
<1>4. ASSUME NEW h \in LiveHandles, release(h) PROVE [ArenaNext]_arenaVars
  BY <1>4 DEF release, ArenaNext
<1>5. CASE UNCHANGED vars
  BY <1>5 DEF vars
<1> QED BY <1>1, <1>2, <1>3, <1>4, <1>5 DEF Next

(***************************************************************************)
(* The inductive invariant.                                                *)
(***************************************************************************)

\* The fold set that is in use passed the audit.
Audited ==
  /\ table \in Tables
  /\ fold_set # None => fold_set \in FoldSets /\ FoldSetAccepted(table, fold_set)

\* Handles hold rows of the table.
RowsOfTable ==
  \A d \in DOMAIN data_relations :
    /\ ValidTable(table)
    /\ data_relations[d] \subseteq CoordinatorRelations(table)

\* Every view is one side of a fold, and shows samples of that side only.
ViewsAreSides ==
  \A v \in ViewHandles :
    /\ fold_set # None
    /\ view_records[v].view.fold \in DOMAIN fold_set.folds
    /\ view_records[v].view.partition \in Sides
    /\ \A r \in view_relations[v] :
         r.sample \in Side(view_records[v].view.fold,
                           view_records[v].view.partition)

FoldInv == Audited /\ RowsOfTable /\ ViewsAreSides

\* No table entry before the first fold is registered.
LEMMA FoldInvInit == Init => FoldInv
BY DEF Init, ArenaInit, FoldInv, Audited, RowsOfTable, ViewsAreSides, ViewHandles

\* An envelope of from_parts carries no cohort: a handle over it is cut from
\* the rows of the table.
LEMMA TableAuthority ==
  ASSUME NEW req,
         RequestMatches(FromParts(Schema, Plan, table), req),
         CohortReadAllowed(FromParts(Schema, Plan, table), req)
  PROVE  MaterializationRelations(FromParts(Schema, Plan, table), req)
           = CoordinatorRelations(table)
<1> DEFINE e == FromParts(Schema, Plan, table)
<1>1. e.cohort = None /\ e.cv = CoordinatorRelations(table)
  BY DEF FromParts
<1> HIDE DEF e
<1>2. req.cohort = None
  BY <1>1 DEF CohortReadAllowed, e
<1>3. ~ReadsCohort(e, req)
  BY <1>1, <1>2 DEF ReadsCohort
<1> QED BY <1>1, <1>3 DEF MaterializationRelations, e

\* Every step of the campaign keeps the table of fold views right.
LEMMA FoldInvStep ==
  ASSUME ArenaInv, ArenaInv', FoldInv, [Next]_vars
  PROVE  FoldInv'
<1> USE DEF FoldInv
<1>1. ASSUME NEW fs \in FoldSets, validate_fold_set(fs) PROVE FoldInv'
  <2>1. Audited'
    BY <1>1 DEF validate_fold_set, Audited
  <2>2. RowsOfTable'
    BY <1>1 DEF validate_fold_set, RowsOfTable, arenaVars
  <2>3. ViewHandles = {}
    BY <1>1 DEF validate_fold_set, ViewsAreSides
  <2>4. ViewsAreSides'
    BY <1>1, <2>3 DEF validate_fold_set, ViewsAreSides, arenaVars, ViewHandles
  <2> QED BY <2>1, <2>2, <2>4
<1>2. ASSUME NEW req \in Requests, open_table(req) PROVE FoldInv'
  <2> DEFINE e == FromParts(Schema, Plan, table)
  <2>1. e \in Envelopes /\ ValidTable(table) /\ UNCHANGED campaignVars
    BY <1>2, TablesAssumption DEF open_table, TableFits, Audited
  <2>2. Materialized(e, req)
    BY <1>2, <2>1, MaterializeEffect DEF open_table
  <2>3. MaterializationRelations(e, req) = CoordinatorRelations(table)
    BY <1>2, TableAuthority DEF open_table, materialize
  <2> HIDE DEF e
  <2>4. Audited'
    BY <2>1 DEF Audited, campaignVars
  <2>5. ViewsAreSides'
    BY <2>1, <2>2 DEF Materialized, ViewsAreSides, campaignVars, ViewHandles, Side
  <2>6. RowsOfTable'
    <3>1. \A d \in DOMAIN data_relations :
            data_relations'[d] \subseteq CoordinatorRelations(table)
      BY <2>2 DEF Materialized, RowsOfTable
    <3>2. next_handle \in DOMAIN data_relations' =>
            \/ next_handle \in DOMAIN data_relations
            \/ data_relations'[next_handle] =
                 ScopeToSources(CoordinatorRelations(table), req.sources)
      BY <2>2, <2>3 DEF Materialized
    <3>3. DOMAIN data_relations' \subseteq DOMAIN data_relations \cup {next_handle}
      BY <2>2 DEF Materialized
    <3>4. next_handle \in DOMAIN data_relations' =>
            data_relations'[next_handle] \subseteq CoordinatorRelations(table)
      BY <3>1, <3>2, ScopeNarrows
    <3>5. table' = table
      BY <2>1 DEF campaignVars
    <3> QED BY <2>1, <3>1, <3>3, <3>4, <3>5 DEF RowsOfTable, CoordinatorRelations
  <2> QED BY <2>4, <2>5, <2>6
<1>3. ASSUME NEW d \in DataHandles, NEW view \in Views, make_fold_view(d, view)
      PROVE  FoldInv'
  <2>1. ViewMade(d, view) /\ UNCHANGED campaignVars /\ fold_set # None
    BY <1>3, MakeViewEffect DEF make_fold_view
  <2>2. PICK f \in DOMAIN fold_set.folds, side \in Sides : IsSide(view, f, side)
    BY <1>3 DEF make_fold_view
  <2>3. Audited' /\ RowsOfTable'
    BY <2>1 DEF Audited, RowsOfTable, campaignVars, ViewMade
  <2>4. view.samples # None
    BY <2>1, <2>2, FoldSetsAssumption DEF Audited, IsSide, Side
  <2>5. \A r \in view_relations'[next_handle] : r.sample \in Side(f, side)
    BY <2>1, <2>2, <2>4 DEF ViewMade, FilterRelations, ViewSelects, IsSide
  <2>6. \A v \in ViewHandles :
          /\ view_records'[v] = view_records[v]
          /\ view_relations'[v] = view_relations[v]
    BY <2>1 DEF ViewMade
  <2>7. /\ ViewHandles' = ViewHandles \cup {next_handle}
        /\ view_records'[next_handle].view = view
    BY <2>1 DEF ViewMade, ViewHandles
  <2>8. fold_set' = fold_set
    BY <2>1 DEF campaignVars
  <2>9. ViewsAreSides'
    BY <2>1, <2>2, <2>5, <2>6, <2>7, <2>8 DEF ViewsAreSides, IsSide, Side
  <2> QED BY <2>3, <2>9
<1>4. ASSUME NEW h \in LiveHandles, release(h) PROVE FoldInv'
  <2>1. UNCHANGED campaignVars
    BY <1>4 DEF release
  <2>2. CASE release_view(h)
    <3>1. ViewReleased(h)
      BY <2>2, ReleaseViewEffect
    <3> QED BY <2>1, <3>1
            DEF ViewReleased, Audited, RowsOfTable, ViewsAreSides, campaignVars,
                ViewHandles, Side
  <2>3. CASE release_data(h)
    <3>1. DataReleased(h)
      BY <2>3, ReleaseDataEffect
    <3>2. Audited' /\ RowsOfTable'
      BY <2>1, <3>1 DEF DataReleased, Audited, RowsOfTable, campaignVars
    <3>3. ViewsAreSides'
      BY <2>1, <3>1 DEF DataReleased, ViewsAreSides, campaignVars, ViewHandles, Side
    <3> QED BY <3>2, <3>3
  <2> QED BY <1>4, <2>2, <2>3 DEF release, release_handle
<1>5. CASE UNCHANGED vars
  BY <1>5 DEF vars, arenaVars, campaignVars, Audited, RowsOfTable,
              ViewsAreSides, ViewHandles, Side
<1> QED BY <1>1, <1>2, <1>3, <1>4, <1>5 DEF Next

\* The arena and the fold table are right in every reachable state.
LEMMA CampaignInvariant == Spec => [](ArenaInv /\ FoldInv)
<1>1. Init => ArenaInv /\ FoldInv
  BY InitInv, FoldInvInit DEF Init
<1>2. ArenaInv /\ FoldInv /\ [Next]_vars => (ArenaInv /\ FoldInv)'
  <2> SUFFICES ASSUME ArenaInv, FoldInv, [Next]_vars
               PROVE  (ArenaInv /\ FoldInv)'
    OBVIOUS
  <2>1. ArenaInv'
    BY CampaignDrivesArena, StepInv DEF FoldInv, Audited
  <2> QED BY <2>1, FoldInvStep
<1> QED BY <1>1, <1>2, PTL DEF Spec

(***************************************************************************)
(* What the audit means for two rows on the two sides of a fold.           *)
(***************************************************************************)

\* The table's group of a sample is the group of any of its grouped rows.
LEMMA TableGroups ==
  ASSUME NEW t, ValidTable(t), NEW r \in t, r.group # None
  PROVE  /\ r.sample \in DOMAIN SampleGroups(t)
         /\ SampleGroups(t)[r.sample] = r.group
<1> DEFINE grouped == {q \in t : q.group # None}
<1>1. r \in grouped
  OBVIOUS
<1>2. /\ DOMAIN SampleGroups(t) = PhysicalIds(grouped)
      /\ \A s \in PhysicalIds(grouped) :
           SampleGroups(t)[s] = (CHOOSE q \in grouped : q.sample = s).group
  BY DEF SampleGroups
<1>3. r.sample \in PhysicalIds(grouped)
  BY <1>1 DEF PhysicalIds
<1> DEFINE chosen == CHOOSE q \in grouped : q.sample = r.sample
<1>4. chosen \in grouped /\ chosen.sample = r.sample
  BY <1>1
<1>5. chosen \in t /\ chosen.group # None
  BY <1>4
<1> HIDE DEF chosen
<1>6. chosen.group = r.group
  BY <1>4, <1>5 DEF ValidTable
<1> HIDE DEF grouped
<1> QED BY <1>2, <1>3, <1>6 DEF chosen

\* No group spans the two sides, whichever authority puts a sample in it.
LEMMA GroupsApart ==
  ASSUME fold_set # None, FoldSetAccepted(table, fold_set),
         NEW f \in DOMAIN fold_set.folds,
         NEW s \in fold_set.folds[f].train, NEW v \in fold_set.folds[f].validation
  PROVE  GroupsOf(s) \cap GroupsOf(v) = {}
<1> DEFINE tg == SampleGroups(table)
           fg == fold_set.groups
<1>1. /\ ValidTable(table)
      /\ \A x \in DOMAIN fg \cap DOMAIN tg : fg[x] = tg[x]
      /\ {s, v} \subseteq DOMAIN fg => fg[s] # fg[v]
      /\ {s, v} \subseteq DOMAIN tg => tg[s] # tg[v]
      /\ s \in fold_set.universe /\ v \in fold_set.universe
      /\ DOMAIN fg = {} \/ DOMAIN fg = fold_set.universe
  BY DEF FoldSetAccepted, ValidFoldSet, ValidFold, GroupBoundary
<1> HIDE DEF tg
<1>2. \A x : \A g \in GroupsOf(x) :
        \/ x \in DOMAIN fg /\ g = fg[x]
        \/ x \in DOMAIN tg /\ g = tg[x]
  <2> SUFFICES ASSUME NEW x, NEW g \in GroupsOf(x),
                      ~(x \in DOMAIN fg /\ g = fg[x])
               PROVE  x \in DOMAIN tg /\ g = tg[x]
    OBVIOUS
  <2>1. PICK r \in table : r.sample = x /\ r.group # None /\ g = r.group
    BY DEF GroupsOf
  <2> QED BY <1>1, <2>1, TableGroups DEF tg
<1> SUFFICES ASSUME NEW g \in GroupsOf(s), g \in GroupsOf(v) PROVE FALSE
  OBVIOUS
<1> HIDE DEF fg
<1>3. (s \in DOMAIN fg /\ g = fg[s]) \/ (s \in DOMAIN tg /\ g = tg[s])
  BY <1>2
<1>4. (v \in DOMAIN fg /\ g = fg[v]) \/ (v \in DOMAIN tg /\ g = tg[v])
  BY <1>2
<1>5. CASE DOMAIN fg = {}
  BY <1>1, <1>3, <1>4, <1>5
<1>6. CASE DOMAIN fg = fold_set.universe
  BY <1>1, <1>3, <1>4, <1>6
<1> QED BY <1>1, <1>5, <1>6

\* A row's origin is never on the other side.
LEMMA OriginApart ==
  ASSUME NEW t, ValidTable(t), NEW fold, OriginBoundary(fold, t),
         fold.train \cap fold.validation = {}, NEW r \in t
  PROVE  LET o == OriginOf(CoordinatorRow(t, r)) IN
         /\ r.sample \in fold.train => o \notin fold.validation
         /\ r.sample \in fold.validation => o \notin fold.train
<1> DEFINE c == CoordinatorRow(t, r)
<1>1. c.sample = r.sample /\ c.origin = OriginSample(t, r)
  BY DEF CoordinatorRow
<1>2. CASE c.origin = None
  BY <1>1, <1>2 DEF OriginOf
<1>3. CASE c.origin # None
  <2>1. r.origin # None
    BY <1>1, <1>3 DEF OriginSample
  <2>2. \E base \in t : base.obs = r.origin
    BY <2>1 DEF ValidTable, Observations
  <2> DEFINE base == CHOOSE b \in t : b.obs = r.origin
  <2>3. base \in t /\ base.obs = r.origin
    BY <2>2
  <2>4. OriginOf(c) = base.sample
    BY <1>1, <1>3, <2>1 DEF OriginOf, OriginSample
  <2> HIDE DEF base
  <2> QED BY <2>3, <2>4 DEF OriginBoundary
<1> QED BY <1>2, <1>3

(***************************************************************************)
(* The theorems.                                                           *)
(***************************************************************************)

\* Fold views that are right are separate.
LEMMA SeparationFollows == ArenaInv /\ FoldInv => FoldViewsSeparate
<1> SUFFICES ASSUME ArenaInv, FoldInv, fold_set # None,
                    NEW f \in DOMAIN fold_set.folds,
                    NEW t \in SideViews(f, "train"),
                    NEW v \in SideViews(f, "validation"),
                    NEW r \in view_relations[t], NEW q \in view_relations[v]
             PROVE  ~Leaks(r, q)
  BY DEF FoldViewsSeparate
<1> DEFINE fold == fold_set.folds[f]
<1>1. /\ t \in ViewHandles /\ v \in ViewHandles
      /\ view_records[t].view.fold = f /\ view_records[v].view.fold = f
      /\ view_records[t].view.partition = "train"
      /\ view_records[v].view.partition = "validation"
  BY DEF SideViews
<1>2. r.sample \in fold.train /\ q.sample \in fold.validation
  BY <1>1 DEF FoldInv, ViewsAreSides, Side
<1>3. ValidTable(table) /\ r \in CoordinatorRelations(table)
                        /\ q \in CoordinatorRelations(table)
  BY <1>1 DEF ArenaInv, ArenaConsistent, ParentsLive, ViewsWithinParents,
              FoldInv, RowsOfTable
<1>4. PICK x \in table, y \in table :
        r = CoordinatorRow(table, x) /\ q = CoordinatorRow(table, y)
  BY <1>3 DEF CoordinatorRelations
<1>5. r.sample = x.sample /\ q.sample = y.sample
  BY <1>4 DEF CoordinatorRow
<1>6. /\ FoldSetAccepted(table, fold_set)
      /\ OriginBoundary(fold, table)
      /\ fold.train \cap fold.validation = {}
  BY DEF FoldInv, Audited, FoldSetAccepted, ValidFoldSet, ValidFold
<1>7. r.sample # q.sample
  BY <1>2, <1>6
<1>8. GroupsOf(r.sample) \cap GroupsOf(q.sample) = {}
  BY <1>2, <1>6, GroupsApart
<1>9. OriginOf(r) \notin fold.validation /\ OriginOf(q) \notin fold.train
  BY <1>2, <1>3, <1>4, <1>5, <1>6, OriginApart
<1> QED BY <1>2, <1>7, <1>8, <1>9 DEF Leaks

\* ADR-05 for every table, fold set and view: an accepted audit keeps the
\* samples, groups and direct origins of the two sides of a fold apart.
THEOREM FoldSeparation == Spec => []FoldViewsSeparate
BY CampaignInvariant, SeparationFollows, PTL

\* A fold table that is right scores a sample once.
LEMMA OnceFollows == FoldInv => ScoredOnce
<1> SUFFICES ASSUME FoldInv, fold_set # None PROVE ScoredOnce
  BY DEF ScoredOnce
<1> DEFINE val(f) == fold_set.folds[f].validation
<1>1. ValidFoldSet(fold_set)
  BY DEF FoldInv, Audited, FoldSetAccepted
<1>2. \A f \in DOMAIN fold_set.folds : \A v \in SideViews(f, "validation") :
        PhysicalIds(view_relations[v]) \subseteq val(f)
  BY DEF FoldInv, ViewsAreSides, SideViews, Side, PhysicalIds
<1>3. ASSUME fold_set.mode = "partition",
             NEW f \in DOMAIN fold_set.folds, NEW g \in DOMAIN fold_set.folds,
             f # g, NEW v \in SideViews(f, "validation"),
             NEW w \in SideViews(g, "validation"),
             NEW r \in view_relations[v], r \in view_relations[w]
      PROVE  FALSE
  <2>1. r.sample \in val(f) /\ r.sample \in val(g)
    BY <1>2, <1>3 DEF PhysicalIds
  <2>2. r.sample \in fold_set.universe
    BY <1>1, <2>1 DEF ValidFoldSet, ValidFold
  <2>3. PICK h \in DOMAIN fold_set.folds : \A x \in DOMAIN fold_set.folds :
          r.sample \in val(x) <=> x = h
    BY <1>1, <1>3, <2>2 DEF ValidFoldSet
  <2> QED BY <1>3, <2>1, <2>3
<1>4. ASSUME NEW v \in ViewHandles
      PROVE  PhysicalIds(view_relations[v]) \cap fold_set.missing = {}
  <2> DEFINE f == view_records[v].view.fold
  <2>1. /\ f \in DOMAIN fold_set.folds
        /\ PhysicalIds(view_relations[v]) \subseteq
             fold_set.folds[f].train \cup fold_set.folds[f].validation
    BY DEF FoldInv, ViewsAreSides, Side, PhysicalIds
  <2>2. fold_set.folds[f].train \cup fold_set.folds[f].validation
          \subseteq fold_set.universe
    BY <1>1, <2>1 DEF ValidFoldSet, ValidFold
  <2>3. fold_set.missing \cap fold_set.universe = {}
    BY <1>1 DEF ValidFoldSet
  <2> QED BY <2>1, <2>2, <2>3
<1> QED BY <1>3, <1>4 DEF ScoredOnce

\* In partition mode a row is scored by one fold only, and a target-missing
\* sample by none, whatever views are taken.
THEOREM OneFoldScores == Spec => []ScoredOnce
BY CampaignInvariant, OnceFollows, PTL

\* The views of a fold table that is right can be exported.
LEMMA ExportFollows == ArenaInv /\ FoldInv => TableViewsExportable
<1> SUFFICES ASSUME ArenaInv, FoldInv, NEW v \in ViewHandles
             PROVE  ValidRelationSet(view_relations[v])
  BY DEF TableViewsExportable
<1> DEFINE rels == view_relations[v]
<1>1. rels # {} /\ rels \subseteq CoordinatorRelations(table)
  BY DEF ArenaInv, ArenaConsistent, ParentsLive, ViewsWithinParents,
         FoldInv, RowsOfTable
<1>2. ValidTable(table)
  BY DEF ArenaInv, ArenaConsistent, ParentsLive, FoldInv, RowsOfTable
<1>3. \A x \in table : x.obs # None
  BY TablesAssumption DEF FoldInv, Audited
<1> HIDE DEF rels
<1>4. \A r \in rels : \E x \in table :
        /\ r = CoordinatorRow(table, x)
        /\ r.obs = x.obs /\ r.unit = x.obs
        /\ r.level = "observation" /\ r.components = {}
  BY <1>1 DEF CoordinatorRelations, CoordinatorRow
<1>5. \A r, q \in rels : r # q => r.obs # q.obs /\ r.unit # q.unit
  BY <1>2, <1>4 DEF ValidTable
<1>6. \A r \in rels : r.unit # None
  BY <1>3, <1>4
<1> QED BY <1>1, <1>4, <1>5, <1>6 DEF ValidRelationSet, rels

\* Over relations made from a sample table every view passes the validation
\* that the Arrow view_identity and the projections repeat.
THEOREM TableExports == Spec => []TableViewsExportable
BY CampaignInvariant, ExportFollows, PTL
=============================================================================
