------------------------- MODULE HandleArenaProofs -------------------------
(***************************************************************************)
(* Theorems of the handle arena, for every set of envelopes, requests and  *)
(* views and every bound on the counter.                                   *)
(***************************************************************************)
EXTENDS HandleArena, TLAPS

ArenaInv == ArenaTypeOK /\ ArenaConsistent

(***************************************************************************)
(* Selection only ever narrows.                                            *)
(***************************************************************************)

\* filter_relations returns rows of the relations it is given.
LEMMA FilterNarrows ==
  ASSUME NEW rels, NEW view, NEW fold
  PROVE  FilterRelations(rels, view, fold) \subseteq rels
BY DEF FilterRelations

\* scoped_relations_for_materialization does too.
LEMMA ScopeNarrows ==
  ASSUME NEW rels, NEW sources
  PROVE  ScopeToSources(rels, sources) \subseteq rels
BY DEF ScopeToSources

(***************************************************************************)
(* What each operation does to the maps, as later proofs use it.           *)
(***************************************************************************)

\* The next handle value is free in all four maps.
LEMMA NextIsFree ==
  ASSUME ArenaInv
  PROVE  next_handle \notin LiveHandles
BY MaxHandleAssumption DEF ArenaInv, ArenaTypeOK

\* materialize adds one data handle, at the counter, and nothing else.
Materialized(e, req) ==
  /\ next_handle \in 1 .. MaxHandle /\ next_handle' = next_handle + 1
  /\ view_records' = view_records /\ view_relations' = view_relations
  /\ DOMAIN records' = DataHandles \cup {next_handle}
  /\ records'[next_handle].request = req
  /\ \A d \in DataHandles : records'[d] = records[d]
  /\ DOMAIN data_relations' =
       DOMAIN data_relations \cup
         (IF MaterializationRelations(e, req) = None THEN {}
                                                    ELSE {next_handle})
  /\ MaterializationRelations(e, req) # None =>
       data_relations'[next_handle] =
         ScopeToSources(MaterializationRelations(e, req), req.sources)
  /\ \A d \in DOMAIN data_relations :
       data_relations'[d] = data_relations[d]

\* materialize has the effect Materialized describes.
LEMMA MaterializeEffect ==
  ASSUME ArenaInv, NEW e \in Envelopes, NEW req \in Requests,
         materialize(e, req)
  PROVE  Materialized(e, req)
<1> DEFINE h == next_handle
           rels == ScopeToSources(MaterializationRelations(e, req), req.sources)
<1>1. /\ h \in 1 .. MaxHandle /\ next_handle' = h + 1
      /\ records' = With(records, h, [request |-> req, plan |-> e.plan.id])
      /\ view_records' = view_records /\ view_relations' = view_relations
  BY MaxHandleAssumption DEF materialize, ArenaInv, ArenaTypeOK
<1>2. h \notin DataHandles /\ h \notin DOMAIN data_relations
  BY NextIsFree DEF LiveHandles, ArenaInv, ArenaConsistent, MapsInLockStep
<1>3. /\ DOMAIN records' = DataHandles \cup {h}
      /\ records'[h].request = req
      /\ \A d \in DataHandles : records'[d] = records[d]
  BY <1>1, <1>2 DEF With, DataHandles
<1>4. CASE MaterializationRelations(e, req) = None
  <2>1. data_relations' = data_relations
    BY <1>4 DEF materialize
  <2> QED BY <1>1, <1>3, <1>4, <2>1 DEF Materialized
<1>5. CASE MaterializationRelations(e, req) # None
  <2>1. data_relations' = With(data_relations, h, rels)
    BY <1>5 DEF materialize
  <2> HIDE DEF rels
  <2>2. /\ DOMAIN data_relations' = DOMAIN data_relations \cup {h}
        /\ data_relations'[h] = rels
        /\ \A d \in DOMAIN data_relations :
             data_relations'[d] = data_relations[d]
    BY <1>2, <2>1 DEF With
  <2> QED BY <1>1, <1>3, <1>5, <2>2 DEF Materialized, rels
<1> QED BY <1>4, <1>5

\* make_view adds one view handle, at the counter, and nothing else.
ViewMade(d, view) ==
  /\ next_handle \in 1 .. MaxHandle /\ next_handle' = next_handle + 1
  /\ records' = records /\ data_relations' = data_relations
  /\ d \in DOMAIN data_relations
  /\ LabelsResolvable(view, records[d].request.phase)
  /\ DOMAIN view_records' = ViewHandles \cup {next_handle}
  /\ DOMAIN view_relations' = ViewHandles \cup {next_handle}
  /\ view_records'[next_handle] = [parent |-> d, view |-> view]
  /\ view_relations'[next_handle] =
       FilterRelations(data_relations[d], view, records[d].request.fold)
  /\ view_relations'[next_handle] # {}
  /\ \A v \in ViewHandles : /\ view_records'[v] = view_records[v]
                            /\ view_relations'[v] = view_relations[v]

\* make_view has the effect ViewMade describes.
LEMMA MakeViewEffect ==
  ASSUME ArenaInv, NEW d \in DataHandles, NEW view \in Views,
         make_view(d, view)
  PROVE  ViewMade(d, view)
<1> DEFINE h == next_handle
           filtered == FilterRelations(data_relations[d], view,
                                       records[d].request.fold)
<1>1. /\ h \in 1 .. MaxHandle /\ next_handle' = h + 1
      /\ records' = records /\ data_relations' = data_relations
      /\ d \in DOMAIN data_relations
      /\ LabelsResolvable(view, records[d].request.phase)
      /\ view_records' = With(view_records, h, [parent |-> d, view |-> view])
      /\ view_relations' = With(view_relations, h, filtered)
      /\ filtered # {}
  BY MaxHandleAssumption DEF make_view, ViewAccepted, AddView, Filtered, ArenaInv, ArenaTypeOK
<1>2. h \notin ViewHandles /\ DOMAIN view_relations = ViewHandles
  BY NextIsFree DEF LiveHandles, ArenaInv, ArenaConsistent, MapsInLockStep
<1> HIDE DEF filtered
<1>3. /\ DOMAIN view_records' = ViewHandles \cup {h}
      /\ view_records'[h] = [parent |-> d, view |-> view]
      /\ \A v \in ViewHandles : view_records'[v] = view_records[v]
  BY <1>1, <1>2 DEF With, ViewHandles
<1>4. /\ DOMAIN view_relations' = ViewHandles \cup {h}
      /\ view_relations'[h] = filtered
      /\ \A v \in ViewHandles : view_relations'[v] = view_relations[v]
  BY <1>1, <1>2 DEF With
<1> QED BY <1>1, <1>3, <1>4 DEF ViewMade, filtered

\* release_handle of a view removes that view and nothing else.
ViewReleased(v) ==
  /\ v \in ViewHandles
  /\ next_handle' = next_handle
  /\ records' = records /\ data_relations' = data_relations
  /\ DOMAIN view_records' = ViewHandles \ {v}
  /\ DOMAIN view_relations' = ViewHandles \ {v}
  /\ \A w \in ViewHandles \ {v} :
       /\ view_records'[w] = view_records[w]
       /\ view_relations'[w] = view_relations[w]

\* release_view has the effect ViewReleased describes.
LEMMA ReleaseViewEffect ==
  ASSUME ArenaInv, NEW v \in LiveHandles, release_view(v)
  PROVE  ViewReleased(v)
<1>1. DOMAIN view_relations = ViewHandles
  BY DEF ArenaInv, ArenaConsistent, MapsInLockStep
<1> QED BY <1>1 DEF ViewReleased, release_view, Without, ViewHandles

\* release_handle of a data handle removes it, its relations and its views.
DataReleased(d) ==
  /\ d \in DataHandles
  /\ next_handle' = next_handle
  /\ DOMAIN records' = DataHandles \ {d}
  /\ DOMAIN data_relations' = DOMAIN data_relations \ {d}
  /\ \A x \in DataHandles \ {d} : records'[x] = records[x]
  /\ \A x \in DOMAIN data_relations \ {d} :
       data_relations'[x] = data_relations[x]
  /\ DOMAIN view_records' = ViewHandles \ ViewsOf(d)
  /\ DOMAIN view_relations' = ViewHandles \ ViewsOf(d)
  /\ \A w \in ViewHandles \ ViewsOf(d) :
       /\ view_records'[w] = view_records[w]
       /\ view_relations'[w] = view_relations[w]

\* release_data has the effect DataReleased describes.
LEMMA ReleaseDataEffect ==
  ASSUME ArenaInv, NEW d \in LiveHandles, release_data(d)
  PROVE  DataReleased(d)
<1>1. DOMAIN view_relations = ViewHandles
  BY DEF ArenaInv, ArenaConsistent, MapsInLockStep
<1>2. /\ d \in DataHandles /\ next_handle' = next_handle
      /\ DOMAIN records' = DataHandles \ {d}
      /\ DOMAIN data_relations' = DOMAIN data_relations \ {d}
      /\ \A x \in DataHandles \ {d} : records'[x] = records[x]
      /\ \A x \in DOMAIN data_relations \ {d} :
           data_relations'[x] = data_relations[x]
  BY DEF release_data, RemoveData, Without, DataHandles
<1>3. /\ DOMAIN view_records' = ViewHandles \ ViewsOf(d)
      /\ DOMAIN view_relations' = ViewHandles \ ViewsOf(d)
      /\ \A w \in ViewHandles \ ViewsOf(d) :
           /\ view_records'[w] = view_records[w]
           /\ view_relations'[w] = view_relations[w]
  BY <1>1 DEF release_data, Without, ViewHandles
<1> QED BY <1>2, <1>3 DEF DataReleased

\* Every step is one of the four, or leaves the arena as it is.
LEMMA StepEffect ==
  ASSUME ArenaInv, [ArenaNext]_arenaVars
  PROVE  \/ \E e \in Envelopes, req \in Requests : Materialized(e, req)
         \/ \E d \in DataHandles, view \in Views : ViewMade(d, view)
         \/ \E v \in ViewHandles : ViewReleased(v)
         \/ \E d \in DataHandles : DataReleased(d)
         \/ UNCHANGED arenaVars
<1>1. CASE \E e \in Envelopes, req \in Requests : materialize(e, req)
  <2>1. PICK e \in Envelopes, req \in Requests : materialize(e, req)
    BY <1>1
  <2>2. Materialized(e, req)
    BY <2>1, MaterializeEffect
  <2> QED BY <2>2
<1>2. CASE \E d \in DataHandles, view \in Views : make_view(d, view)
  <2>1. PICK d \in DataHandles, view \in Views : make_view(d, view)
    BY <1>2
  <2>2. ViewMade(d, view)
    BY <2>1, MakeViewEffect
  <2> QED BY <2>2
<1>3. CASE \E h \in LiveHandles : release_handle(h)
  <2>1. PICK h \in LiveHandles : release_handle(h)
    BY <1>3
  <2>2. CASE release_view(h)
    <3>1. ViewReleased(h) /\ h \in ViewHandles
      BY <2>2, ReleaseViewEffect DEF ViewReleased
    <3> QED BY <3>1
  <2>3. CASE release_data(h)
    <3>1. DataReleased(h) /\ h \in DataHandles
      BY <2>3, ReleaseDataEffect DEF DataReleased
    <3> QED BY <3>1
  <2> QED BY <2>1, <2>2, <2>3 DEF release_handle
<1>4. CASE UNCHANGED arenaVars
  BY <1>4
<1> QED BY <1>1, <1>2, <1>3, <1>4 DEF ArenaNext

(***************************************************************************)
(* ArenaInv is inductive.                                                  *)
(***************************************************************************)

\* An arena starts with no handle.
LEMMA InitInv == ArenaInit => ArenaInv
<1> SUFFICES ASSUME ArenaInit PROVE ArenaInv
  OBVIOUS
<1>1. /\ DOMAIN records = {} /\ DOMAIN data_relations = {}
      /\ DOMAIN view_records = {} /\ DOMAIN view_relations = {}
  BY DEF ArenaInit
<1>2. next_handle \in 1 .. MaxHandle + 1
  BY MaxHandleAssumption DEF ArenaInit
<1>3. ArenaTypeOK
  BY <1>1, <1>2 DEF ArenaTypeOK, LiveHandles, DataHandles, ViewHandles
<1>4. ArenaConsistent
  BY <1>1 DEF ArenaConsistent, MapsInLockStep, ParentsLive,
              ViewsWithinParents, DataHandles, ViewHandles
<1> QED BY <1>3, <1>4 DEF ArenaInv

\* A new data handle keeps the maps consistent.
LEMMA MaterializeInv ==
  ASSUME ArenaInv, NEW e \in Envelopes, NEW req \in Requests,
         Materialized(e, req)
  PROVE  ArenaInv'
<1>1. ArenaTypeOK'
  <2>1. LiveHandles' = LiveHandles \cup {next_handle}
    BY DEF Materialized, LiveHandles, DataHandles, ViewHandles
  <2>2. next_handle' \in 1 .. MaxHandle + 1
    BY MaxHandleAssumption DEF Materialized
  <2>3. LiveHandles' \subseteq 1 .. next_handle' - 1
    <3>1. next_handle \in Nat \ {0} /\ next_handle' = next_handle + 1
      BY MaxHandleAssumption DEF Materialized
    <3>2. LiveHandles \subseteq 1 .. next_handle - 1
      BY DEF ArenaInv, ArenaTypeOK
    <3> QED BY <2>1, <3>1, <3>2
  <2>4. \A d \in DataHandles' : records'[d].request \in Requests
    BY DEF Materialized, ArenaInv, ArenaTypeOK, DataHandles
  <2>5. \A v \in ViewHandles' : view_records'[v].view \in Views
    BY DEF Materialized, ArenaInv, ArenaTypeOK, ViewHandles
  <2> QED BY <2>2, <2>3, <2>4, <2>5 DEF ArenaTypeOK
<1>2. MapsInLockStep'
  <2>1. next_handle \notin LiveHandles
    BY NextIsFree
  <2> QED BY <2>1
          DEF Materialized, ArenaInv, ArenaConsistent, MapsInLockStep,
              LiveHandles, DataHandles, ViewHandles
<1>3. ParentsLive'
  BY DEF Materialized, ArenaInv, ArenaConsistent, ParentsLive, ViewHandles
<1>4. ViewsWithinParents'
  BY DEF Materialized, ArenaInv, ArenaConsistent, ParentsLive,
         ViewsWithinParents, ViewHandles
<1> QED BY <1>1, <1>2, <1>3, <1>4 DEF ArenaInv, ArenaConsistent

\* A new view keeps the maps consistent.
LEMMA MakeViewInv ==
  ASSUME ArenaInv, NEW d \in DataHandles, NEW view \in Views,
         ViewMade(d, view)
  PROVE  ArenaInv'
<1>1. ArenaTypeOK'
  <2>1. LiveHandles' = LiveHandles \cup {next_handle}
    BY DEF ViewMade, LiveHandles, DataHandles, ViewHandles
  <2>2. next_handle' \in 1 .. MaxHandle + 1
    BY MaxHandleAssumption DEF ViewMade
  <2>3. LiveHandles' \subseteq 1 .. next_handle' - 1
    <3>1. next_handle \in Nat \ {0} /\ next_handle' = next_handle + 1
      BY MaxHandleAssumption DEF ViewMade
    <3>2. LiveHandles \subseteq 1 .. next_handle - 1
      BY DEF ArenaInv, ArenaTypeOK
    <3> QED BY <2>1, <3>1, <3>2
  <2>4. \A x \in DataHandles' : records'[x].request \in Requests
    BY DEF ViewMade, ArenaInv, ArenaTypeOK, DataHandles
  <2>5. \A v \in ViewHandles' : view_records'[v].view \in Views
    BY DEF ViewMade, ArenaInv, ArenaTypeOK, ViewHandles
  <2> QED BY <2>2, <2>3, <2>4, <2>5 DEF ArenaTypeOK
<1>2. MapsInLockStep'
  <2>1. next_handle \notin LiveHandles
    BY NextIsFree
  <2> QED BY <2>1
          DEF ViewMade, ArenaInv, ArenaConsistent, MapsInLockStep,
              LiveHandles, DataHandles, ViewHandles
<1>3. ParentsLive'
  BY DEF ViewMade, ArenaInv, ArenaConsistent, ParentsLive, ViewHandles
<1>4. ViewsWithinParents'
  <2>1. view_relations'[next_handle] \subseteq data_relations[d]
    BY FilterNarrows DEF ViewMade
  <2> QED BY <2>1
          DEF ViewMade, ArenaInv, ArenaConsistent, ViewsWithinParents,
              ViewHandles
<1> QED BY <1>1, <1>2, <1>3, <1>4 DEF ArenaInv, ArenaConsistent

\* Releasing a view keeps the maps consistent.
LEMMA ReleaseViewInv ==
  ASSUME ArenaInv, NEW v \in ViewHandles, ViewReleased(v)
  PROVE  ArenaInv'
<1>1. ArenaTypeOK'
  BY DEF ViewReleased, ArenaInv, ArenaTypeOK, LiveHandles, DataHandles,
         ViewHandles
<1>2. ArenaConsistent'
  BY DEF ViewReleased, ArenaInv, ArenaConsistent, MapsInLockStep, ParentsLive,
         ViewsWithinParents, DataHandles, ViewHandles
<1> QED BY <1>1, <1>2 DEF ArenaInv

\* Releasing a data handle, with its views, keeps the maps consistent.
LEMMA ReleaseDataInv ==
  ASSUME ArenaInv, NEW d \in DataHandles, DataReleased(d)
  PROVE  ArenaInv'
<1>1. \A w \in ViewHandles \ ViewsOf(d) : view_records[w].parent # d
  BY DEF ViewsOf
<1>2. ArenaTypeOK'
  BY DEF DataReleased, ArenaInv, ArenaTypeOK, LiveHandles, DataHandles,
         ViewHandles
<1>3. ArenaConsistent'
  BY <1>1
  DEF DataReleased, ArenaInv, ArenaConsistent, MapsInLockStep, ParentsLive,
      ViewsWithinParents, DataHandles, ViewHandles
<1> QED BY <1>2, <1>3 DEF ArenaInv

\* So does a call that changes nothing.
LEMMA StutterInv ==
  ASSUME ArenaInv, UNCHANGED arenaVars
  PROVE  ArenaInv'
BY DEF arenaVars, ArenaInv, ArenaTypeOK, ArenaConsistent, MapsInLockStep,
       ParentsLive, ViewsWithinParents, LiveHandles, DataHandles, ViewHandles

\* Every step keeps the maps consistent.
LEMMA StepInv == ArenaInv /\ [ArenaNext]_arenaVars => ArenaInv'
BY StepEffect, MaterializeInv, MakeViewInv, ReleaseViewInv, ReleaseDataInv,
   StutterInv

\* The maps of the arena agree in every reachable state, whatever is called:
\* no view without its parent, no entry left behind by a release, no view
\* wider than its parent.
THEOREM ArenaInvariant == ArenaSpec => [](ArenaTypeOK /\ ArenaConsistent)
<1>1. ArenaSpec => []ArenaInv
  BY InitInv, StepInv, PTL DEF ArenaSpec
<1> QED BY <1>1, PTL DEF ArenaInv

\* The arena's tables and counter keep their types: the records of handle.rs.
THEOREM ArenaTyped == ArenaSpec => []ArenaTypeOK
BY ArenaInvariant, PTL

(***************************************************************************)
(* Handles are issued once and denote one thing while they live.           *)
(***************************************************************************)

\* A released handle value is never issued again.
THEOREM NeverReused == ArenaSpec => HandlesNeverReused
<1> DEFINE Gone == \A h \in 1 .. next_handle - 1 :
                     h \notin LiveHandles => h \notin LiveHandles'
<1>1. ASSUME ArenaInv, [ArenaNext]_arenaVars PROVE [Gone]_arenaVars
  <2>1. CASE next_handle \in Nat /\ LiveHandles' \subseteq LiveHandles \cup {next_handle}
    BY <2>1
  <2>2. CASE UNCHANGED arenaVars
    BY <2>2
  <2>3. next_handle \in Nat
    BY <1>1, MaxHandleAssumption DEF ArenaInv, ArenaTypeOK
  <2>4. \A e \in Envelopes, req \in Requests :
          Materialized(e, req) => LiveHandles' \subseteq LiveHandles \cup {next_handle}
    BY DEF Materialized, LiveHandles, DataHandles, ViewHandles
  <2>5. \A d \in DataHandles, view \in Views :
          ViewMade(d, view) => LiveHandles' \subseteq LiveHandles \cup {next_handle}
    BY DEF ViewMade, LiveHandles, DataHandles, ViewHandles
  <2>6. \A v \in ViewHandles : ViewReleased(v) => LiveHandles' \subseteq LiveHandles
    BY DEF ViewReleased, LiveHandles, DataHandles, ViewHandles
  <2>7. \A d \in DataHandles : DataReleased(d) => LiveHandles' \subseteq LiveHandles
    BY DEF DataReleased, LiveHandles, DataHandles, ViewHandles
  <2> QED BY <1>1, <2>1, <2>2, <2>3, <2>4, <2>5, <2>6, <2>7, StepEffect
<1>2. ArenaSpec => []ArenaInv
  BY ArenaInvariant DEF ArenaInv
<1> QED BY <1>1, <1>2, PTL DEF ArenaSpec, HandlesNeverReused

\* No call changes what another live handle denotes.
THEOREM Immutable == ArenaSpec => LiveHandlesImmutable
<1> DEFINE Same ==
      /\ \A d \in DataHandles \cap DataHandles' :
           /\ records'[d] = records[d]
           /\ d \in DOMAIN data_relations <=> d \in DOMAIN data_relations'
           /\ d \in DOMAIN data_relations =>
                data_relations'[d] = data_relations[d]
      /\ \A v \in ViewHandles \cap ViewHandles' :
           /\ view_records'[v] = view_records[v]
           /\ view_relations'[v] = view_relations[v]
<1>1. ASSUME ArenaInv, [ArenaNext]_arenaVars PROVE [Same]_arenaVars
  <2>1. ASSUME NEW e \in Envelopes, NEW req \in Requests, Materialized(e, req)
        PROVE  Same
    <3>1. next_handle \notin DataHandles
      BY <1>1, NextIsFree DEF LiveHandles
    <3> QED BY <2>1, <3>1 DEF Materialized, DataHandles, ViewHandles
  <2>2. ASSUME NEW d \in DataHandles, NEW view \in Views, ViewMade(d, view)
        PROVE  Same
    BY <2>2 DEF ViewMade, DataHandles, ViewHandles
  <2>3. ASSUME NEW v \in ViewHandles, ViewReleased(v) PROVE Same
    BY <2>3 DEF ViewReleased, DataHandles, ViewHandles
  <2>4. ASSUME NEW d \in DataHandles, DataReleased(d) PROVE Same
    BY <2>4 DEF DataReleased, DataHandles, ViewHandles
  <2> HIDE DEF Same
  <2> QED BY <1>1, <2>1, <2>2, <2>3, <2>4, StepEffect
<1>2. ArenaSpec => []ArenaInv
  BY ArenaInvariant DEF ArenaInv
<1> QED BY <1>1, <1>2, PTL DEF ArenaSpec, LiveHandlesImmutable

(***************************************************************************)
(* Every view stays within its own scope and its parent's.                 *)
(***************************************************************************)

\* The rows of a data handle come from its requested sources; a view's rows
\* satisfy the view, whose labels its parent's phase allows.  The first part
\* is what carries a view's rows, which are its parent's, into that scope.
ScopeInv ==
  /\ \A d \in DOMAIN data_relations :
       records[d].request.sources # {} =>
         \A r \in data_relations[d] : r.source \in records[d].request.sources
  /\ \A v \in ViewHandles :
       /\ \A r \in view_relations[v] : ViewSelects(view_records[v].view, r)
       /\ LabelsResolvable(view_records[v].view,
                           records[view_records[v].parent].request.phase)

\* ScopeInv is what ViewsWithinScopes needs of the parents.
LEMMA ScopeInvSuffices == ArenaInv /\ ScopeInv => ViewsWithinScopes
<1> SUFFICES ASSUME ArenaInv, ScopeInv, NEW v \in ViewHandles
             PROVE  LET view == view_records[v].view
                        req  == records[view_records[v].parent].request
                        srcs == {r.source : r \in view_relations[v]}
                    IN  /\ req.sources # {} => srcs \subseteq req.sources
                        /\ view.sources # None => srcs \subseteq view.sources
                        /\ view.samples = None /\ view.partition = "predict" =>
                             req.phase = "predict"
  BY DEF ViewsWithinScopes
<1> DEFINE view == view_records[v].view
           p == view_records[v].parent
<1>1. p \in DOMAIN data_relations /\ view_relations[v] \subseteq data_relations[p]
  BY DEF ArenaInv, ArenaConsistent, ParentsLive, ViewsWithinParents
<1>2. records[p].request.sources # {} =>
        \A r \in view_relations[v] : r.source \in records[p].request.sources
  BY <1>1 DEF ScopeInv
<1>3. view.sources # None =>
        \A r \in view_relations[v] : r.source \in view.sources
  BY DEF ScopeInv, ViewSelects
<1>4. view.samples = None /\ view.partition = "predict" =>
        records[p].request.phase = "predict"
  BY DEF ScopeInv, LabelsResolvable
<1> QED BY <1>2, <1>3, <1>4

\* An arena starts with no view.
LEMMA ScopeInit == ArenaInit => ScopeInv
BY DEF ArenaInit, ScopeInv, ViewHandles

\* Every step keeps views and handles inside their scopes.
LEMMA ScopeStep == ArenaInv /\ ScopeInv /\ [ArenaNext]_arenaVars => ScopeInv'
<1> SUFFICES ASSUME ArenaInv, ScopeInv, [ArenaNext]_arenaVars PROVE ScopeInv'
  OBVIOUS
<1> DEFINE Within(d) ==
             records[d].request.sources # {} =>
               \A r \in data_relations[d] :
                 r.source \in records[d].request.sources
           Selected(v) ==
             /\ \A r \in view_relations[v] :
                  ViewSelects(view_records[v].view, r)
             /\ LabelsResolvable(view_records[v].view,
                   records[view_records[v].parent].request.phase)
<1>1. /\ \A d \in DOMAIN data_relations : Within(d)
      /\ \A v \in ViewHandles : Selected(v)
  BY DEF ScopeInv
<1>2. /\ DOMAIN data_relations \subseteq DataHandles
      /\ \A v \in ViewHandles : view_records[v].parent \in DataHandles
      /\ \A v \in ViewHandles :
           view_records[v].parent \in DOMAIN data_relations
  BY DEF ArenaInv, ArenaConsistent, MapsInLockStep, ParentsLive
<1>3. next_handle \notin DataHandles /\ next_handle \notin ViewHandles
  BY NextIsFree DEF LiveHandles
<1>4. ASSUME NEW e \in Envelopes, NEW req \in Requests, Materialized(e, req)
      PROVE  ScopeInv'
  <2>1. \A d \in DOMAIN data_relations : Within(d)'
    BY <1>1, <1>2, <1>4 DEF Materialized
  <2>2. \A d \in {next_handle} : d \in DOMAIN data_relations' => Within(d)'
    BY <1>2, <1>3, <1>4 DEF Materialized, ScopeToSources
  <2>3. \A v \in ViewHandles' : Selected(v)'
    BY <1>1, <1>2, <1>4 DEF Materialized, ViewHandles
  <2>4. DOMAIN data_relations' \subseteq DOMAIN data_relations \cup {next_handle}
    BY <1>4 DEF Materialized
  <2> QED BY <2>1, <2>2, <2>3, <2>4 DEF ScopeInv
<1>5. ASSUME NEW d \in DataHandles, NEW view \in Views, ViewMade(d, view)
      PROVE  ScopeInv'
  <2>1. \A x \in DOMAIN data_relations' : Within(x)'
    BY <1>1, <1>5 DEF ViewMade
  <2>2. \A v \in ViewHandles : Selected(v)'
    BY <1>1, <1>5 DEF ViewMade
  <2>3. \A v \in {next_handle} : Selected(v)'
    <3>1. \A r \in view_relations'[next_handle] : ViewSelects(view, r)
      BY <1>5 DEF ViewMade, FilterRelations
    <3> QED BY <1>5, <3>1 DEF ViewMade
  <2> QED BY <1>5, <2>1, <2>2, <2>3 DEF ViewMade, ScopeInv, ViewHandles
<1>6. ASSUME NEW v \in ViewHandles, ViewReleased(v) PROVE ScopeInv'
  BY <1>1, <1>6 DEF ViewReleased, ScopeInv, ViewHandles
<1>7. ASSUME NEW d \in DataHandles, DataReleased(d) PROVE ScopeInv'
  <2>1. \A x \in DOMAIN data_relations' : Within(x)'
    BY <1>1, <1>2, <1>7 DEF DataReleased
  <2>2. \A v \in ViewHandles' : v \in ViewHandles /\ view_records[v].parent # d
    BY <1>7 DEF DataReleased, ViewHandles, ViewsOf
  <2>3. \A v \in ViewHandles' : Selected(v)'
    BY <1>1, <1>2, <1>7, <2>2 DEF DataReleased, ViewHandles
  <2> QED BY <2>1, <2>3 DEF ScopeInv
<1>8. CASE UNCHANGED arenaVars
  BY <1>8 DEF arenaVars, ScopeInv, ViewHandles
<1> QED BY <1>4, <1>5, <1>6, <1>7, <1>8, StepEffect

\* No sequence of calls gives a view a row from outside its own source scope
\* or its parent's, and PREDICT views exist on predict handles only.
THEOREM ScopesHold == ArenaSpec => []ViewsWithinScopes
<1>1. ArenaSpec => []ArenaInv
  BY ArenaInvariant DEF ArenaInv
<1>2. ArenaSpec => []ScopeInv
  BY <1>1, ScopeInit, ScopeStep, PTL DEF ArenaSpec
<1> QED BY <1>1, <1>2, ScopeInvSuffices, PTL

(***************************************************************************)
(* The arena implements the abstract handle registry.                      *)
(***************************************************************************)

\* The rows of every data handle come from an envelope.
RowsKnown ==
  \A d \in DOMAIN data_relations : data_relations[d] \subseteq EnvelopeRows

\* A request that is allowed to read relations reads those of the envelope.
LEMMA AuthorityKnown ==
  ASSUME NEW e \in Envelopes, NEW req, CohortReadAllowed(e, req),
         MaterializationRelations(e, req) # None
  PROVE  MaterializationRelations(e, req) \subseteq EnvelopeRows
<1>1. CASE ReadsCohort(e, req)
  <2>1. e.cohort # None
    BY <1>1 DEF ReadsCohort, CohortReadAllowed
  <2> QED BY <1>1, <2>1 DEF MaterializationRelations, EnvelopeRows
<1>2. CASE ~ReadsCohort(e, req)
  <2>1. e.cv # None
    BY <1>2 DEF MaterializationRelations
  <2> QED BY <1>2, <2>1 DEF MaterializationRelations, EnvelopeRows
<1> QED BY <1>1, <1>2

\* Every step keeps the rows of data handles inside the envelopes.
LEMMA RowsStep == ArenaInv /\ RowsKnown /\ [ArenaNext]_arenaVars => RowsKnown'
<1> SUFFICES ASSUME ArenaInv, RowsKnown, [ArenaNext]_arenaVars PROVE RowsKnown'
  OBVIOUS
<1>1. CASE \E e \in Envelopes, req \in Requests : materialize(e, req)
  <2>1. PICK e \in Envelopes, req \in Requests : materialize(e, req)
    BY <1>1
  <2>2. Materialized(e, req)
    BY <2>1, MaterializeEffect
  <2>3. CohortReadAllowed(e, req)
    BY <2>1 DEF materialize
  <2>4. MaterializationRelations(e, req) # None =>
          data_relations'[next_handle] \subseteq EnvelopeRows
    BY <2>2, <2>3, AuthorityKnown, ScopeNarrows DEF Materialized
  <2> QED BY <2>2, <2>4 DEF Materialized, RowsKnown
<1>2. CASE \E d \in DataHandles, view \in Views : make_view(d, view)
  BY <1>2 DEF make_view, RowsKnown
<1>3. CASE \E h \in LiveHandles : release_handle(h)
  BY <1>3 DEF release_handle, release_view, release_data, RemoveData, Without,
             RowsKnown
<1>4. CASE UNCHANGED arenaVars
  BY <1>4 DEF arenaVars, RowsKnown
<1> QED BY <1>1, <1>2, <1>3, <1>4 DEF ArenaNext

RefinementInv == ArenaInv /\ RowsKnown

\* What the refinement needs of every reachable state.
LEMMA RefinementInvariant == ArenaSpec => []RefinementInv
<1>1. ArenaSpec => []ArenaInv
  BY ArenaInvariant DEF ArenaInv
<1>2. ArenaInit => RowsKnown
  BY DEF ArenaInit, RowsKnown
<1>3. ArenaSpec => []RowsKnown
  BY <1>1, <1>2, RowsStep, PTL DEF ArenaSpec
<1> QED BY <1>1, <1>3, PTL DEF RefinementInv

(***************************************************************************)
(* The registry entry of each kind of handle.                              *)
(***************************************************************************)

\* The rows a data handle shows the registry.
RowsOf(d) == IF d \in DOMAIN data_relations THEN data_relations[d] ELSE None

\* The registry entry of a view and of a data handle.
LEMMA Entries ==
  ASSUME ArenaInv
  PROVE  /\ DOMAIN RegistryView = LiveHandles
         /\ \A v \in ViewHandles :
              RegistryView[v] = [parent |-> view_records[v].parent,
                                 rows |-> view_relations[v]]
         /\ \A d \in DataHandles :
              RegistryView[d] = [parent |-> None, rows |-> RowsOf(d)]
BY DEF RegistryView, RowsOf, LiveHandles, ArenaInv, ArenaConsistent,
       MapsInLockStep

\* The parent the registry sees.
LEMMA Parents ==
  ASSUME ArenaInv
  PROVE  /\ \A v \in ViewHandles :
              RegistryView[v].parent = view_records[v].parent
         /\ \A d \in DataHandles : RegistryView[d].parent = None
<1>1. ASSUME NEW v \in ViewHandles
      PROVE  RegistryView[v].parent = view_records[v].parent
  <2>1. RegistryView[v] = [parent |-> view_records[v].parent,
                           rows |-> view_relations[v]]
    BY Entries
  <2> QED BY <2>1
<1>2. ASSUME NEW d \in DataHandles PROVE RegistryView[d].parent = None
  <2>1. RegistryView[d] = [parent |-> None, rows |-> RowsOf(d)]
    BY Entries
  <2> QED BY <2>1
<1> QED BY <1>1, <1>2

\* The same entries in the next state, with the function they make.
LEMMA NextEntries ==
  ASSUME ArenaInv'
  PROVE  /\ RegistryView' = [h \in LiveHandles' |-> RegistryView'[h]]
         /\ \A v \in ViewHandles' :
              RegistryView'[v] = [parent |-> view_records'[v].parent,
                                  rows |-> view_relations'[v]]
         /\ \A d \in DataHandles' :
              RegistryView'[d] = [parent |-> None, rows |-> RowsOf(d)']
BY DEF RegistryView, RowsOf, LiveHandles, ArenaInv, ArenaConsistent,
       MapsInLockStep

(***************************************************************************)
(* Each operation is a step of the registry.                               *)
(***************************************************************************)

\* The counter, read as the set of issued handles, takes in one more.
LEMMA IssuedGrows ==
  ASSUME next_handle \in 1 .. MaxHandle, next_handle' = next_handle + 1
  PROVE  /\ next_handle \notin 1 .. next_handle - 1
         /\ 1 .. next_handle' - 1 = (1 .. next_handle - 1) \cup {next_handle}
BY MaxHandleAssumption

\* materialize opens a handle of the registry.
LEMMA OpenStep ==
  ASSUME RefinementInv, RefinementInv', NEW e \in Envelopes,
         NEW req \in Requests, Materialized(e, req), NEW h, h = next_handle
  PROVE  Registry!Next
<1> DEFINE rows == RowsOf(h)'
           entry == [parent |-> None, rows |-> rows]
<1> ArenaInv /\ ArenaInv' /\ RowsKnown'
  BY DEF RefinementInv
<1>1. h \in 1 .. MaxHandle /\ h \notin 1 .. next_handle - 1
  BY IssuedGrows DEF Materialized
<1>2. 1 .. next_handle' - 1 = (1 .. next_handle - 1) \cup {h}
  BY IssuedGrows DEF Materialized
<1>3. /\ DataHandles' = DataHandles \cup {h} /\ ViewHandles' = ViewHandles
      /\ LiveHandles' = LiveHandles \cup {h} /\ h \notin LiveHandles
  BY NextIsFree DEF Materialized, LiveHandles, DataHandles, ViewHandles
<1>4. rows \in (SUBSET EnvelopeRows) \cup {None}
  BY DEF RowsKnown, RowsOf
<1>5. \A x \in LiveHandles : RegistryView'[x] = RegistryView[x]
  <2>1. \A x \in DataHandles : RowsOf(x)' = RowsOf(x)
    BY <1>3 DEF RowsOf, Materialized, LiveHandles
  <2>2. \A x \in DataHandles : RegistryView'[x] = RegistryView[x]
    BY <2>1, <1>3, Entries, NextEntries
  <2>3. \A x \in ViewHandles : RegistryView'[x] = RegistryView[x]
    BY <1>3, Entries, NextEntries DEF Materialized
  <2> QED BY <2>2, <2>3 DEF LiveHandles
<1>6. RegistryView'[h] = entry
  BY <1>3, NextEntries
<1>7. RegistryView' = [x \in DOMAIN RegistryView \cup {h} |->
                        IF x = h THEN entry ELSE RegistryView[x]]
  <2> HIDE DEF entry
  <2> QED BY <1>3, <1>5, <1>6, Entries, NextEntries
<1>8. Registry!Bind(h, [parent |-> None, rows |-> rows])
  BY <1>7 DEF Registry!Bind
<1> HIDE DEF rows
<1>9. Registry!Open(h)
  BY <1>1, <1>2, <1>4, <1>8 DEF Registry!Open, Registry!Issue
<1> QED BY <1>1, <1>9 DEF Registry!Next

\* make_view derives a handle of the registry.
LEMMA DeriveStep ==
  ASSUME RefinementInv, RefinementInv', NEW d \in DataHandles,
         NEW view \in Views, ViewMade(d, view), NEW h, h = next_handle
  PROVE  Registry!Next
<1> DEFINE rows == view_relations'[h]
           entry == [parent |-> d, rows |-> rows]
<1> ArenaInv /\ ArenaInv' /\ RowsKnown
  BY DEF RefinementInv
<1>1. h \in 1 .. MaxHandle /\ h \notin 1 .. next_handle - 1
  BY IssuedGrows DEF ViewMade
<1>2. 1 .. next_handle' - 1 = (1 .. next_handle - 1) \cup {h}
  BY IssuedGrows DEF ViewMade
<1>3. /\ DataHandles' = DataHandles /\ ViewHandles' = ViewHandles \cup {h}
      /\ LiveHandles' = LiveHandles \cup {h} /\ h \notin LiveHandles
  BY NextIsFree DEF ViewMade, LiveHandles, DataHandles, ViewHandles
<1>4. d \in DOMAIN RegistryView /\ RegistryView[d].parent = None
  BY Entries DEF LiveHandles
<1>5. RegistryView[d].rows = data_relations[d]
  <2>1. RegistryView[d] = [parent |-> None, rows |-> RowsOf(d)]
    BY Entries
  <2>2. RowsOf(d) = data_relations[d]
    BY DEF RowsOf, ViewMade
  <2> QED BY <2>1, <2>2
<1>6. /\ data_relations[d] \in SUBSET EnvelopeRows
      /\ rows \subseteq data_relations[d] /\ rows # {}
  BY FilterNarrows DEF ViewMade, RowsKnown
<1>7. RegistryView[d].rows # None
  BY <1>5, <1>6, NoneAssumption
<1>8. \A x \in LiveHandles : RegistryView'[x] = RegistryView[x]
  <2>1. \A x \in DataHandles : RowsOf(x)' = RowsOf(x)
    BY DEF RowsOf, ViewMade
  <2>2. \A x \in DataHandles : RegistryView'[x] = RegistryView[x]
    BY <2>1, <1>3, Entries, NextEntries
  <2>3. \A x \in ViewHandles : RegistryView'[x] = RegistryView[x]
    <3> SUFFICES ASSUME NEW x \in ViewHandles
                 PROVE  RegistryView'[x] = RegistryView[x]
      OBVIOUS
    <3>1. RegistryView[x] = [parent |-> view_records[x].parent,
                             rows |-> view_relations[x]]
      BY Entries
    <3>2. RegistryView'[x] = [parent |-> view_records'[x].parent,
                              rows |-> view_relations'[x]]
      BY <1>3, NextEntries
    <3>3. /\ view_records'[x] = view_records[x]
          /\ view_relations'[x] = view_relations[x]
      BY DEF ViewMade
    <3> QED BY <3>1, <3>2, <3>3
  <2> QED BY <2>2, <2>3 DEF LiveHandles
<1>9. RegistryView'[h] = entry
  <2>1. RegistryView'[h] = [parent |-> view_records'[h].parent, rows |-> rows]
    BY <1>3, NextEntries
  <2>2. view_records'[h].parent = d
    BY DEF ViewMade
  <2> QED BY <2>1, <2>2
<1>10. RegistryView' = [x \in DOMAIN RegistryView \cup {h} |->
                         IF x = h THEN entry ELSE RegistryView[x]]
  <2> HIDE DEF entry
  <2> QED BY <1>3, <1>8, <1>9, Entries, NextEntries
<1>11. Registry!Bind(h, [parent |-> d, rows |-> rows])
  BY <1>10 DEF Registry!Bind
<1> HIDE DEF rows
<1>12. Registry!Derive(h, d)
  BY <1>1, <1>2, <1>4, <1>5, <1>6, <1>7, <1>11
  DEF Registry!Derive, Registry!Issue
<1> QED BY <1>1, <1>4, <1>12 DEF Registry!Next

\* What both releases come to: h and the views of h end.
LEMMA CloseStep ==
  ASSUME ArenaInv, ArenaInv', NEW h \in LiveHandles,
         next_handle' = next_handle,
         DataHandles' = DataHandles \ {h},
         ViewHandles' = (ViewHandles \ {h}) \ ViewsOf(h),
         \A x \in DataHandles' : RowsOf(x)' = RowsOf(x),
         \A v \in ViewHandles' : /\ view_records'[v] = view_records[v]
                                 /\ view_relations'[v] = view_relations[v]
  PROVE  Registry!Next
<1>1. h \in 1 .. MaxHandle
  BY MaxHandleAssumption DEF ArenaInv, ArenaTypeOK
<1>2. \A v \in ViewHandles : RegistryView[v].parent = h <=> v \in ViewsOf(h)
  BY Parents DEF ViewsOf
<1>3. \A x \in DataHandles : RegistryView[x].parent # h
  <2>1. None # h
    BY <1>1, MaxHandleAssumption, NoneAssumption
  <2> QED BY <2>1, Parents
<1>4. LiveHandles' = {y \in LiveHandles : y # h /\ RegistryView[y].parent # h}
  <2>1. DataHandles \cap ViewHandles = {}
    BY DEF ArenaInv, ArenaConsistent, MapsInLockStep
  <2>2. LiveHandles = DataHandles \cup ViewHandles
    BY DEF LiveHandles
  <2>3. LiveHandles' = DataHandles' \cup ViewHandles'
    BY DEF LiveHandles
  <2> QED BY <1>2, <1>3, <2>1, <2>2, <2>3
<1>5. \A x \in LiveHandles' : RegistryView'[x] = RegistryView[x]
  <2>1. \A x \in DataHandles' : RegistryView'[x] = RegistryView[x]
    <3> SUFFICES ASSUME NEW x \in DataHandles'
                 PROVE  RegistryView'[x] = RegistryView[x]
      OBVIOUS
    <3>1. x \in DataHandles
      OBVIOUS
    <3>2. RegistryView[x] = [parent |-> None, rows |-> RowsOf(x)]
      BY <3>1, Entries
    <3>3. RegistryView'[x] = [parent |-> None, rows |-> RowsOf(x)']
      BY NextEntries
    <3> QED BY <3>2, <3>3
  <2>2. \A x \in ViewHandles' : RegistryView'[x] = RegistryView[x]
    <3> SUFFICES ASSUME NEW x \in ViewHandles'
                 PROVE  RegistryView'[x] = RegistryView[x]
      OBVIOUS
    <3>1. RegistryView[x] = [parent |-> view_records[x].parent,
                             rows |-> view_relations[x]]
      BY Entries
    <3>2. RegistryView'[x] = [parent |-> view_records'[x].parent,
                              rows |-> view_relations'[x]]
      BY NextEntries
    <3> QED BY <3>1, <3>2
  <2> QED BY <2>1, <2>2 DEF LiveHandles
<1>6. RegistryView' = [x \in {y \in DOMAIN RegistryView :
                                y # h /\ RegistryView[y].parent # h}
                         |-> RegistryView[x]]
  BY <1>4, <1>5, Entries, NextEntries
<1>7. h \in DOMAIN RegistryView
  BY Entries
<1>8. Registry!Close(h)
  BY <1>6, <1>7 DEF Registry!Close
<1> QED BY <1>1, <1>8 DEF Registry!Next

\* Releasing a view closes it in the registry.
LEMMA CloseViewStep ==
  ASSUME ArenaInv, ArenaInv', NEW v \in ViewHandles, ViewReleased(v)
  PROVE  Registry!Next
<1>1. ViewsOf(v) = {} /\ v \notin DataHandles
  BY DEF ViewsOf, ArenaInv, ArenaConsistent, MapsInLockStep, ParentsLive
<1>2. /\ next_handle' = next_handle /\ DataHandles' = DataHandles \ {v}
      /\ ViewHandles' = (ViewHandles \ {v}) \ ViewsOf(v)
      /\ \A x \in DataHandles' : RowsOf(x)' = RowsOf(x)
      /\ \A w \in ViewHandles' : /\ view_records'[w] = view_records[w]
                                 /\ view_relations'[w] = view_relations[w]
  BY <1>1 DEF ViewReleased, DataHandles, ViewHandles, RowsOf
<1>3. v \in LiveHandles
  BY DEF LiveHandles
<1> QED BY <1>2, <1>3, CloseStep

\* Releasing a data handle closes it and its views in the registry.
LEMMA CloseDataStep ==
  ASSUME ArenaInv, ArenaInv', NEW d \in DataHandles, DataReleased(d)
  PROVE  Registry!Next
<1>1. d \notin ViewHandles
  BY DEF ArenaInv, ArenaConsistent, MapsInLockStep
<1>2. /\ next_handle' = next_handle /\ DataHandles' = DataHandles \ {d}
      /\ ViewHandles' = (ViewHandles \ {d}) \ ViewsOf(d)
      /\ \A x \in DataHandles' : RowsOf(x)' = RowsOf(x)
      /\ \A w \in ViewHandles' : /\ view_records'[w] = view_records[w]
                                 /\ view_relations'[w] = view_relations[w]
  BY <1>1 DEF DataReleased, DataHandles, ViewHandles, RowsOf
<1>3. d \in LiveHandles
  BY DEF LiveHandles
<1> QED BY <1>2, <1>3, CloseStep

\* Every step of the arena is a step of the registry or a stutter.
LEMMA StepRefines ==
  RefinementInv /\ RefinementInv' /\ [ArenaNext]_arenaVars
    => [Registry!Next]_Registry!registryVars
<1> SUFFICES ASSUME RefinementInv, RefinementInv', [ArenaNext]_arenaVars
             PROVE  [Registry!Next]_Registry!registryVars
  OBVIOUS
<1> ArenaInv /\ ArenaInv'
  BY DEF RefinementInv
<1>1. CASE UNCHANGED arenaVars
  <2>1. RegistryView' = RegistryView /\ next_handle' = next_handle
    BY <1>1 DEF arenaVars, RegistryView, LiveHandles, DataHandles, ViewHandles
  <2> QED BY <2>1 DEF Registry!registryVars
<1> QED BY <1>1, StepEffect, OpenStep, DeriveStep, CloseViewStep, CloseDataStep

\* Every behaviour of the arena is one of the registry: a handle is bound
\* once, to rows that never change, a view to a non-empty part of its
\* parent's, and a release ends a handle with its views and nothing else.
THEOREM ArenaRefinesRegistry == ArenaSpec => RefinesRegistry
<1>1. ArenaInit => Registry!Init
  BY DEF ArenaInit, Registry!Init, RegistryView, LiveHandles, DataHandles,
         ViewHandles
<1>2. ArenaSpec => []RefinementInv
  BY RefinementInvariant
<1> QED BY <1>1, <1>2, StepRefines, PTL
        DEF ArenaSpec, RefinesRegistry, Registry!Spec
=============================================================================
