---------------------------- MODULE HandleArena ----------------------------
(***************************************************************************)
(* CoordinatorHandleArena (handle.rs): the registry that turns a validated *)
(* materialization request into an opaque data handle, a DataView into a   *)
(* view handle over it, and takes both back.                               *)
(*                                                                         *)
(* A call that returns an error changes nothing, so it is a stuttering     *)
(* step: the guards below are the code's checks in their conjunction.      *)
(***************************************************************************)
EXTENDS Envelope

CONSTANTS
  Envelopes,   \* envelopes the owner may pass
  Requests,    \* materialization requests the host may send
  Views,       \* data views the host may send
  MaxHandle    \* bound on the u64 handle counter

ASSUME MaxHandleAssumption == MaxHandle \in Nat

VARIABLES
  next_handle,     \* the counter shared by data and view handles
  records,         \* data handle -> [request, plan]; the code copies every
                   \* field of the request but predict_cohort, which stays
                   \* here as history for Provider's TrainTestSeparation
  data_relations,  \* data handle -> relations, when it has any
  view_records,    \* view handle -> [parent, view]
  view_relations   \* view handle -> filtered relations

arenaVars ==
  <<next_handle, records, data_relations, view_records, view_relations>>

\* Map updates: insert and remove.
With(f, k, v) == [x \in DOMAIN f \cup {k} |-> IF x = k THEN v ELSE f[x]]
Without(f, K) == [x \in DOMAIN f \ K |-> f[x]]

DataHandles == DOMAIN records
ViewHandles == DOMAIN view_records
LiveHandles == DataHandles \cup ViewHandles
ViewsOf(d)  == {v \in ViewHandles : view_records[v].parent = d}

ArenaInit ==
  /\ next_handle = 1
  /\ records = << >>
  /\ data_relations = << >>
  /\ view_records = << >>
  /\ view_relations = << >>

materialize(e, req) ==
  LET authority == MaterializationRelations(e, req)
      h == next_handle
  IN
  /\ h <= MaxHandle
  /\ ValidEnvelope(e)
  /\ ValidRequest(req)
  /\ RequestMatches(e, req)
  /\ CohortReadAllowed(e, req)
  /\ authority # None => ScopeAccepted(authority, req.sources)
  /\ next_handle' = h + 1
  /\ records' = With(records, h, [request |-> req, plan |-> e.plan.id])
  /\ data_relations' =
       IF authority = None THEN data_relations
       ELSE With(data_relations, h, ScopeToSources(authority, req.sources))
  /\ UNCHANGED <<view_records, view_relations>>

Filtered(d, view) ==
  FilterRelations(data_relations[d], view, records[d].request.fold)

\* Slip: an empty selection is a view as well.
ViewAccepted_empty(d, view) ==
  /\ ValidView(view)
  /\ d \in DOMAIN records
  /\ d \in DOMAIN data_relations
  /\ LabelsResolvable(view, records[d].request.phase)

\* The checks of make_view, in the order of the code.
ViewAccepted(d, view) ==
  /\ ValidView(view)
  /\ d \in DOMAIN records
  /\ d \in DOMAIN data_relations
  /\ LabelsResolvable(view, records[d].request.phase)
  /\ Filtered(d, view) # {}

AddView(h, d, view) ==
  /\ view_records' = With(view_records, h, [parent |-> d, view |-> view])
  /\ view_relations' = With(view_relations, h, Filtered(d, view))

\* Slips: the parent's rows are narrowed along with the view's; the counter
\* is read but not advanced; the lowest value not live is taken instead.
make_view_in_place(d, view) ==
  /\ next_handle <= MaxHandle
  /\ ViewAccepted(d, view)
  /\ next_handle' = next_handle + 1
  /\ AddView(next_handle, d, view)
  /\ data_relations' = With(data_relations, d, Filtered(d, view))
  /\ UNCHANGED records

make_view_without_advance(d, view) ==
  /\ next_handle <= MaxHandle
  /\ ViewAccepted(d, view)
  /\ AddView(next_handle, d, view)
  /\ UNCHANGED <<next_handle, records, data_relations>>

make_view_lowest_free(d, view) ==
  LET free == (1 .. next_handle) \ LiveHandles
      h    == CHOOSE k \in free : \A other \in free : k <= other
  IN
  /\ next_handle <= MaxHandle
  /\ ViewAccepted(d, view)
  /\ next_handle' = IF h = next_handle THEN h + 1 ELSE next_handle
  /\ AddView(h, d, view)
  /\ UNCHANGED <<records, data_relations>>

make_view(d, view) ==
  /\ next_handle <= MaxHandle
  /\ ViewAccepted(d, view)
  /\ next_handle' = next_handle + 1
  /\ AddView(next_handle, d, view)
  /\ UNCHANGED <<records, data_relations>>

\* Slip: the value of the last view is given back to the counter.
release_view_recycling(v) ==
  /\ v \in DOMAIN view_records
  /\ view_records' = Without(view_records, {v})
  /\ view_relations' = Without(view_relations, {v})
  /\ next_handle' = IF v = next_handle - 1 THEN v ELSE next_handle
  /\ UNCHANGED <<records, data_relations>>

release_view(v) ==
  /\ v \in DOMAIN view_records
  /\ view_records' = Without(view_records, {v})
  /\ view_relations' = Without(view_relations, {v})
  /\ UNCHANGED <<next_handle, records, data_relations>>

RemoveData(d) ==
  /\ d \notin DOMAIN view_records
  /\ d \in DOMAIN records
  /\ records' = Without(records, {d})
  /\ data_relations' = Without(data_relations, {d})

\* Slips: the child views stay; only their records go.
release_data_without_cascade(d) ==
  /\ RemoveData(d)
  /\ UNCHANGED <<next_handle, view_records, view_relations>>

release_data_half_cascade(d) ==
  /\ RemoveData(d)
  /\ view_records' = Without(view_records, ViewsOf(d))
  /\ UNCHANGED <<next_handle, view_relations>>

\* A data handle takes its child views with it.
release_data(d) ==
  /\ RemoveData(d)
  /\ view_records' = Without(view_records, ViewsOf(d))
  /\ view_relations' = Without(view_relations, ViewsOf(d))
  /\ UNCHANGED next_handle

release_handle(h) == release_view(h) \/ release_data(h)

ArenaNext ==
  \/ \E e \in Envelopes, req \in Requests : materialize(e, req)
  \/ \E d \in DataHandles, view \in Views : make_view(d, view)
  \/ \E h \in LiveHandles : release_handle(h)

ArenaSpec == ArenaInit /\ [][ArenaNext]_arenaVars
-----------------------------------------------------------------------------
(***************************************************************************)
(* Invariants.  The first five parts make the inductive invariant of the   *)
(* arena.                                                                  *)
(***************************************************************************)

\* Every map is keyed by handles already taken from the counter, and holds
\* what a request or a view of the host put there.
ArenaTypeOK ==
  /\ next_handle \in 1 .. MaxHandle + 1
  /\ LiveHandles \subseteq 1 .. next_handle - 1
  /\ \A d \in DataHandles : records[d].request \in Requests
  /\ \A v \in ViewHandles : view_records[v].view \in Views

\* The maps stay in lock-step: a view has both its entries or neither, only
\* a live data handle has relations, and no handle is of both kinds.
MapsInLockStep ==
  /\ DOMAIN view_relations = ViewHandles
  /\ DOMAIN data_relations \subseteq DataHandles
  /\ DataHandles \cap ViewHandles = {}

\* No view outlives its data handle, and that handle has relations.
ParentsLive ==
  \A v \in ViewHandles : view_records[v].parent \in DOMAIN data_relations

\* A view shows a non-empty part of what was materialized.
ViewsWithinParents ==
  \A v \in ViewHandles :
    /\ view_relations[v] # {}
    /\ view_relations[v] \subseteq data_relations[view_records[v].parent]

\* What the five maps promise each other across any sequence of materialize,
\* make_view and release_handle calls: a view can always be served from its
\* parent, and release leaves no entry behind.
ArenaConsistent == MapsInLockStep /\ ParentsLive /\ ViewsWithinParents

\* A branch view never widens past the view's source scope, nor the view
\* past the sources requested when its parent was materialized; and a whole-
\* handle PREDICT view is only ever taken of a handle read for prediction.
ViewsWithinScopes ==
  \A v \in ViewHandles :
    LET view == view_records[v].view
        req  == records[view_records[v].parent].request
        srcs == {r.source : r \in view_relations[v]}
    IN
    /\ req.sources # {} => srcs \subseteq req.sources
    /\ view.sources # None => srcs \subseteq view.sources
    /\ view.samples = None /\ view.partition = "predict" =>
         req.phase = "predict"

\* What docs/ABI.md says of view_identity: a view the arena accepted can be
\* exported.  The Arrow view_identity and the projections of buffers and tensors
\* validate the view's relations again; make_view, the target exports and the
\* core's own view_identity do not.
AcceptedViewsExportable ==
  \A v \in ViewHandles : ValidRelationSet(view_relations[v])

(***************************************************************************)
(* Action properties.                                                      *)
(***************************************************************************)

\* A handle value that was taken and is not live never denotes anything
\* again, whatever is materialized after it was released.
HandlesNeverReused ==
  [][\A h \in 1 .. next_handle - 1 :
        h \notin LiveHandles => h \notin LiveHandles']_arenaVars

\* Between issue and release a handle denotes the same request, view and
\* rows: no call on another handle, or on a view of it, reaches them.
LiveHandlesImmutable ==
  [][/\ \A d \in DataHandles \cap DataHandles' :
          /\ records'[d] = records[d]
          /\ d \in DOMAIN data_relations <=> d \in DOMAIN data_relations'
          /\ d \in DOMAIN data_relations =>
               data_relations'[d] = data_relations[d]
     /\ \A v \in ViewHandles \cap ViewHandles' :
          /\ view_records'[v] = view_records[v]
          /\ view_relations'[v] = view_relations[v]]_arenaVars

(***************************************************************************)
(* The arena implements the abstract registry: a data handle's rows are    *)
(* its relations, a view's rows its filtered relations.                    *)
(***************************************************************************)

RegistryView ==
  [h \in LiveHandles |->
     IF h \in ViewHandles
     THEN [parent |-> view_records[h].parent, rows |-> view_relations[h]]
     ELSE [parent |-> None,
           rows   |-> IF h \in DOMAIN data_relations THEN data_relations[h]
                                                     ELSE None]]

\* Rows any envelope can put in a handle.
EnvelopeRows ==
  UNION {(IF e.cv = None THEN {} ELSE e.cv) \cup
         (IF e.cohort = None THEN {} ELSE e.cohort.relations) : e \in Envelopes}

\* An absent value is neither a handle nor a set of rows.
ASSUME NoneAssumption ==
  None \notin Nat /\ \A rels \in SUBSET EnvelopeRows : rels # None

Registry == INSTANCE HandleRegistry WITH
              Handle <- 1 .. MaxHandle,
              Row    <- EnvelopeRows,
              live   <- RegistryView,
              issued <- 1 .. next_handle - 1

RefinesRegistry == Registry!Spec
=============================================================================
