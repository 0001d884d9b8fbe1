------------------------------ MODULE Provider ------------------------------
(***************************************************************************)
(* InMemoryProvider (dag-ml-data-provider): one immutable envelope, one    *)
(* handle arena and two binding arenas behind one mutex, called from many  *)
(* threads.                                                                *)
(*                                                                         *)
(* A call that changes several arenas is a chain of actions of its thread, *)
(* from the one that takes the lock to the one that drops it.  A call that *)
(* reads or changes one arena under one lock is one action, and a call     *)
(* that returns an error without having changed anything is a stutter.     *)
(* feature_fusion_block takes the lock once for every source of its        *)
(* selector, and is a chain of actions with the lock free in between.      *)
(***************************************************************************)
EXTENDS HandleArena, Buffers, Sequences

CONSTANTS
  Threads,        \* host threads calling the provider
  FeatureStore,   \* feature buffers
  TensorStore,    \* N-D tensors
  Selectors       \* fusion selectors: sequences of [source, feature]

ASSUME ThreadsAssumption == Threads \cap {"free", "poisoned"} = {}

VARIABLES
  envelope,     \* the envelope the provider was built with
  features,     \* data handle -> feature bindings
  nd_tensors,   \* data handle -> tensor bindings
  lock,         \* "free", "poisoned", or the thread that holds the mutex
  call          \* thread -> the call it is in

providerVars == <<envelope, features, nd_tensors, lock, call>>
vars == <<arenaVars, providerVars>>

\* A call in progress: op is its next step, handle the data handle it binds
\* or releases or the view it fuses, todo the sources left to read, blocks
\* the blocks read so far with the identity rows each was projected over.
Idle == [op |-> "idle", handle |-> None, todo |-> << >>, blocks |-> << >>]
At(op, h) == [op |-> op, handle |-> h, todo |-> << >>, blocks |-> << >>]
Fusing(v, todo, blocks) ==
  [op |-> "fuse", handle |-> v, todo |-> todo, blocks |-> blocks]

Steps == {"bind_features", "bind_tensors", "release_features",
          "release_tensors"}

\* new_with_tensors: the envelope is validated once.
Init ==
  /\ ArenaInit
  /\ envelope \in {e \in Envelopes : ValidEnvelope(e)}
  /\ features = << >>
  /\ nd_tensors = << >>
  /\ lock = "free"
  /\ call = [t \in Threads |-> Idle]

\* A poisoned mutex is an error to every caller.
lock_arenas == lock = "free"

\* The thread keeps the guard and goes to step op, or drops it and returns.
Hold(t, op, h) == lock' = t /\ call' = [call EXCEPT ![t] = At(op, h)]
Return(t)      == lock' = "free" /\ call' = [call EXCEPT ![t] = Idle]

(***************************************************************************)
(* materialize: take a handle, bind features, bind tensors, return.        *)
(***************************************************************************)

\* Slip: the lock is dropped between the handle and its bindings.
begin_materialize_unlocked(t, req) ==
  /\ call[t] = Idle
  /\ lock_arenas
  /\ materialize(envelope, req)
  /\ lock' = "free"
  /\ call' = [call EXCEPT ![t] =
                IF next_handle \in DOMAIN data_relations'
                THEN At("bind_features", next_handle) ELSE Idle]
  /\ UNCHANGED <<envelope, features, nd_tensors>>

begin_materialize(t, req) ==
  /\ call[t] = Idle
  /\ lock_arenas
  /\ materialize(envelope, req)
  /\ IF next_handle \in DOMAIN data_relations'
     THEN Hold(t, "bind_features", next_handle)
     ELSE UNCHANGED <<lock, call>>
  /\ UNCHANGED <<envelope, features, nd_tensors>>

\* An arena that refuses the relations ends the call with an error; what was
\* done before stays.
bind_features(t) ==
  LET h == call[t].handle IN
  /\ call[t].op = "bind_features"
  /\ IF ValidRelationSet(data_relations[h])
     THEN /\ features' = With(features, h,
               BindingsFor(FeatureStore, data_relations[h],
                           records[h].request.output))
          /\ Hold(t, "bind_tensors", h)
     ELSE Return(t) /\ UNCHANGED features
  /\ UNCHANGED <<arenaVars, envelope, nd_tensors>>

bind_tensors(t) ==
  LET h == call[t].handle IN
  /\ call[t].op = "bind_tensors"
  /\ Return(t)
  /\ IF ValidRelationSet(data_relations[h])
     THEN nd_tensors' = With(nd_tensors, h,
               BindingsFor(TensorStore, data_relations[h],
                           records[h].request.output))
     ELSE UNCHANGED nd_tensors
  /\ UNCHANGED <<arenaVars, envelope, features>>

(***************************************************************************)
(* release: of any handle value, live or not, from all three arenas.       *)
(***************************************************************************)

begin_release(t, h) ==
  /\ call[t] = Idle
  /\ lock_arenas
  /\ IF h \in LiveHandles THEN release_handle(h) ELSE UNCHANGED arenaVars
  /\ Hold(t, "release_features", h)
  /\ UNCHANGED <<envelope, features, nd_tensors>>

release_features(t) ==
  /\ call[t].op = "release_features"
  /\ features' = Without(features, {call[t].handle})
  /\ Hold(t, "release_tensors", call[t].handle)
  /\ UNCHANGED <<arenaVars, envelope, nd_tensors>>

release_tensors(t) ==
  /\ call[t].op = "release_tensors"
  /\ nd_tensors' = Without(nd_tensors, {call[t].handle})
  /\ Return(t)
  /\ UNCHANGED <<arenaVars, envelope, features>>

(***************************************************************************)
(* make_view: one lock, one arena.                                         *)
(***************************************************************************)

provider_make_view(t, d, view) ==
  /\ call[t] = Idle
  /\ lock_arenas
  /\ make_view(d, view)
  /\ UNCHANGED providerVars

(***************************************************************************)
(* feature_fusion_block: feature_block_filtered for each source in turn,   *)
(* every time under a lock of its own, then the pure fusion.               *)
(***************************************************************************)

\* Slip: the guard is taken for the whole call, and again for each source.
begin_fusion_locked(t, v, selector) ==
  /\ call[t] = Idle
  /\ selector # << >>
  /\ lock_arenas
  /\ lock' = t
  /\ call' = [call EXCEPT ![t] = Fusing(v, selector, << >>)]
  /\ UNCHANGED <<arenaVars, envelope, features, nd_tensors>>

begin_fusion(t, v, selector) ==
  /\ call[t] = Idle
  /\ selector # << >>
  /\ call' = [call EXCEPT ![t] = Fusing(v, selector, << >>)]
  /\ UNCHANGED <<arenaVars, envelope, features, nd_tensors, lock>>

\* What feature_block_filtered requires of view handle v.
FeatureBlockReadable(v, item) ==
  /\ v \in ViewHandles
  /\ view_records[v].parent \in DataHandles
  /\ view_records[v].parent \in DOMAIN features
  /\ LET rels == view_relations[v]
         bound == features[view_records[v].parent]
     IN /\ BoundSources(bound, item.feature, rels, item.source)
        /\ RowsStored(FeatureStore[item.feature], rels, item.source)

fuse_source(t) ==
  LET v == call[t].handle
      item == Head(call[t].todo)
  IN
  /\ call[t].op = "fuse"
  /\ call[t].todo # << >>
  /\ lock_arenas
  /\ call' = [call EXCEPT ![t] =
       IF FeatureBlockReadable(v, item)
       THEN Fusing(v, Tail(@.todo), Append(@.blocks,
              [source |-> item.source, from |-> view_relations[v]]))
       ELSE Idle]
  /\ UNCHANGED <<arenaVars, envelope, features, nd_tensors, lock>>

end_fusion(t) ==
  /\ call[t].op = "fuse"
  /\ call[t].todo = << >>
  /\ call' = [call EXCEPT ![t] = Idle]
  /\ UNCHANGED <<arenaVars, envelope, features, nd_tensors, lock>>

(***************************************************************************)
(* A poisoned mutex: the holder panics, and every later lock_arenas is an  *)
(* error (release returns false).                                          *)
(***************************************************************************)

panic(t) ==
  /\ lock = t
  /\ lock' = "poisoned"
  /\ call' = [call EXCEPT ![t] = At("panicked", @.handle)]
  /\ UNCHANGED <<arenaVars, envelope, features, nd_tensors>>

poisoned_call(t) ==
  /\ lock = "poisoned"
  /\ call[t].op = "fuse" /\ call[t].todo # << >>
  /\ call' = [call EXCEPT ![t] = Idle]
  /\ UNCHANGED <<arenaVars, envelope, features, nd_tensors, lock>>

\* The steps a thread inside a call takes by itself.
Continue(t) ==
  \/ bind_features(t) \/ bind_tensors(t)
  \/ release_features(t) \/ release_tensors(t)
  \/ fuse_source(t) \/ end_fusion(t) \/ poisoned_call(t)

Next ==
  \E t \in Threads :
    \/ \E req \in Requests : begin_materialize(t, req)
    \/ \E d \in DataHandles, view \in Views : provider_make_view(t, d, view)
    \/ \E h \in 1 .. MaxHandle : begin_release(t, h)
    \/ \E v \in 1 .. MaxHandle, selector \in Selectors :
         begin_fusion(t, v, selector)
    \/ Continue(t)
    \/ panic(t)

\* A running thread keeps running; nobody is promised the lock.
Fairness == \A t \in Threads : WF_vars(Continue(t))

Spec == Init /\ [][Next]_vars
FairSpec == Spec /\ Fairness
-----------------------------------------------------------------------------
(***************************************************************************)
(* Invariants.                                                             *)
(***************************************************************************)

TypeOK ==
  /\ ArenaTypeOK
  /\ envelope \in Envelopes
  /\ lock \in {"free", "poisoned"} \cup Threads
  /\ \A t \in Threads :
       /\ call[t].op \in Steps \cup {"idle", "fuse", "panicked"}
       /\ call[t].op \in Steps <=> lock = t
  /\ \A d \in DOMAIN features : DOMAIN features[d] \subseteq DOMAIN FeatureStore
  /\ \A d \in DOMAIN nd_tensors :
       DOMAIN nd_tensors[d] \subseteq DOMAIN TensorStore

\* The comment on InMemoryProvider::arenas: whoever takes the lock finds the
\* three arenas in step.  No live data handle with relations is without its
\* bindings (also after a materialize that failed half-way), and no binding
\* outlives its handle.
ArenasInStep ==
  lock_arenas => DOMAIN features = DOMAIN data_relations
                 /\ DOMAIN nd_tensors = DOMAIN data_relations

\* A binding is made once, over the rows of the data handle, and trusted for
\* every view taken later: if a buffer is bound to the sources a view shows,
\* no read of that buffer over the view can miss a row.  (Rows without a
\* source are outside the promise when other rows of the handle have one.)
BindingsCoverViews ==
  \A v \in ViewHandles :
    LET d == view_records[v].parent
        rels == view_relations[v]
        Covers(store, bound) ==
          d \in DOMAIN bound =>
            \A b \in DOMAIN bound[d], src \in SourceIds(rels) \cup {None} :
              BoundSources(bound[d], b, rels, src) =>
                RowsStored(store[b], rels, src)
    IN (\A r \in rels : r.source # None)
         \/ SourceIds(data_relations[d]) = {} =>
       Covers(FeatureStore, features) /\ Covers(TensorStore, nd_tensors)

\* Handles that feed fitting, and handles over the external-test cohort.
FitHandles ==
  {d \in DOMAIN data_relations : /\ records[d].request.cohort = None
                                 /\ ~Prediction(records[d].request)}
TestHandles ==
  {d \in DOMAIN data_relations :
     /\ envelope.cohort # None /\ envelope.cohort.role = "external_test"
     /\ ReadsCohort(envelope, records[d].request)}

\* A physical sample, or the origin of an augmented one.
Identities(rels) == PhysicalIds(rels) \cup OriginIds(rels)

\* Whatever the host asks for, no sample reaches both a fitting handle and an
\* external-test handle of one provider, by itself or through an origin.
TrainTestSeparation ==
  \A d \in FitHandles, e \in TestHandles :
    Identities(data_relations[d]) \cap Identities(data_relations[e]) = {}

\* The view a fusion reads may be released between two of its sources, but
\* the blocks of one fused matrix are all of the same view.
FusionReadsOneView ==
  \A t \in Threads :
    \A i, j \in DOMAIN call[t].blocks :
      call[t].blocks[i].from = call[t].blocks[j].from

(***************************************************************************)
(* Liveness: no call keeps the lock.  (Panic gives it up too.)             *)
(***************************************************************************)

LockGivenBack == \A t \in Threads : lock = t ~> lock # t

(***************************************************************************)
(* Seen from outside the lock the provider is the same registry as the     *)
(* arena: a handle appears with its bindings, in one step.                 *)
(***************************************************************************)

\* Handles of a materialize that has not returned, or never will.
Unpublished ==
  {call[t].handle : t \in
     {u \in Threads : \/ call[u].op \in {"bind_features", "bind_tensors"}
                      \/ /\ call[u].op = "panicked"
                         /\ call[u].handle \in DataHandles}}

Published == INSTANCE HandleRegistry WITH
               Handle <- 1 .. MaxHandle,
               Row    <- EnvelopeRows,
               live   <- [h \in LiveHandles \ Unpublished |-> RegistryView[h]],
               issued <- (1 .. next_handle - 1) \ Unpublished

PublishesAtomically == Published!Spec
=============================================================================
