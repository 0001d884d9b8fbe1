--------------------------- MODULE ProviderProofs ---------------------------
(***************************************************************************)
(* Theorems of the in-memory provider, for every set of threads,           *)
(* envelopes, requests, views, buffers and selectors.                      *)
(***************************************************************************)
EXTENDS Provider, HandleArenaProofs, SequenceTheorems

(***************************************************************************)
(* Threads and the lock: a thread is in a step that changes the arenas     *)
(* exactly while it holds the mutex.                                       *)
(***************************************************************************)

ControlInv ==
  /\ envelope \in Envelopes /\ ValidEnvelope(envelope)
  /\ lock \in {"free", "poisoned"} \cup Threads
  /\ call = [t \in Threads |-> call[t]]
  /\ \A t \in Threads :
       /\ call[t] = [op |-> call[t].op, handle |-> call[t].handle,
                     todo |-> call[t].todo, blocks |-> call[t].blocks]
       /\ call[t].op \in Steps \cup {"idle", "fuse", "panicked"}
       /\ call[t].op \in Steps <=> lock = t

\* A thread's record is replaced, the others' stay.
LEMMA CallSet ==
  ASSUME ControlInv, NEW t \in Threads, NEW c, call' = [call EXCEPT ![t] = c]
  PROVE  /\ call'[t] = c
         /\ \A u \in Threads \ {t} : call'[u] = call[u]
         /\ call' = [u \in Threads |-> call'[u]]
BY DEF ControlInv

\* A thread that has the lock, or finds it free, keeps it for its next step.
LEMMA HoldControl ==
  ASSUME ControlInv, NEW t \in Threads, NEW op \in Steps, NEW h, Hold(t, op, h),
         lock \in {"free", t}, UNCHANGED envelope
  PROVE  /\ ControlInv' /\ lock' = t
         /\ call'[t].op = op /\ call'[t].handle = h /\ call'[t].blocks = << >>
         /\ \A u \in Threads \ {t} : call'[u] = call[u]
<1>1. /\ call'[t] = [op |-> op, handle |-> h, todo |-> << >>, blocks |-> << >>]
      /\ \A u \in Threads \ {t} : call'[u] = call[u]
      /\ call' = [u \in Threads |-> call'[u]]
  BY CallSet DEF Hold, At
<1>2. lock' = t BY DEF Hold
<1>3. \A u \in Threads : call'[u] = [op |-> call'[u].op, handle |-> call'[u].handle,
                                     todo |-> call'[u].todo, blocks |-> call'[u].blocks]
  BY <1>1 DEF ControlInv
<1>4. \A u \in Threads : /\ call'[u].op \in Steps \cup {"idle", "fuse", "panicked"}
                         /\ call'[u].op \in Steps <=> lock' = u
  BY <1>1, <1>2, ThreadsAssumption DEF ControlInv
<1> QED BY <1>1, <1>2, <1>3, <1>4 DEF ControlInv

\* The holder returns and the lock is free.
LEMMA ReturnControl ==
  ASSUME ControlInv, NEW t \in Threads, lock = t, Return(t), UNCHANGED envelope
  PROVE  /\ ControlInv' /\ lock' = "free" /\ call'[t] = Idle
         /\ \A u \in Threads \ {t} : call'[u] = call[u]
<1>1. /\ call'[t] = Idle
      /\ \A u \in Threads \ {t} : call'[u] = call[u]
      /\ call' = [u \in Threads |-> call'[u]]
  BY CallSet DEF Return
<1>2. lock' = "free" BY DEF Return
<1>3. \A u \in Threads : call'[u] = [op |-> call'[u].op, handle |-> call'[u].handle,
                                     todo |-> call'[u].todo, blocks |-> call'[u].blocks]
  BY <1>1 DEF ControlInv, Idle
<1>4. \A u \in Threads : /\ call'[u].op \in Steps \cup {"idle", "fuse", "panicked"}
                         /\ call'[u].op \in Steps <=> lock' = u
  <2>1. call'[t].op = "idle" BY <1>1 DEF Idle
  <2>2. \A u \in Threads \ {t} : call'[u].op \notin Steps BY <1>1 DEF ControlInv
  <2> QED BY <1>1, <1>2, <2>1, <2>2, ThreadsAssumption DEF ControlInv, Steps
<1> QED BY <1>1, <1>2, <1>3, <1>4 DEF ControlInv

(***************************************************************************)
(* A fusion holds no lock between its steps and changes only its thread's  *)
(* record: it starts or ends with no block, or takes in one block read     *)
(* from the view as it is now.                                             *)
(***************************************************************************)

FusionMove(t, c) ==
  /\ call' = [call EXCEPT ![t] = c]
  /\ c = [op |-> c.op, handle |-> c.handle, todo |-> c.todo, blocks |-> c.blocks]
  /\ c.op \in {"idle", "fuse"} /\ call[t].op \in {"idle", "fuse"}
  /\ \/ c.blocks = << >>
     \/ /\ call[t].handle \in ViewHandles
        /\ c.handle = call[t].handle
        /\ \E src : c.blocks = Append(call[t].blocks,
                      [source |-> src, from |-> view_relations[call[t].handle]])
  /\ UNCHANGED <<arenaVars, envelope, features, nd_tensors, lock>>

\* A fusion that starts, or that ends, has no blocks.
LEMMA FusionEnds ==
  ASSUME ControlInv, NEW t \in Threads,
         \/ \E v, selector : begin_fusion(t, v, selector)
         \/ end_fusion(t) \/ poisoned_call(t)
  PROVE  \E c : FusionMove(t, c)
<1>1. CASE \E v, selector : begin_fusion(t, v, selector)
  <2>1. PICK v, selector : begin_fusion(t, v, selector)
    BY <1>1
  <2>2. PICK c : c = [op |-> "fuse", handle |-> v, todo |-> selector, blocks |-> << >>]
    OBVIOUS
  <2>3. /\ c = [op |-> c.op, handle |-> c.handle, todo |-> c.todo, blocks |-> c.blocks]
        /\ c.op = "fuse" /\ c.blocks = << >>
    BY <2>2
  <2>4. /\ call[t].op = "idle" /\ call' = [call EXCEPT ![t] = c]
        /\ UNCHANGED <<arenaVars, envelope, features, nd_tensors, lock>>
    BY <2>1, <2>2 DEF begin_fusion, Idle, Fusing
  <2> QED BY <2>3, <2>4 DEF FusionMove
<1>2. CASE end_fusion(t) \/ poisoned_call(t)
  <2>1. PICK c : c = [op |-> "idle", handle |-> None, todo |-> << >>, blocks |-> << >>]
    OBVIOUS
  <2>2. /\ c = [op |-> c.op, handle |-> c.handle, todo |-> c.todo, blocks |-> c.blocks]
        /\ c.op = "idle" /\ c.blocks = << >>
    BY <2>1
  <2>3. /\ call[t].op = "fuse" /\ call' = [call EXCEPT ![t] = c]
        /\ UNCHANGED <<arenaVars, envelope, features, nd_tensors, lock>>
    BY <1>2, <2>1 DEF end_fusion, poisoned_call, Idle
  <2> QED BY <2>2, <2>3 DEF FusionMove
<1> QED BY <1>1, <1>2

\* Reading one source adds its block, or ends the fusion with an error.
LEMMA FusionReads ==
  ASSUME ControlInv, NEW t \in Threads, fuse_source(t)
  PROVE  \E c : FusionMove(t, c)
<1> DEFINE item == Head(call[t].todo)
           block == [source |-> item.source, from |-> view_relations[call[t].handle]]
           next == [op |-> "fuse", handle |-> call[t].handle,
                    todo |-> Tail(call[t].todo), blocks |-> Append(call[t].blocks, block)]
<1>1. /\ call[t].op = "fuse"
      /\ UNCHANGED <<arenaVars, envelope, features, nd_tensors, lock>>
  BY DEF fuse_source
<1>2. CASE FeatureBlockReadable(call[t].handle, item)
  <2>1. call' = [call EXCEPT ![t] = next]
    BY <1>2 DEF fuse_source, ControlInv, Fusing
  <2>2. call[t].handle \in ViewHandles
    BY <1>2 DEF FeatureBlockReadable
  <2> HIDE DEF block
  <2>3. PICK c : c = next
    OBVIOUS
  <2>4. /\ c = [op |-> c.op, handle |-> c.handle, todo |-> c.todo, blocks |-> c.blocks]
        /\ c.op = "fuse" /\ c.handle = call[t].handle
        /\ c.blocks = Append(call[t].blocks, block)
    BY <2>3
  <2>5. call' = [call EXCEPT ![t] = c]
    BY <2>1, <2>3
  <2> QED BY <1>1, <2>2, <2>4, <2>5 DEF block, FusionMove
<1>3. CASE ~FeatureBlockReadable(call[t].handle, item)
  <2>1. PICK c : c = [op |-> "idle", handle |-> None, todo |-> << >>, blocks |-> << >>]
    OBVIOUS
  <2>2. /\ c = [op |-> c.op, handle |-> c.handle, todo |-> c.todo, blocks |-> c.blocks]
        /\ c.op = "idle" /\ c.blocks = << >>
    BY <2>1
  <2>3. call' = [call EXCEPT ![t] = c]
    BY <1>3, <2>1 DEF fuse_source, Idle
  <2> QED BY <1>1, <2>2, <2>3 DEF FusionMove
<1> QED BY <1>2, <1>3

\* A step of a fusion leaves threads and the lock in agreement.
LEMMA FusionControl ==
  ASSUME ControlInv, NEW t \in Threads, NEW c, FusionMove(t, c)
  PROVE  ControlInv' /\ call'[t] = c /\ \A u \in Threads \ {t} : call'[u] = call[u]
<1>1. /\ call'[t] = c
      /\ \A u \in Threads \ {t} : call'[u] = call[u]
      /\ call' = [u \in Threads |-> call'[u]]
  BY CallSet DEF FusionMove
<1>2. \A u \in Threads : call'[u] = [op |-> call'[u].op, handle |-> call'[u].handle,
                                     todo |-> call'[u].todo, blocks |-> call'[u].blocks]
  BY <1>1 DEF ControlInv, FusionMove
<1>3. \A u \in Threads : /\ call'[u].op \in Steps \cup {"idle", "fuse", "panicked"}
                         /\ call'[u].op \in Steps <=> lock' = u
  <2>1. c.op \notin Steps /\ call[t].op \notin Steps BY DEF Steps, FusionMove
  <2> QED BY <1>1, <2>1 DEF ControlInv, FusionMove
<1> QED BY <1>1, <1>2, <1>3 DEF ControlInv, FusionMove

\* The lock's holder is alone inside the steps, so a thread in a step holds it.
LEMMA InStep ==
  ASSUME ControlInv, NEW t \in Threads, call[t].op \in Steps
  PROVE  lock = t /\ lock # "free" /\ lock # "poisoned"
BY ThreadsAssumption DEF ControlInv

\* A provider starts unlocked, with every thread outside a call.
LEMMA InitControl == Init => ControlInv
<1> SUFFICES ASSUME Init PROVE ControlInv
  OBVIOUS
<1>1. call = [t \in Threads |-> [op |-> "idle", handle |-> None, todo |-> << >>,
                                 blocks |-> << >>]]
  BY DEF Init, Idle
<1>2. \A t \in Threads : call[t].op = "idle" /\ lock # t
  BY <1>1, ThreadsAssumption DEF Init
<1>3. envelope \in Envelopes /\ ValidEnvelope(envelope)
  BY DEF Init
<1> QED BY <1>1, <1>2, <1>3 DEF Init, ControlInv, Steps

\* Every step keeps threads and the lock in agreement.
LEMMA ControlStep == ControlInv /\ [Next]_vars => ControlInv'
<1> SUFFICES ASSUME ControlInv, [Next]_vars PROVE ControlInv'
  OBVIOUS
<1>1. ASSUME NEW t \in Threads, NEW req \in Requests, begin_materialize(t, req)
      PROVE  ControlInv'
  <2>1. CASE Hold(t, "bind_features", next_handle)
    BY <1>1, <2>1, HoldControl DEF begin_materialize, lock_arenas, Steps
  <2>2. CASE UNCHANGED <<lock, call>>
    BY <1>1, <2>2 DEF begin_materialize, ControlInv
  <2> QED BY <1>1, <2>1, <2>2 DEF begin_materialize
<1>2. ASSUME NEW t \in Threads, NEW d \in DataHandles, NEW view \in Views,
             provider_make_view(t, d, view)
      PROVE  ControlInv'
  BY <1>2 DEF provider_make_view, providerVars, ControlInv
<1>3. ASSUME NEW t \in Threads, NEW h \in 1 .. MaxHandle, begin_release(t, h)
      PROVE  ControlInv'
  BY <1>3, HoldControl DEF begin_release, lock_arenas, Steps
<1>4. ASSUME NEW t \in Threads, NEW v \in 1 .. MaxHandle,
             NEW selector \in Selectors, begin_fusion(t, v, selector)
      PROVE  ControlInv'
  BY <1>4, FusionEnds, FusionControl
<1>5. ASSUME NEW t \in Threads, Continue(t) PROVE ControlInv'
  <2>1. CASE bind_features(t)
    BY <2>1, InStep, HoldControl, ReturnControl DEF bind_features, Steps
  <2>2. CASE bind_tensors(t)
    BY <2>2, InStep, ReturnControl DEF bind_tensors, Steps
  <2>3. CASE release_features(t)
    BY <2>3, InStep, HoldControl DEF release_features, Steps
  <2>4. CASE release_tensors(t)
    BY <2>4, InStep, ReturnControl DEF release_tensors, Steps
  <2>5. CASE fuse_source(t)
    BY <2>5, FusionReads, FusionControl
  <2>6. CASE end_fusion(t) \/ poisoned_call(t)
    BY <2>6, FusionEnds, FusionControl
  <2> QED BY <1>5, <2>1, <2>2, <2>3, <2>4, <2>5, <2>6 DEF Continue
<1>6. ASSUME NEW t \in Threads, panic(t) PROVE ControlInv'
  <2> DEFINE c == [op |-> "panicked", handle |-> call[t].handle, todo |-> << >>,
                   blocks |-> << >>]
  <2>1. call' = [call EXCEPT ![t] = c]
    BY <1>6 DEF panic, At
  <2>2. /\ call'[t] = c
        /\ \A u \in Threads \ {t} : call'[u] = call[u]
        /\ call' = [u \in Threads |-> call'[u]]
    BY <2>1, CallSet
  <2>3. \A u \in Threads \ {t} : call'[u].op \notin Steps
    BY <1>6, <2>2 DEF panic, ControlInv
  <2>4. call'[t].op \notin Steps /\ \A u \in Threads : lock' # u
    BY <1>6, <2>2, ThreadsAssumption DEF panic, Steps
  <2> QED BY <1>6, <2>2, <2>3, <2>4 DEF panic, ControlInv
<1>7. CASE UNCHANGED vars
  BY <1>7 DEF vars, providerVars, ControlInv
<1> QED BY <1>1, <1>2, <1>3, <1>4, <1>5, <1>6, <1>7 DEF Next

(***************************************************************************)
(* The arena inside the provider.                                          *)
(***************************************************************************)

\* What a step of the provider does to the arena: one operation of it, with
\* the envelope the provider was built with, or nothing.
LEMMA ArenaMoves ==
  ASSUME [Next]_vars
  PROVE  /\ envelope' = envelope
         /\ \/ \E req \in Requests : materialize(envelope, req)
            \/ \E d \in DataHandles, view \in Views : make_view(d, view)
            \/ \E h \in LiveHandles : release_handle(h)
            \/ UNCHANGED arenaVars
<1>1. ASSUME NEW t \in Threads, NEW req \in Requests, begin_materialize(t, req)
      PROVE  envelope' = envelope /\ materialize(envelope, req)
  BY <1>1 DEF begin_materialize
<1>2. ASSUME NEW t \in Threads, NEW d \in DataHandles, NEW view \in Views,
             provider_make_view(t, d, view)
      PROVE  envelope' = envelope /\ make_view(d, view)
  BY <1>2 DEF provider_make_view, providerVars
<1>3. ASSUME NEW t \in Threads, NEW h \in 1 .. MaxHandle, begin_release(t, h)
      PROVE  /\ envelope' = envelope
             /\ (h \in LiveHandles /\ release_handle(h)) \/ UNCHANGED arenaVars
  BY <1>3 DEF begin_release
<1>4. ASSUME NEW t \in Threads, NEW v \in 1 .. MaxHandle,
             NEW selector \in Selectors, begin_fusion(t, v, selector)
      PROVE  envelope' = envelope /\ UNCHANGED arenaVars
  BY <1>4 DEF begin_fusion
<1>5. ASSUME NEW t \in Threads, Continue(t)
      PROVE  envelope' = envelope /\ UNCHANGED arenaVars
  BY <1>5 DEF Continue, bind_features, bind_tensors, release_features,
             release_tensors, fuse_source, end_fusion, poisoned_call
<1>6. ASSUME NEW t \in Threads, panic(t)
      PROVE  envelope' = envelope /\ UNCHANGED arenaVars
  BY <1>6 DEF panic
<1>7. CASE UNCHANGED vars
  BY <1>7 DEF vars, providerVars
<1> QED BY <1>1, <1>2, <1>3, <1>4, <1>5, <1>6, <1>7 DEF Next

\* The threads of a provider see one handle arena: every behaviour of the
\* provider is one of the arena, so all the arena's theorems hold of it.
THEOREM ProviderRunsArena == Spec => ArenaSpec
<1>1. Init => ArenaInit /\ ControlInv
  BY InitControl DEF Init
<1>2. ControlInv /\ [Next]_vars => [ArenaNext]_arenaVars
  BY ArenaMoves DEF ArenaNext, ControlInv
<1> QED BY <1>1, <1>2, ControlStep, PTL DEF Spec, ArenaSpec

\* The rows of a data handle are a valid relation set, taken from the part of
\* the envelope its request was allowed to read.
RowsInv ==
  \A d \in DOMAIN data_relations :
    /\ ValidRelationSet(data_relations[d])
    /\ data_relations[d] \subseteq
         MaterializationRelations(envelope, records[d].request)
    /\ CohortReadAllowed(envelope, records[d].request)

\* Every step keeps the rows of data handles valid and allowed.
LEMMA RowsInvStep == ArenaInv /\ RowsInv /\ [Next]_vars /\ envelope \in Envelopes => RowsInv'
<1> SUFFICES ASSUME ArenaInv, RowsInv, [Next]_vars, envelope \in Envelopes PROVE RowsInv'
  OBVIOUS
<1> DOMAIN data_relations \subseteq DataHandles /\ next_handle \notin DataHandles
  BY NextIsFree DEF ArenaInv, ArenaConsistent, MapsInLockStep, LiveHandles
<1>0. envelope' = envelope
  BY ArenaMoves
<1>1. CASE \E req \in Requests : materialize(envelope, req)
  <2>1. PICK req \in Requests : materialize(envelope, req)
    BY <1>1
  <2>2. Materialized(envelope, req)
    BY <2>1, MaterializeEffect
  <2>3. /\ CohortReadAllowed(envelope, req)
        /\ MaterializationRelations(envelope, req) # None =>
             ScopeAccepted(MaterializationRelations(envelope, req), req.sources)
    BY <2>1 DEF materialize
  <2>4. PICK e, h, rels : /\ e = envelope /\ h = next_handle
                          /\ rels = MaterializationRelations(e, req)
    OBVIOUS
  <2>5. ASSUME NEW d \in DOMAIN data_relations
        PROVE  /\ ValidRelationSet(data_relations'[d])
               /\ data_relations'[d] \subseteq
                    MaterializationRelations(e, records'[d].request)
               /\ CohortReadAllowed(e, records'[d].request)
    <3>1. data_relations'[d] = data_relations[d] /\ records'[d] = records[d]
      BY <2>2 DEF Materialized
    <3> QED BY <2>4, <3>1 DEF RowsInv
  <2>6. ASSUME h \in DOMAIN data_relations'
        PROVE  /\ ValidRelationSet(data_relations'[h])
               /\ data_relations'[h] \subseteq
                    MaterializationRelations(e, records'[h].request)
               /\ CohortReadAllowed(e, records'[h].request)
    <3>1. rels # None /\ data_relations'[h] = ScopeToSources(rels, req.sources)
      BY <2>2, <2>4, <2>6 DEF Materialized
    <3>2. records'[h].request = req
      BY <2>2, <2>4 DEF Materialized
    <3> QED BY <2>3, <2>4, <3>1, <3>2, ScopeNarrows DEF ScopeAccepted
  <2>7. DOMAIN data_relations' \subseteq DOMAIN data_relations \cup {h}
    BY <2>2, <2>4 DEF Materialized
  <2>8. e = envelope'
    BY <1>0, <2>4
  <2> QED BY <2>5, <2>6, <2>7, <2>8 DEF RowsInv
<1>2. CASE \E d \in DataHandles, view \in Views : make_view(d, view)
  BY <1>0, <1>2 DEF make_view, RowsInv
<1>3. CASE \E h \in LiveHandles : release_handle(h)
  <2>1. PICK h \in LiveHandles : release_handle(h)
    BY <1>3
  <2>2. ViewReleased(h) \/ DataReleased(h)
    BY <2>1, ReleaseViewEffect, ReleaseDataEffect DEF release_handle
  <2>3. \A d \in DOMAIN data_relations' :
          /\ d \in DOMAIN data_relations
          /\ data_relations'[d] = data_relations[d] /\ records'[d] = records[d]
    BY <2>2 DEF ViewReleased, DataReleased
  <2> QED BY <1>0, <2>3 DEF RowsInv
<1>4. CASE UNCHANGED arenaVars
  BY <1>0, <1>4 DEF arenaVars, RowsInv
<1> QED BY <1>1, <1>2, <1>3, <1>4, ArenaMoves

(***************************************************************************)
(* The three arenas under the lock.  Whoever holds it is the only thread   *)
(* between the arenas, so its next step says how far they are apart; and   *)
(* whoever finds it free finds them together.                              *)
(***************************************************************************)

\* How far the binding arenas are from the handle arena when a thread is at
\* step op for handle h.
Apart(op, h) ==
  /\ op = "bind_features" =>
       /\ h \in DOMAIN data_relations
       /\ DOMAIN features = DOMAIN data_relations \ {h}
       /\ DOMAIN nd_tensors = DOMAIN data_relations \ {h}
  /\ op = "bind_tensors" =>
       /\ h \in DOMAIN data_relations
       /\ DOMAIN features = DOMAIN data_relations
       /\ DOMAIN nd_tensors = DOMAIN data_relations \ {h}
  /\ op = "release_features" =>
       /\ h \notin DataHandles
       /\ DOMAIN features \ {h} = DOMAIN data_relations
       /\ DOMAIN nd_tensors \ {h} = DOMAIN data_relations
  /\ op = "release_tensors" =>
       /\ h \notin DataHandles
       /\ DOMAIN features = DOMAIN data_relations
       /\ DOMAIN nd_tensors \ {h} = DOMAIN data_relations

StepsInv == ArenasInStep /\ \A t \in Threads : Apart(call[t].op, call[t].handle)

\* Only the holder's step has to be looked at.
LEMMA HolderApart ==
  ASSUME ControlInv', NEW t \in Threads, lock' = t,
         Apart(call[t].op, call[t].handle)'
  PROVE  StepsInv'
<1>1. \A u \in Threads \ {t} : call'[u].op \notin Steps
  BY DEF ControlInv
<1>2. \A u \in Threads \ {t} : Apart(call[u].op, call[u].handle)'
  BY <1>1 DEF Apart, Steps
<1>3. ~lock_arenas'
  BY ThreadsAssumption DEF lock_arenas
<1> QED BY <1>2, <1>3 DEF StepsInv, ArenasInStep

\* With the lock free, or poisoned, no thread is between the arenas.
LEMMA NobodyApart ==
  ASSUME ControlInv', lock' \in {"free", "poisoned"}, ArenasInStep'
  PROVE  StepsInv'
<1>1. \A u \in Threads : call'[u].op \notin Steps
  BY ThreadsAssumption DEF ControlInv
<1>2. \A u \in Threads : Apart(call[u].op, call[u].handle)'
  BY <1>1 DEF Apart, Steps
<1> QED BY <1>2 DEF StepsInv

\* A release of any handle leaves it out of the handle arena, with nothing
\* else of the data handles changed.
LEMMA ReleaseLeavesOut ==
  ASSUME ArenaInv, NEW h,
         IF h \in LiveHandles THEN release_handle(h) ELSE UNCHANGED arenaVars
  PROVE  /\ DataHandles' = DataHandles \ {h}
         /\ DOMAIN data_relations' = DOMAIN data_relations \ {h}
         /\ \A d \in DataHandles' : records'[d] = records[d]
         /\ \A d \in DOMAIN data_relations' : data_relations'[d] = data_relations[d]
<1> /\ DOMAIN data_relations \subseteq DataHandles
    /\ DataHandles \cap ViewHandles = {}
  BY DEF ArenaInv, ArenaConsistent, MapsInLockStep
<1>1. CASE h \in LiveHandles
  <2>1. ViewReleased(h) \/ DataReleased(h)
    BY <1>1, ReleaseViewEffect, ReleaseDataEffect DEF release_handle
  <2> QED BY <2>1 DEF ViewReleased, DataReleased, DataHandles
<1>2. CASE h \notin LiveHandles
  BY <1>2 DEF arenaVars, LiveHandles, DataHandles
<1> QED BY <1>1, <1>2

\* Inserting and removing a key.
LEMMA WithDomain ==
  ASSUME NEW f, NEW k, NEW v
  PROVE  /\ DOMAIN With(f, k, v) = DOMAIN f \cup {k}
         /\ With(f, k, v)[k] = v
         /\ \A x \in DOMAIN f \ {k} : With(f, k, v)[x] = f[x]
BY DEF With

\* The keys and values left by a removal.
LEMMA WithoutDomain ==
  ASSUME NEW f, NEW K
  PROVE  /\ DOMAIN Without(f, K) = DOMAIN f \ K
         /\ \A x \in DOMAIN f \ K : Without(f, K)[x] = f[x]
BY DEF Without

\* Every step leaves the arenas as far apart as its next step says.
LEMMA StepsInvStep ==
  ArenaInv /\ ControlInv /\ ControlInv' /\ RowsInv /\ StepsInv /\ [Next]_vars => StepsInv'
<1> SUFFICES ASSUME ArenaInv, ControlInv, ControlInv', RowsInv, StepsInv, [Next]_vars
             PROVE  StepsInv'
  OBVIOUS
<1> DOMAIN data_relations \subseteq DataHandles /\ next_handle \notin DataHandles
  BY NextIsFree DEF ArenaInv, ArenaConsistent, MapsInLockStep, LiveHandles
<1>1. ASSUME NEW t \in Threads, NEW req \in Requests, begin_materialize(t, req)
      PROVE  StepsInv'
  <2>1. /\ Materialized(envelope, req) /\ lock = "free"
        /\ UNCHANGED <<features, nd_tensors>>
    BY <1>1, MaterializeEffect DEF begin_materialize, lock_arenas, ControlInv
  <2>2. DOMAIN features = DOMAIN data_relations /\ DOMAIN nd_tensors = DOMAIN data_relations
    BY <2>1 DEF StepsInv, ArenasInStep, lock_arenas
  <2>3. CASE next_handle \in DOMAIN data_relations'
    <3>1. Hold(t, "bind_features", next_handle) /\ UNCHANGED envelope
      BY <1>1, <2>3 DEF begin_materialize
    <3>2. /\ lock' = t /\ call'[t].op = "bind_features"
          /\ call'[t].handle = next_handle
      BY <2>1, <3>1, HoldControl DEF Steps
    <3>3. DOMAIN data_relations = DOMAIN data_relations' \ {next_handle}
      BY <2>1 DEF Materialized
    <3>4. Apart(call[t].op, call[t].handle)'
      BY <2>1, <2>2, <2>3, <3>2, <3>3 DEF Apart
    <3> QED BY <3>2, <3>4, HolderApart
  <2>4. CASE next_handle \notin DOMAIN data_relations'
    <3>1. lock' = lock
      BY <1>1, <2>4 DEF begin_materialize
    <3>2. DOMAIN data_relations' = DOMAIN data_relations
      BY <2>1, <2>4 DEF Materialized
    <3> QED BY <2>1, <2>2, <3>1, <3>2, NobodyApart DEF ArenasInStep
  <2> QED BY <2>3, <2>4
<1>2. ASSUME NEW t \in Threads, NEW d \in DataHandles, NEW view \in Views,
             provider_make_view(t, d, view)
      PROVE  StepsInv'
  <2>1. /\ lock = "free" /\ lock' = lock /\ data_relations' = data_relations
        /\ UNCHANGED <<features, nd_tensors>>
    BY <1>2 DEF provider_make_view, providerVars, make_view, lock_arenas
  <2> QED BY <2>1, NobodyApart DEF StepsInv, ArenasInStep, lock_arenas
<1>3. ASSUME NEW t \in Threads, NEW h \in 1 .. MaxHandle, begin_release(t, h)
      PROVE  StepsInv'
  <2>1. lock = "free" /\ Hold(t, "release_features", h) /\ UNCHANGED <<envelope, features, nd_tensors>>
    BY <1>3 DEF begin_release, lock_arenas
  <2>2. DOMAIN features = DOMAIN data_relations /\ DOMAIN nd_tensors = DOMAIN data_relations
    BY <2>1 DEF StepsInv, ArenasInStep, lock_arenas
  <2>3. lock' = t /\ call'[t].op = "release_features" /\ call'[t].handle = h
    BY <2>1, HoldControl DEF Steps
  <2>4. /\ DataHandles' = DataHandles \ {h}
        /\ DOMAIN data_relations' = DOMAIN data_relations \ {h}
    BY <1>3, ReleaseLeavesOut DEF begin_release
  <2>5. Apart(call[t].op, call[t].handle)'
    BY <2>1, <2>2, <2>3, <2>4 DEF Apart
  <2> QED BY <2>3, <2>5, HolderApart
<1>4. ASSUME NEW t \in Threads, NEW c, FusionMove(t, c) PROVE StepsInv'
  <2>1. /\ call'[t] = c /\ \A u \in Threads \ {t} : call'[u] = call[u]
        /\ c.op \notin Steps
        /\ UNCHANGED <<arenaVars, features, nd_tensors, lock>>
    BY <1>4, FusionControl DEF FusionMove, Steps
  <2>2. ArenasInStep'
    BY <2>1 DEF StepsInv, ArenasInStep, lock_arenas, arenaVars
  <2>3. \A u \in Threads : Apart(call[u].op, call[u].handle)'
    BY <2>1 DEF StepsInv, Apart, Steps, arenaVars, DataHandles
  <2> QED BY <2>2, <2>3 DEF StepsInv
<1>5. ASSUME NEW t \in Threads, Continue(t) PROVE StepsInv'
  <2>0. Apart(call[t].op, call[t].handle)
    BY DEF StepsInv
  <2>1. CASE bind_features(t)
    <3>1. PICK h : h = call[t].handle
      OBVIOUS
    <3>2. call[t].op = "bind_features" /\ UNCHANGED <<arenaVars, envelope, nd_tensors>>
      BY <2>1 DEF bind_features
    <3>3. /\ h \in DOMAIN data_relations
          /\ DOMAIN features = DOMAIN data_relations \ {h}
          /\ DOMAIN nd_tensors = DOMAIN data_relations \ {h}
      BY <2>0, <3>1, <3>2 DEF Apart
    <3>0. ValidRelationSet(data_relations[h])
      BY <3>3 DEF RowsInv
    <3>4. Hold(t, "bind_tensors", h) /\ DOMAIN features' = DOMAIN features \cup {h}
      <4>1. Hold(t, "bind_tensors", h) /\ \E b : features' = With(features, h, b)
        BY <2>1, <3>0, <3>1 DEF bind_features
      <4> QED BY <4>1, WithDomain
    <3>5. lock' = t /\ call'[t].op = "bind_tensors" /\ call'[t].handle = h
      BY <3>2, <3>4, HoldControl, InStep DEF Steps
    <3>6. Apart(call[t].op, call[t].handle)'
      BY <3>2, <3>3, <3>4, <3>5 DEF Apart, arenaVars
    <3> QED BY <3>5, <3>6, HolderApart
  <2>2. CASE bind_tensors(t)
    <3>1. PICK h : h = call[t].handle
      OBVIOUS
    <3>2. /\ call[t].op = "bind_tensors" /\ Return(t)
          /\ UNCHANGED <<arenaVars, envelope, features>>
      BY <2>2 DEF bind_tensors
    <3>3. /\ h \in DOMAIN data_relations
          /\ DOMAIN features = DOMAIN data_relations
          /\ DOMAIN nd_tensors = DOMAIN data_relations \ {h}
      BY <2>0, <3>1, <3>2 DEF Apart
    <3>0. ValidRelationSet(data_relations[h])
      BY <3>3 DEF RowsInv
    <3>4. DOMAIN nd_tensors' = DOMAIN nd_tensors \cup {h}
      <4>1. \E b : nd_tensors' = With(nd_tensors, h, b)
        BY <2>2, <3>0, <3>1 DEF bind_tensors
      <4> QED BY <4>1, WithDomain
    <3>5. ArenasInStep' /\ lock' = "free"
      BY <3>2, <3>3, <3>4 DEF ArenasInStep, arenaVars, Return
    <3> QED BY <3>5, NobodyApart
  <2>3. CASE release_features(t)
    <3>1. PICK h : h = call[t].handle
      OBVIOUS
    <3>2. /\ call[t].op = "release_features" /\ Hold(t, "release_tensors", h)
          /\ UNCHANGED <<arenaVars, envelope, nd_tensors>>
          /\ DOMAIN features' = DOMAIN features \ {h}
      BY <2>3, <3>1, WithoutDomain DEF release_features
    <3>3. lock' = t /\ call'[t].op = "release_tensors" /\ call'[t].handle = h
      BY <3>2, HoldControl, InStep DEF Steps
    <3>4. Apart(call[t].op, call[t].handle)'
      BY <2>0, <3>1, <3>2, <3>3 DEF Apart, arenaVars, DataHandles
    <3> QED BY <3>3, <3>4, HolderApart
  <2>4. CASE release_tensors(t)
    <3>1. /\ call[t].op = "release_tensors" /\ Return(t)
          /\ UNCHANGED <<arenaVars, envelope, features>>
          /\ DOMAIN nd_tensors' = DOMAIN nd_tensors \ {call[t].handle}
      BY <2>4, WithoutDomain DEF release_tensors
    <3>2. ArenasInStep' /\ lock' = "free"
      BY <2>0, <3>1 DEF Apart, ArenasInStep, arenaVars, Return
    <3> QED BY <3>2, NobodyApart
  <2>5. CASE fuse_source(t) \/ end_fusion(t) \/ poisoned_call(t)
    BY <1>4, <2>5, FusionReads, FusionEnds
  <2> QED BY <1>5, <2>1, <2>2, <2>3, <2>4, <2>5 DEF Continue
<1>6. ASSUME NEW t \in Threads, panic(t) PROVE StepsInv'
  BY <1>6, NobodyApart DEF panic, ArenasInStep, lock_arenas
<1>7. CASE UNCHANGED vars
  BY <1>7 DEF vars, arenaVars, providerVars, StepsInv, ArenasInStep, Apart, lock_arenas,
              DataHandles
<1> QED BY <1>1, <1>2, <1>3, <1>4, <1>5, <1>6, <1>7, FusionEnds DEF Next

(***************************************************************************)
(* Bindings are those of the handle's rows.                                *)
(***************************************************************************)

\* A binding arena over a store: where its handle is live, each entry is what
\* bindings_for_relations gives for the rows of the handle.
BoundBy(map, store) ==
  /\ \A d \in DOMAIN map \cap DOMAIN data_relations :
       map[d] = BindingsFor(store, data_relations[d], records[d].request.output)
  /\ \A d \in DOMAIN map : DOMAIN map[d] \subseteq DOMAIN store

BoundInv == BoundBy(features, FeatureStore) /\ BoundBy(nd_tensors, TensorStore)

\* Across a step of the arena, a handle that stays keeps its rows, and what is
\* new is the handle at the counter.
LEMMA ArenaKeeps ==
  ASSUME ArenaInv, [ArenaNext]_arenaVars
  PROVE  /\ next_handle' \in {next_handle, next_handle + 1}
         /\ \A d \in DOMAIN data_relations \cap DOMAIN data_relations' :
              data_relations'[d] = data_relations[d] /\ records'[d] = records[d]
         /\ DOMAIN data_relations' \subseteq DOMAIN data_relations \cup {next_handle}
         /\ \A v \in ViewHandles \cap ViewHandles' : view_relations'[v] = view_relations[v]
         /\ ViewHandles' \subseteq ViewHandles \cup {next_handle}
<1> /\ DOMAIN data_relations \subseteq DataHandles
    /\ DOMAIN view_relations = ViewHandles
  BY DEF ArenaInv, ArenaConsistent, MapsInLockStep
<1>1. CASE \E e \in Envelopes, req \in Requests : Materialized(e, req)
  BY <1>1 DEF Materialized, ViewHandles
<1>2. CASE \E d \in DataHandles, view \in Views : ViewMade(d, view)
  BY <1>2 DEF ViewMade, ViewHandles
<1>3. CASE \E v \in ViewHandles : ViewReleased(v)
  BY <1>3 DEF ViewReleased, ViewHandles
<1>4. CASE \E d \in DataHandles : DataReleased(d)
  BY <1>4 DEF DataReleased, ViewHandles
<1>5. CASE UNCHANGED arenaVars
  BY <1>5 DEF arenaVars, ViewHandles
<1> QED BY <1>1, <1>2, <1>3, <1>4, <1>5, StepEffect

\* The arena moves only for a thread that finds the lock free, and a binding
\* arena only while the other two arenas rest.
LEMMA OneArenaMoves ==
  ASSUME ControlInv, [Next]_vars
  PROVE  \/ /\ UNCHANGED <<features, nd_tensors>>
            /\ lock = "free" \/ UNCHANGED arenaVars
         \/ /\ UNCHANGED <<arenaVars, nd_tensors>>
            /\ \E t \in Threads : bind_features(t) \/ release_features(t)
         \/ /\ UNCHANGED <<arenaVars, features>>
            /\ \E t \in Threads : bind_tensors(t) \/ release_tensors(t)
<1>1. ASSUME NEW t \in Threads, NEW req \in Requests, begin_materialize(t, req)
      PROVE  lock = "free" /\ UNCHANGED <<features, nd_tensors>>
  BY <1>1 DEF begin_materialize, lock_arenas
<1>2. ASSUME NEW t \in Threads, NEW d \in DataHandles, NEW view \in Views,
             provider_make_view(t, d, view)
      PROVE  lock = "free" /\ UNCHANGED <<features, nd_tensors>>
  BY <1>2 DEF provider_make_view, lock_arenas, providerVars
<1>3. ASSUME NEW t \in Threads, NEW h \in 1 .. MaxHandle, begin_release(t, h)
      PROVE  lock = "free" /\ UNCHANGED <<features, nd_tensors>>
  BY <1>3 DEF begin_release, lock_arenas
<1>4. ASSUME NEW t \in Threads, NEW c, FusionMove(t, c)
      PROVE  UNCHANGED <<arenaVars, features, nd_tensors>>
  BY <1>4 DEF FusionMove
<1>5. ASSUME NEW t \in Threads, panic(t)
      PROVE  UNCHANGED <<arenaVars, features, nd_tensors>>
  BY <1>5 DEF panic
<1>6. CASE UNCHANGED vars
  BY <1>6 DEF vars, providerVars
<1>7. ASSUME NEW t \in Threads, bind_features(t) \/ release_features(t)
      PROVE  UNCHANGED <<arenaVars, nd_tensors>>
  BY <1>7 DEF bind_features, release_features
<1>8. ASSUME NEW t \in Threads, bind_tensors(t) \/ release_tensors(t)
      PROVE  UNCHANGED <<arenaVars, features>>
  BY <1>8 DEF bind_tensors, release_tensors
<1> QED BY <1>1, <1>2, <1>3, <1>4, <1>5, <1>6, <1>7, <1>8, FusionEnds, FusionReads
        DEF Next, Continue

\* The buffers bound to some rows are buffers of the store.
LEMMA BindingsInStore ==
  ASSUME NEW store, NEW rels, NEW repr
  PROVE  DOMAIN BindingsFor(store, rels, repr) \subseteq DOMAIN store
BY DEF BindingsFor

\* Adding, to the bindings, those of one more handle, or removing a handle.
LEMMA BoundWith ==
  ASSUME NEW map, NEW store, BoundBy(map, store), NEW h
  PROVE  BoundBy(With(map, h, BindingsFor(store, data_relations[h],
                                          records[h].request.output)), store)
<1>2. PICK b : b = BindingsFor(store, data_relations[h], records[h].request.output)
  OBVIOUS
<1>1. DOMAIN b \subseteq DOMAIN store
  BY <1>2, BindingsInStore
<1>3. BoundBy(With(map, h, b), store)
  <2>1. /\ DOMAIN With(map, h, b) = DOMAIN map \cup {h} /\ With(map, h, b)[h] = b
        /\ \A x \in DOMAIN map \ {h} : With(map, h, b)[x] = map[x]
    BY DEF With
  <2> QED BY <1>1, <1>2, <2>1 DEF BoundBy
<1> QED BY <1>2, <1>3

\* Removing a handle from the bindings.
LEMMA BoundWithout ==
  ASSUME NEW map, NEW store, BoundBy(map, store), NEW h
  PROVE  BoundBy(Without(map, {h}), store)
<1>1. /\ DOMAIN Without(map, {h}) = DOMAIN map \ {h}
      /\ \A x \in DOMAIN map \ {h} : Without(map, {h})[x] = map[x]
  BY WithoutDomain
<1> QED BY <1>1 DEF BoundBy

\* A binding arena that rests stays bound to its handles' rows, whatever the
\* handle arena does with the lock free.
LEMMA BoundRests ==
  ASSUME ArenaInv, [ArenaNext]_arenaVars, NEW map, NEW store, BoundBy(map, store),
         UNCHANGED arenaVars \/ DOMAIN map = DOMAIN data_relations
  PROVE  /\ \A d \in DOMAIN map \cap DOMAIN data_relations' :
              map[d] = BindingsFor(store, data_relations'[d], records'[d].request.output)
         /\ \A d \in DOMAIN map : DOMAIN map[d] \subseteq DOMAIN store
<1>1. next_handle \notin DOMAIN data_relations
  BY NextIsFree DEF ArenaInv, ArenaConsistent, MapsInLockStep, LiveHandles
<1>2. \A d \in DOMAIN map \cap DOMAIN data_relations' :
        /\ d \in DOMAIN data_relations
        /\ data_relations'[d] = data_relations[d] /\ records'[d] = records[d]
  BY <1>1, ArenaKeeps DEF arenaVars
<1> QED BY <1>2 DEF BoundBy

\* Every step keeps the bindings those of the handles' rows.
LEMMA BoundStep ==
  ArenaInv /\ ControlInv /\ StepsInv /\ RowsInv /\ BoundInv /\ [Next]_vars => BoundInv'
<1> SUFFICES ASSUME ArenaInv, ControlInv, StepsInv, RowsInv, BoundInv, [Next]_vars
             PROVE  BoundInv'
  OBVIOUS
<1>0. [ArenaNext]_arenaVars
  BY ArenaMoves DEF ArenaNext, ControlInv
<1>1. ASSUME UNCHANGED features, lock = "free" \/ UNCHANGED arenaVars
      PROVE  BoundBy(features, FeatureStore)'
  <2>1. UNCHANGED arenaVars \/ DOMAIN features = DOMAIN data_relations
    BY <1>1 DEF StepsInv, ArenasInStep, lock_arenas
  <2>2. PICK map : map = features
    OBVIOUS
  <2>3. /\ \A d \in DOMAIN map \cap DOMAIN data_relations' :
             map[d] = BindingsFor(FeatureStore, data_relations'[d],
                                  records'[d].request.output)
        /\ \A d \in DOMAIN map : DOMAIN map[d] \subseteq DOMAIN FeatureStore
    BY <1>0, <2>1, <2>2, BoundRests DEF BoundInv
  <2> QED BY <1>1, <2>2, <2>3 DEF BoundBy
<1>2. ASSUME UNCHANGED nd_tensors, lock = "free" \/ UNCHANGED arenaVars
      PROVE  BoundBy(nd_tensors, TensorStore)'
  <2>1. UNCHANGED arenaVars \/ DOMAIN nd_tensors = DOMAIN data_relations
    BY <1>2 DEF StepsInv, ArenasInStep, lock_arenas
  <2>2. PICK map : map = nd_tensors
    OBVIOUS
  <2>3. /\ \A d \in DOMAIN map \cap DOMAIN data_relations' :
             map[d] = BindingsFor(TensorStore, data_relations'[d],
                                  records'[d].request.output)
        /\ \A d \in DOMAIN map : DOMAIN map[d] \subseteq DOMAIN TensorStore
    BY <1>0, <2>1, <2>2, BoundRests DEF BoundInv
  <2> QED BY <1>2, <2>2, <2>3 DEF BoundBy
<1>3. ASSUME NEW t \in Threads, bind_features(t) \/ release_features(t), UNCHANGED arenaVars
      PROVE  BoundBy(features, FeatureStore)'
  <2>1. PICK f : f = features'
    OBVIOUS
  <2>2. BoundBy(f, FeatureStore)
    <3>1. CASE f = features
      BY <3>1 DEF BoundInv
    <3>2. CASE \E h : f = With(features, h, BindingsFor(FeatureStore, data_relations[h],
                                                       records[h].request.output))
      BY <3>2, BoundWith DEF BoundInv
    <3>3. CASE \E h : f = Without(features, {h})
      BY <3>3, BoundWithout DEF BoundInv
    <3> QED BY <1>3, <2>1, <3>1, <3>2, <3>3 DEF bind_features, release_features
  <2> QED BY <1>3, <2>1, <2>2 DEF BoundBy, arenaVars
<1>4. ASSUME NEW t \in Threads, bind_tensors(t) \/ release_tensors(t), UNCHANGED arenaVars
      PROVE  BoundBy(nd_tensors, TensorStore)'
  <2>1. PICK f : f = nd_tensors'
    OBVIOUS
  <2>2. BoundBy(f, TensorStore)
    <3>1. CASE f = nd_tensors
      BY <3>1 DEF BoundInv
    <3>2. CASE \E h : f = With(nd_tensors, h, BindingsFor(TensorStore, data_relations[h],
                                                         records[h].request.output))
      BY <3>2, BoundWith DEF BoundInv
    <3>3. CASE \E h : f = Without(nd_tensors, {h})
      BY <3>3, BoundWithout DEF BoundInv
    <3> QED BY <1>4, <2>1, <3>1, <3>2, <3>3 DEF bind_tensors, release_tensors
  <2> QED BY <1>4, <2>1, <2>2 DEF BoundBy, arenaVars
<1> QED BY <1>1, <1>2, <1>3, <1>4, OneArenaMoves DEF BoundInv

(***************************************************************************)
(* A fusion and the view it reads.                                         *)
(***************************************************************************)

\* The blocks a thread has read come from one set of rows, and while the view
\* lives it is that view's.  The handle was taken from the counter, so once
\* the view is released no other view appears under it.
BlocksOf(c) ==
  /\ \E S : c.blocks \in Seq(S)
  /\ \A i, j \in DOMAIN c.blocks : c.blocks[i].from = c.blocks[j].from
  /\ \A i \in DOMAIN c.blocks :
       /\ c.handle \in 1 .. next_handle - 1
       /\ c.handle \in ViewHandles => c.blocks[i].from = view_relations[c.handle]

FusionInv == \A t \in Threads : BlocksOf(call[t])

\* A call without blocks has nothing to mix.
LEMMA NoBlocks ==
  ASSUME NEW c, c.blocks = << >>
  PROVE  BlocksOf(c)
<1>1. c.blocks \in Seq({}) /\ DOMAIN c.blocks = {}
  OBVIOUS
<1> QED BY <1>1 DEF BlocksOf

\* One more block, of the view as it is.
LEMMA OneMoreBlock ==
  ASSUME ArenaInv, NEW c, BlocksOf(c), c.handle \in ViewHandles, NEW src, NEW d,
         d.handle = c.handle,
         d.blocks = Append(c.blocks, [source |-> src, from |-> view_relations[c.handle]])
  PROVE  BlocksOf(d)
<1>1. PICK S : c.blocks \in Seq(S)
  BY DEF BlocksOf
<1>2. PICK b : b = [source |-> src, from |-> view_relations[c.handle]]
  OBVIOUS
<1>3. PICK s, n : s = c.blocks /\ n = Len(s)
  OBVIOUS
<1>4. s \in Seq(S \cup {b}) /\ n \in Nat /\ DOMAIN s = 1 .. n
  BY <1>1, <1>3
<1>5. /\ d.blocks \in Seq(S \cup {b})
      /\ DOMAIN d.blocks = 1 .. n + 1
      /\ \A i \in 1 .. n : d.blocks[i] = s[i]
      /\ d.blocks[n + 1] = b
  BY <1>2, <1>3, <1>4
<1>6. \A i \in DOMAIN d.blocks : d.blocks[i].from = view_relations[c.handle]
  <2>1. b.from = view_relations[c.handle]
    BY <1>2
  <2>2. \A i \in 1 .. n : s[i].from = view_relations[c.handle]
    BY <1>3, <1>4 DEF BlocksOf
  <2>3. \A i \in 1 .. n + 1 : i \in 1 .. n \/ i = n + 1
    BY <1>4
  <2> QED BY <1>5, <2>1, <2>2, <2>3
<1>7. c.handle \in 1 .. next_handle - 1
  BY DEF ArenaInv, ArenaTypeOK, LiveHandles
<1> QED BY <1>5, <1>6, <1>7 DEF BlocksOf

\* A call that rests keeps its blocks, whatever the handle arena does.
LEMMA BlocksRest ==
  ASSUME ArenaInv, [ArenaNext]_arenaVars, NEW c, BlocksOf(c)
  PROVE  /\ \E S : c.blocks \in Seq(S)
         /\ \A i, j \in DOMAIN c.blocks : c.blocks[i].from = c.blocks[j].from
         /\ \A i \in DOMAIN c.blocks :
              /\ c.handle \in 1 .. next_handle' - 1
              /\ c.handle \in ViewHandles' => c.blocks[i].from = view_relations'[c.handle]
<1>1. next_handle \in Nat \ {0} /\ next_handle' \in {next_handle, next_handle + 1}
  BY ArenaKeeps, MaxHandleAssumption DEF ArenaInv, ArenaTypeOK
<1>2. ASSUME c.handle \in 1 .. next_handle - 1, c.handle \in ViewHandles'
      PROVE  c.handle \in ViewHandles /\ view_relations'[c.handle] = view_relations[c.handle]
  <2>1. c.handle # next_handle
    BY <1>1, <1>2
  <2> QED BY <1>2, <2>1, ArenaKeeps
<1>3. \A i \in DOMAIN c.blocks : c.handle \in 1 .. next_handle - 1
  BY DEF BlocksOf
<1>4. c.handle \in 1 .. next_handle - 1 => c.handle \in 1 .. next_handle' - 1
  BY <1>1
<1> QED BY <1>2, <1>3, <1>4 DEF BlocksOf

\* What a step does to one thread's blocks: drops them, leaves them, or adds one.
LEMMA BlocksMove ==
  ASSUME ControlInv, [Next]_vars, NEW u \in Threads
  PROVE  \/ call'[u].blocks = << >>
         \/ call'[u] = call[u]
         \/ /\ call[u].handle \in ViewHandles
            /\ call'[u].handle = call[u].handle
            /\ \E src : call'[u].blocks = Append(call[u].blocks,
                          [source |-> src, from |-> view_relations[call[u].handle]])
            /\ UNCHANGED arenaVars
<1>1. ASSUME NEW t \in Threads, NEW req \in Requests, begin_materialize(t, req)
      PROVE  call'[u].blocks = << >> \/ call'[u] = call[u]
  <2>1. CASE Hold(t, "bind_features", next_handle)
    BY <1>1, <2>1, HoldControl DEF begin_materialize, lock_arenas, Steps
  <2>2. CASE UNCHANGED <<lock, call>>
    BY <2>2
  <2> QED BY <1>1, <2>1, <2>2 DEF begin_materialize
<1>2. ASSUME NEW t \in Threads, NEW d \in DataHandles, NEW view \in Views,
             provider_make_view(t, d, view)
      PROVE  call'[u] = call[u]
  BY <1>2 DEF provider_make_view, providerVars
<1>3. ASSUME NEW t \in Threads, NEW h \in 1 .. MaxHandle, begin_release(t, h)
      PROVE  call'[u].blocks = << >> \/ call'[u] = call[u]
  BY <1>3, HoldControl DEF begin_release, lock_arenas, Steps
<1>4. ASSUME NEW t \in Threads, NEW c, FusionMove(t, c)
      PROVE  \/ call'[u].blocks = << >>
             \/ call'[u] = call[u]
             \/ /\ call[u].handle \in ViewHandles
                /\ call'[u].handle = call[u].handle
                /\ \E src : call'[u].blocks = Append(call[u].blocks,
                              [source |-> src, from |-> view_relations[call[u].handle]])
                /\ UNCHANGED arenaVars
  <2>1. call'[t] = c /\ \A w \in Threads \ {t} : call'[w] = call[w]
    BY <1>4, FusionControl
  <2>2. CASE u # t
    BY <2>1, <2>2
  <2>3. CASE u = t
    BY <1>4, <2>1, <2>3 DEF FusionMove
  <2> QED BY <2>2, <2>3
<1>5. ASSUME NEW t \in Threads, Return(t), call[t].op \in Steps
      PROVE  call'[u].blocks = << >> \/ call'[u] = call[u]
  <2>1. call'[t] = Idle /\ \A w \in Threads \ {t} : call'[w] = call[w]
    BY <1>5, CallSet DEF Return
  <2>2. Idle.blocks = << >>
    BY DEF Idle
  <2> QED BY <2>1, <2>2
<1>6. ASSUME NEW t \in Threads, bind_features(t) \/ bind_tensors(t) \/ release_features(t)
                                \/ release_tensors(t)
      PROVE  call'[u].blocks = << >> \/ call'[u] = call[u]
  <2>1. /\ call[t].op \in Steps /\ UNCHANGED envelope
        /\ Return(t) \/ \E op \in Steps : \E h : Hold(t, op, h)
    BY <1>6 DEF bind_features, bind_tensors, release_features, release_tensors, Steps
  <2> QED BY <1>5, <2>1, InStep, HoldControl
<1>7. ASSUME NEW t \in Threads, panic(t)
      PROVE  call'[u].blocks = << >> \/ call'[u] = call[u]
  <2>1. PICK c : c = At("panicked", call[t].handle)
    OBVIOUS
  <2>2. c.blocks = << >>
    BY <2>1 DEF At
  <2>3. call'[t] = c /\ \A w \in Threads \ {t} : call'[w] = call[w]
    BY <1>7, <2>1, CallSet DEF panic
  <2> QED BY <2>2, <2>3
<1>8. CASE UNCHANGED vars
  BY <1>8 DEF vars, providerVars
<1> QED BY <1>1, <1>2, <1>3, <1>4, <1>6, <1>7, <1>8, FusionEnds, FusionReads
        DEF Next, Continue

\* Every step keeps the blocks of each fusion those of one view.
LEMMA FusionStep == ArenaInv /\ ControlInv /\ FusionInv /\ [Next]_vars => FusionInv'
<1> SUFFICES ASSUME ArenaInv, ControlInv, FusionInv, [Next]_vars, NEW u \in Threads
             PROVE  BlocksOf(call[u])'
  BY DEF FusionInv
<1>0. [ArenaNext]_arenaVars
  BY ArenaMoves DEF ArenaNext, ControlInv
<1>1. PICK c, d : c = call[u] /\ d = call'[u]
  OBVIOUS
<1>2. BlocksOf(c)
  BY <1>1 DEF FusionInv
<1>3. BlocksOf(d) /\ UNCHANGED arenaVars => BlocksOf(call[u])'
  BY <1>1 DEF BlocksOf, arenaVars, ViewHandles
<1>4. CASE d.blocks = << >>
  <2>1. DOMAIN d.blocks = {} /\ d.blocks \in Seq({})
    BY <1>4
  <2> QED BY <1>1, <2>1 DEF BlocksOf
<1>5. CASE d = c
  <2>1. /\ \E S : c.blocks \in Seq(S)
        /\ \A i, j \in DOMAIN c.blocks : c.blocks[i].from = c.blocks[j].from
        /\ \A i \in DOMAIN c.blocks :
             /\ c.handle \in 1 .. next_handle' - 1
             /\ c.handle \in ViewHandles' => c.blocks[i].from = view_relations'[c.handle]
    BY <1>0, <1>2, BlocksRest
  <2> QED BY <1>1, <1>5, <2>1 DEF BlocksOf
<1>6. CASE /\ c.handle \in ViewHandles /\ d.handle = c.handle /\ UNCHANGED arenaVars
           /\ \E src : d.blocks = Append(c.blocks, [source |-> src,
                                                    from |-> view_relations[c.handle]])
  BY <1>2, <1>3, <1>6, OneMoreBlock
<1> QED BY <1>1, <1>4, <1>5, <1>6, BlocksMove

(***************************************************************************)
(* The inductive invariant.                                                *)
(***************************************************************************)

ProviderInv ==
  ArenaInv /\ ControlInv /\ RowsInv /\ StepsInv /\ BoundInv /\ FusionInv

\* A new provider has no handles, bindings or calls.
LEMMA ProviderInit == Init => ProviderInv
<1> SUFFICES ASSUME Init PROVE ProviderInv
  OBVIOUS
<1>1. ArenaInv /\ ControlInv
  BY InitInv, InitControl DEF Init
<1>2. /\ DOMAIN data_relations = {} /\ DOMAIN features = {} /\ DOMAIN nd_tensors = {}
  BY DEF Init, ArenaInit
<1>3. RowsInv /\ BoundInv /\ ArenasInStep
  BY <1>2 DEF RowsInv, BoundInv, BoundBy, ArenasInStep
<1>4. \A t \in Threads : call[t].op = "idle" /\ call[t].blocks = << >>
  BY DEF Init, Idle
<1>5. \A t \in Threads : Apart(call[t].op, call[t].handle)
  BY <1>4 DEF Apart
<1>6. FusionInv
  BY <1>4, NoBlocks DEF FusionInv
<1> QED BY <1>1, <1>3, <1>5, <1>6 DEF ProviderInv, StepsInv

\* What the provider's threads keep true between all their steps, inside and
\* outside the lock.
THEOREM ProviderInvariant == Spec => []ProviderInv
<1>1. ProviderInv /\ [Next]_vars => ProviderInv'
  <2> SUFFICES ASSUME ProviderInv, [Next]_vars PROVE ProviderInv'
    OBVIOUS
  <2>1. [ArenaNext]_arenaVars /\ envelope \in Envelopes
    BY ArenaMoves DEF ArenaNext, ControlInv, ProviderInv
  <2>2. ArenaInv'
    BY <2>1, StepInv DEF ProviderInv
  <2>3. ControlInv' /\ RowsInv' /\ FusionInv'
    BY <2>1, ControlStep, RowsInvStep, FusionStep DEF ProviderInv
  <2>4. StepsInv' /\ BoundInv'
    BY <2>3, StepsInvStep, BoundStep DEF ProviderInv
  <2> QED BY <2>2, <2>3, <2>4 DEF ProviderInv
<1> QED BY <1>1, ProviderInit, PTL DEF Spec

\* The comment on InMemoryProvider::arenas: whoever takes the lock finds the
\* handle arena and both binding arenas with the same data handles.
THEOREM ArenasStayInStep == Spec => []ArenasInStep
<1>1. ProviderInv => ArenasInStep
  BY DEF ProviderInv, StepsInv
<1> QED BY <1>1, ProviderInvariant, PTL

\* One view to a fused matrix: feature_fusion_block drops the lock between
\* its sources and may find the view released, but never another view.
THEOREM FusionsReadOneView == Spec => []FusionReadsOneView
<1>1. ProviderInv => FusionReadsOneView
  BY DEF ProviderInv, FusionInv, BlocksOf, FusionReadsOneView
<1> QED BY <1>1, ProviderInvariant, PTL

\* The type invariant: handles below the counter, a thread in a step exactly
\* while it holds the lock, and bindings of buffers of the stores.
THEOREM ProviderTyped == Spec => []TypeOK
<1>1. ProviderInv => TypeOK
  BY DEF ProviderInv, ArenaInv, ControlInv, BoundInv, BoundBy, TypeOK
<1> QED BY <1>1, ProviderInvariant, PTL

(***************************************************************************)
(* Bindings and the views taken later.                                     *)
(***************************************************************************)

\* Bindings made over some rows cover every part of them whose rows all have
\* a source, and every part if no row has one.
LEMMA BindingsCover ==
  ASSUME NEW store, NEW rels, NEW repr, NEW part \in SUBSET rels,
         (\A r \in part : r.source # None) \/ SourceIds(rels) = {},
         NEW b \in DOMAIN BindingsFor(store, rels, repr),
         NEW src, BoundSources(BindingsFor(store, rels, repr), b, part, src)
  PROVE  RowsStored(store[b], part, src)
<1>1. /\ Binds(store[b], rels, repr)
      /\ BindingsFor(store, rels, repr)[b] = CoveredSources(store[b], rels)
  BY DEF BindingsFor
<1>2. (IF src = None THEN SourceIds(part) ELSE {src}) \subseteq CoveredSources(store[b], rels)
  BY <1>1 DEF BoundSources
<1> SUFFICES ASSUME NEW r \in part, src # None => r.source = src
             PROVE  r.obs \in store[b].rows
  BY DEF RowsStored, Scoped, Observations
<1>3. CASE SourceIds(rels) = {}
  BY <1>1, <1>3 DEF Binds, Observations
<1>4. CASE SourceIds(rels) # {}
  <2>1. r.source # None
    BY <1>4
  <2>2. r.source \in CoveredSources(store[b], rels)
    BY <1>2, <2>1 DEF SourceIds
  <2> QED BY <2>2 DEF CoveredSources
<1> QED BY <1>3, <1>4

\* A buffer bound once, when the data handle was materialized, has every row
\* of every view taken of that handle later over the sources it is bound to.
THEOREM BindingsServeViews == Spec => []BindingsCoverViews
<1>1. ProviderInv => BindingsCoverViews
  <2> SUFFICES ASSUME ProviderInv, NEW v \in ViewHandles,
                      (\A r \in view_relations[v] : r.source # None)
                        \/ SourceIds(data_relations[view_records[v].parent]) = {}
               PROVE  /\ view_records[v].parent \in DOMAIN features =>
                           \A b \in DOMAIN features[view_records[v].parent],
                              src \in SourceIds(view_relations[v]) \cup {None} :
                             BoundSources(features[view_records[v].parent], b,
                                          view_relations[v], src) =>
                               RowsStored(FeatureStore[b], view_relations[v], src)
                      /\ view_records[v].parent \in DOMAIN nd_tensors =>
                           \A b \in DOMAIN nd_tensors[view_records[v].parent],
                              src \in SourceIds(view_relations[v]) \cup {None} :
                             BoundSources(nd_tensors[view_records[v].parent], b,
                                          view_relations[v], src) =>
                               RowsStored(TensorStore[b], view_relations[v], src)
    BY DEF BindingsCoverViews
  <2>1. PICK d, rels, part, repr :
          /\ d = view_records[v].parent /\ rels = data_relations[d]
          /\ part = view_relations[v] /\ repr = records[d].request.output
    OBVIOUS
  <2>2. d \in DOMAIN data_relations /\ part \in SUBSET rels
    BY <2>1 DEF ProviderInv, ArenaInv, ArenaConsistent, ParentsLive, ViewsWithinParents
  <2>3. d \in DOMAIN features => features[d] = BindingsFor(FeatureStore, rels, repr)
    BY <2>1, <2>2 DEF ProviderInv, BoundInv, BoundBy
  <2>4. d \in DOMAIN nd_tensors => nd_tensors[d] = BindingsFor(TensorStore, rels, repr)
    BY <2>1, <2>2 DEF ProviderInv, BoundInv, BoundBy
  <2>5. (\A r \in part : r.source # None) \/ SourceIds(rels) = {}
    BY <2>1
  <2>6. d \in DOMAIN features =>
          \A b \in DOMAIN features[d], src \in SourceIds(part) \cup {None} :
            BoundSources(features[d], b, part, src) => RowsStored(FeatureStore[b], part, src)
    BY <2>2, <2>3, <2>5, BindingsCover
  <2>7. d \in DOMAIN nd_tensors =>
          \A b \in DOMAIN nd_tensors[d], src \in SourceIds(part) \cup {None} :
            BoundSources(nd_tensors[d], b, part, src) => RowsStored(TensorStore[b], part, src)
    BY <2>2, <2>4, <2>5, BindingsCover
  <2> QED BY <2>1, <2>6, <2>7
<1> QED BY <1>1, ProviderInvariant, PTL

(***************************************************************************)
(* Training and external-test rows.                                        *)
(***************************************************************************)

\* The identities of some training rows are among those validate_disjoint
\* compares.
LEMMA TrainingIdentities ==
  ASSUME NEW training, NEW rels \in SUBSET training
  PROVE  Identities(rels) \subseteq
           PhysicalIds(training) \cup ({r.origin : r \in training} \ {None})
BY DEF Identities, PhysicalIds, OriginIds, OriginOf

\* So are those of some rows of a cohort.
LEMMA CohortIdentities ==
  ASSUME NEW c, ValidCohort(c), NEW rels \in SUBSET c.relations
  PROVE  Identities(rels) \subseteq c.physical \cup c.origins
BY DEF ValidCohort, Identities, PhysicalIds, OriginIds

\* No sample reaches both a fitting handle and an external-test handle of one
\* provider, by itself or through its origin, whatever the host asks for.
THEOREM TrainAndTestStaySeparate == Spec => []TrainTestSeparation
<1>1. ProviderInv => TrainTestSeparation
  <2> SUFFICES ASSUME ProviderInv, NEW d \in FitHandles, NEW e \in TestHandles
               PROVE  Identities(data_relations[d]) \cap Identities(data_relations[e]) = {}
    BY DEF TrainTestSeparation
  <2>1. PICK env : env = envelope
    OBVIOUS
  <2>2. data_relations[d] \subseteq env.cv
    <3>1. ~ReadsCohort(env, records[d].request)
      BY DEF FitHandles, ReadsCohort
    <3>2. data_relations[d] \subseteq MaterializationRelations(env, records[d].request)
      BY <2>1 DEF ProviderInv, RowsInv, FitHandles
    <3> QED BY <3>1, <3>2 DEF MaterializationRelations
  <2>3. /\ data_relations[e] \subseteq env.cohort.relations
        /\ env.cohort # None /\ env.cohort.role = "external_test"
    <3>1. ReadsCohort(env, records[e].request)
      BY <2>1 DEF TestHandles
    <3>2. data_relations[e] \subseteq MaterializationRelations(env, records[e].request)
      BY <2>1 DEF ProviderInv, RowsInv, TestHandles
    <3> QED BY <2>1, <3>1, <3>2 DEF MaterializationRelations, TestHandles
  <2>4. ValidCohort(env.cohort) /\ DisjointFromTraining(env.cohort, env.cv)
    BY <2>1, <2>3 DEF ProviderInv, ControlInv, ValidEnvelope
  <2>5. (env.cohort.physical \cup env.cohort.origins) \cap
          (PhysicalIds(env.cv) \cup ({r.origin : r \in env.cv} \ {None})) = {}
    BY <2>3, <2>4 DEF DisjointFromTraining
  <2>6. /\ Identities(data_relations[d]) \subseteq
             PhysicalIds(env.cv) \cup ({r.origin : r \in env.cv} \ {None})
        /\ Identities(data_relations[e]) \subseteq env.cohort.physical \cup env.cohort.origins
    BY <2>2, <2>3, <2>4, TrainingIdentities, CohortIdentities
  <2> QED BY <2>5, <2>6
<1> QED BY <1>1, ProviderInvariant, PTL

(***************************************************************************)
(* Seen from outside the lock: PublishesAtomically.                        *)
(***************************************************************************)

\* Only the thread that poisoned the lock has panicked.
PanicInv == \A t \in Threads : call[t].op = "panicked" => lock = "poisoned"

\* What a step does to the record of one thread, as far as Unpublished sees it.
LEMMA PanicStep == ControlInv /\ PanicInv /\ [Next]_vars => PanicInv'
<1> SUFFICES ASSUME ControlInv, PanicInv, [Next]_vars PROVE PanicInv'
  OBVIOUS
<1>1. ASSUME NEW t \in Threads, NEW req \in Requests, begin_materialize(t, req)
      PROVE  PanicInv'
  <2>1. CASE Hold(t, "bind_features", next_handle)
    BY <1>1, <2>1, HoldControl DEF begin_materialize, lock_arenas, Steps, PanicInv
  <2>2. CASE UNCHANGED <<lock, call>>
    BY <2>2 DEF PanicInv
  <2> QED BY <1>1, <2>1, <2>2 DEF begin_materialize
<1>2. ASSUME NEW t \in Threads, NEW d \in DataHandles, NEW view \in Views,
             provider_make_view(t, d, view)
      PROVE  PanicInv'
  BY <1>2 DEF provider_make_view, providerVars, PanicInv
<1>3. ASSUME NEW t \in Threads, NEW h \in 1 .. MaxHandle, begin_release(t, h)
      PROVE  PanicInv'
  BY <1>3, HoldControl DEF begin_release, lock_arenas, Steps, PanicInv
<1>4. ASSUME NEW t \in Threads, NEW c, FusionMove(t, c) PROVE PanicInv'
  <2>1. call'[t] = c /\ (\A w \in Threads \ {t} : call'[w] = call[w]) /\ lock' = lock
    BY <1>4, FusionControl DEF FusionMove
  <2>2. c.op # "panicked"
    BY <1>4 DEF FusionMove
  <2> QED BY <2>1, <2>2 DEF PanicInv
<1>5. ASSUME NEW t \in Threads, bind_features(t) \/ bind_tensors(t) \/ release_features(t)
                                \/ release_tensors(t)
      PROVE  PanicInv'
  <2>1. /\ call[t].op \in Steps /\ UNCHANGED envelope
        /\ Return(t) \/ \E op \in Steps : \E h : Hold(t, op, h)
    BY <1>5 DEF bind_features, bind_tensors, release_features, release_tensors, Steps
  <2>2. lock = t /\ lock # "poisoned"
    BY <2>1, InStep
  <2>3. \A u \in Threads : call[u].op # "panicked"
    BY <2>2 DEF PanicInv
  <2>4. CASE Return(t)
    <3>1. call'[t] = Idle /\ \A w \in Threads \ {t} : call'[w] = call[w]
      BY <2>1, <2>2, <2>4, ReturnControl
    <3>2. Idle.op # "panicked"
      BY DEF Idle
    <3> QED BY <2>3, <3>1, <3>2 DEF PanicInv
  <2>5. CASE \E op \in Steps : \E h : Hold(t, op, h)
    BY <2>1, <2>2, <2>3, <2>5, HoldControl DEF PanicInv, Steps
  <2> QED BY <2>1, <2>4, <2>5
<1>6. ASSUME NEW t \in Threads, panic(t) PROVE PanicInv'
  BY <1>6 DEF panic, PanicInv
<1>7. CASE UNCHANGED vars
  BY <1>7 DEF vars, providerVars, PanicInv
<1> QED BY <1>1, <1>2, <1>3, <1>4, <1>5, <1>6, <1>7, FusionEnds, FusionReads
        DEF Next, Continue

\* What is not yet published: nothing while the lock is free or held by a
\* release, and the handle being bound while it is held by a materialize.
LEMMA UnpublishedIs ==
  ASSUME ControlInv, PanicInv
  PROVE  /\ lock = "free" => Unpublished = {}
         /\ \A t \in Threads : lock = t =>
              Unpublished = IF call[t].op \in {"bind_features", "bind_tensors"}
                            THEN {call[t].handle} ELSE {}
<1>1. ASSUME lock # "poisoned"
      PROVE  \A u \in Threads : call[u].op # "panicked"
  BY <1>1 DEF PanicInv
<1>2. \A u \in Threads : call[u].op \in {"bind_features", "bind_tensors"} => lock = u
  BY DEF ControlInv, Steps
<1>3. ASSUME lock = "free" PROVE Unpublished = {}
  BY <1>1, <1>2, <1>3, ThreadsAssumption DEF Unpublished
<1>4. ASSUME NEW t \in Threads, lock = t
      PROVE  Unpublished = IF call[t].op \in {"bind_features", "bind_tensors"}
                           THEN {call[t].handle} ELSE {}
  <2>1. \A u \in Threads : call[u].op # "panicked"
    BY <1>1, <1>4, ThreadsAssumption
  <2>2. {u \in Threads : \/ call[u].op \in {"bind_features", "bind_tensors"}
                         \/ /\ call[u].op = "panicked"
                            /\ call[u].handle \in DataHandles}
          = IF call[t].op \in {"bind_features", "bind_tensors"} THEN {t} ELSE {}
    BY <1>2, <1>4, <2>1
  <2> QED BY <2>2 DEF Unpublished
<1> QED BY <1>3, <1>4

\* The abstract state the provider shows.
Shown  == [h \in LiveHandles \ Unpublished |-> RegistryView[h]]
Issued == (1 .. next_handle - 1) \ Unpublished

\* A step of the registry from one abstract state to another.
RegistryStep(live, after, issued, then) ==
  \E h \in 1 .. MaxHandle :
    \/ /\ h \notin issued /\ then = issued \cup {h}
       /\ \E rows \in (SUBSET EnvelopeRows) \cup {None} :
            after = [x \in DOMAIN live \cup {h} |->
                       IF x = h THEN [parent |-> None, rows |-> rows] ELSE live[x]]
    \/ \E d \in DOMAIN live :
         /\ h \notin issued /\ then = issued \cup {h}
         /\ live[d].parent = None
         /\ live[d].rows # None
         /\ \E rows \in (SUBSET live[d].rows) \ {{}} :
              after = [x \in DOMAIN live \cup {h} |->
                         IF x = h THEN [parent |-> d, rows |-> rows] ELSE live[x]]
    \/ /\ h \in DOMAIN live
       /\ after = [x \in {y \in DOMAIN live : y # h /\ live[y].parent # h} |-> live[x]]
       /\ then = issued

\* The registry step of the arena, in this form.
LEMMA RegistryNextIs ==
  Registry!Next <=> RegistryStep(RegistryView, RegistryView', 1 .. next_handle - 1,
                                 (1 .. next_handle - 1)')
BY DEF RegistryStep, Registry!Next, Registry!Open, Registry!Derive, Registry!Close,
       Registry!Issue, Registry!Bind

\* The registry step of what the provider shows, in this form.
LEMMA PublishedNextIs ==
  Published!Next <=> RegistryStep(Shown, Shown', Issued, Issued')
BY DEF RegistryStep, Published!Next, Published!Open, Published!Derive, Published!Close,
       Published!Issue, Published!Bind, Shown, Issued

\* With nothing unpublished the provider shows the arena's registry.
LEMMA ShownWhole ==
  ASSUME ArenaInv, Unpublished = {}
  PROVE  Shown = RegistryView /\ Issued = 1 .. next_handle - 1
<1>1. RegistryView = [h \in LiveHandles |-> RegistryView[h]]
  BY DEF RegistryView
<1> QED BY <1>1 DEF Shown, Issued

\* The same in the next state.
LEMMA ShownWholeNext ==
  ASSUME ArenaInv', Unpublished' = {}
  PROVE  Shown' = RegistryView' /\ Issued' = (1 .. next_handle - 1)'
<1>1. RegistryView' = [h \in LiveHandles' |-> RegistryView'[h]]
  BY DEF RegistryView
<1> QED BY <1>1 DEF Shown, Issued

\* A step that leaves the arena and what is unpublished alone shows nothing.
LEMMA ShownRests ==
  ASSUME UNCHANGED arenaVars, Unpublished' = Unpublished
  PROVE  Shown' = Shown /\ Issued' = Issued
<1>1. LiveHandles' = LiveHandles /\ RegistryView' = RegistryView
  BY DEF arenaVars, LiveHandles, DataHandles, ViewHandles, RegistryView
<1>2. next_handle' = next_handle
  BY DEF arenaVars
<1> QED BY <1>1, <1>2 DEF Shown, Issued

\* A fusion publishes nothing and hides nothing.
LEMMA FusionUnpublished ==
  ASSUME ControlInv, NEW t \in Threads, NEW c, FusionMove(t, c)
  PROVE  UNCHANGED arenaVars /\ Unpublished' = Unpublished
<1>1. /\ call'[t] = c /\ \A w \in Threads \ {t} : call'[w] = call[w]
      /\ UNCHANGED arenaVars
  BY FusionControl DEF FusionMove
<1>2. /\ c.op \notin {"bind_features", "bind_tensors", "panicked"}
      /\ call[t].op \notin {"bind_features", "bind_tensors", "panicked"}
  BY DEF FusionMove
<1>3. DataHandles' = DataHandles
  BY <1>1 DEF arenaVars, DataHandles
<1>4. PICK before, after : before = call /\ after = call'
  OBVIOUS
<1>5. {u \in Threads : \/ after[u].op \in {"bind_features", "bind_tensors"}
                       \/ /\ after[u].op = "panicked" /\ after[u].handle \in DataHandles}
      = {u \in Threads : \/ before[u].op \in {"bind_features", "bind_tensors"}
                         \/ /\ before[u].op = "panicked" /\ before[u].handle \in DataHandles}
  BY <1>1, <1>2, <1>4
<1>6. \A u \in {u \in Threads :
                  \/ before[u].op \in {"bind_features", "bind_tensors"}
                  \/ /\ before[u].op = "panicked" /\ before[u].handle \in DataHandles} :
        after[u].handle = before[u].handle
  BY <1>1, <1>2, <1>4
<1>7. Unpublished = {before[u].handle : u \in
            {u \in Threads : \/ before[u].op \in {"bind_features", "bind_tensors"}
                             \/ /\ before[u].op = "panicked"
                                /\ before[u].handle \in DataHandles}}
  BY <1>4 DEF Unpublished
<1>8. Unpublished' = {after[u].handle : u \in
            {u \in Threads : \/ after[u].op \in {"bind_features", "bind_tensors"}
                             \/ /\ after[u].op = "panicked"
                                /\ after[u].handle \in DataHandles}}
  BY <1>3, <1>4 DEF Unpublished
<1> QED BY <1>1, <1>5, <1>6, <1>7, <1>8

\* A materialize that goes on to its bindings shows nothing yet.
LEMMA HiddenMaterialize ==
  ASSUME ArenaInv, ArenaInv', NEW e \in Envelopes, NEW req \in Requests,
         Materialized(e, req), Unpublished = {}, Unpublished' = {next_handle}
  PROVE  Shown' = Shown /\ Issued' = Issued
<1>1. PICK h : h = next_handle
  OBVIOUS
<1>2. /\ LiveHandles' = LiveHandles \cup {h} /\ h \notin LiveHandles
      /\ DataHandles' = DataHandles \cup {h} /\ ViewHandles' = ViewHandles
  BY <1>1, NextIsFree DEF Materialized, LiveHandles, DataHandles, ViewHandles
<1>3. \A x \in LiveHandles : RegistryView'[x] = RegistryView[x]
  <2>1. \A x \in DataHandles : RowsOf(x)' = RowsOf(x)
    BY <1>1, <1>2 DEF RowsOf, Materialized, LiveHandles
  <2>2. \A x \in DataHandles : RegistryView'[x] = RegistryView[x]
    BY <2>1, <1>2, Entries, NextEntries
  <2>3. \A x \in ViewHandles : RegistryView'[x] = RegistryView[x]
    BY <1>2, Entries, NextEntries DEF Materialized
  <2> QED BY <2>2, <2>3 DEF LiveHandles
<1>4. LiveHandles' \ {h} = LiveHandles
  BY <1>2
<1>5. (1 .. next_handle' - 1) \ {h} = 1 .. next_handle - 1
  BY <1>1, IssuedGrows DEF Materialized
<1>6. Shown' = [x \in LiveHandles |-> RegistryView'[x]]
  BY <1>1, <1>4 DEF Shown
<1>7. Shown = [x \in LiveHandles |-> RegistryView[x]]
  BY DEF Shown
<1> QED BY <1>1, <1>3, <1>5, <1>6, <1>7 DEF Issued

\* The last binding publishes the handle: it is opened, with its rows.
LEMMA PublishHandle ==
  ASSUME RefinementInv, UNCHANGED arenaVars, NEW h \in DOMAIN data_relations,
         Unpublished = {h}, Unpublished' = {}
  PROVE  Published!Next
<1> ArenaInv /\ RowsKnown
  BY DEF RefinementInv
<1>1. /\ h \in DataHandles /\ h \in LiveHandles /\ h \in 1 .. next_handle - 1
      /\ h \in 1 .. MaxHandle
  BY MaxHandleAssumption DEF ArenaInv, ArenaTypeOK, ArenaConsistent, MapsInLockStep, LiveHandles
<1>2. RegistryView[h] = [parent |-> None, rows |-> data_relations[h]]
  BY <1>1, Entries DEF RowsOf
<1>3. data_relations[h] \in SUBSET EnvelopeRows
  BY DEF RowsKnown
<1>4. LiveHandles' = LiveHandles /\ RegistryView' = RegistryView /\ next_handle' = next_handle
  BY DEF arenaVars, LiveHandles, DataHandles, ViewHandles, RegistryView
<1>5. PICK whole, rows : whole = RegistryView /\ rows = data_relations[h]
  OBVIOUS
<1>6. /\ Shown = [x \in LiveHandles \ {h} |-> whole[x]]
      /\ Shown' = [x \in LiveHandles |-> whole[x]]
      /\ Issued = (1 .. next_handle - 1) \ {h} /\ Issued' = 1 .. next_handle - 1
  BY <1>4, <1>5 DEF Shown, Issued
<1>7. Shown' = [x \in DOMAIN Shown \cup {h} |->
                  IF x = h THEN [parent |-> None, rows |-> rows] ELSE Shown[x]]
  <2>1. DOMAIN Shown = LiveHandles \ {h} /\ \A x \in LiveHandles \ {h} : Shown[x] = whole[x]
    BY <1>6
  <2>2. LiveHandles = (LiveHandles \ {h}) \cup {h}
    BY <1>1
  <2>3. whole[h] = [parent |-> None, rows |-> rows]
    BY <1>2, <1>5
  <2> QED BY <1>6, <2>1, <2>2, <2>3
<1>8. h \notin Issued /\ Issued' = Issued \cup {h}
  BY <1>1, <1>6
<1>9. RegistryStep(Shown, Shown', Issued, Issued')
  BY <1>1, <1>3, <1>5, <1>7, <1>8 DEF RegistryStep
<1> QED BY <1>9, PublishedNextIs

\* UnpublishedIs, as a fact of a state and of the next.
UnpublishedFacts ==
  /\ lock = "free" => Unpublished = {}
  /\ \A t \in Threads : lock = t =>
       Unpublished = IF call[t].op \in {"bind_features", "bind_tensors"}
                     THEN {call[t].handle} ELSE {}

\* The facts in the present state.
LEMMA UnpublishedHolds == ControlInv /\ PanicInv => UnpublishedFacts
BY UnpublishedIs DEF UnpublishedFacts

\* The facts in the next state.
LEMMA UnpublishedNext == ControlInv' /\ PanicInv' => UnpublishedFacts'
<1>1. ControlInv /\ PanicInv => UnpublishedFacts
  BY UnpublishedHolds
<1> QED BY <1>1, PTL

PublishInv == ProviderInv /\ RefinementInv /\ PanicInv

\* With nothing unpublished before or after, a step of the registry is one of
\* what the provider shows.
LEMMA WholeStep ==
  ASSUME ArenaInv, ArenaInv', Unpublished = {}, Unpublished' = {},
         Registry!Next
  PROVE  Published!Next
BY ShownWhole, ShownWholeNext, RegistryNextIs, PublishedNextIs

\* A panic publishes nothing: the handle it was binding stays hidden for good.
LEMMA PanicHides ==
  ASSUME ControlInv, PanicInv, StepsInv, ArenaInv, NEW t \in Threads, panic(t)
  PROVE  UNCHANGED arenaVars /\ Unpublished' = Unpublished
<1>1. PICK c, h : h = call[t].handle /\ c = At("panicked", h)
  OBVIOUS
<1>2. c.op = "panicked" /\ c.handle = h
  BY <1>1 DEF At
<1>3. call'[t] = c /\ (\A w \in Threads \ {t} : call'[w] = call[w]) /\ lock = t
  BY <1>1, CallSet DEF panic
<1>4. UNCHANGED arenaVars /\ DataHandles' = DataHandles
  BY DEF panic, arenaVars, DataHandles
<1>5. Unpublished = IF call[t].op \in {"bind_features", "bind_tensors"} THEN {h} ELSE {}
  BY <1>1, <1>3, UnpublishedIs
<1>6. \A w \in Threads \ {t} :
        call[w].op \notin {"bind_features", "bind_tensors", "panicked"}
  <2>1. \A w \in Threads \ {t} : call[w].op \notin Steps
    BY <1>3 DEF ControlInv
  <2>2. \A w \in Threads : call[w].op # "panicked"
    BY <1>3, ThreadsAssumption DEF PanicInv
  <2> QED BY <2>1, <2>2 DEF Steps
<1>7. call[t].op \in {"bind_features", "bind_tensors"} <=> h \in DataHandles
  <2>1. call[t].op \in Steps /\ Apart(call[t].op, h)
    BY <1>1, <1>3 DEF ControlInv, StepsInv
  <2>2. DOMAIN data_relations \subseteq DataHandles
    BY DEF ArenaInv, ArenaConsistent, MapsInLockStep
  <2> QED BY <2>1, <2>2 DEF Apart, Steps
<1>8. PICK after : after = call'
  OBVIOUS
<1>9. {u \in Threads : \/ after[u].op \in {"bind_features", "bind_tensors"}
                       \/ /\ after[u].op = "panicked" /\ after[u].handle \in DataHandles}
      = IF h \in DataHandles THEN {t} ELSE {}
  BY <1>2, <1>3, <1>6, <1>8
<1>10. Unpublished' = {after[u].handle : u \in
          {u \in Threads : \/ after[u].op \in {"bind_features", "bind_tensors"}
                           \/ /\ after[u].op = "panicked"
                              /\ after[u].handle \in DataHandles}}
  BY <1>4, <1>8 DEF Unpublished
<1>11. after[t].handle = h
  BY <1>2, <1>3, <1>8
<1> QED BY <1>4, <1>5, <1>7, <1>9, <1>10, <1>11

\* Every step of the provider shows a step of the registry or a stutter.
LEMMA PublishStep ==
  PublishInv /\ PublishInv' /\ [Next]_vars => [Published!Next]_Published!registryVars
<1> SUFFICES ASSUME PublishInv, PublishInv', [Next]_vars
             PROVE  Published!Next \/ (Shown' = Shown /\ Issued' = Issued)
  BY DEF Published!registryVars, Shown, Issued
<1> /\ ArenaInv /\ ControlInv /\ StepsInv /\ RowsInv /\ RefinementInv /\ PanicInv
    /\ UnpublishedFacts
  BY UnpublishedHolds DEF PublishInv, ProviderInv
<1> ArenaInv' /\ ControlInv' /\ RefinementInv' /\ UnpublishedFacts'
  BY UnpublishedNext DEF PublishInv, ProviderInv
<1>1. ASSUME NEW t \in Threads, NEW req \in Requests, begin_materialize(t, req)
      PROVE  Published!Next \/ (Shown' = Shown /\ Issued' = Issued)
  <2>1. /\ Materialized(envelope, req) /\ envelope \in Envelopes
        /\ lock = "free" /\ Unpublished = {}
    BY <1>1, MaterializeEffect DEF begin_materialize, lock_arenas, ControlInv, UnpublishedFacts
  <2>2. CASE next_handle \in DOMAIN data_relations'
    <3>1. Hold(t, "bind_features", next_handle) /\ UNCHANGED envelope
      BY <1>1, <2>2 DEF begin_materialize
    <3>2. lock' = t /\ call'[t].op = "bind_features" /\ call'[t].handle = next_handle
      BY <2>1, <3>1, HoldControl DEF Steps
    <3>3. Unpublished' = {next_handle}
      BY <3>2 DEF UnpublishedFacts
    <3> QED BY <2>1, <3>3, HiddenMaterialize
  <2>3. CASE next_handle \notin DOMAIN data_relations'
    <3>1. lock' = "free"
      BY <1>1, <2>1, <2>3 DEF begin_materialize
    <3>2. Unpublished' = {}
      BY <3>1 DEF UnpublishedFacts
    <3>3. Registry!Next
      BY <2>1, OpenStep
    <3> QED BY <2>1, <3>2, <3>3, WholeStep
  <2> QED BY <2>2, <2>3
<1>2. ASSUME NEW t \in Threads, NEW d \in DataHandles, NEW view \in Views,
             provider_make_view(t, d, view)
      PROVE  Published!Next \/ (Shown' = Shown /\ Issued' = Issued)
  <2>1. lock = "free" /\ lock' = "free" /\ ViewMade(d, view)
    BY <1>2, MakeViewEffect DEF provider_make_view, providerVars, lock_arenas
  <2>2. Registry!Next
    BY <2>1, DeriveStep
  <2> QED BY <2>1, <2>2, WholeStep DEF UnpublishedFacts
<1>3. ASSUME NEW t \in Threads, NEW h \in 1 .. MaxHandle, begin_release(t, h)
      PROVE  Published!Next \/ (Shown' = Shown /\ Issued' = Issued)
  <2>1. /\ lock = "free" /\ Hold(t, "release_features", h) /\ UNCHANGED envelope
    BY <1>3 DEF begin_release, lock_arenas
  <2>2. lock' = t /\ call'[t].op = "release_features"
    BY <2>1, HoldControl DEF Steps
  <2>3. Unpublished = {} /\ Unpublished' = {}
    BY <2>1, <2>2 DEF UnpublishedFacts
  <2>4. CASE h \in LiveHandles
    <3>1. ViewReleased(h) \/ DataReleased(h)
      BY <1>3, <2>4, ReleaseViewEffect, ReleaseDataEffect DEF begin_release, release_handle
    <3>2. Registry!Next
      BY <3>1, CloseViewStep, CloseDataStep DEF ViewReleased, DataReleased
    <3> QED BY <2>3, <3>2, WholeStep
  <2>5. CASE h \notin LiveHandles
    BY <1>3, <2>3, <2>5, ShownRests DEF begin_release
  <2> QED BY <2>4, <2>5
<1>4. ASSUME NEW t \in Threads, NEW c, FusionMove(t, c)
      PROVE  Shown' = Shown /\ Issued' = Issued
  BY <1>4, FusionUnpublished, ShownRests
<1>5. ASSUME NEW t \in Threads, bind_features(t)
      PROVE  Shown' = Shown /\ Issued' = Issued
  <2>1. PICK h : h = call[t].handle
    OBVIOUS
  <2>2. /\ call[t].op = "bind_features" /\ lock = t
        /\ UNCHANGED <<arenaVars, envelope>>
    BY <1>5, InStep DEF bind_features, Steps
  <2>3. h \in DOMAIN data_relations
    BY <2>1, <2>2 DEF StepsInv, Apart
  <2>4. ValidRelationSet(data_relations[h])
    BY <2>3 DEF RowsInv
  <2>5. Hold(t, "bind_tensors", h)
    BY <1>5, <2>1, <2>4 DEF bind_features
  <2>6. lock' = t /\ call'[t].op = "bind_tensors" /\ call'[t].handle = h
    BY <2>2, <2>5, HoldControl DEF Steps
  <2>7. Unpublished = {h} /\ Unpublished' = {h}
    BY <2>1, <2>2, <2>6 DEF UnpublishedFacts
  <2> QED BY <2>2, <2>7, ShownRests
<1>6. ASSUME NEW t \in Threads, bind_tensors(t) PROVE Published!Next
  <2>1. PICK h : h = call[t].handle
    OBVIOUS
  <2>2. /\ call[t].op = "bind_tensors" /\ lock = t /\ lock' = "free"
        /\ UNCHANGED arenaVars
    BY <1>6, InStep DEF bind_tensors, Steps, Return
  <2>3. h \in DOMAIN data_relations
    BY <2>1, <2>2 DEF StepsInv, Apart
  <2>4. Unpublished = {h} /\ Unpublished' = {}
    BY <2>1, <2>2 DEF UnpublishedFacts
  <2> QED BY <2>2, <2>3, <2>4, PublishHandle
<1>7. ASSUME NEW t \in Threads, release_features(t) \/ release_tensors(t)
      PROVE  Shown' = Shown /\ Issued' = Issued
  <2>1. /\ call[t].op \in {"release_features", "release_tensors"} /\ lock = t
        /\ UNCHANGED <<arenaVars, envelope>>
        /\ Hold(t, "release_tensors", call[t].handle) \/ Return(t)
    BY <1>7, InStep DEF release_features, release_tensors, Steps
  <2>2. Unpublished = {}
    BY <2>1 DEF UnpublishedFacts
  <2>3. CASE Return(t)
    BY <2>1, <2>2, <2>3, ShownRests DEF UnpublishedFacts, Return
  <2>4. CASE Hold(t, "release_tensors", call[t].handle)
    <3>1. lock' = t /\ call'[t].op = "release_tensors"
      BY <2>1, <2>4, HoldControl DEF Steps
    <3> QED BY <2>1, <2>2, <3>1, ShownRests DEF UnpublishedFacts
  <2> QED BY <2>1, <2>3, <2>4
<1>8. ASSUME NEW t \in Threads, panic(t)
      PROVE  Shown' = Shown /\ Issued' = Issued
  BY <1>8, PanicHides, ShownRests DEF PublishInv
<1>9. CASE UNCHANGED vars
  <2>1. UNCHANGED arenaVars /\ Unpublished' = Unpublished
    BY <1>9 DEF vars, arenaVars, providerVars, Unpublished, DataHandles
  <2> QED BY <2>1, ShownRests
<1> QED BY <1>1, <1>2, <1>3, <1>4, <1>5, <1>6, <1>7, <1>8, <1>9, FusionEnds, FusionReads
        DEF Next, Continue

\* Seen from outside the lock the provider is the registry HandleRegistry
\* describes: a materialized handle appears together with its bindings or not
\* at all, also when the thread that materializes it panics half-way.
THEOREM ProviderPublishesAtomically == Spec => PublishesAtomically
<1>1. Init => PanicInv
  BY DEF Init, Idle, PanicInv
<1>2. ProviderInv => ControlInv
  BY DEF ProviderInv
<1>3. Spec => []PanicInv
  BY <1>1, <1>2, PanicStep, ProviderInvariant, PTL DEF Spec
<1>4. Spec => []RefinementInv
  BY ProviderRunsArena, RefinementInvariant, PTL
<1>5. Spec => []PublishInv
  BY <1>3, <1>4, ProviderInvariant, PTL DEF PublishInv
<1>6. Init => Published!Init
  <2> SUFFICES ASSUME Init PROVE Published!Init
    OBVIOUS
  <2>1. LiveHandles = {} /\ 1 .. next_handle - 1 = {}
    BY DEF Init, ArenaInit, LiveHandles, DataHandles, ViewHandles
  <2> QED BY <2>1 DEF Published!Init
<1> QED BY <1>5, <1>6, PublishStep, PTL DEF Spec, PublishesAtomically, Published!Spec
=============================================================================
