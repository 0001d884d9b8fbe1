------------------------ MODULE FittedAdaptersProofs ------------------------
(***************************************************************************)
(* Theorems of the fitted-adapter store and of the pointer a provider      *)
(* borrows, for every set of threads, stores, references, manifests and    *)
(* requests, and every bound on the counters.                              *)
(***************************************************************************)
EXTENDS FittedAdapters, TLAPS

\* Every reference a registration can be about.
AnyRef == Ref \cup UNION {{m.entries[i].ref : i \in DOMAIN m.entries} : m \in Manifest}

Registration == [handle : Nat, ref : AnyRef]

(***************************************************************************)
(* The inductive invariant.                                                *)
(***************************************************************************)

Typed ==
  /\ stores = [s \in Store |-> [state |-> stores[s].state,
                                next_handle |-> stores[s].next_handle,
                                records |-> stores[s].records]]
  /\ \A s \in Store : stores[s].next_handle \in Nat
  /\ slot = [ptr |-> slot.ptr, holder |-> slot.holder]
  /\ slot.ptr \in Store \cup {None}
  /\ call = [t \in Thread |-> call[t]]
  /\ ret = [t \in Thread |-> ret[t]]
  /\ issued \in [Store -> Seq(Registration)]

\* The pointer in the slot is that of a live store, and a thread that uses it
\* holds the slot's mutex.
SlotInv ==
  /\ slot.ptr # None => Live(slot.ptr)
  /\ \A t \in Thread : (~ Idle(t) /\ call[t].op = "materialize") =>
       /\ slot.holder = t /\ slot.ptr \in Store
       /\ call[t].what.store = slot.ptr

\* The counter is above every handle given out.
CounterInv ==
  /\ \A s \in Store : \A i \in DOMAIN issued[s] :
       issued[s][i].handle < stores[s].next_handle
  /\ RegistrationsAreFresh

Registered(s, e) == \E i \in DOMAIN issued[s] : issued[s][i] = e

\* What a store answers from was registered, under its own id.
RecordsInv ==
  \A s \in Store : \A id \in DOMAIN stores[s].records :
    /\ Registered(s, stores[s].records[id])
    /\ stores[s].records[id].ref.adapter_id = id

\* The first k entries of a manifest were registered with these handles.
PrefixRegistered(s, m, handles) ==
  \A k \in 1..Len(handles) :
    Registered(s, [handle |-> handles[k], ref |-> m.entries[k].ref])

CallOK(t) ==
  (~ Idle(t) /\ call[t].op = "manifest") =>
    /\ call[t] = [op |-> call[t].op, via |-> call[t].via,
                  what |-> call[t].what, done |-> call[t].done]
    /\ call[t].via \in Store
    /\ \E m \in Manifest : call[t].what = m /\ ValidManifest(m, FALSE)
    /\ call[t].done \in Seq(Nat)
    /\ Len(call[t].done) <= Len(call[t].what.entries)
    /\ PrefixRegistered(call[t].via, call[t].what, call[t].done)

CallInv == \A t \in Thread : CallOK(t)

\* AnswersMatchParams and ManifestOutcome, of one thread.
AnswerOK(t) ==
  (ret[t].op = "materialize" /\ ret[t].status = "ok") =>
    \E i \in DOMAIN issued[ret[t].what.store] :
      LET e == issued[ret[t].what.store][i]
      IN /\ ret[t].handles = <<e.handle>>
         /\ e.ref.adapter_id = ret[t].what.adapter_id
         /\ e.ref.params_fingerprint = ret[t].what.params_fingerprint

OutcomeOK(t) ==
  ret[t].op = "manifest" =>
    \A m : m = ret[t].what =>
      /\ ret[t].status = "ok" <=>
           (Len(ret[t].handles) = Len(m.entries) /\ ValidManifest(m, FALSE))
      /\ Len(ret[t].handles) > 0 => \E s \in Store : PrefixRegistered(s, m, ret[t].handles)

\* A materialization that is answered is answered by a store.
StoreKnown(t) ==
  (ret[t].op = "materialize" /\ ret[t].status = "ok") => ret[t].what.store \in Store

RetInv ==
  \A t \in Thread : StoreKnown(t) /\ AnswerOK(t) /\ OutcomeOK(t)

AdaptersInv ==
  /\ Typed /\ SlotInv /\ CounterInv /\ RecordsInv /\ CallInv /\ RetInv

-----------------------------------------------------------------------------
(***************************************************************************)
(* Histories only grow.                                                    *)
(***************************************************************************)

Grows ==
  \A s \in Store : \A i \in DOMAIN issued[s] :
    i \in DOMAIN issued'[s] /\ issued'[s][i] = issued[s][i]

\* A registration is never forgotten.
LEMMA RegisteredPersists ==
  ASSUME Grows, NEW s \in Store, NEW e, Registered(s, e)
  PROVE  Registered(s, e)'
BY DEF Grows, Registered

\* A step that leaves the history alone lets it grow.
LEMMA UnchangedGrows ==
  ASSUME UNCHANGED issued
  PROVE  Grows
BY DEF Grows

\* The two properties of what calls return, thread by thread.
LEMMA PerThread ==
  /\ AnswersMatchParams <=> \A t \in Thread : AnswerOK(t)
  /\ ManifestOutcome <=> \A t \in Thread : OutcomeOK(t)
<1>1. AnswersMatchParams <=> \A t \in Thread : AnswerOK(t)
  BY DEF AnswersMatchParams, AnswerOK
<1>2. ManifestOutcome <=> \A t \in Thread : OutcomeOK(t)
  <2> DEFINE P(t, m) ==
        /\ ret[t].status = "ok" <=>
             (Len(ret[t].handles) = Len(m.entries) /\ ValidManifest(m, FALSE))
        /\ Len(ret[t].handles) > 0 => \E s \in Store : PrefixRegistered(s, m, ret[t].handles)
  <2>1. ASSUME NEW t \in Thread
        PROVE  OutcomeOK(t) <=> (ret[t].op = "manifest" => P(t, ret[t].what))
    BY DEF OutcomeOK
  <2>2. ManifestOutcome <=>
          \A t \in Thread : ret[t].op = "manifest" => P(t, ret[t].what)
    BY DEF ManifestOutcome, PrefixRegistered, Registered
  <2> HIDE DEF P
  <2> QED BY <2>1, <2>2
<1> QED BY <1>1, <1>2

\* What a thread was told stays true while others go on.
LEMMA AnswerPersists ==
  ASSUME Grows, NEW t \in Thread, ret'[t] = ret[t], StoreKnown(t), AnswerOK(t)
  PROVE  AnswerOK(t)'
<1> SUFFICES ASSUME ret[t].op = "materialize", ret[t].status = "ok"
             PROVE  AnswerOK(t)'
  BY DEF AnswerOK
<1> DEFINE s == ret[t].what.store
<1>1. s \in Store BY DEF StoreKnown
<1>2. PICK i \in DOMAIN issued[s] :
        /\ ret[t].handles = <<issued[s][i].handle>>
        /\ issued[s][i].ref.adapter_id = ret[t].what.adapter_id
        /\ issued[s][i].ref.params_fingerprint = ret[t].what.params_fingerprint
  BY DEF AnswerOK
<1>3. i \in DOMAIN issued'[s] /\ issued'[s][i] = issued[s][i]
  BY <1>1 DEF Grows
<1> QED BY <1>2, <1>3 DEF AnswerOK

\* The same for what a manifest call returned.
LEMMA OutcomePersists ==
  ASSUME Grows, NEW t \in Thread, ret'[t] = ret[t], OutcomeOK(t)
  PROVE  OutcomeOK(t)'
<1>1. \A s \in Store : PrefixRegistered(s, ret[t].what, ret[t].handles)
                         => PrefixRegistered(s, ret[t].what, ret[t].handles)'
  BY RegisteredPersists DEF PrefixRegistered
<1> QED BY <1>1 DEF OutcomeOK

-----------------------------------------------------------------------------
(***************************************************************************)
(* Registration, as every later proof uses it.                             *)
(***************************************************************************)

\* A reference that may be registered, directly or from a manifest.
LEMMA EntriesKnown ==
  ASSUME NEW m \in Manifest, NEW i \in 1..Len(m.entries)
  PROVE  m.entries[i].ref \in AnyRef
<1>1. m.entries \in Seq(ToSet(m.entries)) BY ConstantsAssumption
<1>2. i \in DOMAIN m.entries BY <1>1
<1> QED BY <1>2 DEF AnyRef

\* register of a free id adds one record and one registration, at the counter.
LEMMA RegisterEffect ==
  ASSUME Typed, NEW s \in Store, NEW r \in AnyRef, Register(s, r)
  PROVE  LET e == [handle |-> stores[s].next_handle, ref |-> r]
         IN /\ \A u \in Store \ {s} : stores'[u] = stores[u] /\ issued'[u] = issued[u]
            /\ stores'[s].state = stores[s].state
            /\ stores'[s].next_handle = stores[s].next_handle + 1
            /\ DOMAIN stores'[s].records = DOMAIN stores[s].records \cup {r.adapter_id}
            /\ stores'[s].records[r.adapter_id] = e
            /\ \A x \in DOMAIN stores[s].records \ {r.adapter_id} :
                 stores'[s].records[x] = stores[s].records[x]
            /\ DOMAIN issued'[s] = DOMAIN issued[s] \cup {Len(issued[s]) + 1}
            /\ Len(issued[s]) + 1 \notin DOMAIN issued[s]
            /\ issued'[s][Len(issued[s]) + 1] = e
            /\ \A i \in DOMAIN issued[s] : issued'[s][i] = issued[s][i]
            /\ Grows /\ issued' \in [Store -> Seq(Registration)]
            /\ stores' = [u \in Store |-> [state |-> stores'[u].state,
                                           next_handle |-> stores'[u].next_handle,
                                           records |-> stores'[u].records]]
<1> DEFINE e == [handle |-> stores[s].next_handle, ref |-> r]
           new == [state |-> stores[s].state,
                   next_handle |-> stores[s].next_handle + 1,
                   records |-> [x \in DOMAIN stores[s].records \cup {r.adapter_id} |->
                                  IF x = r.adapter_id THEN e ELSE stores[s].records[x]]]
<1>1. /\ stores' = [stores EXCEPT ![s] = new]
      /\ issued' = [issued EXCEPT ![s] = Append(issued[s], e)]
  BY DEF Register, Inserted, IssuedHandle
<1>2. /\ stores'[s] = new
      /\ \A u \in Store \ {s} : stores'[u] = stores[u]
      /\ DOMAIN stores' = Store
  BY <1>1 DEF Typed
<1>3. e \in Registration BY DEF Registration, Typed
<1> HIDE DEF e
<1>4. /\ issued[s] \in Seq(Registration)
      /\ issued'[s] = Append(issued[s], e)
      /\ \A u \in Store \ {s} : issued'[u] = issued[u]
      /\ issued' \in [Store -> Seq(Registration)]
  BY <1>1, <1>3 DEF Typed
<1>5. /\ DOMAIN issued'[s] = DOMAIN issued[s] \cup {Len(issued[s]) + 1}
      /\ Len(issued[s]) + 1 \notin DOMAIN issued[s]
      /\ issued'[s][Len(issued[s]) + 1] = e
      /\ \A i \in DOMAIN issued[s] : issued'[s][i] = issued[s][i]
  BY <1>3, <1>4
<1>6. Grows BY <1>4, <1>5 DEF Grows
<1>7. stores' = [u \in Store |-> [state |-> stores'[u].state,
                                  next_handle |-> stores'[u].next_handle,
                                  records |-> stores'[u].records]]
  <2>1. stores'[s] = [state |-> stores'[s].state,
                      next_handle |-> stores'[s].next_handle,
                      records |-> stores'[s].records]
    BY <1>2
  <2>2. \A u \in Store \ {s} : stores'[u] = [state |-> stores'[u].state,
                      next_handle |-> stores'[u].next_handle,
                      records |-> stores'[u].records]
    BY <1>2 DEF Typed
  <2> QED BY <1>1, <2>1, <2>2 DEF Typed
<1> QED BY <1>2, <1>4, <1>5, <1>6, <1>7 DEF e

-----------------------------------------------------------------------------
(***************************************************************************)
(* What a step that leaves a part alone, or almost, preserves.             *)
(***************************************************************************)

\* A manifest call under way is not disturbed by the steps of others.
LEMMA CallPersists ==
  ASSUME Grows, NEW t \in Thread, call'[t] = call[t], CallOK(t)
  PROVE  CallOK(t)'
<1> SUFFICES ASSUME call[t] # None, call[t].op = "manifest"
             PROVE  CallOK(t)'
  BY DEF CallOK, Idle
<1>1. PrefixRegistered(call[t].via, call[t].what, call[t].done)'
  BY RegisteredPersists DEF CallOK, Idle, PrefixRegistered
<1> QED BY <1>1 DEF CallOK, Idle

\* The same when no call begins, goes on or ends.
LEMMA CallsPersist ==
  ASSUME Grows, CallInv, UNCHANGED call
  PROVE  CallInv'
BY CallPersists DEF CallInv

\* No registration: the counters stay, records at most disappear.
LEMMA StoresKept ==
  ASSUME CounterInv, RecordsInv, UNCHANGED issued,
         \A s \in Store :
           /\ stores'[s].next_handle = stores[s].next_handle
           /\ \A id \in DOMAIN stores'[s].records :
                /\ id \in DOMAIN stores[s].records
                /\ stores'[s].records[id] = stores[s].records[id]
  PROVE  CounterInv' /\ RecordsInv'
<1>1. CounterInv' BY DEF CounterInv, RegistrationsAreFresh
<1>2. RecordsInv' BY DEF RecordsInv, Registered
<1> QED BY <1>1, <1>2

\* A call that returns to thread t; the other threads keep their answers.
LEMMA ReturnEffect ==
  ASSUME Typed, RetInv, Grows, NEW t \in Thread,
         NEW op, NEW what, NEW status, NEW handles,
         Return(t, op, what, status, handles),
         StoreKnown(t)', AnswerOK(t)', OutcomeOK(t)'
  PROVE  RetInv'
<1>1. \A u \in Thread \ {t} : ret'[u] = ret[u]
  BY DEF Return, Typed
<1>2. \A u \in Thread \ {t} : StoreKnown(u)' /\ AnswerOK(u)' /\ OutcomeOK(u)'
  <2> TAKE u \in Thread \ {t}
  <2>1. AnswerOK(u)' BY <1>1, AnswerPersists DEF RetInv
  <2>2. OutcomeOK(u)' BY <1>1, OutcomePersists DEF RetInv
  <2>3. StoreKnown(u)' BY <1>1 DEF RetInv, StoreKnown
  <2> QED BY <2>1, <2>2, <2>3
<1> QED BY <1>2 DEF RetInv

\* What the calling thread finds in ret.
LEMMA Returns ==
  ASSUME Typed, NEW t \in Thread, NEW op, NEW what, NEW status, NEW handles,
         Return(t, op, what, status, handles)
  PROVE  /\ ret'[t].op = op /\ ret'[t].what = what
         /\ ret'[t].status = status /\ ret'[t].handles = handles
         /\ ret' = [u \in Thread |-> ret'[u]]
BY DEF Return, Returned, Typed

\* A call that returns neither an answer nor a manifest's outcome.
LEMMA ReturnOther ==
  ASSUME Typed, RetInv, Grows, NEW t \in Thread, NEW what, NEW status, NEW handles,
         Return(t, "other", what, status, handles)
  PROVE  RetInv'
<1>1. ret'[t].op = "other" BY Returns
<1>2. StoreKnown(t)' /\ AnswerOK(t)' /\ OutcomeOK(t)'
  BY <1>1 DEF StoreKnown, AnswerOK, OutcomeOK
<1> QED BY <1>2, ReturnEffect

\* A step that returns to no thread.
LEMMA RetPersists ==
  ASSUME RetInv, Grows, UNCHANGED ret
  PROVE  RetInv'
BY AnswerPersists, OutcomePersists DEF RetInv, StoreKnown

\* A store's state set, or its records restricted.
LEMMA StateSet ==
  ASSUME Typed, NEW s \in Store, NEW v,
         stores' = [stores EXCEPT ![s].state = v]
  PROVE  /\ stores'[s].state = v
         /\ \A u \in Store \ {s} : stores'[u] = stores[u]
         /\ \A u \in Store : /\ stores'[u].next_handle = stores[u].next_handle
                             /\ stores'[u].records = stores[u].records
         /\ stores' = [u \in Store |-> [state |-> stores'[u].state,
                                        next_handle |-> stores'[u].next_handle,
                                        records |-> stores'[u].records]]
<1>1. PICK new : new = stores'
  OBVIOUS
<1>2. /\ new[s] = [stores[s] EXCEPT !.state = v]
      /\ \A u \in Store \ {s} : new[u] = stores[u]
      /\ new = [u \in Store |-> new[u]]
  BY <1>1 DEF Typed
<1>3. ASSUME NEW u \in Store
      PROVE  stores[u] = [state |-> stores[u].state,
                          next_handle |-> stores[u].next_handle,
                          records |-> stores[u].records]
  BY DEF Typed
<1>4. PICK old, r : old = stores[s] /\ r = new[s]
  OBVIOUS
<1>5. old = [state |-> old.state, next_handle |-> old.next_handle, records |-> old.records]
  BY <1>3, <1>4
<1>6. r = [old EXCEPT !.state = v]
  BY <1>2, <1>4
<1>7. r = [state |-> v, next_handle |-> old.next_handle, records |-> old.records]
  BY <1>5, <1>6
<1>8. r.state = v /\ r.next_handle = old.next_handle /\ r.records = old.records
  BY <1>7
<1>9. ASSUME NEW u \in Store
      PROVE  /\ new[u].next_handle = stores[u].next_handle
             /\ new[u].records = stores[u].records
             /\ new[u] = [state |-> new[u].state, next_handle |-> new[u].next_handle,
                          records |-> new[u].records]
  <2>1. CASE u = s
    BY <1>4, <1>7, <1>8, <2>1
  <2>2. CASE u # s
    BY <1>2, <1>3, <2>2
  <2> QED BY <2>1, <2>2
<1>10. new = [u \in Store |-> [state |-> new[u].state, next_handle |-> new[u].next_handle,
                               records |-> new[u].records]]
  BY <1>2, <1>9
<1> QED BY <1>1, <1>2, <1>4, <1>8, <1>9, <1>10

\* The same for a map of records with an id taken out.
LEMMA RecordsRestricted ==
  ASSUME Typed, NEW s \in Store, NEW id,
         stores' = [stores EXCEPT ![s].records = Restrict(@, DOMAIN @ \ {id})]
  PROVE  /\ \A u \in Store : /\ stores'[u].state = stores[u].state
                             /\ stores'[u].next_handle = stores[u].next_handle
                             /\ \A x \in DOMAIN stores'[u].records :
                                  /\ x \in DOMAIN stores[u].records
                                  /\ stores'[u].records[x] = stores[u].records[x]
         /\ stores' = [u \in Store |-> [state |-> stores'[u].state,
                                        next_handle |-> stores'[u].next_handle,
                                        records |-> stores'[u].records]]
<1> DEFINE map == Restrict(stores[s].records, DOMAIN stores[s].records \ {id})
<1>1. \A x \in DOMAIN map : x \in DOMAIN stores[s].records /\ map[x] = stores[s].records[x]
  BY DEF Restrict
<1>2. stores' = [stores EXCEPT ![s].records = map]
  OBVIOUS
<1> HIDE DEF map
<1>3. PICK new : new = stores'
  OBVIOUS
<1>4. /\ new[s] = [stores[s] EXCEPT !.records = map]
      /\ \A u \in Store \ {s} : new[u] = stores[u]
      /\ new = [u \in Store |-> new[u]]
  BY <1>2, <1>3 DEF Typed
<1>5. ASSUME NEW u \in Store
      PROVE  stores[u] = [state |-> stores[u].state,
                          next_handle |-> stores[u].next_handle,
                          records |-> stores[u].records]
  BY DEF Typed
<1>6. PICK old, r : old = stores[s] /\ r = new[s]
  OBVIOUS
<1>7. r = [state |-> old.state, next_handle |-> old.next_handle, records |-> map]
  <2>1. old = [state |-> old.state, next_handle |-> old.next_handle, records |-> old.records]
    BY <1>5, <1>6
  <2>2. r = [old EXCEPT !.records = map]
    BY <1>4, <1>6
  <2> QED BY <2>1, <2>2
<1>8. r.state = old.state /\ r.next_handle = old.next_handle /\ r.records = map
  BY <1>7
<1>9. ASSUME NEW u \in Store
      PROVE  new[u] = [state |-> new[u].state, next_handle |-> new[u].next_handle,
                       records |-> new[u].records]
  <2>1. CASE u = s
    BY <1>6, <1>7, <1>8, <2>1
  <2>2. CASE u # s
    BY <1>4, <1>5, <2>2
  <2> QED BY <2>1, <2>2
<1>10. new = [u \in Store |-> [state |-> new[u].state, next_handle |-> new[u].next_handle,
                               records |-> new[u].records]]
  BY <1>4, <1>9
<1>11. /\ new[s].state = stores[s].state /\ new[s].records = map
       /\ new[s].next_handle = stores[s].next_handle
  BY <1>6, <1>8
<1>12. ASSUME NEW u \in Store
       PROVE  /\ new[u].state = stores[u].state
              /\ new[u].next_handle = stores[u].next_handle
              /\ \A x \in DOMAIN new[u].records :
                   x \in DOMAIN stores[u].records /\ new[u].records[x] = stores[u].records[x]
  <2>1. CASE u = s
    BY <1>1, <1>11, <2>1
  <2>2. CASE u # s
    BY <1>4, <2>2
  <2> QED BY <2>1, <2>2
<1> QED BY <1>3, <1>10, <1>12

-----------------------------------------------------------------------------
(***************************************************************************)
(* Each operation preserves the invariant.                                 *)
(***************************************************************************)

\* A store is created.
LEMMA StoreNewKeeps ==
  ASSUME AdaptersInv, NEW t \in Thread, NEW s \in Store, StoreNew(t, s)
  PROVE  AdaptersInv'
<1> USE DEF AdaptersInv
<1>1. /\ stores' = [stores EXCEPT ![s].state = "live"]
      /\ Return(t, "other", None, "ok", << >>)
      /\ UNCHANGED <<slot, call, issued>>
  BY DEF StoreNew
<1>2. Grows BY <1>1, UnchangedGrows
<1>3. Typed' BY <1>1, StateSet, Returns DEF Typed
<1>4. SlotInv' BY <1>1, StateSet DEF SlotInv, Live, Idle, Typed
<1>5. CounterInv' /\ RecordsInv' BY <1>1, StateSet, StoresKept
<1>6. CallInv' BY <1>1, <1>2, CallsPersist
<1>7. RetInv' BY <1>1, <1>2, ReturnOther
<1> QED BY <1>3, <1>4, <1>5, <1>6, <1>7

\* A store that is not attached is destroyed.
LEMMA StoreDestroyKeeps ==
  ASSUME AdaptersInv, NEW t \in Thread, NEW s \in Store, StoreDestroy(t, s)
  PROVE  AdaptersInv'
<1> USE DEF AdaptersInv
<1>1. /\ stores' = [stores EXCEPT ![s].state = "freed"]
      /\ Return(t, "other", None, "ok", << >>)
      /\ UNCHANGED <<slot, call, issued>>
      /\ slot.ptr # s
  BY DEF StoreDestroy
<1>2. Grows BY <1>1, UnchangedGrows
<1>3. Typed' BY <1>1, StateSet, Returns DEF Typed
<1>4. SlotInv' BY <1>1, StateSet DEF SlotInv, Live, Idle, Typed
<1>5. CounterInv' /\ RecordsInv' BY <1>1, StateSet, StoresKept
<1>6. CallInv' BY <1>1, <1>2, CallsPersist
<1>7. RetInv' BY <1>1, <1>2, ReturnOther
<1> QED BY <1>3, <1>4, <1>5, <1>6, <1>7

\* An adapter is released: its record goes, its registration stays history.
LEMMA StoreReleaseKeeps ==
  ASSUME AdaptersInv, NEW t \in Thread, NEW s \in Store, NEW id, StoreRelease(t, s, id)
  PROVE  AdaptersInv'
<1> USE DEF AdaptersInv
<1>1. /\ stores' = [stores EXCEPT ![s].records = Restrict(@, DOMAIN @ \ {id})]
      /\ Return(t, "other", None, "ok", << >>)
      /\ UNCHANGED <<slot, call, issued>>
  BY DEF StoreRelease
<1>2. Grows BY <1>1, UnchangedGrows
<1>3. /\ \A u \in Store : /\ stores'[u].state = stores[u].state
                          /\ stores'[u].next_handle = stores[u].next_handle
                          /\ \A x \in DOMAIN stores'[u].records :
                               /\ x \in DOMAIN stores[u].records
                               /\ stores'[u].records[x] = stores[u].records[x]
      /\ stores' = [u \in Store |-> [state |-> stores'[u].state,
                                     next_handle |-> stores'[u].next_handle,
                                     records |-> stores'[u].records]]
  BY <1>1, RecordsRestricted
<1>4. Typed' BY <1>1, <1>3, Returns DEF Typed
<1>5. SlotInv' BY <1>1, <1>3 DEF SlotInv, Live, Idle, Typed
<1>6. CounterInv' /\ RecordsInv' BY <1>1, <1>3, StoresKept
<1>7. CallInv' BY <1>1, <1>2, CallsPersist
<1>8. RetInv' BY <1>1, <1>2, ReturnOther
<1> QED BY <1>4, <1>5, <1>6, <1>7, <1>8

\* A registration keeps the parts about the store and its history.
LEMMA RegisterKeeps ==
  ASSUME AdaptersInv, NEW s \in Store, NEW r \in AnyRef, Register(s, r),
         r.adapter_id \notin DOMAIN stores[s].records
  PROVE  CounterInv' /\ RecordsInv' /\ Grows
<1> DEFINE e == [handle |-> stores[s].next_handle, ref |-> r]
           n == Len(issued[s]) + 1
<1>1. /\ \A u \in Store \ {s} : stores'[u] = stores[u] /\ issued'[u] = issued[u]
      /\ stores'[s].next_handle = stores[s].next_handle + 1
      /\ DOMAIN stores'[s].records = DOMAIN stores[s].records \cup {r.adapter_id}
      /\ stores'[s].records[r.adapter_id] = e
      /\ \A x \in DOMAIN stores[s].records : stores'[s].records[x] = stores[s].records[x]
      /\ DOMAIN issued'[s] = DOMAIN issued[s] \cup {n}
      /\ n \notin DOMAIN issued[s]
      /\ issued'[s][n] = e
      /\ \A i \in DOMAIN issued[s] : issued'[s][i] = issued[s][i]
      /\ Grows
  BY RegisterEffect DEF AdaptersInv
<1>2. stores[s].next_handle \in Nat /\ e.handle = stores[s].next_handle /\ e.ref = r
  BY DEF AdaptersInv, Typed
<1> HIDE DEF e, n
<1>3. \A i \in DOMAIN issued[s] : issued[s][i].handle \in Nat
  <2>1. issued[s] \in Seq(Registration) BY DEF AdaptersInv, Typed
  <2>2. \A i \in DOMAIN issued[s] : issued[s][i] \in Registration BY <2>1
  <2> QED BY <2>2 DEF Registration
<1>4. CounterInv'
  <2>1. \A i \in DOMAIN issued[s] :
          issued[s][i].handle \in Nat /\ issued[s][i].handle < stores[s].next_handle
    BY <1>3 DEF AdaptersInv, CounterInv
  <2>2. \A i \in DOMAIN issued'[s] : issued'[s][i].handle < stores'[s].next_handle
    BY <1>1, <1>2, <2>1
  <2>3. \A i, j \in DOMAIN issued'[s] :
          issued'[s][i].handle = issued'[s][j].handle => i = j
    <3>1. \A i \in DOMAIN issued[s] : issued'[s][i].handle # issued'[s][n].handle
      BY <1>1, <1>2, <2>1
    <3>2. \A i, j \in DOMAIN issued[s] :
            issued'[s][i].handle = issued'[s][j].handle => i = j
      BY <1>1 DEF AdaptersInv, CounterInv, RegistrationsAreFresh
    <3> QED BY <1>1, <3>1, <3>2
  <2> QED BY <1>1, <2>2, <2>3 DEF AdaptersInv, CounterInv, RegistrationsAreFresh
<1>5. RecordsInv'
  <2> SUFFICES ASSUME NEW u \in Store, NEW id \in DOMAIN stores'[u].records
               PROVE  /\ \E i \in DOMAIN issued'[u] : issued'[u][i] = stores'[u].records[id]
                      /\ stores'[u].records[id].ref.adapter_id = id
    BY DEF RecordsInv, Registered
  <2>1. CASE u = s /\ id = r.adapter_id
    BY <1>1, <1>2, <2>1
  <2>2. CASE ~ (u = s /\ id = r.adapter_id)
    <3>1. /\ id \in DOMAIN stores[u].records
          /\ stores'[u].records[id] = stores[u].records[id]
      BY <1>1, <2>2
    <3>2. /\ stores[u].records[id].ref.adapter_id = id
          /\ \E i \in DOMAIN issued[u] : issued[u][i] = stores[u].records[id]
      BY <3>1 DEF AdaptersInv, RecordsInv, Registered
    <3> QED BY <1>1, <3>1, <3>2 DEF Grows
  <2> QED BY <2>1, <2>2
<1> QED BY <1>1, <1>4, <1>5

\* What a registration leaves of a store besides its counter, records, history.
LEMMA RegisterTyped ==
  ASSUME AdaptersInv, NEW s \in Store, NEW r \in AnyRef, Register(s, r)
  PROVE  /\ \A u \in Store : stores'[u].state = stores[u].state
         /\ \A u \in Store : stores'[u].next_handle \in Nat
         /\ issued' \in [Store -> Seq(Registration)]
         /\ stores' = [u \in Store |-> [state |-> stores'[u].state,
                                        next_handle |-> stores'[u].next_handle,
                                        records |-> stores'[u].records]]
<1>1. /\ \A u \in Store \ {s} : stores'[u] = stores[u]
      /\ stores'[s].state = stores[s].state
      /\ stores'[s].next_handle = stores[s].next_handle + 1
      /\ issued' \in [Store -> Seq(Registration)]
      /\ stores' = [u \in Store |-> [state |-> stores'[u].state,
                                     next_handle |-> stores'[u].next_handle,
                                     records |-> stores'[u].records]]
  BY RegisterEffect DEF AdaptersInv
<1>2. \A u \in Store : stores[u].next_handle \in Nat BY DEF AdaptersInv, Typed
<1>3. \A u \in Store : stores'[u].state = stores[u].state BY <1>1
<1>4. stores'[s].next_handle \in Nat BY <1>1, <1>2
<1>5. \A u \in Store : stores'[u].next_handle \in Nat BY <1>1, <1>2, <1>4
<1> QED BY <1>1, <1>3, <1>5

\* register: refused, or one fresh registration.
LEMMA StoreRegisterKeeps ==
  ASSUME AdaptersInv, NEW t \in Thread, NEW s \in Store, NEW r \in Ref,
         StoreRegister(t, s, r)
  PROVE  AdaptersInv'
<1>0. r \in AnyRef BY DEF AnyRef
<1>1. CASE /\ Return(t, "other", None, "validation", << >>)
           /\ UNCHANGED <<stores, issued, slot, call>>
  <2> USE DEF AdaptersInv
  <2>1. Grows BY <1>1, UnchangedGrows
  <2>2. Typed' BY <1>1, Returns DEF Typed
  <2>3. SlotInv' BY <1>1 DEF SlotInv, Live, Idle
  <2>4. CounterInv' /\ RecordsInv' BY <1>1, StoresKept
  <2>5. CallInv' BY <1>1, <2>1, CallsPersist
  <2>6. RetInv' BY <1>1, <2>1, ReturnOther
  <2> QED BY <2>2, <2>3, <2>4, <2>5, <2>6
<1>2. CASE /\ ~ Refused(stores[s], r) /\ Register(s, r)
           /\ Return(t, "other", None, "ok", << >>)
           /\ UNCHANGED <<slot, call>>
  <2>1. CounterInv' /\ RecordsInv' /\ Grows
    BY <1>0, <1>2, RegisterKeeps DEF Refused
  <2>2. Typed' BY <1>0, <1>2, RegisterTyped, Returns DEF AdaptersInv, Typed
  <2>3. SlotInv'
    BY <1>0, <1>2, RegisterTyped DEF AdaptersInv, SlotInv, Live, Idle, Typed
  <2>4. CallInv' BY <1>2, <2>1, CallsPersist DEF AdaptersInv
  <2>5. RetInv' BY <1>2, <2>1, ReturnOther DEF AdaptersInv
  <2> QED BY <2>1, <2>2, <2>3, <2>4, <2>5 DEF AdaptersInv
<1> QED BY <1>1, <1>2 DEF StoreRegister

\* A store's answer to a request is of a registration it made.
LEMMA MaterializedAnswer ==
  ASSUME RecordsInv, NEW s \in Store, NEW q,
         Materialized(stores[s], q).status = "ok"
  PROVE  \E i \in DOMAIN issued[s] :
           /\ Materialized(stores[s], q).handles = <<issued[s][i].handle>>
           /\ issued[s][i].ref.adapter_id = q.adapter_id
           /\ issued[s][i].ref.params_fingerprint = q.params_fingerprint
<1>1. Materializes(stores[s], q) BY DEF Materialized
<1>2. /\ q.adapter_id \in DOMAIN stores[s].records
      /\ stores[s].records[q.adapter_id].ref.params_fingerprint = q.params_fingerprint
  BY <1>1 DEF Materializes
<1>3. Materialized(stores[s], q).handles = <<stores[s].records[q.adapter_id].handle>>
  BY <1>1 DEF Materialized
<1>4. PICK i \in DOMAIN issued[s] : issued[s][i] = stores[s].records[q.adapter_id]
  BY <1>2 DEF RecordsInv, Registered
<1>5. stores[s].records[q.adapter_id].ref.adapter_id = q.adapter_id
  BY <1>2 DEF RecordsInv
<1> QED BY <1>2, <1>3, <1>4, <1>5

\* A call that returns what a store materialized for a request.
LEMMA ReturnMaterialized ==
  ASSUME Typed, RecordsInv, RetInv, UNCHANGED issued, NEW t \in Thread,
         NEW s \in Store, NEW q, NEW what,
         what.store = s, what.adapter_id = q.adapter_id,
         what.params_fingerprint = q.params_fingerprint,
         Return(t, "materialize", what, Materialized(stores[s], q).status,
                Materialized(stores[s], q).handles)
  PROVE  RetInv'
<1> DEFINE m == Materialized(stores[s], q)
<1>1. /\ ret'[t].op = "materialize" /\ ret'[t].what = what
      /\ ret'[t].status = m.status /\ ret'[t].handles = m.handles
  BY Returns
<1>2. m.status = "ok" => \E i \in DOMAIN issued[s] :
           /\ m.handles = <<issued[s][i].handle>>
           /\ issued[s][i].ref.adapter_id = q.adapter_id
           /\ issued[s][i].ref.params_fingerprint = q.params_fingerprint
  BY MaterializedAnswer
<1> HIDE DEF m
<1>3. StoreKnown(t)' BY <1>1 DEF StoreKnown
<1>4. AnswerOK(t)' BY <1>1, <1>2 DEF AnswerOK
<1>5. OutcomeOK(t)' BY <1>1 DEF OutcomeOK
<1>6. Grows BY UnchangedGrows
<1> QED BY <1>3, <1>4, <1>5, <1>6, ReturnEffect DEF m

\* materialize on a store handle.
LEMMA StoreMaterializeKeeps ==
  ASSUME AdaptersInv, NEW t \in Thread, NEW s \in Store, NEW q \in MRequest,
         StoreMaterialize(t, s, q)
  PROVE  AdaptersInv'
<1> USE DEF AdaptersInv
<1> DEFINE what == [q EXCEPT !.store = s]
<1>1. /\ Return(t, "materialize", what, Materialized(stores[s], q).status,
                Materialized(stores[s], q).handles)
      /\ UNCHANGED <<stores, slot, call, issued>>
  BY DEF StoreMaterialize
<1>2. /\ what.store = s /\ what.adapter_id = q.adapter_id
      /\ what.params_fingerprint = q.params_fingerprint
  BY ConstantsAssumption
<1> HIDE DEF what
<1>3. Grows BY <1>1, UnchangedGrows
<1>4. Typed' BY <1>1, Returns DEF Typed
<1>5. SlotInv' BY <1>1 DEF SlotInv, Live, Idle
<1>6. CounterInv' /\ RecordsInv' BY <1>1, StoresKept
<1>7. CallInv' BY <1>1, <1>3, CallsPersist
<1>8. RetInv' BY <1>1, <1>2, ReturnMaterialized
<1> QED BY <1>4, <1>5, <1>6, <1>7, <1>8

\* register_manifest's validation: refused at once, or the call begins.
LEMMA ManifestBeginKeeps ==
  ASSUME AdaptersInv, NEW t \in Thread, NEW s \in Store, NEW m \in Manifest,
         ManifestBegin(t, s, m)
  PROVE  AdaptersInv'
<1> USE DEF AdaptersInv
<1>0. UNCHANGED <<stores, slot, issued>> /\ call[t] = None
  BY DEF ManifestBegin, Idle
<1>1. Grows BY <1>0, UnchangedGrows
<1>2. CounterInv' /\ RecordsInv' BY <1>0, StoresKept
<1>3. CASE /\ ~ ValidManifest(m, FALSE)
           /\ Return(t, "manifest", m, "validation", << >>)
           /\ UNCHANGED call
  <2>1. /\ ret'[t].op = "manifest" /\ ret'[t].what = m
        /\ ret'[t].status = "validation" /\ ret'[t].handles = << >>
    BY <1>3, Returns
  <2>2. OutcomeOK(t)'
    <3>1. Len(ret'[t].handles) = 0 /\ ~ (Len(ret'[t].handles) > 0)
      BY <2>1
    <3> QED BY <1>3, <2>1, <3>1 DEF OutcomeOK
  <2>3. StoreKnown(t)' /\ AnswerOK(t)' BY <2>1 DEF StoreKnown, AnswerOK
  <2>4. RetInv' BY <1>1, <1>3, <2>2, <2>3, ReturnEffect
  <2>5. Typed' BY <1>0, <1>3, Returns DEF Typed
  <2>6. SlotInv' BY <1>0, <1>3 DEF SlotInv, Live, Idle
  <2>7. CallInv' BY <1>1, <1>3, CallsPersist
  <2> QED BY <1>2, <2>4, <2>5, <2>6, <2>7
<1>4. CASE /\ ValidManifest(m, FALSE)
           /\ call' = [call EXCEPT ![t] = [op |-> "manifest", via |-> s,
                                           what |-> m, done |-> << >>]]
           /\ UNCHANGED ret
  <2>1. /\ call'[t] = [op |-> "manifest", via |-> s, what |-> m, done |-> << >>]
        /\ \A u \in Thread \ {t} : call'[u] = call[u]
        /\ call' = [u \in Thread |-> call'[u]]
    BY <1>4 DEF Typed
  <2>2. RetInv' BY <1>1, <1>4, RetPersists
  <2>3. Typed' BY <1>0, <1>4, <2>1 DEF Typed
  <2>4. SlotInv'
    <3>1. \A u \in Thread : (call'[u] # None /\ call'[u].op = "materialize")
              => u # t /\ call'[u] = call[u]
      BY <2>1
    <3> QED BY <1>0, <3>1 DEF SlotInv, Live, Idle
  <2>5. CallOK(t)'
    <3>1. Len(m.entries) \in Nat BY ConstantsAssumption
    <3>2. PrefixRegistered(s, m, << >>)' BY DEF PrefixRegistered
    <3>3. ValidManifest(m, FALSE)' BY <1>4 DEF ValidManifest, ValidRef, PortableRef
    <3>4. /\ call'[t].op = "manifest" /\ call'[t].via = s
          /\ call'[t].what = m /\ call'[t].done = << >>
          /\ call'[t] = [op |-> call'[t].op, via |-> call'[t].via,
                         what |-> call'[t].what, done |-> call'[t].done]
      BY <2>1
    <3>5. << >> \in Seq(Nat) /\ Len(<< >>) <= Len(m.entries) BY <3>1
    <3> QED BY <3>2, <3>3, <3>4, <3>5 DEF CallOK
  <2>6. CallInv' BY <1>1, <2>1, <2>5, CallPersists DEF CallInv
  <2> QED BY <1>2, <2>2, <2>3, <2>4, <2>6
<1> QED BY <1>3, <1>4 DEF ManifestBegin

\* A thread's call ends; the others go on with theirs.
LEMMA CallEnds ==
  ASSUME Typed, CallInv, Grows, NEW t \in Thread,
         call' = [call EXCEPT ![t] = None]
  PROVE  /\ call'[t] = None
         /\ \A u \in Thread \ {t} : call'[u] = call[u]
         /\ call' = [u \in Thread |-> call'[u]]
         /\ CallInv'
<1>1. /\ call'[t] = None
      /\ \A u \in Thread \ {t} : call'[u] = call[u]
      /\ call' = [u \in Thread |-> call'[u]]
  BY DEF Typed
<1>2. CallOK(t)' BY <1>1 DEF CallOK, Idle
<1>3. \A u \in Thread \ {t} : CallOK(u)' BY <1>1, CallPersists DEF CallInv
<1> QED BY <1>1, <1>2, <1>3 DEF CallInv

\* A manifest call that returns the handles it has so far: with all of them it
\* succeeded, with fewer it did not.
LEMMA ManifestReturns ==
  ASSUME AdaptersInv, NEW t \in Thread, NEW status,
         ~ Idle(t), call[t].op = "manifest",
         status = "ok" <=> Len(call[t].done) = Len(call[t].what.entries),
         Return(t, "manifest", call[t].what, status, call[t].done),
         call' = [call EXCEPT ![t] = None],
         UNCHANGED <<stores, slot, issued>>
  PROVE  AdaptersInv'
<1> USE DEF AdaptersInv
<1>1. Grows BY UnchangedGrows
<1>2. CounterInv' /\ RecordsInv' BY StoresKept
<1>3. /\ call'[t] = None
      /\ \A u \in Thread \ {t} : call'[u] = call[u]
      /\ call' = [u \in Thread |-> call'[u]]
      /\ CallInv'
  BY <1>1, CallEnds
<1>4. Typed' BY <1>3, Returns DEF Typed
<1>5. SlotInv'
  <2>1. \A u \in Thread : (call'[u] # None /\ call'[u].op = "materialize")
            => u # t /\ call'[u] = call[u]
    BY <1>3
  <2> QED BY <2>1 DEF SlotInv, Live, Idle
<1>6. PICK m \in Manifest, s \in Store :
        /\ m = call[t].what /\ s = call[t].via /\ ValidManifest(m, FALSE)
        /\ PrefixRegistered(s, m, call[t].done)
  BY DEF CallInv, CallOK
<1>7. /\ ret'[t].op = "manifest" /\ ret'[t].what = m
      /\ ret'[t].status = status /\ ret'[t].handles = call[t].done
  BY <1>6, Returns
<1>8. PrefixRegistered(s, m, ret[t].handles)'
  BY <1>6, <1>7 DEF PrefixRegistered, Registered
<1>9. ret'[t].status = "ok" <=> Len(ret'[t].handles) = Len(m.entries)
  BY <1>6, <1>7
<1>10. OutcomeOK(t)'
  BY <1>6, <1>7, <1>8, <1>9 DEF OutcomeOK
<1>11. StoreKnown(t)' /\ AnswerOK(t)' BY <1>7 DEF StoreKnown, AnswerOK
<1>12. RetInv' BY <1>1, <1>10, <1>11, ReturnEffect
<1> QED BY <1>2, <1>3, <1>4, <1>5, <1>12

\* One entry of a manifest: refused, which ends the call, or registered.
LEMMA ManifestEntryKeeps ==
  ASSUME AdaptersInv, NEW t \in Thread, ManifestEntry(t)
  PROVE  AdaptersInv'
<1>a. PICK c : c = call[t] OBVIOUS
<1> DEFINE s == c.via
           r == c.what.entries[Len(c.done) + 1].ref
<1>0. /\ ~ Idle(t) /\ c.op = "manifest" /\ Len(c.done) < Len(c.what.entries)
      /\ UNCHANGED slot
  BY <1>a DEF ManifestEntry
<1>1. /\ c = [op |-> c.op, via |-> c.via, what |-> c.what, done |-> c.done]
      /\ s \in Store /\ c.what \in Manifest /\ ValidManifest(c.what, FALSE)
      /\ c.done \in Seq(Nat) /\ PrefixRegistered(s, c.what, c.done)
  BY <1>0, <1>a DEF AdaptersInv, CallInv, CallOK
<1>2. CASE EntryRefused(t, c, r) /\ UNCHANGED <<stores, issued>>
  <2>1. "validation" = "ok" <=> Len(call[t].done) = Len(call[t].what.entries)
    BY <1>0, <1>1, <1>a, ConstantsAssumption
  <2>2. /\ Return(t, "manifest", call[t].what, "validation", call[t].done)
        /\ call' = [call EXCEPT ![t] = None]
    BY <1>2, <1>a DEF EntryRefused
  <2> QED BY <1>0, <1>a, <1>2, <2>1, <2>2, ManifestReturns
<1>3. CASE /\ ~ Refused(stores[s], r) /\ Register(s, r)
           /\ call' = [call EXCEPT ![t].done = Append(@, IssuedHandle(stores[s]))]
           /\ UNCHANGED ret
  <2>a. PICK h : h = stores[s].next_handle OBVIOUS
  <2> DEFINE done == Append(c.done, h)
  <2>1. Len(c.what.entries) \in Nat BY <1>1, ConstantsAssumption
  <2>2. r \in AnyRef
    <3>1. Len(c.done) + 1 \in 1..Len(c.what.entries) BY <1>0, <1>1, <2>1
    <3> QED BY <1>1, <3>1, EntriesKnown
  <2>3. CounterInv' /\ RecordsInv' /\ Grows
    BY <1>1, <1>3, <2>2, RegisterKeeps DEF Refused
  <2>4. h \in Nat BY <1>1, <2>a DEF AdaptersInv, Typed
  <2>5. call' = [call EXCEPT ![t].done = done]
    BY <1>3, <1>a, <2>a DEF IssuedHandle, AdaptersInv, Typed
  <2>6. /\ done \in Seq(Nat) /\ Len(done) = Len(c.done) + 1
        /\ done[Len(c.done) + 1] = h
        /\ \A k \in 1..Len(c.done) : done[k] = c.done[k]
    BY <1>1, <2>4
  <2>7. Registered(s, [handle |-> h, ref |-> r])'
    BY <1>1, <1>3, <2>2, <2>a, RegisterEffect DEF AdaptersInv, Registered
  <2>8. PrefixRegistered(s, c.what, c.done)'
    BY <1>1, <2>3, RegisteredPersists DEF PrefixRegistered
  <2> HIDE DEF done
  <2>9. /\ call'[t] = [c EXCEPT !.done = done]
        /\ \A u \in Thread \ {t} : call'[u] = call[u]
        /\ call' = [u \in Thread |-> call'[u]]
    BY <1>a, <2>5 DEF AdaptersInv, Typed
  <2>10. call'[t] = [op |-> c.op, via |-> s, what |-> c.what, done |-> done]
    BY <1>1, <2>9
  <2>11. CallOK(t)'
    <3>1. /\ call'[t].op = "manifest" /\ call'[t].via = s
          /\ call'[t].what = c.what /\ call'[t].done = done
          /\ call'[t] = [op |-> call'[t].op, via |-> call'[t].via,
                         what |-> call'[t].what, done |-> call'[t].done]
      BY <1>0, <2>10
    <3>2. Len(done) <= Len(c.what.entries) /\ done \in Seq(Nat)
      BY <1>0, <1>1, <2>1, <2>6
    <3>3. \A k \in 1..Len(done) : \E i \in DOMAIN issued'[s] :
            issued'[s][i] = [handle |-> done[k], ref |-> c.what.entries[k].ref]
      <4> TAKE k \in 1..Len(done)
      <4>1. CASE k = Len(c.done) + 1
        BY <4>1, <2>6, <2>7 DEF Registered
      <4>2. CASE k # Len(c.done) + 1
        <5>1. k \in 1..Len(c.done) BY <1>1, <2>6, <4>2
        <5>2. done[k] = c.done[k] BY <2>6, <5>1
        <5> QED BY <2>8, <5>1, <5>2 DEF PrefixRegistered, Registered
      <4> QED BY <4>1, <4>2
    <3>4. \E m \in Manifest : call'[t].what = m /\ ValidManifest(m, FALSE)
      BY <1>1, <3>1
    <3>5. PrefixRegistered(call[t].via, call[t].what, call[t].done)'
      BY <3>1, <3>3 DEF PrefixRegistered, Registered
    <3> QED BY <1>1, <3>1, <3>2, <3>4, <3>5 DEF CallOK
  <2>12. CallInv' BY <2>3, <2>9, <2>11, CallPersists DEF AdaptersInv, CallInv
  <2>13. Typed'
    BY <1>0, <1>1, <1>3, <2>2, <2>9, RegisterTyped DEF AdaptersInv, Typed
  <2>14. SlotInv'
    <3>1. \A u \in Thread : (call'[u] # None /\ call'[u].op = "materialize")
              => u # t /\ call'[u] = call[u]
      BY <1>0, <2>9, <2>10
    <3>2. \A u \in Store : stores'[u].state = stores[u].state
      BY <1>1, <1>3, <2>2, RegisterTyped
    <3>3. slot.ptr # None => slot.ptr \in Store
      BY DEF AdaptersInv, Typed
    <3>4. (slot.ptr # None => Live(slot.ptr))'
      BY <1>0, <3>2, <3>3 DEF AdaptersInv, SlotInv, Live
    <3>5. ASSUME NEW u \in Thread, call'[u] # None, call'[u].op = "materialize"
          PROVE  /\ slot'.holder = u /\ slot'.ptr \in Store
                 /\ call'[u].what.store = slot'.ptr
      BY <1>0, <3>1, <3>5 DEF AdaptersInv, SlotInv, Idle
    <3> QED BY <3>4, <3>5 DEF SlotInv, Idle
  <2>15. RetInv' BY <1>3, <2>3, RetPersists DEF AdaptersInv
  <2> QED BY <2>3, <2>12, <2>13, <2>14, <2>15 DEF AdaptersInv
<1> QED BY <1>a, <1>2, <1>3 DEF ManifestEntry

\* The end of a manifest call.
LEMMA ManifestEndKeeps ==
  ASSUME AdaptersInv, NEW t \in Thread, ManifestEnd(t)
  PROVE  AdaptersInv'
BY ManifestReturns DEF ManifestEnd

\* Attaching or detaching a store waits for the mutex of the slot.
LEMMA AttachKeeps ==
  ASSUME AdaptersInv, NEW t \in Thread, NEW s \in Store \cup {None}, Attach(t, s)
  PROVE  AdaptersInv'
<1> USE DEF AdaptersInv
<1>1. /\ s # None => Live(s)
      /\ slot.holder = None
      /\ slot' = [slot EXCEPT !.ptr = s]
      /\ Return(t, "other", None, "ok", << >>)
      /\ UNCHANGED <<stores, call, issued>>
  BY DEF Attach
<1>2. slot' = [ptr |-> s, holder |-> None] BY <1>1 DEF Typed
<1>3. Grows BY <1>1, UnchangedGrows
<1>4. Typed' BY <1>1, <1>2, Returns DEF Typed
<1>5. SlotInv'
  <2>1. \A u \in Thread : ~ (call[u] # None /\ call[u].op = "materialize")
    BY <1>1, ConstantsAssumption DEF SlotInv, Idle
  <2> QED BY <1>1, <1>2, <2>1 DEF SlotInv, Live, Idle
<1>6. CounterInv' /\ RecordsInv' BY <1>1, StoresKept
<1>7. CallInv' BY <1>1, <1>3, CallsPersist
<1>8. RetInv' BY <1>1, <1>3, ReturnOther
<1> QED BY <1>4, <1>5, <1>6, <1>7, <1>8

\* The provider's call begins: without a store it fails, otherwise the thread
\* holds the slot until it has its answer.
LEMMA ProviderMaterializeBeginKeeps ==
  ASSUME AdaptersInv, NEW t \in Thread, NEW q \in MRequest,
         ProviderMaterializeBegin(t, q)
  PROVE  AdaptersInv'
<1> USE DEF AdaptersInv
<1>0. UNCHANGED <<stores, issued>> /\ call[t] = None /\ slot.holder = None
  BY DEF ProviderMaterializeBegin, Idle
<1>1. Grows BY <1>0, UnchangedGrows
<1>2. CounterInv' /\ RecordsInv' BY <1>0, StoresKept
<1>3. CASE /\ Return(t, "materialize", q, "invalid_argument", << >>)
           /\ UNCHANGED <<slot, call>>
  <2>1. ret'[t].op = "materialize" /\ ret'[t].status = "invalid_argument"
    BY <1>3, Returns
  <2>2. OutcomeOK(t)' /\ StoreKnown(t)' /\ AnswerOK(t)'
    BY <2>1 DEF OutcomeOK, StoreKnown, AnswerOK
  <2>3. RetInv' BY <1>1, <1>3, <2>2, ReturnEffect
  <2>4. Typed' BY <1>0, <1>3, Returns DEF Typed
  <2>5. SlotInv' BY <1>0, <1>3 DEF SlotInv, Live, Idle
  <2>6. CallInv' BY <1>1, <1>3, CallsPersist
  <2> QED BY <1>2, <2>3, <2>4, <2>5, <2>6
<1>4. CASE /\ slot.ptr # None
           /\ slot' = [slot EXCEPT !.holder = SlotHolder(t)]
           /\ call' = [call EXCEPT ![t] = [op |-> "materialize", via |-> None,
                                           what |-> [q EXCEPT !.store = slot.ptr],
                                           done |-> << >>]]
           /\ UNCHANGED ret
  <2>a. PICK w : w = [q EXCEPT !.store = slot.ptr] OBVIOUS
  <2>b. w.store = slot.ptr BY <2>a, ConstantsAssumption
  <2>1. call' = [call EXCEPT ![t] = [op |-> "materialize", via |-> None,
                                     what |-> w, done |-> << >>]]
    BY <1>4, <2>a
  <2>2. /\ call'[t] = [op |-> "materialize", via |-> None, what |-> w, done |-> << >>]
        /\ \A u \in Thread \ {t} : call'[u] = call[u]
        /\ call' = [u \in Thread |-> call'[u]]
    BY <2>1 DEF Typed
  <2>3. slot' = [ptr |-> slot.ptr, holder |-> t] BY <1>4 DEF Typed, SlotHolder
  <2>4. RetInv' BY <1>1, <1>4, RetPersists
  <2>5. Typed' BY <1>0, <1>4, <2>2, <2>3 DEF Typed
  <2>6. SlotInv'
    <3>1. \A u \in Thread : ~ (call[u] # None /\ call[u].op = "materialize")
      BY <1>0, ConstantsAssumption DEF SlotInv, Idle
    <3>2. slot.ptr \in Store /\ stores[slot.ptr].state = "live"
      BY <1>4 DEF SlotInv, Live, Typed
    <3>3. slot'.ptr = slot.ptr /\ slot'.holder = t /\ call'[t].what.store = slot.ptr
      BY <2>2, <2>3, <2>b
    <3>4. \A u \in Thread : (call'[u] # None /\ call'[u].op = "materialize") => u = t
      BY <2>2, <3>1
    <3> QED BY <1>0, <3>2, <3>3, <3>4 DEF SlotInv, Live, Idle
  <2>7. CallOK(t)' BY <2>2 DEF CallOK
  <2>8. CallInv' BY <1>1, <2>2, <2>7, CallPersists DEF CallInv
  <2> QED BY <1>2, <2>4, <2>5, <2>6, <2>8
<1> QED BY <1>3, <1>4 DEF ProviderMaterializeBegin

\* The store answers, and the mutex of the slot is released.
LEMMA ProviderMaterializeEndKeeps ==
  ASSUME AdaptersInv, NEW t \in Thread, ProviderMaterializeEnd(t)
  PROVE  AdaptersInv'
<1> USE DEF AdaptersInv
<1>a. PICK w : w = call[t].what OBVIOUS
<1>1. /\ ~ Idle(t) /\ call[t].op = "materialize"
      /\ Return(t, "materialize", w, Materialized(stores[w.store], w).status,
                Materialized(stores[w.store], w).handles)
      /\ slot' = [slot EXCEPT !.holder = None]
      /\ call' = [call EXCEPT ![t] = None]
      /\ UNCHANGED <<stores, issued>>
  BY <1>a DEF ProviderMaterializeEnd
<1>2. w.store = slot.ptr /\ slot.ptr \in Store /\ slot.holder = t
  BY <1>1, <1>a DEF SlotInv
<1>3. Grows BY <1>1, UnchangedGrows
<1>4. CounterInv' /\ RecordsInv' BY <1>1, StoresKept
<1>5. /\ call'[t] = None
      /\ \A u \in Thread \ {t} : call'[u] = call[u]
      /\ call' = [u \in Thread |-> call'[u]]
      /\ CallInv'
  BY <1>1, <1>3, CallEnds
<1>6. slot' = [ptr |-> slot.ptr, holder |-> None] BY <1>1 DEF Typed
<1>7. Typed' BY <1>1, <1>5, <1>6, Returns DEF Typed
<1>8. SlotInv'
  <2>1. \A u \in Thread : ~ (call'[u] # None /\ call'[u].op = "materialize")
    BY <1>2, <1>5 DEF SlotInv, Idle
  <2> QED BY <1>1, <1>6, <2>1 DEF SlotInv, Live, Idle
<1>9. RetInv' BY <1>1, <1>2, ReturnMaterialized
<1> QED BY <1>4, <1>5, <1>7, <1>8, <1>9

-----------------------------------------------------------------------------
(***************************************************************************)
(* The theorems.                                                           *)
(***************************************************************************)

\* Nothing is registered, attached or under way at first.
LEMMA InitAdapters ==
  Init => AdaptersInv
<1> SUFFICES ASSUME Init PROVE AdaptersInv OBVIOUS
<1>1. Typed
  <2>1. \A s \in Store : stores[s] = NoStore BY DEF Init
  <2>2. \A s \in Store : NoStore = [state |-> stores[s].state,
                                    next_handle |-> stores[s].next_handle,
                                    records |-> stores[s].records]
    BY <2>1 DEF NoStore
  <2>3. \A s \in Store : stores[s].next_handle \in Nat BY <2>1 DEF NoStore
  <2>4. issued \in [Store -> Seq(Registration)] BY DEF Init
  <2> QED BY <2>2, <2>3, <2>4 DEF Init, Typed
<1>2. SlotInv BY DEF Init, SlotInv, Idle
<1>3. CounterInv BY DEF Init, CounterInv, RegistrationsAreFresh
<1>4. RecordsInv BY DEF Init, RecordsInv, NoStore
<1>5. CallInv BY DEF Init, CallInv, CallOK, Idle
<1>6. RetInv BY DEF Init, RetInv, StoreKnown, AnswerOK, OutcomeOK, Returned
<1> QED BY <1>1, <1>2, <1>3, <1>4, <1>5, <1>6 DEF AdaptersInv

\* A step of any thread, or of none.
LEMMA StepAdapters ==
  AdaptersInv /\ [Next]_vars => AdaptersInv'
<1> SUFFICES ASSUME AdaptersInv, [Next]_vars PROVE AdaptersInv' OBVIOUS
<1>1. CASE UNCHANGED vars
  <2> USE <1>1 DEF vars, AdaptersInv
  <2>1. Grows BY UnchangedGrows
  <2>2. Typed' /\ SlotInv' BY DEF Typed, SlotInv, Live, Idle
  <2>3. CounterInv' /\ RecordsInv' BY StoresKept
  <2>4. CallInv' BY <2>1, CallsPersist
  <2>5. RetInv' BY <2>1, RetPersists
  <2> QED BY <2>2, <2>3, <2>4, <2>5
<1>2. CASE Next
  <2> PICK t \in Thread :
        \/ \E s \in Store :
             \/ StoreNew(t, s)
             \/ StoreDestroy(t, s)
             \/ \E r \in Ref : StoreRegister(t, s, r)
             \/ \E q \in MRequest : StoreMaterialize(t, s, q)
             \/ \E r \in Ref : StoreRelease(t, s, r.adapter_id)
             \/ \E m \in Manifest : ManifestBegin(t, s, m)
        \/ \E s \in Store \cup {None} : Attach(t, s)
        \/ ManifestEntry(t)
        \/ ManifestEnd(t)
        \/ \E q \in MRequest : ProviderMaterializeBegin(t, q)
        \/ ProviderMaterializeEnd(t)
    BY <1>2 DEF Next
  <2>1. CASE \E s \in Store : StoreNew(t, s) \/ StoreDestroy(t, s)
    BY <2>1, StoreNewKeeps, StoreDestroyKeeps
  <2>2. CASE \E s \in Store : \E r \in Ref : StoreRegister(t, s, r)
    BY <2>2, StoreRegisterKeeps
  <2>3. CASE \E s \in Store : \E q \in MRequest : StoreMaterialize(t, s, q)
    BY <2>3, StoreMaterializeKeeps
  <2>4. CASE \E s \in Store : \E r \in Ref : StoreRelease(t, s, r.adapter_id)
    BY <2>4, StoreReleaseKeeps
  <2>5. CASE \E s \in Store : \E m \in Manifest : ManifestBegin(t, s, m)
    BY <2>5, ManifestBeginKeeps
  <2>6. CASE \E s \in Store \cup {None} : Attach(t, s) BY <2>6, AttachKeeps
  <2>7. CASE ManifestEntry(t) \/ ManifestEnd(t)
    BY <2>7, ManifestEntryKeeps, ManifestEndKeeps
  <2>8. CASE \E q \in MRequest : ProviderMaterializeBegin(t, q)
    BY <2>8, ProviderMaterializeBeginKeeps
  <2>9. CASE ProviderMaterializeEnd(t) BY <2>9, ProviderMaterializeEndKeeps
  <2> QED BY <2>1, <2>2, <2>3, <2>4, <2>5, <2>6, <2>7, <2>8, <2>9
<1> QED BY <1>1, <1>2

\* The inductive invariant of the store, the slot and the calls under way.
THEOREM AdaptersInvariant == Spec => []AdaptersInv
BY InitAdapters, StepAdapters, PTL DEF Spec

\* A provider call never reads a store that the host has destroyed: detaching
\* it, which must come first, waits for the mutex that the call holds
\* (capi lib.rs, the borrowed store slot).
THEOREM StoreNeverFreedInUse == Spec => []StoreSafe
<1>1. AdaptersInv => StoreSafe
  BY ConstantsAssumption DEF AdaptersInv, SlotInv, StoreSafe, Live, Idle
<1> QED BY <1>1, AdaptersInvariant, PTL

\* Handles of a store are never given twice, however many threads register
\* directly or through manifests, and whatever was released (register).
THEOREM HandlesNeverReissued == Spec => []RegistrationsAreFresh
<1>1. AdaptersInv => RegistrationsAreFresh BY DEF AdaptersInv, CounterInv
<1> QED BY <1>1, AdaptersInvariant, PTL

\* A materialized handle belongs to a registration of the requested id and
\* parameters in the store asked (materialize).
THEOREM AnswersAreOfRequest == Spec => []AnswersMatchParams
<1>1. AdaptersInv => AnswersMatchParams BY PerThread DEF AdaptersInv, RetInv
<1> QED BY <1>1, AdaptersInvariant, PTL

\* register_manifest succeeds with a handle of its own for every entry, in
\* order, or stops having registered a prefix.
THEOREM ManifestsRegisterPrefixes == Spec => []ManifestOutcome
<1>1. AdaptersInv => ManifestOutcome BY PerThread DEF AdaptersInv, RetInv
<1> QED BY <1>1, AdaptersInvariant, PTL
=============================================================================
