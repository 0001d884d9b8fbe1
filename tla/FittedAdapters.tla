--------------------------- MODULE FittedAdapters ---------------------------
(***************************************************************************)
(* The in-memory store that gives out opaque handles for fitted adapters   *)
(* (core fitted_adapter.rs), used directly by host threads and through the *)
(* store pointer that a provider borrows (C ABI).                          *)
(***************************************************************************)
EXTENDS FittedRefs, Integers, FiniteSets, Functions

CONSTANTS
  Thread,        \* host threads
  Store,         \* stores the host may create
  Ref,           \* references a host may register
  Manifest,      \* manifests a host may register
  MRequest,      \* materialization requests
  MaxHandle      \* bound: no registration is begun in store s past MaxHandle[s]

ASSUME ConstantsAssumption ==
  /\ None \notin Store /\ None \notin Thread
  /\ \A m \in Manifest : m.entries \in Seq(ToSet(m.entries))
  /\ \A q \in MRequest : q = [adapter_id |-> q.adapter_id, store |-> q.store,
                             params_fingerprint |-> q.params_fingerprint]

VARIABLES
  stores,   \* state, next_handle and records of each store
  slot,     \* the provider's borrowed store pointer, and who holds its mutex
  call,     \* the call each thread is in the middle of, or None
  ret,      \* what the last call of each thread returned
  issued    \* history: every registration made in a store, in order

vars == <<stores, slot, call, ret, issued>>

NoStore == [state |-> "none", next_handle |-> 1, records |-> << >>]

Returned(op, what, status, handles) ==
  [op |-> op, what |-> what, status |-> status, handles |-> handles]

Init ==
  /\ stores = [s \in Store |-> NoStore]
  /\ slot = [ptr |-> None, holder |-> None]
  /\ call = [t \in Thread |-> None]
  /\ ret = [t \in Thread |-> Returned("other", None, "ok", << >>)]
  /\ issued = [s \in Store |-> << >>]

Return(t, op, what, status, handles) ==
  ret' = [ret EXCEPT ![t] = Returned(op, what, status, handles)]

-----------------------------------------------------------------------------
(* The store's methods; the mutex makes each of them one step.             *)

\* The size of the map plus one, instead of the counter.
IssuedHandle_counted(st) == Cardinality(DOMAIN st.records) + 1

IssuedHandle(st) == st.next_handle

\* register, past validation: the state it leaves when the id is free.
Inserted(st, r) ==
  [state |-> st.state, next_handle |-> st.next_handle + 1,
   records |-> [x \in DOMAIN st.records \cup {r.adapter_id} |->
                  IF x = r.adapter_id THEN [handle |-> IssuedHandle(st), ref |-> r]
                  ELSE st.records[x]]]

Refused(st, r) == ~ ValidRef(r) \/ r.adapter_id \in DOMAIN st.records

Register(s, r) ==
  /\ stores' = [stores EXCEPT ![s] = Inserted(@, r)]
  /\ issued' = [issued EXCEPT
                  ![s] = Append(@, [handle |-> IssuedHandle(stores[s]), ref |-> r])]

\* A store that answers whatever parameters the adapter was fitted with.
Materializes_any_params(st, q) == q.adapter_id \in DOMAIN st.records /\ ValidMRequest(q)

Materializes(st, q) ==
  /\ ValidMRequest(q)
  /\ q.adapter_id \in DOMAIN st.records
  /\ st.records[q.adapter_id].ref.params_fingerprint = q.params_fingerprint

Materialized(st, q) ==
  IF Materializes(st, q)
  THEN [status |-> "ok", handles |-> <<st.records[q.adapter_id].handle>>]
  ELSE [status |-> "validation", handles |-> << >>]

-----------------------------------------------------------------------------
(* Calls on a store handle.                                                *)

\* A host passes live store handles only.
Live(s) == stores[s].state = "live"

Idle(t) == call[t] = None

StoreNew(t, s) ==
  /\ Idle(t) /\ stores[s].state = "none"
  /\ stores' = [stores EXCEPT ![s].state = "live"]
  /\ Return(t, "other", None, "ok", << >>)
  /\ UNCHANGED <<slot, call, issued>>

\* The host's side of the contract: the store is detached, and no call on its
\* handle overlaps.  A call on the provider may.
StoreDestroy(t, s) ==
  /\ Idle(t) /\ Live(s)
  /\ slot.ptr # s
  /\ \A u \in Thread : call[u] # None => call[u].via # s
  /\ stores' = [stores EXCEPT ![s].state = "freed"]
  /\ Return(t, "other", None, "ok", << >>)
  /\ UNCHANGED <<slot, call, issued>>

StoreRegister(t, s, r) ==
  /\ Idle(t) /\ Live(s) /\ stores[s].next_handle <= MaxHandle[s]
  /\ \/ /\ Refused(stores[s], r)
        /\ Return(t, "other", None, "validation", << >>)
        /\ UNCHANGED <<stores, issued>>
     \/ /\ ~ Refused(stores[s], r)
        /\ Register(s, r)
        /\ Return(t, "other", None, "ok", << >>)
  /\ UNCHANGED <<slot, call>>

StoreMaterialize(t, s, q) ==
  /\ Idle(t) /\ Live(s)
  /\ LET m == Materialized(stores[s], q)
     IN Return(t, "materialize", [q EXCEPT !.store = s], m.status, m.handles)
  /\ UNCHANGED <<stores, slot, call, issued>>

StoreRelease(t, s, adapter_id) ==
  /\ Idle(t) /\ Live(s)
  /\ stores' = [stores EXCEPT ![s].records =
                  Restrict(@, DOMAIN @ \ {adapter_id})]
  /\ Return(t, "other", None, "ok", << >>)
  /\ UNCHANGED <<slot, call, issued>>

\* register_manifest validates the whole manifest, then registers entry by
\* entry, each under the store's mutex on its own, and stops at the first error.
ManifestBegin(t, s, m) ==
  /\ Idle(t) /\ Live(s) /\ stores[s].next_handle <= MaxHandle[s]
  /\ \/ /\ ~ ValidManifest(m, FALSE)
        /\ Return(t, "manifest", m, "validation", << >>)
        /\ UNCHANGED call
     \/ /\ ValidManifest(m, FALSE)
        /\ call' = [call EXCEPT ![t] = [op |-> "manifest", via |-> s,
                                        what |-> m, done |-> << >>]]
        /\ UNCHANGED ret
  /\ UNCHANGED <<stores, slot, issued>>

\* An id that is taken answered with the handle it has.
EntryRefused_reused(t, c, r) ==
  /\ call' = [call EXCEPT ![t].done =
                 Append(@, IF r.adapter_id \in DOMAIN stores[c.via].records
                           THEN stores[c.via].records[r.adapter_id].handle ELSE 0)]
  /\ UNCHANGED ret

EntryRefused(t, c, r) ==
  /\ Return(t, "manifest", c.what, "validation", c.done)
  /\ call' = [call EXCEPT ![t] = None]

ManifestEntry(t) ==
  /\ ~ Idle(t)
  /\ LET c == call[t]
         s == c.via
     IN /\ c.op = "manifest"
        /\ Len(c.done) < Len(c.what.entries)
        /\ LET r == c.what.entries[Len(c.done) + 1].ref
           IN \/ /\ Refused(stores[s], r)
                 /\ EntryRefused(t, c, r)
                 /\ UNCHANGED <<stores, issued>>
              \/ /\ ~ Refused(stores[s], r)
                 /\ Register(s, r)
                 /\ call' = [call EXCEPT ![t].done =
                               Append(@, IssuedHandle(stores[s]))]
                 /\ UNCHANGED ret
  /\ UNCHANGED slot

ManifestEnd(t) ==
  /\ ~ Idle(t)
  /\ call[t].op = "manifest"
  /\ Len(call[t].done) = Len(call[t].what.entries)
  /\ Return(t, "manifest", call[t].what, "ok", call[t].done)
  /\ call' = [call EXCEPT ![t] = None]
  /\ UNCHANGED <<stores, slot, issued>>

-----------------------------------------------------------------------------
(* Calls on the provider the store is attached to.                         *)

\* Attaching a null handle detaches.
Attach(t, s) ==
  /\ Idle(t)
  /\ s # None => Live(s)
  /\ slot.holder = None
  /\ slot' = [slot EXCEPT !.ptr = s]
  /\ Return(t, "other", None, "ok", << >>)
  /\ UNCHANGED <<stores, call, issued>>

\* The guard dropped as soon as the pointer is read.
SlotHolder_dropped(t) == None

\* The guard is held across the dereference and the store's own call.
SlotHolder(t) == t

ProviderMaterializeBegin(t, q) ==
  /\ Idle(t)
  /\ slot.holder = None
  /\ \/ /\ slot.ptr = None
        /\ Return(t, "materialize", q, "invalid_argument", << >>)
        /\ UNCHANGED <<slot, call>>
     \/ /\ slot.ptr # None
        /\ slot' = [slot EXCEPT !.holder = SlotHolder(t)]
        /\ call' = [call EXCEPT ![t] = [op |-> "materialize", via |-> None,
                                        what |-> [q EXCEPT !.store = slot.ptr],
                                        done |-> << >>]]
        /\ UNCHANGED ret
  /\ UNCHANGED <<stores, issued>>

ProviderMaterializeEnd(t) ==
  /\ ~ Idle(t)
  /\ call[t].op = "materialize"
  /\ LET m == Materialized(stores[call[t].what.store], call[t].what)
     IN Return(t, "materialize", call[t].what, m.status, m.handles)
  /\ slot' = [slot EXCEPT !.holder = None]
  /\ call' = [call EXCEPT ![t] = None]
  /\ UNCHANGED <<stores, issued>>

-----------------------------------------------------------------------------
Next ==
  \E t \in Thread :
    \/ \E s \in Store :
         \/ StoreNew(t, s)
         \/ StoreDestroy(t, s)
         \/ \E r \in Ref : StoreRegister(t, s, r)
         \/ \E q \in MRequest : StoreMaterialize(t, s, q)
         \/ \E r \in Ref : StoreRelease(t, s, r.adapter_id)
         \/ \E m \in Manifest : ManifestBegin(t, s, m)
    \/ \E s \in Store \cup {None} : Attach(t, s)
    \/ ManifestEntry(t)
    \/ ManifestEnd(t)
    \/ \E q \in MRequest : ProviderMaterializeBegin(t, q)
    \/ ProviderMaterializeEnd(t)

Spec == Init /\ [][Next]_vars

-----------------------------------------------------------------------------
(* The provider never dereferences a store the host has destroyed, although *)
(* another thread may detach the store and then destroy it while a provider *)
(* call is under way (comment at capi lib.rs:1106).                         *)
StoreSafe ==
  \A t \in Thread :
    (~ Idle(t) /\ call[t].op = "materialize")
      => stores[call[t].what.store].state = "live"

(* No two registrations of a store are given the same handle, whatever was  *)
(* released between them and however many threads register.                 *)
RegistrationsAreFresh ==
  \A s \in Store : \A i, j \in DOMAIN issued[s] :
    issued[s][i].handle = issued[s][j].handle => i = j

(* A handle answered for a request was given to a registration of that id   *)
(* with those fitted parameters: a request kept from before a release and a *)
(* re-registration with other parameters is refused, not answered.          *)
AnswersMatchParams ==
  \A t \in Thread :
    (ret[t].op = "materialize" /\ ret[t].status = "ok")
      => \E i \in DOMAIN issued[ret[t].what.store] :
           LET e == issued[ret[t].what.store][i]
           IN /\ ret[t].handles = <<e.handle>>
              /\ e.ref.adapter_id = ret[t].what.adapter_id
              /\ e.ref.params_fingerprint = ret[t].what.params_fingerprint

(* A manifest call that succeeds obtained a handle of its own for every     *)
(* entry, in the manifest's order; one that fails half-way has registered   *)
(* a proper prefix of the entries and nothing after it.                     *)
ManifestOutcome ==
  \A t \in Thread : ret[t].op = "manifest" =>
    LET m == ret[t].what
        n == Len(ret[t].handles)
    IN /\ ret[t].status = "ok" <=> (n = Len(m.entries) /\ ValidManifest(m, FALSE))
       /\ n > 0 => \E s \in Store : \A k \in 1..n : \E i \in DOMAIN issued[s] :
            issued[s][i] = [handle |-> ret[t].handles[k], ref |-> m.entries[k].ref]
=============================================================================
