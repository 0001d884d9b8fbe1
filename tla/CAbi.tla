-------------------------------- MODULE CAbi --------------------------------
(***************************************************************************)
(* Host threads calling the C ABI: who owns which allocation, what a call  *)
(* leaves in its outputs, and what the thread-local last error says.       *)
(*                                                                         *)
(* Everything a call does between its entry and its return is local to its *)
(* thread, so a call is one step; the constructor that calls back into the *)
(* host's fetcher is a step from callback to callback, and in a callback   *)
(* the host may call other functions on the same thread.                   *)
(*                                                                         *)
(* An object is an allocation that crosses the ABI with the parts it is    *)
(* made of.  Part 0 is the object itself, part c > 0 its Arrow child c.    *)
(***************************************************************************)
EXTENDS AbiFunctions, Integers

CONSTANTS
  Thread,
  MaxObjects,    \* bound: objects the host holds at a time, one of a kind
  Child,         \* the children of an Arrow array or schema, 1..n
  MaxRequests,   \* bound: fetch requests of one constructor call
  MaxFetchers,   \* bound: fetcher constructors under way at a time
  HostString     \* what a fetcher may leave in error_out: "null", "text", "empty"

ASSUME ChildAssumption == Child \subseteq Nat \ {0}

VARIABLES
  objects,      \* every object with live parts, and who owns it
  last_error,   \* LAST_ERROR of each thread
  lastFail,     \* history: which call of each thread failed last, 0 when none did
  frame,        \* the fetcher constructor each thread is in, or NoFrame
  ret,          \* history: what the last call left to the host
  fault         \* history: a part freed twice, or a null pointer used

vars == <<objects, last_error, lastFail, frame, ret, fault>>

None == [by |-> {}, call |-> 0]

\* pc says what the constructor does next, slot is destroy_slot, given whether
\* the host's vtable has a destroy callback; destroys is history.
NoFrame == [pc |-> "out", left |-> 0, given |-> FALSE, slot |-> FALSE, destroys |-> 0]

Owned == {"string", "error", "tensor", "ndtensor", "array", "schema", "vtable"}

-----------------------------------------------------------------------------
(* Allocations and how they are released.                                  *)

Part(at, what) == [at |-> at, what |-> what]

TensorFields ==
  {"block_id", "representation_id", "batch_container", "observation_ids", "sample_ids",
   "shape", "values", "presence_mask", "validity_mask", "feature_names"}

NdTensorFields ==
  {"tensor_id", "representation_id", "container", "observation_ids", "sample_ids",
   "shape", "data", "row_presence_mask"}

\* tensor_to_c, tensor_to_c_f32: an absent mask or name list, and every empty
\* array, is a null pointer.
TensorParts(optional) ==
  {Part(0, f) : f \in (TensorFields \ {"presence_mask", "validity_mask", "feature_names"})
                        \cup optional}

\* A leaf array or schema: the boxed struct and its private data.
LeafParts(c) == {Part(c, "box"), Part(c, "private")}

\* struct_array, struct_schema.
StructParts == LeafParts(0) \cup UNION {LeafParts(c) : c \in Child}

NewParts(kind) ==
  CASE kind \in {"string", "error"} -> {{Part(0, "text")}}
    [] kind = "vtable" -> {{Part(0, "state")}}
    [] kind = "tensor" -> {TensorParts({}), TensorParts({"validity_mask"}),
                           TensorParts({"presence_mask", "feature_names"})}
    [] kind = "ndtensor" -> {{Part(0, f) : f \in NdTensorFields},
                             {Part(0, f) : f \in NdTensorFields \ {"row_presence_mask"}}}
    [] kind \in {"array", "schema"} -> {StructParts}

\* One field forgotten.
dagmldata_tensor_free_partial(o) == {p \in o.parts : p.what # "validity_mask"}

\* Fields that the free function of a tensor releases, each unless it is null.
dagmldata_tensor_free(o) == {p \in o.parts : p.what \in TensorFields}

dagmldata_nd_tensor_free(o) == {p \in o.parts : p.what \in NdTensorFields}

\* The children released whether or not they were moved out before.
release_struct_unguarded(o) ==
  IF Part(0, "private") \notin o.parts THEN {}
  ELSE {Part(0, "private")} \cup UNION {LeafParts(c) : c \in Child}

\* The release callback of a struct array or schema: nothing when it has been
\* called already; a child that was moved out has no release callback left.
release_struct(o) ==
  IF Part(0, "private") \notin o.parts THEN {}
  ELSE {Part(0, "private")} \cup {Part(c, "box") : c \in Child}
         \cup {p \in o.parts : p.what = "private"}

\* dagmldata_arrow_array_free, dagmldata_arrow_schema_free.
dagmldata_arrow_free(o) == release_struct(o) \cup {Part(0, "box")}

FreedParts(o) ==
  CASE o.kind \in {"string", "error"} -> {Part(0, "text")}
    [] o.kind = "tensor" -> dagmldata_tensor_free(o)
    [] o.kind = "ndtensor" -> dagmldata_nd_tensor_free(o)
    [] o.kind \in {"array", "schema"} -> dagmldata_arrow_free(o)
    [] o.kind = "vtable" -> {Part(0, "state")}

-----------------------------------------------------------------------------
(* Errors and outputs.                                                     *)

\* store_last_error: the buffer is the calling thread's.
Stored(t, e) == [last_error EXCEPT ![t] = e]

\* A call of t fails, and its error goes through the recorder of the place where
\* it fails.  The failing calls of a thread are told apart from one to the next.
Fail(t, recorder) ==
  LET call == IF lastFail[t] = 1 THEN 2 ELSE 1
  IN /\ lastFail' = [lastFail EXCEPT ![t] = call]
     /\ last_error' = IF recorder.buffer THEN Stored(t, [by |-> {t}, call |-> call])
                      ELSE last_error

\* A function that clears only its error output.
Cleared_error_only(fn) == fn.clears \cap {"error"}

Cleared(fn) == fn.clears

Outputs(fn) == {fn.gives[i] : i \in DOMAIN fn.gives} \cap Owned

\* The owned outputs that still hold what the host had there before the call.
Stale(fn, nulls) == (Outputs(fn) \ nulls) \ Cleared(fn)

Checks(fn) == fn.checks

ArgumentError(fn, nulls) ==
  \E i \in DOMAIN Checks(fn) : Checks(fn)[i] \cap nulls # {}

\* A null pointer is used when it was not tested: a string output is written
\* by set_string, which accepts null.
UsesNull(fn, nulls) ==
  (fn.reads \cup ({fn.gives[i] : i \in DOMAIN fn.gives} \ {"string"})) \cap nulls # {}

\* The stages a call can fail at: all up to the first that cannot succeed.
Reachable(fn, nulls) ==
  {k \in DOMAIN fn.stages : \A j \in 1..(k - 1) : fn.stages[j].pair \notin nulls}

-----------------------------------------------------------------------------
(* Calls.                                                                  *)

Init ==
  /\ objects = {}
  /\ last_error = [t \in Thread |-> None]
  /\ lastFail = [t \in Thread |-> 0]
  /\ frame = [t \in Thread |-> NoFrame]
  /\ ret = [stale |-> {}, given |-> FALSE, destroys |-> 0]
  /\ fault = FALSE

Held == {o \in objects : o.owner = "host"}

Allocated(kind, parts, owner) == [kind |-> kind, parts |-> parts, owner |-> owner]

\* The objects a call hands to the host, and the parts it drops.
Hand(kinds, dropped) ==
  /\ Cardinality(Held) + Cardinality(kinds) <= MaxObjects
  /\ \A o \in Held : o.kind \notin kinds
  /\ \E parts \in [kinds -> UNION {NewParts(k) : k \in kinds}] :
       /\ \A k \in kinds : parts[k] \in NewParts(k)
       /\ objects' = objects \cup {Allocated(k, parts[k], "host") : k \in kinds} \cup dropped

\* What a call leaves in the owned outputs it did not write, and what it did to
\* the destroy callback of the frame it had.
Returned(stale, f) == ret' = [stale |-> stale, given |-> f.given, destroys |-> f.destroys]

\* Message of a failed call, if its recorder writes one and the host passed an
\* error_out.
Message(recorder, nulls) ==
  IF recorder.message /\ "error" \notin nulls THEN {"error"} ELSE {}

CallArgumentError(t, fn, nulls) ==
  /\ ArgumentError(fn, nulls)
  /\ Fail(t, fn.refuses)
  /\ Hand(Message(fn.refuses, nulls), {})
  /\ Returned(Stale(fn, nulls), NoFrame)
  /\ UNCHANGED <<frame, fault>>

\* An Arrow stage that fails after its first child: the raw pointer to it is
\* dropped with the vector that held it.
CallFails(t, fn, nulls) ==
  /\ ~ ArgumentError(fn, nulls)
  /\ \E k \in Reachable(fn, nulls) :
       LET stage == fn.stages[k]
       IN /\ Fail(t, stage.recorder)
          /\ \E built \in IF stage.arrow
                           THEN {{}, {Allocated("children", LeafParts(1), "dropped")}}
                           ELSE {{}} :
               Hand(Message(stage.recorder, nulls), built)
          /\ Returned(Stale(fn, nulls), NoFrame)
  /\ fault' = (fault \/ fn.reads \cap nulls # {})
  /\ UNCHANGED frame

CallSucceeds(t, fn, nulls) ==
  /\ ~ ArgumentError(fn, nulls)
  /\ \A k \in DOMAIN fn.stages : fn.stages[k].pair \notin nulls
  /\ Hand(Outputs(fn) \ nulls, {})
  /\ Returned({}, NoFrame)
  /\ fault' = (fault \/ UsesNull(fn, nulls))
  /\ UNCHANGED <<last_error, lastFail, frame>>

\* dagmldata_last_error_json copies the message out; the buffer stays.
LastErrorJson(t) ==
  /\ last_error[t] # None
  /\ Hand({"string"}, {})
  /\ Returned({}, NoFrame)
  /\ UNCHANGED <<last_error, lastFail, frame, fault>>

-----------------------------------------------------------------------------
(* The constructor that fetches buffers through a host vtable.  It returns *)
(* early in many places, and each of them runs destroy_fetcher for itself. *)

\* Runs the destroy callback if the slot still holds one, and empties the slot.
destroy_fetcher(f) ==
  [f EXCEPT !.slot = FALSE,
            !.destroys = IF f.slot /\ f.given THEN @ + 1 ELSE @]

\* A place where the constructor gives up: the recorder of its error, and the
\* frame it leaves behind.
Exit(recorder, f) == [recorder |-> recorder, frame |-> f]

\* The tests of the arguments, in order, then the envelope and the target tables.
\* No callback runs before them.  One that forgets the fetcher:
Refusals_kept(f) ==
  [test \in {"vtable", "envelope", "version", "callback", "requests", "json", "targets"} |->
     Exit(set_error_message, IF test = "targets" THEN f ELSE destroy_fetcher(f))]

Refusals(f) ==
  [vtable   |-> Exit(set_error_message, destroy_fetcher(f)),
   envelope |-> Exit(set_error_message, destroy_fetcher(f)),
   version  |-> Exit(set_error_message, destroy_fetcher(f)),
   callback |-> Exit(set_error_message, destroy_fetcher(f)),
   requests |-> Exit(set_error_message, destroy_fetcher(f)),
   json     |-> Exit(set_display_error, destroy_fetcher(f)),
   targets  |-> Exit(parse_target_tables.recorder, destroy_fetcher(f))]

\* The callback returned an error, or a matrix that is not valid.
Rejections(f) ==
  [status |-> Exit(set_error_message, destroy_fetcher(f)),
   matrix |-> Exit(set_error_message, destroy_fetcher(f))]

\* The store or the provider cannot be built; the fetcher is gone by then.
BuildErrors(f) ==
  [store    |-> Exit(set_display_error, f),
   provider |-> Exit(set_display_error, f)]

\* dropped is what an exit leaves allocated.  Whether the host passed an error_out
\* plays no part before, and is chosen here.
Records(t, recorder, dropped) ==
  /\ Fail(t, recorder)
  /\ \E nulls \in SUBSET {"error"} : Hand(Message(recorder, nulls), dropped)

\* The error is recorded before the destroy callback runs, and the constructor
\* returns after it.
GivesUp(t, exit, dropped) ==
  /\ Records(t, exit.recorder, dropped)
  /\ frame' = [frame EXCEPT ![t] = [exit.frame EXCEPT !.pc = "leave", !.left = 0]]
  /\ UNCHANGED <<ret, fault>>

\* What it clears on entry, and what became of the fetcher.
Returns(t, f) ==
  /\ Returned(Stale(dagmldata_inmemory_provider_new_with_buffer_fetcher, {}), f)
  /\ frame' = [frame EXCEPT ![t] = NoFrame]

FetcherBegin(t, n, given) ==
  /\ frame[t].pc = "out"
  /\ Cardinality({u \in Thread : frame[u].pc # "out"}) < MaxFetchers
  /\ LET f == [NoFrame EXCEPT !.left = n, !.given = given, !.slot = TRUE]
     IN \/ \E test \in DOMAIN Refusals(f) :
             /\ test = "requests" => n > 0
             /\ GivesUp(t, Refusals(f)[test], {})
        \/ /\ frame' = [frame EXCEPT ![t] = [f EXCEPT !.pc = "fetch"]]
           /\ UNCHANGED <<objects, last_error, lastFail, ret, fault>>

\* consume_string_message frees the host's message, unless its length is zero.
consume_string_message(text) ==
  IF text = "empty" THEN {Allocated("message", {Part(0, "text")}, "dropped")} ELSE {}

Fetch(t, text) ==
  /\ frame[t].pc = "fetch" /\ frame[t].left > 0
  /\ objects' = objects \cup consume_string_message(text)
  /\ frame' = [frame EXCEPT ![t].left = @ - 1]
  /\ UNCHANGED <<last_error, lastFail, ret, fault>>

FetchFails(t, text) ==
  /\ frame[t].pc = "fetch" /\ frame[t].left > 0
  /\ \E why \in DOMAIN Rejections(frame[t]) :
       GivesUp(t, Rejections(frame[t])[why], consume_string_message(text))

\* Every request is answered: the fetcher is destroyed before anything is built.
FetcherEnd(t) ==
  /\ frame[t].pc = "fetch" /\ frame[t].left = 0
  /\ frame' = [frame EXCEPT ![t] = [destroy_fetcher(@) EXCEPT !.pc = "build"]]
  /\ UNCHANGED <<objects, last_error, lastFail, ret, fault>>

BuildFails(t) ==
  /\ frame[t].pc = "build"
  /\ \E what \in DOMAIN BuildErrors(frame[t]) :
       LET exit == BuildErrors(frame[t])[what]
       IN Records(t, exit.recorder, {}) /\ Returns(t, exit.frame)
  /\ UNCHANGED fault

\* The provider is built and its vtable written.
FetcherSucceeds(t) ==
  /\ frame[t].pc = "build"
  /\ Hand({"vtable"}, {})
  /\ Returned({}, frame[t])
  /\ frame' = [frame EXCEPT ![t] = NoFrame]
  /\ UNCHANGED <<last_error, lastFail, fault>>

FetcherReturns(t) ==
  /\ frame[t].pc = "leave"
  /\ Returns(t, frame[t])
  /\ UNCHANGED <<objects, last_error, lastFail, fault>>

-----------------------------------------------------------------------------
(* What the host does with what it was given.                              *)

\* Of an object that loses parts, what is left.
Left(o, gone, owner) ==
  (objects \ {o}) \cup
    {x \in {Allocated(o.kind, o.parts \ gone, owner)} : x.parts # {}}

\* A host frees an object once, with the function for its kind.
Free(o) ==
  /\ o.owner = "host" /\ o.kind # "vtable"
  /\ fault' = (fault \/ ~ (FreedParts(o) \subseteq o.parts))
  /\ objects' = Left(o, FreedParts(o), "dropped")
  /\ UNCHANGED <<last_error, lastFail, frame, ret>>

\* An Arrow consumer moves a child out, to release it later on its own.
MoveChild(o, c) ==
  /\ o.owner = "host" /\ o.kind \in {"array", "schema"}
  /\ Part(0, "private") \in o.parts /\ Part(c, "private") \in o.parts
  /\ objects' = Left(o, {Part(c, "private")}, "host")
  /\ UNCHANGED <<last_error, lastFail, frame, ret, fault>>

\* An Arrow consumer calls the release callback, before the host frees the box.
ArrowRelease(o) ==
  /\ o.owner = "host" /\ o.kind \in {"array", "schema"}
  /\ fault' = (fault \/ ~ (release_struct(o) \subseteq o.parts))
  /\ objects' = Left(o, release_struct(o), "host")
  /\ UNCHANGED <<last_error, lastFail, frame, ret>>

\* dagmldata_inmemory_provider_destroy frees the state and empties the vtable,
\* so that calling it again does nothing.
ProviderDestroy(o) ==
  /\ o.owner = "host" /\ o.kind = "vtable"
  /\ objects' = Left(o, FreedParts(o), "host")
  /\ UNCHANGED <<last_error, lastFail, frame, ret, fault>>

-----------------------------------------------------------------------------
\* The host runs on t between calls, in a fetch callback, and in the destroy
\* callback.
HostRuns(t) ==
  LET f == frame[t]
  IN \/ f.pc = "out"
     \/ f.pc = "fetch" /\ f.left > 0
     \/ f.pc \in {"build", "leave"} /\ f.destroys > 0

\* The pointers a host may pass as null, and the pairs with a null pointer.
Pointers(fn) ==
  UNION {fn.checks[i] : i \in DOMAIN fn.checks} \cup fn.clears
    \cup ({fn.stages[k].pair : k \in DOMAIN fn.stages} \ {"none"})

Next ==
  \/ \E t \in Thread :
       /\ HostRuns(t)
       /\ \/ LastErrorJson(t)
          \/ \E fn \in Functions :
               \E nulls \in {n \in SUBSET Pointers(fn) : Cardinality(n \ {"error"}) <= 1} :
                 \/ CallArgumentError(t, fn, nulls)
                 \/ CallFails(t, fn, nulls)
                 \/ CallSucceeds(t, fn, nulls)
  \/ \E t \in Thread :
       \/ \E n \in 0..MaxRequests, given \in BOOLEAN : FetcherBegin(t, n, given)
       \/ \E text \in HostString : Fetch(t, text) \/ FetchFails(t, text)
       \/ FetcherEnd(t)
       \/ BuildFails(t)
       \/ FetcherSucceeds(t)
       \/ FetcherReturns(t)
  \/ \E o \in objects :
       \/ Free(o)
       \/ \E c \in Child : MoveChild(o, c)
       \/ ArrowRelease(o)
       \/ ProviderDestroy(o)

Spec == Init /\ [][Next]_vars

-----------------------------------------------------------------------------
(* After a call that did not return Ok, no owned output holds a pointer: a  *)
(* host that frees its outputs whatever the status frees nothing twice.     *)
NoOutputOnFailure == ret.stale = {}

(* Nothing is freed twice, also when an Arrow consumer has moved children   *)
(* out of an array or called its release callback before the host frees it, *)
(* and no function uses a pointer that it has not tested for null.          *)
NoFault == ~ fault

(* What a host has given back is gone entirely, and a call keeps nothing    *)
(* for itself: all that outlives its owner are children of Arrow exports    *)
(* that failed in the middle.                                               *)
OnlyFailedExportsStrand ==
  \A o \in objects : o.owner = "dropped" => o.kind = "children"

(* "The buffer is thread-local and persists until the next failing call on  *)
(* the same thread" (lib.rs:486): whichever function fails at whichever     *)
(* stage, with or without an error output, other threads' failures, this    *)
(* thread's successes and the calls a host makes from its callbacks leave   *)
(* the thread with the error of the call that failed last on it.            *)
LastErrorIsOwn ==
  \A t \in Thread :
    last_error[t] = IF lastFail[t] = 0 THEN None ELSE [by |-> {t}, call |-> lastFail[t]]

(* "destroy is called exactly once per constructor invocation, before the   *)
(* constructor returns (success or failure)" (lib.rs:2254), if the host     *)
(* gave a destroy callback; and never while buffers are still fetched with  *)
(* the user data it destroys.                                               *)
FetcherDestroyedOnce ==
  /\ ret.destroys = IF ret.given THEN 1 ELSE 0
  /\ \A t \in Thread : frame[t].pc = "fetch" => frame[t].destroys = 0

(* "the provider defensively frees any error string it observes after the   *)
(* callback regardless, to avoid silent leaks" (lib.rs:2263).               *)
FetchMessagesFreed == \A o \in objects : o.kind # "message"
=============================================================================
