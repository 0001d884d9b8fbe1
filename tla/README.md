# Verification of dag-ml-data

TLA+ models of the data plane of dag-ml-data: what its Rust crates promise to
the coordinator (dag-ml) that drives them, model-checked with TLC on small
campaigns and, where it matters most, proved with TLAPS for every value of the
constants.

All paths below are relative to `src/`. `core/` stands for
`crates/dag-ml-data-core/src/`.

## 1. The system

dag-ml-data keeps a cross-validation or prediction campaign honest about which
rows a model may see. A host builds an *envelope* (schema, plan, identity
relations, optionally a *predict cohort*), gives it to a *provider*, asks for
*data handles* by materialization requests, narrows them with *views*, and
exports identities, targets, features and tensors of a view. Everything else is
pure validation and conversion around that path.

| Component | State | Operations | Talks to |
|---|---|---|---|
| Handle arena, `core/handle.rs` | one counter; maps of data records, data relations, view records, view relations (`RefCell`s) | `materialize`, `make_view`, `release_handle`, look-ups, exports | reads the envelope; owned by the provider |
| Coordinator relations, envelopes, `core/coordinator.rs` | none (immutable values) | `validate`, `fingerprint`, `from_parts`, conversion from sample tables | handle arena, provider, cohorts |
| Predict cohort, `core/predict_cohort.rs` | none | construction, `validate`, `validate_disjoint` | envelope, request |
| Sample relations, fold sets, `core/relation.rs` | none | `validate`, `validate_fold_set` | host (audit), `from_parts` |
| Provider, `crates/dag-ml-data-provider` | an immutable envelope; one mutex over the handle arena and two binding arenas | `materialize`, `make_view`, blocks, fusion, `release` | C ABI, JSON front, bindings |
| Feature buffers, tensors, `core/buffer.rs`, `core/nd_tensor.rs` | immutable stores; per data handle a map of bindings | bind, project, release | provider |
| Fitted-adapter store, `core/fitted_adapter.rs` | mutex over a counter and records by adapter id; manifest files | `register`, `register_manifest`, `materialize`, `release`, read/write | C ABI |
| Feature buffer files, `core/buffer_file_store.rs` | a checksummed file | write, read | C ABI |
| C ABI, `crates/dag-ml-data-capi` | raw pointers to providers and stores, the attached store of a provider, thread-local last error, host callbacks | vtable calls, attach/detach, fetcher construction, destroy | host |
| Adapter search, planner, plans, `core/adapter.rs`, `planner.rs`, `plan.rs` | none | cost-bounded path search, planning, validation | host, envelope |
| Fusion, alignment, collation, aggregation | none | pure operators over blocks | provider |
| Schema, representations, ids, fingerprints, errors | none | validation, hashing | everything |
| Arrow, CLI, Python, WebAssembly, R | wrappers | conversion, one call each | C ABI, provider |

What makes each part correct, and hard:

- **Handle arena.** Handles are `u64`s a host may keep, release, reuse and
  guess. A value denotes one thing from issue to release and nothing after; a
  view never outlives its data handle and never shows more than it; a view
  respects its request's sources, its own and its branch at once. Long mixed
  histories are where this would break.
- **Envelope, cohort, request.** Which relations a request reads depends on
  phase, cohort and envelope together. No sample may reach both a fitting
  handle and an external-test handle, by itself or through the origin of an
  augmented row.
- **Provider.** Three arenas must change together under one mutex, also when
  one of them fails after another has changed, when a thread panics inside, and
  when a call (fusion) takes the lock once per source.
- **Buffers and tensors.** Coverage is computed once per handle and trusted for
  every later view.
- **Fold audit.** Group, sample and origin leakage can come from two
  authorities for groups, from the observation-to-sample conversion of origins,
  and from the views taken.
- **Fitted adapters.** Manifest registration is one lock per entry; a provider
  reads a store through a borrowed pointer that another thread may detach before
  the host destroys the store; manifest files are overwritten in place.
- **Files, C ABI, search.** Crash during a rewrite, exactly-once destruction of
  callbacks, errors read on the wrong thread, checked sums of costs.

`PROJECT.json` lists the hazards one by one with their lines.

## 2. Modules

| Module | Kind | Models |
|---|---|---|
| `Relations` | operators | relation sets, branch views, views, row selection and source scoping |
| `Envelope` | operators | cohorts, envelopes, requests, which relations a request reads |
| `HandleRegistry` | abstract specification | what the owner of an arena is promised |
| `HandleArena` | state machine | `CoordinatorHandleArena` |
| `Buffers` | operators | bindings and projection of feature buffers and tensors |
| `Provider` | state machine | `InMemoryProvider`: threads, mutex, three arenas; extends `HandleArena` and `Buffers` |
| `FoldSet` | operators | the leakage audit, and the way from a sample table to an envelope |
| `FoldCampaign` | state machine | audit, envelope and fold views over the arena; extends `HandleArena` and `FoldSet` |
| `FittedRefs` | operators | fitted-adapter references, manifests, requests and what validation accepts |
| `FittedAdapters` | state machine | the fitted-adapter store, manifests registered entry by entry, and the store pointer a provider borrows; extends `FittedRefs` |
| `BufferFile` | state machine | the `.n4d` file: sizes the writer produces, the reader field by field |
| `StoreFiles` | state machine | manifests and buffer files rewritten in place, crashes, failed writes, foreign files; extends `BufferFile` and `FittedRefs` |
| `AbiFunctions` | operators | the exported functions of the C ABI, one definition each |
| `CAbi` | state machine | host threads calling them: ownership, outputs, last error, fetcher callbacks; extends `AbiFunctions` |
| `PathSearch` | operators | the adapter registry and `find_path` |
| `Schema`, `Builtins` | operators | validation of schemas, the published registry, the builtin catalogue |
| `Planner` | state machine | `plan_model_input` port by port, and `DataPlan::validate`; extends `PathSearch` and `Builtins` |
| `Tables` | operators | feature tables and matrices, columnar buffers, blocks of features and targets |
| `Fusion` | operators | alignment, fusion, source layouts, collation; extends `Tables` |
| `TensorViews` | operators | borrowed strided tensors and N-D tensors; extends `Fusion` |
| `ArrowExport` | operators | Arrow arrays with bitmaps and offsets, and a consumer that reads them back; extends `Tables` |
| `DataPath` | state machine | a host's data on its way through the library, call by call; extends `TensorViews` and `ArrowExport` |
| `Campaign` | instance | a two-source campaign with augmented, excluded, combo, test and overlapping rows |
| `MCHandleArena`, `MCProvider`, `MCFoldCampaign`, `MCFittedAdapters`, `MCStoreFiles`, `MCCAbi`, `MCPlanner`, `MCDataPath`, `MCKernels` | instances | values of the constants; `MCKernels` puts the planner and the data path side by side |
| `HandleArenaProofs` | theorems | of `HandleArena`, its refinement of `HandleRegistry` among them; section 5 |
| `ProviderProofs`, `FoldCampaignProofs` | theorems | of `Provider` and `FoldCampaign`; they use those of `HandleArena` |
| `FittedAdaptersProofs`, `StoreFilesProofs`, `CAbiProofs` | theorems | of the modules they are named after |
| `TensorProofs` | theorems | of lists and recursion, and of the borrowed tensors of `DataPath` and `TensorViews` |
| `DataPathProofs` | theorems | of the targets, buffers, fusion, collation and exports of `DataPath`; extends `TensorProofs` |

How state and actions correspond to the code:

- `HandleArena`'s five variables are the five fields of the Rust struct (the
  owner's name is left out). `materialize`, `make_view` and `release_handle` are
  one action each, with every check of the code as a guard. A call that returns
  an error changes nothing and is a stuttering step. `release_handle` is the
  disjunction of its two branches: the code looks for a view first, then for a
  data handle, whose views it removes too.
- `records` keeps the whole request. The code's record copies all of it but the
  cohort, which the model keeps as history for `TrainTestSeparation`.
- `Provider` adds the envelope, the two binding arenas, the mutex and one call
  record per thread. A call that changes several arenas is a chain of actions
  from the one that takes the lock to the one that drops it, so that a panic
  (`panic`) can fall between any two changes, and so that an error of the second
  arena leaves what the first did. `feature_fusion_block` is a chain that holds
  the lock only inside each step. `release` is called with any handle value,
  live or not, as a host may.
- `FoldCampaign` is the one module that models the host: it audits a fold set,
  never uses a refused one, and takes views whose explicit sample ids are one
  side of a fold. Which sources, branch and flags it asks for is open.
- `FittedAdapters` has a store's counter and records as its state, and the slot
  of the provider that borrows a store. A call on a store is one step, because
  the store's mutex covers it; `register_manifest` is a step per entry, because
  each entry takes the mutex by itself. A materialization through the provider
  is two steps around the slot's mutex: the pointer is read, then used. The host
  keeps its side of the contract of the header: it destroys a store only after
  detaching it and never during a call on the store's own handle. It may do so
  during a call on the provider; that this is safe is a property, not an
  assumption.
- `StoreFiles` has the content of one path as a sequence of chunks. A write
  truncates, adds chunk after chunk and returns; in between the process may be
  killed or the write may fail. One process writes at a time, and a read takes
  the file as it is at one moment (`fs::read`). `BufferFile` then moves the reader
  field by field through the payload, with a cursor, and records what it reserves.
  A file of another program with a valid checksum holds any counts. What was
  parsed becomes a store, whose constructor refuses buffers without features or
  observations: no program can write such a store, and a foreign file that holds
  one is refused at the end.
- `AbiFunctions` describes each exported function by what its callers depend on:
  the outputs it clears, its null tests in order, the pointers it then uses, the
  fallible stages, what it gives away. Each null test and each stage has the
  recorder its error goes through: `set_error_message` and `set_display_error`
  write the last error and the message, `record_arg_error` and
  `record_data_error`, of functions without an `error_out`, the last error only.
  `CAbi` runs them: a call is one step, as everything it does until it returns is
  local to its thread or is one call into a component that has a module of its
  own. Which status code a call returns is left out: what a host does depends on
  whether it is `Ok`.
- The constructor that calls back into a host's fetcher is a step from callback to
  callback, with the slot of its destroy callback (`destroy_slot`) as state. Each
  of its nine early returns is an entry of `Refusals` or `Rejections`, with the
  recorder and the `destroy_fetcher` of that return; the two errors after the
  fetcher is gone are in `BuildErrors`. In a fetch callback and in the destroy
  callback the host may call any other function on the same thread. As the code
  records an error before it runs the callback, an error of such a call replaces
  the constructor's in the last-error buffer. A second constructor inside a
  callback of the first is not modelled. Whether the host passed an `error_out` is
  chosen where an error is recorded, as nothing before depends on it.
- Objects are allocations with parts, so that a consumer that moves an Arrow child
  out, or releases an array before the host frees its box, is told apart from a
  double free.
- `Planner` plans one port per step and validates the plan in the last one.
  `DataPath` is one call per step; a call that returns an error ends the job. A
  host takes in a table whatever its rows are, a matrix only if its rows have
  one length (`OneLength`), and columns only if every row has a cell in each
  (`InColumns`): other rows have no such form to pass. JSON numbers are integers
  or f64 values. A buffer holds f64 values, so that an integer is rounded on its
  way in (`as_f64`) and is written back as an f64 number (`FromCell`), while the
  arena's own selection (`feature_values`) clones the host's JSON value.

What is abstracted, everywhere:

- A `Vec` of relations is a set: validation refuses two rows with one
  observation, and no property depends on the order of rows.
- A SHA-256 fingerprint is the content it digests: equal exactly when the
  content is equal. A tampered digest is any other value.
- In the arena, provider and fold modules, cell values, columns and feature names
  are left out; they are the subject of `Tables`, `Fusion`, `TensorViews` and
  `ArrowExport`. Reads that change nothing are stuttering steps, except where a
  read spans several locks.
- A text is kept up to what its validation tells apart (blank, with a control
  character, plain) or is a tuple of name parts where the code joins names.
- Word widths are constants, scaled so that overflow happens in small models:
  `UsizeMax`, `IsizeMax`, `U64Max`, `I32Max`, `ByteBits`, `MaxRank`. So is
  `ExactInteger`, up to which every integer is an f64 value (2^53 in the code).
- Phases are written in lower case; the code compares them ignoring case.
- Metadata is a set of key-value pairs.

## 3. Runs

| Run | Module, cfg | Question | Result |
|---|---|---|---|
| `arena` | `MCHandleArena`, `HandleArena.cfg` | Do the arena's maps, scopes and handle values survive every history, and does it implement `HandleRegistry`? | holds, 10,539 states |
| `arena_export` | `MCHandleArena`, `HandleArenaExport.cfg` | Can every accepted view be exported? | violated (finding 1) |
| `provider` | `MCProvider`, `Provider.cfg` | Do two threads with panics ever see the arenas out of step, a handle without its bindings, a mixed fusion, or a train/test overlap? | holds, 62,270 states |
| `provider_live` | `MCProvider`, `ProviderLive.cfg` | Does every call give the mutex back? | holds, 4,769 states |
| `folds` | `MCFoldCampaign`, `FoldCampaign.cfg` | Does an accepted audit keep the sides of a fold apart in every view? | holds, 43,322 states |
| `fold_siblings` | `MCFoldCampaign`, `FoldSiblings.cfg` | Do augmentations of one observation stay on one side? | violated (finding 2) |
| `fitted` | `MCFittedAdapters`, `FittedAdapters.cfg` | Two threads register, release, materialize, attach, detach and destroy: is a store ever used after its end, a handle given twice, an answer for other parameters, and what does a failed manifest leave? | holds, 570,069 states |
| `files` | `MCStoreFiles`, `StoreFiles.cfg` | Does an acknowledged write leave its whole document, does the reader stay inside any payload and read back every store, and does the portable gate keep references inside the directory? | holds, 19,931 states |
| `manifest_torn` | `MCStoreFiles`, `ManifestTorn.cfg` | Is what `write_to_path` leaves on disk always loadable? | violated (finding 3) |
| `cabi` | `MCCAbi`, `CAbi.cfg` | Every exported function that can fail, with null pointers, failures at every stage and calls from callbacks: stale outputs, double frees, strays, the last error, the fetcher's end | holds, 39,628 states |
| `fetcher_leak` | `MCCAbi`, `FetcherLeak.cfg` | Is every message of a fetcher freed? | violated (finding 4) |
| `kernels` | `MCKernels`, `Kernels.cfg` | Do the search, the planner and the data path compute what their reference definitions say? | holds, 128,004 states |

What the properties say is written above each of them in the modules. The ones
worth knowing first: `ArenaConsistent`, `ViewsWithinScopes`,
`HandlesNeverReused`, `RefinesRegistry` (arena); `ArenasInStep`,
`BindingsCoverViews`, `TrainTestSeparation`, `FusionReadsOneView`,
`PublishesAtomically` (provider); `FoldViewsSeparate`, `ScoredOnce` (folds);
`StoreSafe`, `ManifestOutcome` (fitted); `ReadsInBounds`, `AckedLoads` (files);
`OnlyFailedExportsStrand`, `LastErrorIsOwn`, `FetcherDestroyedOnce` (cabi);
`SearchIsExact`, `PortsAreFed`, `FusionKeepsSamples`, `GatherExact`,
`ArrowDecodes` (kernels).

**Bounds.** `MaxHandle` bounds the `u64` counter by a guard on the two actions
that take a handle. Four handles let a data handle have two views, be released
and be followed by another handle, or two data handles each have a view; the
cascade, reuse and aliasing cases all need no more. The provider run uses three
(one data handle and two views, or a view between two data handles) with two
threads: the interference is between one multi-step call and one other call. It
also passes with four handles (899,088 states), which is only slower. The
liveness run uses two handles, as the length of the history plays no part in
giving a lock back. The campaign is chosen so that each guard has an input on
both sides: a combo row whose components another view drops or another source
scope cuts off, an augmented row whose origin is a training sample, an excluded
row, rows without a source, an envelope without relations, cohorts that overlap
training through a sample and through an origin only. The fold run takes every
first fold over three samples with every second fold that scores one sample, two
ways to train it, both partition modes, with and without fold-set groups and
with target-missing samples.

The fitted run has two stores, of which one takes two registrations: a manifest
of two entries can race another, or a direct registration, and stop at either
entry; the second store is there to be attached in place of the first. Two
adapter ids, one with two sets of parameters, are what a wrong answer needs; the
second id is registered by the manifest only, as a direct registration of it
differs from the first id's in nothing but the name. The files run has foreign
payloads of every length from 12 to `MaxEnd` = 50 with counts that are zero,
small and the largest `usize` (127, more than twice any payload, so that both a
count too large for the payload and a product that overflows occur), and every
URI of up to three segments over a name, `..` and a drive. Its stores go from
the empty one and one of a single cell to two buffers, with and without masks;
names and ids have one byte, the shortest there is, which is where the size
tests of the reader are tightest. The C ABI run lets two threads call every
function with at most one pointer null, besides the error output, which is the
only optional one; functions test their pointers in order and stop at the first
null. The host holds at most one object of a kind and `MaxObjects` = 2 objects
at a time: no function takes or gives more than one array with its schema,
arrays have two children (one to move out and one to stay), and a fetcher is
asked once (`MaxRequests`), which is enough for its exits before, in and after
the callbacks. One constructor with a fetcher is under way at a time
(`MaxFetchers` = 1): the other thread, and the host in the callbacks, call
everything else meanwhile; the proofs have no such bound. `HostString` leaves
the empty message to `fetcher_leak`. In the kernels run, planning requests are
the builtin catalogue and small registries with detours, ties, penalties,
cycles, hop limits and costs near `U64Max`; the jobs of the data path are tables
and matrices with integers beyond `ExactInteger` = 4, missing, duplicate and
unknown rows, views with several observations of a sample, ragged rows, targets
of every kind, and tensors of up to three axes with zero dimensions, with zero
and overlapping strides, and with sizes and strides past `UsizeMax` = 11 and
past the host's memory. A behaviour plans one request or takes one job, as the
operators keep no state between them. The Arrow consumer of `ArrowExport`
follows the Arrow format, not code of the repository.

**Deadlock.** It is checked for `Provider`, the fitted store, the files and the
C ABI. It is not for the arena and the fold campaign: there, once the bounded
counter is used up and everything is released, no call is left to make. Nor is
it for the kernels run, whose behaviours end with a plan, a result or an error.

**Fairness.** Only `FairSpec` of `Provider` assumes any: weak fairness of the
steps a thread takes by itself once inside a call (`Continue`), because a
running thread keeps running and these steps wait for nothing but, in a fusion,
the lock. Nothing is assumed about starting calls, about panics, or about who
gets the mutex next: `std::sync::Mutex` makes no promise of fairness, so no
property says that a waiting thread is ever served.

## 4. Findings

1. `make_view` accepts a view that keeps a combo row and filters out its
   component rows. The Arrow `view_identity` and the projections of buffers and
   tensors validate the relations again and refuse it, although `docs/ABI.md`
   says `view_identity` returns the filtered relation table. The target exports,
   the core's own `view_identity` and `feature_values` do not look.
   `TableViewsExportable` shows the limit of this: relations made from a sample
   table have no combo rows, and every view over them can be exported.
2. The origin boundary compares an augmented row with its direct origin in the
   same fold only. Two augmentations of X can be on the two sides of a fold
   that has X on neither, in the default partition mode too, against point 4 of
   ADR-05.
3. `write_to_path` overwrites the manifest with `fs::write`, which truncates and
   then writes. A crash or a failed write leaves a part of a manifest, and the
   old one is gone, although the comment says that a manifest is never persisted
   in a state that would not load. `AckedLoads` is what does hold: once the call
   has returned `Ok`, the file has the whole document and nothing else, given that
   `fs::write` truncates. It says nothing of the document that was there before. A
   torn buffer file is told by its checksum, a torn manifest by its syntax.
4. `consume_string_message` does not free a message of length zero, which
   `owned_string` allocates for the empty text, although the header and the
   function's documentation say that any message of a fetcher is freed. The
   comment at the call is more careful (`lib.rs` 2414: "safely no-ops on a
   null/empty string"), so that the source disagrees with itself.

Not findings, because no document says otherwise, but worth knowing:

- `find_path` prunes by score and hops and not by raw cost. Near `u64::MAX`, a
  prefix that is preferred by score but has a higher raw cost can prune the only
  path whose raw cost does not overflow. `SearchIsExact` therefore claims
  exactness only for searches without an overflow.
- The JSON number of a cell depends on the route: `1` stays `1` in the arena's
  `feature_values`, is `1.0` in a block of a buffer, and an integer beyond 2^53 is
  rounded there. `BuffersAgree` says that the routes differ by this conversion and
  by nothing else.
- The column selection of `handle.rs` accepts a column twice, that of `buffer.rs`
  refuses it.
- `target_values` refuses missing and mixed values, `multi_target_values` masks
  missing ones. `TargetRoutesAgree` states what they have in common.
- An Arrow export that fails at a later column leaves the children that are
  already boxed: they are all that is ever lost (`OnlyFailedExportsStrand`).
- A manifest that fails half-way stays registered up to the failing entry
  (`ManifestOutcome`); the caller is told only of the error.

## 5. Proofs

All theorems hold for every value of the constants: every set of envelopes,
requests, views, tables, fold sets, manifests, stores, foreign files, threads and
store addresses, and every bound on a counter or a word. TLC evaluates every
assumption on the instances of section 3.

| Assumption | Says | Why the code justifies it |
|---|---|---|
| `MaxHandleAssumption`, `NoneAssumption` (`HandleArena`) | the bound is a natural number; `None` is neither a number nor a set of rows | `None` stands for an absent `Option` |
| `TablesAssumption`, `FoldSetsAssumption` (`FoldCampaign`) | rows, fold sets and their samples are not `None`; the envelope of a table that fits the schema is among the envelopes | the last only says that the campaign uses the whole arena |
| `ThreadsAssumption` (`Provider`) | no thread is called `"free"` or `"poisoned"` | they are the other states of the mutex |
| `ConstantsAssumption` (`FittedAdapters`) | `None` is neither a store nor a thread; the entries of a manifest are a sequence; a request has its three fields | types of the Rust structs |
| `ChildAssumption` (`CAbi`) | children of an array are numbered from 1 | part 0 is the array itself |
| `SizesAssumption` (`BufferFile`) | counts, text sizes and the largest `usize` are naturals; no text is empty | unsigned integers; ids and names are validated when a buffer is made |
| `DocumentAssumption`, `AbsentAssumption` (`StoreFiles`) | documents have the fields of their structs; every buffer of a store has features and observations, and what a store serializes to is at most the largest `usize` long; an absent file is no file | `validate_feature_shape` in the constructors; the writer builds the payload in one `Vec` before it writes it |
| `TensorsAssumption` (`DataPath`) | a borrowed tensor has a shape of naturals, an integer stride for each axis if it has strides, natural lengths, and lists of observations, of rows and, if it has any, of presence bytes | types of the C struct; strides and shape are read with the same rank |
| `FeaturesAssumption` (`DataPath`) | views, sources, names, observations, rows and column selections are lists, with as many rows as observations; a JSON null has no value, and a JSON number is finite, as f64 too; alignment modes are the three of the enum | types of the Rust structs; `serde_json` has no other numbers |
| `CollationAssumption` (`DataPath`) | rows to collate are lists of cells; a length asked for is a natural | types of the Rust structs |
| `TargetsAssumption` (`DataPath`) | views, tables and the values of a table are lists | types of the Rust structs |
| `RelationsAssumption` (`DataPath`) | the names in a relation are strings, lists of bytes, and some of them are options; `augmented` is a Boolean | types of the Rust structs |
| `ByteBitsAssumption` (`ArrowExport`) | a byte of a bitmap has at least one bit | it has eight |

One theorem has a hypothesis of its own: `NothingElseStrands` assumes that
`HostString` has no empty message, because with one it is false (finding 4).

- **`HandleArenaProofs`.** `ArenaInvariant`: `ArenaTypeOK /\ ArenaConsistent` is
  inductive. `ViewsWithinParents` alone is not: that a view stays inside its
  parent after another handle is released needs that its parent is live
  (`ParentsLive`) and that a fresh handle is in none of the four maps, which
  comes from the counter being above every live handle. Each operation is first
  reduced to its effect on the maps (`Materialized`, `ViewMade`, `ViewReleased`,
  `DataReleased`, collected by `StepEffect`), and every later proof works from
  those effects. `NeverReused` and `Immutable` are action properties over the
  same invariant. `ScopesHold` needs `ScopeInv`: that a data handle's rows are
  from its requested sources, from where a view inherits it.
  `ArenaRefinesRegistry`: each arena step is an
  `Open`, `Derive` or `Close` of the registry under the mapping `RegistryView`,
  or a stutter. It needs the invariant and `RowsKnown` (rows come from the
  envelopes).
- **`ProviderProofs`.** `ProviderRunsArena`: a step of the provider is a step of
  the arena or leaves it alone, so that everything proved of the arena holds of
  the provider. `ProviderInv` adds:
  - `ControlInv`: a thread is between two steps of a call exactly when it holds
    the mutex; so at most one thread is.
  - `StepsInv`: `Apart` says for each such place by what the three arenas
    differ there (after the arena's step of a `materialize`, the new handle is
    in the first only; half-way through a `release` it is in one binding arena,
    or both, only). `ArenasInStep` is the case in which nobody holds the mutex,
    and is not inductive without the others.
  - `RowsInv` and `BoundInv`: what a data handle reads is valid and allowed by
    its request; what is bound covers the rows it was bound over.
    `BindingsServeViews` then needs that a view shows rows of its parent only,
    which is `ViewsWithinParents`. `TrainAndTestStaySeparate`
    follows from where the rows of the two handles come from: a fitting request
    never reads the cohort, an external-test request reads only that, and
    validation compares the identities of the two, origins included, whole.
  - `FusionInv`: all blocks gathered so far are what the handle shows now, if it
    is live, and equal if it is not. It needs that a released handle value never
    lives again.

  `ProviderPublishesAtomically` is a refinement under another mapping than the
  arena's: handles that a thread is still binding, or was binding when it
  panicked, are hidden (`Unpublished`). The step that releases the mutex, not the
  arena's step, is the registry's `Open`. `PanicInv`, that a panicked thread
  leaves the mutex poisoned, shows that what it hid stays hidden.
- **`FoldCampaignProofs`.** Every campaign step is an arena step
  (`CampaignDrivesArena`), so the arena's invariant carries over. `FoldInv` adds:
  the fold set in use was accepted, handles hold rows of the table, every view is
  one side of a fold. `GroupsApart` is the heart of `FoldSeparation`: a group may
  be known to the fold set, to the table, or to one for each sample, and the
  three checks of the audit together exclude every combination. `OneFoldScores`
  and `TableExports` follow from the same invariant.
- **`FittedAdaptersProofs`.** `AdaptersInv` is the conjunction of `Typed`,
  `SlotInv`, `CounterInv`, `RecordsInv`, `CallInv` and `RetInv`.
  `StoreNeverFreedInUse` follows from `SlotInv`: the pointer a materialization
  uses is the one in the slot, its thread holds the slot's mutex, and what is in
  the slot is live, since a host detaches first and detaching waits for that
  mutex. `HandlesNeverReissued` follows from `CounterInv`: each counter is above
  every handle in the history of its store. `RecordsInv` says that records are in
  that history under their own id, from where an answer is of its request.
  `CallInv` says of a manifest half-way that its first `n` entries are in the
  history with the `n` handles gathered; the history only grows (`Grows`), so
  that it stays so while other threads register in between.
- **`CAbiProofs`.** `CAbiInv` says of every object which parts it can have
  (`Shaped`: an Arrow array keeps a subset of its children and loses what it
  lost once), that errors are per thread, that no output is left stale, and of
  every constructor in a callback what has become of its fetcher (`FrameInv`:
  while it fetches, the slot is full and nothing was destroyed; after that, the
  destroy callback has run as often as is due, `Due`). The functions are data
  (`AbiFunctions`): `FunctionsCareful` shows of every one of them that what it
  clears covers what it could leave, that what it tests covers what it uses, and
  that its null tests and all its stages record their errors. `ExitsSound` shows
  of every early return of the constructor that it records its error and leaves
  the fetcher destroyed; `LastErrorPerThread` and `FetcherDestroyedOnEveryExit`
  rest on these two. `NothingFreedTwice` rests on a lemma for every way to free
  an object: only its live parts are freed.
- **`StoreFilesProofs`.** `FilesInv` is `ReaderInv /\ DiskInv /\ LoadedInv`.
  `ReaderInv` bounds the cursor and the reservations at each place of the
  reader, over any payload: each count is compared with what is left before
  anything is reserved or skipped, and an overflowing product is refused.
  `DiskInv` says that a path holds nothing, a prefix of one document's chunks or
  a foreign file, and after an acknowledged write all of its document.
  `WrittenStoresReadBack` holds of the stores a program can have, whose buffers
  have features and observations, and needs `ReadBackInv`: when the reader is in
  the middle of a written file, what is left of the current buffer (`Rest`) ends
  exactly where the writer's buffer does (`Ends`), the next field is the
  writer's next (`FieldsUpTo`), and the buffers read so far are the store's
  first. That the writer's running sums and concatenations exist, grow and end
  where they should is shown by induction over the buffers of the store, and
  `Depth` in `PortableManifestsStayInside` by induction over the segments of a
  URI. The library's induction theorem takes an operator, which the provers
  cannot instantiate; `SetInduction` states induction for a set instead and is
  proved from the well-foundedness of `<`.

- **`TensorProofs`.** Two theorems over any shape, strides, element size and
  length, `TensorReadsStayInside` and, which includes it, `GatherProved`.
  - `TensorReadsStayInside`. The code checks one sum, the spans of all axes, and
    then reads at offsets it adds up unchecked. When the check passes, `MaxOffset`
    is that sum and no product on the way was refused (`MaxOffsetSums`); a
    coordinate of an axis is below its dimension (`CoordinateWithin`), so the
    offset that the last `k` axes add, plus the spans of the others, is at most
    the sum (`DecomposedWithin`), and every partial offset is inside what was
    checked and cannot overflow (`OffsetsWithin`). `TensorInv` adds that a
    gathered tensor has one row per observation, so that the rows a projection
    takes are parts of its data (`RowWithin`).
  - `GatherProved`. The code counts elements in row-major order and takes each
    number apart into coordinates, last axis first. That gives back the index the
    number stands for, digit by digit (`OffsetOfPosition`), so the offset is the
    address of the element; without strides the address is the row-major position
    itself (`CanonicalAddress`). `GatherExact` speaks of the projected tensor as
    well and is not inductive: `ExactInv` adds that a gathered tensor is exact in
    all its rows. A projected row is the same block of bytes in another row, and
    an element has the same place within it (`PositionInRow`, `ProjectedExact`).

  Recursive functions are reached by `RecursionExists`: a function whose next
  value is given by the last exists. What a loop computes is then stated as a
  relation between neighbouring values (`Positions`, `Offsets`, `Products`,
  `Decomposition`).

- **`DataPathProofs`.** The properties of what a host's data become, each over
  any job. Two of them are about operators alone, three need an invariant.
  - `TargetRoutesProved`: both routes look a sample up in the same table. The
    samples of a block are the view's, each once (`FirstOfElements`); a value that
    a route accepts is the table's first for its sample (`AcceptedValue`), so
    that both return it (`RoutesAgree`), and what the multi-target route does not
    mask is in the table (`MultiKnown`).
  - `BuffersProved`: the buffer of each of the three routes is written out as
    one term, `HostBuffer` (`TableBuffer`, `MatrixBuffer`, `ColumnsBuffer`); it
    survives the way through columns and back (`RoundTrip`); and the projection
    of a buffer and the table's own selection of a view read the same cells, up
    to their conversion to f64 (`BlockAgrees`, `FlatAgrees`). The row-major
    matrix needs that a joined list of equal rows is a grid (`FlattenTable`).
  - `CollationProved`: a row of the tensor is where its policy shifts it
    (`RowsPlaced`, `NamesPlaced`), from where `CollationExact` has every cell and
    both masks. `FeatureInv` carries that the results of the calls before are
    lists of equal length, since the input of a collation may be a fused block.
  - `FusionProved`: `FusionKeepsSamples` speaks of the host's data and the fused
    block only and is not inductive. `FusionInv` says that buffers hold the
    host's cells (`Taken`), that blocks are the projections of these buffers to
    the view (`SourceBlocks`), and that the plan is the alignment of these blocks
    (`AlignedSet`). Then a row of the fused block is made of one row of each block
    or of nulls (`FusionExact`), the part of a source is where the layout says,
    because a window of a joined list at the sum of the lengths before it is the
    list that was joined there (`FlattenWindow`, `LayoutHolds`), and the samples
    are those of the mode (`AlignmentExact`, `SamplesAligned`).
  - `ArrowProved`: a consumer reads what was exported. For a bitmap the
    proof needs what its bytes are after some rows (`BitsUpTo`), and that adding
    the power of two of a place sets this bit and leaves the others
    (`BitAdded`; the powers are related by doubling, `DoubledAgree`,
    `EvenMultiple`). So `BitmapHolds` says that the bit of each row is its flag.
    The bytes of the strings stay where they were written (`StaysWritten`), and
    each string lies between its offsets (`StringFound`). From these, each of the
    four exports is read back column by column (`FeaturesExported`,
    `TargetExported`, `TargetsExported`, `RelationsExported`). `ArrowInv` carries
    what they need: names of fused rows, synthetic ones among them, and selected
    samples are strings, and a value that the masks hide is null.

With these, every invariant and action property of the arena, provider, fold,
fitted, files and C ABI runs is a theorem, and so are both refinements; of the
kernels run, every property of `DataPath`.

Only model-checked:

- `LockGivenBack`: liveness and `ENABLED` are beyond the prover.
- The properties of `Planner`. `PathSearch` and `Planner` state the search and its
  reference definition with recursive operators (`Searched`, `Extensions`,
  `Origins`), which the prover does not take.
- The four findings, which are counterexamples.

## 6. What is left

1. `Planner`: `PlannerAcceptsItsPlans`, from an invariant on the steps planned so
   far. It needs only the shape of the path that the search returns, not that it
   is the best, but the search would have to move to a module of its own behind
   a constant.
2. `SearchIsExact` compares a search with the enumeration of all paths. It needs
   an induction over the search frontier and is the furthest away.

### Not modelled

- **JSON front of the provider.** Each function parses a request, makes one call
  that `Provider` has, and formats the result.
- **Aggregation policies.** A record of options with one validation function; no
  code in the repository applies a policy.
- **Identifiers, errors, fingerprints, content hashes.** Hashing is abstracted to
  its content; the rest is text.
- **Arrow IPC.** Decoding is that of the `arrow` crate; what comes out enters
  `DataPath` as a column matrix.
- **Command line and facade crate; Python, WebAssembly and R bindings.** Each
  function wraps one call of a component above and converts types.
- Of modelled components: units, dtypes and signal kinds of a schema, adapter
  parameters and versions, casts between element types, byte estimates, and the
  wording of errors.
