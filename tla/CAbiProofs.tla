----------------------------- MODULE CAbiProofs -----------------------------
(***************************************************************************)
(* Theorems of the C ABI, for every set of threads, every number of        *)
(* children of an Arrow export and every bound on what a host holds.       *)
(***************************************************************************)
EXTENDS CAbi, Functions, TLAPS

-----------------------------------------------------------------------------
(***************************************************************************)
(* The table of functions.                                                 *)
(***************************************************************************)

Given(fn) == Range(fn.gives)

Tested(fn) == UNION Range(fn.checks)

\* Stages whose error reaches the last-error buffer.
Recording == [recorder : {r \in [buffer : BOOLEAN, message : BOOLEAN] : r.buffer = TRUE},
              pair : {"none", "targets", "features"}, arrow : BOOLEAN]

\* An owned output is cleared on entry; a pointer that is used, to read from
\* or to write to, was tested for null; and no error is dropped.
Careful(fn) ==
  /\ Given(fn) \cap Owned \subseteq fn.clears
  /\ fn.reads \cup (Given(fn) \ {"string"}) \subseteq Tested(fn)
  /\ fn.refuses.buffer = TRUE
  /\ fn.stages \in Seq(Recording)

\* The four ways in which the source records an error.
LEMMA Recorders ==
  \A r \in {set_error_message, set_display_error, record_arg_error, record_data_error} :
    r.buffer = TRUE /\ r \in [buffer : BOOLEAN, message : BOOLEAN]
<1>1. set_error_message.buffer = TRUE /\ set_error_message \in [buffer : BOOLEAN, message : BOOLEAN]
  BY DEF set_error_message
<1>2. set_display_error.buffer = TRUE /\ set_display_error \in [buffer : BOOLEAN, message : BOOLEAN]
  BY DEF set_display_error
<1>3. record_arg_error.buffer = TRUE /\ record_arg_error \in [buffer : BOOLEAN, message : BOOLEAN]
  BY DEF record_arg_error
<1>4. record_data_error.buffer = TRUE /\ record_data_error \in [buffer : BOOLEAN, message : BOOLEAN]
  BY DEF record_data_error
<1> QED BY <1>1, <1>2, <1>3, <1>4

\* No stage of any function drops its error.
LEMMA StagesRecord ==
  /\ Data \in Recording /\ Utf8 \in Recording /\ Arrow \in Recording
  /\ CallbackData \in Recording /\ CallbackUtf8 \in Recording
  /\ CallbackArrow(Arrow) \in Recording
  /\ parse_target_tables \in Recording /\ parse_feature_tables \in Recording
  /\ parse_f64_feature_matrices \in Recording
  /\ parse_f64_feature_matrix_views \in Recording
  /\ parse_f64_feature_matrix_columnar_views \in Recording
  /\ parse_borrowed_tensor_views \in Recording
<1>1. ASSUME NEW r \in [buffer : BOOLEAN, message : BOOLEAN], r.buffer = TRUE
      PROVE  /\ Stage(r) \in Recording /\ ArrowStage(r) \in Recording
             /\ Pair("targets", r) \in Recording /\ Pair("features", r) \in Recording
  BY <1>1 DEF Recording, Stage, Pair, ArrowStage
<1>2. \A r \in {set_error_message, set_display_error, record_arg_error, record_data_error} :
        /\ Stage(r) \in Recording /\ ArrowStage(r) \in Recording
        /\ Pair("targets", r) \in Recording /\ Pair("features", r) \in Recording
  BY <1>1, Recorders
<1>3. CallbackArrow(Arrow) = ArrowStage(record_data_error)
  BY DEF CallbackArrow, Arrow, ArrowStage
<1> QED BY <1>2, <1>3
        DEF Data, Utf8, Arrow, CallbackData, CallbackUtf8, parse_target_tables,
            parse_feature_tables, parse_f64_feature_matrices,
            parse_f64_feature_matrix_views, parse_f64_feature_matrix_columnar_views,
            parse_borrowed_tensor_views

\* A function is careful if its entry in the table says so.
LEMMA CarefulFn ==
  ASSUME NEW clears, NEW refuses, NEW checks, NEW reads, NEW stages, NEW gives,
         Range(gives) \cap Owned \subseteq clears,
         reads \cup (Range(gives) \ {"string"}) \subseteq UNION Range(checks),
         refuses.buffer = TRUE, stages \in Seq(Recording)
  PROVE  Careful(Fn(clears, refuses, checks, reads, stages, gives))
<1> DEFINE fn == Fn(clears, refuses, checks, reads, stages, gives)
<1>1. /\ fn.clears = clears /\ fn.refuses = refuses /\ fn.checks = checks
      /\ fn.reads = reads /\ fn.stages = stages /\ fn.gives = gives
  BY DEF Fn
<1> HIDE DEF fn
<1>2. Careful(fn) BY <1>1, Zenon DEF Careful, Given, Tested
<1> QED BY <1>2 DEF fn

\* The elements of short lists.
LEMMA Listed ==
  /\ Range(<< >>) = {}
  /\ \A a : Range(<<a>>) = {a}
  /\ \A a, b : Range(<<a, b>>) = {a, b}
  /\ \A a, b, c : Range(<<a, b, c>>) = {a, b, c}
BY DEF Range

\* Functions that turn a JSON payload into a string.
LEMMA FormatterCareful == Careful(Formatter)
<1>1. <<Data, Data>> \in Seq(Recording) BY StagesRecord
<1> QED BY <1>1, Recorders, Listed, CarefulFn DEF Owned, Formatter

\* Functions that validate one payload, or one against another.
LEMMA ValidatorCareful ==
  Careful(Validator(<<"json">>)) /\ Careful(Validator(<<"json", "relations">>))
<1>1. ASSUME NEW json \in Seq({"json", "relations"})
      PROVE  Careful(Validator(json))
  <2> DEFINE each == [i \in DOMAIN json |-> Data]
             checks == [i \in DOMAIN json |-> {json[i]}]
  <2>1. each \in Seq(Recording) /\ <<Data>> \in Seq(Recording) BY StagesRecord
  <2>2. each \o <<Data>> \in Seq(Recording) BY <2>1
  <2>3. Validator(json) = Fn({"error"}, set_error_message, checks,
                             {json[i] : i \in DOMAIN json}, each \o <<Data>>, << >>)
    BY DEF Validator
  <2>4. {json[i] : i \in DOMAIN json} \subseteq UNION Range(checks)
    BY DEF Range
  <2> DEFINE uses == {json[i] : i \in DOMAIN json}
             stages == each \o <<Data>>
  <2> HIDE DEF each, checks, uses, stages
  <2>5. Careful(Fn({"error"}, set_error_message, checks, uses, stages, << >>))
    BY <2>2, <2>4, Recorders, Listed, CarefulFn DEF uses, stages
  <2> QED BY <2>3, <2>5 DEF uses, stages
<1>2. <<"json">> \in Seq({"json", "relations"})
  OBVIOUS
<1>3. <<"json", "relations">> \in Seq({"json", "relations"})
  OBVIOUS
<1> QED BY <1>1, <1>2, <1>3

\* Functions that export Arrow structs or a tensor.
LEMMA ExporterCareful ==
  ASSUME NEW b \in Recording
  PROVE  Careful(Exporter(b, {"array", "schema"})) /\ Careful(Exporter(b, {"tensor"}))
<1>0. <<Data, Data, b>> \in Seq(Recording) BY StagesRecord
<1>1. Careful(Exporter(b, {"array", "schema"}))
  <2> DEFINE outs == {"array", "schema"}
             checks == <<{"json"}, outs>>
             gives == <<"array", "schema">>
  <2>1. Exporter(b, outs) = Fn({o : o \in outs} \cup {"error"}, set_error_message, checks,
                               {"json"}, <<Data, Data, b>>, gives)
    BY DEF Exporter
  <2>2. Range(gives) = outs /\ UNION Range(checks) = {"json"} \cup outs
    BY Listed
  <2> HIDE DEF outs, checks, gives
  <2>3. Careful(Fn({o : o \in outs} \cup {"error"}, set_error_message, checks, {"json"},
                   <<Data, Data, b>>, gives))
    BY <1>0, <2>2, Recorders, CarefulFn
  <2> QED BY <2>1, <2>3 DEF outs
<1>2. Careful(Exporter(b, {"tensor"}))
  <2> DEFINE outs == {"tensor"}
             checks == <<{"json"}, outs>>
             gives == <<"tensor">>
  <2>1. outs # {"array", "schema"} /\ (CHOOSE o \in outs : TRUE) = "tensor" OBVIOUS
  <2>2. Exporter(b, outs) = Fn({o : o \in outs} \cup {"error"}, set_error_message, checks,
                               {"json"}, <<Data, Data, b>>, gives)
    BY <2>1 DEF Exporter
  <2>3. Range(gives) = outs /\ UNION Range(checks) = {"json"} \cup outs
    BY Listed
  <2> HIDE DEF outs, checks, gives
  <2>4. Careful(Fn({o : o \in outs} \cup {"error"}, set_error_message, checks, {"json"},
                   <<Data, Data, b>>, gives))
    BY <1>0, <2>3, Recorders, CarefulFn
  <2> QED BY <2>2, <2>4 DEF outs
<1> QED BY <1>1, <1>2

\* Provider constructors, with and without a path.
LEMMA ConstructorCareful ==
  ASSUME NEW stages \in Seq(Recording)
  PROVE  /\ Careful(Constructor(<<"envelope", "vtable">>, stages))
         /\ Careful(Constructor(<<"envelope", "vtable", "path">>, stages))
<1> DEFINE all == <<Data, parse_target_tables>> \o stages \o <<Data>>
<1>1. all \in Seq(Recording)
  <2>1. <<Data, parse_target_tables>> \in Seq(Recording) /\ <<Data>> \in Seq(Recording)
    BY StagesRecord
  <2>2. <<Data, parse_target_tables>> \o stages \in Seq(Recording) BY <2>1
  <2> QED BY <2>1, <2>2
<1> HIDE DEF all
<1>2. ASSUME NEW required, 2 \in DOMAIN required, required[2] = "vtable"
      PROVE  Careful(Constructor(required, stages))
  <2> DEFINE tests == [i \in DOMAIN required |-> {required[i]}]
             uses == {required[i] : i \in DOMAIN required} \ {"vtable"}
             gives == <<"vtable">>
  <2>1. Constructor(required, stages) =
          Fn({"vtable", "error"}, set_error_message, tests, uses, all, gives)
    BY DEF Constructor, all
  <2>2. Range(gives) = {"vtable"} BY Listed
  <2>3. {required[i] : i \in DOMAIN required} \subseteq UNION Range(tests)
    BY DEF Range
  <2>4. "vtable" \in {required[i] : i \in DOMAIN required} BY <1>2
  <2>5. uses \cup {"vtable"} \subseteq UNION Range(tests) BY <2>3, <2>4
  <2> HIDE DEF tests, uses, gives
  <2>6. Careful(Fn({"vtable", "error"}, set_error_message, tests, uses, all, gives))
    BY <1>1, <2>2, <2>5, Recorders, CarefulFn
  <2> QED BY <2>1, <2>6
<1>3. /\ 2 \in DOMAIN <<"envelope", "vtable">> /\ <<"envelope", "vtable">>[2] = "vtable"
      /\ 2 \in DOMAIN <<"envelope", "vtable", "path">>
      /\ <<"envelope", "vtable", "path">>[2] = "vtable"
  OBVIOUS
<1> QED BY <1>2, <1>3

\* Functions of a provider and the callbacks of its vtable.
LEMMA ProviderCareful ==
  ASSUME NEW stages \in Seq(Recording)
  PROVE  /\ Careful(Report) /\ Careful(VTableHandle)
         /\ Careful(Select("string", {}, stages))
         /\ Careful(Select("tensor", {"tensor"}, stages))
         /\ Careful(Select("ndtensor", {"ndtensor"}, stages))
         /\ Careful(VTableArrow({}, stages))
         /\ Careful(VTableArrow({"selector"}, stages))
<1>1. <<Data>> \in Seq(Recording) /\ <<CallbackData, CallbackData>> \in Seq(Recording)
  BY StagesRecord
<1>2. Careful(Report) /\ Careful(VTableHandle)
  BY <1>1, Recorders DEF Careful, Given, Tested, Range, Owned, Fn, Report, VTableHandle
<1>3. /\ Careful(Select("string", {}, stages))
      /\ Careful(Select("tensor", {"tensor"}, stages))
      /\ Careful(Select("ndtensor", {"ndtensor"}, stages))
  BY Recorders DEF Careful, Given, Tested, Range, Owned, Fn, Select
<1>4. Careful(VTableArrow({}, stages)) /\ Careful(VTableArrow({"selector"}, stages))
  BY Recorders DEF Careful, Given, Tested, Range, Owned, Fn, VTableArrow
<1> QED BY <1>2, <1>3, <1>4

\* Functions of the fitted-adapter store.
LEMMA StoreCareful ==
  /\ Careful(dagmldata_inmemory_fitted_adapter_store_new)
  /\ Careful(dagmldata_inmemory_fitted_adapter_store_register_json)
  /\ Careful(dagmldata_inmemory_fitted_adapter_store_materialize_json)
  /\ Careful(dagmldata_inmemory_fitted_adapter_store_release)
  /\ Careful(dagmldata_inmemory_provider_attach_fitted_adapter_store)
  /\ Careful(dagmldata_inmemory_provider_materialize_fitted_adapter_json)
<1>1. /\ << >> \in Seq(Recording) /\ <<Data, Data>> \in Seq(Recording)
      /\ <<CallbackUtf8>> \in Seq(Recording) /\ <<mutex_poisoned>> \in Seq(Recording)
      /\ <<mutex_poisoned, no_store_attached, Data, Data>> \in Seq(Recording)
  BY StagesRecord DEF mutex_poisoned, no_store_attached, Utf8
<1>2. /\ Careful(StoreJson)
      /\ Careful(dagmldata_inmemory_fitted_adapter_store_new)
      /\ Careful(dagmldata_inmemory_fitted_adapter_store_release)
  BY <1>1, Recorders
     DEF Careful, Given, Tested, Range, Owned, Fn, StoreJson,
         dagmldata_inmemory_fitted_adapter_store_new,
         dagmldata_inmemory_fitted_adapter_store_release
<1>3. /\ Careful(dagmldata_inmemory_provider_attach_fitted_adapter_store)
      /\ Careful(dagmldata_inmemory_provider_materialize_fitted_adapter_json)
  BY <1>1, Recorders
     DEF Careful, Given, Tested, Range, Owned, Fn,
         dagmldata_inmemory_provider_attach_fitted_adapter_store,
         dagmldata_inmemory_provider_materialize_fitted_adapter_json
<1> QED BY <1>2, <1>3
        DEF dagmldata_inmemory_fitted_adapter_store_register_json,
            dagmldata_inmemory_fitted_adapter_store_materialize_json

\* Every exported function is careful with its pointers and its errors.
LEMMA FunctionsCareful ==
  ASSUME NEW fn \in Functions
  PROVE  Careful(fn)
<1>1. /\ Careful(dagmldata_schema_fingerprint_json)
      /\ Careful(dagmldata_fold_set_fingerprint_json)
      /\ Careful(dagmldata_coordinator_feature_collation_json)
  BY FormatterCareful
     DEF dagmldata_schema_fingerprint_json, dagmldata_fold_set_fingerprint_json,
         dagmldata_coordinator_feature_collation_json
<1>2. /\ Careful(dagmldata_fold_set_validate_json)
      /\ Careful(dagmldata_aggregation_policy_validate_json)
      /\ Careful(dagmldata_fold_set_validate_against_relations_json)
      /\ Careful(dagmldata_fitted_adapter_ref_validate_json)
      /\ Careful(dagmldata_fitted_adapter_manifest_validate_json)
  BY ValidatorCareful
     DEF dagmldata_fold_set_validate_json, dagmldata_aggregation_policy_validate_json,
         dagmldata_fold_set_validate_against_relations_json,
         dagmldata_fitted_adapter_ref_validate_json,
         dagmldata_fitted_adapter_manifest_validate_json
<1>3. /\ Careful(dagmldata_coordinator_identity_arrow_json)
      /\ Careful(dagmldata_coordinator_target_arrow_json)
      /\ Careful(dagmldata_coordinator_multi_target_arrow_json)
      /\ Careful(dagmldata_coordinator_feature_arrow_json)
      /\ Careful(dagmldata_coordinator_feature_fusion_arrow_json)
      /\ Careful(dagmldata_coordinator_feature_collation_tensor_f64_json)
      /\ Careful(dagmldata_coordinator_feature_collation_tensor_f32_json)
  BY ExporterCareful, StagesRecord
     DEF build_identity_relations_arrow, build_target_arrow, build_multi_target_arrow,
         build_feature_arrow, f32_cast,
         dagmldata_coordinator_identity_arrow_json, dagmldata_coordinator_target_arrow_json,
         dagmldata_coordinator_multi_target_arrow_json,
         dagmldata_coordinator_feature_arrow_json,
         dagmldata_coordinator_feature_fusion_arrow_json,
         dagmldata_coordinator_feature_collation_tensor_f64_json,
         dagmldata_coordinator_feature_collation_tensor_f32_json
<1>4. /\ Careful(dagmldata_inmemory_provider_new_json)
      /\ Careful(dagmldata_inmemory_provider_new_with_features_json)
      /\ Careful(dagmldata_inmemory_provider_new_with_f64_features_json)
      /\ Careful(dagmldata_inmemory_provider_new_with_tensor_views)
      /\ Careful(dagmldata_inmemory_provider_new_with_f64_feature_views)
      /\ Careful(dagmldata_inmemory_provider_new_with_f64_feature_columns)
      /\ Careful(dagmldata_inmemory_provider_new_from_file)
      /\ Careful(dagmldata_inmemory_provider_new_from_arrow_ipc)
  <2>1. /\ << >> \in Seq(Recording) /\ <<Utf8, Data>> \in Seq(Recording)
        /\ <<parse_feature_tables>> \in Seq(Recording)
        /\ <<parse_f64_feature_matrices>> \in Seq(Recording)
        /\ <<parse_borrowed_tensor_views>> \in Seq(Recording)
        /\ <<parse_f64_feature_matrix_views>> \in Seq(Recording)
        /\ <<parse_f64_feature_matrix_columnar_views>> \in Seq(Recording)
    BY StagesRecord
  <2> QED BY <2>1, ConstructorCareful
          DEF dagmldata_inmemory_provider_new_json,
              dagmldata_inmemory_provider_new_with_features_json,
              dagmldata_inmemory_provider_new_with_f64_features_json,
              dagmldata_inmemory_provider_new_with_tensor_views,
              dagmldata_inmemory_provider_new_with_f64_feature_views,
              dagmldata_inmemory_provider_new_with_f64_feature_columns,
              dagmldata_inmemory_provider_new_from_file,
              dagmldata_inmemory_provider_new_from_arrow_ipc
<1>5. /\ Careful(dagmldata_inmemory_provider_feature_buffer_manifest_json)
      /\ Careful(dagmldata_inmemory_provider_data_feature_buffer_manifest_json)
      /\ Careful(dagmldata_inmemory_provider_nd_tensor_manifest_json)
      /\ Careful(dagmldata_inmemory_provider_data_nd_tensor_manifest_json)
      /\ Careful(provider_materialize) /\ Careful(provider_make_view)
  <2>1. << >> \in Seq(Recording) OBVIOUS
  <2> QED BY <2>1, ProviderCareful
          DEF dagmldata_inmemory_provider_feature_buffer_manifest_json,
              dagmldata_inmemory_provider_data_feature_buffer_manifest_json,
              dagmldata_inmemory_provider_nd_tensor_manifest_json,
              dagmldata_inmemory_provider_data_nd_tensor_manifest_json,
              provider_materialize, provider_make_view
<1>6. /\ Careful(dagmldata_inmemory_provider_nd_tensor_export_json)
      /\ Careful(dagmldata_inmemory_provider_feature_collation_json)
      /\ Careful(dagmldata_inmemory_provider_feature_collation_tensor_f64_json)
      /\ Careful(dagmldata_inmemory_provider_feature_collation_tensor_f32_json)
  <2>1. <<Data, Data>> \in Seq(Recording) /\ <<Data, Data, Data>> \in Seq(Recording)
    BY StagesRecord
  <2> QED BY <2>1, ProviderCareful
          DEF dagmldata_inmemory_provider_nd_tensor_export_json,
              dagmldata_inmemory_provider_feature_collation_json,
              dagmldata_inmemory_provider_feature_collation_tensor_f64_json,
              dagmldata_inmemory_provider_feature_collation_tensor_f32_json, f32_cast
<1>7. /\ Careful(provider_view_identity) /\ Careful(provider_target_arrow)
      /\ Careful(provider_feature_arrow)
  <2>1. /\ <<CallbackArrow(Arrow)>> \in Seq(Recording)
        /\ <<CallbackUtf8, CallbackData, CallbackArrow(Arrow)>> \in Seq(Recording)
        /\ <<CallbackUtf8, CallbackUtf8, CallbackArrow(Arrow)>> \in Seq(Recording)
    BY StagesRecord
  <2> QED BY <2>1, ProviderCareful
          DEF provider_view_identity, provider_target_arrow, provider_feature_arrow,
              build_identity_relations_arrow, build_target_arrow, build_feature_arrow
<1> QED BY <1>1, <1>2, <1>3, <1>4, <1>5, <1>6, <1>7, StoreCareful DEF Functions

-----------------------------------------------------------------------------
(***************************************************************************)
(* The shape of what a host holds.                                         *)
(***************************************************************************)

\* An Arrow struct before its release callback ran, less the private data of
\* children that were moved out; or the box that is left after it.
ArrowShape(parts) ==
  \/ parts = {Part(0, "box")}
  \/ /\ LeafParts(0) \cup {Part(c, "box") : c \in Child} \subseteq parts
     /\ parts \subseteq StructParts

HostShape(kind, parts) ==
  \/ kind \in {"string", "error"} /\ parts = {Part(0, "text")}
  \/ kind = "vtable" /\ parts = {Part(0, "state")}
  \/ kind = "tensor" /\ parts \subseteq {Part(0, f) : f \in TensorFields}
  \/ kind = "ndtensor" /\ parts \subseteq {Part(0, f) : f \in NdTensorFields}
  \/ kind \in {"array", "schema"} /\ ArrowShape(parts)

Shaped(o) ==
  /\ o = [kind |-> o.kind, parts |-> o.parts, owner |-> o.owner]
  /\ o.owner = "host" => HostShape(o.kind, o.parts)

\* New objects have the shape of their kind.
LEMMA NewShaped ==
  ASSUME NEW kind \in Owned, NEW parts \in NewParts(kind)
  PROVE  HostShape(kind, parts)
<1>1. CASE kind \in {"string", "error"} BY <1>1 DEF NewParts, HostShape
<1>2. CASE kind = "vtable" BY <1>2 DEF NewParts, HostShape
<1>3. CASE kind = "tensor"
  <2>1. parts \subseteq {Part(0, f) : f \in TensorFields}
    BY <1>3 DEF NewParts, TensorParts, TensorFields
  <2> QED BY <1>3, <2>1 DEF HostShape
<1>4. CASE kind = "ndtensor"
  <2>1. parts \subseteq {Part(0, f) : f \in NdTensorFields} BY <1>4 DEF NewParts
  <2> QED BY <1>4, <2>1 DEF HostShape
<1>5. CASE kind \in {"array", "schema"}
  <2>1. parts = StructParts BY <1>5 DEF NewParts
  <2>2. ArrowShape(StructParts) BY DEF ArrowShape, StructParts, LeafParts
  <2> QED BY <1>5, <2>1, <2>2 DEF HostShape
<1> QED BY <1>1, <1>2, <1>3, <1>4, <1>5 DEF Owned

\* What a call hands out is shaped, and all that was there stays.
LEMMA HandShaped ==
  ASSUME NEW kinds \in SUBSET Owned, NEW dropped, Hand(kinds, dropped),
         \A o \in objects \cup dropped : Shaped(o)
  PROVE  /\ \A o \in objects' : Shaped(o)
         /\ \A o \in objects' : o \in objects \cup dropped \/ o.owner = "host"
<1>1. PICK parts \in [kinds -> UNION {NewParts(k) : k \in kinds}] :
        /\ \A k \in kinds : parts[k] \in NewParts(k)
        /\ objects' = objects \cup {Allocated(k, parts[k], "host") : k \in kinds}
                        \cup dropped
  BY DEF Hand
<1>2. \A k \in kinds : HostShape(k, parts[k]) BY <1>1, NewShaped
<1>3. \A k \in kinds : Shaped(Allocated(k, parts[k], "host"))
  BY <1>2 DEF Shaped, Allocated
<1>4. \A k \in kinds : Allocated(k, parts[k], "host").owner = "host"
  BY DEF Allocated
<1> QED BY <1>1, <1>3, <1>4

\* The release callback frees parts that are there, and leaves the box.
LEMMA ReleaseShaped ==
  ASSUME NEW o, o.kind \in {"array", "schema"}, ArrowShape(o.parts)
  PROVE  /\ release_struct(o) \subseteq o.parts
         /\ o.parts \ release_struct(o) = {Part(0, "box")}
<1>0. Part(0, "box") # Part(0, "private") BY DEF Part
<1>1. CASE Part(0, "private") \notin o.parts
  BY <1>1 DEF release_struct, ArrowShape, LeafParts
<1>2. CASE Part(0, "private") \in o.parts
  <2>1. /\ LeafParts(0) \cup {Part(c, "box") : c \in Child} \subseteq o.parts
        /\ o.parts \subseteq StructParts
    BY <1>0, <1>2 DEF ArrowShape
  <2>2. release_struct(o) = {Part(0, "private")} \cup {Part(c, "box") : c \in Child}
                              \cup {p \in o.parts : p.what = "private"}
    BY <1>2 DEF release_struct
  <2>3. release_struct(o) \subseteq o.parts BY <1>2, <2>1, <2>2
  <2>4. Part(0, "box") \in o.parts BY <2>1 DEF LeafParts
  <2>5. Part(0, "box") \notin release_struct(o)
    BY <2>2, ChildAssumption DEF Part
  <2>6. \A p \in o.parts : p = Part(0, "box") \/ p \in release_struct(o)
    <3> TAKE p \in o.parts
    <3>1. p \in LeafParts(0) \/ \E c \in Child : p \in LeafParts(c)
      BY <2>1 DEF StructParts
    <3>2. \A c : Part(c, "private").what = "private" BY DEF Part
    <3> QED BY <2>2, <3>1, <3>2 DEF LeafParts
  <2> QED BY <2>3, <2>4, <2>5, <2>6
<1> QED BY <1>1, <1>2

\* A free function frees what is there, and all of it.
LEMMA FreeShaped ==
  ASSUME NEW o, Shaped(o), o.owner = "host"
  PROVE  FreedParts(o) = o.parts
<1>0. HostShape(o.kind, o.parts) BY DEF Shaped
<1>1. CASE o.kind \in {"string", "error"} BY <1>0, <1>1 DEF FreedParts, HostShape
<1>2. CASE o.kind = "vtable" BY <1>0, <1>2 DEF FreedParts, HostShape
<1>3. CASE o.kind = "tensor"
  <2>1. o.parts \subseteq {Part(0, f) : f \in TensorFields} BY <1>0, <1>3 DEF HostShape
  <2>2. \A p \in o.parts : p.what \in TensorFields BY <2>1 DEF Part
  <2> QED BY <1>3, <2>2 DEF FreedParts, dagmldata_tensor_free
<1>4. CASE o.kind = "ndtensor"
  <2>1. o.parts \subseteq {Part(0, f) : f \in NdTensorFields} BY <1>0, <1>4 DEF HostShape
  <2>2. \A p \in o.parts : p.what \in NdTensorFields BY <2>1 DEF Part
  <2> QED BY <1>4, <2>2 DEF FreedParts, dagmldata_nd_tensor_free
<1>5. CASE o.kind \in {"array", "schema"}
  <2>1. ArrowShape(o.parts) BY <1>0, <1>5 DEF HostShape
  <2>2. /\ release_struct(o) \subseteq o.parts
        /\ o.parts \ release_struct(o) = {Part(0, "box")}
    BY <1>5, <2>1, ReleaseShaped
  <2> QED BY <1>5, <2>2 DEF FreedParts, dagmldata_arrow_free
<1> QED BY <1>0, <1>1, <1>2, <1>3, <1>4, <1>5 DEF HostShape

-----------------------------------------------------------------------------
(***************************************************************************)
(* The inductive invariant, and what each action keeps of it.              *)
(***************************************************************************)

ErrorsInv ==
  /\ last_error = [t \in Thread |-> last_error[t]]
  /\ lastFail \in [Thread -> 0..2]
  /\ LastErrorIsOwn

Frames == [pc : {"out", "fetch", "build", "leave"}, left : Int, given : BOOLEAN,
           slot : BOOLEAN, destroys : Nat]

\* The destroy callback has run, if there is one.
Due(f) == f.destroys = IF f.given THEN 1 ELSE 0

\* The slot holds the callback as long as buffers are fetched, and the callback
\* has run once when the constructor builds or gives up.
FrameInv(f) ==
  /\ f \in Frames
  /\ f.pc = "fetch" => f.slot = TRUE /\ f.destroys = 0
  /\ f.pc \in {"build", "leave"} => Due(f)

FramesInv ==
  /\ frame = [t \in Thread |-> frame[t]]
  /\ \A t \in Thread : FrameInv(frame[t])

CAbiInv ==
  /\ \A o \in objects : Shaped(o)
  /\ ErrorsInv
  /\ FramesInv
  /\ NoOutputOnFailure
  /\ Due(ret)
  /\ fault = FALSE

\* A failing call sets the error of its own thread only, and sets it.
LEMMA FailOwn ==
  ASSUME ErrorsInv, NEW t \in Thread, NEW recorder, recorder.buffer = TRUE,
         Fail(t, recorder)
  PROVE  ErrorsInv'
<1>1. PICK call \in {1, 2} : /\ lastFail' = [lastFail EXCEPT ![t] = call]
                             /\ last_error' = [last_error EXCEPT ![t] = [by |-> {t}, call |-> call]]
  BY DEF Fail, Stored
<1>2. lastFail' \in [Thread -> 0..2] BY <1>1 DEF ErrorsInv
<1>3. last_error' = [u \in Thread |-> last_error'[u]] BY <1>1 DEF ErrorsInv
<1>4. ASSUME NEW u \in Thread
      PROVE  last_error'[u] = IF lastFail'[u] = 0 THEN None
                              ELSE [by |-> {u}, call |-> lastFail'[u]]
  <2>1. CASE u = t BY <1>1, <2>1 DEF ErrorsInv
  <2>2. CASE u # t
    <3>1. last_error'[u] = last_error[u] /\ lastFail'[u] = lastFail[u]
      BY <1>1, <2>2 DEF ErrorsInv
    <3> QED BY <3>1 DEF ErrorsInv, LastErrorIsOwn
  <2> QED BY <2>1, <2>2
<1> QED BY <1>2, <1>3, <1>4 DEF ErrorsInv, LastErrorIsOwn

\* What is written to neither keeps its part of the invariant.
LEMMA Untouched ==
  /\ ErrorsInv /\ UNCHANGED <<last_error, lastFail>> => ErrorsInv'
  /\ FramesInv /\ UNCHANGED frame => FramesInv'
  /\ NoOutputOnFailure /\ Due(ret) /\ UNCHANGED ret => NoOutputOnFailure' /\ Due(ret')
BY DEF ErrorsInv, LastErrorIsOwn, FramesInv, NoOutputOnFailure

\* Clearing on entry leaves nothing stale; testing leaves nothing null in use.
LEMMA CarefulCalls ==
  ASSUME NEW fn \in Functions, NEW nulls
  PROVE  /\ Stale(fn, nulls) = {}
         /\ ~ ArgumentError(fn, nulls) => /\ ~ UsesNull(fn, nulls)
                                          /\ fn.reads \cap nulls = {}
<1>1. Careful(fn) BY FunctionsCareful
<1>2. Stale(fn, nulls) = {} BY <1>1 DEF Careful, Given, Range, Stale, Cleared, Outputs
<1>3. ASSUME ~ ArgumentError(fn, nulls)
      PROVE  Tested(fn) \cap nulls = {}
  BY <1>3 DEF ArgumentError, Checks, Tested, Range
<1>4. fn.reads \cup (Given(fn) \ {"string"}) \subseteq Tested(fn) BY <1>1 DEF Careful
<1> QED BY <1>2, <1>3, <1>4 DEF UsesNull, Given, Range

\* Every error of a call goes through a recorder that keeps it.
LEMMA CallsRecord ==
  ASSUME NEW fn \in Functions
  PROVE  /\ fn.refuses.buffer = TRUE
         /\ \A k \in DOMAIN fn.stages : fn.stages[k].recorder.buffer = TRUE
<1>1. fn.refuses.buffer = TRUE /\ fn.stages \in Seq(Recording)
  BY FunctionsCareful DEF Careful
<1>2. \A k \in DOMAIN fn.stages : fn.stages[k] \in Recording BY <1>1
<1> QED BY <1>1, <1>2 DEF Recording

\* The outputs of a call, and what became of its fetcher.
LEMMA OutcomeKept ==
  ASSUME NEW f, Due(f), Returned({}, f)
  PROVE  NoOutputOnFailure' /\ Due(ret')
BY DEF Returned, NoOutputOnFailure, Due

\* A call without callbacks has no fetcher to destroy.
LEMMA NoFrameDue == FrameInv(NoFrame) /\ Due(NoFrame)
BY DEF FrameInv, Due, NoFrame, Frames

\* Objects dropped on the way are not a host's.
LEMMA DroppedShaped ==
  /\ \A kind, parts : Shaped(Allocated(kind, parts, "dropped"))
  /\ \A text : \A o \in consume_string_message(text) : Shaped(o)
BY DEF Shaped, Allocated, consume_string_message

\* A message is an owned output.
LEMMA MessageOwned ==
  \A recorder, nulls : Message(recorder, nulls) \in SUBSET Owned
BY DEF Message, Owned

\* A call of an exported function, whatever pointers are null.
LEMMA CallKeeps ==
  ASSUME CAbiInv, NEW t \in Thread, NEW fn \in Functions, NEW nulls,
         \/ CallArgumentError(t, fn, nulls)
         \/ CallFails(t, fn, nulls)
         \/ CallSucceeds(t, fn, nulls)
  PROVE  CAbiInv'
<1>0. FramesInv' BY Untouched DEF CAbiInv, CallArgumentError, CallFails, CallSucceeds
<1>1. Stale(fn, nulls) = {} BY CarefulCalls
<1>2. CASE CallArgumentError(t, fn, nulls)
  <2>1. ErrorsInv' BY <1>2, CallsRecord, FailOwn DEF CallArgumentError, CAbiInv
  <2>2. \A o \in objects' : Shaped(o)
    BY <1>2, MessageOwned, HandShaped DEF CallArgumentError, CAbiInv
  <2>3. NoOutputOnFailure' /\ Due(ret')
    BY <1>1, <1>2, NoFrameDue, OutcomeKept DEF CallArgumentError
  <2> QED BY <1>0, <1>2, <2>1, <2>2, <2>3 DEF CallArgumentError, CAbiInv
<1>3. CASE CallFails(t, fn, nulls)
  <2>1. PICK k \in Reachable(fn, nulls) :
          /\ Fail(t, fn.stages[k].recorder)
          /\ \E built \in IF fn.stages[k].arrow
                          THEN {{}, {Allocated("children", LeafParts(1), "dropped")}}
                          ELSE {{}} :
               Hand(Message(fn.stages[k].recorder, nulls), built)
          /\ Returned(Stale(fn, nulls), NoFrame)
    BY <1>3 DEF CallFails
  <2>2. PICK built \in {{}, {Allocated("children", LeafParts(1), "dropped")}} :
          Hand(Message(fn.stages[k].recorder, nulls), built)
    BY <2>1
  <2>3. ErrorsInv'
    <3>1. fn.stages[k].recorder.buffer = TRUE BY CallsRecord DEF Reachable
    <3> QED BY <2>1, <3>1, FailOwn DEF CAbiInv
  <2>4. \A o \in objects' : Shaped(o)
    BY <2>2, MessageOwned, HandShaped, DroppedShaped DEF CAbiInv
  <2>5. NoOutputOnFailure' /\ Due(ret')
    BY <1>1, <2>1, NoFrameDue, OutcomeKept
  <2>6. fault' = FALSE BY <1>3, CarefulCalls DEF CallFails, CAbiInv
  <2> QED BY <1>0, <2>3, <2>4, <2>5, <2>6 DEF CAbiInv
<1>4. CASE CallSucceeds(t, fn, nulls)
  <2>1. Outputs(fn) \ nulls \in SUBSET Owned BY DEF Outputs
  <2>2. \A o \in objects' : Shaped(o)
    BY <1>4, <2>1, HandShaped DEF CallSucceeds, CAbiInv
  <2>3. NoOutputOnFailure' /\ Due(ret')
    BY <1>4, NoFrameDue, OutcomeKept DEF CallSucceeds
  <2>4. fault' = FALSE BY <1>4, CarefulCalls DEF CallSucceeds, CAbiInv
  <2>5. ErrorsInv' BY <1>4, Untouched DEF CallSucceeds, CAbiInv
  <2> QED BY <1>0, <2>2, <2>3, <2>4, <2>5 DEF CAbiInv
<1> QED BY <1>2, <1>3, <1>4

-----------------------------------------------------------------------------
(***************************************************************************)
(* The fetcher's constructor.                                              *)
(***************************************************************************)

\* destroy_fetcher runs the callback of a slot that still holds it.
LEMMA DestroyedOnce ==
  ASSUME NEW f \in Frames, f.slot = TRUE, f.destroys = 0
  PROVE  /\ destroy_fetcher(f) \in Frames /\ Due(destroy_fetcher(f))
         /\ destroy_fetcher(f).given = f.given
<1> DEFINE n == IF f.given THEN 1 ELSE 0
<1>1. n \in Nat OBVIOUS
<1>2. destroy_fetcher(f) = [f EXCEPT !.slot = FALSE, !.destroys = n]
  BY DEF destroy_fetcher, Frames
<1> HIDE DEF n
<1>3. [f EXCEPT !.slot = FALSE, !.destroys = n] \in Frames BY <1>1 DEF Frames
<1>4. destroy_fetcher(f).given = f.given /\ destroy_fetcher(f).destroys = n
  BY <1>2, Zenon DEF Frames
<1> QED BY <1>2, <1>3, <1>4 DEF Due, n

\* An exit that keeps its error and leaves the fetcher destroyed.
Sound(exit) == /\ exit.recorder.buffer = TRUE
               /\ exit.frame \in Frames /\ Due(exit.frame)

\* Each early return, before, between and after the callbacks, is sound.
LEMMA ExitsSound ==
  /\ \A f \in Frames : f.slot = TRUE /\ f.destroys = 0 =>
       /\ \A test \in DOMAIN Refusals(f) : Sound(Refusals(f)[test])
       /\ \A why \in DOMAIN Rejections(f) : Sound(Rejections(f)[why])
  /\ \A f \in Frames : Due(f) =>
       \A what \in DOMAIN BuildErrors(f) : Sound(BuildErrors(f)[what])
<1>1. ASSUME NEW recorder, recorder.buffer = TRUE, NEW g \in Frames, Due(g)
      PROVE  Sound(Exit(recorder, g))
  BY <1>1 DEF Sound, Exit
<1>2. parse_target_tables.recorder = set_error_message BY DEF parse_target_tables, Pair
<1>3. ASSUME NEW f \in Frames, f.slot = TRUE, f.destroys = 0
      PROVE  /\ Sound(Exit(set_error_message, destroy_fetcher(f)))
             /\ Sound(Exit(set_display_error, destroy_fetcher(f)))
  BY <1>1, <1>3, DestroyedOnce, Recorders
<1>4. ASSUME NEW f \in Frames, f.slot = TRUE, f.destroys = 0,
             NEW test \in DOMAIN Refusals(f)
      PROVE  Sound(Refusals(f)[test])
  <2>1. Refusals(f)[test] \in {Exit(set_error_message, destroy_fetcher(f)),
                               Exit(set_display_error, destroy_fetcher(f))}
    BY <1>2 DEF Refusals
  <2> QED BY <1>3, <1>4, <2>1
<1>5. ASSUME NEW f \in Frames, f.slot = TRUE, f.destroys = 0,
             NEW why \in DOMAIN Rejections(f)
      PROVE  Sound(Rejections(f)[why])
  <2>1. Rejections(f)[why] = Exit(set_error_message, destroy_fetcher(f))
    BY DEF Rejections
  <2> QED BY <1>3, <1>5, <2>1
<1>6. ASSUME NEW f \in Frames, Due(f), NEW what \in DOMAIN BuildErrors(f)
      PROVE  Sound(BuildErrors(f)[what])
  <2>1. BuildErrors(f)[what] = Exit(set_display_error, f)
    BY DEF BuildErrors
  <2> QED BY <1>1, <1>6, <2>1, Recorders
<1> QED BY <1>4, <1>5, <1>6

\* An error of the constructor is recorded and handed out.
LEMMA RecordsKeeps ==
  ASSUME CAbiInv, NEW t \in Thread, NEW recorder, recorder.buffer = TRUE, NEW dropped,
         \A o \in dropped : Shaped(o), Records(t, recorder, dropped)
  PROVE  ErrorsInv' /\ \A o \in objects' : Shaped(o)
<1>1. PICK nulls : Hand(Message(recorder, nulls), dropped)
  BY DEF Records
<1>2. \A o \in objects' : Shaped(o) BY <1>1, MessageOwned, HandShaped DEF CAbiInv
<1>3. ErrorsInv' BY FailOwn DEF Records, CAbiInv
<1> QED BY <1>2, <1>3

\* A frame that goes on, with the requests it had or with others.
At(f, pc) == [f EXCEPT !.pc = pc]
Going(f, pc, left) == [f EXCEPT !.pc = pc, !.left = left]

\* A frame that goes on keeps what it knows of the fetcher.
LEMMA MovedOn ==
  /\ \A f \in Frames : f.slot = TRUE /\ f.destroys = 0 => FrameInv(At(f, "fetch"))
  /\ \A f \in Frames : Due(f) => FrameInv(At(f, "build"))
  /\ \A f \in Frames : Due(f) => FrameInv(Going(f, "leave", 0))
<1>1. ASSUME NEW f \in Frames, NEW pc \in {"fetch", "build", "leave"}, NEW g \in Frames,
             g.pc = pc, g.given = f.given, g.slot = f.slot, g.destroys = f.destroys,
             pc = "fetch" => f.slot = TRUE /\ f.destroys = 0,
             pc # "fetch" => Due(f)
      PROVE  FrameInv(g)
  BY <1>1 DEF FrameInv, Due
<1>2. ASSUME NEW f \in Frames, NEW pc \in {"fetch", "build"}
      PROVE  /\ At(f, pc) \in Frames /\ At(f, pc).pc = pc /\ At(f, pc).given = f.given
             /\ At(f, pc).slot = f.slot /\ At(f, pc).destroys = f.destroys
  BY DEF At, Frames
<1>3. ASSUME NEW f \in Frames, NEW pc \in {"leave"}, NEW left \in Int
      PROVE  /\ Going(f, pc, left) \in Frames
             /\ Going(f, pc, left).pc = pc /\ Going(f, pc, left).given = f.given
             /\ Going(f, pc, left).slot = f.slot
             /\ Going(f, pc, left).destroys = f.destroys
  BY DEF Going, Frames
<1>4. ASSUME NEW f \in Frames, f.slot = TRUE, f.destroys = 0
      PROVE  FrameInv(At(f, "fetch"))
  BY <1>1, <1>2, <1>4
<1>5. ASSUME NEW f \in Frames, Due(f) PROVE FrameInv(At(f, "build"))
  BY <1>1, <1>2, <1>5
<1>6. ASSUME NEW f \in Frames, Due(f) PROVE FrameInv(Going(f, "leave", 0))
  <2>1. 0 \in Int OBVIOUS
  <2> QED BY <1>1, <1>3, <1>6, <2>1
<1> QED BY <1>4, <1>5, <1>6

\* Giving a thread another frame.
LEMMA FrameKept ==
  ASSUME FramesInv, NEW t \in Thread, NEW f, FrameInv(f),
         frame' = [frame EXCEPT ![t] = f]
  PROVE  FramesInv'
BY DEF FramesInv

\* An early return before the fetcher's work is done.
LEMMA GivesUpKeeps ==
  ASSUME CAbiInv, NEW t \in Thread, NEW exit, Sound(exit), NEW dropped,
         \A o \in dropped : Shaped(o), GivesUp(t, exit, dropped)
  PROVE  CAbiInv'
<1>1. ErrorsInv' /\ \A o \in objects' : Shaped(o)
  BY RecordsKeeps DEF GivesUp, Sound
<1>2. FrameInv([exit.frame EXCEPT !.pc = "leave", !.left = 0])
  <2>1. FrameInv(Going(exit.frame, "leave", 0)) BY MovedOn DEF Sound
  <2> QED BY <2>1 DEF Going
<1>3. FramesInv' BY <1>2, FrameKept DEF GivesUp, CAbiInv
<1> QED BY <1>1, <1>3, Untouched DEF GivesUp, CAbiInv

\* The constructor's return.
LEMMA ReturnsKeeps ==
  ASSUME FramesInv, NEW t \in Thread, NEW f, Due(f), Returns(t, f)
  PROVE  FramesInv' /\ NoOutputOnFailure' /\ Due(ret')
<1>1. Stale(dagmldata_inmemory_provider_new_with_buffer_fetcher, {}) = {}
  BY DEF Stale, Cleared, Outputs, Owned, Fn,
         dagmldata_inmemory_provider_new_with_buffer_fetcher
<1>2. FramesInv' BY NoFrameDue, FrameKept DEF Returns
<1>3. NoOutputOnFailure' /\ Due(ret') BY <1>1, OutcomeKept DEF Returns
<1> QED BY <1>2, <1>3

\* The steps of the constructor.
LEMMA FetcherKeeps ==
  ASSUME CAbiInv, NEW t \in Thread,
         \/ \E n \in 0..MaxRequests, given \in BOOLEAN : FetcherBegin(t, n, given)
         \/ \E text : Fetch(t, text) \/ FetchFails(t, text)
         \/ FetcherEnd(t)
         \/ BuildFails(t)
         \/ FetcherSucceeds(t)
         \/ FetcherReturns(t)
  PROVE  CAbiInv'
<1>0. /\ FramesInv /\ FrameInv(frame[t]) /\ frame[t] \in Frames
      /\ frame[t].pc = "fetch" => frame[t].slot = TRUE /\ frame[t].destroys = 0
      /\ frame[t].pc \in {"build", "leave"} => Due(frame[t])
  BY DEF CAbiInv, FramesInv, FrameInv
<1>1. ASSUME NEW n \in 0..MaxRequests, NEW given \in BOOLEAN, FetcherBegin(t, n, given)
      PROVE  CAbiInv'
  <2> DEFINE f == [NoFrame EXCEPT !.left = n, !.given = given, !.slot = TRUE]
  <2>0. NoFrame \in Frames /\ NoFrame.destroys = 0 BY DEF NoFrame, Frames
  <2>1. f \in Frames /\ f.slot = TRUE /\ f.destroys = 0
    <3>1. n \in Int OBVIOUS
    <3>2. ASSUME NEW g \in Frames
          PROVE  /\ [g EXCEPT !.left = n, !.given = given, !.slot = TRUE] \in Frames
                 /\ [g EXCEPT !.left = n, !.given = given, !.slot = TRUE].slot = TRUE
                 /\ [g EXCEPT !.left = n, !.given = given, !.slot = TRUE].destroys
                      = g.destroys
      BY <3>1 DEF Frames
    <3> QED BY <2>0, <3>2
  <2> HIDE DEF f
  <2>2. FrameInv([f EXCEPT !.pc = "fetch"])
    <3>1. FrameInv(At(f, "fetch")) BY <2>1, MovedOn
    <3> QED BY <3>1 DEF At
  <2>3. ASSUME NEW test \in DOMAIN Refusals(f), GivesUp(t, Refusals(f)[test], {})
        PROVE  CAbiInv'
    <3>1. Sound(Refusals(f)[test]) BY <2>1, ExitsSound
    <3> QED BY <2>3, <3>1, GivesUpKeeps
  <2>4. CASE /\ frame' = [frame EXCEPT ![t] = [f EXCEPT !.pc = "fetch"]]
             /\ UNCHANGED <<objects, last_error, lastFail, ret, fault>>
    <3>1. FramesInv' BY <1>0, <2>2, <2>4, FrameKept
    <3> QED BY <2>4, <3>1, Untouched DEF CAbiInv
  <2> QED BY <1>1, <2>3, <2>4 DEF FetcherBegin, f
<1>2. ASSUME NEW text, Fetch(t, text)
      PROVE  CAbiInv'
  <2>1. \A o \in objects' : Shaped(o) BY <1>2, DroppedShaped DEF Fetch, CAbiInv
  <2>2. FrameInv([frame[t] EXCEPT !.left = @ - 1])
    BY <1>0, <1>2 DEF Fetch, FrameInv, Frames, Due
  <2>3. frame' = [frame EXCEPT ![t] = [frame[t] EXCEPT !.left = @ - 1]]
    BY <1>2 DEF Fetch
  <2>4. FramesInv' BY <1>0, <2>2, <2>3, FrameKept
  <2> QED BY <1>2, <2>1, <2>4, Untouched DEF Fetch, CAbiInv
<1>3. ASSUME NEW text, FetchFails(t, text)
      PROVE  CAbiInv'
  <2>1. PICK why \in DOMAIN Rejections(frame[t]) :
          GivesUp(t, Rejections(frame[t])[why], consume_string_message(text))
    BY <1>3 DEF FetchFails
  <2>2. Sound(Rejections(frame[t])[why]) BY <1>0, <1>3, ExitsSound DEF FetchFails
  <2> QED BY <2>1, <2>2, DroppedShaped, GivesUpKeeps
<1>4. CASE FetcherEnd(t)
  <2>1. destroy_fetcher(frame[t]) \in Frames /\ Due(destroy_fetcher(frame[t]))
    BY <1>0, <1>4, DestroyedOnce DEF FetcherEnd
  <2>2. FrameInv([destroy_fetcher(frame[t]) EXCEPT !.pc = "build"])
    <3>1. FrameInv(At(destroy_fetcher(frame[t]), "build")) BY <2>1, MovedOn
    <3> QED BY <3>1 DEF At
  <2>3. FramesInv' BY <1>0, <1>4, <2>2, FrameKept DEF FetcherEnd
  <2> QED BY <1>4, <2>3, Untouched DEF FetcherEnd, CAbiInv
<1>5. CASE BuildFails(t)
  <2>1. PICK what \in DOMAIN BuildErrors(frame[t]) :
          /\ Records(t, BuildErrors(frame[t])[what].recorder, {})
          /\ Returns(t, BuildErrors(frame[t])[what].frame)
    BY <1>5 DEF BuildFails
  <2>2. Sound(BuildErrors(frame[t])[what]) BY <1>0, <1>5, ExitsSound DEF BuildFails
  <2> DEFINE dropped == {}
  <2>0. Records(t, BuildErrors(frame[t])[what].recorder, dropped) BY <2>1
  <2>a. \A o \in dropped : Shaped(o) OBVIOUS
  <2>3. ErrorsInv' /\ \A o \in objects' : Shaped(o)
    <3> HIDE DEF dropped
    <3> QED BY <2>0, <2>1, <2>2, <2>a, RecordsKeeps DEF Sound
  <2>4. FramesInv' /\ NoOutputOnFailure' /\ Due(ret')
    BY <1>0, <2>1, <2>2, ReturnsKeeps DEF Sound
  <2> QED BY <1>5, <2>3, <2>4 DEF BuildFails, CAbiInv
<1>6. CASE FetcherSucceeds(t)
  <2>1. {"vtable"} \in SUBSET Owned BY DEF Owned
  <2>2. \A o \in objects' : Shaped(o)
    BY <1>6, <2>1, HandShaped DEF FetcherSucceeds, CAbiInv
  <2>3. FramesInv' BY <1>0, <1>6, NoFrameDue, FrameKept DEF FetcherSucceeds
  <2>4. NoOutputOnFailure' /\ Due(ret')
    BY <1>0, <1>6, OutcomeKept DEF FetcherSucceeds
  <2> QED BY <1>6, <2>2, <2>3, <2>4, Untouched DEF FetcherSucceeds, CAbiInv
<1>7. CASE FetcherReturns(t)
  <2>1. FramesInv' /\ NoOutputOnFailure' /\ Due(ret')
    BY <1>0, <1>7, ReturnsKeeps DEF FetcherReturns
  <2> QED BY <1>7, <2>1, Untouched DEF FetcherReturns, CAbiInv
<1> QED BY <1>1, <1>2, <1>3, <1>4, <1>5, <1>6, <1>7

\* Reading the last error hands out a string.
LEMMA LastErrorJsonKeeps ==
  ASSUME CAbiInv, NEW t \in Thread, LastErrorJson(t)
  PROVE  CAbiInv'
<1>1. {"string"} \in SUBSET Owned BY DEF Owned
<1>2. \A o \in objects' : Shaped(o) BY <1>1, HandShaped DEF LastErrorJson, CAbiInv
<1>3. NoOutputOnFailure' /\ Due(ret') BY NoFrameDue, OutcomeKept DEF LastErrorJson
<1> QED BY <1>2, <1>3, Untouched DEF LastErrorJson, CAbiInv

\* An object that loses parts leaves the others, and itself with what is left.
LEMMA LeftShaped ==
  ASSUME NEW o \in objects, NEW gone, NEW owner,
         \A x \in objects : Shaped(x),
         owner = "host" => HostShape(o.kind, o.parts \ gone) \/ o.parts \ gone = {}
  PROVE  \A x \in Left(o, gone, owner) : Shaped(x)
<1> DEFINE rest == Allocated(o.kind, o.parts \ gone, owner)
<1>1. rest.parts # {} => Shaped(rest) BY DEF Shaped, Allocated
<1> QED BY <1>1 DEF Left

\* What the host does with an object it holds.
LEMMA HostKeeps ==
  ASSUME CAbiInv, NEW o \in objects,
         \/ Free(o)
         \/ \E c \in Child : MoveChild(o, c)
         \/ ArrowRelease(o)
         \/ ProviderDestroy(o)
  PROVE  CAbiInv'
<1>0. Shaped(o) BY DEF CAbiInv
<1>1. SUFFICES /\ \A x \in objects' : Shaped(x)
               /\ fault' = FALSE /\ UNCHANGED <<last_error, lastFail, frame, ret>>
  BY Untouched DEF CAbiInv
<1>2. CASE Free(o)
  <2>1. FreedParts(o) = o.parts BY <1>0, <1>2, FreeShaped DEF Free
  <2>2. \A x \in objects' : Shaped(x) BY <1>2, LeftShaped DEF Free, CAbiInv
  <2> QED BY <1>2, <2>1, <2>2 DEF Free, CAbiInv
<1>3. ASSUME NEW c \in Child, MoveChild(o, c)
      PROVE  /\ \A x \in objects' : Shaped(x)
             /\ fault' = FALSE /\ UNCHANGED <<last_error, lastFail, frame, ret>>
  <2>1. ArrowShape(o.parts) BY <1>0, <1>3 DEF MoveChild, Shaped, HostShape
  <2>2. Part(0, "private") # Part(0, "box") BY DEF Part
  <2>3. /\ LeafParts(0) \cup {Part(d, "box") : d \in Child} \subseteq o.parts
        /\ o.parts \subseteq StructParts
    BY <1>3, <2>1, <2>2 DEF MoveChild, ArrowShape
  <2>4. c # 0 BY ChildAssumption
  <2>5. Part(c, "private") \notin LeafParts(0) \cup {Part(d, "box") : d \in Child}
    BY <2>4 DEF Part, LeafParts
  <2>6. ArrowShape(o.parts \ {Part(c, "private")}) BY <2>3, <2>5 DEF ArrowShape
  <2>7. HostShape(o.kind, o.parts \ {Part(c, "private")})
    BY <1>3, <2>6 DEF MoveChild, HostShape
  <2>8. \A x \in objects' : Shaped(x) BY <1>3, <2>7, LeftShaped DEF MoveChild, CAbiInv
  <2> QED BY <1>3, <2>8 DEF MoveChild, CAbiInv
<1>4. CASE ArrowRelease(o)
  <2>1. ArrowShape(o.parts) BY <1>0, <1>4 DEF ArrowRelease, Shaped, HostShape
  <2>2. /\ release_struct(o) \subseteq o.parts
        /\ o.parts \ release_struct(o) = {Part(0, "box")}
    BY <1>4, <2>1, ReleaseShaped DEF ArrowRelease
  <2>3. HostShape(o.kind, o.parts \ release_struct(o))
    BY <1>4, <2>2 DEF ArrowRelease, HostShape, ArrowShape
  <2>4. \A x \in objects' : Shaped(x) BY <1>4, <2>3, LeftShaped DEF ArrowRelease, CAbiInv
  <2> QED BY <1>4, <2>2, <2>4 DEF ArrowRelease, CAbiInv
<1>5. CASE ProviderDestroy(o)
  <2>1. o.parts \ FreedParts(o) = {} BY <1>0, <1>5, FreeShaped DEF ProviderDestroy
  <2>2. \A x \in objects' : Shaped(x)
    BY <1>5, <2>1, LeftShaped DEF ProviderDestroy, CAbiInv
  <2> QED BY <1>5, <2>2 DEF ProviderDestroy, CAbiInv
<1> QED BY <1>2, <1>3, <1>4, <1>5

-----------------------------------------------------------------------------
(***************************************************************************)
(* The theorems.                                                           *)
(***************************************************************************)

\* No step breaks the invariant.
LEMMA StepCAbi ==
  CAbiInv /\ [Next]_vars => CAbiInv'
<1> SUFFICES ASSUME CAbiInv, [Next]_vars PROVE CAbiInv' OBVIOUS
<1>1. CASE \E t \in Thread, fn \in Functions : \E nulls :
             \/ CallArgumentError(t, fn, nulls)
             \/ CallFails(t, fn, nulls)
             \/ CallSucceeds(t, fn, nulls)
  BY <1>1, CallKeeps
<1>2. CASE \E t \in Thread : LastErrorJson(t)
  BY <1>2, LastErrorJsonKeeps
<1>3. CASE \E t \in Thread :
             \/ \E n \in 0..MaxRequests, given \in BOOLEAN : FetcherBegin(t, n, given)
             \/ \E text : Fetch(t, text) \/ FetchFails(t, text)
             \/ FetcherEnd(t)
             \/ BuildFails(t)
             \/ FetcherSucceeds(t)
             \/ FetcherReturns(t)
  BY <1>3, FetcherKeeps
<1>4. CASE \E o \in objects :
             \/ Free(o)
             \/ \E c \in Child : MoveChild(o, c)
             \/ ArrowRelease(o)
             \/ ProviderDestroy(o)
  BY <1>4, HostKeeps
<1>5. CASE UNCHANGED vars
  BY <1>5, Untouched DEF vars, CAbiInv
<1> QED BY <1>1, <1>2, <1>3, <1>4, <1>5 DEF Next

\* The inductive invariant of the C ABI.
THEOREM CAbiInvariant == Spec => []CAbiInv
<1>1. Init => CAbiInv
  BY NoFrameDue DEF Init, CAbiInv, ErrorsInv, LastErrorIsOwn, FramesInv,
                    NoOutputOnFailure, Due
<1> QED BY <1>1, StepCAbi, PTL DEF Spec

\* Every exported function clears its owned outputs before it can fail.
THEOREM OutputsClearedOnFailure == Spec => []NoOutputOnFailure
<1>1. CAbiInv => NoOutputOnFailure BY DEF CAbiInv
<1> QED BY <1>1, CAbiInvariant, PTL

\* Nothing is freed twice, whatever Arrow consumers moved out or released
\* before, and no pointer is used that was not tested for null.
THEOREM NothingFreedTwice == Spec => []NoFault
<1>1. CAbiInv => NoFault BY DEF CAbiInv, NoFault
<1> QED BY <1>1, CAbiInvariant, PTL

\* Whichever check or stage of whichever function fails, in whichever order
\* threads call and callbacks call again, the last error of a thread is that of
\* the call that failed last on it: no failing path drops its error.
THEOREM LastErrorPerThread == Spec => []LastErrorIsOwn
<1>1. CAbiInv => LastErrorIsOwn BY DEF CAbiInv, ErrorsInv
<1> QED BY <1>1, CAbiInvariant, PTL

\* Each of the early returns of the fetcher's constructor and its normal end
\* leave the host's destroy callback run once, and no fetch comes after it.
THEOREM FetcherDestroyedOnEveryExit == Spec => []FetcherDestroyedOnce
<1>1. CAbiInv => FetcherDestroyedOnce
  BY DEF CAbiInv, FramesInv, FrameInv, Due, FetcherDestroyedOnce
<1> QED BY <1>1, CAbiInvariant, PTL

\* As long as no fetcher leaves a message of length zero (FetchMessagesFreed is
\* the property that such a one breaks), all that outlives its owner are
\* children of Arrow exports that failed in the middle.
THEOREM NothingElseStrands ==
  ASSUME "empty" \notin HostString
  PROVE  Spec => []OnlyFailedExportsStrand
<1>1. Init => OnlyFailedExportsStrand BY DEF Init, OnlyFailedExportsStrand
<1>2. CAbiInv /\ OnlyFailedExportsStrand /\ [Next]_vars => OnlyFailedExportsStrand'
  <2> SUFFICES ASSUME CAbiInv, OnlyFailedExportsStrand, [Next]_vars
               PROVE  \A o \in objects' : o.owner = "dropped" => o.kind = "children"
    BY DEF OnlyFailedExportsStrand
  <2>0. \A o \in objects : o.owner = "dropped" => o.kind = "children"
    BY DEF OnlyFailedExportsStrand
  <2>1. ASSUME NEW kinds \in SUBSET Owned,
               NEW dropped \in {{}, {Allocated("children", LeafParts(1), "dropped")}},
               Hand(kinds, dropped)
        PROVE  \A o \in objects' : o.owner = "dropped" => o.kind = "children"
    <3>1. \A o \in dropped : Shaped(o) /\ o.kind = "children"
      BY DroppedShaped DEF Allocated
    <3> QED BY <2>0, <2>1, <3>1, HandShaped DEF CAbiInv
  <2>2. ASSUME NEW t, NEW recorder, Records(t, recorder, {})
        PROVE  \A o \in objects' : o.owner = "dropped" => o.kind = "children"
    <3>1. PICK nulls : Hand(Message(recorder, nulls), {})
      BY <2>2 DEF Records
    <3> QED BY <2>1, <3>1, MessageOwned
  <2>3. CASE \E t \in Thread, fn \in Functions : \E nulls :
               \/ CallArgumentError(t, fn, nulls)
               \/ CallFails(t, fn, nulls)
               \/ CallSucceeds(t, fn, nulls)
    <3> PICK t \in Thread, fn \in Functions :
               \E nulls : \/ CallArgumentError(t, fn, nulls)
                         \/ CallFails(t, fn, nulls)
                         \/ CallSucceeds(t, fn, nulls)
      BY <2>3
    <3> PICK nulls : \/ CallArgumentError(t, fn, nulls)
                     \/ CallFails(t, fn, nulls)
                     \/ CallSucceeds(t, fn, nulls)
      OBVIOUS
    <3>1. Outputs(fn) \ nulls \in SUBSET Owned
      BY DEF Outputs
    <3>2. \E kinds \in SUBSET Owned,
             dropped \in {{}, {Allocated("children", LeafParts(1), "dropped")}} :
               Hand(kinds, dropped)
      BY <3>1, MessageOwned DEF CallArgumentError, CallFails, CallSucceeds
    <3> QED BY <2>1, <3>2
  <2>4. CASE \E t \in Thread :
               \/ LastErrorJson(t)
               \/ \E n \in 0..MaxRequests, given \in BOOLEAN : FetcherBegin(t, n, given)
               \/ FetcherEnd(t) \/ BuildFails(t) \/ FetcherSucceeds(t) \/ FetcherReturns(t)
    <3>1. {"string"} \in SUBSET Owned /\ {"vtable"} \in SUBSET Owned BY DEF Owned
    <3>2. CASE \E t : LastErrorJson(t) \/ FetcherSucceeds(t)
      BY <2>1, <3>1, <3>2 DEF LastErrorJson, FetcherSucceeds
    <3>3. CASE \E t, n, given : FetcherBegin(t, n, given)
      BY <2>0, <2>2, <3>3 DEF FetcherBegin, GivesUp
    <3>4. CASE \E t : FetcherEnd(t) \/ FetcherReturns(t)
      BY <2>0, <3>4 DEF FetcherEnd, FetcherReturns
    <3>5. CASE \E t : BuildFails(t)
      BY <2>2, <3>5 DEF BuildFails
    <3> QED BY <2>4, <3>2, <3>3, <3>4, <3>5
  <2>5. CASE \E t \in Thread, text \in HostString : Fetch(t, text) \/ FetchFails(t, text)
    <3> PICK t \in Thread, text \in HostString : Fetch(t, text) \/ FetchFails(t, text)
      BY <2>5
    <3>1. consume_string_message(text) = {} BY DEF consume_string_message
    <3> QED BY <2>0, <2>2, <3>1 DEF Fetch, FetchFails, GivesUp
  <2>6. CASE \E o \in objects : Free(o)
    <3> PICK o \in objects : Free(o) BY <2>6
    <3>1. Shaped(o) /\ o.owner = "host" BY DEF CAbiInv, Free
    <3>2. FreedParts(o) = o.parts BY <3>1, FreeShaped
    <3>3. Allocated(o.kind, o.parts \ FreedParts(o), "dropped").parts = {}
      BY <3>2 DEF Allocated
    <3>4. objects' \subseteq objects BY <3>3 DEF Free, Left
    <3> QED BY <2>0, <3>4
  <2>7. CASE \E o \in objects : \/ \E c \in Child : MoveChild(o, c)
                                \/ ArrowRelease(o)
                                \/ ProviderDestroy(o)
    <3>1. \A kind, parts : Allocated(kind, parts, "host").owner = "host" BY DEF Allocated
    <3> QED BY <2>0, <2>7, <3>1 DEF MoveChild, ArrowRelease, ProviderDestroy, Left
  <2>8. CASE UNCHANGED vars BY <2>0, <2>8 DEF vars
  <2> QED BY <2>3, <2>4, <2>5, <2>6, <2>7, <2>8 DEF Next
<1> QED BY <1>1, <1>2, CAbiInvariant, PTL DEF Spec
=============================================================================
