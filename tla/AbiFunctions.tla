---------------------------- MODULE AbiFunctions ----------------------------
(***************************************************************************)
(* The exported functions of the C ABI (capi lib.rs), one definition each. *)
(* A function is described by what its callers depend on:                  *)
(*                                                                         *)
(*   clears   owned outputs set to null on entry                           *)
(*   refuses  the recorder of its null tests                               *)
(*   checks   the null tests, in order                                     *)
(*   reads    pointers it dereferences once the tests have passed          *)
(*   stages   the fallible stages that follow, in order                    *)
(*   gives    what it writes on success: an owned output, or a plain       *)
(*            "handle"; a plain output that may be null is tested where it *)
(*            is written, and left out                                     *)
(*                                                                         *)
(* A stage has the recorder its error goes through and, if it looks at an  *)
(* optional (pointer, length) pair, the pair, which fails it when the      *)
(* pointer is null and the length is not zero.  An Arrow stage builds the  *)
(* children of the array and of the schema one after the other.            *)
(***************************************************************************)
EXTENDS Sequences, FiniteSets

\* What a recorder of errors writes: the thread's last-error buffer, and a
\* message into error_out.
set_error_message == [buffer |-> TRUE, message |-> TRUE]
set_display_error == [buffer |-> TRUE, message |-> TRUE]
record_arg_error == [buffer |-> TRUE, message |-> FALSE]
record_data_error == [buffer |-> TRUE, message |-> FALSE]

\* The error is dropped and only the status returned.
discarded == [buffer |-> FALSE, message |-> FALSE]

Stage(recorder) == [recorder |-> recorder, pair |-> "none", arrow |-> FALSE]
Data == Stage(set_display_error)
Utf8 == Stage(set_error_message)
Pair(p, recorder) == [recorder |-> recorder, pair |-> p, arrow |-> FALSE]
ArrowStage(recorder) == [recorder |-> recorder, pair |-> "none", arrow |-> TRUE]

Fn(clears, refuses, checks, reads, stages, gives) ==
  [clears |-> clears, refuses |-> refuses, checks |-> checks, reads |-> reads,
   stages |-> stages, gives |-> gives]

-----------------------------------------------------------------------------
(* Functions of JSON payloads.                                             *)

Validator(json) == Fn({"error"}, set_error_message, [i \in DOMAIN json |-> {json[i]}],
                      {json[i] : i \in DOMAIN json},
                      [i \in DOMAIN json |-> Data] \o <<Data>>, << >>)

Formatter == Fn({"string", "error"}, set_error_message, <<{"json"}>>, {"json"},
                <<Data, Data>>, <<"string">>)

Exporter(builder, outs) ==
  Fn({o : o \in outs} \cup {"error"}, set_error_message, <<{"json"}, outs>>, {"json"},
     <<Data, Data, builder>>,
     IF outs = {"array", "schema"} THEN <<"array", "schema">> ELSE <<CHOOSE o \in outs : TRUE>>)

Arrow == ArrowStage(set_display_error)
build_identity_relations_arrow == Arrow
build_target_arrow == Arrow
build_multi_target_arrow == Arrow
build_feature_arrow == Arrow
f32_cast == Data

dagmldata_schema_fingerprint_json == Formatter
dagmldata_fold_set_validate_json == Validator(<<"json">>)
dagmldata_aggregation_policy_validate_json == Validator(<<"json">>)
dagmldata_fold_set_fingerprint_json == Formatter
dagmldata_fold_set_validate_against_relations_json == Validator(<<"json", "relations">>)
dagmldata_fitted_adapter_ref_validate_json == Validator(<<"json">>)
dagmldata_fitted_adapter_manifest_validate_json == Validator(<<"json">>)
dagmldata_coordinator_identity_arrow_json ==
  Exporter(build_identity_relations_arrow, {"array", "schema"})
dagmldata_coordinator_target_arrow_json == Exporter(build_target_arrow, {"array", "schema"})
dagmldata_coordinator_multi_target_arrow_json ==
  Exporter(build_multi_target_arrow, {"array", "schema"})
dagmldata_coordinator_feature_arrow_json == Exporter(build_feature_arrow, {"array", "schema"})
dagmldata_coordinator_feature_fusion_arrow_json ==
  Exporter(build_feature_arrow, {"array", "schema"})
dagmldata_coordinator_feature_collation_json == Formatter
dagmldata_coordinator_feature_collation_tensor_f64_json == Exporter(Data, {"tensor"})
dagmldata_coordinator_feature_collation_tensor_f32_json == Exporter(f32_cast, {"tensor"})

-----------------------------------------------------------------------------
(* Provider constructors.                                                  *)

parse_target_tables == Pair("targets", set_error_message)
parse_feature_tables == Pair("features", set_error_message)
parse_f64_feature_matrices == Pair("features", set_error_message)
parse_f64_feature_matrix_views == Pair("features", set_display_error)
parse_f64_feature_matrix_columnar_views == Pair("features", set_display_error)
parse_borrowed_tensor_views == Pair("features", set_display_error)

Constructor(required, stages) ==
  Fn({"vtable", "error"}, set_error_message, [i \in DOMAIN required |-> {required[i]}],
     {required[i] : i \in DOMAIN required} \ {"vtable"},
     <<Data, parse_target_tables>> \o stages \o <<Data>>, <<"vtable">>)

dagmldata_inmemory_provider_new_json == Constructor(<<"envelope", "vtable">>, << >>)
dagmldata_inmemory_provider_new_with_features_json ==
  Constructor(<<"envelope", "vtable">>, <<parse_feature_tables>>)
dagmldata_inmemory_provider_new_with_f64_features_json ==
  Constructor(<<"envelope", "vtable">>, <<parse_f64_feature_matrices>>)
dagmldata_inmemory_provider_new_with_tensor_views ==
  Constructor(<<"envelope", "vtable">>, <<parse_borrowed_tensor_views>>)
dagmldata_inmemory_provider_new_with_f64_feature_views ==
  Constructor(<<"envelope", "vtable">>, <<parse_f64_feature_matrix_views>>)
dagmldata_inmemory_provider_new_with_f64_feature_columns ==
  Constructor(<<"envelope", "vtable">>, <<parse_f64_feature_matrix_columnar_views>>)
dagmldata_inmemory_provider_new_from_file == Constructor(<<"envelope", "vtable", "path">>, <<Utf8, Data>>)
dagmldata_inmemory_provider_new_from_arrow_ipc == Constructor(<<"envelope", "vtable", "path">>, <<Utf8, Data>>)

\* The constructor that calls back into the host is more than one step: CAbi has
\* its stages.
dagmldata_inmemory_provider_new_with_buffer_fetcher ==
  Fn({"vtable", "error"}, set_error_message, <<{"vtable"}, {"envelope"}>>, {"envelope"},
     << >>, <<"vtable">>)

-----------------------------------------------------------------------------
(* Functions of a provider, and the callbacks of its vtable.  "provider"   *)
(* is a null vtable or a vtable without user data.                         *)

Report == Fn({"string", "error"}, set_error_message, <<{"provider"}>>, {"provider"},
             <<Data>>, <<"string">>)

Select(out, required, stages) ==
  Fn({out, "error"}, set_error_message, <<{"provider", "selector"} \cup required>>,
     {"provider", "selector"}, stages, <<out>>)

dagmldata_inmemory_provider_feature_buffer_manifest_json == Report
dagmldata_inmemory_provider_data_feature_buffer_manifest_json == Report
dagmldata_inmemory_provider_nd_tensor_manifest_json == Report
dagmldata_inmemory_provider_data_nd_tensor_manifest_json == Report
dagmldata_inmemory_provider_nd_tensor_export_json ==
  Select("ndtensor", {"ndtensor"}, <<Data, Data, Data>>)
dagmldata_inmemory_provider_feature_collation_json == Select("string", {}, <<Data, Data>>)
dagmldata_inmemory_provider_feature_collation_tensor_f64_json ==
  Select("tensor", {"tensor"}, <<Data, Data>>)
dagmldata_inmemory_provider_feature_collation_tensor_f32_json ==
  Select("tensor", {"tensor"}, <<Data, f32_cast>>)

\* A callback has no error output: its status is all it returns, and the last
\* error is the only place where a host finds out more.
CallbackData == Stage(record_data_error)
CallbackUtf8 == Stage(record_arg_error)
CallbackArrow(builder) ==
  [recorder |-> record_data_error, pair |-> builder.pair, arrow |-> builder.arrow]

VTableHandle == Fn({}, record_arg_error, <<{"provider", "handle", "selector"}>>,
                   {"provider", "selector"}, <<CallbackData, CallbackData>>, <<"handle">>)

VTableArrow(selector, stages) ==
  Fn({"array", "schema"}, record_arg_error, <<{"provider", "array", "schema"} \cup selector>>,
     {"provider"} \cup selector, stages, <<"array", "schema">>)

\* The error of building the export dropped.
provider_target_arrow_discards ==
  VTableArrow({"selector"}, <<CallbackUtf8, CallbackData,
                              ArrowStage(discarded)>>)

provider_materialize == VTableHandle
provider_make_view == VTableHandle
provider_view_identity ==
  VTableArrow({}, <<CallbackArrow(build_identity_relations_arrow)>>)
provider_target_arrow ==
  VTableArrow({"selector"}, <<CallbackUtf8, CallbackData, CallbackArrow(build_target_arrow)>>)
provider_feature_arrow ==
  VTableArrow({"selector"}, <<CallbackUtf8, CallbackUtf8, CallbackArrow(build_feature_arrow)>>)

-----------------------------------------------------------------------------
(* The fitted-adapter store.  "store" is a store handle without a pointer; *)
(* who may use and destroy a store is the matter of FittedAdapters.        *)

StoreJson == Fn({"error"}, set_error_message, <<{"store", "json"}>>, {"store", "json"},
                <<Data, Data>>, << >>)

mutex_poisoned == Stage(set_error_message)
no_store_attached == Stage(set_error_message)

dagmldata_inmemory_fitted_adapter_store_new ==
  Fn({}, record_arg_error, <<{"handle"}>>, {}, << >>, <<"handle">>)
dagmldata_inmemory_fitted_adapter_store_register_json == StoreJson
dagmldata_inmemory_fitted_adapter_store_materialize_json == StoreJson
dagmldata_inmemory_fitted_adapter_store_release ==
  Fn({}, record_arg_error, <<{"store", "name"}>>, {"store", "name"}, <<CallbackUtf8>>, << >>)
dagmldata_inmemory_provider_attach_fitted_adapter_store ==
  Fn({"error"}, set_error_message, <<{"provider"}>>, {"provider"}, <<mutex_poisoned>>, << >>)
dagmldata_inmemory_provider_materialize_fitted_adapter_json ==
  Fn({"error"}, set_error_message, <<{"provider", "json"}>>, {"provider", "json"},
     <<mutex_poisoned, no_store_attached, Data, Data>>, << >>)

-----------------------------------------------------------------------------
Functions == {
  dagmldata_schema_fingerprint_json, dagmldata_fold_set_validate_json,
  dagmldata_aggregation_policy_validate_json, dagmldata_fold_set_fingerprint_json,
  dagmldata_fold_set_validate_against_relations_json,
  dagmldata_fitted_adapter_ref_validate_json,
  dagmldata_fitted_adapter_manifest_validate_json,
  dagmldata_coordinator_identity_arrow_json, dagmldata_coordinator_target_arrow_json,
  dagmldata_coordinator_multi_target_arrow_json, dagmldata_coordinator_feature_arrow_json,
  dagmldata_coordinator_feature_fusion_arrow_json,
  dagmldata_coordinator_feature_collation_json,
  dagmldata_coordinator_feature_collation_tensor_f64_json,
  dagmldata_coordinator_feature_collation_tensor_f32_json,
  dagmldata_inmemory_provider_new_json, dagmldata_inmemory_provider_new_with_features_json,
  dagmldata_inmemory_provider_new_with_f64_features_json,
  dagmldata_inmemory_provider_new_with_tensor_views,
  dagmldata_inmemory_provider_new_with_f64_feature_views,
  dagmldata_inmemory_provider_new_with_f64_feature_columns,
  dagmldata_inmemory_provider_new_from_file, dagmldata_inmemory_provider_new_from_arrow_ipc,
  dagmldata_inmemory_provider_feature_buffer_manifest_json,
  dagmldata_inmemory_provider_data_feature_buffer_manifest_json,
  dagmldata_inmemory_provider_nd_tensor_manifest_json,
  dagmldata_inmemory_provider_data_nd_tensor_manifest_json,
  dagmldata_inmemory_provider_nd_tensor_export_json,
  dagmldata_inmemory_provider_feature_collation_json,
  dagmldata_inmemory_provider_feature_collation_tensor_f64_json,
  dagmldata_inmemory_provider_feature_collation_tensor_f32_json,
  provider_materialize, provider_make_view, provider_view_identity,
  provider_target_arrow, provider_feature_arrow,
  dagmldata_inmemory_fitted_adapter_store_new,
  dagmldata_inmemory_fitted_adapter_store_register_json,
  dagmldata_inmemory_fitted_adapter_store_materialize_json,
  dagmldata_inmemory_fitted_adapter_store_release,
  dagmldata_inmemory_provider_attach_fitted_adapter_store,
  dagmldata_inmemory_provider_materialize_fitted_adapter_json}
=============================================================================
