------------------------------ MODULE Builtins ------------------------------
(***************************************************************************)
(* The builtin catalogue (builtin_models.rs): the published                *)
(* representations, the builtin adapters between them, the model input for *)
(* tables and the policy to plan it with.  Names of units and dtypes are   *)
(* left out; an adapter's id is its place in the list.                     *)
(***************************************************************************)
EXTENDS Schema

axis(name, kind, size, variable) ==
  [name |-> name, kind |-> kind, unit |-> << >>, size |-> size, variable |-> variable,
   coordinate |-> << >>]

fixed(name, kind) == axis(name, kind, << >>, FALSE)
variable_axis(name, kind) == axis(name, kind, << >>, TRUE)
sample_axis == fixed("sample", "sample")
height == fixed("height", "height")
width == fixed("width", "width")

representation(id, type, rank, axes, container, ragged) ==
  [id |-> id, type |-> type, rank |-> rank, axes |-> axes, container |-> container,
   ragged |-> ragged]

dense(id, type, rank, axes) ==
  representation(id, type, <<rank>>, <<sample_axis>> \o axes, "ndarray", FALSE)

signal_1d == dense("signal_1d", "dense_signal", 2, <<fixed("wavelength", "wavelength")>>)

signal_with_processings ==
  dense("signal_with_processings", "dense_signal", 3,
        <<fixed("processing", "processing"), fixed("wavelength", "wavelength")>>)

spectroscopy_signal(id) == dense(id, "dense_signal", 2, <<fixed("wavenumber", "wavenumber")>>)

tabular_numeric ==
  representation("tabular_numeric", "table", <<2>>, <<sample_axis, fixed("feature", "feature")>>,
                 "dataframe", FALSE)

tabular_mixed ==
  representation("tabular_mixed", "table", <<2>>, <<sample_axis, fixed("column", "feature")>>,
                 "dataframe", FALSE)

feature_block_set ==
  representation("feature_block_set", "multi_block", <<3>>,
                 <<sample_axis, fixed("block", "feature"), variable_axis("feature", "feature")>>,
                 "feature_block_set", TRUE)

series_mv(id) ==
  representation(id, "time_series", <<3>>,
                 <<sample_axis, variable_axis("time", "time"), fixed("variable", "feature")>>,
                 "ndarray", TRUE)

genotype_variant_matrix ==
  dense("variant_matrix", "genotype_matrix", 2, <<fixed("variant", "variant")>>)

genotype_dosage_matrix ==
  dense("dosage_matrix", "genotype_matrix", 2, <<fixed("variant", "variant")>>)

rgb_image ==
  dense("rgb_image", "image_rgb", 4, <<height, width, axis("channel", "channel", <<3>>, FALSE)>>)

gray_image == dense("gray_image", "gray_image", 3, <<height, width>>)

multichannel_image ==
  dense("mc_image", "multichannel_image", 4, <<height, width, fixed("channel", "channel")>>)

multispectral_image ==
  dense("multispectral_image", "multichannel_image", 4, <<height, width, fixed("band", "channel")>>)

hyperspectral_cube ==
  dense("cube_hwb", "hyperspectral_cube", 4, <<height, width, fixed("band", "wavelength")>>)

segmentation_mask == dense("segmentation_mask", "label_mask", 3, <<height, width>>)
roi_mask == dense("roi_mask", "label_mask", 3, <<height, width>>)

sample_metadata ==
  representation("sample_metadata", "metadata", <<2>>, <<sample_axis, fixed("field", "feature")>>,
                 "dataframe", FALSE)

target_column(id) == representation(id, "target", <<1>>, <<sample_axis>>, "array", FALSE)

target_matrix(id) ==
  representation(id, "target", <<2>>, <<sample_axis, fixed("target", "target")>>, "array", FALSE)

mass_spectrum ==
  representation("mass_spectrum", "mass_spec", <<2>>,
                 <<sample_axis, variable_axis("mz", "feature")>>, "ragged_array", TRUE)

text_raw == representation("text_raw", "text", <<1>>, <<sample_axis>>, "list", TRUE)

text_token_ids ==
  representation("text_token_ids", "text", <<2>>,
                 <<sample_axis, variable_axis("token", "token")>>, "ragged_array", TRUE)

\* BUILTIN_DATA_MODELS through BuiltinDataModel::representation.
builtin_representations ==
  <<signal_1d, signal_with_processings, spectroscopy_signal("raman_signal"),
    spectroscopy_signal("ftir_signal"), tabular_numeric, tabular_mixed, feature_block_set,
    series_mv("series_mv"), series_mv("climate_series_mv"), genotype_variant_matrix,
    genotype_dosage_matrix, rgb_image, gray_image, multichannel_image, multispectral_image,
    hyperspectral_cube, segmentation_mask, roi_mask, sample_metadata,
    target_column("target_numeric"), target_column("target_categorical"),
    target_matrix("target_numeric_matrix"), target_matrix("target_categorical_matrix"),
    mass_spectrum, text_raw, text_token_ids>>

\* representation_registry with registered_representation.
representation_registry ==
  [i \in DOMAIN builtin_representations |->
     [key |-> builtin_representations[i].id, representation |-> builtin_representations[i]]]

-----------------------------------------------------------------------------
(* Adapters, from and to <<type, representation>>.                         *)

adapter(in, out, cost, lossy, stateful, fit_scope) ==
  [named |-> TRUE, deterministic |-> TRUE, stateful |-> stateful, supervised |-> FALSE,
   lossy |-> lossy, fit_scope |-> fit_scope, cost |-> cost, source |-> in, target |-> out]

stateless_adapter(in, out, cost, lossy) == adapter(in, out, cost, lossy, FALSE, "stateless")
stateful_adapter(in, out, cost, lossy) == adapter(in, out, cost, lossy, TRUE, "fold_train")

Table == <<"table", "tabular_numeric">>

builtin_adapter_registry_spec ==
  <<stateless_adapter(<<"dense_signal", "signal_with_processings">>, Table, 10, FALSE),
    stateless_adapter(<<"dense_signal", "signal_1d">>, Table, 5, FALSE),
    stateless_adapter(<<"dense_signal", "raman_signal">>, Table, 8, FALSE),
    stateless_adapter(<<"dense_signal", "ftir_signal">>, Table, 8, FALSE),
    stateless_adapter(<<"multi_block", "feature_block_set">>, Table, 5, FALSE),
    stateless_adapter(<<"time_series", "climate_series_mv">>, Table, 20, TRUE),
    stateless_adapter(<<"time_series", "series_mv">>, Table, 20, TRUE),
    stateless_adapter(<<"genotype_matrix", "variant_matrix">>,
                      <<"genotype_matrix", "dosage_matrix">>, 8, FALSE),
    stateful_adapter(<<"genotype_matrix", "dosage_matrix">>, Table, 30, TRUE),
    stateful_adapter(<<"table", "tabular_mixed">>, Table, 15, FALSE),
    stateless_adapter(<<"image_rgb", "rgb_image">>, Table, 25, TRUE),
    stateless_adapter(<<"gray_image", "gray_image">>, Table, 20, TRUE),
    stateless_adapter(<<"multichannel_image", "mc_image">>, Table, 30, TRUE),
    stateless_adapter(<<"multichannel_image", "multispectral_image">>, Table, 30, TRUE),
    stateful_adapter(<<"image_rgb", "rgb_image">>, Table, 60, TRUE),
    stateless_adapter(<<"image_rgb", "rgb_image">>,
                      <<"multichannel_image", "mc_image">>, 5, FALSE),
    stateless_adapter(<<"hyperspectral_cube", "cube_hwb">>,
                      <<"dense_signal", "signal_1d">>, 20, TRUE),
    stateless_adapter(<<"hyperspectral_cube", "cube_hwb">>, Table, 80, FALSE),
    stateless_adapter(<<"label_mask", "segmentation_mask">>, Table, 15, TRUE),
    stateless_adapter(<<"label_mask", "roi_mask">>, Table, 10, TRUE),
    stateful_adapter(<<"metadata", "sample_metadata">>, Table, 15, TRUE),
    stateless_adapter(<<"mass_spec", "mass_spectrum">>, Table, 25, TRUE),
    stateful_adapter(<<"text", "text_raw">>, Table, 50, TRUE),
    stateless_adapter(<<"text", "text_token_ids">>, Table, 35, TRUE)>>

tabular_numeric_model_input_spec ==
  <<[name |-> "x", reprs |-> <<"tabular_numeric">>, types |-> <<"table">>, rank |-> <<2>>,
     multi |-> TRUE, optional |-> FALSE]>>

default_builtin_planning_policy ==
  [allow_lossy |-> TRUE, allow_stateful |-> TRUE, allow_supervised |-> FALSE,
   forbidden |-> {}, preferred |-> {}, require_choice |-> TRUE, max_hops |-> <<4>>]

\* BuiltinDataModelSpec::source_descriptor.
source_descriptor(spec, id, name, sample_key) ==
  [id |-> id, name |-> name, sample_key |-> sample_key, type |-> spec.type, native |-> spec,
   contract |-> << >>]
=============================================================================
