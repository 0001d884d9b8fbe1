------------------------------ MODULE MCPlanner ------------------------------
(* Planning requests: the builtin catalogue as the library ships it, and   *)
(* small registries with detours, cycles, ties, penalties and overflows.   *)
EXTENDS Planner

McU64Max == 4000000
McNaN == 99

Repr(id, rank, axes) ==
  representation(id, "t", rank, [k \in 1..axes |-> IF k = 1 THEN sample_axis ELSE fixed("f", "feature")],
                 "ndarray", rank = << >>)

Schema2(sources) ==
  [dataset_id |-> "d", sample_ids |-> <<1, 2>>, sources |-> sources,
   targets |-> << >>, metadata |-> << >>, metadata_schema |-> << >>,
   groups |-> << >>, folds |-> << >>]

Src(id, repr) == source_descriptor(repr, id, "s", "key")

Request(schema, registry, ports, policy) ==
  [schema |-> schema, registry |-> registry, ports |-> ports, fusion |-> None,
   source_ids |-> None, policy |-> policy]

Port(name, reprs, rank, multi, optional) ==
  [name |-> name, reprs |-> reprs, types |-> <<"t">>, rank |-> rank, multi |-> multi,
   optional |-> optional]

-----------------------------------------------------------------------------
(* The builtin catalogue.                                                  *)

BuiltinRegistry ==
  FoldLeft(LAMBDA acc, i : register_adapter(acc, i, builtin_adapter_registry_spec[i]), << >>,
           [i \in DOMAIN builtin_adapter_registry_spec |-> i])

Strict == [default_builtin_planning_policy EXCEPT !.allow_lossy = FALSE, !.allow_stateful = FALSE,
                                                  !.max_hops = None]

BuiltinRequests ==
  {Request(Schema2(<<Src(1, builtin_representations[i]), Src(2, builtin_representations[j])>>),
           BuiltinRegistry, tabular_numeric_model_input_spec, policy) :
     i \in DOMAIN builtin_representations, j \in {5, 8, 12, 16, 20},
     policy \in {default_builtin_planning_policy, Strict}}

-----------------------------------------------------------------------------
(* Small registries over the representations a to e.                       *)

Edge(from, to, cost) == stateless_adapter(<<"t", from>>, <<"t", to>>, cost, FALSE)

Edges ==
  [i \in 1..8 |-> CASE i = 1 -> Edge("a", "b", 1)
                    [] i = 2 -> Edge("b", "c", 1)
                    [] i = 3 -> Edge("c", "d", 0)
                    [] i = 4 -> Edge("a", "c", 5)
                    [] i = 5 -> Edge("d", "e", 1)
                    [] i = 6 -> [Edge("a", "c", 2) EXCEPT !.lossy = TRUE]
                    [] i = 7 -> Edge("c", "b", 3000000)
                    [] i = 8 -> [Edge("b", "e", 2) EXCEPT !.supervised = TRUE]]

Registries == {[i \in s |-> Edges[i]] : s \in SUBSET (1..8)}

Open == [default_builtin_planning_policy EXCEPT !.allow_supervised = TRUE, !.max_hops = None]

Policies ==
  {Strict, Open,
   [Open EXCEPT !.max_hops = <<3>>, !.preferred = {1, 3}],
   [Open EXCEPT !.max_hops = <<2>>, !.require_choice = FALSE],
   [Open EXCEPT !.forbidden = {4}, !.preferred = {2, 6}]}

SearchRequests ==
  [schema : {Schema2(<<Src(1, Repr("a", <<2>>, 2))>>)}, registry : Registries,
   ports : {<<Port("x", reprs, None, FALSE, TRUE)>> : reprs \in {<<"e", "c">>, <<"b">>}},
   fusion : {None}, source_ids : {None}, policy : Policies]

PortLists ==
  {<<Port("x", <<"c", "e">>, None, TRUE, FALSE)>>,
   <<Port("x", <<"a", "b", "d">>, <<2>>, TRUE, FALSE), Port("y", <<"b">>, <<2>>, TRUE, TRUE)>>,
   <<Port("x", <<"c">>, None, FALSE, TRUE)>>,
   <<Port("x", <<"tabular_numeric", "a">>, <<2>>, TRUE, TRUE)>>,
   <<[Port("x", <<"tabular_numeric">>, <<2>>, TRUE, TRUE) EXCEPT !.types = <<"table">>]>>,
   << >>, <<Port("", <<"c">>, None, FALSE, TRUE)>>,
   <<Port("x", << >>, None, FALSE, TRUE)>>,
   <<Port("x", <<"c">>, None, TRUE, TRUE), Port("x", <<"c">>, None, TRUE, TRUE)>>}

Schemas ==
  {Schema2(sources) : sources \in
     {<<Src(1, Repr("a", <<2>>, 2)), Src(2, Repr("b", <<2>>, 2))>>,
      <<Src(2, Repr("c", <<3>>, 3)), Src(1, Repr("b", <<2>>, 2))>>,
      <<Src(1, Repr("a", <<2>>, 2)), Src(2, Repr("c", <<2>>, 2))>>,
      <<Src(1, Repr("a", <<2>>, 1))>>,
      <<Src(1, [Repr("tabular_numeric", << >>, 1) EXCEPT !.type = "table"])>>,
      <<Src(1, Repr("a", << >>, 2)), Src(2, Repr("b", <<2>>, 2))>>}}

PortRequests ==
  [schema : Schemas, ports : PortLists, policy : {Open, [Open EXCEPT !.require_choice = FALSE]},
   registry : {[i \in s |-> Edges[i]] : s \in {{}, {1, 2, 4}, {2, 3, 5, 7}, {1, 2, 6, 8}, 1..5}}
                \cup {<<Edge("a", "c", 1), Edge("a", "c", 1)>>},
   fusion : {None, Some("outer"), Some("sideways")},
   source_ids : {None, Some(<<2, 1>>), Some(<<1>>), Some(<<1, 1>>), Some(<<3>>)}]

-----------------------------------------------------------------------------
(* Schemas with more in them, and one thing wrong with each.               *)

Coordinates(dtype, ordered, kind, values) ==
  Some([grid |-> FALSE, dtype |-> dtype, ordered |-> ordered,
        values |-> [i \in DOMAIN values |-> [kind |-> kind, v |-> values[i]]]])

Grid(step) == Some([grid |-> TRUE, dtype |-> "numeric", ordered |-> TRUE, start |-> 0, step |-> step])

AxisWith(size, coordinate) == [axis("g", "feature", size, FALSE) EXCEPT !.coordinate = coordinate]

AxesTried ==
  {AxisWith(<<2>>, c) : c \in {Grid(1), Grid(0), Grid(McNaN)}} \cup
  {AxisWith(None, Grid(1)), axis("", "feature", None, FALSE), axis("g", "feature", <<2>>, TRUE),
   [axis("g", "feature", None, FALSE) EXCEPT !.unit = <<"">>]} \cup
  {AxisWith(None, Coordinates("numeric", ordered, "number", v)) :
     ordered \in BOOLEAN, v \in {<< >>, <<1, 2, 3>>, <<3, 2, 1>>, <<1, 2, 2>>, <<1, 3, 2>>, <<McNaN>>}} \cup
  {AxisWith(<<2>>, Coordinates("categorical", FALSE, "string", v)) :
     v \in {<<"p", "q">>, <<"p", "p">>, <<"p">>, <<"", "q">>}} \cup
  {AxisWith(None, Coordinates("datetime", TRUE, "date", v)) :
     v \in {<<<<2024, 2, 29, 0, 0, 0>>, <<2024, 3, 1, 0, 0, 0>>>>, <<<<2023, 2, 29, 0, 0, 0>>>>,
            <<<<2000, 2, 29, 0, 0, 0>>, <<1900, 2, 28, 23, 59, 59>>>>, <<<<1900, 2, 29, 0, 0, 0>>>>,
            <<<<2024, 4, 31, 0, 0, 0>>>>, << << >> >>}}

Sizes(exact, min, max) == [exact |-> exact, min |-> min, max |-> max]

Contracts ==
  {Some([rank |-> rank, axis_sizes |-> sizes, allow_ragged |-> FALSE]) :
     rank \in {None, <<2>>, <<3>>},
     sizes \in {<< >>, [g \in {"g"} |-> Sizes(<<2>>, <<1>>, <<3>>)], [g \in {"g"} |-> Sizes(None, <<3>>, None)],
                [g \in {"g"} |-> Sizes(None, <<3>>, <<2>>)], [g \in {"h"} |-> Sizes(<<2>>, None, None)]}}

Rich ==
  [Schema2(<<Src(1, [Repr("a", <<2>>, 2) EXCEPT !.axes[2] = axis("g", "feature", <<2>>, FALSE)])>>) EXCEPT
     !.targets = [t \in {"y"} |-> target_column("target_numeric")],
     !.metadata = [m \in {"m"} |-> sample_metadata],
     !.metadata_schema = Some([f \in {"f"} |-> [kind |-> "categorical", unit |-> None, allowed |-> {1}]]),
     !.groups = <<[id |-> 1, column |-> "c", source |-> <<1>>, metadata |-> {}]>>,
     !.folds = <<[id |-> "k", group |-> <<1>>, split_column |-> None, metadata |-> {}]>>]

SchemasTried ==
  {[Rich EXCEPT !.sources[1].native.axes[2] = a] : a \in AxesTried} \cup
  {[Rich EXCEPT !.sources[1].contract = c] : c \in Contracts} \cup
  {Rich, [Rich EXCEPT !.dataset_id = ""], [Rich EXCEPT !.sample_ids = <<1, 1>>],
   [Rich EXCEPT !.sources = << @[1], @[1] >>], [Rich EXCEPT !.sources[1].sample_key = ""],
   [Rich EXCEPT !.metadata_schema[1].f.allowed = {}], [Rich EXCEPT !.groups[1].source = <<7>>],
   [Rich EXCEPT !.groups[1].metadata = {""}], [Rich EXCEPT !.folds[1].group = <<7>>],
   [Rich EXCEPT !.folds[1].group = None], [Rich EXCEPT !.targets["y"].container = ""],
   [Rich EXCEPT !.metadata["m"].axes = << >>]}

SchemaRequests ==
  {Request(schema, [i \in 1..4 |-> Edges[i]], <<Port("x", <<"a">>, <<2>>, TRUE, FALSE)>>, Open) :
     schema \in SchemasTried}

McRequests == SearchRequests \cup PortRequests \cup BuiltinRequests \cup SchemaRequests
=============================================================================
