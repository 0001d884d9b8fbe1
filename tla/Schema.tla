------------------------------- MODULE Schema -------------------------------
(***************************************************************************)
(* What a dataset schema must satisfy (model.rs) and the published         *)
(* registry of representations that ports are checked against              *)
(* (representation_registry.rs).                                           *)
(*                                                                         *)
(* A text is blank ("") or not.  An option is a sequence, << >> or <<x>>.  *)
(* A map is a function; a JSON value is [kind, v].                         *)
(***************************************************************************)
EXTENDS Integers, Sequences, FiniteSets

CONSTANT NotANumber   \* the f64 that stands for NaN and the infinities

HasDuplicates(seq) == \E i, j \in DOMAIN seq : i # j /\ seq[i] = seq[j]

BlankText(text) == text = ""
BlankOption(text) == text = <<"">>

-----------------------------------------------------------------------------
(* Axes and coordinates.                                                   *)

\* The order of numbers <<x>> and of canonical dates, field by field.
Ascends(s, t) == \E n \in DOMAIN s : s[n] < t[n] /\ \A m \in 1..(n - 1) : s[m] = t[m]

\* require_strictly_monotonic: every neighbour like the first two.
require_strictly_monotonic(values) ==
  \/ \A i \in 1..(Len(values) - 1) : Ascends(values[i], values[i + 1])
  \/ \A i \in 1..(Len(values) - 1) : Ascends(values[i + 1], values[i])

\* A date and time as <<year, month, day, hour, minute, second>>.
days_in_month(year, month) ==
  LET leap == year % 4 = 0 /\ (year % 100 # 0 \/ year % 400 = 0)
  IN CASE month \in {4, 6, 9, 11} -> 30
       [] month = 2 -> IF leap THEN 29 ELSE 28
       [] OTHER -> 31

\* A text of another form has no fields.
is_rfc3339_utc_seconds(t) ==
  /\ Len(t) = 6
  /\ t[2] \in 1..12 /\ t[3] \in 1..days_in_month(t[1], t[2])
  /\ t[4] \in 0..23 /\ t[5] \in 0..59 /\ t[6] \in 0..59

\* CoordinateSpec::validate_explicit.
validate_explicit(c) ==
  LET v == [i \in DOMAIN c.values |-> c.values[i].v]
      all(kind) == \A i \in DOMAIN c.values : c.values[i].kind = kind
  IN CASE c.dtype = "numeric" ->
            /\ all("number") /\ \A i \in DOMAIN v : v[i] # NotANumber
            /\ c.ordered => require_strictly_monotonic([i \in DOMAIN v |-> <<v[i]>>])
       [] c.dtype = "categorical" ->
            all("string") /\ (\A i \in DOMAIN v : ~ BlankText(v[i])) /\ ~ HasDuplicates(v)
       [] c.dtype = "datetime" ->
            /\ all("date") /\ \A i \in DOMAIN v : is_rfc3339_utc_seconds(v[i])
            /\ c.ordered => require_strictly_monotonic(v)

\* CoordinateSpec::validate, of an axis that may carry coordinates.
ValidCoordinate(c, size) ==
  IF c.grid
  THEN /\ c.dtype = "numeric" /\ size # << >> /\ c.ordered
       /\ c.start # NotANumber /\ c.step \notin {0, NotANumber}
  ELSE /\ c.values # << >>
       /\ size \in {<< >>, <<Len(c.values)>>}
       /\ validate_explicit(c)

\* AxisSpec::validate.
ValidAxis(a) ==
  /\ ~ BlankText(a.name) /\ ~ BlankOption(a.unit)
  /\ a.variable => a.size = << >>
  /\ a.coordinate # << >> => ~ a.variable /\ ValidCoordinate(a.coordinate[1], a.size)

-----------------------------------------------------------------------------
(* Representations and shape contracts.                                    *)

\* RepresentationSpec::validate without the number of axes.
ValidRepresentation_rank_unchecked(r) ==
  /\ ~ BlankText(r.container)
  /\ r.rank = << >> => r.ragged
  /\ \A i \in DOMAIN r.axes : ValidAxis(r.axes[i])
  /\ r.container = "graph_batch" \/ \E i \in DOMAIN r.axes : r.axes[i].kind = "sample"

ValidRepresentation(r) ==
  /\ ~ BlankText(r.container)
  /\ r.rank = << >> => r.ragged
  /\ r.rank # << >> => Len(r.axes) = r.rank[1]
  /\ \A i \in DOMAIN r.axes : ValidAxis(r.axes[i])
  /\ r.container = "graph_batch" \/ \E i \in DOMAIN r.axes : r.axes[i].kind = "sample"

\* AxisSizeContract::validate and accepts.
ValidSizes(c) ==
  /\ ~ (c.exact = << >> /\ c.min = << >> /\ c.max = << >>)
  /\ c.min # << >> /\ c.max # << >> => c.min[1] <= c.max[1]
  /\ c.exact # << >> /\ c.min # << >> => c.exact[1] >= c.min[1]
  /\ c.exact # << >> /\ c.max # << >> => c.exact[1] <= c.max[1]

accepts(c, size) ==
  /\ c.exact # << >> => size = c.exact[1]
  /\ c.min # << >> => size >= c.min[1]
  /\ c.max # << >> => size <= c.max[1]

\* ShapeContract::validate and validate_representation.
ValidShapeContract(c) ==
  /\ c.rank # << >> \/ DOMAIN c.axis_sizes # {}
  /\ \A name \in DOMAIN c.axis_sizes : ~ BlankText(name) /\ ValidSizes(c.axis_sizes[name])

validate_representation(c, r) ==
  /\ ValidShapeContract(c)
  /\ c.rank # << >> => r.rank = c.rank
  /\ r.ragged => c.allow_ragged
  /\ \A name \in DOMAIN c.axis_sizes :
       LET named == {i \in DOMAIN r.axes : r.axes[i].name = name}
           axis == r.axes[CHOOSE i \in named : \A j \in named : i <= j]
       IN /\ named # {}
          /\ axis.size = << >> => axis.variable
          /\ axis.size # << >> => accepts(c.axis_sizes[name], axis.size[1])

-----------------------------------------------------------------------------
(* Dataset schemas.                                                        *)

\* SourceDescriptor::validate.
ValidSource(s) ==
  /\ ~ BlankText(s.name) /\ ~ BlankText(s.sample_key)
  /\ ValidRepresentation(s.native)
  /\ s.contract # << >> => validate_representation(s.contract[1], s.native)

\* MetadataSchema::validate with MetadataFieldSpec::validate.
ValidMetadata(fields) ==
  /\ DOMAIN fields # {}
  /\ \A name \in DOMAIN fields :
       /\ ~ BlankText(name) /\ ~ BlankOption(fields[name].unit)
       /\ fields[name].kind = "categorical" => fields[name].allowed # {}

\* GroupSpec::validate and FoldSpec::validate.
ValidGroup(g) == ~ BlankText(g.column) /\ "" \notin g.metadata

ValidFold(f) ==
  /\ ~ BlankText(f.id) /\ "" \notin f.metadata
  /\ f.group # << >> \/ f.split_column # << >>
  /\ ~ BlankOption(f.split_column)

Ids(seq) == [i \in DOMAIN seq |-> seq[i].id]
IdSet(seq) == {seq[i].id : i \in DOMAIN seq}

\* DatasetSchema::validate.
ValidSchema(s) ==
  /\ ~ BlankText(s.dataset_id)
  /\ s.sample_ids # << >> /\ ~ HasDuplicates(s.sample_ids)
  /\ ~ HasDuplicates(Ids(s.sources)) /\ \A i \in DOMAIN s.sources : ValidSource(s.sources[i])
  /\ \A t \in DOMAIN s.targets : ValidRepresentation(s.targets[t])
  /\ \A m \in DOMAIN s.metadata : ValidRepresentation(s.metadata[m])
  /\ s.metadata_schema # << >> => ValidMetadata(s.metadata_schema[1])
  /\ ~ HasDuplicates(Ids(s.groups))
  /\ \A i \in DOMAIN s.groups :
       /\ ValidGroup(s.groups[i])
       /\ s.groups[i].source # << >> => s.groups[i].source[1] \in IdSet(s.sources)
  /\ ~ HasDuplicates(Ids(s.folds))
  /\ \A i \in DOMAIN s.folds :
       /\ ValidFold(s.folds[i])
       /\ s.folds[i].group # << >> => s.folds[i].group[1] \in IdSet(s.groups)

-----------------------------------------------------------------------------
(* The registry: a sequence of representations with their ids.             *)

\* InputPortSpec::validate and ModelInputSpec::validate.
ValidPorts(ports) ==
  /\ ports # << >>
  /\ ~ HasDuplicates([i \in DOMAIN ports |-> ports[i].name])
  /\ \A i \in DOMAIN ports :
       ~ BlankText(ports[i].name) /\ ports[i].types # << >> /\ ports[i].reprs # << >>

\* RepresentationRegistry::validate.
ValidRegistry(registry) ==
  /\ registry # << >> /\ ~ HasDuplicates([i \in DOMAIN registry |-> registry[i].key])
  /\ \A i \in DOMAIN registry :
       /\ ~ BlankText(registry[i].key) /\ registry[i].key = registry[i].representation.id
       /\ ValidRepresentation(registry[i].representation)

Published(registry, repr) ==
  {registry[i].representation : i \in {i \in DOMAIN registry : registry[i].key = repr}}

validate_model_input_spec_against_registry(ports, registry) ==
  /\ ValidRegistry(registry) /\ ValidPorts(ports)
  /\ \A p \in DOMAIN ports : \A i \in DOMAIN ports[p].reprs :
       \E r \in Published(registry, ports[p].reprs[i]) :
         /\ \E t \in DOMAIN ports[p].types : ports[p].types[t] = r.type
         /\ ports[p].rank # << >> => r.rank = ports[p].rank
=============================================================================
