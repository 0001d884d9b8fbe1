------------------------------ MODULE DataPath ------------------------------
(***************************************************************************)
(* The way of the data through the library, as a host drives it: feature   *)
(* matrices are taken in by one of three routes, projected to the rows of  *)
(* a view, aligned, fused, collated into a tensor and exported as Arrow;   *)
(* target tables are selected and exported; borrowed tensor views are      *)
(* gathered and projected.                                                 *)
(*                                                                         *)
(* One job at a time; each action is one call, with the arguments that the *)
(* host chooses.  A call that returns an error ends the job.               *)
(***************************************************************************)
EXTENDS TensorViews, ArrowExport

CONSTANTS
  Jobs,          \* what the host holds: features, rows, targets or a tensor
  Columns,       \* selections of columns, as options
  CollationPolicies,   \* policies of collation calls
  Modes          \* alignment modes

\* A borrowed tensor has a shape, a stride for each axis if it has strides, and
\* lengths, which are unsigned; what it lists are lists.
ASSUME TensorsAssumption ==
  /\ UsizeMax \in Nat /\ MaxRank \in Nat
  /\ \A j \in Jobs : j.kind = "tensor" =>
       /\ j.tensor.shape \in Seq(Nat)
       /\ j.tensor.strides # << >> => /\ j.tensor.strides[1] \in Seq(Int)
                                     /\ Len(j.tensor.strides[1]) = Len(j.tensor.shape)
       /\ j.tensor.size \in Nat /\ j.tensor.data_len \in Nat
       /\ j.tensor.obs \in Seq(ToSet(j.tensor.obs)) /\ j.view \in Seq(ToSet(j.view))
       /\ j.tensor.presence # << >> =>
            j.tensor.presence[1] \in Seq(ToSet(j.tensor.presence[1]))

\* Every observation of a source has a row of cells; in JSON a null has no value
\* and a number is finite, as f64 too.  A selection of columns is a list.
ASSUME FeaturesAssumption ==
  /\ Modes \subseteq {"inner", "left", "outer"}
  /\ \A j \in Jobs : j.kind = "features" =>
       /\ j.view \in Seq(ToSet(j.view)) /\ j.sources \in Seq(ToSet(j.sources))
       /\ \A i \in DOMAIN j.sources :
            LET s == j.sources[i]
            IN /\ s.names \in Seq(ToSet(s.names)) /\ s.obs \in Seq(ToSet(s.obs))
               /\ s.rows \in Seq(ToSet(s.rows)) /\ Len(s.rows) = Len(s.obs)
               /\ \A r \in DOMAIN s.rows :
                    /\ s.rows[r] \in Seq(ToSet(s.rows[r]))
                    /\ \A f \in DOMAIN s.rows[r] :
                         LET cell == s.rows[r][f]
                         IN Numeric(cell) =>
                              \/ cell = Null
                              \/ /\ cell = Json(cell.kind, cell.v) /\ IsNumber(cell)
                                 /\ as_f64(cell) # NotFinite
  /\ \A columns \in Columns : columns # << >> => columns[1] \in Seq(ToSet(columns[1]))

\* Rows to collate are lists of cells; a length asked for is unsigned.
ASSUME CollationAssumption ==
  /\ \A j \in Jobs : j.kind = "rows" =>
       LET in == j.input
       IN /\ in.obs \in Seq(ToSet(in.obs)) /\ in.rows \in Seq(ToSet(in.rows))
          /\ \A k \in DOMAIN in.rows : in.rows[k] \in Seq(ToSet(in.rows[k]))
          /\ in.names # << >> => in.names[1] \in Seq(ToSet(in.names[1]))
  /\ \A p \in CollationPolicies : p.max_length # << >> => p.max_length[1] \in Nat

\* Views, lists of target tables and the values of a table are lists.
ASSUME TargetsAssumption ==
  \A j \in Jobs : j.kind = "targets" =>
    /\ j.view \in Seq(ToSet(j.view)) /\ j.tables \in Seq(ToSet(j.tables))
    /\ \A t \in DOMAIN j.tables :
         LET values == j.tables[t].values IN values \in Seq(ToSet(values))

\* Names are strings; a relation has its fields, some of them optional.
ASSUME RelationsAssumption ==
  \A j \in Jobs : j.kind \in {"features", "targets"} => \A k \in DOMAIN j.view :
    LET r == j.view[k]
        string(s) == s \in Seq(ToSet(s))
        optional(o) == o # << >> => o = <<o[1]>> /\ string(o[1])
    IN /\ string(r.obs) /\ string(r.sample) /\ string(r.json)
       /\ optional(r.target) /\ optional(r.group) /\ optional(r.origin) /\ optional(r.source)
       /\ r.augmented \in BOOLEAN

VARIABLES
  job,     \* the host's data
  stage,   \* the last call that succeeded, or "refused"
  out      \* results of the calls so far, by name

dataVars == <<job, stage, out>>

NoResults ==
  [buffers |-> Err, blocks |-> Err, plan |-> Err, fused |-> Err, tensor |-> Err,
   arrow |-> Err, single |-> Err, multi |-> Err, policy |-> Err]

\* A call: its result is kept under a name, or the job ends.
Call(from, to, name, result) ==
  /\ stage = from
  /\ stage' = IF IsOk(result) THEN to ELSE "refused"
  /\ out' = IF IsOk(result) THEN [out EXCEPT ![name] = result] ELSE out
  /\ UNCHANGED job

\* All results, or the error of one of them.
All(results) ==
  IF \A i \in DOMAIN results : IsOk(results[i])
  THEN Ok([i \in DOMAIN results |-> results[i][1]]) ELSE Err

-----------------------------------------------------------------------------
(* Features.  A source is [source, names, obs, rows] with JSON cells; the  *)
(* same cells, converted to f64 by the host and with u8 masks, are what it *)
(* passes by views, where a cell of the kind "nan" is possible.            *)

HostTable(s) == [names |-> s.names,
             rows |-> [r \in DOMAIN s.obs |-> [obs |-> s.obs[r], values |-> s.rows[r]]]]

\* What a host leaves under a masked cell.
Filler == NotFinite

F64(cell) == IF IsNumber(cell) THEN as_f64(cell) ELSE Filler
Shows(cell) == IF IsNumber(cell) \/ cell.kind = "nan" THEN 1 ELSE 0

MatrixView(s) ==
  LET cells == FlattenSeq(s.rows)
  IN [names |-> s.names, obs |-> s.obs, values |-> [i \in DOMAIN cells |-> F64(cells[i])],
      mask |-> <<[i \in DOMAIN cells |-> Shows(cells[i])]>>]

ColumnsView(s) ==
  [names |-> s.names, obs |-> s.obs,
   columns |-> [f \in DOMAIN s.names |->
                  [values |-> [r \in DOMAIN s.obs |-> F64(s.rows[r][f])],
                   mask |-> <<[r \in DOMAIN s.obs |-> Shows(s.rows[r][f])]>>]]]

FromMatrix(view) ==
  LET core == f64_feature_matrix_view_to_core(view)
  IN IF IsOk(core) THEN from_f64_matrix(core[1]) ELSE Err

FromColumns(view) ==
  LET core == f64_feature_matrix_columnar_view_to_core(view)
  IN IF IsOk(core) THEN from_f64_column_matrix(core[1]) ELSE Err

IngestTable ==
  /\ job.kind = "features"
  /\ Call("host", "buffered", "buffers",
          All([i \in DOMAIN job.sources |-> from_feature_table(HostTable(job.sources[i]))]))

\* A host has a matrix of rows of one length only, and columns only of rows that
\* have a cell in each.
OneLength(s) == \A q, r \in DOMAIN s.rows : Len(s.rows[q]) = Len(s.rows[r])
InColumns(s) == \A r \in DOMAIN s.rows : Len(s.names) <= Len(s.rows[r])

IngestMatrix ==
  /\ job.kind = "features" /\ \A i \in DOMAIN job.sources : OneLength(job.sources[i])
  /\ Call("host", "buffered", "buffers",
          All([i \in DOMAIN job.sources |-> FromMatrix(MatrixView(job.sources[i]))]))

IngestColumns ==
  /\ job.kind = "features" /\ \A i \in DOMAIN job.sources : InColumns(job.sources[i])
  /\ Call("host", "buffered", "buffers",
          All([i \in DOMAIN job.sources |-> FromColumns(ColumnsView(job.sources[i]))]))

\* The blocks of the view, one for each source.
Project(columns) ==
  LET source(i) == job.sources[i].source
      block(i) == project_relations(out.buffers[1][i], job.view, <<source(i)>>,
                                    IF i = 1 THEN columns ELSE << >>)
  IN /\ job.kind = "features"
     /\ Call("buffered", "projected", "blocks",
             All([i \in DOMAIN job.sources |->
                    IF IsOk(block(i))
                    THEN Ok([source |-> source(i), repr |-> "tabular_numeric", block |-> block(i)[1]])
                    ELSE Err]))

Align(mode) ==
  LET sets == All([i \in DOMAIN out.blocks[1] |->
                     source_sample_set_from_feature_block(out.blocks[1][i])])
  IN Call("projected", "aligned", "plan",
          IF IsOk(sets) THEN build_sample_alignment_plan(sets[1], mode) ELSE Err)

Fuse(namespace) ==
  Call("aligned", "fused", "fused", fuse_feature_blocks(out.blocks[1], out.plan[1], namespace))

\* Collation of the fused block, or of rows that the host passes itself.
CollationInput ==
  IF job.kind = "rows" THEN Ok(job.input) ELSE numeric_input_from_feature_block(out.fused[1])

Collate(policy) ==
  LET from == IF job.kind = "rows" THEN "host" ELSE "fused"
      result == IF IsOk(CollationInput) THEN collate_numeric_block(CollationInput[1], policy) ELSE Err
  IN /\ job.kind \in {"rows", "features"} /\ stage = from
     /\ stage' = IF IsOk(result) THEN "collated" ELSE "refused"
     /\ out' = IF IsOk(result) THEN [out EXCEPT !.tensor = result, !.policy = <<policy>>] ELSE out
     /\ UNCHANGED job

ExportFeatures == Call("fused", "exported", "arrow", build_feature_arrow(out.fused[1]))

-----------------------------------------------------------------------------
(* Identities and targets.                                                 *)

ExportIdentity ==
  /\ job.kind = "targets"
  /\ Call("host", "identified", "arrow", build_identity_relations_arrow(job.view))

SelectTarget ==
  /\ job.kind = "targets"
  /\ Call("host", "selected", "single", target_values(job.view, job.tables[1]))

SelectTargets ==
  /\ job.kind = "targets"
  /\ Call("host", "selected_all", "multi", multi_target_values(job.view, job.tables))

ExportTarget ==
  Call("selected", "exported_target", "arrow",
       build_target_arrow(job.tables[1].target, out.single[1]))

TargetNames == [t \in DOMAIN job.tables |-> job.tables[t].target]

ExportTargets ==
  Call("selected_all", "exported_targets", "arrow",
       build_multi_target_arrow(TargetNames, out.multi[1]))

-----------------------------------------------------------------------------
(* Tensors.                                                                *)

BorrowTensor ==
  LET input == borrowed_tensor_view_to_input(job.tensor)
  IN /\ job.kind = "tensor"
     /\ Call("host", "gathered", "tensor", IF IsOk(input) THEN from_input(input[1]) ELSE Err)

ProjectTensor(source) ==
  /\ job.kind = "tensor"
  /\ Call("gathered", "tensor_projected", "tensor",
          project_tensor(out.tensor[1], job.view, source))

DataInit == job \in Jobs /\ stage = "host" /\ out = NoResults

\* No job, for a run about other components.
DataIdle == job = [kind |-> "none"] /\ stage = "idle" /\ out = NoResults

DataNext ==
  \/ IngestTable \/ IngestMatrix \/ IngestColumns
  \/ \E columns \in Columns : Project(columns)
  \/ \E mode \in Modes : Align(mode)
  \/ \E namespace \in BOOLEAN : Fuse(namespace)
  \/ \E policy \in CollationPolicies : Collate(policy)
  \/ ExportFeatures \/ ExportIdentity
  \/ SelectTarget \/ SelectTargets \/ ExportTarget \/ ExportTargets
  \/ BorrowTensor
  \/ \E source \in {<< >>, <<<<1>>>>} : ProjectTensor(source)

DataSpec == DataInit /\ [][DataNext]_dataVars

-----------------------------------------------------------------------------
(* Properties.                                                             *)

\* A block of the host's JSON values as a buffer gives them back.
InF64(block) ==
  [block EXCEPT !.values = [k \in DOMAIN block.values |->
     [c \in DOMAIN block.values[k] |-> FromCell(Cell(block.values[k][c]))]]]

(* A JSON table, a row-major view with a mask and column views with masks  *)
(* of the same cells become one and the same buffer; a buffer written out  *)
(* as columns and read again is unchanged; and whenever the projection of  *)
(* the buffer accepts (project_relations, buffer.rs), so does the table's  *)
(* own selection of the view (feature_values, handle.rs), and it differs   *)
(* by the conversion of its numbers to f64 and by nothing else: not in the *)
(* rows, the columns or the nulls.                                         *)
BuffersAgree ==
  job.kind = "features" /\ stage = "host" =>
    \A i \in DOMAIN job.sources : \A columns \in Columns :
      LET s == job.sources[i]
          buffer == from_feature_table(HostTable(s))
          rows == OfSource(job.view, <<s.source>>)
          table == feature_values(rows, HostTable(s), columns)
          rectangular == \A r \in DOMAIN s.rows : Len(s.rows[r]) = Len(s.names)
      IN /\ rectangular => FromMatrix(MatrixView(s)) = FromColumns(ColumnsView(s))
         /\ IsOk(buffer) =>
           /\ FromMatrix(MatrixView(s)) = buffer
           /\ from_f64_column_matrix(to_f64_column_matrix(buffer[1])) = buffer
           /\ LET block == project_relations(buffer[1], job.view, <<s.source>>, columns)
                  flat == project_relations_f64(buffer[1], job.view, <<s.source>>, columns)
              IN IsOk(block) =>
                   /\ IsOk(table) /\ InF64(table[1]) = block[1]
                   /\ IsOk(flat) => flat[1].values =
                        FlattenSeq([k \in DOMAIN rows |-> [c \in DOMAIN block[1].names |->
                                      block[1].values[k][c].v]])

\* The number that the host gave for a feature of an observation of a source, as
\* f64; null for anything else (a host that passes f64 views masks it).
HostCell(s, obs, name) ==
  LET cell == s.rows[IndexOf(s.obs, obs)][IndexOf(s.names, name)]
  IN IF IsNumber(cell) THEN Json("number", as_f64(cell)) ELSE Null

\* The observations of a sample of a source, in the view.
ObsOfSample(source, sample) ==
  {job.view[k].obs : k \in {k \in DOMAIN job.view :
                              job.view[k].source = <<source>> /\ job.view[k].sample = sample}}

(* Fusing blocks that were aligned keeps samples apart and loses nothing:  *)
(* the columns of the layout of a source hold, in a row, the cells that    *)
(* the host gave for one observation of that row's sample, or nulls when   *)
(* the view has no observation of it; every observation in the view of an  *)
(* aligned sample has its row; inner keeps the samples of all sources,     *)
(* left those of the first, outer those of any (fusion.rs, alignment.rs).  *)
FusionKeepsSamples ==
  job.kind = "features" /\ stage = "fused" =>
    LET fused == out.fused[1]
        blocks == out.blocks[1]
        width(b) == Len(blocks[b].block.names)
        layout == [repr |-> "tabular_numeric", total |-> Len(fused.names),
                   ranges |-> [b \in DOMAIN blocks |->
                     [source |-> blocks[b].source, count |-> width(b),
                      start |-> Len(FlattenSeq([i \in 1..(b - 1) |-> blocks[i].block.names]))]]]
        part(k, b) == Window(fused.values[k], layout.ranges[b].start, width(b))
        given(b, obs) == [c \in 1..width(b) |->
                            HostCell(job.sources[b], obs, blocks[b].block.names[c])]
        has(b, sample) == ObsOfSample(job.sources[b].source, sample) # {}
    IN /\ ValidLayout(layout, blocks)
       /\ \A k \in DOMAIN fused.values : \A b \in DOMAIN blocks :
            IF has(b, fused.samples[k])
            THEN \E obs \in ObsOfSample(blocks[b].source, fused.samples[k]) : part(k, b) = given(b, obs)
            ELSE part(k, b) = [c \in 1..width(b) |-> Null]
       /\ \A b \in DOMAIN blocks, k \in DOMAIN fused.samples :
            \A obs \in ObsOfSample(blocks[b].source, fused.samples[k]) :
              \E j \in DOMAIN fused.samples :
                fused.samples[j] = fused.samples[k] /\ part(j, b) = given(b, obs)
       /\ ToSet(fused.samples) =
            {s \in {job.view[k].sample : k \in DOMAIN job.view} :
               CASE out.plan[1].mode = "inner" -> \A b \in DOMAIN blocks : has(b, s)
                 [] out.plan[1].mode = "left" -> has(1, s)
                 [] out.plan[1].mode = "outer" -> \E b \in DOMAIN blocks : has(b, s)}

(* In a collated tensor a named column holds the cell of that name in      *)
(* every row.  A row is a contiguous part of the given row, the whole of   *)
(* it when it fits, at one place of the tensor's row; everything else is   *)
(* padding, and the masks say so: a cell is valid exactly if it is a given *)
(* value that is not missing (collation.rs).                               *)
CollationFaithful ==
  stage = "collated" =>
    LET in == CollationInput[1]
        t == out.tensor[1]
        n == t.shape[2]
        policy == out.policy[1]
        cell(k, c) == t.values[(k - 1) * n + c]
        present(k, c) == t.presence = << >> \/ t.presence[1][(k - 1) * n + c]
        valid(k, c) == t.validity = << >> \/ t.validity[1][(k - 1) * n + c]
        value(option) == IF option = << >> THEN policy.pad_value ELSE option[1]
    IN /\ t.shape[1] = Len(in.rows)
       /\ t.names # << >> =>
            /\ Len(t.names[1]) = n
            /\ \A k \in DOMAIN in.rows, c \in 1..n :
                 LET given == in.rows[k][IndexOf(in.names[1], t.names[1][c])]
                 IN cell(k, c) = value(given) /\ (valid(k, c) <=> given # << >>)
       /\ \A k \in DOMAIN in.rows : \E at \in (0 - n)..Len(in.rows[k]) :
            LET row == in.rows[k]
                inside(c) == c + at \in DOMAIN row
            IN /\ Len(row) <= n => \A p \in DOMAIN row : p - at \in 1..n
               /\ Len(row) >= n => \A c \in 1..n : inside(c)
               /\ \A c \in 1..n :
                    /\ cell(k, c) = IF inside(c) THEN value(row[c + at]) ELSE policy.pad_value
                    /\ valid(k, c) <=> inside(c) /\ row[c + at] # << >>
                    /\ policy.emit_mask => (present(k, c) <=> inside(c))

(* A sample has one value for a target: what the single-target call        *)
(* returns for it is what the multi-target call returns, whatever other    *)
(* targets are asked for; the values are of one kind and width; a sample   *)
(* of the multi-target block that the table does not know is masked        *)
(* (handle.rs).                                                            *)
TargetRoutesAgree ==
  job.kind = "targets" /\ stage = "host" =>
    LET multi == multi_target_values(job.view, job.tables)
    IN \A t \in DOMAIN job.tables :
         LET single == target_values(job.view, job.tables[t])
             at(s) == IndexOf(multi[1].samples, s)
         IN /\ IsOk(single) => \A i, j \in DOMAIN single[1].values :
                 target_value_shape(single[1].values[i]) = target_value_shape(single[1].values[j])
            /\ IsOk(single) /\ IsOk(multi) =>
                 \A i \in DOMAIN single[1].samples :
                   LET s == single[1].samples[i]
                   IN /\ s \in ToSet(multi[1].samples)
                      /\ multi[1].values[t][at(s)] = single[1].values[i]
                      /\ multi[1].masks[t][at(s)]
            /\ IsOk(multi) => \A i \in DOMAIN multi[1].samples :
                 multi[1].masks[t][i] =>
                   \E v \in DOMAIN job.tables[t].values :
                     /\ job.tables[t].values[v].sample = multi[1].samples[i]
                     /\ job.tables[t].values[v].value = multi[1].values[t][i]

\* The indices of the elements of an array.
Indices(shape) ==
  {x \in [DOMAIN shape -> 0..(UsizeMax - 1)] : \A i \in DOMAIN shape : x[i] < shape[i]}

\* Position of an index in row-major order, from 0.
RowMajor(shape, index) ==
  LET upto[i \in 0 .. Len(shape)] ==
        IF i = 0 THEN 0 ELSE upto[i - 1] * shape[i] + index[i]
  IN upto[Len(shape)]

\* The bytes that one step along an axis skips in a canonical payload: those of
\* a block of the axes after it.
CanonicalStrides(shape, size) ==
  LET block[k \in 0 .. Len(shape)] ==     \* of the last k axes
        IF k = 0 THEN size ELSE block[k - 1] * shape[Len(shape) - k + 1]
  IN [i \in DOMAIN shape |-> block[Len(shape) - i]]

Strides(view) ==
  IF view.strides # << >> THEN view.strides[1] ELSE CanonicalStrides(view.shape, view.size)

\* Where an element starts.
AddressOf(strides, index) ==
  LET upto[i \in 0 .. Len(strides)] ==
        IF i = 0 THEN 0 ELSE upto[i - 1] + index[i] * strides[i]
  IN upto[Len(strides)]

(* Every byte that is read of a borrowed tensor lies inside the host's     *)
(* memory, also where a product or a sum of strides wraps around           *)
(* (gather_strided_tensor, capi lib.rs).                                   *)
ReadsInMemory ==
  stage \in {"gathered", "tensor_projected"} =>
    ToSet(out.tensor[1].data) \subseteq 0 .. job.tensor.data_len - 1

(* No byte outside of the host's memory is read (ReadsInMemory), and the   *)
(* tensor holds, in row-major order, the bytes at the strided address of   *)
(* each element.  Projected to a view, a row is the row of its observation *)
(* (borrowed_tensor_view_to_input and gather_strided_tensor, capi lib.rs;  *)
(* NdTensor, nd_tensor.rs).                                                *)
GatherExact ==
  stage \in {"gathered", "tensor_projected"} =>
    LET v == job.tensor
        t == out.tensor[1]
        s == Strides(v)
        indices == Indices(v.shape)
    IN /\ ReadsInMemory
       /\ \A k \in 1..t.shape[1] :
            \A x \in {x \in indices : v.obs[x[1] + 1] = t.obs[k]} : \A byte \in 1..v.size :
              t.data[RowMajor(t.shape, [x EXCEPT ![1] = k - 1]) * v.size + byte]
                = AddressOf(s, x) + byte - 1
       /\ v.presence # << >> => \A k \in 1..t.shape[1] :
            t.presence[1][k] <=> v.presence[1][IndexOf(v.obs, t.obs[k])] = 1

(* What a consumer of the Arrow format reads from an exported array is     *)
(* what went in, nulls included, and the null count is right (the build_*  *)
(* and *_array functions, capi lib.rs).                                    *)
ArrowDecodes ==
  LET a == out.arrow[1]
      options(seq) == [i \in DOMAIN seq |-> <<seq[i]>>]
      read(c) == ReadStrings(a.children[c])
      nulls(c) == a.children[c].null_count =
                    Cardinality({i \in 1..a.length : ~ IsValid(a.children[c], i - 1)})
      field(f) == [i \in DOMAIN job.view |-> job.view[i][f]]
  IN /\ stage = "exported" =>
          /\ read(1) = options(out.fused[1].obs) /\ read(2) = options(out.fused[1].samples)
          /\ \A f \in DOMAIN out.fused[1].names :
               /\ a.fields[f + 2].name = out.fused[1].names[f] /\ nulls(f + 2)
               /\ ReadNumbers(a.children[f + 2]) =
                    [k \in 1..a.length |-> Cell(out.fused[1].values[k][f])]
     /\ stage = "exported_target" =>
          /\ read(1) = options(out.single[1].samples)
          /\ ReadNumbers(a.children[3]) = [i \in 1..a.length |-> Cell(out.single[1].values[i])]
     /\ stage = "exported_targets" =>
          \A t \in DOMAIN job.tables :
            /\ a.fields[t + 1].name = job.tables[t].target /\ nulls(t + 1)
            /\ ReadNumbers(a.children[t + 1]) =
                 [i \in 1..a.length |-> Cell(out.multi[1].values[t][i])]
     /\ stage = "identified" =>
          /\ read(1) = options(field("obs")) /\ read(2) = options(field("sample"))
          /\ read(3) = field("target") /\ read(4) = field("group")
          /\ read(5) = field("origin") /\ read(6) = field("source")
          /\ ReadBools(a.children[7]) = field("augmented")
          /\ Len(a.children) = 7 => \A i \in DOMAIN job.view : ~ job.view[i].rich
          /\ Len(a.children) = 8 => read(8) = options(field("json"))
=============================================================================
