------------------------------- MODULE Tables -------------------------------
(***************************************************************************)
(* Feature tables and matrices, the columnar buffers made of them          *)
(* (buffer.rs), and the blocks of features and targets that a view selects *)
(* from them (handle.rs, buffer.rs).                                       *)
(*                                                                         *)
(* A result or an optional value is a sequence: <<x>>, or << >> for an     *)
(* error or a missing value.  A JSON value is [kind, v, items]; a number   *)
(* is of the kind "integer" (64 bits) or of the kind "number" (an f64).    *)
(***************************************************************************)
EXTENDS Integers, Sequences, FiniteSets, SequencesExt

CONSTANTS
  NotFinite,      \* the f64 value that stands for NaN and the infinities
  ExactInteger    \* up to here every integer is an f64 value (2^53 in the code)

Ok(x) == <<x>>
Err == << >>
IsOk(result) == result # Err

Json(kind, v) == [kind |-> kind, v |-> v, items |-> << >>]
JsonArray(items) == [kind |-> "array", v |-> 0, items |-> items]
Null == Json("null", 0)

Unique(seq) == \A i, j \in DOMAIN seq : seq[i] = seq[j] => i = j

\* The elements at some of the places of a sequence.
Kept(seq, places) ==
  LET upto[n \in 0 .. Len(seq)] ==
        IF n = 0 THEN << >>
        ELSE IF n \in places THEN Append(upto[n - 1], seq[n])
        ELSE upto[n - 1]
  IN upto[Len(seq)]

\* The elements of a sequence in the order they first appear.
FirstOf(seq) == Kept(seq, {n \in DOMAIN seq : \A m \in 1 .. n - 1 : seq[m] # seq[n]})

IndexOf(seq, x) == CHOOSE i \in DOMAIN seq : seq[i] = x

-----------------------------------------------------------------------------
(* Buffers.  columns[f][r] is the optional cell of feature f and row r.    *)

Buffer(names, obs, columns) == [names |-> names, obs |-> obs, columns |-> columns]

\* validate_feature_shape, also CoordinatorFeatureTable::validate on names and rows.
ValidShape(names, obs) == names # << >> /\ Unique(names) /\ obs # << >> /\ Unique(obs)

\* NumericFeatureBuffer::validate: the row index is the inverse of obs.
ValidBuffer(b) ==
  /\ ValidShape(b.names, b.obs)
  /\ Len(b.columns) = Len(b.names)
  /\ \A f \in DOMAIN b.columns : Len(b.columns[f]) = Len(b.obs)

ObsOf(table) == [r \in DOMAIN table.rows |-> table.rows[r].obs]

ValidFeatureTable(table) ==
  /\ ValidShape(table.names, ObsOf(table))
  /\ \A r \in DOMAIN table.rows : Len(table.rows[r].values) = Len(table.names)

\* The distance of the f64 values around an integer of n or -n.
Spacing(n) == CHOOSE u \in {2^k : k \in 0..11} :
                n <= ExactInteger * u /\ (u > 1 => n > ExactInteger * (u \div 2))

\* The nearest f64 value; of two, the one with the even significand.
Rounded(n) ==
  LET u == Spacing(IF n < 0 THEN -n ELSE n)
      below == n \div u
      rest == 2 * (n % u)
  IN IF rest > u \/ (rest = u /\ below % 2 = 1) THEN (below + 1) * u ELSE below * u

\* serde_json::Number::as_f64, which answers for every number.
IsNumber(value) == value.kind \in {"integer", "number"}
as_f64(value) == IF value.kind = "integer" THEN Rounded(value.v) ELSE value.v

\* numeric_feature_value.
Numeric(value) == value.kind = "null" \/ IsNumber(value)
Cell(value) == IF value.kind = "null" THEN << >> ELSE <<as_f64(value)>>

\* A cell as JSON: Value::from an f64, which is never an integer again.
FromCell(cell) == IF cell = << >> THEN Null ELSE Json("number", cell[1])

from_feature_table(table) ==
  IF /\ ValidFeatureTable(table)
     /\ \A r \in DOMAIN table.rows : \A f \in DOMAIN table.names : Numeric(table.rows[r].values[f])
  THEN Ok(Buffer(table.names, ObsOf(table),
                 [f \in DOMAIN table.names |->
                    [r \in DOMAIN table.rows |-> Cell(table.rows[r].values[f])]]))
  ELSE Err

\* A value that a mask, if there is one, marks as valid.
Shown(mask, i) == mask = << >> \/ mask[1][i]

\* NumericFeatureMatrixF64::validate.
ValidMatrix(m) ==
  LET cells == Len(m.names) * Len(m.obs)
  IN /\ ValidShape(m.names, m.obs)
     /\ Len(m.values) = cells
     /\ m.mask # << >> => Len(m.mask[1]) = cells
     /\ \A i \in 1..cells : Shown(m.mask, i) => m.values[i] # NotFinite

\* Column-major addressing of row-major values.
Flat_transposed(m, r, f) == (f - 1) * Len(m.obs) + r

Flat(m, r, f) == (r - 1) * Len(m.names) + f

from_f64_matrix(m) ==
  IF ValidMatrix(m)
  THEN Ok(Buffer(m.names, m.obs,
                 [f \in DOMAIN m.names |-> [r \in DOMAIN m.obs |->
                    IF Shown(m.mask, Flat(m, r, f)) THEN <<m.values[Flat(m, r, f)]>> ELSE << >>]]))
  ELSE Err

\* NumericFeatureMatrixF64Columnar::validate.
ColumnMask(c, f) == IF c.masks = << >> THEN << >> ELSE <<c.masks[1][f]>>

ValidColumnar(c) ==
  /\ ValidShape(c.names, c.obs)
  /\ Len(c.columns) = Len(c.names)
  /\ c.masks # << >> => Len(c.masks[1]) = Len(c.names)
  /\ \A f \in DOMAIN c.columns :
       /\ Len(c.columns[f]) = Len(c.obs)
       /\ c.masks # << >> => Len(c.masks[1][f]) = Len(c.obs)
       /\ \A r \in DOMAIN c.obs :
            Shown(ColumnMask(c, f), r) => c.columns[f][r] # NotFinite

from_f64_column_matrix(c) ==
  IF ValidColumnar(c)
  THEN Ok(Buffer(c.names, c.obs,
                 [f \in DOMAIN c.names |-> [r \in DOMAIN c.obs |->
                    IF Shown(ColumnMask(c, f), r) THEN <<c.columns[f][r]>> ELSE << >>]]))
  ELSE Err

\* A missing cell is 0.0; there are masks only if some cell is missing.
to_f64_column_matrix(b) ==
  [names |-> b.names, obs |-> b.obs,
   columns |-> [f \in DOMAIN b.columns |-> [r \in DOMAIN b.obs |->
                  IF b.columns[f][r] = << >> THEN 0 ELSE b.columns[f][r][1]]],
   masks |-> IF \E f \in DOMAIN b.columns : \E r \in DOMAIN b.obs : b.columns[f][r] = << >>
             THEN <<[f \in DOMAIN b.columns |-> [r \in DOMAIN b.obs |-> b.columns[f][r] # << >>]]>>
             ELSE << >>]

-----------------------------------------------------------------------------
(* Blocks of features.  A view is a sequence of relations.                 *)

Block(names, obs, samples, values) ==
  [names |-> names, obs |-> obs, samples |-> samples, values |-> values]

\* selected_feature_indices does not refuse a column selected twice.
selected_feature_indices(names, columns) ==
  IF columns = << >> THEN Ok([i \in DOMAIN names |-> i])
  ELSE IF columns[1] # << >> /\ ToSet(columns[1]) \subseteq ToSet(names)
  THEN Ok([i \in DOMAIN columns[1] |-> IndexOf(names, columns[1][i])])
  ELSE Err

\* NumericFeatureBuffer::selected_indices.
selected_indices(names, columns) ==
  IF columns # << >> /\ ~ Unique(columns[1]) THEN Err
  ELSE selected_feature_indices(names, columns)

ObsIn(view) == [i \in DOMAIN view |-> view[i].obs]
SamplesIn(view) == [i \in DOMAIN view |-> view[i].sample]

\* CoordinatorDataHandleArena::feature_values, after the representation test:
\* the host's own JSON values, cloned.
feature_values(view, table, columns) ==
  LET chosen == selected_feature_indices(table.names, columns)
  IN IF /\ ValidFeatureTable(table) /\ IsOk(chosen)
        /\ ToSet(ObsIn(view)) \subseteq ToSet(ObsOf(table))
     THEN Ok(Block([i \in DOMAIN chosen[1] |-> table.names[chosen[1][i]]],
                   ObsIn(view), SamplesIn(view),
                   [k \in DOMAIN view |-> [i \in DOMAIN chosen[1] |->
                      table.rows[IndexOf(ObsOf(table), view[k].obs)].values[chosen[1][i]]]]))
     ELSE Err

OfSource(view, source) ==
  Kept(view, {n \in DOMAIN view : source = << >> \/ view[n].source = source})

\* project_relations, of the relations of one source if a source is given.
project_relations(b, view, source, columns) ==
  LET chosen == selected_indices(b.names, columns)
      rows == OfSource(view, source)
      cell(k, i) == b.columns[chosen[1][i]][IndexOf(b.obs, rows[k].obs)]
  IN IF ValidBuffer(b) /\ IsOk(chosen) /\ ToSet(ObsIn(rows)) \subseteq ToSet(b.obs)
     THEN Ok(Block([i \in DOMAIN chosen[1] |-> b.names[chosen[1][i]]],
                   ObsIn(rows), SamplesIn(rows),
                   [k \in DOMAIN rows |-> [i \in DOMAIN chosen[1] |-> FromCell(cell(k, i))]]))
     ELSE Err

\* project_relations_f64: flat values, and an error for a missing cell.
project_relations_f64(b, view, source, columns) ==
  LET block == project_relations(b, view, source, columns)
      n == Len(block[1].names)
  IN IF /\ IsOk(block)
        /\ \A k \in DOMAIN block[1].values : \A i \in 1..n : block[1].values[k][i] # Null
     THEN Ok([block[1] EXCEPT !.values =
                [c \in 1..(Len(@) * n) |-> @[((c - 1) \div n) + 1][((c - 1) % n) + 1].v]])
     ELSE Err

-----------------------------------------------------------------------------
(* Targets.                                                                *)

\* target_scalar_kind: a label is a string that is not blank (v # 0).
ScalarKind(value) ==
  IF IsNumber(value) THEN "number"
  ELSE IF value.kind = "string" /\ value.v # 0 THEN "label"
  ELSE "refused"

\* target_value_shape: <<kind, width>>, width 0 for a scalar.
target_value_shape(value) ==
  IF value.kind # "array" THEN <<ScalarKind(value), 0>>
  ELSE LET kinds == {ScalarKind(value.items[i]) : i \in DOMAIN value.items}
       IN <<IF Cardinality(kinds) = 1 THEN CHOOSE k \in kinds : TRUE ELSE "refused",
            Len(value.items)>>

TargetSamples(table) == [i \in DOMAIN table.values |-> table.values[i].sample]

\* CoordinatorTargetTable::validate.
ValidTargets(table) == table.values # << >> /\ Unique(TargetSamples(table))

\* CoordinatorTargetTable::validate_values.
validate_values(table) ==
  LET shape == [i \in DOMAIN table.values |-> target_value_shape(table.values[i].value)]
  IN /\ ValidTargets(table)
     /\ \A i \in DOMAIN shape : shape[i][1] # "refused" /\ shape[i] = shape[1]

\* Samples of the relations of the targets asked for; a relation without a
\* target counts for every one.
SamplesFor(view, targets) ==
  FirstOf(SamplesIn(Kept(view, {n \in DOMAIN view : \/ view[n].target = << >>
                                                    \/ view[n].target[1] \in targets})))

ValueOf(table, sample) == table.values[IndexOf(TargetSamples(table), sample)].value

target_values(view, table) ==
  LET samples == SamplesFor(view, {table.target})
  IN IF /\ validate_values(table) /\ samples # << >>
        /\ ToSet(samples) \subseteq ToSet(TargetSamples(table))
     THEN Ok([samples |-> samples,
              values |-> [i \in DOMAIN samples |-> ValueOf(table, samples[i])]])
     ELSE Err

\* Values of the target in the order of its own table.
MultiValue_by_position(table, samples, i) ==
  IF i \in DOMAIN table.values THEN table.values[i].value ELSE Null

MultiValue(table, samples, i) ==
  IF samples[i] \in ToSet(TargetSamples(table)) THEN ValueOf(table, samples[i]) ELSE Null

multi_target_values(view, tables) ==
  LET targets == [i \in DOMAIN tables |-> tables[i].target]
      samples == SamplesFor(view, ToSet(targets))
      values == [t \in DOMAIN tables |-> [i \in DOMAIN samples |->
                   MultiValue(tables[t], samples, i)]]
  IN IF /\ tables # << >> /\ Unique(targets) /\ samples # << >>
        /\ \A t \in DOMAIN tables : ValidTargets(tables[t])
     THEN Ok([samples |-> samples, values |-> values,
              masks |-> [t \in DOMAIN tables |-> [i \in DOMAIN samples |->
                           values[t][i].kind # "null"]]])
     ELSE Err
=============================================================================
