---------------------------- MODULE DataPathProofs ----------------------------
(***************************************************************************)
(* Theorems of the data path: targets, feature buffers, collation and      *)
(* fusion, for whatever jobs a host has.                                   *)
(***************************************************************************)
EXTENDS TensorProofs

(***************************************************************************)
(* Targets.                                                                *)
(***************************************************************************)

\* What is found in a list stands where it was found.
LEMMA Found ==
  ASSUME NEW q, NEW x \in ToSet(q)
  PROVE  IndexOf(q, x) \in DOMAIN q /\ q[IndexOf(q, x)] = x
<1>1. \E i \in DOMAIN q : q[i] = x
  BY DEF ToSet
<1> QED BY <1>1 DEF IndexOf

\* The relations that count for some targets.
Relevant(view, targets) ==
  {n \in DOMAIN view : view[n].target = << >> \/ view[n].target[1] \in targets}

\* The samples selected for some targets are those of the relations that count.
LEMMA SamplesForElements ==
  ASSUME NEW R, NEW view \in Seq(R), NEW targets
  PROVE  ToSet(SamplesFor(view, targets)) = {view[n].sample : n \in Relevant(view, targets)}
<1>1. PICK rows : rows = Kept(view, Relevant(view, targets))
  OBVIOUS
<1>2. rows \in Seq(R)
  BY <1>1, KeptTyped
<1>3. PICK W : W = {view[n].sample : n \in Relevant(view, targets)}
  OBVIOUS
<1>4. ToSet(rows) = {view[n] : n \in Relevant(view, targets)}
  <2>1. Relevant(view, targets) = DOMAIN view \cap Relevant(view, targets)
    BY DEF Relevant
  <2> QED BY <1>1, <2>1, KeptElements
<1>5. ToSet(SamplesIn(rows)) = W
  <2>1. ToSet(SamplesIn(rows)) = {rows[i].sample : i \in DOMAIN rows}
    BY DEF ToSet, SamplesIn
  <2>2. ToSet(SamplesIn(rows)) = {r.sample : r \in ToSet(rows)}
    BY <2>1 DEF ToSet
  <2> QED BY <1>3, <1>4, <2>2
<1>6. SamplesIn(rows) \in Seq(W)
  <2>1. PICK n \in Nat : DOMAIN rows = 1 .. n
    BY <1>2
  <2>2. \A i \in 1 .. n : rows[i].sample \in W
    BY <1>5, <2>1 DEF ToSet, SamplesIn
  <2>3. SamplesIn(rows) = [i \in 1 .. n |-> rows[i].sample]
    BY <2>1 DEF SamplesIn
  <2> QED BY <2>2, <2>3
<1>7. SamplesFor(view, targets) = FirstOf(SamplesIn(rows))
  BY <1>1 DEF SamplesFor, Relevant
<1> QED BY <1>3, <1>5, <1>6, <1>7, FirstOfElements

\* A call that succeeds has one result.
LEMMA SingleForm ==
  ASSUME NEW view, NEW table, IsOk(target_values(view, table))
  PROVE  target_values(view, table) = <<target_values(view, table)[1]>>
BY DEF target_values, IsOk, Ok

\* And so does one about all targets.
LEMMA MultiForm ==
  ASSUME NEW view, NEW tables, IsOk(multi_target_values(view, tables))
  PROVE  multi_target_values(view, tables) = <<multi_target_values(view, tables)[1]>>
BY DEF multi_target_values, IsOk, Ok

\* What a table of one shape answers: the values of the samples selected.
Answer(single, view, table) ==
  /\ validate_values(table)
  /\ single.samples = SamplesFor(view, {table.target})
  /\ DOMAIN single.values = DOMAIN single.samples
  /\ \A k \in DOMAIN single.samples : single.values[k] = ValueOf(table, single.samples[k])
  /\ ToSet(single.samples) \subseteq ToSet(TargetSamples(table))

\* It is what the call returns.
LEMMA SingleTarget ==
  ASSUME NEW view, NEW table, NEW single, target_values(view, table) = <<single>>
  PROVE  Answer(single, view, table)
<1>1. PICK samples : samples = SamplesFor(view, {table.target})
  OBVIOUS
<1>2. PICK b : b = [samples |-> samples,
                    values |-> [i \in DOMAIN samples |-> ValueOf(table, samples[i])]]
  OBVIOUS
<1>3. \/ target_values(view, table) = Err
      \/ /\ target_values(view, table) = <<b>> /\ validate_values(table)
         /\ ToSet(samples) \subseteq ToSet(TargetSamples(table))
  BY <1>1, <1>2 DEF target_values, Ok
<1>4. single = b
  BY <1>3 DEF Err
<1> QED BY <1>1, <1>2, <1>3, <1>4 DEF Err, Answer

\* The targets of some tables.
TargetsOf(tables) == {tables[t].target : t \in DOMAIN tables}

\* What the tables answer together.
LEMMA MultiTarget ==
  ASSUME NEW view, NEW tables, NEW multi, multi_target_values(view, tables) = <<multi>>
  PROVE  /\ multi.samples = SamplesFor(view, TargetsOf(tables))
         /\ \A t \in DOMAIN tables : \A i \in DOMAIN multi.samples :
              /\ multi.values[t][i] = MultiValue(tables[t], multi.samples, i)
              /\ multi.masks[t][i] <=> multi.values[t][i].kind # "null"
<1>1. PICK samples : samples = SamplesFor(view, TargetsOf(tables))
  OBVIOUS
<1>2. PICK values : values = [t \in DOMAIN tables |-> [i \in DOMAIN samples |->
                                MultiValue(tables[t], samples, i)]]
  OBVIOUS
<1>3. PICK b : b = [samples |-> samples, values |-> values,
                    masks |-> [t \in DOMAIN tables |-> [i \in DOMAIN samples |->
                                 values[t][i].kind # "null"]]]
  OBVIOUS
<1>4. ToSet([i \in DOMAIN tables |-> tables[i].target]) = TargetsOf(tables)
  BY DEF ToSet, TargetsOf
<1>5. \/ multi_target_values(view, tables) = Err
      \/ multi_target_values(view, tables) = <<b>>
  BY <1>1, <1>2, <1>3, <1>4 DEF multi_target_values, Ok
<1>6. multi = b
  BY <1>5 DEF Err
<1>7. multi.samples = samples /\ multi.values = values
  BY <1>3, <1>6
<1>8. ASSUME NEW t \in DOMAIN tables, NEW i \in DOMAIN samples
      PROVE  multi.values[t][i] = MultiValue(tables[t], samples, i)
  BY <1>2, <1>7
<1>9. ASSUME NEW t \in DOMAIN tables, NEW i \in DOMAIN samples
      PROVE  multi.masks[t][i] <=> values[t][i].kind # "null"
  <2>1. multi.masks[t] = [k \in DOMAIN samples |-> values[t][k].kind # "null"]
    BY <1>3, <1>6
  <2>2. multi.masks[t][i] = (values[t][i].kind # "null")
    BY <2>1, Zenon
  <2> QED BY <2>2
<1> QED BY <1>1, <1>7, <1>8, <1>9

\* A value that a table accepts is not null.
LEMMA AcceptedValue ==
  ASSUME NEW table, validate_values(table), NEW i \in DOMAIN table.values
  PROVE  /\ table.values[i].value.kind # "null"
         /\ target_value_shape(table.values[i].value)
              = target_value_shape(table.values[1].value)
<1>1. PICK v : v = table.values[i].value
  OBVIOUS
<1>2. PICK shape : shape = [k \in DOMAIN table.values |-> target_value_shape(table.values[k].value)]
  OBVIOUS
<1>3. shape[i][1] # "refused" /\ shape[i] = shape[1]
  BY <1>2 DEF validate_values
<1>4. 1 \in DOMAIN table.values
  BY DEF validate_values, ValidTargets
<1>5. v.kind # "null"
  <2>1. target_value_shape(v)[1] # "refused"
    BY <1>1, <1>2, <1>3
  <2>2. ASSUME v.kind = "null" PROVE FALSE
    <3>1. ScalarKind(v) = "refused"
      BY <2>2 DEF ScalarKind, IsNumber
    <3>2. target_value_shape(v) = <<"refused", 0>>
      BY <2>2, <3>1 DEF target_value_shape
    <3> QED BY <2>1, <3>2
  <2> QED BY <2>2
<1> QED BY <1>1, <1>2, <1>3, <1>4, <1>5

\* The value of the i-th sample of a table is found among those of all tables.
SameValue(single, multi, t, i) ==
  LET at == IndexOf(multi.samples, single.samples[i])
  IN /\ single.samples[i] \in ToSet(multi.samples)
     /\ multi.values[t][at] = single.values[i]
     /\ multi.masks[t][at]

\* The two routes to the value of a target agree, table by table.
LEMMA RoutesAgree ==
  ASSUME NEW R, NEW view \in Seq(R), NEW tables, NEW t \in DOMAIN tables,
         NEW single, target_values(view, tables[t]) = <<single>>,
         NEW multi, multi_target_values(view, tables) = <<multi>>,
         NEW i \in DOMAIN single.samples
  PROVE  SameValue(single, multi, t, i)
<1> DEFINE s == single.samples[i]
<1> HIDE DEF s
<1>1. PICK table, all : table = tables[t] /\ all = TargetsOf(tables)
  OBVIOUS
<1>2. /\ validate_values(table) /\ single.samples = SamplesFor(view, {table.target})
      /\ single.values[i] = ValueOf(table, s)
      /\ s \in ToSet(TargetSamples(table)) /\ s \in ToSet(single.samples)
  <2>1. /\ validate_values(table) /\ single.samples = SamplesFor(view, {table.target})
        /\ \A k \in DOMAIN single.samples : single.values[k] = ValueOf(table, single.samples[k])
        /\ ToSet(single.samples) \subseteq ToSet(TargetSamples(table))
    <3>1. Answer(single, view, table)
      BY <1>1, SingleTarget
    <3> QED BY <3>1 DEF Answer
  <2>2. s \in ToSet(single.samples)
    BY DEF ToSet, s
  <2> QED BY <2>1, <2>2 DEF s
<1>3. s \in ToSet(multi.samples)
  <2>1. multi.samples = SamplesFor(view, all)
    BY <1>1, MultiTarget
  <2>2. Relevant(view, {table.target}) \subseteq Relevant(view, all)
    BY <1>1 DEF Relevant, TargetsOf
  <2>3. s \in {view[n].sample : n \in Relevant(view, {table.target})}
    BY <1>2, SamplesForElements
  <2>4. s \in {view[n].sample : n \in Relevant(view, all)}
    BY <2>2, <2>3
  <2> QED BY <2>1, <2>4, SamplesForElements
<1>4. PICK at \in DOMAIN multi.samples : at = IndexOf(multi.samples, s) /\ multi.samples[at] = s
  BY <1>3, Found
<1>5. multi.values[t][at] = ValueOf(table, s)
  <2>1. multi.values[t][at] = MultiValue(table, multi.samples, at)
    BY <1>1, MultiTarget
  <2> QED BY <1>2, <1>4, <2>1 DEF MultiValue
<1>6. ValueOf(table, s).kind # "null"
  <2>1. IndexOf(TargetSamples(table), s) \in DOMAIN table.values
    BY <1>2, Found DEF TargetSamples
  <2> QED BY <1>2, <2>1, AcceptedValue DEF ValueOf
<1>7. multi.masks[t][at]
  BY <1>5, <1>6, MultiTarget
<1> QED BY <1>2, <1>3, <1>4, <1>5, <1>7 DEF SameValue, s

\* What the tables answer together as valid stands in the table.
LEMMA MultiKnown ==
  ASSUME NEW view, NEW tables, NEW t \in DOMAIN tables,
         NEW multi, multi_target_values(view, tables) = <<multi>>,
         NEW i \in DOMAIN multi.samples, multi.masks[t][i]
  PROVE  \E v \in DOMAIN tables[t].values :
           /\ tables[t].values[v].sample = multi.samples[i]
           /\ tables[t].values[v].value = multi.values[t][i]
<1>1. PICK table, s : table = tables[t] /\ s = multi.samples[i]
  OBVIOUS
<1>2. /\ multi.values[t][i] = MultiValue(table, multi.samples, i)
      /\ multi.values[t][i].kind # "null"
  BY <1>1, MultiTarget
<1>3. s \in ToSet(TargetSamples(table)) /\ multi.values[t][i] = ValueOf(table, s)
  BY <1>1, <1>2 DEF MultiValue, Null, Json
<1>4. PICK v \in DOMAIN TargetSamples(table) :
        v = IndexOf(TargetSamples(table), s) /\ TargetSamples(table)[v] = s
  BY <1>3, Found
<1>5. v \in DOMAIN table.values /\ table.values[v].sample = s
  BY <1>4 DEF TargetSamples
<1> QED BY <1>1, <1>3, <1>4, <1>5 DEF ValueOf

\* The values of a table that a view selects are of one kind and width.
LEMMA OneShape ==
  ASSUME NEW view, NEW table, NEW single, target_values(view, table) = <<single>>,
         NEW i \in DOMAIN single.values
  PROVE  target_value_shape(single.values[i])
           = target_value_shape(table.values[1].value)
<1>1. /\ validate_values(table)
      /\ DOMAIN single.values = DOMAIN single.samples
      /\ \A k \in DOMAIN single.samples : single.values[k] = ValueOf(table, single.samples[k])
      /\ ToSet(single.samples) \subseteq ToSet(TargetSamples(table))
  <2>1. Answer(single, view, table)
    BY SingleTarget
  <2> QED BY <2>1 DEF Answer
<1>2. i \in DOMAIN single.samples /\ single.values[i] = ValueOf(table, single.samples[i])
  BY <1>1
<1>3. single.samples[i] \in ToSet(TargetSamples(table))
  BY <1>1, <1>2 DEF ToSet
<1>4. IndexOf(TargetSamples(table), single.samples[i]) \in DOMAIN table.values
  BY <1>3, Found DEF TargetSamples
<1> QED BY <1>1, <1>2, <1>4, AcceptedValue DEF ValueOf

(***************************************************************************)
(* Feature tables and buffers.                                             *)
(***************************************************************************)

\* A cell as JSON has it.
JsonCell(cell) ==
  Numeric(cell) => \/ cell = Null
                   \/ /\ cell = Json(cell.kind, cell.v) /\ IsNumber(cell)
                      /\ as_f64(cell) # NotFinite

\* A source as a host may hold it: FeaturesAssumption.
HostSource(s) ==
  /\ s.names \in Seq(ToSet(s.names)) /\ s.obs \in Seq(ToSet(s.obs))
  /\ s.rows \in Seq(ToSet(s.rows)) /\ Len(s.rows) = Len(s.obs)
  /\ \A r \in DOMAIN s.rows :
       /\ s.rows[r] \in Seq(ToSet(s.rows[r]))
       /\ \A f \in DOMAIN s.rows[r] : JsonCell(s.rows[r][f])

\* The lists of a source that a host holds are numbered from 1.
LEMMA HostLists ==
  ASSUME NEW s, HostSource(s)
  PROVE  \E N \in Nat, w \in Nat : /\ N = Len(s.obs) /\ w = Len(s.names)
                                    /\ DOMAIN s.obs = 1 .. N /\ DOMAIN s.names = 1 .. w
                                    /\ DOMAIN s.rows = 1 .. N
<1>1. /\ s.names \in Seq(ToSet(s.names)) /\ s.obs \in Seq(ToSet(s.obs))
      /\ s.rows \in Seq(ToSet(s.rows)) /\ Len(s.rows) = Len(s.obs)
  BY DEF HostSource
<1>2. /\ Len(s.names) \in Nat /\ DOMAIN s.names = 1 .. Len(s.names)
      /\ Len(s.obs) \in Nat /\ DOMAIN s.obs = 1 .. Len(s.obs)
      /\ DOMAIN s.rows = 1 .. Len(s.rows)
  BY <1>1
<1> QED BY <1>1, <1>2, Zenon

\* Every row has a cell for each feature.
Rectangular(s) == \A r \in DOMAIN s.rows : Len(s.rows[r]) = Len(s.names)

\* The cell that a host shows as a number of its own.
ShownCell(cell) == IF Shows(cell) = 1 THEN <<F64(cell)>> ELSE << >>

\* A JSON cell that is a number or null is shown as what the table route makes
\* of it, and is finite.
LEMMA ShownIsCell ==
  ASSUME NEW cell, Numeric(cell), JsonCell(cell)
  PROVE  /\ ShownCell(cell) = Cell(cell)
         /\ Shows(cell) = 1 => F64(cell) # NotFinite
<1>1. cell = Null \/ (IsNumber(cell) /\ as_f64(cell) # NotFinite)
  BY DEF JsonCell
<1>2. CASE cell = Null
  <2>1. cell.kind = "null"
    BY <1>2 DEF Null, Json
  <2> QED BY <2>1 DEF ShownCell, Cell, Shows, IsNumber
<1>3. CASE IsNumber(cell) /\ as_f64(cell) # NotFinite
  <2>1. cell.kind # "null"
    BY <1>3 DEF IsNumber
  <2>2. Shows(cell) = 1 /\ F64(cell) = as_f64(cell) /\ Cell(cell) = <<as_f64(cell)>>
    BY <1>3, <2>1 DEF Shows, F64, Cell
  <2> QED BY <1>3, <2>2 DEF ShownCell
<1> QED BY <1>1, <1>2, <1>3

\* What the buffer of a source holds.
CellsOf(s) ==
  [f \in DOMAIN s.names |-> [r \in DOMAIN s.obs |-> ShownCell(s.rows[r][f])]]

\* What the two routes by views make of a source.
FiniteCells(s) ==
  \A r \in DOMAIN s.obs : \A f \in DOMAIN s.names :
    Shows(s.rows[r][f]) = 1 => F64(s.rows[r][f]) # NotFinite

HostBuffer(s) ==
  IF ValidShape(s.names, s.obs) /\ FiniteCells(s)
  THEN Ok(Buffer(s.names, s.obs, CellsOf(s))) ELSE Err

\* A mask of n bytes as Booleans.
Bits(m, n) == [i \in 1 .. n |-> m[i] = 1]

\* A mask of bytes that are 0 or 1 is accepted; an empty one is no mask.
LEMMA MaskTaken ==
  ASSUME NEW m, NEW n \in Nat, m = [i \in 1 .. n |-> m[i]], \A i \in 1 .. n : m[i] \in {0, 1}
  PROVE  u8_validity_mask_to_vec(<<m>>) =
           IF n = 0 THEN <<<< >>>> ELSE <<<<Bits(m, n)>>>>
<1>1. <<m>> # << >> /\ DOMAIN m = 1 .. n
  OBVIOUS
<1>2. ToSet(m) \subseteq {0, 1}
  BY <1>1 DEF ToSet
<1>3. CASE n = 0
  <2>1. m = << >>
    BY <1>3
  <2> QED BY <1>3, <2>1 DEF u8_validity_mask_to_vec, Ok
<1>4. CASE n # 0
  <2>1. m # << >>
    BY <1>1, <1>4
  <2>2. <<m>> # <<<< >>>>
    BY <2>1
  <2>3. [i \in DOMAIN m |-> m[i] = 1] = Bits(m, n)
    BY <1>1 DEF Bits
  <2>4. u8_validity_mask_to_vec(<<m>>) = <<<<[i \in DOMAIN m |-> m[i] = 1]>>>>
    BY <1>1, <1>2, <2>2 DEF u8_validity_mask_to_vec, Ok
  <2> QED BY <1>4, <2>3, <2>4
<1> QED BY <1>3, <1>4

\* A row-major view of the N observations and w features of a source.
IsMatrix(m, s, N, w) ==
  /\ m.names = s.names /\ m.obs = s.obs
  /\ m.values = [i \in 1 .. N * w |-> m.values[i]]
  /\ m.mask = <<m.mask[1]>>
  /\ m.mask[1] = [i \in 1 .. N * w |-> m.mask[1][i]]
  /\ \A r \in 1 .. N, f \in 1 .. w :
       /\ (r - 1) * w + f \in 1 .. N * w
       /\ m.values[(r - 1) * w + f] = F64(s.rows[r][f])
       /\ m.mask[1][(r - 1) * w + f] = Shows(s.rows[r][f])

\* It is the view that a host passes.
LEMMA MatrixCells ==
  ASSUME NEW s, HostSource(s), Rectangular(s),
         NEW N \in Nat, N = Len(s.obs), NEW w \in Nat, w = Len(s.names)
  PROVE  IsMatrix(MatrixView(s), s, N, w)
<1>1. PICK rows, cells : rows = s.rows /\ cells = FlattenSeq(rows)
  OBVIOUS
<1>2. rows = [k \in 1 .. N |-> rows[k]]
  BY <1>1 DEF HostSource
<1>3. ASSUME NEW k \in 1 .. N PROVE rows[k] = [c \in 1 .. w |-> rows[k][c]]
  <2>1. k \in DOMAIN rows
    BY <1>2
  <2>2. rows[k] \in Seq(ToSet(rows[k])) /\ Len(rows[k]) = w
    BY <1>1, <2>1 DEF HostSource, Rectangular
  <2>3. rows[k] \in [1 .. w -> ToSet(rows[k])]
    BY <2>2, ListLength
  <2> QED BY <2>3
<1>4. IsTable(cells, rows, N, w)
  BY <1>1, <1>2, <1>3, FlattenTable, ZenonT(60)
<1>5. DOMAIN cells = 1 .. N * w
  BY <1>4 DEF IsTable
<1>6. PICK values, mask : /\ values = [i \in 1 .. N * w |-> F64(cells[i])]
                          /\ mask = [i \in 1 .. N * w |-> Shows(cells[i])]
  OBVIOUS
<1>7. MatrixView(s) = [names |-> s.names, obs |-> s.obs, values |-> values, mask |-> <<mask>>]
  BY <1>1, <1>5, <1>6 DEF MatrixView
<1>8. \A r \in 1 .. N, f \in 1 .. w :
        /\ (r - 1) * w + f \in 1 .. N * w
        /\ values[(r - 1) * w + f] = F64(s.rows[r][f])
        /\ mask[(r - 1) * w + f] = Shows(s.rows[r][f])
  BY <1>1, <1>4, <1>6 DEF IsTable
<1>9. values = [i \in 1 .. N * w |-> values[i]] /\ mask = [i \in 1 .. N * w |-> mask[i]]
  BY <1>6
<1>10. PICK m : m = MatrixView(s)
  OBVIOUS
<1>11. m.names = s.names /\ m.obs = s.obs /\ m.values = values /\ m.mask = <<mask>>
  BY <1>7, <1>10
<1>12. IsMatrix(m, s, N, w)
  <2>1. m.mask[1] = mask /\ m.mask = <<m.mask[1]>>
    BY <1>11
  <2>2. m.values = [i \in 1 .. N * w |-> m.values[i]]
    BY <1>9, <1>11
  <2>3. m.mask[1] = [i \in 1 .. N * w |-> m.mask[1][i]]
    BY <1>9, <2>1
  <2>4. \A r \in 1 .. N, f \in 1 .. w :
          /\ (r - 1) * w + f \in 1 .. N * w
          /\ m.values[(r - 1) * w + f] = F64(s.rows[r][f])
          /\ m.mask[1][(r - 1) * w + f] = Shows(s.rows[r][f])
    BY <1>8, <1>11, <2>1
  <2> QED BY <1>11, <2>1, <2>2, <2>3, <2>4 DEF IsMatrix
<1> QED BY <1>10, <1>12

\* A mask of a view marks the cells that the host shows.
LEMMA ShowsBit ==
  ASSUME NEW cell
  PROVE  Shows(cell) \in {0, 1}
BY DEF Shows

\* What is taken in by a row-major view.
LEMMA MatrixBuffer ==
  ASSUME NEW s, HostSource(s), Rectangular(s)
  PROVE  FromMatrix(MatrixView(s)) = HostBuffer(s)
<1>1. PICK N \in Nat, w \in Nat : /\ N = Len(s.obs) /\ w = Len(s.names)
                                  /\ DOMAIN s.obs = 1 .. N /\ DOMAIN s.names = 1 .. w
  BY DEF HostSource
<1>2. PICK m : m = MatrixView(s)
  OBVIOUS
<1>3. IsMatrix(m, s, N, w)
  BY <1>1, <1>2, MatrixCells
<1>4. PICK M \in Nat : M = N * w
  OBVIOUS
<1>5. PICK mask : mask = m.mask[1]
  OBVIOUS
<1>6. /\ mask = [i \in 1 .. M |-> mask[i]]
      /\ m.values = [i \in 1 .. M |-> m.values[i]] /\ m.mask = <<mask>>
      /\ m.names = s.names /\ m.obs = s.obs
  BY <1>3, <1>4, <1>5 DEF IsMatrix
<1>7. \A r \in 1 .. N, f \in 1 .. w :
        /\ (r - 1) * w + f \in 1 .. M
        /\ m.values[(r - 1) * w + f] = F64(s.rows[r][f])
        /\ mask[(r - 1) * w + f] = Shows(s.rows[r][f])
  BY <1>3, <1>4, <1>5 DEF IsMatrix
<1>8. ASSUME NEW c \in 1 .. M
      PROVE  \E r \in 1 .. N, f \in 1 .. w : (r - 1) * w + f = c
  <2>1. PICK q, k : q = (c - 1) \div w /\ k = (c - 1) % w
    OBVIOUS
  <2>2. q + 1 \in 1 .. N /\ k + 1 \in 1 .. w /\ q * w + (k + 1) = c /\ w # 0
    BY <1>4, <2>1, GridPlace
  <2>3. q \in Int
    BY <2>1, <2>2
  <2>4. (q + 1) - 1 = q
    BY <2>3
  <2> QED BY <2>2, <2>4
<1>9. \A i \in 1 .. M : mask[i] \in {0, 1}
  BY <1>7, <1>8, ShowsBit, ZenonT(60)
<1>10. CASE ~ ValidShape(s.names, s.obs)
  <2>1. HostBuffer(s) = Err
    BY <1>10 DEF HostBuffer
  <2>2. \A core : core.names = s.names /\ core.obs = s.obs => from_f64_matrix(core) = Err
    BY <1>10 DEF from_f64_matrix, ValidMatrix
  <2>3. \/ f64_feature_matrix_view_to_core(m) = Err
        \/ /\ f64_feature_matrix_view_to_core(m)[1].names = s.names
           /\ f64_feature_matrix_view_to_core(m)[1].obs = s.obs
    BY <1>6 DEF f64_feature_matrix_view_to_core, Ok
  <2> QED BY <1>2, <2>1, <2>2, <2>3 DEF FromMatrix, IsOk
<1>11. CASE ValidShape(s.names, s.obs)
  <2>1. N # 0 /\ w # 0
    BY <1>1, <1>11 DEF ValidShape, HostSource
  <2>2. M # 0
    BY <1>4, <2>1
  <2>3. PICK shown : shown = Bits(mask, M)
    OBVIOUS
  <2>4. u8_validity_mask_to_vec(m.mask) = <<<<shown>>>>
    BY <1>6, <1>9, <2>2, <2>3, MaskTaken
  <2>5. PICK core : core = [names |-> s.names, obs |-> s.obs, values |-> m.values, mask |-> <<shown>>]
    OBVIOUS
  <2>6. f64_feature_matrix_view_to_core(m) = <<core>>
    <3>1. PICK taken : taken = u8_validity_mask_to_vec(m.mask)
      OBVIOUS
    <3>2. taken # << >> /\ taken[1] = <<shown>>
      BY <2>4, <3>1
    <3>3. f64_feature_matrix_view_to_core(m)
            = <<[names |-> m.names, obs |-> m.obs, values |-> m.values, mask |-> taken[1]]>>
      BY <3>1, <3>2 DEF f64_feature_matrix_view_to_core, IsOk, Err, Ok
    <3> QED BY <1>6, <2>5, <3>2, <3>3
  <2>7. FromMatrix(m) = from_f64_matrix(core)
    BY <2>6 DEF FromMatrix, IsOk, Err
  <2>8. ASSUME NEW i \in 1 .. M PROVE Shown(core.mask, i) <=> mask[i] = 1
    <3>1. shown[i] = (mask[i] = 1)
      BY <2>3, Zenon DEF Bits
    <3>2. core.mask # << >> /\ core.mask[1] = shown
      BY <2>5
    <3> QED BY <3>1, <3>2 DEF Shown
  <2>9. ValidMatrix(core) <=> FiniteCells(s)
    <3>1. /\ Len(core.values) = M /\ Len(core.mask[1]) = M /\ core.mask # << >>
          /\ Len(core.names) = w /\ Len(core.obs) = N
      <4>1. core.values = [i \in 1 .. M |-> m.values[i]] /\ core.mask[1] = shown
        BY <1>6, <2>5
      <4>2. Len(core.values) = M /\ Len(core.mask[1]) = M
        BY <2>3, <4>1 DEF Bits
      <4> QED BY <1>1, <2>5, <4>2
    <3>2. ValidMatrix(core) <=> \A i \in 1 .. M : Shown(core.mask, i) => core.values[i] # NotFinite
      <4>1. Len(core.names) * Len(core.obs) = M
        BY <1>4, <3>1
      <4>2. ValidShape(core.names, core.obs)
        BY <1>11, <2>5
      <4> QED BY <3>1, <4>1, <4>2 DEF ValidMatrix
    <3>3. ValidMatrix(core) <=> \A i \in 1 .. M : mask[i] = 1 => m.values[i] # NotFinite
      BY <2>5, <2>8, <3>2
    <3>4. FiniteCells(s) <=> \A r \in 1 .. N : \A f \in 1 .. w :
            mask[(r - 1) * w + f] = 1 => m.values[(r - 1) * w + f] # NotFinite
      <4>1. FiniteCells(s) <=> \A r \in 1 .. N : \A f \in 1 .. w :
               Shows(s.rows[r][f]) = 1 => F64(s.rows[r][f]) # NotFinite
        BY <1>1 DEF FiniteCells
      <4>2. \A r \in 1 .. N : \A f \in 1 .. w :
              /\ m.values[(r - 1) * w + f] = F64(s.rows[r][f])
              /\ mask[(r - 1) * w + f] = Shows(s.rows[r][f])
        BY <1>7
      <4> QED BY <4>1, <4>2, Zenon
    <3> QED BY <1>7, <1>8, <3>3, <3>4, ZenonT(60)
  <2>10. ASSUME NEW f \in 1 .. w, NEW r \in 1 .. N
         PROVE  (IF Shown(core.mask, Flat(core, r, f))
                 THEN <<core.values[Flat(core, r, f)]>> ELSE << >>)
                  = ShownCell(s.rows[r][f])
    <3>1. Flat(core, r, f) = (r - 1) * w + f
      BY <1>1, <2>5 DEF Flat
    <3>2. Flat(core, r, f) \in 1 .. M
      BY <1>7, <3>1
    <3>3. Shown(core.mask, Flat(core, r, f)) <=> Shows(s.rows[r][f]) = 1
      BY <1>7, <2>8, <3>1, <3>2
    <3>4. core.values[Flat(core, r, f)] = F64(s.rows[r][f])
      BY <1>7, <2>5, <3>1
    <3> QED BY <3>3, <3>4 DEF ShownCell
  <2>11. from_f64_matrix(core) =
           IF ValidMatrix(core) THEN Ok(Buffer(s.names, s.obs, CellsOf(s))) ELSE Err
    <3>1. [f \in 1 .. w |-> [r \in 1 .. N |->
             IF Shown(core.mask, Flat(core, r, f))
             THEN <<core.values[Flat(core, r, f)]>> ELSE << >>]]
            = [f \in 1 .. w |-> [r \in 1 .. N |-> ShownCell(s.rows[r][f])]]
      BY <2>10
    <3>2. core.names = s.names /\ core.obs = s.obs
      BY <2>5
    <3> QED BY <1>1, <3>1, <3>2 DEF from_f64_matrix, CellsOf
  <2> QED BY <1>2, <1>11, <2>7, <2>9, <2>11 DEF HostBuffer
<1> QED BY <1>10, <1>11

\* What is taken in by views of columns.
LEMMA ColumnsBuffer ==
  ASSUME NEW s, HostSource(s)
  PROVE  FromColumns(ColumnsView(s)) = HostBuffer(s)
<1>1. PICK N \in Nat, w \in Nat : /\ N = Len(s.obs) /\ w = Len(s.names)
                                  /\ DOMAIN s.obs = 1 .. N /\ DOMAIN s.names = 1 .. w
  BY DEF HostSource
<1>2. PICK values, bytes, bits :
        /\ values = [f \in 1 .. w |-> [r \in 1 .. N |-> F64(s.rows[r][f])]]
        /\ bytes = [f \in 1 .. w |-> [r \in 1 .. N |-> Shows(s.rows[r][f])]]
        /\ bits = [f \in 1 .. w |-> Bits(bytes[f], N)]
  OBVIOUS
<1>3. PICK v : v = ColumnsView(s)
  OBVIOUS
<1>4. /\ v.names = s.names /\ v.obs = s.obs
      /\ v.columns = [f \in 1 .. w |-> [values |-> values[f], mask |-> <<bytes[f]>>]]
  <2>1. v.columns = [f \in 1 .. w |-> [values |-> [r \in 1 .. N |-> F64(s.rows[r][f])],
                                       mask |-> <<[r \in 1 .. N |-> Shows(s.rows[r][f])]>>]]
    BY <1>1, <1>3 DEF ColumnsView
  <2>2. \A f \in 1 .. w : values[f] = [r \in 1 .. N |-> F64(s.rows[r][f])]
    BY <1>2
  <2>3. \A f \in 1 .. w : bytes[f] = [r \in 1 .. N |-> Shows(s.rows[r][f])]
    BY <1>2
  <2> QED BY <1>3, <2>1, <2>2, <2>3 DEF ColumnsView
<1>5. CASE ~ ValidShape(s.names, s.obs)
  <2>1. HostBuffer(s) = Err
    BY <1>5 DEF HostBuffer
  <2>2. \A core : core.names = s.names /\ core.obs = s.obs => from_f64_column_matrix(core) = Err
    BY <1>5 DEF from_f64_column_matrix, ValidColumnar
  <2>3. \/ f64_feature_matrix_columnar_view_to_core(v) = Err
        \/ /\ f64_feature_matrix_columnar_view_to_core(v)[1].names = s.names
           /\ f64_feature_matrix_columnar_view_to_core(v)[1].obs = s.obs
    BY <1>4 DEF f64_feature_matrix_columnar_view_to_core, Ok
  <2> QED BY <1>3, <2>1, <2>2, <2>3 DEF FromColumns, IsOk
<1>6. CASE ValidShape(s.names, s.obs)
  <2>1. N # 0 /\ w # 0
    BY <1>1, <1>6 DEF ValidShape, HostSource
  <2>2. PICK mask : mask = [f \in 1 .. w |-> u8_validity_mask_to_vec(v.columns[f].mask)]
    OBVIOUS
  <2>3. ASSUME NEW f \in 1 .. w
        PROVE  mask[f] = <<<<bits[f]>>>> /\ Len(bits[f]) = N /\ Len(values[f]) = N
    <3>1. PICK byte : byte = bytes[f]
      OBVIOUS
    <3>2. byte = [r \in 1 .. N |-> byte[r]] /\ \A r \in 1 .. N : byte[r] \in {0, 1}
      BY <1>2, <3>1, ShowsBit
    <3>3. u8_validity_mask_to_vec(<<byte>>) = <<<<Bits(byte, N)>>>>
      BY <2>1, <3>2, MaskTaken
    <3>4. v.columns[f].mask = <<byte>> /\ bits[f] = Bits(byte, N)
      <4>1. v.columns[f] = [values |-> values[f], mask |-> <<bytes[f]>>]
        BY <1>4
      <4>2. bits[f] = Bits(bytes[f], N)
        BY <1>2
      <4> QED BY <3>1, <4>1, <4>2
    <3>5. mask[f] = u8_validity_mask_to_vec(v.columns[f].mask)
      BY <2>2
    <3>6. Len(Bits(byte, N)) = N
      BY DEF Bits
    <3>7. Len(values[f]) = N
      BY <1>2
    <3> QED BY <3>3, <3>4, <3>5, <3>6, <3>7
  <2>4. PICK core : core = [names |-> s.names, obs |-> s.obs, columns |-> values, masks |-> <<bits>>]
    OBVIOUS
  <2>5. f64_feature_matrix_columnar_view_to_core(v) = <<core>>
    <3>1. DOMAIN v.columns = 1 .. w /\ DOMAIN mask = 1 .. w
      BY <1>4, <2>2
    <3>2. \A f \in 1 .. w : /\ mask[f] # << >> /\ mask[f][1] = <<bits[f]>> /\ mask[f][1] # << >>
                            /\ mask[f][1][1] = bits[f]
      BY <2>3
    <3>3. ~ \A f \in DOMAIN mask : mask[f][1] = << >>
      BY <2>1, <3>1, <3>2
    <3>4. \A f \in DOMAIN mask : /\ mask[f][1] # << >>
                                 /\ Len(mask[f][1][1]) = Len(v.columns[f].values)
      <4>1. ASSUME NEW f \in 1 .. w PROVE v.columns[f].values = values[f]
        BY <1>4
      <4> QED BY <2>3, <3>1, <3>2, <4>1
    <3>5. [f \in 1 .. w |-> v.columns[f].values] = values
      <4>1. ASSUME NEW f \in 1 .. w PROVE v.columns[f].values = values[f]
        BY <1>4
      <4>2. values = [f \in 1 .. w |-> values[f]]
        BY <1>2
      <4> QED BY <4>1, <4>2
    <3>6. [f \in 1 .. w |-> mask[f][1][1]] = bits
      <4>1. bits = [f \in 1 .. w |-> bits[f]]
        BY <1>2
      <4> QED BY <3>2, <4>1
    <3>7. mask = [f \in DOMAIN v.columns |-> u8_validity_mask_to_vec(v.columns[f].mask)]
      BY <2>2, <3>1
    <3>8. f64_feature_matrix_columnar_view_to_core(v) =
            <<[names |-> v.names, obs |-> v.obs,
               columns |-> [f \in DOMAIN v.columns |-> v.columns[f].values],
               masks |-> <<[f \in DOMAIN mask |-> mask[f][1][1]]>>]>>
      BY <3>1, <3>2, <3>3, <3>4, <3>7 DEF f64_feature_matrix_columnar_view_to_core, IsOk, Err, Ok
    <3> QED BY <1>4, <2>4, <3>1, <3>5, <3>6, <3>8
  <2>6. FromColumns(v) = from_f64_column_matrix(core)
    BY <2>5 DEF FromColumns, IsOk, Err
  <2>7. /\ core.names = s.names /\ core.obs = s.obs /\ core.columns = values
        /\ core.masks = <<bits>> /\ core.masks # << >> /\ core.masks[1] = bits
    BY <2>4
  <2>8. ASSUME NEW f \in 1 .. w, NEW r \in 1 .. N
        PROVE  /\ Shown(ColumnMask(core, f), r) <=> Shows(s.rows[r][f]) = 1
               /\ core.columns[f][r] = F64(s.rows[r][f])
    <3>1. ColumnMask(core, f) = <<bits[f]>>
      BY <2>7 DEF ColumnMask
    <3>2. bits[f][r] = (bytes[f][r] = 1)
      <4>1. bits[f] = Bits(bytes[f], N)
        BY <1>2
      <4> QED BY <4>1, Zenon DEF Bits
    <3>3. bytes[f][r] = Shows(s.rows[r][f])
      BY <1>2
    <3>4. ColumnMask(core, f) # << >> /\ ColumnMask(core, f)[1] = bits[f]
      BY <3>1
    <3>5. core.columns[f][r] = F64(s.rows[r][f])
      BY <1>2, <2>7
    <3> QED BY <3>2, <3>3, <3>4, <3>5 DEF Shown
  <2>9. ValidColumnar(core) <=> FiniteCells(s)
    <3>1. FiniteCells(s) <=> \A f \in 1 .. w : \A r \in 1 .. N :
             Shows(s.rows[r][f]) = 1 => F64(s.rows[r][f]) # NotFinite
      BY <1>1 DEF FiniteCells
    <3>2. /\ Len(core.columns) = w /\ DOMAIN core.columns = 1 .. w
          /\ Len(core.masks[1]) = w
      BY <1>2, <2>7
    <3>3. \A f \in 1 .. w : Len(core.columns[f]) = N /\ Len(core.masks[1][f]) = N
      BY <2>3, <2>7
    <3>4. ValidColumnar(core) <=> \A f \in 1 .. w : \A r \in 1 .. N :
             Shown(ColumnMask(core, f), r) => core.columns[f][r] # NotFinite
      BY <1>1, <1>6, <2>7, <3>2, <3>3 DEF ValidColumnar
    <3> QED BY <2>8, <3>1, <3>4
  <2>10. from_f64_column_matrix(core) =
           IF ValidColumnar(core) THEN Ok(Buffer(s.names, s.obs, CellsOf(s))) ELSE Err
    <3>1. ASSUME NEW f \in 1 .. w, NEW r \in 1 .. N
          PROVE  (IF Shown(ColumnMask(core, f), r) THEN <<core.columns[f][r]>> ELSE << >>)
                   = ShownCell(s.rows[r][f])
      BY <2>8 DEF ShownCell
    <3>2. [f \in 1 .. w |-> [r \in 1 .. N |->
             IF Shown(ColumnMask(core, f), r) THEN <<core.columns[f][r]>> ELSE << >>]]
            = [f \in 1 .. w |-> [r \in 1 .. N |-> ShownCell(s.rows[r][f])]]
      BY <3>1
    <3> QED BY <1>1, <2>7, <3>2 DEF from_f64_column_matrix, CellsOf
  <2> QED BY <1>3, <1>6, <2>6, <2>9, <2>10 DEF HostBuffer
<1> QED BY <1>5, <1>6

\* What is taken in as a table of JSON values.
LEMMA TableBuffer ==
  ASSUME NEW s, HostSource(s), IsOk(from_feature_table(HostTable(s)))
  PROVE  /\ Rectangular(s) /\ ValidShape(s.names, s.obs)
         /\ \A r \in DOMAIN s.obs : \A f \in DOMAIN s.names : Numeric(s.rows[r][f])
         /\ ValidFeatureTable(HostTable(s)) /\ ObsOf(HostTable(s)) = s.obs
         /\ from_feature_table(HostTable(s)) = HostBuffer(s)
         /\ HostBuffer(s) = <<Buffer(s.names, s.obs, CellsOf(s))>>
<1>1. PICK N \in Nat, w \in Nat : /\ N = Len(s.obs) /\ w = Len(s.names)
                                  /\ DOMAIN s.obs = 1 .. N /\ DOMAIN s.names = 1 .. w
                                  /\ DOMAIN s.rows = 1 .. N
                                  /\ s.obs = [r \in 1 .. N |-> s.obs[r]]
  <2>1. s.obs \in Seq(ToSet(s.obs)) /\ s.names \in Seq(ToSet(s.names))
    BY DEF HostSource
  <2>2. s.rows \in Seq(ToSet(s.rows)) /\ Len(s.rows) = Len(s.obs)
    BY DEF HostSource
  <2>3. PICK N \in Nat, w \in Nat : N = Len(s.obs) /\ w = Len(s.names)
    BY <2>1
  <2>4. DOMAIN s.obs = 1 .. N /\ DOMAIN s.names = 1 .. w /\ DOMAIN s.rows = 1 .. N
    BY <2>1, <2>2, <2>3
  <2>5. s.obs = [r \in 1 .. N |-> s.obs[r]]
    BY <2>1, <2>3
  <2> QED BY <2>3, <2>4, <2>5
<1>2. PICK t : t = HostTable(s)
  OBVIOUS
<1>3. /\ t.names = s.names /\ DOMAIN t.rows = 1 .. N
      /\ \A r \in 1 .. N : t.rows[r].obs = s.obs[r] /\ t.rows[r].values = s.rows[r]
  BY <1>1, <1>2 DEF HostTable
<1>4. ObsOf(t) = s.obs
  BY <1>1, <1>3 DEF ObsOf
<1>5. /\ ValidFeatureTable(t)
      /\ \A r \in DOMAIN t.rows : \A f \in DOMAIN t.names : Numeric(t.rows[r].values[f])
  BY <1>2 DEF from_feature_table, IsOk
<1>6. Rectangular(s) /\ ValidShape(s.names, s.obs)
  <2>1. /\ ValidShape(t.names, ObsOf(t))
        /\ \A r \in DOMAIN t.rows : Len(t.rows[r].values) = Len(t.names)
    BY <1>5, Zenon DEF ValidFeatureTable
  <2>2. ASSUME NEW r \in DOMAIN s.rows PROVE Len(s.rows[r]) = Len(s.names)
    <3>1. r \in 1 .. N
      BY <1>1
    <3> QED BY <1>3, <2>1, <3>1, Zenon
  <2> QED BY <1>3, <1>4, <2>1, <2>2, ZenonT(60) DEF Rectangular
<1>7. ASSUME NEW r \in 1 .. N, NEW f \in 1 .. w PROVE Numeric(s.rows[r][f])
  <2>1. r \in DOMAIN t.rows /\ f \in DOMAIN t.names
    BY <1>1, <1>3
  <2>2. Numeric(t.rows[r].values[f])
    BY <1>5, <2>1
  <2>3. t.rows[r].values = s.rows[r]
    BY <1>3
  <2> QED BY <2>2, <2>3
<1>8. ASSUME NEW r \in 1 .. N, NEW f \in 1 .. w
      PROVE  /\ ShownCell(s.rows[r][f]) = Cell(s.rows[r][f])
             /\ Shows(s.rows[r][f]) = 1 => F64(s.rows[r][f]) # NotFinite
  <2>1. f \in DOMAIN s.rows[r] /\ Numeric(s.rows[r][f])
    <3>1. s.rows[r] \in Seq(ToSet(s.rows[r])) /\ Len(s.rows[r]) = w
      BY <1>1, <1>6 DEF HostSource, Rectangular
    <3> QED BY <1>7, <3>1
  <2>2. PICK cell : cell = s.rows[r][f]
    OBVIOUS
  <2>3. Numeric(cell) /\ JsonCell(cell)
    BY <1>1, <2>1, <2>2 DEF HostSource
  <2> QED BY <2>2, <2>3, ShownIsCell
<1>9. FiniteCells(s)
  BY <1>1, <1>8 DEF FiniteCells
<1>10. from_feature_table(t) = <<Buffer(s.names, s.obs, CellsOf(s))>>
  <2>1. from_feature_table(t) =
          <<Buffer(t.names, ObsOf(t), [f \in DOMAIN t.names |->
                     [r \in DOMAIN t.rows |-> Cell(t.rows[r].values[f])]])>>
    BY <1>5 DEF from_feature_table, Ok
  <2>2. [f \in 1 .. w |-> [r \in 1 .. N |-> Cell(t.rows[r].values[f])]]
          = [f \in 1 .. w |-> [r \in 1 .. N |-> ShownCell(s.rows[r][f])]]
    BY <1>3, <1>8
  <2> QED BY <1>1, <1>3, <1>4, <2>1, <2>2 DEF CellsOf
<1>11. HostBuffer(s) = <<Buffer(s.names, s.obs, CellsOf(s))>>
  BY <1>6, <1>9 DEF HostBuffer, Ok
<1> QED BY <1>1, <1>2, <1>4, <1>5, <1>6, <1>7, <1>10, <1>11

\* A buffer of N observations and w features, without a cell that is not finite.
FiniteBuffer(b, N, w) ==
  /\ ValidShape(b.names, b.obs) /\ Len(b.names) = w /\ Len(b.obs) = N
  /\ DOMAIN b.names = 1 .. w /\ DOMAIN b.obs = 1 .. N
  /\ b = Buffer(b.names, b.obs, b.columns)
  /\ b.columns = [f \in 1 .. w |-> b.columns[f]]
  /\ \A f \in 1 .. w :
       /\ b.columns[f] = [r \in 1 .. N |-> b.columns[f][r]]
       /\ \A r \in 1 .. N : \/ b.columns[f][r] = << >>
                            \/ /\ b.columns[f][r] = <<b.columns[f][r][1]>>
                               /\ b.columns[f][r][1] # NotFinite

\* The buffer of a JSON table is one.
LEMMA TableFinite ==
  ASSUME NEW s, HostSource(s), IsOk(from_feature_table(HostTable(s))),
         NEW N \in Nat, N = Len(s.obs), NEW w \in Nat, w = Len(s.names)
  PROVE  FiniteBuffer(from_feature_table(HostTable(s))[1], N, w)
<1>1. PICK b : b = from_feature_table(HostTable(s))[1]
  OBVIOUS
<1>2. /\ ValidShape(s.names, s.obs) /\ b = Buffer(s.names, s.obs, CellsOf(s))
      /\ HostBuffer(s) # Err
  <2>1. /\ ValidShape(s.names, s.obs)
        /\ from_feature_table(HostTable(s)) = HostBuffer(s)
        /\ HostBuffer(s) = <<Buffer(s.names, s.obs, CellsOf(s))>>
    BY TableBuffer
  <2> QED BY <1>1, <2>1 DEF Err
<1>3. FiniteCells(s)
  BY <1>2 DEF HostBuffer
<1>4. DOMAIN s.names = 1 .. w /\ DOMAIN s.obs = 1 .. N
  BY DEF HostSource
<1>5. b.names = s.names /\ b.obs = s.obs /\ b.columns = CellsOf(s)
  BY <1>2 DEF Buffer
<1>6. CellsOf(s) = [f \in 1 .. w |-> [r \in 1 .. N |-> ShownCell(s.rows[r][f])]]
  BY <1>4 DEF CellsOf
<1>7. ASSUME NEW f \in 1 .. w, NEW r \in 1 .. N
      PROVE  \/ b.columns[f][r] = << >>
             \/ /\ b.columns[f][r] = <<b.columns[f][r][1]>>
                /\ b.columns[f][r][1] # NotFinite
  <2>1. b.columns[f][r] = ShownCell(s.rows[r][f])
    BY <1>5, <1>6
  <2>2. Shows(s.rows[r][f]) = 1 => F64(s.rows[r][f]) # NotFinite
    BY <1>3, <1>4 DEF FiniteCells
  <2> QED BY <2>1, <2>2 DEF ShownCell
<1>8. b.columns = [f \in 1 .. w |-> b.columns[f]]
  BY <1>5, <1>6
<1>9. ASSUME NEW f \in 1 .. w PROVE b.columns[f] = [r \in 1 .. N |-> b.columns[f][r]]
  <2>1. b.columns[f] = [r \in 1 .. N |-> ShownCell(s.rows[r][f])]
    BY <1>5, <1>6
  <2> QED BY <2>1
<1>10. b = Buffer(b.names, b.obs, b.columns) /\ ValidShape(b.names, b.obs)
  BY <1>2, <1>5
<1>11. /\ Len(b.names) = w /\ Len(b.obs) = N
       /\ DOMAIN b.names = 1 .. w /\ DOMAIN b.obs = 1 .. N
  BY <1>4, <1>5
<1>12. FiniteBuffer(b, N, w)
  BY <1>7, <1>8, <1>9, <1>10, <1>11 DEF FiniteBuffer
<1> QED BY <1>1, <1>12

\* A buffer written out as columns and read again is unchanged.
LEMMA RoundTrip ==
  ASSUME NEW b, NEW N \in Nat, NEW w \in Nat, FiniteBuffer(b, N, w)
  PROVE  from_f64_column_matrix(to_f64_column_matrix(b)) = <<b>>
<1>1. PICK columns : columns = b.columns
  OBVIOUS
<1>2. /\ columns = [f \in 1 .. w |-> columns[f]]
      /\ \A f \in 1 .. w : columns[f] = [r \in 1 .. N |-> columns[f][r]]
      /\ DOMAIN b.names = 1 .. w /\ DOMAIN b.obs = 1 .. N
      /\ ValidShape(b.names, b.obs) /\ Len(b.names) = w /\ Len(b.obs) = N
  BY <1>1 DEF FiniteBuffer
<1>3. ASSUME NEW f \in 1 .. w, NEW r \in 1 .. N
      PROVE  \/ columns[f][r] = << >>
             \/ columns[f][r] = <<columns[f][r][1]>> /\ columns[f][r][1] # NotFinite
  BY <1>1 DEF FiniteBuffer
<1>4. PICK c : c = to_f64_column_matrix(b)
  OBVIOUS
<1>5. PICK full, given, masks :
        /\ full = ~ \E f \in 1 .. w : \E r \in 1 .. N : columns[f][r] = << >>
        /\ given = [f \in 1 .. w |-> [r \in 1 .. N |->
                      IF columns[f][r] = << >> THEN 0 ELSE columns[f][r][1]]]
        /\ masks = [f \in 1 .. w |-> [r \in 1 .. N |-> columns[f][r] # << >>]]
  OBVIOUS
<1>6. /\ c.names = b.names /\ c.obs = b.obs /\ c.columns = given
      /\ c.masks = IF full THEN << >> ELSE <<masks>>
  <2>1. DOMAIN b.columns = 1 .. w
    BY <1>1, <1>2
  <2>2. c = [names |-> b.names, obs |-> b.obs, columns |-> given,
             masks |-> IF ~ full THEN <<masks>> ELSE << >>]
    <3>1. [f \in DOMAIN b.columns |-> [r \in DOMAIN b.obs |->
             IF b.columns[f][r] = << >> THEN 0 ELSE b.columns[f][r][1]]] = given
      BY <1>1, <1>2, <1>5, <2>1
    <3>2. [f \in DOMAIN b.columns |-> [r \in DOMAIN b.obs |-> b.columns[f][r] # << >>]] = masks
      BY <1>1, <1>2, <1>5, <2>1
    <3>3. (\E f \in DOMAIN b.columns : \E r \in DOMAIN b.obs : b.columns[f][r] = << >>) <=> ~ full
      BY <1>1, <1>2, <1>5, <2>1, ZenonT(60)
    <3> QED BY <1>4, <3>1, <3>2, <3>3 DEF to_f64_column_matrix
  <2>3. c.masks = IF ~ full THEN <<masks>> ELSE << >>
    BY <2>2
  <2> QED BY <2>2, <2>3
<1>7. ASSUME NEW f \in 1 .. w, NEW r \in 1 .. N
      PROVE  /\ Shown(ColumnMask(c, f), r) <=> columns[f][r] # << >>
             /\ columns[f][r] # << >> =>
                  /\ c.columns[f][r] = columns[f][r][1] /\ c.columns[f][r] # NotFinite
                  /\ <<c.columns[f][r]>> = columns[f][r]
  <2>1. Shown(ColumnMask(c, f), r) <=> columns[f][r] # << >>
    <3>1. CASE full
      <4>1. ColumnMask(c, f) = << >>
        BY <1>6, <3>1 DEF ColumnMask
      <4> QED BY <1>5, <3>1, <4>1 DEF Shown
    <3>2. CASE ~ full
      <4>1. c.masks # << >> /\ c.masks[1] = masks
        BY <1>6, <3>2
      <4>2. ColumnMask(c, f) # << >> /\ ColumnMask(c, f)[1] = masks[f]
        BY <4>1 DEF ColumnMask
      <4>3. masks[f] = [k \in 1 .. N |-> columns[f][k] # << >>]
        BY <1>5
      <4>4. masks[f][r] = (columns[f][r] # << >>)
        BY <4>3, Zenon
      <4> QED BY <4>2, <4>4 DEF Shown
    <3> QED BY <3>1, <3>2
  <2>2. columns[f][r] # << >> => c.columns[f][r] = columns[f][r][1]
    BY <1>5, <1>6
  <2> QED BY <1>3, <2>1, <2>2
<1>8. ValidColumnar(c)
  <2>1. Len(c.columns) = w /\ DOMAIN c.columns = 1 .. w
    BY <1>5, <1>6
  <2>2. \A f \in 1 .. w : Len(c.columns[f]) = N
    BY <1>5, <1>6
  <2>3. c.masks # << >> => Len(c.masks[1]) = w /\ \A f \in 1 .. w : Len(c.masks[1][f]) = N
    <3>1. c.masks # << >> => c.masks[1] = masks
      BY <1>6
    <3>2. Len(masks) = w /\ \A f \in 1 .. w : Len(masks[f]) = N
      BY <1>5
    <3> QED BY <3>1, <3>2
  <2> QED BY <1>2, <1>6, <1>7, <2>1, <2>2, <2>3, ZenonT(60) DEF ValidColumnar
<1>9. from_f64_column_matrix(c) = <<Buffer(b.names, b.obs, columns)>>
  <2>1. ASSUME NEW f \in 1 .. w, NEW r \in 1 .. N
        PROVE  (IF Shown(ColumnMask(c, f), r) THEN <<c.columns[f][r]>> ELSE << >>)
                 = columns[f][r]
    BY <1>3, <1>7
  <2>2. [f \in 1 .. w |-> [r \in 1 .. N |->
           IF Shown(ColumnMask(c, f), r) THEN <<c.columns[f][r]>> ELSE << >>]]
          = [f \in 1 .. w |-> [r \in 1 .. N |-> columns[f][r]]]
    BY <2>1
  <2>3. columns = [f \in 1 .. w |-> [r \in 1 .. N |-> columns[f][r]]]
    BY <1>2
  <2> QED BY <1>2, <1>6, <1>8, <2>2, <2>3 DEF from_f64_column_matrix, Ok
<1>10. b = Buffer(b.names, b.obs, columns)
  BY <1>1 DEF FiniteBuffer
<1> QED BY <1>4, <1>9, <1>10

\* Columns that are chosen exist.
LEMMA ChosenFeatures ==
  ASSUME NEW names, NEW columns, IsOk(selected_feature_indices(names, columns)),
         NEW i \in DOMAIN selected_feature_indices(names, columns)[1]
  PROVE  selected_feature_indices(names, columns)[1][i] \in DOMAIN names
<1>1. PICK chosen : chosen = selected_feature_indices(names, columns)[1]
  OBVIOUS
<1>2. CASE columns = << >>
  <2>1. chosen = [k \in DOMAIN names |-> k]
    BY <1>1, <1>2 DEF selected_feature_indices, Ok
  <2> QED BY <1>1, <2>1
<1>3. CASE columns # << >>
  <2>1. /\ ToSet(columns[1]) \subseteq ToSet(names)
        /\ chosen = [k \in DOMAIN columns[1] |-> IndexOf(names, columns[1][k])]
    BY <1>1, <1>3 DEF selected_feature_indices, Ok, IsOk
  <2>2. i \in DOMAIN columns[1] /\ chosen[i] = IndexOf(names, columns[1][i])
    BY <1>1, <2>1
  <2>3. columns[1][i] \in ToSet(names)
    BY <2>1, <2>2 DEF ToSet
  <2> QED BY <1>1, <2>2, <2>3, Found
<1> QED BY <1>2, <1>3

\* What a projection of a buffer returns.
Projected(block, b, rows, chosen) ==
  /\ ToSet(ObsIn(rows)) \subseteq ToSet(b.obs)
  /\ block = Block([i \in DOMAIN chosen |-> b.names[chosen[i]]], ObsIn(rows), SamplesIn(rows),
                   [k \in DOMAIN rows |-> [i \in DOMAIN chosen |->
                      FromCell(b.columns[chosen[i]][IndexOf(b.obs, rows[k].obs)])]])

\* It returns that when it succeeds.
LEMMA ProjectForm ==
  ASSUME NEW b, NEW view, NEW source, NEW columns,
         IsOk(project_relations(b, view, source, columns)),
         NEW block, block = project_relations(b, view, source, columns)[1],
         NEW rows, rows = OfSource(view, source),
         NEW chosen, chosen = selected_feature_indices(b.names, columns)[1]
  PROVE  /\ IsOk(selected_feature_indices(b.names, columns))
         /\ project_relations(b, view, source, columns) = <<block>>
         /\ Projected(block, b, rows, chosen)
<1>1. PICK selected : selected = selected_indices(b.names, columns)
  BY Zenon
<1>2. IsOk(selected) /\ ToSet(ObsIn(rows)) \subseteq ToSet(b.obs)
  BY <1>1, Zenon DEF project_relations, IsOk
<1>3. selected = selected_feature_indices(b.names, columns)
  BY <1>1, <1>2 DEF selected_indices, IsOk
<1>4. selected[1] = chosen
  BY <1>3, Zenon
<1>5. project_relations(b, view, source, columns) =
        <<Block([i \in DOMAIN chosen |-> b.names[chosen[i]]], ObsIn(rows), SamplesIn(rows),
                [k \in DOMAIN rows |-> [i \in DOMAIN chosen |->
                   FromCell(b.columns[chosen[i]][IndexOf(b.obs, rows[k].obs)])]])>>
  BY <1>1, <1>4, Zenon DEF project_relations, IsOk, Ok, FromCell
<1>6. PICK made :
        made = Block([i \in DOMAIN chosen |-> b.names[chosen[i]]], ObsIn(rows), SamplesIn(rows),
                     [k \in DOMAIN rows |-> [i \in DOMAIN chosen |->
                        FromCell(b.columns[chosen[i]][IndexOf(b.obs, rows[k].obs)])]])
  BY Zenon
<1>7. project_relations(b, view, source, columns) = <<made>>
  BY <1>5, <1>6, Zenon
<1>8. block = made
  BY <1>7
<1>9. Projected(block, b, rows, chosen)
  BY <1>2, <1>6, <1>8, ZenonT(60) DEF Projected
<1> QED BY <1>2, <1>3, <1>7, <1>8, <1>9

\* A table selects what a projection of its buffer returns, up to the conversion
\* of its numbers.
LEMMA BlockAgrees ==
  ASSUME NEW s, HostSource(s), IsOk(from_feature_table(HostTable(s))),
         NEW R, NEW view \in Seq(R), NEW source, NEW columns,
         NEW b, b = from_feature_table(HostTable(s))[1],
         IsOk(project_relations(b, view, source, columns))
  PROVE  /\ IsOk(feature_values(OfSource(view, source), HostTable(s), columns))
         /\ InF64(feature_values(OfSource(view, source), HostTable(s), columns)[1])
              = project_relations(b, view, source, columns)[1]
<1>1. PICK rows, chosen, t, block :
        /\ rows = OfSource(view, source) /\ t = HostTable(s)
        /\ chosen = selected_feature_indices(b.names, columns)[1]
        /\ block = project_relations(b, view, source, columns)[1]
  OBVIOUS
<1>2. /\ IsOk(selected_feature_indices(b.names, columns))
      /\ project_relations(b, view, source, columns) = <<block>>
      /\ Projected(block, b, rows, chosen)
  BY <1>1, ProjectForm
<1>3. PICK N \in Nat, w \in Nat : /\ N = Len(s.obs) /\ w = Len(s.names)
                                  /\ DOMAIN s.obs = 1 .. N /\ DOMAIN s.names = 1 .. w
                                  /\ DOMAIN s.rows = 1 .. N
  BY HostLists
<1>4. /\ Rectangular(s) /\ ValidFeatureTable(t) /\ ObsOf(t) = s.obs
      /\ b = Buffer(s.names, s.obs, CellsOf(s))
      /\ \A r \in 1 .. N : \A f \in 1 .. w : Numeric(s.rows[r][f])
  <2>1. /\ Rectangular(s) /\ ValidFeatureTable(t) /\ ObsOf(t) = s.obs
        /\ from_feature_table(HostTable(s)) = HostBuffer(s)
        /\ HostBuffer(s) = <<Buffer(s.names, s.obs, CellsOf(s))>>
    BY <1>1, TableBuffer
  <2>2. \A r \in DOMAIN s.obs : \A f \in DOMAIN s.names : Numeric(s.rows[r][f])
    BY TableBuffer
  <2> QED BY <1>3, <2>1, <2>2
<1>5. b.names = s.names /\ b.obs = s.obs /\ b.columns = CellsOf(s)
  BY <1>4 DEF Buffer
<1>6. t.names = s.names /\ \A r \in 1 .. N : t.rows[r].values = s.rows[r]
  BY <1>1, <1>3 DEF HostTable
<1>7. ASSUME NEW r \in 1 .. N, NEW f \in 1 .. w
      PROVE  FromCell(b.columns[f][r]) = FromCell(Cell(s.rows[r][f]))
  <2>1. b.columns[f][r] = ShownCell(s.rows[r][f])
    BY <1>3, <1>5 DEF CellsOf
  <2>2. f \in DOMAIN s.rows[r] /\ r \in DOMAIN s.rows
    <3>1. s.rows[r] \in Seq(ToSet(s.rows[r])) /\ Len(s.rows[r]) = w
      BY <1>3, <1>4 DEF HostSource, Rectangular
    <3> QED BY <1>3, <3>1
  <2>3. PICK cell : cell = s.rows[r][f]
    OBVIOUS
  <2>4. Numeric(cell) /\ JsonCell(cell)
    BY <1>4, <2>2, <2>3 DEF HostSource
  <2>5. ShownCell(cell) = Cell(cell)
    BY <2>4, ShownIsCell
  <2> QED BY <2>1, <2>3, <2>5
<1>8. ASSUME NEW k \in DOMAIN rows, NEW i \in DOMAIN chosen
      PROVE  FromCell(Cell(t.rows[IndexOf(ObsOf(t), rows[k].obs)].values[chosen[i]]))
               = FromCell(b.columns[chosen[i]][IndexOf(b.obs, rows[k].obs)])
  <2>1. chosen[i] \in 1 .. w
    BY <1>1, <1>2, <1>3, <1>5, ChosenFeatures
  <2>2. rows[k].obs \in ToSet(s.obs)
    <3>1. rows[k].obs \in ToSet(ObsIn(rows))
      BY DEF ToSet, ObsIn
    <3> QED BY <1>2, <1>5, <3>1 DEF Projected
  <2>3. PICK r \in 1 .. N : r = IndexOf(s.obs, rows[k].obs)
    BY <1>3, <2>2, Found
  <2> QED BY <1>4, <1>5, <1>6, <1>7, <2>1, <2>3
<1>9. PICK names, obs, samples, values, made, table :
        /\ names = [i \in DOMAIN chosen |-> b.names[chosen[i]]]
        /\ obs = ObsIn(rows) /\ samples = SamplesIn(rows)
        /\ values = [k \in DOMAIN rows |-> [i \in DOMAIN chosen |->
                       t.rows[IndexOf(ObsOf(t), rows[k].obs)].values[chosen[i]]]]
        /\ made = [k \in DOMAIN rows |-> [i \in DOMAIN chosen |->
                     FromCell(b.columns[chosen[i]][IndexOf(b.obs, rows[k].obs)])]]
        /\ table = Block(names, obs, samples, values)
  OBVIOUS
<1>10. selected_feature_indices(t.names, columns) = selected_feature_indices(b.names, columns)
  BY <1>5, <1>6
<1>11. PICK selected : selected = selected_feature_indices(t.names, columns)
  OBVIOUS
<1>12. IsOk(selected) /\ selected[1] = chosen /\ t.names = b.names
  BY <1>1, <1>2, <1>5, <1>6, <1>10, <1>11
<1>13. ToSet(ObsIn(rows)) \subseteq ToSet(ObsOf(t))
  BY <1>2, <1>4, <1>5 DEF Projected
<1>14. feature_values(rows, t, columns) = <<table>>
  BY <1>4, <1>9, <1>11, <1>12, <1>13 DEF feature_values, Ok
<1>15. [k \in DOMAIN values |-> [i \in DOMAIN values[k] |-> FromCell(Cell(values[k][i]))]] = made
  BY <1>8, <1>9
<1>16. InF64(table) = Block(names, obs, samples, made)
  <2>1. table = [names |-> names, obs |-> obs, samples |-> samples, values |-> values]
    BY <1>9 DEF Block
  <2>2. InF64(table) = [table EXCEPT !.values = made]
    BY <1>15, <2>1 DEF InF64
  <2> QED BY <2>1, <2>2 DEF Block
<1>17. block = Block(names, obs, samples, made)
  BY <1>2, <1>9, Zenon DEF Projected
<1>18. IsOk(<<table>>) /\ <<table>>[1] = table
  BY DEF IsOk, Err
<1> QED BY <1>1, <1>14, <1>16, <1>17, <1>18

\* The numbers of the cells of a block.
CellValues(values, rows, block) ==
  values = [k \in DOMAIN rows |-> [c \in DOMAIN block.names |-> block.values[k][c].v]]

\* The flat values of a projection are those of its block, row after row.
LEMMA FlatAgrees ==
  ASSUME NEW b, b.names \in Seq(ToSet(b.names)), ValidShape(b.names, b.obs),
         NEW R, NEW view \in Seq(R), NEW source,
         NEW columns, columns # << >> => columns[1] \in Seq(ToSet(columns[1])),
         IsOk(project_relations_f64(b, view, source, columns)),
         NEW block, project_relations(b, view, source, columns) = <<block>>,
         NEW rows, rows = OfSource(view, source),
         NEW values, CellValues(values, rows, block)
  PROVE  project_relations_f64(b, view, source, columns)[1].values = FlattenSeq(values)
<1>1. PICK chosen : chosen = selected_feature_indices(b.names, columns)[1]
  OBVIOUS
<1>2. IsOk(selected_feature_indices(b.names, columns)) /\ Projected(block, b, rows, chosen)
  <2>1. IsOk(project_relations(b, view, source, columns))
    BY DEF IsOk, Err
  <2>2. block = project_relations(b, view, source, columns)[1]
    OBVIOUS
  <2> QED BY <1>1, <2>1, <2>2, ProjectForm
<1>3. PICK w \in Nat : w # 0 /\ DOMAIN chosen = 1 .. w
  <2>1. CASE columns = << >>
    <3>1. DOMAIN chosen = DOMAIN b.names /\ b.names # << >>
      BY <1>1, <2>1 DEF selected_feature_indices, Ok, ValidShape
    <3>2. PICK n \in Nat : n = Len(b.names)
      OBVIOUS
    <3>3. DOMAIN b.names = 1 .. n /\ n # 0
      BY <3>1, <3>2
    <3> QED BY <3>1, <3>3
  <2>2. CASE columns # << >>
    <3>1. DOMAIN chosen = DOMAIN columns[1] /\ columns[1] # << >>
      BY <1>1, <1>2, <2>2 DEF selected_feature_indices, Ok, IsOk
    <3>2. PICK n \in Nat : n = Len(columns[1])
      BY <2>2
    <3>3. DOMAIN columns[1] = 1 .. n /\ n # 0
      BY <2>2, <3>1, <3>2
    <3> QED BY <3>1, <3>3
  <2> QED BY <2>1, <2>2
<1>4. PICK N \in Nat : DOMAIN rows = 1 .. N
  <2>1. rows \in Seq(R)
    BY OfSourceTyped
  <2> QED BY <2>1
<1>5. /\ block.names = [i \in 1 .. w |-> b.names[chosen[i]]]
      /\ block.values = [k \in 1 .. N |-> [i \in 1 .. w |->
                           FromCell(b.columns[chosen[i]][IndexOf(b.obs, rows[k].obs)])]]
  BY <1>2, <1>3, <1>4 DEF Projected, Block
<1>6. /\ Len(block.names) = w /\ DOMAIN block.names = 1 .. w /\ Len(block.values) = N
  BY <1>5
<1>7. PICK flat : flat = [c \in 1 .. N * w |-> block.values[((c - 1) \div w) + 1][((c - 1) % w) + 1].v]
  OBVIOUS
<1>8. project_relations_f64(b, view, source, columns)[1].values = flat
  <2>1. PICK n, M : n = Len(block.names) /\ M = Len(block.values)
    OBVIOUS
  <2>2. n = w /\ M = N
    BY <1>6, <2>1
  <2>3. project_relations_f64(b, view, source, columns)[1] =
          [block EXCEPT !.values = [c \in 1 .. M * n |->
             block.values[((c - 1) \div n) + 1][((c - 1) % n) + 1].v]]
    <3>1. PICK all : all = project_relations(b, view, source, columns)
      OBVIOUS
    <3>2. all[1] = block
      BY <3>1
    <3>3. \/ project_relations_f64(b, view, source, columns) = Err
          \/ project_relations_f64(b, view, source, columns) =
               <<[all[1] EXCEPT !.values = [c \in 1 .. Len(all[1].values) * Len(all[1].names) |->
                    all[1].values[((c - 1) \div Len(all[1].names)) + 1]
                                 [((c - 1) % Len(all[1].names)) + 1].v]]>>
      BY <3>1, ZenonT(60) DEF project_relations_f64, Ok
    <3>4. \/ project_relations_f64(b, view, source, columns) = Err
          \/ project_relations_f64(b, view, source, columns) =
               <<[block EXCEPT !.values = [c \in 1 .. M * n |->
                    block.values[((c - 1) \div n) + 1][((c - 1) % n) + 1].v]]>>
      BY <2>1, <3>2, <3>3, Zenon
    <3>5. PICK made : made = [block EXCEPT !.values = [c \in 1 .. M * n |->
                    block.values[((c - 1) \div n) + 1][((c - 1) % n) + 1].v]]
      OBVIOUS
    <3>6. project_relations_f64(b, view, source, columns) \in {Err, <<made>>}
      BY <3>4, <3>5
    <3>7. project_relations_f64(b, view, source, columns) = <<made>>
      BY <3>6 DEF IsOk
    <3> QED BY <3>5, <3>7
  <2>4. block = [block EXCEPT !.values = block.values] /\ "values" \in DOMAIN block
    BY <1>2 DEF Projected, Block
  <2> QED BY <1>7, <2>2, <2>3, <2>4
<1>9. IsTable(FlattenSeq(values), values, N, w)
  <2>1. values = [k \in 1 .. N |-> [c \in 1 .. w |-> block.values[k][c].v]]
    BY <1>4, <1>6 DEF CellValues
  <2>2. PICK grid : grid = values
    OBVIOUS
  <2>3. grid = [k \in 1 .. N |-> grid[k]]
    BY <2>1, <2>2
  <2>4. \A k \in 1 .. N : grid[k] = [c \in 1 .. w |-> grid[k][c]]
    BY <2>1, <2>2
  <2>5. IsTable(FlattenSeq(grid), grid, N, w)
    BY <2>3, <2>4, FlattenTable
  <2> QED BY <2>2, <2>5
<1>10. \A c \in 1 .. N * w : values[((c - 1) \div w) + 1][((c - 1) % w) + 1]
                               = block.values[((c - 1) \div w) + 1][((c - 1) % w) + 1].v
  <2>1. ASSUME NEW c \in 1 .. N * w
        PROVE  values[((c - 1) \div w) + 1][((c - 1) % w) + 1]
                 = block.values[((c - 1) \div w) + 1][((c - 1) % w) + 1].v
    <3>1. PICK q, m : q = (c - 1) \div w /\ m = (c - 1) % w
      OBVIOUS
    <3>2. q + 1 \in 1 .. N /\ m + 1 \in 1 .. w
      BY <3>1, GridPlace
    <3>3. values[q + 1] = [k \in 1 .. w |-> block.values[q + 1][k].v]
      BY <1>4, <1>6, <3>2 DEF CellValues
    <3> QED BY <3>1, <3>2, <3>3
  <2> QED BY <2>1
<1>11. FlattenSeq(values) = flat
  <2>1. FlattenSeq(values) =
          [c \in 1 .. N * w |-> values[((c - 1) \div w) + 1][((c - 1) % w) + 1]]
    BY <1>9 DEF IsTable
  <2> QED BY <1>7, <1>10, <2>1
<1> QED BY <1>8, <1>11

(***************************************************************************)
(* Collation.                                                              *)
(***************************************************************************)

\* Rows as a host may hold them: CollationAssumption.
HostRows(in) ==
  /\ in.obs \in Seq(ToSet(in.obs)) /\ in.rows \in Seq(ToSet(in.rows))
  /\ \A k \in DOMAIN in.rows : in.rows[k] \in Seq(ToSet(in.rows[k]))
  /\ in.names # << >> => in.names[1] \in Seq(ToSet(in.names[1]))

\* A list of naturals that is not empty has a largest element.
LEMMA Largest ==
  ASSUME NEW N \in Nat, N # 0, NEW g \in [1 .. N -> Nat]
  PROVE  \E j \in 1 .. N : \A k \in 1 .. N : g[k] <= g[j]
<1> DEFINE Upto(m) == \E j \in 1 .. m : \A k \in 1 .. m : g[k] <= g[j]
           S == {m \in Nat : m + 1 <= N => Upto(m + 1)}
<1>1. Upto(1)
  <2>1. 1 \in 1 .. 1 /\ \A k \in 1 .. 1 : k = 1
    OBVIOUS
  <2>2. g[1] <= g[1]
    OBVIOUS
  <2> QED BY <2>1, <2>2
<1>2. ASSUME NEW m \in Nat, m # 0, m + 1 <= N, Upto(m) PROVE Upto(m + 1)
  <2>1. PICK j \in 1 .. m : \A k \in 1 .. m : g[k] <= g[j]
    BY <1>2
  <2>2. PICK a \in Nat, b \in Nat : a = g[j] /\ b = g[m + 1]
    BY <1>2
  <2>3. \A k \in 1 .. m + 1 : k = m + 1 \/ k \in 1 .. m
    OBVIOUS
  <2>4. \A k \in 1 .. m : g[k] \in Nat
    BY <1>2
  <2>5. CASE a <= b
    <3>1. ASSUME NEW k \in 1 .. m + 1 PROVE g[k] <= g[m + 1]
      <4>1. CASE k \in 1 .. m
        <5>1. g[k] \in Nat /\ g[k] <= a
          BY <2>1, <2>2, <2>4, <4>1
        <5> QED BY <2>2, <2>5, <5>1
      <4>2. CASE k = m + 1
        BY <2>2, <4>2
      <4> QED BY <2>3, <4>1, <4>2
    <3>2. m + 1 \in 1 .. m + 1
      BY <1>2
    <3> QED BY <3>1, <3>2
  <2>6. CASE ~ (a <= b)
    <3>1. b <= a
      BY <2>6
    <3>2. \A k \in 1 .. m + 1 : g[k] <= g[j]
      BY <2>1, <2>2, <2>3, <3>1
    <3>3. j \in 1 .. m + 1
      OBVIOUS
    <3> QED BY <3>2, <3>3
  <2> QED BY <2>5, <2>6
<1>3. \A m \in Nat : m \in S
  <2>1. 0 \in S
    BY <1>1
  <2>2. ASSUME NEW m \in Nat, m \in S PROVE m + 1 \in S
    <3>1. (m + 1) + 1 <= N => m + 1 <= N /\ m + 1 # 0 /\ m + 1 \in Nat
      OBVIOUS
    <3> HIDE DEF Upto
    <3> QED BY <1>2, <2>2, <3>1
  <2> HIDE DEF S
  <2> QED BY <2>1, <2>2, SetInduction
<1>4. Upto(N)
  <2>1. N - 1 \in S /\ (N - 1) + 1 = N
    <3> HIDE DEF S
    <3> QED BY <1>3
  <2> HIDE DEF Upto
  <2> QED BY <2>1
<1> QED BY <1>4

\* The place of a row in the row of the tensor: what is cut off at its start, or
\* less than nothing where it is padded at its start.
Shift(len, n, padding) ==
  IF len > n THEN truncate_start(len, n, padding)
  ELSE 0 - (CASE padding = "left" -> n - len
              [] padding = "center" -> (n - len) \div 2
              [] OTHER -> 0)

\* What is cut off, or padded, at the start of a row.
LEMMA ShiftWithin ==
  ASSUME NEW len \in Nat, NEW n \in Nat, NEW padding
  PROVE  /\ len > n => Shift(len, n, padding) \in 0 .. len - n
         /\ len <= n => Shift(len, n, padding) \in len - n .. 0
<1>1. ASSUME NEW d \in Nat PROVE d \div 2 \in 0 .. d
  OBVIOUS
<1>2. CASE len > n
  <2>1. PICK d \in Nat : d = len - n
    BY <1>2
  <2>2. Shift(len, n, padding) = CASE padding = "left" -> d
                                   [] padding = "center" -> d \div 2
                                   [] OTHER -> 0
    BY <1>2, <2>1 DEF Shift, truncate_start
  <2>3. Shift(len, n, padding) \in 0 .. d
    BY <1>1, <2>2
  <2> QED BY <1>2, <2>1, <2>3
<1>3. CASE len <= n
  <2>1. PICK d \in Nat : d = n - len
    BY <1>3
  <2>2. PICK left : left = CASE padding = "left" -> d
                             [] padding = "center" -> d \div 2
                             [] OTHER -> 0
    OBVIOUS
  <2>3. left \in 0 .. d
    BY <1>1, <2>2
  <2>4. Shift(len, n, padding) = 0 - left
    BY <1>3, <2>1, <2>2 DEF Shift
  <2>5. 0 - left \in 0 - d .. 0 /\ len - n = 0 - d
    BY <2>1, <2>3
  <2> QED BY <1>3, <2>4, <2>5
<1> QED BY <1>2, <1>3

\* A row of the tensor: the row that was given, shifted.
ShiftedRow(p, row, n, at) ==
  /\ p.presence = [c \in 1 .. n |-> c + at \in DOMAIN row]
  /\ p.values = [c \in 1 .. n |-> IF c + at \in DOMAIN row THEN row[c + at] ELSE << >>]

\* project_row makes it.
LEMMA ProjectedRow ==
  ASSUME NEW R, NEW row \in Seq(R), NEW n \in Nat, NEW padding
  PROVE  ShiftedRow(project_row(row, n, padding), row, n, Shift(Len(row), n, padding))
<1>1. PICK len \in Nat : len = Len(row) /\ DOMAIN row = 1 .. len
  OBVIOUS
<1>2. PICK kept, left, at :
        /\ at = Shift(len, n, padding)
        /\ kept = IF len > n THEN Window(row, truncate_start(len, n, padding), n) ELSE row
        /\ left = CASE padding = "left" -> n - Len(kept)
                    [] padding = "center" -> (n - Len(kept)) \div 2
                    [] OTHER -> 0
  OBVIOUS
<1>3. PICK p : p = project_row(row, n, padding)
  OBVIOUS
<1>4. /\ p.values = [c \in 1 .. n |-> IF c > left /\ c <= left + Len(kept)
                                       THEN kept[c - left] ELSE << >>]
      /\ p.presence = [c \in 1 .. n |-> c > left /\ c <= left + Len(kept)]
  BY <1>1, <1>2, <1>3 DEF project_row
<1>5. ASSUME NEW c \in 1 .. n
      PROVE  /\ c > left /\ c <= left + Len(kept) <=> c + at \in DOMAIN row
             /\ c + at \in DOMAIN row => kept[c - left] = row[c + at]
  <2>1. CASE len > n
    <3>1. at = truncate_start(len, n, padding) /\ at \in 0 .. len - n
      BY <1>2, <2>1, ShiftWithin DEF Shift
    <3>2. kept = SubSeq(row, at + 1, at + n)
      BY <1>2, <2>1, <3>1 DEF Window
    <3>3. PICK a \in Nat : a = at /\ a + n <= len
      BY <2>1, <3>1
    <3>4. \A i \in a + 1 .. a + n : i \in 1 .. len
      BY <3>3
    <3>5. \A i \in a + 1 .. a + n : row[i] \in R
      BY <1>1, <3>4
    <3>6. /\ Len(SubSeq(row, a + 1, a + n)) = n
          /\ \A i \in 1 .. n : SubSeq(row, a + 1, a + n)[i] = row[a + i]
      <4>1. (a + n) - (a + 1) + 1 = n /\ \A i \in Int : (a + 1) + i - 1 = a + i
        OBVIOUS
      <4>2. a + 1 <= a + n
        BY <1>5
      <4>3. row \in Seq(R) /\ a + 1 \in Int /\ a + n \in Int
        BY <1>1
      <4>4. \A i \in a + 1 .. a + n : i \in 1 .. Len(row)
        BY <1>1, <3>4
      <4> QED BY <3>5, <4>1, <4>2, <4>3, <4>4
    <3>7. Len(kept) = n /\ kept[c] = row[a + c]
      BY <3>2, <3>3, <3>6
    <3>8. left = 0
      <4>1. n - Len(kept) = 0 /\ 0 \div 2 = 0
        BY <3>7
      <4> QED BY <1>2, <4>1
    <3>9. c + at \in DOMAIN row /\ c + at = a + c /\ c - left = c
      BY <1>1, <3>3, <3>8
    <3> QED BY <3>7, <3>8, <3>9
  <2>2. CASE len <= n
    <3>1. kept = row /\ Len(kept) = len
      BY <1>1, <1>2, <2>2
    <3>2. at = 0 - left
      BY <1>1, <1>2, <2>2, <3>1 DEF Shift
    <3>3. at \in len - n .. 0
      BY <1>2, <2>2, ShiftWithin
    <3>4. left \in Int
      <4>1. PICK d \in Nat : d = n - Len(kept)
        BY <2>2, <3>1
      <4>2. d \div 2 \in Int
        OBVIOUS
      <4> QED BY <1>2, <4>1, <4>2
    <3>5. c + at = c - left
      BY <3>2, <3>4
    <3>6. c > left /\ c <= left + len <=> c - left \in 1 .. len
      BY <3>4
    <3> QED BY <1>1, <3>1, <3>5, <3>6
  <2> QED BY <2>1, <2>2
<1>6. p.presence = [c \in 1 .. n |-> c + at \in DOMAIN row]
  BY <1>4, <1>5
<1>7. p.values = [c \in 1 .. n |-> IF c + at \in DOMAIN row THEN row[c + at] ELSE << >>]
  BY <1>4, <1>5
<1> QED BY <1>1, <1>2, <1>3, <1>6, <1>7 DEF ShiftedRow

\* The value that stands for an optional cell in a tensor.
Filled(cell, policy) == IF cell = << >> THEN policy.pad_value ELSE cell[1]

\* What a tensor holds and says of one cell.
CollatedCell(in, t, policy, n, k, c) ==
  LET row == in.rows[k]
      at == Shift(Len(row), n, policy.padding)
      i == (k - 1) * n + c
      inside == c + at \in DOMAIN row
  IN /\ t.values[i] = IF inside THEN Filled(row[c + at], policy) ELSE policy.pad_value
     /\ policy.emit_mask => (t.presence = << >> \/ t.presence[1][i] <=> inside)
     /\ t.validity = << >> \/ t.validity[1][i] <=> inside /\ row[c + at] # << >>

\* The shape and the names of a tensor of width n, from rows that fit.
CollatedShape(in, t, policy, n) ==
  /\ t.shape = <<Len(in.rows), n>> /\ n \in Nat \ {0}
  /\ ValidCollation(in, policy) /\ LengthFits(in, policy, n)
  /\ t.names = IF in.names = << >> \/ Len(in.names[1]) = n THEN in.names
               ELSE <<Window(in.names[1], NamesStart(Len(in.names[1]), n, policy.padding), n)>>

\* The length that the rows are brought to.
LEMMA TargetTyped ==
  ASSUME NEW in, HostRows(in), NEW policy, ValidCollation(in, policy),
         policy.max_length # << >> => policy.max_length[1] \in Nat
  PROVE  TargetLength(in, policy) \in Nat
<1>1. CASE policy.max_length # << >>
  BY <1>1 DEF TargetLength
<1>2. CASE policy.max_length = << >>
  <2>1. PICK N \in Nat : N = Len(in.rows) /\ DOMAIN in.rows = 1 .. N
    BY DEF HostRows
  <2>2. N # 0
    <3>1. in.obs # << >> /\ Len(in.obs) = N
      BY <2>1 DEF ValidCollation
    <3>2. in.obs \in Seq(ToSet(in.obs))
      BY DEF HostRows
    <3> QED BY <3>1, <3>2
  <2>3. PICK g : g = [k \in 1 .. N |-> Len(in.rows[k])]
    OBVIOUS
  <2>4. g \in [1 .. N -> Nat]
    <3>1. ASSUME NEW k \in 1 .. N PROVE Len(in.rows[k]) \in Nat
      <4>1. in.rows[k] \in Seq(ToSet(in.rows[k]))
        BY <2>1 DEF HostRows
      <4> QED BY <4>1
    <3> QED BY <2>3, <3>1
  <2>5. PICK j \in 1 .. N : \A k \in 1 .. N : g[k] <= g[j]
    BY <2>2, <2>4, Largest
  <2>6. \E n \in {g[k] : k \in 1 .. N} : \A k \in 1 .. N : g[k] <= n
    BY <2>5
  <2>7. LongestRow(in) = CHOOSE n \in {g[k] : k \in 1 .. N} : \A k \in 1 .. N : g[k] <= n
    <3>1. {Len(in.rows[k]) : k \in DOMAIN in.rows} = {g[k] : k \in 1 .. N}
      BY <2>1, <2>3
    <3>2. \A n : (\A k \in DOMAIN in.rows : Len(in.rows[k]) <= n) <=> (\A k \in 1 .. N : g[k] <= n)
      BY <2>1, <2>3
    <3> QED BY <3>1, <3>2 DEF LongestRow
  <2>8. LongestRow(in) \in {g[k] : k \in 1 .. N}
    BY <2>6, <2>7
  <2> QED BY <1>2, <2>4, <2>8 DEF TargetLength
<1> QED BY <1>1, <1>2

\* Collation, cell by cell.
LEMMA CollatedCells ==
  ASSUME NEW in, HostRows(in), NEW policy,
         policy.max_length # << >> => policy.max_length[1] \in Nat,
         NEW t, collate_numeric_block(in, policy) = <<t>>,
         NEW n, n = TargetLength(in, policy)
  PROVE  /\ CollatedShape(in, t, policy, n)
         /\ \A k \in DOMAIN in.rows : \A c \in 1 .. n : CollatedCell(in, t, policy, n, k, c)
<1>1. PICK rows, valid : 
        /\ rows = [k \in DOMAIN in.rows |-> project_row(in.rows[k], n, policy.padding)]
        /\ valid = [k \in DOMAIN rows |-> [c \in 1 .. n |->
                      rows[k].presence[c] /\ rows[k].values[c] # << >>]]
  OBVIOUS
<1>2. PICK cells, marks :
        /\ cells = [k \in DOMAIN rows |-> [c \in 1 .. n |-> Filled(rows[k].values[c], policy)]]
        /\ marks = [k \in DOMAIN rows |-> rows[k].presence]
  BY Zenon
<1>3. /\ ValidCollation(in, policy) /\ n > 0 /\ LengthFits(in, policy, n)
      /\ t = [shape |-> <<Len(in.rows), n>>, obs |-> in.obs, samples |-> in.samples,
              values |-> FlattenSeq(cells),
              presence |-> IF policy.emit_mask THEN <<FlattenSeq(marks)>> ELSE << >>,
              validity |-> IF \E k \in DOMAIN rows : FALSE \in ToSet(valid[k])
                           THEN <<FlattenSeq(valid)>> ELSE << >>,
              names |-> IF in.names = << >> \/ Len(in.names[1]) = n THEN in.names
                        ELSE <<Window(in.names[1],
                                 NamesStart(Len(in.names[1]), n, policy.padding), n)>>]
  BY <1>1, <1>2, ZenonT(60) DEF collate_numeric_block, Ok, Err, Filled
<1>4. n \in Nat \ {0}
  BY <1>3, TargetTyped
<1>5. CollatedShape(in, t, policy, n)
  BY <1>3, <1>4 DEF CollatedShape
<1>6. PICK N \in Nat : N = Len(in.rows) /\ DOMAIN in.rows = 1 .. N /\ DOMAIN rows = 1 .. N
  BY <1>1 DEF HostRows
<1>7. ASSUME NEW k \in 1 .. N
      PROVE  ShiftedRow(rows[k], in.rows[k], n, Shift(Len(in.rows[k]), n, policy.padding))
  <2>1. in.rows[k] \in Seq(ToSet(in.rows[k]))
    BY <1>6 DEF HostRows
  <2>2. rows[k] = project_row(in.rows[k], n, policy.padding)
    BY <1>1, <1>6
  <2> QED BY <1>4, <2>1, <2>2, ProjectedRow
<1>8. IsTable(t.values, cells, N, n)
  <2>1. cells = [k \in 1 .. N |-> cells[k]]
    BY <1>2, <1>6
  <2>2. \A k \in 1 .. N : cells[k] = [c \in 1 .. n |-> cells[k][c]]
    BY <1>2, <1>6
  <2>3. IsTable(FlattenSeq(cells), cells, N, n)
    BY <1>4, <2>1, <2>2, FlattenTable
  <2> QED BY <1>3, <2>3
<1>9. IsTable(FlattenSeq(marks), marks, N, n)
  <2>1. marks = [k \in 1 .. N |-> marks[k]]
    BY <1>2, <1>6
  <2>2. ASSUME NEW k \in 1 .. N PROVE marks[k] = [c \in 1 .. n |-> marks[k][c]]
    <3>1. marks[k] = rows[k].presence
      BY <1>2, <1>6
    <3> QED BY <1>7, <3>1 DEF ShiftedRow
  <2> QED BY <1>4, <2>1, <2>2, FlattenTable
<1>10. IsTable(FlattenSeq(valid), valid, N, n)
  <2>1. valid = [k \in 1 .. N |-> valid[k]]
    BY <1>1, <1>6
  <2>2. \A k \in 1 .. N : valid[k] = [c \in 1 .. n |-> valid[k][c]]
    BY <1>1, <1>6, Zenon
  <2> QED BY <1>4, <2>1, <2>2, FlattenTable
<1>11. ASSUME NEW k \in 1 .. N, NEW c \in 1 .. n PROVE CollatedCell(in, t, policy, n, k, c)
  <2>1. PICK row, at, i : /\ row = in.rows[k] /\ at = Shift(Len(row), n, policy.padding)
                          /\ i = (k - 1) * n + c
    OBVIOUS
  <2>2. /\ rows[k].presence[c] = (c + at \in DOMAIN row)
        /\ rows[k].values[c] = IF c + at \in DOMAIN row THEN row[c + at] ELSE << >>
    <3>1. /\ rows[k].presence = [d \in 1 .. n |-> d + at \in DOMAIN row]
          /\ rows[k].values = [d \in 1 .. n |-> IF d + at \in DOMAIN row THEN row[d + at] ELSE << >>]
      BY <1>7, <2>1, ZenonT(60) DEF ShiftedRow
    <3>2. rows[k].presence[c] = (c + at \in DOMAIN row)
      BY <3>1, Zenon
    <3> QED BY <3>1, <3>2
  <2>3. t.values[i] = IF c + at \in DOMAIN row THEN Filled(row[c + at], policy) ELSE policy.pad_value
    <3>1. t.values[i] = cells[k][c]
      BY <1>8, <2>1 DEF IsTable
    <3>2. cells[k][c] = Filled(rows[k].values[c], policy)
      BY <1>2, <1>6
    <3> QED BY <2>2, <3>1, <3>2 DEF Filled
  <2>4. policy.emit_mask =>
          (t.presence = << >> \/ t.presence[1][i] <=> c + at \in DOMAIN row)
    <3>1. marks[k][c] = rows[k].presence[c]
      BY <1>2, <1>6
    <3>2. FlattenSeq(marks)[i] = marks[k][c]
      BY <1>9, <2>1 DEF IsTable
    <3>3. policy.emit_mask => t.presence = <<FlattenSeq(marks)>>
      BY <1>3
    <3>4. policy.emit_mask => t.presence # << >> /\ t.presence[1] = FlattenSeq(marks)
      BY <3>3
    <3> QED BY <2>2, <3>1, <3>2, <3>4
  <2>5. valid[k][c] <=> c + at \in DOMAIN row /\ row[c + at] # << >>
    <3>1. valid[k] = [d \in 1 .. n |-> rows[k].presence[d] /\ rows[k].values[d] # << >>]
      BY <1>1, <1>6
    <3>2. valid[k][c] = (rows[k].presence[c] /\ rows[k].values[c] # << >>)
      BY <3>1, Zenon
    <3> QED BY <2>2, <3>2
  <2>6. t.validity = << >> \/ t.validity[1][i] <=> valid[k][c]
    <3>1. CASE \E l \in DOMAIN rows : FALSE \in ToSet(valid[l])
      <4>1. t.validity = <<FlattenSeq(valid)>>
        BY <1>3, <3>1
      <4>2. t.validity # << >> /\ t.validity[1] = FlattenSeq(valid)
        BY <4>1
      <4>3. FlattenSeq(valid)[i] = valid[k][c]
        BY <1>10, <2>1 DEF IsTable
      <4> QED BY <4>2, <4>3
    <3>2. CASE ~ \E l \in DOMAIN rows : FALSE \in ToSet(valid[l])
      <4>1. t.validity = << >>
        BY <1>3, <3>2
      <4>2. valid[k][c] # FALSE
        <5>1. valid[k] = [d \in 1 .. n |-> rows[k].presence[d] /\ rows[k].values[d] # << >>]
          BY <1>1, <1>6
        <5>2. c \in DOMAIN valid[k]
          BY <5>1
        <5>3. valid[k][c] \in ToSet(valid[k])
          BY <5>2, Zenon DEF ToSet
        <5> QED BY <1>6, <3>2, <5>3
      <4>3. valid[k][c] \in BOOLEAN
        <5>1. valid[k] = [d \in 1 .. n |-> rows[k].presence[d] /\ rows[k].values[d] # << >>]
          BY <1>1, <1>6
        <5>2. valid[k][c] = (rows[k].presence[c] /\ rows[k].values[c] # << >>)
          BY <5>1, Zenon
        <5> QED BY <5>2
      <4> QED BY <4>1, <4>2, <4>3
    <3> QED BY <3>1, <3>2
  <2> QED BY <2>1, <2>3, <2>4, <2>5, <2>6 DEF CollatedCell
<1> QED BY <1>5, <1>6, <1>11

\* A row of the tensor is a part of the row that was given, at one place.
RowPlaced(in, t, policy, n, k, at) ==
  LET row == in.rows[k]
      inside(c) == c + at \in DOMAIN row
  IN /\ Len(row) <= n => \A p \in DOMAIN row : p - at \in 1 .. n
     /\ Len(row) >= n => \A c \in 1 .. n : inside(c)
     /\ \A c \in 1 .. n :
          LET i == (k - 1) * n + c
          IN /\ t.values[i] = IF inside(c) THEN Filled(row[c + at], policy) ELSE policy.pad_value
             /\ t.validity = << >> \/ t.validity[1][i] <=> inside(c) /\ row[c + at] # << >>
             /\ policy.emit_mask => (t.presence = << >> \/ t.presence[1][i] <=> inside(c))

\* It is the place that the policy asks for.
LEMMA RowsPlaced ==
  ASSUME NEW in, HostRows(in), NEW policy, NEW t, NEW n \in Nat, NEW k \in DOMAIN in.rows,
         \A c \in 1 .. n : CollatedCell(in, t, policy, n, k, c)
  PROVE  \E at \in (0 - n) .. Len(in.rows[k]) : RowPlaced(in, t, policy, n, k, at)
<1>1. PICK row, len, at : /\ row = in.rows[k] /\ len = Len(row)
                          /\ at = Shift(len, n, policy.padding)
                          /\ len \in Nat /\ DOMAIN row = 1 .. len
  <2>1. in.rows[k] \in Seq(ToSet(in.rows[k]))
    BY DEF HostRows
  <2> QED BY <2>1
<1>2. /\ at \in (0 - n) .. len
      /\ len <= n => at \in len - n .. 0
      /\ len > n => at \in 0 .. len - n
  BY <1>1, ShiftWithin
<1>3. len <= n => \A p \in 1 .. len : p - at \in 1 .. n
  BY <1>1, <1>2
<1>4. len >= n => \A c \in 1 .. n : c + at \in 1 .. len
  BY <1>1, <1>2
<1>5. ASSUME NEW c \in 1 .. n, NEW i, i = (k - 1) * n + c
      PROVE  /\ t.values[i] = IF c + at \in DOMAIN row THEN Filled(row[c + at], policy)
                              ELSE policy.pad_value
             /\ t.validity = << >> \/ t.validity[1][i] <=> c + at \in DOMAIN row /\ row[c + at] # << >>
             /\ policy.emit_mask => (t.presence = << >> \/ t.presence[1][i] <=> c + at \in DOMAIN row)
  BY <1>1, <1>5 DEF CollatedCell
<1>6. RowPlaced(in, t, policy, n, k, at)
  BY <1>1, <1>3, <1>4, <1>5 DEF RowPlaced
<1> QED BY <1>1, <1>2, <1>6

\* A named column of the tensor holds the cells of its name.
NamedCell(in, t, policy, n, k, c) ==
  LET given == in.rows[k][IndexOf(in.names[1], t.names[1][c])]
      i == (k - 1) * n + c
  IN /\ t.values[i] = Filled(given, policy)
     /\ t.validity = << >> \/ t.validity[1][i] <=> given # << >>

\* Names are cut where the rows are.
LEMMA NamesPlaced ==
  ASSUME NEW in, HostRows(in), NEW policy, NEW t, NEW n \in Nat, NEW k \in DOMAIN in.rows,
         CollatedShape(in, t, policy, n), t.names # << >>,
         NEW c \in 1 .. n, CollatedCell(in, t, policy, n, k, c)
  PROVE  Len(t.names[1]) = n /\ NamedCell(in, t, policy, n, k, c)
<1>1. in.names # << >>
  BY DEF CollatedShape
<1>2. PICK names, row, len, at :
        /\ names = in.names[1] /\ row = in.rows[k] /\ len = Len(names)
        /\ at = Shift(len, n, policy.padding)
        /\ len \in Nat /\ DOMAIN names = 1 .. len
  <2>1. in.names[1] \in Seq(ToSet(in.names[1]))
    BY <1>1 DEF HostRows
  <2> QED BY <2>1
<1>3. Len(row) = len /\ DOMAIN row = 1 .. len /\ n <= len /\ Unique(names)
  <2>1. Len(row) = len /\ n <= len /\ Unique(names)
    BY <1>1, <1>2 DEF CollatedShape, LengthFits, ValidCollation
  <2>2. row \in Seq(ToSet(row))
    BY <1>2 DEF HostRows
  <2> QED BY <2>1, <2>2
<1>4. at \in 0 .. len - n
  <2>1. CASE len > n
    BY <1>2, <2>1, ShiftWithin
  <2>2. CASE len = n
    BY <1>2, <2>2, ShiftWithin
  <2> QED BY <1>3, <2>1, <2>2
<1>5. c + at \in 1 .. len
  BY <1>2, <1>4
<1>6. Len(t.names[1]) = n /\ t.names[1][c] = names[c + at]
  <2>1. CASE len = n
    <3>1. at = 0 /\ c + at = c
      BY <1>4, <2>1
    <3>2. t.names = in.names
      BY <1>1, <1>2, <2>1 DEF CollatedShape
    <3> QED BY <1>2, <2>1, <3>1, <3>2
  <2>2. CASE len > n
    <3>1. t.names[1] = Window(names, NamesStart(len, n, policy.padding), n)
      BY <1>1, <1>2, <2>2 DEF CollatedShape
    <3>2. NamesStart(len, n, policy.padding) = at
      BY <1>2, <2>2 DEF NamesStart, Shift
    <3>3. t.names[1] = SubSeq(names, at + 1, at + n)
      BY <3>1, <3>2 DEF Window
    <3>4. PICK a \in Nat : a = at /\ a + n <= len
      BY <1>2, <1>4, <2>2
    <3>5. names \in Seq(ToSet(names))
      BY <1>1, <1>2 DEF HostRows
    <3>6. \A i \in a + 1 .. a + n : i \in 1 .. len
      BY <1>2, <3>4
    <3>7. \A i \in a + 1 .. a + n : names[i] \in ToSet(names)
      BY <1>2, <3>6 DEF ToSet
    <3>8. /\ Len(SubSeq(names, a + 1, a + n)) = n
          /\ \A i \in 1 .. n : SubSeq(names, a + 1, a + n)[i] = names[a + i]
      <4>1. (a + n) - (a + 1) + 1 = n /\ \A i \in Int : (a + 1) + i - 1 = a + i
        OBVIOUS
      <4>2. a + 1 <= a + n
        OBVIOUS
      <4> QED BY <1>2, <3>6, <3>7, <4>1, <4>2
    <3>9. a + c = c + at
      BY <3>4
    <3> QED BY <3>3, <3>4, <3>8, <3>9
  <2> QED BY <1>3, <2>1, <2>2
<1>7. IndexOf(names, names[c + at]) = c + at
  <2>1. c + at \in DOMAIN names
    BY <1>2, <1>5
  <2>2. \A i \in DOMAIN names : names[i] = names[c + at] => i = c + at
    BY <1>3, <2>1 DEF Unique
  <2> QED BY <2>1, <2>2 DEF IndexOf
<1>8. in.rows[k][IndexOf(in.names[1], t.names[1][c])] = row[c + at]
  BY <1>2, <1>6, <1>7
<1>9. PICK i : i = (k - 1) * n + c
  OBVIOUS
<1>10. /\ t.values[i] = Filled(row[c + at], policy)
       /\ t.validity = << >> \/ t.validity[1][i] <=> row[c + at] # << >>
  BY <1>2, <1>3, <1>5, <1>9 DEF CollatedCell
<1> QED BY <1>6, <1>8, <1>9, <1>10 DEF NamedCell

\* What CollationFaithful says of rows, their tensor and the policy.
Faithful(in, t, policy) ==
  LET n == t.shape[2]
  IN /\ t.shape[1] = Len(in.rows)
     /\ t.names # << >> =>
          /\ Len(t.names[1]) = n
          /\ \A k \in DOMAIN in.rows, c \in 1 .. n : NamedCell(in, t, policy, n, k, c)
     /\ \A k \in DOMAIN in.rows : \E at \in (0 - n) .. Len(in.rows[k]) :
          RowPlaced(in, t, policy, n, k, at)

\* Collation is faithful to rows of any length and number.
LEMMA CollationExact ==
  ASSUME NEW in, HostRows(in), NEW policy,
         policy.max_length # << >> => policy.max_length[1] \in Nat,
         NEW t, collate_numeric_block(in, policy) = <<t>>
  PROVE  Faithful(in, t, policy)
<1>1. PICK n : n = TargetLength(in, policy)
  OBVIOUS
<1>2. /\ CollatedShape(in, t, policy, n)
      /\ \A k \in DOMAIN in.rows : \A c \in 1 .. n : CollatedCell(in, t, policy, n, k, c)
  BY <1>1, CollatedCells
<1>3. n \in Nat \ {0} /\ t.shape[1] = Len(in.rows) /\ t.shape[2] = n
  BY <1>2 DEF CollatedShape
<1>4. ASSUME NEW k \in DOMAIN in.rows
      PROVE  \E at \in (0 - n) .. Len(in.rows[k]) : RowPlaced(in, t, policy, n, k, at)
  BY <1>2, <1>3, <1>4, RowsPlaced
<1>5. ASSUME t.names # << >>, NEW k \in DOMAIN in.rows, NEW c \in 1 .. n
      PROVE  Len(t.names[1]) = n /\ NamedCell(in, t, policy, n, k, c)
  BY <1>2, <1>3, <1>5, NamesPlaced
<1>6. 1 \in DOMAIN in.rows /\ 1 \in 1 .. n
  <2>1. in.obs # << >> /\ Len(in.obs) = Len(in.rows)
    BY <1>2 DEF CollatedShape, ValidCollation
  <2>2. in.obs \in Seq(ToSet(in.obs)) /\ in.rows \in Seq(ToSet(in.rows))
    BY DEF HostRows
  <2>3. Len(in.rows) # 0
    BY <2>1, <2>2
  <2> QED BY <1>3, <2>2, <2>3
<1> QED BY <1>3, <1>4, <1>5, <1>6 DEF Faithful

(***************************************************************************)
(* What the calls return are lists: what a list is made of does not        *)
(* matter, only that it is one.                                            *)
(***************************************************************************)

IsList(s) == s \in Seq(ToSet(s))

\* What is given for 1, 2, ..., N is a list.
LEMMA Listed ==
  ASSUME NEW N \in Nat, NEW s, s = [k \in 1 .. N |-> s[k]]
  PROVE  IsList(s) /\ DOMAIN s = 1 .. N /\ Len(s) = N
<1>1. \A k \in 1 .. N : s[k] \in ToSet(s)
  BY DEF ToSet
<1>2. s \in Seq(ToSet(s))
  BY <1>1
<1> QED BY <1>2 DEF IsList

\* A list over any set is a list.
LEMMA ListOver ==
  ASSUME NEW S, NEW s \in Seq(S)
  PROVE  IsList(s)
<1>1. PICK N \in Nat : s = [k \in 1 .. N |-> s[k]]
  OBVIOUS
<1> QED BY <1>1, Listed

\* A list has a length, and an element for every place.
LEMMA ListForm ==
  ASSUME NEW s, IsList(s)
  PROVE  \E N \in Nat : /\ N = Len(s) /\ DOMAIN s = 1 .. N /\ s = [k \in 1 .. N |-> s[k]]
<1>1. s \in Seq(ToSet(s))
  BY DEF IsList
<1>2. Len(s) \in Nat /\ DOMAIN s = 1 .. Len(s)
  BY <1>1
<1>3. s = [k \in 1 .. Len(s) |-> s[k]]
  BY <1>1
<1> QED BY <1>2, <1>3

\* What is made of a list, element by element, is a list.
LEMMA ListOf ==
  ASSUME NEW s, IsList(s), NEW t, t = [k \in DOMAIN s |-> t[k]]
  PROVE  IsList(t) /\ DOMAIN t = DOMAIN s
<1>1. PICK N \in Nat : DOMAIN s = 1 .. N
  BY ListForm
<1>2. t = [k \in 1 .. N |-> t[k]]
  BY <1>1
<1> QED BY <1>1, <1>2, Listed

\* Lists in a list are all over one set.
LEMMA ListsOver ==
  ASSUME NEW ss, IsList(ss), \A k \in DOMAIN ss : IsList(ss[k])
  PROVE  \E V : ss \in Seq(Seq(V))
<1>1. PICK N \in Nat : DOMAIN ss = 1 .. N /\ ss = [k \in 1 .. N |-> ss[k]]
  BY ListForm
<1>2. PICK V : V = UNION {ToSet(ss[k]) : k \in 1 .. N}
  OBVIOUS
<1>3. ASSUME NEW k \in 1 .. N PROVE ss[k] \in Seq(V)
  <2>1. PICK row : row = ss[k]
    OBVIOUS
  <2>2. IsList(row)
    BY <1>1, <2>1
  <2>3. PICK n \in Nat : DOMAIN row = 1 .. n /\ row = [c \in 1 .. n |-> row[c]]
    BY <2>2, ListForm
  <2>4. ToSet(row) \subseteq V
    BY <1>2, <2>1
  <2>5. \A c \in 1 .. n : row[c] \in V
    BY <2>3, <2>4 DEF ToSet
  <2>6. row \in Seq(V)
    BY <2>3, <2>5
  <2> QED BY <2>1, <2>6
<1>4. PICK Q : Q = Seq(V)
  OBVIOUS
<1>5. ss \in Seq(Q)
  BY <1>1, <1>3, <1>4
<1>6. ss \in Seq(Seq(V))
  BY <1>4, <1>5
<1> QED BY <1>6

\* Joined lists are a list.
LEMMA JoinedList ==
  ASSUME NEW ss, IsList(ss), \A k \in DOMAIN ss : IsList(ss[k])
  PROVE  IsList(FlattenSeq(ss))
<1>1. PICK V : ss \in Seq(Seq(V))
  BY ListsOver
<1>2. FlattenSeq(ss) \in Seq(V)
  BY <1>1, FlattenTyped
<1> QED BY <1>2, ListOver

\* What is kept of a list is a list.
LEMMA KeptList ==
  ASSUME NEW s, IsList(s), NEW places
  PROVE  IsList(Kept(s, places))
<1>1. s \in Seq(ToSet(s))
  BY DEF IsList
<1>2. Kept(s, places) \in Seq(ToSet(s))
  BY <1>1, KeptTyped
<1> QED BY <1>2, ListOver

\* So is what appears first.
LEMMA FirstList ==
  ASSUME NEW s, IsList(s)
  PROVE  IsList(FirstOf(s))
BY KeptList DEF FirstOf

\* A table, a matrix view and column views become a buffer with the names of
\* the source.
LEMMA TakenNames ==
  ASSUME NEW s
  PROVE  /\ IsOk(from_feature_table(HostTable(s)))
              => from_feature_table(HostTable(s))[1].names = s.names
         /\ IsOk(FromMatrix(MatrixView(s))) => FromMatrix(MatrixView(s))[1].names = s.names
         /\ IsOk(FromColumns(ColumnsView(s))) => FromColumns(ColumnsView(s))[1].names = s.names
<1>1. IsOk(from_feature_table(HostTable(s))) => from_feature_table(HostTable(s))[1].names = s.names
  BY DEF from_feature_table, HostTable, Buffer, Ok, IsOk
<1>2. ASSUME NEW v, IsOk(FromMatrix(v)) PROVE FromMatrix(v)[1].names = v.names
  <2>1. PICK core : core = f64_feature_matrix_view_to_core(v)
    OBVIOUS
  <2>2. IsOk(core) /\ FromMatrix(v) = from_f64_matrix(core[1])
    BY <1>2, <2>1 DEF FromMatrix, IsOk
  <2>3. core[1].names = v.names
    BY <2>1, <2>2 DEF f64_feature_matrix_view_to_core, IsOk, Ok
  <2>4. ASSUME NEW m, IsOk(from_f64_matrix(m)) PROVE from_f64_matrix(m)[1].names = m.names
    BY <2>4, Zenon DEF from_f64_matrix, Buffer, IsOk, Ok
  <2> QED BY <1>2, <2>2, <2>3, <2>4
<1>3. ASSUME NEW v, IsOk(FromColumns(v)) PROVE FromColumns(v)[1].names = v.names
  <2>1. PICK core : core = f64_feature_matrix_columnar_view_to_core(v)
    OBVIOUS
  <2>2. IsOk(core) /\ FromColumns(v) = from_f64_column_matrix(core[1])
    BY <1>3, <2>1 DEF FromColumns, IsOk
  <2>3. core[1].names = v.names
    BY <2>1, <2>2, Zenon DEF f64_feature_matrix_columnar_view_to_core, IsOk, Ok
  <2>4. ASSUME NEW m, IsOk(from_f64_column_matrix(m)) PROVE from_f64_column_matrix(m)[1].names = m.names
    BY <2>4 DEF from_f64_column_matrix, Buffer, IsOk, Ok
  <2> QED BY <1>3, <2>2, <2>3, <2>4
<1>4. MatrixView(s).names = s.names /\ ColumnsView(s).names = s.names
  BY DEF MatrixView, ColumnsView
<1> QED BY <1>1, <1>2, <1>3, <1>4

\* A block of features is made of lists.
ListedBlock(b) == IsList(b.names) /\ IsList(b.obs) /\ IsList(b.samples) /\ IsList(b.values)

\* The columns that are chosen are a list.
LEMMA ChosenList ==
  ASSUME NEW names, IsList(names), NEW columns, columns # << >> => IsList(columns[1]),
         IsOk(selected_feature_indices(names, columns))
  PROVE  IsList(selected_feature_indices(names, columns)[1])
<1>1. PICK chosen : chosen = selected_feature_indices(names, columns)[1]
  OBVIOUS
<1>2. CASE columns = << >>
  <2>1. chosen = [k \in DOMAIN names |-> k]
    BY <1>1, <1>2 DEF selected_feature_indices, Ok
  <2>2. chosen = [k \in DOMAIN names |-> chosen[k]]
    BY <2>1
  <2> QED BY <1>1, <2>2, ListOf
<1>3. CASE columns # << >>
  <2>1. chosen = [k \in DOMAIN columns[1] |-> IndexOf(names, columns[1][k])]
    BY <1>1, <1>3 DEF selected_feature_indices, Ok, IsOk
  <2>2. chosen = [k \in DOMAIN columns[1] |-> chosen[k]]
    BY <2>1
  <2> QED BY <1>1, <1>3, <2>2, ListOf
<1> QED BY <1>2, <1>3

\* A projection of a buffer to a view is made of lists.
LEMMA ProjectedList ==
  ASSUME NEW b, IsList(b.names), NEW view, IsList(view), NEW source,
         NEW columns, columns # << >> => IsList(columns[1]),
         IsOk(project_relations(b, view, source, columns))
  PROVE  ListedBlock(project_relations(b, view, source, columns)[1])
<1>1. PICK block, rows, chosen :
        /\ block = project_relations(b, view, source, columns)[1]
        /\ rows = OfSource(view, source)
        /\ chosen = selected_feature_indices(b.names, columns)[1]
  OBVIOUS
<1>2. IsOk(selected_feature_indices(b.names, columns)) /\ Projected(block, b, rows, chosen)
  BY <1>1, ProjectForm
<1>3. IsList(chosen)
  BY <1>1, <1>2, ChosenList
<1>4. IsList(rows)
  BY <1>1, KeptList DEF OfSource
<1>5. /\ block.names = [i \in DOMAIN chosen |-> b.names[chosen[i]]]
      /\ block.obs = [i \in DOMAIN rows |-> rows[i].obs]
      /\ block.samples = [i \in DOMAIN rows |-> rows[i].sample]
      /\ block.values = [k \in DOMAIN rows |-> [i \in DOMAIN chosen |->
                           FromCell(b.columns[chosen[i]][IndexOf(b.obs, rows[k].obs)])]]
  BY <1>2 DEF Projected, Block, ObsIn, SamplesIn
<1>6. /\ block.names = [i \in DOMAIN chosen |-> block.names[i]]
      /\ block.obs = [i \in DOMAIN rows |-> block.obs[i]]
      /\ block.samples = [i \in DOMAIN rows |-> block.samples[i]]
  BY <1>5
<1>7. block.values = [i \in DOMAIN rows |-> block.values[i]]
  BY <1>5
<1> QED BY <1>1, <1>3, <1>4, <1>6, <1>7, ListOf DEF ListedBlock

\* The sample sets that are aligned are lists.
ListedSets(sets) == IsList(sets) /\ \A i \in DOMAIN sets : IsList(sets[i].samples)

\* Aligned samples are a list.
LEMMA AlignedList ==
  ASSUME NEW sets, ListedSets(sets), NEW mode \in {"inner", "left", "outer"},
         IsOk(build_sample_alignment_plan(sets, mode))
  PROVE  IsList(build_sample_alignment_plan(sets, mode)[1].samples)
<1>1. build_sample_alignment_plan(sets, mode)[1].samples = AlignedSamples(sets, mode)
  BY DEF build_sample_alignment_plan, IsOk, Ok
<1>2. sets # << >>
  BY DEF build_sample_alignment_plan, IsOk
<1>3. 1 \in DOMAIN sets
  <2>1. IsList(sets)
    BY DEF ListedSets
  <2>2. PICK N \in Nat : DOMAIN sets = 1 .. N /\ sets = [k \in 1 .. N |-> sets[k]]
    BY <2>1, ListForm
  <2> QED BY <1>2, <2>2
<1>4. IsList(sets[1].samples)
  BY <1>3 DEF ListedSets
<1>5. CASE mode = "inner"
  <2>1. PICK places : places = {n \in DOMAIN sets[1].samples : InAll(sets, sets[1].samples[n])}
    OBVIOUS
  <2>2. AlignedSamples(sets, mode) = Kept(sets[1].samples, places)
    BY <1>5, <2>1 DEF AlignedSamples
  <2> QED BY <1>1, <1>4, <2>2, KeptList
<1>6. CASE mode = "left"
  BY <1>1, <1>4, <1>6 DEF AlignedSamples
<1>7. CASE mode = "outer"
  <2>1. PICK all : all = [i \in DOMAIN sets |-> sets[i].samples]
    OBVIOUS
  <2>2. AlignedSamples(sets, mode) = FirstOf(FlattenSeq(all))
    BY <1>7, <2>1 DEF AlignedSamples
  <2>3. all = [i \in DOMAIN sets |-> all[i]] /\ \A i \in DOMAIN sets : IsList(all[i])
    BY <2>1 DEF ListedSets
  <2>4. IsList(all) /\ DOMAIN all = DOMAIN sets
    BY <2>3, ListOf DEF ListedSets
  <2>5. IsList(FlattenSeq(all))
    BY <2>3, <2>4, JoinedList
  <2> QED BY <1>1, <2>2, <2>5, FirstList
<1> QED BY <1>5, <1>6, <1>7

\* The blocks of the sources are lists.
ListedBlocks(blocks) == IsList(blocks) /\ \A i \in DOMAIN blocks : ListedBlock(blocks[i].block)

\* The rows of a sample are a list.
LEMMA RowsOfList ==
  ASSUME NEW b, IsList(b.samples), NEW sample
  PROVE  IsList(RowsOf(b, sample))
<1>1. PICK all, places : /\ all = [k \in DOMAIN b.samples |-> k]
                         /\ places = {k \in DOMAIN b.samples : b.samples[k] = sample}
  OBVIOUS
<1>2. all = [k \in DOMAIN b.samples |-> all[k]]
  BY <1>1
<1>3. IsList(all)
  BY <1>2, ListOf
<1> QED BY <1>1, <1>3, KeptList DEF RowsOf

\* The rows of the fused block are a list.
LEMMA OutputList ==
  ASSUME NEW blocks, ListedBlock(blocks[1].block), NEW plan, IsList(plan.samples)
  PROVE  IsList(OutputRows(blocks, plan))
<1>1. PICK parts :
        parts = [i \in DOMAIN plan.samples |->
                   LET rows == RowsOf(blocks[1].block, plan.samples[i])
                   IN [k \in 1 .. (IF rows = << >> THEN 1 ELSE Len(rows)) |->
                         <<plan.samples[i], IF rows = << >> THEN 0 ELSE rows[k]>>]]
  OBVIOUS
<1>2. OutputRows(blocks, plan) = FlattenSeq(parts)
  BY <1>1 DEF OutputRows
<1>3. ASSUME NEW i \in DOMAIN plan.samples PROVE IsList(parts[i])
  <2>1. PICK rows, part, n : /\ rows = RowsOf(blocks[1].block, plan.samples[i])
                             /\ part = parts[i] /\ n = IF rows = << >> THEN 1 ELSE Len(rows)
    OBVIOUS
  <2>2. IsList(rows)
    BY <2>1, RowsOfList DEF ListedBlock
  <2>3. n \in Nat
    <3>1. Len(rows) \in Nat
      BY <2>2, ListForm
    <3> QED BY <2>1, <3>1
  <2>4. part = [k \in 1 .. n |-> <<plan.samples[i], IF rows = << >> THEN 0 ELSE rows[k]>>]
    BY <1>1, <2>1
  <2>5. part = [k \in 1 .. n |-> part[k]]
    BY <2>4
  <2> QED BY <2>1, <2>3, <2>5, Listed
<1>4. parts = [i \in DOMAIN plan.samples |-> parts[i]]
  BY <1>1
<1>5. IsList(parts) /\ DOMAIN parts = DOMAIN plan.samples
  BY <1>4, ListOf
<1> QED BY <1>2, <1>3, <1>5, JoinedList

\* A fused block is made of lists.
LEMMA FusedList ==
  ASSUME NEW blocks, ListedBlocks(blocks), NEW plan, IsList(plan.samples), NEW namespace,
         IsOk(fuse_feature_blocks(blocks, plan, namespace))
  PROVE  ListedBlock(fuse_feature_blocks(blocks, plan, namespace)[1])
<1>1. PICK fused, rows, names : /\ fused = fuse_feature_blocks(blocks, plan, namespace)[1]
                                /\ rows = OutputRows(blocks, plan)
                                /\ names = FusedNames(blocks, namespace)
  BY ZenonT(60)
<1>2. /\ fused.names = names
      /\ fused.obs = [k \in DOMAIN rows |-> IF rows[k][2] = 0 THEN synthetic_observation_id(rows[k][1])
                                            ELSE blocks[1].block.obs[rows[k][2]]]
      /\ fused.samples = [k \in DOMAIN rows |-> rows[k][1]]
      /\ fused.values = [k \in DOMAIN rows |-> FlattenSeq([b \in DOMAIN blocks |->
           LET taken == TakenRow(blocks, b, rows[k])
           IN IF taken = 0 THEN [f \in DOMAIN blocks[b].block.names |-> Null]
              ELSE blocks[b].block.values[taken]])]
  BY <1>1 DEF fuse_feature_blocks, Block, IsOk, Ok
<1>3. IsList(rows)
  <2>1. blocks # << >> /\ IsList(blocks)
    BY DEF fuse_feature_blocks, IsOk, ListedBlocks
  <2>2. PICK N \in Nat : DOMAIN blocks = 1 .. N /\ blocks = [k \in 1 .. N |-> blocks[k]]
    BY <2>1, ListForm
  <2>3. 1 \in DOMAIN blocks
    BY <2>1, <2>2
  <2>4. ListedBlock(blocks[1].block)
    BY <2>3 DEF ListedBlocks
  <2> QED BY <1>1, <2>4, OutputList
<1>4. /\ fused.obs = [k \in DOMAIN rows |-> fused.obs[k]]
      /\ fused.samples = [k \in DOMAIN rows |-> fused.samples[k]]
  BY <1>2
<1>5. fused.values = [k \in DOMAIN rows |-> fused.values[k]]
  BY <1>2
<1>6. IsList(names)
  <2>1. PICK parts :
          parts = [i \in DOMAIN blocks |-> [f \in DOMAIN blocks[i].block.names |->
                     (IF namespace THEN blocks[i].source ELSE << >>) \o blocks[i].block.names[f]]]
    OBVIOUS
  <2>2. names = FlattenSeq(parts)
    BY <1>1, <2>1 DEF FusedNames
  <2>3. ASSUME NEW i \in DOMAIN blocks PROVE IsList(parts[i])
    <3>1. PICK part, given : part = parts[i] /\ given = blocks[i].block.names
      OBVIOUS
    <3>2. part = [f \in DOMAIN given |->
                    (IF namespace THEN blocks[i].source ELSE << >>) \o given[f]]
      BY <2>1, <3>1
    <3>3. part = [f \in DOMAIN given |-> part[f]]
      BY <3>2
    <3>4. IsList(given)
      BY <3>1 DEF ListedBlocks, ListedBlock
    <3> QED BY <3>1, <3>3, <3>4, ListOf
  <2>4. parts = [i \in DOMAIN blocks |-> parts[i]] /\ IsList(blocks)
    BY <2>1 DEF ListedBlocks
  <2>5. IsList(parts) /\ DOMAIN parts = DOMAIN blocks
    BY <2>4, ListOf
  <2> QED BY <2>2, <2>3, <2>5, JoinedList
<1> QED BY <1>1, <1>2, <1>3, <1>4, <1>5, <1>6, ListOf DEF ListedBlock

\* The rows to collate of a fused block are what a host may hold.
LEMMA BlockRows ==
  ASSUME NEW b, ListedBlock(b), IsOk(numeric_input_from_feature_block(b))
  PROVE  HostRows(numeric_input_from_feature_block(b)[1])
<1>1. PICK in : in = numeric_input_from_feature_block(b)[1]
  OBVIOUS
<1>2. /\ in.obs = b.obs /\ in.names = <<b.names>>
      /\ in.rows = [k \in DOMAIN b.values |-> [f \in DOMAIN b.names |-> Cell(b.values[k][f])]]
  BY <1>1 DEF numeric_input_from_feature_block, IsOk, Ok
<1>3. IsList(in.rows) /\ DOMAIN in.rows = DOMAIN b.values
  <2>1. in.rows = [k \in DOMAIN b.values |-> in.rows[k]]
    BY <1>2
  <2> QED BY <2>1, ListOf DEF ListedBlock
<1>4. ASSUME NEW k \in DOMAIN in.rows PROVE IsList(in.rows[k])
  <2>1. PICK row : row = in.rows[k]
    OBVIOUS
  <2>2. row = [f \in DOMAIN b.names |-> Cell(b.values[k][f])]
    BY <1>2, <1>3, <2>1
  <2>3. row = [f \in DOMAIN b.names |-> row[f]]
    BY <2>2
  <2> QED BY <2>1, <2>3, ListOf DEF ListedBlock
<1>5. IsList(in.obs) /\ IsList(in.names[1])
  BY <1>2 DEF ListedBlock
<1> QED BY <1>1, <1>3, <1>4, <1>5 DEF HostRows, IsList

(***************************************************************************)
(* Fusion.                                                                 *)
(***************************************************************************)

\* Joined lists have the elements of each.
LEMMA JoinedElements ==
  ASSUME NEW ss, IsList(ss), \A k \in DOMAIN ss : IsList(ss[k])
  PROVE  \A x : x \in ToSet(FlattenSeq(ss)) <=> \E k \in DOMAIN ss : x \in ToSet(ss[k])
<1>1. PICK N \in Nat : N = Len(ss) /\ DOMAIN ss = 1 .. N
  BY ListForm
<1>2. PICK V : ss \in Seq(Seq(V))
  BY ListsOver
<1>3. \A k \in 1 .. N : ss[k] \in Seq(V)
  BY <1>1, <1>2
<1>4. Len(ss) = N
  BY <1>1
<1>5. PICK e \in [0 .. N -> Seq(V)] : FlattenLoop(e, ss) /\ FlattenSeq(ss) = e[N]
  BY <1>1, <1>2, FlattenRuns
<1> DEFINE Joined(n) == \A x : x \in ToSet(e[n]) <=> \E k \in 1 .. n : x \in ToSet(ss[k])
           S == {n \in Nat : n <= N => Joined(n)}
<1>6. Joined(0)
  <2>1. ToSet(e[0]) = {} /\ 1 .. 0 = {}
    BY <1>5 DEF FlattenLoop, ToSet
  <2> QED BY <2>1
<1>7. ASSUME NEW n \in Nat, Joined(n), n + 1 <= N PROVE Joined(n + 1)
  <2>1. n + 1 \in 1 .. N /\ (n + 1) - 1 = n /\ n \in 0 .. N
    BY <1>7
  <2>2. PICK a, b : a = e[n] /\ b = ss[n + 1]
    OBVIOUS
  <2>3. a \in Seq(V) /\ b \in Seq(V) /\ e[n + 1] = a \o b
    BY <1>1, <1>3, <1>5, <2>1, <2>2 DEF FlattenLoop
  <2>4. ToSet(a \o b) = ToSet(a) \cup ToSet(b)
    <3>1. /\ Len(a) \in Nat /\ DOMAIN a = 1 .. Len(a)
          /\ Len(b) \in Nat /\ DOMAIN b = 1 .. Len(b)
          /\ DOMAIN (a \o b) = 1 .. Len(a) + Len(b)
          /\ \A i \in 1 .. Len(a) + Len(b) : (a \o b)[i] = IF i <= Len(a) THEN a[i] ELSE b[i - Len(a)]
      BY <2>3, ConcatProperties
    <3>2. \A i \in 1 .. Len(a) : i \in 1 .. Len(a) + Len(b) /\ (a \o b)[i] = a[i]
      BY <3>1
    <3>3. \A i \in 1 .. Len(b) :
            Len(a) + i \in 1 .. Len(a) + Len(b) /\ (a \o b)[Len(a) + i] = b[i]
      BY <3>1
    <3>4. \A i \in 1 .. Len(a) + Len(b) :
            \/ i \in 1 .. Len(a)
            \/ i - Len(a) \in 1 .. Len(b) /\ (a \o b)[i] = b[i - Len(a)]
      BY <3>1
    <3>5. \A x : x \in ToSet(a \o b) => x \in ToSet(a) \/ x \in ToSet(b)
      BY <3>1, <3>4 DEF ToSet
    <3>6. \A x : x \in ToSet(a) => x \in ToSet(a \o b)
      BY <3>1, <3>2 DEF ToSet
    <3>7. \A x : x \in ToSet(b) => x \in ToSet(a \o b)
      <4>1. SUFFICES ASSUME NEW i \in 1 .. Len(b) PROVE b[i] \in ToSet(a \o b)
        BY <3>1 DEF ToSet
      <4>2. Len(a) + i \in DOMAIN (a \o b) /\ (a \o b)[Len(a) + i] = b[i]
        BY <3>1, <3>3
      <4> QED BY <4>2 DEF ToSet
    <3> QED BY <3>5, <3>6, <3>7
  <2>5. \A k \in 1 .. n + 1 : k = n + 1 \/ k \in 1 .. n
    OBVIOUS
  <2>6. \A k \in 1 .. n : k \in 1 .. n + 1
    OBVIOUS
  <2>7. n + 1 \in 1 .. n + 1
    OBVIOUS
  <2> QED BY <1>7, <2>2, <2>3, <2>4, <2>5, <2>6, <2>7
<1>8. \A n \in Nat : n \in S
  <2>1. 0 \in S
    BY <1>6
  <2>2. ASSUME NEW n \in Nat, n \in S PROVE n + 1 \in S
    <3>1. n + 1 <= N => n <= N
      OBVIOUS
    <3> HIDE DEF Joined
    <3> QED BY <1>7, <2>2, <3>1
  <2> HIDE DEF S
  <2> QED BY <2>1, <2>2, SetInduction
<1>9. N \in S
  <2> HIDE DEF S
  <2> QED BY <1>8
<1> QED BY <1>1, <1>5, <1>9

\* u[n] is how long the first n lists are together.
Lengths(u, ss) ==
  /\ u[0] = 0
  /\ \A n \in 1 .. Len(ss) : u[n] = u[n - 1] + Len(ss[n])

\* The place of each list in the joined one.
Placed(flat, ss, u) ==
  /\ Len(flat) = u[Len(ss)]
  /\ \A n \in 1 .. Len(ss) :
       /\ u[n - 1] \in Nat
       /\ \A c \in 1 .. Len(ss[n]) :
            u[n - 1] + c \in 1 .. Len(flat) /\ flat[u[n - 1] + c] = ss[n][c]

\* FlattenSeq puts them there.
LEMMA FlattenPlaces ==
  ASSUME NEW V, NEW ss \in Seq(Seq(V)), NEW u, Lengths(u, ss)
  PROVE  FlattenSeq(ss) \in Seq(V) /\ Placed(FlattenSeq(ss), ss, u)
<1>1. PICK e \in [0 .. Len(ss) -> Seq(V)] :
        FlattenLoop(e, ss) /\ FlattenSeq(ss) = e[Len(ss)]
  BY FlattenRuns
<1>2. PICK N \in Nat : N = Len(ss) /\ DOMAIN ss = 1 .. N
  OBVIOUS
<1> DEFINE Upto(n) == /\ Len(e[n]) = u[n]
                      /\ \A m \in 1 .. n :
                           /\ u[m - 1] \in Nat
                           /\ \A c \in 1 .. Len(ss[m]) :
                                u[m - 1] + c \in 1 .. u[n] /\ e[n][u[m - 1] + c] = ss[m][c]
           S == {n \in Nat : n <= N => Upto(n)}
<1>3. Upto(0)
  <2>1. Len(e[0]) = 0 /\ 1 .. 0 = {}
    BY <1>1 DEF FlattenLoop
  <2> QED BY <2>1 DEF Lengths
<1>4. ASSUME NEW n \in Nat, Upto(n), n + 1 <= N PROVE Upto(n + 1)
  <2>1. n + 1 \in 1 .. N /\ (n + 1) - 1 = n /\ n \in 0 .. N
    BY <1>4
  <2>2. PICK x, y : x = e[n] /\ y = ss[n + 1]
    OBVIOUS
  <2>3. x \in Seq(V) /\ y \in Seq(V)
    <3>1. \A r \in DOMAIN ss : ss[r] \in Seq(V)
      OBVIOUS
    <3>2. n + 1 \in DOMAIN ss
      BY <1>2, <2>1
    <3>3. e[n] \in Seq(V)
      BY <1>2, <2>1
    <3> QED BY <2>2, <3>1, <3>2, <3>3
  <2>4. e[n + 1] = x \o y
    <3>1. e[n + 1] = e[(n + 1) - 1] \o ss[n + 1]
      BY <1>1, <1>2, <2>1 DEF FlattenLoop
    <3> QED BY <2>1, <2>2, <3>1
  <2>5. PICK a \in Nat, w \in Nat : a = Len(x) /\ w = Len(y)
    BY <2>3
  <2>6. u[n] = a /\ u[n + 1] = a + w
    <3>1. u[n] = a
      BY <1>4, <2>2, <2>5
    <3>2. u[n + 1] = u[(n + 1) - 1] + Len(ss[n + 1])
      BY <1>2, <2>1 DEF Lengths
    <3> QED BY <2>1, <2>2, <2>5, <3>1, <3>2
  <2>7. /\ Len(x \o y) = a + w
        /\ \A i \in 1 .. a : (x \o y)[i] = x[i]
        /\ \A i \in 1 .. w : (x \o y)[a + i] = y[i]
    <3>1. /\ Len(x \o y) = a + w
          /\ \A i \in 1 .. a + w : (x \o y)[i] = IF i <= a THEN x[i] ELSE y[i - a]
      BY <2>3, <2>5, ConcatProperties
    <3>2. \A i \in 1 .. a : i \in 1 .. a + w /\ i <= a
      OBVIOUS
    <3>3. \A i \in 1 .. w : a + i \in 1 .. a + w /\ ~ (a + i <= a) /\ (a + i) - a = i
      OBVIOUS
    <3> QED BY <3>1, <3>2, <3>3
  <2>8. ASSUME NEW m \in 1 .. n + 1
        PROVE  /\ u[m - 1] \in Nat
               /\ \A c \in 1 .. Len(ss[m]) :
                    u[m - 1] + c \in 1 .. a + w /\ (x \o y)[u[m - 1] + c] = ss[m][c]
    <3>1. CASE m = n + 1
      <4>1. u[m - 1] = a /\ ss[m] = y
        BY <2>1, <2>2, <2>6, <3>1
      <4>2. \A c \in 1 .. w : a + c \in 1 .. a + w
        OBVIOUS
      <4> QED BY <2>5, <2>7, <4>1, <4>2
    <3>2. CASE m # n + 1
      <4>1. m \in 1 .. n
        BY <3>2
      <4>2. /\ u[m - 1] \in Nat
            /\ \A c \in 1 .. Len(ss[m]) : u[m - 1] + c \in 1 .. a /\ x[u[m - 1] + c] = ss[m][c]
        BY <1>4, <2>2, <2>6, <4>1
      <4>3. \A i \in 1 .. a : i \in 1 .. a + w
        OBVIOUS
      <4> QED BY <2>7, <4>2, <4>3
    <3> QED BY <3>1, <3>2
  <2> QED BY <2>4, <2>6, <2>7, <2>8
<1>5. \A n \in Nat : n \in S
  <2>1. 0 \in S
    BY <1>3
  <2>2. ASSUME NEW n \in Nat, n \in S PROVE n + 1 \in S
    <3>1. n + 1 <= N => n <= N
      OBVIOUS
    <3> HIDE DEF Upto
    <3> QED BY <1>4, <2>2, <3>1
  <2> HIDE DEF S
  <2> QED BY <2>1, <2>2, SetInduction
<1>6. Upto(N)
  <2>1. N \in S /\ N <= N
    <3> HIDE DEF S
    <3> QED BY <1>5
  <2> HIDE DEF Upto
  <2> QED BY <2>1
<1>7. FlattenSeq(ss) \in Seq(V)
  BY FlattenTyped
<1> QED BY <1>1, <1>2, <1>6, <1>7 DEF Placed

\* A window on the joined list is the list at its place.
LEMMA FlattenWindow ==
  ASSUME NEW V, NEW ss \in Seq(Seq(V)), NEW u, Lengths(u, ss), NEW n \in 1 .. Len(ss)
  PROVE  Window(FlattenSeq(ss), u[n - 1], Len(ss[n])) = ss[n]
<1>1. PICK flat, part, a, w : /\ flat = FlattenSeq(ss) /\ part = ss[n]
                              /\ a = u[n - 1] /\ w = Len(part)
  OBVIOUS
<1>2. /\ flat \in Seq(V) /\ part \in Seq(V) /\ a \in Nat /\ w \in Nat
      /\ \A c \in 1 .. w : a + c \in 1 .. Len(flat) /\ flat[a + c] = part[c]
  <2>1. flat \in Seq(V) /\ Placed(flat, ss, u)
    BY <1>1, FlattenPlaces
  <2>2. part \in Seq(V)
    <3>1. \A r \in DOMAIN ss : ss[r] \in Seq(V)
      OBVIOUS
    <3> QED BY <1>1, <3>1
  <2> QED BY <1>1, <2>1, <2>2 DEF Placed
<1>3. /\ SubSeq(flat, a + 1, a + w) \in Seq(V)
      /\ Len(SubSeq(flat, a + 1, a + w)) = w
      /\ \A c \in 1 .. w : SubSeq(flat, a + 1, a + w)[c] = part[c]
  <2>1. (a + w) - (a + 1) + 1 = w /\ \A i \in Int : (a + 1) + i - 1 = a + i
    BY <1>2
  <2>2. CASE w = 0
    <3>1. SubSeq(flat, a + 1, a + w) = << >>
      BY <1>2, <2>2
    <3>2. 1 .. w = {} /\ << >> \in Seq(V) /\ Len(<< >>) = w
      BY <2>2
    <3> QED BY <3>1, <3>2
  <2>3. CASE w # 0
    <3>1. a + 1 \in 1 .. Len(flat) /\ a + w \in 1 .. Len(flat)
      <4>1. 1 \in 1 .. w /\ w \in 1 .. w
        BY <1>2, <2>3
      <4> QED BY <1>2, <4>1
    <3>2. \A i \in a + 1 .. a + w : i - a \in 1 .. w /\ i = a + (i - a)
      BY <1>2
    <3>3. \A i \in a + 1 .. a + w : i \in 1 .. Len(flat)
      BY <1>2, <3>2
    <3>4. \A i \in a + 1 .. a + w : flat[i] \in V
      BY <1>2, <3>3
    <3> QED BY <1>2, <2>1, <3>1, <3>3, <3>4
  <2> QED BY <2>2, <2>3
<1>4. SubSeq(flat, a + 1, a + w) = part
  <2>1. PICK sub : sub = SubSeq(flat, a + 1, a + w)
    OBVIOUS
  <2>2. /\ sub \in Seq(V) /\ part \in Seq(V) /\ Len(sub) = w /\ Len(part) = w
        /\ \A c \in 1 .. w : sub[c] = part[c]
    BY <1>1, <1>2, <1>3, <2>1
  <2>3. sub = [c \in 1 .. w |-> sub[c]] /\ part = [c \in 1 .. w |-> part[c]]
    BY <2>2
  <2>4. sub = part
    BY <2>2, <2>3
  <2> QED BY <2>1, <2>4
<1> QED BY <1>1, <1>4 DEF Window

\* The columns of the sources before source b.
Widths(u, blocks) ==
  /\ u[0] = 0
  /\ \A n \in 1 .. Len(blocks) : u[n] = u[n - 1] + Len(blocks[n].block.names)

\* LayoutStart counts them.
LEMMA LayoutCounts ==
  ASSUME NEW blocks, ListedBlocks(blocks)
  PROVE  \E u \in [0 .. Len(blocks) -> Nat] :
           /\ Widths(u, blocks)
           /\ \A b : LayoutStart(blocks, b) = u[b - 1]
<1>1. PICK N \in Nat : N = Len(blocks) /\ DOMAIN blocks = 1 .. N
  BY ListForm DEF ListedBlocks
<1>2. PICK w : w = [n \in 1 .. N |-> Len(blocks[n].block.names)]
  OBVIOUS
<1>3. w \in [1 .. N -> Nat]
  <2>1. ASSUME NEW n \in 1 .. N PROVE Len(blocks[n].block.names) \in Nat
    <3>1. IsList(blocks[n].block.names)
      BY <1>1 DEF ListedBlocks, ListedBlock
    <3> QED BY <3>1, ListForm
  <2> QED BY <1>2, <2>1
<1> DEFINE Eq(x) == x = [n \in 0 .. Len(blocks) |->
                           IF n = 0 THEN 0 ELSE x[n - 1] + Len(blocks[n].block.names)]
<1>4. PICK f : f = [x \in (1 .. N) \X Nat |-> x[2] + w[x[1]]]
  OBVIOUS
<1>5. f \in [(1 .. N) \X Nat -> Nat]
  BY <1>3, <1>4
<1>6. PICK g : Runs(g, Nat, N, f, 0)
  BY <1>5, RecursionExists
<1>7. \A n \in 1 .. N : \A v \in Nat : f[<<n, v>>] = v + w[n]
  BY <1>4
<1>8. Eq(g)
  <2>1. g = [n \in 0 .. N |-> g[n]]
    BY <1>6 DEF Runs
  <2>2. ASSUME NEW n \in 0 .. N
        PROVE  g[n] = IF n = 0 THEN 0 ELSE g[n - 1] + Len(blocks[n].block.names)
    <3>1. n # 0 => n \in 1 .. N /\ n - 1 \in 0 .. N
      OBVIOUS
    <3> QED BY <1>2, <1>6, <1>7, <3>1 DEF Runs
  <2> QED BY <1>1, <2>1, <2>2
<1>9. PICK x : Eq(x) /\ \A b : LayoutStart(blocks, b) = x[b - 1]
  <2>1. PICK x : x = CHOOSE y : Eq(y)
    OBVIOUS
  <2>2. Eq(x)
    <3> HIDE DEF Eq
    <3> QED BY <1>8, <2>1
  <2>3. \A b : LayoutStart(blocks, b) = x[b - 1]
    BY <2>1 DEF LayoutStart
  <2> HIDE DEF Eq
  <2> QED BY <2>2, <2>3
<1>10. x = [n \in 0 .. N |-> x[n]] /\ x[0] = 0
  BY <1>1, <1>9
<1>11. ASSUME NEW n \in 1 .. N PROVE x[n] = x[n - 1] + w[n] /\ w[n] = Len(blocks[n].block.names)
  <2>1. n \in 0 .. N /\ n # 0
    OBVIOUS
  <2> QED BY <1>1, <1>2, <1>9, <2>1
<1>12. Runs(x, Nat, N, f, 0)
  <2> HIDE DEF Eq
  <2>1. ASSUME NEW n \in 1 .. N, x[n - 1] \in Nat PROVE x[n] = f[<<n, x[n - 1]>>]
    BY <1>7, <1>11, <2>1
  <2> QED BY <1>5, <1>10, <2>1, RunsTyped
<1> HIDE DEF Eq
<1> QED BY <1>1, <1>9, <1>10, <1>11, <1>12 DEF Runs, Widths

\* The observations of a sample of a source, in the view.
SampleObs(view, source, sample) ==
  {view[k].obs : k \in {k \in DOMAIN view : view[k].source = <<source>> /\ view[k].sample = sample}}

\* The block that a view selects of a source.
SourceBlock(b, s, view) ==
  LET rows == OfSource(view, <<s.source>>)
  IN /\ IsList(b.names)
     /\ b.obs = ObsIn(rows) /\ b.samples = SamplesIn(rows)
     /\ b.values = [k \in DOMAIN rows |->
                      [c \in DOMAIN b.names |-> HostCell(s, rows[k].obs, b.names[c])]]

\* The cells that a host gave for an observation, and none.
Given(b, s, obs) == [c \in 1 .. Len(b.names) |-> HostCell(s, obs, b.names[c])]
NoCells(b) == [c \in 1 .. Len(b.names) |-> Null]

\* The rows of a source are those of the view.
RowsFrom(rows, view, source) ==
  /\ IsList(rows)
  /\ \A r \in DOMAIN rows : \E n \in DOMAIN view : rows[r] = view[n] /\ view[n].source = <<source>>
  /\ \A n \in DOMAIN view : view[n].source = <<source>> => \E r \in DOMAIN rows : rows[r] = view[n]

\* OfSource selects them.
LEMMA SourceRows ==
  ASSUME NEW view, IsList(view), NEW source
  PROVE  RowsFrom(OfSource(view, <<source>>), view, source)
<1>0. PICK rows : rows = OfSource(view, <<source>>)
  OBVIOUS
<1>1. PICK places : places = {n \in DOMAIN view : <<source>> = << >> \/ view[n].source = <<source>>}
  OBVIOUS
<1>2. places = {n \in DOMAIN view : view[n].source = <<source>>}
  BY <1>1
<1>3. rows = Kept(view, places) /\ view \in Seq(ToSet(view))
  BY <1>0, <1>1 DEF OfSource, IsList
<1>4. ToSet(rows) = {view[n] : n \in DOMAIN view \cap places}
  BY <1>3, KeptElements
<1>5. \A x : x \in ToSet(rows) <=> \E r \in DOMAIN rows : x = rows[r]
  BY DEF ToSet
<1>6. IsList(rows)
  BY <1>3, KeptList
<1>7. ASSUME NEW r \in DOMAIN rows
      PROVE  \E n \in DOMAIN view : rows[r] = view[n] /\ view[n].source = <<source>>
  BY <1>2, <1>4, <1>5
<1>8. ASSUME NEW n \in DOMAIN view, view[n].source = <<source>>
      PROVE  \E r \in DOMAIN rows : rows[r] = view[n]
  <2>1. n \in DOMAIN view \cap places
    BY <1>2, <1>8
  <2>2. view[n] \in ToSet(rows)
    BY <1>4, <2>1
  <2> QED BY <1>5, <2>2
<1> QED BY <1>0, <1>6, <1>7, <1>8 DEF RowsFrom

\* What the rows of a sample are.
RowsFound(b, s, view, sample) ==
  LET rows == RowsOf(b, sample)
      obs == SampleObs(view, s.source, sample)
  IN /\ IsList(rows)
     /\ rows = << >> <=> obs = {}
     /\ \A k \in ToSet(rows) :
          /\ k \in Nat \ {0} /\ k \in DOMAIN b.values
          /\ b.obs[k] \in obs /\ b.values[k] = Given(b, s, b.obs[k])
     /\ \A o \in obs : \E k \in ToSet(rows) : b.obs[k] = o
     /\ rows # << >> => rows[1] \in ToSet(rows)
     /\ Len(rows) <= 1 => \A k \in ToSet(rows) : k = rows[1]

\* They are the observations of the sample in the view.
LEMMA RowsAreFound ==
  ASSUME NEW b, NEW s, NEW view, IsList(view), SourceBlock(b, s, view), NEW sample
  PROVE  RowsFound(b, s, view, sample)
<1>1. PICK rows, obs, selected :
        /\ rows = RowsOf(b, sample) /\ obs = SampleObs(view, s.source, sample)
        /\ selected = OfSource(view, <<s.source>>)
  OBVIOUS
<1>2. /\ IsList(selected)
      /\ \A r \in DOMAIN selected : \E n \in DOMAIN view :
           selected[r] = view[n] /\ view[n].source = <<s.source>>
      /\ \A n \in DOMAIN view : view[n].source = <<s.source>> =>
           \E r \in DOMAIN selected : selected[r] = view[n]
  <2>1. RowsFrom(selected, view, s.source)
    BY <1>1, SourceRows
  <2> QED BY <2>1 DEF RowsFrom
<1>3. PICK N \in Nat : DOMAIN selected = 1 .. N
  BY <1>2, ListForm
<1>4. /\ b.obs = [k \in 1 .. N |-> selected[k].obs]
      /\ b.samples = [k \in 1 .. N |-> selected[k].sample]
      /\ DOMAIN b.values = 1 .. N
      /\ \A k \in 1 .. N : b.values[k] =
           [c \in DOMAIN b.names |-> HostCell(s, selected[k].obs, b.names[c])]
  BY <1>1, <1>3 DEF SourceBlock, ObsIn, SamplesIn
<1>5. PICK all, places : /\ all = [k \in DOMAIN b.samples |-> k]
                         /\ places = {k \in DOMAIN b.samples : b.samples[k] = sample}
  OBVIOUS
<1>6. all = [k \in 1 .. N |-> k] /\ all \in Seq(1 .. N)
  BY <1>4, <1>5
<1>7. rows = Kept(all, places)
  BY <1>1, <1>5 DEF RowsOf
<1>8. ToSet(rows) = {all[n] : n \in DOMAIN all \cap places} /\ rows \in Seq(1 .. N)
  <2>1. PICK R : R = 1 .. N
    OBVIOUS
  <2>2. all \in Seq(R)
    BY <1>6, <2>1
  <2>3. ToSet(Kept(all, places)) = {all[n] : n \in DOMAIN all \cap places}
    BY <2>2, KeptElements
  <2>4. Kept(all, places) \in Seq(R)
    BY <2>2, KeptTyped
  <2> QED BY <1>7, <2>1, <2>3, <2>4
<1>9. \A k : k \in ToSet(rows) <=> k \in 1 .. N /\ selected[k].sample = sample
  BY <1>4, <1>5, <1>6, <1>8
<1>10. /\ IsList(rows)
       /\ rows = << >> <=> ToSet(rows) = {}
       /\ rows # << >> => rows[1] \in ToSet(rows)
       /\ Len(rows) <= 1 => \A k \in ToSet(rows) : k = rows[1]
  <2>1. IsList(rows)
    BY <1>8, ListOver
  <2>2. PICK n \in Nat : n = Len(rows) /\ DOMAIN rows = 1 .. n
    BY <2>1, ListForm
  <2>3. \A x : x \in ToSet(rows) <=> \E r \in 1 .. n : x = rows[r]
    BY <2>2 DEF ToSet
  <2>4. rows = << >> <=> n = 0
    BY <1>8, <2>2
  <2>5. n # 0 => 1 \in 1 .. n
    OBVIOUS
  <2>6. n <= 1 => \A r \in 1 .. n : r = 1
    OBVIOUS
  <2> QED BY <2>1, <2>2, <2>3, <2>4, <2>5, <2>6
<1>11. ASSUME NEW k \in ToSet(rows)
       PROVE  /\ k \in Nat \ {0} /\ k \in DOMAIN b.values
              /\ b.obs[k] \in obs /\ b.values[k] = Given(b, s, b.obs[k])
  <2>1. k \in 1 .. N /\ selected[k].sample = sample /\ b.obs[k] = selected[k].obs
    BY <1>4, <1>9
  <2>2. PICK n \in DOMAIN view : selected[k] = view[n] /\ view[n].source = <<s.source>>
    BY <1>2, <1>3, <2>1
  <2>3. b.obs[k] \in obs
    BY <1>1, <2>1, <2>2 DEF SampleObs
  <2>4. DOMAIN b.names = 1 .. Len(b.names)
    BY ListForm DEF SourceBlock
  <2> QED BY <1>4, <2>1, <2>3, <2>4 DEF Given
<1>12. ASSUME NEW o \in obs PROVE \E k \in ToSet(rows) : b.obs[k] = o
  <2>1. PICK n \in DOMAIN view : /\ view[n].source = <<s.source>> /\ view[n].sample = sample
                                 /\ o = view[n].obs
    BY <1>1 DEF SampleObs
  <2>2. PICK r \in DOMAIN selected : selected[r] = view[n]
    BY <1>2, <2>1
  <2> QED BY <1>3, <1>4, <1>9, <2>1, <2>2
<1>13. rows = << >> <=> obs = {}
  BY <1>10, <1>11, <1>12
<1> QED BY <1>1, <1>10, <1>11, <1>12, <1>13 DEF RowsFound

\* A row of the first source that a sample takes, or none.
TakenFirst(blocks, sample, t) ==
  LET rows == RowsOf(blocks[1].block, sample)
  IN IF rows = << >> THEN t = 0 ELSE t \in ToSet(rows)

\* The rows of the result: each row of the first source of each sample.
OutputOf(rows, blocks, plan) ==
  /\ IsList(rows)
  /\ \A k \in DOMAIN rows : \E i \in DOMAIN plan.samples :
       \E t : rows[k] = <<plan.samples[i], t>> /\ TakenFirst(blocks, plan.samples[i], t)
  /\ \A i \in DOMAIN plan.samples : \A t : TakenFirst(blocks, plan.samples[i], t) =>
       \E k \in DOMAIN rows : rows[k] = <<plan.samples[i], t>>

\* OutputRows has them.
LEMMA OutputElements ==
  ASSUME NEW blocks, IsList(blocks[1].block.samples), NEW plan, IsList(plan.samples)
  PROVE  OutputOf(OutputRows(blocks, plan), blocks, plan)
<1>1. PICK rows, parts :
        /\ rows = OutputRows(blocks, plan)
        /\ parts = [i \in DOMAIN plan.samples |->
                      LET found == RowsOf(blocks[1].block, plan.samples[i])
                      IN [k \in 1 .. (IF found = << >> THEN 1 ELSE Len(found)) |->
                            <<plan.samples[i], IF found = << >> THEN 0 ELSE found[k]>>]]
  OBVIOUS
<1>2. rows = FlattenSeq(parts)
  BY <1>1 DEF OutputRows
<1>3. ASSUME NEW i \in DOMAIN plan.samples
      PROVE  /\ IsList(parts[i])
             /\ \A x : x \in ToSet(parts[i]) <=>
                  \E t : x = <<plan.samples[i], t>> /\ TakenFirst(blocks, plan.samples[i], t)
  <2>1. PICK sample, found, part, n :
          /\ sample = plan.samples[i] /\ found = RowsOf(blocks[1].block, sample)
          /\ part = parts[i] /\ n = IF found = << >> THEN 1 ELSE Len(found)
    OBVIOUS
  <2>2. IsList(found)
    BY <2>1, RowsOfList
  <2>3. PICK m \in Nat : m = Len(found) /\ DOMAIN found = 1 .. m /\ found = [k \in 1 .. m |-> found[k]]
    BY <2>2, ListForm
  <2>4. part = [k \in 1 .. n |-> <<sample, IF found = << >> THEN 0 ELSE found[k]>>] /\ n \in Nat
    BY <1>1, <2>1, <2>3
  <2>5. IsList(part) /\ DOMAIN part = 1 .. n
    <3>1. part = [k \in 1 .. n |-> part[k]]
      BY <2>4
    <3> QED BY <2>4, <3>1, Listed
  <2>6. ASSUME NEW x
        PROVE  x \in ToSet(part) <=> \E t : x = <<sample, t>> /\ TakenFirst(blocks, sample, t)
    <3>1. x \in ToSet(part) <=> \E k \in 1 .. n : x = <<sample, IF found = << >> THEN 0 ELSE found[k]>>
      BY <2>4, <2>5 DEF ToSet
    <3>2. \A t : TakenFirst(blocks, sample, t) <=>
                   IF found = << >> THEN t = 0 ELSE \E k \in 1 .. n : t = found[k]
      BY <2>1, <2>3 DEF TakenFirst, ToSet
    <3>3. found = << >> => 1 \in 1 .. n
      BY <2>1
    <3> QED BY <3>1, <3>2, <3>3
  <2> QED BY <2>1, <2>5, <2>6
<1>4. parts = [i \in DOMAIN plan.samples |-> parts[i]]
  BY <1>1
<1>5. IsList(parts) /\ DOMAIN parts = DOMAIN plan.samples
  BY <1>4, ListOf
<1>6. IsList(rows)
  BY <1>2, <1>3, <1>5, JoinedList
<1>7. \A x : x \in ToSet(rows) <=> \E i \in DOMAIN plan.samples : x \in ToSet(parts[i])
  BY <1>2, <1>3, <1>5, JoinedElements
<1>8. \A x : x \in ToSet(rows) <=> \E k \in DOMAIN rows : x = rows[k]
  BY DEF ToSet
<1>9. ASSUME NEW k \in DOMAIN rows
      PROVE  \E i \in DOMAIN plan.samples :
               \E t : rows[k] = <<plan.samples[i], t>> /\ TakenFirst(blocks, plan.samples[i], t)
  BY <1>3, <1>7, <1>8
<1>10. ASSUME NEW i \in DOMAIN plan.samples, NEW t, TakenFirst(blocks, plan.samples[i], t)
       PROVE  \E k \in DOMAIN rows : rows[k] = <<plan.samples[i], t>>
  BY <1>3, <1>7, <1>8, <1>10
<1> QED BY <1>1, <1>6, <1>9, <1>10 DEF OutputOf

\* The blocks that a view selects of the sources.
SourceBlocks(blocks, sources, view) ==
  /\ IsList(blocks) /\ DOMAIN blocks = DOMAIN sources
  /\ \A b \in DOMAIN blocks :
       /\ blocks[b].source = sources[b].source /\ blocks[b].repr = "tabular_numeric"
       /\ SourceBlock(blocks[b].block, sources[b], view)

\* The cells that block b gives to an output row.
FusedCells(blocks, b, row) ==
  LET taken == TakenRow(blocks, b, row)
  IN IF taken = 0 THEN NoCells(blocks[b].block) ELSE blocks[b].block.values[taken]

\* The row that block b gives to an output row is one of the row's sample.
TakenOf(blocks, b, row) ==
  LET rows == RowsOf(blocks[b].block, row[1])
  IN IF rows = << >> THEN TakenRow(blocks, b, row) = 0
     ELSE TakenRow(blocks, b, row) \in ToSet(rows)

\* A sample that a source knows has its cells there, and another has nulls.
PartOf(part, b, s, view, sample) ==
  LET obs == SampleObs(view, s.source, sample)
  IN IF obs # {} THEN \E o \in obs : part = Given(b, s, o) ELSE part = NoCells(b)

\* So do the cells that a block gives to an output row.
LEMMA PartsFound ==
  ASSUME NEW blocks, NEW sources, NEW view, IsList(view), SourceBlocks(blocks, sources, view),
         NEW b \in DOMAIN blocks, NEW row, TakenOf(blocks, b, row)
  PROVE  /\ PartOf(FusedCells(blocks, b, row), blocks[b].block, sources[b], view, row[1])
         /\ IsList(FusedCells(blocks, b, row))
         /\ Len(FusedCells(blocks, b, row)) = Len(blocks[b].block.names)
<1>1. PICK block, s, sample, rows, taken, part :
        /\ block = blocks[b].block /\ s = sources[b] /\ sample = row[1]
        /\ rows = RowsOf(block, sample) /\ taken = TakenRow(blocks, b, row)
        /\ part = FusedCells(blocks, b, row)
  OBVIOUS
<1>2. SourceBlock(block, s, view)
  BY <1>1 DEF SourceBlocks
<1>3. RowsFound(block, s, view, sample)
  BY <1>2, RowsAreFound
<1>4. part = IF taken = 0 THEN NoCells(block) ELSE block.values[taken]
  BY <1>1 DEF FusedCells
<1>5. PICK n \in Nat : n = Len(block.names)
  BY <1>2, ListForm DEF SourceBlock
<1>6. CASE rows = << >>
  <2>1. taken = 0 /\ SampleObs(view, s.source, sample) = {}
    BY <1>1, <1>3, <1>6 DEF TakenOf, RowsFound
  <2>2. part = NoCells(block)
    BY <1>4, <2>1
  <2>3. part = [c \in 1 .. n |-> part[c]]
    BY <1>5, <2>2 DEF NoCells
  <2>4. IsList(part) /\ Len(part) = n
    BY <2>3, Listed
  <2>5. PartOf(part, block, s, view, sample)
    BY <2>1, <2>2 DEF PartOf
  <2> QED BY <1>1, <1>5, <2>4, <2>5
<1>7. CASE rows # << >>
  <2>1. taken \in ToSet(rows)
    BY <1>1, <1>7 DEF TakenOf
  <2>2. /\ taken # 0 /\ block.obs[taken] \in SampleObs(view, s.source, sample)
        /\ block.values[taken] = Given(block, s, block.obs[taken])
    BY <1>1, <1>3, <2>1 DEF RowsFound
  <2>3. part = Given(block, s, block.obs[taken])
    BY <1>4, <2>2
  <2>4. part = [c \in 1 .. n |-> part[c]]
    BY <1>5, <2>3 DEF Given
  <2>5. IsList(part) /\ Len(part) = n
    BY <2>4, Listed
  <2>6. PartOf(part, block, s, view, sample)
    BY <2>2, <2>3 DEF PartOf
  <2> QED BY <1>1, <1>5, <2>5, <2>6
<1> QED BY <1>6, <1>7

\* Every output row takes such rows.
LEMMA OutputTaken ==
  ASSUME NEW blocks, NEW sources, NEW view, IsList(view), SourceBlocks(blocks, sources, view),
         NEW plan, NEW rows, OutputOf(rows, blocks, plan), NEW k \in DOMAIN rows, NEW b \in DOMAIN blocks
  PROVE  TakenOf(blocks, b, rows[k])
<1>1. PICK row, found : row = rows[k] /\ found = RowsOf(blocks[b].block, row[1])
  OBVIOUS
<1>2. PICK i, t :
        /\ i \in DOMAIN plan.samples
        /\ row = <<plan.samples[i], t>> /\ TakenFirst(blocks, plan.samples[i], t)
  BY <1>1 DEF OutputOf
<1>3. CASE b = 1
  <2>1. TakenRow(blocks, b, row) = t /\ row[1] = plan.samples[i]
    BY <1>2, <1>3 DEF TakenRow
  <2> QED BY <1>1, <1>2, <1>3, <2>1 DEF TakenFirst, TakenOf
<1>4. CASE b # 1
  <2>1. TakenRow(blocks, b, row) = IF found = << >> THEN 0 ELSE found[1]
    BY <1>1, <1>4 DEF TakenRow
  <2>2. RowsFound(blocks[b].block, sources[b], view, row[1])
    BY RowsAreFound DEF SourceBlocks
  <2>3. found # << >> => found[1] \in ToSet(found)
    BY <1>1, <2>2 DEF RowsFound
  <2> QED BY <1>1, <2>1, <2>3 DEF TakenOf
<1> QED BY <1>3, <1>4

\* The blocks that a view selects are made of lists.
LEMMA SourceListed ==
  ASSUME NEW blocks, NEW sources, NEW view, IsList(view), SourceBlocks(blocks, sources, view)
  PROVE  ListedBlocks(blocks)
<1>1. ASSUME NEW b \in DOMAIN blocks PROVE ListedBlock(blocks[b].block)
  <2>1. PICK block, s, rows : /\ block = blocks[b].block /\ s = sources[b]
                              /\ rows = OfSource(view, <<s.source>>)
    OBVIOUS
  <2>2. SourceBlock(block, s, view)
    BY <2>1 DEF SourceBlocks
  <2>3. RowsFrom(rows, view, s.source)
    BY <2>1, SourceRows
  <2>4. IsList(rows)
    BY <2>3 DEF RowsFrom
  <2>5. /\ IsList(block.names)
        /\ block.obs = [k \in DOMAIN rows |-> block.obs[k]]
        /\ block.samples = [k \in DOMAIN rows |-> block.samples[k]]
        /\ block.values = [k \in DOMAIN rows |-> block.values[k]]
    BY <2>1, <2>2 DEF SourceBlock, ObsIn, SamplesIn
  <2>6. IsList(block.obs) /\ IsList(block.samples) /\ IsList(block.values)
    BY <2>4, <2>5, ListOf
  <2> QED BY <2>1, <2>5, <2>6 DEF ListedBlock
<1> QED BY <1>1 DEF ListedBlocks, SourceBlocks

\* Where the columns of a source start, counted by their names.
StartOf(blocks, b) == Len(FlattenSeq([i \in 1 .. (b - 1) |-> blocks[i].block.names]))

\* It is where the layout says.
LEMMA StartCounts ==
  ASSUME NEW blocks, ListedBlocks(blocks), NEW u \in [0 .. Len(blocks) -> Nat], Widths(u, blocks),
         NEW b \in 1 .. Len(blocks) + 1
  PROVE  StartOf(blocks, b) = u[b - 1]
<1>1. PICK N \in Nat : N = Len(blocks) /\ DOMAIN blocks = 1 .. N
  BY ListForm DEF ListedBlocks
<1>2. PICK m \in 0 .. N : m = b - 1
  BY <1>1
<1>3. PICK ss : ss = [i \in 1 .. m |-> blocks[i].block.names]
  OBVIOUS
<1>4. ss = [i \in 1 .. m |-> ss[i]]
  BY <1>3
<1>5. IsList(ss) /\ DOMAIN ss = 1 .. m /\ Len(ss) = m
  <2>1. m \in Nat
    BY <1>2
  <2> QED BY <1>4, <2>1, Listed
<1>6. \A i \in DOMAIN ss : IsList(ss[i])
  <2>1. \A i \in 1 .. m : i \in DOMAIN blocks
    BY <1>1, <1>2
  <2> QED BY <1>3, <1>5, <2>1 DEF ListedBlocks, ListedBlock
<1>7. PICK V : ss \in Seq(Seq(V))
  BY <1>5, <1>6, ListsOver
<1>8. Lengths(u, ss)
  <2>1. \A n \in 1 .. m : n \in 1 .. Len(blocks)
    BY <1>1, <1>2
  <2> QED BY <1>3, <1>5, <2>1 DEF Lengths, Widths
<1>9. Placed(FlattenSeq(ss), ss, u)
  BY <1>7, <1>8, FlattenPlaces
<1>10. Len(FlattenSeq(ss)) = u[m]
  BY <1>5, <1>9 DEF Placed
<1> QED BY <1>2, <1>3, <1>10 DEF StartOf

\* The fused names are as many as those of the sources.
LEMMA NamesCounted ==
  ASSUME NEW blocks, ListedBlocks(blocks), NEW u \in [0 .. Len(blocks) -> Nat], Widths(u, blocks),
         NEW namespace
  PROVE  Len(FusedNames(blocks, namespace)) = u[Len(blocks)]
<1>1. PICK N \in Nat : N = Len(blocks) /\ DOMAIN blocks = 1 .. N
  BY ListForm DEF ListedBlocks
<1>2. PICK ss :
        ss = [i \in DOMAIN blocks |-> [f \in DOMAIN blocks[i].block.names |->
                (IF namespace THEN blocks[i].source ELSE << >>) \o blocks[i].block.names[f]]]
  OBVIOUS
<1>3. FusedNames(blocks, namespace) = FlattenSeq(ss)
  BY <1>2 DEF FusedNames
<1>4. ss = [i \in 1 .. N |-> ss[i]]
  BY <1>1, <1>2
<1>5. IsList(ss) /\ DOMAIN ss = 1 .. N /\ Len(ss) = N
  BY <1>4, Listed
<1>6. ASSUME NEW i \in 1 .. N PROVE IsList(ss[i]) /\ Len(ss[i]) = Len(blocks[i].block.names)
  <2>1. PICK part, given : part = ss[i] /\ given = blocks[i].block.names
    OBVIOUS
  <2>2. part = [f \in DOMAIN given |-> (IF namespace THEN blocks[i].source ELSE << >>) \o given[f]]
    BY <1>1, <1>2, <2>1
  <2>3. part = [f \in DOMAIN given |-> part[f]]
    BY <2>2
  <2>4. IsList(given)
    BY <1>1, <2>1 DEF ListedBlocks, ListedBlock
  <2>5. PICK n \in Nat : n = Len(given) /\ DOMAIN given = 1 .. n
    BY <2>4, ListForm
  <2>6. part = [f \in 1 .. n |-> part[f]]
    BY <2>3, <2>5
  <2>7. IsList(part) /\ Len(part) = n
    BY <2>6, Listed
  <2> QED BY <2>1, <2>5, <2>7
<1>7. PICK V : ss \in Seq(Seq(V))
  BY <1>5, <1>6, ListsOver
<1>8. Lengths(u, ss)
  BY <1>1, <1>5, <1>6 DEF Lengths, Widths
<1>9. Placed(FlattenSeq(ss), ss, u)
  BY <1>7, <1>8, FlattenPlaces
<1> QED BY <1>1, <1>3, <1>5, <1>9 DEF Placed

\* The layout of a fused block: the columns of each source.
LayoutOf(fused, blocks) ==
  [repr |-> "tabular_numeric", total |-> Len(fused.names),
   ranges |-> [b \in DOMAIN blocks |->
                 [source |-> blocks[b].source, count |-> Len(blocks[b].block.names),
                  start |-> StartOf(blocks, b)]]]

\* A result of fusion.
FusedOf(fused, blocks, plan, namespace) ==
  LET rows == OutputRows(blocks, plan)
  IN /\ fused.names = FusedNames(blocks, namespace)
     /\ fused.samples = [k \in DOMAIN rows |-> rows[k][1]]
     /\ fused.values = [k \in DOMAIN rows |->
                          FlattenSeq([b \in DOMAIN blocks |-> FusedCells(blocks, b, rows[k])])]
     /\ blocks # << >> /\ Unique([i \in DOMAIN blocks |-> blocks[i].source])
     /\ \A i \in DOMAIN blocks : ValidBlock(blocks[i].block)
     /\ Broadcastable(blocks, plan)

\* fuse_feature_blocks returns such a result.
LEMMA FuseForm ==
  ASSUME NEW blocks, ListedBlocks(blocks), NEW plan, NEW namespace,
         IsOk(fuse_feature_blocks(blocks, plan, namespace))
  PROVE  FusedOf(fuse_feature_blocks(blocks, plan, namespace)[1], blocks, plan, namespace)
<1>1. PICK fused, rows : /\ fused = fuse_feature_blocks(blocks, plan, namespace)[1]
                         /\ rows = OutputRows(blocks, plan)
  OBVIOUS
<1>2. /\ fused.names = FusedNames(blocks, namespace)
      /\ fused.samples = [k \in DOMAIN rows |-> rows[k][1]]
      /\ fused.values = [k \in DOMAIN rows |-> FlattenSeq([b \in DOMAIN blocks |->
           LET taken == TakenRow(blocks, b, rows[k])
           IN IF taken = 0 THEN [f \in DOMAIN blocks[b].block.names |-> Null]
              ELSE blocks[b].block.values[taken]])]
  BY <1>1 DEF fuse_feature_blocks, Block, IsOk, Ok
<1>3. /\ blocks # << >> /\ Unique([i \in DOMAIN blocks |-> blocks[i].source])
      /\ \A i \in DOMAIN blocks : ValidBlock(blocks[i].block)
      /\ Broadcastable(blocks, plan)
  BY DEF fuse_feature_blocks, IsOk
<1>4. ASSUME NEW k \in DOMAIN rows
      PROVE  [b \in DOMAIN blocks |-> LET taken == TakenRow(blocks, b, rows[k])
                IN IF taken = 0 THEN [f \in DOMAIN blocks[b].block.names |-> Null]
                   ELSE blocks[b].block.values[taken]]
             = [b \in DOMAIN blocks |-> FusedCells(blocks, b, rows[k])]
  <2>1. ASSUME NEW b \in DOMAIN blocks
        PROVE  [f \in DOMAIN blocks[b].block.names |-> Null] = NoCells(blocks[b].block)
    <3>1. PICK names : names = blocks[b].block.names
      OBVIOUS
    <3>2. DOMAIN names = 1 .. Len(names)
      BY <3>1, ListForm DEF ListedBlocks, ListedBlock
    <3>3. [f \in DOMAIN names |-> Null] = [f \in 1 .. Len(names) |-> Null]
      BY <3>2
    <3> QED BY <3>1, <3>3 DEF NoCells
  <2> QED BY <2>1 DEF FusedCells
<1>5. fused.values = [k \in DOMAIN rows |->
                        FlattenSeq([b \in DOMAIN blocks |-> FusedCells(blocks, b, rows[k])])]
  BY <1>2, <1>4
<1> QED BY <1>1, <1>2, <1>3, <1>5, ZenonT(60) DEF FusedOf

\* The layout of the result is accepted for the blocks.
LEMMA LayoutHolds ==
  ASSUME NEW blocks, ListedBlocks(blocks), NEW plan, NEW namespace,
         \A b \in DOMAIN blocks : blocks[b].repr = "tabular_numeric",
         NEW fused, FusedOf(fused, blocks, plan, namespace)
  PROVE  ValidLayout(LayoutOf(fused, blocks), blocks)
<1>1. PICK N \in Nat : N = Len(blocks) /\ DOMAIN blocks = 1 .. N /\ N # 0
  <2>1. PICK N \in Nat : /\ N = Len(blocks) /\ DOMAIN blocks = 1 .. N
                         /\ blocks = [k \in 1 .. N |-> blocks[k]]
    BY ListForm DEF ListedBlocks
  <2>2. N # 0
    <3>1. blocks # << >>
      BY DEF FusedOf
    <3> QED BY <2>1, <3>1
  <2> QED BY <2>1, <2>2
<1>2. PICK u \in [0 .. N -> Nat] : Widths(u, blocks) /\ \A b : LayoutStart(blocks, b) = u[b - 1]
  BY <1>1, LayoutCounts
<1>3. PICK layout : layout = LayoutOf(fused, blocks)
  OBVIOUS
<1>4. ASSUME NEW b \in DOMAIN blocks
      PROVE  /\ layout.ranges[b] = [source |-> blocks[b].source, start |-> LayoutStart(blocks, b),
                                    count |-> Len(blocks[b].block.names)]
             /\ Len(blocks[b].block.names) \in Nat /\ Len(blocks[b].block.names) > 0
             /\ layout.repr = blocks[b].repr
  <2>1. StartOf(blocks, b) = LayoutStart(blocks, b)
    <3>1. b \in 1 .. Len(blocks) + 1
      BY <1>1
    <3>2. StartOf(blocks, b) = u[b - 1]
      BY <1>1, <1>2, <3>1, StartCounts
    <3> QED BY <1>2, <3>2
  <2>2. layout.ranges[b] = [source |-> blocks[b].source, count |-> Len(blocks[b].block.names),
                            start |-> StartOf(blocks, b)]
    BY <1>3 DEF LayoutOf
  <2>3. blocks[b].block.names # << >> /\ IsList(blocks[b].block.names)
    BY DEF FusedOf, ValidBlock, ListedBlocks, ListedBlock
  <2>4. PICK names : names = blocks[b].block.names
    OBVIOUS
  <2>5. PICK n \in Nat : n = Len(names) /\ names = [k \in 1 .. n |-> names[k]]
    BY <2>3, <2>4, ListForm, ZenonT(60)
  <2>6. n # 0
    BY <2>3, <2>4, <2>5
  <2>7. Len(blocks[b].block.names) \in Nat /\ Len(blocks[b].block.names) > 0
    BY <2>4, <2>5, <2>6
  <2>8. layout.repr = blocks[b].repr
    BY <1>3 DEF LayoutOf
  <2> QED BY <2>1, <2>2, <2>7, <2>8
<1>5. Len(layout.ranges) = Len(blocks)
  <2>1. layout.ranges = [b \in 1 .. N |-> layout.ranges[b]]
    BY <1>1, <1>3 DEF LayoutOf
  <2> QED BY <1>1, <2>1, Listed
<1>6. layout.total = LayoutStart(blocks, Len(blocks) + 1) /\ layout.total > 0
  <2>1. layout.total = u[N]
    BY <1>1, <1>2, <1>3, NamesCounted DEF LayoutOf, FusedOf
  <2>2. (N + 1) - 1 = N /\ N \in 1 .. N /\ N - 1 \in 0 .. N
    BY <1>1
  <2>3. LayoutStart(blocks, N + 1) = u[N]
    BY <1>2, <2>2
  <2>4. u[N] = u[N - 1] + Len(blocks[N].block.names) /\ u[N - 1] \in Nat
    BY <1>1, <1>2, <2>2 DEF Widths
  <2>5. Len(blocks[N].block.names) \in Nat /\ Len(blocks[N].block.names) > 0
    BY <1>1, <1>4, <2>2
  <2> QED BY <1>1, <2>1, <2>3, <2>4, <2>5
<1>7. Unique([b \in DOMAIN blocks |-> blocks[b].source]) /\ blocks # << >>
  BY DEF FusedOf
<1>8. ASSUME NEW b \in DOMAIN blocks PROVE layout.ranges[b].count > 0
  <2>1. PICK n, start, source : /\ n = Len(blocks[b].block.names)
                                /\ start = LayoutStart(blocks, b) /\ source = blocks[b].source
    OBVIOUS
  <2>2. layout.ranges[b] = [source |-> source, start |-> start, count |-> n] /\ n > 0
    BY <1>4, <2>1
  <2> QED BY <2>2
<1> QED BY <1>3, <1>4, <1>5, <1>6, <1>7, <1>8 DEF ValidLayout

\* The part of a row of the result that the layout gives to a source.
PartAt(fused, blocks, k, b) ==
  Window(fused.values[k], StartOf(blocks, b), Len(blocks[b].block.names))

\* It is what the block gives to the row.
LEMMA PartsAt ==
  ASSUME NEW blocks, NEW sources, NEW view, IsList(view), SourceBlocks(blocks, sources, view),
         NEW plan, NEW namespace, IsList(plan.samples),
         NEW fused, FusedOf(fused, blocks, plan, namespace),
         NEW rows, rows = OutputRows(blocks, plan), OutputOf(rows, blocks, plan),
         NEW k \in DOMAIN rows, NEW b \in DOMAIN blocks
  PROVE  PartAt(fused, blocks, k, b) = FusedCells(blocks, b, rows[k])
<1>1. ListedBlocks(blocks)
  BY SourceListed
<1>2. PICK N \in Nat : N = Len(blocks) /\ DOMAIN blocks = 1 .. N
  BY <1>1, ListForm DEF ListedBlocks
<1>3. PICK u \in [0 .. Len(blocks) -> Nat] : Widths(u, blocks)
  BY <1>1, LayoutCounts
<1>4. PICK ss : ss = [c \in DOMAIN blocks |-> FusedCells(blocks, c, rows[k])]
  OBVIOUS
<1>5. ss = [c \in 1 .. N |-> ss[c]]
  BY <1>2, <1>4
<1>6. IsList(ss) /\ DOMAIN ss = 1 .. N /\ Len(ss) = N
  BY <1>5, Listed
<1>7. ASSUME NEW c \in 1 .. N PROVE IsList(ss[c]) /\ Len(ss[c]) = Len(blocks[c].block.names)
  <2>1. c \in DOMAIN blocks /\ ss[c] = FusedCells(blocks, c, rows[k])
    BY <1>2, <1>4
  <2>2. TakenOf(blocks, c, rows[k])
    BY <2>1, OutputTaken
  <2> QED BY <2>1, <2>2, PartsFound
<1>8. PICK V : ss \in Seq(Seq(V))
  BY <1>6, <1>7, ListsOver
<1>9. Lengths(u, ss)
  BY <1>2, <1>3, <1>6, <1>7 DEF Lengths, Widths
<1>10. Window(FlattenSeq(ss), u[b - 1], Len(ss[b])) = ss[b]
  <2>1. b \in 1 .. Len(ss)
    BY <1>2, <1>6
  <2> QED BY <1>8, <1>9, <2>1, FlattenWindow
<1>11. fused.values[k] = FlattenSeq(ss)
  BY <1>4 DEF FusedOf
<1>12. StartOf(blocks, b) = u[b - 1]
  <2>1. b \in 1 .. Len(blocks) + 1
    BY <1>2
  <2> QED BY <1>1, <1>3, <2>1, StartCounts
<1>13. Len(ss[b]) = Len(blocks[b].block.names) /\ ss[b] = FusedCells(blocks, b, rows[k])
  BY <1>2, <1>4, <1>7
<1> QED BY <1>10, <1>11, <1>12, <1>13 DEF PartAt

\* The samples that are aligned, by the sources that know them.
AlignedSet(plan, blocks, view) ==
  LET has(b, sample) == SampleObs(view, blocks[b].source, sample) # {}
  IN \A sample : sample \in ToSet(plan.samples) <=>
       CASE plan.mode = "inner" -> \A b \in DOMAIN blocks : has(b, sample)
         [] plan.mode = "left" -> has(1, sample)
         [] plan.mode = "outer" -> \E b \in DOMAIN blocks : has(b, sample)

\* Fusion keeps samples apart and loses nothing.
Fused(fused, blocks, plan, sources, view) ==
  /\ ValidLayout(LayoutOf(fused, blocks), blocks)
  /\ \A k \in DOMAIN fused.values : \A b \in DOMAIN blocks :
       PartOf(PartAt(fused, blocks, k, b), blocks[b].block, sources[b], view, fused.samples[k])
  /\ \A b \in DOMAIN blocks, k \in DOMAIN fused.samples :
       \A obs \in SampleObs(view, blocks[b].source, fused.samples[k]) :
         \E j \in DOMAIN fused.samples :
           /\ fused.samples[j] = fused.samples[k]
           /\ PartAt(fused, blocks, j, b) = Given(blocks[b].block, sources[b], obs)
  /\ ToSet(fused.samples) = ToSet(plan.samples)

\* It does so.
LEMMA FusionExact ==
  ASSUME NEW blocks, NEW sources, NEW view, IsList(view), SourceBlocks(blocks, sources, view),
         NEW plan, NEW namespace, IsList(plan.samples),
         IsOk(fuse_feature_blocks(blocks, plan, namespace))
  PROVE  Fused(fuse_feature_blocks(blocks, plan, namespace)[1], blocks, plan, sources, view)
<1>1. PICK fused, rows : /\ fused = fuse_feature_blocks(blocks, plan, namespace)[1]
                         /\ rows = OutputRows(blocks, plan)
  OBVIOUS
<1>2. ListedBlocks(blocks) /\ FusedOf(fused, blocks, plan, namespace)
  BY <1>1, SourceListed, FuseForm
<1>3. /\ DOMAIN fused.samples = DOMAIN rows /\ DOMAIN fused.values = DOMAIN rows
      /\ \A k \in DOMAIN rows : fused.samples[k] = rows[k][1]
  BY <1>1, <1>2 DEF FusedOf
<1>4. PICK N \in Nat : N = Len(blocks) /\ DOMAIN blocks = 1 .. N /\ 1 \in 1 .. N
  <2>1. PICK N \in Nat : /\ N = Len(blocks) /\ DOMAIN blocks = 1 .. N
                         /\ blocks = [k \in 1 .. N |-> blocks[k]]
    BY <1>2, ListForm DEF ListedBlocks
  <2>2. N # 0
    <3>1. blocks # << >>
      BY <1>2 DEF FusedOf
    <3> QED BY <2>1, <3>1
  <2> QED BY <2>1, <2>2
<1>5. OutputOf(rows, blocks, plan)
  <2>1. IsList(blocks[1].block.samples)
    BY <1>2, <1>4 DEF ListedBlocks, ListedBlock
  <2> QED BY <1>1, <2>1, OutputElements
<1>6. ASSUME NEW k \in DOMAIN rows, NEW b \in DOMAIN blocks
      PROVE  /\ PartAt(fused, blocks, k, b) = FusedCells(blocks, b, rows[k])
             /\ TakenOf(blocks, b, rows[k])
  <2>1. TakenOf(blocks, b, rows[k])
    BY <1>5, OutputTaken
  <2>2. PartAt(fused, blocks, k, b) = FusedCells(blocks, b, rows[k])
    BY <1>1, <1>2, <1>5, PartsAt
  <2> QED BY <2>1, <2>2
<1>7. ValidLayout(LayoutOf(fused, blocks), blocks)
  BY <1>2, LayoutHolds DEF SourceBlocks
<1>8. ASSUME NEW k \in DOMAIN rows, NEW b \in DOMAIN blocks
      PROVE  PartOf(PartAt(fused, blocks, k, b), blocks[b].block, sources[b], view, fused.samples[k])
  <2>1. PartOf(FusedCells(blocks, b, rows[k]), blocks[b].block, sources[b], view, rows[k][1])
    BY <1>6, PartsFound
  <2> QED BY <1>3, <1>6, <2>1
<1>9. ASSUME NEW b \in DOMAIN blocks, NEW k \in DOMAIN rows,
             NEW obs \in SampleObs(view, blocks[b].source, fused.samples[k])
      PROVE  \E j \in DOMAIN rows :
               /\ fused.samples[j] = fused.samples[k]
               /\ PartAt(fused, blocks, j, b) = Given(blocks[b].block, sources[b], obs)
  <2>1. PICK i, t : /\ i \in DOMAIN plan.samples /\ rows[k] = <<plan.samples[i], t>>
                    /\ TakenFirst(blocks, plan.samples[i], t)
    BY <1>5 DEF OutputOf
  <2>2. PICK sample, block, s, found :
          /\ sample = plan.samples[i] /\ block = blocks[b].block /\ s = sources[b]
          /\ found = RowsOf(block, sample)
    OBVIOUS
  <2>3. fused.samples[k] = sample /\ obs \in SampleObs(view, s.source, sample)
    BY <1>3, <2>1, <2>2 DEF SourceBlocks
  <2>4. RowsFound(block, s, view, sample)
    BY <2>2, RowsAreFound DEF SourceBlocks
  <2>5. PICK r \in ToSet(found) : block.obs[r] = obs
    BY <2>2, <2>3, <2>4 DEF RowsFound
  <2>6. found # << >> /\ r # 0 /\ block.values[r] = Given(block, s, obs)
    BY <2>2, <2>3, <2>4, <2>5 DEF RowsFound
  <2>7. CASE b = 1
    <3>1. TakenFirst(blocks, sample, r)
      BY <2>2, <2>5, <2>6, <2>7 DEF TakenFirst
    <3>2. PICK j \in DOMAIN rows : rows[j] = <<sample, r>>
      BY <1>5, <2>1, <2>2, <3>1 DEF OutputOf
    <3>3. FusedCells(blocks, b, rows[j]) = block.values[r]
      <4>1. TakenRow(blocks, b, rows[j]) = r
        BY <2>7, <3>2 DEF TakenRow
      <4> QED BY <2>2, <2>6, <4>1 DEF FusedCells
    <3>4. fused.samples[j] = sample
      BY <1>3, <3>2
    <3> QED BY <1>6, <2>2, <2>3, <2>6, <3>3, <3>4
  <2>8. CASE b # 1
    <3>1. Len(found) <= 1
      <4>1. b \in 2 .. Len(blocks)
        BY <1>4, <2>8
      <4> QED BY <1>2, <2>1, <2>2, <4>1 DEF FusedOf, Broadcastable
    <3>2. r = found[1]
      BY <2>2, <2>4, <2>5, <3>1 DEF RowsFound
    <3>3. TakenRow(blocks, b, rows[k]) = r
      BY <2>1, <2>2, <2>6, <2>8, <3>2 DEF TakenRow
    <3>4. FusedCells(blocks, b, rows[k]) = block.values[r]
      BY <2>2, <2>6, <3>3 DEF FusedCells
    <3> QED BY <1>6, <2>2, <2>6, <3>4
  <2> QED BY <2>7, <2>8
<1>10. ToSet(fused.samples) = ToSet(plan.samples)
  <2>1. \A x : x \in ToSet(fused.samples) <=> \E k \in DOMAIN rows : x = rows[k][1]
    BY <1>3 DEF ToSet
  <2>2. \A x : x \in ToSet(plan.samples) <=> \E i \in DOMAIN plan.samples : x = plan.samples[i]
    BY DEF ToSet
  <2>3. ASSUME NEW k \in DOMAIN rows PROVE rows[k][1] \in ToSet(plan.samples)
    <3>1. PICK i, t : i \in DOMAIN plan.samples /\ rows[k] = <<plan.samples[i], t>>
      BY <1>5 DEF OutputOf
    <3> QED BY <2>2, <3>1
  <2>4. ASSUME NEW i \in DOMAIN plan.samples PROVE plan.samples[i] \in ToSet(fused.samples)
    <3>1. PICK sample, found : sample = plan.samples[i] /\ found = RowsOf(blocks[1].block, sample)
      OBVIOUS
    <3>2. RowsFound(blocks[1].block, sources[1], view, sample)
      BY <1>4, RowsAreFound DEF SourceBlocks
    <3>3. PICK t : t = IF found = << >> THEN 0 ELSE found[1]
      OBVIOUS
    <3>4. TakenFirst(blocks, sample, t)
      BY <3>1, <3>2, <3>3 DEF TakenFirst, RowsFound
    <3>5. PICK k \in DOMAIN rows : rows[k] = <<sample, t>>
      BY <1>5, <3>1, <3>4 DEF OutputOf
    <3> QED BY <2>1, <3>1, <3>5
  <2> QED BY <2>1, <2>2, <2>3, <2>4
<1> QED BY <1>1, <1>3, <1>7, <1>8, <1>9, <1>10 DEF Fused

\* The sample sets of the blocks.
SetsOf(blocks) ==
  [b \in DOMAIN blocks |->
     [source |-> blocks[b].source, samples |-> FirstOf(blocks[b].block.samples)]]

\* An alignment of blocks that a view selects.
LEMMA AlignmentExact ==
  ASSUME NEW blocks, NEW sources, NEW view, IsList(view), SourceBlocks(blocks, sources, view),
         NEW mode \in {"inner", "left", "outer"},
         IsOk(build_sample_alignment_plan(SetsOf(blocks), mode))
  PROVE  /\ IsList(build_sample_alignment_plan(SetsOf(blocks), mode)[1].samples)
         /\ AlignedSet(build_sample_alignment_plan(SetsOf(blocks), mode)[1], blocks, view)
<1>1. PICK sets, plan : /\ sets = SetsOf(blocks)
                        /\ plan = build_sample_alignment_plan(sets, mode)[1]
  OBVIOUS
<1>2. plan.samples = AlignedSamples(sets, mode) /\ plan.mode = mode /\ sets # << >>
  BY <1>1 DEF build_sample_alignment_plan, IsOk, Ok
<1>3. ListedBlocks(blocks)
  BY SourceListed
<1>4. DOMAIN sets = DOMAIN blocks /\ \A b \in DOMAIN blocks : sets[b].samples = FirstOf(blocks[b].block.samples)
  BY <1>1 DEF SetsOf
<1>5. ASSUME NEW b \in DOMAIN blocks
      PROVE  /\ IsList(sets[b].samples)
             /\ \A x : x \in ToSet(sets[b].samples) <=> SampleObs(view, blocks[b].source, x) # {}
  <2>1. PICK block, s : block = blocks[b].block /\ s = sources[b]
    OBVIOUS
  <2>2. IsList(block.samples) /\ sets[b].samples = FirstOf(block.samples)
    BY <1>3, <1>4, <2>1 DEF ListedBlocks, ListedBlock
  <2>3. block.samples \in Seq(ToSet(block.samples))
    BY <2>2 DEF IsList
  <2>4. ToSet(FirstOf(block.samples)) = ToSet(block.samples)
    BY <2>3, FirstOfElements
  <2>5. ASSUME NEW x
        PROVE  x \in ToSet(block.samples) <=> SampleObs(view, s.source, x) # {}
    <3>1. RowsFound(block, s, view, x)
      BY <2>1, RowsAreFound DEF SourceBlocks
    <3>2. PICK rows : rows = OfSource(view, <<s.source>>)
      OBVIOUS
    <3>3. RowsFrom(rows, view, s.source)
      BY <3>2, SourceRows
    <3>4. block.samples = [k \in DOMAIN rows |-> rows[k].sample]
      BY <2>1, <3>2 DEF SourceBlocks, SourceBlock, SamplesIn
    <3>5. x \in ToSet(block.samples) <=> \E k \in DOMAIN rows : rows[k].sample = x
      BY <3>4 DEF ToSet
    <3>6. SampleObs(view, s.source, x) # {} <=>
            \E n \in DOMAIN view : view[n].source = <<s.source>> /\ view[n].sample = x
      BY DEF SampleObs
    <3> QED BY <3>3, <3>5, <3>6 DEF RowsFrom
  <2>6. s.source = blocks[b].source
    BY <2>1 DEF SourceBlocks
  <2>7. IsList(sets[b].samples)
    BY <2>2, FirstList
  <2> QED BY <2>2, <2>4, <2>5, <2>6, <2>7
<1>6. PICK N \in Nat : DOMAIN sets = 1 .. N /\ sets = [k \in 1 .. N |-> sets[k]] /\ IsList(sets)
  <2>1. sets = [b \in DOMAIN blocks |-> sets[b]]
    BY <1>1 DEF SetsOf
  <2>2. IsList(sets)
    BY <1>3, <2>1, ListOf DEF ListedBlocks
  <2> QED BY <2>2, ListForm
<1>7. 1 \in DOMAIN sets
  BY <1>2, <1>6
<1>8. ListedSets(sets)
  BY <1>4, <1>5, <1>6 DEF ListedSets
<1>9. IsList(plan.samples)
  BY <1>1, <1>8, AlignedList
<1>10. CASE mode = "inner"
  <2>1. PICK first, places : /\ first = sets[1].samples
                             /\ places = {n \in DOMAIN first : InAll(sets, first[n])}
    OBVIOUS
  <2>2. plan.samples = Kept(first, places)
    BY <1>2, <1>10, <2>1 DEF AlignedSamples
  <2>3. first \in Seq(ToSet(first))
    BY <1>4, <1>5, <1>7, <2>1 DEF IsList
  <2>4. ToSet(plan.samples) = {first[n] : n \in DOMAIN first \cap places}
    BY <2>2, <2>3, KeptElements
  <2>5. \A x : x \in ToSet(first) <=> \E n \in DOMAIN first : x = first[n]
    BY DEF ToSet
  <2>6. \A x : x \in ToSet(plan.samples) <=> x \in ToSet(first) /\ InAll(sets, x)
    BY <2>1, <2>4, <2>5
  <2>7. \A x : InAll(sets, x) => x \in ToSet(first)
    BY <1>7, <2>1 DEF InAll
  <2>8. \A x : InAll(sets, x) <=> \A b \in DOMAIN blocks : SampleObs(view, blocks[b].source, x) # {}
    BY <1>4, <1>5 DEF InAll
  <2> QED BY <1>1, <1>2, <1>9, <1>10, <2>6, <2>7, <2>8 DEF AlignedSet
<1>11. CASE mode = "left"
  <2>1. plan.samples = sets[1].samples
    BY <1>2, <1>11 DEF AlignedSamples
  <2> QED BY <1>1, <1>2, <1>4, <1>5, <1>7, <1>9, <1>11, <2>1 DEF AlignedSet
<1>12. CASE mode = "outer"
  <2>1. PICK all : all = [i \in DOMAIN sets |-> sets[i].samples]
    OBVIOUS
  <2>2. plan.samples = FirstOf(FlattenSeq(all))
    BY <1>2, <1>12, <2>1 DEF AlignedSamples
  <2>3. all = [i \in DOMAIN sets |-> all[i]] /\ \A i \in DOMAIN sets : IsList(all[i])
    BY <1>4, <1>5, <2>1
  <2>4. IsList(all) /\ DOMAIN all = DOMAIN sets
    BY <1>6, <2>3, ListOf
  <2>5. IsList(FlattenSeq(all))
    BY <2>3, <2>4, JoinedList
  <2>6. FlattenSeq(all) \in Seq(ToSet(FlattenSeq(all)))
    BY <2>5 DEF IsList
  <2>7. ToSet(plan.samples) = ToSet(FlattenSeq(all))
    BY <2>2, <2>6, FirstOfElements
  <2>8. \A x : x \in ToSet(FlattenSeq(all)) <=> \E k \in DOMAIN all : x \in ToSet(all[k])
    BY <2>3, <2>4, JoinedElements
  <2>9. \A x : x \in ToSet(plan.samples) <=>
                 \E b \in DOMAIN blocks : SampleObs(view, blocks[b].source, x) # {}
    BY <1>4, <1>5, <2>1, <2>4, <2>7, <2>8
  <2> QED BY <1>1, <1>2, <1>9, <1>12, <2>9 DEF AlignedSet
<1> QED BY <1>10, <1>11, <1>12

(***************************************************************************)
(* The cells of the host, from its sources to the blocks of a view.        *)
(***************************************************************************)

\* The number that a cell of the host stands for, as f64, or null.
HostNumber(cell) == IF IsNumber(cell) THEN Json("number", as_f64(cell)) ELSE Null

\* The buffer of a source: a block of it has the numbers of the host.
Taken(b, s) ==
  /\ b = Buffer(s.names, s.obs, CellsOf(s)) /\ ValidShape(s.names, s.obs)
  /\ \A r \in DOMAIN s.obs : \A f \in DOMAIN s.names :
       FromCell(ShownCell(s.rows[r][f])) = HostNumber(s.rows[r][f])

\* A finite cell of the host comes back as its f64 number.
LEMMA CellKept ==
  ASSUME NEW cell, JsonCell(cell), Shows(cell) = 1 => F64(cell) # NotFinite
  PROVE  FromCell(ShownCell(cell)) = HostNumber(cell)
<1>1. CASE IsNumber(cell)
  <2>1. ShownCell(cell) = <<as_f64(cell)>>
    BY <1>1 DEF ShownCell, Shows, F64
  <2> QED BY <1>1, <2>1 DEF FromCell, HostNumber
<1>2. CASE ~ IsNumber(cell) /\ cell.kind = "nan"
  BY <1>2 DEF Shows, F64, Filler
<1>3. CASE ~ IsNumber(cell) /\ cell.kind # "nan"
  <2>1. ShownCell(cell) = << >>
    BY <1>3 DEF ShownCell, Shows
  <2> QED BY <1>3, <2>1 DEF FromCell, HostNumber
<1> QED BY <1>1, <1>2, <1>3

\* What a host with a cell for each feature gets is the buffer of its source.
LEMMA BufferTaken ==
  ASSUME NEW s, HostSource(s), InColumns(s), IsOk(HostBuffer(s))
  PROVE  Taken(HostBuffer(s)[1], s)
<1>1. PICK N \in Nat, w \in Nat : /\ N = Len(s.obs) /\ w = Len(s.names)
                                  /\ DOMAIN s.obs = 1 .. N /\ DOMAIN s.names = 1 .. w
                                  /\ DOMAIN s.rows = 1 .. N
  BY HostLists
<1>2. ValidShape(s.names, s.obs) /\ FiniteCells(s)
  BY DEF HostBuffer, IsOk
<1>3. PICK b : b = Buffer(s.names, s.obs, CellsOf(s))
  OBVIOUS
<1>4. HostBuffer(s) = <<b>>
  BY <1>2, <1>3 DEF HostBuffer, Ok
<1>5. ASSUME NEW r \in DOMAIN s.obs, NEW f \in DOMAIN s.names
      PROVE  FromCell(ShownCell(s.rows[r][f])) = HostNumber(s.rows[r][f])
  <2>1. PICK row, cell : row = s.rows[r] /\ cell = row[f]
    OBVIOUS
  <2>2. r \in DOMAIN s.rows
    BY <1>1
  <2>3. row \in Seq(ToSet(row)) /\ w <= Len(row)
    BY <1>1, <2>1, <2>2 DEF HostSource, InColumns
  <2>4. f \in DOMAIN row
    BY <1>1, <2>3
  <2>5. JsonCell(cell)
    BY <2>1, <2>2, <2>4 DEF HostSource
  <2>6. Shows(cell) = 1 => F64(cell) # NotFinite
    BY <1>2, <2>1 DEF FiniteCells
  <2>7. FromCell(ShownCell(cell)) = HostNumber(cell)
    BY <2>5, <2>6, CellKept
  <2> QED BY <2>1, <2>7
<1>6. Taken(b, s)
  BY <1>2, <1>3, <1>5 DEF Taken
<1> QED BY <1>4, <1>6

\* A table has a cell for each feature.
LEMMA TableTaken ==
  ASSUME NEW s, HostSource(s), IsOk(from_feature_table(HostTable(s)))
  PROVE  Taken(from_feature_table(HostTable(s))[1], s)
<1>1. Rectangular(s) /\ from_feature_table(HostTable(s)) = HostBuffer(s)
  BY TableBuffer
<1>2. InColumns(s)
  <2>1. Len(s.names) \in Nat
    BY DEF HostSource
  <2> QED BY <1>1, <2>1 DEF Rectangular, InColumns
<1> QED BY <1>1, <1>2, BufferTaken

\* So have the columns that a host passes.
LEMMA ColumnsTaken ==
  ASSUME NEW s, HostSource(s), InColumns(s), IsOk(FromColumns(ColumnsView(s)))
  PROVE  Taken(FromColumns(ColumnsView(s))[1], s)
BY ColumnsBuffer, BufferTaken

\* A factor of a product is known from the product and the other one.
LEMMA FactorKnown ==
  ASSUME NEW n \in Nat \ {0}, NEW a \in Nat, NEW b \in Nat, a * n = b * n
  PROVE  a = b
<1>1. ASSUME NEW x \in Nat, NEW y \in Nat, x * n = y * n PROVE ~ (x < y)
  <2>1. SUFFICES ASSUME x < y PROVE FALSE
    OBVIOUS
  <2>2. x + 1 <= y /\ x + 1 \in Nat
    BY <2>1
  <2>3. (x + 1) * n <= y * n
    BY <2>2, TimesGrows
  <2>4. (x + 1) * n = x * n + n /\ x * n \in Nat
    OBVIOUS
  <2> QED BY <1>1, <2>3, <2>4
<1>2. ~ (a < b) /\ ~ (b < a)
  BY <1>1
<1> QED BY <1>2

\* And a matrix that is accepted.
LEMMA MatrixTaken ==
  ASSUME NEW s, HostSource(s), OneLength(s), IsOk(FromMatrix(MatrixView(s)))
  PROVE  Taken(FromMatrix(MatrixView(s))[1], s)
<1>1. PICK N \in Nat, w \in Nat : /\ N = Len(s.obs) /\ w = Len(s.names)
                                  /\ DOMAIN s.obs = 1 .. N /\ DOMAIN s.names = 1 .. w
                                  /\ DOMAIN s.rows = 1 .. N
  BY HostLists
<1>2. PICK rows, cells, values : /\ rows = s.rows /\ cells = FlattenSeq(rows)
                                 /\ values = [i \in DOMAIN cells |-> F64(cells[i])]
  OBVIOUS
<1>3. PICK m : m = MatrixView(s)
  OBVIOUS
<1>4. m.names = s.names /\ m.obs = s.obs /\ m.values = values
  BY <1>2, <1>3 DEF MatrixView
<1>5. PICK core : core = f64_feature_matrix_view_to_core(m)
  OBVIOUS
<1>6. IsOk(core) /\ IsOk(from_f64_matrix(core[1]))
  BY <1>3, <1>5 DEF FromMatrix, IsOk
<1>7. core[1].names = s.names /\ core[1].obs = s.obs /\ core[1].values = values
  BY <1>4, <1>5, <1>6 DEF f64_feature_matrix_view_to_core, IsOk, Ok
<1>8. ValidShape(s.names, s.obs) /\ Len(values) = w * N
  BY <1>1, <1>6, <1>7 DEF from_f64_matrix, ValidMatrix, IsOk
<1>9. N # 0
  <2>1. s.obs # << >> /\ s.obs \in Seq(ToSet(s.obs))
    BY <1>8 DEF ValidShape, HostSource
  <2> QED BY <1>1, <2>1
<1>10. PICK v \in Nat : v = Len(s.rows[1])
  <2>1. 1 \in DOMAIN s.rows
    BY <1>1, <1>9
  <2>2. s.rows[1] \in Seq(ToSet(s.rows[1]))
    BY <2>1, Zenon DEF HostSource
  <2> QED BY <2>2
<1>11. rows = [k \in 1 .. N |-> rows[k]]
  BY <1>1, <1>2 DEF HostSource
<1>12. ASSUME NEW k \in 1 .. N PROVE Len(rows[k]) = v /\ rows[k] = [c \in 1 .. v |-> rows[k][c]]
  <2>1. k \in DOMAIN s.rows /\ 1 \in DOMAIN s.rows
    BY <1>1, <1>9
  <2>2. PICK row : row = rows[k]
    OBVIOUS
  <2>3. row \in Seq(ToSet(row)) /\ Len(row) = v
    BY <1>2, <1>10, <2>1, <2>2 DEF HostSource, OneLength
  <2>4. row = [c \in 1 .. v |-> row[c]]
    BY <2>3
  <2> QED BY <2>2, <2>3, <2>4
<1>13. IsTable(cells, rows, N, v)
  BY <1>2, <1>11, <1>12, FlattenTable
<1>14. Len(values) = N * v
  <2>1. PICK M \in Nat : M = N * v
    OBVIOUS
  <2>2. DOMAIN cells = 1 .. M
    BY <1>13, <2>1 DEF IsTable
  <2>3. values = [i \in 1 .. M |-> values[i]]
    BY <1>2, <2>2
  <2>4. Len(values) = M
    BY <2>3, Listed
  <2> QED BY <2>1, <2>4
<1>15. v * N = w * N /\ N \in Nat \ {0}
  BY <1>8, <1>9, <1>14
<1>16. v = w
  BY <1>15, FactorKnown
<1>17. Rectangular(s) /\ InColumns(s)
  <2>1. \A r \in DOMAIN s.rows : Len(s.rows[r]) = w
    BY <1>1, <1>2, <1>12, <1>16
  <2>2. w <= w
    OBVIOUS
  <2> QED BY <1>1, <2>1, <2>2 DEF Rectangular, InColumns
<1> QED BY <1>17, MatrixBuffer, BufferTaken

\* A projection of the buffer of a source is a block of the source.
LEMMA SourceProjected ==
  ASSUME NEW s, NEW b, Taken(b, s), IsList(s.names), NEW view, IsList(view),
         NEW columns, columns # << >> => IsList(columns[1]),
         IsOk(project_relations(b, view, <<s.source>>, columns))
  PROVE  SourceBlock(project_relations(b, view, <<s.source>>, columns)[1], s, view)
<1>1. PICK block, rows, chosen :
        /\ block = project_relations(b, view, <<s.source>>, columns)[1]
        /\ rows = OfSource(view, <<s.source>>)
        /\ chosen = selected_feature_indices(b.names, columns)[1]
  OBVIOUS
<1>2. IsOk(selected_feature_indices(b.names, columns)) /\ Projected(block, b, rows, chosen)
  BY <1>1, ProjectForm
<1>3. b.names = s.names /\ b.obs = s.obs /\ b.columns = CellsOf(s)
  BY DEF Taken, Buffer
<1>4. IsList(block.names)
  <2>1. ListedBlock(block)
    BY <1>1, <1>3, ProjectedList
  <2> QED BY <2>1 DEF ListedBlock
<1>5. /\ block.names = [i \in DOMAIN chosen |-> b.names[chosen[i]]]
      /\ block.obs = ObsIn(rows) /\ block.samples = SamplesIn(rows)
      /\ block.values = [k \in DOMAIN rows |-> [i \in DOMAIN chosen |->
                           FromCell(b.columns[chosen[i]][IndexOf(b.obs, rows[k].obs)])]]
      /\ ToSet(ObsIn(rows)) \subseteq ToSet(b.obs)
  BY <1>2 DEF Projected, Block
<1>6. DOMAIN block.names = DOMAIN chosen
  BY <1>5
<1>7. ASSUME NEW k \in DOMAIN rows, NEW i \in DOMAIN chosen
      PROVE  FromCell(b.columns[chosen[i]][IndexOf(b.obs, rows[k].obs)])
               = HostCell(s, rows[k].obs, block.names[i])
  <2>1. PICK obs, f, r : obs = rows[k].obs /\ f = chosen[i] /\ r = IndexOf(s.obs, obs)
    OBVIOUS
  <2>2. f \in DOMAIN s.names
    BY <1>1, <1>2, <1>3, <2>1, ChosenFeatures
  <2>3. obs \in ToSet(s.obs)
    <3>1. obs \in ToSet(ObsIn(rows))
      BY <2>1 DEF ToSet, ObsIn
    <3> QED BY <1>3, <1>5, <3>1
  <2>4. r \in DOMAIN s.obs
    BY <2>1, <2>3, Found
  <2>5. b.columns[f][r] = ShownCell(s.rows[r][f])
    BY <1>3, <2>2, <2>4 DEF CellsOf
  <2>6. FromCell(b.columns[f][r]) = HostNumber(s.rows[r][f])
    BY <2>2, <2>4, <2>5 DEF Taken
  <2>7. IndexOf(s.names, block.names[i]) = f
    <3>1. PICK name, g : name = s.names[f] /\ g = IndexOf(s.names, name)
      OBVIOUS
    <3>2. block.names[i] = name
      BY <1>3, <1>5, <2>1, <3>1
    <3>3. name \in ToSet(s.names)
      BY <2>2, <3>1 DEF ToSet
    <3>4. g \in DOMAIN s.names /\ s.names[g] = name
      BY <3>1, <3>3, Found
    <3>5. Unique(s.names)
      BY DEF Taken, ValidShape
    <3>6. g = f
      BY <2>2, <3>1, <3>4, <3>5 DEF Unique
    <3> QED BY <3>1, <3>2, <3>6
  <2>8. HostCell(s, obs, block.names[i]) = HostNumber(s.rows[r][f])
    BY <2>1, <2>7 DEF HostCell, HostNumber
  <2> QED BY <1>3, <2>1, <2>6, <2>8
<1>8. block.values = [k \in DOMAIN rows |->
                        [c \in DOMAIN block.names |-> HostCell(s, rows[k].obs, block.names[c])]]
  <2>1. ASSUME NEW k \in DOMAIN rows
        PROVE  [i \in DOMAIN chosen |-> FromCell(b.columns[chosen[i]][IndexOf(b.obs, rows[k].obs)])]
                 = [c \in DOMAIN block.names |-> HostCell(s, rows[k].obs, block.names[c])]
    BY <1>6, <1>7
  <2> QED BY <1>5, <2>1
<1>9. SourceBlock(block, s, view)
  <2>1. block.obs = ObsIn(rows) /\ block.samples = SamplesIn(rows)
    BY <1>5
  <2> QED BY <1>1, <1>4, <1>8, <2>1, Zenon DEF SourceBlock
<1> QED BY <1>1, <1>9

\* The samples of the view that are known as the mode of an alignment asks.
KnownSamples(plan, blocks, sources, view) ==
  LET has(b, sample) == SampleObs(view, sources[b].source, sample) # {}
  IN {s \in {view[k].sample : k \in DOMAIN view} :
        CASE plan.mode = "inner" -> \A b \in DOMAIN blocks : has(b, s)
          [] plan.mode = "left" -> has(1, s)
          [] plan.mode = "outer" -> \E b \in DOMAIN blocks : has(b, s)}

\* What fusion promises, with the columns of each block where a layout says.
Keeps(layout, fused, blocks, plan, sources, view) ==
  LET width(b) == Len(blocks[b].block.names)
      part(k, b) == Window(fused.values[k], layout.ranges[b].start, width(b))
      given(b, obs) == [c \in 1..width(b) |-> HostCell(sources[b], obs, blocks[b].block.names[c])]
      has(b, sample) == SampleObs(view, sources[b].source, sample) # {}
  IN /\ ValidLayout(layout, blocks)
     /\ \A k \in DOMAIN fused.values : \A b \in DOMAIN blocks :
          IF has(b, fused.samples[k])
          THEN \E obs \in SampleObs(view, blocks[b].source, fused.samples[k]) : part(k, b) = given(b, obs)
          ELSE part(k, b) = [c \in 1..width(b) |-> Null]
     /\ \A b \in DOMAIN blocks, k \in DOMAIN fused.samples :
          \A obs \in SampleObs(view, blocks[b].source, fused.samples[k]) :
            \E j \in DOMAIN fused.samples :
              fused.samples[j] = fused.samples[k] /\ part(j, b) = given(b, obs)
     /\ ToSet(fused.samples) = KnownSamples(plan, blocks, sources, view)

\* The layout has them one after the other.
KeepsSamples(fused, blocks, plan, sources, view) ==
  LET width(b) == Len(blocks[b].block.names)
  IN Keeps([repr |-> "tabular_numeric", total |-> Len(fused.names),
            ranges |-> [b \in DOMAIN blocks |->
              [source |-> blocks[b].source, count |-> width(b),
               start |-> Len(FlattenSeq([i \in 1..(b - 1) |-> blocks[i].block.names]))]]],
           fused, blocks, plan, sources, view)

\* They are the aligned samples.
LEMMA SamplesAligned ==
  ASSUME NEW blocks, blocks # << >>, NEW sources, NEW view, SourceBlocks(blocks, sources, view),
         NEW plan, plan.mode \in {"inner", "left", "outer"}, AlignedSet(plan, blocks, view)
  PROVE  ToSet(plan.samples) = KnownSamples(plan, blocks, sources, view)
<1>1. 1 \in DOMAIN blocks
  <2>1. PICK N \in Nat : DOMAIN blocks = 1 .. N /\ blocks = [k \in 1 .. N |-> blocks[k]]
    BY ListForm DEF SourceBlocks
  <2> QED BY <2>1
<1>2. \A b \in DOMAIN blocks : blocks[b].source = sources[b].source
  BY DEF SourceBlocks
<1>3. ASSUME NEW source, NEW s, SampleObs(view, source, s) # {}
      PROVE  s \in {view[k].sample : k \in DOMAIN view}
  BY <1>3 DEF SampleObs
<1>4. CASE plan.mode = "inner"
  BY <1>1, <1>2, <1>3, <1>4 DEF AlignedSet, KnownSamples
<1>5. CASE plan.mode = "left"
  BY <1>1, <1>2, <1>3, <1>5 DEF AlignedSet, KnownSamples
<1>6. CASE plan.mode = "outer"
  BY <1>1, <1>2, <1>3, <1>6 DEF AlignedSet, KnownSamples
<1> QED BY <1>4, <1>5, <1>6

\* Fusion of aligned blocks keeps the promise.
LEMMA FusionKept ==
  ASSUME NEW blocks, NEW sources, NEW view, SourceBlocks(blocks, sources, view),
         NEW plan, plan.mode \in {"inner", "left", "outer"}, AlignedSet(plan, blocks, view),
         NEW fused, Fused(fused, blocks, plan, sources, view)
  PROVE  KeepsSamples(fused, blocks, plan, sources, view)
<1>1. PICK layout : layout = LayoutOf(fused, blocks)
  OBVIOUS
<1>2. /\ layout = [repr |-> "tabular_numeric", total |-> Len(fused.names),
                   ranges |-> [b \in DOMAIN blocks |->
                     [source |-> blocks[b].source, count |-> Len(blocks[b].block.names),
                      start |-> Len(FlattenSeq([i \in 1..(b - 1) |-> blocks[i].block.names]))]]]
      /\ ValidLayout(layout, blocks)
  BY <1>1 DEF LayoutOf, StartOf, Fused
<1>3. ASSUME NEW b \in DOMAIN blocks, NEW k
      PROVE  Window(fused.values[k], layout.ranges[b].start, Len(blocks[b].block.names))
               = PartAt(fused, blocks, k, b)
  <2>1. PICK start : start = StartOf(blocks, b)
    OBVIOUS
  <2>2. layout.ranges[b].start = start
    BY <1>1, <2>1 DEF LayoutOf
  <2> QED BY <2>1, <2>2 DEF PartAt
<1>4. \A b \in DOMAIN blocks : blocks[b].source = sources[b].source
  BY DEF SourceBlocks
<1>5. ASSUME NEW k \in DOMAIN fused.values, NEW b \in DOMAIN blocks
      PROVE  IF SampleObs(view, sources[b].source, fused.samples[k]) # {}
             THEN \E obs \in SampleObs(view, blocks[b].source, fused.samples[k]) :
                    PartAt(fused, blocks, k, b) = Given(blocks[b].block, sources[b], obs)
             ELSE PartAt(fused, blocks, k, b) = NoCells(blocks[b].block)
  BY <1>4 DEF Fused, PartOf
<1>6. ASSUME NEW b \in DOMAIN blocks, NEW k \in DOMAIN fused.samples,
             NEW obs \in SampleObs(view, blocks[b].source, fused.samples[k])
      PROVE  \E j \in DOMAIN fused.samples :
               /\ fused.samples[j] = fused.samples[k]
               /\ PartAt(fused, blocks, j, b) = Given(blocks[b].block, sources[b], obs)
  BY DEF Fused
<1>7. ToSet(fused.samples) = KnownSamples(plan, blocks, sources, view)
  <2>1. blocks # << >>
    BY <1>2 DEF ValidLayout
  <2>2. ToSet(plan.samples) = KnownSamples(plan, blocks, sources, view)
    BY <2>1, SamplesAligned
  <2>3. ToSet(fused.samples) = ToSet(plan.samples)
    BY DEF Fused
  <2> QED BY <2>2, <2>3
<1>8. ASSUME NEW k \in DOMAIN fused.values, NEW b \in DOMAIN blocks,
             NEW part, part = Window(fused.values[k], layout.ranges[b].start, Len(blocks[b].block.names))
      PROVE  IF SampleObs(view, sources[b].source, fused.samples[k]) # {}
             THEN \E obs \in SampleObs(view, blocks[b].source, fused.samples[k]) :
                    part = Given(blocks[b].block, sources[b], obs)
             ELSE part = NoCells(blocks[b].block)
  <2>1. part = PartAt(fused, blocks, k, b)
    BY <1>3, <1>8
  <2> QED BY <1>5, <2>1
<1>9. ASSUME NEW b \in DOMAIN blocks, NEW k \in DOMAIN fused.samples,
             NEW obs \in SampleObs(view, blocks[b].source, fused.samples[k])
      PROVE  \E j \in DOMAIN fused.samples :
               /\ fused.samples[j] = fused.samples[k]
               /\ Window(fused.values[j], layout.ranges[b].start, Len(blocks[b].block.names))
                    = Given(blocks[b].block, sources[b], obs)
  <2>1. PICK j \in DOMAIN fused.samples :
          /\ fused.samples[j] = fused.samples[k]
          /\ PartAt(fused, blocks, j, b) = Given(blocks[b].block, sources[b], obs)
    BY <1>6
  <2>2. Window(fused.values[j], layout.ranges[b].start, Len(blocks[b].block.names))
          = PartAt(fused, blocks, j, b)
    BY <1>3
  <2> QED BY <2>1, <2>2
<1>10. Keeps(layout, fused, blocks, plan, sources, view)
  <2>1. ASSUME NEW k \in DOMAIN fused.values, NEW b \in DOMAIN blocks
        PROVE  IF SampleObs(view, sources[b].source, fused.samples[k]) # {}
               THEN \E obs \in SampleObs(view, blocks[b].source, fused.samples[k]) :
                      Window(fused.values[k], layout.ranges[b].start, Len(blocks[b].block.names))
                        = [c \in 1..Len(blocks[b].block.names) |->
                             HostCell(sources[b], obs, blocks[b].block.names[c])]
               ELSE Window(fused.values[k], layout.ranges[b].start, Len(blocks[b].block.names))
                      = [c \in 1..Len(blocks[b].block.names) |-> Null]
    BY <1>8 DEF Given, NoCells
  <2>2. \A b \in DOMAIN blocks, k \in DOMAIN fused.samples :
          \A obs \in SampleObs(view, blocks[b].source, fused.samples[k]) :
            \E j \in DOMAIN fused.samples :
              /\ fused.samples[j] = fused.samples[k]
              /\ Window(fused.values[j], layout.ranges[b].start, Len(blocks[b].block.names))
                   = [c \in 1..Len(blocks[b].block.names) |->
                        HostCell(sources[b], obs, blocks[b].block.names[c])]
    BY <1>9 DEF Given
  <2>3. ValidLayout(layout, blocks)
    BY <1>2
  <2> QED BY <1>7, <2>1, <2>2, <2>3, Zenon DEF Keeps
<1> QED BY <1>2, <1>10 DEF KeepsSamples

\* What holds of one table, whatever other tables are asked for.
TableAgrees(view, tables, t) ==
  LET single == target_values(view, tables[t])
      multi == multi_target_values(view, tables)
  IN /\ IsOk(single) => \A i, j \in DOMAIN single[1].values :
          target_value_shape(single[1].values[i]) = target_value_shape(single[1].values[j])
     /\ IsOk(single) /\ IsOk(multi) =>
          \A i \in DOMAIN single[1].samples : SameValue(single[1], multi[1], t, i)
     /\ IsOk(multi) => \A i \in DOMAIN multi[1].samples :
          multi[1].masks[t][i] =>
            \E v \in DOMAIN tables[t].values :
              /\ tables[t].values[v].sample = multi[1].samples[i]
              /\ tables[t].values[v].value = multi[1].values[t][i]

\* It does hold of each.
LEMMA TablesAgree ==
  ASSUME NEW R, NEW view \in Seq(R), NEW tables, NEW t \in DOMAIN tables
  PROVE  TableAgrees(view, tables, t)
<1>1. PICK single, multi : /\ single = target_values(view, tables[t])
                           /\ multi = multi_target_values(view, tables)
  OBVIOUS
<1>2. ASSUME IsOk(single) PROVE target_values(view, tables[t]) = <<single[1]>>
  BY <1>1, <1>2, SingleForm
<1>3. ASSUME IsOk(multi) PROVE multi_target_values(view, tables) = <<multi[1]>>
  BY <1>1, <1>3, MultiForm
<1>4. ASSUME IsOk(single), NEW i \in DOMAIN single[1].values
      PROVE  target_value_shape(single[1].values[i])
               = target_value_shape(tables[t].values[1].value)
  BY <1>2, <1>4, OneShape
<1>5. ASSUME IsOk(single), IsOk(multi), NEW i \in DOMAIN single[1].samples
      PROVE  SameValue(single[1], multi[1], t, i)
  BY <1>2, <1>3, <1>5, RoutesAgree
<1>6. ASSUME IsOk(multi), NEW i \in DOMAIN multi[1].samples, multi[1].masks[t][i]
      PROVE  \E v \in DOMAIN tables[t].values :
               /\ tables[t].values[v].sample = multi[1].samples[i]
               /\ tables[t].values[v].value = multi[1].values[t][i]
  BY <1>3, <1>6, MultiKnown
<1> QED BY <1>1, <1>4, <1>5, <1>6 DEF TableAgrees

\* A sample has one value for a target, whether one target is asked for or
\* several; the values are of one kind and width; what is not masked stands in
\* the table (target_values and multi_target_values, handle.rs).
THEOREM TargetRoutesProved == DataSpec => []TargetRoutesAgree
<1>1. ASSUME job \in Jobs PROVE TargetRoutesAgree
  <2> SUFFICES ASSUME job.kind = "targets", stage = "host" PROVE TargetRoutesAgree
    BY DEF TargetRoutesAgree
  <2>1. PICK view, tables : view = job.view /\ tables = job.tables
    OBVIOUS
  <2>2. view \in Seq(ToSet(view))
    BY <1>1, <2>1, TargetsAssumption
  <2>3. \A t \in DOMAIN tables : TableAgrees(view, tables, t)
    BY <2>2, TablesAgree
  <2>4. ASSUME NEW t \in DOMAIN job.tables PROVE TableAgrees(job.view, job.tables, t)
    BY <2>1, <2>3
  <2> QED BY <2>4, Zenon DEF TargetRoutesAgree, TableAgrees, SameValue
<1> QED BY <1>1, JobsKept, PTL

\* What holds of one source and one selection of columns.
SourceAgrees(s, view, columns) ==
  LET buffer == from_feature_table(HostTable(s))
      rows == OfSource(view, <<s.source>>)
      table == feature_values(rows, HostTable(s), columns)
      rectangular == \A r \in DOMAIN s.rows : Len(s.rows[r]) = Len(s.names)
  IN /\ rectangular => FromMatrix(MatrixView(s)) = FromColumns(ColumnsView(s))
     /\ IsOk(buffer) =>
       /\ FromMatrix(MatrixView(s)) = buffer
       /\ from_f64_column_matrix(to_f64_column_matrix(buffer[1])) = buffer
       /\ LET block == project_relations(buffer[1], view, <<s.source>>, columns)
              flat == project_relations_f64(buffer[1], view, <<s.source>>, columns)
          IN IsOk(block) =>
               /\ IsOk(table) /\ InF64(table[1]) = block[1]
               /\ IsOk(flat) => flat[1].values =
                    FlattenSeq([k \in DOMAIN rows |-> [c \in DOMAIN block[1].names |->
                                  block[1].values[k][c].v]])

\* It does hold of each.
LEMMA SourcesAgree ==
  ASSUME NEW s, HostSource(s), NEW R, NEW view \in Seq(R),
         NEW columns, columns # << >> => columns[1] \in Seq(ToSet(columns[1]))
  PROVE  SourceAgrees(s, view, columns)
<1>1. PICK buffer, source : buffer = from_feature_table(HostTable(s)) /\ source = <<s.source>>
  OBVIOUS
<1>2. ASSUME Rectangular(s) PROVE FromMatrix(MatrixView(s)) = FromColumns(ColumnsView(s))
  BY <1>2, MatrixBuffer, ColumnsBuffer
<1>3. ASSUME IsOk(buffer)
      PROVE  /\ FromMatrix(MatrixView(s)) = buffer
             /\ from_f64_column_matrix(to_f64_column_matrix(buffer[1])) = buffer
  <2>1. /\ Rectangular(s) /\ buffer = HostBuffer(s)
        /\ HostBuffer(s) = <<Buffer(s.names, s.obs, CellsOf(s))>>
    BY <1>1, <1>3, TableBuffer
  <2>2. FromMatrix(MatrixView(s)) = buffer
    BY <2>1, MatrixBuffer
  <2>3. buffer = <<buffer[1]>>
    BY <2>1
  <2>4. PICK N \in Nat, w \in Nat : N = Len(s.obs) /\ w = Len(s.names)
    BY DEF HostSource
  <2>5. FiniteBuffer(buffer[1], N, w)
    BY <1>1, <1>3, <2>4, TableFinite
  <2>6. from_f64_column_matrix(to_f64_column_matrix(buffer[1])) = <<buffer[1]>>
    BY <2>5, RoundTrip
  <2> QED BY <2>2, <2>3, <2>6
<1>4. ASSUME IsOk(buffer), NEW block, block = project_relations(buffer[1], view, source, columns),
             NEW flat, flat = project_relations_f64(buffer[1], view, source, columns),
             NEW rows, rows = OfSource(view, source), IsOk(block)
      PROVE  /\ IsOk(feature_values(rows, HostTable(s), columns))
             /\ InF64(feature_values(rows, HostTable(s), columns)[1]) = block[1]
             /\ IsOk(flat) => flat[1].values =
                    FlattenSeq([k \in DOMAIN rows |-> [c \in DOMAIN block[1].names |->
                                  block[1].values[k][c].v]])
  <2>1. /\ IsOk(feature_values(rows, HostTable(s), columns))
        /\ InF64(feature_values(rows, HostTable(s), columns)[1]) = block[1]
    BY <1>1, <1>4, BlockAgrees
  <2>2. ASSUME IsOk(flat)
        PROVE  flat[1].values =
                    FlattenSeq([k \in DOMAIN rows |-> [c \in DOMAIN block[1].names |->
                                  block[1].values[k][c].v]])
    <3>1. PICK b : b = buffer[1]
      OBVIOUS
    <3>2. b = Buffer(s.names, s.obs, CellsOf(s)) /\ ValidShape(s.names, s.obs)
      <4>1. /\ ValidShape(s.names, s.obs) /\ buffer = HostBuffer(s)
            /\ HostBuffer(s) = <<Buffer(s.names, s.obs, CellsOf(s))>>
        BY <1>1, <1>4, TableBuffer
      <4> QED BY <3>1, <4>1
    <3>3. b.names \in Seq(ToSet(b.names)) /\ ValidShape(b.names, b.obs)
      BY <3>2 DEF Buffer, HostSource
    <3>4. PICK only : block = <<only>>
      <4>1. block = <<block[1]>>
        BY <1>4, <3>1, ProjectForm
      <4> QED BY <4>1
    <3>5. PICK values : values = [k \in DOMAIN rows |-> [c \in DOMAIN only.names |->
                                    only.values[k][c].v]]
      OBVIOUS
    <3>6. flat[1].values = FlattenSeq(values)
      <4>1. CellValues(values, rows, only)
        BY <3>5 DEF CellValues
      <4>2. project_relations(b, view, source, columns) = <<only>>
        BY <1>4, <3>1, <3>4
      <4>3. IsOk(project_relations_f64(b, view, source, columns))
        BY <1>4, <2>2, <3>1
      <4>4. project_relations_f64(b, view, source, columns)[1].values = FlattenSeq(values)
        BY <1>4, <3>3, <4>1, <4>2, <4>3, FlatAgrees
      <4> QED BY <1>4, <3>1, <4>4
    <3>7. only = block[1]
      BY <3>4, Zenon
    <3> QED BY <3>5, <3>6, <3>7
  <2> QED BY <2>1, <2>2
<1> QED BY <1>1, <1>2, <1>3, <1>4 DEF SourceAgrees, Rectangular

\* A JSON table and the two kinds of f64 views of the same cells become the same
\* buffer, which survives the way through columns; what a view selects from it is
\* what it selects from the table, each number converted to f64, for whatever
\* conversion as_f64 is (buffer.rs, handle.rs, capi lib.rs).
THEOREM BuffersProved == DataSpec => []BuffersAgree
<1>1. ASSUME job \in Jobs PROVE BuffersAgree
  <2> SUFFICES ASSUME job.kind = "features", stage = "host" PROVE BuffersAgree
    BY Zenon DEF BuffersAgree
  <2>1. ASSUME NEW i \in DOMAIN job.sources, NEW columns \in Columns
        PROVE  SourceAgrees(job.sources[i], job.view, columns)
    <3>1. PICK s, view : s = job.sources[i] /\ view = job.view
      OBVIOUS
    <3>2. HostSource(s)
      BY <1>1, <3>1, FeaturesAssumption DEF HostSource, JsonCell
    <3>3. view \in Seq(ToSet(view))
      BY <1>1, <3>1, FeaturesAssumption
    <3>4. columns # << >> => columns[1] \in Seq(ToSet(columns[1]))
      BY FeaturesAssumption
    <3>5. SourceAgrees(s, view, columns)
      BY <3>2, <3>3, <3>4, SourcesAgree, Zenon
    <3> QED BY <3>1, <3>5
  <2> QED BY <2>1, ZenonT(60) DEF BuffersAgree, SourceAgrees
<1> QED BY <1>1, JobsKept, PTL
(***************************************************************************)
(* The invariant of the data path, as far as collation needs it: the       *)
(* results of the calls are lists, with an element for every place.        *)
(***************************************************************************)

FeatureInv ==
  /\ stage = "buffered" => \A i \in DOMAIN job.sources : IsList(out.buffers[1][i].names)
  /\ stage \in {"projected", "aligned"} => ListedBlocks(out.blocks[1])
  /\ stage = "aligned" => IsList(out.plan[1].samples)
  /\ stage = "fused" => ListedBlock(out.fused[1])
  /\ CollationFaithful

\* A call that fails, or is about something else, leaves nothing to check.
LEMMA ElsewhereStep ==
  ASSUME stage' \notin {"buffered", "projected", "aligned", "fused", "collated"}
  PROVE  FeatureInv'
BY Zenon DEF FeatureInv, CollationFaithful

\* What a call does.
LEMMA CallTaken ==
  ASSUME TensorInv, NEW from, NEW to, NEW name \in ResultNames, NEW result,
         Call(from, to, name, result)
  PROVE  /\ job' = job /\ stage = from
         /\ \/ stage' = "refused"
            \/ /\ stage' = to /\ IsOk(result) /\ out'[name] = result
               /\ \A n \in ResultNames \ {name} : out'[n] = out[n]
BY DEF Call, TensorInv

\* All results, when none of them is an error.
LEMMA AllTaken ==
  ASSUME NEW results, IsOk(All(results))
  PROVE  /\ \A i \in DOMAIN results : IsOk(results[i])
         /\ All(results)[1] = [i \in DOMAIN results |-> results[i][1]]
BY DEF All, IsOk, Ok

\* The sources are taken in by one of the three routes.
LEMMA IngestStep ==
  ASSUME TensorInv, job.kind = "features", NEW results, DOMAIN results = DOMAIN job.sources,
         \A i \in DOMAIN job.sources : IsOk(results[i]) => results[i][1].names = job.sources[i].names,
         Call("host", "buffered", "buffers", All(results))
  PROVE  FeatureInv'
<1>1. "buffered" # "refused" /\ "buffers" \in ResultNames
  BY DEF ResultNames
<1>2. CASE stage' = "refused"
  BY <1>2, ElsewhereStep
<1>3. CASE stage' # "refused"
  <2>1. /\ job' = job /\ stage' = "buffered"
        /\ IsOk(All(results)) /\ out'.buffers = All(results)
    BY <1>1, <1>3, CallTaken
  <2>2. ASSUME NEW i \in DOMAIN job.sources PROVE IsList(out'.buffers[1][i].names)
    <3>1. out'.buffers[1] = [k \in DOMAIN results |-> results[k][1]] /\ IsOk(results[i])
      BY <2>1, AllTaken
    <3>2. out'.buffers[1][i].names = job.sources[i].names
      BY <3>1
    <3>3. IsList(job.sources[i].names)
      BY FeaturesAssumption, Zenon DEF TensorInv, IsList
    <3> QED BY <3>2, <3>3
  <2>3. CollationFaithful'
    BY <2>1, Zenon DEF CollationFaithful
  <2> QED BY <2>1, <2>2, <2>3 DEF FeatureInv
<1> QED BY <1>2, <1>3

\* The buffers are projected to the view.
LEMMA BlocksStep ==
  ASSUME TensorInv, FeatureInv, NEW columns \in Columns, Project(columns)
  PROVE  FeatureInv'
<1>1. PICK view, blocks, results :
        /\ view = job.view
        /\ blocks = [i \in DOMAIN job.sources |->
                       project_relations(out.buffers[1][i], view, <<job.sources[i].source>>,
                                         IF i = 1 THEN columns ELSE << >>)]
        /\ results = [i \in DOMAIN job.sources |->
                        IF IsOk(blocks[i])
                        THEN Ok([source |-> job.sources[i].source, repr |-> "tabular_numeric",
                                 block |-> blocks[i][1]])
                        ELSE Err]
  OBVIOUS
<1>2. job.kind = "features" /\ Call("buffered", "projected", "blocks", All(results))
  BY <1>1 DEF Project
<1>3. "blocks" \in ResultNames
  BY DEF ResultNames
<1>4. CASE stage' = "refused"
  BY <1>4, ElsewhereStep
<1>5. CASE stage' # "refused"
  <2>1. /\ job' = job /\ stage = "buffered" /\ stage' = "projected"
        /\ IsOk(All(results)) /\ out'.blocks = All(results)
    BY <1>2, <1>3, <1>5, CallTaken
  <2>2. PICK made : made = out'.blocks[1]
    OBVIOUS
  <2>3. /\ \A i \in DOMAIN results : IsOk(results[i])
        /\ made = [i \in DOMAIN results |-> results[i][1]]
    BY <2>1, <2>2, AllTaken
  <2>4. IsList(job.sources) /\ IsList(view)
    BY <1>1, <1>2, FeaturesAssumption DEF TensorInv, IsList
  <2>5. IsList(made) /\ DOMAIN made = DOMAIN job.sources
    <3>1. made = [i \in DOMAIN job.sources |-> made[i]]
      BY <1>1, <2>3
    <3> QED BY <2>4, <3>1, ListOf, ZenonT(60)
  <2>6. ASSUME NEW i \in DOMAIN job.sources PROVE ListedBlock(made[i].block)
    <3>1. IsOk(results[i]) /\ made[i] = results[i][1]
      BY <1>1, <2>3, Zenon
    <3>2. IsOk(blocks[i]) /\ made[i].block = blocks[i][1]
      <4>1. PICK block, source : block = blocks[i] /\ source = job.sources[i].source
        OBVIOUS
      <4>2. results[i] = IF IsOk(block)
                         THEN Ok([source |-> source, repr |-> "tabular_numeric", block |-> block[1]])
                         ELSE Err
        BY <1>1, <4>1
      <4>3. IsOk(block) /\ results[i][1].block = block[1]
        BY <3>1, <4>2 DEF IsOk, Ok
      <4> QED BY <3>1, <4>1, <4>3
    <3>3. PICK chosen, b : /\ chosen = IF i = 1 THEN columns ELSE << >>
                           /\ b = out.buffers[1][i]
      OBVIOUS
    <3>4. blocks[i] = project_relations(b, view, <<job.sources[i].source>>, chosen)
      BY <1>1, <3>3
    <3>5. chosen # << >> => IsList(chosen[1])
      BY <3>3, FeaturesAssumption DEF IsList
    <3>6. IsList(b.names)
      BY <2>1, <3>3 DEF FeatureInv
    <3>7. ListedBlock(blocks[i][1])
      BY <2>4, <3>2, <3>4, <3>5, <3>6, ProjectedList
    <3> QED BY <3>2, <3>7, Zenon
  <2>7. ListedBlocks(made)
    BY <2>5, <2>6, Zenon DEF ListedBlocks
  <2>8. CollationFaithful'
    BY <2>1, Zenon DEF CollationFaithful
  <2> QED BY <2>1, <2>2, <2>7, <2>8 DEF FeatureInv
<1> QED BY <1>4, <1>5

\* The blocks are aligned.
LEMMA AlignStep ==
  ASSUME TensorInv, FeatureInv, NEW mode \in Modes, Align(mode)
  PROVE  FeatureInv'
<1>1. PICK blocks, samples, sets, result :
        /\ blocks = out.blocks[1]
        /\ samples = [i \in DOMAIN blocks |-> source_sample_set_from_feature_block(blocks[i])]
        /\ sets = All(samples)
        /\ result = IF IsOk(sets) THEN build_sample_alignment_plan(sets[1], mode) ELSE Err
  OBVIOUS
<1>2. Call("projected", "aligned", "plan", result)
  BY <1>1 DEF Align
<1>3. "plan" \in ResultNames /\ "blocks" \in ResultNames \ {"plan"}
  BY DEF ResultNames
<1>4. CASE stage' = "refused"
  BY <1>4, ElsewhereStep
<1>5. CASE stage' # "refused"
  <2>1. /\ job' = job /\ stage = "projected" /\ stage' = "aligned"
        /\ IsOk(result) /\ out'.plan = result /\ out'.blocks = out.blocks
    BY <1>2, <1>3, <1>5, CallTaken
  <2>2. IsOk(sets) /\ result = build_sample_alignment_plan(sets[1], mode)
    BY <1>1, <2>1 DEF IsOk
  <2>3. ListedBlocks(blocks)
    BY <1>1, <2>1 DEF FeatureInv
  <2>4. PICK taken : taken = sets[1]
    OBVIOUS
  <2>5. /\ \A i \in DOMAIN blocks : IsOk(samples[i])
        /\ taken = [i \in DOMAIN blocks |-> samples[i][1]]
    <3>1. DOMAIN samples = DOMAIN blocks
      BY <1>1
    <3>2. /\ \A i \in DOMAIN samples : IsOk(samples[i])
          /\ taken = [i \in DOMAIN samples |-> samples[i][1]]
      BY <1>1, <2>2, <2>4, AllTaken
    <3> QED BY <3>1, <3>2
  <2>6. ASSUME NEW i \in DOMAIN blocks PROVE IsList(taken[i].samples)
    <3>1. PICK b : b = blocks[i]
      OBVIOUS
    <3>2. samples[i] = source_sample_set_from_feature_block(b) /\ IsOk(samples[i])
      BY <1>1, <2>5, <3>1
    <3>3. samples[i][1].samples = FirstOf(b.block.samples)
      BY <3>2 DEF source_sample_set_from_feature_block, IsOk, Ok
    <3>4. IsList(b.block.samples)
      BY <2>3, <3>1 DEF ListedBlocks, ListedBlock
    <3>5. taken[i] = samples[i][1]
      BY <2>5
    <3> QED BY <3>3, <3>4, <3>5, FirstList
  <2>7. ListedSets(taken)
    <3>1. taken = [i \in DOMAIN blocks |-> taken[i]]
      BY <2>5
    <3>2. IsList(taken) /\ DOMAIN taken = DOMAIN blocks
      BY <2>3, <3>1, ListOf DEF ListedBlocks
    <3> QED BY <2>6, <3>2 DEF ListedSets
  <2>8. mode \in {"inner", "left", "outer"}
    BY FeaturesAssumption
  <2>9. result = build_sample_alignment_plan(taken, mode)
    BY <2>2, <2>4
  <2>10. IsList(result[1].samples)
    BY <2>1, <2>7, <2>8, <2>9, AlignedList, Zenon
  <2>11. CollationFaithful'
    BY <2>1, Zenon DEF CollationFaithful
  <2> QED BY <1>1, <2>1, <2>3, <2>10, <2>11 DEF FeatureInv
<1> QED BY <1>4, <1>5

\* The blocks are fused.
LEMMA FuseStep ==
  ASSUME TensorInv, FeatureInv, NEW namespace, Fuse(namespace)
  PROVE  FeatureInv'
<1>1. PICK blocks, plan, result :
        /\ blocks = out.blocks[1] /\ plan = out.plan[1]
        /\ result = fuse_feature_blocks(blocks, plan, namespace)
  OBVIOUS
<1>2. Call("aligned", "fused", "fused", result)
  BY <1>1 DEF Fuse
<1>3. "fused" \in ResultNames
  BY DEF ResultNames
<1>4. CASE stage' = "refused"
  BY <1>4, ElsewhereStep
<1>5. CASE stage' # "refused"
  <2>1. /\ job' = job /\ stage = "aligned" /\ stage' = "fused"
        /\ IsOk(result) /\ out'.fused = result
    BY <1>2, <1>3, <1>5, CallTaken
  <2>2. ListedBlocks(blocks) /\ IsList(plan.samples)
    BY <1>1, <2>1 DEF FeatureInv
  <2>3. ListedBlock(result[1])
    BY <1>1, <2>1, <2>2, FusedList
  <2>4. CollationFaithful'
    BY <2>1, Zenon DEF CollationFaithful
  <2> QED BY <2>1, <2>3, <2>4 DEF FeatureInv
<1> QED BY <1>4, <1>5

\* A block, or rows of the host, are collated.
LEMMA CollateStep ==
  ASSUME TensorInv, FeatureInv, NEW policy \in CollationPolicies, Collate(policy)
  PROVE  FeatureInv'
<1>1. PICK input, result :
        /\ input = CollationInput
        /\ result = IF IsOk(input) THEN collate_numeric_block(input[1], policy) ELSE Err
  OBVIOUS
<1>2. /\ job.kind \in {"rows", "features"}
      /\ stage = IF job.kind = "rows" THEN "host" ELSE "fused"
      /\ stage' = IF IsOk(result) THEN "collated" ELSE "refused"
      /\ out' = IF IsOk(result) THEN [out EXCEPT !.tensor = result, !.policy = <<policy>>] ELSE out
      /\ job' = job
  BY <1>1 DEF Collate
<1>3. CASE ~ IsOk(result)
  BY <1>2, <1>3, ElsewhereStep
<1>4. CASE IsOk(result)
  <2>1. IsOk(input) /\ result = collate_numeric_block(input[1], policy)
    BY <1>1, <1>4 DEF IsOk
  <2>2. stage' = "collated" /\ out'.tensor = result /\ out'.policy = <<policy>> /\ out'.fused = out.fused
    BY <1>2, <1>4 DEF TensorInv, ResultNames
  <2>3. PICK in, t : in = input[1] /\ t = result[1]
    OBVIOUS
  <2>4. HostRows(in)
    <3>1. CASE job.kind = "rows"
      <4>1. in = job.input
        BY <1>1, <2>3, <3>1 DEF CollationInput, Ok
      <4> QED BY <3>1, <4>1, CollationAssumption DEF TensorInv, HostRows
    <3>2. CASE job.kind # "rows"
      <4>1. input = numeric_input_from_feature_block(out.fused[1])
        BY <1>1, <3>2 DEF CollationInput
      <4>2. ListedBlock(out.fused[1])
        BY <1>2, <3>2 DEF FeatureInv
      <4> QED BY <2>1, <2>3, <4>1, <4>2, BlockRows
    <3> QED BY <3>1, <3>2
  <2>5. collate_numeric_block(in, policy) = <<t>>
    <3>1. result = <<result[1]>>
      BY <1>4, <2>1, Zenon DEF collate_numeric_block, IsOk, Ok
    <3> QED BY <2>1, <2>3, <3>1, Zenon
  <2>6. policy.max_length # << >> => policy.max_length[1] \in Nat
    BY CollationAssumption
  <2>7. Faithful(in, t, policy)
    BY <2>4, <2>5, <2>6, CollationExact
  <2>8. CollationInput' = CollationInput
    BY <1>2, <2>2 DEF CollationInput
  <2>9. Faithful(CollationInput[1], out.tensor[1], out.policy[1])'
    <3>1. CollationInput'[1] = in /\ out'.tensor[1] = t /\ out'.policy[1] = policy
      BY <1>1, <2>1, <2>2, <2>3, <2>8
    <3>2. Faithful(CollationInput'[1], out'.tensor[1], out'.policy[1])
      BY <2>7, <3>1, Zenon
    <3> QED BY <3>2
  <2>10. CollationFaithful'
    BY <2>9, Zenon DEF CollationFaithful, Faithful, NamedCell, RowPlaced, Filled
  <2> QED BY <2>2, <2>10 DEF FeatureInv
<1> QED BY <1>3, <1>4
\* Every call keeps the invariant.
LEMMA StepFeature == TensorInv /\ FeatureInv /\ [DataNext]_dataVars => FeatureInv'
<1> SUFFICES ASSUME TensorInv, FeatureInv, [DataNext]_dataVars PROVE FeatureInv'
  OBVIOUS
<1>1. CASE UNCHANGED dataVars
  <2>1. job' = job /\ stage' = stage /\ out' = out
    BY <1>1 DEF dataVars
  <2>2. CollationInput' = CollationInput
    BY <2>1, Zenon DEF CollationInput
  <2>3. CASE stage # "collated"
    BY <2>1, <2>3, Zenon DEF FeatureInv, CollationFaithful
  <2>4. CASE stage = "collated"
    <3>1. Faithful(CollationInput[1], out.tensor[1], out.policy[1])
      BY <2>4, Zenon DEF FeatureInv, CollationFaithful, Faithful, NamedCell, RowPlaced, Filled
    <3>2. Faithful(CollationInput[1], out.tensor[1], out.policy[1])'
      <4>1. Faithful(CollationInput'[1], out'.tensor[1], out'.policy[1])
        BY <2>1, <2>2, <3>1, Zenon
      <4> QED BY <4>1
    <3>3. CollationFaithful'
      BY <3>2, Zenon DEF CollationFaithful, Faithful, NamedCell, RowPlaced, Filled
    <3> QED BY <2>1, <2>4, <3>3, Zenon DEF FeatureInv
  <2> QED BY <2>3, <2>4
<1>2. CASE IngestTable
  <2>1. PICK results :
          results = [i \in DOMAIN job.sources |-> from_feature_table(HostTable(job.sources[i]))]
    OBVIOUS
  <2>2. job.kind = "features" /\ Call("host", "buffered", "buffers", All(results))
    BY <1>2, <2>1 DEF IngestTable
  <2>3. \A i \in DOMAIN job.sources : IsOk(results[i]) => results[i][1].names = job.sources[i].names
    BY <2>1, TakenNames
  <2> QED BY <2>1, <2>2, <2>3, IngestStep
<1>3. CASE IngestMatrix
  <2>1. PICK results :
          results = [i \in DOMAIN job.sources |-> FromMatrix(MatrixView(job.sources[i]))]
    OBVIOUS
  <2>2. job.kind = "features" /\ Call("host", "buffered", "buffers", All(results))
    BY <1>3, <2>1 DEF IngestMatrix
  <2>3. \A i \in DOMAIN job.sources : IsOk(results[i]) => results[i][1].names = job.sources[i].names
    BY <2>1, TakenNames
  <2> QED BY <2>1, <2>2, <2>3, IngestStep
<1>4. CASE IngestColumns
  <2>1. PICK results :
          results = [i \in DOMAIN job.sources |-> FromColumns(ColumnsView(job.sources[i]))]
    OBVIOUS
  <2>2. job.kind = "features" /\ Call("host", "buffered", "buffers", All(results))
    BY <1>4, <2>1 DEF IngestColumns
  <2>3. \A i \in DOMAIN job.sources : IsOk(results[i]) => results[i][1].names = job.sources[i].names
    BY <2>1, TakenNames
  <2> QED BY <2>1, <2>2, <2>3, IngestStep
<1>5. CASE \E columns \in Columns : Project(columns)
  BY <1>5, BlocksStep
<1>6. CASE \E mode \in Modes : Align(mode)
  BY <1>6, AlignStep
<1>7. CASE \E namespace \in BOOLEAN : Fuse(namespace)
  BY <1>7, FuseStep
<1>8. CASE \E policy \in CollationPolicies : Collate(policy)
  BY <1>8, CollateStep
<1>9. CASE \/ ExportFeatures \/ ExportIdentity \/ SelectTarget \/ SelectTargets
           \/ ExportTarget \/ ExportTargets \/ BorrowTensor
           \/ \E source \in {<< >>, <<<<1>>>>} : ProjectTensor(source)
  <2>1. ASSUME NEW from, NEW name, NEW result,
               NEW to \in {"exported", "identified", "selected", "selected_all", "exported_target",
                           "exported_targets", "gathered", "tensor_projected"},
               Call(from, to, name, result)
        PROVE  stage' \notin {"buffered", "projected", "aligned", "fused", "collated"}
    BY <2>1 DEF Call
  <2>2. stage' \notin {"buffered", "projected", "aligned", "fused", "collated"}
    BY <1>9, <2>1 DEF ExportFeatures, ExportIdentity, SelectTarget, SelectTargets,
       ExportTarget, ExportTargets, BorrowTensor, ProjectTensor
  <2> QED BY <2>2, ElsewhereStep
<1> QED BY <1>1, <1>2, <1>3, <1>4, <1>5, <1>6, <1>7, <1>8, <1>9 DEF DataNext

\* A collated tensor holds each given value at its place, padding everywhere
\* else, names the columns that it holds, and says in its masks which cells are
\* which, whether the rows are the host's own or those of fused sources
\* (collate_numeric_block, numeric_input_from_feature_block, collation.rs).
THEOREM CollationProved == DataSpec => []CollationFaithful
<1>1. DataInit => TensorInv /\ FeatureInv
  BY DEF DataInit, TensorInv, ReadsInMemory, NoResults, ResultNames, FeatureInv, CollationFaithful
<1>2. FeatureInv => CollationFaithful
  BY ZenonT(60) DEF FeatureInv
<1> QED BY <1>1, <1>2, StepTensor, StepFeature, PTL DEF DataSpec
(***************************************************************************)
(* The invariant of the data path, as far as fusion goes: what the calls   *)
(* return is made of the host's cells.                                     *)
(***************************************************************************)

FusionInv ==
  /\ stage \in {"buffered", "projected", "aligned"} => job.kind = "features"
  /\ stage = "buffered" =>
       \A i \in DOMAIN job.sources : Taken(out.buffers[1][i], job.sources[i])
  /\ stage \in {"projected", "aligned"} => SourceBlocks(out.blocks[1], job.sources, job.view)
  /\ stage = "aligned" =>
       /\ out.plan[1].mode \in {"inner", "left", "outer"} /\ IsList(out.plan[1].samples)
       /\ AlignedSet(out.plan[1], out.blocks[1], job.view)
  /\ FusionKeepsSamples

\* A call that fails, or comes after fusion or is about something else, leaves
\* nothing to check.
LEMMA OutsideStep ==
  ASSUME stage' \notin {"buffered", "projected", "aligned", "fused"}
  PROVE  FusionInv'
BY DEF FusionInv, FusionKeepsSamples

\* The lists of a job about features, and its sources.
LEMMA FeatureJob ==
  ASSUME NEW j \in Jobs, j.kind = "features"
  PROVE  /\ IsList(j.view) /\ IsList(j.sources)
         /\ \A i \in DOMAIN j.sources : HostSource(j.sources[i]) /\ IsList(j.sources[i].names)
BY FeaturesAssumption DEF HostSource, JsonCell, IsList

\* The sources are taken in by one of the three routes.
LEMMA TakenStep ==
  ASSUME TensorInv, job.kind = "features", NEW results, DOMAIN results = DOMAIN job.sources,
         \A i \in DOMAIN job.sources : IsOk(results[i]) => Taken(results[i][1], job.sources[i]),
         Call("host", "buffered", "buffers", All(results))
  PROVE  FusionInv'
<1>1. "buffered" # "refused" /\ "buffers" \in ResultNames
  BY DEF ResultNames
<1>2. CASE stage' = "refused"
  BY <1>2, OutsideStep
<1>3. CASE stage' # "refused"
  <2>1. /\ job' = job /\ stage' = "buffered"
        /\ IsOk(All(results)) /\ out'.buffers = All(results)
    BY <1>1, <1>3, CallTaken
  <2>2. PICK buffers : buffers = out'.buffers[1]
    OBVIOUS
  <2>3. /\ \A i \in DOMAIN results : IsOk(results[i])
        /\ buffers = [i \in DOMAIN results |-> results[i][1]]
    BY <2>1, <2>2, AllTaken
  <2>4. ASSUME NEW i \in DOMAIN job.sources PROVE Taken(buffers[i], job.sources[i])
    BY <2>3
  <2>5. (\A i \in DOMAIN job.sources : Taken(out.buffers[1][i], job.sources[i]))'
    BY <2>1, <2>2, <2>4, ZenonT(60)
  <2>6. FusionKeepsSamples'
    BY <2>1 DEF FusionKeepsSamples
  <2> QED BY <2>1, <2>5, <2>6 DEF FusionInv
<1> QED BY <1>2, <1>3

\* The buffers are projected to the view.
LEMMA ProjectedStep ==
  ASSUME TensorInv, FusionInv, NEW columns \in Columns, Project(columns)
  PROVE  FusionInv'
<1>1. PICK view, sources, buffers, blocks, results :
        /\ view = job.view /\ sources = job.sources /\ buffers = out.buffers[1]
        /\ blocks = [i \in DOMAIN sources |->
                       project_relations(buffers[i], view, <<sources[i].source>>,
                                         IF i = 1 THEN columns ELSE << >>)]
        /\ results = [i \in DOMAIN sources |->
                        IF IsOk(blocks[i])
                        THEN Ok([source |-> sources[i].source, repr |-> "tabular_numeric",
                                 block |-> blocks[i][1]])
                        ELSE Err]
  OBVIOUS
<1>2. job.kind = "features" /\ Call("buffered", "projected", "blocks", All(results))
  BY <1>1 DEF Project
<1>3. "blocks" \in ResultNames
  BY DEF ResultNames
<1>4. CASE stage' = "refused"
  BY <1>4, OutsideStep
<1>5. CASE stage' # "refused"
  <2>1. /\ job' = job /\ stage = "buffered" /\ stage' = "projected"
        /\ IsOk(All(results)) /\ out'.blocks = All(results)
    BY <1>2, <1>3, <1>5, CallTaken
  <2>2. PICK made : made = out'.blocks[1]
    OBVIOUS
  <2>3. /\ \A i \in DOMAIN results : IsOk(results[i])
        /\ made = [i \in DOMAIN results |-> results[i][1]]
    BY <2>1, <2>2, AllTaken
  <2>4. /\ IsList(sources) /\ IsList(view)
        /\ \A i \in DOMAIN sources : IsList(sources[i].names)
    BY <1>1, <1>2, FeatureJob DEF TensorInv
  <2>5. \A i \in DOMAIN sources : Taken(buffers[i], sources[i])
    BY <1>1, <2>1 DEF FusionInv
  <2>6. IsList(made) /\ DOMAIN made = DOMAIN sources
    <3>1. made = [i \in DOMAIN sources |-> made[i]]
      BY <1>1, <2>3, Zenon
    <3> QED BY <2>4, <3>1, ListOf, Zenon
  <2>7. ASSUME NEW i \in DOMAIN made
        PROVE  /\ made[i].source = sources[i].source /\ made[i].repr = "tabular_numeric"
               /\ SourceBlock(made[i].block, sources[i], view)
    <3>1. PICK s, block, chosen : /\ s = sources[i] /\ block = blocks[i]
                                  /\ chosen = IF i = 1 THEN columns ELSE << >>
      OBVIOUS
    <3>2. block = project_relations(buffers[i], view, <<s.source>>, chosen)
      BY <1>1, <2>6, <3>1
    <3>3. PICK source : source = s.source
      OBVIOUS
    <3>4. results[i] = IF IsOk(block)
                       THEN Ok([source |-> source, repr |-> "tabular_numeric", block |-> block[1]])
                       ELSE Err
      BY <1>1, <2>6, <3>1, <3>3, Zenon
    <3>5. IsOk(results[i]) /\ made[i] = results[i][1]
      BY <1>1, <2>3, <2>6, Zenon
    <3>6. /\ IsOk(block) /\ made[i].block = block[1]
          /\ made[i].source = source /\ made[i].repr = "tabular_numeric"
      BY <3>4, <3>5 DEF IsOk, Ok
    <3>7. chosen # << >> => IsList(chosen[1])
      BY <3>1, FeaturesAssumption DEF IsList
    <3>8. SourceBlock(block[1], s, view)
      <4>1. Taken(buffers[i], s) /\ IsList(s.names)
        BY <2>4, <2>5, <2>6, <3>1
      <4> QED BY <2>4, <3>2, <3>6, <3>7, <4>1, SourceProjected
    <3> QED BY <3>1, <3>3, <3>6, <3>8
  <2>8. SourceBlocks(made, sources, view)
    BY <2>6, <2>7 DEF SourceBlocks
  <2>9. SourceBlocks(out.blocks[1], job.sources, job.view)'
    <3>1. SourceBlocks(out'.blocks[1], job'.sources, job'.view)
      BY <1>1, <2>1, <2>2, <2>8, ZenonT(60)
    <3> QED BY <3>1, Zenon
  <2>10. FusionKeepsSamples'
    BY <2>1 DEF FusionKeepsSamples
  <2> QED BY <1>2, <2>1, <2>9, <2>10 DEF FusionInv
<1> QED BY <1>4, <1>5

\* The blocks are aligned.
LEMMA AlignedStep ==
  ASSUME TensorInv, FusionInv, NEW mode \in Modes, Align(mode)
  PROVE  FusionInv'
<1>1. PICK view, sources, blocks, samples, sets, result :
        /\ view = job.view /\ sources = job.sources /\ blocks = out.blocks[1]
        /\ samples = [i \in DOMAIN blocks |-> source_sample_set_from_feature_block(blocks[i])]
        /\ sets = All(samples)
        /\ result = IF IsOk(sets) THEN build_sample_alignment_plan(sets[1], mode) ELSE Err
  OBVIOUS
<1>2. Call("projected", "aligned", "plan", result)
  BY <1>1 DEF Align
<1>3. "plan" \in ResultNames /\ "blocks" \in ResultNames \ {"plan"}
  BY DEF ResultNames
<1>4. CASE stage' = "refused"
  BY <1>4, OutsideStep
<1>5. CASE stage' # "refused"
  <2>1. /\ job' = job /\ stage = "projected" /\ stage' = "aligned"
        /\ IsOk(result) /\ out'.plan = result /\ out'.blocks = out.blocks
    BY <1>2, <1>3, <1>5, CallTaken
  <2>2. IsOk(sets) /\ result = build_sample_alignment_plan(sets[1], mode)
    BY <1>1, <2>1 DEF IsOk
  <2>3. job.kind = "features" /\ SourceBlocks(blocks, sources, view)
    BY <1>1, <2>1 DEF FusionInv
  <2>4. IsList(view)
    BY <1>1, <2>3, FeatureJob DEF TensorInv
  <2>5. sets[1] = SetsOf(blocks)
    <3>1. DOMAIN samples = DOMAIN blocks
      BY <1>1
    <3>2. /\ \A i \in DOMAIN samples : IsOk(samples[i])
          /\ sets[1] = [i \in DOMAIN samples |-> samples[i][1]]
      BY <1>1, <2>2, AllTaken
    <3>3. ASSUME NEW i \in DOMAIN blocks
          PROVE  samples[i][1] = [source |-> blocks[i].source,
                                  samples |-> FirstOf(blocks[i].block.samples)]
      <4>1. PICK b : b = blocks[i]
        OBVIOUS
      <4>2. samples[i] = source_sample_set_from_feature_block(b) /\ IsOk(samples[i])
        BY <1>1, <3>1, <3>2, <4>1
      <4>3. samples[i] = <<[source |-> b.source, samples |-> FirstOf(b.block.samples)]>>
        BY <4>2 DEF source_sample_set_from_feature_block, IsOk, Ok
      <4> QED BY <4>1, <4>3
    <3> QED BY <3>1, <3>2, <3>3 DEF SetsOf
  <2>6. mode \in {"inner", "left", "outer"}
    BY FeaturesAssumption
  <2>7. result = build_sample_alignment_plan(SetsOf(blocks), mode)
    BY <2>2, <2>5
  <2>8. IsList(result[1].samples) /\ AlignedSet(result[1], blocks, view)
    BY <2>1, <2>3, <2>4, <2>6, <2>7, AlignmentExact
  <2>9. result[1].mode = mode
    BY <2>1, <2>7 DEF build_sample_alignment_plan, IsOk, Ok
  <2>10. AlignedSet(out.plan[1], out.blocks[1], job.view)'
    <3>1. AlignedSet(out'.plan[1], out'.blocks[1], job'.view)
      BY <1>1, <2>1, <2>8
    <3> QED BY <3>1
  <2>11. SourceBlocks(out.blocks[1], job.sources, job.view)'
    <3>1. SourceBlocks(out'.blocks[1], job'.sources, job'.view)
      BY <1>1, <2>1, <2>3, ZenonT(60)
    <3> QED BY <3>1
  <2>12. FusionKeepsSamples'
    BY <2>1 DEF FusionKeepsSamples
  <2> QED BY <2>1, <2>3, <2>6, <2>8, <2>9, <2>10, <2>11, <2>12 DEF FusionInv
<1> QED BY <1>4, <1>5

\* What fusion promises, in a state.
LEMMA SamplesKept ==
  ASSUME job.kind = "features", stage = "fused"
  PROVE  FusionKeepsSamples <=>
           KeepsSamples(out.fused[1], out.blocks[1], out.plan[1], job.sources, job.view)
BY DEF KeepsSamples, Keeps, KnownSamples, FusionKeepsSamples, SampleObs, ObsOfSample

\* The blocks are fused.
LEMMA FusedStep ==
  ASSUME TensorInv, FusionInv, NEW namespace, Fuse(namespace)
  PROVE  FusionInv'
<1>1. PICK view, sources, blocks, plan, result :
        /\ view = job.view /\ sources = job.sources
        /\ blocks = out.blocks[1] /\ plan = out.plan[1]
        /\ result = fuse_feature_blocks(blocks, plan, namespace)
  OBVIOUS
<1>2. Call("aligned", "fused", "fused", result)
  BY <1>1 DEF Fuse
<1>3. "fused" \in ResultNames /\ {"plan", "blocks"} \subseteq ResultNames \ {"fused"}
  BY DEF ResultNames
<1>4. CASE stage' = "refused"
  BY <1>4, OutsideStep
<1>5. CASE stage' # "refused"
  <2>1. /\ job' = job /\ stage = "aligned" /\ stage' = "fused"
        /\ IsOk(result) /\ out'.fused = result /\ out'.plan = out.plan /\ out'.blocks = out.blocks
    BY <1>2, <1>3, <1>5, CallTaken
  <2>2. /\ job.kind = "features" /\ SourceBlocks(blocks, sources, view)
        /\ plan.mode \in {"inner", "left", "outer"} /\ IsList(plan.samples)
        /\ AlignedSet(plan, blocks, view)
    BY <1>1, <2>1 DEF FusionInv
  <2>3. IsList(view)
    BY <1>1, <2>2, FeatureJob DEF TensorInv
  <2>4. Fused(result[1], blocks, plan, sources, view)
    BY <1>1, <2>1, <2>2, <2>3, FusionExact
  <2>5. KeepsSamples(result[1], blocks, plan, sources, view)
    BY <2>2, <2>4, FusionKept
  <2>6. KeepsSamples(out.fused[1], out.blocks[1], out.plan[1], job.sources, job.view)'
    <3>1. KeepsSamples(out'.fused[1], out'.blocks[1], out'.plan[1], job'.sources, job'.view)
      BY <1>1, <2>1, <2>5, Zenon
    <3> QED BY <3>1
  <2>7. FusionKeepsSamples'
    BY <2>6, Zenon DEF KeepsSamples, Keeps, KnownSamples, FusionKeepsSamples, SampleObs, ObsOfSample
  <2> QED BY <2>1, <2>7 DEF FusionInv
<1> QED BY <1>4, <1>5

\* Every call keeps the invariant.
LEMMA StepFusion == TensorInv /\ FusionInv /\ [DataNext]_dataVars => FusionInv'
<1> SUFFICES ASSUME TensorInv, FusionInv, [DataNext]_dataVars PROVE FusionInv'
  OBVIOUS
<1>1. CASE UNCHANGED dataVars
  <2>1. job' = job /\ stage' = stage /\ out' = out
    BY <1>1 DEF dataVars
  <2>2. FusionKeepsSamples'
    <3>1. CASE ~ (job.kind = "features" /\ stage = "fused")
      BY <2>1, <3>1, Zenon DEF FusionKeepsSamples
    <3>2. CASE job.kind = "features" /\ stage = "fused"
      <4>1. KeepsSamples(out.fused[1], out.blocks[1], out.plan[1], job.sources, job.view)
        BY <3>2, SamplesKept DEF FusionInv
      <4>2. KeepsSamples(out'.fused[1], out'.blocks[1], out'.plan[1], job'.sources, job'.view)
        BY <2>1, <4>1
      <4>3. KeepsSamples(out.fused[1], out.blocks[1], out.plan[1], job.sources, job.view)'
        BY <4>2
      <4> QED BY <4>3, Zenon DEF KeepsSamples, Keeps, KnownSamples, FusionKeepsSamples, SampleObs, ObsOfSample
    <3> QED BY <3>1, <3>2, Zenon
  <2> QED BY <2>1, <2>2 DEF FusionInv
<1>2. CASE IngestTable
  <2>1. PICK results :
          results = [i \in DOMAIN job.sources |-> from_feature_table(HostTable(job.sources[i]))]
    OBVIOUS
  <2>2. job.kind = "features" /\ Call("host", "buffered", "buffers", All(results))
    BY <1>2, <2>1 DEF IngestTable
  <2>3. ASSUME NEW i \in DOMAIN job.sources, IsOk(results[i])
        PROVE  Taken(results[i][1], job.sources[i])
    <3>1. PICK s : s = job.sources[i]
      OBVIOUS
    <3>2. HostSource(s)
      BY <2>2, <3>1, FeatureJob DEF TensorInv
    <3>3. results[i] = from_feature_table(HostTable(s))
      BY <2>1, <3>1
    <3> QED BY <2>3, <3>1, <3>2, <3>3, TableTaken
  <2> QED BY <2>1, <2>2, <2>3, TakenStep
<1>3. CASE IngestMatrix
  <2>1. PICK results :
          results = [i \in DOMAIN job.sources |-> FromMatrix(MatrixView(job.sources[i]))]
    OBVIOUS
  <2>2. /\ job.kind = "features" /\ Call("host", "buffered", "buffers", All(results))
        /\ \A i \in DOMAIN job.sources : OneLength(job.sources[i])
    BY <1>3, <2>1 DEF IngestMatrix
  <2>3. ASSUME NEW i \in DOMAIN job.sources, IsOk(results[i])
        PROVE  Taken(results[i][1], job.sources[i])
    <3>1. PICK s : s = job.sources[i]
      OBVIOUS
    <3>2. HostSource(s) /\ OneLength(s)
      BY <2>2, <3>1, FeatureJob DEF TensorInv
    <3>3. results[i] = FromMatrix(MatrixView(s))
      BY <2>1, <3>1
    <3> QED BY <2>3, <3>1, <3>2, <3>3, MatrixTaken
  <2> QED BY <2>1, <2>2, <2>3, TakenStep
<1>4. CASE IngestColumns
  <2>1. PICK results :
          results = [i \in DOMAIN job.sources |-> FromColumns(ColumnsView(job.sources[i]))]
    OBVIOUS
  <2>2. /\ job.kind = "features" /\ Call("host", "buffered", "buffers", All(results))
        /\ \A i \in DOMAIN job.sources : InColumns(job.sources[i])
    BY <1>4, <2>1 DEF IngestColumns
  <2>3. ASSUME NEW i \in DOMAIN job.sources, IsOk(results[i])
        PROVE  Taken(results[i][1], job.sources[i])
    <3>1. PICK s : s = job.sources[i]
      OBVIOUS
    <3>2. HostSource(s) /\ InColumns(s)
      BY <2>2, <3>1, FeatureJob DEF TensorInv
    <3>3. results[i] = FromColumns(ColumnsView(s))
      BY <2>1, <3>1
    <3> QED BY <2>3, <3>1, <3>2, <3>3, ColumnsTaken
  <2> QED BY <2>1, <2>2, <2>3, TakenStep
<1>5. CASE \E columns \in Columns : Project(columns)
  BY <1>5, ProjectedStep
<1>6. CASE \E mode \in Modes : Align(mode)
  BY <1>6, AlignedStep
<1>7. CASE \E namespace \in BOOLEAN : Fuse(namespace)
  BY <1>7, FusedStep
<1>8. CASE \E policy \in CollationPolicies : Collate(policy)
  <2>1. stage' \in {"collated", "refused"}
    BY <1>8 DEF Collate
  <2> QED BY <2>1, OutsideStep
<1>9. CASE \/ ExportFeatures \/ ExportIdentity \/ SelectTarget \/ SelectTargets
           \/ ExportTarget \/ ExportTargets \/ BorrowTensor
           \/ \E source \in {<< >>, <<<<1>>>>} : ProjectTensor(source)
  <2>1. ASSUME NEW from, NEW name, NEW result,
               NEW to \in {"exported", "identified", "selected", "selected_all", "exported_target",
                           "exported_targets", "gathered", "tensor_projected"},
               Call(from, to, name, result)
        PROVE  stage' \notin {"buffered", "projected", "aligned", "fused"}
    BY <2>1 DEF Call
  <2>2. stage' \notin {"buffered", "projected", "aligned", "fused"}
    BY <1>9, <2>1 DEF ExportFeatures, ExportIdentity, SelectTarget, SelectTargets,
       ExportTarget, ExportTargets, BorrowTensor, ProjectTensor
  <2> QED BY <2>2, OutsideStep
<1> QED BY <1>1, <1>2, <1>3, <1>4, <1>5, <1>6, <1>7, <1>8, <1>9 DEF DataNext

\* The columns of a source in a fused block hold the cells that the host gave
\* for one observation of the row's sample, or nulls; no observation of an
\* aligned sample is lost; and the aligned samples are those that the mode asks
\* for: along every route of ingestion, projection, alignment and fusion
\* (buffer.rs, alignment.rs, fusion.rs).
THEOREM FusionProved == DataSpec => []FusionKeepsSamples
<1>1. DataInit => TensorInv /\ FusionInv
  BY DEF DataInit, TensorInv, ReadsInMemory, NoResults, ResultNames, FusionInv, FusionKeepsSamples
<1>2. FusionInv => FusionKeepsSamples
  BY DEF FusionInv
<1> QED BY <1>1, <1>2, StepTensor, StepFusion, PTL DEF DataSpec

(***************************************************************************)
(* Arrow arrays are read as they were built.                               *)
(***************************************************************************)

\* e holds the powers of two up to the n-th.
Doubled(e, n) ==
  /\ e \in [0 .. n -> Nat \ {0}]
  /\ e[0] = 1
  /\ \A k \in 1 .. n : e[k] = 2 * e[k - 1]

\* 1 << n runs its loop to the end.
LEMMA ShiftRuns ==
  ASSUME NEW n \in Nat
  PROVE  \E e : Doubled(e, n) /\ OneShifted(n) = e[n]
<1> DEFINE V == Nat \ {0}
           Eq(e) == e = [k \in 0 .. n |-> IF k = 0 THEN 1 ELSE 2 * e[k - 1]]
<1>1. PICK f : f = [x \in (1 .. n) \X V |-> 2 * x[2]]
  OBVIOUS
<1>2. f \in [(1 .. n) \X V -> V] /\ \A k \in 1 .. n : \A v \in V : f[<<k, v>>] = 2 * v
  BY <1>1
<1>3. 1 \in V
  OBVIOUS
<1>4. PICK g : Runs(g, V, n, f, 1)
  <2> HIDE DEF V
  <2> QED BY <1>2, <1>3, RecursionExists
<1>5. Eq(g)
  <2>1. g = [k \in 0 .. n |-> g[k]]
    BY <1>4 DEF Runs
  <2>2. ASSUME NEW k \in 0 .. n PROVE g[k] = IF k = 0 THEN 1 ELSE 2 * g[k - 1]
    <3>1. k # 0 => k \in 1 .. n /\ k - 1 \in 0 .. n
      OBVIOUS
    <3> HIDE DEF V
    <3> QED BY <1>2, <1>4, <3>1 DEF Runs
  <2> QED BY <2>1, <2>2
<1>6. PICK e : Eq(e) /\ OneShifted(n) = e[n]
  <2>1. PICK e : e = CHOOSE y : Eq(y)
    OBVIOUS
  <2>2. Eq(e)
    <3> HIDE DEF Eq
    <3> QED BY <1>5, <2>1
  <2>3. OneShifted(n) = e[n]
    BY <2>1 DEF OneShifted
  <2> QED BY <2>2, <2>3
<1>7. Runs(e, V, n, f, 1)
  <2>1. e = [k \in 0 .. n |-> e[k]] /\ e[0] = 1
    BY <1>6
  <2>2. ASSUME NEW k \in 1 .. n, e[k - 1] \in V PROVE e[k] = f[<<k, e[k - 1]>>]
    <3>1. k \in 0 .. n /\ k # 0
      OBVIOUS
    <3>2. e[k] = 2 * e[k - 1]
      BY <1>6, <3>1
    <3> HIDE DEF V, Eq
    <3> QED BY <1>2, <2>2, <3>2
  <2> HIDE DEF Eq, V
  <2> QED BY <1>2, <1>3, <2>1, <2>2, RunsTyped
<1>8. \A k \in 1 .. n : e[k] = 2 * e[k - 1]
  <2>1. \A k \in 1 .. n : k - 1 \in 0 .. n
    OBVIOUS
  <2> HIDE DEF Eq, V
  <2> QED BY <1>2, <1>7, <2>1 DEF Runs
<1>9. Doubled(e, n)
  BY <1>7, <1>8 DEF Doubled, Runs
<1> QED BY <1>6, <1>9

\* Such powers are the same, however far they go.
LEMMA DoubledAgree ==
  ASSUME NEW n \in Nat, NEW m \in Nat, NEW e, NEW d, Doubled(e, n), Doubled(d, m)
  PROVE  \A k \in Nat : k <= n /\ k <= m => e[k] = d[k]
<1> DEFINE S == {k \in Nat : k <= n /\ k <= m => e[k] = d[k]}
<1>1. 0 \in S
  BY DEF Doubled
<1>2. ASSUME NEW k \in Nat, k \in S PROVE k + 1 \in S
  <2>1. ASSUME k + 1 <= n, k + 1 <= m PROVE e[k + 1] = d[k + 1]
    <3>1. k + 1 \in 1 .. n /\ k + 1 \in 1 .. m /\ (k + 1) - 1 = k /\ e[k] = d[k]
      BY <1>2, <2>1
    <3> QED BY <3>1 DEF Doubled
  <2> QED BY <2>1
<1>3. \A k \in Nat : k \in S
  <2> HIDE DEF S
  <2> QED BY <1>1, <1>2, SetInduction
<1> QED BY <1>3

\* The powers of two.
LEMMA Shifted ==
  /\ OneShifted(0) = 1
  /\ \A n \in Nat : OneShifted(n) \in Nat \ {0} /\ OneShifted(n + 1) = 2 * OneShifted(n)
<1>1. OneShifted(0) = 1
  <2>1. PICK e : Doubled(e, 0) /\ OneShifted(0) = e[0]
    BY ShiftRuns
  <2> QED BY <2>1 DEF Doubled
<1>2. ASSUME NEW n \in Nat
      PROVE  OneShifted(n) \in Nat \ {0} /\ OneShifted(n + 1) = 2 * OneShifted(n)
  <2>1. PICK e : Doubled(e, n) /\ OneShifted(n) = e[n]
    BY ShiftRuns
  <2>2. PICK m \in Nat : m = n + 1 /\ m - 1 = n /\ m \in 1 .. m /\ n \in 0 .. n /\ n <= n /\ n <= m
    OBVIOUS
  <2>3. PICK d : Doubled(d, m) /\ OneShifted(m) = d[m]
    BY <2>2, ShiftRuns
  <2>4. e[n] = d[n]
    BY <2>1, <2>2, <2>3, DoubledAgree
  <2>5. d[m] = 2 * d[n]
    BY <2>2, <2>3 DEF Doubled
  <2>6. e[n] \in Nat \ {0}
    BY <2>1, <2>2 DEF Doubled
  <2> QED BY <2>1, <2>2, <2>3, <2>4, <2>5, <2>6
<1> QED BY <1>1, <1>2

\* A power of two is an even multiple of every smaller one.
LEMMA EvenMultiple ==
  ASSUME NEW j \in Nat, NEW b \in Nat, j < b
  PROVE  \E m \in Nat : OneShifted(b) = (2 * m) * OneShifted(j)
<1> DEFINE Even(c) == \E m \in Nat : OneShifted(c) = (2 * m) * OneShifted(j)
           S == {k \in Nat : Even(j + 1 + k)}
<1>1. PICK p \in Nat \ {0} : p = OneShifted(j)
  BY Shifted
<1>2. 0 \in S
  <2>1. OneShifted(j + 1) = (2 * 1) * p
    BY <1>1, Shifted
  <2>2. j + 1 + 0 = j + 1
    OBVIOUS
  <2>3. Even(j + 1)
    BY <1>1, <2>1
  <2> HIDE DEF Even
  <2> QED BY <2>2, <2>3
<1>3. ASSUME NEW k \in Nat, k \in S PROVE k + 1 \in S
  <2>1. PICK m \in Nat : OneShifted(j + 1 + k) = (2 * m) * p
    BY <1>1, <1>3
  <2>2. PICK c \in Nat : c = j + 1 + k /\ c + 1 = j + 1 + (k + 1)
    OBVIOUS
  <2>3. OneShifted(c + 1) = 2 * OneShifted(c)
    BY Shifted
  <2>4. OneShifted(c + 1) = 2 * ((2 * m) * p)
    BY <2>1, <2>2, <2>3
  <2>5. PICK q \in Nat : q = 2 * m
    OBVIOUS
  <2>6. 2 * (q * p) = (2 * q) * p
    OBVIOUS
  <2>7. Even(c + 1)
    BY <1>1, <2>4, <2>5, <2>6
  <2> HIDE DEF Even
  <2> QED BY <2>2, <2>7
<1>4. \A k \in Nat : k \in S
  <2> HIDE DEF S
  <2> QED BY <1>2, <1>3, SetInduction
<1>5. PICK k \in Nat : k = b - (j + 1) /\ j + 1 + k = b
  OBVIOUS
<1>6. Even(j + 1 + k)
  BY <1>4
<1> QED BY <1>5, <1>6

\* The digits of a place are its only ones.
LEMMA DigitsOf ==
  ASSUME NEW i \in Nat, NEW z \in Nat \ {0}
  PROVE  \E q \in Nat : \E c \in 0 .. z - 1 : i = q * z + c /\ i \div z = q /\ i % z = c
<1>1. PICK q, c : q = i \div z /\ c = i % z
  OBVIOUS
<1>2. q \in Nat /\ c \in 0 .. z - 1 /\ i = z * q + c
  BY <1>1
<1>3. i = q * z + c
  BY <1>2
<1> QED BY <1>1, <1>2, <1>3

\* Setting the next bit of a byte leaves the bits below as they are.
LEMMA BitAdded ==
  ASSUME NEW k \in Nat, NEW x \in Nat, x < OneShifted(k), NEW v \in BOOLEAN,
         NEW y, y = IF v THEN x + OneShifted(k) ELSE x
  PROVE  /\ y \in Nat /\ y < OneShifted(k + 1)
         /\ (y \div OneShifted(k)) % 2 = 1 <=> v
         /\ \A j \in 0 .. k - 1 : (y \div OneShifted(j)) % 2 = (x \div OneShifted(j)) % 2
<1>1. PICK p \in Nat \ {0} : p = OneShifted(k) /\ OneShifted(k + 1) = 2 * p
  BY Shifted
<1>2. y \in Nat /\ y < OneShifted(k + 1)
  BY <1>1
<1>3. (y \div OneShifted(k)) % 2 = 1 <=> v
  <2>1. CASE v
    <3>1. y = 1 * p + x /\ x < p
      BY <1>1, <2>1
    <3>2. y \div p = 1
      BY <3>1, DigitAt
    <3> QED BY <1>1, <2>1, <3>2
  <2>2. CASE ~ v
    <3>1. y = 0 * p + x /\ x < p
      BY <1>1, <2>2
    <3>2. y \div p = 0
      BY <3>1, DigitAt
    <3> QED BY <1>1, <2>2, <3>2
  <2> QED BY <2>1, <2>2
<1>4. ASSUME NEW j \in 0 .. k - 1
      PROVE  (y \div OneShifted(j)) % 2 = (x \div OneShifted(j)) % 2
  <2>1. j \in Nat /\ j < k
    OBVIOUS
  <2>2. PICK u \in Nat \ {0} : u = OneShifted(j)
    BY <2>1, Shifted
  <2>3. PICK m \in Nat : p = (2 * m) * u
    BY <1>1, <2>1, <2>2, EvenMultiple
  <2>4. PICK q \in Nat, c \in Nat : c < u /\ x = q * u + c /\ x \div u = q
    BY DigitsOf
  <2>5. CASE v
    <3>1. PICK w \in Nat : w = q + 2 * m
      OBVIOUS
    <3>2. w * u = q * u + (2 * m) * u
      BY <3>1
    <3>3. y = w * u + c
      BY <1>1, <2>3, <2>4, <2>5, <3>2
    <3>4. y \div u = w
      BY <2>4, <3>3, DigitAt
    <3>5. w % 2 = q % 2
      BY <3>1
    <3> QED BY <2>2, <2>4, <3>4, <3>5
  <2>6. CASE ~ v
    BY <2>6
  <2> QED BY <2>5, <2>6
<1> QED BY <1>2, <1>3, <1>4

\* The bits of a bitmap are the first n flags, and the rest of its last byte is 0.
BitsUpTo(bitmap, n, flags) ==
  /\ bitmap \in Seq(Nat)
  /\ Len(bitmap) * ByteBits >= n /\ Len(bitmap) * ByteBits < n + ByteBits
  /\ \A i \in 0 .. n - 1 : BitAt(bitmap, i) <=> flags[i + 1]
  /\ n % ByteBits # 0 => bitmap[(n \div ByteBits) + 1] < OneShifted(n % ByteBits)

\* A bitmap with a byte for the next bit.
Widened(p, bitmap, q) ==
  /\ p \in Seq(Nat) /\ Len(p) = q + 1
  /\ \A i \in 1 .. q + 1 : p[i] = IF i <= Len(bitmap) THEN bitmap[i] ELSE 0

\* Padding adds one.
LEMMA PadWidens ==
  ASSUME NEW bitmap \in Seq(Nat), NEW q \in Nat, Len(bitmap) = q
  PROVE  Widened(Pad(bitmap, q + 1), bitmap, q)
<1>1. PICK t : t = [i \in 1 .. 1 |-> 0]
  OBVIOUS
<1>2. t \in Seq(Nat) /\ Len(t) = 1 /\ t[1] = 0
  BY <1>1
<1>3. Pad(bitmap, q + 1) = bitmap \o t
  <2>1. (q + 1) - Len(bitmap) = 1
    OBVIOUS
  <2> QED BY <1>1, <2>1 DEF Pad
<1>4. PICK p : p = bitmap \o t
  OBVIOUS
<1>5. /\ p \in Seq(Nat) /\ Len(p) = Len(bitmap) + Len(t)
      /\ \A i \in 1 .. Len(bitmap) + Len(t) :
           p[i] = IF i <= Len(bitmap) THEN bitmap[i] ELSE t[i - Len(bitmap)]
  BY <1>2, <1>4, ConcatProperties
<1>6. ASSUME NEW i \in 1 .. q + 1 PROVE p[i] = IF i <= Len(bitmap) THEN bitmap[i] ELSE 0
  <2>1. i <= Len(bitmap) \/ i - Len(bitmap) = 1
    OBVIOUS
  <2> QED BY <1>2, <1>5, <2>1
<1> QED BY <1>2, <1>3, <1>4, <1>5, <1>6 DEF Widened

\* The numbers of bytes that hold n bits.
LEMMA BytesFor ==
  ASSUME NEW l \in Nat, NEW z \in Nat \ {0}, NEW q \in Nat, NEW c \in 0 .. z - 1,
         l * z >= q * z + c, l * z < (q * z + c) + z
  PROVE  l = IF c = 0 THEN q ELSE q + 1
<1>1. ASSUME NEW a \in Nat, NEW b \in Nat, a < b PROVE a * z + z <= b * z
  <2>1. PICK d \in Nat : d = b - (a + 1) /\ b = a + 1 + d
    BY <1>1
  <2>2. PICK e \in Nat, f \in Nat : e = d * z /\ f = a * z
    OBVIOUS
  <2>3. (a + 1 + d) * z = f + z + e
    BY <2>2
  <2> QED BY <2>1, <2>2, <2>3
<1>2. PICK s \in Nat, t \in Nat : s = l * z /\ t = q * z
  OBVIOUS
<1>3. l >= q
  <2>1. CASE l < q
    <3>1. s + z <= t
      BY <1>1, <1>2, <2>1
    <3> QED BY <1>2, <3>1
  <2> QED BY <2>1
<1>4. l <= q + 1
  <2>1. CASE q + 1 < l
    <3>1. PICK g \in Nat : g = q + 1
      OBVIOUS
    <3>2. g * z = t + z
      BY <1>2, <3>1
    <3>3. (t + z) + z <= s
      BY <1>1, <1>2, <2>1, <3>1, <3>2
    <3> QED BY <1>2, <3>3
  <2> QED BY <2>1
<1>5. CASE c = 0
  <2>1. l # q + 1
    <3>1. l = q + 1 => s = t + z
      BY <1>2
    <3> QED BY <1>2, <1>5, <3>1
  <2> QED BY <1>3, <1>4, <1>5, <2>1
<1>6. CASE c # 0
  <2>1. l # q
    BY <1>2, <1>6
  <2> QED BY <1>3, <1>4, <1>6, <2>1
<1> QED BY <1>5, <1>6

\* Of two numbers the smaller has a smaller first digit, or the same and a smaller second.
LEMMA DigitsBelow ==
  ASSUME NEW z \in Nat \ {0}, NEW h \in Nat, NEW d \in 0 .. z - 1, NEW q \in Nat, NEW c \in 0 .. z - 1,
         h * z + d < q * z + c
  PROVE  h < q \/ (h = q /\ d < c)
<1>1. CASE q < h
  <2>1. PICK e \in Nat : h = q + 1 + e
    <3>1. h - (q + 1) \in Nat /\ h = q + 1 + (h - (q + 1))
      BY <1>1
    <3> QED BY <3>1
  <2>2. PICK s \in Nat, t \in Nat : s = q * z /\ t = e * z
    OBVIOUS
  <2>3. (q + 1 + e) * z = s + z + t
    BY <2>2
  <2> QED BY <2>1, <2>2, <2>3
<1>2. CASE h = q
  <2>1. PICK s \in Nat : s = h * z
    OBVIOUS
  <2> QED BY <1>2, <2>1
<1> QED BY <1>1, <1>2

\* set_bitmap gives the next bit its place.
LEMMA BitSet ==
  ASSUME NEW n \in Nat, NEW flags, flags[n + 1] \in BOOLEAN, NEW bitmap, BitsUpTo(bitmap, n, flags)
  PROVE  BitsUpTo(set_bitmap(bitmap, n, flags[n + 1]), n + 1, flags)
<1>1. PICK z \in Nat \ {0}, v \in BOOLEAN : z = ByteBits /\ v = flags[n + 1]
  BY ByteBitsAssumption
<1>2. PICK q \in Nat : \E c \in 0 .. z - 1 : n = q * z + c /\ n \div z = q /\ n % z = c
  BY DigitsOf
<1>3. PICK c \in 0 .. z - 1 : n = q * z + c /\ n \div z = q /\ n % z = c
  BY <1>2
<1>4. PICK l \in Nat : l = Len(bitmap) /\ bitmap \in Seq(Nat)
  BY DEF BitsUpTo
<1>5. l = IF c = 0 THEN q ELSE q + 1
  <2>1. l * z >= n /\ l * z < n + z
    BY <1>1, <1>4 DEF BitsUpTo
  <2>2. l * z >= q * z + c /\ l * z < (q * z + c) + z
    BY <1>3, <2>1
  <2> QED BY <2>2, BytesFor
<1>6. PICK p : p = IF l <= q THEN Pad(bitmap, q + 1) ELSE bitmap
  OBVIOUS
<1>7. Widened(p, bitmap, q)
  <2>1. CASE c = 0
    <3>1. l = q /\ p = Pad(bitmap, q + 1)
      BY <1>5, <1>6, <2>1
    <3> QED BY <1>4, <3>1, PadWidens
  <2>2. CASE c # 0
    <3>1. l = q + 1 /\ p = bitmap
      BY <1>5, <1>6, <2>2
    <3>2. \A i \in 1 .. q + 1 : bitmap[i] = IF i <= Len(bitmap) THEN bitmap[i] ELSE 0
      BY <1>4, <3>1
    <3> QED BY <1>4, <3>1, <3>2 DEF Widened
  <2> QED BY <2>1, <2>2
<1>8. PICK x \in Nat : x = p[q + 1]
  BY <1>7 DEF Widened
<1>9. x < OneShifted(c)
  <2>1. CASE c = 0
    <3>1. x = 0
      BY <1>4, <1>5, <1>7, <1>8, <2>1 DEF Widened
    <3> QED BY <2>1, <3>1, Shifted
  <2>2. CASE c # 0
    <3>1. x = bitmap[q + 1]
      BY <1>4, <1>5, <1>7, <1>8, <2>2 DEF Widened
    <3> QED BY <1>1, <1>3, <2>2, <3>1 DEF BitsUpTo
  <2> QED BY <2>1, <2>2
<1>10. PICK y : y = IF v THEN x + OneShifted(c) ELSE x
  OBVIOUS
<1>11. /\ y \in Nat /\ y < OneShifted(c + 1)
       /\ (y \div OneShifted(c)) % 2 = 1 <=> v
       /\ \A j \in 0 .. c - 1 : (y \div OneShifted(j)) % 2 = (x \div OneShifted(j)) % 2
  <2>1. c \in Nat
    OBVIOUS
  <2> QED BY <1>9, <1>10, <2>1, BitAdded
<1>12. PICK b : b = set_bitmap(bitmap, n, v)
  OBVIOUS
<1>13. b = IF v THEN [p EXCEPT ![q + 1] = @ + OneShifted(c)] ELSE p
  BY <1>1, <1>3, <1>4, <1>6, <1>12 DEF set_bitmap, Bit
<1>14. p = [i \in 1 .. q + 1 |-> p[i]] /\ \A i \in 1 .. q + 1 : p[i] \in Nat
  BY <1>7 DEF Widened
<1>15. b = [i \in 1 .. q + 1 |-> IF i = q + 1 THEN y ELSE p[i]]
  <2>1. CASE v
    <3>1. b = [p EXCEPT ![q + 1] = y]
      BY <1>8, <1>10, <1>13, <2>1
    <3>2. DOMAIN p = 1 .. q + 1
      BY <1>14
    <3> QED BY <3>1, <3>2
  <2>2. CASE ~ v
    <3>1. b = p /\ y = p[q + 1]
      BY <1>8, <1>10, <1>13, <2>2
    <3> QED BY <1>14, <3>1
  <2> QED BY <2>1, <2>2
<1>16. b \in Seq(Nat) /\ Len(b) = q + 1
  <2>1. \A i \in 1 .. q + 1 : (IF i = q + 1 THEN y ELSE p[i]) \in Nat
    BY <1>11, <1>14
  <2>2. b \in [1 .. q + 1 -> Nat]
    BY <1>15, <2>1
  <2>3. q + 1 \in Nat
    OBVIOUS
  <2> QED BY <2>2, <2>3
<1>17. ASSUME NEW i \in 0 .. n PROVE BitAt(b, i) <=> flags[i + 1]
  <2>1. PICK h \in Nat : \E d \in 0 .. z - 1 : i = h * z + d /\ i \div z = h /\ i % z = d
    BY DigitsOf
  <2>2. PICK d \in 0 .. z - 1 : i = h * z + d /\ i \div z = h /\ i % z = d
    BY <2>1
  <2>3. BitAt(b, i) <=> (b[h + 1] \div OneShifted(d)) % 2 = 1
    BY <1>1, <2>2 DEF BitAt
  <2>4. BitAt(bitmap, i) <=> (bitmap[h + 1] \div OneShifted(d)) % 2 = 1
    BY <1>1, <2>2 DEF BitAt
  <2>5. CASE i = n
    <3>1. h = q /\ d = c /\ b[h + 1] = y
      BY <1>3, <1>15, <2>2, <2>5
    <3> QED BY <1>1, <1>11, <2>3, <2>5, <3>1
  <2>6. CASE i # n
    <3>1. i \in 0 .. n - 1
      BY <2>6
    <3>2. BitAt(bitmap, i) <=> flags[i + 1]
      BY <3>1 DEF BitsUpTo
    <3>3. h < q \/ (h = q /\ d < c)
      <4>1. h * z + d < q * z + c
        BY <1>3, <2>2, <3>1
      <4> QED BY <4>1, DigitsBelow
    <3>4. CASE h < q
      <4>1. b[h + 1] = p[h + 1] /\ p[h + 1] = bitmap[h + 1]
        BY <1>4, <1>5, <1>7, <1>15, <3>4 DEF Widened
      <4> QED BY <2>3, <2>4, <3>2, <4>1
    <3>5. CASE h = q /\ d < c
      <4>1. b[h + 1] = y /\ x = bitmap[h + 1]
        BY <1>4, <1>5, <1>7, <1>8, <1>15, <3>5 DEF Widened
      <4>2. d \in 0 .. c - 1
        BY <3>5
      <4> QED BY <1>11, <2>3, <2>4, <3>2, <4>1, <4>2
    <3> QED BY <3>3, <3>4, <3>5
  <2> QED BY <2>5, <2>6
<1>18. Len(b) * z >= n + 1 /\ Len(b) * z < (n + 1) + z
  <2>1. PICK t \in Nat : t = q * z
    OBVIOUS
  <2>2. (q + 1) * z = t + z
    BY <2>1
  <2>3. Len(b) * z = t + z
    BY <1>16, <2>2
  <2>4. n = t + c /\ c < z
    BY <1>3, <2>1
  <2>5. t + z >= n + 1 /\ t + z < (n + 1) + z
    BY <2>4
  <2> QED BY <2>3, <2>5
<1>19. (n + 1) % z # 0 => b[((n + 1) \div z) + 1] < OneShifted((n + 1) % z)
  <2>1. CASE c + 1 < z
    <3>1. PICK e \in Nat : e = c + 1 /\ e < z /\ n + 1 = q * z + e
      <4>1. n + 1 = q * z + (c + 1)
        BY <1>3
      <4> QED BY <2>1, <4>1
    <3>2. (n + 1) % z = c + 1 /\ (n + 1) \div z = q
      <4>1. PICK g : g = q * z + e
        OBVIOUS
      <4>2. g % z = e /\ g \div z = q
        BY <3>1, <4>1, DigitAt
      <4>3. n + 1 = g
        BY <3>1, <4>1
      <4> QED BY <3>1, <4>2, <4>3
    <3>3. b[q + 1] = y
      BY <1>15
    <3>4. b[q + 1] < OneShifted(c + 1)
      BY <1>11, <3>3
    <3> QED BY <3>2, <3>4, Zenon
  <2>2. CASE c + 1 = z
    <3>1. PICK g \in Nat : g = q + 1
      OBVIOUS
    <3>2. n + 1 = g * z + 0
      BY <1>3, <2>2, <3>1
    <3>3. (n + 1) % z = 0
      BY <3>2, DigitAt
    <3> QED BY <3>3
  <2> QED BY <2>1, <2>2
<1>20. \A i \in 0 .. (n + 1) - 1 : BitAt(b, i) <=> flags[i + 1]
  BY <1>17
<1>21. BitsUpTo(b, n + 1, flags)
  BY <1>1, <1>16, <1>18, <1>19, <1>20 DEF BitsUpTo
<1> QED BY <1>1, <1>12, <1>21

\* No bit is in the empty bitmap.
LEMMA NoBits ==
  ASSUME NEW flags
  PROVE  BitsUpTo(<< >>, 0, flags)
<1>1. PICK z \in Nat \ {0} : z = ByteBits
  BY ByteBitsAssumption
<1>2. PICK b \in Seq(Nat) : b = << >> /\ Len(b) = 0
  <2>1. << >> \in Seq(Nat) /\ Len(<< >>) = 0
    OBVIOUS
  <2> QED BY <2>1
<1>3. 0 * z >= 0 /\ 0 * z < 0 + z
  OBVIOUS
<1>4. 0 % z = 0
  <2>1. 0 = 0 * z + 0 /\ 0 < z
    OBVIOUS
  <2>2. (0 * z + 0) % z = 0
    BY <2>1, DigitAt
  <2> QED BY <2>1, <2>2
<1>5. \A i \in 0 .. 0 - 1 : FALSE
  OBVIOUS
<1>6. BitsUpTo(b, 0, flags)
  BY <1>1, <1>2, <1>3, <1>4, <1>5 DEF BitsUpTo
<1> QED BY <1>2, <1>6

\* Bitmap sets one bit after the other.
LEMMA BitmapHolds ==
  ASSUME NEW N \in Nat, NEW flags, flags = [i \in 1 .. N |-> flags[i]],
         \A i \in 1 .. N : flags[i] \in BOOLEAN
  PROVE  \A i \in 0 .. N - 1 : BitAt(Bitmap(flags), i) <=> flags[i + 1]
<1>1. Len(flags) = N
  BY Listed
<1> DEFINE V == Seq(Nat)
           Set(b, n) == set_bitmap(b, n - 1, flags[n])
           Eq(e) == e = [n \in 0 .. Len(flags) |-> IF n = 0 THEN << >> ELSE Set(e[n - 1], n)]
<1>2. ASSUME NEW n \in Nat, n + 1 <= N, NEW b, BitsUpTo(b, n, flags)
      PROVE  BitsUpTo(Set(b, n + 1), n + 1, flags)
  <2>1. n + 1 \in 1 .. N /\ (n + 1) - 1 = n
    BY <1>2
  <2> QED BY <1>2, <2>1, BitSet
<1>3. \A b : \A n : BitsUpTo(b, n, flags) => b \in V
  BY DEF BitsUpTo
<1>4. << >> \in V
  OBVIOUS
<1> HIDE DEF V, Set
<1>5. PICK f : f = [x \in (1 .. N) \X V |-> IF Set(x[2], x[1]) \in V THEN Set(x[2], x[1]) ELSE << >>]
  OBVIOUS
<1>6. f \in [(1 .. N) \X V -> V]
  BY <1>4, <1>5
<1>7. \A n \in 1 .. N : \A b \in V : Set(b, n) \in V => f[<<n, b>>] = Set(b, n)
  BY <1>5
<1>8. PICK g : Runs(g, V, N, f, << >>)
  BY <1>4, <1>6, RecursionExists
<1>9. \A n \in Nat : n <= N => BitsUpTo(g[n], n, flags)
  <2> DEFINE S == {n \in Nat : n <= N => BitsUpTo(g[n], n, flags)}
  <2>1. 0 \in S
    BY <1>8, NoBits DEF Runs
  <2>2. ASSUME NEW n \in Nat, n \in S PROVE n + 1 \in S
    <3>1. ASSUME n + 1 <= N PROVE BitsUpTo(g[n + 1], n + 1, flags)
      <4>1. BitsUpTo(g[n], n, flags) /\ n + 1 \in 1 .. N /\ (n + 1) - 1 = n
        BY <2>2, <3>1
      <4>2. BitsUpTo(Set(g[n], n + 1), n + 1, flags)
        BY <1>2, <3>1, <4>1
      <4>3. g[n + 1] = f[<<n + 1, g[n]>>]
        BY <1>8, <4>1 DEF Runs
      <4>4. f[<<n + 1, g[n]>>] = Set(g[n], n + 1)
        BY <1>3, <1>7, <4>1, <4>2
      <4> QED BY <4>2, <4>3, <4>4
    <3> QED BY <3>1
  <2>3. \A n \in Nat : n \in S
    <3> HIDE DEF S
    <3> QED BY <2>1, <2>2, SetInduction
  <2> QED BY <2>3
<1>10. Eq(g)
  <2>1. g = [n \in 0 .. N |-> g[n]] /\ g[0] = << >>
    BY <1>8 DEF Runs
  <2>2. ASSUME NEW n \in 1 .. N PROVE g[n] = Set(g[n - 1], n)
    <3>1. PICK m \in Nat : m = n - 1 /\ n = m + 1 /\ m <= N
      OBVIOUS
    <3>2. BitsUpTo(g[m], m, flags)
      BY <1>9, <3>1
    <3>3. Set(g[m], n) \in V /\ g[m] \in V
      BY <1>2, <1>3, <3>1, <3>2
    <3>4. g[n] = f[<<n, g[m]>>]
      BY <1>8, <3>1 DEF Runs
    <3> QED BY <1>7, <3>1, <3>3, <3>4
  <2>3. ASSUME NEW n \in 0 .. N PROVE g[n] = IF n = 0 THEN << >> ELSE Set(g[n - 1], n)
    <3>1. n = 0 \/ n \in 1 .. N
      OBVIOUS
    <3> QED BY <2>1, <2>2, <3>1
  <2> QED BY <1>1, <2>1, <2>3
<1>11. PICK e : Eq(e) /\ Bitmap(flags) = e[N]
  <2>1. PICK e : e = CHOOSE x : Eq(x)
    OBVIOUS
  <2>2. Eq(e)
    <3> HIDE DEF Eq
    <3> QED BY <1>10, <2>1
  <2>3. Bitmap(flags) = e[Len(flags)]
    BY <2>1 DEF Bitmap, Set
  <2> QED BY <1>1, <2>2, <2>3
<1>12. \A n \in Nat : n <= N => BitsUpTo(e[n], n, flags)
  <2> DEFINE S == {n \in Nat : n <= N => BitsUpTo(e[n], n, flags)}
  <2>1. 0 \in S
    <3>1. e[0] = << >>
      BY <1>1, <1>11
    <3> QED BY <3>1, NoBits
  <2>2. ASSUME NEW n \in Nat, n \in S PROVE n + 1 \in S
    <3>1. ASSUME n + 1 <= N PROVE BitsUpTo(e[n + 1], n + 1, flags)
      <4>1. BitsUpTo(e[n], n, flags) /\ n + 1 \in 0 .. N /\ (n + 1) - 1 = n /\ n + 1 # 0
        BY <2>2, <3>1
      <4>2. e[n + 1] = Set(e[n], n + 1)
        BY <1>1, <1>11, <4>1
      <4> QED BY <1>2, <3>1, <4>1, <4>2
    <3> QED BY <3>1
  <2>3. \A n \in Nat : n \in S
    <3> HIDE DEF S
    <3> QED BY <2>1, <2>2, SetInduction
  <2> QED BY <2>3
<1>13. BitsUpTo(e[N], N, flags)
  <2>1. N <= N
    OBVIOUS
  <2> QED BY <1>12, <2>1
<1> QED BY <1>11, <1>13 DEF BitsUpTo

\* Optional values, one for each of N rows.
Options(values, N) ==
  /\ values = [i \in 1 .. N |-> values[i]]
  /\ \A i \in 1 .. N : values[i] # << >> => values[i] = <<values[i][1]>>

\* A value is valid if there is one.
LEMMA ValidityHolds ==
  ASSUME NEW N \in Nat, NEW values, Options(values, N),
         NEW array, array.validity = Validity(values), NEW i \in 0 .. N - 1
  PROVE  IsValid(array, i) <=> values[i + 1] # << >>
<1>1. DOMAIN values = 1 .. N
  BY DEF Options
<1>2. CASE \E k \in DOMAIN values : values[k] = << >>
  <2>1. PICK flags : flags = [k \in 1 .. N |-> values[k] # << >>]
    OBVIOUS
  <2>2. flags = [k \in 1 .. N |-> flags[k]] /\ \A k \in 1 .. N : flags[k] \in BOOLEAN
    BY <2>1
  <2>3. BitAt(Bitmap(flags), i) <=> flags[i + 1]
    BY <2>2, BitmapHolds
  <2>4. array.validity = <<Bitmap(flags)>>
    BY <1>1, <1>2, <2>1 DEF Validity
  <2>5. i + 1 \in 1 .. N
    OBVIOUS
  <2>6. IsValid(array, i) <=> BitAt(Bitmap(flags), i)
    BY <2>4 DEF IsValid
  <2> QED BY <2>1, <2>3, <2>5, <2>6
<1>3. CASE ~ \E k \in DOMAIN values : values[k] = << >>
  <2>1. array.validity = << >>
    BY <1>3 DEF Validity
  <2>2. i + 1 \in DOMAIN values
    BY <1>1
  <2> QED BY <1>3, <2>1, <2>2 DEF IsValid
<1> QED BY <1>2, <1>3

\* The nulls are counted.
LEMMA NullsHold ==
  ASSUME NEW N \in Nat, NEW values, Options(values, N),
         NEW array, array.validity = Validity(values), array.null_count = Nulls(values)
  PROVE  array.null_count = Cardinality({i \in 1 .. N : ~ IsValid(array, i - 1)})
<1>1. DOMAIN values = 1 .. N
  BY DEF Options
<1>2. ASSUME NEW i \in 1 .. N PROVE IsValid(array, i - 1) <=> values[i] # << >>
  <2>1. i - 1 \in 0 .. N - 1 /\ (i - 1) + 1 = i
    OBVIOUS
  <2>2. IsValid(array, i - 1) <=> values[(i - 1) + 1] # << >>
    BY <2>1, ValidityHolds
  <2> QED BY <2>1, <2>2
<1>3. {i \in 1 .. N : ~ IsValid(array, i - 1)} = {i \in 1 .. N : values[i] = << >>}
  BY <1>2
<1> QED BY <1>1, <1>3 DEF Nulls

\* Numbers are read as they were written.
LEMMA NumbersRead ==
  ASSUME NEW N \in Nat, NEW values, Options(values, N)
  PROVE  LET array == f64_array(values)
         IN /\ array.length = N /\ ReadNumbers(array) = values
            /\ array.null_count = Cardinality({i \in 1 .. N : ~ IsValid(array, i - 1)})
<1>1. PICK array : array = f64_array(values)
  OBVIOUS
<1>2. DOMAIN values = 1 .. N /\ Len(values) = N
  BY Listed DEF Options
<1>3. /\ array.length = N /\ array.null_count = Nulls(values)
      /\ array.validity = Validity(values)
      /\ array.data = [i \in 1 .. N |-> IF values[i] = << >> THEN 0 ELSE values[i][1]]
  BY <1>1, <1>2 DEF f64_array
<1>4. ASSUME NEW k \in 1 .. N
      PROVE  (IF IsValid(array, k - 1) THEN <<array.data[k]>> ELSE << >>) = values[k]
  <2>1. k - 1 \in 0 .. N - 1 /\ (k - 1) + 1 = k
    OBVIOUS
  <2>2. IsValid(array, k - 1) <=> values[(k - 1) + 1] # << >>
    BY <1>3, <2>1, ValidityHolds
  <2>3. CASE values[k] = << >>
    BY <2>1, <2>2, <2>3
  <2>4. CASE values[k] # << >>
    <3>1. array.data[k] = values[k][1]
      BY <1>3, <2>4
    <3>2. values[k] = <<values[k][1]>>
      BY <2>4 DEF Options
    <3> QED BY <2>1, <2>2, <2>4, <3>1, <3>2
  <2> QED BY <2>3, <2>4
<1>5. ReadNumbers(array) = [k \in 1 .. N |-> values[k]]
  BY <1>3, <1>4 DEF ReadNumbers
<1>6. ReadNumbers(array) = values
  BY <1>5 DEF Options
<1>7. array.null_count = Cardinality({i \in 1 .. N : ~ IsValid(array, i - 1)})
  BY <1>3, NullsHold
<1> QED BY <1>1, <1>3, <1>6, <1>7

\* So are Booleans.
LEMMA BoolsRead ==
  ASSUME NEW N \in Nat, NEW values, values = [i \in 1 .. N |-> values[i]],
         \A i \in 1 .. N : values[i] \in BOOLEAN
  PROVE  ReadBools(bool_array(values)) = values
<1>1. PICK array : array = bool_array(values)
  OBVIOUS
<1>2. Len(values) = N
  BY Listed
<1>3. array.length = N /\ array.data = Bitmap(values)
  BY <1>1, <1>2 DEF bool_array
<1>4. ASSUME NEW k \in 1 .. N PROVE BitAt(array.data, k - 1) = values[k]
  <2>1. k - 1 \in 0 .. N - 1 /\ (k - 1) + 1 = k
    OBVIOUS
  <2>2. BitAt(array.data, k - 1) <=> values[(k - 1) + 1]
    BY <1>3, <2>1, BitmapHolds
  <2>3. BitAt(array.data, k - 1) \in BOOLEAN
    BY DEF BitAt
  <2>4. values[k] \in BOOLEAN
    OBVIOUS
  <2> QED BY <2>1, <2>2, <2>3, <2>4
<1>5. ReadBools(array) = [k \in 1 .. N |-> values[k]]
  BY <1>3, <1>4 DEF ReadBools
<1> QED BY <1>1, <1>5

\* The bytes of an optional string, and what was written before them.
BytesOf(values, i) == IF values[i] = << >> THEN << >> ELSE values[i][1]

Written(e, B, values, N) ==
  /\ e \in [0 .. N -> Seq(B)]
  /\ e[0] = << >>
  /\ \A k \in 1 .. N : BytesOf(values, k) \in Seq(B) /\ e[k] = e[k - 1] \o BytesOf(values, k)

\* The strings of a column are lists of bytes.
StringOptions(values, N) ==
  Options(values, N) /\ \A i \in 1 .. N : values[i] # << >> => IsList(values[i][1])

\* What string_array makes of them.
StringArray(array, e, values, N) ==
  /\ array.length = N
  /\ array.null_count = Nulls(values)
  /\ array.validity = Validity(values)
  /\ array.data = e[N]
  /\ array.offsets = [i \in 1 .. N + 1 |-> Len(e[i - 1])]

\* It writes one string after the other.
LEMMA StringsWritten ==
  ASSUME NEW N \in Nat, NEW values, StringOptions(values, N), NEW array,
         string_array(values) = <<array>>
  PROVE  \E B, e : Written(e, B, values, N) /\ StringArray(array, e, values, N)
<1>1. Len(values) = N /\ DOMAIN values = 1 .. N
  BY Listed DEF StringOptions, Options
<1>2. PICK B : B = UNION {ToSet(BytesOf(values, i)) : i \in 1 .. N}
  OBVIOUS
<1>3. ASSUME NEW i \in 1 .. N PROVE BytesOf(values, i) \in Seq(B)
  <2>1. PICK s : s = BytesOf(values, i)
    OBVIOUS
  <2>2. IsList(s)
    <3>1. IsList(<< >>)
      <4>1. << >> \in Seq({})
        OBVIOUS
      <4> QED BY <4>1, ListOver
    <3> QED BY <2>1, <3>1 DEF BytesOf, StringOptions
  <2>3. PICK n \in Nat : DOMAIN s = 1 .. n /\ s = [c \in 1 .. n |-> s[c]]
    BY <2>2, ListForm
  <2>4. ToSet(s) \subseteq B
    BY <1>2, <2>1
  <2>5. \A c \in 1 .. n : s[c] \in B
    BY <2>3, <2>4 DEF ToSet
  <2>6. s \in Seq(B)
    BY <2>3, <2>5
  <2> QED BY <2>1, <2>6
<1> DEFINE V == Seq(B)
           Eq(e) == e = [n \in 0 .. Len(values) |->
                           IF n = 0 THEN << >> ELSE e[n - 1] \o BytesOf(values, n)]
<1>4. PICK f : f = [x \in (1 .. N) \X V |-> x[2] \o BytesOf(values, x[1])]
  OBVIOUS
<1>5. \A n \in 1 .. N : \A s \in V : s \o BytesOf(values, n) \in V
  BY <1>3, ConcatProperties
<1>6. << >> \in V
  OBVIOUS
<1> HIDE DEF V
<1>7. /\ f \in [(1 .. N) \X V -> V]
      /\ \A n \in 1 .. N : \A s \in V : f[<<n, s>>] = s \o BytesOf(values, n)
  BY <1>4, <1>5
<1>8. PICK g : Runs(g, V, N, f, << >>)
  BY <1>6, <1>7, RecursionExists
<1>9. Eq(g)
  <2>1. g = [n \in 0 .. N |-> g[n]]
    BY <1>8 DEF Runs
  <2>2. ASSUME NEW n \in 0 .. N
        PROVE  g[n] = IF n = 0 THEN << >> ELSE g[n - 1] \o BytesOf(values, n)
    <3>1. n # 0 => n \in 1 .. N /\ n - 1 \in 0 .. N
      OBVIOUS
    <3> QED BY <1>7, <1>8, <3>1 DEF Runs
  <2> QED BY <1>1, <2>1, <2>2
<1> DEFINE Made(e) ==
             IF \A n \in DOMAIN values : Len(e[n]) <= I32Max
             THEN Ok([length |-> Len(values), null_count |-> Nulls(values),
                      validity |-> Validity(values), data |-> e[Len(values)],
                      offsets |-> [i \in 1 .. Len(values) + 1 |-> Len(e[i - 1])]])
             ELSE Err
<1>10. PICK e : Eq(e) /\ string_array(values) = Made(e)
  <2>1. PICK e : e = CHOOSE x : Eq(x)
    OBVIOUS
  <2>2. Eq(e)
    <3> HIDE DEF Eq
    <3> QED BY <1>9, <2>1
  <2>3. string_array(values) = Made(e)
    <3>1. string_array(values) = Made(CHOOSE x : Eq(x))
      BY Zenon DEF string_array, BytesOf
    <3> HIDE DEF Made, Eq
    <3> QED BY <2>1, <3>1
  <2> QED BY <2>2, <2>3
<1>11. Runs(e, V, N, f, << >>)
  <2>1. e = [n \in 0 .. N |-> e[n]] /\ e[0] = << >>
    BY <1>1, <1>10
  <2>2. ASSUME NEW n \in 1 .. N, e[n - 1] \in V PROVE e[n] = f[<<n, e[n - 1]>>]
    <3>1. n \in 0 .. N /\ n # 0
      OBVIOUS
    <3>2. e[n] = e[n - 1] \o BytesOf(values, n)
      BY <1>1, <1>10, <3>1
    <3> HIDE DEF Eq
    <3> QED BY <1>7, <2>2, <3>2
  <2> HIDE DEF Eq
  <2> QED BY <1>6, <1>7, <2>1, <2>2, RunsTyped
<1>12. Written(e, B, values, N)
  <2>1. e \in [0 .. N -> Seq(B)] /\ e[0] = << >>
    BY <1>11 DEF Runs, V
  <2>2. ASSUME NEW k \in 1 .. N PROVE e[k] = e[k - 1] \o BytesOf(values, k)
    <3>1. k \in 0 .. N /\ k # 0
      OBVIOUS
    <3> QED BY <1>1, <1>10, <3>1
  <2> HIDE DEF Eq
  <2> QED BY <1>3, <2>1, <2>2 DEF Written
<1>13. PICK made : made = [length |-> N, null_count |-> Nulls(values),
                           validity |-> Validity(values), data |-> e[N],
                           offsets |-> [i \in 1 .. N + 1 |-> Len(e[i - 1])]]
  OBVIOUS
<1>14. string_array(values) \in {<<made>>, << >>}
  <2>1. [i \in 1 .. Len(values) + 1 |-> Len(e[i - 1])] = [i \in 1 .. N + 1 |-> Len(e[i - 1])]
    BY <1>1
  <2>2. Made(e) \in {Ok(made), Err}
    <3> HIDE DEF Eq
    <3> QED BY <1>1, <1>13, <2>1
  <2> HIDE DEF Eq, Made
  <2> QED BY <1>10, <2>2 DEF Ok, Err
<1>15. array = made
  BY <1>14
<1>16. StringArray(array, e, values, N)
  BY <1>13, <1>15 DEF StringArray
<1> QED BY <1>12, <1>16

\* What is written stays where it is.
LEMMA StaysWritten ==
  ASSUME NEW N \in Nat, NEW values, NEW B, NEW e, Written(e, B, values, N), NEW k \in 1 .. N
  PROVE  \A n \in Nat : k <= n /\ n <= N =>
           /\ Len(e[k]) <= Len(e[n])
           /\ \A i \in 1 .. Len(e[k]) : e[n][i] = e[k][i]
<1> DEFINE Holds(n) == /\ Len(e[k]) <= Len(e[n])
                       /\ \A i \in 1 .. Len(e[k]) : e[n][i] = e[k][i]
           S == {n \in Nat : k <= n /\ n <= N => Holds(n)}
<1>1. 0 \in S
  OBVIOUS
<1>2. ASSUME NEW n \in Nat, n \in S PROVE n + 1 \in S
  <2>1. ASSUME k <= n + 1, n + 1 <= N PROVE Holds(n + 1)
    <3>1. PICK a, b, c : a = e[n] /\ b = BytesOf(values, n + 1) /\ c = e[n + 1]
      OBVIOUS
    <3>2. n + 1 \in 1 .. N /\ (n + 1) - 1 = n /\ n \in 0 .. N /\ n + 1 \in 0 .. N
      BY <2>1
    <3>3. a \in Seq(B) /\ b \in Seq(B) /\ c = a \o b /\ e[k] \in Seq(B)
      <4>1. k \in 0 .. N
        OBVIOUS
      <4> QED BY <3>1, <3>2, <4>1, Zenon DEF Written
    <3>4. /\ Len(c) = Len(a) + Len(b)
          /\ \A i \in 1 .. Len(a) + Len(b) : c[i] = IF i <= Len(a) THEN a[i] ELSE b[i - Len(a)]
      BY <3>3, ConcatProperties
    <3>5. Len(a) \in Nat /\ Len(b) \in Nat /\ Len(e[k]) \in Nat
      BY <3>3
    <3>6. CASE k = n + 1
      BY <3>5, <3>6, <3>1, <3>3
    <3>7. CASE k <= n
      <4>1. Holds(n)
        BY <1>2, <2>1, <3>7
      <4>2. Len(e[k]) <= Len(a) /\ \A i \in 1 .. Len(e[k]) : a[i] = e[k][i]
        BY <3>1, <4>1
      <4>3. Len(e[k]) <= Len(c)
        BY <3>4, <3>5, <4>2
      <4>4. ASSUME NEW i \in 1 .. Len(e[k]) PROVE c[i] = e[k][i]
        <5>1. i <= Len(a) /\ i \in 1 .. Len(a) + Len(b)
          BY <3>5, <4>2
        <5> QED BY <3>4, <4>2, <5>1
      <4> QED BY <3>1, <4>3, <4>4
    <3> QED BY <2>1, <3>6, <3>7
  <2> QED BY <2>1
<1>3. \A n \in Nat : n \in S
  <2> HIDE DEF S
  <2> QED BY <1>1, <1>2, SetInduction
<1> QED BY <1>3

\* A string lies between its offsets.
LEMMA StringFound ==
  ASSUME NEW N \in Nat, NEW values, NEW B, NEW e, Written(e, B, values, N), NEW k \in 1 .. N
  PROVE  SubSeq(e[N], Len(e[k - 1]) + 1, Len(e[k])) = BytesOf(values, k)
<1>1. PICK a, b, c, d : a = e[k - 1] /\ b = BytesOf(values, k) /\ c = e[k] /\ d = e[N]
  OBVIOUS
<1>2. k - 1 \in 0 .. N /\ k \in 0 .. N /\ N \in 0 .. N /\ k <= N /\ N <= N
  OBVIOUS
<1>3. a \in Seq(B) /\ b \in Seq(B) /\ c \in Seq(B) /\ d \in Seq(B) /\ c = a \o b
  BY <1>1, <1>2 DEF Written
<1>4. /\ Len(c) = Len(a) + Len(b)
      /\ \A i \in 1 .. Len(a) + Len(b) : c[i] = IF i <= Len(a) THEN a[i] ELSE b[i - Len(a)]
  BY <1>3, ConcatProperties
<1>5. Len(c) <= Len(d) /\ \A i \in 1 .. Len(c) : d[i] = c[i]
  BY <1>1, <1>2, StaysWritten
<1>6. PICK p \in Nat, q \in Nat, r \in Nat : p = Len(a) /\ q = Len(b) /\ r = Len(d)
  BY <1>3
<1>7. PICK s : s = SubSeq(d, p + 1, p + q)
  OBVIOUS
<1>8. \A i \in p + 1 .. p + q : d[i] \in B
  <2>1. DOMAIN d = 1 .. r /\ p + q <= r
    BY <1>3, <1>4, <1>5, <1>6
  <2>2. \A i \in 1 .. r : d[i] \in B
    BY <1>3, <1>6
  <2> QED BY <2>1, <2>2
<1>9. /\ s \in Seq(B)
      /\ Len(s) = IF p + 1 <= p + q THEN (p + q) - (p + 1) + 1 ELSE 0
      /\ \A i \in 1 .. (p + q) - (p + 1) + 1 : s[i] = d[(p + 1) + i - 1]
  BY <1>7, <1>8, SubSeqProperties
<1>10. Len(s) = q /\ (p + q) - (p + 1) + 1 = q
  BY <1>9
<1>11. ASSUME NEW i \in 1 .. q PROVE s[i] = b[i]
  <2>1. (p + 1) + i - 1 = p + i /\ p + i \in 1 .. p + q /\ ~ (p + i <= p) /\ (p + i) - p = i
    OBVIOUS
  <2>2. s[i] = d[p + i]
    BY <1>9, <1>10, <2>1
  <2>3. d[p + i] = c[p + i]
    BY <1>4, <1>5, <1>6, <2>1
  <2>4. c[p + i] = b[i]
    BY <1>4, <1>6, <2>1
  <2> QED BY <2>2, <2>3, <2>4
<1>12. s = b
  <2>1. s = [i \in 1 .. q |-> s[i]]
    BY <1>9, <1>10
  <2>2. b = [i \in 1 .. q |-> b[i]]
    BY <1>3, <1>6
  <2> QED BY <1>11, <2>1, <2>2
<1> QED BY <1>1, <1>4, <1>6, <1>7, <1>12

\* Strings are read as they were written.
LEMMA StringsRead ==
  ASSUME NEW N \in Nat, NEW values, StringOptions(values, N), NEW array,
         string_array(values) = <<array>>
  PROVE  array.length = N /\ ReadStrings(array) = values
<1>1. PICK B, e : Written(e, B, values, N) /\ StringArray(array, e, values, N)
  BY StringsWritten
<1>2. Options(values, N)
  BY DEF StringOptions
<1>3. Written(e, B, values, N)
  BY <1>1
<1>4. /\ array.length = N /\ array.validity = Validity(values) /\ array.data = e[N]
      /\ array.offsets = [i \in 1 .. N + 1 |-> Len(e[i - 1])]
  BY <1>1 DEF StringArray
<1>5. ASSUME NEW k \in 1 .. N
      PROVE  (IF IsValid(array, k - 1)
              THEN <<SubSeq(array.data, array.offsets[k] + 1, array.offsets[k + 1])>> ELSE << >>)
               = values[k]
  <2>1. k - 1 \in 0 .. N - 1 /\ (k - 1) + 1 = k /\ k \in 1 .. N + 1 /\ k + 1 \in 1 .. N + 1
        /\ (k + 1) - 1 = k
    OBVIOUS
  <2>2. IsValid(array, k - 1) <=> values[(k - 1) + 1] # << >>
    BY <1>2, <1>4, <2>1, ValidityHolds
  <2>3. CASE values[k] = << >>
    BY <2>1, <2>2, <2>3
  <2>4. CASE values[k] # << >>
    <3>1. array.offsets[k] = Len(e[k - 1]) /\ array.offsets[k + 1] = Len(e[k])
      BY <1>4, <2>1
    <3>2. SubSeq(array.data, array.offsets[k] + 1, array.offsets[k + 1]) = values[k][1]
      <4>1. SubSeq(e[N], Len(e[k - 1]) + 1, Len(e[k])) = BytesOf(values, k)
        BY <1>3, StringFound, ZenonT(60)
      <4>2. BytesOf(values, k) = values[k][1]
        BY <2>4 DEF BytesOf
      <4> QED BY <1>4, <3>1, <4>1, <4>2
    <3>3. values[k] = <<values[k][1]>>
      BY <1>2, <2>4 DEF Options
    <3> QED BY <2>1, <2>2, <2>4, <3>2, <3>3
  <2> QED BY <2>3, <2>4
<1>6. ReadStrings(array) = [k \in 1 .. N |-> values[k]]
  BY <1>4, <1>5 DEF ReadStrings
<1> QED BY <1>2, <1>4, <1>6 DEF Options

\* A list goes on with another.
LEMMA JoinedPlaces ==
  ASSUME NEW N \in Nat, NEW M \in Nat, NEW s, NEW t,
         s = [i \in 1 .. N |-> s[i]], t = [i \in 1 .. M |-> t[i]]
  PROVE  /\ DOMAIN (s \o t) = 1 .. N + M
         /\ \A i \in 1 .. N : (s \o t)[i] = s[i]
         /\ \A i \in 1 .. M : (s \o t)[i + N] = t[i]
<1>1. PICK V : V = ToSet(s) \cup ToSet(t)
  OBVIOUS
<1>2. (\A i \in 1 .. N : s[i] \in V) /\ (\A i \in 1 .. M : t[i] \in V)
  BY <1>1 DEF ToSet
<1>3. s \in Seq(V) /\ Len(s) = N
  BY <1>2
<1>4. t \in Seq(V) /\ Len(t) = M
  BY <1>2
<1>5. PICK u : u = s \o t
  OBVIOUS
<1>6. /\ u \in Seq(V) /\ Len(u) = N + M
      /\ \A i \in 1 .. N + M : u[i] = IF i <= N THEN s[i] ELSE t[i - N]
  BY <1>3, <1>4, <1>5, ConcatProperties, ZenonT(60)
<1>7. DOMAIN u = 1 .. N + M
  BY <1>6
<1>8. ASSUME NEW i \in 1 .. N PROVE u[i] = s[i]
  <2>1. i \in 1 .. N + M /\ i <= N
    OBVIOUS
  <2> QED BY <1>6, <2>1
<1>9. ASSUME NEW i \in 1 .. M PROVE u[i + N] = t[i]
  <2>1. i + N \in 1 .. N + M /\ ~ (i + N <= N) /\ (i + N) - N = i
    OBVIOUS
  <2> QED BY <1>6, <2>1
<1> QED BY <1>5, <1>7, <1>8, <1>9

\* A struct array has the columns it is made of.
LEMMA StructForm ==
  ASSUME NEW length, NEW columns, NEW fields, NEW a, Struct(length, columns, fields) = <<a>>
  PROVE  /\ a.length = length /\ a.fields = fields
         /\ \A i \in DOMAIN columns : IsOk(columns[i]) /\ a.children[i] = columns[i][1]
<1>1. PICK b : b = [length |-> length, fields |-> fields,
                    children |-> [i \in DOMAIN columns |-> columns[i][1]]]
  BY Zenon
<1>2. \/ Struct(length, columns, fields) = << >>
      \/ /\ Struct(length, columns, fields) = <<b>>
         /\ \A i \in DOMAIN columns : IsOk(columns[i])
  BY <1>1 DEF Struct, Ok, Err
<1>3. a = b /\ \A i \in DOMAIN columns : IsOk(columns[i])
  BY <1>2
<1> QED BY <1>1, <1>3

\* Strings, each of them a list of bytes.
StringList(s) == IsList(s) /\ \A i \in DOMAIN s : IsList(s[i])
Present(s) == [i \in DOMAIN s |-> <<s[i]>>]

\* A column of strings has one form.
LEMMA StringForm ==
  ASSUME NEW values, IsOk(string_array(values))
  PROVE  string_array(values) = <<string_array(values)[1]>>
BY Zenon DEF string_array, IsOk, Ok

\* Strings that are all there are read as they were written.
LEMMA PresentRead ==
  ASSUME NEW ids, StringList(ids), IsOk(Strings(ids))
  PROVE  ReadStrings(Strings(ids)[1]) = Present(ids)
<1>1. PICK N \in Nat : DOMAIN ids = 1 .. N
  BY ListForm DEF StringList
<1>2. PICK values : values = Present(ids)
  OBVIOUS
<1>3. values = [i \in 1 .. N |-> <<ids[i]>>]
  BY <1>1, <1>2 DEF Present
<1>4. StringOptions(values, N)
  <2>1. values = [i \in 1 .. N |-> values[i]]
    BY <1>3
  <2>2. \A i \in 1 .. N : values[i] = <<values[i][1]>> /\ IsList(values[i][1])
    BY <1>1, <1>3 DEF StringList
  <2> QED BY <2>1, <2>2 DEF StringOptions, Options
<1>5. Strings(ids) = string_array(values)
  BY <1>2 DEF Strings, Present
<1>6. PICK array : array = string_array(values)[1]
  OBVIOUS
<1>7. string_array(values) = <<array>>
  BY <1>5, <1>6, StringForm
<1>8. ReadStrings(array) = values
  BY <1>4, <1>7, StringsRead
<1> QED BY <1>2, <1>5, <1>6, <1>8

\* A column of numbers holds N values, and knows how many are missing.
NumbersHeld(array, values, N) ==
  /\ array.null_count = Cardinality({i \in 1 .. N : ~ IsValid(array, i - 1)})
  /\ ReadNumbers(array) = values

\* It does.
LEMMA NumbersForm ==
  ASSUME NEW N \in Nat, NEW values, Options(values, N)
  PROVE  Numbers(values) = <<Numbers(values)[1]>> /\ NumbersHeld(Numbers(values)[1], values, N)
<1>1. PICK array : array = f64_array(values)
  OBVIOUS
<1>2. NumbersHeld(array, values, N)
  BY <1>1, NumbersRead DEF NumbersHeld
<1>3. Numbers(values) = <<array>>
  BY <1>1 DEF Numbers, Ok
<1> QED BY <1>2, <1>3

\* The blocks that features are exported from.
ExportedBlock(block) ==
  /\ StringList(block.obs) /\ StringList(block.samples)
  /\ IsList(block.names) /\ IsList(block.values) /\ Len(block.obs) = Len(block.values)

\* What is read from exported features.
FeaturesRead(a, block) ==
  /\ ReadStrings(a.children[1]) = Present(block.obs)
  /\ ReadStrings(a.children[2]) = Present(block.samples)
  /\ \A f \in DOMAIN block.names :
       /\ a.fields[f + 2].name = block.names[f]
       /\ NumbersHeld(a.children[f + 2], [k \in 1 .. a.length |-> Cell(block.values[k][f])], a.length)

\* It is the block.
LEMMA FeaturesExported ==
  ASSUME NEW block, ExportedBlock(block), NEW a, build_feature_arrow(block) = <<a>>
  PROVE  FeaturesRead(a, block)
<1>1. PICK n \in Nat : DOMAIN block.names = 1 .. n
  BY ListForm DEF ExportedBlock
<1>2. PICK N \in Nat : N = Len(block.obs) /\ DOMAIN block.values = 1 .. N
  BY ListForm DEF ExportedBlock
<1>3. PICK cells : cells = [f \in 1 .. n |-> [k \in 1 .. N |-> Cell(block.values[k][f])]]
  OBVIOUS
<1>4. PICK s, t, u, v :
        /\ s = <<Strings(block.obs), Strings(block.samples)>>
        /\ t = [f \in 1 .. n |-> Numbers(cells[f])]
        /\ u = <<Column(101), Column(102)>>
        /\ v = [f \in 1 .. n |-> field_schema(block.names[f], "g", TRUE)]
  OBVIOUS
<1>5. Struct(N, s \o t, u \o v) = <<a>>
  <2>1. \A f \in 1 .. n : [k \in DOMAIN block.values |-> Cell(block.values[k][f])] = cells[f]
    BY <1>2, <1>3
  <2>2. [f \in DOMAIN block.names |-> Numbers([k \in DOMAIN block.values |-> Cell(block.values[k][f])])] = t
    BY <1>1, <1>4, <2>1
  <2>3. [f \in DOMAIN block.names |-> field_schema(block.names[f], "g", TRUE)] = v
    BY <1>1, <1>4
  <2>4. build_feature_arrow(block) \in {Struct(N, s \o t, u \o v), Err}
    BY <1>2, <1>4, <2>2, <2>3 DEF build_feature_arrow
  <2> QED BY <2>4 DEF Err
<1>6. /\ DOMAIN (s \o t) = 1 .. 2 + n
      /\ \A i \in 1 .. 2 : (s \o t)[i] = s[i]
      /\ \A i \in 1 .. n : (s \o t)[i + 2] = t[i]
  <2>1. s = [i \in 1 .. 2 |-> s[i]] /\ t = [i \in 1 .. n |-> t[i]]
    BY <1>4
  <2> QED BY <2>1, JoinedPlaces
<1>7. \A i \in 1 .. n : (u \o v)[i + 2] = v[i]
  <2>1. u = [i \in 1 .. 2 |-> u[i]] /\ v = [i \in 1 .. n |-> v[i]]
    BY <1>4
  <2> QED BY <2>1, JoinedPlaces
<1>8. /\ a.length = N /\ a.fields = u \o v
      /\ \A i \in 1 .. 2 + n : IsOk((s \o t)[i]) /\ a.children[i] = (s \o t)[i][1]
  <2>1. PICK columns, fields : columns = s \o t /\ fields = u \o v
    OBVIOUS
  <2>2. DOMAIN columns = 1 .. 2 + n /\ Struct(N, columns, fields) = <<a>>
    BY <1>5, <1>6, <2>1
  <2>3. /\ a.length = N /\ a.fields = fields
        /\ \A i \in 1 .. 2 + n : IsOk(columns[i]) /\ a.children[i] = columns[i][1]
    BY <2>2, StructForm
  <2> QED BY <2>1, <2>3, Zenon
<1>9. ReadStrings(a.children[1]) = Present(block.obs)
  <2>1. 1 \in 1 .. 2 + n /\ 1 \in 1 .. 2 /\ s[1] = Strings(block.obs)
    BY <1>4
  <2>2. PICK column : column = Strings(block.obs)
    OBVIOUS
  <2>3. IsOk(column) /\ a.children[1] = column[1]
    BY <1>6, <1>8, <2>1, <2>2
  <2>4. StringList(block.obs)
    BY DEF ExportedBlock
  <2> QED BY <2>2, <2>3, <2>4, PresentRead
<1>10. ReadStrings(a.children[2]) = Present(block.samples)
  <2>1. 2 \in 1 .. 2 + n /\ 2 \in 1 .. 2 /\ s[2] = Strings(block.samples)
    BY <1>4
  <2>2. PICK column : column = Strings(block.samples)
    OBVIOUS
  <2>3. IsOk(column) /\ a.children[2] = column[1]
    BY <1>6, <1>8, <2>1, <2>2
  <2>4. StringList(block.samples)
    BY DEF ExportedBlock
  <2> QED BY <2>2, <2>3, <2>4, PresentRead
<1>11. ASSUME NEW f \in 1 .. n
       PROVE  /\ a.fields[f + 2].name = block.names[f]
              /\ NumbersHeld(a.children[f + 2], [k \in 1 .. N |-> Cell(block.values[k][f])], N)
  <2>1. f + 2 \in 1 .. 2 + n
    OBVIOUS
  <2>2. a.fields[f + 2] = field_schema(block.names[f], "g", TRUE)
    BY <1>4, <1>7, <1>8
  <2>3. a.children[f + 2] = Numbers(cells[f])[1]
    BY <1>4, <1>6, <1>8, <2>1
  <2>4. cells[f] = [k \in 1 .. N |-> Cell(block.values[k][f])]
    BY <1>3
  <2>5. Options(cells[f], N)
    <3>1. cells[f] = [k \in 1 .. N |-> cells[f][k]]
      BY <2>4
    <3>2. \A k \in 1 .. N : cells[f][k] # << >> => cells[f][k] = <<cells[f][k][1]>>
      BY <2>4 DEF Cell
    <3> QED BY <3>1, <3>2 DEF Options
  <2>6. NumbersHeld(Numbers(cells[f])[1], cells[f], N)
    BY <2>5, NumbersForm
  <2>7. a.fields[f + 2].name = block.names[f]
    BY <2>2 DEF field_schema
  <2> QED BY <2>3, <2>4, <2>6, <2>7
<1> QED BY <1>1, <1>8, <1>9, <1>10, <1>11 DEF FeaturesRead

\* Values of one target, and the samples they are of.
ExportedTarget(block) ==
  /\ StringList(block.samples) /\ IsList(block.values) /\ Len(block.values) = Len(block.samples)

\* What is read from an exported target.
TargetRead(a, block) ==
  /\ ReadStrings(a.children[1]) = Present(block.samples)
  /\ ReadNumbers(a.children[3]) = [i \in 1 .. a.length |-> Cell(block.values[i])]

\* It is its values.
LEMMA TargetExported ==
  ASSUME NEW target, NEW block, ExportedTarget(block), NEW a,
         build_target_arrow(target, block) = <<a>>
  PROVE  TargetRead(a, block)
<1>1. PICK N \in Nat : N = Len(block.samples) /\ DOMAIN block.values = 1 .. N
  BY ListForm DEF ExportedTarget
<1>2. PICK cells : cells = [i \in 1 .. N |-> Cell(block.values[i])]
  OBVIOUS
<1>3. PICK columns, fields, targets :
        /\ columns = <<Strings(block.samples), Strings(targets), Numbers(cells)>>
        /\ fields = <<Column(102), Column(103), field_schema(<<104>>, "g", TRUE)>>
        /\ targets = [i \in DOMAIN block.samples |-> target]
  OBVIOUS
<1>4. [i \in DOMAIN block.values |-> Cell(block.values[i])] = cells
  BY <1>1, <1>2
<1>5. build_target_arrow(target, block) # Err
  BY DEF Err
<1>6. Struct(N, columns, fields) = <<a>>
  BY <1>1, <1>3, <1>4, <1>5 DEF build_target_arrow
<1>7. /\ a.length = N
      /\ \A i \in DOMAIN columns : IsOk(columns[i]) /\ a.children[i] = columns[i][1]
  BY <1>6, StructForm
<1>8. 1 \in DOMAIN columns /\ 3 \in DOMAIN columns
  BY <1>3
<1>9. ReadStrings(a.children[1]) = Present(block.samples)
  <2>1. PICK column : column = Strings(block.samples)
    OBVIOUS
  <2>2. columns[1] = column
    BY <1>3, <2>1
  <2>3. IsOk(column) /\ a.children[1] = column[1]
    BY <1>7, <1>8, <2>2
  <2>4. StringList(block.samples)
    BY DEF ExportedTarget
  <2> QED BY <2>1, <2>3, <2>4, PresentRead
<1>10. ReadNumbers(a.children[3]) = cells
  <2>1. PICK column : column = Numbers(cells)
    OBVIOUS
  <2>2. columns[3] = column
    BY <1>3, <2>1
  <2>3. a.children[3] = column[1]
    BY <1>7, <1>8, <2>2
  <2>4. Options(cells, N)
    <3>1. \A i \in 1 .. N : cells[i] # << >> => cells[i] = <<cells[i][1]>>
      BY <1>2 DEF Cell
    <3> QED BY <1>2, <3>1 DEF Options
  <2>5. NumbersHeld(column[1], cells, N)
    BY <2>1, <2>4, NumbersForm
  <2> QED BY <2>3, <2>5 DEF NumbersHeld
<1> QED BY <1>2, <1>7, <1>9, <1>10 DEF TargetRead

\* Values of all targets: one that is masked is null.
ExportedTargets(block, targets) ==
  /\ IsList(block.samples) /\ IsList(targets)
  /\ \A t \in DOMAIN targets : \A i \in DOMAIN block.samples :
       ~ block.masks[t][i] => block.values[t][i].kind = "null"

\* What is read from exported targets.
TargetsRead(a, targets, block) ==
  \A t \in DOMAIN targets :
    /\ a.fields[t + 1].name = targets[t]
    /\ NumbersHeld(a.children[t + 1], [i \in 1 .. a.length |-> Cell(block.values[t][i])], a.length)

\* It is their values.
LEMMA TargetsExported ==
  ASSUME NEW targets, NEW block, ExportedTargets(block, targets), NEW a,
         build_multi_target_arrow(targets, block) = <<a>>
  PROVE  TargetsRead(a, targets, block)
<1>1. PICK N \in Nat : N = Len(block.samples) /\ DOMAIN block.samples = 1 .. N
  BY ListForm DEF ExportedTargets
<1>2. PICK n \in Nat : DOMAIN targets = 1 .. n
  BY ListForm DEF ExportedTargets
<1>3. PICK cells : cells = [t \in 1 .. n |-> [i \in 1 .. N |->
        IF block.masks[t][i] THEN Cell(block.values[t][i]) ELSE << >>]]
  OBVIOUS
<1>4. PICK s, t, u, v :
        /\ s = <<Strings(block.samples)>>
        /\ t = [k \in 1 .. n |-> Numbers(cells[k])]
        /\ u = <<Column(102)>>
        /\ v = [k \in 1 .. n |-> field_schema(targets[k], "g", TRUE)]
  OBVIOUS
<1>5. Struct(N, s \o t, u \o v) = <<a>>
  <2>1. \A k \in 1 .. n : [i \in DOMAIN block.samples |->
          IF block.masks[k][i] THEN Cell(block.values[k][i]) ELSE << >>] = cells[k]
    BY <1>1, <1>3
  <2>2. [k \in DOMAIN targets |-> Numbers([i \in DOMAIN block.samples |->
           IF block.masks[k][i] THEN Cell(block.values[k][i]) ELSE << >>])] = t
    BY <1>2, <1>4, <2>1
  <2>3. [k \in DOMAIN targets |-> field_schema(targets[k], "g", TRUE)] = v
    BY <1>2, <1>4
  <2>4. build_multi_target_arrow(targets, block) \in {Struct(N, s \o t, u \o v), Err}
    BY <1>1, <1>4, <2>2, <2>3 DEF build_multi_target_arrow
  <2> QED BY <2>4 DEF Err
<1>6. PICK columns, fields : columns = s \o t /\ fields = u \o v
  OBVIOUS
<1>7. DOMAIN columns = 1 .. 1 + n /\ \A i \in 1 .. n : columns[i + 1] = t[i]
  <2>1. s = [i \in 1 .. 1 |-> s[i]] /\ t = [i \in 1 .. n |-> t[i]]
    BY <1>4
  <2> QED BY <1>6, <2>1, JoinedPlaces
<1>8. \A i \in 1 .. n : fields[i + 1] = v[i]
  <2>1. u = [i \in 1 .. 1 |-> u[i]] /\ v = [i \in 1 .. n |-> v[i]]
    BY <1>4
  <2> QED BY <1>6, <2>1, JoinedPlaces
<1>9. /\ a.length = N /\ a.fields = fields
      /\ \A i \in 1 .. 1 + n : a.children[i] = columns[i][1]
  <2>1. Struct(N, columns, fields) = <<a>>
    BY <1>5, <1>6
  <2> QED BY <1>7, <2>1, StructForm
<1>10. ASSUME NEW k \in 1 .. n
       PROVE  /\ a.fields[k + 1].name = targets[k]
              /\ NumbersHeld(a.children[k + 1], [i \in 1 .. N |-> Cell(block.values[k][i])], N)
  <2>1. k + 1 \in 1 .. 1 + n
    OBVIOUS
  <2>2. a.fields[k + 1] = field_schema(targets[k], "g", TRUE)
    BY <1>4, <1>8, <1>9
  <2>3. a.children[k + 1] = Numbers(cells[k])[1]
    BY <1>4, <1>7, <1>9, <2>1
  <2>4. ASSUME NEW i \in 1 .. N PROVE cells[k][i] = Cell(block.values[k][i])
    <3>1. cells[k][i] = IF block.masks[k][i] THEN Cell(block.values[k][i]) ELSE << >>
      BY <1>3
    <3>2. ~ block.masks[k][i] => block.values[k][i].kind = "null"
      BY <1>1, <1>2 DEF ExportedTargets
    <3> QED BY <3>1, <3>2 DEF Cell
  <2>5. cells[k] = [i \in 1 .. N |-> Cell(block.values[k][i])]
    <3>1. cells[k] = [i \in 1 .. N |-> cells[k][i]]
      BY <1>3
    <3> QED BY <2>4, <3>1
  <2>6. Options(cells[k], N)
    <3>1. cells[k] = [i \in 1 .. N |-> cells[k][i]]
      BY <1>3
    <3>2. ASSUME NEW i \in 1 .. N, cells[k][i] # << >> PROVE cells[k][i] = <<cells[k][i][1]>>
      <4>1. PICK x, value : x = cells[k][i] /\ value = block.values[k][i]
        OBVIOUS
      <4>2. x = Cell(value)
        BY <2>4, <4>1
      <4>3. x = <<x[1]>>
        BY <3>2, <4>1, <4>2 DEF Cell
      <4> QED BY <4>1, <4>3
    <3> QED BY <3>1, <3>2 DEF Options
  <2>7. NumbersHeld(Numbers(cells[k])[1], cells[k], N)
    BY <2>6, NumbersForm
  <2>8. a.fields[k + 1].name = targets[k]
    BY <2>2 DEF field_schema
  <2> QED BY <2>3, <2>5, <2>7, <2>8
<1> QED BY <1>2, <1>9, <1>10 DEF TargetsRead

\* A field of the relations of a view.
Field(view, f) == [i \in DOMAIN view |-> view[i][f]]

\* The relations of a view have strings, some of them optional.
OptionalString(o) == o # << >> => o = <<o[1]>> /\ IsList(o[1])

Related(view) ==
  /\ IsList(view)
  /\ \A i \in DOMAIN view :
       /\ \A f \in {"obs", "sample", "json"} : IsList(view[i][f])
       /\ \A f \in {"target", "group", "origin", "source"} : OptionalString(view[i][f])
       /\ view[i]["augmented"] \in BOOLEAN

\* A field that all relations have.
LEMMA RequiredRead ==
  ASSUME NEW view, Related(view), NEW f \in {"obs", "sample", "json"},
         NEW column, column = Strings(Field(view, f)), IsOk(column)
  PROVE  ReadStrings(column[1]) = Present(Field(view, f))
<1>1. PICK N \in Nat : DOMAIN view = 1 .. N
  BY ListForm DEF Related
<1>2. PICK ids : ids = Field(view, f)
  OBVIOUS
<1>3. ids = [i \in 1 .. N |-> view[i][f]]
  BY <1>1, <1>2 DEF Field
<1>4. IsList(ids) /\ DOMAIN ids = 1 .. N
  <2>1. ids = [i \in 1 .. N |-> ids[i]]
    BY <1>3
  <2> QED BY <2>1, Listed
<1>5. ASSUME NEW i \in DOMAIN ids PROVE IsList(ids[i])
  <2>1. i \in DOMAIN view /\ ids[i] = view[i][f]
    BY <1>1, <1>3, <1>4
  <2> QED BY <2>1 DEF Related
<1>6. StringList(ids)
  BY <1>4, <1>5 DEF StringList
<1> QED BY <1>2, <1>6, PresentRead

\* A field that some relations have.
LEMMA OptionalRead ==
  ASSUME NEW view, Related(view), NEW f \in {"target", "group", "origin", "source"},
         NEW column, column = string_array(Field(view, f)), IsOk(column)
  PROVE  ReadStrings(column[1]) = Field(view, f)
<1>1. PICK N \in Nat : DOMAIN view = 1 .. N
  BY ListForm DEF Related
<1>2. PICK values : values = Field(view, f)
  OBVIOUS
<1>3. values = [i \in 1 .. N |-> view[i][f]]
  BY <1>1, <1>2 DEF Field
<1>4. values = [i \in 1 .. N |-> values[i]]
  BY <1>3
<1>5. ASSUME NEW i \in 1 .. N PROVE OptionalString(values[i])
  <2>1. i \in DOMAIN view /\ values[i] = view[i][f]
    BY <1>1, <1>3
  <2> QED BY <2>1 DEF Related
<1>6. StringOptions(values, N)
  BY <1>4, <1>5 DEF StringOptions, Options, OptionalString
<1>7. PICK array : array = column[1]
  OBVIOUS
<1>8. string_array(values) = <<array>>
  BY <1>2, <1>7, StringForm
<1> QED BY <1>2, <1>6, <1>7, <1>8, StringsRead

\* What is read from exported relations.
RelationsRead(a, view) ==
  /\ ReadStrings(a.children[1]) = Present(Field(view, "obs"))
  /\ ReadStrings(a.children[2]) = Present(Field(view, "sample"))
  /\ ReadStrings(a.children[3]) = Field(view, "target")
  /\ ReadStrings(a.children[4]) = Field(view, "group")
  /\ ReadStrings(a.children[5]) = Field(view, "origin")
  /\ ReadStrings(a.children[6]) = Field(view, "source")
  /\ ReadBools(a.children[7]) = Field(view, "augmented")
  /\ Len(a.children) = 7 => \A i \in DOMAIN view : ~ view[i].rich
  /\ Len(a.children) = 8 => ReadStrings(a.children[8]) = Present(Field(view, "json"))

\* The columns of the relations, the text among them if some relation has more
\* than the others hold, and their fields.
FixedColumns(view) ==
  <<Strings(Field(view, "obs")), Strings(Field(view, "sample")),
    string_array(Field(view, "target")), string_array(Field(view, "group")),
    string_array(Field(view, "origin")), string_array(Field(view, "source")),
    Ok(bool_array(Field(view, "augmented")))>>

TextColumn(view) ==
  IF \E i \in DOMAIN view : view[i].rich THEN <<Strings(Field(view, "json"))>> ELSE << >>

RelationFields(view) ==
  <<Column(101), Column(102), Nullable(103), Nullable(105), Nullable(106), Nullable(107),
    field_schema(<<108>>, "b", FALSE)>> \o
  (IF \E i \in DOMAIN view : view[i].rich THEN <<Column(109)>> ELSE << >>)

\* They are what the relations are exported as.
LEMMA RelationsStruct ==
  ASSUME NEW view
  PROVE  build_identity_relations_arrow(view) =
           Struct(Len(view), FixedColumns(view) \o TextColumn(view), RelationFields(view))
<1>1. [i \in DOMAIN view |-> view[i].augmented] = Field(view, "augmented")
  BY DEF Field
<1> QED BY <1>1 DEF build_identity_relations_arrow, Field, FixedColumns, TextColumn, RelationFields

\* What is read is the relations, with their text if they have more than the
\* columns.
LEMMA RelationsExported ==
  ASSUME NEW view, Related(view), NEW a, build_identity_relations_arrow(view) = <<a>>
  PROVE  RelationsRead(a, view)
<1>1. PICK s, t, fields :
        s = FixedColumns(view) /\ t = TextColumn(view) /\ fields = RelationFields(view)
  OBVIOUS
<1>2. PICK columns : columns = s \o t
  OBVIOUS
<1>3. Struct(Len(view), columns, fields) = <<a>>
  BY <1>1, <1>2, RelationsStruct
<1>4. PICK m \in 0 .. 1 : m = IF \E i \in DOMAIN view : view[i].rich THEN 1 ELSE 0
  OBVIOUS
<1>5. /\ DOMAIN columns = 1 .. 7 + m
      /\ \A i \in 1 .. 7 : columns[i] = s[i]
      /\ \A i \in 1 .. m : columns[i + 7] = t[i]
  <2>1. s = [i \in 1 .. 7 |-> s[i]]
    BY <1>1 DEF FixedColumns
  <2>2. t = [i \in 1 .. m |-> t[i]]
    <3>1. CASE m = 0
      <4>1. t = << >>
        BY <1>1, <1>4, <3>1 DEF TextColumn
      <4> QED BY <3>1, <4>1
    <3>2. CASE m = 1
      <4>1. t = <<Strings(Field(view, "json"))>>
        BY <1>1, <1>4, <3>2 DEF TextColumn
      <4> QED BY <3>2, <4>1
    <3> QED BY <3>1, <3>2
  <2> QED BY <1>2, <2>1, <2>2, JoinedPlaces
<1>6. \A i \in 1 .. 7 + m : IsOk(columns[i]) /\ a.children[i] = columns[i][1]
  BY <1>3, <1>5, StructForm
<1>7. a.children = [i \in 1 .. 7 + m |-> a.children[i]]
  <2>1. Struct(Len(view), columns, fields) \in
          {Err, <<[length |-> Len(view), fields |-> fields,
                   children |-> [i \in DOMAIN columns |-> columns[i][1]]]>>}
    BY DEF Struct, Ok
  <2>2. a.children = [i \in DOMAIN columns |-> columns[i][1]]
    BY <1>3, <2>1 DEF Err
  <2> QED BY <1>5, <2>2
<1>8. Len(a.children) = 7 + m
  BY <1>7, Listed
<1>9. \A i \in 1 .. 7 : IsOk(s[i]) /\ a.children[i] = s[i][1]
  <2>1. ASSUME NEW i \in 1 .. 7 PROVE IsOk(s[i]) /\ a.children[i] = s[i][1]
    <3>1. i \in 1 .. 7 + m
      OBVIOUS
    <3> QED BY <1>5, <1>6, <3>1
  <2> QED BY <2>1
<1>10. /\ ReadStrings(a.children[1]) = Present(Field(view, "obs"))
       /\ ReadStrings(a.children[2]) = Present(Field(view, "sample"))
  <2>1. PICK p, q : p = Strings(Field(view, "obs")) /\ q = Strings(Field(view, "sample"))
    OBVIOUS
  <2>2. s[1] = p /\ s[2] = q
    BY <1>1, <2>1 DEF FixedColumns
  <2>3. IsOk(p) /\ a.children[1] = p[1] /\ IsOk(q) /\ a.children[2] = q[1]
    BY <1>9, <2>2
  <2> QED BY <2>1, <2>3, RequiredRead
<1>11. /\ ReadStrings(a.children[3]) = Field(view, "target")
       /\ ReadStrings(a.children[4]) = Field(view, "group")
  <2>1. PICK p, q : p = string_array(Field(view, "target")) /\ q = string_array(Field(view, "group"))
    OBVIOUS
  <2>2. s[3] = p /\ s[4] = q
    BY <1>1, <2>1 DEF FixedColumns
  <2>3. IsOk(p) /\ a.children[3] = p[1] /\ IsOk(q) /\ a.children[4] = q[1]
    BY <1>9, <2>2
  <2> QED BY <2>1, <2>3, OptionalRead
<1>12. /\ ReadStrings(a.children[5]) = Field(view, "origin")
       /\ ReadStrings(a.children[6]) = Field(view, "source")
  <2>1. PICK p, q : p = string_array(Field(view, "origin")) /\ q = string_array(Field(view, "source"))
    OBVIOUS
  <2>2. s[5] = p /\ s[6] = q
    BY <1>1, <2>1 DEF FixedColumns
  <2>3. IsOk(p) /\ a.children[5] = p[1] /\ IsOk(q) /\ a.children[6] = q[1]
    BY <1>9, <2>2
  <2> QED BY <2>1, <2>3, OptionalRead
<1>13. ReadBools(a.children[7]) = Field(view, "augmented")
  <2>1. PICK flags, array : flags = Field(view, "augmented") /\ array = bool_array(flags)
    OBVIOUS
  <2>2. s[7] = <<array>>
    BY <1>1, <2>1 DEF FixedColumns, Ok
  <2>3. a.children[7] = array
    BY <1>9, <2>2
  <2>4. PICK N \in Nat : DOMAIN view = 1 .. N
    BY ListForm DEF Related
  <2>5. flags = [i \in 1 .. N |-> view[i]["augmented"]]
    BY <2>1, <2>4 DEF Field
  <2>6. flags = [i \in 1 .. N |-> flags[i]]
    BY <2>5
  <2>7. \A i \in 1 .. N : flags[i] \in BOOLEAN
    BY <2>4, <2>5 DEF Related
  <2> QED BY <2>1, <2>3, <2>6, <2>7, BoolsRead
<1>14. ASSUME Len(a.children) = 7 PROVE \A i \in DOMAIN view : ~ view[i].rich
  BY <1>4, <1>8, <1>14
<1>15. ASSUME Len(a.children) = 8 PROVE ReadStrings(a.children[8]) = Present(Field(view, "json"))
  <2>1. m = 1
    <3>1. 7 + m = 8
      BY <1>8, <1>15, Zenon
    <3> QED BY <3>1
  <2>2. PICK p : p = Strings(Field(view, "json"))
    OBVIOUS
  <2>3. t = <<p>>
    BY <1>1, <1>4, <2>1, <2>2 DEF TextColumn
  <2>4. columns[8] = p
    BY <1>5, <2>1, <2>3
  <2>5. IsOk(p) /\ a.children[8] = p[1]
    <3>1. 8 \in 1 .. 7 + m
      BY <2>1
    <3> QED BY <1>6, <2>4, <3>1
  <2> QED BY <2>2, <2>5, RequiredRead
<1> QED BY <1>10, <1>11, <1>12, <1>13, <1>14, <1>15 DEF RelationsRead

\* The views of features and targets have strings.
LEMMA ViewRelated ==
  ASSUME NEW j \in Jobs, j.kind \in {"features", "targets"}
  PROVE  Related(j.view)
<1>1. IsList(j.view)
  BY FeaturesAssumption, TargetsAssumption DEF IsList
<1>2. PICK view : view = j.view
  OBVIOUS
<1>3. ASSUME NEW k \in DOMAIN view
      PROVE  /\ \A f \in {"obs", "sample", "json"} : IsList(view[k][f])
             /\ \A f \in {"target", "group", "origin", "source"} : OptionalString(view[k][f])
             /\ view[k]["augmented"] \in BOOLEAN
  <2>1. PICK r : r = view[k]
    OBVIOUS
  <2>2. IsList(r.obs) /\ IsList(r.sample) /\ IsList(r.json) /\ r.augmented \in BOOLEAN
    BY <1>2, <2>1, RelationsAssumption DEF IsList
  <2>3. /\ OptionalString(r.target) /\ OptionalString(r.group)
        /\ OptionalString(r.origin) /\ OptionalString(r.source)
    BY <1>2, <2>1, RelationsAssumption DEF IsList, OptionalString
  <2> QED BY <2>1, <2>2, <2>3
<1> QED BY <1>1, <1>2, <1>3 DEF Related

\* The rows that fusion puts out, and the names of their observations.
LEMMA FuseObs ==
  ASSUME NEW blocks, NEW plan, NEW namespace, IsOk(fuse_feature_blocks(blocks, plan, namespace)),
         NEW rows, rows = OutputRows(blocks, plan),
         NEW fused, fused = fuse_feature_blocks(blocks, plan, namespace)[1]
  PROVE  /\ fused.obs = [k \in DOMAIN rows |->
                           IF rows[k][2] = 0 THEN synthetic_observation_id(rows[k][1])
                           ELSE blocks[1].block.obs[rows[k][2]]]
         /\ fused.samples = [k \in DOMAIN rows |-> rows[k][1]]
         /\ blocks # << >> /\ Len(fused.obs) = Len(fused.values)
<1>1. PICK made :
        made = Block(FusedNames(blocks, namespace),
          [k \in DOMAIN rows |-> IF rows[k][2] = 0 THEN synthetic_observation_id(rows[k][1])
                                 ELSE blocks[1].block.obs[rows[k][2]]],
          [k \in DOMAIN rows |-> rows[k][1]],
          [k \in DOMAIN rows |-> FlattenSeq([b \in DOMAIN blocks |->
             LET taken == TakenRow(blocks, b, rows[k])
             IN IF taken = 0 THEN [f \in DOMAIN blocks[b].block.names |-> Null]
                ELSE blocks[b].block.values[taken]])])
  OBVIOUS
<1>2. \/ fuse_feature_blocks(blocks, plan, namespace) = Err
      \/ /\ fuse_feature_blocks(blocks, plan, namespace) = Ok(made)
         /\ blocks # << >> /\ ValidBlock(made)
  BY <1>1, ZenonT(60) DEF fuse_feature_blocks
<1>3. fused = made /\ blocks # << >> /\ ValidBlock(made)
  BY <1>2 DEF Ok, Err, IsOk
<1>4. Len(fused.obs) = Len(fused.values)
  BY <1>3 DEF ValidBlock
<1>5. /\ made.obs = [k \in DOMAIN rows |-> IF rows[k][2] = 0 THEN synthetic_observation_id(rows[k][1])
                                           ELSE blocks[1].block.obs[rows[k][2]]]
      /\ made.samples = [k \in DOMAIN rows |-> rows[k][1]]
  BY <1>1 DEF Block
<1> QED BY <1>3, <1>4, <1>5

\* A synthetic name is a string.
LEMMA SyntheticString ==
  ASSUME NEW sample, IsList(sample)
  PROVE  IsList(synthetic_observation_id(sample))
<1>1. PICK V : V = ToSet(sample) \cup {0 - 1}
  OBVIOUS
<1>2. PICK n \in Nat : DOMAIN sample = 1 .. n /\ sample = [c \in 1 .. n |-> sample[c]]
  BY ListForm
<1>3. \A c \in 1 .. n : sample[c] \in V
  BY <1>1, <1>2 DEF ToSet
<1>4. sample \in Seq(V) /\ <<0 - 1>> \in Seq(V)
  <2>1. sample \in Seq(V)
    BY <1>2, <1>3
  <2>2. <<0 - 1>> = [c \in 1 .. 1 |-> 0 - 1] /\ 0 - 1 \in V
    BY <1>1
  <2>3. <<0 - 1>> \in Seq(V)
    BY <2>2
  <2> QED BY <2>1, <2>3
<1>5. <<0 - 1>> \o sample \in Seq(V)
  BY <1>4, ConcatProperties
<1> QED BY <1>5, ListOver DEF synthetic_observation_id

\* The samples of a view, of a source or not, are strings; so are its observations.
LEMMA SampleStrings ==
  ASSUME NEW view, Related(view), NEW source, NEW sample
  PROVE  /\ SampleObs(view, source, sample) # {} => IsList(sample)
         /\ \A o \in SampleObs(view, source, sample) : IsList(o)
<1>1. ASSUME NEW k \in DOMAIN view PROVE IsList(view[k].obs) /\ IsList(view[k].sample)
  <2>1. IsList(view[k]["obs"]) /\ IsList(view[k]["sample"])
    BY Zenon DEF Related
  <2> QED BY <2>1
<1> QED BY <1>1 DEF SampleObs

\* A fused block has strings.
LEMMA FusedStrings ==
  ASSUME NEW view, Related(view), NEW sources, NEW blocks, SourceBlocks(blocks, sources, view),
         NEW plan, plan.mode \in {"inner", "left", "outer"}, IsList(plan.samples),
         AlignedSet(plan, blocks, view),
         NEW namespace, IsOk(fuse_feature_blocks(blocks, plan, namespace)),
         NEW fused, fused = fuse_feature_blocks(blocks, plan, namespace)[1]
  PROVE  ExportedBlock(fused)
<1>1. PICK rows : rows = OutputRows(blocks, plan)
  OBVIOUS
<1>2. /\ fused.obs = [k \in DOMAIN rows |->
                        IF rows[k][2] = 0 THEN synthetic_observation_id(rows[k][1])
                        ELSE blocks[1].block.obs[rows[k][2]]]
      /\ fused.samples = [k \in DOMAIN rows |-> rows[k][1]]
      /\ blocks # << >> /\ Len(fused.obs) = Len(fused.values)
  BY <1>1, FuseObs
<1>3. IsList(view) /\ ListedBlocks(blocks)
  BY SourceListed DEF Related
<1>4. ListedBlock(fused)
  BY <1>3, FusedList
<1>5. 1 \in DOMAIN blocks
  <2>1. PICK n \in Nat : n = Len(blocks) /\ DOMAIN blocks = 1 .. n
    BY <1>3, ListForm DEF ListedBlocks
  <2>2. n # 0
    <3>1. blocks \in Seq(ToSet(blocks))
      BY <1>3 DEF ListedBlocks, IsList
    <3> QED BY <1>2, <2>1, <3>1
  <2> QED BY <2>1, <2>2
<1>6. OutputOf(rows, blocks, plan)
  <2>1. IsList(blocks[1].block.samples)
    BY <1>3, <1>5 DEF ListedBlocks, ListedBlock
  <2> QED BY <1>1, <2>1, OutputElements
<1>7. ASSUME NEW sample \in ToSet(plan.samples) PROVE IsList(sample)
  <2>1. \E b \in DOMAIN blocks : SampleObs(view, blocks[b].source, sample) # {}
    BY <1>5 DEF AlignedSet
  <2> QED BY <2>1, SampleStrings
<1>8. ASSUME NEW k \in DOMAIN rows PROVE IsList(fused.samples[k]) /\ IsList(fused.obs[k])
  <2>a. PICK i \in DOMAIN plan.samples :
          \E t : rows[k] = <<plan.samples[i], t>> /\ TakenFirst(blocks, plan.samples[i], t)
    BY <1>6 DEF OutputOf
  <2>1. PICK t : rows[k] = <<plan.samples[i], t>> /\ TakenFirst(blocks, plan.samples[i], t)
    BY <2>a
  <2>2. PICK sample : sample = plan.samples[i]
    OBVIOUS
  <2>3. IsList(sample)
    <3>1. sample \in ToSet(plan.samples)
      BY <2>2 DEF ToSet
    <3> QED BY <1>7, <3>1
  <2>4. rows[k][1] = sample /\ rows[k][2] = t
    BY <2>1, <2>2
  <2>5. fused.samples[k] = sample
    BY <1>2, <2>4
  <2>6. CASE t = 0
    <3>1. fused.obs[k] = synthetic_observation_id(sample)
      BY <1>2, <2>4, <2>6
    <3> QED BY <2>3, <2>5, <3>1, SyntheticString
  <2>7. CASE t # 0
    <3>1. PICK block, s : block = blocks[1].block /\ s = sources[1]
      OBVIOUS
    <3>2. fused.obs[k] = block.obs[t]
      BY <1>2, <2>4, <2>7, <3>1
    <3>3. SourceBlock(block, s, view)
      BY <1>5, <3>1 DEF SourceBlocks
    <3>4. RowsFound(block, s, view, sample)
      BY <1>3, <3>3, RowsAreFound
    <3>5. t \in ToSet(RowsOf(block, sample))
      BY <2>1, <2>2, <2>7, <3>1 DEF TakenFirst
    <3>6. block.obs[t] \in SampleObs(view, s.source, sample)
      BY <3>4, <3>5 DEF RowsFound
    <3> QED BY <2>3, <2>5, <3>2, <3>6, SampleStrings
  <2> QED BY <2>6, <2>7
<1>9. DOMAIN fused.samples = DOMAIN rows /\ DOMAIN fused.obs = DOMAIN rows
  BY <1>2, Zenon
<1> QED BY <1>2, <1>4, <1>8, <1>9, Zenon DEF ExportedBlock, StringList, ListedBlock

\* The samples that are selected are strings.
LEMMA SelectedStrings ==
  ASSUME NEW view, Related(view), NEW targets
  PROVE  StringList(SamplesFor(view, targets))
<1>1. PICK kept, samples :
        /\ kept = Kept(view, {n \in DOMAIN view : \/ view[n].target = << >>
                                                  \/ view[n].target[1] \in targets})
        /\ samples = SamplesFor(view, targets)
  OBVIOUS
<1>2. IsList(kept)
  BY <1>1, KeptList DEF Related
<1>3. IsList(SamplesIn(kept))
  <2>1. PICK t : t = SamplesIn(kept)
    OBVIOUS
  <2>2. t = [i \in DOMAIN kept |-> t[i]]
    BY <2>1 DEF SamplesIn
  <2> QED BY <1>2, <2>1, <2>2, ListOf
<1>4. IsList(samples)
  <2>1. samples = FirstOf(SamplesIn(kept))
    BY <1>1 DEF SamplesFor
  <2> QED BY <1>3, <2>1, FirstList
<1>5. ASSUME NEW i \in DOMAIN samples PROVE IsList(samples[i])
  <2>1. view \in Seq(ToSet(view))
    BY DEF Related, IsList
  <2>2. ToSet(samples) = {view[n].sample : n \in Relevant(view, targets)}
    BY <1>1, <2>1, SamplesForElements
  <2>3. samples[i] \in ToSet(samples)
    BY DEF ToSet
  <2>4. PICK n \in DOMAIN view : samples[i] = view[n].sample
    BY <2>2, <2>3 DEF Relevant
  <2> QED BY <2>4 DEF Related
<1> QED BY <1>1, <1>4, <1>5 DEF StringList

\* The values of one target can be exported.
LEMMA TargetSelected ==
  ASSUME NEW view, Related(view), NEW table, NEW single, target_values(view, table) = <<single>>
  PROVE  ExportedTarget(single)
<1>1. Answer(single, view, table)
  BY SingleTarget
<1>2. PICK samples : samples = single.samples
  OBVIOUS
<1>3. StringList(samples)
  BY <1>1, <1>2, SelectedStrings DEF Answer
<1>4. single.values = [i \in DOMAIN samples |-> single.values[i]]
  <2>1. PICK b : b = [samples |-> SamplesFor(view, {table.target}),
                      values |-> [i \in DOMAIN SamplesFor(view, {table.target}) |->
                                    ValueOf(table, SamplesFor(view, {table.target})[i])]]
    OBVIOUS
  <2>2. target_values(view, table) \in {Err, <<b>>}
    BY <2>1 DEF target_values, Ok
  <2>3. single = b
    BY <2>2 DEF Err
  <2> QED BY <1>2, <2>1, <2>3
<1>5. PICK N \in Nat : N = Len(samples) /\ DOMAIN samples = 1 .. N
  BY <1>3, ListForm DEF StringList
<1>6. PICK values : values = single.values
  OBVIOUS
<1>7. values = [i \in 1 .. N |-> values[i]]
  BY <1>4, <1>5, <1>6
<1>8. IsList(values) /\ Len(values) = N
  BY <1>7, Listed
<1> QED BY <1>2, <1>3, <1>5, <1>6, <1>8 DEF ExportedTarget

\* So can those of all targets.
LEMMA TargetsSelected ==
  ASSUME NEW view, Related(view), NEW tables, IsList(tables), NEW multi,
         multi_target_values(view, tables) = <<multi>>,
         NEW targets, targets = [t \in DOMAIN tables |-> tables[t].target]
  PROVE  ExportedTargets(multi, targets)
<1>1. /\ multi.samples = SamplesFor(view, TargetsOf(tables))
      /\ \A t \in DOMAIN tables : \A i \in DOMAIN multi.samples :
           multi.masks[t][i] <=> multi.values[t][i].kind # "null"
  BY MultiTarget
<1>2. IsList(multi.samples)
  BY <1>1, SelectedStrings DEF StringList
<1>3. IsList(targets) /\ DOMAIN targets = DOMAIN tables
  <2>1. targets = [t \in DOMAIN tables |-> targets[t]]
    OBVIOUS
  <2> QED BY <2>1, ListOf
<1> QED BY <1>1, <1>2, <1>3 DEF ExportedTargets

(***************************************************************************)
(* The invariant of the data path, as far as the exports go.               *)
(***************************************************************************)

\* What a consumer reads after an export, of the host's job and the results.
Decoded(j, at, o) ==
  /\ at = "exported" => FeaturesRead(o.arrow[1], o.fused[1])
  /\ at = "exported_target" => TargetRead(o.arrow[1], o.single[1])
  /\ at = "exported_targets" =>
       TargetsRead(o.arrow[1], [t \in DOMAIN j.tables |-> j.tables[t].target], o.multi[1])
  /\ at = "identified" => RelationsRead(o.arrow[1], j.view)

\* What is exported is made of strings and lists.
ArrowInv ==
  /\ stage = "fused" => ExportedBlock(out.fused[1])
  /\ stage = "selected" => ExportedTarget(out.single[1])
  /\ stage = "selected_all" => ExportedTargets(out.multi[1], TargetNames)
  /\ Decoded(job, stage, out)

\* The property, of a job, a stage and results.
Decodes(j, at, o) ==
  LET a == o.arrow[1]
      options(seq) == [i \in DOMAIN seq |-> <<seq[i]>>]
      read(c) == ReadStrings(a.children[c])
      nulls(c) == a.children[c].null_count =
                    Cardinality({i \in 1..a.length : ~ IsValid(a.children[c], i - 1)})
      field(f) == [i \in DOMAIN j.view |-> j.view[i][f]]
  IN /\ at = "exported" =>
          /\ read(1) = options(o.fused[1].obs) /\ read(2) = options(o.fused[1].samples)
          /\ \A f \in DOMAIN o.fused[1].names :
               /\ a.fields[f + 2].name = o.fused[1].names[f] /\ nulls(f + 2)
               /\ ReadNumbers(a.children[f + 2]) =
                    [k \in 1..a.length |-> Cell(o.fused[1].values[k][f])]
     /\ at = "exported_target" =>
          /\ read(1) = options(o.single[1].samples)
          /\ ReadNumbers(a.children[3]) = [i \in 1..a.length |-> Cell(o.single[1].values[i])]
     /\ at = "exported_targets" =>
          \A t \in DOMAIN j.tables :
            /\ a.fields[t + 1].name = j.tables[t].target /\ nulls(t + 1)
            /\ ReadNumbers(a.children[t + 1]) =
                 [i \in 1..a.length |-> Cell(o.multi[1].values[t][i])]
     /\ at = "identified" =>
          /\ read(1) = options(field("obs")) /\ read(2) = options(field("sample"))
          /\ read(3) = field("target") /\ read(4) = field("group")
          /\ read(5) = field("origin") /\ read(6) = field("source")
          /\ ReadBools(a.children[7]) = field("augmented")
          /\ Len(a.children) = 7 => \A i \in DOMAIN j.view : ~ j.view[i].rich
          /\ Len(a.children) = 8 => read(8) = options(field("json"))

\* The exports are what the property asks for.
LEMMA DecodedExport ==
  ASSUME NEW j, NEW at, NEW o, Decoded(j, at, o)
  PROVE  Decodes(j, at, o)
<1>1. ASSUME at = "exported_targets", NEW t \in DOMAIN j.tables
      PROVE  /\ o.arrow[1].fields[t + 1].name = j.tables[t].target
             /\ NumbersHeld(o.arrow[1].children[t + 1],
                            [i \in 1 .. o.arrow[1].length |-> Cell(o.multi[1].values[t][i])],
                            o.arrow[1].length)
  <2>1. PICK targets : targets = [k \in DOMAIN j.tables |-> j.tables[k].target]
    OBVIOUS
  <2>2. TargetsRead(o.arrow[1], targets, o.multi[1])
    BY <1>1, <2>1 DEF Decoded
  <2>3. t \in DOMAIN targets /\ targets[t] = j.tables[t].target
    BY <1>1, <2>1
  <2> QED BY <2>2, <2>3 DEF TargetsRead
<1>2. ASSUME at = "exported"
      PROVE  FeaturesRead(o.arrow[1], o.fused[1])
  BY <1>2 DEF Decoded
<1>3. ASSUME at = "exported_target"
      PROVE  TargetRead(o.arrow[1], o.single[1])
  BY <1>3 DEF Decoded
<1>4. ASSUME at = "identified"
      PROVE  RelationsRead(o.arrow[1], j.view)
  BY <1>4 DEF Decoded
<1> QED BY <1>1, <1>2, <1>3, <1>4
  DEF Decodes, FeaturesRead, TargetRead, RelationsRead, NumbersHeld, Present, Field

\* So they are in every state.
LEMMA DecodedProperty == ArrowInv => ArrowDecodes
<1> SUFFICES ASSUME ArrowInv PROVE ArrowDecodes
  OBVIOUS
<1>1. Decoded(job, stage, out)
  BY DEF ArrowInv
<1>2. Decodes(job, stage, out)
  BY <1>1, DecodedExport
<1> QED BY <1>2 DEF ArrowDecodes, Decodes

\* A call that fails, or comes before anything is exported, leaves nothing to
\* check.
LEMMA NoExport ==
  ASSUME stage' \notin {"fused", "selected", "selected_all", "exported", "exported_target",
                        "exported_targets", "identified"}
  PROVE  ArrowInv'
<1>1. Decoded(job', stage', out')
  BY DEF Decoded
<1> QED BY <1>1 DEF ArrowInv

\* The blocks are fused.
LEMMA FusedBlockStep ==
  ASSUME TensorInv, FusionInv, NEW namespace, Fuse(namespace)
  PROVE  ArrowInv'
<1>1. PICK blocks, plan, result :
        /\ blocks = out.blocks[1] /\ plan = out.plan[1]
        /\ result = fuse_feature_blocks(blocks, plan, namespace)
  OBVIOUS
<1>2. Call("aligned", "fused", "fused", result)
  BY <1>1 DEF Fuse
<1>3. "fused" \in ResultNames
  BY DEF ResultNames
<1>4. CASE stage' = "refused"
  BY <1>4, NoExport
<1>5. CASE stage' # "refused"
  <2>1. /\ job' = job /\ stage = "aligned" /\ stage' = "fused"
        /\ IsOk(result) /\ out'.fused = result
    BY <1>2, <1>3, <1>5, CallTaken
  <2>2. /\ job.kind = "features" /\ SourceBlocks(blocks, job.sources, job.view)
        /\ plan.mode \in {"inner", "left", "outer"} /\ IsList(plan.samples)
        /\ AlignedSet(plan, blocks, job.view)
    BY <1>1, <2>1 DEF FusionInv
  <2>3. PICK view, sources : view = job.view /\ sources = job.sources
    OBVIOUS
  <2>4. Related(view)
    BY <2>2, <2>3, ViewRelated DEF TensorInv
  <2>5. ExportedBlock(result[1])
    <3>1. SourceBlocks(blocks, sources, view) /\ AlignedSet(plan, blocks, view)
      BY <2>2, <2>3
    <3>2. PICK fused : fused = fuse_feature_blocks(blocks, plan, namespace)[1]
      OBVIOUS
    <3>3. ExportedBlock(fused)
      BY <1>1, <2>1, <2>2, <2>4, <3>1, <3>2, FusedStrings
    <3> QED BY <1>1, <3>2, <3>3
  <2>6. Decoded(job', stage', out')
    BY <2>1 DEF Decoded
  <2> QED BY <2>1, <2>5, <2>6 DEF ArrowInv
<1> QED BY <1>4, <1>5

\* A struct array is one result, or an error.
LEMMA StructOnly ==
  ASSUME NEW length, NEW columns, NEW fields, NEW result,
         result = Struct(length, columns, fields) \/ result = Err, IsOk(result)
  PROVE  result = <<result[1]>>
BY DEF Struct, IsOk, Ok, Err

\* The fused block is exported.
LEMMA ExportFeaturesStep ==
  ASSUME TensorInv, ArrowInv, ExportFeatures
  PROVE  ArrowInv'
<1>1. PICK block, result : block = out.fused[1] /\ result = build_feature_arrow(block)
  OBVIOUS
<1>2. Call("fused", "exported", "arrow", result)
  BY <1>1 DEF ExportFeatures
<1>3. "arrow" \in ResultNames /\ "fused" \in ResultNames \ {"arrow"}
  BY DEF ResultNames
<1>4. CASE stage' = "refused"
  BY <1>4, NoExport
<1>5. CASE stage' # "refused"
  <2>1. /\ stage = "fused" /\ stage' = "exported"
        /\ IsOk(result) /\ out'.arrow = result /\ out'.fused = out.fused
    BY <1>2, <1>3, <1>5, CallTaken
  <2>2. PICK a : a = result[1]
    OBVIOUS
  <2>3. build_feature_arrow(block) = <<a>>
    <3>1. \E length, columns, fields :
            \/ build_feature_arrow(block) = Struct(length, columns, fields)
            \/ build_feature_arrow(block) = Err
      BY Zenon DEF build_feature_arrow
    <3> QED BY <1>1, <2>1, <2>2, <3>1, StructOnly
  <2>4. ExportedBlock(block)
    BY <1>1, <2>1 DEF ArrowInv
  <2>5. FeaturesRead(a, block)
    BY <2>3, <2>4, FeaturesExported
  <2>6. Decoded(job', stage', out')
    BY <1>1, <2>1, <2>2, <2>5 DEF Decoded
  <2> QED BY <2>1, <2>6 DEF ArrowInv
<1> QED BY <1>4, <1>5

\* The relations of a view are exported.
LEMMA ExportIdentityStep ==
  ASSUME TensorInv, ExportIdentity
  PROVE  ArrowInv'
<1>1. PICK view, result : view = job.view /\ result = build_identity_relations_arrow(view)
  OBVIOUS
<1>2. job.kind = "targets" /\ Call("host", "identified", "arrow", result)
  BY <1>1 DEF ExportIdentity
<1>3. "arrow" \in ResultNames
  BY DEF ResultNames
<1>4. CASE stage' = "refused"
  BY <1>4, NoExport
<1>5. CASE stage' # "refused"
  <2>1. job' = job /\ stage' = "identified" /\ IsOk(result) /\ out'.arrow = result
    BY <1>2, <1>3, <1>5, CallTaken
  <2>2. PICK a : a = result[1]
    OBVIOUS
  <2>3. build_identity_relations_arrow(view) = <<a>>
    BY <1>1, <2>1, <2>2, RelationsStruct, StructOnly
  <2>4. Related(view)
    BY <1>1, <1>2, ViewRelated DEF TensorInv
  <2>5. RelationsRead(a, view)
    BY <2>3, <2>4, RelationsExported
  <2>6. Decoded(job', stage', out')
    BY <1>1, <2>1, <2>2, <2>5 DEF Decoded
  <2> QED BY <2>1, <2>6 DEF ArrowInv
<1> QED BY <1>4, <1>5

\* One target is selected, or all.
LEMMA SelectTargetStep ==
  ASSUME TensorInv, SelectTarget
  PROVE  ArrowInv'
<1>1. PICK view, table, result :
        view = job.view /\ table = job.tables[1] /\ result = target_values(view, table)
  OBVIOUS
<1>2. job.kind = "targets" /\ Call("host", "selected", "single", result)
  BY <1>1 DEF SelectTarget
<1>3. "single" \in ResultNames
  BY DEF ResultNames
<1>4. CASE stage' = "refused"
  BY <1>4, NoExport
<1>5. CASE stage' # "refused"
  <2>1. stage' = "selected" /\ IsOk(result) /\ out'.single = result
    BY <1>2, <1>3, <1>5, CallTaken
  <2>2. PICK single : single = result[1]
    OBVIOUS
  <2>3. target_values(view, table) = <<single>>
    BY <1>1, <2>1, <2>2, SingleForm
  <2>4. Related(view)
    BY <1>1, <1>2, ViewRelated DEF TensorInv
  <2>5. ExportedTarget(single)
    BY <2>3, <2>4, TargetSelected
  <2>6. Decoded(job', stage', out')
    BY <2>1 DEF Decoded
  <2> QED BY <2>1, <2>2, <2>5, <2>6 DEF ArrowInv
<1> QED BY <1>4, <1>5

\* All targets are selected.
LEMMA SelectTargetsStep ==
  ASSUME TensorInv, SelectTargets
  PROVE  ArrowInv'
<1>1. PICK view, tables, targets, result :
        /\ view = job.view /\ tables = job.tables
        /\ targets = [t \in DOMAIN tables |-> tables[t].target]
        /\ result = multi_target_values(view, tables)
  OBVIOUS
<1>2. job.kind = "targets" /\ Call("host", "selected_all", "multi", result)
  BY <1>1 DEF SelectTargets
<1>3. "multi" \in ResultNames
  BY DEF ResultNames
<1>4. CASE stage' = "refused"
  BY <1>4, NoExport
<1>5. CASE stage' # "refused"
  <2>1. job' = job /\ stage' = "selected_all" /\ IsOk(result) /\ out'.multi = result
    BY <1>2, <1>3, <1>5, CallTaken
  <2>2. PICK multi : multi = result[1]
    OBVIOUS
  <2>3. multi_target_values(view, tables) = <<multi>>
    BY <1>1, <2>1, <2>2, MultiForm
  <2>4. Related(view) /\ IsList(tables)
    BY <1>1, <1>2, ViewRelated, TargetsAssumption DEF TensorInv, IsList
  <2>5. ExportedTargets(multi, targets)
    BY <1>1, <2>3, <2>4, TargetsSelected
  <2>6. TargetNames' = targets
    BY <1>1, <2>1 DEF TargetNames
  <2>7. Decoded(job', stage', out')
    BY <2>1 DEF Decoded
  <2> QED BY <2>1, <2>2, <2>5, <2>6, <2>7 DEF ArrowInv
<1> QED BY <1>4, <1>5

\* The values of one target are exported.
LEMMA ExportTargetStep ==
  ASSUME TensorInv, ArrowInv, ExportTarget
  PROVE  ArrowInv'
<1>1. PICK block, target, result :
        /\ block = out.single[1] /\ target = job.tables[1].target
        /\ result = build_target_arrow(target, block)
  OBVIOUS
<1>2. Call("selected", "exported_target", "arrow", result)
  BY <1>1 DEF ExportTarget
<1>3. "arrow" \in ResultNames /\ "single" \in ResultNames \ {"arrow"}
  BY DEF ResultNames
<1>4. CASE stage' = "refused"
  BY <1>4, NoExport
<1>5. CASE stage' # "refused"
  <2>1. /\ stage = "selected" /\ stage' = "exported_target"
        /\ IsOk(result) /\ out'.arrow = result /\ out'.single = out.single
    BY <1>2, <1>3, <1>5, CallTaken
  <2>2. PICK a : a = result[1]
    OBVIOUS
  <2>3. build_target_arrow(target, block) = <<a>>
    <3>1. \E length, columns, fields :
            \/ build_target_arrow(target, block) = Struct(length, columns, fields)
            \/ build_target_arrow(target, block) = Err
      BY Zenon DEF build_target_arrow
    <3> QED BY <1>1, <2>1, <2>2, <3>1, StructOnly
  <2>4. ExportedTarget(block)
    BY <1>1, <2>1 DEF ArrowInv
  <2>5. TargetRead(a, block)
    BY <2>3, <2>4, TargetExported
  <2>6. Decoded(job', stage', out')
    BY <1>1, <2>1, <2>2, <2>5 DEF Decoded
  <2> QED BY <2>1, <2>6 DEF ArrowInv
<1> QED BY <1>4, <1>5

\* Those of all targets are exported.
LEMMA ExportTargetsStep ==
  ASSUME TensorInv, ArrowInv, ExportTargets
  PROVE  ArrowInv'
<1>1. PICK block, targets, result :
        /\ block = out.multi[1] /\ targets = TargetNames
        /\ result = build_multi_target_arrow(targets, block)
  OBVIOUS
<1>2. Call("selected_all", "exported_targets", "arrow", result)
  BY <1>1 DEF ExportTargets
<1>3. "arrow" \in ResultNames /\ "multi" \in ResultNames \ {"arrow"}
  BY DEF ResultNames
<1>4. CASE stage' = "refused"
  BY <1>4, NoExport
<1>5. CASE stage' # "refused"
  <2>1. /\ job' = job /\ stage = "selected_all" /\ stage' = "exported_targets"
        /\ IsOk(result) /\ out'.arrow = result /\ out'.multi = out.multi
    BY <1>2, <1>3, <1>5, CallTaken
  <2>2. PICK a : a = result[1]
    OBVIOUS
  <2>3. build_multi_target_arrow(targets, block) = <<a>>
    <3>1. \E length, columns, fields :
            \/ build_multi_target_arrow(targets, block) = Struct(length, columns, fields)
            \/ build_multi_target_arrow(targets, block) = Err
      BY Zenon DEF build_multi_target_arrow
    <3> QED BY <1>1, <2>1, <2>2, <3>1, StructOnly
  <2>4. ExportedTargets(block, targets)
    BY <1>1, <2>1 DEF ArrowInv
  <2>5. TargetsRead(a, targets, block)
    BY <2>3, <2>4, TargetsExported
  <2>6. targets = [t \in DOMAIN job'.tables |-> job'.tables[t].target]
    BY <1>1, <2>1 DEF TargetNames
  <2>7. Decoded(job', stage', out')
    BY <1>1, <2>1, <2>2, <2>5, <2>6 DEF Decoded
  <2> QED BY <2>1, <2>7 DEF ArrowInv
<1> QED BY <1>4, <1>5

\* Every call keeps the invariant.
LEMMA StepArrow == TensorInv /\ FusionInv /\ ArrowInv /\ [DataNext]_dataVars => ArrowInv'
<1> SUFFICES ASSUME TensorInv, FusionInv, ArrowInv, [DataNext]_dataVars PROVE ArrowInv'
  OBVIOUS
<1>1. CASE UNCHANGED dataVars
  <2>1. job' = job /\ stage' = stage /\ out' = out
    BY <1>1 DEF dataVars
  <2>2. Decoded(job', stage', out')
    BY <2>1 DEF ArrowInv
  <2>3. TargetNames' = TargetNames
    BY <2>1 DEF TargetNames
  <2> QED BY <2>1, <2>2, <2>3 DEF ArrowInv
<1>2. CASE \E namespace \in BOOLEAN : Fuse(namespace)
  BY <1>2, FusedBlockStep
<1>3. CASE ExportFeatures
  BY <1>3, ExportFeaturesStep
<1>4. CASE ExportIdentity
  BY <1>4, ExportIdentityStep
<1>5. CASE SelectTarget
  BY <1>5, SelectTargetStep
<1>6. CASE SelectTargets
  BY <1>6, SelectTargetsStep
<1>7. CASE ExportTarget
  BY <1>7, ExportTargetStep
<1>8. CASE ExportTargets
  BY <1>8, ExportTargetsStep
<1>9. CASE \/ IngestTable \/ IngestMatrix \/ IngestColumns
           \/ \E columns \in Columns : Project(columns)
           \/ \E mode \in Modes : Align(mode)
           \/ \E policy \in CollationPolicies : Collate(policy)
           \/ BorrowTensor
           \/ \E source \in {<< >>, <<<<1>>>>} : ProjectTensor(source)
  <2>1. ASSUME NEW from, NEW name, NEW result,
               NEW to \in {"buffered", "projected", "aligned", "gathered", "tensor_projected"},
               Call(from, to, name, result)
        PROVE  stage' \in {"buffered", "projected", "aligned", "gathered", "tensor_projected", "refused"}
    BY <2>1 DEF Call
  <2>2. ASSUME NEW policy, Collate(policy) PROVE stage' \in {"collated", "refused"}
    BY <2>2 DEF Collate
  <2>3. stage' \in {"buffered", "projected", "aligned", "collated", "gathered",
                    "tensor_projected", "refused"}
    BY <1>9, <2>1, <2>2 DEF IngestTable, IngestMatrix, IngestColumns, Project, Align,
       BorrowTensor, ProjectTensor
  <2> QED BY <2>3, NoExport
<1> QED BY <1>1, <1>2, <1>3, <1>4, <1>5, <1>6, <1>7, <1>8, <1>9 DEF DataNext

\* What a consumer of the Arrow format reads from an exported array is what went
\* in, nulls included, and the null count is right: of a fused block, of one
\* target, of all targets and of the relations of a view (the build_* and
\* *_array functions, capi lib.rs).
THEOREM ArrowProved == DataSpec => []ArrowDecodes
<1>1. DataInit => TensorInv /\ FusionInv /\ ArrowInv
  BY DEF DataInit, TensorInv, ReadsInMemory, NoResults, ResultNames, FusionInv, FusionKeepsSamples,
     ArrowInv, Decoded
<1> QED BY <1>1, DecodedProperty, StepTensor, StepFusion, StepArrow, PTL DEF DataSpec
=============================================================================
