----------------------------- MODULE ArrowExport -----------------------------
(***************************************************************************)
(* Arrow arrays and schemas of the C ABI (capi lib.rs): columns of         *)
(* strings, numbers and Booleans with their validity bitmaps, and the      *)
(* struct arrays of features and targets.  A string is the sequence of its *)
(* bytes.  Indices into buffers start at 0, as in the Arrow format.        *)
(***************************************************************************)
EXTENDS Tables

CONSTANTS
  ByteBits,   \* bits of a bitmap byte (8 in the code)
  I32Max      \* largest offset of a string array

ASSUME ByteBitsAssumption == ByteBits \in Nat \ {0}

-----------------------------------------------------------------------------
Pad(bitmap, n) == bitmap \o [i \in 1..(n - Len(bitmap)) |-> 0]

\* 1 << n.
OneShifted(n) ==
  LET shifted[k \in 0 .. n] == IF k = 0 THEN 1 ELSE 2 * shifted[k - 1]
  IN shifted[n]

\* Bits counted from the high end of the byte.
Bit_high(idx) == OneShifted(ByteBits - 1 - (idx % ByteBits))

Bit(idx) == OneShifted(idx % ByteBits)

set_bitmap(bitmap, idx, value) ==
  LET byte == idx \div ByteBits
      padded == IF Len(bitmap) <= byte THEN Pad(bitmap, byte + 1) ELSE bitmap
  IN IF value THEN [padded EXCEPT ![byte + 1] = @ + Bit(idx)] ELSE padded

Bitmap(flags) ==
  LET upto[n \in 0 .. Len(flags)] ==
        IF n = 0 THEN << >> ELSE set_bitmap(upto[n - 1], n - 1, flags[n])
  IN upto[Len(flags)]

\* A column without nulls has no validity buffer.
Validity(values) ==
  IF \E i \in DOMAIN values : values[i] = << >>
  THEN <<Bitmap([i \in DOMAIN values |-> values[i] # << >>])>> ELSE << >>

Nulls(values) == Cardinality({i \in DOMAIN values : values[i] = << >>})

string_array(values) ==
  LET bytes(i) == IF values[i] = << >> THEN << >> ELSE values[i][1]
      data[n \in 0 .. Len(values)] == IF n = 0 THEN << >> ELSE data[n - 1] \o bytes(n)
  IN IF \A n \in DOMAIN values : Len(data[n]) <= I32Max
     THEN Ok([length |-> Len(values), null_count |-> Nulls(values),
              validity |-> Validity(values), data |-> data[Len(values)],
              offsets |-> [i \in 1..(Len(values) + 1) |-> Len(data[i - 1])]])
     ELSE Err

f64_array(values) ==
  [length |-> Len(values), null_count |-> Nulls(values), validity |-> Validity(values),
   data |-> [i \in DOMAIN values |-> IF values[i] = << >> THEN 0 ELSE values[i][1]]]

bool_array(values) ==
  [length |-> Len(values), null_count |-> 0, validity |-> << >>, data |-> Bitmap(values)]

field_schema(name, format, nullable) == [name |-> name, format |-> format, nullable |-> nullable]

\* A name with a nul byte (0) cannot be a CString.
SchemaNames(fields) == \A i \in DOMAIN fields : 0 \notin ToSet(fields[i].name)

Struct(length, columns, fields) ==
  IF (\A i \in DOMAIN columns : IsOk(columns[i])) /\ SchemaNames(fields)
  THEN Ok([length |-> length, fields |-> fields, children |-> [i \in DOMAIN columns |-> columns[i][1]]])
  ELSE Err

Strings(ids) == string_array([i \in DOMAIN ids |-> <<ids[i]>>])
Numbers(values) == Ok(f64_array(values))

-----------------------------------------------------------------------------
\* Names of the fixed columns, by number.
Column(n) == field_schema(<<n>>, "u", FALSE)
Nullable(n) == field_schema(<<n>>, "u", TRUE)

build_feature_arrow(block) ==
  LET column(f) == [k \in DOMAIN block.values |-> Cell(block.values[k][f])]
  IN IF \A k \in DOMAIN block.values : \A f \in DOMAIN block.names : Numeric(block.values[k][f])
     THEN Struct(Len(block.obs),
                 <<Strings(block.obs), Strings(block.samples)>> \o
                   [f \in DOMAIN block.names |-> Numbers(column(f))],
                 <<Column(101), Column(102)>> \o
                   [f \in DOMAIN block.names |-> field_schema(block.names[f], "g", TRUE)])
     ELSE Err

build_target_arrow(target, block) ==
  IF \A i \in DOMAIN block.values : IsNumber(block.values[i])
  THEN Struct(Len(block.samples),
              <<Strings(block.samples), Strings([i \in DOMAIN block.samples |-> target]),
                Numbers([i \in DOMAIN block.values |-> Cell(block.values[i])])>>,
              <<Column(102), Column(103), field_schema(<<104>>, "g", TRUE)>>)
  ELSE Err

build_multi_target_arrow(targets, block) ==
  LET cell(t, i) == IF block.masks[t][i] THEN Cell(block.values[t][i]) ELSE << >>
  IN IF \A t \in DOMAIN targets : \A i \in DOMAIN block.samples :
          block.masks[t][i] => Numeric(block.values[t][i])
     THEN Struct(Len(block.samples),
                 <<Strings(block.samples)>> \o
                   [t \in DOMAIN targets |-> Numbers([i \in DOMAIN block.samples |-> cell(t, i)])],
                 <<Column(102)>> \o
                   [t \in DOMAIN targets |-> field_schema(targets[t], "g", TRUE)])
     ELSE Err

\* build_identity_relations_arrow: seven columns, and one more with the whole
\* relation as text when some relation has more than they hold.
build_identity_relations_arrow(records) ==
  LET optional(f) == string_array([i \in DOMAIN records |-> records[i][f]])
      required(f) == Strings([i \in DOMAIN records |-> records[i][f]])
      rich == \E i \in DOMAIN records : records[i].rich
  IN Struct(Len(records),
            <<required("obs"), required("sample"), optional("target"), optional("group"),
              optional("origin"), optional("source"),
              Ok(bool_array([i \in DOMAIN records |-> records[i].augmented]))>> \o
              (IF rich THEN <<required("json")>> ELSE << >>),
            <<Column(101), Column(102), Nullable(103), Nullable(105), Nullable(106), Nullable(107),
              field_schema(<<108>>, "b", FALSE)>> \o
              (IF rich THEN <<Column(109)>> ELSE << >>))

-----------------------------------------------------------------------------
(* How a consumer of the Arrow format reads a column.                      *)

BitAt(bitmap, i) == (bitmap[(i \div ByteBits) + 1] \div OneShifted(i % ByteBits)) % 2 = 1

IsValid(array, i) == array.validity = << >> \/ BitAt(array.validity[1], i)

ReadStrings(array) ==
  [k \in 1..array.length |->
     IF IsValid(array, k - 1)
     THEN <<SubSeq(array.data, array.offsets[k] + 1, array.offsets[k + 1])>> ELSE << >>]

ReadNumbers(array) ==
  [k \in 1..array.length |-> IF IsValid(array, k - 1) THEN <<array.data[k]>> ELSE << >>]

ReadBools(array) == [k \in 1..array.length |-> BitAt(array.data, k - 1)]
=============================================================================
