----------------------------- MODULE BufferFile -----------------------------
(***************************************************************************)
(* The .n4d format of a feature buffer store (core buffer_file_store.rs).  *)
(*                                                                         *)
(* A file is kept up to its sizes: `end`, the length of the payload, and   *)
(* `fields`, the u32 and u8 values the reader will find, in the order it   *)
(* reads them.  Texts, cells and masks are only the bytes they take.  A    *)
(* file that the writer did not produce but that carries a valid checksum  *)
(* has fields = Foreign: each field is whatever a u32 can hold.  A store is a  *)
(* sequence of shapes [rows, features, validity].                          *)
(***************************************************************************)
EXTENDS Integers, Sequences

CONSTANTS
  Count,      \* u32 values a foreign file may hold where a count is read
  UsizeMax,   \* the largest usize
  TextLen,    \* bytes of every name and id the writer stores
  Foreign     \* fields of a foreign file

\* The numbers in a file are unsigned, and so is the machine's word; no name
\* and no id of a store is empty.
ASSUME SizesAssumption ==
  Count \subseteq Nat /\ UsizeMax \in Nat /\ TextLen \in Nat \ {0}

HeaderLen == 12

\* The least buffer a store can hold, counted with a mask it need not have.
MinBufferBytes_masked == 4 * (4 + TextLen) + 9 + 8 + 1

\* Two text lengths, two dimensions and a flag.
MinBufferBytes == 17

-----------------------------------------------------------------------------
(* Writing.                                                                *)

Texts(n) == [i \in 1..n |-> TextLen]

\* The fields and the bytes of one buffer: two texts, three numbers, the
\* feature names and observation ids, then the columns and the masks.
BufferFields(b) ==
  <<TextLen, TextLen, b.rows, b.features, b.validity>>
     \o Texts(b.features) \o Texts(b.rows)

BufferBytes(b) ==
  2 * (4 + TextLen) + 9 + (b.features + b.rows) * (4 + TextLen)
     + b.features * b.rows * (8 + b.validity)

\* What the writer has after each buffer of the store: the length of the
\* payload, and the fields in it.
Ends(store) ==
  LET end[n \in 0 .. Len(store)] ==
        IF n = 0 THEN HeaderLen ELSE end[n - 1] + BufferBytes(store[n])
  IN end

FieldsUpTo(store) ==
  LET fields[n \in 0 .. Len(store)] ==
        IF n = 0 THEN <<Len(store)>> ELSE fields[n - 1] \o BufferFields(store[n])
  IN fields

\* serialize_columnar_store; the digest of the payload follows it.
Serialized(store) ==
  [head |-> "ok", end |-> Ends(store)[Len(store)],
   fields |-> FieldsUpTo(store)[Len(store)]]

-----------------------------------------------------------------------------
(* Reading: a cursor over the payload, one step per part of the file.      *)

VARIABLES
  file,     \* the file being read
  reader    \* pc, cursor, the next field, what is left, and what was read

fileVars == <<file, reader>>

\* The reader's position in a file it has just loaded, before any check.
Start == [pc |-> "open", cursor |-> HeaderLen, field |-> 1, buffers |-> 0,
          cur |-> <<0, 0, 0>>, texts |-> 0, columns |-> 0, masks |-> 0,
          reserved |-> 0, got |-> << >>]

\* The addition done in usize, and compared with the end of the payload.
Ensure_wrapping(c, needed) == (c + needed) % (UsizeMax + 1) <= file.end

\* ensure_remaining.
Ensure(c, needed) == c <= file.end /\ needed <= file.end - c

\* The product done in usize.
CountFits_wrapping(c, count, minimum) ==
  Ensure(c, (count * minimum) % (UsizeMax + 1))

\* ensure_count_fits: a checked product.
CountFits(c, count, minimum) ==
  /\ count * minimum <= UsizeMax
  /\ Ensure(c, count * minimum)

\* The field at the reader's position, or anything in a foreign file.
Field(k) == IF file.fields = Foreign THEN Count
            ELSE {file.fields[i] : i \in {reader.field + k} \cap DOMAIN file.fields}

Refuse == reader' = [reader EXCEPT !.pc = "refused"]

\* One slice of `count` elements reserved; the largest is remembered.
Reserved(count) == IF count > reader.reserved THEN count ELSE reader.reserved

OpenAccepts(n) ==
  /\ file.end >= HeaderLen
  /\ file.head = "ok"
  /\ CountFits(HeaderLen, n, MinBufferBytes)

Open ==
  /\ reader.pc = "open"
  /\ \E n \in Field(0) :
       IF OpenAccepts(n)
       THEN reader' = [reader EXCEPT !.pc = "buffer", !.field = @ + 1,
                                     !.buffers = n, !.reserved = Reserved(n)]
       ELSE Refuse
  /\ UNCHANGED file

\* A text: its length, then its bytes.
TextAccepts(c, len) == Ensure(c, 4) /\ Ensure(c + 4, len)

HeadAccepts(c, rows, features, validity) ==
  /\ Ensure(c, 4) /\ Ensure(c + 4, 4) /\ Ensure(c + 8, 1)
  /\ validity <= 1
  /\ CountFits(c + 9, features, 4)
  /\ CountFits(c + 9, rows, 4)
  /\ rows * features <= UsizeMax
  /\ CountFits(c + 9, rows * features, 8 + validity)

\* The start of a buffer: feature set id, representation id, dimensions.
Buffer ==
  /\ reader.pc = "buffer" /\ reader.buffers > 0
  /\ \E a \in Field(0), b \in Field(1) :
     \E rows \in Field(2), features \in Field(3), validity \in Field(4) :
       LET c == reader.cursor
           d == c + 8 + a + b
       IN IF /\ TextAccepts(c, a) /\ TextAccepts(c + 4 + a, b)
             /\ HeadAccepts(d, rows, features, validity)
          THEN reader' = [reader EXCEPT
                 !.pc = "texts", !.cursor = d + 9, !.field = @ + 5,
                 !.cur = <<rows, features, validity>>,
                 !.texts = features + rows, !.columns = features,
                 !.masks = IF validity = 1 THEN features ELSE 0,
                 !.reserved = Reserved(IF rows > features THEN rows ELSE features)]
          ELSE Refuse
  /\ UNCHANGED file

\* One feature name or observation id; an id may be malformed in a foreign file.
Text ==
  /\ reader.pc = "texts" /\ reader.texts > 0
  /\ \E len \in Field(0) :
       \/ /\ TextAccepts(reader.cursor, len)
          /\ reader' = [reader EXCEPT !.cursor = @ + 4 + len, !.field = @ + 1,
                                      !.texts = @ - 1]
       \/ /\ ~ TextAccepts(reader.cursor, len) \/ file.fields = Foreign
          /\ Refuse
  /\ UNCHANGED file

Column ==
  /\ reader.pc = "texts" /\ reader.texts = 0 /\ reader.columns > 0
  /\ IF CountFits(reader.cursor, reader.cur[1], 8)
     THEN reader' = [reader EXCEPT !.cursor = @ + reader.cur[1] * 8,
                                   !.columns = @ - 1]
     ELSE Refuse
  /\ UNCHANGED file

\* A validity byte may be neither 0 nor 1 in a foreign file.
Mask ==
  /\ reader.pc = "texts" /\ reader.texts = 0 /\ reader.columns = 0 /\ reader.masks > 0
  /\ \/ /\ Ensure(reader.cursor, reader.cur[1])
        /\ reader' = [reader EXCEPT !.cursor = @ + reader.cur[1], !.masks = @ - 1]
     \/ /\ ~ Ensure(reader.cursor, reader.cur[1]) \/ file.fields = Foreign
        /\ Refuse
  /\ UNCHANGED file

BufferEnd ==
  /\ reader.pc = "texts"
  /\ reader.texts = 0 /\ reader.columns = 0 /\ reader.masks = 0
  /\ reader' = [reader EXCEPT
       !.pc = "buffer", !.buffers = @ - 1,
       !.got = Append(@, [rows |-> reader.cur[1], features |-> reader.cur[2],
                          validity |-> reader.cur[3]])]
  /\ UNCHANGED file

\* The dimensions validate_feature_shape accepts.
ValidDimensions(b) == b.features > 0 /\ b.rows > 0

\* from_f64_column_matrices validates every matrix.  It also refuses blank and
\* repeated names and ids and values that are not finite: only a foreign file
\* has them, and may be refused at the end for them.
StoreAccepts(matrices) == \A i \in DOMAIN matrices : ValidDimensions(matrices[i])

\* No byte may be left over, and the store is built from what was read.
Finish ==
  /\ reader.pc = "buffer" /\ reader.buffers = 0
  /\ \/ /\ reader.cursor = file.end /\ StoreAccepts(reader.got)
        /\ reader' = [reader EXCEPT !.pc = "accepted"]
     \/ /\ \/ reader.cursor # file.end \/ ~ StoreAccepts(reader.got)
           \/ file.fields = Foreign
        /\ Refuse
  /\ UNCHANGED file

Read == Open \/ Buffer \/ Text \/ Column \/ Mask \/ BufferEnd \/ Finish

-----------------------------------------------------------------------------
(* The reader never passes the end of the payload, whatever the lengths in  *)
(* the file say, so that none of its slices is out of range.                *)
ReadsInBounds == reader.pc \notin {"open", "refused"} => reader.cursor <= file.end

(* Nothing is reserved for more elements than the payload has bytes: a      *)
(* valid checksum authenticates bytes, not dimensions (comment, line 167).   *)
ReservationsBounded == reader.reserved <= file.end

(* The reader never refuses what the writer wrote and finds the same        *)
(* buffers in it: neither its own size tests nor the validation of the      *)
(* store it builds stops a store that a program could have in memory, the   *)
(* empty one and one of a single cell included.                             *)
RoundTrip ==
  file.fields # Foreign /\ file.head = "ok" =>
    /\ reader.pc # "refused"
    /\ reader.pc = "accepted" => Serialized(reader.got) = file
=============================================================================
