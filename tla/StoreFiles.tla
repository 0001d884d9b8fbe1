----------------------------- MODULE StoreFiles -----------------------------
(***************************************************************************)
(* A file that a program writes fitted-adapter manifests or feature buffer *)
(* stores to and loads them from (core fitted_adapter.rs and               *)
(* buffer_file_store.rs).  Both write with fs::write, which truncates the  *)
(* file and then fills it; the program can be killed, or the disk fill up, *)
(* at any point in between.                                                *)
(*                                                                         *)
(* The content of the file is a sequence of chunks [doc, at], or a file of *)
(* another program in one chunk.                                           *)
(***************************************************************************)
EXTENDS BufferFile, FittedRefs

CONSTANTS
  Document,      \* [kind, body]: manifests and stores the program may write
  ForeignFile,   \* sealed files of another program
  Absent         \* no file

VARIABLES
  content,   \* what is on disk
  writing,   \* the write under way: document and chunks written, or None
  acked,     \* history: the document of the last write, if it returned Ok
  loaded     \* the last manifest loaded, and the gate it passed, or None

vars == <<file, reader, content, writing, acked, loaded>>

\* The shape of a buffer of a store: the constructors of buffers and stores
\* refuse those without features or observations (validate_feature_shape).
BufferShape == [rows : Nat \ {0}, features : Nat \ {0}, validity : {0, 1}]

\* A manifest has a list of entries, whose URIs have segments; a store has a
\* list of buffers and fits in memory, and another program's file has a size.
ASSUME DocumentAssumption ==
  /\ \A d \in Document :
       \/ /\ d.kind = "manifest" /\ Len(d.body.entries) \in Nat
          /\ \A i \in DOMAIN d.body.entries :
               LET u == d.body.entries[i].ref.uri
               IN u # None => u.segments \in Seq(STRING)
       \/ /\ d.kind = "store" /\ d.body \in Seq(BufferShape)
          /\ Serialized(d.body).end <= UsizeMax
  /\ \A f \in ForeignFile : f.end \in Nat /\ f.fields = Foreign

\* Chunks of a document: one for the brackets, one per entry or buffer.
Parts(d) == IF d.kind = "manifest" THEN Len(d.body.entries) ELSE Len(d.body)
Chunks(d) == [i \in 1 .. Parts(d) + 1 |-> [doc |-> d, at |-> i]]

\* An absent file is not an empty one, nor any other.
ASSUME AbsentAssumption ==
  Absent # << >> /\ \A d \in Document : Absent # Chunks(d)

NoFile == Serialized(<< >>)
NotReading == [Start EXCEPT !.pc = "idle"]

Idle == writing = None /\ reader.pc = "idle"

Init ==
  /\ file = NoFile
  /\ reader = NotReading
  /\ content = Absent
  /\ writing = None
  /\ acked = None
  /\ loaded = None

-----------------------------------------------------------------------------
(* Writing.                                                                *)

\* The old content kept under the new one.
Truncated_not(old) == IF old = Absent THEN << >> ELSE old

\* What opening the file for writing leaves of it.
Truncated(old) == << >>

\* A manifest is validated before anything is written; a store was when it was
\* built (BufferShape), and nothing changes it after.
WriteAccepts(d, require_portable) ==
  d.kind = "manifest" => ValidManifest(d.body, require_portable)

BeginWrite(d, require_portable) ==
  /\ Idle
  /\ WriteAccepts(d, require_portable)
  /\ content' = Truncated(content)
  /\ writing' = [doc |-> d, done |-> 0]
  /\ acked' = None
  /\ loaded' = None
  /\ UNCHANGED <<file, reader>>

\* Writing over chunk i leaves any chunks after it.
WriteChunk ==
  /\ writing # None
  /\ writing.done < Len(Chunks(writing.doc))
  /\ LET i == writing.done + 1
     IN content' = IF i <= Len(content)
                   THEN [content EXCEPT ![i] = Chunks(writing.doc)[i]]
                   ELSE Append(content, Chunks(writing.doc)[i])
  /\ writing' = [writing EXCEPT !.done = @ + 1]
  /\ UNCHANGED <<file, reader, acked, loaded>>

EndWrite ==
  /\ writing # None
  /\ writing.done = Len(Chunks(writing.doc))
  /\ writing' = None
  /\ acked' = writing.doc
  /\ UNCHANGED <<file, reader, content, loaded>>

\* The disk is full, or an I/O error: the call returns an error.
WriteFails ==
  /\ writing # None
  /\ writing' = None
  /\ UNCHANGED <<file, reader, content, acked, loaded>>

\* The program is killed and started again: only the file is left.
Crash ==
  /\ writing' = None
  /\ reader' = NotReading
  /\ file' = NoFile
  /\ loaded' = None
  /\ UNCHANGED <<content, acked>>

\* Another program replaces the file.
Replace(f) ==
  /\ Idle
  /\ content' = <<[doc |-> [kind |-> "foreign", body |-> f], at |-> 1]>>
  /\ acked' = None
  /\ loaded' = None
  /\ UNCHANGED <<file, reader, writing>>

-----------------------------------------------------------------------------
(* Loading.  A process may read while another one is writing.              *)

\* The documents the content is the whole of: none when it is torn.
Whole ==
  {d \in Document :
     /\ content # Absent
     /\ DOMAIN content = DOMAIN Chunks(d)
     /\ \A i \in DOMAIN content : /\ content[i].doc.kind = d.kind
                                  /\ content[i] = Chunks(d)[i]}

\* A proper prefix of a JSON object does not parse, nor does a .n4d stream.
ReadManifest(require_portable) ==
  /\ reader.pc = "idle"
  /\ \E d \in Whole :
       /\ d.kind = "manifest"
       /\ ValidManifest(d.body, require_portable)
       /\ loaded' = [manifest |-> d.body, portable |-> require_portable]
  /\ UNCHANGED <<file, reader, content, writing, acked>>

\* The file as read_store_from_path finds it: the magic is missing from a
\* manifest, the digest does not match a torn stream.
Found ==
  IF content # << >> /\ content[1].doc.kind = "foreign" THEN content[1].doc.body
  ELSE IF \E d \in Whole : d.kind = "store"
       THEN Serialized((CHOOSE d \in Whole : TRUE).body)
       ELSE [head |-> "bad", end |-> HeaderLen, fields |-> <<0>>]

ReadStore ==
  /\ Idle
  /\ content # Absent
  /\ file' = Found
  /\ reader' = Start
  /\ loaded' = None
  /\ UNCHANGED <<content, writing, acked>>

ReadStep == Read /\ UNCHANGED <<content, writing, acked, loaded>>

\* The caller is done with the store it read, or with the error.
ReadDone ==
  /\ reader.pc \in {"accepted", "refused"}
  /\ reader' = NotReading
  /\ file' = NoFile
  /\ UNCHANGED <<content, writing, acked, loaded>>

-----------------------------------------------------------------------------
Next ==
  \/ \E d \in Document, p \in BOOLEAN : BeginWrite(d, p)
  \/ WriteChunk \/ EndWrite \/ WriteFails \/ Crash
  \/ \E f \in ForeignFile : Replace(f)
  \/ \E p \in BOOLEAN : ReadManifest(p)
  \/ ReadStore \/ ReadStep \/ ReadDone

Spec == Init /\ [][Next]_vars

-----------------------------------------------------------------------------
(* A write that returned Ok can be loaded, whatever the file held before it *)
(* (a longer document, the torn rest of a failed write, a foreign file) and *)
(* across a restart.                                                        *)
AckedLoads == acked # None => acked \in Whole

\* Where a URI leads from the directory of its manifest: -1 for outside.
Depth(u) ==
  LET depth[n \in 0 .. Len(u.segments)] ==
        IF n = 0 THEN IF u.rooted \/ HasColon(u.segments[1]) THEN -1 ELSE 0
        ELSE IF depth[n - 1] < 0 THEN depth[n - 1]
        ELSE IF u.segments[n] = ".." THEN depth[n - 1] - 1 ELSE depth[n - 1] + 1
  IN depth[Len(u.segments)]

(* A manifest loaded through the portable gate refers to nothing outside of *)
(* the directory it was moved with.                                         *)
PortableStaysInside ==
  loaded # None /\ loaded.portable =>
    \A i \in DOMAIN loaded.manifest.entries :
      LET u == loaded.manifest.entries[i].ref.uri
      IN u # None /\ Depth(u) >= 0

(* "a manifest is never persisted in a state that would not load cleanly on *)
(* the other side" (write_to_path, fitted_adapter.rs:174): whenever nothing *)
(* is being written, a file that holds a manifest holds the whole of it.    *)
NeverPersistedTorn ==
  (writing = None /\ content # Absent /\ content # << >>)
    => (content[1].doc.kind = "manifest" => Whole # {})
=============================================================================
