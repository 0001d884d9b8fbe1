---------------------------- MODULE MCStoreFiles ----------------------------
(***************************************************************************)
(* StoreFiles with manifests of every URI of up to three segments, the     *)
(* empty store and stores of small buffers, and foreign files of every     *)
(* small size whose counts are zero, small or the largest.                 *)
(***************************************************************************)
EXTENDS StoreFiles

CONSTANTS MaxEnd   \* bound: the largest foreign payload

MCFingerprint == {"p"}

Uri == [text : {"plain"}, rooted : BOOLEAN,
        segments : UNION {[1..n -> {"a", "..", "C:"}] : n \in 1..3}
                     \cup {<<"s3:", "a">>}]
       \cup [text : {"blank", "control"}, rooted : {FALSE}, segments : {<<"a">>}]

Ref0(id, uri) ==
  [schema_version |-> 1, adapter_id |-> id, adapter_version |-> "v1",
   params_fingerprint |-> "p", backend |-> "json", uri |-> uri,
   content_fingerprint |-> "p", plugin |-> None, plugin_version |-> None,
   metadata |-> {}]

Manifest0(refs) ==
  [schema_version |-> 1,
   entries |-> [i \in DOMAIN refs |-> [key |-> refs[i].adapter_id, ref |-> refs[i]]]]

Shape(r, f, v) == [rows |-> r, features |-> f, validity |-> v]

MCDocument ==
  [kind : {"manifest"},
   body : {Manifest0(<<Ref0("a", u)>>) : u \in Uri \cup {None}}
            \cup {Manifest0(<<Ref0("a", None), Ref0("b", None)>>)}]
  \cup
  [kind : {"store"},
   body : {<< >>, <<Shape(1, 1, 0)>>, <<Shape(1, 1, 0), Shape(1, 1, 1)>>,
           <<Shape(2, 1, 1), Shape(1, 2, 0)>>}]

MCCount == {0, 1, 2, 5, 32, UsizeMax}

MCForeign == [head : {"ok"}, end : HeaderLen..MaxEnd, fields : {Foreign}]
=============================================================================
