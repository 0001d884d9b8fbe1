----------------------------- MODULE FittedRefs -----------------------------
(***************************************************************************)
(* Fitted-adapter references, manifests and materialization requests, and  *)
(* what their validation accepts (core fitted_adapter.rs).                 *)
(*                                                                         *)
(* Texts are kept up to what validation tells apart.  None is an absent    *)
(* option, "blank" a text that trims to nothing, "control" one with a      *)
(* control character.  A URI is [text, rooted, segments]: its text, whether *)
(* it starts with a separator, and its segments, of which "C:" (a drive)   *)
(* and "s3:" (a scheme) contain a colon.                                   *)
(***************************************************************************)
EXTENDS Sequences, SequencesExt

CONSTANTS
  Fingerprint,   \* 64-digit hex digests
  None           \* an absent option or pointer

SchemaVersion == 1

BadText == {"blank", "control"}

ValidRef(r) ==
  /\ r.schema_version = SchemaVersion
  /\ r.adapter_id # "blank"
  /\ r.adapter_version # "blank"
  /\ r.params_fingerprint \in Fingerprint
  /\ r.plugin \notin BadText /\ r.plugin_version \notin BadText
  /\ r.uri # None => r.uri.text \notin BadText
  /\ r.plugin_version # None => r.plugin # None
  /\ r.content_fingerprint \in Fingerprint \cup {None}
  /\ r.uri # None => /\ r.backend # None
                     /\ r.content_fingerprint # None
  /\ "blank" \notin r.metadata

HasColon(segment) == segment \in {"C:", "s3:"}

\* Traversal looked for at the front only.
RelativeUri_leading_only(u) ==
  /\ u.text \notin BadText
  /\ ~ u.rooted
  /\ ~ HasColon(u.segments[1])
  /\ u.segments[1] # ".."

RelativeUri(u) ==
  /\ u.text \notin BadText
  /\ ~ u.rooted
  /\ ~ HasColon(u.segments[1])
  /\ ".." \notin ToSet(u.segments)

PortableRef(r) ==
  /\ ValidRef(r)
  /\ r.uri # None
  /\ RelativeUri(r.uri)

ValidManifest(m, require_portable) ==
  /\ m.schema_version = SchemaVersion
  /\ \A i \in DOMAIN m.entries : m.entries[i].key = m.entries[i].ref.adapter_id
  /\ \A i, j \in DOMAIN m.entries : m.entries[i].key = m.entries[j].key => i = j
  /\ \A i \in DOMAIN m.entries :
        IF require_portable THEN PortableRef(m.entries[i].ref)
                            ELSE ValidRef(m.entries[i].ref)

ValidMRequest(q) ==
  /\ q.adapter_id # "blank"
  /\ q.params_fingerprint \in Fingerprint
=============================================================================
