-------------------------- MODULE MCFittedAdapters --------------------------
(***************************************************************************)
(* FittedAdapters with two threads, two stores and two adapters, one of    *)
(* them fitted with two sets of parameters.                                *)
(***************************************************************************)
EXTENDS FittedAdapters, TLC

CONSTANTS t1, t2, s1, s2

MCFingerprint == {"p", "q"}

NewRef(id, params) ==
  [schema_version |-> 1, adapter_id |-> id, adapter_version |-> "v1",
   params_fingerprint |-> params, backend |-> None, uri |-> None,
   content_fingerprint |-> None, plugin |-> None, plugin_version |-> None,
   metadata |-> {}]

MCRef == {NewRef("a", "p"), NewRef("a", "q"),
          [NewRef("b", "p") EXCEPT !.plugin_version = "v2"]}

Entries(refs) == [i \in DOMAIN refs |-> [key |-> refs[i].adapter_id, ref |-> refs[i]]]

MCManifest ==
  {[schema_version |-> 1, entries |-> Entries(refs)] :
     refs \in {<<NewRef("a", "p"), NewRef("b", "p")>>,
               <<NewRef("b", "p"), NewRef("a", "q")>>,
               <<NewRef("a", "p"), NewRef("a", "p")>>}}

MCMRequest ==
  {[adapter_id |-> "a", params_fingerprint |-> p, store |-> None] : p \in {"p", "q"}}

\* One store takes registrations, the other is only attached in its place.
MCMaxHandle == (s1 :> 2) @@ (s2 :> 0)

Symmetry == Permutations({t1, t2})
=============================================================================
