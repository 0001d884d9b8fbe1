------------------------------ MODULE Buffers ------------------------------
(***************************************************************************)
(* Numeric feature buffers and N-D tensors as a data handle sees them      *)
(* (buffer.rs, nd_tensor.rs).  Both stores bind and project by the same    *)
(* rules, so one set of operators stands for the two.                      *)
(*                                                                         *)
(* A store maps a buffer id to [repr, rows], rows being the observations   *)
(* the buffer has a row for (row_index_by_observation).  The bindings of   *)
(* a data handle map a buffer id to the sources it is bound to.  Cell      *)
(* values and column selection are left out.                               *)
(***************************************************************************)
EXTENDS Relations

\* Slip: one observation of the source is taken for coverage.
CoveredSources_any(buffer, rels) ==
  {s \in SourceIds(rels) :
     \E r \in rels : r.source = s /\ r.obs \in buffer.rows}

\* bindings_for_relations: a source is covered when the buffer has a row for
\* every observation of that source.
CoveredSources(buffer, rels) ==
  {s \in SourceIds(rels) :
     \A r \in rels : r.source = s => r.obs \in buffer.rows}

Binds(buffer, rels, repr) ==
  /\ buffer.repr = repr
  /\ IF SourceIds(rels) = {} THEN Observations(rels) \subseteq buffer.rows
                             ELSE CoveredSources(buffer, rels) # {}

BindingsFor(store, rels, repr) ==
  [b \in {x \in DOMAIN store : Binds(store[x], rels, repr)}
     |-> CoveredSources(store[b], rels)]

\* validate_bound_sources: may buffer b be read over rels, scoped to source
\* src or, when src is None, unscoped?
BoundSources(bindings, b, rels, src) ==
  /\ ValidRelationSet(rels)
  /\ b \in DOMAIN bindings
  /\ src # None => src \in SourceIds(rels)
  /\ (IF src = None THEN SourceIds(rels) ELSE {src}) \subseteq bindings[b]

\* project_relations: the rows of the block, and whether each is stored.
Scoped(rels, src) == {r \in rels : src # None => r.source = src}

RowsStored(buffer, rels, src) ==
  Observations(Scoped(rels, src)) \subseteq buffer.rows
=============================================================================
