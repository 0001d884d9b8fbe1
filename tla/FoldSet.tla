------------------------------ MODULE FoldSet ------------------------------
(***************************************************************************)
(* The leakage audit (relation.rs): a fold set handed over by the          *)
(* coordinator is checked against the sample relation table, before the    *)
(* table becomes the relations every handle and view is cut from           *)
(* (coordinator.rs).                                                       *)
(*                                                                         *)
(* A table is a set of rows [obs, sample, source, group, origin, aug,      *)
(* excluded, metadata, tags, target]; origin is the OBSERVATION a row was  *)
(* augmented from, or None.  A fold set is [universe, missing, groups,     *)
(* mode, folds]: missing is target_missing_sample_ids, groups a function   *)
(* on samples, folds a function from fold ids to [train, validation].      *)
(* Both are Vecs in the code, whose duplicates unique_samples, the fold-id *)
(* set and validate refuse.  FoldTrainExclusion is carried for the         *)
(* coordinator and never read here.                                        *)
(***************************************************************************)
EXTENDS Envelope

(***************************************************************************)
(* SampleRelationTable.                                                    *)
(***************************************************************************)

ValidTable(table) ==
  /\ table # {}
  /\ \A r, q \in table : r # q => r.obs # q.obs
  /\ \A r, q \in table :
       r.sample = q.sample => r.group = q.group \/ None \in {r.group, q.group}
  /\ \A r \in table : /\ r.aug <=> r.origin # None
                      /\ r.origin # r.obs
                      /\ r.origin \in Observations(table) \cup {None}

\* sample_groups: the groups the table knows, by sample.
SampleGroups(table) ==
  LET grouped == {r \in table : r.group # None}
  IN [s \in PhysicalIds(grouped) |->
        (CHOOSE r \in grouped : r.sample = s).group]

(***************************************************************************)
(* FoldSet::validate.                                                      *)
(***************************************************************************)

\* validate_group_boundary.
GroupBoundary(fold, groups) ==
  \A t \in fold.train, v \in fold.validation :
    {t, v} \subseteq DOMAIN groups => groups[t] # groups[v]

ValidFold(fs, fold) ==
  /\ fold.validation # {}
  /\ fold.train \cup fold.validation \subseteq fs.universe
  /\ fold.train \cap fold.validation = {}
  /\ GroupBoundary(fold, fs.groups)

\* Slip: a sample validated in several folds counts as validated.
ValidFoldSet_at_least_once(fs) ==
  /\ fs.universe # {}
  /\ DOMAIN fs.folds # {}
  /\ fs.missing \cap fs.universe = {}
  /\ DOMAIN fs.groups \in {{}, fs.universe}
  /\ \A f \in DOMAIN fs.folds : ValidFold(fs, fs.folds[f])
  /\ fs.mode = "partition" =>
       \A s \in fs.universe :
         \E f \in DOMAIN fs.folds : s \in fs.folds[f].validation

ValidFoldSet(fs) ==
  /\ fs.universe # {}
  /\ DOMAIN fs.folds # {}
  /\ fs.missing \cap fs.universe = {}
  /\ DOMAIN fs.groups \in {{}, fs.universe}
  /\ \A f \in DOMAIN fs.folds : ValidFold(fs, fs.folds[f])
  /\ fs.mode = "partition" =>
       \A s \in fs.universe :
         \E f \in DOMAIN fs.folds : \A g \in DOMAIN fs.folds :
           s \in fs.folds[g].validation <=> g = f

(***************************************************************************)
(* SampleRelationTable::validate_fold_set.                                 *)
(***************************************************************************)

\* Slip: the augmented row in validation is not looked at.
OriginBoundary_train_only(fold, table) ==
  \A r, base \in table :
    r.origin = base.obs =>
      ~(r.sample \in fold.train /\ base.sample \in fold.validation)

\* validate_origin_boundary: an augmented row against its direct origin.
OriginBoundary(fold, table) ==
  \A r, base \in table :
    r.origin = base.obs =>
      /\ ~(r.sample \in fold.train /\ base.sample \in fold.validation)
      /\ ~(r.sample \in fold.validation /\ base.sample \in fold.train)

FoldSetAccepted(table, fs) ==
  LET groups == SampleGroups(table) IN
  /\ ValidTable(table)
  /\ ValidFoldSet(fs)
  /\ PhysicalIds(table) \subseteq fs.universe \cup fs.missing
  /\ fs.universe \subseteq PhysicalIds(table)
  /\ \A s \in DOMAIN fs.groups \cap DOMAIN groups : fs.groups[s] = groups[s]
  /\ \A f \in DOMAIN fs.folds : /\ GroupBoundary(fs.folds[f], groups)
                                /\ OriginBoundary(fs.folds[f], table)

(***************************************************************************)
(* From the table to an envelope.                                          *)
(***************************************************************************)

\* coordinator_relations_from_sample_table: the origin observation becomes
\* the sample it belongs to.
OriginSample(table, r) ==
  IF r.origin = None THEN None
  ELSE (CHOOSE base \in table : base.obs = r.origin).sample

CoordinatorRow(table, r) ==
  [obs |-> r.obs, sample |-> r.sample, source |-> r.source,
   group |-> r.group, origin |-> OriginSample(table, r),
   unit |-> r.obs, level |-> "observation", components |-> {},
   aug |-> r.aug, excluded |-> r.excluded,
   metadata |-> r.metadata, tags |-> r.tags, target |-> r.target]

CoordinatorRelations(table) == {CoordinatorRow(table, r) : r \in table}

\* from_parts, the checks on the rows.  A schema is [fp, samples, sources,
\* targets]; its own checks, and those on plan steps, are left out.
TableFits(schema, table) ==
  /\ ValidTable(table)
  /\ \A r \in table :
       /\ r.sample \in schema.samples \/ r.aug
       /\ r.source \in schema.sources \cup {None}
       /\ r.target \in schema.targets \cup {None}
       /\ r.aug => OriginSample(table, r) \in schema.samples

\* from_parts, the envelope: relationFp digests the table, not the relations.
FromParts(schema, plan, table) ==
  [version |-> 1, schemaFp |-> schema.fp, plan |-> plan,
   planFp |-> Fingerprint(plan), relationFp |-> Fingerprint(table),
   cv |-> CoordinatorRelations(table), cohort |-> None]
=============================================================================
