------------------------------- MODULE Fusion -------------------------------
(***************************************************************************)
(* Aligning the samples of several sources (alignment.rs), fusing their    *)
(* feature blocks by column (fusion.rs) and collating a block into a       *)
(* tensor (collation.rs).                                                  *)
(*                                                                         *)
(* Sources, features and observations are tuples of name parts: joining    *)
(* two names with a dot is concatenation.                                  *)
(***************************************************************************)
EXTENDS Tables

CONSTANT UsizeMax   \* largest usize (the number of cells is a checked product)

-----------------------------------------------------------------------------
(* Alignment.  A source sample set is [source, samples].                   *)

InAll(sources, sample) == \A i \in DOMAIN sources : sample \in ToSet(sources[i].samples)

AlignedSamples(sources, mode) ==
  CASE mode = "inner" -> Kept(sources[1].samples,
                              {n \in DOMAIN sources[1].samples : InAll(sources, sources[1].samples[n])})
    [] mode = "left" -> sources[1].samples
    [] mode = "outer" -> FirstOf(FlattenSeq([i \in DOMAIN sources |-> sources[i].samples]))

\* SampleAlignmentPlan::validate.
ValidAlignment(plan) ==
  LET present(i) == {m \in DOMAIN plan.masks : plan.masks[m].present[i]}
  IN /\ plan.samples # << >> /\ Unique(plan.samples)
     /\ plan.masks # << >>
     /\ Unique([m \in DOMAIN plan.masks |-> plan.masks[m].source])
     /\ \A m \in DOMAIN plan.masks : Len(plan.masks[m].present) = Len(plan.samples)
     /\ \A i \in DOMAIN plan.samples :
          /\ present(i) # {}
          /\ plan.mode = "inner" => present(i) = DOMAIN plan.masks
          /\ plan.mode = "left" => 1 \in present(i)

build_sample_alignment_plan(sources, mode) ==
  LET samples == AlignedSamples(sources, mode)
      plan == [mode |-> mode, samples |-> samples,
               masks |-> [m \in DOMAIN sources |->
                            [source |-> sources[m].source,
                             present |-> [i \in DOMAIN samples |->
                                            samples[i] \in ToSet(sources[m].samples)]]]]
  IN IF /\ sources # << >>
        /\ Unique([i \in DOMAIN sources |-> sources[i].source])
        /\ \A i \in DOMAIN sources : sources[i].samples # << >> /\ Unique(sources[i].samples)
        /\ samples # << >> /\ ValidAlignment(plan)
     THEN Ok(plan) ELSE Err

-----------------------------------------------------------------------------
(* Fusion.  A source block is [source, block].                             *)

\* validate_feature_block.
ValidBlock(b) ==
  /\ b.names # << >>
  /\ Len(b.obs) = Len(b.samples) /\ Len(b.samples) = Len(b.values)
  /\ Unique(b.obs)
  /\ \A k \in DOMAIN b.values : Len(b.values[k]) = Len(b.names)

source_sample_set_from_feature_block(b) ==
  IF ValidBlock(b.block) THEN Ok([source |-> b.source, samples |-> FirstOf(b.block.samples)])
  ELSE Err

\* rows_by_sample.
RowsOf(b, sample) ==
  Kept([k \in DOMAIN b.samples |-> k], {k \in DOMAIN b.samples : b.samples[k] = sample})

FusedNames(blocks, namespace) ==
  FlattenSeq([i \in DOMAIN blocks |->
    [f \in DOMAIN blocks[i].block.names |->
       (IF namespace THEN blocks[i].source ELSE << >>) \o blocks[i].block.names[f]]])

\* validate_alignment_presence, with the tests of the masks before it.
PresenceAgrees(blocks, plan) ==
  /\ Len(plan.masks) = Len(blocks)
  /\ {plan.masks[m].source : m \in DOMAIN plan.masks}
       = {blocks[i].source : i \in DOMAIN blocks}
  /\ plan.mode = "left" =>
       \A i \in DOMAIN plan.samples : RowsOf(blocks[1].block, plan.samples[i]) # << >>
  /\ \A m \in DOMAIN plan.masks, b \in DOMAIN blocks : plan.masks[m].source = blocks[b].source =>
       \A i \in DOMAIN plan.samples :
         plan.masks[m].present[i] <=> RowsOf(blocks[b].block, plan.samples[i]) # << >>

\* The rows of the result: of each aligned sample the rows of the first source,
\* or one synthetic row (0).
OutputRows(blocks, plan) ==
  FlattenSeq([i \in DOMAIN plan.samples |->
    LET rows == RowsOf(blocks[1].block, plan.samples[i])
    IN [k \in 1..(IF rows = << >> THEN 1 ELSE Len(rows)) |->
          <<plan.samples[i], IF rows = << >> THEN 0 ELSE rows[k]>>]])

\* A repeated sample takes the first of its rows.
Broadcastable_first(blocks, plan) == TRUE

Broadcastable(blocks, plan) ==
  \A i \in DOMAIN plan.samples : \A b \in 2..Len(blocks) :
    Len(RowsOf(blocks[b].block, plan.samples[i])) <= 1

\* The row of block b that goes into an output row, 0 for nulls.
TakenRow(blocks, b, row) ==
  LET rows == RowsOf(blocks[b].block, row[1])
  IN IF b = 1 THEN row[2] ELSE IF rows = << >> THEN 0 ELSE rows[1]

\* The prefix of a synthetic row is a name part of its own.
synthetic_observation_id(sample) == <<0 - 1>> \o sample

fuse_feature_blocks(blocks, plan, namespace) ==
  LET rows == OutputRows(blocks, plan)
      fused == Block(FusedNames(blocks, namespace),
        [k \in DOMAIN rows |-> IF rows[k][2] = 0 THEN synthetic_observation_id(rows[k][1])
                               ELSE blocks[1].block.obs[rows[k][2]]],
        [k \in DOMAIN rows |-> rows[k][1]],
        [k \in DOMAIN rows |-> FlattenSeq([b \in DOMAIN blocks |->
           LET taken == TakenRow(blocks, b, rows[k])
           IN IF taken = 0 THEN [f \in DOMAIN blocks[b].block.names |-> Null]
              ELSE blocks[b].block.values[taken]])])
  IN IF /\ blocks # << >> /\ ValidAlignment(plan)
        /\ Unique([i \in DOMAIN blocks |-> blocks[i].source])
        /\ \A i \in DOMAIN blocks :
             ValidBlock(blocks[i].block) /\ blocks[i].repr = blocks[1].repr
        /\ Unique(FusedNames(blocks, namespace))
        /\ PresenceAgrees(blocks, plan)
        /\ Broadcastable(blocks, plan)
        /\ ValidBlock(fused)
     THEN Ok(fused) ELSE Err

\* FeatureFusionSourceLayout::validate and validate_for_source_blocks: the
\* column ranges of the sources, one after the other.
LayoutStart(blocks, b) ==
  LET upto[n \in 0 .. Len(blocks)] ==
        IF n = 0 THEN 0 ELSE upto[n - 1] + Len(blocks[n].block.names)
  IN upto[b - 1]

ValidLayout(layout, blocks) ==
  /\ Len(layout.ranges) = Len(blocks) /\ blocks # << >>
  /\ Unique([b \in DOMAIN blocks |-> blocks[b].source])
  /\ \A b \in DOMAIN blocks :
       /\ layout.ranges[b] = [source |-> blocks[b].source, start |-> LayoutStart(blocks, b),
                              count |-> Len(blocks[b].block.names)]
       /\ layout.ranges[b].count > 0
       /\ layout.repr = blocks[b].repr
  /\ layout.total = LayoutStart(blocks, Len(blocks) + 1) /\ layout.total > 0

-----------------------------------------------------------------------------
(* Collation.  A row is a sequence of optional values.                     *)

numeric_input_from_feature_block(b) ==
  IF /\ b.names # << >> /\ Len(b.obs) = Len(b.samples) /\ Len(b.samples) = Len(b.values)
     /\ \A k \in DOMAIN b.values :
          /\ Len(b.values[k]) = Len(b.names)
          /\ \A f \in DOMAIN b.names : Numeric(b.values[k][f])
  THEN Ok([obs |-> b.obs, samples |-> b.samples, names |-> <<b.names>>,
           rows |-> [k \in DOMAIN b.values |-> [f \in DOMAIN b.names |-> Cell(b.values[k][f])]]])
  ELSE Err

\* validate_numeric_input_block and validate_collation_policy.
ValidCollation(in, policy) ==
  /\ in.obs # << >> /\ Unique(in.obs)
  /\ Len(in.obs) = Len(in.samples) /\ Len(in.samples) = Len(in.rows)
  /\ \A k \in DOMAIN in.rows :
       /\ in.rows[k] # << >>
       /\ \A c \in DOMAIN in.rows[k] : in.rows[k][c] # <<NotFinite>>
  /\ in.names # << >> => in.names[1] # << >> /\ Unique(in.names[1])
  /\ policy.max_length # <<0>> /\ policy.pad_value # NotFinite

LongestRow(in) ==
  CHOOSE n \in {Len(in.rows[k]) : k \in DOMAIN in.rows} :
    \A k \in DOMAIN in.rows : Len(in.rows[k]) <= n

TargetLength(in, policy) ==
  IF policy.max_length = << >> THEN LongestRow(in) ELSE policy.max_length[1]

\* target_length and validate_feature_names_for_collation.
LengthFits(in, policy, n) ==
  /\ ~ policy.truncate => \A k \in DOMAIN in.rows : Len(in.rows[k]) <= n
  /\ policy.padding = "none" => \A k \in DOMAIN in.rows : Len(in.rows[k]) >= n
  /\ in.names # << >> =>
       /\ \A k \in DOMAIN in.rows : Len(in.rows[k]) = Len(in.names[1])
       /\ n <= Len(in.names[1])
       /\ n < Len(in.names[1]) => policy.truncate

truncate_start(len, n, padding) ==
  CASE padding = "left" -> len - n
    [] padding = "center" -> (len - n) \div 2
    [] OTHER -> 0

\* Names always cut on the right.
NamesStart_right(len, n, padding) == 0

NamesStart(len, n, padding) == truncate_start(len, n, padding)

Window(seq, start, n) == SubSeq(seq, start + 1, start + n)

\* project_row: optional cells with their presence.
project_row(row, n, padding) ==
  LET kept == IF Len(row) > n THEN Window(row, truncate_start(Len(row), n, padding), n) ELSE row
      missing == n - Len(kept)
      left == CASE padding = "left" -> missing
                [] padding = "center" -> missing \div 2
                [] OTHER -> 0
      inside(c) == c > left /\ c <= left + Len(kept)
  IN [values |-> [c \in 1..n |-> IF inside(c) THEN kept[c - left] ELSE << >>],
      presence |-> [c \in 1..n |-> inside(c)]]

collate_numeric_block(in, policy) ==
  LET n == TargetLength(in, policy)
      rows == [k \in DOMAIN in.rows |-> project_row(in.rows[k], n, policy.padding)]
      valid == [k \in DOMAIN rows |-> [c \in 1..n |->
                  rows[k].presence[c] /\ rows[k].values[c] # << >>]]
  IN IF /\ ValidCollation(in, policy) /\ n > 0 /\ LengthFits(in, policy, n)
        /\ Len(in.rows) * n <= UsizeMax
     THEN Ok([shape |-> <<Len(in.rows), n>>, obs |-> in.obs, samples |-> in.samples,
              values |-> FlattenSeq([k \in DOMAIN rows |-> [c \in 1..n |->
                           IF rows[k].values[c] = << >> THEN policy.pad_value
                           ELSE rows[k].values[c][1]]]),
              presence |-> IF policy.emit_mask
                           THEN <<FlattenSeq([k \in DOMAIN rows |-> rows[k].presence])>>
                           ELSE << >>,
              validity |-> IF \E k \in DOMAIN rows : FALSE \in ToSet(valid[k])
                           THEN <<FlattenSeq(valid)>> ELSE << >>,
              names |-> IF in.names = << >> \/ Len(in.names[1]) = n THEN in.names
                        ELSE <<Window(in.names[1],
                                 NamesStart(Len(in.names[1]), n, policy.padding), n)>>])
     ELSE Err
=============================================================================
