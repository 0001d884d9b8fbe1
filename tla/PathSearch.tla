----------------------------- MODULE PathSearch -----------------------------
(***************************************************************************)
(* The adapter registry and its path search (adapter.rs).                  *)
(*                                                                         *)
(* A node is <<type, representation>>.  A registry is a function from      *)
(* adapter ids to adapters; ids are numbers, which stand for the order of  *)
(* the strings.  Costs and scores are integers of a scaled width.          *)
(***************************************************************************)
EXTENDS Integers, Sequences, FiniteSets, SequencesExt

CONSTANTS
  U64Max,           \* largest cost or score (u64::MAX in the code)
  LossyPenalty,     \* 1_000_000 in adapter_score
  FittedPenalty     \* 100_000 in adapter_score, for stateful and for supervised

None == << >>      \* an Option is a sequence: << >> or <<x>>
Some(x) == <<x>>

-----------------------------------------------------------------------------
\* AdapterSpec::validate and the duplicate test of register_adapter.
ValidAdapter(a) ==
  /\ a.named /\ a.deterministic
  /\ a.stateful => a.fit_scope # "stateless"

Registers(registry, id, a) == ValidAdapter(a) /\ id \notin DOMAIN registry

register_adapter(registry, id, a) ==
  IF Registers(registry, id, a)
  THEN [i \in DOMAIN registry \cup {id} |-> IF i = id THEN a ELSE registry[i]]
  ELSE registry

\* The adapters that the policy lets find_path use.
Usable(registry, policy) ==
  {id \in DOMAIN registry \ policy.forbidden :
     /\ registry[id].lossy => policy.allow_lossy
     /\ registry[id].stateful => policy.allow_stateful
     /\ registry[id].supervised => policy.allow_supervised}

\* adapter_score computes in u128: whether the sum fits is tested afterwards.
adapter_score(registry, id, policy) ==
  LET a == registry[id]
  IN (IF a.cost = 0 THEN 1 ELSE a.cost)
       + (IF a.lossy THEN LossyPenalty ELSE 0)
       + (IF a.stateful THEN FittedPenalty ELSE 0)
       + (IF a.supervised THEN FittedPenalty ELSE 0)
       - (IF id \in policy.preferred THEN 1 ELSE 0)

Fits(n) == n <= U64Max

-----------------------------------------------------------------------------
(* The search.  A state of the heap is a path from the start, with its     *)
(* score, raw cost and number of hops.                                     *)

Path(score, raw, node, ids) == [score |-> score, raw |-> raw, node |-> node, ids |-> ids]

Hops(x) == Len(x.ids)

\* The order of the heap up to ties, which the code breaks by node and ids.
Before(x, y) ==
  \/ x.score < y.score
  \/ x.score = y.score /\ Hops(x) < Hops(y)
  \/ x.score = y.score /\ Hops(x) = Hops(y) /\ x.raw <= y.raw

Popped(heap) == CHOOSE x \in heap : \A y \in heap : Before(x, y)

SearchStart(start) ==
  [heap |-> {Path(0, 0, start, << >>)}, best_seen |-> [k \in {<<start, 0>>} |-> 0],
   overflow |-> FALSE, best |-> << >>, goals |-> {}]

\* Dominated whatever the number of hops.
Dominated_any_hops(s, next, hops, score) ==
  \E k \in DOMAIN s.best_seen : k[1] = next /\ s.best_seen[k] < score

Dominated(s, next, hops, score) ==
  <<next, hops>> \in DOMAIN s.best_seen /\ s.best_seen[<<next, hops>>] < score

\* One outgoing adapter of the state x.
Relax(registry, policy, x, s, id) ==
  LET a == registry[id]
      score == x.score + adapter_score(registry, id, policy)
      raw == x.raw + a.cost
      key == <<a.target, Hops(x) + 1>>
  IN IF \E i \in DOMAIN x.ids : x.ids[i] = id THEN s
     ELSE IF ~ (Fits(score) /\ Fits(raw)) THEN [s EXCEPT !.overflow = TRUE]
     ELSE IF Dominated(s, a.target, Hops(x) + 1, score) THEN s
     ELSE [s EXCEPT
             !.best_seen = [k \in DOMAIN @ \cup {key} |-> IF k = key THEN score ELSE @[k]],
             !.heap = @ \cup {Path(score, raw, a.target, Append(x.ids, id))}]

Worse(x, s) ==
  /\ s.best # << >>
  /\ \/ x.score > s.best[1]
     \/ x.score = s.best[1] /\ Hops(x) > s.best[2]

\* The state x, off the heap: the end, a goal, a dead end or its adapters.
SearchStep(registry, goal, policy, s, x) ==
  IF Worse(x, s) THEN [s EXCEPT !.heap = {}]
  ELSE IF x.node = goal
  THEN [s EXCEPT !.heap = @ \ {x},
                 !.best = IF @ = << >> THEN <<x.score, Hops(x)>> ELSE @,
                 !.goals = @ \cup {x.ids}]
  ELSE IF policy.max_hops # None /\ Hops(x) >= policy.max_hops[1]
  THEN [s EXCEPT !.heap = @ \ {x}]
  ELSE FoldLeft(LAMBDA t, id : Relax(registry, policy, x, t, id), [s EXCEPT !.heap = @ \ {x}],
                SetToSortSeq({id \in Usable(registry, policy) : registry[id].source = x.node}, <))

RECURSIVE Searched(_, _, _, _)
Searched(registry, goal, policy, s) ==
  IF s.heap = {} THEN s
  ELSE Searched(registry, goal, policy, SearchStep(registry, goal, policy, s, Popped(s.heap)))

-----------------------------------------------------------------------------
Resolved(ids) == [path |-> ids, found |-> TRUE, issue |-> "none"]
Unresolved(code) == [path |-> << >>, found |-> FALSE, issue |-> code]

\* The first of the paths in the order of their ids.
FirstPath(paths) ==
  CHOOSE p \in paths : \A q \in paths :
    \/ p = q
    \/ \E n \in 1..Len(q) :
         /\ n <= Len(p) => p[n] < q[n]
         /\ n <= Len(p) + 1
         /\ \A m \in 1..(n - 1) : p[m] = q[m]

\* What find_path returns when the heap is empty.
PathFound(s, policy) ==
  IF s.goals = {} THEN Unresolved(IF s.overflow THEN "cost_overflow" ELSE "no_path")
  ELSE IF Cardinality(s.goals) > 1 /\ policy.require_choice THEN Unresolved("ambiguous_path")
  ELSE Resolved(FirstPath(s.goals))

find_path(registry, start, goal, policy) ==
  IF start = goal THEN Resolved(<< >>)
  ELSE PathFound(Searched(registry, goal, policy, SearchStart(start)), policy)
=============================================================================
