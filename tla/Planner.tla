------------------------------- MODULE Planner -------------------------------
(***************************************************************************)
(* Planning a model input (planner.rs) and the data plans it returns       *)
(* (plan.rs): for every port, the sources that reach a representation it   *)
(* accepts, the adapters on the way, and the steps that align and join     *)
(* them.                                                                   *)
(*                                                                         *)
(* A planning request is [schema, registry, ports, fusion, source_ids,     *)
(* policy]; its schema is a dataset schema and its registry a function     *)
(* from adapter ids to adapters.                                           *)
(* The outputs of steps, strings in the code, are tuples <<kind, name>>.   *)
(***************************************************************************)
EXTENDS PathSearch, Builtins

CONSTANT Requests   \* the planning requests

VARIABLES
  request,    \* the request being planned
  done,       \* ports planned so far
  plan,       \* steps, issues and output representation so far
  outcome     \* "planning", "planned", or the reason of the error

planVars == <<request, done, plan, outcome>>

-----------------------------------------------------------------------------
(* Requests.                                                               *)

\* The validations that open plan_model_input, with validate_request.
ValidRequest(r) ==
  /\ ValidSchema(r.schema) /\ ValidPorts(r.ports)
  /\ r.source_ids # None => ~ HasDuplicates(r.source_ids[1])

\* candidate_sources: all sources by id, or those requested, in that order.
UnknownSource(r) ==
  r.source_ids # None /\ ~ ToSet(r.source_ids[1]) \subseteq IdSet(r.schema.sources)

candidate_sources(r) ==
  IF r.source_ids = None THEN SetToSortSeq(IdSet(r.schema.sources), <) ELSE r.source_ids[1]

-----------------------------------------------------------------------------
(* Sources of a port.                                                      *)

Source(r, id) ==
  r.schema.sources[CHOOSE i \in DOMAIN r.schema.sources : r.schema.sources[i].id = id]

Native(r, source) == Source(r, source).native

NativeNode(r, source) == <<Source(r, source).type, Native(r, source).id>>

\* The rank of a representation: the source's own, or the builtin one.
KnownRank(r, source, repr) ==
  LET builtin == Published(representation_registry, repr)
  IN IF repr = Native(r, source).id THEN Native(r, source).rank
     ELSE IF builtin = {} THEN None ELSE (CHOOSE b \in builtin : TRUE).rank

\* A port without a rank, or a representation without one, is compatible.
RankFits(r, source, port, repr) ==
  \/ None \in {port.rank, KnownRank(r, source, repr)}
  \/ port.rank = KnownRank(r, source, repr)

\* The targets of a port in the order they are tried.
Targets(port) ==
  LET n == Len(port.reprs)
  IN [k \in 1..(Len(port.types) * n) |->
        <<port.types[((k - 1) \div n) + 1], port.reprs[((k - 1) % n) + 1]>>]

\* An ambiguous path is no path.
Candidate_dropped(r, source, target) ==
  find_path(r.registry, NativeNode(r, source), target, r.policy)

\* find_path once more, without asking the user, when the first is ambiguous.
Retried(r, source, target, found) ==
  IF found.issue # "ambiguous_path" THEN found
  ELSE [find_path(r.registry, NativeNode(r, source), target,
                  [r.policy EXCEPT !.require_choice = FALSE]) EXCEPT !.issue = found.issue]

Candidate(r, source, target) ==
  Retried(r, source, target, find_path(r.registry, NativeNode(r, source), target, r.policy))

Issues(r, source, port, target, issue) ==
  ({issue} \cup (IF port.rank # None /\ KnownRank(r, source, target[2]) = None
                 THEN {"unverified_rank"} ELSE {})) \ {"none"}

\* One target of the port: it counts if its rank fits and a path leads to it.
Resolution(r, source, port, target, candidate) ==
  [found |-> RankFits(r, source, port, target[2]) /\ candidate.found,
   source |-> source, target |-> target, path |-> candidate.path,
   issues |-> Issues(r, source, port, target, candidate.issue)]

\* resolve_source: the first target the source reaches, of those that are tried.
resolve_source(r, source, port) ==
  FoldLeft(LAMBDA acc, target :
             IF acc.found THEN acc
             ELSE Resolution(r, source, port, target, Candidate(r, source, target)),
           [found |-> FALSE], Targets(port))

ResolveAll(r, sources, port) ==
  SelectSeq([i \in DOMAIN sources |-> resolve_source(r, sources[i], port)],
            LAMBDA x : x.found)

Only(port, target) == [port EXCEPT !.types = <<target[1]>>, !.reprs = <<target[2]>>]

\* Several sources of a multi-source port share the first target that all of
\* them reach: None without one.
Shared(r, port, each) ==
  FoldLeft(LAMBDA acc, target :
             IF acc # None THEN acc
             ELSE LET all == ResolveAll(r, [i \in DOMAIN each |-> each[i].source], Only(port, target))
                  IN IF Len(all) = Len(each) THEN Some(all) ELSE None,
           None, Targets(port))

Agreed(r, port, each) ==
  IF port.multi /\ Len(each) > 1 THEN Shared(r, port, each) ELSE Some(each)

\* The sources resolved each on its own.
Negotiated_independently(r, port) == Some(ResolveAll(r, candidate_sources(r), port))

Negotiated(r, port) == Agreed(r, port, ResolveAll(r, candidate_sources(r), port))

-----------------------------------------------------------------------------
(* Steps.                                                                  *)

Step(kind, source, via, in, out, inputs, output) ==
  [kind |-> kind, source |-> source, adapter |-> via, in |-> in, out |-> out,
   inputs |-> inputs, output |-> output]

CountOf(steps, kind) == Cardinality({i \in DOMAIN steps : steps[i].kind = kind})

\* Materialize a source, then its adapters, each reading what the last wrote.
SourceSteps(r, resolved, base) ==
  LET source == resolved.source
      ids == resolved.path
      repr == [k \in 0..Len(ids) |-> IF k = 0 THEN Native(r, source).id
                                     ELSE r.registry[ids[k]].target[2]]
      name == [k \in 0..Len(ids) |-> IF k = 0 THEN <<"src", source>>
                                     ELSE <<"adapt", base + k - 1>>]
  IN <<Step("materialize", Some(source), None, None, Some(repr[0]), << >>, name[0])>> \o
     [k \in 1..Len(ids) |->
        Step("adapt", Some(source), Some(ids[k]), Some(repr[k - 1]), Some(repr[k]),
             <<name[k - 1]>>, name[k])]

JoinSteps(port, repr, outputs, base) ==
  LET step(kind, inputs, output) ==
        Step(kind, None, None, Some(repr), Some(repr), inputs, output)
      aligned == <<"align", base>>
  IN IF Len(outputs) > 1
     THEN <<step("align", outputs, aligned), step("join", <<aligned>>, <<"port", port.name>>)>>
     ELSE <<step("join", outputs, <<"port", port.name>>)>>

\* alignment_mode_from_fusion: without a mode the alignment is inner.
AlignmentKnown(r) == r.fusion \in {None, Some("inner"), Some("left"), Some("outer")}

\* The steps of one port, after the steps of the ports before it.
PortSteps(r, port, resolved, before) ==
  LET blocks == FoldLeft(LAMBDA acc, x :
                           Append(acc, SourceSteps(r, x, CountOf(before \o FlattenSeq(acc), "adapt"))),
                         << >>, resolved)
      outputs == [i \in DOMAIN blocks |-> Last(blocks[i]).output]
  IN FlattenSeq(blocks) \o
     JoinSteps(port, resolved[1].target[2], outputs, CountOf(before, "align"))

\* DataPlan::validate.
ValidPlan(p) ==
  LET s == p.steps
  IN /\ s # << >>
     /\ s[1].kind = "materialize"
     /\ \A i \in DOMAIN s :
          /\ s[i].kind = "materialize" => s[i].source # None
          /\ s[i].kind = "adapt" => s[i].adapter # None
          /\ \A n \in DOMAIN s[i].inputs :
               LET writers == {j \in 1..(i - 1) : s[j].output = s[i].inputs[n]}
               IN /\ writers # {}
                  /\ \A j \in writers : None \in {s[i].in, s[j].out} \/ s[i].in = s[j].out
          /\ \A j \in 1..(i - 1) : s[j].output = s[i].output =>
               /\ s[i].kind = "materialize" /\ s[j].kind = "materialize"
               /\ s[i].out = s[j].out /\ s[i].source = s[j].source
     /\ Last(s).out \in {None, p.output}

-----------------------------------------------------------------------------
(* plan_model_input, one port at a time.                                   *)

PlanInit ==
  /\ request \in Requests
  /\ done = 0
  /\ plan = [steps |-> << >>, issues |-> {}, output |-> None]
  /\ outcome = "planning"

\* No request, for a run about other components.
PlanIdle ==
  /\ request = << >> /\ done = 0 /\ plan = << >> /\ outcome = "idle"

PlanFails(reason) == outcome' = reason /\ UNCHANGED <<request, done, plan>>

PlanRefuse ==
  /\ outcome = "planning" /\ done = 0
  /\ ~ ValidRequest(request) \/ UnknownSource(request)
  /\ PlanFails("invalid_request")

\* The resolved sources of a port become its steps.
Planned(port, resolved) ==
  /\ plan' = [steps |-> plan.steps \o PortSteps(request, port, resolved, plan.steps),
              issues |-> plan.issues \cup UNION {resolved[i].issues : i \in DOMAIN resolved},
              output |-> Some(resolved[1].target[2])]
  /\ done' = done + 1
  /\ UNCHANGED <<request, outcome>>

PlanResolved(port, resolved) ==
  \/ resolved = << >> /\ ~ port.optional /\ PlanFails("no_source")
  \/ /\ resolved = << >> /\ port.optional
     /\ done' = done + 1
     /\ UNCHANGED <<request, plan, outcome>>
  \/ Len(resolved) > 1 /\ ~ port.multi /\ PlanFails("too_many_sources")
  \/ Len(resolved) > 1 /\ port.multi /\ ~ AlignmentKnown(request) /\ PlanFails("invalid_fusion")
  \/ /\ Len(resolved) = 1 \/ (Len(resolved) > 1 /\ port.multi /\ AlignmentKnown(request))
     /\ Planned(port, resolved)

PlanPort ==
  /\ outcome = "planning"
  /\ ValidRequest(request) /\ ~ UnknownSource(request)
  /\ done < Len(request.ports)
  /\ \E negotiated \in {Negotiated(request, request.ports[done + 1])} :
       \/ negotiated = None /\ PlanFails("no_common_target")
       \/ negotiated # None /\ PlanResolved(request.ports[done + 1], negotiated[1])

PlanEnd ==
  /\ outcome = "planning" /\ ValidRequest(request) /\ ~ UnknownSource(request)
  /\ done = Len(request.ports)
  /\ outcome' = IF plan.output = None THEN "no_outputs"
                ELSE IF ValidPlan(plan) THEN "planned" ELSE "rejected"
  /\ UNCHANGED <<request, done, plan>>

PlanNext == PlanRefuse \/ PlanPort \/ PlanEnd

-----------------------------------------------------------------------------
(* The paths of usable adapters from start to goal that use none twice,    *)
(* stay within max_hops and whose sums fit: the reference.                 *)
SumOf(f, ids) == FoldLeft(LAMBDA acc, id : acc + f[id], 0, ids)

RECURSIVE Extensions(_, _, _, _)
Extensions(r, node, goal, ids) ==
  IF node = goal THEN {ids}
  ELSE IF r.policy.max_hops # None /\ Len(ids) = r.policy.max_hops[1] THEN {}
  ELSE UNION {Extensions(r, r.registry[id].target, goal, Append(ids, id)) :
                id \in {id \in Usable(r.registry, r.policy) \ ToSet(ids) :
                          r.registry[id].source = node}}

AllPaths(r, start, goal) ==
  LET score == [id \in DOMAIN r.registry |-> adapter_score(r.registry, id, r.policy)]
      raw == [id \in DOMAIN r.registry |-> r.registry[id].cost]
  IN {[ids |-> p, score |-> SumOf(score, p)] :
        p \in {p \in Extensions(r, start, goal, << >>) :
                 Fits(SumOf(score, p)) /\ Fits(SumOf(raw, p))}}

(* The search returns exactly the paths of least (score, hops): with the   *)
(* pruning of best_seen it neither misses one (a user would not be asked   *)
(* to choose) nor keeps a worse one, also under max_hops and with adapters *)
(* whose score is zero.  An overflow on the way may cost it a path, never  *)
(* make it return one that is not there (find_path, adapter.rs).           *)
SearchIsExact ==
  done = 0 /\ outcome = "planning" =>
    \A source \in IdSet(request.schema.sources), i \in DOMAIN request.ports :
      \A k \in DOMAIN Targets(request.ports[i]) :
        LET start == NativeNode(request, source)
            goal == Targets(request.ports[i])[k]
            all == AllPaths(request, start, goal)
            best == {p \in all : \A q \in all :
                       \/ p.score < q.score
                       \/ p.score = q.score /\ Len(p.ids) <= Len(q.ids)}
            found == Searched(request.registry, goal, request.policy, SearchStart(start))
        IN start # goal =>
             /\ found.goals \subseteq {p.ids : p \in all}
             /\ ~ found.overflow => found.goals = {p.ids : p \in best}

(* plan_model_input never builds a plan that DataPlan::validate rejects.   *)
PlannerAcceptsItsPlans == outcome # "rejected"

Writers(s, output) == {s[j] : j \in {j \in DOMAIN s : s[j].output = output}}

RECURSIVE Origins(_, _, _)
Origins(s, output, node) ==
  UNION {CASE w.kind = "materialize" -> {<<w.source[1], node>>}
           [] w.kind = "adapt" -> IF request.registry[w.adapter[1]].target = node
                                  THEN Origins(s, w.inputs[1], request.registry[w.adapter[1]].source)
                                  ELSE {<<w.source[1], << >>>>}
           [] OTHER -> UNION {Origins(s, w.inputs[n], node) : n \in DOMAIN w.inputs}
         : w \in Writers(s, output)}

(* Whether the source reaches a target of the port that has its rank, by   *)
(* the reference; no search between the two overflowed.                    *)
Able(src, port) ==
  \E k \in DOMAIN Targets(port) :
    /\ RankFits(request, src, port, Targets(port)[k][2])
    /\ \/ NativeNode(request, src) = Targets(port)[k]
       \/ AllPaths(request, NativeNode(request, src), Targets(port)[k]) # {}

NoOverflow(src, port) ==
  \A k \in DOMAIN Targets(port) :
    ~ Searched(request.registry, Targets(port)[k], request.policy,
               SearchStart(NativeNode(request, src))).overflow

(* What a planned port delivers, followed back through its steps: at one   *)
(* and the same type and representation that the port accepts, it unites   *)
(* every candidate source that can reach an accepted target, each from its *)
(* native type and representation through adapters that the policy allows. *)
(* A port is left out only if it is optional and no source can feed it; a  *)
(* source with several best paths is never dropped (plan_model_input and   *)
(* resolve_source, planner.rs).                                            *)
PortsAreFed ==
  outcome = "planned" =>
    \A i \in DOMAIN request.ports :
      LET port == request.ports[i]
          output == <<"port", port.name>>
          all == ToSet(candidate_sources(request))
          native(sources) == {<<src, NativeNode(request, src)>> : src \in sources}
          able == {src \in all : Able(src, port)}
          sure == {src \in able : NoOverflow(src, port)}
      IN /\ Writers(plan.steps, output) = {} => port.optional /\ sure = {}
         /\ Writers(plan.steps, output) # {} =>
              \E k \in DOMAIN Targets(port) :
                LET from == Origins(plan.steps, output, Targets(port)[k])
                IN native(sure) \subseteq from /\ from \subseteq native(able)
         /\ \A j \in DOMAIN plan.steps : plan.steps[j].kind = "adapt" =>
              plan.steps[j].adapter[1] \in Usable(request.registry, request.policy)

(* A plan without an unverified_rank issue delivers what a port of rank n  *)
(* asks for: a representation with n axes, those that the source declares  *)
(* or those of the builtin catalogue.  If the ports were accepted against  *)
(* the published registry, the issue can only come from a source that does *)
(* not declare its own rank (resolve_source, planner.rs, with              *)
(* RepresentationSpec::validate, model.rs).                                *)
RanksAreHonoured ==
  outcome = "planned" =>
    \A i \in DOMAIN request.ports : request.ports[i].rank # None =>
      LET port == request.ports[i]
          steps == plan.steps
          join == {j \in DOMAIN steps : steps[j].output = <<"port", port.name>>}
          fed == {src \in ToSet(candidate_sources(request)) :
                    resolve_source(request, src, port).found}
          axes(src, repr) == IF repr = Native(request, src).id THEN {Native(request, src).axes}
                             ELSE {b.axes : b \in Published(representation_registry, repr)}
      IN /\ "unverified_rank" \notin plan.issues =>
              \A j \in join, src \in fed :
                /\ axes(src, steps[j].out[1]) # {}
                /\ \A a \in axes(src, steps[j].out[1]) : Len(a) = port.rank[1]
         /\ /\ validate_model_input_spec_against_registry(request.ports, representation_registry)
            /\ "unverified_rank" \in plan.issues
            => \E src \in ToSet(candidate_sources(request)) : Native(request, src).rank = None
=============================================================================
