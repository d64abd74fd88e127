------------------------------ MODULE MetricPlan ------------------------------
(***************************************************************************)
(* build_execution_plan (pipelines/dynamic_metrics_pipeline.py): what a    *)
(* selected group of a metadata snapshot means.  A snapshot is [groups,    *)
(* rules, metrics, active, members, assigned, dependencies]: the parent of *)
(* each group, the rule of each member, the metrics, the ids that are      *)
(* active, the active assignments of members and of metrics to groups as   *)
(* pairs, and the metric dependencies as pairs.  Names, kinds and          *)
(* aggregations are carried along by the code and left out here, and so is *)
(* the order of branches.                                                  *)
(***************************************************************************)
EXTENDS Integers, Sequences, FiniteSets, SequencesExt

CONSTANT Absent  \* Python's None: no parent, or no constraint in a rule

Groups(snap) == DOMAIN snap.groups \cap snap.active

Children(snap, g) == {c \in Groups(snap) : snap.groups[c] = g}

(* _resolve_branches: walk down from the selected group.  A path is the     *)
(* branch of its last group; a group met again on its own path is an error. *)

\* A plausible slip: only the children of the selected group are branches.
Branches_OneLevel(snap, selected) ==
  {<<selected>>} \cup {<<selected, c>> : c \in Children(snap, selected)}

Branches(snap, selected) ==
  LET n == Cardinality(Groups(snap))
      walk[k \in 1..n] ==
        IF k = 1 THEN {<<selected>>}
        ELSE UNION {{Append(p, c) : c \in Children(snap, Last(p))} : p \in walk[k - 1]}
  IN  UNION {walk[k] : k \in 1..n}

CycleFound(snap, selected) ==
  \E p \in Branches(snap, selected) :
    \E c \in Children(snap, Last(p)) : c \in ToSet(p)

(* _resolve_members: the active members of all groups on the path, once     *)
(* each, the most specific first.                                           *)

Specificity(rule) == Cardinality({f \in DOMAIN rule : rule[f] # Absent})

Before(snap, a, b) ==
  \/ Specificity(snap.rules[a]) > Specificity(snap.rules[b])
  \/ Specificity(snap.rules[a]) = Specificity(snap.rules[b]) /\ a < b

MembersOf(snap, path) ==
  SetToSortSeq({m \in DOMAIN snap.rules \cap snap.active :
                  \E g \in ToSet(path) : <<g, m>> \in snap.members},
               LAMBDA a, b : Before(snap, a, b))

(* _resolve_metrics: later groups of the path overwrite earlier ones.       *)

Declared(snap, g) == {m \in snap.metrics \cap snap.active : <<g, m>> \in snap.assigned}

Overwrite(old, metrics, g) ==
  [m \in DOMAIN old \cup metrics |-> IF m \in metrics THEN g ELSE old[m]]

\* For every metric of the path, the group that declares it.
MetricsOf(snap, path) ==
  LET upTo[i \in 0..Len(path)] ==
        IF i = 0 THEN <<>>
        ELSE Overwrite(upTo[i - 1], Declared(snap, path[i]), path[i])
  IN  upTo[Len(path)]

\* Dependencies are collected for planned metrics only, and one level deep.
DependenciesOf(snap, metrics) == {d \in snap.dependencies : d[1] \in metrics}

PlanRun(snap, selected) ==
  IF selected \notin Groups(snap) THEN [verdict |-> "unknown_group"]
  ELSE IF CycleFound(snap, selected) THEN [verdict |-> "cycle"]
  ELSE LET paths == Branches(snap, selected)
           metrics == [p \in paths |-> MetricsOf(snap, p)]
       IN  [verdict |-> "planned",
            members |-> [p \in paths |-> MembersOf(snap, p)],
            metrics |-> metrics,
            dependencies |-> DependenciesOf(snap, UNION {DOMAIN metrics[p] : p \in paths})]
===============================================================================
