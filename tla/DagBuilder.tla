----------------------------- MODULE DagBuilder -----------------------------
(***************************************************************************)
(* The DAG builder (dagBuild.mjs): the checks of buildBatch(), then for    *)
(* each job the depths of its tasks by Kahn's algorithm, then the costs.   *)
(*                                                                         *)
(* The call is one turn of the event loop; its loop over the tasks of a    *)
(* job is taken step by step.  The order of the queue is left open.        *)
(***************************************************************************)
EXTENDS Naturals, Sequences, FiniteSets

VARIABLES
  build,      \* the call: all its jobs, those left (the first is at work)
  inDegree, depths, queue, processed   \* of #computeDepths()

builderVars == <<build, inDegree, depths, queue, processed>>

Ends == {"none", "tasks", "TypeError", "SchemaError", "MissingContextError",
         "DAGValidationError", "CostingError", "ReferenceError"}

BuilderTypeOK ==
  /\ build.at \in {"idle", "graph"} /\ build.end \in Ends
  /\ \A s \in DOMAIN inDegree : inDegree[s] \in Nat
  /\ DOMAIN depths \subseteq DOMAIN inDegree /\ \A s \in DOMAIN depths : depths[s] \in Nat
  /\ queue \subseteq DOMAIN depths /\ processed \in Nat

NoGraph == [s \in {} |-> 0]

BuilderInit ==
  /\ build = [at |-> "idle", all |-> <<>>, left |-> <<>>, end |-> "none"]
  /\ inDegree = NoGraph /\ depths = NoGraph /\ queue = {} /\ processed = 0

-----------------------------------------------------------------------------
(* taskDepends and childrenMap, with the entries that appear twice.        *)
TasksOf(dag) == {dag.stages[i].stage : i \in DOMAIN dag.stages}
DependsOn(dag, s) == dag.stages[CHOOSE i \in DOMAIN dag.stages : dag.stages[i].stage = s].dependsOn
Times(dag, d, s) == Cardinality({k \in DOMAIN DependsOn(dag, s) : DependsOn(dag, s)[k] = d})
Children(dag, d) == {s \in TasksOf(dag) : Times(dag, d, s) > 0}

(* The checks of buildBatch(), in their order.                             *)
Refusal(dags, contexts, hasConfig, haveIds) ==
  LET keys == {<<contexts[i].job, contexts[i].stage>> : i \in DOMAIN contexts}
  IN  IF ~hasConfig THEN "TypeError"
      ELSE IF \/ dags # <<>> /\ ~haveIds
              \/ \E i \in DOMAIN contexts : ~contexts[i].valid
              \/ Cardinality(keys) # Len(contexts)
           THEN "SchemaError"
      ELSE IF \E i \in DOMAIN dags : \E s \in TasksOf(dags[i]) : <<dags[i].job, s>> \notin keys
           THEN "MissingContextError"
      ELSE "none"

Return(all, end) ==
  /\ build' = [at |-> "idle", all |-> all, left |-> <<>>, end |-> end]
  /\ UNCHANGED <<inDegree, depths, queue, processed>>

(* #buildGraphForJob() up to the loop of #computeDepths().                 *)
BuildGraph(all, left) ==
  LET dag == Head(left)
  IN  IF \E s \in TasksOf(dag) : \E k \in DOMAIN DependsOn(dag, s) :
           DependsOn(dag, s)[k] \notin TasksOf(dag)
      THEN Return(all, "DAGValidationError")
      ELSE /\ build' = [at |-> "graph", all |-> all, left |-> left, end |-> "none"]
           /\ inDegree' = [s \in TasksOf(dag) |-> Len(DependsOn(dag, s))]
           /\ queue' = {s \in TasksOf(dag) : inDegree'[s] = 0}
           /\ depths' = [s \in queue' |-> 0]
           /\ processed' = 0

(* buildBatch(dags, nodeConfig, contexts).                                 *)
BuildBatch(dags, contexts, hasConfig, haveIds) ==
  /\ build.at = "idle"
  /\ IF Refusal(dags, contexts, hasConfig, haveIds) # "none"
     THEN Return(dags, Refusal(dags, contexts, hasConfig, haveIds))
     ELSE IF dags = <<>> THEN Return(dags, "tasks")
     ELSE BuildGraph(dags, dags)

(* A slip: the first depth a task is given stays.                          *)
FirstDepth(t, s) == IF s \in DOMAIN depths THEN depths[s] ELSE depths[t] + 1

Depth(t, s) ==
  IF s \in DOMAIN depths /\ depths[s] > depths[t] THEN depths[s] ELSE depths[t] + 1

(* One round of the loop of #computeDepths().                              *)
TakeTask(t) ==
  LET dag == Head(build.left)
  IN  /\ build.at = "graph" /\ t \in queue
      /\ processed' = processed + 1
      /\ inDegree' = [s \in DOMAIN inDegree |-> inDegree[s] - Times(dag, t, s)]
      /\ depths' = [s \in DOMAIN depths \cup Children(dag, t) |->
                      IF s \in Children(dag, t) THEN Depth(t, s) ELSE depths[s]]
      /\ queue' = (queue \ {t}) \cup {s \in Children(dag, t) : inDegree'[s] = 0}
      /\ UNCHANGED build

(* The loop has ended: a cycle, the next job, or the costs of all tasks,   *)
(* which end at an undeclared name (duration_ms) if not before.            *)
GraphEnds ==
  /\ build.at = "graph" /\ queue = {}
  /\ IF processed # Cardinality(DOMAIN inDegree) THEN Return(build.all, "DAGValidationError")
     ELSE IF Len(build.left) > 1 THEN BuildGraph(build.all, Tail(build.left))
     ELSE \E end \in {"SchemaError", "CostingError", "ReferenceError"} : Return(build.all, end)

-----------------------------------------------------------------------------
(* The reference: the tasks at which a path of n dependencies ends.        *)
PathEnds(dag) ==
  LET at[n \in 0 .. Cardinality(TasksOf(dag))] ==
        IF n = 0 THEN TasksOf(dag)
        ELSE {s \in TasksOf(dag) : \E d \in at[n - 1] : s \in Children(dag, d)}
  IN  at

Cyclic(dag) == PathEnds(dag)[Cardinality(TasksOf(dag))] # {}

LongestPath(dag, s) ==
  CHOOSE n \in 0 .. Cardinality(TasksOf(dag)) :
    /\ s \in PathEnds(dag)[n]
    /\ \A m \in 0 .. Cardinality(TasksOf(dag)) : m > n => s \notin PathEnds(dag)[m]

(* When the loop has ended, it has taken every task if and only if the     *)
(* graph has no cycle, and then a task's depth is the length of the        *)
(* longest path to it, whatever the order of the queue and however often a *)
(* dependency is named (#computeDepths).  For jobs that extract() has let  *)
(* pass, a cycle is the only reason to refuse a graph: no context is       *)
(* missing and no dependency unknown (extract, buildBatch).                *)
BuildIsRight ==
  /\ build.at = "graph" /\ queue = {} =>
       LET dag == Head(build.left)
       IN  /\ (processed = Cardinality(TasksOf(dag))) = ~Cyclic(dag)
           /\ ~Cyclic(dag) => \A s \in TasksOf(dag) : depths[s] = LongestPath(dag, s)
  /\ build.end = "DAGValidationError" =>
       \E i \in DOMAIN build.all : Cyclic(build.all[i])
  /\ build.end # "MissingContextError"
  /\ build.end \in {"CostingError", "ReferenceError"} =>
       \A i \in DOMAIN build.all : ~Cyclic(build.all[i])

=============================================================================
