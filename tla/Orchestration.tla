--------------------------- MODULE Orchestration ---------------------------
(***************************************************************************)
(* One execution of a workflow, orchestration_service.py: the runner that  *)
(* sorts the graph into layers and executes them, its nodes, which run     *)
(* concurrently within a layer, and the callers of pause, resume and       *)
(* cancel, each with a database session of its own.                        *)
(*                                                                         *)
(* own is the status in the runner's session.  It is refreshed between     *)
(* layers only, and an UPDATE is sent only for a value that differs from   *)
(* it; nobody locks the row.                                               *)
(***************************************************************************)
EXTENDS Integers, Sequences, FiniteSets, Functions

CONSTANTS
  Nodes,
  Workflows,     \* [edges |-> set of pairs, deps |-> depends_on, budget |-> max_budget_usd or 0]
  Approvals,     \* the nodes of type human_approval
  Cost,          \* the _cost a node reports
  DefaultHard,   \* settings.default_cost_hard_usd
  Callers,       \* concurrent callers of pause, resume and cancel
  None,
  MaxCalls       \* bound: how many of these calls are made

ASSUME OrchestrationAssumption ==
  /\ IsFiniteSet(Nodes) /\ Approvals \subseteq Nodes
  /\ \A w \in Workflows : /\ w.edges \subseteq Nodes \X Nodes
                           /\ w.deps \in [Nodes -> SUBSET Nodes] /\ w.budget \in Nat
  /\ Cost \in [Nodes -> Nat] /\ DefaultHard \in Nat \ {0}
  /\ None \notin Nodes /\ MaxCalls \in Nat

VARIABLES
  workflow,  \* the definition that is executed
  status,    \* workflow_executions.status
  own,       \* the status in the runner's identity map
  pc,        \* where the runner is
  layers,    \* what the topological sort returned
  at,        \* the layer in turn
  node,      \* state of every node
  raised,    \* a node of the layer ended with an exception
  seen,      \* per caller: the call and the status it has read, or None
  resumed,   \* history: a resume was committed
  calls

vars == <<workflow, status, own, pc, layers, at, node, raised, seen, resumed, calls>>
-----------------------------------------------------------------------------
(* _topological_sort_layers: Kahn's algorithm, layer by layer. *)

\* How many of the nodes in S point to n; an edge that is listed and repeated in
\* depends_on counts twice.
Drawn(g, S, n) == Cardinality({m \in S : <<m, n>> \in g.edges})          \* mutant
Arrows(g, S, n) == Cardinality({m \in S : <<m, n>> \in g.edges}) + Cardinality(g.deps[n] \cap S)

\* The rounds of the loop: the in-degrees that are left, and the queue.
Ripe(left, n) == left[n] = 0
Rounds(g) ==
  LET Round[k \in Nat] ==
        IF k = 0
          THEN LET deg == [n \in Nodes |-> Arrows(g, Nodes, n)]
               IN  [left |-> deg, queue |-> {n \in Nodes : deg[n] = 0}]
          ELSE LET before == Round[k - 1]
                   hit == {n \in Nodes : Arrows(g, before.queue, n) > 0}
                   left == [n \in Nodes |-> before.left[n] - Arrows(g, before.queue, n)]
               IN  [left |-> left, queue |-> {n \in hit : Ripe(left, n)}]
  IN Round

\* The loop ends with an empty queue.
Depth(g) == CHOOSE k \in 0 .. Cardinality(Nodes) :
              Rounds(g)[k].queue = {} /\ \A j \in 0 .. k - 1 : Rounds(g)[j].queue # {}
Trailing(g) == [i \in 1 .. Depth(g) + 1 |-> Rounds(g)[i - 1].queue]     \* mutant
Layers(g) == [i \in 1 .. Depth(g) |-> Rounds(g)[i - 1].queue]

NoCheck(ls) == TRUE                                                    \* mutant
AllScheduled(ls) == UNION {ls[i] : i \in DOMAIN ls} = Nodes
-----------------------------------------------------------------------------
Init ==
  /\ workflow \in Workflows
  /\ status = "pending" /\ own = "pending" /\ pc = "created"
  /\ layers = <<>> /\ at = 1
  /\ node = [n \in Nodes |-> "none"] /\ raised = FALSE
  /\ seen = [c \in Callers |-> None] /\ resumed = FALSE /\ calls = 0

\* The runner's session writes a status.
Write(v) == /\ status' = IF own = v THEN status ELSE v
            /\ own' = v

\* execute_workflow, the beginning of _run_dag; a cycle is a ValueError.
Start ==
  /\ pc = "created"
  /\ Write("running")
  /\ layers' = Layers(workflow)
  /\ pc' = IF AllScheduled(layers') THEN "refresh" ELSE "abort"
  /\ UNCHANGED <<workflow, at, node, raised, seen, resumed, calls>>

\* The head of the loop: refresh, and leave if paused or cancelled.
OnlyCancel == {"cancelled"}                                            \* mutant
Stopped == {"paused", "cancelled"}
Polling ==                                                             \* mutant
  /\ pc = "refresh" /\ at <= Len(layers)
  /\ own' = status
  /\ pc' = IF status = "cancelled" THEN "done" ELSE IF status = "paused" THEN pc ELSE "layer"
  /\ UNCHANGED <<workflow, status, layers, at, node, raised, seen, resumed, calls>>
Refresh ==
  /\ pc = "refresh" /\ at <= Len(layers)
  /\ own' = status
  /\ pc' = IF status \in Stopped THEN "done" ELSE "layer"
  /\ UNCHANGED <<workflow, status, layers, at, node, raised, seen, resumed, calls>>

SpentOn(ns) == SumFunctionOnSet(Cost, {n \in ns : node[n] = "completed"})
HardLimit == IF workflow.budget > 0 THEN workflow.budget ELSE DefaultHard

\* _run_node and _execute_node: the node's row is committed as running.
StartNode(n) ==
  /\ pc = "layer" /\ n \in layers[at] /\ node[n] = "none"
  /\ node' = [node EXCEPT ![n] = "running"]
  /\ UNCHANGED <<workflow, status, own, pc, layers, at, raised, seen, resumed, calls>>

\* _execute_human_approval: the execution is paused, and the node goes on.
Ask(n) ==
  /\ n \in Approvals /\ node[n] = "running"
  /\ Write("paused")
  /\ node' = [node EXCEPT ![n] = "asked"]
  /\ UNCHANGED <<workflow, pc, layers, at, raised, seen, resumed, calls>>

\* The node returns; an agent that answers with an error has returned, too.  The
\* budget tracker may raise: the node was slow, or the limit is reached.
Returning(n) == node[n] = (IF n \in Approvals THEN "asked" ELSE "running")
OnlyAbove(n) == SpentOn(Nodes) + Cost[n] > HardLimit + 1               \* mutant
Exhausts(n) == SpentOn(Nodes) + Cost[n] >= HardLimit
EndNode(n) ==
  /\ Returning(n)
  /\ node' = [node EXCEPT ![n] = "completed"]
  /\ raised' \in {raised \/ Exhausts(n), TRUE}
  /\ UNCHANGED <<workflow, status, own, pc, layers, at, seen, resumed, calls>>

\* It raises: a callback's or a database error, two nodes of the layer in the
\* one AsyncSession they share.
FailNode(n) ==
  /\ node[n] \in {"running", "asked"}
  /\ node' = [node EXCEPT ![n] = "failed"]
  /\ raised' = TRUE
  /\ UNCHANGED <<workflow, status, own, pc, layers, at, seen, resumed, calls>>

\* asyncio.gather has all results of the layer.
LayerEnded == \A n \in layers[at] : node[n] \in {"completed", "failed"}
OverBudget == workflow.budget > 0 /\ SpentOn(Nodes) > workflow.budget
Settle ==
  /\ pc = "layer" /\ LayerEnded
  /\ IF raised \/ OverBudget
       THEN pc' = "abort" /\ UNCHANGED at
       ELSE pc' = "refresh" /\ at' = at + 1
  /\ UNCHANGED <<workflow, status, own, layers, node, raised, seen, resumed, calls>>

Finish(v) ==
  /\ Write(v) /\ pc' = "done"
  /\ UNCHANGED <<workflow, layers, at, node, raised, seen, resumed, calls>>
Abort == pc = "abort" /\ Finish("failed")
Complete == pc = "refresh" /\ at > Len(layers) /\ Finish("completed")
-----------------------------------------------------------------------------
(* pause_execution, resume_execution, cancel_execution: read and check, then *)
(* write.                                                                    *)

Allowed == [pause |-> {"running"}, resume |-> {"paused"},
            cancel |-> {"pending", "running", "paused"}]
Target == [pause |-> "paused", resume |-> "running", cancel |-> "cancelled"]

Read(c, op) ==
  /\ seen[c] = None /\ calls < MaxCalls /\ status \in Allowed[op]
  /\ calls' = calls + 1
  /\ seen' = [seen EXCEPT ![c] = op]
  /\ UNCHANGED <<workflow, status, own, pc, layers, at, node, raised, resumed>>

Commit(c) ==
  /\ seen[c] # None
  /\ status' = Target[seen[c]]
  /\ resumed' = (resumed \/ seen[c] = "resume")
  /\ seen' = [seen EXCEPT ![c] = None]
  /\ UNCHANGED <<workflow, own, pc, layers, at, node, raised, calls>>
-----------------------------------------------------------------------------
Runner == Start \/ Refresh \/ Settle \/ Abort \/ Complete
NodeStep(n) == StartNode(n) \/ Ask(n) \/ EndNode(n) \/ FailNode(n)

Next ==
  \/ Runner
  \/ \E n \in Nodes : NodeStep(n)
  \/ \E c \in Callers : Commit(c) \/ \E op \in DOMAIN Allowed : Read(c, op)

Spec == Init /\ [][Next]_vars

\* The event loop resumes the runner and its nodes; a remote call times out.
\* Nobody has to pause, resume or cancel.
FairSpec == Spec /\ WF_vars(Runner) /\ \A n \in Nodes : WF_vars(NodeStep(n))
-----------------------------------------------------------------------------
TypeOK ==
  /\ workflow \in Workflows
  /\ {status, own} \subseteq {"pending", "running", "paused", "cancelled", "failed", "completed"}
  /\ pc \in {"created", "refresh", "layer", "abort", "done"}
  /\ layers \in Seq((SUBSET Nodes) \ {{}}) /\ at \in 1 .. Len(layers) + 1
  /\ node \in [Nodes -> {"none", "running", "asked", "completed", "failed"}]
  /\ raised \in BOOLEAN /\ resumed \in BOOLEAN
  /\ seen \in [Callers -> DOMAIN Allowed \cup {None}] /\ calls \in 0 .. MaxCalls

Before(n) == {m \in Nodes : <<m, n>> \in workflow.edges} \cup workflow.deps[n]

\* A node starts only after everything it depends on has completed, in every
\* graph; what lies on or behind a cycle never starts.
DependenciesFirst ==
  \A n \in Nodes : node[n] # "none" => \A m \in Before(n) : node[m] = "completed"

\* A completed execution ran every node, and stayed within the budget.
CompletedMeansAllRan ==
  status = "completed" => /\ \A n \in Nodes : node[n] = "completed"
                          /\ SpentOn(Nodes) < HardLimit

\* Money is spent beyond the limit only by the layer that was running when it was
\* reached.
OverspendIsOneLayer ==
  pc = "layer" => SpentOn(UNION {layers[i] : i \in 1 .. at - 1}) < HardLimit

LayerOf(n) == CHOOSE i \in DOMAIN layers : n \in layers[i]

\* Nothing behind a human approval starts before somebody resumed the execution.
ApprovalGate ==
  \A a \in Approvals, n \in Nodes :
    node[a] = "completed" /\ node[n] # "none" /\ LayerOf(n) > LayerOf(a) => resumed

\* Every run ends: no pause, cycle, failure or race keeps the runner for ever.
RunEnds == <>(pc = "done")

\* "pauses for human approval, then continues with the next step": an execution
\* that is shown as running gets on.
RunningGetsOn == status = "running" ~> status # "running"
=============================================================================
