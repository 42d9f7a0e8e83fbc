---------------------------- MODULE TaskTopology ----------------------------
(***************************************************************************)
(* The two graph computations of task_graph.py that everything else rests  *)
(* on: TaskGraph.topological_layers (with its cycle check) and the loop    *)
(* that collects a node and its descendants, in invalidate_from and        *)
(* _mark_descendants_skipped.  A repair does the one after the other; here *)
(* on every dependency relation, cyclic ones included, as the code meets   *)
(* them: a set of edges nobody has ordered yet.                            *)
(***************************************************************************)
EXTENDS Integers, Sequences, FiniteSets

CONSTANTS
  Nodes,     \* the declared nodes; every dependency is declared (validate)
  Order,     \* the order of the tuple TaskGraph.nodes
  Relations  \* the dependency relations considered

ASSUME TopologyAssumption ==
  /\ IsFiniteSet(Nodes) /\ Nodes # {}
  /\ Order \in Seq(Nodes)
  /\ \A n \in Nodes : \E i \in 1..Len(Order) : Order[i] = n
  /\ Relations \subseteq [Nodes -> SUBSET Nodes]

VARIABLES
  deps,         \* node -> the nodes it depends on
  phase,        \* "layers", "cycle", "close" or "closed"
  indegree,     \* as in topological_layers
  remaining,
  layers,
  target,       \* the node to repair
  descendants,  \* as in invalidate_from
  position,     \* the place of its inner loop in Order
  changed

vars == <<deps, phase, indegree, remaining, layers,
          target, descendants, position, changed>>

Init ==
  /\ deps \in Relations
  /\ target = CHOOSE n \in Nodes : TRUE
  /\ phase = "layers"
  /\ indegree = [n \in Nodes |-> Cardinality(deps[n])]
  /\ remaining = Nodes
  /\ layers = <<>>
  /\ descendants = {}
  /\ position = 1
  /\ changed = FALSE

-----------------------------------------------------------------------------
(* topological_layers *)

Ready == {n \in remaining : indegree[n] = 0}

\* Mutant: only direct roots are ever ready, a child is not counted down.
TakeLayerNoCountdown ==
  /\ phase = "layers"
  /\ Ready # {}
  /\ layers' = Append(layers, Ready)
  /\ remaining' = remaining \ Ready
  /\ UNCHANGED <<deps, phase, indegree, target, descendants, position, changed>>

\* Mutant: a child is ready as soon as one of its dependencies is done.
TakeLayerAnyParent ==
  /\ phase = "layers"
  /\ Ready # {}
  /\ layers' = Append(layers, Ready)
  /\ remaining' = remaining \ Ready
  /\ indegree' = [n \in Nodes |-> IF deps[n] \cap Ready # {} THEN 0 ELSE indegree[n]]
  /\ UNCHANGED <<deps, phase, target, descendants, position, changed>>

\* One layer: each ready node leaves, and its children count it down.
TakeLayer ==
  /\ phase = "layers"
  /\ Ready # {}
  /\ layers' = Append(layers, Ready)
  /\ remaining' = remaining \ Ready
  /\ indegree' = [n \in Nodes |-> indegree[n] - Cardinality(deps[n] \cap Ready)]
  /\ UNCHANGED <<deps, phase, target, descendants, position, changed>>

RefuseCycle ==
  /\ phase = "layers"
  /\ remaining # {}
  /\ Ready = {}
  /\ phase' = "cycle"
  /\ UNCHANGED <<deps, indegree, remaining, layers,
                 target, descendants, position, changed>>

\* Only now is the node asked for looked at.
AllLayered ==
  /\ phase = "layers"
  /\ remaining = {}
  /\ phase' = "close"
  /\ target' \in Nodes
  /\ descendants' = {target'}
  /\ position' = 1
  /\ changed' = FALSE
  /\ UNCHANGED <<deps, indegree, remaining, layers>>

-----------------------------------------------------------------------------
(* The descendants loop *)

\* Mutant: a node that is added does not ask for another pass.
ScanOnce ==
  /\ phase = "close"
  /\ position <= Len(Order)
  /\ LET node == Order[position]
         found == node \notin descendants /\ deps[node] \cap descendants # {}
     IN  descendants' = IF found THEN descendants \cup {node} ELSE descendants
  /\ position' = position + 1
  /\ UNCHANGED <<deps, phase, indegree, remaining, layers, target, changed>>

\* Mutant: every node seen asks for another pass.
ScanForever ==
  /\ phase = "close"
  /\ position <= Len(Order)
  /\ LET node == Order[position]
         found == deps[node] \cap descendants # {}
     IN  /\ descendants' = IF found THEN descendants \cup {node} ELSE descendants
         /\ changed' = (changed \/ found)
  /\ position' = position + 1
  /\ UNCHANGED <<deps, phase, indegree, remaining, layers, target>>

\* for node in graph.nodes: a node that depends on a collected one is added.
Scan ==
  /\ phase = "close"
  /\ position <= Len(Order)
  /\ LET node == Order[position]
         found == node \notin descendants /\ deps[node] \cap descendants # {}
     IN  /\ descendants' = IF found THEN descendants \cup {node} ELSE descendants
         /\ changed' = (changed \/ found)
  /\ position' = position + 1
  /\ UNCHANGED <<deps, phase, indegree, remaining, layers, target>>

\* while changed: another pass, or the loop ends.
EndOfPass ==
  /\ phase = "close"
  /\ position > Len(Order)
  /\ phase' = IF changed THEN "close" ELSE "closed"
  /\ position' = 1
  /\ changed' = FALSE
  /\ UNCHANGED <<deps, indegree, remaining, layers, target, descendants>>

Next == TakeLayer \/ RefuseCycle \/ AllLayered \/ Scan \/ EndOfPass

Spec == Init /\ [][Next]_vars

\* A sequential computation takes its next step.
FairSpec == Spec /\ WF_vars(Next)

-----------------------------------------------------------------------------
(* Reference definitions *)

Before(i) == UNION {layers[j] : j \in 1..(i - 1)}

\* A nonempty set in which every node waits for another of the set
Deadlocked(S) == S # {} /\ \A n \in S : deps[n] \cap S # {}

Cyclic == \E S \in SUBSET Nodes : Deadlocked(S)

\* The least set that holds n and, with a node, all its dependents
DependentsClosed(S) == \A k \in Nodes : deps[k] \cap S # {} => k \in S
Reach(n) == {m \in Nodes : \A S \in SUBSET Nodes :
                              n \in S /\ DependentsClosed(S) => m \in S}

-----------------------------------------------------------------------------
(* Properties *)

\* Every layer of topological_layers holds exactly the nodes all of whose
\* dependencies are in earlier layers: nothing too early (execute would skip
\* it) and nothing later than it could run.
LayersExact ==
  \A i \in 1..Len(layers) :
     layers[i] = {n \in Nodes \ Before(i) : deps[n] \subseteq Before(i)}

\* task_graph_cycle is raised for cyclic graphs and for no other, although the
\* code only counts incoming edges.
CycleExact ==
  /\ phase = "cycle" => Deadlocked(remaining)
  /\ phase \in {"close", "closed"} => ~ Cyclic

\* The collected set never leaves the descendants of the target, and is all of
\* them when the loop ends, whatever the declared order of the nodes.
DescendantsExact ==
  /\ descendants \subseteq Reach(target)
  /\ phase = "closed" => descendants = Reach(target)

\* Both loops end, on cyclic graphs too.
Terminates == <>(phase \in {"cycle", "closed"})

-----------------------------------------------------------------------------
(* The inductive invariant behind them *)

TypeOK ==
  /\ deps \in [Nodes -> SUBSET Nodes]
  /\ phase \in {"layers", "cycle", "close", "closed"}
  /\ indegree \in [Nodes -> Int]
  /\ remaining \in SUBSET Nodes
  /\ layers \in Seq(SUBSET Nodes)
  /\ target \in Nodes
  /\ descendants \in SUBSET Nodes
  /\ position \in Nat \ {0}
  /\ changed \in BOOLEAN

\* What the counters of topological_layers count.
Counted == \A n \in Nodes : indegree[n] = Cardinality(deps[n] \cap remaining)

Taken == Before(Len(layers) + 1) = Nodes \ remaining

\* No set of nodes that wait for one another ever loses a node.
Preserved == \A S \in SUBSET Nodes : Deadlocked(S) => S \subseteq remaining

\* In a pass that has changed nothing, the nodes seen are settled.
Settled ==
  phase = "close" /\ ~ changed =>
     \A i \in 1..Len(Order) :
        i < position /\ deps[Order[i]] \cap descendants # {} =>
           Order[i] \in descendants

LoopInv ==
  /\ phase \in {"close", "closed"} => remaining = {} /\ target \in descendants
  /\ phase = "cycle" => Ready = {} /\ remaining # {}
  /\ descendants \subseteq Reach(target)
  /\ Settled
  /\ phase = "closed" => DependentsClosed(descendants)

IInv == TypeOK /\ Counted /\ Taken /\ LayersExact /\ Preserved /\ LoopInv
=============================================================================
