------------------------- MODULE TaskTopologyProofs -------------------------
(***************************************************************************)
(* Proofs about the layering and the descendants loop, for every finite    *)
(* set of nodes, every declared order and every dependency relation.       *)
(***************************************************************************)
EXTENDS TaskTopology, FiniteSetTheorems, TLAPS

\* Taking a part of a finite set away takes its elements off the count.
LEMMA CountDown ==
  ASSUME NEW S, NEW T \in SUBSET S, IsFiniteSet(S)
  PROVE  Cardinality(S \ T) = Cardinality(S) - Cardinality(T)
  <1>1. IsFiniteSet(T) /\ IsFiniteSet(S \ T)
    BY FS_Subset
  <1>2. S \ (S \ T) = T /\ S \cap T = T
    OBVIOUS
  <1>3. Cardinality(S \ T) = Cardinality(S) - Cardinality(S \cap T)
    BY FS_Difference
  <1>4. QED
    BY <1>2, <1>3

\* A node is ready exactly when none of its dependencies remains.
LEMMA ReadyMeans ==
  ASSUME IInv
  PROVE  Ready = {n \in remaining : deps[n] \cap remaining = {}}
  <1>1. ASSUME NEW n \in Nodes
        PROVE  indegree[n] = 0 <=> deps[n] \cap remaining = {}
    <2>1. deps[n] \cap remaining \in SUBSET Nodes
      BY DEF IInv, TypeOK
    <2>2. IsFiniteSet(deps[n] \cap remaining)
      BY <2>1, FS_Subset, TopologyAssumption
    <2>3. QED
      BY <2>2, FS_EmptySet DEF IInv, Counted
  <1>2. QED
    BY <1>1 DEF Ready, IInv, TypeOK

LEMMA InitInv == Init => IInv
  <1> SUFFICES ASSUME Init PROVE IInv
    OBVIOUS
  <1>1. deps \in [Nodes -> SUBSET Nodes]
    BY TopologyAssumption DEF Init
  <1>2. \A n \in Nodes : Cardinality(deps[n]) \in Nat
    BY <1>1, FS_Subset, FS_CardinalityType, TopologyAssumption
  <1>3. TypeOK
    <2>1. target \in Nodes
      BY TopologyAssumption DEF Init
    <2>2. layers \in Seq(SUBSET Nodes)
      BY DEF Init
    <2>3. indegree \in [Nodes -> Int]
      BY <1>2 DEF Init
    <2>4. changed \in BOOLEAN
      BY DEF Init
    <2>5. position \in Nat \ {0} /\ remaining \in SUBSET Nodes /\ descendants \in SUBSET Nodes
      BY DEF Init
    <2>6. phase \in {"layers", "cycle", "close", "closed"}
      BY DEF Init
    <2>7. QED
      BY <1>1, <2>1, <2>2, <2>3, <2>4, <2>5, <2>6 DEF TypeOK
  <1>4. Counted
    <2>1. \A n \in Nodes : deps[n] \cap Nodes = deps[n]
      BY <1>1
    <2>2. QED
      BY <2>1 DEF Init, Counted
  <1>5. Len(layers) = 0
    BY DEF Init
  <1>6. Taken /\ LayersExact
    BY <1>5 DEF Init, Taken, LayersExact, Before
  <1>7. Preserved /\ LoopInv
    BY DEF Init, Preserved, LoopInv, Settled
  <1>8. QED
    BY <1>3, <1>4, <1>6, <1>7 DEF IInv

LEMMA TakeLayerInv ==
  ASSUME IInv, TakeLayer
  PROVE  IInv'
  <1>1. /\ layers \in Seq(SUBSET Nodes) /\ Ready \in SUBSET Nodes /\ Ready \subseteq remaining
        /\ layers' = Append(layers, Ready) /\ remaining' = remaining \ Ready
        /\ deps' = deps /\ deps \in [Nodes -> SUBSET Nodes] /\ remaining \in SUBSET Nodes
        /\ phase' = phase /\ phase = "layers"
    BY DEF TakeLayer, IInv, TypeOK, Ready
  <1>2. /\ layers' \in Seq(SUBSET Nodes) /\ Len(layers') = Len(layers) + 1
        /\ \A i \in 1..Len(layers) : layers'[i] = layers[i]
        /\ layers'[Len(layers) + 1] = Ready /\ Len(layers) \in Nat
    BY <1>1
  <1>3. \A n \in Nodes : Cardinality(deps[n] \cap Ready) \in Nat
    BY <1>1, FS_Subset, FS_CardinalityType, TopologyAssumption
  <1>4. TypeOK'
    <2>1. indegree' \in [Nodes -> Int]
      <3>1. indegree' = [n \in Nodes |-> indegree[n] - Cardinality(deps[n] \cap Ready)]
        BY DEF TakeLayer
      <3>2. \A n \in Nodes : indegree[n] \in Int
        BY DEF IInv, TypeOK
      <3>3. \A n \in Nodes : indegree[n] - Cardinality(deps[n] \cap Ready) \in Int
        BY <1>3, <3>2
      <3> QED
        BY <3>1, <3>3
    <2>2. remaining' \in SUBSET Nodes /\ layers' \in Seq(SUBSET Nodes)
      BY <1>1, <1>2
    <2> QED
      BY <1>1, <2>1, <2>2 DEF TakeLayer, IInv, TypeOK
  <1>5. Counted'
    <2> SUFFICES ASSUME NEW n \in Nodes
                 PROVE  indegree'[n] = Cardinality(deps[n] \cap remaining')
      BY <1>1 DEF Counted
    <2>1. /\ deps[n] \cap Ready \in SUBSET (deps[n] \cap remaining)
          /\ deps[n] \cap remaining' = (deps[n] \cap remaining) \ (deps[n] \cap Ready)
      BY <1>1
    <2>2. IsFiniteSet(deps[n] \cap remaining)
      BY <1>1, FS_Subset, TopologyAssumption
    <2>3. indegree'[n] = indegree[n] - Cardinality(deps[n] \cap Ready)
      BY DEF TakeLayer
    <2>4. QED
      BY <2>1, <2>2, <2>3, CountDown DEF IInv, Counted
  <1>6. \A i \in 1..(Len(layers) + 1) : Before(i)' = Before(i)
    <2> SUFFICES ASSUME NEW i \in 1..(Len(layers) + 1)
                 PROVE  Before(i)' = Before(i)
      OBVIOUS
    <2>1. \A j \in 1..(i - 1) : layers'[j] = layers[j]
      BY <1>2
    <2> QED
      BY <2>1 DEF Before
  <1>7. Before(Len(layers) + 1) = Nodes \ remaining
    BY DEF IInv, Taken
  <1>8. Taken'
    <2>1. PICK k \in Nat : k = Len(layers)
      BY <1>2
    <2>2. Before(k + 2)' = Before(k + 1)' \cup Ready
      <3>1. 1..((k + 2) - 1) = 1..k \cup {k + 1} /\ 1..((k + 1) - 1) = 1..k
        OBVIOUS
      <3>2. layers'[k + 1] = Ready
        BY <1>2, <2>1
      <3>3. QED
        BY <3>1, <3>2 DEF Before
    <2>3. Before(k + 1)' = Nodes \ remaining
      BY <1>6, <1>7, <2>1
    <2>4. Before(k + 2)' = Nodes \ remaining'
      BY <1>1, <2>2, <2>3
    <2>5. Len(layers') + 1 = k + 2
      BY <1>2, <2>1
    <2>6. QED
      BY <2>4, <2>5 DEF Taken
  <1>9. LayersExact'
    <2> SUFFICES ASSUME NEW i \in 1..(Len(layers) + 1)
                 PROVE  layers'[i] = {n \in Nodes \ Before(i) : deps[n] \subseteq Before(i)}
      BY <1>1, <1>2, <1>6 DEF LayersExact
    <2>1. CASE i \in 1..Len(layers)
      BY <1>2, <2>1 DEF IInv, LayersExact
    <2>2. CASE i = Len(layers) + 1
      BY <1>1, <1>2, <1>7, <2>2, ReadyMeans
    <2>3. QED
      BY <1>2, <2>1, <2>2
  <1>10. Preserved'
    <2> SUFFICES ASSUME NEW S \in SUBSET Nodes, Deadlocked(S)
                 PROVE  S \subseteq remaining'
      BY <1>1 DEF Preserved, Deadlocked
    <2>1. S \subseteq remaining
      BY DEF IInv, Preserved
    <2>2. S \cap Ready = {}
      BY <2>1, ReadyMeans DEF Deadlocked
    <2>3. QED
      BY <1>1, <2>1, <2>2
  <1>11. LoopInv'
    BY <1>1 DEF TakeLayer, IInv, LoopInv, Settled, Reach, DependentsClosed
  <1>12. QED
    BY <1>4, <1>5, <1>8, <1>9, <1>10, <1>11 DEF IInv

\* The layering is left as it is by every later step.
LEMMA LayeringKept ==
  ASSUME IInv, UNCHANGED <<deps, indegree, remaining, layers>>
  PROVE  Counted' /\ Taken' /\ LayersExact' /\ Preserved'
  BY DEF IInv, Counted, Taken, LayersExact, Preserved, Before, Deadlocked

LEMMA RefuseCycleInv ==
  ASSUME IInv, RefuseCycle
  PROVE  IInv'
  <1>1. TypeOK'
    BY DEF RefuseCycle, IInv, TypeOK
  <1>2. LoopInv'
    BY DEF RefuseCycle, IInv, LoopInv, Settled, Reach, DependentsClosed, Ready
  <1>3. QED
    BY <1>1, <1>2, LayeringKept DEF RefuseCycle, IInv

LEMMA AllLayeredInv ==
  ASSUME IInv, AllLayered
  PROVE  IInv'
  <1>1. TypeOK'
    <2>1. changed' \in BOOLEAN
      BY DEF AllLayered
    <2>2. QED
      BY <2>1 DEF AllLayered, IInv, TypeOK
  <1>2. descendants' \subseteq Reach(target)'
    BY DEF AllLayered, Reach
  <1>3. LoopInv'
    BY <1>2 DEF AllLayered, IInv, TypeOK, LoopInv, Settled
  <1>4. QED
    BY <1>1, <1>3, LayeringKept DEF AllLayered, IInv

\* A node found by the loop is a descendant.
LEMMA FoundIsReached ==
  ASSUME NEW n \in Nodes, NEW D, D \subseteq Reach(target), deps[n] \cap D # {}
  PROVE  n \in Reach(target)
  BY DEF Reach, DependentsClosed

LEMMA ScanInv ==
  ASSUME IInv, Scan
  PROVE  IInv'
  <1> DEFINE node == Order[position]
             found == node \notin descendants /\ deps[node] \cap descendants # {}
  <1>1. /\ position \in 1..Len(Order) /\ node \in Nodes /\ phase = "close"
        /\ Len(Order) \in Nat
    <2>1. Len(Order) \in Nat /\ \A i \in 1..Len(Order) : Order[i] \in Nodes
      BY TopologyAssumption
    <2>2. position \in Nat \ {0} /\ position <= Len(Order) /\ phase = "close"
      BY DEF Scan, IInv, TypeOK
    <2>3. position \in 1..Len(Order)
      BY <2>1, <2>2
    <2>4. QED
      BY <2>1, <2>2, <2>3
  <1>2. /\ descendants' = IF found THEN descendants \cup {node} ELSE descendants
        /\ changed' = (changed \/ found)
        /\ position' = position + 1
        /\ UNCHANGED <<deps, phase, indegree, remaining, layers, target>>
    BY DEF Scan
  <1>3. TypeOK'
    BY <1>1, <1>2 DEF IInv, TypeOK
  <1>4. descendants' \subseteq Reach(target)
    BY <1>1, <1>2, FoundIsReached DEF IInv, LoopInv
  <1>5. Reach(target)' = Reach(target)
    BY <1>2 DEF Reach, DependentsClosed
  <1>6. Settled'
    <2> SUFFICES ASSUME ~ changed', NEW i \in 1..Len(Order), i < position + 1,
                        deps[Order[i]] \cap descendants # {}
                 PROVE  Order[i] \in descendants
      BY <1>2 DEF Settled
    <2>1. ~ changed /\ ~ found
      BY <1>2
    <2>2. CASE i = position
      BY <2>1, <2>2
    <2>3. CASE i < position
      BY <1>1, <2>1, <2>3 DEF IInv, LoopInv, Settled
    <2>4. QED
      BY <1>1, <2>2, <2>3
  <1>7. LoopInv'
    BY <1>1, <1>2, <1>4, <1>5, <1>6 DEF IInv, LoopInv
  <1>8. QED
    BY <1>2, <1>3, <1>7, LayeringKept DEF IInv

LEMMA EndOfPassInv ==
  ASSUME IInv, EndOfPass
  PROVE  IInv'
  <1>1. TypeOK'
    <2>1. changed' \in BOOLEAN
      BY DEF EndOfPass
    <2>2. QED
      BY <2>1 DEF EndOfPass, IInv, TypeOK
  <1>2. Reach(target)' = Reach(target)
    BY DEF EndOfPass, Reach, DependentsClosed
  <1>3. phase' = "closed" => DependentsClosed(descendants)'
    <2> SUFFICES ASSUME ~ changed, NEW n \in Nodes, deps[n] \cap descendants # {}
                 PROVE  n \in descendants
      BY DEF EndOfPass, DependentsClosed, IInv, TypeOK
    <2>1. PICK i \in 1..Len(Order) : Order[i] = n
      BY TopologyAssumption
    <2>2. i < position /\ phase = "close"
      BY TopologyAssumption DEF EndOfPass, IInv, TypeOK
    <2>3. QED
      BY <2>1, <2>2 DEF IInv, LoopInv, Settled
  <1>4. LoopInv'
    BY <1>2, <1>3 DEF EndOfPass, IInv, LoopInv, Settled
  <1>5. QED
    BY <1>1, <1>4, LayeringKept DEF EndOfPass, IInv

\* The invariant of both loops.
THEOREM Invariance == Spec => []IInv
  <1>1. IInv /\ [Next]_vars => IInv'
    <2> SUFFICES ASSUME IInv, [Next]_vars PROVE IInv'
      OBVIOUS
    <2>1. CASE UNCHANGED vars
      <3>1. TypeOK' /\ LoopInv'
        BY <2>1 DEF vars, IInv, TypeOK, LoopInv, Settled, Reach, DependentsClosed, Ready
      <3>2. QED
        BY <2>1, <3>1, LayeringKept DEF vars, IInv
    <2>2. QED
      BY <2>1, TakeLayerInv, RefuseCycleInv, AllLayeredInv, ScanInv, EndOfPassInv DEF Next
  <1>2. QED
    BY <1>1, InitInv, PTL DEF Spec

\* topological_layers puts every node in the first layer in which all its
\* dependencies are behind it: what execute's barrier between layers needs.
THEOREM Layering == Spec => []LayersExact
  <1>1. IInv => LayersExact
    BY DEF IInv
  <1>2. QED
    BY <1>1, Invariance, PTL

\* A graph is refused exactly when it has a cycle.
THEOREM CycleDetection == Spec => []CycleExact
  <1>1. ASSUME IInv, phase = "cycle"
        PROVE  Deadlocked(remaining)
    BY <1>1, ReadyMeans DEF IInv, LoopInv, Deadlocked
  <1>2. ASSUME IInv, phase \in {"close", "closed"}
        PROVE  ~ Cyclic
    BY <1>2 DEF IInv, LoopInv, Preserved, Cyclic, Deadlocked
  <1>3. IInv => CycleExact
    BY <1>1, <1>2 DEF CycleExact
  <1>4. QED
    BY <1>3, Invariance, PTL

\* The loop collects the descendants of the repaired node, no more and no
\* fewer, in whatever order the nodes are declared.
THEOREM DescendantsLoop == Spec => []DescendantsExact
  <1>1. ASSUME IInv, phase = "closed"
        PROVE  Reach(target) \subseteq descendants
    BY <1>1 DEF IInv, TypeOK, LoopInv, Reach
  <1>2. IInv => DescendantsExact
    BY <1>1 DEF IInv, LoopInv, DescendantsExact
  <1>3. QED
    BY <1>2, Invariance, PTL
=============================================================================
