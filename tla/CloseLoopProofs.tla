--------------------------- MODULE CloseLoopProofs ---------------------------
(***************************************************************************)
(* The close loop for all cases, contracts and numbers of commands.        *)
(*                                                                         *)
(* The argument: in memory and in the checkpoint, a node that has passed   *)
(* stands on dependencies that have passed and on what they delivered      *)
(* (NodeSound).  A publication therefore goes back, through the gate and   *)
(* the merge, to a passed worker of every selected case, and an execution  *)
(* reports PASS only when nothing is left to be run.                       *)
(***************************************************************************)
EXTENDS CloseLoop, TLAPS

-----------------------------------------------------------------------------
(* The compiled graph of a selection *)

\* The kinds of nodes are told apart by their names.
LEMMA GraphNames ==
  ASSUME NEW S
  PROVE  LET one == {Graph(S)!Context, Graph(S)!Compile, Graph(S)!Merge, Graph(S)!Gate,
                     Graph(S)!Publish}
         IN  /\ one \cap (Graph(S)!Executes \cup Graph(S)!Verifies) = {}
             /\ Graph(S)!Executes \cap Graph(S)!Verifies = {}
             /\ Graph(S)!Context # Graph(S)!Compile /\ Graph(S)!Context # Graph(S)!Merge
             /\ Graph(S)!Context # Graph(S)!Gate /\ Graph(S)!Context # Graph(S)!Publish
             /\ Graph(S)!Compile # Graph(S)!Merge /\ Graph(S)!Compile # Graph(S)!Gate
             /\ Graph(S)!Compile # Graph(S)!Publish /\ Graph(S)!Merge # Graph(S)!Gate
             /\ Graph(S)!Merge # Graph(S)!Publish /\ Graph(S)!Gate # Graph(S)!Publish
  <1>1. /\ Graph(S)!Context[1] = "context.build" /\ Graph(S)!Compile[1] = "contract.compile"
        /\ Graph(S)!Merge[1] = "merge.results" /\ Graph(S)!Gate[1] = "gate.publish"
        /\ Graph(S)!Publish[1] = "publish.publish"
    BY DEF Graph!Context, Graph!Compile, Graph!Merge, Graph!Gate, Graph!Publish, Graph!Whole
  <1>2. \A n \in Graph(S)!Executes : n[1] = "execute"
    BY DEF Graph!Executes, Graph!Execute
  <1>3. \A n \in Graph(S)!Verifies : n[1] = "verify"
    BY DEF Graph!Verifies, Graph!Verify
  <1>4. QED
    BY <1>1, <1>2, <1>3

\* Workers and verifiers belong to one case each, the other nodes to none.
LEMMA CaseNodes ==
  ASSUME NEW S
  PROVE  /\ \A c \in S : /\ Graph(S)!Execute(c) \in Graph(S)!Executes
                         /\ Graph(S)!Verify(c) \in Graph(S)!Verifies
                         /\ Graph(S)!Execute(c)[2] = c
                         /\ Graph(S)!Verify(c)[2] = c
         /\ \A n \in Graph(S)!Executes : n[2] \in S /\ n = Graph(S)!Execute(n[2])
         /\ \A n \in Graph(S)!Verifies : n[2] \in S /\ n = Graph(S)!Verify(n[2])
         /\ Graph(S)!Context[2] = "" /\ Graph(S)!Compile[2] = "" /\ Graph(S)!Merge[2] = ""
         /\ Graph(S)!Gate[2] = "" /\ Graph(S)!Publish[2] = ""
  <1>1. /\ \A c \in S : /\ Graph(S)!Execute(c) \in Graph(S)!Executes
                         /\ Graph(S)!Verify(c) \in Graph(S)!Verifies
                         /\ Graph(S)!Execute(c)[2] = c
                         /\ Graph(S)!Verify(c)[2] = c
    BY DEF Graph!Executes, Graph!Verifies, Graph!Execute, Graph!Verify
  <1>2. /\ \A n \in Graph(S)!Executes : n[2] \in S /\ n = Graph(S)!Execute(n[2])
        /\ \A n \in Graph(S)!Verifies : n[2] \in S /\ n = Graph(S)!Verify(n[2])
    BY DEF Graph!Executes, Graph!Verifies, Graph!Execute, Graph!Verify
  <1>3. /\ Graph(S)!Context[2] = "" /\ Graph(S)!Compile[2] = "" /\ Graph(S)!Merge[2] = ""
         /\ Graph(S)!Gate[2] = "" /\ Graph(S)!Publish[2] = ""
    BY DEF Graph!Context, Graph!Compile, Graph!Merge, Graph!Gate, Graph!Publish, Graph!Whole
  <1>4. QED
    BY <1>1, <1>2, <1>3

LEMMA OfCase ==
  ASSUME NEW S, NEW c \in S
  PROVE  /\ Graph(S)!Execute(c) \in Graph(S)!Executes
         /\ Graph(S)!Verify(c) \in Graph(S)!Verifies
         /\ Graph(S)!Execute(c)[2] = c
         /\ Graph(S)!Verify(c)[2] = c
  BY CaseNodes

LEMMA GraphDependencies ==
  ASSUME NEW S
  PROVE  /\ Graph(S)!DependsOn(Graph(S)!Context) = {}
         /\ Graph(S)!DependsOn(Graph(S)!Compile) = {Graph(S)!Context}
         /\ \A n \in Graph(S)!Executes : Graph(S)!DependsOn(n) = {Graph(S)!Compile}
         /\ \A c \in S : Graph(S)!DependsOn(Graph(S)!Verify(c)) = {Graph(S)!Execute(c)}
         /\ Graph(S)!DependsOn(Graph(S)!Merge) = IF S = {} THEN {Graph(S)!Compile} ELSE Graph(S)!Verifies
         /\ Graph(S)!DependsOn(Graph(S)!Gate) = {Graph(S)!Merge}
         /\ Graph(S)!DependsOn(Graph(S)!Publish) = {Graph(S)!Merge, Graph(S)!Gate}
  <1>1. \A c \in S : Graph(S)!Verify(c) \in Graph(S)!Verifies /\ Graph(S)!Verify(c)[2] = c
    BY CaseNodes
  <1>2. QED
    BY <1>1, GraphNames DEF Graph!DependsOn

LEMMA VerifierDependency ==
  ASSUME NEW S, NEW c \in S
  PROVE  Graph(S)!DependsOn(Graph(S)!Verify(c)) = {Graph(S)!Execute(c)}
  BY GraphDependencies

LEMMA GraphLayers ==
  ASSUME NEW S
  PROVE  /\ Graph(S)!LayerOf(Graph(S)!Context) = 0
         /\ Graph(S)!LayerOf(Graph(S)!Compile) = 1
         /\ \A n \in Graph(S)!Executes : Graph(S)!LayerOf(n) = 2
         /\ \A n \in Graph(S)!Verifies : Graph(S)!LayerOf(n) = 3
         /\ Graph(S)!LayerOf(Graph(S)!Merge) = IF S = {} THEN 2 ELSE 4
         /\ Graph(S)!LayerOf(Graph(S)!Gate) = Graph(S)!LayerOf(Graph(S)!Merge) + 1
         /\ Graph(S)!LayerOf(Graph(S)!Publish) = Graph(S)!LayerOf(Graph(S)!Merge) + 2
  BY GraphNames DEF Graph!LayerOf

\* Dependencies are nodes of the graph and lie in lower layers.
LEMMA Edges ==
  ASSUME NEW S, NEW n \in Graph(S)!CompiledNodes
  PROVE  /\ Graph(S)!LayerOf(n) \in Nat
         /\ \A d \in Graph(S)!DependsOn(n) :
               /\ d \in Graph(S)!CompiledNodes
               /\ Graph(S)!LayerOf(d) \in Nat
               /\ Graph(S)!LayerOf(d) < Graph(S)!LayerOf(n)
  <1> DEFINE Least(k) == /\ Graph(S)!LayerOf(k) \in Nat
                         /\ \A d \in Graph(S)!DependsOn(k) :
                               /\ d \in Graph(S)!CompiledNodes
                               /\ Graph(S)!LayerOf(d) \in Nat
                               /\ Graph(S)!LayerOf(d) < Graph(S)!LayerOf(k)
  <1>1. Least(Graph(S)!Context) /\ Least(Graph(S)!Compile)
    BY GraphDependencies, GraphLayers DEF Graph!CompiledNodes
  <1>2. ASSUME NEW k \in Graph(S)!Executes PROVE Least(k)
    BY GraphDependencies, GraphLayers DEF Graph!CompiledNodes
  <1>3. ASSUME NEW k \in Graph(S)!Verifies PROVE Least(k)
    <2>1. PICK c \in S : k = Graph(S)!Verify(c)
      BY DEF Graph!Verifies
    <2>2. Graph(S)!DependsOn(k) = {Graph(S)!Execute(c)} /\ Graph(S)!Execute(c) \in Graph(S)!Executes
      <3>1. Graph(S)!DependsOn(k) = {Graph(S)!Execute(c)}
        BY <2>1, VerifierDependency
      <3>2. QED
        BY <3>1, CaseNodes
    <2>3. QED
      BY <2>2, GraphLayers DEF Graph!CompiledNodes
  <1>4. Least(Graph(S)!Merge)
    BY GraphDependencies, GraphLayers DEF Graph!CompiledNodes
  <1>5. Least(Graph(S)!Gate)
    BY <1>4, GraphDependencies, GraphLayers DEF Graph!CompiledNodes
  <1>6. Least(Graph(S)!Publish)
    BY <1>4, <1>5, GraphDependencies, GraphLayers DEF Graph!CompiledNodes
  <1>7. QED
    BY <1>1, <1>2, <1>3, <1>4, <1>5, <1>6 DEF Graph!CompiledNodes

\* Whatever depends on an invalidated node is invalidated.
LEMMA DescendantsClosed ==
  ASSUME NEW S, NEW n \in Graph(S)!CompiledNodes, NEW m \in Graph(S)!CompiledNodes,
         NEW d \in Graph(S)!DependsOn(m), d \in Graph(S)!Descendants(n)
  PROVE  m \in Graph(S)!Descendants(n)
  <1>1. Graph(S)!LayerOf(n) < Graph(S)!LayerOf(m)
    <2>1. /\ Graph(S)!LayerOf(n) \in Nat /\ Graph(S)!LayerOf(m) \in Nat
          /\ Graph(S)!LayerOf(d) \in Nat /\ Graph(S)!LayerOf(d) < Graph(S)!LayerOf(m)
      BY Edges
    <2>2. n = d \/ Graph(S)!LayerOf(n) < Graph(S)!LayerOf(d)
      BY DEF Graph!Descendants
    <2>3. QED
      BY <2>1, <2>2
  <1>2. m[2] = "" \/ d[2] = m[2] \/ d = Graph(S)!Compile
    <2>1. CASE m \in Graph(S)!Executes
      <3>1. d = Graph(S)!Compile
        BY <2>1, GraphDependencies
      <3>2. QED
        BY <3>1
    <2>2. CASE m \in Graph(S)!Verifies
      <3>1. PICK c \in S : m = Graph(S)!Verify(c)
        BY <2>2 DEF Graph!Verifies
      <3>2. d = Graph(S)!Execute(c)
        BY <3>1, VerifierDependency
      <3>3. d[2] = m[2]
        BY <3>1, <3>2 DEF Graph!Execute, Graph!Verify
      <3>4. QED
        BY <3>3
    <2>3. QED
      BY <2>1, <2>2, CaseNodes DEF Graph!CompiledNodes
  <1>3. n[2] = d[2] \/ n[2] = "" \/ d[2] = ""
    BY DEF Graph!Descendants
  <1>4. CASE d = Graph(S)!Compile
    <2>1. n = d \/ Graph(S)!LayerOf(n) < 1
      BY <1>4, GraphLayers DEF Graph!Descendants
    <2>2. n = d \/ n = Graph(S)!Context
      BY <2>1, GraphLayers DEF Graph!CompiledNodes
    <2>3. n[2] = ""
      BY <2>2, <1>4, CaseNodes
    <2>4. QED
      BY <2>3, <1>1 DEF Graph!Descendants
  <1>5. QED
    BY <1>1, <1>2, <1>3, <1>4 DEF Graph!Descendants

\* Selected is the domain of the contracts of the command under way.
LEMMA SelectedGraph ==
  /\ Q!Executes = Graph(Selected)!Executes
  /\ Q!Verifies = Graph(Selected)!Verifies
  /\ Q!Context = Graph(Selected)!Context
  /\ Q!Compile = Graph(Selected)!Compile
  /\ Q!Merge = Graph(Selected)!Merge
  /\ Q!Gate = Graph(Selected)!Gate
  /\ Q!Publish = Graph(Selected)!Publish
  /\ \A n : Q!DependsOn(n) = Graph(Selected)!DependsOn(n)
  /\ \A n : Q!LayerOf(n) = Graph(Selected)!LayerOf(n)
  <1>1. /\ Q!Executes = Graph(Selected)!Executes
        /\ Q!Verifies = Graph(Selected)!Verifies
    BY DEF Q!Executes, Q!Verifies, Graph!Executes, Graph!Verifies, Q!Execute, Q!Verify,
           Graph!Execute, Graph!Verify
  <1>2. /\ Q!Context = Graph(Selected)!Context
        /\ Q!Compile = Graph(Selected)!Compile
        /\ Q!Merge = Graph(Selected)!Merge
        /\ Q!Gate = Graph(Selected)!Gate
        /\ Q!Publish = Graph(Selected)!Publish
    BY DEF Q!Context, Q!Compile, Q!Merge, Q!Gate, Q!Publish, Q!Whole, Graph!Context,
           Graph!Compile, Graph!Merge, Graph!Gate, Graph!Publish, Graph!Whole
  <1>3. \A c : Q!Execute(c) = Graph(Selected)!Execute(c)
    BY DEF Q!Execute, Graph!Execute
  <1>4. \A n : Q!DependsOn(n) = Graph(Selected)!DependsOn(n)
    BY <1>1, <1>2, <1>3 DEF Q!DependsOn, Graph!DependsOn
  <1>5. \A n : Q!LayerOf(n) = Graph(Selected)!LayerOf(n)
    BY <1>1, <1>2, <1>3 DEF Q!LayerOf, Graph!LayerOf
  <1>6. QED
    BY <1>1, <1>2, <1>4, <1>5

-----------------------------------------------------------------------------
(* Executions of the graph *)

\* What a node that has passed stands on: its dependencies, and nothing else.
NodeSound(pinned, nodes, n) ==
  LET S == DOMAIN pinned
      inputs == UNION {nodes[d].results : d \in Graph(S)!DependsOn(n)}
  IN  /\ \A d \in Graph(S)!DependsOn(n) : nodes[d].status = "PASS"
      /\ n = Graph(S)!Compile => nodes[n].results = {}
      /\ n \in Graph(S)!Executes =>
           \E r \in Result : /\ nodes[n].results = {r}
                             /\ r.case = n[2]
                             /\ r.contract = pinned[n[2]]
      /\ n \in Graph(S)!Verifies \cup {Graph(S)!Merge} => nodes[n].results = inputs
      /\ n = Graph(S)!Merge => \E dry \in BOOLEAN : nodes[n].outcome = TestOutcome(inputs, dry)
      /\ n = Graph(S)!Gate => nodes[Graph(S)!Merge].outcome = "PASS"

Sound(pinned, nodes) ==
  \A n \in NodesOf(pinned) : nodes[n].status = "PASS" => NodeSound(pinned, nodes, n)

\* The soundness of a node depends on its own record and on those of its
\* dependencies.
LEMMA SoundLocally ==
  ASSUME NEW pinned, NEW old, NEW new, NEW n \in NodesOf(pinned),
         NodeSound(pinned, old, n), new[n] = old[n],
         \A d \in Graph(DOMAIN pinned)!DependsOn(n) : new[d] = old[d]
  PROVE  NodeSound(pinned, new, n)
  <1> DEFINE S == DOMAIN pinned
  <1>1. UNION {new[d].results : d \in Graph(S)!DependsOn(n)}
          = UNION {old[d].results : d \in Graph(S)!DependsOn(n)}
    OBVIOUS
  <1>2. n = Graph(S)!Gate => Graph(S)!Merge \in Graph(S)!DependsOn(n)
    BY GraphDependencies
  <1>3. QED
    BY <1>1, <1>2 DEF NodeSound

\* Replacing records keeps an execution sound if every node that passes then is
\* sound on its own or was so before, on the same inputs.
LEMMA Replaced ==
  ASSUME NEW pinned, NEW old, NEW new, Sound(pinned, old),
         \A n \in NodesOf(pinned) :
            new[n].status = "PASS" =>
              \/ NodeSound(pinned, new, n)
              \/ /\ new[n] = old[n]
                 /\ \A d \in Graph(DOMAIN pinned)!DependsOn(n) : new[d] = old[d]
  PROVE  Sound(pinned, new)
  BY SoundLocally DEF Sound

\* The results of workers that have all passed.
LEMMA WorkersPassed ==
  ASSUME NEW pinned, NEW nodes, Sound(pinned, nodes),
         \A n \in Graph(DOMAIN pinned)!Executes : nodes[n].status = "PASS"
  PROVE  LET results == UNION {nodes[n].results : n \in Graph(DOMAIN pinned)!Executes}
         IN  /\ \A c \in DOMAIN pinned : \E r \in results : r.case = c
             /\ \A r \in results : r.contract = pinned[r.case]
  <1> DEFINE S == DOMAIN pinned
             results == UNION {nodes[n].results : n \in Graph(S)!Executes}
  <1>1. ASSUME NEW n \in Graph(S)!Executes
        PROVE  \E r \in Result : /\ nodes[n].results = {r}
                                 /\ r.case = n[2]
                                 /\ r.contract = pinned[n[2]]
    BY DEF Sound, NodeSound, NodesOf, Graph!CompiledNodes
  <1>2. ASSUME NEW c \in S
        PROVE  \E r \in results : r.case = c
    <2>1. Graph(S)!Execute(c) \in Graph(S)!Executes /\ Graph(S)!Execute(c)[2] = c
      BY OfCase
    <2>2. PICK r \in Result : nodes[Graph(S)!Execute(c)].results = {r} /\ r.case = c
      BY <2>1, <1>1
    <2>3. QED
      BY <2>1, <2>2
  <1>3. ASSUME NEW r \in results
        PROVE  r.contract = pinned[r.case]
    <2>1. PICK n \in Graph(S)!Executes : r \in nodes[n].results
      BY <1>3
    <2>2. QED
      BY <1>1, <2>1
  <1>4. QED
    BY <1>2, <1>3

LEMMA OutcomePassed ==
  ASSUME NEW results, NEW dry, TestOutcome(results, dry) = "PASS"
  PROVE  /\ ~ dry
         /\ Official(results) # {}
         /\ Statuses(Official(results)) = {"PASS"}
  <1>1. Official(results) # {} => results # {}
    BY DEF Official
  <1>2. Official(results) # {} /\ ~ dry /\ ResultOutcome(Official(results)) = "PASS"
    BY <1>1 DEF TestOutcome
  <1>3. QED
    BY <1>2 DEF ResultOutcome

LEMMA OutcomeFailed ==
  ASSUME NEW results, NEW dry, ~ dry, "FAIL" \in Statuses(Official(results))
  PROVE  TestOutcome(results, dry) = "FAIL"
  <1>1. Official(results) # {}
    BY DEF Statuses
  <1>2. ResultOutcome(Official(results)) = "FAIL"
    BY DEF ResultOutcome
  <1>3. QED
    BY <1>1, <1>2 DEF TestOutcome

LEMMA OutcomeTyped ==
  ASSUME NEW results, NEW dry
  PROVE  TestOutcome(results, dry) \in {"PASS", "FAIL", "BLOCK", "HOLD", "NOT_RUN"}
  BY DEF TestOutcome, ResultOutcome

\* A published execution has earned it.
LEMMA SoundIsEarned ==
  ASSUME NEW pinned, NEW nodes, DOMAIN nodes = NodesOf(pinned), Sound(pinned, nodes)
  PROVE  Earned(pinned, nodes)
  <1> DEFINE S == DOMAIN pinned
             P(n) == nodes[n].status = "PASS"
             results == UNION {nodes[n].results : n \in Graph(S)!Executes}
  <1> SUFFICES ASSUME P(Graph(S)!Publish)
               PROVE  /\ Passed(nodes) = DOMAIN nodes
                      /\ AllPass(pinned, nodes[Graph(S)!Merge].results)
                      /\ nodes[Graph(S)!Merge].results = results
    BY DEF Earned
  <1>1. /\ \A n \in {Graph(S)!Context, Graph(S)!Compile, Graph(S)!Merge, Graph(S)!Gate,
                     Graph(S)!Publish} : n \in NodesOf(pinned)
        /\ \A n \in Graph(S)!Executes \cup Graph(S)!Verifies : n \in NodesOf(pinned)
    BY DEF NodesOf, Graph!CompiledNodes
  <1>2. \A n \in NodesOf(pinned) : P(n) => \A d \in Graph(S)!DependsOn(n) : P(d)
    BY DEF Sound, NodeSound
  <1>3. P(Graph(S)!Merge) /\ P(Graph(S)!Gate)
    BY <1>1, <1>2, GraphDependencies
  <1>4. nodes[Graph(S)!Merge].outcome = "PASS"
    BY <1>1, <1>3 DEF Sound, NodeSound
  <1>5. PICK dry \in BOOLEAN :
          LET inputs == UNION {nodes[d].results : d \in Graph(S)!DependsOn(Graph(S)!Merge)}
          IN  /\ nodes[Graph(S)!Merge].results = inputs
              /\ nodes[Graph(S)!Merge].outcome = TestOutcome(inputs, dry)
    BY <1>1, <1>3 DEF Sound, NodeSound
  <1>6. /\ Official(nodes[Graph(S)!Merge].results) # {}
        /\ Statuses(Official(nodes[Graph(S)!Merge].results)) = {"PASS"}
    BY <1>4, <1>5, OutcomePassed
  <1>7. S # {}
    <2> SUFFICES ASSUME S = {}
                 PROVE  FALSE
      OBVIOUS
    <2>1. Graph(S)!DependsOn(Graph(S)!Merge) = {Graph(S)!Compile}
      BY GraphDependencies
    <2>2. nodes[Graph(S)!Compile].results = {}
      BY <2>1, <1>1, <1>2, <1>3 DEF Sound, NodeSound
    <2>3. nodes[Graph(S)!Merge].results = {}
      BY <2>1, <2>2, <1>5
    <2>4. QED
      BY <2>3, <1>6 DEF Official
  <1>8. Graph(S)!DependsOn(Graph(S)!Merge) = Graph(S)!Verifies
    BY <1>7, GraphDependencies
  <1>9. ASSUME NEW c \in S
        PROVE  /\ P(Graph(S)!Verify(c)) /\ P(Graph(S)!Execute(c))
               /\ nodes[Graph(S)!Verify(c)].results = nodes[Graph(S)!Execute(c)].results
    <2>1. Graph(S)!Verify(c) \in Graph(S)!Verifies /\ P(Graph(S)!Verify(c))
      BY <1>8, <1>1, <1>2, <1>3, OfCase
    <2>2. Graph(S)!DependsOn(Graph(S)!Verify(c)) = {Graph(S)!Execute(c)}
      BY VerifierDependency
    <2>3. P(Graph(S)!Execute(c))
      BY <2>1, <2>2, <1>1, <1>2
    <2>4. nodes[Graph(S)!Verify(c)].results
            = UNION {nodes[d].results : d \in Graph(S)!DependsOn(Graph(S)!Verify(c))}
      BY <2>1, <1>1 DEF Sound, NodeSound
    <2>5. QED
      BY <2>1, <2>2, <2>3, <2>4
  <1>10. \A n \in Graph(S)!Executes : P(n)
    BY <1>9 DEF Graph!Executes
  <1>11. nodes[Graph(S)!Merge].results = results
    <2>1. UNION {nodes[d].results : d \in Graph(S)!Verifies}
            = UNION {nodes[Graph(S)!Verify(c)].results : c \in S}
      BY DEF Graph!Verifies
    <2>2. results = UNION {nodes[Graph(S)!Execute(c)].results : c \in S}
      BY DEF Graph!Executes
    <2>3. UNION {nodes[Graph(S)!Verify(c)].results : c \in S}
            = UNION {nodes[Graph(S)!Execute(c)].results : c \in S}
      BY <1>9
    <2>4. QED
      BY <2>1, <2>2, <2>3, <1>5, <1>8
  <1>12. P(Graph(S)!Compile) /\ P(Graph(S)!Context)
    <2>1. PICK c \in S : TRUE
      BY <1>7
    <2>2. P(Graph(S)!Compile)
      BY <1>9, <1>1, <1>2, OfCase, GraphDependencies
    <2>3. QED
      BY <2>2, <1>1, <1>2, GraphDependencies
  <1>13. Passed(nodes) = DOMAIN nodes
    <2>1. \A n \in Graph(S)!Verifies : P(n)
      BY <1>9 DEF Graph!Verifies
    <2>2. \A n \in NodesOf(pinned) : P(n)
      BY <2>1, <1>3, <1>10, <1>12 DEF NodesOf, Graph!CompiledNodes
    <2>3. QED
      BY <2>2 DEF Passed
  <1>14. AllPass(pinned, nodes[Graph(S)!Merge].results)
    <2>1. /\ \A c \in S : \E r \in results : r.case = c
          /\ \A r \in results : r.contract = pinned[r.case]
      BY <1>10, WorkersPassed
    <2> HIDE DEF S, P, results
    <2>2. /\ \A c \in S : \E r \in nodes[Graph(S)!Merge].results : r.case = c
          /\ \A r \in nodes[Graph(S)!Merge].results : r.contract = pinned[r.case]
      BY <2>1, <1>11
    <2> QED
      BY <2>2, <1>6 DEF AllPass, S
  <1>15. QED
    BY <1>11, <1>13, <1>14

\* An execution of which no node is left to be run has passed.
LEMMA NothingPending ==
  ASSUME DOMAIN mem = NodesOf(command.pinned), Frontier = {}
  PROVE  Passed(mem) = DOMAIN mem
  <1> DEFINE L(n) == Q!LayerOf(n)
  <1>1. \A n \in DOMAIN mem : L(n) \in 0..6
    BY SelectedGraph, GraphLayers DEF NodesOf, Selected, Graph!CompiledNodes
  <1>2. \A n \in Pending : n \in DOMAIN mem /\ \E m \in Pending : ~ (L(n) <= L(m))
    BY DEF Frontier, Pending
  <1> HIDE DEF L
  <1>3. \A n \in Pending : L(n) \in Int /\ L(n) > 0
    BY <1>1, <1>2
  <1>4. \A n \in Pending : L(n) > 1
    BY <1>1, <1>2, <1>3
  <1>5. \A n \in Pending : L(n) > 2
    BY <1>1, <1>2, <1>4
  <1>6. \A n \in Pending : L(n) > 3
    BY <1>1, <1>2, <1>5
  <1>7. \A n \in Pending : L(n) > 4
    BY <1>1, <1>2, <1>6
  <1>8. \A n \in Pending : L(n) > 5
    BY <1>1, <1>2, <1>7
  <1>9. Pending = {}
    BY <1>1, <1>2, <1>8
  <1>10. QED
    BY <1>9 DEF Pending, Passed

\* A node of the layer that has been reached has not passed; what it depends on has.
LEMMA ReadyNode ==
  ASSUME DOMAIN mem = NodesOf(command.pinned), NEW n \in Frontier
  PROVE  /\ n \in NodesOf(command.pinned)
         /\ mem[n].status # "PASS"
         /\ \A d \in Q!DependsOn(n) : /\ mem[d].status = "PASS"
                                      /\ d \in NodesOf(command.pinned)
                                      /\ d # n
  <1>1. n \in DOMAIN mem /\ mem[n].status # "PASS"
    BY DEF Frontier, Pending, Passed
  <1>2. ASSUME NEW d \in Q!DependsOn(n)
        PROVE  /\ mem[d].status = "PASS"
               /\ d \in NodesOf(command.pinned)
               /\ d # n
    <2>1. n \in Graph(Selected)!CompiledNodes /\ d \in Graph(Selected)!DependsOn(n)
      BY <1>1, <1>2, SelectedGraph DEF NodesOf, Selected
    <2>2. /\ d \in Graph(Selected)!CompiledNodes
          /\ Q!LayerOf(n) \in Nat /\ Q!LayerOf(d) \in Nat /\ Q!LayerOf(d) < Q!LayerOf(n)
      BY <2>1, Edges, SelectedGraph
    <2>3. d \in NodesOf(command.pinned)
      BY <2>2 DEF NodesOf, Selected
    <2>4. ~ (Q!LayerOf(n) <= Q!LayerOf(d))
      BY <2>2
    <2>5. d \notin Pending
      BY <2>4 DEF Frontier
    <2>6. QED
      BY <2>2, <2>3, <2>5 DEF Pending, Passed
  <1>3. QED
    BY <1>1, <1>2

\* What a node may be given when it is run: a typed record, and if it passes a
\* sound one.
LEMMA Delivered ==
  ASSUME command.dry \in BOOLEAN, ExecutionOK(command.pinned, command.round, mem), NEW n \in Frontier,
         NEW record \in Delivers(n)
  PROVE  /\ record.status \in {"PASS", "FAIL"}
         /\ record.results \subseteq Result
         /\ record.outcome \in {"none", "PASS", "FAIL", "BLOCK", "HOLD", "NOT_RUN"}
         /\ record.status = "PASS" =>
              /\ n = Q!Compile => record.results = {}
              /\ n \in Q!Executes =>
                   \E r \in Result : /\ record.results = {r}
                                     /\ r.case = n[2]
                                     /\ r.contract = command.pinned[n[2]]
              /\ n \in Q!Verifies \cup {Q!Merge} => record.results = InputResults(n)
              /\ n = Q!Merge =>
                   \E dry \in BOOLEAN : record.outcome = TestOutcome(InputResults(n), dry)
              /\ n = Q!Gate => mem[Q!Merge].outcome = "PASS"
  <1> USE DEF Record, Failed
  <1>1. n \in NodesOf(command.pinned)
        /\ \A d \in Q!DependsOn(n) : d \in NodesOf(command.pinned)
    BY ReadyNode DEF ExecutionOK
  <1>2. InputResults(n) \subseteq Result
    BY <1>1 DEF InputResults, ExecutionOK
  <1>3. /\ {Q!Context, Q!Compile, Q!Merge, Q!Gate, Q!Publish} \cap (Q!Executes \cup Q!Verifies) = {}
        /\ Q!Executes \cap Q!Verifies = {}
        /\ Q!Compile # Q!Merge /\ Q!Compile # Q!Gate /\ Q!Merge # Q!Gate
        /\ Q!Context # Q!Compile /\ Q!Context # Q!Merge /\ Q!Context # Q!Gate
        /\ Q!Publish # Q!Compile /\ Q!Publish # Q!Merge /\ Q!Publish # Q!Gate
    BY SelectedGraph, GraphNames
  <1>4. n \in {Q!Context, Q!Compile, Q!Merge, Q!Gate, Q!Publish} \cup Q!Executes \cup Q!Verifies
    BY <1>1, SelectedGraph DEF NodesOf, Selected, Graph!CompiledNodes
  <1>5. CASE n \in Q!Executes
    <2>1. record \in CaseRecords(n[2])
      BY <1>5, <1>3 DEF Delivers
    <2>2. n[2] \in DOMAIN command.pinned
      BY <1>5, SelectedGraph, CaseNodes DEF Selected
    <2>3. n[2] \in CaseIds /\ command.pinned[n[2]] \in Contracts
      BY <2>2 DEF ExecutionOK
    <2>4. CASE record = Failed
      BY <2>4, <1>3, <1>5
    <2>5. CASE record # Failed
      <3>1. PICK status \in RunStatuses(command.dry) :
              record = Record("PASS", {[case |-> n[2], contract |-> command.pinned[n[2]],
                                        status |-> status]}, "none")
        BY <2>1, <2>5 DEF CaseRecords
      <3>2. status \in {"PASS", "FAIL", "BLOCK", "NOT_RUN"}
        BY DEF RunStatuses
      <3> DEFINE r == [case |-> n[2], contract |-> command.pinned[n[2]], status |-> status]
      <3>3. r \in Result /\ r.case = n[2] /\ r.contract = command.pinned[n[2]]
        BY <2>3, <3>2 DEF Result
      <3>4. record.status = "PASS" /\ record.results = {r} /\ record.outcome = "none"
        BY <3>1
      <3> HIDE DEF r
      <3>5. QED
        BY <3>3, <3>4, <1>3, <1>5
    <2>6. QED
      BY <2>4, <2>5
  <1>6. CASE n \in Q!Verifies
    <2>1. record \in {Record("PASS", InputResults(n), "none"), Failed}
      BY <1>6, <1>3 DEF Delivers
    <2>2. QED
      BY <2>1, <1>2, <1>3, <1>6
  <1>7. CASE n = Q!Merge
    <2>1. record = Record("PASS", InputResults(n), TestOutcome(InputResults(n), command.dry))
      BY <1>7, <1>3 DEF Delivers
    <2>2. QED
      BY <2>1, <1>2, <1>3, <1>7, OutcomeTyped
  <1>8. CASE n = Q!Gate
    <2>1. record = IF mem[Q!Merge].outcome = "PASS" THEN Record("PASS", {}, "none") ELSE Failed
      BY <1>8, <1>3 DEF Delivers
    <2>2. QED
      BY <2>1, <1>3, <1>8
  <1>9. CASE n \in {Q!Context, Q!Compile, Q!Publish}
    <2>1. record = Record("PASS", {}, "none")
      BY <1>9, <1>3 DEF Delivers
    <2>2. QED
      BY <2>1, <1>3, <1>9
  <1>10. QED
    BY <1>4, <1>5, <1>6, <1>7, <1>8, <1>9

\* Giving a ready node such a record keeps the execution typed and sound.
LEMMA NodeRun ==
  ASSUME ExecutionOK(command.pinned, command.round, mem), Sound(command.pinned, mem),
         NEW n \in Frontier, NEW record,
         record.status \in {"ABSENT", "PASS", "FAIL", "HOLD"},
         record.results \subseteq Result,
         record.outcome \in {"none", "PASS", "FAIL", "BLOCK", "HOLD", "NOT_RUN"},
         record.status = "PASS" =>
           /\ n = Q!Compile => record.results = {}
           /\ n \in Q!Executes =>
                \E r \in Result : /\ record.results = {r}
                                  /\ r.case = n[2]
                                  /\ r.contract = command.pinned[n[2]]
           /\ n \in Q!Verifies \cup {Q!Merge} => record.results = InputResults(n)
           /\ n = Q!Merge =>
                \E dry \in BOOLEAN : record.outcome = TestOutcome(InputResults(n), dry)
           /\ n = Q!Gate => mem[Q!Merge].outcome = "PASS"
  PROVE  LET nodes == [mem EXCEPT ![n] = record]
         IN  /\ ExecutionOK(command.pinned, command.round, nodes)
             /\ Sound(command.pinned, nodes)
  <1> DEFINE nodes == [mem EXCEPT ![n] = record]
             S == DOMAIN command.pinned
  <1>1. DOMAIN mem = NodesOf(command.pinned)
    BY DEF ExecutionOK
  <1>2. /\ n \in NodesOf(command.pinned)
        /\ mem[n].status # "PASS"
        /\ \A d \in Q!DependsOn(n) : /\ mem[d].status = "PASS"
                                     /\ d \in NodesOf(command.pinned)
                                     /\ d # n
    BY <1>1, ReadyNode
  <1>3. /\ DOMAIN nodes = NodesOf(command.pinned)
        /\ nodes[n] = record
        /\ \A m \in NodesOf(command.pinned) : m # n => nodes[m] = mem[m]
    BY <1>1, <1>2
  <1> HIDE DEF nodes
  <1>4. ExecutionOK(command.pinned, command.round, nodes)
    BY <1>3 DEF ExecutionOK
  <1>5. Q!DependsOn(n) = Graph(S)!DependsOn(n)
    BY SelectedGraph DEF Selected
  <1>6. ASSUME record.status = "PASS"
        PROVE  NodeSound(command.pinned, nodes, n)
    <2>1. \A d \in Graph(S)!DependsOn(n) : nodes[d] = mem[d] /\ nodes[d].status = "PASS"
      BY <1>2, <1>3, <1>5
    <2>2. UNION {nodes[d].results : d \in Graph(S)!DependsOn(n)} = InputResults(n)
      BY <2>1, <1>5 DEF InputResults
    <2>3. n = Graph(S)!Gate => nodes[Graph(S)!Merge].outcome = "PASS"
      BY <2>1, <1>6, GraphDependencies, SelectedGraph DEF Selected
    <2>4. /\ n = Graph(S)!Compile => nodes[n].results = {}
          /\ n \in Graph(S)!Executes =>
               \E r \in Result : /\ nodes[n].results = {r}
                                 /\ r.case = n[2]
                                 /\ r.contract = command.pinned[n[2]]
          /\ n \in Graph(S)!Verifies \cup {Graph(S)!Merge} => nodes[n].results = InputResults(n)
          /\ n = Graph(S)!Merge =>
               \E dry \in BOOLEAN : nodes[n].outcome = TestOutcome(InputResults(n), dry)
      BY <1>3, <1>6, SelectedGraph DEF Selected
    <2>5. QED
      BY <2>1, <2>2, <2>3, <2>4 DEF NodeSound
  <1>7. ASSUME NEW m \in NodesOf(command.pinned), nodes[m].status = "PASS", m # n
        PROVE  /\ nodes[m] = mem[m]
               /\ \A d \in Graph(S)!DependsOn(m) : nodes[d] = mem[d]
    <2>1. nodes[m] = mem[m] /\ NodeSound(command.pinned, mem, m)
      BY <1>3, <1>7 DEF Sound
    <2>2. \A d \in Graph(S)!DependsOn(m) : mem[d].status = "PASS" /\ d \in NodesOf(command.pinned)
      BY <2>1, Edges DEF NodeSound, NodesOf
    <2>3. QED
      BY <2>1, <2>2, <1>2, <1>3
  <1>8. Sound(command.pinned, nodes)
    BY <1>3, <1>6, <1>7, Replaced
  <1>9. QED
    BY <1>4, <1>8 DEF nodes

\* A fresh execution, and one that a repair has invalidated.
LEMMA FreshSound ==
  ASSUME NEW pinned, pinned \in UNION {[S -> Contracts] : S \in SUBSET CaseIds}
  PROVE  /\ ExecutionOK(pinned, 1, Fresh(pinned))
         /\ Sound(pinned, Fresh(pinned))
         /\ Fresh(pinned)[Graph(DOMAIN pinned)!Gate].status # "PASS"
  <1>1. \A n \in NodesOf(pinned) : Fresh(pinned)[n] = [status |-> "ABSENT", results |-> {}, outcome |-> "none"]
    BY DEF Fresh, NodesOf, Absent, Record
  <1>2. DOMAIN Fresh(pinned) = NodesOf(pinned)
    BY DEF Fresh, NodesOf
  <1>3. 1 \in 1..MaxRounds
    BY CloseLoopAssumption
  <1>4. Graph(DOMAIN pinned)!Gate \in NodesOf(pinned)
    BY DEF NodesOf, Graph!CompiledNodes
  <1>5. QED
    BY <1>1, <1>2, <1>3, <1>4 DEF ExecutionOK, Sound

LEMMA RepairSound ==
  ASSUME NEW pinned, NEW round, NEW old, NEW n \in DOMAIN old,
         ExecutionOK(pinned, round, old), Sound(pinned, old), round < MaxRounds,
         NEW nodes,
         nodes = [m \in DOMAIN old |->
                    IF m \in Graph(DOMAIN pinned)!Descendants(n) THEN Absent ELSE old[m]]
  PROVE  /\ ExecutionOK(pinned, round + 1, nodes)
         /\ Sound(pinned, nodes)
  <1> DEFINE S == DOMAIN pinned
  <1>1. DOMAIN old = NodesOf(pinned) /\ DOMAIN nodes = NodesOf(pinned)
    BY DEF ExecutionOK
  <1>2. \A m \in NodesOf(pinned) :
          \/ m \notin Graph(S)!Descendants(n) /\ nodes[m] = old[m]
          \/ m \in Graph(S)!Descendants(n)
             /\ nodes[m] = [status |-> "ABSENT", results |-> {}, outcome |-> "none"]
    BY <1>1 DEF Absent, Record
  <1>3. round + 1 \in 1..MaxRounds
    BY CloseLoopAssumption DEF ExecutionOK
  <1>4. ExecutionOK(pinned, round + 1, nodes)
    BY <1>1, <1>2, <1>3 DEF ExecutionOK
  <1>5. ASSUME NEW m \in NodesOf(pinned), nodes[m].status = "PASS"
        PROVE  /\ nodes[m] = old[m]
               /\ \A d \in Graph(S)!DependsOn(m) : nodes[d] = old[d]
    <2>1. m \notin Graph(S)!Descendants(n) /\ nodes[m] = old[m]
      BY <1>2, <1>5
    <2>2. ASSUME NEW d \in Graph(S)!DependsOn(m)
          PROVE  nodes[d] = old[d]
      <3>1. d \in NodesOf(pinned)
        BY Edges DEF NodesOf
      <3>2. d \notin Graph(S)!Descendants(n)
        BY <1>1, <2>1, DescendantsClosed DEF NodesOf
      <3>3. QED
        BY <1>2, <3>1, <3>2
    <2>3. QED
      BY <2>1, <2>2
  <1>6. Sound(pinned, nodes)
    BY <1>5, Replaced
  <1>7. QED
    BY <1>4, <1>6

-----------------------------------------------------------------------------
(* The inductive invariant *)

CommandOK(c, nodes) ==
  /\ c = [by |-> c.by, dry |-> c.dry, confirm |-> c.confirm, pinned |-> c.pinned,
          round |-> c.round, tried |-> c.tried, result |-> c.result]
  /\ c.dry \in BOOLEAN
  /\ c.tried \subseteq DOMAIN nodes
  /\ c.result \in {"PENDING", "PASS", "FAIL", "HOLD"}
  /\ ExecutionOK(c.pinned, c.round, nodes)
  /\ Sound(c.pinned, nodes)
  /\ c.result = "PASS" => Passed(nodes) = DOMAIN nodes
  /\ c.by = "heartbeat" =>
       ~ c.confirm /\ nodes[Graph(DOMAIN c.pinned)!Gate].status # "PASS"

CheckpointOK(file) ==
  /\ ExecutionOK(file.pinned, file.round, file.nodes)
  /\ Sound(file.pinned, file.nodes)

IInv ==
  /\ contracts \in [CaseIds -> Contracts \cup {NoFile}]
  /\ command # NoCommand => CommandOK(command, mem)
  /\ checkpoint # NoFile => CheckpointOK(checkpoint)
  /\ commands \in Nat

\* What a selection takes are contracts of existing cases.
LEMMA SelectionTyped ==
  ASSUME contracts \in [CaseIds -> Contracts \cup {NoFile}], NEW by, NEW s \in Selections(by)
  PROVE  /\ s.files \in [CaseIds -> Contracts \cup {NoFile}]
         /\ s.pinned \in UNION {[S -> Contracts] : S \in SUBSET CaseIds}
  <1>1. ASSUME NEW files \in [CaseIds -> Contracts \cup {NoFile}], NEW scope \in SUBSET CaseIds,
               \A c \in scope : files[c] # NoFile, s = SelectedOf(files, scope)
        PROVE  /\ s.files \in [CaseIds -> Contracts \cup {NoFile}]
               /\ s.pinned \in UNION {[S -> Contracts] : S \in SUBSET CaseIds}
    <2>1. s.files = files /\ s.pinned = [c \in scope |-> files[c]]
      BY <1>1 DEF SelectedOf, Restrict
    <2>2. [c \in scope |-> files[c]] \in [scope -> Contracts]
      BY <1>1
    <2>3. QED
      BY <2>1, <2>2
  <1>2. Existing \in SUBSET CaseIds /\ \A c \in Existing : contracts[c] # NoFile
    BY DEF Existing
  <1>3. CASE s \in OperatorSelections
    <2>1. PICK scope \in {Existing} \cup {{c} : c \in Existing} : s = SelectedOf(contracts, scope)
      BY <1>3 DEF OperatorSelections
    <2>2. scope \in SUBSET CaseIds /\ \A c \in scope : contracts[c] # NoFile
      BY <1>2, <2>1
    <2>3. QED
      BY <1>1, <2>1, <2>2
  <1>4. CASE s \in TickSelections
    <2>6. PICK new \in SUBSET (CaseIds \ Existing) :
            \E f \in Grown(new) : \E scope \in TickScopes(new) : s = SelectedOf(f, scope)
      BY <1>4 DEF TickSelections
    <2>1. PICK f \in Grown(new) : \E scope \in TickScopes(new) : s = SelectedOf(f, scope)
      BY <2>6
    <2> PICK scope \in TickScopes(new) : s = SelectedOf(f, scope)
      BY <2>1
    <2>2. /\ f \in [CaseIds -> Contracts \cup {NoFile}]
          /\ \A c \in new : f[c] # NoFile
          /\ \A c \in CaseIds \ new : f[c] = contracts[c]
      BY <2>1 DEF Grown
    <2>3. \A c \in Existing : f[c] # NoFile
      BY <1>2, <2>2
    <2>4. scope \in SUBSET CaseIds /\ \A c \in scope : f[c] # NoFile
      BY <1>2, <2>1, <2>2, <2>3 DEF TickScopes
    <2>5. QED
      BY <1>1, <2>1, <2>2, <2>4
  <1>5. QED
    BY <1>3, <1>4 DEF Selections

LEMMA Begun ==
  ASSUME NEW by, NEW dry \in BOOLEAN, NEW confirm \in BOOLEAN, NEW pinned, NEW round, NEW nodes,
         Begin(by, dry, confirm, pinned, round, nodes),
         ExecutionOK(pinned, round, nodes), Sound(pinned, nodes),
         by = "heartbeat" => ~ confirm /\ nodes[Graph(DOMAIN pinned)!Gate].status # "PASS"
  PROVE  CommandOK(command', mem')
  BY DEF Begin, CommandOK

\* One lemma for each way in which the invariant can be disturbed.
LEMMA CommandsStart ==
  ASSUME IInv, Start \/ Resume \/ Repair \/ Tick
  PROVE  IInv'
  <1> USE DEF IInv
  <1>1. CASE Start
    <2>1. PICK s \in OperatorSelections, dry \in BOOLEAN, confirm \in BOOLEAN :
            Begin("operator", dry, confirm, s.pinned, 1, Fresh(s.pinned))
      BY <1>1 DEF Start
    <2>2. s \in Selections("operator")
      BY DEF Selections
    <2>3. CommandOK(command', mem')
      BY <2>1, <2>2, SelectionTyped, FreshSound, Begun
    <2>4. UNCHANGED <<contracts, checkpoint>> /\ commands' = commands + 1
      BY <1>1, <2>1 DEF Start, Begin
    <2>5. QED
      BY <2>3, <2>4
  <1>2. CASE Resume
    <2>1. PICK s \in OperatorSelections, dry \in BOOLEAN, confirm \in BOOLEAN :
            /\ Loads(s.pinned)
            /\ Begin("operator", dry, confirm, s.pinned, checkpoint.round, checkpoint.nodes)
      BY <1>2 DEF Resume
    <2>2. ExecutionOK(s.pinned, checkpoint.round, checkpoint.nodes) /\ Sound(s.pinned, checkpoint.nodes)
      BY <2>1 DEF Loads, CheckpointOK
    <2>3. CommandOK(command', mem')
      BY <2>1, <2>2, Begun
    <2>4. UNCHANGED <<contracts, checkpoint>> /\ commands' = commands + 1
      BY <1>2, <2>1 DEF Resume, Begin
    <2>5. QED
      BY <2>3, <2>4
  <1>3. CASE Repair
    <2>1. PICK s \in OperatorSelections, dry \in BOOLEAN, confirm \in BOOLEAN :
            /\ Loads(s.pinned)
            /\ checkpoint.round < MaxRounds
            /\ \E n \in DOMAIN checkpoint.nodes :
                 LET nodes == [m \in DOMAIN checkpoint.nodes |->
                                 IF m \in Graph(DOMAIN s.pinned)!Descendants(n)
                                   THEN Absent ELSE checkpoint.nodes[m]]
                     round == checkpoint.round + 1
                 IN  /\ Begin("operator", dry, confirm, s.pinned, round, nodes)
                     /\ checkpoint' = [pinned |-> s.pinned, round |-> round, nodes |-> nodes]
      BY <1>3 DEF Repair
    <2>2. PICK n \in DOMAIN checkpoint.nodes :
                 LET nodes == [m \in DOMAIN checkpoint.nodes |->
                                 IF m \in Graph(DOMAIN s.pinned)!Descendants(n)
                                   THEN Absent ELSE checkpoint.nodes[m]]
                     round == checkpoint.round + 1
                 IN  /\ Begin("operator", dry, confirm, s.pinned, round, nodes)
                     /\ checkpoint' = [pinned |-> s.pinned, round |-> round, nodes |-> nodes]
      BY <2>1
    <2> DEFINE nodes == [m \in DOMAIN checkpoint.nodes |->
                           IF m \in Graph(DOMAIN s.pinned)!Descendants(n)
                             THEN Absent ELSE checkpoint.nodes[m]]
               round == checkpoint.round + 1
    <2>3. ExecutionOK(s.pinned, checkpoint.round, checkpoint.nodes) /\ Sound(s.pinned, checkpoint.nodes)
      BY <2>1 DEF Loads, CheckpointOK
    <2>4. ExecutionOK(s.pinned, round, nodes) /\ Sound(s.pinned, nodes)
      BY <2>1, <2>3, RepairSound
    <2>5. /\ Begin("operator", dry, confirm, s.pinned, round, nodes)
          /\ checkpoint' = [pinned |-> s.pinned, round |-> round, nodes |-> nodes]
      BY <2>2
    <2> HIDE DEF nodes, round
    <2>6. CommandOK(command', mem')
      BY <2>4, <2>5, Begun
    <2>7. CheckpointOK(checkpoint')
      BY <2>4, <2>5 DEF CheckpointOK
    <2>8. UNCHANGED contracts /\ commands' = commands + 1
      BY <1>3, <2>5 DEF Repair, Begin
    <2>9. QED
      BY <2>6, <2>7, <2>8
  <1>4. CASE Tick
    <2>1. PICK s \in TickSelections :
            /\ contracts' = s.files
            /\ Begin("heartbeat", FALSE, FALSE, s.pinned, 1, Fresh(s.pinned))
      BY <1>4 DEF Tick
    <2>2. s \in Selections("heartbeat")
      BY DEF Selections
    <2>3. CommandOK(command', mem')
      BY <2>1, <2>2, SelectionTyped, FreshSound, Begun
    <2>4. UNCHANGED checkpoint /\ commands' = commands + 1
      BY <1>4, <2>1 DEF Tick, Begin
    <2>5. contracts' \in [CaseIds -> Contracts \cup {NoFile}]
      BY <2>1, <2>2, SelectionTyped
    <2>6. QED
      BY <2>3, <2>4, <2>5
  <1>5. QED
    BY <1>1, <1>2, <1>3, <1>4

\* Saving writes the execution that is in memory.
LEMMA SavedOK ==
  ASSUME CommandOK(command, mem), NEW nodes, Save(nodes),
         ExecutionOK(command.pinned, command.round, nodes), Sound(command.pinned, nodes)
  PROVE  CheckpointOK(checkpoint')
  BY DEF Save, Saved, CheckpointOK

LEMMA NodesRun ==
  ASSUME IInv, (\E n \in DOMAIN mem : RunNode(n)) \/ HoldAtGate
  PROVE  IInv'
  <1> USE DEF IInv
  <1>1. CommandOK(command, mem) /\ command.result = "PENDING"
    BY DEF RunNode, HoldAtGate, Running
  <1>2. ExecutionOK(command.pinned, command.round, mem) /\ Sound(command.pinned, mem)
    BY <1>1 DEF CommandOK
  <1>3. ASSUME NEW n \in DOMAIN mem, RunNode(n)
        PROVE  IInv'
    <2>1. PICK record \in Delivers(n) : Save([mem EXCEPT ![n] = record])
      BY <1>3 DEF RunNode
    <2>2. n \in Frontier /\ ~ Unapproved(n)
      BY <1>3 DEF RunNode, Unrun
    <2>3. command.dry \in BOOLEAN
      BY <1>1 DEF CommandOK
    <2> DEFINE nodes == [mem EXCEPT ![n] = record]
    <2>4. ExecutionOK(command.pinned, command.round, nodes) /\ Sound(command.pinned, nodes)
      BY <1>2, <2>2, <2>3, Delivered, NodeRun
    <2>5. /\ command' = [command EXCEPT !.tried = @ \cup {n}]
          /\ mem' = nodes
          /\ UNCHANGED <<contracts, reply, commands>>
      BY <1>3, <2>1 DEF RunNode, Save
    <2>6. DOMAIN nodes = DOMAIN mem /\ \A m \in DOMAIN mem : m # n => nodes[m] = mem[m]
      OBVIOUS
    <2>7. command.by = "heartbeat" => nodes[Graph(Selected)!Gate].status # "PASS"
      <3> SUFFICES ASSUME command.by = "heartbeat"
                   PROVE  nodes[Graph(Selected)!Gate].status # "PASS"
        OBVIOUS
      <3>1. ~ command.confirm /\ mem[Graph(Selected)!Gate].status # "PASS"
        BY <1>1 DEF CommandOK, Selected
      <3>2. n # Graph(Selected)!Gate
        BY <2>2, <3>1, SelectedGraph DEF Unapproved
      <3>3. Graph(Selected)!Gate \in DOMAIN mem
        BY <1>2 DEF ExecutionOK, NodesOf, Selected, Graph!CompiledNodes
      <3>4. QED
        BY <2>6, <3>1, <3>2, <3>3
    <2>8. CheckpointOK(checkpoint')
      BY <1>1, <2>1, <2>4, SavedOK
    <2> HIDE DEF nodes
    <2>9. CommandOK(command', nodes)
      BY <1>1, <2>4, <2>5, <2>6, <2>7 DEF CommandOK, Selected
    <2>10. QED
      BY <2>5, <2>8, <2>9
  <1>4. ASSUME HoldAtGate
        PROVE  IInv'
    <2> DEFINE record == Record("HOLD", {}, "none")
    <2>1. PICK n \in Unrun : Unapproved(n) /\ Save([mem EXCEPT ![n] = record])
      BY <1>4 DEF HoldAtGate
    <2>2. n \in Frontier
      BY DEF Unrun
    <2> DEFINE nodes == [mem EXCEPT ![n] = record]
    <2>3. record.status = "HOLD" /\ record.results = {} /\ record.outcome = "none"
      BY DEF Record
    <2>4. ExecutionOK(command.pinned, command.round, nodes) /\ Sound(command.pinned, nodes)
      <3> HIDE DEF record
      <3>1. QED
        BY <1>2, <2>2, <2>3, NodeRun
    <2>5. /\ command' = [command EXCEPT !.result = "HOLD"]
          /\ mem' = nodes
          /\ UNCHANGED <<contracts, reply, commands>>
      BY <1>4, <2>1 DEF HoldAtGate, Save, Return
    <2>6. DOMAIN nodes = DOMAIN mem
      OBVIOUS
    <2>7. command.by = "heartbeat" => nodes[Graph(Selected)!Gate].status # "PASS"
      <3>1. n = Graph(Selected)!Gate /\ n \in DOMAIN mem
        BY <2>1, <2>2, SelectedGraph DEF Unapproved, Frontier, Pending
      <3>2. nodes[n] = record
        BY <3>1
      <3>3. QED
        BY <2>3, <3>1, <3>2
    <2>8. CheckpointOK(checkpoint')
      BY <1>1, <2>1, <2>4, SavedOK
    <2> HIDE DEF nodes, record
    <2>9. CommandOK(command', nodes)
      BY <1>1, <2>4, <2>5, <2>6, <2>7 DEF CommandOK, Selected
    <2>10. QED
      BY <2>5, <2>8, <2>9
  <1>5. QED
    BY <1>3, <1>4

LEMMA ExecutionsReturn ==
  ASSUME IInv, StopOnFailure \/ Complete
  PROVE  IInv'
  <1> USE DEF IInv
  <1>1. CommandOK(command, mem) /\ Save(mem) /\ UNCHANGED <<contracts, reply, commands>>
    BY DEF StopOnFailure, Complete, Running
  <1>2. CheckpointOK(checkpoint') /\ mem' = mem
    BY <1>1, SavedOK DEF CommandOK, Save
  <1>3. CASE StopOnFailure
    <2>1. command' = [command EXCEPT !.result = "FAIL"]
      BY <1>3 DEF StopOnFailure, Return
    <2>2. CommandOK(command', mem)
      BY <1>1, <2>1 DEF CommandOK
    <2>3. QED
      BY <1>1, <1>2, <2>2
  <1>4. CASE Complete
    <2>1. command' = [command EXCEPT !.result = "PASS"]
      BY <1>4 DEF Complete, Return
    <2>2. Passed(mem) = DOMAIN mem
      BY <1>1, <1>4, NothingPending DEF Complete, CommandOK, ExecutionOK
    <2>3. CommandOK(command', mem)
      BY <1>1, <2>1, <2>2 DEF CommandOK
    <2>4. QED
      BY <1>1, <1>2, <2>3
  <1>5. QED
    BY <1>3, <1>4

LEMMA CommandsEnd ==
  ASSUME IInv,
         \/ Finish \/ Abort \/ Crash \/ Refuse \/ AbortEarly \/ BlockOnPrerequisite
         \/ SkipTick \/ LegacyRun \/ \E c \in CaseIds : EditContract(c)
  PROVE  IInv'
  <1>1. checkpoint' = checkpoint /\ (command' = NoCommand \/ UNCHANGED <<command, mem>>)
    BY DEF Finish, Abort, Crash, Refuse, AbortEarly, BlockOnPrerequisite, SkipTick, LegacyRun,
           EditContract
  <1>2. commands' \in {commands, commands + 1}
    BY DEF Finish, Abort, Crash, Refuse, AbortEarly, BlockOnPrerequisite, SkipTick, LegacyRun,
           EditContract
  <1>3. contracts' \in [CaseIds -> Contracts \cup {NoFile}]
    <2>1. CASE Finish \/ Abort \/ Crash \/ Refuse \/ SkipTick
      BY <2>1 DEF IInv, Finish, Abort, Crash, Refuse, SkipTick
    <2>2. CASE \E c \in CaseIds : EditContract(c)
      BY <2>2 DEF IInv, EditContract
    <2>3. CASE AbortEarly \/ BlockOnPrerequisite \/ LegacyRun
      <3>1. \E by : \E s \in Selections(by) : contracts' = s.files
        BY <2>3 DEF AbortEarly, BlockOnPrerequisite, LegacyRun
      <3>2. QED
        BY <3>1, SelectionTyped DEF IInv
    <2>4. QED
      BY <2>1, <2>2, <2>3
  <1>4. QED
    BY <1>1, <1>2, <1>3 DEF IInv

LEMMA Inductive ==
  ASSUME IInv, [Next]_vars
  PROVE  IInv'
  <1>1. CASE UNCHANGED vars
    BY <1>1 DEF IInv, vars
  <1>2. CASE Next
    BY <1>2, CommandsStart, NodesRun, ExecutionsReturn, CommandsEnd DEF Next, Work
  <1>3. QED
    BY <1>1, <1>2

LEMMA Initial == Init => IInv
  BY DEF Init, IInv

\* In every reachable state each execution, in memory or saved, is typed and sound.
THEOREM Invariance == Spec => []IInv
  <1>1. QED
    BY Initial, Inductive, PTL DEF Spec

\* The type invariant.
THEOREM TypeCorrect == Spec => []TypeOK
  <1>1. IInv => TypeOK
    BY DEF IInv, TypeOK, CommandOK, CheckpointOK
  <1>2. QED
    BY <1>1, Invariance, PTL

\* A publication has been earned, in memory and in the saved execution, whatever mixture of
\* dry, real, interrupted, resumed and repaired runs of run_close_loop_task_graph led to it.
THEOREM PublicationsEarned == Spec => []PublicationEarned
  <1>1. IInv => PublicationEarned
    BY SoundIsEarned DEF IInv, PublicationEarned, CommandOK, CheckpointOK, ExecutionOK
  <1>2. QED
    BY <1>1, Invariance, PTL

-----------------------------------------------------------------------------
(* Reports *)

Honest == ReportHonest /\ QuietMeansPassed

\* A reply with a report is honest if the report is.
LEMMA HonestReply ==
  ASSUME NEW by, NEW pinned, NEW dry \in BOOLEAN, NEW results, NEW outcome, NEW status, NEW workflow,
         NEW gate, NEW legacy \in BOOLEAN,
         reply' = Reply(by, Report(pinned, dry, results, outcome, status, workflow, gate), legacy),
         status = "PASS" => ~ dry /\ AllPass(pinned, results),
         ~ dry /\ "FAIL" \in Statuses(Official(results)) => status \in {"FAIL", "ABORT"},
         by = "heartbeat" =>
           \/ AllPass(pinned, results)
           \/ outcome \in {"FAIL", "BLOCK", "ABORT"}
           \/ gate = "BLOCKED"
           \/ workflow \in {"BLOCKED", "FAILED"}
  PROVE  Honest'
  <1> DEFINE report == Report(pinned, dry, results, outcome, status, workflow, gate)
  <1>1. /\ report.pinned = pinned /\ report.dry = dry /\ report.results = results
        /\ report.outcome = outcome /\ report.status = status /\ report.workflow = workflow
        /\ report.gate = gate
    BY DEF Report
  <1> HIDE DEF report
  <1>2. reply'.by = by /\ reply'.report = report
    BY DEF Reply, report
  <1>3. reply'.alert = (by = "heartbeat" /\ Alerts(report))
    BY DEF Reply, report
  <1>4. ReportHonest'
    BY <1>1, <1>2 DEF ReportHonest, Reported
  <1>5. ASSUME by = "heartbeat", ~ reply'.alert
        PROVE  AllPass(pinned, results)
    <2>1. ~ Alerts(report)
      BY <1>3, <1>5
    <2>2. QED
      BY <1>1, <1>5, <2>1 DEF Alerts
  <1>6. QuietMeansPassed'
    BY <1>1, <1>2, <1>5 DEF QuietMeansPassed
  <1>7. QED
    BY <1>4, <1>6 DEF Honest

\* A report without results that does not claim success.
LEMMA EmptyReply ==
  ASSUME NEW by, NEW pinned, NEW workflow, NEW gate,
         reply' = Reply(by, Report(pinned, FALSE, {}, "BLOCK", "BLOCK", workflow, gate), FALSE)
  PROVE  Honest'
  <1>1. "FAIL" \notin Statuses(Official({}))
    BY DEF Statuses, Official
  <1> DEFINE block == "BLOCK"
  <1>2. block # "PASS" /\ block \in {"FAIL", "BLOCK", "ABORT"}
    OBVIOUS
  <1>3. reply' = Reply(by, Report(pinned, FALSE, {}, block, block, workflow, gate), FALSE)
    OBVIOUS
  <1> HIDE DEF block
  <1>4. QED
    BY <1>1, <1>2, <1>3, HonestReply

\* An aborted command's report, whatever results it had collected.
LEMMA AbortedReply ==
  ASSUME NEW by, NEW pinned, NEW dry \in BOOLEAN, NEW results,
         reply' = Reply(by, AbortReport(pinned, dry, results), FALSE)
  PROVE  Honest'
  <1> DEFINE abort == "ABORT"
  <1>1. reply' = Reply(by, Report(pinned, dry, results, abort, abort, "FAILED",
                                  "NOT_EVALUATED"), FALSE)
    BY DEF AbortReport
  <1>2. /\ abort # "PASS"
        /\ abort \in {"FAIL", "ABORT"}
        /\ abort \in {"FAIL", "BLOCK", "ABORT"}
    OBVIOUS
  <1> HIDE DEF abort
  <1>3. QED
    BY <1>1, <1>2, HonestReply

LEMMA NoReply ==
  ASSUME reply' = NoReport \/ reply'.report = NoReport
  PROVE  Honest'
  BY DEF Honest, ReportHonest, QuietMeansPassed, Reported

LEMMA FinishHonest ==
  ASSUME IInv, Finish
  PROVE  Honest'
  <1> DEFINE outcome == TestOutcome(ReportedResults, command.dry)
             status == ReportStatus(outcome, command.result)
  <1>1. CommandOK(command, mem) /\ command.dry \in BOOLEAN
    BY DEF IInv, Finish, CommandOK
  <1>2. PICK gate : \E workflow :
          /\ command.result # "PASS" => workflow = "BLOCKED"
          /\ reply' = Reply(command.by, Report(command.pinned, command.dry, ReportedResults, outcome,
                                              status, workflow, gate), FALSE)
    BY DEF Finish
  <1>3. PICK workflow :
          /\ command.result # "PASS" => workflow = "BLOCKED"
          /\ reply' = Reply(command.by, Report(command.pinned, command.dry, ReportedResults, outcome,
                                              status, workflow, gate), FALSE)
    BY <1>2
  <1>4. ASSUME status = "PASS"
        PROVE  ~ command.dry /\ AllPass(command.pinned, ReportedResults)
    <2>1. outcome = "PASS" /\ command.result = "PASS"
      BY <1>4 DEF ReportStatus
    <2>2. Passed(mem) = DOMAIN mem /\ DOMAIN mem = NodesOf(command.pinned)
      BY <1>1, <2>1 DEF CommandOK, ExecutionOK
    <2>3. \A n \in Graph(DOMAIN command.pinned)!Executes : mem[n].status = "PASS"
      BY <2>2 DEF Passed, NodesOf, Graph!CompiledNodes
    <2>4. Q!Executes = Graph(DOMAIN command.pinned)!Executes
      BY SelectedGraph DEF Selected
    <2>5. /\ \A c \in DOMAIN command.pinned : \E r \in ReportedResults : r.case = c
          /\ \A r \in ReportedResults : r.contract = command.pinned[r.case]
      BY <1>1, <2>3, <2>4, WorkersPassed DEF ReportedResults, CommandOK
    <2>6. QED
      BY <2>1, <2>5, OutcomePassed DEF AllPass
  <1>5. ASSUME ~ command.dry, "FAIL" \in Statuses(Official(ReportedResults))
        PROVE  status = "FAIL"
    BY <1>5, OutcomeFailed DEF ReportStatus
  <1>6. ASSUME command.by = "heartbeat"
        PROVE  command.result # "PASS"
    <2>1. Graph(DOMAIN command.pinned)!Gate \in DOMAIN mem \ Passed(mem)
      BY <1>1, <1>6 DEF CommandOK, ExecutionOK, Passed, NodesOf, Graph!CompiledNodes
    <2>2. QED
      BY <1>1, <2>1 DEF CommandOK
  <1>7. PICK dry \in BOOLEAN : dry = command.dry
    BY <1>1
  <1>8. /\ reply' = Reply(command.by, Report(command.pinned, dry, ReportedResults, outcome,
                                            status, workflow, gate), FALSE)
        /\ status = "PASS" => ~ dry /\ AllPass(command.pinned, ReportedResults)
        /\ ~ dry /\ "FAIL" \in Statuses(Official(ReportedResults)) => status = "FAIL"
        /\ command.by = "heartbeat" => workflow = "BLOCKED"
    BY <1>3, <1>4, <1>5, <1>6, <1>7
  <1> HIDE DEF outcome, status
  <1>9. QED
    BY <1>8, HonestReply

LEMMA LegacyHonest ==
  ASSUME LegacyRun
  PROVE  Honest'
  <1>1. PICK by \in {"operator", "heartbeat"} : \E s \in Selections(by), dry \in BOOLEAN :
          /\ by = "heartbeat" => ~ dry
          /\ \E status \in [DOMAIN s.pinned -> RunStatuses(dry)] :
                LET results == {[case |-> c, contract |-> s.pinned[c], status |-> status[c]] :
                                  c \in DOMAIN s.pinned}
                    outcome == TestOutcome(results, dry)
                IN  \E gate \in GateStatuses(dry, results) :
                      reply' = Reply(by, Report(s.pinned, dry, results, outcome, outcome,
                                                WorkflowStatus(outcome, gate), gate), TRUE)
    BY DEF LegacyRun
  <1>2. PICK s \in Selections(by), dry \in BOOLEAN :
          /\ by = "heartbeat" => ~ dry
          /\ \E status \in [DOMAIN s.pinned -> RunStatuses(dry)] :
                LET results == {[case |-> c, contract |-> s.pinned[c], status |-> status[c]] :
                                  c \in DOMAIN s.pinned}
                    outcome == TestOutcome(results, dry)
                IN  \E gate \in GateStatuses(dry, results) :
                      reply' = Reply(by, Report(s.pinned, dry, results, outcome, outcome,
                                                WorkflowStatus(outcome, gate), gate), TRUE)
    BY <1>1
  <1> DEFINE pinned == s.pinned
  <1>3. PICK status \in [DOMAIN pinned -> RunStatuses(dry)] :
                LET results == {[case |-> c, contract |-> pinned[c], status |-> status[c]] :
                                  c \in DOMAIN pinned}
                    outcome == TestOutcome(results, dry)
                IN  \E gate \in GateStatuses(dry, results) :
                      reply' = Reply(by, Report(pinned, dry, results, outcome, outcome,
                                                WorkflowStatus(outcome, gate), gate), TRUE)
    BY <1>2
  <1> DEFINE results == {[case |-> c, contract |-> pinned[c], status |-> status[c]] :
                           c \in DOMAIN pinned}
             outcome == TestOutcome(results, dry)
  <1>4. PICK gate : reply' = Reply(by, Report(pinned, dry, results, outcome, outcome,
                                              WorkflowStatus(outcome, gate), gate), TRUE)
    BY <1>3
  <1>5. /\ \A c \in DOMAIN pinned : \E r \in results : r.case = c
        /\ \A r \in results : r.contract = pinned[r.case]
        /\ \A r \in results : r.status \in RunStatuses(dry)
    <2>1. \A c \in DOMAIN pinned : status[c] \in RunStatuses(dry)
      BY <1>3
    <2>2. \A c \in DOMAIN pinned :
             [case |-> c, contract |-> pinned[c], status |-> status[c]] \in results
      OBVIOUS
    <2>3. \A r \in results : \E c \in DOMAIN pinned :
             /\ r.case = c /\ r.contract = pinned[c] /\ r.status = status[c]
      OBVIOUS
    <2>4. ASSUME NEW c \in DOMAIN pinned
          PROVE  \E r \in results : r.case = c
      BY <2>2
    <2>5. QED
      BY <2>1, <2>3, <2>4
  <1> HIDE DEF results, pinned
  <1>6. outcome = "PASS" => ~ dry /\ AllPass(pinned, results)
    BY <1>5, OutcomePassed DEF AllPass
  <1>7. ~ dry /\ "FAIL" \in Statuses(Official(results)) => outcome = "FAIL"
    BY OutcomeFailed
  <1>8. ASSUME by = "heartbeat"
        PROVE  \/ AllPass(pinned, results)
               \/ outcome \in {"FAIL", "BLOCK", "ABORT"}
               \/ WorkflowStatus(outcome, gate) \in {"BLOCKED", "FAILED"}
    <2>1. ~ dry
      BY <1>2, <1>8
    <2>2. "NOT_RUN" \notin Statuses(Official(results))
      BY <1>5, <2>1 DEF RunStatuses, Statuses, Official
    <2>3. outcome # "NOT_RUN"
      <3>1. ResultOutcome(Official(results)) # "NOT_RUN"
        BY <2>2 DEF ResultOutcome
      <3>2. QED
        BY <2>1, <3>1 DEF TestOutcome
    <2>4. outcome \in {"PASS", "FAIL", "BLOCK", "HOLD"}
      BY <2>3, OutcomeTyped
    <2>5. outcome = "HOLD" => WorkflowStatus(outcome, gate) = "BLOCKED"
      BY DEF WorkflowStatus
    <2>6. QED
      BY <1>6, <2>4, <2>5
  <1>9. PICK workflow : workflow = WorkflowStatus(outcome, gate)
    OBVIOUS
  <1>10. /\ reply' = Reply(by, Report(pinned, dry, results, outcome, outcome, workflow, gate), TRUE)
         /\ by = "heartbeat" =>
              \/ AllPass(pinned, results)
              \/ outcome \in {"FAIL", "BLOCK", "ABORT"}
              \/ workflow \in {"BLOCKED", "FAILED"}
    BY <1>4, <1>8, <1>9
  <1> HIDE DEF outcome
  <1>11. QED
    BY <1>6, <1>7, <1>10, HonestReply

LEMMA HonestStep ==
  ASSUME IInv, Honest, [Next]_vars
  PROVE  Honest'
  <1>1. CASE UNCHANGED reply
    BY <1>1 DEF Honest, ReportHonest, QuietMeansPassed, Reported
  <1>2. CASE Start \/ Resume \/ Repair \/ Tick \/ Crash
    <2>1. reply' = NoReport
      BY <1>2 DEF Start, Resume, Repair, Tick, Crash, Begin
    <2>2. QED
      BY <2>1, NoReply
  <1>3. CASE SkipTick
    <2>1. reply'.report = NoReport
      BY <1>3 DEF SkipTick
    <2>2. QED
      BY <2>1, NoReply
  <1>4. CASE Refuse \/ AbortEarly \/ Abort
    <2>1. Abort => command.dry \in BOOLEAN
      BY DEF IInv, Abort, CommandOK
    <2>2. \E by, pinned, results : \E dry \in BOOLEAN :
            reply' = Reply(by, AbortReport(pinned, dry, results), FALSE)
      BY <1>4, <2>1 DEF Refuse, AbortEarly, Abort
    <2>3. QED
      BY <2>2, AbortedReply
  <1>5. CASE BlockOnPrerequisite
    <2>1. \E by, pinned :
            reply' = Reply(by, Report(pinned, FALSE, {}, "BLOCK", "BLOCK", "BLOCKED",
                                      "NOT_EVALUATED"), FALSE)
      BY <1>5 DEF BlockOnPrerequisite
    <2>2. QED
      BY <2>1, EmptyReply
  <1>6. CASE Work \/ \E c \in CaseIds : EditContract(c)
    <2>1. Finish \/ UNCHANGED reply
      BY <1>6 DEF Work, RunNode, HoldAtGate, StopOnFailure, Complete, EditContract
    <2>2. QED
      BY <1>1, <2>1, FinishHonest
  <1>7. CASE LegacyRun
    BY <1>7, LegacyHonest
  <1>8. UNCHANGED vars => UNCHANGED reply
    BY DEF vars
  <1>9. Next => \/ Start \/ Resume \/ Repair \/ Tick \/ Crash \/ SkipTick \/ Refuse \/ AbortEarly
                \/ Abort \/ BlockOnPrerequisite \/ Work \/ LegacyRun
                \/ \E c \in CaseIds : EditContract(c)
    BY DEF Next
  <1>10. QED
    BY <1>1, <1>2, <1>3, <1>4, <1>5, <1>6, <1>7, <1>8, <1>9

LEMMA AlwaysHonest == Spec => []Honest
  <1>1. Init => Honest
    BY DEF Init, Honest, ReportHonest, QuietMeansPassed, Reported
  <1>2. QED
    BY <1>1, HonestStep, Invariance, PTL DEF Spec

\* latest-run.json says PASS only of a real run in which every selected case passed, and
\* FAIL whenever an official result of a real run is FAIL.
THEOREM ReportsHonest == Spec => []ReportHonest
  <1>1. Honest => ReportHonest
    BY DEF Honest
  <1>2. QED
    BY <1>1, AlwaysHonest, PTL

\* A tick that ran cases and raises no alert has passed.
THEOREM QuietTicksPassed == Spec => []QuietMeansPassed
  <1>1. Honest => QuietMeansPassed
    BY DEF Honest
  <1>2. QED
    BY <1>1, AlwaysHonest, PTL

-----------------------------------------------------------------------------
(* The graphs that are compiled *)

\* What QualityGraphProofs proves of the graph of any cases, for the selected ones.
QP == INSTANCE QualityGraphProofs WITH Cases <- Selected

LEMMA SameNodes ==
  /\ Q!Context = QP!Context /\ Q!Compile = QP!Compile /\ Q!Merge = QP!Merge
  /\ Q!Gate = QP!Gate /\ Q!Publish = QP!Publish
  /\ \A c : Q!Execute(c) = QP!Execute(c) /\ Q!Verify(c) = QP!Verify(c)
  /\ Q!Executes = QP!Executes /\ Q!Verifies = QP!Verifies
  /\ Q!CompiledNodes = QP!CompiledNodes
  /\ \A name : Q!Whole(name) = QP!Whole(name)
  BY DEF Q!Context, Q!Compile, Q!Merge, Q!Gate, Q!Publish, Q!Execute, Q!Verify, Q!Executes,
         Q!Verifies, Q!CompiledNodes, Q!Whole, QP!Context, QP!Compile, QP!Merge, QP!Gate,
         QP!Publish, QP!Execute, QP!Verify, QP!Executes, QP!Verifies, QP!CompiledNodes, QP!Whole

LEMMA SameGraph ==
  /\ \A n : Q!DependsOn(n) = QP!DependsOn(n)
  /\ \A n : Q!Produces(n) = QP!Produces(n)
  /\ \A n : Q!Consumes(n) = QP!Consumes(n)
  /\ \A n : Q!RequiredInputs(n) = QP!RequiredInputs(n)
  /\ \A n : Q!Writes(n) = QP!Writes(n)
  /\ \A n : Q!Owner(n) = QP!Owner(n)
  /\ \A n : Q!Target(n) = QP!Target(n)
  /\ \A n : Q!LayerOf(n) = QP!LayerOf(n)
  /\ \A n : Q!Descendants(n) = QP!Descendants(n)
  <1>1. \A n : Q!DependsOn(n) = QP!DependsOn(n)
    BY SameNodes DEF Q!DependsOn, QP!DependsOn
  <1>2. \A n : Q!Produces(n) = QP!Produces(n)
    BY SameNodes DEF Q!Produces, QP!Produces
  <1>3. \A n : Q!Consumes(n) = QP!Consumes(n)
    BY SameNodes DEF Q!Consumes, QP!Consumes
  <1>4. \A n : Q!RequiredInputs(n) = QP!RequiredInputs(n)
    BY SameNodes, <1>3 DEF Q!RequiredInputs, QP!RequiredInputs
  <1>5. \A n : Q!Writes(n) = QP!Writes(n)
    BY SameNodes DEF Q!Writes, QP!Writes
  <1>6. \A n : Q!Owner(n) = QP!Owner(n)
    BY SameNodes DEF Q!Owner, QP!Owner
  <1>7. \A n : Q!Target(n) = QP!Target(n)
    BY SameNodes DEF Q!Target, QP!Target
  <1>8. \A n : Q!LayerOf(n) = QP!LayerOf(n)
    BY SameNodes DEF Q!LayerOf, QP!LayerOf
  <1>9. \A n : Q!Descendants(n) = QP!Descendants(n)
    BY SameNodes, <1>8 DEF Q!Descendants, QP!Descendants
  <1>10. QED
    BY <1>1, <1>2, <1>3, <1>4, <1>5, <1>6, <1>7, <1>8, <1>9

LEMMA SelectionCompiled ==
  ASSUME "" \notin Selected
  PROVE  Q!CompiledGraphValid /\ Q!CompiledLayers /\ Q!CompiledDescendants /\ Q!ResultsVerified
  <1>1. Q!CompiledLayers
    BY QP!LayersOfCompiledGraph, SameNodes, SameGraph DEF Q!CompiledLayers, QP!CompiledLayers
  <1>2. Q!ResultsVerified
    BY QP!VerifiersGuardTheMerge, SameNodes, SameGraph DEF Q!ResultsVerified, QP!ResultsVerified
  <1>3. Q!CompiledDescendants
    <2>1. QP!CompiledDescendants
      BY QP!DescendantsOfCompiledGraph DEF QP!CasesNamed
    <2>2. ASSUME NEW n \in Q!CompiledNodes
          PROVE  Q!Descendants(n) =
                   {n} \cup UNION {Q!Descendants(m) : m \in {k \in Q!CompiledNodes : n \in Q!DependsOn(k)}}
      <3>1. QP!Descendants(n) =
              {n} \cup UNION {QP!Descendants(m) :
                               m \in {k \in QP!CompiledNodes : n \in QP!DependsOn(k)}}
        BY <2>1, SameNodes DEF QP!CompiledDescendants
      <3>2. {k \in Q!CompiledNodes : n \in Q!DependsOn(k)}
              = {k \in QP!CompiledNodes : n \in QP!DependsOn(k)}
        BY SameNodes, SameGraph
      <3>3. UNION {Q!Descendants(m) : m \in {k \in Q!CompiledNodes : n \in Q!DependsOn(k)}}
              = UNION {QP!Descendants(m) : m \in {k \in QP!CompiledNodes : n \in QP!DependsOn(k)}}
        BY <3>2, SameGraph
      <3>4. QED
        BY <3>1, <3>3, SameGraph
    <2>3. QED
      BY <2>2 DEF Q!CompiledDescendants
  <1>4. Q!Valid /\ \A n \in Q!CompiledNodes :
          Q!RequiredInputs(n) \subseteq UNION {Q!Produces(d) : d \in Q!DependsOn(n)}
    <2>1. /\ QP!Valid
          /\ \A n \in QP!CompiledNodes :
                QP!RequiredInputs(n) \subseteq UNION {QP!Produces(d) : d \in QP!DependsOn(n)}
      BY QP!CompilerIsSound DEF QP!CompiledGraphValid
    <2>2. Q!DependenciesDeclared /\ Q!InputsDeclared
      BY <2>1, SameNodes, SameGraph
         DEF QP!Valid, QP!DependenciesDeclared, QP!InputsDeclared, Q!DependenciesDeclared, Q!InputsDeclared
    <2>3. Q!EdgesCarry /\ Q!SingleWriter
      BY <2>1, SameNodes, SameGraph
         DEF QP!Valid, QP!EdgesCarry, QP!SingleWriter, Q!EdgesCarry, Q!SingleWriter
    <2>4. Q!VerifiersIndependent /\ Q!IrreversibleGated
      BY <2>1, SameNodes, SameGraph
         DEF QP!Valid, QP!VerifiersIndependent, QP!IrreversibleGated, QP!IrreversibleNodes,
             QP!HumanGateNodes, Q!VerifiersIndependent, Q!IrreversibleGated,
             Q!IrreversibleNodes, Q!HumanGateNodes
    <2>5. ASSUME NEW n \in Q!CompiledNodes
          PROVE  Q!RequiredInputs(n) \subseteq UNION {Q!Produces(d) : d \in Q!DependsOn(n)}
      <3>1. QP!RequiredInputs(n) \subseteq UNION {QP!Produces(d) : d \in QP!DependsOn(n)}
        BY <2>1, SameNodes
      <3>2. UNION {QP!Produces(d) : d \in QP!DependsOn(n)} = UNION {Q!Produces(d) : d \in Q!DependsOn(n)}
        BY SameGraph
      <3>3. QED
        BY <3>1, <3>2, SameGraph
    <2>6. QED
      BY <2>2, <2>3, <2>4, <2>5 DEF Q!Valid
  <1>5. QED
    BY <1>1, <1>2, <1>3, <1>4 DEF Q!CompiledGraphValid

\* Every selection of named cases compiles to a graph that validate accepts, with the layers
\* and dependents that the executor will use.
THEOREM SelectionsCompile ==
  ASSUME "" \notin CaseIds
  PROVE  Spec => []CompiledGraphs
  <1>1. IInv => CompiledGraphs
    <2>1. ASSUME IInv, command # NoCommand
          PROVE  "" \notin Selected
      BY <2>1 DEF IInv, CommandOK, ExecutionOK, Selected
    <2>2. QED
      BY <2>1, SelectionCompiled DEF CompiledGraphs
  <1>2. QED
    BY <1>1, Invariance, PTL
=============================================================================
