------------------------- MODULE QualityGraphProofs -------------------------
(***************************************************************************)
(* The compiled close-loop graph is valid, and is a graph as TaskGraph     *)
(* assumes one, for every set of cases, the empty one included.            *)
(***************************************************************************)
EXTENDS QualityGraph, TLAPS

\* The kinds of nodes are told apart by their names.
LEMMA NamesDiffer ==
  /\ {Context, Compile, Merge, Gate, Publish} \cap (Executes \cup Verifies) = {}
  /\ Executes \cap Verifies = {}
  /\ Context # Compile /\ Context # Merge /\ Context # Gate /\ Context # Publish
  /\ Compile # Merge /\ Compile # Gate /\ Compile # Publish
  /\ Merge # Gate /\ Merge # Publish /\ Gate # Publish
  <1>1. /\ Context[1] = "context.build" /\ Compile[1] = "contract.compile"
        /\ Merge[1] = "merge.results" /\ Gate[1] = "gate.publish"
        /\ Publish[1] = "publish.publish"
    BY DEF Context, Compile, Merge, Gate, Publish, Whole
  <1>2. \A n \in Executes : n[1] = "execute"
    BY DEF Executes, Execute
  <1>3. \A n \in Verifies : n[1] = "verify"
    BY DEF Verifies, Verify
  <1>4. QED
    BY <1>1, <1>2, <1>3

LEMMA Dependencies ==
  /\ DependsOn(Context) = {}
  /\ DependsOn(Compile) = {Context}
  /\ \A c \in Cases : DependsOn(Execute(c)) = {Compile}
  /\ \A c \in Cases : DependsOn(Verify(c)) = {Execute(c)}
  /\ DependsOn(Merge) = IF Cases = {} THEN {Compile} ELSE Verifies
  /\ DependsOn(Gate) = {Merge}
  /\ DependsOn(Publish) = {Merge, Gate}
  <1>1. \A c \in Cases : Execute(c) \in Executes /\ Verify(c) \in Verifies
    BY DEF Executes, Verifies
  <1>2. \A c \in Cases : Verify(c)[2] = c
    BY DEF Verify
  <1>3. QED
    BY <1>1, <1>2, NamesDiffer DEF DependsOn

LEMMA Layers ==
  /\ LayerOf(Context) = 0
  /\ LayerOf(Compile) = 1
  /\ \A n \in Executes : LayerOf(n) = 2
  /\ \A n \in Verifies : LayerOf(n) = 3
  /\ LayerOf(Merge) = IF Cases = {} THEN 2 ELSE 4
  /\ LayerOf(Gate) = LayerOf(Merge) + 1
  /\ LayerOf(Publish) = LayerOf(Merge) + 2
  BY NamesDiffer DEF LayerOf

\* The layers grow along every edge and have no gap.
THEOREM LayersOfCompiledGraph == CompiledLayers
  <1> DEFINE Least(n) == /\ \A d \in DependsOn(n) : LayerOf(d) < LayerOf(n)
                         /\ LayerOf(n) > 0 => \E d \in DependsOn(n) : LayerOf(d) = LayerOf(n) - 1
  <1>1. Least(Context) /\ Least(Compile) /\ Least(Gate) /\ Least(Publish)
    BY Dependencies, Layers
  <1>2. ASSUME NEW c \in Cases
        PROVE  Least(Execute(c)) /\ Least(Verify(c))
    <2>1. Execute(c) \in Executes /\ Verify(c) \in Verifies
      BY DEF Executes, Verifies
    <2>2. QED
      BY <2>1, Dependencies, Layers
  <1>3. Least(Merge)
    <2>1. CASE Cases = {}
      BY <2>1, Dependencies, Layers
    <2>2. CASE Cases # {}
      <3>1. Verifies # {} /\ DependsOn(Merge) = Verifies /\ LayerOf(Merge) = 4
        BY <2>2, Dependencies, Layers DEF Verifies
      <3>2. QED
        BY <3>1, Layers
    <2>3. QED
      BY <2>1, <2>2
  <1>4. QED
    BY <1>1, <1>2, <1>3 DEF CompiledLayers, CompiledNodes, Executes, Verifies

LEMMA KindsOfNodes ==
  ASSUME NEW n \in CompiledNodes
  PROVE  \/ n \in {Context, Compile, Merge, Gate, Publish}
         \/ \E c \in Cases : n = Execute(c)
         \/ \E c \in Cases : n = Verify(c)
  BY DEF CompiledNodes, Executes, Verifies

LEMMA CaseNodes ==
  ASSUME NEW c \in Cases
  PROVE  /\ Execute(c) \in Executes /\ Verify(c) \in Verifies
         /\ Execute(c) \in CompiledNodes /\ Verify(c) \in CompiledNodes
         /\ Execute(c)[2] = c /\ Verify(c)[2] = c
  BY DEF Executes, Verifies, CompiledNodes, Execute, Verify

LEMMA Outputs ==
  /\ Produces(Context) = {Whole("canonical_context")}
  /\ Produces(Compile) = {Whole("compiled_contracts")}
  /\ \A c \in Cases : Produces(Execute(c)) = {<<"result", c>>}
  /\ \A c \in Cases : Produces(Verify(c)) = {<<"verified", c>>}
  /\ Produces(Merge) = {Whole("merged_report")}
  /\ Produces(Gate) = {Whole("approval:publish.publish")}
  /\ Produces(Publish) = {Whole("publication")}
  BY CaseNodes, NamesDiffer DEF Produces

LEMMA InputsOf ==
  /\ Consumes(Context) = {}
  /\ Consumes(Compile) = {Whole("canonical_context")}
  /\ \A c \in Cases : Consumes(Execute(c)) = {Whole("compiled_contracts")}
  /\ \A c \in Cases : Consumes(Verify(c)) = {<<"result", c>>}
  /\ Consumes(Merge) = IF Cases = {} THEN {Whole("compiled_contracts")}
                                     ELSE {<<"verified", c>> : c \in Cases}
  /\ Consumes(Gate) = {Whole("merged_report")}
  /\ Consumes(Publish) = {Whole("merged_report"), Whole("approval:publish.publish")}
  BY CaseNodes, NamesDiffer DEF Consumes

\* Every verified result is the output of a verifier that the merge waits for,
\* and the merge stands before the gate and the publication.
THEOREM VerifiersGuardTheMerge == ResultsVerified
  <1> SUFFICES ASSUME NEW c \in Cases, NEW n \in CompiledNodes,
                      <<"verified", c>> \in Produces(n)
               PROVE  /\ n = Verify(c)
                      /\ n \in DependsOn(Merge)
                      /\ Merge \in DependsOn(Gate) \cap DependsOn(Publish)
    BY DEF ResultsVerified
  <1>1. /\ <<"verified", c>> # Whole("canonical_context")
        /\ <<"verified", c>> # Whole("compiled_contracts")
        /\ <<"verified", c>> # Whole("merged_report")
        /\ <<"verified", c>> # Whole("approval:publish.publish")
        /\ <<"verified", c>> # Whole("publication")
    BY DEF Whole
  <1>2. n \notin {Context, Compile, Merge, Gate, Publish}
    <2>1. n # Context /\ n # Compile
      BY <1>1, Outputs
    <2>2. n # Merge /\ n # Gate /\ n # Publish
      BY <1>1, Outputs
    <2>3. QED
      BY <2>1, <2>2
  <1>3. \A d \in Cases : n # Execute(d)
    BY Outputs
  <1>4. PICK d \in Cases : n = Verify(d)
    BY <1>2, <1>3, KindsOfNodes
  <1>5. d = c
    BY <1>4, Outputs
  <1>6. Cases # {} /\ Verify(c) \in Verifies
    BY CaseNodes
  <1>7. QED
    BY <1>4, <1>5, <1>6, Dependencies

-----------------------------------------------------------------------------
(* The checks of validate *)

LEMMA DependenciesAreNodes == DependenciesDeclared
  <1> SUFFICES ASSUME NEW n \in CompiledNodes
               PROVE  DependsOn(n) \subseteq CompiledNodes
    BY DEF DependenciesDeclared
  <1>1. {Context, Compile, Merge, Gate, Publish} \cup Executes \cup Verifies = CompiledNodes
    BY DEF CompiledNodes
  <1>2. CASE n \in {Context, Compile, Merge, Gate, Publish}
    BY <1>1, <1>2, Dependencies
  <1>3. ASSUME NEW c \in Cases, n = Execute(c) \/ n = Verify(c)
        PROVE  DependsOn(n) \subseteq CompiledNodes
    BY <1>1, <1>3, CaseNodes, Dependencies
  <1>4. QED
    BY <1>2, <1>3, KindsOfNodes

LEMMA RequiredInputsAreDeclared == InputsDeclared
  BY DEF InputsDeclared, RequiredInputs

\* What every dependency delivers is consumed, so that no edge is a fake.
LEMMA EdgesCarryOutputs == EdgesCarry
  <1> SUFFICES ASSUME NEW n \in CompiledNodes, NEW d \in DependsOn(n)
               PROVE  Produces(d) \cap Consumes(n) # {}
    BY DEF EdgesCarry
  <1>1. CASE n \in {Context, Compile, Gate, Publish}
    <2>1. CASE n = Context \/ n = Compile \/ n = Gate
      BY <2>1, Dependencies, Outputs, InputsOf
    <2>2. CASE n = Publish
      <3>1. d = Merge \/ d = Gate
        BY <2>2, Dependencies
      <3>2. QED
        BY <2>2, <3>1, Outputs, InputsOf
    <2>3. QED
      BY <1>1, <2>1, <2>2
  <1>2. CASE n = Merge
    <2>1. CASE Cases = {}
      BY <1>2, <2>1, Dependencies, Outputs, InputsOf
    <2>2. CASE Cases # {}
      <3>1. PICK c \in Cases : d = Verify(c)
        BY <1>2, <2>2, Dependencies DEF Verifies
      <3>2. <<"verified", c>> \in Produces(d)
        BY <3>1, Outputs
      <3>3. <<"verified", c>> \in Consumes(n)
        BY <1>2, <2>2, InputsOf
      <3>4. QED
        BY <3>2, <3>3
    <2>3. QED
      BY <2>1, <2>2
  <1>3. ASSUME NEW c \in Cases, n = Execute(c)
        PROVE  Produces(d) \cap Consumes(n) # {}
    BY <1>3, Dependencies, Outputs, InputsOf
  <1>4. ASSUME NEW c \in Cases, n = Verify(c)
        PROVE  Produces(d) \cap Consumes(n) # {}
    <2>1. d = Execute(c)
      BY <1>4, Dependencies
    <2>2. Produces(d) = {<<"result", c>>} /\ Consumes(n) = {<<"result", c>>}
      BY <1>4, <2>1, Outputs, InputsOf
    <2>3. QED
      BY <2>2
  <1>5. QED
    BY <1>1, <1>2, <1>3, <1>4, KindsOfNodes

\* The artifact a node writes names the node.
LEMMA Artifacts ==
  /\ Writes(Context) = {Whole("context.packet")}
  /\ Writes(Compile) = {Whole("task.contracts")}
  /\ \A c \in Cases : Writes(Execute(c)) = {<<"evidence", c>>}
  /\ \A c \in Cases : Writes(Verify(c)) = {<<"verification", c>>}
  /\ Writes(Merge) = {Whole("report.latest")}
  /\ Writes(Gate) = {Whole("gate.publish")}
  /\ Writes(Publish) = {Whole("publication.latest")}
  BY CaseNodes, NamesDiffer DEF Writes

LEMMA OneWriter == SingleWriter
  <1> DEFINE Writer(n, w) ==
        \/ n = Context /\ w[1] = "context.packet"
        \/ n = Compile /\ w[1] = "task.contracts"
        \/ \E c \in Cases : n = Execute(c) /\ w[1] = "evidence" /\ w[2] = c
        \/ \E c \in Cases : n = Verify(c) /\ w[1] = "verification" /\ w[2] = c
        \/ n = Merge /\ w[1] = "report.latest"
        \/ n = Gate /\ w[1] = "gate.publish"
        \/ n = Publish /\ w[1] = "publication.latest"
  <1>1. ASSUME NEW n \in CompiledNodes, NEW w \in Writes(n)
        PROVE  Writer(n, w)
    <2>1. CASE n \in {Context, Compile, Merge, Gate, Publish}
      <3>1. \A name : Whole(name)[1] = name
        BY DEF Whole
      <3>2. QED
        BY <2>1, <3>1, Artifacts
    <2>2. ASSUME NEW c \in Cases, n = Execute(c)
          PROVE  Writer(n, w)
      <3>1. w = <<"evidence", c>>
        BY <2>2, Artifacts
      <3>2. QED
        BY <2>2, <3>1
    <2>3. ASSUME NEW c \in Cases, n = Verify(c)
          PROVE  Writer(n, w)
      <3>1. w = <<"verification", c>>
        BY <2>3, Artifacts
      <3>2. QED
        BY <2>3, <3>1
    <2>4. QED
      BY <2>1, <2>2, <2>3, KindsOfNodes
  <1>2. \A m, n, w : Writer(m, w) /\ Writer(n, w) => m = n
    OBVIOUS
  <1> HIDE DEF Writer
  <1>3. QED
    BY <1>1, <1>2 DEF SingleWriter

LEMMA VerifiersStandApart == VerifiersIndependent
  <1> SUFFICES ASSUME NEW c \in Cases
               PROVE  /\ Target(Verify(c)) \in DependsOn(Verify(c))
                      /\ Owner(Verify(c)) # Owner(Target(Verify(c)))
    BY DEF VerifiersIndependent, Verifies
  <1>1. Target(Verify(c)) = Execute(c)
    BY CaseNodes DEF Target
  <1>2. Owner(Verify(c)) = <<"verifier", c>> /\ Owner(Execute(c)) = <<"case-runner", c>>
    BY CaseNodes, NamesDiffer DEF Owner
  <1>3. QED
    BY <1>1, <1>2, Dependencies

LEMMA PublicationIsGated == IrreversibleGated
  BY Dependencies, Outputs, InputsOf DEF IrreversibleGated, IrreversibleNodes, HumanGateNodes

\* compile_quality_task_graph returns a graph that validate accepts, and no node
\* ever waits for an input that its dependencies do not deliver.
THEOREM CompilerIsSound == CompiledGraphValid
  <1>1. Valid
    BY DependenciesAreNodes, RequiredInputsAreDeclared, EdgesCarryOutputs, OneWriter,
       VerifiersStandApart, PublicationIsGated DEF Valid
  <1>2. ASSUME NEW n \in CompiledNodes
        PROVE  RequiredInputs(n) \subseteq UNION {Produces(d) : d \in DependsOn(n)}
    <2>1. CASE n = Merge
      BY <2>1 DEF RequiredInputs
    <2>2. CASE n \in {Context, Compile, Gate}
      BY <2>2, Dependencies, Outputs, InputsOf, NamesDiffer DEF RequiredInputs
    <2>3. CASE n = Publish
      <3>1. Produces(Merge) \cup Produces(Gate) = UNION {Produces(d) : d \in DependsOn(n)}
        BY <2>3, Dependencies
      <3>2. QED
        BY <2>3, <3>1, Outputs, InputsOf DEF RequiredInputs
    <2>4. ASSUME NEW c \in Cases, n = Execute(c)
          PROVE  RequiredInputs(n) \subseteq UNION {Produces(d) : d \in DependsOn(n)}
      BY <2>4, Dependencies, Outputs, InputsOf DEF RequiredInputs
    <2>5. ASSUME NEW c \in Cases, n = Verify(c)
          PROVE  RequiredInputs(n) \subseteq UNION {Produces(d) : d \in DependsOn(n)}
      BY <2>5, Dependencies, Outputs, InputsOf DEF RequiredInputs
    <2>6. QED
      BY <2>1, <2>2, <2>3, <2>4, <2>5, KindsOfNodes
  <1>3. QED
    BY <1>1, <1>2 DEF CompiledGraphValid

\* The nodes of no case, and where a node of a case may lie.
LEMMA CaseOf ==
  /\ Context[2] = "" /\ Compile[2] = "" /\ Merge[2] = "" /\ Gate[2] = "" /\ Publish[2] = ""
  /\ Context \in CompiledNodes /\ Compile \in CompiledNodes /\ Merge \in CompiledNodes
  /\ Gate \in CompiledNodes /\ Publish \in CompiledNodes
  BY DEF Context, Compile, Merge, Gate, Publish, Whole, CompiledNodes

LEMMA TopLayers ==
  /\ LayerOf(Merge) \in Nat /\ LayerOf(Gate) \in Nat /\ LayerOf(Publish) \in Nat
  /\ LayerOf(Merge) > 1 /\ LayerOf(Merge) < LayerOf(Gate) /\ LayerOf(Gate) < LayerOf(Publish)
  /\ LayerOf(Merge) < LayerOf(Publish)
  /\ Cases # {} => LayerOf(Merge) = 4 /\ LayerOf(Gate) = 5 /\ LayerOf(Publish) = 6
  BY Layers

LEMMA NodeLayers ==
  ASSUME NEW n \in CompiledNodes
  PROVE  /\ LayerOf(n) \in Nat
         /\ LayerOf(n) > 0 => n # Context
         /\ LayerOf(n) < 2 => n \in {Context, Compile}
         /\ LayerOf(n) > 1 => n \notin {Context, Compile}
         /\ LayerOf(n) > 2 /\ Cases # {} =>
              n \in {Merge, Gate, Publish} \/ \E c \in Cases : n = Verify(c)
         /\ LayerOf(n) > 3 \/ (LayerOf(n) > 1 /\ Cases = {}) => n \in {Merge, Gate, Publish}
         /\ LayerOf(n) > LayerOf(Merge) => n \in {Gate, Publish}
         /\ LayerOf(n) > LayerOf(Gate) => n = Publish
         /\ ~ LayerOf(n) > LayerOf(Publish)
  <1>1. Cases = {} => Executes = {} /\ Verifies = {}
    BY DEF Executes, Verifies
  <1>2. CASE n \in {Context, Compile, Merge, Gate, Publish}
    BY <1>2, Layers, NamesDiffer
  <1>3. ASSUME NEW c \in Cases, n = Execute(c) PROVE n \in Executes
    BY <1>3, CaseNodes
  <1>4. ASSUME NEW c \in Cases, n = Verify(c) PROVE n \in Verifies
    BY <1>4, CaseNodes
  <1>5. CASE n \in Executes
    BY <1>1, <1>5, Layers, NamesDiffer
  <1>6. CASE n \in Verifies
    <2>1. PICK c \in Cases : n = Verify(c)
      BY <1>6 DEF Verifies
    <2>2. LayerOf(n) = 3 /\ LayerOf(Merge) = 4 /\ Cases # {}
      BY <1>6, <2>1, Layers
    <2>3. QED
      BY <2>1, <2>2, <1>6, Layers, NamesDiffer
  <1>7. QED
    BY <1>2, <1>3, <1>4, <1>5, <1>6, KindsOfNodes

\* No case has the empty name, by which the nodes of no case are known here.
CasesNamed == "" \notin Cases

\* What invalidate_from removes is the closure under dependents.
THEOREM DescendantsOfCompiledGraph ==
  ASSUME CasesNamed
  PROVE  CompiledDescendants
  <1> DEFINE Dependents(n) == {m \in CompiledNodes : n \in DependsOn(m)}
             Closure(n) == {n} \cup UNION {Descendants(m) : m \in Dependents(n)}
  <1>1. ASSUME NEW n \in CompiledNodes, NEW m \in Dependents(n), NEW x \in Descendants(m)
        PROVE  x \in Descendants(n)
    <2>1. LayerOf(n) < LayerOf(m) /\ m \in CompiledNodes /\ n \in DependsOn(m)
      BY LayersOfCompiledGraph DEF CompiledLayers
    <2>2. /\ x \in CompiledNodes /\ LayerOf(n) < LayerOf(x)
          /\ m = x \/ (LayerOf(m) < LayerOf(x) /\ (m[2] = x[2] \/ m[2] = "" \/ x[2] = ""))
      <3>1. x \in CompiledNodes
        BY <2>1 DEF Descendants
      <3>2. m = x \/ (LayerOf(m) < LayerOf(x) /\ (m[2] = x[2] \/ m[2] = "" \/ x[2] = ""))
        BY DEF Descendants
      <3>3. LayerOf(n) \in Nat /\ LayerOf(m) \in Nat /\ LayerOf(x) \in Nat
        BY <2>1, <3>1, NodeLayers
      <3>4. m = x \/ LayerOf(m) < LayerOf(x)
        BY <3>2
      <3>5. LayerOf(n) < LayerOf(x)
        BY <2>1, <3>3, <3>4
      <3>6. QED
        BY <3>1, <3>2, <3>5
    <2>3. n[2] = x[2] \/ n[2] = "" \/ x[2] = ""
      <3>1. CASE m = Compile \/ m = Gate \/ m = Publish \/ (m = Merge /\ Cases = {})
        BY <2>1, <3>1, Dependencies, CaseOf
      <3>2. CASE m = Context
        BY <2>1, <3>2, Dependencies
      <3>3. CASE m = Merge /\ Cases # {}
        <4>1. x = Merge \/ LayerOf(x) > LayerOf(Merge)
          BY <2>2, <3>3
        <4>2. QED
          BY <2>2, <4>1, NodeLayers, CaseOf
      <3>4. ASSUME NEW c \in Cases, m = Execute(c)
            PROVE  n[2] = x[2] \/ n[2] = "" \/ x[2] = ""
        BY <2>1, <3>4, Dependencies, CaseOf
      <3>5. ASSUME NEW c \in Cases, m = Verify(c)
            PROVE  n[2] = x[2] \/ n[2] = "" \/ x[2] = ""
        <4>1. n = Execute(c)
          BY <2>1, <3>5, Dependencies
        <4>2. n[2] = m[2] /\ m[2] # ""
          BY <3>5, <4>1, CaseNodes DEF CasesNamed
        <4>3. QED
          BY <2>2, <4>2
      <3>6. QED
        BY <2>1, <3>1, <3>2, <3>3, <3>4, <3>5, KindsOfNodes
    <2>4. QED
      BY <2>2, <2>3 DEF Descendants
  <1>2. ASSUME NEW n \in CompiledNodes, NEW x \in Descendants(n), x # n
        PROVE  \E m \in Dependents(n) : x \in Descendants(m)
    <2>1. /\ x \in CompiledNodes /\ LayerOf(n) < LayerOf(x)
          /\ LayerOf(n) \in Nat /\ LayerOf(x) \in Nat
      BY <1>2, NodeLayers DEF Descendants
    <2>12. n[2] = x[2] \/ n[2] = "" \/ x[2] = ""
      BY <1>2 DEF Descendants
    <2>2. ASSUME NEW m \in Dependents(n), m = x \/ LayerOf(m) < LayerOf(x), m[2] = "" \/ x[2] = ""
          PROVE  x \in Descendants(m)
      BY <2>1, <2>2 DEF Descendants
    <2>3. CASE n = Context
      <3>1. Compile \in Dependents(n)
        BY <2>3, Dependencies, CaseOf
      <3>2. x = Compile \/ LayerOf(x) > 1
        <4>1. LayerOf(x) \in Nat /\ LayerOf(x) > 0
          BY <2>1, <2>3, Layers
        <4>2. QED
          BY <2>1, <4>1, NodeLayers
      <3>3. LayerOf(Compile) = 1
        BY Layers
      <3>4. QED
        BY <2>2, <3>1, <3>2, <3>3, CaseOf
    <2>4. CASE n = Compile /\ Cases = {}
      <3>1. Merge \in Dependents(n)
        BY <2>4, Dependencies, CaseOf
      <3>2. x \in {Merge, Gate, Publish}
        BY <2>1, <2>4, Layers, NodeLayers
      <3>3. QED
        BY <2>2, <3>1, <3>2, TopLayers, CaseOf
    <2>5. CASE n = Compile /\ Cases # {}
      <3>1. \A c \in Cases : Execute(c) \in Dependents(n) /\ LayerOf(Execute(c)) = 2
        BY <2>5, Dependencies, CaseNodes, Layers
      <3>2. ASSUME NEW c \in Cases, x = Execute(c)
            PROVE  \E m \in Dependents(n) : x \in Descendants(m)
        BY <3>1, <3>2 DEF Descendants
      <3>3. ASSUME NEW c \in Cases, x = Verify(c)
            PROVE  \E m \in Dependents(n) : x \in Descendants(m)
        <4>1. LayerOf(x) = 3 /\ x[2] = Execute(c)[2]
          BY <3>3, Layers, CaseNodes
        <4>2. x \in Descendants(Execute(c))
          <5>1. LayerOf(Execute(c)) = 2 /\ LayerOf(x) = 3
            BY <3>1, <4>1
          <5>2. LayerOf(Execute(c)) < LayerOf(x)
            BY <5>1
          <5>3. QED
            BY <2>1, <4>1, <5>2 DEF Descendants
        <4>3. QED
          BY <3>1, <4>2
      <3>4. CASE x \in {Merge, Gate, Publish}
        <4>1. PICK c \in Cases : TRUE
          BY <2>5
        <4>2. LayerOf(x) \in {4, 5, 6}
          BY <2>5, <3>4, TopLayers
        <4>3. Execute(c) \in Dependents(n)
          BY <3>1
        <4>4. LayerOf(Execute(c)) < LayerOf(x)
          BY <3>1, <4>2
        <4>5. x[2] = ""
          BY <3>4, CaseOf
        <4>6. QED
          BY <4>3, <4>4, <4>5, <2>2
      <3>5. QED
        BY <2>1, <2>5, <3>2, <3>3, <3>4, Layers, NodeLayers, KindsOfNodes
    <2>6. ASSUME NEW c \in Cases, n = Execute(c)
          PROVE  \E m \in Dependents(n) : x \in Descendants(m)
      <3>1. /\ Verify(c) \in Dependents(n) /\ LayerOf(Verify(c)) = 3 /\ Verify(c)[2] = c
            /\ LayerOf(n) = 2 /\ n[2] = c /\ c # "" /\ Cases # {}
        BY <2>6, Dependencies, CaseNodes, Layers DEF CasesNamed
      <3>2. x \in {Merge, Gate, Publish} \/ \E d \in Cases : x = Verify(d)
        BY <2>1, <3>1, NodeLayers
      <3>3. CASE x \in {Merge, Gate, Publish}
        <4>1. LayerOf(x) \in {4, 5, 6}
          BY <3>1, <3>3, TopLayers
        <4>2. LayerOf(Verify(c)) = 3
          BY <3>1
        <4>3. LayerOf(Verify(c)) < LayerOf(x)
          BY <4>1, <4>2
        <4>4. x[2] = ""
          BY <3>3, CaseOf
        <4>5. QED
          BY <3>1, <4>3, <4>4, <2>2
      <3>4. ASSUME NEW d \in Cases, x = Verify(d)
            PROVE  x = Verify(c)
        <4>1. x[2] = d /\ d # ""
          BY <3>4, CaseNodes DEF CasesNamed
        <4>2. QED
          BY <2>12, <3>1, <3>4, <4>1
      <3>5. QED
        BY <3>1, <3>2, <3>3, <3>4 DEF Descendants
    <2>7. ASSUME NEW c \in Cases, n = Verify(c)
          PROVE  \E m \in Dependents(n) : x \in Descendants(m)
      <3>1. Merge \in Dependents(n) /\ LayerOf(n) = 3 /\ Cases # {}
        BY <2>7, Dependencies, CaseNodes, CaseOf, Layers
      <3>2. x \in {Merge, Gate, Publish}
        BY <2>1, <3>1, NodeLayers
      <3>3. QED
        BY <2>2, <3>1, <3>2, TopLayers, CaseOf
    <2>8. CASE n = Merge
      <3>1. Gate \in Dependents(n)
        BY <2>8, Dependencies, CaseOf
      <3>2. x \in {Gate, Publish}
        BY <2>1, <2>8, NodeLayers
      <3>3. QED
        BY <2>2, <3>1, <3>2, TopLayers, CaseOf
    <2>9. CASE n = Gate
      <3>1. Publish \in Dependents(n)
        BY <2>9, Dependencies, CaseOf
      <3>2. x = Publish
        BY <2>1, <2>9, NodeLayers
      <3>3. QED
        BY <2>2, <3>1, <3>2, CaseOf
    <2>10. CASE n = Publish
      BY <2>1, <2>10, NodeLayers
    <2>11. QED
      BY <2>3, <2>4, <2>5, <2>6, <2>7, <2>8, <2>9, <2>10, KindsOfNodes
  <1>3. ASSUME NEW n \in CompiledNodes
        PROVE  Descendants(n) = Closure(n)
    <2>1. n \in Descendants(n)
      BY DEF Descendants
    <2>2. Closure(n) \subseteq Descendants(n)
      BY <2>1, <1>1
    <2>3. Descendants(n) \subseteq Closure(n)
      BY <1>2
    <2>4. QED
      BY <2>2, <2>3
  <1>4. QED
    BY <1>3 DEF CompiledDescendants
=============================================================================
