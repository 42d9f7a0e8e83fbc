---------------------------- MODULE QualityGraph ----------------------------
(***************************************************************************)
(* The close-loop graph that compile_quality_task_graph builds for a set   *)
(* of case contracts, and what TaskGraph.validate demands of a graph.      *)
(* A node, an artifact or an owner is a pair <<name, case>>; those of the  *)
(* graph as a whole have no case.                                          *)
(***************************************************************************)
EXTENDS Integers, FiniteSets

CONSTANT Cases  \* the selected case ids; equal ids are merged

Whole(name) == <<name, "">>

Context == Whole("context.build")
Compile == Whole("contract.compile")
Merge == Whole("merge.results")
Gate == Whole("gate.publish")
Publish == Whole("publish.publish")
Execute(c) == <<"execute", c>>
Verify(c) == <<"verify", c>>

Executes == {Execute(c) : c \in Cases}
Verifies == {Verify(c) : c \in Cases}

CompiledNodes == {Context, Compile, Merge, Gate, Publish} \cup Executes \cup Verifies

-----------------------------------------------------------------------------
(* The compiled nodes *)

\* Mutant: the merge waits for the workers instead of the verifiers.
DependsPastVerifier(n) ==
  CASE n = Context -> {}
    [] n = Compile -> {Context}
    [] n \in Executes -> {Compile}
    [] n \in Verifies -> {Execute(n[2])}
    [] n = Merge -> IF Cases = {} THEN {Compile} ELSE Executes
    [] n = Gate -> {Merge}
    [] n = Publish -> {Merge, Gate}

DependsOn(n) ==
  CASE n = Context -> {}
    [] n = Compile -> {Context}
    [] n \in Executes -> {Compile}
    [] n \in Verifies -> {Execute(n[2])}
    [] n = Merge -> IF Cases = {} THEN {Compile} ELSE Verifies
    [] n = Gate -> {Merge}
    [] n = Publish -> {Merge, Gate}

Produces(n) ==
  CASE n = Context -> {Whole("canonical_context")}
    [] n = Compile -> {Whole("compiled_contracts")}
    [] n \in Executes -> {<<"result", n[2]>>}
    [] n \in Verifies -> {<<"verified", n[2]>>}
    [] n = Merge -> {Whole("merged_report")}
    [] n = Gate -> {Whole("approval:publish.publish")}
    [] n = Publish -> {Whole("publication")}

Consumes(n) ==
  CASE n = Context -> {}
    [] n = Compile -> {Whole("canonical_context")}
    [] n \in Executes -> {Whole("compiled_contracts")}
    [] n \in Verifies -> {<<"result", n[2]>>}
    [] n = Merge -> IF Cases = {} THEN {Whole("compiled_contracts")}
                                  ELSE {<<"verified", c>> : c \in Cases}
    [] n = Gate -> {Whole("merged_report")}
    [] n = Publish -> {Whole("merged_report"), Whole("approval:publish.publish")}

\* The merge declares what it consumes but requires none of it.
RequiredInputs(n) == IF n = Merge THEN {} ELSE Consumes(n)

Writes(n) ==
  CASE n = Context -> {Whole("context.packet")}
    [] n = Compile -> {Whole("task.contracts")}
    [] n \in Executes -> {<<"evidence", n[2]>>}
    [] n \in Verifies -> {<<"verification", n[2]>>}
    [] n = Merge -> {Whole("report.latest")}
    [] n = Gate -> {Whole("gate.publish")}
    [] n = Publish -> {Whole("publication.latest")}

\* The owner; the context scope of every node is named after it.
Owner(n) ==
  CASE n = Context -> Whole("context-builder")
    [] n = Compile -> Whole("contract-compiler")
    [] n \in Executes -> <<"case-runner", n[2]>>
    [] n \in Verifies -> <<"verifier", n[2]>>
    [] n = Merge -> Whole("merge-owner")
    [] n = Gate -> Whole("human")
    [] n = Publish -> Whole("publisher")

Target(n) == Execute(n[2])  \* the worker that verifier n verifies

HumanGateNodes == {Gate}
IrreversibleNodes == {Publish}

-----------------------------------------------------------------------------
(* TaskGraph.validate, check by check *)

\* "task_dependency_missing"
DependenciesDeclared == \A n \in CompiledNodes : DependsOn(n) \subseteq CompiledNodes

\* "task_contract_input_not_declared"
InputsDeclared == \A n \in CompiledNodes : RequiredInputs(n) \subseteq Consumes(n)

\* "fake_task_edge": every edge carries an artifact
EdgesCarry ==
  \A n \in CompiledNodes : \A d \in DependsOn(n) : Produces(d) \cap Consumes(n) # {}

\* "multiple_task_writers"
SingleWriter ==
  \A m, n \in CompiledNodes : Writes(m) \cap Writes(n) # {} => m = n

\* "verifier_dependency_missing" and "verifier_context_not_separate"
VerifiersIndependent ==
  \A n \in Verifies : /\ Target(n) \in DependsOn(n)
                      /\ Owner(n) # Owner(Target(n))

\* "irreversible_task_missing_human_gate"
IrreversibleGated ==
  \A n \in IrreversibleNodes :
     \E g \in DependsOn(n) \cap HumanGateNodes :
        /\ Whole("approval:publish.publish") \in Produces(g)
        /\ Whole("approval:publish.publish") \in Consumes(n)

Valid ==
  /\ DependenciesDeclared
  /\ InputsDeclared
  /\ EdgesCarry
  /\ SingleWriter
  /\ VerifiersIndependent
  /\ IrreversibleGated

\* Where topological_layers puts each node.
LayerOf(n) ==
  LET merge == IF Cases = {} THEN 2 ELSE 4
  IN  CASE n = Context -> 0
        [] n = Compile -> 1
        [] n \in Executes -> 2
        [] n \in Verifies -> 3
        [] n = Merge -> merge
        [] n = Gate -> merge + 1
        [] n = Publish -> merge + 2

\* What a repair of node n invalidates: n and the nodes of later layers that its
\* output reaches.  A worker and its verifier reach no other case.
Descendants(n) ==
  {n} \cup {m \in CompiledNodes :
             /\ LayerOf(n) < LayerOf(m)
             /\ n[2] = m[2] \/ n[2] = "" \/ m[2] = ""}

-----------------------------------------------------------------------------
(* Properties *)

\* compile_quality_task_graph never builds a graph its own validate refuses,
\* and whatever a node requires as input is delivered by what it depends on, so
\* that no node is blocked for want of a declared input.
CompiledGraphValid ==
  /\ Valid
  /\ \A n \in CompiledNodes :
        RequiredInputs(n) \subseteq UNION {Produces(d) : d \in DependsOn(n)}

\* The verifiers stand between every result and the merge: without the verified
\* results nothing reaches the gate or the publication.
ResultsVerified ==
  \A c \in Cases : \A n \in CompiledNodes :
     <<"verified", c>> \in Produces(n) =>
        /\ n = Verify(c)
        /\ n \in DependsOn(Merge)
        /\ Merge \in DependsOn(Gate) \cap DependsOn(Publish)

\* The layers of the compiled graph are the least that put every node after its
\* dependencies: what TaskGraph assumes of Level, and TaskTopology computes.
CompiledLayers ==
  \A n \in CompiledNodes :
     /\ \A d \in DependsOn(n) : LayerOf(d) < LayerOf(n)
     /\ LayerOf(n) > 0 => \E d \in DependsOn(n) : LayerOf(d) = LayerOf(n) - 1

\* Descendants is the closure under dependents, as invalidate_from computes it.
CompiledDescendants ==
  \A n \in CompiledNodes :
     Descendants(n) =
       {n} \cup UNION {Descendants(m) : m \in {k \in CompiledNodes : n \in DependsOn(k)}}
=============================================================================
