----------------------------- MODULE MCTaskGraph -----------------------------
(***************************************************************************)
(* Instances of TaskGraph for TLC: the close-loop graph over two cases,    *)
(* and a short gated chain that two commands work on at the same time.     *)
(***************************************************************************)
EXTENDS TaskGraphPromise, TLC

\* compile_quality_task_graph for two cases; context.build and contract.compile
\* stand as one node, and so do the worker and the verifier of a case.
LoopNodes == {"context", "case1", "case2", "merge", "gate", "publish"}

LoopDeps ==
  [n \in LoopNodes |->
     CASE n = "context" -> {}
       [] n \in {"case1", "case2"} -> {"context"}
       [] n = "merge" -> {"case1", "case2"}
       [] n = "gate" -> {"merge"}
       [] n = "publish" -> {"merge", "gate"}]

LoopLevel ==
  [n \in LoopNodes |->
     CASE n = "context" -> 0
       [] n \in {"case1", "case2"} -> 1
       [] n = "merge" -> 2
       [] n = "gate" -> 3
       [] n = "publish" -> 4]

LoopRank == [n \in LoopNodes |-> IF n = "case2" THEN 5 ELSE LoopLevel[n]]

\* The case workers and verifiers of the close-loop graph, up to the merge
CaseNodes == {"execute1", "execute2", "verify1", "verify2", "merge"}
CaseDeps ==
  [n \in CaseNodes |->
     CASE n \in {"execute1", "execute2"} -> {}
       [] n = "verify1" -> {"execute1"}
       [] n = "verify2" -> {"execute2"}
       [] n = "merge" -> {"verify1", "verify2"}]
CaseLevel ==
  [n \in CaseNodes |->
     CASE n \in {"execute1", "execute2"} -> 0
       [] n \in {"verify1", "verify2"} -> 1
       [] n = "merge" -> 2]
CaseRank ==
  [n \in CaseNodes |-> CaseLevel[n] + IF n \in {"execute2", "verify2"} THEN 3 ELSE 0]

\* A reduced graph: one worker, its gate and the gated action
GateNodes == {"work", "gate", "act"}
GateDeps == [n \in GateNodes |-> CASE n = "work" -> {}
                                   [] n = "gate" -> {"work"}
                                   [] n = "act" -> {"work", "gate"}]
GateLevel == [n \in GateNodes |-> CASE n = "work" -> 0 [] n = "gate" -> 1 [] n = "act" -> 2]

\* The two commands differ in nothing but their name (safety only).
ProcSymmetry == Permutations(Procs)
=============================================================================
