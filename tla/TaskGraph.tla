------------------------------ MODULE TaskGraph ------------------------------
(***************************************************************************)
(* The task graph executor of task_graph.py: TaskGraphExecutor.execute,    *)
(* its targeted repair (invalidate_from) and the checkpoint file that      *)
(* TaskCheckpointStore loads and replaces atomically.                      *)
(*                                                                         *)
(* Several commands (Procs) may work on one project directory: each keeps  *)
(* its own execution in memory (mem) and they share one checkpoint file    *)
(* (disk), which no lock protects.                                         *)
(*                                                                         *)
(* An output is abstracted to what the properties tell apart: the number   *)
(* of the commit that produced it (version), the versions of the inputs it *)
(* was computed from (used) and, for a human gate, whether the operator    *)
(* had approved it (approved).                                             *)
(***************************************************************************)
EXTENDS Integers, FiniteSets

CONSTANTS
  Nodes,          \* the nodes of the validated graph
  Deps,           \* node -> the nodes it depends on (and consumes from)
  Level,          \* node -> its layer, as topological_layers numbers them
  Depth,          \* the last layer
  Rank,           \* node -> its place in the sorted order of a layer
  HumanGates,     \* nodes of kind human_gate
  Irreversible,   \* nodes with irreversible=True
  MaxRounds,      \* TaskGraph.max_rounds, the stop rule of repair
  MaxWorkers,     \* max_workers, the size of the thread pool
  PersistRepair,  \* does the caller save the invalidated checkpoint at once?
  Shortages,      \* the sets of nodes whose context or inputs may be missing
  Procs,          \* commands that may be under way at the same time
  MaxCommands,    \* bound: commands started in one behaviour
  NoCheckpoint,   \* there is no checkpoint file
  Foreign         \* the checkpoint file was written for another graph

ASSUME GraphAssumption ==
  /\ Deps \in [Nodes -> SUBSET Nodes]
  /\ Depth \in Nat
  /\ Level \in [Nodes -> 0..Depth]
  /\ \A n \in Nodes : \A d \in Deps[n] : Level[d] < Level[n]
  /\ Rank \in [Nodes -> Nat]
  /\ \A m, n \in Nodes : Rank[m] = Rank[n] => m = n
  /\ HumanGates \subseteq Nodes
  /\ Irreversible \subseteq Nodes
  /\ \A n \in Irreversible : Deps[n] \cap HumanGates # {}

ASSUME BoundAssumption ==
  /\ MaxRounds \in Nat \ {0}
  /\ MaxWorkers \in Nat \ {0}
  /\ PersistRepair \in BOOLEAN
  /\ Shortages \subseteq SUBSET Nodes
  /\ MaxCommands \in Nat

VARIABLES
  disk,       \* the checkpoint file
  mem,        \* mem[p]: the TaskExecution of command p
  pc,         \* pc[p]: "idle", "layer" (readiness pass) or "run" (workers)
  layer,      \* layer[p]: the layer command p has reached
  approvals,  \* approvals[p]: the gates the operator approved for command p
  lacking,    \* lacking[p]: nodes whose context fact or input is missing
  work,       \* work[p][n]: the worker of node n in the layer under way
  made,       \* number of outputs so far; it names them
  starts,     \* number of fresh starts so far
  repairs,    \* number of accepted repairs so far
  commands    \* number of commands so far

vars == <<disk, mem, pc, layer, approvals, lacking, work,
          made, starts, repairs, commands>>

-----------------------------------------------------------------------------
(* Records, checkpoints and workers *)

Outcomes == {"PASS", "FAIL", "HOLD"}
Statuses == Outcomes \cup {"ABSENT", "BLOCK", "SKIPPED"}

NodeRecord == [status : Statuses, attempts : Nat, version : Nat,
               used : SUBSET Nat, approved : BOOLEAN]

\* A record that carries no output. "ABSENT" stands for a node with no record.
Bare(status, attempts) ==
  [status |-> status, attempts |-> attempts, version |-> 0,
   used |-> {}, approved |-> FALSE]

Absent == Bare("ABSENT", 0)

Checkpoint == [status : Outcomes \cup {"PENDING", "BLOCK"},
               round : 1..MaxRounds,
               nodes : [Nodes -> NodeRecord]]

FreshExecution ==
  [status |-> "PENDING", round |-> 1, nodes |-> [n \in Nodes |-> Absent]]

Worker == [state : {"none", "queued", "running", "done"} \cup Outcomes,
           inputs : SUBSET Nat]

NoWorker == [state |-> "none", inputs |-> {}]
NoWork == [n \in Nodes |-> NoWorker]

\* The versions of what node n is given: the outputs of its dependencies.
Inputs(execution, n) == {execution.nodes[d].version : d \in Deps[n]}

Passed(execution) == {n \in Nodes : execution.nodes[n].status = "PASS"}

\* What the loop over graph.nodes collects from node n: n and every node that
\* depends on it, directly or not (the least set closed under dependents).
DependentsClosed(S) == \A k \in Nodes : Deps[k] \cap S # {} => k \in S

Downstream ==
  [n \in Nodes |->
     {m \in Nodes : \A S \in SUBSET Nodes :
                       n \in S /\ DependentsClosed(S) => m \in S}]

\* _mark_descendants_skipped: only descendants without any record change.
MarkSkipped(nodes, n) ==
  [m \in Nodes |->
     IF m \in Downstream[n] \ {n} /\ nodes[m].status = "ABSENT"
       THEN Bare("SKIPPED", 0)
       ELSE nodes[m]]

\* Mutant: a repair forgets the node itself and leaves its descendants alone.
InvalidateNodeOnly(checkpoint, n) ==
  [status |-> "PENDING",
   round |-> checkpoint.round + 1,
   nodes |-> [checkpoint.nodes EXCEPT ![n] = Absent]]

\* Mutant: a repair forgets the node and its direct dependents only.
InvalidateDependents(checkpoint, n) ==
  [status |-> "PENDING",
   round |-> checkpoint.round + 1,
   nodes |-> [m \in Nodes |-> IF m = n \/ n \in Deps[m]
                                THEN Absent ELSE checkpoint.nodes[m]]]

\* invalidate_from: node n and its descendants lose their records.
InvalidateFrom(checkpoint, n) ==
  [status |-> "PENDING",
   round |-> checkpoint.round + 1,
   nodes |-> [m \in Nodes |-> IF m \in Downstream[n]
                                THEN Absent ELSE checkpoint.nodes[m]]]

First(n, S) == n \in S /\ \A m \in S : Rank[n] <= Rank[m]

-----------------------------------------------------------------------------
Init ==
  /\ disk = NoCheckpoint
  /\ mem = [p \in Procs |-> FreshExecution]
  /\ pc = [p \in Procs |-> "idle"]
  /\ layer = [p \in Procs |-> 0]
  /\ approvals = [p \in Procs |-> {}]
  /\ lacking = [p \in Procs |-> {}]
  /\ work = [p \in Procs |-> NoWork]
  /\ made = 0
  /\ starts = 0
  /\ repairs = 0
  /\ commands = 0

(***************************************************************************)
(* Commands.  Each ends by calling execute with the execution it built.    *)
(***************************************************************************)
HasCheckpoint == disk \notin {NoCheckpoint, Foreign}

Begin(p, execution, granted, short) ==
  /\ pc[p] = "idle"
  /\ commands < MaxCommands
  /\ commands' = commands + 1
  /\ mem' = [mem EXCEPT ![p] = execution]
  /\ pc' = [pc EXCEPT ![p] = "layer"]
  /\ layer' = [layer EXCEPT ![p] = 0]
  /\ approvals' = [approvals EXCEPT ![p] = granted]
  /\ lacking' = [lacking EXCEPT ![p] = short]
  /\ UNCHANGED <<work, made>>

\* A run without --resume ignores the checkpoint file.
Start(p) ==
  /\ \E granted \in SUBSET HumanGates, short \in Shortages :
        Begin(p, FreshExecution, granted, short)
  /\ starts' = starts + 1
  /\ UNCHANGED <<disk, repairs>>

\* --resume: records and round come from the file, the status does not.
Resume(p) ==
  /\ HasCheckpoint
  /\ \E granted \in SUBSET HumanGates, short \in Shortages :
        Begin(p, [disk EXCEPT !.status = "PENDING"], granted, short)
  /\ UNCHANGED <<disk, starts, repairs>>

\* Mutant: off by one in the stop rule.
RepairOnceMore(p, n) ==
  /\ HasCheckpoint
  /\ disk.round <= MaxRounds
  /\ \E granted \in SUBSET HumanGates, short \in Shortages :
        Begin(p, InvalidateFrom(disk, n), granted, short)
  /\ disk' = IF PersistRepair THEN InvalidateFrom(disk, n) ELSE disk
  /\ repairs' = repairs + 1
  /\ UNCHANGED starts

\* Mutant: the invalidated checkpoint is saved only with the first result.
RepairNotSaved(p, n) ==
  /\ HasCheckpoint
  /\ disk.round < MaxRounds
  /\ \E granted \in SUBSET HumanGates, short \in Shortages :
        Begin(p, InvalidateFrom(disk, n), granted, short)
  /\ repairs' = repairs + 1
  /\ UNCHANGED <<disk, starts>>

\* --repair-node: refused once the round would exceed max_rounds.
Repair(p, n) ==
  /\ HasCheckpoint
  /\ disk.round < MaxRounds
  /\ \E granted \in SUBSET HumanGates, short \in Shortages :
        Begin(p, InvalidateFrom(disk, n), granted, short)
  /\ disk' = IF PersistRepair THEN InvalidateFrom(disk, n) ELSE disk
  /\ repairs' = repairs + 1
  /\ UNCHANGED starts

\* A run over another selection of cases (another contract hash) saves to the
\* same file; load() then refuses it for this graph.
OtherGraphRuns ==
  /\ commands < MaxCommands
  /\ commands' = commands + 1
  /\ disk' = Foreign
  /\ UNCHANGED <<mem, pc, layer, approvals, lacking, work, made, starts, repairs>>

(***************************************************************************)
(* The readiness pass over one layer                                       *)
(***************************************************************************)
\* Mutant: a resume runs what has passed again.
UnsettledOrPassed(p) == {n \in Nodes : Level[n] = layer[p]}

Unsettled(p) == {n \in Nodes : Level[n] = layer[p] /\ n \notin Passed(mem[p])}

\* Nodes the pass records as SKIPPED, "dependency_not_passed".
Orphans(p) == {n \in Unsettled(p) : ~ (Deps[n] \subseteq Passed(mem[p]))}

\* Mutant: an approval given to any command opens the gate for all.
UnapprovedByAnyone(p, n) == n \in HumanGates \ UNION {approvals[q] : q \in Procs}

Unapproved(p, n) == n \in HumanGates \ approvals[p]

\* Mutant: the readiness pass looks at context and inputs, not at approvals.
StoppersButGates(p) == {n \in Unsettled(p) \ Orphans(p) : n \in lacking[p]}

\* Nodes at which the pass gives up: HOLD at a gate, else BLOCK.
Stoppers(p) ==
  {n \in Unsettled(p) \ Orphans(p) : Unapproved(p, n) \/ n \in lacking[p]}

Runnable(p) == Unsettled(p) \ (Orphans(p) \cup Stoppers(p))

SkipOrphans(p, before) ==
  [m \in Nodes |-> IF m \in Orphans(p) /\ before[m]
                     THEN Bare("SKIPPED", 0) ELSE mem[p].nodes[m]]

\* What a command knew besides its execution is gone when it ends.
Leave(p) ==
  /\ pc' = [pc EXCEPT ![p] = "idle"]
  /\ layer' = [layer EXCEPT ![p] = 0]
  /\ approvals' = [approvals EXCEPT ![p] = {}]
  /\ lacking' = [lacking EXCEPT ![p] = {}]
  /\ work' = [work EXCEPT ![p] = NoWork]

\* Mutant: the status is written over whatever records the file holds.
FinishStatusOnly(p, status, nodes) ==
  /\ mem' = [mem EXCEPT ![p] = [status |-> status, round |-> @.round, nodes |-> nodes]]
  /\ disk' = IF HasCheckpoint THEN [disk EXCEPT !.status = status] ELSE mem'[p]
  /\ Leave(p)
  /\ UNCHANGED <<made, starts, repairs, commands>>

\* Return from execute: the execution is saved and the command ends.
Finish(p, status, nodes) ==
  /\ mem' = [mem EXCEPT ![p] = [status |-> status, round |-> @.round, nodes |-> nodes]]
  /\ disk' = mem'[p]
  /\ Leave(p)
  /\ UNCHANGED <<made, starts, repairs, commands>>

StopAtNode(p, n) ==
  /\ pc[p] = "layer"
  /\ First(n, Stoppers(p))
  /\ LET status == IF Unapproved(p, n) THEN "HOLD" ELSE "BLOCK"
         nodes == SkipOrphans(p, [m \in Nodes |-> Rank[m] < Rank[n]])
     IN  Finish(p, status,
                MarkSkipped([nodes EXCEPT ![n] = Bare(status, 0)], n))

\* Every node of the layer that is not PASS goes to the pool with its inputs.
Dispatch(p) ==
  /\ pc[p] = "layer"
  /\ Stoppers(p) = {}
  /\ Runnable(p) # {}
  /\ mem' = [mem EXCEPT ![p].nodes = SkipOrphans(p, [m \in Nodes |-> TRUE])]
  /\ disk' = IF Orphans(p) = {} THEN disk ELSE mem'[p]
  /\ work' = [work EXCEPT ![p] =
                [n \in Nodes |->
                   IF n \in Runnable(p)
                     THEN [state |-> "queued",
                           inputs |-> Inputs(mem[p], n)]
                     ELSE NoWorker]]
  /\ pc' = [pc EXCEPT ![p] = "run"]
  /\ UNCHANGED <<layer, approvals, lacking, made, starts, repairs, commands>>

\* Mutant: a layer that was passed before is looked at again and again.
PassOverNothing(p) ==
  /\ pc[p] = "layer"
  /\ layer[p] <= Depth
  /\ Stoppers(p) = {}
  /\ Runnable(p) = {}
  /\ UNCHANGED vars

\* Nothing of the layer is runnable (all PASS after a resume): next layer.
PassOver(p) ==
  /\ pc[p] = "layer"
  /\ layer[p] <= Depth
  /\ Stoppers(p) = {}
  /\ Runnable(p) = {}
  /\ mem' = [mem EXCEPT ![p].nodes = SkipOrphans(p, [m \in Nodes |-> TRUE])]
  /\ disk' = IF Orphans(p) = {} THEN disk ELSE mem'[p]
  /\ layer' = [layer EXCEPT ![p] = @ + 1]
  /\ UNCHANGED <<pc, approvals, lacking, work, made, starts, repairs, commands>>

\* Mutant: the loop over the layers ends one layer early.
CompleteEarly(p) ==
  /\ pc[p] = "layer"
  /\ layer[p] >= Depth
  /\ Finish(p, "PASS", mem[p].nodes)

Complete(p) ==
  /\ pc[p] = "layer"
  /\ layer[p] > Depth
  /\ Finish(p, "PASS", mem[p].nodes)

(***************************************************************************)
(* The thread pool and the commit of its results                           *)
(***************************************************************************)
InState(p, states) == {n \in Nodes : work[p][n].state \in states}

\* The pool takes its items in submission order, MaxWorkers at a time.
StartWorker(p, n) ==
  /\ pc[p] = "run"
  /\ First(n, InState(p, {"queued"}))
  /\ Cardinality(InState(p, {"running"})) < MaxWorkers
  /\ work' = [work EXCEPT ![p][n].state = "running"]
  /\ UNCHANGED <<disk, mem, pc, layer, approvals, lacking,
                 made, starts, repairs, commands>>

\* The runner returned (its output valid or not), raised, or held.
FinishWorker(p, n, outcome) ==
  /\ work[p][n].state = "running"
  /\ work' = [work EXCEPT ![p][n].state = outcome]
  /\ UNCHANGED <<disk, mem, pc, layer, approvals, lacking,
                 made, starts, repairs, commands>>

WorkRecord(p, n) ==
  LET outcome == work[p][n].state
      attempts == mem[p].nodes[n].attempts + 1
  IN  IF outcome = "PASS"
        THEN [status |-> "PASS", attempts |-> attempts, version |-> made + 1,
              used |-> work[p][n].inputs, approved |-> n \in approvals[p]]
        ELSE Bare(outcome, attempts)

\* Mutant: a save keeps the records of the file that memory does not have.
CommitMerged(p, n) ==
  /\ InState(p, {"queued", "running"}) = {}
  /\ First(n, InState(p, Outcomes))
  /\ mem' = [mem EXCEPT ![p].nodes[n] = WorkRecord(p, n)]
  /\ disk' = [mem'[p] EXCEPT !.nodes =
                [m \in Nodes |-> IF @[m] = Absent /\ HasCheckpoint
                                   THEN disk.nodes[m] ELSE @[m]]]
  /\ made' = IF work[p][n].state = "PASS" THEN made + 1 ELSE made
  /\ work' = [work EXCEPT ![p][n].state = "done"]
  /\ UNCHANGED <<pc, layer, approvals, lacking, starts, repairs, commands>>

\* Only after the whole layer has finished are results recorded, one by one
\* in the order of the layer, each followed by a save of the checkpoint.
Commit(p, n) ==
  /\ InState(p, {"queued", "running"}) = {}
  /\ First(n, InState(p, Outcomes))
  /\ mem' = [mem EXCEPT ![p].nodes[n] = WorkRecord(p, n)]
  /\ disk' = mem'[p]
  /\ made' = IF work[p][n].state = "PASS" THEN made + 1 ELSE made
  /\ work' = [work EXCEPT ![p][n].state = "done"]
  /\ UNCHANGED <<pc, layer, approvals, lacking, starts, repairs, commands>>

Committed(p) ==
  pc[p] = "run" /\ InState(p, {"queued", "running"} \cup Outcomes) = {}

\* Mutant: a result that is HOLD does not stop the layer.
FailedOutright(p) == {n \in InState(p, {"done"}) : mem[p].nodes[n].status = "FAIL"}

Failed(p) == InState(p, {"done"}) \ Passed(mem[p])

\* The first failure in layer order decides the status and what is skipped.
StopOnFailure(p, n) ==
  /\ Committed(p)
  /\ First(n, Failed(p))
  /\ Finish(p, mem[p].nodes[n].status, MarkSkipped(mem[p].nodes, n))

\* Mutant: failures of the layer are not looked at before the next one.
NextLayerAnyway(p) ==
  /\ Committed(p)
  /\ layer' = [layer EXCEPT ![p] = @ + 1]
  /\ pc' = [pc EXCEPT ![p] = "layer"]
  /\ work' = [work EXCEPT ![p] = NoWork]
  /\ UNCHANGED <<disk, mem, approvals, lacking, made, starts, repairs, commands>>

NextLayer(p) ==
  /\ Committed(p)
  /\ Failed(p) = {}
  /\ layer' = [layer EXCEPT ![p] = @ + 1]
  /\ pc' = [pc EXCEPT ![p] = "layer"]
  /\ work' = [work EXCEPT ![p] = NoWork]
  /\ UNCHANGED <<disk, mem, approvals, lacking, made, starts, repairs, commands>>

\* The process dies, or a save raises: only the checkpoint file survives.
Crash(p) ==
  /\ pc[p] # "idle"
  /\ Leave(p)
  /\ mem' = [mem EXCEPT ![p] = FreshExecution]
  /\ UNCHANGED <<disk, made, starts, repairs, commands>>

-----------------------------------------------------------------------------
Command(p) == Start(p) \/ Resume(p) \/ \E n \in Nodes : Repair(p, n)

ExecutorStep(p) ==
  \/ Dispatch(p)
  \/ PassOver(p)
  \/ Complete(p)
  \/ NextLayer(p)
  \/ \E n \in Nodes :
        \/ StopAtNode(p, n)
        \/ StartWorker(p, n)
        \/ \E outcome \in Outcomes : FinishWorker(p, n, outcome)
        \/ Commit(p, n)
        \/ StopOnFailure(p, n)

Next ==
  \/ \E p \in Procs : Command(p) \/ ExecutorStep(p) \/ Crash(p)
  \/ OtherGraphRuns

Spec == Init /\ [][Next]_vars

\* A command that runs keeps running, and every runner call ends (each case
\* command has a timeout); nothing forces an operator to start a command.
FairSpec == Spec /\ \A p \in Procs : WF_vars(ExecutorStep(p))
-----------------------------------------------------------------------------
(* Properties *)

\* Types, and the stop rule as a bound on the round of every execution.
TypeOK ==
  /\ disk \in Checkpoint \cup {NoCheckpoint, Foreign}
  /\ mem \in [Procs -> Checkpoint]
  /\ pc \in [Procs -> {"idle", "layer", "run"}]
  /\ layer \in [Procs -> 0..(Depth + 1)]
  /\ approvals \in [Procs -> SUBSET HumanGates]
  /\ lacking \in [Procs -> SUBSET Nodes]
  /\ work \in [Procs -> [Nodes -> Worker]]
  /\ made \in Nat
  /\ starts \in Nat
  /\ repairs \in Nat
  /\ commands \in Nat

\* Every execution that a command holds or the file stores.
Everywhere(P(_)) ==
  /\ \A p \in Procs : P(mem[p])
  /\ HasCheckpoint => P(disk)

\* A node is PASS only while everything it depends on is PASS, in memory and in
\* the file, through repairs, crashes and commands that overwrite each other:
\* execute and invalidate_from never leave a passed node above a missing one.
PassedClosed(execution) ==
  \A n \in Passed(execution) : Deps[n] \subseteq Passed(execution)

DependencyClosed == Everywhere(PassedClosed)

\* No stale result survives a repair: the output recorded for a passed node was
\* computed from the outputs now recorded for its dependencies.
Current(execution) ==
  \A n \in Passed(execution) :
     execution.nodes[n].used = Inputs(execution, n)

OutputsCurrent == Everywhere(Current)

\* An irreversible node (publish.publish, fusion.apply) is handed to a worker
\* only behind a human gate that passed with the operator's approval, and on
\* the very inputs that gate was shown.
Authorised(execution, n, inputs) ==
  \E g \in Deps[n] \cap Passed(execution) :
     /\ g \in HumanGates
     /\ execution.nodes[g].approved
     /\ execution.nodes[g].version \in inputs
     /\ \A d \in Deps[g] \cap Deps[n] :
           execution.nodes[d].version \in execution.nodes[g].used \cap inputs

ApprovedBeforeIrreversible ==
  \A p \in Procs : \A n \in Irreversible :
     work[p][n].state # "none" => Authorised(mem[p], n, work[p][n].inputs)

\* The status of an execution never claims more than its records: PASS only if
\* every node passed, and a stop names a node with that status above which
\* nothing passed.
StatusSupported(execution) ==
  /\ execution.status = "PASS" => Passed(execution) = Nodes
  /\ execution.status \in {"FAIL", "HOLD", "BLOCK"} =>
        \E n \in Nodes : /\ execution.nodes[n].status = execution.status
                         /\ Downstream[n] \cap Passed(execution) = {}

StatusHonest == Everywhere(StatusSupported)

\* A layer starts only when all earlier layers are PASS; so no node is ever
\* recorded as "dependency_not_passed", a branch execute cannot take.
LayerBarrier ==
  \A p \in Procs : pc[p] # "idle" =>
     /\ \A n \in Nodes : Level[n] < layer[p] => n \in Passed(mem[p])
     /\ Orphans(p) = {}

\* While a command runs, a record that is PASS is final: neither a resume nor a
\* repair of something else runs that node again.
PassedIsFinal ==
  [][\A p \in Procs : pc[p] # "idle" =>
        \/ Crash(p)
        \/ \A n \in Passed(mem[p]) : mem'[p].nodes[n] = mem[p].nodes[n]]_vars

\* Stop rule: each fresh start pays for at most max_rounds - 1 repairs, however
\* often commands crash or are resumed (one command at a time, and the
\* invalidated checkpoint saved at once, as the close loop does).
RepairsBounded == repairs <= (MaxRounds - 1) * starts

\* A command that has started returns or dies.
Terminates == \A p \in Procs : pc[p] # "idle" ~> pc[p] = "idle"

-----------------------------------------------------------------------------
(* The inductive invariant behind these properties *)

GatesApproved(execution) ==
  \A g \in HumanGates \cap Passed(execution) : execution.nodes[g].approved

Sound(execution) ==
  /\ PassedClosed(execution)
  /\ Current(execution)
  /\ GatesApproved(execution)
  /\ StatusSupported(execution)

\* What a worker of the layer under way was given still holds.
WorkerSound(p, n) ==
  /\ pc[p] = "run"
  /\ Level[n] = layer[p]
  /\ Deps[n] \subseteq Passed(mem[p])
  /\ work[p][n].inputs = Inputs(mem[p], n)
  /\ n \in HumanGates => n \in approvals[p]
  /\ work[p][n].state # "done" => n \notin Passed(mem[p])
  /\ work[p][n].state = "done" => mem[p].nodes[n].status \in Outcomes

LayerSound(p) ==
  /\ \A n \in Nodes : Level[n] < layer[p] => n \in Passed(mem[p])
  /\ mem[p].status = "PENDING"
  /\ pc[p] = "run" =>
       /\ layer[p] <= Depth
       /\ \A n \in Nodes : Level[n] = layer[p] =>
            n \in Passed(mem[p]) \/ work[p][n].state # "none"

ExecutionInv(p) ==
  /\ Sound(mem[p])
  /\ pc[p] # "idle" => LayerSound(p)
  /\ \A n \in Nodes : work[p][n].state # "none" => WorkerSound(p, n)

IInv ==
  /\ TypeOK
  /\ \A p \in Procs : ExecutionInv(p)
  /\ HasCheckpoint => Sound(disk)

-----------------------------------------------------------------------------
(* What the documents say and the code does not do *)

\* docs/bdd/execution-repair.feature: when a node is FAIL, its downstream nodes
\* are marked SKIPPED by the time the execution has stopped.
FailureSkipsDownstream ==
  HasCheckpoint /\ disk.status = "FAIL" =>
     \A n \in Nodes : disk.nodes[n].status = "FAIL" =>
        \A m \in Downstream[n] \ {n} : disk.nodes[m].status = "SKIPPED"
=============================================================================
