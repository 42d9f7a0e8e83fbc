--------------------------- MODULE TaskGraphProofs ---------------------------
(***************************************************************************)
(* Proofs about the task graph executor, for every graph, every number of  *)
(* commands sharing the checkpoint file, every max_rounds and max_workers. *)
(***************************************************************************)
EXTENDS TaskGraphPromise, TLAPS

-----------------------------------------------------------------------------
(* Descendants *)

\* The descendants of n contain n and are closed under dependents.
LEMMA DownstreamClosed ==
  ASSUME NEW n \in Nodes
  PROVE  /\ Downstream[n] \subseteq Nodes
         /\ n \in Downstream[n]
         /\ \A k \in Nodes : Deps[k] \cap Downstream[n] # {} => k \in Downstream[n]
  <1>1. Downstream[n] \subseteq Nodes /\ n \in Downstream[n]
    BY DEF Downstream
  <1>2. ASSUME NEW k \in Nodes, NEW d \in Deps[k], d \in Downstream[n]
        PROVE  k \in Downstream[n]
    <2>1. ASSUME NEW S \in SUBSET Nodes, n \in S, DependentsClosed(S)
          PROVE  k \in S
      <3>1. d \in S
        BY <1>2, <2>1 DEF Downstream
      <3>2. QED
        BY <2>1, <3>1, <1>2 DEF DependentsClosed
    <2>2. QED
      BY <2>1 DEF Downstream
  <1>3. QED
    BY <1>1, <1>2

\* Nothing that depends on a node outside a dependency-closed set is in the set.
LEMMA NothingAbove ==
  ASSUME NEW e, PassedClosed(e), NEW n \in Nodes, n \notin Passed(e)
  PROVE  Downstream[n] \cap Passed(e) = {}
  <1> DEFINE S == Nodes \ Passed(e)
  <1>1. n \in S /\ S \in SUBSET Nodes
    OBVIOUS
  <1>2. DependentsClosed(S)
    BY DEF DependentsClosed, PassedClosed, Passed
  <1>3. QED
    BY <1>1, <1>2 DEF Downstream

-----------------------------------------------------------------------------
(* Executions *)

LEMMA FreshSound ==
  /\ FreshExecution \in Checkpoint
  /\ Passed(FreshExecution) = {}
  /\ Sound(FreshExecution)
  <1>1. FreshExecution \in Checkpoint
    BY BoundAssumption DEF FreshExecution, Checkpoint, Absent, Bare, NodeRecord,
       Statuses, Outcomes
  <1>2. Passed(FreshExecution) = {}
    BY DEF Passed, FreshExecution, Absent, Bare
  <1>3. FreshExecution.status = "PENDING"
    BY DEF FreshExecution
  <1>4. QED
    BY <1>1, <1>2, <1>3 DEF Sound, PassedClosed, Current, GatesApproved, StatusSupported

\* An execution that keeps a dependency-closed part of the passed records of a
\* sound one, and reports nothing it cannot support, is sound.
LEMMA SoundPart ==
  ASSUME NEW e, NEW f, Sound(e), Passed(f) \subseteq Passed(e),
         \A n \in Passed(f) : f.nodes[n] = e.nodes[n],
         PassedClosed(f), StatusSupported(f)
  PROVE  Sound(f)
  <1>1. ASSUME NEW n \in Passed(f)
        PROVE  f.nodes[n].used = Inputs(f, n)
    <2>1. e.nodes[n].used = Inputs(e, n)
      BY DEF Sound, Current
    <2>2. \A d \in Deps[n] : f.nodes[d] = e.nodes[d]
      BY DEF PassedClosed
    <2>3. Inputs(f, n) = Inputs(e, n)
      BY <2>2 DEF Inputs
    <2>4. QED
      BY <2>1, <2>3
  <1>2. GatesApproved(f)
    BY DEF Sound, GatesApproved
  <1>3. QED
    BY <1>1, <1>2 DEF Sound, Current

\* What a repair keeps: everything passed that is not downstream of node n.
LEMMA InvalidatedSound ==
  ASSUME NEW e \in Checkpoint, Sound(e), NEW n \in Nodes, e.round < MaxRounds
  PROVE  /\ InvalidateFrom(e, n) \in Checkpoint
         /\ InvalidateFrom(e, n).status = "PENDING"
         /\ Sound(InvalidateFrom(e, n))
  <1> DEFINE f == InvalidateFrom(e, n)
  <1>1. f \in Checkpoint /\ f.status = "PENDING"
    BY BoundAssumption DEF InvalidateFrom, Checkpoint, Absent, Bare, NodeRecord,
       Statuses, Outcomes
  <1>2. \A m \in Nodes : f.nodes[m] = IF m \in Downstream[n] THEN Absent ELSE e.nodes[m]
    BY DEF InvalidateFrom
  <1>3. Passed(f) = Passed(e) \ Downstream[n]
    BY <1>2 DEF Passed, Absent, Bare
  <1>4. PassedClosed(f)
    <2> SUFFICES ASSUME NEW m \in Passed(f), NEW d \in Deps[m]
                 PROVE  d \in Passed(f)
      BY DEF PassedClosed
    <2>1. m \in Nodes /\ d \in Passed(e)
      BY <1>3 DEF Sound, PassedClosed, Passed
    <2>2. d \notin Downstream[n]
      BY <1>3, <2>1, DownstreamClosed
    <2>3. QED
      BY <1>3, <2>1, <2>2
  <1>5. StatusSupported(f)
    BY <1>1 DEF StatusSupported
  <1>6. Sound(f)
    <2>1. \A m \in Passed(f) : f.nodes[m] = e.nodes[m]
      BY <1>2, <1>3 DEF Passed
    <2> HIDE DEF f
    <2>2. QED
      BY <1>3, <1>4, <1>5, <2>1, SoundPart
  <1>7. QED
    BY <1>1, <1>6

\* Loading a checkpoint forgets its status and nothing else.
LEMMA ResumedSound ==
  ASSUME NEW e \in Checkpoint, Sound(e)
  PROVE  /\ [e EXCEPT !.status = "PENDING"] \in Checkpoint
         /\ [e EXCEPT !.status = "PENDING"].status = "PENDING"
         /\ Sound([e EXCEPT !.status = "PENDING"])
  <1> DEFINE f == [e EXCEPT !.status = "PENDING"]
  <1>1. f \in Checkpoint /\ f.status = "PENDING" /\ f.nodes = e.nodes
    BY DEF Checkpoint
  <1>2. Passed(f) = Passed(e) /\ PassedClosed(f)
    BY <1>1 DEF Passed, Sound, PassedClosed
  <1>3. StatusSupported(f)
    BY <1>1 DEF StatusSupported
  <1>4. QED
    BY <1>1, <1>2, <1>3, SoundPart

\* Marking descendants of n as skipped neither adds nor removes a passed record.
LEMMA MarkedSkipped ==
  ASSUME NEW nodes \in [Nodes -> NodeRecord], NEW n \in Nodes
  PROVE  /\ MarkSkipped(nodes, n) \in [Nodes -> NodeRecord]
         /\ MarkSkipped(nodes, n)[n] = nodes[n]
         /\ \A m \in Nodes : /\ MarkSkipped(nodes, n)[m].status = "PASS"
                                <=> nodes[m].status = "PASS"
                             /\ nodes[m].status = "PASS" =>
                                MarkSkipped(nodes, n)[m] = nodes[m]
  BY DEF MarkSkipped, Bare, NodeRecord, Statuses, Outcomes
-----------------------------------------------------------------------------
(* Frame: what a step of one command leaves alone for another *)

LEMMA Frame ==
  ASSUME NEW q \in Procs, ExecutionInv(q),
         mem'[q] = mem[q], pc'[q] = pc[q], layer'[q] = layer[q],
         approvals'[q] = approvals[q], work'[q] = work[q]
  PROVE  ExecutionInv(q)'
  BY DEF ExecutionInv, Sound, PassedClosed, Current, GatesApproved, StatusSupported,
     LayerSound, WorkerSound, Passed, Inputs

\* A command at rest is sound as soon as its execution is.
LEMMA AtRest ==
  ASSUME NEW p \in Procs, Sound(mem'[p]), pc'[p] = "idle",
         \A n \in Nodes : work'[p][n].state = "none"
  PROVE  ExecutionInv(p)'
  BY DEF ExecutionInv, Sound, PassedClosed, Current, GatesApproved, StatusSupported,
     Passed, Inputs

\* Only the other commands of a step are framed; the acting one is shown sound.
LEMMA OneActs ==
  ASSUME IInv, NEW p \in Procs, TypeOK', ExecutionInv(p)', HasCheckpoint' => Sound(disk'),
         \A q \in Procs \ {p} :
            /\ mem'[q] = mem[q] /\ pc'[q] = pc[q] /\ layer'[q] = layer[q]
            /\ approvals'[q] = approvals[q] /\ work'[q] = work[q]
  PROVE  IInv'
  <1>1. ASSUME NEW q \in Procs
        PROVE  ExecutionInv(q)'
    <2>1. CASE q = p
      BY <2>1
    <2>2. CASE q # p
      BY <2>2, Frame DEF IInv
    <2>3. QED
      BY <2>1, <2>2
  <1>2. (HasCheckpoint => Sound(disk))'
    BY DEF Sound, PassedClosed, Current, GatesApproved, StatusSupported, Passed, Inputs
  <1>3. QED
    BY <1>1, <1>2 DEF IInv

-----------------------------------------------------------------------------
(* Commands *)

LEMMA InitInv == Init => IInv
  <1> SUFFICES ASSUME Init PROVE IInv
    OBVIOUS
  <1>1. TypeOK
    BY FreshSound, GraphAssumption
       DEF Init, TypeOK, NoWork, NoWorker, Worker
  <1>2. \A p \in Procs : ExecutionInv(p)
    BY FreshSound DEF Init, ExecutionInv, NoWork, NoWorker
  <1>3. ~ HasCheckpoint
    BY DEF Init, HasCheckpoint
  <1>4. QED
    BY <1>1, <1>2, <1>3 DEF IInv

\* Every command begins with a sound execution and no worker.
LEMMA BeginInv ==
  ASSUME IInv, NEW p \in Procs, NEW e \in Checkpoint,
         NEW granted \in SUBSET HumanGates, NEW short \in Shortages,
         Begin(p, e, granted, short), Sound(e), e.status = "PENDING",
         disk' \in Checkpoint \cup {NoCheckpoint, Foreign},
         HasCheckpoint' => Sound(disk'), starts' \in Nat, repairs' \in Nat
  PROVE  IInv'
  <1> USE DEF IInv
  <1>1. TypeOK'
    BY GraphAssumption, BoundAssumption DEF TypeOK, Begin
  <1>2. mem'[p] = e /\ pc'[p] = "layer" /\ layer'[p] = 0 /\ work'[p] = work[p]
    BY DEF Begin, TypeOK
  <1>3. \A n \in Nodes : work[p][n].state = "none"
    BY DEF Begin, ExecutionInv, WorkerSound
  <1>4. \A n \in Nodes : Level[n] \in Nat
    BY GraphAssumption
  <1>5. ExecutionInv(p)'
    BY <1>2, <1>3, <1>4 DEF ExecutionInv, LayerSound, Sound, PassedClosed, Current,
       GatesApproved, StatusSupported, Passed, Inputs
  <1>6. \A q \in Procs \ {p} :
            /\ mem'[q] = mem[q] /\ pc'[q] = pc[q] /\ layer'[q] = layer[q]
            /\ approvals'[q] = approvals[q] /\ work'[q] = work[q]
    BY DEF Begin, TypeOK
  <1>7. QED
    BY <1>1, <1>5, <1>6, OneActs

LEMMA CommandInv ==
  ASSUME IInv, NEW p \in Procs, Command(p)
  PROVE  IInv'
  <1>1. CASE Start(p)
    <2> USE <1>1 DEF Start
    <2>1. PICK granted \in SUBSET HumanGates, short \in Shortages :
             Begin(p, FreshExecution, granted, short)
      OBVIOUS
    <2>2. disk' = disk /\ starts' \in Nat /\ repairs' \in Nat
      BY DEF IInv, TypeOK
    <2>3. FreshExecution.status = "PENDING"
      BY DEF FreshExecution
    <2>4. HasCheckpoint' => Sound(disk')
      BY <2>2 DEF HasCheckpoint, IInv
    <2>5. disk' \in Checkpoint \cup {NoCheckpoint, Foreign}
      BY <2>2 DEF IInv, TypeOK
    <2>6. QED
      BY <2>1, <2>2, <2>3, <2>4, <2>5, FreshSound, BeginInv
  <1>2. CASE Resume(p)
    <2> DEFINE e == [disk EXCEPT !.status = "PENDING"]
    <2>1. PICK granted \in SUBSET HumanGates, short \in Shortages :
             Begin(p, e, granted, short)
      BY <1>2 DEF Resume
    <2>2. disk' = disk /\ starts' \in Nat /\ repairs' \in Nat
      BY <1>2 DEF Resume, IInv, TypeOK
    <2>3. disk \in Checkpoint /\ Sound(disk)
      BY <1>2 DEF Resume, IInv, TypeOK, HasCheckpoint
    <2>4. e \in Checkpoint /\ e.status = "PENDING" /\ Sound(e)
      BY <2>3, ResumedSound
    <2>5. disk' \in Checkpoint \cup {NoCheckpoint, Foreign} /\ Sound(disk')
      BY <2>2, <2>3
    <2> HIDE DEF e
    <2>6. QED
      BY <2>1, <2>2, <2>4, <2>5, BeginInv
  <1>3. ASSUME NEW n \in Nodes, Repair(p, n)
        PROVE  IInv'
    <2> DEFINE e == InvalidateFrom(disk, n)
    <2>1. PICK granted \in SUBSET HumanGates, short \in Shortages :
             Begin(p, e, granted, short)
      BY <1>3 DEF Repair
    <2>2. starts' \in Nat /\ repairs' \in Nat
      BY <1>3 DEF Repair, IInv, TypeOK
    <2>3. disk \in Checkpoint /\ Sound(disk) /\ disk.round < MaxRounds
      BY <1>3 DEF Repair, IInv, TypeOK, HasCheckpoint
    <2>4. e \in Checkpoint /\ e.status = "PENDING" /\ Sound(e)
      BY <2>3, InvalidatedSound
    <2>5. disk' \in Checkpoint \cup {NoCheckpoint, Foreign} /\ Sound(disk')
      BY <1>3, <2>3, <2>4 DEF Repair
    <2> HIDE DEF e
    <2>6. QED
      BY <2>1, <2>2, <2>4, <2>5, BeginInv
  <1>4. QED
    BY <1>1, <1>2, <1>3 DEF Command
-----------------------------------------------------------------------------
(* The executor *)

\* While the layers below are all passed no node can be an orphan, so the
\* readiness pass records no "dependency_not_passed".
LEMMA NoOrphans ==
  ASSUME IInv, NEW p \in Procs, pc[p] # "idle"
  PROVE  /\ Orphans(p) = {}
         /\ \A before : SkipOrphans(p, before) = mem[p].nodes
  <1>1. \A n \in Nodes : \A d \in Deps[n] : d \in Nodes /\ Level[d] < Level[n]
    BY GraphAssumption
  <1>2. \A n \in Nodes : Level[n] < layer[p] => n \in Passed(mem[p])
    BY DEF IInv, ExecutionInv, LayerSound
  <1>3. Orphans(p) = {}
    BY <1>1, <1>2 DEF Orphans, Unsettled
  <1>4. mem[p].nodes \in [Nodes -> NodeRecord]
    BY DEF IInv, TypeOK, Checkpoint
  <1>5. QED
    BY <1>3, <1>4 DEF SkipOrphans

\* A command ends: what it saves is its execution with a supported status.
LEMMA FinishInv ==
  ASSUME IInv, NEW p \in Procs, NEW status, NEW nodes \in [Nodes -> NodeRecord],
         Finish(p, status, nodes),
         status \in Outcomes \cup {"BLOCK"},
         \A m \in Nodes : /\ nodes[m].status = "PASS" <=> m \in Passed(mem[p])
                          /\ m \in Passed(mem[p]) => nodes[m] = mem[p].nodes[m],
         status = "PASS" => Passed(mem[p]) = Nodes,
         status # "PASS" => \E n \in Nodes : /\ nodes[n].status = status
                                             /\ n \notin Passed(mem[p])
  PROVE  IInv'
  <1> DEFINE e == mem[p]
             f == [status |-> status, round |-> mem[p].round, nodes |-> nodes]
  <1>1. e \in Checkpoint /\ Sound(e)
    BY DEF IInv, TypeOK, ExecutionInv
  <1>2. mem' = [mem EXCEPT ![p] = f] /\ mem'[p] = f /\ disk' = f
    BY DEF Finish, IInv, TypeOK
  <1>3. f \in Checkpoint /\ f.nodes = nodes /\ f.status = status
    BY <1>1 DEF Checkpoint
  <1>4. Passed(f) = Passed(e)
    BY DEF Passed
  <1>5. PassedClosed(f)
    BY <1>1, <1>4 DEF Sound, PassedClosed
  <1>6. StatusSupported(f)
    <2>1. CASE status = "PASS"
      BY <2>1, <1>3, <1>4 DEF StatusSupported
    <2>2. CASE status # "PASS"
      <3>1. PICK n \in Nodes : nodes[n].status = status /\ n \notin Passed(e)
        BY <2>2
      <3>2. Downstream[n] \cap Passed(f) = {}
        BY <3>1, <1>1, <1>4, NothingAbove DEF Sound
      <3>3. QED
        BY <2>2, <3>1, <3>2, <1>3 DEF StatusSupported
    <2>3. QED
      BY <2>1, <2>2
  <1>7. \A m \in Passed(f) : f.nodes[m] = e.nodes[m]
    BY <1>3, <1>4 DEF Passed
  <1> HIDE DEF e, f
  <1>8. Sound(f)
    BY <1>1, <1>4, <1>5, <1>6, <1>7, SoundPart
  <1>9. TypeOK'
    BY <1>2, <1>3, GraphAssumption DEF Finish, Leave, IInv, TypeOK, NoWork, NoWorker, Worker
  <1>10. ExecutionInv(p)'
    <2>1. pc'[p] = "idle" /\ \A n \in Nodes : work'[p][n].state = "none"
      BY DEF Finish, Leave, IInv, TypeOK, NoWork, NoWorker
    <2>2. QED
      BY <2>1, <1>2, <1>8, AtRest
  <1>11. \A q \in Procs \ {p} :
            /\ mem'[q] = mem[q] /\ pc'[q] = pc[q] /\ layer'[q] = layer[q]
            /\ approvals'[q] = approvals[q] /\ work'[q] = work[q]
    BY <1>2 DEF Finish, Leave, IInv, TypeOK
  <1>12. QED
    BY <1>2, <1>8, <1>9, <1>10, <1>11, OneActs

LEMMA StopAtNodeInv ==
  ASSUME IInv, NEW p \in Procs, NEW n \in Nodes, StopAtNode(p, n)
  PROVE  IInv'
  <1> DEFINE status == IF Unapproved(p, n) THEN "HOLD" ELSE "BLOCK"
             marked == [mem[p].nodes EXCEPT ![n] = Bare(status, 0)]
             nodes == MarkSkipped(marked, n)
  <1>1. Finish(p, status, nodes)
    BY NoOrphans DEF StopAtNode
  <1>2. n \notin Passed(mem[p])
    BY DEF StopAtNode, First, Stoppers, Unsettled
  <1>3. mem[p].nodes \in [Nodes -> NodeRecord]
    BY DEF IInv, TypeOK, Checkpoint
  <1>4. marked \in [Nodes -> NodeRecord]
    BY <1>3 DEF Bare, NodeRecord, Statuses, Outcomes
  <1>5. /\ marked[n].status = status
        /\ \A m \in Nodes \ {n} : marked[m] = mem[p].nodes[m]
    BY <1>3 DEF Bare
  <1>6. status \in {"HOLD", "BLOCK"}
    OBVIOUS
  <1> HIDE DEF status, marked
  <1>7. \A m \in Nodes : /\ nodes[m].status = "PASS" <=> m \in Passed(mem[p])
                         /\ m \in Passed(mem[p]) => nodes[m] = mem[p].nodes[m]
    BY <1>2, <1>4, <1>5, <1>6, MarkedSkipped DEF Passed
  <1>8. nodes \in [Nodes -> NodeRecord] /\ nodes[n].status = status
    BY <1>4, <1>5, MarkedSkipped
  <1> HIDE DEF nodes
  <1>9. QED
    BY <1>1, <1>2, <1>6, <1>7, <1>8, FinishInv DEF Outcomes

LEMMA StopOnFailureInv ==
  ASSUME IInv, NEW p \in Procs, NEW n \in Nodes, StopOnFailure(p, n)
  PROVE  IInv'
  <1> DEFINE status == mem[p].nodes[n].status
             nodes == MarkSkipped(mem[p].nodes, n)
  <1>1. Finish(p, status, nodes)
    BY DEF StopOnFailure
  <1>2. n \notin Passed(mem[p]) /\ work[p][n].state = "done"
    BY DEF StopOnFailure, First, Failed, InState
  <1>3. status \in Outcomes /\ status # "PASS"
    BY <1>2 DEF IInv, ExecutionInv, WorkerSound, Passed
  <1>4. mem[p].nodes \in [Nodes -> NodeRecord]
    BY DEF IInv, TypeOK, Checkpoint
  <1>5. \A m \in Nodes : /\ nodes[m].status = "PASS" <=> m \in Passed(mem[p])
                         /\ m \in Passed(mem[p]) => nodes[m] = mem[p].nodes[m]
    BY <1>4, MarkedSkipped DEF Passed
  <1>6. nodes \in [Nodes -> NodeRecord] /\ nodes[n].status = status
    BY <1>4, MarkedSkipped
  <1> HIDE DEF status, nodes
  <1>7. QED
    BY <1>1, <1>2, <1>3, <1>5, <1>6, FinishInv

LEMMA CompleteInv ==
  ASSUME IInv, NEW p \in Procs, Complete(p)
  PROVE  IInv'
  <1>1. Finish(p, "PASS", mem[p].nodes) /\ pc[p] # "idle" /\ layer[p] > Depth
    BY DEF Complete
  <1>2. layer[p] \in Int /\ mem[p].nodes \in [Nodes -> NodeRecord]
    BY DEF IInv, TypeOK, Checkpoint
  <1>3. \A n \in Nodes : Level[n] \in Int /\ Level[n] <= Depth /\ Depth \in Int
    BY GraphAssumption
  <1>4. Passed(mem[p]) = Nodes
    BY <1>1, <1>2, <1>3 DEF IInv, ExecutionInv, LayerSound, Passed
  <1>5. QED
    BY <1>1, <1>2, <1>4, FinishInv DEF Outcomes, Passed

\* Workers start out with what their dependencies hold.
LEMMA DispatchInv ==
  ASSUME IInv, NEW p \in Procs, Dispatch(p)
  PROVE  IInv'
  <1>1. /\ pc[p] = "layer" /\ Orphans(p) = {} /\ Stoppers(p) = {}
        /\ SkipOrphans(p, [m \in Nodes |-> TRUE]) = mem[p].nodes
    BY NoOrphans DEF Dispatch
  <1>2. mem[p] \in Checkpoint
    BY DEF IInv, TypeOK
  <1>3. mem' = mem /\ disk' = disk
    BY <1>1, <1>2 DEF Dispatch, Checkpoint, IInv, TypeOK
  <1>4. \A n \in Nodes : \A d \in Deps[n] : d \in Nodes /\ mem[p].nodes[d].version \in Nat
    BY <1>2, GraphAssumption DEF Checkpoint, NodeRecord
  <1>5. \A n \in Nodes : Inputs(mem[p], n) \in SUBSET Nat
    BY <1>4 DEF Inputs
  <1>6. /\ pc' = [pc EXCEPT ![p] = "run"] /\ layer' = layer /\ approvals' = approvals
        /\ lacking' = lacking /\ made' = made /\ starts' = starts
        /\ repairs' = repairs /\ commands' = commands
    BY DEF Dispatch
  <1>7. \A n \in Nodes : work'[p][n] = IF n \in Runnable(p)
                                         THEN [state |-> "queued", inputs |-> Inputs(mem[p], n)]
                                         ELSE NoWorker
    BY DEF Dispatch, IInv, TypeOK
  <1>8. /\ \A q \in Procs \ {p} : work'[q] = work[q]
        /\ work' \in [Procs -> [Nodes -> Worker]]
    BY <1>5 DEF Dispatch, IInv, TypeOK, Worker, NoWorker
  <1>9. TypeOK'
    BY <1>3, <1>6, <1>8 DEF IInv, TypeOK
  <1>10. \A n \in Nodes : n \in Runnable(p) <=>
            Level[n] = layer[p] /\ n \notin Passed(mem[p])
    BY <1>1 DEF Runnable, Unsettled
  <1>11. \A n \in Runnable(p) : /\ Deps[n] \subseteq Passed(mem[p])
                                /\ n \in HumanGates => n \in approvals[p]
    BY <1>1 DEF Runnable, Orphans, Stoppers, Unapproved
  <1>12. layer[p] <= Depth
    BY <1>10, GraphAssumption DEF Dispatch, Runnable, Unsettled
  <1>13. ExecutionInv(p)'
    <2>1. Sound(mem[p])' /\ pc'[p] = "run"
      BY <1>3, <1>6 DEF IInv, TypeOK, ExecutionInv, Sound, PassedClosed, Current,
         GatesApproved, StatusSupported, Passed, Inputs
    <2>2. /\ Passed(mem[p])' = Passed(mem[p]) /\ mem'[p] = mem[p]
          /\ layer'[p] = layer[p] /\ approvals'[p] = approvals[p]
      BY <1>3, <1>6 DEF Passed
    <2>3. \A n \in Nodes :
             /\ work'[p][n].state = IF n \in Runnable(p) THEN "queued" ELSE "none"
             /\ n \in Runnable(p) => work'[p][n].inputs = Inputs(mem[p], n)
      <3> TAKE n \in Nodes
      <3>1. CASE n \in Runnable(p)
        <4>1. work'[p][n] = [state |-> "queued", inputs |-> Inputs(mem[p], n)]
          BY <1>7, <3>1
        <4>2. work'[p][n].state = "queued" /\ work'[p][n].inputs = Inputs(mem[p], n)
          BY <4>1
        <4>3. QED
          BY <3>1, <4>2
      <3>2. CASE n \notin Runnable(p)
        <4>1. work'[p][n] = NoWorker
          BY <1>7, <3>2
        <4>2. QED
          BY <3>2, <4>1 DEF NoWorker
      <3>3. QED
        BY <3>1, <3>2
    <2>4. LayerSound(p)
      BY <1>1 DEF IInv, ExecutionInv
    <2>5. LayerSound(p)'
      BY <1>10, <1>12, <2>2, <2>3, <2>4 DEF LayerSound
    <2>6. ASSUME NEW n \in Nodes, work'[p][n].state # "none"
          PROVE  WorkerSound(p, n)'
      <3>1. n \in Runnable(p) /\ work'[p][n].state = "queued"
        BY <2>3, <2>6
      <3>2. Inputs(mem[p], n)' = Inputs(mem[p], n)
        BY <2>2 DEF Inputs
      <3>3. QED
        BY <1>10, <1>11, <2>1, <2>2, <2>3, <3>1, <3>2 DEF WorkerSound
    <2>7. QED
      BY <2>1, <2>5, <2>6 DEF ExecutionInv
  <1>14. \A q \in Procs \ {p} : pc'[q] = pc[q]
    BY <1>6 DEF IInv, TypeOK
  <1>15. HasCheckpoint' => Sound(disk')
    BY <1>3 DEF HasCheckpoint, IInv
  <1>16. QED
    BY <1>3, <1>6, <1>8, <1>9, <1>13, <1>14, <1>15, OneActs

\* The layer that is passed over holds only passed nodes.
LEMMA PassOverInv ==
  ASSUME IInv, NEW p \in Procs, PassOver(p)
  PROVE  IInv'
  <1>1. /\ pc[p] = "layer" /\ Orphans(p) = {} /\ Stoppers(p) = {} /\ Runnable(p) = {}
        /\ SkipOrphans(p, [m \in Nodes |-> TRUE]) = mem[p].nodes
    BY NoOrphans DEF PassOver
  <1>2. mem' = mem /\ disk' = disk
    BY <1>1 DEF PassOver, Checkpoint, IInv, TypeOK
  <1>3. /\ layer' = [layer EXCEPT ![p] = layer[p] + 1] /\ layer[p] \in 0..Depth
        /\ layer'[p] = layer[p] + 1
        /\ pc' = pc /\ approvals' = approvals /\ lacking' = lacking /\ work' = work
        /\ made' = made /\ starts' = starts /\ repairs' = repairs /\ commands' = commands
    BY GraphAssumption DEF PassOver, IInv, TypeOK
  <1>4. TypeOK'
    BY <1>2, <1>3, GraphAssumption DEF IInv, TypeOK
  <1>5. Unsettled(p) = {}
    BY <1>1 DEF Runnable
  <1>6. ASSUME NEW n \in Nodes, Level[n] < layer'[p]
        PROVE  n \in Passed(mem[p])
    <2>1. Level[n] \in Int /\ layer[p] \in Int
      BY <1>3, GraphAssumption
    <2>2. CASE Level[n] < layer[p]
      BY <1>1, <2>2 DEF IInv, ExecutionInv, LayerSound
    <2>3. CASE Level[n] = layer[p]
      BY <1>5, <2>3 DEF Unsettled
    <2>4. QED
      BY <1>3, <1>6, <2>1, <2>2, <2>3
  <1>7. \A n \in Nodes : work[p][n].state = "none"
    BY <1>1 DEF IInv, ExecutionInv, WorkerSound
  <1>8. ExecutionInv(p)'
    BY <1>1, <1>2, <1>3, <1>6, <1>7 DEF IInv, ExecutionInv, LayerSound, Sound, PassedClosed,
       Current, GatesApproved, StatusSupported, Passed, Inputs
  <1>9. HasCheckpoint' => Sound(disk')
    BY <1>2 DEF HasCheckpoint, IInv
  <1>10. \A q \in Procs \ {p} : layer'[q] = layer[q]
    BY <1>3 DEF IInv, TypeOK
  <1>11. QED
    BY <1>2, <1>3, <1>4, <1>8, <1>9, <1>10, OneActs

\* A worker that changes only its own state, to anything but "none" or "done",
\* keeps what is known of it.
LEMMA WorkerMovesInv ==
  ASSUME IInv, NEW p \in Procs, NEW n \in Nodes,
         NEW state \in {"running"} \cup Outcomes,
         work[p][n].state \in {"queued", "running"},
         work' = [work EXCEPT ![p][n].state = state],
         UNCHANGED <<disk, mem, pc, layer, approvals, lacking,
                     made, starts, repairs, commands>>
  PROVE  IInv'
  <1>1. /\ work' \in [Procs -> [Nodes -> Worker]]
        /\ work'[p][n].state = state /\ work'[p][n].inputs = work[p][n].inputs
        /\ \A m \in Nodes \ {n} : work'[p][m] = work[p][m]
        /\ \A q \in Procs \ {p} : work'[q] = work[q]
    <2> DEFINE w == [work[p][n] EXCEPT !.state = state]
    <2>1. work \in [Procs -> [Nodes -> Worker]] /\ work[p][n] \in Worker
      BY DEF IInv, TypeOK
    <2>2. w \in Worker /\ w.state = state /\ w.inputs = work[p][n].inputs
      BY <2>1 DEF Worker, Outcomes
    <2>3. work' = [work EXCEPT ![p] = [work[p] EXCEPT ![n] = w]]
      OBVIOUS
    <2> HIDE DEF w
    <2>4. QED
      BY <2>1, <2>2, <2>3
  <1>2. TypeOK'
    BY <1>1 DEF IInv, TypeOK
  <1>3. state \notin {"none", "done"}
    BY DEF Outcomes
  <1>4. WorkerSound(p, n)
    BY DEF IInv, ExecutionInv
  <1>5. \A m \in Nodes : work'[p][m].state # "none" => WorkerSound(p, m)'
    <2> SUFFICES ASSUME NEW m \in Nodes, work'[p][m].state # "none"
                 PROVE  WorkerSound(p, m)'
      OBVIOUS
    <2>1. CASE m = n
      BY <1>1, <1>3, <1>4, <2>1 DEF WorkerSound, Passed, Inputs
    <2>2. CASE m # n
      BY <1>1, <2>2 DEF IInv, ExecutionInv, WorkerSound, Passed, Inputs
    <2>3. QED
      BY <2>1, <2>2
  <1>6. pc[p] # "idle" => LayerSound(p)'
    <2>1. \A m \in Nodes : work[p][m].state # "none" => work'[p][m].state # "none"
      BY <1>1, <1>3
    <2>2. QED
      BY <2>1 DEF IInv, ExecutionInv, LayerSound, Passed
  <1>7. ExecutionInv(p)'
    BY <1>5, <1>6 DEF IInv, ExecutionInv, Sound, PassedClosed, Current,
       GatesApproved, StatusSupported, Passed, Inputs
  <1>8. HasCheckpoint' => Sound(disk')
    BY DEF HasCheckpoint, IInv
  <1>9. QED
    BY <1>1, <1>2, <1>7, <1>8, OneActs

\* The record a worker leaves: an output built from what it was given, or no
\* output at all.
LEMMA WorkRecordSound ==
  ASSUME IInv, NEW p \in Procs, NEW n \in Nodes, work[p][n].state \in Outcomes
  PROVE  /\ WorkRecord(p, n) \in NodeRecord
         /\ WorkRecord(p, n).status = work[p][n].state
         /\ WorkRecord(p, n).status = "PASS" =>
              /\ WorkRecord(p, n).used = work[p][n].inputs
              /\ WorkRecord(p, n).approved = (n \in approvals[p])
  <1>1. work[p][n].inputs \in SUBSET Nat /\ made + 1 \in Nat
    BY DEF IInv, TypeOK, Worker
  <1>2. mem[p].nodes[n].attempts + 1 \in Nat
    BY DEF IInv, TypeOK, Checkpoint, NodeRecord
  <1>3. CASE work[p][n].state = "PASS"
    BY <1>1, <1>2, <1>3 DEF WorkRecord, NodeRecord, Statuses
  <1>4. CASE work[p][n].state # "PASS"
    BY <1>2, <1>4 DEF WorkRecord, Bare, NodeRecord, Statuses
  <1>5. QED
    BY <1>3, <1>4

\* Committing a result disturbs nothing that rests on the node: nothing passed
\* does, and nothing else in its layer depends on it.
LEMMA CommitInv ==
  ASSUME IInv, NEW p \in Procs, NEW n \in Nodes, Commit(p, n)
  PROVE  IInv'
  <1> DEFINE e == mem[p]
             r == WorkRecord(p, n)
             f == [e EXCEPT !.nodes = [e.nodes EXCEPT ![n] = r]]
  <1>1. work[p][n].state \in Outcomes /\ work[p][n].state \notin {"none", "done"}
    BY DEF Commit, First, InState, Outcomes
  <1>2. WorkerSound(p, n) /\ n \notin Passed(e) /\ pc[p] = "run"
    BY <1>1 DEF IInv, ExecutionInv, WorkerSound
  <1>3. e \in Checkpoint /\ Sound(e) /\ LayerSound(p) /\ e.status = "PENDING"
    BY <1>2 DEF IInv, TypeOK, ExecutionInv, LayerSound
  <1>4. mem' = [mem EXCEPT ![p] = f] /\ mem'[p] = f /\ disk' = f
    BY DEF Commit, IInv, TypeOK
  <1>5. /\ r \in NodeRecord /\ r.status = work[p][n].state
        /\ r.status = "PASS" => /\ r.used = work[p][n].inputs
                                /\ r.approved = (n \in approvals[p])
    BY <1>1, WorkRecordSound
  <1> HIDE DEF r
  <1>6. /\ f \in Checkpoint /\ f.status = "PENDING"
        /\ f.nodes[n] = r
        /\ \A m \in Nodes \ {n} : f.nodes[m] = e.nodes[m]
    BY <1>3, <1>5 DEF Checkpoint
  <1> HIDE DEF f
  <1>7. Passed(f) = IF r.status = "PASS" THEN Passed(e) \cup {n} ELSE Passed(e)
    BY <1>2, <1>6 DEF Passed
  <1>8. Deps[n] \subseteq Passed(e) /\ n \notin Deps[n]
    BY <1>2 DEF WorkerSound
  <1>9. \A m \in Passed(f) : Deps[m] \subseteq Passed(e)
    BY <1>3, <1>7, <1>8 DEF Sound, PassedClosed
  <1>10. \A m \in Nodes : Deps[m] \subseteq Passed(e) => Inputs(f, m) = Inputs(e, m)
    BY <1>2, <1>6 DEF Inputs, Passed
  <1>11. Sound(f)
    <2>1. PassedClosed(f)
      BY <1>7, <1>9 DEF PassedClosed
    <2>2. ASSUME NEW m \in Passed(f)
          PROVE  f.nodes[m].used = Inputs(f, m)
      <3>1. m \in Nodes /\ Inputs(f, m) = Inputs(e, m)
        BY <1>9, <1>10 DEF Passed
      <3>2. CASE m = n
        BY <3>1, <3>2, <1>2, <1>5, <1>6, <2>2 DEF WorkerSound, Passed
      <3>3. CASE m # n
        BY <3>1, <3>3, <1>3, <1>6, <1>7 DEF Sound, Current
      <3>4. QED
        BY <3>2, <3>3
    <2>3. ASSUME NEW g \in HumanGates \cap Passed(f)
          PROVE  f.nodes[g].approved
      <3>1. CASE g = n
        BY <3>1, <1>2, <1>5, <1>6, <2>3 DEF WorkerSound, Passed
      <3>2. CASE g # n
        BY <3>2, <1>3, <1>6, <1>7, <2>3, GraphAssumption DEF Sound, GatesApproved
      <3>3. QED
        BY <3>1, <3>2
    <2>4. StatusSupported(f)
      BY <1>6 DEF StatusSupported
    <2>5. QED
      BY <2>1, <2>2, <2>3, <2>4 DEF Sound, Current, GatesApproved
  <1>12. /\ work'[p][n].state = "done" /\ work'[p][n].inputs = work[p][n].inputs
         /\ \A m \in Nodes \ {n} : work'[p][m] = work[p][m]
         /\ \A q \in Procs \ {p} : work'[q] = work[q]
         /\ work' \in [Procs -> [Nodes -> Worker]]
    <2> DEFINE w == [work[p][n] EXCEPT !.state = "done"]
    <2>1. work \in [Procs -> [Nodes -> Worker]] /\ work[p][n] \in Worker
      BY DEF IInv, TypeOK
    <2>2. w \in Worker /\ w.state = "done" /\ w.inputs = work[p][n].inputs
      BY <2>1 DEF Worker
    <2>3. work' = [work EXCEPT ![p] = [work[p] EXCEPT ![n] = w]]
      BY DEF Commit
    <2> HIDE DEF w
    <2>4. QED
      BY <2>1, <2>2, <2>3
  <1>13. /\ made' \in Nat /\ pc' = pc /\ layer' = layer /\ approvals' = approvals
         /\ lacking' = lacking /\ starts' = starts /\ repairs' = repairs
         /\ commands' = commands
    BY DEF Commit, IInv, TypeOK
  <1>14. TypeOK'
    BY <1>4, <1>6, <1>12, <1>13 DEF IInv, TypeOK
  <1>15. ExecutionInv(p)'
    <2>1. Sound(mem[p])'
      BY <1>4, <1>11 DEF Sound, PassedClosed, Current, GatesApproved, StatusSupported,
         Passed, Inputs
    <2>2. Passed(mem[p])' = Passed(f)
      BY <1>4 DEF Passed
    <2>3. LayerSound(p)'
      BY <1>3, <1>4, <1>6, <1>7, <1>12, <1>13, <2>2 DEF LayerSound
    <2>4. ASSUME NEW m \in Nodes, work'[p][m].state # "none"
          PROVE  WorkerSound(p, m)'
      <3>1. WorkerSound(p, m)
        BY <1>1, <1>12, <2>4 DEF IInv, ExecutionInv
      <3>2. Inputs(mem[p], m)' = Inputs(mem[p], m)
        BY <3>1, <1>4, <1>10 DEF WorkerSound, Inputs
      <3>3. CASE m = n
        BY <3>1, <3>2, <3>3, <1>1, <1>4, <1>5, <1>6, <1>7, <1>12, <1>13, <2>2
           DEF WorkerSound
      <3>4. CASE m # n
        BY <3>1, <3>2, <3>4, <1>4, <1>6, <1>7, <1>12, <1>13, <2>2 DEF WorkerSound
      <3>5. QED
        BY <3>3, <3>4
    <2>5. QED
      BY <2>1, <2>3, <2>4 DEF ExecutionInv
  <1>16. \A q \in Procs \ {p} : mem'[q] = mem[q]
    BY <1>4 DEF IInv, TypeOK
  <1>17. QED
    BY <1>4, <1>11, <1>12, <1>13, <1>14, <1>15, <1>16, OneActs

\* All of the layer is passed when the next one starts.
LEMMA NextLayerInv ==
  ASSUME IInv, NEW p \in Procs, NextLayer(p)
  PROVE  IInv'
  <1>1. pc[p] = "run" /\ Committed(p) /\ Failed(p) = {}
    BY DEF NextLayer, Committed
  <1>2. LayerSound(p) /\ layer[p] \in 0..Depth
    BY <1>1, GraphAssumption DEF IInv, ExecutionInv, LayerSound, TypeOK
  <1>3. \A n \in Nodes : work[p][n].state # "none" => n \in Passed(mem[p])
    BY <1>1 DEF Committed, Failed, InState, IInv, TypeOK, Worker
  <1>4. /\ layer' = [layer EXCEPT ![p] = layer[p] + 1] /\ layer'[p] = layer[p] + 1
        /\ pc' = [pc EXCEPT ![p] = "layer"] /\ pc'[p] = "layer"
        /\ work' = [work EXCEPT ![p] = NoWork] /\ work'[p] = NoWork
        /\ disk' = disk /\ mem' = mem /\ approvals' = approvals /\ lacking' = lacking
        /\ made' = made /\ starts' = starts /\ repairs' = repairs /\ commands' = commands
    BY DEF NextLayer, IInv, TypeOK
  <1>5. TypeOK'
    BY <1>2, <1>4, GraphAssumption DEF IInv, TypeOK, NoWork, NoWorker, Worker
  <1>6. ASSUME NEW n \in Nodes, Level[n] < layer'[p]
        PROVE  n \in Passed(mem[p])
    <2>1. Level[n] \in Int /\ layer[p] \in Int
      BY <1>2, GraphAssumption
    <2>2. CASE Level[n] < layer[p]
      BY <1>2, <2>2 DEF LayerSound
    <2>3. CASE Level[n] = layer[p]
      BY <1>1, <1>2, <1>3, <2>3 DEF LayerSound
    <2>4. QED
      BY <1>4, <1>6, <2>1, <2>2, <2>3
  <1>7. ExecutionInv(p)'
    BY <1>2, <1>4, <1>6 DEF IInv, ExecutionInv, LayerSound, Sound, PassedClosed,
       Current, GatesApproved, StatusSupported, Passed, Inputs, NoWork, NoWorker
  <1>8. HasCheckpoint' => Sound(disk')
    BY <1>4 DEF HasCheckpoint, IInv
  <1>9. \A q \in Procs \ {p} : layer'[q] = layer[q] /\ pc'[q] = pc[q] /\ work'[q] = work[q]
    BY <1>4 DEF IInv, TypeOK
  <1>10. QED
    BY <1>4, <1>5, <1>7, <1>8, <1>9, OneActs

\* A crash leaves a command with nothing and the file as it was.
LEMMA CrashInv ==
  ASSUME IInv, NEW p \in Procs, Crash(p)
  PROVE  IInv'
  <1>1. mem'[p] = FreshExecution /\ pc'[p] = "idle" /\ work'[p] = NoWork /\ disk' = disk
    BY DEF Crash, Leave, IInv, TypeOK
  <1>2. TypeOK'
    BY FreshSound, GraphAssumption
       DEF Crash, Leave, IInv, TypeOK, NoWork, NoWorker, Worker
  <1>3. ExecutionInv(p)'
    BY <1>1, FreshSound, AtRest DEF NoWork, NoWorker
  <1>4. HasCheckpoint' => Sound(disk')
    BY <1>1 DEF HasCheckpoint, IInv
  <1>5. \A q \in Procs \ {p} :
            /\ mem'[q] = mem[q] /\ pc'[q] = pc[q] /\ layer'[q] = layer[q]
            /\ approvals'[q] = approvals[q] /\ work'[q] = work[q]
    BY DEF Crash, Leave, IInv, TypeOK
  <1>6. QED
    BY <1>2, <1>3, <1>4, <1>5, OneActs

LEMMA ExecutorInv ==
  ASSUME IInv, NEW p \in Procs, ExecutorStep(p)
  PROVE  IInv'
  <1>1. ASSUME NEW n \in Nodes, StartWorker(p, n)
        PROVE  IInv'
    <2>1. work[p][n].state = "queued"
      BY <1>1 DEF StartWorker, First, InState
    <2>2. QED
      BY <1>1, <2>1, WorkerMovesInv DEF StartWorker
  <1>2. ASSUME NEW n \in Nodes, NEW outcome \in Outcomes, FinishWorker(p, n, outcome)
        PROVE  IInv'
    BY <1>2, WorkerMovesInv DEF FinishWorker
  <1>3. QED
    BY <1>1, <1>2, DispatchInv, PassOverInv, CompleteInv, NextLayerInv, StopAtNodeInv,
       CommitInv, StopOnFailureInv DEF ExecutorStep

\* The invariant holds through every step of every command.
LEMMA NextInv == IInv /\ [Next]_vars => IInv'
  <1> SUFFICES ASSUME IInv, [Next]_vars PROVE IInv'
    OBVIOUS
  <1>1. ASSUME NEW p \in Procs, Command(p) \/ ExecutorStep(p) \/ Crash(p)
        PROVE  IInv'
    BY <1>1, CommandInv, ExecutorInv, CrashInv
  <1>2. CASE OtherGraphRuns
    <2>1. TypeOK'
      BY <1>2 DEF OtherGraphRuns, IInv, TypeOK
    <2>2. ~ HasCheckpoint'
      BY <1>2 DEF OtherGraphRuns, HasCheckpoint
    <2>3. \A q \in Procs : ExecutionInv(q)'
      BY <1>2, Frame DEF OtherGraphRuns, IInv
    <2>4. QED
      BY <2>1, <2>2, <2>3 DEF IInv
  <1>3. CASE UNCHANGED vars
    <2>1. TypeOK' /\ \A q \in Procs : ExecutionInv(q)'
      BY <1>3, Frame DEF vars, IInv, TypeOK
    <2>2. disk' = disk /\ (HasCheckpoint' <=> HasCheckpoint)
      BY <1>3 DEF vars, HasCheckpoint
    <2>3. (HasCheckpoint => Sound(disk))'
      BY <2>2 DEF IInv, Sound, PassedClosed, Current, GatesApproved, StatusSupported,
         Passed, Inputs
    <2>4. QED
      BY <2>1, <2>3 DEF IInv
  <1>4. QED
    BY <1>1, <1>2, <1>3 DEF Next

-----------------------------------------------------------------------------
(* Theorems *)

\* The inductive invariant holds in every behaviour, for every graph and every
\* number of commands that crash, resume, repair and overwrite each other.
THEOREM Invariance == Spec => []IInv
  BY InitInv, NextInv, PTL DEF Spec

\* Types; the round of every execution stays within max_rounds, in memory and in
\* the checkpoint file.
THEOREM TypeCorrect == Spec => []TypeOK
  <1>1. IInv => TypeOK
    BY DEF IInv
  <1>2. QED
    BY <1>1, Invariance, PTL

LEMMA EverywhereSound == IInv => Everywhere(Sound)
  BY DEF IInv, ExecutionInv, Everywhere

\* A node is PASS only above nodes that are PASS, in every execution and in the
\* checkpoint file.
THEOREM DependencyClosure == Spec => []DependencyClosed
  <1>1. IInv => DependencyClosed
    BY EverywhereSound DEF DependencyClosed, Everywhere, Sound
  <1>2. QED
    BY <1>1, Invariance, PTL

\* No output of an earlier round or of another command is left under a passed
\* node.
THEOREM OutputCurrency == Spec => []OutputsCurrent
  <1>1. IInv => OutputsCurrent
    BY EverywhereSound DEF OutputsCurrent, Everywhere, Sound
  <1>2. QED
    BY <1>1, Invariance, PTL

\* A reported status is backed by the records.
THEOREM StatusHonesty == Spec => []StatusHonest
  <1>1. IInv => StatusHonest
    BY EverywhereSound DEF StatusHonest, Everywhere, Sound
  <1>2. QED
    BY <1>1, Invariance, PTL

\* No layer starts over an unfinished one, and no node is ever orphaned.
THEOREM LayerBarriers == Spec => []LayerBarrier
  <1>1. IInv => LayerBarrier
    BY NoOrphans DEF LayerBarrier, IInv, ExecutionInv, LayerSound
  <1>2. QED
    BY <1>1, Invariance, PTL

\* The operator's approval is in force, for the same inputs, whenever an
\* irreversible node has been handed to a worker.
THEOREM ApprovalSafety == Spec => []ApprovedBeforeIrreversible
  <1>1. ASSUME IInv, NEW p \in Procs, NEW n \in Irreversible, work[p][n].state # "none"
        PROVE  Authorised(mem[p], n, work[p][n].inputs)
    <2>1. n \in Nodes /\ WorkerSound(p, n) /\ Sound(mem[p])
      BY <1>1, GraphAssumption DEF IInv, ExecutionInv
    <2>2. PICK g \in Deps[n] : g \in HumanGates
      BY GraphAssumption
    <2>3. g \in Passed(mem[p]) /\ mem[p].nodes[g].approved
      BY <2>1, <2>2 DEF WorkerSound, Sound, GatesApproved
    <2>4. work[p][n].inputs = Inputs(mem[p], n)
      BY <2>1 DEF WorkerSound
    <2>5. mem[p].nodes[g].used = Inputs(mem[p], g)
      BY <2>1, <2>3 DEF Sound, Current
    <2>6. QED
      BY <2>2, <2>3, <2>4, <2>5 DEF Authorised, Inputs
  <1>2. IInv => ApprovedBeforeIrreversible
    BY <1>1 DEF ApprovedBeforeIrreversible
  <1>3. QED
    BY <1>2, Invariance, PTL

\* A step of the executor keeps every passed record of its own command, and
\* touches no other command's execution.
LEMMA ExecutorKeepsPassed ==
  ASSUME IInv, NEW p \in Procs, ExecutorStep(p), NEW q \in Procs, pc[q] # "idle"
  PROVE  \A m \in Passed(mem[q]) : mem'[q].nodes[m] = mem[q].nodes[m]
  <1> DEFINE Kept == \A m \in Passed(mem[q]) : mem'[q].nodes[m] = mem[q].nodes[m]
  <1>1. mem \in [Procs -> Checkpoint] /\ mem[p].nodes \in [Nodes -> NodeRecord]
    BY DEF IInv, TypeOK, Checkpoint
  <1>2. CASE q # p
    <2>1. mem'[q] = mem[q]
      BY <1>1, <1>2 DEF ExecutorStep, Dispatch, PassOver, Complete, NextLayer,
         StopAtNode, StartWorker, FinishWorker, Commit, StopOnFailure, Finish
    <2>2. QED
      BY <2>1
  <1>3. CASE q = p
    <2>1. CASE Dispatch(p) \/ PassOver(p)
      <3>1. SkipOrphans(p, [m \in Nodes |-> TRUE]) = mem[p].nodes
        BY <1>3, NoOrphans
      <3>2. mem'[p].nodes = mem[p].nodes
        BY <1>1, <2>1, <3>1 DEF Dispatch, PassOver, Checkpoint
      <3>3. QED
        BY <1>3, <3>2
    <2>2. ASSUME NEW status, NEW nodes, Finish(p, status, nodes),
                 \A m \in Passed(mem[p]) : nodes[m] = mem[p].nodes[m]
          PROVE  Kept
      BY <1>1, <1>3, <2>2 DEF Finish
    <2>3. CASE Complete(p)
      BY <2>2, <2>3 DEF Complete
    <2>4. CASE NextLayer(p)
      BY <2>4 DEF NextLayer
    <2>5. ASSUME NEW n \in Nodes,
                 StartWorker(p, n) \/ \E outcome \in Outcomes : FinishWorker(p, n, outcome)
          PROVE  Kept
      BY <2>5 DEF StartWorker, FinishWorker
    <2>6. ASSUME NEW n \in Nodes, StopAtNode(p, n)
          PROVE  Kept
      <3> DEFINE status == IF Unapproved(p, n) THEN "HOLD" ELSE "BLOCK"
                 marked == [mem[p].nodes EXCEPT ![n] = Bare(status, 0)]
      <3>1. n \notin Passed(mem[p]) /\ Finish(p, status, MarkSkipped(marked, n))
        BY <1>3, <2>6, NoOrphans DEF StopAtNode, First, Stoppers, Unsettled
      <3>2. marked \in [Nodes -> NodeRecord]
        BY <1>1 DEF Bare, NodeRecord, Statuses, Outcomes
      <3>3. \A m \in Passed(mem[p]) : marked[m] = mem[p].nodes[m]
        BY <1>1, <3>1 DEF Passed
      <3> HIDE DEF status, marked
      <3>4. \A m \in Passed(mem[p]) : MarkSkipped(marked, n)[m] = mem[p].nodes[m]
        BY <3>2, <3>3, MarkedSkipped DEF Passed
      <3>5. QED
        BY <2>2, <3>1, <3>4
    <2>7. ASSUME NEW n \in Nodes, Commit(p, n)
          PROVE  Kept
      <3>1. n \notin Passed(mem[p])
        BY <2>7 DEF Commit, First, InState, Outcomes, IInv, ExecutionInv, WorkerSound
      <3>2. mem'[p].nodes = [mem[p].nodes EXCEPT ![n] = WorkRecord(p, n)]
        BY <1>1, <2>7 DEF Commit, Checkpoint
      <3>3. QED
        BY <1>1, <1>3, <3>1, <3>2 DEF Passed
    <2>8. ASSUME NEW n \in Nodes, StopOnFailure(p, n)
          PROVE  Kept
      <3>1. \A m \in Passed(mem[p]) : MarkSkipped(mem[p].nodes, n)[m] = mem[p].nodes[m]
        BY <1>1, MarkedSkipped DEF Passed
      <3>2. QED
        BY <2>2, <2>8, <3>1 DEF StopOnFailure
    <2>9. QED
      BY <2>1, <2>3, <2>4, <2>5, <2>6, <2>7, <2>8 DEF ExecutorStep
  <1>4. QED
    BY <1>2, <1>3

\* While a command is under way no step but its own death takes back a record
\* that is PASS.
THEOREM PassedRecordsFinal == Spec => PassedIsFinal
  <1>1. ASSUME IInv, [Next]_vars, NEW q \in Procs, pc[q] # "idle"
        PROVE  \/ Crash(q)
               \/ \A n \in Passed(mem[q]) : mem'[q].nodes[n] = mem[q].nodes[n]
    <2>1. ASSUME NEW p \in Procs, Command(p)
          PROVE  mem'[q] = mem[q]
      BY <1>1, <2>1 DEF Command, Start, Resume, Repair, Begin, IInv, TypeOK
    <2>2. ASSUME NEW p \in Procs, Crash(p), p # q
          PROVE  mem'[q] = mem[q]
      BY <2>2, <1>1 DEF Crash, IInv, TypeOK
    <2>3. CASE OtherGraphRuns \/ UNCHANGED vars
      BY <2>3 DEF OtherGraphRuns, vars
    <2>4. QED
      BY <1>1, <2>1, <2>2, <2>3, ExecutorKeepsPassed DEF Next
  <1>2. IInv /\ [Next]_vars =>
          [\A p \in Procs : pc[p] # "idle" =>
             \/ Crash(p)
             \/ \A n \in Passed(mem[p]) : mem'[p].nodes[n] = mem[p].nodes[n]]_vars
    BY <1>1
  <1>3. QED
    BY <1>2, Invariance, PTL DEF Spec, PassedIsFinal

-----------------------------------------------------------------------------
(* The stop rule of repair *)

\* The rounds an execution has left are paid for by the starts so far.
Paid(e) == repairs + (MaxRounds - e.round) <= (MaxRounds - 1) * starts

Budget ==
  /\ RepairsBounded
  /\ HasCheckpoint => Paid(disk)
  /\ \A p \in Procs : pc[p] # "idle" => Paid(mem[p])

\* Steps that spend nothing keep the budget of every execution that only comes
\* from the file or from memory.
LEMMA NothingSpent ==
  ASSUME Budget, repairs' = repairs, starts' = starts,
         HasCheckpoint' => \/ HasCheckpoint /\ disk'.round = disk.round
                           \/ \E p \in Procs : pc[p] # "idle" /\ disk'.round = mem[p].round,
         \A p \in Procs : pc'[p] # "idle" =>
            \/ pc[p] # "idle" /\ mem'[p].round = mem[p].round
            \/ HasCheckpoint /\ mem'[p].round = disk.round
  PROVE  Budget'
  <1>1. RepairsBounded'
    BY DEF Budget, RepairsBounded
  <1>2. (HasCheckpoint => Paid(disk))'
    BY DEF Budget, Paid
  <1>3. \A p \in Procs : pc'[p] # "idle" => Paid(mem[p])'
    BY DEF Budget, Paid
  <1>4. QED
    BY <1>1, <1>2, <1>3 DEF Budget

LEMMA ExecutorSpendsNothing ==
  ASSUME IInv, Budget, NEW p \in Procs, ExecutorStep(p) \/ Crash(p)
  PROVE  Budget'
  <1>1. mem \in [Procs -> Checkpoint] /\ pc \in [Procs -> {"idle", "layer", "run"}]
    BY DEF IInv, TypeOK
  <1>2. repairs' = repairs /\ starts' = starts
    BY DEF ExecutorStep, Dispatch, PassOver, Complete, NextLayer, StopAtNode, StartWorker,
       FinishWorker, Commit, StopOnFailure, Finish, Crash
  <1>3. \A q \in Procs : pc'[q] # "idle" => pc[q] # "idle" /\ mem'[q].round = mem[q].round
    <2>1. CASE Crash(p)
      BY <1>1, <2>1 DEF Crash, Leave
    <2>2. CASE ExecutorStep(p)
      <3>1. ASSUME NEW status, NEW nodes, Finish(p, status, nodes)
            PROVE  \A q \in Procs : pc'[q] # "idle" =>
                     pc[q] # "idle" /\ mem'[q].round = mem[q].round
        BY <1>1, <3>1 DEF Finish, Leave
      <3>2. CASE Dispatch(p) \/ PassOver(p) \/ NextLayer(p)
        <4>1. pc[p] # "idle" /\ mem'[p].round = mem[p].round
          BY <1>1, <3>2 DEF Dispatch, PassOver, NextLayer, Committed, Checkpoint
        <4>2. \A q \in Procs \ {p} : mem'[q] = mem[q] /\ pc'[q] = pc[q]
          BY <1>1, <3>2 DEF Dispatch, PassOver, NextLayer
        <4>3. QED
          BY <4>1, <4>2
      <3>3. ASSUME NEW n \in Nodes,
                   \/ StartWorker(p, n)
                   \/ \E outcome \in Outcomes : FinishWorker(p, n, outcome)
                   \/ Commit(p, n)
            PROVE  \A q \in Procs : pc'[q] # "idle" =>
                     pc[q] # "idle" /\ mem'[q].round = mem[q].round
        <4>1. pc' = pc /\ mem'[p].round = mem[p].round
          BY <1>1, <3>3 DEF StartWorker, FinishWorker, Commit, Checkpoint
        <4>2. \A q \in Procs \ {p} : mem'[q] = mem[q]
          BY <1>1, <3>3 DEF StartWorker, FinishWorker, Commit
        <4>3. QED
          BY <4>1, <4>2
      <3>4. QED
        BY <2>2, <3>1, <3>2, <3>3 DEF ExecutorStep, Complete, StopAtNode, StopOnFailure
    <2>3. QED
      BY <2>1, <2>2
  <1>4. HasCheckpoint' => \/ HasCheckpoint /\ disk'.round = disk.round
                          \/ pc[p] # "idle" /\ disk'.round = mem[p].round
    <2>1. ASSUME NEW status, NEW nodes, Finish(p, status, nodes)
          PROVE  disk'.round = mem[p].round
      BY <1>1, <2>1 DEF Finish
    <2>2. CASE Complete(p) \/ \E n \in Nodes : StopAtNode(p, n) \/ StopOnFailure(p, n)
      BY <2>1, <2>2 DEF Complete, StopAtNode, StopOnFailure, Committed
    <2>3. CASE Dispatch(p) \/ PassOver(p)
      BY <1>1, <2>3 DEF Dispatch, PassOver, Checkpoint, HasCheckpoint
    <2>4. ASSUME NEW n \in Nodes, Commit(p, n)
          PROVE  pc[p] # "idle" /\ disk'.round = mem[p].round
      <3>1. pc[p] = "run"
        BY <2>4 DEF Commit, First, InState, Outcomes, IInv, ExecutionInv, WorkerSound
      <3>2. QED
        BY <1>1, <2>4, <3>1 DEF Commit, Checkpoint
    <2>5. CASE \/ NextLayer(p) \/ Crash(p)
               \/ \E n \in Nodes : \/ StartWorker(p, n)
                                   \/ \E outcome \in Outcomes : FinishWorker(p, n, outcome)
      BY <2>5 DEF NextLayer, Crash, StartWorker, FinishWorker, HasCheckpoint
    <2>6. QED
      BY <2>2, <2>3, <2>4, <2>5 DEF ExecutorStep
  <1>5. QED
    BY <1>2, <1>3, <1>4, NothingSpent

LEMMA CommandSpends ==
  ASSUME IInv, Budget, \A p, q \in Procs : p = q, PersistRepair,
         NEW p \in Procs, Command(p)
  PROVE  Budget'
  <1>1. /\ mem \in [Procs -> Checkpoint] /\ pc \in [Procs -> {"idle", "layer", "run"}]
        /\ repairs \in Nat /\ starts \in Nat /\ MaxRounds \in Nat \ {0}
        /\ HasCheckpoint => disk \in Checkpoint /\ disk.round \in 1..MaxRounds
    BY BoundAssumption DEF IInv, TypeOK, HasCheckpoint, Checkpoint
  <1>2. ASSUME NEW e, NEW granted, NEW short, Begin(p, e, granted, short)
        PROVE  \A q \in Procs : pc[q] = "idle" /\ mem'[q] = e
    BY <1>1, <1>2 DEF Begin
  <1>3. CASE Start(p)
    <2>1. /\ disk' = disk /\ repairs' = repairs /\ starts' = starts + 1
          /\ \A q \in Procs : mem'[q] = FreshExecution
      BY <1>2, <1>3 DEF Start
    <2>2. (MaxRounds - 1) * starts' = (MaxRounds - 1) * starts + (MaxRounds - 1)
      BY <1>1, <2>1
    <2> DEFINE cap == (MaxRounds - 1) * starts
    <2>3. cap \in Int
      BY <1>1
    <2>4. /\ repairs <= cap
          /\ HasCheckpoint => repairs + (MaxRounds - disk.round) <= cap
      BY DEF Budget, RepairsBounded, Paid
    <2>5. FreshExecution.round = 1
      BY DEF FreshExecution
    <2> HIDE DEF cap
    <2>6. /\ repairs' <= cap + (MaxRounds - 1)
          /\ HasCheckpoint => repairs' + (MaxRounds - disk'.round) <= cap + (MaxRounds - 1)
          /\ \A q \in Procs : repairs' + (MaxRounds - mem'[q].round) <= cap + (MaxRounds - 1)
      BY <1>1, <2>1, <2>3, <2>4, <2>5
    <2>7. QED
      BY <2>1, <2>2, <2>6 DEF cap, Budget, RepairsBounded, Paid, HasCheckpoint
  <1>4. CASE Resume(p)
    <2>1. /\ disk' = disk /\ repairs' = repairs /\ starts' = starts /\ HasCheckpoint
          /\ \A q \in Procs : mem'[q] = [disk EXCEPT !.status = "PENDING"]
      BY <1>2, <1>4 DEF Resume
    <2>2. \A q \in Procs : mem'[q].round = disk.round
      BY <1>1, <2>1 DEF Checkpoint
    <2>3. QED
      BY <2>1, <2>2, NothingSpent DEF HasCheckpoint
  <1>5. ASSUME NEW n \in Nodes, Repair(p, n)
        PROVE  Budget'
    <2>1. /\ HasCheckpoint /\ disk.round < MaxRounds
          /\ repairs' = repairs + 1 /\ starts' = starts
          /\ disk' = InvalidateFrom(disk, n)
          /\ \A q \in Procs : mem'[q] = InvalidateFrom(disk, n)
      BY <1>2, <1>5 DEF Repair
    <2>2. InvalidateFrom(disk, n).round = disk.round + 1
      BY DEF InvalidateFrom
    <2> DEFINE cap == (MaxRounds - 1) * starts
    <2>3. cap \in Int /\ repairs + (MaxRounds - disk.round) <= cap
      BY <1>1, <2>1 DEF Budget, Paid
    <2> HIDE DEF cap
    <2>4. repairs + 1 + (MaxRounds - (disk.round + 1)) <= cap /\ repairs + 1 <= cap
      BY <1>1, <2>1, <2>3
    <2>5. QED
      BY <2>1, <2>2, <2>4 DEF cap, Budget, RepairsBounded, Paid
  <1>6. QED
    BY <1>3, <1>4, <1>5 DEF Command

\* One command at a time and the invalidated checkpoint saved before anything
\* runs: then crashes and resumes buy no extra repair rounds.
THEOREM RepairStopRule ==
  ASSUME \A p, q \in Procs : p = q, PersistRepair
  PROVE  Spec => []RepairsBounded
  <1>1. Init => Budget
    BY BoundAssumption DEF Init, Budget, RepairsBounded, HasCheckpoint
  <1>2. IInv /\ Budget /\ [Next]_vars => Budget'
    <2> SUFFICES ASSUME IInv, Budget, [Next]_vars PROVE Budget'
      OBVIOUS
    <2>1. ASSUME NEW p \in Procs, Command(p) \/ ExecutorStep(p) \/ Crash(p)
          PROVE  Budget'
      BY <2>1, CommandSpends, ExecutorSpendsNothing
    <2>2. CASE OtherGraphRuns
      BY <2>2, NothingSpent DEF OtherGraphRuns, HasCheckpoint
    <2>3. CASE UNCHANGED vars
      BY <2>3, NothingSpent DEF vars, HasCheckpoint
    <2>4. QED
      BY <2>1, <2>2, <2>3 DEF Next
  <1>3. Budget => RepairsBounded
    BY DEF Budget
  <1>4. QED
    BY <1>1, <1>2, <1>3, Invariance, PTL DEF Spec

-----------------------------------------------------------------------------
(* The executor implements TaskRun *)

\* Results are recorded only when the whole layer has been worked off.
Gathered(p) ==
  InState(p, {"queued", "running"}) # {} => InState(p, {"done"}) = {}

PromiseInv == IInv /\ \A p \in Procs : Gathered(p)

\* The state TaskRun sees of a command.
Seen(p) ==
  <<pc[p], Passed(mem[p]), Busy(p), Failed(p), approvals[p], mem[p].status>>

\* A step that leaves a command's execution and workers alone is not seen.
LEMMA Unseen ==
  ASSUME NEW p \in Procs, mem'[p] = mem[p], pc'[p] = pc[p], approvals'[p] = approvals[p],
         work'[p] = work[p]
  PROVE  /\ UNCHANGED Promise(p)!vars
         /\ Gathered(p) => Gathered(p)'
  BY DEF Promise!vars, Passed, Busy, Failed, InState, Gathered

LEMMA BeginsPromise ==
  ASSUME PromiseInv, NEW p \in Procs, NEW e \in Checkpoint,
         NEW granted \in SUBSET HumanGates, NEW short \in Shortages,
         Begin(p, e, granted, short), Sound(e), e.status = "PENDING"
  PROVE  Promise(p)!Begin /\ Gathered(p)'
  <1>1. /\ pc[p] = "idle" /\ mem'[p] = e /\ pc'[p] = "layer" /\ approvals'[p] = granted
        /\ work' = work
    BY DEF Begin, PromiseInv, IInv, TypeOK
  <1>2. \A n \in Nodes : work[p][n].state = "none"
    BY <1>1 DEF PromiseInv, IInv, ExecutionInv, WorkerSound
  <1>3. Passed(mem[p])' = Passed(e)
    BY <1>1 DEF Passed
  <1>4. Passed(e) \subseteq Nodes /\ \A n \in Passed(e) : Deps[n] \subseteq Passed(e)
    BY DEF Passed, Sound, PassedClosed
  <1>5. /\ Busy(p) = {} /\ Busy(p)' = {} /\ Failed(p) = {} /\ Failed(p)' = {}
        /\ Gathered(p)'
    BY <1>1, <1>2 DEF Busy, Failed, InState, Outcomes, Gathered
  <1>6. QED
    BY <1>1, <1>3, <1>4, <1>5 DEF Promise!Begin, Promise!Closed

LEMMA CommandKeepsPromise ==
  ASSUME PromiseInv, NEW p \in Procs, Command(p)
  PROVE  Promise(p)!Begin /\ Gathered(p)'
  <1>1. CASE Start(p)
    <2>1. FreshExecution.status = "PENDING"
      BY DEF FreshExecution
    <2>2. QED
      BY <1>1, <2>1, FreshSound, BeginsPromise DEF Start
  <1>2. CASE Resume(p)
    <2>1. disk \in Checkpoint /\ Sound(disk)
      BY <1>2 DEF Resume, PromiseInv, IInv, TypeOK, HasCheckpoint
    <2>2. QED
      BY <1>2, <2>1, ResumedSound, BeginsPromise DEF Resume
  <1>3. ASSUME NEW n \in Nodes, Repair(p, n)
        PROVE  Promise(p)!Begin /\ Gathered(p)'
    <2>1. disk \in Checkpoint /\ Sound(disk) /\ disk.round < MaxRounds
      BY <1>3 DEF Repair, PromiseInv, IInv, TypeOK, HasCheckpoint
    <2>2. QED
      BY <1>3, <2>1, InvalidatedSound, BeginsPromise DEF Repair
  <1>4. QED
    BY <1>1, <1>2, <1>3 DEF Command

\* Handing a layer to the pool is not seen: no worker has taken a node up yet.
LEMMA DispatchUnseen ==
  ASSUME PromiseInv, NEW p \in Procs, Dispatch(p) \/ PassOver(p) \/ NextLayer(p)
  PROVE  UNCHANGED Promise(p)!vars /\ Gathered(p)'
  <1>1. /\ mem' = mem /\ approvals' = approvals /\ pc[p] # "idle" /\ pc'[p] # "idle"
    <2>1. CASE Dispatch(p) \/ PassOver(p)
      <3>1. SkipOrphans(p, [m \in Nodes |-> TRUE]) = mem[p].nodes
        BY <2>1, NoOrphans DEF Dispatch, PassOver, PromiseInv
      <3>2. QED
        BY <2>1, <3>1 DEF Dispatch, PassOver, Checkpoint, PromiseInv, IInv, TypeOK
    <2>2. CASE NextLayer(p)
      BY <2>2 DEF NextLayer, Committed, PromiseInv, IInv, TypeOK
    <2>3. QED
      BY <2>1, <2>2
  <1>2. /\ Busy(p) = {} /\ Failed(p) = {}
    <2>1. CASE Dispatch(p) \/ PassOver(p)
      <3>1. \A n \in Nodes : work[p][n].state = "none"
        BY <2>1 DEF Dispatch, PassOver, PromiseInv, IInv, ExecutionInv, WorkerSound
      <3>2. QED
        BY <3>1 DEF Busy, Failed, InState, Outcomes
    <2>2. CASE NextLayer(p)
      BY <2>2 DEF NextLayer, Committed, Busy, InState
    <2>3. QED
      BY <2>1, <2>2
  <1>3. \A n \in Nodes : work'[p][n].state \in {"none", "queued"}
    <2>1. CASE Dispatch(p)
      <3>1. work'[p] = [n \in Nodes |-> IF n \in Runnable(p)
                          THEN [state |-> "queued", inputs |-> Inputs(mem[p], n)]
                          ELSE NoWorker]
        BY <2>1 DEF Dispatch, PromiseInv, IInv, TypeOK
      <3>2. TAKE n \in Nodes
      <3>3. CASE n \in Runnable(p)
        <4>1. work'[p][n] = [state |-> "queued", inputs |-> Inputs(mem[p], n)]
          BY <3>1, <3>3
        <4>2. QED
          BY <4>1
      <3>4. CASE n \notin Runnable(p)
        BY <3>1, <3>4 DEF NoWorker
      <3>5. QED
        BY <3>3, <3>4
    <2>2. CASE PassOver(p)
      BY <2>2 DEF PassOver, PromiseInv, IInv, ExecutionInv, WorkerSound
    <2>3. CASE NextLayer(p)
      BY <2>3 DEF NextLayer, PromiseInv, IInv, TypeOK, NoWork, NoWorker
    <2>4. QED
      BY <2>1, <2>2, <2>3
  <1>4. Busy(p)' = {} /\ Failed(p)' = {} /\ InState(p, {"done"})' = {}
    BY <1>3 DEF Busy, Failed, InState, Outcomes
  <1>5. QED
    BY <1>1, <1>2, <1>4 DEF Promise!vars, Passed, Gathered

\* A command that ends with no worker at work has returned.
LEMMA FinishReturns ==
  ASSUME PromiseInv, NEW p \in Procs, NEW status, NEW nodes, Finish(p, status, nodes),
         pc[p] # "idle", Busy(p) = {}, status \in Outcomes \cup {"BLOCK"},
         \A m \in Nodes : nodes[m].status = "PASS" <=> m \in Passed(mem[p]),
         status = "PASS" <=> Passed(mem[p]) = Nodes
  PROVE  Promise(p)!Return /\ Gathered(p)'
  <1>1. /\ mem'[p] = [status |-> status, round |-> mem[p].round, nodes |-> nodes]
        /\ pc'[p] = "idle" /\ approvals'[p] = {} /\ work'[p] = NoWork
    BY DEF Finish, Leave, PromiseInv, IInv, TypeOK
  <1>2. mem'[p].status = status /\ mem'[p].nodes = nodes
    BY <1>1
  <1>3. Passed(mem[p])' = Passed(mem[p])
    BY <1>2 DEF Passed
  <1>4. Busy(p)' = {} /\ Failed(p)' = {} /\ Gathered(p)'
    BY <1>1 DEF Busy, Failed, InState, NoWork, NoWorker, Outcomes, Gathered
  <1>5. QED
    BY <1>1, <1>2, <1>3, <1>4 DEF Promise!Return, Outcomes

LEMMA EndKeepsPromise ==
  ASSUME PromiseInv, NEW p \in Procs,
         Complete(p) \/ \E n \in Nodes : StopAtNode(p, n) \/ StopOnFailure(p, n)
  PROVE  Promise(p)!Return /\ Gathered(p)'
  <1>1. mem[p].nodes \in [Nodes -> NodeRecord]
    BY DEF PromiseInv, IInv, TypeOK, Checkpoint
  <1>2. pc[p] = "layer" => Busy(p) = {}
    BY DEF PromiseInv, IInv, ExecutionInv, WorkerSound, Busy, InState, Outcomes
  <1>3. CASE Complete(p)
    <2>1. Finish(p, "PASS", mem[p].nodes) /\ pc[p] = "layer" /\ layer[p] > Depth
      BY <1>3 DEF Complete
    <2>2. layer[p] \in Int /\ \A n \in Nodes : Level[n] \in Int /\ Level[n] <= Depth /\ Depth \in Int
      BY GraphAssumption DEF PromiseInv, IInv, TypeOK
    <2>3. Passed(mem[p]) = Nodes
      BY <2>1, <2>2 DEF PromiseInv, IInv, ExecutionInv, LayerSound, Passed
    <2>4. QED
      BY <1>2, <2>1, <2>3, FinishReturns DEF Outcomes, Passed
  <1>4. ASSUME NEW n \in Nodes, StopAtNode(p, n)
        PROVE  Promise(p)!Return /\ Gathered(p)'
    <2> DEFINE status == IF Unapproved(p, n) THEN "HOLD" ELSE "BLOCK"
               marked == [mem[p].nodes EXCEPT ![n] = Bare(status, 0)]
    <2>1. Finish(p, status, MarkSkipped(marked, n)) /\ pc[p] = "layer"
      BY <1>4, NoOrphans DEF StopAtNode, PromiseInv
    <2>2. n \notin Passed(mem[p])
      BY <1>4 DEF StopAtNode, First, Stoppers, Unsettled
    <2>3. /\ marked \in [Nodes -> NodeRecord] /\ marked[n].status = status
          /\ \A m \in Nodes \ {n} : marked[m] = mem[p].nodes[m]
      BY <1>1 DEF Bare, NodeRecord, Statuses, Outcomes
    <2>4. status \in {"HOLD", "BLOCK"}
      OBVIOUS
    <2> HIDE DEF status, marked
    <2>5. \A m \in Nodes : MarkSkipped(marked, n)[m].status = "PASS" <=> m \in Passed(mem[p])
      BY <2>2, <2>3, <2>4, MarkedSkipped DEF Passed
    <2>6. QED
      BY <1>2, <2>1, <2>2, <2>4, <2>5, FinishReturns DEF Outcomes
  <1>5. ASSUME NEW n \in Nodes, StopOnFailure(p, n)
        PROVE  Promise(p)!Return /\ Gathered(p)'
    <2>1. /\ Finish(p, mem[p].nodes[n].status, MarkSkipped(mem[p].nodes, n))
          /\ pc[p] = "run" /\ Busy(p) = {}
      BY <1>5 DEF StopOnFailure, Committed, Busy, InState
    <2>2. n \notin Passed(mem[p]) /\ work[p][n].state = "done"
      BY <1>5 DEF StopOnFailure, First, Failed, InState
    <2>3. mem[p].nodes[n].status \in Outcomes \ {"PASS"}
      BY <2>2 DEF PromiseInv, IInv, ExecutionInv, WorkerSound, Passed
    <2>4. \A m \in Nodes :
            MarkSkipped(mem[p].nodes, n)[m].status = "PASS" <=> m \in Passed(mem[p])
      BY <1>1, MarkedSkipped DEF Passed
    <2>5. QED
      BY <2>1, <2>2, <2>3, <2>4, FinishReturns
  <1>6. QED
    BY <1>3, <1>4, <1>5

\* Only one worker of a command changes.
LEMMA OneWorker ==
  ASSUME PromiseInv, NEW p \in Procs, NEW n \in Nodes, NEW state,
         work' = [work EXCEPT ![p][n].state = state]
  PROVE  /\ work'[p][n].state = state
         /\ \A m \in Nodes \ {n} : work'[p][m] = work[p][m]
  <1> DEFINE w == [work[p][n] EXCEPT !.state = state]
  <1>1. work \in [Procs -> [Nodes -> Worker]] /\ work[p][n] \in Worker
    BY DEF PromiseInv, IInv, TypeOK
  <1>2. w.state = state
    BY <1>1 DEF Worker
  <1>3. work' = [work EXCEPT ![p] = [work[p] EXCEPT ![n] = w]]
    OBVIOUS
  <1> HIDE DEF w
  <1>4. QED
    BY <1>1, <1>2, <1>3

LEMMA WorkerKeepsPromise ==
  ASSUME PromiseInv, NEW p \in Procs, NEW n \in Nodes,
         StartWorker(p, n) \/ \E outcome \in Outcomes : FinishWorker(p, n, outcome)
  PROVE  Promise(p)!Take(n) \/ UNCHANGED Promise(p)!vars
  <1>1. mem' = mem /\ pc' = pc /\ approvals' = approvals
    BY DEF StartWorker, FinishWorker
  <1>2. Passed(mem[p])' = Passed(mem[p]) /\ mem[p].status' = mem[p].status
    BY <1>1 DEF Passed
  <1>3. CASE StartWorker(p, n)
    <2>1. work[p][n].state = "queued" /\ pc[p] # "idle"
      BY <1>3 DEF StartWorker, First, InState
    <2>2. /\ work'[p][n].state = "running"
          /\ \A m \in Nodes \ {n} : work'[p][m] = work[p][m]
      BY <1>3, OneWorker DEF StartWorker
    <2>3. /\ n \notin Passed(mem[p]) /\ Deps[n] \subseteq Passed(mem[p])
          /\ n \in HumanGates => n \in approvals[p]
      BY <2>1 DEF PromiseInv, IInv, ExecutionInv, WorkerSound
    <2>4. n \notin Busy(p) /\ Busy(p)' = Busy(p) \cup {n}
      BY <2>1, <2>2 DEF Busy, InState, Outcomes
    <2>5. InState(p, {"done"}) = {}
      BY <2>1 DEF PromiseInv, Gathered, InState
    <2>6. Failed(p) = {} /\ Failed(p)' = {}
      BY <2>2, <2>5 DEF Failed, InState
    <2>7. QED
      BY <1>1, <1>2, <2>1, <2>3, <2>4, <2>6 DEF Promise!Take
  <1>4. ASSUME NEW outcome \in Outcomes, FinishWorker(p, n, outcome)
        PROVE  UNCHANGED Promise(p)!vars
    <2>1. work[p][n].state = "running" /\ work' = [work EXCEPT ![p][n].state = outcome]
      BY <1>4 DEF FinishWorker
    <2>2. work'[p][n].state = outcome /\ \A m \in Nodes \ {n} : work'[p][m] = work[p][m]
      BY <2>1, OneWorker
    <2>3. Busy(p)' = Busy(p) /\ Failed(p)' = Failed(p)
      BY <1>1, <2>1, <2>2 DEF Busy, Failed, InState, Outcomes, Passed
    <2>4. QED
      BY <1>1, <1>2, <2>3 DEF Promise!vars
  <1>5. QED
    BY <1>3, <1>4

LEMMA WorkerGathers ==
  ASSUME PromiseInv, NEW p \in Procs, NEW n \in Nodes,
         \/ StartWorker(p, n)
         \/ \E outcome \in Outcomes : FinishWorker(p, n, outcome)
         \/ Commit(p, n)
  PROVE  Gathered(p)'
  <1>1. CASE Commit(p, n)
    <2>1. InState(p, {"queued", "running"}) = {} /\ work' = [work EXCEPT ![p][n].state = "done"]
      BY <1>1 DEF Commit
    <2>2. work'[p][n].state = "done" /\ \A m \in Nodes \ {n} : work'[p][m] = work[p][m]
      BY <2>1, OneWorker
    <2>3. QED
      BY <2>1, <2>2 DEF Gathered, InState
  <1>2. CASE StartWorker(p, n)
    <2>1. work[p][n].state = "queued" /\ work' = [work EXCEPT ![p][n].state = "running"]
      BY <1>2 DEF StartWorker, First, InState
    <2>2. work'[p][n].state = "running" /\ \A m \in Nodes \ {n} : work'[p][m] = work[p][m]
      BY <2>1, OneWorker
    <2>3. QED
      BY <2>1, <2>2 DEF PromiseInv, Gathered, InState
  <1>3. ASSUME NEW outcome \in Outcomes, FinishWorker(p, n, outcome)
        PROVE  Gathered(p)'
    <2>1. work[p][n].state = "running" /\ work' = [work EXCEPT ![p][n].state = outcome]
      BY <1>3 DEF FinishWorker
    <2>2. work'[p][n].state = outcome /\ \A m \in Nodes \ {n} : work'[p][m] = work[p][m]
      BY <2>1, OneWorker
    <2>3. QED
      BY <2>1, <2>2 DEF PromiseInv, Gathered, InState, Outcomes
  <1>4. QED
    BY <1>1, <1>2, <1>3

LEMMA CommitKeepsPromise ==
  ASSUME PromiseInv, NEW p \in Procs, NEW n \in Nodes, Commit(p, n)
  PROVE  Promise(p)!Succeed(n) \/ Promise(p)!Fail(n)
  <1> DEFINE r == WorkRecord(p, n)
  <1>1. /\ work[p][n].state \in Outcomes /\ pc' = pc /\ approvals' = approvals
        /\ work'[p][n].state = "done"
        /\ \A m \in Nodes \ {n} : work'[p][m] = work[p][m]
    <2> HIDE DEF r
    <2>1. /\ work[p][n].state \in Outcomes /\ pc' = pc /\ approvals' = approvals
          /\ work' = [work EXCEPT ![p][n].state = "done"]
      BY DEF Commit, First, InState
    <2>2. work'[p][n].state = "done" /\ \A m \in Nodes \ {n} : work'[p][m] = work[p][m]
      BY <2>1, OneWorker
    <2>3. QED
      BY <2>1, <2>2
  <1>2. n \notin Passed(mem[p])
    BY <1>1 DEF PromiseInv, IInv, ExecutionInv, WorkerSound, Outcomes
  <1>3. r.status = work[p][n].state
    BY <1>1, WorkRecordSound DEF PromiseInv
  <1> HIDE DEF r
  <1>4. /\ mem'[p].status = mem[p].status
        /\ mem'[p].nodes = [mem[p].nodes EXCEPT ![n] = r]
        /\ mem[p].nodes \in [Nodes -> NodeRecord]
    BY DEF Commit, PromiseInv, IInv, TypeOK, Checkpoint, r
  <1>5. /\ Passed(mem[p])' = IF r.status = "PASS" THEN Passed(mem[p]) \cup {n} ELSE Passed(mem[p])
    BY <1>2, <1>4 DEF Passed
  <1>6. n \in Busy(p) /\ Busy(p)' = Busy(p) \ {n}
    BY <1>1 DEF Busy, InState, Outcomes
  <1>7. CASE r.status = "PASS"
    <2>1. Failed(p)' = Failed(p)
      BY <1>1, <1>5, <1>7 DEF Failed, InState, Outcomes
    <2>2. QED
      BY <1>1, <1>4, <1>5, <1>6, <1>7, <2>1 DEF Promise!Succeed
  <1>8. CASE r.status # "PASS"
    <2>1. n \in Failed(p)'
      BY <1>1, <1>2, <1>5, <1>8 DEF Failed, InState
    <2>2. QED
      BY <1>1, <1>4, <1>5, <1>6, <1>8, <2>1 DEF Promise!Fail
  <1>9. QED
    BY <1>7, <1>8

LEMMA CrashKeepsPromise ==
  ASSUME PromiseInv, NEW p \in Procs, Crash(p)
  PROVE  Promise(p)!Die /\ Gathered(p)'
  <1>1. /\ pc[p] # "idle" /\ mem'[p] = FreshExecution /\ pc'[p] = "idle"
        /\ approvals'[p] = {} /\ work'[p] = NoWork
    BY DEF Crash, Leave, PromiseInv, IInv, TypeOK
  <1>2. Passed(mem[p])' = {} /\ mem'[p].status = "PENDING"
    BY <1>1, FreshSound DEF Passed, FreshExecution
  <1>3. Busy(p)' = {} /\ Failed(p)' = {} /\ Gathered(p)'
    BY <1>1 DEF Busy, Failed, InState, NoWork, NoWorker, Outcomes, Gathered
  <1>4. QED
    BY <1>1, <1>2, <1>3 DEF Promise!Die

LEMMA StepKeepsPromise ==
  ASSUME PromiseInv, NEW p \in Procs, Command(p) \/ ExecutorStep(p) \/ Crash(p)
  PROVE  [Promise(p)!Next]_(Promise(p)!vars) /\ Gathered(p)'
  <1>1. CASE Command(p)
    BY <1>1, CommandKeepsPromise DEF Promise!Next
  <1>2. CASE Crash(p)
    BY <1>2, CrashKeepsPromise DEF Promise!Next
  <1>3. CASE Dispatch(p) \/ PassOver(p) \/ NextLayer(p)
    BY <1>3, DispatchUnseen
  <1>4. CASE Complete(p) \/ \E n \in Nodes : StopAtNode(p, n) \/ StopOnFailure(p, n)
    BY <1>4, EndKeepsPromise DEF Promise!Next
  <1>5. ASSUME NEW n \in Nodes,
               \/ StartWorker(p, n)
               \/ \E outcome \in Outcomes : FinishWorker(p, n, outcome)
        PROVE  [Promise(p)!Next]_(Promise(p)!vars) /\ Gathered(p)'
    BY <1>5, WorkerKeepsPromise, WorkerGathers DEF Promise!Next
  <1>6. ASSUME NEW n \in Nodes, Commit(p, n)
        PROVE  [Promise(p)!Next]_(Promise(p)!vars) /\ Gathered(p)'
    BY <1>6, CommitKeepsPromise, WorkerGathers DEF Promise!Next
  <1>7. QED
    BY <1>1, <1>2, <1>3, <1>4, <1>5, <1>6 DEF ExecutorStep

\* What one command does is not seen by the others, whatever it does to the file.
LEMMA OthersUnseen ==
  ASSUME PromiseInv, NEW p \in Procs, Command(p) \/ ExecutorStep(p) \/ Crash(p),
         NEW q \in Procs \ {p}
  PROVE  /\ mem'[q] = mem[q] /\ pc'[q] = pc[q] /\ approvals'[q] = approvals[q]
         /\ work'[q] = work[q]
  <1>1. TypeOK
    BY DEF PromiseInv, IInv
  <1>2. CASE Command(p)
    BY <1>1, <1>2 DEF Command, Start, Resume, Repair, Begin, TypeOK
  <1>3. CASE Crash(p)
    BY <1>1, <1>3 DEF Crash, Leave, TypeOK
  <1>4. CASE Dispatch(p) \/ PassOver(p) \/ NextLayer(p)
    BY <1>1, <1>4 DEF Dispatch, PassOver, NextLayer, TypeOK
  <1>5. CASE Complete(p) \/ \E n \in Nodes : StopAtNode(p, n) \/ StopOnFailure(p, n)
    BY <1>1, <1>5 DEF Complete, StopAtNode, StopOnFailure, Finish, Leave, TypeOK
  <1>6. ASSUME NEW n \in Nodes,
               \/ StartWorker(p, n) \/ Commit(p, n)
               \/ \E outcome \in Outcomes : FinishWorker(p, n, outcome)
        PROVE  /\ mem'[q] = mem[q] /\ pc'[q] = pc[q] /\ approvals'[q] = approvals[q]
               /\ work'[q] = work[q]
    BY <1>1, <1>6 DEF StartWorker, FinishWorker, Commit, TypeOK
  <1>7. QED
    BY <1>2, <1>3, <1>4, <1>5, <1>6 DEF ExecutorStep

LEMMA NextKeepsPromise ==
  ASSUME PromiseInv, [Next]_vars
  PROVE  \A q \in Procs : [Promise(q)!Next]_(Promise(q)!vars) /\ Gathered(q)'
  <1> SUFFICES ASSUME NEW q \in Procs
               PROVE  [Promise(q)!Next]_(Promise(q)!vars) /\ Gathered(q)'
    OBVIOUS
  <1>1. ASSUME NEW p \in Procs, Command(p) \/ ExecutorStep(p) \/ Crash(p)
        PROVE  [Promise(q)!Next]_(Promise(q)!vars) /\ Gathered(q)'
    <2>1. CASE p = q
      BY <1>1, <2>1, StepKeepsPromise
    <2>2. CASE p # q
      <3>1. /\ mem'[q] = mem[q] /\ pc'[q] = pc[q] /\ approvals'[q] = approvals[q]
            /\ work'[q] = work[q]
        BY <1>1, <2>2, OthersUnseen
      <3>2. QED
        BY <3>1, Unseen DEF PromiseInv
    <2>3. QED
      BY <2>1, <2>2
  <1>2. CASE OtherGraphRuns \/ UNCHANGED vars
    BY <1>2, Unseen DEF OtherGraphRuns, vars, PromiseInv
  <1>3. QED
    BY <1>1, <1>2 DEF Next

\* Every command of every behaviour implements TaskRun: whatever the layers, the
\* pool, the commit loop, repairs, crashes and other commands on the same
\* checkpoint file do, it takes up a node only above nodes that are done, a gate
\* only with approval, nothing after a failure, and reports PASS exactly when
\* every node is done.
THEOREM ImplementsTaskRun == Spec => KeepsPromise
  <1>1. Init => \A p \in Procs : Promise(p)!Init /\ Gathered(p)
    <2> SUFFICES ASSUME Init, NEW p \in Procs
                 PROVE  Promise(p)!Init /\ Gathered(p)
      OBVIOUS
    <2>1. /\ mem[p] = FreshExecution /\ pc[p] = "idle" /\ approvals[p] = {}
          /\ work[p] = NoWork
      BY DEF Init
    <2>2. Passed(mem[p]) = {} /\ mem[p].status = "PENDING"
      BY <2>1, FreshSound DEF FreshExecution
    <2>3. Busy(p) = {} /\ Failed(p) = {} /\ Gathered(p)
      BY <2>1 DEF Busy, Failed, InState, NoWork, NoWorker, Outcomes, Gathered
    <2>4. QED
      BY <2>1, <2>2, <2>3 DEF Promise!Init
  <1>2. Init => PromiseInv
    BY <1>1, InitInv DEF PromiseInv
  <1>3. PromiseInv /\ [Next]_vars => PromiseInv'
    <2> SUFFICES ASSUME PromiseInv, [Next]_vars PROVE PromiseInv'
      OBVIOUS
    <2>1. IInv'
      BY NextInv DEF PromiseInv
    <2>2. \A p \in Procs : Gathered(p)'
      BY NextKeepsPromise
    <2>3. QED
      BY <2>1, <2>2 DEF PromiseInv
  <1>4. PromiseInv /\ [Next]_vars =>
          [\A p \in Procs : [Promise(p)!Next]_(Promise(p)!vars)]_vars
    BY NextKeepsPromise
  <1>5. Init => \A p \in Procs : Promise(p)!Init
    BY <1>1
  <1>6. QED
    BY <1>2, <1>3, <1>4, <1>5, PTL DEF Spec, KeepsPromise
=============================================================================
