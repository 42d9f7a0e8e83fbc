-------------------------- MODULE TaskGraphPromise --------------------------
(***************************************************************************)
(* Every command that runs TaskGraphExecutor.execute implements TaskRun:   *)
(* the mapping forgets layers, queue, commit order and checkpoint file.    *)
(***************************************************************************)
EXTENDS TaskGraph

\* Handed to a worker, result not yet recorded.
Busy(p) == InState(p, {"running"} \cup Outcomes)

Promise(p) == INSTANCE TaskRun WITH
  running <- pc[p] # "idle",
  done <- Passed(mem[p]),
  busy <- Busy(p),
  failed <- Failed(p) # {},
  granted <- approvals[p],
  report <- mem[p].status

\* However many commands share the checkpoint file, each one keeps the promise
\* of TaskRun: the readiness pass, the pool and the commit loop of execute only
\* ever take the steps TaskRun allows.
KeepsPromise ==
  /\ \A p \in Procs : Promise(p)!Init
  /\ [][\A p \in Procs : [Promise(p)!Next]_(Promise(p)!vars)]_vars
=============================================================================
