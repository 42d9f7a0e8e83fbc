------------------------------- MODULE TaskRun -------------------------------
(***************************************************************************)
(* What one command that executes a task graph promises, with the layers,  *)
(* the thread pool, the order of commits, the checkpoint file and every    *)
(* other command hidden: a node is taken up only when all its dependencies *)
(* are done, never twice, a human gate only with the operator's approval,  *)
(* nothing more after a failure, and the run is reported PASS exactly when *)
(* every node is done.                                                     *)
(***************************************************************************)
CONSTANTS Nodes, Deps, HumanGates

VARIABLES
  running,  \* is the command under way?
  done,     \* nodes whose result is in force
  busy,     \* nodes handed to a worker whose result is not recorded yet
  failed,   \* has a result been recorded that is not PASS?
  granted,  \* the gates the operator approved for this command
  report    \* the status the command reports

vars == <<running, done, busy, failed, granted, report>>

Closed(S) == \A n \in S : Deps[n] \subseteq S

Init ==
  /\ running = FALSE
  /\ done = {}
  /\ busy = {}
  /\ failed = FALSE
  /\ granted = {}
  /\ report = "PENDING"

\* A command starts from nothing, or from what a checkpoint still vouches for.
Begin ==
  /\ ~ running
  /\ running' = TRUE
  /\ done' \in SUBSET Nodes /\ Closed(done')
  /\ granted' \in SUBSET HumanGates
  /\ report' = "PENDING"
  /\ UNCHANGED <<busy, failed>>

Take(n) ==
  /\ running
  /\ ~ failed
  /\ n \notin done \cup busy
  /\ Deps[n] \subseteq done
  /\ n \in HumanGates => n \in granted
  /\ busy' = busy \cup {n}
  /\ UNCHANGED <<running, done, failed, granted, report>>

Succeed(n) ==
  /\ n \in busy
  /\ busy' = busy \ {n}
  /\ done' = done \cup {n}
  /\ UNCHANGED <<running, failed, granted, report>>

Fail(n) ==
  /\ n \in busy
  /\ busy' = busy \ {n}
  /\ failed' = TRUE
  /\ UNCHANGED <<running, done, granted, report>>

\* The command returns; a result that is not PASS leaves some node undone.
Return ==
  /\ running
  /\ busy = {}
  /\ running' = FALSE
  /\ failed' = FALSE
  /\ granted' = {}
  /\ report' \in {"PASS", "FAIL", "HOLD", "BLOCK"}
  /\ report' = "PASS" <=> done = Nodes
  /\ UNCHANGED <<done, busy>>

\* The process dies and its memory is lost.
Die ==
  /\ running
  /\ running' = FALSE
  /\ done' = {}
  /\ busy' = {}
  /\ failed' = FALSE
  /\ granted' = {}
  /\ report' = "PENDING"

Next ==
  \/ Begin
  \/ \E n \in Nodes : Take(n) \/ Succeed(n) \/ Fail(n)
  \/ Return
  \/ Die

Spec == Init /\ [][Next]_vars
=============================================================================
