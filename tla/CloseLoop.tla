------------------------------ MODULE CloseLoop ------------------------------
(***************************************************************************)
(* The close loop of pipeline.py and the heartbeat tick around it: which   *)
(* cases a command selects, the graph it compiles for them (QualityGraph), *)
(* the checkpoint it starts from, what its task runner returns for every   *)
(* kind of node, and the report it writes to latest-run.json.              *)
(*                                                                         *)
(* One command is under way at a time.  TaskGraph models the executor in   *)
(* detail; here a node runs and is committed in one step.                  *)
(*                                                                         *)
(* A contract is abstracted to its hash, and a result to its case, the     *)
(* hash of the contract it was obtained under, and its status.             *)
(***************************************************************************)
EXTENDS Integers, Functions

CONSTANTS
  CaseIds,         \* the case ids that may exist
  Contracts,       \* the contents (hashes) a case contract may have
  ProbeContracts,  \* those whose results are partial probes
  Editable,        \* cases whose contract may change between commands
  MaxRounds,       \* TaskGraph.max_rounds
  MaxCommands,     \* bound: commands in one behaviour
  NoFile,          \* a file, or the contract of a case, does not exist
  NoCommand,       \* no command is under way
  NoReport         \* the command returned without having run anything

ASSUME CloseLoopAssumption ==
  /\ ProbeContracts \subseteq Contracts
  /\ Editable \subseteq CaseIds
  /\ NoFile \notin Contracts
  /\ MaxRounds \in Nat \ {0}

VARIABLES
  contracts,   \* contracts[c]: the contract file of case c
  command,     \* the command under way
  mem,         \* the node records of its execution
  checkpoint,  \* close-loop/task-graph-latest.json
  reply,       \* the payload the last command returned, until the next begins
  commands     \* number of commands so far

vars == <<contracts, command, mem, checkpoint, reply, commands>>

\* What a command goes by: not what the one before it has answered.  A run that asks
\* nothing about replies need not tell states apart that differ in the reply alone.
WithoutReply == <<contracts, command, mem, checkpoint, commands>>

-----------------------------------------------------------------------------
(* The compiled graph of a selection, and what its nodes deliver *)

Graph(Cases) == INSTANCE QualityGraph

Existing == {c \in CaseIds : contracts[c] # NoFile}

Result == [case : CaseIds, contract : Contracts,
           status : {"PASS", "FAIL", "BLOCK", "NOT_RUN"}]

Official(results) == {r \in results : r.contract \notin ProbeContracts}

Statuses(results) == {r.status : r \in results}

ResultOutcome(results) ==
  CASE Statuses(results) = {"NOT_RUN"} -> "NOT_RUN"
    [] "FAIL" \in Statuses(results) -> "FAIL"
    [] "FAIL" \notin Statuses(results) /\ "BLOCK" \in Statuses(results) -> "BLOCK"
    [] Statuses(results) = {"PASS"} -> "PASS"
    [] OTHER -> "HOLD"

TestOutcome(results, dry) ==
  IF dry /\ results # {} THEN "NOT_RUN"
  ELSE IF Official(results) = {} THEN "HOLD"
  ELSE ResultOutcome(Official(results))

\* The record of a node: its status and, if PASS, the results in its output and
\* the outcome the merge computed.  "ABSENT" stands for PENDING and SKIPPED.
Record(status, results, outcome) ==
  [status |-> status, results |-> results, outcome |-> outcome]

Absent == Record("ABSENT", {}, "none")
Failed == Record("FAIL", {}, "none")

Fresh(pinned) == [n \in Graph(DOMAIN pinned)!CompiledNodes |-> Absent]

Passed(nodes) == {n \in DOMAIN nodes : nodes[n].status = "PASS"}

\* The cases and the graph of the command under way.
Selected == DOMAIN command.pinned
Q == INSTANCE QualityGraph WITH Cases <- Selected

\* The inputs of a node, all of them results: those of its dependencies.
InputResults(n) == UNION {mem[d].results : d \in Q!DependsOn(n)}

\* _verify_task_result
Verified(r, c) ==
  /\ r.case = c
  /\ r.contract = command.pinned[c]

-----------------------------------------------------------------------------
Init ==
  /\ contracts \in [CaseIds -> Contracts \cup {NoFile}]
  /\ command = NoCommand
  /\ mem = <<>>
  /\ checkpoint = NoFile
  /\ reply = NoReport
  /\ commands = 0

(***************************************************************************)
(* Starting a command                                                      *)
(***************************************************************************)
\* What commands select: the contract files as they leave them, and the selected
\* ones.  run-once takes all contracts or one case.
SelectedOf(files, scope) == [files |-> files, pinned |-> Restrict(files, scope)]

OperatorSelections ==
  {SelectedOf(contracts, scope) : scope \in {Existing} \cup {{c} : c \in Existing}}

\* A tick first grows contracts for new cases and runs those; given a case it
\* grows none and runs that; with run_existing_if_no_growth it runs everything.
Grown(new) ==
  {f \in [CaseIds -> Contracts \cup {NoFile}] :
     /\ \A c \in new : f[c] # NoFile
     /\ \A c \in CaseIds \ new : f[c] = contracts[c]}

TickScopes(new) ==
  {Existing \cup new} \cup IF new = {} THEN {{c} : c \in Existing} ELSE {new}

TickSelections ==
  UNION {UNION {{SelectedOf(f, scope) : scope \in TickScopes(new)} : f \in Grown(new)} :
            new \in SUBSET (CaseIds \ Existing)}

Selections(by) == IF by = "operator" THEN OperatorSelections ELSE TickSelections

\* No command is under way, and the bound lets another one start.
May == command = NoCommand /\ commands < MaxCommands

\* A contract file is written, edited or removed.  Commands load the contracts
\* when they start, so a change while one runs is a change after it has ended.
EditContract(c) ==
  /\ May
  /\ c \in Editable
  /\ \E content \in (Contracts \cup {NoFile}) \ {contracts[c]} :
        contracts' = [contracts EXCEPT ![c] = content]
  /\ UNCHANGED <<command, mem, checkpoint, reply, commands>>

Begin(by, dry, confirm, pinned, round, nodes) ==
  /\ command' = [by |-> by, dry |-> dry, confirm |-> confirm, pinned |-> pinned,
                 round |-> round, tried |-> {}, result |-> "PENDING"]
  /\ mem' = nodes
  /\ reply' = NoReport
  /\ commands' = commands + 1

Start ==
  /\ May
  /\ \E s \in OperatorSelections, dry, confirm \in BOOLEAN :
        Begin("operator", dry, confirm, s.pinned, 1, Fresh(s.pinned))
  /\ UNCHANGED <<contracts, checkpoint>>

\* Mutant: a checkpoint is accepted for the same cases, whatever their contracts.
LoadsSameCases(pinned) ==
  checkpoint # NoFile /\ DOMAIN checkpoint.pinned = DOMAIN pinned

\* load(): the graph hash covers the selected cases and their contract hashes.
Loads(pinned) == checkpoint # NoFile /\ checkpoint.pinned = pinned

\* --resume-task-graph
Resume ==
  /\ May
  /\ \E s \in OperatorSelections, dry, confirm \in BOOLEAN :
        /\ Loads(s.pinned)
        /\ Begin("operator", dry, confirm, s.pinned, checkpoint.round, checkpoint.nodes)
  /\ UNCHANGED <<contracts, checkpoint>>

\* Mutant: off by one in the stop rule.
RepairOnceMore ==
  /\ May
  /\ \E s \in OperatorSelections, dry, confirm \in BOOLEAN :
        /\ Loads(s.pinned)
        /\ checkpoint.round <= MaxRounds
        /\ \E n \in DOMAIN checkpoint.nodes :
             LET redone == Graph(DOMAIN s.pinned)!Descendants(n)
                 nodes == [m \in DOMAIN checkpoint.nodes |->
                             IF m \in redone THEN Absent ELSE checkpoint.nodes[m]]
                 round == checkpoint.round + 1
             IN  /\ Begin("operator", dry, confirm, s.pinned, round, nodes)
                 /\ checkpoint' = [pinned |-> s.pinned, round |-> round, nodes |-> nodes]
  /\ UNCHANGED contracts

\* --repair-node; the invalidated checkpoint is saved before anything runs.
Repair ==
  /\ May
  /\ \E s \in OperatorSelections, dry, confirm \in BOOLEAN :
        /\ Loads(s.pinned)
        /\ checkpoint.round < MaxRounds
        /\ \E n \in DOMAIN checkpoint.nodes :
             LET redone == Graph(DOMAIN s.pinned)!Descendants(n)
                 nodes == [m \in DOMAIN checkpoint.nodes |->
                             IF m \in redone THEN Absent ELSE checkpoint.nodes[m]]
                 round == checkpoint.round + 1
             IN  /\ Begin("operator", dry, confirm, s.pinned, round, nodes)
                 /\ checkpoint' = [pinned |-> s.pinned, round |-> round, nodes |-> nodes]
  /\ UNCHANGED contracts

(***************************************************************************)
(* Executing the graph                                                     *)
(***************************************************************************)
Running == command # NoCommand /\ command.result = "PENDING"

\* The nodes to be run of the layer that execute has reached, and those of them
\* that have not been run by this command.
Pending == DOMAIN mem \ Passed(mem)

Frontier ==
  {n \in Pending : \A m \in Pending : Q!LayerOf(n) <= Q!LayerOf(m)}

Unrun == Frontier \ command.tried

\* run_case returns one of these; if it raises, the node is FAIL.
RunStatuses(dry) == IF dry THEN {"NOT_RUN"} ELSE {"PASS", "FAIL", "BLOCK"}

CaseRecords(c) ==
  {Failed} \cup
  {Record("PASS", {[case |-> c, contract |-> command.pinned[c], status |-> status]}, "none") :
     status \in RunStatuses(command.dry)}

\* Mutant: the gate approves whatever the merge reports.
DeliversAnything(n) ==
  LET results == InputResults(n)
  IN  CASE n \in Q!Executes -> CaseRecords(n[2])
        [] n \in Q!Verifies ->
             {IF \A r \in results : Verified(r, n[2]) THEN Record("PASS", results, "none") ELSE Failed}
        [] n = Q!Merge -> {Record("PASS", results, TestOutcome(results, command.dry))}
        [] OTHER -> {Record("PASS", {}, "none")}

\* The records a node may get when it is run: task_runner and its validators.
Delivers(n) ==
  LET results == InputResults(n)
  IN  CASE n \in Q!Executes -> CaseRecords(n[2])
        [] n \in Q!Verifies ->
             {IF \A r \in results : Verified(r, n[2]) THEN Record("PASS", results, "none") ELSE Failed}
        [] n = Q!Merge -> {Record("PASS", results, TestOutcome(results, command.dry))}
        [] n = Q!Gate -> {IF mem[Q!Merge].outcome = "PASS" THEN Record("PASS", {}, "none") ELSE Failed}
        [] OTHER -> {Record("PASS", {}, "none")}

Saved(nodes) == [pinned |-> command.pinned, round |-> command.round, nodes |-> nodes]

Save(nodes) ==
  /\ mem' = nodes
  /\ checkpoint' = Saved(nodes)

Unapproved(n) == n = Q!Gate /\ ~ command.confirm

\* Mutant: a node that failed is run again at once.
RunNodeAgain(n) ==
  /\ Running
  /\ n \in Frontier
  /\ ~ Unapproved(n)
  /\ \E record \in Delivers(n) : Save([mem EXCEPT ![n] = record])
  /\ UNCHANGED <<contracts, command, reply, commands>>

RunNode(n) ==
  /\ Running
  /\ n \in Unrun
  /\ ~ Unapproved(n)
  /\ \E record \in Delivers(n) : Save([mem EXCEPT ![n] = record])
  /\ command' = [command EXCEPT !.tried = @ \cup {n}]
  /\ UNCHANGED <<contracts, reply, commands>>

\* execute returns with the status of the execution.
Return(result) == command' = [command EXCEPT !.result = result]

HoldAtGate ==
  /\ Running
  /\ \E n \in Unrun :
        /\ Unapproved(n)
        /\ Save([mem EXCEPT ![n] = Record("HOLD", {}, "none")])
  /\ Return("HOLD")
  /\ UNCHANGED <<contracts, reply, commands>>

StopOnFailure ==
  /\ Running
  /\ Frontier # {}
  /\ Unrun = {}
  /\ Save(mem)
  /\ Return("FAIL")
  /\ UNCHANGED <<contracts, reply, commands>>

Complete ==
  /\ Running
  /\ Frontier = {}
  /\ Save(mem)
  /\ Return("PASS")
  /\ UNCHANGED <<contracts, reply, commands>>

(***************************************************************************)
(* Reporting                                                               *)
(***************************************************************************)
\* The results of the selected cases whose workers are PASS.
ReportedResults == UNION {mem[n].results : n \in Q!Executes}

WorkflowStatus(outcome, gate) ==
  CASE outcome = "NOT_RUN" -> "PLANNED"
    [] outcome \in {"HOLD", "BLOCK"} -> "BLOCKED"
    [] outcome \in {"PASS", "FAIL"} /\ gate = "BLOCKED" -> "BLOCKED"
    [] OTHER -> "COMPLETED"

\* Mutant: the status of the report is the test outcome alone.
ReportStatusOutcome(outcome, result) == outcome

\* A test outcome without failures is overruled by an execution that stopped.
ReportStatus(outcome, result) ==
  IF outcome \in {"PASS", "NOT_RUN"} /\ result # "PASS" THEN result ELSE outcome

Report(pinned, dry, results, outcome, status, workflow, gate) ==
  [pinned |-> pinned, dry |-> dry, results |-> results, outcome |-> outcome,
   status |-> status, workflow |-> workflow, gate |-> gate]

\* evaluate_write_gate depends on configuration and evidence: either answer.
GateStatuses(dry, results) ==
  IF dry \/ results = {} THEN {"NOT_EVALUATED"} ELSE {"ALLOWED", "BLOCKED"}

\* Mutant: only a failed test is worth an alert.
AlertsOnFail(report) == report.outcome = "FAIL"

Alerts(report) ==
  \/ report.outcome \in {"FAIL", "BLOCK", "ABORT"}
  \/ report.gate = "BLOCKED"
  \/ report.workflow \in {"BLOCKED", "FAILED"}

\* The heartbeat's answer names the command that continues a held run.
Reply(by, report, legacy) ==
  [by |-> by, report |-> report,
   alert |-> by = "heartbeat" /\ Alerts(report),
   next |-> IF by = "heartbeat" /\ report.status = "HOLD" /\ ~ legacy
              THEN "resume and confirm" ELSE "other"]

Finish ==
  /\ command # NoCommand
  /\ command.result # "PENDING"
  /\ \E gate \in GateStatuses(command.dry, ReportedResults) :
        LET outcome == TestOutcome(ReportedResults, command.dry)
            workflow == IF command.result = "PASS" THEN WorkflowStatus(outcome, gate) ELSE "BLOCKED"
            report == Report(command.pinned, command.dry, ReportedResults, outcome,
                             ReportStatus(outcome, command.result), workflow, gate)
        IN  reply' = Reply(command.by, report, FALSE)
  /\ command' = NoCommand
  /\ mem' = <<>>
  /\ UNCHANGED <<contracts, checkpoint, commands>>

(***************************************************************************)
(* Commands that return without an execution                               *)
(***************************************************************************)
\* A selected contract asks for an environment that is not ready.
BlockOnPrerequisite ==
  /\ May
  /\ \E by \in {"operator", "heartbeat"} : \E s \in Selections(by) :
        /\ DOMAIN s.pinned # {}
        /\ contracts' = s.files
        /\ reply' = Reply(by, Report(s.pinned, FALSE, {}, "BLOCK", "BLOCK",
                                    "BLOCKED", "NOT_EVALUATED"), FALSE)
  /\ commands' = commands + 1
  /\ UNCHANGED <<command, mem, checkpoint>>

\* Whatever was collected before the exception is reported with it.
AbortReport(pinned, dry, results) ==
  Report(pinned, dry, results, "ABORT", "ABORT", "FAILED", "NOT_EVALUATED")

\* What run_case can have returned for some of the cases.
ResultsOf(pinned, done, dry) ==
  {{[case |-> c, contract |-> pinned[c], status |-> status[c]] : c \in done} :
      status \in [done -> RunStatuses(dry)]}

\* --resume-task-graph or --repair-node without a checkpoint of this graph, or
\* --repair-node beyond max_rounds.
Refuse ==
  /\ May
  /\ \E s \in OperatorSelections :
        /\ Loads(s.pinned) => checkpoint.round >= MaxRounds
        /\ reply' = Reply("operator", AbortReport(s.pinned, FALSE, {}), FALSE)
  /\ commands' = commands + 1
  /\ UNCHANGED <<contracts, command, mem, checkpoint>>

\* The contracts cannot be loaded, or a case of a legacy run raises after others ran.
AbortEarly ==
  /\ May
  /\ \E by \in {"operator", "heartbeat"}, dry \in BOOLEAN : \E s \in Selections(by) :
     \E done \in SUBSET DOMAIN s.pinned : \E results \in ResultsOf(s.pinned, done, dry) :
        /\ by = "heartbeat" => ~ dry
        /\ contracts' = s.files
        /\ reply' = Reply(by, AbortReport(s.pinned, dry, results), FALSE)
  /\ commands' = commands + 1
  /\ UNCHANGED <<command, mem, checkpoint>>

\* The results of the cases this command has run, and of some of the layer under way.
Collected == UNION {mem[n].results : n \in command.tried \cap Q!Executes}
Underway == {n[2] : n \in Unrun \cap Q!Executes}

\* An exception outside the runner, such as a save that fails: the caller is
\* told ABORT, and latest-run.json stays as it was.
Abort ==
  /\ command # NoCommand
  /\ \E done \in SUBSET Underway : \E late \in ResultsOf(command.pinned, done, command.dry) :
        reply' = Reply(command.by,
                       AbortReport(command.pinned, command.dry, Collected \cup late), FALSE)
  /\ command' = NoCommand
  /\ mem' = <<>>
  /\ UNCHANGED <<contracts, checkpoint, commands>>

\* The process dies: nobody is told anything.
Crash ==
  /\ command # NoCommand
  /\ command' = NoCommand
  /\ mem' = <<>>
  /\ reply' = NoReport
  /\ UNCHANGED <<contracts, checkpoint, commands>>

(***************************************************************************)
(* The heartbeat and the legacy pipeline                                   *)
(***************************************************************************)
Tick ==
  /\ May
  /\ \E s \in TickSelections :
        /\ contracts' = s.files
        /\ Begin("heartbeat", FALSE, FALSE, s.pinned, 1, Fresh(s.pinned))
  /\ UNCHANGED checkpoint

\* Issue sensor blocked, growth needs input (alert), or nothing new (idle).
SkipTick ==
  /\ May
  /\ \E alert \in BOOLEAN :
        reply' = [by |-> "heartbeat", report |-> NoReport, alert |-> alert, next |-> "other"]
  /\ commands' = commands + 1
  /\ UNCHANGED <<contracts, command, mem, checkpoint>>

\* run_close_loop: every case in turn, one report at the end, no checkpoint.
LegacyRun ==
  /\ May
  /\ \E by \in {"operator", "heartbeat"} : \E s \in Selections(by), dry \in BOOLEAN :
        /\ by = "heartbeat" => ~ dry
        /\ contracts' = s.files
        /\ \E status \in [DOMAIN s.pinned -> RunStatuses(dry)] :
              LET results == {[case |-> c, contract |-> s.pinned[c], status |-> status[c]] :
                                c \in DOMAIN s.pinned}
                  outcome == TestOutcome(results, dry)
              IN  \E gate \in GateStatuses(dry, results) :
                    reply' = Reply(by, Report(s.pinned, dry, results, outcome, outcome,
                                              WorkflowStatus(outcome, gate), gate), TRUE)
  /\ commands' = commands + 1
  /\ UNCHANGED <<command, mem, checkpoint>>

-----------------------------------------------------------------------------
Work ==
  \/ \E n \in DOMAIN mem : RunNode(n)
  \/ HoldAtGate
  \/ StopOnFailure
  \/ Complete
  \/ Finish

Next ==
  \/ Start \/ Resume \/ Repair \/ Refuse \/ AbortEarly \/ BlockOnPrerequisite
  \/ Tick \/ SkipTick \/ LegacyRun
  \/ Work \/ Abort \/ Crash
  \/ \E c \in CaseIds : EditContract(c)

Spec == Init /\ [][Next]_vars

\* A command that runs keeps running: every case command has a timeout.
FairSpec == Spec /\ WF_vars(Work)

-----------------------------------------------------------------------------
(* Properties *)

NodesOf(pinned) == Graph(DOMAIN pinned)!CompiledNodes

\* An execution of the graph of the contracts it is pinned to.
ExecutionOK(pinned, round, nodes) ==
  /\ pinned \in UNION {[S -> Contracts] : S \in SUBSET CaseIds}
  /\ round \in 1..MaxRounds
  /\ DOMAIN nodes = NodesOf(pinned)
  /\ \A n \in NodesOf(pinned) :
        /\ nodes[n].status \in {"ABSENT", "PASS", "FAIL", "HOLD"}
        /\ nodes[n].results \subseteq Result
        /\ nodes[n].outcome \in {"none", "PASS", "FAIL", "BLOCK", "HOLD", "NOT_RUN"}

\* Types; the nodes of an execution are those of the graph of its contracts, and
\* its round stays within the stop rule.
TypeOK ==
  /\ contracts \in [CaseIds -> Contracts \cup {NoFile}]
  /\ command # NoCommand =>
       /\ ExecutionOK(command.pinned, command.round, mem)
       /\ command.tried \subseteq DOMAIN mem
       /\ command.result \in {"PENDING", "PASS", "FAIL", "HOLD"}
  /\ checkpoint # NoFile =>
       ExecutionOK(checkpoint.pinned, checkpoint.round, checkpoint.nodes)
  /\ commands \in Nat

Reported == reply # NoReport /\ reply.report # NoReport

AllPass(pinned, results) ==
  /\ \A c \in DOMAIN pinned : \E r \in results : r.case = c
  /\ \A r \in results : r.contract = pinned[r.case]
  /\ Official(results) # {}
  /\ Statuses(Official(results)) = {"PASS"}

\* The publication node is PASS only on the strength of a merged report in which
\* every selected case has a result, each obtained under the contract the
\* checkpoint is pinned to, and the official ones all passed: whatever mixture of
\* dry, real, interrupted, resumed and repaired runs left those results.
Earned(pinned, nodes) ==
  LET S == DOMAIN pinned
  IN  nodes[Graph(S)!Publish].status = "PASS" =>
        /\ Passed(nodes) = DOMAIN nodes
        /\ AllPass(pinned, nodes[Graph(S)!Merge].results)
        /\ nodes[Graph(S)!Merge].results = UNION {nodes[n].results : n \in Graph(S)!Executes}

PublicationEarned ==
  /\ command # NoCommand => Earned(command.pinned, mem)
  /\ checkpoint # NoFile => Earned(checkpoint.pinned, checkpoint.nodes)

\* latest-run.json says PASS only if every selected case has a result of a real
\* run under the selected contract and the official ones passed ("zero-case,
\* dry-run, and partial-only executions cannot become an official PASS"), and
\* it says FAIL whenever a reported official result of a real run is FAIL.  A command
\* that was aborted answers ABORT whatever it had collected, and writes no such file.
ReportHonest ==
  Reported =>
    /\ reply.report.status = "PASS" =>
         ~ reply.report.dry /\ AllPass(reply.report.pinned, reply.report.results)
    /\ ~ reply.report.dry /\ "FAIL" \in Statuses(Official(reply.report.results)) =>
         reply.report.status \in {"FAIL", "ABORT"}

\* A tick that ran cases and raises no alert has passed: alert_required covers
\* failures, blocked results, aborts, missing results and partial probes.
QuietMeansPassed ==
  Reported /\ reply.by = "heartbeat" /\ ~ reply.alert =>
    AllPass(reply.report.pinned, reply.report.results)

\* Every selection compiles to a graph that validate accepts, whose layers are
\* those of topological_layers, and in which verifiers guard the merge.
CompiledGraphs ==
  command # NoCommand =>
    /\ Q!CompiledGraphValid
    /\ Q!CompiledLayers
    /\ Q!CompiledDescendants
    /\ Q!ResultsVerified

\* A command that has started returns, is aborted or dies.
Returns == command # NoCommand ~> command = NoCommand

-----------------------------------------------------------------------------
(* What the documents say and the code does not do *)

\* docs/COMMANDS.md: continue as the answer of the dispatcher proposes.  The
\* command a tick proposes for its held run finds the checkpoint of that run.
NextActionAccepted ==
  [][reply' # reply /\ reply' # NoReport =>
       (reply'.next = "resume and confirm" => Loads(Restrict(contracts, Existing))')]_vars
=============================================================================
