# AI Quality Pilot: TLA+ models and proofs

This directory is the verification project of the `quality_pilot` Python package
(`src/quality_pilot` in the repository). It models the parts of the program whose correctness is a
matter of order, failure and persistence:

- how work is executed: the **Task Graph**, a checkpointed executor of a dependency graph with a human
  gate, and the **close loop**, which compiles test-case contracts into such a graph, runs it, reports,
  and is driven by an operator and by a scheduled heartbeat;
- what is found out: the **knowledge graph**, the **catalogue** of generated contracts, the **execution**
  of one case, the **review** of a pull request and its projection into the graph;
- what is handed over: **issues**, **wiki page**, **review reply**, **fixes** and **publication**, most of
  which an agent (Hermes) carries out from request files and answers with result files, or does not.

TLC checks small instances of every module; TLAPS proves most of the safety properties for all values
of the constants (section 4 names the ones that are only model-checked).

## 1. The system

| Component (files under `src/quality_pilot`) | State it keeps | Operations | Hard part | Correct when |
|---|---|---|---|---|
| Task Graph executor and store (`task_graph.py`) | `task-graph-latest.json`; a `TaskExecution` in memory; a thread pool per layer | start, resume, repair a node, run a layer, commit, stop, save | workers in any order; crash anywhere; several commands on one file; repair of a half-run graph | what has passed stands on what has passed; no stale output; nothing irreversible without approval; bounded repairs; it returns |
| Topology (`task_graph.py`) | in-degrees, the collected set | `topological_layers`, the transitive-dependents loop | parents in one layer, cycles behind layered nodes, declaration order | exact layers, cycles and closures |
| Compiler and validator (`task_graph.py`) | none | `compile_quality_task_graph`, `compile_graph_engineering_task_graph`, `validate` | empty and arbitrary selections | verifiers guard the merge, a gate guards the publication |
| Close-loop pipeline (`pipeline.py`) | `latest-run.json`, `status.md`, the checkpoint | `run_close_loop_task_graph`, `run_close_loop` (legacy) | results of several commands, dry or real, in one graph; partial results; early returns | published and reported PASS were earned |
| Heartbeat (`heartbeat.py`) | `heartbeat-latest.json`, history | sense, grow, select, run, alert, propose next action | alerts about failures nobody watches; a tick over an operator's held run | quiet means passed; the proposal can be followed |
| Case contracts (`contracts.py`) | case files | load, select, hash | edits and removals between commands | hashes bind results to contracts |
| Case generation (`case_generation.py`, `command_policy.py`, `runtime_profile.py`) | the contracts under `.qa/cases`, the runtime profile | init, growth, external candidates, from issues, tickets and scratch | batches cut short, forced, run again under another profile | one command in one case; claims have assertions behind them |
| Runner (`runner.py`) and product testing (`product_testing.py`, `product_case_adapter.py`, browser adapters) | evidence and `result.json` per case | commands with timeouts and oracles; build, operations, browser, remote server | timeouts that leave children; processes on another host; one stage blocked, the next passes | a PASS ran everything and leaves no server on the remote host |
| Execution contract and preflight (`execution_contract.py`, `environment.py`) | contract files, preflight files | discover, confirm, look at the remote host | conflicts, missing fields, a preflight of another run | a review runs what was confirmed |
| Pull-request review (`review.py`) | snapshot, worktrees, cases, drafts and sealed reports, request, result, ledger | review, reply, apply | the request moves; trees cut short; late or anonymous answers | the verdict was earned; a settled reply was posted |
| Knowledge graph (`graph_engineering/`) | SQLite store, JSON export, recorded stages | extract, quality gate, fuse, evaluate, serve, project reviews | one transaction per item, kills between any two; reports of all revisions on disk | no dangling relation; fusion loses no origin; the graph never goes back |
| Write gate and ledger (`write_gate.py`, `gitea_ledger.py`) | `write-ledger.json` | evaluate reasons; record, reconcile | one file that issue, wiki and fix commands read, change and rewrite without a lock | an entry tells the truth about its issue, and stays when the commands take turns |
| Hermes hand-off (`hermes_mcp.py`, `hermes.py`) | request and result files | plan, request, complete; a chat dispatcher in front | answers of other requests, lost or late | one result per request |
| Issues and Redmine (`issues.py`, `redmine.py`) | snapshots, mirrors, archive, traceability map | fetch, sync, plan, request, status | stale snapshots, editing people, racing commands | a ticket that is not mistaken for another has one open issue; the map is true |
| Wiki (`wiki.py`) | plan, report, request, apply file | plan, render, apply, complete | the gate and the write are far apart | nothing internal is published |
| Publication and fixes (`publishing.py`, `fix_issues.py`, `gitea.py`) | plans, results | plan, hand off, push and open a pull request; apply a publish plan | failure between two remote calls | no pull request without its link; reports name what was written |
| Configuration and onboarding (`config.py`, `automation_profile.py`, `ux.py`, `subagents.py`), command line (`cli.py`) | profiles | ask, check, dispatch | (I/O) | |
| Reports, evidence, security, audit (`reports.py`, `evidence.py`, `security.py`, `state_audit.py`); BDD, templates, policy packs; terminal probe | none | render, redact, compare, parse; drive a terminal | (text, I/O) | |

How they interact: the command line or cron starts a process; it selects contracts, compiles them
into a graph, and hands the graph, a runner callback, the operator's approvals and the checkpoint to
the executor. The executor calls the runner from pool threads and the store from the main thread.
The knowledge-graph workflow uses the same executor for its stages. Issue, wiki and review commands
write a request file for Hermes, which talks to Gitea and Redmine over MCP in a session of its own and
leaves a result file that a later command reads; fix and publish commands call Gitea over HTTP.
Processes share only files: the contracts, the checkpoint, the reports, the requests and results, and
the ledgers. There is no lock around any of them (the documentation proposes `flock` between ticks only).

## 2. Modules and how they correspond to the code

| Module | Models | State | Actions |
|---|---|---|---|
| `TaskGraph` | executor, store and callers, any number of commands | `disk` (the file), per command `mem` (`TaskExecution`), `pc`, `layer`, `approvals`, `lacking`, `work` (pool); counters `made`, `starts`, `repairs`, `commands` | `Start`, `Resume`, `Repair` (callers); `SkipOrphans`, `StopAtNode`, `PassOver`, `Dispatch` (readiness); `StartWorker`, `FinishWorker` (pool); `Commit`, `StopOnFailure`, `NextLayer`, `Complete` (after the pool); `Crash`; `OtherGraphRuns` |
| `TaskRun` | abstract specification: what a run promises, without layers, pool, status or file | `running`, `done`, `busy`, `failed`, `granted`, `report` | `Begin`, `Take`, `Succeed`, `Fail`, `Return`, `Die` |
| `TaskGraphPromise` | the refinement mapping from `TaskGraph` to `TaskRun`, one for each command | | |
| `TaskTopology` | `topological_layers`, then the dependents loop | `deps`, `phase`, `indegree`, `remaining`, `layers`, `target`, `descendants`, `position`, `changed` | `TakeLayer`, `RefuseCycle`, `AllLayered`, `Scan`, `EndOfPass` |
| `QualityGraph` | the compiled graph of a set of cases, and `validate` | none (constant level) | |
| `CloseLoop` | `run-once`, ticks, legacy runs, and contract edits around one checkpoint; uses `QualityGraph` | `contracts`, `command`, `mem`, `checkpoint`, `reply`, `commands` | `Start`, `Resume`, `Repair`, `Refuse`, `AbortEarly`, `BlockOnPrerequisite`, `Tick`, `SkipTick`, `LegacyRun`, `RunNode`, `HoldAtGate`, `StopOnFailure`, `Complete`, `Finish`, `Abort`, `Crash`, `EditContract` |
| `KnowledgeGraph` | the graph store and its stages (store, pipeline, model) | `kgStore`, `kgExport`, `kgWork` (the command under way), `kgStage`, `kgServed` | `Extract`, `UpsertNext`, `FinishExtract`; `Fuse`, `FuseNext`, `FinishFuse`; `GateQuality`, `Evaluate`, `Serve`; `KgDies` |
| `Catalogue` | the contracts and the commands that generate them | `catProfile`, `catCases`, `catBatch` (the batch under way) | `GenerateInit`, `GenerateGrowth`, `GenerateExternal`, `GenerateFromIssues`, `GenerateFromRedmine`, `GenerateFromScratch`; per candidate `PassOver`, `WriteContract`, `RaiseOn`; `FinishBatch`, `CatDies`; people: `SetProfile`, `EditCase`, `DeleteCase` |
| `Execution` | one command or product case | `exRun`, `exHeld` (what has been started and not ended, children in the background included), `exResult` | `ExBegin`; `RunCommand`, `FinishCommands`; `BuildStep`, `VerifyArtifact`, `OperateStep`, `FinishOperations`; `StartServer`, `StartRemote`, `Discover`, `OpenTunnel`, `WalkPage`, `CleanRemote`, `FinishProduct`; `Interrupt`, `ExDies` |
| `PullReview` | `review_pr` with contract and preflight, against a moving request | `prLive` (at Gitea), `prSnapshot`, `prTrees`, `prContract`, `prPreflight`, `prWork`, `prReports` | `RequestChanges`, `StoreSnapshot`; `BeginReview`, `LookAtRemote`, `PrepareTree`, `TreeTimesOut`, `RunTests`, `RunProduct`, `RunCases`, `DraftReport`, `SealReport`; `ReviewDies` |
| `QaProjection` | reports, dated or not, into the graph; extends `PullReview` | `qaNodes` | `ProjectReview` |
| `WriteLedger` | ledger and write gate, used by `IssueExchange`, `WikiHandoff` and `Delivery` | `writeLedger` (the file), `copies` (what each command has loaded of it), the result files `issueResult`, `wikiResult`, `prResult`; `careful` | `LoadLedger` and `StoreLedger`, which every command that uses the file takes as two steps; `RecordRequest`, `Reconcile`, `RemoteId`, `GateReasons` as operators |
| `IssueSnapshot` | Gitea issues, the tickets they name, the snapshot of the open ones | `snapshot` | |
| `IssueExchange` | tickets, issues, Hermes, and the commands between them | trackers: `redmine`, `gitea`; files: `manifest`, `fetched`, `trace`, `mirrors`, `archive`, `issueRequest`; processes: `importer`, `tracer`, `session`; `labelled`, `answered`; histories `named` and `current` | people: `EditTicket`, `OpenByHand`, `CloseIssue`; Hermes: `FetchTickets`, `FetchIssues`, `TakeIssueRequest`, `WriteIssue`, `ReportIssues`; commands: `SyncRedmineIssues`, `ImporterLoads`, `ImporterStores`, `SyncIssues`, `ArchiveMirror`, `UnlinkMirror`, `WriteMirrors`, `IssuesStatus`, `TracerLoads`, `TracerReconciles`, `WriteTrace`; `IssueCrash` |
| `WikiHandoff` | the status page | `wikiReport`, `wikiPlan`, `wikiRequest`, `wikiApplied`, `applyingWiki`, `readingWiki`, `wikiPage`, `wikiSession` | `PlanWiki`, `RenderWiki`, `ApplyWiki`, `ApplyLoads`, `ApplyStores`, `CompleteWiki`, `WikiStatus`, `StatusLoads`, `StatusStores`, `WikiDies`; `TakeWikiRequest`, `WritePage`, `EndWikiSession` |
| `ReviewReply` | the reply and its ledger | `prHead`, `reports`, `reviewRequest`, `reviewResult`, `reviewLedger`, `reviewApplied`, `applying`, `posting`, `posted` | `PushCommit`, `PrepareReview`; `TakeReview`, `PostReview`, `LoseReviewSession`, `ReportReview`; `ApplyReview`, `WriteApplyResult`, `ApplyDies` |
| `Delivery` | fixes, pull requests, mixed publication | `fixPlan`, `fixRun`, `prRequest`, `submitting` (per submission), `branches`, `pulls`; `publishPlan`, `publishApplied`, `publishing`, `written` | `PlanFix`, `PlanFixCase`, `SubmitFixPr`, `LoadLinkage`, `RecordLinkage`, `PushBranch`, `CreatePull`, `SavePull`, `LoadSettled`, `SettlePull`, `SubmitDies`; `PlanPublish`, `BeginPublish`, `PerformPublish`, `FinishPublish`, `PublishDies` |
| `Handoff` | the four modules above composed over the ledger, the result files and the snapshot | `desks` (the groups of commands at work) | `IssueDesk`, `WikiDesk`, `ReviewDesk`, `FixDesk`, `PublishDesk` |
| `MCTaskGraph`, `MCTaskTopology`, `MCVerdicts`, `MCHandoff` | instances for TLC | `bench` in `MCVerdicts` | |
| `TaskGraphProofs`, `TaskTopologyProofs`, `QualityGraphProofs`, `CloseLoopProofs` | theorems about the module of the name | | |
| `KnowledgeGraphProofs`, `CaseProofs`, `ReviewProofs`, `HandoffProofs` | theorems about `KnowledgeGraph`; `Catalogue` and `Execution`; `PullReview` and `QaProjection`; `Handoff` with its components, and `ReviewReply` | | |

`MCVerdicts` puts components beside each other that share no variable (they are commands over files of
their own). Their interleavings add nothing, so a behaviour works at one bench, chosen at the start; every
bench is explored completely. `Handoff` is different: issue, wiki and fix commands share
`write-ledger.json`, fixes read the snapshot that issue commands write, and reconciliation reads every
result file. There a set of desks is chosen at the start, and the desks of the set work in any
interleaving; `MCHandoff` takes each desk alone and the pairs that meet in a file. Counters such as `edits`,
`effort`, `kgLeft` only bound the runs.

Abstractions of `TaskGraph`. A node's output is a version number that the worker which made it drew
from `made`; its record also keeps the versions of the inputs it was given (`used`) and whether its
gate was approved. These histories are not in the code; they are what "current" and "approved" mean.
A missing context fact or contract input is a set `lacking` chosen by a command. A record that the
code keeps as SKIPPED is kept as such, since a later skip does not overwrite a record; a missing
record is `ABSENT`. The order of a layer is `Rank`, the sorted node ids.

Abstractions of `CloseLoop`. A contract is one of a few contents, which stand for their hashes.
A node is run and committed in one step, one at a time (`TaskGraph` has the pool and the commit), and
SKIPPED and PENDING records are both `ABSENT`. Contracts are loaded once, at the start of a command,
so an edit while it runs is an edit after it has ended. `reply` is the last answer, cleared when the
next command starts; `latest-run.json` is the last answer that was not an ABORT. The write gate's
answer is either one, and growth adds any set of new contracts. A legacy run writes only at its end
and is one step. Result versions and run ids are not kept.

Abstractions of the other modules. Data are numbers or small records, kept as far as a decision
depends on them: an issue is the ticket of its title marker and the version of the ticket its text was
taken from; a wiki body is what it says about cases, and whether it holds internal text; an entity
has a type, a name, aliases and sources, and similarity of names is equality; a snapshot and a report
have a revision and may or may not be dated; a contract has a
fingerprint, the command it runs and what its assertions look at; a commit and a report are numbers.
Whatever comes from outside is chosen freely: what a process returns or leaves behind, what a page shows,
what a remote host answers, whether a session of Hermes posts, reports, repeats itself or is lost. A
file is written in one step, except where the code writes several or dies between two: then each is an
action. What is loaded from the ledger and what is stored into it are two steps of every command that uses it.

Issues are matched to tickets as the code does it. `Mentions` says which version of which ticket's text
contains "Redmine #t" of another, and `Prefix` which ticket numbers begin which others. `FindExistingIssue` looks
into the last result file, then for an issue whose title or text has the marker as a substring, then for a
fingerprint; `TraceRows` takes every ticket that title and text name and those of pull-request entries.
`careful` is chosen once: if TRUE, operators use one command at a time and follow the order the
documentation gives (Hermes answers, then fetch, then `issues sync`, then the next `--redmine-issues`), while
people go on editing tickets and opening and closing issues between any two of them; otherwise importer,
status, sync, wiki and fix commands race each other over the ledger. `labelled` is chosen once too: if TRUE, Hermes
names the ticket of every issue it reports, otherwise its results may be records without one, or one number
at the top. Commands and sessions may die anywhere in all of these. `ResultsIdentified` in `ReviewReply` says that Hermes repeats
repository, request, head and report in its result, as its instructions ask.

## 3. Runs

| Run | Instance and bounds | What it shows |
|---|---|---|
| `task_graph_loop` | context, two parallel cases, merge, gate, publish; 1 command at a time, 3 in all, 2 rounds, 2 workers, one node that may lack its context; 213,522 states | all executor properties, termination, and that every command implements `TaskRun` |
| `task_graph_shared` | a worker, its gate, an irreversible node; 2 symmetric commands at once, 3 in all, repairs in memory only; 982,924 states | currency, approval and honest status under mutual overwriting |
| `task_topology` | all 65,536 relations on 4 nodes, declared out of order; 170,482 states | exact layers, cycles, dependents; termination |
| `close_loop` | 2 cases, full and partial contracts, one case edited at any time, 2 rounds, 2 commands; 217,160 states | what is published, reported and left unalerted was earned |
| `close_loop_mixture` | 2 cases, one contract, 3 commands; 31,253 states | the same publication property when three commands meet in one checkpoint |
| `compiled_graph` | every selection of 2 cases, one contract, the code's 3 rounds, 2 commands; 34,121 states | the compiler against the validator and the layering; commands return, resumed and repaired ones too |
| `verdicts` | graph: 5 candidate files (shared ids and names, a chain of four names to fuse, one without provenance), 4 commands; contracts: 2 seeds that offer the same command, 2 dimensions, 5 lists, 2 profiles, 3 acts; execution: 10 cases, 2 runs; review: 6 plans over 5 heads, at most 2 changes and 2 reviews, dated or not; 754,097 states | what is found out is anchored, traced, earned and, where revisions are compared, current |
| `handoff` | 2 tickets, the number of one beginning the other's and a text of that naming the one; 2 issues, 1 edit; labelled results and others; issue desk alone: 8 operator and Hermes steps in the documented order (7 with unlabelled results) and 5 when commands race; fix desk alone: 3 commands, 2 submissions at once; wiki: 2 cases and 5 commands; publication: 4; review: 2 heads and 3 reports; issue and fix desk, and wiki and fix desk together, in turns and racing: 2 steps and a submission; 1,225,103 states | what is handed over is allowed, linked, done once and reported truly |
| `task_graph_skips`, `heartbeat_resume`, `handoff_mentions`, `review_stale` | small instances | disagreements between documents and code, section 6 |

Why the bounds are enough. Three commands are a start, an interruption and a continuation, the
longest pattern in which one command's leftovers meet another's repair; a shared checkpoint needs two
writers; a stop rule of two rounds has a round that is allowed and one that is not. The graphs have every shape that the
compiler produces: a chain, a fan-out, a fan-in, a gate above which two nodes meet. Four nodes are
enough for a diamond with a cycle behind it. The code's `max_rounds` is 3; nothing
in the properties depends on the value, and the proofs are for all. In `handoff` two tickets, of which one is edited into a text the gate refuses, and two issues are what
a duplicate or a confusion needs; that one ticket's number begins the other's, and one's text names it, makes
the matching go wrong for one of them and must not for the other. Eight steps hold a whole exchange,
the edit, and a second exchange; the race needs fewer, as importer, tracer and crash are all in it. Two desks meet in the ledger
once, which takes one load and one store of each. Where `careful` or `labelled` changes nothing that a desk's
properties speak of, the instance takes one value of it. Three reports on two heads give an
older, a newer and an equal request to a late result. In `verdicts` four entities in a chain, each
sharing a name with the next, are the smallest case in which a plan is passed over because its canonical
entity was merged while two entities with a common name stay apart; with a fourth act `Catalogue` has
679,569 states and the same result. Command bounds make the models finite,
so deadlock checking is off: after the last command everything may rest. Symmetry is used only in
`task_graph_shared`, whose commands are interchangeable and which checks no liveness. `close_loop_mixture` takes
states that differ only in `reply` for one (`VIEW WithoutReply`): no action reads the answer of the command
before, and neither do its properties.

### Properties

- `DependencyClosed`, `OutputsCurrent`: no repair, resume, crash or overwriting leaves a passed node
  on a missing or a newer input.
- `ApprovedBeforeIrreversible`: an irreversible node is given to a worker only behind a gate that was
  approved, and on the very inputs that the gate was shown.
- `StatusHonest`, `LayerBarrier`, `PassedIsFinal`, `RepairsBounded`: the status of a checkpoint is
  supported by its records; layers are barriers (so the `dependency_not_passed` branch is dead);
  a passed node is not run again; fresh starts pay for repairs.
- `KeepsPromise`: each command's execution is an execution of `TaskRun`.
- `LayersExact`, `CycleExact`, `DescendantsExact`: against definitions by longest paths, by deadlocked
  sets and by least closed sets.
- `PublicationEarned`, `ReportHonest`, `QuietMeansPassed`: a publication, a report of PASS and a tick
  without an alert each mean that every selected case has a result under the pinned contract and that
  the official ones passed, and there is one. `QuietMeansPassed` is met by legacy
  ticks only: a tick that uses the Task Graph never confirms, so it is held or failed, and alerts.
- `CompiledGraphs`: see `compiled_graph` above.
- `GraphAnchored`, `FusionTraced`, `FusionCarriedOut`: no relation or event names a missing entity,
  wherever a command died; an entity leaves only by a recorded fusion and hands on its names and
  origins; a confirmed fusion that reports PASS has carried out every plan it was confirmed for, although
  its plans were made before its merges: the duplicates are gone and the ledger says where to, or the
  canonical entity was itself merged by an earlier plan (section 6 says what that leaves).
- `CatalogueSound`: no two contracts of the init and growth commands run the same command, and none
  claims a dimension that only an exit code shows, after any kills, edits, deletions and renamings.
- `PassEarned`, `RemoteServerEnded`: a PASS means that every command or stage the case asks for was
  run and judged, and that no server is left on the remote host, although its process id may be read too
  late and the clean-up may fail or not be answered. Local children are another matter: a command that
  passes may leave one (section 6), and no property says otherwise.
- `VerdictEarned`: a review lets work go on only after everything it is there for was seen to pass, on
  the head it reports.
- `GraphNeverBackwards`: where report and snapshot are dated, so that the code compares their revisions, a
  projection never brings in an older revision than one that came in the same way. Dates are optional, and an
  undated report goes by its head alone; nothing is claimed of it.
- `OneOpenIssuePerTicket`: in the documented order a distinct ticket (its number begins no other and no text is
  mistaken to name it) never has two open issues, whatever other tickets are mistaken for.
  `LinkedNeverDuplicated` drops the condition, and the run `handoff_mentions` refutes it.
- `TraceTrue`: when results are labelled, in any order and over any race, the traceability map ties an issue only to
  tickets it has named itself and to those its cases come from.
- `ClosedIssuesArchived`: an issue whose mirror is gone has been archived.
- `PageGated`: the wiki never shows text the gate refuses.
- `ReviewSettledPosted`, `ReviewSettledStays`: a reply that is settled was posted, and stays settled.
- `PrLinked`: every pull request on the server was opened with evidence and, when the commands take turns with the
  ledger file (`careful`), has its entry there, wherever a command died and whatever the others have stored since.
  Racing commands lose entries, so the condition is needed.
- `PublishHonest`: a publication result names only what was written and allowed.
- `Terminates`, `Returns`: commands end.

### Fairness

`TaskGraph`: weak fairness of each command's own steps (`ExecutorStep`), not of commands
starting. The pool runs every submitted worker, and the executor is a loop without waits other than
for the pool; that a worker ends is justified by the timeout of every case command
(`runner.py:350-384`); this takes the timeout as ending the wait, which is so unless a grandchild of the
killed shell keeps its output pipes open. `CloseLoop`: weak fairness of `Work`, for the same reason. `TaskTopology`: a
sequential computation takes its next step. Crashes, aborts and commands are never forced. The other
modules state no fairness: nothing in the code makes Hermes, an operator or a remote host go on, so
only safety is claimed of them.

## 4. What is proved

All theorems are proved for every value of the constants that satisfies the named assumptions
(`GraphAssumption`: dependencies go to lower layers, ranks are distinct, every irreversible node has a
gate among its dependencies, which `validate` establishes; `BoundAssumption`; `TopologyAssumption`:
the declaration order lists every node, and there is a finite nonempty set of them; `NoValueAssumption`,
`SnapshotAssumption`, `IssueAssumption`, `WikiAssumption`, `DeliveryAssumption`, `DeskAssumption`: the value for "none"
is no number, name or ticket, and the constants have their types; `KgFilesAssumption`: ids are numbers and
an entity in a file has the fields of one; `StockAssumption`: the contracts a project starts with are in order). Nothing is
assumed of which ticket numbers begin others or which texts name which tickets. The
number of commands at a time, of nodes, of rounds and of commands is arbitrary.

`TaskGraphProofs`. The properties are not inductive. The invariant `IInv` adds, for every execution in
memory and for the file: closure, currency, approved gates and a supported status together (`Sound`);
for a command under way, that all lower layers are PASS and its status is PENDING (`LayerSound`);
and for each of its workers that its inputs are still those recorded and that its gate was approved
(`WorkerSound`). `Sound` speaks of any checkpoint, whoever wrote it, which is why
commands that overwrite each other cannot break it: each writes its own sound execution. The key lemmas
are that invalidation removes a set closed under dependents, so what is left is closed and current,
and that marking descendants as skipped touches no passed node. From `IInv` follow `TypeCorrect`,
`DependencyClosure`, `OutputCurrency`, `StatusHonesty`, `LayerBarriers`, `ApprovalSafety` and the
action property `PassedRecordsFinal`. `RepairStopRule` needs the assumptions that one command runs at a
time and that repairs are saved at once, and its own invariant, which counts the rounds of the file;
`task_graph_shared` runs the variant for which it is not claimed.
`ImplementsTaskRun` is the refinement: `TaskRun`'s initial state is that of each command, and every step of
every command maps to a step of `TaskRun` or to a stutter. It needs `IInv` and one fact more, `Gathered`:
while a worker is queued or running no result of its layer has been recorded, so a node that a worker starts on
is taken by `TaskRun` before any failure.

`TaskTopologyProofs`. `IInv` says that in-degrees count the dependencies not yet layered (`Counted`),
that what has been taken is what is no longer remaining (`Taken`), that deadlocked sets stay whole (`Preserved`), and for
the dependents loop that the collected set lies in every closed set around the target while nodes
already scanned in a pass without changes are closed (`LoopInv`). It yields `Layering`, `CycleDetection` and `DescendantsLoop`.

`QualityGraphProofs`. For every set of cases, the empty one included: `LayersOfCompiledGraph`,
`VerifiersGuardTheMerge`, `CompilerIsSound`, and, when no case has the empty id,
`DescendantsOfCompiledGraph`: what a repair invalidates is exactly the closure under dependents.

`CloseLoopProofs`. For every set of cases and of contracts and any number of commands and rounds. The
assumption `"" \notin CaseIds` is what `contracts.py:60-62` refuses. `IInv` says of every execution, in memory or
in the checkpoint, that each passed node is sound (`NodeSound`): its dependencies have passed, and its
output is what those delivered; a merge of PASS stands on verified results under the pinned
contracts, a passed gate on such a merge. The checkpoint's own pinning is part of it, because a resume
takes results of other commands. From it follow `TypeCorrect`, `PublicationsEarned`, `ReportsHonest`
(a failed official result is reported as FAIL, or as ABORT when the command was cut short),
`QuietTicksPassed` and, with the lemmas of `QualityGraphProofs`, `SelectionsCompile`.

`KnowledgeGraphProofs`. `KgInv` says that the store is typed and closed (`StoreSound`), that the rows an
extraction has still to write name only entities that are stored or come earlier in its queue
(`ExtractGrounded`, the reason why the order of `Upserts` matters), that an answer stays inside the graph it was
taken from (`AnswerClosed`), and that every plan of a fusion is carried out or still to do, with its canonical
entity stored or merged (`FusePlanned`). `GraphStaysAnchored` and `FusionsCarriedOut` follow, and the
action property `FusionsTraced`.

`CaseProofs`. For the catalogue, `RunsKnown`: while a command works, every contract that can be read was
read when it began, and is as it was, or was written by it, so its duplicate check against the two
snapshots is a check against the files. With the lemma that a realized dimension has a semantic assertion
(`RealizedBacked`) it gives `CatalogueStaysSound`, for any seeds, profiles, candidates and stock. For execution,
`RunSound` relates what a run has done, found and started to where it is, stage by
stage; `PassesEarned` and `PassesEndRemoteServer` follow, for all cases and any number of runs.

`ReviewProofs`. `ReviewInv` says what each phase of a review has left behind: a worktree unless the review is
dry, an outcome for every selected test, a product result that on a remote host rests on a preflight of
READY, a generation that was tried. The lemmas about the verdict go backwards from
`NO_BLOCKING_FINDINGS`: no cell of the matrix is worse than a pass, what completes the matrix takes no
dimension away (`CompletionKeeps`), and a dimension that passes has cases, all of them true
(`DimensionPasses`). Together they are `VerdictsEarned`. `GraphFollows`: neither a snapshot, a report nor a dated
node knows a revision the request has not had, and a projection whose revisions were compared is of the stored one.

`HandoffProofs`. All but the reply is about `HandoffSpec`, every desk at work beside every other. `TruthInv` says of every
copy of the tracker (snapshots, requests, results, the ledger file and what each command has loaded of it) that
an issue in it names only tickets the real one has named, and that ledger entries and answers tie tickets to issues the same way:
a copy may be old, overwritten or lost, but not wrong about that. `TraceabilityTrue` follows, for labelled results.
`OneIssuePerTicket` has an invariant for each distinct ticket (`OneInv`, when the operators are `careful`): what the readings show
(`Sight`: at most one open issue, and a snapshot that is current has it) and what requests, session and
result promise (`Promise`: of what is still to be written there is one action for the ticket, it creates only if no
issue is open, and the last result names no other issue). A distinct ticket's marker is found in its own issues only
(`MarkedExact`), which is where the condition is used. `ClosedArchived` rests on `MirrorsKept`. `PullRequestsLinked`:
`PullInv` says that careful commands have the ledger one at a time (`Exclusive`), so what a command stores contains
what is on file, and that a submission past its record has its entry. `PagesGated`: a plan that may be applied
holds no internal text, and every copy of its body on the way to the page is one of such a plan (`WikiInv`).
`PublicationReported`: what a publish command has collected was written and allowed (`PublishInv`). Review
replies, under `ResultsIdentified`: the session of Hermes carries a request that was made, a result names what
was posted (`ReplySessionTrue`, `ResultTrue`), hence `SettledIsPosted`; `SettledIsFinal` needs no assumption.

Every invariant and action property of the passing runs is thus proved. Only model-checked: the liveness properties
`Terminates` and `Returns`, which are outside what the prover handles.

## 5. Hazards

`PROJECT.json` lists, at their lines, the steps of this code that tests hardly reach, with the
properties that cover them. Eight have none and say why: there the code does what it does and no document
or caller relies on more. Others have a note on what of the hazard their properties leave out.

## 6. Where documents and code disagree

1. *Not all downstream nodes are SKIPPED* (`task_graph_skips`). `docs/bdd/execution-repair.feature`
   says they are; only those of the first failed node of a layer are.
2. *A heartbeat proposes a command that is refused* (`heartbeat_resume`). The held checkpoint is pinned
   to the cases the tick has grown, the proposed `run-once` selects all.
3. *A linked issue is duplicated* (`handoff_mentions`). `README.md` says that the sync must reuse an issue that is linked
   to the ticket instead of duplicating it; another issue whose text mentions the ticket is found first and
   retitled, and the ticket has two.
4. *A review reply is settled by another one's result* (`review_stale`). `docs/CONFIGURATION.md` and the
   docstring of `complete_gitea_review_apply` say that a result is validated for the exact request;
   identity fields that are missing in it are not compared.

The models also have behaviours that no document excludes: the dry-run flag is not part of the graph
hash, so a dry run replaces a real checkpoint and its NOT_RUN results are kept by a later real resume
(the gate then refuses, `PublicationEarned`); results that were never reported can be approved after
a crash; the ABORT path leaves `latest-run.json` as it was. A node that fails is tried again by every
`--resume-task-graph`; the documented stop rule limits repair rounds, and it holds (`RepairsBounded`).

Further behaviours of the code that the modelling made visible and that no document excludes:

- *Contracts.* A kill in the middle of a write leaves an empty contract file: it makes every load fail,
  and generation without `--force` passes it over as existing. `--force` does not rewrite an unedited case,
  whose fingerprint is found first. A bad candidate late in a file ends the batch after earlier
  ones were written, and does so at every retry. A ticket's command that names another executable
  becomes `${QUALITY_PILOT_BINARY:-...}` and passes the command policy, under review. `positive-smoke`
  offers the command of `functional-primary` and is always dropped as a duplicate.
- *Execution.* A command, timed out, failed or passed, may leave children in the background, and a local server is not
  looked for once its leader has exited; their working copy is deleted under them.
  An artifact is verified only if a build is asked for.
- *Review.* A failing test is masked when another one blocks; a failing functional case is hidden by a
  targeted PASS; the truth of a partial probe is HOLD even when it fails; `_canonical_browser_case`
  returns `None` for every case; a timeout of git or of the fallback tests ends the review without a
  report; a partial worktree is reused unchecked; diff-only reviews run the targeted tests that
  `hermes.py:121` says they skip, and use a preflight that may be of another head; two preflight
  statuses cannot be reached.
- *Knowledge graph.* Applying a fusion recomputes the matches. When not every pair of a group shares a
  name, the first confirmed fusion may end in BLOCK, or report PASS and leave entities that still share a name:
  a plan whose canonical entity an earlier one has merged is passed over, and the next `graph fuse` finds the rest.
  The report's `merge_policy` speaks of preserving conflicting attributes; `merge_entities` keeps
  the canonical entity's value and drops the duplicate's (`store.py:266`; attributes are not modelled). Extraction of everything replaces a merged entity;
  extracting entities again always ends in BLOCK. A death before the export leaves the export stale.
  An undated report of the current head is projected whatever revision it is of.
- *Issues.* A marker is matched as a substring (`redmine.py:1527-1532`), so ticket 1 may also find the issue of ticket 12;
  a closed issue found in an old result file is updated although the gate takes it for an open one;
  two commands on the ledger at once lose entries; a result without tickets answers for every entry.
- *Wiki, fixes, publication.* The wiki's completion takes any result file.  `publish apply` does not ask the gate again, and a second apply repeats comments and issues. A
  fix pull request needs results but not passing ones, and a second one overwrites
  the result of the first, which reconciliation then reads for both.

## 7. Not modelled, and the plan

Not modelled, because they turn text into text or drive a device, and keep no state whose order
matters: the chat dispatcher (`hermes.py`) and the other printing and parsing of the command line, rendering of
reports, redaction, the state audit, BDD parsing, templates and policy packs, configuration, automation
profiles and onboarding questions, the terminal probe, and the browser, HTTP and Git drivers. What the models need of
them is an input: an environment that is not ready, a text that is internal, a page that answers.

Not modelled of modelled components: the files that only the heartbeat reads; two knowledge-graph
commands, or two generations, at the same time (the store and the catalogue have no lock; such runs can leave
dangling relations and duplicate commands); the remote copies of issue mirrors, which go with the
mirrors; actions of an unknown type in a publish plan, which are reported as
skipped (`publishing.py:121-123`); snapshots in any order but that of their numbers; the compiler of the knowledge-graph workflow and the
composition of `KnowledgeGraph` with `TaskGraph`.

Next, in this order:

1. The knowledge-graph workflow: `KnowledgeGraph` under the executor, with the fusion that is recomputed when
   it is applied, and its composition with the proofs of `TaskGraph`.
2. The readers of `latest-run.json` beside its writers, for staleness after ABORT.
3. Abstract specifications for the hand-off of issues and of replies (a request is answered at most once), and
   the refinement of `IssueExchange` and `ReviewReply` to them.

## 8. Running

    tlc -workers 2 -config TaskGraphLoop.cfg MCTaskGraph
    tlapm TaskGraphProofs.tla

`PROJECT.json` gives the module and configuration of every run, the mutant that each property is known
to catch, and the source lines behind every definition.
