------------------------------ MODULE Delivery ------------------------------
(***************************************************************************)
(* Fix hand-offs, pull requests and mixed publication over the HTTP        *)
(* backend (fix_issues.py, publishing.py, gitea.py).                       *)
(*                                                                         *)
(* "issues fix" plans, hands off or opens a pull request for an issue;     *)
(* the link between issue and pull request is recorded in the shared       *)
(* write ledger before the branch is pushed.  "publish apply" performs     *)
(* the actions of the plan on disk one by one.  Several fixes may run at   *)
(* once; a command may die, or the server's answer be lost, between any    *)
(* two steps.                                                              *)
(***************************************************************************)
EXTENDS IssueSnapshot

CONSTANTS FixIssues,      \* issues somebody asks to fix
          RunCases,       \* cases of the latest run
          MaxPulls,       \* bound: pull requests on the server
          DeliverySteps   \* bound: commands started

ASSUME DeliveryAssumption ==
    MaxPulls \in Nat /\ DeliverySteps \in Nat /\ FixIssues \subseteq Nat

VARIABLES
    fixPlan,        \* fix-plan.json: NoValue or [issue, ready]
    fixRun,         \* fix-run.json: NoValue or [issue]
    prRequest,      \* pr-linkage-request.json: NoValue or an action
    submitting,     \* [Submitters -> NoValue or [step, action, remote]]: "--push-pr"
    branches,       \* branches on the server
    pulls,          \* sequence of pull requests, each the action it was opened for
    publishPlan,    \* publish-plan.json: NoValue or a set of actions
    publishApplied, \* publish-apply-result.json: NoValue or the actions it reports
    publishing,     \* "publish apply": NoValue or [todo, done], sets of actions
    written,        \* what publish has written to the tracker
    deliveryEffort  \* what is left of DeliverySteps

fixVars == <<fixPlan, fixRun, prRequest, submitting, branches, pulls>>
publishVars == <<publishPlan, publishApplied, publishing, written>>

deliveryVars == <<fixVars, publishVars, deliveryEffort>>

DeliverySpend == deliveryEffort > 0 /\ deliveryEffort' = deliveryEffort - 1

-----------------------------------------------------------------------------
(* issues fix *)

\* What the plan finds out about an issue: its snapshot, its duplicates, its cases.
FixFacts == [synced : BOOLEAN, open : BOOLEAN, duplicate : BOOLEAN,
             declared : {"none", "alias", "foreign"}, kind : {"feature", "bug"},
             cases : BOOLEAN, results : BOOLEAN]

\* An alias "ISSUE-n" or no case id leaves the issue open to development without a
\* case when its labels or text ask for a feature.
CanStartWithoutCase(f) == f.declared # "foreign" /\ f.kind = "feature"

FixBlockers(f) ==
    {b \in {"issue_sync_required", "issue_not_open_or_not_synced",
            "duplicate_issue_candidates", "handoff_case_id_not_runnable"} :
        \/ b = "issue_sync_required" /\ ~f.synced
        \/ b = "issue_not_open_or_not_synced" /\ ~f.open
        \/ b = "duplicate_issue_candidates" /\ f.duplicate
        \/ b = "handoff_case_id_not_runnable"
             /\ f.open /\ f.declared # "none" /\ ~f.cases /\ ~CanStartWithoutCase(f)}

PushPrBlockers(f) ==
    IF ~f.cases THEN {"verification_case_required_before_pr"}
    ELSE IF ~f.results THEN {"verification_evidence_required_before_pr"} ELSE {}

\* All that plan_fix_issue may find out, and what follows from it.
FixOutcomes ==
    {[ready |-> FixBlockers(f) = {}, pushable |-> PushPrBlockers(f) = {},
      cases |-> f.cases, results |-> f.results] : f \in FixFacts}

Planned(i, f) == [issue |-> i, ready |-> f.ready]

\* plan_fix_issue, and run_fix_issue, which hands off when the plan is ready.
PlanFix(i, f, run) ==
    /\ DeliverySpend
    /\ fixPlan' = Planned(i, f)
    /\ fixRun' = IF run /\ f.ready THEN [issue |-> i] ELSE fixRun
    /\ UNCHANGED <<prRequest, submitting, branches, pulls, ledgerVars, publishVars>>

\* plan_fix_case and run_fix_case: a local plan from the case's last result.
PlanFixCase(exists, status) ==
    /\ DeliverySpend
    /\ LET ready == exists /\ status \in {"FAIL", "BLOCK"} IN
        /\ fixPlan' = [issue |-> NoValue, ready |-> ready]
        /\ fixRun' \in {fixRun} \cup (IF ready THEN {[issue |-> NoValue]} ELSE {})
    /\ UNCHANGED <<prRequest, submitting, branches, pulls, ledgerVars, publishVars>>

\* The tickets of a pull request: those its issue names, as the last sync found it, and
\* those its cases were generated from.
PrTickets(i, f) ==
    (IF i \in DOMAIN snapshot THEN Names(snapshot[i]) ELSE {})
    \cup {c[2] : c \in {d \in CaseTickets : f.cases /\ d[1] = i}}

\* The linkage action; its key is made of issue, cases, evidence, branch and title.  Of
\* the tickets it names the ledger keeps one.
PrAction(i, f, t) ==
    [op |-> "gitea.pull_request.create", key |-> <<i, f.results>>, ticket |-> t,
     issue |-> i, evidence |-> f.cases /\ f.results]

\* What plan_fix_issue leaves: the plan, and when nothing blocks the pull request, the
\* linkage request, with the command at its next step.
SubmitTo(step, i, f, t, s, remote) ==
    /\ DeliverySpend
    /\ submitting[s] = NoValue
    /\ fixPlan' = Planned(i, f)
    /\ IF f.ready /\ f.pushable
       THEN /\ prRequest' = PrAction(i, f, t)
            /\ submitting' = [submitting EXCEPT ![s] =
                   [step |-> step, action |-> PrAction(i, f, t), remote |-> remote]]
       ELSE UNCHANGED <<prRequest, submitting>>
    /\ UNCHANGED <<fixRun, branches, pulls, ledgerVars, publishVars>>

\* The mutant: the branch is pushed without the linkage on record.
SubmitThenRecord(s, i, f, t, remote) == remote /\ SubmitTo("push", i, f, t, s, remote)

\* submit_fix_pr up to the ledger; remote says that the HTTP backend is configured.
SubmitFixPr(s, i, f, t, remote) == SubmitTo("load", i, f, t, s, remote)

Submitting(s, step) == submitting[s] # NoValue /\ submitting[s].step = step
Advance(s, step) == submitting' = [submitting EXCEPT ![s].step = step]
EndSubmit(s) == submitting' = [submitting EXCEPT ![s] = NoValue]

\* What the later steps of a submit leave alone.
SubmitFrame ==
    UNCHANGED <<fixPlan, fixRun, prRequest, careful, issueResult, wikiResult, publishVars,
                deliveryEffort>>

\* record_gitea_mcp_write_request reads the ledger ...
LoadLinkage(s) ==
    /\ Submitting(s, "load")
    /\ LoadLedger(s)
    /\ Advance(s, "record")
    /\ SubmitFrame /\ UNCHANGED <<prResult, branches, pulls>>

\* ... and writes it with the linkage, which without the HTTP backend is all.
RecordLinkage(s) ==
    /\ Submitting(s, "record")
    /\ StoreLedger(s, RecordRequest(copies[s], {submitting[s].action}, "pr", "pr_linkage",
                                    prResult))
    /\ IF submitting[s].remote THEN Advance(s, "push") ELSE EndSubmit(s)
    /\ SubmitFrame /\ UNCHANGED <<prResult, branches, pulls>>

PushBranch(s) ==
    /\ Submitting(s, "push")
    /\ branches' = branches \cup {submitting[s].action.issue}
    /\ Advance(s, "create")
    /\ SubmitFrame /\ UNCHANGED <<ledgerFile, prResult, pulls>>

\* The server refuses a second open pull request of a branch, the client raises.
CreatePull(s) ==
    /\ Submitting(s, "create")
    /\ Len(pulls) < MaxPulls
    /\ \A p \in DOMAIN pulls : pulls[p].issue # submitting[s].action.issue
    /\ pulls' = Append(pulls, submitting[s].action)
    /\ Advance(s, "save")
    /\ SubmitFrame /\ UNCHANGED <<ledgerFile, prResult, branches>>

\* fix-pr.json has the number of the issue at its top.
SavePull(s) ==
    /\ Submitting(s, "save")
    /\ prResult' = [status |-> "ok", direct |-> submitting[s].action.issue, items |-> <<>>]
    /\ Advance(s, "settle")
    /\ SubmitFrame /\ UNCHANGED <<ledgerFile, branches, pulls>>

\* Reconciliation after the answer: every pull request entry reads this one file.
LoadSettled(s) ==
    /\ Submitting(s, "settle")
    /\ LoadLedger(s)
    /\ Advance(s, "end")
    /\ SubmitFrame /\ UNCHANGED <<prResult, branches, pulls>>

SettlePull(s) ==
    /\ Submitting(s, "end")
    /\ StoreReconciled(s)
    /\ EndSubmit(s)
    /\ SubmitFrame /\ UNCHANGED <<prResult, branches, pulls>>

\* A git or HTTP error, a lost answer or a crash ends the command where it is.
SubmitDies(s) ==
    /\ submitting[s] # NoValue
    /\ EndSubmit(s) /\ DropCopy(s)
    /\ SubmitFrame /\ UNCHANGED <<prResult, branches, pulls>>

-----------------------------------------------------------------------------
(* publish *)

\* What the plan finds out about a case of the run: its result, the issue its
\* contract names, an issue with the same fingerprint, a text the gate refuses.
CaseFacts == [status : {"PASS", "FAIL", "BLOCK"}, evidence : BOOLEAN, linked : BOOLEAN,
              duplicate : BOOLEAN, internal : BOOLEAN] \cup {NoValue}

PublishGate(status, evidence, state, duplicate, synced, internal) ==
    GateAllows([secret |-> FALSE, state |-> state, duplicate |-> duplicate,
                current |-> synced, expected |-> NoValue, hash |-> NoValue,
                evidence |-> evidence, status |-> status, author |-> NoValue,
                actor |-> NoValue, internal |-> internal, bug |-> NoValue,
                tracker |-> TRUE])

\* The page of the run: its gate result is PASS as soon as there is any result.
WikiStatusAction(run, synced) ==
    LET results == {run[c] : c \in RunCases} \ {NoValue}
        evidence == \E r \in results : r.evidence
    IN  [type |-> "wiki_update", case |-> NoValue, evidence |-> evidence,
         allowed |-> PublishGate(IF results = {} THEN "NOT_RUN" ELSE "PASS", evidence,
                                 "unknown", FALSE, synced, FALSE)]

\* One action for each failure: a comment when the contract names an issue, whose
\* state is taken to be open, or else an issue, unless the snapshot has it already.
FailureAction(c, r, synced) ==
    [type |-> IF r.linked THEN "issue_comment" ELSE "issue_create", case |-> c,
     evidence |-> r.evidence,
     allowed |-> PublishGate(r.status, r.evidence,
                             IF r.linked THEN "open" ELSE "unknown",
                             ~r.linked /\ r.duplicate, synced, r.internal)]

PublishActions(run, synced) ==
    {WikiStatusAction(run, synced)} \cup
    {FailureAction(c, run[c], synced) :
        c \in {d \in RunCases : run[d] # NoValue /\ run[d].status = "FAIL"}}

PublishOutcomes ==
    {PublishActions(run, synced) : run \in [RunCases -> CaseFacts], synced \in BOOLEAN}

PlanPublish(actions) ==
    /\ DeliverySpend
    /\ publishPlan' = actions
    /\ UNCHANGED <<ledgerVars, fixVars, publishApplied, publishing, written>>

\* apply_publish_plan reads the plan once and refuses it whole when one action is not
\* allowed; the gates are not asked again.  Without the HTTP backend nothing happens.
BeginPublish ==
    /\ DeliverySpend
    /\ publishing = NoValue /\ publishPlan # NoValue
    /\ \A a \in publishPlan : a.allowed
    /\ publishing' = [todo |-> publishPlan, done |-> {}]
    /\ UNCHANGED <<ledgerVars, fixVars, publishPlan, publishApplied, written>>

PerformPublish(action) ==
    /\ publishing # NoValue /\ action \in publishing.todo
    /\ written' = written \cup {action}
    /\ publishing' = [todo |-> publishing.todo \ {action},
                      done |-> publishing.done \cup {action}]
    /\ UNCHANGED <<ledgerVars, fixVars, publishPlan, publishApplied, deliveryEffort>>

\* The mutant: the result file reports the plan on disk.
PlanOnDisk == publishPlan

\* What the result file reports: the responses of this command.
PublishReport == publishing.done

FinishPublish ==
    /\ publishing # NoValue /\ publishing.todo = {}
    /\ publishApplied' = PublishReport
    /\ publishing' = NoValue
    /\ UNCHANGED <<ledgerVars, fixVars, publishPlan, written, deliveryEffort>>

\* An HTTP error or a crash: what was written stays, no result file says so, and the
\* next apply starts over with the first action.
PublishDies ==
    /\ publishing # NoValue
    /\ publishing' = NoValue
    /\ UNCHANGED <<ledgerVars, fixVars, publishPlan, publishApplied, written, deliveryEffort>>

-----------------------------------------------------------------------------

DeliveryInit ==
    /\ fixPlan = NoValue /\ fixRun = NoValue /\ prRequest = NoValue
    /\ submitting = [s \in Submitters |-> NoValue] /\ branches = {} /\ pulls = <<>>
    /\ publishPlan = NoValue /\ publishApplied = NoValue /\ publishing = NoValue
    /\ written = {} /\ deliveryEffort \in 0..DeliverySteps

FixNext ==
    \/ \E i \in FixIssues, f \in FixOutcomes :
          \/ \E run \in BOOLEAN : PlanFix(i, f, run)
          \/ \E s \in Submitters, t \in PrTickets(i, f) \cup {NoValue}, remote \in BOOLEAN :
                SubmitFixPr(s, i, f, t, remote)
    \/ \E exists \in BOOLEAN, status \in {"PASS", "FAIL", "BLOCK"} :
          PlanFixCase(exists, status)
    \/ \E s \in Submitters :
          \/ LoadLinkage(s) \/ RecordLinkage(s) \/ PushBranch(s) \/ CreatePull(s)
          \/ SavePull(s) \/ LoadSettled(s) \/ SettlePull(s) \/ SubmitDies(s)

PublishNext ==
    \/ \E actions \in PublishOutcomes : PlanPublish(actions)
    \/ BeginPublish
    \/ \E action \in (IF publishing = NoValue THEN {} ELSE publishing.todo) :
          PerformPublish(action)
    \/ FinishPublish \/ PublishDies

-----------------------------------------------------------------------------
(* Properties. *)

\* Every pull request on the server was opened for a case with results, and when the
\* commands that use the ledger file run one at a time with it, has its entry there:
\* wherever the command that opened it died and whatever other fixes, imports, wiki
\* applies and reconciliations have stored since.
PrLinked ==
    \A p \in DOMAIN pulls :
        pulls[p].evidence /\ (careful => PrLinks(writeLedger, pulls[p].issue) # {})

\* The result file of "publish apply" reports only what was written and the gate
\* allowed, although plans are made while the actions are performed and the command
\* may die after any of them.
PublishHonest ==
    publishApplied # NoValue => \A a \in publishApplied : a \in written /\ a.allowed
=============================================================================
