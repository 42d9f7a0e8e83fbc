---------------------------- MODULE WriteLedger ----------------------------
(***************************************************************************)
(* The write ledger and the write gate (gitea_ledger.py, write_gate.py).   *)
(*                                                                         *)
(* Every request handed to Hermes, and every pull request before it is     *)
(* opened, is recorded in one file, write-ledger.json, under               *)
(* "operation:idempotency_key"; the entries are later brought up to date   *)
(* from the result files.  Issue, wiki and fix commands share the file:    *)
(* each loads it, changes what it has loaded and writes all of it back,    *)
(* without a lock.                                                         *)
(*                                                                         *)
(* An action of a request has the fields op, key, ticket and issue; a      *)
(* result file is NoValue (absent) or [status, direct, items] with direct  *)
(* a top-level id and items the sequence of its records [ticket, issue].   *)
(***************************************************************************)
EXTENDS Integers, Sequences, FiniteSetsExt

CONSTANTS NoValue,      \* Python's None: an absent file, field or answer
          Submitters    \* the "issues fix --push-pr" commands that may run at once

ASSUME NoValueAssumption ==
    /\ NoValue \notin Int /\ NoValue \notin STRING
    /\ Submitters \subseteq STRING
    /\ Submitters \cap {"import", "trace", "apply", "status"} = {}

\* The commands that use the ledger: "issues sync --redmine-issues", "issues sync"
\* and "issues status", "wiki apply", "wiki status", and the fixes.
Clerks == {"import", "trace", "apply", "status"} \cup Submitters

VARIABLES
    careful,       \* the operators run the commands one at a time, in order
    writeLedger,   \* write-ledger.json: its entries by operation id
    copies,        \* [Clerks -> NoValue or the ledger as the command loaded it]
    issueResult,   \* issue-write-result.json
    wikiResult,    \* wiki-write-result.json
    prResult       \* fix-pr.json

ledgerFile == <<writeLedger, copies>>
resultFiles == <<issueResult, wikiResult, prResult>>
ledgerVars == <<careful, ledgerFile, resultFiles>>

LedgerInit ==
    /\ careful \in BOOLEAN
    /\ writeLedger = <<>> /\ copies = [c \in Clerks |-> NoValue]
    /\ issueResult = NoValue /\ wikiResult = NoValue /\ prResult = NoValue

-----------------------------------------------------------------------------
(* The result file, as the ledger reads it. *)

ResultStatus(result) == IF result = NoValue THEN NoValue ELSE result.status

FirstIssue(items, among) == items[Min(among)].issue

\* The mutant: any item answers for any ticket.
AnyRemoteId(result, ticket) ==
    IF result = NoValue \/ result.items = <<>> THEN NoValue
    ELSE FirstIssue(result.items, DOMAIN result.items)

\* The remote id of an entry: a top-level id answers for every entry, then the
\* first record that names this ticket or no ticket at all.
RemoteId(result, ticket) ==
    IF result = NoValue THEN NoValue
    ELSE IF result.direct # NoValue THEN result.direct
    ELSE LET answers == {k \in DOMAIN result.items :
                            ticket = NoValue \/ result.items[k].ticket \in {NoValue, ticket}}
         IN  IF answers = {} THEN NoValue ELSE FirstIssue(result.items, answers)

-----------------------------------------------------------------------------
(* Recording a request, reconciling the ledger. *)

OperationId(action) == <<action.op, action.key>>

TargetTypeForAction(default, action) ==
    CASE action.op = "gitea.pull_request.create" -> "pr_linkage"
      [] action.op = "gitea.issue.create" -> "issue_create"
      [] action.op = "gitea.issue.update" ->
            IF default = "issue_evidence_update" THEN default ELSE "issue_update"
      [] OTHER -> default

\* Two entry points of the code, one for an action and one for a request
\* without actions, that fill the same fields.
EntryFromAction(action, kind, target, result) ==
    [target |-> TargetTypeForAction(target, action), file |-> kind,
     ticket |-> action.ticket, issue |-> action.issue,
     status |-> ResultStatus(result), remote |-> RemoteId(result, action.ticket)]

\* record_gitea_mcp_write_request, between its load and its store.
RecordRequest(ledger, actions, kind, target, result) ==
    [o \in DOMAIN ledger \cup {OperationId(a) : a \in actions} |->
        IF \E a \in actions : OperationId(a) = o
        THEN EntryFromAction(CHOOSE a \in actions : OperationId(a) = o,
                             kind, target, result)
        ELSE ledger[o]]

\* reconcile_gitea_mcp_write_results, between its load and its store: all requests of
\* a kind share one result file; what is not in it any more is forgotten.
ResultOf(kind) ==
    CASE kind = "issue" -> issueResult [] kind = "wiki" -> wikiResult [] OTHER -> prResult

Reconcile(ledger) ==
    [o \in DOMAIN ledger |->
        [ledger[o] EXCEPT
            !.status = ResultStatus(ResultOf(ledger[o].file)),
            !.remote = RemoteId(ResultOf(ledger[o].file), ledger[o].ticket)]]

-----------------------------------------------------------------------------
(* Loading and storing the file. *)

\* Careful operators let a command finish with the ledger before they start another.
LoadLedger(c) ==
    /\ copies[c] = NoValue
    /\ careful => \A d \in Clerks : copies[d] = NoValue
    /\ copies' = [copies EXCEPT ![c] = writeLedger]
    /\ UNCHANGED writeLedger

\* The whole file is written: what another command stored since the load is gone.
StoreLedger(c, ledger) ==
    /\ copies[c] # NoValue
    /\ writeLedger' = ledger
    /\ copies' = [copies EXCEPT ![c] = NoValue]

\* Reconciliation stores only when an entry has changed.
StoreReconciled(c) ==
    StoreLedger(c, IF Reconcile(copies[c]) # copies[c] THEN Reconcile(copies[c])
                   ELSE writeLedger)

DropCopy(c) == copies' = [copies EXCEPT ![c] = NoValue] /\ UNCHANGED writeLedger

-----------------------------------------------------------------------------
(* What the traceability map takes from the ledger. *)

IssueTargets == {"issue_create", "issue_update", "issue_evidence_update"}

IssueLinks(ledger) ==
    {[issue |-> ledger[o].remote, ticket |-> ledger[o].ticket] :
        o \in {p \in DOMAIN ledger :
                 /\ ledger[p].target \in IssueTargets
                 /\ ledger[p].ticket # NoValue
                 /\ ledger[p].remote # NoValue}}

\* The pull request entries of an issue.
PrLinks(ledger, issue) ==
    {o \in DOMAIN ledger : ledger[o].target = "pr_linkage" /\ ledger[o].issue = issue}

-----------------------------------------------------------------------------
(* The write gate: every reason that applies is listed, the first decides. *)

GateReasons(f) ==
    {r \in {"raw_secret_detected", "closed_issue_write_forbidden",
            "duplicate_issue_candidate", "stale_or_missing_issue_sync",
            "contract_drift", "missing_current_evidence",
            "post_not_authored_by_actor", "internal_text_leak",
            "confirmed_bug_evidence_incomplete", "tracker_disabled"} :
        \/ r = "raw_secret_detected" /\ f.secret
        \/ r = "closed_issue_write_forbidden" /\ f.state = "closed"
        \/ r = "duplicate_issue_candidate" /\ f.duplicate
        \/ r = "stale_or_missing_issue_sync" /\ ~f.current
        \/ r = "contract_drift" /\ f.expected \notin {NoValue, f.hash}
        \/ r = "missing_current_evidence"
             /\ ~(f.evidence /\ f.status \in {"PASS", "FAIL", "BLOCK"})
        \/ r = "post_not_authored_by_actor"
             /\ f.author \notin {NoValue, f.actor}
        \/ r = "internal_text_leak" /\ f.internal
        \/ r = "confirmed_bug_evidence_incomplete" /\ f.bug = "incomplete"
        \/ r = "tracker_disabled" /\ ~f.tracker}

GateAllows(f) == GateReasons(f) = {}
=============================================================================
