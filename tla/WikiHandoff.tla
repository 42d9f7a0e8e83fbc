---------------------------- MODULE WikiHandoff ----------------------------
(***************************************************************************)
(* Publication of the status page (wiki.py, hermes_mcp.py).                *)
(*                                                                         *)
(* plan_wiki renders the page from the contracts, the latest run and the   *)
(* issue snapshot and gates the text; apply_wiki_plan turns the plan on    *)
(* disk into a request and records it in the shared write ledger; Hermes   *)
(* writes the page; complete_mcp_wiki_apply takes whatever result file it  *)
(* finds.  The run and the texts a plan reads are chosen in the action     *)
(* that reads them; of the page only its event and whether it carries      *)
(* internal text are kept.                                                 *)
(***************************************************************************)
EXTENDS WriteLedger

CONSTANTS WikiCases,      \* case ids
          WikiCommands    \* bound: commands and sessions

ASSUME WikiAssumption == WikiCommands \in Nat /\ IsFiniteSet(WikiCases)

VARIABLES
    wikiReport,     \* wiki/quality-status.md: a body
    wikiPlan,       \* wiki-plan.json: NoValue or [body, allowed, ready]
    wikiRequest,    \* wiki-write-request.json: NoValue or a body
    wikiApplied,    \* wiki-apply.json: its status
    applyingWiki,   \* "wiki apply": NoValue or the body it has to record
    readingWiki,    \* "wiki status" is at work on the ledger
    wikiPage,       \* the page of the Gitea wiki
    wikiSession,    \* Hermes: NoValue or the body it carries
    wikiEffort      \* what is left of WikiCommands

wikiFiles == <<wikiReport, wikiPlan, wikiRequest, wikiApplied>>
wikiCommands == <<applyingWiki, readingWiki>>

wikiVars == <<wikiFiles, wikiCommands, wikiPage, wikiSession, wikiEffort>>

\* What wiki steps leave alone of the shared files.
OtherFiles == UNCHANGED <<careful, issueResult, prResult>>

WikiEvents == {"manual", "case_generation", "test_result", "gitea_write_summary"}

-----------------------------------------------------------------------------
(* What a plan reads. *)

CaseResults == [status : {"PASS", "FAIL", "BLOCK"}, evidence : BOOLEAN] \cup {NoValue}
WikiRuns == [WikiCases -> CaseResults] \cup {NoValue}

LatestRunHasCurrentEvidence(run) ==
    run # NoValue /\ \E c \in WikiCases : run[c] # NoValue /\ run[c].evidence

\* _aggregate_latest_run and the fixed results of the other events.
GateResultForEvent(event, run, wrote) ==
    CASE event = "test_result" ->
           LET of == {run[c] : c \in WikiCases} \ {NoValue}
           IN  IF run = NoValue THEN [status |-> "BLOCK", evidence |-> FALSE]
               ELSE [status |-> CASE \E r \in of : r.status = "FAIL" -> "FAIL"
                                  [] \E r \in of : r.status = "BLOCK" -> "BLOCK"
                                  [] OTHER -> "PASS",
                     evidence |-> \E r \in of : r.evidence]
      [] event = "gitea_write_summary" ->
           [status |-> IF wrote THEN "PASS" ELSE "BLOCK", evidence |-> wrote]
      [] OTHER -> [status |-> "BLOCK", evidence |-> TRUE]

\* evaluate_wiki_gate
WikiGateAllows(event, run, internal, wrote) ==
    LET result == GateResultForEvent(event, run, wrote) IN
    /\ GateAllows([secret |-> FALSE, state |-> "open", duplicate |-> FALSE,
                   current |-> TRUE, expected |-> NoValue, hash |-> NoValue,
                   evidence |-> result.evidence, status |-> result.status,
                   author |-> NoValue, actor |-> NoValue, internal |-> internal,
                   bug |-> NoValue, tracker |-> TRUE])
    /\ event = "test_result" => LatestRunHasCurrentEvidence(run)
    /\ event = "gitea_write_summary" => wrote

\* render_wiki_body, and everything a plan may come to.
RenderWikiBody(event, internal) == [event |-> event, internal |-> internal]

PlanOutcomes ==
    {[body |-> RenderWikiBody(event, internal),
      allowed |-> WikiGateAllows(event, run, internal, wrote)] :
        event \in WikiEvents, run \in WikiRuns, internal \in BOOLEAN, wrote \in BOOLEAN}

\* wiki_remote_readiness: listed is what the Hermes MCP status file (hermes_mcp.py)
\* says is available when the command runs; an absent file lists nothing.
RemoteReady(gateAllowed, listed) == gateAllowed /\ "gitea" \in listed

WikiInit ==
    /\ wikiReport = NoValue /\ wikiPlan = NoValue /\ wikiRequest = NoValue
    /\ wikiApplied = NoValue /\ applyingWiki = NoValue /\ readingWiki = FALSE
    /\ wikiPage = NoValue /\ wikiSession = NoValue /\ wikiEffort \in 0..WikiCommands

WikiSpend == wikiEffort > 0 /\ wikiEffort' = wikiEffort - 1

\* plan_wiki, also called by auto_sync_wiki after generation and runs: it never asks
\* Hermes for anything.
PlanWiki(outcome, listed) ==
    /\ WikiSpend
    /\ wikiReport' = outcome.body
    /\ wikiPlan' = [body |-> outcome.body, allowed |-> outcome.allowed,
                    ready |-> RemoteReady(outcome.allowed, listed)]
    /\ UNCHANGED <<ledgerVars, wikiRequest, wikiApplied, wikiCommands, wikiPage, wikiSession>>

\* render_wiki writes the report only.
RenderWiki(outcome) ==
    /\ WikiSpend
    /\ wikiReport' = outcome.body
    /\ UNCHANGED <<ledgerVars, wikiPlan, wikiRequest, wikiApplied, wikiCommands, wikiPage,
                   wikiSession>>

WikiAction(body) ==
    [op |-> "gitea.wiki.update_page", key |-> body, ticket |-> NoValue, issue |-> NoValue]

\* The mutant: the request carries the text of the latest report.
ReportedBody == wikiReport

\* apply_wiki_plan: the verdict and the text are those of the plan on disk; only the
\* remote readiness is asked again.  The request carries the text the plan holds.
PlannedBody == wikiPlan.body

ApplyWiki(listed) ==
    /\ WikiSpend
    /\ wikiPlan # NoValue /\ applyingWiki = NoValue
    /\ IF wikiPlan.ready /\ RemoteReady(wikiPlan.allowed, listed)
       THEN /\ wikiRequest' = PlannedBody /\ applyingWiki' = PlannedBody
            /\ UNCHANGED wikiApplied
       ELSE /\ wikiApplied' = "blocked"
            /\ UNCHANGED <<wikiRequest, applyingWiki>>
    /\ UNCHANGED <<ledgerVars, wikiReport, wikiPlan, readingWiki, wikiPage, wikiSession>>

\* The request is on disk; record_gitea_mcp_write_request, then the apply result.
ApplyLoads ==
    /\ applyingWiki # NoValue
    /\ LoadLedger("apply")
    /\ OtherFiles /\ UNCHANGED <<wikiResult, wikiVars>>

ApplyStores ==
    /\ applyingWiki # NoValue
    /\ StoreLedger("apply", RecordRequest(copies["apply"], {WikiAction(applyingWiki)},
                                         "wiki", "wiki_update", wikiResult))
    /\ wikiApplied' = "needs_mcp_apply"
    /\ applyingWiki' = NoValue
    /\ OtherFiles
    /\ UNCHANGED <<wikiResult, wikiReport, wikiPlan, wikiRequest, readingWiki, wikiPage,
                   wikiSession, wikiEffort>>

\* complete_mcp_wiki_apply: no request id ties the result to the request.
CompleteWiki ==
    /\ wikiRequest # NoValue /\ wikiResult # NoValue
    /\ wikiApplied' = IF wikiResult.status = "ok" THEN "ok" ELSE "blocked"
    /\ UNCHANGED <<ledgerVars, wikiReport, wikiPlan, wikiRequest, wikiCommands, wikiPage,
                   wikiSession, wikiEffort>>

\* "wiki status" reconciles the whole ledger.
WikiStatus ==
    /\ WikiSpend
    /\ ~readingWiki /\ readingWiki' = TRUE
    /\ UNCHANGED <<ledgerVars, wikiFiles, applyingWiki, wikiPage, wikiSession>>

StatusLoads ==
    /\ readingWiki
    /\ LoadLedger("status")
    /\ OtherFiles /\ UNCHANGED <<wikiResult, wikiVars>>

StatusStores ==
    /\ readingWiki /\ readingWiki' = FALSE
    /\ StoreReconciled("status")
    /\ OtherFiles
    /\ UNCHANGED <<wikiResult, wikiFiles, applyingWiki, wikiPage, wikiSession, wikiEffort>>

\* Either command dies; what it has loaded is gone.
WikiDies ==
    /\ \/ /\ applyingWiki # NoValue /\ applyingWiki' = NoValue /\ DropCopy("apply")
          /\ UNCHANGED readingWiki
       \/ /\ readingWiki /\ readingWiki' = FALSE /\ DropCopy("status")
          /\ UNCHANGED applyingWiki
    /\ OtherFiles /\ UNCHANGED <<wikiResult, wikiFiles, wikiPage, wikiSession, wikiEffort>>

-----------------------------------------------------------------------------
(* Hermes. *)

TakeWikiRequest ==
    /\ WikiSpend
    /\ wikiSession = NoValue /\ wikiRequest # NoValue
    /\ wikiSession' = wikiRequest
    /\ UNCHANGED <<ledgerVars, wikiFiles, wikiCommands, wikiPage>>

WritePage ==
    /\ wikiSession # NoValue
    /\ wikiPage' = wikiSession
    /\ UNCHANGED <<ledgerVars, wikiFiles, wikiCommands, wikiSession, wikiEffort>>

\* The session reports what became of its write, or dies without a word.
EndWikiSession ==
    /\ wikiSession # NoValue
    /\ wikiSession' = NoValue
    /\ wikiResult' \in {wikiResult}
                       \cup {[status |-> s, direct |-> NoValue, items |-> <<>>] :
                                s \in {"failed"} \cup
                                      (IF wikiPage = wikiSession THEN {"ok"} ELSE {})}
    /\ OtherFiles
    /\ UNCHANGED <<ledgerFile, wikiFiles, wikiCommands, wikiPage, wikiEffort>>

WikiNext ==
    \/ \E outcome \in PlanOutcomes :
          \/ \E listed \in SUBSET {"gitea"} : PlanWiki(outcome, listed)
          \/ RenderWiki(outcome)
    \/ \E listed \in SUBSET {"gitea"} : ApplyWiki(listed)
    \/ ApplyLoads \/ ApplyStores \/ CompleteWiki
    \/ WikiStatus \/ StatusLoads \/ StatusStores \/ WikiDies
    \/ TakeWikiRequest \/ WritePage \/ EndWikiSession

-----------------------------------------------------------------------------
(* Properties. *)

\* The page never carries text the write gate would refuse, although contracts, runs
\* and issues change and other plans and reports are written between the gate, the
\* apply and the write by Hermes.
PageGated == wikiPage # NoValue => ~wikiPage.internal
=============================================================================
