--------------------------- MODULE IssueExchange ---------------------------
(***************************************************************************)
(* Redmine tickets and Gitea issues (redmine.py, issues.py).               *)
(*                                                                         *)
(* Quality Pilot never talks to a tracker.  Hermes leaves snapshots of     *)
(* Redmine and Gitea in files; "issues sync --redmine-issues" plans from   *)
(* them which issue each ticket needs and writes a request; Hermes carries *)
(* the request out and leaves a result; "issues sync" and "issues status"  *)
(* mirror the open issues, reconcile the ledger and rebuild the            *)
(* traceability map.  People edit tickets and close issues meanwhile, two  *)
(* commands may run at once, and a command or a session may die anywhere.  *)
(***************************************************************************)
EXTENDS IssueSnapshot, SequencesExt

CONSTANTS LeakyTexts,     \* texts the write gate refuses
          Prefix,         \* pairs <<t, u>>: the number of t begins the number of u
          SnapshotFaults, \* defects of a Redmine manifest Hermes may write
          MaxIssues,      \* bound: Gitea issues ever opened
          MaxEdits,       \* bound: what people do: edits, new issues, closings
          MaxFetches      \* bound: commands, fetches, sessions and crashes

ASSUME IssueAssumption ==
    /\ LeakyTexts \subseteq Texts /\ Prefix \subseteq Tickets \X Tickets
    /\ MaxIssues \in Nat /\ MaxEdits \in Nat /\ MaxFetches \in Nat

VARIABLES
    labelled,      \* Hermes names the ticket of each issue in its results
    redmine,       \* [Tickets -> Nat]: version of each ticket
    gitea,         \* sequence of issues
    named,         \* the tickets each issue has ever named (history)
    manifest,      \* redmine-mcp/issues.json: NoValue or [ids, text, fault]
    fetched,       \* gitea-mcp/issues.json: NoValue or a copy of gitea
    current,       \* which of "fetched" and "snapshot" show all Hermes has written
    trace,         \* traceability-map.json: set of [issue, tickets]
    mirrors,       \* ids with issues/<id>.md
    archive,       \* ids with issues/closed/<id>.md
    issueRequest,  \* issue-write-request.json: set of actions
    importer,      \* "issues sync --redmine-issues": the actions it has to record
    tracer,        \* "issues sync" or "issues status": its progress
    session,       \* Hermes: NoValue or [todo, done]
    answered,      \* the request on disk has been carried out or lost
    edits,         \* what is left of MaxEdits
    effort         \* what is left of MaxFetches

trackers == <<redmine, gitea, named>>
readings == <<manifest, fetched, current>>
records == <<snapshot, trace, mirrors, archive>>
actors == <<importer, tracer, session>>
requests == <<issueRequest, answered>>
bounds == <<edits, effort>>

issueVars == <<labelled, trackers, readings, records, actors, requests, bounds>>

Fixed == UNCHANGED <<careful, labelled, wikiResult, prResult>>
Spend == effort > 0 /\ effort' = effort - 1 /\ UNCHANGED edits
Edit == edits > 0 /\ edits' = edits - 1 /\ UNCHANGED effort

Idle == [phase |-> "idle"]

IssueInit ==
    /\ labelled \in BOOLEAN
    /\ redmine = [t \in Tickets |-> 0] /\ gitea = <<>> /\ named = <<>>
    /\ manifest = NoValue /\ fetched = NoValue /\ current = {"snapshot"}
    /\ snapshot = <<>> /\ trace = {} /\ mirrors = {} /\ archive = {}
    /\ importer = NoValue /\ tracer = Idle /\ session = NoValue
    /\ issueRequest = {} /\ answered = TRUE
    /\ edits \in 0..MaxEdits /\ effort \in 0..MaxFetches

-----------------------------------------------------------------------------
(* People. *)

People ==
    /\ Edit /\ Fixed
    /\ UNCHANGED <<readings, records, actors, requests, ledgerFile, issueResult>>

EditTicket(t) ==
    /\ People
    /\ redmine' = [redmine EXCEPT ![t] = @ + 1]
    /\ UNCHANGED <<gitea, named>>

\* Somebody pastes a ticket's text into an issue of their own.
OpenByHand(t) ==
    /\ People
    /\ Len(gitea) < MaxIssues
    /\ LET new == [open |-> TRUE, ticket |-> NoValue, text |-> <<t, redmine[t]>>]
       IN  gitea' = Append(gitea, new) /\ named' = Append(named, Names(new))
    /\ UNCHANGED redmine

CloseIssue(i) ==
    /\ People
    /\ gitea[i].open
    /\ gitea' = [gitea EXCEPT ![i].open = FALSE]
    /\ UNCHANGED <<redmine, named>>

-----------------------------------------------------------------------------
(* Hermes reads the trackers. *)

FetchTickets(ids, fault) ==
    /\ Spend /\ Fixed
    /\ manifest' = [ids |-> ids, text |-> [t \in ids |-> redmine[t]], fault |-> fault]
    /\ UNCHANGED <<trackers, fetched, current, records, actors, requests, ledgerFile,
                   issueResult>>

FetchIssues ==
    /\ Spend /\ Fixed
    /\ fetched # gitea
    /\ fetched' = gitea /\ current' = current \cup {"fetched"}
    /\ UNCHANGED <<trackers, manifest, records, actors, requests, ledgerFile, issueResult>>

-----------------------------------------------------------------------------
(* issues sync --redmine-issues *)

\* validate_redmine_mcp_snapshot and the check for missing tickets after it: any
\* defect refuses the whole import.
ManifestDefects ==
    {"schema", "not_live", "no_fetched_at", "include", "not_full",
     "fetched_before_source", "issue_dropped", "payload_gap"}

ManifestAccepted(m, asked) ==
    /\ m # NoValue
    /\ m.fault \notin ManifestDefects
    /\ asked \subseteq m.ids

NoIssue == [issue |-> NoValue, read |-> FALSE]

Linked(t) ==
    IF issueResult = NoValue THEN {}
    ELSE {k \in DOMAIN issueResult.items : issueResult.items[k].ticket = t}

\* The marker "redmine #n" of a ticket is looked for in title and body, as a
\* substring: a longer number that begins with n matches too.
Marked(t) ==
    {i \in DOMAIN snapshot :
        \E u \in Names(snapshot[i]) : u = t \/ <<t, u>> \in Prefix}

\* The fingerprint is that of the ticket's own title and text.
Pasted(t, version) ==
    {i \in DOMAIN snapshot : snapshot[i].ticket = NoValue /\ snapshot[i].text = <<t, version>>}

\* The mutant: the snapshot is not asked.
FindLinkedIssue(t, version) ==
    IF Linked(t) # {}
    THEN [issue |-> FirstIssue(issueResult.items, Linked(t)), read |-> FALSE]
    ELSE NoIssue

\* _find_existing_gitea_issue: the last result file, then the marker in the last
\* snapshot, then the fingerprint.
FindExistingIssue(t, version) ==
    IF Linked(t) # {}
    THEN [issue |-> FirstIssue(issueResult.items, Linked(t)), read |-> FALSE]
    ELSE IF Marked(t) # {} THEN [issue |-> Min(Marked(t)), read |-> TRUE]
    ELSE IF Pasted(t, version) # {} THEN [issue |-> Min(Pasted(t, version)), read |-> TRUE]
    ELSE NoIssue

\* An issue known only from a result is always written again.
NeedsUpdate(found, t, version) ==
    \/ ~found.read
    \/ snapshot[found.issue].ticket # t
    \/ snapshot[found.issue].text # <<t, version>>

Candidate(t, version) ==
    LET found == FindExistingIssue(t, version)
        op == IF found = NoIssue THEN "gitea.issue.create"
              ELSE IF NeedsUpdate(found, t, version) THEN "gitea.issue.update"
              ELSE "link"
    IN  [op |-> op, ticket |-> t, text |-> <<t, version>>, issue |-> found.issue,
         key |-> <<t, version>>]

\* attach_gitea_issue_write_gate: only the text can make the gate refuse.
CandidateAllowed(c) ==
    GateAllows([secret |-> c.text \in LeakyTexts, state |-> "open",
                duplicate |-> FALSE, current |-> TRUE, expected |-> NoValue,
                hash |-> NoValue, evidence |-> TRUE, status |-> "PASS",
                author |-> NoValue, actor |-> NoValue, internal |-> FALSE,
                bug |-> NoValue, tracker |-> TRUE])

\* The actions of the request; a linked issue is skipped, a refused one blocked,
\* and the request is written for what is left.
RequestedActions(asked) ==
    {c \in {Candidate(t, manifest.text[t]) : t \in asked} :
        c.op # "link" /\ CandidateAllowed(c)}

\* The documented order: one command at a time, none while Hermes is writing, and
\* an import only after an issues sync of a fetch made after the last write.
OneAtATime == importer = NoValue /\ tracer = Idle /\ session = NoValue
InOrder == OneAtATime /\ answered /\ "snapshot" \in current

SyncRedmineIssues(asked) ==
    /\ Spend /\ Fixed
    /\ importer = NoValue
    /\ ManifestAccepted(manifest, asked)
    /\ careful => InOrder
    /\ LET actions == RequestedActions(asked) IN
        /\ actions # {}
        /\ issueRequest' = actions
        /\ importer' = actions
        /\ answered' = FALSE
    /\ UNCHANGED <<trackers, readings, records, tracer, session, ledgerFile, issueResult>>

\* record_gitea_mcp_write_request reads the ledger file ...
ImporterLoads ==
    /\ importer # NoValue
    /\ LoadLedger("import")
    /\ Fixed
    /\ UNCHANGED <<trackers, readings, records, actors, requests, bounds, issueResult>>

\* ... and writes it whole.
ImporterStores ==
    /\ importer # NoValue
    /\ StoreLedger("import", RecordRequest(copies["import"], importer, "issue",
                                          "issue_create", issueResult))
    /\ importer' = NoValue
    /\ Fixed
    /\ UNCHANGED <<trackers, readings, records, tracer, session, requests, bounds,
                   issueResult>>

-----------------------------------------------------------------------------
(* Hermes carries the request out. *)

TakeIssueRequest ==
    /\ Spend /\ Fixed
    /\ session = NoValue /\ issueRequest # {}
    /\ careful => ~answered /\ OneAtATime
    /\ session' = [todo |-> issueRequest, done |-> <<>>]
    /\ answered' = TRUE
    /\ UNCHANGED <<trackers, readings, records, importer, tracer, issueRequest, ledgerFile,
                   issueResult>>

WriteIssue(a) ==
    /\ session # NoValue /\ a \in session.todo
    /\ LET new == [open |-> TRUE, ticket |-> a.ticket, text |-> a.text]
           at == IF a.op = "gitea.issue.create" THEN Len(gitea) + 1 ELSE a.issue
       IN  /\ at <= MaxIssues
           /\ IF at > Len(gitea)
              THEN gitea' = Append(gitea, new) /\ named' = Append(named, Names(new))
              ELSE /\ gitea' = [gitea EXCEPT ![at] = [new EXCEPT !.open = gitea[at].open]]
                   /\ named' = [named EXCEPT ![at] = @ \cup Names(new)]
           /\ session' = [todo |-> session.todo \ {a},
                          done |-> Append(session.done, [ticket |-> a.ticket, issue |-> at])]
    /\ current' = {}
    /\ Fixed
    /\ UNCHANGED <<redmine, manifest, fetched, records, importer, tracer, requests, bounds,
                   ledgerFile, issueResult>>

\* The result file lists the issues written, each with its ticket; or without, in
\* records or in one number at the top.
Reports(done, status) ==
    IF labelled THEN {[status |-> status, direct |-> NoValue, items |-> done]}
    ELSE {[status |-> status, direct |-> NoValue,
           items |-> [k \in DOMAIN done |-> [done[k] EXCEPT !.ticket = NoValue]]]}
         \cup {[status |-> status, direct |-> done[k].issue, items |-> <<>>] :
                  k \in DOMAIN done}

\* The result replaces the previous one, whether or not all actions were done.
ReportIssues ==
    /\ session # NoValue
    /\ issueResult' \in Reports(session.done,
                                IF session.todo = {} THEN "ok" ELSE "failed")
    /\ session' = NoValue
    /\ Fixed
    /\ UNCHANGED <<trackers, readings, records, importer, tracer, requests, bounds,
                   ledgerFile>>

-----------------------------------------------------------------------------
(* issues sync: mirror the open issues, archive the closed ones. *)

SyncIssues ==
    /\ Spend /\ Fixed
    /\ tracer = Idle /\ fetched # NoValue
    /\ careful => OneAtATime
    /\ tracer' = [phase |-> "archive", raw |-> fetched, items |-> OpenItems(fetched),
                  save |-> TRUE, current |-> "fetched" \in current]
    /\ UNCHANGED <<trackers, readings, records, importer, session, requests, ledgerFile,
                   issueResult>>

\* What a step of the tracer leaves alone.
Tracing ==
    /\ Fixed
    /\ UNCHANGED <<trackers, manifest, fetched, importer, session, requests, bounds,
                   issueResult>>

\* Closed issues that still have a mirror, in the order the loop meets them.
Closing == {i \in mirrors \cap DOMAIN tracer.raw : ~tracer.raw[i].open}

\* The mutant: the mirror goes without an archive, as when only the remote copy is
\* looked at.
DropMirror ==
    /\ tracer.phase = "archive" /\ Closing # {}
    /\ mirrors' = mirrors \ {Min(Closing)}
    /\ Tracing
    /\ UNCHANGED <<tracer, current, snapshot, trace, archive, ledgerFile>>

ArchiveMirror ==
    /\ tracer.phase = "archive" /\ Closing # {}
    /\ archive' = archive \cup {Min(Closing)}
    /\ tracer' = [tracer EXCEPT !.phase = "unlink"]
    /\ Tracing
    /\ UNCHANGED <<current, snapshot, trace, mirrors, ledgerFile>>

UnlinkMirror ==
    /\ tracer.phase = "unlink"
    /\ mirrors' = mirrors \ {Min(Closing)}
    /\ tracer' = [tracer EXCEPT !.phase = "archive"]
    /\ Tracing
    /\ UNCHANGED <<current, snapshot, trace, archive, ledgerFile>>

WriteMirrors ==
    /\ tracer.phase = "archive" /\ Closing = {}
    /\ mirrors' = mirrors \cup DOMAIN tracer.items
    /\ tracer' = [tracer EXCEPT !.phase = "reconcile"]
    /\ Tracing
    /\ UNCHANGED <<current, snapshot, trace, archive, ledgerFile>>

\* issues status: the same reconciliation and map for the snapshot on disk.
IssuesStatus ==
    /\ Spend /\ Fixed
    /\ tracer = Idle
    /\ careful => OneAtATime
    /\ tracer' = [phase |-> "reconcile", raw |-> <<>>, items |-> snapshot,
                  save |-> FALSE, current |-> FALSE]
    /\ UNCHANGED <<trackers, readings, records, importer, session, requests, ledgerFile,
                   issueResult>>

TracerLoads ==
    /\ tracer.phase = "reconcile"
    /\ LoadLedger("trace")
    /\ Tracing
    /\ UNCHANGED <<tracer, current, records>>

TracerReconciles ==
    /\ tracer.phase = "reconcile"
    /\ StoreReconciled("trace")
    /\ tracer' = [tracer EXCEPT !.phase = "trace"]
    /\ Tracing
    /\ UNCHANGED <<current, records>>

\* The tickets of the ledger's links and pull request entries of an issue.
LedgerTickets(ledger, i) ==
    {l.ticket : l \in {m \in IssueLinks(ledger) : m.issue = i}}
    \cup ({ledger[o].ticket : o \in PrLinks(ledger, i)} \ {NoValue})

\* build_traceability: a row for each open issue with the tickets its text and the
\* ledger name, and a row for each link to an issue only the ledger knows.
TraceRows(items, ledger) ==
    {[issue |-> i, tickets |-> Names(items[i]) \cup LedgerTickets(ledger, i)] :
        i \in DOMAIN items}
    \cup {[issue |-> l.issue, tickets |-> {l.ticket}] :
            l \in {m \in IssueLinks(ledger) : m.issue \notin DOMAIN items}}

WriteTrace ==
    /\ tracer.phase = "trace"
    /\ trace' = TraceRows(tracer.items, writeLedger)
    /\ IF tracer.save
       THEN /\ snapshot' = tracer.items
            /\ current' = IF tracer.current THEN current \cup {"snapshot"}
                          ELSE current \ {"snapshot"}
       ELSE UNCHANGED <<snapshot, current>>
    /\ tracer' = Idle
    /\ Tracing
    /\ UNCHANGED <<mirrors, archive, ledgerFile>>

-----------------------------------------------------------------------------
(* A command or a session dies; the files stay as they are. *)

IssueCrash ==
    /\ Spend /\ Fixed
    /\ \/ /\ importer # NoValue /\ importer' = NoValue
          /\ DropCopy("import") /\ UNCHANGED <<tracer, session>>
       \/ /\ tracer # Idle /\ tracer' = Idle
          /\ DropCopy("trace") /\ UNCHANGED <<importer, session>>
       \/ /\ session # NoValue /\ session' = NoValue
          /\ UNCHANGED <<importer, tracer, ledgerFile>>
    /\ UNCHANGED <<trackers, readings, records, requests, issueResult>>

IssueNext ==
    \/ \E t \in Tickets : EditTicket(t) \/ OpenByHand(t)
    \/ \E i \in DOMAIN gitea : CloseIssue(i)
    \/ \E ids \in (SUBSET Tickets) \ {{}}, fault \in SnapshotFaults \cup {NoValue} :
          FetchTickets(ids, fault)
    \/ FetchIssues
    \/ \E asked \in (SUBSET Tickets) \ {{}} : SyncRedmineIssues(asked)
    \/ ImporterLoads \/ ImporterStores
    \/ TakeIssueRequest
    \/ \E a \in (IF session = NoValue THEN {} ELSE session.todo) : WriteIssue(a)
    \/ ReportIssues
    \/ SyncIssues \/ ArchiveMirror \/ UnlinkMirror \/ WriteMirrors
    \/ IssuesStatus \/ TracerLoads \/ TracerReconciles \/ WriteTrace
    \/ IssueCrash

-----------------------------------------------------------------------------
(* Properties. *)

\* A ticket no other number and no text is mistaken for: none begins with its own, and
\* no ticket's text says "Redmine #" and its number.
Distinct(t) ==
    /\ \A u \in Tickets : <<t, u>> \in Prefix => u = t
    /\ \A m \in Mentions : m[2] # t /\ <<t, m[2]>> \notin Prefix

OneOpenIssue(t) ==
    \A i, j \in DOMAIN gitea :
        (gitea[i].open /\ gitea[j].open /\ gitea[i].ticket = t /\ gitea[j].ticket = t)
            => i = j

\* When the operators follow the documented order (Hermes answers, fetch, issues
\* sync, and only then the next --redmine-issues), a distinct ticket never has two
\* open issues: not when tickets are edited and issues closed or opened by hand after
\* the sync, when a session dies after writing and before reporting, when the last
\* result file was replaced by another or names no tickets, nor because of what the
\* texts of other tickets are mistaken for.
OneOpenIssuePerTicket == careful => \A t \in Tickets : Distinct(t) => OneOpenIssue(t)

\* "If a linked Gitea issue already exists, Redmine sync must reuse/update it ...
\* instead of duplicating it" (README.md:218), for every ticket.
LinkedNeverDuplicated == careful => \A t \in Tickets : OneOpenIssue(t)

\* When Hermes names the tickets in its results, a row of the traceability map ties an
\* issue only to tickets it has named itself and to those its cases come from, whatever
\* ledger a racing command stored and whichever request the result file answers.
TraceTrue ==
    labelled => \A row \in trace : \A t \in row.tickets :
                   t \in named[row.issue] \/ <<row.issue, t>> \in CaseTickets

\* An issue the sync found closed keeps its last mirror: every issue of the map
\* that has lost its mirror has been archived, also when the sync died halfway.
ClosedIssuesArchived ==
    \A i \in DOMAIN snapshot : i \in mirrors \/ i \in archive
=============================================================================
