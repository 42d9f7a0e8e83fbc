--------------------------- MODULE HandoffProofs ----------------------------
(***************************************************************************)
(* Proofs about what Quality Pilot hands over to the trackers (Handoff):   *)
(* the issues and the map, the shared write ledger, the wiki page, the     *)
(* review reply, pull requests and publication, for any tickets, issues,   *)
(* cases, texts that name other tickets, commands at once and deaths.      *)
(***************************************************************************)
EXTENDS Handoff, TLAPS, WellFoundedInduction

\* A step of the issue desk, or one that leaves its files alone.
LEMMA OtherDesks ==
    ASSUME [HandoffNext]_handoffVars
    PROVE  \/ IssueNext /\ UNCHANGED deliveryVars
           \/ UNCHANGED <<issueVars, careful, issueResult>>
<1>1. WikiNext => UNCHANGED <<careful, issueResult>>
  BY DEF WikiNext, PlanWiki, RenderWiki, ApplyWiki, ApplyLoads, ApplyStores, CompleteWiki,
     WikiStatus, StatusLoads, StatusStores, WikiDies, TakeWikiRequest, WritePage,
     EndWikiSession, OtherFiles, ledgerVars, resultFiles
<1>2. FixNext => UNCHANGED <<careful, issueResult>>
  BY DEF FixNext, PlanFix, PlanFixCase, SubmitFixPr, SubmitTo, LoadLinkage, RecordLinkage,
     PushBranch, CreatePull, SavePull, LoadSettled, SettlePull, SubmitDies, SubmitFrame, ledgerVars, resultFiles
<1>3. PublishNext => UNCHANGED <<careful, issueResult>>
  BY DEF PublishNext, PlanPublish, BeginPublish, PerformPublish, FinishPublish, PublishDies,
     ledgerVars, resultFiles
<1> QED
  BY <1>1, <1>2, <1>3 DEF HandoffNext, IssueDesk, WikiDesk, ReviewDesk, FixDesk, PublishDesk,
     handoffVars, ledgerVars, resultFiles

-----------------------------------------------------------------------------
(* The mirrors of the issues *)

\* Mirrors are written before the map, and a mirror is only removed once archived.
MirrorsKept ==
    /\ tracer.phase # "idle" =>
          /\ DOMAIN tracer = {"phase", "raw", "items", "save", "current"}
          /\ tracer.phase \in {"archive", "unlink", "reconcile", "trace"}
          /\ tracer.phase = "unlink" => Min(Closing) \in archive
          /\ tracer.phase \in {"reconcile", "trace"} /\ tracer.save =>
                DOMAIN tracer.items \subseteq mirrors \cup archive
    /\ ClosedIssuesArchived

LEMMA MirrorsInit == IssueInit => MirrorsKept
  BY DEF IssueInit, MirrorsKept, Idle, ClosedIssuesArchived

LEMMA MirrorsStep ==
    ASSUME MirrorsKept, IssueNext
    PROVE  MirrorsKept'
<1>1. ASSUME UNCHANGED <<snapshot, mirrors, archive>>, tracer' = tracer \/ tracer' = Idle
      PROVE  MirrorsKept'
  <2>1. CASE tracer' = tracer
    <3>1. Min(Closing)' = Min(Closing)
      BY <1>1, <2>1 DEF Closing
    <3> QED
      BY <1>1, <2>1, <3>1 DEF MirrorsKept, ClosedIssuesArchived
  <2>2. CASE tracer' = Idle
    BY <1>1, <2>2 DEF MirrorsKept, ClosedIssuesArchived, Idle
  <2> QED
    BY <1>1, <2>1, <2>2
<1>2. CASE SyncIssues
  BY <1>2 DEF SyncIssues, MirrorsKept, ClosedIssuesArchived, records
<1>3. CASE IssuesStatus
  BY <1>3 DEF IssuesStatus, MirrorsKept, ClosedIssuesArchived, records
<1>5. ASSUME NEW phase, tracer.phase # "idle", tracer' = [tracer EXCEPT !.phase = phase]
      PROVE  /\ DOMAIN tracer' = DOMAIN tracer /\ tracer'.phase = phase
             /\ tracer'.items = tracer.items /\ tracer'.save = tracer.save
             /\ tracer'.raw = tracer.raw
  BY <1>5 DEF MirrorsKept
<1>6. CASE ArchiveMirror
  <2>1. /\ tracer.phase = "archive" /\ archive' = archive \cup {Min(Closing)}
        /\ tracer' = [tracer EXCEPT !.phase = "unlink"] /\ UNCHANGED <<snapshot, mirrors>>
    BY <1>6 DEF ArchiveMirror
  <2>2. /\ tracer'.phase = "unlink" /\ DOMAIN tracer' = DOMAIN tracer
        /\ tracer'.raw = tracer.raw
    BY <1>5, <2>1
  <2>3. Min(Closing)' = Min(Closing)
    BY <2>1, <2>2 DEF Closing
  <2> QED
    BY <2>1, <2>2, <2>3 DEF MirrorsKept, ClosedIssuesArchived
<1>7. CASE UnlinkMirror
  <2>1. /\ tracer.phase = "unlink" /\ mirrors' = mirrors \ {Min(Closing)}
        /\ tracer' = [tracer EXCEPT !.phase = "archive"] /\ UNCHANGED <<snapshot, archive>>
    BY <1>7 DEF UnlinkMirror
  <2>2. tracer'.phase = "archive" /\ DOMAIN tracer' = DOMAIN tracer
    BY <1>5, <2>1
  <2> QED
    BY <2>1, <2>2 DEF MirrorsKept, ClosedIssuesArchived
<1>8. CASE WriteMirrors
  <2>1. /\ tracer.phase = "archive" /\ mirrors' = mirrors \cup DOMAIN tracer.items
        /\ tracer' = [tracer EXCEPT !.phase = "reconcile"] /\ UNCHANGED <<snapshot, archive>>
    BY <1>8 DEF WriteMirrors
  <2>2. /\ tracer'.phase = "reconcile" /\ DOMAIN tracer' = DOMAIN tracer
        /\ tracer'.items = tracer.items
    BY <1>5, <2>1
  <2> QED
    BY <2>1, <2>2 DEF MirrorsKept, ClosedIssuesArchived
<1>9. TracerLoads => UNCHANGED <<snapshot, mirrors, archive, tracer>>
  BY DEF TracerLoads, records
<1>10. CASE TracerReconciles
  <2>1. /\ tracer.phase = "reconcile" /\ UNCHANGED <<snapshot, mirrors, archive>>
        /\ tracer' = [tracer EXCEPT !.phase = "trace"]
    BY <1>10 DEF TracerReconciles, records
  <2>2. /\ tracer'.phase = "trace" /\ DOMAIN tracer' = DOMAIN tracer
        /\ tracer'.items = tracer.items /\ tracer'.save = tracer.save
    BY <1>5, <2>1
  <2> QED
    BY <2>1, <2>2 DEF MirrorsKept, ClosedIssuesArchived
<1>11. CASE WriteTrace
  BY <1>11 DEF WriteTrace, MirrorsKept, ClosedIssuesArchived, Idle
<1>12. ASSUME \/ \E t \in Tickets : EditTicket(t) \/ OpenByHand(t)
              \/ \E i \in DOMAIN gitea : CloseIssue(i)
              \/ \E ids, fault : FetchTickets(ids, fault)
              \/ FetchIssues
       PROVE  UNCHANGED <<snapshot, mirrors, archive, tracer>>
  BY <1>12 DEF EditTicket, OpenByHand, CloseIssue, People, FetchTickets, FetchIssues, records, actors
<1>13. ASSUME \/ \E asked : SyncRedmineIssues(asked)
              \/ ImporterLoads \/ ImporterStores \/ TakeIssueRequest \/ ReportIssues
              \/ \E a : WriteIssue(a)
       PROVE  UNCHANGED <<snapshot, mirrors, archive, tracer>>
  BY <1>13 DEF SyncRedmineIssues, ImporterLoads, ImporterStores, TakeIssueRequest, ReportIssues,
     WriteIssue, records, actors
<1>14. ASSUME IssueCrash
       PROVE  UNCHANGED <<snapshot, mirrors, archive>> /\ (tracer' = tracer \/ tracer' = Idle)
  BY <1>14 DEF IssueCrash, records
<1> QED
  BY <1>1, <1>2, <1>3, <1>6, <1>7, <1>8, <1>9, <1>10, <1>11, <1>12, <1>13, <1>14 DEF IssueNext

\* An issue of the map keeps its mirror or has its archive, wherever a sync dies.
THEOREM ClosedArchived == HandoffSpec => []ClosedIssuesArchived
<1>1. HandoffInit => MirrorsKept
  BY MirrorsInit DEF HandoffInit
<1>2. MirrorsKept => ClosedIssuesArchived
  BY DEF MirrorsKept
<1>3. MirrorsKept /\ [HandoffNext]_handoffVars => MirrorsKept'
  <2>1. MirrorsKept /\ UNCHANGED issueVars => MirrorsKept'
    BY DEF issueVars, records, actors, MirrorsKept, ClosedIssuesArchived, Closing
  <2> QED
    BY <2>1, MirrorsStep, OtherDesks
<1> QED
  BY <1>1, <1>2, <1>3, PTL DEF HandoffSpec

-----------------------------------------------------------------------------
(* What has been written down of issues and tickets *)

Issue == [open : BOOLEAN, ticket : Tickets \cup {NoValue}, text : Texts]

\* Issue i has named ticket t, according to the history n.
NamedIn(n, i, t) == i \in DOMAIN n /\ t \in n[i]

Grown(n, m) == \A i \in DOMAIN n : i \in DOMAIN m /\ n[i] \subseteq m[i]

\* A copy of the issues taken at some time.
Reading(n, f) ==
    \A i \in DOMAIN f : f[i] \in Issue /\ i \in DOMAIN n /\ Names(f[i]) \subseteq n[i]

Answer == [ticket : Tickets \cup {NoValue}, issue : Nat]

TrueAnswers(n, items) ==
    /\ items \in Seq(Answer)
    /\ \A k \in DOMAIN items :
          items[k].ticket # NoValue => NamedIn(n, items[k].issue, items[k].ticket)

\* With labels a result names the ticket of each of its issues.
TrueResult(labels, n, result) ==
    /\ TrueAnswers(n, result.items)
    /\ labels => /\ result.direct = NoValue
                 /\ \A k \in DOMAIN result.items : result.items[k].ticket # NoValue

Action == [op : {"gitea.issue.create", "gitea.issue.update"}, ticket : Tickets,
           text : Texts, issue : Nat \cup {NoValue}, key : Texts]

TrueAction(n, a) ==
    /\ a \in Action
    /\ IF a.op = "gitea.issue.create" THEN a.issue = NoValue ELSE a.issue \in DOMAIN n

TrueActions(n, S) == \A a \in S : TrueAction(n, a)

Linkable(n, i, t) == t # NoValue => NamedIn(n, i, t) \/ <<i, t>> \in CaseTickets

PullOp == "gitea.pull_request.create"

TrueEntry(labels, n, o, e) ==
    /\ DOMAIN e = {"target", "file", "ticket", "issue", "status", "remote"}
    /\ e.target = "pr_linkage" =>
          o[1] = PullOp /\ e.issue = o[2][1] /\ Linkable(n, e.issue, e.ticket)
    /\ e.target \in IssueTargets =>
          /\ e.file = "issue" /\ e.ticket \in Tickets
          /\ labels /\ e.remote # NoValue => NamedIn(n, e.remote, e.ticket)

TrueLedger(labels, n, l) == \A o \in DOMAIN l : TrueEntry(labels, n, o, l[o])

TrueTrace(n, T) ==
    \A row \in T : \A t \in row.tickets :
        t # NoValue /\ (NamedIn(n, row.issue, t) \/ <<row.issue, t>> \in CaseTickets)

\* A linkage action of a case with evidence.
PullActions ==
    {a \in {PrAction(i, f, t) : i \in FixIssues, f \in FixOutcomes, t \in Tickets \cup {NoValue}} :
        a.evidence}

Steps == {"load", "record", "push", "create", "save", "settle", "end"}

TrueSubmit(n, x) ==
    /\ x \in [step : Steps, action : PullActions, remote : BOOLEAN]
    /\ Linkable(n, x.action.issue, x.action.ticket)

\* Everything written down stays true while issues name more.
LEMMA GrownTrue ==
    ASSUME NEW n, NEW m, Grown(n, m)
    PROVE  /\ \A f : Reading(n, f) => Reading(m, f)
           /\ \A S : TrueAnswers(n, S) => TrueAnswers(m, S)
           /\ \A b, r : TrueResult(b, n, r) => TrueResult(b, m, r)
           /\ \A S : TrueActions(n, S) => TrueActions(m, S)
           /\ \A b, l : TrueLedger(b, n, l) => TrueLedger(b, m, l)
           /\ \A T : TrueTrace(n, T) => TrueTrace(m, T)
           /\ \A x : TrueSubmit(n, x) => TrueSubmit(m, x)
<1>1. \A i, t : NamedIn(n, i, t) => NamedIn(m, i, t)
  BY DEF Grown, NamedIn
<1>2. \A i, t : Linkable(n, i, t) => Linkable(m, i, t)
  BY <1>1 DEF Linkable
<1>3. \A f : Reading(n, f) => Reading(m, f)
  BY DEF Grown, Reading
<1>4. \A S : TrueAnswers(n, S) => TrueAnswers(m, S)
  BY <1>1 DEF TrueAnswers
<1>5. \A b, r : TrueResult(b, n, r) => TrueResult(b, m, r)
  BY <1>4 DEF TrueResult
<1>6. \A S : TrueActions(n, S) => TrueActions(m, S)
  BY DEF TrueActions, TrueAction, Grown
<1>7. \A b, l : TrueLedger(b, n, l) => TrueLedger(b, m, l)
  BY <1>1, <1>2 DEF TrueLedger, TrueEntry
<1>8. \A T : TrueTrace(n, T) => TrueTrace(m, T)
  BY <1>1 DEF TrueTrace
<1>9. \A x : TrueSubmit(n, x) => TrueSubmit(m, x)
  BY <1>2 DEF TrueSubmit
<1> QED
  BY <1>3, <1>4, <1>5, <1>6, <1>7, <1>8, <1>9

LEMMA GrownRefl == \A n : Grown(n, n)
  BY DEF Grown

\* The least of some numbers is one of them.
LEMMA MinOf ==
    ASSUME NEW S \in SUBSET Nat, S # {}
    PROVE  Min(S) \in S
<1>1. \E x \in S : \A y \in S : ~ (<<y, x>> \in OpToRel(<, Nat))
  BY NatLessThanWellFounded, WFMin
<1>2. PICK x \in S : \A y \in S : ~ (<<y, x>> \in OpToRel(<, Nat))
  BY <1>1
<1>3. ASSUME NEW y \in S, y < x PROVE FALSE
  <2> DEFINE pair == <<y, x>>
  <2>1. pair \in Nat \X Nat /\ pair[1] = y /\ pair[2] = x
    OBVIOUS
  <2>2. pair[1] < pair[2]
    BY <1>3, <2>1
  <2> HIDE DEF pair
  <2>3. pair \in OpToRel(<, Nat)
    BY <2>1, <2>2, Zenon DEF OpToRel
  <2> QED
    BY <1>2, <2>3, Zenon DEF pair
<1>4. \A y \in S : x =< y
  BY <1>3
<1> QED
  BY <1>4 DEF Min

-----------------------------------------------------------------------------
(* The ledger *)

\* With labels the id the ledger takes from a result is of an issue that has named
\* the ticket.
LEMMA RemoteTrue ==
    ASSUME NEW n, NEW result, NEW t \in Tickets, TrueResult(TRUE, n, result),
           RemoteId(result, t) # NoValue
    PROVE  NamedIn(n, RemoteId(result, t), t)
<1> DEFINE answers == {k \in DOMAIN result.items :
                          t = NoValue \/ result.items[k].ticket \in {NoValue, t}}
<1>1. /\ result # NoValue /\ result.direct = NoValue /\ TrueAnswers(n, result.items)
      /\ \A k \in DOMAIN result.items : result.items[k].ticket # NoValue
  BY DEF RemoteId, TrueResult
<1>2. answers # {} /\ RemoteId(result, t) = FirstIssue(result.items, answers)
  BY <1>1 DEF RemoteId
<1>3. answers \in SUBSET Nat
  BY <1>1 DEF TrueAnswers
<1>4. \A k \in answers : k \in DOMAIN result.items /\ result.items[k].ticket = t
  BY <1>1, SnapshotAssumption
<1> HIDE DEF answers
<1>5. Min(answers) \in answers
  BY <1>2, <1>3, MinOf
<1> QED
  BY <1>1, <1>2, <1>4, <1>5 DEF FirstIssue, TrueAnswers

\* What a command may record: an issue, wiki or pull request action of its own file.
Recordable(n, S, kind, target) ==
    \/ kind = "issue" /\ target = "issue_create" /\ TrueActions(n, S)
    \/ kind = "wiki" /\ target = "wiki_update" /\ \E body : S = {WikiAction(body)}
    \/ /\ kind = "pr" /\ target = "pr_linkage"
       /\ \E a \in PullActions : S = {a} /\ Linkable(n, a.issue, a.ticket)

LEMMA PullActionFields ==
    ASSUME NEW a \in PullActions
    PROVE  /\ a.op = PullOp /\ a.key[1] = a.issue /\ a.evidence = TRUE
           /\ OperationId(a) = <<PullOp, a.key>>
           /\ TargetTypeForAction("pr_linkage", a) = "pr_linkage"
<1>1. PICK i \in FixIssues, f \in FixOutcomes, t \in Tickets \cup {NoValue} : a = PrAction(i, f, t)
  BY DEF PullActions
<1>2. /\ a.op = PullOp /\ a.key = <<i, f.results>> /\ a.issue = i
      /\ a.evidence = (f.cases /\ f.results)
  BY <1>1 DEF PrAction, PullOp
<1>3. a.evidence
  BY DEF PullActions
<1>4. a.evidence = TRUE
  BY <1>2, <1>3
<1>5. TargetTypeForAction("pr_linkage", a) = "pr_linkage"
  BY <1>2 DEF TargetTypeForAction, PullOp
<1> QED
  BY <1>2, <1>4, <1>5 DEF OperationId

\* The entry made of an action is true, and one made of a pull request has its issue.
LEMMA EntryTrue ==
    ASSUME NEW b \in BOOLEAN, NEW n, NEW S, NEW kind, NEW target, NEW result, NEW a \in S,
           Recordable(n, S, kind, target),
           kind = "issue" /\ result # NoValue => TrueResult(b, n, result)
    PROVE  LET e == EntryFromAction(a, kind, target, result)
           IN  /\ TrueEntry(b, n, OperationId(a), e)
               /\ OperationId(a)[1] = PullOp =>
                     e.target = "pr_linkage" /\ e.issue = OperationId(a)[2][1]
<1> DEFINE e == EntryFromAction(a, kind, target, result)
<1>1. /\ DOMAIN e = {"target", "file", "ticket", "issue", "status", "remote"}
      /\ e.target = TargetTypeForAction(target, a) /\ e.file = kind
      /\ e.ticket = a.ticket /\ e.issue = a.issue /\ e.remote = RemoteId(result, a.ticket)
  BY DEF EntryFromAction
<1>2. OperationId(a) = <<a.op, a.key>>
  BY DEF OperationId
<1>3. CASE kind = "issue" /\ target = "issue_create" /\ TrueActions(n, S)
  <2>1. a.ticket \in Tickets /\ a.op \in {"gitea.issue.create", "gitea.issue.update"}
    BY <1>3 DEF TrueActions, TrueAction, Action
  <2>2. e.target \in {"issue_create", "issue_update"}
    BY <1>1, <1>3, <2>1 DEF TargetTypeForAction
  <2>3. b /\ e.remote # NoValue => NamedIn(n, e.remote, e.ticket)
    <3> SUFFICES ASSUME b, RemoteId(result, a.ticket) # NoValue
                 PROVE  NamedIn(n, RemoteId(result, a.ticket), a.ticket)
      BY <1>1
    <3>1. result # NoValue
      BY DEF RemoteId
    <3>2. TrueResult(TRUE, n, result)
      BY <1>3, <3>1 DEF TrueResult
    <3> QED
      BY <2>1, <3>2, RemoteTrue
  <2> HIDE DEF e
  <2> QED
    BY <1>1, <1>2, <1>3, <2>1, <2>2, <2>3 DEF TrueEntry, PullOp, e
<1>4. CASE kind = "wiki" /\ target = "wiki_update" /\ \E body : S = {WikiAction(body)}
  <2>1. a.op = "gitea.wiki.update_page"
    BY <1>4 DEF WikiAction
  <2>2. e.target = "wiki_update"
    BY <1>1, <1>4, <2>1 DEF TargetTypeForAction
  <2> HIDE DEF e
  <2> QED
    BY <1>1, <1>2, <2>1, <2>2 DEF TrueEntry, IssueTargets, PullOp, e
<1>5. CASE /\ kind = "pr" /\ target = "pr_linkage"
           /\ \E c \in PullActions : S = {c} /\ Linkable(n, c.issue, c.ticket)
  <2>1. a \in PullActions /\ Linkable(n, a.issue, a.ticket)
    BY <1>5
  <2>2. /\ OperationId(a) = <<PullOp, a.key>> /\ a.key[1] = a.issue
        /\ e.target = "pr_linkage" /\ e.issue = a.issue
    BY <1>1, <1>5, <2>1, PullActionFields
  <2> HIDE DEF e
  <2> QED
    BY <1>1, <2>1, <2>2 DEF TrueEntry, IssueTargets, e
<1> QED
  BY <1>3, <1>4, <1>5 DEF Recordable

\* No entry of a pull request is lost.
LinksKept(l, m) == \A j : PrLinks(l, j) # {} => PrLinks(m, j) # {}

\* Recording takes no issue's pull request entry away, although an entry of the same key
\* is replaced.
LEMMA RecordTrue ==
    ASSUME NEW b \in BOOLEAN, NEW n, NEW l, NEW S, NEW kind, NEW target, NEW result,
           TrueLedger(b, n, l), Recordable(n, S, kind, target),
           kind = "issue" /\ result # NoValue => TrueResult(b, n, result)
    PROVE  LET new == RecordRequest(l, S, kind, target, result)
           IN  /\ TrueLedger(b, n, new) /\ LinksKept(l, new)
               /\ \A a \in S \cap PullActions : PrLinks(new, a.issue) # {}
<1> DEFINE new == RecordRequest(l, S, kind, target, result)
<1>1. /\ DOMAIN new = DOMAIN l \cup {OperationId(a) : a \in S}
      /\ \A o \in DOMAIN new :
            \/ \E a \in S : OperationId(a) = o
                              /\ new[o] = EntryFromAction(a, kind, target, result)
            \/ o \in DOMAIN l /\ new[o] = l[o] /\ \A a \in S : OperationId(a) # o
  BY DEF RecordRequest
<1> HIDE DEF new
<1> DEFINE Sound(o, e) == /\ TrueEntry(b, n, o, e)
                          /\ o[1] = PullOp => e.target = "pr_linkage" /\ e.issue = o[2][1]
<1>6. \A a \in S : Sound(OperationId(a), EntryFromAction(a, kind, target, result))
  BY EntryTrue
<1> HIDE DEF Sound
<1>7. \A o \in DOMAIN new : Sound(o, new[o]) \/ (o \in DOMAIN l /\ new[o] = l[o])
  BY <1>1, <1>6
<1>2. \A o \in DOMAIN new :
         \/ /\ TrueEntry(b, n, o, new[o])
            /\ o[1] = PullOp => new[o].target = "pr_linkage" /\ new[o].issue = o[2][1]
         \/ o \in DOMAIN l /\ new[o] = l[o]
  BY <1>7 DEF Sound
<1>3. TrueLedger(b, n, new)
  BY <1>2 DEF TrueLedger
<1>4. ASSUME NEW j, PrLinks(l, j) # {} PROVE PrLinks(new, j) # {}
  <2>1. PICK o \in DOMAIN l : l[o].target = "pr_linkage" /\ l[o].issue = j
    BY <1>4 DEF PrLinks
  <2>2. o[1] = PullOp /\ o[2][1] = j
    BY <2>1 DEF TrueLedger, TrueEntry
  <2>3. o \in DOMAIN new /\ new[o].target = "pr_linkage" /\ new[o].issue = j
    BY <1>1, <1>2, <2>1, <2>2
  <2>4. o \in PrLinks(new, j)
    BY <2>3 DEF PrLinks
  <2> QED
    BY <2>4
<1>5. ASSUME NEW a \in S \cap PullActions PROVE PrLinks(new, a.issue) # {}
  <2>1. OperationId(a) = <<PullOp, a.key>> /\ a.key[1] = a.issue
    BY PullActionFields
  <2>2. PICK o \in DOMAIN new : o = OperationId(a)
    BY <1>1
  <2>3. o[1] = PullOp /\ o[2][1] = a.issue
    BY <2>1, <2>2
  <2>4. PICK c \in S : OperationId(c) = o /\ new[o] = EntryFromAction(c, kind, target, result)
    BY <1>1, <2>2
  <2>7. Sound(o, new[o])
    BY <1>6, <2>4
  <2>5. new[o].target = "pr_linkage" /\ new[o].issue = a.issue
    BY <2>3, <2>7 DEF Sound
  <2>6. o \in PrLinks(new, a.issue)
    BY <2>5 DEF PrLinks
  <2> QED
    BY <2>6
<1> QED
  BY <1>3, <1>4, <1>5 DEF new, LinksKept

\* Reconciliation changes answers, never what an entry is about.
LEMMA ReconcileTrue ==
    ASSUME NEW b \in BOOLEAN, NEW n, NEW l, TrueLedger(b, n, l),
           issueResult # NoValue => TrueResult(b, n, issueResult)
    PROVE  TrueLedger(b, n, Reconcile(l)) /\ LinksKept(l, Reconcile(l))
<1> DEFINE new == Reconcile(l)
<1>1. DOMAIN new = DOMAIN l
  BY DEF Reconcile
<1>2. ASSUME NEW o \in DOMAIN l
      PROVE  /\ TrueEntry(b, n, o, new[o])
             /\ new[o].target = l[o].target /\ new[o].issue = l[o].issue
  <2>1. TrueEntry(b, n, o, l[o])
    BY DEF TrueLedger
  <2>2. /\ DOMAIN new[o] = DOMAIN l[o]
        /\ new[o].target = l[o].target /\ new[o].issue = l[o].issue
        /\ new[o].file = l[o].file /\ new[o].ticket = l[o].ticket
        /\ new[o].remote = RemoteId(ResultOf(l[o].file), l[o].ticket)
    BY <2>1 DEF Reconcile, TrueEntry
  <2> HIDE DEF new
  <2>3. ASSUME l[o].target \in IssueTargets, b, new[o].remote # NoValue
        PROVE  NamedIn(n, new[o].remote, l[o].ticket)
    <3>1. l[o].ticket \in Tickets /\ ResultOf(l[o].file) = issueResult
      BY <2>1, <2>3 DEF TrueEntry, ResultOf
    <3>2. issueResult # NoValue
      BY <2>2, <2>3, <3>1 DEF RemoteId
    <3>3. TrueResult(TRUE, n, issueResult)
      BY <2>3, <3>2 DEF TrueResult
    <3> QED
      BY <2>2, <2>3, <3>1, <3>3, RemoteTrue
  <2> QED
    BY <2>1, <2>2, <2>3 DEF TrueEntry
<1> HIDE DEF new
<1>3. TrueLedger(b, n, new)
  BY <1>1, <1>2 DEF TrueLedger
<1>4. LinksKept(l, new)
  BY <1>1, <1>2 DEF LinksKept, PrLinks
<1> QED
  BY <1>3, <1>4 DEF new


-----------------------------------------------------------------------------
(* Everything written down is true *)

Trackers ==
    /\ labelled \in BOOLEAN
    /\ redmine \in [Tickets -> Nat]
    /\ gitea \in Seq(Issue) /\ named \in Seq(SUBSET Tickets) /\ Len(named) = Len(gitea)
    /\ Reading(named, gitea)
    /\ manifest # NoValue =>
          manifest.ids \subseteq Tickets /\ \A t \in manifest.ids : manifest.text[t] \in Nat

Readings ==
    /\ fetched # NoValue => Reading(named, fetched)
    /\ Reading(named, snapshot)
    /\ tracer.phase # "idle" => Reading(named, tracer.items)

Work ==
    /\ TrueActions(named, issueRequest)
    /\ importer # NoValue => TrueActions(named, importer)
    /\ session # NoValue =>
          /\ TrueActions(named, session.todo) /\ TrueAnswers(named, session.done)
          /\ \A k \in DOMAIN session.done : session.done[k].ticket # NoValue
    /\ issueResult # NoValue => TrueResult(labelled, named, issueResult)

Ledgers ==
    /\ TrueLedger(labelled, named, writeLedger)
    /\ copies \in [Clerks -> {copies[c] : c \in Clerks}]
    /\ \A c \in Clerks : copies[c] # NoValue => TrueLedger(labelled, named, copies[c])

Submits ==
    /\ submitting \in [Submitters -> {submitting[s] : s \in Submitters}]
    /\ \A s \in Submitters : submitting[s] # NoValue => TrueSubmit(named, submitting[s])

TruthInv ==
    /\ Trackers /\ Readings /\ Work /\ Ledgers /\ Submits /\ MirrorsKept
    /\ labelled => TrueTrace(named, trace)

LEMMA TruthInit == HandoffInit => TruthInv
<1> SUFFICES ASSUME HandoffInit PROVE TruthInv
  OBVIOUS
<1>1. /\ LedgerInit /\ IssueInit /\ DeliveryInit
  BY DEF HandoffInit
<1>2. Trackers /\ Readings
  BY <1>1 DEF IssueInit, Trackers, Readings, Reading, Idle
<1>3. Work
  BY <1>1 DEF IssueInit, LedgerInit, Work, TrueActions
<1>4. Ledgers
  BY <1>1 DEF LedgerInit, Ledgers, TrueLedger
<1>5. Submits
  BY <1>1 DEF DeliveryInit, Submits
<1>6. TrueTrace(named, trace)
  BY <1>1 DEF IssueInit, TrueTrace
<1> QED
  BY <1>1, <1>2, <1>3, <1>4, <1>5, <1>6, MirrorsInit DEF TruthInv

LEMMA NamesTyped == \A x \in Issue : Names(x) \subseteq Tickets /\ NoValue \notin Names(x)
  BY SnapshotAssumption DEF Issue, Names

\* Which steps touch the trackers.
LEMMA TrackerSteps ==
    ASSUME IssueNext
    PROVE  /\ labelled' = labelled
           /\ \/ UNCHANGED <<redmine, gitea, named>>
              \/ \E t \in Tickets : EditTicket(t) \/ OpenByHand(t)
              \/ \E i \in DOMAIN gitea : CloseIssue(i)
              \/ session # NoValue /\ \E a \in session.todo : WriteIssue(a)
           /\ \/ manifest' = manifest
              \/ \E ids \in SUBSET Tickets : \E fault : FetchTickets(ids, fault)
<1>1. ASSUME NEW t \in Tickets, EditTicket(t) \/ OpenByHand(t)
      PROVE  labelled' = labelled /\ manifest' = manifest
  BY <1>1 DEF EditTicket, OpenByHand, People, Fixed, readings
<1>2. ASSUME NEW i \in DOMAIN gitea, CloseIssue(i)
      PROVE  labelled' = labelled /\ manifest' = manifest
  BY <1>2 DEF CloseIssue, People, Fixed, readings
<1>3. ASSUME NEW ids, NEW fault, FetchTickets(ids, fault)
      PROVE  labelled' = labelled /\ UNCHANGED <<redmine, gitea, named>>
  BY <1>3 DEF FetchTickets, Fixed, trackers
<1>4. ASSUME NEW a, WriteIssue(a)
      PROVE  labelled' = labelled /\ manifest' = manifest
  BY <1>4 DEF WriteIssue, Fixed
<1>5. ASSUME \/ FetchIssues \/ \E asked : SyncRedmineIssues(asked)
             \/ ImporterLoads \/ ImporterStores \/ TakeIssueRequest \/ ReportIssues \/ IssueCrash
      PROVE  UNCHANGED <<labelled, trackers, manifest>>
  BY <1>5 DEF FetchIssues, SyncRedmineIssues, ImporterLoads, ImporterStores, TakeIssueRequest,
     ReportIssues, IssueCrash, Fixed, readings
<1>6. ASSUME \/ SyncIssues \/ ArchiveMirror \/ UnlinkMirror \/ WriteMirrors \/ IssuesStatus
             \/ TracerLoads \/ TracerReconciles \/ WriteTrace
      PROVE  UNCHANGED <<labelled, trackers, manifest>>
  BY <1>6 DEF SyncIssues, ArchiveMirror, UnlinkMirror, WriteMirrors, IssuesStatus, TracerLoads,
     TracerReconciles, WriteTrace, Tracing, Fixed, readings
<1> QED
  BY <1>1, <1>2, <1>3, <1>4, <1>5, <1>6 DEF IssueNext, trackers

\* What a write by Hermes does to the issues and to what they have named.
LEMMA WrittenIssue ==
    ASSUME Trackers, NEW a, TrueAction(named, a), WriteIssue(a)
    PROVE  \E at \in Nat :
              /\ at = (IF a.op = "gitea.issue.create" THEN Len(gitea) + 1 ELSE a.issue)
              /\ gitea' \in Seq(Issue) /\ named' \in Seq(SUBSET Tickets)
              /\ Len(named') = Len(gitea') /\ Reading(named', gitea') /\ Grown(named, named')
              /\ NamedIn(named', at, a.ticket)
              /\ session'.todo = session.todo \ {a}
              /\ session'.done = Append(session.done, [ticket |-> a.ticket, issue |-> at])
<1> DEFINE new == [open |-> TRUE, ticket |-> a.ticket, text |-> a.text]
           at == IF a.op = "gitea.issue.create" THEN Len(gitea) + 1 ELSE a.issue
<1>1. /\ IF at > Len(gitea)
         THEN gitea' = Append(gitea, new) /\ named' = Append(named, Names(new))
         ELSE /\ gitea' = [gitea EXCEPT ![at] = [new EXCEPT !.open = gitea[at].open]]
              /\ named' = [named EXCEPT ![at] = @ \cup Names(new)]
      /\ session' = [todo |-> session.todo \ {a},
                     done |-> Append(session.done, [ticket |-> a.ticket, issue |-> at])]
  BY DEF WriteIssue
<1>2. a.ticket \in Tickets /\ new \in Issue /\ a.op \in {"gitea.issue.create", "gitea.issue.update"}
  BY DEF TrueAction, Action, Issue
<1>3. a.ticket \in Names(new) /\ Names(new) \subseteq Tickets
  BY <1>2, NamesTyped, SnapshotAssumption DEF Names
<1>4. /\ gitea \in Seq(Issue) /\ named \in Seq(SUBSET Tickets) /\ Len(named) = Len(gitea)
      /\ DOMAIN named = DOMAIN gitea /\ Reading(named, gitea)
  BY DEF Trackers
<1>5. at \in Nat /\ at >= 1 /\ (at > Len(gitea) => at = Len(gitea) + 1)
  BY <1>2, <1>4 DEF TrueAction
<1> HIDE DEF new
<1>6. CASE at > Len(gitea)
  <2>1. at = Len(gitea) + 1 /\ gitea' = Append(gitea, new) /\ named' = Append(named, Names(new))
    BY <1>1, <1>5, <1>6
  <2> HIDE DEF at
  <2>2. gitea' \in Seq(Issue) /\ named' \in Seq(SUBSET Tickets) /\ Len(named') = Len(gitea')
    BY <1>2, <1>3, <1>4, <2>1
  <2>3. \A i \in DOMAIN gitea : gitea'[i] = gitea[i] /\ named'[i] = named[i] /\ i \in DOMAIN named'
    BY <1>2, <1>3, <1>4, <2>1
  <2>4. at \in DOMAIN named' /\ gitea'[at] = new /\ named'[at] = Names(new)
    BY <1>2, <1>3, <1>4, <2>1
  <2>5. DOMAIN gitea' = DOMAIN gitea \cup {at}
    BY <1>2, <1>4, <2>1
  <2>6. Grown(named, named') /\ NamedIn(named', at, a.ticket)
    BY <1>3, <1>4, <2>3, <2>4 DEF Grown, NamedIn
  <2>7. Reading(named', gitea')
    BY <1>2, <1>4, <2>3, <2>4, <2>5 DEF Reading
  <2> QED
    BY <1>1, <1>5, <2>2, <2>6, <2>7 DEF at
<1>7. CASE ~ (at > Len(gitea))
  <2> DEFINE x == [new EXCEPT !.open = gitea[at].open]
  <2>1. /\ at \in DOMAIN gitea /\ gitea' = [gitea EXCEPT ![at] = x]
        /\ named' = [named EXCEPT ![at] = named[at] \cup Names(new)]
    BY <1>1, <1>4, <1>5, <1>7
  <2>8. gitea[at] \in Issue
    BY <1>4, <2>1
  <2>9. gitea[at].open \in BOOLEAN
    BY <2>8 DEF Issue
  <2>2. x \in Issue /\ x.ticket = new.ticket /\ x.text = new.text
    BY <1>2, <2>9 DEF Issue
  <2>3. Names(x) = Names(new)
    BY <2>2 DEF Names
  <2> HIDE DEF at, x
  <2>4. gitea' \in Seq(Issue) /\ named' \in Seq(SUBSET Tickets) /\ Len(named') = Len(gitea')
    BY <1>3, <1>4, <2>1, <2>2
  <2>5. /\ DOMAIN gitea' = DOMAIN gitea /\ DOMAIN named' = DOMAIN named
        /\ gitea'[at] = x /\ named'[at] = named[at] \cup Names(new)
        /\ \A i \in DOMAIN gitea : i # at => gitea'[i] = gitea[i] /\ named'[i] = named[i]
    BY <1>4, <2>1
  <2>6. Grown(named, named') /\ NamedIn(named', at, a.ticket)
    BY <1>3, <1>4, <2>1, <2>5 DEF Grown, NamedIn
  <2>7. Reading(named', gitea')
    BY <1>4, <2>2, <2>3, <2>5 DEF Reading
  <2> QED
    BY <1>1, <1>5, <2>4, <2>6, <2>7 DEF at
<1> QED
  BY <1>6, <1>7

\* The trackers keep their shape and issues only come to name more.
LEMMA TrackersStep ==
    ASSUME TruthInv, IssueNext
    PROVE  Trackers' /\ Grown(named, named')
<1>1. Trackers /\ Work /\ labelled' = labelled
  BY TrackerSteps DEF TruthInv
<1>2. (manifest # NoValue =>
          manifest.ids \subseteq Tickets /\ \A t \in manifest.ids : manifest.text[t] \in Nat)'
  <2>1. CASE manifest' = manifest
    BY <1>1, <2>1 DEF Trackers
  <2>2. ASSUME NEW ids \in SUBSET Tickets, NEW fault, FetchTickets(ids, fault)
        PROVE  (manifest # NoValue =>
          manifest.ids \subseteq Tickets /\ \A t \in manifest.ids : manifest.text[t] \in Nat)'
    BY <1>1, <2>2 DEF FetchTickets, Trackers
  <2> QED
    BY <2>1, <2>2, TrackerSteps
<1> DEFINE Kept ==
      /\ redmine' \in [Tickets -> Nat] /\ gitea' \in Seq(Issue)
      /\ named' \in Seq(SUBSET Tickets) /\ Len(named') = Len(gitea')
      /\ Reading(named', gitea') /\ Grown(named, named')
<1>3. ASSUME UNCHANGED <<redmine, gitea, named>> PROVE Kept
  <2>1. Grown(named, named')
    BY <1>3, GrownRefl
  <2>2. redmine' = redmine /\ gitea' = gitea /\ named' = named
    BY <1>3
  <2>3. Trackers'
    BY <1>1, <1>2, <2>2 DEF Trackers, Reading
  <2> QED
    BY <2>1, <2>3 DEF Trackers
<1>4. ASSUME NEW t \in Tickets, EditTicket(t) PROVE Kept
  BY <1>1, <1>4, GrownRefl DEF EditTicket, Trackers
<1>5. ASSUME NEW t \in Tickets, OpenByHand(t) PROVE Kept
  <2> DEFINE new == [open |-> TRUE, ticket |-> NoValue, text |-> <<t, redmine[t]>>]
  <2>1. /\ gitea' = Append(gitea, new) /\ named' = Append(named, Names(new)) /\ redmine' = redmine
    BY <1>5 DEF OpenByHand
  <2>2. new \in Issue
    BY <1>1 DEF Issue, Texts, Trackers
  <2>3. Names(new) \subseteq Tickets
    BY <2>2, NamesTyped
  <2> HIDE DEF new
  <2>4. gitea' \in Seq(Issue) /\ named' \in Seq(SUBSET Tickets) /\ Len(named') = Len(gitea')
    BY <1>1, <2>1, <2>2, <2>3 DEF Trackers
  <2>5. /\ DOMAIN gitea' = DOMAIN gitea \cup {Len(gitea) + 1} /\ DOMAIN named' = DOMAIN gitea'
        /\ gitea'[Len(gitea) + 1] = new /\ named'[Len(gitea) + 1] = Names(new)
        /\ DOMAIN named = DOMAIN gitea
        /\ \A i \in DOMAIN gitea : gitea'[i] = gitea[i] /\ named'[i] = named[i]
    BY <1>1, <2>1, <2>2, <2>3 DEF Trackers
  <2>6. Grown(named, named')
    BY <2>5 DEF Grown
  <2>7. Reading(named', gitea')
    BY <1>1, <2>2, <2>5 DEF Reading, Trackers
  <2> QED
    BY <1>1, <2>1, <2>4, <2>6, <2>7 DEF Trackers
<1>6. ASSUME NEW i \in DOMAIN gitea, CloseIssue(i) PROVE Kept
  <2>1. /\ gitea' = [gitea EXCEPT ![i].open = FALSE] /\ UNCHANGED <<redmine, named>>
        /\ gitea \in Seq(Issue)
    BY <1>1, <1>6 DEF CloseIssue, Trackers
  <2>2. DOMAIN gitea' = DOMAIN gitea /\ Len(gitea') = Len(gitea)
    BY <2>1
  <2>8. gitea[i] \in Issue
    BY <2>1
  <2>9. /\ [gitea[i] EXCEPT !.open = FALSE] \in Issue
        /\ [gitea[i] EXCEPT !.open = FALSE].ticket = gitea[i].ticket
        /\ [gitea[i] EXCEPT !.open = FALSE].text = gitea[i].text
    BY <2>8 DEF Issue
  <2>10. gitea' = [gitea EXCEPT ![i] = [gitea[i] EXCEPT !.open = FALSE]]
    BY <2>1
  <2>3. \A j \in DOMAIN gitea :
           gitea'[j] \in Issue /\ gitea'[j].ticket = gitea[j].ticket /\ gitea'[j].text = gitea[j].text
    BY <2>1, <2>9, <2>10
  <2>4. gitea' \in Seq(Issue)
    BY <2>1, <2>9, <2>10
  <2>5. \A j \in DOMAIN gitea : Names(gitea'[j]) = Names(gitea[j])
    BY <2>3 DEF Names
  <2> QED
    BY <1>1, <2>1, <2>2, <2>3, <2>4, <2>5, GrownRefl DEF Trackers, Reading
<1>7. ASSUME session # NoValue, NEW a \in session.todo, WriteIssue(a) PROVE Kept
  <2>1. TrueAction(named, a)
    BY <1>1, <1>7 DEF Work, TrueActions
  <2>2. redmine' = redmine
    BY <1>7 DEF WriteIssue
  <2> QED
    BY <1>1, <1>7, <2>1, <2>2, WrittenIssue DEF Trackers
<1> HIDE DEF Kept
<1>9. \/ UNCHANGED <<redmine, gitea, named>>
      \/ \E t \in Tickets : EditTicket(t) \/ OpenByHand(t)
      \/ \E i \in DOMAIN gitea : CloseIssue(i)
      \/ session # NoValue /\ \E a \in session.todo : WriteIssue(a)
  BY TrackerSteps
<1>8. Kept
  BY <1>3, <1>4, <1>5, <1>6, <1>7, <1>9
<1> QED
  BY <1>1, <1>2, <1>8 DEF Trackers, Kept

LEMMA ReadingSteps ==
    ASSUME IssueNext
    PROVE  /\ fetched' = fetched \/ fetched' = gitea
           /\ snapshot' = snapshot \/ (tracer.phase = "trace" /\ snapshot' = tracer.items)
           /\ \/ tracer' = tracer \/ tracer' = Idle
              \/ \E p : tracer.phase \in {"archive", "unlink", "reconcile"}
                           /\ tracer' = [tracer EXCEPT !.phase = p]
              \/ fetched # NoValue /\ tracer'.items = OpenItems(fetched)
              \/ tracer'.items = snapshot
<1>1. ASSUME \/ \E t \in Tickets : EditTicket(t) \/ OpenByHand(t)
             \/ \E i \in DOMAIN gitea : CloseIssue(i)
             \/ \E ids, fault : FetchTickets(ids, fault)
      PROVE  UNCHANGED <<fetched, snapshot, tracer>>
  BY <1>1 DEF EditTicket, OpenByHand, CloseIssue, People, FetchTickets, readings, records, actors
<1>2. FetchIssues => fetched' = gitea /\ UNCHANGED <<snapshot, tracer>>
  BY DEF FetchIssues, records, actors
<1>3. ASSUME \/ \E asked : SyncRedmineIssues(asked)
             \/ ImporterLoads \/ ImporterStores \/ TakeIssueRequest \/ ReportIssues
             \/ \E a : WriteIssue(a)
      PROVE  UNCHANGED <<fetched, snapshot, tracer>>
  BY <1>3 DEF SyncRedmineIssues, ImporterLoads, ImporterStores, TakeIssueRequest, ReportIssues,
     WriteIssue, readings, records, actors
<1>4. SyncIssues => fetched # NoValue /\ tracer'.items = OpenItems(fetched)
                       /\ UNCHANGED <<fetched, snapshot>>
  BY DEF SyncIssues, readings, records
<1>5. IssuesStatus => tracer'.items = snapshot /\ UNCHANGED <<fetched, snapshot>>
  BY DEF IssuesStatus, readings, records
<1>6. ASSUME ArchiveMirror \/ UnlinkMirror \/ WriteMirrors \/ TracerReconciles
      PROVE  /\ UNCHANGED <<fetched, snapshot>>
             /\ \E p : tracer.phase \in {"archive", "unlink", "reconcile"}
                          /\ tracer' = [tracer EXCEPT !.phase = p]
  BY <1>6 DEF ArchiveMirror, UnlinkMirror, WriteMirrors, TracerReconciles, Tracing, records
<1>7. TracerLoads => UNCHANGED <<fetched, snapshot, tracer>>
  BY DEF TracerLoads, Tracing, records
<1>8. ASSUME WriteTrace
      PROVE  /\ fetched' = fetched /\ tracer' = Idle
             /\ snapshot' = snapshot \/ (tracer.phase = "trace" /\ snapshot' = tracer.items)
  <2>1. fetched' = fetched /\ tracer' = Idle /\ tracer.phase = "trace"
    BY <1>8 DEF WriteTrace, Tracing
  <2>2. CASE tracer.save
    BY <1>8, <2>1, <2>2 DEF WriteTrace
  <2>3. CASE ~ tracer.save
    BY <1>8, <2>1, <2>3 DEF WriteTrace
  <2> QED
    BY <2>2, <2>3
<1>9. IssueCrash => UNCHANGED <<fetched, snapshot>> /\ (tracer' = tracer \/ tracer' = Idle)
  BY DEF IssueCrash, readings, records
<1> DEFINE Moved ==
      /\ fetched' = fetched \/ fetched' = gitea
      /\ snapshot' = snapshot \/ (tracer.phase = "trace" /\ snapshot' = tracer.items)
      /\ \/ tracer' = tracer \/ tracer' = Idle
         \/ \E p : tracer.phase \in {"archive", "unlink", "reconcile"}
                      /\ tracer' = [tracer EXCEPT !.phase = p]
         \/ fetched # NoValue /\ tracer'.items = OpenItems(fetched)
         \/ tracer'.items = snapshot
<1>10. UNCHANGED <<fetched, snapshot, tracer>> => Moved
  OBVIOUS
<1>11. FetchIssues \/ SyncIssues \/ IssuesStatus \/ WriteTrace \/ IssueCrash => Moved
  BY <1>2, <1>4, <1>5, <1>8, <1>9
<1>12. ArchiveMirror \/ UnlinkMirror \/ WriteMirrors \/ TracerReconciles => Moved
  BY <1>6
<1> HIDE DEF Moved
<1>13. Moved
  BY <1>1, <1>3, <1>7, <1>10, <1>11, <1>12 DEF IssueNext
<1> QED
  BY <1>13 DEF Moved

LEMMA ReadingsStep ==
    ASSUME TruthInv, IssueNext
    PROVE  Readings'
<1>1. /\ Readings /\ Reading(named, gitea) /\ MirrorsKept
      /\ \A f : Reading(named, f) => Reading(named', f)
  BY TrackersStep, GrownTrue DEF TruthInv, Trackers
<1>2. \A f : Reading(named, f) => Reading(named, OpenItems(f))
  BY DEF Reading, OpenItems
<1>3. (fetched # NoValue => Reading(named, fetched))' /\ Reading(named', snapshot')
  BY <1>1, ReadingSteps DEF Readings
<1>4. (tracer.phase # "idle" => Reading(named, tracer.items))'
  <2>1. CASE tracer' = tracer
    BY <1>1, <2>1 DEF Readings
  <2>2. CASE tracer' = Idle
    BY <2>2 DEF Idle
  <2>3. ASSUME NEW p, tracer.phase \in {"archive", "unlink", "reconcile"},
               tracer' = [tracer EXCEPT !.phase = p]
        PROVE  Reading(named', tracer'.items)
    <3>1. DOMAIN tracer = {"phase", "raw", "items", "save", "current"}
      BY <1>1, <2>3 DEF MirrorsKept
    <3>2. tracer'.items = tracer.items
      BY <2>3, <3>1
    <3> QED
      BY <1>1, <2>3, <3>2 DEF Readings
  <2>4. CASE fetched # NoValue /\ tracer'.items = OpenItems(fetched)
    BY <1>1, <1>2, <2>4 DEF Readings
  <2>5. CASE tracer'.items = snapshot
    BY <1>1, <2>5 DEF Readings
  <2> QED
    BY <2>1, <2>2, <2>3, <2>4, <2>5, ReadingSteps
<1> QED
  BY <1>3, <1>4 DEF Readings

\* An issue the import finds is one that exists.
LEMMA FoundIssue ==
    ASSUME TruthInv, NEW t \in Tickets, NEW v \in Nat
    PROVE  /\ FindExistingIssue(t, v) = NoIssue \/ FindExistingIssue(t, v).issue \in DOMAIN named
           /\ NoIssue.issue = NoValue
<1>1. /\ issueResult # NoValue => TrueAnswers(named, issueResult.items)
      /\ Reading(named, snapshot) /\ named \in Seq(SUBSET Tickets)
  BY DEF TruthInv, Work, TrueResult, Readings, Trackers
<1>2. DOMAIN snapshot \subseteq Nat /\ DOMAIN named \subseteq Nat
  BY <1>1 DEF Reading
<1>3. CASE Linked(t) # {}
  <2>1. issueResult # NoValue
    BY <1>3 DEF Linked
  <2>2. /\ Linked(t) \in SUBSET Nat
        /\ \A k \in Linked(t) : k \in DOMAIN issueResult.items /\ issueResult.items[k].ticket = t
    BY <1>1, <2>1 DEF Linked, TrueAnswers
  <2>3. Min(Linked(t)) \in Linked(t)
    BY <1>3, <2>2, MinOf
  <2>4. FindExistingIssue(t, v).issue = issueResult.items[Min(Linked(t))].issue
    BY <1>3 DEF FindExistingIssue, FirstIssue
  <2> QED
    BY <1>1, <2>1, <2>2, <2>3, <2>4, SnapshotAssumption DEF TrueAnswers, NamedIn, NoIssue
<1>4. CASE Linked(t) = {} /\ Marked(t) # {}
  <2>1. Marked(t) \in SUBSET Nat /\ Marked(t) \subseteq DOMAIN snapshot
    BY <1>2 DEF Marked
  <2>2. Min(Marked(t)) \in DOMAIN snapshot
    BY <1>4, <2>1, MinOf
  <2>3. FindExistingIssue(t, v).issue = Min(Marked(t))
    BY <1>4 DEF FindExistingIssue
  <2> QED
    BY <1>1, <2>2, <2>3 DEF Reading, NoIssue
<1>5. CASE Linked(t) = {} /\ Marked(t) = {} /\ Pasted(t, v) # {}
  <2>1. Pasted(t, v) \in SUBSET Nat /\ Pasted(t, v) \subseteq DOMAIN snapshot
    BY <1>2 DEF Pasted
  <2>2. Min(Pasted(t, v)) \in DOMAIN snapshot
    BY <1>5, <2>1, MinOf
  <2>3. FindExistingIssue(t, v).issue = Min(Pasted(t, v))
    BY <1>5 DEF FindExistingIssue
  <2> QED
    BY <1>1, <2>2, <2>3 DEF Reading, NoIssue
<1>6. CASE Linked(t) = {} /\ Marked(t) = {} /\ Pasted(t, v) = {}
  BY <1>6 DEF FindExistingIssue, NoIssue
<1> QED
  BY <1>3, <1>4, <1>5, <1>6

LEMMA RequestedTrue ==
    ASSUME TruthInv, NEW asked \in SUBSET Tickets, manifest # NoValue, asked \subseteq manifest.ids
    PROVE  TrueActions(named, RequestedActions(asked))
<1> SUFFICES ASSUME NEW t \in asked, Candidate(t, manifest.text[t]).op # "link"
             PROVE  TrueAction(named, Candidate(t, manifest.text[t]))
  BY DEF TrueActions, RequestedActions
<1> DEFINE v == manifest.text[t]
           found == FindExistingIssue(t, v)
           c == Candidate(t, v)
<1>1. t \in Tickets /\ v \in Nat
  BY DEF TruthInv, Trackers
<1>2. /\ found = NoIssue \/ found.issue \in DOMAIN named
      /\ NoIssue.issue = NoValue
  BY <1>1, FoundIssue
<1>3. /\ c.ticket = t /\ c.text = <<t, v>> /\ c.issue = found.issue /\ c.key = <<t, v>>
      /\ DOMAIN c = {"op", "ticket", "text", "issue", "key"}
      /\ c.op = IF found = NoIssue THEN "gitea.issue.create"
                ELSE IF NeedsUpdate(found, t, v) THEN "gitea.issue.update" ELSE "link"
      /\ c = [op |-> c.op, ticket |-> t, text |-> <<t, v>>, issue |-> found.issue,
              key |-> <<t, v>>]
  BY DEF Candidate
<1>4. c.op \in {"gitea.issue.create", "gitea.issue.update"}
  BY <1>3
<1>5. found.issue \in Nat \cup {NoValue}
  BY <1>2 DEF TruthInv, Trackers
<1>6. c.op = "gitea.issue.create" <=> found = NoIssue
  BY <1>3
<1> HIDE DEF c, found, v
<1>7. c \in Action
  BY <1>1, <1>3, <1>4, <1>5 DEF Action, Texts
<1> QED
  BY <1>2, <1>3, <1>6, <1>7 DEF TrueAction, c, v

LEMMA WorkSteps ==
    ASSUME IssueNext
    PROVE  /\ \/ issueRequest' = issueRequest /\ importer' \in {importer, NoValue}
              \/ \E asked \in SUBSET Tickets : SyncRedmineIssues(asked)
           /\ \/ session' = session
              \/ session' = NoValue
              \/ TakeIssueRequest
              \/ session # NoValue /\ \E a \in session.todo : WriteIssue(a)
           /\ issueResult' = issueResult \/ ReportIssues
<1> DEFINE Kept == UNCHANGED <<issueRequest, importer, session, issueResult>>
<1>1. ASSUME \/ \E t \in Tickets : EditTicket(t) \/ OpenByHand(t)
             \/ \E i \in DOMAIN gitea : CloseIssue(i)
             \/ \E ids, fault : FetchTickets(ids, fault)
             \/ FetchIssues \/ ImporterLoads
      PROVE  Kept
  BY <1>1 DEF EditTicket, OpenByHand, CloseIssue, People, FetchTickets, FetchIssues,
     ImporterLoads, actors, requests
<1>2. ASSUME \/ SyncIssues \/ ArchiveMirror \/ UnlinkMirror \/ WriteMirrors \/ IssuesStatus
             \/ TracerLoads \/ TracerReconciles \/ WriteTrace
      PROVE  Kept
  BY <1>2 DEF SyncIssues, ArchiveMirror, UnlinkMirror, WriteMirrors, IssuesStatus, TracerLoads,
     TracerReconciles, WriteTrace, Tracing, requests
<1>3. ASSUME NEW asked, SyncRedmineIssues(asked)
      PROVE  UNCHANGED <<session, issueResult>>
  BY <1>3 DEF SyncRedmineIssues
<1>4. ImporterStores => UNCHANGED <<issueRequest, session, issueResult>> /\ importer' = NoValue
  BY DEF ImporterStores, requests
<1>5. TakeIssueRequest => UNCHANGED <<issueRequest, importer, issueResult>>
  BY DEF TakeIssueRequest
<1>6. ASSUME NEW a, WriteIssue(a) PROVE UNCHANGED <<issueRequest, importer, issueResult>>
  BY <1>6 DEF WriteIssue, requests
<1>7. ReportIssues => UNCHANGED <<issueRequest, importer>> /\ session' = NoValue
  BY DEF ReportIssues, requests
<1>8. ASSUME IssueCrash
      PROVE  /\ UNCHANGED <<issueRequest, issueResult>> /\ importer' \in {importer, NoValue}
             /\ session' = session \/ session' = NoValue
  BY <1>8 DEF IssueCrash, requests
<1> DEFINE Moved ==
      /\ \/ issueRequest' = issueRequest /\ importer' \in {importer, NoValue}
         \/ \E asked \in SUBSET Tickets : SyncRedmineIssues(asked)
      /\ \/ session' = session
         \/ session' = NoValue
         \/ TakeIssueRequest
         \/ session # NoValue /\ \E a \in session.todo : WriteIssue(a)
      /\ issueResult' = issueResult \/ ReportIssues
<1>9. Kept => Moved
  OBVIOUS
<1>10. ASSUME NEW asked \in SUBSET Tickets, SyncRedmineIssues(asked) PROVE Moved
  BY <1>3, <1>10
<1>11. ImporterStores \/ TakeIssueRequest \/ ReportIssues \/ IssueCrash => Moved
  BY <1>4, <1>5, <1>7, <1>8
<1>12. ASSUME session # NoValue, NEW a \in session.todo, WriteIssue(a) PROVE Moved
  BY <1>6, <1>12
<1> HIDE DEF Moved, Kept
<1>13. Moved
  BY <1>1, <1>2, <1>9, <1>10, <1>11, <1>12 DEF IssueNext
<1> QED
  BY <1>13 DEF Moved

LEMMA WorkStep ==
    ASSUME TruthInv, IssueNext
    PROVE  Work'
<1>1. /\ Trackers /\ Work /\ Grown(named, named') /\ labelled' = labelled
  BY TrackersStep, TrackerSteps DEF TruthInv
<1>2. /\ \A S : TrueActions(named, S) => TrueActions(named', S)
      /\ \A S : TrueAnswers(named, S) => TrueAnswers(named', S)
      /\ \A b, r : TrueResult(b, named, r) => TrueResult(b, named', r)
  BY <1>1, GrownTrue
<1>3. TrueActions(named', issueRequest') /\ (importer' # NoValue => TrueActions(named', importer'))
  <2>1. CASE issueRequest' = issueRequest /\ importer' \in {importer, NoValue}
    BY <1>1, <1>2, <2>1 DEF Work
  <2>2. ASSUME NEW asked \in SUBSET Tickets, SyncRedmineIssues(asked)
        PROVE  TrueActions(named', issueRequest') /\ TrueActions(named', importer')
    <3>1. /\ manifest # NoValue /\ asked \subseteq manifest.ids
          /\ issueRequest' = RequestedActions(asked) /\ importer' = RequestedActions(asked)
      BY <2>2 DEF SyncRedmineIssues, ManifestAccepted
    <3> QED
      BY <1>2, <3>1, RequestedTrue
  <2> QED
    BY <2>1, <2>2, WorkSteps
<1> DEFINE Carried(s, n) ==
      s # NoValue =>
          /\ TrueActions(n, s.todo) /\ TrueAnswers(n, s.done)
          /\ \A k \in DOMAIN s.done : s.done[k].ticket # NoValue
<1>4. Carried(session', named')
  <2>1. ASSUME session' = session PROVE Carried(session', named')
    BY <1>1, <1>2, <2>1 DEF Work
  <2>2. ASSUME TakeIssueRequest PROVE Carried(session', named')
    <3>1. session' = [todo |-> issueRequest, done |-> <<>>]
      BY <2>2 DEF TakeIssueRequest
    <3>2. session'.todo = issueRequest /\ session'.done = <<>>
      BY <3>1
    <3>3. TrueAnswers(named', <<>>)
      BY DEF TrueAnswers
    <3> QED
      BY <1>1, <1>2, <3>2, <3>3 DEF Work
  <2>3. ASSUME session # NoValue, NEW a \in session.todo, WriteIssue(a)
        PROVE  Carried(session', named')
    <3>1. /\ TrueAction(named, a) /\ TrueActions(named', session.todo)
          /\ TrueAnswers(named', session.done) /\ session.done \in Seq(Answer)
          /\ \A k \in DOMAIN session.done : session.done[k].ticket # NoValue
      BY <1>1, <1>2, <2>3 DEF Work, TrueActions, TrueAnswers
    <3>2. PICK at \in Nat :
             /\ NamedIn(named', at, a.ticket) /\ session'.todo = session.todo \ {a}
             /\ session'.done = Append(session.done, [ticket |-> a.ticket, issue |-> at])
      BY <1>1, <2>3, <3>1, WrittenIssue
    <3>3. a.ticket \in Tickets
      BY <3>1 DEF TrueAction, Action
    <3> DEFINE x == [ticket |-> a.ticket, issue |-> at]
    <3>4. x \in Answer /\ x.ticket = a.ticket /\ x.issue = at
      BY <3>3 DEF Answer
    <3>5. session'.done = Append(session.done, x)
      BY <3>2
    <3> HIDE DEF x
    <3>6. /\ session'.done \in Seq(Answer)
          /\ \A k \in DOMAIN session'.done :
                session'.done[k] = x \/ (k \in DOMAIN session.done /\ session'.done[k] = session.done[k])
      BY <3>1, <3>4, <3>5
    <3>7. TrueAnswers(named', session'.done)
      BY <3>1, <3>2, <3>4, <3>6 DEF TrueAnswers
    <3> QED
      BY <3>1, <3>2, <3>3, <3>4, <3>6, <3>7, SnapshotAssumption DEF TrueActions
  <2> HIDE DEF Carried
  <2>4. ASSUME session' = NoValue PROVE Carried(session', named')
    BY <2>4 DEF Carried
  <2> QED
    BY <2>1, <2>2, <2>3, <2>4, WorkSteps
<1>5. issueResult' # NoValue => TrueResult(labelled', named', issueResult')
  <2>1. CASE issueResult' = issueResult
    BY <1>1, <1>2, <2>1 DEF Work
  <2>2. CASE ReportIssues
    <3>1. /\ session # NoValue
          /\ \E status : issueResult' \in Reports(session.done, status)
      BY <2>2 DEF ReportIssues
    <3>2. /\ TrueAnswers(named, session.done) /\ session.done \in Seq(Answer)
          /\ \A k \in DOMAIN session.done : session.done[k].ticket # NoValue
      BY <1>1, <3>1 DEF Work, TrueAnswers
    <3>3. TrueResult(labelled, named, issueResult')
      <4>1. CASE labelled
        BY <3>1, <3>2, <4>1 DEF Reports, TrueResult
      <4>2. CASE ~ labelled
        <5>1. TrueAnswers(named, <<>>)
          BY DEF TrueAnswers
        <5>2. TrueAnswers(named, [k \in DOMAIN session.done |->
                                     [session.done[k] EXCEPT !.ticket = NoValue]])
          <6> DEFINE anon == [k \in DOMAIN session.done |->
                                [session.done[k] EXCEPT !.ticket = NoValue]]
          <6>1. \A x \in Answer : /\ [x EXCEPT !.ticket = NoValue] \in Answer
                                  /\ [x EXCEPT !.ticket = NoValue].ticket = NoValue
            BY DEF Answer
          <6>2. /\ anon \in Seq(Answer)
                /\ \A k \in DOMAIN anon : anon[k].ticket = NoValue
            BY <3>2, <6>1
          <6> QED
            BY <6>2 DEF TrueAnswers
        <5> QED
          BY <3>1, <4>2, <5>1, <5>2 DEF Reports, TrueResult
      <4> QED
        BY <4>1, <4>2
    <3> QED
      BY <1>1, <1>2, <3>3
  <2> QED
    BY <2>1, <2>2, WorkSteps
<1> QED
  BY <1>3, <1>4, <1>5 DEF Work

\* Which steps touch the ledger file.
LEMMA LedgerSteps ==
    ASSUME [HandoffNext]_handoffVars
    PROVE  \/ UNCHANGED ledgerFile
           \/ \E c \in Clerks : LoadLedger(c) \/ DropCopy(c) \/ StoreReconciled(c)
           \/ ImporterStores \/ ApplyStores \/ \E s \in Submitters : RecordLinkage(s)
<1> DEFINE Moved ==
      \/ UNCHANGED ledgerFile
      \/ \E c \in Clerks : LoadLedger(c) \/ DropCopy(c) \/ StoreReconciled(c)
      \/ ImporterStores \/ ApplyStores \/ \E s \in Submitters : RecordLinkage(s)
<1>1. /\ "import" \in Clerks /\ "trace" \in Clerks /\ "apply" \in Clerks /\ "status" \in Clerks
      /\ Submitters \subseteq Clerks
  BY DEF Clerks
<1>2. UNCHANGED ledgerVars => Moved
  BY DEF ledgerVars
<1>3. ASSUME IssueNext PROVE Moved
  <2>1. ASSUME \/ \E t \in Tickets : EditTicket(t) \/ OpenByHand(t)
               \/ \E i \in DOMAIN gitea : CloseIssue(i)
               \/ \E ids, fault : FetchTickets(ids, fault)
               \/ FetchIssues
        PROVE  UNCHANGED ledgerFile
    BY <2>1 DEF EditTicket, OpenByHand, CloseIssue, People, FetchTickets, FetchIssues
  <2>2. ASSUME \/ \E asked : SyncRedmineIssues(asked)
               \/ TakeIssueRequest \/ ReportIssues
               \/ \E a : WriteIssue(a)
        PROVE  UNCHANGED ledgerFile
    BY <2>2 DEF SyncRedmineIssues, TakeIssueRequest, ReportIssues, WriteIssue
  <2>3. ASSUME \/ SyncIssues \/ ArchiveMirror \/ UnlinkMirror \/ WriteMirrors \/ IssuesStatus
               \/ WriteTrace
        PROVE  UNCHANGED ledgerFile
    BY <2>3 DEF SyncIssues, ArchiveMirror, UnlinkMirror, WriteMirrors, IssuesStatus, WriteTrace
  <2>4. ImporterLoads => LoadLedger("import")
    BY DEF ImporterLoads
  <2>5. TracerLoads => LoadLedger("trace")
    BY DEF TracerLoads
  <2>6. TracerReconciles => StoreReconciled("trace")
    BY DEF TracerReconciles
  <2>7. IssueCrash => DropCopy("import") \/ DropCopy("trace") \/ UNCHANGED ledgerFile
    BY DEF IssueCrash
  <2>8. UNCHANGED ledgerFile => Moved
    OBVIOUS
  <2>9. ImporterLoads \/ ImporterStores \/ TracerLoads \/ TracerReconciles \/ IssueCrash => Moved
    BY <1>1, <2>4, <2>5, <2>6, <2>7
  <2> HIDE DEF Moved
  <2> QED
    BY <1>3, <2>1, <2>2, <2>3, <2>8, <2>9 DEF IssueNext
<1>4. ASSUME WikiNext PROVE Moved
  <2>1. ASSUME \/ \E outcome, listed : PlanWiki(outcome, listed)
               \/ \E outcome : RenderWiki(outcome)
               \/ \E listed : ApplyWiki(listed)
               \/ CompleteWiki \/ WikiStatus \/ TakeWikiRequest \/ WritePage \/ EndWikiSession
        PROVE  UNCHANGED ledgerFile
    BY <2>1 DEF PlanWiki, RenderWiki, ApplyWiki, CompleteWiki, WikiStatus, TakeWikiRequest,
       WritePage, EndWikiSession, ledgerVars
  <2>2. ApplyLoads => LoadLedger("apply")
    BY DEF ApplyLoads
  <2>3. StatusLoads => LoadLedger("status")
    BY DEF StatusLoads
  <2>4. StatusStores => StoreReconciled("status")
    BY DEF StatusStores
  <2>5. WikiDies => DropCopy("apply") \/ DropCopy("status")
    BY DEF WikiDies
  <2>6. UNCHANGED ledgerFile => Moved
    OBVIOUS
  <2>7. ApplyLoads \/ ApplyStores \/ StatusLoads \/ StatusStores \/ WikiDies => Moved
    BY <1>1, <2>2, <2>3, <2>4, <2>5
  <2> HIDE DEF Moved
  <2> QED
    BY <1>4, <2>1, <2>6, <2>7 DEF WikiNext
<1>5. ASSUME FixNext PROVE Moved
  <2>1. ASSUME \/ \E i, f, run : PlanFix(i, f, run)
               \/ \E s, i, f, t, remote : SubmitFixPr(s, i, f, t, remote)
               \/ \E exists, status : PlanFixCase(exists, status)
               \/ \E s : PushBranch(s) \/ CreatePull(s) \/ SavePull(s)
        PROVE  UNCHANGED ledgerFile
    BY <2>1 DEF PlanFix, SubmitFixPr, SubmitTo, PlanFixCase, PushBranch, CreatePull, SavePull,
       ledgerVars
  <2>2. UNCHANGED ledgerFile => Moved
    OBVIOUS
  <2>3. ASSUME NEW s \in Submitters,
               LoadLinkage(s) \/ RecordLinkage(s) \/ LoadSettled(s) \/ SettlePull(s) \/ SubmitDies(s)
        PROVE  Moved
    BY <1>1, <2>3 DEF LoadLinkage, LoadSettled, SettlePull, SubmitDies
  <2> HIDE DEF Moved
  <2> QED
    BY <1>5, <2>1, <2>2, <2>3 DEF FixNext
<1>6. PublishNext => UNCHANGED ledgerVars
  BY DEF PublishNext, PlanPublish, BeginPublish, PerformPublish, FinishPublish, PublishDies
<1>7. ReviewDesk => UNCHANGED ledgerVars
  BY DEF ReviewDesk
<1>8. UNCHANGED handoffVars => UNCHANGED ledgerVars
  BY DEF handoffVars
<1> HIDE DEF Moved
<1>9. Moved
  BY <1>2, <1>3, <1>4, <1>5, <1>6, <1>7, <1>8 DEF HandoffNext, IssueDesk, WikiDesk, FixDesk,
     PublishDesk
<1> QED
  BY <1>9 DEF Moved

\* What a step does to the ledger: the entries stay true.
LEMMA LedgersStep ==
    ASSUME TruthInv, [HandoffNext]_handoffVars, Grown(named, named'), labelled' = labelled
    PROVE  Ledgers'
<1>1. /\ Ledgers /\ Work /\ Submits
      /\ \A l : TrueLedger(labelled, named, l) => TrueLedger(labelled', named', l)
      /\ labelled \in BOOLEAN
  BY GrownTrue DEF TruthInv, Trackers
<1>2. issueResult # NoValue => TrueResult(labelled, named, issueResult)
  BY <1>1 DEF Work
<1>3. /\ TrueLedger(labelled, named, writeLedger) /\ DOMAIN copies = Clerks
      /\ \A c \in Clerks : copies[c] # NoValue => TrueLedger(labelled, named, copies[c])
  BY <1>1 DEF Ledgers
<1>4. ASSUME UNCHANGED ledgerFile PROVE Ledgers'
  BY <1>1, <1>3, <1>4 DEF Ledgers, ledgerFile
<1> DEFINE Filed(c, l) == copies' = [copies EXCEPT ![c] = l]
<1>5. ASSUME NEW c \in Clerks, NEW l, Filed(c, l), l # NoValue => TrueLedger(labelled, named, l),
             TrueLedger(labelled, named, writeLedger')
      PROVE  Ledgers'
  <2>1. DOMAIN copies' = Clerks /\ copies' = [d \in Clerks |-> copies'[d]]
    BY <1>1, <1>5 DEF Ledgers
  <2>2. \A d \in Clerks : copies'[d] # NoValue => TrueLedger(labelled, named, copies'[d])
    BY <1>1, <1>3, <1>5 DEF Ledgers
  <2> QED
    BY <1>1, <1>5, <2>1, <2>2 DEF Ledgers
<1>6. ASSUME NEW c \in Clerks, LoadLedger(c) PROVE Ledgers'
  BY <1>3, <1>5, <1>6 DEF LoadLedger
<1>7. ASSUME NEW c \in Clerks, DropCopy(c) PROVE Ledgers'
  BY <1>3, <1>5, <1>7 DEF DropCopy
<1>8. ASSUME NEW c \in Clerks, NEW l, StoreLedger(c, l), TrueLedger(labelled, named, l)
      PROVE  Ledgers'
  BY <1>3, <1>5, <1>8 DEF StoreLedger
<1>9. ASSUME NEW c \in Clerks, StoreReconciled(c) PROVE Ledgers'
  <2>1. copies[c] # NoValue
    BY <1>9 DEF StoreReconciled, StoreLedger
  <2>2. TrueLedger(labelled, named, Reconcile(copies[c]))
    BY <1>1, <1>2, <1>3, <2>1, ReconcileTrue
  <2> QED
    BY <1>3, <1>8, <1>9, <2>2 DEF StoreReconciled
<1>10. CASE ImporterStores
  <2>1. /\ StoreLedger("import", RecordRequest(copies["import"], importer, "issue",
                                              "issue_create", issueResult))
        /\ importer # NoValue /\ copies["import"] # NoValue /\ "import" \in Clerks
    BY <1>10 DEF ImporterStores, StoreLedger, Clerks
  <2>2. Recordable(named, importer, "issue", "issue_create")
    BY <1>1, <2>1 DEF Work, Recordable
  <2>3. TrueLedger(labelled, named, RecordRequest(copies["import"], importer, "issue",
                                                  "issue_create", issueResult))
    BY <1>1, <1>2, <1>3, <2>1, <2>2, RecordTrue
  <2> QED
    BY <1>8, <2>1, <2>3
<1>11. CASE ApplyStores
  <2> DEFINE S == {WikiAction(applyingWiki)}
  <2>1. /\ StoreLedger("apply", RecordRequest(copies["apply"], S, "wiki", "wiki_update", wikiResult))
        /\ copies["apply"] # NoValue /\ "apply" \in Clerks
    BY <1>11 DEF ApplyStores, StoreLedger, Clerks
  <2>2. Recordable(named, S, "wiki", "wiki_update")
    BY DEF Recordable
  <2> HIDE DEF S
  <2>3. TrueLedger(labelled, named, RecordRequest(copies["apply"], S, "wiki", "wiki_update",
                                                  wikiResult))
    BY <1>1, <1>3, <2>1, <2>2, RecordTrue
  <2> QED
    BY <1>8, <2>1, <2>3
<1>12. ASSUME NEW s \in Submitters, RecordLinkage(s) PROVE Ledgers'
  <2> DEFINE S == {submitting[s].action}
  <2>1. /\ StoreLedger(s, RecordRequest(copies[s], S, "pr", "pr_linkage", prResult))
        /\ copies[s] # NoValue /\ s \in Clerks /\ submitting[s] # NoValue
    BY <1>12 DEF RecordLinkage, StoreLedger, Clerks, Submitting
  <2>2. Recordable(named, S, "pr", "pr_linkage")
    BY <1>1, <2>1 DEF Submits, TrueSubmit, Recordable
  <2> HIDE DEF S
  <2>3. TrueLedger(labelled, named, RecordRequest(copies[s], S, "pr", "pr_linkage", prResult))
    BY <1>1, <1>3, <2>1, <2>2, RecordTrue
  <2> QED
    BY <1>8, <2>1, <2>3
<1> QED
  BY <1>4, <1>6, <1>7, <1>9, <1>10, <1>11, <1>12, LedgerSteps

\* A map built from true readings and a true ledger is true.
LEMMA RowsTrue ==
    ASSUME NEW n, NEW items, NEW l, Reading(n, items), TrueLedger(TRUE, n, l)
    PROVE  TrueTrace(n, TraceRows(items, l))
<1>1. ASSUME NEW o \in DOMAIN l, l[o].target = "pr_linkage", l[o].ticket # NoValue
      PROVE  NamedIn(n, l[o].issue, l[o].ticket) \/ <<l[o].issue, l[o].ticket>> \in CaseTickets
  BY <1>1 DEF TrueLedger, TrueEntry, Linkable
<1>2. ASSUME NEW m \in IssueLinks(l)
      PROVE  m.ticket # NoValue /\ NamedIn(n, m.issue, m.ticket)
  <2>1. PICK o \in DOMAIN l :
           /\ l[o].target \in IssueTargets /\ l[o].ticket # NoValue /\ l[o].remote # NoValue
           /\ m = [issue |-> l[o].remote, ticket |-> l[o].ticket]
    BY <1>2 DEF IssueLinks
  <2> QED
    BY <2>1 DEF TrueLedger, TrueEntry
<1>3. ASSUME NEW i, NEW t \in LedgerTickets(l, i)
      PROVE  t # NoValue /\ (NamedIn(n, i, t) \/ <<i, t>> \in CaseTickets)
  <2>1. CASE \E m \in IssueLinks(l) : m.issue = i /\ m.ticket = t
    BY <1>2, <2>1
  <2>2. CASE \E o \in PrLinks(l, i) : l[o].ticket = t /\ t # NoValue
    BY <1>1, <2>2 DEF PrLinks
  <2> QED
    BY <1>3, <2>1, <2>2 DEF LedgerTickets
<1>4. ASSUME NEW i \in DOMAIN items, NEW t \in Names(items[i])
      PROVE  t # NoValue /\ NamedIn(n, i, t)
  BY NamesTyped DEF Reading, NamedIn
<1>5. ASSUME NEW row \in TraceRows(items, l), NEW t \in row.tickets
      PROVE  t # NoValue /\ (NamedIn(n, row.issue, t) \/ <<row.issue, t>> \in CaseTickets)
  <2>1. ASSUME NEW i \in DOMAIN items,
               row = [issue |-> i, tickets |-> Names(items[i]) \cup LedgerTickets(l, i)]
        PROVE  t # NoValue /\ (NamedIn(n, row.issue, t) \/ <<row.issue, t>> \in CaseTickets)
    <3>1. row.issue = i /\ (t \in Names(items[i]) \/ t \in LedgerTickets(l, i))
      BY <2>1
    <3> QED
      BY <1>3, <1>4, <3>1
  <2>2. ASSUME NEW m \in IssueLinks(l), row = [issue |-> m.issue, tickets |-> {m.ticket}]
        PROVE  t # NoValue /\ (NamedIn(n, row.issue, t) \/ <<row.issue, t>> \in CaseTickets)
    BY <1>2, <2>2
  <2> QED
    BY <2>1, <2>2 DEF TraceRows
<1> QED
  BY <1>5 DEF TrueTrace

LEMMA TraceStep ==
    ASSUME TruthInv, IssueNext
    PROVE  labelled' => TrueTrace(named', trace')
<1>1. CASE WriteTrace
  <2>1. trace' = TraceRows(tracer.items, writeLedger) /\ tracer.phase = "trace" /\ named' = named
    BY <1>1 DEF WriteTrace, Tracing, trackers
  <2>2. Reading(named, tracer.items) /\ TrueLedger(labelled, named, writeLedger)
    BY <2>1 DEF TruthInv, Readings, Ledgers
  <2>3. labelled' = labelled /\ labelled \in BOOLEAN
    BY TrackerSteps DEF TruthInv, Trackers
  <2> QED
    BY <2>1, <2>2, <2>3, RowsTrue
<1>2. ASSUME \/ \E t \in Tickets : EditTicket(t) \/ OpenByHand(t)
             \/ \E i \in DOMAIN gitea : CloseIssue(i)
             \/ \E ids, fault : FetchTickets(ids, fault)
             \/ FetchIssues \/ \E asked : SyncRedmineIssues(asked)
             \/ ImporterLoads \/ ImporterStores \/ TakeIssueRequest \/ ReportIssues
             \/ \E a : WriteIssue(a)
      PROVE  trace' = trace
  BY <1>2 DEF EditTicket, OpenByHand, CloseIssue, People, FetchTickets, FetchIssues,
     SyncRedmineIssues, ImporterLoads, ImporterStores, TakeIssueRequest, ReportIssues, WriteIssue,
     records
<1>3. ASSUME \/ SyncIssues \/ ArchiveMirror \/ UnlinkMirror \/ WriteMirrors \/ IssuesStatus
             \/ TracerLoads \/ TracerReconciles \/ IssueCrash
      PROVE  trace' = trace
  BY <1>3 DEF SyncIssues, ArchiveMirror, UnlinkMirror, WriteMirrors, IssuesStatus, TracerLoads,
     TracerReconciles, IssueCrash, records
<1>4. trace' = trace => (labelled' => TrueTrace(named', trace'))
  BY TrackersStep, TrackerSteps, GrownTrue DEF TruthInv
<1> QED
  BY <1>1, <1>2, <1>3, <1>4 DEF IssueNext

\* The tickets of a pull request are named by its issue or are those of its cases.
LEMMA TicketsTrue ==
    ASSUME TruthInv, NEW i, NEW f, NEW t \in PrTickets(i, f) \cup {NoValue}
    PROVE  Linkable(named, i, t) /\ t \in Tickets \cup {NoValue}
<1>1. Reading(named, snapshot)
  BY DEF TruthInv, Readings
<1>2. CASE i \in DOMAIN snapshot /\ t \in Names(snapshot[i])
  BY <1>1, <1>2, NamesTyped DEF Reading, Linkable, NamedIn
<1>3. CASE \E c \in CaseTickets : c[1] = i /\ c[2] = t
  BY <1>3, SnapshotAssumption DEF Linkable
<1>4. CASE t = NoValue
  BY <1>4 DEF Linkable
<1> QED
  BY <1>2, <1>3, <1>4 DEF PrTickets

LEMMA PushableOutcome ==
    \A f \in FixOutcomes :
        /\ f.ready \in BOOLEAN /\ f.pushable \in BOOLEAN
        /\ f.pushable => f.cases = TRUE /\ f.results = TRUE
<1> SUFFICES ASSUME NEW f \in FixOutcomes
             PROVE  /\ f.ready \in BOOLEAN /\ f.pushable \in BOOLEAN
                    /\ f.pushable => f.cases = TRUE /\ f.results = TRUE
  OBVIOUS
<1>1. PICK g \in FixFacts :
         f = [ready |-> FixBlockers(g) = {}, pushable |-> PushPrBlockers(g) = {},
              cases |-> g.cases, results |-> g.results]
  BY DEF FixOutcomes
<1>2. g.cases \in BOOLEAN /\ g.results \in BOOLEAN
  BY DEF FixFacts
<1>3. PushPrBlockers(g) = {} => g.cases /\ g.results
  BY <1>2 DEF PushPrBlockers
<1>4. /\ f.ready = (FixBlockers(g) = {}) /\ f.pushable = (PushPrBlockers(g) = {})
      /\ f.cases = g.cases /\ f.results = g.results
  BY <1>1
<1> QED
  BY <1>2, <1>3, <1>4

\* Which steps touch the submits under way.
LEMMA SubmitSteps ==
    ASSUME [HandoffNext]_handoffVars
    PROVE  \/ submitting' = submitting
           \/ \E s \in Submitters :
                 \/ EndSubmit(s)
                 \/ submitting[s] # NoValue /\ \E step \in Steps : Advance(s, step)
                 \/ \E i \in FixIssues, f \in FixOutcomes : \E t \in PrTickets(i, f) \cup {NoValue} :
                       \E remote \in BOOLEAN :
                          /\ SubmitFixPr(s, i, f, t, remote) /\ f.ready /\ f.pushable
<1>1. UNCHANGED deliveryVars => submitting' = submitting
  BY DEF deliveryVars, fixVars
<1>2. PublishNext => submitting' = submitting
  BY DEF PublishNext, PlanPublish, BeginPublish, PerformPublish, FinishPublish, PublishDies, fixVars
<1>3. ASSUME FixNext PROVE \/ submitting' = submitting
                           \/ \E s \in Submitters :
                                 \/ EndSubmit(s)
                                 \/ submitting[s] # NoValue /\ \E step \in Steps : Advance(s, step)
                                 \/ \E i \in FixIssues, f \in FixOutcomes :
                                       \E t \in PrTickets(i, f) \cup {NoValue} :
                                       \E remote \in BOOLEAN :
                                       /\ SubmitFixPr(s, i, f, t, remote) /\ f.ready /\ f.pushable
  <2>1. ASSUME \/ \E i, f, run : PlanFix(i, f, run)
               \/ \E exists, status : PlanFixCase(exists, status)
        PROVE  submitting' = submitting
    BY <2>1 DEF PlanFix, PlanFixCase
  <2>2. ASSUME NEW s, NEW i, NEW f, NEW t, NEW remote, SubmitFixPr(s, i, f, t, remote),
               ~ (f.ready /\ f.pushable)
        PROVE  submitting' = submitting
    BY <2>2 DEF SubmitFixPr, SubmitTo
  <2>3. ASSUME NEW s, \/ LoadLinkage(s) \/ PushBranch(s) \/ CreatePull(s) \/ SavePull(s)
                      \/ LoadSettled(s)
        PROVE  submitting[s] # NoValue /\ \E step \in Steps : Advance(s, step)
    BY <2>3 DEF LoadLinkage, PushBranch, CreatePull, SavePull, LoadSettled, Submitting, Steps
  <2>4. ASSUME NEW s, RecordLinkage(s)
        PROVE  EndSubmit(s) \/ (submitting[s] # NoValue /\ \E step \in Steps : Advance(s, step))
    BY <2>4 DEF RecordLinkage, Submitting, Steps
  <2>5. ASSUME NEW s, SettlePull(s) \/ SubmitDies(s) PROVE EndSubmit(s)
    BY <2>5 DEF SettlePull, SubmitDies
  <2> QED
    BY <1>3, <2>1, <2>2, <2>3, <2>4, <2>5 DEF FixNext
<1> QED
  BY <1>1, <1>2, <1>3 DEF HandoffNext, IssueDesk, WikiDesk, ReviewDesk, FixDesk, PublishDesk,
     handoffVars

LEMMA SubmitsStep ==
    ASSUME TruthInv, [HandoffNext]_handoffVars, Grown(named, named')
    PROVE  Submits'
<1>1. /\ Submits /\ \A x : TrueSubmit(named, x) => TrueSubmit(named', x)
  BY GrownTrue DEF TruthInv
<1>2. CASE submitting' = submitting
  BY <1>1, <1>2 DEF Submits
<1>3. ASSUME NEW s \in Submitters, NEW x, submitting' = [submitting EXCEPT ![s] = x],
             x # NoValue => TrueSubmit(named, x)
      PROVE  Submits'
  <2>1. DOMAIN submitting' = Submitters /\ submitting' = [r \in Submitters |-> submitting'[r]]
    BY <1>1, <1>3 DEF Submits
  <2>2. \A r \in Submitters : submitting'[r] # NoValue => TrueSubmit(named', submitting'[r])
    BY <1>1, <1>3 DEF Submits
  <2> QED
    BY <2>1, <2>2 DEF Submits
<1>4. ASSUME NEW s \in Submitters, EndSubmit(s) PROVE Submits'
  BY <1>3, <1>4 DEF EndSubmit
<1>5. ASSUME NEW s \in Submitters, submitting[s] # NoValue, NEW step \in Steps, Advance(s, step)
      PROVE  Submits'
  <2> DEFINE x == [submitting[s] EXCEPT !.step = step]
  <2>1. submitting' = [submitting EXCEPT ![s] = x]
    BY <1>5 DEF Advance
  <2>2. TrueSubmit(named, submitting[s])
    BY <1>1, <1>5 DEF Submits
  <2>3. TrueSubmit(named, x)
    BY <2>2 DEF TrueSubmit
  <2> QED
    BY <1>3, <2>1, <2>3
<1>6. ASSUME NEW s \in Submitters, NEW i \in FixIssues, NEW f \in FixOutcomes,
             NEW t \in PrTickets(i, f) \cup {NoValue}, NEW remote \in BOOLEAN,
             SubmitFixPr(s, i, f, t, remote), f.ready, f.pushable
      PROVE  Submits'
  <2> DEFINE a == PrAction(i, f, t)
             x == [step |-> "load", action |-> a, remote |-> remote]
  <2>1. submitting' = [submitting EXCEPT ![s] = x]
    BY <1>6 DEF SubmitFixPr, SubmitTo
  <2>2. Linkable(named, i, t) /\ t \in Tickets \cup {NoValue}
    BY TicketsTrue
  <2>3. a.evidence = TRUE /\ a.issue = i /\ a.ticket = t
    BY <1>6, PushableOutcome DEF PrAction
  <2>4. a \in PullActions
    BY <2>2, <2>3 DEF PullActions
  <2> HIDE DEF a
  <2>5. TrueSubmit(named, x)
    BY <2>2, <2>3, <2>4 DEF TrueSubmit, Steps
  <2> QED
    BY <1>3, <2>1, <2>5
<1> QED
  BY <1>2, <1>4, <1>5, <1>6, SubmitSteps

LEMMA TruthStep ==
    ASSUME TruthInv, [HandoffNext]_handoffVars
    PROVE  TruthInv'
<1>1. CASE IssueNext
  <2>1. Trackers' /\ Grown(named, named') /\ labelled' = labelled
    BY <1>1, TrackersStep, TrackerSteps
  <2> QED
    BY <1>1, <2>1, ReadingsStep, WorkStep, LedgersStep, SubmitsStep, TraceStep, MirrorsStep
    DEF TruthInv
<1>2. CASE UNCHANGED <<issueVars, careful, issueResult>>
  <2>1. UNCHANGED <<labelled, redmine, gitea, named, manifest, fetched, snapshot, tracer, trace,
                    mirrors, archive, issueRequest, importer, session, issueResult>>
    BY <1>2 DEF issueVars, trackers, readings, records, actors, requests
  <2>2. Grown(named, named') /\ labelled' = labelled
    BY <2>1, GrownRefl
  <2>3. Trackers' /\ Readings' /\ Work'
    BY <2>1 DEF TruthInv, Trackers, Readings, Work
  <2>4. MirrorsKept'
    BY <2>1 DEF TruthInv, MirrorsKept, ClosedIssuesArchived, Closing
  <2>5. labelled' => TrueTrace(named', trace')
    BY <2>1 DEF TruthInv
  <2> QED
    BY <2>2, <2>3, <2>4, <2>5, LedgersStep, SubmitsStep DEF TruthInv
<1> QED
  BY <1>1, <1>2, OtherDesks

\* With labelled results a row of the map ties an issue only to tickets it has named and
\* to those of its cases, whatever the commands store over each other.
THEOREM TraceabilityTrue == HandoffSpec => []TraceTrue
<1>1. TruthInv => TraceTrue
  BY DEF TruthInv, TraceTrue, TrueTrace, NamedIn
<1> QED
  BY <1>1, TruthInit, TruthStep, PTL DEF HandoffSpec

-----------------------------------------------------------------------------
(* Pull requests *)

\* With careful operators one command at a time has the ledger, and what it has is the
\* file as it is.
Exclusive ==
    \A c \in Clerks : copies[c] # NoValue =>
        copies[c] = writeLedger /\ \A d \in Clerks : d # c => copies[d] = NoValue

Recorded(x) == x.step \in {"push", "create", "save", "settle", "end"}

PullInv ==
    /\ pulls \in Seq(PullActions)
    /\ careful =>
          /\ Exclusive
          /\ \A s \in Submitters : submitting[s] # NoValue /\ Recorded(submitting[s]) =>
                PrLinks(writeLedger, submitting[s].action.issue) # {}
          /\ \A p \in DOMAIN pulls : PrLinks(writeLedger, pulls[p].issue) # {}

LEMMA PullInit == HandoffInit => PullInv
<1> SUFFICES ASSUME HandoffInit PROVE PullInv
  OBVIOUS
<1>1. LedgerInit /\ DeliveryInit
  BY DEF HandoffInit
<1> QED
  BY <1>1 DEF LedgerInit, DeliveryInit, PullInv, Exclusive

\* Careful commands lose no pull request entry.
LEMMA CarefulLinks ==
    ASSUME TruthInv, PullInv, careful, [HandoffNext]_handoffVars
    PROVE  Exclusive' /\ LinksKept(writeLedger, writeLedger')
<1>1. /\ Exclusive /\ DOMAIN copies = Clerks /\ Ledgers /\ Work /\ Submits
      /\ TrueLedger(labelled, named, writeLedger) /\ labelled \in BOOLEAN
      /\ issueResult # NoValue => TrueResult(labelled, named, issueResult)
  BY DEF PullInv, TruthInv, Ledgers, Work, Trackers
<1>2. \A l : LinksKept(l, l)
  BY DEF LinksKept
<1>3. CASE UNCHANGED ledgerFile
  BY <1>1, <1>2, <1>3 DEF Exclusive, ledgerFile
<1>4. ASSUME NEW c \in Clerks, LoadLedger(c)
      PROVE  Exclusive' /\ LinksKept(writeLedger, writeLedger')
  <2>1. /\ copies' = [copies EXCEPT ![c] = writeLedger] /\ writeLedger' = writeLedger
        /\ \A d \in Clerks : copies[d] = NoValue
    BY <1>4 DEF LoadLedger
  <2> QED
    BY <1>1, <1>2, <2>1 DEF Exclusive
<1>5. ASSUME NEW c \in Clerks, DropCopy(c)
      PROVE  Exclusive' /\ LinksKept(writeLedger, writeLedger')
  BY <1>1, <1>2, <1>5 DEF DropCopy, Exclusive
<1>6. ASSUME NEW c \in Clerks, NEW l, StoreLedger(c, l), LinksKept(copies[c], l)
      PROVE  Exclusive' /\ LinksKept(writeLedger, writeLedger')
  <2>1. /\ copies[c] = writeLedger /\ writeLedger' = l
        /\ copies' = [copies EXCEPT ![c] = NoValue]
        /\ \A d \in Clerks : d # c => copies[d] = NoValue
    BY <1>1, <1>6 DEF StoreLedger, Exclusive
  <2>2. \A d \in Clerks : copies'[d] = NoValue
    BY <1>1, <2>1
  <2> QED
    BY <1>6, <2>1, <2>2 DEF Exclusive
<1>7. ASSUME NEW c \in Clerks, StoreReconciled(c)
      PROVE  Exclusive' /\ LinksKept(writeLedger, writeLedger')
  <2>1. copies[c] = writeLedger
    BY <1>1, <1>7 DEF StoreReconciled, StoreLedger, Exclusive
  <2>2. LinksKept(copies[c], Reconcile(copies[c]))
    BY <1>1, <2>1, ReconcileTrue
  <2> QED
    BY <1>2, <1>6, <1>7, <2>1, <2>2 DEF StoreReconciled
<1>8. ASSUME NEW c \in Clerks, NEW S, NEW kind, NEW target, NEW result,
             StoreLedger(c, RecordRequest(copies[c], S, kind, target, result)),
             Recordable(named, S, kind, target),
             kind = "issue" /\ result # NoValue => TrueResult(labelled, named, result)
      PROVE  Exclusive' /\ LinksKept(writeLedger, writeLedger')
  <2>1. copies[c] # NoValue /\ TrueLedger(labelled, named, copies[c])
    BY <1>1, <1>8 DEF StoreLedger, Ledgers
  <2>2. LinksKept(copies[c], RecordRequest(copies[c], S, kind, target, result))
    BY <1>1, <1>8, <2>1, RecordTrue
  <2> QED
    BY <1>6, <1>8, <2>2
<1>9. CASE ImporterStores
  <2>1. /\ StoreLedger("import", RecordRequest(copies["import"], importer, "issue",
                                              "issue_create", issueResult))
        /\ importer # NoValue /\ "import" \in Clerks
    BY <1>9 DEF ImporterStores, Clerks
  <2>2. Recordable(named, importer, "issue", "issue_create")
    BY <1>1, <2>1 DEF Work, Recordable
  <2> QED
    BY <1>1, <1>8, <2>1, <2>2
<1>10. CASE ApplyStores
  <2>1. /\ StoreLedger("apply", RecordRequest(copies["apply"], {WikiAction(applyingWiki)},
                                             "wiki", "wiki_update", wikiResult))
        /\ "apply" \in Clerks
    BY <1>10 DEF ApplyStores, Clerks
  <2>2. Recordable(named, {WikiAction(applyingWiki)}, "wiki", "wiki_update")
    BY DEF Recordable
  <2> QED
    BY <1>8, <2>1, <2>2
<1>11. ASSUME NEW s \in Submitters, RecordLinkage(s)
       PROVE  Exclusive' /\ LinksKept(writeLedger, writeLedger')
  <2>1. /\ StoreLedger(s, RecordRequest(copies[s], {submitting[s].action}, "pr", "pr_linkage",
                                        prResult))
        /\ s \in Clerks /\ submitting[s] # NoValue
    BY <1>11 DEF RecordLinkage, Clerks, Submitting
  <2>2. Recordable(named, {submitting[s].action}, "pr", "pr_linkage")
    BY <1>1, <2>1 DEF Submits, TrueSubmit, Recordable
  <2> QED
    BY <1>8, <2>1, <2>2
<1> QED
  BY <1>3, <1>4, <1>5, <1>7, <1>9, <1>10, <1>11, LedgerSteps

\* A submit is only past its record once the entry was on disk.
LEMMA RecordedSteps ==
    ASSUME TruthInv, PullInv, careful, [HandoffNext]_handoffVars, NEW s \in Submitters,
           submitting'[s] # NoValue, Recorded(submitting'[s])
    PROVE  PrLinks(writeLedger', submitting'[s].action.issue) # {}
<1>1. /\ Submits /\ Ledgers /\ Exclusive /\ LinksKept(writeLedger, writeLedger')
      /\ labelled \in BOOLEAN
  BY CarefulLinks DEF TruthInv, PullInv, Trackers
<1>2. ASSUME submitting[s] # NoValue, Recorded(submitting[s]),
             submitting'[s].action = submitting[s].action
      PROVE  PrLinks(writeLedger', submitting'[s].action.issue) # {}
  BY <1>1, <1>2 DEF PullInv, LinksKept
<1>3. ASSUME submitting'[s] = submitting[s]
      PROVE  PrLinks(writeLedger', submitting'[s].action.issue) # {}
  BY <1>2, <1>3
<1>4. ASSUME NEW r \in Submitters, NEW x, submitting' = [submitting EXCEPT ![r] = x], r # s
      PROVE  submitting'[s] = submitting[s]
  BY <1>1, <1>4 DEF Submits
<1>5. ASSUME NEW r \in Submitters, EndSubmit(r)
      PROVE  submitting'[s] = submitting[s]
  BY <1>1, <1>4, <1>5 DEF EndSubmit, Submits
<1>6. ASSUME NEW step, Advance(s, step), submitting[s] # NoValue
      PROVE  submitting'[s].action = submitting[s].action
  <2>1. submitting'[s] = [submitting[s] EXCEPT !.step = step]
    BY <1>1, <1>6 DEF Advance, Submits
  <2> QED
    BY <1>1, <1>6, <2>1 DEF Submits, TrueSubmit
<1>7. ASSUME submitting[s] # NoValue, Recorded(submitting[s]), NEW step, Advance(s, step)
      PROVE  PrLinks(writeLedger', submitting'[s].action.issue) # {}
  BY <1>2, <1>6, <1>7
<1>8. CASE RecordLinkage(s)
  <2>1. /\ StoreLedger(s, RecordRequest(copies[s], {submitting[s].action}, "pr", "pr_linkage",
                                        prResult))
        /\ s \in Clerks /\ submitting[s] # NoValue /\ copies[s] # NoValue
        /\ Advance(s, "push") \/ EndSubmit(s)
    BY <1>8 DEF RecordLinkage, Clerks, Submitting, StoreLedger
  <2>2. /\ Recordable(named, {submitting[s].action}, "pr", "pr_linkage")
        /\ submitting[s].action \in PullActions /\ TrueLedger(labelled, named, copies[s])
    BY <1>1, <2>1 DEF Submits, TrueSubmit, Recordable, Ledgers
  <2> DEFINE new == RecordRequest(copies[s], {submitting[s].action}, "pr", "pr_linkage", prResult)
  <2>3. \A a \in {submitting[s].action} \cap PullActions : PrLinks(new, a.issue) # {}
    BY <1>1, <2>1, <2>2, RecordTrue
  <2>4. PrLinks(writeLedger', submitting[s].action.issue) # {}
    BY <2>1, <2>2, <2>3 DEF StoreLedger
  <2> QED
    BY <1>5, <1>6, <2>1, <2>4
<1>9. ASSUME NEW r \in Submitters, r # s, NEW step, Advance(r, step)
      PROVE  submitting'[s] = submitting[s]
  BY <1>4, <1>9 DEF Advance
<1>10. ASSUME NEW r \in Submitters, NEW i, NEW f, NEW t, NEW remote, SubmitFixPr(r, i, f, t, remote)
       PROVE  submitting'[s] = submitting[s]
  <2>1. \/ submitting' = submitting
        \/ submitting' = [submitting EXCEPT ![r] =
                             [step |-> "load", action |-> PrAction(i, f, t), remote |-> remote]]
    BY <1>10 DEF SubmitFixPr, SubmitTo
  <2>2. ASSUME r = s, submitting' # submitting PROVE FALSE
    <3>1. submitting'[s].step = "load"
      BY <1>1, <2>1, <2>2 DEF Submits
    <3> QED
      BY <3>1 DEF Recorded
  <2> QED
    BY <1>4, <2>1, <2>2
<1>11. CASE LoadLinkage(s)
  <2>1. submitting'[s].step = "record"
    BY <1>1, <1>11 DEF LoadLinkage, Advance, Submitting, Submits, TrueSubmit
  <2> QED
    BY <2>1 DEF Recorded
<1>12. CASE PushBranch(s) \/ CreatePull(s) \/ SavePull(s) \/ LoadSettled(s)
  <2>1. /\ submitting[s] # NoValue /\ Recorded(submitting[s])
        /\ \E step : Advance(s, step)
    BY <1>12 DEF PushBranch, CreatePull, SavePull, LoadSettled, Submitting, Recorded
  <2> QED
    BY <1>7, <2>1
<1>13. ASSUME NEW r \in Submitters, SettlePull(r) \/ SubmitDies(r)
       PROVE  submitting'[s] = submitting[s]
  BY <1>5, <1>13 DEF SettlePull, SubmitDies
<1>14. ASSUME NEW r \in Submitters, r # s,
              \/ LoadLinkage(r) \/ RecordLinkage(r) \/ PushBranch(r) \/ CreatePull(r)
              \/ SavePull(r) \/ LoadSettled(r)
       PROVE  submitting'[s] = submitting[s]
  BY <1>5, <1>9, <1>14 DEF LoadLinkage, RecordLinkage, PushBranch, CreatePull, SavePull, LoadSettled
<1>15. ASSUME \/ \E i, f, run : PlanFix(i, f, run)
              \/ \E exists, status : PlanFixCase(exists, status)
       PROVE  submitting'[s] = submitting[s]
  BY <1>15 DEF PlanFix, PlanFixCase
<1>16. CASE FixNext
  BY <1>3, <1>8, <1>10, <1>11, <1>12, <1>13, <1>14, <1>15, <1>16 DEF FixNext
<1>17. UNCHANGED deliveryVars \/ PublishNext => submitting' = submitting
  BY DEF deliveryVars, fixVars, PublishNext, PlanPublish, BeginPublish, PerformPublish,
     FinishPublish, PublishDies
<1> QED
  BY <1>3, <1>16, <1>17 DEF HandoffNext, IssueDesk, WikiDesk, ReviewDesk, FixDesk, PublishDesk,
     handoffVars

\* Only a submit opens a pull request, for the action it has recorded.
LEMMA PullSteps ==
    ASSUME [HandoffNext]_handoffVars
    PROVE  pulls' = pulls \/ \E s \in Submitters : CreatePull(s)
<1>1. UNCHANGED deliveryVars \/ PublishNext => pulls' = pulls
  BY DEF deliveryVars, fixVars, PublishNext, PlanPublish, BeginPublish, PerformPublish,
     FinishPublish, PublishDies
<1>2. ASSUME FixNext PROVE pulls' = pulls \/ \E s \in Submitters : CreatePull(s)
  BY <1>2 DEF FixNext, PlanFix, PlanFixCase, SubmitFixPr, SubmitTo, LoadLinkage, RecordLinkage,
     PushBranch, SavePull, LoadSettled, SettlePull, SubmitDies
<1> QED
  BY <1>1, <1>2 DEF HandoffNext, IssueDesk, WikiDesk, ReviewDesk, FixDesk, PublishDesk, handoffVars

LEMMA CarefulKept == [HandoffNext]_handoffVars => careful' = careful
<1>1. IssueNext => careful' = careful
  BY DEF IssueNext, EditTicket, OpenByHand, CloseIssue, People, FetchTickets, FetchIssues,
     SyncRedmineIssues, ImporterLoads, ImporterStores, TakeIssueRequest, WriteIssue,
     ReportIssues, SyncIssues, ArchiveMirror, UnlinkMirror, WriteMirrors, IssuesStatus,
     TracerLoads, TracerReconciles, WriteTrace, IssueCrash, Tracing, Fixed
<1> QED
  BY <1>1, OtherDesks

LEMMA PullStep ==
    ASSUME TruthInv, PullInv, [HandoffNext]_handoffVars
    PROVE  PullInv'
<1>1. careful' = careful
  BY CarefulKept
<1>2. ASSUME NEW s \in Submitters, CreatePull(s)
      PROVE  /\ submitting[s] # NoValue /\ Recorded(submitting[s])
             /\ submitting[s].action \in PullActions
             /\ pulls' = Append(pulls, submitting[s].action)
  <2>1. /\ submitting[s] # NoValue /\ submitting[s].step = "create"
        /\ pulls' = Append(pulls, submitting[s].action)
    BY <1>2 DEF CreatePull, Submitting
  <2> QED
    BY <2>1 DEF TruthInv, Submits, TrueSubmit, Recorded
<1>3. pulls' \in Seq(PullActions)
  <2>1. CASE pulls' = pulls
    BY <2>1 DEF PullInv
  <2>2. ASSUME NEW s \in Submitters, CreatePull(s) PROVE pulls' \in Seq(PullActions)
    BY <1>2, <2>2 DEF PullInv
  <2> QED
    BY <2>1, <2>2, PullSteps
<1>4. ASSUME careful PROVE Exclusive' /\ LinksKept(writeLedger, writeLedger')
  BY <1>4, CarefulLinks
<1>5. ASSUME careful, NEW p \in DOMAIN pulls'
      PROVE  PrLinks(writeLedger', pulls'[p].issue) # {}
  <2>1. CASE pulls' = pulls
    BY <1>4, <1>5, <2>1 DEF PullInv, LinksKept
  <2>2. ASSUME NEW s \in Submitters, CreatePull(s)
        PROVE  PrLinks(writeLedger', pulls'[p].issue) # {}
    <3>1. PrLinks(writeLedger, submitting[s].action.issue) # {}
      BY <1>2, <1>5, <2>2 DEF PullInv
    <3>2. \/ pulls'[p] = submitting[s].action
          \/ p \in DOMAIN pulls /\ pulls'[p] = pulls[p]
      BY <1>2, <1>5, <2>2 DEF PullInv
    <3> QED
      BY <1>4, <1>5, <3>1, <3>2 DEF PullInv, LinksKept
  <2> QED
    BY <2>1, <2>2, PullSteps
<1>6. ASSUME careful, NEW s \in Submitters, submitting'[s] # NoValue, Recorded(submitting'[s])
      PROVE  PrLinks(writeLedger', submitting'[s].action.issue) # {}
  BY <1>6, RecordedSteps
<1> QED
  BY <1>1, <1>3, <1>4, <1>5, <1>6 DEF PullInv, Recorded

\* A pull request is opened with evidence, and with careful commands never without an
\* entry, which nothing they do later takes away.
THEOREM PullRequestsLinked == HandoffSpec => []PrLinked
<1>1. PullInv => PrLinked
  <2> SUFFICES ASSUME PullInv, NEW p \in DOMAIN pulls PROVE pulls[p].evidence
    BY DEF PullInv, PrLinked
  <2>1. pulls[p] \in PullActions
    BY DEF PullInv
  <2> QED
    BY <2>1, PullActionFields
<1>2. HandoffInit => TruthInv /\ PullInv
  BY TruthInit, PullInit
<1>3. TruthInv /\ PullInv /\ [HandoffNext]_handoffVars => (TruthInv /\ PullInv)'
  BY TruthStep, PullStep
<1> QED
  BY <1>1, <1>2, <1>3, PTL DEF HandoffSpec

-----------------------------------------------------------------------------
(* One open issue per ticket *)

OpenOf(issues, t) == {i \in DOMAIN issues : issues[i].open /\ issues[i].ticket = t}

TitledIn(items, t) == {i \in DOMAIN items : items[i].ticket = t}

AtMostOne(S) == \A i, j \in S : i = j

\* What a result says of t: one issue, and no other is open for it (G: the open ones).
Told(t, G, items) ==
    \A k \in DOMAIN items : items[k].ticket = t =>
        G \subseteq {items[k].issue}
        /\ \A l \in DOMAIN items : items[l].ticket = t => items[l].issue = items[k].issue

\* Carrying the action out leaves one open issue of t, the one the last result names.
Ready(t, G, result, a) ==
    a.ticket = t =>
        /\ IF a.op = "gitea.issue.create" THEN G = {} ELSE G \subseteq {a.issue}
        /\ result # NoValue =>
              \A k \in DOMAIN result.items : result.items[k].ticket = t =>
                  a.op # "gitea.issue.create" /\ result.items[k].issue = a.issue

Pending(t, G, result, S) ==
    /\ \A a \in S : Ready(t, G, result, a)
    /\ \A a, b \in S : a.ticket = t /\ b.ticket = t => a = b

\* What the readings show of the open issues of t.
Sight(t) ==
    /\ AtMostOne(OpenOf(gitea, t)) /\ AtMostOne(TitledIn(snapshot, t))
    /\ fetched # NoValue => AtMostOne(OpenOf(fetched, t))
    /\ tracer.phase # "idle" => AtMostOne(TitledIn(tracer.items, t))
    /\ "fetched" \in current => OpenOf(gitea, t) \subseteq OpenOf(fetched, t)
    /\ tracer.phase # "idle" /\ tracer.save /\ tracer.current =>
          OpenOf(gitea, t) \subseteq TitledIn(tracer.items, t)
    /\ "snapshot" \in current => OpenOf(gitea, t) \subseteq TitledIn(snapshot, t)

\* What requests and results promise about t.
Promise(t) ==
    /\ session # NoValue =>
          /\ answered /\ tracer.phase = "idle"
          /\ Pending(t, OpenOf(gitea, t), issueResult, session.todo)
          /\ Told(t, OpenOf(gitea, t), session.done)
          /\ \A k \in DOMAIN session.done : session.done[k].ticket = t =>
                \A a \in session.todo : a.ticket # t
    /\ ~ answered => Pending(t, OpenOf(gitea, t), issueResult, issueRequest)
    /\ issueResult # NoValue => Told(t, OpenOf(gitea, t), issueResult.items)

OneInv ==
    careful => \A t \in Tickets : Distinct(t) => Sight(t) /\ Promise(t)

LEMMA OneInit == HandoffInit => OneInv
<1> SUFFICES ASSUME HandoffInit, NEW t \in Tickets PROVE Sight(t) /\ Promise(t)
  BY DEF OneInv
<1>1. LedgerInit /\ IssueInit
  BY DEF HandoffInit
<1>2. OpenOf(gitea, t) = {} /\ TitledIn(snapshot, t) = {}
  BY <1>1 DEF IssueInit, OpenOf, TitledIn
<1> QED
  BY <1>1, <1>2 DEF LedgerInit, IssueInit, Sight, Promise, AtMostOne, Idle

\* With fewer open issues of t everything promised of them still holds.
LEMMA FewerPromised ==
    ASSUME NEW t, NEW G, NEW H \in SUBSET G
    PROVE  /\ \A items : Told(t, G, items) => Told(t, H, items)
           /\ \A result, S : Pending(t, G, result, S) => Pending(t, H, result, S)
           /\ AtMostOne(G) => AtMostOne(H)
<1>1. ASSUME NEW items, Told(t, G, items) PROVE Told(t, H, items)
  BY <1>1 DEF Told
<1>2. ASSUME NEW result, NEW a, Ready(t, G, result, a) PROVE Ready(t, H, result, a)
  BY <1>2 DEF Ready
<1>3. AtMostOne(G) => AtMostOne(H)
  BY DEF AtMostOne
<1> QED
  BY <1>1, <1>2, <1>3 DEF Pending

\* The marker search finds the issues titled with a distinct ticket and no others.
LEMMA MarkedExact ==
    ASSUME NEW t \in Tickets, Distinct(t), Reading(named, snapshot)
    PROVE  Marked(t) = TitledIn(snapshot, t)
<1>1. ASSUME NEW i \in DOMAIN snapshot, NEW u \in Names(snapshot[i]),
             u = t \/ <<t, u>> \in Prefix
      PROVE  snapshot[i].ticket = t
  <2>1. snapshot[i] \in Issue
    BY DEF Reading
  <2>2. CASE u = snapshot[i].ticket /\ u # NoValue
    <3>1. u \in Tickets
      BY <2>1, <2>2 DEF Issue
    <3> QED
      BY <1>1, <2>2, <3>1 DEF Distinct
  <2>3. CASE <<snapshot[i].text, u>> \in Mentions
    <3> DEFINE m == <<snapshot[i].text, u>>
    <3>1. m \in Mentions /\ m[2] = u
      BY <2>3
    <3> HIDE DEF m
    <3>2. u # t /\ <<t, u>> \notin Prefix
      BY <3>1 DEF Distinct
    <3> QED
      BY <1>1, <3>2
  <2> QED
    BY <2>2, <2>3 DEF Names
<1>2. ASSUME NEW i \in DOMAIN snapshot, snapshot[i].ticket = t
      PROVE  t \in Names(snapshot[i])
  BY <1>2, SnapshotAssumption DEF Names
<1> QED
  BY <1>1, <1>2 DEF Marked, TitledIn

\* What an import in the documented order asks for t is ready to be carried out.
LEMMA RequestReady ==
    ASSUME TruthInv, careful, NEW t \in Tickets, Distinct(t), Sight(t), Promise(t),
           NEW asked \in SUBSET Tickets, SyncRedmineIssues(asked)
    PROVE  Pending(t, OpenOf(gitea, t), issueResult, RequestedActions(asked))
<1>1. /\ manifest # NoValue /\ asked \subseteq manifest.ids /\ "snapshot" \in current
  BY DEF SyncRedmineIssues, ManifestAccepted, InOrder
<1> DEFINE G == OpenOf(gitea, t)
           v == manifest.text[t]
           found == FindExistingIssue(t, v)
           c == Candidate(t, v)
<1>2. /\ Reading(named, snapshot) /\ named \in Seq(SUBSET Tickets) /\ DOMAIN snapshot \subseteq Nat
      /\ issueResult # NoValue => TrueAnswers(named, issueResult.items)
  BY DEF TruthInv, Readings, Reading, Trackers, Work, TrueResult
<1>3. /\ Marked(t) = TitledIn(snapshot, t) /\ AtMostOne(TitledIn(snapshot, t))
      /\ G \subseteq TitledIn(snapshot, t)
      /\ issueResult # NoValue => Told(t, G, issueResult.items)
  BY <1>1, <1>2, MarkedExact DEF Sight, Promise
<1>4. ASSUME NEW a \in RequestedActions(asked), a.ticket = t
      PROVE  a = c /\ c.op # "link" /\ t \in asked
  <2>1. PICK u \in asked : a = Candidate(u, manifest.text[u])
    BY DEF RequestedActions
  <2>2. a.ticket = u
    BY <2>1 DEF Candidate
  <2> QED
    BY <1>4, <2>1, <2>2 DEF RequestedActions
<1>5. /\ c.ticket = t /\ c.issue = found.issue
      /\ c.op = IF found = NoIssue THEN "gitea.issue.create"
                ELSE IF NeedsUpdate(found, t, v) THEN "gitea.issue.update" ELSE "link"
  BY DEF Candidate
<1>6. NoIssue.issue = NoValue /\ NoIssue.read = FALSE
  BY DEF NoIssue
<1> HIDE DEF c, found, G
<1>7. CASE Linked(t) # {}
  <2>1. issueResult # NoValue
    BY <1>7 DEF Linked
  <2>2. /\ Linked(t) \in SUBSET Nat
        /\ \A k \in Linked(t) : k \in DOMAIN issueResult.items /\ issueResult.items[k].ticket = t
    BY <1>2, <2>1 DEF Linked, TrueAnswers
  <2>3. Min(Linked(t)) \in Linked(t)
    BY <1>7, <2>2, MinOf
  <2> DEFINE k == Min(Linked(t))
  <2>4. found.issue = issueResult.items[k].issue
    BY <1>7 DEF FindExistingIssue, FirstIssue, found
  <2>5. k \in DOMAIN issueResult.items /\ issueResult.items[k].ticket = t
    BY <2>2, <2>3
  <2> HIDE DEF k
  <2>6. issueResult.items[k].issue \in Nat
    <3>1. issueResult.items[k] \in Answer
      BY <1>2, <2>1, <2>5 DEF TrueAnswers
    <3> QED
      BY <3>1 DEF Answer
  <2>7. found # NoIssue
    BY <1>6, <2>4, <2>6, NoValueAssumption
  <2>8. c.op # "gitea.issue.create"
    BY <1>5, <2>7
  <2>9. Ready(t, G, issueResult, c)
    BY <1>3, <1>5, <2>1, <2>4, <2>5, <2>8 DEF Ready, Told
  <2> QED
    BY <1>4, <2>9 DEF Pending, Ready, G
<1>8. CASE Linked(t) = {}
  <2>1. ASSUME issueResult # NoValue, NEW k \in DOMAIN issueResult.items
        PROVE  issueResult.items[k].ticket # t
    BY <1>8, <2>1 DEF Linked
  <2>2. IF c.op = "gitea.issue.create" THEN G = {} ELSE G \subseteq {c.issue}
    <3>1. CASE Marked(t) # {}
      <4>1. found.issue = Min(Marked(t)) /\ found.read = TRUE
        BY <1>8, <3>1 DEF FindExistingIssue, found
      <4>2. Marked(t) \in SUBSET Nat
        BY <1>2 DEF Marked
      <4>3. Min(Marked(t)) \in Marked(t)
        BY <3>1, <4>2, MinOf
      <4>4. G \subseteq {Min(Marked(t))}
        BY <1>3, <4>3 DEF AtMostOne
      <4>5. c.op # "gitea.issue.create"
        BY <1>5, <1>6, <4>1
      <4> QED
        BY <1>5, <4>1, <4>4, <4>5
    <3>2. CASE Marked(t) = {}
      BY <1>3, <3>2
    <3> QED
      BY <3>1, <3>2
  <2>3. Ready(t, G, issueResult, c)
    BY <2>1, <2>2 DEF Ready
  <2> QED
    BY <1>4, <2>3 DEF Pending, Ready, G
<1> QED
  BY <1>7, <1>8

\* Only Hermes, carrying out an action for t, opens an issue of t.
LEMMA FewerOpen ==
    ASSUME TruthInv, IssueNext, NEW t \in Tickets
    PROVE  \/ OpenOf(gitea', t) \subseteq OpenOf(gitea, t)
           \/ session # NoValue /\ \E a \in session.todo : WriteIssue(a)
<1>1. gitea \in Seq(Issue) /\ t # NoValue
  BY SnapshotAssumption DEF TruthInv, Trackers
<1>2. ASSUME NEW u, OpenByHand(u) PROVE OpenOf(gitea', t) \subseteq OpenOf(gitea, t)
  <2> DEFINE new == [open |-> TRUE, ticket |-> NoValue, text |-> <<u, redmine[u]>>]
  <2>1. gitea' = Append(gitea, new)
    BY <1>2 DEF OpenByHand
  <2>2. new.ticket = NoValue
    OBVIOUS
  <2> HIDE DEF new
  <2>3. \A i \in DOMAIN gitea' : gitea'[i] = new \/ (i \in DOMAIN gitea /\ gitea'[i] = gitea[i])
    BY <1>1, <2>1
  <2> QED
    BY <1>1, <2>2, <2>3 DEF OpenOf
<1>3. ASSUME NEW i \in DOMAIN gitea, CloseIssue(i)
      PROVE  OpenOf(gitea', t) \subseteq OpenOf(gitea, t)
  <2>1. gitea' = [gitea EXCEPT ![i] = [gitea[i] EXCEPT !.open = FALSE]]
    BY <1>3 DEF CloseIssue
  <2>2. gitea[i] \in Issue
    BY <1>1
  <2>3. [gitea[i] EXCEPT !.open = FALSE].open = FALSE
    BY <2>2 DEF Issue
  <2>4. DOMAIN gitea' = DOMAIN gitea
        /\ \A j \in DOMAIN gitea : (j # i => gitea'[j] = gitea[j])
        /\ gitea'[i].open = FALSE
    BY <2>1, <2>3
  <2> QED
    BY <2>4 DEF OpenOf
<1>4. ASSUME NEW u, EditTicket(u) PROVE OpenOf(gitea', t) \subseteq OpenOf(gitea, t)
  BY <1>4 DEF EditTicket, OpenOf
<1>5. UNCHANGED <<redmine, gitea, named>> => OpenOf(gitea', t) \subseteq OpenOf(gitea, t)
  BY DEF OpenOf
<1> QED
  BY <1>2, <1>3, <1>4, <1>5, TrackerSteps

\* A write leaves of the open issues of t those there were and the one it wrote.
LEMMA WrittenOpen ==
    ASSUME TruthInv, NEW t \in Tickets, session # NoValue, NEW a \in session.todo, WriteIssue(a)
    PROVE  \E at \in Nat :
              /\ a.op # "gitea.issue.create" => at = a.issue
              /\ OpenOf(gitea', t) \subseteq OpenOf(gitea, t) \cup (IF a.ticket = t THEN {at} ELSE {})
              /\ session'.todo = session.todo \ {a}
              /\ session'.done = Append(session.done, [ticket |-> a.ticket, issue |-> at])
<1>1. /\ gitea \in Seq(Issue) /\ TrueAction(named, a) /\ Trackers /\ Len(named) = Len(gitea)
      /\ named \in Seq(SUBSET Tickets)
  BY DEF TruthInv, Trackers, Work, TrueActions
<1>2. PICK at \in Nat :
         /\ at = (IF a.op = "gitea.issue.create" THEN Len(gitea) + 1 ELSE a.issue)
         /\ session'.todo = session.todo \ {a}
         /\ session'.done = Append(session.done, [ticket |-> a.ticket, issue |-> at])
  BY <1>1, WrittenIssue
<1> DEFINE new == [open |-> TRUE, ticket |-> a.ticket, text |-> a.text]
<1>3. IF at > Len(gitea)
      THEN gitea' = Append(gitea, new)
      ELSE gitea' = [gitea EXCEPT ![at] = [new EXCEPT !.open = gitea[at].open]]
  BY <1>2 DEF WriteIssue
<1>4. new.ticket = a.ticket /\ [new EXCEPT !.open = gitea[at].open].ticket = a.ticket
  OBVIOUS
<1>5. at > Len(gitea) => at = Len(gitea) + 1
  BY <1>1, <1>2 DEF TrueAction
<1> HIDE DEF new
<1>6. \A i \in DOMAIN gitea' :
         \/ i = at /\ gitea'[i].ticket = a.ticket
         \/ i \in DOMAIN gitea /\ gitea'[i] = gitea[i]
  <2>1. CASE at > Len(gitea)
    BY <1>1, <1>3, <1>4, <1>5, <2>1
  <2>2. CASE ~ (at > Len(gitea))
    BY <1>1, <1>3, <1>4, <2>2
  <2> QED
    BY <2>1, <2>2
<1>7. OpenOf(gitea', t) \subseteq OpenOf(gitea, t) \cup (IF a.ticket = t THEN {at} ELSE {})
  BY <1>6 DEF OpenOf
<1> QED
  BY <1>2, <1>7

\* Carrying out what was ready keeps one open issue of t, the one the results name.
LEMMA WriteReady ==
    ASSUME TruthInv, careful, NEW t \in Tickets, Sight(t), Promise(t),
           session # NoValue, NEW a \in session.todo, WriteIssue(a)
    PROVE  Sight(t)' /\ Promise(t)'
<1> DEFINE G == OpenOf(gitea, t)
           H == OpenOf(gitea', t)
<1>1. PICK at \in Nat :
         /\ a.op # "gitea.issue.create" => at = a.issue
         /\ H \subseteq G \cup (IF a.ticket = t THEN {at} ELSE {})
         /\ session'.todo = session.todo \ {a}
         /\ session'.done = Append(session.done, [ticket |-> a.ticket, issue |-> at])
  BY WrittenOpen
<1>2. /\ answered /\ tracer.phase = "idle" /\ Pending(t, G, issueResult, session.todo)
      /\ Told(t, G, session.done) /\ AtMostOne(G)
      /\ \A k \in DOMAIN session.done : session.done[k].ticket = t =>
            \A b \in session.todo : b.ticket # t
      /\ issueResult # NoValue => Told(t, G, issueResult.items)
  BY DEF Promise, Sight
<1>3. /\ UNCHANGED <<fetched, snapshot, tracer, answered, issueResult, issueRequest>>
      /\ current' = {}
  BY DEF WriteIssue, records, requests
<1>4. session.done \in Seq(Answer)
  BY DEF TruthInv, Work, TrueAnswers
<1> DEFINE x == [ticket |-> a.ticket, issue |-> at]
<1>5. x.ticket = a.ticket /\ x.issue = at /\ session'.done = Append(session.done, x)
  BY <1>1
<1> HIDE DEF x, G, H
<1>6. /\ \A k \in DOMAIN session'.done :
            \/ session'.done[k] = x
            \/ k \in DOMAIN session.done /\ session'.done[k] = session.done[k]
  BY <1>4, <1>5
<1>7. CASE a.ticket # t
  <2>1. H \in SUBSET G
    BY <1>1, <1>7
  <2>2. Told(t, H, session.done) /\ Pending(t, H, issueResult, session.todo) /\ AtMostOne(H)
        /\ (issueResult # NoValue => Told(t, H, issueResult.items))
    BY <1>2, <2>1, FewerPromised
  <2>3. Pending(t, H, issueResult, session'.todo)
    BY <1>1, <2>2 DEF Pending
  <2>4. Told(t, H, session'.done)
    BY <1>5, <1>6, <1>7, <2>2 DEF Told
  <2>5. \A k \in DOMAIN session'.done : session'.done[k].ticket = t =>
           \A b \in session'.todo : b.ticket # t
    BY <1>1, <1>2, <1>5, <1>6, <1>7
  <2> QED
    BY <1>2, <1>3, <2>2, <2>3, <2>4, <2>5 DEF Promise, Sight, H
<1>8. CASE a.ticket = t
  <2>1. Ready(t, G, issueResult, a) /\ \A b \in session.todo : b.ticket = t => b = a
    BY <1>2, <1>8 DEF Pending
  <2>2. H \subseteq {at}
    <3>1. CASE a.op = "gitea.issue.create"
      BY <1>1, <1>8, <2>1, <3>1 DEF Ready
    <3>2. CASE a.op # "gitea.issue.create"
      BY <1>1, <1>8, <2>1, <3>2 DEF Ready
    <3> QED
      BY <3>1, <3>2
  <2>3. AtMostOne(H)
    BY <2>2 DEF AtMostOne
  <2>4. \A b \in session'.todo : b.ticket # t
    BY <1>1, <2>1
  <2>5. \A k \in DOMAIN session.done : session.done[k].ticket # t
    BY <1>2, <1>8
  <2>6. Told(t, H, session'.done)
    BY <1>5, <1>6, <2>2, <2>5 DEF Told
  <2>7. ASSUME issueResult # NoValue PROVE Told(t, H, issueResult.items)
    BY <1>1, <1>2, <1>8, <2>1, <2>2, <2>7 DEF Told, Ready
  <2>8. Pending(t, H, issueResult, session'.todo)
    BY <2>4 DEF Pending, Ready
  <2> QED
    BY <1>2, <1>3, <2>3, <2>4, <2>6, <2>7, <2>8 DEF Promise, Sight, H
<1> QED
  BY <1>7, <1>8

\* The steps that matter to Sight and Promise; the rest at most close issues.
LEMMA OneSteps ==
    ASSUME IssueNext
    PROVE  \/ UNCHANGED <<fetched, snapshot, tracer, current, session, issueRequest, answered,
                          issueResult>>
           \/ FetchIssues \/ TakeIssueRequest \/ ReportIssues \/ SyncIssues \/ IssuesStatus
           \/ WriteTrace \/ IssueCrash
           \/ \E asked \in SUBSET Tickets : SyncRedmineIssues(asked)
           \/ session # NoValue /\ \E a \in session.todo : WriteIssue(a)
           \/ /\ UNCHANGED <<fetched, snapshot, current, session, issueRequest, answered,
                             issueResult>>
              /\ \E p : tracer.phase \in {"archive", "unlink", "reconcile"}
                          /\ tracer' = [tracer EXCEPT !.phase = p]
<1> DEFINE Kept == UNCHANGED <<fetched, snapshot, tracer, current, session, issueRequest, answered,
                               issueResult>>
           Phased == /\ UNCHANGED <<fetched, snapshot, current, session, issueRequest, answered,
                                    issueResult>>
                     /\ \E p : tracer.phase \in {"archive", "unlink", "reconcile"}
                                  /\ tracer' = [tracer EXCEPT !.phase = p]
<1>1. ASSUME \/ \E t \in Tickets : EditTicket(t) \/ OpenByHand(t)
             \/ \E i \in DOMAIN gitea : CloseIssue(i)
             \/ \E ids, fault : FetchTickets(ids, fault)
             \/ ImporterLoads \/ ImporterStores \/ TracerLoads
      PROVE  Kept
  BY <1>1 DEF EditTicket, OpenByHand, CloseIssue, People, FetchTickets, ImporterLoads,
     ImporterStores, TracerLoads, Tracing, readings, records, actors, requests
<1>2. ASSUME ArchiveMirror \/ UnlinkMirror \/ WriteMirrors \/ TracerReconciles
      PROVE  Phased
  BY <1>2 DEF ArchiveMirror, UnlinkMirror, WriteMirrors, TracerReconciles, Tracing, records, requests
<1> HIDE DEF Kept, Phased
<1>3. \/ Kept \/ Phased
      \/ FetchIssues \/ TakeIssueRequest \/ ReportIssues \/ SyncIssues \/ IssuesStatus
      \/ WriteTrace \/ IssueCrash
      \/ \E asked \in SUBSET Tickets : SyncRedmineIssues(asked)
      \/ session # NoValue /\ \E a \in session.todo : WriteIssue(a)
  BY <1>1, <1>2 DEF IssueNext
<1> QED
  BY <1>3 DEF Kept, Phased

LEMMA OneTicketStep ==
    ASSUME TruthInv, careful, IssueNext, NEW t \in Tickets, Distinct(t), Sight(t), Promise(t)
    PROVE  Sight(t)' /\ Promise(t)'
<1> DEFINE G == OpenOf(gitea, t)
           H == OpenOf(gitea', t)
<1>1. CASE session # NoValue /\ \E a \in session.todo : WriteIssue(a)
  BY <1>1, WriteReady
<1>2. CASE H \subseteq G
  <2>1. H \in SUBSET G
    BY <1>2
  <2>2. /\ AtMostOne(G) /\ AtMostOne(H)
        /\ \A items : Told(t, G, items) => Told(t, H, items)
        /\ \A result, S : Pending(t, G, result, S) => Pending(t, H, result, S)
    BY <2>1, FewerPromised DEF Sight
  <2> USE DEF OneAtATime
  <2> HIDE DEF G, H
  <2> DEFINE
        Seen == /\ AtMostOne(H) /\ AtMostOne(TitledIn(snapshot, t))
                /\ fetched # NoValue => AtMostOne(OpenOf(fetched, t))
                /\ "fetched" \in current => H \subseteq OpenOf(fetched, t)
                /\ "snapshot" \in current => H \subseteq TitledIn(snapshot, t)
        Traced == /\ tracer.phase # "idle" => AtMostOne(TitledIn(tracer.items, t))
                  /\ tracer.phase # "idle" /\ tracer.save /\ tracer.current =>
                        H \subseteq TitledIn(tracer.items, t)
        Held == session # NoValue =>
                  /\ answered /\ tracer.phase = "idle"
                  /\ Pending(t, H, issueResult, session.todo) /\ Told(t, H, session.done)
                  /\ \A k \in DOMAIN session.done : session.done[k].ticket = t =>
                        \A a \in session.todo : a.ticket # t
        Asked == ~ answered => Pending(t, H, issueResult, issueRequest)
        Answered == issueResult # NoValue => Told(t, H, issueResult.items)
  <2>3. Seen /\ Traced /\ Held /\ Asked /\ Answered
    BY <1>2, <2>2 DEF Sight, Promise, G
  <2>4. CASE UNCHANGED <<fetched, snapshot, tracer, current, session, issueRequest, answered,
                         issueResult>>
    BY <2>3, <2>4 DEF Sight, Promise, H
  <2>5. CASE FetchIssues
    <3>1. /\ UNCHANGED <<snapshot, tracer, session, issueRequest, answered, issueResult, gitea>>
          /\ fetched' = gitea /\ current' = current \cup {"fetched"}
      BY <2>5 DEF FetchIssues, records, actors, requests, trackers
    <3>2. AtMostOne(OpenOf(fetched', t))
      BY <2>2, <3>1 DEF G
    <3>3. "fetched" \in current' => H \subseteq OpenOf(fetched', t)
      BY <3>1 DEF H
    <3> QED
      BY <2>3, <3>1, <3>2, <3>3 DEF Sight, Promise, H
  <2>6. CASE TakeIssueRequest
    <3>1. /\ UNCHANGED <<fetched, snapshot, tracer, current, issueRequest, issueResult>>
          /\ session' = [todo |-> issueRequest, done |-> <<>>] /\ answered' = TRUE
          /\ ~ answered /\ tracer = Idle
      BY <2>6 DEF TakeIssueRequest, readings, records
    <3>2. session'.todo = issueRequest /\ session'.done = <<>> /\ tracer.phase = "idle"
      BY <3>1 DEF Idle
    <3>3. Told(t, H, <<>>)
      BY DEF Told
    <3> QED
      BY <2>3, <3>1, <3>2, <3>3 DEF Sight, Promise, H
  <2>7. CASE ReportIssues
    <3>1. /\ UNCHANGED <<fetched, snapshot, tracer, current, issueRequest, answered>>
          /\ session' = NoValue /\ session # NoValue
          /\ \E status : issueResult' \in Reports(session.done, status)
      BY <2>7 DEF ReportIssues, readings, records, requests
    <3>2. answered /\ Told(t, H, session.done)
      BY <2>3, <3>1
    <3>3. \/ issueResult'.items = session.done
          \/ \A k \in DOMAIN issueResult'.items : issueResult'.items[k].ticket # t
      <4>1. session.done \in Seq(Answer)
        BY <3>1 DEF TruthInv, Work, TrueAnswers
      <4> DEFINE anon == [k \in DOMAIN session.done |->
                            [session.done[k] EXCEPT !.ticket = NoValue]]
      <4>2. \A k \in DOMAIN anon : anon[k].ticket = NoValue
        BY <4>1 DEF Answer
      <4>3. PICK status : issueResult' \in Reports(session.done, status)
        BY <3>1
      <4> HIDE DEF anon
      <4>4. \/ issueResult' = [status |-> status, direct |-> NoValue, items |-> session.done]
            \/ issueResult' = [status |-> status, direct |-> NoValue, items |-> anon]
            \/ \E k : issueResult' = [status |-> status, direct |-> session.done[k].issue,
                                     items |-> <<>>]
        BY <4>3 DEF Reports, anon
      <4> QED
        BY <4>2, <4>4, SnapshotAssumption
    <3>4. Told(t, H, issueResult'.items)
      BY <3>2, <3>3 DEF Told
    <3> QED
      BY <2>3, <3>1, <3>2, <3>4 DEF Sight, Promise, H
  <2>8. CASE SyncIssues
    <3>1. /\ UNCHANGED <<fetched, snapshot, current, session, issueRequest, answered, issueResult>>
          /\ tracer' = [phase |-> "archive", raw |-> fetched, items |-> OpenItems(fetched),
                        save |-> TRUE, current |-> "fetched" \in current]
          /\ session = NoValue /\ fetched # NoValue
      BY <2>8 DEF SyncIssues, readings, records, requests
    <3>2. TitledIn(OpenItems(fetched), t) = OpenOf(fetched, t)
      BY DEF TitledIn, OpenItems, OpenOf
    <3>3. tracer'.items = OpenItems(fetched) /\ tracer'.current = ("fetched" \in current)
      BY <3>1
    <3> QED
      BY <2>3, <3>1, <3>2, <3>3 DEF Sight, Promise, H
  <2>9. CASE IssuesStatus
    <3>1. /\ UNCHANGED <<fetched, snapshot, current, session, issueRequest, answered, issueResult>>
          /\ tracer'.items = snapshot /\ tracer'.save = FALSE /\ session = NoValue
      BY <2>9 DEF IssuesStatus, readings, records, requests
    <3> QED
      BY <2>3, <3>1 DEF Sight, Promise, H
  <2>10. CASE WriteTrace
    <3>1. /\ UNCHANGED <<fetched, session, issueRequest, answered, issueResult>>
          /\ tracer' = Idle /\ tracer.phase = "trace"
          /\ IF tracer.save
             THEN /\ snapshot' = tracer.items
                  /\ current' = IF tracer.current THEN current \cup {"snapshot"}
                                ELSE current \ {"snapshot"}
             ELSE UNCHANGED <<snapshot, current>>
      BY <2>10 DEF WriteTrace, Tracing, requests
    <3>2. tracer'.phase = "idle"
      BY <3>1 DEF Idle
    <3>3. CASE tracer.save
      BY <2>3, <3>1, <3>2, <3>3 DEF Sight, Promise, H
    <3>4. CASE ~ tracer.save
      BY <2>3, <3>1, <3>2, <3>4 DEF Sight, Promise, H
    <3> QED
      BY <3>3, <3>4
  <2>11. CASE IssueCrash
    <3>1. /\ UNCHANGED <<fetched, snapshot, current, issueRequest, answered, issueResult>>
          /\ tracer' = tracer \/ tracer' = Idle
          /\ session' = session \/ session' = NoValue
      BY <2>11 DEF IssueCrash, readings, records, requests
    <3> QED
      BY <2>3, <3>1 DEF Sight, Promise, Idle, H
  <2>12. ASSUME NEW asked \in SUBSET Tickets, SyncRedmineIssues(asked)
         PROVE  Sight(t)' /\ Promise(t)'
    <3>1. /\ UNCHANGED <<gitea, fetched, snapshot, current, tracer, session, issueResult>>
          /\ answered' = FALSE /\ session = NoValue /\ issueRequest' = RequestedActions(asked)
      BY <2>12 DEF SyncRedmineIssues, InOrder, trackers, readings, records
    <3>2. Pending(t, G, issueResult, RequestedActions(asked))
      BY <2>12, RequestReady DEF G
    <3> QED
      BY <2>2, <2>3, <3>1, <3>2 DEF Sight, Promise, H
  <2>13. ASSUME UNCHANGED <<fetched, snapshot, current, session, issueRequest, answered, issueResult>>,
                NEW p, tracer.phase \in {"archive", "unlink", "reconcile"},
                tracer' = [tracer EXCEPT !.phase = p]
         PROVE  Sight(t)' /\ Promise(t)'
    <3>1. DOMAIN tracer = {"phase", "raw", "items", "save", "current"}
      BY <2>13 DEF TruthInv, MirrorsKept
    <3>2. tracer'.items = tracer.items /\ tracer'.save = tracer.save /\ tracer'.current = tracer.current
      BY <2>13, <3>1
    <3>3. session = NoValue
      BY <2>3, <2>13
    <3> QED
      BY <2>3, <2>13, <3>2, <3>3 DEF Sight, Promise, H
  <2> QED
    BY <1>1, <2>4, <2>5, <2>6, <2>7, <2>8, <2>9, <2>10, <2>11, <2>12, <2>13, OneSteps
<1> QED
  BY <1>1, <1>2, FewerOpen

LEMMA OneStep ==
    ASSUME TruthInv, OneInv, [HandoffNext]_handoffVars
    PROVE  OneInv'
<1>1. careful' = careful
  BY CarefulKept
<1>2. CASE IssueNext
  BY <1>1, <1>2, OneTicketStep DEF OneInv
<1>3. CASE UNCHANGED <<issueVars, careful, issueResult>>
  <2>1. UNCHANGED <<gitea, snapshot, fetched, tracer, current, session, answered, issueRequest,
                    issueResult>>
    BY <1>3 DEF issueVars, trackers, readings, records, actors, requests
  <2>2. \A t \in Tickets : (Sight(t) => Sight(t)') /\ (Promise(t) => Promise(t)')
    BY <2>1 DEF Sight, Promise
  <2> QED
    BY <1>1, <2>2 DEF OneInv
<1> QED
  BY <1>2, <1>3, OtherDesks

\* In the documented order a ticket that is not mistaken for another has one open issue.
THEOREM OneIssuePerTicket == HandoffSpec => []OneOpenIssuePerTicket
<1>1. OneInv => OneOpenIssuePerTicket
  BY DEF OneInv, Sight, AtMostOne, OpenOf, OneOpenIssuePerTicket, OneOpenIssue
<1>2. HandoffInit => TruthInv /\ OneInv
  BY TruthInit, OneInit
<1>3. TruthInv /\ OneInv /\ [HandoffNext]_handoffVars => (TruthInv /\ OneInv)'
  BY TruthStep, OneStep
<1> QED
  BY <1>1, <1>2, <1>3, PTL DEF HandoffSpec

-----------------------------------------------------------------------------
(* The wiki page: what may be published. *)

Clean(text) == text # NoValue => ~text.internal

\* A plan that may be applied carries no internal text, nor does what was made of one.
WikiInv ==
    /\ wikiPlan # NoValue /\ wikiPlan.allowed => ~wikiPlan.body.internal
    /\ Clean(wikiRequest) /\ Clean(wikiSession) /\ Clean(wikiPage)

\* The gate refuses internal text whatever else it is told.
LEMMA GateRefusesInternal ==
    ASSUME NEW f, GateAllows(f)
    PROVE  ~f.internal
  BY DEF GateAllows, GateReasons

LEMMA OutcomeClean ==
    ASSUME NEW outcome \in PlanOutcomes, outcome.allowed
    PROVE  ~outcome.body.internal
<1>1. PICK event \in WikiEvents, run \in WikiRuns, internal \in BOOLEAN, wrote \in BOOLEAN :
         outcome = [body |-> RenderWikiBody(event, internal),
                    allowed |-> WikiGateAllows(event, run, internal, wrote)]
  BY DEF PlanOutcomes
<1>2. outcome.body.internal = internal /\ WikiGateAllows(event, run, internal, wrote)
  BY <1>1 DEF RenderWikiBody
<1>3. ~internal
  BY <1>2, GateRefusesInternal DEF WikiGateAllows
<1> QED
  BY <1>2, <1>3

LEMMA WikiStep ==
    ASSUME WikiInv, WikiNext
    PROVE  WikiInv'
<1>1. ASSUME NEW outcome \in PlanOutcomes, NEW listed, PlanWiki(outcome, listed)
      PROVE  WikiInv'
  BY <1>1, OutcomeClean DEF PlanWiki, WikiInv, Clean
<1>2. ASSUME NEW outcome, RenderWiki(outcome)
      PROVE  WikiInv'
  BY <1>2 DEF RenderWiki, WikiInv, Clean
<1>3. ASSUME NEW listed, ApplyWiki(listed)
      PROVE  WikiInv'
  BY <1>3 DEF ApplyWiki, RemoteReady, PlannedBody, WikiInv, Clean
<1>4. ASSUME \/ ApplyLoads \/ ApplyStores \/ CompleteWiki \/ WikiStatus \/ StatusLoads
             \/ StatusStores \/ WikiDies \/ EndWikiSession
      PROVE  /\ UNCHANGED <<wikiPlan, wikiRequest, wikiPage>>
             /\ wikiSession' = wikiSession \/ wikiSession' = NoValue
  BY <1>4 DEF ApplyLoads, ApplyStores, CompleteWiki, WikiStatus, StatusLoads, StatusStores,
     WikiDies, EndWikiSession, wikiVars, wikiFiles
<1>5. CASE TakeWikiRequest
  BY <1>5 DEF TakeWikiRequest, wikiFiles, WikiInv, Clean
<1>6. CASE WritePage
  BY <1>6 DEF WritePage, wikiFiles, WikiInv, Clean
<1>7. ASSUME UNCHANGED <<wikiPlan, wikiRequest, wikiPage>>,
             wikiSession' = wikiSession \/ wikiSession' = NoValue
      PROVE  WikiInv'
  BY <1>7 DEF WikiInv, Clean
<1> QED
  BY <1>1, <1>2, <1>3, <1>4, <1>5, <1>6, <1>7 DEF WikiNext

\* The status page never carries text the write gate refuses (wiki.py gates the plan, the
\* text reaches the page through request and session), whatever is planned, rendered and
\* lost in between.
THEOREM PagesGated == HandoffSpec => []PageGated
<1>1. HandoffInit => WikiInv
  BY DEF HandoffInit, WikiInit, WikiInv, Clean
<1>2. WikiInv => PageGated
  BY DEF WikiInv, Clean, PageGated
<1>3. WikiInv /\ [HandoffNext]_handoffVars => WikiInv'
  <2>1. WikiInv /\ UNCHANGED wikiVars => WikiInv'
    BY DEF wikiVars, wikiFiles, WikiInv, Clean
  <2> QED
    BY <2>1, WikiStep DEF HandoffNext, IssueDesk, WikiDesk, ReviewDesk, FixDesk, PublishDesk,
       handoffVars
<1> QED
  BY <1>1, <1>2, <1>3, PTL DEF HandoffSpec
-----------------------------------------------------------------------------
(* Review replies: the inductive invariant. *)

Keys == [head : Nat, report : Nat]

\* The keys and files have their types; bounds play no part in them.
ReviewTypes ==
    /\ prHead \in Nat /\ reports \in Nat
    /\ reviewRequest # Absent => reviewRequest \in Keys
    /\ posting # Absent => posting \in [key : Keys, done : BOOLEAN]

\* A session that says it has posted has.
ReplySessionTrue == posting # Absent /\ posting.done => posting.key \in posted

\* A result of success names a review that was posted.
ResultTrue ==
    reviewResult # Absent /\ reviewResult.ok =>
        /\ reviewResult.head \in Nat /\ reviewResult.report \in Nat
        /\ [head |-> reviewResult.head, report |-> reviewResult.report] \in posted

ReplyInv == ReviewTypes /\ ReplySessionTrue /\ ResultTrue /\ ReviewSettledPosted

\* When Hermes names what it answers, ReplyInv is kept by every step: the ledger calls a
\* request ok only on a result of the same head and report, which was posted.
THEOREM ReplyInvariance ==
    ASSUME ResultsIdentified
    PROVE  ReviewSpec => []ReplyInv
<1>1. ReviewInit => ReplyInv
  BY DEF ReviewInit, ReplyInv, ReviewTypes, ReplySessionTrue, ResultTrue, ReviewSettledPosted
<1>2. ReplyInv /\ [ReviewNext]_reviewVars => ReplyInv'
  <2> SUFFICES ASSUME ReplyInv, [ReviewNext]_reviewVars PROVE ReplyInv'
    OBVIOUS
  <2> USE ReviewAssumption
  <2>1. CASE PushCommit
    BY <2>1 DEF PushCommit, ReplyInv, ReviewTypes, ReplySessionTrue, ResultTrue, ReviewSettledPosted
  <2>2. ASSUME NEW head \in 1..prHead, PrepareReview(head) PROVE ReplyInv'
    BY <2>2 DEF PrepareReview, ReplyInv, ReviewTypes, ReplySessionTrue, ResultTrue,
                ReviewSettledPosted, Keys
  <2>3. CASE TakeReview
    BY <2>3 DEF TakeReview, ReplyInv, ReviewTypes, ReplySessionTrue, ResultTrue, ReviewSettledPosted
  <2>4. CASE PostReview
    <3>1. posting' = [key |-> posting.key, done |-> TRUE] /\ posting.key \in Keys
      BY <2>4 DEF PostReview, ReplyInv, ReviewTypes
    <3>2. posted' = posted \cup {posting.key}
      BY <2>4 DEF PostReview
    <3>3. ReviewTypes' /\ ReplySessionTrue'
      BY <2>4, <3>1, <3>2 DEF PostReview, ReplyInv, ReviewTypes, ReplySessionTrue
    <3>4. ResultTrue' /\ ReviewSettledPosted'
      BY <2>4, <3>2 DEF PostReview, ReplyInv, ResultTrue, ReviewSettledPosted
    <3> QED BY <3>3, <3>4 DEF ReplyInv
  <2>5. ASSUME NEW identified \in BOOLEAN, ReportReview(identified) PROVE ReplyInv'
    <3>1. identified
      BY <2>5 DEF ReportReview
    <3>2. /\ posting # Absent /\ posting.key \in Keys
          /\ reviewResult' = [ok |-> posting.done, head |-> posting.key.head,
                              report |-> posting.key.report]
      BY <2>5, <3>1 DEF ReportReview, ReplyInv, ReviewTypes
    <3>3. posting.key = [head |-> posting.key.head, report |-> posting.key.report]
      BY <3>2 DEF Keys
    <3>4. ResultTrue'
      BY <2>5, <3>2, <3>3 DEF ReportReview, ReplyInv, ResultTrue, ReplySessionTrue, Keys
    <3>5. ReviewTypes' /\ ReplySessionTrue' /\ ReviewSettledPosted'
      BY <2>5 DEF ReportReview, ReplyInv, ReviewTypes, ReplySessionTrue, ReviewSettledPosted
    <3> QED BY <3>4, <3>5 DEF ReplyInv
  <2>6. CASE LoseReviewSession
    BY <2>6 DEF LoseReviewSession, ReplyInv, ReviewTypes, ReplySessionTrue, ResultTrue,
                ReviewSettledPosted
  <2>7. CASE ApplyReview
    <3>1. reviewRequest \in Keys /\ reviewResult # Absent
      BY <2>7 DEF ApplyReview, ReplyInv, ReviewTypes
    <3>2. reviewResult.ok => reviewRequest \in posted
      <4> SUFFICES ASSUME reviewResult.ok PROVE reviewRequest \in posted
        OBVIOUS
      <4>1. /\ reviewResult.head \in Nat /\ reviewResult.report \in Nat
            /\ [head |-> reviewResult.head, report |-> reviewResult.report] \in posted
        BY <3>1 DEF ReplyInv, ResultTrue
      <4>2. reviewResult.head = reviewRequest.head /\ reviewResult.report = reviewRequest.report
        BY <2>7, <4>1 DEF ApplyReview, SameIdentity
      <4>3. reviewRequest = [head |-> reviewRequest.head, report |-> reviewRequest.report]
        BY <3>1 DEF Keys
      <4> QED BY <4>1, <4>2, <4>3
    <3>3. reviewLedger' = [k \in DOMAIN reviewLedger \cup {reviewRequest} |->
                              IF k = reviewRequest
                              THEN IF reviewResult.ok THEN "ok" ELSE "blocked"
                              ELSE reviewLedger[k]]
      BY <2>7 DEF ApplyReview
    <3>4. ReviewSettledPosted'
      <4> SUFFICES ASSUME NEW k \in DOMAIN reviewLedger', reviewLedger'[k] = "ok"
                   PROVE  k \in posted
        BY <2>7 DEF ApplyReview, ReviewSettledPosted
      <4>1. CASE k = reviewRequest
        BY <3>2, <3>3, <4>1
      <4>2. CASE k # reviewRequest
        BY <3>3, <4>2 DEF ReplyInv, ReviewSettledPosted
      <4> QED BY <4>1, <4>2
    <3>5. ReviewTypes' /\ ReplySessionTrue' /\ ResultTrue'
      BY <2>7 DEF ApplyReview, ReplyInv, ReviewTypes, ReplySessionTrue, ResultTrue
    <3> QED BY <3>4, <3>5 DEF ReplyInv
  <2>8. CASE WriteApplyResult
    BY <2>8 DEF WriteApplyResult, ReplyInv, ReviewTypes, ReplySessionTrue, ResultTrue,
                ReviewSettledPosted
  <2>9. CASE ApplyDies
    BY <2>9 DEF ApplyDies, ReplyInv, ReviewTypes, ReplySessionTrue, ResultTrue, ReviewSettledPosted
  <2>10. CASE UNCHANGED reviewVars
    BY <2>10 DEF reviewVars, ReplyInv, ReviewTypes, ReplySessionTrue, ResultTrue, ReviewSettledPosted
  <2> QED
    BY <2>1, <2>2, <2>3, <2>4, <2>5, <2>6, <2>7, <2>8, <2>9, <2>10 DEF ReviewNext
<1> QED
  BY <1>1, <1>2, PTL DEF ReviewSpec

-----------------------------------------------------------------------------

\* A request the ledger calls ok has been posted, when Hermes names in its results what
\* it answers (complete_gitea_review_apply); without that the run review_stale refutes it.
THEOREM SettledIsPosted ==
    ASSUME ResultsIdentified
    PROVE  ReviewSpec => []ReviewSettledPosted
<1>1. ReplyInv => ReviewSettledPosted
  BY DEF ReplyInv
<1> QED
  BY <1>1, ReplyInvariance, PTL

\* What the ledger calls ok stays ok: no result that comes later, of whatever request,
\* takes it back; only the check for a duplicate is needed for it.
THEOREM SettledIsFinal == ReviewSpec => ReviewSettledStays
<1> DEFINE Stays ==
      \A k \in DOMAIN reviewLedger :
         reviewLedger[k] = "ok" => k \in DOMAIN reviewLedger' /\ reviewLedger'[k] = "ok"
<1>1. [ReviewNext]_reviewVars => [Stays]_reviewVars
  <2> SUFFICES ASSUME ReviewNext PROVE Stays
    OBVIOUS
  <2>1. CASE ApplyReview
    BY <2>1 DEF ApplyReview, AlreadySettled
  <2>2. CASE UNCHANGED reviewLedger
    BY <2>2
  <2> QED
    BY <2>1, <2>2 DEF ReviewNext, PushCommit, PrepareReview, TakeReview, PostReview,
       ReportReview, LoseReviewSession, WriteApplyResult, ApplyDies
<1> QED
  BY <1>1, PTL DEF ReviewSpec, ReviewSettledStays

-----------------------------------------------------------------------------
(* Publication. *)

\* What a command has still to do is allowed; what it has done is allowed and written.
PublishingTrue ==
    publishing # NoValue =>
        /\ \A a \in publishing.todo : a.allowed
        /\ \A a \in publishing.done : a \in written /\ a.allowed

PublishInv == PublishingTrue /\ PublishHonest

LEMMA PublishStep == PublishInv /\ [HandoffNext]_handoffVars => PublishInv'
<1> SUFFICES ASSUME PublishInv, [HandoffNext]_handoffVars PROVE PublishInv'
  OBVIOUS
<1>1. CASE UNCHANGED <<publishApplied, publishing, written>>
  BY <1>1 DEF PublishInv, PublishingTrue, PublishHonest
<1>2. CASE BeginPublish
  BY <1>2 DEF BeginPublish, PublishInv, PublishingTrue, PublishHonest
<1>3. ASSUME NEW action, PerformPublish(action)
      PROVE  PublishInv'
  BY <1>3 DEF PerformPublish, PublishInv, PublishingTrue, PublishHonest
<1>4. CASE FinishPublish
  BY <1>4 DEF FinishPublish, PublishReport, PublishInv, PublishingTrue, PublishHonest
<1>5. CASE PublishDies
  BY <1>5 DEF PublishDies, PublishInv, PublishingTrue, PublishHonest
<1>6. FixNext => UNCHANGED <<publishApplied, publishing, written>>
  BY DEF FixNext, PlanFix, PlanFixCase, SubmitFixPr, SubmitTo, LoadLinkage, RecordLinkage,
     PushBranch, CreatePull, SavePull, LoadSettled, SettlePull, SubmitDies, SubmitFrame, publishVars
<1>7. ASSUME NEW actions, PlanPublish(actions)
      PROVE  UNCHANGED <<publishApplied, publishing, written>>
  BY <1>7 DEF PlanPublish
<1>8. UNCHANGED deliveryVars => UNCHANGED <<publishApplied, publishing, written>>
  BY DEF deliveryVars, publishVars
<1> QED
  BY <1>1, <1>2, <1>3, <1>4, <1>5, <1>6, <1>7, <1>8 DEF HandoffNext, IssueDesk, WikiDesk,
     ReviewDesk, FixDesk, PublishDesk, PublishNext, handoffVars

\* The result file of "publish apply" reports only what was written and the gate allowed
\* (apply_publish_plan), whatever is planned meanwhile and wherever a command dies.
THEOREM PublicationReported == HandoffSpec => []PublishHonest
<1>1. HandoffInit => PublishInv
  BY DEF HandoffInit, DeliveryInit, PublishInv, PublishingTrue, PublishHonest
<1>2. PublishInv => PublishHonest
  BY DEF PublishInv
<1> QED
  BY <1>1, <1>2, PublishStep, PTL DEF HandoffSpec
=============================================================================
