---------------------------- MODULE ReviewReply ----------------------------
(***************************************************************************)
(* The advisory review of a pull request, from the report to the review    *)
(* ledger (review.py: prepare_gitea_review_reply and                       *)
(* complete_gitea_review_apply).                                           *)
(*                                                                         *)
(* A confirmed report becomes the one request file; Hermes posts it and    *)
(* leaves the one result file; "review apply" settles the request on disk  *)
(* with the result on disk.  Requests, sessions and results may be newer   *)
(* or older than one another, and the command may die between its two      *)
(* files.                                                                  *)
(***************************************************************************)
EXTENDS Naturals, FiniteSets

CONSTANTS Absent,             \* a missing file or field
          MaxHeads,           \* bound: commits of the pull request
          MaxReports,         \* bound: reports made, of all heads
          ResultsIdentified   \* Hermes names repo, PR, head and report in a result

ASSUME ReviewAssumption ==
    /\ MaxHeads \in Nat /\ MaxReports \in Nat /\ ResultsIdentified \in BOOLEAN
    /\ Absent \notin Nat

VARIABLES
    prHead,          \* head of the pull request
    reports,         \* reports made so far
    reviewRequest,   \* review-write-request.json: Absent or a key
    reviewResult,    \* review-write-result.json: Absent or [ok, head, report]
    reviewLedger,    \* review-write-ledger.json: [key -> "ok" or "blocked"]
    reviewApplied,   \* review-apply-result.json: Absent or [key, status]
    applying,        \* what "review apply" has still to write, or Absent
    posting,         \* Hermes: Absent or [key, done]
    posted           \* keys of the reviews on the server

reviewVars == <<prHead, reports, reviewRequest, reviewResult, reviewLedger,
                reviewApplied, applying, posting, posted>>

\* The deduplication key repo:pr:head:hash of the one pull request.
ReviewKeys == [head : 1..MaxHeads, report : 1..MaxReports]
Outcomes == [key : ReviewKeys, status : {"ok", "blocked"}]
ReviewResults == [ok : BOOLEAN, head : (1..MaxHeads) \cup {Absent},
                  report : (1..MaxReports) \cup {Absent}]

ReviewInit ==
    /\ prHead = 1 /\ reports = 0
    /\ reviewRequest = Absent /\ reviewResult = Absent
    /\ reviewLedger = [k \in {} |-> "ok"]
    /\ reviewApplied = Absent /\ applying = Absent
    /\ posting = Absent /\ posted = {}

PushCommit ==
    /\ prHead < MaxHeads
    /\ prHead' = prHead + 1
    /\ UNCHANGED <<reports, reviewRequest, reviewResult, reviewLedger, reviewApplied,
                   applying, posting, posted>>

\* A report of a pinned head, confirmed by a person: incomplete evidence and a Gitea
\* MCP that is not ready change what the command says, not the request it writes.
\* A dry run, a report that is not confirmed and one that fails redaction write none.
PrepareReview(head) ==
    /\ reports < MaxReports
    /\ reports' = reports + 1
    /\ reviewRequest' = [head |-> head, report |-> reports + 1]
    /\ UNCHANGED <<prHead, reviewResult, reviewLedger, reviewApplied, applying, posting,
                   posted>>

-----------------------------------------------------------------------------
(* Hermes. *)

TakeReview ==
    /\ posting = Absent /\ reviewRequest # Absent
    /\ posting' = [key |-> reviewRequest, done |-> FALSE]
    /\ UNCHANGED <<prHead, reports, reviewRequest, reviewResult, reviewLedger,
                   reviewApplied, applying, posted>>

PostReview ==
    /\ posting # Absent /\ ~posting.done
    /\ posted' = posted \cup {posting.key}
    /\ posting' = [posting EXCEPT !.done = TRUE]
    /\ UNCHANGED <<prHead, reports, reviewRequest, reviewResult, reviewLedger,
                   reviewApplied, applying>>

\* The report says whether this session posted; it names what it answers, or does not.
ReportReview(identified) ==
    /\ posting # Absent
    /\ ResultsIdentified => identified
    /\ reviewResult' = [ok |-> posting.done,
                        head |-> IF identified THEN posting.key.head ELSE Absent,
                        report |-> IF identified THEN posting.key.report ELSE Absent]
    /\ posting' = Absent
    /\ UNCHANGED <<prHead, reports, reviewRequest, reviewLedger, reviewApplied, applying,
                   posted>>

LoseReviewSession ==
    /\ posting # Absent
    /\ posting' = Absent
    /\ UNCHANGED <<prHead, reports, reviewRequest, reviewResult, reviewLedger,
                   reviewApplied, applying, posted>>

-----------------------------------------------------------------------------
(* review apply *)

\* The mutant: only the pull request's head is compared.
SameHead(request, result) == result.head \in {Absent, request.head}

\* _validate_review_result_identity: a field the result leaves out is not compared.
SameIdentity(request, result) ==
    /\ result.head \in {Absent, request.head}
    /\ result.report \in {Absent, request.report}

\* The mutant: the ledger is not asked.
NeverSettled(key) == key \in {}

\* An entry that is ok is final: the command answers "duplicate" and writes nothing.
AlreadySettled(key) == key \in DOMAIN reviewLedger /\ reviewLedger[key] = "ok"

ApplyReview ==
    /\ applying = Absent
    /\ reviewRequest # Absent /\ reviewResult # Absent
    /\ ~AlreadySettled(reviewRequest)
    /\ SameIdentity(reviewRequest, reviewResult)
    /\ LET status == IF reviewResult.ok THEN "ok" ELSE "blocked" IN
        /\ reviewLedger' = [k \in DOMAIN reviewLedger \cup {reviewRequest} |->
                               IF k = reviewRequest THEN status ELSE reviewLedger[k]]
        /\ applying' = [key |-> reviewRequest, status |-> status]
    /\ UNCHANGED <<prHead, reports, reviewRequest, reviewResult, reviewApplied, posting,
                   posted>>

\* The second file, unless the command dies or its redaction fails first.
WriteApplyResult ==
    /\ applying # Absent
    /\ reviewApplied' = applying
    /\ applying' = Absent
    /\ UNCHANGED <<prHead, reports, reviewRequest, reviewResult, reviewLedger, posting,
                   posted>>

ApplyDies ==
    /\ applying # Absent
    /\ applying' = Absent
    /\ UNCHANGED <<prHead, reports, reviewRequest, reviewResult, reviewLedger,
                   reviewApplied, posting, posted>>

ReviewNext ==
    \/ PushCommit
    \/ \E head \in 1..prHead : PrepareReview(head)
    \/ TakeReview \/ PostReview \/ LoseReviewSession
    \/ \E identified \in BOOLEAN : ReportReview(identified)
    \/ ApplyReview \/ WriteApplyResult \/ ApplyDies

ReviewSpec == ReviewInit /\ [][ReviewNext]_reviewVars

-----------------------------------------------------------------------------
(* Properties. *)

\* A request the ledger calls ok has been posted: no stale, failed or repeated
\* result settles it (docs/CONFIGURATION.md, "PR Review").  It holds when Hermes
\* names in the result what it answers, and only then.
ReviewSettledPosted ==
    \A k \in DOMAIN reviewLedger : reviewLedger[k] = "ok" => k \in posted

\* What has been settled stays settled, whatever result is applied later.
ReviewSettledStays ==
    [][\A k \in DOMAIN reviewLedger :
          reviewLedger[k] = "ok" => k \in DOMAIN reviewLedger' /\ reviewLedger'[k] = "ok"]_reviewVars
=============================================================================
