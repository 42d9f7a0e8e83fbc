----------------------------- MODULE PullReview -----------------------------
(***************************************************************************)
(* The review of a pull request (review.py, with the execution contract of *)
(* execution_contract.py and the remote preflight of environment.py).      *)
(*                                                                         *)
(* A review reads the stored snapshot of the request (or one it is given), *)
(* asks for the execution contract, looks at the remote host, prepares a   *)
(* worktree, runs tests, the product and generated cases, and writes a     *)
(* report twice: as a draft, then sealed with its hash.  What tests, cases *)
(* and remote checks come to is chosen freely.                             *)
(***************************************************************************)
EXTENDS Integers, FiniteSets

CONSTANTS
    Absent,        \* no snapshot, no report, no review
    PrHeads,       \* the heads the request can have
    PrFacts,       \* head -> [suite, diff, leak, docs, menus]; a menu is what case
                   \* generation can give, a set of [id, dims, capable, partial]
    PrPlans        \* bounds: [heads, moves, reviews, dates, contract], the heads the request
                   \* goes through, its changes, the reviews of it, whether reads of it have a
                   \* date, and the configuration:
                   \* [configured, confirmed, conflict, candidate, remote, missing]

ASSUME PrAssumption ==
    /\ DOMAIN PrFacts = PrHeads
    /\ \A plan \in PrPlans :
          /\ plan.heads \subseteq PrHeads /\ plan.dates \subseteq BOOLEAN
          /\ plan.moves \in Nat /\ plan.reviews \in Nat

VARIABLES
    prLive,       \* the request at Gitea: [head, rev, open]; rev stands for updated_at
    prSnapshot,   \* Absent or the stored snapshot of it: [head, rev, open, dated]; one that
                  \* is not dated has no updated_at
    prTrees,      \* head -> "absent", "partial" or "whole": the review worktrees
    prContract,   \* what the configuration says of the execution
    prPreflight,  \* the preflight the configuration keeps
    prWork,       \* Absent or the review under way
    prReports,    \* head -> Absent or the report file: [rev, dated, sealed, allowed]
    prLeft        \* the plan, with what is left of it

prVars == <<prLive, prSnapshot, prTrees, prContract, prPreflight, prWork, prReports, prLeft>>

PrInit ==
    /\ prLeft \in PrPlans
    /\ \E head \in prLeft.heads : prLive = [head |-> head, rev |-> 1, open |-> TRUE]
    /\ prSnapshot = Absent
    /\ prTrees = [head \in PrHeads |-> "absent"]
    /\ prContract = prLeft.contract
    /\ prPreflight = "NOT_RUN"
    /\ prWork = Absent
    /\ prReports = [head \in PrHeads |-> Absent]

-----------------------------------------------------------------------------
(* The request and its snapshot. *)

\* A push (also one that takes the head back), a comment, a close.
RequestChanges ==
    /\ prLeft.moves > 0
    /\ prLeft' = [prLeft EXCEPT !.moves = @ - 1]
    /\ \E head \in prLeft.heads, open \in {prLive.open, FALSE} :
          prLive' = [head |-> head, rev |-> prLive.rev + 1, open |-> open]
    /\ UNCHANGED <<prSnapshot, prTrees, prContract, prPreflight, prWork, prReports>>

\* What the agent can have read of the request; updated_at is optional.
Read ==
    {[head |-> prLive.head, rev |-> prLive.rev, open |-> prLive.open, dated |-> dated] :
        dated \in prLeft.dates}

\* The agent reads the request and stores the snapshot.
StoreSnapshot ==
    /\ prSnapshot' \in Read \ {prSnapshot}
    /\ UNCHANGED <<prLive, prTrees, prContract, prPreflight, prWork, prReports, prLeft>>

-----------------------------------------------------------------------------
(* The execution contract and the preflight. *)

\* _contract_status
ContractStatus(contract) ==
    IF contract.conflict /\ ~contract.confirmed THEN "CONFIRMATION_REQUIRED"
    ELSE IF ~contract.configured /\ ~contract.candidate THEN "CONFIGURATION_REQUIRED"
    ELSE IF ~contract.confirmed THEN "CONFIRMATION_REQUIRED"
    ELSE IF contract.missing THEN "CONFIGURATION_REQUIRED" ELSE "READY"

\* apply_discovered_contract: the candidate becomes the contract.  What the remote
\* target misses stays missing, and the review goes on.
Applied(contract) == [contract EXCEPT !.configured = TRUE, !.confirmed = TRUE]

\* The contract a review goes on with, if it does.
Accepted(contract, discover) ==
    IF ContractStatus(contract) = "READY" THEN {contract}
    ELSE IF discover /\ contract.candidate THEN {Applied(contract)} ELSE {}

\* remote_preflight.  The head is always given, so a checkout that is READY has been
\* verified; a dirty one is a failed check first.
PreflightStatus(missing, launched, checks, clean, matches) ==
    IF missing THEN "REMOTE_PREFLIGHT_REQUIRED"
    ELSE IF ~launched THEN "TOOLING_FAIL"
    ELSE IF ~checks \/ ~clean THEN "INFRASTRUCTURE_BLOCK"
    ELSE IF ~matches THEN "REMOTE_SOURCE_MISMATCH" ELSE "READY"

-----------------------------------------------------------------------------
(* The steps of a review. *)

Modes == {"comprehensive", "diff_only", "dry"}

ReviewAt(phase) == prWork # Absent /\ prWork.at = phase

\* tree: ready, blocked, planned; tests: test -> status; cases: what is executed, with
\* the status of the process and the truth of the case.
NewReview(mode, snapshot) ==
    [at |-> "preflight", mode |-> mode, snapshot |-> snapshot, tree |-> "planned",
     broken |-> FALSE, diff |-> "PASS", tests |-> [t \in {} |-> "PASS"],
     product |-> "NOT_RUN", generation |-> "NOT_RUN", cases |-> {}]

BeginReview ==
    /\ prWork = Absent /\ prLeft.reviews > 0
    /\ prLeft' = [prLeft EXCEPT !.reviews = @ - 1]
    /\ \E mode \in Modes, discover \in BOOLEAN, snapshot \in (Read \cup {prSnapshot}) \ {Absent} :
          /\ prContract' \in IF mode = "comprehensive" THEN Accepted(prContract, discover)
                             ELSE {prContract}
          /\ prWork' = NewReview(mode, snapshot)
    /\ UNCHANGED <<prLive, prSnapshot, prTrees, prPreflight, prReports>>

\* Only a comprehensive review of a remote product looks; the others go on with what
\* the configuration keeps, whichever head that was about.
LookAtRemote ==
    /\ ReviewAt("preflight")
    /\ prPreflight' \in
          IF prWork.mode = "comprehensive" /\ prContract.remote
          THEN {PreflightStatus(prContract.missing, l, ch, cl, m) : l, ch, cl, m \in BOOLEAN}
          ELSE {prPreflight}
    /\ prWork' = [prWork EXCEPT !.at = "tree"]
    /\ UNCHANGED <<prLive, prSnapshot, prTrees, prContract, prReports, prLeft>>

ReviewHead == prWork.snapshot.head

\* _reconstruct_snapshot_diff
DiffStatuses(head, tree) ==
    CASE PrFacts[head].diff = "given" -> {"PASS"}
      [] PrFacts[head].diff = "none" -> {"NOT_APPLICABLE"}
      [] OTHER -> IF tree = "ready" THEN {"PASS", "BLOCK"} ELSE {"BLOCK"}

\* A directory that is there is taken as it is, a worktree that git did not finish as
\* well as a whole one.  A git that takes too long ends the review.
PrepareTree ==
    /\ ReviewAt("tree")
    /\ \E tree \in {"ready", "blocked", "planned"} :
          /\ (tree = "planned") = (prWork.mode = "dry")
          /\ prTrees' = [prTrees EXCEPT ![ReviewHead] = IF tree = "ready" /\ @ = "absent"
                                                  THEN "whole" ELSE @]
          /\ \E diff \in DiffStatuses(ReviewHead, tree) :
                prWork' = [prWork EXCEPT !.at = "tests", !.tree = tree, !.diff = diff,
                                         !.broken = prTrees[ReviewHead] = "partial"]
    /\ UNCHANGED <<prLive, prSnapshot, prContract, prPreflight, prReports, prLeft>>

TreeTimesOut ==
    /\ ReviewAt("tree") /\ prWork.mode # "dry" /\ prTrees[ReviewHead] = "absent"
    /\ prTrees' = [prTrees EXCEPT ![ReviewHead] = "partial"]
    /\ prWork' = Absent
    /\ UNCHANGED <<prLive, prSnapshot, prContract, prPreflight, prReports, prLeft>>

\* select_applicable_tests
Suites == IF prWork.tree = "blocked" \/ prTrees[ReviewHead] = "absent" THEN {"none"}
          ELSE IF prWork.broken THEN {"none", PrFacts[ReviewHead].suite} ELSE {PrFacts[ReviewHead].suite}

Selected(suite) ==
    CASE suite = "none" -> {}
      [] suite = "regression" -> {"regression"}
      [] OTHER -> {"targeted", "regression"}

RunTests ==
    /\ ReviewAt("tests")
    /\ \E suite \in Suites :
       \E tests \in [Selected(suite) -> IF prWork.mode = "dry" THEN {"NOT_RUN"}
                                        ELSE {"PASS", "FAIL", "BLOCK"}] :
          prWork' = [prWork EXCEPT !.tests = tests,
                                   !.at = IF /\ prWork.mode = "comprehensive"
                                             /\ prWork.tree = "ready"
                                          THEN "product" ELSE "report"]
    /\ UNCHANGED <<prLive, prSnapshot, prTrees, prContract, prPreflight, prReports, prLeft>>

\* The product case; a remote product only passes on a verified head.
ProductStatuses ==
    IF prContract.remote /\ prPreflight # "READY" THEN {"BLOCK"}
    ELSE {"PASS", "FAIL", "BLOCK", "HOLD", "INTERRUPTED"}

ProductCase(status) ==
    [id |-> "product", dims |-> {"functional", "black_box"}, capable |-> status = "PASS",
     status |-> status, truth |-> status]

\* _run_browser_regression_case: the targeted tests count as the browser case when their
\* command is about a browser; they are not run again.
BrowserCases ==
    IF "targeted" \in DOMAIN prWork.tests /\ PrFacts[ReviewHead].suite = "browser"
    THEN {[id |-> "browser", dims |-> {"functional", "ui", "ux"}, capable |-> FALSE,
           status |-> prWork.tests["targeted"], truth |-> prWork.tests["targeted"]]}
    ELSE {}

RunProduct ==
    /\ ReviewAt("product")
    /\ \E status \in ProductStatuses :
          prWork' = [prWork EXCEPT !.at = "cases", !.product = status,
                                   !.cases = {ProductCase(status)} \cup BrowserCases]
    /\ UNCHANGED <<prLive, prSnapshot, prTrees, prContract, prPreflight, prReports, prLeft>>

\* The truth of a partial probe is HOLD, whatever its process did (runner.run_case).
CaseRun(case, status) ==
    [id |-> case.id, dims |-> case.dims, capable |-> case.capable, status |-> status,
     truth |-> IF case.partial THEN "HOLD" ELSE status]

\* Generation that fails gives no case, and the results of the other cases stand.
RunCases ==
    /\ ReviewAt("cases")
    /\ \/ prWork' = [prWork EXCEPT !.at = "report", !.generation = "BLOCK"]
       \/ \E menu \in PrFacts[ReviewHead].menus : \E ends \in [menu -> {"PASS", "FAIL", "BLOCK"}] :
             prWork' = [prWork EXCEPT !.at = "report", !.generation = "ok",
                                      !.cases = @ \cup {CaseRun(c, ends[c]) : c \in menu}]
    /\ UNCHANGED <<prLive, prSnapshot, prTrees, prContract, prPreflight, prReports, prLeft>>

-----------------------------------------------------------------------------
(* The verdict: _build_report. *)

Worst(statuses) ==
    IF "BLOCK" \in statuses THEN "BLOCK"
    ELSE IF "FAIL" \in statuses THEN "FAIL"
    ELSE IF statuses = {"PASS"} THEN "PASS" ELSE "HOLD"

\* The mutant: the process of a case decides, a partial probe counts as a pass.
DimensionOfStatus(cases, adapter) ==
    IF cases = {} \/ (adapter /\ \E c \in cases : ~c.capable) THEN "HOLD"
    ELSE Worst({c.status : c \in cases})

\* _review_case_dimension_result: the truth of the cases decides.
Dimension(cases, adapter) ==
    IF cases = {} \/ (adapter /\ \E c \in cases : ~c.capable) THEN "HOLD"
    ELSE Worst({c.truth : c \in cases})

Dimensions == {"functional", "boundary", "stress", "ui", "ux"}
CasesFor(work, dimension) == {c \in work.cases : dimension \in c.dims}

\* What a tree that git did not finish has of the documents cannot be read.
Documentation(work) ==
    CASE PrFacts[work.snapshot.head].docs = "none" -> "NOT_APPLICABLE"
      [] OTHER -> IF work.broken \/ PrFacts[work.snapshot.head].docs = "bad" THEN "FAIL" ELSE "PASS"

Leaks(work) == PrFacts[work.snapshot.head].leak /\ work.diff = "PASS"

TestOutcome(work) ==
    LET statuses == {work.tests[t] : t \in DOMAIN work.tests} IN
    IF "BLOCK" \in statuses \/ work.tree = "blocked" THEN "BLOCK"
    ELSE IF "FAIL" \in statuses THEN "FAIL"
    ELSE IF work.mode = "dry" THEN "NOT_RUN"
    ELSE IF statuses = {} THEN "HOLD" ELSE "PASS"

\* The matrix of the cases; without a tree every cell of it is BLOCK.
CaseMatrix(work) ==
    IF work.mode # "comprehensive" THEN [d \in {} |-> "PASS"]
    ELSE IF work.tree # "ready"
    THEN [d \in Dimensions \cup {"white_box", "black_box", "documentation"} |-> "BLOCK"]
    ELSE [d \in Dimensions \cup {"white_box", "black_box", "documentation", "product"} |->
            CASE d = "white_box" -> IF work.diff = "PASS" THEN "PASS" ELSE "BLOCK"
              [] d = "black_box" -> Dimension({c \in work.cases : c.capable}, FALSE)
              [] d = "documentation" -> Documentation(work)
              [] d = "product" -> work.product
              [] OTHER -> Dimension(CasesFor(work, d), d \notin {"ui", "ux"})]

\* _review_qa_outcome
QaOutcome(matrix) ==
    LET statuses == {matrix[d] : d \in DOMAIN matrix} IN
    IF statuses = {} THEN "NOT_RUN"
    ELSE IF "FAIL" \in statuses THEN "FAIL"
    ELSE IF "BLOCK" \in statuses THEN "BLOCK"
    ELSE IF statuses \subseteq {"PASS", "NOT_APPLICABLE"} THEN "PASS" ELSE "HOLD"

\* The diff and the tests complete the white box; without a cell for it only a reason
\* against the request makes one.
WhiteBox(work, matrix) ==
    IF Leaks(work) THEN {"FAIL"}
    ELSE IF work.diff # "PASS" THEN {"BLOCK"}
    ELSE IF TestOutcome(work) # "PASS" THEN {TestOutcome(work)}
    ELSE {matrix[d] : d \in DOMAIN matrix \cap {"white_box"}}

\* A targeted test that has ended is the functional cell, whatever the cases came to.
Targeted(work, matrix) ==
    IF "targeted" \in DOMAIN work.tests /\ work.tests["targeted"] # "NOT_RUN"
    THEN {work.tests["targeted"]}
    ELSE {matrix[d] : d \in DOMAIN matrix \cap {"functional"}}

Completion(work, matrix) ==
    [d \in (DOMAIN matrix \ {"white_box", "functional"})
           \cup {d \in {"white_box"} : WhiteBox(work, matrix) # {}}
           \cup {d \in {"functional"} : Targeted(work, matrix) # {}} |->
       IF d = "white_box" THEN CHOOSE s \in WhiteBox(work, matrix) : TRUE
       ELSE IF d = "functional" THEN CHOOSE s \in Targeted(work, matrix) : TRUE
       ELSE matrix[d]]

\* A block of the cases is not outvoted by what completes the matrix.
CaseBlock(work) ==
    \/ work.generation = "BLOCK"
    \/ work.mode = "comprehensive" /\ QaOutcome(CaseMatrix(work)) = "BLOCK"

Unassessed(preflight) == preflight \in {"TOOLING_FAIL", "INFRASTRUCTURE_BLOCK",
                                        "REMOTE_SOURCE_MISMATCH"}

FinalOutcome(work, preflight) ==
    IF Unassessed(preflight) THEN "UNASSESSED"
    ELSE IF CaseBlock(work) THEN "BLOCK"
    ELSE QaOutcome(Completion(work, CaseMatrix(work)))

CoverageGap(work, preflight) ==
    \/ DOMAIN work.tests = {}
    \/ work.mode = "comprehensive" /\ FinalOutcome(work, preflight) # "PASS"
    \/ work.mode = "comprehensive" /\ work.product \notin {"PASS", "NOT_RUN"}

\* TRIAGE and PREFLIGHT stand for the three conclusions each that differ in what is to
\* be done about them.  A dry review has no case matrix here: it previews.
Conclusion(work, preflight) ==
    LET qa == FinalOutcome(work, preflight) IN
    IF Leaks(work) THEN "REQUEST_CHANGES"
    ELSE IF Unassessed(preflight) THEN "PREFLIGHT"
    ELSE IF TestOutcome(work) = "FAIL" \/ qa = "FAIL" THEN "TRIAGE"
    ELSE IF work.product \in {"BLOCK", "HOLD", "INTERRUPTED"} THEN "HOLD_FOR_PRODUCT_TEST_COVERAGE"
    ELSE IF \/ TestOutcome(work) \in {"BLOCK", "HOLD", "NOT_RUN"}
            \/ qa \in {"BLOCK", "HOLD", "NOT_RUN"} \/ CoverageGap(work, preflight)
         THEN "HOLD_FOR_TEST_COVERAGE"
    ELSE "NO_BLOCKING_FINDINGS"

\* review_gate: what follows the review may be executed.
ExecutionAllowed(work, preflight) ==
    /\ work.mode # "dry" /\ work.tree # "blocked"
    /\ Conclusion(work, preflight) = "NO_BLOCKING_FINDINGS"

-----------------------------------------------------------------------------
(* The report. *)

Writes(sealed) ==
    prReports' = [prReports EXCEPT ![ReviewHead] =
        [rev |-> prWork.snapshot.rev, dated |-> prWork.snapshot.dated, sealed |-> sealed,
         allowed |-> ExecutionAllowed(prWork, prPreflight)]]

\* write_review_report, before the hash is known.
DraftReport ==
    /\ ReviewAt("report")
    /\ Writes(FALSE)
    /\ prWork' = [prWork EXCEPT !.at = "draft"]
    /\ UNCHANGED <<prLive, prSnapshot, prTrees, prContract, prPreflight, prLeft>>

SealReport ==
    /\ ReviewAt("draft")
    /\ Writes(TRUE)
    /\ prWork' = Absent
    /\ UNCHANGED <<prLive, prSnapshot, prTrees, prContract, prPreflight, prLeft>>

\* A kill, or an exception nobody catches.
ReviewDies ==
    /\ prWork # Absent
    /\ prWork' = Absent
    /\ UNCHANGED <<prLive, prSnapshot, prTrees, prContract, prPreflight, prReports, prLeft>>

PrNext ==
    \/ RequestChanges \/ StoreSnapshot
    \/ BeginReview \/ LookAtRemote \/ PrepareTree \/ TreeTimesOut \/ RunTests \/ RunProduct
    \/ RunCases \/ DraftReport \/ SealReport \/ ReviewDies

PrSpec == PrInit /\ [][PrNext]_prVars

-----------------------------------------------------------------------------
(* Properties. *)

\* What a comprehensive review has seen when it has nothing against the request.
SeenInFull(work, preflight) ==
    /\ work.tree = "ready" /\ work.product = "PASS" /\ work.generation = "ok"
    /\ prContract.remote => preflight = "READY"
    /\ \A d \in {"boundary", "stress", "ui", "ux"} : CasesFor(work, d) # {}
    /\ \A c \in work.cases : c.dims \cap {"boundary", "stress", "ui", "ux"} # {} => c.truth = "PASS"
    /\ \A c \in work.cases : c.capable => c.truth = "PASS"

\* A review lets what follows it go on only when it has seen everything it is there
\* for: a diff without a secret, tests that exist and all passed, and, when it is a
\* comprehensive one, the product, every dimension with cases whose truth is a pass, and
\* a remote product that was the head under review.  A later override, an empty cell or
\* a preflight of another run never stands in for one of them (review._build_report,
\* review_gate).
VerdictEarned ==
    (ReviewAt("report") \/ ReviewAt("draft")) /\ ExecutionAllowed(prWork, prPreflight) =>
        /\ prWork.diff = "PASS" /\ ~PrFacts[ReviewHead].leak
        /\ DOMAIN prWork.tests # {} /\ \A t \in DOMAIN prWork.tests : prWork.tests[t] = "PASS"
        /\ prWork.mode = "comprehensive" => SeenInFull(prWork, prPreflight)
=============================================================================
