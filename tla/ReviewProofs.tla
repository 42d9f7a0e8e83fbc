---------------------------- MODULE ReviewProofs ----------------------------
(***************************************************************************)
(* Proofs about pull-request reviews: a verdict that lets something go on is *)
(* earned, and the graph follows the request, for any heads, pushes, reviews *)
(* and kills.                                                              *)
(***************************************************************************)
EXTENDS QaProjection, TLAPS

-----------------------------------------------------------------------------
(* The invariant of the review under way: what each phase has left behind. *)

ReviewFields == {"at", "mode", "snapshot", "tree", "broken", "diff", "tests", "product",
                 "generation", "cases"}
AfterTree == {"tests", "product", "cases", "report", "draft"}
AfterTests == {"product", "cases", "report", "draft"}
AfterProduct == {"cases", "report", "draft"}
Reporting == {"report", "draft"}
InFull(w) == w.mode = "comprehensive" /\ w.tree = "ready"

\* Only a dry review has no worktree made, and only a full one runs cases.
TreeKnown(w) ==
    /\ w.at \in AfterTree => /\ w.tree \in {"ready", "blocked", "planned"}
                             /\ (w.tree = "planned") = (w.mode = "dry")
    /\ w.at \in {"product", "cases"} => InFull(w)

\* A test that was selected has an outcome, unless the review is dry.
TestsEnded(w) ==
    w.at \in AfterTests /\ w.mode # "dry" =>
        \A t \in DOMAIN w.tests : w.tests[t] \in {"PASS", "FAIL", "BLOCK"}

\* The product was tried, and passed only where its host was seen to have the head.
ProductTried(w, contract, preflight) ==
    w.at \in AfterProduct /\ InFull(w) =>
        /\ w.product # "NOT_RUN"
        /\ w.product = "PASS" /\ contract.remote => preflight = "READY"

GenerationTried(w) ==
    w.at \in Reporting /\ InFull(w) => w.generation \in {"ok", "BLOCK"}

WorkSound(w, contract, preflight) ==
    /\ DOMAIN w = ReviewFields /\ w.mode \in Modes
    /\ TreeKnown(w) /\ TestsEnded(w) /\ ProductTried(w, contract, preflight)
    /\ GenerationTried(w)

ReviewInv == prWork # Absent => WorkSound(prWork, prContract, prPreflight)

LEMMA ReviewBegins ==
    ASSUME BeginReview
    PROVE  ReviewInv'
<1>1. PICK mode \in Modes, snapshot \in (Read \cup {prSnapshot}) \ {Absent} :
         prWork' = NewReview(mode, snapshot)
  BY DEF BeginReview
<1>2. /\ DOMAIN prWork' = ReviewFields /\ prWork'.mode \in Modes
      /\ prWork'.at = "preflight"
  BY <1>1 DEF NewReview, ReviewFields
<1> QED
  BY <1>2 DEF ReviewInv, WorkSound, TreeKnown, TestsEnded, ProductTried, GenerationTried,
              AfterTree, AfterTests, AfterProduct, Reporting

LEMMA PreflightSound ==
    ASSUME ReviewInv, LookAtRemote
    PROVE  ReviewInv'
<1>1. prWork # Absent /\ prWork' = [prWork EXCEPT !.at = "tree"]
  BY DEF LookAtRemote, ReviewAt
<1>2. DOMAIN prWork' = ReviewFields /\ prWork'.mode \in Modes /\ prWork'.at = "tree"
  BY <1>1 DEF ReviewInv, WorkSound, ReviewFields
<1> QED
  BY <1>2 DEF ReviewInv, WorkSound, TreeKnown, TestsEnded, ProductTried, GenerationTried,
              AfterTree, AfterTests, AfterProduct, Reporting

LEMMA TreeSound ==
    ASSUME ReviewInv, PrepareTree
    PROVE  ReviewInv'
<1>1. PICK tree \in {"ready", "blocked", "planned"} :
         /\ (tree = "planned") = (prWork.mode = "dry")
         /\ \E diff \in DiffStatuses(ReviewHead, tree) :
               prWork' = [prWork EXCEPT !.at = "tests", !.tree = tree, !.diff = diff,
                                        !.broken = prTrees[ReviewHead] = "partial"]
  BY DEF PrepareTree
<1>2. prWork # Absent
  BY DEF PrepareTree, ReviewAt
<1>3. /\ DOMAIN prWork' = ReviewFields /\ prWork'.mode = prWork.mode
      /\ prWork'.at = "tests" /\ prWork'.tree = tree
  BY <1>1, <1>2 DEF ReviewInv, WorkSound, ReviewFields
<1> QED
  BY <1>1, <1>2, <1>3
     DEF ReviewInv, WorkSound, TreeKnown, TestsEnded, ProductTried, GenerationTried,
         AfterTree, AfterTests, AfterProduct, Reporting

LEMMA TestsSound ==
    ASSUME ReviewInv, RunTests
    PROVE  ReviewInv'
<1>1. PICK suite \in Suites :
         \E tests \in [Selected(suite) -> IF prWork.mode = "dry" THEN {"NOT_RUN"}
                                          ELSE {"PASS", "FAIL", "BLOCK"}] :
            prWork' = [prWork EXCEPT !.tests = tests,
                                     !.at = IF /\ prWork.mode = "comprehensive"
                                               /\ prWork.tree = "ready"
                                            THEN "product" ELSE "report"]
  BY DEF RunTests
<1>2. PICK tests \in [Selected(suite) -> IF prWork.mode = "dry" THEN {"NOT_RUN"}
                                         ELSE {"PASS", "FAIL", "BLOCK"}] :
         prWork' = [prWork EXCEPT !.tests = tests,
                                  !.at = IF InFull(prWork) THEN "product" ELSE "report"]
  BY <1>1 DEF InFull
<1>3. prWork # Absent /\ prWork.at = "tests"
  BY DEF RunTests, ReviewAt
<1>4. /\ DOMAIN prWork' = ReviewFields /\ prWork'.mode = prWork.mode
      /\ prWork'.tree = prWork.tree /\ prWork'.tests = tests
      /\ prWork'.at = IF InFull(prWork) THEN "product" ELSE "report"
  BY <1>2, <1>3 DEF ReviewInv, WorkSound, ReviewFields
<1>5. WorkSound(prWork, prContract, prPreflight)
  BY <1>3 DEF ReviewInv
<1>6. InFull(prWork') = InFull(prWork)
  BY <1>4 DEF InFull
<1>7. TreeKnown(prWork')
  BY <1>3, <1>4, <1>5, <1>6 DEF WorkSound, TreeKnown, AfterTree
<1>8. TestsEnded(prWork')
  BY <1>4 DEF TestsEnded
<1>9. ProductTried(prWork', prContract', prPreflight') /\ GenerationTried(prWork')
  BY <1>4, <1>6 DEF ProductTried, GenerationTried, AfterProduct, Reporting
<1> QED
  BY <1>4, <1>5, <1>7, <1>8, <1>9 DEF ReviewInv, WorkSound

LEMMA ProductSound ==
    ASSUME ReviewInv, RunProduct
    PROVE  ReviewInv'
<1>1. PICK status \in ProductStatuses :
         prWork' = [prWork EXCEPT !.at = "cases", !.product = status,
                                  !.cases = {ProductCase(status)} \cup BrowserCases]
  BY DEF RunProduct
<1>2. prWork # Absent /\ prWork.at = "product" /\ UNCHANGED <<prContract, prPreflight>>
  BY DEF RunProduct, ReviewAt
<1>3. WorkSound(prWork, prContract, prPreflight)
  BY <1>2 DEF ReviewInv
<1>4. /\ DOMAIN prWork' = ReviewFields /\ prWork'.mode = prWork.mode
      /\ prWork'.tree = prWork.tree /\ prWork'.tests = prWork.tests
      /\ prWork'.at = "cases" /\ prWork'.product = status
  BY <1>1, <1>3 DEF WorkSound, ReviewFields
<1>5. TreeKnown(prWork') /\ TestsEnded(prWork')
  BY <1>2, <1>3, <1>4 DEF WorkSound, TreeKnown, TestsEnded, InFull, AfterTree, AfterTests
<1>6. ProductTried(prWork', prContract', prPreflight')
  BY <1>2, <1>4 DEF ProductTried, ProductStatuses
<1> QED
  BY <1>3, <1>4, <1>5, <1>6 DEF ReviewInv, WorkSound, GenerationTried, Reporting

LEMMA CasesSound ==
    ASSUME ReviewInv, RunCases
    PROVE  ReviewInv'
<1>1. PICK cases :
         \/ prWork' = [prWork EXCEPT !.at = "report", !.generation = "BLOCK"]
         \/ prWork' = [prWork EXCEPT !.at = "report", !.generation = "ok", !.cases = cases]
  BY Zenon DEF RunCases
<1>2. prWork # Absent /\ prWork.at = "cases" /\ UNCHANGED <<prContract, prPreflight>>
  BY DEF RunCases, ReviewAt
<1>3. WorkSound(prWork, prContract, prPreflight)
  BY <1>2 DEF ReviewInv
<1>4. /\ DOMAIN prWork' = ReviewFields /\ prWork'.mode = prWork.mode
      /\ prWork'.tree = prWork.tree /\ prWork'.tests = prWork.tests
      /\ prWork'.product = prWork.product
      /\ prWork'.at = "report" /\ prWork'.generation \in {"ok", "BLOCK"}
  BY <1>1, <1>3 DEF WorkSound, ReviewFields
<1>5. TreeKnown(prWork') /\ TestsEnded(prWork')
  BY <1>2, <1>3, <1>4 DEF WorkSound, TreeKnown, TestsEnded, InFull, AfterTree, AfterTests
<1>6. ProductTried(prWork', prContract', prPreflight')
  BY <1>2, <1>3, <1>4 DEF WorkSound, ProductTried, InFull, AfterProduct
<1> QED
  BY <1>3, <1>4, <1>5, <1>6 DEF ReviewInv, WorkSound, GenerationTried

LEMMA DraftSound ==
    ASSUME ReviewInv, DraftReport
    PROVE  ReviewInv'
<1>1. /\ prWork # Absent /\ prWork.at = "report" /\ UNCHANGED <<prContract, prPreflight>>
      /\ prWork' = [prWork EXCEPT !.at = "draft"]
  BY DEF DraftReport, ReviewAt
<1>2. WorkSound(prWork, prContract, prPreflight)
  BY <1>1 DEF ReviewInv
<1>3. /\ DOMAIN prWork' = ReviewFields /\ prWork'.mode = prWork.mode
      /\ prWork'.tree = prWork.tree /\ prWork'.tests = prWork.tests
      /\ prWork'.product = prWork.product /\ prWork'.generation = prWork.generation
      /\ prWork'.at = "draft"
  BY <1>1, <1>2 DEF WorkSound, ReviewFields
<1> QED
  BY <1>1, <1>2, <1>3
     DEF ReviewInv, WorkSound, TreeKnown, TestsEnded, ProductTried, GenerationTried, InFull,
         AfterTree, AfterTests, AfterProduct, Reporting

\* Every phase of a review leaves behind what the next ones and the verdict count on.
LEMMA ReviewInductive ==
    ASSUME ReviewInv, [PrNext]_prVars
    PROVE  ReviewInv'
<1>1. CASE RequestChanges \/ StoreSnapshot \/ UNCHANGED prVars
  <2>1. UNCHANGED <<prWork, prContract, prPreflight>>
    BY <1>1 DEF RequestChanges, StoreSnapshot, prVars
  <2> QED
    BY <2>1 DEF ReviewInv
<1>2. CASE TreeTimesOut \/ SealReport \/ ReviewDies
  BY <1>2 DEF TreeTimesOut, SealReport, ReviewDies, ReviewInv
<1>3. CASE \/ BeginReview \/ LookAtRemote \/ PrepareTree \/ RunTests \/ RunProduct
           \/ RunCases \/ DraftReport
  BY <1>3, ReviewBegins, PreflightSound, TreeSound, TestsSound, ProductSound, CasesSound,
     DraftSound
<1> QED
  BY <1>1, <1>2, <1>3 DEF PrNext

-----------------------------------------------------------------------------
(* What the statuses of the report say. *)

LEMMA WorstPasses ==
    ASSUME NEW statuses, Worst(statuses) \in {"PASS", "NOT_APPLICABLE"}
    PROVE  statuses = {"PASS"}
  BY DEF Worst

\* A dimension passes by the truth of its cases, and not without one.
LEMMA DimensionPasses ==
    ASSUME NEW cases, NEW adapter, Dimension(cases, adapter) \in {"PASS", "NOT_APPLICABLE"}
    PROVE  cases # {} /\ \A c \in cases : c.truth = "PASS"
<1>1. cases # {} /\ Dimension(cases, adapter) = Worst({c.truth : c \in cases})
  BY DEF Dimension
<1>2. {c.truth : c \in cases} = {"PASS"}
  BY <1>1, WorstPasses
<1> QED
  BY <1>1, <1>2

\* No cell of a matrix that comes to nothing worse than a pass is worse than one.
LEMMA MatrixPasses ==
    ASSUME NEW matrix, QaOutcome(matrix) \notin {"NOT_RUN", "FAIL", "BLOCK", "HOLD"}
    PROVE  \A d \in DOMAIN matrix : matrix[d] \in {"PASS", "NOT_APPLICABLE"}
  BY DEF QaOutcome

LEMMA TestsPass ==
    ASSUME NEW w, TestOutcome(w) \notin {"FAIL", "BLOCK", "HOLD", "NOT_RUN"},
           \A t \in DOMAIN w.tests : w.tests[t] \in {"PASS", "FAIL", "BLOCK"}
    PROVE  DOMAIN w.tests # {} /\ \A t \in DOMAIN w.tests : w.tests[t] = "PASS"
  BY DEF TestOutcome

\* The cells of a review that ran in full.
LEMMA CellsInFull ==
    ASSUME NEW w, InFull(w)
    PROVE  /\ DOMAIN CaseMatrix(w) = Dimensions \cup {"white_box", "black_box",
                                                      "documentation", "product"}
           /\ CaseMatrix(w)["black_box"] = Dimension({c \in w.cases : c.capable}, FALSE)
           /\ \A d \in {"boundary", "stress", "ui", "ux"} :
                 \E adapter \in BOOLEAN :
                    CaseMatrix(w)[d] = Dimension(CasesFor(w, d), adapter)
<1> DEFINE D == Dimensions \cup {"white_box", "black_box", "documentation", "product"}
           Cell(d) == CASE d = "white_box" -> IF w.diff = "PASS" THEN "PASS" ELSE "BLOCK"
                        [] d = "black_box" -> Dimension({c \in w.cases : c.capable}, FALSE)
                        [] d = "documentation" -> Documentation(w)
                        [] d = "product" -> w.product
                        [] OTHER -> Dimension(CasesFor(w, d), d \notin {"ui", "ux"})
<1>1. CaseMatrix(w) = [d \in D |-> Cell(d)]
  BY Zenon DEF CaseMatrix, InFull
<1>2. Cell("black_box") = Dimension({c \in w.cases : c.capable}, FALSE)
  BY Zenon
<1>3. ASSUME NEW d \in {"boundary", "stress", "ui", "ux"}
      PROVE  Cell(d) = Dimension(CasesFor(w, d), d \notin {"ui", "ux"})
  <2>1. d # "white_box" /\ d # "black_box" /\ d # "documentation" /\ d # "product"
    BY <1>3
  <2> QED
    BY <2>1, Zenon
<1>4. "black_box" \in D /\ {"boundary", "stress", "ui", "ux"} \subseteq D
  BY DEF Dimensions
<1> HIDE DEF Cell, D
<1>5. \A d \in D : CaseMatrix(w)[d] = Cell(d)
  BY <1>1
<1>6. DOMAIN CaseMatrix(w) = D
  BY <1>1
<1>7. ASSUME NEW d \in {"boundary", "stress", "ui", "ux"}
      PROVE  \E adapter \in BOOLEAN : CaseMatrix(w)[d] = Dimension(CasesFor(w, d), adapter)
  <2>1. CaseMatrix(w)[d] = Dimension(CasesFor(w, d), d \notin {"ui", "ux"})
    BY <1>3, <1>4, <1>5, <1>7, Zenon
  <2> QED
    BY <2>1, Zenon
<1>8. CaseMatrix(w)["black_box"] = Dimension({c \in w.cases : c.capable}, FALSE)
  BY <1>2, <1>4, <1>5
<1> QED
  BY <1>6, <1>7, <1>8 DEF D

\* What completes the matrix takes no cell of another dimension away, and a diff that
\* could not be read blocks it.
LEMMA CompletionKeeps ==
    ASSUME NEW w, NEW matrix
    PROVE  /\ \A d \in DOMAIN matrix \ {"white_box", "functional"} :
                 d \in DOMAIN Completion(w, matrix) /\ Completion(w, matrix)[d] = matrix[d]
           /\ ~Leaks(w) /\ w.diff # "PASS" =>
                 /\ "white_box" \in DOMAIN Completion(w, matrix)
                 /\ Completion(w, matrix)["white_box"] = "BLOCK"
<1> DEFINE D == (DOMAIN matrix \ {"white_box", "functional"})
                  \cup {d \in {"white_box"} : WhiteBox(w, matrix) # {}}
                  \cup {d \in {"functional"} : Targeted(w, matrix) # {}}
           Cell(d) == IF d = "white_box" THEN CHOOSE s \in WhiteBox(w, matrix) : TRUE
                      ELSE IF d = "functional" THEN CHOOSE s \in Targeted(w, matrix) : TRUE
                      ELSE matrix[d]
<1>1. Completion(w, matrix) = [d \in D |-> Cell(d)]
  BY Zenon DEF Completion
<1>2. \A d : d # "white_box" /\ d # "functional" => Cell(d) = matrix[d]
  BY Zenon
<1>3. \A d \in DOMAIN matrix \ {"white_box", "functional"} : d \in D
  BY Zenon
<1>4. ASSUME ~Leaks(w), w.diff # "PASS"
      PROVE  "white_box" \in D /\ Cell("white_box") = "BLOCK"
  <2>1. WhiteBox(w, matrix) = {"BLOCK"}
    BY <1>4 DEF WhiteBox
  <2>2. \A s : s \in {"BLOCK"} => s = "BLOCK"
    OBVIOUS
  <2>3. (CHOOSE s \in {"BLOCK"} : TRUE) = "BLOCK"
    BY Zenon
  <2> QED
    BY <2>1, <2>3, Zenon
<1> HIDE DEF D, Cell
<1> QED
  BY <1>1, <1>2, <1>3, <1>4

-----------------------------------------------------------------------------
(* The verdict. *)

\* What has to hold before a review allows anything to go on.
LEMMA AllowedMeans ==
    ASSUME NEW w, NEW preflight, ExecutionAllowed(w, preflight)
    PROVE  /\ w.mode # "dry" /\ w.tree # "blocked"
           /\ ~Leaks(w)
           /\ TestOutcome(w) \notin {"FAIL", "BLOCK", "HOLD", "NOT_RUN"}
           /\ ~CaseBlock(w)
           /\ QaOutcome(Completion(w, CaseMatrix(w)))
                  \notin {"NOT_RUN", "FAIL", "BLOCK", "HOLD"}
           /\ w.mode = "comprehensive" => w.product \in {"PASS", "NOT_RUN"}
<1>1. /\ w.mode # "dry" /\ w.tree # "blocked"
      /\ Conclusion(w, preflight) = "NO_BLOCKING_FINDINGS"
  BY DEF ExecutionAllowed
<1>2. /\ ~Leaks(w) /\ ~Unassessed(preflight)
      /\ TestOutcome(w) \notin {"FAIL", "BLOCK", "HOLD", "NOT_RUN"}
      /\ FinalOutcome(w, preflight) \notin {"FAIL", "BLOCK", "HOLD", "NOT_RUN"}
      /\ ~CoverageGap(w, preflight)
  BY <1>1 DEF Conclusion
<1>3. ~CaseBlock(w) /\ FinalOutcome(w, preflight) = QaOutcome(Completion(w, CaseMatrix(w)))
  BY <1>2 DEF FinalOutcome
<1>4. w.mode = "comprehensive" => w.product \in {"PASS", "NOT_RUN"}
  BY <1>2 DEF CoverageGap
<1> QED
  BY <1>1, <1>2, <1>3, <1>4

LEMMA SeenWhenFull ==
    ASSUME NEW w, NEW preflight, WorkSound(w, prContract, preflight), w.at \in Reporting,
           ExecutionAllowed(w, preflight), w.mode = "comprehensive"
    PROVE  SeenInFull(w, preflight)
<1> DEFINE matrix == CaseMatrix(w)
           completed == Completion(w, matrix)
<1>1. w.tree = "ready" /\ InFull(w)
  BY AllowedMeans DEF WorkSound, TreeKnown, InFull, AfterTree, Reporting
<1>2. /\ w.product = "PASS" /\ w.generation = "ok"
      /\ prContract.remote => preflight = "READY"
  BY <1>1, AllowedMeans DEF WorkSound, ProductTried, GenerationTried, AfterProduct, Reporting,
                            CaseBlock
<1>3. \A d \in DOMAIN matrix \ {"white_box", "functional"} :
         matrix[d] \in {"PASS", "NOT_APPLICABLE"}
  <2>1. \A d \in DOMAIN completed : completed[d] \in {"PASS", "NOT_APPLICABLE"}
    BY AllowedMeans, MatrixPasses
  <2>2. \A d \in DOMAIN matrix \ {"white_box", "functional"} :
           d \in DOMAIN completed /\ completed[d] = matrix[d]
    BY CompletionKeeps
  <2> QED
    BY <2>1, <2>2
<1>4. "black_box" \in DOMAIN matrix /\ {"boundary", "stress", "ui", "ux"} \subseteq DOMAIN matrix
  BY <1>1, CellsInFull DEF Dimensions
<1>5. ASSUME NEW d \in {"boundary", "stress", "ui", "ux"}
      PROVE  CasesFor(w, d) # {} /\ \A c \in CasesFor(w, d) : c.truth = "PASS"
  <2>1. PICK adapter \in BOOLEAN : matrix[d] = Dimension(CasesFor(w, d), adapter)
    BY <1>1, CellsInFull
  <2>2. matrix[d] \in {"PASS", "NOT_APPLICABLE"}
    BY <1>3, <1>4
  <2> QED
    BY <2>1, <2>2, DimensionPasses
<1>6. \A c \in w.cases : c.capable => c.truth = "PASS"
  <2> DEFINE capable == {c \in w.cases : c.capable}
  <2>1. matrix["black_box"] = Dimension(capable, FALSE)
    BY <1>1, CellsInFull
  <2>2. matrix["black_box"] \in {"PASS", "NOT_APPLICABLE"}
    BY <1>3, <1>4
  <2> HIDE DEF capable
  <2>3. PICK adapter : matrix["black_box"] = Dimension(capable, adapter)
    BY <2>1
  <2>4. \A c \in capable : c.truth = "PASS"
    BY <2>2, <2>3, DimensionPasses
  <2> QED
    BY <2>4 DEF capable
<1>7. ASSUME NEW c \in w.cases, c.dims \cap {"boundary", "stress", "ui", "ux"} # {}
      PROVE  c.truth = "PASS"
  <2>1. PICK d \in {"boundary", "stress", "ui", "ux"} : d \in c.dims
    BY <1>7
  <2>2. c \in CasesFor(w, d)
    BY <2>1 DEF CasesFor
  <2> QED
    BY <1>5, <2>2
<1> HIDE DEF matrix, completed
<1> QED
  BY <1>1, <1>2, <1>5, <1>6, <1>7 DEF SeenInFull

LEMMA InvEarns ==
    ASSUME ReviewInv
    PROVE  VerdictEarned
<1> SUFFICES ASSUME ReviewAt("report") \/ ReviewAt("draft"),
                    ExecutionAllowed(prWork, prPreflight)
             PROVE  /\ prWork.diff = "PASS" /\ ~PrFacts[ReviewHead].leak
                    /\ DOMAIN prWork.tests # {}
                    /\ \A t \in DOMAIN prWork.tests : prWork.tests[t] = "PASS"
                    /\ prWork.mode = "comprehensive" => SeenInFull(prWork, prPreflight)
  BY DEF VerdictEarned
<1>1. prWork.at \in Reporting /\ WorkSound(prWork, prContract, prPreflight)
  BY DEF ReviewAt, Reporting, ReviewInv
<1>2. prWork.diff = "PASS"
  <2> SUFFICES ASSUME prWork.diff # "PASS"
               PROVE  FALSE
    OBVIOUS
  <2> DEFINE completed == Completion(prWork, CaseMatrix(prWork))
  <2>1. "white_box" \in DOMAIN completed /\ completed["white_box"] = "BLOCK"
    BY AllowedMeans, CompletionKeeps
  <2>2. completed["white_box"] \in {"PASS", "NOT_APPLICABLE"}
    BY <2>1, AllowedMeans, MatrixPasses
  <2> QED
    BY <2>1, <2>2
<1>3. ~PrFacts[ReviewHead].leak
  BY <1>2, AllowedMeans DEF Leaks, ReviewHead
<1>4. \A t \in DOMAIN prWork.tests : prWork.tests[t] \in {"PASS", "FAIL", "BLOCK"}
  BY <1>1, AllowedMeans DEF WorkSound, TestsEnded, Reporting, AfterTests
<1>5. DOMAIN prWork.tests # {} /\ \A t \in DOMAIN prWork.tests : prWork.tests[t] = "PASS"
  BY <1>4, AllowedMeans, TestsPass
<1> QED
  BY <1>1, <1>2, <1>3, <1>5, SeenWhenFull

\* Whatever the heads, their facts, the configuration and the order of pushes, reviews and
\* kills: no review lets what follows it go on unless its diff, its tests and, in full,
\* the product, every dimension and the remote host have passed (review._build_report,
\* review_gate).
THEOREM VerdictsEarned == PrSpec => []VerdictEarned
<1>1. PrInit => ReviewInv
  BY DEF PrInit, ReviewInv
<1>2. ReviewInv /\ [PrNext]_prVars => ReviewInv'
  BY ReviewInductive
<1>3. ReviewInv => VerdictEarned
  BY InvEarns
<1> QED
  BY <1>1, <1>2, <1>3, PTL DEF PrSpec

-----------------------------------------------------------------------------
(* The inductive invariant: nobody knows a revision the request has not    *)
(* had, and no node whose revision was compared is newer than the stored   *)
(* snapshot.                                                               *)

Past(rev) == rev \in Nat /\ rev <= prLive.rev

LiveTyped == prLive.rev \in Nat

SnapshotPast == prSnapshot # Absent => Past(prSnapshot.rev)

WorkPast == prWork # Absent => "snapshot" \in DOMAIN prWork /\ Past(prWork.snapshot.rev)

ReportsPast ==
    \A head \in PrHeads : prReports[head] # Absent => Past(prReports[head].rev)

NodesPast ==
    \A head \in PrHeads :
        qaNodes[head] # Absent =>
            /\ Past(qaNodes[head].rev)
            /\ qaNodes[head].compared => qaNodes[head].rev <= prSnapshot.rev

Tables == prReports = [h \in PrHeads |-> prReports[h]] /\ qaNodes = [h \in PrHeads |-> qaNodes[h]]

ProjectionInv == LiveTyped /\ SnapshotPast /\ WorkPast /\ ReportsPast /\ NodesPast /\ Tables

\* A step that leaves the request and the stored snapshot alone keeps what is past.
LEMMA StillPast ==
    ASSUME ProjectionInv, UNCHANGED <<prLive, prSnapshot, qaNodes>>,
           WorkPast', ReportsPast', Tables'
    PROVE  ProjectionInv'
  BY DEF ProjectionInv, LiveTyped, SnapshotPast, NodesPast, Past

LEMMA RequestInv ==
    ASSUME ProjectionInv, RequestChanges, UNCHANGED qaNodes
    PROVE  ProjectionInv'
<1>1. prLive'.rev = prLive.rev + 1 /\ prLive.rev \in Nat
  BY DEF RequestChanges, ProjectionInv, LiveTyped
<1>2. UNCHANGED <<prSnapshot, prWork, prReports>>
  BY DEF RequestChanges
<1>3. \A rev : Past(rev) => Past(rev)'
  BY <1>1 DEF Past
<1> QED
  BY <1>1, <1>2, <1>3
     DEF ProjectionInv, LiveTyped, SnapshotPast, WorkPast, ReportsPast, NodesPast, Tables

LEMMA SnapshotInv ==
    ASSUME ProjectionInv, StoreSnapshot, UNCHANGED qaNodes
    PROVE  ProjectionInv'
<1>1. /\ prSnapshot'.rev = prLive.rev
      /\ UNCHANGED <<prLive, prWork, prReports>>
  BY DEF StoreSnapshot, Read
<1>2. \A rev : Past(rev)' = Past(rev)
  BY <1>1 DEF Past
<1>3. NodesPast' /\ SnapshotPast' /\ LiveTyped'
  BY <1>1 DEF ProjectionInv, LiveTyped, NodesPast, SnapshotPast, Past
<1>4. WorkPast' /\ ReportsPast' /\ Tables'
  BY <1>1, <1>2 DEF ProjectionInv, WorkPast, ReportsPast, Tables
<1> QED
  BY <1>3, <1>4 DEF ProjectionInv

LEMMA BeginInv ==
    ASSUME ProjectionInv, BeginReview, UNCHANGED qaNodes
    PROVE  ProjectionInv'
<1>1. PICK mode \in Modes, snapshot \in (Read \cup {prSnapshot}) \ {Absent} :
         prWork' = NewReview(mode, snapshot)
  BY DEF BeginReview
<1>2. UNCHANGED <<prLive, prSnapshot, prReports>>
  BY DEF BeginReview
<1>3. Past(snapshot.rev)
  BY DEF ProjectionInv, LiveTyped, SnapshotPast, Past, Read
<1>4. prWork'.snapshot = snapshot /\ "snapshot" \in DOMAIN prWork'
  BY <1>1 DEF NewReview
<1>5. WorkPast'
  BY <1>2, <1>3, <1>4 DEF WorkPast, Past
<1> QED
  BY <1>2, <1>5, StillPast DEF ProjectionInv, ReportsPast, Tables, Past

\* A review that goes on is still of the snapshot it began with.
LEMMA WorkGoesOn ==
    ASSUME ProjectionInv, UNCHANGED <<prLive, prSnapshot, prReports, qaNodes>>,
           prWork' # Absent =>
               "snapshot" \in DOMAIN prWork' /\ prWork # Absent
                  /\ prWork'.snapshot = prWork.snapshot
    PROVE  ProjectionInv'
  BY StillPast DEF ProjectionInv, WorkPast, ReportsPast, Tables, Past

LEMMA WritesInv ==
    ASSUME ProjectionInv, prWork # Absent, NEW sealed, Writes(sealed),
           UNCHANGED <<prLive, prSnapshot, qaNodes>>,
           prWork' # Absent =>
               "snapshot" \in DOMAIN prWork' /\ prWork'.snapshot = prWork.snapshot
    PROVE  ProjectionInv'
<1>1. Past(prWork.snapshot.rev)
  BY DEF ProjectionInv, WorkPast
<1>2. /\ prReports' = [h \in PrHeads |-> prReports'[h]]
      /\ \A h \in PrHeads : prReports'[h] = prReports[h]
                            \/ prReports'[h].rev = prWork.snapshot.rev
  BY DEF Writes, ProjectionInv, Tables
<1>3. ReportsPast'
  BY <1>1, <1>2 DEF ProjectionInv, ReportsPast, Past
<1>4. WorkPast' /\ Tables'
  BY <1>1, <1>2 DEF ProjectionInv, WorkPast, Tables, Past
<1> QED
  BY <1>3, <1>4, StillPast

LEMMA ReviewStepInv ==
    ASSUME ProjectionInv, UNCHANGED qaNodes,
           \/ LookAtRemote \/ PrepareTree \/ TreeTimesOut \/ RunTests \/ RunProduct
           \/ RunCases \/ DraftReport \/ SealReport \/ ReviewDies
    PROVE  ProjectionInv'
<1>1. prWork # Absent
  <2>1. LookAtRemote \/ ReviewDies => prWork # Absent
    BY DEF LookAtRemote, ReviewDies, ReviewAt
  <2>2. PrepareTree => prWork # Absent
    BY DEF PrepareTree, ReviewAt
  <2>3. TreeTimesOut => prWork # Absent
    BY DEF TreeTimesOut, ReviewAt
  <2>4. RunTests => prWork # Absent
    BY DEF RunTests, ReviewAt
  <2>5. RunProduct => prWork # Absent
    BY DEF RunProduct, ReviewAt
  <2>6. RunCases => prWork # Absent
    BY DEF RunCases, ReviewAt
  <2>7. DraftReport \/ SealReport => prWork # Absent
    BY Zenon DEF DraftReport, SealReport, ReviewAt
  <2> QED
    BY <2>1, <2>2, <2>3, <2>4, <2>5, <2>6, <2>7
<1>2. "snapshot" \in DOMAIN prWork
  BY <1>1 DEF ProjectionInv, WorkPast
<1>3. CASE LookAtRemote
  BY <1>1, <1>2, <1>3, WorkGoesOn DEF LookAtRemote
<1>4. CASE PrepareTree
  <2>1. UNCHANGED <<prLive, prSnapshot, prReports>>
    BY <1>4 DEF PrepareTree
  <2>2. PICK tree \in {"ready", "blocked", "planned"} :
           \E diff \in DiffStatuses(ReviewHead, tree) :
              prWork' = [prWork EXCEPT !.at = "tests", !.tree = tree, !.diff = diff,
                                       !.broken = prTrees[ReviewHead] = "partial"]
    BY <1>4 DEF PrepareTree
  <2>3. "snapshot" \in DOMAIN prWork' /\ prWork'.snapshot = prWork.snapshot
    BY <1>2, <2>2
  <2> QED
    BY <1>1, <2>1, <2>3, WorkGoesOn
<1>5. CASE TreeTimesOut
  BY <1>5, WorkGoesOn DEF TreeTimesOut
<1>6. CASE RunTests
  <2>1. /\ UNCHANGED <<prLive, prSnapshot, prReports>>
        /\ \E tests, phase : prWork' = [prWork EXCEPT !.tests = tests, !.at = phase]
    BY <1>6 DEF RunTests
  <2>2. "snapshot" \in DOMAIN prWork' /\ prWork'.snapshot = prWork.snapshot
    BY <1>2, <2>1
  <2> QED
    BY <1>1, <2>1, <2>2, WorkGoesOn
<1>7. CASE RunProduct
  <2>1. /\ UNCHANGED <<prLive, prSnapshot, prReports>>
        /\ \E status, cases : prWork' = [prWork EXCEPT !.at = "cases", !.product = status,
                                                       !.cases = cases]
    BY <1>7 DEF RunProduct
  <2>2. "snapshot" \in DOMAIN prWork' /\ prWork'.snapshot = prWork.snapshot
    BY <1>2, <2>1
  <2> QED
    BY <1>1, <2>1, <2>2, WorkGoesOn
<1>8. CASE RunCases
  <2>1. /\ UNCHANGED <<prLive, prSnapshot, prReports>>
        /\ \/ prWork' = [prWork EXCEPT !.at = "report", !.generation = "BLOCK"]
           \/ \E cases : prWork' = [prWork EXCEPT !.at = "report", !.generation = "ok",
                                                  !.cases = cases]
    BY <1>8 DEF RunCases
  <2>2. "snapshot" \in DOMAIN prWork' /\ prWork'.snapshot = prWork.snapshot
    BY <1>2, <2>1
  <2> QED
    BY <1>1, <2>1, <2>2, WorkGoesOn
<1>9. CASE DraftReport
  <2>1. Writes(FALSE) /\ UNCHANGED <<prLive, prSnapshot>>
        /\ prWork' = [prWork EXCEPT !.at = "draft"]
    BY <1>9 DEF DraftReport
  <2>2. "snapshot" \in DOMAIN prWork' /\ prWork'.snapshot = prWork.snapshot
    BY <1>2, <2>1
  <2> QED
    BY <1>1, <2>1, <2>2, WritesInv
<1>10. CASE SealReport
  <2>1. Writes(TRUE) /\ UNCHANGED <<prLive, prSnapshot>> /\ prWork' = Absent
    BY <1>10 DEF SealReport
  <2> QED
    BY <1>1, <2>1, WritesInv
<1>11. CASE ReviewDies
  BY <1>11, WorkGoesOn DEF ReviewDies
<1> QED
  BY <1>3, <1>4, <1>5, <1>6, <1>7, <1>8, <1>9, <1>10, <1>11

\* A projection brings in the revision of the stored snapshot, if it can be compared.
LEMMA ProjectInv ==
    ASSUME ProjectionInv, ProjectReview
    PROVE  ProjectionInv'
<1>1. PICK head \in PrHeads, strict \in BOOLEAN :
         /\ Projectable(head, strict)
         /\ qaNodes' = [qaNodes EXCEPT ![head] =
               [rev |-> prReports[head].rev, compared |-> RevisionsCompared(head),
                allowed |-> prReports[head].allowed, status |-> ValidationStatus(head)]]
  BY DEF ProjectReview
<1>2. UNCHANGED <<prLive, prSnapshot, prWork, prReports>>
  BY DEF ProjectReview, prVars
<1>3. /\ Past(prReports[head].rev)
      /\ RevisionsCompared(head) => prReports[head].rev = prSnapshot.rev
  BY <1>1 DEF Projectable, SnapshotCurrent, ProjectionInv, ReportsPast
<1>4. /\ qaNodes' = [h \in PrHeads |-> qaNodes'[h]]
      /\ \A h \in PrHeads :
            \/ qaNodes'[h] = qaNodes[h]
            \/ /\ qaNodes'[h].rev = prReports[head].rev
               /\ qaNodes'[h].compared = RevisionsCompared(head)
  BY <1>1 DEF ProjectionInv, Tables
<1>5. NodesPast'
  BY <1>2, <1>3, <1>4 DEF ProjectionInv, SnapshotPast, NodesPast, Past
<1>6. LiveTyped' /\ SnapshotPast' /\ WorkPast' /\ ReportsPast' /\ Tables'
  BY <1>2, <1>4 DEF ProjectionInv, LiveTyped, SnapshotPast, WorkPast, ReportsPast, Tables, Past
<1> QED
  BY <1>5, <1>6 DEF ProjectionInv

LEMMA Step == ProjectionInv /\ [QaNext]_<<prVars, qaNodes>> => ProjectionInv'
<1> SUFFICES ASSUME ProjectionInv, [QaNext]_<<prVars, qaNodes>> PROVE ProjectionInv'
  OBVIOUS
<1>1. CASE UNCHANGED <<prVars, qaNodes>>
  BY <1>1 DEF prVars, ProjectionInv, LiveTyped, SnapshotPast, WorkPast, ReportsPast,
              NodesPast, Tables, Past
<1> QED
  BY <1>1, RequestInv, SnapshotInv, BeginInv, ReviewStepInv, ProjectInv DEF QaNext, PrNext

\* Nobody knows a revision the request has not had, and no node whose revision was
\* compared is newer than the stored snapshot.
THEOREM ProjectionInvariance == QaSpec => []ProjectionInv
<1>1. PrInit /\ QaInit => ProjectionInv
  <2> SUFFICES ASSUME PrInit, QaInit PROVE ProjectionInv
    OBVIOUS
  <2>1. prLive.rev = 1
    BY DEF PrInit
  <2>2. prSnapshot = Absent /\ prWork = Absent /\ prReports = [h \in PrHeads |-> Absent]
        /\ qaNodes = [h \in PrHeads |-> Absent]
    BY DEF PrInit, QaInit
  <2> QED
    BY <2>1, <2>2
       DEF ProjectionInv, LiveTyped, SnapshotPast, WorkPast, ReportsPast, NodesPast, Tables
<1> QED
  BY <1>1, Step, PTL DEF QaSpec

\* A projection whose revision was compared never brings in a review of a revision older
\* than one that came in the same way (review_adapter.load_review_artifact), wherever the
\* head was pushed and whichever reports and snapshots have no date.
THEOREM GraphFollows == QaSpec => GraphNeverBackwards
<1> DEFINE Follows ==
      \A head \in PrHeads : qaNodes'[head] # qaNodes[head] /\ qaNodes'[head].compared =>
          \A other \in PrHeads :
             qaNodes[other] # Absent /\ qaNodes[other].compared =>
                qaNodes'[head].rev >= qaNodes[other].rev
<1>1. ProjectionInv /\ [QaNext]_<<prVars, qaNodes>> => [Follows]_qaNodes
  <2> SUFFICES ASSUME ProjectionInv, ProjectReview PROVE Follows
    BY DEF QaNext
  <2>1. PICK head \in PrHeads, strict \in BOOLEAN :
           /\ Projectable(head, strict)
           /\ qaNodes' = [qaNodes EXCEPT ![head] =
                 [rev |-> prReports[head].rev, compared |-> RevisionsCompared(head),
                  allowed |-> prReports[head].allowed, status |-> ValidationStatus(head)]]
    BY DEF ProjectReview
  <2>2. /\ \A h \in PrHeads \ {head} : qaNodes'[h] = qaNodes[h]
        /\ qaNodes'[head].rev = prReports[head].rev
        /\ qaNodes'[head].compared = RevisionsCompared(head)
    BY <2>1 DEF ProjectionInv, Tables
  <2>3. RevisionsCompared(head) => prSnapshot # Absent /\ prReports[head].rev = prSnapshot.rev
    BY <2>1 DEF Projectable, SnapshotCurrent, RevisionsCompared
  <2>4. prSnapshot # Absent => prSnapshot.rev \in Nat
    BY DEF ProjectionInv, SnapshotPast, Past
  <2>5. \A other \in PrHeads : qaNodes[other] # Absent /\ qaNodes[other].compared =>
           qaNodes[other].rev \in Nat /\ qaNodes[other].rev <= prSnapshot.rev
    BY DEF ProjectionInv, NodesPast, Past
  <2> QED
    BY <2>2, <2>3, <2>4, <2>5
<1> QED
  BY <1>1, ProjectionInvariance, PTL DEF QaSpec, GraphNeverBackwards
=============================================================================
