---------------------------- MODULE QaProjection ----------------------------
(***************************************************************************)
(* Reviews in the knowledge graph (graph_engineering/qa_adapter.py and     *)
(* review_adapter.py): the projection of a report file into the node of a  *)
(* pull request.                                                           *)
(*                                                                         *)
(* The report on disk was made from some snapshot; the projection compares *)
(* it with the snapshot that is stored now, and its revision only if both  *)
(* have a date.  The workflow projects strictly                            *)
(* (graph_engineering/workflow.py), the command line need not.             *)
(***************************************************************************)
EXTENDS PullReview

VARIABLE qaNodes   \* head -> Absent or the node of the request: [rev, compared, allowed,
                   \* status], compared saying that the revision was

QaInit == qaNodes = [head \in PrHeads |-> Absent]

\* The mutant: the revision of the request is not compared.
AnyRevisionCurrent(head) ==
    prSnapshot # Absent => prSnapshot.head = head

\* Whether the revisions can be compared: updated_at is optional on either side.
RevisionsCompared(head) == prSnapshot # Absent /\ prSnapshot.dated /\ prReports[head].dated

\* load_review_artifact: a stored snapshot has to be of this head and, where that can be
\* compared, of this revision, asked for or not.
SnapshotCurrent(head) ==
    /\ prSnapshot # Absent => prSnapshot.head = head
    /\ RevisionsCompared(head) => prSnapshot.rev = prReports[head].rev

\* What only a strict projection asks for: the hash, a snapshot, of a request that is
\* open.
StrictlyValid(head) ==
    /\ prReports[head].sealed
    /\ prSnapshot # Absent /\ prSnapshot.open

\* A result file or an evidence file that is missing ends the projection; nothing is
\* written then.
Projectable(head, strict) ==
    /\ prReports[head] # Absent
    /\ SnapshotCurrent(head)
    /\ strict => StrictlyValid(head)

ValidationStatus(head) == IF prReports[head].sealed THEN "PASS" ELSE "HOLD"

ProjectReview ==
    /\ \E head \in PrHeads, strict \in BOOLEAN :
          /\ Projectable(head, strict)
          /\ qaNodes' = [qaNodes EXCEPT ![head] =
                [rev |-> prReports[head].rev, compared |-> RevisionsCompared(head),
                 allowed |-> prReports[head].allowed, status |-> ValidationStatus(head)]]
    /\ UNCHANGED prVars

QaNext == (PrNext /\ UNCHANGED qaNodes) \/ ProjectReview

QaSpec == PrInit /\ QaInit /\ [][QaNext]_<<prVars, qaNodes>>

-----------------------------------------------------------------------------
(* Properties. *)

\* Where dates are kept the graph follows the request: a projection whose revision was
\* compared never brings in a review of a revision older than one that came in the same
\* way, although reports of all heads stay on disk and a push can take the request back
\* to a head that was reviewed before (review_adapter.load_review_artifact).  An undated
\* report goes by its head alone and can bring in an older review of it.
GraphNeverBackwards ==
    [][\A head \in PrHeads : qaNodes'[head] # qaNodes[head] /\ qaNodes'[head].compared =>
          \A other \in PrHeads :
             qaNodes[other] # Absent /\ qaNodes[other].compared =>
                qaNodes'[head].rev >= qaNodes[other].rev]_qaNodes
=============================================================================
