----------------------------- MODULE MCHandoff -----------------------------
(* Small instances of Handoff. *)
EXTENDS Handoff

CONSTANTS t1, t2

MCTickets == {t1, t2}

\* The number of t1 begins that of t2, and the first text of t2 names t1: t2 is distinct,
\* t1 is not.
MCPrefix == {<<t1, t2>>}
MCMentions == {<<<<t2, 0>>, t1>>}

\* The other instance: the first text of t1 names t2.
MCMentioned == {<<<<t1, 0>>, t2>>}

\* An edit of t2 puts internal text into it.
MCLeakyTexts == {<<t2, 1>>}

\* A case of the first issue was generated from t2.
MCCaseTickets == {<<1, t2>>}

MCDeskSets ==
    {{"issues"}, {"wiki"}, {"review"}, {"fix"}, {"publish"}, {"issues", "fix"},
     {"wiki", "fix"}}

MCIssueDesk == {{"issues"}}

\* What each set of desks may do.
Budget(issue, wiki, delivery) ==
    edits = MaxEdits /\ effort = issue /\ wikiEffort = wiki /\ deliveryEffort = delivery

MCHandoffInit ==
    /\ HandoffInit
    /\ CASE desks = {"issues"} ->
                Budget(IF ~careful THEN 5 ELSE IF labelled THEN 8 ELSE 7, 0, 0)
         [] desks = {"issues", "fix"} -> Budget(2, 0, 1)
         [] desks = {"wiki", "fix"} -> Budget(0, 2, 1)
         [] desks = {"fix"} -> Budget(0, 0, 3)
         [] desks = {"wiki"} -> Budget(0, 5, 0)
         [] desks = {"publish"} -> Budget(0, 0, 4)
         [] OTHER -> Budget(0, 0, 0)
    \* What is labelled matters to a careful issue desk and to TraceTrue, careful to the
    \* issue desk and to what two desks do to the ledger.
    /\ "issues" \notin desks \/ ~careful => labelled
    /\ desks \in {{"fix"}, {"review"}, {"publish"}} => careful
    /\ desks = {"wiki"} => ~careful

MCHandoffSpec == MCHandoffInit /\ [][HandoffNext]_handoffVars
=============================================================================
