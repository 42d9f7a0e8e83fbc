------------------------------ MODULE Handoff ------------------------------
(***************************************************************************)
(* What Quality Pilot hands over to the trackers, composed.                *)
(*                                                                         *)
(* The issue, wiki, fix, review and publication commands share the write   *)
(* ledger, the result files it reads and the issue snapshot; the rest of   *)
(* their files is their own.  A desk is a group of commands that may be    *)
(* used in any interleaving with those of the other desks at work.         *)
(***************************************************************************)
EXTENDS IssueExchange, WikiHandoff, ReviewReply, Delivery

CONSTANT DeskSets     \* the sets of desks that work together

AllDesks == {"issues", "wiki", "review", "fix", "publish"}

ASSUME DeskAssumption == DeskSets \subseteq SUBSET AllDesks

VARIABLE desks        \* the desks at work

handoffVars == <<desks, ledgerVars, issueVars, wikiVars, reviewVars, deliveryVars>>

HandoffInit ==
    /\ desks \in DeskSets
    /\ LedgerInit /\ IssueInit /\ WikiInit /\ ReviewInit /\ DeliveryInit

IssueDesk == "issues" \in desks /\ IssueNext /\ UNCHANGED <<wikiVars, reviewVars, deliveryVars>>

WikiDesk == "wiki" \in desks /\ WikiNext /\ UNCHANGED <<issueVars, reviewVars, deliveryVars>>

ReviewDesk ==
    /\ "review" \in desks /\ ReviewNext
    /\ UNCHANGED <<ledgerVars, issueVars, wikiVars, deliveryVars>>

FixDesk == "fix" \in desks /\ FixNext /\ UNCHANGED <<issueVars, wikiVars, reviewVars>>

PublishDesk ==
    "publish" \in desks /\ PublishNext /\ UNCHANGED <<issueVars, wikiVars, reviewVars>>

HandoffNext ==
    /\ UNCHANGED desks
    /\ IssueDesk \/ WikiDesk \/ ReviewDesk \/ FixDesk \/ PublishDesk

HandoffSpec == HandoffInit /\ [][HandoffNext]_handoffVars
=============================================================================
