--------------------------- MODULE IssueSnapshot ---------------------------
(***************************************************************************)
(* Gitea issues and the snapshot of the open ones (issues.py,              *)
(* issues-snapshot.json), which the issue commands write and the fix       *)
(* commands read.                                                          *)
(*                                                                         *)
(* An issue is [open, ticket, text]: ticket is the "[Redmine #n]" of its   *)
(* title, NoValue for an issue opened by hand; text is the version         *)
(* <<ticket, number>> of the ticket its body was taken from.  A body       *)
(* carries the description and the comments of its ticket, and with them   *)
(* every "Redmine #n" they contain.                                        *)
(***************************************************************************)
EXTENDS WriteLedger

CONSTANTS Tickets,       \* Redmine tickets
          Mentions,      \* <<text, t>>: a text that says "Redmine #t" of a ticket t
          CaseTickets    \* <<i, t>>: a case of issue i was generated from ticket t

Texts == Tickets \X Nat

ASSUME SnapshotAssumption ==
    /\ NoValue \notin Tickets
    /\ Mentions \subseteq Texts \X Tickets /\ CaseTickets \subseteq Nat \X Tickets

VARIABLE snapshot   \* issues-snapshot.json: the open issues by number

\* _redmine_refs: the tickets the title and the body name.
Names(x) == ({x.ticket} \ {NoValue}) \cup {t \in Tickets : <<x.text, t>> \in Mentions}

OpenItems(issues) == [i \in {j \in DOMAIN issues : issues[j].open} |-> issues[i]]
=============================================================================
