--------------------------- MODULE MCTaskTopology ---------------------------
(* Every dependency relation on a few nodes, self-loops and cycles included. *)
EXTENDS TaskTopology

AllNodes == 1..4
\* Declared against the dependency direction of many of the relations, so that
\* the descendants loop needs several passes.
Declared == <<3, 1, 4, 2>>
AllRelations == [AllNodes -> SUBSET AllNodes]
=============================================================================
