---------------------------- MODULE MCCatalogue ----------------------------
(* The catalogue on small sets: a generation of three seats and two of two;  *)
(* six pages of one row and room for a seventh, so that the pager leaves     *)
(* pages out on both sides, and one of those rows under the filter; the      *)
(* dialogs of the events and the users, twice opened over two rows (the      *)
(* venues differ in Stored alone).                                           *)
EXTENDS Catalogue

CONSTANTS g1, g2, all, some

MCPlan == [g \in {g1, g2} |-> IF g = g1 THEN 3 ELSE 2]
MCSize == [f \in {all, some} |-> IF f = all THEN 6 ELSE 1]
=============================================================================
