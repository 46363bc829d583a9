------------------------------- MODULE Pager -------------------------------
(* renderPageNumbers, the same code on the events page and on the admin's    *)
(* events and venues pages: which page numbers the pager offers.             *)
EXTENDS Integers

MaxVisible == 5

Least(a, b) == IF a < b THEN a ELSE b
Most(a, b) == IF a < b THEN b ELSE a

(* The run of numbers around the page, between the first and the last        *)
From(page, total) == IF page > 2 /\ page >= total - 1 THEN total - 3 ELSE Most(2, page - 1)
(* Slip: the last page counts as its own neighbour. *)
To_Short(page, total) == IF page <= 2 THEN 4 ELSE Least(total - 2, page + 1)
To(page, total) == IF page <= 2 THEN 4 ELSE Least(total - 1, page + 1)

PageNumbers(page, total) ==
    IF total <= MaxVisible THEN 1 .. total
    ELSE {1, total} \union (From(page, total) .. To(page, total))

(* Where the pager has an ellipsis, it stands for pages it leaves out.       *)
EllipsisBefore(page, total) == total > MaxVisible /\ From(page, total) > 2
EllipsisAfter(page, total) == total > MaxVisible /\ To(page, total) < total - 1

(* From a page that exists one click leads to the first page, the last, the  *)
(* one before and the one after, every number offered is a page, and what is *)
(* left out between two numbers is marked.                                   *)
PagerLeadsOn(page, total) ==
    /\ PageNumbers(page, total) \subseteq 1 .. total
    /\ {1, total} \union ({page - 1, page, page + 1} \intersect 1 .. total)
            \subseteq PageNumbers(page, total)
    /\ \A n \in 1 .. total \ PageNumbers(page, total) :
            (n < page /\ EllipsisBefore(page, total)) \/ (n > page /\ EllipsisAfter(page, total))
=============================================================================
