----------------------------- MODULE MCAccounts -----------------------------
(* Accounts on small sets: the account of the seed and one to be registered; *)
(* two tabs of a browser, one with a page and one with the forms.            *)
EXTENDS Accounts

CONSTANTS i1, i2, e1, e2, page, form

MCEmail == [i \in {i1, i2} |-> IF i = i1 THEN e1 ELSE e2]
MCKinds == [c \in {page, form} |->
    IF c = page THEN {"page", "admin"} ELSE {"login", "register"}]
=============================================================================
