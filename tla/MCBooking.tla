----------------------------- MODULE MCBooking -----------------------------
(* Checkout, payment and ticketing on small sets of calls.  Calls of a kind  *)
(* are interchangeable, so the safety runs divide by their permutations.     *)
EXTENDS Booking, TLC

Symmetry == UNION {Permutations(S) : S \in
    {Seats, Checkouts, Pays, Confirms, Cancels, Refunds, Keys}}
=============================================================================
