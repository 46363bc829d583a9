---------------------------- MODULE MCSeatServer ----------------------------
(* services/seat-service on small sets.  Calls of a kind and users are       *)
(* interchangeable; the buyers and joins of the waiting room are named like  *)
(* the users and calls of the holds, so that one small group serves both.    *)
EXTENDS SeatServer, TLC

Symmetry == Permutations(LockRequests) \union Permutations(Sweeps) \union Permutations(Users)
=============================================================================
