------------------------------ MODULE MCCheckout ------------------------------
(* Checkout on small sets of requests, for TLC. *)
EXTENDS Checkout, TLC

\* Requests, vendors and job runs are interchangeable.  Liveness runs do not
\* use the symmetry.
Symmetry == Permutations(Pays) \cup Permutations(Vendors) \cup Permutations(Jobs)
===============================================================================
