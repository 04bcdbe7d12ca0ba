--------------------------- MODULE MCVendorPayout ---------------------------
(* VendorPayout on small sets of payouts and job runs, for TLC. *)
EXTENDS VendorPayout, TLC

\* Payouts and job runs are interchangeable.
Symmetry == Permutations(Payouts) \cup Permutations(Jobs)
=============================================================================
