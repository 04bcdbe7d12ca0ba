-------------------------- MODULE MCOrderLifecycle --------------------------
(* OrderLifecycle on small sets of vendors and webhook requests, for TLC. *)
EXTENDS OrderLifecycle, TLC

\* Webhook requests are interchangeable, and so are vendors.
Symmetry == Permutations(Hooks) \cup Permutations(Vendors)
=============================================================================
