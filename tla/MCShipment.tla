------------------------------ MODULE MCShipment ------------------------------
(* Shipment on small sets of requests, for TLC. *)
EXTENDS Shipment, TLC

\* Requests are interchangeable.
Symmetry == Permutations(Buys) \cup Permutations(Voids)
===============================================================================
