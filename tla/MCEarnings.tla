----------------------------- MODULE MCEarnings -----------------------------
\* A small instance of Earnings for TLC: two parts of a cent each, so that their
\* shares are rounded up or down, and a third material not rated at first.
EXTENDS Earnings, TLC

CONSTANTS pla, petg, resin

MCItemTotal == [i \in Items |-> 1]
MCTechOf == (pla :> "fdm") @@ (petg :> "fdm") @@ (resin :> "sla")
MCFirstMaterial == [i \in Items |-> pla]
MCFirstRate == (pla :> 5000) @@ (petg :> 4000) @@ (resin :> None)

\* The parts cost the same; they and the requests are interchangeable.
Symmetry == Permutations(Items) \cup Permutations(Slots)
=============================================================================
