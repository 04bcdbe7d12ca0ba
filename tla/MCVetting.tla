------------------------------ MODULE MCVetting ------------------------------
\* Small instances of Vetting for TLC.
EXTENDS Vetting, TLC

\* Vendors, technologies of which all or none are required, invitations and the
\* handlers' slots are interchangeable.
Symmetry == Permutations(Vendors) \cup Permutations(Invites) \cup Permutations(Slots)
               \cup (IF Required = Technologies THEN Permutations(Technologies) ELSE {})
=============================================================================
