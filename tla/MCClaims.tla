------------------------------ MODULE MCClaims ------------------------------
\* Small instances of Claims for TLC.
EXTENDS Claims, TLC

\* Guests' rows, projects, orders and the requests' slots are interchangeable.
Symmetry == Permutations(Guests) \cup Permutations(Projects)
               \cup Permutations(Orders) \cup Permutations(Slots)

\* Whose account has which e-mail address.
CONSTANTS ann, bob, annMail, bobMail
MCEmailOf == (ann :> annMail) @@ (bob :> bobMail)
=============================================================================
