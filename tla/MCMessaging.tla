----------------------------- MODULE MCMessaging -----------------------------
\* Small instances of Messaging for TLC.
EXTENDS Messaging, TLC

\* The messages, the files and the handlers' slots are interchangeable.
Symmetry == Permutations(Keys) \cup Permutations(Files) \cup Permutations(Slots)
=============================================================================
