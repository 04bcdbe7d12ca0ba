----------------------------- MODULE MCQuoting -----------------------------
\* Small instances of Quoting for TLC.
EXTENDS Quoting, TLC

\* The files are interchangeable, and so are the handlers' slots.
Symmetry == Permutations(Files) \cup Permutations(Slots)
=============================================================================
