--------------------------- MODULE MCKioskCheckin ---------------------------
EXTENDS KioskCheckin, TLC

\* People, drains and requests are interchangeable.
Symmetry == Permutations(Staff) \union Permutations(Drains) \union Permutations(Requests)
=============================================================================
