----------------------------- MODULE MCServerTick -----------------------------
EXTENDS ServerTick, TLC

\* Clients are interchangeable.
Symmetry == Permutations(Clients)
===============================================================================
