--------------------------- MODULE MCReconciliation ---------------------------
EXTENDS Reconciliation

CONSTANT MaxArrivals   \* bound: inputs that reach one session, each counted once a tick

\* Where the run stops.
FewArrivals == Cardinality(arrived[Client]) <= MaxArrivals
===============================================================================
