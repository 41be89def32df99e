----------------------------- MODULE MCJobQueue -----------------------------
\* Two workers, two jobs and a message that is none.
EXTENDS JobQueue, TLC

Symmetry == Permutations(Consumer) \cup Permutations(Message \ Malformed)
=============================================================================
