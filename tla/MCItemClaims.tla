---------------------------- MODULE MCItemClaims ----------------------------
EXTENDS ItemClaims, TLC

\* Processes and sessions are interchangeable.
Alike == Permutations(Procs) \cup Permutations(Sessions)

=============================================================================
