----------------------------- MODULE MCJournal ------------------------------
EXTENDS Journal, TLC

Perms == Permutations(Procs) \cup Permutations(Values)
=============================================================================
