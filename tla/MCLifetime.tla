----------------------------- MODULE MCLifetime -----------------------------
EXTENDS Mutex, TLC

Perms == Permutations(Dbs) \cup Permutations(Stmts) \cup Permutations(Conns)
         \cup Permutations(Handles) \cup Permutations(MutexObjs)
         \cup Permutations(Mutexes)
=============================================================================
