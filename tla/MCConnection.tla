---------------------------- MODULE MCConnection ----------------------------
EXTENDS Connection, TLC

Perms == Permutations(Conns) \cup Permutations(Txns)
=============================================================================
