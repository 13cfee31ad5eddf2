---------------------------- MODULE MCTransaction ----------------------------
EXTENDS Transaction, TLC

Perms == Permutations(Conns) \cup Permutations(Txns) \cup Permutations(Objs)
=============================================================================
