---------------------------- MODULE MCOStatement ----------------------------
EXTENDS OStatement, TLC

ValuePerms == Permutations(Values)
=============================================================================
