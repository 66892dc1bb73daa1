---------------------------- MODULE MCConnections ----------------------------
EXTENDS Connections, TLC

MCSymmetry == Permutations(SIDs)
=============================================================================
