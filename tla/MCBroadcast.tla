----------------------------- MODULE MCBroadcast -----------------------------
EXTENDS Broadcast, TLC

CONSTANTS u1, u2, w1, w2

Symmetric == Permutations({u1, u2}) \union Permutations({w1, w2})
=============================================================================
