---------------------------- MODULE MCGroupSend ----------------------------
EXTENDS GroupSend, TLC
CONSTANTS c1, c2, alice, bob, carol
Symmetry == Permutations({bob, carol})
=============================================================================
