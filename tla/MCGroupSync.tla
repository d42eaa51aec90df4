------------------------------ MODULE MCGroupSync ------------------------------
EXTENDS GroupSync
CONSTANTS c1, c2, alice
=============================================================================
