------------------------------- MODULE MCBot -------------------------------
EXTENDS Bot
CONSTANTS r1, r2, alice, bob
============================================================================
