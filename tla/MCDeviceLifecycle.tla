------------------------- MODULE MCDeviceLifecycle -------------------------
EXTENDS DeviceLifecycle
CONSTANTS c1, c2, bob, club
MCCounts == {-1, 0}
============================================================================
