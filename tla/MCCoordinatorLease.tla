------------------------- MODULE MCCoordinatorLease -------------------------
EXTENDS CoordinatorLease
CONSTANTS a, b, c, d
=============================================================================
