--------------------------- MODULE MCHousekeeping ---------------------------
EXTENDS Housekeeping
=============================================================================
