-------------------------- MODULE MCCoopSemaphore --------------------------
EXTENDS CoopSemaphore
=============================================================================
