--------------------------- MODULE MCFirebaseLink ---------------------------
EXTENDS LinkInPolling
=============================================================================
