---------------------------- MODULE MCOledRefresh ----------------------------
EXTENDS OledRefresh
=============================================================================
