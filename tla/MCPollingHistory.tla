-------------------------- MODULE MCPollingHistory --------------------------
EXTENDS PollingHistory
=============================================================================
