-------------------------- MODULE MCSerialPolling --------------------------
EXTENDS SerialPolling
=============================================================================
