---------------------------- MODULE MCDtcpServer -----------------------------
EXTENDS DtcpServer
=============================================================================
