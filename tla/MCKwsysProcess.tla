--------------------------- MODULE MCKwsysProcess ---------------------------
EXTENDS KwsysProcess
=============================================================================
