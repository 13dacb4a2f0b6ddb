----------------------------- MODULE MCDtvSource -----------------------------
EXTENDS DtvSource
=============================================================================
