----------------------------- MODULE MCTasking -----------------------------
EXTENDS Tasking
=============================================================================
