----------------------------- MODULE MCManager -----------------------------
EXTENDS Manager
=============================================================================
