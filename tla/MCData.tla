------------------------------- MODULE MCData -------------------------------
EXTENDS Data
=============================================================================
