--------------------------- MODULE MCComponentStore -------------------------
EXTENDS ComponentStore
=============================================================================
