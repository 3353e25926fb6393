--------------------------- MODULE MCEntityWatcher ---------------------------
EXTENDS EntityWatcher
=============================================================================
