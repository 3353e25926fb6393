------------------------------ MODULE MCReleases ------------------------------
EXTENDS Releases, TLC
=============================================================================
