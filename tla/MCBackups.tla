------------------------------ MODULE MCBackups ------------------------------
EXTENDS Backups, TLC

Symmetry == Permutations(Dir)
=============================================================================
