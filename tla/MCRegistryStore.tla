--------------------------- MODULE MCRegistryStore ---------------------------
EXTENDS RegistryStore, TLC

ProcSymmetry == Permutations(Proc)
=============================================================================
