------------------------------ MODULE MCJobQueue ------------------------------
EXTENDS JobQueue, TLC

IdSymmetry == Permutations(Ids)
=============================================================================
