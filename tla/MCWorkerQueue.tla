---------------------------- MODULE MCWorkerQueue ----------------------------
EXTENDS WorkerQueue, TLC

Symmetry == Permutations(Jobs) \cup Permutations(Thieves)

===============================================================================
