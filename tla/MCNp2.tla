--------------------------------- MODULE MCNp2 ---------------------------------
EXTENDS Np2, TLC

Symmetry == Permutations(Clients)
================================================================================
