--------------------------- MODULE MCNamedPipesServer ---------------------------
EXTENDS NamedPipesServer, TLC

HandleSymmetry == Permutations(Handles)
================================================================================
