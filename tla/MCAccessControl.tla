-------------------------- MODULE MCAccessControl ---------------------------
EXTENDS AccessControl, TLC

ClientSymmetry == Permutations(Clients) \cup Permutations(Users)
=============================================================================
