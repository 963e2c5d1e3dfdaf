----------------------------- MODULE MCTransfer -----------------------------
EXTENDS Transfer
ServiceSymmetry == Permutations(Services)
=============================================================================
