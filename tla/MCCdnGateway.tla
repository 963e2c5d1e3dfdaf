---------------------------- MODULE MCCdnGateway ----------------------------
EXTENDS CdnGateway, TLC
EdgeSymmetry == Permutations(Chunks) \cup Permutations(Jobs) \cup Permutations(Clients)
=============================================================================
