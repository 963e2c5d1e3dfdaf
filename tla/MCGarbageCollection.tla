------------------------ MODULE MCGarbageCollection ------------------------
EXTENDS GarbageCollection, TLC
CONSTANTS a, b

OneChunk == {<<a>>}
\* A chunk that a version uses twice, and one that two versions share
TwiceOrShared == {<<a, a>>, <<a, b>>}
NodeSymmetry == Permutations(Nodes)
=============================================================================
