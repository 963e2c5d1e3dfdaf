-------------------------- MODULE MCVersionManager --------------------------
EXTENDS VersionManager, TLC
CONSTANTS a, b

OneOrTwoChunks == {<<a>>, <<a, b>>}
OneChunk == {<<a>>}
CallerSymmetry == Permutations(Creators) \cup Permutations(Pruners)
=============================================================================
