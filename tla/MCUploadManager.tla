--------------------------- MODULE MCUploadManager ---------------------------
EXTENDS UploadManager, TLC

UploadSymmetry == Permutations(Clients) \cup Permutations(Chunks) \cup Permutations(Sessions)
=============================================================================
