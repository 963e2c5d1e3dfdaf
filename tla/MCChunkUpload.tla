--------------------------- MODULE MCChunkUpload ----------------------------
EXTENDS ChunkUpload
=============================================================================
