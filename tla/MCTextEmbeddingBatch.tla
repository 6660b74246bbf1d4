------------------------ MODULE MCTextEmbeddingBatch ------------------------
EXTENDS TextEmbeddingBatch
=============================================================================
