--------------------------- MODULE MCChunkRecorder ---------------------------
\* ChunkRecorder with a handful of chunks and small windows.
EXTENDS ChunkRecorder
==============================================================================
