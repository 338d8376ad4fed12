---------------------------- MODULE MCRtmpChunks ----------------------------
EXTENDS RtmpChunks
=============================================================================
