--------------------------- MODULE MCRtmpRecorder ---------------------------
EXTENDS RtmpRecorder
=============================================================================
