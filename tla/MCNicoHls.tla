------------------------------ MODULE MCNicoHls ------------------------------
EXTENDS NicoHls
==============================================================================
