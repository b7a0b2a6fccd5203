---------------------------- MODULE MCFlacDecode ----------------------------
EXTENDS FlacDecode
=============================================================================
