----------------------------- MODULE MCLogDecoder -----------------------------
EXTENDS LogDecoderProperties
=============================================================================
