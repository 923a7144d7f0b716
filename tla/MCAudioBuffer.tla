--------------------------- MODULE MCAudioBuffer ---------------------------
EXTENDS AudioBuffer
=============================================================================
