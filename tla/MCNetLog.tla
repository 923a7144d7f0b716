------------------------------ MODULE MCNetLog ------------------------------
EXTENDS NetLog

\* Frames of 3, 5, 2 + 12, 4, 3, 6 bytes: one is too long for the ring, some evict
\* two others, and none divides it.
MCLength == <<1, 3, 12, 2, 1, 4>>
=============================================================================
