--------------------------- MODULE MCRtpReceiver ---------------------------
EXTENDS RtpReceiver
=============================================================================
