-------------------------- MODULE MCAirplaySession --------------------------
EXTENDS AirplaySession
=============================================================================
