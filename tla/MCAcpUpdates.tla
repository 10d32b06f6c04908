---------------------------- MODULE MCAcpUpdates ----------------------------
EXTENDS AcpUpdates
=============================================================================
