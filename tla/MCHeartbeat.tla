----------------------------- MODULE MCHeartbeat -----------------------------
EXTENDS Heartbeat
=============================================================================
