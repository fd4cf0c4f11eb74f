----------------------------- MODULE MCListener -----------------------------
EXTENDS Listener
=============================================================================
