----------------------------- MODULE MCLiveView -----------------------------
EXTENDS LiveView

CONSTANT c1
=============================================================================
