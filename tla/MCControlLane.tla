---------------------------- MODULE MCControlLane ----------------------------
EXTENDS ControlLane
=============================================================================
