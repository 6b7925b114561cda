------------------------ MODULE MCSessionCheckpoints -------------------------
EXTENDS SessionCheckpoints
==============================================================================
