------------------------- MODULE MCDataFlowControl -------------------------
EXTENDS DataFlowControl
=============================================================================
