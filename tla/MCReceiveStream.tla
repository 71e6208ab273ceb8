-------------------------- MODULE MCReceiveStream --------------------------
EXTENDS ReceiveStream
=============================================================================
