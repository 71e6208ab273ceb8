------------------------ MODULE MCOutgoingStreamsMap ------------------------
EXTENDS OutgoingStreamsMap

=============================================================================
