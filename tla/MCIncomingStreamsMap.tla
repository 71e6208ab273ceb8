------------------------ MODULE MCIncomingStreamsMap ------------------------
EXTENDS IncomingStreamsMap, TLC

AcceptersSymmetry == Permutations(Accepters)
=============================================================================
