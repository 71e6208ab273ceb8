------------------------------ MODULE Capsules ------------------------------
(***************************************************************************)
(* capsule.go: what a session writes in WT_CLOSE_SESSION, and what it      *)
(* makes of the capsules it reads.                                         *)
(*                                                                         *)
(* A message is given by the lengths of its UTF-8 characters; as a string  *)
(* of bytes, all that matters of a byte is whether a character starts      *)
(* there.  Of a capsule that is read there are the type, the integer in    *)
(* it, whether the payload ends too early, and whether anything follows.   *)
(***************************************************************************)
EXTENDS Naturals, Sequences, FiniteSetsExt, SequencesExt

CONSTANTS
  MaxCloseMsgLen,   \* maxCloseCapsuleErrorMsgLen (1024)
  MaxStreamsLimit,  \* maxStreamsLimit (2^60)
  Received          \* the capsules that the peer may send

RuneStart(b) == b = "start"

\* The bytes of a message.
Bytes(msg) ==
  FlattenSeq([i \in 1..Len(msg) |-> [k \in 1..msg[i] |-> IF k = 1 THEN "start" ELSE "continuation"]])

\* s[:n], where n goes back to the start of a character.  (s[n] in Go is the byte
\* after the first n.)
CutAnywhere(s, n) == SubSeq(s, 1, IF Len(s) <= n THEN Len(s) ELSE n)
truncateUTF8(s, n) ==
  IF Len(s) <= n THEN s
  ELSE SubSeq(s, 1, Max({0} \cup {k \in 1..n : RuneStart(s[k + 1])}))

\* closeSessionCapsule.Append, and parseCloseSessionCapsule at the peer.
CloseMessage(msg) == truncateUTF8(Bytes(msg), MaxCloseMsgLen)
ParsedMessage(bytes) == SubSeq(bytes, 1, Min({Len(bytes), MaxCloseMsgLen}))

-----------------------------------------------------------------------------
\* The parsers of capsules with an integer.
Malformed(c) == c.short \/ c.trailing
TooLarge(c) == c.value > MaxStreamsLimit

\* parseNextCapsule: what it returns.  Unknown capsules are skipped.
parseNextCapsule(c) ==
  CASE c.type = "WT_CLOSE_SESSION" -> IF c.short THEN "error" ELSE c.type
    [] c.type \in {"WT_MAX_DATA", "WT_DATA_BLOCKED"} -> IF Malformed(c) THEN "error" ELSE c.type
    [] c.type \in {"WT_MAX_STREAMS", "WT_STREAMS_BLOCKED"} ->
         IF Malformed(c) \/ TooLarge(c) THEN "error" ELSE c.type
    [] c.type \in {"WT_MAX_STREAM_DATA", "WT_STREAM_DATA_BLOCKED"} -> "error"
    [] OTHER -> IF c.short THEN "error" ELSE "skip"

-----------------------------------------------------------------------------
\* The longest prefix of whole characters that fits.
LongestPrefix(msg) ==
  Bytes(SubSeq(msg, 1, Max({k \in 0..Len(msg) : Len(Bytes(SubSeq(msg, 1, k))) <= MaxCloseMsgLen})))
=============================================================================
