----------------------------- MODULE ErrorCodes -----------------------------
(***************************************************************************)
(* errors.go: the error code of a stream is a 32-bit number of the         *)
(* application, sent in a range of HTTP/3 error codes that skips the       *)
(* reserved ones (33 + 31 k).  The constants stand for those of the code,  *)
(* which TLC's integers cannot hold; what the conversion depends on is the *)
(* place of the range relative to the reserved codes, and its length.      *)
(***************************************************************************)
EXTENDS Naturals

CONSTANTS
  MaxCode,        \* largest code of the application, 2^32 - 1
  FirstErrorCode  \* 0x52e4a40fa8db, which is 3 modulo 31

ASSUME RangeAssumption ==
  /\ MaxCode \in Nat
  /\ FirstErrorCode \in Nat /\ FirstErrorCode > 33 /\ FirstErrorCode % 31 = 3

LastErrorCode == FirstErrorCode + MaxCode + MaxCode \div 30
StreamErrorCodes == 0..MaxCode

webtransportCodeUnshifted(n) == FirstErrorCode + n
webtransportCodeToHTTPCode(n) == FirstErrorCode + n + n \div 30

\* The codes that httpCodeToWebtransportCode does not refuse.
Convertible(h) ==
  /\ FirstErrorCode <= h /\ h <= LastErrorCode
  /\ (h - 33) % 31 # 0

httpCodeToWebtransportCode(h) ==
  (h - FirstErrorCode) - (h - FirstErrorCode) \div 31
=============================================================================
