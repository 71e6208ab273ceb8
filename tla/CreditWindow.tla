---------------------------- MODULE CreditWindow ----------------------------
(***************************************************************************)
(* What a receiver that limits its peer by credit promises.  The peer may  *)
(* use as many units as were granted in total; the receiver raises the     *)
(* total only as units are consumed, so that it never owes more than a     *)
(* window, and it never takes credit back.                                 *)
(*                                                                         *)
(* Stream limits (IncomingStreamsMap) and data limits (DataFlowControl)    *)
(* both implement this specification.                                      *)
(***************************************************************************)
EXTENDS Naturals

CONSTANT Window

VARIABLES
  granted,  \* units the peer may use in total
  used,     \* units the peer has used
  consumed  \* units the receiver is done with

vars == <<granted, used, consumed>>

Init == granted = Window /\ used = 0 /\ consumed = 0

Use ==
  /\ used' > used /\ used' <= granted
  /\ UNCHANGED <<granted, consumed>>

\* Credit is granted in the step that consumes, or by a later one.
Consume ==
  /\ consumed' > consumed /\ consumed' <= used
  /\ granted' >= granted /\ granted' <= consumed' + Window
  /\ UNCHANGED used

Next == Use \/ Consume

Spec == Init /\ [][Next]_vars
=============================================================================
