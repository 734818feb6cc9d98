---------------------------- MODULE MCDevicePush ----------------------------
(* Small instances of DevicePush.                                          *)
EXTENDS DevicePush, TLC

CONSTANTS p1, p2, p3

(* Three changes, two of two items and one of one, that overlap in one.    *)
MCTouches == (p1 :> {1, 2}) @@ (p2 :> {2, 3}) @@ (p3 :> {3})
=============================================================================
