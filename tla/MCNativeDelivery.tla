--------------------------- MODULE MCNativeDelivery ---------------------------
(* A small instance of NativeDelivery for TLC.                             *)
EXTENDS NativeDelivery
=============================================================================
