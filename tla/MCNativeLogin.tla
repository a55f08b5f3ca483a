--------------------------- MODULE MCNativeLogin ---------------------------
(* A small instance of NativeLogin for TLC. *)
EXTENDS NativeLogin, TLC
=============================================================================
