----------------------------- MODULE MCBgBundle ------------------------------
(* A small instance of BgBundle for TLC: the constants are numbers. *)
EXTENDS BgBundle
=============================================================================
