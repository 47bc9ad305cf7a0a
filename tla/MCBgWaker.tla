----------------------------- MODULE MCBgWaker ------------------------------
(* Small instances of BgWaker for TLC. *)
EXTENDS BgWaker

CONSTANTS t1, t2

TwoTasks == {t1, t2}
=============================================================================
