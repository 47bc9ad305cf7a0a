----------------------------- MODULE MCBgPool ------------------------------
(* Small instances of BgPool for TLC. *)
EXTENDS BgPool, TLC

CONSTANTS s1, s2, c1, c2

Task(s, system, limited) == [session |-> s, system |-> system, limited |-> limited]

\* Commands of one session with a hard limit.
OneCommand == {Task(s1, FALSE, TRUE)}

\* A limited command of one session, a system task without limit of another.
TwoKinds == {Task(s1, FALSE, TRUE), Task(s2, TRUE, FALSE)}

TwoCallers == {c1, c2}

\* The model's tools on one side, the runtime that retires sessions and shuts
\* the server down on the other.
SplitOps == c1 :> {"stop"} @@ c2 :> {"drain", "clear"}
AllOpsSplit == c1 :> {"stop", "wait"} @@ c2 :> {"retire", "drain", "clear", "forget"}
=============================================================================
