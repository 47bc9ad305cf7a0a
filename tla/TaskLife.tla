------------------------------ MODULE TaskLife ------------------------------
(***************************************************************************)
(* What a background task pool promises those who build on it: the agent   *)
(* waker (BgWaker) and everything else that listens to internal/bgtask.    *)
(*                                                                         *)
(* A task runs at most once, comes to one end, and that end is announced   *)
(* once, after it was reached.  The pool holds every task that has not     *)
(* ended.  Nothing starts while the pool is closed.  BgPool implements     *)
(* this.                                                                   *)
(***************************************************************************)

CONSTANT Tasks

VARIABLES
  phase,          \* of each task: unstarted, running, finished, announced
  held,           \* the tasks the pool holds
  closed          \* the pool admits nothing

vars == <<phase, held, closed>>

Init ==
  /\ phase = [i \in Tasks |-> "unstarted"]
  /\ held = {}
  /\ closed = FALSE

Start(i) ==
  /\ ~closed
  /\ phase[i] = "unstarted"
  /\ phase' = [phase EXCEPT ![i] = "running"]
  /\ held' = held \cup {i}
  /\ UNCHANGED closed

Finish(i) ==
  /\ phase[i] = "running"
  /\ phase' = [phase EXCEPT ![i] = "finished"]
  /\ UNCHANGED <<held, closed>>

Announce(i) ==
  /\ phase[i] = "finished"
  /\ phase' = [phase EXCEPT ![i] = "announced"]
  /\ UNCHANGED <<held, closed>>

Drop(gone) ==
  /\ \A i \in gone : phase[i] \in {"finished", "announced"}
  /\ held' = held \ gone
  /\ UNCHANGED <<phase, closed>>

OpenOrClose ==
  /\ closed' \in BOOLEAN
  /\ UNCHANGED <<phase, held>>

Next == \/ \E i \in Tasks : Start(i) \/ Finish(i) \/ Announce(i)
        \/ \E gone \in SUBSET Tasks : Drop(gone)
        \/ OpenOrClose

Spec == Init /\ [][Next]_vars

\* An end is always announced.
Fairness == \A i \in Tasks : WF_vars(Announce(i))
=============================================================================
