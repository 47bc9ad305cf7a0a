------------------------------ MODULE BgWaker -------------------------------
(***************************************************************************)
(* The waker of one session, internal/agent/background_notify.go: it turns *)
(* finished notify_on_finish tasks into an agent turn nobody typed.        *)
(*                                                                         *)
(* OnSnapshot runs on the goroutine of the pool that finished a task, the  *)
(* drain loop on a goroutine of its own, and the turns of the session on   *)
(* whatever surface started them; they meet in the waker's maps, in the    *)
(* pool's marks and at the session's turn lock.  The maps are keyed by     *)
(* session and no step touches two keys, so one session is modelled.       *)
(*                                                                         *)
(* The pool appears through what the waker and the tools read of it: a     *)
(* task finishes first and is announced later (BgPool, Finalise and        *)
(* SupervisorNotify), and it may be dropped by the operator once finished. *)
(***************************************************************************)
EXTENDS Integers, FiniteSets

CONSTANTS
  Tasks,          \* the notify_on_finish tasks the session ever starts
  MaxWakes,       \* maxWakesPerSession
  MaxAttempts,    \* bound: refusals before wakeBusyGiveUpAfter has passed
  MaxUserTurns,   \* bound: how many turns the operator starts
  Faults          \* what may go wrong: "error" of a turn, "shutdown"

ASSUME WakerAssumption ==
  /\ IsFiniteSet(Tasks)
  /\ MaxWakes \in Nat
  /\ MaxAttempts \in Nat \ {0}
  /\ MaxUserTurns \in Nat
  /\ Faults \subseteq {"error", "shutdown"}

VARIABLES
  phase,          \* of each task: unstarted, running, finished, announced
  held,           \* the tasks the pool still holds
  acked,          \* task.resultAcknowledged
  woke,           \* Snapshot.WokeAgent
  poolDraining,   \* Pool.Draining()
  turn,           \* who holds the session's turn lock
  userTurns,      \* turns the operator started so far
  pending,        \* BackgroundWaker.pending of the session
  draining,       \* BackgroundWaker.draining of the session
  wakes,          \* BackgroundWaker.wakes of the session
  pc,             \* where the drain goroutine is
  batch,          \* the batch it holds
  attempts,       \* refusals this startTurn has met
  \* What the model and the log were told; nothing in the code reads these.
  told,           \* tasks whose outcome opened a woken turn
  givenUp,        \* tasks a warning or shutdown line in the log gave up on
  begun,          \* woken turns that began
  failed,         \* woken turns that began and ended in an error
  idleRuns        \* runs that returned nil without a turn, at shutdown

poolVars == <<phase, held, acked, woke, poolDraining>>
turnVars == <<turn, userTurns>>
wakerVars == <<pending, draining, wakes>>
loopVars == <<pc, batch, attempts>>
ghostVars == <<told, givenUp, begun, failed, idleRuns>>
vars == <<poolVars, turnVars, wakerVars, loopVars, ghostVars>>

Init ==
  /\ phase = [i \in Tasks |-> "unstarted"]
  /\ held = {} /\ acked = {} /\ woke = {}
  /\ poolDraining = FALSE
  /\ turn = "none" /\ userTurns = 0
  /\ pending = {} /\ draining = FALSE /\ wakes = 0
  /\ pc = "none" /\ batch = {} /\ attempts = 0
  /\ told = {} /\ givenUp = {}
  /\ begun = 0 /\ failed = 0 /\ idleRuns = 0

Finished(i) == phase[i] \in {"finished", "announced"}

-----------------------------------------------------------------------------
(* The session's turns and the tasks they start.                           *)

UserTurnBegins ==
  /\ turn = "none"
  /\ userTurns < MaxUserTurns
  /\ turn' = "user"
  /\ userTurns' = userTurns + 1
  /\ UNCHANGED <<poolVars, wakerVars, loopVars, ghostVars>>

UserTurnEnds ==
  /\ turn = "user"
  /\ turn' = "none"
  /\ UNCHANGED <<userTurns, poolVars, wakerVars, loopVars, ghostVars>>

\* A turn starts a notifying task, unless the pool is closed.
Launch(i) ==
  /\ turn # "none"
  /\ ~poolDraining
  /\ phase[i] = "unstarted"
  /\ phase' = [phase EXCEPT ![i] = "running"]
  /\ held' = held \cup {i}
  /\ UNCHANGED <<acked, woke, poolDraining, turnVars, wakerVars, loopVars,
                 ghostVars>>

Finish(i) ==
  /\ phase[i] = "running"
  /\ phase' = [phase EXCEPT ![i] = "finished"]
  /\ UNCHANGED <<held, acked, woke, poolDraining, turnVars, wakerVars, loopVars,
                 ghostVars>>

\* background_output, background_wait and background_stop acknowledge the
\* result of a finished task they showed to the model.
Collect(i) ==
  /\ turn # "none"
  /\ i \in held \ acked
  /\ Finished(i)
  /\ acked' = acked \cup {i}
  /\ UNCHANGED <<phase, held, woke, poolDraining, turnVars, wakerVars, loopVars,
                 ghostVars>>

\* Mutant: a running task may leave the pool.
DropAny(i) ==
  /\ i \in held
  /\ held' = held \ {i}
  /\ UNCHANGED <<phase, acked, woke, poolDraining, turnVars, wakerVars, loopVars,
                 ghostVars>>

\* Forget, ClearFinished or ReleaseSession.
DropTask(i) ==
  /\ i \in held
  /\ Finished(i)
  /\ held' = held \ {i}
  /\ UNCHANGED <<phase, acked, woke, poolDraining, turnVars, wakerVars, loopVars,
                 ghostVars>>

SetDraining ==
  /\ "shutdown" \in Faults
  /\ ~poolDraining
  /\ poolDraining' = TRUE
  /\ UNCHANGED <<phase, held, acked, woke, turnVars, wakerVars, loopVars,
                 ghostVars>>

-----------------------------------------------------------------------------
(* The waker.                                                              *)

\* The finished snapshot arrives: queue it, and start a drain if none runs.
OnSnapshot(i) ==
  /\ phase[i] = "finished"
  /\ phase' = [phase EXCEPT ![i] = "announced"]
  /\ pending' = pending \cup {i}
  /\ draining' = TRUE
  /\ pc' = IF draining THEN pc ELSE "settle"
  /\ UNCHANGED <<held, acked, woke, poolDraining, turnVars, wakes, batch,
                 attempts, ghostVars>>

\* After wakeSettleDelay: take the queue, or leave when it is empty.
TakeNothing ==
  /\ pc = "settle"
  /\ pending = {}
  /\ pc' = "return"
  /\ UNCHANGED <<poolVars, turnVars, wakerVars, batch, attempts, ghostVars>>

Spent == wakes >= MaxWakes

TakeCapped ==
  /\ pc = "settle"
  /\ pending # {}
  /\ Spent
  /\ pending' = {}
  /\ givenUp' = givenUp \cup pending
  /\ pc' = "return"
  /\ UNCHANGED <<poolVars, turnVars, draining, wakes, batch, attempts, told,
                 begun, failed, idleRuns>>

TakeBatch ==
  /\ pc = "settle"
  /\ pending # {}
  /\ ~Spent
  /\ batch' = pending
  /\ pending' = {}
  /\ wakes' = wakes + 1
  /\ attempts' = 0
  /\ pc' = "attempt"
  /\ UNCHANGED <<poolVars, turnVars, draining, ghostVars>>

\* Mutant: a batch that becomes no turn still spends the budget.
RefundNothing == wakes' = wakes

\* refundWake.
Refund == wakes' = IF wakes > 0 THEN wakes - 1 ELSE wakes

\* startTurn returns false: the loop ends and the batch is given up on.
GiveUp ==
  /\ Refund
  /\ givenUp' = givenUp \cup batch
  /\ batch' = {}
  /\ pc' = "return"

AttemptAtShutdown ==
  /\ pc = "attempt"
  /\ poolDraining
  /\ GiveUp
  /\ UNCHANGED <<poolVars, turnVars, pending, draining, attempts, told, begun,
                 failed, idleRuns>>

\* Mutant: what landed meanwhile replaces the batch in flight.
AbsorbReplaces ==
  /\ pc = "attempt"
  /\ ~poolDraining
  /\ batch' = IF pending = {} THEN batch ELSE pending
  /\ pending' = {}
  /\ pc' = "filter"
  /\ UNCHANGED <<poolVars, turnVars, draining, wakes, attempts, ghostVars>>

\* absorbPending: whatever landed meanwhile joins the batch in flight.
Absorb ==
  /\ pc = "attempt"
  /\ ~poolDraining
  /\ batch' = batch \cup pending
  /\ pending' = {}
  /\ pc' = "filter"
  /\ UNCHANGED <<poolVars, turnVars, draining, wakes, attempts, ghostVars>>

\* Pool.WakePending.
WakePending(i) == i \in held /\ Finished(i) /\ i \notin acked \cup woke

\* unclaimedResults: keep what the pool says is still unclaimed.
Unclaimed(b) == {i \in b : WakePending(i)}

FilterToNothing ==
  /\ pc = "filter"
  /\ Unclaimed(batch) = {}
  /\ batch' = {}
  /\ Refund
  /\ pc' = "settle"
  /\ UNCHANGED <<poolVars, turnVars, pending, draining, attempts, ghostVars>>

Filter ==
  /\ pc = "filter"
  /\ Unclaimed(batch) # {}
  /\ batch' = Unclaimed(batch)
  /\ pc' = "run"
  /\ UNCHANGED <<poolVars, turnVars, wakerVars, attempts, ghostVars>>

\* Mutant: a busy session ends the attempt and nobody reports the batch.
BusyDropsBatch ==
  /\ pc = "run"
  /\ turn # "none"
  /\ attempts < MaxAttempts
  /\ attempts' = attempts + 1
  /\ batch' = {}
  /\ Refund
  /\ pc' = "settle"
  /\ UNCHANGED <<poolVars, turnVars, pending, draining, ghostVars>>

\* The composer turn lock refuses; the deadline ends the retries.
RunBusy ==
  /\ pc = "run"
  /\ turn # "none"
  /\ attempts < MaxAttempts
  /\ attempts' = attempts + 1
  /\ pc' = "attempt"
  /\ UNCHANGED <<poolVars, turnVars, wakerVars, batch, ghostVars>>

RunAbandoned ==
  /\ pc = "run"
  /\ turn # "none"
  /\ attempts = MaxAttempts
  /\ GiveUp
  /\ UNCHANGED <<poolVars, turnVars, pending, draining, attempts, told, begun,
                 failed, idleRuns>>

\* The turn takes the lock and opens with the wake: markWokeTasks marks the
\* tasks of the batch the pool still holds.
RunBegins ==
  /\ pc = "run"
  /\ turn = "none"
  /\ turn' = "woken"
  /\ woke' = woke \cup (batch \cap held)
  /\ told' = told \cup batch
  /\ begun' = begun + 1
  /\ pc' = "turn"
  /\ UNCHANGED <<phase, held, acked, poolDraining, userTurns, wakerVars, batch,
                 attempts, givenUp, failed, idleRuns>>

\* The turn could not be opened: a session that does not load, a hook that
\* rejects the prompt, a bundle that cannot be written.
RunRefused ==
  /\ pc = "run"
  /\ turn = "none"
  /\ "error" \in Faults
  /\ GiveUp
  /\ UNCHANGED <<poolVars, turnVars, pending, draining, attempts, told, begun,
                 failed, idleRuns>>

\* serve/wake.go answers nil without running anything while the pool drains.
RunAtShutdown ==
  /\ pc = "run"
  /\ poolDraining
  /\ givenUp' = givenUp \cup batch
  /\ batch' = {}
  /\ idleRuns' = idleRuns + 1
  /\ pc' = "settle"
  /\ UNCHANGED <<poolVars, turnVars, wakerVars, attempts, told, begun, failed>>

RunEnds ==
  /\ pc = "turn"
  /\ turn' = "none"
  /\ batch' = {}
  /\ pc' = "settle"
  /\ UNCHANGED <<userTurns, poolVars, wakerVars, attempts, ghostVars>>

\* Mutant: a turn that failed is retried in place, like a busy one.
ErrsRetried ==
  /\ pc = "turn"
  /\ "error" \in Faults
  /\ turn' = "none"
  /\ failed' = failed + 1
  /\ pc' = "run"
  /\ UNCHANGED <<userTurns, poolVars, wakerVars, batch, attempts, told, givenUp,
                 begun, idleRuns>>

\* The turn ran and ended in an error: startTurn refunds it and returns false.
RunErrs ==
  /\ pc = "turn"
  /\ "error" \in Faults
  /\ turn' = "none"
  /\ Refund
  /\ batch' = {}
  /\ failed' = failed + 1
  /\ pc' = "return"
  /\ UNCHANGED <<userTurns, poolVars, pending, draining, attempts, told, givenUp,
                 begun, idleRuns>>

\* The deferred delete of the draining mark, a critical section of its own.
DrainReturns ==
  /\ pc = "return"
  /\ draining' = FALSE
  /\ pc' = "none"
  /\ UNCHANGED <<poolVars, turnVars, pending, wakes, batch, attempts, ghostVars>>

-----------------------------------------------------------------------------

DrainStep == \/ TakeNothing \/ TakeCapped \/ TakeBatch \/ AttemptAtShutdown
             \/ Absorb \/ FilterToNothing \/ Filter \/ RunBusy \/ RunAbandoned
             \/ RunBegins \/ RunRefused \/ RunAtShutdown \/ RunEnds \/ RunErrs
             \/ DrainReturns

Next == \/ \E i \in Tasks : \/ Launch(i) \/ Finish(i) \/ Collect(i)
                            \/ DropTask(i) \/ OnSnapshot(i)
        \/ UserTurnBegins \/ UserTurnEnds \/ SetDraining
        \/ DrainStep

\* The drain loop and the pool's notification run on; turns end.
Fairness == /\ WF_vars(DrainStep)
            /\ WF_vars(UserTurnEnds)
            /\ \A i \in Tasks : WF_vars(OnSnapshot(i))

Spec == Init /\ [][Next]_vars
FairSpec == Spec /\ Fairness

-----------------------------------------------------------------------------
(* Properties.                                                             *)

Attempting == pc \in {"attempt", "filter", "run", "turn"}

TypeOK ==
  /\ phase \in [Tasks -> {"unstarted", "running", "finished", "announced"}]
  /\ held \subseteq Tasks /\ acked \subseteq Tasks /\ woke \subseteq Tasks
  /\ poolDraining \in BOOLEAN /\ draining \in BOOLEAN
  /\ turn \in {"none", "user", "woken"}
  /\ userTurns \in 0..MaxUserTurns
  /\ pending \subseteq Tasks /\ batch \subseteq Tasks
  /\ wakes \in 0..MaxWakes
  /\ attempts \in 0..MaxAttempts
  /\ pc \in {"none", "settle", "attempt", "filter", "run", "turn", "return"}
  /\ told \subseteq Tasks /\ givenUp \subseteq Tasks
  /\ begun \in Nat /\ failed \in Nat /\ idleRuns \in Nat

\* No outcome vanishes without a trace: an announced task waits in the queue or
\* in the batch in flight, or it was told, collected, dropped by the operator,
\* or given up on in the log.
NothingVanishes == \A i \in Tasks :
  phase[i] = "announced" =>
    i \in pending \cup batch \cup told \cup acked \cup (Tasks \ held) \cup givenUp

\* The budget is exact and kept: it counts the woken turns that did not fail,
\* the runs that shutdown made empty, and the attempt in flight.
BudgetIsExact ==
  /\ wakes <= MaxWakes
  /\ wakes = (begun - failed) + idleRuns
          + (IF Attempting /\ pc # "turn" THEN 1 ELSE 0)

\* An outcome opens at most one woken turn.
WokenOnce == [][begun' = begun + 1 => batch \cap told = {}]_vars

\* A batch that was taken ends in a turn, unless the model collected the
\* result meanwhile, the operator dropped it or the log gave up on it.
BatchIsServed == \A i \in Tasks :
  i \in batch ~> i \in told \cup acked \cup (Tasks \ held) \cup givenUp

\* "A batch is only ever given up on by startTurn, never by the loop: a task
\* that finished has an outcome the model was promised."  What is queued has a
\* drain loop that will take it.
QueuedIsDrained == pending # {} => draining

-----------------------------------------------------------------------------
\* What this module takes the pool to do is no more than the contract that
\* BgPool is shown to keep.
Pool == INSTANCE TaskLife WITH closed <- poolDraining

AssumesTheContract == Pool!Spec
=============================================================================
