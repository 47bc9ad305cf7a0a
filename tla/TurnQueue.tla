----------------------------- MODULE TurnQueue ------------------------------
(***************************************************************************)
(* The message queue of one session: follow-ups an operator writes while a *)
(* turn runs (internal/session/turn_queue.go, turn_interrupt.go, and the   *)
(* boundary loop of manager.go).                                           *)
(*                                                                         *)
(* Two kinds of goroutines meet at State.queueMu: the one that runs the    *)
(* turn, and the handlers of the operator's requests.  A follow-up is      *)
(* "steer" (the running turn reads it at its next step) or "after" (it     *)
(* gets a run of its own at the turn boundary).  A Stop that continues the *)
(* queue reserves everything that waits and restarts the run with it; a    *)
(* full Stop cancels the turn.  Every critical section is one action.      *)
(*                                                                         *)
(* Texts, images and the publication of the queue to clients are left out. *)
(* Messages are numbered in the order they are accepted.  Follow-ups that  *)
(* are commands (/goal, /compact) are not modelled: the supervisor and the *)
(* agent answer them without reading them as a prompt.                     *)
(***************************************************************************)
EXTENDS Integers, Sequences

CONSTANTS
  MaxMessages,    \* bound: how many follow-ups are ever accepted
  MaxQueued,      \* MaxQueuedMessages
  MaxRuns,        \* maxQueuedFollowUpRuns
  MaxTurns        \* bound: how many turns are admitted

ASSUME QueueAssumption ==
  /\ MaxMessages \in Nat /\ MaxTurns \in Nat
  /\ MaxQueued \in Nat \ {0} /\ MaxRuns \in Nat

Ids == 1..MaxMessages
Modes == {"steer", "after"}

VARIABLES
  \* State, under queueMu
  queue,          \* State.queue
  mode,           \* the mode of each message
  open,           \* State.queueOpen
  retained,       \* State.queueRetained
  installed,      \* State.queueInterrupt is set
  armed,          \* queuedTurnInterrupt.cancel is set: a child run can be cut
  pending,        \* queuedTurnInterrupt.pending: reserved rows not yet read
  input,          \* queuedTurnInterrupt.input: what the run's prompt is
  \* the contexts of the turn
  cancelled,      \* the admitted turn's context
  interrupted,    \* the child run's context, by a continuing Stop
  userCancelled,  \* State.userCancelledTurn
  stopping,       \* a full Stop that set the flag and has yet to cancel
  \* the goroutine of the turn
  pc,
  turns,          \* how many turns were admitted
  runs,           \* queuedRunBudget.runs
  first,          \* firstDispatch
  outcome,        \* how the last run ended
  taken,          \* rows the boundary took and still owns: its receipt is
                  \* neither read nor transferred to a batch
  \* Nothing in the code reads these.
  sent,           \* how many messages were accepted
  fate,           \* what became of each
  reserved,       \* messages a continuing Stop of this turn reserved
  switched        \* messages whose mode was changed while no turn ran

queueVars == <<queue, mode, open, retained>>
interruptVars == <<installed, armed, pending, input>>
stopVars == <<cancelled, interrupted, userCancelled, stopping>>
turnVars == <<pc, turns, runs, first, outcome, taken>>
ghostVars == <<sent, fate, reserved, switched>>
vars == <<queueVars, interruptVars, stopVars, turnVars, ghostVars>>

Rows(s) == {s[k] : k \in DOMAIN s}

Input(kind) == [kind |-> kind, read |-> FALSE]

Init ==
  /\ queue = <<>> /\ mode = [m \in Ids |-> "steer"]
  /\ open = FALSE /\ retained = {}
  /\ installed = FALSE /\ armed = FALSE /\ pending = <<>> /\ input = Input("prompt")
  /\ cancelled = TRUE /\ interrupted = FALSE
  /\ userCancelled = FALSE /\ stopping = FALSE
  /\ pc = "idle" /\ turns = 0 /\ runs = 0 /\ first = TRUE
  /\ outcome = "end" /\ taken = <<>>
  /\ sent = 0 /\ fate = [m \in Ids |-> "unsent"]
  /\ reserved = {} /\ switched = {}

-----------------------------------------------------------------------------
(* What the queue's methods share.                                         *)

\* The rows of s that are in the set keep, in their order.  SelectSeq takes an
\* operator, about which no theorem can be stated here; a set it can.
Pick(s, keep) ==
  LET upTo[k \in 0..Len(s)] ==
        IF k = 0 THEN <<>>
        ELSE IF s[k] \in keep THEN Append(upTo[k - 1], s[k]) ELSE upTo[k - 1]
  IN upTo[Len(s)]

IsAfter(m) == mode[m] = "after"
IsSteer(m) == mode[m] = "steer"
TakeSteer(rows) == Pick(rows, {m \in Ids : IsSteer(m)})
KeepAfterTurn(rows) == Pick(rows, {m \in Ids : IsAfter(m)})

Becomes(ms, end) == fate' = [m \in Ids |-> IF m \in ms THEN end ELSE fate[m]]

\* Mutant: a close that forgets what a continuing Stop had reserved.
KeptIfAfter(m) == IsAfter(m)

\* CloseMessageQueue keeps deferred and retained rows, and drops the rest.
Kept(m) == IsAfter(m) \/ m \in retained

CloseQueue ==
  /\ queue' = Pick(queue, {m \in Ids : Kept(m)})
  /\ open' = FALSE
  /\ Becomes({m \in Rows(queue) : ~Kept(m)}, "dropped")

-----------------------------------------------------------------------------
(* The operator.                                                           *)

Enqueue(how) ==
  LET m == sent + 1 IN
  /\ open
  /\ m \in Ids
  /\ Len(queue) + Len(pending) < MaxQueued
  /\ sent' = m
  /\ queue' = Append(queue, m)
  /\ mode' = [mode EXCEPT ![m] = how]
  /\ Becomes({m}, "held")
  /\ UNCHANGED <<open, retained, interruptVars, stopVars, turnVars, reserved,
                 switched>>

TakeBack(m) ==
  /\ m \in Rows(queue)
  /\ queue' = Pick(queue, Ids \ {m})
  /\ Becomes({m}, "takenBack")
  /\ UNCHANGED <<mode, open, retained, interruptVars, stopVars, turnVars, sent,
                 reserved, switched>>

SetMode(m, how) ==
  /\ m \in Rows(queue)
  /\ mode[m] # how
  /\ mode' = [mode EXCEPT ![m] = how]
  /\ switched' = IF pc = "idle" THEN switched \cup {m} ELSE switched
  /\ UNCHANGED <<queue, open, retained, interruptVars, stopVars, turnVars, sent,
                 fate, reserved>>

Clear ==
  /\ queue # <<>>
  /\ queue' = <<>>
  /\ Becomes(Rows(queue), "cleared")
  /\ UNCHANGED <<mode, open, retained, interruptVars, stopVars, turnVars, sent,
                 reserved, switched>>

FreeToCut == /\ installed /\ armed /\ pending = <<>>
             /\ ~cancelled /\ open /\ ~userCancelled

\* Mutant: the unread boundary rows join the batch and stay with their owner.
InterruptKeepingInput ==
  /\ FreeToCut
  /\ taken \o queue # <<>>
  /\ pending' = taken \o queue
  /\ queue' = <<>>
  /\ interrupted' = TRUE
  /\ reserved' = reserved \cup Rows(taken \o queue)
  /\ UNCHANGED <<mode, open, retained, installed, armed, input, cancelled,
                 userCancelled, stopping, turnVars, sent, fate, switched>>

\* TryInterruptQueuedTurn reserves the boundary's unread rows and everything
\* that waits, by a Stop that continues the queue or by a steer
\* message to a turn that a local agent runs.
TryInterrupt ==
  /\ FreeToCut
  /\ taken \o queue # <<>>
  /\ pending' = taken \o queue
  /\ taken' = <<>>
  /\ queue' = <<>>
  /\ interrupted' = TRUE
  /\ reserved' = reserved \cup Rows(taken \o queue)
  /\ UNCHANGED <<mode, open, retained, installed, armed, input, cancelled,
                 userCancelled, stopping, pc, turns, runs, first, outcome, sent,
                 fate, switched>>

\* HandleSessionCancel, and the poll for another process's cancel request:
\* first the flag, then the cancel of whatever turn is installed by then.
Stop ==
  /\ ~stopping
  /\ stopping' = TRUE
  /\ userCancelled' = TRUE
  /\ UNCHANGED <<cancelled, interrupted, queueVars, interruptVars, turnVars,
                 ghostVars>>

StopLands ==
  /\ stopping
  /\ stopping' = FALSE
  /\ cancelled' = IF pc = "opened" THEN cancelled ELSE TRUE
  /\ UNCHANGED <<interrupted, userCancelled, queueVars, interruptVars, turnVars,
                 ghostVars>>

\* The caller of the turn goes away: a client's request, the server.
CallerGone ==
  /\ pc \notin {"idle", "opened"}
  /\ cancelled' = TRUE
  /\ UNCHANGED <<interrupted, userCancelled, stopping, queueVars, interruptVars,
                 turnVars, ghostVars>>

-----------------------------------------------------------------------------
(* The turn is admitted: beginTurn.                                        *)

OpenQueue ==
  /\ pc = "idle"
  /\ turns < MaxTurns
  /\ turns' = turns + 1
  /\ queue' = IF open THEN KeepAfterTurn(queue) ELSE queue
  /\ Becomes(IF open THEN Rows(TakeSteer(queue)) ELSE {}, "dropped")
  /\ open' = TRUE
  /\ retained' = {} /\ reserved' = {} /\ switched' = {}
  /\ pc' = "opened"
  /\ UNCHANGED <<mode, interruptVars, stopVars, runs, first, outcome, taken,
                 sent>>

SetCancel ==
  /\ pc = "opened"
  /\ cancelled' = FALSE
  /\ userCancelled' = FALSE
  /\ runs' = 0
  /\ input' = Input("prompt")
  /\ pc' = "admitted"
  /\ UNCHANGED <<queueVars, installed, armed, pending, interrupted, stopping,
                 turns, first, outcome, taken, ghostVars>>

\* The session was deleted meanwhile, or the prompt could not be prepared.
AdmissionFails ==
  /\ pc = "admitted"
  /\ input.kind = "prompt"
  /\ pc' = "finish"
  /\ UNCHANGED <<queueVars, interruptVars, stopVars, turns, runs, first, outcome,
                 taken, ghostVars>>

-----------------------------------------------------------------------------
(* runInterruptibleTurn.                                                   *)

\* A subagent, a woken turn, a goal's kickoff and commands are not cut.
Install(interruptible) ==
  /\ pc = "admitted"
  /\ installed' = interruptible
  /\ first' = TRUE
  /\ interrupted' = FALSE
  /\ pc' = IF interruptible THEN "dispatch" ELSE "run"
  /\ UNCHANGED <<queueVars, armed, pending, input, cancelled, userCancelled,
                 stopping, turns, runs, outcome, taken, ghostVars>>

Stopped == cancelled \/ userCancelled

Dispatch ==
  /\ pc = "dispatch"
  /\ ~Stopped
  /\ armed' = TRUE
  /\ interrupted' = FALSE
  /\ first' = FALSE
  /\ pc' = "run"
  /\ UNCHANGED <<queueVars, installed, pending, input, cancelled, userCancelled,
                 stopping, turns, runs, outcome, taken, ghostVars>>

\* A stopped first run still enters the runner, for its cleanup.
DispatchStopped ==
  /\ pc = "dispatch"
  /\ Stopped
  /\ pc' = IF first THEN "run" ELSE "return"
  /\ outcome' = "stopped"
  /\ UNCHANGED <<queueVars, interruptVars, stopVars, turns, runs, first, taken,
                 ghostVars>>

RunIsCut == cancelled \/ interrupted

\* BeginQueuedPromptRead, with the append it allows: an ordinary prompt always
\* enters the conversation, a queued one unless the run was cut before.
ReadInput ==
  /\ pc = "run"
  /\ ~input.read
  /\ input.kind = "prompt" \/ ~RunIsCut
  /\ input' = [input EXCEPT !.read = TRUE]
  /\ pending' = IF input.kind = "batch" THEN <<>> ELSE pending
  /\ taken' = <<>>
  /\ Becomes(IF input.kind = "batch" THEN Rows(pending) ELSE Rows(taken), "read")
  /\ UNCHANGED <<queueVars, installed, armed, stopVars, pc, turns, runs, first,
                 outcome, sent, reserved, switched>>

\* Mutant: a step reads what waits although a batch is reserved.
FreeToRead == TRUE

NothingReserved == pending = <<>>

\* TakeQueuedMessages, between the steps of the run.
ReadSteer ==
  /\ pc = "run"
  /\ input.read
  /\ NothingReserved
  /\ TakeSteer(queue) # <<>>
  /\ queue' = KeepAfterTurn(queue)
  /\ Becomes(Rows(TakeSteer(queue)), "read")
  /\ UNCHANGED <<mode, open, retained, interruptVars, stopVars, turnVars, sent,
                 reserved, switched>>

\* The run answers, is cut, or fails; with its input unread it does not answer.
RunEnds(how) ==
  /\ pc = "run"
  /\ how = "end" => input.read
  /\ how = "stopped" => input.read \/ RunIsCut
  /\ outcome' = how
  /\ pc' = IF armed THEN "ran" ELSE "return"
  /\ UNCHANGED <<queueVars, interruptVars, stopVars, turns, runs, first, taken,
                 ghostVars>>

\* After the run, in one critical section: a batch accepted meanwhile starts
\* another run, unless the turn was stopped, failed or has no run left.
Restarts == pending # <<>> /\ ~Stopped /\ interrupted /\ outcome # "error"

RunsLeft == runs < MaxRuns

Restart ==
  /\ pc = "ran"
  /\ Restarts
  /\ RunsLeft
  /\ armed' = FALSE
  /\ runs' = runs + 1
  /\ input' = Input("batch")
  /\ pc' = "dispatch"
  /\ UNCHANGED <<queueVars, installed, pending, stopVars, turns, first, outcome,
                 taken, ghostVars>>

RunReturns ==
  /\ pc = "ran"
  /\ ~(Restarts /\ RunsLeft)
  /\ armed' = FALSE
  /\ outcome' = IF pending # <<>> /\ (Stopped \/ Restarts) THEN "stopped"
                ELSE outcome
  /\ pc' = "return"
  /\ UNCHANGED <<queueVars, installed, pending, input, stopVars, turns, runs,
                 first, taken, ghostVars>>

\* finishQueuedInterrupt: an unread batch goes back, protected from the close.
FinishInterrupt ==
  /\ pc = "return"
  /\ queue' = IF installed THEN pending \o queue ELSE queue
  /\ retained' = retained \cup Rows(pending)
  /\ pending' = <<>>
  /\ installed' = FALSE
  /\ pc' = "after"
  /\ UNCHANGED <<mode, open, armed, input, stopVars, turns, runs, first, outcome,
                 taken, ghostVars>>

-----------------------------------------------------------------------------
(* The turn boundary in HandleSessionPrompt, and the end of the turn.      *)

\* A run stopped before its prompt entered the conversation: ReturnQueuedMessages
\* puts the deferred rows back, and steer rows go as Stop means them to.  A run
\* that failed unread, say because a hook rejected its prompt, takes it along.
AfterRun ==
  /\ pc = "after"
  /\ IF cancelled
     THEN /\ queue' = KeepAfterTurn(taken) \o queue
          /\ Becomes(Rows(TakeSteer(taken)), "dropped")
     ELSE /\ queue' = queue
          /\ Becomes(Rows(taken), "refused")
  /\ taken' = <<>>
  /\ pc' = "boundary"
  /\ UNCHANGED <<mode, open, retained, interruptVars, stopVars, turns, runs,
                 first, outcome, sent, reserved, switched>>

Continues == outcome = "end" /\ ~cancelled

BoundaryEnds ==
  /\ pc = "boundary"
  /\ ~Continues
  /\ pc' = "finish"
  /\ UNCHANGED <<queueVars, interruptVars, stopVars, turns, runs, first, outcome,
                 taken, ghostVars>>

BoundaryCapped ==
  /\ pc = "boundary"
  /\ Continues
  /\ ~RunsLeft
  /\ CloseQueue
  /\ pc' = "finish"
  /\ UNCHANGED <<mode, retained, interruptVars, stopVars, turns, runs, first,
                 outcome, taken, sent, reserved, switched>>

\* TakeQueuedMessagesOrClose: all the steer rows, or else the oldest deferred
\* one, or else the close.
BoundaryTake == IF TakeSteer(queue) # <<>> THEN TakeSteer(queue)
                ELSE SubSeq(queue, 1, 1)

BoundaryTakes ==
  /\ pc = "boundary"
  /\ Continues
  /\ RunsLeft
  /\ queue # <<>>
  /\ taken' = BoundaryTake
  /\ queue' = Pick(queue, Ids \ Rows(BoundaryTake))
  /\ runs' = runs + 1
  /\ input' = Input("boundary")
  /\ pc' = "admitted"
  /\ UNCHANGED <<mode, open, retained, installed, armed, pending, stopVars, turns,
                 first, outcome, ghostVars>>

BoundaryCloses ==
  /\ pc = "boundary"
  /\ Continues
  /\ RunsLeft
  /\ queue = <<>>
  /\ open' = FALSE
  /\ pc' = "finish"
  /\ UNCHANGED <<queue, mode, retained, interruptVars, stopVars, turns, runs,
                 first, outcome, taken, ghostVars>>

\* Mutant: the release of the turn leaves the queue to the boundary.
FinishUnclosed ==
  /\ pc = "finish"
  /\ cancelled' = TRUE
  /\ pc' = "idle"
  /\ UNCHANGED <<queueVars, interruptVars, interrupted, userCancelled, stopping,
                 turns, runs, first, outcome, taken, ghostVars>>

Finish ==
  /\ pc = "finish"
  /\ cancelled' = TRUE
  /\ CloseQueue
  /\ pc' = "idle"
  /\ UNCHANGED <<mode, retained, interruptVars, interrupted, userCancelled,
                 stopping, turns, runs, first, outcome, taken, sent, reserved,
                 switched>>

-----------------------------------------------------------------------------

OperatorStep ==
  \/ \E how \in Modes : Enqueue(how) \/ \E m \in Ids : SetMode(m, how)
  \/ \E m \in Ids : TakeBack(m)
  \/ Clear \/ TryInterrupt \/ Stop \/ StopLands \/ CallerGone

TurnStep ==
  \/ OpenQueue \/ SetCancel \/ AdmissionFails
  \/ \E i \in BOOLEAN : Install(i)
  \/ Dispatch \/ DispatchStopped \/ ReadInput \/ ReadSteer
  \/ \E how \in {"end", "stopped", "error"} : RunEnds(how)
  \/ Restart \/ RunReturns \/ FinishInterrupt
  \/ AfterRun \/ BoundaryEnds \/ BoundaryCapped \/ BoundaryTakes \/ BoundaryCloses
  \/ Finish

Next == OperatorStep \/ TurnStep

Spec == Init /\ [][Next]_vars

-----------------------------------------------------------------------------
(* Properties.                                                             *)

TypeOK ==
  /\ queue \in Seq(Ids) /\ pending \in Seq(Ids) /\ taken \in Seq(Ids)
  /\ mode \in [Ids -> Modes]
  /\ retained \subseteq Ids /\ reserved \subseteq Ids /\ switched \subseteq Ids
  /\ input \in [kind : {"prompt", "boundary", "batch"},
                read : BOOLEAN]
  /\ open \in BOOLEAN /\ installed \in BOOLEAN /\ armed \in BOOLEAN
  /\ cancelled \in BOOLEAN /\ interrupted \in BOOLEAN
  /\ userCancelled \in BOOLEAN /\ stopping \in BOOLEAN /\ first \in BOOLEAN
  /\ pc \in {"idle", "opened", "admitted", "dispatch", "run", "ran", "return",
             "after", "boundary", "finish"}
  /\ turns \in 0..MaxTurns /\ runs \in 0..MaxRuns
  /\ outcome \in {"end", "stopped", "error"}
  /\ sent \in 0..MaxMessages
  /\ fate \in [Ids -> {"unsent", "held", "read", "takenBack", "cleared",
                       "dropped", "refused"}]

\* Every accepted message is in exactly one place until its fate is decided:
\* the queue, the reserved batch, or a boundary's prompt that is still unread.
\* None is lost in a hand-over between them, none is read or returned twice.
Held == queue \o pending \o taken
InOnePlace ==
  /\ \A j, k \in DOMAIN Held : Held[j] = Held[k] => j = k
  /\ Rows(Held) = {m \in Ids : fate[m] = "held"}

\* What a Stop or a close drops are steer messages, and none that a continuing
\* Stop of the same turn had reserved.
OnlySteerIsDropped == [][\A m \in Ids :
  fate'[m] = "dropped" /\ fate[m] # "dropped"
    => IsSteer(m) /\ m \notin reserved]_vars

\* A turn that is over accepts nothing and leaves nothing that was written for
\* it: what waits between turns is deferred, reserved by a continuing Stop, or
\* was given its mode since.
IdleQueueIsKept == pc = "idle" =>
  ~open /\ \A m \in Rows(queue) : IsAfter(m) \/ m \in reserved \cup switched

NewlyRead(m) == fate'[m] = "read" /\ fate[m] # "read"

\* Once a batch is reserved nothing else enters the conversation before it.
ReservedIsReadFirst == [][\A m \in Ids :
  NewlyRead(m) /\ pending # <<>> => m \in Rows(pending)]_vars
=============================================================================
