---------------------------- MODULE BgPoolProofs ----------------------------
(***************************************************************************)
(* What BgPool keeps for every set of specs and callers, every cap and     *)
(* every number of tasks, with proofs that TLAPS checks.                   *)
(***************************************************************************)
EXTENDS BgPool, FiniteSetTheorems, TLAPS

-----------------------------------------------------------------------------
(* Types.  TypeOK is not inductive by itself: a caller indexes the tasks   *)
(* by its target, and StopAll reads the spec of every registered task.     *)
(* The inductive form is cut along the groups of variables that actions    *)
(* leave alone together.                                                   *)

CallerStates ==
  [op : AllOps \cup {"none"},
   pc : {"idle", "claim", "signal", "wait", "next", "release", "stopAll",
         "nextSession", "remove"},
   target : Ids \cup {NoTask},
   todo : SUBSET Ids,
   sessions : SUBSET Sessions]

PoolTyped == /\ seq \in 0..MaxTasks
             /\ draining \in BOOLEAN
             /\ drained \in BOOLEAN
             /\ tasks \subseteq 1..seq
             /\ spec \in [Ids -> Specs \cup {NoSpec}]
             /\ \A i \in tasks : spec[i] \in Specs

TaskTyped == /\ status \in [Ids -> Statuses]
             /\ termReason \in [Ids -> {NoReason, "stopped", "timed_out"}]
             /\ exitObserved \in [Ids -> BOOLEAN]
             /\ handle \in [Ids -> BOOLEAN]
             /\ done \in [Ids -> BOOLEAN]

WorkTyped == /\ proc \in [Ids -> {"none", "alive", "dying", "ok", "bad"}]
             /\ stops \in [Ids -> Nat]
             /\ refused \subseteq Ids

GoTyped == /\ starter \in [Ids -> {"none", "launch", "attach", "stop",
                                   "persist", "notify", "failClose",
                                   "failPersist", "failNotify", "ended"}]
           /\ supervisor \in [Ids -> {"none", "select", "stop", "await",
                                      "persist", "close", "notify", "ended"}]
           /\ waiter \in [Ids -> {"none", "waiting", "reaped", "sent"}]

OutTyped == /\ dirs \subseteq Ids
            /\ rec \in [Ids -> Statuses]
            /\ heard \in [Ids -> Statuses]

\* A caller that acts on a task has one, and lists only admitted tasks.
Aimed(r) == /\ r.todo \subseteq 1..seq
            /\ r.pc \in {"claim", "signal", "wait"} => r.target \in 1..seq

CallersTyped == /\ caller \in [Callers -> CallerStates]
                /\ \A c \in Callers : Aimed(caller[c])

Typed == /\ PoolTyped /\ TaskTyped /\ WorkTyped
         /\ GoTyped /\ OutTyped /\ CallersTyped

\* What PoolAssumption says of the two bounds.
LEMMA CapTypes == MaxTasks \in Nat /\ MaxConcurrent \in Nat \ {0}
BY PoolAssumption DEF PoolAssumption

\* The inductive form is stronger than the type invariant.
LEMMA TypedImpliesTypeOK == Typed => TypeOK
BY DEF Typed, TypeOK, PoolTyped, TaskTyped, WorkTyped, GoTyped, OutTyped,
   CallersTyped, CallerStates

\* The empty pool is typed.
LEMMA TypedInit == Init => Typed
<1> SUFFICES ASSUME Init PROVE Typed
    OBVIOUS
<1> USE DEF Init
<1>1. PoolTyped
  <2>1. seq \in 0..MaxTasks
        BY CapTypes
  <2>2. tasks \subseteq 1..seq /\ \A i \in tasks : spec[i] \in Specs
        OBVIOUS
  <2>3. spec \in [Ids -> Specs \cup {NoSpec}]
        OBVIOUS
  <2>4. draining \in BOOLEAN /\ drained \in BOOLEAN
        OBVIOUS
  <2> QED BY <2>1, <2>2, <2>3, <2>4 DEF PoolTyped
<1>2. TaskTyped
      BY DEF TaskTyped, Statuses
<1>3. WorkTyped
      BY DEF WorkTyped
<1>4. GoTyped
      BY DEF GoTyped
<1>5. OutTyped
      BY DEF OutTyped, Statuses
<1>6. CallersTyped
      BY DEF CallersTyped, CallerStates, Aimed, IdleCaller
<1> QED BY <1>1, <1>2, <1>3, <1>4, <1>5, <1>6 DEF Typed

\* Groups of variables that a step leaves alone keep their types.
LEMMA Frames ==
  ASSUME Typed
  PROVE  /\ UNCHANGED poolVars => PoolTyped'
         /\ UNCHANGED taskVars => TaskTyped'
         /\ UNCHANGED workVars => WorkTyped'
         /\ UNCHANGED goVars => GoTyped'
         /\ UNCHANGED outVars => OutTyped'
         /\ UNCHANGED <<seq, caller>> => CallersTyped'
<1> USE DEF Typed
<1>1. UNCHANGED poolVars => PoolTyped'
      BY DEF PoolTyped, poolVars
<1>2. UNCHANGED taskVars => TaskTyped'
      BY DEF TaskTyped, taskVars
<1>3. UNCHANGED workVars => WorkTyped'
      BY DEF WorkTyped, workVars
<1>4. UNCHANGED goVars => GoTyped'
      BY DEF GoTyped, goVars
<1>5. UNCHANGED outVars => OutTyped'
      BY DEF OutTyped, outVars
<1>6. UNCHANGED <<seq, caller>> => CallersTyped'
      BY DEF CallersTyped, Aimed
<1> QED BY <1>1, <1>2, <1>3, <1>4, <1>5, <1>6

\* start(): the new number is fresh and within bounds.
LEMMA TypedAdmit ==
  ASSUME Typed, NEW p \in Specs, Admit(p)
  PROVE  Typed'
<1> DEFINE i == seq + 1
<1>0. i \in Ids /\ i \in 1..i /\ 1..seq \subseteq 1..i
      BY CapTypes DEF Typed, PoolTyped, Admit, Ids
<1>1. PoolTyped'
  <2>1. seq' = i /\ seq' \in 0..MaxTasks
        BY <1>0 DEF Admit, Ids
  <2>2. spec' \in [Ids -> Specs \cup {NoSpec}]
        BY <1>0 DEF Admit, Typed, PoolTyped
  <2>3. tasks' \subseteq 1..seq'
        BY <1>0, <2>1 DEF Admit, Typed, PoolTyped
  <2>4. \A j \in tasks' : spec'[j] \in Specs
        BY <1>0, <2>1 DEF Admit, Typed, PoolTyped, Ids
  <2> QED BY <2>1, <2>2, <2>3, <2>4 DEF Admit, Typed, PoolTyped
<1>2. TaskTyped'
      BY <1>0 DEF Admit, Typed, TaskTyped, Statuses
<1>3. GoTyped'
      BY <1>0 DEF Admit, Typed, GoTyped
<1>4. CallersTyped'
      BY <1>0 DEF Admit, Typed, CallersTyped, CallerStates, Aimed
<1> QED BY <1>1, <1>2, <1>3, <1>4, Frames DEF Admit, Typed
\* The goroutine that called Start, from launch to its last notification.
LEMMA TypedStarterStep ==
  ASSUME Typed, NEW i \in Ids, StarterStep(i)
  PROVE  Typed'
<1> USE DEF Typed
<1>1. CASE Launch(i)
  <2>1. WorkTyped' BY <1>1 DEF Launch, WorkTyped
  <2>2. GoTyped' BY <1>1 DEF Launch, GoTyped
  <2>3. OutTyped' BY <1>1 DEF Launch, OutTyped
  <2> QED BY <1>1, <2>1, <2>2, <2>3, Frames
         DEF Launch, poolVars, taskVars
<1>2. CASE LaunchFails(i)
  <2>1. TaskTyped' BY <1>2 DEF LaunchFails, TaskTyped, Statuses, Verdicts
  <2>2. GoTyped' BY <1>2 DEF LaunchFails, GoTyped
  <2>3. OutTyped' BY <1>2 DEF LaunchFails, OutTyped
  <2> QED BY <1>2, <2>1, <2>2, <2>3, Frames
         DEF LaunchFails, poolVars, workVars
<1>3. CASE AttachHandle(i)
  <2>1. TaskTyped' BY <1>3 DEF AttachHandle, TaskTyped
  <2>2. GoTyped' BY <1>3 DEF AttachHandle, GoTyped
  <2> QED BY <1>3, <2>1, <2>2, Frames
         DEF AttachHandle, poolVars, workVars, outVars
<1>4. CASE StarterStop(i)
  <2>1. WorkTyped' BY <1>4 DEF StarterStop, WorkTyped, HandleStop
  <2>2. GoTyped' BY <1>4 DEF StarterStop, GoTyped
  <2> QED BY <1>4, <2>1, <2>2, Frames
         DEF StarterStop, poolVars, taskVars, outVars
<1>5. CASE StarterPersist(i)
  <2>1. GoTyped' BY <1>5 DEF StarterPersist, GoTyped
  <2>2. OutTyped' BY <1>5 DEF StarterPersist, OutTyped, Persist, TaskTyped
  <2> QED BY <1>5, <2>1, <2>2, Frames
         DEF StarterPersist, poolVars, taskVars, workVars
<1>6. CASE StarterNotify(i)
  <2>1. GoTyped' BY <1>6 DEF StarterNotify, GoTyped
  <2>2. OutTyped' BY <1>6 DEF StarterNotify, OutTyped, Notify, TaskTyped
  <2> QED BY <1>6, <2>1, <2>2, Frames
         DEF StarterNotify, poolVars, taskVars, workVars
<1>7. CASE FailClose(i)
  <2>1. TaskTyped' BY <1>7 DEF FailClose, TaskTyped
  <2>2. GoTyped' BY <1>7 DEF FailClose, GoTyped
  <2> QED BY <1>7, <2>1, <2>2, Frames
         DEF FailClose, poolVars, workVars, outVars
<1>8. CASE FailNotify(i)
  <2>1. GoTyped' BY <1>8 DEF FailNotify, GoTyped
  <2>2. OutTyped' BY <1>8 DEF FailNotify, OutTyped, Notify, TaskTyped
  <2> QED BY <1>8, <2>1, <2>2, Frames
         DEF FailNotify, poolVars, taskVars, workVars
<1> QED BY <1>1, <1>2, <1>3, <1>4, <1>5, <1>6, <1>7, <1>8
       DEF StarterStep

\* The goroutine parked in handle.Wait.
LEMMA TypedWaiterStep ==
  ASSUME Typed, NEW i \in Ids, WaiterStep(i)
  PROVE  Typed'
<1> USE DEF Typed
<1>1. CASE WaitReturns(i)
  <2>1. GoTyped' BY <1>1 DEF WaitReturns, GoTyped
  <2> QED BY <1>1, <2>1, Frames
         DEF WaitReturns, poolVars, taskVars, workVars, outVars
<1>2. CASE MarkExitObserved(i)
  <2>1. TaskTyped' BY <1>2 DEF MarkExitObserved, TaskTyped
  <2>2. GoTyped' BY <1>2 DEF MarkExitObserved, GoTyped
  <2> QED BY <1>2, <2>1, <2>2, Frames
         DEF MarkExitObserved, poolVars, workVars, outVars
<1> QED BY <1>1, <1>2
       DEF WaiterStep

\* supervise(), from its select to the final notification.
LEMMA TypedSupervisorStep ==
  ASSUME Typed, NEW i \in Ids, SupervisorStep(i)
  PROVE  Typed'
<1> USE DEF Typed
<1>1. CASE Expire(i)
  <2>1. TaskTyped' BY <1>1 DEF Expire, TaskTyped, Claim
  <2>2. GoTyped' BY <1>1 DEF Expire, GoTyped
  <2> QED BY <1>1, <2>1, <2>2, Frames
         DEF Expire, poolVars, workVars, outVars
<1>2. CASE SupervisorStop(i)
  <2>1. WorkTyped' BY <1>2 DEF SupervisorStop, WorkTyped, HandleStop
  <2>2. GoTyped' BY <1>2 DEF SupervisorStop, GoTyped
  <2> QED BY <1>2, <2>1, <2>2, Frames
         DEF SupervisorStop, poolVars, taskVars, outVars
<1>3. CASE Finalise(i)
  <2>1. TaskTyped' BY <1>3 DEF Finalise, TaskTyped, Verdict, Statuses, Verdicts, NoReason
  <2>2. GoTyped' BY <1>3 DEF Finalise, GoTyped
  <2> QED BY <1>3, <2>1, <2>2, Frames
         DEF Finalise, poolVars, workVars, outVars
<1>4. CASE SupervisorPersist(i)
  <2>1. GoTyped' BY <1>4 DEF SupervisorPersist, GoTyped
  <2>2. OutTyped' BY <1>4 DEF SupervisorPersist, OutTyped, Persist, TaskTyped
  <2> QED BY <1>4, <2>1, <2>2, Frames
         DEF SupervisorPersist, poolVars, taskVars, workVars
<1>5. CASE CloseDone(i)
  <2>1. TaskTyped' BY <1>5 DEF CloseDone, TaskTyped
  <2>2. GoTyped' BY <1>5 DEF CloseDone, GoTyped
  <2> QED BY <1>5, <2>1, <2>2, Frames
         DEF CloseDone, poolVars, workVars, outVars
<1>6. CASE SupervisorNotify(i)
  <2>1. GoTyped' BY <1>6 DEF SupervisorNotify, GoTyped
  <2>2. OutTyped' BY <1>6 DEF SupervisorNotify, OutTyped, Notify, TaskTyped
  <2> QED BY <1>6, <2>1, <2>2, Frames
         DEF SupervisorNotify, poolVars, taskVars, workVars
<1> QED BY <1>1, <1>2, <1>3, <1>4, <1>5, <1>6
       DEF SupervisorStep

\* The work itself ends.
LEMMA TypedExit ==
  ASSUME Typed, NEW i \in Ids, Exit(i)
  PROVE  Typed'
<1> USE DEF Typed
<1>1. CASE Exit(i)
  <2>1. WorkTyped' BY <1>1 DEF Exit, WorkTyped
  <2> QED BY <1>1, <2>1, Frames
         DEF Exit, poolVars, taskVars, goVars, outVars
<1> QED BY <1>1
-----------------------------------------------------------------------------
(* The callers.                                                            *)

\* A caller that moves to a well-formed state leaves all callers well formed.
LEMMA OneCallerMoves ==
  ASSUME CallersTyped, UNCHANGED seq, NEW c \in Callers,
         NEW r \in CallerStates, Aimed(r), caller' = [caller EXCEPT ![c] = r]
  PROVE  CallersTyped'
BY DEF CallersTyped, Aimed

\* Looking tasks up and listing them yields admitted tasks only.
LEMMA TypedCall ==
  ASSUME Typed, NEW c \in Callers, Call(c)
  PROVE  Typed'
<1> USE DEF Typed
<1>0. /\ tasks \subseteq 1..seq /\ 1..seq \subseteq Ids
      /\ caller[c] \in CallerStates /\ Aimed(caller[c])
      BY CapTypes DEF PoolTyped, CallersTyped, Ids
<1>1. CASE CallStop(c)
  <2>1. PICK i \in tasks :
          caller' = [caller EXCEPT ![c].op = "stop", ![c].pc = "claim",
                                   ![c].target = i]
        BY <1>1 DEF CallStop
  <2> DEFINE r == [caller[c] EXCEPT !.op = "stop", !.pc = "claim", !.target = i]
  <2>2. r \in CallerStates /\ Aimed(r) /\ caller' = [caller EXCEPT ![c] = r]
        BY <1>0, <2>1 DEF CallerStates, Aimed, AllOps, CallersTyped
  <2> HIDE DEF r
  <2>3. CallersTyped'
        BY <1>1, <2>2, OneCallerMoves DEF CallStop, OnlyCaller, poolVars
  <2> QED BY <1>1, <2>3, Frames DEF CallStop, OnlyCaller
<1>2. CASE CallWait(c)
  <2>1. PICK i \in tasks :
          caller' = [caller EXCEPT ![c].op = "wait", ![c].pc = "wait",
                                   ![c].target = i]
        BY <1>2 DEF CallWait
  <2> DEFINE r == [caller[c] EXCEPT !.op = "wait", !.pc = "wait", !.target = i]
  <2>2. r \in CallerStates /\ Aimed(r) /\ caller' = [caller EXCEPT ![c] = r]
        BY <1>0, <2>1 DEF CallerStates, Aimed, AllOps, CallersTyped
  <2> HIDE DEF r
  <2>3. CallersTyped'
        BY <1>2, <2>2, OneCallerMoves DEF CallWait, OnlyCaller, poolVars
  <2> QED BY <1>2, <2>3, Frames DEF CallWait, OnlyCaller
<1>3. CASE CallRetire(c)
  <2>1. PICK s \in Sessions :
          caller' = [caller EXCEPT ![c].op = "retire", ![c].pc = "next",
                                   ![c].todo = Unfinished(s),
                                   ![c].sessions = {s}]
        BY <1>3 DEF CallRetire
  <2> DEFINE r == [caller[c] EXCEPT !.op = "retire", !.pc = "next",
                                    !.todo = Unfinished(s), !.sessions = {s}]
  <2>2. Unfinished(s) \subseteq tasks
        BY DEF Unfinished
  <2>3. r \in CallerStates /\ Aimed(r) /\ caller' = [caller EXCEPT ![c] = r]
        BY <1>0, <2>1, <2>2 DEF CallerStates, Aimed, AllOps, CallersTyped
  <2> HIDE DEF r
  <2>4. CallersTyped'
        BY <1>3, <2>3, OneCallerMoves DEF CallRetire, OnlyCaller, poolVars
  <2> QED BY <1>3, <2>4, Frames DEF CallRetire, OnlyCaller
<1>4. CASE CallDrain(c)
  <2>1. PoolTyped'
        BY <1>4 DEF CallDrain, PoolTyped
  <2>2. CallersTyped'
        BY <1>0, <1>4 DEF CallDrain, CallersTyped, CallerStates, Aimed, AllOps
  <2> QED BY <1>4, <2>1, <2>2, Frames DEF CallDrain
<1>5. CASE CallForget(c)
  <2>1. PoolTyped'
        BY <1>5 DEF CallForget, Drop, PoolTyped
  <2>2. CallersTyped'
    <3>1. PICK i \in tasks :
            caller' = [caller EXCEPT ![c].op = "forget", ![c].pc = "remove",
                                     ![c].todo = {i}]
          BY <1>5 DEF CallForget
    <3> DEFINE r == [caller[c] EXCEPT !.op = "forget", !.pc = "remove",
                                      !.todo = {i}]
    <3>2. r \in CallerStates /\ Aimed(r) /\ caller' = [caller EXCEPT ![c] = r]
          BY <1>0, <3>1 DEF CallerStates, Aimed, AllOps, CallersTyped
    <3> HIDE DEF r
    <3> QED BY <1>5, <3>2, OneCallerMoves DEF CallForget, Drop
  <2> QED BY <1>5, <2>1, <2>2, Frames DEF CallForget
<1>6. CASE CallClear(c)
  <2>1. PoolTyped'
        BY <1>6 DEF CallClear, Drop, PoolTyped
  <2>2. CallersTyped'
    <3>1. PICK s \in Sessions :
            caller' = [caller EXCEPT ![c].op = "clear", ![c].pc = "remove",
                                     ![c].todo = FinishedOf(s)]
          BY <1>6 DEF CallClear
    <3> DEFINE r == [caller[c] EXCEPT !.op = "clear", !.pc = "remove",
                                      !.todo = FinishedOf(s)]
    <3>2. FinishedOf(s) \subseteq tasks
          BY DEF FinishedOf
    <3>3. r \in CallerStates /\ Aimed(r) /\ caller' = [caller EXCEPT ![c] = r]
          BY <1>0, <3>1, <3>2 DEF CallerStates, Aimed, AllOps, CallersTyped
    <3> HIDE DEF r
    <3> QED BY <1>6, <3>3, OneCallerMoves DEF CallClear, Drop
  <2> QED BY <1>6, <2>1, <2>2, Frames DEF CallClear
<1> QED BY <1>1, <1>2, <1>3, <1>4, <1>5, <1>6 DEF Call

\* What callers do once their operation began.
LEMMA TypedCallerStep ==
  ASSUME Typed, NEW c \in Callers, CallerStep(c) \/ WaitGivesUp(c)
  PROVE  Typed'
<1> USE DEF Typed
<1>0. /\ tasks \subseteq 1..seq /\ 1..seq \subseteq Ids
      /\ caller[c] \in CallerStates /\ Aimed(caller[c])
      /\ \A i \in tasks : spec[i] \in Specs
      BY CapTypes DEF PoolTyped, CallersTyped, Ids
<1>a. IdleCaller \in CallerStates /\ Aimed(IdleCaller)
      BY DEF IdleCaller, CallerStates, Aimed
<1>b. Returned(c) \in CallerStates /\ Aimed(Returned(c))
      BY <1>0, <1>a DEF Returned, CallerStates, Aimed
<1>1. CASE StopAll(c)
  <2>1. {spec[i].session : i \in tasks} \subseteq Sessions
        BY <1>0 DEF Sessions
  <2> QED BY <1>0, <1>1, <2>1, Frames
          DEF StopAll, OnlyCaller, CallersTyped, CallerStates, Aimed, poolVars
<1>2. CASE NextSession(c)
  <2>1. PICK s \in caller[c].sessions :
          caller' = [caller EXCEPT ![c].pc = "next", ![c].todo = Unfinished(s),
                                   ![c].sessions = @ \ {s}]
        BY <1>2 DEF NextSession
  <2> DEFINE r == [caller[c] EXCEPT !.pc = "next", !.todo = Unfinished(s),
                                    !.sessions = @ \ {s}]
  <2>2. Unfinished(s) \subseteq tasks
        BY DEF Unfinished
  <2>3. r \in CallerStates /\ Aimed(r) /\ caller' = [caller EXCEPT ![c] = r]
        BY <1>0, <2>1, <2>2 DEF CallerStates, Aimed, CallersTyped
  <2> HIDE DEF r
  <2>4. CallersTyped'
        BY <1>2, <2>3, OneCallerMoves DEF NextSession, OnlyCaller, poolVars
  <2> QED BY <1>2, <2>4, Frames DEF NextSession, OnlyCaller
<1>3. CASE DrainReturns(c)
  <2>1. PoolTyped'
        BY <1>3 DEF DrainReturns, PoolTyped
  <2>2. CallersTyped'
        BY <1>a, <1>3 DEF DrainReturns, CallersTyped, Aimed
  <2> QED BY <1>3, <2>1, <2>2, Frames DEF DrainReturns
<1>4. CASE NextTask(c)
  <2>1. PICK i \in caller[c].todo :
          caller' = [caller EXCEPT ![c].todo = @ \ {i},
                                   ![c].pc = IF i \in tasks THEN "claim" ELSE @,
                                   ![c].target = IF i \in tasks THEN i ELSE @]
        BY <1>4 DEF NextTask
  <2> DEFINE r == [caller[c] EXCEPT !.todo = @ \ {i},
                                    !.pc = IF i \in tasks THEN "claim" ELSE @,
                                    !.target = IF i \in tasks THEN i ELSE @]
  <2>2. r \in CallerStates /\ Aimed(r) /\ caller' = [caller EXCEPT ![c] = r]
        BY <1>0, <1>4, <2>1 DEF NextTask, Step, CallerStates, Aimed, CallersTyped
  <2> HIDE DEF r
  <2>3. CallersTyped'
        BY <1>4, <2>2, OneCallerMoves DEF NextTask, OnlyCaller, poolVars
  <2> QED BY <1>4, <2>3, Frames DEF NextTask, OnlyCaller
<1>5. CASE SessionStopped(c)
      BY <1>0, <1>5, Frames
      DEF SessionStopped, OnlyCaller, CallersTyped, CallerStates, Aimed, poolVars
<1>6. CASE ClaimStop(c)
  <2>1. TaskTyped'
        BY <1>6 DEF ClaimStop, Claim, TaskTyped
  <2>2. CallersTyped'
        BY <1>0, <1>6
        DEF ClaimStop, Step, CallersTyped, CallerStates, Aimed, poolVars
  <2> QED BY <1>6, <2>1, <2>2, Frames DEF ClaimStop
<1>7. CASE Signal(c)
  <2>1. WorkTyped'
        BY <1>0, <1>7 DEF Signal, Step, HandleStop, WorkTyped, Aimed
  <2>2. CallersTyped'
        BY <1>0, <1>b, <1>7
        DEF Signal, Step, CallersTyped, CallerStates, Aimed, poolVars
  <2> QED BY <1>7, <2>1, <2>2, Frames DEF Signal
<1>8. CASE Settled(c)
      BY <1>b, <1>8, Frames
      DEF Settled, OnlyCaller, CallersTyped, Aimed, poolVars
<1>9. CASE Release(c)
  <2>1. PoolTyped'
        BY <1>9 DEF Release, Drop, PoolTyped
  <2>2. CallersTyped'
        BY <1>a, <1>9 DEF Release, Drop, CallersTyped, Aimed
  <2> QED BY <1>9, <2>1, <2>2, Frames DEF Release
<1>10. CASE RemoveDir(c)
  <2>1. OutTyped'
        BY <1>10 DEF RemoveDir, OutTyped, Statuses
  <2>2. CallersTyped'
        BY <1>0, <1>10
        DEF RemoveDir, CallersTyped, CallerStates, Aimed, poolVars
  <2> QED BY <1>10, <2>1, <2>2, Frames DEF RemoveDir
<1>11. CASE RemovedAll(c)
      BY <1>a, <1>11, Frames
      DEF RemovedAll, OnlyCaller, CallersTyped, Aimed, poolVars
<1>12. CASE WaitGivesUp(c)
      BY <1>a, <1>12, Frames
      DEF WaitGivesUp, OnlyCaller, CallersTyped, Aimed, poolVars
<1> QED BY <1>1, <1>2, <1>3, <1>4, <1>5, <1>6, <1>7, <1>8, <1>9, <1>10, <1>11,
           <1>12 DEF CallerStep

\* Every step of the pool keeps the types.
LEMMA TypedNext == Typed /\ [Next]_vars => Typed'
<1> SUFFICES ASSUME Typed, [Next]_vars PROVE Typed'
    OBVIOUS
<1>1. CASE Reopen
  <2>1. PoolTyped'
        BY <1>1 DEF Reopen, Typed, PoolTyped
  <2> QED BY <1>1, <2>1, Frames DEF Reopen, Typed
<1>2. CASE UNCHANGED vars
      BY <1>2, Frames DEF vars, poolVars, Typed
<1> QED BY <1>1, <1>2, TypedAdmit, TypedStarterStep, TypedWaiterStep,
           TypedSupervisorStep, TypedExit, TypedCall, TypedCallerStep DEF Next

\* Every variable keeps its type in every reachable state, and callers only
\* ever act on tasks that were admitted.
THEOREM AlwaysTyped == Spec => []Typed
BY TypedInit, TypedNext, PTL DEF Spec

\* The type invariant of BgPool holds for all constants.
THEOREM TypesHold == Spec => []TypeOK
BY AlwaysTyped, TypedImpliesTypeOK, PTL

-----------------------------------------------------------------------------
(* Safety: what each of the goroutines that share a task knows about it at *)
(* every point of its own code, from which the safety properties of BgPool *)
(* follow.  The invariant has one part per goroutine and one for the       *)
(* tokens that allow a stop.                                               *)

\* Nothing is known of a number that was not given out; until the launch
\* returned there is no work, and until the handle is published none to stop.
StarterKnows(i) ==
  /\ i \in 1..seq <=> starter[i] # "none"
  /\ starter[i] = "none" => status[i] = "absent" /\ termReason[i] = NoReason
  /\ starter[i] \in {"launch", "attach", "stop", "persist", "notify"}
       => status[i] = "running"
  /\ starter[i] \in {"failClose", "failPersist", "failNotify"}
       => status[i] = "failed"
  /\ starter[i] \in {"none", "launch", "failClose", "failPersist", "failNotify"}
       => proc[i] = "none" /\ ~handle[i]
  /\ starter[i] = "attach" => proc[i] # "none" /\ ~handle[i]
  /\ starter[i] \in {"stop", "persist", "notify"} => proc[i] # "none" /\ handle[i]
  /\ starter[i] # "ended" => supervisor[i] = "none"

\* A task that is running has a supervisor once its start is over, and one that
\* finished has the verdict of the exit its waiter reaped.
SupervisorKnows(i) ==
  /\ starter[i] = "ended" /\ supervisor[i] = "none"
       => status[i] = "failed" /\ proc[i] = "none" /\ ~handle[i]
  /\ supervisor[i] # "none" => handle[i] /\ proc[i] # "none"
  /\ supervisor[i] \in {"select", "stop", "await"} => status[i] = "running"
  /\ supervisor[i] \in {"persist", "close", "notify", "ended"}
       => waiter[i] = "sent" /\ status[i] = Verdict(i)
  /\ supervisor[i] = "none" <=> waiter[i] = "none"
  /\ waiter[i] \in {"reaped", "sent"} => Gone(i)
  /\ exitObserved[i] <=> waiter[i] = "sent"

\* What was persisted, released and announced by each point.
OutsidersKnow(i) ==
  /\ done[i] <=> \/ starter[i] \in {"failPersist", "failNotify"}
                 \/ starter[i] = "ended" /\ supervisor[i] = "none"
                 \/ supervisor[i] \in {"notify", "ended"}
  /\ starter[i] \in {"none", "launch", "failClose", "failPersist"}
       => rec[i] = "absent"
  /\ starter[i] = "failNotify" => rec[i] \in {"absent", status[i]}
  /\ starter[i] = "ended" /\ supervisor[i] = "none"
       => rec[i] \in {"absent", status[i]} /\ heard[i] = status[i]
  /\ supervisor[i] \in {"close", "notify", "ended"}
       => rec[i] \in {"absent", status[i]}
  /\ i \notin dirs => rec[i] = "absent"
  /\ starter[i] # "ended" => heard[i] = "absent"
  /\ supervisor[i] \in {"select", "stop", "await", "persist", "close", "notify"}
       => heard[i] = "running"
  /\ supervisor[i] = "ended" => heard[i] = status[i]

Registered(i) == status[i] = "running" => i \in tasks

Coherent == \A i \in Ids : /\ StarterKnows(i) /\ SupervisorKnows(i)
                           /\ OutsidersKnow(i) /\ Registered(i)

Signals(c, i) == caller[c].pc = "signal" /\ caller[c].target = i

AboutToStop(i) == \/ starter[i] = "stop"
                  \/ supervisor[i] = "stop"
                  \/ \E c \in Callers : Signals(c, i)

\* Whoever is about to call handle.Stop owns the claim, and is alone.
StopsAreOwned == \A i \in Ids :
  /\ stops[i] <= 1
  /\ stops[i] = 1 => termReason[i] # NoReason /\ handle[i]
  /\ AboutToStop(i) => termReason[i] # NoReason /\ handle[i] /\ stops[i] = 0
  /\ \A c \in Callers :
       Signals(c, i) => /\ starter[i] # "stop"
                        /\ supervisor[i] # "stop"
                        /\ \A d \in Callers : Signals(d, i) => d = c

-----------------------------------------------------------------------------
(* What the invariant implies.                                             *)

\* Three of the safety properties are read off the invariant.
LEMMA CoherentImplies ==
  ASSUME Typed, Coherent
  PROVE  NoStrayWork /\ VerdictIsTrue /\ WaitersReadTheVerdict
<1> USE DEF Coherent, StarterKnows, SupervisorKnows
<1>1. NoStrayWork
  <2>1. ASSUME NEW i \in Ids, Working(i) PROVE i \in tasks /\ status[i] = "running"
    <3>1. proc[i] # "none" /\ ~Gone(i)
          BY <2>1 DEF Working, Gone
    <3>2. status[i] = "running"
          BY <3>1 DEF Typed, GoTyped
    <3> QED BY <3>2 DEF Registered
  <2> QED BY <2>1 DEF NoStrayWork
<1>2. VerdictIsTrue
  <2>1. ASSUME NEW i \in Ids, Finished(status[i])
        PROVE  IF handle[i] THEN status[i] = Verdict(i) /\ Gone(i)
                            ELSE status[i] = "failed"
        BY <2>1 DEF Finished, Verdicts, Typed, GoTyped
  <2> QED BY <2>1 DEF VerdictIsTrue, Verdict, Gone, Typed, TaskTyped
<1>3. WaitersReadTheVerdict
  <2>1. ASSUME NEW i \in Ids, done[i] PROVE Finished(status[i])
    <3>1. \/ status[i] = "failed"
          \/ status[i] = Verdict(i)
          BY <2>1 DEF OutsidersKnow
    <3> QED BY <3>1 DEF Verdict, Finished, Verdicts, Typed, TaskTyped, NoReason
  <2>2. ASSUME NEW i \in Ids, done[i] PROVE rec[i] \in {"absent", status[i]}
        BY <2>2 DEF OutsidersKnow
  <2> QED BY <2>1, <2>2 DEF WaitersReadTheVerdict
<1> QED BY <1>1, <1>2, <1>3

\* So is the fourth.
LEMMA OwnedImplies == Typed /\ StopsAreOwned => StoppedOnce
BY DEF StopsAreOwned, StoppedOnce, Typed, WorkTyped

\* Nothing was started, so nobody knows anything.
LEMMA CoherentInit == Init => Coherent
BY CapTypes DEF Init, Coherent, StarterKnows, SupervisorKnows, OutsidersKnow,
   Registered, Ids

\* The starter moves on and what it knows moves with it.
LEMMA CoherentStarter ==
  ASSUME Typed, Coherent, NEW i \in Ids, StarterStep(i)
  PROVE  Coherent'
<1> USE DEF Coherent, Typed, TaskTyped, WorkTyped, GoTyped, OutTyped
<1> USE DEF StarterKnows, SupervisorKnows, OutsidersKnow, Registered, Verdict, Gone
<1> USE DEF poolVars, taskVars, workVars, goVars, outVars
<1>1. CASE Launch(i)
      BY <1>1 DEF Launch
<1>2. CASE LaunchFails(i)
      BY <1>2 DEF LaunchFails
<1>3. CASE AttachHandle(i)
      BY <1>3 DEF AttachHandle
<1>4. CASE StarterStop(i)
      BY <1>4 DEF StarterStop, HandleStop
<1>5. CASE StarterPersist(i)
      BY <1>5 DEF StarterPersist, Persist
<1>6. CASE StarterNotify(i)
      BY <1>6 DEF StarterNotify, Notify
<1>7. CASE FailClose(i)
      BY <1>7 DEF FailClose
<1>8. CASE FailNotify(i)
      BY <1>8 DEF FailNotify, Notify
<1> QED BY <1>1, <1>2, <1>3, <1>4, <1>5, <1>6, <1>7, <1>8 DEF StarterStep

\* A task is registered as running before its launch.
LEMMA CoherentAdmit ==
  ASSUME Typed, Coherent, NEW p \in Specs, Admit(p)
  PROVE  Coherent'
BY CapTypes
   DEF Admit, Coherent, StarterKnows, SupervisorKnows, OutsidersKnow, Registered,
       Verdict, Gone, Typed, PoolTyped, TaskTyped, WorkTyped, GoTyped, OutTyped,
       workVars, outVars, Ids

\* The waiter reaps the exit before the supervisor decides the verdict.
LEMMA CoherentSupervisor ==
  ASSUME Typed, Coherent, NEW i \in Ids,
         SupervisorStep(i) \/ WaiterStep(i) \/ Exit(i)
  PROVE  Coherent'
<1> USE DEF Coherent, Typed, TaskTyped, WorkTyped, GoTyped, OutTyped
<1> USE DEF StarterKnows, SupervisorKnows, OutsidersKnow, Registered, Verdict, Gone
<1> USE DEF poolVars, taskVars, workVars, goVars, outVars
<1>1. CASE Expire(i)
      BY <1>1 DEF Expire, Claim, Claimable
<1>2. CASE SupervisorStop(i)
      BY <1>2 DEF SupervisorStop, HandleStop
<1>3. CASE Finalise(i)
      BY <1>3 DEF Finalise
<1>4. CASE SupervisorPersist(i)
      BY <1>4 DEF SupervisorPersist, Persist
<1>5. CASE CloseDone(i)
      BY <1>5 DEF CloseDone
<1>6. CASE SupervisorNotify(i)
      BY <1>6 DEF SupervisorNotify, Notify
<1>7. CASE WaitReturns(i)
      BY <1>7 DEF WaitReturns
<1>8. CASE MarkExitObserved(i)
      BY <1>8 DEF MarkExitObserved
<1>9. CASE Exit(i)
      BY <1>9 DEF Exit, Working
<1> QED BY <1>1, <1>2, <1>3, <1>4, <1>5, <1>6, <1>7, <1>8, <1>9
        DEF SupervisorStep, WaiterStep

\* A caller disturbs a task by claiming it, by signalling its work, by dropping
\* it once it finished and by removing its record; nothing else.
LEMMA CoherentCaller ==
  ASSUME Typed, Coherent, NEW c \in Callers,
         Call(c) \/ CallerStep(c) \/ WaitGivesUp(c)
  PROVE  Coherent'
<1> USE DEF Coherent, Typed, TaskTyped, WorkTyped, GoTyped, OutTyped
<1> USE DEF StarterKnows, SupervisorKnows, OutsidersKnow, Registered, Verdict, Gone
<1> USE DEF poolVars, taskVars, workVars, goVars, outVars
<1>1. CASE ClaimStop(c)
  <2>1. caller[c].target \in Ids /\ caller[c].target \in 1..seq
        BY <1>1, CapTypes DEF ClaimStop, Step, CallersTyped, Aimed, PoolTyped, Ids
  <2>2. \A i \in Ids : status[i] = Verdict(i) => Finished(status[i])
        BY DEF Finished, Verdicts, NoReason
  <2> QED BY <1>1, <2>1, <2>2 DEF ClaimStop, Claim, Claimable
<1>2. CASE Signal(c)
      BY <1>2 DEF Signal, HandleStop
<1>3. CASE RemoveDir(c)
      BY <1>3 DEF RemoveDir
<1>4. CASE Release(c) \/ CallForget(c) \/ CallClear(c)
  <2>1. \A i \in tasks \ tasks' : Finished(status[i])
        BY <1>4 DEF Release, CallForget, CallClear, Drop, FinishedOf
  <2>2. UNCHANGED <<seq, taskVars, workVars, goVars, outVars>>
        BY <1>4 DEF Release, CallForget, CallClear, Drop
  <2> QED BY <2>1, <2>2 DEF Finished, Verdicts
<1>5. CASE CallDrain(c) \/ DrainReturns(c)
      BY <1>5 DEF CallDrain, DrainReturns
<1>6. CASE OnlyCaller
      BY <1>6 DEF OnlyCaller
<1> QED BY <1>1, <1>2, <1>3, <1>4, <1>5, <1>6
        DEF Call, CallerStep, WaitGivesUp, CallStop, CallWait, CallRetire, StopAll,
            NextSession, NextTask, SessionStopped, Settled, RemovedAll

\* Every step of the pool keeps the goroutines coherent.
LEMMA CoherentNext == Typed /\ Coherent /\ [Next]_vars => Coherent'
<1> SUFFICES ASSUME Typed, Coherent, [Next]_vars PROVE Coherent'
    OBVIOUS
<1>1. CASE Reopen \/ UNCHANGED vars
      BY <1>1
      DEF Reopen, vars, poolVars, taskVars, workVars, goVars, outVars, Coherent,
          StarterKnows, SupervisorKnows, OutsidersKnow, Registered, Verdict, Gone
<1> QED BY <1>1, CoherentAdmit, CoherentStarter, CoherentSupervisor,
           CoherentCaller DEF Next

\* The invariant holds in every reachable state.
THEOREM AlwaysCoherent == Spec => []Coherent
BY AlwaysTyped, CoherentInit, CoherentNext, PTL DEF Spec

\* Work that exists has a registered, unfinished task in every reachable state.
THEOREM NoWorkStrays == Spec => []NoStrayWork
BY AlwaysTyped, AlwaysCoherent, CoherentImplies, PTL

\* A finished task tells how its work really ended, in every reachable state.
THEOREM VerdictsAreTrue == Spec => []VerdictIsTrue
BY AlwaysTyped, AlwaysCoherent, CoherentImplies, PTL

\* Whoever waited for a task finds its verdict, in the pool and on disk.
THEOREM WaitersAreServed == Spec => []WaitersReadTheVerdict
BY AlwaysTyped, AlwaysCoherent, CoherentImplies, PTL

-----------------------------------------------------------------------------
(* At most one stop per task.                                              *)

\* Nobody is about to stop anything.
LEMMA OwnedInit == Init => StopsAreOwned
BY DEF Init, StopsAreOwned, AboutToStop, Signals, IdleCaller

\* Steps that neither signal nor move a claim keep the ownership of stops.
LEMMA OwnedFrame ==
  ASSUME StopsAreOwned, UNCHANGED <<stops, termReason>>,
         \A i \in Ids : handle[i] => handle'[i],
         \A i \in Ids : starter'[i] = "stop" => starter[i] = "stop",
         \A i \in Ids : supervisor'[i] = "stop" => supervisor[i] = "stop",
         \A c \in Callers, i \in Ids : Signals(c, i)' => Signals(c, i)
  PROVE  StopsAreOwned'
BY DEF StopsAreOwned, AboutToStop

\* terminateNow runs only for a claim that nobody else could act on.
LEMMA OwnedStarter ==
  ASSUME Typed, Coherent, StopsAreOwned, NEW i \in Ids, StarterStep(i)
  PROVE  StopsAreOwned'
<1> USE DEF Typed, TaskTyped, WorkTyped, GoTyped
<1> USE DEF poolVars, taskVars, workVars, goVars, outVars
<1>1. CASE AttachHandle(i)
  <2>1. ~handle[i] /\ supervisor[i] = "none"
        BY <1>1 DEF AttachHandle, Coherent, StarterKnows
  <2>2. stops[i] = 0 /\ ~AboutToStop(i)
        BY <2>1 DEF StopsAreOwned
  <2> QED BY <1>1, <2>1, <2>2 DEF AttachHandle, StopsAreOwned, AboutToStop, Signals
<1>2. CASE StarterStop(i)
  <2>1. supervisor[i] = "none"
        BY <1>2 DEF StarterStop, Coherent, StarterKnows
  <2> QED BY <1>2, <2>1
          DEF StarterStop, HandleStop, StopsAreOwned, AboutToStop, Signals
<1>3. CASE Launch(i) \/ LaunchFails(i) \/ FailClose(i) \/ FailNotify(i)
      BY <1>3, OwnedFrame DEF Launch, LaunchFails, FailClose, FailNotify, Signals
<1>4. CASE StarterPersist(i) \/ StarterNotify(i)
      BY <1>4, OwnedFrame DEF StarterPersist, StarterNotify, Signals
<1> QED BY <1>1, <1>2, <1>3, <1>4 DEF StarterStep

\* The timer stops a task only when it made the claim itself.
LEMMA OwnedSupervisor ==
  ASSUME Typed, Coherent, StopsAreOwned, NEW i \in Ids,
         SupervisorStep(i) \/ WaiterStep(i) \/ Exit(i)
  PROVE  StopsAreOwned'
<1> USE DEF Typed, TaskTyped, WorkTyped, GoTyped
<1> USE DEF poolVars, taskVars, workVars, goVars, outVars
<1>1. CASE Expire(i)
  <2>1. handle[i] /\ starter[i] = "ended"
        BY <1>1 DEF Expire, Coherent, StarterKnows, SupervisorKnows
  <2> QED BY <1>1, <2>1
          DEF Expire, Claim, Claimable, StopsAreOwned, AboutToStop, Signals, NoReason
<1>2. CASE SupervisorStop(i)
  <2>1. starter[i] = "ended"
        BY <1>2 DEF SupervisorStop, Coherent, StarterKnows
  <2> QED BY <1>2, <2>1
          DEF SupervisorStop, HandleStop, StopsAreOwned, AboutToStop, Signals
<1>3. CASE Finalise(i) \/ SupervisorPersist(i) \/ CloseDone(i)
      BY <1>3, OwnedFrame DEF Finalise, SupervisorPersist, CloseDone, Signals
<1>4. CASE SupervisorNotify(i) \/ WaiterStep(i) \/ Exit(i)
      BY <1>4, OwnedFrame
      DEF SupervisorNotify, WaiterStep, WaitReturns, MarkExitObserved, Exit, Signals
<1> QED BY <1>1, <1>2, <1>3, <1>4 DEF SupervisorStep

\* A caller changes its own state only, and Stop alone makes it signal.
LEMMA QuietCallers ==
  ASSUME Typed, NEW c \in Callers,
         Call(c) \/ CallerStep(c) \/ WaitGivesUp(c),
         ~ClaimStop(c), ~Signal(c)
  PROVE  /\ caller'[c].pc # "signal"
         /\ \A d \in Callers \ {c} : caller'[d] = caller[d]
<1> USE DEF Typed, CallersTyped, CallerStates, Idle, Step, Returned, IdleCaller
<1>1. CASE CallStop(c) \/ CallWait(c)
  <2>1. PICK i \in tasks, op \in {"stop", "wait"}, pc \in {"claim", "wait"} :
          caller' = [caller EXCEPT ![c].op = op, ![c].pc = pc, ![c].target = i]
        BY <1>1 DEF CallStop, CallWait
  <2> QED BY <2>1
<1>2. CASE CallRetire(c)
  <2>1. PICK s \in Sessions :
          caller' = [caller EXCEPT ![c].op = "retire", ![c].pc = "next",
                                   ![c].todo = Unfinished(s),
                                   ![c].sessions = {s}]
        BY <1>2 DEF CallRetire
  <2> QED BY <2>1
<1>3. CASE CallForget(c) \/ CallClear(c)
  <2>1. PICK todo \in SUBSET tasks, op \in {"forget", "clear"} :
          caller' = [caller EXCEPT ![c].op = op, ![c].pc = "remove",
                                   ![c].todo = todo]
    <3>1. \A i \in tasks : {i} \in SUBSET tasks
          OBVIOUS
    <3>2. \A s : FinishedOf(s) \in SUBSET tasks
          BY DEF FinishedOf
    <3>3. CASE CallForget(c)
          BY <3>1, <3>3 DEF CallForget
    <3>4. CASE CallClear(c)
          BY <3>2, <3>4 DEF CallClear
    <3> QED BY <1>3, <3>3, <3>4
  <2> QED BY <2>1
<1>8. CASE CallDrain(c)
      BY <1>8 DEF CallDrain
<1>4. CASE StopAll(c) \/ NextSession(c) \/ DrainReturns(c)
  <2>1. CASE StopAll(c)
        BY <2>1 DEF StopAll
  <2>2. CASE NextSession(c)
    <3>1. PICK s \in caller[c].sessions :
            caller' = [caller EXCEPT ![c].pc = "next", ![c].todo = Unfinished(s),
                                     ![c].sessions = @ \ {s}]
          BY <2>2 DEF NextSession
    <3> QED BY <3>1
  <2>3. CASE DrainReturns(c)
        BY <2>3 DEF DrainReturns
  <2> QED BY <1>4, <2>1, <2>2, <2>3
<1>5. CASE NextTask(c) \/ SessionStopped(c)
  <2>1. CASE NextTask(c)
    <3>1. PICK i \in caller[c].todo :
            caller' = [caller EXCEPT
                         ![c].todo = @ \ {i},
                         ![c].pc = IF i \in tasks THEN "claim" ELSE @,
                         ![c].target = IF i \in tasks THEN i ELSE @]
          BY <2>1 DEF NextTask
    <3> QED BY <2>1, <3>1 DEF NextTask
  <2>2. CASE SessionStopped(c)
        BY <2>2 DEF SessionStopped
  <2> QED BY <1>5, <2>1, <2>2
<1>6. CASE Settled(c) \/ WaitGivesUp(c)
  <2>1. CASE Settled(c)
    <3>1. caller' = [caller EXCEPT ![c] = Returned(c)]
          BY <2>1 DEF Settled
    <3>2. Returned(c).pc # "signal"
          BY DEF Returned
    <3> QED BY <3>1, <3>2
  <2>2. CASE WaitGivesUp(c)
        BY <2>2 DEF WaitGivesUp
  <2> QED BY <1>6, <2>1, <2>2
<1>7. CASE Release(c) \/ RemoveDir(c) \/ RemovedAll(c)
      BY <1>7 DEF Release, RemoveDir, RemovedAll
<1> QED BY <1>1, <1>2, <1>3, <1>4, <1>5, <1>6, <1>7, <1>8 DEF Call, CallerStep

\* Stop signals a task only when it made the claim itself.
LEMMA OwnedCaller ==
  ASSUME Typed, Coherent, StopsAreOwned, NEW c \in Callers,
         Call(c) \/ CallerStep(c) \/ WaitGivesUp(c)
  PROVE  StopsAreOwned'
<1> USE DEF Typed, TaskTyped, WorkTyped, GoTyped
<1> USE DEF poolVars, taskVars, workVars, goVars, outVars
<1>0. ASSUME caller[c].pc \in {"claim", "signal"}
      PROVE  caller[c].target \in Ids
      BY <1>0, CapTypes DEF CallersTyped, Aimed, PoolTyped, Ids
<1>a. caller \in [Callers -> CallerStates] /\ "pc" \in DOMAIN caller[c]
      BY DEF CallersTyped, CallerStates
<1>1. CASE ClaimStop(c)
  <2> DEFINE i == caller[c].target
  <2>1. i \in Ids
        BY <1>0, <1>1 DEF ClaimStop, Step
  <2>2. CASE Claimable(i) /\ handle[i]
    <3>0. termReason[i] = NoReason
          BY <2>2 DEF Claimable
    <3>1. stops[i] = 0 /\ ~AboutToStop(i)
      <4> HIDE DEF i
      <4> QED BY <2>1, <3>0 DEF StopsAreOwned
    <3>2. /\ caller' = [caller EXCEPT ![c].pc = "signal"]
          /\ termReason' = [termReason EXCEPT ![i] = "stopped"]
          /\ UNCHANGED <<stops, handle, starter, supervisor>>
          BY <1>1, <2>2 DEF ClaimStop, Claim
    <3>3. \A d \in Callers, j \in Ids :
            Signals(d, j)' => Signals(d, j) \/ (d = c /\ j = i)
          BY <1>a, <3>2 DEF Signals, CallerStates
    <3> HIDE DEF i
    <3> QED BY <2>1, <2>2, <3>1, <3>2, <3>3
            DEF StopsAreOwned, AboutToStop, NoReason
  <2>3. CASE ~(Claimable(i) /\ handle[i])
        BY <1>1, <2>1, <2>3
        DEF ClaimStop, Step, Claim, Claimable, StopsAreOwned, AboutToStop, Signals,
            NoReason
  <2> QED BY <2>2, <2>3
<1>2. CASE Signal(c)
  <2>1. caller[c].target \in Ids /\ Signals(c, caller[c].target)
        BY <1>0, <1>2 DEF Signal, Step, Signals
  <2>2. caller'[c].pc # "signal"
    <3>1. Returned(c).pc # "signal"
          BY <1>a, <1>2 DEF Returned, IdleCaller, Signal, Step, CallerStates
    <3>2. [caller[c] EXCEPT !.pc = "wait"].pc # "signal"
          BY <1>a
    <3>3. \/ caller' = [caller EXCEPT ![c] = [@ EXCEPT !.pc = "wait"]]
          \/ caller' = [caller EXCEPT ![c] = Returned(c)]
          BY <1>2 DEF Signal
    <3> QED BY <1>a, <3>1, <3>2, <3>3
  <2> QED BY <1>2, <2>1, <2>2
          DEF Signal, HandleStop, StopsAreOwned, AboutToStop, Signals
<1>3. CASE ~ClaimStop(c) /\ ~Signal(c)
  <2>1. UNCHANGED <<taskVars, workVars, goVars>>
        BY <1>3 DEF Call, CallerStep, CallStop, CallWait, CallRetire, CallDrain,
                    CallForget, CallClear, StopAll, NextSession, DrainReturns,
                    NextTask, SessionStopped, Settled, Release, RemoveDir,
                    RemovedAll, WaitGivesUp, OnlyCaller
  <2>2. /\ caller'[c].pc # "signal"
        /\ \A d \in Callers \ {c} : caller'[d] = caller[d]
        BY <1>3, QuietCallers
  <2> QED BY <2>1, <2>2, OwnedFrame DEF Signals
<1> QED BY <1>1, <1>2, <1>3

\* Every step of the pool keeps the ownership of stops.
LEMMA OwnedNext ==
  Typed /\ Coherent /\ StopsAreOwned /\ [Next]_vars => StopsAreOwned'
<1> SUFFICES ASSUME Typed, Coherent, StopsAreOwned, [Next]_vars
             PROVE  StopsAreOwned'
    OBVIOUS
<1>1. CASE Reopen \/ UNCHANGED vars
      BY <1>1, OwnedFrame DEF Reopen, vars, taskVars, workVars, goVars, Signals
<1>2. ASSUME NEW p \in Specs, Admit(p) PROVE StopsAreOwned'
      BY <1>2, OwnedFrame DEF Admit, workVars, Signals, Typed, GoTyped
<1> QED BY <1>1, <1>2, OwnedStarter, OwnedSupervisor, OwnedCaller DEF Next

\* No handle is stopped twice, and none without a claim, whichever of the
\* callers, the timer and the starter get there first.
THEOREM HandlesAreStoppedOnce == Spec => []StoppedOnce
<1>1. Spec => []StopsAreOwned
      BY AlwaysTyped, AlwaysCoherent, OwnedInit, OwnedNext, PTL DEF Spec
<1> QED BY <1>1, AlwaysTyped, OwnedImplies, PTL
=============================================================================
