-------------------------- MODULE BgPoolContract ---------------------------
(***************************************************************************)
(* What others build on: the per-session cap, the order of what watchers   *)
(* hear, the drain, and the contract of TaskLife.  All of it follows from  *)
(* the five things a step of the pool can do to a task as others see it.   *)
(***************************************************************************)
EXTENDS BgPoolProofs

seen == <<seq, tasks, spec, status, heard, draining>>

Ends(i) == /\ status[i] = "running"
           /\ \E v \in Verdicts : status' = [status EXCEPT ![i] = v]
           /\ UNCHANGED <<seq, tasks, spec, heard, draining>>

Tells(i) == /\ starter[i] = "notify" \/ starter[i] = "failNotify"
                                     \/ supervisor[i] = "notify"
            /\ heard' = [heard EXCEPT ![i] = status[i]]
            /\ UNCHANGED <<seq, tasks, spec, status, draining>>

Lets(gone) == /\ gone \subseteq tasks
              /\ \A i \in gone : Finished(status[i])
              /\ tasks' = tasks \ gone
              /\ UNCHANGED <<seq, spec, status, heard, draining>>

Turns == draining' \in BOOLEAN /\ UNCHANGED <<seq, tasks, spec, status, heard>>

\* Every step admits a task, ends one, tells of one, drops finished ones, opens
\* or closes the pool, or is not seen.
LEMMA WhatStepsDo ==
  ASSUME Typed, Coherent, [Next]_vars
  PROVE  \/ \E p \in Specs : Admit(p)
         \/ \E i \in Ids : Ends(i) \/ Tells(i)
         \/ \E gone \in SUBSET tasks : Lets(gone)
         \/ Turns
<1> USE DEF poolVars, taskVars, workVars, goVars, outVars
<1>0. UNCHANGED seen => Turns
      BY DEF seen, Turns, Typed, PoolTyped
<1>1. ASSUME NEW i \in Ids, StarterStep(i)
      PROVE  Ends(i) \/ Tells(i) \/ Turns
  <2>1. CASE LaunchFails(i)
        BY <2>1 DEF LaunchFails, Ends, Coherent, StarterKnows, Verdicts
  <2>2. CASE StarterNotify(i) \/ FailNotify(i)
        BY <2>2 DEF StarterNotify, FailNotify, Notify, Tells
  <2>3. CASE Launch(i) \/ AttachHandle(i) \/ StarterStop(i)
             \/ StarterPersist(i) \/ FailClose(i)
        BY <1>0, <2>3
        DEF Launch, AttachHandle, StarterStop, StarterPersist, FailClose, seen
  <2> QED BY <1>1, <2>1, <2>2, <2>3 DEF StarterStep
<1>2. ASSUME NEW i \in Ids, SupervisorStep(i) \/ WaiterStep(i) \/ Exit(i)
      PROVE  Ends(i) \/ Tells(i) \/ Turns
  <2>1. CASE Finalise(i)
    <3>1. status[i] = "running"
          BY <2>1 DEF Finalise, Coherent, SupervisorKnows
    <3>2. Verdict(i) \in Verdicts
          BY DEF Verdict, Verdicts, Typed, TaskTyped, NoReason
    <3> QED BY <2>1, <3>1, <3>2 DEF Finalise, Ends
  <2>2. CASE SupervisorNotify(i)
        BY <2>2 DEF SupervisorNotify, Notify, Tells
  <2>3. CASE Expire(i) \/ SupervisorStop(i) \/ SupervisorPersist(i)
             \/ CloseDone(i) \/ WaiterStep(i) \/ Exit(i)
        BY <1>0, <2>3
        DEF Expire, SupervisorStop, SupervisorPersist, CloseDone, WaiterStep,
            WaitReturns, MarkExitObserved, Exit, seen
  <2> QED BY <1>2, <2>1, <2>2, <2>3 DEF SupervisorStep
<1>3. ASSUME NEW c \in Callers, Call(c) \/ CallerStep(c) \/ WaitGivesUp(c)
      PROVE  \/ \E gone \in SUBSET tasks : Lets(gone)
             \/ Turns
  <2>1. CASE Release(c)
    <3> DEFINE gone == UNION {FinishedOf(s) : s \in caller[c].sessions}
    <3>1. gone \subseteq tasks /\ \A i \in gone : Finished(status[i])
          BY DEF FinishedOf
    <3>2. Lets(gone)
          BY <2>1, <3>1 DEF Release, Drop, Lets
    <3> QED BY <3>1, <3>2
  <2>2. CASE CallForget(c)
    <3>1. PICK i \in tasks : Finished(status[i]) /\ Drop({i})
          BY <2>2 DEF CallForget
    <3>2. Lets({i})
          BY <2>2, <3>1 DEF CallForget, Drop, Lets
    <3> QED BY <3>2
  <2>3. CASE CallClear(c)
    <3>1. PICK s \in Sessions : Drop(FinishedOf(s))
          BY <2>3 DEF CallClear
    <3>2. Lets(FinishedOf(s)) /\ FinishedOf(s) \subseteq tasks
          BY <2>3, <3>1 DEF CallClear, Drop, Lets, FinishedOf
    <3> QED BY <3>2
  <2>4. CASE CallDrain(c)
        BY <2>4 DEF CallDrain, Turns
  <2>5. CASE OnlyCaller \/ DrainReturns(c) \/ ClaimStop(c) \/ Signal(c)
             \/ RemoveDir(c)
        BY <1>0, <2>5
        DEF OnlyCaller, DrainReturns, ClaimStop, Signal, RemoveDir, seen
  <2> QED BY <1>3, <2>1, <2>2, <2>3, <2>4, <2>5
          DEF Call, CallerStep, WaitGivesUp, CallStop, CallWait, CallRetire, StopAll,
              NextSession, NextTask, SessionStopped, Settled, RemovedAll
<1>4. CASE Reopen
      BY <1>4 DEF Reopen, Turns
<1>5. CASE UNCHANGED vars
      BY <1>0, <1>5 DEF vars, seen
<1> QED BY <1>1, <1>2, <1>3, <1>4, <1>5 DEF Next

-----------------------------------------------------------------------------
(* The cap.                                                                *)

\* The cap on the bookkeeping, of which the works of a session are a part.
CapCounted == \A s \in Sessions : Cardinality(Counted(s)) <= MaxConcurrent

\* The cap counts finitely many tasks.
LEMMA CountedIsFinite ==
  ASSUME Typed, NEW s
  PROVE  IsFiniteSet(Counted(s)) /\ Cardinality(Counted(s)) \in Nat
<1>1. seq \in Nat /\ tasks \subseteq 1..seq
      BY CapTypes DEF Typed, PoolTyped
<1>2. IsFiniteSet(1..seq)
      BY <1>1, FS_Interval
<1>3. Counted(s) \in SUBSET (1..seq)
      BY <1>1 DEF Counted
<1> QED BY <1>2, <1>3, FS_Subset, FS_CardinalityType

\* No task counts at first.
LEMMA CapInit == Init => CapCounted
<1> SUFFICES ASSUME Init, NEW s \in Sessions
             PROVE  Cardinality(Counted(s)) <= MaxConcurrent
    BY DEF CapCounted
<1>1. Counted(s) = {}
      BY DEF Init, Counted
<1> QED BY <1>1, FS_EmptySet, CapTypes

\* Admission checks the cap under the lock; every other step only releases room.
LEMMA CapNext == Typed /\ Coherent /\ CapCounted /\ [Next]_vars => CapCounted'
<1> SUFFICES ASSUME Typed, Coherent, CapCounted, [Next]_vars, NEW s \in Sessions
             PROVE  Cardinality(Counted(s)') <= MaxConcurrent
    BY DEF CapCounted
<1>0. /\ IsFiniteSet(Counted(s)) /\ Cardinality(Counted(s)) \in Nat
      /\ Cardinality(Counted(s)) <= MaxConcurrent
      BY CountedIsFinite DEF CapCounted
<1>1. CASE Counted(s)' \subseteq Counted(s)
  <2>1. /\ Cardinality(Counted(s)') <= Cardinality(Counted(s))
        /\ IsFiniteSet(Counted(s)')
        BY <1>0, <1>1, FS_Subset
  <2>2. Cardinality(Counted(s)') \in Nat
        BY <2>1, FS_CardinalityType
  <2> QED BY <1>0, <2>1, <2>2, CapTypes
<1>2. ASSUME NEW p \in Specs, Admit(p) PROVE Cardinality(Counted(s)') <= MaxConcurrent
  <2> DEFINE i == seq + 1
  <2>0. i \notin tasks /\ i \in Ids /\ tasks \subseteq Ids
        BY <1>2, CapTypes DEF Admit, Typed, PoolTyped, Ids
  <2>1. tasks' = tasks \cup {i}
        BY <1>2 DEF Admit
  <2>2. spec'[i] = p /\ \A j \in tasks : spec'[j] = spec[j] /\ status'[j] = status[j]
        BY <1>2, <2>0 DEF Admit, Typed, PoolTyped, TaskTyped
  <2>3. CASE p.system \/ p.session # s
        BY <1>1, <2>1, <2>2, <2>3 DEF Counted
  <2>4. CASE ~p.system /\ p.session = s
    <3>1. Cardinality(Counted(s)) < MaxConcurrent
          BY <1>2, <2>4 DEF Admit, Admissible, HasRoom
    <3>2. Counted(s)' \subseteq Counted(s) \cup {i}
          BY <2>1, <2>2 DEF Counted
    <3>3. /\ IsFiniteSet(Counted(s) \cup {i})
          /\ Cardinality(Counted(s) \cup {i}) <= Cardinality(Counted(s)) + 1
          BY <1>0, FS_AddElement
    <3>4. /\ Cardinality(Counted(s)') <= Cardinality(Counted(s) \cup {i})
          /\ IsFiniteSet(Counted(s)')
          BY <3>2, <3>3, FS_Subset
    <3>5. Cardinality(Counted(s)') \in Nat /\ Cardinality(Counted(s) \cup {i}) \in Nat
          BY <3>3, <3>4, FS_CardinalityType
    <3> QED BY <1>0, <3>1, <3>3, <3>4, <3>5, CapTypes
  <2> QED BY <2>3, <2>4
<1>3. ASSUME NEW i \in Ids, Ends(i) PROVE Counted(s)' \subseteq Counted(s)
      BY <1>3 DEF Ends, Counted, Finished, Verdicts, Typed, TaskTyped
<1>4. ASSUME NEW i \in Ids, Tells(i) PROVE Counted(s)' \subseteq Counted(s)
      BY <1>4 DEF Tells, Counted
<1>5. ASSUME NEW gone \in SUBSET tasks, Lets(gone)
      PROVE  Counted(s)' \subseteq Counted(s)
      BY <1>5 DEF Lets, Counted
<1>6. CASE Turns
      BY <1>1, <1>6 DEF Turns, Counted
<1> QED BY <1>1, <1>2, <1>3, <1>4, <1>5, <1>6, WhatStepsDo

\* However many works of a session are starting, running and dying, they never
\* exceed the cap, whatever its value.
THEOREM CapBoundsAllWork == Spec => []CapBoundsWork
<1>1. Typed /\ Coherent /\ CapCounted => CapBoundsWork
  <2> SUFFICES ASSUME Typed, Coherent, CapCounted, NEW s \in Sessions
               PROVE  Cardinality(Live(s)) <= MaxConcurrent
      BY DEF CapBoundsWork
  <2>1. Live(s) \in SUBSET Counted(s)
        BY CoherentImplies DEF NoStrayWork, Live, Counted, Finished, Verdicts
  <2>2. /\ Cardinality(Live(s)) <= Cardinality(Counted(s))
        /\ IsFiniteSet(Live(s)) /\ Cardinality(Counted(s)) \in Nat
        BY <2>1, CountedIsFinite, FS_Subset
  <2>3. Cardinality(Live(s)) \in Nat
        BY <2>2, FS_CardinalityType
  <2> QED BY <2>2, <2>3, CapTypes DEF CapCounted
<1>2. Spec => []CapCounted
      BY AlwaysTyped, AlwaysCoherent, CapInit, CapNext, PTL DEF Spec
<1> QED BY <1>1, <1>2, AlwaysTyped, AlwaysCoherent, PTL

-----------------------------------------------------------------------------
(* What the watchers hear, and the claims.                                 *)

\* An end is announced once, after the waiters were released, and nothing is
\* announced after it.
THEOREM NewsIsFinal == Spec => FinalNewsIsLast
<1>1. ASSUME Typed, Coherent, [Next]_vars, NEW i \in Ids
      PROVE  /\ Finished(heard[i]) => heard'[i] = heard[i]
             /\ heard'[i] # heard[i] /\ heard'[i] # "running"
                  => done[i] /\ heard'[i] = status[i]
  <2>1. ASSUME NEW j \in Ids, Tells(j)
        PROVE  /\ ~Finished(heard[j])
               /\ status[j] = "running" \/ done[j]
               /\ heard' = [heard EXCEPT ![j] = status[j]]
    <3>1. StarterKnows(j) /\ OutsidersKnow(j)
          BY <1>1 DEF Coherent
    <3>2. CASE starter[j] = "notify"
          BY <2>1, <3>1, <3>2
          DEF Tells, StarterKnows, OutsidersKnow, Finished, Verdicts
    <3>3. CASE starter[j] = "failNotify"
          BY <2>1, <3>1, <3>3
          DEF Tells, StarterKnows, OutsidersKnow, Finished, Verdicts
    <3>4. CASE supervisor[j] = "notify"
          BY <2>1, <3>1, <3>4
          DEF Tells, StarterKnows, OutsidersKnow, Finished, Verdicts
    <3> QED BY <2>1, <3>2, <3>3, <3>4 DEF Tells
  <2>2. ASSUME NEW j \in Ids, Tells(j)
        PROVE  /\ Finished(heard[i]) => heard'[i] = heard[i]
               /\ heard'[i] # heard[i] /\ heard'[i] # "running"
                    => done[i] /\ heard'[i] = status[i]
    <3>1. CASE i = j
          BY <1>1, <2>1, <2>2, <3>1 DEF Typed, OutTyped
    <3>2. CASE i # j
          BY <1>1, <2>1, <2>2, <3>2 DEF Typed, OutTyped
    <3> QED BY <3>1, <3>2
  <2>3. CASE UNCHANGED heard
        BY <2>3
  <2> QED BY <1>1, <2>2, <2>3, WhatStepsDo
          DEF Admit, outVars, Ends, Lets, Turns
<1>2. Typed /\ Coherent /\ [Next]_vars =>
        [\A i \in Ids :
           /\ Finished(heard[i]) => heard'[i] = heard[i]
           /\ heard'[i] # heard[i] /\ heard'[i] # "running"
                => done[i] /\ heard'[i] = status[i]]_vars
      BY <1>1
<1> QED BY <1>2, AlwaysTyped, AlwaysCoherent, PTL DEF Spec, FinalNewsIsLast

\* claimTermination is the only code that writes a termination reason.
LEMMA OnlyClaimsClaim ==
  ASSUME [Next]_vars
  PROVE  \/ UNCHANGED termReason
         \/ \E i : Claimable(i) /\ \E r : termReason' = [termReason EXCEPT ![i] = r]
<1> USE DEF taskVars, poolVars
<1>1. ASSUME NEW i \in Ids, StarterStep(i) PROVE UNCHANGED termReason
      BY <1>1 DEF StarterStep, Launch, LaunchFails, AttachHandle, StarterStop,
                  StarterPersist, StarterNotify, FailClose, FailNotify
<1>2. ASSUME NEW i \in Ids, SupervisorStep(i) \/ WaiterStep(i) \/ Exit(i), ~Expire(i)
      PROVE  UNCHANGED termReason
      BY <1>2 DEF SupervisorStep, SupervisorStop, Finalise, SupervisorPersist,
                  CloseDone, SupervisorNotify, WaiterStep, WaitReturns,
                  MarkExitObserved, Exit
<1>3. ASSUME NEW i \in Ids, Expire(i), termReason' # termReason
      PROVE  Claimable(i) /\ \E r : termReason' = [termReason EXCEPT ![i] = r]
      BY <1>3 DEF Expire, Claim
<1>4. ASSUME NEW c \in Callers, Call(c) \/ CallerStep(c) \/ WaitGivesUp(c),
             ~ClaimStop(c)
      PROVE  UNCHANGED termReason
      BY <1>4 DEF Call, CallerStep, CallStop, CallWait, CallRetire, CallDrain,
                  CallForget, CallClear, StopAll, NextSession, DrainReturns,
                  NextTask, SessionStopped, Signal, Settled, Release, RemoveDir,
                  RemovedAll, WaitGivesUp, OnlyCaller
<1>5. ASSUME NEW c \in Callers, ClaimStop(c), termReason' # termReason
      PROVE  \E i : Claimable(i) /\ \E r : termReason' = [termReason EXCEPT ![i] = r]
      BY <1>5 DEF ClaimStop, Claim
<1>6. (\E p \in Specs : Admit(p)) \/ Reopen \/ UNCHANGED vars => UNCHANGED termReason
      BY DEF Admit, Reopen, vars
<1> QED BY <1>1, <1>2, <1>3, <1>4, <1>5, <1>6 DEF Next

\* A claim is never replaced, and none is made once the exit was observed.
THEOREM ClaimsStand == Spec => ClaimsAreFinal
<1>1. ASSUME Typed, [Next]_vars, NEW i \in Ids,
             exitObserved[i] \/ termReason[i] # NoReason
      PROVE  termReason'[i] = termReason[i]
  <2>1. ~Claimable(i)
        BY <1>1 DEF Claimable
  <2> QED BY <1>1, <2>1, OnlyClaimsClaim DEF Typed, TaskTyped
<1>2. Typed /\ [Next]_vars =>
        [\A i \in Ids : exitObserved[i] \/ termReason[i] # NoReason
                          => termReason'[i] = termReason[i]]_vars
      BY <1>1
<1> QED BY <1>2, AlwaysTyped, PTL DEF Spec, ClaimsAreFinal

-----------------------------------------------------------------------------
(* The drain.  What it leaves behind is said of its end only; the          *)
(* induction needs to know, at every point of StopAll, that what still     *)
(* runs is still ahead of it.                                              *)

\* Still running, and not for want of a platform that takes the signal.
Loose(i) == i \notin refused /\ status[i] = "running"

\* The drain has not looked at the task's session yet, or has the task listed,
\* or is about to stop it, or waits for it.
Ahead(c, i) == \/ caller[c].pc = "stopAll"
               \/ spec[i].session \in caller[c].sessions
               \/ caller[c].pc # "nextSession" /\ i \in caller[c].todo
               \/ caller[c].pc \in {"claim", "signal", "wait"}
                    /\ i = caller[c].target

DrainingCaller(c) ==
  /\ caller[c].pc \in {"stopAll", "nextSession"} => caller[c].op = "drain"
  /\ caller[c].op = "drain" =>
       /\ draining
       /\ caller[c].pc \in {"stopAll", "nextSession", "next", "claim", "signal",
                            "wait"}
       /\ \A i \in Ids : Loose(i) => Ahead(c, i)

Sweeping == /\ \A c \in Callers : DrainingCaller(c)
            /\ drained => draining /\ \A i \in Ids : ~Loose(i)

\* No step takes a refusal back, and while the pool is closed no task starts:
\* what is loose after a step was loose before it.
LEMMA LooseShrinks ==
  ASSUME Typed, Coherent, [Next]_vars, draining, NEW i \in Ids, Loose(i)'
  PROVE  Loose(i) /\ spec'[i] = spec[i]
<1> USE DEF poolVars, taskVars, workVars, goVars, outVars
<1>1. refused \subseteq refused'
  <2>1. ASSUME NEW j \in Ids, StarterStep(j) PROVE refused \subseteq refused'
        BY <2>1 DEF StarterStep, Launch, LaunchFails, AttachHandle, StarterStop,
                    HandleStop, StarterPersist, StarterNotify, FailClose, FailNotify
  <2>2. ASSUME NEW j \in Ids, SupervisorStep(j) \/ WaiterStep(j) \/ Exit(j)
        PROVE  refused \subseteq refused'
        BY <2>2 DEF SupervisorStep, Expire, SupervisorStop, HandleStop, Finalise,
                    SupervisorPersist, CloseDone, SupervisorNotify, WaiterStep,
                    WaitReturns, MarkExitObserved, Exit
  <2>3. ASSUME NEW c \in Callers, Call(c) \/ CallerStep(c) \/ WaitGivesUp(c)
        PROVE  refused \subseteq refused'
        BY <2>3 DEF Call, CallerStep, CallStop, CallWait, CallRetire, CallDrain,
                    CallForget, CallClear, StopAll, NextSession, DrainReturns,
                    NextTask, SessionStopped, ClaimStop, Signal, HandleStop, Settled,
                    Release, RemoveDir, RemovedAll, WaitGivesUp, OnlyCaller
  <2>4. (\E p \in Specs : Admit(p)) \/ Reopen \/ UNCHANGED vars => UNCHANGED refused
        BY DEF Admit, Reopen, vars
  <2> QED BY <2>1, <2>2, <2>3, <2>4 DEF Next
<1>2. \A p \in Specs : ~Admit(p)
      BY DEF Admit, Admissible
<1>3. ASSUME NEW j \in Ids, Ends(j)
      PROVE  status[i] = "running" /\ spec'[i] = spec[i]
      BY <1>3 DEF Ends, Loose, Verdicts, Typed, TaskTyped
<1>4. status[i] = "running" /\ spec'[i] = spec[i]
      BY <1>2, <1>3, WhatStepsDo DEF Tells, Lets, Turns, Loose
<1> QED BY <1>1, <1>4 DEF Loose

\* Only a drain closes the pool, only its end says it is drained, and only a
\* new server opens it.
LEMMA WhoDrains ==
  ASSUME [Next]_vars
  PROVE  \/ UNCHANGED <<draining, drained>>
         \/ \E c \in Callers : CallDrain(c) \/ DrainReturns(c)
         \/ Reopen
<1> USE DEF poolVars
<1>1. ASSUME NEW j \in Ids, StarterStep(j) PROVE UNCHANGED <<draining, drained>>
      BY <1>1 DEF StarterStep, Launch, LaunchFails, AttachHandle, StarterStop,
                  StarterPersist, StarterNotify, FailClose, FailNotify
<1>2. ASSUME NEW j \in Ids, SupervisorStep(j) \/ WaiterStep(j) \/ Exit(j)
      PROVE  UNCHANGED <<draining, drained>>
      BY <1>2 DEF SupervisorStep, Expire, SupervisorStop, Finalise,
                  SupervisorPersist, CloseDone, SupervisorNotify, WaiterStep,
                  WaitReturns, MarkExitObserved, Exit
<1>3. ASSUME NEW c \in Callers, Call(c) \/ CallerStep(c) \/ WaitGivesUp(c),
             ~CallDrain(c), ~DrainReturns(c)
      PROVE  UNCHANGED <<draining, drained>>
      BY <1>3 DEF Call, CallerStep, CallStop, CallWait, CallRetire, CallForget,
                  CallClear, StopAll, NextSession, NextTask, SessionStopped,
                  ClaimStop, Signal, Settled, Release, RemoveDir, RemovedAll,
                  WaitGivesUp, OnlyCaller, Drop
<1>4. (\E p \in Specs : Admit(p)) \/ UNCHANGED vars => UNCHANGED <<draining, drained>>
      BY DEF Admit, vars
<1> QED BY <1>1, <1>2, <1>3, <1>4 DEF Next

\* Nobody else moves a caller.
LEMMA WhoMovesACaller ==
  ASSUME Typed, [Next]_vars, NEW c \in Callers
  PROVE  caller'[c] = caller[c] \/ Call(c) \/ CallerStep(c) \/ WaitGivesUp(c)
<1>1. ASSUME NEW d \in Callers \ {c}, Call(d) \/ CallerStep(d) \/ WaitGivesUp(d)
      PROVE  caller'[c] = caller[c]
  <2>1. CASE ClaimStop(d)
        BY <2>1 DEF ClaimStop, Typed, CallersTyped
  <2>2. CASE Signal(d)
    <3>1. \E succeeds \in BOOLEAN :
            caller' = [caller EXCEPT ![d] = IF succeeds
                                            THEN [@ EXCEPT !.pc = "wait"]
                                            ELSE Returned(d)]
          BY <2>2 DEF Signal
    <3> QED BY <3>1 DEF Typed, CallersTyped
  <2> QED BY <1>1, <2>1, <2>2, QuietCallers
<1>2. ASSUME NEW j \in Ids, StarterStep(j) PROVE UNCHANGED caller
      BY <1>2 DEF StarterStep, Launch, LaunchFails, AttachHandle, StarterStop,
                  StarterPersist, StarterNotify, FailClose, FailNotify
<1>3. ASSUME NEW j \in Ids, SupervisorStep(j) \/ WaiterStep(j) \/ Exit(j)
      PROVE  UNCHANGED caller
      BY <1>3 DEF SupervisorStep, Expire, SupervisorStop, Finalise,
                  SupervisorPersist, CloseDone, SupervisorNotify, WaiterStep,
                  WaitReturns, MarkExitObserved, Exit
<1>4. (\E p \in Specs : Admit(p)) \/ Reopen \/ UNCHANGED vars => UNCHANGED caller
      BY DEF Admit, Reopen, vars
<1> QED BY <1>1, <1>2, <1>3, <1>4 DEF Next

\* A caller that is not draining is no part of it, and a call of another
\* operation does not begin one.
LEMMA OthersDoNotDrain ==
  ASSUME Typed, NEW c \in Callers, caller[c].op # "drain", DrainingCaller(c),
         Call(c) \/ CallerStep(c) \/ WaitGivesUp(c), ~CallDrain(c)
  PROVE  DrainingCaller(c)'
<1> USE DEF Typed, CallersTyped, CallerStates
<1>0. caller[c].pc \notin {"stopAll", "nextSession"}
      BY DEF DrainingCaller
<1> SUFFICES /\ caller'[c].op # "drain"
             /\ caller'[c].pc \notin {"stopAll", "nextSession"}
    BY DEF DrainingCaller
<1>1. CASE CallStop(c) \/ CallWait(c)
  <2>1. PICK i \in tasks, op \in {"stop", "wait"}, pc \in {"claim", "wait"} :
          caller' = [caller EXCEPT ![c].op = op, ![c].pc = pc, ![c].target = i]
        BY <1>1 DEF CallStop, CallWait
  <2> QED BY <2>1
<1>2. CASE CallRetire(c)
  <2>1. PICK s \in Sessions :
          caller' = [caller EXCEPT ![c].op = "retire", ![c].pc = "next",
                                   ![c].todo = Unfinished(s),
                                   ![c].sessions = {s}]
        BY <1>2 DEF CallRetire
  <2> QED BY <2>1
<1>3. CASE CallForget(c)
  <2>1. PICK i \in tasks :
          caller' = [caller EXCEPT ![c].op = "forget", ![c].pc = "remove",
                                   ![c].todo = {i}]
        BY <1>3 DEF CallForget
  <2> QED BY <2>1
<1>4. CASE CallClear(c)
  <2>1. PICK s \in Sessions :
          caller' = [caller EXCEPT ![c].op = "clear", ![c].pc = "remove",
                                   ![c].todo = FinishedOf(s)]
        BY <1>4 DEF CallClear
  <2> QED BY <2>1
<1>5. CASE NextTask(c)
  <2>1. PICK i \in caller[c].todo :
          caller' = [caller EXCEPT ![c].todo = @ \ {i},
                                   ![c].pc = IF i \in tasks THEN "claim" ELSE @,
                                   ![c].target = IF i \in tasks THEN i ELSE @]
        BY <1>5 DEF NextTask
  <2> QED BY <1>0, <2>1
<1>6. CASE SessionStopped(c)
      BY <1>6 DEF SessionStopped
<1>7. CASE ClaimStop(c)
      BY <1>7 DEF ClaimStop
<1>8. CASE Signal(c)
  <2>1. PICK succeeds \in BOOLEAN :
          caller' = [caller EXCEPT ![c] = IF succeeds
                                          THEN [@ EXCEPT !.pc = "wait"]
                                          ELSE Returned(c)]
        BY <1>8 DEF Signal
  <2> QED BY <2>1 DEF Returned, IdleCaller
<1>9. CASE Settled(c)
      BY <1>9 DEF Settled, Returned, IdleCaller
<1>10. CASE Release(c) \/ WaitGivesUp(c) \/ RemovedAll(c)
      BY <1>10 DEF Release, WaitGivesUp, RemovedAll, IdleCaller
<1>11. CASE RemoveDir(c)
  <2>1. PICK i \in caller[c].todo :
          caller' = [caller EXCEPT ![c].todo = @ \ {i}]
        BY <1>11 DEF RemoveDir
  <2> QED BY <1>0, <2>1
<1>12. ~StopAll(c) /\ ~NextSession(c) /\ ~DrainReturns(c)
      BY <1>0 DEF StopAll, NextSession, DrainReturns, Step
<1> QED BY <1>1, <1>2, <1>3, <1>4, <1>5, <1>6, <1>7, <1>8, <1>9, <1>10, <1>11, <1>12
        DEF Call, CallerStep

\* What the drain leaves behind at each of its points is not loose: a session it
\* listed holds the loose tasks in the list, a task it waited for has finished,
\* one it found gone from the pool had finished before, and one it could not
\* signal was refused.
LEMMA DrainMoves ==
  ASSUME Typed, Coherent, Sweeping, [Next]_vars, NEW c \in Callers,
         caller[c].op = "drain", CallerStep(c) \/ WaitGivesUp(c)
  PROVE  /\ DrainingCaller(c)'
         /\ DrainReturns(c) => \A i \in Ids : ~Loose(i)
<1> USE DEF Typed, CallersTyped, CallerStates
<1>0. /\ draining /\ DrainingCaller(c)
      /\ \A i \in Ids : Loose(i) => Ahead(c, i)
      BY DEF Sweeping, DrainingCaller
<1>a. \A i \in Ids : Loose(i)' => Loose(i) /\ spec'[i] = spec[i]
      BY <1>0, LooseShrinks
<1>b. ~Reopen /\ ~CallDrain(c)
      BY DEF Reopen, CallDrain
<1>c. draining'
  <2>1. \A d \in Callers : CallDrain(d) \/ DrainReturns(d) => draining'
        BY <1>0 DEF CallDrain, DrainReturns
  <2> QED BY <1>0, <1>b, <2>1, WhoDrains
<1>d. \A i \in Ids : Loose(i) => i \in tasks /\ ~Finished(status[i]) /\ ~done[i]
  <2>1. \A i \in Ids : Loose(i) => i \in tasks /\ ~Finished(status[i])
        BY DEF Coherent, Registered, Loose, Finished, Verdicts
  <2> QED BY <2>1, CoherentImplies DEF WaitersReadTheVerdict
<1>1. CASE StopAll(c)
  <2>1. caller'[c] = [caller[c] EXCEPT !.pc = "nextSession",
                                       !.sessions = {spec[i].session : i \in tasks}]
        BY <1>1 DEF StopAll
  <2>2. \A i \in Ids : Loose(i)' => Ahead(c, i)'
        BY <1>a, <1>d, <2>1 DEF Ahead
  <2> QED BY <1>1, <1>c, <2>1, <2>2 DEF DrainingCaller, StopAll, DrainReturns, Step
<1>2. CASE NextSession(c)
  <2>1. PICK s \in caller[c].sessions :
          caller' = [caller EXCEPT ![c].pc = "next", ![c].todo = Unfinished(s),
                                   ![c].sessions = @ \ {s}]
        BY <1>2 DEF NextSession
  <2>2. caller'[c] = [caller[c] EXCEPT !.pc = "next", !.todo = Unfinished(s),
                                       !.sessions = caller[c].sessions \ {s}]
        BY <2>1
  <2>3. \A i \in Ids : Loose(i) => spec[i].session \in caller[c].sessions
        BY <1>0, <1>2 DEF NextSession, Step, Ahead
  <2>4. \A i \in Ids : Loose(i) /\ spec[i].session = s => i \in Unfinished(s)
        BY <1>d DEF Unfinished
  <2>5. \A i \in Ids : Loose(i)' => Ahead(c, i)'
        BY <1>a, <2>2, <2>3, <2>4 DEF Ahead
  <2>6. DrainingCaller(c)'
        BY <1>c, <2>2, <2>5 DEF DrainingCaller
  <2>7. ~DrainReturns(c)
        BY DEF DrainReturns
  <2> QED BY <2>6, <2>7
<1>3. CASE DrainReturns(c)
  <2>1. \A i \in Ids : ~Loose(i)
        BY <1>0, <1>3 DEF DrainReturns, Step, Ahead
  <2>2. caller'[c] = IdleCaller
        BY <1>3 DEF DrainReturns
  <2> QED BY <2>1, <2>2 DEF DrainingCaller, IdleCaller
<1>4. CASE NextTask(c)
  <2>1. PICK i \in caller[c].todo :
          caller' = [caller EXCEPT ![c].todo = @ \ {i},
                                   ![c].pc = IF i \in tasks THEN "claim" ELSE @,
                                   ![c].target = IF i \in tasks THEN i ELSE @]
        BY <1>4 DEF NextTask
  <2>2. /\ caller'[c].op = "drain"
        /\ caller'[c].pc = IF i \in tasks THEN "claim" ELSE "next"
        /\ caller'[c].sessions = caller[c].sessions
        /\ caller'[c].todo = caller[c].todo \ {i}
        /\ i \in tasks => caller'[c].target = i
        BY <1>4, <2>1 DEF NextTask, Step
  <2>3. \A j \in Ids : Loose(j) => \/ spec[j].session \in caller[c].sessions
                                   \/ j \in caller[c].todo
        BY <1>0, <1>4 DEF NextTask, Step, Ahead
  <2>4. \A j \in Ids : Loose(j)' => Ahead(c, j)'
        BY <1>a, <1>d, <2>2, <2>3 DEF Ahead
  <2> QED BY <1>4, <1>c, <2>2, <2>4 DEF DrainingCaller, NextTask, DrainReturns, Step
<1>5. CASE SessionStopped(c)
  <2>1. caller'[c] = [caller[c] EXCEPT !.pc = "nextSession"]
        BY <1>5 DEF SessionStopped
  <2>2. \A j \in Ids : Loose(j) => spec[j].session \in caller[c].sessions
        BY <1>0, <1>5 DEF SessionStopped, Step, Ahead
  <2>3. \A j \in Ids : Loose(j)' => Ahead(c, j)'
        BY <1>a, <2>1, <2>2 DEF Ahead
  <2> QED BY <1>5, <1>c, <2>1, <2>3 DEF DrainingCaller, SessionStopped, DrainReturns, Step
<1>6. CASE ClaimStop(c)
  <2>1. PICK pc \in {"signal", "wait"} : caller'[c] = [caller[c] EXCEPT !.pc = pc]
        BY <1>6 DEF ClaimStop
  <2>2. \A j \in Ids : Loose(j)' => Ahead(c, j)'
        BY <1>0, <1>6, <1>a, <2>1 DEF Ahead, ClaimStop, Step
  <2> QED BY <1>6, <1>c, <2>1, <2>2 DEF DrainingCaller, ClaimStop, DrainReturns, Step
<1>7. CASE Signal(c)
  <2>1. PICK succeeds \in BOOLEAN :
          /\ HandleStop(caller[c].target, succeeds)
          /\ caller' = [caller EXCEPT ![c] = IF succeeds
                                             THEN [@ EXCEPT !.pc = "wait"]
                                             ELSE Returned(c)]
        BY <1>7 DEF Signal
  <2>2. CASE succeeds
    <3>1. caller'[c] = [caller[c] EXCEPT !.pc = "wait"]
          BY <2>1, <2>2
    <3>2. \A j \in Ids : Loose(j)' => Ahead(c, j)'
          BY <1>0, <1>7, <1>a, <3>1 DEF Ahead, Signal, Step
    <3> QED BY <1>7, <1>c, <3>1, <3>2 DEF DrainingCaller, Signal, DrainReturns, Step
  <2>3. CASE ~succeeds
    <3>1. caller'[c] = [caller[c] EXCEPT !.pc = "next", !.target = NoTask]
          BY <2>1, <2>3 DEF Returned
    <3>2. \A j \in Ids : Loose(j)' => j # caller[c].target
          BY <2>1, <2>3 DEF HandleStop, Loose
    <3>3. \A j \in Ids : Loose(j)' => Ahead(c, j)'
          BY <1>0, <1>7, <1>a, <3>1, <3>2 DEF Ahead, Signal, Step
    <3> QED BY <1>7, <1>c, <3>1, <3>3 DEF DrainingCaller, Signal, DrainReturns, Step
  <2> QED BY <2>2, <2>3
<1>8. CASE Settled(c)
  <2>1. caller'[c] = [caller[c] EXCEPT !.pc = "next", !.target = NoTask]
        BY <1>8 DEF Settled, Returned
  <2>2. \A j \in Ids : Loose(j) => j # caller[c].target
        BY <1>8, <1>d DEF Settled
  <2>3. \A j \in Ids : Loose(j)' => Ahead(c, j)'
        BY <1>0, <1>8, <1>a, <2>1, <2>2 DEF Ahead, Settled, Step
  <2> QED BY <1>8, <1>c, <2>1, <2>3 DEF DrainingCaller, Settled, DrainReturns, Step
<1>9. ~Release(c) /\ ~RemoveDir(c) /\ ~RemovedAll(c) /\ ~WaitGivesUp(c)
      BY <1>0 DEF DrainingCaller, Release, RemoveDir, RemovedAll, WaitGivesUp, Step
<1> QED BY <1>1, <1>2, <1>3, <1>4, <1>5, <1>6, <1>7, <1>8, <1>9 DEF CallerStep

\* Nobody drains at first.
LEMMA SweepingInit == Init => Sweeping
BY DEF Init, Sweeping, DrainingCaller, IdleCaller

\* Callers, tasks and servers keep the drain sound.
LEMMA SweepingNext == Typed /\ Coherent /\ Sweeping /\ [Next]_vars => Sweeping'
<1> SUFFICES ASSUME Typed, Coherent, Sweeping, [Next]_vars PROVE Sweeping'
    OBVIOUS
<1>1. ASSUME NEW c \in Callers PROVE DrainingCaller(c)'
  <2>0. DrainingCaller(c)
        BY DEF Sweeping
  <2>1. CASE caller'[c] = caller[c]
    <3>1. CASE caller[c].op = "drain"
      <4>1. draining /\ ~Reopen
            BY <2>0, <3>1 DEF DrainingCaller, Reopen
      <4>2. \A d \in Callers : CallDrain(d) \/ DrainReturns(d) => draining'
            BY <4>1 DEF CallDrain, DrainReturns
      <4>3. draining'
            BY <4>1, <4>2, WhoDrains
      <4>4. \A i \in Ids : Loose(i)' => Ahead(c, i)'
            BY <2>0, <2>1, <3>1, <4>1, LooseShrinks DEF DrainingCaller, Ahead
      <4> QED BY <2>0, <2>1, <3>1, <4>3, <4>4 DEF DrainingCaller
    <3>2. CASE caller[c].op # "drain"
          BY <2>0, <2>1, <3>2 DEF DrainingCaller
    <3> QED BY <3>1, <3>2
  <2>2. CASE CallDrain(c)
    <3>1. caller'[c] = [caller[c] EXCEPT !.op = "drain", !.pc = "stopAll"] /\ draining'
          BY <2>2 DEF CallDrain, Typed, CallersTyped, CallerStates
    <3>2. caller'[c].op = "drain" /\ caller'[c].pc = "stopAll"
          BY <3>1 DEF Typed, CallersTyped, CallerStates
    <3> QED BY <3>1, <3>2 DEF DrainingCaller, Ahead
  <2>3. CASE caller[c].op = "drain" /\ (CallerStep(c) \/ WaitGivesUp(c))
        BY <2>3, DrainMoves
  <2>4. Call(c) => caller[c].op # "drain"
        BY <2>0 DEF DrainingCaller, Call, CallStop, CallWait, CallRetire, CallDrain,
                    CallForget, CallClear, Idle
  <2> QED BY <2>0, <2>1, <2>2, <2>3, <2>4, WhoMovesACaller, OthersDoNotDrain
<1>2. drained' => draining' /\ \A i \in Ids : ~Loose(i)'
  <2>1. CASE drained /\ ~Reopen
    <3>1. draining /\ \A i \in Ids : ~Loose(i)
          BY <2>1 DEF Sweeping
    <3>2. \A d \in Callers : CallDrain(d) \/ DrainReturns(d) => draining'
          BY <3>1 DEF CallDrain, DrainReturns
    <3> QED BY <2>1, <3>1, <3>2, WhoDrains, LooseShrinks
  <2>2. ASSUME NEW c \in Callers, DrainReturns(c)
        PROVE  draining' /\ \A i \in Ids : ~Loose(i)'
    <3>1. caller[c].op = "drain" /\ draining
          BY <2>2 DEF DrainReturns, Step, Sweeping, DrainingCaller
    <3>2. \A i \in Ids : ~Loose(i)
          BY <2>2, <3>1, DrainMoves DEF CallerStep
    <3>3. draining'
          BY <2>2, <3>1 DEF DrainReturns
    <3> QED BY <3>1, <3>2, <3>3, LooseShrinks
  <2>3. ASSUME NEW c \in Callers, CallDrain(c) PROVE drained' = drained /\ ~Reopen
        BY <2>3 DEF CallDrain, Reopen, Typed, CallersTyped, CallerStates
  <2>4. Reopen => ~drained'
        BY DEF Reopen
  <2> QED BY <2>1, <2>2, <2>3, <2>4, WhoDrains
<1> QED BY <1>1, <1>2 DEF Sweeping

\* When a drain returns, every task has finished and no work exists, whatever
\* was launching, ending, claimed or dropped while StopAll looked at each
\* session only once; the one exception is work the platform would not signal.
THEOREM DrainsLeaveNothing == Spec => []DrainedIsQuiet
<1>1. Typed /\ Coherent /\ Sweeping => DrainedIsQuiet
      BY CoherentImplies DEF Sweeping, DrainedIsQuiet, Loose, NoStrayWork
<1>2. Spec => []Sweeping
      BY AlwaysTyped, AlwaysCoherent, SweepingInit, SweepingNext, PTL DEF Spec
<1> QED BY <1>1, <1>2, AlwaysTyped, AlwaysCoherent, PTL

-----------------------------------------------------------------------------
(* The contract.                                                           *)

\* Where a task stands, for one who only sees the contract.
LEMMA PhaseOf ==
  ASSUME Typed, Coherent, NEW i \in Ids
  PROVE  /\ status[i] = "absent" => Phase(i) = "unstarted" /\ i \notin 1..seq
         /\ i \notin 1..seq => Phase(i) = "unstarted"
         /\ status[i] = "running" => Phase(i) = "running" /\ ~Finished(heard[i])
         /\ Finished(status[i]) => Phase(i) \in {"finished", "announced"}
BY DEF Phase, Finished, Verdicts, Statuses, Typed, TaskTyped, GoTyped, OutTyped,
   Coherent, StarterKnows, SupervisorKnows, OutsidersKnow, Verdict, NoReason

\* The initial pool is the initial state of the contract.
LEMMA ContractInit == Init => Life!Init
BY DEF Init, Life!Init, Phase, Finished, Verdicts

\* Every step of the pool is a step of the contract or is not seen by it.
LEMMA ContractNext == Typed /\ Coherent /\ Typed' /\ Coherent' /\ [Next]_vars
                        => [Life!Next]_(Life!vars)
<1> SUFFICES ASSUME Typed, Coherent, Typed', Coherent', [Next]_vars
             PROVE  [Life!Next]_(Life!vars)
    OBVIOUS
<1>1. ASSUME NEW p \in Specs, Admit(p) PROVE Life!Next
  <2>0. PICK i \in Ids : i = seq + 1 /\ i \notin 1..seq
        BY <1>1, CapTypes DEF Admit, Typed, PoolTyped, Ids
  <2>1. Phase(i) = "unstarted"
        BY <2>0, PhaseOf
  <2>a. starter[i] = "none"
        BY <2>0 DEF Coherent, StarterKnows
  <2>b. status'[i] = "running" /\ heard'[i] = "absent"
        BY <1>1, <2>0, <2>a DEF Admit, outVars, Typed, TaskTyped, Coherent, OutsidersKnow
  <2>2. Phase(i)' = "running"
        BY <2>b DEF Phase, Finished, Verdicts
  <2>3. \A j \in Ids \ {i} : Phase(j)' = Phase(j)
        BY <1>1, <2>0 DEF Admit, Phase, Finished, outVars, Typed, TaskTyped
  <2>4. ~draining /\ tasks' = tasks \cup {i} /\ UNCHANGED draining
        BY <1>1, <2>0 DEF Admit, Admissible
  <2>5. Life!Start(i)
        BY <2>0, <2>1, <2>2, <2>3, <2>4 DEF Life!Start
  <2> QED BY <2>0, <2>5 DEF Life!Next
<1>2. ASSUME NEW i \in Ids, Ends(i) PROVE Life!Next
  <2>1. Phase(i) = "running" /\ ~Finished(heard[i])
        BY <1>2, PhaseOf DEF Ends
  <2>2. Phase(i)' = "finished"
        BY <1>2, <2>1 DEF Ends, Phase, Finished, Typed, TaskTyped
  <2>3. \A j \in Ids \ {i} : Phase(j)' = Phase(j)
        BY <1>2 DEF Ends, Phase, Finished, Typed, TaskTyped
  <2>4. Life!Finish(i)
        BY <1>2, <2>1, <2>2, <2>3 DEF Life!Finish, Ends
  <2> QED BY <2>4 DEF Life!Next
<1>3. ASSUME NEW i \in Ids, Tells(i) PROVE [Life!Next]_(Life!vars)
  <2>1. \A j \in Ids \ {i} : Phase(j)' = Phase(j)
        BY <1>3 DEF Tells, Phase, Finished, Typed, OutTyped
  <2>2. status[i] = "running" \/ Finished(status[i])
        BY <1>3 DEF Tells, Coherent, StarterKnows, SupervisorKnows, Finished, Verdict,
           Verdicts, Typed, TaskTyped, NoReason
  <2>3. ~Finished(heard[i]) /\ heard'[i] = status[i] /\ status'[i] = status[i]
        BY <1>3 DEF Tells, Coherent, StarterKnows, OutsidersKnow, Finished, Verdicts,
           Typed, OutTyped
  <2>4. CASE status[i] = "running"
    <3>1. Phase(i)' = Phase(i)
          BY <2>3, <2>4 DEF Phase, Finished, Verdicts
    <3> QED BY <1>3, <2>1, <3>1 DEF Life!vars, Tells
  <2>5. CASE Finished(status[i])
    <3>1. Phase(i) = "finished" /\ Phase(i)' = "announced"
          BY <2>3, <2>5 DEF Phase
    <3>2. Life!Announce(i)
          BY <1>3, <2>1, <3>1 DEF Life!Announce, Tells
    <3> QED BY <3>2 DEF Life!Next
  <2> QED BY <2>2, <2>4, <2>5
<1>4. ASSUME NEW gone \in SUBSET tasks, Lets(gone) PROVE Life!Next
  <2>1. gone \in SUBSET Ids
        BY CapTypes DEF Typed, PoolTyped, Ids
  <2>2. \A i \in gone : Phase(i) \in {"finished", "announced"}
        BY <1>4, <2>1, PhaseOf DEF Lets
  <2>3. \A i \in Ids : Phase(i)' = Phase(i)
        BY <1>4 DEF Lets, Phase, Finished
  <2>4. Life!Drop(gone)
        BY <1>4, <2>1, <2>2, <2>3 DEF Life!Drop, Lets
  <2> QED BY <2>1, <2>4 DEF Life!Next
<1>5. CASE Turns
  <2>1. \A i \in Ids : Phase(i)' = Phase(i)
        BY <1>5 DEF Turns, Phase, Finished
  <2>2. Life!OpenOrClose
        BY <1>5, <2>1 DEF Life!OpenOrClose, Turns
  <2> QED BY <2>2 DEF Life!Next
<1> QED BY <1>1, <1>2, <1>3, <1>4, <1>5, WhatStepsDo

\* The pool implements the contract the waker relies on.
THEOREM PoolKeepsTheContract == Spec => KeepsTheContract
<1>1. Spec => Life!Init
      BY ContractInit DEF Spec
<1>2. Spec => [][Life!Next]_(Life!vars)
      BY AlwaysTyped, AlwaysCoherent, ContractNext, PTL DEF Spec
<1> QED BY <1>1, <1>2, PTL DEF KeepsTheContract, Life!Spec
=============================================================================
