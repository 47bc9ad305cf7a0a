------------------------------- MODULE BgPool -------------------------------
(***************************************************************************)
(* The background task pool of one coddy process, internal/bgtask/pool.go. *)
(*                                                                         *)
(* A task is admitted under the pool lock, launched outside of it by the   *)
(* goroutine that called Start, then supervised by a goroutine of its own, *)
(* with a third goroutine parked in handle.Wait.  Any number of callers    *)
(* stop, wait for, forget, clear and retire tasks meanwhile, and a server  *)
(* that shuts down drains the whole pool.  Every lock acquisition and      *)
(* every step that another goroutine can observe is one action.            *)
(*                                                                         *)
(* Data that no property tells apart is left out: commands, labels, output *)
(* windows, clocks and usage counters.  The bundle on disk is here only    *)
(* as far as this process writes it; what an earlier process left in it,   *)
(* and the crash that leaves it there, are the subject of BgBundle.        *)
(***************************************************************************)
EXTENDS Integers, FiniteSets

CONSTANTS
  Specs,          \* the specs callers submit: [session, system, limited]
  NoSpec,         \* a value that is no spec
  Callers,        \* goroutines that operate on tasks they did not start
  OpsOf,          \* the operations each of those callers performs
  MaxConcurrent,  \* cfg.MaxConcurrent, the per-session cap
  MaxTasks,       \* bound: how many tasks are ever admitted
  StopMayFail     \* whether handle.Stop may return an error

AllOps == {"stop", "wait", "retire", "drain", "forget", "clear"}

ASSUME PoolAssumption ==
  /\ \A p \in Specs : p.system \in BOOLEAN /\ p.limited \in BOOLEAN
  /\ NoSpec \notin Specs
  /\ OpsOf \in [Callers -> SUBSET AllOps]
  /\ MaxConcurrent \in Nat \ {0}
  /\ MaxTasks \in Nat
  /\ StopMayFail \in BOOLEAN

Ids == 1..MaxTasks
Sessions == {p.session : p \in Specs}

\* task.go: the statuses a task of this process takes ("queued" is never set,
\* "orphaned" is only how a reader of the bundle reports an earlier process).
Verdicts == {"succeeded", "failed", "timed_out", "stopped"}
Statuses == {"absent", "running"} \cup Verdicts
Finished(status) == status \in Verdicts

NoReason == "none"
NoTask == 0
IdleCaller == [op |-> "none", pc |-> "idle", target |-> NoTask,
               todo |-> {}, sessions |-> {}]

VARIABLES
  seq,            \* Pool.seq, the last number given to a task
  draining,       \* Pool.draining
  tasks,          \* the keys of Pool.tasks
  spec,           \* what each task was submitted with
  status,         \* task.snap.Status
  termReason,     \* task.termReason: the claimed reason to terminate it
  exitObserved,   \* task.exitObserved: its exit has been reaped
  handle,         \* task.handle is published
  done,           \* task.done is closed
  proc,           \* the work itself: its process, server or agent run
  stops,          \* how many times handle.Stop was called on the work
  refused,        \* tasks whose handle.Stop returned an error
  starter,        \* where the goroutine in start() is
  supervisor,     \* where supervise() is
  waiter,         \* where the goroutine in handle.Wait is
  dirs,           \* tasks whose bundle directory exists
  rec,            \* the status in each task's meta.json, "absent" without one
  heard,          \* the last snapshot status delivered to the watchers
  caller,         \* what each caller is doing
  drained         \* a drain has returned and the pool was not reopened

poolVars == <<seq, draining, tasks, spec, drained>>
taskVars == <<status, termReason, exitObserved, handle, done>>
workVars == <<proc, stops, refused>>
goVars   == <<starter, supervisor, waiter>>
outVars  == <<dirs, rec, heard>>
vars == <<poolVars, taskVars, workVars, goVars, outVars, caller>>

Init ==
  /\ seq = 0
  /\ draining = FALSE
  /\ drained = FALSE
  /\ tasks = {}
  /\ spec = [i \in Ids |-> NoSpec]
  /\ status = [i \in Ids |-> "absent"]
  /\ termReason = [i \in Ids |-> NoReason]
  /\ exitObserved = [i \in Ids |-> FALSE]
  /\ handle = [i \in Ids |-> FALSE]
  /\ done = [i \in Ids |-> FALSE]
  /\ proc = [i \in Ids |-> "none"]
  /\ stops = [i \in Ids |-> 0]
  /\ refused = {}
  /\ starter = [i \in Ids |-> "none"]
  /\ supervisor = [i \in Ids |-> "none"]
  /\ waiter = [i \in Ids |-> "none"]
  /\ dirs = {}
  /\ rec = [i \in Ids |-> "absent"]
  /\ heard = [i \in Ids |-> "absent"]
  /\ caller = [c \in Callers |-> IdleCaller]

-----------------------------------------------------------------------------
(* The work the pool runs: a process group, a server or an agent run.      *)

Working(i) == proc[i] \in {"alive", "dying"}
Gone(i) == proc[i] \in {"ok", "bad"}

\* The work ends, by itself or because it was told to.  Its exit code is its
\* own choice either way: a command may answer SIGTERM with zero.
Exit(i) ==
  /\ Working(i)
  /\ \E code \in {"ok", "bad"} : proc' = [proc EXCEPT ![i] = code]
  /\ UNCHANGED <<poolVars, taskVars, stops, refused, goVars, outVars, caller>>

\* handle.Stop: nothing to do for work that already ended; otherwise the work
\* is going to die, unless the platform refused the signal.
HandleStop(i, succeeds) ==
  /\ succeeds \/ StopMayFail
  /\ stops' = [stops EXCEPT ![i] = @ + 1]
  /\ refused' = IF succeeds THEN refused ELSE refused \cup {i}
  /\ proc' = IF succeeds /\ proc[i] = "alive"
             THEN [proc EXCEPT ![i] = "dying"] ELSE proc

-----------------------------------------------------------------------------
(* Start, Launch and Adopt: the one scheduling path, start().              *)

\* Mutant: a task counts only once its handle is published.
CountedOnceLaunched(s) == {i \in tasks : /\ spec[i].session = s
                                         /\ ~spec[i].system
                                         /\ ~Finished(status[i])
                                         /\ handle[i]}

\* runningForSession: the tasks the cap applies to.
Counted(s) == {i \in tasks : /\ spec[i].session = s
                             /\ ~spec[i].system
                             /\ ~Finished(status[i])}

HasRoom(p) == p.system \/ Cardinality(Counted(p.session)) < MaxConcurrent

\* Mutant: only the cap is checked, not the drain.
AdmissibleInDrain(p) == HasRoom(p)

Admissible(p) == ~draining /\ HasRoom(p)

\* Admission and registration happen under one acquisition of the pool lock.
\* ErrDraining and ErrPoolFull leave nothing behind, so a refusal is no step.
Admit(p) ==
  LET i == seq + 1 IN
  /\ seq < MaxTasks
  /\ Admissible(p)
  /\ seq' = i
  /\ tasks' = tasks \cup {i}
  /\ spec' = [spec EXCEPT ![i] = p]
  /\ status' = [status EXCEPT ![i] = "running"]
  /\ starter' = [starter EXCEPT ![i] = "launch"]
  /\ UNCHANGED <<draining, drained, termReason, exitObserved, handle, done,
                 workVars, supervisor, waiter, outVars, caller>>

\* The bundle directory is prepared and the work started, outside every lock.
Launch(i) ==
  /\ starter[i] = "launch"
  /\ dirs' = dirs \cup {i}
  /\ proc' = [proc EXCEPT ![i] = "alive"]
  /\ starter' = [starter EXCEPT ![i] = "attach"]
  /\ UNCHANGED <<poolVars, taskVars, stops, refused, supervisor, waiter, rec,
                 heard, caller>>

\* The launch returned an error: the task has failed, whatever was claimed.
LaunchFails(i) ==
  /\ starter[i] = "launch"
  /\ dirs' = dirs \cup {i}
  /\ status' = [status EXCEPT ![i] = "failed"]
  /\ starter' = [starter EXCEPT ![i] = "failClose"]
  /\ UNCHANGED <<poolVars, termReason, exitObserved, handle, done, workVars,
                 supervisor, waiter, rec, heard, caller>>

\* attachHandle: publish the handle, and notice a claim made without it.
AttachHandle(i) ==
  /\ starter[i] = "attach"
  /\ handle' = [handle EXCEPT ![i] = TRUE]
  /\ starter' = [starter EXCEPT ![i] =
                   IF termReason[i] # NoReason THEN "stop" ELSE "persist"]
  /\ UNCHANGED <<poolVars, status, termReason, exitObserved, done, workVars,
                 supervisor, waiter, outVars, caller>>

\* terminateNow: the claim had no handle to act on, so the starter stops it.
StarterStop(i) ==
  /\ starter[i] = "stop"
  /\ \E succeeds \in BOOLEAN : HandleStop(i, succeeds)
  /\ starter' = [starter EXCEPT ![i] = "persist"]
  /\ UNCHANGED <<poolVars, taskVars, supervisor, waiter, outVars, caller>>

\* persist: best effort, a record whose directory was removed is not written.
Persist(i) == rec' = IF i \in dirs THEN [rec EXCEPT ![i] = status[i]] ELSE rec

\* Mutant: a failed launch is persisted and never announced.
PersistUnannounced(i) ==
  /\ starter[i] \in {"persist", "failPersist"}
  /\ Persist(i)
  /\ starter' = [starter EXCEPT ![i] =
                   IF @ = "persist" THEN "notify" ELSE "ended"]
  /\ UNCHANGED <<poolVars, taskVars, workVars, supervisor, waiter, dirs, heard,
                 caller>>

StarterPersist(i) ==
  /\ starter[i] \in {"persist", "failPersist"}
  /\ Persist(i)
  /\ starter' = [starter EXCEPT ![i] =
                   IF @ = "persist" THEN "notify" ELSE "failNotify"]
  /\ UNCHANGED <<poolVars, taskVars, workVars, supervisor, waiter, dirs, heard,
                 caller>>

Notify(i) == heard' = [heard EXCEPT ![i] = status[i]]

\* The running snapshot goes out, then the task gets its supervisor.
StarterNotify(i) ==
  /\ starter[i] = "notify"
  /\ Notify(i)
  /\ starter' = [starter EXCEPT ![i] = "ended"]
  /\ supervisor' = [supervisor EXCEPT ![i] = "select"]
  /\ waiter' = [waiter EXCEPT ![i] = "waiting"]
  /\ UNCHANGED <<poolVars, taskVars, workVars, dirs, rec, caller>>

\* Mutant: a failed launch returns without releasing the waiters.
FailWithoutClose(i) ==
  /\ starter[i] = "failClose"
  /\ starter' = [starter EXCEPT ![i] = "failPersist"]
  /\ UNCHANGED <<poolVars, taskVars, workVars, supervisor, waiter, outVars,
                 caller>>

FailClose(i) ==
  /\ starter[i] = "failClose"
  /\ done' = [done EXCEPT ![i] = TRUE]
  /\ starter' = [starter EXCEPT ![i] = "failPersist"]
  /\ UNCHANGED <<poolVars, status, termReason, exitObserved, handle, workVars,
                 supervisor, waiter, outVars, caller>>

FailNotify(i) ==
  /\ starter[i] = "failNotify"
  /\ Notify(i)
  /\ starter' = [starter EXCEPT ![i] = "ended"]
  /\ UNCHANGED <<poolVars, taskVars, workVars, supervisor, waiter, dirs, rec,
                 caller>>

-----------------------------------------------------------------------------
(* supervise() and the goroutine it parks in handle.Wait.                  *)

WaitReturns(i) ==
  /\ waiter[i] = "waiting"
  /\ Gone(i)
  /\ waiter' = [waiter EXCEPT ![i] = "reaped"]
  /\ UNCHANGED <<poolVars, taskVars, workVars, starter, supervisor, outVars,
                 caller>>

\* markExitObserved, then the exit is handed to the supervisor.
MarkExitObserved(i) ==
  /\ waiter[i] = "reaped"
  /\ exitObserved' = [exitObserved EXCEPT ![i] = TRUE]
  /\ waiter' = [waiter EXCEPT ![i] = "sent"]
  /\ UNCHANGED <<poolVars, status, termReason, handle, done, workVars, starter,
                 supervisor, outVars, caller>>

\* Mutant: a later claim replaces the first.
ClaimableTwice(i) == ~exitObserved[i] /\ ~Finished(status[i])

\* claimTermination loses to an observed exit, a finished task, a prior claim.
Claimable(i) == /\ ~exitObserved[i]
                /\ ~Finished(status[i])
                /\ termReason[i] = NoReason

Claim(i, reason) == termReason' = IF Claimable(i)
                                  THEN [termReason EXCEPT ![i] = reason]
                                  ELSE termReason

\* Mutant: the limit is recorded as the reason but nothing is stopped.
ExpireUnarmed(i) ==
  /\ supervisor[i] = "select"
  /\ spec[i].limited
  /\ Claim(i, "timed_out")
  /\ supervisor' = [supervisor EXCEPT ![i] = "await"]
  /\ UNCHANGED <<poolVars, status, exitObserved, handle, done, workVars,
                 starter, waiter, outVars, caller>>

\* The timer of a task with a limit fires while the select still waits.
Expire(i) ==
  /\ supervisor[i] = "select"
  /\ spec[i].limited
  /\ Claim(i, "timed_out")
  /\ supervisor' = [supervisor EXCEPT ![i] =
                      IF Claimable(i) THEN "stop" ELSE "await"]
  /\ UNCHANGED <<poolVars, status, exitObserved, handle, done, workVars,
                 starter, waiter, outVars, caller>>

SupervisorStop(i) ==
  /\ supervisor[i] = "stop"
  /\ \E succeeds \in BOOLEAN : HandleStop(i, succeeds)
  /\ supervisor' = [supervisor EXCEPT ![i] = "await"]
  /\ UNCHANGED <<poolVars, taskVars, starter, waiter, outVars, caller>>

\* Mutants: the raw exit as the verdict, and an exit code that beats the claim.
VerdictRaw(i) == IF termReason[i] # NoReason THEN termReason[i] ELSE proc[i]
VerdictOfExit(i) == IF proc[i] = "ok" THEN "succeeded"
                    ELSE IF termReason[i] # NoReason THEN termReason[i]
                    ELSE "failed"

Verdict(i) == IF termReason[i] # NoReason THEN termReason[i]
              ELSE IF proc[i] = "ok" THEN "succeeded" ELSE "failed"

\* Mutant: the waiters are released before the verdict is persisted.
FinaliseAndRelease(i) ==
  /\ supervisor[i] \in {"select", "await"}
  /\ waiter[i] = "sent"
  /\ status' = [status EXCEPT ![i] = Verdict(i)]
  /\ done' = [done EXCEPT ![i] = TRUE]
  /\ supervisor' = [supervisor EXCEPT ![i] = "persist"]
  /\ UNCHANGED <<poolVars, termReason, exitObserved, handle, workVars, starter,
                 waiter, outVars, caller>>

\* The exit arrived: the verdict is decided under the task lock.
Finalise(i) ==
  /\ supervisor[i] \in {"select", "await"}
  /\ waiter[i] = "sent"
  /\ status' = [status EXCEPT ![i] = Verdict(i)]
  /\ supervisor' = [supervisor EXCEPT ![i] = "persist"]
  /\ UNCHANGED <<poolVars, termReason, exitObserved, handle, done, workVars,
                 starter, waiter, outVars, caller>>

\* Mutant: the watchers hear of the end before the waiters are released.
PersistAndNotify(i) ==
  /\ supervisor[i] = "persist"
  /\ Persist(i)
  /\ Notify(i)
  /\ supervisor' = [supervisor EXCEPT ![i] = "close"]
  /\ UNCHANGED <<poolVars, taskVars, workVars, starter, waiter, dirs, caller>>

SupervisorPersist(i) ==
  /\ supervisor[i] = "persist"
  /\ Persist(i)
  /\ supervisor' = [supervisor EXCEPT ![i] = "close"]
  /\ UNCHANGED <<poolVars, taskVars, workVars, starter, waiter, dirs, heard,
                 caller>>

CloseDone(i) ==
  /\ supervisor[i] = "close"
  /\ done' = [done EXCEPT ![i] = TRUE]
  /\ supervisor' = [supervisor EXCEPT ![i] = "notify"]
  /\ UNCHANGED <<poolVars, status, termReason, exitObserved, handle, workVars,
                 starter, waiter, outVars, caller>>

SupervisorNotify(i) ==
  /\ supervisor[i] = "notify"
  /\ Notify(i)
  /\ supervisor' = [supervisor EXCEPT ![i] = "ended"]
  /\ UNCHANGED <<poolVars, taskVars, workVars, starter, waiter, dirs, rec,
                 caller>>

-----------------------------------------------------------------------------
(* Callers.  A caller looks a task up, then acts on the pointer it got: by *)
(* then the task may have finished or left the pool.                       *)

Idle(c, op) == op \in OpsOf[c] /\ caller[c].pc = "idle"
Step(c, from) == caller[c].pc = from
OnlyCaller == UNCHANGED <<poolVars, taskVars, workVars, goVars, outVars>>

\* Mutant: only tasks that can be signalled are listed.
UnfinishedWithHandle(s) ==
  {i \in tasks : spec[i].session = s /\ ~Finished(status[i]) /\ handle[i]}

\* List, as StopSession uses it: the unfinished tasks of a session.
Unfinished(s) == {i \in tasks : spec[i].session = s /\ ~Finished(status[i])}

CallStop(c) ==
  /\ Idle(c, "stop")
  /\ \E i \in tasks :
       caller' = [caller EXCEPT ![c].op = "stop", ![c].pc = "claim",
                                ![c].target = i]
  /\ OnlyCaller

CallWait(c) ==
  /\ Idle(c, "wait")
  /\ \E i \in tasks :
       caller' = [caller EXCEPT ![c].op = "wait", ![c].pc = "wait",
                                ![c].target = i]
  /\ OnlyCaller

\* A session is retired with StopSession, then ReleaseSession.
CallRetire(c) ==
  /\ Idle(c, "retire")
  /\ \E s \in Sessions :
       caller' = [caller EXCEPT ![c].op = "retire", ![c].pc = "next",
                                ![c].todo = Unfinished(s),
                                ![c].sessions = {s}]
  /\ OnlyCaller

\* Server drain: close the pool to new work, then StopAll.
CallDrain(c) ==
  /\ Idle(c, "drain")
  /\ \A d \in Callers : caller[d].op # "drain"
  /\ draining' = TRUE
  /\ caller' = [caller EXCEPT ![c].op = "drain", ![c].pc = "stopAll"]
  /\ UNCHANGED <<seq, tasks, spec, drained, taskVars, workVars, goVars,
                 outVars>>

StopAll(c) ==
  /\ Step(c, "stopAll")
  /\ caller' = [caller EXCEPT ![c].pc = "nextSession",
                              ![c].sessions = {spec[i].session : i \in tasks}]
  /\ OnlyCaller

NextSession(c) ==
  /\ Step(c, "nextSession")
  /\ \E s \in caller[c].sessions :
       caller' = [caller EXCEPT ![c].pc = "next", ![c].todo = Unfinished(s),
                                ![c].sessions = @ \ {s}]
  /\ OnlyCaller

DrainReturns(c) ==
  /\ Step(c, "nextSession")
  /\ caller[c].sessions = {}
  /\ drained' = TRUE
  /\ caller' = [caller EXCEPT ![c] = IdleCaller]
  /\ UNCHANGED <<seq, draining, tasks, spec, taskVars, workVars, goVars,
                 outVars>>

\* A new server in the same process opens the pool again; the process builds
\* it once the Drain of the previous one has returned.
Reopen ==
  /\ drained
  /\ \A c \in Callers : caller[c].op # "drain"
  /\ draining' = FALSE
  /\ drained' = FALSE
  /\ UNCHANGED <<seq, tasks, spec, taskVars, workVars, goVars, outVars, caller>>

\* StopSession stops the listed tasks one after the other; one that left the
\* pool meanwhile is not found, and its record is that of a finished task.
NextTask(c) ==
  /\ Step(c, "next")
  /\ \E i \in caller[c].todo :
       caller' = [caller EXCEPT ![c].todo = @ \ {i},
                                ![c].pc = IF i \in tasks THEN "claim" ELSE @,
                                ![c].target = IF i \in tasks THEN i ELSE @]
  /\ OnlyCaller

SessionStopped(c) ==
  /\ Step(c, "next")
  /\ caller[c].todo = {}
  /\ caller' = [caller EXCEPT ![c].pc = IF caller[c].op = "drain"
                                        THEN "nextSession" ELSE "release"]
  /\ OnlyCaller

ClaimStop(c) ==
  LET i == caller[c].target IN
  /\ Step(c, "claim")
  /\ Claim(i, "stopped")
  /\ caller' = [caller EXCEPT ![c].pc =
                  IF Claimable(i) /\ handle[i] THEN "signal" ELSE "wait"]
  /\ UNCHANGED <<poolVars, status, exitObserved, handle, done, workVars, goVars,
                 outVars>>

\* Where a caller goes once Stop or Wait returned.
Returned(c) == IF caller[c].op \in {"stop", "wait"} THEN IdleCaller
               ELSE [caller[c] EXCEPT !.pc = "next", !.target = NoTask]

\* A refused signal is returned to the caller, who does not wait.
Signal(c) ==
  /\ Step(c, "signal")
  /\ \E succeeds \in BOOLEAN :
       /\ HandleStop(caller[c].target, succeeds)
       /\ caller' = [caller EXCEPT ![c] = IF succeeds
                                          THEN [@ EXCEPT !.pc = "wait"]
                                          ELSE Returned(c)]
  /\ UNCHANGED <<poolVars, taskVars, goVars, outVars>>

Settled(c) ==
  /\ Step(c, "wait")
  /\ done[caller[c].target]
  /\ caller' = [caller EXCEPT ![c] = Returned(c)]
  /\ OnlyCaller

\* Wait, unlike Stop, has a timeout and a context.
WaitGivesUp(c) ==
  /\ Step(c, "wait")
  /\ caller[c].op = "wait"
  /\ caller' = [caller EXCEPT ![c] = IdleCaller]
  /\ OnlyCaller

\* Mutant: a session's tasks are dropped whether or not they finished.
AllOf(s) == {i \in tasks : spec[i].session = s}

\* Only finished tasks ever leave the map.
FinishedOf(s) == {i \in tasks : spec[i].session = s /\ Finished(status[i])}

Drop(gone) == /\ tasks' = tasks \ gone
              /\ UNCHANGED <<seq, draining, spec, drained>>

\* ReleaseSession keeps the records on disk.
Release(c) ==
  /\ Step(c, "release")
  /\ Drop(UNION {FinishedOf(s) : s \in caller[c].sessions})
  /\ caller' = [caller EXCEPT ![c] = IdleCaller]
  /\ UNCHANGED <<taskVars, workVars, goVars, outVars>>

\* Forget (one task) and ClearFinished (a session's) drop under the pool lock
\* and remove the directories after it.
CallForget(c) ==
  /\ Idle(c, "forget")
  /\ \E i \in tasks :
       /\ Finished(status[i])
       /\ Drop({i})
       /\ caller' = [caller EXCEPT ![c].op = "forget", ![c].pc = "remove",
                                   ![c].todo = {i}]
  /\ UNCHANGED <<taskVars, workVars, goVars, outVars>>

CallClear(c) ==
  /\ Idle(c, "clear")
  /\ \E s \in Sessions :
       /\ Drop(FinishedOf(s))
       /\ caller' = [caller EXCEPT ![c].op = "clear", ![c].pc = "remove",
                                   ![c].todo = FinishedOf(s)]
  /\ UNCHANGED <<taskVars, workVars, goVars, outVars>>

RemoveDir(c) ==
  /\ Step(c, "remove")
  /\ \E i \in caller[c].todo :
       /\ dirs' = dirs \ {i}
       /\ rec' = [rec EXCEPT ![i] = "absent"]
       /\ caller' = [caller EXCEPT ![c].todo = @ \ {i}]
  /\ UNCHANGED <<poolVars, taskVars, workVars, goVars, heard>>

RemovedAll(c) ==
  /\ Step(c, "remove")
  /\ caller[c].todo = {}
  /\ caller' = [caller EXCEPT ![c] = IdleCaller]
  /\ OnlyCaller

-----------------------------------------------------------------------------
(* The specification.                                                      *)

StarterStep(i) == \/ Launch(i) \/ LaunchFails(i) \/ AttachHandle(i)
                  \/ StarterStop(i) \/ StarterPersist(i) \/ StarterNotify(i)
                  \/ FailClose(i) \/ FailNotify(i)

WaiterStep(i) == WaitReturns(i) \/ MarkExitObserved(i)

SupervisorStep(i) == \/ Expire(i) \/ SupervisorStop(i) \/ Finalise(i)
                     \/ SupervisorPersist(i) \/ CloseDone(i)
                     \/ SupervisorNotify(i)

Call(c) == \/ CallStop(c) \/ CallWait(c) \/ CallRetire(c) \/ CallDrain(c)
           \/ CallForget(c) \/ CallClear(c)

CallerStep(c) == \/ StopAll(c) \/ NextSession(c) \/ DrainReturns(c)
                 \/ NextTask(c) \/ SessionStopped(c) \/ ClaimStop(c)
                 \/ Signal(c) \/ Settled(c) \/ Release(c) \/ RemoveDir(c)
                 \/ RemovedAll(c)

Next == \/ \E p \in Specs : Admit(p)
        \/ \E i \in Ids : \/ StarterStep(i) \/ WaiterStep(i)
                          \/ SupervisorStep(i) \/ Exit(i)
        \/ \E c \in Callers : Call(c) \/ CallerStep(c) \/ WaitGivesUp(c)
        \/ Reopen

\* Goroutines that can run do run, and work that was told to stop ends.
\* Work that was not told to stop may run for ever.
Fairness ==
  /\ \A i \in Ids : /\ WF_vars(StarterStep(i))
                    /\ WF_vars(WaiterStep(i))
                    /\ WF_vars(SupervisorStep(i))
                    /\ WF_vars(Exit(i) /\ proc[i] = "dying")
  /\ \A c \in Callers : WF_vars(CallerStep(c))

Spec == Init /\ [][Next]_vars
FairSpec == Spec /\ Fairness

-----------------------------------------------------------------------------
(* Properties.                                                             *)

TypeOK ==
  /\ seq \in 0..MaxTasks
  /\ draining \in BOOLEAN
  /\ drained \in BOOLEAN
  /\ tasks \subseteq 1..seq
  /\ spec \in [Ids -> Specs \cup {NoSpec}]
  /\ status \in [Ids -> Statuses]
  /\ termReason \in [Ids -> {NoReason, "stopped", "timed_out"}]
  /\ exitObserved \in [Ids -> BOOLEAN]
  /\ handle \in [Ids -> BOOLEAN]
  /\ done \in [Ids -> BOOLEAN]
  /\ proc \in [Ids -> {"none", "alive", "dying", "ok", "bad"}]
  /\ stops \in [Ids -> Nat]
  /\ refused \subseteq Ids
  /\ starter \in [Ids -> {"none", "launch", "attach", "stop", "persist",
                          "notify", "failClose", "failPersist", "failNotify",
                          "ended"}]
  /\ supervisor \in [Ids -> {"none", "select", "stop", "await", "persist",
                             "close", "notify", "ended"}]
  /\ waiter \in [Ids -> {"none", "waiting", "reaped", "sent"}]
  /\ dirs \subseteq Ids
  /\ rec \in [Ids -> Statuses]
  /\ heard \in [Ids -> Statuses]
  /\ caller \in [Callers ->
       [op : AllOps \cup {"none"},
        pc : {"idle", "claim", "signal", "wait", "next", "release", "stopAll",
              "nextSession", "remove"},
        target : Ids \cup {NoTask},
        todo : SUBSET Ids,
        sessions : SUBSET Sessions]]

\* Work never outlives the pool's grip on it: as long as a process, server or
\* agent run exists, its task is registered and unfinished, so that Stop and
\* StopAll reach it (registration before launch, and Forget, ClearFinished and
\* ReleaseSession only dropping finished tasks).
NoStrayWork == \A i \in Ids : Working(i) => i \in tasks /\ status[i] = "running"

\* The cap bounds the work itself, not the bookkeeping: at no instant do more
\* than MaxConcurrent non-system works of one session exist, whatever is
\* launching, dying, forgotten or retired meanwhile.
Live(s) == {i \in Ids : Working(i) /\ ~spec[i].system /\ spec[i].session = s}
CapBoundsWork == \A s \in Sessions : Cardinality(Live(s)) <= MaxConcurrent

\* A handle is stopped at most once, and never without a claim, although four
\* code paths call it: Stop, the timer, StopAll and the starter itself.
StoppedOnce == \A i \in Ids : /\ stops[i] <= 1
                              /\ stops[i] = 1 => termReason[i] # NoReason

\* The verdict tells what happened: a claimed task is reported as claimed, an
\* unclaimed one by its exit, and one that never launched as failed.
VerdictIsTrue == \A i \in Ids : Finished(status[i]) =>
  /\ ~handle[i] => status[i] = "failed"
  /\ handle[i] /\ termReason[i] # NoReason => status[i] = termReason[i]
  /\ handle[i] /\ termReason[i] = NoReason
       => \/ proc[i] = "ok" /\ status[i] = "succeeded"
          \/ proc[i] = "bad" /\ status[i] = "failed"

\* Stop and Wait return once done is closed; whoever reads the bundle then
\* never finds a record that still says running ("Persist before releasing
\* waiters"), nor one that contradicts the task.
WaitersReadTheVerdict == \A i \in Ids :
  done[i] => Finished(status[i]) /\ rec[i] \in {"absent", status[i]}

\* A drain that returned leaves nothing behind: every task finished and no
\* work exists, although StopAll looks at the sessions and at each session's
\* tasks only once, while tasks are still launching.  The one exception is work
\* the platform refused to signal.
DrainedIsQuiet == drained =>
  \A i \in Ids \ refused : ~Working(i) /\ status[i] # "running"

\* Watchers hear one final snapshot per task, after its waiters were released,
\* and nothing after it.
FinalNewsIsLast == [][\A i \in Ids :
  /\ Finished(heard[i]) => heard'[i] = heard[i]
  /\ heard'[i] # heard[i] /\ heard'[i] # "running"
        => done[i] /\ heard'[i] = status[i]]_vars

\* Once the exit is observed no claim relabels the task, and a claim once made
\* is never replaced by another.
ClaimsAreFinal == [][\A i \in Ids :
  exitObserved[i] \/ termReason[i] # NoReason
     => termReason'[i] = termReason[i]]_vars

\* A task with a hard limit always ends, whatever its work does.
LimitedTaskSettles == \A i \in Ids :
  (spec[i] # NoSpec /\ spec[i].limited) ~> Finished(heard[i])

\* Every call of Stop, Wait, StopSession and StopAll returns.
CallsReturn == \A c \in Callers :
  caller[c].op \in {"stop", "retire", "drain", "forget", "clear"}
     ~> caller[c].pc = "idle"

-----------------------------------------------------------------------------
(* The contract the waker builds on, TaskLife.                             *)

Phase(i) == IF Finished(heard[i]) THEN "announced"
            ELSE IF Finished(status[i]) THEN "finished"
            ELSE IF status[i] = "running" THEN "running"
            ELSE "unstarted"

Life == INSTANCE TaskLife WITH Tasks <- Ids,
                               phase <- [i \in Ids |-> Phase(i)],
                               held <- tasks,
                               closed <- draining

\* The pool keeps the contract: a task starts once and only while the pool is
\* open, ends once and is announced once after that, and is dropped only when it
\* has ended, in whatever order starter, supervisor, waiter and callers run.
KeepsTheContract == Life!Spec

\* Every end is announced, even that of a task whose launch failed or that was
\* dropped from the pool before its watchers were told.
AnnouncesEveryEnd == Life!Fairness
=============================================================================
