------------------------------ MODULE BgBundle ------------------------------
(***************************************************************************)
(* The task records of one session's bundle across crashes and restarts of *)
(* coddy: internal/bgtask/persist.go with the parts of pool.go that read   *)
(* what an earlier process left behind.                                    *)
(*                                                                         *)
(* Two goroutines of the process touch the bundle: the session's turn,     *)
(* which starts tasks, lists and reaps survivors and stops them by id, one *)
(* tool call after the other, and the HTTP handler that clears the task    *)
(* history.  Supervisors write their task's record when it ends.  A crash  *)
(* takes the process and everything in its memory; a command it started    *)
(* lives in a process group of its own and may outlive it.                 *)
(*                                                                         *)
(* BgPool has the life of a task in detail; here a task is admitted,       *)
(* launched, recorded, ends and is recorded again.                         *)
(***************************************************************************)
EXTENDS Integers, FiniteSets

CONSTANTS
  MaxTasks,       \* bound: the highest task number
  MaxEpochs       \* bound: how many processes serve the session in turn

ASSUME BundleAssumption == MaxTasks \in Nat /\ MaxEpochs \in Nat \ {0}

Ids == 1..MaxTasks

VARIABLES
  epoch,          \* which process runs, counting from 1
  dirKnown,       \* the pool has this session in Pool.sessionDirs
  seq,            \* Pool.seq of this process
  mem,            \* what the pool of this process holds of each task
  proc,           \* the process group of each task: none, alive, gone
  born,           \* the process that launched it, 0 before
  dirs,           \* tasks with a directory in the bundle
  saving,         \* tasks whose supervisor is about to record their end
  rec,            \* meta.json of each: absent, running, finished
  turn,           \* the session's turn
  cleaner,        \* the handler that clears the history
  \* Nothing in the code reads these.
  unrecorded,     \* tasks a crash caught between launch and first record
  cleared,        \* tasks whose directory the handler removed
  reapedOwn       \* a reap or a stop by record hit a task of this process

memVars == <<epoch, dirKnown, seq, mem, saving>>
diskVars == <<dirs, rec>>
ghostVars == <<unrecorded, cleared, reapedOwn>>
vars == <<memVars, proc, born, diskVars, turn, cleaner, ghostVars>>

IdleTurn == [pc |-> "idle", id |-> 0, live |-> {}, todo |-> {}]
IdleCleaner == [pc |-> "idle", live |-> {}, todo |-> {}]

Init ==
  /\ epoch = 1
  /\ dirKnown = FALSE
  /\ seq = 0
  /\ mem = [i \in Ids |-> "absent"]
  /\ saving = {}
  /\ proc = [i \in Ids |-> "none"]
  /\ born = [i \in Ids |-> 0]
  /\ dirs = {}
  /\ rec = [i \in Ids |-> "absent"]
  /\ turn = IdleTurn
  /\ cleaner = IdleCleaner
  /\ unrecorded = {} /\ cleared = {} /\ reapedOwn = {}

-----------------------------------------------------------------------------
(* What the bundle says.                                                   *)

MaxOf(ids) == IF ids = {} THEN 0 ELSE CHOOSE n \in ids : \A m \in ids : m <= n

\* LoadPersisted: what still says running is reported as orphaned.
Recorded == {i \in dirs : rec[i] # "absent"}

\* Mutant: only recorded tasks count.
HighestRecorded == MaxOf(Recorded)

\* highestPersistedTaskNumber: directories count, recorded or not.
HighestPersisted == MaxOf(dirs)

Orphaned == {i \in Recorded : rec[i] = "running"}

\* List: every task the pool holds, finished or not.
Listed == {i \in Ids : mem[i] # "absent"}

Write(i, status) == rec' = IF i \in dirs THEN [rec EXCEPT ![i] = status] ELSE rec

Remove(gone) == /\ dirs' = dirs \ gone
                /\ rec' = [i \in Ids |-> IF i \in gone THEN "absent" ELSE rec[i]]

-----------------------------------------------------------------------------
(* The turn: every background tool first calls SetSessionDir.              *)

SetSessionDir ==
  /\ turn.pc = "idle"
  /\ dirKnown' = TRUE
  /\ seq' = IF HighestPersisted > seq THEN HighestPersisted ELSE seq
  /\ turn' = [turn EXCEPT !.pc = "tool"]
  /\ UNCHANGED <<epoch, mem, saving, proc, born, diskVars, cleaner, ghostVars>>

Start ==
  LET i == seq + 1 IN
  /\ turn.pc = "tool"
  /\ i \in Ids
  /\ seq' = i
  /\ mem' = [mem EXCEPT ![i] = "running"]
  /\ turn' = [turn EXCEPT !.pc = "prepare", !.id = i]
  /\ UNCHANGED <<epoch, dirKnown, saving, proc, born, diskVars, cleaner,
                 ghostVars>>

PrepareDir ==
  /\ turn.pc = "prepare"
  /\ dirs' = dirs \cup {turn.id}
  /\ turn' = [turn EXCEPT !.pc = "launch"]
  /\ UNCHANGED <<memVars, proc, born, rec, cleaner, ghostVars>>

Launch ==
  /\ turn.pc = "launch"
  /\ proc' = [proc EXCEPT ![turn.id] = "alive"]
  /\ born' = [born EXCEPT ![turn.id] = epoch]
  /\ turn' = [turn EXCEPT !.pc = "record"]
  /\ UNCHANGED <<memVars, diskVars, cleaner, ghostVars>>

LaunchFails ==
  /\ turn.pc = "launch"
  /\ mem' = [mem EXCEPT ![turn.id] = "finished"]
  /\ turn' = [turn EXCEPT !.pc = "record"]
  /\ UNCHANGED <<epoch, dirKnown, seq, saving, proc, born, diskVars, cleaner,
                 ghostVars>>

\* Mutant: the first record is left to whoever records the end.
StartedUnrecorded ==
  /\ turn.pc = "record"
  /\ turn' = IdleTurn
  /\ UNCHANGED <<memVars, proc, born, diskVars, cleaner, ghostVars>>

\* The first record; the supervisor starts only after it.
RecordStarted ==
  /\ turn.pc = "record"
  /\ Write(turn.id, IF born[turn.id] = epoch THEN "running" ELSE "finished")
  /\ turn' = IdleTurn
  /\ UNCHANGED <<memVars, proc, born, dirs, cleaner, ghostVars>>

\* Survivors lists the pool first and reads the bundle after that.
ListLive ==
  /\ turn.pc = "tool"
  /\ turn' = [turn EXCEPT !.pc = "survivors", !.live = Listed]
  /\ UNCHANGED <<memVars, proc, born, diskVars, cleaner, ghostVars>>

\* Mutant: the tasks of this process are not set aside.
SurvivorsOfAnyone ==
  /\ turn.pc = "survivors"
  /\ turn' = [turn EXCEPT !.pc = "reap",
                !.todo = {i \in Orphaned : proc[i] = "alive"}]
  /\ UNCHANGED <<memVars, proc, born, diskVars, cleaner, ghostVars>>

Survivors ==
  /\ turn.pc = "survivors"
  /\ turn' = [turn EXCEPT !.pc = "reap",
                !.todo = {i \in Orphaned \ turn.live : proc[i] = "alive"}]
  /\ UNCHANGED <<memVars, proc, born, diskVars, cleaner, ghostVars>>

\* background_stop of an id the pool does not hold: stopSurvivor.
StopSurvivor(i) ==
  /\ turn.pc = "tool"
  /\ i \notin Listed
  /\ i \in Orphaned
  /\ proc[i] = "alive"
  /\ turn' = [turn EXCEPT !.pc = "reap", !.todo = {i}]
  /\ UNCHANGED <<memVars, proc, born, diskVars, cleaner, ghostVars>>

Terminate ==
  /\ turn.pc = "reap"
  /\ \E i \in turn.todo :
       /\ proc' = [proc EXCEPT ![i] = "gone"]
       /\ reapedOwn' = IF mem[i] # "absent" THEN reapedOwn \cup {i}
                       ELSE reapedOwn
       /\ turn' = [turn EXCEPT !.pc = "rewrite", !.id = i, !.todo = @ \ {i}]
  /\ UNCHANGED <<memVars, born, diskVars, cleaner, unrecorded, cleared>>

\* writePersistedSnapshot, so that the next read does not offer it again.
Rewrite ==
  /\ turn.pc = "rewrite"
  /\ Write(turn.id, "finished")
  /\ turn' = [turn EXCEPT !.pc = "reap"]
  /\ UNCHANGED <<memVars, proc, born, dirs, cleaner, ghostVars>>

ToolReturns ==
  /\ \/ turn.pc = "tool"
     \/ turn.pc = "reap" /\ turn.todo = {}
  /\ turn' = IdleTurn
  /\ UNCHANGED <<memVars, proc, born, diskVars, cleaner, ghostVars>>

-----------------------------------------------------------------------------
(* Tasks end, and their supervisors record it.                             *)

Exit(i) ==
  /\ proc[i] = "alive"
  /\ proc' = [proc EXCEPT ![i] = "gone"]
  /\ UNCHANGED <<memVars, born, diskVars, turn, cleaner, ghostVars>>

Supervised(i) == ~(turn.pc \in {"prepare", "launch", "record"} /\ turn.id = i)

\* Mutant: the task is finalised without waiting for its exit.
FinaliseEarly(i) ==
  /\ mem[i] = "running"
  /\ proc[i] # "none"
  /\ Supervised(i)
  /\ mem' = [mem EXCEPT ![i] = "finished"]
  /\ saving' = saving \cup {i}
  /\ UNCHANGED <<epoch, dirKnown, seq, proc, born, diskVars, turn, cleaner,
                 ghostVars>>

\* The verdict is in memory before it is on disk.
Finalise(i) ==
  /\ mem[i] = "running"
  /\ proc[i] = "gone"
  /\ Supervised(i)
  /\ mem' = [mem EXCEPT ![i] = "finished"]
  /\ saving' = saving \cup {i}
  /\ UNCHANGED <<epoch, dirKnown, seq, proc, born, diskVars, turn, cleaner,
                 ghostVars>>

RecordFinished(i) ==
  /\ i \in saving
  /\ saving' = saving \ {i}
  /\ Write(i, "finished")
  /\ UNCHANGED <<epoch, dirKnown, seq, mem, proc, born, dirs, turn, cleaner,
                 ghostVars>>

-----------------------------------------------------------------------------
(* ClearFinished, from DELETE on the session's background tasks.           *)

DropFinished ==
  LET gone == {i \in Ids : mem[i] = "finished"} IN
  /\ cleaner.pc = "idle"
  /\ dirKnown' = TRUE
  /\ seq' = IF HighestPersisted > seq THEN HighestPersisted ELSE seq
  /\ mem' = [i \in Ids |-> IF i \in gone THEN "absent" ELSE mem[i]]
  /\ cleaner' = [cleaner EXCEPT !.pc = "remove", !.todo = gone]
  /\ UNCHANGED <<epoch, saving, proc, born, diskVars, turn, ghostVars>>

RemoveDropped ==
  /\ cleaner.pc = "remove"
  /\ Remove(cleaner.todo)
  /\ cleared' = cleared \cup cleaner.todo
  /\ cleaner' = [cleaner EXCEPT !.pc = "list", !.todo = {}]
  /\ UNCHANGED <<memVars, proc, born, turn, unrecorded, reapedOwn>>

ListKept ==
  /\ cleaner.pc = "list"
  /\ cleaner' = [cleaner EXCEPT !.pc = "load", !.live = Listed]
  /\ UNCHANGED <<memVars, proc, born, diskVars, turn, ghostVars>>

\* Every record reads as finished, orphaned ones included.
LoadLeftovers ==
  /\ cleaner.pc = "load"
  /\ cleaner' = [cleaner EXCEPT !.pc = "removeOld",
                                !.todo = Recorded \ cleaner.live]
  /\ UNCHANGED <<memVars, proc, born, diskVars, turn, ghostVars>>

RemoveLeftovers ==
  /\ cleaner.pc = "removeOld"
  /\ Remove(cleaner.todo)
  /\ cleared' = cleared \cup cleaner.todo
  /\ cleaner' = IdleCleaner
  /\ UNCHANGED <<memVars, proc, born, turn, unrecorded, reapedOwn>>

-----------------------------------------------------------------------------
(* The process dies and another one takes over.                            *)

Crash ==
  /\ epoch < MaxEpochs
  /\ epoch' = epoch + 1
  /\ dirKnown' = FALSE
  /\ seq' = 0
  /\ mem' = [i \in Ids |-> "absent"]
  /\ saving' = {}
  /\ unrecorded' = IF turn.pc = "record" THEN unrecorded \cup {turn.id}
                   ELSE unrecorded
  /\ turn' = IdleTurn
  /\ cleaner' = IdleCleaner
  /\ UNCHANGED <<proc, born, diskVars, cleared, reapedOwn>>

-----------------------------------------------------------------------------

StartStep == \/ Start \/ PrepareDir \/ Launch \/ LaunchFails \/ RecordStarted
ReapStep == \/ ListLive \/ Survivors \/ Terminate \/ Rewrite
            \/ \E i \in Ids : StopSurvivor(i)
TaskStep(i) == Exit(i) \/ Finalise(i) \/ RecordFinished(i)
ClearStep == \/ DropFinished \/ RemoveDropped \/ ListKept \/ LoadLeftovers
             \/ RemoveLeftovers

Next == \/ SetSessionDir \/ StartStep \/ ReapStep \/ ToolReturns
        \/ \E i \in Ids : TaskStep(i)
        \/ ClearStep \/ Crash

Spec == Init /\ [][Next]_vars

-----------------------------------------------------------------------------
(* Properties.                                                             *)

TypeOK ==
  /\ epoch \in 1..MaxEpochs
  /\ dirKnown \in BOOLEAN
  /\ seq \in 0..MaxTasks
  /\ mem \in [Ids -> {"absent", "running", "finished"}]
  /\ saving \subseteq Ids
  /\ proc \in [Ids -> {"none", "alive", "gone"}]
  /\ born \in [Ids -> 0..MaxEpochs]
  /\ dirs \subseteq Ids
  /\ rec \in [Ids -> {"absent", "running", "finished"}]
  /\ turn \in [pc : {"idle", "tool", "prepare", "launch", "record",
                     "survivors", "reap", "rewrite"},
               id : 0..MaxTasks, live : SUBSET Ids, todo : SUBSET Ids]
  /\ cleaner \in [pc : {"idle", "remove", "list", "load", "removeOld"},
                  live : SUBSET Ids, todo : SUBSET Ids]
  /\ unrecorded \subseteq Ids /\ cleared \subseteq Ids /\ reapedOwn \subseteq Ids

\* A new task never takes over the log and record of an older one, whichever
\* process wrote them and whatever was cleared meanwhile.
IdsAreFresh == [][\A i \in Ids : dirKnown /\ mem[i] = "absent" /\ mem'[i] # "absent"
                     => i \notin dirs]_vars

\* Reaping and stopping by record never touch a task of the process that runs:
\* the pool has its own way to stop those.
ReapSparesOwn == reapedOwn = {}

\* A process group that outlived its coddy is found by the next one: its record
\* still says running.  Beyond this are only the launches a crash caught before
\* their first record, and what the operator cleared.
SurvivorsAreFound == \A i \in Ids :
  proc[i] = "alive" /\ born[i] < epoch =>
    i \in Orphaned \cup unrecorded \cup cleared

\* No record claims an end that has not come.  (A number whose directory was
\* cleared may be given out again by a later process.)
RecordsDoNotLie ==
  \A i \in Ids \ cleared : rec[i] = "finished" => proc[i] # "alive"

\* "Running tasks are left alone."
ClearSparesRunning == \A i \in Ids : mem[i] = "running" => i \notin cleared
=============================================================================
