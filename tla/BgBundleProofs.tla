---------------------------- MODULE BgBundleProofs ---------------------------
(***************************************************************************)
(* What the task records of a bundle keep, for any number of tasks and of  *)
(* restarts, with proofs that TLAPS checks.                                *)
(*                                                                         *)
(* The argument: once a process knows the bundle's directory its counter   *)
(* is past every number in it, so a task that starts owns its directory    *)
(* and record alone; a live process group has a record that says running,  *)
(* or is the launch in flight, or was caught by a crash or cleared; and    *)
(* the tool call that reaps works from a listing that no start can make    *)
(* stale.                                                                  *)
(***************************************************************************)
EXTENDS BgBundle, FiniteSetTheorems, TLAPS

-----------------------------------------------------------------------------
(* The inductive invariant.                                                *)

\* A record lies in a directory.
OnDisk == \A i \in Ids : rec[i] # "absent" => i \in dirs

\* The counter is past every task of the pool, and past every directory of the
\* bundle from the first call that names it on.
Numbered ==
  /\ \A i \in Listed : i <= seq
  /\ dirKnown => \A i \in dirs : i <= seq
  /\ turn.pc # "idle" => dirKnown
  /\ saving \subseteq 1..seq

\* The task that is being started has its number to itself: no supervisor, no
\* record, and a directory once prepared that only the handler may remove; the
\* pool holds it as running.  What an earlier process left under that number was
\* cleared.
Starting ==
  turn.pc \in {"prepare", "launch", "record"} =>
    /\ turn.id \in 1..seq \ saving
    /\ rec[turn.id] = "absent"
    /\ turn.pc # "prepare" => turn.id \in dirs \cup cleared
    /\ turn.pc # "record" => mem[turn.id] = "running"
    /\ turn.pc # "record" \/ born[turn.id] # epoch =>
         (proc[turn.id] = "alive" => turn.id \in cleared)

\* The end that is about to be recorded has come.
Ended ==
  /\ \A i \in saving : proc[i] = "gone"
  /\ turn.pc = "rewrite" => turn.id \in Ids /\ proc[turn.id] = "gone"

\* A crash before the first record leaves the directory.
LeftBehind == unrecorded \subseteq dirs \cup cleared

\* Every live process group can be found, or its launch is under way.
Findable == \A i \in Ids :
  proc[i] = "alive" => \/ i \in Orphaned \cup unrecorded \cup cleared
                       \/ turn.pc = "record" /\ turn.id = i

\* What is going to be reaped is not of this process.
Reaping ==
  /\ turn.pc = "survivors" => Listed \subseteq turn.live
  /\ turn.pc \in {"reap", "rewrite"} => turn.todo \cap Listed = {}
  /\ ReapSparesOwn

Kept == /\ TypeOK /\ OnDisk /\ Numbered /\ Starting /\ Ended /\ LeftBehind
        /\ Findable /\ Reaping /\ RecordsDoNotLie

-----------------------------------------------------------------------------
(* Numbers.                                                                *)

\* A finite set of numbers that is not empty has a largest one.
LEMMA HasMax ==
  ASSUME NEW S, S \in SUBSET Nat, IsFiniteSet(S), S # {}
  PROVE  \E m \in S : \A n \in S : n <= m
<1> DEFINE From(n) == {j \in S : n <= j}
           U == {From(n) : n \in S}
<1>1. IsWellFoundedOn(StrictSubsetOrdering(S), FiniteSubsetsOf(S))
      BY FS_StrictSubsetOrderingWellFounded
<1>2. U \subseteq FiniteSubsetsOf(S) /\ U # {}
  <2>1. \A n \in S : From(n) \in SUBSET S
        OBVIOUS
  <2>2. \A n \in S : IsFiniteSet(From(n))
        BY <2>1, FS_Subset
  <2> HIDE DEF From
  <2> QED BY <2>1, <2>2 DEF FiniteSubsetsOf
<1>3. PICK u \in U : \A v \in U : <<v, u>> \notin StrictSubsetOrdering(S)
  <2> HIDE DEF U
  <2> QED BY <1>1, <1>2, WFMin
<1>4. PICK m \in S : u = From(m)
      OBVIOUS
<1>5. ASSUME NEW n \in S, m < n
      PROVE  FALSE
  <2>1. m \in Nat /\ n \in Nat
        OBVIOUS
  <2>2. \A j \in S : j \in Nat /\ (n <= j => m <= j)
        BY <1>5, <2>1
  <2>3. From(n) \subseteq From(m)
        BY <2>2
  <2>4. m \in From(m) /\ m \notin From(n)
        BY <1>5, <2>1
  <2>5. From(n) \in SUBSET S /\ From(m) \in SUBSET S /\ From(n) \in U
        OBVIOUS
  <2> HIDE DEF From, U
  <2>6. <<From(n), From(m)>> \in StrictSubsetOrdering(S)
        BY <2>3, <2>4, <2>5 DEF StrictSubsetOrdering
  <2> QED BY <1>3, <1>4, <2>5, <2>6
<1> QED BY <1>5

\* The highest number in the bundle is past every directory in it.
LEMMA Highest ==
  ASSUME dirs \subseteq Ids
  PROVE  HighestPersisted \in 0..MaxTasks /\ \A i \in dirs : i <= HighestPersisted
<1>1. MaxTasks \in Nat
      BY BundleAssumption DEF BundleAssumption
<1>2. CASE dirs = {}
      BY <1>1, <1>2 DEF HighestPersisted, MaxOf
<1>3. CASE dirs # {}
  <2>1. IsFiniteSet(dirs) /\ dirs \in SUBSET Nat
    <3>1. IsFiniteSet(1..MaxTasks)
          BY <1>1, FS_Interval
    <3>2. dirs \in SUBSET (1..MaxTasks)
          BY DEF Ids
    <3>3. IsFiniteSet(dirs)
          BY <3>1, <3>2, FS_Subset
    <3>4. dirs \in SUBSET Nat
          BY <3>2
    <3> QED BY <3>3, <3>4
  <2>2. \E m \in dirs : \A n \in dirs : n <= m
        BY <1>3, <2>1, HasMax
  <2>3. HighestPersisted \in dirs /\ \A n \in dirs : n <= HighestPersisted
        BY <1>3, <2>2 DEF HighestPersisted, MaxOf
  <2> QED BY <1>1, <2>3 DEF Ids
<1> QED BY <1>2, <1>3

\* What the assumption says of the bounds.
LEMMA Bounds ==
  /\ MaxTasks \in Nat /\ MaxEpochs \in Nat \ {0}
  /\ Ids \subseteq Nat \ {0} /\ Ids \subseteq 0..MaxTasks
BY BundleAssumption DEF BundleAssumption, Ids

-----------------------------------------------------------------------------
(* The steps of the turn.                                                  *)

\* The first process starts without tasks.
LEMMA KeptInit == Init => Kept
<1> SUFFICES ASSUME Init PROVE Kept
    OBVIOUS
<1>1. turn = IdleTurn /\ cleaner = IdleCleaner
      BY DEF Init
<1>2. TypeOK
  <2>1. 0 \in 0..MaxTasks /\ 0 \in 0..MaxEpochs /\ 1 \in 1..MaxEpochs
        BY Bounds
  <2>2. /\ mem \in [Ids -> {"absent", "running", "finished"}]
        /\ proc \in [Ids -> {"none", "alive", "gone"}]
        /\ rec \in [Ids -> {"absent", "running", "finished"}]
        BY DEF Init
  <2>3. born \in [Ids -> 0..MaxEpochs]
        BY <2>1 DEF Init
  <2>4. turn \in [pc : {"idle", "tool", "prepare", "launch", "record",
                       "survivors", "reap", "rewrite"},
                 id : 0..MaxTasks, live : SUBSET Ids, todo : SUBSET Ids]
        BY <1>1, <2>1 DEF IdleTurn
  <2>5. cleaner \in [pc : {"idle", "remove", "list", "load", "removeOld"},
                    live : SUBSET Ids, todo : SUBSET Ids]
        BY <1>1 DEF IdleCleaner
  <2>6. epoch \in 1..MaxEpochs /\ seq \in 0..MaxTasks
        BY <2>1 DEF Init
  <2>7. dirKnown \in BOOLEAN /\ saving \subseteq Ids /\ dirs \subseteq Ids
        /\ unrecorded \subseteq Ids /\ cleared \subseteq Ids /\ reapedOwn \subseteq Ids
        BY DEF Init
  <2> QED BY <2>2, <2>3, <2>4, <2>5, <2>6, <2>7 DEF TypeOK
<1>3. /\ OnDisk /\ Numbered /\ Starting /\ Ended /\ LeftBehind
      /\ Findable /\ Reaping /\ RecordsDoNotLie
      BY <1>1 DEF Init, IdleTurn, OnDisk, Numbered, Starting, Ended, LeftBehind,
         Findable, Reaping, RecordsDoNotLie, ReapSparesOwn, Listed
<1> QED BY <1>2, <1>3 DEF Kept

\* Naming the bundle puts the counter past it.
LEMMA DirKept == Kept /\ SetSessionDir => Kept'
<1> SUFFICES ASSUME Kept, SetSessionDir PROVE Kept'
    OBVIOUS
<1> USE DEF Kept, SetSessionDir, diskVars, ghostVars
<1>1. seq' \in 0..MaxTasks /\ seq <= seq' /\ \A i \in dirs : i <= seq'
  <2>1. /\ HighestPersisted \in 0..MaxTasks
        /\ \A i \in dirs : i \in Nat /\ i <= HighestPersisted
        BY Highest, Bounds DEF TypeOK
  <2>2. seq \in 0..MaxTasks
        BY DEF TypeOK
  <2> HIDE DEF Kept
  <2> QED BY <2>1, <2>2, Bounds
<1>2. /\ turn' = [turn EXCEPT !.pc = "tool"] /\ turn.pc = "idle"
      /\ UNCHANGED <<epoch, mem, saving, proc, born, dirs, rec, cleaner, unrecorded,
                     cleared, reapedOwn>>
      OBVIOUS
<1>3. TypeOK'
      BY <1>1, <1>2 DEF TypeOK
<1>4. Numbered'
      BY <1>1, <1>2, Bounds DEF Numbered, TypeOK, Listed
<1>5. turn'.pc = "tool"
      BY <1>2 DEF TypeOK
<1>6. /\ OnDisk' /\ Starting' /\ Ended' /\ LeftBehind'
      /\ Findable' /\ Reaping' /\ RecordsDoNotLie'
      BY <1>2, <1>5 DEF OnDisk, Starting, Ended, LeftBehind, Findable, Orphaned, Recorded,
         Reaping, RecordsDoNotLie, ReapSparesOwn
<1> QED BY <1>3, <1>4, <1>6

\* A task that starts takes the next number, which nothing on disk has.
LEMMA StartKept == Kept /\ Start => Kept'
<1> SUFFICES ASSUME Kept, Start PROVE Kept'
    OBVIOUS
<1> DEFINE i == seq + 1
<1> USE DEF Kept, diskVars, ghostVars
<1>1. /\ turn.pc = "tool" /\ i \in Ids /\ i \in Nat /\ seq' = i /\ seq \in Nat
      /\ mem' = [mem EXCEPT ![i] = "running"]
      /\ turn' = [turn EXCEPT !.pc = "prepare", !.id = i]
      /\ UNCHANGED <<epoch, dirKnown, saving, proc, born, dirs, rec, cleaner, unrecorded,
                     cleared, reapedOwn>>
      BY Bounds DEF Start, TypeOK
<1>2. dirKnown /\ i \notin dirs /\ i \notin saving /\ i \notin Listed
      BY <1>1, Bounds DEF Numbered, TypeOK
<1> HIDE DEF i
<1>3. turn'.pc = "prepare" /\ turn'.id = i /\ \A j \in Ids \ {i} : mem'[j] = mem[j]
      BY <1>1 DEF TypeOK
<1>4. TypeOK'
      BY <1>1, Bounds DEF TypeOK
<1>5. Numbered'
  <2>1. \A j \in Listed' : j <= seq'
        BY <1>1, <1>3, Bounds DEF Numbered, Listed, i
  <2>2. \A j \in dirs : j <= i
        BY <1>1, <1>2, Bounds DEF Numbered, TypeOK, i
  <2>3. saving \subseteq 1..i
        BY <1>1 DEF Numbered, i
  <2> QED BY <1>1, <1>2, <2>1, <2>2, <2>3 DEF Numbered
<1>6. rec[i] = "absent" /\ (proc[i] = "alive" => i \in cleared)
      BY <1>1, <1>2, Bounds DEF OnDisk, Findable, Orphaned, Recorded, LeftBehind, TypeOK
<1>7. Starting'
  <2>1. mem'[i] = "running"
        BY <1>1 DEF TypeOK
  <2> QED BY <1>1, <1>2, <1>3, <1>6, <2>1, Bounds DEF Starting
<1>8. OnDisk' /\ Ended' /\ LeftBehind' /\ Findable' /\ Reaping' /\ RecordsDoNotLie'
      BY <1>1, <1>3 DEF OnDisk, Ended, LeftBehind, Findable, Orphaned, Recorded, Reaping,
         ReapSparesOwn, RecordsDoNotLie
<1> QED BY <1>4, <1>5, <1>7, <1>8

\* The directory of the new task is its own.
LEMMA PrepareKept == Kept /\ PrepareDir => Kept'
<1> SUFFICES ASSUME Kept, PrepareDir PROVE Kept'
    OBVIOUS
<1> USE DEF Kept, memVars, ghostVars
<1>1. /\ turn.pc = "prepare" /\ turn.id \in 1..seq \ saving /\ turn.id \in Ids
      /\ dirs' = dirs \cup {turn.id} /\ turn' = [turn EXCEPT !.pc = "launch"]
      /\ UNCHANGED <<epoch, dirKnown, seq, mem, saving, proc, born, rec, cleaner,
                     unrecorded, cleared, reapedOwn>>
      BY Bounds DEF PrepareDir, Starting, TypeOK, Ids
<1>2. turn'.pc = "launch" /\ turn'.id = turn.id
      BY <1>1 DEF TypeOK
<1>3. TypeOK'
      BY <1>1 DEF TypeOK
<1>4. Numbered' /\ Starting'
      BY <1>1, <1>2 DEF Numbered, Starting, Listed
<1>5. OnDisk' /\ Ended' /\ LeftBehind' /\ Findable' /\ Reaping' /\ RecordsDoNotLie'
      BY <1>1, <1>2 DEF OnDisk, Ended, LeftBehind, Findable, Orphaned, Recorded, Reaping,
         ReapSparesOwn, RecordsDoNotLie
<1> QED BY <1>3, <1>4, <1>5

\* A launch, or one that failed, changes nothing of another task.
LEMMA LaunchKept == Kept /\ (Launch \/ LaunchFails) => Kept'
<1> SUFFICES ASSUME Kept, Launch \/ LaunchFails PROVE Kept'
    OBVIOUS
<1> DEFINE i == turn.id
<1> USE DEF Kept, memVars, diskVars, ghostVars
<1>1. /\ turn.pc = "launch" /\ i \in 1..seq \ saving /\ i \in Ids
      /\ turn' = [turn EXCEPT !.pc = "record"]
      /\ UNCHANGED <<epoch, dirKnown, seq, saving, dirs, rec, cleaner, unrecorded,
                     cleared, reapedOwn>>
      BY Bounds DEF Launch, LaunchFails, Starting, TypeOK, Ids
<1>2. turn'.pc = "record" /\ turn'.id = i
      BY <1>1 DEF TypeOK
<1> HIDE DEF i
<1>3. CASE Launch
  <2>1. /\ proc' = [proc EXCEPT ![i] = "alive"] /\ born' = [born EXCEPT ![i] = epoch]
        /\ mem' = mem
        BY <1>3 DEF Launch, i
  <2>2. TypeOK'
        BY <1>1, <2>1, Bounds DEF TypeOK
  <2>3. /\ born'[i] = epoch' /\ proc'[i] = "alive"
        /\ \A j \in Ids \ {i} : proc'[j] = proc[j]
        BY <1>1, <2>1 DEF TypeOK
  <2>4. Numbered' /\ Starting'
        BY <1>1, <1>2, <2>1, <2>3 DEF Numbered, Starting, Listed, i
  <2>5. Ended' /\ LeftBehind' /\ Reaping' /\ OnDisk'
        BY <1>1, <1>2, <2>1, <2>3
        DEF Ended, LeftBehind, Reaping, ReapSparesOwn, OnDisk, TypeOK
  <2>6. Findable' /\ RecordsDoNotLie'
        BY <1>1, <1>2, <2>3 DEF Findable, Orphaned, Recorded, RecordsDoNotLie, Starting, i
  <2> QED BY <2>2, <2>4, <2>5, <2>6
<1>4. CASE LaunchFails
  <2>1. mem' = [mem EXCEPT ![i] = "finished"] /\ UNCHANGED <<proc, born>>
        BY <1>4 DEF LaunchFails, i
  <2>2. TypeOK'
        BY <1>1, <2>1 DEF TypeOK
  <2>3. Listed' \subseteq Listed \cup {i} /\ i <= seq
        BY <1>1, <2>1 DEF TypeOK, Listed
  <2>4. Numbered' /\ Starting'
        BY <1>1, <1>2, <2>1, <2>3 DEF Numbered, Starting, i
  <2>5. OnDisk' /\ Ended' /\ LeftBehind' /\ Findable' /\ Reaping' /\ RecordsDoNotLie'
        BY <1>1, <1>2, <2>1 DEF OnDisk, Ended, LeftBehind, Findable, Orphaned, Recorded,
           Reaping, ReapSparesOwn, RecordsDoNotLie
  <2> QED BY <2>2, <2>4, <2>5
<1> QED BY <1>3, <1>4

\* What a record of one task changes.
LEMMA Written ==
  ASSUME TypeOK, OnDisk, NEW i \in Ids, NEW status \in {"running", "finished"},
         Write(i, status)
  PROVE  /\ rec' \in [Ids -> {"absent", "running", "finished"}]
         /\ \A j \in Ids \ {i} : rec'[j] = rec[j]
         /\ rec'[i] = IF i \in dirs THEN status ELSE "absent"
BY DEF TypeOK, OnDisk, Write

\* The first record of a task says what became of its launch.
LEMMA RecordKept == Kept /\ RecordStarted => Kept'
<1> SUFFICES ASSUME Kept, RecordStarted PROVE Kept'
    OBVIOUS
<1> DEFINE i == turn.id
           status == IF born[i] = epoch THEN "running" ELSE "finished"
<1> USE DEF Kept, memVars, ghostVars
<1>1. /\ turn.pc = "record" /\ i \in 1..seq \ saving /\ i \in Ids
      /\ turn' = IdleTurn /\ Write(i, status)
      /\ UNCHANGED <<epoch, dirKnown, seq, mem, saving, proc, born, dirs, cleaner,
                     unrecorded, cleared, reapedOwn>>
      BY Bounds DEF RecordStarted, Starting, TypeOK, Ids
<1>2. /\ rec' \in [Ids -> {"absent", "running", "finished"}]
      /\ \A j \in Ids \ {i} : rec'[j] = rec[j]
      /\ rec'[i] = IF i \in dirs THEN status ELSE "absent"
  <2> HIDE DEF Kept, i
  <2>1. TypeOK /\ OnDisk
        BY DEF Kept
  <2> QED BY <1>1, <2>1, Written
<1>3. turn'.pc = "idle"
      BY <1>1 DEF IdleTurn
<1>4. TypeOK'
      BY <1>1, <1>2, Bounds DEF TypeOK, IdleTurn
<1>5. Numbered' /\ Starting' /\ Ended' /\ LeftBehind' /\ Reaping' /\ OnDisk'
      BY <1>1, <1>2, <1>3 DEF Numbered, Starting, Ended, LeftBehind, Reaping, ReapSparesOwn,
         OnDisk, Listed
<1>6. Findable'
      BY <1>1, <1>2, <1>3 DEF Findable, Starting, Orphaned, Recorded
<1>7. RecordsDoNotLie'
      BY <1>1, <1>2 DEF RecordsDoNotLie, Starting
<1> QED BY <1>4, <1>5, <1>6, <1>7

\* A tool call that lists, picks what to reap or returns looks and writes nothing.
LEMMA LooksKept ==
  ASSUME Kept, \/ ListLive \/ Survivors \/ ToolReturns
               \/ \E i \in Ids : StopSurvivor(i)
  PROVE  Kept'
<1> USE DEF Kept, memVars, diskVars, ghostVars
<1>1. /\ turn.pc \notin {"idle", "record"}
      /\ UNCHANGED <<epoch, dirKnown, seq, mem, saving, proc, born, dirs, rec, cleaner,
                     unrecorded, cleared, reapedOwn>>
      BY DEF ListLive, Survivors, ToolReturns, StopSurvivor
<1>2. /\ turn' \in [pc : {"idle", "tool", "prepare", "launch", "record",
                          "survivors", "reap", "rewrite"},
                    id : 0..MaxTasks, live : SUBSET Ids, todo : SUBSET Ids]
      /\ turn'.pc \in {"survivors", "reap", "idle"}
      /\ turn'.pc = "survivors" => turn'.live = Listed
      /\ turn'.pc = "reap" => turn'.todo \cap Listed = {}
  <2>1. CASE ListLive
        BY <2>1 DEF ListLive, TypeOK, Listed
  <2>2. CASE Survivors
    <3> DEFINE found == {i \in Orphaned \ turn.live : proc[i] = "alive"}
    <3>1. found \in SUBSET Ids
          BY DEF Orphaned, Recorded, TypeOK
    <3>2. found \cap Listed = {}
          BY <2>2 DEF Survivors, Reaping
    <3>3. turn' = [turn EXCEPT !.pc = "reap", !.todo = found]
          BY <2>2 DEF Survivors
    <3> HIDE DEF found
    <3> QED BY <3>1, <3>2, <3>3 DEF TypeOK
  <2>3. CASE ToolReturns
        BY <2>3, Bounds DEF ToolReturns, IdleTurn
  <2>4. CASE \E i \in Ids : StopSurvivor(i)
    <3>1. PICK i \in Ids : StopSurvivor(i)
          BY <2>4
    <3>2. i \notin Listed /\ turn' = [turn EXCEPT !.pc = "reap", !.todo = {i}]
          BY <3>1 DEF StopSurvivor
    <3>3. {i} \in SUBSET Ids /\ {i} \cap Listed = {}
          BY <3>2
    <3> QED BY <3>2, <3>3 DEF TypeOK
  <2> QED BY <2>1, <2>2, <2>3, <2>4
<1>3. TypeOK'
      BY <1>1, <1>2 DEF TypeOK
<1>4. Numbered' /\ Starting' /\ Ended' /\ LeftBehind' /\ OnDisk' /\ RecordsDoNotLie'
      BY <1>1, <1>2 DEF Numbered, Starting, Ended, LeftBehind, OnDisk, RecordsDoNotLie,
         Listed
<1>5. Findable'
      BY <1>1, <1>2 DEF Findable, Orphaned, Recorded
<1>6. Reaping'
      BY <1>1, <1>2 DEF Reaping, ReapSparesOwn, Listed
<1> QED BY <1>3, <1>4, <1>5, <1>6

\* What is terminated is of no task that the pool holds.
LEMMA TerminateKept == Kept /\ Terminate => Kept'
<1> SUFFICES ASSUME Kept, Terminate PROVE Kept'
    OBVIOUS
<1> USE DEF Kept, memVars, diskVars, ghostVars
<1>1. PICK i \in turn.todo :
        /\ proc' = [proc EXCEPT ![i] = "gone"]
        /\ reapedOwn' = IF mem[i] # "absent" THEN reapedOwn \cup {i} ELSE reapedOwn
        /\ turn' = [turn EXCEPT !.pc = "rewrite", !.id = i, !.todo = @ \ {i}]
      BY DEF Terminate
<1>2. /\ turn.pc = "reap" /\ i \in Ids /\ i \notin Listed
      /\ UNCHANGED <<epoch, dirKnown, seq, mem, saving, born, dirs, rec, cleaner,
                     unrecorded, cleared>>
      BY DEF Terminate, Reaping, TypeOK
<1>3. reapedOwn' = reapedOwn
      BY <1>1, <1>2 DEF Listed
<1>4. turn'.pc = "rewrite" /\ turn'.id = i /\ turn'.todo = turn.todo \ {i}
      BY <1>1 DEF TypeOK
<1>5. proc'[i] = "gone" /\ \A j \in Ids \ {i} : proc'[j] = proc[j]
      BY <1>1, <1>2 DEF TypeOK
<1>6. TypeOK'
      BY <1>1, <1>2, <1>3, Bounds DEF TypeOK
<1>7. Numbered' /\ Starting' /\ Ended' /\ LeftBehind' /\ OnDisk' /\ RecordsDoNotLie'
      BY <1>2, <1>4, <1>5 DEF Numbered, Starting, Ended, LeftBehind, OnDisk,
         RecordsDoNotLie, Listed, TypeOK
<1>8. Findable' /\ Reaping'
      BY <1>2, <1>3, <1>4, <1>5 DEF Findable, Orphaned, Recorded, Reaping, ReapSparesOwn,
         Listed
<1> QED BY <1>6, <1>7, <1>8

\* The record of what was terminated is rewritten.
LEMMA RewriteKept == Kept /\ Rewrite => Kept'
<1> SUFFICES ASSUME Kept, Rewrite PROVE Kept'
    OBVIOUS
<1> DEFINE i == turn.id
<1> USE DEF Kept, memVars, ghostVars
<1>1. /\ turn.pc = "rewrite" /\ i \in Ids /\ proc[i] = "gone"
      /\ turn' = [turn EXCEPT !.pc = "reap"] /\ Write(i, "finished")
      /\ UNCHANGED <<epoch, dirKnown, seq, mem, saving, proc, born, dirs, cleaner,
                     unrecorded, cleared, reapedOwn>>
      BY DEF Rewrite, Ended
<1>2. /\ rec' \in [Ids -> {"absent", "running", "finished"}]
      /\ \A j \in Ids \ {i} : rec'[j] = rec[j]
      /\ rec'[i] = IF i \in dirs THEN "finished" ELSE "absent"
  <2> HIDE DEF Kept, i
  <2>1. TypeOK /\ OnDisk
        BY DEF Kept
  <2> QED BY <1>1, <2>1, Written
<1>3. turn'.pc = "reap" /\ turn'.todo = turn.todo
      BY <1>1 DEF TypeOK
<1>4. TypeOK'
      BY <1>1, <1>2 DEF TypeOK
<1>5. Numbered' /\ Starting' /\ Ended' /\ LeftBehind' /\ Reaping' /\ OnDisk'
      BY <1>1, <1>2, <1>3 DEF Numbered, Starting, Ended, LeftBehind, Reaping, ReapSparesOwn,
         OnDisk, Listed
<1>6. Findable' /\ RecordsDoNotLie'
      BY <1>1, <1>2, <1>3 DEF Findable, Orphaned, Recorded, RecordsDoNotLie
<1> QED BY <1>4, <1>5, <1>6

-----------------------------------------------------------------------------
(* The steps of the tasks, of the handler and of a crash.                  *)

\* A task ends and its end is recorded after it has come.
LEMMA TaskKept ==
  ASSUME Kept, NEW i \in Ids, TaskStep(i)
  PROVE  Kept'
<1> USE DEF Kept, memVars, diskVars, ghostVars
<1>1. CASE Exit(i)
  <2>1. /\ proc'[i] = "gone" /\ \A j \in Ids \ {i} : proc'[j] = proc[j]
        /\ UNCHANGED <<epoch, dirKnown, seq, mem, saving, born, dirs, rec, turn, cleaner,
                       unrecorded, cleared, reapedOwn>>
        BY <1>1 DEF Exit, TypeOK
  <2>2. TypeOK'
        BY <1>1 DEF Exit, TypeOK
  <2>3. Numbered' /\ LeftBehind' /\ OnDisk' /\ RecordsDoNotLie'
        BY <2>1 DEF Numbered, LeftBehind, OnDisk, RecordsDoNotLie, Listed
  <2>4. Starting' /\ Ended'
        BY <2>1, Bounds DEF Starting, Ended, TypeOK, Ids
  <2>5. Findable' /\ Reaping'
        BY <2>1 DEF Findable, Orphaned, Recorded, Reaping, ReapSparesOwn, Listed
  <2> QED BY <2>2, <2>3, <2>4, <2>5
<1>2. CASE Finalise(i)
  <2>1. /\ mem[i] = "running" /\ proc[i] = "gone" /\ Supervised(i)
        /\ mem' = [mem EXCEPT ![i] = "finished"] /\ saving' = saving \cup {i}
        /\ UNCHANGED <<epoch, dirKnown, seq, proc, born, dirs, rec, turn, cleaner,
                       unrecorded, cleared, reapedOwn>>
        BY <1>2 DEF Finalise
  <2>2. Listed' = Listed /\ i \in Listed
        BY <2>1 DEF Listed, TypeOK
  <2>3. TypeOK'
        BY <2>1 DEF TypeOK
  <2>4. Numbered'
        BY <2>1, <2>2, Bounds DEF Numbered, TypeOK
  <2>5. Starting'
        BY <2>1 DEF Starting, Supervised
  <2>6. Ended' /\ LeftBehind' /\ OnDisk' /\ RecordsDoNotLie' /\ Findable' /\ Reaping'
        BY <2>1, <2>2 DEF Ended, LeftBehind, OnDisk, RecordsDoNotLie, Findable, Orphaned,
           Recorded, Reaping, ReapSparesOwn
  <2> QED BY <2>3, <2>4, <2>5, <2>6
<1>3. CASE RecordFinished(i)
  <2>1. /\ i \in saving /\ saving' = saving \ {i} /\ Write(i, "finished")
        /\ UNCHANGED <<epoch, dirKnown, seq, mem, proc, born, dirs, turn, cleaner,
                       unrecorded, cleared, reapedOwn>>
        BY <1>3 DEF RecordFinished
  <2>2. /\ rec' \in [Ids -> {"absent", "running", "finished"}]
        /\ \A j \in Ids \ {i} : rec'[j] = rec[j]
        /\ rec'[i] = IF i \in dirs THEN "finished" ELSE "absent"
    <3> HIDE DEF Kept
    <3>1. TypeOK /\ OnDisk
          BY DEF Kept
    <3> QED BY <2>1, <3>1, Written
  <2>3. TypeOK'
        BY <2>1, <2>2 DEF TypeOK
  <2>4. Numbered' /\ Ended' /\ LeftBehind' /\ OnDisk' /\ Reaping'
        BY <2>1, <2>2 DEF Numbered, Ended, LeftBehind, OnDisk, Reaping, ReapSparesOwn,
           Listed
  <2>5. Starting'
        BY <2>1, <2>2, Bounds DEF Starting, TypeOK, Ids
  <2>6. Findable' /\ RecordsDoNotLie'
        BY <2>1, <2>2 DEF Findable, Orphaned, Recorded, RecordsDoNotLie, Ended
  <2> QED BY <2>3, <2>4, <2>5, <2>6
<1> QED BY <1>1, <1>2, <1>3 DEF TaskStep

\* What the handler drops from the pool it forgets and looks at no turn.
LEMMA DropKept == Kept /\ DropFinished => Kept'
<1> SUFFICES ASSUME Kept, DropFinished PROVE Kept'
    OBVIOUS
<1> DEFINE gone == {i \in Ids : mem[i] = "finished"}
<1> USE DEF Kept, diskVars, ghostVars
<1>1. /\ dirKnown' = TRUE
      /\ seq' = IF HighestPersisted > seq THEN HighestPersisted ELSE seq
      /\ mem' = [i \in Ids |-> IF i \in gone THEN "absent" ELSE mem[i]]
      /\ cleaner' = [cleaner EXCEPT !.pc = "remove", !.todo = gone]
      /\ UNCHANGED <<epoch, saving, proc, born, dirs, rec, turn, unrecorded, cleared,
                     reapedOwn>>
      BY DEF DropFinished
<1>2. seq' \in 0..MaxTasks /\ seq <= seq' /\ \A i \in dirs : i <= seq'
  <2>1. /\ HighestPersisted \in 0..MaxTasks
        /\ \A i \in dirs : i \in Nat /\ i <= HighestPersisted
        BY Highest, Bounds DEF TypeOK
  <2>2. seq \in 0..MaxTasks
        BY DEF TypeOK
  <2> HIDE DEF Kept
  <2> QED BY <1>1, <2>1, <2>2, Bounds
<1>3. gone \in SUBSET Ids
      OBVIOUS
<1> HIDE DEF gone
<1>4. TypeOK'
      BY <1>1, <1>2, <1>3 DEF TypeOK
<1>5. Listed' \subseteq Listed
      BY <1>1 DEF Listed
<1>6. Numbered' /\ Starting'
  <2>1. seq \in Nat /\ seq' \in Nat
        BY <1>2, Bounds DEF TypeOK
  <2>2. \A i \in Listed' : i <= seq'
        BY <1>2, <1>5, <2>1, Bounds DEF Numbered, Listed
  <2>3. 1..seq \subseteq 1..seq'
        BY <1>2, <2>1
  <2>4. Numbered'
        BY <1>1, <1>2, <2>2, <2>3 DEF Numbered
  <2>5. \A i \in Ids : mem[i] = "running" => mem'[i] = "running"
        BY <1>1 DEF gone
  <2>6. 1..seq \subseteq Ids
        BY <2>1, Bounds DEF TypeOK, Ids
  <2>7. Starting'
        BY <1>1, <2>3, <2>5, <2>6 DEF Starting
  <2> QED BY <2>4, <2>7
<1>7. Ended' /\ LeftBehind' /\ OnDisk' /\ RecordsDoNotLie'
      BY <1>1 DEF Ended, LeftBehind, OnDisk, RecordsDoNotLie
<1>8. Findable' /\ Reaping'
      BY <1>1, <1>5 DEF Findable, Orphaned, Recorded, Reaping, ReapSparesOwn
<1> QED BY <1>4, <1>6, <1>7, <1>8

\* What the handler removes from the bundle counts as cleared.
LEMMA RemoveKept == Kept /\ (RemoveDropped \/ RemoveLeftovers) => Kept'
<1> SUFFICES ASSUME Kept, RemoveDropped \/ RemoveLeftovers PROVE Kept'
    OBVIOUS
<1> DEFINE gone == cleaner.todo
<1> USE DEF Kept, memVars
<1>1. /\ gone \in SUBSET Ids /\ dirs' = dirs \ gone /\ cleared' = cleared \cup gone
      /\ rec' = [i \in Ids |-> IF i \in gone THEN "absent" ELSE rec[i]]
      /\ UNCHANGED <<epoch, dirKnown, seq, mem, saving, proc, born, turn, unrecorded,
                     reapedOwn>>
      BY DEF RemoveDropped, RemoveLeftovers, Remove, TypeOK
<1>2. cleaner' \in [pc : {"idle", "remove", "list", "load", "removeOld"},
                    live : SUBSET Ids, todo : SUBSET Ids]
  <2>1. CASE RemoveDropped
        BY <2>1 DEF RemoveDropped, TypeOK
  <2>2. CASE RemoveLeftovers
        BY <2>2 DEF RemoveLeftovers, IdleCleaner
  <2> QED BY <2>1, <2>2
<1> HIDE DEF gone
<1>3. TypeOK'
      BY <1>1, <1>2 DEF TypeOK
<1>4. \A i \in Ids : rec'[i] = IF i \in gone THEN "absent" ELSE rec[i]
      BY <1>1
<1>5. Numbered' /\ Ended' /\ LeftBehind' /\ OnDisk' /\ Reaping'
      BY <1>1, <1>4 DEF Numbered, Ended, LeftBehind, OnDisk, Reaping, ReapSparesOwn, Listed
<1>6. Starting'
  <2>1. 1..seq \subseteq Ids
        BY Bounds DEF TypeOK, Ids
  <2> QED BY <1>1, <1>4, <2>1 DEF Starting
<1>7. Findable' /\ RecordsDoNotLie'
      BY <1>1, <1>4 DEF Findable, Orphaned, Recorded, RecordsDoNotLie
<1> QED BY <1>3, <1>5, <1>6, <1>7

\* Where the handler only looks, nothing else has changed.
LEMMA HandlerLooksKept == Kept /\ (ListKept \/ LoadLeftovers) => Kept'
<1> SUFFICES ASSUME Kept, ListKept \/ LoadLeftovers PROVE Kept'
    OBVIOUS
<1> USE DEF Kept, memVars, diskVars, ghostVars
<1>1. UNCHANGED <<epoch, dirKnown, seq, mem, saving, proc, born, dirs, rec, turn,
                  unrecorded, cleared, reapedOwn>>
      BY DEF ListKept, LoadLeftovers
<1>2. cleaner' \in [pc : {"idle", "remove", "list", "load", "removeOld"},
                    live : SUBSET Ids, todo : SUBSET Ids]
  <2>1. Listed \in SUBSET Ids /\ (Recorded \ cleaner.live) \in SUBSET Ids
        BY DEF Listed, Recorded, TypeOK
  <2>2. CASE ListKept
        BY <2>1, <2>2 DEF ListKept, TypeOK
  <2>3. CASE LoadLeftovers
        BY <2>1, <2>3 DEF LoadLeftovers, TypeOK
  <2> QED BY <2>2, <2>3
<1>3. TypeOK'
      BY <1>1, <1>2 DEF TypeOK
<1>4. /\ OnDisk' /\ Numbered' /\ Starting' /\ Ended' /\ LeftBehind'
      /\ Findable' /\ Reaping' /\ RecordsDoNotLie'
      BY <1>1 DEF OnDisk, Numbered, Starting, Ended, LeftBehind, Findable, Orphaned,
         Recorded, Reaping, ReapSparesOwn, RecordsDoNotLie, Listed
<1> QED BY <1>3, <1>4

\* A crash leaves the bundle and the process groups, and the next process knows
\* nothing of them yet.
LEMMA CrashKept == Kept /\ Crash => Kept'
<1> SUFFICES ASSUME Kept, Crash PROVE Kept'
    OBVIOUS
<1> USE DEF Kept, diskVars
<1>1. /\ epoch' = epoch + 1 /\ epoch < MaxEpochs /\ dirKnown' = FALSE /\ seq' = 0
      /\ mem' = [i \in Ids |-> "absent"] /\ saving' = {}
      /\ unrecorded' = IF turn.pc = "record" THEN unrecorded \cup {turn.id}
                       ELSE unrecorded
      /\ turn' = IdleTurn /\ cleaner' = IdleCleaner
      /\ UNCHANGED <<proc, born, dirs, rec, cleared, reapedOwn>>
      BY DEF Crash
<1>2. turn.pc = "record" => turn.id \in Ids /\ turn.id \in dirs \cup cleared
      BY Bounds DEF Starting, TypeOK, Ids
<1>3. turn'.pc = "idle"
      BY <1>1 DEF IdleTurn
<1>4. TypeOK'
  <2>1. epoch' \in 1..MaxEpochs /\ seq' \in 0..MaxTasks /\ 0 \in 0..MaxTasks
        BY <1>1, Bounds DEF TypeOK
  <2>2. /\ turn' \in [pc : {"idle", "tool", "prepare", "launch", "record",
                            "survivors", "reap", "rewrite"},
                      id : 0..MaxTasks, live : SUBSET Ids, todo : SUBSET Ids]
        /\ cleaner' \in [pc : {"idle", "remove", "list", "load", "removeOld"},
                         live : SUBSET Ids, todo : SUBSET Ids]
        BY <1>1, <2>1 DEF IdleTurn, IdleCleaner
  <2>3. unrecorded' \subseteq Ids
        BY <1>1, <1>2 DEF TypeOK
  <2> QED BY <1>1, <2>1, <2>2, <2>3 DEF TypeOK
<1>5. Listed' = {}
      BY <1>1 DEF Listed
<1>6. Numbered' /\ Starting' /\ Ended' /\ OnDisk' /\ RecordsDoNotLie'
      BY <1>1, <1>3, <1>5 DEF Numbered, Starting, Ended, OnDisk, RecordsDoNotLie
<1>7. LeftBehind' /\ Findable' /\ Reaping'
      BY <1>1, <1>2, <1>3 DEF LeftBehind, Findable, Orphaned, Recorded, Reaping,
         ReapSparesOwn
<1> QED BY <1>4, <1>6, <1>7

\* Every step keeps the invariant.
LEMMA KeptNext == Kept /\ [Next]_vars => Kept'
<1> SUFFICES ASSUME Kept, [Next]_vars PROVE Kept'
    OBVIOUS
<1>1. CASE SetSessionDir \/ StartStep
      BY <1>1, DirKept, StartKept, PrepareKept, LaunchKept, RecordKept DEF StartStep
<1>2. CASE ReapStep \/ ToolReturns
      BY <1>2, LooksKept, TerminateKept, RewriteKept DEF ReapStep
<1>3. CASE \E i \in Ids : TaskStep(i)
      BY <1>3, TaskKept
<1>4. CASE ClearStep \/ Crash
      BY <1>4, DropKept, RemoveKept, HandlerLooksKept, CrashKept DEF ClearStep
<1>5. CASE UNCHANGED vars
      BY <1>5 DEF vars, memVars, diskVars, ghostVars, Kept, TypeOK, OnDisk, Numbered,
         Starting, Ended, LeftBehind, Findable, Orphaned, Recorded, Reaping,
         ReapSparesOwn, RecordsDoNotLie, Listed
<1> QED BY <1>1, <1>2, <1>3, <1>4, <1>5 DEF Next

-----------------------------------------------------------------------------
(* What the bundle keeps.                                                  *)

\* The inductive invariant of a bundle.
THEOREM BundleKept == Spec => []Kept
BY KeptInit, KeptNext, PTL DEF Spec

\* The type invariant: numbers, records and the ids tool calls work on.
THEOREM TypeCorrect == Spec => []TypeOK
<1>1. Kept => TypeOK
      BY DEF Kept
<1> QED BY <1>1, BundleKept, PTL

\* Reaping and stopping by record never touch a task of the process that runs.
THEOREM OwnTasksAreSpared == Spec => []ReapSparesOwn
<1>1. Kept => ReapSparesOwn
      BY DEF Kept, Reaping
<1> QED BY <1>1, BundleKept, PTL

\* A process group that outlived its coddy still has a record that says running,
\* unless a crash caught its launch unrecorded or the operator cleared it, after
\* any number of restarts.
THEOREM NoSurvivorIsLost == Spec => []SurvivorsAreFound
<1>1. Kept => SurvivorsAreFound
  <2> SUFFICES ASSUME Kept, NEW i \in Ids, proc[i] = "alive", born[i] < epoch
               PROVE  i \in Orphaned \cup unrecorded \cup cleared
      BY DEF SurvivorsAreFound
  <2>1. CASE turn.pc = "record" /\ turn.id = i
    <3>1. epoch \in Nat /\ born[i] \in Nat
          BY Bounds DEF Kept, TypeOK
    <3>2. born[turn.id] # epoch
          BY <2>1, <3>1
    <3> QED BY <2>1, <3>2 DEF Kept, Starting
  <2> QED BY <2>1 DEF Kept, Findable
<1> QED BY <1>1, BundleKept, PTL

\* No record claims an end that has not come.
THEOREM RecordsTellTheTruth == Spec => []RecordsDoNotLie
<1>1. Kept => RecordsDoNotLie
      BY DEF Kept
<1> QED BY <1>1, BundleKept, PTL

\* A new task never takes over the log and record of an older one.
THEOREM NumbersAreNotReused == Spec => IdsAreFresh
<1> DEFINE Fresh == \A i \in Ids : dirKnown /\ mem[i] = "absent" /\ mem'[i] # "absent"
                                     => i \notin dirs
<1>1. Kept /\ [Next]_vars => [Fresh]_vars
  <2> SUFFICES ASSUME Kept, Next,
                      NEW i \in Ids, dirKnown, mem[i] = "absent", mem'[i] # "absent"
               PROVE  i \notin dirs
      OBVIOUS
  <2>1. mem \in [Ids -> {"absent", "running", "finished"}] /\ seq \in Nat
        BY Bounds DEF Kept, TypeOK
  <2>2. CASE Start
    <3>1. i = seq + 1
          BY <2>1, <2>2 DEF Start
    <3>2. \A j \in dirs : j <= seq
          BY DEF Kept, Numbered
    <3> QED BY <2>1, <3>1, <3>2
  <2>3. CASE LaunchFails
    <3>1. i = turn.id /\ turn.pc = "launch"
          BY <2>1, <2>3 DEF LaunchFails
    <3> QED BY <3>1 DEF Kept, Starting
  <2>4. ASSUME NEW j \in Ids, Finalise(j)
        PROVE  FALSE
        BY <2>1, <2>4 DEF Finalise
  <2>5. Start \/ LaunchFails \/ \E j \in Ids : Finalise(j)
        BY <2>1 DEF Next, SetSessionDir, StartStep, PrepareDir, Launch, RecordStarted,
           ReapStep, ListLive, Survivors, Terminate, Rewrite, StopSurvivor, ToolReturns,
           TaskStep, Exit, RecordFinished, ClearStep, DropFinished, RemoveDropped,
           ListKept, LoadLeftovers, RemoveLeftovers, Crash, memVars
  <2> QED BY <2>2, <2>3, <2>4, <2>5
<1> QED BY <1>1, BundleKept, PTL DEF Spec, IdsAreFresh
=============================================================================
