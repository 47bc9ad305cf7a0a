------------------------- MODULE SessionTurnsProofs -------------------------
(***************************************************************************)
(* What the turns of one session keep, for every number of prompts,        *)
(* rewinds, deletions and loads, with proofs that TLAPS checks.            *)
(*                                                                         *)
(* The argument: the registry counts the turns between their two marks,    *)
(* the deletion mark covers a deletion from its first step to its last, a  *)
(* State that was let go is never live again, and a lock file that is      *)
(* still at its path has one owner.                                        *)
(***************************************************************************)
EXTENDS SessionTurns, FiniteSetTheorems, TLAPS

-----------------------------------------------------------------------------
(* Types.                                                                  *)

ActorStates ==
  [pc : {"idle", "admit", "mark", "open", "flock", "stale", "remove", "write",
         "locked", "recheck", "running", "wrote", "unlock", "unmark", "done"},
   st : 0..MaxStates, file : 0..MaxFiles, tries : Nat]

MemoryTyped ==
  /\ states \in States /\ live \in 0..states
  /\ hist \in [States -> SUBSET Turns]
  /\ cancelOf \in [States -> Turns \cup {None}]

BundleTyped == bundle \in [exists : BOOLEAN, hist : SUBSET Turns]

LocksTyped ==
  /\ files \in 0..MaxFiles /\ path \in 0..files
  /\ owner \in [Files -> Actors \cup {None}]
  /\ broken \in BOOLEAN

\* An actor at work has a State of the session, and one at the lock a file.
Placed(r) ==
  /\ r.pc # "idle" => r.st \in 1..states
  /\ r.pc \in {"flock", "write", "locked", "recheck", "running", "wrote", "unlock"}
     <=> r.file # 0

ActorsTyped ==
  /\ actor \in [Actors -> ActorStates]
  /\ \A a \in Actors : Placed(actor[a])

CallsTyped ==
  /\ deleter \in [Deleters -> {"idle", "cancel", "await", "drop", "remove",
                               "unmark", "done"}]
  /\ loader \in [Loaders -> [pc : {"idle", "read", "done"}, snap : SUBSET Turns]]

Typed == MemoryTyped /\ BundleTyped /\ LocksTyped /\ ActorsTyped /\ CallsTyped

-----------------------------------------------------------------------------
(* The counts.                                                             *)

MarkedTurns == {t \in Turns : Marked(t)}
Deletions == {d \in Deleters : deleter[d] \notin {"idle", "done"}}

Counted == active = Cardinality(MarkedTurns) /\ deleting = Cardinality(Deletions)

-----------------------------------------------------------------------------
(* The lock.                                                               *)

\* A file is at its path for as long as nobody removed one in use, and who
\* has the lock has it on the file that was opened.
Anchored ==
  \A a \in Actors :
    /\ actor[a].file # 0 /\ ~broken => actor[a].file = path
    /\ HasLock(a) => owner[actor[a].file] = a

-----------------------------------------------------------------------------
(* The deletion.                                                           *)

\* The turn that runs is the one that a cancel of its State reaches.
Installed ==
  \A t \in Turns :
    actor[t].pc \in {"recheck", "running", "wrote"} /\ ~broken =>
      cancelOf[actor[t].st] = t

\* Between its admission and its second look.
Admitted(t) ==
  actor[t].pc \in {"mark", "open", "flock", "stale", "remove", "write", "locked",
                   "recheck"}

\* From the wait of a deletion on no turn runs, and what was admitted before
\* is not on the live State once that was dropped.
Dropping ==
  \A d \in Deleters :
    /\ deleter[d] \in {"drop", "remove"} => Running = {}
    /\ deleter[d] = "remove" =>
         \A t \in Turns : Admitted(t) => actor[t].st # live

\* Without a bundle no turn runs, and none that has the lock's file open
\* can be let in.
Bundled ==
  ~bundle.exists =>
    /\ Running = {}
    /\ \A t \in Turns :
         actor[t].pc \in {"flock", "write", "locked", "recheck"} => actor[t].st # live

Kept == Typed /\ Counted /\ Anchored /\ Installed /\ DeleteReachesTurns
        /\ Dropping /\ Bundled

-----------------------------------------------------------------------------
(* Types.                                                                  *)

\* What a prompt, a rewind does next.
ActorStep(a) ==
  LockStep(a) \/ (a \in Turns /\ TurnStep(a)) \/ (a \in Rewinders /\ RewindStep(a))

\* What the assumption says of the bounds.
LEMMA Bounds ==
  /\ MaxTries \in Nat /\ MaxStates \in Nat /\ MaxFiles \in Nat
  /\ 1 \in States /\ 1 \in Files
  /\ None \notin Actors /\ Turns \subseteq Actors /\ Rewinders \subseteq Actors
  /\ Turns \cap Rewinders = {} /\ IsFiniteSet(Turns) /\ IsFiniteSet(Deleters)
BY SessionAssumption DEF SessionAssumption, States, Files, Actors

\* A loaded session is typed.
LEMMA TypedInit == Init => Typed
<1> SUFFICES ASSUME Init PROVE Typed
    OBVIOUS
<1> USE DEF Init
<1>1. MemoryTyped /\ BundleTyped /\ LocksTyped
  <2>1. MemoryTyped
        BY Bounds DEF MemoryTyped
  <2>2. files \in 0..MaxFiles /\ path \in 0..files
        BY Bounds DEF Files
  <2> QED BY <2>1, <2>2 DEF BundleTyped, LocksTyped
<1>2. ActorsTyped
      BY Bounds DEF ActorsTyped, ActorStates, Placed
<1>3. CallsTyped
      BY DEF CallsTyped
<1> QED BY <1>1, <1>2, <1>3 DEF Typed

\* An actor that only moves on keeps its State, its file and its attempts.
LEMMA Gone ==
  ASSUME ActorsTyped, NEW a \in Actors, NEW pc, Goes(a, pc),
         pc \in {"idle", "admit", "mark", "open", "flock", "stale", "remove", "write",
                 "locked", "recheck", "running", "wrote", "unlock", "unmark", "done"}
  PROVE  /\ actor' \in [Actors -> ActorStates]
         /\ actor'[a].pc = pc /\ actor'[a].st = actor[a].st
         /\ actor'[a].file = actor[a].file
         /\ \A b \in Actors : b # a => actor'[b] = actor[b]
BY DEF ActorsTyped, ActorStates, Goes

\* Where each step takes its actor.
LEMMA Moves ==
  ASSUME Typed, NEW a \in Actors, ActorStep(a)
  PROVE  /\ actor' \in [Actors -> ActorStates]
         /\ \A b \in Actors : b # a => actor'[b] = actor[b]
         /\ UNCHANGED <<live, states, deleting, cancelled, deleter, loader, letGo>>
         /\ Placed(actor[a])'
<1> USE DEF Typed
<1>0. /\ actor \in [Actors -> ActorStates] /\ Placed(actor[a]) /\ live \in 0..states
      /\ actor[a] \in ActorStates /\ states \in States /\ MaxStates \in Nat
      /\ MaxFiles \in Nat /\ path \in 0..MaxFiles /\ files \in 0..MaxFiles
      BY Bounds DEF ActorsTyped, MemoryTyped, LocksTyped, States
<1>1. CASE Open(a)
  <2>1. path' \in 1..MaxFiles /\ path' \in 0..MaxFiles
        BY <1>0, <1>1 DEF Open
  <2> DEFINE r == [actor[a] EXCEPT !.pc = "flock", !.file = path']
  <2>2. r \in ActorStates /\ r.pc = "flock" /\ r.file = path' /\ r.st = actor[a].st
        BY <1>0, <2>1 DEF ActorStates
  <2>3. actor' = [actor EXCEPT ![a] = r]
        BY <1>0, <1>1 DEF Open
  <2> HIDE DEF r
  <2>4. actor'[a] = r /\ \A b \in Actors : b # a => actor'[b] = actor[b]
        BY <1>0, <2>3
  <2>5. actor[a].st \in 1..states
        BY <1>0, <1>1 DEF Open, At, Placed
  <2>6. Placed(actor[a])'
        BY <1>1, <2>1, <2>2, <2>4, <2>5 DEF Open, Placed, memory
  <2> QED BY <1>0, <1>1, <2>2, <2>3, <2>4, <2>6 DEF Open, memory, calls
<1>2. CASE FlockBusy(a)
      BY <1>0, <1>2 DEF FlockBusy, ActorStates, Placed, At, memory, calls
<1>3. CASE RemoveStale(a)
      BY <1>0, <1>3 DEF RemoveStale, ActorStates, Placed, At, memory, calls, WithoutLock
<1>4. CASE Unlock(a)
      BY <1>0, <1>4 DEF Unlock, ActorStates, Placed, At, memory, calls, WithoutLock
<1>5. CASE Prompt(a) \/ Rewind(a)
      BY <1>0, <1>5 DEF Prompt, Rewind, ActorStates, Placed, At, memory, calls
<1>6. CASE OpenFails(a) \/ Flock(a) \/ WriteMeta(a) \/ ReadStale(a)
      BY <1>0, <1>6, Gone
      DEF OpenFails, Flock, WriteMeta, ReadStale, Placed, At, memory, calls, WithoutLock
<1>7. CASE Admit(a) \/ Mark(a) \/ Install(a) \/ Recheck(a) \/ Write(a) \/ Unmark(a)
           \/ Cut(a)
      BY <1>0, <1>7, Gone
      DEF Admit, Mark, Install, Recheck, Write, Unmark, Cut, Placed, At, memory, calls, Save
<1>8. CASE End(a)
      BY <1>0, <1>8, Gone DEF End, Placed, Running, memory, calls
<1> QED BY <1>1, <1>2, <1>3, <1>4, <1>5, <1>6, <1>7, <1>8
    DEF ActorStep, LockStep, TurnStep, RewindStep

\* A step of an actor keeps the types.
LEMMA TypedActor ==
  ASSUME Typed, NEW a \in Actors, ActorStep(a)
  PROVE  Typed'
<1> USE DEF Typed
<1>1. /\ actor' \in [Actors -> ActorStates]
      /\ \A b \in Actors : b # a => actor'[b] = actor[b]
      /\ UNCHANGED <<live, states, deleting, cancelled, deleter, loader, letGo>>
      /\ Placed(actor[a])'
      BY Moves
<1>2. ActorsTyped'
  <2>1. \A b \in Actors : b # a => Placed(actor[b])'
        BY <1>1 DEF ActorsTyped, Placed
  <2> QED BY <1>1, <2>1 DEF ActorsTyped
<1>3. CallsTyped'
      BY <1>1 DEF CallsTyped
<1>4. /\ actor[a] \in ActorStates /\ Placed(actor[a]) /\ states \in States
      /\ path \in 0..MaxFiles /\ files \in 0..MaxFiles /\ MaxFiles \in Nat
      /\ 1..states \subseteq States
      BY Bounds DEF ActorsTyped, LocksTyped, MemoryTyped, States
<1>5. MemoryTyped' /\ BundleTyped'
  <2>1. CASE UNCHANGED <<hist, cancelOf, bundle>>
        BY <1>1, <2>1 DEF MemoryTyped, BundleTyped
  <2>2. CASE a \in Turns /\ Install(a)
        BY <1>1, <2>2 DEF Install, MemoryTyped, BundleTyped
  <2>3. CASE a \in Turns /\ Write(a)
    <3>1. actor[a].st \in States
          BY <1>4, <2>3 DEF Write, At, Placed
    <3>2. hist[actor[a].st] \cup {a} \in SUBSET Turns
          BY <2>3, <3>1 DEF MemoryTyped
    <3> QED BY <1>1, <2>3, <3>1, <3>2 DEF Write, Save, MemoryTyped, BundleTyped
  <2>4. CASE a \in Rewinders /\ Cut(a)
    <3>1. UNCHANGED <<live, states, cancelOf>>
          BY <2>4 DEF Cut
    <3>2. hist' \in [States -> SUBSET Turns] /\ BundleTyped'
      <4>1. CASE active = 0
        <5>1. hist' = [hist EXCEPT ![actor[a].st] = {}]
              /\ bundle' = [exists |-> TRUE, hist |-> {}]
              BY <2>4, <4>1 DEF Cut, Save
        <5> QED BY <5>1 DEF MemoryTyped, BundleTyped
      <4>2. CASE active # 0
            BY <2>4, <4>2 DEF Cut, MemoryTyped, BundleTyped
      <4> QED BY <4>1, <4>2
    <3> QED BY <3>1, <3>2 DEF MemoryTyped
  <2> QED BY <2>1, <2>2, <2>3, <2>4
      DEF ActorStep, LockStep, TurnStep, RewindStep, memory, Open, OpenFails, Flock,
          FlockBusy, WriteMeta, ReadStale, RemoveStale, Unlock, Prompt, Admit, Mark,
          Recheck, End, Unmark, Rewind
<1>6. LocksTyped'
  <2>1. CASE UNCHANGED <<path, files, owner, broken>>
        BY <2>1 DEF LocksTyped
  <2>2. CASE Open(a)
        BY <1>4, <2>2 DEF Open, LocksTyped
  <2>3. CASE Flock(a)
        BY <1>4, <2>3 DEF Flock, LocksTyped
  <2>4. CASE RemoveStale(a)
        BY <1>4, <2>4 DEF RemoveStale, LocksTyped, InUse
  <2>5. CASE Unlock(a)
        BY <1>4, <2>5 DEF Unlock, LocksTyped
  <2> QED BY <2>1, <2>2, <2>3, <2>4, <2>5
      DEF ActorStep, LockStep, TurnStep, RewindStep, locks, OpenFails,
          FlockBusy, WriteMeta, ReadStale, Prompt, Admit, Mark, Install,
          Recheck, Write, End, Unmark, Rewind, Cut
<1> QED BY <1>2, <1>3, <1>5, <1>6

\* Deletions, the surface and the loaders keep the types.
LEMMA TypedOthers ==
  ASSUME Typed,
         \/ \E d \in Deleters : DeleteStep(d)
         \/ \E l \in Loaders : ReadSnapshot(l) \/ Register(l)
         \/ LetGo
         \/ UNCHANGED vars
  PROVE  Typed'
<1> USE DEF Typed
<1>0. states \in States /\ MaxStates \in Nat /\ MaxFiles \in Nat /\ live \in 0..states
      BY Bounds DEF MemoryTyped
<1>1. CASE \E d \in Deleters : DeleteStep(d)
  <2>1. PICK d \in Deleters : DeleteStep(d)
        BY <1>1
  <2>2. CallsTyped' /\ UNCHANGED actor
        BY <2>1 DEF DeleteStep, CallsTyped, MarkDeleting, CancelTurn, Settled,
           NotSettled, DropLive, RemoveBundle, UnmarkDeleting, Deletes
  <2>3. MemoryTyped' /\ states' = states
        BY <1>0, <2>1 DEF DeleteStep, MemoryTyped, MarkDeleting, CancelTurn, Settled,
           NotSettled, DropLive, RemoveBundle, UnmarkDeleting, memory, States
  <2>4. BundleTyped' /\ LocksTyped'
    <3>1. CASE RemoveBundle(d)
          BY <1>0, <3>1 DEF RemoveBundle, BundleTyped, LocksTyped, InUse
    <3>2. CASE UNCHANGED <<bundle, path, files, owner, broken>>
          BY <3>2 DEF BundleTyped, LocksTyped
    <3> QED BY <2>1, <3>1, <3>2 DEF DeleteStep, MarkDeleting, CancelTurn,
           Settled, NotSettled, DropLive, UnmarkDeleting, locks
  <2> QED BY <2>2, <2>3, <2>4 DEF ActorsTyped, Placed
<1>2. CASE \E l \in Loaders : ReadSnapshot(l) \/ Register(l)
  <2>1. PICK l \in Loaders : ReadSnapshot(l) \/ Register(l)
        BY <1>2
  <2>2. CallsTyped'
        BY <2>1 DEF ReadSnapshot, Register, CallsTyped, BundleTyped
  <2>3. MemoryTyped' /\ states' \in Nat /\ states' >= states
    <3>1. CASE ReadSnapshot(l)
          BY <1>0, <3>1 DEF ReadSnapshot, MemoryTyped, memory, States
    <3>2. CASE Register(l)
      <4>1. CASE live # 0
            BY <1>0, <3>2, <4>1 DEF Register, MemoryTyped, States
      <4>2. CASE live = 0
        <5>1. /\ states' = states + 1 /\ live' = states' /\ states' \in States
              /\ hist' = [hist EXCEPT ![live'] = loader[l].snap] /\ UNCHANGED cancelOf
              BY <1>0, <3>2, <4>2 DEF Register, States
        <5>2. loader[l].snap \in SUBSET Turns
              BY DEF CallsTyped
        <5> QED BY <1>0, <5>1, <5>2 DEF MemoryTyped, States
      <4> QED BY <4>1, <4>2
    <3> QED BY <2>1, <3>1, <3>2
  <2>4. BundleTyped' /\ LocksTyped' /\ UNCHANGED actor
        BY <2>1 DEF ReadSnapshot, Register, BundleTyped, LocksTyped, locks
  <2> QED BY <1>0, <2>2, <2>3, <2>4 DEF ActorsTyped, Placed, States
<1>3. CASE LetGo
      BY <1>0, <1>3 DEF LetGo, MemoryTyped, BundleTyped, LocksTyped, ActorsTyped,
         Placed, CallsTyped, locks, States
<1>4. CASE UNCHANGED vars
      BY <1>4 DEF vars, memory, locks, calls, MemoryTyped, BundleTyped, LocksTyped,
         ActorsTyped, Placed, CallsTyped
<1> QED BY <1>1, <1>2, <1>3, <1>4

-----------------------------------------------------------------------------
(* The counts.                                                             *)

\* Of a finite set one element more is one more, one less is one less.
LEMMA OneMore ==
  ASSUME NEW S, IsFiniteSet(S), NEW x
  PROVE  /\ Cardinality(S) \in Nat
         /\ x \notin S => Cardinality(S \cup {x}) = Cardinality(S) + 1
         /\ x \in S => Cardinality(S \ {x}) = Cardinality(S) - 1
         /\ Cardinality(S) = 0 <=> S = {}
BY FS_CardinalityType, FS_AddElement, FS_RemoveElement, FS_EmptySet

\* The counted sets are finite.
LEMMA CountsFinite == IsFiniteSet(MarkedTurns) /\ IsFiniteSet(Deletions)
<1>1. MarkedTurns \subseteq Turns /\ Deletions \subseteq Deleters
      BY DEF MarkedTurns, Deletions
<1> QED BY <1>1, Bounds, FS_Subset

\* The counts of a loaded session.
LEMMA CountedInit == Init => Counted
<1> SUFFICES ASSUME Init PROVE Counted
    OBVIOUS
<1>1. MarkedTurns = {} /\ Deletions = {}
      BY Bounds DEF Init, MarkedTurns, Deletions, Marked
<1> QED BY <1>1, FS_EmptySet DEF Init, Counted

\* Nothing counts as nobody.
LEMMA CountsNobody ==
  ASSUME Counted
  PROVE  /\ active = 0 => \A t \in Turns : ~Marked(t)
         /\ deleting = 0 => \A d \in Deleters : deleter[d] \in {"idle", "done"}
<1>1. /\ active = 0 => MarkedTurns = {}
      /\ deleting = 0 => Deletions = {}
      BY CountsFinite, OneMore DEF Counted
<1> QED BY <1>1 DEF MarkedTurns, Deletions

\* The registry counts a turn in at Mark and out at Unmark.
LEMMA CountedActor ==
  ASSUME Typed, Counted, NEW a \in Actors, ActorStep(a)
  PROVE  Counted'
<1>1. /\ actor' \in [Actors -> ActorStates]
      /\ \A b \in Actors : b # a => actor'[b] = actor[b]
      /\ UNCHANGED <<deleting, deleter>> /\ actor[a] \in ActorStates
      BY Moves DEF Typed, ActorsTyped
<1>2. deleting' = Cardinality(Deletions')
      BY <1>1 DEF Counted, Deletions
<1>3. CASE a \in Turns /\ Mark(a)
  <2>1. MarkedTurns' = MarkedTurns \cup {a} /\ a \notin MarkedTurns
        BY <1>1, <1>3, Bounds DEF Mark, At, Goes, MarkedTurns, Marked, Typed, ActorsTyped,
           ActorStates
  <2> QED BY <1>2, <1>3, <2>1, CountsFinite, OneMore DEF Mark, Counted
<1>4. CASE a \in Turns /\ Unmark(a)
  <2>1. MarkedTurns' = MarkedTurns \ {a} /\ a \in MarkedTurns
        BY <1>1, <1>4, Bounds DEF Unmark, At, Goes, MarkedTurns, Marked, Typed, ActorsTyped,
           ActorStates
  <2> QED BY <1>2, <1>4, <2>1, CountsFinite, OneMore DEF Unmark, Counted
<1>5. CASE active' = active /\ (a \in Turns => (Marked(a)' <=> Marked(a)))
  <2>1. \A t \in Turns : Marked(t)' <=> Marked(t)
        BY <1>1, <1>5, Bounds DEF Marked
  <2>2. MarkedTurns' = MarkedTurns
        BY <2>1 DEF MarkedTurns
  <2> QED BY <1>2, <1>5, <2>2 DEF Counted
<1>6. CASE a \in Rewinders /\ RewindStep(a)
  <2>1. a \notin Turns /\ active' = active
        BY <1>6, Bounds DEF RewindStep, Rewind, Cut
  <2> QED BY <1>5, <2>1
<1>7. CASE LockStep(a)
  <2>0. USE DEF Typed, ActorsTyped, ActorStates, Marked, At, WithoutLock
  <2>1. active' = active
        BY <1>7 DEF LockStep, Open, OpenFails, Flock, FlockBusy, WriteMeta, ReadStale,
           RemoveStale, Unlock
  <2>2. CASE a \in Turns
    <3>1. Marked(a)
          BY <1>7 DEF LockStep, Open, OpenFails, Flock, FlockBusy, WriteMeta, ReadStale,
             RemoveStale, Unlock
    <3>2. CASE Open(a) \/ FlockBusy(a) \/ RemoveStale(a) \/ Unlock(a)
          BY <1>1, <2>1, <2>2, <3>1, <3>2, <1>5 DEF Open, FlockBusy, RemoveStale, Unlock
    <3>3. CASE OpenFails(a) \/ Flock(a) \/ WriteMeta(a) \/ ReadStale(a)
      <4>1. actor'[a].pc \in {"write", "locked", "unmark", "remove"}
            BY <2>2, <3>3, Gone DEF OpenFails, Flock, WriteMeta, ReadStale
      <4> QED BY <2>1, <3>1, <4>1, <1>5
    <3> QED BY <1>7, <3>2, <3>3 DEF LockStep
  <2> QED BY <1>5, <2>1, <2>2
<1>8. CASE a \in Turns /\ (Prompt(a) \/ Admit(a) \/ Install(a) \/ Recheck(a) \/ Write(a)
                           \/ End(a))
  <2>1. active' = active
        BY <1>8 DEF Prompt, Admit, Install, Recheck, Write, End
  <2>2. CASE Prompt(a) \/ Admit(a)
        BY <1>1, <1>5, <2>1, <2>2 DEF Typed, ActorsTyped, ActorStates, Prompt, Admit, Goes,
           At, Marked
  <2>3. CASE Install(a) \/ Recheck(a) \/ Write(a) \/ End(a)
        BY <1>1, <1>5, <2>1, <2>3 DEF Typed, ActorsTyped, ActorStates, Install, Recheck,
           Write, End, Goes, At, Marked, Running
  <2> QED BY <1>8, <2>2, <2>3
<1> QED BY <1>3, <1>4, <1>6, <1>7, <1>8 DEF ActorStep, TurnStep

\* A deletion is counted from its mark to its unmark.
LEMMA CountedDeletion ==
  ASSUME Typed, Counted, NEW d \in Deleters, DeleteStep(d)
  PROVE  Counted'
<1>1. UNCHANGED <<active, actor>>
      BY DEF DeleteStep, MarkDeleting, CancelTurn, Settled, NotSettled, DropLive,
         RemoveBundle, UnmarkDeleting
<1>2. active' = Cardinality(MarkedTurns')
      BY <1>1 DEF Counted, MarkedTurns, Marked
<1>3. CASE MarkDeleting(d)
  <2>1. Deletions' = Deletions \cup {d} /\ d \notin Deletions
        BY <1>3 DEF MarkDeleting, Deletes, Deletions, Typed, CallsTyped
  <2> QED BY <1>2, <1>3, <2>1, CountsFinite, OneMore DEF MarkDeleting, Counted
<1>4. CASE UnmarkDeleting(d)
  <2>1. Deletions' = Deletions \ {d} /\ d \in Deletions
        BY <1>4 DEF UnmarkDeleting, Deletes, Deletions, Typed, CallsTyped
  <2> QED BY <1>2, <1>4, <2>1, CountsFinite, OneMore DEF UnmarkDeleting, Counted
<1>5. CASE CancelTurn(d) \/ Settled(d) \/ NotSettled(d) \/ DropLive(d) \/ RemoveBundle(d)
  <2>1. Deletions' = Deletions /\ deleting' = deleting
        BY <1>5 DEF CancelTurn, Settled, NotSettled, DropLive, RemoveBundle, Deletes,
           Deletions, Typed, CallsTyped
  <2> QED BY <1>2, <2>1 DEF Counted
<1> QED BY <1>3, <1>4, <1>5 DEF DeleteStep

-----------------------------------------------------------------------------
(* The lock.                                                               *)

\* No step mends what a removal broke, and only removals break.
LEMMA BrokenStays ==
  ASSUME Typed, [Next]_vars
  PROVE  broken => broken'
BY DEF Typed, LocksTyped, Next, LockStep, TurnStep, RewindStep, DeleteStep, vars, locks,
   Open, OpenFails, Flock, FlockBusy, WriteMeta, ReadStale, RemoveStale, Unlock,
   Prompt, Admit, Mark, Install, Recheck, Write, End, Unmark, Rewind, Cut,
   MarkDeleting, CancelTurn, Settled, NotSettled, DropLive, RemoveBundle,
   UnmarkDeleting, ReadSnapshot, Register, LetGo

\* The steps of the lock keep each lock with its file and each file in its
\* place, unless they break it.
LEMMA AnchoredActor ==
  ASSUME Typed, Anchored, NEW a \in Actors, ActorStep(a)
  PROVE  Anchored'
<1>1. /\ actor' \in [Actors -> ActorStates] /\ actor \in [Actors -> ActorStates]
      /\ \A b \in Actors : b # a => actor'[b] = actor[b]
      /\ \A b \in Actors : Placed(actor[b])
      /\ actor[a] \in ActorStates /\ owner \in [Files -> Actors \cup {None}]
      /\ broken \in BOOLEAN /\ None \notin Actors /\ MaxFiles \in Nat
      BY Moves, Bounds DEF Typed, ActorsTyped, LocksTyped
<1>2. \A b \in Actors : HasLock(b) => actor[b].file \in Files
      BY <1>1 DEF HasLock, Placed, ActorStates, Files
<1> USE DEF At
<1>3. CASE Open(a)
  <2>1. /\ actor'[a].pc = "flock" /\ actor'[a].file = path'
        /\ broken' = broken /\ owner' = owner
        BY <1>1, <1>3 DEF Open, ActorStates
  <2>2. path' = path \/ path = 0
        BY <1>3 DEF Open
  <2> QED BY <1>1, <2>1, <2>2 DEF Anchored, HasLock
<1>4. CASE Flock(a)
  <2>1. /\ actor'[a].pc = "write" /\ actor'[a].file = actor[a].file
        /\ actor[a].file \in Files /\ owner[actor[a].file] = None
        /\ owner' = [owner EXCEPT ![actor[a].file] = a] /\ UNCHANGED <<path, broken>>
        BY <1>1, <1>4 DEF Flock, Goes, ActorStates, Placed, Files
  <2>2. \A b \in Actors : b # a /\ HasLock(b) => actor[b].file # actor[a].file
        BY <1>1, <2>1 DEF Anchored
  <2> QED BY <1>1, <1>2, <2>1, <2>2 DEF Anchored, HasLock
<1>5. CASE FlockBusy(a)
      BY <1>1, <1>5 DEF FlockBusy, Anchored, HasLock, ActorStates, locks
<1>6. CASE RemoveStale(a)
  <2>1. /\ actor'[a].pc \in {"open", "unmark", "done"} /\ actor'[a].file = actor[a].file
        /\ owner' = owner /\ broken' = (broken \/ InUse) /\ actor[a].file = 0
        BY <1>1, <1>6 DEF RemoveStale, WithoutLock, ActorStates, Placed
  <2> QED BY <1>1, <2>1 DEF Anchored, HasLock, InUse
<1>7. CASE Unlock(a)
  <2>1. /\ actor'[a].pc \in {"unmark", "done"} /\ actor'[a].file = 0
        /\ owner' = [owner EXCEPT ![actor[a].file] = None] /\ UNCHANGED <<path, broken>>
        /\ owner[actor[a].file] = a
        BY <1>1, <1>7 DEF Unlock, WithoutLock, ActorStates, Anchored, HasLock
  <2>2. \A b \in Actors : b # a /\ HasLock(b) => actor[b].file # actor[a].file
        BY <1>1, <2>1 DEF Anchored
  <2> QED BY <1>1, <1>2, <2>1, <2>2 DEF Anchored, HasLock
<1>8. CASE /\ UNCHANGED <<path, owner, broken>> /\ actor'[a].file = actor[a].file
           /\ HasLock(a)' => HasLock(a)
      BY <1>1, <1>8 DEF Anchored, HasLock
<1>9. CASE OpenFails(a) \/ WriteMeta(a) \/ ReadStale(a)
      BY <1>1, <1>8, <1>9 DEF OpenFails, WriteMeta, ReadStale, Goes, HasLock, WithoutLock,
         ActorStates, locks
<1>10. CASE a \in Turns /\ TurnStep(a)
  <2>1. CASE Prompt(a) \/ Admit(a) \/ Mark(a) \/ Unmark(a)
        BY <1>1, <1>8, <2>1 DEF Prompt, Admit, Mark, Unmark, Goes, HasLock,
           ActorStates, locks
  <2>2. CASE Install(a) \/ Recheck(a) \/ Write(a) \/ End(a)
        BY <1>1, <1>8, <2>2 DEF Install, Recheck, Write, End, Goes, HasLock,
           ActorStates, locks, Running
  <2> QED BY <1>10, <2>1, <2>2 DEF TurnStep
<1>11. CASE a \in Rewinders /\ RewindStep(a)
      BY <1>1, <1>8, <1>11 DEF RewindStep, Rewind, Cut, Goes, HasLock, ActorStates, locks
<1> QED BY <1>3, <1>4, <1>5, <1>6, <1>7, <1>9, <1>10, <1>11 DEF ActorStep, LockStep

\* Nor do the others take a lock from its file, but for the removal of the
\* bundle, which may break it.
LEMMA AnchoredOthers ==
  ASSUME Typed, Anchored,
         \/ \E d \in Deleters : DeleteStep(d)
         \/ \E l \in Loaders : ReadSnapshot(l) \/ Register(l)
         \/ LetGo
         \/ UNCHANGED vars
  PROVE  Anchored'
<1>1. CASE UNCHANGED <<actor, path, owner, broken>>
      BY <1>1 DEF Anchored, HasLock
<1>2. CASE \E d \in Deleters : RemoveBundle(d)
  <2>1. UNCHANGED <<actor, owner>> /\ path' = 0 /\ broken' = (broken \/ InUse)
        BY <1>2 DEF RemoveBundle
  <2> QED BY <2>1 DEF Anchored, HasLock, InUse
<1> QED BY <1>1, <1>2 DEF DeleteStep, locks, vars, MarkDeleting, CancelTurn, Settled,
        NotSettled, DropLive, UnmarkDeleting, ReadSnapshot, Register, LetGo

\* Who has the lock while nothing is broken has it alone.
LEMMA AnchoredExcludes ==
  ASSUME Typed, Anchored
  PROVE  LockExcludes
<1>1. \A a \in Actors : HasLock(a) /\ ~broken => owner[path] = a
      BY DEF Anchored, HasLock, Typed, ActorsTyped, Placed
<1> QED BY <1>1 DEF LockExcludes

-----------------------------------------------------------------------------
(* The deletion.                                                           *)

\* The turn that has the lock is the one its State's cancel reaches.
LEMMA InstalledActor ==
  ASSUME Typed, Anchored, Installed, broken => broken', NEW a \in Actors, ActorStep(a)
  PROVE  Installed'
<1>1. /\ actor' \in [Actors -> ActorStates] /\ actor \in [Actors -> ActorStates]
      /\ \A b \in Actors : b # a => actor'[b] = actor[b]
      /\ \A b \in Actors : Placed(actor[b])
      /\ actor[a] \in ActorStates /\ cancelOf \in [States -> Turns \cup {None}]
      /\ 1..states \subseteq States /\ Turns \subseteq Actors
      BY Moves, Bounds DEF Typed, ActorsTyped, MemoryTyped, States
<1> USE DEF At
<1>2. CASE a \in Turns /\ Install(a)
  <2>1. /\ actor'[a].st = actor[a].st /\ actor[a].st \in States
        /\ cancelOf' = [cancelOf EXCEPT ![actor[a].st] = a] /\ broken' = broken
        BY <1>1, <1>2 DEF Install, Goes, ActorStates, Placed, States, locks
  <2>2. \A t \in Turns : t # a /\ actor[t].pc \in {"recheck", "running", "wrote"} => broken
    <3>1. HasLock(a) /\ \A t \in Turns :
            actor[t].pc \in {"recheck", "running", "wrote"} => HasLock(t)
          BY <1>2 DEF Install, HasLock
    <3> QED BY <1>1, <3>1, AnchoredExcludes DEF LockExcludes
  <2> QED BY <1>1, <2>1, <2>2 DEF Installed
<1>3. CASE cancelOf' = cancelOf
  <2>1. CASE /\ actor'[a].st = actor[a].st
             /\ actor'[a].pc \in {"recheck", "running", "wrote"} =>
                  actor[a].pc \in {"recheck", "running", "wrote"}
        BY <1>1, <1>3, <2>1 DEF Installed
  <2>2. CASE actor'[a].pc \notin {"recheck", "running", "wrote"}
        BY <1>1, <1>3, <2>2 DEF Installed
  <2>3. CASE LockStep(a)
        BY <1>1, <2>2, <2>3 DEF LockStep, Open, OpenFails, Flock, FlockBusy, WriteMeta,
           ReadStale, RemoveStale, Unlock, WithoutLock, Goes, ActorStates
  <2>4. CASE a \in Turns /\ (Recheck(a) \/ Write(a))
        BY <1>1, <2>1, <2>4 DEF Recheck, Write, Goes, ActorStates
  <2>5. CASE a \in Turns /\ (Prompt(a) \/ Admit(a) \/ Mark(a) \/ End(a) \/ Unmark(a))
        BY <1>1, <2>2, <2>5 DEF Prompt, Admit, Mark, End, Unmark, Goes, ActorStates
  <2>6. CASE a \in Rewinders /\ RewindStep(a)
        BY <1>1, <2>2, <2>6 DEF RewindStep, Rewind, Cut, Goes, ActorStates
  <2> QED BY <1>2, <2>3, <2>4, <2>5, <2>6 DEF ActorStep, TurnStep, Install
<1> QED BY <1>2, <1>3 DEF ActorStep, LockStep, TurnStep, RewindStep, memory,
        Open, OpenFails, Flock, FlockBusy, WriteMeta, ReadStale, RemoveStale, Unlock,
        Prompt, Admit, Mark, Recheck, Write, End, Unmark, Rewind, Cut

\* Nobody else installs a cancel or moves a turn.
LEMMA InstalledOthers ==
  ASSUME Typed, Installed, broken => broken',
         \/ \E d \in Deleters : DeleteStep(d)
         \/ \E l \in Loaders : ReadSnapshot(l) \/ Register(l)
         \/ LetGo
         \/ UNCHANGED vars
  PROVE  Installed'
<1>1. UNCHANGED <<actor, cancelOf>>
      BY DEF DeleteStep, memory, vars, MarkDeleting, CancelTurn, Settled,
         NotSettled, DropLive, RemoveBundle, UnmarkDeleting, ReadSnapshot, Register, LetGo
<1> QED BY <1>1 DEF Installed

\* A deletion under way lets no turn in.
LEMMA Covers ==
  ASSUME Counted, NEW d \in Deleters, deleter[d] \notin {"idle", "done"}
  PROVE  \A s : ~Admissible(s)
BY CountsNobody DEF Admissible

\* From where a turn comes that runs, that is admitted, that has the lock's
\* file open; and no step of a turn or a rewind takes the bundle away.
LEMMA TurnMoves ==
  ASSUME Typed, NEW a \in Actors, ActorStep(a)
  PROVE  /\ a \in Turns /\ actor'[a].pc \in {"running", "wrote"} =>
              /\ actor'[a].st = actor[a].st
              /\ \/ actor[a].pc \in {"running", "wrote"}
                 \/ actor[a].pc = "recheck" /\ Admissible(actor[a].st)
         /\ a \in Turns /\ Admitted(a)' =>
              /\ actor'[a].st = actor[a].st
              /\ Admitted(a) \/ Admissible(actor[a].st)
         /\ a \in Turns
            /\ actor'[a].pc \in {"flock", "write", "locked", "recheck"} =>
              /\ actor'[a].st = actor[a].st
              /\ \/ actor[a].pc \in {"flock", "write", "locked", "recheck"}
                 \/ bundle.exists
         /\ bundle.exists => bundle'.exists
<1>1. /\ actor \in [Actors -> ActorStates] /\ actor[a] \in ActorStates
      /\ a \in Turns => a \notin Rewinders
      BY Bounds DEF Typed, ActorsTyped
<1> USE DEF At, ActorStates, Admitted
<1>2. CASE Open(a)
      BY <1>1, <1>2 DEF Open
<1>3. CASE OpenFails(a) \/ Flock(a) \/ FlockBusy(a) \/ WriteMeta(a)
      BY <1>1, <1>3 DEF OpenFails, Flock, FlockBusy, WriteMeta, Goes, WithoutLock
<1>4. CASE ReadStale(a) \/ RemoveStale(a) \/ Unlock(a)
      BY <1>1, <1>4 DEF ReadStale, RemoveStale, Unlock, Goes, WithoutLock
<1>5. CASE a \in Turns /\ (Prompt(a) \/ Admit(a) \/ Mark(a) \/ Install(a))
      BY <1>1, <1>5 DEF Prompt, Admit, Mark, Install, Goes
<1>6. CASE a \in Turns /\ (Recheck(a) \/ Write(a) \/ End(a) \/ Unmark(a))
      BY <1>1, <1>6 DEF Recheck, Write, End, Unmark, Goes, Save
<1>7. CASE a \in Rewinders /\ RewindStep(a)
      BY <1>1, <1>7 DEF RewindStep, Rewind, Cut, Save
<1> QED BY <1>2, <1>3, <1>4, <1>5, <1>6, <1>7 DEF ActorStep, LockStep, TurnStep

\* While a deletion is under way a turn ends or waits, it never starts.
LEMMA DeletionActor ==
  ASSUME Typed, Counted, DeleteReachesTurns, Dropping, Bundled, broken => broken',
         NEW a \in Actors, ActorStep(a)
  PROVE  DeleteReachesTurns' /\ Dropping' /\ Bundled'
<1>1. /\ \A b \in Actors : b # a => actor'[b] = actor[b]
      /\ UNCHANGED <<live, deleting, cancelled, deleter>>
      /\ Turns \subseteq Actors
      BY Moves, Bounds
<1>2. \A d \in Deleters : deleter[d] \notin {"idle", "done"} => Running' \subseteq Running
      BY <1>1, Covers, TurnMoves DEF Running
<1>3. DeleteReachesTurns'
  <2>1. \A t \in Running' : t \in Running => actor'[t].st = actor[t].st
        BY <1>1, TurnMoves DEF Running
  <2> QED BY <1>1, <1>2, <2>1 DEF DeleteReachesTurns
<1>4. Dropping'
  <2>1. \A d \in Deleters : deleter[d] \in {"drop", "remove"} => Running' = {}
        BY <1>2 DEF Dropping
  <2>2. ASSUME NEW d \in Deleters, deleter[d] = "remove", NEW t \in Turns, Admitted(t)'
        PROVE  actor'[t].st # live
    <3>1. CASE t = a
          BY <2>2, <3>1, Covers, TurnMoves DEF Dropping
    <3>2. CASE t # a
          BY <1>1, <2>2, <3>2 DEF Dropping, Admitted
    <3> QED BY <3>1, <3>2
  <2> QED BY <1>1, <2>1, <2>2 DEF Dropping
<1>5. Bundled'
  <2>1. ASSUME ~bundle'.exists
        PROVE  ~bundle.exists
        BY <2>1, TurnMoves
  <2>2. ASSUME ~bundle'.exists, NEW t \in Turns,
               actor'[t].pc \in {"flock", "write", "locked", "recheck"}
        PROVE  actor'[t].st # live
    <3>1. CASE t = a
          BY <2>1, <2>2, <3>1, TurnMoves DEF Bundled
    <3>2. CASE t # a
          BY <1>1, <2>1, <2>2, <3>2 DEF Bundled
    <3> QED BY <3>1, <3>2
  <2>3. ASSUME ~bundle'.exists
        PROVE  Running' = {}
    <3>1. \A t \in Turns : actor[t].pc \notin {"running", "wrote"}
          BY <2>1, <2>3 DEF Bundled, Running
    <3>2. ~(a \in Turns /\ actor[a].pc = "recheck" /\ Admissible(actor[a].st))
          BY <2>1, <2>3 DEF Bundled, Admissible
    <3> QED BY <1>1, <3>1, <3>2, TurnMoves DEF Running
  <2> QED BY <1>1, <2>2, <2>3 DEF Bundled
<1> QED BY <1>3, <1>4, <1>5

\* A deletion cancels what runs, waits until the registry is empty, and
\* only then drops the State and removes the bundle.
LEMMA DeletionOwn ==
  ASSUME Typed, Counted, Installed, DeleteReachesTurns, Dropping, Bundled,
         broken => broken', NEW d \in Deleters, DeleteStep(d)
  PROVE  DeleteReachesTurns' /\ Dropping' /\ Bundled'
<1>1. /\ UNCHANGED actor /\ Running' = Running
      /\ \A t \in Turns : Admitted(t)' <=> Admitted(t)
      /\ deleter \in [Deleters -> {"idle", "cancel", "await", "drop", "remove",
                                   "unmark", "done"}]
      /\ live \in 0..states /\ states \in Nat
      /\ \A t \in Turns : actor[t].pc # "idle" => actor[t].st \in 1..states
      BY Bounds DEF DeleteStep, MarkDeleting, CancelTurn, Settled, NotSettled, DropLive,
         RemoveBundle, UnmarkDeleting, Running, Admitted, Typed, CallsTyped, MemoryTyped,
         ActorsTyped, Placed, States
<1> USE DEF Deletes
<1>2. CASE MarkDeleting(d) \/ NotSettled(d) \/ UnmarkDeleting(d)
  <2>1. /\ UNCHANGED <<live, cancelled, bundle>>
        /\ \A e \in Deleters : deleter'[e] \in {"await", "drop", "remove"} =>
             deleter[e] = deleter'[e]
        BY <1>1, <1>2 DEF MarkDeleting, NotSettled, UnmarkDeleting, memory
  <2>2. DeleteReachesTurns'
        BY <1>1, <2>1 DEF DeleteReachesTurns
  <2>3. Dropping'
        BY <1>1, <2>1 DEF Dropping
  <2>4. Bundled'
        BY <1>1, <2>1 DEF Bundled
  <2> QED BY <2>2, <2>3, <2>4
<1>3. CASE CancelTurn(d)
  <2>1. /\ UNCHANGED <<live, bundle>> /\ cancelled \subseteq cancelled'
        /\ live # 0 /\ cancelOf[live] # None => cancelOf[live] \in cancelled'
        /\ \A e \in Deleters : e # d => deleter'[e] = deleter[e]
        /\ deleter'[d] = "await"
        BY <1>1, <1>3 DEF CancelTurn, memory
  <2>2. DeleteReachesTurns'
    <3>1. ASSUME NEW t \in Running, actor[t].st = live, ~broken'
          PROVE  t \in cancelled'
      <4>1. cancelOf[live] = t /\ t # None /\ live # 0
            BY <1>1, <3>1, Bounds DEF Installed, Running
      <4> QED BY <2>1, <4>1
    <3> QED BY <1>1, <2>1, <3>1 DEF DeleteReachesTurns
  <2>3. Dropping'
        BY <1>1, <2>1 DEF Dropping
  <2>4. Bundled'
        BY <1>1, <2>1 DEF Bundled
  <2> QED BY <2>2, <2>3, <2>4
<1>4. CASE Settled(d)
  <2>1. /\ UNCHANGED <<live, cancelled, bundle>> /\ active = 0
        /\ \A e \in Deleters : e # d => deleter'[e] = deleter[e]
        /\ deleter[d] = "await" /\ deleter'[d] = "drop"
        BY <1>1, <1>4 DEF Settled, memory
  <2>2. Running = {}
        BY <2>1, CountsNobody DEF Running, Marked
  <2>3. DeleteReachesTurns'
        BY <1>1, <2>2 DEF DeleteReachesTurns
  <2>4. Dropping'
        BY <1>1, <2>1, <2>2 DEF Dropping
  <2>5. Bundled'
        BY <1>1, <2>1 DEF Bundled
  <2> QED BY <2>3, <2>4, <2>5
<1>5. CASE DropLive(d)
  <2>1. /\ UNCHANGED <<cancelled, bundle>> /\ live' = 0
        /\ \A e \in Deleters : e # d => deleter'[e] = deleter[e]
        /\ deleter[d] = "drop" /\ deleter'[d] = "remove"
        BY <1>1, <1>5 DEF DropLive
  <2>2. Running = {}
        BY <2>1 DEF Dropping
  <2>3. DeleteReachesTurns'
        BY <1>1, <2>2 DEF DeleteReachesTurns
  <2>4. Dropping'
        BY <1>1, <2>1, <2>2 DEF Dropping, Admitted
  <2>5. Bundled'
        BY <1>1, <2>1, <2>2 DEF Bundled
  <2> QED BY <2>3, <2>4, <2>5
<1>6. CASE RemoveBundle(d)
  <2>1. /\ UNCHANGED <<live, cancelled>>
        /\ \A e \in Deleters : e # d => deleter'[e] = deleter[e]
        /\ deleter[d] = "remove" /\ deleter'[d] = "unmark"
        BY <1>1, <1>6 DEF RemoveBundle, memory
  <2>2. Running = {} /\ \A t \in Turns : Admitted(t) => actor[t].st # live
        BY <2>1 DEF Dropping
  <2>3. DeleteReachesTurns'
        BY <1>1, <2>2 DEF DeleteReachesTurns
  <2>4. Dropping'
        BY <1>1, <2>1, <2>2 DEF Dropping
  <2>5. Bundled'
        BY <1>1, <2>1, <2>2 DEF Bundled, Admitted
  <2> QED BY <2>3, <2>4, <2>5
<1> QED BY <1>2, <1>3, <1>4, <1>5, <1>6 DEF DeleteStep

\* A session that is let go has no live State, and one that is loaded has a
\* State that no turn is on.
LEMMA DeletionSurface ==
  ASSUME Typed, DeleteReachesTurns, Dropping, Bundled, broken => broken',
         \/ \E l \in Loaders : ReadSnapshot(l) \/ Register(l)
         \/ LetGo
         \/ UNCHANGED vars
  PROVE  DeleteReachesTurns' /\ Dropping' /\ Bundled'
<1>1. /\ UNCHANGED <<actor, cancelled, deleter, bundle>> /\ Running' = Running
      /\ \A t \in Turns : Admitted(t)' <=> Admitted(t)
      BY DEF ReadSnapshot, Register, LetGo, vars, calls, Running, Admitted
<1>2. /\ live \in 0..states /\ states \in Nat
      /\ \A t \in Turns : actor[t].pc # "idle" => actor[t].st \in 1..states
      BY Bounds DEF Typed, MemoryTyped, ActorsTyped, Placed, States
<1>3. live' = live \/ live' = 0 \/ live' = states + 1
      BY DEF ReadSnapshot, Register, LetGo, vars, memory
<1>4. \A t \in Turns : actor[t].pc # "idle" /\ actor[t].st # live => actor[t].st # live'
      BY <1>2, <1>3
<1>5. DeleteReachesTurns'
      BY <1>1, <1>4 DEF DeleteReachesTurns, Running
<1>6. Dropping'
      BY <1>1, <1>4 DEF Dropping, Admitted
<1>7. Bundled'
      BY <1>1, <1>4 DEF Bundled
<1> QED BY <1>5, <1>6, <1>7

-----------------------------------------------------------------------------
(* The theorems.                                                           *)

\* A loaded session keeps everything.
LEMMA KeptInit == Init => Kept
<1> SUFFICES ASSUME Init PROVE Kept
    OBVIOUS
<1>1. Anchored
      BY DEF Init, Anchored, HasLock
<1>2. Running = {}
      BY Bounds DEF Init, Running
<1>3. Installed /\ DeleteReachesTurns /\ Dropping
      BY <1>2, Bounds DEF Init, Installed, DeleteReachesTurns, Dropping
<1>4. Bundled
      BY DEF Init, Bundled
<1> QED BY <1>1, <1>3, <1>4, TypedInit, CountedInit DEF Kept

\* Whoever steps, everything is kept.
LEMMA KeptNext == Kept /\ [Next]_vars => Kept'
<1> SUFFICES ASSUME Kept, [Next]_vars PROVE Kept'
    OBVIOUS
<1>0. broken => broken'
      BY BrokenStays DEF Kept
<1>1. CASE \E a \in Actors : ActorStep(a)
      BY <1>0, <1>1, TypedActor, CountedActor, AnchoredActor, InstalledActor,
         DeletionActor DEF Kept
<1>2. CASE \E d \in Deleters : DeleteStep(d)
  <2>1. Typed' /\ Anchored' /\ Installed'
        BY <1>0, <1>2, TypedOthers, AnchoredOthers, InstalledOthers DEF Kept
  <2>2. Counted' /\ DeleteReachesTurns' /\ Dropping' /\ Bundled'
        BY <1>0, <1>2, CountedDeletion, DeletionOwn DEF Kept
  <2> QED BY <2>1, <2>2 DEF Kept
<1>3. CASE \/ \E l \in Loaders : ReadSnapshot(l) \/ Register(l)
           \/ LetGo
           \/ UNCHANGED vars
  <2>1. Typed' /\ Anchored' /\ Installed'
        BY <1>0, <1>3, TypedOthers, AnchoredOthers, InstalledOthers DEF Kept
  <2>2. DeleteReachesTurns' /\ Dropping' /\ Bundled'
        BY <1>0, <1>3, DeletionSurface DEF Kept
  <2>3. Counted'
    <3>1. UNCHANGED <<active, deleting, actor, deleter>>
          BY <1>3 DEF ReadSnapshot, Register, LetGo, vars, calls
    <3> QED BY <3>1 DEF Kept, Counted, MarkedTurns, Marked, Deletions
  <2> QED BY <2>1, <2>2, <2>3 DEF Kept
<1> QED BY <1>1, <1>2, <1>3, Bounds DEF Next, ActorStep

\* Every state of every behaviour is typed, its registry and its deletion
\* marks count right, its locks are where they were opened, and its deletions
\* have what they wait for.
THEOREM SessionKept == Spec => []Kept
BY KeptInit, KeptNext, PTL DEF Spec

\* The type invariant with the two counts, for every number of prompts,
\* rewinds, deletions and loads.
THEOREM TypeCorrect == Spec => []TypeOK
<1>1. Kept => TypeOK
  <2> SUFFICES ASSUME Kept PROVE TypeOK
      OBVIOUS
  <2>1. live \in 0..MaxStates /\ path \in 0..MaxFiles
        BY Bounds DEF Kept, Typed, MemoryTyped, LocksTyped, States
  <2>2. hist \in [States -> SUBSET Turns] /\ bundle.hist \subseteq Turns
        BY DEF Kept, Typed, MemoryTyped, BundleTyped
  <2> QED BY <2>1, <2>2 DEF Kept, Counted, MarkedTurns, Deletions, TypeOK
<1> QED BY <1>1, SessionKept, PTL

\* The turn lock excludes, until a lock file in use is removed.
THEOREM LockIsALock == Spec => []LockExcludes
<1>1. Kept => LockExcludes
      BY AnchoredExcludes DEF Kept
<1> QED BY <1>1, SessionKept, PTL

\* A deletion that has cancelled what it found leaves no turn uncancelled.
THEOREM NoTurnEscapesDeletion == Spec => []DeleteReachesTurns
<1>1. Kept => DeleteReachesTurns
      BY DEF Kept
<1> QED BY <1>1, SessionKept, PTL

\* Whatever turn runs has the bundle it writes to.
THEOREM BundleOutlivesTurns == Spec => []RunningHasBundle
<1>1. Kept => RunningHasBundle
      BY DEF Kept, Bundled, RunningHasBundle
<1> QED BY <1>1, SessionKept, PTL

\* Only a rewind shortens a history, and only when no turn is marked; a
\* State made from the bundle has no turn on it yet.
THEOREM RewindMeetsNoTurn == Spec => CutsFindNoTurn
<1>1. ASSUME Kept, [Next]_vars, NEW s \in States, ~(hist[s] \subseteq hist'[s]),
             NEW t \in Turns, Marked(t)
      PROVE  actor[t].st # s
  <2>1. /\ hist \in [States -> SUBSET Turns] /\ states \in Nat
        /\ actor[t].st \in 1..states
        BY <1>1, Bounds DEF Kept, Typed, MemoryTyped, ActorsTyped, Placed, Marked, States
  <2>2. hist' # hist
        BY <1>1
  <2>3. CASE \E r \in Rewinders : Cut(r)
    <3>1. active = 0
          BY <2>2, <2>3 DEF Cut
    <3> QED BY <1>1, <3>1, CountsNobody DEF Kept
  <2>4. CASE \E w \in Turns : Write(w)
        BY <1>1, <2>1, <2>4 DEF Write, Save
  <2>5. CASE \E l \in Loaders : Register(l)
        BY <1>1, <2>1, <2>2, <2>5 DEF Register
  <2> QED BY <1>1, <2>2, <2>3, <2>4, <2>5 DEF Next, LockStep, TurnStep, RewindStep, DeleteStep,
        vars, memory, Open, OpenFails, Flock, FlockBusy, WriteMeta, ReadStale,
        RemoveStale, Unlock, Prompt, Admit, Mark, Install, Recheck, End, Unmark,
        Rewind, MarkDeleting, CancelTurn, Settled, NotSettled, DropLive,
        RemoveBundle, UnmarkDeleting, ReadSnapshot, LetGo
<1>2. Kept /\ [Next]_vars =>
        [\A s \in States : ~(hist[s] \subseteq hist'[s]) =>
           \A t \in Turns : Marked(t) => actor[t].st # s]_vars
      BY <1>1
<1> QED BY <1>2, SessionKept, PTL DEF Spec, CutsFindNoTurn
=============================================================================
