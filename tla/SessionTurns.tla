---------------------------- MODULE SessionTurns ----------------------------
(***************************************************************************)
(* The turns of one session in one process: admission, the file lock on    *)
(* the session's bundle, the registry of active turns, the deletion of the *)
(* session, its rewind, and the surfaces that let it go and load it again  *)
(* (internal/session/manager.go, manager_turn_lock_unix.go, turn_active.go,*)
(* subagent.go, rewind.go).                                                *)
(*                                                                         *)
(* A session is held in memory as a State object with its own copy of the  *)
(* history, written over the bundle at every change.  Nothing is held from *)
(* one step of an admission to the next: each is a critical section or a   *)
(* system call of its own.                                                 *)
(***************************************************************************)
EXTENDS Integers, FiniteSets

CONSTANTS
  Turns,          \* prompts, each of which tries to run one turn
  Rewinders,      \* calls of RewindSession
  Deleters,       \* calls of DeleteSessionTree
  Loaders,        \* calls of loadSessionFromDisk
  MaxTries,       \* attempts at the lock, 4 in the code
  MaxStates,      \* bound: State objects of the session
  MaxFiles,       \* bound: lock files at the path of the lock, over time
  MaxLetGo        \* bound: how often a surface lets the session go

None == "none"

ASSUME SessionAssumption ==
  /\ IsFiniteSet(Turns) /\ IsFiniteSet(Deleters)
  /\ None \notin Turns \cup Rewinders
  /\ MaxTries \in Nat \ {0} /\ MaxStates \in Nat \ {0}
  /\ MaxFiles \in Nat \ {0} /\ MaxLetGo \in Nat
  /\ Turns \cap Rewinders = {}

Actors == Turns \cup Rewinders      \* who takes the turn lock
States == 1..MaxStates
Files == 1..MaxFiles

VARIABLES
  live,           \* Manager.sessions: the live State, 0 for none
  states,         \* State objects so far
  hist,           \* State.Messages: the turns in each State's history
  cancelOf,       \* State.cancel: the turn it would cancel
  bundle,         \* the bundle on disk: does it exist, which turns it holds
  deleting,       \* Manager.deleting, a count of marks
  active,         \* Manager.activeTurns, a count of turns
  cancelled,      \* turns whose context is cancelled
  path,           \* the file at the path of the lock, 0 for none
  files,          \* lock files so far
  owner,          \* who holds the flock of each file
  written,        \* lock files that name their holder
  actor,          \* each prompt and rewind: where it is, its State, its file
  deleter, loader, letGo,
  broken          \* a lock file went from under somebody; nothing reads it

memory == <<live, states, hist, cancelOf>>
locks == <<path, files, owner, written, broken>>
calls == <<deleter, loader, letGo>>
vars == <<memory, bundle, deleting, active, cancelled, locks, actor, calls>>

\* A session that is loaded; the lock file of an earlier turn may be there.
Init ==
  /\ live = 1 /\ states = 1
  /\ hist = [s \in States |-> {}]
  /\ cancelOf = [s \in States |-> None]
  /\ bundle = [exists |-> TRUE, hist |-> {}]
  /\ deleting = 0 /\ active = 0 /\ cancelled = {}
  /\ path \in {0, 1} /\ files = path
  /\ owner = [f \in Files |-> None]
  /\ written = {path} \ {0}
  /\ actor = [a \in Actors |-> [pc |-> "idle", st |-> 0, file |-> 0, tries |-> 0]]
  /\ deleter = [d \in Deleters |-> "idle"]
  /\ loader = [l \in Loaders |-> [pc |-> "idle", snap |-> {}]]
  /\ letGo = 0
  /\ broken = FALSE

At(a, pc) == actor[a].pc = pc
Goes(a, pc) == actor' = [actor EXCEPT ![a].pc = pc]

Running == {t \in Turns : actor[t].pc \in {"running", "wrote"}}

-----------------------------------------------------------------------------
(* The turn lock (acquirePromptTurnLock), step by step.                    *)

\* Mutant: a turn that did not get the lock stays in the registry.
StaysMarked(a) == "done"

\* Where an attempt goes that has no lock, or no longer.
WithoutLock(a) == IF a \in Turns THEN "unmark" ELSE "done"

\* The file at the path is somebody's, who holds it or has it open.
InUse == \E a \in Actors : path # 0 /\ actor[a].file = path

Open(a) ==
  /\ At(a, "open") /\ bundle.exists
  /\ IF path # 0 THEN UNCHANGED <<path, files>>
     ELSE files < MaxFiles /\ files' = files + 1 /\ path' = files'
  /\ actor' = [actor EXCEPT ![a].pc = "flock", ![a].file = path']
  /\ UNCHANGED <<memory, bundle, deleting, active, cancelled, owner, written,
                 broken, calls>>

OpenFails(a) ==
  /\ At(a, "open") /\ ~bundle.exists
  /\ Goes(a, WithoutLock(a))
  /\ UNCHANGED <<memory, bundle, deleting, active, cancelled, locks, calls>>

\* Mutant: the lock is shared.
FlockShared(a) ==
  LET f == actor[a].file IN
  /\ At(a, "flock")
  /\ owner' = [owner EXCEPT ![f] = a]
  /\ written' = written \ {f}
  /\ Goes(a, "write")
  /\ UNCHANGED <<memory, bundle, deleting, active, cancelled, path, files, broken, calls>>

\* The file is taken and emptied.  (What it said before tells a reader in
\* between no more than an empty one.)
Flock(a) ==
  LET f == actor[a].file IN
  /\ At(a, "flock") /\ owner[f] = None
  /\ owner' = [owner EXCEPT ![f] = a]
  /\ written' = written \ {f}
  /\ Goes(a, "write")
  /\ UNCHANGED <<memory, bundle, deleting, active, cancelled, path, files, broken, calls>>

FlockBusy(a) ==
  /\ At(a, "flock") /\ owner[actor[a].file] # None
  /\ actor' = [actor EXCEPT ![a].pc = "stale", ![a].file = 0]
  /\ UNCHANGED <<memory, bundle, deleting, active, cancelled, locks, calls>>

WriteMeta(a) ==
  /\ At(a, "write")
  /\ written' = written \cup {actor[a].file}
  /\ Goes(a, "locked")
  /\ UNCHANGED <<memory, bundle, deleting, active, cancelled, path, files, owner,
                 broken, calls>>

\* tryBreakStaleTurnLock: a file that names a process that lives is not
\* stale, a missing or empty one is.
ReadStale(a) ==
  /\ At(a, "stale")
  /\ Goes(a, IF path \in written THEN WithoutLock(a) ELSE "remove")
  /\ UNCHANGED <<memory, bundle, deleting, active, cancelled, locks, calls>>

RemoveStale(a) ==
  /\ At(a, "remove")
  /\ path' = 0
  /\ broken' = (broken \/ InUse)
  /\ actor' = [actor EXCEPT ![a].tries = @ + 1,
                  ![a].pc = IF actor[a].tries + 1 < MaxTries THEN "open" ELSE WithoutLock(a)]
  /\ UNCHANGED <<memory, bundle, deleting, active, cancelled, files, owner, written, calls>>

Unlock(a) ==
  /\ At(a, "unlock")
  /\ owner' = [owner EXCEPT ![actor[a].file] = None]
  /\ actor' = [actor EXCEPT ![a].pc = WithoutLock(a), ![a].file = 0]
  /\ UNCHANGED <<memory, bundle, deleting, active, cancelled, path, files, written,
                 broken, calls>>

-----------------------------------------------------------------------------
(* A turn (HandleSessionPromptWithSender, beginTurn).                      *)

\* admissible: the State is still the live one and no deletion covers it.
Admissible(s) == live = s /\ deleting = 0

\* Save: the State's history goes over the bundle, which is made if missing.
Save(s, h) ==
  /\ hist' = [hist EXCEPT ![s] = h]
  /\ bundle' = [exists |-> TRUE, hist |-> h]

Prompt(t) ==
  /\ At(t, "idle") /\ live # 0
  /\ actor' = [actor EXCEPT ![t].pc = "admit", ![t].st = live]
  /\ UNCHANGED <<memory, bundle, deleting, active, cancelled, locks, calls>>

Admit(t) ==
  /\ At(t, "admit")
  /\ Goes(t, IF Admissible(actor[t].st) THEN "mark" ELSE "done")
  /\ UNCHANGED <<memory, bundle, deleting, active, cancelled, locks, calls>>

\* markTurnActive, before the lock.
Mark(t) ==
  /\ At(t, "mark")
  /\ active' = active + 1
  /\ Goes(t, "open")
  /\ UNCHANGED <<memory, bundle, deleting, cancelled, locks, calls>>

\* SetCancel.
Install(t) ==
  /\ At(t, "locked")
  /\ cancelOf' = [cancelOf EXCEPT ![actor[t].st] = t]
  /\ Goes(t, "recheck")
  /\ UNCHANGED <<live, states, hist, bundle, deleting, active, cancelled, locks, calls>>

\* Mutant: only the live entry is looked at again, not the deletion's mark.
RechecksLive(t) ==
  /\ At(t, "recheck")
  /\ Goes(t, IF live = actor[t].st THEN "running" ELSE "unlock")
  /\ UNCHANGED <<memory, bundle, deleting, active, cancelled, locks, calls>>

Recheck(t) ==
  /\ At(t, "recheck")
  /\ Goes(t, IF Admissible(actor[t].st) THEN "running" ELSE "unlock")
  /\ UNCHANGED <<memory, bundle, deleting, active, cancelled, locks, calls>>

\* The turn adds to the history of its State.
Write(t) ==
  LET s == actor[t].st IN
  /\ At(t, "running")
  /\ Save(s, hist[s] \cup {t})
  /\ Goes(t, "wrote")
  /\ UNCHANGED <<live, states, cancelOf, deleting, active, cancelled, locks, calls>>

\* It is over by itself, it failed or it heeds its cancel.
End(t) ==
  /\ t \in Running
  /\ Goes(t, "unlock")
  /\ UNCHANGED <<memory, bundle, deleting, active, cancelled, locks, calls>>

Unmark(t) ==
  /\ At(t, "unmark")
  /\ active' = active - 1
  /\ Goes(t, "done")
  /\ UNCHANGED <<memory, bundle, deleting, cancelled, locks, calls>>

-----------------------------------------------------------------------------
(* RewindSession: refused while a turn is seen, then the lock, then the    *)
(* cut with a second look.                                                 *)

Rewind(r) ==
  /\ At(r, "idle") /\ live # 0
  /\ actor' = [actor EXCEPT ![r].st = live,
                  ![r].pc = IF active = 0 /\ (path = 0 \/ owner[path] = None)
                            THEN "open" ELSE "done"]
  /\ UNCHANGED <<memory, bundle, deleting, active, cancelled, locks, calls>>

\* Mutant: no second look at the registry.
CutsAnyway(r) ==
  /\ At(r, "locked")
  /\ Save(actor[r].st, {})
  /\ Goes(r, "unlock")
  /\ UNCHANGED <<live, states, cancelOf, deleting, active, cancelled, locks, calls>>

Cut(r) ==
  /\ At(r, "locked")
  /\ IF active = 0 THEN Save(actor[r].st, {}) ELSE UNCHANGED <<hist, bundle>>
  /\ Goes(r, "unlock")
  /\ UNCHANGED <<live, states, cancelOf, deleting, active, cancelled, locks, calls>>

-----------------------------------------------------------------------------
(* DeleteSessionTree.                                                      *)

Deletes(d, pc) == deleter' = [deleter EXCEPT ![d] = pc]

MarkDeleting(d) ==
  /\ deleter[d] = "idle"
  /\ deleting' = deleting + 1
  /\ Deletes(d, "cancel")
  /\ UNCHANGED <<memory, bundle, active, cancelled, locks, actor, loader, letGo>>

CancelTurn(d) ==
  /\ deleter[d] = "cancel"
  /\ cancelled' = cancelled \cup (IF live = 0 THEN {} ELSE {cancelOf[live]} \ {None})
  /\ Deletes(d, "await")
  /\ UNCHANGED <<memory, bundle, deleting, active, locks, actor, loader, letGo>>

\* Mutant: the bundle goes without waiting for the turns.
DoesNotWait(d) ==
  /\ deleter[d] = "await"
  /\ Deletes(d, "drop")
  /\ UNCHANGED <<memory, bundle, deleting, active, cancelled, locks, actor, loader, letGo>>

Settled(d) ==
  /\ deleter[d] = "await" /\ active = 0
  /\ Deletes(d, "drop")
  /\ UNCHANGED <<memory, bundle, deleting, active, cancelled, locks, actor, loader, letGo>>

NotSettled(d) ==
  /\ deleter[d] = "await" /\ active > 0
  /\ Deletes(d, "unmark")
  /\ UNCHANGED <<memory, bundle, deleting, active, cancelled, locks, actor, loader, letGo>>

DropLive(d) ==
  /\ deleter[d] = "drop"
  /\ live' = 0
  /\ Deletes(d, "remove")
  /\ UNCHANGED <<states, hist, cancelOf, bundle, deleting, active, cancelled, locks,
                 actor, loader, letGo>>

RemoveBundle(d) ==
  /\ deleter[d] = "remove"
  /\ bundle' = [exists |-> FALSE, hist |-> {}]
  /\ path' = 0 /\ broken' = (broken \/ InUse)
  /\ Deletes(d, "unmark")
  /\ UNCHANGED <<memory, deleting, active, cancelled, files, owner, written, actor,
                 loader, letGo>>

UnmarkDeleting(d) ==
  /\ deleter[d] = "unmark"
  /\ deleting' = deleting - 1
  /\ Deletes(d, "done")
  /\ UNCHANGED <<memory, bundle, active, cancelled, locks, actor, loader, letGo>>

-----------------------------------------------------------------------------
(* A surface lets the session go (ForgetLiveSession), whatever runs on it, *)
(* and one loads it again.                                                 *)

LetGo ==
  /\ live # 0 /\ letGo < MaxLetGo
  /\ live' = 0 /\ letGo' = letGo + 1
  /\ UNCHANGED <<states, hist, cancelOf, bundle, deleting, active, cancelled, locks,
                 actor, deleter, loader>>

ReadSnapshot(l) ==
  /\ loader[l].pc = "idle" /\ live = 0 /\ bundle.exists
  /\ loader' = [loader EXCEPT ![l] = [pc |-> "read", snap |-> bundle.hist]]
  /\ UNCHANGED <<memory, bundle, deleting, active, cancelled, locks, actor, deleter, letGo>>

\* registerSession: whoever registered first stays.
Register(l) ==
  /\ loader[l].pc = "read"
  /\ IF live # 0 THEN UNCHANGED <<live, states, hist>>
     ELSE /\ states < MaxStates /\ states' = states + 1 /\ live' = states'
          /\ hist' = [hist EXCEPT ![live'] = loader[l].snap]
  /\ loader' = [loader EXCEPT ![l] = [pc |-> "done", snap |-> {}]]
  /\ UNCHANGED <<cancelOf, bundle, deleting, active, cancelled, locks, actor, deleter, letGo>>

-----------------------------------------------------------------------------

LockStep(a) ==
  \/ Open(a) \/ OpenFails(a) \/ Flock(a) \/ FlockBusy(a) \/ WriteMeta(a)
  \/ ReadStale(a) \/ RemoveStale(a) \/ Unlock(a)

TurnStep(t) ==
  \/ Prompt(t) \/ Admit(t) \/ Mark(t) \/ Install(t) \/ Recheck(t)
  \/ Write(t) \/ End(t) \/ Unmark(t)

RewindStep(r) == Rewind(r) \/ Cut(r)

DeleteStep(d) ==
  \/ MarkDeleting(d) \/ CancelTurn(d) \/ Settled(d) \/ NotSettled(d)
  \/ DropLive(d) \/ RemoveBundle(d) \/ UnmarkDeleting(d)

Next ==
  \/ \E a \in Actors : LockStep(a)
  \/ \E t \in Turns : TurnStep(t)
  \/ \E r \in Rewinders : RewindStep(r)
  \/ \E d \in Deleters : DeleteStep(d)
  \/ \E l \in Loaders : ReadSnapshot(l) \/ Register(l)
  \/ LetGo

Spec == Init /\ [][Next]_vars

-----------------------------------------------------------------------------
(* Properties.                                                             *)

Marked(t) == actor[t].pc \notin {"idle", "admit", "mark", "done"}

\* Every variable has its type, and the counts are what they count: turns
\* from their mark to their end, deletions from mark to unmark.
TypeOK ==
  /\ live \in 0..MaxStates /\ path \in 0..MaxFiles
  /\ hist \in [States -> SUBSET Turns] /\ bundle.hist \subseteq Turns
  /\ active = Cardinality({t \in Turns : Marked(t)})
  /\ deleting = Cardinality({d \in Deleters : deleter[d] \notin {"idle", "done"}})

HasLock(a) ==
  actor[a].pc \in {"write", "locked", "recheck", "running", "wrote", "unlock"}

\* Two prompts, or a prompt and a rewind, have the turn lock at once only
\* after a lock file was removed while somebody had it open.
LockExcludes ==
  \A a, b \in Actors : a # b /\ HasLock(a) /\ HasLock(b) => broken

\* Once a deletion has cancelled what it found, no turn runs on the session
\* that was not cancelled: whichever comes first, the turn's cancel is
\* installed for the deletion to find, or the turn sees the mark.
DeleteReachesTurns ==
  \A d \in Deleters, t \in Running :
    /\ deleter[d] \in {"await", "drop", "remove"}
    /\ actor[t].st = live /\ ~broken
    => t \in cancelled

\* No turn runs on past the removal of its bundle, whatever was let go,
\* loaded again or waited for in the meantime.
RunningHasBundle == Running # {} => bundle.exists

\* A rewind never cuts a history a turn is being run on or is about to be,
\* not even when the lock let both in.
CutsFindNoTurn ==
  [][\A s \in States : ~(hist[s] \subseteq hist'[s]) =>
       \A t \in Turns : Marked(t) => actor[t].st # s]_vars

\* docs/features/sessions.md:71, "A session runs one turn at a time."
OneTurnAtATime == Cardinality(Running) <= 1

\* Nothing a turn wrote leaves the bundle but by a rewind or a deletion
\* (manager.go:1014-1017, 2208-2211).
HistoryIsKept ==
  [][\A t \in Turns : Write(t) => bundle.hist \subseteq bundle'.hist]_vars
=============================================================================
