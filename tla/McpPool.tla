------------------------------ MODULE McpPool ------------------------------
(***************************************************************************)
(* The pool of MCP server connections of one process, internal/mcp/pool.go *)
(* with the manager's use of it (session/mcp_pool.go, manager.go).         *)
(*                                                                         *)
(* Callers take leases and give them back.  A server is dialed once for    *)
(* whoever waits, lingers for a delay when nothing holds it, is kept up    *)
(* when the configuration says so, and is stopped outside the pool's lock. *)
(* Managers change what is declared and then bring the pool in line.       *)
(*                                                                         *)
(* One action per critical section of Pool.mu.  An entry is one start of a *)
(* server: a server started again is a new entry under the same key.       *)
(***************************************************************************)
EXTENDS Integers, FiniteSets

CONSTANTS
  Servers,        \* the pool keys
  Callers,        \* who takes leases, one at a time each
  Managers,       \* who changes the declarations, and then syncs the pool
  MaxEntries,     \* bound: how many starts
  MaxGen,         \* bound: how often a server goes idle and is taken again
  MaxChanges      \* bound: how many changes of the declarations

ASSUME McpAssumption ==
  /\ IsFiniteSet(Servers) /\ IsFiniteSet(Callers)
  /\ MaxEntries \in Nat /\ MaxGen \in Nat /\ MaxChanges \in Nat

Entries == 1..MaxEntries

VARIABLES
  entry,          \* each start of a server
  map,            \* Pool.entries: the entry of each key, 0 for none
  kept,           \* Pool.kept
  stopping,       \* Pool.stopping, by entry
  closed,         \* Pool.closed
  starts,         \* entries used so far
  caller,         \* what each caller is doing
  declared,       \* servers the configuration wants
  keeping,        \* Manager.keepGlobalMCP
  manager,        \* what each manager is doing
  changes,        \* changes so far
  due             \* entries unheld for the whole delay; nothing reads it

poolVars == <<entry, map, kept, stopping, closed, starts>>
confVars == <<declared, keeping, manager, changes>>
vars == <<poolVars, caller, confVars, due>>

Unused == [key |-> "none", conn |-> "unused", refs |-> 0, kept |-> FALSE,
           ended |-> FALSE, armed |-> FALSE, gen |-> 0, fired |-> {},
           check |-> "none"]
IdleCaller == [pc |-> "idle", e |-> 0]
IdleManager == [pc |-> "idle", want |-> {}, todo |-> {}, e |-> 0]

-----------------------------------------------------------------------------
(* Entries.                                                                *)

Dialed == {"up", "gone", "stopped"}      \* poolEntry.conn is set
Gone == {"gone", "stopped"}              \* conn.gone is closed

Unheld(x) == x.refs = 0 /\ ~x.kept /\ x.conn \in Dialed /\ ~x.ended
Lingers(x) == x.armed /\ Unheld(x)

Start(s, k, refs) == [Unused EXCEPT !.key = s, !.conn = "dialing", !.kept = k,
                                    !.refs = refs]

\* The entries for new starts of the keys S, n entries being used.
Slots(S, n) ==
  {at \in [S -> (n + 1)..(n + Cardinality(S))] :
     \A s, t \in S : at[s] = at[t] => s = t}

\* The pool starts servers to keep.
Started(old, at) ==
  [e \in Entries |-> IF \E s \in DOMAIN at : at[s] = e
                     THEN Start(CHOOSE s \in DOMAIN at : at[s] = e, TRUE, 0)
                     ELSE old[e]]

CancelIdle(x) == IF x.armed THEN [x EXCEPT !.armed = FALSE, !.gen = @ + 1] ELSE x

Arm(x) == IF x.armed THEN x ELSE [x EXCEPT !.armed = TRUE, !.gen = @ + 1]

\* endLocked, for the entry.  Callbacks of its timers find none from now on.
End(x) == [x EXCEPT !.armed = FALSE, !.gen = 0, !.fired = {}, !.ended = TRUE]

Without(e) == [s \in Servers |-> IF map[s] = e THEN 0 ELSE map[s]]

\* What an update of one entry does to the pool: an entry that has just
\* ended with a connection leaves the map and counts as stopping.
Update(e, x) ==
  LET ends == x.ended /\ ~entry[e].ended IN
  /\ entry' = [entry EXCEPT ![e] = x]
  /\ map' = IF ends THEN Without(e) ELSE map
  /\ stopping' = IF ends /\ x.conn \in Dialed THEN stopping \cup {e} ELSE stopping
  /\ due' = IF x.armed THEN due ELSE due \ {e}

\* idleLocked: still needed, left to its timer, or (delay zero) ended at once.
IdleLocked(x) ==
  IF ~Unheld(x) THEN {x}
  ELSE IF closed THEN {End(x)}
  ELSE {Arm(x), End(x)}

\* Mutant: the verdict read outside the lock is acted on as it is.
EndAnyway(x) == IF x.conn \in Dialed /\ ~x.ended THEN End(x) ELSE x

\* stopIfUnwanted, after the check said no.
EndIfUnheld(x) == IF Unheld(x) THEN End(x) ELSE x

-----------------------------------------------------------------------------
(* Sessions have not opened yet; a surface that keeps the global servers   *)
(* has started them (StartGlobalMCPServers).                               *)

Init ==
  /\ declared \in SUBSET Servers /\ changes = 0
  /\ keeping \in BOOLEAN
  /\ kept = (IF keeping THEN declared ELSE {})
  /\ \E at \in Slots(kept, 0) :
       /\ entry = Started([e \in Entries |-> Unused], at)
       /\ map = [s \in Servers |-> IF s \in kept THEN at[s] ELSE 0]
  /\ starts = Cardinality(kept) /\ starts <= MaxEntries
  /\ stopping = {} /\ due = {}
  /\ closed = FALSE
  /\ caller = [c \in Callers |-> IdleCaller]
  /\ manager = [m \in Managers |-> IdleManager]

-----------------------------------------------------------------------------
(* Leases.                                                                 *)

DialNew(c, s) ==
  /\ map[s] = 0 /\ starts < MaxEntries
  /\ starts' = starts + 1
  /\ entry' = [entry EXCEPT ![starts + 1] = Start(s, s \in kept, 1)]
  /\ map' = [map EXCEPT ![s] = starts + 1]
  /\ caller' = [caller EXCEPT ![c] = [pc |-> "wait", e |-> starts + 1]]
  /\ UNCHANGED <<stopping, due>>

Join(c, s) ==
  LET e == map[s] IN
  /\ e # 0 /\ entry[e].gen < MaxGen
  /\ Update(e, CancelIdle([entry[e] EXCEPT !.refs = @ + 1]))
  /\ caller' = [caller EXCEPT ![c] = [pc |-> "wait", e |-> e]]
  /\ UNCHANGED starts

\* Acquire joins the start there is, or makes one.  Its retry is another call.
Acquire(c, s) ==
  /\ caller[c].pc = "idle" /\ ~closed
  /\ DialNew(c, s) \/ Join(c, s)
  /\ UNCHANGED <<kept, closed, confVars>>

\* From here the caller owes the pool its reference, with a lease or without.
Lease(c) ==
  /\ caller[c].pc = "wait"
  /\ entry[caller[c].e].conn = "up"
  /\ caller' = [caller EXCEPT ![c].pc = "held"]
  /\ UNCHANGED <<poolVars, confVars, due>>

\* The start failed, or the server went away as it answered: the entry is
\* off the map before the caller tries again.
NoLease(c) ==
  LET e == caller[c].e IN
  /\ caller[c].pc = "wait"
  /\ entry[e].conn \in Gone \cup {"failed"}
  /\ map' = IF entry[e].conn = "failed" THEN map ELSE Without(e)
  /\ caller' = [caller EXCEPT ![c].pc = "held"]
  /\ UNCHANGED <<entry, kept, stopping, closed, starts, confVars, due>>

\* Mutant: a caller that gives up forgets its reference.
GivesUpOnly(c) ==
  /\ caller[c].pc = "wait"
  /\ caller' = [caller EXCEPT ![c] = IdleCaller]
  /\ UNCHANGED <<entry, map, kept, stopping, closed, starts, confVars, due>>

\* The caller's context ends.  (The deadline of the start, which takes the
\* entry off the map in the same step, is DropExpired right before it.)
GiveUp(c) ==
  /\ caller[c].pc = "wait"
  /\ caller' = [caller EXCEPT ![c].pc = "held"]
  /\ UNCHANGED <<entry, map, kept, stopping, closed, starts, confVars, due>>

Release(c) ==
  LET e == caller[c].e IN
  /\ caller[c].pc = "held"
  /\ \E x \in IdleLocked([entry[e] EXCEPT !.refs = @ - 1]) :
       /\ Update(e, x)
       /\ caller' = [caller EXCEPT ![c] =
                       IF x.armed /\ x.refs = 0 THEN [pc |-> "check", e |-> e]
                       ELSE IdleCaller]
  /\ UNCHANGED <<kept, closed, starts, confVars>>

\* stopIfUnwanted: the check runs outside the lock.
CheckWanted(c) ==
  /\ caller[c].pc = "check"
  /\ caller' = [caller EXCEPT ![c] =
                  IF entry[@.e].key \in declared THEN IdleCaller
                  ELSE [@ EXCEPT !.pc = "unwanted"]]
  /\ UNCHANGED <<poolVars, confVars, due>>

StopUnwanted(c) ==
  LET e == caller[c].e IN
  /\ caller[c].pc = "unwanted"
  /\ Update(e, EndIfUnheld(entry[e]))
  /\ caller' = [caller EXCEPT ![c] = IdleCaller]
  /\ UNCHANGED <<kept, closed, starts, confVars>>

-----------------------------------------------------------------------------
(* A start.                                                                *)

\* The AfterFunc of startLocked: the deadline passed, or Close cancelled.
DropExpired(e) ==
  /\ entry[e].conn = "dialing"
  /\ \E s \in Servers : map[s] = e
  /\ map' = Without(e)
  /\ UNCHANGED <<entry, kept, stopping, closed, starts, caller, confVars, due>>

OnMap(e) == ~closed /\ map[entry[e].key] = e

\* It fails, or it answers when nothing would find it: then the server is
\* stopped before the start counts as over.
DialFails(e) ==
  /\ entry[e].conn = "dialing"
  /\ Update(e, [entry[e] EXCEPT !.conn = "failed", !.ended = TRUE])
  /\ UNCHANGED <<kept, closed, starts, caller, confVars>>

Answered(x) == [x EXCEPT !.conn = "up"]

\* Mutant: only the release of a lease asks.
AsksNobody(x) == x

\* A server nobody waits for any more is asked about.
Asks(x) == [x EXCEPT !.check = IF x.armed THEN "check" ELSE "none"]

\* Mutant: a late answer is installed.
InstallsLate(e) ==
  /\ entry[e].conn = "dialing"
  /\ \E x \in IdleLocked(Answered(entry[e])) :
       Update(e, Asks(x))
  /\ UNCHANGED <<kept, closed, starts, caller, confVars>>

DialInstalls(e) ==
  /\ entry[e].conn = "dialing" /\ OnMap(e)
  /\ \E x \in IdleLocked(Answered(entry[e])) :
       Update(e, Asks(x))
  /\ UNCHANGED <<kept, closed, starts, caller, confVars>>

DialChecks(e) ==
  /\ entry[e].check = "check"
  /\ entry' = [entry EXCEPT ![e].check =
                 IF entry[e].key \in declared THEN "none" ELSE "unwanted"]
  /\ UNCHANGED <<map, kept, stopping, closed, starts, caller, confVars, due>>

DialStops(e) ==
  /\ entry[e].check = "unwanted"
  /\ Update(e, EndIfUnheld([entry[e] EXCEPT !.check = "none"]))
  /\ UNCHANGED <<kept, closed, starts, caller, confVars>>

-----------------------------------------------------------------------------
(* Timers and connections.                                                 *)

\* The timer runs out; its callback waits for the lock.
TimerFires(e) ==
  /\ entry[e].armed /\ entry[e].gen \notin entry[e].fired
  /\ entry' = [entry EXCEPT ![e].fired = @ \cup {entry[e].gen}]
  /\ due' = due \cup {e}
  /\ UNCHANGED <<map, kept, stopping, closed, starts, caller, confVars>>

\* Mutant: a timer cancelled after it fired is not told from the current one.
ExpireAny(e, g) ==
  /\ g \in entry[e].fired
  /\ LET x == [entry[e] EXCEPT !.fired = @ \ {g}] IN
     Update(e, IF ~x.armed THEN x ELSE EndIfUnheld([x EXCEPT !.armed = FALSE]))
  /\ UNCHANGED <<kept, closed, starts, caller, confVars>>

Expire(e, g) ==
  /\ g \in entry[e].fired
  /\ LET x == [entry[e] EXCEPT !.fired = @ \ {g}] IN
     Update(e, IF x.gen # g \/ ~x.armed THEN x
               ELSE EndIfUnheld([x EXCEPT !.armed = FALSE]))
  /\ UNCHANGED <<kept, closed, starts, caller, confVars>>

\* The server exits or drops the connection; its process group may stay.
\* (Of a server the pool already ends, nobody asks.)
GoesAway(e) ==
  /\ entry[e].conn = "up" /\ ~entry[e].ended
  /\ entry' = [entry EXCEPT ![e].conn = "gone"]
  /\ UNCHANGED <<map, kept, stopping, closed, starts, caller, confVars, due>>

\* watch finds an entry the pool did not end.
Watch(e) ==
  /\ entry[e].conn \in Gone /\ ~entry[e].ended
  /\ Update(e, End(entry[e]))
  /\ UNCHANGED <<kept, closed, starts, caller, confVars>>

\* conn.close by whoever ended the entry, or by Close: what was left of the
\* server, its process group included, is gone after it.
CloseConn(e) ==
  /\ e \in stopping
  /\ entry' = [entry EXCEPT ![e].conn = "stopped"]
  /\ stopping' = stopping \ {e}
  /\ UNCHANGED <<map, kept, closed, starts, caller, confVars, due>>

-----------------------------------------------------------------------------
(* The configuration: a change, then what refreshMCPServer does with it.   *)

\* (After Close the pool ignores them.)
Flip(s) ==
  /\ ~closed /\ changes < MaxChanges /\ changes' = changes + 1
  /\ declared' = IF s \in declared THEN declared \ {s} ELSE declared \cup {s}

\* A management surface writes the file and syncs, or the watcher of the
\* file sees that it moved.
Change(m, s) ==
  /\ manager[m].pc = "idle"
  /\ Flip(s)
  /\ manager' = [manager EXCEPT ![m].pc = IF keeping THEN "read" ELSE "recheck"]
  /\ UNCHANGED <<poolVars, caller, keeping, due>>

ReadDeclared(m) ==
  /\ manager[m].pc = "read"
  /\ manager' = [manager EXCEPT ![m].pc = "keep", ![m].want = declared]
  /\ UNCHANGED <<poolVars, caller, declared, keeping, changes, due>>

\* Mutant: a server let go waits for its last lease and then for the delay.
LetGoLater(x) == [x EXCEPT !.kept = FALSE]

LetGo(x) == EndIfUnheld([x EXCEPT !.kept = FALSE])

TakeUp(x) == CancelIdle([x EXCEPT !.kept = TRUE])

Keep(m) ==
  LET want == manager[m].want
      gone == {map[s] : s \in {t \in kept \ want : map[t] # 0}}
      held == {map[s] : s \in {t \in want : map[t] # 0}}
      new == {s \in want : map[s] = 0}
      after == [e \in Entries |->
                  CASE e \in gone -> LetGo(entry[e])
                    [] e \in held -> TakeUp(entry[e])
                    [] e \notin gone \cup held -> entry[e]]
      ends == {e \in gone : after[e].ended} IN
  /\ manager[m].pc = "keep"
  /\ IF closed THEN UNCHANGED <<entry, map, kept, stopping, starts, due>>
     ELSE \E at \in Slots(new, starts) :
       /\ starts + Cardinality(new) <= MaxEntries
       /\ kept' = want
       /\ entry' = Started(after, at)
       /\ map' = [s \in Servers |-> IF s \in new THEN at[s]
                                    ELSE IF map[s] \in ends THEN 0 ELSE map[s]]
       /\ stopping' = stopping \cup ends
       /\ starts' = starts + Cardinality(new)
       /\ due' = due \ (held \cup ends)
  /\ manager' = [manager EXCEPT ![m].pc = "recheck", ![m].want = {}]
  /\ UNCHANGED <<closed, caller, declared, keeping, changes>>

NextCheck(todo) == [pc |-> IF todo = {} THEN "idle" ELSE "checks", want |-> {},
                    todo |-> todo, e |-> 0]

Recheck(m) ==
  /\ manager[m].pc = "recheck"
  /\ manager' = [manager EXCEPT ![m] = NextCheck(
       {e \in Entries : Lingers(entry[e]) /\ map[entry[e].key] = e})]
  /\ UNCHANGED <<poolVars, caller, declared, keeping, changes, due>>

RecheckOne(m, e) ==
  /\ manager[m].pc = "checks" /\ e \in manager[m].todo
  /\ manager' = [manager EXCEPT ![m] =
       IF entry[e].key \in declared THEN NextCheck(manager[m].todo \ {e})
       ELSE [manager[m] EXCEPT !.pc = "unwanted", !.todo = @ \ {e}, !.e = e]]
  /\ UNCHANGED <<poolVars, caller, declared, keeping, changes, due>>

RecheckStops(m) ==
  LET e == manager[m].e IN
  /\ manager[m].pc = "unwanted"
  /\ Update(e, EndIfUnheld(entry[e]))
  /\ manager' = [manager EXCEPT ![m] = NextCheck(@.todo)]
  /\ UNCHANGED <<kept, closed, starts, caller, declared, keeping, changes>>

-----------------------------------------------------------------------------
(* Close.                                                                  *)

Close ==
  LET ends == {map[s] : s \in Servers} \cap
              {e \in Entries : entry[e].conn \in Dialed /\ ~entry[e].ended}
      off == {map[s] : s \in Servers} IN
  /\ ~closed /\ closed' = TRUE
  /\ entry' = [e \in Entries |->
                 CASE e \in ends -> End(entry[e])
                   [] e \in off \ ends -> CancelIdle(entry[e])
                   [] e \notin off -> entry[e]]
  /\ map' = [s \in Servers |-> 0]
  /\ kept' = {}
  /\ stopping' = stopping \cup ends
  /\ due' = due \ off
  /\ UNCHANGED <<starts, caller, confVars>>

-----------------------------------------------------------------------------

CallerStep(c) ==
  \/ \E s \in Servers : Acquire(c, s)
  \/ Lease(c) \/ NoLease(c) \/ GiveUp(c) \/ Release(c)
  \/ CheckWanted(c) \/ StopUnwanted(c)

EntryStep(e) ==
  \/ DropExpired(e)
  \/ DialFails(e) \/ DialInstalls(e)
  \/ DialChecks(e) \/ DialStops(e)
  \/ TimerFires(e) \/ (\E g \in entry[e].fired : Expire(e, g))
  \/ GoesAway(e) \/ Watch(e) \/ CloseConn(e)

ManagerStep(m) ==
  \/ \E s \in Servers : Change(m, s)
  \/ ReadDeclared(m) \/ Keep(m) \/ Recheck(m)
  \/ \E e \in manager[m].todo : RecheckOne(m, e)
  \/ RecheckStops(m)

Next ==
  \/ \E c \in Callers : CallerStep(c)
  \/ \E e \in Entries : EntryStep(e)
  \/ \E m \in Managers : ManagerStep(m)
  \/ Close

Spec == Init /\ [][Next]_vars

-----------------------------------------------------------------------------
(* Properties.                                                             *)

\* Every variable has its type, and an entry's count of references is the
\* number of callers that wait for it or hold a lease on it.
TypeOK ==
  /\ map \in [Servers -> 0..MaxEntries] /\ kept \subseteq Servers
  /\ stopping \subseteq Entries /\ starts \in 0..MaxEntries
  /\ \A e \in Entries :
       entry[e].refs = Cardinality({c \in Callers :
         caller[c].e = e /\ caller[c].pc \in {"wait", "held"}})
  /\ \A m \in Managers : manager[m].want \subseteq Servers

\* A server that runs is never out of reach: the next caller for its key
\* finds it on the map, or the pool has ended it and counts it as stopping.
\* So no key has two usable servers, and none runs on that nobody can stop.
NoServerIsLost ==
  \A e \in Entries : entry[e].conn = "up" =>
    IF entry[e].ended THEN e \in stopping ELSE map[entry[e].key] = e

\* Only a server that died or the end of the process ends a server somebody
\* holds or waits for, or the pool keeps: no timer, however late it gets the
\* lock, and no verdict, however old, does.
HeldIsSpared ==
  [][\A e \in Entries :
       ~entry[e].ended /\ entry'[e].ended /\ entry[e].conn = "up"
       => closed' \/ (entry'[e].refs = 0 /\ ~entry'[e].kept)]_vars

\* A server that nothing holds and nothing keeps has its stop timer running:
\* no order of takers, failures and changes leaves it up for good.
IdleIsTimed ==
  \A e \in Entries :
    Unheld(entry[e]) /\ entry[e].conn = "up" => entry[e].armed

\* A timer stops a server only when it went unheld for the whole delay since
\* it was last held: a taker in between starts the delay afresh.
DelayIsKept ==
  [][\A e \in Entries :
       ~entry[e].ended /\ entry'[e].ended /\ e \notin due
       => \A g \in entry[e].fired : ~Expire(e, g)]_vars

\* Somebody is about to ask whether the server is still declared.
WillBeAsked(e) ==
  \/ \E c \in Callers : caller[c].e = e /\ caller[c].pc \in {"check", "unwanted"}
  \/ entry[e].check # "none"
  \/ \E m \in Managers : \/ manager[m].pc \in {"read", "keep", "recheck"}
                        \/ e \in manager[m].todo \/ manager[m].e = e

\* A server whose declaration is out of effect does not wait out the delay:
\* whoever let it go last, or whoever changed the declaration, still asks.
UnwantedIsAsked ==
  \A e \in Entries :
    /\ Lingers(entry[e]) /\ entry[e].conn = "up" /\ entry[e].key \notin declared
    => WillBeAsked(e)
=============================================================================
