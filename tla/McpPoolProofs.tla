---------------------------- MODULE McpPoolProofs ----------------------------
(***************************************************************************)
(* What the pool of MCP connections keeps, for any servers, callers and    *)
(* managers and any number of starts, with proofs that TLAPS checks.       *)
(*                                                                         *)
(* The argument: an entry alone is sound (its timer runs exactly while     *)
(* nothing holds a server that is up), it fits the pool (the map has every *)
(* server that is up and not ended, the stopping ones are ended), and the  *)
(* map has of each key an entry of that key that was not ended.            *)
(***************************************************************************)
EXTENDS McpPool, FiniteSetTheorems, TLAPS

-----------------------------------------------------------------------------
(* The inductive invariant.                                                *)

EntryStates ==
  [key : Servers \cup {"none"},
   conn : {"unused", "dialing", "up", "gone", "failed", "stopped"},
   refs : Nat, kept : BOOLEAN, ended : BOOLEAN, armed : BOOLEAN, gen : Nat,
   fired : SUBSET Nat, check : {"none", "check", "unwanted"}]

Typed ==
  /\ entry \in [Entries -> EntryStates] /\ map \in [Servers -> 0..MaxEntries]
  /\ kept \subseteq Servers /\ declared \subseteq Servers
  /\ stopping \subseteq Entries /\ starts \in 0..MaxEntries
  /\ caller \in [Callers -> [pc : {"idle", "wait", "held", "check", "unwanted"},
                             e : 0..MaxEntries]]
  /\ manager \in [Managers -> [pc : {"idle", "read", "keep", "recheck", "checks",
                                     "unwanted"},
                               want : SUBSET Servers, todo : SUBSET Entries,
                               e : 0..MaxEntries]]

\* Who is at work has an entry.
Aimed ==
  /\ \A c \in Callers : caller[c].pc # "idle" => caller[c].e \in 1..starts
  /\ \A m \in Managers : manager[m].pc = "unwanted" => manager[m].e \in Entries

\* What an entry keeps whatever is done to its references: an ended one has no
\* timer, and no timer that fired is of a later turn than the current one.
Loose(x) ==
  /\ x.conn # "unused" => x.key \in Servers
  /\ x.ended => ~x.armed
  /\ x.conn \in {"failed", "stopped"} => x.ended
  /\ x.conn = "dialing" => ~x.ended
  /\ x.conn \notin Dialed => ~x.armed
  /\ \A g \in x.fired : g <= x.gen

\* The timer runs while nothing holds the server, and only then.
Sound(x) ==
  /\ Loose(x)
  /\ x.armed => Unheld(x)
  /\ x.conn = "up" /\ Unheld(x) => x.armed

\* An entry in the pool.
Fits(e) ==
  /\ Sound(entry[e])
  /\ e > starts => entry[e].conn = "unused"
  /\ e \in stopping => entry[e].ended /\ entry[e].conn \in {"up", "gone"}
  /\ entry[e].conn = "up" => IF entry[e].ended THEN e \in stopping
                             ELSE map[entry[e].key] = e
  /\ entry[e].armed /\ entry[e].gen \in entry[e].fired => e \in due

\* The map.
Mapped ==
  \A s \in Servers : map[s] # 0 =>
    /\ map[s] \in 1..starts
    /\ entry[map[s]].key = s /\ ~entry[map[s]].ended
    /\ entry[map[s]].conn \notin {"unused", "failed"}
    /\ ~closed

Holders(e) == {c \in Callers : caller[c].e = e /\ caller[c].pc \in {"wait", "held"}}

Counted == \A e \in Entries : entry[e].refs = Cardinality(Holders(e))

Placed == Mapped /\ \A e \in Entries : Fits(e)

Pooled == Typed /\ Aimed /\ Placed /\ Counted

\* A server that is up and held or kept is ended by Close alone.
Spared ==
  \A e \in Entries :
    ~entry[e].ended /\ entry'[e].ended /\ entry[e].conn = "up"
    => closed' \/ (entry'[e].refs = 0 /\ ~entry'[e].kept)

-----------------------------------------------------------------------------
(* Entries.                                                                *)

\* A start has no timer.
LEMMA StartSound ==
  ASSUME NEW s \in Servers, NEW k \in BOOLEAN, NEW r \in Nat
  PROVE  LET x == Start(s, k, r) IN
         /\ x \in EntryStates /\ x.key = s /\ x.conn = "dialing" /\ x.refs = r
         /\ ~x.ended /\ ~x.armed /\ x.fired = {} /\ x.kept = k
         /\ x.check = "none"
BY DEF Start, Unused, EntryStates

\* What ends an entry stops its timer.
LEMMA EndSound ==
  ASSUME NEW x \in EntryStates, Loose(x), x.conn \in Dialed
  PROVE  /\ End(x) \in EntryStates /\ Sound(End(x))
         /\ End(x).key = x.key /\ End(x).conn = x.conn /\ End(x).refs = x.refs
         /\ End(x).kept = x.kept /\ End(x).check = x.check
         /\ End(x).ended /\ ~End(x).armed
BY DEF EntryStates, Loose, Sound, End, Unheld, Dialed

\* A taker stops the timer.
LEMMA CancelSound ==
  ASSUME NEW x \in EntryStates, Loose(x), ~Unheld(x)
  PROVE  /\ CancelIdle(x) \in EntryStates /\ Sound(CancelIdle(x))
         /\ CancelIdle(x).key = x.key /\ CancelIdle(x).conn = x.conn
         /\ CancelIdle(x).refs = x.refs /\ CancelIdle(x).kept = x.kept
         /\ CancelIdle(x).check = x.check
         /\ CancelIdle(x).ended = x.ended /\ ~CancelIdle(x).armed
<1>1. CASE x.armed
  <2> DEFINE y == [x EXCEPT !.armed = FALSE, !.gen = @ + 1]
  <2>0. x.gen + 1 \in Nat
        BY DEF EntryStates
  <2>1. /\ y \in EntryStates /\ ~y.armed /\ y.gen = x.gen + 1 /\ x.gen \in Nat
        /\ y.key = x.key /\ y.conn = x.conn /\ y.refs = x.refs /\ y.kept = x.kept
        /\ y.check = x.check /\ y.ended = x.ended /\ y.fired = x.fired
        BY <2>0 DEF EntryStates
  <2>2. \A g \in x.fired : g \in Nat /\ g <= x.gen
        BY DEF EntryStates, Loose
  <2>3. CancelIdle(x) = y
        BY <1>1 DEF CancelIdle
  <2> HIDE DEF y
  <2>4. Loose(y) /\ ~Unheld(y)
        BY <2>1, <2>2 DEF Loose, Unheld
  <2> QED BY <2>1, <2>3, <2>4 DEF Sound
<1>2. CASE ~x.armed
      BY <1>2 DEF CancelIdle, Sound
<1> QED BY <1>1, <1>2

\* An entry that nothing holds gets its timer, or ends.
LEMMA IdleSound ==
  ASSUME NEW x \in EntryStates, Loose(x), ~x.armed, NEW y \in IdleLocked(x)
  PROVE  /\ y \in EntryStates /\ Sound(y)
         /\ y.key = x.key /\ y.conn = x.conn /\ y.refs = x.refs /\ y.kept = x.kept
         /\ y.check = x.check /\ (x.ended => y.ended)
         /\ y.ended /\ ~x.ended => Unheld(x)
         /\ y.armed => y.gen \notin y.fired
<1>1. CASE y = x /\ ~Unheld(x)
      BY <1>1 DEF Sound
<1>2. CASE y = End(x) /\ Unheld(x)
      BY <1>2, EndSound DEF Unheld
<1>3. CASE y = Arm(x) /\ Unheld(x)
  <2> DEFINE z == [x EXCEPT !.armed = TRUE, !.gen = @ + 1]
  <2>0. x.gen + 1 \in Nat
        BY DEF EntryStates
  <2>1. /\ z \in EntryStates /\ z.armed /\ z.gen = x.gen + 1 /\ x.gen \in Nat
        /\ z.key = x.key /\ z.conn = x.conn /\ z.refs = x.refs /\ z.kept = x.kept
        /\ z.check = x.check /\ z.ended = x.ended /\ z.fired = x.fired
        BY <2>0 DEF EntryStates
  <2>2. \A g \in x.fired : g \in Nat /\ g <= x.gen
        BY DEF EntryStates, Loose
  <2>3. y = z
        BY <1>3 DEF Arm
  <2> HIDE DEF z
  <2>4. Loose(z) /\ Unheld(z) /\ z.gen \notin z.fired
        BY <1>3, <2>1, <2>2 DEF Loose, Unheld
  <2> QED BY <2>1, <2>3, <2>4 DEF Sound
<1> QED BY <1>1, <1>2, <1>3 DEF IdleLocked

\* What is ended only when unheld: the verdict is taken again under the lock.
LEMMA EndIfSound ==
  ASSUME NEW x \in EntryStates, Loose(x), x.armed => Unheld(x)
  PROVE  LET y == EndIfUnheld(x) IN
         /\ y \in EntryStates /\ Sound(y)
         /\ y.key = x.key /\ y.conn = x.conn /\ y.refs = x.refs /\ y.kept = x.kept
         /\ y.check = x.check /\ (x.ended => y.ended)
         /\ y.ended /\ ~x.ended => Unheld(x)
         /\ ~y.armed
<1>1. CASE Unheld(x)
      BY <1>1, EndSound DEF EndIfUnheld, Unheld
<1>2. CASE ~Unheld(x)
      BY <1>2 DEF EndIfUnheld, Sound
<1> QED BY <1>1, <1>2

\* What the configuration lets go ends at once if nothing holds it, and what it
\* takes up has no timer.
LEMMA KeepSound ==
  ASSUME NEW x \in EntryStates, Sound(x)
  PROVE  /\ LetGo(x) \in EntryStates /\ Sound(LetGo(x))
         /\ LetGo(x).key = x.key /\ LetGo(x).conn = x.conn /\ LetGo(x).refs = x.refs
         /\ LetGo(x).ended /\ ~x.ended => LetGo(x).refs = 0 /\ ~LetGo(x).kept
                                         /\ x.conn \in Dialed
         /\ (x.ended => LetGo(x).ended) /\ ~LetGo(x).armed
         /\ TakeUp(x) \in EntryStates /\ Sound(TakeUp(x))
         /\ TakeUp(x).key = x.key /\ TakeUp(x).conn = x.conn /\ TakeUp(x).refs = x.refs
         /\ TakeUp(x).ended = x.ended /\ ~TakeUp(x).armed
<1> DEFINE l == [x EXCEPT !.kept = FALSE]
           t == [x EXCEPT !.kept = TRUE]
<1>1. /\ l \in EntryStates /\ l.key = x.key /\ l.conn = x.conn /\ l.refs = x.refs /\ ~l.kept
      /\ l.ended = x.ended /\ l.armed = x.armed /\ l.gen = x.gen /\ l.fired = x.fired
      BY DEF EntryStates
<1>2. /\ t \in EntryStates /\ t.key = x.key /\ t.conn = x.conn /\ t.refs = x.refs /\ t.kept
      /\ t.ended = x.ended /\ t.armed = x.armed /\ t.gen = x.gen /\ t.fired = x.fired
      BY DEF EntryStates
<1>3. LetGo(x) = EndIfUnheld(l) /\ TakeUp(x) = CancelIdle(t)
      BY DEF LetGo, TakeUp
<1> HIDE DEF l, t
<1>4. Loose(l) /\ (l.armed => Unheld(l)) /\ (Unheld(l) => l.conn \in Dialed /\ l.refs = 0)
      BY <1>1 DEF Sound, Loose, Unheld
<1>5. Loose(t) /\ ~Unheld(t)
      BY <1>2 DEF Sound, Loose, Unheld
<1>6. /\ EndIfUnheld(l) \in EntryStates /\ Sound(EndIfUnheld(l))
      /\ EndIfUnheld(l).key = l.key /\ EndIfUnheld(l).conn = l.conn
      /\ EndIfUnheld(l).refs = l.refs /\ EndIfUnheld(l).kept = l.kept
      /\ (l.ended => EndIfUnheld(l).ended) /\ ~EndIfUnheld(l).armed
      /\ EndIfUnheld(l).ended /\ ~l.ended => Unheld(l)
      BY <1>1, <1>4, EndIfSound
<1>7. /\ CancelIdle(t) \in EntryStates /\ Sound(CancelIdle(t))
      /\ CancelIdle(t).key = t.key /\ CancelIdle(t).conn = t.conn
      /\ CancelIdle(t).refs = t.refs
      /\ CancelIdle(t).ended = t.ended /\ ~CancelIdle(t).armed
      BY <1>2, <1>5, CancelSound
<1> QED BY <1>1, <1>2, <1>3, <1>4, <1>6, <1>7

-----------------------------------------------------------------------------
(* The pool.                                                               *)

\* What the assumption says of the bounds.
LEMMA Bounds ==
  /\ MaxEntries \in Nat /\ Entries \subseteq Nat \ {0} /\ Entries \subseteq 0..MaxEntries
  /\ IsFiniteSet(Servers) /\ IsFiniteSet(Callers)
BY McpAssumption DEF McpAssumption, Entries

\* An entry that nobody touched fits a pool that lost nothing of it.
LEMMA StillFits ==
  ASSUME Typed, NEW f \in Entries, Fits(f), entry'[f] = entry[f], starts' \in Nat,
         starts <= starts',
         f \in stopping' <=> f \in stopping,
         f \in due /\ entry[f].armed => f \in due',
         entry[f].conn = "up" /\ map[entry[f].key] = f => map'[entry[f].key] = f
  PROVE  Fits(f)'
<1>1. f \in Nat /\ starts \in Nat
      BY Bounds DEF Typed
<1>2. f > starts' => f > starts
      BY <1>1
<1> QED BY <1>2 DEF Fits, Sound, Loose, Unheld, Dialed

\* What one update of an entry does to the pool.
LEMMA Updated ==
  ASSUME Typed, Placed, NEW e \in Entries, NEW x \in EntryStates, Update(e, x),
         UNCHANGED <<kept, closed, starts, declared>>,
         Sound(x), x.key = entry[e].key,
         x.conn = "unused" <=> entry[e].conn = "unused",
         entry[e].conn \in Dialed => x.conn = entry[e].conn,
         x.conn = "up" => entry[e].conn = "up" \/ map[entry[e].key] = e,
         x.conn = "stopped" => entry[e].conn = "stopped",
         entry[e].ended => x.ended,
         x.armed /\ x.gen \in x.fired => entry[e].armed /\ entry[e].gen \in entry[e].fired,
         entry[e].conn = "up" /\ x.ended /\ ~entry[e].ended => x.refs = 0 /\ ~x.kept
  PROVE  /\ entry' \in [Entries -> EntryStates] /\ map' \in [Servers -> 0..MaxEntries]
         /\ stopping' \subseteq Entries
         /\ entry'[e] = x /\ \A f \in Entries \ {e} : entry'[f] = entry[f]
         /\ Placed' /\ Spared
<1> DEFINE ends == x.ended /\ ~entry[e].ended
<1>1. /\ entry' = [entry EXCEPT ![e] = x]
      /\ map' = IF ends THEN Without(e) ELSE map
      /\ stopping' = IF ends /\ x.conn \in Dialed THEN stopping \cup {e} ELSE stopping
      /\ due' = IF x.armed THEN due ELSE due \ {e}
      BY DEF Update
<1>2. /\ entry \in [Entries -> EntryStates] /\ map \in [Servers -> 0..MaxEntries]
      /\ stopping \subseteq Entries /\ starts \in Nat
      BY Bounds DEF Typed
<1>3. entry'[e] = x /\ \A f \in Entries \ {e} : entry'[f] = entry[f]
      BY <1>1, <1>2
<1>4. map' \in [Servers -> 0..MaxEntries]
      /\ \A s \in Servers : map'[s] = IF ends /\ map[s] = e THEN 0 ELSE map[s]
      BY <1>1, <1>2, Bounds DEF Without
<1> HIDE DEF ends
<1>5. Mapped'
  <2> SUFFICES ASSUME NEW s \in Servers, map'[s] # 0
               PROVE  /\ map'[s] \in 1..starts'
                      /\ entry'[map'[s]].key = s /\ ~entry'[map'[s]].ended
                      /\ entry'[map'[s]].conn \notin {"unused", "failed"}
                      /\ ~closed'
      BY DEF Mapped
  <2>1. map'[s] = map[s] /\ ~(ends /\ map[s] = e)
        BY <1>4
  <2>2. /\ map[s] \in 1..starts /\ entry[map[s]].key = s /\ ~entry[map[s]].ended
        /\ entry[map[s]].conn \notin {"unused", "failed"} /\ ~closed
        BY <2>1 DEF Placed, Mapped
  <2>3. map[s] \in Entries
        BY <2>2, Bounds DEF Typed, Entries
  <2>4. CASE map[s] = e
    <3>1. ~x.ended
          BY <2>1, <2>2, <2>4 DEF ends
    <3> QED BY <1>3, <2>1, <2>2, <2>4, <3>1 DEF Sound, Loose
  <2>5. CASE map[s] # e
        BY <1>3, <2>1, <2>2, <2>3, <2>5
  <2> QED BY <2>4, <2>5
<1>6. ASSUME NEW f \in Entries \ {e}
      PROVE  Fits(f)'
  <2>1. entry'[f] = entry[f] /\ Fits(f)
        BY <1>3 DEF Placed
  <2>2. entry[f].conn = "up" => entry[f].key \in Servers
        BY <2>1 DEF Fits, Sound, Loose
  <2>3. entry[f].conn = "up" /\ map[entry[f].key] = f => map'[entry[f].key] = f
        BY <1>4, <2>2
  <2>4. (f \in stopping' <=> f \in stopping) /\ (f \in due => f \in due')
        BY <1>1
  <2>5. starts' \in Nat /\ starts <= starts'
        BY <1>2
  <2> QED BY <2>1, <2>3, <2>4, <2>5, StillFits
<1>7. Fits(e)'
  <2>1. Fits(e)
        BY DEF Placed
  <2>2. Sound(entry[e])'
        BY <1>3 DEF Sound, Loose, Unheld, Dialed
  <2>3. e > starts' => entry'[e].conn = "unused"
        BY <1>3, <2>1 DEF Fits
  <2>4. e \in stopping' => entry'[e].ended /\ entry'[e].conn \in {"up", "gone"}
        BY <1>1, <1>3, <2>1 DEF Fits, ends, Sound, Loose, Dialed
  <2>5. ASSUME x.conn = "up" PROVE IF x.ended THEN e \in stopping' ELSE map'[x.key] = e
    <3>1. x.key \in Servers /\ x.conn \in Dialed
          BY <2>5 DEF Sound, Loose, Dialed
    <3>2. CASE entry[e].ended
      <4>1. map[entry[e].key] # e
            BY <3>1, <3>2, Bounds DEF Placed, Mapped
      <4>2. entry[e].conn = "up"
            BY <2>5, <4>1
      <4> QED BY <1>1, <2>1, <3>2, <4>2 DEF Fits
    <3>3. CASE ~entry[e].ended /\ x.ended
          BY <1>1, <3>1, <3>3 DEF ends
    <3>4. CASE ~entry[e].ended /\ ~x.ended
      <4>1. map[x.key] = e
            BY <2>1, <2>5, <3>4 DEF Fits
      <4> QED BY <1>4, <3>1, <3>4, <4>1 DEF ends
    <3> QED BY <3>2, <3>3, <3>4
  <2>6. entry'[e].armed /\ entry'[e].gen \in entry'[e].fired => e \in due'
        BY <1>1, <1>3, <2>1 DEF Fits
  <2> QED BY <1>3, <2>2, <2>3, <2>4, <2>5, <2>6 DEF Fits
<1>8. Spared
      BY <1>3 DEF Spared
<1> QED BY <1>1, <1>2, <1>3, <1>4, <1>5, <1>6, <1>7, <1>8 DEF Placed

\* Nothing of the pool changes and nobody ends.
LEMMA Unspoiled ==
  ASSUME Placed, UNCHANGED <<entry, map, stopping, closed, starts, due>>
  PROVE  Placed' /\ Spared
BY DEF Placed, Mapped, Fits, Sound, Loose, Unheld, Dialed, Spared

-----------------------------------------------------------------------------
(* Counting.                                                               *)

\* A count of callers is a number.
LEMMA HoldersFinite == \A e : IsFiniteSet(Holders(e)) /\ Cardinality(Holders(e)) \in Nat
<1>1. \A e : Holders(e) \in SUBSET Callers
      BY DEF Holders
<1> QED BY <1>1, Bounds, FS_Subset, FS_CardinalityType

\* Who holds what is as before, and so are the references.
LEMMA SameCount ==
  ASSUME Counted,
         \A e \in Entries : entry'[e].refs = entry[e].refs,
         \A c \in Callers :
           \/ caller'[c].e = caller[c].e
              /\ (caller'[c].pc \in {"wait", "held"} <=> caller[c].pc \in {"wait", "held"})
           \/ caller[c].pc \notin {"wait", "held"} /\ caller'[c].pc \notin {"wait", "held"}
  PROVE  Counted'
<1>1. \A e \in Entries : Holders(e)' = Holders(e)
      BY DEF Holders
<1> QED BY <1>1 DEF Counted

\* One caller more has a reference.
LEMMA CountTaken ==
  ASSUME Typed, NEW c \in Callers, NEW e \in Entries, Counted,
         caller[c].pc \notin {"wait", "held"},
         caller' = [caller EXCEPT ![c] = [pc |-> "wait", e |-> e]],
         entry'[e].refs = entry[e].refs + 1,
         \A f \in Entries \ {e} : entry'[f].refs = entry[f].refs
  PROVE  Counted'
<1>1. /\ caller'[c].pc = "wait" /\ caller'[c].e = e
      /\ \A d \in Callers \ {c} : caller'[d] = caller[d]
      BY DEF Typed
<1>2. Holders(e)' = Holders(e) \cup {c} /\ c \notin Holders(e)
      BY <1>1 DEF Holders
<1>3. \A f \in Entries \ {e} : Holders(f)' = Holders(f)
      BY <1>1 DEF Holders
<1>4. Cardinality(Holders(e) \cup {c}) = Cardinality(Holders(e)) + 1
      BY <1>2, HoldersFinite, FS_AddElement
<1> QED BY <1>2, <1>3, <1>4 DEF Counted

\* One caller less has a reference.
LEMMA CountGiven ==
  ASSUME Typed, NEW c \in Callers, Counted, caller[c].pc = "held",
         caller[c].e \in Entries,
         caller'[c].pc \notin {"wait", "held"},
         \A d \in Callers \ {c} : caller'[d] = caller[d]
  PROVE  /\ entry[caller[c].e].refs - 1 \in Nat
         /\ entry'[caller[c].e].refs = entry[caller[c].e].refs - 1
            /\ (\A f \in Entries \ {caller[c].e} : entry'[f].refs = entry[f].refs)
            => Counted'
<1>1. PICK e \in Entries : e = caller[c].e
      OBVIOUS
<1>2. Holders(e)' = Holders(e) \ {c} /\ c \in Holders(e)
      BY <1>1 DEF Holders
<1>3. \A f \in Entries \ {e} : Holders(f)' = Holders(f)
      BY <1>1 DEF Holders
<1>4. Cardinality(Holders(e) \ {c}) = Cardinality(Holders(e)) - 1
      BY <1>2, HoldersFinite, FS_RemoveElement
<1>5. Cardinality(Holders(e) \ {c}) \in Nat
      BY <1>2, HoldersFinite, FS_RemoveElement, FS_CardinalityType
<1>6. /\ entry[e].refs = Cardinality(Holders(e))
      /\ Cardinality(Holders(e)') = entry[e].refs - 1 /\ entry[e].refs - 1 \in Nat
      BY <1>2, <1>4, <1>5 DEF Counted
<1>7. ASSUME entry'[e].refs = entry[e].refs - 1,
             \A f \in Entries \ {e} : entry'[f].refs = entry[f].refs
      PROVE  Counted'
  <2>1. entry'[e].refs = Cardinality(Holders(e)')
        BY <1>6, <1>7
  <2>2. \A f \in Entries \ {e} : entry'[f].refs = Cardinality(Holders(f)')
        BY <1>3, <1>7 DEF Counted
  <2> QED BY <2>1, <2>2 DEF Counted
<1> QED BY <1>1, <1>6, <1>7

-----------------------------------------------------------------------------
(* The steps of a caller.                                                  *)

\* What a step keeps, apart from who asks about unwanted servers.
Keeps == Pooled' /\ Spared

\* A caller moves on at the entry it has.
LEMMA CallerMoves ==
  ASSUME Pooled, NEW c \in Callers, NEW pc \in {"idle", "wait", "held", "check", "unwanted"},
         caller[c].pc # "idle",
         pc \in {"wait", "held"} <=> caller[c].pc \in {"wait", "held"},
         \/ caller' = [caller EXCEPT ![c].pc = pc]
         \/ caller' = [caller EXCEPT ![c] = [@ EXCEPT !.pc = pc]]
         \/ pc = "idle" /\ caller' = [caller EXCEPT ![c] = IdleCaller],
         UNCHANGED <<entry, kept, stopping, closed, starts, confVars>>,
         map' \in [Servers -> 0..MaxEntries],
         Placed' /\ Spared
  PROVE  Keeps
<1> USE DEF Pooled, confVars
<1>1. /\ caller' \in [Callers -> [pc : {"idle", "wait", "held", "check", "unwanted"},
                                  e : 0..MaxEntries]]
      /\ caller'[c].pc = pc /\ (pc # "idle" => caller'[c].e = caller[c].e)
      /\ \A d \in Callers \ {c} : caller'[d] = caller[d]
      BY Bounds DEF Typed, IdleCaller
<1>2. Typed'
      BY <1>1 DEF Typed
<1>3. Aimed'
      BY <1>1 DEF Aimed
<1>4. Counted'
  <2>1. \A d \in Callers :
          \/ caller'[d].e = caller[d].e
             /\ (caller'[d].pc \in {"wait", "held"} <=> caller[d].pc \in {"wait", "held"})
          \/ caller[d].pc \notin {"wait", "held"} /\ caller'[d].pc \notin {"wait", "held"}
        BY <1>1
  <2> QED BY <2>1, SameCount
<1> QED BY <1>2, <1>3, <1>4 DEF Keeps

\* A caller that waits, or asks, touches no entry.
LEMMA WaitsKept ==
  ASSUME Pooled, NEW c \in Callers, Lease(c) \/ GiveUp(c) \/ CheckWanted(c)
  PROVE  Keeps
<1> USE DEF Pooled, poolVars, confVars
<1>1. Placed' /\ Spared /\ map' \in [Servers -> 0..MaxEntries]
      /\ UNCHANGED <<entry, kept, stopping, closed, starts, confVars>>
  <2>1. UNCHANGED <<entry, map, kept, stopping, closed, starts, confVars, due>>
        BY DEF Lease, GiveUp, CheckWanted
  <2> QED BY <2>1, Unspoiled DEF Typed
<1>2. CASE Lease(c) \/ GiveUp(c)
  <2>1. caller[c].pc = "wait" /\ caller' = [caller EXCEPT ![c].pc = "held"]
        BY <1>2 DEF Lease, GiveUp
  <2> QED BY <1>1, <2>1, CallerMoves
<1>3. CASE CheckWanted(c)
  <2>1. /\ caller[c].pc = "check"
        /\ \/ caller' = [caller EXCEPT ![c] = IdleCaller]
           \/ caller' = [caller EXCEPT ![c] = [@ EXCEPT !.pc = "unwanted"]]
        BY <1>3 DEF CheckWanted
  <2> QED BY <1>1, <2>1, CallerMoves
<1> QED BY <1>2, <1>3

\* An entry that is no longer of use leaves the map: it failed to start, or its
\* server is gone.
LEMMA OffTheMap ==
  ASSUME Typed, Placed, NEW e \in Entries, entry[e].conn # "up",
         map' = Without(e) \/ map' = map,
         UNCHANGED <<entry, stopping, closed, starts, due>>
  PROVE  map' \in [Servers -> 0..MaxEntries] /\ Placed' /\ Spared
<1>1. /\ map' \in [Servers -> 0..MaxEntries]
      /\ \A s \in Servers : map'[s] = map[s] \/ (map[s] = e /\ map'[s] = 0)
      BY Bounds DEF Without, Typed
<1>2. Mapped'
      BY <1>1 DEF Placed, Mapped
<1>3. ASSUME NEW f \in Entries
      PROVE  Fits(f)'
  <2>1. Fits(f)
        BY DEF Placed
  <2>2. entry[f].conn = "up" => entry[f].key \in Servers /\ f # e /\ f # 0
        BY <2>1, Bounds DEF Fits, Sound, Loose
  <2>3. entry[f].conn = "up" /\ map[entry[f].key] = f => map'[entry[f].key] = f
        BY <1>1, <2>2
  <2>4. starts' \in Nat /\ starts <= starts'
        BY Bounds DEF Typed
  <2> QED BY <2>1, <2>3, <2>4, StillFits
<1> QED BY <1>1, <1>2, <1>3 DEF Placed, Spared

\* A caller whose start came to nothing still owes its reference.
LEMMA NoLeaseKept ==
  ASSUME Pooled, NEW c \in Callers, NoLease(c)
  PROVE  Keeps
<1> USE DEF Pooled, confVars
<1>1. /\ caller[c].pc = "wait" /\ caller' = [caller EXCEPT ![c].pc = "held"]
      /\ UNCHANGED <<entry, kept, stopping, closed, starts, confVars, due>>
      /\ entry[caller[c].e].conn # "up"
      /\ map' = Without(caller[c].e) \/ map' = map
      BY DEF NoLease, Gone
<1>2. caller[c].e \in Entries
      BY <1>1, Bounds DEF Aimed, Typed, Entries
<1>3. map' \in [Servers -> 0..MaxEntries] /\ Placed' /\ Spared
      BY <1>1, <1>2, OffTheMap
<1> QED BY <1>1, <1>3, CallerMoves

\* A caller joins the start there is.
LEMMA JoinKept ==
  ASSUME Pooled, NEW c \in Callers, NEW s \in Servers, caller[c].pc = "idle", Join(c, s),
         UNCHANGED <<kept, closed, confVars>>
  PROVE  Keeps
<1> USE DEF Pooled, confVars
<1>1. PICK e \in Entries : /\ e = map[s] /\ e \in 1..starts
                           /\ Update(e, CancelIdle([entry[e] EXCEPT !.refs = @ + 1]))
                           /\ caller' = [caller EXCEPT ![c] = [pc |-> "wait", e |-> e]]
                           /\ starts' = starts
  <2>1. map[s] # 0 /\ map[s] \in 1..starts
        BY DEF Join, Placed, Mapped
  <2>2. map[s] \in Entries
        BY <2>1, Bounds DEF Typed, Entries
  <2> QED BY <2>1, <2>2 DEF Join
<1> DEFINE y == [entry[e] EXCEPT !.refs = @ + 1]
           x == CancelIdle(y)
<1>2. entry[e] \in EntryStates /\ entry[e].refs \in Nat /\ entry[e].refs + 1 \in Nat
      BY DEF Typed, EntryStates
<1>3. /\ y \in EntryStates /\ y.refs = entry[e].refs + 1 /\ y.key = entry[e].key
      /\ y.conn = entry[e].conn /\ y.kept = entry[e].kept /\ y.ended = entry[e].ended
      /\ y.armed = entry[e].armed /\ y.gen = entry[e].gen /\ y.fired = entry[e].fired
      BY <1>2 DEF EntryStates
<1> HIDE DEF y
<1>4. Loose(y) /\ ~Unheld(y)
      BY <1>2, <1>3 DEF Placed, Fits, Sound, Loose, Unheld
<1>5. /\ x \in EntryStates /\ Sound(x) /\ x.key = y.key /\ x.conn = y.conn
      /\ x.refs = y.refs /\ x.ended = y.ended /\ ~x.armed
      BY <1>3, <1>4, CancelSound
<1>6. Update(e, x)
      BY <1>1 DEF y
<1> HIDE DEF x
<1>7. /\ entry' \in [Entries -> EntryStates] /\ map' \in [Servers -> 0..MaxEntries]
      /\ stopping' \subseteq Entries
      /\ entry'[e] = x /\ \A f \in Entries \ {e} : entry'[f] = entry[f]
      /\ Placed' /\ Spared
      BY <1>1, <1>3, <1>5, <1>6, Updated
<1>8. Counted'
      BY <1>1, <1>3, <1>5, <1>7, CountTaken
<1>9. Typed'
      BY <1>1, <1>7, Bounds DEF Typed
<1>10. Aimed'
      BY <1>1 DEF Aimed, Typed
<1> QED BY <1>7, <1>8, <1>9, <1>10 DEF Keeps

\* A caller starts a server that no entry of the map has.
LEMMA DialNewKept ==
  ASSUME Pooled, NEW c \in Callers, NEW s \in Servers, caller[c].pc = "idle",
         DialNew(c, s), ~closed, UNCHANGED <<kept, closed, confVars>>
  PROVE  Keeps
<1> DEFINE n == starts + 1
           x == Start(s, s \in kept, 1)
<1> USE DEF Pooled, confVars
<1>1. /\ map[s] = 0 /\ starts < MaxEntries /\ starts' = n /\ n \in Nat /\ starts \in Nat
      /\ n \in Entries /\ n # 0
      /\ entry' = [entry EXCEPT ![n] = x] /\ map' = [map EXCEPT ![s] = n]
      /\ caller' = [caller EXCEPT ![c] = [pc |-> "wait", e |-> n]]
      /\ UNCHANGED <<stopping, due>>
      BY Bounds DEF DialNew, Typed, Entries
<1>2. /\ x \in EntryStates /\ x.key = s /\ x.conn = "dialing" /\ x.refs = 1
      /\ ~x.ended /\ ~x.armed /\ x.fired = {}
  <2>0. (s \in kept) \in BOOLEAN
        OBVIOUS
  <2>1. PICK k \in BOOLEAN : x = Start(s, k, 1)
        BY <2>0, Zenon
  <2> HIDE DEF x
  <2> QED BY <2>1, StartSound
<1>3. n > starts /\ \A f \in Entries : f > n => f > starts
      BY <1>1, Bounds
<1>4. entry[n].conn = "unused" /\ n \notin stopping
      BY <1>1, <1>3 DEF Placed, Fits, Dialed
<1> HIDE DEF x, n
<1>5. /\ entry' \in [Entries -> EntryStates] /\ map' \in [Servers -> 0..MaxEntries]
      /\ entry'[n] = x /\ \A f \in Entries \ {n} : entry'[f] = entry[f]
      /\ map'[s] = n /\ \A t \in Servers \ {s} : map'[t] = map[t]
      BY <1>1, <1>2, Bounds DEF Typed
<1>6. \A t \in Servers : map[t] # n
      BY <1>1, <1>3 DEF Placed, Mapped
<1>7. Mapped'
  <2> SUFFICES ASSUME NEW t \in Servers, map'[t] # 0
               PROVE  /\ map'[t] \in 1..starts'
                      /\ entry'[map'[t]].key = t /\ ~entry'[map'[t]].ended
                      /\ entry'[map'[t]].conn \notin {"unused", "failed"}
                      /\ ~closed'
      BY DEF Mapped
  <2>1. CASE t = s
        BY <1>1, <1>2, <1>5, <2>1
  <2>2. CASE t # s
    <3>1. /\ map[t] \in 1..starts /\ entry[map[t]].key = t /\ ~entry[map[t]].ended
          /\ entry[map[t]].conn \notin {"unused", "failed"} /\ map'[t] = map[t]
          BY <1>5, <2>2 DEF Placed, Mapped
    <3>2. map[t] \in 1..n /\ map[t] \in Entries \ {n}
          BY <1>1, <1>6, <3>1, Bounds DEF Entries, n
    <3> QED BY <1>1, <1>5, <3>1, <3>2
  <2> QED BY <2>1, <2>2
<1>8. ASSUME NEW f \in Entries
      PROVE  Fits(f)'
  <2>1. CASE f = n
    <3>1. entry'[f] = x /\ f \notin stopping' /\ starts' = f
          BY <1>1, <1>4, <1>5, <2>1
    <3>2. Sound(entry[f])'
          BY <1>2, <3>1 DEF Sound, Loose, Unheld, Dialed
    <3>3. ~(f > starts')
          BY <3>1, Bounds
    <3> QED BY <1>2, <3>1, <3>2, <3>3 DEF Fits
  <2>2. CASE f # n
    <3>1. entry'[f] = entry[f] /\ Fits(f)
          BY <1>5, <2>2 DEF Placed
    <3>2. entry[f].conn = "up" => entry[f].key \in Servers /\ f # 0
          BY <3>1, Bounds DEF Fits, Sound, Loose
    <3>3. entry[f].conn = "up" /\ map[entry[f].key] = f => map'[entry[f].key] = f
          BY <1>1, <1>5, <3>2
    <3>4. starts' \in Nat /\ starts <= starts'
          BY <1>1 DEF n
    <3> QED BY <1>1, <3>1, <3>3, <3>4, StillFits
  <2> QED BY <2>1, <2>2
<1>9. Spared
  <2>1. ~x.ended
        BY <1>2
  <2> QED BY <1>5, <2>1 DEF Spared
<1>10. Counted'
  <2>1. \A d \in Callers : caller[d].pc # "idle" => caller[d].e # n
        BY <1>1, <1>3 DEF Aimed
  <2>2. Holders(n) = {}
        BY <2>1 DEF Holders
  <2>3. entry[n].refs = 0
        BY <1>1, <2>2, FS_EmptySet DEF Counted
  <2>4. entry'[n].refs = entry[n].refs + 1
        BY <1>2, <1>5, <2>3
  <2> QED BY <1>1, <1>5, <2>4, CountTaken
<1>11. Typed'
      BY <1>1, <1>5, Bounds DEF Typed, Entries
<1>12. Aimed'
  <2>1. starts' = n /\ 1..starts \subseteq 1..n /\ n \in 1..n
        BY <1>1 DEF n
  <2> QED BY <1>1, <2>1 DEF Aimed, Typed
<1> QED BY <1>7, <1>8, <1>9, <1>10, <1>11, <1>12 DEF Keeps, Placed

\* A caller gives its reference back.
LEMMA ReleaseKept ==
  ASSUME Pooled, NEW c \in Callers, Release(c)
  PROVE  Keeps
<1> USE DEF Pooled, confVars
<1>1. PICK e \in Entries, x \in IdleLocked([entry[caller[c].e] EXCEPT !.refs = @ - 1]) :
        /\ e = caller[c].e /\ e \in 1..starts /\ caller[c].pc = "held"
        /\ Update(e, x)
        /\ caller' = [caller EXCEPT ![c] =
                        IF x.armed /\ x.refs = 0 THEN [pc |-> "check", e |-> e]
                        ELSE IdleCaller]
        /\ UNCHANGED <<kept, closed, starts, confVars>>
  <2>1. caller[c].pc = "held" /\ caller[c].e \in 1..starts /\ caller[c].e \in Entries
        BY Bounds DEF Release, Aimed, Typed, Entries
  <2> QED BY <2>1 DEF Release
<1> DEFINE y == [entry[e] EXCEPT !.refs = @ - 1]
<1>2. /\ caller' \in [Callers -> [pc : {"idle", "wait", "held", "check", "unwanted"},
                                  e : 0..MaxEntries]]
      /\ caller'[c].pc \notin {"wait", "held"}
      /\ caller'[c].pc # "idle" => caller'[c].e = e
      /\ \A d \in Callers \ {c} : caller'[d] = caller[d]
      BY <1>1, Bounds DEF Typed, IdleCaller
<1>3. /\ entry[e].refs - 1 \in Nat
      /\ entry'[e].refs = entry[e].refs - 1
         /\ (\A f \in Entries \ {e} : entry'[f].refs = entry[f].refs) => Counted'
      BY <1>1, <1>2, CountGiven
<1>4. entry[e] \in EntryStates /\ entry[e].refs \in Nat /\ entry[e].refs # 0
      BY <1>3 DEF Typed, EntryStates
<1>5. /\ y \in EntryStates /\ y.refs = entry[e].refs - 1 /\ y.key = entry[e].key
      /\ y.conn = entry[e].conn /\ y.kept = entry[e].kept /\ y.ended = entry[e].ended
      /\ y.armed = entry[e].armed /\ y.gen = entry[e].gen /\ y.fired = entry[e].fired
      BY <1>3, <1>4 DEF EntryStates
<1>6. x \in IdleLocked(y)
      BY <1>1
<1> HIDE DEF y
<1>7. Loose(y) /\ ~y.armed /\ Fits(e)
      BY <1>4, <1>5 DEF Placed, Fits, Sound, Loose, Unheld
<1>8. /\ x \in EntryStates /\ Sound(x) /\ x.key = y.key /\ x.conn = y.conn
      /\ x.refs = y.refs /\ x.kept = y.kept /\ (y.ended => x.ended)
      /\ (x.ended /\ ~y.ended => Unheld(y)) /\ (x.armed => x.gen \notin x.fired)
      BY <1>5, <1>6, <1>7, IdleSound
<1>9. /\ entry' \in [Entries -> EntryStates] /\ map' \in [Servers -> 0..MaxEntries]
      /\ stopping' \subseteq Entries
      /\ entry'[e] = x /\ \A f \in Entries \ {e} : entry'[f] = entry[f]
      /\ Placed' /\ Spared
  <2>1. entry[e].conn = "up" /\ x.ended /\ ~entry[e].ended => x.refs = 0 /\ ~x.kept
        BY <1>5, <1>8 DEF Unheld
  <2> QED BY <1>1, <1>5, <1>8, <2>1, Updated
<1>10. Counted'
      BY <1>3, <1>5, <1>8, <1>9
<1>11. Typed'
      BY <1>1, <1>2, <1>9 DEF Typed
<1>12. Aimed'
      BY <1>1, <1>2 DEF Aimed
<1> QED BY <1>9, <1>10, <1>11, <1>12 DEF Keeps

\* An entry that is ended only if nothing holds it.
LEMMA EndIfKept ==
  ASSUME Typed, Placed, NEW e \in Entries,
         NEW y \in {entry[e], [entry[e] EXCEPT !.check = "none"]},
         Update(e, EndIfUnheld(y)), UNCHANGED <<kept, closed, starts, declared>>
  PROVE  /\ entry' \in [Entries -> EntryStates] /\ map' \in [Servers -> 0..MaxEntries]
         /\ stopping' \subseteq Entries
         /\ \A f \in Entries : entry'[f].refs = entry[f].refs
         /\ Placed' /\ Spared
<1>1. entry[e] \in EntryStates /\ Sound(entry[e])
      BY DEF Typed, Placed, Fits
<1>2. /\ y \in EntryStates /\ y.refs = entry[e].refs /\ y.key = entry[e].key
      /\ y.conn = entry[e].conn /\ y.kept = entry[e].kept /\ y.ended = entry[e].ended
      /\ y.armed = entry[e].armed /\ y.gen = entry[e].gen /\ y.fired = entry[e].fired
      BY <1>1 DEF EntryStates
<1>3. Loose(y) /\ (y.armed => Unheld(y))
      BY <1>1, <1>2 DEF Sound, Loose, Unheld
<1>4. PICK x : x = EndIfUnheld(y)
      OBVIOUS
<1>5. /\ x \in EntryStates /\ Sound(x) /\ x.key = y.key /\ x.conn = y.conn
      /\ x.refs = y.refs /\ x.kept = y.kept /\ (y.ended => x.ended)
      /\ (x.ended /\ ~y.ended => Unheld(y)) /\ ~x.armed
      BY <1>2, <1>3, <1>4, EndIfSound
<1>6. entry[e].conn = "up" /\ x.ended /\ ~entry[e].ended => x.refs = 0 /\ ~x.kept
      BY <1>2, <1>5 DEF Unheld
<1>7. Update(e, x)
      BY <1>4
<1>8. /\ entry' \in [Entries -> EntryStates] /\ map' \in [Servers -> 0..MaxEntries]
      /\ stopping' \subseteq Entries
      /\ entry'[e] = x /\ \A f \in Entries \ {e} : entry'[f] = entry[f]
      /\ Placed' /\ Spared
      BY <1>2, <1>5, <1>6, <1>7, Updated
<1> QED BY <1>2, <1>5, <1>8

\* A caller acts on its verdict: the server is ended if nothing holds it by now.
LEMMA StopUnwantedKept ==
  ASSUME Pooled, NEW c \in Callers, StopUnwanted(c)
  PROVE  Keeps
<1> USE DEF Pooled, confVars
<1>1. PICK e \in Entries : /\ e = caller[c].e /\ caller[c].pc = "unwanted"
                           /\ Update(e, EndIfUnheld(entry[e]))
                           /\ caller' = [caller EXCEPT ![c] = IdleCaller]
                           /\ UNCHANGED <<kept, closed, starts, confVars>>
      BY Bounds DEF StopUnwanted, Aimed, Typed, Entries
<1>2. /\ entry' \in [Entries -> EntryStates] /\ map' \in [Servers -> 0..MaxEntries]
      /\ stopping' \subseteq Entries
      /\ \A f \in Entries : entry'[f].refs = entry[f].refs
      /\ Placed' /\ Spared
      BY <1>1, EndIfKept
<1>3. /\ caller' \in [Callers -> [pc : {"idle", "wait", "held", "check", "unwanted"},
                                  e : 0..MaxEntries]]
      /\ caller'[c].pc = "idle" /\ \A d \in Callers \ {c} : caller'[d] = caller[d]
      BY <1>1, Bounds DEF Typed, IdleCaller
<1>4. Typed'
      BY <1>1, <1>2, <1>3 DEF Typed
<1>5. Aimed'
      BY <1>1, <1>3 DEF Aimed
<1>6. Counted'
      BY <1>1, <1>2, <1>3, SameCount
<1> QED BY <1>2, <1>4, <1>5, <1>6 DEF Keeps

\* Every step of a caller keeps the pool.
LEMMA CallerKept ==
  ASSUME Pooled, NEW c \in Callers, CallerStep(c)
  PROVE  Keeps
BY JoinKept, DialNewKept, WaitsKept, NoLeaseKept, ReleaseKept, StopUnwantedKept
DEF CallerStep, Acquire

-----------------------------------------------------------------------------
(* The steps of an entry.                                                  *)

\* Callers and managers do not notice what becomes of an entry.
LEMMA EntryLeaves ==
  ASSUME Pooled, UNCHANGED <<kept, closed, starts, caller, confVars>>,
         entry' \in [Entries -> EntryStates], map' \in [Servers -> 0..MaxEntries],
         stopping' \subseteq Entries,
         \A f \in Entries : entry'[f].refs = entry[f].refs,
         Placed' /\ Spared
  PROVE  Keeps
<1> USE DEF Pooled, confVars
<1>1. Typed' /\ Aimed'
      BY DEF Typed, Aimed
<1>2. Counted'
      BY SameCount
<1> QED BY <1>1, <1>2 DEF Keeps

\* An entry changes and the map does not.
LEMMA Touched ==
  ASSUME Pooled, NEW e \in Entries, NEW x \in EntryStates,
         entry' = [entry EXCEPT ![e] = x],
         UNCHANGED <<map, kept, closed, starts, caller, confVars>>,
         Sound(x), x.key = entry[e].key, x.refs = entry[e].refs,
         x.ended = entry[e].ended,
         x.conn # entry[e].conn => x.conn \in Gone /\ entry[e].conn \in Dialed,
         stopping' = stopping \/ (stopping' = stopping \ {e} /\ x.conn = "stopped"),
         due' = due \/ due' = due \cup {e},
         x.conn = "stopped" => e \notin stopping',
         x.armed /\ x.gen \in x.fired => e \in due'
  PROVE  Keeps
<1> USE DEF Pooled
<1>1. /\ entry' \in [Entries -> EntryStates]
      /\ entry'[e] = x /\ \A f \in Entries \ {e} : entry'[f] = entry[f]
      BY DEF Typed
<1>2. Mapped'
  <2>1. \A f \in Entries : /\ entry'[f].key = entry[f].key
                           /\ entry'[f].ended = entry[f].ended
                           /\ entry[f].conn \notin {"unused", "failed"}
                              => entry'[f].conn \notin {"unused", "failed"}
        BY <1>1 DEF Gone
  <2>2. \A s \in Servers : map[s] \in 1..starts => map[s] \in Entries
        BY Bounds DEF Typed, Entries
  <2> QED BY <2>1, <2>2 DEF Placed, Mapped
<1>3. ASSUME NEW f \in Entries \ {e}
      PROVE  Fits(f)'
  <2>1. starts' \in Nat /\ starts <= starts'
        BY Bounds DEF Typed
  <2> QED BY <1>1, <2>1, StillFits DEF Placed
<1>4. Fits(e)'
  <2>1. Fits(e)
        BY DEF Placed
  <2>2. Sound(entry[e])'
        BY <1>1 DEF Sound, Loose, Unheld, Dialed
  <2>3. x.conn = "up" => entry[e].conn = "up"
        BY DEF Gone
  <2>4. e > starts => x.conn = "unused"
        BY <2>1 DEF Fits, Dialed
  <2>5. e \in stopping' => x.ended /\ x.conn \in {"up", "gone"}
        BY <2>1 DEF Fits, Gone
  <2>6. x.conn = "up" => IF x.ended THEN e \in stopping' ELSE map'[x.key] = e
        BY <2>1, <2>3 DEF Fits
  <2> QED BY <1>1, <2>2, <2>4, <2>5, <2>6 DEF Fits
<1>5. Spared /\ \A f \in Entries : entry'[f].refs = entry[f].refs
      BY <1>1 DEF Spared
<1>6. map' \in [Servers -> 0..MaxEntries] /\ stopping' \subseteq Entries
      BY DEF Typed
<1> QED BY <1>1, <1>2, <1>3, <1>4, <1>5, <1>6, EntryLeaves DEF Placed

\* An entry whose timer fires, whose server goes away or is closed, or whose dial
\* asks.
LEMMA TouchedKept ==
  ASSUME Pooled, NEW e \in Entries,
         DialChecks(e) \/ TimerFires(e) \/ GoesAway(e) \/ CloseConn(e)
  PROVE  Keeps
<1> USE DEF Pooled
<1>1. entry[e] \in EntryStates /\ Fits(e)
      BY DEF Typed, Placed
<1>2. CASE DialChecks(e)
  <2>1. PICK ch \in {"none", "unwanted"} :
          entry' = [entry EXCEPT ![e] = [entry[e] EXCEPT !.check = ch]]
        BY <1>2 DEF DialChecks, Typed
  <2> DEFINE x == [entry[e] EXCEPT !.check = ch]
  <2>2. /\ x \in EntryStates /\ x.key = entry[e].key /\ x.conn = entry[e].conn
        /\ x.refs = entry[e].refs /\ x.kept = entry[e].kept /\ x.ended = entry[e].ended
        /\ x.armed = entry[e].armed /\ x.gen = entry[e].gen /\ x.fired = entry[e].fired
        BY <1>1 DEF EntryStates
  <2>3. entry' = [entry EXCEPT ![e] = x]
        BY <2>1
  <2> HIDE DEF x
  <2>4. Sound(x)
        BY <1>1, <2>2 DEF Fits, Sound, Loose, Unheld
  <2>5. /\ x.armed /\ x.gen \in x.fired => e \in due
        /\ x.conn = "stopped" => e \notin stopping
        BY <1>1, <2>2 DEF Fits, Dialed
  <2>6. UNCHANGED <<map, kept, stopping, closed, starts, caller, confVars, due>>
        BY <1>2 DEF DialChecks
  <2> QED BY <2>2, <2>3, <2>4, <2>5, <2>6, Touched
<1>3. CASE TimerFires(e)
  <2> DEFINE x == [entry[e] EXCEPT !.fired = @ \cup {entry[e].gen}]
  <2>1. /\ x \in EntryStates /\ x.key = entry[e].key /\ x.conn = entry[e].conn
        /\ x.refs = entry[e].refs /\ x.kept = entry[e].kept /\ x.ended = entry[e].ended
        /\ x.armed = entry[e].armed /\ x.gen = entry[e].gen
        /\ x.fired = entry[e].fired \cup {entry[e].gen} /\ x.gen \in Nat
        BY <1>1 DEF EntryStates
  <2>2. entry' = [entry EXCEPT ![e] = x] /\ due' = due \cup {e}
        BY <1>3 DEF TimerFires, Typed
  <2> HIDE DEF x
  <2>3. Sound(x)
        BY <1>1, <2>1 DEF Fits, Sound, Loose, Unheld
  <2>4. x.conn = "stopped" => e \notin stopping
        BY <1>1, <2>1 DEF Fits, Dialed
  <2>5. UNCHANGED <<map, kept, stopping, closed, starts, caller, confVars>>
        BY <1>3 DEF TimerFires
  <2> QED BY <2>1, <2>2, <2>3, <2>4, <2>5, Touched
<1>4. CASE GoesAway(e)
  <2> DEFINE x == [entry[e] EXCEPT !.conn = "gone"]
  <2>1. /\ x \in EntryStates /\ x.key = entry[e].key /\ x.conn = "gone"
        /\ x.refs = entry[e].refs /\ x.kept = entry[e].kept /\ x.ended = entry[e].ended
        /\ x.armed = entry[e].armed /\ x.gen = entry[e].gen /\ x.fired = entry[e].fired
        BY <1>1 DEF EntryStates
  <2>2. entry' = [entry EXCEPT ![e] = x] /\ entry[e].conn = "up"
        BY <1>4 DEF GoesAway, Typed
  <2> HIDE DEF x
  <2>3. Sound(x)
        BY <1>1, <2>1, <2>2 DEF Fits, Sound, Loose, Unheld, Dialed
  <2>4. x.armed /\ x.gen \in x.fired => e \in due
        BY <1>1, <2>1 DEF Fits
  <2>5. UNCHANGED <<map, kept, stopping, closed, starts, caller, confVars, due>>
        BY <1>4 DEF GoesAway
  <2>6. x.conn \in Gone /\ entry[e].conn \in Dialed
        BY <2>1, <2>2 DEF Gone, Dialed
  <2> QED BY <2>1, <2>2, <2>3, <2>4, <2>5, <2>6, Touched
<1>5. CASE CloseConn(e)
  <2> DEFINE x == [entry[e] EXCEPT !.conn = "stopped"]
  <2>1. /\ x \in EntryStates /\ x.key = entry[e].key /\ x.conn = "stopped"
        /\ x.refs = entry[e].refs /\ x.kept = entry[e].kept /\ x.ended = entry[e].ended
        /\ x.armed = entry[e].armed /\ x.gen = entry[e].gen /\ x.fired = entry[e].fired
        BY <1>1 DEF EntryStates
  <2>2. entry' = [entry EXCEPT ![e] = x] /\ stopping' = stopping \ {e} /\ e \in stopping
        BY <1>5 DEF CloseConn, Typed
  <2>3. entry[e].ended /\ entry[e].conn \in Dialed
        BY <1>1, <2>2 DEF Fits, Dialed
  <2> HIDE DEF x
  <2>4. Sound(x)
        BY <1>1, <2>1, <2>3 DEF Fits, Sound, Loose, Unheld, Dialed
  <2>5. x.armed /\ x.gen \in x.fired => e \in due
        BY <1>1, <2>1 DEF Fits
  <2>6. UNCHANGED <<map, kept, closed, starts, caller, confVars, due>>
        BY <1>5 DEF CloseConn
  <2>7. x.conn \in Gone
        BY <2>1 DEF Gone
  <2> QED BY <2>1, <2>2, <2>3, <2>4, <2>5, <2>6, <2>7, Touched
<1> QED BY <1>2, <1>3, <1>4, <1>5

\* A start that ends, well or badly.
LEMMA DialKept ==
  ASSUME Pooled, NEW e \in Entries, DialFails(e) \/ DialInstalls(e)
  PROVE  Keeps
<1> USE DEF Pooled
<1>1. entry[e] \in EntryStates /\ Fits(e) /\ entry[e].conn = "dialing"
      BY DEF Typed, Placed, DialFails, DialInstalls
<1>2. /\ UNCHANGED <<kept, closed, starts, caller, confVars>>
      /\ UNCHANGED declared
      BY DEF DialFails, DialInstalls, confVars
<1>3. ~entry[e].ended /\ ~entry[e].armed
      BY <1>1 DEF Fits, Sound, Loose, Dialed
<1>4. ASSUME NEW x \in EntryStates, Update(e, x), Sound(x), x.key = entry[e].key,
             x.conn \in {"failed", "up"}, x.refs = entry[e].refs,
             x.conn = "up" => map[entry[e].key] = e,
             x.armed => x.gen \notin x.fired
      PROVE  Keeps
  <2>1. /\ entry' \in [Entries -> EntryStates] /\ map' \in [Servers -> 0..MaxEntries]
        /\ stopping' \subseteq Entries
        /\ entry'[e] = x /\ \A f \in Entries \ {e} : entry'[f] = entry[f]
        /\ Placed' /\ Spared
        BY <1>1, <1>2, <1>3, <1>4, Updated DEF Dialed
  <2> QED BY <1>2, <1>4, <2>1, EntryLeaves
<1>5. CASE DialFails(e)
  <2> DEFINE x == [entry[e] EXCEPT !.conn = "failed", !.ended = TRUE]
  <2>1. /\ x \in EntryStates /\ x.key = entry[e].key /\ x.conn = "failed"
        /\ x.refs = entry[e].refs /\ x.kept = entry[e].kept /\ x.ended
        /\ x.armed = entry[e].armed /\ x.gen = entry[e].gen /\ x.fired = entry[e].fired
        BY <1>1 DEF EntryStates
  <2>2. Update(e, x)
        BY <1>5 DEF DialFails
  <2> HIDE DEF x
  <2>3. Sound(x)
        BY <1>1, <1>3, <2>1 DEF Fits, Sound, Loose, Unheld, Dialed
  <2> QED BY <1>3, <1>4, <2>1, <2>2, <2>3
<1>6. CASE DialInstalls(e)
  <2> DEFINE y == Answered(entry[e])
  <2>1. PICK z \in IdleLocked(y) : Update(e, Asks(z))
        BY <1>6 DEF DialInstalls
  <2>2. /\ y \in EntryStates /\ y.key = entry[e].key /\ y.conn = "up"
        /\ y.refs = entry[e].refs /\ y.kept = entry[e].kept /\ y.ended = entry[e].ended
        /\ y.armed = entry[e].armed /\ y.gen = entry[e].gen /\ y.fired = entry[e].fired
        BY <1>1 DEF EntryStates, Answered
  <2> HIDE DEF y
  <2>3. Loose(y) /\ ~y.armed
        BY <1>1, <1>3, <2>2 DEF Fits, Sound, Loose
  <2>4. /\ z \in EntryStates /\ Sound(z) /\ z.key = y.key /\ z.conn = y.conn
        /\ z.refs = y.refs /\ z.kept = y.kept /\ (z.armed => z.gen \notin z.fired)
        BY <2>1, <2>2, <2>3, IdleSound
  <2> DEFINE x == Asks(z)
  <2>5. /\ x \in EntryStates /\ x.key = z.key /\ x.conn = z.conn
        /\ x.refs = z.refs /\ x.kept = z.kept /\ x.ended = z.ended
        /\ x.armed = z.armed /\ x.gen = z.gen /\ x.fired = z.fired
        BY <2>4 DEF EntryStates, Asks
  <2>6. Update(e, x)
        BY <2>1
  <2> HIDE DEF x
  <2>7. Sound(x)
        BY <2>4, <2>5 DEF Sound, Loose, Unheld
  <2>8. map[entry[e].key] = e
        BY <1>6 DEF DialInstalls, OnMap
  <2> QED BY <1>4, <2>2, <2>4, <2>5, <2>6, <2>7, <2>8
<1> QED BY <1>5, <1>6

\* A timer whose turn is over changes nothing; the current one ends the entry.
LEMMA ExpireKept ==
  ASSUME Pooled, NEW e \in Entries, NEW g \in entry[e].fired, Expire(e, g)
  PROVE  Keeps
<1> USE DEF Pooled
<1> DEFINE y == [entry[e] EXCEPT !.fired = @ \ {g}]
           z == [y EXCEPT !.armed = FALSE]
           x == IF y.gen # g \/ ~y.armed THEN y ELSE EndIfUnheld(z)
<1>1. entry[e] \in EntryStates /\ Fits(e)
      BY DEF Typed, Placed
<1>2. /\ y \in EntryStates /\ y.key = entry[e].key /\ y.conn = entry[e].conn
      /\ y.refs = entry[e].refs /\ y.kept = entry[e].kept /\ y.ended = entry[e].ended
      /\ y.armed = entry[e].armed /\ y.gen = entry[e].gen
      /\ y.fired = entry[e].fired \ {g}
      BY <1>1 DEF EntryStates
<1>3. Update(e, x) /\ UNCHANGED <<kept, closed, starts, caller, confVars>>
      BY DEF Expire
<1> HIDE DEF y
<1>4. /\ z \in EntryStates /\ z.key = y.key /\ z.conn = y.conn
      /\ z.refs = y.refs /\ z.kept = y.kept /\ z.ended = y.ended
      /\ ~z.armed /\ z.gen = y.gen /\ z.fired = y.fired
      BY <1>2 DEF EntryStates
<1> HIDE DEF z
<1>5. Sound(y) /\ Loose(z) /\ (Unheld(z) <=> Unheld(y))
      BY <1>1, <1>2, <1>4 DEF Fits, Sound, Loose, Unheld
<1>6. /\ x \in EntryStates /\ Sound(x) /\ x.key = y.key /\ x.conn = y.conn
      /\ x.refs = y.refs /\ x.kept = y.kept /\ (y.ended => x.ended)
      /\ (x.ended /\ ~y.ended => Unheld(y))
      /\ x.armed => y.armed /\ x.gen = y.gen /\ x.fired = y.fired
  <2>1. CASE y.gen # g \/ ~y.armed
        BY <1>2, <1>5, <2>1
  <2>2. CASE ~(y.gen # g \/ ~y.armed)
    <3>1. x = EndIfUnheld(z)
          BY <2>2
    <3> HIDE DEF x
    <3>2. /\ x \in EntryStates /\ Sound(x) /\ x.key = z.key /\ x.conn = z.conn
          /\ x.refs = z.refs /\ x.kept = z.kept /\ (z.ended => x.ended)
          /\ (x.ended /\ ~z.ended => Unheld(z)) /\ ~x.armed
          BY <1>4, <1>5, <3>1, EndIfSound
    <3> QED BY <1>4, <1>5, <3>2
  <2> QED BY <2>1, <2>2
<1> HIDE DEF x
<1>7. entry[e].conn = "up" /\ x.ended /\ ~entry[e].ended => x.refs = 0 /\ ~x.kept
      BY <1>2, <1>6 DEF Unheld
<1>8. x.armed /\ x.gen \in x.fired => entry[e].armed /\ entry[e].gen \in entry[e].fired
      BY <1>2, <1>6
<1>9. /\ entry' \in [Entries -> EntryStates] /\ map' \in [Servers -> 0..MaxEntries]
      /\ stopping' \subseteq Entries
      /\ entry'[e] = x /\ \A f \in Entries \ {e} : entry'[f] = entry[f]
      /\ Placed' /\ Spared
  <2>1. UNCHANGED declared
        BY <1>3 DEF confVars
  <2> QED BY <1>2, <1>3, <1>6, <1>7, <1>8, <2>1, Updated
<1> QED BY <1>2, <1>3, <1>6, <1>9, EntryLeaves

\* An entry whose server died is ended when watch finds it.
LEMMA WatchKept ==
  ASSUME Pooled, NEW e \in Entries, Watch(e)
  PROVE  Keeps
<1> USE DEF Pooled
<1>1. /\ entry[e] \in EntryStates /\ Fits(e) /\ entry[e].conn \in Gone
      /\ ~entry[e].ended
      /\ UNCHANGED <<kept, closed, starts, caller, confVars, declared>>
      BY DEF Typed, Placed, Watch, confVars
<1>2. entry[e].conn \in Dialed /\ entry[e].conn # "up" /\ Loose(entry[e])
      BY <1>1 DEF Gone, Dialed, Fits, Sound
<1>3. PICK x : x = End(entry[e])
      OBVIOUS
<1>4. /\ x \in EntryStates /\ Sound(x) /\ x.key = entry[e].key /\ x.conn = entry[e].conn
      /\ x.refs = entry[e].refs /\ x.ended /\ ~x.armed
      BY <1>1, <1>2, <1>3, EndSound
<1>5. Update(e, x)
      BY <1>3 DEF Watch
<1>6. /\ entry' \in [Entries -> EntryStates] /\ map' \in [Servers -> 0..MaxEntries]
      /\ stopping' \subseteq Entries
      /\ entry'[e] = x /\ \A f \in Entries \ {e} : entry'[f] = entry[f]
      /\ Placed' /\ Spared
      BY <1>1, <1>2, <1>4, <1>5, Updated
<1> QED BY <1>1, <1>4, <1>6, EntryLeaves

\* Every step of an entry keeps the pool.
LEMMA EntryKept ==
  ASSUME Pooled, NEW e \in Entries, EntryStep(e)
  PROVE  Keeps
<1> USE DEF Pooled
<1>1. CASE DropExpired(e)
  <2>1. /\ entry[e].conn # "up" /\ (map' = Without(e) \/ map' = map)
        /\ UNCHANGED <<entry, kept, stopping, closed, starts, caller, confVars, due>>
        BY <1>1 DEF DropExpired
  <2>2. map' \in [Servers -> 0..MaxEntries] /\ Placed' /\ Spared
        BY <2>1, OffTheMap
  <2> QED BY <2>1, <2>2, EntryLeaves DEF Typed
<1>2. CASE DialStops(e)
  <2>1. /\ Update(e, EndIfUnheld([entry[e] EXCEPT !.check = "none"]))
        /\ UNCHANGED <<kept, closed, starts, caller, confVars, declared>>
        BY <1>2 DEF DialStops, confVars
  <2>2. /\ entry' \in [Entries -> EntryStates] /\ map' \in [Servers -> 0..MaxEntries]
        /\ stopping' \subseteq Entries
        /\ \A f \in Entries : entry'[f].refs = entry[f].refs
        /\ Placed' /\ Spared
        BY <2>1, EndIfKept
  <2> QED BY <2>1, <2>2, EntryLeaves
<1> QED BY <1>1, <1>2, TouchedKept, DialKept, ExpireKept, WatchKept DEF EntryStep

-----------------------------------------------------------------------------
(* The steps of a manager, and Close.                                      *)

ManagerStates ==
  [pc : {"idle", "read", "keep", "recheck", "checks", "unwanted"},
   want : SUBSET Servers, todo : SUBSET Entries, e : 0..MaxEntries]

\* Nobody at an entry notices what a manager does elsewhere.
LEMMA ManagerMoves ==
  ASSUME Pooled, manager' \in [Managers -> ManagerStates],
         \A m \in Managers : manager'[m].pc = "unwanted" => manager'[m].e \in Entries,
         declared' \subseteq Servers, UNCHANGED <<poolVars, caller, due>>
  PROVE  Keeps
<1> USE DEF Pooled, poolVars
<1>1. Typed' /\ Aimed'
      BY DEF Typed, Aimed, ManagerStates
<1>2. Counted'
      BY SameCount
<1> QED BY <1>1, <1>2, Unspoiled DEF Keeps

\* A manager goes over what lingers.
LEMMA NextCheckTyped ==
  ASSUME NEW todo \in SUBSET Entries
  PROVE  NextCheck(todo) \in ManagerStates /\ NextCheck(todo).pc # "unwanted"
<1>1. 0 \in 0..MaxEntries
      BY Bounds
<1>2. CASE todo = {}
      BY <1>1, <1>2 DEF NextCheck, ManagerStates
<1>3. CASE todo # {}
      BY <1>1, <1>3 DEF NextCheck, ManagerStates
<1> QED BY <1>2, <1>3

\* A change of the declarations, and the questions it leads to.
LEMMA AsksKept ==
  ASSUME Pooled, NEW m \in Managers,
         \/ \E s \in Servers : Change(m, s)
         \/ ReadDeclared(m) \/ Recheck(m)
         \/ \E e \in manager[m].todo : RecheckOne(m, e)
  PROVE  Keeps
<1> USE DEF Pooled
<1>1. manager \in [Managers -> ManagerStates] /\ manager[m] \in ManagerStates
      BY DEF Typed, ManagerStates
<1>2. ASSUME NEW r \in ManagerStates, manager' = [manager EXCEPT ![m] = r],
             r.pc = "unwanted" => r.e \in Entries,
             declared' \subseteq Servers, UNCHANGED <<poolVars, caller, due>>
      PROVE  Keeps
  <2>1. manager' \in [Managers -> ManagerStates] /\ manager'[m] = r
        /\ \A n \in Managers \ {m} : manager'[n] = manager[n]
        BY <1>1, <1>2
  <2> QED BY <1>2, <2>1, ManagerMoves DEF Aimed
<1>3. CASE \E s \in Servers : Change(m, s)
  <2>1. PICK s \in Servers : Change(m, s)
        BY <1>3
  <2> DEFINE r == [manager[m] EXCEPT !.pc = IF keeping THEN "read" ELSE "recheck"]
  <2>2. r \in ManagerStates /\ r.pc # "unwanted"
        BY <1>1 DEF ManagerStates
  <2>3. manager' = [manager EXCEPT ![m] = r]
        BY <1>1, <2>1 DEF Change
  <2>4. declared' \subseteq Servers /\ UNCHANGED <<poolVars, caller, due>>
        BY <2>1 DEF Change, Flip, Typed
  <2> HIDE DEF r
  <2> QED BY <1>2, <2>2, <2>3, <2>4
<1>4. CASE ReadDeclared(m)
  <2> DEFINE r == [manager[m] EXCEPT !.pc = "keep", !.want = declared]
  <2>1. r \in ManagerStates /\ r.pc # "unwanted"
        BY <1>1 DEF ManagerStates, Typed
  <2>2. manager' = [manager EXCEPT ![m] = r]
        BY <1>1, <1>4 DEF ReadDeclared
  <2>3. declared' \subseteq Servers /\ UNCHANGED <<poolVars, caller, due>>
        BY <1>4 DEF ReadDeclared, Typed
  <2> HIDE DEF r
  <2> QED BY <1>2, <2>1, <2>2, <2>3
<1>5. CASE Recheck(m)
  <2> DEFINE todo == {e \in Entries : Lingers(entry[e]) /\ map[entry[e].key] = e}
  <2>1. NextCheck(todo) \in ManagerStates /\ NextCheck(todo).pc # "unwanted"
        BY NextCheckTyped
  <2>2. manager' = [manager EXCEPT ![m] = NextCheck(todo)]
        BY <1>5 DEF Recheck
  <2>3. declared' \subseteq Servers /\ UNCHANGED <<poolVars, caller, due>>
        BY <1>5 DEF Recheck, Typed
  <2> HIDE DEF todo
  <2> QED BY <1>2, <2>1, <2>2, <2>3
<1>6. CASE \E e \in manager[m].todo : RecheckOne(m, e)
  <2>1. PICK e \in Entries : RecheckOne(m, e)
        BY <1>1, <1>6 DEF ManagerStates
  <2> DEFINE rest == manager[m].todo \ {e}
             r == [manager[m] EXCEPT !.pc = "unwanted", !.todo = @ \ {e}, !.e = e]
  <2>2. rest \in SUBSET Entries
        BY <1>1 DEF ManagerStates
  <2>3. NextCheck(rest) \in ManagerStates /\ NextCheck(rest).pc # "unwanted"
        BY <2>2, NextCheckTyped
  <2>4. r \in ManagerStates /\ r.e = e
        BY <1>1, Bounds DEF ManagerStates
  <2>5. manager' = [manager EXCEPT ![m] = NextCheck(rest)]
        \/ manager' = [manager EXCEPT ![m] = r]
    <3>1. CASE entry[e].key \in declared
          BY <2>1, <3>1 DEF RecheckOne
    <3>2. CASE entry[e].key \notin declared
          BY <2>1, <3>2 DEF RecheckOne
    <3> QED BY <3>1, <3>2
  <2>6. declared' \subseteq Servers /\ UNCHANGED <<poolVars, caller, due>>
        BY <2>1 DEF RecheckOne, Typed
  <2> HIDE DEF rest, r
  <2> QED BY <1>2, <2>3, <2>4, <2>5, <2>6
<1> QED BY <1>3, <1>4, <1>5, <1>6

\* A manager acts on its verdict.
LEMMA RecheckStopsKept ==
  ASSUME Pooled, NEW m \in Managers, RecheckStops(m)
  PROVE  Keeps
<1> USE DEF Pooled
<1>1. PICK e \in Entries : e = manager[m].e
      BY DEF RecheckStops, Aimed
<1>2. /\ Update(e, EndIfUnheld(entry[e]))
      /\ manager' = [manager EXCEPT ![m] = NextCheck(manager[m].todo)]
      /\ UNCHANGED <<kept, closed, starts, caller, declared, keeping, changes>>
      BY <1>1 DEF RecheckStops, Typed
<1>3. /\ entry' \in [Entries -> EntryStates] /\ map' \in [Servers -> 0..MaxEntries]
      /\ stopping' \subseteq Entries
      /\ \A f \in Entries : entry'[f].refs = entry[f].refs
      /\ Placed' /\ Spared
      BY <1>2, EndIfKept
<1>4. NextCheck(manager[m].todo) \in ManagerStates
      /\ NextCheck(manager[m].todo).pc # "unwanted"
      BY NextCheckTyped DEF Typed
<1>5. /\ manager' \in [Managers -> ManagerStates]
      /\ manager'[m].pc # "unwanted"
      /\ \A n \in Managers \ {m} : manager'[n] = manager[n]
      BY <1>2, <1>4 DEF Typed, ManagerStates
<1>6. Typed'
      BY <1>2, <1>3, <1>5 DEF Typed, ManagerStates
<1>7. Aimed'
      BY <1>2, <1>5 DEF Aimed
<1>8. Counted'
      BY <1>2, <1>3, SameCount
<1> QED BY <1>3, <1>6, <1>7, <1>8 DEF Keeps

\* Close ends every server the map has, and leaves the map empty.
LEMMA CloseKept == Pooled /\ Close => Keeps
<1> SUFFICES ASSUME Pooled, Close PROVE Keeps
    OBVIOUS
<1> USE DEF Pooled, confVars
<1> DEFINE off == {map[s] : s \in Servers}
           ends == off \cap {e \in Entries : entry[e].conn \in Dialed /\ ~entry[e].ended}
<1>1. /\ closed' = TRUE /\ kept' = {} /\ map' = [s \in Servers |-> 0]
      /\ stopping' = stopping \cup ends /\ due' = due \ off
      /\ UNCHANGED <<starts, caller, confVars>>
      BY DEF Close
<1>2. \A e \in Entries :
        entry'[e] = IF e \in ends THEN End(entry[e])
                    ELSE IF e \in off THEN CancelIdle(entry[e]) ELSE entry[e]
  <2>1. entry' = [e \in Entries |->
                 CASE e \in ends -> End(entry[e])
                   [] e \in off \ ends -> CancelIdle(entry[e])
                   [] e \notin off -> entry[e]]
        BY DEF Close
  <2>2. ends \subseteq off
        OBVIOUS
  <2> HIDE DEF ends, off
  <2> QED BY <2>1, <2>2
<1>3. entry' = [e \in Entries |-> entry'[e]]
      BY DEF Close
<1>4. /\ ends \subseteq Entries /\ ends \subseteq off
      /\ \A e \in ends : entry[e].conn \in Dialed /\ ~entry[e].ended
      /\ \A e \in Entries : e \in off /\ e \notin ends =>
           ~(entry[e].conn \in Dialed /\ ~entry[e].ended)
      OBVIOUS
<1>5. \A e \in Entries : entry[e].conn = "up" /\ ~entry[e].ended => e \in off
      BY DEF Placed, Fits, Sound, Loose
<1> HIDE DEF ends, off
<1>6. ASSUME NEW e \in Entries
      PROVE  /\ entry'[e] \in EntryStates /\ Fits(e)'
             /\ entry'[e].refs = entry[e].refs
  <2>1. entry[e] \in EntryStates /\ Fits(e) /\ Loose(entry[e]) /\ Sound(entry[e])
        BY DEF Typed, Placed, Fits, Sound
  <2>2. PICK y : y = entry'[e]
        OBVIOUS
  <2>3. CASE e \in ends
    <3>1. /\ y \in EntryStates /\ Sound(y) /\ y.conn = entry[e].conn /\ y.ended
          /\ ~y.armed /\ y.refs = entry[e].refs
          BY <1>2, <1>4, <2>1, <2>2, <2>3, EndSound
    <3>2. e \in stopping' /\ y.conn \in Dialed \ {"stopped", "unused"}
          BY <1>1, <1>4, <2>1, <2>3, <3>1 DEF Loose, Dialed
    <3>3. Sound(entry[e])'
          BY <2>2, <3>1 DEF Sound, Loose, Unheld, Dialed
    <3>4. ~(e > starts) /\ starts' = starts
          BY <1>1, <2>1, <3>1, <3>2 DEF Fits
    <3>5. y.conn \in {"up", "gone"}
          BY <3>2 DEF Dialed
    <3> QED BY <2>2, <3>1, <3>2, <3>3, <3>4, <3>5 DEF Fits
  <2>4. CASE e \notin ends
    <3>1. e \in off => ~Unheld(entry[e])
          BY <1>4, <2>4 DEF Unheld
    <3>2. CancelIdle(entry[e]) = entry[e] \/ e \notin off
          BY <2>1, <3>1 DEF Sound, CancelIdle
    <3>3. y = entry[e]
          BY <1>2, <2>2, <2>4, <3>2
    <3>4. e \in stopping' <=> e \in stopping
          BY <1>1, <2>4
    <3>5. entry[e].conn = "up" => entry[e].ended
      <4>1. entry[e].conn = "up" => entry[e].conn \in Dialed
            BY DEF Dialed
      <4> QED BY <1>4, <1>5, <2>4, <4>1
    <3>6. Sound(entry[e])'
          BY <2>1, <2>2, <3>3 DEF Sound, Loose, Unheld, Dialed
    <3>7. entry[e].armed => e \notin off
          BY <2>1, <3>1 DEF Sound
    <3> QED BY <1>1, <2>1, <2>2, <3>3, <3>4, <3>5, <3>6, <3>7 DEF Fits
  <2> QED BY <2>3, <2>4
<1>7. Placed'
      BY <1>1, <1>6 DEF Placed, Mapped
<1>8. Typed'
  <2>1. entry' \in [Entries -> EntryStates]
        BY <1>3, <1>6
  <2>2. map' \in [Servers -> 0..MaxEntries]
        BY <1>1, Bounds
  <2> QED BY <1>1, <1>4, <2>1, <2>2 DEF Typed
<1>9. Aimed'
      BY <1>1 DEF Aimed
<1>10. Counted'
      BY <1>1, <1>6, SameCount
<1>11. Spared
      BY <1>1 DEF Spared
<1> QED BY <1>7, <1>8, <1>9, <1>10, <1>11 DEF Keeps

\* New starts take numbers that no start has, each its own.
LEMMA SlotsFresh ==
  ASSUME NEW S \in SUBSET Servers, NEW n \in Nat, n + Cardinality(S) <= MaxEntries,
         NEW at \in Slots(S, n)
  PROVE  /\ Cardinality(S) \in Nat /\ n + Cardinality(S) \in 0..MaxEntries
         /\ DOMAIN at = S
         /\ \A s \in S : at[s] \in Entries /\ at[s] \in 1..(n + Cardinality(S)) /\ at[s] > n
         /\ \A s, t \in S : at[s] = at[t] => s = t
<1>1. Cardinality(S) \in Nat
      BY Bounds, FS_Subset, FS_CardinalityType
<1>2. PICK k \in Nat : k = Cardinality(S)
      BY <1>1
<1>3. /\ at \in [S -> (n + 1)..(n + k)]
      /\ \A s, t \in S : at[s] = at[t] => s = t
      BY <1>2 DEF Slots
<1>4. ASSUME NEW s \in S
      PROVE  at[s] \in Entries /\ at[s] \in 1..(n + k) /\ at[s] > n
  <2>1. at[s] \in (n + 1)..(n + k)
        BY <1>3
  <2> QED BY <1>2, <2>1, Bounds DEF Entries
<1> QED BY <1>1, <1>2, <1>3, <1>4, Bounds

\* The new starts are there, and the other entries are as they were.
LEMMA StartedAt ==
  ASSUME NEW S \in SUBSET Servers, NEW n \in Nat, n + Cardinality(S) <= MaxEntries,
         NEW at \in Slots(S, n), NEW old \in [Entries -> EntryStates]
  PROVE  /\ Started(old, at) \in [Entries -> EntryStates]
         /\ \A s \in S : Started(old, at)[at[s]] = Start(s, TRUE, 0)
         /\ \A e \in Entries : (\A s \in S : at[s] # e) => Started(old, at)[e] = old[e]
<1>1. /\ DOMAIN at = S
      /\ \A s \in S : at[s] \in Entries
      /\ \A s, t \in S : at[s] = at[t] => s = t
      BY SlotsFresh
<1>2. PICK new : new = Started(old, at)
      OBVIOUS
<1>3. new = [e \in Entries |-> new[e]]
      BY <1>2 DEF Started
<1>4. ASSUME NEW s \in S
      PROVE  new[at[s]] = Start(s, TRUE, 0)
  <2>1. (CHOOSE t \in S : at[t] = at[s]) = s
        BY <1>1
  <2>2. new[at[s]] = Start(CHOOSE t \in S : at[t] = at[s], TRUE, 0)
        BY <1>1, <1>2 DEF Started
  <2> QED BY <2>1, <2>2
<1>5. ASSUME NEW e \in Entries, \A s \in S : at[s] # e
      PROVE  new[e] = old[e]
      BY <1>1, <1>2, <1>5 DEF Started
<1>6. ASSUME NEW e \in Entries
      PROVE  new[e] \in EntryStates
  <2>1. CASE \E s \in S : at[s] = e
    <3>1. PICK s \in S : at[s] = e
          BY <2>1
    <3>2. Start(s, TRUE, 0) \in EntryStates
          BY StartSound
    <3> QED BY <1>4, <3>1, <3>2
  <2>2. CASE \A s \in S : at[s] # e
        BY <1>5, <2>2
  <2> QED BY <2>1, <2>2
<1> QED BY <1>2, <1>3, <1>4, <1>5, <1>6

\* What a manager that wants the servers want does to the entries there are.
LetGone(want) == {map[s] : s \in {t \in kept \ want : map[t] # 0}}

TakenUp(want) == {map[s] : s \in {t \in want : map[t] # 0}}

KeptAfter(want) ==
  [e \in Entries |-> CASE e \in LetGone(want) -> LetGo(entry[e])
                      [] e \in TakenUp(want) -> TakeUp(entry[e])
                      [] e \notin LetGone(want) \cup TakenUp(want) -> entry[e]]

Missing(want) == {s \in want : map[s] = 0}

KeepEnds(want) == {e \in LetGone(want) : KeptAfter(want)[e].ended}

\* An entry that the manager ends had nobody, and one whose timer still runs
\* is as it was.
KeptSo(want, e) ==
  LET x == KeptAfter(want)[e] IN
  /\ Sound(x) /\ x.key = entry[e].key /\ x.conn = entry[e].conn /\ x.refs = entry[e].refs
  /\ entry[e].ended => x.ended
  /\ x.ended /\ ~entry[e].ended => e \in KeepEnds(want) /\ x.refs = 0 /\ ~x.kept
  /\ e \in KeepEnds(want) => x.ended /\ entry[e].conn \in Dialed
  /\ x.armed => x = entry[e] /\ e \notin TakenUp(want) \cup KeepEnds(want)

\* What the configuration lets go and takes up is of the map, and of no two
\* minds: an entry is of one key.
LEMMA KeepTakes ==
  ASSUME Pooled, NEW want \in SUBSET Servers
  PROVE  /\ KeptAfter(want) \in [Entries -> EntryStates]
         /\ LetGone(want) \subseteq 1..starts /\ \A e \in LetGone(want) : ~entry[e].ended
         /\ KeepEnds(want) \subseteq LetGone(want)
         /\ \A e \in Entries : KeptSo(want, e)
<1> DEFINE gone == LetGone(want)
           held == TakenUp(want)
           ends == KeepEnds(want)
           after == KeptAfter(want)
<1> USE DEF Pooled
<1>1. \A e \in gone : \E t \in Servers \ want : map[t] = e /\ e # 0
      BY DEF Typed, LetGone
<1>2. \A e \in held : \E t \in want : map[t] = e /\ e # 0
      BY DEF TakenUp
<1>3. \A t \in Servers : map[t] # 0 =>
        /\ map[t] \in 1..starts /\ entry[map[t]].key = t /\ ~entry[map[t]].ended
      BY DEF Placed, Mapped
<1>4. gone \subseteq 1..starts /\ \A e \in gone : ~entry[e].ended /\ e \notin held
  <2> SUFFICES ASSUME NEW e \in gone
               PROVE  e \in 1..starts /\ ~entry[e].ended /\ e \notin held
      OBVIOUS
  <2>1. PICK t \in Servers \ want : map[t] = e /\ e # 0
        BY <1>1
  <2>2. e \in 1..starts /\ entry[e].key = t /\ ~entry[e].ended
        BY <1>3, <2>1
  <2>3. ASSUME e \in held PROVE FALSE
    <3>1. PICK u \in want : map[u] = e /\ e # 0
          BY <1>2, <2>3
    <3>2. entry[e].key = u
          BY <1>3, <3>1
    <3> QED BY <2>1, <2>2, <3>1, <3>2
  <2> QED BY <2>2, <2>3
<1>5. ASSUME NEW e \in Entries
      PROVE  after[e] \in EntryStates /\ KeptSo(want, e)
  <2>1. entry[e] \in EntryStates /\ Sound(entry[e])
        BY DEF Typed, Placed, Fits
  <2>2. /\ after[e] = CASE e \in gone -> LetGo(entry[e])
                        [] e \in held -> TakeUp(entry[e])
                        [] e \notin gone \cup held -> entry[e]
        /\ e \in ends <=> e \in gone /\ after[e].ended
        BY DEF KeptAfter, KeepEnds
  <2>3. PICK x : x = entry[e]
        OBVIOUS
  <2>4. CASE e \in gone
    <3>1. after[e] = LetGo(x) /\ ~x.ended
          BY <1>4, <2>2, <2>3, <2>4
    <3>2. /\ LetGo(x) \in EntryStates /\ Sound(LetGo(x))
          /\ LetGo(x).key = x.key /\ LetGo(x).conn = x.conn /\ LetGo(x).refs = x.refs
          /\ LetGo(x).ended /\ ~x.ended => LetGo(x).refs = 0 /\ ~LetGo(x).kept
                                         /\ x.conn \in Dialed
          /\ (x.ended => LetGo(x).ended) /\ ~LetGo(x).armed
          BY <2>1, <2>3, KeepSound
    <3> QED BY <2>2, <2>3, <2>4, <3>1, <3>2 DEF KeptSo
  <2>5. CASE e \in held /\ e \notin gone
    <3>1. after[e] = TakeUp(x)
          BY <2>2, <2>3, <2>5
    <3>2. /\ TakeUp(x) \in EntryStates /\ Sound(TakeUp(x))
          /\ TakeUp(x).key = x.key /\ TakeUp(x).conn = x.conn /\ TakeUp(x).refs = x.refs
          /\ TakeUp(x).ended = x.ended /\ ~TakeUp(x).armed
          BY <2>1, <2>3, KeepSound
    <3> QED BY <2>2, <2>3, <2>5, <3>1, <3>2 DEF KeptSo
  <2>6. CASE e \notin gone /\ e \notin held
        BY <2>1, <2>2, <2>6 DEF KeptSo
  <2> QED BY <2>4, <2>5, <2>6
<1>6. after = [e \in Entries |-> after[e]] /\ ends \subseteq gone
      BY DEF KeptAfter, KeepEnds
<1> QED BY <1>4, <1>5, <1>6

\* A manager tells the pool what to keep: the pool starts what is missing and
\* lets go the rest, which ends at once when nothing holds it.
LEMMA KeepKept ==
  ASSUME Pooled, NEW m \in Managers, Keep(m)
  PROVE  Keeps
<1> USE DEF Pooled
<1>1. PICK want \in SUBSET Servers : want = manager[m].want
      BY DEF Typed
<1>2. /\ manager' = [manager EXCEPT ![m].pc = "recheck", ![m].want = {}]
      /\ UNCHANGED <<closed, caller, declared, keeping, changes>>
      BY DEF Keep
<1>3. /\ manager' \in [Managers -> ManagerStates]
      /\ manager'[m].pc # "unwanted"
      /\ \A n \in Managers \ {m} : manager'[n] = manager[n]
      BY <1>2 DEF Typed, ManagerStates
<1>4. CASE closed
  <2>1. UNCHANGED <<entry, map, kept, stopping, starts, due>>
        BY <1>4 DEF Keep
  <2> QED BY <1>2, <1>3, <2>1, ManagerMoves DEF Aimed, Typed, poolVars
<1>5. CASE ~closed
  <2>1. PICK gone : gone = LetGone(want)
        OBVIOUS
  <2>2. PICK held : held = TakenUp(want)
        OBVIOUS
  <2>3. PICK new \in SUBSET Servers : new = Missing(want)
        BY DEF Missing
  <2>4. PICK after : after = KeptAfter(want)
        OBVIOUS
  <2>5. PICK ends : ends = KeepEnds(want)
        OBVIOUS
  <2>6. PICK at \in Slots(new, starts) :
       /\ starts + Cardinality(new) <= MaxEntries
       /\ kept' = want
       /\ entry' = Started(after, at)
       /\ map' = [s \in Servers |-> IF s \in new THEN at[s]
                                    ELSE IF map[s] \in ends THEN 0 ELSE map[s]]
       /\ stopping' = stopping \cup ends
       /\ starts' = starts + Cardinality(new)
       /\ due' = due \ (held \cup ends)
    <3> DEFINE w == manager[m].want
    <3>1. \E at \in Slots(Missing(w), starts) :
            /\ starts + Cardinality(Missing(w)) <= MaxEntries
            /\ kept' = w
            /\ entry' = Started(KeptAfter(w), at)
            /\ map' = [s \in Servers |-> IF s \in Missing(w) THEN at[s]
                                    ELSE IF map[s] \in KeepEnds(w) THEN 0 ELSE map[s]]
            /\ stopping' = stopping \cup KeepEnds(w)
            /\ starts' = starts + Cardinality(Missing(w))
            /\ due' = due \ (TakenUp(w) \cup KeepEnds(w))
          BY <1>5 DEF Keep, LetGone, TakenUp, KeptAfter, KeepEnds, Missing
    <3>2. w = want
          BY <1>1
    <3> HIDE DEF w
    <3> QED BY <2>2, <2>3, <2>4, <2>5, <3>1, <3>2
  <2>7. /\ after \in [Entries -> EntryStates]
        /\ gone \subseteq 1..starts /\ \A e \in gone : ~entry[e].ended
        /\ \A e \in Entries :
             /\ Sound(after[e]) /\ after[e].key = entry[e].key
             /\ after[e].conn = entry[e].conn /\ after[e].refs = entry[e].refs
             /\ entry[e].ended => after[e].ended
             /\ after[e].ended /\ ~entry[e].ended =>
                  /\ e \in ends /\ after[e].refs = 0 /\ ~after[e].kept
             /\ e \in ends => after[e].ended /\ entry[e].conn \in Dialed
             /\ after[e].armed => after[e] = entry[e] /\ e \notin held \cup ends
        BY <2>1, <2>2, <2>4, <2>5, KeepTakes DEF KeptSo
  <2>8. ends \subseteq gone
        BY <2>1, <2>5, KeepTakes
  <2>9. starts \in Nat /\ starts' \in 0..MaxEntries /\ starts <= starts'
        /\ DOMAIN at = new
        /\ (\A s \in new : at[s] \in Entries /\ at[s] \in 1..starts' /\ at[s] > starts)
    <3>1. starts \in Nat
          BY Bounds DEF Typed
    <3>2. /\ Cardinality(new) \in Nat /\ starts + Cardinality(new) \in 0..MaxEntries
          /\ DOMAIN at = new
          /\ \A s \in new : /\ at[s] \in Entries
                            /\ at[s] \in 1..(starts + Cardinality(new)) /\ at[s] > starts
          BY <2>6, <3>1, SlotsFresh
    <3> QED BY <2>6, <3>1, <3>2
  <2>10. /\ entry' \in [Entries -> EntryStates]
         /\ \A s \in new : entry'[at[s]] = Start(s, TRUE, 0)
         /\ \A e \in Entries : (\A s \in new : at[s] # e) => entry'[e] = after[e]
    <3>1. PICK st : st = Started(after, at)
          OBVIOUS
    <3>2. starts + Cardinality(new) <= MaxEntries /\ starts \in Nat
          BY <2>6, <2>9
    <3>3. after \in [Entries -> EntryStates]
          BY <2>7
    <3>4. /\ Started(after, at) \in [Entries -> EntryStates]
          /\ \A s \in new : Started(after, at)[at[s]] = Start(s, TRUE, 0)
          /\ \A e \in Entries :
               (\A s \in new : at[s] # e) => Started(after, at)[e] = after[e]
          BY <3>2, <3>3, StartedAt, Zenon
    <3> QED BY <2>6, <3>1, <3>4
  <2>11. \A e \in Entries : e \in 1..starts => entry'[e] = after[e]
    <3> SUFFICES ASSUME NEW e \in Entries, e \in 1..starts
                 PROVE  entry'[e] = after[e]
        OBVIOUS
    <3>1. \A s \in new : at[s] # e
          BY <2>9
    <3> QED BY <2>10, <3>1
  <2>12. \A s \in Servers : map[s] # 0 =>
           /\ map[s] \in 1..starts /\ map[s] \in Entries /\ entry[map[s]].key = s
           /\ ~entry[map[s]].ended /\ entry[map[s]].conn \notin {"unused", "failed"}
           /\ s \notin new
    <3>1. 1..starts \subseteq Entries
          BY Bounds DEF Typed, Entries
    <3> QED BY <2>3, <3>1 DEF Placed, Mapped, Missing
  <2>13. \A s \in Servers :
           map'[s] = IF s \in new THEN at[s] ELSE IF map[s] \in ends THEN 0 ELSE map[s]
         BY <2>6
  <2>14. map' \in [Servers -> 0..MaxEntries]
    <3>1. \A s \in Servers : map'[s] \in 0..MaxEntries
          BY <2>9, <2>13, Bounds DEF Typed
    <3>2. map' = [s \in Servers |-> map'[s]]
          BY <2>6
    <3> QED BY <3>1, <3>2
  <2>15. \A s \in new : /\ entry'[at[s]].key = s /\ entry'[at[s]].conn = "dialing"
                        /\ ~entry'[at[s]].ended /\ ~entry'[at[s]].armed
                        /\ entry'[at[s]].refs = 0 /\ entry'[at[s]].fired = {}
    <3> SUFFICES ASSUME NEW s \in new
                 PROVE  /\ entry'[at[s]].key = s /\ entry'[at[s]].conn = "dialing"
                        /\ ~entry'[at[s]].ended /\ ~entry'[at[s]].armed
                        /\ entry'[at[s]].refs = 0 /\ entry'[at[s]].fired = {}
        OBVIOUS
    <3>1. PICK x : x = Start(s, TRUE, 0)
          OBVIOUS
    <3>2. /\ x.key = s /\ x.conn = "dialing" /\ x.refs = 0
          /\ ~x.ended /\ ~x.armed /\ x.fired = {}
          BY <3>1 DEF Start, Unused
    <3> QED BY <2>10, <3>1, <3>2
  <2>16. Mapped'
    <3> SUFFICES ASSUME NEW s \in Servers, map'[s] # 0
                 PROVE  /\ map'[s] \in 1..starts'
                        /\ entry'[map'[s]].key = s /\ ~entry'[map'[s]].ended
                        /\ entry'[map'[s]].conn \notin {"unused", "failed"}
                        /\ ~closed'
        BY DEF Mapped
    <3>1. CASE s \in new
          BY <1>2, <1>5, <2>9, <2>13, <2>15, <3>1
    <3>2. CASE s \notin new
      <4>1. map'[s] = map[s] /\ map[s] \notin ends /\ map[s] # 0
            BY <2>13, <3>2
      <4>2. PICK e \in Entries : e = map[s] /\ e \in 1..starts
            BY <2>12, <4>1
      <4>3. entry'[e] = after[e] /\ ~after[e].ended
            BY <2>7, <2>11, <2>12, <4>1, <4>2
      <4>4. e \in 1..starts'
            BY <2>9, <4>2
      <4> QED BY <1>2, <1>5, <2>7, <2>12, <4>1, <4>2, <4>3, <4>4
    <3> QED BY <3>1, <3>2
  <2>17. ASSUME NEW e \in Entries
         PROVE  Fits(e)'
    <3>1. Fits(e) /\ e \in Nat
          BY Bounds DEF Placed
    <3>2. CASE \E s \in new : at[s] = e
      <4>1. PICK s \in new : at[s] = e
            BY <3>2
      <4>2. e > starts /\ ~(e > starts') /\ e \notin 1..starts
            BY <2>9, <4>1
      <4>3. e \notin stopping'
            BY <2>6, <2>7, <2>8, <3>1, <4>2 DEF Fits
      <4>4. Sound(entry[e])'
            BY <2>15, <4>1 DEF Sound, Loose, Unheld, Dialed
      <4> QED BY <2>15, <4>1, <4>2, <4>3, <4>4 DEF Fits
    <3>3. CASE \A s \in new : at[s] # e
      <4>1. entry'[e] = after[e]
            BY <2>10, <3>3
      <4>2. Sound(entry[e])'
            BY <2>7, <4>1 DEF Sound, Loose, Unheld, Dialed
      <4>3. e > starts' => entry'[e].conn = "unused"
            BY <2>7, <2>9, <3>1, <4>1 DEF Fits
      <4>4. e \in stopping' => entry'[e].ended /\ entry'[e].conn \in {"up", "gone"}
        <5>1. CASE e \in stopping
              BY <2>7, <3>1, <4>1, <5>1 DEF Fits
        <5>2. CASE e \in ends
              BY <2>7, <2>8, <3>1, <4>1, <5>2 DEF Fits, Sound, Loose, Dialed
        <5> QED BY <2>6, <5>1, <5>2
      <4>5. ASSUME entry'[e].conn = "up"
            PROVE  IF entry'[e].ended THEN e \in stopping' ELSE map'[entry'[e].key] = e
        <5>1. entry[e].conn = "up" /\ entry'[e].key = entry[e].key
              BY <2>7, <4>1, <4>5
        <5>2. CASE entry'[e].ended
              BY <2>6, <2>7, <3>1, <4>1, <5>1, <5>2 DEF Fits
        <5>3. CASE ~entry'[e].ended
          <6>1. ~entry[e].ended /\ e \notin ends
                BY <2>7, <4>1, <5>3
          <6>2. map[entry[e].key] = e /\ entry[e].key \in Servers /\ e # 0
                BY <3>1, <5>1, <6>1, Bounds DEF Fits, Sound, Loose
          <6> QED BY <2>12, <2>13, <5>1, <5>3, <6>1, <6>2
        <5> QED BY <5>2, <5>3
      <4>6. entry'[e].armed /\ entry'[e].gen \in entry'[e].fired => e \in due'
            BY <2>6, <2>7, <3>1, <4>1 DEF Fits
      <4> QED BY <4>2, <4>3, <4>4, <4>5, <4>6 DEF Fits
    <3> QED BY <3>2, <3>3
  <2>18. Counted'
    <3>1. ASSUME NEW e \in Entries
          PROVE  entry'[e].refs = entry[e].refs
      <4>1. CASE \E s \in new : at[s] = e
        <5>1. PICK s \in new : at[s] = e
              BY <4>1
        <5>2. e \notin 1..starts
              BY <2>9, <5>1
        <5>3. Holders(e) = {}
              BY <5>2 DEF Holders, Aimed
        <5>4. entry[e].refs = 0
              BY <5>3, FS_EmptySet DEF Counted
        <5> QED BY <2>15, <5>1, <5>4
      <4>2. CASE \A s \in new : at[s] # e
            BY <2>7, <2>10, <4>2
      <4> QED BY <4>1, <4>2
    <3> QED BY <1>2, <3>1, SameCount
  <2>19. Spared
    <3> SUFFICES ASSUME NEW e \in Entries, ~entry[e].ended, entry'[e].ended
                 PROVE  entry'[e].refs = 0 /\ ~entry'[e].kept
        BY DEF Spared
    <3>1. entry'[e] = after[e]
          BY <2>10, <2>15
    <3> QED BY <2>7, <3>1
  <2>20. Typed'
    <3>1. stopping' \subseteq Entries
      <4>1. 1..starts \subseteq Entries
            BY Bounds DEF Typed, Entries
      <4> QED BY <2>6, <2>7, <2>8, <4>1 DEF Typed
    <3>2. manager' \in [Managers -> [pc : {"idle", "read", "keep", "recheck", "checks",
                                           "unwanted"},
                                     want : SUBSET Servers, todo : SUBSET Entries,
                                     e : 0..MaxEntries]]
          BY <1>3 DEF ManagerStates
    <3>3. kept' \subseteq Servers
          BY <2>6
    <3> QED BY <1>2, <2>9, <2>10, <2>14, <3>1, <3>2, <3>3 DEF Typed
  <2>21. Aimed'
    <3>1. \A c \in Callers : caller[c].e \in 1..starts => caller[c].e \in 1..starts'
          BY <2>9
    <3> QED BY <1>2, <1>3, <3>1 DEF Aimed
  <2> QED BY <2>16, <2>17, <2>18, <2>19, <2>20, <2>21 DEF Keeps, Placed
<1> QED BY <1>4, <1>5

-----------------------------------------------------------------------------
(* The pool, from the start.                                               *)

\* The first entries are the starts of what is kept, and all the others unused.
LEMMA FirstEntries ==
  ASSUME Init
  PROVE  /\ starts \in 0..MaxEntries /\ kept \in SUBSET Servers
         /\ entry \in [Entries -> EntryStates]
         /\ map \in [Servers -> 0..MaxEntries]
         /\ \A s \in Servers : map[s] # 0 =>
              /\ s \in kept /\ map[s] \in 1..starts /\ map[s] \in Entries
              /\ entry[map[s]] = Start(s, TRUE, 0)
         /\ \A e \in Entries :
              \/ entry[e] = Unused
              \/ e \in 1..starts /\ \E s \in kept : entry[e] = Start(s, TRUE, 0)
<1>1. kept \in SUBSET Servers /\ starts = Cardinality(kept) /\ starts <= MaxEntries
      BY DEF Init
<1>2. starts \in Nat
      BY <1>1, Bounds, FS_Subset, FS_CardinalityType
<1>3. PICK none : none = [e \in Entries |-> Unused]
      OBVIOUS
<1>4. PICK at \in Slots(kept, 0) :
        /\ entry = Started(none, at)
        /\ map = [s \in Servers |-> IF s \in kept THEN at[s] ELSE 0]
      BY <1>3 DEF Init
<1>5. none \in [Entries -> EntryStates] /\ \A e \in Entries : none[e] = Unused
      BY <1>3 DEF EntryStates, Unused
<1>6. 0 \in Nat /\ 0 + Cardinality(kept) <= MaxEntries
      BY <1>1, <1>2, Bounds
<1>7. /\ Started(none, at) \in [Entries -> EntryStates]
      /\ \A s \in kept : Started(none, at)[at[s]] = Start(s, TRUE, 0)
      /\ \A e \in Entries : (\A s \in kept : at[s] # e) => Started(none, at)[e] = none[e]
      BY <1>1, <1>5, <1>6, StartedAt, Zenon
<1>8. \A s \in kept : at[s] \in Entries /\ at[s] \in 1..(0 + Cardinality(kept))
      BY <1>1, <1>6, SlotsFresh, Zenon
<1>9. \A s \in kept : at[s] \in Entries /\ at[s] \in 1..starts
      BY <1>1, <1>2, <1>8
<1>10. map \in [Servers -> 0..MaxEntries]
      BY <1>4, <1>9, Bounds
<1>11. \A e \in Entries :
         \/ entry[e] = Unused
         \/ e \in 1..starts /\ \E s \in kept : entry[e] = Start(s, TRUE, 0)
  <2> SUFFICES ASSUME NEW e \in Entries
               PROVE  \/ entry[e] = Unused
                      \/ e \in 1..starts /\ \E s \in kept : entry[e] = Start(s, TRUE, 0)
      OBVIOUS
  <2>1. CASE \A s \in kept : at[s] # e
        BY <1>4, <1>5, <1>7, <2>1
  <2>2. CASE \E s \in kept : at[s] = e
        BY <1>4, <1>7, <1>9, <2>2
  <2> QED BY <2>1, <2>2
<1>12. ASSUME NEW s \in Servers, map[s] # 0
       PROVE  /\ s \in kept /\ map[s] \in 1..starts /\ map[s] \in Entries
              /\ entry[map[s]] = Start(s, TRUE, 0)
  <2>1. s \in kept /\ map[s] = at[s]
        BY <1>4, <1>12
  <2> QED BY <1>4, <1>7, <1>9, <2>1
<1>13. entry \in [Entries -> EntryStates]
       BY <1>4, <1>7
<1>14. starts \in 0..MaxEntries
       BY <1>1, <1>2, Bounds
<1> QED BY <1>1, <1>10, <1>11, <1>12, <1>13, <1>14

\* The pool is sound before anybody takes a lease.
LEMMA PooledInit == Init => Pooled
<1> SUFFICES ASSUME Init PROVE Pooled
    OBVIOUS
<1>1. /\ starts \in 0..MaxEntries /\ kept \in SUBSET Servers
      /\ entry \in [Entries -> EntryStates]
      /\ map \in [Servers -> 0..MaxEntries]
      /\ \A s \in Servers : map[s] # 0 =>
           /\ s \in kept /\ map[s] \in 1..starts /\ map[s] \in Entries
           /\ entry[map[s]] = Start(s, TRUE, 0)
      /\ \A e \in Entries :
           \/ entry[e] = Unused
           \/ e \in 1..starts /\ \E s \in kept : entry[e] = Start(s, TRUE, 0)
      BY FirstEntries
<1>2. /\ declared \subseteq Servers /\ stopping = {} /\ due = {} /\ ~closed
      /\ caller = [c \in Callers |-> IdleCaller]
      /\ manager = [m \in Managers |-> IdleManager]
      BY DEF Init
<1>3. /\ \A c \in Callers : caller[c].pc = "idle"
      /\ \A m \in Managers : manager[m].pc = "idle"
      BY <1>2 DEF IdleCaller, IdleManager
<1>4. Typed
  <2>1. caller \in [Callers -> [pc : {"idle", "wait", "held", "check", "unwanted"},
                                e : 0..MaxEntries]]
        BY <1>2, Bounds DEF IdleCaller
  <2>2. manager \in [Managers -> [pc : {"idle", "read", "keep", "recheck", "checks",
                                        "unwanted"},
                                  want : SUBSET Servers, todo : SUBSET Entries,
                                  e : 0..MaxEntries]]
        BY <1>2, Bounds DEF IdleManager
  <2> QED BY <1>1, <1>2, <2>1, <2>2 DEF Typed
<1>5. \A s \in Servers :
        LET x == Start(s, TRUE, 0) IN
        /\ x.key = s /\ x.conn = "dialing" /\ x.refs = 0
        /\ ~x.ended /\ ~x.armed /\ x.fired = {}
      BY DEF Start, Unused
<1>6. Mapped
      BY <1>1, <1>2, <1>5 DEF Mapped
<1>7. ASSUME NEW e \in Entries
      PROVE  Fits(e) /\ entry[e].refs = 0
  <2>1. CASE entry[e] = Unused
        BY <1>2, <2>1 DEF Fits, Sound, Loose, Unused, Unheld, Dialed
  <2>2. CASE e \in 1..starts /\ \E s \in kept : entry[e] = Start(s, TRUE, 0)
    <3>1. PICK s \in Servers : entry[e] = Start(s, TRUE, 0)
          BY <1>1, <2>2
    <3>2. /\ entry[e].key \in Servers /\ entry[e].conn = "dialing" /\ entry[e].refs = 0
          /\ ~entry[e].ended /\ ~entry[e].armed /\ entry[e].fired = {}
          BY <3>1 DEF Start, Unused
    <3>3. ~(e > starts)
          BY <1>1, <2>2
    <3> QED BY <1>2, <3>2, <3>3 DEF Fits, Sound, Loose, Unheld, Dialed
  <2> QED BY <1>1, <2>1, <2>2
<1>8. Counted
  <2>1. \A e \in Entries : Holders(e) = {}
        BY <1>3 DEF Holders
  <2> QED BY <1>7, <2>1, FS_EmptySet DEF Counted
<1>9. Aimed
      BY <1>3 DEF Aimed
<1> QED BY <1>4, <1>6, <1>7, <1>8, <1>9 DEF Pooled, Placed

\* Every step keeps the pool.
LEMMA PooledNext == Pooled /\ [Next]_vars => Pooled' /\ (Spared \/ UNCHANGED vars)
<1> SUFFICES ASSUME Pooled, [Next]_vars PROVE Pooled' /\ (Spared \/ UNCHANGED vars)
    OBVIOUS
<1>1. ASSUME NEW c \in Callers, CallerStep(c) PROVE Keeps
      BY <1>1, CallerKept
<1>2. ASSUME NEW e \in Entries, EntryStep(e) PROVE Keeps
      BY <1>2, EntryKept
<1>3. ASSUME NEW m \in Managers, ManagerStep(m) PROVE Keeps
      BY <1>3, AsksKept, KeepKept, RecheckStopsKept DEF ManagerStep
<1>4. ASSUME Close PROVE Keeps
      BY <1>4, CloseKept
<1>5. CASE UNCHANGED vars
  <2>1. UNCHANGED <<entry, map, kept, stopping, closed, starts, caller, declared, manager,
                    due>>
        BY <1>5 DEF vars, poolVars, confVars
  <2> QED BY <1>5, <2>1 DEF Pooled, Typed, Aimed, Placed, Mapped, Fits, Sound, Loose,
                            Unheld, Dialed, Counted, Holders
<1> QED BY <1>1, <1>2, <1>3, <1>4, <1>5 DEF Next, Keeps

-----------------------------------------------------------------------------
(* Who asks about unwanted servers.                                        *)

Asking == {"check", "unwanted"}

\* Servers wait out their delay with nothing to ask about them.
Idles(e) == Lingers(entry[e]) /\ entry[e].conn = "up" /\ entry[e].key \notin declared

\* A manager is at an entry only while it has a verdict on it.
NoStrayAim == \A m \in Managers : manager[m].pc # "unwanted" => manager[m].e = 0

Asked == UnwantedIsAsked /\ NoStrayAim

\* Nobody stopped asking about any entry but one, and that one is asked about
\* if it has to be.
LEMMA AskedAfter ==
  ASSUME UnwantedIsAsked, NEW e \in Entries,
         \A f \in Entries \ {e} : entry'[f] = entry[f], UNCHANGED declared,
         \A c \in Callers : caller[c].pc \in Asking /\ caller[c].e # e =>
           caller'[c].pc \in Asking /\ caller'[c].e = caller[c].e,
         \A m \in Managers :
           \/ manager'[m].pc \in {"read", "keep", "recheck"}
           \/ /\ manager[m].pc \notin {"read", "keep", "recheck"}
              /\ \A f \in Entries \ {e} :
                   f \in manager[m].todo \/ manager[m].e = f =>
                   f \in manager'[m].todo \/ manager'[m].e = f,
         Idles(e)' => WillBeAsked(e)'
  PROVE  UnwantedIsAsked'
<1> SUFFICES ASSUME NEW f \in Entries, Idles(f)'
             PROVE  WillBeAsked(f)'
    BY DEF UnwantedIsAsked, Idles
<1>1. CASE f = e
      BY <1>1
<1>2. CASE f # e
  <2>1. entry'[f] = entry[f] /\ Idles(f)
        BY <1>2 DEF Idles, Lingers, Unheld, Dialed
  <2>2. WillBeAsked(f)
        BY <2>1 DEF UnwantedIsAsked, Idles
  <2> QED BY <1>2, <2>1, <2>2 DEF WillBeAsked, Asking
<1> QED BY <1>1, <1>2

\* An update of one entry, when nobody else is at work.
LEMMA AskedUpdate ==
  ASSUME UnwantedIsAsked, Typed, NEW e \in Entries, NEW x, entry' = [entry EXCEPT ![e] = x],
         UNCHANGED <<declared, caller, manager>>,
         \/ ~x.armed \/ x.conn # "up"
         \/ x.check # "none"
         \/ entry[e].conn = "up" /\ Lingers(entry[e]) /\ entry[e].key = x.key
            /\ x.check = entry[e].check
         \/ x.key \in declared
  PROVE  UnwantedIsAsked'
<1>1. entry'[e] = x /\ \A f \in Entries \ {e} : entry'[f] = entry[f]
      BY DEF Typed
<1>2. ASSUME Idles(e)' PROVE WillBeAsked(e)'
  <2>1. x.armed /\ x.conn = "up" /\ x.key \notin declared
        BY <1>1, <1>2 DEF Idles, Lingers
  <2>2. CASE x.check # "none"
        BY <1>1, <2>2 DEF WillBeAsked
  <2>3. CASE entry[e].conn = "up" /\ Lingers(entry[e]) /\ entry[e].key = x.key
             /\ x.check = entry[e].check
    <3>1. WillBeAsked(e)
          BY <2>1, <2>3 DEF UnwantedIsAsked
    <3> QED BY <1>1, <2>3, <3>1 DEF WillBeAsked
  <2> QED BY <2>1, <2>2, <2>3
<1> QED BY <1>1, <1>2, AskedAfter

\* An entry that somebody takes, or that ends, has no timer.
LEMMA NoTimer ==
  ASSUME NEW x \in EntryStates
  PROVE  /\ ~CancelIdle(x).armed /\ ~End(x).armed
         /\ (x.armed => Unheld(x)) => ~EndIfUnheld(x).armed
<1>1. ~CancelIdle(x).armed
      BY DEF CancelIdle, EntryStates
<1>2. ~End(x).armed
      BY DEF End, EntryStates
<1>3. (x.armed => Unheld(x)) => ~EndIfUnheld(x).armed
      BY <1>2 DEF EndIfUnheld
<1> QED BY <1>1, <1>2, <1>3

\* The steps of a caller leave no unwanted server unasked for.
LEMMA CallerAsks ==
  ASSUME Pooled, UnwantedIsAsked, NEW c \in Callers, CallerStep(c)
  PROVE  UnwantedIsAsked'
<1> USE DEF Pooled, poolVars, confVars
<1>1. /\ entry \in [Entries -> EntryStates]
      /\ caller \in [Callers -> [pc : {"idle", "wait", "held", "check", "unwanted"},
                                 e : 0..MaxEntries]]
      BY DEF Typed
<1>2. ASSUME NEW s \in Servers, Acquire(c, s), DialNew(c, s) PROVE UnwantedIsAsked'
  <2>1. PICK n \in Entries : n = starts + 1
        BY <1>2, Bounds DEF DialNew, Typed, Entries
  <2>2. PICK x : x = Start(s, s \in kept, 1)
        OBVIOUS
  <2>3. /\ entry' = [entry EXCEPT ![n] = x]
        /\ caller' = [caller EXCEPT ![c] = [pc |-> "wait", e |-> n]]
        /\ UNCHANGED <<declared, manager>> /\ caller[c].pc = "idle"
        BY <1>2, <2>1, <2>2 DEF DialNew, Acquire
  <2>4. ~x.armed
        BY <2>2 DEF Start, Unused
  <2>5. /\ entry'[n] = x /\ \A f \in Entries \ {n} : entry'[f] = entry[f]
        /\ \A d \in Callers \ {c} : caller'[d] = caller[d]
        BY <1>1, <2>3
  <2>6. ~Idles(n)'
        BY <2>4, <2>5 DEF Idles, Lingers
  <2> QED BY <2>3, <2>5, <2>6, AskedAfter DEF Asking
<1>3. ASSUME NEW s \in Servers, Acquire(c, s), Join(c, s) PROVE UnwantedIsAsked'
  <2>1. PICK e \in Entries : e = map[s]
        BY <1>3, Bounds DEF Join, Typed, Entries
  <2>2. PICK y : y = [entry[e] EXCEPT !.refs = @ + 1]
        OBVIOUS
  <2>3. /\ entry' = [entry EXCEPT ![e] = CancelIdle(y)]
        /\ caller' = [caller EXCEPT ![c] = [pc |-> "wait", e |-> e]]
        /\ UNCHANGED <<declared, manager>> /\ caller[c].pc = "idle"
        BY <1>3, <2>1, <2>2 DEF Join, Acquire, Update
  <2>4. entry[e].refs + 1 \in Nat
        BY <1>1 DEF EntryStates
  <2>5. y \in EntryStates
        BY <1>1, <2>2, <2>4 DEF EntryStates
  <2>6. /\ entry'[e] = CancelIdle(y) /\ \A f \in Entries \ {e} : entry'[f] = entry[f]
        /\ \A d \in Callers \ {c} : caller'[d] = caller[d]
        BY <1>1, <2>3
  <2>7. ~Idles(e)'
        BY <2>5, <2>6, NoTimer DEF Idles, Lingers
  <2> QED BY <2>3, <2>6, <2>7, AskedAfter DEF Asking
<1>4. CASE Lease(c) \/ NoLease(c) \/ GiveUp(c)
  <2>1. /\ caller[c].pc = "wait" /\ caller' = [caller EXCEPT ![c].pc = "held"]
        /\ UNCHANGED <<entry, declared, manager>>
        BY <1>4 DEF Lease, NoLease, GiveUp
  <2>2. \A d \in Callers : caller[d].pc \in Asking => caller'[d] = caller[d]
        BY <1>1, <2>1 DEF Asking
  <2>3. ASSUME NEW e \in Entries, WillBeAsked(e) PROVE WillBeAsked(e)'
        BY <2>1, <2>2, <2>3 DEF WillBeAsked, Asking
  <2>4. \A e \in Entries : Idles(e)' => Idles(e)
        BY <2>1 DEF Idles, Lingers, Unheld, Dialed
  <2> QED BY <2>3, <2>4 DEF UnwantedIsAsked, Idles
<1>5. CASE Release(c)
  <2>1. PICK e \in Entries : e = caller[c].e
        BY <1>5, Bounds DEF Release, Aimed, Typed, Entries
  <2>2. PICK x : /\ Update(e, x)
                 /\ caller' = [caller EXCEPT ![c] =
                       IF x.armed /\ x.refs = 0 THEN [pc |-> "check", e |-> e]
                       ELSE IdleCaller]
        BY <1>5, <2>1 DEF Release
  <2>3. /\ UNCHANGED <<declared, manager>> /\ caller[c].pc = "held"
        /\ entry' = [entry EXCEPT ![e] = x]
        BY <1>5, <2>2 DEF Release, Update
  <2>4. /\ entry'[e] = x /\ \A f \in Entries \ {e} : entry'[f] = entry[f]
        /\ \A d \in Callers \ {c} : caller'[d] = caller[d]
        BY <1>1, <2>2, <2>3
  <2>5. ASSUME Idles(e)' PROVE WillBeAsked(e)'
    <3>1. x.armed /\ x.refs = 0
          BY <2>4, <2>5 DEF Idles, Lingers, Unheld
    <3>2. caller'[c].pc = "check" /\ caller'[c].e = e
          BY <1>1, <2>2, <3>1
    <3> QED BY <3>2 DEF WillBeAsked
  <2> QED BY <2>3, <2>4, <2>5, AskedAfter DEF Asking
<1>6. CASE CheckWanted(c)
  <2>1. PICK e \in Entries : e = caller[c].e
        BY <1>6, Bounds DEF CheckWanted, Aimed, Typed, Entries
  <2>2. /\ caller' = [caller EXCEPT ![c] = IF entry[e].key \in declared THEN IdleCaller
                                           ELSE [caller[c] EXCEPT !.pc = "unwanted"]]
        /\ UNCHANGED <<entry, declared, manager>>
        BY <1>1, <1>6, <2>1 DEF CheckWanted
  <2>3. \A d \in Callers \ {c} : caller'[d] = caller[d]
        BY <1>1, <2>2
  <2>4. ASSUME Idles(e)' PROVE WillBeAsked(e)'
    <3>1. entry[e].key \notin declared
          BY <2>2, <2>4 DEF Idles
    <3>2. caller'[c].pc = "unwanted" /\ caller'[c].e = e
          BY <1>1, <2>1, <2>2, <3>1
    <3> QED BY <3>2 DEF WillBeAsked
  <2> QED BY <2>1, <2>2, <2>3, <2>4, AskedAfter DEF Asking
<1>7. CASE StopUnwanted(c)
  <2>1. PICK e \in Entries : e = caller[c].e
        BY <1>7, Bounds DEF StopUnwanted, Aimed, Typed, Entries
  <2>2. /\ entry' = [entry EXCEPT ![e] = EndIfUnheld(entry[e])]
        /\ caller' = [caller EXCEPT ![c] = IdleCaller]
        /\ UNCHANGED <<declared, manager>>
        BY <1>7, <2>1 DEF StopUnwanted, Update
  <2>3. /\ entry'[e] = EndIfUnheld(entry[e])
        /\ \A f \in Entries \ {e} : entry'[f] = entry[f]
        /\ \A d \in Callers \ {c} : caller'[d] = caller[d]
        BY <1>1, <2>2
  <2>4. entry[e].armed => Unheld(entry[e])
        BY DEF Placed, Fits, Sound
  <2>5. ~Idles(e)'
        BY <1>1, <2>3, <2>4, NoTimer DEF Idles, Lingers
  <2> QED BY <2>1, <2>2, <2>3, <2>5, AskedAfter DEF Asking
<1> QED BY <1>2, <1>3, <1>4, <1>5, <1>6, <1>7 DEF CallerStep, Acquire

\* Nor do the steps of an entry.
LEMMA EntryAsks ==
  ASSUME Pooled, UnwantedIsAsked, NEW e \in Entries, EntryStep(e)
  PROVE  UnwantedIsAsked'
<1> USE DEF Pooled, poolVars, confVars
<1>1. /\ entry \in [Entries -> EntryStates] /\ entry[e] \in EntryStates /\ Sound(entry[e])
      BY DEF Typed, Placed, Fits
<1>2. CASE DropExpired(e)
  <2>1. UNCHANGED <<entry, caller, declared, manager>>
        BY <1>2 DEF DropExpired
  <2> QED BY <2>1 DEF UnwantedIsAsked, WillBeAsked, Lingers, Unheld, Dialed
<1>3. CASE DialFails(e)
  <2>1. PICK x : x = [entry[e] EXCEPT !.conn = "failed", !.ended = TRUE]
        OBVIOUS
  <2>2. entry' = [entry EXCEPT ![e] = x] /\ UNCHANGED <<declared, caller, manager>>
        BY <1>3, <2>1 DEF DialFails, Update
  <2>3. x.conn # "up"
        BY <1>1, <2>1 DEF EntryStates
  <2> QED BY <2>2, <2>3, AskedUpdate
<1>4. CASE DialInstalls(e)
  <2>1. PICK x \in IdleLocked(Answered(entry[e])) : Update(e, Asks(x))
        BY <1>4 DEF DialInstalls
  <2>2. entry' = [entry EXCEPT ![e] = Asks(x)] /\ UNCHANGED <<declared, caller, manager>>
        /\ entry[e].conn = "dialing"
        BY <1>4, <2>1 DEF DialInstalls, Update
  <2>3. PICK y \in EntryStates : y = Answered(entry[e])
        BY <1>1 DEF Answered, EntryStates
  <2>4. ~y.armed /\ Loose(y)
        BY <1>1, <2>2, <2>3 DEF Answered, Sound, Loose, EntryStates, Dialed
  <2>5. x \in EntryStates
        BY <2>1, <2>3, <2>4, IdleSound
  <2>6. Asks(x).armed = x.armed /\ (x.armed => Asks(x).check = "check")
        BY <2>5 DEF Asks, EntryStates
  <2>7. PICK z : z = Asks(x)
        OBVIOUS
  <2>8. ~z.armed \/ z.check # "none"
        BY <2>5, <2>6, <2>7 DEF EntryStates
  <2> QED BY <2>2, <2>7, <2>8, AskedUpdate
<1>5. CASE DialChecks(e)
  <2>1. PICK x : x = [entry[e] EXCEPT !.check = IF entry[e].key \in declared THEN "none"
                                                ELSE "unwanted"]
        OBVIOUS
  <2>2. entry' = [entry EXCEPT ![e] = x] /\ UNCHANGED <<declared, caller, manager>>
        BY <1>1, <1>5, <2>1 DEF DialChecks
  <2>3. x.key = entry[e].key /\ (entry[e].key \in declared \/ x.check = "unwanted")
        BY <1>1, <2>1 DEF EntryStates
  <2> QED BY <2>2, <2>3, AskedUpdate
<1>6. CASE DialStops(e)
  <2>1. PICK y \in EntryStates : y = [entry[e] EXCEPT !.check = "none"]
        BY <1>1 DEF EntryStates
  <2>2. PICK x : x = EndIfUnheld(y)
        OBVIOUS
  <2>3. entry' = [entry EXCEPT ![e] = x] /\ UNCHANGED <<declared, caller, manager>>
        BY <1>6, <2>1, <2>2 DEF DialStops, Update
  <2>4. y.armed => Unheld(y)
        BY <1>1, <2>1 DEF Sound, Unheld, EntryStates
  <2>5. ~x.armed
        BY <2>2, <2>4, NoTimer
  <2> QED BY <2>3, <2>5, AskedUpdate
<1>7. CASE TimerFires(e)
  <2>1. PICK x : x = [entry[e] EXCEPT !.fired = @ \cup {entry[e].gen}]
        OBVIOUS
  <2>2. entry' = [entry EXCEPT ![e] = x] /\ UNCHANGED <<declared, caller, manager>>
        BY <1>1, <1>7, <2>1 DEF TimerFires
  <2>3. /\ x.conn = entry[e].conn /\ x.key = entry[e].key /\ x.check = entry[e].check
        /\ x.armed = entry[e].armed
        BY <1>1, <2>1 DEF EntryStates
  <2>4. entry[e].armed => Lingers(entry[e])
        BY <1>1 DEF Sound, Lingers
  <2> QED BY <2>2, <2>3, <2>4, AskedUpdate
<1>8. ASSUME NEW g \in entry[e].fired, Expire(e, g) PROVE UnwantedIsAsked'
  <2>1. PICK y \in EntryStates : y = [entry[e] EXCEPT !.fired = @ \ {g}]
        BY <1>1 DEF EntryStates
  <2>2. PICK x : /\ x = IF y.gen # g \/ ~y.armed THEN y
                        ELSE EndIfUnheld([y EXCEPT !.armed = FALSE])
                 /\ entry' = [entry EXCEPT ![e] = x]
                 /\ UNCHANGED <<declared, caller, manager>>
        BY <1>8, <2>1 DEF Expire, Update
  <2>3. /\ y.conn = entry[e].conn /\ y.key = entry[e].key /\ y.check = entry[e].check
        /\ y.armed = entry[e].armed
        BY <1>1, <2>1 DEF EntryStates
  <2>4. entry[e].armed => Lingers(entry[e])
        BY <1>1 DEF Sound, Lingers
  <2>5. PICK z : z = [y EXCEPT !.armed = FALSE]
        OBVIOUS
  <2>6. z \in EntryStates /\ ~z.armed
        BY <2>1, <2>5 DEF EntryStates
  <2>7. ~EndIfUnheld(z).armed
        BY <2>6, NoTimer
  <2>8. x = y \/ ~x.armed
        BY <2>2, <2>5, <2>7
  <2> QED BY <2>2, <2>3, <2>4, <2>8, AskedUpdate
<1>9. CASE GoesAway(e) \/ CloseConn(e)
  <2>1. PICK conn \in {"gone", "stopped"} :
          entry' = [entry EXCEPT ![e].conn = conn] /\ UNCHANGED <<declared, caller, manager>>
        BY <1>9 DEF GoesAway, CloseConn
  <2>2. PICK x : x = [entry[e] EXCEPT !.conn = conn]
        OBVIOUS
  <2>3. entry' = [entry EXCEPT ![e] = x]
        BY <1>1, <2>1, <2>2
  <2>4. x.conn # "up"
        BY <1>1, <2>1, <2>2 DEF EntryStates
  <2> QED BY <2>1, <2>3, <2>4, AskedUpdate
<1>10. CASE Watch(e)
  <2>1. entry' = [entry EXCEPT ![e] = End(entry[e])] /\ UNCHANGED <<declared, caller, manager>>
        BY <1>10 DEF Watch, Update
  <2>2. ~End(entry[e]).armed
        BY <1>1, NoTimer
  <2> QED BY <2>1, <2>2, AskedUpdate
<1> QED BY <1>2, <1>3, <1>4, <1>5, <1>6, <1>7, <1>8, <1>9, <1>10 DEF EntryStep

\* Nor do those of a manager: it asks about all that lingers.
LEMMA ManagerAsks ==
  ASSUME Pooled, Asked, NEW m \in Managers, ManagerStep(m)
  PROVE  UnwantedIsAsked'
<1> USE DEF Pooled, poolVars, confVars, Asked
<1>1. /\ entry \in [Entries -> EntryStates]
      /\ manager \in [Managers -> ManagerStates] /\ manager[m] \in ManagerStates
      BY DEF Typed, ManagerStates
<1>2. CASE \/ \E s \in Servers : Change(m, s)
           \/ ReadDeclared(m) \/ Keep(m)
  <2>1. ASSUME NEW s \in Servers, Change(m, s)
        PROVE  manager'[m].pc \in {"read", "keep", "recheck"}
    <3>1. manager' = [manager EXCEPT ![m].pc = IF keeping THEN "read" ELSE "recheck"]
          BY <2>1 DEF Change
    <3> QED BY <1>1, <3>1 DEF ManagerStates
  <2>2. ASSUME ReadDeclared(m) PROVE manager'[m].pc \in {"read", "keep", "recheck"}
    <3>1. manager' = [manager EXCEPT ![m].pc = "keep", ![m].want = declared]
          BY <2>2 DEF ReadDeclared
    <3> QED BY <1>1, <3>1 DEF ManagerStates
  <2>3. ASSUME Keep(m) PROVE manager'[m].pc \in {"read", "keep", "recheck"}
    <3>1. manager' = [manager EXCEPT ![m].pc = "recheck", ![m].want = {}]
          BY <2>3, Zenon DEF Keep
    <3> QED BY <1>1, <3>1 DEF ManagerStates
  <2>4. manager'[m].pc \in {"read", "keep", "recheck"}
        BY <1>2, <2>1, <2>2, <2>3
  <2> QED BY <2>4 DEF UnwantedIsAsked, WillBeAsked
<1>3. CASE Recheck(m)
  <2>1. PICK todo : todo = {e \in Entries : Lingers(entry[e]) /\ map[entry[e].key] = e}
        OBVIOUS
  <2>2. manager' = [manager EXCEPT ![m] = NextCheck(todo)]
        /\ UNCHANGED <<entry, map, declared>>
        BY <1>3, <2>1 DEF Recheck
  <2>3. manager'[m].todo = todo
        BY <1>1, <2>2 DEF NextCheck
  <2>4. ASSUME NEW e \in Entries, Idles(e)' PROVE e \in todo
    <3>1. Lingers(entry[e]) /\ entry[e].conn = "up"
          BY <2>2, <2>4 DEF Idles, Lingers, Unheld, Dialed
    <3>2. map[entry[e].key] = e
          BY <3>1 DEF Lingers, Unheld, Placed, Fits
    <3> QED BY <2>1, <3>1, <3>2
  <2> QED BY <2>3, <2>4 DEF UnwantedIsAsked, WillBeAsked, Idles
<1>4. ASSUME NEW e \in manager[m].todo, RecheckOne(m, e) PROVE UnwantedIsAsked'
  <2>0. e \in Entries
        BY <1>1 DEF ManagerStates
  <2>1. /\ manager[m].pc = "checks" /\ manager[m].e = 0
        /\ UNCHANGED <<entry, caller, declared>>
        BY <1>4 DEF RecheckOne, NoStrayAim
  <2>2. PICK r : /\ manager' = [manager EXCEPT ![m] = r]
                 /\ r.todo = manager[m].todo \ {e}
                 /\ entry[e].key \notin declared => r.e = e
    <3>1. CASE entry[e].key \in declared
      <4>1. PICK r : r = NextCheck(manager[m].todo \ {e})
            OBVIOUS
      <4>2. r.todo = manager[m].todo \ {e}
            BY <4>1 DEF NextCheck
      <4> QED BY <1>4, <3>1, <4>1, <4>2 DEF RecheckOne
    <3>2. CASE entry[e].key \notin declared
      <4>1. PICK r : r = [manager[m] EXCEPT !.pc = "unwanted", !.todo = @ \ {e}, !.e = e]
            OBVIOUS
      <4>2. r.todo = manager[m].todo \ {e} /\ r.e = e
            BY <1>1, <4>1 DEF ManagerStates
      <4> QED BY <1>4, <3>2, <4>1, <4>2 DEF RecheckOne
    <3> QED BY <3>1, <3>2
  <2>3. manager'[m] = r /\ \A n \in Managers \ {m} : manager'[n] = manager[n]
        BY <1>1, <2>2
  <2>4. ASSUME NEW n \in Managers
        PROVE  \/ manager'[n].pc \in {"read", "keep", "recheck"}
               \/ /\ manager[n].pc \notin {"read", "keep", "recheck"}
                  /\ \A f \in Entries \ {e} :
                       f \in manager[n].todo \/ manager[n].e = f =>
                       f \in manager'[n].todo \/ manager'[n].e = f
    <3>1. CASE n = m
      <4>1. 0 \notin Entries
            BY Bounds
      <4> QED BY <2>1, <2>2, <2>3, <3>1, <4>1
    <3>2. CASE n # m
          BY <2>3, <3>2
    <3> QED BY <3>1, <3>2
  <2>5. Idles(e)' => WillBeAsked(e)'
        BY <2>1, <2>2, <2>3 DEF Idles, WillBeAsked
  <2> QED BY <2>0, <2>1, <2>4, <2>5, AskedAfter DEF Asking
<1>5. CASE RecheckStops(m)
  <2>1. PICK e \in Entries : e = manager[m].e
        BY <1>5 DEF RecheckStops, Aimed
  <2>2. PICK r : r = NextCheck(manager[m].todo)
        OBVIOUS
  <2>3. /\ entry' = [entry EXCEPT ![e] = EndIfUnheld(entry[e])]
        /\ manager' = [manager EXCEPT ![m] = r]
        /\ manager[m].pc = "unwanted" /\ UNCHANGED <<caller, declared>>
        BY <1>5, <2>1, <2>2 DEF RecheckStops, Update
  <2>4. /\ manager'[m] = r /\ \A n \in Managers \ {m} : manager'[n] = manager[n]
        /\ r.todo = manager[m].todo
        BY <1>1, <2>2, <2>3 DEF NextCheck
  <2>5. /\ entry'[e] = EndIfUnheld(entry[e])
        /\ \A f \in Entries \ {e} : entry'[f] = entry[f]
        BY <1>1, <2>3
  <2>6. entry[e].armed => Unheld(entry[e])
        BY DEF Placed, Fits, Sound
  <2>7. ~Idles(e)'
        BY <1>1, <2>5, <2>6, NoTimer DEF Idles, Lingers
  <2>8. ASSUME NEW n \in Managers
        PROVE  \/ manager'[n].pc \in {"read", "keep", "recheck"}
               \/ /\ manager[n].pc \notin {"read", "keep", "recheck"}
                  /\ \A f \in Entries \ {e} :
                       f \in manager[n].todo \/ manager[n].e = f =>
                       f \in manager'[n].todo \/ manager'[n].e = f
    <3>1. CASE n = m
          BY <2>1, <2>3, <2>4, <3>1
    <3>2. CASE n # m
          BY <2>4, <3>2
    <3> QED BY <3>1, <3>2
  <2> QED BY <2>3, <2>5, <2>7, <2>8, AskedAfter DEF Asking
<1> QED BY <1>2, <1>3, <1>4, <1>5 DEF ManagerStep

\* No server lingers after Close.
LEMMA CloseAsks == Pooled /\ Close => UnwantedIsAsked'
<1> SUFFICES ASSUME Pooled, Close, NEW e \in Entries PROVE ~Idles(e)'
    BY DEF UnwantedIsAsked, Idles
<1>1. entry[e] \in EntryStates /\ Fits(e) /\ Sound(entry[e])
      BY DEF Pooled, Typed, Placed, Fits
<1>2. PICK off : off = {map[s] : s \in Servers}
      OBVIOUS
<1>3. PICK ends : ends = off \cap {f \in Entries : entry[f].conn \in Dialed /\ ~entry[f].ended}
      OBVIOUS
<1>4. entry' = [f \in Entries |->
                 CASE f \in ends -> End(entry[f])
                   [] f \in off \ ends -> CancelIdle(entry[f])
                   [] f \notin off -> entry[f]]
      BY <1>2, <1>3 DEF Close
<1>5. CASE e \in ends
      BY <1>1, <1>3, <1>4, <1>5, NoTimer DEF Idles, Lingers
<1>6. CASE e \in off \ ends
      BY <1>1, <1>3, <1>4, <1>6, NoTimer DEF Idles, Lingers
<1>7. CASE e \notin off
  <2>1. entry'[e] = entry[e]
        BY <1>3, <1>4, <1>7
  <2>2. ASSUME entry[e].conn = "up", ~entry[e].ended PROVE FALSE
        BY <1>1, <1>2, <1>7, <2>2 DEF Fits, Sound, Loose
  <2> QED BY <2>1, <2>2 DEF Idles, Lingers, Unheld
<1> QED BY <1>5, <1>6, <1>7

\* A manager that has no verdict is at no entry.
LEMMA NoStrayAimNext == Pooled /\ NoStrayAim /\ [Next]_vars => NoStrayAim'
<1> SUFFICES ASSUME Pooled, NoStrayAim, [Next]_vars PROVE NoStrayAim'
    OBVIOUS
<1>1. manager \in [Managers -> ManagerStates]
      BY DEF Pooled, Typed, ManagerStates
<1>2. CASE UNCHANGED manager
      BY <1>2 DEF NoStrayAim
<1>3. ASSUME NEW m \in Managers, NEW r, manager' = [manager EXCEPT ![m] = r],
             r.pc # "unwanted" => r.e = 0
      PROVE  NoStrayAim'
      BY <1>1, <1>3 DEF NoStrayAim
<1>4. ASSUME NEW m \in Managers, ManagerStep(m) PROVE NoStrayAim'
  <2>1. ASSUME NEW s \in Servers, Change(m, s) PROVE NoStrayAim'
    <3>1. manager'[m].e = manager[m].e /\ manager[m].pc = "idle"
          /\ \A n \in Managers \ {m} : manager'[n] = manager[n]
          BY <1>1, <2>1 DEF Change, ManagerStates
    <3> QED BY <3>1 DEF NoStrayAim
  <2>2. CASE ReadDeclared(m) \/ Keep(m)
    <3>1. PICK pc, want :
            manager' = [manager EXCEPT ![m].pc = pc, ![m].want = want]
          BY <2>2 DEF ReadDeclared, Keep
    <3>2. manager[m].pc # "unwanted"
          BY <2>2 DEF ReadDeclared, Keep
    <3>3. manager'[m].e = manager[m].e
          /\ \A n \in Managers \ {m} : manager'[n] = manager[n]
          BY <1>1, <3>1 DEF ManagerStates
    <3> QED BY <3>2, <3>3 DEF NoStrayAim
  <2>3. CASE Recheck(m) \/ RecheckStops(m)
    <3>1. PICK todo : manager' = [manager EXCEPT ![m] = NextCheck(todo)]
          BY <2>3 DEF Recheck, RecheckStops
    <3>2. PICK r : r = NextCheck(todo)
          OBVIOUS
    <3>3. r.e = 0
          BY <3>2 DEF NextCheck
    <3> QED BY <1>3, <3>1, <3>2, <3>3
  <2>4. ASSUME NEW e \in manager[m].todo, RecheckOne(m, e) PROVE NoStrayAim'
    <3>1. CASE entry[e].key \in declared
      <4>1. PICK r : r = NextCheck(manager[m].todo \ {e})
            OBVIOUS
      <4>2. r.e = 0
            BY <4>1 DEF NextCheck
      <4> QED BY <1>3, <2>4, <3>1, <4>1, <4>2 DEF RecheckOne
    <3>2. CASE entry[e].key \notin declared
      <4>1. PICK r : r = [manager[m] EXCEPT !.pc = "unwanted", !.todo = @ \ {e}, !.e = e]
            OBVIOUS
      <4>2. r.pc = "unwanted"
            BY <1>1, <4>1 DEF ManagerStates
      <4> QED BY <1>3, <2>4, <3>2, <4>1, <4>2 DEF RecheckOne
    <3> QED BY <3>1, <3>2
  <2> QED BY <1>4, <2>1, <2>2, <2>3, <2>4 DEF ManagerStep
<1>5. ASSUME NEW c \in Callers, CallerStep(c) PROVE UNCHANGED manager
      BY <1>5 DEF CallerStep, Acquire, Lease, NoLease, GiveUp, Release, CheckWanted,
                  StopUnwanted, confVars
<1>6. ASSUME NEW e \in Entries, EntryStep(e) PROVE UNCHANGED manager
      BY <1>6 DEF EntryStep, DropExpired, DialFails, DialInstalls, DialChecks, DialStops,
                  TimerFires, Expire, GoesAway, Watch, CloseConn, confVars
<1>7. ASSUME Close PROVE UNCHANGED manager
      BY <1>7 DEF Close, confVars
<1>8. ASSUME UNCHANGED vars PROVE UNCHANGED manager
      BY <1>8 DEF vars, confVars
<1> QED BY <1>2, <1>4, <1>5, <1>6, <1>7, <1>8 DEF Next

-----------------------------------------------------------------------------
(* What the pool promises.                                                 *)

\* The inductive invariant.
Kept == Pooled /\ Asked

\* Nothing runs yet that somebody should ask about.
LEMMA AskedInit == Init => Asked
<1> SUFFICES ASSUME Init PROVE Asked
    OBVIOUS
<1>1. \A e \in Entries :
        entry[e] = Unused \/ \E s \in kept : entry[e] = Start(s, TRUE, 0)
      BY FirstEntries
<1>2. ASSUME NEW e \in Entries PROVE entry[e].conn # "up"
  <2>1. CASE entry[e] = Unused
        BY <2>1 DEF Unused
  <2>2. CASE \E s \in kept : entry[e] = Start(s, TRUE, 0)
    <3>1. PICK s : entry[e] = Start(s, TRUE, 0)
          BY <2>2
    <3> QED BY <3>1 DEF Start, Unused
  <2> QED BY <1>1, <2>1, <2>2
<1>3. NoStrayAim
      BY DEF Init, NoStrayAim, IdleManager
<1> QED BY <1>2, <1>3 DEF Asked, UnwantedIsAsked

\* Every step keeps the invariant.
LEMMA KeptNext == Kept /\ [Next]_vars => Kept'
<1> SUFFICES ASSUME Kept, [Next]_vars PROVE Kept'
    OBVIOUS
<1> USE DEF Kept
<1>1. Pooled'
      BY PooledNext
<1>2. NoStrayAim'
      BY NoStrayAimNext DEF Asked
<1>3. UnwantedIsAsked'
  <2>1. ASSUME NEW c \in Callers, CallerStep(c) PROVE UnwantedIsAsked'
        BY <2>1, CallerAsks DEF Asked
  <2>2. ASSUME NEW e \in Entries, EntryStep(e) PROVE UnwantedIsAsked'
        BY <2>2, EntryAsks DEF Asked
  <2>3. ASSUME NEW m \in Managers, ManagerStep(m) PROVE UnwantedIsAsked'
        BY <2>3, ManagerAsks
  <2>4. CASE Close
        BY <2>4, CloseAsks
  <2>5. CASE UNCHANGED vars
    <3>1. UNCHANGED <<entry, caller, declared, manager>>
          BY <2>5 DEF vars, poolVars, confVars
    <3> QED BY <3>1 DEF Asked, UnwantedIsAsked, WillBeAsked, Lingers, Unheld, Dialed
  <2> QED BY <2>1, <2>2, <2>3, <2>4, <2>5 DEF Next
<1> QED BY <1>1, <1>2, <1>3 DEF Asked

\* The invariant holds in every state the pool can reach.
THEOREM PoolKept == Spec => []Kept
<1>1. Init => Kept
      BY PooledInit, AskedInit DEF Kept
<1> QED BY <1>1, KeptNext, PTL DEF Spec

\* Every variable has its type, and the references of an entry are as many as
\* the callers that wait for it or hold a lease on it: none is given back twice
\* or forgotten, whatever fails in between.
THEOREM TypeCorrect == Spec => []TypeOK
<1>1. Kept => TypeOK
      BY DEF Kept, Pooled, Typed, Counted, Holders, TypeOK
<1> QED BY <1>1, PoolKept, PTL

\* A server that runs is on the map under its key or is being stopped: no key
\* has two usable servers, and none runs on with nobody to stop it.
THEOREM NothingRunsUnseen == Spec => []NoServerIsLost
<1>1. Kept => NoServerIsLost
      BY DEF Kept, Pooled, Placed, Fits, NoServerIsLost
<1> QED BY <1>1, PoolKept, PTL

\* A server that nothing holds and nothing keeps has its stop timer running.
THEOREM NothingLingersUntimed == Spec => []IdleIsTimed
<1>1. Kept => IdleIsTimed
      BY DEF Kept, Pooled, Placed, Fits, Sound, IdleIsTimed
<1> QED BY <1>1, PoolKept, PTL

\* A server that lingers after its declaration is gone is about to be asked
\* about, by whoever let it go or by whoever changed the declaration.
THEOREM UnwantedGoesEarly == Spec => []UnwantedIsAsked
<1>1. Kept => UnwantedIsAsked
      BY DEF Kept, Asked
<1> QED BY <1>1, PoolKept, PTL

\* Only the death of the server or Close ends a server that somebody holds or
\* that the pool keeps: no late timer and no old verdict does.
THEOREM LeasesAreRespected == Spec => HeldIsSpared
<1> DEFINE A == \A e \in Entries :
             ~entry[e].ended /\ entry'[e].ended /\ entry[e].conn = "up"
             => closed' \/ (entry'[e].refs = 0 /\ ~entry'[e].kept)
<1>1. Kept /\ [Next]_vars => [A]_vars
      BY PooledNext DEF Kept, Spared
<1>2. Spec => [][A]_vars
      BY <1>1, PoolKept, PTL DEF Spec
<1> QED BY <1>2 DEF HeldIsSpared

\* A timer ends only a server that went unheld for the whole delay: one that was
\* taken in between, and let go again, has a timer of its own.
THEOREM DelayIsWhole == Spec => DelayIsKept
<1> DEFINE A == \A e \in Entries :
             ~entry[e].ended /\ entry'[e].ended /\ e \notin due
             => \A g \in entry[e].fired : ~Expire(e, g)
<1>1. Kept => A
  <2> SUFFICES ASSUME Kept, NEW e \in Entries, ~entry[e].ended, entry'[e].ended,
                      NEW g \in entry[e].fired, Expire(e, g)
               PROVE  e \in due
      OBVIOUS
  <2>1. entry \in [Entries -> EntryStates] /\ entry[e] \in EntryStates /\ Fits(e)
        BY DEF Kept, Pooled, Typed, Placed
  <2>2. PICK x : x = [entry[e] EXCEPT !.fired = @ \ {g}]
        OBVIOUS
  <2>3. x.ended = entry[e].ended /\ x.gen = entry[e].gen /\ x.armed = entry[e].armed
        BY <2>1, <2>2 DEF EntryStates
  <2>4. entry'[e] = IF x.gen # g \/ ~x.armed THEN x
                    ELSE EndIfUnheld([x EXCEPT !.armed = FALSE])
        BY <2>1, <2>2 DEF Expire, Update
  <2>5. x.gen = g /\ x.armed
        BY <2>3, <2>4
  <2> QED BY <2>1, <2>3, <2>5 DEF Fits
<1>2. Spec => [][A]_vars
      BY <1>1, PoolKept, PTL DEF Spec
<1> QED BY <1>2 DEF DelayIsKept
=============================================================================
