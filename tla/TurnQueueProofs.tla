--------------------------- MODULE TurnQueueProofs --------------------------
(***************************************************************************)
(* What the message queue of a session keeps, for any number of messages,  *)
(* turns and runs and any limit, with proofs that TLAPS checks.            *)
(*                                                                         *)
(* The argument: a message is a row of one of three sequences, and a step  *)
(* only moves rows between them, so that sets of rows say everything but   *)
(* the order.  Which of the three may hold rows follows the turn's         *)
(* goroutine: a batch is reserved only while a run can be cut, a           *)
(* boundary's rows are owned only until they are read, and what a close    *)
(* must spare exists only once the turn has stopped or failed.             *)
(***************************************************************************)
EXTENDS TurnQueue, SequenceTheorems, FiniteSetTheorems, TLAPS

-----------------------------------------------------------------------------
(* The inductive invariant.                                                *)

Once(s) == \A j, k \in DOMAIN s : s[j] = s[k] => j = k
Apart(s, t) == Rows(s) \cap Rows(t) = {}

\* The three places hold each accepted message without a fate once, and a number
\* that was not given out is nowhere.
Placed ==
  /\ Once(queue) /\ Once(pending) /\ Once(taken)
  /\ Apart(queue, pending) /\ Apart(queue, taken) /\ Apart(pending, taken)
  /\ \A m \in Ids : fate[m] = "held"
                      <=> m \in Rows(queue) \cup Rows(pending) \cup Rows(taken)
  /\ \A m \in Ids : m > sent => fate[m] = "unsent"

\* A run can be cut while it runs and until its end is looked at, and every run
\* but a stopped first one can be.
Cuttable ==
  /\ armed => pc \in {"run", "ran"} /\ ~first
  /\ installed /\ pc = "run" /\ ~first => armed
  /\ installed => pc \in {"dispatch", "run", "ran", "return"}
  /\ pc = "idle" => ~open

\* A batch exists only inside of an interruptible run, alone, and from its
\* restart on the run that it cut has an unread batch for its prompt; a run that
\* leaves one behind did not end well.
Reserving == pending # <<>> =>
  /\ installed /\ taken = <<>> /\ ~first
  /\ (pc = "dispatch" \/ ~interrupted) => input.kind = "batch" /\ ~input.read
  /\ pc = "ran" /\ ~interrupted => outcome # "end"
  /\ pc = "return" => outcome # "end"

\* The boundary's rows are owned until its run reads them.
Owning == taken # <<>> =>
  /\ pc \in {"admitted", "dispatch", "run", "ran", "return", "after"}
  /\ input.kind = "boundary" /\ ~input.read

\* What a close must spare is back from a batch, of a turn that is ending.
Retaining ==
  /\ retained # {} =>
       /\ taken = <<>>
       /\ pc \in {"after", "boundary", "finish", "idle"}
       /\ pc \in {"after", "boundary"} => outcome # "end"
  /\ Rows(pending) \cup retained \subseteq reserved
  /\ \A m \in reserved :
       /\ fate[m] # "unsent"
       /\ fate[m] = "held" => m \in Rows(pending) \cup retained

Sound == /\ TypeOK /\ Placed /\ Cuttable /\ Reserving
         /\ Owning /\ Retaining /\ IdleQueueIsKept

-----------------------------------------------------------------------------
(* Sequences of rows, as sets.  The facts about Pick need an induction     *)
(* over the length: the library's well-founded order of finite sets gives  *)
(* the least number at which a fact would fail.                            *)

\* What holds of 0 and of the successor of each number below n holds up to n.
LEMMA Climb ==
  ASSUME NEW n \in Nat, NEW G, 0 \in G,
         \A i \in 0..(n - 1) : i \in G => i + 1 \in G
  PROVE  \A i \in 0..n : i \in G
<1> DEFINE B == {i \in 0..n : i \notin G}
           To(i) == {j \in B : j <= i}
           U == {To(i) : i \in B}
<1> SUFFICES ASSUME B # {} PROVE FALSE
    OBVIOUS
<1>0. IsFiniteSet(B) /\ B \subseteq Nat
  <2>1. IsFiniteSet(0..n)
        BY FS_Interval
  <2> QED BY <2>1, FS_Subset
<1>1. IsWellFoundedOn(StrictSubsetOrdering(B), FiniteSubsetsOf(B))
      BY FS_StrictSubsetOrderingWellFounded
<1>2. U \subseteq FiniteSubsetsOf(B) /\ U # {}
  <2>1. \A i \in B : To(i) \in SUBSET B
        OBVIOUS
  <2> HIDE DEF To, B
  <2>2. \A i \in B : IsFiniteSet(To(i))
        BY <1>0, <2>1, FS_Subset
  <2> QED BY <2>1, <2>2 DEF FiniteSubsetsOf
<1>3. PICK u \in U : \A v \in U : <<v, u>> \notin StrictSubsetOrdering(B)
  <2> HIDE DEF U
  <2> QED BY <1>1, <1>2, WFMin
<1>4. PICK m \in B : u = To(m)
      OBVIOUS
<1>5. \A i \in B : ~(i < m)
  <2> SUFFICES ASSUME NEW i \in B, i < m PROVE FALSE
      OBVIOUS
  <2>1. i \in Nat /\ m \in Nat
        BY <1>0
  <2>2. To(i) \subseteq To(m)
        BY <1>0, <2>1
  <2>3. m \in To(m) /\ m \notin To(i)
        BY <2>1
  <2>4. To(i) \in SUBSET B /\ To(m) \in SUBSET B /\ To(i) \in U
        OBVIOUS
  <2> HIDE DEF To, U, B
  <2>5. <<To(i), To(m)>> \in StrictSubsetOrdering(B)
        BY <2>2, <2>3, <2>4 DEF StrictSubsetOrdering
  <2> QED BY <1>3, <1>4, <2>4, <2>5
<1>6. m \in 0..n /\ m \notin G /\ m # 0
      OBVIOUS
<1>7. m - 1 \in 0..(n - 1) /\ m - 1 \in 0..n /\ m - 1 < m
      BY <1>6
<1>8. m - 1 \in G
      BY <1>5, <1>7
<1>9. (m - 1) + 1 = m
      BY <1>6
<1> QED BY <1>6, <1>7, <1>8, <1>9

\* f lists what Pick keeps of each prefix of s, up to length n.
Prefixes(s, keep, n, f) ==
  f = [k \in 0..n |-> IF k = 0 THEN <<>>
                      ELSE IF s[k] \in keep THEN Append(f[k - 1], s[k])
                      ELSE f[k - 1]]

\* The recursion of Pick has a solution.
LEMMA PrefixesExist ==
  ASSUME NEW S, NEW s \in Seq(S), NEW keep
  PROVE  \E f : Prefixes(s, keep, Len(s), f)
<1> DEFINE G == {n \in 0..Len(s) : \E f : Prefixes(s, keep, n, f)}
<1>1. 0 \in G
  <2>1. Prefixes(s, keep, 0, [k \in 0..0 |-> <<>>])
        BY DEF Prefixes
  <2> QED BY <2>1
<1>2. ASSUME NEW n \in 0..(Len(s) - 1), n \in G PROVE n + 1 \in G
  <2>1. PICK f : Prefixes(s, keep, n, f)
        BY <1>2
  <2> DEFINE last == IF s[n + 1] \in keep THEN Append(f[n], s[n + 1]) ELSE f[n]
             g == [k \in 0..(n + 1) |-> IF k = n + 1 THEN last ELSE f[k]]
             step(h, k) == IF k = 0 THEN <<>>
                           ELSE IF s[k] \in keep THEN Append(h[k - 1], s[k])
                           ELSE h[k - 1]
  <2>2. \A k \in 0..n : f[k] = step(f, k)
        BY <2>1 DEF Prefixes
  <2>3. ASSUME NEW k \in 0..(n + 1) PROVE g[k] = step(g, k)
    <3>1. CASE k = 0
          BY <2>2, <3>1
    <3>2. CASE k \in 1..n
      <4>1. k - 1 \in 0..n /\ k \in 0..n /\ k # n + 1 /\ k - 1 # n + 1 /\ k # 0
            BY <3>2
      <4>2. g[k] = f[k] /\ g[k - 1] = f[k - 1]
            BY <4>1
      <4> QED BY <2>2, <4>1, <4>2
    <3>3. CASE k = n + 1
      <4>1. g[k] = last /\ k # 0 /\ k - 1 = n /\ n # n + 1 /\ n \in 0..(n + 1)
            BY <3>3
      <4>2. g[k - 1] = f[n]
            BY <4>1
      <4> QED BY <3>3, <4>1, <4>2
    <3> QED BY <3>1, <3>2, <3>3
  <2>4. Prefixes(s, keep, n + 1, g)
    <3>1. g = [k \in 0..(n + 1) |-> step(g, k)]
          BY <2>3
    <3> QED BY <3>1 DEF Prefixes
  <2>5. n + 1 \in 0..Len(s)
        OBVIOUS
  <2> QED BY <2>4, <2>5
<1>3. Len(s) \in Nat
      OBVIOUS
<1> HIDE DEF G
<1>4. \A i \in 0..Len(s) : i \in G
      BY <1>1, <1>2, <1>3, Climb
<1>5. Len(s) \in G
      BY <1>3, <1>4
<1> QED BY <1>5 DEF G

\* One more row.
LEMMA AppendRows ==
  ASSUME NEW S, NEW s \in Seq(S), NEW x \in S
  PROVE  /\ Append(s, x) \in Seq(S)
         /\ Rows(Append(s, x)) = Rows(s) \cup {x}
         /\ Once(s) /\ x \notin Rows(s) => Once(Append(s, x))
<1>1. /\ Append(s, x) \in Seq(S)
      /\ Len(s) \in Nat /\ DOMAIN s = 1..Len(s)
      /\ DOMAIN Append(s, x) = 1..(Len(s) + 1)
      /\ \A k \in 1..Len(s) : Append(s, x)[k] = s[k]
      /\ Append(s, x)[Len(s) + 1] = x
      BY AppendProperties
<1>2. \A k \in 1..(Len(s) + 1) : k \in 1..Len(s) \/ k = Len(s) + 1
      BY <1>1
<1>3. Rows(Append(s, x)) = Rows(s) \cup {x}
  <2>1. \A k \in 1..Len(s) : k \in 1..(Len(s) + 1)
        BY <1>1
  <2>2. Len(s) + 1 \in 1..(Len(s) + 1)
        BY <1>1
  <2> QED BY <1>1, <1>2, <2>1, <2>2 DEF Rows
<1>4. ASSUME Once(s), x \notin Rows(s) PROVE Once(Append(s, x))
  <2>1. \A k \in 1..Len(s) : s[k] # x
        BY <1>1, <1>4 DEF Rows
  <2>2. ASSUME NEW j \in 1..(Len(s) + 1), NEW k \in 1..(Len(s) + 1),
               Append(s, x)[j] = Append(s, x)[k]
        PROVE  j = k
    <3>1. CASE j \in 1..Len(s) /\ k \in 1..Len(s)
          BY <1>1, <1>4, <2>2, <3>1 DEF Once
    <3>2. CASE j = Len(s) + 1 \/ k = Len(s) + 1
          BY <1>1, <1>2, <2>1, <2>2, <3>2
    <3> QED BY <1>2, <3>1, <3>2
  <2> QED BY <1>1, <2>2 DEF Once
<1> QED BY <1>1, <1>3, <1>4

\* Pick keeps the rows of the set and no other, each as often as it was there.
LEMMA PickRows ==
  ASSUME NEW S, NEW s \in Seq(S), NEW keep
  PROVE  /\ Pick(s, keep) \in Seq(S)
         /\ Rows(Pick(s, keep)) = Rows(s) \cap keep
         /\ Once(s) => Once(Pick(s, keep))
<1> DEFINE f == CHOOSE f : Prefixes(s, keep, Len(s), f)
<1>1. Prefixes(s, keep, Len(s), f)
      BY PrefixesExist
<1>2. Pick(s, keep) = f[Len(s)]
      BY Zenon DEF Pick, Prefixes
<1> HIDE DEF f
<1>3. f[0] = <<>> /\ Len(s) \in Nat /\ DOMAIN s = 1..Len(s)
      BY <1>1, LenProperties DEF Prefixes
<1>4. \A k \in 1..Len(s) : f[k] = IF s[k] \in keep THEN Append(f[k - 1], s[k])
                                  ELSE f[k - 1]
  <2> SUFFICES ASSUME NEW k \in 1..Len(s)
               PROVE  f[k] = IF s[k] \in keep THEN Append(f[k - 1], s[k])
                             ELSE f[k - 1]
      OBVIOUS
  <2>1. k \in 0..Len(s) /\ k # 0
        BY <1>3
  <2> QED BY <1>1, <2>1 DEF Prefixes
<1> DEFINE G == {n \in 0..Len(s) :
                   /\ f[n] \in Seq(S)
                   /\ Rows(f[n]) = {s[j] : j \in 1..n} \cap keep
                   /\ Once(s) => Once(f[n])}
<1>5. 0 \in G
  <2>1. Rows(<<>>) = {} /\ Once(<<>>) /\ <<>> \in Seq(S)
        BY DEF Rows, Once
  <2>2. 1..0 = {} /\ 0 \in 0..Len(s)
        BY <1>3
  <2> QED BY <1>3, <2>1, <2>2
<1>6. ASSUME NEW n \in 0..(Len(s) - 1), n \in G PROVE n + 1 \in G
  <2>1. /\ f[n] \in Seq(S)
        /\ Rows(f[n]) = {s[j] : j \in 1..n} \cap keep
        /\ Once(s) => Once(f[n])
        BY <1>6
  <2>2. n + 1 \in 0..Len(s) /\ n + 1 \in 1..Len(s) /\ (n + 1) - 1 = n
        BY <1>3
  <2>3. s[n + 1] \in S
        BY <2>2, ElementOfSeq
  <2>4. f[n + 1] = IF s[n + 1] \in keep THEN Append(f[n], s[n + 1]) ELSE f[n]
        BY <1>4, <2>2
  <2>5. {s[j] : j \in 1..(n + 1)} = {s[j] : j \in 1..n} \cup {s[n + 1]}
    <3>1. \A j : j \in 1..(n + 1) <=> j \in 1..n \/ j = n + 1
          BY <1>3
    <3> QED BY <3>1
  <2>6. Once(s) => s[n + 1] \notin {s[j] : j \in 1..n}
    <3>1. \A j \in 1..n : j \in 1..Len(s) /\ j # n + 1
          BY <1>3, <2>2
    <3> QED BY <1>3, <2>2, <3>1 DEF Once
  <2> HIDE DEF G
  <2>7. /\ f[n + 1] \in Seq(S)
        /\ Rows(f[n + 1]) = {s[j] : j \in 1..(n + 1)} \cap keep
        /\ Once(s) => Once(f[n + 1])
    <3>1. CASE s[n + 1] \in keep
      <4>1. f[n + 1] = Append(f[n], s[n + 1])
            BY <2>4, <3>1
      <4>2. /\ f[n + 1] \in Seq(S)
            /\ Rows(f[n + 1]) = Rows(f[n]) \cup {s[n + 1]}
            /\ Once(f[n]) /\ s[n + 1] \notin Rows(f[n]) => Once(f[n + 1])
            BY <2>1, <2>3, <4>1, AppendRows
      <4> QED BY <2>1, <2>5, <2>6, <3>1, <4>2
    <3>2. CASE s[n + 1] \notin keep
          BY <2>1, <2>4, <2>5, <3>2
    <3> QED BY <3>1, <3>2
  <2> QED BY <2>2, <2>7 DEF G
<1> HIDE DEF G
<1>7. Len(s) \in G
  <2>1. \A i \in 0..Len(s) : i \in G
        BY <1>3, <1>5, <1>6, Climb
  <2> QED BY <1>3, <2>1
<1>8. Rows(s) = {s[j] : j \in 1..Len(s)}
      BY <1>3 DEF Rows
<1> QED BY <1>2, <1>7, <1>8 DEF G

\* Two sequences in a row.
LEMMA ConcatRows ==
  ASSUME NEW S, NEW s \in Seq(S), NEW t \in Seq(S)
  PROVE  /\ s \o t \in Seq(S)
         /\ Rows(s \o t) = Rows(s) \cup Rows(t)
         /\ Once(s) /\ Once(t) /\ Apart(s, t) => Once(s \o t)
<1> DEFINE n == Len(s)
           p == Len(t)
<1>1. /\ s \o t \in Seq(S)
      /\ n \in Nat /\ p \in Nat
      /\ DOMAIN s = 1..n /\ DOMAIN t = 1..p /\ DOMAIN (s \o t) = 1..(n + p)
      /\ \A k \in 1..(n + p) : (s \o t)[k] = IF k <= n THEN s[k] ELSE t[k - n]
      BY ConcatProperties, LenProperties
<1> HIDE DEF n, p
<1>2. \A k \in 1..(n + p) : \/ k \in 1..n /\ (s \o t)[k] = s[k]
                            \/ k - n \in 1..p /\ (s \o t)[k] = t[k - n]
      BY <1>1
<1>3. \A k \in 1..n : k \in 1..(n + p) /\ (s \o t)[k] = s[k]
      BY <1>1
<1>4. \A k \in 1..p : k + n \in 1..(n + p) /\ (s \o t)[k + n] = t[k]
  <2>1. \A k \in 1..p : k + n \in 1..(n + p) /\ ~(k + n <= n) /\ (k + n) - n = k
        BY <1>1
  <2> QED BY <1>1, <2>1
<1>5. Rows(s \o t) = Rows(s) \cup Rows(t)
  <2>1. Rows(s \o t) \subseteq Rows(s) \cup Rows(t)
        BY <1>1, <1>2 DEF Rows
  <2>2. Rows(s) \subseteq Rows(s \o t)
        BY <1>1, <1>3 DEF Rows
  <2>3. Rows(t) \subseteq Rows(s \o t)
        BY <1>1, <1>4 DEF Rows
  <2> QED BY <2>1, <2>2, <2>3
<1>6. ASSUME Once(s), Once(t), Apart(s, t),
             NEW j \in 1..(n + p), NEW k \in 1..(n + p), (s \o t)[j] = (s \o t)[k]
      PROVE  j = k
  <2>1. \A i \in 1..n, l \in 1..p : s[i] # t[l]
        BY <1>1, <1>6 DEF Apart, Rows
  <2>2. CASE j \in 1..n /\ (s \o t)[j] = s[j]
    <3>1. k \in 1..n /\ (s \o t)[k] = s[k]
          BY <1>2, <1>6, <2>1, <2>2
    <3> QED BY <1>1, <1>6, <2>2, <3>1 DEF Once
  <2>3. CASE j - n \in 1..p /\ (s \o t)[j] = t[j - n]
    <3>1. k - n \in 1..p /\ (s \o t)[k] = t[k - n]
          BY <1>2, <1>6, <2>1, <2>3
    <3>2. j - n = k - n
          BY <1>1, <1>6, <2>3, <3>1 DEF Once
    <3> QED BY <1>1, <3>2
  <2> QED BY <1>2, <2>2, <2>3
<1> QED BY <1>1, <1>5, <1>6 DEF Once

-----------------------------------------------------------------------------
(* Steps that move no row.                                                 *)

\* What the assumption says of the bounds.
LEMMA Bounds ==
  /\ MaxMessages \in Nat /\ MaxTurns \in Nat /\ MaxRuns \in Nat
  /\ MaxQueued \in Nat \ {0} /\ Ids \subseteq Nat \ {0}
BY QueueAssumption DEF QueueAssumption, Ids

\* An empty sequence has no rows, and only it.
LEMMA NoRows ==
  /\ Rows(<<>>) = {} /\ Once(<<>>) /\ <<>> \in Seq(Ids)
  /\ \A s \in Seq(Ids) : Rows(s) = {} => s = <<>>
<1>1. Rows(<<>>) = {} /\ Once(<<>>) /\ <<>> \in Seq(Ids)
      BY DEF Rows, Once
<1>2. ASSUME NEW s \in Seq(Ids), Rows(s) = {} PROVE s = <<>>
  <2>1. DOMAIN s = 1..Len(s) /\ Len(s) \in Nat
        BY LenProperties
  <2>2. 1 \notin DOMAIN s
        BY <1>2 DEF Rows
  <2> QED BY <2>1, <2>2, EmptySeq
<1> QED BY <1>1, <1>2

\* The rows stay where they are.
LEMMA PlacedFrame ==
  ASSUME Placed, UNCHANGED <<queue, pending, taken, fate, sent>>
  PROVE  Placed'
BY DEF Placed, Once, Apart, Rows

\* Nothing was accepted yet.
LEMMA SoundInit == Init => Sound
<1> SUFFICES ASSUME Init PROVE Sound
    OBVIOUS
<1> USE NoRows, Bounds DEF Init
<1>1. TypeOK
  <2>1. 0 \in 0..MaxTurns /\ 0 \in 0..MaxRuns /\ 0 \in 0..MaxMessages
        OBVIOUS
  <2>2. input \in [kind : {"prompt", "boundary", "batch"}, read : BOOLEAN]
        BY DEF Input
  <2>3. mode \in [Ids -> Modes]
        BY DEF Modes
  <2> QED BY <2>1, <2>2, <2>3 DEF TypeOK
<1>2. Placed
      BY DEF Placed, Apart
<1>3. Cuttable /\ Reserving /\ Owning /\ Retaining /\ IdleQueueIsKept
      BY DEF Cuttable, Reserving, Owning, Retaining, IdleQueueIsKept
<1> QED BY <1>1, <1>2, <1>3 DEF Sound

\* The Stop buttons and the mode of a message.
LEMMA SoundOperatorQuiet ==
  ASSUME Sound
  PROVE  \/ Stop \/ StopLands \/ CallerGone
         \/ \E how \in Modes : \E m \in Ids : SetMode(m, how)
         => Sound'
<1> USE DEF Sound
<1>1. ASSUME Stop \/ StopLands \/ CallerGone PROVE Sound'
  <2>1. /\ UNCHANGED <<queueVars, interruptVars, interrupted, turnVars, ghostVars>>
        /\ <<cancelled, userCancelled, stopping>>'
             \in BOOLEAN \X BOOLEAN \X BOOLEAN
        BY <1>1 DEF Stop, StopLands, CallerGone, TypeOK
  <2>2. TypeOK'
        BY <2>1
        DEF TypeOK, queueVars, interruptVars, turnVars, ghostVars
  <2>3. Placed'
        BY <2>1, PlacedFrame DEF queueVars, interruptVars, turnVars, ghostVars
  <2>4. Cuttable' /\ Reserving' /\ Owning' /\ Retaining' /\ IdleQueueIsKept'
        BY <2>1
        DEF Cuttable, Reserving, Owning, Retaining, IdleQueueIsKept, IsAfter,
            queueVars, interruptVars, turnVars, ghostVars
  <2> QED BY <2>2, <2>3, <2>4
<1>2. ASSUME NEW m \in Ids, NEW how \in Modes, SetMode(m, how) PROVE Sound'
  <2> USE <1>2 DEF SetMode, interruptVars, stopVars, turnVars
  <2>1. TypeOK'
        BY DEF TypeOK
  <2>2. Placed'
        BY PlacedFrame
  <2>3. Cuttable' /\ Reserving' /\ Owning' /\ Retaining'
        BY DEF Cuttable, Reserving, Owning, Retaining
  <2>4. IdleQueueIsKept'
        BY DEF IdleQueueIsKept, IsAfter, TypeOK
  <2> QED BY <2>1, <2>2, <2>3, <2>4
<1> QED BY <1>1, <1>2

\* The turn's goroutine between its meetings with the rows.
LEMMA SoundTurnQuiet ==
  ASSUME Sound
  PROVE  \/ SetCancel \/ AdmissionFails \/ \E i \in BOOLEAN : Install(i)
         \/ Dispatch \/ DispatchStopped
         \/ \E how \in {"end", "stopped", "error"} : RunEnds(how)
         \/ Restart \/ RunReturns \/ BoundaryEnds \/ BoundaryCloses
         => Sound'
<1> USE DEF Sound, Input, queueVars, interruptVars, stopVars, turnVars, ghostVars
<1>0. UNCHANGED <<queue, pending, taken, fate, sent>> => Placed'
      BY PlacedFrame
<1>1. ASSUME SetCancel PROVE Sound'
  <2>0. 0 \in 0..MaxRuns /\ input' \in [kind : {"prompt"}, read : BOOLEAN]
        BY <1>1, Bounds DEF SetCancel
  <2>1. TypeOK'
        BY <1>1, <2>0 DEF SetCancel, TypeOK
  <2>2. Cuttable' /\ Reserving' /\ Owning' /\ Retaining' /\ IdleQueueIsKept'
        BY <1>1 DEF SetCancel, Cuttable, Reserving, Owning, Retaining,
                    IdleQueueIsKept, IsAfter
  <2> QED BY <1>0, <1>1, <2>1, <2>2 DEF SetCancel
<1>2. ASSUME AdmissionFails PROVE Sound'
  <2>1. TypeOK'
        BY <1>2 DEF AdmissionFails, TypeOK
  <2>2. Cuttable' /\ Reserving' /\ Owning' /\ Retaining' /\ IdleQueueIsKept'
        BY <1>2 DEF AdmissionFails, Cuttable, Reserving, Owning, Retaining,
                    IdleQueueIsKept, IsAfter
  <2> QED BY <1>0, <1>2, <2>1, <2>2 DEF AdmissionFails
<1>3. ASSUME NEW i \in BOOLEAN, Install(i) PROVE Sound'
  <2>1. TypeOK'
        BY <1>3 DEF Install, TypeOK
  <2>2. Cuttable' /\ Reserving' /\ Owning' /\ Retaining' /\ IdleQueueIsKept'
        BY <1>3 DEF Install, Cuttable, Reserving, Owning, Retaining,
                    IdleQueueIsKept, IsAfter
  <2> QED BY <1>0, <1>3, <2>1, <2>2 DEF Install
<1>4. ASSUME Dispatch PROVE Sound'
  <2>1. TypeOK'
        BY <1>4 DEF Dispatch, TypeOK
  <2>2. Cuttable' /\ Reserving' /\ Owning' /\ Retaining' /\ IdleQueueIsKept'
        BY <1>4 DEF Dispatch, Cuttable, Reserving, Owning, Retaining,
                    IdleQueueIsKept, IsAfter
  <2> QED BY <1>0, <1>4, <2>1, <2>2 DEF Dispatch
<1>5. ASSUME DispatchStopped PROVE Sound'
  <2>1. TypeOK'
        BY <1>5 DEF DispatchStopped, TypeOK
  <2>2. Cuttable' /\ Reserving' /\ Owning' /\ Retaining' /\ IdleQueueIsKept'
        BY <1>5 DEF DispatchStopped, Cuttable, Reserving, Owning, Retaining,
                    IdleQueueIsKept, IsAfter
  <2> QED BY <1>0, <1>5, <2>1, <2>2 DEF DispatchStopped
<1>6. ASSUME NEW how \in {"end", "stopped", "error"}, RunEnds(how) PROVE Sound'
  <2>1. TypeOK'
        BY <1>6 DEF RunEnds, TypeOK
  <2>a. Cuttable' /\ Owning'
        BY <1>6 DEF RunEnds, Cuttable, Owning
  <2>b. Reserving'
        BY <1>6 DEF RunEnds, Cuttable, Reserving
  <2>c. Retaining' /\ IdleQueueIsKept'
        BY <1>6 DEF RunEnds, Retaining, IdleQueueIsKept, IsAfter
  <2>2. Cuttable' /\ Reserving' /\ Owning' /\ Retaining' /\ IdleQueueIsKept'
        BY <2>a, <2>b, <2>c
  <2> QED BY <1>0, <1>6, <2>1, <2>2 DEF RunEnds
<1>7. ASSUME Restart PROVE Sound'
  <2>0. /\ runs + 1 \in 0..MaxRuns
        /\ input' \in [kind : {"batch"}, read : BOOLEAN]
        BY <1>7, Bounds DEF Restart, RunsLeft, TypeOK
  <2>1. TypeOK'
        BY <1>7, <2>0 DEF Restart, TypeOK
  <2>2. Cuttable' /\ Reserving' /\ Owning' /\ Retaining' /\ IdleQueueIsKept'
        BY <1>7 DEF Restart, Restarts, Cuttable, Reserving, Owning, Retaining,
                    IdleQueueIsKept, IsAfter
  <2> QED BY <1>0, <1>7, <2>1, <2>2 DEF Restart
<1>8. ASSUME RunReturns PROVE Sound'
  <2>1. TypeOK'
        BY <1>8 DEF RunReturns, TypeOK
  <2>2. Cuttable' /\ Reserving' /\ Owning' /\ Retaining' /\ IdleQueueIsKept'
        BY <1>8 DEF RunReturns, Restarts, Cuttable, Reserving, Owning, Retaining,
                    IdleQueueIsKept, IsAfter
  <2> QED BY <1>0, <1>8, <2>1, <2>2 DEF RunReturns
<1>9. ASSUME BoundaryEnds PROVE Sound'
  <2>1. TypeOK'
        BY <1>9 DEF BoundaryEnds, TypeOK
  <2>2. Cuttable' /\ Reserving' /\ Owning' /\ Retaining' /\ IdleQueueIsKept'
        BY <1>9 DEF BoundaryEnds, Cuttable, Reserving, Owning, Retaining,
                    IdleQueueIsKept, IsAfter
  <2> QED BY <1>0, <1>9, <2>1, <2>2 DEF BoundaryEnds
<1>10. ASSUME BoundaryCloses PROVE Sound'
  <2>a. /\ open' \in BOOLEAN /\ pc' = "finish"
        /\ queue' = queue /\ mode' = mode /\ retained' = retained
        /\ UNCHANGED <<interruptVars, stopVars, turns, runs, first, outcome, taken,
                       ghostVars>>
        BY <1>10 DEF BoundaryCloses
  <2>1. TypeOK'
        BY <2>a DEF TypeOK
  <2>2. Cuttable' /\ Reserving' /\ Owning' /\ Retaining' /\ IdleQueueIsKept'
        BY <1>10 DEF BoundaryCloses, Continues, Cuttable, Reserving, Owning, Retaining,
                     IdleQueueIsKept, IsAfter
  <2> QED BY <1>0, <1>10, <2>1, <2>2 DEF BoundaryCloses
<1> QED BY <1>1, <1>2, <1>3, <1>4, <1>5, <1>6, <1>7, <1>8, <1>9, <1>10

-----------------------------------------------------------------------------
(* Steps that move rows.                                                   *)

Fates == {"unsent", "held", "read", "takenBack", "cleared", "dropped", "refused"}
AllRows == Rows(queue) \cup Rows(pending) \cup Rows(taken)

\* Rows are messages, and those in a place have no fate yet.
LEMMA RowsAreIds ==
  ASSUME TypeOK
  PROVE  /\ \A s \in Seq(Ids) : Rows(s) \subseteq Ids
         /\ AllRows \subseteq Ids
<1>1. ASSUME NEW s \in Seq(Ids) PROVE Rows(s) \subseteq Ids
  <2>1. DOMAIN s = 1..Len(s)
        BY LenProperties
  <2>2. \A k \in 1..Len(s) : s[k] \in Ids
        BY ElementOfSeq
  <2> QED BY <2>1, <2>2 DEF Rows
<1> QED BY <1>1 DEF TypeOK, AllRows

\* Rows that leave their place get the fate they leave for, and the others stay
\* where they are or change their place.
LEMMA RowsMove ==
  ASSUME TypeOK, Placed, NEW gone, gone \subseteq AllRows,
         NEW end \in Fates \ {"unsent", "held"}, Becomes(gone, end),
         UNCHANGED sent,
         Once(queue'), Once(pending'), Once(taken'),
         Apart(queue', pending'), Apart(queue', taken'), Apart(pending', taken'),
         Rows(queue') \cup Rows(pending') \cup Rows(taken') = AllRows \ gone
  PROVE  /\ Placed'
         /\ fate' \in [Ids -> Fates]
         /\ \A m \in Ids :
              /\ fate'[m] = "unsent" => fate[m] = "unsent"
              /\ fate'[m] = "held" => fate[m] = "held" /\ m \notin gone
<1>1. \A m \in Ids : fate'[m] = IF m \in gone THEN end ELSE fate[m]
      BY DEF Becomes
<1>2. fate' \in [Ids -> Fates]
      BY DEF Becomes, TypeOK, Fates
<1>3. \A m \in Ids :
        /\ fate'[m] = "unsent" => fate[m] = "unsent"
        /\ fate'[m] = "held" => fate[m] = "held" /\ m \notin gone
      BY <1>1 DEF Fates
<1>4. \A m \in Ids : fate'[m] = "held"
                       <=> m \in Rows(queue') \cup Rows(pending') \cup Rows(taken')
      BY <1>1 DEF Placed, AllRows, Fates
<1>5. \A m \in Ids : m > sent => fate'[m] = "unsent"
  <2>1. \A m \in Ids : m > sent => m \notin gone
        BY DEF Placed, AllRows
  <2> QED BY <1>1, <2>1 DEF Placed
<1> QED BY <1>2, <1>3, <1>4, <1>5 DEF Placed

\* A follow-up is accepted: its number is new, and it waits.
LEMMA SoundEnqueue ==
  ASSUME Sound, NEW how \in Modes, Enqueue(how)
  PROVE  Sound'
<1> USE DEF Sound
<1> DEFINE m == sent + 1
<1>0. /\ open /\ m \in Ids /\ sent' = m
      /\ queue' = Append(queue, m) /\ mode' = [mode EXCEPT ![m] = how]
      /\ Becomes({m}, "held")
      /\ UNCHANGED <<open, retained, interruptVars, stopVars, turnVars, reserved,
                     switched>>
      BY DEF Enqueue
<1>1. sent \in Nat /\ m > sent /\ fate[m] = "unsent"
      BY <1>0, Bounds DEF TypeOK, Placed
<1> HIDE DEF m
<1>2. m \notin AllRows
      BY <1>0, <1>1 DEF Placed, AllRows
<1>3. /\ queue' \in Seq(Ids) /\ Rows(queue') = Rows(queue) \cup {m}
      /\ Once(queue')
      BY <1>0, <1>2, AppendRows DEF TypeOK, Placed, AllRows
<1>4. \A n \in Ids : fate'[n] = IF n = m THEN "held" ELSE fate[n]
      BY <1>0 DEF Becomes
<1>5. TypeOK'
  <2>1. sent' \in 0..MaxMessages
        BY <1>0, Bounds DEF Ids
  <2>2. fate' \in [Ids -> Fates] /\ mode' \in [Ids -> Modes]
        BY <1>0 DEF Becomes, TypeOK, Fates
  <2> QED BY <1>0, <1>3, <2>1, <2>2
          DEF TypeOK, Fates, interruptVars, stopVars, turnVars
<1>6. Placed'
  <2>1. /\ Once(pending') /\ Once(taken')
        /\ Apart(queue', pending') /\ Apart(queue', taken') /\ Apart(pending', taken')
        BY <1>0, <1>2, <1>3
        DEF Placed, Apart, AllRows, interruptVars, turnVars
  <2>2. \A n \in Ids : fate'[n] = "held"
                         <=> n \in Rows(queue') \cup Rows(pending') \cup Rows(taken')
        BY <1>0, <1>3, <1>4 DEF Placed, interruptVars, turnVars
  <2>3. \A n \in Ids : n > sent' => fate'[n] = "unsent"
    <3>1. \A n \in Ids : n > m => n > sent /\ n # m
          BY <1>0, <1>1, Bounds DEF m
    <3> QED BY <1>0, <1>4, <3>1 DEF Placed
  <2> QED BY <1>3, <2>1, <2>2, <2>3 DEF Placed
<1>7. Cuttable' /\ Reserving' /\ Owning'
      BY <1>0 DEF Cuttable, Reserving, Owning, interruptVars, stopVars, turnVars
<1>8. Retaining'
  <2>1. m \notin reserved
        BY <1>0, <1>1, <1>2 DEF Retaining
  <2> QED BY <1>0, <1>4, <2>1
          DEF Retaining, TypeOK, interruptVars, stopVars, turnVars
<1>9. IdleQueueIsKept'
      BY <1>0 DEF IdleQueueIsKept, turnVars
<1> QED BY <1>5, <1>6, <1>7, <1>8, <1>9

\* Rows leave the queue, and nothing else happens.
LEMMA SoundShrink ==
  ASSUME Sound, NEW gone, gone \subseteq Rows(queue),
         NEW end \in Fates \ {"unsent", "held"}, Becomes(gone, end),
         queue' \in Seq(Ids), Once(queue'), Rows(queue') = Rows(queue) \ gone,
         UNCHANGED <<mode, open, retained, interruptVars, stopVars, turnVars, sent,
                     reserved, switched>>
  PROVE  Sound'
<1> USE DEF Sound, interruptVars, stopVars, turnVars
<1>1. /\ Placed' /\ fate' \in [Ids -> Fates]
      /\ \A m \in Ids : /\ fate'[m] = "unsent" => fate[m] = "unsent"
                        /\ fate'[m] = "held" => fate[m] = "held"
  <2>1. gone \subseteq AllRows
        BY DEF AllRows
  <2>2. /\ Once(queue') /\ Once(pending') /\ Once(taken')
        /\ Apart(queue', pending') /\ Apart(queue', taken') /\ Apart(pending', taken')
        BY DEF Placed, Apart
  <2>3. Rows(queue') \cup Rows(pending') \cup Rows(taken') = AllRows \ gone
        BY DEF Placed, Apart, AllRows
  <2> QED BY <2>1, <2>2, <2>3, RowsMove
<1>2. TypeOK'
      BY <1>1 DEF TypeOK, Fates
<1>3. Cuttable' /\ Reserving' /\ Owning'
      BY DEF Cuttable, Reserving, Owning
<1>4. Retaining'
      BY <1>1 DEF Retaining, TypeOK
<1>5. IdleQueueIsKept'
      BY DEF IdleQueueIsKept, IsAfter
<1> QED BY <1>1, <1>2, <1>3, <1>4, <1>5

\* A message is taken back, the queue is cleared, or a step of the run reads the
\* steer messages.
LEMMA SoundLeaving ==
  ASSUME Sound
  PROVE  (\E m \in Ids : TakeBack(m)) \/ Clear \/ ReadSteer => Sound'
<1>0. queue \in Seq(Ids) /\ Once(queue) /\ Rows(queue) \subseteq Ids
      BY RowsAreIds DEF Sound, TypeOK, Placed
<1>1. ASSUME NEW m \in Ids, TakeBack(m) PROVE Sound'
  <2>1. /\ queue' \in Seq(Ids) /\ Once(queue')
        /\ Rows(queue') = Rows(queue) \cap (Ids \ {m})
        BY <1>0, <1>1, PickRows DEF TakeBack
  <2>2. Becomes({m}, "takenBack") /\ "takenBack" \in Fates \ {"unsent", "held"}
        BY <1>1 DEF TakeBack, Fates
  <2>3. {m} \subseteq Rows(queue) /\ Rows(queue') = Rows(queue) \ {m}
        BY <1>0, <1>1, <2>1 DEF TakeBack
  <2> QED BY <1>1, <2>1, <2>2, <2>3, SoundShrink DEF TakeBack
<1>2. ASSUME Clear PROVE Sound'
  <2>1. queue' \in Seq(Ids) /\ Once(queue') /\ Rows(queue') = Rows(queue) \ Rows(queue)
        BY <1>2, NoRows DEF Clear
  <2>2. Becomes(Rows(queue), "cleared") /\ "cleared" \in Fates \ {"unsent", "held"}
        BY <1>2 DEF Clear, Fates
  <2> QED BY <1>2, <2>1, <2>2, SoundShrink DEF Clear
<1>3. ASSUME ReadSteer PROVE Sound'
  <2> DEFINE gone == Rows(TakeSteer(queue))
  <2>1. /\ queue' \in Seq(Ids) /\ Once(queue')
        /\ Rows(queue') = Rows(queue) \cap {m \in Ids : IsAfter(m)}
        BY <1>0, <1>3, PickRows DEF ReadSteer, KeepAfterTurn
  <2>2. gone = Rows(queue) \cap {m \in Ids : IsSteer(m)}
        BY <1>0, PickRows DEF TakeSteer
  <2>3. Becomes(gone, "read") /\ "read" \in Fates \ {"unsent", "held"}
        BY <1>3 DEF ReadSteer, Fates
  <2> HIDE DEF gone
  <2>4. gone \subseteq Rows(queue) /\ Rows(queue') = Rows(queue) \ gone
        BY <1>0, <2>1, <2>2 DEF IsAfter, IsSteer, Sound, TypeOK, Modes
  <2> QED BY <1>3, <2>1, <2>3, <2>4, SoundShrink DEF ReadSteer
<1> QED BY <1>1, <1>2, <1>3

\* A close keeps what is deferred or was reserved.
LEMMA SoundClose ==
  ASSUME Sound, CloseQueue,
         UNCHANGED <<mode, retained, interruptVars, interrupted, userCancelled,
                     stopping, turns, runs, first, outcome, taken, sent, reserved,
                     switched>>,
         cancelled' \in BOOLEAN, pc' \in {"finish", "idle"},
         pc = "finish" \/ (pc = "boundary" /\ outcome = "end")
  PROVE  Sound'
<1> USE DEF Sound, interruptVars
<1> DEFINE gone == {m \in Rows(queue) : ~Kept(m)}
<1>0. queue \in Seq(Ids) /\ Once(queue) /\ Rows(queue) \subseteq Ids
      BY RowsAreIds DEF TypeOK, Placed
<1>1. /\ queue' \in Seq(Ids) /\ Once(queue')
      /\ Rows(queue') = Rows(queue) \cap {m \in Ids : Kept(m)}
      BY <1>0, PickRows DEF CloseQueue
<1>2. Becomes(gone, "dropped") /\ "dropped" \in Fates \ {"unsent", "held"}
      BY DEF CloseQueue, Fates
<1>3. gone \subseteq AllRows /\ Rows(queue') = Rows(queue) \ gone
      BY <1>0, <1>1 DEF AllRows
<1> HIDE DEF gone
<1>4. /\ Placed' /\ fate' \in [Ids -> Fates]
      /\ \A m \in Ids : /\ fate'[m] = "unsent" => fate[m] = "unsent"
                        /\ fate'[m] = "held" => fate[m] = "held"
  <2>1. /\ Once(queue') /\ Once(pending') /\ Once(taken')
        /\ Apart(queue', pending') /\ Apart(queue', taken') /\ Apart(pending', taken')
        BY <1>1 DEF Placed, Apart
  <2>2. gone \subseteq Rows(queue)
        BY DEF gone
  <2>3. Rows(queue') \cup Rows(pending') \cup Rows(taken') = AllRows \ gone
        BY <1>3, <2>2 DEF Placed, Apart, AllRows
  <2> QED BY <1>2, <1>3, <2>1, <2>3, RowsMove
<1>5. TypeOK'
  <2>1. open' \in BOOLEAN
        BY DEF CloseQueue
  <2> QED BY <1>1, <1>4, <2>1 DEF TypeOK, Fates
<1>6. Cuttable' /\ Reserving' /\ Owning'
      BY DEF Cuttable, Reserving, Owning, CloseQueue
<1>7. Retaining'
      BY <1>4 DEF Retaining, TypeOK
<1>8. IdleQueueIsKept'
      BY <1>1 DEF IdleQueueIsKept, IsAfter, Kept, Retaining, CloseQueue
<1> QED BY <1>4, <1>5, <1>6, <1>7, <1>8

\* The last runs of a turn and its release close the queue.
LEMMA SoundEnding ==
  ASSUME Sound
  PROVE  BoundaryCapped \/ Finish => Sound'
<1>1. ASSUME BoundaryCapped PROVE Sound'
  <2>1. cancelled' \in BOOLEAN
        BY <1>1 DEF BoundaryCapped, stopVars, Sound, TypeOK
  <2> QED BY <1>1, <2>1, SoundClose DEF BoundaryCapped, Continues, stopVars
<1>2. ASSUME Finish PROVE Sound'
  <2>1. cancelled' \in BOOLEAN /\ pc' \in {"finish", "idle"} /\ pc = "finish"
        BY <1>2 DEF Finish
  <2> QED BY <1>2, <2>1, SoundClose DEF Finish
<1> QED BY <1>1, <1>2

\* A continuing Stop reserves the boundary's unread rows and all that waits.
LEMMA SoundInterrupt ==
  ASSUME Sound, TryInterrupt
  PROVE  Sound'
<1> USE DEF Sound
<1>0. /\ queue \in Seq(Ids) /\ taken \in Seq(Ids) /\ Once(queue) /\ Once(taken)
      /\ Apart(taken, queue) /\ Rows(queue) \cup Rows(taken) \subseteq Ids
      BY RowsAreIds DEF TypeOK, Placed, Apart
<1>1. /\ pending' \in Seq(Ids) /\ Once(pending')
      /\ Rows(pending') = Rows(taken) \cup Rows(queue)
      BY <1>0, ConcatRows DEF TryInterrupt
<1>2. /\ pending = <<>> /\ taken' = <<>> /\ queue' = <<>>
      /\ interrupted' = TRUE /\ installed /\ armed /\ open
      /\ reserved' = reserved \cup Rows(pending')
      /\ UNCHANGED <<mode, open, retained, installed, armed, input, cancelled,
                     userCancelled, stopping, pc, turns, runs, first, outcome, sent,
                     fate, switched>>
      BY DEF TryInterrupt, FreeToCut
<1>3. Rows(pending') \subseteq Ids
      BY <1>0, <1>1
<1>4. TypeOK'
      BY <1>1, <1>2, <1>3, NoRows DEF TypeOK
<1>5. Placed'
  <2>1. Rows(queue') = {} /\ Rows(taken') = {} /\ Rows(pending) = {}
        BY <1>2, NoRows
  <2>2. Once(queue') /\ Once(taken')
        BY <1>2, NoRows
  <2> QED BY <1>1, <1>2, <2>1, <2>2 DEF Placed, Apart
<1>6. Cuttable' /\ Owning'
      BY <1>2 DEF Cuttable, Owning
<1>7. Reserving'
  <2>1. pc \in {"run", "ran"} /\ ~first
        BY <1>2 DEF Cuttable
  <2> QED BY <1>2, <2>1 DEF Reserving
<1>8. Retaining'
  <2>1. \A m \in Rows(pending') : fate[m] = "held"
        BY <1>1, <1>3 DEF Placed
  <2>2. Rows(pending) = {}
        BY <1>2, NoRows
  <2>3. retained' # {} => /\ taken' = <<>>
                          /\ pc' \in {"after", "boundary", "finish", "idle"}
                          /\ pc' \in {"after", "boundary"} => outcome' # "end"
        BY <1>2 DEF Retaining
  <2>4. Rows(pending') \cup retained' \subseteq reserved'
        BY <1>2 DEF Retaining
  <2>5. \A m \in reserved' :
          /\ fate'[m] # "unsent"
          /\ fate'[m] = "held" => m \in Rows(pending') \cup retained'
        BY <1>2, <2>1, <2>2 DEF Retaining
  <2> QED BY <2>3, <2>4, <2>5 DEF Retaining
<1>9. IdleQueueIsKept'
      BY <1>2, NoRows DEF IdleQueueIsKept
<1> QED BY <1>4, <1>5, <1>6, <1>7, <1>8, <1>9

\* A new turn finds a closed queue, with what earlier turns left for it.
LEMMA SoundOpen ==
  ASSUME Sound, OpenQueue
  PROVE  Sound'
<1> USE DEF Sound, interruptVars, stopVars
<1>0. /\ pc = "idle" /\ ~open /\ pending = <<>> /\ taken = <<>>
      BY DEF OpenQueue, IdleQueueIsKept, Reserving, Owning, Cuttable
<1>1. /\ queue' = queue /\ open' = TRUE /\ pc' = "opened"
      /\ retained' = {} /\ reserved' = {} /\ switched' = {}
      /\ turns < MaxTurns /\ turns' = turns + 1
      /\ Becomes({}, "dropped")
      /\ UNCHANGED <<mode, interruptVars, stopVars, runs, first, outcome, taken, sent>>
      BY <1>0 DEF OpenQueue
<1>2. fate' = fate
      BY <1>1 DEF Becomes, TypeOK
<1>3. TypeOK'
  <2>1. turns' \in 0..MaxTurns
        BY <1>1, Bounds DEF TypeOK
  <2> QED BY <1>1, <1>2, <2>1 DEF TypeOK
<1>4. Placed'
      BY <1>1, <1>2, PlacedFrame
<1>5. Cuttable' /\ Reserving' /\ Owning' /\ Retaining' /\ IdleQueueIsKept'
      BY <1>0, <1>1, NoRows
      DEF Cuttable, Reserving, Owning, Retaining, IdleQueueIsKept
<1> QED BY <1>3, <1>4, <1>5

\* The run reads its prompt: a batch, a boundary's rows, or the turn's own.
LEMMA SoundReadInput ==
  ASSUME Sound, ReadInput
  PROVE  Sound'
<1> USE DEF Sound, queueVars, stopVars
<1> DEFINE gone == IF input.kind = "batch" THEN Rows(pending) ELSE Rows(taken)
<1>1. /\ pc = "run" /\ ~input.read /\ input' = [input EXCEPT !.read = TRUE]
      /\ pending' = IF input.kind = "batch" THEN <<>> ELSE pending
      /\ taken' = <<>> /\ Becomes(gone, "read")
      /\ UNCHANGED <<queueVars, installed, armed, stopVars, pc, turns, runs, first,
                     outcome, sent, reserved, switched>>
      BY DEF ReadInput
<1>2. "read" \in Fates \ {"unsent", "held"} /\ gone \subseteq AllRows
      BY DEF Fates, AllRows
<1>3. pending' \in Seq(Ids) /\ taken' \in Seq(Ids) /\ Once(pending') /\ Once(taken')
      BY <1>1, NoRows DEF TypeOK, Placed
<1>4. input.kind = "batch" => taken = <<>>
      BY DEF Owning
<1>5. Rows(taken') = {} /\ Rows(<<>>) = {}
      BY <1>1, NoRows
<1>6. Rows(pending') = IF input.kind = "batch" THEN {} ELSE Rows(pending)
      BY <1>1, NoRows
<1>7. /\ Placed' /\ fate' \in [Ids -> Fates]
      /\ \A m \in Ids : /\ fate'[m] = "unsent" => fate[m] = "unsent"
                        /\ fate'[m] = "held" => fate[m] = "held" /\ m \notin gone
  <2>1. /\ Once(queue')
        /\ Apart(queue', pending') /\ Apart(queue', taken') /\ Apart(pending', taken')
        BY <1>1, <1>5, <1>6 DEF Placed, Apart
  <2>2. Rows(queue') \cup Rows(pending') \cup Rows(taken') = AllRows \ gone
        BY <1>1, <1>4, <1>5, <1>6 DEF Placed, Apart, AllRows
  <2> HIDE DEF gone
  <2> QED BY <1>1, <1>2, <1>3, <2>1, <2>2, RowsMove
<1>8. TypeOK'
  <2>1. input' \in [kind : {"prompt", "boundary", "batch"}, read : BOOLEAN]
        BY <1>1 DEF TypeOK
  <2> QED BY <1>1, <1>3, <1>7, <2>1 DEF TypeOK, Fates
<1>9. Cuttable' /\ Owning'
      BY <1>1 DEF Cuttable, Owning
<1>10. Reserving'
      BY <1>1 DEF Reserving, TypeOK
<1>11. Retaining'
  <2>1. retained = {}
        BY <1>1 DEF Retaining
  <2> QED BY <1>1, <1>6, <1>7, <2>1 DEF Retaining, TypeOK
<1>12. IdleQueueIsKept'
      BY <1>1 DEF IdleQueueIsKept
<1> QED BY <1>7, <1>8, <1>9, <1>10, <1>11, <1>12

\* An unread batch goes back to the head of the queue.
LEMMA SoundFinishInterrupt ==
  ASSUME Sound, FinishInterrupt
  PROVE  Sound'
<1> USE DEF Sound, stopVars
<1>0. /\ queue \in Seq(Ids) /\ pending \in Seq(Ids) /\ Once(queue) /\ Once(pending)
      /\ Apart(pending, queue)
      BY DEF TypeOK, Placed, Apart
<1>1. /\ pc = "return" /\ pc' = "after" /\ pending' = <<>> /\ installed' = FALSE
      /\ queue' = IF installed THEN pending \o queue ELSE queue
      /\ retained' = retained \cup Rows(pending)
      /\ UNCHANGED <<mode, open, armed, input, stopVars, turns, runs, first, outcome,
                     taken, ghostVars>>
      BY DEF FinishInterrupt
<1>2. /\ queue' \in Seq(Ids) /\ Once(queue')
      /\ Rows(queue') = Rows(pending) \cup Rows(queue)
  <2>1. CASE installed
        BY <1>0, <1>1, <2>1, ConcatRows
  <2>2. CASE ~installed
    <3>1. pending = <<>>
          BY <2>2 DEF Reserving
    <3> QED BY <1>0, <1>1, <2>2, <3>1, NoRows
  <2> QED BY <2>1, <2>2
<1>3. Rows(pending') = {} /\ Once(pending') /\ pending' \in Seq(Ids)
      BY <1>1, NoRows
<1>4. Rows(pending) \subseteq Ids
      BY RowsAreIds DEF TypeOK
<1>5. TypeOK'
  <2>1. /\ queue' \in Seq(Ids) /\ pending' \in Seq(Ids) /\ taken' \in Seq(Ids)
        /\ retained' \subseteq Ids /\ installed' \in BOOLEAN
        /\ pc' = "after"
        BY <1>1, <1>2, <1>3, <1>4 DEF TypeOK
  <2>2. UNCHANGED <<mode, open, armed, input, stopVars, turns, runs, first, outcome,
                    ghostVars>>
        BY <1>1
  <2> QED BY <2>1, <2>2 DEF TypeOK, ghostVars
<1>6. Placed'
      BY <1>1, <1>2, <1>3 DEF Placed, Apart, ghostVars
<1>7. Cuttable' /\ Owning' /\ Reserving' /\ IdleQueueIsKept'
      BY <1>1 DEF Cuttable, Owning, Reserving, IdleQueueIsKept
<1>8. retained = {} /\ (Rows(pending) # {} => taken = <<>> /\ outcome # "end")
      BY <1>1, NoRows DEF Retaining, Reserving
<1>9. Retaining'
      BY <1>1, <1>3, <1>8 DEF Retaining, ghostVars
<1> QED BY <1>5, <1>6, <1>7, <1>9

\* Rows of a run that was stopped unread go back or go away.
LEMMA SoundAfterRun ==
  ASSUME Sound, AfterRun
  PROVE  Sound'
<1> USE DEF Sound, stopVars, interruptVars
<1>0. /\ queue \in Seq(Ids) /\ taken \in Seq(Ids) /\ Once(queue) /\ Once(taken)
      /\ Apart(taken, queue) /\ Rows(taken) \subseteq Ids
      BY RowsAreIds DEF TypeOK, Placed, Apart
<1>1. /\ pc = "after" /\ pc' = "boundary" /\ taken' = <<>>
      /\ UNCHANGED <<mode, open, retained, interruptVars, stopVars, turns, runs,
                     first, outcome, sent, reserved, switched>>
      BY DEF AfterRun
<1>2. PICK gone \in SUBSET Rows(taken), end \in Fates \ {"unsent", "held"} :
        /\ Becomes(gone, end)
        /\ queue' \in Seq(Ids) /\ Once(queue')
        /\ Rows(queue') = Rows(queue) \cup (Rows(taken) \ gone)
  <2>1. CASE cancelled
    <3> DEFINE back == KeepAfterTurn(taken)
               away == Rows(TakeSteer(taken))
    <3>1. /\ back \in Seq(Ids) /\ Once(back)
          /\ Rows(back) = Rows(taken) \cap {m \in Ids : IsAfter(m)}
          BY <1>0, PickRows DEF KeepAfterTurn
    <3>2. away = Rows(taken) \cap {m \in Ids : IsSteer(m)}
          BY <1>0, PickRows DEF TakeSteer
    <3>3. queue' = back \o queue /\ Becomes(away, "dropped")
          BY <2>1 DEF AfterRun
    <3> HIDE DEF back, away
    <3>4. Apart(back, queue)
          BY <1>0, <3>1 DEF Apart
    <3>5. /\ queue' \in Seq(Ids) /\ Once(queue')
          /\ Rows(queue') = Rows(back) \cup Rows(queue)
          BY <1>0, <3>1, <3>3, <3>4, ConcatRows
    <3>6. away \in SUBSET Rows(taken) /\ Rows(back) = Rows(taken) \ away
          BY <1>0, <3>1, <3>2 DEF IsAfter, IsSteer, TypeOK, Modes
    <3>7. "dropped" \in Fates \ {"unsent", "held"}
          BY DEF Fates
    <3> QED BY <3>3, <3>5, <3>6, <3>7
  <2>2. CASE ~cancelled
    <3>1. queue' = queue /\ Becomes(Rows(taken), "refused")
          BY <2>2 DEF AfterRun
    <3>2. "refused" \in Fates \ {"unsent", "held"}
          BY DEF Fates
    <3>3. Rows(queue') = Rows(queue) \cup (Rows(taken) \ Rows(taken))
          BY <3>1
    <3> QED BY <1>0, <3>1, <3>2, <3>3
  <2> QED BY <2>1, <2>2
<1>3. Rows(taken') = {} /\ Once(taken') /\ taken' \in Seq(Ids)
      BY <1>1, NoRows
<1>4. /\ Placed' /\ fate' \in [Ids -> Fates]
      /\ \A m \in Ids : /\ fate'[m] = "unsent" => fate[m] = "unsent"
                        /\ fate'[m] = "held" => fate[m] = "held" /\ m \notin gone
  <2>1. gone \subseteq AllRows /\ UNCHANGED sent
        BY <1>1 DEF AllRows
  <2>2. /\ Once(pending')
        /\ Apart(queue', pending') /\ Apart(queue', taken') /\ Apart(pending', taken')
        BY <1>1, <1>2, <1>3 DEF Placed, Apart
  <2>3. Rows(queue') \cup Rows(pending') \cup Rows(taken') = AllRows \ gone
        BY <1>1, <1>2, <1>3 DEF Placed, Apart, AllRows
  <2> QED BY <1>2, <1>3, <2>1, <2>2, <2>3, RowsMove
<1>5. TypeOK'
      BY <1>1, <1>2, <1>3, <1>4 DEF TypeOK, Fates
<1>6. Cuttable' /\ Reserving' /\ Owning' /\ IdleQueueIsKept'
      BY <1>1 DEF Cuttable, Reserving, Owning, IdleQueueIsKept
<1>7. Retaining'
      BY <1>1, <1>4 DEF Retaining, TypeOK
<1> QED BY <1>4, <1>5, <1>6, <1>7

\* The boundary takes all steer rows, or else the oldest.
LEMMA SoundBoundaryTakes ==
  ASSUME Sound, BoundaryTakes
  PROVE  Sound'
<1> USE DEF Sound, stopVars
<1>0. /\ queue \in Seq(Ids) /\ queue # <<>> /\ Once(queue) /\ Rows(queue) \subseteq Ids
      BY RowsAreIds DEF TypeOK, Placed, BoundaryTakes
<1>1. /\ pc = "boundary" /\ pc' = "admitted" /\ outcome = "end"
      /\ taken' = BoundaryTake
      /\ queue' = Pick(queue, Ids \ Rows(BoundaryTake))
      /\ runs < MaxRuns /\ runs' = runs + 1
      /\ input' = [kind |-> "boundary", read |-> FALSE]
      /\ UNCHANGED <<mode, open, retained, installed, armed, pending, stopVars, turns,
                     first, outcome, ghostVars>>
      BY DEF BoundaryTakes, Continues, RunsLeft, Input
<1>2. /\ taken = <<>> /\ pending = <<>> /\ retained = {} /\ ~installed /\ ~armed
      BY <1>1 DEF Owning, Reserving, Retaining, Cuttable
<1>3. /\ taken' \in Seq(Ids) /\ Once(taken') /\ Rows(taken') \subseteq Rows(queue)
  <2>1. CASE TakeSteer(queue) # <<>>
    <3>1. taken' = Pick(queue, {m \in Ids : IsSteer(m)})
          BY <1>1, <2>1 DEF BoundaryTake, TakeSteer
    <3> QED BY <1>0, <3>1, PickRows
  <2>2. CASE TakeSteer(queue) = <<>>
    <3>1. Len(queue) \in Nat /\ DOMAIN queue = 1..Len(queue) /\ 1 <= Len(queue)
          BY <1>0, EmptySeq, LenProperties
    <3>2. /\ taken' \in Seq(Ids) /\ Len(taken') = 1
          /\ \A k \in 1..1 : taken'[k] = queue[k]
          BY <1>0, <1>1, <2>2, <3>1 DEF BoundaryTake
    <3>3. DOMAIN taken' = 1..1 /\ 1 \in DOMAIN queue
          BY <3>1, <3>2, LenProperties
    <3>4. Once(taken') /\ Rows(taken') \subseteq Rows(queue)
          BY <3>2, <3>3 DEF Once, Rows
    <3> QED BY <3>2, <3>4
  <2> QED BY <2>1, <2>2
<1>4. /\ queue' \in Seq(Ids) /\ Once(queue')
      /\ Rows(queue') = Rows(queue) \ Rows(taken')
  <2>1. Rows(queue') = Rows(queue) \cap (Ids \ Rows(taken'))
        BY <1>0, <1>1, PickRows
  <2> QED BY <1>0, <1>1, <2>1, PickRows
<1>5. TypeOK'
  <2>1. runs' \in 0..MaxRuns
        BY <1>1, Bounds DEF TypeOK
  <2> QED BY <1>1, <1>3, <1>4, <2>1 DEF TypeOK, ghostVars
<1>6. Placed'
  <2>1. Rows(taken) = {} /\ Rows(pending) = {}
        BY <1>2, NoRows
  <2> QED BY <1>1, <1>3, <1>4, <2>1 DEF Placed, Apart, ghostVars
<1>7. Cuttable' /\ Reserving' /\ Owning' /\ Retaining' /\ IdleQueueIsKept'
      BY <1>1, <1>2
      DEF Cuttable, Reserving, Owning, Retaining, IdleQueueIsKept, ghostVars
<1> QED BY <1>5, <1>6, <1>7

-----------------------------------------------------------------------------
(* Theorems.                                                               *)

\* Every step of the operator and of the turn keeps the invariant.
LEMMA SoundNext == Sound /\ [Next]_vars => Sound'
<1> SUFFICES ASSUME Sound, [Next]_vars PROVE Sound'
    OBVIOUS
<1>1. CASE UNCHANGED vars
  <2> USE <1>1 DEF vars, queueVars, interruptVars, stopVars, turnVars, ghostVars
  <2>1. TypeOK'
        BY DEF Sound, TypeOK
  <2>2. Placed'
        BY PlacedFrame DEF Sound
  <2>3. Cuttable' /\ Reserving' /\ Owning' /\ Retaining' /\ IdleQueueIsKept'
        BY DEF Sound, Cuttable, Reserving, Owning, Retaining, IdleQueueIsKept, IsAfter
  <2> QED BY <2>1, <2>2, <2>3 DEF Sound
<1>2. ASSUME OperatorStep PROVE Sound'
      BY <1>2, SoundOperatorQuiet, SoundEnqueue, SoundLeaving, SoundInterrupt
      DEF OperatorStep
<1>3. ASSUME TurnStep PROVE Sound'
      BY <1>3, SoundTurnQuiet, SoundLeaving, SoundEnding, SoundOpen, SoundReadInput,
         SoundFinishInterrupt, SoundAfterRun, SoundBoundaryTakes
      DEF TurnStep
<1> QED BY <1>1, <1>2, <1>3 DEF Next

\* The invariant holds in every reachable state.
THEOREM QueueIsSound == Spec => []Sound
BY SoundInit, SoundNext, PTL DEF Spec

\* Every variable keeps its type.
THEOREM TypesHold == Spec => []TypeOK
BY QueueIsSound, PTL DEF Sound

\* However messages are sent, taken back, switched, reserved, returned and read,
\* each accepted one is in exactly one place until its fate is decided.
THEOREM NothingIsLost == Spec => []InOnePlace
<1>1. Sound => InOnePlace
  <2> SUFFICES ASSUME Sound PROVE InOnePlace
      OBVIOUS
  <2> USE DEF Sound
  <2>1. /\ queue \in Seq(Ids) /\ pending \in Seq(Ids) /\ taken \in Seq(Ids)
        /\ Once(queue) /\ Once(pending) /\ Once(taken)
        /\ Apart(queue, pending) /\ Apart(queue, taken) /\ Apart(pending, taken)
        BY DEF TypeOK, Placed
  <2> DEFINE front == queue \o pending
  <2>2. /\ front \in Seq(Ids) /\ Once(front)
        /\ Rows(front) = Rows(queue) \cup Rows(pending)
        BY <2>1, ConcatRows
  <2>3. Held = front \o taken
        BY DEF Held
  <2> HIDE DEF front
  <2>4. Once(Held) /\ Rows(Held) = AllRows
    <3>1. Apart(front, taken)
          BY <2>1, <2>2 DEF Apart
    <3> QED BY <2>1, <2>2, <2>3, <3>1, ConcatRows DEF AllRows
  <2>5. AllRows = {m \in Ids : fate[m] = "held"}
        BY RowsAreIds DEF Placed, AllRows
  <2> QED BY <2>4, <2>5 DEF InOnePlace, Once
<1> QED BY <1>1, QueueIsSound, PTL

\* A turn that is over leaves nothing that was written for it.
THEOREM IdleIsClean == Spec => []IdleQueueIsKept
BY QueueIsSound, PTL DEF Sound

\* What decides the fate of a message.
LEMMA WhoDecides ==
  ASSUME [Next]_vars
  PROVE  \/ UNCHANGED fate
         \/ \E how \in Modes : Enqueue(how)
         \/ \E m \in Ids : TakeBack(m)
         \/ Clear \/ OpenQueue \/ ReadInput \/ ReadSteer \/ AfterRun
         \/ BoundaryCapped \/ Finish
<1> USE DEF ghostVars
<1>1. Stop \/ StopLands \/ CallerGone \/ TryInterrupt => UNCHANGED fate
      BY DEF Stop, StopLands, CallerGone, TryInterrupt
<1>2. ASSUME NEW m \in Ids, NEW how \in Modes, SetMode(m, how)
      PROVE  UNCHANGED fate
      BY <1>2 DEF SetMode
<1>3. SetCancel \/ AdmissionFails \/ Dispatch \/ DispatchStopped \/ Restart
        \/ RunReturns \/ FinishInterrupt \/ BoundaryEnds \/ BoundaryTakes
        \/ BoundaryCloses => UNCHANGED fate
      BY DEF SetCancel, AdmissionFails, Dispatch, DispatchStopped, Restart,
             RunReturns, FinishInterrupt, BoundaryEnds, BoundaryTakes, BoundaryCloses
<1>4. ASSUME NEW i \in BOOLEAN, Install(i) PROVE UNCHANGED fate
      BY <1>4 DEF Install
<1>5. ASSUME NEW how, RunEnds(how) PROVE UNCHANGED fate
      BY <1>5 DEF RunEnds
<1>6. UNCHANGED vars => UNCHANGED fate
      BY DEF vars
<1> QED BY <1>1, <1>2, <1>3, <1>4, <1>5, <1>6 DEF Next, OperatorStep, TurnStep

\* A close drops no row that is deferred or was reserved.
LEMMA CloseDrops ==
  ASSUME Sound, CloseQueue, NEW m \in Ids, fate'[m] = "dropped", fate[m] # "dropped"
  PROVE  IsSteer(m) /\ m \notin reserved
<1> USE DEF Sound
<1>1. m \in Rows(queue) /\ ~Kept(m)
      BY DEF CloseQueue, Becomes
<1>2. fate[m] = "held" /\ m \notin Rows(pending)
      BY <1>1 DEF Placed, Apart
<1> QED BY <1>1, <1>2 DEF Kept, IsAfter, IsSteer, Retaining, TypeOK, Modes

\* Only steer messages are dropped, and none that a continuing Stop of the same
\* turn had reserved, be it in the batch or back in the queue.
THEOREM DropsAreMeant == Spec => OnlySteerIsDropped
<1>1. ASSUME Sound, [Next]_vars, NEW m \in Ids,
             fate'[m] = "dropped", fate[m] # "dropped"
      PROVE  IsSteer(m) /\ m \notin reserved
  <2> USE DEF Sound
  <2>1. CASE BoundaryCapped \/ Finish
    <3>1. CloseQueue
          BY <2>1 DEF BoundaryCapped, Finish
    <3> QED BY <1>1, <3>1, CloseDrops
  <2>2. CASE OpenQueue
    <3>1. ~open
          BY <1>1, <2>2 DEF OpenQueue, Cuttable
    <3> QED BY <1>1, <2>2, <3>1 DEF OpenQueue, Becomes, TypeOK
  <2>3. CASE AfterRun
    <3>1. cancelled /\ m \in Rows(TakeSteer(taken))
          BY <1>1, <2>3 DEF AfterRun, Becomes
    <3>2. IsSteer(m) /\ m \in Rows(taken)
          BY <1>1, <3>1, PickRows DEF TakeSteer, TypeOK
    <3>3. fate[m] = "held" /\ m \notin Rows(pending)
          BY <1>1, <3>2 DEF Placed, Apart
    <3>4. retained = {}
          BY <1>1, <3>2, NoRows DEF Retaining
    <3> QED BY <1>1, <3>2, <3>3, <3>4 DEF Retaining
  <2>4. CASE (\E how \in Modes : Enqueue(how)) \/ (\E n \in Ids : TakeBack(n))
             \/ Clear \/ ReadInput \/ ReadSteer
    <3>1. PICK end \in Fates \ {"dropped"} : \E ms : Becomes(ms, end)
      <4>0. {"held", "takenBack", "cleared", "read"} \subseteq Fates \ {"dropped"}
            BY DEF Fates
      <4>1. ASSUME NEW how \in Modes, Enqueue(how) PROVE Becomes({sent + 1}, "held")
            BY <4>1 DEF Enqueue
      <4>2. ASSUME NEW n \in Ids, TakeBack(n) PROVE Becomes({n}, "takenBack")
            BY <4>2 DEF TakeBack
      <4>3. Clear => Becomes(Rows(queue), "cleared")
            BY DEF Clear
      <4>4. ReadInput => \E ms : Becomes(ms, "read")
            BY DEF ReadInput
      <4>5. ReadSteer => Becomes(Rows(TakeSteer(queue)), "read")
            BY DEF ReadSteer
      <4> QED BY <2>4, <4>0, <4>1, <4>2, <4>3, <4>4, <4>5
    <3> QED BY <1>1, <3>1 DEF Becomes
  <2> QED BY <1>1, <2>1, <2>2, <2>3, <2>4, WhoDecides
<1>2. Sound /\ [Next]_vars =>
        [\A m \in Ids : fate'[m] = "dropped" /\ fate[m] # "dropped"
                          => IsSteer(m) /\ m \notin reserved]_vars
      BY <1>1
<1> QED BY <1>2, QueueIsSound, PTL DEF Spec, OnlySteerIsDropped

\* While a batch is reserved the conversation takes in nothing but the batch.
THEOREM BatchesAreReadFirst == Spec => ReservedIsReadFirst
<1>1. ASSUME Sound, [Next]_vars, NEW m \in Ids, NewlyRead(m), pending # <<>>
      PROVE  m \in Rows(pending)
  <2> USE DEF Sound, NewlyRead
  <2>1. CASE ReadInput
    <3>1. Rows(taken) = {}
          BY <1>1, NoRows DEF Reserving
    <3> QED BY <1>1, <2>1, <3>1 DEF ReadInput, Becomes
  <2>2. ~ReadSteer
        BY <1>1 DEF ReadSteer, NothingReserved
  <2>3. CASE (\E how \in Modes : Enqueue(how)) \/ (\E n \in Ids : TakeBack(n))
             \/ Clear \/ OpenQueue \/ BoundaryCapped \/ Finish
        BY <1>1, <2>3
        DEF Enqueue, TakeBack, Clear, OpenQueue, BoundaryCapped, Finish, CloseQueue,
            Becomes
  <2>4. CASE AfterRun
        BY <1>1, <2>4 DEF AfterRun, Becomes
  <2> QED BY <1>1, <2>1, <2>2, <2>3, <2>4, WhoDecides
<1>2. Sound /\ [Next]_vars =>
        [\A m \in Ids : NewlyRead(m) /\ pending # <<>> => m \in Rows(pending)]_vars
      BY <1>1
<1> QED BY <1>2, QueueIsSound, PTL DEF Spec, ReservedIsReadFirst
=============================================================================
