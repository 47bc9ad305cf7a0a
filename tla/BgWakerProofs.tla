---------------------------- MODULE BgWakerProofs ----------------------------
(***************************************************************************)
(* What the waker of a session keeps, for any tasks and any budget, with   *)
(* proofs that TLAPS checks.                                               *)
(*                                                                         *)
(* The argument: a batch is in the hands of the drain loop only between    *)
(* TakeBatch and the end of its turn, a task is marked in the pool by the  *)
(* turn that was told of it, and each attempt in flight holds one unit of  *)
(* the budget that ends as a turn, as an empty run or refunded.            *)
(***************************************************************************)
EXTENDS BgWaker, TLAPS

-----------------------------------------------------------------------------
(* The inductive invariant.                                                *)

\* The drain goroutine exists while the mark is set, and only an attempt has a
\* batch: one that no turn was told of until its own turn has begun.
Handed ==
  /\ draining <=> pc # "none"
  /\ ~Attempting => batch = {}
  /\ pc = "run" => batch \cap told = {}
  /\ pc = "turn" => batch \subseteq told

\* The pool's mark says of every task it still holds whether a turn was told.
Marked ==
  /\ woke \subseteq told
  /\ told \cap held \subseteq woke

\* Only what was announced reaches the waker.
Announced == \A i \in pending \cup batch \cup told : phase[i] = "announced"

\* The turn in flight has begun and did not fail.
Booked ==
  /\ failed + (IF pc = "turn" THEN 1 ELSE 0) <= begun
  /\ BudgetIsExact

Kept == TypeOK /\ Handed /\ Marked /\ Announced /\ Booked /\ NothingVanishes

-----------------------------------------------------------------------------
(* The steps.                                                              *)

\* The new session has nothing to keep.
LEMMA KeptInit == Init => Kept
<1> SUFFICES ASSUME Init PROVE Kept
    OBVIOUS
<1>0. MaxWakes \in Nat /\ MaxAttempts \in Nat /\ MaxUserTurns \in Nat
      BY WakerAssumption DEF WakerAssumption
<1>1. TypeOK
  <2>1. userTurns \in 0..MaxUserTurns /\ wakes \in 0..MaxWakes
        /\ attempts \in 0..MaxAttempts
        BY <1>0 DEF Init
  <2> QED BY <2>1 DEF Init, TypeOK
<1>2. Handed /\ Marked /\ Announced /\ NothingVanishes
      BY DEF Init, Handed, Marked, Announced, NothingVanishes, Attempting
<1>3. Booked
      BY WakerAssumption DEF WakerAssumption, Init, Booked, BudgetIsExact, Attempting
<1> QED BY <1>1, <1>2, <1>3 DEF Kept

\* The session's turns, the tasks and the pool's closing keep it.
LEMMA SessionKeeps ==
  ASSUME Kept,
         \/ UserTurnBegins \/ UserTurnEnds \/ SetDraining
         \/ \E i \in Tasks : Launch(i) \/ Finish(i) \/ Collect(i) \/ DropTask(i)
  PROVE  Kept'
<1> USE DEF Kept, poolVars, turnVars, wakerVars, loopVars, ghostVars
<1>1. UNCHANGED <<pending, batch, told, givenUp, woke, pc, draining, wakes, begun,
                  failed, idleRuns, attempts>>
      BY DEF UserTurnBegins, UserTurnEnds, SetDraining, Launch, Finish, Collect, DropTask
<1>2. Handed' /\ Booked'
      BY <1>1 DEF Handed, Booked, BudgetIsExact, Attempting
<1>3. CASE UserTurnBegins \/ UserTurnEnds \/ SetDraining
  <2>1. UNCHANGED <<phase, held, acked>>
        BY <1>3 DEF UserTurnBegins, UserTurnEnds, SetDraining
  <2>2. MaxUserTurns \in Nat
        BY WakerAssumption DEF WakerAssumption
  <2>3. userTurns' \in 0..MaxUserTurns
        BY <1>3, <2>2 DEF TypeOK, UserTurnBegins, UserTurnEnds, SetDraining
  <2>4. TypeOK'
        BY <1>1, <1>3, <2>1, <2>3
        DEF TypeOK, UserTurnBegins, UserTurnEnds, SetDraining
  <2> QED BY <1>1, <1>2, <2>1, <2>4 DEF Marked, Announced, NothingVanishes
<1>4. ASSUME NEW i \in Tasks, Launch(i) \/ Finish(i) \/ Collect(i) \/ DropTask(i)
      PROVE  TypeOK' /\ Marked' /\ Announced' /\ NothingVanishes'
  <2>1. TypeOK'
        BY <1>1, <1>4 DEF TypeOK, Launch, Finish, Collect, DropTask
  <2>2. phase' \in [Tasks -> {"unstarted", "running", "finished", "announced"}]
        /\ \A j \in Tasks : phase'[j] = "announced" <=> phase[j] = "announced"
        BY <1>4, <2>1 DEF TypeOK, Launch, Finish, Collect, DropTask
  <2>3. Announced'
        BY <1>1, <2>2 DEF Announced, TypeOK
  <2>4. CASE Launch(i)
    <3>1. i \notin told
          BY <2>4 DEF Launch, Announced
    <3>2. Marked'
          BY <1>1, <2>4, <3>1 DEF Launch, Marked
    <3>3. NothingVanishes'
          BY <1>1, <2>2, <2>4 DEF Launch, NothingVanishes
    <3> QED BY <2>1, <2>3, <3>2, <3>3
  <2>5. CASE Finish(i) \/ Collect(i) \/ DropTask(i)
    <3>1. Marked' /\ NothingVanishes'
          BY <1>1, <2>2, <2>5 DEF Finish, Collect, DropTask, Marked, NothingVanishes
    <3> QED BY <2>1, <2>3, <3>1
  <2> QED BY <1>4, <2>4, <2>5
<1> QED BY <1>2, <1>3, <1>4

\* The arrival of a snapshot keeps it.
LEMMA SnapshotKeeps ==
  ASSUME Kept, NEW i \in Tasks, OnSnapshot(i)
  PROVE  Kept'
<1> USE DEF Kept, OnSnapshot, turnVars, ghostVars
<1>1. TypeOK'
      BY DEF TypeOK
<1>2. \A j \in Tasks : phase'[j] = IF j = i THEN "announced" ELSE phase[j]
      BY DEF TypeOK
<1>3. Handed'
      BY DEF Handed, Attempting
<1>4. Announced'
      BY <1>2 DEF Announced, TypeOK
<1>5. NothingVanishes'
      BY <1>2 DEF NothingVanishes
<1>6. Booked'
      BY DEF Booked, BudgetIsExact, Attempting, Handed
<1> QED BY <1>1, <1>3, <1>4, <1>5, <1>6 DEF Marked

\* The drain loop keeps the types.
LEMMA DrainTyped ==
  ASSUME Kept, DrainStep
  PROVE  TypeOK'
<1> USE DEF Kept, TypeOK, poolVars, turnVars, wakerVars, loopVars, ghostVars
<1>0. MaxWakes \in Nat /\ MaxAttempts \in Nat
      BY WakerAssumption DEF WakerAssumption
<1>1. CASE TakeNothing \/ TakeCapped \/ Absorb \/ RunEnds \/ DrainReturns
      BY <1>1 DEF TakeNothing, TakeCapped, Absorb, RunEnds, DrainReturns
<1>5. CASE Filter
      BY <1>5 DEF Filter, Unclaimed
<1>6. CASE RunBegins
      BY <1>6 DEF RunBegins
<1>7. CASE RunAtShutdown
      BY <1>7 DEF RunAtShutdown
<1>2. CASE TakeBatch
      BY <1>0, <1>2 DEF TakeBatch, Spent
<1>3. CASE RunBusy
      BY <1>0, <1>3 DEF RunBusy
<1>4. CASE AttemptAtShutdown \/ FilterToNothing \/ RunAbandoned \/ RunRefused \/ RunErrs
  <2>1. wakes' \in 0..MaxWakes
        BY <1>0, <1>4 DEF AttemptAtShutdown, FilterToNothing, RunAbandoned, RunRefused,
                          RunErrs, GiveUp, Refund
  <2> QED BY <1>4, <2>1 DEF AttemptAtShutdown, FilterToNothing, RunAbandoned,
                            RunRefused, RunErrs, GiveUp
<1> QED BY <1>1, <1>2, <1>3, <1>4, <1>5, <1>6, <1>7 DEF DrainStep

\* The drain loop keeps its books.
LEMMA DrainBooked ==
  ASSUME Kept, DrainStep
  PROVE  Booked'
<1> USE DEF Kept, TypeOK, Booked, BudgetIsExact, Attempting,
            poolVars, turnVars, wakerVars, loopVars, ghostVars
<1>0. MaxWakes \in Nat
      BY WakerAssumption DEF WakerAssumption
<1>1. CASE TakeNothing \/ TakeCapped \/ Absorb \/ Filter \/ RunBusy \/ DrainReturns
      BY <1>1 DEF TakeNothing, TakeCapped, Absorb, Filter, RunBusy, DrainReturns
<1>2. CASE TakeBatch
      BY <1>0, <1>2 DEF TakeBatch, Spent
<1>3. CASE RunBegins \/ RunAtShutdown \/ RunEnds
      BY <1>3 DEF RunBegins, RunAtShutdown, RunEnds
<1>4. CASE AttemptAtShutdown \/ FilterToNothing \/ RunAbandoned \/ RunRefused
  <2>1. pc \in {"attempt", "filter", "run"} /\ pc' \in {"return", "settle"} /\ Refund
        /\ UNCHANGED <<begun, failed, idleRuns>>
        BY <1>4 DEF AttemptAtShutdown, FilterToNothing, RunAbandoned, RunRefused, GiveUp
  <2>2. wakes = (begun - failed) + idleRuns + 1 /\ failed <= begun
        BY <2>1
  <2>3. wakes' = wakes - 1
        BY <2>1, <2>2 DEF Refund
  <2> QED BY <1>0, <2>1, <2>2, <2>3
<1>5. CASE RunErrs
  <2>1. wakes = (begun - failed) + idleRuns /\ failed + 1 <= begun
        BY <1>5 DEF RunErrs
  <2>2. wakes' = wakes - 1
        BY <1>5, <2>1 DEF RunErrs, Refund
  <2> QED BY <1>0, <1>5, <2>1, <2>2 DEF RunErrs
<1> QED BY <1>1, <1>2, <1>3, <1>4, <1>5 DEF DrainStep

\* The drain loop hands each outcome on.
LEMMA DrainHands ==
  ASSUME Kept, DrainStep
  PROVE  Handed' /\ Marked' /\ Announced' /\ NothingVanishes'
<1> USE DEF Kept, poolVars, turnVars, wakerVars, loopVars, ghostVars,
            Handed, Marked, Announced, NothingVanishes, Attempting
<1>0. UNCHANGED <<phase, held, acked>>
      BY DEF DrainStep, TakeNothing, TakeCapped, TakeBatch, AttemptAtShutdown, Absorb,
             FilterToNothing, Filter, RunBusy, RunAbandoned, RunBegins, RunRefused,
             RunAtShutdown, RunEnds, RunErrs, DrainReturns
<1>1. CASE TakeNothing \/ TakeCapped \/ TakeBatch
      BY <1>0, <1>1 DEF TakeNothing, TakeCapped, TakeBatch
<1>2. CASE AttemptAtShutdown \/ Absorb
      BY <1>0, <1>2 DEF AttemptAtShutdown, GiveUp, Absorb
<1>3. CASE FilterToNothing \/ Filter
  <2>1. \A i \in batch : i \notin Unclaimed(batch) => i \notin held \/ i \in acked \cup told
        BY DEF Unclaimed, WakePending, Finished
  <2>2. \A i \in Unclaimed(batch) : i \in batch /\ i \notin told
        BY DEF Unclaimed, WakePending
  <2> QED BY <1>0, <1>3, <2>1, <2>2 DEF FilterToNothing, Filter
<1>4. CASE RunBusy \/ RunAbandoned \/ RunRefused \/ RunAtShutdown
      BY <1>0, <1>4 DEF RunBusy, RunAbandoned, RunRefused, RunAtShutdown, GiveUp
<1>5. CASE RunBegins
      BY <1>0, <1>5 DEF RunBegins
<1>6. CASE RunEnds \/ RunErrs \/ DrainReturns
      BY <1>0, <1>6 DEF RunEnds, RunErrs, DrainReturns
<1> QED BY <1>1, <1>2, <1>3, <1>4, <1>5, <1>6 DEF DrainStep

\* Every step keeps the invariant.
LEMMA KeptNext == Kept /\ [Next]_vars => Kept'
<1> SUFFICES ASSUME Kept, [Next]_vars PROVE Kept'
    OBVIOUS
<1>1. CASE DrainStep
      BY <1>1, DrainTyped, DrainBooked, DrainHands DEF Kept
<1>2. CASE \E i \in Tasks : OnSnapshot(i)
      BY <1>2, SnapshotKeeps
<1>3. CASE \/ UserTurnBegins \/ UserTurnEnds \/ SetDraining
           \/ \E i \in Tasks : Launch(i) \/ Finish(i) \/ Collect(i) \/ DropTask(i)
      BY <1>3, SessionKeeps
<1>4. CASE UNCHANGED vars
      BY <1>4 DEF vars, poolVars, turnVars, wakerVars, loopVars, ghostVars, Kept, TypeOK,
         Handed, Marked, Announced, Booked, BudgetIsExact, NothingVanishes, Attempting
<1> QED BY <1>1, <1>2, <1>3, <1>4 DEF Next

-----------------------------------------------------------------------------
(* What the waker keeps.                                                   *)

\* The inductive invariant of the waker.
THEOREM WakerKept == Spec => []Kept
BY KeptInit, KeptNext, PTL DEF Spec

\* The type invariant: the budget never leaves 0..maxWakesPerSession and the
\* retries never pass the deadline.
THEOREM TypeCorrect == Spec => []TypeOK
<1>1. Kept => TypeOK
      BY DEF Kept
<1> QED BY <1>1, WakerKept, PTL

\* No outcome vanishes without a trace, through any interleaving of the pool,
\* the operator, the drain loop and shutdown.
THEOREM OutcomesLeaveATrace == Spec => []NothingVanishes
<1>1. Kept => NothingVanishes
      BY DEF Kept
<1> QED BY <1>1, WakerKept, PTL

\* The wake budget counts exactly the woken turns that did not fail, the runs
\* that shutdown made empty and the attempt in flight; refundWake's guard on
\* zero is never what decides.
THEOREM BudgetIsKept == Spec => []BudgetIsExact
<1>1. Kept => BudgetIsExact
      BY DEF Kept, Booked
<1> QED BY <1>1, WakerKept, PTL

\* An outcome opens at most one woken turn.
THEOREM NoSecondWake == Spec => WokenOnce
<1>1. Kept /\ [Next]_vars => [begun' = begun + 1 => batch \cap told = {}]_vars
  <2> SUFFICES ASSUME Kept, Next, begun' = begun + 1 PROVE batch \cap told = {}
      OBVIOUS
  <2>1. begun \in Nat
        BY DEF Kept, TypeOK
  <2>2. CASE RunBegins
        BY <2>2 DEF RunBegins, Kept, Handed
  <2>3. CASE UNCHANGED begun
        BY <2>1, <2>3
  <2>4. RunBegins \/ UNCHANGED begun
        BY DEF Next, DrainStep, TakeNothing, TakeCapped, TakeBatch, AttemptAtShutdown,
           Absorb, FilterToNothing, Filter, RunBusy, RunAbandoned, RunRefused, GiveUp,
           RunAtShutdown, RunEnds, RunErrs, DrainReturns, UserTurnBegins, UserTurnEnds,
           SetDraining, Launch, Finish, Collect, DropTask, OnSnapshot, ghostVars
  <2> QED BY <2>2, <2>3, <2>4
<1> QED BY <1>1, WakerKept, PTL DEF Spec, WokenOnce

-----------------------------------------------------------------------------
(* What the waker takes the pool to do.                                    *)

\* Every step of the session and its waker does to the tasks what the contract
\* of a pool allows, or nothing.
LEMMA PoolStep == [Next]_vars => [Pool!Next]_(Pool!vars)
<1> SUFFICES ASSUME [Next]_vars PROVE [Pool!Next]_(Pool!vars)
    OBVIOUS
<1> USE DEF Pool!Next, Pool!vars, poolVars
<1>1. CASE DrainStep \/ UserTurnBegins \/ UserTurnEnds \/ UNCHANGED vars
  <2>1. UNCHANGED <<phase, held, poolDraining>>
        BY <1>1 DEF DrainStep, TakeNothing, TakeCapped, TakeBatch, AttemptAtShutdown,
           Absorb, FilterToNothing, Filter, RunBusy, RunAbandoned, RunBegins, RunRefused,
           RunAtShutdown, RunEnds, RunErrs, DrainReturns, UserTurnBegins, UserTurnEnds,
           vars
  <2> QED BY <2>1
<1>2. CASE SetDraining
      BY <1>2 DEF SetDraining, Pool!OpenOrClose
<1>3. ASSUME NEW i \in Tasks, Launch(i) \/ Finish(i) \/ OnSnapshot(i)
      PROVE  Pool!Start(i) \/ Pool!Finish(i) \/ Pool!Announce(i)
      BY <1>3 DEF Launch, Finish, OnSnapshot, Pool!Start, Pool!Finish, Pool!Announce
<1>4. ASSUME NEW i \in Tasks, Collect(i)
      PROVE  UNCHANGED <<phase, held, poolDraining>>
      BY <1>4 DEF Collect
<1>5. ASSUME NEW i \in Tasks, DropTask(i)
      PROVE  \E gone \in SUBSET Tasks : Pool!Drop(gone)
  <2>1. Pool!Drop({i})
        BY <1>5 DEF DropTask, Pool!Drop, Finished
  <2> QED BY <2>1
<1> QED BY <1>1, <1>2, <1>3, <1>4, <1>5 DEF Next

\* The waker assumes of the pool no more than the contract that BgPool keeps
\* (BgPoolContract, PoolKeepsTheContract).
THEOREM WakerTrustsTheContract == Spec => AssumesTheContract
<1>1. Init => Pool!Init
      BY DEF Init, Pool!Init
<1> QED BY <1>1, PoolStep, PTL DEF Spec, AssumesTheContract, Pool!Spec
=============================================================================
