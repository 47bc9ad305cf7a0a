----------------------- MODULE KimiCredentialsProofs -----------------------
(***************************************************************************)
(* What the credential store keeps for every number of users, tokens and   *)
(* logins, over every crash, failed write and power loss, with proofs that *)
(* TLAPS checks.                                                           *)
(*                                                                         *)
(* The argument: nothing is known of a user without the lock but what it   *)
(* brings along (a token from a device login).  Of the holder of the lock  *)
(* we know how far it is in its plan, and which of the two copies of the   *)
(* store, what processes see and what a power loss would leave, are ahead. *)
(***************************************************************************)
EXTENDS KimiCredentials, SequenceTheorems, TLAPS

-----------------------------------------------------------------------------
(* Types.                                                                  *)

Store == [cred : Creds, intent : Nat, login : 0..MaxAttempts]

Changes == [file : {"cred", "intent", "login"}, to : Creds \cup Nat]

UserStates ==
  [pc : {"idle", "load", "loadIntent", "ticket", "acquire", "write", "sync",
         "send", "device"},
   op : {"none", "refresh", "ticket", "logout", "begin", "complete", "cancel",
         "commit", "tombstone"},
   force : BOOLEAN, cred : Creds, read : Creds,
   attempt : 0..MaxAttempts, new : 0..MaxTokens, todo : Seq(Changes)]

FilesTyped == disk \in Store /\ flushed \in Store

CountsTyped ==
  /\ issued \in 0..MaxTokens /\ attempts \in 0..MaxAttempts
  /\ due \subseteq Tokens /\ sent \subseteq 1..issued
  /\ from \in [Tokens -> 0..MaxAttempts] /\ barrier \in 0..attempts

InHand(u) == user[u].pc \in {"write", "sync", "send"}

Reads(r) == r.pc \in {"load", "loadIntent"} => r.op \in {"refresh", "ticket"}

UsersTyped ==
  /\ user \in [Users -> UserStates]
  /\ lock \in Users \cup {NoUser}
  /\ \A u \in Users : Reads(user[u]) /\ ((lock = u) <=> InHand(u))

Typed == FilesTyped /\ CountsTyped /\ UsersTyped

-----------------------------------------------------------------------------
(* The store.                                                              *)

\* Whatever a power loss makes of the files, no spent token looks valid,
\* and what is stored descends from a login begun after the last logout.
Stored ==
  /\ \A c \in {disk.cred, flushed.cred} :
       /\ \A i \in {disk.intent, flushed.intent} : Valid(c, i) => c.tok \notin sent
       /\ c.tok # 0 => c.tok <= issued /\ from[c.tok] > barrier
  /\ \A l \in {disk.login, flushed.login} : l # 0 => l > barrier

\* Generations grow, but for a logout.
Ahead ==
  \/ disk.cred = flushed.cred
  \/ disk.cred.gen > flushed.cred.gen
  \/ disk.cred = NoCred

-----------------------------------------------------------------------------
(* The users.                                                              *)

\* A token that a device login brought is nobody else's.
Brought ==
  \A u \in Users :
    /\ user[u].new <= issued
    /\ \A v \in Users : u # v /\ user[u].new # 0 => user[u].new # user[v].new
    /\ At(u, "acquire") /\ user[u].op = "complete" =>
         /\ user[u].new # 0
         /\ user[u].new \notin sent \cup {disk.cred.tok, flushed.cred.tok}
         /\ from[user[u].new] = user[u].attempt

\* A token nobody sent, that may be stored.
Unused(t) ==
  /\ t \in 0..issued /\ t \notin sent
  /\ t # 0 => from[t] > barrier

RefreshPlan(me) ==
  /\ me.op = "refresh"
  /\ me.todo = <<Put("intent", me.cred.gen + 1)>>
  /\ me.cred = disk.cred /\ Usable(me.cred) /\ me.cred.tok \notin sent

OutcomePlan(me) ==
  /\ me.op \in {"commit", "tombstone"}
  /\ \/ \E t \in 0..issued :
          /\ me.todo = <<Put("cred", [gen |-> me.cred.gen + 1, tok |-> t]),
                         Put("intent", 0)>>
          /\ Unused(t) /\ \A v \in Users : t # 0 => user[v].new # t
          /\ flushed.cred = me.cred
          /\ me.pc = "write" => disk.cred = me.cred
     \/ /\ me.todo = <<Put("intent", 0)>>
        /\ disk.cred = flushed.cred /\ disk.cred.tok \notin sent

LogoutPlan(me) ==
  /\ me.op = "logout"
  /\ \/ me.todo = LogoutSteps
     \/ /\ me.todo = <<Put("cred", NoCred), Put("intent", 0)>>
        /\ disk.login = 0 /\ flushed.login = 0
     \/ /\ me.todo = <<Put("intent", 0)>>
        /\ disk.login = 0 /\ flushed.login = 0
        /\ disk.cred = NoCred /\ flushed.cred = NoCred

LoginPlan(me) ==
  /\ me.op = "complete"
  /\ me.new # 0 /\ Unused(me.new)
  /\ \/ \E g \in Nat :
          /\ me.todo = <<Put("login", 0), Put("cred", [gen |-> g, tok |-> me.new]),
                         Put("intent", 0)>>
          /\ g > disk.cred.gen
     \/ \E g \in Nat :
          /\ me.todo = <<Put("cred", [gen |-> g, tok |-> me.new]), Put("intent", 0)>>
          /\ g > flushed.cred.gen
          /\ me.pc = "write" => disk.cred = flushed.cred
     \/ /\ me.todo = <<Put("intent", 0)>>
        /\ disk.cred = flushed.cred
        /\ disk.cred.tok = me.new /\ disk.cred.gen # 0

MarkPlan(me) ==
  \/ /\ me.op = "begin" /\ me.todo = <<Put("login", me.attempt)>>
     /\ me.attempt > barrier
  \/ me.op = "cancel" /\ me.todo = <<Put("login", 0)>>

\* What is known of a user who changes the store.
Writing(me) ==
  /\ RefreshPlan(me) \/ OutcomePlan(me) \/ LogoutPlan(me) \/ LoginPlan(me)
     \/ MarkPlan(me)
  /\ me.pc = "sync" => disk[Head(me.todo).file] = Head(me.todo).to

\* What is known of one whose request is about to go out.
Sending(me) ==
  /\ me.op = "refresh"
  /\ disk = flushed /\ me.cred = disk.cred
  /\ disk.intent = me.cred.gen + 1
  /\ Usable(me.cred) /\ me.cred.tok \notin sent

Plans ==
  \A u \in Users :
    /\ user[u].pc \in {"write", "sync"} => Writing(user[u])
    /\ At(u, "send") => Sending(user[u])

Kept == Typed /\ Stored /\ Ahead /\ Brought /\ Plans

-----------------------------------------------------------------------------
(* One user moves.                                                         *)

\* What a list of one, two and three changes is made of.
LEMMA Lists ==
  ASSUME NEW a, NEW b, NEW c
  PROVE  /\ Head(<<a>>) = a /\ Len(<<a>>) = 1
         /\ Head(<<a, b>>) = a /\ Len(<<a, b>>) = 2 /\ Tail(<<a, b>>) = <<b>>
         /\ Head(<<a, b, c>>) = a /\ Len(<<a, b, c>>) = 3
         /\ Tail(<<a, b, c>>) = <<b, c>>
OBVIOUS

\* A list of changes of the files is one that a user can work off.
LEMMA ListsTyped ==
  ASSUME NEW a \in Changes, NEW b \in Changes, NEW c \in Changes
  PROVE  <<>> \in Seq(Changes) /\ <<a>> \in Seq(Changes)
         /\ <<a, b>> \in Seq(Changes) /\ <<a, b, c>> \in Seq(Changes)
OBVIOUS

\* The empty list too.
LEMMA NothingTyped == <<>> \in Seq(Changes)
OBVIOUS

\* The change of one file.
LEMMA PutTyped ==
  /\ \A g \in Nat : Put("intent", g) \in Changes /\ Put("login", g) \in Changes
  /\ \A c \in Creds : Put("cred", c) \in Changes
BY DEF Put, Changes

\* An idle user is a user state, and no credential is a credential.
LEMMA IdleTyped ==
  NoCred \in Creds /\ Idle \in UserStates /\ Idle.pc = "idle" /\ Idle.new = 0
  /\ Idle.cred = NoCred /\ Idle.read = NoCred /\ Idle.todo = <<>>
  /\ Idle.attempt = 0 /\ Idle.force = FALSE
BY KimiAssumption DEF KimiAssumption, Idle, UserStates, Creds, NoCred

\* A user moves: the others stay as they are, and the lock is held by
\* whoever changes the store.
LEMMA OneMoves ==
  ASSUME UsersTyped, NEW u \in Users, NEW r \in UserStates,
         user' = [user EXCEPT ![u] = r], Reads(r),
         lock \in {u, NoUser} \/ lock' = lock,
         IF r.pc \in {"write", "sync", "send"} THEN lock' = u
         ELSE lock' = IF lock = u THEN NoUser ELSE lock
  PROVE  /\ UsersTyped'
         /\ user'[u] = r /\ \A v \in Users : v # u => user'[v] = user[v]
<1>1. user' \in [Users -> UserStates]
      BY DEF UsersTyped
<1>2. user'[u] = r /\ \A v \in Users : v # u => user'[v] = user[v]
      BY DEF UsersTyped
<1>3. lock' \in Users \cup {NoUser}
      BY DEF UsersTyped
<1>4. \A v \in Users : Reads(user[v])' /\ ((lock' = v) <=> InHand(v)')
      BY <1>2, KimiAssumption DEF KimiAssumption, UsersTyped, InHand, Reads
<1> QED BY <1>1, <1>2, <1>3, <1>4 DEF UsersTyped

\* Nobody but the holder of the lock is in the middle of a change.
LEMMA Alone ==
  ASSUME UsersTyped, NEW u \in Users, lock \in {u, NoUser}
  PROVE  \A v \in Users : v # u => ~InHand(v)
BY KimiAssumption DEF KimiAssumption, UsersTyped

\* A user that moves without touching the store keeps everything, if what it
\* starts is the first step of a plan.
LEMMA QuietMove ==
  ASSUME Kept, NEW u \in Users, NEW r \in UserStates,
         user' = [user EXCEPT ![u] = r], Reads(r),
         UNCHANGED <<files, issued, attempts, due, ghosts>>,
         IF r.pc = "write" THEN lock = NoUser /\ lock' = u
         ELSE lock' = IF lock = u THEN NoUser ELSE lock,
         r.pc \notin {"sync", "send"},
         r.new = user[u].new \/ r.new = 0,
         r.pc = "write" => \/ RefreshPlan(r) \/ LogoutPlan(r)
                           \/ LoginPlan(r) \/ MarkPlan(r),
         r.pc = "acquire" => r.op # "complete"
                             \/ (At(u, "acquire") /\ user[u].op = "complete"
                                 /\ r.new = user[u].new
                                 /\ r.attempt = user[u].attempt)
  PROVE  Kept'
<1> USE DEF Kept, Typed, files, ghosts
<1>1. /\ UsersTyped'
      /\ user'[u] = r /\ \A v \in Users : v # u => user'[v] = user[v]
      BY OneMoves
<1>2. FilesTyped' /\ CountsTyped'
      BY DEF FilesTyped, CountsTyped
<1>3. Stored' /\ Ahead'
      BY DEF Stored, Ahead
<1>4. Brought'
  <2>1. \A w \in Users : user'[w].new = user[w].new \/ user'[w].new = 0
        BY <1>1
  <2>2. \A w \in Users :
          user'[w].new <= issued'
          /\ \A v \in Users : w # v /\ user'[w].new # 0 => user'[w].new # user'[v].new
        BY <2>1 DEF Brought, CountsTyped
  <2>3. \A w \in Users :
          At(w, "acquire")' /\ user'[w].op = "complete" =>
            /\ user'[w].new = user[w].new /\ user'[w].attempt = user[w].attempt
            /\ At(w, "acquire") /\ user[w].op = "complete"
        BY <1>1 DEF At
  <2> QED BY <2>2, <2>3 DEF Brought
<1>5. Plans'
  <2>1. r.pc = "write" => Writing(r)'
        BY DEF Writing, RefreshPlan, LogoutPlan, LoginPlan, MarkPlan, Unused
  <2>2. ASSUME NEW v \in Users, v # u,
               user[v].pc \in {"write", "sync"}
        PROVE  Writing(user[v])'
        BY <2>2, <1>1 DEF Plans, Writing, RefreshPlan, OutcomePlan, LogoutPlan,
           LoginPlan, MarkPlan, Unused, Brought
  <2>3. ASSUME NEW v \in Users, v # u, At(v, "send")
        PROVE  Sending(user[v])'
        BY <2>3, <1>1 DEF Plans, Sending, At
  <2> QED BY <1>1, <2>1, <2>2, <2>3 DEF Plans, At
<1> QED BY <1>1, <1>2, <1>3, <1>4, <1>5

-----------------------------------------------------------------------------
(* The steps.                                                              *)

\* The empty store keeps everything.
LEMMA KeptInit == Init => Kept
<1> SUFFICES ASSUME Init PROVE Kept
    OBVIOUS
<1> USE DEF Init
<1>1. FilesTyped
      BY IdleTyped, KimiAssumption
      DEF KimiAssumption, FilesTyped, Store, NoFiles
<1>2. CountsTyped
      BY KimiAssumption DEF KimiAssumption, CountsTyped
<1>3. UsersTyped
      BY IdleTyped, KimiAssumption DEF KimiAssumption, UsersTyped, InHand, Reads
<1>4. Stored /\ Ahead
      BY DEF Stored, Ahead, NoFiles, NoCred, Valid, Usable
<1>5. Brought /\ Plans
      BY IdleTyped DEF Brought, Plans, At
<1> QED BY <1>1, <1>2, <1>3, <1>4, <1>5 DEF Kept, Typed

\* What a user is known to be, field by field.
LEMMA Fields ==
  ASSUME Typed, NEW u \in Users
  PROVE  /\ user[u] \in UserStates
         /\ disk \in Store /\ disk.cred \in Creds /\ disk.intent \in Nat
         /\ disk.cred.gen \in Nat /\ disk.cred.tok \in 0..MaxTokens
         /\ issued \in Nat /\ attempts \in Nat /\ MaxTokens \in Nat
BY KimiAssumption DEF KimiAssumption, Typed, FilesTyped, CountsTyped, UsersTyped,
   Store, Creds

\* A user that gives up, is done, fails or dies drops its plan and its lock.
LEMMA KeptEnd ==
  ASSUME Kept, NEW u \in Users, End(u),
         UNCHANGED <<files, issued, attempts, due, ghosts>>
  PROVE  Kept'
<1>1. user' = [user EXCEPT ![u] = Idle]
      /\ lock' = IF lock = u THEN NoUser ELSE lock
      BY DEF End, Leave
<1> DEFINE r == Idle
<1>2. r \in UserStates /\ r.pc = "idle" /\ r.new = 0
      /\ user' = [user EXCEPT ![u] = r]
      BY <1>1, IdleTyped
<1> HIDE DEF r
<1> QED BY <1>1, <1>2, QuietMove DEF Reads

\* The calls and the reads without the lock change only the user.
LEMMA KeptRead ==
  ASSUME Kept, NEW u \in Users,
         \/ CallToken(u) \/ LoadCred(u) \/ LoadIntent(u) \/ Rejected(u)
         \/ CallLogout(u) \/ CallLogin(u) \/ Abandon(u)
  PROVE  Kept'
<1>0. /\ user[u] \in UserStates /\ disk.cred \in Creds
      /\ lock # u \/ user[u].pc \in {"write", "sync", "send"}
      BY Fields DEF Kept, Typed, UsersTyped, InHand
<1>1. CASE CallToken(u)
  <2> DEFINE r == [Idle EXCEPT !.pc = IF NeedsRefresh(disk.cred, FALSE) THEN "acquire"
                                     ELSE "load",
                               !.op = "refresh", !.cred = disk.cred]
  <2>1. r \in UserStates /\ r.pc \in {"acquire", "load"} /\ r.op = "refresh" /\ r.new = 0
        BY <1>0, IdleTyped DEF UserStates
  <2>2. user' = [user EXCEPT ![u] = r]
        BY <1>1 DEF CallToken
  <2> HIDE DEF r
  <2> QED BY <1>0, <1>1, <2>1, <2>2, QuietMove DEF CallToken, At, Reads
<1>2. CASE LoadCred(u)
  <2> DEFINE r == user'[u]
  <2>1. /\ r \in UserStates /\ r.pc \in {"idle", "acquire", "loadIntent"}
        /\ r.new = user[u].new \/ r.new = 0
        /\ r.pc \in {"acquire", "loadIntent"} => r.op = user[u].op
        /\ user' = [user EXCEPT ![u] = r]
        BY <1>0, <1>2, IdleTyped
        DEF LoadCred, Kept, Typed, UsersTyped, UserStates, Reads, At
  <2>2. user[u].op \in {"refresh", "ticket"}
        BY <1>2 DEF LoadCred, Kept, Typed, UsersTyped, Reads, At
  <2> HIDE DEF r
  <2> QED BY <1>0, <1>2, <2>1, <2>2, QuietMove DEF LoadCred, At, Reads
<1>3. CASE LoadIntent(u)
  <2> DEFINE r == user'[u]
  <2>1. user[u].op \in {"refresh", "ticket"}
        BY <1>3 DEF LoadIntent, Kept, Typed, UsersTyped, Reads, At
  <2>2. /\ r \in UserStates /\ r.pc \in {"idle", "acquire", "load", "ticket"}
        /\ r.new = user[u].new \/ r.new = 0
        /\ r.pc \in {"acquire", "load"} => r.op \in {"refresh", "ticket"}
        /\ user' = [user EXCEPT ![u] = r]
        BY <1>0, <1>3, <2>1, IdleTyped
        DEF LoadIntent, Kept, Typed, UsersTyped, UserStates
  <2> HIDE DEF r
  <2> QED BY <1>0, <1>3, <2>2, QuietMove DEF LoadIntent, At, Reads
<1>4. CASE Rejected(u)
  <2> DEFINE r == [user[u] EXCEPT !.pc = "acquire", !.op = "refresh", !.force = TRUE]
  <2>1. /\ r \in UserStates /\ r.pc = "acquire" /\ r.op = "refresh"
        /\ r.new = user[u].new /\ user' = [user EXCEPT ![u] = r]
        BY <1>0, <1>4 DEF Rejected, UserStates, Kept, Typed, UsersTyped
  <2> HIDE DEF r
  <2> QED BY <1>0, <1>4, <2>1, QuietMove DEF Rejected, At, Reads
<1>5. CASE CallLogout(u)
  <2> DEFINE r == [Idle EXCEPT !.pc = "acquire", !.op = "logout"]
  <2>1. /\ r \in UserStates /\ r.pc = "acquire" /\ r.op = "logout"
        /\ r.new = 0 /\ user' = [user EXCEPT ![u] = r]
        BY <1>5, IdleTyped DEF CallLogout, UserStates
  <2> HIDE DEF r
  <2> QED BY <1>0, <1>5, <2>1, QuietMove DEF CallLogout, At, Reads
<1>6. CASE CallLogin(u)
  <2> DEFINE r == [Idle EXCEPT !.pc = "acquire", !.op = "begin"]
  <2>1. /\ r \in UserStates /\ r.pc = "acquire" /\ r.op = "begin"
        /\ r.new = 0 /\ user' = [user EXCEPT ![u] = r]
        BY <1>6, IdleTyped DEF CallLogin, UserStates
  <2> HIDE DEF r
  <2> QED BY <1>0, <1>6, <2>1, QuietMove DEF CallLogin, At, Reads
<1>7. CASE Abandon(u)
  <2> DEFINE r == [user[u] EXCEPT !.pc = "acquire", !.op = "cancel"]
  <2>1. /\ r \in UserStates /\ r.pc = "acquire" /\ r.op = "cancel"
        /\ r.new = user[u].new /\ user' = [user EXCEPT ![u] = r]
        BY <1>0, <1>7 DEF Abandon, UserStates, Kept, Typed, UsersTyped
  <2> HIDE DEF r
  <2> QED BY <1>0, <1>7, <2>1, QuietMove DEF Abandon, At, Reads
<1> QED BY <1>1, <1>2, <1>3, <1>4, <1>5, <1>6, <1>7

\* A caller that has its answer goes on without the lock.
LEMMA KeptAnswer ==
  ASSUME Kept, NEW u \in Users, NEW c \in Creds, Answer(u, c),
         UNCHANGED <<files, issued, attempts, due, ghosts>>
  PROVE  Kept'
<1> DEFINE r == IF user[u].force THEN Idle
                ELSE [Idle EXCEPT !.pc = "load", !.op = "ticket", !.cred = c]
<1>1. /\ r \in UserStates /\ r.pc \in {"idle", "load"} /\ r.new = 0
      /\ r.pc = "load" => r.op = "ticket"
      BY IdleTyped DEF UserStates
<1>2. user' = [user EXCEPT ![u] = r] /\ lock' = IF lock = u THEN NoUser ELSE lock
      BY DEF Answer, Leave
<1> HIDE DEF r
<1> QED BY <1>1, <1>2, QuietMove DEF Reads

\* The start of a plan: a refresh, a logout, the end of a login attempt.
LEMMA KeptPlan ==
  ASSUME Kept, NEW u \in Users,
         RefreshLocked(u) \/ Remove(u) \/ CancelLogin(u) \/ CompleteLogin(u)
  PROVE  Kept'
<1>0. user[u] \in UserStates /\ user \in [Users -> UserStates] /\ disk.cred \in Creds
      /\ disk.cred.gen \in Nat
      BY Fields DEF Kept, Typed, UsersTyped
<1>1. CASE RefreshLocked(u)
  <2> DEFINE c == disk.cred
             r == [user[u] EXCEPT !.pc = "write", !.cred = c,
                                  !.todo = <<Put("intent", c.gen + 1)>>]
  <2>1. CASE ~Valid(c, disk.intent)
        BY <1>1, <2>1, KeptEnd DEF RefreshLocked
  <2>2. CASE Valid(c, disk.intent) /\ Settled(user[u], c)
    <3>1. Answer(u, c)
          BY <1>1, <2>2 DEF RefreshLocked
    <3> QED BY <1>0, <1>1, <3>1, KeptAnswer DEF RefreshLocked
  <2>3. CASE Valid(c, disk.intent) /\ ~Settled(user[u], c)
    <3>1. r.todo \in Seq(Changes)
          BY <1>0, PutTyped, ListsTyped
    <3>2. /\ r \in UserStates /\ r.pc = "write" /\ r.op = "refresh" /\ r.cred = c
          /\ r.new = user[u].new /\ r.todo = <<Put("intent", r.cred.gen + 1)>>
          BY <1>0, <1>1, <3>1 DEF UserStates, RefreshLocked, Waits
    <3>3. user' = [user EXCEPT ![u] = r] /\ lock' = u /\ lock = NoUser
          BY <1>0, <1>1, <2>3 DEF RefreshLocked, Waits
    <3>4. RefreshPlan(r)
          BY <2>3, <3>2 DEF RefreshPlan, Kept, Stored, Valid
    <3> HIDE DEF r
    <3> QED BY <1>1, <3>2, <3>3, <3>4, QuietMove DEF RefreshLocked, Reads
  <2> QED BY <2>1, <2>2, <2>3
<1>2. CASE Remove(u)
  <2> DEFINE r == [user[u] EXCEPT !.pc = "write", !.op = "logout", !.todo = LogoutSteps]
  <2>1. r.todo \in Seq(Changes)
        BY <1>0, PutTyped, ListsTyped, IdleTyped DEF LogoutSteps
  <2>2. /\ r \in UserStates /\ r.pc = "write" /\ r.op = "logout"
        /\ r.new = user[u].new /\ r.todo = LogoutSteps
        BY <1>0, <2>1 DEF UserStates
  <2>3. user' = [user EXCEPT ![u] = r] /\ lock' = u /\ lock = NoUser
        BY <1>0, <1>2 DEF Remove, Plan, Waits
  <2> HIDE DEF r
  <2> QED BY <1>2, <2>2, <2>3, QuietMove DEF Remove, Reads, LogoutPlan
<1>3. CASE CancelLogin(u)
  <2>1. CASE ~Current(u)
        BY <1>3, <2>1, KeptEnd DEF CancelLogin
  <2>2. CASE Current(u)
    <3> DEFINE r == [user[u] EXCEPT !.pc = "write", !.op = "cancel",
                                    !.todo = <<Put("login", 0)>>]
    <3>1. r.todo \in Seq(Changes)
          BY <1>0, PutTyped, ListsTyped
    <3>2. /\ r \in UserStates /\ r.pc = "write" /\ r.op = "cancel"
          /\ r.new = user[u].new /\ r.todo = <<Put("login", 0)>>
          BY <1>0, <3>1 DEF UserStates
    <3>3. user' = [user EXCEPT ![u] = r] /\ lock' = u /\ lock = NoUser
          BY <1>0, <1>3, <2>2 DEF CancelLogin, Plan, Waits
    <3> HIDE DEF r
    <3> QED BY <1>3, <3>2, <3>3, QuietMove DEF CancelLogin, Reads, MarkPlan
  <2> QED BY <2>1, <2>2
<1>4. CASE CompleteLogin(u)
  <2>1. CASE ~Current(u)
        BY <1>4, <2>1, KeptEnd DEF CompleteLogin
  <2>2. CASE Current(u)
    <3> DEFINE g == LoginGeneration
               r == [user[u] EXCEPT !.pc = "write", !.op = "complete",
                                    !.todo = LoginSteps(u)]
    <3>0. g \in Nat /\ g > disk.cred.gen
          BY <1>0 DEF LoginGeneration
    <3>1. r.todo \in Seq(Changes)
      <4>1. [gen |-> g, tok |-> user[u].new] \in Creds
            BY <1>0, <3>0 DEF Creds, UserStates
      <4> QED BY <1>0, <4>1, PutTyped, ListsTyped DEF LoginSteps
    <3>2. /\ r \in UserStates /\ r.pc = "write" /\ r.op = "complete"
          /\ r.new = user[u].new /\ r.attempt = user[u].attempt
          /\ r.todo = <<Put("login", 0), Put("cred", [gen |-> g, tok |-> r.new]),
                        Put("intent", 0)>>
          BY <1>0, <3>1 DEF UserStates, LoginSteps
    <3>3. user' = [user EXCEPT ![u] = r] /\ lock' = u /\ lock = NoUser
          BY <1>0, <1>4, <2>2 DEF CompleteLogin, Plan, Waits
    <3>4. /\ user[u].new # 0 /\ user[u].new \notin sent /\ user[u].new \in 0..issued
          /\ from[user[u].new] > barrier
      <4>1. /\ user[u].new # 0 /\ user[u].new \notin sent
            /\ from[user[u].new] = user[u].attempt
            BY <1>4 DEF CompleteLogin, Waits, Kept, Brought
      <4>2. user[u].attempt > barrier
            BY <2>2 DEF Current, Kept, Stored
      <4> QED BY <1>0, <4>1, <4>2 DEF Kept, Brought, UserStates
    <3> HIDE DEF r, g
    <3>5. LoginPlan(r)
          BY <3>0, <3>2, <3>4 DEF LoginPlan, Unused
    <3> QED BY <1>4, <3>2, <3>3, <3>5, QuietMove DEF CompleteLogin, Reads
  <2> QED BY <2>1, <2>2
<1> QED BY <1>1, <1>2, <1>3, <1>4

\* A login begins: its attempt is newer than any logout.
LEMMA KeptBegin ==
  ASSUME Kept, NEW u \in Users, BeginLogin(u)
  PROVE  Kept'
<1> USE DEF Kept, Typed, files, ghosts
<1> DEFINE n == attempts + 1
           r == [user[u] EXCEPT !.pc = "write", !.attempt = n,
                                !.todo = <<Put("login", n)>>]
<1>0. /\ user[u] \in UserStates /\ user \in [Users -> UserStates]
      /\ n \in Nat /\ n \in 0..MaxAttempts /\ n > barrier
      BY Fields, KimiAssumption
      DEF KimiAssumption, UsersTyped, CountsTyped, BeginLogin
<1>1. r.todo \in Seq(Changes)
      BY <1>0, PutTyped, ListsTyped
<1>2. /\ r \in UserStates /\ r.pc = "write" /\ r.op = "begin" /\ r.attempt = n
      /\ r.new = user[u].new /\ r.todo = <<Put("login", r.attempt)>>
      BY <1>0, <1>1 DEF UserStates, BeginLogin, Waits
<1>3. user' = [user EXCEPT ![u] = r] /\ lock' = u /\ lock = NoUser
      BY <1>0 DEF BeginLogin, Waits
<1>9. UNCHANGED <<disk, flushed, issued, due, sent, from, barrier>>
      BY DEF BeginLogin
<1> HIDE DEF r, n
<1>4. /\ UsersTyped'
      /\ user'[u] = r /\ \A v \in Users : v # u => user'[v] = user[v]
      BY <1>2, <1>3, OneMoves DEF Reads
<1>5. FilesTyped' /\ CountsTyped'
      BY <1>0 DEF FilesTyped, CountsTyped, BeginLogin, n
<1>6. Stored' /\ Ahead'
      BY DEF Stored, Ahead, BeginLogin
<1>7. Brought'
  <2>1. \A w \in Users : user'[w].new = user[w].new
        BY <1>2, <1>4
  <2>2. \A w \in Users :
          user'[w].new <= issued'
          /\ \A v \in Users : w # v /\ user'[w].new # 0 => user'[w].new # user'[v].new
        BY <2>1, <1>9 DEF Brought
  <2>3. \A w \in Users : At(w, "acquire")' => w # u /\ user'[w] = user[w]
        BY <1>2, <1>4 DEF At
  <2> QED BY <2>2, <2>3, <1>9 DEF Brought, At
<1>8. Plans'
  <2>1. Writing(user[u])'
        BY <1>0, <1>2, <1>4, <1>9 DEF Writing, MarkPlan
  <2>2. \A v \in Users : v # u => ~InHand(v)
        BY <1>3, Alone
  <2>3. \A v \in Users : user'[v].pc \in {"write", "sync", "send"} => v = u
        BY <1>4, <2>2 DEF InHand
  <2>4. user'[u].pc # "send"
        BY <1>2, <1>4
  <2> QED BY <1>4, <2>1, <2>3, <2>4 DEF Plans, At
<1> QED BY <1>4, <1>5, <1>6, <1>7, <1>8

\* The provider approves a device login with a token nobody has.
LEMMA KeptApprove ==
  ASSUME Kept, NEW u \in Users, Approve(u)
  PROVE  Kept'
<1> USE DEF Kept, Typed, files, ghosts
<1> DEFINE t == issued + 1
           r == [user[u] EXCEPT !.pc = "acquire", !.op = "complete", !.new = t]
<1>0. /\ user[u] \in UserStates /\ user \in [Users -> UserStates]
      /\ t \in Tokens /\ MaxTokens \in Nat /\ issued \in Nat /\ sent \subseteq 1..issued
      /\ user[u].attempt \in 0..MaxAttempts
  <2>1. user \in [Users -> UserStates] /\ user[u] \in UserStates
        BY DEF UsersTyped
  <2>2. /\ MaxTokens \in Nat /\ issued \in 0..MaxTokens /\ issued < MaxTokens
        /\ sent \subseteq 1..issued
        BY KimiAssumption DEF KimiAssumption, CountsTyped, Approve
  <2>3. t \in Tokens /\ issued \in Nat
        BY <2>2 DEF Tokens
  <2>4. user[u].attempt \in 0..MaxAttempts
        BY <2>1 DEF UserStates
  <2> QED BY <2>1, <2>2, <2>3, <2>4
<1>9. UNCHANGED <<disk, flushed, attempts, due, sent, barrier>>
      BY DEF Approve
<1>1. /\ r \in UserStates /\ r.pc = "acquire" /\ r.op = "complete"
      /\ r.new = t /\ r.attempt = user[u].attempt
  <2>1. t \in 0..MaxTokens
        BY <1>0 DEF Tokens
  <2> HIDE DEF t
  <2> QED BY <1>0, <2>1 DEF UserStates
<1>2. user' = [user EXCEPT ![u] = r] /\ lock' = lock /\ lock # u
      BY <1>0 DEF Approve, At, UsersTyped, InHand
<1> HIDE DEF r
<1>3. /\ UsersTyped'
      /\ user'[u] = r /\ \A v \in Users : v # u => user'[v] = user[v]
      BY <1>1, <1>2, OneMoves DEF Reads
<1>4. issued' = t /\ from'[t] = user[u].attempt
      /\ \A s \in Tokens : s # t => from'[s] = from[s]
      BY <1>0 DEF Approve, CountsTyped
<1>5. FilesTyped' /\ CountsTyped'
  <2>1. from' \in [Tokens -> 0..MaxAttempts]
        BY <1>0 DEF CountsTyped, Approve
  <2>2. issued' \in 0..MaxTokens /\ sent' \subseteq 1..issued'
        BY <1>0, <1>4 DEF Approve, Tokens
  <2> QED BY <2>1, <2>2 DEF FilesTyped, CountsTyped, Approve
<1>6. Stored' /\ Ahead'
  <2>1. \A c \in {disk.cred, flushed.cred} : c.tok \in 0..MaxTokens
        BY DEF FilesTyped, Store, Creds
  <2>2. \A c \in {disk.cred, flushed.cred} :
          c.tok # 0 => c.tok <= issued' /\ from'[c.tok] > barrier'
        BY <1>0, <1>4, <2>1 DEF Stored, Approve, Tokens
  <2> QED BY <2>2 DEF Stored, Ahead, Approve
<1>7. Brought'
  <2>1. \A w \in Users : user[w].new \in 0..issued
        BY DEF Brought, UsersTyped, UserStates
  <2>2. \A c \in {disk.cred, flushed.cred} : c.tok \in 0..issued
        BY <1>0 DEF FilesTyped, Store, Creds, Stored
  <2>3. ASSUME NEW w \in Users
        PROVE  /\ user'[w].new <= issued'
               /\ \A v \in Users : w # v /\ user'[w].new # 0 => user'[w].new # user'[v].new
        BY <1>0, <1>1, <1>3, <1>4, <2>1 DEF Brought
  <2>4. ASSUME NEW w \in Users, At(w, "acquire")', user'[w].op = "complete"
        PROVE  /\ user'[w].new # 0
               /\ user'[w].new \notin sent' \cup {disk'.cred.tok, flushed'.cred.tok}
               /\ from'[user'[w].new] = user'[w].attempt
    <3>1. CASE w = u
          BY <1>0, <1>1, <1>3, <1>4, <2>2, <3>1 DEF Approve
    <3>2. CASE w # u
          BY <1>0, <1>3, <1>4, <2>1, <2>4, <3>2 DEF Approve, Brought, At, Tokens
    <3> QED BY <3>1, <3>2
  <2> QED BY <2>3, <2>4 DEF Brought
<1>8. Plans'
  <2>1. \A s \in 0..issued : s # 0 => from'[s] = from[s]
    <3>1. \A s \in 0..issued : s # 0 => s \in Tokens /\ s # t
          BY <1>0 DEF Tokens
    <3> QED BY <1>4, <3>1
  <2>2. \A s \in 0..issued : Unused(s) => s \in 0..issued' /\ Unused(s)'
        BY <1>0, <1>4, <2>1 DEF Unused, Approve
  <2>3. ASSUME NEW v \in Users, v # u, user[v].pc \in {"write", "sync"}
        PROVE  Writing(user[v])'
    <3>0. user'[v] = user[v]
          BY <1>3, <2>3
    <3>1. Writing(user[v])
          BY <2>3 DEF Plans
    <3>2. RefreshPlan(user[v]) => RefreshPlan(user[v])'
          BY <1>9, <3>0 DEF RefreshPlan, Usable, Put
    <3>3. OutcomePlan(user[v]) => OutcomePlan(user[v])'
      <4>1. \A s \in 0..issued : \A w \in Users :
              (s # 0 => user[w].new # s) => (s # 0 => user'[w].new # s)
            BY <1>0, <1>1, <1>3
      <4> QED BY <2>2, <3>0, <4>1 DEF OutcomePlan, Approve
    <3>4. LogoutPlan(user[v]) => LogoutPlan(user[v])'
          BY <3>0 DEF LogoutPlan, Approve
    <3>5. LoginPlan(user[v]) => LoginPlan(user[v])'
      <4>1. Unused(user[v].new) => Unused(user[v].new)'
            BY <2>2, <3>0 DEF Unused
      <4> QED BY <3>0, <4>1 DEF LoginPlan, Approve
    <3>6. MarkPlan(user[v]) => MarkPlan(user[v])'
          BY <3>0 DEF MarkPlan, Approve
    <3> QED BY <1>3, <2>3, <3>1, <3>2, <3>3, <3>4, <3>5, <3>6 DEF Writing, Approve
  <2>4. ASSUME NEW v \in Users, v # u, At(v, "send")
        PROVE  Sending(user[v])'
        BY <2>4, <1>3, <1>9 DEF Plans, Sending, At, Usable
  <2> QED BY <1>1, <1>3, <2>3, <2>4 DEF Plans, At
<1> QED BY <1>3, <1>5, <1>6, <1>7, <1>8

\* A request goes out with the stored refresh token.  From here on the token
\* counts as spent, and the intent on disk gives it away.
LEMMA Spent ==
  ASSUME Kept, NEW u \in Users, NEW r \in UserStates, At(u, "send"),
         sent' = sent \cup {user[u].cred.tok},
         UNCHANGED <<files, attempts, due, barrier>>,
         issued' \in 0..MaxTokens, issued <= issued',
         from' \in [Tokens -> 0..MaxAttempts],
         \A s \in 1..issued : from'[s] = from[s],
         user' = [user EXCEPT ![u] = r],
         r.pc \in {"idle", "write", "load"}, Reads(r),
         lock' = IF r.pc = "write" THEN u ELSE NoUser,
         r.new = user[u].new \/ r.new = 0,
         r.pc = "write" => OutcomePlan(user[u])'
  PROVE  Kept'
<1> USE DEF Kept, Typed, files
<1>0. /\ Sending(user[u])
      /\ user[u] \in UserStates /\ issued \in Nat /\ MaxTokens \in Nat
      /\ sent \subseteq 1..issued /\ lock = u
      BY Fields DEF Plans, CountsTyped, UsersTyped, At, InHand
<1>1. user[u].cred.tok \in 1..issued
      BY <1>0, Fields DEF Sending, Stored, Usable, UserStates, Creds
<1>2. /\ UsersTyped'
      /\ user'[u] = r /\ \A v \in Users : v # u => user'[v] = user[v]
      BY <1>0, OneMoves
<1>3. FilesTyped' /\ CountsTyped'
  <2>0. issued' \in Nat /\ 1..issued \subseteq 1..issued'
        BY <1>0
  <2>1. sent' \subseteq 1..issued'
        BY <1>0, <1>1, <2>0
  <2> QED BY <2>1 DEF FilesTyped, CountsTyped
<1>4. Stored'
  <2>1. /\ disk.cred = flushed.cred /\ disk.intent = flushed.intent
        /\ ~Valid(disk.cred, disk.intent)
        BY <1>0, Fields DEF Sending, Valid
  <2>2. disk.cred.tok \in 1..issued
        BY <1>0, <1>1 DEF Sending
  <2> QED BY <1>0, <2>1, <2>2 DEF Stored, Valid, Usable
<1>5. Ahead'
      BY DEF Ahead
<1>6. Brought'
  <2>1. \A w \in Users : user[w].new \in 0..issued
        BY DEF Brought, UsersTyped, UserStates
  <2>2. \A w \in Users : user'[w].new = user[w].new \/ user'[w].new = 0
        BY <1>2
  <2>3. \A w \in Users :
          user'[w].new <= issued'
          /\ \A v \in Users : w # v /\ user'[w].new # 0 => user'[w].new # user'[v].new
        BY <1>0, <2>1, <2>2 DEF Brought
  <2>4. ASSUME NEW w \in Users, At(w, "acquire")', user'[w].op = "complete"
        PROVE  /\ user'[w].new # 0
               /\ user'[w].new \notin sent' \cup {disk'.cred.tok, flushed'.cred.tok}
               /\ from'[user'[w].new] = user'[w].attempt
    <3>1. w # u /\ user'[w] = user[w] /\ At(w, "acquire")
          BY <1>2, <2>4 DEF At
    <3>2. user[w].new \in 1..issued
          BY <1>0, <2>1, <2>4, <3>1 DEF Brought
    <3>3. user[w].new # user[u].cred.tok
          BY <1>0, <2>4, <3>1 DEF Brought, Sending
    <3> QED BY <2>4, <3>1, <3>2, <3>3 DEF Brought
  <2> QED BY <2>3, <2>4 DEF Brought
<1>7. Plans'
  <2>1. \A v \in Users : user'[v].pc \in {"write", "sync", "send"} =>
          v = u /\ user'[v].pc = "write"
        BY <1>0, <1>2, Alone DEF InHand
  <2> QED BY <1>2, <2>1 DEF Plans, Writing, At
<1> QED BY <1>2, <1>3, <1>4, <1>5, <1>6, <1>7

\* The provider replaces the token, denies it, or no answer arrives.
LEMMA KeptSend ==
  ASSUME Kept, NEW u \in Users, SendRotated(u) \/ SendDenied(u) \/ SendLost(u)
  PROVE  Kept'
<1> USE DEF Kept, Typed
<1>0. /\ At(u, "send") /\ Sending(user[u])
      /\ user[u] \in UserStates /\ user \in [Users -> UserStates]
      /\ issued \in 0..MaxTokens /\ issued \in Nat /\ MaxTokens \in Nat
      /\ sent \subseteq 1..issued /\ lock = u
      /\ from \in [Tokens -> 0..MaxAttempts] /\ user[u].cred.gen \in Nat
      /\ user[u].cred.tok \in 1..issued
  <2>1. At(u, "send") /\ Sending(user[u])
        BY DEF SendRotated, SendDenied, SendLost, Plans
  <2>2. /\ user[u] \in UserStates /\ user \in [Users -> UserStates]
        /\ issued \in 0..MaxTokens /\ issued \in Nat /\ MaxTokens \in Nat
        /\ sent \subseteq 1..issued /\ from \in [Tokens -> 0..MaxAttempts]
        BY Fields DEF CountsTyped, UsersTyped
  <2>3. lock = u
        BY <2>1 DEF UsersTyped, At, InHand
  <2>4. user[u].cred.gen \in Nat /\ user[u].cred.tok \in 1..issued
        BY <2>1, Fields DEF Sending, Stored, Usable
  <2> QED BY <2>1, <2>2, <2>3, <2>4
<1>1. CASE SendRotated(u)
  <2> PICK t \in Tokens : t = issued + 1
        BY <1>0, <1>1 DEF SendRotated, Tokens
  <2> DEFINE r == [user[u] EXCEPT !.pc = "write", !.op = "commit",
                                  !.todo = Outcome(u, t)]
  <2>0. t \in 0..MaxTokens /\ t \notin 1..issued /\ issued' = t
        BY <1>0, <1>1 DEF SendRotated, Tokens
  <2>1. r.todo \in Seq(Changes)
    <3>1. [gen |-> user[u].cred.gen + 1, tok |-> t] \in Creds
          BY <1>0, <2>0 DEF Creds
    <3> QED BY <3>1, PutTyped, ListsTyped DEF Outcome
  <2>2. /\ r \in UserStates /\ r.pc = "write" /\ r.op = "commit" /\ r.cred = user[u].cred
        /\ r.new = user[u].new
        /\ r.todo = <<Put("cred", [gen |-> r.cred.gen + 1, tok |-> t]), Put("intent", 0)>>
        BY <1>0, <2>1 DEF UserStates, Outcome
  <2>3. user' = [user EXCEPT ![u] = r] /\ lock' = u
        BY <1>0, <1>1 DEF SendRotated, Plan
  <2>4. /\ from' \in [Tokens -> 0..MaxAttempts] /\ from'[t] = from[user[u].cred.tok]
        /\ \A s \in 1..issued : from'[s] = from[s]
    <3>1. user[u].cred.tok \in Tokens /\ \A s \in 1..issued : s \in Tokens /\ s # t
          BY <1>0 DEF Tokens
    <3> QED BY <1>0, <1>1, <2>0, <3>1 DEF SendRotated
  <2>5. /\ sent' = sent \cup {user[u].cred.tok}
        /\ UNCHANGED <<disk, flushed, attempts, due, barrier>>
        BY <1>1 DEF SendRotated, files
  <2>6. user'[u] = r /\ \A v \in Users : v # u => user'[v] = user[v]
        BY <1>0, <2>3
  <2> HIDE DEF r
  <2>7. OutcomePlan(user[u])'
    <3>1. \A v \in Users : user'[v].new # t
      <4>1. \A v \in Users : user[v].new \in 0..issued
            BY DEF Brought, UsersTyped, UserStates
      <4> QED BY <1>0, <2>2, <2>6, <4>1
    <3>2. from'[t] > barrier' /\ t \notin sent'
          BY <1>0, <2>0, <2>4, <2>5 DEF Sending, Stored
    <3>3. Unused(t)' /\ t \in 0..issued'
          BY <1>0, <2>0, <3>2 DEF Unused
    <3>4. flushed'.cred = r.cred /\ disk'.cred = r.cred
          BY <1>0, <2>2, <2>5 DEF Sending
    <3> QED BY <2>2, <2>6, <3>1, <3>3, <3>4 DEF OutcomePlan, Put
  <2>8. /\ UNCHANGED <<files, attempts, due, barrier>>
        /\ issued' \in 0..MaxTokens /\ issued <= issued'
        /\ from' \in [Tokens -> 0..MaxAttempts] /\ Reads(r)
        BY <1>0, <2>0, <2>2, <2>4, <2>5 DEF Reads, files
  <2> QED BY <1>0, <2>2, <2>3, <2>4, <2>5, <2>7, <2>8, Spent
<1>2. CASE SendDenied(u)
  <2> DEFINE r == [user[u] EXCEPT !.pc = "write", !.op = "tombstone",
                                  !.todo = Outcome(u, 0)]
  <2>1. r.todo \in Seq(Changes)
    <3>1. [gen |-> user[u].cred.gen + 1, tok |-> 0] \in Creds
          BY <1>0 DEF Creds
    <3> QED BY <3>1, PutTyped, ListsTyped DEF Outcome
  <2>2. /\ r \in UserStates /\ r.pc = "write" /\ r.op = "tombstone"
        /\ r.cred = user[u].cred /\ r.new = user[u].new
        /\ r.todo = <<Put("cred", [gen |-> r.cred.gen + 1, tok |-> 0]), Put("intent", 0)>>
        BY <1>0, <2>1 DEF UserStates, Outcome
  <2>3. user' = [user EXCEPT ![u] = r] /\ lock' = u
        BY <1>0, <1>2 DEF SendDenied, Plan
  <2>4. \A s \in 1..issued : from'[s] = from[s]
        BY <1>2 DEF SendDenied
  <2>5. /\ sent' = sent \cup {user[u].cred.tok}
        /\ UNCHANGED <<disk, flushed, issued, attempts, due, from, barrier>>
        BY <1>2 DEF SendDenied, files
  <2>6. user'[u] = r /\ \A v \in Users : v # u => user'[v] = user[v]
        BY <1>0, <2>3
  <2> HIDE DEF r
  <2>7. OutcomePlan(user[u])'
    <3>1. Unused(0)' /\ 0 \in 0..issued'
          BY <1>0, <2>5 DEF Unused
    <3>2. flushed'.cred = r.cred /\ disk'.cred = r.cred
          BY <1>0, <2>2, <2>5 DEF Sending
    <3> QED BY <2>2, <2>6, <3>1, <3>2 DEF OutcomePlan, Put
  <2>8. /\ UNCHANGED <<files, attempts, due, barrier>>
        /\ issued' \in 0..MaxTokens /\ issued <= issued'
        /\ from' \in [Tokens -> 0..MaxAttempts] /\ Reads(r)
        BY <1>0, <2>2, <2>4, <2>5 DEF Reads, files
  <2> QED BY <1>0, <2>2, <2>3, <2>4, <2>5, <2>7, <2>8, Spent
<1>3. CASE SendLost(u)
  <2> DEFINE r == Idle
  <2>1. r \in UserStates /\ r.pc = "idle" /\ r.new = 0
        BY IdleTyped
  <2>2. user' = [user EXCEPT ![u] = r] /\ lock' = NoUser
        BY <1>0, <1>3 DEF SendLost, End, Leave
  <2>3. /\ sent' = sent \cup {user[u].cred.tok}
        /\ UNCHANGED <<disk, flushed, issued, attempts, due, from, barrier>>
        BY <1>3 DEF SendLost, files
  <2> HIDE DEF r
  <2>4. /\ UNCHANGED <<files, attempts, due, barrier>>
        /\ issued' \in 0..MaxTokens /\ issued <= issued'
        /\ from' \in [Tokens -> 0..MaxAttempts] /\ Reads(r)
        /\ \A s \in 1..issued : from'[s] = from[s]
        BY <1>0, <2>1, <2>3 DEF Reads, files
  <2> QED BY <1>0, <2>1, <2>2, <2>3, <2>4, Spent
<1> QED BY <1>1, <1>2, <1>3

\* A token comes close to its expiry.
LEMMA KeptAge ==
  ASSUME Kept, NEW t \in Tokens, Age(t)
  PROVE  Kept'
<1> USE DEF Kept, Typed
<1>1. UNCHANGED <<disk, flushed, lock, user, issued, attempts, sent, from, barrier>>
      /\ due' = due \cup {t}
      BY DEF Age, files, ghosts
<1>2. FilesTyped' /\ CountsTyped' /\ UsersTyped'
      BY <1>1 DEF FilesTyped, CountsTyped, UsersTyped, InHand, Reads
<1>3. Stored' /\ Ahead' /\ Brought'
      BY <1>1 DEF Stored, Ahead, Brought, At, Valid, Usable
<1>4. Plans'
      BY <1>1 DEF Plans, Writing, RefreshPlan, OutcomePlan, LogoutPlan, LoginPlan,
         MarkPlan, Sending, Unused, At, Usable, Put, LogoutSteps
<1> QED BY <1>2, <1>3, <1>4

\* A power loss leaves each file as seen last or as flushed last: whichever
\* it is, the store was ready for it.
LEMMA KeptPowerLoss ==
  ASSUME Kept, PowerLoss
  PROVE  Kept'
<1> USE DEF Kept, Typed
<1>1. PICK c \in {disk.cred, flushed.cred}, i \in {disk.intent, flushed.intent},
           l \in {disk.login, flushed.login} :
             disk' = [cred |-> c, intent |-> i, login |-> l] /\ flushed' = disk'
      BY DEF PowerLoss
<1>2. /\ user' = [v \in Users |-> Idle] /\ lock' = NoUser
      /\ UNCHANGED <<issued, attempts, due, sent, from, barrier>>
      BY DEF PowerLoss, ghosts
<1>3. FilesTyped'
      BY <1>1 DEF FilesTyped, Store
<1>4. CountsTyped' /\ UsersTyped'
      BY <1>2, IdleTyped, KimiAssumption
      DEF KimiAssumption, CountsTyped, UsersTyped, InHand, Reads
<1>5. Stored'
      BY <1>1, <1>2 DEF Stored, Valid, Usable
<1>6. Ahead'
      BY <1>1 DEF Ahead
<1>7. Brought' /\ Plans'
      BY <1>2, IdleTyped, Fields DEF Brought, Plans, At, CountsTyped
<1> QED BY <1>3, <1>4, <1>5, <1>6, <1>7

-----------------------------------------------------------------------------
(* The changes of the store.                                               *)

\* A rename or a removal changes one of the files.
LEMMA PutDisk ==
  ASSUME FilesTyped, NEW w, disk' = [disk EXCEPT ![w.file] = w.to]
  PROVE  /\ w.file = "cred" /\ w.to \in Creds =>
              /\ disk' \in Store /\ disk'["cred"] = w.to /\ disk'.cred = w.to
              /\ disk'.intent = disk.intent /\ disk'.login = disk.login
         /\ w.file = "intent" /\ w.to \in Nat =>
              /\ disk' \in Store /\ disk'["intent"] = w.to /\ disk'.intent = w.to
              /\ disk'.cred = disk.cred /\ disk'.login = disk.login
         /\ w.file = "login" /\ w.to \in 0..MaxAttempts =>
              /\ disk' \in Store /\ disk'["login"] = w.to /\ disk'.login = w.to
              /\ disk'.cred = disk.cred /\ disk'.intent = disk.intent
BY DEF FilesTyped, Store

\* What a change of the files must see to so that everything is kept.
LEMMA Written ==
  ASSUME Kept, NEW u \in Users, Write(u), disk' \in Store, Stored', Ahead',
         \A w \in Users : w # u /\ At(w, "acquire") /\ user[w].op = "complete"
           => user[w].new # disk'.cred.tok,
         Writing(user[u])'
  PROVE  Kept'
<1> USE DEF Kept, Typed
<1> DEFINE r == [user[u] EXCEPT !.pc = "sync"]
<1>0. /\ user[u] \in UserStates /\ user \in [Users -> UserStates] /\ lock = u
      BY DEF UsersTyped, Write, At, InHand
<1>1. /\ r \in UserStates /\ r.pc = "sync" /\ r.new = user[u].new
      BY <1>0 DEF UserStates
<1>2. /\ user' = [user EXCEPT ![u] = r]
      /\ UNCHANGED <<flushed, lock, issued, attempts, due, sent, from, barrier>>
      BY <1>0 DEF Write, ghosts
<1> HIDE DEF r
<1>3. /\ UsersTyped'
      /\ user'[u] = r /\ \A v \in Users : v # u => user'[v] = user[v]
      BY <1>0, <1>1, <1>2, OneMoves DEF Reads
<1>4. FilesTyped' /\ CountsTyped'
      BY <1>2 DEF FilesTyped, CountsTyped
<1>5. Brought'
  <2>1. \A w \in Users : user'[w].new = user[w].new
        BY <1>1, <1>3
  <2>2. \A w \in Users : At(w, "acquire")' =>
          w # u /\ user'[w] = user[w] /\ At(w, "acquire")
        BY <1>1, <1>3 DEF At
  <2> QED BY <1>2, <2>1, <2>2 DEF Brought, At
<1>6. Plans'
  <2>1. \A v \in Users : user'[v].pc \in {"write", "sync", "send"} => v = u
        BY <1>0, <1>3, Alone DEF InHand
  <2> QED BY <1>1, <1>3, <2>1 DEF Plans, At
<1> QED BY <1>3, <1>4, <1>5, <1>6

\* A change of a file by the plan of its user keeps everything.
LEMMA KeptWrite ==
  ASSUME Kept, NEW u \in Users, Write(u)
  PROVE  Kept'
<1> USE DEF Kept, Typed
<1> DEFINE me == user[u]
<1>0. /\ me.pc = "write" /\ Writing(me) /\ me \in UserStates
      /\ me.attempt \in 0..MaxAttempts
      /\ me.cred.gen \in Nat /\ me.cred.tok \in 0..MaxTokens
      /\ disk' = [disk EXCEPT ![Head(me.todo).file] = Head(me.todo).to]
      /\ UNCHANGED <<flushed, lock, issued, attempts, due, sent, from, barrier>>
      BY Fields DEF Write, At, Plans, ghosts, UserStates, Creds
<1>1. /\ user'[u].pc = "sync" /\ user'[u].op = me.op /\ user'[u].todo = me.todo
      /\ user'[u].cred = me.cred /\ user'[u].new = me.new /\ user'[u].attempt = me.attempt
      /\ \A v \in Users : user'[v].new = user[v].new
      BY <1>0 DEF Write, UsersTyped, UserStates
<1>2. /\ flushed.cred \in Creds /\ flushed.cred.gen \in Nat /\ flushed.intent \in Nat
      /\ disk.cred \in Creds /\ disk.cred.gen \in Nat /\ disk.intent \in Nat
      BY Fields DEF FilesTyped, Store, Creds
<1>8. /\ Head(me.todo).file = "cred" /\ Head(me.todo).to \in Creds =>
           /\ disk' \in Store /\ disk'["cred"] = Head(me.todo).to
           /\ disk'.cred = Head(me.todo).to
           /\ disk'.intent = disk.intent /\ disk'.login = disk.login
      /\ Head(me.todo).file = "intent" /\ Head(me.todo).to \in Nat =>
           /\ disk' \in Store /\ disk'["intent"] = Head(me.todo).to
           /\ disk'.intent = Head(me.todo).to
           /\ disk'.cred = disk.cred /\ disk'.login = disk.login
      /\ Head(me.todo).file = "login" /\ Head(me.todo).to \in 0..MaxAttempts =>
           /\ disk' \in Store /\ disk'["login"] = Head(me.todo).to
           /\ disk'.login = Head(me.todo).to
           /\ disk'.cred = disk.cred /\ disk'.intent = disk.intent
      BY <1>0, PutDisk
<1>9. 0 \in 0..MaxAttempts
      BY KimiAssumption DEF KimiAssumption
<1>3. CASE RefreshPlan(me)
  <2>1. Head(me.todo).file = "intent" /\ Head(me.todo).to = me.cred.gen + 1
        BY <1>3, Lists DEF RefreshPlan, Put
  <2>2. /\ disk' \in Store /\ disk'.cred = disk.cred /\ disk'.login = disk.login
        /\ disk'.intent = me.cred.gen + 1 /\ disk'["intent"] = me.cred.gen + 1
        BY <1>0, <2>1, <1>8
  <2>3. Stored'
    <3>1. disk.cred.gen >= flushed.cred.gen
          BY <1>2, <1>3 DEF Ahead, RefreshPlan, Usable, NoCred
    <3>2. \A c \in {disk.cred, flushed.cred} : ~Valid(c, disk.cred.gen + 1)
          BY <1>2, <3>1 DEF Valid, Usable
    <3> QED BY <1>0, <1>3, <2>2, <3>2 DEF Stored, Valid, Usable, RefreshPlan
  <2>4. Ahead'
        BY <1>0, <2>2 DEF Ahead
  <2>5. Writing(user[u])'
        BY <1>0, <1>1, <1>3, <2>1, <2>2 DEF Writing, RefreshPlan, Usable, Put
  <2> QED BY <2>2, <2>3, <2>4, <2>5, Written DEF Brought
<1>4. CASE OutcomePlan(me)
  <2>1. CASE me.todo = <<Put("intent", 0)>> /\ disk.cred = flushed.cred
             /\ disk.cred.tok \notin sent
    <3>1. Head(me.todo).file = "intent" /\ Head(me.todo).to = 0
          BY <2>1, Lists DEF Put
    <3>2. /\ disk' \in Store /\ disk'.cred = disk.cred /\ disk'.login = disk.login
          /\ disk'["intent"] = 0
          BY <1>0, <3>1, <1>8, <1>9
    <3>3. Stored' /\ Ahead'
          BY <1>0, <2>1, <3>2 DEF Stored, Ahead
    <3>4. Writing(user[u])'
          BY <1>0, <1>1, <1>4, <2>1, <3>1, <3>2 DEF Writing, OutcomePlan, Put
    <3> QED BY <3>2, <3>3, <3>4, Written DEF Brought
  <2>2. ASSUME NEW t \in 0..issued,
               me.todo = <<Put("cred", [gen |-> me.cred.gen + 1, tok |-> t]),
                           Put("intent", 0)>>,
               Unused(t), \A v \in Users : t # 0 => user[v].new # t,
               flushed.cred = me.cred, disk.cred = me.cred
        PROVE  Kept'
    <3> DEFINE new == [gen |-> me.cred.gen + 1, tok |-> t]
    <3>0. /\ new \in Creds /\ new.tok = t /\ new.gen = me.cred.gen + 1
      <4>1. t \in 0..MaxTokens
            BY Fields DEF CountsTyped
      <4> QED BY <1>0, <4>1 DEF Creds
    <3>1. Head(me.todo).file = "cred" /\ Head(me.todo).to = new
          BY <2>2, Lists DEF Put
    <3>2. /\ disk' \in Store /\ disk'.cred = new /\ disk'.login = disk.login
          /\ disk'.intent = disk.intent /\ disk'["cred"] = new
          BY <1>0, <3>0, <3>1, <1>8
    <3> HIDE DEF new
    <3>3. Stored'
          BY <1>0, <2>2, <3>0, <3>2, Fields DEF Stored, Unused
    <3>4. Ahead'
          BY <1>0, <2>2, <3>0, <3>2 DEF Ahead
    <3>5. OutcomePlan(user[u])'
          BY <1>0, <1>1, <1>4, <2>2 DEF OutcomePlan, Put, Unused
    <3>6. Writing(user[u])'
          BY <1>0, <1>1, <3>1, <3>2, <3>5 DEF Writing
    <3> QED BY <2>2, <3>0, <3>2, <3>3, <3>4, <3>6, Written DEF Brought
  <2> QED BY <1>0, <1>4, <2>1, <2>2 DEF OutcomePlan
<1>5. CASE LogoutPlan(me)
  <2>1. CASE me.todo = LogoutSteps
    <3>1. Head(me.todo).file = "login" /\ Head(me.todo).to = 0
          BY <2>1, Lists DEF LogoutSteps, Put
    <3>2. /\ disk' \in Store /\ disk'.cred = disk.cred /\ disk'.login = 0
          /\ disk'.intent = disk.intent /\ disk'["login"] = 0
          BY <1>0, <3>1, <1>8, <1>9
    <3>3. Stored' /\ Ahead'
          BY <1>0, <3>2 DEF Stored, Ahead
    <3>4. Writing(user[u])'
          BY <1>0, <1>1, <1>5, <2>1, <3>1, <3>2 DEF Writing, LogoutPlan, LogoutSteps, Put
    <3> QED BY <3>2, <3>3, <3>4, Written DEF Brought
  <2>2. CASE me.todo = <<Put("cred", NoCred), Put("intent", 0)>>
             /\ disk.login = 0 /\ flushed.login = 0
    <3>1. Head(me.todo).file = "cred" /\ Head(me.todo).to = NoCred
          BY <2>2, Lists DEF Put
    <3>2. /\ disk' \in Store /\ disk'.cred = NoCred /\ disk'.login = disk.login
          /\ disk'.intent = disk.intent /\ disk'["cred"] = NoCred
          BY <1>0, <3>1, <1>8, IdleTyped
    <3>3. Stored' /\ Ahead'
      <4>1. NoCred.tok = 0 /\ ~Usable(NoCred)
            BY DEF NoCred, Usable
      <4>2. Stored'
            BY <1>0, <3>2, <4>1 DEF Stored, Valid, Usable
      <4>3. Ahead'
            BY <1>0, <3>2, <4>1 DEF Ahead, Valid, Usable
      <4> QED BY <4>2, <4>3
    <3>4. Writing(user[u])'
      <4>1. user'[u].op = "logout" /\ disk'.login = 0 /\ flushed'.login = 0
            BY <1>0, <1>1, <1>5, <2>2, <3>2 DEF LogoutPlan
      <4>2. user'[u].todo = <<Put("cred", NoCred), Put("intent", 0)>>
            BY <1>1, <2>2
      <4>3. LogoutPlan(user[u])'
            BY <4>1, <4>2 DEF LogoutPlan, Put
      <4>4. disk'[Head(user'[u].todo).file] = Head(user'[u].todo).to
            BY <1>1, <3>1, <3>2
      <4> QED BY <4>3, <4>4 DEF Writing
    <3> QED BY <3>2, <3>3, <3>4, Written DEF Brought, NoCred
  <2>3. CASE me.todo = <<Put("intent", 0)>> /\ disk.login = 0 /\ flushed.login = 0
             /\ disk.cred = NoCred /\ flushed.cred = NoCred
    <3>1. Head(me.todo).file = "intent" /\ Head(me.todo).to = 0
          BY <2>3, Lists DEF Put
    <3>2. /\ disk' \in Store /\ disk'.cred = disk.cred /\ disk'.login = disk.login
          /\ disk'["intent"] = 0
          BY <1>0, <3>1, <1>8, <1>9
    <3>3. Stored' /\ Ahead'
          BY <1>0, <2>3, <3>2 DEF Stored, Ahead, NoCred, Valid, Usable
    <3>4. Writing(user[u])'
          BY <1>0, <1>1, <1>5, <2>3, <3>1, <3>2 DEF Writing, LogoutPlan, NoCred, Put
    <3> QED BY <3>2, <3>3, <3>4, Written DEF Brought
  <2> QED BY <1>5, <2>1, <2>2, <2>3 DEF LogoutPlan
<1>6. CASE LoginPlan(me)
  <2>0. me.op = "complete" /\ me.new # 0 /\ Unused(me.new) /\ Unused(user[u].new)'
        BY <1>0, <1>1, <1>6 DEF LoginPlan, Unused
  <2>1. ASSUME NEW g \in Nat, g > disk.cred.gen,
               me.todo = <<Put("login", 0), Put("cred", [gen |-> g, tok |-> me.new]),
                           Put("intent", 0)>>
        PROVE  Kept'
    <3>1. Head(me.todo).file = "login" /\ Head(me.todo).to = 0
          BY <2>1, Lists DEF Put
    <3>2. /\ disk' \in Store /\ disk'.cred = disk.cred /\ disk'.login = 0
          /\ disk'.intent = disk.intent /\ disk'["login"] = 0
          BY <1>0, <3>1, <1>8, <1>9
    <3>3. Stored' /\ Ahead'
          BY <1>0, <3>2 DEF Stored, Ahead
    <3>4. LoginPlan(user[u])'
          BY <1>1, <2>0, <2>1, <3>2 DEF LoginPlan, Put
    <3>5. Writing(user[u])'
          BY <1>1, <3>1, <3>2, <3>4 DEF Writing
    <3> QED BY <3>2, <3>3, <3>5, Written DEF Brought
  <2>2. ASSUME NEW g \in Nat, g > flushed.cred.gen, disk.cred = flushed.cred,
               me.todo = <<Put("cred", [gen |-> g, tok |-> me.new]), Put("intent", 0)>>
        PROVE  Kept'
    <3> DEFINE new == [gen |-> g, tok |-> me.new]
    <3>0. /\ new \in Creds /\ new.tok = me.new /\ new.gen = g
          BY <1>0 DEF Creds, UserStates
    <3>1. Head(me.todo).file = "cred" /\ Head(me.todo).to = new
          BY <2>2, Lists DEF Put
    <3>2. /\ disk' \in Store /\ disk'.cred = new /\ disk'.login = disk.login
          /\ disk'.intent = disk.intent /\ disk'["cred"] = new
          BY <1>0, <3>0, <3>1, <1>8
    <3> HIDE DEF new
    <3>3. Stored'
          BY <1>0, <2>0, <3>0, <3>2, Fields DEF Stored, Unused
    <3>4. Ahead'
          BY <1>0, <2>2, <3>0, <3>2 DEF Ahead
    <3>5. LoginPlan(user[u])'
          BY <1>0, <1>1, <2>0, <2>2 DEF LoginPlan, Put
    <3>6. Writing(user[u])'
          BY <1>0, <1>1, <3>1, <3>2, <3>5 DEF Writing
    <3> QED BY <2>0, <3>0, <3>2, <3>3, <3>4, <3>6, Written DEF Brought
  <2>3. CASE me.todo = <<Put("intent", 0)>> /\ disk.cred = flushed.cred
             /\ disk.cred.tok = me.new /\ disk.cred.gen # 0
    <3>1. Head(me.todo).file = "intent" /\ Head(me.todo).to = 0
          BY <2>3, Lists DEF Put
    <3>2. /\ disk' \in Store /\ disk'.cred = disk.cred /\ disk'.login = disk.login
          /\ disk'["intent"] = 0
          BY <1>0, <3>1, <1>8, <1>9
    <3>3. Stored' /\ Ahead'
          BY <1>0, <2>0, <2>3, <3>2 DEF Stored, Ahead, Unused
    <3>4. LoginPlan(user[u])'
          BY <1>0, <1>1, <2>0, <2>3, <3>2 DEF LoginPlan, Put
    <3>5. Writing(user[u])'
          BY <1>1, <3>1, <3>2, <3>4 DEF Writing
    <3> QED BY <3>2, <3>3, <3>5, Written DEF Brought
  <2> QED BY <1>0, <1>6, <2>1, <2>2, <2>3 DEF LoginPlan
<1>7. CASE MarkPlan(me)
  <2> DEFINE l == Head(me.todo).to
  <2>1. /\ Head(me.todo).file = "login" /\ l \in 0..MaxAttempts
        /\ l # 0 => l > barrier
        BY <1>0, <1>7, Lists, KimiAssumption DEF KimiAssumption, MarkPlan, Put
  <2>2. /\ disk' \in Store /\ disk'.cred = disk.cred /\ disk'.login = l
        /\ disk'.intent = disk.intent /\ disk'["login"] = l
        BY <1>0, <2>1, <1>8
  <2>3. Stored' /\ Ahead'
        BY <1>0, <2>1, <2>2 DEF Stored, Ahead
  <2>4. MarkPlan(user[u])'
        BY <1>0, <1>1, <1>7 DEF MarkPlan, Put
  <2>5. Writing(user[u])'
        BY <1>1, <2>1, <2>2, <2>4 DEF Writing
  <2> QED BY <2>2, <2>3, <2>5, Written DEF Brought
<1> QED BY <1>0, <1>3, <1>4, <1>5, <1>6, <1>7 DEF Writing

\* What the flush of the directory must see to so that everything is kept.
LEMMA Flushed ==
  ASSUME Kept, NEW u \in Users, NEW r \in UserStates, At(u, "sync"),
         flushed' = disk, UNCHANGED <<disk, issued, attempts, due, sent, from>>,
         user' = [user EXCEPT ![u] = r], Reads(r),
         barrier' = barrier \/ (barrier' = attempts /\ disk.login = 0
                                /\ disk.cred = NoCred /\ r.pc = "idle"),
         lock' = IF r.pc \in {"write", "send"} THEN u ELSE NoUser,
         r.pc \notin {"sync", "acquire"},
         r.new = user[u].new \/ r.new = 0,
         r.pc = "write" => Writing(user[u])',
         r.pc = "send" => Sending(user[u])'
  PROVE  Kept'
<1> USE DEF Kept, Typed
<1>0. lock = u
      BY DEF UsersTyped, At, InHand
<1>1. /\ UsersTyped'
      /\ user'[u] = r /\ \A v \in Users : v # u => user'[v] = user[v]
      BY <1>0, OneMoves
<1>2. FilesTyped'
      BY DEF FilesTyped
<1>3. CountsTyped'
      BY KimiAssumption DEF KimiAssumption, CountsTyped
<1>4. Stored' /\ Ahead'
      BY DEF Stored, Ahead, NoCred, Valid, Usable
<1>5. Brought'
  <2>1. \A w \in Users : user'[w].new = user[w].new \/ user'[w].new = 0
        BY <1>1
  <2>2. \A w \in Users :
          user'[w].new <= issued'
          /\ \A v \in Users : w # v /\ user'[w].new # 0 => user'[w].new # user'[v].new
        BY <2>1 DEF Brought, CountsTyped
  <2>3. \A w \in Users : At(w, "acquire")' =>
          w # u /\ user'[w] = user[w] /\ At(w, "acquire")
        BY <1>1 DEF At
  <2> QED BY <2>2, <2>3 DEF Brought, At
<1>6. Plans'
  <2>1. \A v \in Users : user'[v].pc \in {"write", "sync", "send"} => v = u
        BY <1>0, <1>1, Alone DEF InHand
  <2> QED BY <1>1, <2>1 DEF Plans, At
<1> QED BY <1>1, <1>2, <1>3, <1>4, <1>5, <1>6

\* What follows the flush depends on the changes left and the operation.
LEMMA SyncArms ==
  ASSUME NEW u \in Users, Sync(u), user[u].todo \in Seq(Changes)
  PROVE  /\ Len(user[u].todo) > 1 =>
              /\ user' = [user EXCEPT ![u].pc = "write", ![u].todo = Tail(@)]
              /\ lock' = lock /\ barrier' = barrier
         /\ Len(user[u].todo) = 1 /\ user[u].op = "refresh" =>
              /\ user' = [user EXCEPT ![u].pc = "send", ![u].todo = <<>>]
              /\ lock' = lock /\ barrier' = barrier
         /\ Len(user[u].todo) = 1 /\ user[u].op = "commit" =>
              Answer(u, disk.cred) /\ barrier' = barrier
         /\ Len(user[u].todo) = 1 /\ user[u].op = "begin" =>
              /\ Leave(u, [Idle EXCEPT !.pc = "device", !.op = "begin",
                                       !.attempt = user[u].attempt])
              /\ barrier' = barrier
         /\ Len(user[u].todo) = 1
            /\ user[u].op \in {"tombstone", "logout", "complete", "cancel"} =>
              End(u) /\ barrier' = IF user[u].op = "logout" THEN attempts ELSE barrier
<1> DEFINE n == Len(user[u].todo)
           o == user[u].op
           A == /\ user' = [user EXCEPT ![u].pc = "write", ![u].todo = Tail(@)]
                /\ UNCHANGED lock
           B == /\ user' = [user EXCEPT ![u].pc = "send", ![u].todo = <<>>]
                /\ UNCHANGED lock
           C == Answer(u, disk.cred)
           D == Leave(u, [Idle EXCEPT !.pc = "device", !.op = "begin",
                                      !.attempt = user[u].attempt])
           E == End(u)
<1>1. /\ CASE n > 1 -> A
           [] o = "refresh" /\ n = 1 -> B
           [] o = "commit" /\ n = 1 -> C
           [] o = "begin" /\ n = 1 -> D
           [] o \in {"tombstone", "logout", "complete", "cancel"} /\ n = 1 -> E
      /\ barrier' = IF o = "logout" /\ n = 1 THEN attempts ELSE barrier
      BY Zenon DEF Sync, LastOf
<1> SUFFICES /\ n > 1 => A /\ barrier' = barrier
             /\ n = 1 /\ o = "refresh" => B /\ barrier' = barrier
             /\ n = 1 /\ o = "commit" => C /\ barrier' = barrier
             /\ n = 1 /\ o = "begin" => D /\ barrier' = barrier
             /\ n = 1 /\ o \in {"tombstone", "logout", "complete", "cancel"} =>
                  E /\ barrier' = IF o = "logout" THEN attempts ELSE barrier
    BY Zenon
<1>2. n \in Nat
      OBVIOUS
<1> HIDE DEF n, o, A, B, C, D, E
<1>3. ~(n > 1 /\ n = 1)
      BY <1>2
<1> QED BY <1>1, <1>3, Zenon

\* The flush moves its user along its plan.
LEMMA KeptSync ==
  ASSUME Kept, NEW u \in Users, Sync(u)
  PROVE  Kept'
<1> USE DEF Kept, Typed
<1> DEFINE me == user[u]
<1>0. /\ me.pc = "sync" /\ At(u, "sync") /\ Writing(me) /\ me \in UserStates
      /\ user \in [Users -> UserStates] /\ lock = u
      /\ me.cred.gen \in Nat /\ me.todo \in Seq(Changes)
      /\ disk[Head(me.todo).file] = Head(me.todo).to
      BY Fields DEF Sync, At, Plans, UserStates, Creds, UsersTyped, InHand, Writing
<1>1. /\ flushed' = disk /\ UNCHANGED <<disk, issued, attempts, due, sent, from>>
      /\ disk.cred \in Creds /\ disk.cred.gen \in Nat /\ flushed.cred.gen \in Nat
      BY Fields DEF Sync, FilesTyped, Store, Creds
\* On to the next change.
<1>2. ASSUME Len(me.todo) > 1, Tail(me.todo) \in Seq(Changes)
      PROVE  /\ barrier' = barrier
             /\ user'[u].pc = "write" /\ user'[u].todo = Tail(me.todo)
             /\ user'[u].op = me.op /\ user'[u].cred = me.cred
             /\ user'[u].new = me.new /\ user'[u].attempt = me.attempt
             /\ \A v \in Users : user'[v].new = user[v].new
             /\ Writing(user[u])' => Kept'
  <2> DEFINE r == [me EXCEPT !.pc = "write", !.todo = Tail(me.todo)]
  <2>1. /\ user' = [user EXCEPT ![u] = r] /\ lock' = lock
        /\ barrier' = barrier
        BY <1>0, <1>2, SyncArms
  <2>2. /\ r \in UserStates /\ r.pc = "write" /\ r.todo = Tail(me.todo)
        /\ r.op = me.op /\ r.cred = me.cred /\ r.new = me.new /\ r.attempt = me.attempt
        BY <1>0, <1>2 DEF UserStates
  <2> HIDE DEF r
  <2>3. user'[u] = r /\ \A v \in Users : v # u => user'[v] = user[v]
        BY <1>0, <2>1
  <2>4. Writing(user[u])' => Kept'
        BY <1>0, <1>1, <2>1, <2>2, Flushed DEF Reads
  <2> QED BY <2>1, <2>2, <2>3, <2>4
\* The last change of a plan that needs no more than the lock given back.
<1>3. ASSUME Len(me.todo) = 1,
             me.op \in {"tombstone", "logout", "complete", "cancel"},
             me.op = "logout" => disk.login = 0 /\ disk.cred = NoCred
      PROVE  Kept'
  <2> DEFINE r == Idle
  <2>1. End(u) /\ barrier' = IF me.op = "logout" THEN attempts ELSE barrier
        BY <1>0, <1>3, SyncArms
  <2>2. r \in UserStates /\ r.pc = "idle" /\ r.new = 0
        BY IdleTyped
  <2>3. user' = [user EXCEPT ![u] = r] /\ lock' = NoUser
        BY <1>0, <2>1 DEF End, Leave
  <2> HIDE DEF r
  <2>4. barrier' = barrier \/ (barrier' = attempts /\ disk.login = 0
                               /\ disk.cred = NoCred /\ r.pc = "idle")
        BY <1>3, <2>1, <2>2
  <2> QED BY <1>0, <1>1, <2>2, <2>3, <2>4, Flushed DEF Reads
<1>4. CASE RefreshPlan(me)
  <2> DEFINE r == [me EXCEPT !.pc = "send", !.todo = <<>>]
  <2>1. /\ Len(me.todo) = 1 /\ me.op = "refresh"
        /\ Head(me.todo).file = "intent" /\ Head(me.todo).to = me.cred.gen + 1
        BY <1>4, Lists DEF RefreshPlan, Put
  <2>2. user' = [user EXCEPT ![u] = r] /\ lock' = u /\ barrier' = barrier
        BY <1>0, <2>1, SyncArms
  <2>3. /\ r \in UserStates /\ r.pc = "send" /\ r.op = "refresh"
        /\ r.cred = me.cred /\ r.new = me.new
        BY <1>0, <2>1, NothingTyped DEF UserStates
  <2> HIDE DEF r
  <2>4. user'[u] = r
        BY <1>0, <2>2
  <2>5. disk.intent = me.cred.gen + 1
        BY <1>0, <2>1
  <2>6. Sending(user[u])'
        BY <1>1, <1>4, <2>3, <2>4, <2>5 DEF Sending, RefreshPlan, Usable
  <2> QED BY <1>0, <1>1, <2>2, <2>3, <2>6, Flushed DEF Reads
<1>5. CASE OutcomePlan(me)
  <2>1. CASE me.todo = <<Put("intent", 0)>>
    <3>1. Len(me.todo) = 1 /\ me.op \in {"commit", "tombstone"}
          BY <1>5, <2>1, Lists DEF OutcomePlan
    <3>2. CASE me.op = "commit"
      <4> DEFINE r == IF me.force THEN Idle
                      ELSE [Idle EXCEPT !.pc = "load", !.op = "ticket",
                                        !.cred = disk.cred]
      <4>1. /\ user' = [user EXCEPT ![u] = r] /\ lock' = NoUser /\ barrier' = barrier
            BY <1>0, <3>1, <3>2, SyncArms DEF Answer, Leave
      <4>2. /\ r \in UserStates /\ r.pc \in {"idle", "load"} /\ r.new = 0
            /\ r.pc = "load" => r.op = "ticket"
            BY <1>1, IdleTyped DEF UserStates
      <4> HIDE DEF r
      <4> QED BY <1>0, <1>1, <4>1, <4>2, Flushed DEF Reads
    <3> QED BY <1>3, <3>1, <3>2
  <2>2. ASSUME NEW t \in 0..issued,
               me.todo = <<Put("cred", [gen |-> me.cred.gen + 1, tok |-> t]),
                           Put("intent", 0)>>,
               Unused(t)
        PROVE  Kept'
    <3>1. /\ Head(me.todo).file = "cred"
          /\ Head(me.todo).to = [gen |-> me.cred.gen + 1, tok |-> t]
          /\ Len(me.todo) = 2 /\ Tail(me.todo) = <<Put("intent", 0)>>
          BY <2>2, Lists DEF Put
    <3>2. Tail(me.todo) \in Seq(Changes)
          BY <3>1, PutTyped, ListsTyped
    <3>3. disk.cred = [gen |-> me.cred.gen + 1, tok |-> t]
          BY <1>0, <3>1
    <3>4. OutcomePlan(user[u])'
      <4>1. disk'.cred = flushed'.cred /\ disk'.cred.tok \notin sent'
            BY <1>1, <2>2, <3>3 DEF Unused
      <4>2. /\ user'[u].todo = <<Put("intent", 0)>>
            /\ user'[u].op \in {"commit", "tombstone"}
        <5>1. Len(me.todo) > 1
              BY <3>1
        <5> QED BY <1>2, <1>5, <3>1, <3>2, <5>1, Zenon DEF OutcomePlan
      <4> QED BY <4>1, <4>2 DEF OutcomePlan, Put
    <3> QED BY <1>2, <3>1, <3>2, <3>4 DEF Writing
  <2> QED BY <1>5, <2>1, <2>2 DEF OutcomePlan
<1>6. CASE LogoutPlan(me)
  <2>1. CASE me.todo = LogoutSteps
    <3>1. /\ Head(me.todo).file = "login" /\ Head(me.todo).to = 0
          /\ Len(me.todo) = 3
          /\ Tail(me.todo) = <<Put("cred", NoCred), Put("intent", 0)>>
          BY <2>1, Lists DEF LogoutSteps, Put
    <3>2. Tail(me.todo) \in Seq(Changes) /\ disk.login = 0
          BY <1>0, <3>1, PutTyped, ListsTyped, IdleTyped
    <3>3. LogoutPlan(user[u])'
      <4>1. /\ user'[u].todo = <<Put("cred", NoCred), Put("intent", 0)>>
            /\ user'[u].op = "logout"
        <5>1. Len(me.todo) > 1
              BY <3>1
        <5> QED BY <1>2, <1>6, <3>1, <3>2, <5>1, Zenon DEF LogoutPlan
      <4>2. disk'.login = 0 /\ flushed'.login = 0
            BY <1>1, <3>2
      <4> QED BY <4>1, <4>2 DEF LogoutPlan, NoCred, Put
    <3> QED BY <1>2, <3>1, <3>2, <3>3 DEF Writing
  <2>2. CASE me.todo = <<Put("cred", NoCred), Put("intent", 0)>>
             /\ disk.login = 0 /\ flushed.login = 0
    <3>1. /\ Head(me.todo).file = "cred" /\ Head(me.todo).to = NoCred
          /\ Len(me.todo) = 2 /\ Tail(me.todo) = <<Put("intent", 0)>>
          BY <2>2, Lists DEF Put
    <3>2. Tail(me.todo) \in Seq(Changes) /\ disk.cred = NoCred
          BY <1>0, <3>1, PutTyped, ListsTyped
    <3>3. LogoutPlan(user[u])'
      <4>1. user'[u].todo = <<Put("intent", 0)>> /\ user'[u].op = "logout"
        <5>1. Len(me.todo) > 1
              BY <3>1
        <5> QED BY <1>2, <1>6, <3>1, <3>2, <5>1, Zenon DEF LogoutPlan
      <4> QED BY <1>1, <2>2, <3>2, <4>1 DEF LogoutPlan, NoCred, Put
    <3> QED BY <1>2, <3>1, <3>2, <3>3 DEF Writing
  <2>3. CASE me.todo = <<Put("intent", 0)>> /\ disk.login = 0 /\ flushed.login = 0
             /\ disk.cred = NoCred /\ flushed.cred = NoCred
    <3>1. Len(me.todo) = 1
          BY <2>3, Lists
    <3> QED BY <1>3, <1>6, <2>3, <3>1 DEF LogoutPlan
  <2> QED BY <1>6, <2>1, <2>2, <2>3 DEF LogoutPlan
<1>7. CASE LoginPlan(me)
  <2>0. me.op = "complete" /\ me.new # 0 /\ Unused(me.new)
        BY <1>7 DEF LoginPlan
  <2>1. ASSUME NEW g \in Nat, g > disk.cred.gen,
               me.todo = <<Put("login", 0), Put("cred", [gen |-> g, tok |-> me.new]),
                           Put("intent", 0)>>
        PROVE  Kept'
    <3>1. /\ Len(me.todo) = 3
          /\ Tail(me.todo) = <<Put("cred", [gen |-> g, tok |-> me.new]), Put("intent", 0)>>
          BY <2>1, Lists
    <3>2. Tail(me.todo) \in Seq(Changes)
      <4>1. [gen |-> g, tok |-> me.new] \in Creds
            BY <1>0 DEF UserStates, Creds
      <4> QED BY <3>1, <4>1, PutTyped, ListsTyped
    <3>3. LoginPlan(user[u])'
      <4>1. Unused(user[u].new)'
            BY <1>1, <1>2, <2>0, <3>1, <3>2 DEF Unused
      <4> QED BY <1>1, <1>2, <2>0, <2>1, <3>1, <3>2, <4>1 DEF LoginPlan, Put
    <3> QED BY <1>2, <3>1, <3>2, <3>3 DEF Writing
  <2>2. ASSUME NEW g \in Nat, g > flushed.cred.gen,
               me.todo = <<Put("cred", [gen |-> g, tok |-> me.new]), Put("intent", 0)>>
        PROVE  Kept'
    <3>1. /\ Head(me.todo).file = "cred"
          /\ Head(me.todo).to = [gen |-> g, tok |-> me.new]
          /\ Len(me.todo) = 2 /\ Tail(me.todo) = <<Put("intent", 0)>>
          BY <2>2, Lists DEF Put
    <3>2. Tail(me.todo) \in Seq(Changes) /\ disk.cred = [gen |-> g, tok |-> me.new]
          BY <1>0, <3>1, PutTyped, ListsTyped
    <3>3. LoginPlan(user[u])'
      <4>1. Unused(user[u].new)'
            BY <1>1, <1>2, <2>0, <3>1, <3>2 DEF Unused
      <4>2. disk'.cred = flushed'.cred /\ disk'.cred.tok = me.new /\ disk'.cred.gen # 0
            BY <1>1, <2>2, <3>2
      <4>3. /\ user'[u].todo = <<Put("intent", 0)>> /\ user'[u].op = "complete"
            /\ user'[u].new = me.new
        <5>1. Len(me.todo) > 1
              BY <3>1
        <5> QED BY <1>2, <2>0, <3>1, <3>2, <5>1, Zenon
      <4> QED BY <2>0, <4>1, <4>2, <4>3 DEF LoginPlan, Put
    <3> QED BY <1>2, <3>1, <3>2, <3>3 DEF Writing
  <2>3. CASE me.todo = <<Put("intent", 0)>>
    <3>1. Len(me.todo) = 1
          BY <2>3, Lists
    <3> QED BY <1>3, <2>0, <3>1
  <2> QED BY <1>7, <2>1, <2>2, <2>3 DEF LoginPlan
<1>8. CASE MarkPlan(me)
  <2>1. Len(me.todo) = 1
        BY <1>8, Lists DEF MarkPlan
  <2>2. CASE me.op = "begin"
    <3> DEFINE r == [Idle EXCEPT !.pc = "device", !.op = "begin",
                                 !.attempt = me.attempt]
    <3>1. user' = [user EXCEPT ![u] = r] /\ lock' = NoUser /\ barrier' = barrier
          BY <1>0, <2>1, <2>2, SyncArms DEF Leave
    <3>2. r \in UserStates /\ r.pc = "device" /\ r.new = 0
          BY <1>0, IdleTyped DEF UserStates
    <3> HIDE DEF r
    <3> QED BY <1>0, <1>1, <3>1, <3>2, Flushed DEF Reads
  <2> QED BY <1>3, <1>8, <2>1, <2>2 DEF MarkPlan
<1> QED BY <1>0, <1>4, <1>5, <1>6, <1>7, <1>8 DEF Writing

\* Whatever a user does next, everything is kept.
LEMMA KeptUserStep ==
  ASSUME Kept, NEW u \in Users, UserStep(u)
  PROVE  Kept'
<1>1. CASE \/ CallToken(u) \/ LoadCred(u) \/ LoadIntent(u) \/ Rejected(u)
           \/ CallLogout(u) \/ CallLogin(u) \/ Abandon(u)
      BY <1>1, KeptRead
<1>2. CASE Served(u) \/ GiveUp(u) \/ ChangeFails(u) \/ Crash(u)
      BY <1>2, KeptEnd DEF Served, GiveUp, ChangeFails, Crash
<1>3. CASE RefreshLocked(u) \/ Remove(u) \/ CancelLogin(u) \/ CompleteLogin(u)
      BY <1>3, KeptPlan
<1>4. CASE SendRotated(u) \/ SendDenied(u) \/ SendLost(u)
      BY <1>4, KeptSend
<1>5. CASE BeginLogin(u)
      BY <1>5, KeptBegin
<1>6. CASE Approve(u)
      BY <1>6, KeptApprove
<1>7. CASE Write(u)
      BY <1>7, KeptWrite
<1>8. CASE Sync(u)
      BY <1>8, KeptSync
<1> QED BY <1>1, <1>2, <1>3, <1>4, <1>5, <1>6, <1>7, <1>8 DEF UserStep

\* A step that changes nothing keeps everything.
LEMMA KeptStutter ==
  ASSUME Kept, UNCHANGED vars
  PROVE  Kept'
<1> USE DEF Kept, Typed
<1>1. UNCHANGED <<disk, flushed, lock, user, issued, attempts, due, sent, from, barrier>>
      BY DEF vars, files, ghosts
<1>2. FilesTyped' /\ CountsTyped' /\ UsersTyped'
      BY <1>1 DEF FilesTyped, CountsTyped, UsersTyped, InHand, Reads
<1>3. Stored' /\ Ahead' /\ Brought'
      BY <1>1 DEF Stored, Ahead, Brought, At, Valid, Usable
<1>4. Plans'
      BY <1>1 DEF Plans, Writing, RefreshPlan, OutcomePlan, LogoutPlan, LoginPlan,
         MarkPlan, Sending, Unused, At, Usable, Put, LogoutSteps
<1> QED BY <1>2, <1>3, <1>4

\* Every state of every behaviour is typed, its files are ready for a power
\* loss, and whoever holds the lock is where its plan says.
THEOREM StoreKept == Spec => []Kept
<1>1. Init => Kept
      BY KeptInit
<1>2. Kept /\ [Next]_vars => Kept'
      BY KeptUserStep, KeptAge, KeptPowerLoss, KeptStutter DEF Next
<1> QED BY <1>1, <1>2, PTL DEF Spec

\* The type invariant of the module, for every number of users and tokens.
THEOREM TypeCorrect == Spec => []TypeOK
<1>1. Kept => TypeOK
  <2> SUFFICES ASSUME Kept PROVE TypeOK
      OBVIOUS
  <2> USE DEF Kept, Typed
  <2>1. \A d \in {disk, flushed} : d \in [cred : Creds, intent : Nat, login : 0..MaxAttempts]
        BY DEF FilesTyped, Store
  <2>2. sent \subseteq Tokens /\ barrier \in 0..MaxAttempts
        BY KimiAssumption DEF KimiAssumption, CountsTyped, Tokens
  <2>3. \A u \in Users :
          /\ user[u].pc \in {"idle", "load", "loadIntent", "ticket", "acquire",
                             "write", "sync", "send", "device"}
          /\ user[u].cred \in Creds /\ user[u].read \in Creds
          /\ (lock = u) <=> (user[u].pc \in {"write", "sync", "send"})
        BY DEF UsersTyped, UserStates, InHand
  <2> QED BY <2>1, <2>2, <2>3 DEF TypeOK, CountsTyped, UsersTyped
<1> QED BY <1>1, StoreKept, PTL

\* No refresh token is sent a second time, by whichever user and after
\* whatever crash: the one about to go out never went out before.
THEOREM TokensGoOutOnce == Spec => []NeverSentTwice
<1>1. Kept => NeverSentTwice
      BY DEF Kept, Plans, Sending, NeverSentTwice
<1> QED BY <1>1, StoreKept, PTL

\* What reads as valid while nobody holds the lock was never sent.
THEOREM SpentIsGivenAway == Spec => []ValidIsUnspent
<1>1. Kept => ValidIsUnspent
      BY DEF Kept, Stored, ValidIsUnspent
<1> QED BY <1>1, StoreKept, PTL

\* What is stored after a logout comes from a login begun after it.
THEOREM LogoutIsFinal == Spec => []LogoutSticks
<1>1. Kept => LogoutSticks
      BY DEF Kept, Stored, LogoutSticks
<1> QED BY <1>1, StoreKept, PTL

\* The last flush of a sign-in leaves its credential valid, in both copies of
\* the store.
THEOREM SignInIsUsable == Spec => SignInHeals
<1>1. ASSUME Kept, NEW u \in Users, SignInDone(u)
      PROVE  /\ disk' = flushed' /\ Valid(disk'.cred, disk'.intent)
             /\ disk'.cred.tok = user[u].new
  <2>1. /\ user[u].op = "complete" /\ Len(user[u].todo) = 1
        /\ disk' = disk /\ flushed' = disk
        BY <1>1 DEF SignInDone, Sync
  <2>2. LoginPlan(user[u]) /\ disk[Head(user[u].todo).file] = Head(user[u].todo).to
        BY <1>1, <2>1 DEF SignInDone, Sync, At, Kept, Plans, Writing, RefreshPlan,
           OutcomePlan, LogoutPlan, MarkPlan
  <2>3. /\ user[u].todo = <<Put("intent", 0)>> /\ user[u].new # 0
        /\ disk.cred.tok = user[u].new /\ disk.cred.gen # 0
    <3>1. \A a, b, c : Len(<<a, b, c>>) # 1 /\ Len(<<a, b>>) # 1
          BY Lists
    <3> QED BY <2>1, <2>2, <3>1 DEF LoginPlan
  <2>4. disk.intent = 0
        BY <2>2, <2>3, Lists DEF Put
  <2> QED BY <2>1, <2>3, <2>4 DEF Valid, Usable
<1>2. Kept /\ [Next]_vars =>
        [\A u \in Users : SignInDone(u) =>
           /\ disk' = flushed'
           /\ Valid(disk'.cred, disk'.intent)
           /\ disk'.cred.tok = user[u].new]_vars
      BY <1>1
<1> QED BY <1>2, StoreKept, PTL DEF Spec, SignInHeals
=============================================================================
