-------------------------- MODULE KimiCredentials --------------------------
(***************************************************************************)
(* The shared subscription credential of internal/llm: the processes of    *)
(* coddy (console, serve, scheduled runs) use one stored credential whose  *)
(* refresh token the provider replaces at every refresh.  The store is     *)
(* three files in one directory: the credential, the intent a refresh      *)
(* leaves before its request goes out, and the current login attempt.      *)
(* Reads take no lock; every change is made under the identity lock.       *)
(*                                                                         *)
(* A user is one operation at a time of one process.  A process may die    *)
(* between any two steps, which frees its lock; a power loss takes every   *)
(* process and may take back what was not flushed to the directory.        *)
(*                                                                         *)
(* A token number stands for one access token and the refresh token issued *)
(* with it.                                                                *)
(***************************************************************************)
EXTENDS Integers, Sequences

CONSTANTS
  Users,          \* who uses the store
  NoUser,         \* the holder of a free lock
  MaxTokens,      \* bound: how many token pairs the provider issues
  MaxAttempts     \* bound: how many logins are begun

ASSUME KimiAssumption ==
  NoUser \notin Users /\ MaxTokens \in Nat /\ MaxAttempts \in Nat

Tokens == 1..MaxTokens

VARIABLES
  disk,           \* the files as every process sees them
  flushed,        \* the files as a power loss would leave them at worst
  lock,           \* who holds the identity lock
  user,           \* what each user is doing
  issued,         \* the last token pair issued
  attempts,       \* the last login attempt begun
  due,            \* tokens within the refresh window of their expiry
  \* Nothing in the code reads these.
  sent,           \* refresh tokens that went out in a request
  from,           \* the login attempt each token descends from
  barrier         \* the last attempt begun before the last logout ended

files == <<disk, flushed>>
ghosts == <<sent, from, barrier>>
vars == <<files, lock, user, issued, attempts, due, ghosts>>

\* Generation 0 is no file, token 0 a tombstone.
NoCred == [gen |-> 0, tok |-> 0]
NoFiles == [cred |-> NoCred, intent |-> 0, login |-> 0]

Idle == [pc |-> "idle", op |-> "none", force |-> FALSE, cred |-> NoCred,
         read |-> NoCred, attempt |-> 0, new |-> 0, todo |-> <<>>]

Init ==
  /\ disk = NoFiles /\ flushed = NoFiles
  /\ lock = NoUser
  /\ user = [u \in Users |-> Idle]
  /\ issued = 0 /\ attempts = 0
  /\ due = {} /\ sent = {}
  /\ from = [t \in Tokens |-> 0]
  /\ barrier = 0

-----------------------------------------------------------------------------
(* Reading the store.                                                      *)

Usable(c) == c.gen # 0 /\ c.tok # 0

\* loadState with the intent check: KimiCredentialValid.
Valid(c, intent) == Usable(c) /\ intent \in {0, c.gen}

NeedsRefresh(c, force) == force \/ c.tok \in due

At(u, pc) == user[u].pc = pc
Waits(u, op) == At(u, "acquire") /\ user[u].op = op /\ lock = NoUser

Put(file, to) == [file |-> file, to |-> to]

\* The user works off a list of changes under the lock.
Plan(u, op, todo) ==
  /\ lock' = u
  /\ user' = [user EXCEPT ![u].pc = "write", ![u].op = op, ![u].todo = todo]

Leave(u, record) == /\ user' = [user EXCEPT ![u] = record]
                    /\ lock' = IF lock = u THEN NoUser ELSE lock

End(u) == Leave(u, Idle)

-----------------------------------------------------------------------------
(* An access token: the reads without the lock.                            *)

\* accessToken reads the credential first and lets the intent be.
CallToken(u) ==
  /\ At(u, "idle")
  /\ Usable(disk.cred)
  /\ user' = [user EXCEPT ![u] =
       [Idle EXCEPT !.pc = IF NeedsRefresh(disk.cred, FALSE) THEN "acquire"
                           ELSE "load",
                    !.op = "refresh", !.cred = disk.cred]]
  /\ UNCHANGED <<files, lock, issued, attempts, due, ghosts>>

\* Load reads two files, one after the other, while others write.
LoadCred(u) ==
  /\ At(u, "load")
  /\ user' = [user EXCEPT ![u] =
       CASE Usable(disk.cred) ->
              [@ EXCEPT !.pc = "loadIntent", !.read = disk.cred]
         [] ~Usable(disk.cred) /\ @.op = "refresh" -> [@ EXCEPT !.pc = "acquire"]
         [] ~Usable(disk.cred) /\ @.op = "ticket" -> Idle]
  /\ UNCHANGED <<files, lock, issued, attempts, due, ghosts>>

LoadIntent(u) ==
  LET me == user[u]
      valid == Valid(me.read, disk.intent) IN
  /\ At(u, "loadIntent")
  /\ user' = [user EXCEPT ![u] =
       CASE me.op = "refresh" /\ valid /\ ~NeedsRefresh(me.read, FALSE) ->
              [Idle EXCEPT !.pc = "load", !.op = "ticket", !.cred = me.read]
         [] me.op = "refresh" /\ ~(valid /\ ~NeedsRefresh(me.read, FALSE)) ->
              [me EXCEPT !.pc = "acquire", !.read = NoCred]
         [] me.op = "ticket" /\ valid /\ me.read.tok = me.cred.tok ->
              [Idle EXCEPT !.pc = "ticket", !.op = "ticket", !.cred = me.read]
         [] me.op = "ticket" /\ ~(valid /\ me.read.tok = me.cred.tok) -> Idle]
  /\ UNCHANGED <<files, lock, issued, attempts, due, ghosts>>

\* The provider takes the request, or rejects the access token.
Served(u) ==
  /\ At(u, "ticket")
  /\ End(u)
  /\ UNCHANGED <<files, issued, attempts, due, ghosts>>

Rejected(u) ==
  /\ At(u, "ticket")
  /\ user' = [user EXCEPT ![u].pc = "acquire", ![u].op = "refresh",
                          ![u].force = TRUE]
  /\ UNCHANGED <<files, lock, issued, attempts, due, ghosts>>

\* The lock stays busy for too long, or the caller's context ends.
GiveUp(u) ==
  /\ At(u, "acquire")
  /\ End(u)
  /\ UNCHANGED <<files, issued, attempts, due, ghosts>>

-----------------------------------------------------------------------------
(* lockedRefresh.                                                          *)

\* Without a forced call the caller binds the answer to what is stored.
Answer(u, c) ==
  Leave(u, IF user[u].force THEN Idle
           ELSE [Idle EXCEPT !.pc = "load", !.op = "ticket", !.cred = c])

Settled(me, c) ==
  \/ ~NeedsRefresh(c, me.force)
  \/ me.force /\ c # me.cred

\* Mutant: what was read before the lock is sent.
ReadsBefore(u) ==
  /\ Waits(u, "refresh")
  /\ Valid(user[u].cred, disk.intent)
  /\ Plan(u, "refresh", <<Put("intent", user[u].cred.gen + 1)>>)
  /\ UNCHANGED <<files, issued, attempts, due, ghosts>>

RefreshLocked(u) ==
  LET c == disk.cred IN
  /\ Waits(u, "refresh")
  /\ CASE ~Valid(c, disk.intent) -> End(u)
       [] Valid(c, disk.intent) /\ Settled(user[u], c) -> Answer(u, c)
       [] Valid(c, disk.intent) /\ ~Settled(user[u], c) ->
            /\ lock' = u
            /\ user' = [user EXCEPT ![u].pc = "write", ![u].cred = c,
                                    ![u].todo = <<Put("intent", c.gen + 1)>>]
  /\ UNCHANGED <<files, issued, attempts, due, ghosts>>

\* Mutant: the intent goes before the outcome is on disk.
IntentFirst(u, tok) ==
  <<Put("intent", 0), Put("cred", [gen |-> user[u].cred.gen + 1, tok |-> tok])>>

Outcome(u, tok) ==
  <<Put("cred", [gen |-> user[u].cred.gen + 1, tok |-> tok]), Put("intent", 0)>>

\* One request; the intent stays until its outcome is on disk.
SendRotated(u) ==
  /\ At(u, "send")
  /\ issued < MaxTokens
  /\ sent' = sent \cup {user[u].cred.tok}
  /\ issued' = issued + 1
  /\ from' = [from EXCEPT ![issued + 1] = from[user[u].cred.tok]]
  /\ Plan(u, "commit", Outcome(u, issued + 1))
  /\ UNCHANGED <<files, attempts, due, barrier>>

SendDenied(u) ==
  /\ At(u, "send")
  /\ sent' = sent \cup {user[u].cred.tok}
  /\ Plan(u, "tombstone", Outcome(u, 0))
  /\ UNCHANGED <<files, issued, attempts, due, from, barrier>>

\* No answer, a server error, a malformed answer.
SendLost(u) ==
  /\ At(u, "send")
  /\ sent' = sent \cup {user[u].cred.tok}
  /\ End(u)
  /\ UNCHANGED <<files, issued, attempts, due, from, barrier>>

-----------------------------------------------------------------------------
(* Login and logout.                                                       *)

CallLogout(u) ==
  /\ At(u, "idle")
  /\ user' = [user EXCEPT ![u] = [Idle EXCEPT !.pc = "acquire", !.op = "logout"]]
  /\ UNCHANGED <<files, lock, issued, attempts, due, ghosts>>

\* Mutant: a device login under way is left standing.
ForgetsLogin == <<Put("cred", NoCred), Put("intent", 0)>>

LogoutSteps == <<Put("login", 0), Put("cred", NoCred), Put("intent", 0)>>

Remove(u) ==
  /\ Waits(u, "logout")
  /\ Plan(u, "logout", LogoutSteps)
  /\ UNCHANGED <<files, issued, attempts, due, ghosts>>

CallLogin(u) ==
  /\ At(u, "idle")
  /\ attempts < MaxAttempts
  /\ user' = [user EXCEPT ![u] = [Idle EXCEPT !.pc = "acquire", !.op = "begin"]]
  /\ UNCHANGED <<files, lock, issued, attempts, due, ghosts>>

BeginLogin(u) ==
  /\ Waits(u, "begin")
  /\ attempts < MaxAttempts
  /\ attempts' = attempts + 1
  /\ lock' = u
  /\ user' = [user EXCEPT ![u].pc = "write", ![u].attempt = attempts + 1,
                          ![u].todo = <<Put("login", attempts + 1)>>]
  /\ UNCHANGED <<files, issued, due, ghosts>>

\* The provider answers the device login with a token, or it comes to nothing.
Approve(u) ==
  /\ At(u, "device")
  /\ issued < MaxTokens
  /\ issued' = issued + 1
  /\ from' = [from EXCEPT ![issued + 1] = user[u].attempt]
  /\ user' = [user EXCEPT ![u].pc = "acquire", ![u].op = "complete",
                          ![u].new = issued + 1]
  /\ UNCHANGED <<files, lock, attempts, due, sent, barrier>>

Abandon(u) ==
  /\ At(u, "device")
  /\ user' = [user EXCEPT ![u].pc = "acquire", ![u].op = "cancel"]
  /\ UNCHANGED <<files, lock, issued, attempts, due, ghosts>>

Current(u) == disk.login # 0 /\ disk.login = user[u].attempt

CancelLogin(u) ==
  /\ Waits(u, "cancel")
  /\ IF Current(u) THEN Plan(u, "cancel", <<Put("login", 0)>>) ELSE End(u)
  /\ UNCHANGED <<files, issued, attempts, due, ghosts>>

\* A generation no intent left behind can be taken to have committed.
LoginGeneration == LET next == disk.cred.gen + 1 IN
                   IF disk.intent = next THEN next + 1 ELSE next

\* Mutant: an intent found there is left.
LeavesIntent(u) == <<Put("login", 0),
                     Put("cred", [gen |-> LoginGeneration, tok |-> user[u].new])>>

LoginSteps(u) ==
  <<Put("login", 0),
    Put("cred", [gen |-> LoginGeneration, tok |-> user[u].new]),
    Put("intent", 0)>>

CompleteLogin(u) ==
  /\ Waits(u, "complete")
  /\ IF Current(u) THEN Plan(u, "complete", LoginSteps(u)) ELSE End(u)
  /\ UNCHANGED <<files, issued, attempts, due, ghosts>>

-----------------------------------------------------------------------------
(* The changes of an operation: a rename or a removal, then the flush of   *)
(* the directory, each of which can fail and ends the operation if so.     *)

Write(u) ==
  LET w == Head(user[u].todo) IN
  /\ At(u, "write")
  /\ disk' = [disk EXCEPT ![w.file] = w.to]
  /\ user' = [user EXCEPT ![u].pc = "sync"]
  /\ UNCHANGED <<flushed, lock, issued, attempts, due, ghosts>>

ChangeFails(u) ==
  /\ user[u].pc \in {"write", "sync"}
  /\ End(u)
  /\ UNCHANGED <<files, issued, attempts, due, ghosts>>

LastOf(u, op) == user[u].op = op /\ Len(user[u].todo) = 1

\* The flush: on to the next change, or to what follows the last one.
Sync(u) ==
  LET me == user[u] IN
  /\ At(u, "sync")
  /\ flushed' = disk
  /\ CASE Len(me.todo) > 1 ->
            /\ user' = [user EXCEPT ![u].pc = "write", ![u].todo = Tail(@)]
            /\ UNCHANGED lock
       [] LastOf(u, "refresh") ->
            /\ user' = [user EXCEPT ![u].pc = "send", ![u].todo = <<>>]
            /\ UNCHANGED lock
       [] LastOf(u, "commit") -> Answer(u, disk.cred)
       [] LastOf(u, "begin") ->
            Leave(u, [Idle EXCEPT !.pc = "device", !.op = "begin",
                                  !.attempt = me.attempt])
       [] me.op \in {"tombstone", "logout", "complete", "cancel"}
          /\ Len(me.todo) = 1 -> End(u)
  /\ barrier' = IF LastOf(u, "logout") THEN attempts ELSE barrier
  /\ UNCHANGED <<disk, issued, attempts, due, sent, from>>

-----------------------------------------------------------------------------
(* The world.                                                              *)

Age(t) ==
  /\ t <= issued /\ t \notin due
  /\ due' = due \cup {t}
  /\ UNCHANGED <<files, lock, user, issued, attempts, ghosts>>

Crash(u) ==
  /\ ~At(u, "idle")
  /\ End(u)
  /\ UNCHANGED <<files, issued, attempts, due, ghosts>>

\* Each file is as last seen or as last flushed.
PowerLoss ==
  /\ \E c \in {disk.cred, flushed.cred}, i \in {disk.intent, flushed.intent},
        l \in {disk.login, flushed.login} :
       disk' = [cred |-> c, intent |-> i, login |-> l]
  /\ flushed' = disk'
  /\ user' = [u \in Users |-> Idle]
  /\ lock' = NoUser
  /\ UNCHANGED <<issued, attempts, due, ghosts>>

UserStep(u) ==
  \/ CallToken(u) \/ LoadCred(u) \/ LoadIntent(u) \/ Served(u) \/ Rejected(u)
  \/ GiveUp(u) \/ RefreshLocked(u)
  \/ SendRotated(u) \/ SendDenied(u) \/ SendLost(u)
  \/ CallLogout(u) \/ Remove(u)
  \/ CallLogin(u) \/ BeginLogin(u) \/ Approve(u) \/ Abandon(u)
  \/ CancelLogin(u) \/ CompleteLogin(u)
  \/ Write(u) \/ ChangeFails(u) \/ Sync(u)
  \/ Crash(u)

Next == (\E u \in Users : UserStep(u)) \/ (\E t \in Tokens : Age(t)) \/ PowerLoss

Spec == Init /\ [][Next]_vars

-----------------------------------------------------------------------------
(* Properties.                                                             *)

Creds == [gen : Nat, tok : 0..MaxTokens]

\* Every variable has its type, and only the user who holds the lock is in
\* the middle of a change.
TypeOK ==
  /\ \A d \in {disk, flushed} : d \in [cred : Creds, intent : Nat, login : 0..MaxAttempts]
  /\ lock \in Users \cup {NoUser}
  /\ issued \in 0..MaxTokens /\ attempts \in 0..MaxAttempts
  /\ due \subseteq Tokens /\ sent \subseteq Tokens
  /\ from \in [Tokens -> 0..MaxAttempts] /\ barrier \in 0..MaxAttempts
  /\ \A u \in Users :
       /\ user[u].pc \in {"idle", "load", "loadIntent", "ticket", "acquire",
                          "write", "sync", "send", "device"}
       /\ user[u].cred \in Creds /\ user[u].read \in Creds
       /\ (lock = u) <=> (user[u].pc \in {"write", "sync", "send"})

\* A refresh token that went out in a request never goes out again: the
\* provider may have replaced it, answered or not, whatever crashed since
\* (kimi_credentials.go:31-33).
NeverSentTwice == \A u \in Users : At(u, "send") => user[u].cred.tok \notin sent

\* A credential that reads as valid while nobody changes the store has a
\* refresh token that was never used: after every crash, failed write and
\* power loss the intent gives a spent one away.
ValidIsUnspent ==
  lock = NoUser /\ Valid(disk.cred, disk.intent) => disk.cred.tok \notin sent

\* A logout that was reported done is not undone: what is stored after it
\* comes from a login begun after it, not from a refresh or a device login
\* that was under way.
LogoutSticks == disk.cred.tok # 0 => from[disk.cred.tok] > barrier

SignInDone(u) == user[u].op = "complete" /\ Len(user[u].todo) = 1 /\ Sync(u)

\* A sign-in that is reported done leaves its own credential usable, on disk
\* for good and whatever intent, tombstone or torn logout it found.
SignInHeals ==
  [][\A u \in Users : SignInDone(u) =>
       /\ disk' = flushed'
       /\ Valid(disk'.cred, disk'.intent)
       /\ disk'.cred.tok = user[u].new]_vars
=============================================================================
