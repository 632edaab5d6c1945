------------------------------ MODULE Sessions ------------------------------
(***************************************************************************)
(* The sessions and the password of one verified user (AuthService,        *)
(* UsersService, RefreshTokenRepository).  Sessions and passwords of       *)
(* different users do not touch, so one user stands for all.               *)
(*                                                                         *)
(* A refresh token is a JWT of the user's id and email and of the second   *)
(* it was signed in; nothing else goes into it.  Two tokens of one user    *)
(* signed in the same second are therefore the same token, and a token is  *)
(* modelled as its second.  A request reads, signs and writes in separate  *)
(* steps and may fail between them.                                        *)
(***************************************************************************)
EXTENDS Naturals

CONSTANTS
  Requests,     \* slots for requests in flight
  Passwords,    \* passwords; comparing hashes compares them
  ResetTokens,  \* the random tokens mailed by forgotPassword
  MaxSecond,    \* bound: the clock stops here
  Ttl,          \* life time of a refresh token, in seconds
  None          \* no token, no password

ASSUME SessionsAssumption ==
  /\ MaxSecond \in Nat
  /\ Ttl \in Nat \ {0}
  /\ None \notin Nat \cup Passwords \cup ResetTokens

Seconds == 0 .. MaxSecond

VARIABLES
  now,       \* the clock
  password,  \* users.password
  reset,     \* users.resetPasswordToken, and whether it has expired
  sessions,  \* table refresh_token_sessions, by token
  job,       \* the local variables of the request in each slot
  version,   \* history: how often the password was reset
  closed,    \* history: the last version whose sessions reset has revoked
  mailed,    \* history: the reset tokens mailed so far
  uses,      \* history: how often each reset token set a password
  alone      \* history: no request has arrived while another was in flight

vars == <<now, password, reset, sessions, job, version, closed, mailed, uses, alone>>

account == <<password, reset, version, mailed, uses>>

Places == {"idle", "sign", "issue", "reset", "revoke", "change"}

\* session: the one to replace, None at a login.  version: of the password that
\* opened the session.  key: the reset token.
Job == [at : Places, token : Seconds \cup {None}, session : Seconds \cup {None},
        version : Nat, password : Passwords \cup {None}, key : ResetTokens \cup {None}]

Idle == [at |-> "idle", token |-> None, session |-> None, version |-> 0,
         password |-> None, key |-> None]

\* login and version are history: the first token of the login the session goes
\* back to, and the version of the password given there.
Session == [status : {"none", "live", "revoked"}, login : Seconds \cup {None}, version : Nat]

TypeOK ==
  /\ now \in Seconds
  /\ password \in Passwords
  /\ reset \in [token : ResetTokens \cup {None}, late : BOOLEAN]
  /\ sessions \in [Seconds -> Session]
  /\ job \in [Requests -> Job]
  /\ version \in Nat
  /\ closed \in Nat
  /\ mailed \subseteq ResetTokens
  /\ uses \in [ResetTokens -> Nat]
  /\ alone \in BOOLEAN

NoReset == [token |-> None, late |-> FALSE]

Init ==
  /\ now = 0
  /\ password \in Passwords
  /\ reset = NoReset
  /\ sessions = [t \in Seconds |-> [status |-> "none", login |-> None, version |-> 0]]
  /\ job = [r \in Requests |-> Idle]
  /\ version = 0
  /\ closed = 0
  /\ mailed = {}
  /\ uses = [k \in ResetTokens |-> 0]
  /\ alone = TRUE

Live(t) == sessions[t].status = "live"

\* Variant for mutation: the row is deleted.
RevokedDeleting(t) == [sessions[t] EXCEPT !.status = "deleted"]

Revoked(t) == [sessions[t] EXCEPT !.status = "revoked"]

At(r, place) == job[r].at = place

\* A request arrives at a free slot.
Arrive(r) ==
  /\ At(r, "idle")
  /\ alone' = (alone /\ \A q \in Requests : At(q, "idle"))

Begin(r, j) == Arrive(r) /\ job' = [job EXCEPT ![r] = j]
Finish(r) == job' = [job EXCEPT ![r] = Idle] /\ UNCHANGED alone

\* A refusal, an error or a crash between two awaits.
Fail(r) ==
  /\ ~At(r, "idle")
  /\ Finish(r)
  /\ UNCHANGED <<now, sessions, closed, account>>

Tick ==
  /\ now < MaxSecond
  /\ now' = now + 1
  /\ UNCHANGED <<sessions, job, closed, alone, account>>

-----------------------------------------------------------------------------
(* Opening, renewing and ending a session.                                 *)

\* login: the hash that is compared is the one read here.
LoginCheck(r, p) ==
  /\ p = password
  /\ Begin(r, [Idle EXCEPT !.at = "sign", !.version = version])
  /\ UNCHANGED <<now, sessions, closed, account>>

\* Variant for mutation: a revoked session will do.
RefreshCheckRevoked(r, t) ==
  /\ sessions[t].status # "none"
  /\ now < t + Ttl
  /\ Begin(r, [Idle EXCEPT !.at = "sign", !.session = t, !.version = sessions[t].version])
  /\ UNCHANGED <<now, sessions, closed, account>>

\* refreshToken: the session of the token is active.
RefreshCheck(r, t) ==
  /\ Live(t)
  /\ now < t + Ttl
  /\ Begin(r, [Idle EXCEPT !.at = "sign", !.session = t, !.version = sessions[t].version])
  /\ UNCHANGED <<now, sessions, closed, account>>

SignRefreshToken(r) ==
  /\ At(r, "sign")
  /\ job' = [job EXCEPT ![r] = [@ EXCEPT !.at = "issue", !.token = now]]
  /\ UNCHANGED <<now, sessions, closed, alone, account>>

\* The session under the new token, in the place of the one that is renewed.
NewSession(r) ==
  [status |-> "live", version |-> job[r].version,
   login |-> IF job[r].session = None THEN job[r].token ELSE sessions[job[r].session].login]

\* Variants for mutation: an upsert instead of an insert, and a rotation that
\* leaves the old session alone.
IssueUpsert(r) ==
  /\ At(r, "issue")
  /\ sessions' = [t \in Seconds |-> CASE t = job[r].token   -> NewSession(r)
                                      [] t = job[r].session /\ t # job[r].token -> Revoked(t)
                                      [] OTHER              -> sessions[t]]
  /\ Finish(r)
  /\ UNCHANGED <<now, closed, account>>

IssueBeside(r) ==
  /\ At(r, "issue")
  /\ sessions[job[r].token].status = "none"
  /\ sessions' = [sessions EXCEPT ![job[r].token] = NewSession(r)]
  /\ Finish(r)
  /\ UNCHANGED <<now, closed, account>>

\* create and rotate.  token_hash is unique; rotate revokes the old session by
\* its id, whatever became of it since it was read.
Issue(r) ==
  /\ At(r, "issue")
  /\ sessions[job[r].token].status = "none"
  /\ sessions' = [t \in Seconds |-> CASE t = job[r].token   -> NewSession(r)
                                      [] t = job[r].session -> Revoked(t)
                                      [] OTHER              -> sessions[t]]
  /\ Finish(r)
  /\ UNCHANGED <<now, closed, account>>

\* logout: revokeByHash.
Logout(r, t) ==
  /\ Arrive(r)
  /\ Live(t)
  /\ sessions' = [sessions EXCEPT ![t] = Revoked(t)]
  /\ UNCHANGED <<now, job, closed, account>>

-----------------------------------------------------------------------------
(* The password.                                                           *)

\* A random token is never drawn twice.
ForgotPassword(r, k) ==
  /\ Arrive(r)
  /\ k \notin mailed
  /\ mailed' = mailed \cup {k}
  /\ reset' = [token |-> k, late |-> FALSE]
  /\ UNCHANGED <<now, password, sessions, job, version, closed, uses>>

\* The clock passes resetPasswordExpiresAt.
ResetTokenExpires ==
  /\ reset.token # None
  /\ ~reset.late
  /\ reset' = [reset EXCEPT !.late = TRUE]
  /\ UNCHANGED <<now, password, sessions, job, version, closed, mailed, uses, alone>>

ResetCheck(r, k, new) ==
  /\ reset = [token |-> k, late |-> FALSE]
  /\ Begin(r, [Idle EXCEPT !.at = "reset", !.key = k, !.password = new])
  /\ UNCHANGED <<now, sessions, closed, account>>

\* Variant for mutation: the token stays.
ResetWriteKeeping(r) ==
  /\ At(r, "reset")
  /\ password' = job[r].password
  /\ version' = version + 1
  /\ uses' = [uses EXCEPT ![job[r].key] = @ + 1]
  /\ job' = [job EXCEPT ![r] = [@ EXCEPT !.at = "revoke", !.version = version + 1]]
  /\ UNCHANGED <<now, reset, sessions, closed, mailed, alone>>

\* UsersService.resetPassword clears whatever reset token there is by now.
ResetWrite(r) ==
  /\ At(r, "reset")
  /\ password' = job[r].password
  /\ reset' = NoReset
  /\ version' = version + 1
  /\ uses' = [uses EXCEPT ![job[r].key] = @ + 1]
  /\ job' = [job EXCEPT ![r] = [@ EXCEPT !.at = "revoke", !.version = version + 1]]
  /\ UNCHANGED <<now, sessions, closed, mailed, alone>>

\* Variant for mutation: only the newest session goes.
RevokeLast(r) ==
  /\ At(r, "revoke")
  /\ sessions' = [t \in Seconds |->
       IF Live(t) /\ \A u \in Seconds : Live(u) => u <= t THEN Revoked(t) ELSE sessions[t]]
  /\ closed' = job[r].version
  /\ Finish(r)
  /\ UNCHANGED <<now, account>>

\* revokeAllForUser, in a statement of its own after the password's.
RevokeAll(r) ==
  /\ At(r, "revoke")
  /\ sessions' = [t \in Seconds |-> IF Live(t) THEN Revoked(t) ELSE sessions[t]]
  /\ closed' = IF job[r].version > closed THEN job[r].version ELSE closed
  /\ Finish(r)
  /\ UNCHANGED <<now, account>>

\* changePassword leaves the sessions alone.
ChangeCheck(r, current, new) ==
  /\ current = password
  /\ Begin(r, [Idle EXCEPT !.at = "change", !.password = new])
  /\ UNCHANGED <<now, sessions, closed, account>>

ChangeWrite(r) ==
  /\ At(r, "change")
  /\ password' = job[r].password
  /\ Finish(r)
  /\ UNCHANGED <<now, reset, sessions, version, closed, mailed, uses>>

-----------------------------------------------------------------------------
SessionNext(r) ==
  \/ \E p \in Passwords : LoginCheck(r, p)
  \/ \E t \in Seconds : RefreshCheck(r, t) \/ Logout(r, t)
  \/ SignRefreshToken(r)
  \/ Issue(r)

PasswordNext(r) ==
  \/ \E k \in ResetTokens : ForgotPassword(r, k)
  \/ \E k \in ResetTokens, new \in Passwords : ResetCheck(r, k, new)
  \/ ResetWrite(r)
  \/ RevokeAll(r)
  \/ \E current \in Passwords, new \in Passwords : ChangeCheck(r, current, new)
  \/ ChangeWrite(r)

Next ==
  \/ \E r \in Requests : SessionNext(r) \/ PasswordNext(r) \/ Fail(r)
  \/ Tick
  \/ ResetTokenExpires

Spec == Init /\ [][Next]_vars

-----------------------------------------------------------------------------
(* Properties.                                                             *)

\* A token that was revoked never opens the account again, although the same
\* token is signed anew for a login in its second: the unique index refuses it.
RevokedForGood ==
  [][\A t \in Seconds : sessions[t].status = "revoked" => sessions'[t].status = "revoked"]_vars

\* The live sessions that go back to one login.
Chain(login) == {t \in Seconds : Live(t) /\ sessions[t].login = login}

\* One request at a time, a login has one live session however often it is
\* renewed.  Two renewals of one session at once leave two.
OneSessionPerLogin ==
  alone => \A login \in Seconds : \A t, u \in Chain(login) : t = u

\* One request at a time, a login whose sessions are all revoked (by logout or
\* by a reset) cannot be renewed.  A renewal in flight survives both.
EndedForGood ==
  [][alone => \A login \in Seconds :
       sessions[login].status # "none" /\ Chain(login) = {} => Chain(login)' = {}]_vars

\* One request at a time, no session opened with an older password is live after
\* a completed reset.  A login that has compared the older password, or a
\* renewal in flight, is not stopped.
NoSessionSurvivesReset ==
  alone => \A t \in Seconds : Live(t) => sessions[t].version >= closed

\* One request at a time, a mailed reset token sets a password at most once.
ResetTokenUsedOnce ==
  alone => \A k \in ResetTokens : uses[k] <= 1

\* "Rotate refresh token, set new auth cookies, and return new tokens": the
\* token signed for a renewal is a new one.  Violated within the second in which
\* the session was opened.
RenewalGetsNewToken ==
  \A r \in Requests :
    At(r, "issue") /\ job[r].session # None => job[r].token # job[r].session
=============================================================================
