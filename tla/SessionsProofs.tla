--------------------------- MODULE SessionsProofs ---------------------------
(* Proofs about Sessions, for any requests, passwords and times.           *)
EXTENDS Sessions, TLAPS

-----------------------------------------------------------------------------
(* The inductive invariant.  What a request read is still so while it is   *)
(* the only one in flight; whatever else happens, sessions stay in the     *)
(* table and reset tokens stay mailed.                                     *)

Used(t) == sessions[t].status # "none"

Sound(j) ==
  /\ j.at = "reset" => /\ j.password \in Passwords
                       /\ j.key \in mailed
                       /\ alone => uses[j.key] = 0
  /\ j.at = "change" => j.password \in Passwords
  /\ j.at = "issue" => j.token \in Seconds
  /\ j.at \in {"sign", "issue"} =>
       /\ j.session # None => Used(j.session) /\ (alone => Live(j.session))
       /\ alone => j.version >= closed
  /\ j.at = "revoke" => j.version <= version

JobOK(r) == Sound(job[r])

JobInv == \A r \in Requests : JobOK(r)

Sole == alone => \A q, r \in Requests : At(q, "idle") \/ At(r, "idle") \/ q = r

SessionInv ==
  /\ closed <= version
  /\ \A t \in Seconds : Used(t) => sessions[t].login \in Seconds /\ Used(sessions[t].login)
  /\ alone => \A t \in Seconds : Live(t) => sessions[t].version >= closed
  /\ alone => \A t, u \in Seconds :
       Live(t) /\ Live(u) /\ sessions[t].login = sessions[u].login => t = u

ResetInv ==
  /\ reset.token # None => reset.token \in mailed
  /\ \A k \in ResetTokens : uses[k] > 0 => k \in mailed
  /\ alone => \A k \in ResetTokens : uses[k] <= 1 /\ (reset.token = k => uses[k] = 0)

Inv == TypeOK /\ Sole /\ SessionInv /\ ResetInv /\ JobInv

LEMMA SecondsType == Seconds \subseteq Nat /\ None \notin Seconds
BY SessionsAssumption DEF Seconds

LEMMA IdleType == Idle \in Job
BY DEF Idle, Job, Places

-----------------------------------------------------------------------------
(* The step of one request.  It is alone only if all others are idle.      *)

OwnStep(r) ==
  /\ \A q \in Requests \ {r} : job'[q] = job[q]
  /\ alone' => alone /\ \A q \in Requests \ {r} : At(q, "idle")

\* What other requests rely on never goes away.
Grows ==
  /\ mailed \subseteq mailed'
  /\ version <= version'
  /\ \A t \in Seconds : Used(t) => Used(t)'

LEMMA JobsStep ==
  ASSUME Inv, NEW r \in Requests, OwnStep(r), Grows, version' \in Nat, JobOK(r)'
  PROVE  Sole' /\ JobInv'
<1>1. Sole'
  BY DEF OwnStep, Sole, At
<1>2. ASSUME NEW q \in Requests \ {r} PROVE JobOK(q)'
  <2>1. job'[q] = job[q] /\ JobOK(q) /\ job[q] \in Job
    BY DEF OwnStep, Inv, JobInv, TypeOK
  <2>2. CASE alone'
    BY <2>1, <2>2 DEF OwnStep, JobOK, Sound, At
  <2>3. CASE ~alone'
    BY <2>1, <2>3 DEF JobOK, Sound, Grows, Job, Inv, TypeOK
  <2> QED BY <2>2, <2>3
<1> QED BY <1>1, <1>2 DEF JobInv

LEMMA ArriveStep ==
  ASSUME Inv, NEW r \in Requests, Arrive(r), \A q \in Requests \ {r} : job'[q] = job[q]
  PROVE  OwnStep(r) /\ alone' \in BOOLEAN
BY DEF OwnStep, Arrive, At, Inv, TypeOK

LEMMA GoingStep ==
  ASSUME Inv, NEW r \in Requests, ~At(r, "idle"), NEW j \in Job,
         job' = [job EXCEPT ![r] = j], UNCHANGED alone
  PROVE  OwnStep(r) /\ job' \in [Requests -> Job] /\ job'[r] = j
BY DEF OwnStep, Inv, TypeOK, Sole

LEMMA FinishStep ==
  ASSUME Inv, NEW r \in Requests, ~At(r, "idle"), Finish(r), Grows, version' \in Nat
  PROVE  job' \in [Requests -> Job] /\ Sole' /\ JobInv'
<1>1. OwnStep(r) /\ job' \in [Requests -> Job] /\ job'[r] = Idle
  BY IdleType, GoingStep DEF Finish
<1>2. JobOK(r)'
  BY <1>1 DEF JobOK, Sound, Idle
<1> QED BY <1>1, <1>2, JobsStep

\* A request that begins has read what is true.
LEMMA BeginInv ==
  ASSUME Inv, NEW r \in Requests, NEW j \in Job, Begin(r, j), Sound(j),
         UNCHANGED <<now, sessions, closed, account>>
  PROVE  Inv'
<1>1. /\ job' \in [Requests -> Job]
      /\ job'[r] = j
      /\ \A q \in Requests \ {r} : job'[q] = job[q]
      /\ Arrive(r)
  BY DEF Begin, Inv, TypeOK
<1>2. OwnStep(r) /\ alone' \in BOOLEAN /\ (alone' => alone)
  BY <1>1, ArriveStep DEF OwnStep
<1>3. Grows /\ version' \in Nat
  BY DEF account, Grows, Used, Inv, TypeOK
<1>4. JobOK(r)'
  BY <1>1, <1>2 DEF JobOK, Sound, Used, Live, account
<1>5. Sole' /\ JobInv'
  BY <1>2, <1>3, <1>4, JobsStep
<1>6. SessionInv' /\ ResetInv'
  BY <1>2 DEF account, SessionInv, ResetInv, Used, Live, Inv
<1> QED BY <1>1, <1>2, <1>5, <1>6 DEF Inv, TypeOK, account

-----------------------------------------------------------------------------
(* The steps that do not begin.                                            *)

\* The clocks, and a request that fails.
LEMMA QuietInv ==
  ASSUME Inv, UNCHANGED <<sessions, closed, password, version, mailed, uses>>,
         now' \in Seconds,
         reset' = reset \/ reset' = [reset EXCEPT !.late = TRUE],
         UNCHANGED <<job, alone>> \/ \E r \in Requests : ~At(r, "idle") /\ Finish(r)
  PROVE  Inv'
<1>1. Grows /\ version' \in Nat
  BY DEF Grows, Used, Inv, TypeOK
<1>2. job' \in [Requests -> Job] /\ Sole' /\ JobInv'
  <2>1. CASE UNCHANGED <<job, alone>>
    BY <2>1 DEF Inv, TypeOK, Sole, At, JobInv, JobOK, Sound, Used, Live
  <2>2. CASE \E r \in Requests : ~At(r, "idle") /\ Finish(r)
    BY <1>1, <2>2, FinishStep
  <2> QED BY <2>1, <2>2
<1>3. reset'.token = reset.token /\ reset' \in [token : ResetTokens \cup {None}, late : BOOLEAN]
  BY DEF Inv, TypeOK
<1>4. alone' = alone
  BY DEF Finish
<1>5. SessionInv' /\ ResetInv'
  BY <1>3, <1>4 DEF Inv, SessionInv, ResetInv, Used, Live
<1> QED BY <1>2, <1>3, <1>4, <1>5 DEF Inv, TypeOK

LEMMA SignInv ==
  ASSUME Inv, NEW r \in Requests, SignRefreshToken(r)
  PROVE  Inv'
<1> DEFINE j == [job[r] EXCEPT !.at = "issue", !.token = now]
<1>1. job[r] \in Job /\ now \in Seconds /\ job[r].at = "sign" /\ JobOK(r)
  BY DEF Inv, TypeOK, JobInv, SignRefreshToken, At
<1>2. /\ j \in Job
      /\ j.at = "issue" /\ j.token = now
      /\ j.session = job[r].session /\ j.version = job[r].version
  BY <1>1 DEF Job, Places
<1>3. Sound(j)
  BY <1>1, <1>2 DEF JobOK, Sound
<1>4. /\ job' = [job EXCEPT ![r] = j]
      /\ ~At(r, "idle")
      /\ UNCHANGED <<now, sessions, closed, alone, account>>
  BY <1>1 DEF SignRefreshToken, At
<1> HIDE DEF j
<1>5. OwnStep(r) /\ job' \in [Requests -> Job] /\ job'[r] = j
  BY <1>2, <1>4, GoingStep
<1>6. JobOK(r)'
  BY <1>3, <1>4, <1>5 DEF JobOK, Sound, Used, Live, account
<1>7. Sole' /\ JobInv'
  BY <1>4, <1>5, <1>6, JobsStep DEF Grows, Used, account, Inv, TypeOK
<1>8. SessionInv' /\ ResetInv'
  BY <1>4 DEF account, SessionInv, ResetInv, Used, Live, Inv
<1> QED BY <1>4, <1>5, <1>7, <1>8 DEF Inv, TypeOK, account

LEMMA LiveUsed == \A t : Live(t) => Used(t)
BY DEF Live, Used

\* What revoking does to a row.
LEMMA RevokedRow ==
  ASSUME Inv, NEW t \in Seconds
  PROVE  /\ Revoked(t) \in Session
         /\ Revoked(t).status = "revoked"
         /\ Revoked(t).login = sessions[t].login
         /\ Revoked(t).version = sessions[t].version
BY DEF Inv, TypeOK, Session, Revoked

KeptOrRevoked(t) ==
  \/ sessions'[t] = sessions[t]
  \/ Used(t) /\ sessions'[t] = Revoked(t)

\* Only a row that is used is revoked, and nothing else changes.
LEMMA RevokeSessions ==
  ASSUME Inv, sessions' \in [Seconds -> Session],
         \A t \in Seconds : KeptOrRevoked(t),
         UNCHANGED version,
         alone' => alone,
         closed' <= version,
         alone' => \A t \in Seconds : Live(t)' => sessions[t].version >= closed'
  PROVE  SessionInv' /\ \A t \in Seconds : Used(t)' <=> Used(t)
<1>1. \A t \in Seconds :
        /\ sessions'[t].login = sessions[t].login
        /\ sessions'[t].version = sessions[t].version
        /\ Used(t)' <=> Used(t)
        /\ Live(t)' => Live(t)
  BY RevokedRow DEF KeptOrRevoked, Used, Live
<1>2. ASSUME NEW t \in Seconds, Used(t)'
      PROVE  sessions'[t].login \in Seconds /\ Used(sessions[t].login)'
  <2>1. PICK l \in Seconds : l = sessions[t].login /\ Used(l)
    BY <1>1, <1>2 DEF Inv, SessionInv
  <2>2. sessions'[t].login = l /\ sessions'[l].status # "none"
    BY <1>1, <2>1 DEF Used
  <2> QED BY <2>2 DEF Used
<1>3. ASSUME alone', NEW t \in Seconds, NEW u \in Seconds, Live(t)', Live(u)',
             sessions'[t].login = sessions'[u].login
      PROVE  t = u
  <2>1. Live(t) /\ Live(u) /\ sessions[t].login = sessions[u].login
    BY <1>1, <1>3
  <2> QED BY <1>3, <2>1 DEF Inv, SessionInv
<1>4. alone' => \A t \in Seconds : Live(t)' => sessions'[t].version >= closed'
  BY <1>1
<1> QED BY <1>1, <1>2, <1>3, <1>4 DEF SessionInv

LEMMA LogoutInv ==
  ASSUME Inv, NEW r \in Requests, NEW t \in Seconds, Logout(r, t)
  PROVE  Inv'
<1>1. /\ Arrive(r) /\ Live(t)
      /\ sessions' = [sessions EXCEPT ![t] = Revoked(t)]
      /\ UNCHANGED <<now, job, closed, account>>
  BY DEF Logout
<1>2. OwnStep(r) /\ alone' \in BOOLEAN /\ (alone' => alone)
  BY <1>1, ArriveStep DEF OwnStep
<1>3. sessions' \in [Seconds -> Session]
  BY <1>1, RevokedRow DEF Inv, TypeOK
<1>4. \A u \in Seconds : KeptOrRevoked(u)
  BY <1>1, LiveUsed DEF Inv, TypeOK, KeptOrRevoked
<1>5. \A u \in Seconds : Live(u)' => Live(u)
  BY <1>1, RevokedRow DEF Inv, TypeOK, Live
<1>6. SessionInv' /\ \A u \in Seconds : Used(u)' <=> Used(u)
  BY <1>1, <1>2, <1>3, <1>4, <1>5, RevokeSessions DEF account, Inv, SessionInv
<1>7. Grows /\ version' \in Nat
  BY <1>1, <1>6 DEF Grows, account, Inv, TypeOK
<1>8. JobOK(r)'
  BY <1>1, <1>2 DEF JobOK, Sound, Arrive, At
<1>9. Sole' /\ JobInv'
  BY <1>2, <1>7, <1>8, JobsStep
<1>10. ResetInv'
  BY <1>1, <1>2 DEF account, Inv, ResetInv
<1> QED BY <1>1, <1>2, <1>3, <1>6, <1>9, <1>10 DEF Inv, TypeOK, account

LEMMA RevokeAllInv ==
  ASSUME Inv, NEW r \in Requests, RevokeAll(r)
  PROVE  Inv'
<1>1. /\ job[r].at = "revoke" /\ ~At(r, "idle")
      /\ sessions' = [t \in Seconds |-> IF Live(t) THEN Revoked(t) ELSE sessions[t]]
      /\ closed' = IF job[r].version > closed THEN job[r].version ELSE closed
      /\ Finish(r)
      /\ UNCHANGED <<now, account>>
  BY DEF RevokeAll, At
<1>2. /\ job[r].version \in Nat /\ job[r].version <= version
      /\ closed \in Nat /\ closed <= version /\ version \in Nat
  BY <1>1 DEF Inv, TypeOK, Job, JobInv, JobOK, Sound, SessionInv
<1>3. closed' \in Nat /\ closed' <= version
  BY <1>1, <1>2
<1>4. sessions' \in [Seconds -> Session]
  BY <1>1, RevokedRow DEF Inv, TypeOK
<1>5. \A t \in Seconds : KeptOrRevoked(t)
  BY <1>1, LiveUsed DEF KeptOrRevoked
<1>6. \A t \in Seconds : ~Live(t)'
  BY <1>1, RevokedRow DEF Live
<1>7. alone' = alone
  BY <1>1 DEF Finish
<1>8. SessionInv' /\ \A t \in Seconds : Used(t)' <=> Used(t)
  BY <1>1, <1>3, <1>4, <1>5, <1>6, <1>7, RevokeSessions DEF account
<1>9. Grows /\ version' \in Nat
  BY <1>1, <1>2, <1>8 DEF Grows, account
<1>10. job' \in [Requests -> Job] /\ Sole' /\ JobInv'
  BY <1>1, <1>9, FinishStep
<1>11. ResetInv'
  BY <1>1, <1>7 DEF account, Inv, ResetInv
<1> QED BY <1>1, <1>3, <1>4, <1>7, <1>8, <1>10, <1>11 DEF Inv, TypeOK, account

LEMMA ForgotInv ==
  ASSUME Inv, NEW r \in Requests, NEW k \in ResetTokens, ForgotPassword(r, k)
  PROVE  Inv'
<1>1. /\ Arrive(r) /\ k \notin mailed
      /\ mailed' = mailed \cup {k}
      /\ reset' = [token |-> k, late |-> FALSE]
      /\ UNCHANGED <<now, password, sessions, job, version, closed, uses>>
  BY DEF ForgotPassword
<1>2. OwnStep(r) /\ alone' \in BOOLEAN /\ (alone' => alone)
  BY <1>1, ArriveStep DEF OwnStep
<1>3. Grows /\ version' \in Nat
  BY <1>1 DEF Grows, Used, Inv, TypeOK
<1>4. JobOK(r)'
  BY <1>1 DEF JobOK, Sound, Arrive, At
<1>5. Sole' /\ JobInv'
  BY <1>2, <1>3, <1>4, JobsStep
<1>6. uses[k] \in Nat /\ uses[k] = 0
  BY <1>1 DEF Inv, TypeOK, ResetInv
<1>7. SessionInv' /\ ResetInv'
  BY <1>1, <1>2, <1>6 DEF Inv, SessionInv, ResetInv, Used, Live
<1> QED BY <1>1, <1>2, <1>5, <1>7 DEF Inv, TypeOK

LEMMA ChangeWriteInv ==
  ASSUME Inv, NEW r \in Requests, ChangeWrite(r)
  PROVE  Inv'
<1>1. /\ job[r].at = "change" /\ ~At(r, "idle")
      /\ password' = job[r].password
      /\ Finish(r)
      /\ UNCHANGED <<now, reset, sessions, version, closed, mailed, uses>>
  BY DEF ChangeWrite, At
<1>2. job[r].password \in Passwords
  BY <1>1 DEF Inv, JobInv, JobOK, Sound
<1>3. Grows /\ version' \in Nat
  BY <1>1 DEF Grows, Used, Inv, TypeOK
<1>4. job' \in [Requests -> Job] /\ Sole' /\ JobInv'
  BY <1>1, <1>3, FinishStep
<1>5. alone' = alone
  BY <1>1 DEF Finish
<1>6. SessionInv' /\ ResetInv'
  BY <1>1, <1>5 DEF Inv, SessionInv, ResetInv, Used, Live
<1> QED BY <1>1, <1>2, <1>4, <1>5, <1>6 DEF Inv, TypeOK

\* Setting the password uses up the token, which only this request holds if
\* it is alone.
LEMMA ResetWriteInv ==
  ASSUME Inv, NEW r \in Requests, ResetWrite(r)
  PROVE  Inv'
<1> DEFINE j == [job[r] EXCEPT !.at = "revoke", !.version = version + 1]
<1>1. /\ job[r].at = "reset" /\ ~At(r, "idle")
      /\ password' = job[r].password
      /\ reset' = NoReset
      /\ version' = version + 1
      /\ uses' = [uses EXCEPT ![job[r].key] = @ + 1]
      /\ job' = [job EXCEPT ![r] = j]
      /\ UNCHANGED <<now, sessions, closed, mailed, alone>>
  BY DEF ResetWrite, At
<1>2. /\ job[r] \in Job
      /\ job[r].password \in Passwords
      /\ job[r].key \in mailed
      /\ alone => uses[job[r].key] = 0
  BY <1>1 DEF Inv, TypeOK, JobInv, JobOK, Sound
<1>3. /\ version \in Nat /\ version + 1 \in Nat
      /\ closed \in Nat /\ closed <= version
  BY DEF Inv, TypeOK, SessionInv
<1>4. j \in Job /\ j.at = "revoke" /\ j.version = version + 1
  BY <1>2, <1>3 DEF Job, Places
<1> HIDE DEF j
<1>5. OwnStep(r) /\ job' \in [Requests -> Job] /\ job'[r] = j
  BY <1>1, <1>4, GoingStep
<1>6. JobOK(r)'
  BY <1>1, <1>3, <1>4, <1>5 DEF JobOK, Sound
<1>7. Grows /\ version' \in Nat
  BY <1>1, <1>3 DEF Grows, Used
<1>8. Sole' /\ JobInv'
  BY <1>5, <1>6, <1>7, JobsStep
<1>9. PICK k \in ResetTokens : k = job[r].key /\ k \in mailed
  BY <1>2 DEF Inv, TypeOK
<1>10. /\ uses' \in [ResetTokens -> Nat]
       /\ uses'[k] = uses[k] + 1
       /\ \A l \in ResetTokens \ {k} : uses'[l] = uses[l]
  BY <1>1, <1>9 DEF Inv, TypeOK
<1>11. reset'.token = None /\ None \notin ResetTokens
  BY <1>1, SessionsAssumption DEF NoReset
<1>12. ResetInv'
  BY <1>1, <1>2, <1>9, <1>10, <1>11 DEF Inv, ResetInv
<1>13. SessionInv'
  BY <1>1, <1>3 DEF Inv, SessionInv, Used, Live
<1>14. NoReset \in [token : ResetTokens \cup {None}, late : BOOLEAN]
  BY DEF NoReset
<1> QED BY <1>1, <1>2, <1>5, <1>7, <1>8, <1>10, <1>12, <1>13, <1>14 DEF Inv, TypeOK

\* The token is new.  If the request is alone, the session it renews is live
\* until now, so its login goes on with one live session.
LEMMA IssueInv ==
  ASSUME Inv, NEW r \in Requests, Issue(r)
  PROVE  Inv'
<1>1. /\ job[r].at = "issue" /\ ~At(r, "idle")
      /\ sessions[job[r].token].status = "none"
      /\ sessions' = [t \in Seconds |-> CASE t = job[r].token   -> NewSession(r)
                                           [] t = job[r].session -> Revoked(t)
                                           [] OTHER              -> sessions[t]]
      /\ Finish(r)
      /\ UNCHANGED <<now, closed, account>>
  BY DEF Issue, At
<1>2. /\ job[r] \in Job /\ job[r].token \in Seconds
      /\ job[r].session # None => Used(job[r].session) /\ (alone => Live(job[r].session))
      /\ alone => job[r].version >= closed
  BY <1>1 DEF Inv, TypeOK, JobInv, JobOK, Sound
<1>3. job[r].session \in Seconds \cup {None} /\ job[r].version \in Nat
  BY <1>2 DEF Job
<1>4. PICK new \in Seconds : new = job[r].token
  BY <1>2
<1>5. PICK old \in Seconds \cup {None} : old = job[r].session
  BY <1>3
<1> DEFINE row == NewSession(r)
<1>6. /\ row \in Session
      /\ row.status = "live"
      /\ row.version = job[r].version
      /\ row.login = IF old = None THEN new ELSE sessions[old].login
  BY <1>3, <1>4, <1>5 DEF NewSession, Session, Inv, TypeOK
<1> HIDE DEF row
<1>7. ~Used(new) /\ old # new
  BY <1>1, <1>2, <1>4, <1>5, SecondsType DEF Used
<1>8. /\ sessions' \in [Seconds -> Session]
      /\ sessions'[new] = row
      /\ \A t \in Seconds \ {new} :
           sessions'[t] = IF t = old THEN Revoked(t) ELSE sessions[t]
  <2>1. /\ sessions' = [t \in Seconds |-> CASE t = new -> row
                                           [] t = old -> Revoked(t)
                                           [] OTHER   -> sessions[t]]
    BY <1>1, <1>4, <1>5 DEF row
  <2>2. sessions'[new] = row
    BY <1>7, <2>1
  <2>3. \A t \in Seconds \ {new} :
          sessions'[t] = IF t = old THEN Revoked(t) ELSE sessions[t]
    BY <2>1
  <2>4. \A t \in Seconds : sessions'[t] \in Session
    BY <1>6, <2>2, <2>3, RevokedRow DEF Inv, TypeOK
  <2>5. sessions' = [t \in Seconds |-> sessions'[t]]
    BY <2>1
  <2> QED BY <2>2, <2>3, <2>4, <2>5
<1>9. \A t \in Seconds \ {new} :
        /\ sessions'[t].login = sessions[t].login
        /\ sessions'[t].version = sessions[t].version
        /\ Used(t)' <=> (Used(t) \/ t = old)
        /\ Live(t)' <=> (Live(t) /\ t # old)
  BY <1>8, RevokedRow DEF Used, Live
<1>10. Used(new)' /\ Live(new)'
  BY <1>6, <1>8 DEF Used, Live
<1>11. \A t \in Seconds : Used(t) => Used(t)'
  BY <1>9, <1>10
<1>12. alone' = alone
  BY <1>1 DEF Finish
<1>13. job' \in [Requests -> Job] /\ Sole' /\ JobInv'
  BY <1>1, <1>11, FinishStep DEF Grows, account, Inv, TypeOK
<1>14. ResetInv'
  BY <1>1, <1>12 DEF account, Inv, ResetInv
<1>15. SessionInv'
  <2>1. closed' <= version'
    BY <1>1 DEF account, Inv, SessionInv
  <2>2. ASSUME NEW t \in Seconds, Used(t)'
        PROVE  sessions'[t].login \in Seconds /\ Used(sessions[t].login)'
    <3>1. CASE t # new \/ old # None
      <4>1. PICK s \in Seconds : Used(s) /\ sessions'[t].login = sessions[s].login
        <5>1. CASE t = new
          <6>1. old \in Seconds /\ Used(old)
            BY <1>2, <1>5, <3>1, <5>1
          <6> QED BY <1>6, <1>8, <3>1, <5>1, <6>1
        <5>2. CASE t # new /\ t = old
          <6>1. Used(old)
            BY <1>2, <1>5, <5>2, SecondsType
          <6> QED BY <1>9, <5>2, <6>1
        <5>3. CASE t # new /\ t # old
          BY <1>9, <2>2, <5>3
        <5> QED BY <5>1, <5>2, <5>3
      <4>2. PICK l \in Seconds : l = sessions[s].login /\ Used(l)
        BY <4>1 DEF Inv, SessionInv
      <4>3. sessions'[t].login = l /\ sessions'[l].status # "none"
        BY <1>11, <4>1, <4>2 DEF Used
      <4> QED BY <4>3 DEF Used
    <3>2. CASE t = new /\ old = None
      <4>1. sessions'[t].login = new /\ sessions'[new].status # "none"
        BY <1>6, <1>8, <1>10, <3>2 DEF Used
      <4> QED BY <4>1 DEF Used
    <3> QED BY <3>1, <3>2
  <2>3. alone => \A t \in Seconds : Live(t)' => sessions'[t].version >= closed
    BY <1>2, <1>6, <1>8, <1>9 DEF Inv, SessionInv
  <2>4. ASSUME alone, NEW t \in Seconds \ {new}, Live(t)' PROVE sessions'[t].login # row.login
    <3>1. Live(t) /\ t # old /\ sessions'[t].login = sessions[t].login
      BY <1>9, <2>4
    <3>2. CASE old = None
      BY <1>6, <1>7, <3>1, <3>2, LiveUsed DEF Inv, SessionInv
    <3>3. CASE old # None
      <4>1. old \in Seconds /\ Live(old) /\ row.login = sessions[old].login
        BY <1>2, <1>5, <1>6, <2>4, <3>3
      <4> QED BY <2>4, <3>1, <4>1 DEF Inv, SessionInv
    <3> QED BY <3>2, <3>3
  <2>5. ASSUME alone, NEW t \in Seconds, NEW u \in Seconds, Live(t)', Live(u)',
               sessions'[t].login = sessions'[u].login
        PROVE  t = u
    <3>1. CASE t = new \/ u = new
      BY <1>8, <2>4, <2>5, <3>1
    <3>2. CASE t # new /\ u # new
      BY <1>9, <2>5, <3>2 DEF Inv, SessionInv
    <3> QED BY <3>1, <3>2
  <2> QED BY <1>1, <1>12, <2>1, <2>2, <2>3, <2>5 DEF SessionInv
<1> QED BY <1>1, <1>8, <1>12, <1>13, <1>14, <1>15 DEF Inv, TypeOK, account

-----------------------------------------------------------------------------
(* The steps that begin, and the whole.                                    *)

LEMMA LoginCheckInv ==
  ASSUME Inv, NEW r \in Requests, NEW p \in Passwords, LoginCheck(r, p)
  PROVE  Inv'
<1> DEFINE j == [Idle EXCEPT !.at = "sign", !.version = version]
<1>1. version \in Nat /\ closed <= version /\ closed \in Nat
  BY DEF Inv, TypeOK, SessionInv
<1>2. j \in Job /\ j.at = "sign" /\ j.session = None /\ j.version = version
  BY <1>1 DEF Idle, Job, Places
<1>3. Begin(r, j) /\ UNCHANGED <<now, sessions, closed, account>>
  BY DEF LoginCheck
<1> HIDE DEF j
<1>4. Sound(j)
  BY <1>1, <1>2 DEF Sound
<1> QED BY <1>2, <1>3, <1>4, BeginInv

LEMMA RefreshCheckInv ==
  ASSUME Inv, NEW r \in Requests, NEW t \in Seconds, RefreshCheck(r, t)
  PROVE  Inv'
<1> DEFINE j == [Idle EXCEPT !.at = "sign", !.session = t, !.version = sessions[t].version]
<1>1. Live(t) /\ Used(t) /\ sessions[t].version \in Nat
  BY LiveUsed DEF RefreshCheck, Inv, TypeOK, Session
<1>2. /\ j \in Job
      /\ j.at = "sign" /\ j.session = t /\ j.version = sessions[t].version
  BY <1>1 DEF Idle, Job, Places
<1>3. Begin(r, j) /\ UNCHANGED <<now, sessions, closed, account>>
  BY DEF RefreshCheck
<1> HIDE DEF j
<1>4. Sound(j)
  BY <1>1, <1>2 DEF Sound, Inv, SessionInv
<1> QED BY <1>2, <1>3, <1>4, BeginInv

LEMMA ResetCheckInv ==
  ASSUME Inv, NEW r \in Requests, NEW k \in ResetTokens, NEW new \in Passwords,
         ResetCheck(r, k, new)
  PROVE  Inv'
<1> DEFINE j == [Idle EXCEPT !.at = "reset", !.key = k, !.password = new]
<1>1. reset.token = k
  BY DEF ResetCheck
<1>2. j \in Job /\ j.at = "reset" /\ j.key = k /\ j.password = new
  BY DEF Idle, Job, Places
<1>3. Begin(r, j) /\ UNCHANGED <<now, sessions, closed, account>>
  BY DEF ResetCheck
<1> HIDE DEF j
<1>4. Sound(j)
  BY <1>1, <1>2, SessionsAssumption DEF Sound, Inv, ResetInv
<1> QED BY <1>2, <1>3, <1>4, BeginInv

LEMMA ChangeCheckInv ==
  ASSUME Inv, NEW r \in Requests, NEW current \in Passwords, NEW new \in Passwords,
         ChangeCheck(r, current, new)
  PROVE  Inv'
<1> DEFINE j == [Idle EXCEPT !.at = "change", !.password = new]
<1>1. j \in Job /\ j.at = "change" /\ j.password = new
  BY DEF Idle, Job, Places
<1>2. Begin(r, j) /\ UNCHANGED <<now, sessions, closed, account>>
  BY DEF ChangeCheck
<1> HIDE DEF j
<1>3. Sound(j)
  BY <1>1 DEF Sound
<1> QED BY <1>1, <1>2, <1>3, BeginInv

LEMMA InitInv == Init => Inv
<1> SUFFICES ASSUME Init PROVE Inv
  OBVIOUS
<1>1. TypeOK
  BY IdleType, SessionsAssumption DEF Init, TypeOK, NoReset, Seconds, Session
<1>2. Sole /\ SessionInv
  BY DEF Init, Sole, At, Idle, SessionInv, Used, Live
<1>3. ResetInv
  BY SessionsAssumption DEF Init, ResetInv, NoReset
<1>4. JobInv
  BY DEF Init, JobInv, JobOK, Sound, Idle
<1> QED BY <1>1, <1>2, <1>3, <1>4 DEF Inv

LEMMA NextInv == Inv /\ [Next]_vars => Inv'
<1> SUFFICES ASSUME Inv, [Next]_vars PROVE Inv'
  OBVIOUS
<1>1. CASE UNCHANGED vars
  BY <1>1, QuietInv DEF vars, Inv, TypeOK
<1>2. ASSUME NEW r \in Requests, SessionNext(r) PROVE Inv'
  BY <1>2, LoginCheckInv, RefreshCheckInv, LogoutInv, SignInv, IssueInv DEF SessionNext
<1>3. ASSUME NEW r \in Requests, PasswordNext(r) PROVE Inv'
  BY <1>3, ForgotInv, ResetCheckInv, ResetWriteInv, RevokeAllInv, ChangeCheckInv, ChangeWriteInv
     DEF PasswordNext
<1>4. ASSUME NEW r \in Requests, Fail(r) PROVE Inv'
  BY <1>4, QuietInv DEF Fail, account, Inv, TypeOK
<1>5. CASE Tick
  <2>1. now' \in Seconds
    BY <1>5, SessionsAssumption DEF Tick, Inv, TypeOK, Seconds
  <2> QED BY <1>5, <2>1, QuietInv DEF Tick, account
<1>6. CASE ResetTokenExpires
  BY <1>6, QuietInv DEF ResetTokenExpires, Inv, TypeOK
<1> QED BY <1>1, <1>2, <1>3, <1>4, <1>5, <1>6 DEF Next

LEMMA InvAlways == Spec => []Inv
BY InitInv, NextInv, PTL DEF Spec

-----------------------------------------------------------------------------
(* The theorems.                                                           *)

\* The rows, the local variables and the histories keep their types.
THEOREM SessionsTypeCorrect == Spec => []TypeOK
<1>1. Inv => TypeOK
  BY DEF Inv
<1> QED BY <1>1, InvAlways, PTL

\* After a completed reset, no session of an older password is live, as long as
\* no two requests have overlapped.
THEOREM ResetEndsSessions == Spec => []NoSessionSurvivesReset
<1>1. Inv => NoSessionSurvivesReset
  BY DEF Inv, SessionInv, NoSessionSurvivesReset
<1> QED BY <1>1, InvAlways, PTL

\* However often it is renewed, a login has one live session, as long as no two
\* requests have overlapped.
THEOREM LoginHasOneSession == Spec => []OneSessionPerLogin
<1>1. Inv => OneSessionPerLogin
  BY DEF Inv, SessionInv, OneSessionPerLogin, Chain
<1> QED BY <1>1, InvAlways, PTL

\* A reset token sets one password, as long as no two requests have overlapped.
THEOREM ResetTokenSetsOnePassword == Spec => []ResetTokenUsedOnce
<1>1. Inv => ResetTokenUsedOnce
  BY DEF Inv, ResetInv, ResetTokenUsedOnce
<1> QED BY <1>1, InvAlways, PTL

\* Only these steps touch the sessions.
LEMMA SessionsWritten ==
  ASSUME Next, ~UNCHANGED sessions
  PROVE  \E r \in Requests : Issue(r) \/ RevokeAll(r) \/ \E t \in Seconds : Logout(r, t)
BY DEF Next, SessionNext, PasswordNext, Fail, Tick, ResetTokenExpires, LoginCheck, RefreshCheck,
       SignRefreshToken, ForgotPassword, ResetCheck, ResetWrite, ChangeCheck, ChangeWrite

LEMMA RevokedStays ==
  ASSUME Inv, Next, NEW t \in Seconds, sessions[t].status = "revoked"
  PROVE  sessions'[t].status = "revoked"
<1>1. CASE UNCHANGED sessions
  BY <1>1
<1>2. ASSUME NEW r \in Requests, Issue(r) PROVE sessions'[t].status = "revoked"
  BY <1>2, RevokedRow DEF Issue
<1>3. ASSUME NEW r \in Requests, RevokeAll(r) PROVE sessions'[t].status = "revoked"
  BY <1>3 DEF RevokeAll, Live
<1>4. ASSUME NEW r \in Requests, NEW u \in Seconds, Logout(r, u)
      PROVE  sessions'[t].status = "revoked"
  BY <1>4 DEF Logout, Live, Inv, TypeOK
<1> QED BY <1>1, <1>2, <1>3, <1>4, SessionsWritten

\* A revoked token never becomes valid again, whatever requests overlap.
THEOREM RevocationIsFinal == Spec => RevokedForGood
<1>1. ASSUME Inv, [Next]_vars
      PROVE  [\A t \in Seconds :
                sessions[t].status = "revoked" => sessions'[t].status = "revoked"]_vars
  BY <1>1, RevokedStays
<1> QED BY <1>1, InvAlways, PTL DEF Spec, RevokedForGood

\* If the request is alone, the session it renews is live, so its login has not
\* ended; a login's first token is one that no session has had.
LEMMA EndedStays ==
  ASSUME Inv, Next, alone, NEW login \in Seconds, Used(login), Chain(login) = {}
  PROVE  Chain(login)' = {}
<1> SUFFICES ASSUME NEW t \in Seconds, Live(t)', sessions'[t].login = login PROVE FALSE
  BY DEF Chain
<1>1. Live(t) => sessions[t].login # login
  BY DEF Chain
<1>2. CASE UNCHANGED sessions
  BY <1>1, <1>2 DEF Live
<1>3. ASSUME NEW r \in Requests, Issue(r) PROVE FALSE
  <2>1. /\ job[r].at = "issue" /\ ~Used(job[r].token)
        /\ sessions'[t] = CASE t = job[r].token   -> NewSession(r)
                            [] t = job[r].session -> Revoked(t)
                            [] OTHER              -> sessions[t]
    BY <1>3 DEF Issue, At, Used
  <2>2. job[r].session # None => Live(job[r].session)
    BY <2>1 DEF Inv, JobInv, JobOK, Sound
  <2>3. job[r].session # None => job[r].session # job[r].token
    BY <2>1, <2>2, LiveUsed, SecondsType
  <2>4. t = job[r].token
    <3> SUFFICES ASSUME t # job[r].token PROVE FALSE
      OBVIOUS
    <3>1. sessions'[t] = IF t = job[r].session THEN Revoked(t) ELSE sessions[t]
      BY <2>1
    <3> QED BY <1>1, <3>1, RevokedRow DEF Live
  <2>5. login = IF job[r].session = None THEN job[r].token
                ELSE sessions[job[r].session].login
    BY <2>1, <2>3, <2>4, SecondsType DEF NewSession
  <2>6. job[r].session \in Seconds \cup {None}
    BY DEF Inv, TypeOK, Job
  <2>7. CASE job[r].session = None
    BY <2>1, <2>5, <2>7
  <2>8. CASE job[r].session # None
    BY <2>2, <2>5, <2>6, <2>8 DEF Chain
  <2> QED BY <2>7, <2>8
<1>4. ASSUME NEW r \in Requests, RevokeAll(r) PROVE FALSE
  BY <1>1, <1>4, RevokedRow DEF RevokeAll, Live
<1>5. ASSUME NEW r \in Requests, NEW u \in Seconds, Logout(r, u) PROVE FALSE
  <2>1. sessions'[t] = IF t = u THEN Revoked(t) ELSE sessions[t]
    BY <1>5 DEF Logout, Inv, TypeOK
  <2> QED BY <1>1, <2>1, RevokedRow DEF Live
<1> QED BY <1>2, <1>3, <1>4, <1>5, SessionsWritten

\* A login whose sessions are all revoked cannot be renewed, as long as no two
\* requests have overlapped.
THEOREM EndedLoginsStayEnded == Spec => EndedForGood
<1>1. ASSUME Inv, [Next]_vars
      PROVE  [alone => \A login \in Seconds :
                sessions[login].status # "none" /\ Chain(login) = {}
                  => Chain(login)' = {}]_vars
  BY <1>1, EndedStays DEF Used
<1> QED BY <1>1, InvAlways, PTL DEF Spec, EndedForGood

-----------------------------------------------------------------------------
(* The token a renewal gets.                                               *)

\* Only renewals that are answered count: the token of such a renewal is new,
\* because refresh_token_sessions still has the row of the old one.
IssuedTokenIsNew ==
  [][\A r \in Requests :
       Issue(r) /\ job[r].session # None => job[r].token # job[r].session]_vars

\* A renewal that signs the token it was called with fails with an error of the
\* unique index and opens no session (AuthService.refreshToken).
THEOREM RenewalNeverReusesToken == Spec => IssuedTokenIsNew
<1>1. ASSUME Inv, [Next]_vars
      PROVE  [\A r \in Requests : Issue(r) /\ job[r].session # None
                => job[r].token # job[r].session]_vars
  <2> SUFFICES ASSUME NEW r \in Requests, Issue(r), job[r].session # None
               PROVE  job[r].token # job[r].session
    OBVIOUS
  <2>1. job[r].at = "issue" /\ ~Used(job[r].token)
    BY DEF Issue, At, Used
  <2>2. Used(job[r].session)
    BY <1>1, <2>1 DEF Inv, JobInv, JobOK, Sound
  <2> QED BY <2>1, <2>2
<1> QED BY <1>1, InvAlways, PTL DEF Spec, IssuedTokenIsNew

\* Clients renew in a later second than the one the token was signed in.
RenewsLater == \A r \in Requests, t \in Seconds : RefreshCheck(r, t) => t < now

Later(j) ==
  j.session # None =>
    /\ j.at = "sign" => j.session < now
    /\ j.at = "issue" => j.session < j.token

LaterInv == \A r \in Requests : Later(job[r])

\* Other steps sign nothing and renew nothing; the clock does not go back.
LEMMA LaterKept ==
  ASSUME Inv, LaterInv, NEW r \in Requests, NEW j, job' = [job EXCEPT ![r] = j],
         j.session = None \/ j.at \notin {"sign", "issue"}, UNCHANGED now
  PROVE  LaterInv'
<1>1. job'[r] = j /\ \A q \in Requests \ {r} : job'[q] = job[q]
  BY DEF Inv, TypeOK
<1> QED BY <1>1 DEF LaterInv, Later

LEMMA LaterStep ==
  Inv /\ LaterInv /\ [Next]_vars /\ [RenewsLater]_vars => LaterInv'
<1> SUFFICES ASSUME Inv, LaterInv, [Next]_vars, [RenewsLater]_vars PROVE LaterInv'
  OBVIOUS
<1>1. job \in [Requests -> Job] /\ now \in Nat
  BY SecondsType DEF Inv, TypeOK
<1>2. CASE UNCHANGED job /\ now' >= now /\ now' \in Nat
  <2>1. \A r \in Requests : job[r].session \in Nat \cup {None}
    BY <1>1, SecondsType DEF Job
  <2> QED BY <1>1, <1>2, <2>1 DEF LaterInv, Later
<1>3. ASSUME NEW r \in Requests, Finish(r), UNCHANGED now PROVE LaterInv'
  BY <1>3, LaterKept DEF Finish, Idle
<1>4. ASSUME NEW r \in Requests, SessionNext(r), RenewsLater PROVE LaterInv'
  <2>1. ASSUME NEW p \in Passwords, LoginCheck(r, p) PROVE LaterInv'
    BY <2>1, LaterKept DEF LoginCheck, Begin, Idle
  <2>2. ASSUME NEW t \in Seconds, RefreshCheck(r, t) PROVE LaterInv'
    <3>1. t < now
      BY <1>4, <2>2 DEF RenewsLater
    <3>2. /\ job'[r].at = "sign" /\ job'[r].session = t /\ now' = now
          /\ \A q \in Requests \ {r} : job'[q] = job[q]
      BY <1>1, <2>2 DEF RefreshCheck, Begin, Idle
    <3> QED BY <3>1, <3>2 DEF LaterInv, Later
  <2>3. CASE SignRefreshToken(r)
    <3>1. /\ job'[r].at = "issue" /\ job'[r].session = job[r].session
          /\ job'[r].token = now /\ now' = now /\ job[r].at = "sign"
          /\ \A q \in Requests \ {r} : job'[q] = job[q]
      BY <1>1, <2>3 DEF SignRefreshToken, At, Job
    <3> QED BY <3>1 DEF LaterInv, Later
  <2>4. ASSUME NEW t \in Seconds, Logout(r, t) PROVE LaterInv'
    BY <1>1, <1>2, <2>4 DEF Logout
  <2>5. CASE Issue(r)
    BY <1>3, <2>5 DEF Issue
  <2> QED BY <1>4, <2>1, <2>2, <2>3, <2>4, <2>5 DEF SessionNext
<1>5. ASSUME NEW r \in Requests, PasswordNext(r) PROVE LaterInv'
  <2>1. ASSUME NEW k \in ResetTokens, ForgotPassword(r, k) PROVE LaterInv'
    BY <1>1, <1>2, <2>1 DEF ForgotPassword
  <2>2. ASSUME NEW k \in ResetTokens, NEW new \in Passwords, ResetCheck(r, k, new)
        PROVE  LaterInv'
    BY <2>2, LaterKept DEF ResetCheck, Begin, Idle
  <2>3. CASE ResetWrite(r)
    <3>1. /\ job' = [job EXCEPT ![r] = [job[r] EXCEPT !.at = "revoke",
                                                      !.version = version + 1]]
          /\ UNCHANGED now
      BY <2>3 DEF ResetWrite
    <3>2. [job[r] EXCEPT !.at = "revoke", !.version = version + 1].at = "revoke"
      BY <1>1 DEF Job
    <3> QED BY <3>1, <3>2, LaterKept
  <2>4. CASE RevokeAll(r) \/ ChangeWrite(r)
    BY <1>3, <2>4 DEF RevokeAll, ChangeWrite
  <2>5. ASSUME NEW current \in Passwords, NEW new \in Passwords, ChangeCheck(r, current, new)
        PROVE  LaterInv'
    BY <2>5, LaterKept DEF ChangeCheck, Begin, Idle
  <2> QED BY <1>5, <2>1, <2>2, <2>3, <2>4, <2>5 DEF PasswordNext
<1>6. ASSUME NEW r \in Requests, Fail(r) PROVE LaterInv'
  BY <1>3, <1>6 DEF Fail
<1>7. CASE Tick \/ ResetTokenExpires \/ UNCHANGED vars
  BY <1>1, <1>2, <1>7 DEF Tick, ResetTokenExpires, vars
<1> QED BY <1>4, <1>5, <1>6, <1>7 DEF Next, vars

\* The token a renewal signs is a new one as long as nobody renews a session in the
\* second its token was signed: nothing but that second makes two tokens equal.
THEOREM LaterRenewalGetsNewToken == Spec /\ [][RenewsLater]_vars => []RenewalGetsNewToken
<1>1. Init => LaterInv
  BY DEF Init, LaterInv, Later, Idle
<1>2. Inv /\ LaterInv => RenewalGetsNewToken
  <2> SUFFICES ASSUME Inv, LaterInv, NEW r \in Requests, job[r].at = "issue",
                      job[r].session # None
               PROVE  job[r].token # job[r].session
    BY DEF RenewalGetsNewToken, At
  <2>1. job[r].session \in Nat /\ job[r].session < job[r].token
    BY SecondsType DEF Inv, TypeOK, Job, LaterInv, Later
  <2> QED BY <2>1
<1> QED BY <1>1, <1>2, LaterStep, InvAlways, PTL DEF Spec
=============================================================================
