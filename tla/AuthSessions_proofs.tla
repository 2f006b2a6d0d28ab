------------------------- MODULE AuthSessions_proofs -------------------------
(***************************************************************************)
(* Proofs of the safety properties of AuthSessions, for any number of      *)
(* overlapping requests and sessions and any limit on failed logins.       *)
(***************************************************************************)
EXTENDS AuthSessions, TLAPS

(* What a request that is under way has computed. *)
UserOp == {"login", "fail", "logoutAll", "password", "temporary", "lock", "unlock", "patch", "expiry"}
Column == {"locked", "until", "reason", "attempts", "mustChange", "password", "expired", "expiredAt"}
Writing == {Writes(u, v, stamped) : u \in User, v \in User, stamped \in SUBSET Column}
UserCall == [op : UserOp, old : {NoSession}, freed : SessionId \cup {NoSession}, stale : BOOLEAN,
             writes : Writing, revoke : BOOLEAN]
SessionCall == [op : {"refresh", "logout"}, old : SessionId, freed : {NoSession}, row : Row,
                stale : BOOLEAN]
NewRow == [family : {NoSession}, restricted : BOOLEAN, late : {FALSE}]
OpenCall == [op : {"open"}, old : {NoSession}, freed : {NoSession}, stale : BOOLEAN, row : NewRow]
Call == {Idle} \cup UserCall \cup SessionCall \cup OpenCall

Typed ==
  /\ user \in User
  /\ Live \subseteq SessionId /\ sessions \in [Live -> Row]
  /\ request \in [Request -> Call]
  /\ barred \in BOOLEAN /\ ousted \in BOOLEAN /\ overlapped \in BOOLEAN

(* What a request that nothing has overtaken makes of the user, with what it does to the *)
(* sessions: it undoes no lock of an administrator, gives a lock for failed logins an    *)
(* end, and leaves a temporary password with nothing but restricted sessions.  A login   *)
(* leaves the user unlocked.  old is the user now; the last two are histories.           *)
Fine(op, u, revoke, freed, old, bars, over) ==
  /\ op = "login" => ~u.locked
  /\ ~over =>
       /\ op = "lock" => u.locked /\ u.reason = ADMIN
       /\ bars /\ op # "unlock" /\ (op = "patch" => u.locked) => u.locked /\ u.reason = ADMIN
       /\ u.reason = TOO_MANY => u.until # "none"
       /\ u.password = "temporary" =>
            u.mustChange /\ (revoke \/ (old.password = "temporary" /\ freed = NoSession))

UserCallsAreFine ==
  \A r \in Request : LET c == request[r] IN
    c.op \in UserOp /\ ~c.stale =>
      Fine(c.op, Written(user, c.writes), c.revoke, c.freed, user, barred, overlapped)

(* What a request is about to insert into the sessions. *)
SessionCallsAreFine ==
  \A r \in Request : LET c == request[r] IN
    /\ c.op \in {"open", "refresh"} =>
         /\ ousted => c.stale \/ c.row.late
         /\ ~overlapped /\ ~c.stale /\ user.password = "temporary" => c.row.restricted
    /\ c.op = "refresh" /\ ~c.stale /\ ~c.row.late =>
         \A i \in Live : ~sessions[i].late /\ sessions[i].family = c.row.family => i = c.old

LocksPass == user.reason = TOO_MANY /\ ~overlapped => user.until # "none"
OustedIsLocked == ousted => user.locked

Calls == UserCallsAreFine /\ SessionCallsAreFine
Safe ==
  /\ AdminLockHolds /\ LocksPass /\ TemporaryPasswordsAreChanged
  /\ OustedIsLocked /\ LockedOutHasNoSession /\ OneSessionPerFamily

IInv == Typed /\ Calls /\ Safe

-----------------------------------------------------------------------------
(* Columns *)

LEMMA UserFacts ==
  ASSUME NEW u \in User
  PROVE  /\ DOMAIN u = Column
         /\ u.locked \in BOOLEAN /\ u.mustChange \in BOOLEAN /\ u.expired \in BOOLEAN
         /\ u.expiredAt \in BOOLEAN /\ u.until \in {"none", "future", "past"}
         /\ u.reason \in {NoReason, TOO_MANY, ADMIN} /\ u.attempts \in 0..MaxFailures
         /\ u.password \in {"own", "temporary"}
BY DEF User, Column

\* What a request writes over the user it has loaded is the user it has computed, and over
\* any other a row of the table.
LEMMA WritesAreSound ==
  ASSUME NEW u \in User, NEW new \in User, NEW stamped \in SUBSET Column
  PROVE  /\ Writes(u, new, stamped) \in Writing
         /\ Written(u, Writes(u, new, stamped)) = new
         /\ \A v \in User : Written(v, Writes(u, new, stamped)) \in User
<1> DEFINE w == Writes(u, new, stamped)
<1>1. DOMAIN u = Column /\ DOMAIN new = Column
  BY UserFacts
<1>2. w = [f \in {g \in Column : u[g] # new[g]} \cup stamped |-> new[f]]
  BY <1>1 DEF Writes
<1>3. DOMAIN w \subseteq Column /\ \A f \in DOMAIN w : w[f] = new[f]
  BY <1>2
<1>4. w \in Writing
  BY DEF Writing
<1>5. Written(u, w) = new
  <2>1. \A f \in Column : (IF f \in DOMAIN w THEN w[f] ELSE u[f]) = new[f]
    BY <1>2
  <2>2. new = [f \in Column |-> new[f]]
    BY <1>1 DEF User
  <2> HIDE DEF w
  <2> QED
    BY <2>1, <2>2, <1>1 DEF Written
<1>6. ASSUME NEW v \in User PROVE Written(v, w) \in User
  <2> DEFINE x == Written(v, w)
  <2>1. DOMAIN v = Column
    BY UserFacts
  <2>2. x = [f \in Column |-> x[f]] /\ \A f \in Column : x[f] \in {v[f], new[f]}
    <3> HIDE DEF w
    <3> QED
      BY <2>1, <1>3 DEF Written
  <2> HIDE DEF x, w
  <2>3. /\ x.locked \in BOOLEAN /\ x.mustChange \in BOOLEAN /\ x.expired \in BOOLEAN
        /\ x.expiredAt \in BOOLEAN /\ x.until \in {"none", "future", "past"}
        /\ x.reason \in {NoReason, TOO_MANY, ADMIN} /\ x.attempts \in 0..MaxFailures
        /\ x.password \in {"own", "temporary"}
    BY <2>2, UserFacts DEF Column
  <2>4. x = [locked |-> x.locked, until |-> x.until, reason |-> x.reason, attempts |-> x.attempts,
             mustChange |-> x.mustChange, password |-> x.password, expired |-> x.expired,
             expiredAt |-> x.expiredAt]
    BY <2>2 DEF Column
  <2> QED
    BY <2>3, <2>4 DEF User, x
<1> QED
  BY <1>4, <1>5, <1>6

\* Whoever has loaded the user, what it writes leaves a row of the table.
LEMMA WrittenIsUser ==
  ASSUME NEW w \in Writing, NEW v \in User
  PROVE  Written(v, w) \in User
BY WritesAreSound DEF Writing

\* A write is the same on a user that differs in what time changes, but for that.
LEMMA WritesAfterTime ==
  ASSUME NEW u \in User, NEW v \in User, NEW w,
         \A f \in Column \ {"until", "expired"} : v[f] = u[f]
  PROVE  /\ \A f \in Column \ {"until", "expired"} : Written(v, w)[f] = Written(u, w)[f]
         /\ \/ Written(v, w).until = Written(u, w).until
            \/ Written(v, w).until = v.until /\ Written(u, w).until = u.until
BY UserFacts DEF Written, Column

-----------------------------------------------------------------------------
(* What requests make of the user *)

LEMMA ComputedUsers ==
  ASSUME NEW u \in User
  PROVE  /\ Unlocked(u) \in User /\ Admitted(u) \in User
         /\ Authenticated(u) \in User /\ Changed(u) \in User
         /\ Temporary(u) \in User /\ Expired(u) \in User
         /\ u.attempts < MaxFailures => Failed(u) \in User
         /\ [u EXCEPT !.locked = TRUE, !.reason = ADMIN] \in User
         /\ \A b \in BOOLEAN : [u EXCEPT !.locked = b] \in User
<1>0. 0 \in 0..MaxFailures
  BY AttemptsAssumption
<1>1. Unlocked(u) \in User
  BY <1>0 DEF Unlocked, User, NoReason
<1>2. Admitted(u) \in User
  BY <1>1 DEF Admitted
<1>3. Authenticated(u) \in User
  <2>1. (u.mustChange \/ u.expired) \in BOOLEAN /\ (u.expiredAt \/ u.expired) \in BOOLEAN
    OBVIOUS
  <2> QED
    BY <1>0, <2>1 DEF Authenticated, User
<1>4. Changed(u) \in User
  <2>1. (u.locked /\ u.reason # TOO_MANY) \in BOOLEAN
    OBVIOUS
  <2> QED
    BY <1>0, <2>1 DEF Changed, User, NoReason
<1>5. Temporary(u) \in User /\ Expired(u) \in User
  BY DEF Temporary, Expired, User
<1>6. ASSUME u.attempts < MaxFailures PROVE Failed(u) \in User
  <2>1. u.attempts + 1 \in 0..MaxFailures
    BY <1>6, AttemptsAssumption, UserFacts
  <2> QED
    BY <2>1 DEF Failed, User
<1>7. [u EXCEPT !.locked = TRUE, !.reason = ADMIN] \in User
  BY DEF User, NoReason, TOO_MANY, ADMIN
<1>8. ASSUME NEW b \in BOOLEAN PROVE [u EXCEPT !.locked = b] \in User
  BY DEF User
<1> QED
  BY <1>1, <1>2, <1>3, <1>4, <1>5, <1>6, <1>7, <1>8

-----------------------------------------------------------------------------
(* Steps that write the requests only *)

\* A request that begins to write the user.
LEMMA BeginKeeps ==
  ASSUME IInv, NEW r \in Request, NEW op \in UserOp, NEW new \in User,
         NEW stamped \in SUBSET Column, NEW revoke \in BOOLEAN, NEW freed \in SessionId \cup {NoSession},
         Fine(op, new, revoke, freed, user, barred, overlapped), Begin(r, op, new, stamped, revoke, freed)
  PROVE  IInv'
<1> DEFINE c == [op |-> op, old |-> NoSession, freed |-> freed, stale |-> FALSE,
                 writes |-> Writes(user, new, stamped), revoke |-> revoke]
<1>1. request' = [request EXCEPT ![r] = c] /\ UNCHANGED <<user, sessions, barred, ousted, overlapped>>
  BY DEF Begin
<1>2. user \in User /\ request \in [Request -> Call]
  BY DEF IInv, Typed
<1>3. c.writes \in Writing /\ Written(user, c.writes) = new
  BY <1>2, WritesAreSound
<1>4. c \in UserCall
  BY <1>3 DEF UserCall
<1>5. c.op = op /\ c.revoke = revoke /\ c.freed = freed /\ op \notin {"open", "refresh"}
  BY DEF UserOp
<1> HIDE DEF c
<1>6. Typed'
  BY <1>1, <1>4 DEF IInv, Typed, Call, Live
<1>7. UserCallsAreFine'
  BY <1>1, <1>2, <1>3, <1>5 DEF IInv, Calls, UserCallsAreFine, Fine
<1>8. SessionCallsAreFine'
  BY <1>1, <1>2, <1>5 DEF IInv, Calls, SessionCallsAreFine, Live
<1>9. Safe'
  BY <1>1 DEF IInv, Safe, AdminLockHolds, LocksPass, TemporaryPasswordsAreChanged, OustedIsLocked,
              LockedOutHasNoSession, OneSessionPerFamily, Live
<1> QED
  BY <1>6, <1>7, <1>8, <1>9 DEF IInv, Calls

\* A request that begins to refresh a session or to end it.
LEMMA BeginSessionKeeps ==
  ASSUME IInv, NEW r \in Request, NEW op \in {"refresh", "logout"}, NEW i, BeginSession(r, op, i)
  PROVE  IInv'
<1> DEFINE c == [op |-> op, old |-> i, freed |-> NoSession, row |-> sessions[i], stale |-> FALSE]
<1>1. request' = [request EXCEPT ![r] = c] /\ UNCHANGED <<user, sessions, barred, ousted, overlapped>>
  BY DEF BeginSession
<1>2. i \in Live /\ i \in SessionId /\ sessions[i] \in Row /\ request \in [Request -> Call]
  BY DEF IInv, Typed, BeginSession
<1>3. c \in SessionCall
  BY <1>2 DEF SessionCall
<1>4. c.op = op /\ c.row = sessions[i] /\ c.old = i /\ op \notin UserOp
  BY DEF UserOp
<1> HIDE DEF c
<1>5. Typed'
  BY <1>1, <1>3 DEF IInv, Typed, Call, Live
<1>6. UserCallsAreFine'
  BY <1>1, <1>2, <1>4 DEF IInv, Calls, UserCallsAreFine, Fine
<1>7. SessionCallsAreFine'
  <2>1. /\ ousted => sessions[i].late
        /\ ~overlapped /\ user.password = "temporary" => sessions[i].restricted
        /\ ~sessions[i].late =>
             \A j \in Live : ~sessions[j].late /\ sessions[j].family = sessions[i].family => j = i
    BY <1>2 DEF IInv, Safe, LockedOutHasNoSession, TemporaryPasswordsAreChanged, OneSessionPerFamily
  <2> QED
    BY <1>1, <1>2, <1>4, <2>1 DEF IInv, Calls, SessionCallsAreFine, Live
<1>8. Safe'
  BY <1>1 DEF IInv, Safe, AdminLockHolds, LocksPass, TemporaryPasswordsAreChanged, OustedIsLocked,
              LockedOutHasNoSession, OneSessionPerFamily, Live
<1> QED
  BY <1>5, <1>6, <1>7, <1>8 DEF IInv, Calls

LEMMA AbortKeeps ==
  ASSUME IInv, NEW r \in Request, Abort(r)
  PROVE  IInv'
<1>1. request' = [request EXCEPT ![r] = Idle] /\ UNCHANGED <<user, sessions, barred, ousted, overlapped>>
  BY DEF Abort
<1>2. Idle.op \notin UserOp \cup {"open", "refresh"}
  BY DEF Idle, UserOp
<1>3. Typed'
  BY <1>1 DEF IInv, Typed, Call, Live
<1>4. UserCallsAreFine'
  BY <1>1, <1>2 DEF IInv, Typed, Calls, UserCallsAreFine, Fine
<1>5. SessionCallsAreFine'
  BY <1>1, <1>2 DEF IInv, Typed, Calls, SessionCallsAreFine, Live
<1>6. Safe'
  BY <1>1 DEF IInv, Safe, AdminLockHolds, LocksPass, TemporaryPasswordsAreChanged, OustedIsLocked,
              LockedOutHasNoSession, OneSessionPerFamily, Live
<1> QED
  BY <1>3, <1>4, <1>5, <1>6 DEF IInv, Calls

-----------------------------------------------------------------------------
(* Time *)

LEMMA UserTimeKeeps ==
  ASSUME IInv, LockTimePasses \/ PasswordTimePasses
  PROVE  IInv'
<1>1. user \in User /\ UNCHANGED <<sessions, request, barred, ousted, overlapped>>
  BY DEF IInv, Typed, LockTimePasses, PasswordTimePasses
<1>2. /\ user' \in User
      /\ \A f \in Column \ {"until", "expired"} : user'[f] = user[f]
      /\ user'.until \in {user.until, "past"}
  <2>1. CASE LockTimePasses
    BY <1>1, <2>1 DEF LockTimePasses, User, Column
  <2>2. CASE PasswordTimePasses
    BY <1>1, <2>2 DEF PasswordTimePasses, User, Column
  <2> QED
    BY <2>1, <2>2
<1>3. /\ user'.locked = user.locked /\ user'.reason = user.reason
      /\ user'.mustChange = user.mustChange /\ user'.password = user.password
  BY <1>2 DEF Column
<1>4. Typed'
  BY <1>1, <1>2 DEF IInv, Typed, Live
<1>5. UserCallsAreFine'
  <2>1. ASSUME NEW r \in Request, request[r].op \in UserOp, ~request[r].stale
        PROVE  LET c == request[r]
               IN Fine(c.op, Written(user', c.writes), c.revoke, c.freed, user', barred, overlapped)
    <3> DEFINE c == request[r]
               u == Written(user, c.writes)
               v == Written(user', c.writes)
    <3>1. Fine(c.op, u, c.revoke, c.freed, user, barred, overlapped)
      BY <2>1 DEF IInv, Calls, UserCallsAreFine
    <3>2. /\ v.locked = u.locked /\ v.reason = u.reason /\ v.mustChange = u.mustChange
          /\ v.password = u.password
          /\ v.until = u.until \/ (v.until = user'.until /\ u.until = user.until)
      BY <1>1, <1>2, WritesAfterTime DEF Column
    <3> HIDE DEF c, u, v
    <3>3. v.reason = TOO_MANY /\ ~overlapped => v.until # "none"
      BY <1>2, <3>1, <3>2 DEF Fine
    <3>4. Fine(c.op, v, c.revoke, c.freed, user', barred, overlapped)
      BY <1>3, <3>1, <3>2, <3>3 DEF Fine
    <3> QED
      BY <3>4 DEF c, v
  <2> QED
    BY <1>1, <2>1 DEF UserCallsAreFine
<1>6. SessionCallsAreFine'
  BY <1>1, <1>3 DEF IInv, Calls, SessionCallsAreFine, Live
<1>7. Safe'
  BY <1>1, <1>2, <1>3 DEF IInv, Safe, AdminLockHolds, LocksPass, TemporaryPasswordsAreChanged,
                          OustedIsLocked, LockedOutHasNoSession, OneSessionPerFamily, Live
<1> QED
  BY <1>4, <1>5, <1>6, <1>7 DEF IInv, Calls

LEMMA SessionTimeKeeps ==
  ASSUME IInv, NEW i \in SessionId, SessionTimePasses(i)
  PROVE  IInv'
<1>1. /\ sessions' = [j \in Live \ {i} |-> sessions[j]]
      /\ UNCHANGED <<user, request, barred, ousted, overlapped>>
  BY DEF SessionTimePasses
<1>2. Live' = Live \ {i} /\ \A j \in Live' : sessions'[j] = sessions[j]
  BY <1>1 DEF Live
<1>3. Typed'
  BY <1>1, <1>2 DEF IInv, Typed
<1>4. UserCallsAreFine'
  BY <1>1 DEF IInv, Calls, UserCallsAreFine, Fine
<1>5. SessionCallsAreFine'
  BY <1>1, <1>2 DEF IInv, Calls, SessionCallsAreFine
<1>6. Safe'
  BY <1>1, <1>2 DEF IInv, Safe, AdminLockHolds, LocksPass, TemporaryPasswordsAreChanged,
                    OustedIsLocked, LockedOutHasNoSession, OneSessionPerFamily
<1> QED
  BY <1>3, <1>4, <1>5, <1>6 DEF IInv, Calls

-----------------------------------------------------------------------------
(* Commits *)

\* A commit leaves nothing under way that has not been overtaken, but for what the request
\* itself goes on with.
LEMMA CommitOvertakes ==
  ASSUME request \in [Request -> Call], overlapped \in BOOLEAN, NEW r \in Request, NEW next \in Call,
         Committed(r, next)
  PROVE  /\ request' \in [Request -> Call] /\ request'[r] = next
         /\ \A q \in Request \ {r} : request'[q] = Idle \/ request'[q].stale
         /\ overlapped' = (overlapped \/ request[r].stale)
<1> DEFINE Overtaken(q) == [request[q] EXCEPT !.stale = TRUE]
<1>1. ASSUME NEW q \in Request, request[q] # Idle PROVE Overtaken(q) \in Call /\ Overtaken(q).stale
  <2>1. request[q] \in UserCall \cup SessionCall \cup OpenCall
    BY <1>1 DEF Call
  <2> QED
    BY <2>1 DEF Call, UserCall, SessionCall, OpenCall
<1>2. /\ request' = [q \in Request |-> IF q = r THEN next ELSE IF request[q] = Idle THEN Idle ELSE Overtaken(q)]
      /\ overlapped' = (overlapped \/ request[r].stale)
  BY DEF Committed
<1> HIDE DEF Overtaken
<1>3. Idle \in Call
  BY DEF Call
<1> QED
  BY <1>1, <1>2, <1>3

LEMMA IdleFacts == Idle.op \notin UserOp /\ Idle.op \notin SessionOp
BY DEF Idle, UserOp, SessionOp

LEMMA OpsAreApart == UserOp \cap SessionOp = {}
BY DEF UserOp, SessionOp

LEMMA CommitUserKeeps ==
  ASSUME IInv, NEW r \in Request, CommitUser(r)
  PROVE  IInv'
<1> DEFINE c == request[r]
           u == Written(user, c.writes)
           next == IF c.op = "login" THEN Opening(c, user') ELSE Idle
<1>1. /\ user \in User /\ request \in [Request -> Call] /\ overlapped \in BOOLEAN /\ ousted \in BOOLEAN
      /\ barred \in BOOLEAN /\ Live \subseteq SessionId /\ sessions \in [Live -> Row]
  BY DEF IInv, Typed
<1>2. c \in UserCall
  BY <1>1 DEF CommitUser, Call, SessionCall, OpenCall, SessionOp
<1>3. /\ c.op \in UserOp /\ c.writes \in Writing /\ c.revoke \in BOOLEAN /\ c.stale \in BOOLEAN
      /\ c.freed \in SessionId \cup {NoSession}
  BY <1>2 DEF UserCall
<1>4. user' = u /\ u \in User
  BY <1>1, <1>3, WrittenIsUser DEF CommitUser
<1>5. u.locked \in BOOLEAN /\ u.mustChange \in BOOLEAN
  BY <1>4, UserFacts
<1>6. /\ Committed(r, next)
      /\ barred' = /\ c.op = "lock" \/ (barred /\ c.op # "unlock" /\ (c.op = "patch" => user'.locked))
                   /\ ~overlapped'
      /\ ousted' = (user'.locked /\ (ousted \/ (c.revoke /\ c.op \in {"fail", "lock"})))
  BY DEF CommitUser
<1>7. Live' = {i \in Live : ~c.revoke} /\ sessions' \in [Live' -> Row]
  <2>1. sessions' = [i \in {j \in Live : ~c.revoke} |-> [sessions[i] EXCEPT !.restricted = @ /\ i # c.freed]]
    BY DEF CommitUser
  <2>2. \A i \in Live : [sessions[i] EXCEPT !.restricted = @ /\ i # c.freed] \in Row
    BY <1>1 DEF Row
  <2> QED
    BY <2>1, <2>2 DEF Live
<1>8. \A i \in Live' : /\ sessions'[i].family = sessions[i].family /\ sessions'[i].late = sessions[i].late
                       /\ sessions'[i].restricted = (sessions[i].restricted /\ i # c.freed)
  <2>1. sessions' = [i \in {j \in Live : ~c.revoke} |-> [sessions[i] EXCEPT !.restricted = @ /\ i # c.freed]]
    BY DEF CommitUser
  <2> QED
    BY <1>1, <1>7, <2>1 DEF Row
<1>9. next \in Call /\ next.op \notin UserOp \cup {"refresh"}
  <2>1. CASE c.op = "login"
    BY <2>1, <1>3, <1>4, <1>5 DEF Opening, Call, OpenCall, NewRow, UserOp
  <2>2. CASE c.op # "login"
    BY <2>2, IdleFacts DEF Call, SessionOp
  <2> QED
    BY <2>1, <2>2
<1>10. ~c.stale => Fine(c.op, u, c.revoke, c.freed, user, barred, overlapped)
  BY <1>3 DEF IInv, Calls, UserCallsAreFine
<1>11. /\ c.op = "login" => next.op = "open" /\ next.stale = c.stale /\ next.row.restricted = u.mustChange
       /\ c.op # "login" => next.op \notin SessionOp
  BY <1>4, IdleFacts DEF Opening
<1> HIDE DEF c, u, next
<1>12. /\ request' \in [Request -> Call] /\ request'[r] = next
       /\ \A q \in Request \ {r} : request'[q] = Idle \/ request'[q].stale
       /\ overlapped' = (overlapped \/ c.stale)
  BY <1>1, <1>6, <1>9, CommitOvertakes DEF c
<1>13. Typed'
  <2>1. barred' \in BOOLEAN /\ ousted' \in BOOLEAN /\ overlapped' \in BOOLEAN
    BY <1>1, <1>3, <1>6, <1>12
  <2> QED
    BY <2>1, <1>1, <1>4, <1>7, <1>12 DEF Typed
<1>14. UserCallsAreFine'
  BY <1>9, <1>12, IdleFacts DEF UserCallsAreFine
<1>15. SessionCallsAreFine'
  <2>1. c.op = "login" /\ ~c.stale => ~ousted'
    BY <1>4, <1>6, <1>10 DEF Fine
  <2>2. c.op = "login" /\ ~c.stale /\ ~overlapped' /\ user'.password = "temporary" => u.mustChange
    BY <1>4, <1>10, <1>12 DEF Fine
  <2> QED
    BY <2>1, <2>2, <1>9, <1>11, <1>12, IdleFacts DEF SessionCallsAreFine, SessionOp
<1>16. Safe'
  <2>1. AdminLockHolds'
    BY <1>4, <1>6, <1>10, <1>12 DEF AdminLockHolds, Fine
  <2>2. LocksPass'
    BY <1>4, <1>10, <1>12 DEF LocksPass, Fine
  <2>3. TemporaryPasswordsAreChanged'
    <3> SUFFICES ASSUME user'.password = "temporary", ~overlapped'
                 PROVE  user'.mustChange /\ \A i \in Live' : sessions'[i].restricted
      BY DEF TemporaryPasswordsAreChanged
    <3>1. u.mustChange /\ (c.revoke \/ (user.password = "temporary" /\ c.freed = NoSession))
      BY <1>4, <1>10, <1>12 DEF Fine
    <3>2. user.password = "temporary" => \A i \in Live : sessions[i].restricted
      BY <1>12 DEF IInv, Safe, TemporaryPasswordsAreChanged
    <3>3. ASSUME NEW i \in Live' PROVE sessions'[i].restricted
      <4>1. i \in Live /\ ~c.revoke /\ i # NoSession
        BY <1>1, <1>7, NoSessionAssumption
      <4> QED
        BY <4>1, <3>1, <3>2, <1>8
    <3> QED
      BY <1>4, <3>1, <3>3
  <2>4. OustedIsLocked'
    BY <1>6 DEF OustedIsLocked
  <2>5. LockedOutHasNoSession'
    BY <1>6, <1>7, <1>8 DEF IInv, Safe, LockedOutHasNoSession
  <2>6. OneSessionPerFamily'
    BY <1>7, <1>8 DEF IInv, Safe, OneSessionPerFamily
  <2> QED
    BY <2>1, <2>2, <2>3, <2>4, <2>5, <2>6 DEF Safe
<1> QED
  BY <1>13, <1>14, <1>15, <1>16 DEF IInv, Calls

\* What a refresh, a logout or the second half of a login makes of the sessions: none that it
\* replaces, and one more at most.
LEMMA CommitSessionFacts ==
  ASSUME IInv, NEW r \in Request, CommitSession(r)
  PROVE  LET c == request[r] IN
         /\ c.op \in SessionOp /\ c.stale \in BOOLEAN
         /\ Committed(r, Idle) /\ UNCHANGED <<user, barred, ousted>>
         /\ \E new \in SUBSET (SessionId \ Live), row \in Row :
              /\ \A i, j \in new : i = j
              /\ sessions' = [i \in (Live \ {c.old}) \cup new |-> IF i \in new THEN row ELSE sessions[i]]
              /\ new # {} =>
                   /\ c.op \in {"open", "refresh"}
                   /\ row.late = (c.row.late \/ c.stale) /\ row.restricted = c.row.restricted
                   /\ \/ c.op = "refresh" /\ row.family = c.row.family
                      \/ \A i \in Live : sessions[i].family # row.family
<1> DEFINE c == request[r]
           Inserted(family) == [c.row EXCEPT !.family = family, !.late = @ \/ c.stale]
           Rows(new, row) == [i \in (Live \ {c.old}) \cup new |-> IF i \in new THEN row ELSE sessions[i]]
<1>1. /\ request \in [Request -> Call] /\ Live \subseteq SessionId /\ sessions \in [Live -> Row]
  BY DEF IInv, Typed
<1>2. c.op \in {"logout", "refresh", "open"}
  BY DEF CommitSession
<1>3. c \in SessionCall \cup OpenCall
  BY <1>1, <1>2, IdleFacts DEF Call, UserCall, UserOp, SessionOp
<1>4. c.op \in SessionOp /\ c.stale \in BOOLEAN
  BY <1>2, <1>3 DEF SessionOp, SessionCall, OpenCall
<1>5. Committed(r, Idle) /\ UNCHANGED <<user, barred, ousted>>
  BY DEF CommitSession
<1>6. \/ c.op = "logout" /\ sessions' = Rows({}, c.row)
      \/ c.op = "refresh" /\ \E i \in Fresh(r) : sessions' = Rows({i}, Inserted(c.row.family))
      \/ c.op = "open" /\ \E i \in Fresh(r), f \in Family \ Families(r) : sessions' = Rows({i}, Inserted(f))
  BY DEF CommitSession, Kept
<1>7. Fresh(r) \subseteq SessionId \ Live
  BY DEF Fresh
<1>8. \A f \in Family \ Families(r) : \A i \in Live : sessions[i].family # f
  BY DEF Families
<1>9. ASSUME NEW f, f \in Family \/ (c.op = "refresh" /\ f = c.row.family), c.op \in {"open", "refresh"}
      PROVE  /\ Inserted(f) \in Row /\ Inserted(f).family = f
             /\ Inserted(f).late = (c.row.late \/ c.stale) /\ Inserted(f).restricted = c.row.restricted
  <2>1. CASE c.op = "refresh"
    <3>1. c \in SessionCall
      BY <1>3, <2>1 DEF OpenCall
    <3>2. c.row \in Row /\ c.stale \in BOOLEAN
      BY <3>1 DEF SessionCall
    <3> HIDE DEF c
    <3> QED
      BY <3>2, <1>9, <2>1 DEF Row
  <2>2. CASE c.op = "open"
    <3>1. c \in OpenCall
      BY <1>3, <2>2 DEF SessionCall
    <3>2. c.row \in NewRow /\ c.stale \in BOOLEAN
      BY <3>1 DEF OpenCall
    <3> HIDE DEF c
    <3> QED
      BY <3>2, <1>9, <2>2 DEF Row, NewRow
  <2> QED
    BY <1>9, <2>1, <2>2
<1> DEFINE Fits(new, row) ==
             /\ \A i, j \in new : i = j
             /\ sessions' = Rows(new, row)
             /\ new # {} =>
                  /\ c.op \in {"open", "refresh"}
                  /\ row.late = (c.row.late \/ c.stale) /\ row.restricted = c.row.restricted
                  /\ \/ c.op = "refresh" /\ row.family = c.row.family
                     \/ \A i \in Live : sessions[i].family # row.family
<1>10. \E new \in SUBSET (SessionId \ Live), row \in Row : Fits(new, row)
  <2>1. CASE c.op = "logout"
    <3>1. sessions' = Rows({}, c.row)
      BY <1>6, <2>1
    <3>2. c.row \in Row
      BY <1>3, <2>1 DEF SessionCall, OpenCall
    <3> HIDE DEF c, Rows
    <3> QED
      BY <3>1, <3>2
  <2>2. CASE c.op = "refresh"
    <3>1. PICK i \in Fresh(r) : sessions' = Rows({i}, Inserted(c.row.family))
      BY <1>6, <2>2
    <3>2. Inserted(c.row.family) \in Row /\ Fits({i}, Inserted(c.row.family))
      <4> HIDE DEF c, Inserted, Rows
      <4> QED
        BY <1>9, <2>2, <3>1
    <3> HIDE DEF Fits, Inserted, c
    <3> QED
      BY <1>7, <3>2
  <2>3. CASE c.op = "open"
    <3>1. PICK i \in Fresh(r), f \in Family \ Families(r) : sessions' = Rows({i}, Inserted(f))
      BY <1>6, <2>3
    <3>2. Inserted(f) \in Row /\ Fits({i}, Inserted(f))
      <4> HIDE DEF c, Inserted, Rows
      <4> QED
        BY <1>8, <1>9, <2>3, <3>1
    <3> HIDE DEF Fits, Inserted, c
    <3> QED
      BY <1>7, <3>2
  <2> QED
    BY <1>2, <2>1, <2>2, <2>3
<1> QED
  BY <1>4, <1>5, <1>10

LEMMA CommitSessionKeeps ==
  ASSUME IInv, NEW r \in Request, CommitSession(r)
  PROVE  IInv'
<1> DEFINE c == request[r]
<1>1. /\ user \in User /\ request \in [Request -> Call] /\ overlapped \in BOOLEAN /\ ousted \in BOOLEAN
      /\ barred \in BOOLEAN /\ Live \subseteq SessionId /\ sessions \in [Live -> Row]
  BY DEF IInv, Typed
<1>2. /\ c.op \in SessionOp /\ c.stale \in BOOLEAN
      /\ Committed(r, Idle) /\ UNCHANGED <<user, barred, ousted>>
  BY CommitSessionFacts
<1>3. PICK new \in SUBSET (SessionId \ Live), row \in Row :
        /\ \A i, j \in new : i = j
        /\ sessions' = [i \in (Live \ {c.old}) \cup new |-> IF i \in new THEN row ELSE sessions[i]]
        /\ new # {} =>
             /\ c.op \in {"open", "refresh"}
             /\ row.late = (c.row.late \/ c.stale) /\ row.restricted = c.row.restricted
             /\ \/ c.op = "refresh" /\ row.family = c.row.family
                \/ \A i \in Live : sessions[i].family # row.family
  BY CommitSessionFacts
<1>4. /\ c.op \in {"open", "refresh"} =>
           /\ ousted => c.stale \/ c.row.late
           /\ ~overlapped /\ ~c.stale /\ user.password = "temporary" => c.row.restricted
      /\ c.op = "refresh" /\ ~c.stale /\ ~c.row.late =>
           \A i \in Live : ~sessions[i].late /\ sessions[i].family = c.row.family => i = c.old
  BY DEF IInv, Calls, SessionCallsAreFine
<1>5. Idle \in Call
  BY DEF Call
<1> HIDE DEF c
<1>6. /\ request' \in [Request -> Call] /\ request'[r] = Idle
      /\ \A q \in Request \ {r} : request'[q] = Idle \/ request'[q].stale
      /\ overlapped' = (overlapped \/ c.stale)
  BY <1>1, <1>2, <1>5, CommitOvertakes DEF c
<1>7. Live' = (Live \ {c.old}) \cup new /\ sessions' \in [Live' -> Row]
  BY <1>1, <1>3 DEF Live
<1>8. /\ \A i \in Live' \ new : i \in Live \ {c.old} /\ sessions'[i] = sessions[i]
      /\ \A i \in Live' \cap new : sessions'[i] = row
  BY <1>3, <1>7
<1>9. Typed'
  BY <1>1, <1>2, <1>6, <1>7 DEF Typed
<1>10. UserCallsAreFine'
  BY <1>6, IdleFacts DEF UserCallsAreFine
<1>11. SessionCallsAreFine'
  BY <1>6, IdleFacts DEF SessionCallsAreFine, SessionOp
<1>12. Safe'
  <2>1. AdminLockHolds' /\ OustedIsLocked'
    BY <1>2 DEF IInv, Safe, AdminLockHolds, OustedIsLocked
  <2>2. LocksPass'
    BY <1>2, <1>6 DEF IInv, Safe, LocksPass
  <2>3. TemporaryPasswordsAreChanged'
    BY <1>2, <1>3, <1>4, <1>6, <1>8 DEF IInv, Safe, TemporaryPasswordsAreChanged
  <2>4. LockedOutHasNoSession'
    BY <1>2, <1>3, <1>4, <1>8 DEF IInv, Safe, LockedOutHasNoSession
  <2>5. OneSessionPerFamily'
    <3> SUFFICES ASSUME NEW i \in Live', NEW j \in Live', ~sessions'[i].late, ~sessions'[j].late,
                        sessions'[i].family = sessions'[j].family
                 PROVE  i = j
      BY DEF OneSessionPerFamily
    <3>1. ASSUME NEW x \in Live' \cap new, NEW y \in Live' \ new, ~row.late, ~sessions[y].late
          PROVE  sessions[y].family # row.family
      BY <3>1, <1>2, <1>3, <1>4, <1>8
    <3>2. i \notin new /\ j \notin new => i = j
      BY <1>8 DEF IInv, Safe, OneSessionPerFamily
    <3> QED
      BY <3>1, <3>2, <1>3, <1>8
  <2> QED
    BY <2>1, <2>2, <2>3, <2>4, <2>5 DEF Safe
<1> QED
  BY <1>9, <1>10, <1>11, <1>12 DEF IInv, Calls

-----------------------------------------------------------------------------
(* The requests *)

\* What the safety properties say of the user, for requests that compute from it.
LEMMA UserNow ==
  ASSUME IInv
  PROVE  /\ user \in User
         /\ barred => user.locked /\ user.reason = ADMIN
         /\ user.reason = TOO_MANY /\ ~overlapped => user.until # "none"
         /\ user.password = "temporary" /\ ~overlapped => user.mustChange
BY DEF IInv, Typed, Safe, AdminLockHolds, LocksPass, TemporaryPasswordsAreChanged

LEMMA AdmittedFacts ==
  ASSUME IInv
  PROVE  LET u == Admitted(user) IN
         /\ u \in User
         /\ barred => u.locked
         /\ u.reason = TOO_MANY /\ ~overlapped => u.until # "none"
         /\ u.password = user.password /\ u.mustChange = user.mustChange
<1>1. user.until = "past" /\ user.reason = TOO_MANY => ~barred
  BY UserNow DEF TOO_MANY, ADMIN
<1>2. /\ Unlocked(user).reason = NoReason /\ Unlocked(user).password = user.password
      /\ Unlocked(user).mustChange = user.mustChange
  BY UserNow DEF Unlocked, User
<1>3. NoReason # TOO_MANY
  BY DEF NoReason, TOO_MANY
<1>4. Admitted(user) \in User
  BY UserNow, ComputedUsers
<1> QED
  BY <1>1, <1>2, <1>3, <1>4, UserNow DEF Admitted

LEMMA LoginKeeps ==
  ASSUME IInv, NEW r \in Request, BeginLogin(r) \/ BeginFailedLogin(r)
  PROVE  IInv'
<1> DEFINE u == Admitted(user)
<1>1. /\ u \in User /\ (barred => u.locked)
      /\ u.reason = TOO_MANY /\ ~overlapped => u.until # "none"
      /\ u.password = user.password /\ u.mustChange = user.mustChange
      /\ user.password = "temporary" /\ ~overlapped => user.mustChange
  BY AdmittedFacts, UserNow
<1>2. CASE BeginLogin(r)
  <2> DEFINE new == Authenticated(u)
  <2>1. ~u.locked /\ Begin(r, "login", new, {}, FALSE, NoSession)
    BY <1>2 DEF BeginLogin
  <2> HIDE DEF u
  <2>2. new \in User
    BY <1>1, ComputedUsers
  <2>3. Fine("login", new, FALSE, NoSession, user, barred, overlapped)
    BY <1>1, <2>1 DEF Fine, Authenticated, User
  <2> HIDE DEF new
  <2> QED
    BY <2>1, <2>2, <2>3, BeginKeeps DEF UserOp
<1>3. CASE BeginFailedLogin(r)
  <2> DEFINE new == Failed(u)
             stamped == IF new.locked THEN {"until"} ELSE {}
  <2>1. ~u.locked /\ u.attempts < MaxFailures /\ Begin(r, "fail", new, stamped, new.locked, NoSession)
    BY <1>3 DEF BeginFailedLogin
  <2> HIDE DEF u
  <2>2. new \in User
    BY <1>1, <2>1, ComputedUsers
  <2>3. Fine("fail", new, new.locked, NoSession, user, barred, overlapped)
    BY <1>1, <2>1 DEF Fine, Failed, User
  <2>4. new.locked \in BOOLEAN /\ stamped \in SUBSET Column
    BY <2>2, UserFacts DEF Column
  <2> HIDE DEF new, stamped
  <2> QED
    BY <2>1, <2>2, <2>3, <2>4, BeginKeeps DEF UserOp
<1> QED
  BY <1>2, <1>3

LEMMA OwnRequestsKeep ==
  ASSUME IInv, NEW r \in Request, NEW i \in SessionId,
         BeginRefresh(r, i) \/ BeginLogout(r, i) \/ BeginLogoutAll(r, i) \/ BeginChangePassword(r, i)
  PROVE  IInv'
<1>1. CASE BeginRefresh(r, i) \/ BeginLogout(r, i)
  BY <1>1, BeginSessionKeeps DEF BeginRefresh, BeginLogout
<1>2. CASE BeginLogoutAll(r, i)
  <2>1. Begin(r, "logoutAll", user, {}, TRUE, NoSession)
    BY <1>2 DEF BeginLogoutAll
  <2>2. Fine("logoutAll", user, TRUE, NoSession, user, barred, overlapped)
    BY UserNow DEF Fine
  <2> QED
    BY <2>1, <2>2, UserNow, BeginKeeps DEF UserOp
<1>3. CASE BeginChangePassword(r, i)
  <2> DEFINE new == Changed(user)
  <2>1. Begin(r, "password", new, {"password", "expired"}, FALSE, i)
    BY <1>3 DEF BeginChangePassword
  <2>2. new \in User
    BY UserNow, ComputedUsers
  <2>3. Fine("password", new, FALSE, i, user, barred, overlapped)
    BY UserNow DEF Fine, Changed, User, TOO_MANY, ADMIN, NoReason
  <2>4. {"password", "expired"} \in SUBSET Column
    BY DEF Column
  <2> HIDE DEF new
  <2> QED
    BY <2>1, <2>2, <2>3, <2>4, BeginKeeps DEF UserOp
<1> QED
  BY <1>1, <1>2, <1>3

LEMMA AdministratorsKeep ==
  ASSUME IInv, NEW r \in Request,
         \/ BeginTemporaryPassword(r) \/ BeginUnlock(r) \/ BeginExpiry(r)
         \/ \E b \in BOOLEAN : BeginLock(r, b) \/ BeginPatch(r, b)
  PROVE  IInv'
<1>1. CASE BeginTemporaryPassword(r)
  <2> DEFINE new == Temporary(user)
  <2>1. Begin(r, "temporary", new, {"password", "expired"}, TRUE, NoSession)
    BY <1>1 DEF BeginTemporaryPassword
  <2>2. new \in User
    BY UserNow, ComputedUsers
  <2>3. Fine("temporary", new, TRUE, NoSession, user, barred, overlapped)
    BY UserNow DEF Fine, Temporary, User
  <2>4. {"password", "expired"} \in SUBSET Column
    BY DEF Column
  <2> HIDE DEF new
  <2> QED
    BY <2>1, <2>2, <2>3, <2>4, BeginKeeps DEF UserOp
<1>2. CASE BeginUnlock(r)
  <2> DEFINE new == Unlocked(user)
  <2>1. Begin(r, "unlock", new, {}, FALSE, NoSession)
    BY <1>2 DEF BeginUnlock
  <2>2. new \in User
    BY UserNow, ComputedUsers
  <2>3. Fine("unlock", new, FALSE, NoSession, user, barred, overlapped)
    BY UserNow DEF Fine, Unlocked, User, TOO_MANY, NoReason
  <2> HIDE DEF new
  <2> QED
    BY <2>1, <2>2, <2>3, BeginKeeps DEF UserOp
<1>3. CASE BeginExpiry(r)
  <2> DEFINE new == Expired(user)
  <2>1. Begin(r, "expiry", new, {}, FALSE, NoSession)
    BY <1>3 DEF BeginExpiry
  <2>2. new \in User
    BY UserNow, ComputedUsers
  <2>3. Fine("expiry", new, FALSE, NoSession, user, barred, overlapped)
    BY UserNow DEF Fine, Expired, User
  <2> HIDE DEF new
  <2> QED
    BY <2>1, <2>2, <2>3, BeginKeeps DEF UserOp
<1>4. ASSUME NEW b \in BOOLEAN, BeginLock(r, b) PROVE IInv'
  <2> DEFINE new == [user EXCEPT !.locked = TRUE, !.reason = ADMIN]
  <2>1. Begin(r, "lock", new, {}, b, NoSession)
    BY <1>4 DEF BeginLock
  <2>2. new \in User
    BY UserNow, ComputedUsers
  <2>3. Fine("lock", new, b, NoSession, user, barred, overlapped)
    BY UserNow DEF Fine, User, TOO_MANY, ADMIN
  <2> HIDE DEF new
  <2> QED
    BY <2>1, <2>2, <2>3, BeginKeeps DEF UserOp
<1>5. ASSUME NEW b \in BOOLEAN, BeginPatch(r, b) PROVE IInv'
  <2> DEFINE new == [user EXCEPT !.locked = b]
  <2>1. Begin(r, "patch", new, {}, FALSE, NoSession)
    BY <1>5 DEF BeginPatch
  <2>2. new \in User
    BY UserNow, ComputedUsers
  <2>3. Fine("patch", new, FALSE, NoSession, user, barred, overlapped)
    BY UserNow DEF Fine, User
  <2> HIDE DEF new
  <2> QED
    BY <2>1, <2>2, <2>3, BeginKeeps DEF UserOp
<1> QED
  BY <1>1, <1>2, <1>3, <1>4, <1>5

-----------------------------------------------------------------------------
(* The specification *)

LEMMA InitHolds == Init => IInv
<1> SUFFICES ASSUME Init PROVE IInv
  OBVIOUS
<1>1. user \in User
  BY AttemptsAssumption DEF Init, User, NoReason
<1>2. Live = {} /\ sessions \in [Live -> Row]
  BY DEF Init, Live
<1>3. Typed
  BY <1>1, <1>2 DEF Init, Typed, Call
<1>4. Calls
  BY IdleFacts DEF Init, Calls, UserCallsAreFine, SessionCallsAreFine, SessionOp
<1>5. Safe
  BY <1>2 DEF Init, Safe, AdminLockHolds, LocksPass, TemporaryPasswordsAreChanged, OustedIsLocked,
              LockedOutHasNoSession, OneSessionPerFamily, NoReason, TOO_MANY
<1> QED
  BY <1>3, <1>4, <1>5 DEF IInv

LEMMA NextKeeps ==
  ASSUME IInv, [Next]_vars
  PROVE  IInv'
<1>1. ASSUME NEW r \in Request, BeginLogin(r) \/ BeginFailedLogin(r) PROVE IInv'
  BY <1>1, LoginKeeps
<1>2. ASSUME NEW r \in Request, NEW i \in SessionId,
             BeginRefresh(r, i) \/ BeginLogout(r, i) \/ BeginLogoutAll(r, i) \/ BeginChangePassword(r, i)
      PROVE  IInv'
  BY <1>2, OwnRequestsKeep
<1>3. ASSUME NEW r \in Request,
             \/ BeginTemporaryPassword(r) \/ BeginUnlock(r) \/ BeginExpiry(r)
             \/ \E b \in BOOLEAN : BeginLock(r, b) \/ BeginPatch(r, b)
      PROVE  IInv'
  BY <1>3, AdministratorsKeep
<1>4. ASSUME NEW r \in Request, CommitUser(r) \/ CommitSession(r) \/ Abort(r) PROVE IInv'
  BY <1>4, CommitUserKeeps, CommitSessionKeeps, AbortKeeps
<1>5. ASSUME LockTimePasses \/ PasswordTimePasses PROVE IInv'
  BY <1>5, UserTimeKeeps
<1>6. ASSUME NEW i \in SessionId, SessionTimePasses(i) PROVE IInv'
  BY <1>6, SessionTimeKeeps
<1>7. CASE UNCHANGED vars
  BY <1>7 DEF vars, IInv, Typed, Live, Calls, UserCallsAreFine, SessionCallsAreFine, Safe,
              AdminLockHolds, LocksPass, TemporaryPasswordsAreChanged, OustedIsLocked,
              LockedOutHasNoSession, OneSessionPerFamily, Fine
<1> QED
  BY <1>1, <1>2, <1>3, <1>4, <1>5, <1>6, <1>7 DEF Next

\* The inductive invariant of accounts.
THEOREM Invariance == Spec => []IInv
BY InitHolds, NextKeeps, PTL DEF Spec

\* The rows of the account keep the types of their columns.
THEOREM TypeCorrect == Spec => []TypeOK
<1>1. IInv => TypeOK
  BY DEF IInv, Typed, TypeOK, Safe, LocksPass
<1> QED
  BY <1>1, Invariance, PTL

\* No request of the user lifts a lock that an administrator has set.
THEOREM AdminLocksHold == Spec => []AdminLockHolds
<1>1. IInv => AdminLockHolds
  BY DEF IInv, Safe
<1> QED
  BY <1>1, Invariance, PTL

\* A temporary password opens nothing but sessions restricted to changing it.
THEOREM TemporaryPasswordsAreFollowedUp == Spec => []TemporaryPasswordsAreChanged
<1>1. IInv => TemporaryPasswordsAreChanged
  BY DEF IInv, Safe
<1> QED
  BY <1>1, Invariance, PTL

\* While the user is locked out, every session that lives came late.
THEOREM LocksOustSessions == Spec => []LockedOutHasNoSession
<1>1. IInv => LockedOutHasNoSession
  BY DEF IInv, Safe
<1> QED
  BY <1>1, Invariance, PTL

\* However requests overlap, a family has one session, but for those that came late.
THEOREM FamiliesHaveOneSession == Spec => []OneSessionPerFamily
<1>1. IInv => OneSessionPerFamily
  BY DEF IInv, Safe
<1> QED
  BY <1>1, Invariance, PTL
===============================================================================
