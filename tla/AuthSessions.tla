----------------------------- MODULE AuthSessions -----------------------------
(***************************************************************************)
(* services/auth_service.py with api/v1/auth.py, the account endpoints of  *)
(* api/v1/admin.py and scripts/check_password_expiry.py: one local user,   *)
(* the lock after failed logins and the administrator's, the password's    *)
(* life, and the user's sessions.                                          *)
(*                                                                         *)
(* A request loads the user, computes, and at its commit writes only the   *)
(* columns that differ from what it loaded: of two requests that overlap   *)
(* each may overwrite a part of what the other has written.  A login       *)
(* commits twice, once for the user and once for the session it opens.     *)
(*                                                                         *)
(* Time is what has passed: a lock's, a password's or a session's.         *)
(* A revoked or expired session is found by nothing, and not kept here.    *)
(* is_active belongs to AccessControl, authentication_enabled is never     *)
(* switched off, and the warning before a password expires is left out.    *)
(***************************************************************************)
EXTENDS Naturals

CONSTANTS
  Request,                   \* requests that may be under way at once
  MaxAttempts,               \* settings.max_failed_login_attempts
  SessionId, Family,         \* enough for the sessions that live at once
  NoSession,
  MaxFailures,               \* bound on the failed logins that are counted
  PasswordAges               \* whether enough time passes for a password to expire

ASSUME AttemptsAssumption == MaxAttempts \in Nat \ {0} /\ MaxFailures \in Nat /\ PasswordAges \in BOOLEAN
ASSUME NoSessionAssumption == NoSession \notin SessionId

VARIABLES
  user,        \* row of users
  sessions,    \* rows of auth_sessions that are neither revoked nor expired
  request,     \* what each request is about to commit
  barred,      \* history: an administrator has locked the user, none has unlocked it since,
               \* and no requests have overlapped
  ousted,      \* history: the user is locked, and its sessions were revoked with that
  overlapped   \* history: a request has committed on what another had changed

vars == <<user, sessions, request, barred, ousted, overlapped>>

TOO_MANY == "TOO_MANY_FAILED_ATTEMPTS"
ADMIN == "ADMINISTRATIVE"
NoReason == "none"

User == [locked : BOOLEAN, until : {"none", "future", "past"}, reason : {NoReason, TOO_MANY, ADMIN},
         attempts : 0..MaxFailures, mustChange : BOOLEAN, password : {"own", "temporary"},
         expired : BOOLEAN, expiredAt : BOOLEAN]
\* late: history, opened on what another request had changed, or from such a session.
Row == [family : Family, restricted : BOOLEAN, late : BOOLEAN]
Live == DOMAIN sessions
Idle == [op |-> "idle"]

\* A lock for failed logins is recorded with its end, unless requests have overlapped.
TypeOK ==
  /\ user \in User
  /\ user.reason = TOO_MANY /\ ~overlapped => user.until # "none"
  /\ Live \subseteq SessionId /\ sessions \in [Live -> Row]
  /\ DOMAIN request = Request
  /\ {barred, ousted, overlapped} \subseteq BOOLEAN

\* create_user gives a local user its first, temporary password.
Init ==
  /\ user = [locked |-> FALSE, until |-> "none", reason |-> NoReason, attempts |-> 0,
             mustChange |-> TRUE, password |-> "temporary", expired |-> FALSE, expiredAt |-> FALSE]
  /\ sessions = [i \in {} |-> NoSession]
  /\ request = [r \in Request |-> Idle]
  /\ barred = FALSE /\ ousted = FALSE /\ overlapped = FALSE

-----------------------------------------------------------------------------
(* What a request makes of the user it has loaded. *)

Unlocked(u) == [u EXCEPT !.locked = FALSE, !.until = "none", !.reason = NoReason, !.attempts = 0]

\* A login that lifts any lock whose time is over.
Admitted_Always(u) == IF u.until = "past" THEN Unlocked(u) ELSE u

\* check_user_can_login: a login lifts a lock for failed attempts whose time is over.
Admitted(u) == IF u.until = "past" /\ u.reason = TOO_MANY THEN Unlocked(u) ELSE u

\* A lock for failed attempts that records no end.
Failed_Forever(u) ==
  IF u.attempts + 1 < MaxAttempts
  THEN [u EXCEPT !.attempts = @ + 1]
  ELSE [u EXCEPT !.attempts = @ + 1, !.locked = TRUE, !.until = "none", !.reason = TOO_MANY]

\* record_failed_login
Failed(u) ==
  IF u.attempts + 1 < MaxAttempts
  THEN [u EXCEPT !.attempts = @ + 1]
  ELSE [u EXCEPT !.attempts = @ + 1, !.locked = TRUE, !.until = "future", !.reason = TOO_MANY]

\* The right password: authenticate_local
Authenticated(u) ==
  [u EXCEPT !.attempts = 0, !.mustChange = @ \/ u.expired, !.expiredAt = @ \/ u.expired]

\* change_local_password
Changed(u) ==
  [u EXCEPT !.password = "own", !.expired = FALSE, !.expiredAt = FALSE, !.mustChange = FALSE,
            !.attempts = 0, !.until = "none",
            !.locked = @ /\ u.reason # TOO_MANY,
            !.reason = IF @ = TOO_MANY THEN NoReason ELSE @]

\* set_temporary_password: the mark that the last password expired stays.
Temporary(u) == [u EXCEPT !.password = "temporary", !.expired = FALSE, !.mustChange = TRUE]

\* check_password_expiry
Expired(u) == [u EXCEPT !.expiredAt = TRUE, !.mustChange = TRUE]

\* The columns to write: those that differ, and those that always change (times and hashes).
Writes(old, new, stamped) == [f \in {g \in DOMAIN old : old[g] # new[g]} \cup stamped |-> new[f]]

Written(u, writes) == [f \in DOMAIN u |-> IF f \in DOMAIN writes THEN writes[f] ELSE u[f]]

-----------------------------------------------------------------------------
(* Requests.  BeginX loads, checks and computes; the commits follow. *)

\* A request that writes the user, revokes all sessions or none, and may lift the restriction
\* of one.
Begin(r, op, new, stamped, revoke, freed) ==
  /\ request[r] = Idle
  /\ request' = [request EXCEPT ![r] =
       [op |-> op, old |-> NoSession, freed |-> freed, stale |-> FALSE,
        writes |-> Writes(user, new, stamped), revoke |-> revoke]]
  /\ UNCHANGED <<user, sessions, barred, ousted, overlapped>>

\* A request that ends a session and may open another.
BeginSession(r, op, i) ==
  /\ request[r] = Idle
  /\ i \in Live
  /\ request' = [request EXCEPT ![r] =
       [op |-> op, old |-> i, freed |-> NoSession, row |-> sessions[i], stale |-> FALSE]]
  /\ UNCHANGED <<user, sessions, barred, ousted, overlapped>>

\* A login that does not look at the lock.
BeginLogin_Locked(r) == Begin(r, "login", Authenticated(Admitted(user)), {}, FALSE, NoSession)

BeginLogin(r) ==
  /\ ~Admitted(user).locked
  /\ Begin(r, "login", Authenticated(Admitted(user)), {}, FALSE, NoSession)

\* A wrong password: the lock it may lead to revokes the sessions.
BeginFailedLogin(r) ==
  LET u == Failed(Admitted(user))
  IN /\ ~Admitted(user).locked
     /\ Admitted(user).attempts < MaxFailures
     /\ Begin(r, "fail", u, IF u.locked THEN {"until"} ELSE {}, u.locked, NoSession)

\* No lock is looked at: a session is enough.
BeginRefresh(r, i) == BeginSession(r, "refresh", i)
BeginLogout(r, i) == BeginSession(r, "logout", i)

BeginLogoutAll(r, i) ==
  /\ i \in Live /\ ~user.locked
  /\ Begin(r, "logoutAll", user, {}, TRUE, NoSession)

\* The session that it was done with is a full one from then on.
BeginChangePassword(r, i) ==
  /\ i \in Live
  /\ Begin(r, "password", Changed(user), {"password", "expired"}, FALSE, i)

\* A temporary password that leaves the user's sessions.
BeginTemporaryPassword_Kept(r) ==
  Begin(r, "temporary", Temporary(user), {"password", "expired"}, FALSE, NoSession)

BeginTemporaryPassword(r) ==
  Begin(r, "temporary", Temporary(user), {"password", "expired"}, TRUE, NoSession)

\* With the user's sessions or without; the time of an earlier lock stays.
BeginLock(r, revoke) ==
  Begin(r, "lock", [user EXCEPT !.locked = TRUE, !.reason = ADMIN], {}, revoke, NoSession)

BeginUnlock(r) == Begin(r, "unlock", Unlocked(user), {}, FALSE, NoSession)

\* update_user may set is_locked and nothing that goes with it.
BeginPatch(r, locked) == Begin(r, "patch", [user EXCEPT !.locked = locked], {}, FALSE, NoSession)

BeginExpiry(r) ==
  /\ user.expired /\ ~user.expiredAt
  /\ Begin(r, "expiry", Expired(user), {}, FALSE, NoSession)

\* What is under way besides r has loaded what r changes.
Committed(r, next) ==
  /\ request' = [q \in Request |->
       IF q = r THEN next ELSE IF request[q] = Idle THEN Idle ELSE [request[q] EXCEPT !.stale = TRUE]]
  /\ overlapped' = (overlapped \/ request[r].stale)

SessionOp == {"open", "refresh", "logout"}

\* What a login goes on to do when it has committed the user: it reads the user again and
\* opens a session, restricted if the password must be changed.
Opening(c, u) ==
  [op |-> "open", old |-> NoSession, freed |-> NoSession, stale |-> c.stale,
   row |-> [family |-> NoSession, restricted |-> u.mustChange, late |-> FALSE]]

CommitUser(r) ==
  LET c == request[r]
  IN /\ c # Idle /\ c.op \notin SessionOp
     /\ user' = Written(user, c.writes)
     /\ sessions' = [i \in {j \in Live : ~c.revoke} |->
          [sessions[i] EXCEPT !.restricted = @ /\ i # c.freed]]
     /\ Committed(r, IF c.op = "login" THEN Opening(c, user') ELSE Idle)
     /\ barred' = /\ c.op = "lock" \/ (barred /\ c.op # "unlock" /\ (c.op = "patch" => user'.locked))
                  /\ ~overlapped'
     /\ ousted' = (user'.locked /\ (ousted \/ (c.revoke /\ c.op \in {"fail", "lock"})))

\* A refresh that leaves the session it replaces.
Kept_Refresh(c) == IF c.op = "logout" THEN Live \ {c.old} ELSE Live

\* The sessions that go on.
Kept(c) == Live \ {c.old}

\* Ids that no session has and no other request has loaded.
Fresh(r) ==
  LET Others == {q \in Request \ {r} : request[q] # Idle}
  IN SessionId \ (Live \cup UNION {{request[q].old, request[q].freed} : q \in Others})

Families(r) ==
  {sessions[i].family : i \in Live}
  \cup {request[q].row.family : q \in {p \in Request \ {r} : request[p].op \in SessionOp}}

\* A refresh stays in the family of the session it replaces, a login founds one.
CommitSession(r) ==
  LET c == request[r]
      Rows(new, row) == [i \in Kept(c) \cup new |-> IF i \in new THEN row ELSE sessions[i]]
      Inserted(family) == [c.row EXCEPT !.family = family, !.late = @ \/ c.stale]
  IN /\ \/ c.op = "logout" /\ sessions' = Rows({}, c.row)
        \/ c.op = "refresh" /\ \E i \in Fresh(r) : sessions' = Rows({i}, Inserted(c.row.family))
        \/ c.op = "open" /\ \E i \in Fresh(r), f \in Family \ Families(r) :
                               sessions' = Rows({i}, Inserted(f))
     /\ Committed(r, Idle)
     /\ UNCHANGED <<user, barred, ousted>>

\* An error or a lost connection: the rollback.
Abort(r) ==
  /\ request[r] # Idle
  /\ request' = [request EXCEPT ![r] = Idle]
  /\ UNCHANGED <<user, sessions, barred, ousted, overlapped>>

Commit(r) == CommitUser(r) \/ CommitSession(r)

-----------------------------------------------------------------------------
(* Time *)

LockTimePasses ==
  /\ user.until = "future"
  /\ user' = [user EXCEPT !.until = "past"]
  /\ UNCHANGED <<sessions, request, barred, ousted, overlapped>>

PasswordTimePasses ==
  /\ PasswordAges /\ ~user.expired
  /\ user' = [user EXCEPT !.expired = TRUE]
  /\ UNCHANGED <<sessions, request, barred, ousted, overlapped>>

SessionTimePasses(i) ==
  /\ i \in Live
  /\ sessions' = [j \in Live \ {i} |-> sessions[j]]
  /\ UNCHANGED <<user, request, barred, ousted, overlapped>>

Next ==
  \/ \E r \in Request :
       \/ BeginLogin(r) \/ BeginFailedLogin(r)
       \/ \E i \in SessionId :
            BeginRefresh(r, i) \/ BeginLogout(r, i) \/ BeginLogoutAll(r, i) \/ BeginChangePassword(r, i)
       \/ BeginTemporaryPassword(r)
       \/ \E b \in BOOLEAN : BeginLock(r, b) \/ BeginPatch(r, b)
       \/ BeginUnlock(r) \/ BeginExpiry(r)
       \/ CommitUser(r) \/ CommitSession(r) \/ Abort(r)
  \/ LockTimePasses \/ PasswordTimePasses
  \/ \E i \in SessionId : SessionTimePasses(i)

\* A request that writes the user because the right password came with it.
CommitLogin(r) == request[r].op = "login" /\ CommitUser(r)

\* Time passes and requests end.  The user tries again and again: if a request can be made
\* again and again, one is made, and not all of them are rolled back.
Fairness ==
  /\ WF_vars(LockTimePasses)
  /\ \A r \in Request : WF_vars(Commit(r) \/ Abort(r))
  /\ SF_vars(\E r \in Request : BeginLogin(r))
  /\ SF_vars(\E r \in Request : CommitLogin(r))

Spec == Init /\ [][Next]_vars
FairSpec == Spec /\ Fairness

-----------------------------------------------------------------------------
(* Properties *)

\* A lock set by an administrator stays until an administrator lifts it, whatever the user
\* does: no login after a lock's time, no change of password and no failed login undoes it.
\* Requests that overlap may: a failed login turns it into a lock that passes.
AdminLockHolds == barred => user.locked /\ user.reason = ADMIN

\* Unless requests have overlapped, a temporary password must be changed, and every session
\* under it is restricted to that.
TemporaryPasswordsAreChanged ==
  user.password = "temporary" /\ ~overlapped =>
    user.mustChange /\ \A i \in Live : sessions[i].restricted

\* While a user is locked out, no session lives, but for the ones that were opened by a
\* request already under way when the sessions were revoked, and what such a session was
\* refreshed to: a refresh does not look at the lock.
LockedOutHasNoSession == ousted => \A i \in Live : sessions[i].late

\* A family has one live session, but for those of refreshes that had loaded a session
\* before another request changed it.
OneSessionPerFamily ==
  \A i, j \in Live :
    ~sessions[i].late /\ ~sessions[j].late /\ sessions[i].family = sessions[j].family => i = j

\* A user locked for failed logins gets in again by trying, unless an administrator has
\* locked it or requests have overlapped.
LockPasses ==
  (user.locked /\ user.reason = TOO_MANY) ~> (~user.locked \/ user.reason # TOO_MANY \/ overlapped)
=============================================================================
