----------------------------- MODULE AccessControl -----------------------------
(***************************************************************************)
(* services/admin_service.py, services/rbac_service.py and the contractor  *)
(* context of api/deps.py: users with their roles and memberships, the     *)
(* permissions of roles, and what a contractor's user may do.              *)
(*                                                                         *)
(* Every authenticated call first seeds the default permissions of the     *)
(* system roles again, in a transaction of its own.                        *)
(*                                                                         *)
(* Permissions come in two classes: those of every portal role, and those  *)
(* of managers only, to delete what is theirs.  The other system roles     *)
(* and the office's permissions bear on nothing here.  Locks and passwords *)
(* are in AuthSessions; a lock closes the portal just as deactivation.     *)
(***************************************************************************)
EXTENDS ReferenceData

CONSTANTS
  User,          \* ids of users
  CustomRole,    \* ids of the roles that administrators create
  RoleSets,      \* the sets of roles that calls name for a user,
  MembershipSets \* and of memberships, which name a contractor once and say whether active

System == {"PLATFORM_ADMIN", "CONTRACTOR_MANAGER", "CONTRACTOR_USER"}
PortalRole == System \ {"PLATFORM_ADMIN"}
Role == System \cup CustomRole
Permission == {"portal", "delete_own"}

ASSUME RolesAssumption == CustomRole \cap System = {} /\ None \notin Role /\ RoleSets \subseteq SUBSET Role
ASSUME MembershipsAssumption == \A M \in MembershipSets :
  M \subseteq Contractor \X BOOLEAN /\ \A m, n \in M : m[1] = n[1] => m = n

VARIABLES
  users,        \* rows of users, with their user_roles and contractor_memberships
  roles,        \* rows of roles, with their role_permissions
  overlapped    \* history: a write to a user has been overtaken

accessVars == <<users, roles, overlapped>>

\* ROLE_PERMISSION_CODES
Default == [r \in System |-> IF r = "CONTRACTOR_USER" THEN {"portal"} ELSE Permission]

Account == [user_type : {"INTERNAL", "CONTRACTOR"}, is_active : BOOLEAN,
            roles : SUBSET Role, memberships : SUBSET (Contractor \X BOOLEAN)]
RoleRow == [is_active : BOOLEAN, permissions : SUBSET Permission]

ASSUME NoUserAssumption == None \notin Account /\ None \notin RoleRow

Existing == {r \in Role : roles[r] # None}
Companies(memberships) == {m[1] : m \in memberships}

AccessTypeOK ==
  /\ users \in [User -> Account \cup {None}]
  /\ roles \in [Role -> RoleRow \cup {None}]
  /\ System \subseteq Existing
  /\ overlapped \in BOOLEAN

-----------------------------------------------------------------------------
(* What a user may do *)

\* seed_rbac adds what is missing and takes nothing away.
Seeded ==
  [r \in Role |-> IF r \in System THEN [roles[r] EXCEPT !.permissions = @ \cup Default[r]] ELSE roles[r]]

\* permission_codes_for_user
Permissions(u) ==
  UNION {Seeded[r].permissions : r \in {q \in users[u].roles \cap Existing : roles[q].is_active}}

\* active_contractor_ids_for_user
ActiveContractors(u) ==
  {c \in Contractor \cap Present : <<c, TRUE>> \in users[u].memberships /\ rows[c].is_active}

\* require_contractor_permission: the contractors that a call of the user is for.
Context(u, permission) ==
  IF /\ users[u] # None
     /\ users[u].is_active /\ users[u].user_type = "CONTRACTOR"
     /\ users[u].roles \cap PortalRole # {}
     /\ permission \in Permissions(u)
  THEN ActiveContractors(u) ELSE {}

-----------------------------------------------------------------------------
(* Calls *)

\* A call that has been authenticated.
Seeds == roles' = Seeded /\ UNCHANGED <<users, overlapped>>

Memberships == {M \in MembershipSets : Companies(M) \subseteq Present}

BeginCreateUser(s, u) ==
  /\ users[u] = None
  /\ \E type \in {"INTERNAL", "CONTRACTOR"}, active \in BOOLEAN, R \in RoleSets, M \in Memberships :
       /\ R \subseteq Existing
       /\ type = "CONTRACTOR" => M # {}
       /\ Starts(s, [op |-> "createUser", user |-> u, overtaken |-> FALSE,
                     new |-> [user_type |-> type, is_active |-> active, roles |-> R, memberships |-> M]])
  /\ Seeds

\* A user becomes a contractor's without a look at its memberships.
BeginSetType_Unchecked(s, u, type) ==
  /\ users[u] # None
  /\ Starts(s, [op |-> "setType", user |-> u, type |-> type, overtaken |-> FALSE])
  /\ Seeds

\* update_user with a user_type
BeginSetType(s, u, type) ==
  /\ users[u] # None
  /\ type = "CONTRACTOR" => users[u].memberships # {}
  /\ Starts(s, [op |-> "setType", user |-> u, type |-> type, overtaken |-> FALSE])
  /\ Seeds

\* set_user_active
BeginSetActive(s, u, active) ==
  /\ users[u] # None
  /\ Starts(s, [op |-> "setActive", user |-> u, active |-> active, overtaken |-> FALSE])
  /\ Seeds

\* Replacing starts with a DELETE of the rows there are.  The rows that another call inserts
\* from then on are not among them: they are spared.
BeginReplace(s, op, user, wanted) ==
  Starts(s, [op |-> op, user |-> user, wanted |-> wanted, spared |-> {}, overtaken |-> FALSE])

\* set_user_roles
BeginSetRoles(s, u, R) ==
  /\ users[u] # None
  /\ R \subseteq Existing
  /\ BeginReplace(s, "setRoles", u, R)
  /\ Seeds

\* set_user_contractors
BeginSetMemberships(s, u, M) ==
  /\ users[u] # None
  /\ M \in Memberships
  /\ users[u].user_type = "CONTRACTOR" => M # {}
  /\ BeginReplace(s, "setMemberships", u, M)
  /\ Seeds

\* set_role_permissions: the administrators' role keeps all.
BeginSetPermissions(s, r, P) ==
  /\ r \in Existing
  /\ r = "PLATFORM_ADMIN" => P = Permission
  /\ BeginReplace(s, "setPermissions", r, P)
  /\ Seeds

\* create_role, update_role and deactivate_role: system roles stay active.
BeginSetRole(s, r, active) ==
  /\ r \in CustomRole
  /\ Starts(s, [op |-> "setRole", role |-> r, active |-> active, creates |-> roles[r] = None,
                overtaken |-> FALSE])
  /\ Seeds

\* get_role_permissions at the end of set_role_permissions, and every call that only reads.
Seed ==
  /\ Seeded # roles
  /\ Seeds
  /\ UNCHANGED directoryVars

-----------------------------------------------------------------------------
(* Commits *)

\* What this commit inserts, others who are replacing the same rows will spare; what it has
\* deleted is gone for them, too.
EndsReplacing(s) ==
  LET c == session[s]
      Sees(d) == d.op = c.op /\ d.user = c.user
  IN /\ session' = [t \in Session |->
          IF t = s \/ session[t] = Idle THEN Idle
          ELSE IF Sees(session[t])
               THEN [session[t] EXCEPT !.overtaken = TRUE, !.spared = (@ \cap c.spared) \cup c.wanted]
               ELSE [session[t] EXCEPT !.overtaken = TRUE]]
     /\ UNCHANGED calls

Notice(s) == overlapped' = (overlapped \/ session[s].overtaken)

CommitCreateUser(s) ==
  LET c == session[s]
  IN /\ c.op = "createUser"
     /\ users[c.user] = None
     /\ Companies(c.new.memberships) \subseteq Present
     /\ users' = [users EXCEPT ![c.user] = c.new]
     /\ Ends(s)
     /\ Notice(s)
     /\ UNCHANGED roles

CommitSetUser(s) ==
  LET c == session[s]
  IN /\ \/ c.op = "setType" /\ users' = [users EXCEPT ![c.user].user_type = c.type]
        \/ c.op = "setActive" /\ users' = [users EXCEPT ![c.user].is_active = c.active]
     /\ Ends(s)
     /\ Notice(s)
     /\ UNCHANGED roles

\* The unique constraints fail a call that inserts a row it has spared.
CommitReplace(s) ==
  LET c == session[s]
  IN /\ \/ /\ c.op = "setRoles"
           /\ c.spared \cap c.wanted = {}
           /\ users' = [users EXCEPT ![c.user].roles = c.spared \cup c.wanted]
           /\ UNCHANGED roles
        \/ /\ c.op = "setMemberships"
           /\ Companies(c.spared) \cap Companies(c.wanted) = {}
           /\ Companies(c.wanted) \subseteq Present
           /\ users' = [users EXCEPT ![c.user].memberships = c.spared \cup c.wanted]
           /\ UNCHANGED roles
        \/ /\ c.op = "setPermissions"
           /\ c.spared \cap c.wanted = {}
           /\ roles' = [roles EXCEPT ![c.user].permissions = c.spared \cup c.wanted]
           /\ UNCHANGED users
     /\ EndsReplacing(s)
     /\ Notice(s)

CommitSetRole(s) ==
  LET c == session[s]
  IN /\ c.op = "setRole"
     /\ c.creates => roles[c.role] = None
     /\ roles' = [roles EXCEPT ![c.role] =
          [is_active |-> c.active, permissions |-> IF @ = None THEN {} ELSE @.permissions]]
     /\ Ends(s)
     /\ Notice(s)
     /\ UNCHANGED users

-----------------------------------------------------------------------------
(* Properties *)

\* A contractor's user belongs to some contractor, unless writes to users have overlapped;
\* and the administrators' role keeps every permission whatever overlaps.
NobodyIsShutOut ==
  /\ ~overlapped =>
       \A u \in User : users[u] # None /\ users[u].user_type = "CONTRACTOR" => users[u].memberships # {}
  /\ roles["PLATFORM_ADMIN"].permissions = Permission

\* The contractors that a membership names exist.
MembershipsAreWhole ==
  \A u \in User : users[u] # None => Companies(users[u].memberships) \subseteq Present
=============================================================================
