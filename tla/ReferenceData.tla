----------------------------- MODULE ReferenceData -----------------------------
(***************************************************************************)
(* api/v1/reference_data.py with models/reference_data.py: the directory   *)
(* of cities, facilities, premises, contractors, work types and            *)
(* responsibilities, and the writes that create, edit and delete its rows. *)
(*                                                                         *)
(* A write checks the references in one step and commits in another, so    *)
(* that writes overlap.  The database then enforces its own constraints:   *)
(* foreign keys with RESTRICT, and the unique scope of a responsibility.   *)
(* The ORM clears the nullable references to a row it deletes.             *)
(*                                                                         *)
(* Names, codes and contacts are left out, and so is is_active of cities,  *)
(* facilities and premises, which nothing reads.                           *)
(***************************************************************************)
EXTENDS Naturals

CONSTANTS
  City, Facility, Premise, Contractor, WorkType, Responsibility,   \* ids, by table
  Inputs,      \* for each row, the values that calls save it with
  Priority,    \* priorities of responsibilities, the lowest first
  None,        \* no row, or a reference that is NULL
  Session,     \* database sessions, each of one call at a time
  MaxCalls     \* bound on the calls that write

Row == City \cup Facility \cup Premise \cup Contractor \cup WorkType \cup Responsibility

ASSUME TablesAssumption ==
  /\ None \notin Row
  /\ City \cap (Facility \cup Premise \cup Contractor \cup WorkType \cup Responsibility) = {}
  /\ Facility \cap (Premise \cup Contractor \cup WorkType \cup Responsibility) = {}
  /\ Premise \cap (Contractor \cup WorkType \cup Responsibility) = {}
  /\ Contractor \cap (WorkType \cup Responsibility) = {}
  /\ WorkType \cap Responsibility = {}
ASSUME NumbersAssumption == Priority \subseteq Nat /\ MaxCalls \in Nat

VARIABLES
  rows,      \* the tables
  session,   \* what each session is about to commit
  calls      \* how many writing calls there have been

directoryVars == <<rows, session, calls>>

Idle == [op |-> "idle"]

Blank(active) ==
  [is_active |-> active, priority |-> 0,
   city |-> None, facility |-> None, contractor |-> None, work_type |-> None]

\* What a row of each table may hold.
Values(r) ==
  CASE r \in City           -> {Blank(TRUE)}
    [] r \in Facility       -> {[Blank(TRUE) EXCEPT !.city = c] : c \in City}
    [] r \in Premise        -> {[Blank(TRUE) EXCEPT !.facility = f] : f \in Facility}
    [] r \in Contractor     -> {Blank(b) : b \in BOOLEAN}
    [] r \in WorkType       -> {Blank(b) : b \in BOOLEAN}
    [] r \in Responsibility ->
         [is_active : BOOLEAN, priority : Priority,
          city : City \cup {None}, facility : Facility \cup {None},
          contractor : Contractor, work_type : WorkType]

\* A subset of what calls may say, to bound the instances.
ASSUME InputsAssumption == \A r \in Row : Inputs[r] \subseteq Values(r)
ASSUME NoValueAssumption == \A r \in Row : None \notin Values(r)

Present == {r \in Row : rows[r] # None}
Refs(v) == {v.city, v.facility, v.contractor, v.work_type} \ {None}
Referrers(r) == {q \in Present : r \in Refs(rows[q])}

DirectoryTypeOK ==
  /\ rows \in [Row -> (UNION {Values(r) : r \in Row}) \cup {None}]
  /\ \A r \in Present : rows[r] \in Values(r)
  /\ calls \in 0..MaxCalls

-----------------------------------------------------------------------------
(* Calls.  overtaken: history, another call has committed meanwhile. *)

Free(s) == session[s] = Idle /\ calls < MaxCalls

Starts(s, call) ==
  /\ Free(s)
  /\ session' = [session EXCEPT ![s] = call]
  /\ calls' = calls + 1

Ends(s) ==
  /\ session' = [t \in Session |->
       IF t = s \/ session[t] = Idle THEN Idle ELSE [session[t] EXCEPT !.overtaken = TRUE]]
  /\ UNCHANGED calls

\* An error, a constraint that fails, or a lost connection: the rollback.
RollsBack(s) ==
  /\ session[s] # Idle
  /\ session' = [session EXCEPT ![s] = Idle]
  /\ UNCHANGED calls

Write(op, r, old, new) == [op |-> op, row |-> r, old |-> old, new |-> new, overtaken |-> FALSE]

BeginCreate(s, r, v) ==
  /\ v \in Inputs[r]
  /\ r \notin Present
  /\ Refs(v) \subseteq Present
  /\ Starts(s, Write("create", r, None, v))

BeginUpdate(s, r, v) ==
  /\ v \in Inputs[r]
  /\ r \in Present
  /\ v # rows[r]
  /\ Refs(v) \subseteq Present
  /\ Starts(s, Write("update", r, rows[r], v))

\* A deletion that leaves the check to the database.
BeginDelete_Unchecked(s, r) ==
  /\ r \in Present
  /\ Starts(s, Write("delete", r, rows[r], None))

\* has_references looks at the directory itself, not at users and requests.
BeginDelete(s, r) ==
  /\ r \in Present
  /\ Referrers(r) = {}
  /\ Starts(s, Write("delete", r, rows[r], None))

-----------------------------------------------------------------------------
(* Commits *)

\* uq_contractor_responsibility_scope: NULL collides with nothing.
Duplicate(r, v) ==
  /\ r \in Responsibility
  /\ None \notin {v.city, v.facility}
  /\ \E q \in (Present \cap Responsibility) \ {r} : Refs(rows[q]) = Refs(v)

\* An UPDATE sets the columns that differ from what was loaded.
Merged(old, new, row) ==
  [f \in DOMAIN row |-> IF new[f] # old[f] THEN new[f] ELSE row[f]]

Accepted(r, v) == Refs(v) \subseteq Present /\ ~Duplicate(r, v)

CommitSave(s) ==
  LET c == session[s]
  IN /\ \/ /\ c.op = "create" /\ c.row \notin Present
           /\ Accepted(c.row, c.new)
           /\ rows' = [rows EXCEPT ![c.row] = c.new]
        \/ /\ c.op = "update" /\ c.row \in Present
           /\ Accepted(c.row, Merged(c.old, c.new, rows[c.row]))
           /\ rows' = [rows EXCEPT ![c.row] = Merged(c.old, c.new, @)]
     /\ Ends(s)

\* The ORM loads the rows that refer to r and sets those references to NULL.
Cleared(r) ==
  [q \in Row |->
     IF q = r THEN None
     ELSE IF q \in Responsibility /\ q \in Present
          THEN [rows[q] EXCEPT !.city = IF @ = r THEN None ELSE @,
                               !.facility = IF @ = r THEN None ELSE @]
          ELSE rows[q]]

\* Columns that must not be NULL keep their row from being deleted; so do the rows of the
\* other tables, which hold some of the directory's.
CommitDelete(s, held) ==
  LET r == session[s].row
  IN /\ session[s].op = "delete"
     /\ r \notin held
     /\ \A q \in Referrers(r) : q \in Responsibility /\ r \notin {rows[q].contractor, rows[q].work_type}
     /\ rows' = Cleared(r)
     /\ Ends(s)

-----------------------------------------------------------------------------
(* find_contractor_for_work_type *)

\* The responsibilities for a facility; for a city as a whole; for everything.
Scope(level, city, facility) ==
  {q \in Present \cap Responsibility :
     CASE level = 1 -> rows[q].facility = facility
       [] level = 2 -> rows[q].facility = None /\ rows[q].city = city
       [] level = 3 -> rows[q].facility = None /\ rows[q].city = None}

Candidates(level, city, facility, w) ==
  {q \in Scope(level, city, facility) : rows[q].is_active /\ rows[q].work_type = w}

\* Without ORDER BY, whichever comes first.
Best_Unordered(S) == S

\* The lowest priority; which of equals is up to the database.
Best(S) == {q \in S : \A p \in S : rows[q].priority <= rows[p].priority}

\* The first level with candidates.  Whether the contractor is active is not asked.
Responsible(city, facility, w) ==
  LET At(level) == Candidates(level, city, facility, w)
  IN {rows[q].contractor : q \in UNION {Best(At(level)) :
        level \in {l \in 1..3 : \A k \in 1..3 : k < l => At(k) = {}}}}

-----------------------------------------------------------------------------
(* Properties *)

\* No row of the directory refers to one that is gone.
DirectoryIsWhole == \A r \in Present : Refs(rows[r]) \subseteq Present

\* A deletion that no other call has overtaken changes its own row and no other.  The
\* foreign keys do not see to that: without the check for references, deleting a city or
\* a facility would turn a responsibility for it into one for more.
DeletionsLeaveTheRest ==
  [][\A s \in Session :
       session[s].op = "delete" /\ ~session[s].overtaken /\ session'[s] = Idle =>
         \A q \in Row \ {session[s].row} : rows'[q] = rows[q]]_<<rows, session>>

\* The code asks for the responsible contractor by three queries one after the other; here
\* the same is said of all responsibilities at once.  Those for a work type at a facility of
\* a city, however far they reach:
Applying(city, facility, w) ==
  {q \in Present \cap Responsibility :
     /\ rows[q].is_active /\ rows[q].work_type = w
     /\ \/ rows[q].facility = facility
        \/ rows[q].facility = None /\ rows[q].city \in {city, None}}

\* For a facility, for a city, for everything.
Reach(q) == IF rows[q].facility # None THEN 1 ELSE IF rows[q].city # None THEN 2 ELSE 3

\* Those that no other one comes before: none reaches less far, and none that reaches as
\* far has a lower priority.
Nearest(city, facility, w) ==
  {q \in Applying(city, facility, w) :
     \A p \in Applying(city, facility, w) :
       \/ Reach(q) < Reach(p)
       \/ Reach(q) = Reach(p) /\ rows[q].priority <= rows[p].priority}
=============================================================================
