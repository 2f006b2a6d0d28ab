--------------------------- MODULE ContractorPortal ---------------------------
(***************************************************************************)
(* api/v1/contractor.py with services/comment_service.py and               *)
(* services/attachment_service.py, over the directory and the users: one   *)
(* request, whom it is assigned to, and what the office and the            *)
(* contractors write, upload and get to see of it.                         *)
(*                                                                         *)
(* The request's status is RequestLifecycle's: here it is published or     *)
(* not, and assignments are made.  Texts, file formats and sizes are left  *)
(* out; of a category it matters whether an assignment is named.  A work   *)
(* type may require a premise, which refuses some publications more.       *)
(***************************************************************************)
EXTENDS AccessControl

CONSTANTS
  Comment, Attachment,   \* ids of the rows to be created
  Office,                \* the author of what internal users write
  StartRows, StartUsers, StartRequests  \* what there is at the start

Visibility == {"INTERNAL", "SHARED"}

ASSUME AuthorsAssumption == Office \notin Contractor /\ None \notin Comment \cup Attachment
ASSUME ItemsAssumption == Comment \cap Attachment = {}

VARIABLES
  request,       \* the row of contractor_requests with its work types, None before
  assignments,   \* the contractor of each work type, by request_assignments
  comments,      \* rows of request_comments
  attachments,   \* rows of request_attachments
  files,         \* the attachments whose file is in the storage
  events,        \* rows of request_history on comments and attachments
  shown          \* history: what contractors have been shown, and as whose users

postVars == <<comments, attachments, files, events>>
requestVars == <<request, assignments>>
portalVars == <<requestVars, postVars, shown>>
vars == <<directoryVars, accessVars, portalVars>>

Request == [city : City, facility : Facility, premise : Premise \cup {None},
            works : SUBSET WorkType, published : BOOLEAN]
CommentRow == [author : Contractor \cup {Office}, visibility : Visibility, is_deleted : BOOLEAN]
\* assignment: the work type of the one it is for.
AttachmentRow == [author : Contractor \cup {Office}, visibility : Visibility,
                  assignment : WorkType \cup {None}, comment : Comment \cup {None}, is_deleted : BOOLEAN]
Event == [item : Comment \cup Attachment, visibility : Visibility]
Showing == [item : Comment \cup Attachment, to : SUBSET Contractor]

ASSUME NoPostAssumption == None \notin Request /\ None \notin CommentRow /\ None \notin AttachmentRow

PortalTypeOK ==
  /\ request \in Request \cup {None}
  /\ assignments \in [WorkType -> Contractor \cup {None}]
  /\ comments \in [Comment -> CommentRow \cup {None}]
  /\ attachments \in [Attachment -> AttachmentRow \cup {None}]
  /\ files \subseteq Attachment
  /\ events \subseteq Event
  /\ shown \subseteq Showing

TypeOK == DirectoryTypeOK /\ AccessTypeOK /\ PortalTypeOK

RequestRefs(q) == ({q.city, q.facility, q.premise} \cup q.works) \ {None}

\* What may be there already: a directory that is whole, users with memberships in it, and
\* a request with its assignments or none.
ASSUME StartAssumption ==
  /\ StartRows \in [Row -> (UNION {Values(r) : r \in Row}) \cup {None}]
  /\ \A r \in Row : StartRows[r] # None =>
       StartRows[r] \in Values(r) /\ \A q \in Refs(StartRows[r]) : StartRows[q] # None
  /\ StartUsers \in [User -> Account \cup {None}]
  /\ \A u \in User : StartUsers[u] # None =>
       /\ \A c \in Companies(StartUsers[u].memberships) : StartRows[c] # None
       /\ StartUsers[u].user_type = "CONTRACTOR" => StartUsers[u].memberships # {}
  /\ StartRequests \subseteq
       [request : Request \cup {None}, assignments : [WorkType -> Contractor \cup {None}]]
  /\ \A q \in StartRequests :
       /\ q.request = None => q.assignments = [w \in WorkType |-> None]
       /\ q.request # None => \A r \in RequestRefs(q.request) : StartRows[r] # None
       /\ \A w \in WorkType : q.assignments[w] # None => StartRows[q.assignments[w]] # None

Init ==
  /\ rows = StartRows /\ users = StartUsers
  /\ roles = [r \in Role |->
       IF r \in System THEN [is_active |-> TRUE, permissions |-> Default[r]] ELSE None]
  /\ session = [s \in Session |-> Idle]
  /\ calls = 0 /\ overlapped = FALSE
  /\ \E q \in StartRequests : request = q.request /\ assignments = q.assignments
  /\ comments = [m \in Comment |-> None]
  /\ attachments = [a \in Attachment |-> None]
  /\ files = {} /\ events = {} /\ shown = {}

-----------------------------------------------------------------------------
(* The request: a draft, and its publication *)

\* No reference is checked: a draft that names what is not there fails at the foreign keys.
BeginDraft(s) ==
  /\ request = None
  /\ \E new \in [city : City \cap Present, facility : Facility \cap Present,
                 premise : (Premise \cap Present) \cup {None}, works : SUBSET (WorkType \cap Present),
                 published : {FALSE}] :
       Starts(s, [op |-> "draft", new |-> new, overtaken |-> FALSE])
  /\ Seeds /\ UNCHANGED <<rows, portalVars>>

CommitDraft(s) ==
  LET c == session[s]
  IN /\ c.op = "draft"
     /\ request = None
     /\ RequestRefs(c.new) \subseteq Present
     /\ request' = c.new
     /\ Ends(s)
     /\ UNCHANGED <<rows, accessVars, assignments, postVars, shown>>

\* validate_publishable_request and validate_request_scope
Publishable ==
  /\ request # None /\ request.works # {}
  /\ rows[request.facility].city = request.city
  /\ \A w \in request.works : rows[w].is_active
  /\ request.premise # None => rows[request.premise].facility = request.facility

\* create_assignments_for_request: a contractor for each work type that has none yet.
BeginPublish(s) ==
  /\ Publishable
  /\ LET For(w) == Responsible(request.city, request.facility, w)
         Missing == {w \in request.works : assignments[w] = None /\ For(w) # {}}
     IN \E picks \in [Missing -> Contractor] :
          /\ \A w \in Missing : picks[w] \in For(w)
          /\ Starts(s, [op |-> "publish", picks |-> picks, overtaken |-> FALSE])
  /\ Seeds /\ UNCHANGED <<rows, portalVars>>

\* One assignment for a work type, by uq_request_assignment_work_type.
CommitPublish(s) ==
  LET c == session[s]
  IN /\ c.op = "publish"
     /\ \A w \in DOMAIN c.picks : assignments[w] = None /\ c.picks[w] \in Present
     /\ request' = [request EXCEPT !.published = TRUE]
     /\ assignments' = [w \in WorkType |-> IF w \in DOMAIN c.picks THEN c.picks[w] ELSE assignments[w]]
     /\ Ends(s)
     /\ UNCHANGED <<rows, accessVars, postVars, shown>>

-----------------------------------------------------------------------------
(* Who acts *)

Assigned == {assignments[w] : w \in WorkType} \ {None}

\* get_owned_request and contractor_id_for_request: the contractor of the first of the
\* request's assignments that is one of the user's; their order is up to the database.
ActsAs(u, permission) == Assigned \cap Context(u, permission)

\* Those in whose name a call that needs a permission may be made.
Authors(permission) == {Office} \cup UNION {ActsAs(u, permission) : u \in User}

-----------------------------------------------------------------------------
(* Comments *)

\* An event that does not say how visible its item is.
EventOf_Shared(item, visibility) == [item |-> item, visibility |-> "SHARED"]

EventOf(item, visibility) == [item |-> item, visibility |-> visibility]

Call(s, call) == Starts(s, call) /\ Seeds /\ UNCHANGED <<rows, portalVars>>

\* create_internal_comment, create_contractor_comment: a contractor's are shared.
BeginComment(s) ==
  /\ request # None
  /\ \E author \in Authors("portal"), visibility \in Visibility :
       /\ author # Office => visibility = "SHARED"
       /\ Call(s, [op |-> "comment", overtaken |-> FALSE,
                   new |-> [author |-> author, visibility |-> visibility, is_deleted |-> FALSE]])

CommitComment(s) ==
  LET c == session[s]
  IN /\ c.op = "comment"
     /\ c.new.author \in Present \cup {Office}
     /\ \E m \in Comment :
          /\ comments[m] = None
          /\ comments' = [comments EXCEPT ![m] = c.new]
          /\ events' = events \cup {EventOf(m, c.new.visibility)}
     /\ Ends(s)
     /\ UNCHANGED <<rows, accessVars, requestVars, attachments, files, shown>>

\* ensure_comment_author, and the refusal to edit what is deleted.
BeginEditComment(s, m) ==
  /\ comments[m] # None
  /\ comments[m].author \in Authors("portal")
  /\ ~comments[m].is_deleted
  /\ Call(s, [op |-> "editComment", item |-> m, deletes |-> FALSE, overtaken |-> FALSE])

BeginDeleteComment(s, m) ==
  /\ comments[m] # None
  /\ comments[m].author \in Authors("delete_own")
  /\ Call(s, [op |-> "editComment", item |-> m, deletes |-> TRUE, overtaken |-> FALSE])

CommitEditComment(s) ==
  LET c == session[s]
  IN /\ c.op = "editComment"
     /\ comments' = [comments EXCEPT ![c.item].is_deleted = @ \/ c.deletes]
     /\ events' = events \cup {EventOf(c.item, comments[c.item].visibility)}
     /\ Ends(s)
     /\ UNCHANGED <<rows, accessVars, requestVars, attachments, files, shown>>

-----------------------------------------------------------------------------
(* Attachments *)

\* A contractor's attachment to whatever assignment of the request.
InScope_Any(author, w) == w # None => assignments[w] # None

\* ensure_assignment_scope: a contractor's is to an assignment of that contractor.
InScope(author, w) == w # None => assignments[w] # None /\ author \in {Office, assignments[w]}

\* create_attachment: the checks, and the id that the file's path is made of.
BeginUpload(s) ==
  /\ request # None
  /\ \E author \in Authors("portal"), visibility \in Visibility,
        w \in WorkType \cup {None}, m \in Comment \cup {None} :
       /\ author # Office => visibility = "SHARED"
       /\ InScope(author, w)
       /\ m # None => comments[m] # None
       /\ \E a \in Attachment \ files :
            /\ attachments[a] = None
            /\ \A t \in Session : session[t] # Idle /\ session[t].op = "upload" => session[t].item # a
            /\ Call(s, [op |-> "upload", item |-> a, overtaken |-> FALSE, stored |-> FALSE,
                        new |-> [author |-> author, visibility |-> visibility, assignment |-> w,
                                 comment |-> m, is_deleted |-> FALSE]])

\* save_upload_to_storage, which gives up other calls their turn while it waits for data.
StoreFile(s) ==
  /\ session[s].op = "upload" /\ ~session[s].stored
  /\ files' = files \cup {session[s].item}
  /\ session' = [session EXCEPT ![s].stored = TRUE]
  /\ UNCHANGED <<rows, calls, accessVars, requestVars, comments, attachments, events, shown>>

\* A row that is committed while its file is still to come.
CommitUpload_Early(s) ==
  LET c == session[s]
  IN /\ c.op = "upload"
     /\ c.new.author \in Present \cup {Office}
     /\ attachments' = [attachments EXCEPT ![c.item] = c.new]
     /\ events' = events \cup {EventOf(c.item, c.new.visibility)}
     /\ Ends(s)
     /\ UNCHANGED <<rows, accessVars, requestVars, comments, files, shown>>

CommitUpload(s) ==
  LET c == session[s]
  IN /\ c.op = "upload" /\ c.stored
     /\ c.new.author \in Present \cup {Office}
     /\ attachments' = [attachments EXCEPT ![c.item] = c.new]
     /\ events' = events \cup {EventOf(c.item, c.new.visibility)}
     /\ Ends(s)
     /\ UNCHANGED <<rows, accessVars, requestVars, comments, files, shown>>

\* The office deletes any; a contractor's user what is shared and of a contractor of the
\* user's.
BeginDeleteAttachment(s, a) ==
  /\ attachments[a] # None /\ ~attachments[a].is_deleted
  /\ \E author \in Contractor \cup {Office} :
       author # Office =>
         /\ attachments[a].visibility = "SHARED" /\ attachments[a].author = author
         /\ \E u \in User : ActsAs(u, "delete_own") # {} /\ author \in Context(u, "delete_own")
  /\ Call(s, [op |-> "deleteAttachment", item |-> a, overtaken |-> FALSE])

\* The file stays.
CommitDeleteAttachment(s) ==
  LET c == session[s]
  IN /\ c.op = "deleteAttachment"
     /\ attachments' = [attachments EXCEPT ![c.item].is_deleted = TRUE]
     /\ events' = events \cup {EventOf(c.item, attachments[c.item].visibility)}
     /\ Ends(s)
     /\ UNCHANGED <<rows, accessVars, requestVars, comments, files, shown>>

-----------------------------------------------------------------------------
(* What a contractor's user is shown *)

\* list_contractor_comments, which shows deleted ones without their text.
VisibleComments == {m \in Comment : comments[m] # None /\ comments[m].visibility = "SHARED"}

\* list_contractor_attachments and the download
VisibleAttachments ==
  {a \in Attachment :
     attachments[a] # None /\ attachments[a].visibility = "SHARED" /\ ~attachments[a].is_deleted}

\* get_contractor_request_history goes by what the event says.
VisibleEvents == {e.item : e \in {f \in events : f.visibility # "INTERNAL"}}

Browse(u) ==
  /\ ActsAs(u, "portal") # {}
  /\ shown' = shown \cup {[item |-> i, to |-> Context(u, "portal")] :
                            i \in VisibleComments \cup VisibleAttachments \cup VisibleEvents}
  /\ UNCHANGED <<directoryVars, accessVars, requestVars, postVars>>

-----------------------------------------------------------------------------
(* The system *)

\* What users and requests hold of the directory, by foreign keys with RESTRICT.
HeldByUsers == UNION {Companies(users[u].memberships) : u \in {v \in User : users[v] # None}}
HeldByPosts ==
  {comments[m].author : m \in {n \in Comment : comments[n] # None}}
  \cup {attachments[a].author : a \in {b \in Attachment : attachments[b] # None}}

\* Assignments that their contractor does not outlive.
Held_Unassigned == HeldByUsers \cup HeldByPosts \cup (IF request = None THEN {} ELSE RequestRefs(request))

Held == HeldByUsers \cup HeldByPosts \cup Assigned \cup (IF request = None THEN {} ELSE RequestRefs(request))

DirectoryBegins(s) ==
  /\ \E r \in Row : BeginDelete(s, r) \/ \E v \in Inputs[r] : BeginCreate(s, r, v) \/ BeginUpdate(s, r, v)
  /\ Seeds /\ UNCHANGED <<rows, portalVars>>

DirectoryCommits(s) ==
  /\ CommitSave(s) \/ CommitDelete(s, Held)
  /\ UNCHANGED <<accessVars, portalVars>>

AccessBegins(s) ==
  /\ \/ \E u \in User :
          \/ BeginCreateUser(s, u)
          \/ \E type \in {"INTERNAL", "CONTRACTOR"} : BeginSetType(s, u, type)
          \/ \E b \in BOOLEAN : BeginSetActive(s, u, b)
          \/ \E R \in RoleSets : BeginSetRoles(s, u, R)
          \/ \E M \in Memberships : BeginSetMemberships(s, u, M)
     \/ \E r \in Role :
          \/ \E P \in SUBSET Permission : BeginSetPermissions(s, r, P)
          \/ \E b \in BOOLEAN : BeginSetRole(s, r, b)
  /\ UNCHANGED <<rows, portalVars>>

AccessCommits(s) ==
  /\ CommitCreateUser(s) \/ CommitSetUser(s) \/ CommitReplace(s) \/ CommitSetRole(s)
  /\ UNCHANGED <<rows, portalVars>>

PortalBegins(s) ==
  \/ BeginDraft(s) \/ BeginPublish(s)
  \/ BeginComment(s) \/ BeginUpload(s)
  \/ \E m \in Comment : BeginEditComment(s, m) \/ BeginDeleteComment(s, m)
  \/ \E a \in Attachment : BeginDeleteAttachment(s, a)

PortalCommits(s) ==
  \/ CommitDraft(s) \/ CommitPublish(s)
  \/ CommitComment(s) \/ CommitEditComment(s)
  \/ StoreFile(s) \/ CommitUpload(s) \/ CommitDeleteAttachment(s)

\* A file that has been stored stays where it is.
Abort(s) == RollsBack(s) /\ UNCHANGED <<rows, accessVars, portalVars>>

Next ==
  \/ \E s \in Session :
       \/ Free(s) /\ (DirectoryBegins(s) \/ AccessBegins(s) \/ PortalBegins(s))
       \/ DirectoryCommits(s) \/ AccessCommits(s) \/ PortalCommits(s)
       \/ Abort(s)
  \/ Seed /\ UNCHANGED portalVars
  \/ \E u \in User : Browse(u)

Spec == Init /\ [][Next]_vars

-----------------------------------------------------------------------------
(* Properties *)

\* Whatever is deleted while it is being referred to, no row refers to one that is gone:
\* in the directory, in memberships, in the request with its assignments, in what
\* contractors have written.  Two thirds of it no handler checks.
ReferencesHold ==
  /\ DirectoryIsWhole
  /\ MembershipsAreWhole
  /\ request # None => RequestRefs(request) \subseteq Present
  /\ Assigned \subseteq Present
  /\ HeldByPosts \subseteq Present \cup {Office}

\* Contractors get to see shared comments and attachments of requests that one of the
\* user's contractors is assigned to: the lists, the downloads and the history, which knows
\* of a comment only what its events have recorded, agree on that.
HiddenStaysHidden ==
  \A x \in shown :
    /\ \/ x.item \in Comment /\ comments[x.item] # None /\ comments[x.item].visibility = "SHARED"
       \/ x.item \in Attachment /\ attachments[x.item] # None /\ attachments[x.item].visibility = "SHARED"
    /\ x.to \cap Assigned # {}

\* Every attachment has its file, deleted or not, whatever fails in between; the opposite,
\* a file without attachment, does happen.
AttachmentsHaveFiles == \A a \in Attachment : attachments[a] # None => a \in files

\* What is written in a contractor's name is of a contractor that the request is assigned
\* to, and a work result is of the contractor whose assignment it is for.
ContractorsSpeakForThemselves ==
  /\ \A m \in Comment : comments[m] # None => comments[m].author \in Assigned \cup {Office}
  /\ \A a \in Attachment : attachments[a] # None =>
       /\ attachments[a].author \in Assigned \cup {Office}
       /\ LET w == attachments[a].assignment
          IN w # None => attachments[a].author \in {Office, assignments[w]}

\* A publication that begins asks for every work type that has no assignment and that a
\* responsibility applies to, and for no other; it asks a contractor whose responsibility
\* is among the nearest.
AsksTheNearest ==
  \A s \in Session :
    session[s] = Idle /\ session'[s] # Idle /\ session'[s].op = "publish" =>
      LET picks == session'[s].picks
          Applies(w) == Applying(request.city, request.facility, w)
      IN /\ DOMAIN picks = {w \in request.works : assignments[w] = None /\ Applies(w) # {}}
         /\ \A w \in DOMAIN picks :
              \E q \in Nearest(request.city, request.facility, w) : picks[w] = rows[q].contractor

\* create_assignments_for_request and find_contractor_for_work_type: every publication does so
\* when it begins; the directory may have changed by its commit.
PublicationsAskTheNearest == [][AsksTheNearest]_vars
=============================================================================
