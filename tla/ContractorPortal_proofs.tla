------------------------ MODULE ContractorPortal_proofs ------------------------
(***************************************************************************)
(* Proofs of the properties of ContractorPortal with the layers below it,  *)
(* for any directory, users, roles, request and number of sessions and     *)
(* calls.                                                                  *)
(***************************************************************************)
EXTENDS ContractorPortal, WellFoundedInduction, TLAPS

(* What sessions are about to commit, by operation. *)
WriteCall == [op : {"create", "update", "delete"}, row : Row,
              old : (UNION {Values(r) : r \in Row}) \cup {None},
              new : (UNION {Values(r) : r \in Row}) \cup {None}, overtaken : BOOLEAN]
UserCall == [op : {"createUser"}, user : User, overtaken : BOOLEAN, new : Account]
TypeCall == [op : {"setType"}, user : User, type : {"INTERNAL", "CONTRACTOR"}, overtaken : BOOLEAN]
ActiveCall == [op : {"setActive"}, user : User, active : BOOLEAN, overtaken : BOOLEAN]
RolesCall == [op : {"setRoles"}, user : User, wanted : SUBSET Role, spared : SUBSET Role,
              overtaken : BOOLEAN]
MembershipsCall == [op : {"setMemberships"}, user : User, wanted : SUBSET (Contractor \X BOOLEAN),
                    spared : SUBSET (Contractor \X BOOLEAN), overtaken : BOOLEAN]
PermissionsCall == [op : {"setPermissions"}, user : Role, wanted : SUBSET Permission,
                    spared : SUBSET Permission, overtaken : BOOLEAN]
RoleCall == [op : {"setRole"}, role : CustomRole, active : BOOLEAN, creates : BOOLEAN,
             overtaken : BOOLEAN]
DraftCall == [op : {"draft"}, new : Request, overtaken : BOOLEAN]
PublishCall == [op : {"publish"}, picks : UNION {[W -> Contractor] : W \in SUBSET WorkType},
                overtaken : BOOLEAN]
CommentCall == [op : {"comment"}, overtaken : BOOLEAN, new : CommentRow]
EditCall == [op : {"editComment"}, item : Comment, deletes : BOOLEAN, overtaken : BOOLEAN]
UploadCall == [op : {"upload"}, item : Attachment, overtaken : BOOLEAN, stored : BOOLEAN,
               new : AttachmentRow]
RemovalCall == [op : {"deleteAttachment"}, item : Attachment, overtaken : BOOLEAN]

DirectoryCall == WriteCall
AccessCall == UserCall \cup TypeCall \cup ActiveCall \cup RolesCall \cup MembershipsCall
              \cup PermissionsCall \cup RoleCall
PortalCall == DraftCall \cup PublishCall \cup CommentCall \cup EditCall \cup UploadCall \cup RemovalCall
Called == {Idle} \cup DirectoryCall \cup AccessCall \cup PortalCall

(* What a call has checked and no other call can undo. *)
Firm(c) ==
  /\ c.op \in {"create", "update"} => c.new \in Values(c.row)
  /\ c.op = "update" => c.old \in Values(c.row)
  /\ c.op = "createUser" => (c.new.user_type = "CONTRACTOR" => c.new.memberships # {})
  /\ c.op \in {"setType", "setActive", "setRoles", "setMemberships"} => users[c.user] # None
  /\ c.op = "setMemberships" => c.spared \subseteq users[c.user].memberships
  /\ c.op = "setPermissions" =>
       roles[c.user] # None /\ (c.user = "PLATFORM_ADMIN" => c.wanted = Permission)
  /\ c.op = "publish" => request # None
  /\ c.op = "comment" => c.new.author \in Assigned \cup {Office}
  /\ c.op = "editComment" => comments[c.item] # None
  /\ c.op = "upload" =>
       /\ attachments[c.item] = None
       /\ c.stored => c.item \in files
       /\ c.new.author \in Assigned \cup {Office}
       /\ c.new.assignment # None =>
            /\ assignments[c.new.assignment] # None
            /\ c.new.author \in {Office, assignments[c.new.assignment]}
  /\ c.op = "deleteAttachment" => attachments[c.item] # None

(* What it has checked and holds until another call commits. *)
Current(c) ==
  /\ c.op = "delete" => c.overtaken \/ Referrers(c.row) = {}
  /\ c.op = "setType" =>
       c.overtaken \/ (c.type = "CONTRACTOR" => users[c.user].memberships # {})
  /\ c.op = "setMemberships" =>
       c.overtaken \/ (users[c.user].user_type = "CONTRACTOR" => c.wanted # {})

(* No two uploads are of the same attachment. *)
UploadsDiffer ==
  \A s, t \in Session :
    session[s].op = "upload" /\ session[t].op = "upload" /\ session[s].item = session[t].item => s = t

(* An event has the visibility of its item. *)
EventsTell ==
  \A e \in events :
    \/ e.item \in Comment /\ comments[e.item] # None /\ comments[e.item].visibility = e.visibility
    \/ e.item \in Attachment /\ attachments[e.item] # None /\ attachments[e.item].visibility = e.visibility

Sessions ==
  /\ session \in [Session -> Called]
  /\ \A s \in Session : Firm(session[s]) /\ Current(session[s])
  /\ UploadsDiffer

Posts == EventsTell /\ HiddenStaysHidden /\ AttachmentsHaveFiles /\ ContractorsSpeakForThemselves

IInv == TypeOK /\ Sessions /\ ReferencesHold /\ NobodyIsShutOut /\ Posts

-----------------------------------------------------------------------------
(* Calls *)

LEMMA CallFacts ==
  ASSUME NEW c \in Called
  PROVE  /\ c.op \in {"create", "update", "delete"} => c \in WriteCall
         /\ c.op = "createUser" => c \in UserCall
         /\ c.op = "setType" => c \in TypeCall
         /\ c.op = "setActive" => c \in ActiveCall
         /\ c.op = "setRoles" => c \in RolesCall
         /\ c.op = "setMemberships" => c \in MembershipsCall
         /\ c.op = "setPermissions" => c \in PermissionsCall
         /\ c.op = "setRole" => c \in RoleCall
         /\ c.op = "draft" => c \in DraftCall
         /\ c.op = "publish" => c \in PublishCall
         /\ c.op = "comment" => c \in CommentCall
         /\ c.op = "editComment" => c \in EditCall
         /\ c.op = "upload" => c \in UploadCall
         /\ c.op = "deleteAttachment" => c \in RemovalCall
<1>1. \A d \in WriteCall : d.op \in {"create", "update", "delete"}
  BY DEF WriteCall
<1>2. /\ \A d \in UserCall : d.op = "createUser"
      /\ \A d \in TypeCall : d.op = "setType"
      /\ \A d \in ActiveCall : d.op = "setActive"
      /\ \A d \in RolesCall : d.op = "setRoles"
      /\ \A d \in MembershipsCall : d.op = "setMemberships"
      /\ \A d \in PermissionsCall : d.op = "setPermissions"
      /\ \A d \in RoleCall : d.op = "setRole"
  BY DEF UserCall, TypeCall, ActiveCall, RolesCall, MembershipsCall, PermissionsCall, RoleCall
<1>3. /\ \A d \in DraftCall : d.op = "draft"
      /\ \A d \in PublishCall : d.op = "publish"
      /\ \A d \in CommentCall : d.op = "comment"
      /\ \A d \in EditCall : d.op = "editComment"
      /\ \A d \in UploadCall : d.op = "upload"
      /\ \A d \in RemovalCall : d.op = "deleteAttachment"
  BY DEF DraftCall, PublishCall, CommentCall, EditCall, UploadCall, RemovalCall
<1>4. Idle.op = "idle"
  BY DEF Idle
<1> QED
  BY <1>1, <1>2, <1>3, <1>4 DEF Called, DirectoryCall, AccessCall, PortalCall

\* A call under way keeps all but its mark when another one commits.
LEMMA OvertakenFacts ==
  ASSUME NEW c \in Called, c # Idle
  PROVE  LET d == [c EXCEPT !.overtaken = TRUE] IN
         /\ d \in Called /\ d # Idle /\ d.op = c.op /\ d.overtaken
         /\ Firm(c) => Firm(d)
         /\ d.op = "upload" => d.item = c.item
<1> DEFINE d == [c EXCEPT !.overtaken = TRUE]
<1>1. CASE c \in WriteCall
  <2>1. d \in WriteCall /\ d.op = c.op /\ d.overtaken /\ d.row = c.row /\ d.old = c.old /\ d.new = c.new
    BY <1>1 DEF WriteCall
  <2>2. c.op \in {"create", "update", "delete"}
    BY <1>1 DEF WriteCall
  <2> QED
    BY <2>1, <2>2 DEF Called, DirectoryCall, Firm, Idle
<1>2. CASE c \in UserCall
  <2>1. d \in UserCall /\ d.op = "createUser" /\ c.op = "createUser" /\ d.overtaken /\ d.new = c.new
    BY <1>2 DEF UserCall
  <2> QED
    BY <2>1 DEF Called, AccessCall, Firm, Idle
<1>3. CASE c \in TypeCall
  <2>1. d \in TypeCall /\ d.op = "setType" /\ c.op = "setType" /\ d.overtaken /\ d.user = c.user
    BY <1>3 DEF TypeCall
  <2> QED
    BY <2>1 DEF Called, AccessCall, Firm, Idle
<1>4. CASE c \in ActiveCall
  <2>1. d \in ActiveCall /\ d.op = "setActive" /\ c.op = "setActive" /\ d.overtaken /\ d.user = c.user
    BY <1>4 DEF ActiveCall
  <2> QED
    BY <2>1 DEF Called, AccessCall, Firm, Idle
<1>5. CASE c \in RolesCall
  <2>1. d \in RolesCall /\ d.op = "setRoles" /\ c.op = "setRoles" /\ d.overtaken /\ d.user = c.user
    BY <1>5 DEF RolesCall
  <2> QED
    BY <2>1 DEF Called, AccessCall, Firm, Idle
<1>6. CASE c \in MembershipsCall
  <2>1. /\ d \in MembershipsCall /\ d.op = "setMemberships" /\ c.op = "setMemberships" /\ d.overtaken
        /\ d.user = c.user /\ d.spared = c.spared
    BY <1>6 DEF MembershipsCall
  <2> QED
    BY <2>1 DEF Called, AccessCall, Firm, Idle
<1>7. CASE c \in PermissionsCall
  <2>1. /\ d \in PermissionsCall /\ d.op = "setPermissions" /\ c.op = "setPermissions" /\ d.overtaken
        /\ d.user = c.user /\ d.wanted = c.wanted
    BY <1>7 DEF PermissionsCall
  <2> QED
    BY <2>1 DEF Called, AccessCall, Firm, Idle
<1>8. CASE c \in RoleCall
  <2>1. d \in RoleCall /\ d.op = "setRole" /\ c.op = "setRole" /\ d.overtaken
    BY <1>8 DEF RoleCall
  <2> QED
    BY <2>1 DEF Called, AccessCall, Firm, Idle
<1>9. CASE c \in DraftCall
  <2>1. d \in DraftCall /\ d.op = "draft" /\ c.op = "draft" /\ d.overtaken
    BY <1>9 DEF DraftCall
  <2> QED
    BY <2>1 DEF Called, PortalCall, Firm, Idle
<1>10. CASE c \in PublishCall
  <2>1. d \in PublishCall /\ d.op = "publish" /\ c.op = "publish" /\ d.overtaken
    BY <1>10 DEF PublishCall
  <2> QED
    BY <2>1 DEF Called, PortalCall, Firm, Idle
<1>11. CASE c \in CommentCall
  <2>1. d \in CommentCall /\ d.op = "comment" /\ c.op = "comment" /\ d.overtaken /\ d.new = c.new
    BY <1>11 DEF CommentCall
  <2> QED
    BY <2>1 DEF Called, PortalCall, Firm, Idle
<1>12. CASE c \in EditCall
  <2>1. d \in EditCall /\ d.op = "editComment" /\ c.op = "editComment" /\ d.overtaken /\ d.item = c.item
    BY <1>12 DEF EditCall
  <2> QED
    BY <2>1 DEF Called, PortalCall, Firm, Idle
<1>13. CASE c \in UploadCall
  <2>1. /\ d \in UploadCall /\ d.op = "upload" /\ c.op = "upload" /\ d.overtaken /\ d.item = c.item
        /\ d.stored = c.stored /\ d.new = c.new
    BY <1>13 DEF UploadCall
  <2> QED
    BY <2>1 DEF Called, PortalCall, Firm, Idle
<1>14. CASE c \in RemovalCall
  <2>1. /\ d \in RemovalCall /\ d.op = "deleteAttachment" /\ c.op = "deleteAttachment" /\ d.overtaken
        /\ d.item = c.item
    BY <1>14 DEF RemovalCall
  <2> QED
    BY <2>1 DEF Called, PortalCall, Firm, Idle
<1> QED
  BY <1>1, <1>2, <1>3, <1>4, <1>5, <1>6, <1>7, <1>8, <1>9, <1>10, <1>11, <1>12, <1>13, <1>14
     DEF Called, DirectoryCall, AccessCall, PortalCall

\* A call that replaces what another one has replaced meanwhile spares what that one leaves
\* of it and what it has inserted.
LEMMA SparingFacts ==
  ASSUME NEW c \in Called, NEW d \in Called, c # Idle, c.op = d.op, c.op \in {"setRoles", "setMemberships", "setPermissions"}
  PROVE  LET e == [d EXCEPT !.overtaken = TRUE, !.spared = (@ \cap c.spared) \cup c.wanted] IN
         /\ e \in Called /\ e # Idle /\ e.op = d.op /\ e.overtaken /\ e.user = d.user
         /\ e.wanted = d.wanted /\ e.spared \subseteq c.spared \cup c.wanted
<1> DEFINE e == [d EXCEPT !.overtaken = TRUE, !.spared = (@ \cap c.spared) \cup c.wanted]
<1>1. CASE c.op = "setRoles"
  <2>1. c \in RolesCall /\ d \in RolesCall
    BY <1>1, CallFacts
  <2>2. /\ e \in RolesCall /\ e.op = d.op /\ e.overtaken /\ e.user = d.user /\ e.wanted = d.wanted
        /\ e.spared = (d.spared \cap c.spared) \cup c.wanted
    BY <2>1 DEF RolesCall
  <2> QED
    BY <1>1, <2>2 DEF Called, AccessCall, Idle
<1>2. CASE c.op = "setMemberships"
  <2>1. c \in MembershipsCall /\ d \in MembershipsCall
    BY <1>2, CallFacts
  <2>2. /\ e \in MembershipsCall /\ e.op = d.op /\ e.overtaken /\ e.user = d.user /\ e.wanted = d.wanted
        /\ e.spared = (d.spared \cap c.spared) \cup c.wanted
    BY <2>1 DEF MembershipsCall
  <2> QED
    BY <1>2, <2>2 DEF Called, AccessCall, Idle
<1>3. CASE c.op = "setPermissions"
  <2>1. c \in PermissionsCall /\ d \in PermissionsCall
    BY <1>3, CallFacts
  <2>2. /\ e \in PermissionsCall /\ e.op = d.op /\ e.overtaken /\ e.user = d.user /\ e.wanted = d.wanted
        /\ e.spared = (d.spared \cap c.spared) \cup c.wanted
    BY <2>1 DEF PermissionsCall
  <2> QED
    BY <1>3, <2>2 DEF Called, AccessCall, Idle
<1> QED
  BY <1>1, <1>2, <1>3

-----------------------------------------------------------------------------
(* What steps leave to the calls of other sessions *)

Leaves(s) ==
  /\ \A u \in User : users[u] # None => users'[u] # None
  /\ \A r \in Role : roles[r] # None => roles'[r] # None
  /\ request # None => request' # None
  /\ \A w \in WorkType : assignments[w] # None => assignments'[w] = assignments[w]
  /\ \A m \in Comment : comments[m] # None => comments'[m] # None
  /\ \A a \in Attachment : attachments[a] # None => attachments'[a] # None
  /\ \A a \in Attachment :
       attachments[a] = None =>
         attachments'[a] = None \/ (session[s].op = "upload" /\ session[s].item = a)
  /\ files \subseteq files'

LEMMA FirmIsKept ==
  ASSUME IInv, NEW s \in Session, Leaves(s), NEW c \in Called, Firm(c),
         c.op = "setMemberships" => c.spared \subseteq users'[c.user].memberships,
         c.op = "upload" => session[s].op # "upload" \/ c.item # session[s].item
  PROVE  Firm(c)'
<1>1. Assigned \subseteq Assigned'
  BY DEF Leaves, Assigned
<1>2. CASE c.op \in {"create", "update", "delete", "createUser"}
  BY <1>2 DEF Firm
<1>3. CASE c.op \in {"setType", "setActive", "setRoles", "setMemberships"}
  <2>1. c.user \in User
    BY <1>3, CallFacts DEF TypeCall, ActiveCall, RolesCall, MembershipsCall
  <2> QED
    BY <1>3, <2>1 DEF Firm, Leaves
<1>4. CASE c.op = "setPermissions"
  <2>1. c.user \in Role
    BY <1>4, CallFacts DEF PermissionsCall
  <2> QED
    BY <1>4, <2>1 DEF Firm, Leaves
<1>5. CASE c.op \in {"publish", "comment"}
  BY <1>1, <1>5 DEF Firm, Leaves
<1>6. CASE c.op = "editComment"
  <2>1. c.item \in Comment
    BY <1>6, CallFacts DEF EditCall
  <2> QED
    BY <1>6, <2>1 DEF Firm, Leaves
<1>7. CASE c.op = "upload"
  <2>1. c.item \in Attachment /\ c.new.assignment \in WorkType \cup {None}
    BY <1>7, CallFacts DEF UploadCall, AttachmentRow
  <2> QED
    BY <1>1, <1>7, <2>1 DEF Firm, Leaves
<1>8. CASE c.op = "deleteAttachment"
  <2>1. c.item \in Attachment
    BY <1>8, CallFacts DEF RemovalCall
  <2> QED
    BY <1>8, <2>1 DEF Firm, Leaves
<1>9. CASE c.op \notin {"create", "update", "delete", "createUser", "setType", "setActive", "setRoles",
                        "setMemberships", "setPermissions", "publish", "comment", "editComment", "upload",
                        "deleteAttachment"}
  BY <1>9 DEF Firm
<1> QED
  BY <1>2, <1>3, <1>4, <1>5, <1>6, <1>7, <1>8, <1>9

\* Nothing that an overtaken call has checked needs to hold.
LEMMA OvertakenIsCurrent ==
  ASSUME NEW c, c.op = "idle" \/ c.overtaken
  PROVE  Current(c) /\ Current(c)'
BY DEF Current

LEMMA IdleFacts == Idle \in Called /\ Idle.op = "idle" /\ Firm(Idle) /\ Firm(Idle)'
BY DEF Idle, Called, Firm

\* A session that begins, goes on or gives up, while the others stay as they are.
LEMMA SessionKeeps ==
  ASSUME IInv, NEW s \in Session, Leaves(s), UNCHANGED <<rows, users>>,
         NEW c \in Called, session' = [session EXCEPT ![s] = c], Firm(c)', Current(c),
         c.op = "upload" =>
           \A t \in Session \ {s} : session[t].op = "upload" => session[t].item # c.item
  PROVE  Sessions'
<1>1. session \in [Session -> Called] /\ UploadsDiffer
      /\ \A t \in Session : Firm(session[t]) /\ Current(session[t])
  BY DEF IInv, Sessions
<1>2. session' \in [Session -> Called] /\ \A t \in Session : session'[t] = IF t = s THEN c ELSE session[t]
  BY <1>1
<1>3. ASSUME NEW d, Current(d) PROVE Current(d)'
  BY <1>3 DEF Current, Referrers, Present
<1>4. ASSUME NEW t \in Session, t # s, NEW d \in Called, d = session[t]
      PROVE  Firm(d)'
  <2>1. Firm(d)
    BY <1>1, <1>4
  <2>2. d.op = "setMemberships" => d.spared \subseteq users'[d.user].memberships
    BY <2>1 DEF Firm
  <2>3. d.op = "upload" => session[s].op # "upload" \/ d.item # session[s].item
    BY <1>1, <1>4 DEF UploadsDiffer
  <2> QED
    BY <2>1, <2>2, <2>3, FirmIsKept
<1>5. ASSUME NEW t \in Session PROVE Firm(session[t])' /\ Current(session[t])'
  <2>1. CASE t = s
    <3>1. Firm(c)' /\ Current(c)' /\ session'[t] = c
      BY <1>2, <1>3, <2>1
    <3> QED
      BY <3>1 DEF Firm, Current
  <2>2. CASE t # s
    <3>1. PICK d \in Called : d = session[t]
      BY <1>1
    <3>2. Firm(d)' /\ Current(d)' /\ session'[t] = d
      BY <1>1, <1>2, <1>3, <1>4, <2>2, <3>1
    <3> QED
      BY <3>2 DEF Firm, Current
  <2> QED
    BY <2>1, <2>2
<1>6. UploadsDiffer'
  BY <1>1, <1>2 DEF UploadsDiffer
<1> QED
  BY <1>2, <1>5, <1>6 DEF Sessions

\* A commit, after which no call of another session is current.
LEMMA CommitKeepsSessions ==
  ASSUME IInv, NEW s \in Session, session[s] # Idle, Leaves(s),
         \/ Ends(s) /\ \A u \in User : users[u] # None => users'[u].memberships = users[u].memberships
         \/ /\ EndsReplacing(s)
            /\ session[s].op \in {"setRoles", "setMemberships", "setPermissions"}
            /\ \A u \in User : users[u] # None =>
                 users'[u].memberships =
                   IF session[s].op = "setMemberships" /\ u = session[s].user
                   THEN session[s].spared \cup session[s].wanted ELSE users[u].memberships
  PROVE  Sessions' /\ (\A t \in Session : session'[t] = Idle => t = s \/ session[t] = Idle) /\ UNCHANGED calls
<1>1. session \in [Session -> Called] /\ UploadsDiffer
      /\ \A t \in Session : Firm(session[t]) /\ Current(session[t])
  BY DEF IInv, Sessions
<1>2. PICK c \in Called : c = session[s]
  BY <1>1
<1>3. ASSUME NEW t \in Session, t # s, session[t] # Idle, NEW d \in Called, d = session[t]
      PROVE  \E e \in Called :
               /\ session'[t] = e /\ e # Idle /\ e.op = d.op /\ e.overtaken /\ Firm(e)'
               /\ e.op = "upload" => e.item = d.item
  <2>1. Firm(d) /\ (d.op = "upload" => c.op # "upload" \/ d.item # c.item)
    BY <1>1, <1>2, <1>3 DEF UploadsDiffer
  <2>2. d.op = "setMemberships" =>
          d.user \in User /\ users[d.user] # None /\ d.spared \subseteq users[d.user].memberships
    BY <2>1, CallFacts DEF Firm, MembershipsCall
  <2>3. ASSUME session'[t] = [d EXCEPT !.overtaken = TRUE],
               d.op = "setMemberships" => users'[d.user].memberships = users[d.user].memberships
        PROVE  \E e \in Called :
               /\ session'[t] = e /\ e # Idle /\ e.op = d.op /\ e.overtaken /\ Firm(e)'
               /\ e.op = "upload" => e.item = d.item
    <3> DEFINE e == [d EXCEPT !.overtaken = TRUE]
    <3>1. e \in Called /\ e # Idle /\ e.op = d.op /\ e.overtaken /\ Firm(e)
          /\ (e.op = "upload" => e.item = d.item)
      BY <1>3, <2>1, OvertakenFacts
    <3>2. e.op = "setMemberships" => e.user = d.user /\ e.spared = d.spared
      BY <3>1, CallFacts DEF MembershipsCall
    <3> HIDE DEF e
    <3>3. Firm(e)'
      BY <1>2, <2>1, <2>2, <2>3, <3>1, <3>2, FirmIsKept
    <3> QED
      BY <2>3, <3>1, <3>3 DEF e
  <2>4. CASE Ends(s) /\ \A u \in User : users[u] # None => users'[u].memberships = users[u].memberships
    <3>1. session'[t] = [d EXCEPT !.overtaken = TRUE]
      BY <1>3, <2>4 DEF Ends
    <3>2. d.op = "setMemberships" => users'[d.user].memberships = users[d.user].memberships
      BY <2>2, <2>4
    <3> QED
      BY <2>3, <3>1, <3>2
  <2>5. CASE /\ EndsReplacing(s)
             /\ session[s].op \in {"setRoles", "setMemberships", "setPermissions"}
             /\ \A u \in User : users[u] # None =>
                  users'[u].memberships =
                    IF session[s].op = "setMemberships" /\ u = session[s].user
                    THEN session[s].spared \cup session[s].wanted ELSE users[u].memberships
    <3>1. CASE d.op = c.op /\ d.user = c.user
      <4> DEFINE e == [d EXCEPT !.overtaken = TRUE, !.spared = (@ \cap c.spared) \cup c.wanted]
      <4>1. session'[t] = e
        BY <1>2, <1>3, <2>5, <3>1 DEF EndsReplacing
      <4>2. /\ e \in Called /\ e # Idle /\ e.op = d.op /\ e.overtaken /\ e.user = d.user
            /\ e.wanted = d.wanted /\ e.spared \subseteq c.spared \cup c.wanted
        <5>1. c # Idle /\ c.op = d.op /\ c.op \in {"setRoles", "setMemberships", "setPermissions"}
          BY <1>2, <2>5, <3>1
        <5> QED
          BY <3>1, <5>1, SparingFacts
      <4>3. d.op = "setMemberships" => users'[d.user].memberships = c.spared \cup c.wanted
        BY <1>2, <2>2, <2>5, <3>1
      <4>4. c.op \in {"setRoles", "setMemberships", "setPermissions"}
        BY <1>2, <2>5
      <4> HIDE DEF e
      <4>5. Firm(e)'
        <5>1. d.op \in {"setRoles", "setMemberships"} => users'[d.user] # None
          <6>1. d.op \in {"setRoles", "setMemberships"} => d.user \in User /\ users[d.user] # None
            BY <2>1, CallFacts DEF Firm, RolesCall, MembershipsCall
          <6> QED
            BY <6>1 DEF Leaves
        <5>2. d.op = "setPermissions" =>
                roles'[d.user] # None /\ (d.user = "PLATFORM_ADMIN" => d.wanted = Permission)
          <6>1. d.op = "setPermissions" =>
                  /\ d.user \in Role /\ roles[d.user] # None
                  /\ d.user = "PLATFORM_ADMIN" => d.wanted = Permission
            BY <2>1, CallFacts DEF Firm, PermissionsCall
          <6> QED
            BY <6>1 DEF Leaves
        <5> QED
          BY <3>1, <4>2, <4>3, <4>4, <5>1, <5>2 DEF Firm
      <4>6. e.op # "upload"
        BY <3>1, <4>2, <4>4
      <4> QED
        BY <4>1, <4>2, <4>5, <4>6
    <3>2. CASE ~(d.op = c.op /\ d.user = c.user)
      <4>1. session'[t] = [d EXCEPT !.overtaken = TRUE]
        BY <1>2, <1>3, <2>5, <3>2 DEF EndsReplacing
      <4>2. d.op = "setMemberships" => users'[d.user].memberships = users[d.user].memberships
        BY <1>2, <2>2, <2>5, <3>2
      <4> QED
        BY <2>3, <4>1, <4>2
    <3> QED
      BY <3>1, <3>2
  <2> QED
    BY <2>4, <2>5
<1>4. session' = [t \in Session |-> session'[t]] /\ UNCHANGED calls
      /\ \A t \in Session : t = s \/ session[t] = Idle => session'[t] = Idle
  BY DEF Ends, EndsReplacing
<1>5. ASSUME NEW t \in Session
      PROVE  \/ session'[t] = Idle /\ (t = s \/ session[t] = Idle)
             \/ /\ t # s /\ session[t] # Idle
                /\ \E e \in Called :
                     /\ session'[t] = e /\ e # Idle /\ e.op = session[t].op /\ e.overtaken /\ Firm(e)'
                     /\ e.op = "upload" => e.item = session[t].item
  <2>1. CASE t = s \/ session[t] = Idle
    BY <1>4, <2>1
  <2>2. CASE t # s /\ session[t] # Idle
    <3>1. PICK d \in Called : d = session[t]
      BY <1>1
    <3> QED
      BY <1>3, <2>2, <3>1
  <2> QED
    BY <2>1, <2>2
<1>6. session' \in [Session -> Called]
  BY <1>4, <1>5, IdleFacts
<1>7. ASSUME NEW t \in Session PROVE Firm(session[t])' /\ Current(session[t])'
  <2>1. CASE session'[t] = Idle
    BY <2>1 DEF Firm, Current, Idle
  <2>2. ASSUME NEW e \in Called, session'[t] = e, Firm(e)', e.overtaken
        PROVE  Firm(session[t])' /\ Current(session[t])'
    <3>1. Current(e)'
      BY <2>2, OvertakenIsCurrent
    <3> QED
      BY <2>2, <3>1 DEF Firm, Current
  <2> QED
    BY <1>5, <2>1, <2>2
<1>8. UploadsDiffer'
  BY <1>1, <1>5, IdleFacts DEF UploadsDiffer
<1> QED
  BY <1>4, <1>5, <1>6, <1>7, <1>8 DEF Sessions

-----------------------------------------------------------------------------
(* Steps that change no row but those of sessions and seeding *)

LEMMA RoleFacts ==
  ASSUME IInv
  PROVE  /\ roles \in [Role -> RoleRow \cup {None}] /\ System \subseteq Role
         /\ \A r \in Role : roles[r] # None => roles[r] \in RoleRow
         /\ \A r \in System : roles[r] # None
         /\ roles["PLATFORM_ADMIN"].permissions = Permission
BY DEF IInv, TypeOK, AccessTypeOK, NobodyIsShutOut, Existing, Role

LEMMA SeededFacts ==
  ASSUME IInv
  PROVE  /\ Seeded \in [Role -> RoleRow \cup {None}]
         /\ \A r \in Role : Seeded[r] # None <=> roles[r] # None
         /\ Seeded["PLATFORM_ADMIN"].permissions = Permission
<1>1. \A r \in System : Default[r] \subseteq Permission
  BY DEF Default, Permission
<1>2. ASSUME NEW r \in Role
      PROVE  /\ Seeded[r] \in RoleRow \cup {None} /\ (Seeded[r] # None <=> roles[r] # None)
             /\ r = "PLATFORM_ADMIN" => Seeded[r].permissions = Permission
  <2>1. CASE r \in System
    <3>1. roles[r] \in RoleRow /\ roles[r] # None
      BY <2>1, RoleFacts
    <3>2. Seeded[r] = [roles[r] EXCEPT !.permissions = @ \cup Default[r]]
      BY <2>1 DEF Seeded
    <3>3. Seeded[r] \in RoleRow /\ Seeded[r].permissions = roles[r].permissions \cup Default[r]
      BY <1>1, <2>1, <3>1, <3>2 DEF RoleRow
    <3>4. r = "PLATFORM_ADMIN" => Seeded[r].permissions = Permission
      BY <1>1, <2>1, <3>3, RoleFacts
    <3> QED
      BY <3>1, <3>3, <3>4, NoUserAssumption
  <2>2. CASE r \notin System
    <3>1. Seeded[r] = roles[r]
      BY <2>2 DEF Seeded
    <3> QED
      BY <2>2, <3>1, RoleFacts DEF System
  <2> QED
    BY <2>1, <2>2
<1>3. "PLATFORM_ADMIN" \in Role
  BY DEF Role, System
<1>4. Seeded = [r \in Role |-> Seeded[r]]
  BY DEF Seeded
<1> QED
  BY <1>2, <1>3, <1>4

(* What is seen of the rows when neither they nor users change. *)
LEMMA SameRows ==
  ASSUME IInv, UNCHANGED <<rows, users, overlapped, requestVars, postVars, shown>>,
         roles' \in {roles, Seeded}, calls' \in 0..MaxCalls
  PROVE  TypeOK' /\ ReferencesHold' /\ NobodyIsShutOut' /\ Posts'
<1>1. UNCHANGED <<rows, users, overlapped, request, assignments, comments, attachments, files, events, shown>>
  BY DEF requestVars, postVars
<1>2. /\ roles' \in [Role -> RoleRow \cup {None}] /\ roles'["PLATFORM_ADMIN"].permissions = Permission
      /\ \A r \in Role : roles'[r] # None <=> roles[r] # None
  BY RoleFacts, SeededFacts
<1>3. TypeOK'
  <2>1. DirectoryTypeOK'
    BY <1>1 DEF IInv, TypeOK, DirectoryTypeOK, Present
  <2>2. AccessTypeOK'
    BY <1>1, <1>2, RoleFacts DEF IInv, TypeOK, AccessTypeOK, Existing
  <2>3. PortalTypeOK'
    BY <1>1 DEF IInv, TypeOK, PortalTypeOK
  <2> QED
    BY <2>1, <2>2, <2>3 DEF TypeOK
<1>4. ReferencesHold'
  BY <1>1 DEF IInv, ReferencesHold, DirectoryIsWhole, MembershipsAreWhole, Present, Assigned, HeldByPosts
<1>5. NobodyIsShutOut'
  BY <1>1, <1>2 DEF IInv, NobodyIsShutOut
<1>6. Posts'
  BY <1>1 DEF IInv, Posts, EventsTell, HiddenStaysHidden, AttachmentsHaveFiles,
              ContractorsSpeakForThemselves, Assigned
<1> QED
  BY <1>3, <1>4, <1>5, <1>6

LEMMA BeginKeeps ==
  ASSUME IInv, NEW s \in Session, NEW c \in Called, Starts(s, c), roles' = Seeded,
         UNCHANGED <<rows, users, overlapped, portalVars>>, Firm(c), Current(c),
         c.op = "upload" => \A t \in Session : session[t].op = "upload" => session[t].item # c.item
  PROVE  IInv'
<1>1. UNCHANGED <<rows, users, overlapped, requestVars, postVars, shown>>
  BY DEF portalVars
<1>2. session[s] = Idle /\ session' = [session EXCEPT ![s] = c] /\ calls' \in 0..MaxCalls
  BY NumbersAssumption DEF Starts, Free, IInv, TypeOK, DirectoryTypeOK
<1>3. TypeOK' /\ ReferencesHold' /\ NobodyIsShutOut' /\ Posts'
  BY <1>1, <1>2, SameRows
<1>4. Leaves(s)
  BY <1>1, SeededFacts DEF Leaves, requestVars, postVars
<1>5. Firm(c)'
  <2>1. c.op = "setMemberships" => c.spared \subseteq users'[c.user].memberships
    BY <1>1 DEF Firm
  <2>2. session[s].op # "upload"
    BY <1>2 DEF Idle
  <2> QED
    BY <1>4, <2>1, <2>2, FirmIsKept
<1>6. Sessions'
  BY <1>1, <1>2, <1>4, <1>5, SessionKeeps
<1> QED
  BY <1>3, <1>6 DEF IInv

LEMMA RowFacts ==
  ASSUME IInv, NEW r \in Present
  PROVE  r \in Row /\ rows[r] \in Values(r) /\ rows[r] # None
BY DEF IInv, TypeOK, DirectoryTypeOK, Present

LEMMA DirectoryBeginsKeeps ==
  ASSUME IInv, NEW s \in Session, DirectoryBegins(s)
  PROVE  IInv'
<1>1. roles' = Seeded /\ UNCHANGED <<rows, users, overlapped, portalVars>>
  BY DEF DirectoryBegins, Seeds
<1>2. ASSUME NEW r \in Row, NEW v \in Inputs[r], BeginCreate(s, r, v) PROVE IInv'
  <2> DEFINE c == Write("create", r, None, v)
  <2>1. v \in Values(r) /\ Starts(s, c)
    BY <1>2, InputsAssumption DEF BeginCreate
  <2>2. c \in WriteCall /\ c.op = "create" /\ c.row = r /\ c.new = v
    BY <2>1 DEF Write, WriteCall
  <2> HIDE DEF c
  <2>3. c \in Called /\ Firm(c) /\ Current(c) /\ c.op # "upload"
    BY <2>1, <2>2 DEF Called, DirectoryCall, Firm, Current
  <2> QED
    BY <1>1, <2>1, <2>3, BeginKeeps
<1>3. ASSUME NEW r \in Row, NEW v \in Inputs[r], BeginUpdate(s, r, v) PROVE IInv'
  <2> DEFINE c == Write("update", r, rows[r], v)
  <2>1. v \in Values(r) /\ rows[r] \in Values(r) /\ Starts(s, c)
    BY <1>3, InputsAssumption, RowFacts DEF BeginUpdate
  <2>2. c \in WriteCall /\ c.op = "update" /\ c.row = r /\ c.new = v /\ c.old = rows[r]
    BY <2>1 DEF Write, WriteCall
  <2> HIDE DEF c
  <2>3. c \in Called /\ Firm(c) /\ Current(c) /\ c.op # "upload"
    BY <2>1, <2>2 DEF Called, DirectoryCall, Firm, Current
  <2>4. PICK d \in Called : d = c
    BY <2>3
  <2>5. Starts(s, d) /\ Firm(d) /\ Current(d) /\ d.op # "upload"
    BY <2>1, <2>3, <2>4
  <2> QED
    BY <1>1, <2>5, BeginKeeps
<1>4. ASSUME NEW r \in Row, BeginDelete(s, r) PROVE IInv'
  <2> DEFINE c == Write("delete", r, rows[r], None)
  <2>1. rows[r] \in Values(r) /\ Referrers(r) = {} /\ Starts(s, c)
    BY <1>4, RowFacts DEF BeginDelete
  <2>2. c \in WriteCall /\ c.op = "delete" /\ c.row = r
    BY <2>1 DEF Write, WriteCall
  <2> HIDE DEF c
  <2>3. c \in Called /\ Firm(c) /\ Current(c) /\ c.op # "upload"
    BY <2>1, <2>2 DEF Called, DirectoryCall, Firm, Current
  <2>4. PICK d \in Called : d = c
    BY <2>3
  <2>5. Starts(s, d) /\ Firm(d) /\ Current(d) /\ d.op # "upload"
    BY <2>1, <2>3, <2>4
  <2> QED
    BY <1>1, <2>5, BeginKeeps
<1> QED
  BY <1>2, <1>3, <1>4 DEF DirectoryBegins

LEMMA UserFacts ==
  ASSUME IInv, NEW u \in User, users[u] # None
  PROVE  users[u] \in Account
BY DEF IInv, TypeOK, AccessTypeOK

LEMMA AccessBeginsKeeps ==
  ASSUME IInv, NEW s \in Session, AccessBegins(s)
  PROVE  IInv'
<1>1. UNCHANGED <<rows, portalVars>>
  BY DEF AccessBegins
<1> DEFINE Fits(c) == c \in Called /\ Firm(c) /\ Current(c) /\ c.op # "upload"
<1>2. ASSUME NEW c, Fits(c), Starts(s, c), Seeds PROVE IInv'
  BY <1>1, <1>2, BeginKeeps DEF Seeds
<1> HIDE DEF Fits
<1>3. ASSUME NEW u \in User, BeginCreateUser(s, u) PROVE IInv'
  <2>1. PICK type \in {"INTERNAL", "CONTRACTOR"}, active \in BOOLEAN, R \in RoleSets, M \in Memberships :
          /\ type = "CONTRACTOR" => M # {}
          /\ Starts(s, [op |-> "createUser", user |-> u, overtaken |-> FALSE,
                        new |-> [user_type |-> type, is_active |-> active, roles |-> R, memberships |-> M]])
    BY <1>3 DEF BeginCreateUser
  <2> DEFINE new == [user_type |-> type, is_active |-> active, roles |-> R, memberships |-> M]
             c == [op |-> "createUser", user |-> u, overtaken |-> FALSE, new |-> new]
  <2>2. new \in Account /\ new.user_type = type /\ new.memberships = M
    BY RolesAssumption, MembershipsAssumption DEF Account, Memberships
  <2> HIDE DEF new
  <2>3. c \in UserCall /\ c.op = "createUser" /\ c.new = new
    BY <2>2 DEF UserCall
  <2>4. Starts(s, c)
    BY <2>1 DEF new
  <2> HIDE DEF c
  <2>5. Fits(c)
    BY <2>1, <2>2, <2>3 DEF Fits, Called, AccessCall, Firm, Current
  <2> QED
    BY <1>2, <1>3, <2>4, <2>5 DEF BeginCreateUser
<1>4. ASSUME NEW u \in User, NEW type \in {"INTERNAL", "CONTRACTOR"}, BeginSetType(s, u, type) PROVE IInv'
  <2> DEFINE c == [op |-> "setType", user |-> u, type |-> type, overtaken |-> FALSE]
  <2>1. c \in TypeCall /\ c.op = "setType" /\ c.user = u /\ c.type = type
    BY DEF TypeCall
  <2>2. Starts(s, c) /\ Seeds /\ users[u] # None /\ (type = "CONTRACTOR" => users[u].memberships # {})
    BY <1>4 DEF BeginSetType
  <2> HIDE DEF c
  <2>3. Fits(c)
    BY <2>1, <2>2 DEF Fits, Called, AccessCall, Firm, Current
  <2> QED
    BY <1>2, <2>2, <2>3
<1>5. ASSUME NEW u \in User, NEW b \in BOOLEAN, BeginSetActive(s, u, b) PROVE IInv'
  <2> DEFINE c == [op |-> "setActive", user |-> u, active |-> b, overtaken |-> FALSE]
  <2>1. c \in ActiveCall /\ c.op = "setActive" /\ c.user = u
    BY DEF ActiveCall
  <2>2. Starts(s, c) /\ Seeds /\ users[u] # None
    BY <1>5 DEF BeginSetActive
  <2> HIDE DEF c
  <2>3. Fits(c)
    BY <2>1, <2>2 DEF Fits, Called, AccessCall, Firm, Current
  <2> QED
    BY <1>2, <2>2, <2>3
<1>6. ASSUME NEW u \in User, NEW R \in RoleSets, BeginSetRoles(s, u, R) PROVE IInv'
  <2> DEFINE c == [op |-> "setRoles", user |-> u, wanted |-> R, spared |-> {}, overtaken |-> FALSE]
  <2>1. c \in RolesCall /\ c.op = "setRoles" /\ c.user = u
    BY RolesAssumption DEF RolesCall
  <2>2. Starts(s, c) /\ Seeds /\ users[u] # None
    BY <1>6 DEF BeginSetRoles, BeginReplace
  <2> HIDE DEF c
  <2>3. Fits(c)
    BY <2>1, <2>2 DEF Fits, Called, AccessCall, Firm, Current
  <2> QED
    BY <1>2, <2>2, <2>3
<1>7. ASSUME NEW u \in User, NEW M \in Memberships, BeginSetMemberships(s, u, M) PROVE IInv'
  <2> DEFINE c == [op |-> "setMemberships", user |-> u, wanted |-> M, spared |-> {}, overtaken |-> FALSE]
  <2>1. c \in MembershipsCall /\ c.op = "setMemberships" /\ c.user = u /\ c.wanted = M /\ c.spared = {}
    BY MembershipsAssumption DEF MembershipsCall, Memberships
  <2>2. Starts(s, c) /\ Seeds /\ users[u] # None /\ (users[u].user_type = "CONTRACTOR" => M # {})
    BY <1>7 DEF BeginSetMemberships, BeginReplace
  <2> HIDE DEF c
  <2>3. Fits(c)
    BY <2>1, <2>2 DEF Fits, Called, AccessCall, Firm, Current
  <2> QED
    BY <1>2, <2>1, <2>2, <2>3
<1>8. ASSUME NEW r \in Role, NEW P \in SUBSET Permission, BeginSetPermissions(s, r, P) PROVE IInv'
  <2> DEFINE c == [op |-> "setPermissions", user |-> r, wanted |-> P, spared |-> {}, overtaken |-> FALSE]
  <2>1. c \in PermissionsCall /\ c.op = "setPermissions" /\ c.user = r /\ c.wanted = P
    BY DEF PermissionsCall
  <2>2. Starts(s, c) /\ Seeds /\ roles[r] # None /\ (r = "PLATFORM_ADMIN" => P = Permission)
    BY <1>8 DEF BeginSetPermissions, BeginReplace, Existing
  <2> HIDE DEF c
  <2>3. Fits(c)
    BY <2>1, <2>2 DEF Fits, Called, AccessCall, Firm, Current
  <2> QED
    BY <1>2, <2>2, <2>3
<1>9. ASSUME NEW r \in Role, NEW b \in BOOLEAN, BeginSetRole(s, r, b) PROVE IInv'
  <2> DEFINE c == [op |-> "setRole", role |-> r, active |-> b, creates |-> roles[r] = None, overtaken |-> FALSE]
  <2>1. Starts(s, c) /\ Seeds /\ r \in CustomRole
    BY <1>9 DEF BeginSetRole
  <2>2. c \in RoleCall /\ c.op = "setRole"
    <3>1. (roles[r] = None) \in BOOLEAN
      OBVIOUS
    <3> QED
      BY <2>1, <3>1 DEF RoleCall
  <2> HIDE DEF c
  <2>3. Fits(c)
    BY <2>1, <2>2 DEF Fits, Called, AccessCall, Firm, Current
  <2>4. PICK d : d = c
    OBVIOUS
  <2> QED
    BY <1>2, <2>1, <2>3, <2>4
<1> QED
  BY <1>3, <1>4, <1>5, <1>6, <1>7, <1>8, <1>9 DEF AccessBegins

LEMMA AssignedFacts ==
  ASSUME IInv
  PROVE  /\ assignments \in [WorkType -> Contractor \cup {None}] /\ Assigned \subseteq Contractor
         /\ \A p : Authors(p) \subseteq Assigned \cup {Office}
<1>1. assignments \in [WorkType -> Contractor \cup {None}]
  BY DEF IInv, TypeOK, PortalTypeOK
<1>2. Assigned \subseteq Contractor
  BY <1>1 DEF Assigned
<1>3. \A p : Authors(p) \subseteq Assigned \cup {Office}
  BY DEF Authors, ActsAs
<1> QED
  BY <1>1, <1>2, <1>3

LEMMA RequestFacts ==
  ASSUME IInv, request # None
  PROVE  request \in Request
BY DEF IInv, TypeOK, PortalTypeOK

LEMMA PortalBeginsKeeps ==
  ASSUME IInv, NEW s \in Session, PortalBegins(s)
  PROVE  IInv'
<1> DEFINE Fits(c) == c \in Called /\ Firm(c) /\ Current(c)
           Begun(c) == Starts(s, c) /\ Seeds /\ UNCHANGED <<rows, portalVars>>
<1>1. ASSUME NEW c, Fits(c), Begun(c), c.op # "upload" PROVE IInv'
  BY <1>1, BeginKeeps DEF Seeds
<1>2. ASSUME NEW c, Fits(c), Begun(c), \A t \in Session : session[t].op = "upload" => session[t].item # c.item
      PROVE  IInv'
  BY <1>2, BeginKeeps DEF Seeds
<1> HIDE DEF Fits, Begun
<1>3. CASE BeginDraft(s)
  <2>1. PICK new \in Request : Begun([op |-> "draft", new |-> new, overtaken |-> FALSE])
    BY <1>3 DEF BeginDraft, Request, Begun
  <2> DEFINE c == [op |-> "draft", new |-> new, overtaken |-> FALSE]
  <2>2. c \in DraftCall /\ c.op = "draft" /\ Begun(c)
    BY <2>1 DEF DraftCall
  <2> HIDE DEF c
  <2>3. Fits(c)
    BY <2>2 DEF Fits, Called, PortalCall, Firm, Current
  <2> QED
    BY <1>1, <2>2, <2>3
<1>4. CASE BeginPublish(s)
  <2>1. request # None /\ request \in Request
    BY <1>4, RequestFacts DEF BeginPublish, Publishable
  <2>2. PICK picks \in UNION {[W -> Contractor] : W \in SUBSET WorkType} :
          Begun([op |-> "publish", picks |-> picks, overtaken |-> FALSE])
    <3> DEFINE Missing == {w \in request.works :
                             assignments[w] = None /\ Responsible(request.city, request.facility, w) # {}}
    <3>1. Missing \in SUBSET WorkType
      BY <2>1 DEF Request
    <3>2. PICK picks \in [Missing -> Contractor] :
            Begun([op |-> "publish", picks |-> picks, overtaken |-> FALSE])
      BY <1>4 DEF BeginPublish, Begun
    <3> HIDE DEF Missing
    <3>3. picks \in UNION {[W -> Contractor] : W \in SUBSET WorkType}
      BY <3>1, <3>2
    <3> QED
      BY <3>2, <3>3
  <2> DEFINE c == [op |-> "publish", picks |-> picks, overtaken |-> FALSE]
  <2>3. c \in PublishCall /\ c.op = "publish"
    BY DEF PublishCall
  <2>4. Begun(c)
    BY <2>2
  <2> HIDE DEF c
  <2>5. Fits(c)
    BY <2>1, <2>3 DEF Fits, Called, PortalCall, Firm, Current
  <2> QED
    BY <1>1, <2>3, <2>4, <2>5
<1>5. CASE BeginComment(s)
  <2>1. PICK author \in Authors("portal"), visibility \in Visibility :
          Begun([op |-> "comment", overtaken |-> FALSE,
                 new |-> [author |-> author, visibility |-> visibility, is_deleted |-> FALSE]])
    BY <1>5 DEF BeginComment, Call, Begun
  <2> DEFINE new == [author |-> author, visibility |-> visibility, is_deleted |-> FALSE]
             c == [op |-> "comment", overtaken |-> FALSE, new |-> new]
  <2>2. author \in Assigned \cup {Office} /\ author \in Contractor \cup {Office}
    BY AssignedFacts
  <2>3. new \in CommentRow /\ new.author = author
    BY <2>2 DEF CommentRow
  <2>4. Begun(c)
    BY <2>1
  <2> HIDE DEF new
  <2>5. c \in CommentCall /\ c.op = "comment" /\ c.new = new
    BY <2>3 DEF CommentCall
  <2> HIDE DEF c
  <2>6. Fits(c)
    BY <2>2, <2>3, <2>5 DEF Fits, Called, PortalCall, Firm, Current
  <2> QED
    BY <1>1, <2>4, <2>5, <2>6
<1>6. ASSUME NEW m \in Comment, BeginEditComment(s, m) \/ BeginDeleteComment(s, m) PROVE IInv'
  <2>1. PICK b \in BOOLEAN :
          Begun([op |-> "editComment", item |-> m, deletes |-> b, overtaken |-> FALSE])
    BY <1>6 DEF BeginEditComment, BeginDeleteComment, Call, Begun
  <2>2. comments[m] # None
    BY <1>6 DEF BeginEditComment, BeginDeleteComment
  <2> DEFINE c == [op |-> "editComment", item |-> m, deletes |-> b, overtaken |-> FALSE]
  <2>3. c \in EditCall /\ c.op = "editComment" /\ c.item = m
    BY DEF EditCall
  <2>4. Begun(c)
    BY <2>1
  <2> HIDE DEF c
  <2>5. Fits(c)
    BY <2>2, <2>3 DEF Fits, Called, PortalCall, Firm, Current
  <2> QED
    BY <1>1, <2>3, <2>4, <2>5
<1>7. CASE BeginUpload(s)
  <2>1. PICK author \in Authors("portal"), visibility \in Visibility,
             w \in WorkType \cup {None}, m \in Comment \cup {None}, a \in Attachment \ files :
          /\ InScope(author, w) /\ attachments[a] = None
          /\ \A t \in Session : session[t] # Idle /\ session[t].op = "upload" => session[t].item # a
          /\ Begun([op |-> "upload", item |-> a, overtaken |-> FALSE, stored |-> FALSE,
                    new |-> [author |-> author, visibility |-> visibility, assignment |-> w,
                             comment |-> m, is_deleted |-> FALSE]])
    BY <1>7 DEF BeginUpload, Call, Begun
  <2> DEFINE new == [author |-> author, visibility |-> visibility, assignment |-> w,
                     comment |-> m, is_deleted |-> FALSE]
             c == [op |-> "upload", item |-> a, overtaken |-> FALSE, stored |-> FALSE, new |-> new]
  <2>2. author \in Assigned \cup {Office} /\ author \in Contractor \cup {Office}
    BY AssignedFacts
  <2>3. new \in AttachmentRow /\ new.author = author /\ new.assignment = w
    BY <2>2 DEF AttachmentRow
  <2>4. Begun(c)
    BY <2>1
  <2> HIDE DEF new
  <2>5. c \in UploadCall /\ c.op = "upload" /\ c.new = new /\ c.item = a /\ c.stored = FALSE
    BY <2>3 DEF UploadCall
  <2> HIDE DEF c
  <2>6. Firm(c)
    BY <2>1, <2>2, <2>3, <2>5 DEF Firm, InScope
  <2>7. Fits(c)
    BY <2>5, <2>6 DEF Fits, Called, PortalCall, Current
  <2>8. \A t \in Session : session[t].op = "upload" => session[t].item # c.item
    BY <2>1, <2>5 DEF Idle
  <2> QED
    BY <1>2, <2>4, <2>7, <2>8
<1>8. ASSUME NEW a \in Attachment, BeginDeleteAttachment(s, a) PROVE IInv'
  <2> DEFINE c == [op |-> "deleteAttachment", item |-> a, overtaken |-> FALSE]
  <2>1. c \in RemovalCall /\ c.op = "deleteAttachment" /\ c.item = a
    BY DEF RemovalCall
  <2>2. Begun(c) /\ attachments[a] # None
    BY <1>8 DEF BeginDeleteAttachment, Call, Begun
  <2> HIDE DEF c
  <2>3. Fits(c)
    BY <2>1, <2>2 DEF Fits, Called, PortalCall, Firm, Current
  <2> QED
    BY <1>1, <2>1, <2>2, <2>3
<1> QED
  BY <1>3, <1>4, <1>5, <1>6, <1>7, <1>8 DEF PortalBegins

-----------------------------------------------------------------------------
(* The directory *)

Records == [is_active : BOOLEAN, priority : Priority \cup {0}, city : City \cup {None},
            facility : Facility \cup {None}, contractor : Contractor \cup {None},
            work_type : WorkType \cup {None}]

LEMMA SameFields ==
  ASSUME NEW u \in Records, NEW v \in Records, u.is_active = v.is_active, u.priority = v.priority,
         u.city = v.city, u.facility = v.facility, u.contractor = v.contractor, u.work_type = v.work_type
  PROVE  u = v
BY DEF Records

LEMMA BlankIsRecord ==
  ASSUME NEW b \in BOOLEAN
  PROVE  /\ Blank(b) \in Records /\ Blank(b).is_active = b /\ Blank(b).priority = 0
         /\ Blank(b).city = None /\ Blank(b).facility = None
         /\ Blank(b).contractor = None /\ Blank(b).work_type = None
BY DEF Records, Blank

\* A row of the tables that only refer to one: whether it is active, and the one.
Plain(v) == v \in Records /\ v.priority = 0 /\ v.contractor = None /\ v.work_type = None

\* What the tables hold, field by field.
LEMMA ValuesFacts ==
  ASSUME NEW r \in Row, NEW v
  PROVE  /\ r \in City => (v \in Values(r) <=>
              Plain(v) /\ v.is_active = TRUE /\ v.city = None /\ v.facility = None)
         /\ r \in Facility => (v \in Values(r) <=>
              Plain(v) /\ v.is_active = TRUE /\ v.city \in City /\ v.facility = None)
         /\ r \in Premise => (v \in Values(r) <=>
              Plain(v) /\ v.is_active = TRUE /\ v.city = None /\ v.facility \in Facility)
         /\ r \in Contractor \cup WorkType => (v \in Values(r) <=>
              Plain(v) /\ v.city = None /\ v.facility = None)
         /\ r \in Responsibility => (v \in Values(r) <=>
              /\ v \in Records /\ v.priority \in Priority
              /\ v.contractor \in Contractor /\ v.work_type \in WorkType)
<1>0. None \notin Contractor \cup WorkType \cup City \cup Facility
  BY TablesAssumption DEF Row
<1>1. ASSUME r \in Responsibility
      PROVE  v \in Values(r) <=> /\ v \in Records /\ v.priority \in Priority
                                 /\ v.contractor \in Contractor /\ v.work_type \in WorkType
  <2>1. Values(r) = [is_active : BOOLEAN, priority : Priority,
                     city : City \cup {None}, facility : Facility \cup {None},
                     contractor : Contractor, work_type : WorkType]
    BY <1>1, TablesAssumption DEF Values
  <2> QED
    BY <2>1 DEF Records
<1>2. ASSUME r \in City
      PROVE  v \in Values(r) <=> Plain(v) /\ v.is_active = TRUE /\ v.city = None /\ v.facility = None
  <2>1. Values(r) = {Blank(TRUE)}
    BY <1>2, TablesAssumption DEF Values
  <2> QED
    BY <2>1, BlankIsRecord, SameFields DEF Plain
<1>3. ASSUME r \in Facility
      PROVE  v \in Values(r) <=> Plain(v) /\ v.is_active = TRUE /\ v.city \in City /\ v.facility = None
  <2> DEFINE In(c) == [Blank(TRUE) EXCEPT !.city = c]
  <2>1. Values(r) = {In(c) : c \in City}
    BY <1>3, TablesAssumption DEF Values
  <2>2. \A c \in City : /\ Plain(In(c)) /\ In(c).is_active = TRUE
                        /\ In(c).city = c /\ In(c).facility = None
    BY DEF Plain, Records, Blank
  <2> HIDE DEF In
  <2>3. ASSUME Plain(v), v.is_active = TRUE, v.city \in City, v.facility = None
        PROVE  v = In(v.city)
    <3>1. PICK c \in City : c = v.city
      BY <2>3
    <3>2. /\ In(c) \in Records /\ In(c).is_active = TRUE /\ In(c).priority = 0
          /\ In(c).city = c /\ In(c).facility = None /\ In(c).contractor = None /\ In(c).work_type = None
      BY <2>2 DEF Plain
    <3>3. /\ v \in Records /\ v.is_active = TRUE /\ v.priority = 0
          /\ v.city = c /\ v.facility = None /\ v.contractor = None /\ v.work_type = None
      BY <2>3, <3>1 DEF Plain
    <3>4. v = In(c)
      BY <3>2, <3>3, SameFields
    <3> QED
      BY <3>1, <3>4
  <2> QED
    BY <2>1, <2>2, <2>3
<1>4. ASSUME r \in Premise
      PROVE  v \in Values(r) <=> Plain(v) /\ v.is_active = TRUE /\ v.city = None /\ v.facility \in Facility
  <2> DEFINE In(f) == [Blank(TRUE) EXCEPT !.facility = f]
  <2>1. Values(r) = {In(f) : f \in Facility}
    BY <1>4, TablesAssumption DEF Values
  <2>2. \A f \in Facility : /\ Plain(In(f)) /\ In(f).is_active = TRUE
                            /\ In(f).facility = f /\ In(f).city = None
    BY DEF Plain, Records, Blank
  <2> HIDE DEF In
  <2>3. ASSUME Plain(v), v.is_active = TRUE, v.facility \in Facility, v.city = None
        PROVE  v = In(v.facility)
    <3>1. PICK f \in Facility : f = v.facility
      BY <2>3
    <3>2. /\ In(f) \in Records /\ In(f).is_active = TRUE /\ In(f).priority = 0
          /\ In(f).facility = f /\ In(f).city = None /\ In(f).contractor = None /\ In(f).work_type = None
      BY <2>2 DEF Plain
    <3>3. /\ v \in Records /\ v.is_active = TRUE /\ v.priority = 0
          /\ v.facility = f /\ v.city = None /\ v.contractor = None /\ v.work_type = None
      BY <2>3, <3>1 DEF Plain
    <3>4. v = In(f)
      BY <3>2, <3>3, SameFields
    <3> QED
      BY <3>1, <3>4
  <2> QED
    BY <2>1, <2>2, <2>3
<1>5. ASSUME r \in Contractor \cup WorkType
      PROVE  v \in Values(r) <=> Plain(v) /\ v.city = None /\ v.facility = None
  <2>1. Values(r) = {Blank(b) : b \in BOOLEAN}
    BY <1>5, TablesAssumption DEF Values
  <2>2. ASSUME Plain(v), v.city = None, v.facility = None PROVE v.is_active \in BOOLEAN /\ v = Blank(v.is_active)
    <3>1. v.is_active \in BOOLEAN
      BY <2>2 DEF Plain, Records
    <3> QED
      BY <2>2, <3>1, BlankIsRecord, SameFields DEF Plain
  <2> QED
    BY <2>1, <2>2, BlankIsRecord DEF Plain
<1> QED
  BY <1>1, <1>2, <1>3, <1>4, <1>5

LEMMA MergedFields ==
  ASSUME NEW old \in Records, NEW new \in Records, NEW row \in Records
  PROVE  LET m == Merged(old, new, row) IN
         /\ m \in Records
         /\ m.is_active \in {new.is_active, row.is_active} /\ m.priority \in {new.priority, row.priority}
         /\ m.city \in {new.city, row.city} /\ m.facility \in {new.facility, row.facility}
         /\ m.contractor \in {new.contractor, row.contractor} /\ m.work_type \in {new.work_type, row.work_type}
<1> DEFINE m == Merged(old, new, row)
           Fields == {"is_active", "priority", "city", "facility", "contractor", "work_type"}
<1>1. DOMAIN row = Fields
  BY DEF Records
<1>2. m = [f \in Fields |-> IF new[f] # old[f] THEN new[f] ELSE row[f]]
  BY <1>1 DEF Merged
<1>3. m = [is_active |-> m["is_active"], priority |-> m["priority"], city |-> m["city"],
           facility |-> m["facility"], contractor |-> m["contractor"], work_type |-> m["work_type"]]
  BY <1>2
<1>4. \A f \in Fields : m[f] \in {new[f], row[f]}
  BY <1>2
<1> HIDE DEF m
<1>5. /\ m.is_active \in {new.is_active, row.is_active} /\ m.priority \in {new.priority, row.priority}
      /\ m.city \in {new.city, row.city} /\ m.facility \in {new.facility, row.facility}
      /\ m.contractor \in {new.contractor, row.contractor} /\ m.work_type \in {new.work_type, row.work_type}
  BY <1>4
<1>6. m \in Records
  BY <1>3, <1>5 DEF Records
<1> QED
  BY <1>5, <1>6 DEF m

\* An update that merges rows of a table gives a row of the table.
LEMMA MergedFacts ==
  ASSUME NEW r \in Row, NEW old \in Values(r), NEW new \in Values(r), NEW row \in Values(r)
  PROVE  Merged(old, new, row) \in Values(r)
<1>1. old \in Records /\ new \in Records /\ row \in Records
  BY ValuesFacts DEF Row, Plain
<1>2. PICK m : m = Merged(old, new, row)
  OBVIOUS
<1>3. /\ m \in Records
      /\ m.is_active \in {new.is_active, row.is_active} /\ m.priority \in {new.priority, row.priority}
      /\ m.city \in {new.city, row.city} /\ m.facility \in {new.facility, row.facility}
      /\ m.contractor \in {new.contractor, row.contractor} /\ m.work_type \in {new.work_type, row.work_type}
  BY <1>1, <1>2, MergedFields
<1>4. CASE r \in City
  <2> DEFINE Shape(v) == Plain(v) /\ v.is_active = TRUE /\ v.city = None /\ v.facility = None
  <2>1. Shape(new) /\ Shape(row)
    BY <1>4, ValuesFacts
  <2>2. Shape(m)
    BY <1>3, <2>1 DEF Plain
  <2> QED
    BY <1>2, <1>4, <2>2, ValuesFacts
<1>5. CASE r \in Facility
  <2> DEFINE Shape(v) == Plain(v) /\ v.is_active = TRUE /\ v.city \in City /\ v.facility = None
  <2>1. Shape(new) /\ Shape(row)
    BY <1>5, ValuesFacts
  <2>2. Shape(m)
    BY <1>3, <2>1 DEF Plain
  <2> QED
    BY <1>2, <1>5, <2>2, ValuesFacts
<1>6. CASE r \in Premise
  <2> DEFINE Shape(v) == Plain(v) /\ v.is_active = TRUE /\ v.city = None /\ v.facility \in Facility
  <2>1. Shape(new) /\ Shape(row)
    BY <1>6, ValuesFacts
  <2>2. Shape(m)
    BY <1>3, <2>1 DEF Plain
  <2> QED
    BY <1>2, <1>6, <2>2, ValuesFacts
<1>7. CASE r \in Contractor \cup WorkType
  <2> DEFINE Shape(v) == Plain(v) /\ v.city = None /\ v.facility = None
  <2>1. Shape(new) /\ Shape(row)
    BY <1>7, ValuesFacts
  <2>2. Shape(m)
    BY <1>3, <2>1 DEF Plain
  <2> QED
    BY <1>2, <1>7, <2>2, ValuesFacts
<1>8. CASE r \in Responsibility
  BY <1>2, <1>3, <1>8, ValuesFacts
<1> QED
  BY <1>4, <1>5, <1>6, <1>7, <1>8 DEF Row

(* What DeletionsLeaveTheRest says of a step. *)
OthersAreLeft ==
  \A s \in Session :
    session[s].op = "delete" /\ ~session[s].overtaken /\ session'[s] = Idle =>
      \A q \in Row \ {session[s].row} : rows'[q] = rows[q]

LEMMA NoRowNoHarm ==
  ASSUME UNCHANGED rows
  PROVE  OthersAreLeft
BY DEF OthersAreLeft

\* Commits that write nothing but rows of the directory.
LEMMA RowsOnly ==
  ASSUME IInv, NEW s \in Session, session[s] # Idle, Ends(s), UNCHANGED <<accessVars, portalVars>>,
         DirectoryTypeOK', DirectoryIsWhole', Held \cap Present \subseteq Present'
  PROVE  IInv'
<1>1. UNCHANGED <<users, roles, overlapped, request, assignments, comments, attachments, files, events, shown>>
  BY DEF accessVars, portalVars, requestVars, postVars
<1>2. Leaves(s)
  BY <1>1 DEF Leaves
<1>3. Sessions'
  BY <1>1, <1>2, CommitKeepsSessions
<1>4. TypeOK'
  <2>1. AccessTypeOK' /\ PortalTypeOK'
    BY <1>1 DEF IInv, TypeOK, AccessTypeOK, PortalTypeOK, Existing
  <2> QED
    BY <2>1 DEF TypeOK
<1>5. ReferencesHold'
  <2>1. MembershipsAreWhole'
    <3> SUFFICES ASSUME NEW u \in User, users[u] # None, NEW c \in Companies(users[u].memberships)
                 PROVE  c \in Present'
      BY <1>1 DEF MembershipsAreWhole
    <3>1. c \in Present
      BY DEF IInv, ReferencesHold, MembershipsAreWhole
    <3>2. c \in Held
      BY DEF Held, HeldByUsers
    <3> QED
      BY <3>1, <3>2
  <2>2. Assigned \subseteq Present /\ Assigned \subseteq Held
    BY DEF IInv, ReferencesHold, Held
  <2>3. HeldByPosts \subseteq Present \cup {Office} /\ HeldByPosts \subseteq Held
    BY DEF IInv, ReferencesHold, Held
  <2>4. request # None => RequestRefs(request) \subseteq Present /\ RequestRefs(request) \subseteq Held
    BY DEF IInv, ReferencesHold, Held
  <2>5. /\ Assigned \subseteq Present' /\ HeldByPosts \subseteq Present' \cup {Office}
        /\ request # None => RequestRefs(request) \subseteq Present'
    BY <2>2, <2>3, <2>4
  <2>6. Assigned' = Assigned /\ HeldByPosts' = HeldByPosts
    BY <1>1 DEF Assigned, HeldByPosts
  <2> QED
    BY <1>1, <2>1, <2>5, <2>6 DEF ReferencesHold
<1>6. NobodyIsShutOut' /\ Posts'
  BY <1>1 DEF IInv, NobodyIsShutOut, Posts, EventsTell, HiddenStaysHidden, AttachmentsHaveFiles,
              ContractorsSpeakForThemselves, Assigned
<1> QED
  BY <1>3, <1>4, <1>5, <1>6 DEF IInv

LEMMA CommitSaveKeeps ==
  ASSUME IInv, NEW s \in Session, CommitSave(s), UNCHANGED <<accessVars, portalVars>>
  PROVE  IInv' /\ OthersAreLeft
<1>1. PICK c \in Called : c = session[s]
  BY DEF IInv, Sessions
<1>2. c \in WriteCall /\ c.op \in {"create", "update"} /\ Firm(c) /\ Ends(s) /\ c # Idle
  BY <1>1, CallFacts DEF CommitSave, IInv, Sessions, Idle
<1>3. PICK v \in Values(c.row) : Refs(v) \subseteq Present /\ rows' = [rows EXCEPT ![c.row] = v]
  <2>1. CASE c.op = "create"
    BY <1>1, <1>2, <2>1 DEF CommitSave, Accepted, Firm
  <2>2. CASE c.op = "update"
    <3>1. c.row \in Present /\ Accepted(c.row, Merged(c.old, c.new, rows[c.row]))
          /\ rows' = [rows EXCEPT ![c.row] = Merged(c.old, c.new, rows[c.row])]
      BY <1>1, <2>2 DEF CommitSave
    <3>2. Merged(c.old, c.new, rows[c.row]) \in Values(c.row)
      BY <1>2, <2>2, <3>1, RowFacts, MergedFacts DEF Firm
    <3> QED
      BY <3>1, <3>2 DEF Accepted
  <2> QED
    BY <1>2, <2>1, <2>2
<1>4. c.row \in Row /\ rows \in [Row -> (UNION {Values(r) : r \in Row}) \cup {None}]
  BY <1>2 DEF WriteCall, IInv, TypeOK, DirectoryTypeOK
<1>5. /\ rows' \in [Row -> (UNION {Values(r) : r \in Row}) \cup {None}]
      /\ \A r \in Row : rows'[r] = IF r = c.row THEN v ELSE rows[r]
  BY <1>3, <1>4
<1>6. Present' = Present \cup {c.row}
  BY <1>3, <1>4, <1>5, NoValueAssumption DEF Present
<1>7. DirectoryTypeOK'
  BY <1>2, <1>3, <1>5, <1>6, RowFacts DEF Ends, IInv, TypeOK, DirectoryTypeOK
<1>8. DirectoryIsWhole'
  <2> SUFFICES ASSUME NEW r \in Present' PROVE Refs(rows'[r]) \subseteq Present'
    BY DEF DirectoryIsWhole, Refs
  <2>1. CASE r = c.row
    BY <1>3, <1>4, <1>5, <1>6, <2>1
  <2>2. CASE r # c.row
    BY <1>4, <1>5, <1>6, <2>2 DEF IInv, ReferencesHold, DirectoryIsWhole, Present
  <2> QED
    BY <2>1, <2>2
<1>9. IInv'
  BY <1>1, <1>2, <1>6, <1>7, <1>8, RowsOnly
<1>10. OthersAreLeft
  <2>1. ASSUME NEW t \in Session, session'[t] = Idle PROVE session[t].op # "delete"
    <3>1. CASE t = s
      BY <1>1, <1>2, <3>1
    <3>2. CASE session[t] = Idle
      BY <3>2 DEF Idle
    <3>3. Leaves(s)
      BY DEF Leaves, accessVars, portalVars, requestVars, postVars
    <3>4. \A u \in User : users[u] # None => users'[u].memberships = users[u].memberships
      BY DEF accessVars
    <3>5. t = s \/ session[t] = Idle
      BY <1>1, <1>2, <2>1, <3>3, <3>4, CommitKeepsSessions
    <3> QED
      BY <3>1, <3>2, <3>5
  <2> QED
    BY <2>1 DEF OthersAreLeft
<1> QED
  BY <1>9, <1>10

\* A row whose references to r are set to NULL.
LEMMA ClearedFacts ==
  ASSUME NEW q \in Responsibility, NEW v \in Values(q), NEW r \in Row
  PROVE  LET w == [v EXCEPT !.city = IF @ = r THEN None ELSE @,
                            !.facility = IF @ = r THEN None ELSE @] IN
         /\ w \in Values(q)
         /\ Refs(w) \subseteq Refs(v)
         /\ r \notin {v.contractor, v.work_type} => r \notin Refs(w)
         /\ r \notin Refs(v) => w = v
<1> DEFINE w == [v EXCEPT !.city = IF @ = r THEN None ELSE @,
                          !.facility = IF @ = r THEN None ELSE @]
<1>1. v \in Records /\ v.priority \in Priority /\ v.contractor \in Contractor /\ v.work_type \in WorkType
      /\ q \in Row /\ None # r
  BY ValuesFacts, TablesAssumption DEF Row
<1>2. /\ w \in Records /\ w.priority = v.priority /\ w.contractor = v.contractor /\ w.work_type = v.work_type
      /\ w.city = (IF v.city = r THEN None ELSE v.city) /\ w.is_active = v.is_active
      /\ w.facility = (IF v.facility = r THEN None ELSE v.facility)
  BY <1>1 DEF Records
<1> HIDE DEF w
<1>3. w \in Values(q)
  BY <1>1, <1>2, ValuesFacts
<1>4. Refs(w) \subseteq Refs(v) /\ (r \notin {v.contractor, v.work_type} => r \notin Refs(w))
  BY <1>1, <1>2 DEF Refs
<1>5. ASSUME r \notin Refs(v) PROVE w = v
  <2>1. v.city # r /\ v.facility # r
    BY <1>1, <1>5 DEF Refs
  <2> QED
    BY <1>1, <1>2, <2>1, SameFields
<1> QED
  BY <1>3, <1>4, <1>5 DEF w

LEMMA CommitDeleteKeeps ==
  ASSUME IInv, NEW s \in Session, CommitDelete(s, Held), UNCHANGED <<accessVars, portalVars>>
  PROVE  IInv' /\ OthersAreLeft
<1>1. PICK c \in Called : c = session[s]
  BY DEF IInv, Sessions
<1> DEFINE r == c.row
<1>2. c \in WriteCall /\ c.op = "delete" /\ Current(c) /\ Ends(s) /\ c # Idle /\ r \in Row
  BY <1>1, CallFacts DEF CommitDelete, IInv, Sessions, Idle, WriteCall
<1>3. /\ r \notin Held /\ rows' = Cleared(r)
      /\ \A q \in Referrers(r) : q \in Responsibility /\ r \notin {rows[q].contractor, rows[q].work_type}
  BY <1>1 DEF CommitDelete
<1> HIDE DEF r
<1>4. ASSUME NEW q \in Row, q # r
      PROVE  /\ rows'[q] = None <=> rows[q] = None
             /\ rows[q] # None => /\ rows'[q] \in Values(q)
                                  /\ Refs(rows'[q]) \subseteq Refs(rows[q]) \ {r}
                                  /\ r \notin Refs(rows[q]) => rows'[q] = rows[q]
  <2>1. CASE q \in Responsibility /\ q \in Present
    <3>1. rows[q] \in Values(q) /\ rows[q] # None
      BY <2>1, RowFacts
    <3>2. rows'[q] = [rows[q] EXCEPT !.city = IF @ = r THEN None ELSE @,
                                     !.facility = IF @ = r THEN None ELSE @]
      BY <1>3, <1>4, <2>1 DEF Cleared
    <3>3. r \in Refs(rows[q]) => r \notin {rows[q].contractor, rows[q].work_type}
      BY <1>3, <2>1 DEF Referrers
    <3>4. r \in {rows[q].contractor, rows[q].work_type} => r \in Refs(rows[q])
      BY <1>2, TablesAssumption DEF Refs
    <3>5. PICK v \in Values(q) : v = rows[q]
      BY <3>1
    <3>6. PICK w : w = [v EXCEPT !.city = IF @ = r THEN None ELSE @,
                                 !.facility = IF @ = r THEN None ELSE @]
      OBVIOUS
    <3>7. /\ w \in Values(q) /\ Refs(w) \subseteq Refs(v)
          /\ r \notin {v.contractor, v.work_type} => r \notin Refs(w)
          /\ r \notin Refs(v) => w = v
      BY <1>2, <2>1, <3>6, ClearedFacts
    <3>8. rows'[q] = w /\ r \notin {v.contractor, v.work_type}
      BY <3>2, <3>3, <3>4, <3>5, <3>6
    <3> QED
      BY <3>1, <3>5, <3>7, <3>8, NoValueAssumption
  <2>2. CASE ~(q \in Responsibility /\ q \in Present)
    <3>1. rows'[q] = rows[q]
      BY <1>3, <1>4, <2>2 DEF Cleared
    <3>2. rows[q] # None => q \in Present /\ rows[q] \in Values(q) /\ r \notin Refs(rows[q])
      BY <1>3, <2>2, RowFacts DEF Present, Referrers
    <3> QED
      BY <3>1, <3>2
  <2> QED
    BY <2>1, <2>2
<1>5. rows' = [q \in Row |-> rows'[q]] /\ rows'[r] = None
  BY <1>2, <1>3 DEF Cleared
<1>6. Present' = Present \ {r}
  BY <1>4, <1>5 DEF Present
<1>7. DirectoryTypeOK'
  <2>1. \A q \in Present' : rows'[q] \in Values(q)
    BY <1>4, <1>6, RowFacts
  <2>2. rows' \in [Row -> (UNION {Values(q) : q \in Row}) \cup {None}]
    BY <1>5, <2>1 DEF Present
  <2>3. calls' \in 0..MaxCalls
    BY <1>2 DEF Ends, IInv, TypeOK, DirectoryTypeOK
  <2> QED
    BY <2>1, <2>2, <2>3 DEF DirectoryTypeOK
<1>8. DirectoryIsWhole'
  <2> SUFFICES ASSUME NEW q \in Present' PROVE Refs(rows'[q]) \subseteq Present'
    BY DEF DirectoryIsWhole, Refs
  <2>1. Refs(rows'[q]) \subseteq Refs(rows[q]) \ {r} /\ q \in Present
    BY <1>4, <1>6 DEF Present
  <2>2. Refs(rows[q]) \subseteq Present
    BY <2>1 DEF IInv, ReferencesHold, DirectoryIsWhole
  <2> QED
    BY <1>6, <2>1, <2>2
<1>9. IInv'
  BY <1>1, <1>2, <1>3, <1>6, <1>7, <1>8, RowsOnly
<1>10. OthersAreLeft
  <2> SUFFICES ASSUME NEW t \in Session, session[t].op = "delete", ~session[t].overtaken, session'[t] = Idle,
                      NEW q \in Row \ {session[t].row}
               PROVE  rows'[q] = rows[q]
    BY DEF OthersAreLeft
  <2>1. t = s
    <3>1. Leaves(s)
      BY DEF Leaves, accessVars, portalVars, requestVars, postVars
    <3>2. \A u \in User : users[u] # None => users'[u].memberships = users[u].memberships
      BY DEF accessVars
    <3>3. t = s \/ session[t] = Idle
      BY <1>1, <1>2, <3>1, <3>2, CommitKeepsSessions
    <3> QED
      BY <3>3 DEF Idle
  <2>2. q # r /\ Referrers(r) = {}
    BY <1>1, <1>2, <2>1 DEF Current, r
  <2>3. rows[q] # None => r \notin Refs(rows[q])
    BY <2>2 DEF Referrers, Present
  <2> QED
    BY <1>4, <2>2, <2>3
<1> QED
  BY <1>9, <1>10

-----------------------------------------------------------------------------
(* Users and roles *)

\* Commits that write nothing but users and roles.
LEMMA AccessOnly ==
  ASSUME IInv, NEW s \in Session, session[s] # Idle, UNCHANGED <<rows, portalVars>>,
         \A u \in User : users[u] # None => users'[u] # None,
         \A r \in Role : roles[r] # None => roles'[r] # None,
         \/ Ends(s) /\ \A u \in User : users[u] # None => users'[u].memberships = users[u].memberships
         \/ /\ EndsReplacing(s)
            /\ session[s].op \in {"setRoles", "setMemberships", "setPermissions"}
            /\ \A u \in User : users[u] # None =>
                 users'[u].memberships =
                   IF session[s].op = "setMemberships" /\ u = session[s].user
                   THEN session[s].spared \cup session[s].wanted ELSE users[u].memberships,
         AccessTypeOK', MembershipsAreWhole', NobodyIsShutOut'
  PROVE  IInv' /\ OthersAreLeft
<1>1. UNCHANGED <<rows, request, assignments, comments, attachments, files, events, shown>>
  BY DEF portalVars, requestVars, postVars
<1>2. Leaves(s)
  BY <1>1 DEF Leaves
<1>3. Sessions' /\ UNCHANGED calls
  BY <1>2, CommitKeepsSessions
<1>4. TypeOK'
  BY <1>1, <1>3 DEF IInv, TypeOK, DirectoryTypeOK, PortalTypeOK, Present
<1>5. ReferencesHold'
  BY <1>1 DEF IInv, ReferencesHold, DirectoryIsWhole, Present, Assigned, HeldByPosts
<1>6. Posts'
  BY <1>1 DEF IInv, Posts, EventsTell, HiddenStaysHidden, AttachmentsHaveFiles,
              ContractorsSpeakForThemselves, Assigned
<1> QED
  BY <1>1, <1>3, <1>4, <1>5, <1>6, NoRowNoHarm DEF IInv

LEMMA CommitCreateUserKeeps ==
  ASSUME IInv, NEW s \in Session, CommitCreateUser(s), UNCHANGED <<rows, portalVars>>
  PROVE  IInv' /\ OthersAreLeft
<1>1. PICK c \in Called : c = session[s]
  BY DEF IInv, Sessions
<1>2. c.op = "createUser" /\ c \in UserCall /\ Firm(c) /\ Ends(s) /\ c # Idle /\ UNCHANGED roles
  BY <1>1, CallFacts DEF CommitCreateUser, IInv, Sessions, Idle
<1>3. c.user \in User /\ c.new \in Account /\ c.new # None
  BY <1>2, NoUserAssumption DEF UserCall
<1>4. /\ users[c.user] = None /\ users' = [users EXCEPT ![c.user] = c.new]
      /\ Companies(c.new.memberships) \subseteq Present /\ overlapped' = (overlapped \/ c.overtaken)
  BY <1>1 DEF CommitCreateUser, Notice
<1>5. users \in [User -> Account \cup {None}] /\ overlapped \in BOOLEAN /\ c.overtaken \in BOOLEAN
  BY <1>2 DEF IInv, TypeOK, AccessTypeOK, UserCall
<1>6. /\ users' \in [User -> Account \cup {None}] /\ overlapped' \in BOOLEAN
      /\ \A u \in User : users'[u] = IF u = c.user THEN c.new ELSE users[u]
  BY <1>3, <1>4, <1>5
<1>7. AccessTypeOK'
  BY <1>2, <1>6 DEF IInv, TypeOK, AccessTypeOK, Existing
<1>8. MembershipsAreWhole'
  BY <1>4, <1>6 DEF IInv, ReferencesHold, MembershipsAreWhole, Present
<1>9. NobodyIsShutOut'
  BY <1>2, <1>4, <1>6 DEF Firm, IInv, NobodyIsShutOut
<1> QED
  BY <1>1, <1>2, <1>4, <1>6, <1>7, <1>8, <1>9, <1>3, AccessOnly

LEMMA CommitSetUserKeeps ==
  ASSUME IInv, NEW s \in Session, CommitSetUser(s), UNCHANGED <<rows, portalVars>>
  PROVE  IInv' /\ OthersAreLeft
<1>1. PICK c \in Called : c = session[s]
  BY DEF IInv, Sessions
<1>2. /\ c.op \in {"setType", "setActive"} /\ Firm(c) /\ Current(c) /\ Ends(s) /\ c # Idle /\ UNCHANGED roles
      /\ overlapped' = (overlapped \/ c.overtaken)
  BY <1>1 DEF CommitSetUser, Notice, IInv, Sessions, Idle
<1>3. c.user \in User /\ users[c.user] # None /\ c.overtaken \in BOOLEAN /\ users[c.user] \in Account
  BY <1>2, CallFacts, UserFacts DEF Firm, TypeCall, ActiveCall
<1>4. users \in [User -> Account \cup {None}] /\ overlapped \in BOOLEAN
  BY DEF IInv, TypeOK, AccessTypeOK
<1>5. \E a \in Account :
        /\ users' = [users EXCEPT ![c.user] = a] /\ a.memberships = users[c.user].memberships
        /\ a.user_type = "CONTRACTOR" => users[c.user].user_type = "CONTRACTOR" \/ c.overtaken \/ a.memberships # {}
  <2>1. CASE c.op = "setType"
    <3>1. c.type \in {"INTERNAL", "CONTRACTOR"}
      BY <2>1, CallFacts DEF TypeCall
    <3> DEFINE a == [users[c.user] EXCEPT !.user_type = c.type]
    <3>2. a \in Account /\ a.memberships = users[c.user].memberships /\ a.user_type = c.type
      BY <1>3, <3>1 DEF Account
    <3>3. users' = [users EXCEPT ![c.user] = a]
      BY <1>1, <2>1 DEF CommitSetUser
    <3> HIDE DEF a
    <3> QED
      BY <1>2, <2>1, <3>2, <3>3 DEF Current
  <2>2. CASE c.op = "setActive"
    <3>1. c.active \in BOOLEAN
      BY <2>2, CallFacts DEF ActiveCall
    <3> DEFINE a == [users[c.user] EXCEPT !.is_active = c.active]
    <3>2. a \in Account /\ a.memberships = users[c.user].memberships /\ a.user_type = users[c.user].user_type
      BY <1>3, <3>1 DEF Account
    <3>3. users' = [users EXCEPT ![c.user] = a]
      BY <1>1, <2>2 DEF CommitSetUser
    <3> HIDE DEF a
    <3> QED
      BY <3>2, <3>3
  <2> QED
    BY <1>2, <2>1, <2>2
<1>6. PICK a \in Account :
        /\ users' = [users EXCEPT ![c.user] = a] /\ a.memberships = users[c.user].memberships
        /\ a.user_type = "CONTRACTOR" => users[c.user].user_type = "CONTRACTOR" \/ c.overtaken \/ a.memberships # {}
  BY <1>5
<1>7. /\ users' \in [User -> Account \cup {None}] /\ overlapped' \in BOOLEAN /\ a # None
      /\ \A u \in User : users'[u] = IF u = c.user THEN a ELSE users[u]
  BY <1>2, <1>3, <1>4, <1>6, NoUserAssumption
<1>8. AccessTypeOK'
  BY <1>2, <1>7 DEF IInv, TypeOK, AccessTypeOK, Existing
<1>9. MembershipsAreWhole'
  BY <1>3, <1>6, <1>7 DEF IInv, ReferencesHold, MembershipsAreWhole, Present
<1>10. NobodyIsShutOut'
  BY <1>2, <1>3, <1>6, <1>7 DEF IInv, NobodyIsShutOut
<1> QED
  BY <1>1, <1>2, <1>3, <1>6, <1>7, <1>8, <1>9, <1>10, AccessOnly

LEMMA CommitReplaceKeeps ==
  ASSUME IInv, NEW s \in Session, CommitReplace(s), UNCHANGED <<rows, portalVars>>
  PROVE  IInv' /\ OthersAreLeft
<1>1. PICK c \in Called : c = session[s]
  BY DEF IInv, Sessions
<1>2. /\ c.op \in {"setRoles", "setMemberships", "setPermissions"} /\ Firm(c) /\ Current(c)
      /\ EndsReplacing(s) /\ c # Idle /\ overlapped' = (overlapped \/ c.overtaken)
  BY <1>1 DEF CommitReplace, Notice, IInv, Sessions, Idle
<1>3. users \in [User -> Account \cup {None}] /\ overlapped \in BOOLEAN
  BY DEF IInv, TypeOK, AccessTypeOK
<1>4. CASE c.op \in {"setRoles", "setMemberships"}
  <2>1. c.user \in User /\ users[c.user] # None /\ c.overtaken \in BOOLEAN /\ users[c.user] \in Account
    BY <1>2, <1>4, CallFacts, UserFacts DEF Firm, RolesCall, MembershipsCall
  <2>2. \E a \in Account :
          /\ users' = [users EXCEPT ![c.user] = a] /\ a.user_type = users[c.user].user_type
          /\ a.memberships = IF c.op = "setMemberships" THEN c.spared \cup c.wanted
                             ELSE users[c.user].memberships
    <3>1. CASE c.op = "setRoles"
      <4> DEFINE a == [users[c.user] EXCEPT !.roles = c.spared \cup c.wanted]
      <4>1. c.spared \cup c.wanted \subseteq Role
        BY <3>1, CallFacts DEF RolesCall
      <4>2. a \in Account /\ a.memberships = users[c.user].memberships /\ a.user_type = users[c.user].user_type
        BY <2>1, <4>1 DEF Account
      <4>3. users' = [users EXCEPT ![c.user] = a]
        BY <1>1, <3>1 DEF CommitReplace
      <4> HIDE DEF a
      <4> QED
        BY <3>1, <4>2, <4>3
    <3>2. CASE c.op = "setMemberships"
      <4> DEFINE a == [users[c.user] EXCEPT !.memberships = c.spared \cup c.wanted]
      <4>1. c.spared \cup c.wanted \subseteq Contractor \X BOOLEAN
        BY <3>2, CallFacts DEF MembershipsCall
      <4>2. a \in Account /\ a.memberships = c.spared \cup c.wanted /\ a.user_type = users[c.user].user_type
        BY <2>1, <4>1 DEF Account
      <4>3. users' = [users EXCEPT ![c.user] = a]
        BY <1>1, <3>2 DEF CommitReplace
      <4> HIDE DEF a
      <4> QED
        BY <3>2, <4>2, <4>3
    <3> QED
      BY <1>4, <3>1, <3>2
  <2>3. PICK a \in Account :
          /\ users' = [users EXCEPT ![c.user] = a] /\ a.user_type = users[c.user].user_type
          /\ a.memberships = IF c.op = "setMemberships" THEN c.spared \cup c.wanted
                             ELSE users[c.user].memberships
    BY <2>2
  <2>4. /\ users' \in [User -> Account \cup {None}] /\ overlapped' \in BOOLEAN /\ a # None
        /\ \A u \in User : users'[u] = IF u = c.user THEN a ELSE users[u]
    BY <1>2, <1>3, <2>1, <2>3, NoUserAssumption
  <2>5. UNCHANGED roles
    BY <1>1, <1>4 DEF CommitReplace
  <2>6. AccessTypeOK'
    BY <2>4, <2>5 DEF IInv, TypeOK, AccessTypeOK, Existing
  <2>7. Companies(a.memberships) \subseteq Present
    <3>1. Companies(users[c.user].memberships) \subseteq Present
      BY <2>1 DEF IInv, ReferencesHold, MembershipsAreWhole
    <3>2. c.op = "setMemberships" => Companies(c.wanted) \subseteq Present
      BY <1>1 DEF CommitReplace
    <3>3. c.op = "setMemberships" => c.spared \subseteq users[c.user].memberships
      BY <1>2 DEF Firm
    <3> QED
      BY <2>3, <3>1, <3>2, <3>3 DEF Companies
  <2>8. MembershipsAreWhole'
    BY <2>4, <2>7 DEF IInv, ReferencesHold, MembershipsAreWhole, Present
  <2>9. NobodyIsShutOut'
    <3>1. ~overlapped' /\ a.user_type = "CONTRACTOR" => a.memberships # {}
      BY <1>2, <1>4, <2>1, <2>3 DEF IInv, NobodyIsShutOut, Current
    <3> QED
      BY <1>2, <2>4, <2>5, <3>1 DEF IInv, NobodyIsShutOut
  <2>10. \A u \in User : users[u] # None =>
           /\ users'[u] # None
           /\ users'[u].memberships = IF c.op = "setMemberships" /\ u = c.user
                                      THEN c.spared \cup c.wanted ELSE users[u].memberships
    BY <2>3, <2>4
  <2> QED
    BY <1>1, <1>2, <2>5, <2>6, <2>8, <2>9, <2>10, AccessOnly
<1>5. CASE c.op = "setPermissions"
  <2>1. /\ c.user \in Role /\ roles[c.user] # None /\ c.overtaken \in BOOLEAN
        /\ c.spared \cup c.wanted \subseteq Permission
    BY <1>2, <1>5, CallFacts DEF Firm, PermissionsCall
  <2> DEFINE p == [roles[c.user] EXCEPT !.permissions = c.spared \cup c.wanted]
  <2>2. p \in RoleRow /\ p.permissions = c.spared \cup c.wanted
    BY <2>1, RoleFacts DEF RoleRow
  <2>3. UNCHANGED users /\ roles' = [roles EXCEPT ![c.user] = p]
    BY <1>1, <1>5 DEF CommitReplace
  <2> HIDE DEF p
  <2>4. /\ roles' \in [Role -> RoleRow \cup {None}] /\ p # None
        /\ \A r \in Role : roles'[r] = IF r = c.user THEN p ELSE roles[r]
    BY <2>1, <2>2, <2>3, RoleFacts, NoUserAssumption
  <2>5. AccessTypeOK'
    <3>1. System \subseteq Existing'
      BY <2>4, RoleFacts DEF Existing
    <3> QED
      BY <1>2, <1>3, <2>1, <2>3, <2>4, <3>1 DEF AccessTypeOK
  <2>6. MembershipsAreWhole'
    BY <2>3 DEF IInv, ReferencesHold, MembershipsAreWhole, Present
  <2>7. NobodyIsShutOut'
    <3>1. roles'["PLATFORM_ADMIN"].permissions = Permission
      <4>1. c.user = "PLATFORM_ADMIN" => c.wanted = Permission
        BY <1>2, <1>5 DEF Firm
      <4>2. "PLATFORM_ADMIN" \in Role
        BY DEF Role, System
      <4> QED
        BY <2>1, <2>2, <2>4, <4>1, <4>2, RoleFacts
    <3> QED
      BY <1>2, <2>3, <3>1 DEF IInv, NobodyIsShutOut
  <2>8. \A u \in User : users[u] # None =>
          users'[u].memberships = IF c.op = "setMemberships" /\ u = c.user
                                  THEN c.spared \cup c.wanted ELSE users[u].memberships
    BY <1>5, <2>3
  <2> QED
    BY <1>1, <1>2, <2>3, <2>4, <2>5, <2>6, <2>7, <2>8, AccessOnly
<1> QED
  BY <1>2, <1>4, <1>5

LEMMA CommitSetRoleKeeps ==
  ASSUME IInv, NEW s \in Session, CommitSetRole(s), UNCHANGED <<rows, portalVars>>
  PROVE  IInv' /\ OthersAreLeft
<1>1. PICK c \in Called : c = session[s]
  BY DEF IInv, Sessions
<1>2. /\ c.op = "setRole" /\ c \in RoleCall /\ Ends(s) /\ c # Idle /\ UNCHANGED users
      /\ overlapped' = (overlapped \/ c.overtaken)
  BY <1>1, CallFacts DEF CommitSetRole, Notice, Idle
<1>3. c.role \in CustomRole /\ c.active \in BOOLEAN /\ c.overtaken \in BOOLEAN /\ c.role \in Role
      /\ c.role \notin System
  BY <1>2, RolesAssumption DEF RoleCall, Role
<1> DEFINE old == roles[c.role]
           p == [is_active |-> c.active, permissions |-> IF old = None THEN {} ELSE old.permissions]
<1>4. p \in RoleRow
  BY <1>3, RoleFacts DEF RoleRow
<1>5. roles' = [roles EXCEPT ![c.role] = p]
  BY <1>1 DEF CommitSetRole
<1> HIDE DEF p
<1>6. /\ roles' \in [Role -> RoleRow \cup {None}] /\ p # None
      /\ \A r \in Role : roles'[r] = IF r = c.role THEN p ELSE roles[r]
  BY <1>3, <1>4, <1>5, RoleFacts, NoUserAssumption
<1>7. AccessTypeOK'
  <2>1. System \subseteq Existing'
    BY <1>6, RoleFacts DEF Existing
  <2> QED
    BY <1>2, <1>3, <1>6, <2>1 DEF AccessTypeOK, IInv, TypeOK
<1>8. MembershipsAreWhole'
  BY <1>2 DEF IInv, ReferencesHold, MembershipsAreWhole, Present
<1>9. NobodyIsShutOut'
  <2>1. roles'["PLATFORM_ADMIN"] = roles["PLATFORM_ADMIN"]
    BY <1>3, <1>6 DEF Role, System
  <2> QED
    BY <1>2, <2>1 DEF IInv, NobodyIsShutOut
<1> QED
  BY <1>1, <1>2, <1>6, <1>7, <1>8, <1>9, AccessOnly

LEMMA AccessCommitsKeeps ==
  ASSUME IInv, NEW s \in Session, AccessCommits(s)
  PROVE  IInv' /\ OthersAreLeft
BY CommitCreateUserKeeps, CommitSetUserKeeps, CommitReplaceKeeps, CommitSetRoleKeeps DEF AccessCommits

-----------------------------------------------------------------------------
(* The request, comments and attachments *)

\* Commits that write nothing but the request and what is posted on it.
LEMMA PortalOnly ==
  ASSUME IInv, NEW s \in Session, session[s] # Idle, Ends(s), UNCHANGED <<rows, accessVars>>, Leaves(s),
         PortalTypeOK', Posts',
         request' # None => RequestRefs(request') \subseteq Present,
         Assigned' \subseteq Present, HeldByPosts' \subseteq Present \cup {Office}
  PROVE  IInv' /\ OthersAreLeft
<1>1. UNCHANGED <<rows, users, roles, overlapped>> /\ Present' = Present
  BY DEF accessVars, Present
<1>2. Sessions' /\ UNCHANGED calls
  BY <1>1, CommitKeepsSessions
<1>3. TypeOK'
  BY <1>1, <1>2 DEF IInv, TypeOK, DirectoryTypeOK, AccessTypeOK, Existing
<1>4. ReferencesHold'
  BY <1>1 DEF IInv, ReferencesHold, DirectoryIsWhole, MembershipsAreWhole
<1>5. NobodyIsShutOut'
  BY <1>1 DEF IInv, NobodyIsShutOut
<1> QED
  BY <1>1, <1>2, <1>3, <1>4, <1>5, NoRowNoHarm DEF IInv

LEMMA PortalFacts ==
  ASSUME IInv
  PROVE  /\ request \in Request \cup {None} /\ assignments \in [WorkType -> Contractor \cup {None}]
         /\ comments \in [Comment -> CommentRow \cup {None}]
         /\ attachments \in [Attachment -> AttachmentRow \cup {None}]
         /\ files \subseteq Attachment /\ events \subseteq Event /\ shown \subseteq Showing
         /\ Assigned \subseteq Present /\ HeldByPosts \subseteq Present \cup {Office}
BY DEF IInv, TypeOK, PortalTypeOK, ReferencesHold

LEMMA CommitDraftKeeps ==
  ASSUME IInv, NEW s \in Session, CommitDraft(s)
  PROVE  IInv' /\ OthersAreLeft
<1>1. PICK c \in Called : c = session[s]
  BY DEF IInv, Sessions
<1>2. c.op = "draft" /\ c.new \in Request /\ c # Idle
  BY <1>1, CallFacts DEF CommitDraft, DraftCall, Idle
<1>3. /\ request = None /\ RequestRefs(c.new) \subseteq Present /\ request' = c.new /\ Ends(s)
      /\ UNCHANGED <<rows, accessVars, assignments, comments, attachments, files, events, shown>>
  BY <1>1 DEF CommitDraft, postVars
<1>4. Leaves(s)
  BY <1>3 DEF Leaves, accessVars
<1>5. PortalTypeOK'
  BY <1>2, <1>3, PortalFacts DEF PortalTypeOK
<1>6. Posts'
  BY <1>3 DEF IInv, Posts, EventsTell, HiddenStaysHidden, AttachmentsHaveFiles,
              ContractorsSpeakForThemselves, Assigned
<1>7. Assigned' = Assigned /\ HeldByPosts' = HeldByPosts
  BY <1>3 DEF Assigned, HeldByPosts
<1> QED
  BY <1>1, <1>2, <1>3, <1>4, <1>5, <1>6, <1>7, PortalFacts, PortalOnly

LEMMA CommitPublishKeeps ==
  ASSUME IInv, NEW s \in Session, CommitPublish(s)
  PROVE  IInv' /\ OthersAreLeft
<1>1. PICK c \in Called : c = session[s]
  BY DEF IInv, Sessions
<1>2. c.op = "publish" /\ c.picks \in UNION {[W -> Contractor] : W \in SUBSET WorkType} /\ Firm(c) /\ c # Idle
  BY <1>1, CallFacts DEF CommitPublish, PublishCall, Idle, IInv, Sessions
<1> DEFINE D == DOMAIN c.picks
<1>3. /\ \A w \in D : assignments[w] = None /\ c.picks[w] \in Present /\ c.picks[w] \in Contractor
      /\ request # None /\ request \in Request
      /\ request' = [request EXCEPT !.published = TRUE]
      /\ assignments' = [w \in WorkType |-> IF w \in D THEN c.picks[w] ELSE assignments[w]]
      /\ Ends(s)
      /\ UNCHANGED <<rows, accessVars, comments, attachments, files, events, shown>>
  BY <1>1, <1>2, RequestFacts DEF CommitPublish, postVars, Firm
<1> HIDE DEF D
<1>4. request' \in Request /\ RequestRefs(request') = RequestRefs(request)
  BY <1>3 DEF Request, RequestRefs
<1>5. request' # None
  BY <1>4, NoPostAssumption
<1>6. \A w \in WorkType : assignments[w] # None => assignments'[w] = assignments[w]
  BY <1>3
<1>7. Leaves(s)
  BY <1>3, <1>5, <1>6 DEF Leaves, accessVars
<1>8. Assigned \subseteq Assigned' /\ Assigned' \subseteq Present /\ HeldByPosts' = HeldByPosts
  <2>1. \A w \in WorkType : assignments'[w] # None => assignments'[w] \in Present
    BY <1>3, PortalFacts DEF Assigned
  <2> QED
    BY <1>3, <1>6, <2>1 DEF Assigned, HeldByPosts
<1>9. PortalTypeOK'
  <2>1. assignments' \in [WorkType -> Contractor \cup {None}]
    BY <1>3, PortalFacts
  <2> QED
    BY <1>3, <1>4, <2>1, PortalFacts DEF PortalTypeOK
<1>10. Posts'
  <2>1. EventsTell' /\ AttachmentsHaveFiles'
    BY <1>3 DEF IInv, Posts, EventsTell, AttachmentsHaveFiles
  <2>2. HiddenStaysHidden'
    BY <1>3, <1>8 DEF IInv, Posts, HiddenStaysHidden
  <2>3. ContractorsSpeakForThemselves'
    <3>1. ASSUME NEW a \in Attachment, attachments[a] # None, attachments[a].assignment # None
          PROVE  attachments[a].author \in {Office, assignments'[attachments[a].assignment]}
      <4>1. attachments[a].assignment \in WorkType
            /\ attachments[a].author \in {Office, assignments[attachments[a].assignment]}
            /\ attachments[a].author \in Contractor \cup {Office}
        BY <3>1, PortalFacts DEF IInv, Posts, ContractorsSpeakForThemselves, AttachmentRow
      <4>2. None \notin Contractor
        BY TablesAssumption DEF Row
      <4> QED
        BY <1>6, <4>1, <4>2
    <3> QED
      BY <1>3, <1>8, <3>1 DEF IInv, Posts, ContractorsSpeakForThemselves
  <2> QED
    BY <2>1, <2>2, <2>3 DEF Posts
<1>11. RequestRefs(request') \subseteq Present
  BY <1>3, <1>4 DEF IInv, ReferencesHold
<1> QED
  BY <1>1, <1>2, <1>3, <1>7, <1>8, <1>9, <1>10, <1>11, PortalFacts, PortalOnly

\* Commits that write comments or attachments, with an event that tells of it.
LEMMA PostsOnly ==
  ASSUME IInv, NEW s \in Session, session[s] # Idle, Ends(s),
         UNCHANGED <<rows, accessVars, requestVars, files, shown>>,
         comments' \in [Comment -> CommentRow \cup {None}],
         attachments' \in [Attachment -> AttachmentRow \cup {None}], events' \subseteq Event,
         \* What there is keeps its author and its visibility.
         \A m \in Comment : comments[m] # None =>
           /\ comments'[m] # None /\ comments'[m].author = comments[m].author
           /\ comments'[m].visibility = comments[m].visibility,
         \A a \in Attachment : attachments[a] # None =>
           /\ attachments'[a] # None /\ attachments'[a].author = attachments[a].author
           /\ attachments'[a].visibility = attachments[a].visibility
           /\ attachments'[a].assignment = attachments[a].assignment,
         \* What is new is of one who may.
         \A m \in Comment : comments[m] = None /\ comments'[m] # None =>
           comments'[m].author \in (Assigned \cup {Office}) \cap (Present \cup {Office}),
         \A a \in Attachment : attachments[a] = None /\ attachments'[a] # None =>
           /\ session[s].op = "upload" /\ session[s].item = a /\ a \in files
           /\ attachments'[a].author \in (Assigned \cup {Office}) \cap (Present \cup {Office})
           /\ LET w == attachments'[a].assignment
              IN w # None => attachments'[a].author \in {Office, assignments[w]},
         \A e \in events' \ events :
           \/ e.item \in Comment /\ comments'[e.item] # None /\ comments'[e.item].visibility = e.visibility
           \/ /\ e.item \in Attachment /\ attachments'[e.item] # None
              /\ attachments'[e.item].visibility = e.visibility
  PROVE  IInv' /\ OthersAreLeft
<1>1. UNCHANGED <<rows, users, roles, request, assignments, files, shown>> /\ Assigned' = Assigned
  BY DEF accessVars, requestVars, Assigned
<1>2. Leaves(s)
  BY <1>1 DEF Leaves
<1>3. PortalTypeOK'
  BY <1>1, PortalFacts DEF PortalTypeOK
<1>4. EventsTell'
  <2> SUFFICES ASSUME NEW e \in events'
               PROVE  \/ e.item \in Comment /\ comments'[e.item] # None
                         /\ comments'[e.item].visibility = e.visibility
                      \/ /\ e.item \in Attachment /\ attachments'[e.item] # None
                         /\ attachments'[e.item].visibility = e.visibility
    BY DEF EventsTell
  <2>1. CASE e \in events
    BY <2>1 DEF IInv, Posts, EventsTell
  <2>2. CASE e \notin events
    BY <2>2
  <2> QED
    BY <2>1, <2>2
<1>5. HiddenStaysHidden'
  BY <1>1 DEF IInv, Posts, HiddenStaysHidden
<1>6. AttachmentsHaveFiles'
  BY <1>1 DEF IInv, Posts, AttachmentsHaveFiles
<1>7. ContractorsSpeakForThemselves'
  <2>1. ASSUME NEW m \in Comment, comments'[m] # None
        PROVE  comments'[m].author \in Assigned \cup {Office}
    BY <2>1 DEF IInv, Posts, ContractorsSpeakForThemselves
  <2>2. ASSUME NEW a \in Attachment, attachments'[a] # None
        PROVE  /\ attachments'[a].author \in Assigned \cup {Office}
               /\ LET w == attachments'[a].assignment
                  IN w # None => attachments'[a].author \in {Office, assignments[w]}
    BY <2>2 DEF IInv, Posts, ContractorsSpeakForThemselves
  <2> QED
    BY <1>1, <2>1, <2>2 DEF ContractorsSpeakForThemselves
<1>8. HeldByPosts' \subseteq Present \cup {Office}
  <2>1. ASSUME NEW m \in Comment, comments'[m] # None PROVE comments'[m].author \in Present \cup {Office}
    BY <2>1, PortalFacts DEF HeldByPosts
  <2>2. ASSUME NEW a \in Attachment, attachments'[a] # None
        PROVE  attachments'[a].author \in Present \cup {Office}
    BY <2>2, PortalFacts DEF HeldByPosts
  <2> QED
    BY <2>1, <2>2 DEF HeldByPosts
<1>9. Posts'
  BY <1>4, <1>5, <1>6, <1>7 DEF Posts
<1>10. Assigned' \subseteq Present /\ (request' # None => RequestRefs(request') \subseteq Present)
  BY <1>1, PortalFacts DEF IInv, ReferencesHold, RequestRefs
<1> QED
  BY <1>2, <1>3, <1>8, <1>9, <1>10, PortalOnly

LEMMA CommitCommentKeeps ==
  ASSUME IInv, NEW s \in Session, CommitComment(s)
  PROVE  IInv' /\ OthersAreLeft
<1>1. PICK c \in Called : c = session[s]
  BY DEF IInv, Sessions
<1>2. c.op = "comment" /\ c.new \in CommentRow /\ Firm(c) /\ c # Idle
  BY <1>1, CallFacts DEF CommitComment, CommentCall, Idle, IInv, Sessions
<1>3. PICK m \in Comment :
        /\ comments[m] = None /\ comments' = [comments EXCEPT ![m] = c.new]
        /\ events' = events \cup {EventOf(m, c.new.visibility)}
  BY <1>1 DEF CommitComment
<1>4. /\ c.new.author \in Present \cup {Office} /\ Ends(s)
      /\ UNCHANGED <<rows, accessVars, requestVars, attachments, files, shown>>
  BY <1>1 DEF CommitComment
<1> DEFINE e == EventOf(m, c.new.visibility)
<1>5. e \in Event /\ e.item = m /\ e.visibility = c.new.visibility
  BY <1>2 DEF EventOf, Event, CommentRow
<1>6. events' = events \cup {e}
  BY <1>3
<1> HIDE DEF e
<1>7. /\ comments' \in [Comment -> CommentRow \cup {None}]
      /\ \A n \in Comment : comments'[n] = IF n = m THEN c.new ELSE comments[n]
  BY <1>2, <1>3, PortalFacts
<1>8. c.new # None /\ c.new.author \in Assigned \cup {Office}
  BY <1>2, NoPostAssumption DEF Firm
<1>9. events' \subseteq Event
  BY <1>5, <1>6, PortalFacts
<1>10. \A n \in Comment : comments[n] # None =>
         /\ comments'[n] # None /\ comments'[n].author = comments[n].author
         /\ comments'[n].visibility = comments[n].visibility
  BY <1>3, <1>7
<1>11. \A n \in Comment : comments[n] = None /\ comments'[n] # None =>
         comments'[n].author \in (Assigned \cup {Office}) \cap (Present \cup {Office})
  BY <1>4, <1>7, <1>8
<1>12. \A d \in events' \ events :
         d.item \in Comment /\ comments'[d.item] # None /\ comments'[d.item].visibility = d.visibility
  BY <1>5, <1>6, <1>7, <1>8
<1> QED
  BY <1>1, <1>2, <1>4, <1>7, <1>9, <1>10, <1>11, <1>12, PortalFacts, PostsOnly

LEMMA CommitEditCommentKeeps ==
  ASSUME IInv, NEW s \in Session, CommitEditComment(s)
  PROVE  IInv' /\ OthersAreLeft
<1>1. PICK c \in Called : c = session[s]
  BY DEF IInv, Sessions
<1>2. /\ c.op = "editComment" /\ c.item \in Comment /\ c.deletes \in BOOLEAN /\ Firm(c) /\ c # Idle
  BY <1>1, CallFacts DEF CommitEditComment, EditCall, Idle, IInv, Sessions
<1> DEFINE old == comments[c.item]
           new == [old EXCEPT !.is_deleted = @ \/ c.deletes]
           e == EventOf(c.item, old.visibility)
<1>3. old # None /\ old \in CommentRow
  BY <1>2, PortalFacts DEF Firm
<1>4. /\ comments' = [comments EXCEPT ![c.item] = new]
      /\ events' = events \cup {e} /\ Ends(s)
      /\ UNCHANGED <<rows, accessVars, requestVars, attachments, files, shown>>
  BY <1>1 DEF CommitEditComment
<1>5. /\ new \in CommentRow /\ new.author = old.author /\ new.visibility = old.visibility
      /\ e \in Event /\ e.item = c.item /\ e.visibility = old.visibility
  <2> HIDE DEF old
  <2>1. old.is_deleted \in BOOLEAN
    BY <1>3 DEF CommentRow
  <2>2. new \in CommentRow /\ new.author = old.author /\ new.visibility = old.visibility
    BY <1>2, <1>3, <2>1 DEF CommentRow
  <2>3. e \in Event /\ e.item = c.item /\ e.visibility = old.visibility
    BY <1>2, <1>3 DEF CommentRow, EventOf, Event
  <2> QED
    BY <2>2, <2>3
<1> HIDE DEF new, e
<1>6. /\ comments' \in [Comment -> CommentRow \cup {None}] /\ new # None
      /\ \A n \in Comment : comments'[n] = IF n = c.item THEN new ELSE comments[n]
  BY <1>2, <1>4, <1>5, PortalFacts, NoPostAssumption
<1>7. events' \subseteq Event
  BY <1>4, <1>5, PortalFacts
<1>8. \A n \in Comment : comments[n] # None =>
        /\ comments'[n] # None /\ comments'[n].author = comments[n].author
        /\ comments'[n].visibility = comments[n].visibility
  BY <1>5, <1>6
<1>9. \A n \in Comment : comments[n] = None => comments'[n] = None
  BY <1>3, <1>6
<1>10. \A d \in events' \ events :
         d.item \in Comment /\ comments'[d.item] # None /\ comments'[d.item].visibility = d.visibility
  BY <1>2, <1>4, <1>5, <1>6
<1> QED
  BY <1>1, <1>2, <1>4, <1>6, <1>7, <1>8, <1>9, <1>10, PortalFacts, PostsOnly

LEMMA StoreFileKeeps ==
  ASSUME IInv, NEW s \in Session, StoreFile(s)
  PROVE  IInv' /\ OthersAreLeft
<1>1. PICK c \in Called : c = session[s]
  BY DEF IInv, Sessions
<1>2. /\ c.op = "upload" /\ c \in UploadCall /\ Firm(c)
      /\ \A t \in Session \ {s} : session[t].op = "upload" => session[t].item # c.item
  BY <1>1, CallFacts DEF StoreFile, IInv, Sessions, UploadsDiffer
<1> DEFINE d == [c EXCEPT !.stored = TRUE]
<1>3. d \in UploadCall /\ d.op = "upload" /\ d.item = c.item /\ d.new = c.new /\ c.item \in Attachment
  BY <1>2 DEF UploadCall
<1>4. /\ session' = [session EXCEPT ![s] = d] /\ files' = files \cup {c.item}
      /\ UNCHANGED <<rows, calls, users, roles, overlapped, request, assignments, comments, attachments,
                     events, shown>>
  BY <1>1 DEF StoreFile, accessVars, requestVars
<1> HIDE DEF d
<1>5. Leaves(s)
  BY <1>4 DEF Leaves
<1>6. d \in Called /\ Current(d)
  BY <1>3 DEF Called, PortalCall, Current
<1>7. Firm(d)'
  BY <1>2, <1>3, <1>4 DEF Firm, Assigned
<1>8. Sessions'
  BY <1>2, <1>3, <1>4, <1>5, <1>6, <1>7, SessionKeeps
<1>9. TypeOK'
  <2>1. PortalTypeOK'
    BY <1>3, <1>4, PortalFacts DEF PortalTypeOK
  <2> QED
    BY <1>4, <2>1 DEF IInv, TypeOK, DirectoryTypeOK, AccessTypeOK, Present, Existing
<1>10. ReferencesHold'
  BY <1>4 DEF IInv, ReferencesHold, DirectoryIsWhole, MembershipsAreWhole, Present, Assigned, HeldByPosts
<1>11. NobodyIsShutOut'
  BY <1>4 DEF IInv, NobodyIsShutOut
<1>12. Posts'
  BY <1>4 DEF IInv, Posts, EventsTell, HiddenStaysHidden, AttachmentsHaveFiles,
              ContractorsSpeakForThemselves, Assigned
<1> QED
  BY <1>4, <1>8, <1>9, <1>10, <1>11, <1>12, NoRowNoHarm DEF IInv

LEMMA CommitUploadKeeps ==
  ASSUME IInv, NEW s \in Session, CommitUpload(s)
  PROVE  IInv' /\ OthersAreLeft
<1>1. PICK c \in Called : c = session[s]
  BY DEF IInv, Sessions
<1>2. /\ c.op = "upload" /\ c.item \in Attachment /\ c.new \in AttachmentRow /\ Firm(c) /\ c # Idle /\ c.stored
  BY <1>1, CallFacts DEF CommitUpload, UploadCall, Idle, IInv, Sessions
<1> DEFINE e == EventOf(c.item, c.new.visibility)
<1>3. /\ c.new.author \in Present \cup {Office} /\ attachments' = [attachments EXCEPT ![c.item] = c.new]
      /\ events' = events \cup {e} /\ Ends(s)
      /\ UNCHANGED <<rows, accessVars, requestVars, comments, files, shown>>
  BY <1>1 DEF CommitUpload
<1>4. e \in Event /\ e.item = c.item /\ e.visibility = c.new.visibility
  BY <1>2 DEF EventOf, Event, AttachmentRow
<1> HIDE DEF e
<1>5. /\ attachments' \in [Attachment -> AttachmentRow \cup {None}] /\ c.new # None
      /\ \A a \in Attachment : attachments'[a] = IF a = c.item THEN c.new ELSE attachments[a]
  BY <1>2, <1>3, PortalFacts, NoPostAssumption
<1>6. /\ attachments[c.item] = None /\ c.item \in files /\ c.new.author \in Assigned \cup {Office}
      /\ LET w == c.new.assignment IN w # None => c.new.author \in {Office, assignments[w]}
  BY <1>2 DEF Firm
<1>7. events' \subseteq Event
  BY <1>3, <1>4, PortalFacts
<1>8. \A a \in Attachment : attachments[a] # None => attachments'[a] = attachments[a]
  BY <1>5, <1>6
<1>9. \A a \in Attachment : attachments[a] = None /\ attachments'[a] # None =>
        /\ session[s].op = "upload" /\ session[s].item = a /\ a \in files
        /\ attachments'[a].author \in (Assigned \cup {Office}) \cap (Present \cup {Office})
        /\ LET w == attachments'[a].assignment
           IN w # None => attachments'[a].author \in {Office, assignments[w]}
  BY <1>1, <1>2, <1>3, <1>5, <1>6
<1>10. \A d \in events' \ events :
         /\ d.item \in Attachment /\ attachments'[d.item] # None
         /\ attachments'[d.item].visibility = d.visibility
  BY <1>2, <1>3, <1>4, <1>5
<1> QED
  BY <1>1, <1>2, <1>3, <1>5, <1>7, <1>8, <1>9, <1>10, PortalFacts, PostsOnly

LEMMA CommitDeleteAttachmentKeeps ==
  ASSUME IInv, NEW s \in Session, CommitDeleteAttachment(s)
  PROVE  IInv' /\ OthersAreLeft
<1>1. PICK c \in Called : c = session[s]
  BY DEF IInv, Sessions
<1>2. /\ c.op = "deleteAttachment" /\ c.item \in Attachment /\ Firm(c) /\ c # Idle
  BY <1>1, CallFacts DEF CommitDeleteAttachment, RemovalCall, Idle, IInv, Sessions
<1> DEFINE old == attachments[c.item]
           new == [old EXCEPT !.is_deleted = TRUE]
           e == EventOf(c.item, old.visibility)
<1>3. old # None /\ old \in AttachmentRow
  BY <1>2, PortalFacts DEF Firm
<1>4. /\ attachments' = [attachments EXCEPT ![c.item] = new]
      /\ events' = events \cup {e} /\ Ends(s)
      /\ UNCHANGED <<rows, accessVars, requestVars, comments, files, shown>>
  BY <1>1 DEF CommitDeleteAttachment
<1>5. /\ new \in AttachmentRow /\ new.author = old.author /\ new.visibility = old.visibility
      /\ new.assignment = old.assignment
      /\ e \in Event /\ e.item = c.item /\ e.visibility = old.visibility
  <2> HIDE DEF old
  <2>1. new \in AttachmentRow /\ new.author = old.author /\ new.visibility = old.visibility
        /\ new.assignment = old.assignment
    BY <1>3 DEF AttachmentRow
  <2>2. e \in Event /\ e.item = c.item /\ e.visibility = old.visibility
    BY <1>2, <1>3 DEF AttachmentRow, EventOf, Event
  <2> QED
    BY <2>1, <2>2
<1> HIDE DEF new, e
<1>6. /\ attachments' \in [Attachment -> AttachmentRow \cup {None}] /\ new # None
      /\ \A a \in Attachment : attachments'[a] = IF a = c.item THEN new ELSE attachments[a]
  BY <1>2, <1>4, <1>5, PortalFacts, NoPostAssumption
<1>7. events' \subseteq Event
  BY <1>4, <1>5, PortalFacts
<1>8. \A a \in Attachment : attachments[a] # None =>
        /\ attachments'[a] # None /\ attachments'[a].author = attachments[a].author
        /\ attachments'[a].visibility = attachments[a].visibility
        /\ attachments'[a].assignment = attachments[a].assignment
  BY <1>5, <1>6
<1>9. \A a \in Attachment : attachments[a] = None => attachments'[a] = None
  BY <1>3, <1>6
<1>10. \A d \in events' \ events :
         /\ d.item \in Attachment /\ attachments'[d.item] # None
         /\ attachments'[d.item].visibility = d.visibility
  BY <1>2, <1>4, <1>5, <1>6
<1> QED
  BY <1>1, <1>2, <1>4, <1>6, <1>7, <1>8, <1>9, <1>10, PortalFacts, PostsOnly

LEMMA PortalCommitsKeeps ==
  ASSUME IInv, NEW s \in Session, PortalCommits(s)
  PROVE  IInv' /\ OthersAreLeft
BY CommitDraftKeeps, CommitPublishKeeps, CommitCommentKeeps, CommitEditCommentKeeps, StoreFileKeeps,
   CommitUploadKeeps, CommitDeleteAttachmentKeeps DEF PortalCommits

-----------------------------------------------------------------------------
(* The system *)

\* Steps of no session.
LEMMA SessionsStay ==
  ASSUME IInv, UNCHANGED <<rows, users, session, request, assignments, comments, attachments, files>>,
         \A r \in Role : roles[r] # None => roles'[r] # None
  PROVE  Sessions'
<1>1. ASSUME NEW t \in Session PROVE Firm(session[t])' /\ Current(session[t])'
  <2>1. PICK d \in Called : d = session[t]
    BY DEF IInv, Sessions
  <2>2. Firm(d) /\ Current(d)
    BY <2>1 DEF IInv, Sessions
  <2>3. d.op = "setPermissions" => d.user \in Role
    BY CallFacts DEF PermissionsCall
  <2>4. Firm(d)'
    BY <2>2, <2>3 DEF Firm, Assigned
  <2>5. Current(d)'
    BY <2>2 DEF Current, Referrers, Present
  <2>6. session'[t] = d
    BY <2>1
  <2> QED
    BY <2>4, <2>5, <2>6 DEF Firm, Current
<1>2. session' \in [Session -> Called] /\ UploadsDiffer'
  BY DEF IInv, Sessions, UploadsDiffer
<1> QED
  BY <1>1, <1>2 DEF Sessions

LEMMA AbortKeeps ==
  ASSUME IInv, NEW s \in Session, Abort(s)
  PROVE  IInv' /\ OthersAreLeft
<1>1. /\ session' = [session EXCEPT ![s] = Idle]
      /\ UNCHANGED <<rows, users, roles, overlapped, requestVars, postVars, shown, calls>>
  BY DEF Abort, RollsBack, accessVars, portalVars
<1>2. calls' \in 0..MaxCalls /\ roles' \in {roles, Seeded}
  BY <1>1 DEF IInv, TypeOK, DirectoryTypeOK
<1>3. TypeOK' /\ ReferencesHold' /\ NobodyIsShutOut' /\ Posts'
  BY <1>1, <1>2, SameRows
<1>4. Leaves(s)
  BY <1>1 DEF Leaves, requestVars, postVars
<1>5. Current(Idle)
  BY DEF Current, Idle
<1>6. Sessions'
  BY <1>1, <1>4, <1>5, IdleFacts, SessionKeeps
<1> QED
  BY <1>1, <1>3, <1>6, NoRowNoHarm DEF IInv

LEMMA SeedKeeps ==
  ASSUME IInv, Seed, UNCHANGED portalVars
  PROVE  IInv' /\ OthersAreLeft
<1>1. /\ roles' = Seeded
      /\ UNCHANGED <<rows, session, calls, users, overlapped, requestVars, postVars, shown>>
  BY DEF Seed, Seeds, directoryVars, portalVars
<1>2. calls' \in 0..MaxCalls
  BY <1>1 DEF IInv, TypeOK, DirectoryTypeOK
<1>3. TypeOK' /\ ReferencesHold' /\ NobodyIsShutOut' /\ Posts'
  BY <1>1, <1>2, SameRows
<1>4. Sessions'
  BY <1>1, SeededFacts, SessionsStay DEF requestVars, postVars
<1> QED
  BY <1>1, <1>3, <1>4, NoRowNoHarm DEF IInv

LEMMA BrowseKeeps ==
  ASSUME IInv, NEW u \in User, Browse(u)
  PROVE  IInv' /\ OthersAreLeft
<1> DEFINE Context_u == Context(u, "portal")
<1>1. UNCHANGED <<rows, session, calls, users, roles, overlapped, request, assignments, comments,
                  attachments, files, events>>
  BY DEF Browse, directoryVars, accessVars, requestVars, postVars
<1>2. Context_u \cap Assigned # {} /\ Context_u \subseteq Contractor
  BY DEF Browse, ActsAs, Context, ActiveContractors
<1>3. shown' = shown \cup {[item |-> i, to |-> Context_u] :
                             i \in VisibleComments \cup VisibleAttachments \cup VisibleEvents}
  BY DEF Browse
<1> HIDE DEF Context_u
<1>4. ASSUME NEW i \in VisibleComments \cup VisibleAttachments \cup VisibleEvents
      PROVE  \/ i \in Comment /\ comments[i] # None /\ comments[i].visibility = "SHARED"
             \/ i \in Attachment /\ attachments[i] # None /\ attachments[i].visibility = "SHARED"
  <2>1. CASE i \in VisibleComments \cup VisibleAttachments
    BY <2>1 DEF VisibleComments, VisibleAttachments
  <2>2. CASE i \in VisibleEvents
    <3>1. PICK e \in events : e.visibility # "INTERNAL" /\ i = e.item
      BY <2>2 DEF VisibleEvents
    <3>2. e.visibility = "SHARED"
      BY <3>1, PortalFacts DEF Event, Visibility
    <3> QED
      BY <3>1, <3>2 DEF IInv, Posts, EventsTell
  <2> QED
    BY <2>1, <2>2
<1>5. HiddenStaysHidden'
  <2> SUFFICES ASSUME NEW x \in shown'
               PROVE  /\ \/ /\ x.item \in Comment /\ comments[x.item] # None
                            /\ comments[x.item].visibility = "SHARED"
                         \/ /\ x.item \in Attachment /\ attachments[x.item] # None
                            /\ attachments[x.item].visibility = "SHARED"
                      /\ x.to \cap Assigned # {}
    BY <1>1 DEF HiddenStaysHidden, Assigned
  <2>1. CASE x \in shown
    BY <2>1 DEF IInv, Posts, HiddenStaysHidden
  <2>2. CASE x \notin shown
    <3>1. PICK i \in VisibleComments \cup VisibleAttachments \cup VisibleEvents :
            x = [item |-> i, to |-> Context_u]
      BY <1>3, <2>2
    <3>2. x.item = i /\ x.to = Context_u
      BY <3>1
    <3> QED
      BY <1>2, <1>4, <3>2
  <2> QED
    BY <2>1, <2>2
<1>6. shown' \subseteq Showing
  <2> SUFFICES ASSUME NEW x \in shown' PROVE x \in Showing
    OBVIOUS
  <2>1. CASE x \in shown
    BY <2>1, PortalFacts
  <2>2. CASE x \notin shown
    <3>1. PICK i \in VisibleComments \cup VisibleAttachments \cup VisibleEvents :
            x = [item |-> i, to |-> Context_u]
      BY <1>3, <2>2
    <3>2. i \in Comment \cup Attachment
      BY <1>4
    <3> QED
      BY <1>2, <3>1, <3>2 DEF Showing
  <2> QED
    BY <2>1, <2>2
<1>7. TypeOK'
  <2>1. PortalTypeOK'
    BY <1>1, <1>6, PortalFacts DEF PortalTypeOK
  <2> QED
    BY <1>1, <2>1 DEF IInv, TypeOK, DirectoryTypeOK, AccessTypeOK, Present, Existing
<1>8. ReferencesHold'
  BY <1>1 DEF IInv, ReferencesHold, DirectoryIsWhole, MembershipsAreWhole, Present, Assigned, HeldByPosts
<1>9. NobodyIsShutOut'
  BY <1>1 DEF IInv, NobodyIsShutOut
<1>10. Posts'
  BY <1>1, <1>5 DEF IInv, Posts, EventsTell, AttachmentsHaveFiles, ContractorsSpeakForThemselves, Assigned
<1>11. Sessions'
  BY <1>1, SessionsStay
<1> QED
  BY <1>1, <1>7, <1>8, <1>9, <1>10, <1>11, NoRowNoHarm DEF IInv

LEMMA StutterKeeps ==
  ASSUME IInv, UNCHANGED vars
  PROVE  IInv' /\ OthersAreLeft
<1>1. UNCHANGED <<rows, session, calls, users, roles, overlapped, requestVars, postVars, shown>>
  BY DEF vars, directoryVars, accessVars, portalVars
<1>2. calls' \in 0..MaxCalls
  BY <1>1 DEF IInv, TypeOK, DirectoryTypeOK
<1>3. TypeOK' /\ ReferencesHold' /\ NobodyIsShutOut' /\ Posts'
  BY <1>1, <1>2, SameRows
<1>4. Sessions'
  BY <1>1, SessionsStay DEF requestVars, postVars
<1> QED
  BY <1>1, <1>3, <1>4, NoRowNoHarm DEF IInv

LEMMA NextKeeps ==
  ASSUME IInv, [Next]_vars
  PROVE  IInv' /\ OthersAreLeft
<1>1. ASSUME NEW s \in Session, DirectoryBegins(s) \/ AccessBegins(s) \/ PortalBegins(s)
      PROVE  IInv' /\ OthersAreLeft
  <2>1. UNCHANGED rows
    BY <1>1 DEF DirectoryBegins, AccessBegins, PortalBegins, BeginDraft, BeginPublish, BeginComment,
                BeginUpload, BeginEditComment, BeginDeleteComment, BeginDeleteAttachment, Call
  <2> QED
    BY <1>1, <2>1, NoRowNoHarm, DirectoryBeginsKeeps, AccessBeginsKeeps, PortalBeginsKeeps
<1>2. ASSUME NEW s \in Session, DirectoryCommits(s) PROVE IInv' /\ OthersAreLeft
  BY <1>2, CommitSaveKeeps, CommitDeleteKeeps DEF DirectoryCommits
<1> QED
  BY <1>1, <1>2, AccessCommitsKeeps, PortalCommitsKeeps, AbortKeeps, SeedKeeps, BrowseKeeps, StutterKeeps
     DEF Next

\* What a row of a table refers to are rows.
LEMMA RefsAreRows ==
  ASSUME NEW r \in Row, NEW v \in Values(r)
  PROVE  Refs(v) \subseteq Row
<1>1. v \in Records
  BY ValuesFacts DEF Row, Plain
<1> QED
  BY <1>1 DEF Records, Refs, Row

LEMMA InitHolds == Init => IInv
<1> SUFFICES ASSUME Init PROVE IInv
  OBVIOUS
<1>1. /\ rows = StartRows /\ users = StartUsers /\ calls = 0 /\ overlapped = FALSE
      /\ roles = [r \in Role |->
           IF r \in System THEN [is_active |-> TRUE, permissions |-> Default[r]] ELSE None]
      /\ session = [s \in Session |-> Idle]
      /\ comments = [m \in Comment |-> None] /\ attachments = [a \in Attachment |-> None]
      /\ files = {} /\ events = {} /\ shown = {}
  BY DEF Init
<1>2. PICK q \in StartRequests : request = q.request /\ assignments = q.assignments
  BY DEF Init
<1>3. /\ request \in Request \cup {None} /\ assignments \in [WorkType -> Contractor \cup {None}]
      /\ request # None => \A r \in RequestRefs(request) : StartRows[r] # None
      /\ \A w \in WorkType : assignments[w] # None => StartRows[assignments[w]] # None
  BY <1>2, StartAssumption
<1>4. Present = {r \in Row : StartRows[r] # None}
  BY <1>1 DEF Present
<1>5. /\ roles \in [Role -> RoleRow \cup {None}] /\ roles["PLATFORM_ADMIN"].permissions = Permission
      /\ System \subseteq Existing
  <2>1. ASSUME NEW r \in System
        PROVE  roles[r] \in RoleRow /\ roles[r].permissions = Default[r]
    <3>1. Default[r] \subseteq Permission
      BY DEF Default, Permission
    <3>2. roles[r] = [is_active |-> TRUE, permissions |-> Default[r]]
      BY <1>1 DEF Role
    <3> QED
      BY <3>1, <3>2 DEF RoleRow
  <2>2. \A r \in Role \ System : roles[r] = None
    BY <1>1
  <2>3. roles \in [Role -> RoleRow \cup {None}]
    BY <1>1, <2>1, <2>2
  <2>4. "PLATFORM_ADMIN" \in System /\ Default["PLATFORM_ADMIN"] = Permission
    BY DEF System, Default
  <2>5. System \subseteq Existing
    BY <2>1, NoUserAssumption DEF Existing, Role
  <2>6. roles["PLATFORM_ADMIN"].permissions = Default["PLATFORM_ADMIN"]
    BY <2>1, <2>4
  <2> QED
    BY <2>3, <2>4, <2>5, <2>6
<1>6. TypeOK
  <2>1. DirectoryTypeOK
    <3>1. StartRows \in [Row -> (UNION {Values(r) : r \in Row}) \cup {None}]
      BY StartAssumption
    <3>2. \A r \in Present : StartRows[r] \in Values(r)
      BY <1>4, StartAssumption
    <3>3. 0 \in 0..MaxCalls
      BY NumbersAssumption
    <3> QED
      BY <1>1, <3>1, <3>2, <3>3 DEF DirectoryTypeOK
  <2>2. AccessTypeOK
    BY <1>1, <1>5, StartAssumption DEF AccessTypeOK
  <2>3. PortalTypeOK
    BY <1>1, <1>3 DEF PortalTypeOK
  <2> QED
    BY <2>1, <2>2, <2>3 DEF TypeOK
<1>7. Sessions
  <2>1. session \in [Session -> Called] /\ \A s \in Session : session[s] = Idle
    BY <1>1, IdleFacts
  <2>2. Firm(Idle) /\ Current(Idle) /\ Idle.op # "upload"
    BY IdleFacts DEF Current
  <2>3. \A s \in Session : Firm(session[s]) /\ Current(session[s])
    BY <2>1, <2>2
  <2>4. UploadsDiffer
    BY <2>1, <2>2 DEF UploadsDiffer
  <2> QED
    BY <2>1, <2>3, <2>4 DEF Sessions
<1>8. ReferencesHold
  <2>1. DirectoryIsWhole
    <3> SUFFICES ASSUME NEW r \in Present, NEW p \in Refs(rows[r]) PROVE p \in Present
      BY DEF DirectoryIsWhole
    <3>1. r \in Row /\ rows[r] \in Values(r) /\ StartRows[p] # None
      BY <1>1, <1>4, StartAssumption
    <3>2. p \in Row
      BY <3>1, RefsAreRows
    <3> QED
      BY <1>4, <3>1, <3>2
  <2>2. MembershipsAreWhole
    <3> SUFFICES ASSUME NEW u \in User, users[u] # None, NEW p \in Companies(users[u].memberships)
                 PROVE  p \in Present
      BY DEF MembershipsAreWhole
    <3>1. users[u] \in Account /\ StartRows[p] # None
      BY <1>1, StartAssumption
    <3>2. p \in Row
      BY <3>1 DEF Account, Companies, Row
    <3> QED
      BY <1>4, <3>1, <3>2
  <2>3. request # None => RequestRefs(request) \subseteq Present
    <3>1. request # None => RequestRefs(request) \subseteq Row
      BY <1>3 DEF Request, RequestRefs, Row
    <3> QED
      BY <1>3, <1>4, <3>1
  <2>4. Assigned \subseteq Present
    BY <1>3, <1>4 DEF Assigned, Row
  <2>5. HeldByPosts = {}
    BY <1>1 DEF HeldByPosts
  <2> QED
    BY <2>1, <2>2, <2>3, <2>4, <2>5 DEF ReferencesHold
<1>9. NobodyIsShutOut
  BY <1>1, <1>5, StartAssumption DEF NobodyIsShutOut
<1>10. Posts
  BY <1>1 DEF Posts, EventsTell, HiddenStaysHidden, AttachmentsHaveFiles, ContractorsSpeakForThemselves
<1> QED
  BY <1>6, <1>7, <1>8, <1>9, <1>10 DEF IInv

-----------------------------------------------------------------------------
(* Theorems *)

\* Invariance: what overlapping calls have checked, with the properties below, holds in
\* every reachable state.
THEOREM Invariance == Spec => []IInv
<1>1. Init => IInv
  BY InitHolds
<1>2. IInv /\ [Next]_vars => IInv'
  BY NextKeeps
<1> QED
  BY <1>1, <1>2, PTL DEF Spec

\* Every table keeps to its columns: no write of the endpoints, merged with what another
\* one has written meanwhile, leaves a row that its table cannot hold.
THEOREM TypeCorrect == Spec => []TypeOK
<1>1. IInv => TypeOK
  BY DEF IInv
<1> QED
  BY <1>1, Invariance, PTL

\* No row of any table refers to one that has been deleted, however the deletions overlap
\* with writes that have checked their references before.
THEOREM ReferencesStayWhole == Spec => []ReferencesHold
<1>1. IInv => ReferencesHold
  BY DEF IInv
<1> QED
  BY <1>1, Invariance, PTL

\* Contractors' users keep a membership unless writes to users overlap, and administrators
\* every permission whatever overlaps.
THEOREM NobodyGetsShutOut == Spec => []NobodyIsShutOut
<1>1. IInv => NobodyIsShutOut
  BY DEF IInv
<1> QED
  BY <1>1, Invariance, PTL

\* What the portal's lists, downloads and history show is shared, and of a request of the
\* user's contractors.
THEOREM HiddenItemsStayHidden == Spec => []HiddenStaysHidden
<1>1. IInv => HiddenStaysHidden
  BY DEF IInv, Posts
<1> QED
  BY <1>1, Invariance, PTL

\* No row of request_attachments is committed without its file, whatever fails.
THEOREM AttachmentsKeepFiles == Spec => []AttachmentsHaveFiles
<1>1. IInv => AttachmentsHaveFiles
  BY DEF IInv, Posts
<1> QED
  BY <1>1, Invariance, PTL

\* Comments and attachments in a contractor's name are of one that the request is assigned
\* to, and a work result is of its assignment's.
THEOREM ContractorsKeepToThemselves == Spec => []ContractorsSpeakForThemselves
<1>1. IInv => ContractorsSpeakForThemselves
  BY DEF IInv, Posts
<1> QED
  BY <1>1, Invariance, PTL

\* A deletion in the directory that no other call overtakes changes no row but its own:
\* has_references has seen to it before.
THEOREM DeletionsAreLocal == Spec => DeletionsLeaveTheRest
<1>1. IInv /\ [Next]_vars =>
        [\A s \in Session :
           session[s].op = "delete" /\ ~session[s].overtaken /\ session'[s] = Idle =>
             \A q \in Row \ {session[s].row} : rows'[q] = rows[q]]_<<rows, session>>
  BY NextKeeps DEF OthersAreLeft
<1> QED
  BY <1>1, Invariance, PTL DEF Spec, DeletionsLeaveTheRest

-----------------------------------------------------------------------------
(* Who is responsible *)

LEMMA ApplyingFacts ==
  ASSUME DirectoryTypeOK, NEW city \in City, NEW facility \in Facility, NEW w,
         NEW q \in Applying(city, facility, w)
  PROVE  /\ Reach(q) \in 1..3 /\ rows[q].priority \in Nat
         /\ \A l \in 1..3 : q \in Candidates(l, city, facility, w) <=> l = Reach(q)
<1>1. q \in Row /\ q \in Responsibility /\ rows[q] \in Values(q)
  BY DEF Applying, Present, DirectoryTypeOK
<1>2. rows[q] \in Records /\ rows[q].priority \in Nat
  BY <1>1, ValuesFacts, NumbersAssumption
<1>3. city # None /\ facility # None
  BY TablesAssumption DEF Row
<1>4. Reach(q) \in 1..3
  BY DEF Reach
<1>5. ASSUME NEW l \in 1..3 PROVE q \in Candidates(l, city, facility, w) <=> l = Reach(q)
  <2>1. CASE l = 1
    BY <1>3, <2>1 DEF Candidates, Scope, Applying, Reach
  <2>2. CASE l = 2
    BY <1>3, <2>2 DEF Candidates, Scope, Applying, Reach
  <2>3. CASE l = 3
    BY <1>3, <2>3 DEF Candidates, Scope, Applying, Reach
  <2> QED
    BY <2>1, <2>2, <2>3
<1> QED
  BY <1>2, <1>4, <1>5

LEMMA CandidatesApply ==
  ASSUME NEW city, NEW facility, NEW w, NEW l \in 1..3
  PROVE  Candidates(l, city, facility, w) \subseteq Applying(city, facility, w)
<1>1. l = 1 \/ l = 2 \/ l = 3
  OBVIOUS
<1>2. CASE l = 1
  BY <1>2 DEF Candidates, Scope, Applying
<1>3. CASE l = 2
  BY <1>3 DEF Candidates, Scope, Applying
<1>4. CASE l = 3
  BY <1>4 DEF Candidates, Scope, Applying
<1> QED
  BY <1>1, <1>2, <1>3, <1>4

\* The three queries, each only where the ones before found nothing, find the nearest.
LEMMA ResponsibleAreTheNearest ==
  ASSUME DirectoryTypeOK, NEW city \in City, NEW facility \in Facility, NEW w
  PROVE  Responsible(city, facility, w) = {rows[q].contractor : q \in Nearest(city, facility, w)}
<1> DEFINE At(l) == Candidates(l, city, facility, w)
           A == Applying(city, facility, w)
           First == {l \in 1..3 : \A k \in 1..3 : k < l => At(k) = {}}
           Found == UNION {Best(At(l)) : l \in First}
<1>1. Responsible(city, facility, w) = {rows[q].contractor : q \in Found}
  BY DEF Responsible, Best
<1> USE DEF Best
<1>2. \A l \in 1..3 : At(l) \subseteq A
  BY CandidatesApply
<1>3. \A q \in A : /\ Reach(q) \in 1..3 /\ rows[q].priority \in Nat
                   /\ \A l \in 1..3 : q \in At(l) <=> l = Reach(q)
  BY ApplyingFacts
<1>4. Nearest(city, facility, w) =
        {q \in A : \A p \in A : \/ Reach(q) < Reach(p)
                                \/ Reach(q) = Reach(p) /\ rows[q].priority <= rows[p].priority}
  BY DEF Nearest
<1> HIDE DEF At, A
<1>5. ASSUME NEW q \in Found PROVE q \in Nearest(city, facility, w)
  <2>1. PICK l \in First : q \in Best(At(l))
    OBVIOUS
  <2>2. q \in A /\ Reach(q) = l
    BY <1>2, <1>3, <2>1
  <2>3. ASSUME NEW p \in A
        PROVE  \/ Reach(q) < Reach(p)
               \/ Reach(q) = Reach(p) /\ rows[q].priority <= rows[p].priority
    <3>1. p \in At(Reach(p)) /\ Reach(p) \in 1..3
      BY <1>3
    <3>2. ~(Reach(p) < l)
      BY <2>1, <3>1
    <3>3. Reach(p) = l => rows[q].priority <= rows[p].priority
      BY <2>1, <3>1
    <3> QED
      BY <2>1, <2>2, <3>1, <3>2, <3>3
  <2> QED
    BY <1>4, <2>2, <2>3
<1>6. ASSUME NEW q \in Nearest(city, facility, w) PROVE q \in Found
  <2>1. q \in A /\ q \in At(Reach(q)) /\ Reach(q) \in 1..3
    BY <1>3, <1>4
  <2>2. ASSUME NEW k \in 1..3, k < Reach(q) PROVE At(k) = {}
    <3>1. \A p \in At(k) : p \in A /\ Reach(p) = k
      BY <1>2, <1>3
    <3> QED
      BY <1>4, <2>1, <2>2, <3>1
  <2>3. ASSUME NEW p \in At(Reach(q)) PROVE rows[q].priority <= rows[p].priority
    <3>1. p \in A /\ Reach(p) = Reach(q)
      BY <1>2, <1>3, <2>1
    <3> QED
      BY <1>4, <2>1, <3>1
  <2>4. Reach(q) \in First /\ q \in Best(At(Reach(q)))
    BY <2>1, <2>2, <2>3
  <2> QED
    BY <2>4
<1>7. Found = Nearest(city, facility, w)
  BY <1>5, <1>6
<1> HIDE DEF Found
<1> QED
  BY <1>1, <1>7

LEMMA NatHasLeast ==
  ASSUME NEW S, S \subseteq Nat, S # {}
  PROVE  \E m \in S : \A n \in S : m <= n
<1> DEFINE Less == {p \in Nat \X Nat : p[1] < p[2]}
<1>1. IsWellFoundedOn(Less, Nat)
  BY NatLessThanWellFounded DEF OpToRel
<1> HIDE DEF Less
<1>2. PICK m \in S : \A n \in S : ~(<<n, m>> \in Less)
  BY <1>1, WFMin
<1>3. \A n \in S : ~(n < m)
  BY <1>2 DEF Less
<1> QED
  BY <1>3

\* Somebody is found whenever a responsibility applies.
LEMMA SomeoneIsNearest ==
  ASSUME DirectoryTypeOK, NEW city \in City, NEW facility \in Facility, NEW w,
         Applying(city, facility, w) # {}
  PROVE  Nearest(city, facility, w) # {}
<1> DEFINE A == Applying(city, facility, w)
<1>1. \A q \in A : Reach(q) \in Nat /\ rows[q].priority \in Nat
  <2>1. \A q \in A : Reach(q) \in 1..3 /\ rows[q].priority \in Nat
    BY ApplyingFacts
  <2> QED
    BY <2>1
<1> HIDE DEF A
<1>2. A # {}
  BY DEF A
<1>3. PICK l \in {Reach(q) : q \in A} : \A k \in {Reach(q) : q \in A} : l <= k
  BY <1>1, <1>2, NatHasLeast
<1> DEFINE L == {q \in A : Reach(q) = l}
<1>4. PICK m \in {rows[q].priority : q \in L} : \A n \in {rows[q].priority : q \in L} : m <= n
  BY <1>1, <1>3, NatHasLeast
<1>5. PICK q \in L : rows[q].priority = m
  BY <1>4
<1>6. ASSUME NEW p \in A
      PROVE  \/ Reach(q) < Reach(p)
             \/ Reach(q) = Reach(p) /\ rows[q].priority <= rows[p].priority
  <2>1. l <= Reach(p)
    BY <1>3
  <2>2. Reach(p) = l => m <= rows[p].priority
    BY <1>4
  <2> QED
    BY <1>1, <1>5, <2>1, <2>2
<1> QED
  BY <1>5, <1>6 DEF A, Nearest

\* A session that is to publish from this step on has just run the checks for it.
LEMMA PublishingBegins ==
  ASSUME IInv, [Next]_vars, NEW s \in Session,
         session[s] = Idle, session'[s] # Idle, session'[s].op = "publish"
  PROVE  BeginPublish(s)
<1>1. session \in [Session -> Called] /\ Idle.op = "idle"
  BY DEF IInv, Sessions, Idle
<1>2. ASSUME NEW t \in Session, NEW c, Starts(t, c) PROVE s = t /\ c.op = "publish"
  BY <1>1, <1>2 DEF Starts
<1>3. ASSUME NEW t \in Session, DirectoryBegins(t) PROVE FALSE
  <2>1. PICK r \in Row : BeginDelete(t, r) \/ \E v \in Inputs[r] : BeginCreate(t, r, v) \/ BeginUpdate(t, r, v)
    BY <1>3 DEF DirectoryBegins
  <2>2. ASSUME NEW op, NEW old, NEW new, Starts(t, Write(op, r, old, new)) PROVE op = "publish"
    <3>1. Write(op, r, old, new).op = op
      BY DEF Write
    <3> QED
      BY <1>2, <2>2, <3>1
  <2>3. ~BeginDelete(t, r)
    BY <2>2 DEF BeginDelete
  <2>4. ASSUME NEW v, BeginCreate(t, r, v) \/ BeginUpdate(t, r, v) PROVE FALSE
    BY <2>2, <2>4 DEF BeginCreate, BeginUpdate
  <2> QED
    BY <2>1, <2>3, <2>4
<1>4. ASSUME NEW t \in Session, AccessBegins(t) PROVE FALSE
  <2> DEFINE Begun == \E c : Starts(t, c) /\ c.op # "publish"
  <2>1. ASSUME NEW u \in User, BeginCreateUser(t, u) PROVE Begun
    BY <2>1 DEF BeginCreateUser
  <2>2. ASSUME NEW u \in User, NEW type, BeginSetType(t, u, type) PROVE Begun
    BY <2>2 DEF BeginSetType
  <2>3. ASSUME NEW u \in User, NEW b, BeginSetActive(t, u, b) PROVE Begun
    BY <2>3 DEF BeginSetActive
  <2>4. ASSUME NEW u \in User, NEW R, BeginSetRoles(t, u, R) \/ BeginSetMemberships(t, u, R) PROVE Begun
    BY <2>4 DEF BeginSetRoles, BeginSetMemberships, BeginReplace
  <2>5. ASSUME NEW r \in Role, NEW P, BeginSetPermissions(t, r, P) PROVE Begun
    BY <2>5 DEF BeginSetPermissions, BeginReplace
  <2>6. ASSUME NEW r \in Role, NEW b, BeginSetRole(t, r, b) PROVE Begun
    BY <2>6 DEF BeginSetRole
  <2> HIDE DEF Begun
  <2>7. Begun
    BY <1>4, <2>1, <2>2, <2>3, <2>4, <2>5, <2>6 DEF AccessBegins
  <2> QED
    BY <1>2, <2>7 DEF Begun
<1>5. ASSUME NEW t \in Session, PortalBegins(t) PROVE BeginPublish(s)
  <2> DEFINE Begun == \E c : Starts(t, c) /\ c.op # "publish"
  <2>1. BeginDraft(t) => Begun
    BY DEF BeginDraft
  <2>2. BeginComment(t) => Begun
    BY DEF BeginComment, Call
  <2>3. BeginUpload(t) => Begun
    BY DEF BeginUpload, Call
  <2>4. ASSUME NEW m \in Comment, BeginEditComment(t, m) \/ BeginDeleteComment(t, m) PROVE Begun
    BY <2>4 DEF BeginEditComment, BeginDeleteComment, Call
  <2>5. ASSUME NEW a \in Attachment, BeginDeleteAttachment(t, a) PROVE Begun
    BY <2>5 DEF BeginDeleteAttachment, Call
  <2>6. BeginPublish(t) => s = t
    BY <1>2 DEF BeginPublish
  <2>7. ~Begun
    BY <1>2
  <2> HIDE DEF Begun
  <2> QED
    BY <1>5, <2>1, <2>2, <2>3, <2>4, <2>5, <2>6, <2>7 DEF PortalBegins
<1>6. ASSUME NEW t \in Session, Ends(t) \/ EndsReplacing(t) PROVE FALSE
  BY <1>6, Zenon DEF Ends, EndsReplacing
<1>7. ASSUME NEW t \in Session, DirectoryCommits(t) \/ AccessCommits(t) PROVE FALSE
  BY <1>6, <1>7 DEF DirectoryCommits, CommitSave, CommitDelete, AccessCommits, CommitCreateUser,
                    CommitSetUser, CommitReplace, CommitSetRole
<1>8. ASSUME NEW t \in Session, PortalCommits(t) PROVE FALSE
  <2>1. ~StoreFile(t)
    BY <1>1 DEF StoreFile
  <2> QED
    BY <1>6, <1>8, <2>1 DEF PortalCommits, CommitDraft, CommitPublish, CommitComment, CommitEditComment,
                            CommitUpload, CommitDeleteAttachment
<1>9. ASSUME NEW t \in Session, Abort(t) PROVE FALSE
  BY <1>1, <1>9 DEF Abort, RollsBack
<1>10. session' # session
  OBVIOUS
<1> QED
  BY <1>3, <1>4, <1>5, <1>7, <1>8, <1>9, <1>10 DEF Next, Seed, Browse, directoryVars, vars

LEMMA PublishAsksTheNearest ==
  ASSUME IInv, [Next]_vars
  PROVE  AsksTheNearest
<1> SUFFICES ASSUME NEW s \in Session, session[s] = Idle, session'[s] # Idle, session'[s].op = "publish"
             PROVE  LET picks == session'[s].picks
                        Applies(w) == Applying(request.city, request.facility, w)
                    IN /\ DOMAIN picks = {w \in request.works : assignments[w] = None /\ Applies(w) # {}}
                       /\ \A w \in DOMAIN picks :
                            \E q \in Nearest(request.city, request.facility, w) :
                              picks[w] = rows[q].contractor
  BY DEF AsksTheNearest
<1> DEFINE For(w) == Responsible(request.city, request.facility, w)
           Near(w) == Nearest(request.city, request.facility, w)
           Applies(w) == Applying(request.city, request.facility, w)
           Missing == {w \in request.works : assignments[w] = None /\ For(w) # {}}
           Call_(picks) == [op |-> "publish", picks |-> picks, overtaken |-> FALSE]
<1>1. BeginPublish(s)
  BY PublishingBegins
<1>2. /\ session \in [Session -> Called]
      /\ DirectoryTypeOK /\ request.city \in City /\ request.facility \in Facility
  <2>1. request # None
    BY <1>1 DEF BeginPublish, Publishable
  <2>2. request \in Request
    BY <2>1, RequestFacts
  <2> QED
    BY <2>2 DEF Request, IInv, TypeOK, Sessions
<1>3. PICK picks \in [Missing -> Contractor] :
        (\A w \in Missing : picks[w] \in For(w)) /\ Starts(s, Call_(picks))
  BY <1>1 DEF BeginPublish
<1>4. session'[s].picks = picks
  BY <1>2, <1>3 DEF Starts
<1> HIDE DEF Call_
<1>5. \A w : For(w) = {rows[q].contractor : q \in Near(w)}
  BY <1>2, ResponsibleAreTheNearest
<1>6. \A w : For(w) # {} <=> Applies(w) # {}
  <2>1. \A w : Near(w) # {} <=> Applies(w) # {}
    BY <1>2, SomeoneIsNearest DEF Nearest
  <2> HIDE DEF For, Near, Applies
  <2>2. ASSUME NEW w PROVE For(w) # {} <=> Near(w) # {}
    BY <1>5
  <2> QED
    BY <2>1, <2>2
<1> HIDE DEF For, Near
<1>7. DOMAIN picks = {w \in request.works : assignments[w] = None /\ Applies(w) # {}}
  BY <1>3, <1>6
<1>8. \A w \in DOMAIN picks : \E q \in Near(w) : picks[w] = rows[q].contractor
  BY <1>3, <1>5
<1> QED
  BY <1>4, <1>7, <1>8 DEF Near

\* find_contractor_for_work_type: wherever the request is, and whatever has been written in
\* the directory, the three queries find the contractors of the nearest responsibilities,
\* and they find one whenever a responsibility applies.
THEOREM TheNearestIsResponsible ==
  Spec => [](\A city \in City, facility \in Facility, w \in WorkType :
               /\ Responsible(city, facility, w) = {rows[q].contractor : q \in Nearest(city, facility, w)}
               /\ Applying(city, facility, w) # {} => Responsible(city, facility, w) # {})
<1>1. ASSUME IInv, NEW city \in City, NEW facility \in Facility, NEW w \in WorkType
      PROVE  /\ Responsible(city, facility, w) = {rows[q].contractor : q \in Nearest(city, facility, w)}
             /\ Applying(city, facility, w) # {} => Responsible(city, facility, w) # {}
  <2>1. DirectoryTypeOK
    BY <1>1 DEF IInv, TypeOK
  <2>2. Responsible(city, facility, w) = {rows[q].contractor : q \in Nearest(city, facility, w)}
    BY <2>1, ResponsibleAreTheNearest
  <2>3. Applying(city, facility, w) # {} => Nearest(city, facility, w) # {}
    BY <2>1, SomeoneIsNearest
  <2> QED
    BY <2>2, <2>3
<1>2. IInv => \A city \in City, facility \in Facility, w \in WorkType :
                /\ Responsible(city, facility, w) = {rows[q].contractor : q \in Nearest(city, facility, w)}
                /\ Applying(city, facility, w) # {} => Responsible(city, facility, w) # {}
  BY <1>1
<1> QED
  BY <1>2, Invariance, PTL

\* create_assignments_for_request: no work type that a responsibility applies to is left
\* out of a publication, and none goes to a contractor while another's responsibility comes
\* before.
THEOREM NearestAreAsked == Spec => PublicationsAskTheNearest
<1>1. IInv /\ [Next]_vars => [AsksTheNearest]_vars
  BY PublishAsksTheNearest
<1> QED
  BY <1>1, Invariance, PTL DEF Spec, PublicationsAskTheNearest
=============================================================================
