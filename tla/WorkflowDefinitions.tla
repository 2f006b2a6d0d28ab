-------------------------- MODULE WorkflowDefinitions --------------------------
(***************************************************************************)
(* services/workflow_definition_service.py: the versions of one workflow,  *)
(* edited as drafts, published and deactivated; and what depends on them:  *)
(* the seeding of version 1 and the instances that                         *)
(* contractor_request_workflow.py and start_workflow create.               *)
(*                                                                         *)
(* An operation loads a definition, checks it and commits what it changes; *)
(* operations of different sessions overlap, and a commit checks nothing   *)
(* but the unique constraints.  Names, order, configuration, permissions   *)
(* and SLA policies are left out: a publication may be refused for reasons *)
(* that the model does not know.                                           *)
(***************************************************************************)
EXTENDS Naturals, Sequences, FiniteSets

CONSTANTS
  Session,
  Code,                      \* codes of states
  TransitionCode,
  SeedCode, SeedInitial,     \* the seeded definition: its states, the initial one,
  SeedTransition,            \* its transitions
  SeedFrom, SeedTo,          \* and their ends
  Entity,                    \* entities with a workflow, for contractor requests their ids
  MaxVersion, MaxChange      \* bounds on versions, and on changes: none begins once it is reached

ASSUME SeedAssumption ==
  /\ SeedCode \subseteq Code /\ SeedInitial \in SeedCode
  /\ SeedTransition \subseteq TransitionCode
  /\ SeedFrom \in [SeedTransition -> SeedCode] /\ SeedTo \in [SeedTransition -> SeedCode]
NoInstance == "none"
ASSUME CodeAssumption == NoInstance \notin Code
ASSUME BoundAssumption == MaxVersion \in Nat /\ MaxChange \in Nat

VARIABLES
  definition,  \* rows of workflow_definitions with their states and transitions, by version
  instance,    \* state of the instance of a version and an entity
  session,     \* each session: what it has loaded and is about to write
  changes,     \* how many changes to definitions have been committed
  overlapped   \* history: a change has been committed on a definition loaded before another

vars == <<definition, instance, session, changes, overlapped>>

Idle == [op |-> "idle"]
Version == 1..MaxVersion
DefinitionOf == DOMAIN definition

\* A transition that does not exist has no ends.
Edge == [from : Code, to : Code, live : BOOLEAN]
Definition == [published : BOOLEAN, active : BOOLEAN,
               states : SUBSET Code, initials : SUBSET Code, live : SUBSET Code,
               edges : UNION {[T -> Edge] : T \in SUBSET TransitionCode}]

TypeOK ==
  /\ definition \in Seq(Definition)
  /\ Len(definition) <= MaxVersion
  /\ \A v \in DefinitionOf : \A d \in {definition[v]} :
       /\ d.initials \cup d.live \subseteq d.states
       /\ \A t \in DOMAIN d.edges : {d.edges[t].from, d.edges[t].to} \subseteq d.states
  /\ instance \in [Version -> [Entity -> Code \cup {NoInstance}]]
  /\ changes \in 0..MaxChange
  /\ overlapped \in BOOLEAN

Blank == [published |-> FALSE, active |-> TRUE, states |-> {}, initials |-> {}, live |-> {},
          edges |-> [t \in {} |-> 0]]

Init ==
  /\ definition = <<>>
  /\ instance = [v \in Version |-> [e \in Entity |-> NoInstance]]
  /\ session = [s \in Session |-> Idle]
  /\ changes = 0
  /\ overlapped = FALSE

-----------------------------------------------------------------------------
(* What makes a definition publishable. *)

LiveEdges(d) == {t \in DOMAIN d.edges : d.edges[t].live}

Closed(d, R) == \A t \in LiveEdges(d) : d.edges[t].from \in R => d.edges[t].to \in R

\* reachable_state_ids: the least closed set with the initial state.
Reachable(d, c) == {x \in Code : \A R \in SUBSET Code : c \in R /\ Closed(d, R) => x \in R}

\* A validation that forgets what cannot be reached.
Publishable_Unreachable(d) ==
  /\ \E c \in Code : d.initials \cap d.live = {c}
  /\ \A t \in LiveEdges(d) : d.edges[t].from \in d.live /\ d.edges[t].to \in d.live

\* validate_publishable_definition
Publishable(d) ==
  /\ \E c \in Code : d.initials \cap d.live = {c} /\ d.live \subseteq Reachable(d, c)
  /\ \A t \in LiveEdges(d) : d.edges[t].from \in d.live /\ d.edges[t].to \in d.live

-----------------------------------------------------------------------------
(* The changes to a draft: when they are allowed, and what they write. *)

Payload == {"true", "false", "unset"}    \* what an update says of a field
Change ==
  [kind : {"addState"}, code : Code, initial : {"true", "false"}, live : {"true", "false"}]
  \cup [kind : {"updateState"}, code : Code, initial : Payload, live : Payload]
  \cup [kind : {"addTransition", "updateTransition"}, code : TransitionCode, edge : Edge]
  \cup [kind : {"updateDefinition"}, active : BOOLEAN] \cup [kind : {"publish", "deactivate"}]

OtherInitial(d, c) == (d.initials \cap d.live) \ {c} # {}

\* The rows a change needs: a new code, or an existing row, and ends of the same definition.
\* A state becomes the initial one only while no other active state is.
Fits(d, ch) ==
  \/ /\ \/ ch.kind = "addState" /\ ch.code \notin d.states
        \/ ch.kind = "updateState" /\ ch.code \in d.states
     /\ ch.initial = "true" => ~OtherInitial(d, ch.code)
  \/ /\ \/ ch.kind = "addTransition" /\ ch.code \notin DOMAIN d.edges
        \/ ch.kind = "updateTransition" /\ ch.code \in DOMAIN d.edges
     /\ {ch.edge.from, ch.edge.to} \subseteq d.states
  \/ ch.kind = "updateDefinition"
  \/ ch.kind = "publish" /\ Publishable(d)

\* Changes that are checked, whether the definition is a draft or not.
Allowed_Published(d, ch) == ch.kind = "deactivate" \/ Fits(d, ch)

\* ensure_draft: everything but a deactivation needs a draft.
Allowed(d, ch) == ch.kind = "deactivate" \/ (~d.published /\ Fits(d, ch))

Put(S, c, field) ==
  CASE field = "true" -> S \cup {c} [] field = "false" -> S \ {c} [] field = "unset" -> S

\* The rows after a change.
Changed(d, ch) ==
  CASE ch.kind \in {"addState", "updateState"} ->
         [d EXCEPT !.states = @ \cup {ch.code}, !.initials = Put(@, ch.code, ch.initial),
                   !.live = Put(@, ch.code, ch.live)]
    [] ch.kind \in {"addTransition", "updateTransition"} ->
         [d EXCEPT !.edges = [t \in DOMAIN @ \cup {ch.code} |-> IF t = ch.code THEN ch.edge ELSE @[t]]]
    [] ch.kind = "updateDefinition" -> [d EXCEPT !.active = ch.active]
    [] ch.kind = "publish" -> [d EXCEPT !.published = TRUE]
    [] ch.kind = "deactivate" -> [d EXCEPT !.active = FALSE]

Finish(s) == session' = [session EXCEPT ![s] = Idle]

Free(s) == session[s] = Idle /\ changes < MaxChange

BeginChange(s, v, ch) ==
  /\ Free(s)
  /\ v \in DefinitionOf
  /\ Allowed(definition[v], ch)
  /\ session' = [session EXCEPT ![s] = [op |-> "change", version |-> v, change |-> ch,
                                        loaded |-> definition[v]]]
  /\ UNCHANGED <<definition, instance, changes, overlapped>>

\* Codes are unique in a definition: adding one that has come since fails.
CommitChange(s) ==
  LET c == session[s]
      d == definition[c.version]
  IN /\ c.op = "change"
     /\ changes < MaxChange
     /\ c.change.kind = "addState" => c.change.code \notin d.states
     /\ c.change.kind = "addTransition" => c.change.code \notin DOMAIN d.edges
     /\ definition' = [definition EXCEPT ![c.version] = Changed(d, c.change)]
     /\ changes' = changes + 1
     /\ overlapped' = (overlapped \/ d # c.loaded)
     /\ Finish(s)
     /\ UNCHANGED instance

-----------------------------------------------------------------------------
(* create_workflow_definition and create_workflow_version *)

\* A new version with its source's active states only.
Clone_Active(d) == [d EXCEPT !.published = FALSE, !.active = TRUE, !.states = d.live]

\* What a new version takes from its source.
Clone(d) == [d EXCEPT !.published = FALSE, !.active = TRUE]

BeginVersion(s) ==
  /\ Free(s)
  /\ \E new \in {Blank} \cup {Clone(definition[v]) : v \in DefinitionOf} :
       session' = [session EXCEPT ![s] = [op |-> "version", version |-> Len(definition) + 1,
                                          new |-> new]]
  /\ UNCHANGED <<definition, instance, changes, overlapped>>

\* The number was computed from the highest one loaded; another with it fails this one.
CommitVersion(s) ==
  /\ session[s].op = "version"
  /\ session[s].version = Len(definition) + 1
  /\ session[s].version <= MaxVersion /\ changes < MaxChange
  /\ definition' = Append(definition, session[s].new)
  /\ changes' = changes + 1
  /\ Finish(s)
  /\ UNCHANGED <<instance, overlapped>>

-----------------------------------------------------------------------------
(* seed_contractor_request_workflow_definition *)

SeedEdge(t) == [from |-> SeedFrom[t], to |-> SeedTo[t], live |-> TRUE]

\* The rows of d after adding, published, what the loaded rows r lack.
Seeded(d, r) ==
  [d EXCEPT
     !.published = TRUE,
     !.states = @ \cup SeedCode,
     !.initials = IF SeedInitial \in r.states THEN @ ELSE @ \cup {SeedInitial},
     !.live = @ \cup (SeedCode \ r.states),
     !.edges = [t \in DOMAIN @ \cup SeedTransition |-> IF t \in DOMAIN @ THEN @[t] ELSE SeedEdge(t)]]

\* Adding the initial state is refused beside another one; so is an unsound publication.
Seedable(d) ==
  /\ ~d.published
  /\ SeedInitial \notin d.states => ~OtherInitial(d, SeedInitial)
  /\ Publishable(Seeded(d, d))

Draft == IF definition = <<>> THEN Blank ELSE definition[1]

\* Nothing is done when version 1 is published, be it active or not.
BeginSeed(s) ==
  /\ Free(s)
  /\ Seedable(Draft)
  /\ session' = [session EXCEPT ![s] = [op |-> "seed", loaded |-> Draft,
                                        new |-> definition = <<>>]]
  /\ UNCHANGED <<definition, instance, changes, overlapped>>

\* One transaction: the definition, its rows, its publication and, when it was a request that
\* needed them, the request's instance.  What it adds must not have been added since.
CommitSeed(s) ==
  LET c == session[s]
      rows == Seeded(Draft, c.loaded)
  IN /\ c.op = "seed"
     /\ changes < MaxChange /\ MaxVersion > 0
     /\ c.new = (definition = <<>>)
     /\ (SeedCode \ c.loaded.states) \cap Draft.states = {}
     /\ (SeedTransition \ DOMAIN c.loaded.edges) \cap DOMAIN Draft.edges = {}
     /\ definition' = IF c.new THEN <<rows>> ELSE [definition EXCEPT ![1] = rows]
     /\ \/ UNCHANGED instance
        \/ \E e \in Entity, x \in rows.live :
             instance[1][e] = NoInstance /\ instance' = [instance EXCEPT ![1][e] = x]
     /\ changes' = changes + 1
     /\ overlapped' = (overlapped \/ Draft # c.loaded)
     /\ Finish(s)

-----------------------------------------------------------------------------
(* Instances. *)

\* The highest active version, published or not.
Latest_Draft(v) ==
  /\ v \in DefinitionOf /\ definition[v].active
  /\ \A w \in DefinitionOf : definition[w].active => w <= v

\* latest_definition: the highest version that is published and active.
Latest(v) ==
  /\ v \in DefinitionOf /\ definition[v].published /\ definition[v].active
  /\ \A w \in DefinitionOf : definition[w].published /\ definition[w].active => w <= v

\* start_workflow, with an initial state of those that are active.
StartWorkflow(e) ==
  \E v \in Version :
    /\ Latest(v)
    /\ instance[v][e] = NoInstance
    /\ \E c \in definition[v].initials \cap definition[v].live :
         instance' = [instance EXCEPT ![v][e] = c]
  /\ UNCHANGED <<definition, session, changes, overlapped>>

\* ensure_instance_for_request and backfill: an instance of version 1, also when it has been
\* deactivated, in the state that the request's status names.
EnsureInstance(e) ==
  /\ definition # <<>> /\ definition[1].published
  /\ instance[1][e] = NoInstance
  /\ \E c \in definition[1].live : instance' = [instance EXCEPT ![1][e] = c]
  /\ UNCHANGED <<definition, session, changes, overlapped>>

\* The engine executes an active transition of the instance's own version.
Execute(v, e) ==
  /\ v \in DefinitionOf
  /\ \E t \in LiveEdges(definition[v]) :
       /\ instance[v][e] = definition[v].edges[t].from
       /\ instance' = [instance EXCEPT ![v][e] = definition[v].edges[t].to]
  /\ UNCHANGED <<definition, session, changes, overlapped>>

\* synchronize_instance_from_request: whatever state the request's status names.
Synchronize(e) ==
  /\ definition # <<>> /\ definition[1].published
  /\ instance[1][e] # NoInstance
  /\ \E c \in definition[1].live : instance' = [instance EXCEPT ![1][e] = c]
  /\ UNCHANGED <<definition, session, changes, overlapped>>

\* A failed constraint, an exception, a lost connection: the rollback.
Abort(s) ==
  /\ session[s] # Idle
  /\ Finish(s)
  /\ UNCHANGED <<definition, instance, changes, overlapped>>

Next ==
  \/ \E s \in Session :
       \/ \E v \in Version, ch \in Change : BeginChange(s, v, ch)
       \/ CommitChange(s)
       \/ BeginVersion(s) \/ CommitVersion(s)
       \/ BeginSeed(s) \/ CommitSeed(s)
       \/ Abort(s)
  \/ \E e \in Entity :
       \/ StartWorkflow(e) \/ EnsureInstance(e) \/ Synchronize(e)
       \/ \E v \in Version : Execute(v, e)

Spec == Init /\ [][Next]_vars

-----------------------------------------------------------------------------
(* Properties *)

\* One initial state, active transitions between active states only, and no way to split the
\* active states so that the part with the initial one is never left.
Sound(d) ==
  /\ Cardinality(d.initials \cap d.live) = 1
  /\ \A t \in LiveEdges(d) : {d.edges[t].from, d.edges[t].to} \subseteq d.live
  /\ \A R \in SUBSET d.live : d.initials \cap R # {} /\ Closed(d, R) => R = d.live

\* Unless two changes of a definition overlapped, what is published is sound.  The checks on
\* single changes do not keep a draft sound (a second initial state can be switched off, added
\* to and on again), nor does cloning; publication does.
PublishedIsSound ==
  ~overlapped => \A v \in DefinitionOf : definition[v].published => Sound(definition[v])

\* Unless two changes overlapped, a published version keeps its states and transitions,
\* also through its deactivation, the creation of other versions and repeated seeding.
PublishedIsImmutable ==
  [][~overlapped' =>
       \A v \in DefinitionOf :
         definition[v].published =>
           /\ v \in DOMAIN definition'
           /\ \A f \in {"published", "states", "initials", "live", "edges"} :
                definition'[v][f] = definition[v][f]]_vars

\* Unless two changes overlapped, every instance is of a published version and in one of
\* its active states, whether the version is active, deactivated or superseded: what it may
\* execute there is what was published.
InstancesFitTheirVersion ==
  ~overlapped =>
    \A v \in Version, e \in Entity :
      instance[v][e] # NoInstance =>
        /\ v \in DefinitionOf
        /\ definition[v].published
        /\ instance[v][e] \in definition[v].live
=============================================================================
