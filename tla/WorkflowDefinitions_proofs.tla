---------------------- MODULE WorkflowDefinitions_proofs ----------------------
(***************************************************************************)
(* Proofs of the properties of WorkflowDefinitions, for any states,        *)
(* transitions and seeded definition, any number of sessions and versions. *)
(***************************************************************************)
EXTENDS WorkflowDefinitions, SequenceTheorems, FiniteSetTheorems, TLAPS

Edges == UNION {[T -> Edge] : T \in SUBSET TransitionCode}

(* Initial and active states are states, and so are the ends of transitions. *)
WellFormed(d) ==
  /\ d.initials \cup d.live \subseteq d.states
  /\ \A t \in DOMAIN d.edges : {d.edges[t].from, d.edges[t].to} \subseteq d.states

(* What a session has loaded. *)
Changing == [op : {"change"}, version : Nat, change : Change, loaded : Definition]
Versioning == [op : {"version"}, version : Nat, new : Definition]
Seeding == [op : {"seed"}, loaded : Definition, new : BOOLEAN]
Loaded == {Idle} \cup Changing \cup Versioning \cup Seeding

Typed ==
  /\ definition \in Seq(Definition) /\ Len(definition) <= MaxVersion
  /\ \A v \in DefinitionOf : WellFormed(definition[v])
  /\ instance \in [Version -> [Entity -> Code \cup {NoInstance}]]
  /\ changes \in 0..MaxChange
  /\ overlapped \in BOOLEAN
  /\ session \in [Session -> Loaded]

(* What a session is about to write was allowed on what it has loaded, and refers to what *)
(* is still there: no row of a definition is ever removed.                                *)
Checked(c) ==
  /\ c.op = "change" =>
       /\ Allowed(c.loaded, c.change)
       /\ c.version \in DefinitionOf
       /\ c.change.kind \in {"addTransition", "updateTransition"} =>
            {c.change.edge.from, c.change.edge.to} \subseteq definition[c.version].states
  /\ c.op = "version" => WellFormed(c.new) /\ ~c.new.published
  /\ c.op = "seed" => Seedable(c.loaded)

IInv ==
  /\ Typed
  /\ \A s \in Session : Checked(session[s])
  /\ PublishedIsSound
  /\ InstancesFitTheirVersion

-----------------------------------------------------------------------------
(* Definitions and changes *)

LEMMA DefinitionFacts ==
  ASSUME NEW d \in Definition
  PROVE  /\ d.published \in BOOLEAN /\ d.active \in BOOLEAN
         /\ d.states \subseteq Code /\ d.initials \subseteq Code /\ d.live \subseteq Code
         /\ d.edges \in Edges /\ DOMAIN d.edges \subseteq TransitionCode
         /\ \A t \in DOMAIN d.edges : d.edges[t] \in Edge
<1>1. d.edges \in Edges
  BY DEF Definition, Edges
<1>2. PICK T \in SUBSET TransitionCode : d.edges \in [T -> Edge]
  BY <1>1 DEF Edges
<1> QED
  BY <1>1, <1>2 DEF Definition

LEMMA EdgesFrom ==
  ASSUME NEW T \in SUBSET TransitionCode, NEW f \in [T -> Edge]
  PROVE  f \in Edges
BY DEF Edges

LEMMA ChangeFacts ==
  ASSUME NEW ch \in Change
  PROVE  /\ ch.kind \in {"addState", "updateState", "addTransition", "updateTransition",
                         "updateDefinition", "publish", "deactivate"}
         /\ ch.kind \in {"addState", "updateState"} =>
              ch.code \in Code /\ ch.initial \in Payload /\ ch.live \in Payload
         /\ ch.kind \in {"addTransition", "updateTransition"} =>
              ch.code \in TransitionCode /\ ch.edge \in Edge
         /\ ch.kind = "updateDefinition" => ch.active \in BOOLEAN
BY DEF Change, Payload

LEMMA BlankFacts == Blank \in Definition /\ WellFormed(Blank)
<1>1. [t \in {} |-> 0] \in [{} -> Edge]
  OBVIOUS
<1>2. [t \in {} |-> 0] \in Edges
  BY <1>1, EdgesFrom
<1> QED
  BY <1>2 DEF Blank, Definition, Edges, WellFormed

\* A change leaves a well-formed definition that has all it had, if the ends it names are
\* states of the definition.
LEMMA ChangedFacts ==
  ASSUME NEW d \in Definition, WellFormed(d), NEW ch \in Change,
         ch.kind \in {"addTransition", "updateTransition"} => {ch.edge.from, ch.edge.to} \subseteq d.states
  PROVE  LET new == Changed(d, ch) IN
         new \in Definition /\ WellFormed(new) /\ d.states \subseteq new.states
<1>1. CASE ch.kind \in {"addState", "updateState"}
  <2> DEFINE new == [d EXCEPT !.states = @ \cup {ch.code}, !.initials = Put(@, ch.code, ch.initial),
                              !.live = Put(@, ch.code, ch.live)]
  <2>1. Changed(d, ch) = new
    BY <1>1 DEF Changed
  <2>2. ch.code \in Code /\ ch.initial \in Payload /\ ch.live \in Payload
    BY <1>1, ChangeFacts
  <2>3. ASSUME NEW S, NEW field \in Payload PROVE Put(S, ch.code, field) \subseteq S \cup {ch.code}
    BY <2>3 DEF Put, Payload
  <2>4. new \in Definition /\ new.states = d.states \cup {ch.code}
        /\ new.initials = Put(d.initials, ch.code, ch.initial)
        /\ new.live = Put(d.live, ch.code, ch.live) /\ new.edges = d.edges
    <3>1. Put(d.initials, ch.code, ch.initial) \in SUBSET Code /\ Put(d.live, ch.code, ch.live) \in SUBSET Code
      BY <2>2, <2>3, DefinitionFacts
    <3> QED
      BY <2>2, <3>1 DEF Definition
  <2> HIDE DEF new
  <2>5. WellFormed(new)
    BY <2>2, <2>3, <2>4 DEF WellFormed
  <2> QED
    BY <2>1, <2>4, <2>5
<1>2. CASE ch.kind \in {"addTransition", "updateTransition"}
  <2> DEFINE e == [t \in DOMAIN d.edges \cup {ch.code} |-> IF t = ch.code THEN ch.edge ELSE d.edges[t]]
             new == [d EXCEPT !.edges = e]
  <2>1. Changed(d, ch) = new
    BY <1>2 DEF Changed
  <2>2. ch.code \in TransitionCode /\ ch.edge \in Edge
    BY <1>2, ChangeFacts
  <2>3. e \in Edges
    BY <2>2, DefinitionFacts, EdgesFrom
  <2>4. \A t \in DOMAIN e : e[t] = ch.edge \/ (t \in DOMAIN d.edges /\ e[t] = d.edges[t])
    OBVIOUS
  <2> HIDE DEF e
  <2>5. new \in Definition /\ new.edges = e /\ new.states = d.states
        /\ new.initials = d.initials /\ new.live = d.live
    BY <2>3 DEF Definition, Edges
  <2> HIDE DEF new
  <2>6. WellFormed(new)
    BY <1>2, <2>4, <2>5 DEF WellFormed
  <2> QED
    BY <2>1, <2>5, <2>6
<1>3. CASE ch.kind \in {"updateDefinition", "publish", "deactivate"}
  <2>1. ch.kind = "updateDefinition" => ch.active \in BOOLEAN
    BY ChangeFacts
  <2>2. /\ Changed(d, ch) \in Definition
        /\ Changed(d, ch).states = d.states /\ Changed(d, ch).initials = d.initials
        /\ Changed(d, ch).live = d.live /\ Changed(d, ch).edges = d.edges
    BY <1>3, <2>1 DEF Changed, Definition
  <2> QED
    BY <2>2 DEF WellFormed
<1> QED
  BY <1>1, <1>2, <1>3, ChangeFacts

LEMMA CloneFacts ==
  ASSUME NEW d \in Definition
  PROVE  /\ Clone(d) \in Definition /\ ~Clone(d).published
         /\ WellFormed(d) => WellFormed(Clone(d))
BY DEF Clone, Definition, WellFormed

\* Seeding adds to a well-formed definition what makes it another, which is published.
LEMMA SeededFacts ==
  ASSUME NEW d \in Definition, WellFormed(d), NEW r \in Definition
  PROVE  LET new == Seeded(d, r) IN
         new \in Definition /\ WellFormed(new) /\ d.states \subseteq new.states /\ new.published
<1> DEFINE e == [t \in DOMAIN d.edges \cup SeedTransition |->
                   IF t \in DOMAIN d.edges THEN d.edges[t] ELSE SeedEdge(t)]
           i == IF SeedInitial \in r.states THEN d.initials ELSE d.initials \cup {SeedInitial}
           l == d.live \cup (SeedCode \ r.states)
           new == Seeded(d, r)
<1>1. \A t \in SeedTransition : SeedEdge(t) \in Edge /\ {SeedEdge(t).from, SeedEdge(t).to} \subseteq SeedCode
  BY SeedAssumption DEF SeedEdge, Edge
<1>2. e \in Edges
  <2>1. \A t \in DOMAIN e : e[t] \in Edge
    BY <1>1, DefinitionFacts
  <2>2. DOMAIN e \subseteq TransitionCode
    BY DefinitionFacts, SeedAssumption
  <2>3. e \in [DOMAIN e -> Edge]
    BY <2>1
  <2> HIDE DEF e
  <2> QED
    BY <2>2, <2>3, EdgesFrom
<1>3. i \subseteq d.initials \cup SeedCode /\ l \subseteq d.live \cup SeedCode
  BY SeedAssumption
<1>4. \A t \in DOMAIN e : (t \in DOMAIN d.edges /\ e[t] = d.edges[t]) \/ (t \in SeedTransition /\ e[t] = SeedEdge(t))
  OBVIOUS
<1>5. new = [d EXCEPT !.published = TRUE, !.states = @ \cup SeedCode, !.initials = i, !.live = l, !.edges = e]
  BY DEF Seeded, Definition
<1> HIDE DEF e, i, l, new
<1>6. new \in Definition /\ new.published /\ new.states = d.states \cup SeedCode
      /\ new.initials = i /\ new.live = l /\ new.edges = e
  <2>1. i \subseteq Code /\ l \subseteq Code /\ d.states \cup SeedCode \subseteq Code
    BY <1>3, DefinitionFacts, SeedAssumption
  <2> QED
    BY <1>2, <1>5, <2>1 DEF Definition, Edges
<1>7. WellFormed(new)
  BY <1>1, <1>3, <1>4, <1>6 DEF WellFormed
<1> QED
  BY <1>6, <1>7 DEF new

\* A definition that may be published is sound.
LEMMA PublishableIsSound ==
  ASSUME NEW d \in Definition, Publishable(d)
  PROVE  Sound(d)
<1>1. PICK c \in Code : d.initials \cap d.live = {c} /\ d.live \subseteq Reachable(d, c)
  BY DEF Publishable
<1>2. Cardinality(d.initials \cap d.live) = 1
  BY <1>1, FS_Singleton
<1>3. ASSUME NEW R \in SUBSET d.live, d.initials \cap R # {}, Closed(d, R)
      PROVE  R = d.live
  <2>1. c \in R /\ R \in SUBSET Code
    BY <1>1, <1>3, DefinitionFacts
  <2> QED
    BY <2>1, <1>1, <1>3 DEF Reachable
<1>4. \A t \in LiveEdges(d) : {d.edges[t].from, d.edges[t].to} \subseteq d.live
  BY DEF Publishable
<1> QED
  BY <1>2, <1>3, <1>4 DEF Sound

-----------------------------------------------------------------------------
(* Steps *)

LEMMA VersionFacts ==
  ASSUME IInv, NEW v \in DefinitionOf
  PROVE  /\ v \in 1..Len(definition) /\ v \in 1..MaxVersion
         /\ definition[v] \in Definition /\ WellFormed(definition[v])
BY BoundAssumption DEF IInv, Typed, DefinitionOf

\* A session that has loaded something, or has finished, beside definitions as they are.
LEMMA SessionStep ==
  ASSUME IInv, NEW s \in Session, NEW c \in Loaded, session' = [session EXCEPT ![s] = c],
         UNCHANGED <<definition, instance, changes, overlapped>>, Checked(c)
  PROVE  IInv'
<1>1. Typed'
  BY DEF IInv, Typed, DefinitionOf
<1>2. ASSUME NEW t \in Session PROVE Checked(session[t])'
  <2>1. session'[t] \in {c, session[t]}
    BY DEF IInv, Typed, DefinitionOf
  <2>2. Checked(session'[t])
    BY <2>1 DEF IInv
  <2> QED
    BY <2>2 DEF Checked, DefinitionOf
<1>3. PublishedIsSound' /\ InstancesFitTheirVersion'
  BY DEF IInv, PublishedIsSound, InstancesFitTheirVersion, DefinitionOf
<1> QED
  BY <1>1, <1>2, <1>3 DEF IInv

LEMMA BeginChangeKeeps ==
  ASSUME IInv, NEW s \in Session, NEW v \in Version, NEW ch \in Change, BeginChange(s, v, ch)
  PROVE  IInv'
<1> DEFINE c == [op |-> "change", version |-> v, change |-> ch, loaded |-> definition[v]]
<1>1. v \in DefinitionOf /\ Allowed(definition[v], ch) /\ v \in Nat /\ definition[v] \in Definition
  BY VersionFacts DEF BeginChange, Version
<1>2. c \in Loaded
  BY <1>1 DEF Loaded, Changing
<1>3. ch.kind \in {"addTransition", "updateTransition"} =>
        {ch.edge.from, ch.edge.to} \subseteq definition[v].states
  BY <1>1, ChangeFacts DEF Allowed, Fits
<1>4. Checked(c)
  BY <1>1, <1>3 DEF Checked
<1>5. session' = [session EXCEPT ![s] = c] /\ UNCHANGED <<definition, instance, changes, overlapped>>
  BY DEF BeginChange
<1> HIDE DEF c
<1> QED
  BY <1>2, <1>4, <1>5, SessionStep

LEMMA BeginVersionKeeps ==
  ASSUME IInv, NEW s \in Session, BeginVersion(s)
  PROVE  IInv'
<1>1. PICK new \in {Blank} \cup {Clone(definition[v]) : v \in DefinitionOf} :
        session' = [session EXCEPT ![s] = [op |-> "version", version |-> Len(definition) + 1, new |-> new]]
  BY DEF BeginVersion
<1> DEFINE c == [op |-> "version", version |-> Len(definition) + 1, new |-> new]
<1>2. new \in Definition /\ WellFormed(new) /\ ~new.published
  <2>1. CASE new = Blank
    BY <2>1, BlankFacts DEF Blank
  <2>2. ASSUME NEW v \in DefinitionOf, new = Clone(definition[v])
        PROVE  new \in Definition /\ WellFormed(new) /\ ~new.published
    BY <2>2, VersionFacts, CloneFacts
  <2> QED
    BY <1>1, <2>1, <2>2
<1>3. Len(definition) + 1 \in Nat
  BY DEF IInv, Typed, DefinitionOf
<1>4. c \in Loaded /\ Checked(c)
  BY <1>2, <1>3 DEF Loaded, Versioning, Checked
<1>5. session' = [session EXCEPT ![s] = c] /\ UNCHANGED <<definition, instance, changes, overlapped>>
  BY <1>1 DEF BeginVersion
<1> HIDE DEF c
<1> QED
  BY <1>4, <1>5, SessionStep

LEMMA DraftFacts ==
  ASSUME IInv
  PROVE  Draft \in Definition /\ WellFormed(Draft)
<1>1. definition # <<>> => 1 \in DefinitionOf
  BY DEF IInv, Typed, DefinitionOf
<1> QED
  BY <1>1, BlankFacts, VersionFacts DEF Draft

LEMMA BeginSeedKeeps ==
  ASSUME IInv, NEW s \in Session, BeginSeed(s)
  PROVE  IInv'
<1> DEFINE c == [op |-> "seed", loaded |-> Draft, new |-> definition = <<>>]
<1>1. Draft \in Definition /\ Seedable(Draft) /\ (definition = <<>>) \in BOOLEAN
  BY DraftFacts DEF BeginSeed
<1>2. session' = [session EXCEPT ![s] = c] /\ UNCHANGED <<definition, instance, changes, overlapped>>
  BY DEF BeginSeed
<1>3. c \in Loaded /\ Checked(c)
  BY <1>1 DEF Loaded, Seeding, Checked
<1> HIDE DEF c
<1> QED
  BY <1>2, <1>3, SessionStep

LEMMA AbortKeeps ==
  ASSUME IInv, NEW s \in Session, Abort(s)
  PROVE  IInv'
<1>1. Idle \in Loaded /\ Checked(Idle)
  BY DEF Loaded, Checked, Idle
<1> QED
  BY <1>1, SessionStep DEF Abort, Finish

\* A commit that puts d at version v, an old version or the next, and ends a session: it
\* takes no state away from the definition.
LEMMA CommitKeepsTypes ==
  ASSUME IInv, NEW s \in Session, NEW v \in 1..MaxVersion, NEW d \in Definition, WellFormed(d),
         \/ /\ v \in DefinitionOf /\ definition' = [definition EXCEPT ![v] = d]
            /\ definition[v].states \subseteq d.states
         \/ v = Len(definition) + 1 /\ definition' = Append(definition, d),
         changes < MaxChange, changes' = changes + 1, overlapped' \in BOOLEAN,
         instance' \in [Version -> [Entity -> Code \cup {NoInstance}]], Finish(s)
  PROVE  /\ Typed' /\ DefinitionOf \subseteq DefinitionOf' /\ v \in DefinitionOf'
         /\ \A w \in DefinitionOf' : definition'[w] = IF w = v THEN d ELSE definition[w]
         /\ DefinitionOf' \ {v} \subseteq DefinitionOf
         /\ \A t \in Session : Checked(session[t])'
<1>1. /\ definition \in Seq(Definition) /\ Len(definition) <= MaxVersion /\ Len(definition) \in Nat
      /\ changes \in 0..MaxChange /\ session \in [Session -> Loaded]
      /\ DefinitionOf = 1..Len(definition)
  BY DEF IInv, Typed, DefinitionOf
<1>2. /\ definition' \in Seq(Definition) /\ Len(definition') <= MaxVersion
      /\ DefinitionOf \subseteq DefinitionOf' /\ v \in DefinitionOf'
      /\ \A w \in DefinitionOf' : definition'[w] = IF w = v THEN d ELSE definition[w]
      /\ DefinitionOf' \ {v} \subseteq DefinitionOf
  <2>1. CASE v \in DefinitionOf /\ definition' = [definition EXCEPT ![v] = d]
    <3>1. /\ definition' \in Seq(Definition) /\ Len(definition') = Len(definition)
          /\ \A w \in 1..Len(definition) : definition'[w] = IF w = v THEN d ELSE definition[w]
      BY <1>1, <2>1, ExceptSeq
    <3>2. DefinitionOf' = DefinitionOf
      BY <1>1, <3>1 DEF DefinitionOf
    <3> QED
      BY <1>1, <2>1, <3>1, <3>2
  <2>2. CASE v = Len(definition) + 1 /\ definition' = Append(definition, d)
    BY <1>1, <2>2 DEF DefinitionOf
  <2> QED
    BY <2>1, <2>2
<1>3. \A w \in DefinitionOf' : WellFormed(definition'[w])
  BY <1>2, VersionFacts
<1>4. session' = [session EXCEPT ![s] = Idle] /\ session' \in [Session -> Loaded]
  BY <1>1 DEF Finish, Loaded
<1>5. Typed'
  BY <1>1, <1>2, <1>3, <1>4, BoundAssumption DEF Typed
<1>6. ASSUME NEW t \in Session PROVE Checked(session[t])'
  <2> DEFINE c == session[t]
  <2>1. CASE t = s
    BY <2>1, <1>1, <1>4 DEF Checked, Idle
  <2>2. CASE t # s
    <3>1. session'[t] = c /\ Checked(c)
      BY <2>2, <1>1, <1>4 DEF IInv
    <3>2. \A w \in DefinitionOf : definition[w].states \subseteq definition'[w].states
      BY <1>1, <1>2
    <3> HIDE DEF c
    <3> QED
      BY <1>2, <3>1, <3>2 DEF Checked
  <2> QED
    BY <2>1, <2>2
<1> QED
  BY <1>2, <1>5, <1>6

(* What PublishedIsImmutable says of a step. *)
KeepsPublished ==
  ~overlapped' =>
     \A v \in DefinitionOf :
       definition[v].published =>
         /\ v \in DOMAIN definition'
         /\ \A f \in {"published", "states", "initials", "live", "edges"} :
              definition'[v][f] = definition[v][f]

\* A commit that, unless it overlaps, puts a sound definition where it puts a published one,
\* and leaves one that has been published as it was; it may put an instance on its version.
LEMMA CommitKeeps ==
  ASSUME IInv, NEW s \in Session, NEW v \in 1..MaxVersion, NEW d \in Definition, WellFormed(d),
         \/ /\ v \in DefinitionOf /\ definition' = [definition EXCEPT ![v] = d]
            /\ definition[v].states \subseteq d.states
         \/ v = Len(definition) + 1 /\ definition' = Append(definition, d),
         changes < MaxChange, changes' = changes + 1, overlapped' \in BOOLEAN, Finish(s),
         ~overlapped' => ~overlapped,
         ~overlapped' /\ d.published => Sound(d),
         ~overlapped' /\ v \in DefinitionOf /\ definition[v].published =>
           /\ d.published /\ d.states = definition[v].states /\ d.initials = definition[v].initials
           /\ d.live = definition[v].live /\ d.edges = definition[v].edges,
         \/ UNCHANGED instance
         \/ d.published /\ \E e \in Entity, x \in d.live : instance' = [instance EXCEPT ![v][e] = x]
  PROVE  IInv' /\ KeepsPublished
<1>1. instance \in [Version -> [Entity -> Code \cup {NoInstance}]] /\ v \in Version /\ d.live \subseteq Code
  BY DefinitionFacts DEF IInv, Typed, Version
<1>2. /\ instance' \in [Version -> [Entity -> Code \cup {NoInstance}]]
      /\ \A w \in Version, e \in Entity :
           instance'[w][e] = instance[w][e] \/ (w = v /\ d.published /\ instance'[w][e] \in d.live)
  <2>1. CASE UNCHANGED instance
    BY <1>1, <2>1
  <2>2. ASSUME d.published, NEW e \in Entity, NEW x \in d.live, instance' = [instance EXCEPT ![v][e] = x]
        PROVE  /\ instance' \in [Version -> [Entity -> Code \cup {NoInstance}]]
               /\ \A w \in Version, k \in Entity :
                    instance'[w][k] = instance[w][k] \/ (w = v /\ d.published /\ instance'[w][k] \in d.live)
    BY <1>1, <2>2
  <2> QED
    BY <2>1, <2>2
<1>3. /\ Typed' /\ DefinitionOf \subseteq DefinitionOf' /\ v \in DefinitionOf'
      /\ \A w \in DefinitionOf' : definition'[w] = IF w = v THEN d ELSE definition[w]
      /\ DefinitionOf' \ {v} \subseteq DefinitionOf
      /\ \A t \in Session : Checked(session[t])'
  BY <1>2, CommitKeepsTypes
<1>4. PublishedIsSound'
  <2> SUFFICES ASSUME ~overlapped', NEW w \in DefinitionOf', definition'[w].published
               PROVE  Sound(definition'[w])
    BY DEF PublishedIsSound, Sound, LiveEdges, Closed
  <2>1. CASE w = v
    BY <1>3, <2>1
  <2>2. CASE w # v
    BY <1>3, <2>2 DEF IInv, PublishedIsSound
  <2> QED
    BY <2>1, <2>2
<1>5. InstancesFitTheirVersion'
  <2> SUFFICES ASSUME ~overlapped', NEW w \in Version, NEW e \in Entity, instance'[w][e] # NoInstance
               PROVE  /\ w \in DefinitionOf' /\ definition'[w].published
                      /\ instance'[w][e] \in definition'[w].live
    BY DEF InstancesFitTheirVersion
  <2>1. CASE instance'[w][e] = instance[w][e]
    <3>1. w \in DefinitionOf /\ definition[w].published /\ instance[w][e] \in definition[w].live
      BY <2>1 DEF IInv, InstancesFitTheirVersion
    <3> QED
      BY <1>3, <2>1, <3>1
  <2>2. CASE w = v /\ d.published /\ instance'[w][e] \in d.live
    BY <1>3, <2>2
  <2> QED
    BY <1>2, <2>1, <2>2
<1>6. KeepsPublished
  <2> SUFFICES ASSUME ~overlapped', NEW w \in DefinitionOf, definition[w].published
               PROVE  /\ w \in DOMAIN definition'
                      /\ \A f \in {"published", "states", "initials", "live", "edges"} :
                           definition'[w][f] = definition[w][f]
    BY DEF KeepsPublished
  <2>1. w \in DefinitionOf'
    BY <1>3
  <2>2. CASE w = v
    <3>1. definition'[w] = d
      BY <1>3, <2>1, <2>2
    <3>2. d.published = TRUE /\ definition[w].published = TRUE
      BY <2>2, DefinitionFacts, VersionFacts
    <3> QED
      BY <2>1, <2>2, <3>1, <3>2 DEF DefinitionOf
  <2>3. CASE w # v
    BY <1>3, <2>1, <2>3 DEF DefinitionOf
  <2> QED
    BY <2>2, <2>3
<1> QED
  BY <1>3, <1>4, <1>5, <1>6 DEF IInv

LEMMA SoundnessIsOfRows ==
  ASSUME NEW d, NEW e, e.initials = d.initials, e.live = d.live, e.edges = d.edges, Sound(d)
  PROVE  Sound(e)
<1>1. LiveEdges(e) = LiveEdges(d) /\ \A R : Closed(e, R) <=> Closed(d, R)
  BY DEF LiveEdges, Closed
<1> QED
  BY <1>1 DEF Sound

\* What is published by a change, and what a change of a published definition leaves.
LEMMA ChangesOfFlags ==
  ASSUME NEW d \in Definition, NEW ch \in Change
  PROVE  LET new == Changed(d, ch) IN
         /\ new.published = (d.published \/ ch.kind = "publish")
         /\ ch.kind \in {"publish", "deactivate"} =>
              /\ new.states = d.states /\ new.initials = d.initials
              /\ new.live = d.live /\ new.edges = d.edges
<1>1. CASE ch.kind \in {"addState", "updateState"}
  BY <1>1 DEF Changed, Definition
<1>2. CASE ch.kind \in {"addTransition", "updateTransition"}
  BY <1>2 DEF Changed, Definition
<1>3. CASE ch.kind \in {"updateDefinition", "publish", "deactivate"}
  BY <1>3 DEF Changed, Definition
<1> QED
  BY <1>1, <1>2, <1>3, ChangeFacts

LEMMA CommitChangeKeeps ==
  ASSUME IInv, NEW s \in Session, CommitChange(s)
  PROVE  IInv' /\ KeepsPublished
<1> DEFINE c == session[s]
           v == c.version
           ch == c.change
           new == Changed(definition[v], ch)
<1>1. c \in Changing /\ Checked(c)
  BY DEF IInv, Typed, CommitChange, Loaded, Versioning, Seeding, Idle
<1>2. ch \in Change /\ c.loaded \in Definition /\ c.op = "change"
  BY <1>1 DEF Changing
<1>3. /\ v \in DefinitionOf /\ Allowed(c.loaded, ch)
      /\ ch.kind \in {"addTransition", "updateTransition"} =>
           {ch.edge.from, ch.edge.to} \subseteq definition[v].states
  BY <1>1, <1>2 DEF Checked
<1>4. v \in 1..MaxVersion /\ definition[v] \in Definition /\ WellFormed(definition[v])
  BY <1>3, VersionFacts
<1>5. new \in Definition /\ WellFormed(new) /\ definition[v].states \subseteq new.states
  BY <1>2, <1>3, <1>4, ChangedFacts
<1>6. /\ definition' = [definition EXCEPT ![v] = new]
      /\ overlapped' = (overlapped \/ definition[v] # c.loaded)
      /\ changes < MaxChange /\ changes' = changes + 1 /\ Finish(s) /\ UNCHANGED instance
  BY DEF CommitChange
<1>7. overlapped' \in BOOLEAN /\ (~overlapped' => ~overlapped /\ definition[v] = c.loaded)
  BY <1>6 DEF IInv, Typed
<1> DEFINE d == definition[v]
<1>8. ~overlapped' => Allowed(d, ch)
  BY <1>3, <1>7
<1>9. /\ new.published = (d.published \/ ch.kind = "publish")
      /\ ch.kind \in {"publish", "deactivate"} =>
           /\ new.states = d.states /\ new.initials = d.initials
           /\ new.live = d.live /\ new.edges = d.edges
  BY <1>2, <1>4, ChangesOfFlags
<1>10. d.published /\ ~overlapped' => Sound(d)
  BY <1>3, <1>7 DEF IInv, PublishedIsSound
<1> HIDE DEF new, d, ch, v, c
<1>11. ASSUME ~overlapped', d.published
       PROVE  /\ new.published /\ new.states = d.states /\ new.initials = d.initials
              /\ new.live = d.live /\ new.edges = d.edges
  <2>1. ch.kind = "deactivate"
    BY <1>8, <1>11 DEF Allowed
  <2> QED
    BY <1>9, <1>11, <2>1
<1>12. ASSUME ~overlapped', new.published PROVE Sound(new)
  <2>1. CASE d.published
    BY <1>10, <1>11, <1>12, <2>1, SoundnessIsOfRows
  <2>2. CASE ~d.published
    <3>1. ch.kind = "publish"
      BY <1>9, <1>12, <2>2
    <3>2. Publishable(d)
      BY <1>8, <1>12, <3>1 DEF Allowed, Fits
    <3>3. Sound(d)
      BY <1>4, <3>2, PublishableIsSound DEF d
    <3> QED
      BY <1>9, <3>1, <3>3, SoundnessIsOfRows
  <2> QED
    BY <2>1, <2>2
<1> USE DEF d
<1> QED
  BY <1>3, <1>4, <1>5, <1>6, <1>7, <1>11, <1>12, CommitKeeps

LEMMA CommitVersionKeeps ==
  ASSUME IInv, NEW s \in Session, CommitVersion(s)
  PROVE  IInv' /\ KeepsPublished
<1> DEFINE c == session[s]
           d == c.new
           v == Len(definition) + 1
<1>1. c \in Versioning /\ Checked(c) /\ c.op = "version"
  BY DEF IInv, Typed, CommitVersion, Loaded, Changing, Seeding, Idle
<1>2. d \in Definition /\ WellFormed(d) /\ ~d.published
  BY <1>1 DEF Versioning, Checked
<1>3. /\ definition' = Append(definition, d) /\ c.version = v /\ c.version <= MaxVersion
      /\ changes < MaxChange /\ changes' = changes + 1 /\ Finish(s)
      /\ UNCHANGED <<instance, overlapped>>
  BY DEF CommitVersion
<1>4. v \in 1..MaxVersion /\ v \notin DefinitionOf /\ overlapped \in BOOLEAN
  BY <1>3, BoundAssumption DEF IInv, Typed, DefinitionOf
<1> HIDE DEF c, d, v
<1>5. definition' = Append(definition, d) /\ v = Len(definition) + 1
  BY <1>3 DEF v
<1> QED
  BY <1>2, <1>3, <1>4, <1>5, CommitKeeps

LEMMA CommitSeedKeeps ==
  ASSUME IInv, NEW s \in Session, CommitSeed(s)
  PROVE  IInv' /\ KeepsPublished
<1> DEFINE c == session[s]
           d == Seeded(Draft, c.loaded)
<1>1. c \in Seeding /\ Checked(c) /\ c.op = "seed"
  BY DEF IInv, Typed, CommitSeed, Loaded, Changing, Versioning, Idle
<1>2. c.loaded \in Definition /\ Seedable(c.loaded) /\ Draft \in Definition /\ WellFormed(Draft)
  BY <1>1, DraftFacts DEF Seeding, Checked
<1>3. d \in Definition /\ WellFormed(d) /\ Draft.states \subseteq d.states /\ d.published
  BY <1>2, SeededFacts
<1>4. /\ changes < MaxChange /\ changes' = changes + 1 /\ Finish(s) /\ MaxVersion > 0
      /\ c.new = (definition = <<>>)
      /\ definition' = IF c.new THEN <<d>> ELSE [definition EXCEPT ![1] = d]
      /\ overlapped' = (overlapped \/ Draft # c.loaded)
      /\ \/ UNCHANGED instance
         \/ \E e \in Entity, x \in d.live : instance' = [instance EXCEPT ![1][e] = x]
  BY DEF CommitSeed
<1>5. overlapped' \in BOOLEAN /\ (~overlapped' => ~overlapped /\ Draft = c.loaded)
  BY <1>4 DEF IInv, Typed
<1>6. 1 \in 1..MaxVersion
  BY <1>4, BoundAssumption
<1>7. ~overlapped' => Sound(d)
  <2>1. ~overlapped' => Publishable(d)
    BY <1>2, <1>5 DEF Seedable
  <2> QED
    BY <2>1, <1>3, PublishableIsSound
<1>8. ~overlapped' => ~Draft.published
  BY <1>2, <1>5 DEF Seedable
<1>9. \/ 1 \in DefinitionOf /\ definition' = [definition EXCEPT ![1] = d] /\ Draft = definition[1]
      \/ 1 = Len(definition) + 1 /\ definition' = Append(definition, d) /\ 1 \notin DefinitionOf
  <2> HIDE DEF d
  <2>1. CASE definition = <<>>
    <3>1. definition' = <<d>>
      BY <1>4, <2>1
    <3> QED
      BY <2>1, <3>1 DEF DefinitionOf
  <2>2. CASE definition # <<>>
    <3>1. 1 \in DefinitionOf
      BY <2>2 DEF IInv, Typed, DefinitionOf
    <3> QED
      BY <1>4, <2>2, <3>1 DEF Draft
  <2> QED
    BY <2>1, <2>2
<1> HIDE DEF c, d
<1> QED
  BY <1>3, <1>4, <1>5, <1>6, <1>7, <1>8, <1>9, CommitKeeps

-----------------------------------------------------------------------------
(* Instances *)

\* An instance that moves to an active state of its published version.
LEMMA InstanceKeeps ==
  ASSUME IInv, NEW v \in Version, NEW e \in Entity, NEW x \in Code,
         ~overlapped => v \in DefinitionOf /\ definition[v].published /\ x \in definition[v].live,
         instance' = [instance EXCEPT ![v][e] = x],
         UNCHANGED <<definition, session, changes, overlapped>>
  PROVE  IInv'
<1>1. instance \in [Version -> [Entity -> Code \cup {NoInstance}]]
  BY DEF IInv, Typed
<1>2. /\ instance' \in [Version -> [Entity -> Code \cup {NoInstance}]]
      /\ \A w \in Version, k \in Entity :
           instance'[w][k] = IF w = v /\ k = e THEN x ELSE instance[w][k]
  BY <1>1
<1>3. Typed'
  BY <1>2 DEF IInv, Typed, DefinitionOf
<1>4. \A t \in Session : Checked(session[t])'
  BY DEF IInv, Checked, DefinitionOf
<1>5. PublishedIsSound'
  BY DEF IInv, PublishedIsSound, DefinitionOf
<1>6. InstancesFitTheirVersion'
  <2> SUFFICES ASSUME ~overlapped', NEW w \in Version, NEW k \in Entity, instance'[w][k] # NoInstance
               PROVE  /\ w \in DefinitionOf' /\ definition'[w].published
                      /\ instance'[w][k] \in definition'[w].live
    BY DEF InstancesFitTheirVersion
  <2> QED
    BY <1>2 DEF IInv, InstancesFitTheirVersion, DefinitionOf
<1> QED
  BY <1>3, <1>4, <1>5, <1>6 DEF IInv

LEMMA InstancesKeep ==
  ASSUME IInv, NEW e \in Entity,
         \/ StartWorkflow(e) \/ EnsureInstance(e) \/ Synchronize(e)
         \/ \E v \in Version : Execute(v, e)
  PROVE  IInv'
<1>1. CASE StartWorkflow(e)
  <2>1. PICK v \in Version, c \in Code :
          /\ Latest(v) /\ c \in definition[v].live /\ instance' = [instance EXCEPT ![v][e] = c]
          /\ UNCHANGED <<definition, session, changes, overlapped>>
    BY <1>1, VersionFacts, DefinitionFacts DEF StartWorkflow, Latest
  <2> QED
    BY <2>1, InstanceKeeps DEF Latest
<1>2. CASE EnsureInstance(e) \/ Synchronize(e)
  <2>1. /\ definition # <<>> /\ definition[1].published
        /\ \E c \in definition[1].live : instance' = [instance EXCEPT ![1][e] = c]
        /\ UNCHANGED <<definition, session, changes, overlapped>>
    BY <1>2 DEF EnsureInstance, Synchronize
  <2>2. 1 \in DefinitionOf
    BY <2>1 DEF IInv, Typed, DefinitionOf
  <2>3. 1 \in Version /\ definition[1].live \subseteq Code
    BY <2>2, VersionFacts, DefinitionFacts DEF Version
  <2> QED
    BY <2>1, <2>2, <2>3, InstanceKeeps
<1>3. ASSUME NEW v \in Version, Execute(v, e) PROVE IInv'
  <2>1. PICK t \in LiveEdges(definition[v]) :
          /\ v \in DefinitionOf /\ instance[v][e] = definition[v].edges[t].from
          /\ instance' = [instance EXCEPT ![v][e] = definition[v].edges[t].to]
          /\ UNCHANGED <<definition, session, changes, overlapped>>
    BY <1>3 DEF Execute
  <2>2. definition[v] \in Definition /\ t \in DOMAIN definition[v].edges
    BY <2>1, VersionFacts DEF LiveEdges
  <2>3. definition[v].edges[t].to \in Code /\ definition[v].edges[t].from \in Code
    BY <2>2, DefinitionFacts DEF Edge
  <2>4. ASSUME ~overlapped
        PROVE  definition[v].published /\ definition[v].edges[t].to \in definition[v].live
    <3>1. definition[v].published
      BY <2>1, <2>3, <2>4, CodeAssumption DEF IInv, InstancesFitTheirVersion
    <3>2. Sound(definition[v])
      BY <2>1, <2>4, <3>1 DEF IInv, PublishedIsSound
    <3> QED
      BY <2>1, <3>1, <3>2 DEF Sound
  <2> QED
    BY <2>1, <2>3, <2>4, InstanceKeeps
<1> QED
  BY <1>1, <1>2, <1>3

-----------------------------------------------------------------------------
(* Theorems *)

LEMMA InitHolds == Init => IInv
<1> SUFFICES ASSUME Init PROVE IInv
  OBVIOUS
<1>1. definition \in Seq(Definition) /\ Len(definition) = 0 /\ DefinitionOf = {}
  BY DEF Init, DefinitionOf
<1>2. session \in [Session -> Loaded] /\ \A s \in Session : session[s] = Idle
  BY DEF Init, Loaded
<1>3. instance = [v \in Version |-> [e \in Entity |-> NoInstance]]
  BY DEF Init
<1>4. Typed
  <2>1. instance \in [Version -> [Entity -> Code \cup {NoInstance}]]
    BY <1>3
  <2>2. \A v \in DefinitionOf : WellFormed(definition[v])
    BY <1>1
  <2>3. Len(definition) <= MaxVersion
    BY <1>1, BoundAssumption
  <2>4. changes = 0 /\ overlapped \in BOOLEAN
    BY DEF Init
  <2>5. changes \in 0..MaxChange
    BY <2>4, BoundAssumption
  <2> QED
    BY <1>1, <1>2, <2>1, <2>2, <2>3, <2>4, <2>5 DEF Typed
<1>5. \A s \in Session : Checked(session[s])
  BY <1>2 DEF Checked, Idle
<1>6. PublishedIsSound /\ InstancesFitTheirVersion
  BY <1>1, <1>3 DEF PublishedIsSound, InstancesFitTheirVersion
<1> QED
  BY <1>4, <1>5, <1>6 DEF IInv

\* A step that changes no definition keeps what is published.
LEMMA SameIsKept ==
  ASSUME UNCHANGED definition
  PROVE  KeepsPublished
BY DEF KeepsPublished, DefinitionOf

LEMMA NextKeeps ==
  ASSUME IInv, [Next]_vars
  PROVE  IInv' /\ KeepsPublished
<1>1. ASSUME NEW s \in Session, CommitChange(s) \/ CommitVersion(s) \/ CommitSeed(s)
      PROVE  IInv' /\ KeepsPublished
  BY <1>1, CommitChangeKeeps, CommitVersionKeeps, CommitSeedKeeps
<1>2. ASSUME NEW s \in Session,
             \/ BeginVersion(s) \/ BeginSeed(s) \/ Abort(s)
             \/ \E v \in Version, ch \in Change : BeginChange(s, v, ch)
      PROVE  IInv' /\ KeepsPublished
  <2>1. UNCHANGED definition
    BY <1>2 DEF BeginVersion, BeginSeed, Abort, BeginChange
  <2> QED
    BY <1>2, <2>1, SameIsKept, BeginVersionKeeps, BeginSeedKeeps, AbortKeeps, BeginChangeKeeps
<1>3. ASSUME NEW e \in Entity,
             \/ StartWorkflow(e) \/ EnsureInstance(e) \/ Synchronize(e)
             \/ \E v \in Version : Execute(v, e)
      PROVE  IInv' /\ KeepsPublished
  <2>1. UNCHANGED definition
    BY <1>3 DEF StartWorkflow, EnsureInstance, Synchronize, Execute
  <2> QED
    BY <1>3, <2>1, SameIsKept, InstancesKeep
<1>4. ASSUME UNCHANGED vars PROVE IInv' /\ KeepsPublished
  <2>1. UNCHANGED <<definition, instance, session, changes, overlapped>>
    BY <1>4 DEF vars
  <2>2. IInv'
    BY <2>1 DEF IInv, Typed, Checked, PublishedIsSound, InstancesFitTheirVersion, DefinitionOf
  <2> QED
    BY <2>1, <2>2, SameIsKept
<1> QED
  BY <1>1, <1>2, <1>3, <1>4 DEF Next

(* The inductive invariant holds in every state. *)
THEOREM Invariance == Spec => []IInv
<1>1. IInv /\ [Next]_vars => IInv'
  BY NextKeeps
<1> QED
  BY <1>1, InitHolds, PTL DEF Spec

(* Definitions keep the types of their rows: what is initial or active is a state of the  *)
(* definition, and transitions end in its states, however sessions overlap.               *)
THEOREM TypeCorrect == Spec => []TypeOK
<1>1. IInv => TypeOK
  <2> SUFFICES ASSUME IInv PROVE TypeOK
    OBVIOUS
  <2>1. Typed
    BY DEF IInv
  <2> QED
    BY <2>1 DEF Typed, TypeOK, WellFormed
<1> QED
  BY <1>1, Invariance, PTL

(* Unless two changes overlapped, what is published is sound: one initial state, active   *)
(* transitions between active states, all of which it reaches.                            *)
THEOREM PublishedStaysSound == Spec => []PublishedIsSound
<1>1. IInv => PublishedIsSound
  BY DEF IInv
<1> QED
  BY <1>1, Invariance, PTL

(* Unless two changes overlapped, every instance is in an active state of a published version. *)
THEOREM InstancesAlwaysFit == Spec => []InstancesFitTheirVersion
<1>1. IInv => InstancesFitTheirVersion
  BY DEF IInv
<1> QED
  BY <1>1, Invariance, PTL

(* Unless two changes overlapped, no step changes the states and transitions of a         *)
(* published version.                                                                     *)
THEOREM PublishedStaysAsItIs == Spec => PublishedIsImmutable
<1>1. IInv /\ [Next]_vars => [KeepsPublished]_vars
  BY NextKeeps
<1>2. [][KeepsPublished]_vars => PublishedIsImmutable
  BY PTL DEF KeepsPublished, PublishedIsImmutable
<1> QED
  BY <1>1, <1>2, Invariance, PTL DEF Spec
===============================================================================
