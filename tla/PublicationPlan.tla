---------------------------- MODULE PublicationPlan ----------------------------
(***************************************************************************)
(* What a publication contains: src/src/publication_selector.cpp,          *)
(* src/src/node_id.cpp and the inventory, plan and snapshot functions of   *)
(* src/src/object_model.cpp.                                               *)
(*                                                                         *)
(* A publication discovers the resources of a component, resolves the      *)
(* selectors to an effective set, maps each resource of the set to its     *)
(* bundle of nodes, and creates the nodes, parents first.  Discovery and   *)
(* mapping look every resource up in the component, which may have changed *)
(* in between; a change in the middle of the discovery is left out.        *)
(* Failures of the server while nodes are created, rollback and commit are *)
(* the subject of module ObjectModel.                                      *)
(*                                                                         *)
(* A path is the sequence of its escaped segments; the selectors are split *)
(* into segments already.  Escaping is one to one except that the empty    *)
(* name is written like the name of a single NUL character.                *)
(***************************************************************************)
EXTENDS Naturals, Sequences, FiniteSets, SequencesExt

CONSTANTS
  Services,              \* the services of the component
  Root,                  \* the one of the component itself
  Entries,               \* what a service may list, see IsEntry
  Provided,              \* entries each service may list, by service
  Initial,               \* the interfaces a component may begin with
  Mandatory,             \* names of the mandatory proxy operations
  MaximumServiceDepth,   \* kMaximumServiceDepth
  Selectors,             \* selectors a caller may use
  NotCanonical,          \* segments that are no literal and no wildcard
  MaxSelectors,          \* bound: selectors of one call
  MaxChanges             \* bound: changes of the component

NoName == ""   \* the empty name, or an empty segment
Kinds == {"operations", "properties", "attributes", "ports", "services"}

\* kind and name; listed: how often its service lists the name; found: looking
\* the name up returns something; the service it leads to, for a service;
\* supported: the type has a codec and, for a mandatory operation, the schema is
\* the expected one; meta: the metadata and value nodes below its node.  A name
\* other than the two that are written %00 is given in its written form, which has
\* no wildcard.
IsEntry(e) ==
  /\ e.kind \in Kinds /\ e.name \notin {"*", "**", "%00"}
  /\ e.listed \in Nat \ {0} /\ e.found \in BOOLEAN
  /\ e.child \in Services /\ e.supported \in BOOLEAN
  /\ e.kind = "services" => e.meta = {}

SameName(e, f) == e.kind = f.kind /\ e.name = f.name

ASSUME PublicationPlanAssumption ==
  /\ Root \in Services
  /\ Mandatory # {} /\ Mandatory \cap {NoName, "NUL", "%00"} = {}
  /\ \A e \in Entries : IsEntry(e)
  /\ Provided \in [Services -> SUBSET Entries]
  /\ \A i \in Initial :
       /\ i \in [Services -> SUBSET Entries]
       /\ \A s \in Services : /\ i[s] \subseteq Provided[s]
                             /\ \A e, f \in i[s] : SameName(e, f) => e = f
  /\ \A s \in Selectors : s \in Seq(STRING)
  /\ NotCanonical \cap {"*", "**"} = {}
  /\ MaximumServiceDepth \in Nat /\ MaxSelectors \in Nat /\ MaxChanges \in Nat

VARIABLES
  iface,        \* what each service of the component lists now
  changes,      \* changes so far (bounded by MaxChanges)
  vanished,     \* history: records whose resource was removed since discovery
  phase,        \* idle, mapping, creating, published, rejected, failed
  mode,         \* full or selected
  selectors,    \* of the call
  inventory,    \* the resource records discovered
  effective,    \* effective_resources
  todo,         \* paths of the set that are still to be mapped
  diagnostics,  \* kind and subject of each diagnostic
  nodes,        \* paths of the snapshot's nodes
  space         \* paths of the nodes created in the address space

componentVars == <<iface, changes, vanished>>
planVars == <<mode, selectors, inventory, effective>>
vars == <<componentVars, phase, planVars, todo, diagnostics, nodes, space>>

Init ==
  /\ iface \in Initial
  /\ changes = 0 /\ vanished = {} /\ phase = "idle" /\ mode = "full" /\ selectors = {}
  /\ inventory = {} /\ effective = {} /\ todo = {} /\ diagnostics = {}
  /\ nodes = {} /\ space = {}

\* A change matters until the last resource is mapped; the model stops there.
MayChange == changes < MaxChanges /\ phase \in {"idle", "mapping"}

NoteRemoved(s, gone) ==
  vanished' = vanished \cup {r \in inventory : r.service = s /\ r.entry \in gone}

\* The application adds a resource, or replaces the one of that name ...
AddResource(s, e) ==
  /\ MayChange /\ changes' = changes + 1 /\ e \notin iface[s]
  /\ LET replaced == {f \in iface[s] : SameName(e, f)}
     IN  /\ iface' = [iface EXCEPT ![s] = (@ \ replaced) \cup {e}]
         /\ NoteRemoved(s, replaced)
  /\ UNCHANGED <<phase, planVars, todo, diagnostics, nodes, space>>

\* ... or removes one.
RemoveResource(s, e) ==
  /\ MayChange /\ changes' = changes + 1 /\ e \in iface[s]
  /\ iface' = [iface EXCEPT ![s] = @ \ {e}]
  /\ NoteRemoved(s, {e})
  /\ UNCHANGED <<phase, planVars, todo, diagnostics, nodes, space>>

-----------------------------------------------------------------------------
(* discoverComponent(), discoverService()                                  *)

\* escapeNodeIdSegment()
Escape(name) == IF name \in {NoName, "NUL"} THEN "%00" ELSE name

\* resourcePath()
ResourcePath(owner, e) == owner \o <<e.kind, Escape(e.name)>>

\* The provider "this" is the service itself and is skipped.
Listing(s) == {e \in iface[s] : e.kind = "services" => e.name # "this"}

Descends(visit, e) ==
  e.kind = "services" /\ e.found /\ e.child \notin visit.ancestry

\* The calls of discoverService() at each depth; times: how often it is called,
\* once for each time the services on the way are listed.
Visits[depth \in 0..MaximumServiceDepth] ==
  IF depth = 0
    THEN {[owner |-> <<>>, service |-> Root, ancestry |-> {Root}, times |-> 1]}
    ELSE UNION {{[owner |-> ResourcePath(v.owner, e), service |-> e.child,
                  ancestry |-> v.ancestry \cup {e.child},
                  times |-> v.times * e.listed] :
                   e \in {f \in Listing(v.service) : Descends(v, f)}} :
                  v \in Visits[depth - 1]}

\* discovery_error: the name is listed and cannot be looked up, a cycle in the
\* service graph, or too deep.
DiscoveryError(visit, e, depth) ==
  \/ ~e.found
  \/ e.kind = "services" /\ (~Descends(visit, e) \/ depth >= MaximumServiceDepth)

\* times: how often addInventoryRecord() is called for it.
Records ==
  UNION {UNION {{[path |-> ResourcePath(v.owner, e), owner |-> v.owner,
                  service |-> v.service, entry |-> e, times |-> v.times * e.listed,
                  error |-> DiscoveryError(v, e, depth)] : e \in Listing(v.service)} :
                v \in Visits[depth]} :
         depth \in 0..MaximumServiceDepth}

\* Added under a path that was taken: another resource of the same path, or the
\* same one again.
Ambiguous(r, records) == r.times > 1 \/ \E q \in records \ {r} : q.path = r.path

\* Mutant: a second resource of a path is dropped without a word.
KeepFirst(records) == {}

\* addInventoryRecord(): the paths that were taken when a record was added.
Duplicates(records) == {r.path : r \in {q \in records : Ambiguous(q, records)}}

-----------------------------------------------------------------------------
(* matchPublicationSelectors()                                             *)

\* parseSelector()
Malformed(selector) ==
  \/ selector = <<>>
  \/ \E i \in DOMAIN selector :
       \/ selector[i] \in NotCanonical \cup {NoName}
       \/ selector[i] = "**" /\ i # Len(selector)

\* Mutant: a recursive wildcard matches a resource of any length.
MatchesAnyLength(selector, path) ==
  LET fixed == IF Last(selector) = "**" THEN Len(selector) - 1 ELSE Len(selector)
  IN  /\ Len(path) >= fixed
      /\ \A i \in 1..fixed : selector[i] \in {"*", path[i]}

Matches(selector, path) ==
  LET recursive == Last(selector) = "**"
      fixed == IF recursive THEN Len(selector) - 1 ELSE Len(selector)
  IN  /\ IF recursive THEN Len(path) >= fixed ELSE Len(path) = fixed
      /\ \A i \in 1..fixed : selector[i] \in {"*", path[i]}

Paths(records) == {r.path : r \in records}

Matched(sels, paths) ==
  {p \in paths : \E s \in sels : ~Malformed(s) /\ Matches(s, p)}

Issues(sels, paths) ==
  {<<"malformed", s>> : s \in {t \in sels : Malformed(t)}} \cup
  {<<"unmatched", s>> :
     s \in {t \in sels : ~Malformed(t) /\ Matched({t}, paths) = {}}}

-----------------------------------------------------------------------------
(* buildPublicationPlan()                                                  *)

\* Mutant: only the service that owns the resource is added.
OwnerOnly(owner) == {owner} \ {<<>>}

\* addServiceAncestors(): each pair of segments of the owner's path is one.
ServiceAncestors(owner) == {SubSeq(owner, 1, 2 * k) : k \in 1..Len(owner) \div 2}

MandatoryPaths == {<<"operations", Escape(n)>> : n \in Mandatory}

WithAncestors(paths, records) ==
  paths \cup UNION {ServiceAncestors(r.owner) : r \in {q \in records : q.path \in paths}}

Resolved(m, sels, records) ==
  IF m = "full" THEN Paths(records)
  ELSE WithAncestors(Matched(sels, Paths(records)), records)

\* Mutant: whatever could not be discovered is reported, selected or not.
ReportWholeInventory(m, sels, records) ==
  {<<"duplicate", p>> : p \in Duplicates(records)} \cup
  {<<"mandatory", p>> : p \in MandatoryPaths \ Paths(records)} \cup
  {<<"unsupported", r.path>> : r \in {q \in records : q.error}} \cup
  CASE m = "full" -> {}
    [] m = "selected" /\ sels = {} -> {<<"malformed", <<>>>>}
    [] OTHER -> Issues(sels, Paths(records))

PlanDiagnostics(m, sels, records) ==
  {<<"duplicate", p>> : p \in Duplicates(records)} \cup
  {<<"mandatory", p>> : p \in MandatoryPaths \ Paths(records)} \cup
  CASE m = "full" -> {}
    [] m = "selected" /\ sels = {} -> {<<"malformed", <<>>>>}
    [] OTHER -> Issues(sels, Paths(records))

\* snapshotComponent() up to the mapping of the resources.
Plan(m, sels) ==
  /\ phase = "idle" /\ phase' = "mapping"
  /\ mode' = m /\ selectors' = sels
  /\ inventory' = Records
  /\ effective' = Resolved(m, sels, Records) \cup
                    (MandatoryPaths \cap Paths(Records))
  /\ todo' = effective'
  /\ diagnostics' = PlanDiagnostics(m, sels, Records)
  /\ nodes' = {<<>>}
  /\ UNCHANGED <<componentVars, space>>

-----------------------------------------------------------------------------
(* The bundles of a snapshot                                               *)

CategoryPath(r) == Append(r.owner, r.entry.kind)
MetadataNodes(r, e) == {Append(r.path, m) : m \in e.meta}

\* The object of the category, the resource's own node and those below it.
BundleOf(r, e) == {CategoryPath(r), r.path} \cup MetadataNodes(r, e)

\* A service was captured by the discovery; all others are looked up again.
Current(r) ==
  IF r.entry.kind = "services" THEN {r.entry}
  ELSE {e \in iface[r.service] : e.found /\ SameName(e, r.entry)}

Mappable(r) == ~r.error /\ \E e \in Current(r) : e.supported

FailureOf(r) ==
  <<IF r.path \in MandatoryPaths THEN "mandatory" ELSE "unsupported", r.path>>

\* The inventory keeps one record of each path.
RecordOf(path) == CHOOSE r \in inventory : r.path = path

\* append...Bundle() of the next resource of the effective set.
MapResource ==
  /\ phase = "mapping" /\ todo # {}
  /\ LET path == CHOOSE p \in todo : TRUE
         r == RecordOf(path)
     IN  /\ todo' = todo \ {path}
         /\ IF Mappable(r)
              THEN /\ nodes' = nodes \cup UNION {BundleOf(r, e) : e \in Current(r)}
                   /\ UNCHANGED diagnostics
              ELSE diagnostics' = diagnostics \cup {FailureOf(r)} /\ UNCHANGED nodes
  /\ UNCHANGED <<componentVars, phase, planVars, space>>

Reject ==
  /\ phase = "mapping" /\ todo = {} /\ diagnostics # {}
  /\ phase' = "rejected"
  /\ UNCHANGED <<componentVars, planVars, todo, diagnostics, nodes, space>>

\* The transaction on the server thread begins.
Accept ==
  /\ phase = "mapping" /\ todo = {} /\ diagnostics = {}
  /\ phase' = "creating"
  /\ UNCHANGED <<componentVars, planVars, todo, diagnostics, nodes, space>>

-----------------------------------------------------------------------------
(* createCandidate()                                                       *)

\* pathDepth()
NotDeeper(n, m) == Len(n) <= Len(m)

NextNode ==
  CHOOSE n \in nodes \ space : \A m \in nodes \ space : NotDeeper(n, m)

\* What the server asks of a new node.  The component's own node has a parent that
\* exists already: ensureRoots() comes first.
HasParent(n) == n = <<>> \/ Front(n) \in space

CreateNode ==
  /\ phase = "creating" /\ nodes # space
  /\ IF HasParent(NextNode)
       THEN space' = space \cup {NextNode} /\ UNCHANGED phase
       ELSE phase' = "failed" /\ UNCHANGED space
  /\ UNCHANGED <<componentVars, planVars, todo, diagnostics, nodes>>

Commit ==
  /\ phase = "creating" /\ nodes = space
  /\ phase' = "published"
  /\ UNCHANGED <<componentVars, planVars, todo, diagnostics, nodes, space>>

-----------------------------------------------------------------------------

Next ==
  \/ \E s \in Services : \E e \in Provided[s] :
       AddResource(s, e) \/ RemoveResource(s, e)
  \/ Plan("full", {})
  \/ \E sels \in SUBSET Selectors :
       Cardinality(sels) <= MaxSelectors /\ Plan("selected", sels)
  \/ MapResource \/ Reject \/ Accept \/ CreateNode \/ Commit

Spec == Init /\ [][Next]_vars

-----------------------------------------------------------------------------
(* Properties                                                              *)

\* What the README says a selector covers, by expansion: "**" stands for any
\* number of wildcards that match exactly one segment each.
Covers(selector, path) ==
  \E n \in 0..Len(path) :
    LET flat == IF selector # <<>> /\ Last(selector) = "**"
                  THEN Front(selector) \o [i \in 1..n |-> "*"] ELSE selector
    IN  /\ Len(flat) = Len(path)
        /\ \A i \in DOMAIN flat : flat[i] \in {"*", path[i]} /\ flat[i] \notin NotCanonical

\* A resource the caller asked for: covered, an owner of a covered one, or one of
\* the mandatory operations.
AskedFor(r) ==
  \/ mode = "full"
  \/ \E q \in inventory, s \in selectors :
       Covers(s, q.path) /\ (q = r \/ (r.entry.kind = "services" /\ IsStrictPrefix(r.path, q.path)))
  \/ r.owner = <<>> /\ r.entry.kind = "operations" /\ r.entry.name \in Mandatory

\* Every variable keeps its type.
TypeOK ==
  /\ iface \in [Services -> SUBSET Entries] /\ changes \in 0..MaxChanges
  /\ phase \in {"idle", "mapping", "creating", "published", "rejected", "failed"}
  /\ mode \in {"full", "selected"} /\ selectors \subseteq Selectors
  /\ effective \subseteq Paths(inventory) /\ todo \subseteq effective
  /\ space \subseteq nodes /\ vanished \subseteq inventory

\* A node is never created before its parent, and never without one: the set is
\* closed under owners and the transaction goes by depth, whichever resources were
\* selected and however the component changed since they were discovered.
ParentsFirst == phase # "failed"

\* A publication that succeeds has created the complete bundle of every resource
\* asked for and nothing else, and each selector covered a resource.
ExactlyWhatWasAsked ==
  phase = "published" =>
    /\ \A r \in inventory : AskedFor(r) =>
         r.path \in space /\ (r \notin vanished => BundleOf(r, r.entry) \subseteq space)
    /\ \A n \in space \ {<<>>} : \E r \in inventory :
         AskedFor(r) /\ (n \in BundleOf(r, r.entry) \/ (r \in vanished /\ Front(n) = r.path))
    /\ \A s \in selectors : \E r \in inventory : Covers(s, r.path)
    /\ mode = "selected" => selectors # {}

\* No node of a published component stands for two resources: names that are
\* written alike, or a name that is listed twice, stop the publication, inside the
\* selection or not.
NodesAreUnambiguous ==
  phase = "published" =>
    \A q, r \in inventory : q.path = r.path => q = r /\ r.times = 1

\* A reason for a rejection that lies in what was asked for: a selector that is
\* malformed or covers nothing, a mandatory operation that is missing, or a
\* resource asked for that shares its path, cannot be found or mapped, or has been
\* removed since the discovery.
ReasonInSelection ==
  \/ mode = "selected" /\ selectors = {}
  \/ \E s \in selectors : ~\E r \in inventory : Covers(s, r.path)
  \/ MandatoryPaths \ Paths(inventory) # {}
  \/ \E r \in inventory : AskedFor(r) /\
       (Ambiguous(r, inventory) \/ r.error \/ ~r.entry.supported \/ r \in vanished)

\* A publication is only rejected for a reason in what was asked for, or because
\* two resources of the component share a path, wherever they are.  A service that
\* forms a cycle, is too deep or missing, or a resource without a codec, never
\* counts outside the selection.
RejectionIsJustified ==
  phase = "rejected" =>
    ReasonInSelection \/ \E r \in inventory : Ambiguous(r, inventory)

\* "Validation covers only those selected resource bundles, their required service
\* ancestors, and the mandatory proxy baseline" (README): the same without the
\* paths that are shared outside the selection.
ValidatesOnlyTheSelection == phase = "rejected" => ReasonInSelection

===============================================================================
