--------------------------- MODULE DataTypeRegistry ---------------------------
(***************************************************************************)
(* The process-wide registry of OPC UA datatype providers                  *)
(* (src/src/datatype_registry.cpp) and the endpoints that bind what it     *)
(* holds to a namespace table (src/src/endpoint_type_registry.cpp).        *)
(*                                                                         *)
(* A provider names the providers its types build on.  Freezing the        *)
(* registry fixes the providers and an order in which each follows those   *)
(* it depends on; every server thread and every client session of the      *)
(* process then binds the same types in that order.  Registrations,        *)
(* freezes and bindings run on different threads; the registry's mutex is  *)
(* held over each call, but a binding takes it twice.                      *)
(*                                                                         *)
(* A name is a number, in the order std::string gives the names.  A        *)
(* datatype is known by its two string identifiers in a namespace.  What a *)
(* factory (CustomDataTypeDefinition::materialize) returns, which RTT      *)
(* types have a protocol, and the address space are external.              *)
(***************************************************************************)
EXTENDS Integers, Sequences, SequencesExt, FiniteSets

CONSTANTS
  Catalogue,      \* the provider definitions somebody may register
  Servers,        \* endpoints that are servers of this process
  Clients,        \* endpoints that are client sessions
  Tables,         \* namespace tables a remote server may have
  OwnTable,       \* the table of a server before the providers are added
  Protocols,      \* references to datatypes that RTT type protocols may hold
  NoProvider,
  MaxBinds        \* bound: bindings in a behaviour

Endpoints == Servers \cup Clients
Names == {p.name : p \in Catalogue}
Definitions == UNION {Range(p.types) : p \in Catalogue}
Namespaces == STRING \X Nat

\* A provider: its name, namespace, dependencies and datatype definitions.
IsProvider(p) ==
  /\ p.name \in Nat /\ p.uri \in STRING /\ p.deps \in Seq(Nat)
  /\ p.types \in Seq(Definitions)
  /\ \A i \in DOMAIN p.types :
       DOMAIN p.types[i] = {"uri", "type", "encoding", "fingerprint"}

ASSUME DataTypeRegistryAssumption ==
  /\ \A p \in Catalogue : IsProvider(p)
  /\ IsFiniteSet(Catalogue)
  /\ NoProvider \notin Catalogue
  /\ Servers \cap Clients = {}
  /\ OwnTable \in Seq(Namespaces) /\ \A t \in Tables : t \in Seq(Namespaces)
  /\ MaxBinds \in Nat

VARIABLES
  providers,   \* the map of that name: name -> provider or NoProvider
  order,       \* provider_order
  frozen,
  types,       \* references of the RTT types that have a protocol so far
  pc,          \* where each endpoint is in create() and bind()
  table,       \* its namespace table
  todo,        \* the definitions it has still to materialize, or to publish
  custom,      \* custom_data_types_, and what its factory context resolves
  nodes,       \* logical NodeIds published in its address space (servers)
  binds        \* bindings so far (bounded by MaxBinds)

registryVars == <<providers, order, frozen>>
endpointVars == <<pc, table, todo, custom, nodes, binds>>
vars == <<registryVars, types, endpointVars>>

Registered == {n \in Names : providers[n] # NoProvider}
Dependencies(n) == Range(providers[n].deps)

Init ==
  /\ providers = [n \in Names |-> NoProvider] /\ order = <<>> /\ frozen = FALSE
  /\ types = {}
  /\ pc = [e \in Endpoints |-> "idle"] /\ table = [e \in Endpoints |-> OwnTable]
  /\ todo = [e \in Endpoints |-> <<>>] /\ custom = [e \in Endpoints |-> <<>>]
  /\ nodes = [e \in Endpoints |-> {}] /\ binds = 0

-----------------------------------------------------------------------------
(* registerDataTypeProvider()                                              *)

TypeId(d) == <<d.uri, d.type>>
EncodingId(d) == <<d.uri, d.encoding>>
NodeIds(ds) == UNION {{TypeId(ds[i]), EncodingId(ds[i])} : i \in DOMAIN ds}

\* Every NodeId of a registered provider.
Occupied == UNION {NodeIds(providers[n].types) : n \in Registered}

\* Mutant: only the collisions within the new provider are looked for.
DistinctWithinProvider(p) ==
  /\ \A i \in DOMAIN p.types : TypeId(p.types[i]) # EncodingId(p.types[i])
  /\ Cardinality(NodeIds(p.types)) = 2 * Len(p.types)

\* No NodeId of the provider occurs twice, in it or in the registry.
NewNodeIds(p) ==
  /\ \A i \in DOMAIN p.types : TypeId(p.types[i]) # EncodingId(p.types[i])
  /\ Cardinality(NodeIds(p.types)) = 2 * Len(p.types)
  /\ NodeIds(p.types) \cap Occupied = {}

\* validateAndNormalize(): a type at least, dependencies that are distinct and
\* others, types in the provider's namespace, NodeIds that are still free.
Valid(p) ==
  /\ p.types # <<>>
  /\ p.name \notin Range(p.deps)
  /\ Cardinality(Range(p.deps)) = Len(p.deps)
  /\ \A i \in DOMAIN p.types : p.types[i].uri = p.uri
  /\ NewNodeIds(p)

Register(p) ==
  /\ ~frozen
  /\ providers[p.name] = NoProvider /\ Valid(p)
  /\ providers' = [providers EXCEPT ![p.name] = p]
  /\ UNCHANGED <<order, frozen, types, endpointVars>>

\* The same provider is known already, which succeeds even when frozen; or it
\* comes too late, another one has its name, or it is invalid, which fails.
RegisterNothing(p) ==
  /\ \/ providers[p.name] # NoProvider
     \/ frozen
     \/ ~Valid(p)
  /\ UNCHANGED vars

-----------------------------------------------------------------------------
(* freezeDataTypeRegistry() and computeProviderOrder()                     *)

\* Mutant: of the providers that are ready the last one is taken.
PickLast(ready) == Max(ready)

\* The set of ready names is ordered.
PickReady(ready) == Min(ready)

\* The count of open dependencies has dropped to zero.
Ready(done) == {n \in Registered \ done : Dependencies(n) \subseteq done}

\* The order after k rounds of the loop, which ends when nothing is ready.
OrderAfter[k \in 0..Cardinality(Names)] ==
  IF k = 0 THEN <<>>
  ELSE LET soFar == OrderAfter[k - 1]
           ready == Ready(Range(soFar))
       IN  IF ready = {} THEN soFar ELSE Append(soFar, PickReady(ready))

ProviderOrder == OrderAfter[Cardinality(Names)]

\* No dependency is missing and no cycle keeps a provider out of the order.
CanFreeze ==
  /\ \A n \in Registered : Dependencies(n) \subseteq Registered
  /\ Len(ProviderOrder) = Cardinality(Registered)

\* Mutant: the caller does not look whether freezing succeeded.
FreezeUnchecked == TRUE

FreezeSucceeds == frozen \/ CanFreeze

\* A failure changes nothing: providers may still be registered.
FreezeEffect ==
  IF frozen \/ ~CanFreeze THEN UNCHANGED registryVars
  ELSE order' = ProviderOrder /\ frozen' = TRUE /\ UNCHANGED providers

Freeze ==
  /\ FreezeEffect
  /\ UNCHANGED <<types, endpointVars>>

\* A typekit is loaded: one more RTT type has an OPC UA protocol.
AddProtocol(r) ==
  /\ types' = types \cup {r}
  /\ UNCHANGED <<registryVars, endpointVars>>

-----------------------------------------------------------------------------
(* An endpoint: Server::run() or ClientSession::connect()                  *)

Goto(e, place) == pc' = [pc EXCEPT ![e] = place]

\* The definitions of the providers of these names, one after the other.
DefinitionsOf(names, map) ==
  LET upTo[k \in 0..Len(names)] ==
        IF k = 0 THEN <<>> ELSE upTo[k - 1] \o map[names[k]].types
  IN  upTo[Len(names)]

\* The definitions of the providers in the frozen order.
FrozenDefinitions == DefinitionsOf(order, providers)

\* A server asks for the providers first, to register their namespaces.
ServerBegin(e) ==
  /\ e \in Servers /\ pc[e] = "idle" /\ binds < MaxBinds /\ binds' = binds + 1
  /\ FreezeEffect
  /\ Goto(e, IF FreezeSucceeds THEN "namespaces" ELSE "idle")
  /\ UNCHANGED <<types, table, todo, custom, nodes>>

Uris(t) == {t[i][1] : i \in DOMAIN t}
Indexes(t) == {t[i][2] : i \in DOMAIN t}

\* registerNamespace() for every namespace of a provider, each once.
ServerNamespaces(e) ==
  /\ pc[e] = "namespaces"
  /\ LET added == SetToSeq({providers[n].uri : n \in Range(order)} \ Uris(OwnTable))
     IN  table' = [table EXCEPT ![e] =
           OwnTable \o [i \in DOMAIN added |-> <<added[i], Len(OwnTable) + i - 1>>]]
  /\ Goto(e, "create")
  /\ UNCHANGED <<registryVars, types, todo, custom, nodes, binds>>

\* A client has read the namespace array of the server it talks to.
ClientBegin(e) ==
  /\ e \in Clients /\ pc[e] = "idle" /\ binds < MaxBinds /\ binds' = binds + 1
  /\ \E t \in Tables : table' = [table EXCEPT ![e] = t]
  /\ Goto(e, "create")
  /\ UNCHANGED <<registryVars, types, todo, custom, nodes>>

\* create(): names and indexes are unique and namespace zero is index zero.
NamespaceZero == "http://opcfoundation.org/UA/"
ValidTable(t) ==
  /\ "" \notin Uris(t)
  /\ Cardinality(Uris(t)) = Len(t) /\ Cardinality(Indexes(t)) = Len(t)
  /\ <<NamespaceZero, 0>> \in Range(t)

\* frozenDataTypeProviders(), first half.
CreateBegin(e) ==
  /\ pc[e] = "create"
  /\ IF ValidTable(table[e])
       THEN FreezeEffect /\ Goto(e, IF FreezeSucceeds THEN "copy" ELSE "idle")
       ELSE UNCHANGED registryVars /\ Goto(e, "idle")
  /\ UNCHANGED <<types, table, todo, custom, nodes, binds>>

\* Second half, with the mutex taken again; then bind() looks for the namespace
\* of every provider before it materializes anything.
CreateCopy(e) ==
  /\ pc[e] = "copy"
  /\ IF \A n \in Range(order) : providers[n].uri \in Uris(table[e])
       THEN todo' = [todo EXCEPT ![e] = FrozenDefinitions] /\ Goto(e, "bind")
       ELSE Goto(e, "idle") /\ UNCHANGED todo
  /\ UNCHANGED <<registryVars, types, table, custom, nodes, binds>>

\* One definition is materialized and enters the context of those after it.
Materialize(e) ==
  /\ pc[e] = "bind" /\ todo[e] # <<>>
  /\ custom' = [custom EXCEPT ![e] = Append(@, Head(todo[e]))]
  /\ todo' = [todo EXCEPT ![e] = Tail(@)]
  /\ UNCHANGED <<registryVars, types, pc, table, nodes, binds>>

\* The factory throws, or returns something other than was registered, or a
\* codec cannot be bound.  The endpoint is dropped with all it has.
Drop(e) ==
  /\ Goto(e, "idle")
  /\ todo' = [todo EXCEPT ![e] = <<>>] /\ custom' = [custom EXCEPT ![e] = <<>>]
  /\ nodes' = [nodes EXCEPT ![e] = {}]
  /\ UNCHANGED <<registryVars, types, table, binds>>

MaterializeFails(e) == pc[e] = "bind" /\ todo[e] # <<>> /\ Drop(e)

\* A protocol refers to a builtin type, or to a custom one by its type and encoding.
Resolved(e, r) ==
  \/ r.uri = NamespaceZero
  \/ \E d \in Range(custom[e]) :
       TypeId(d) = <<r.uri, r.type>> /\ EncodingId(d) = <<r.uri, r.encoding>>

\* Every RTT type with a protocol gets its codec, or the binding fails.
BindCodecs(e) ==
  /\ pc[e] = "bind" /\ todo[e] = <<>>
  /\ \A r \in types : Resolved(e, r)
  /\ IF e \in Servers
       THEN Goto(e, "publish") /\ todo' = [todo EXCEPT ![e] = custom[e]]
       ELSE Goto(e, "bound") /\ UNCHANGED todo
  /\ UNCHANGED <<registryVars, types, table, custom, nodes, binds>>

BindCodecsFails(e) == pc[e] = "bind" /\ todo[e] = <<>> /\ Drop(e)

\* publishDataTypeNodes(): a type node and its encoding node, one definition
\* after the other; a NodeId that exists cannot be added.
PublishNode(e) ==
  /\ pc[e] = "publish" /\ todo[e] # <<>>
  /\ LET d == Head(todo[e])
     IN  /\ {TypeId(d), EncodingId(d)} \cap nodes[e] = {}
         /\ nodes' = [nodes EXCEPT ![e] = @ \cup {TypeId(d), EncodingId(d)}]
  /\ todo' = [todo EXCEPT ![e] = Tail(@)]
  /\ UNCHANGED <<registryVars, types, pc, table, custom, binds>>

PublishFails(e) == pc[e] = "publish" /\ todo[e] # <<>> /\ Drop(e)

PublishDone(e) ==
  /\ pc[e] = "publish" /\ todo[e] = <<>>
  /\ Goto(e, "bound")
  /\ UNCHANGED <<registryVars, types, table, todo, custom, nodes, binds>>

\* The server stops or the session ends.
Close(e) == pc[e] = "bound" /\ Drop(e)

EndpointStep(e) ==
  \/ ServerBegin(e) \/ ServerNamespaces(e) \/ ClientBegin(e) \/ CreateBegin(e)
  \/ CreateCopy(e) \/ Materialize(e) \/ MaterializeFails(e) \/ BindCodecs(e)
  \/ BindCodecsFails(e) \/ PublishNode(e) \/ PublishFails(e) \/ PublishDone(e)
  \/ Close(e)

Next ==
  \/ \E p \in Catalogue : Register(p) \/ RegisterNothing(p)
  \/ Freeze
  \/ \E r \in Protocols : AddProtocol(r)
  \/ \E e \in Endpoints : EndpointStep(e)

Spec == Init /\ [][Next]_vars

-----------------------------------------------------------------------------
(* Properties                                                              *)

\* Every variable keeps its type.
TypeOK ==
  /\ providers \in [Names -> Catalogue \cup {NoProvider}]
  /\ \A n \in Registered : providers[n].name = n
  /\ order \in Seq(Names) /\ frozen \in BOOLEAN
  /\ types \subseteq Protocols
  /\ pc \in [Endpoints -> {"idle", "namespaces", "create", "copy", "bind",
                           "publish", "bound"}]
  /\ table \in [Endpoints -> Seq(Namespaces)]
  /\ todo \in [Endpoints -> Seq(Definitions)]
  /\ custom \in [Endpoints -> Seq(Definitions)]
  /\ nodes \in [Endpoints -> SUBSET ({TypeId(d) : d \in Definitions} \cup
                                     {EncodingId(d) : d \in Definitions})]
  /\ binds \in 0..MaxBinds

\* All orders in which each registered provider follows what it depends on.
TopologicalOrders ==
  {s \in [1..Cardinality(Registered) -> Registered] :
     /\ IsInjective(s)
     /\ \A i \in DOMAIN s : Dependencies(s[i]) \subseteq {s[j] : j \in 1..(i - 1)}}

LexLeq(s, t) ==
  s = t \/ \E i \in DOMAIN s : s[i] < t[i] /\ \A j \in 1..(i - 1) : s[j] = t[j]

\* Freezing succeeds exactly when the providers can be ordered, and the order
\* is the alphabetically least one, whatever the order of registration was.
OrderIsLeastTopological ==
  /\ CanFreeze <=> TopologicalOrders # {}
  /\ frozen => /\ order \in TopologicalOrders
               /\ \A s \in TopologicalOrders : LexLeq(order, s)

\* All endpoints of the process, whenever they were bound, have the same types
\* in the same order.
EndpointsAgree ==
  \A e, f \in Endpoints :
    pc[e] = "bound" /\ pc[f] = "bound" => custom[e] = custom[f]

\* A server that takes the providers a second time finds their namespaces in
\* the table it made after the first time, and none of the nodes it publishes
\* exists already.
ServerCanPublish ==
  \A e \in Servers :
    /\ pc[e] = "copy" =>
         \A n \in Range(order) : providers[n].uri \in Uris(table[e])
    /\ pc[e] = "publish" /\ todo[e] # <<>> =>
         {TypeId(Head(todo[e])), EncodingId(Head(todo[e]))} \cap nodes[e] = {}

===============================================================================
