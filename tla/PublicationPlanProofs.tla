------------------------- MODULE PublicationPlanProofs -------------------------
(***************************************************************************)
(* Proofs about what a publication contains: for every component, every    *)
(* set of selectors and every change of the component under the plan.      *)
(***************************************************************************)
EXTENDS PublicationPlan, InductionLemmas, SequenceTheorems

-----------------------------------------------------------------------------
(* The inductive invariant                                                 *)

\* The segments of which the paths of resources consist.
Segments == Kinds \cup {Escape(e.name) : e \in Entries}

\* The path of a service at depth d: the name of each service on the way to it,
\* each after its kind, and no segment that a selector could not match.
OwnerOfServices(owner, d) ==
  /\ owner \in Seq(Segments) /\ Len(owner) = 2 * d
  /\ \A k \in 1..d : owner[2 * k - 1] = "services"
  /\ \A i \in 1..(2 * d) : owner[i] \notin {NoName, "**"}

\* A record: below services only, added at least once, its path is the one of its
\* owner, its kind and its name, and without an error the resource was found.
IsRecord(r) ==
  /\ r.path = ResourcePath(r.owner, r.entry)
  /\ r.service \in Services /\ r.entry \in Entries
  /\ r.times \in Nat \ {0} /\ (~r.error => r.entry.found)
  /\ \E d \in Nat : OwnerOfServices(r.owner, d)

\* The names of a service are different, and a resource that was discovered and
\* not removed is still there.
IfaceInv ==
  /\ iface \in [Services -> SUBSET Entries] /\ changes \in 0..MaxChanges
  /\ \A s \in Services : \A e, f \in iface[s] : SameName(e, f) => e = f
  /\ \A r \in inventory \ vanished : r.entry \in iface[r.service]
  /\ vanished \subseteq inventory

\* The inventory has the record of every service on the way to a record.
InventoryInv ==
  /\ \A r \in inventory : IsRecord(r)
  /\ \A r \in inventory : ServiceAncestors(r.owner) \subseteq Paths(inventory)

\* What the plan has decided and what has been mapped of it.
EffectiveInv ==
  /\ mode \in {"full", "selected"} /\ selectors \subseteq Selectors
  /\ mode = "full" => selectors = {}
  /\ todo \subseteq effective
  /\ phase = "idle" => inventory = {} /\ effective = {}
  /\ phase # "idle" =>
       effective = Resolved(mode, selectors, inventory) \cup
                     (MandatoryPaths \cap Paths(inventory))

\* A reason for which a resource cannot be mapped.
Unfit(r) == r.error \/ ~r.entry.supported \/ r \in vanished

\* The diagnostics are those of the plan and of resources that are unfit.
DiagnosticInv ==
  /\ phase = "idle" => diagnostics = {}
  /\ phase # "idle" => PlanDiagnostics(mode, selectors, inventory) \subseteq diagnostics
  /\ \A d \in diagnostics :
       \/ d \in PlanDiagnostics(mode, selectors, inventory)
       \/ \E p \in effective : Unfit(RecordOf(p))

\* A resource that was mapped has its nodes, or the publication fails.
MappedInv ==
  /\ phase # "idle" => <<>> \in nodes
  /\ \A p \in effective \ todo :
       diagnostics = {} =>
         /\ {CategoryPath(RecordOf(p)), RecordOf(p).path} \subseteq nodes
         /\ RecordOf(p) \notin vanished =>
              BundleOf(RecordOf(p), RecordOf(p).entry) \subseteq nodes

\* Every node belongs to a resource of the plan; metadata of another type comes
\* from a resource that has replaced the one discovered.
NodesInv ==
  \A n \in nodes \ {<<>>} : \E p \in effective :
    \/ n \in BundleOf(RecordOf(p), RecordOf(p).entry)
    \/ RecordOf(p) \in vanished /\ \E m : n = Append(RecordOf(p).path, m)

\* A publication that is created has no diagnostic and nothing left to map.
PhaseInv ==
  /\ phase \in {"idle", "mapping", "creating", "published", "rejected"}
  /\ phase = "idle" => nodes = {}
  /\ phase \in {"creating", "published"} => todo = {} /\ diagnostics = {}
  /\ phase = "rejected" => diagnostics # {}
  /\ phase = "published" => space = nodes
  /\ space \subseteq nodes

PlanInv ==
  /\ IfaceInv /\ InventoryInv /\ EffectiveInv /\ DiagnosticInv
  /\ MappedInv /\ NodesInv /\ PhaseInv

-----------------------------------------------------------------------------
(* Sequences                                                               *)

\* A sequence and one or two elements after it.
LEMMA AppendParts ==
  ASSUME NEW S, NEW s \in Seq(S), NEW x
  PROVE  /\ Len(Append(s, x)) = Len(s) + 1 /\ Front(Append(s, x)) = s
         /\ Append(s, x) # <<>>
  <1> DEFINE T == S \cup {x}
             a == Append(s, x)
  <1>1. s \in Seq(T) /\ x \in T /\ Len(s) \in Nat
    BY SeqMonotonic, LenProperties
  <1> HIDE DEF T
  <1>2. /\ a \in Seq(T) /\ Len(a) = Len(s) + 1 /\ a # <<>>
        /\ \A i \in 1..Len(s) : a[i] = s[i]
    BY <1>1, AppendProperties
  <1> HIDE DEF a
  <1>3. Len(a) - 1 = Len(s)
    BY <1>1, <1>2
  <1>4. \A i \in 1..Len(s) : a[i] \in T
    BY <1>1, <1>2, ElementOfSeq
  <1>5. /\ SubSeq(a, 1, Len(s)) \in Seq(T)
        /\ Len(SubSeq(a, 1, Len(s))) = IF 1 <= Len(s) THEN Len(s) - 1 + 1 ELSE 0
        /\ \A i \in 1..(Len(s) - 1 + 1) : SubSeq(a, 1, Len(s))[i] = a[1 + i - 1]
    BY <1>1, <1>4, SubSeqProperties
  <1> DEFINE u == SubSeq(a, 1, Len(s))
  <1>6. Len(u) = Len(s)
    BY <1>1, <1>5
  <1>7. ASSUME NEW i \in 1..Len(u) PROVE u[i] = s[i]
    <2>1. i \in 1..(Len(s) - 1 + 1) /\ 1 + i - 1 = i /\ i \in 1..Len(s)
      BY <1>1, <1>6, <1>7
    <2> QED BY <2>1, <1>2, <1>5
  <1>8. u = s
    BY <1>1, <1>5, <1>6, <1>7, SeqEqual
  <1> QED BY <1>2, <1>3, <1>8 DEF a, Front

\* The path of a resource ends with its kind and its name; what is before them
\* is the path of its owner.
LEMMA TwoMore ==
  ASSUME NEW S, NEW s \in Seq(S), NEW x \in S, NEW y \in S
  PROVE  /\ s \o <<x, y>> \in Seq(S) /\ Len(s \o <<x, y>>) = Len(s) + 2
         /\ \A i \in 1..Len(s) : (s \o <<x, y>>)[i] = s[i]
         /\ (s \o <<x, y>>)[Len(s) + 1] = x /\ (s \o <<x, y>>)[Len(s) + 2] = y
         /\ Front(s \o <<x, y>>) = Append(s, x)
         /\ SubSeq(s \o <<x, y>>, 1, Len(s)) = s
         /\ s \o <<x, y>> # <<>>
  <1> DEFINE t == <<x, y>>
             u == s \o t
  <1>1. t \in Seq(S) /\ Len(t) = 2 /\ t[1] = x /\ t[2] = y /\ Len(s) \in Nat
    BY LenProperties
  <1> HIDE DEF t
  <1>2. /\ u \in Seq(S) /\ Len(u) = Len(s) + Len(t)
        /\ \A i \in 1..(Len(s) + Len(t)) : u[i] = IF i <= Len(s) THEN s[i] ELSE t[i - Len(s)]
    BY <1>1, ConcatProperties
  <1> HIDE DEF u
  <1>3. /\ Len(u) = Len(s) + 2 /\ \A i \in 1..Len(s) : u[i] = s[i]
        /\ u[Len(s) + 1] = x /\ u[Len(s) + 2] = y
    <2>1. ASSUME NEW i \in 1..Len(s) PROVE u[i] = s[i]
      BY <1>1, <1>2, <2>1
    <2>2. /\ Len(s) + 1 \in 1..(Len(s) + Len(t)) /\ ~(Len(s) + 1 <= Len(s))
          /\ Len(s) + 1 - Len(s) = 1
          /\ Len(s) + 2 \in 1..(Len(s) + Len(t)) /\ ~(Len(s) + 2 <= Len(s))
          /\ Len(s) + 2 - Len(s) = 2
      BY <1>1
    <2>3. u[Len(s) + 1] = t[1] /\ u[Len(s) + 2] = t[2]
      BY <1>2, <2>2
    <2> QED BY <1>1, <1>2, <2>1, <2>3
  <1>4. /\ Append(s, x) \in Seq(S) /\ Len(Append(s, x)) = Len(s) + 1
        /\ \A i \in 1..Len(s) : Append(s, x)[i] = s[i]
        /\ Append(s, x)[Len(s) + 1] = x
    BY AppendProperties
  <1>5. ASSUME NEW n \in 0..(Len(s) + 1)
        PROVE  /\ SubSeq(u, 1, n) \in Seq(S) /\ Len(SubSeq(u, 1, n)) = n
               /\ \A i \in 1..n : SubSeq(u, 1, n)[i] = u[i]
    <2>1. \A i \in 1..n : i \in 1..Len(u) /\ 1 + i - 1 = i
      BY <1>1, <1>3, <1>5
    <2>2. \A i \in 1..n : u[i] \in S
      BY <2>1, <1>2, ElementOfSeq
    <2>3. /\ SubSeq(u, 1, n) \in Seq(S)
          /\ Len(SubSeq(u, 1, n)) = IF 1 <= n THEN n - 1 + 1 ELSE 0
          /\ \A i \in 1..(n - 1 + 1) : SubSeq(u, 1, n)[i] = u[1 + i - 1]
      BY <1>5, <2>2, SubSeqProperties
    <2>4. n - 1 + 1 = n /\ n \in Nat
      BY <1>1, <1>5
    <2> QED BY <2>1, <2>3, <2>4
  <1>6. SubSeq(u, 1, Len(s)) = s
    <2>1. Len(s) \in 0..(Len(s) + 1)
      BY <1>1
    <2> DEFINE v == SubSeq(u, 1, Len(s))
    <2>2. v \in Seq(S) /\ Len(v) = Len(s) /\ \A i \in 1..Len(s) : v[i] = u[i]
      BY <2>1, <1>5
    <2> HIDE DEF v
    <2>3. v = s
      BY <2>2, <1>3, SeqEqual
    <2> QED BY <2>3 DEF v
  <1>7. SubSeq(u, 1, Len(s) + 1) = Append(s, x)
    <2>1. Len(s) + 1 \in 0..(Len(s) + 1)
      BY <1>1
    <2> DEFINE v == SubSeq(u, 1, Len(s) + 1)
               a == Append(s, x)
    <2>2. v \in Seq(S) /\ Len(v) = Len(s) + 1 /\ \A i \in 1..(Len(s) + 1) : v[i] = u[i]
      BY <2>1, <1>5
    <2>3. /\ a \in Seq(S) /\ Len(a) = Len(s) + 1 /\ \A i \in 1..Len(s) : a[i] = s[i]
          /\ a[Len(s) + 1] = x
      BY <1>4
    <2> HIDE DEF v, a
    <2>4. ASSUME NEW i \in 1..Len(v) PROVE v[i] = a[i]
      <3>1. i \in 1..Len(s) \/ i = Len(s) + 1
        BY <2>2, <2>4, <1>1
      <3> QED BY <3>1, <2>2, <2>3, <2>4, <1>3
    <2>5. v = a
      BY <2>2, <2>3, <2>4, SeqEqual
    <2> QED BY <2>5 DEF v, a
  <1>8. Len(u) - 1 = Len(s) + 1 /\ u # <<>>
    BY <1>1, <1>2, <1>3, EmptySeq
  <1> QED BY <1>2, <1>3, <1>6, <1>7, <1>8 DEF u, t, Front

\* A prefix of a sequence is as long as it says and keeps the elements.
LEMMA PrefixParts ==
  ASSUME NEW S, NEW s \in Seq(S), NEW n \in 0..Len(s)
  PROVE  /\ SubSeq(s, 1, n) \in Seq(S) /\ Len(SubSeq(s, 1, n)) = n
         /\ \A i \in 1..n : SubSeq(s, 1, n)[i] = s[i]
  <1>1. Len(s) \in Nat /\ n \in Nat /\ n - 1 + 1 = n
    BY LenProperties
  <1>2. \A i \in 1..n : i \in 1..Len(s) /\ 1 + i - 1 = i
    BY <1>1
  <1>3. \A i \in 1..n : s[i] \in S
    BY <1>2, ElementOfSeq
  <1>4. /\ SubSeq(s, 1, n) \in Seq(S)
        /\ Len(SubSeq(s, 1, n)) = IF 1 <= n THEN n - 1 + 1 ELSE 0
        /\ \A i \in 1..(n - 1 + 1) : SubSeq(s, 1, n)[i] = s[1 + i - 1]
    BY <1>1, <1>3, SubSeqProperties
  <1> QED BY <1>1, <1>2, <1>4

\* Sequences that agree up to place n have the same prefix.
LEMMA SamePrefix ==
  ASSUME NEW S, NEW s \in Seq(S), NEW t \in Seq(S), NEW n \in Nat,
         n <= Len(s), n <= Len(t), \A i \in 1..n : s[i] = t[i]
  PROVE  SubSeq(s, 1, n) = SubSeq(t, 1, n)
  <1>1. n \in 0..Len(s) /\ n \in 0..Len(t)
    BY LenProperties
  <1> DEFINE u == SubSeq(s, 1, n)
             v == SubSeq(t, 1, n)
  <1>2. /\ u \in Seq(S) /\ Len(u) = n /\ \A i \in 1..n : u[i] = s[i]
        /\ v \in Seq(S) /\ Len(v) = n /\ \A i \in 1..n : v[i] = t[i]
    BY <1>1, PrefixParts
  <1> HIDE DEF u, v
  <1>3. u = v
    BY <1>2, SeqEqual
  <1> QED BY <1>3 DEF u, v

-----------------------------------------------------------------------------
(* Discovery                                                               *)

\* A segment is a string that no selector can write by accident.
LEMMA SegmentsOfEntry ==
  ASSUME NEW e \in Entries
  PROVE  /\ e.kind \in Segments /\ e.kind \notin {NoName, "**"} /\ e.kind \in Kinds
         /\ Escape(e.name) \in Segments /\ Escape(e.name) \notin {NoName, "**"}
         /\ e.child \in Services
  <1>1. IsEntry(e)
    BY PublicationPlanAssumption
  <1>2. e.kind \in Kinds /\ e.child \in Services /\ e.name # "**"
    BY <1>1 DEF IsEntry
  <1>3. e.kind \in Segments /\ Escape(e.name) \in Segments
    BY <1>2 DEF Segments
  <1>4. "services" # NoName /\ "operations" # NoName /\ "properties" # NoName
        /\ "attributes" # NoName /\ "ports" # NoName /\ "%00" # NoName
    BY Zenon DEF NoName
  <1>5. e.kind \notin {NoName, "**"}
    BY <1>2, <1>4 DEF Kinds
  <1>6. Escape(e.name) \notin {NoName, "**"}
    BY <1>2, <1>4 DEF Escape
  <1> QED BY <1>2, <1>3, <1>5, <1>6

\* The path of a resource below a service at depth d.
LEMMA PathParts ==
  ASSUME NEW d \in Nat, NEW owner, OwnerOfServices(owner, d), NEW e \in Entries,
         NEW path, path = ResourcePath(owner, e)
  PROVE  /\ owner \in Seq(Segments) /\ Len(owner) = 2 * d
         /\ path \in Seq(Segments) /\ Len(path) = 2 * d + 2 /\ path # <<>>
         /\ \A i \in 1..(2 * d) : path[i] = owner[i]
         /\ path[2 * d + 1] = e.kind /\ path[2 * d + 2] = Escape(e.name)
         /\ Front(path) = Append(owner, e.kind)
         /\ SubSeq(path, 1, 2 * d) = owner
         /\ \A i \in 1..(2 * d + 2) : path[i] \notin {NoName, "**"}
  <1>1. owner \in Seq(Segments) /\ Len(owner) = 2 * d
    BY DEF OwnerOfServices
  <1>2. path = owner \o <<e.kind, Escape(e.name)>>
    BY DEF ResourcePath
  <1>3. e.kind \in Segments /\ Escape(e.name) \in Segments
    BY SegmentsOfEntry
  <1>4. /\ path \in Seq(Segments) /\ Len(path) = Len(owner) + 2 /\ path # <<>>
        /\ \A i \in 1..Len(owner) : path[i] = owner[i]
        /\ path[Len(owner) + 1] = e.kind /\ path[Len(owner) + 2] = Escape(e.name)
        /\ Front(path) = Append(owner, e.kind)
        /\ SubSeq(path, 1, Len(owner)) = owner
    <2> DEFINE x == e.kind
               y == Escape(e.name)
    <2>1. owner \in Seq(Segments) /\ x \in Segments /\ y \in Segments
      BY <1>1, <1>3
    <2>2. path = owner \o <<x, y>>
      BY <1>2
    <2> HIDE DEF x, y
    <2>3. /\ path \in Seq(Segments) /\ Len(path) = Len(owner) + 2 /\ path # <<>>
          /\ \A i \in 1..Len(owner) : path[i] = owner[i]
          /\ path[Len(owner) + 1] = x /\ path[Len(owner) + 2] = y
          /\ Front(path) = Append(owner, x) /\ SubSeq(path, 1, Len(owner)) = owner
      <3> DEFINE u == owner \o <<x, y>>
      <3>1. /\ u \in Seq(Segments) /\ Len(u) = Len(owner) + 2 /\ u # <<>>
            /\ \A i \in 1..Len(owner) : u[i] = owner[i]
            /\ u[Len(owner) + 1] = x /\ u[Len(owner) + 2] = y
            /\ Front(u) = Append(owner, x) /\ SubSeq(u, 1, Len(owner)) = owner
        BY <2>1, TwoMore
      <3>2. path = u
        BY <2>2
      <3> HIDE DEF u
      <3> QED BY <3>1, <3>2
    <2> QED BY <2>3 DEF x, y
  <1>5. ASSUME NEW i \in 1..(2 * d + 2) PROVE path[i] \notin {NoName, "**"}
    <2>1. i \in 1..(2 * d) \/ i = 2 * d + 1 \/ i = 2 * d + 2
      BY <1>5
    <2>2. CASE i \in 1..(2 * d)
      BY <2>2, <1>1, <1>4 DEF OwnerOfServices
    <2>3. CASE i = 2 * d + 1
      BY <2>3, <1>1, <1>4, SegmentsOfEntry
    <2>4. CASE i = 2 * d + 2
      BY <2>4, <1>1, <1>4, SegmentsOfEntry
    <2> QED BY <2>1, <2>2, <2>3, <2>4
  <1> QED BY <1>1, <1>4, <1>5

\* The path o of a service below the service at path owner and depth d.
BelowService(owner, d, o) ==
  /\ owner \in Seq(Segments) /\ Len(owner) = 2 * d
  /\ o \in Seq(Segments) /\ Len(o) = 2 * d + 2
  /\ \A i \in 1..(2 * d) : o[i] = owner[i]
  /\ OwnerOfServices(o, d + 1)

\* The path of a service is again one of services, one level down.
LEMMA ServicePath ==
  ASSUME NEW d \in Nat, NEW owner, OwnerOfServices(owner, d),
         NEW e \in Entries, e.kind = "services"
  PROVE  BelowService(owner, d, ResourcePath(owner, e))
  <1> DEFINE o == ResourcePath(owner, e)
  <1>1. o = ResourcePath(owner, e)
    OBVIOUS
  <1> HIDE DEF o
  <1>2. /\ owner \in Seq(Segments) /\ Len(owner) = 2 * d
        /\ o \in Seq(Segments) /\ Len(o) = 2 * d + 2
        /\ \A i \in 1..(2 * d) : o[i] = owner[i]
        /\ o[2 * d + 1] = e.kind
        /\ \A i \in 1..(2 * d + 2) : o[i] \notin {NoName, "**"}
    BY <1>1, PathParts
  <1>3. 2 * (d + 1) = 2 * d + 2
    OBVIOUS
  <1>4. ASSUME NEW k \in 1..(d + 1) PROVE o[2 * k - 1] = "services"
    <2>1. CASE k = d + 1
      <3>1. 2 * k - 1 = 2 * d + 1
        BY <2>1
      <3> QED BY <3>1, <1>2
    <2>2. CASE k # d + 1
      <3>1. k \in 1..d /\ 2 * k - 1 \in 1..(2 * d)
        BY <2>2, <1>4
      <3> QED BY <3>1, <1>2 DEF OwnerOfServices
    <2> QED BY <2>1, <2>2
  <1>5. OwnerOfServices(o, d + 1)
    BY <1>2, <1>3, <1>4 DEF OwnerOfServices
  <1>6. BelowService(owner, d, o)
    BY <1>2, <1>5 DEF BelowService
  <1> QED BY <1>6 DEF o

\* The visits one level below the visits vs.
NextVisits(vs) ==
  UNION {{[owner |-> ResourcePath(v.owner, e), service |-> e.child,
           ancestry |-> v.ancestry \cup {e.child}, times |-> v.times * e.listed] :
            e \in {f \in Listing(v.service) : Descends(v, f)}} : v \in vs}
FirstVisits == {[owner |-> <<>>, service |-> Root, ancestry |-> {Root}, times |-> 1]}

\* A function satisfies the recursion of Visits up to every bound.
LEMMA VisitsExist ==
  ASSUME NEW N \in Nat
  PROVE  \E f : f = [k \in 0..N |-> IF k = 0 THEN FirstVisits ELSE NextVisits(f[k - 1])]
  <1> DEFINE Has(n) == \E f : f = [k \in 0..n |-> IF k = 0 THEN FirstVisits
                                                  ELSE NextVisits(f[k - 1])]
             T == {n \in Nat : Has(n)}
  <1>1. Has(0)
    <2>1. [k \in 0..0 |-> FirstVisits] = [k \in 0..0 |->
             IF k = 0 THEN FirstVisits ELSE NextVisits([j \in 0..0 |-> FirstVisits][k - 1])]
      OBVIOUS
    <2> QED BY <2>1
  <1>2. ASSUME NEW n \in Nat, Has(n) PROVE Has(n + 1)
    <2>1. PICK f : f = [k \in 0..n |-> IF k = 0 THEN FirstVisits ELSE NextVisits(f[k - 1])]
      BY <1>2
    <2> DEFINE g == [k \in 0..(n + 1) |-> IF k <= n THEN f[k] ELSE NextVisits(f[n])]
    <2>2. ASSUME NEW k \in 0..(n + 1)
          PROVE  g[k] = IF k = 0 THEN FirstVisits ELSE NextVisits(g[k - 1])
      BY <2>1, <2>2
    <2>3. g = [k \in 0..(n + 1) |-> IF k = 0 THEN FirstVisits ELSE NextVisits(g[k - 1])]
      BY <2>2
    <2> QED BY <2>3
  <1> HIDE DEF Has
  <1>3. 0 \in T /\ \A n \in 0..N : n \in T /\ n < N => n + 1 \in T
    BY <1>1, <1>2
  <1>4. 0..N \subseteq T
    <2> HIDE DEF T
    <2> QED BY <1>3, BoundedInduction
  <1>5. Has(N)
    BY <1>4
  <1> QED BY <1>5 DEF Has

\* Visits is the function its definition describes.
LEMMA VisitsByDepth ==
  /\ Visits[0] = FirstVisits
  /\ \A k \in 1..MaximumServiceDepth : Visits[k] = NextVisits(Visits[k - 1])
  <1> DEFINE N == MaximumServiceDepth
  <1>1. N \in Nat
    BY PublicationPlanAssumption
  <1>2. Visits = [k \in 0..N |-> IF k = 0 THEN FirstVisits ELSE NextVisits(Visits[k - 1])]
    BY <1>1, VisitsExist DEF Visits, NextVisits, FirstVisits
  <1> HIDE DEF N
  <1>3. ASSUME NEW k \in 1..N PROVE Visits[k] = NextVisits(Visits[k - 1])
    BY <1>1, <1>2, <1>3
  <1>4. Visits[0] = FirstVisits
    BY <1>1, <1>2
  <1> QED BY <1>3, <1>4 DEF N

\* The record that discoverService() adds for entry e of visit v.
RecordFor(v, e, depth) ==
  [path |-> ResourcePath(v.owner, e), owner |-> v.owner, service |-> v.service,
   entry |-> e, times |-> v.times * e.listed, error |-> DiscoveryError(v, e, depth)]

\* Where a record comes from.
LEMMA RecordsByVisit ==
  /\ \A r \in Records : \E depth \in 0..MaximumServiceDepth : \E v \in Visits[depth] :
       \E e \in Listing(v.service) : r = RecordFor(v, e, depth)
  /\ \A depth \in 0..MaximumServiceDepth : \A v \in Visits[depth] :
       \A e \in Listing(v.service) : RecordFor(v, e, depth) \in Records
  BY DEF Records, RecordFor

\* A service that is listed m times in one that is visited n times is visited at
\* least once.
LEMMA AtLeastOnce ==
  ASSUME NEW n \in Nat \ {0}, NEW e \in Entries
  PROVE  n * e.listed \in Nat \ {0}
  <1> DEFINE m == e.listed
  <1>1. IsEntry(e)
    BY PublicationPlanAssumption
  <1>2. m \in Nat \ {0}
    BY <1>1 DEF IsEntry
  <1> HIDE DEF m
  <1>3. n * m \in Nat \ {0}
    BY <1>2
  <1> QED BY <1>3 DEF m

\* Each visit is at a service whose path consists of services of the inventory.
LEMMA VisitsAreServices ==
  ASSUME iface \in [Services -> SUBSET Entries]
  PROVE  \A d \in 0..MaximumServiceDepth : \A v \in Visits[d] :
           /\ OwnerOfServices(v.owner, d) /\ v.service \in Services
           /\ v.times \in Nat \ {0}
           /\ \A k \in 1..d : SubSeq(v.owner, 1, 2 * k) \in Paths(Records)
  <1> DEFINE N == MaximumServiceDepth
             Good(d) == \A v \in Visits[d] :
               /\ OwnerOfServices(v.owner, d) /\ v.service \in Services
               /\ v.times \in Nat \ {0}
               /\ \A k \in 1..d : SubSeq(v.owner, 1, 2 * k) \in Paths(Records)
             T == {d \in 0..N : Good(d)}
  <1>1. N \in Nat
    BY PublicationPlanAssumption
  <1>2. Good(0)
    <2> SUFFICES ASSUME NEW v \in Visits[0]
                 PROVE  /\ OwnerOfServices(v.owner, 0) /\ v.service \in Services
                        /\ v.times \in Nat \ {0}
                        /\ \A k \in 1..0 : SubSeq(v.owner, 1, 2 * k) \in Paths(Records)
      OBVIOUS
    <2>1. v.owner = <<>> /\ v.service = Root /\ v.times = 1
      BY VisitsByDepth DEF FirstVisits
    <2>2. <<>> \in Seq(Segments) /\ Len(<<>>) = 2 * 0
      BY EmptySeq
    <2> QED BY <2>1, <2>2, PublicationPlanAssumption DEF OwnerOfServices
  <1>3. ASSUME NEW d \in 0..N, Good(d), d < N PROVE Good(d + 1)
    <2> SUFFICES ASSUME NEW v \in Visits[d + 1]
                 PROVE  /\ OwnerOfServices(v.owner, d + 1) /\ v.service \in Services
                        /\ v.times \in Nat \ {0}
                        /\ \A k \in 1..(d + 1) : SubSeq(v.owner, 1, 2 * k) \in Paths(Records)
      OBVIOUS
    <2>1. d + 1 \in 1..N /\ (d + 1) - 1 = d /\ d \in Nat
      BY <1>1, <1>3
    <2>2. v \in NextVisits(Visits[d])
      BY <2>1, VisitsByDepth
    <2>3. PICK w \in Visits[d] : \E e \in {f \in Listing(w.service) : Descends(w, f)} :
            v = [owner |-> ResourcePath(w.owner, e), service |-> e.child,
                 ancestry |-> w.ancestry \cup {e.child}, times |-> w.times * e.listed]
      BY <2>2 DEF NextVisits
    <2>4. PICK e \in Listing(w.service) :
            /\ Descends(w, e) /\ v.owner = ResourcePath(w.owner, e) /\ v.service = e.child
            /\ v.times = w.times * e.listed
      BY <2>3
    <2>5. /\ OwnerOfServices(w.owner, d) /\ w.service \in Services
          /\ w.times \in Nat \ {0}
          /\ \A k \in 1..d : SubSeq(w.owner, 1, 2 * k) \in Paths(Records)
      BY <1>3
    <2>6. e \in Entries /\ e.kind = "services"
      BY <2>4, <2>5 DEF Descends, Listing
    <2> DEFINE o == v.owner
    <2>7. /\ w.owner \in Seq(Segments) /\ Len(w.owner) = 2 * d
          /\ o \in Seq(Segments) /\ Len(o) = 2 * d + 2
          /\ \A i \in 1..(2 * d) : o[i] = w.owner[i]
          /\ OwnerOfServices(o, d + 1)
      <3> DEFINE wo == w.owner
      <3>1. /\ d \in Nat /\ OwnerOfServices(wo, d) /\ e \in Entries /\ e.kind = "services"
            /\ o = ResourcePath(wo, e)
        BY <2>1, <2>4, <2>5, <2>6
      <3> HIDE DEF o, wo
      <3>2. BelowService(wo, d, o)
        BY <3>1, ServicePath
      <3> QED BY <3>2 DEF wo, BelowService
    <2>8. v.service \in Services
      BY <2>4, <2>6, SegmentsOfEntry
    <2>9. v.times \in Nat \ {0}
      <3> DEFINE n == w.times
      <3>1. n \in Nat \ {0} /\ e \in Entries /\ v.times = n * e.listed
        BY <2>4, <2>5, <2>6
      <3> HIDE DEF n
      <3> QED BY <3>1, AtLeastOnce
    <2>10. ASSUME NEW k \in 1..(d + 1) PROVE SubSeq(o, 1, 2 * k) \in Paths(Records)
      <3>1. CASE k = d + 1
        <4>1. SubSeq(o, 1, 2 * k) = o
          <5>1. 2 * k = Len(o)
            BY <3>1, <2>1, <2>7
          <5> QED BY <5>1, <2>7, SubSeqFull
        <4>2. RecordFor(w, e, d) \in Records /\ RecordFor(w, e, d).path = o
          BY <2>4, RecordsByVisit DEF RecordFor
        <4> QED BY <4>1, <4>2 DEF Paths
      <3>2. CASE k # d + 1
        <4>1. k \in 1..d
          BY <3>2, <2>10, <2>1
        <4>2. SubSeq(w.owner, 1, 2 * k) \in Paths(Records)
          BY <4>1, <2>5
        <4>3. SubSeq(o, 1, 2 * k) = SubSeq(w.owner, 1, 2 * k)
          <5>1. 2 * k \in Nat /\ 2 * k <= Len(o) /\ 2 * k <= Len(w.owner)
            BY <4>1, <2>1, <2>7
          <5>2. \A i \in 1..(2 * k) : i \in 1..(2 * d)
            BY <4>1, <2>1
          <5> QED BY <5>1, <5>2, <2>7, SamePrefix
        <4> QED BY <4>2, <4>3
      <3> QED BY <3>1, <3>2
    <2> QED BY <2>7, <2>8, <2>9, <2>10
  <1> HIDE DEF Good
  <1>4. 0 \in T /\ \A d \in 0..N : d \in T /\ d < N => d + 1 \in T
    BY <1>1, <1>2, <1>3
  <1>5. 0..N \subseteq T
    <2> HIDE DEF T, N
    <2> QED BY <1>1, <1>4, BoundedInduction
  <1> QED BY <1>5 DEF Good

\* The ancestors of a service at depth d are its prefixes of even length.
LEMMA AncestorsOfService ==
  ASSUME NEW d \in Nat, NEW owner, OwnerOfServices(owner, d)
  PROVE  /\ \A p : p \in ServiceAncestors(owner) <=>
                    \E k \in 1..d : p = SubSeq(owner, 1, 2 * k)
         /\ owner = <<>> \/ owner \in ServiceAncestors(owner)
         /\ d = 0 => owner = <<>>
  <1>1. owner \in Seq(Segments) /\ Len(owner) = 2 * d
    BY DEF OwnerOfServices
  <1>2. Len(owner) \div 2 = d
    BY <1>1
  <1>3. \A p : p \in ServiceAncestors(owner) <=>
               \E k \in 1..d : p = SubSeq(owner, 1, 2 * k)
    BY <1>2 DEF ServiceAncestors
  <1>4. CASE d = 0
    <2>1. Len(owner) = 0
      BY <1>1, <1>4
    <2>2. owner = <<>>
      BY <2>1, <1>1, EmptySeq
    <2> QED BY <2>2, <1>3
  <1>5. CASE d # 0
    <2>1. d \in 1..d
      BY <1>5
    <2>2. SubSeq(owner, 1, 2 * d) = owner
      BY <1>1, SubSeqFull
    <2> QED BY <2>1, <2>2, <1>3, <1>5
  <1> QED BY <1>4, <1>5

\* What discovery finds is an inventory in which each record has its owners.
LEMMA RecordsAreRecords ==
  ASSUME iface \in [Services -> SUBSET Entries]
  PROVE  \A r \in Records : /\ IsRecord(r) /\ r.entry \in iface[r.service]
                            /\ ServiceAncestors(r.owner) \subseteq Paths(Records)
  <1> SUFFICES ASSUME NEW r \in Records
               PROVE  /\ IsRecord(r) /\ r.entry \in iface[r.service]
                      /\ ServiceAncestors(r.owner) \subseteq Paths(Records)
    OBVIOUS
  <1>1. PICK d \in 0..MaximumServiceDepth : \E v \in Visits[d] :
          \E e \in Listing(v.service) : r = RecordFor(v, e, d)
    BY RecordsByVisit
  <1>2. PICK v \in Visits[d] : \E e \in Listing(v.service) : r = RecordFor(v, e, d)
    BY <1>1
  <1>3. PICK e \in Listing(v.service) : r = RecordFor(v, e, d)
    BY <1>2
  <1>4. /\ r.owner = v.owner /\ r.path = ResourcePath(v.owner, e)
        /\ r.service = v.service /\ r.entry = e /\ r.times = v.times * e.listed
        /\ r.error = DiscoveryError(v, e, d)
    BY <1>3 DEF RecordFor
  <1>5. /\ OwnerOfServices(v.owner, d) /\ v.service \in Services
        /\ v.times \in Nat \ {0}
        /\ \A k \in 1..d : SubSeq(v.owner, 1, 2 * k) \in Paths(Records)
    BY VisitsAreServices
  <1>6. d \in Nat /\ e \in Entries /\ e \in iface[v.service]
    BY <1>5, PublicationPlanAssumption DEF Listing
  <1>7. IsRecord(r)
    <2>1. r.times \in Nat \ {0}
      <3> DEFINE n == v.times
      <3>1. n \in Nat \ {0} /\ e \in Entries /\ r.times = n * e.listed
        BY <1>4, <1>5, <1>6
      <3> HIDE DEF n
      <3> QED BY <3>1, AtLeastOnce
    <2>2. ~r.error => r.entry.found
      BY <1>4 DEF DiscoveryError
    <2> QED BY <2>1, <2>2, <1>4, <1>5, <1>6 DEF IsRecord
  <1>8. ServiceAncestors(r.owner) \subseteq Paths(Records)
    <2> DEFINE owner == v.owner
    <2>1. /\ OwnerOfServices(owner, d) /\ d \in Nat /\ r.owner = owner
          /\ \A k \in 1..d : SubSeq(owner, 1, 2 * k) \in Paths(Records)
      BY <1>4, <1>5, <1>6
    <2> HIDE DEF owner
    <2>2. \A p \in ServiceAncestors(owner) : \E k \in 1..d : p = SubSeq(owner, 1, 2 * k)
      BY <2>1, AncestorsOfService
    <2> QED BY <2>1, <2>2
  <1> QED BY <1>4, <1>6, <1>7, <1>8

\* The parts of the path of a record.
LEMMA RecordParts ==
  ASSUME NEW r, IsRecord(r)
  PROVE  \E d \in Nat :
           /\ OwnerOfServices(r.owner, d) /\ r.entry \in Entries
           /\ r.owner \in Seq(Segments) /\ Len(r.owner) = 2 * d
           /\ r.path \in Seq(Segments) /\ Len(r.path) = 2 * d + 2 /\ r.path # <<>>
           /\ \A i \in 1..(2 * d) : r.path[i] = r.owner[i]
           /\ r.path[2 * d + 1] = r.entry.kind
           /\ r.path[2 * d + 2] = Escape(r.entry.name)
           /\ Front(r.path) = CategoryPath(r)
           /\ SubSeq(r.path, 1, 2 * d) = r.owner
           /\ \A i \in 1..(2 * d + 2) : r.path[i] \notin {NoName, "**"}
  <1>1. PICK d \in Nat : OwnerOfServices(r.owner, d)
    BY DEF IsRecord
  <1>2. r.entry \in Entries /\ r.path = ResourcePath(r.owner, r.entry)
    BY DEF IsRecord
  <1> DEFINE owner == r.owner
             e == r.entry
             path == r.path
  <1>3. OwnerOfServices(owner, d) /\ e \in Entries /\ path = ResourcePath(owner, e)
    BY <1>1, <1>2
  <1> HIDE DEF owner, e, path
  <1>4. /\ owner \in Seq(Segments) /\ Len(owner) = 2 * d
        /\ path \in Seq(Segments) /\ Len(path) = 2 * d + 2 /\ path # <<>>
        /\ \A i \in 1..(2 * d) : path[i] = owner[i]
        /\ path[2 * d + 1] = e.kind /\ path[2 * d + 2] = Escape(e.name)
        /\ Front(path) = Append(owner, e.kind)
        /\ SubSeq(path, 1, 2 * d) = owner
        /\ \A i \in 1..(2 * d + 2) : path[i] \notin {NoName, "**"}
    BY <1>3, PathParts
  <1> QED BY <1>3, <1>4 DEF owner, e, path, CategoryPath

\* Records of one path have the same owner, kind and written name.
LEMMA SamePathSameOwner ==
  ASSUME NEW q, NEW r, IsRecord(q), IsRecord(r), q.path = r.path
  PROVE  /\ q.owner = r.owner /\ q.entry.kind = r.entry.kind
         /\ Escape(q.entry.name) = Escape(r.entry.name)
  <1>1. PICK c \in Nat : /\ Len(q.path) = 2 * c + 2
                         /\ q.path[2 * c + 1] = q.entry.kind
                         /\ q.path[2 * c + 2] = Escape(q.entry.name)
                         /\ SubSeq(q.path, 1, 2 * c) = q.owner
    BY RecordParts
  <1>2. PICK d \in Nat : /\ Len(r.path) = 2 * d + 2
                         /\ r.path[2 * d + 1] = r.entry.kind
                         /\ r.path[2 * d + 2] = Escape(r.entry.name)
                         /\ SubSeq(r.path, 1, 2 * d) = r.owner
    BY RecordParts
  <1>3. c = d
    BY <1>1, <1>2
  <1> QED BY <1>1, <1>2, <1>3

\* A path that is an ancestor of a record's owner: it belongs to a service, is a
\* prefix of the record's path, and its own owner is an ancestor too.
LEMMA AncestorParts ==
  ASSUME NEW q, IsRecord(q), NEW r, IsRecord(r), r.path \in ServiceAncestors(q.owner)
  PROVE  /\ r.entry.kind = "services" /\ IsStrictPrefix(r.path, q.path)
         /\ r.owner = <<>> \/ r.owner \in ServiceAncestors(q.owner)
  <1>1. PICK d \in Nat : /\ OwnerOfServices(q.owner, d)
                         /\ q.owner \in Seq(Segments) /\ Len(q.owner) = 2 * d
                         /\ q.path \in Seq(Segments) /\ Len(q.path) = 2 * d + 2
                         /\ \A i \in 1..(2 * d) : q.path[i] = q.owner[i]
    BY RecordParts
  <1>2. PICK c \in Nat : /\ OwnerOfServices(r.owner, c)
                         /\ r.path \in Seq(Segments) /\ Len(r.path) = 2 * c + 2
                         /\ r.path[2 * c + 1] = r.entry.kind
                         /\ SubSeq(r.path, 1, 2 * c) = r.owner
    BY RecordParts
  <1>3. PICK k \in 1..d : r.path = SubSeq(q.owner, 1, 2 * k)
    <2> DEFINE owner == q.owner
               p == r.path
    <2>1. OwnerOfServices(owner, d) /\ p \in ServiceAncestors(owner)
      BY <1>1
    <2> HIDE DEF owner, p
    <2>2. \E k \in 1..d : p = SubSeq(owner, 1, 2 * k)
      BY <2>1, AncestorsOfService
    <2> QED BY <2>2 DEF owner, p
  <1>4. k \in Nat /\ 2 * k \in 0..Len(q.owner) /\ 2 * k \in Nat
    BY <1>1, <1>3
  <1>5. Len(r.path) = 2 * k /\ \A i \in 1..(2 * k) : r.path[i] = q.owner[i]
    BY <1>1, <1>3, <1>4, PrefixParts
  <1>6. k = c + 1 /\ 2 * c + 1 = 2 * k - 1 /\ 2 * k - 1 \in 1..(2 * k)
    BY <1>2, <1>4, <1>5
  <1>7. r.entry.kind = "services"
    BY <1>1, <1>2, <1>3, <1>5, <1>6 DEF OwnerOfServices
  <1>8. IsStrictPrefix(r.path, q.path)
    <2>1. /\ 2 * k <= Len(r.path) /\ 2 * k <= Len(q.path) /\ Len(r.path) # Len(q.path)
          /\ \A i \in 1..(2 * k) : i \in 1..(2 * d)
      BY <1>1, <1>3, <1>4, <1>5
    <2>2. SubSeq(r.path, 1, 2 * k) = SubSeq(q.path, 1, 2 * k)
      BY <1>1, <1>2, <1>4, <1>5, <2>1, SamePrefix
    <2> QED BY <1>5, <2>1, <2>2 DEF IsStrictPrefix, IsPrefix
  <1>9. c = 0 => r.owner = <<>>
    BY <1>2, AncestorsOfService
  <1>10. ASSUME c # 0 PROVE r.owner \in ServiceAncestors(q.owner)
    <2>1. c \in 1..d /\ 2 * c \in Nat /\ 2 * c <= Len(r.path) /\ 2 * c <= Len(q.owner)
      BY <1>1, <1>2, <1>3, <1>6, <1>10
    <2>2. \A i \in 1..(2 * c) : i \in 1..(2 * k)
      BY <1>6
    <2>3. SubSeq(r.path, 1, 2 * c) = SubSeq(q.owner, 1, 2 * c)
      BY <1>1, <1>2, <1>5, <2>1, <2>2, SamePrefix
    <2>4. r.owner = SubSeq(q.owner, 1, 2 * c)
      BY <1>2, <2>3
    <2>5. \E j \in 1..d : r.owner = SubSeq(q.owner, 1, 2 * j)
      BY <2>1, <2>4
    <2>6. r.owner \in ServiceAncestors(q.owner)
      BY <1>1, <2>5, AncestorsOfService
    <2> QED BY <2>6
  <1>11. r.owner = <<>> \/ r.owner \in ServiceAncestors(q.owner)
    BY <1>9, <1>10
  <1> QED BY <1>7, <1>8, <1>11

\* Conversely, a service whose path begins the path of a record is an ancestor
\* of its owner.
LEMMA StrictPrefixIsAncestor ==
  ASSUME NEW q, IsRecord(q), NEW r, IsRecord(r), IsStrictPrefix(r.path, q.path)
  PROVE  r.path \in ServiceAncestors(q.owner)
  <1>1. PICK d \in Nat : /\ OwnerOfServices(q.owner, d)
                         /\ q.owner \in Seq(Segments) /\ Len(q.owner) = 2 * d
                         /\ q.path \in Seq(Segments) /\ Len(q.path) = 2 * d + 2
                         /\ \A i \in 1..(2 * d) : q.path[i] = q.owner[i]
    BY RecordParts
  <1>2. PICK c \in Nat : r.path \in Seq(Segments) /\ Len(r.path) = 2 * c + 2
    BY RecordParts
  <1>3. /\ Len(r.path) <= Len(q.path) /\ r.path # q.path
        /\ SubSeq(r.path, 1, Len(r.path)) = SubSeq(q.path, 1, Len(r.path))
    BY DEF IsStrictPrefix, IsPrefix
  <1>4. r.path = SubSeq(q.path, 1, Len(r.path))
    BY <1>2, <1>3, SubSeqFull
  <1>5. Len(r.path) # Len(q.path)
    BY <1>1, <1>3, <1>4, SubSeqFull
  <1> DEFINE k == c + 1
  <1>6. /\ k \in 1..d /\ 2 * k = Len(r.path) /\ 2 * k \in Nat
        /\ 2 * k <= Len(q.owner) /\ 2 * k <= Len(q.path)
        /\ \A i \in 1..(2 * k) : i \in 1..(2 * d)
    BY <1>1, <1>2, <1>3, <1>5
  <1> HIDE DEF k
  <1>7. SubSeq(q.path, 1, 2 * k) = SubSeq(q.owner, 1, 2 * k)
    BY <1>1, <1>6, SamePrefix
  <1>8. r.path = SubSeq(q.owner, 1, 2 * k)
    BY <1>4, <1>6, <1>7
  <1> QED BY <1>1, <1>6, <1>8, AncestorsOfService

\* RecordOf() finds a record of the path.
LEMMA RecordOfPath ==
  ASSUME NEW p \in Paths(inventory)
  PROVE  RecordOf(p) \in inventory /\ RecordOf(p).path = p
  <1>1. \E r \in inventory : r.path = p
    BY DEF Paths
  <1> QED BY <1>1 DEF RecordOf

-----------------------------------------------------------------------------
(* Selectors                                                               *)

\* What a recursive selector is expanded to: n wildcards take the place of its
\* last segment.
Expanded(s, n) == Front(s) \o [i \in 1..n |-> "*"]

\* The segments of the expansion.
LEMMA FlatParts ==
  ASSUME NEW s \in Seq(STRING), s # <<>>, NEW n \in Nat, NEW flat,
         flat = Expanded(s, n)
  PROVE  /\ Len(flat) = Len(s) - 1 + n /\ DOMAIN flat = 1..Len(flat)
         /\ \A i \in 1..(Len(s) - 1) : flat[i] = s[i]
         /\ \A i \in 1..Len(flat) : i \notin 1..(Len(s) - 1) => flat[i] = "*"
  <1> DEFINE S == STRING \cup {"*"}
             stars == [i \in 1..n |-> "*"]
             front == SubSeq(s, 1, Len(s) - 1)
  <1>1. s \in Seq(S) /\ "*" \in S
    BY SeqMonotonic
  <1> HIDE DEF S
  <1>2. Len(s) \in Nat /\ Len(s) # 0
    BY <1>1, EmptySeq, LenProperties
  <1>3. Len(s) - 1 \in 0..Len(s) /\ Len(s) - 1 \in Nat
    BY <1>2
  <1>4. /\ front \in Seq(S) /\ Len(front) = Len(s) - 1
        /\ \A i \in 1..(Len(s) - 1) : front[i] = s[i]
    BY <1>1, <1>3, PrefixParts
  <1>5. stars \in Seq(S) /\ Len(stars) = n /\ \A i \in 1..n : stars[i] = "*"
    BY <1>1
  <1> HIDE DEF stars, front
  <1>6. flat = front \o stars
    BY DEF front, stars, Front, Expanded
  <1> DEFINE u == front \o stars
  <1>71. /\ u \in Seq(S) /\ Len(u) = Len(front) + Len(stars)
         /\ \A i \in 1..(Len(front) + Len(stars)) :
              u[i] = IF i <= Len(front) THEN front[i] ELSE stars[i - Len(front)]
    <2>1. front \in Seq(S) /\ stars \in Seq(S)
      BY <1>4, <1>5
    <2> QED BY <2>1, ConcatProperties
  <1>72. flat = u
    BY <1>6
  <1> HIDE DEF u
  <1>7. /\ flat \in Seq(S) /\ Len(flat) = Len(front) + Len(stars)
        /\ \A i \in 1..(Len(front) + Len(stars)) :
             flat[i] = IF i <= Len(front) THEN front[i] ELSE stars[i - Len(front)]
    BY <1>71, <1>72
  <1>8. DOMAIN flat = 1..Len(flat)
    BY <1>7, LenProperties
  <1>9. ASSUME NEW i \in 1..(Len(s) - 1) PROVE flat[i] = s[i]
    <2>1. i \in 1..(Len(front) + Len(stars)) /\ i <= Len(front)
      BY <1>3, <1>4, <1>5, <1>9
    <2> QED BY <2>1, <1>4, <1>7, <1>9
  <1>10. ASSUME NEW i \in 1..Len(flat), i \notin 1..(Len(s) - 1) PROVE flat[i] = "*"
    <2>1. /\ i \in 1..(Len(front) + Len(stars)) /\ ~(i <= Len(front))
          /\ i - Len(front) \in 1..n
      BY <1>3, <1>4, <1>5, <1>7, <1>10
    <2> QED BY <2>1, <1>5, <1>7
  <1> QED BY <1>4, <1>5, <1>7, <1>8, <1>9, <1>10

\* What a well-formed selector matches, segment by segment.
FixedLength(s) == IF Last(s) = "**" THEN Len(s) - 1 ELSE Len(s)

\* The segments of a selector that is well formed, by place.
LEMMA WellFormed ==
  ASSUME NEW s \in Selectors
  PROVE  /\ s \in Seq(STRING) /\ Len(s) \in Nat /\ (s # <<>> => Len(s) # 0)
         /\ s # <<>> => Last(s) = s[Len(s)] /\ FixedLength(s) \in 0..Len(s)
         /\ ~Malformed(s) <=>
              /\ s # <<>>
              /\ \A i \in 1..FixedLength(s) : s[i] \notin NotCanonical \cup {NoName, "**"}
  <1>1. s \in Seq(STRING)
    BY PublicationPlanAssumption
  <1>2. Len(s) \in Nat /\ DOMAIN s = 1..Len(s) /\ (s # <<>> => Len(s) # 0)
    BY <1>1, EmptySeq, LenProperties
  <1>3. s # <<>> => Last(s) = s[Len(s)] /\ FixedLength(s) \in 0..Len(s)
    BY <1>2 DEF Last, FixedLength
  <1>4. ASSUME ~Malformed(s)
        PROVE  /\ s # <<>>
               /\ \A i \in 1..FixedLength(s) : s[i] \notin NotCanonical \cup {NoName, "**"}
    <2>1. /\ s # <<>>
          /\ \A i \in 1..Len(s) : /\ s[i] \notin NotCanonical \cup {NoName}
                                  /\ s[i] = "**" => i = Len(s)
      BY <1>2, <1>4 DEF Malformed
    <2> DEFINE L == FixedLength(s)
               len == Len(s)
    <2>2. \/ s[len] = "**" /\ L = len - 1
          \/ s[len] # "**" /\ L = len
      BY <1>3, <2>1 DEF FixedLength
    <2>3. len \in Nat /\ len # 0
      BY <1>2, <2>1
    <2> HIDE DEF L, len
    <2>4. ASSUME NEW i \in 1..L PROVE i \in 1..len /\ (i = len => L = len)
      BY <2>2, <2>3, <2>4
    <2>5. ASSUME NEW i \in 1..L PROVE s[i] # "**"
      <3>1. i \in 1..len /\ (i = len => s[len] # "**")
        BY <2>2, <2>3, <2>4, <2>5
      <3> QED BY <2>1, <3>1 DEF len
    <2>6. \A i \in 1..L : s[i] \notin NotCanonical \cup {NoName, "**"}
      BY <2>1, <2>4, <2>5 DEF len
    <2> QED BY <2>1, <2>6 DEF L
  <1>5. ASSUME s # <<>>,
               \A i \in 1..FixedLength(s) : s[i] \notin NotCanonical \cup {NoName, "**"}
        PROVE  ~Malformed(s)
    <2>1. ASSUME NEW i \in 1..Len(s)
          PROVE  s[i] \notin NotCanonical \cup {NoName} /\ (s[i] = "**" => i = Len(s))
      <3>1. CASE i \in 1..FixedLength(s)
        BY <3>1, <1>5
      <3>2. CASE i \notin 1..FixedLength(s)
        <4> DEFINE L == FixedLength(s)
                   len == Len(s)
        <4>0. /\ len \in Nat /\ len # 0 /\ i \in 1..len /\ i \notin 1..L
              /\ \/ s[len] = "**" /\ L = len - 1
                 \/ s[len] # "**" /\ L = len
          BY <1>2, <1>3, <1>5, <2>1, <3>2 DEF FixedLength
        <4> HIDE DEF L, len
        <4>1. i = len /\ s[len] = "**"
          BY <4>0
        <4>2. i = Len(s) /\ s[i] = "**"
          BY <4>1 DEF len
        <4>3. "**" # NoName
          BY Zenon DEF NoName
        <4> QED BY <4>2, <4>3, PublicationPlanAssumption
      <3> QED BY <3>1, <3>2
    <2> QED BY <1>2, <1>5, <2>1 DEF Malformed
  <1> QED BY <1>1, <1>2, <1>3, <1>4, <1>5

\* The matcher does what the expansion of a selector says: a well-formed selector
\* matches exactly the paths it covers, and a malformed one covers none.
LEMMA CoversIsMatch ==
  ASSUME NEW s \in Selectors, NEW r, IsRecord(r)
  PROVE  Covers(s, r.path) <=> ~Malformed(s) /\ Matches(s, r.path)
  <1> DEFINE p == r.path
             L == FixedLength(s)
             wild == Last(s) = "**"
  <1>1. PICK d \in Nat : /\ p \in Seq(Segments) /\ Len(p) = 2 * d + 2
                         /\ \A i \in 1..(2 * d + 2) : p[i] \notin {NoName, "**"}
    BY RecordParts
  <1>2. Len(p) \in Nat /\ Len(p) # 0 /\ \A i \in 1..Len(p) : p[i] \notin {NoName, "**"}
    BY <1>1
  <1> HIDE DEF p, L
  <1>3. /\ s \in Seq(STRING) /\ Len(s) \in Nat /\ (s # <<>> => Len(s) # 0)
        /\ s # <<>> => Last(s) = s[Len(s)] /\ L \in 0..Len(s)
        /\ ~Malformed(s) <=>
             s # <<>> /\ \A i \in 1..L : s[i] \notin NotCanonical \cup {NoName, "**"}
    BY WellFormed DEF L
  <1>4. "*" # NoName
    BY Zenon DEF NoName
  <1>5. DOMAIN s = 1..Len(s)
    BY <1>3, LenProperties
  <1>6. Matches(s, p) <=> /\ IF wild THEN Len(p) >= L ELSE Len(p) = L
                          /\ \A i \in 1..L : s[i] \in {"*", p[i]}
    BY DEF Matches, L, FixedLength
  <1>7. ASSUME Covers(s, p) PROVE ~Malformed(s) /\ Matches(s, p)
    <2> DEFINE Flat(n) == IF s # <<>> /\ wild THEN Front(s) \o [i \in 1..n |-> "*"] ELSE s
    <2>1. PICK n \in 0..Len(p) :
            /\ Len(Flat(n)) = Len(p)
            /\ \A i \in DOMAIN Flat(n) :
                 Flat(n)[i] \in {"*", p[i]} /\ Flat(n)[i] \notin NotCanonical
      BY <1>7 DEF Covers
    <2>2. s # <<>>
      <3>1. s = <<>> => Len(Flat(n)) = 0
        BY <1>3, EmptySeq
      <3> QED BY <3>1, <2>1, <1>2
    <2>3. /\ \A i \in 1..L : s[i] \in {"*", p[i]} /\ s[i] \notin NotCanonical /\ i \in 1..Len(p)
          /\ IF wild THEN Len(p) >= L ELSE Len(p) = L
      <3>1. CASE wild
        <4> DEFINE flat == Flat(n)
        <4>1. flat = Expanded(s, n)
          BY <3>1, <2>2 DEF Expanded
        <4>2. n \in Nat /\ L = Len(s) - 1
          BY <2>1, <1>2, <3>1 DEF L, FixedLength
        <4> HIDE DEF flat
        <4>3. /\ Len(flat) = Len(s) - 1 + n /\ DOMAIN flat = 1..Len(flat)
              /\ \A i \in 1..(Len(s) - 1) : flat[i] = s[i]
          <5>1. s \in Seq(STRING) /\ s # <<>> /\ n \in Nat
            BY <4>2, <1>3, <2>2
          <5> QED BY <4>1, <5>1, FlatParts
        <4>4. /\ Len(flat) = Len(p)
              /\ \A i \in DOMAIN flat : flat[i] \in {"*", p[i]} /\ flat[i] \notin NotCanonical
          BY <2>1 DEF flat
        <4>5. Len(p) >= L /\ \A i \in 1..L : i \in 1..Len(p)
          BY <4>2, <4>3, <4>4, <1>2, <1>3, <2>2
        <4> QED BY <4>2, <4>3, <4>4, <4>5, <3>1
      <3>2. CASE ~wild
        <4>1. Flat(n) = s /\ L = Len(s)
          BY <3>2 DEF L, FixedLength
        <4> QED BY <4>1, <2>1, <1>5, <3>2
      <3> QED BY <3>1, <3>2
    <2>4. \A i \in 1..L : s[i] \notin NotCanonical \cup {NoName, "**"}
      BY <2>3, <1>2, <1>4
    <2>5. Matches(s, p)
      BY <2>3, <1>6
    <2> QED BY <2>2, <2>4, <2>5, <1>3
  <1>8. ASSUME ~Malformed(s), Matches(s, p) PROVE Covers(s, p)
    <2>1. /\ s # <<>> /\ \A i \in 1..L : s[i] \notin NotCanonical
          /\ IF wild THEN Len(p) >= L ELSE Len(p) = L
          /\ \A i \in 1..L : s[i] \in {"*", p[i]}
      BY <1>3, <1>6, <1>8
    <2>2. CASE wild
      <3> DEFINE n == Len(p) - L
                 flat == Front(s) \o [i \in 1..n |-> "*"]
      <3>1. L = Len(s) - 1 /\ n \in 0..Len(p) /\ n \in Nat
        BY <2>1, <2>2, <1>2, <1>3 DEF L, FixedLength
      <3>2. Len(s) - 1 + n = Len(p)
        BY <3>1, <1>2, <1>3
      <3> HIDE DEF n
      <3>3. flat = Expanded(s, n)
        BY DEF Expanded
      <3> HIDE DEF flat
      <3>4. /\ Len(flat) = Len(s) - 1 + n /\ DOMAIN flat = 1..Len(flat)
            /\ \A i \in 1..(Len(s) - 1) : flat[i] = s[i]
            /\ \A i \in 1..Len(flat) : i \notin 1..(Len(s) - 1) => flat[i] = "*"
        <4>1. s \in Seq(STRING) /\ s # <<>> /\ n \in Nat
          BY <3>1, <1>3, <2>1
        <4> QED BY <3>3, <4>1, FlatParts
      <3>5. "*" \notin NotCanonical
        BY PublicationPlanAssumption
      <3>6. \A i \in DOMAIN flat : flat[i] \in {"*", p[i]} /\ flat[i] \notin NotCanonical
        <4> SUFFICES ASSUME NEW i \in 1..Len(flat)
                     PROVE  flat[i] \in {"*", p[i]} /\ flat[i] \notin NotCanonical
          BY <3>4
        <4>1. CASE i \in 1..(Len(s) - 1)
          BY <4>1, <3>1, <3>4, <2>1
        <4>2. CASE i \notin 1..(Len(s) - 1)
          BY <4>2, <3>4, <3>5
        <4> QED BY <4>1, <4>2
      <3>7. Len(flat) = Len(p)
        BY <3>2, <3>4
      <3> QED BY <3>1, <3>3, <3>6, <3>7, <2>1, <2>2 DEF Covers, Expanded
    <2>3. CASE ~wild
      <3>1. L = Len(s) /\ 0 \in 0..Len(p)
        BY <2>3, <1>2 DEF L, FixedLength
      <3>2. Len(s) = Len(p) /\ \A i \in DOMAIN s : s[i] \in {"*", p[i]} /\ s[i] \notin NotCanonical
        BY <2>1, <2>3, <3>1, <1>5
      <3> QED BY <3>1, <3>2, <2>3 DEF Covers
    <2> QED BY <2>2, <2>3
  <1> QED BY <1>7, <1>8 DEF p

-----------------------------------------------------------------------------
(* The effective set                                                       *)

\* The written name of a mandatory operation is its name and no other's.
LEMMA MandatoryNames ==
  ASSUME NEW n \in Mandatory, NEW name, name # "%00"
  PROVE  Escape(n) = n /\ (Escape(name) = Escape(n) => name = n)
  <1>1. n \notin {NoName, "NUL", "%00"}
    BY PublicationPlanAssumption
  <1> QED BY <1>1 DEF Escape

\* The mandatory paths are those of the component's own mandatory operations.
LEMMA MandatoryParts ==
  ASSUME NEW r, IsRecord(r)
  PROVE  r.path \in MandatoryPaths <=>
           r.owner = <<>> /\ r.entry.kind = "operations" /\ r.entry.name \in Mandatory
  <1>1. PICK d \in Nat : /\ OwnerOfServices(r.owner, d) /\ r.entry \in Entries
                         /\ r.path \in Seq(Segments) /\ Len(r.path) = 2 * d + 2
                         /\ r.path[2 * d + 1] = r.entry.kind
                         /\ r.path[2 * d + 2] = Escape(r.entry.name)
                         /\ Len(r.owner) = 2 * d
    BY RecordParts
  <1>2. IsEntry(r.entry)
    BY <1>1, PublicationPlanAssumption
  <1>3. r.entry.name # "%00"
    BY <1>2 DEF IsEntry
  <1>4. ASSUME r.path \in MandatoryPaths
        PROVE  r.owner = <<>> /\ r.entry.kind = "operations" /\ r.entry.name \in Mandatory
    <2>1. PICK n \in Mandatory : r.path = <<"operations", Escape(n)>>
      BY <1>4 DEF MandatoryPaths
    <2>2. Len(r.path) = 2 /\ r.path[1] = "operations" /\ r.path[2] = Escape(n)
      BY <2>1
    <2>3. d = 0
      BY <1>1, <2>2
    <2>4. r.entry.kind = "operations" /\ Escape(r.entry.name) = Escape(n)
      BY <1>1, <2>2, <2>3
    <2>5. r.owner = <<>>
      BY <1>1, <2>3, AncestorsOfService
    <2>6. r.entry.name = n
      BY <1>3, <2>4, MandatoryNames
    <2> QED BY <2>4, <2>5, <2>6
  <1>5. ASSUME r.owner = <<>>, r.entry.kind = "operations", r.entry.name \in Mandatory
        PROVE  r.path \in MandatoryPaths
    <2> DEFINE x == "operations"
               y == Escape(r.entry.name)
               p == r.path
               u == <<x, y>>
    <2>1. d = 0
      <3>1. Len(r.owner) = 0
        BY <1>5, EmptySeq
      <3> QED BY <3>1, <1>1
    <2>2. Len(p) = 2 /\ p[1] = x /\ p[2] = y /\ p \in Seq(Segments)
      BY <1>1, <1>5, <2>1
    <2>3. x \in Segments /\ y \in Segments
      BY <1>1, <1>5, SegmentsOfEntry
    <2>4. u \in MandatoryPaths
      BY <1>5 DEF MandatoryPaths
    <2> HIDE DEF x, y, p
    <2>5. u \in Seq(Segments) /\ Len(u) = 2 /\ u[1] = x /\ u[2] = y
      BY <2>3
    <2> HIDE DEF u
    <2>6. \A i \in 1..Len(p) : p[i] = u[i]
      <3>1. \A i \in 1..Len(p) : i = 1 \/ i = 2
        BY <2>2
      <3> QED BY <3>1, <2>2, <2>5
    <2>7. p = u
      BY <2>2, <2>5, <2>6, SeqEqual
    <2> QED BY <2>4, <2>7 DEF p
  <1> QED BY <1>4, <1>5

\* A record that some selector of the call covers.
Chosen(q) == \E s \in selectors : Covers(s, q.path)

\* The effective set, path by path.
LEMMA EffectivePaths ==
  ASSUME InventoryInv, EffectiveInv, phase # "idle"
  PROVE  \A p : p \in effective <=>
           \/ mode = "full" /\ p \in Paths(inventory)
           \/ /\ mode = "selected"
              /\ \E q \in inventory : Chosen(q) /\ (p = q.path \/ p \in ServiceAncestors(q.owner))
           \/ p \in MandatoryPaths /\ p \in Paths(inventory)
  <1> DEFINE M == Matched(selectors, Paths(inventory))
  <1>1. /\ effective = Resolved(mode, selectors, inventory) \cup
                         (MandatoryPaths \cap Paths(inventory))
        /\ mode \in {"full", "selected"} /\ selectors \subseteq Selectors
    BY DEF EffectiveInv
  <1>2. \A q \in inventory : q.path \in M <=> Chosen(q)
    <2> SUFFICES ASSUME NEW q \in inventory PROVE q.path \in M <=> Chosen(q)
      OBVIOUS
    <2>1. IsRecord(q) /\ q.path \in Paths(inventory)
      BY DEF InventoryInv, Paths
    <2>2. q.path \in M <=> \E s \in selectors : ~Malformed(s) /\ Matches(s, q.path)
      BY <2>1 DEF Matched
    <2>3. \A s \in selectors : Covers(s, q.path) <=> ~Malformed(s) /\ Matches(s, q.path)
      BY <1>1, <2>1, CoversIsMatch
    <2> QED BY <2>2, <2>3 DEF Chosen
  <1>3. \A p \in M : \E q \in inventory : p = q.path
    BY DEF Matched, Paths
  <1> HIDE DEF M
  <1> DEFINE W == WithAncestors(M, inventory)
  <1>4. \A p : p \in W <=> p \in M \/ \E q \in inventory :
                 q.path \in M /\ p \in ServiceAncestors(q.owner)
    BY DEF WithAncestors
  <1> HIDE DEF W
  <1>5. \A p : p \in W <=> \E q \in inventory :
                 Chosen(q) /\ (p = q.path \/ p \in ServiceAncestors(q.owner))
    BY <1>2, <1>3, <1>4
  <1>6. CASE mode = "full"
    BY <1>1, <1>6 DEF Resolved
  <1>7. CASE mode = "selected"
    <2>1. Resolved(mode, selectors, inventory) = W
      BY <1>7 DEF Resolved, W, M
    <2> QED BY <2>1, <1>1, <1>5, <1>7
  <1> QED BY <1>1, <1>6, <1>7

\* The effective set is within the inventory and closed under owners, so the
\* nodes of every resource have their parents.
LEMMA OwnersAreEffective ==
  ASSUME InventoryInv, EffectiveInv, phase # "idle", NEW p \in effective
  PROVE  /\ p \in Paths(inventory)
         /\ \A r \in inventory : r.path = p => r.owner = <<>> \/ r.owner \in effective
  <1>0. \A q \in inventory : /\ IsRecord(q) /\ q.path \in Paths(inventory)
                             /\ ServiceAncestors(q.owner) \subseteq Paths(inventory)
    BY DEF InventoryInv, Paths
  <1>1. \A q \in inventory : q.owner = <<>> \/ q.owner \in ServiceAncestors(q.owner)
    <2> SUFFICES ASSUME NEW q \in inventory
                 PROVE  q.owner = <<>> \/ q.owner \in ServiceAncestors(q.owner)
      OBVIOUS
    <2>1. PICK d \in Nat : OwnerOfServices(q.owner, d)
      BY <1>0 DEF IsRecord
    <2> QED BY <2>1, AncestorsOfService
  <1>2. CASE mode = "full" /\ p \in Paths(inventory)
    BY <1>0, <1>1, <1>2, EffectivePaths
  <1>3. ASSUME mode = "selected", NEW q \in inventory, Chosen(q),
               p = q.path \/ p \in ServiceAncestors(q.owner)
        PROVE  /\ p \in Paths(inventory)
               /\ \A r \in inventory : r.path = p => r.owner = <<>> \/ r.owner \in effective
    <2>1. \A o \in ServiceAncestors(q.owner) : o \in effective
      BY <1>3, EffectivePaths
    <2>2. CASE p = q.path
      <3>1. \A r \in inventory : r.path = p => r.owner = q.owner
        BY <1>0, <1>3, <2>2, SamePathSameOwner
      <3> QED BY <3>1, <2>1, <2>2, <1>0, <1>1, <1>3
    <2>3. CASE p \in ServiceAncestors(q.owner)
      <3>1. \A r \in inventory : r.path = p =>
              r.owner = <<>> \/ r.owner \in ServiceAncestors(q.owner)
        BY <1>0, <1>3, <2>3, AncestorParts
      <3> QED BY <3>1, <2>1, <2>3, <1>0, <1>3
    <2> QED BY <1>3, <2>2, <2>3
  <1>4. CASE p \in MandatoryPaths /\ p \in Paths(inventory)
    <2>1. \A r \in inventory : r.path = p => r.owner = <<>>
      BY <1>0, <1>4, MandatoryParts
    <2> QED BY <1>4, <2>1
  <1>5. \/ mode = "full" /\ p \in Paths(inventory)
        \/ /\ mode = "selected"
           /\ \E q \in inventory : Chosen(q) /\ (p = q.path \/ p \in ServiceAncestors(q.owner))
        \/ p \in MandatoryPaths /\ p \in Paths(inventory)
    BY EffectivePaths
  <1> QED BY <1>2, <1>3, <1>4, <1>5

\* The effective set is what the caller asked for, no more and no less.
LEMMA EffectiveIsAsked ==
  ASSUME InventoryInv, EffectiveInv, phase # "idle", NEW r \in inventory
  PROVE  AskedFor(r) <=> r.path \in effective
  <1>0. /\ \A q \in inventory : IsRecord(q)
        /\ r.path \in Paths(inventory) /\ mode \in {"full", "selected"}
    BY DEF InventoryInv, Paths, EffectiveInv
  <1>1. r.path \in MandatoryPaths <=>
          r.owner = <<>> /\ r.entry.kind = "operations" /\ r.entry.name \in Mandatory
    BY <1>0, MandatoryParts
  <1>2. ASSUME AskedFor(r) PROVE r.path \in effective
    <2>1. CASE mode = "full"
      BY <2>1, <1>0, EffectivePaths
    <2>2. CASE r.owner = <<>> /\ r.entry.kind = "operations" /\ r.entry.name \in Mandatory
      BY <2>2, <1>0, <1>1, EffectivePaths
    <2>3. ASSUME mode # "full", NEW q \in inventory, NEW s \in selectors, Covers(s, q.path),
                 q = r \/ (r.entry.kind = "services" /\ IsStrictPrefix(r.path, q.path))
          PROVE  r.path \in effective
      <3>1. Chosen(q) /\ mode = "selected"
        BY <2>3, <1>0 DEF Chosen
      <3>2. r.path = q.path \/ r.path \in ServiceAncestors(q.owner)
        BY <1>0, <2>3, StrictPrefixIsAncestor
      <3> QED BY <3>1, <3>2, EffectivePaths
    <2> QED BY <1>2, <2>1, <2>2, <2>3 DEF AskedFor
  <1>3. ASSUME r.path \in effective PROVE AskedFor(r)
    <2>1. CASE mode = "full"
      BY <2>1 DEF AskedFor
    <2>2. CASE r.path \in MandatoryPaths
      BY <2>2, <1>1 DEF AskedFor
    <2>3. ASSUME NEW q \in inventory, Chosen(q),
                 r.path = q.path \/ r.path \in ServiceAncestors(q.owner)
          PROVE  AskedFor(r)
      <3>1. PICK s \in selectors : Covers(s, q.path)
        BY <2>3 DEF Chosen
      <3>2. CASE r.path = q.path
        <4>1. Covers(s, r.path)
          BY <3>1, <3>2
        <4> QED BY <4>1 DEF AskedFor
      <3>3. CASE r.path \in ServiceAncestors(q.owner)
        <4>1. r.entry.kind = "services" /\ IsStrictPrefix(r.path, q.path)
          BY <1>0, <3>3, AncestorParts
        <4> QED BY <3>1, <4>1 DEF AskedFor
      <3> QED BY <2>3, <3>2, <3>3
    <2> QED BY <1>3, <2>1, <2>2, <2>3, EffectivePaths
  <1> QED BY <1>2, <1>3

-----------------------------------------------------------------------------
(* Diagnostics                                                             *)

\* A reason for which a plan is refused before anything is mapped.
PlanReason ==
  \/ mode = "selected" /\ selectors = {}
  \/ \E s \in selectors : ~\E r \in inventory : Covers(s, r.path)
  \/ \E r \in inventory : Ambiguous(r, inventory)
  \/ MandatoryPaths \ Paths(inventory) # {}

\* A plan has diagnostics exactly when there is such a reason.
LEMMA DiagnosticReasons ==
  ASSUME InventoryInv, EffectiveInv
  PROVE  PlanDiagnostics(mode, selectors, inventory) # {} <=> PlanReason
  <1> DEFINE A == {<<"duplicate", p>> : p \in Duplicates(inventory)}
             B == {<<"mandatory", p>> : p \in MandatoryPaths \ Paths(inventory)}
             C == CASE mode = "full" -> {}
                    [] mode = "selected" /\ selectors = {} -> {<<"malformed", <<>>>>}
                    [] OTHER -> Issues(selectors, Paths(inventory))
             Covered(s) == \E r \in inventory : Covers(s, r.path)
  <1>0. /\ mode \in {"full", "selected"} /\ selectors \subseteq Selectors
        /\ mode = "full" => selectors = {}
        /\ \A r \in inventory : IsRecord(r)
    BY DEF EffectiveInv, InventoryInv
  <1>1. A # {} <=> \E r \in inventory : Ambiguous(r, inventory)
    BY DEF Duplicates
  <1>2. B # {} <=> MandatoryPaths \ Paths(inventory) # {}
    OBVIOUS
  <1>3. ASSUME NEW s \in selectors
        PROVE  Covered(s) <=> ~(Malformed(s) \/ Matched({s}, Paths(inventory)) = {})
    <2>1. \A r \in inventory : Covers(s, r.path) <=> ~Malformed(s) /\ Matches(s, r.path)
      BY <1>0, <1>3, CoversIsMatch
    <2>2. \A p : p \in Matched({s}, Paths(inventory)) <=>
                   \E r \in inventory : p = r.path /\ ~Malformed(s) /\ Matches(s, p)
      BY DEF Matched, Paths
    <2> QED BY <2>1, <2>2
  <1>4. Issues(selectors, Paths(inventory)) # {} <=> \E s \in selectors : ~Covered(s)
    <2>1. Issues(selectors, Paths(inventory)) # {} <=>
            \E s \in selectors : Malformed(s) \/ Matched({s}, Paths(inventory)) = {}
      <3> DEFINE I == Issues(selectors, Paths(inventory))
      <3>1. ASSUME NEW s \in selectors, Malformed(s) \/ Matched({s}, Paths(inventory)) = {}
            PROVE  <<"malformed", s>> \in I \/ <<"unmatched", s>> \in I
        BY <3>1 DEF Issues
      <3>2. ASSUME NEW d \in I
            PROVE  \E s \in selectors : Malformed(s) \/ Matched({s}, Paths(inventory)) = {}
        BY <3>2 DEF Issues
      <3> HIDE DEF I
      <3> QED BY <3>1, <3>2 DEF I
    <2> HIDE DEF Covered
    <2> QED BY <2>1, <1>3
  <1>5. C # {} <=> (mode = "selected" /\ selectors = {}) \/ \E s \in selectors : ~Covered(s)
    <2>1. CASE mode = "full"
      <3>1. C = {}
        BY <2>1
      <3> HIDE DEF C, Covered
      <3>2. selectors = {} /\ mode # "selected"
        BY <2>1, <1>0
      <3> QED BY <3>1, <3>2
    <2>2. CASE mode = "selected" /\ selectors = {}
      BY <2>2
    <2>3. CASE mode = "selected" /\ selectors # {}
      <3>1. C = Issues(selectors, Paths(inventory))
        BY <2>3
      <3> HIDE DEF C, Covered
      <3> QED BY <3>1, <2>3, <1>4
    <2> QED BY <1>0, <2>1, <2>2, <2>3
  <1>6. PlanDiagnostics(mode, selectors, inventory) = A \cup B \cup C
    BY DEF PlanDiagnostics
  <1>7. PlanReason <=> \/ (mode = "selected" /\ selectors = {}) \/ \E s \in selectors : ~Covered(s)
                       \/ \E r \in inventory : Ambiguous(r, inventory)
                       \/ MandatoryPaths \ Paths(inventory) # {}
    BY DEF PlanReason
  <1> HIDE DEF A, B, C, Covered
  <1>8. PlanDiagnostics(mode, selectors, inventory) # {} <=> A # {} \/ B # {} \/ C # {}
    BY <1>6
  <1> QED BY <1>1, <1>2, <1>5, <1>7, <1>8

\* A resource that cannot be mapped although it was not removed is unfit.
LEMMA UnmappableIsUnfit ==
  ASSUME IfaceInv, NEW r \in inventory, IsRecord(r), ~Mappable(r)
  PROVE  Unfit(r)
  <1> SUFFICES ASSUME ~r.error, r \notin vanished PROVE ~r.entry.supported
    BY DEF Unfit
  <1>1. r.entry \in Current(r)
    BY DEF IfaceInv, IsRecord, Current, SameName
  <1> QED BY <1>1 DEF Mappable

\* The nodes that mapping a resource adds: those of the record, unless another
\* resource has taken its place.
LEMMA BundleParts ==
  ASSUME IfaceInv, NEW r \in inventory, IsRecord(r), Mappable(r),
         NEW B, \A n : n \in B <=> \E e \in Current(r) : n \in BundleOf(r, e)
  PROVE  /\ {CategoryPath(r), r.path} \subseteq B
         /\ r \notin vanished => BundleOf(r, r.entry) \subseteq B
         /\ \A n \in B : n \in BundleOf(r, r.entry) \/
                           (r \in vanished /\ \E m : n = Append(r.path, m))
  <1>1. PICK e \in Current(r) : TRUE
    BY DEF Mappable
  <1>2. {CategoryPath(r), r.path} \subseteq BundleOf(r, e)
    BY DEF BundleOf
  <1>3. ASSUME r \notin vanished PROVE Current(r) = {r.entry}
    <2>1. /\ r.entry \in iface[r.service] /\ r.service \in Services
          /\ \A f, g \in iface[r.service] : SameName(f, g) => f = g
      BY <1>3 DEF IfaceInv, IsRecord
    <2>2. r.entry.found
      BY DEF Mappable, IsRecord
    <2> QED BY <2>1, <2>2 DEF Current, SameName
  <1>4. ASSUME NEW f \in Current(r), NEW n \in BundleOf(r, f)
        PROVE  n \in BundleOf(r, r.entry) \/ (r \in vanished /\ \E m : n = Append(r.path, m))
    <2>1. CASE r \notin vanished
      BY <1>3, <1>4, <2>1
    <2>2. CASE r \in vanished
      <3>1. n \in {CategoryPath(r), r.path} \/ \E m : n = Append(r.path, m)
        BY <1>4 DEF BundleOf, MetadataNodes
      <3>2. {CategoryPath(r), r.path} \subseteq BundleOf(r, r.entry)
        BY DEF BundleOf
      <3> QED BY <2>2, <3>1, <3>2
    <2> QED BY <2>1, <2>2
  <1>5. \A n : n \in B <=> \E f \in Current(r) : n \in BundleOf(r, f)
    OBVIOUS
  <1>6. {CategoryPath(r), r.path} \subseteq B
    BY <1>1, <1>2, <1>5
  <1>7. r \notin vanished => BundleOf(r, r.entry) \subseteq B
    BY <1>3, <1>5
  <1>8. \A n \in B : n \in BundleOf(r, r.entry) \/
                       (r \in vanished /\ \E m : n = Append(r.path, m))
    BY <1>4, <1>5
  <1> QED BY <1>6, <1>7, <1>8

\* The parent of every node of a complete plan is a node of the plan.
LEMMA NodesHaveParents ==
  ASSUME InventoryInv, EffectiveInv, MappedInv, NodesInv, phase # "idle",
         todo = {}, diagnostics = {}
  PROVE  \A n \in nodes : /\ Len(n) \in Nat
                          /\ n # <<>> => Front(n) \in nodes /\ Len(n) = Len(Front(n)) + 1
  <1> SUFFICES ASSUME NEW n \in nodes
               PROVE  /\ Len(n) \in Nat
                      /\ n # <<>> => Front(n) \in nodes /\ Len(n) = Len(Front(n)) + 1
    OBVIOUS
  <1>1. CASE n = <<>>
    BY <1>1, EmptySeq
  <1>2. CASE n # <<>>
    <2>1. PICK p \in effective :
            \/ n \in BundleOf(RecordOf(p), RecordOf(p).entry)
            \/ \E m : n = Append(RecordOf(p).path, m)
      BY <1>2 DEF NodesInv
    <2> DEFINE r == RecordOf(p)
    <2>2. /\ r \in inventory /\ r.path = p
          /\ r.owner = <<>> \/ r.owner \in effective
      BY OwnersAreEffective, RecordOfPath
    <2>3. /\ \A q \in effective : {CategoryPath(RecordOf(q)), RecordOf(q).path} \subseteq nodes
          /\ <<>> \in nodes
      BY DEF MappedInv
    <2>4. r.owner \in nodes
      <3>1. CASE r.owner = <<>>
        BY <3>1, <2>3
      <3>2. CASE r.owner \in effective
        <4>1. RecordOf(r.owner).path = r.owner
          BY <3>2, OwnersAreEffective, RecordOfPath
        <4> QED BY <4>1, <3>2, <2>3
      <3> QED BY <2>2, <3>1, <3>2
    <2>5. PICK d \in Nat : /\ r.owner \in Seq(Segments) /\ Len(r.owner) = 2 * d
                           /\ r.path \in Seq(Segments) /\ Len(r.path) = 2 * d + 2
                           /\ Front(r.path) = CategoryPath(r)
      <3>1. IsRecord(r)
        BY <2>2 DEF InventoryInv
      <3> QED BY <3>1, RecordParts
    <2>6. CategoryPath(r) \in nodes /\ r.path \in nodes
      BY <2>3
    <2>7. n = CategoryPath(r) \/ n = r.path \/ \E m : n = Append(r.path, m)
      BY <2>1 DEF BundleOf, MetadataNodes
    <2> HIDE DEF r
    <2> DEFINE o == r.owner
               k == r.entry.kind
    <2>8. /\ Len(CategoryPath(r)) = Len(r.owner) + 1 /\ Front(CategoryPath(r)) = r.owner
      <3>1. o \in Seq(Segments)
        BY <2>5
      <3> HIDE DEF o, k
      <3>2. Len(Append(o, k)) = Len(o) + 1 /\ Front(Append(o, k)) = o
        BY <3>1, AppendParts
      <3> QED BY <3>2 DEF CategoryPath, o, k
    <2>9. CASE n = CategoryPath(r)
      BY <2>9, <2>8, <2>4, <2>5
    <2>10. CASE n = r.path
      <3>1. Front(n) = CategoryPath(r) /\ Len(n) = 2 * d + 2
        BY <2>10, <2>5
      <3>2. Len(Front(n)) = 2 * d + 1
        BY <3>1, <2>5, <2>8
      <3> QED BY <3>1, <3>2, <2>6
    <2>11. ASSUME NEW m, n = Append(r.path, m)
           PROVE  Len(n) \in Nat /\ Front(n) \in nodes /\ Len(n) = Len(Front(n)) + 1
      <3> DEFINE path == r.path
      <3>1. path \in Seq(Segments) /\ path \in nodes /\ Len(path) \in Nat
        BY <2>5, <2>6
      <3>2. n = Append(path, m)
        BY <2>11
      <3> HIDE DEF path
      <3>3. Len(n) = Len(path) + 1 /\ Front(n) = path
        BY <3>1, <3>2, AppendParts
      <3> QED BY <3>1, <3>3
    <2> QED BY <2>7, <2>9, <2>10, <2>11
  <1> QED BY <1>1, <1>2

-----------------------------------------------------------------------------
(* The invariant is inductive                                              *)

\* RecordOf() depends on the inventory only.
LEMMA SameRecordOf ==
  ASSUME inventory' = inventory
  PROVE  \A p : RecordOf(p)' = RecordOf(p)
  BY DEF RecordOf

\* A component that has not been planned yet satisfies the invariant.
LEMMA InitPlanInv == Init => PlanInv
  <1> SUFFICES ASSUME Init PROVE PlanInv
    OBVIOUS
  <1>0. /\ iface \in Initial /\ changes = 0 /\ vanished = {} /\ phase = "idle"
        /\ mode = "full" /\ selectors = {} /\ inventory = {} /\ effective = {}
        /\ todo = {} /\ diagnostics = {} /\ nodes = {} /\ space = {}
    BY DEF Init
  <1>1. IfaceInv
    BY <1>0, PublicationPlanAssumption DEF IfaceInv
  <1>2. InventoryInv
    BY <1>0 DEF InventoryInv
  <1>3. EffectiveInv
    BY <1>0 DEF EffectiveInv
  <1>4. DiagnosticInv
    BY <1>0 DEF DiagnosticInv
  <1>5. MappedInv /\ NodesInv
    BY <1>0 DEF MappedInv, NodesInv
  <1>6. PhaseInv
    BY <1>0 DEF PhaseInv
  <1> QED BY <1>1, <1>2, <1>3, <1>4, <1>5, <1>6 DEF PlanInv

\* A change of the component only adds to what has vanished: everything that the
\* invariant says of the plan still holds.
LEMMA ChangeKeepsPlan ==
  ASSUME PlanInv, IfaceInv', vanished \subseteq vanished',
         phase' = phase, mode' = mode, selectors' = selectors, inventory' = inventory,
         effective' = effective, todo' = todo, diagnostics' = diagnostics,
         nodes' = nodes, space' = space
  PROVE  PlanInv'
  <1>0. \A p : RecordOf(p)' = RecordOf(p)
    BY SameRecordOf
  <1>1. InventoryInv' /\ EffectiveInv' /\ PhaseInv'
    BY DEF PlanInv, InventoryInv, EffectiveInv, PhaseInv
  <1>2. \A r : Unfit(r) => Unfit(r)'
    BY DEF Unfit
  <1>3. DiagnosticInv'
    BY <1>0, <1>2 DEF PlanInv, DiagnosticInv
  <1>4. MappedInv'
    BY <1>0 DEF PlanInv, MappedInv
  <1>5. NodesInv'
    BY <1>0 DEF PlanInv, NodesInv
  <1> QED BY <1>1, <1>3, <1>4, <1>5 DEF PlanInv

\* The application changes the component.
LEMMA ChangeStep ==
  ASSUME PlanInv, NEW s \in Services, NEW e \in Provided[s],
         AddResource(s, e) \/ RemoveResource(s, e)
  PROVE  PlanInv'
  <1>0. /\ phase' = phase /\ mode' = mode /\ selectors' = selectors /\ inventory' = inventory
        /\ effective' = effective /\ todo' = todo /\ diagnostics' = diagnostics
        /\ nodes' = nodes /\ space' = space /\ changes < MaxChanges /\ changes' = changes + 1
    BY DEF AddResource, RemoveResource, MayChange, planVars
  <1>1. /\ iface \in [Services -> SUBSET Entries] /\ changes \in 0..MaxChanges
        /\ \A t \in Services : \A f, g \in iface[t] : SameName(f, g) => f = g
        /\ \A r \in inventory \ vanished : r.entry \in iface[r.service]
        /\ vanished \subseteq inventory
    BY DEF PlanInv, IfaceInv
  <1>2. e \in Entries /\ MaxChanges \in Nat
    BY PublicationPlanAssumption
  <1> DEFINE Change(gone, come) ==
               /\ iface' = [iface EXCEPT ![s] = (@ \ gone) \cup come]
               /\ come \subseteq {e}
               /\ \A f \in iface[s] : f \notin gone => ~(e \in come /\ SameName(e, f))
               /\ NoteRemoved(s, gone)
  <1>31. \E gone, come : Change(gone, come)
    <2>1. CASE AddResource(s, e)
      <3> DEFINE gone == {f \in iface[s] : SameName(e, f)}
      <3>1. iface' = [iface EXCEPT ![s] = (@ \ gone) \cup {e}] /\ NoteRemoved(s, gone)
        BY <2>1 DEF AddResource
      <3>2. \A f \in iface[s] : f \notin gone => ~SameName(e, f)
        OBVIOUS
      <3> HIDE DEF gone
      <3>3. Change(gone, {e})
        BY <3>1, <3>2
      <3> HIDE DEF Change
      <3> QED BY <3>3
    <2>2. CASE RemoveResource(s, e)
      <3>1. iface' = [iface EXCEPT ![s] = @ \ {e}] /\ NoteRemoved(s, {e})
        BY <2>2 DEF RemoveResource
      <3>2. iface' = [iface EXCEPT ![s] = (@ \ {e}) \cup {}]
        <4>1. (iface[s] \ {e}) \cup {} = iface[s] \ {e}
          OBVIOUS
        <4> QED BY <3>1, <4>1
      <3>3. Change({e}, {})
        BY <3>1, <3>2
      <3> HIDE DEF Change
      <3> QED BY <3>3
    <2> QED BY <2>1, <2>2
  <1>32. PICK gone, come : Change(gone, come)
    BY <1>31
  <1>3. /\ iface' = [iface EXCEPT ![s] = (@ \ gone) \cup come]
        /\ come \subseteq {e}
        /\ \A f \in iface[s] : f \notin gone => ~(e \in come /\ SameName(e, f))
        /\ NoteRemoved(s, gone)
    BY <1>32
  <1>4. vanished' = vanished \cup {r \in inventory : r.service = s /\ r.entry \in gone}
    BY <1>3 DEF NoteRemoved
  <1>5. /\ iface' \in [Services -> SUBSET Entries]
        /\ iface'[s] = (iface[s] \ gone) \cup come
        /\ \A t \in Services \ {s} : iface'[t] = iface[t]
    BY <1>1, <1>2, <1>3
  <1>6. ASSUME NEW t \in Services, NEW f \in iface'[t], NEW g \in iface'[t], SameName(f, g)
        PROVE  f = g
    <2>1. CASE t # s
      BY <1>1, <1>5, <1>6, <2>1
    <2>2. CASE t = s
      <3>1. /\ (f \in iface[s] /\ f \notin gone) \/ (f = e /\ e \in come)
            /\ (g \in iface[s] /\ g \notin gone) \/ (g = e /\ e \in come)
        BY <1>3, <1>5, <1>6, <2>2
      <3>2. SameName(g, f)
        BY <1>6 DEF SameName
      <3> QED BY <3>1, <3>2, <1>1, <1>3, <1>6
    <2> QED BY <2>1, <2>2
  <1>7. ASSUME NEW r \in inventory \ vanished' PROVE r.entry \in iface'[r.service]
    <2>1. /\ IsRecord(r) /\ r.entry \in iface[r.service]
          /\ ~(r.service = s /\ r.entry \in gone)
      BY <1>1, <1>4, <1>7 DEF PlanInv, InventoryInv
    <2>2. r.service \in Services
      BY <2>1 DEF IsRecord
    <2> QED BY <2>1, <2>2, <1>5
  <1>8. IfaceInv'
    <2>1. changes' \in 0..MaxChanges
      BY <1>0, <1>1, <1>2
    <2> QED BY <2>1, <1>0, <1>1, <1>4, <1>5, <1>6, <1>7 DEF IfaceInv
  <1> QED BY <1>0, <1>4, <1>8, ChangeKeepsPlan

\* The inventory is discovered and the selectors are resolved.
LEMMA PlanStep ==
  ASSUME PlanInv, NEW m \in {"full", "selected"}, NEW sels, sels \subseteq Selectors,
         m = "full" => sels = {}, Plan(m, sels)
  PROVE  PlanInv'
  <1>0. /\ phase = "idle" /\ phase' = "mapping" /\ mode' = m /\ selectors' = sels
        /\ inventory' = Records
        /\ effective' = Resolved(m, sels, Records) \cup (MandatoryPaths \cap Paths(Records))
        /\ todo' = effective' /\ diagnostics' = PlanDiagnostics(m, sels, Records)
        /\ nodes' = {<<>>} /\ space' = space
        /\ iface' = iface /\ changes' = changes /\ vanished' = vanished
    BY DEF Plan, componentVars
  <1>1. /\ iface \in [Services -> SUBSET Entries] /\ changes \in 0..MaxChanges
        /\ \A s \in Services : \A e, f \in iface[s] : SameName(e, f) => e = f
        /\ inventory = {} /\ vanished = {} /\ nodes = {} /\ space = {}
    BY <1>0 DEF PlanInv, IfaceInv, EffectiveInv, PhaseInv
  <1>2. \A r \in Records : /\ IsRecord(r) /\ r.entry \in iface[r.service]
                           /\ ServiceAncestors(r.owner) \subseteq Paths(Records)
    BY <1>1, RecordsAreRecords
  <1>3. IfaceInv'
    BY <1>0, <1>1, <1>2 DEF IfaceInv
  <1>4. InventoryInv'
    BY <1>0, <1>2 DEF InventoryInv
  <1>5. EffectiveInv'
    BY <1>0 DEF EffectiveInv
  <1>6. DiagnosticInv'
    BY <1>0 DEF DiagnosticInv
  <1>7. MappedInv' /\ NodesInv'
    BY <1>0 DEF MappedInv, NodesInv
  <1>8. PhaseInv'
    BY <1>0, <1>1 DEF PhaseInv
  <1> QED BY <1>3, <1>4, <1>5, <1>6, <1>7, <1>8 DEF PlanInv

\* A resource is mapped, or adds a diagnostic.
LEMMA MapStep ==
  ASSUME PlanInv, MapResource
  PROVE  PlanInv'
  <1>0. /\ phase = "mapping" /\ phase' = phase /\ mode' = mode /\ selectors' = selectors
        /\ inventory' = inventory /\ effective' = effective /\ space' = space
        /\ iface' = iface /\ changes' = changes /\ vanished' = vanished /\ todo # {}
    BY DEF MapResource, planVars, componentVars
  <1> DEFINE path == CHOOSE p \in todo : TRUE
             r == RecordOf(path)
             B == UNION {BundleOf(r, e) : e \in Current(r)}
  <1>1. path \in todo
    BY <1>0
  <1>2. /\ todo' = todo \ {path}
        /\ IF Mappable(r) THEN nodes' = nodes \cup B /\ diagnostics' = diagnostics
           ELSE diagnostics' = diagnostics \cup {FailureOf(r)} /\ nodes' = nodes
    BY DEF MapResource
  <1> HIDE DEF path
  <1>3. IfaceInv /\ InventoryInv /\ EffectiveInv /\ DiagnosticInv /\ MappedInv /\ NodesInv
        /\ PhaseInv
    BY DEF PlanInv
  <1>4. path \in effective
    BY <1>1, <1>3 DEF EffectiveInv
  <1>5. path \in Paths(inventory)
    BY <1>0, <1>3, <1>4, OwnersAreEffective
  <1>6. r \in inventory /\ IsRecord(r)
    BY <1>3, <1>5, RecordOfPath DEF InventoryInv
  <1>7. \A p : RecordOf(p)' = RecordOf(p)
    BY <1>0, SameRecordOf
  <1>8. \A q : Unfit(q)' <=> Unfit(q)
    BY <1>0 DEF Unfit
  <1>9. IfaceInv' /\ InventoryInv'
    BY <1>0, <1>3 DEF IfaceInv, InventoryInv
  <1>10. EffectiveInv'
    BY <1>0, <1>2, <1>3 DEF EffectiveInv
  <1>11. PhaseInv'
    <2>1. nodes \subseteq nodes'
      BY <1>2
    <2> QED BY <2>1, <1>0, <1>3 DEF PhaseInv
  <1>12. CASE Mappable(r)
    <2> HIDE DEF B
    <2>1. nodes' = nodes \cup B /\ diagnostics' = diagnostics
      BY <1>2, <1>12
    <2>2. /\ {CategoryPath(r), r.path} \subseteq B
          /\ r \notin vanished => BundleOf(r, r.entry) \subseteq B
          /\ \A n \in B : n \in BundleOf(r, r.entry) \/
                            (r \in vanished /\ \E m : n = Append(r.path, m))
      <3>1. IfaceInv /\ r \in inventory /\ IsRecord(r) /\ Mappable(r)
        BY <1>3, <1>6, <1>12
      <3>2. \A n : n \in B <=> \E e \in Current(r) : n \in BundleOf(r, e)
        BY DEF B
      <3> HIDE DEF r
      <3> QED BY <3>1, <3>2, BundleParts
    <2>3. DiagnosticInv'
      BY <2>1, <1>0, <1>3, <1>7, <1>8 DEF DiagnosticInv
    <2>4. MappedInv'
      <3>1. <<>> \in nodes'
        BY <2>1, <1>0, <1>3 DEF MappedInv
      <3>2. ASSUME NEW p \in effective \ todo', diagnostics = {}
            PROVE  /\ {CategoryPath(RecordOf(p)), RecordOf(p).path} \subseteq nodes'
                   /\ RecordOf(p) \notin vanished =>
                        BundleOf(RecordOf(p), RecordOf(p).entry) \subseteq nodes'
        <4>1. CASE p = path
          BY <4>1, <2>1, <2>2
        <4>2. CASE p # path
          <5>1. p \in effective \ todo
            BY <4>2, <3>2, <1>2
          <5>2. /\ {CategoryPath(RecordOf(p)), RecordOf(p).path} \subseteq nodes
                /\ RecordOf(p) \notin vanished =>
                     BundleOf(RecordOf(p), RecordOf(p).entry) \subseteq nodes
            BY <5>1, <3>2, <1>3 DEF MappedInv
          <5> QED BY <5>2, <2>1
        <4> QED BY <4>1, <4>2
      <3> QED BY <3>1, <3>2, <2>1, <1>0, <1>7 DEF MappedInv
    <2>5. NodesInv'
      <3>1. ASSUME NEW n \in nodes' \ {<<>>}
            PROVE  \E p \in effective :
                     \/ n \in BundleOf(RecordOf(p), RecordOf(p).entry)
                     \/ RecordOf(p) \in vanished /\ \E m : n = Append(RecordOf(p).path, m)
        <4>1. CASE n \in nodes
          BY <4>1, <3>1, <1>3 DEF NodesInv
        <4>2. CASE n \in B
          BY <4>2, <2>2, <1>4
        <4> QED BY <4>1, <4>2, <3>1, <2>1
      <3> QED BY <3>1, <1>0, <1>7 DEF NodesInv
    <2> QED BY <1>9, <1>10, <1>11, <2>3, <2>4, <2>5 DEF PlanInv
  <1>13. CASE ~Mappable(r)
    <2> HIDE DEF B
    <2>1. diagnostics' = diagnostics \cup {FailureOf(r)} /\ nodes' = nodes
      BY <1>2, <1>13
    <2>2. Unfit(r)
      BY <1>3, <1>6, <1>13, UnmappableIsUnfit
    <2>3. DiagnosticInv'
      BY <2>1, <2>2, <1>0, <1>3, <1>4, <1>7, <1>8 DEF DiagnosticInv
    <2>4. diagnostics' # {}
      BY <2>1
    <2>5. MappedInv' /\ NodesInv'
      BY <2>1, <2>4, <1>0, <1>3, <1>7 DEF MappedInv, NodesInv
    <2> QED BY <1>9, <1>10, <1>11, <2>3, <2>5 DEF PlanInv
  <1> QED BY <1>12, <1>13

\* A step that only moves to another phase, or creates a node.
LEMMA PhaseStep ==
  ASSUME PlanInv, PhaseInv', phase # "idle", phase' # "idle",
         iface' = iface, changes' = changes, vanished' = vanished, mode' = mode,
         selectors' = selectors, inventory' = inventory, effective' = effective,
         todo' = todo, diagnostics' = diagnostics, nodes' = nodes
  PROVE  PlanInv'
  <1>0. \A p : RecordOf(p)' = RecordOf(p)
    BY SameRecordOf
  <1>1. IfaceInv' /\ InventoryInv' /\ EffectiveInv'
    BY DEF PlanInv, IfaceInv, InventoryInv, EffectiveInv
  <1>2. \A r : Unfit(r)' <=> Unfit(r)
    BY DEF Unfit
  <1>3. DiagnosticInv'
    BY <1>0, <1>2 DEF PlanInv, DiagnosticInv
  <1>4. MappedInv' /\ NodesInv'
    BY <1>0 DEF PlanInv, MappedInv, NodesInv
  <1> QED BY <1>1, <1>3, <1>4 DEF PlanInv

\* The node that is created next has its parent in the address space.
LEMMA NextHasParent ==
  ASSUME PlanInv, phase = "creating", nodes # space
  PROVE  NextNode \in nodes /\ HasParent(NextNode)
  <1>0. /\ InventoryInv /\ EffectiveInv /\ MappedInv /\ NodesInv
        /\ todo = {} /\ diagnostics = {} /\ space \subseteq nodes /\ phase # "idle"
    BY DEF PlanInv, PhaseInv
  <1>1. \A n \in nodes : /\ Len(n) \in Nat
                         /\ n # <<>> => Front(n) \in nodes /\ Len(n) = Len(Front(n)) + 1
    BY <1>0, NodesHaveParents
  <1> DEFINE D == nodes \ space
             T == {Len(n) : n \in D}
  <1>2. T \in SUBSET Nat /\ T # {}
    BY <1>0, <1>1
  <1>3. PICK k \in T : \A j \in T : k <= j
    <2> HIDE DEF T
    <2> QED BY <1>2, LeastNat
  <1>4. PICK least \in D : \A n \in D : Len(least) <= Len(n)
    BY <1>3
  <1>5. NextNode \in D /\ \A n \in D : NotDeeper(NextNode, n)
    BY <1>4 DEF NextNode, NotDeeper
  <1>6. CASE NextNode # <<>>
    <2>1. Front(NextNode) \in nodes /\ Len(NextNode) = Len(Front(NextNode)) + 1
      BY <1>1, <1>5, <1>6
    <2>2. Len(Front(NextNode)) \in Nat
      BY <1>1, <2>1
    <2>3. ~NotDeeper(NextNode, Front(NextNode))
      BY <2>1, <2>2 DEF NotDeeper
    <2>4. Front(NextNode) \in space
      BY <1>5, <2>1, <2>3
    <2> QED BY <1>5, <2>4 DEF HasParent
  <1> QED BY <1>5, <1>6 DEF HasParent

\* Every step keeps the invariant.
LEMMA NextPlanInv == PlanInv /\ [Next]_vars => PlanInv'
  <1> SUFFICES ASSUME PlanInv, [Next]_vars PROVE PlanInv'
    OBVIOUS
  <1>1. CASE UNCHANGED vars
    <2>1. /\ phase' = phase /\ mode' = mode /\ selectors' = selectors
          /\ inventory' = inventory /\ effective' = effective /\ todo' = todo
          /\ diagnostics' = diagnostics /\ nodes' = nodes /\ space' = space
          /\ iface' = iface /\ changes' = changes /\ vanished' = vanished
      BY <1>1 DEF vars, componentVars, planVars
    <2>2. IfaceInv'
      BY <2>1 DEF PlanInv, IfaceInv
    <2> QED BY <2>1, <2>2, ChangeKeepsPlan
  <1>2. ASSUME NEW s \in Services, NEW e \in Provided[s],
               AddResource(s, e) \/ RemoveResource(s, e)
        PROVE  PlanInv'
    BY <1>2, ChangeStep
  <1>3. CASE Plan("full", {})
    BY <1>3, PlanStep
  <1>4. ASSUME NEW sels \in SUBSET Selectors, Plan("selected", sels) PROVE PlanInv'
    BY <1>4, PlanStep
  <1>5. CASE MapResource
    BY <1>5, MapStep
  <1>6. CASE Reject \/ Accept \/ Commit
    <2>1. /\ iface' = iface /\ changes' = changes /\ vanished' = vanished /\ mode' = mode
          /\ selectors' = selectors /\ inventory' = inventory /\ effective' = effective
          /\ todo' = todo /\ diagnostics' = diagnostics /\ nodes' = nodes /\ space' = space
          /\ phase # "idle" /\ phase' # "idle"
      BY <1>6 DEF Reject, Accept, Commit, planVars, componentVars
    <2>2. PhaseInv'
      BY <1>6, <2>1 DEF Reject, Accept, Commit, PlanInv, PhaseInv
    <2> QED BY <2>1, <2>2, PhaseStep
  <1>7. CASE CreateNode
    <2>1. /\ iface' = iface /\ changes' = changes /\ vanished' = vanished /\ mode' = mode
          /\ selectors' = selectors /\ inventory' = inventory /\ effective' = effective
          /\ todo' = todo /\ diagnostics' = diagnostics /\ nodes' = nodes
          /\ phase = "creating" /\ nodes # space
      BY <1>7 DEF CreateNode, planVars, componentVars
    <2>2. NextNode \in nodes /\ HasParent(NextNode)
      BY <2>1, NextHasParent
    <2>3. space' = space \cup {NextNode} /\ phase' = phase
      BY <2>2, <1>7 DEF CreateNode
    <2>4. PhaseInv'
      BY <2>1, <2>2, <2>3 DEF PlanInv, PhaseInv
    <2> QED BY <2>1, <2>3, <2>4, PhaseStep
  <1> QED BY <1>1, <1>2, <1>3, <1>4, <1>5, <1>6, <1>7 DEF Next

\* The invariant holds throughout.
LEMMA PlanInvHolds == Spec => []PlanInv
  BY InitPlanInv, NextPlanInv, PTL DEF Spec

-----------------------------------------------------------------------------
(* The theorems                                                            *)

\* Every variable of a publication keeps its type; in particular the effective
\* set never names a path that was not discovered.
THEOREM PlanTypeCorrect == Spec => []TypeOK
  <1>1. PlanInv => TypeOK
    <2> SUFFICES ASSUME PlanInv PROVE TypeOK
      OBVIOUS
    <2>1. effective \subseteq Paths(inventory)
      <3>1. CASE phase = "idle"
        BY <3>1 DEF PlanInv, EffectiveInv
      <3>2. CASE phase # "idle"
        BY <3>2, OwnersAreEffective DEF PlanInv
      <3> QED BY <3>1, <3>2
    <2> QED BY <2>1 DEF PlanInv, IfaceInv, EffectiveInv, PhaseInv, TypeOK
  <1> QED BY <1>1, PlanInvHolds, PTL

\* No transaction meets a node without its parent: the effective set is closed
\* under owners, however the selectors chose it, and the nodes are created by
\* depth.
THEOREM ParentsAlwaysFirst == Spec => []ParentsFirst
  <1>1. PlanInv => ParentsFirst
    BY DEF PlanInv, PhaseInv, ParentsFirst
  <1> QED BY <1>1, PlanInvHolds, PTL

\* A plan without diagnostics has one record for each path, added once.
LEMMA OneRecordPerPath ==
  ASSUME PlanInv, phase # "idle", diagnostics = {}
  PROVE  ~PlanReason /\ \A q, r \in inventory : q.path = r.path => q = r /\ r.times = 1
  <1>1. PlanDiagnostics(mode, selectors, inventory) = {}
    BY DEF PlanInv, DiagnosticInv
  <1>2. ~PlanReason
    BY <1>1, DiagnosticReasons DEF PlanInv
  <1>3. ASSUME NEW q \in inventory, NEW r \in inventory, q.path = r.path
        PROVE  q = r /\ r.times = 1
    <2>1. ~Ambiguous(r, inventory)
      BY <1>2 DEF PlanReason
    <2>2. q = r /\ ~(r.times > 1)
      BY <2>1, <1>3 DEF Ambiguous
    <2>3. r.times \in Nat \ {0}
      BY DEF PlanInv, InventoryInv, IsRecord
    <2> QED BY <2>2, <2>3
  <1> QED BY <1>2, <1>3

\* Two resources of a published component never share a node, and none is listed
\* twice, for any set of names and services: discovery reports each path under
\* which more than one resource was added.
THEOREM UnambiguousNodes == Spec => []NodesAreUnambiguous
  <1>1. PlanInv => NodesAreUnambiguous
    <2> SUFFICES ASSUME PlanInv, phase = "published"
                 PROVE  \A q, r \in inventory : q.path = r.path => q = r /\ r.times = 1
      BY DEF NodesAreUnambiguous
    <2>1. diagnostics = {} /\ phase # "idle"
      BY DEF PlanInv, PhaseInv
    <2> QED BY <2>1, OneRecordPerPath
  <1> QED BY <1>1, PlanInvHolds, PTL

\* A publication that succeeds has the bundles of exactly the resources that the
\* selectors cover, their owners and the mandatory operations, for every
\* component, every set of selectors and every change under the plan.
THEOREM PublishesWhatWasAsked == Spec => []ExactlyWhatWasAsked
  <1>1. PlanInv => ExactlyWhatWasAsked
    <2> SUFFICES ASSUME PlanInv, phase = "published" PROVE ExactlyWhatWasAsked
      BY DEF ExactlyWhatWasAsked
    <2>1. /\ diagnostics = {} /\ todo = {} /\ phase # "idle" /\ space = nodes
          /\ InventoryInv /\ EffectiveInv /\ MappedInv /\ NodesInv
      BY DEF PlanInv, PhaseInv
    <2>2. ~PlanReason /\ \A q, r \in inventory : q.path = r.path => q = r
      BY <2>1, OneRecordPerPath
    <2>3. ASSUME NEW r \in inventory, AskedFor(r)
          PROVE  r.path \in space /\ (r \notin vanished => BundleOf(r, r.entry) \subseteq space)
      <3>1. r.path \in effective
        BY <2>1, <2>3, EffectiveIsAsked
      <3>2. r.path \in Paths(inventory)
        BY DEF Paths
      <3>3. RecordOf(r.path) = r
        BY <2>2, <3>2, RecordOfPath
      <3>4. r.path \in effective \ todo
        BY <2>1, <3>1
      <3>5. /\ {CategoryPath(RecordOf(r.path)), RecordOf(r.path).path} \subseteq nodes
            /\ RecordOf(r.path) \notin vanished =>
                 BundleOf(RecordOf(r.path), RecordOf(r.path).entry) \subseteq nodes
        BY <2>1, <3>4 DEF MappedInv
      <3> QED BY <2>1, <3>3, <3>5
    <2>4. ASSUME NEW n \in space \ {<<>>}
          PROVE  \E r \in inventory : AskedFor(r) /\
                   (n \in BundleOf(r, r.entry) \/ (r \in vanished /\ Front(n) = r.path))
      <3>1. PICK p \in effective :
              \/ n \in BundleOf(RecordOf(p), RecordOf(p).entry)
              \/ RecordOf(p) \in vanished /\ \E m : n = Append(RecordOf(p).path, m)
        BY <2>1, <2>4 DEF NodesInv
      <3>2. p \in Paths(inventory)
        BY <2>1, OwnersAreEffective
      <3> DEFINE r == RecordOf(p)
      <3>3. r \in inventory /\ r.path = p /\ IsRecord(r)
        BY <2>1, <3>2, RecordOfPath DEF InventoryInv
      <3>4. AskedFor(r)
        BY <2>1, <3>1, <3>3, EffectiveIsAsked
      <3>5. n \in BundleOf(r, r.entry) \/ (r \in vanished /\ \E m : n = Append(r.path, m))
        BY <3>1
      <3> HIDE DEF r
      <3>6. ASSUME NEW m, n = Append(r.path, m) PROVE Front(n) = r.path
        <4> DEFINE path == r.path
        <4>1. path \in Seq(Segments)
          BY <3>3, RecordParts
        <4>2. n = Append(path, m)
          BY <3>6
        <4> HIDE DEF path
        <4>3. Front(n) = path
          BY <4>1, <4>2, AppendParts
        <4> QED BY <4>3 DEF path
      <3> QED BY <3>3, <3>4, <3>5, <3>6
    <2>5. \A s \in selectors : \E r \in inventory : Covers(s, r.path)
      BY <2>2 DEF PlanReason
    <2>6. mode = "selected" => selectors # {}
      BY <2>2 DEF PlanReason
    <2> QED BY <2>3, <2>4, <2>5, <2>6 DEF ExactlyWhatWasAsked
  <1> QED BY <1>1, PlanInvHolds, PTL

\* A publication is refused for a reason in what was asked for, or because two
\* resources of the component share a path: outside the selection nothing else
\* counts, for every component, every set of selectors and every change.
THEOREM JustifiedRejection == Spec => []RejectionIsJustified
  <1>1. PlanInv => RejectionIsJustified
    <2> SUFFICES ASSUME PlanInv, phase = "rejected", ~PlanReason PROVE ReasonInSelection
      BY DEF RejectionIsJustified, ReasonInSelection, PlanReason
    <2>1. /\ diagnostics # {} /\ phase # "idle"
          /\ InventoryInv /\ EffectiveInv /\ DiagnosticInv
      BY DEF PlanInv, PhaseInv
    <2>2. PlanDiagnostics(mode, selectors, inventory) = {}
      BY <2>1, DiagnosticReasons
    <2>3. PICK p \in effective : Unfit(RecordOf(p))
      BY <2>1, <2>2 DEF DiagnosticInv
    <2>4. p \in Paths(inventory)
      BY <2>1, OwnersAreEffective
    <2>5. RecordOf(p) \in inventory /\ RecordOf(p).path = p
      BY <2>4, RecordOfPath
    <2>6. AskedFor(RecordOf(p))
      BY <2>1, <2>3, <2>5, EffectiveIsAsked
    <2> QED BY <2>3, <2>5, <2>6 DEF Unfit, ReasonInSelection
  <1> QED BY <1>1, PlanInvHolds, PTL

==============================================================================
