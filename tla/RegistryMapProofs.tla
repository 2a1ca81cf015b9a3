-------------------------- MODULE RegistryMapProofs --------------------------
(***************************************************************************)
(* Proofs that the registry is the map it promises to be: for every set of *)
(* blocks, modules and registrations, ModuleRegistry implements ExportMap, *)
(* and a registration reported as successful is what is looked up then.    *)
(***************************************************************************)
EXTENDS ModuleRegistryProofs, FiniteSetTheorems

(* Node j of the lists ts and ns stands for ordinal o of module m.         *)
StandsFor(ts, ns, j, m, o) ==
    j \in DOMAIN ns /\ ts[ns[j].table].module_name = m /\ ns[j].entry.ordinal = o

(* A lookup by ordinal in the lists ts and ns. *)
Lookup(ts, ns, m, o) ==
    LET k == First({l \in DOMAIN ts : ts[l].module_name = m})
        i == First({j \in {l \in DOMAIN ns : ns[l].table = k} : ns[j].entry.ordinal = o})
    IN IF i = 0 THEN NOT_FOUND ELSE ns[i].entry.address

LEMMA LookupIsGet ==
    ASSUME NEW m, NEW o
    PROVE  /\ MRGetMethodByOrdinal(m, o) = Lookup(tables, nodes, m, o)
           /\ MRGetMethodByOrdinal(m, o)' = Lookup(tables', nodes', m, o)
BY DEF MRGetMethodByOrdinal, AddressAt, NodeByOrdinal, Tables, NodesOf, Lookup

(* A node that stands for an ordinal is the only one, and is found.        *)
LEMMA LookupFinds ==
    ASSUME NEW ts, NEW ns, NEW p, HeapOK(ts, ns, p), NEW m, NEW o, NEW j,
           StandsFor(ts, ns, j, m, o)
    PROVE  Lookup(ts, ns, m, o) = ns[j].entry.address
<1> DEFINE K == {l \in DOMAIN ts : ts[l].module_name = m}
           S(k) == {i \in {l \in DOMAIN ns : ns[l].table = k} : ns[i].entry.ordinal = o}
<1>1. DOMAIN ts \subseteq Nat /\ DOMAIN ns \subseteq Nat \ {0}
  BY LenProperties DEF HeapOK
<1>2. K = {ns[j].table}
  BY DEF HeapOK, StandsFor
<1>3. First(K) = ns[j].table
  BY <1>1, <1>2, FirstIsLeast
<1>4. S(ns[j].table) = {j}
  BY DEF HeapOK, StandsFor
<1>5. First(S(ns[j].table)) = j /\ j # 0
  <2>1. {j} \in SUBSET Nat /\ {j} # {} /\ j # 0
    BY <1>1 DEF StandsFor
  <2>2. First({j}) = j
    BY <2>1, FirstIsLeast
  <2> QED BY <1>4, <2>1, <2>2
<1> QED BY <1>3, <1>5 DEF Lookup

(* Where no node stands for an ordinal, none is found. *)
LEMMA LookupFindsNone ==
    ASSUME NEW ts, NEW ns, NEW p, HeapOK(ts, ns, p), NEW m, NEW o,
           \A j : ~StandsFor(ts, ns, j, m, o)
    PROVE  Lookup(ts, ns, m, o) = NOT_FOUND
<1> DEFINE K == {l \in DOMAIN ts : ts[l].module_name = m}
           S(k) == {i \in {l \in DOMAIN ns : ns[l].table = k} : ns[i].entry.ordinal = o}
<1>1. DOMAIN ts \subseteq Nat \ {0} /\ K \subseteq DOMAIN ts
  BY LenProperties DEF HeapOK
<1>2. S(First(K)) = {}
  <2>1. CASE K = {}
    BY <1>1, <2>1, FirstOfNone DEF HeapOK
  <2>2. CASE K # {}
    <3>1. First(K) \in K
      BY <1>1, <2>2, FirstIsLeast
    <3> QED BY <3>1 DEF StandsFor
  <2> QED BY <2>1, <2>2
<1> QED BY <1>2, FirstOfNone DEF Lookup

(* Lists in which the same nodes stand for an ordinal, with the same       *)
(* address, answer the same. *)
LEMMA SameLookup ==
    ASSUME NEW ts, NEW ns, NEW p, HeapOK(ts, ns, p),
           NEW us, NEW vs, NEW q, HeapOK(us, vs, q), NEW m, NEW o,
           \A j : StandsFor(us, vs, j, m, o) <=> StandsFor(ts, ns, j, m, o),
           \A j : StandsFor(ts, ns, j, m, o) => vs[j].entry.address = ns[j].entry.address
    PROVE  Lookup(us, vs, m, o) = Lookup(ts, ns, m, o)
<1>1. CASE \A j : ~StandsFor(ts, ns, j, m, o)
  BY <1>1, LookupFindsNone
<1>2. ASSUME NEW j, StandsFor(ts, ns, j, m, o) PROVE Lookup(us, vs, m, o) = Lookup(ts, ns, m, o)
  BY <1>2, LookupFinds
<1> QED BY <1>1, <1>2
-----------------------------------------------------------------------------
(* What callers see after a registration of x for m: it took effect and    *)
(* says so, or it did not and changed nothing they see.                    *)
TakesEffect(m, x) ==
    /\ ret' = "registered"
    /\ Lookup(tables', nodes', m, x.ordinal) = x.address
    /\ \A n, o : <<n, o>> # <<m, x.ordinal>> =>
            Lookup(tables', nodes', n, o) = Lookup(tables, nodes, n, o)

NoEffect ==
    /\ ret' = "refused" \/ (ret' = ret /\ fault' # "none")
    /\ \A n, o : Lookup(tables', nodes', n, o) = Lookup(tables, nodes, n, o)

(* A node added at the end for a new ordinal, or an entry overwritten, is  *)
(* found from then on, and no other lookup changes.                        *)
LEMMA NodeTakesEffect ==
    ASSUME NEW p, HeapOK(tables, nodes, p), HeapOK(tables', nodes', pool'),
           NEW m, NEW x, ret' = "registered",
           NEW i, StandsFor(tables', nodes', i, m, x.ordinal), nodes'[i].entry = x,
           \A j : j # i =>
                /\ j \in DOMAIN nodes' <=> j \in DOMAIN nodes
                /\ j \in DOMAIN nodes => nodes'[j] = nodes[j],
           i \in DOMAIN nodes => StandsFor(tables, nodes, i, m, x.ordinal),
           \A k \in DOMAIN tables : k \in DOMAIN tables' /\ tables'[k] = tables[k]
    PROVE  TakesEffect(m, x)
<1>1. Lookup(tables', nodes', m, x.ordinal) = x.address
  BY LookupFinds
<1>2. ASSUME NEW n, NEW o, <<n, o>> # <<m, x.ordinal>>
      PROVE  Lookup(tables', nodes', n, o) = Lookup(tables, nodes, n, o)
  <2>1. n # m \/ o # x.ordinal
    BY <1>2
  <2>2. ~StandsFor(tables', nodes', i, n, o) /\ ~StandsFor(tables, nodes, i, n, o)
    BY <2>1 DEF StandsFor
  <2>3. \A j \in DOMAIN nodes : tables'[nodes[j].table] = tables[nodes[j].table]
    BY DEF HeapOK
  <2>4. \A j : j # i => (StandsFor(tables', nodes', j, n, o) <=> StandsFor(tables, nodes, j, n, o))
    BY <2>3 DEF StandsFor
  <2>5. \A j : StandsFor(tables', nodes', j, n, o) <=> StandsFor(tables, nodes, j, n, o)
    BY <2>2, <2>4
  <2>6. \A j : StandsFor(tables, nodes, j, n, o) =>
                    nodes'[j].entry.address = nodes[j].entry.address
    BY <2>2 DEF StandsFor
  <2> QED BY <2>5, <2>6, SameLookup
<1> QED BY <1>1, <1>2 DEF TakesEffect

(* Nothing registered: the nodes are as they were, the tables at most more.*)
LEMMA NothingTakesEffect ==
    ASSUME NEW p, HeapOK(tables, nodes, p), HeapOK(tables', nodes', pool'), UNCHANGED nodes,
           ret' = "refused" \/ (ret' = ret /\ fault' # "none"),
           \A k \in DOMAIN tables : k \in DOMAIN tables' /\ tables'[k] = tables[k]
    PROVE  NoEffect
<1>1. \A n, o, j : StandsFor(tables', nodes', j, n, o) <=> StandsFor(tables, nodes, j, n, o)
  BY DEF StandsFor, HeapOK
<1> QED BY <1>1, SameLookup DEF NoEffect
-----------------------------------------------------------------------------
(* SetExportEntry appends a node that stands for the export, or faults.    *)
LEMMA SetExportEntryTakes ==
    ASSUME NEW p, HeapOK(tables, nodes, p), HeapOK(tables', nodes', pool'),
           NEW m, NEW x \in Export, NEW q, NEW ss, NEW k \in DOMAIN tables',
           tables'[k].module_name = m, SetExportEntry(x, q, ss, k),
           \A j \in DOMAIN tables : j \in DOMAIN tables' /\ tables'[j] = tables[j]
    PROVE  TakesEffect(m, x) \/ NoEffect
<1>1. CASE nodes' = Append(nodes, [table |-> k, at |-> Alloc(q), entry |-> x, strings |-> ss])
           /\ ret' = "registered"
  <2> DEFINE n == [table |-> k, at |-> Alloc(q), entry |-> x, strings |-> ss]
             i == Len(nodes) + 1
  <2>1. /\ n \in NodeRec \cup {n} /\ nodes \in Seq(NodeRec \cup {n})
        /\ nodes' = Append(nodes, n)
    BY <1>1, SeqMonotonic DEF HeapOK
  <2>2. n.table = k /\ n.entry = x
    OBVIOUS
  <2> HIDE DEF n
  <2>3. /\ DOMAIN nodes' = DOMAIN nodes \cup {i} /\ i \notin DOMAIN nodes
        /\ nodes'[i] = n /\ \A j \in DOMAIN nodes : nodes'[j] = nodes[j]
    BY <2>1, AppendFacts
  <2> HIDE DEF i
  <2>4. StandsFor(tables', nodes', i, m, x.ordinal) /\ nodes'[i].entry = x
    BY <2>2, <2>3 DEF StandsFor
  <2> QED BY <1>1, <2>3, <2>4, NodeTakesEffect
<1>2. CASE UNCHANGED nodes /\ Fault("null_write")
  BY <1>2, NothingTakesEffect DEF Fault
<1> QED BY <1>1, <1>2 DEF SetExportEntry

(* AppendExport overwrites the entry that has the ordinal, or adds one.    *)
LEMMA AppendExportTakes ==
    ASSUME NEW p, HeapOK(tables, nodes, p), HeapOK(tables', nodes', pool'),
           NEW m, NEW x \in Export, NEW q, NEW ss, NEW k \in DOMAIN tables,
           tables[k].module_name = m, AppendExport(x, q, ss, k)
    PROVE  TakesEffect(m, x) \/ NoEffect
<1> DEFINE S == {j \in NodesOf(k) : nodes[j].entry.ordinal = x.ordinal}
           i == NodeByOrdinal(k, x.ordinal)
<1>1. i = First(S) /\ S \in SUBSET Nat
  BY LenProperties DEF NodeByOrdinal, HeapOK, NodesOf
<1> HIDE DEF i
<1>2. UNCHANGED tables
  BY DEF AppendExport, Replace
<1>3. CASE i # 0 /\ S # {}
  <2>1. i \in S
    BY <1>1, <1>3, FirstIsLeast
  <2>2. i \in DOMAIN nodes /\ StandsFor(tables, nodes, i, m, x.ordinal) /\ nodes[i] \in NodeRec
    <3>1. i \in DOMAIN nodes /\ StandsFor(tables, nodes, i, m, x.ordinal)
      BY <2>1 DEF NodesOf, StandsFor
    <3> QED BY <3>1, ElementOfSeq, LenProperties DEF HeapOK
  <2>3. Replace(x, q, ss, i)
    BY <1>3 DEF AppendExport, i
  <2>4. CASE /\ nodes' = [nodes EXCEPT ![i] = [@ EXCEPT !.entry = x, !.strings = ss]]
             /\ ret' = "registered"
    <3>1. /\ DOMAIN nodes' = DOMAIN nodes
          /\ nodes'[i].table = nodes[i].table /\ nodes'[i].entry = x
          /\ \A j \in DOMAIN nodes : j # i => nodes'[j] = nodes[j]
      BY <2>2, <2>4 DEF NodeRec
    <3>2. StandsFor(tables', nodes', i, m, x.ordinal)
      BY <1>2, <2>2, <3>1 DEF StandsFor
    <3> QED BY <1>2, <2>2, <2>4, <3>1, <3>2, NodeTakesEffect
  <2>5. CASE UNCHANGED nodes /\ Fault("bad_free")
    BY <1>2, <2>5, NothingTakesEffect DEF Fault
  <2> QED BY <2>3, <2>4, <2>5 DEF Replace
<1>4. CASE i = 0
  <2>1. SetExportEntry(x, q, ss, k)
    BY <1>4 DEF AppendExport, i
  <2> QED BY <1>2, <2>1, SetExportEntryTakes
<1> QED BY <1>1, <1>3, <1>4, FirstOfNone

(* MRRegisterMethod, whatever pool and strings it is called with. *)
LEMMA RegisterTakes ==
    ASSUME NEW p, HeapOK(tables, nodes, p), HeapOK(tables', nodes', pool'),
           NEW m \in Module, NEW x \in Export, NEW q, NEW ss, MRRegisterMethod(m, x, q, ss)
    PROVE  TakesEffect(m, x) \/ NoEffect
<1>1. CASE Tables(m) # {}
  <2>1. Tables(m) \in SUBSET Nat
    BY LenProperties DEF HeapOK, Tables
  <2>2. First(Tables(m)) \in Tables(m)
    BY <1>1, <2>1, FirstIsLeast
  <2>3. AppendExport(x, q, ss, First(Tables(m)))
    BY <1>1 DEF MRRegisterMethod
  <2> QED BY <2>2, <2>3, AppendExportTakes DEF Tables
<1>2. CASE Tables(m) = {}
  <2> DEFINE at == Alloc(q)
             name == Alloc(q \cup {at})
             t == [module_name |-> m, at |-> at, strings |-> {name}]
             k == Len(tables) + 1
  <2>1. CASE /\ tables' = Append(tables, t)
             /\ SetExportEntry(x, q \cup {at} \cup {name}, ss, k)
    <3>1. t \in TableRec \cup {t} /\ tables \in Seq(TableRec \cup {t}) /\ t.module_name = m
      BY SeqMonotonic DEF HeapOK
    <3> HIDE DEF t
    <3>2. /\ DOMAIN tables' = DOMAIN tables \cup {k} /\ tables'[k] = t
          /\ \A j \in DOMAIN tables : tables'[j] = tables[j]
      BY <2>1, <3>1, AppendFacts
    <3> QED BY <2>1, <3>1, <3>2, SetExportEntryTakes
  <2>2. CASE ret' = "refused" /\ UNCHANGED <<tables, nodes>>
    BY <2>2, NothingTakesEffect
  <2>3. AppendExportTable(m, x, q, ss)
    BY <1>2 DEF MRRegisterMethod
  <2> QED BY <2>1, <2>2, <2>3, Zenon DEF AppendExportTable
<1> QED BY <1>1, <1>2

(* RegisterExport and RegisterScoped are MRRegisterMethod with a heap in   *)
(* order before and after. *)
LEMMA RegistrationTakes ==
    ASSUME RegistryInv, RegistryInv', NEW m \in Module, NEW x \in Export,
           RegisterExport(m, x) \/ RegisterScoped(m, x)
    PROVE  TakesEffect(m, x) \/ NoEffect
<1>1. \E q, ss : MRRegisterMethod(m, x, q, ss)
  BY DEF RegisterExport, RegisterScoped
<1> QED BY <1>1, RegisterTakes DEF RegistryInv
-----------------------------------------------------------------------------
Ordinals == {x.ordinal : x \in Export}

LEMMA AddressesAre ==
    /\ Addresses = [k \in Module \X Ordinals |-> Lookup(tables, nodes, k[1], k[2])]
    /\ Addresses' = [k \in Module \X Ordinals |-> Lookup(tables', nodes', k[1], k[2])]
BY LookupIsGet DEF Addresses, Ordinals

(* A registration that took effect changes one address. *)
LEMMA EffectOnMap ==
    ASSUME NEW m \in Module, NEW x \in Export, TakesEffect(m, x)
    PROVE  Addresses' = [Addresses EXCEPT ![<<m, x.ordinal>>] = x.address]
<1> DEFINE K == Module \X Ordinals
           A(k) == Lookup(tables, nodes, k[1], k[2])
           B(k) == Lookup(tables', nodes', k[1], k[2])
           new == <<m, x.ordinal>>
<1>1. new \in K
  BY DEF Ordinals
<1>2. \A k \in K : B(k) = IF k = new THEN x.address ELSE A(k)
  BY DEF TakesEffect
<1>3. Addresses = [k \in K |-> A(k)] /\ Addresses' = [k \in K |-> B(k)]
  BY AddressesAre
<1> HIDE DEF K, A, B, new
<1>4. Addresses' = [Addresses EXCEPT ![new] = x.address]
  BY <1>1, <1>2, <1>3
<1> QED BY <1>4 DEF new

LEMMA NoEffectOnMap ==
    ASSUME NoEffect
    PROVE  UNCHANGED Addresses
BY AddressesAre DEF NoEffect

LEMMA EmptyMap ==
    ASSUME tables = <<>>, nodes = <<>>
    PROVE  Addresses = Map!Empty
<1>1. HeapOK(tables, nodes, {})
  BY EmptySeq DEF HeapOK
<1>2. \A m, o : Lookup(tables, nodes, m, o) = NOT_FOUND
  BY <1>1, LookupFindsNone DEF StandsFor
<1> QED BY <1>2, AddressesAre DEF Map!Empty, Ordinals

LEMMA EmptiedMap ==
    ASSUME tables' = <<>>, nodes' = <<>>
    PROVE  Addresses' = Map!Empty
<1>1. HeapOK(tables', nodes', {})
  BY EmptySeq DEF HeapOK
<1>2. \A m, o : Lookup(tables', nodes', m, o) = NOT_FOUND
  BY <1>1, LookupFindsNone DEF StandsFor
<1> QED BY <1>2, AddressesAre DEF Map!Empty, Ordinals

(* Every step is a step of the map, or changes nothing callers see. *)
LEMMA MapStep ==
    ASSUME RegistryInv, RegistryInv', [Next]_vars
    PROVE  [Map!Next]_(Map!vars)
<1>1. ASSUME NEW m \in Module, NEW x \in Export, RegisterExport(m, x) \/ RegisterScoped(m, x)
      PROVE  [Map!Next]_(Map!vars)
  <2>1. CASE TakesEffect(m, x)
    <3>1. Map!Register(m, x.ordinal, x.address)
      BY <2>1, EffectOnMap DEF Map!Register, TakesEffect
    <3> QED BY <3>1 DEF Map!Next
  <2>2. CASE NoEffect
    <3>1. UNCHANGED Addresses /\ (ret' = "refused" \/ ret' = ret)
      BY <2>2, NoEffectOnMap DEF NoEffect
    <3> QED BY <3>1 DEF Map!Next, Map!Refuse, Map!vars
  <2> QED BY <1>1, <2>1, <2>2, RegistrationTakes
<1>2. ASSUME NEW m \in Module, NEW x \in Export, RegisterExportNoMemory(m, x)
      PROVE  [Map!Next]_(Map!vars)
  <2>1. ret' = "refused" /\ UNCHANGED Addresses
    BY <1>2, AddressesAre DEF RegisterExportNoMemory
  <2> QED BY <2>1 DEF Map!Next, Map!Refuse
<1>3. CASE MREnumerateRegistryBegin \/ MREnumerateRegistry \/ MREnumerateRegistryEnd
  <2>1. UNCHANGED <<tables, nodes, ret>>
    BY <1>3 DEF MREnumerateRegistryBegin, MREnumerateRegistry, MREnumerateRegistryEnd, Fault
  <2> QED BY <2>1, AddressesAre DEF Map!vars
<1>4. CASE MRResetRegistry
  <2>1. Exclusive /\ MayFree(pool, Owned)
    BY HeapOwned DEF RegistryInv, MayFree
  <2>2. tables' = <<>> /\ nodes' = <<>> /\ ret' = "none"
    BY <1>4, <2>1 DEF MRResetRegistry
  <2> QED BY <2>2, EmptiedMap DEF Map!Next, Map!Reset
<1>5. CASE UNCHANGED vars
  <2>1. UNCHANGED <<tables, nodes, ret>>
    BY <1>5 DEF vars
  <2> QED BY <2>1, AddressesAre DEF Map!vars
<1> QED BY <1>1, <1>2, <1>3, <1>4, <1>5 DEF Next

(* module_registry.c keeps the promise of module_registry.h: the registry  *)
(* is a map from (module, ordinal) to the address registered last, and a   *)
(* registration that is refused leaves it alone. *)
THEOREM RegistryImplementsMap ==
    ASSUME PoolOnly
    PROVE  Spec => ImplementsMap
<1>1. Init => Map!Init
  BY EmptyMap DEF Init, Map!Init
<1>2. RegistryInv /\ RegistryInv' /\ [Next]_vars => [Map!Next]_(Map!vars)
  BY MapStep
<1> QED BY <1>1, <1>2, RegistryInvariant, PTL DEF Spec, ImplementsMap, Map!Spec

(* MRRegisterMethod that returns true is what MRGetMethodByOrdinal answers *)
(* from then on, over any earlier registration, and for nothing else.      *)
THEOREM RegistryLastWins ==
    ASSUME PoolOnly
    PROVE  Spec => LastRegistrationWins
<1>1. RegistryInv /\ RegistryInv' /\ [Next]_vars =>
        [\A m \in Module, x \in Export :
            /\ RegisterExport(m, x) \/ RegisterScoped(m, x)
            /\ ret' = "registered" /\ fault' = "none"
            => Addresses' = [Addresses EXCEPT ![<<m, x.ordinal>>] = x.address]]_vars
  <2> SUFFICES ASSUME RegistryInv, RegistryInv', NEW m \in Module, NEW x \in Export,
                      RegisterExport(m, x) \/ RegisterScoped(m, x),
                      ret' = "registered", fault' = "none"
               PROVE  Addresses' = [Addresses EXCEPT ![<<m, x.ordinal>>] = x.address]
    OBVIOUS
  <2>1. TakesEffect(m, x)
    BY RegistrationTakes DEF NoEffect
  <2> QED BY <2>1, EffectOnMap
<1> QED BY <1>1, RegistryInvariant, PTL DEF Spec, LastRegistrationWins
-----------------------------------------------------------------------------
(* The table of a module stays the one its lookups begin at. *)
LEMMA TableKept ==
    ASSUME HeapOK(tables, nodes, pool), HeapOK(tables', nodes', pool'), Extends,
           NEW m, Tables(m) # {}
    PROVE  First(Tables(m))' = First(Tables(m))
<1>1. PICK k \in DOMAIN tables : tables[k].module_name = m
  BY DEF Tables
<1>2. Tables(m) = {k}
  BY <1>1 DEF Tables, HeapOK
<1>3. Tables(m)' = {k}
  BY <1>1 DEF Tables, HeapOK, Extends
<1> QED BY <1>2, <1>3 DEF First

(* A name that resolves keeps doing so to the same node: what is appended  *)
(* comes behind it. *)
LEMMA NamesKept ==
    ASSUME HeapOK(tables, nodes, pool), HeapOK(tables', nodes', pool'), Extends,
           NEW m, NEW s, MRGetMethodByName(m, s) # NOT_FOUND,
           \A i \in DOMAIN nodes : \/ nodes'[i].entry = nodes[i].entry
                                   \/ s \notin Names(nodes[i]) \cup Names(nodes'[i])
    PROVE  MRGetMethodByName(m, s)' = MRGetMethodByName(m, s)
<1> DEFINE k == First(Tables(m))
           H == {i \in NodesOf(k) : s \in Names(nodes[i])}
           G == {i \in DOMAIN nodes' : nodes'[i].table = k /\ s \in Names(nodes'[i])}
           i == First(H)
<1>1. /\ DOMAIN nodes = 1 .. Len(nodes) /\ Len(nodes) \in Nat
      /\ DOMAIN nodes' = 1 .. Len(nodes') /\ Len(nodes') \in Nat
  BY LenProperties DEF HeapOK
<1>2. MRGetMethodByName(m, s) = AddressAt(i) /\ i # 0
  BY DEF MRGetMethodByName, NodeByName, AddressAt
<1>3. H \in SUBSET Nat /\ H # {}
  <2>1. H \in SUBSET Nat
    BY <1>1 DEF NodesOf
  <2> HIDE DEF H
  <2>2. H # {}
    BY <1>2, FirstOfNone
  <2> QED BY <2>1, <2>2
<1> HIDE DEF i
<1>4. i \in H /\ \A j \in H : i <= j
  BY <1>3, FirstIsLeast DEF i
<1>5. Tables(m) # {}
  <2> SUFFICES ASSUME Tables(m) = {} PROVE FALSE
    OBVIOUS
  <2>1. k = 0
    BY FirstOfNone
  <2>2. DOMAIN tables \subseteq Nat \ {0}
    BY LenProperties DEF HeapOK
  <2> QED BY <1>4, <2>1, <2>2 DEF NodesOf, HeapOK
<1>6. k' = k
  BY <1>5, TableKept
<1> HIDE DEF k
<1>7. i \in DOMAIN nodes /\ nodes'[i].entry = nodes[i].entry /\ i \in G
  <2>1. i \in DOMAIN nodes /\ nodes'[i].entry = nodes[i].entry
    BY <1>4 DEF NodesOf
  <2>2. Names(nodes'[i]) = Names(nodes[i])
    BY <2>1 DEF Names
  <2> QED BY <1>4, <2>1, <2>2 DEF NodesOf, Extends
<1>8. \A j \in G : i <= j
  <2> SUFFICES ASSUME NEW j \in G PROVE i <= j
    OBVIOUS
  <2>1. CASE j \in DOMAIN nodes
    <3>1. nodes'[j].table = nodes[j].table /\ nodes'[j].entry = nodes[j].entry
      BY <2>1 DEF Extends
    <3>2. j \in H
      BY <2>1, <3>1 DEF NodesOf, Names
    <3> QED BY <1>4, <3>2
  <2>2. CASE j \notin DOMAIN nodes
    BY <1>1, <1>4, <2>2 DEF NodesOf
  <2> QED BY <2>1, <2>2
<1>9. First(G) = i
  <2>1. G \in SUBSET Nat /\ G # {}
    BY <1>1, <1>7
  <2>2. First(G) \in G /\ \A j \in G : First(G) <= j
    BY <2>1, FirstIsLeast
  <2>3. First(G) <= i /\ i <= First(G) /\ i \in Nat /\ First(G) \in Nat
    BY <1>7, <1>8, <2>1, <2>2
  <2> QED BY <2>3
<1>10. MRGetMethodByName(m, s)' = nodes'[i].entry.address
  <2>1. NodeByName(k, s)' = First(G)
    BY <1>6 DEF NodeByName, NodesOf
  <2>2. MRGetMethodByName(m, s)' = AddressAt(NodeByName(k, s))'
    BY DEF MRGetMethodByName, k
  <2> QED BY <1>2, <1>9, <2>1, <2>2 DEF AddressAt
<1> QED BY <1>2, <1>7, <1>10 DEF AddressAt

(* Every step but a reset keeps what is in the lists. *)
LEMMA StepExtends ==
    ASSUME PoolOnly, RegistryInv, [Next]_vars
    PROVE  Extends \/ nodes' = <<>>
<1>1. ASSUME NEW m \in Module, NEW x \in Export, RegisterExport(m, x) \/ RegisterScoped(m, x)
      PROVE  Extends
  <2>1. Loose({}, tables, nodes, pool) /\ fault = "none" /\ pool \in SUBSET Block
    BY <1>1 DEF Loose, RegisterExport, RegisterScoped, RegistryInv, HeapOK
  <2>2. CASE RegisterExport(m, x)
    BY <2>1, <2>2, RegisterExportEffect DEF RegistryInv, Registered
  <2>3. CASE RegisterScoped(m, x)
    <3>1. MRRegisterMethod(m, x, pool, {})
      BY <2>3 DEF RegisterScoped, PoolOnly
    <3> QED BY <2>1, <3>1, RegisterEffect DEF RegistryInv, Registered
  <2> QED BY <1>1, <2>2, <2>3
<1>2. CASE MRResetRegistry
  <2>1. Exclusive /\ MayFree(pool, Owned)
    BY HeapOwned DEF RegistryInv, MayFree
  <2> QED BY <1>2, <2>1 DEF MRResetRegistry
<1>3. CASE UNCHANGED <<tables, nodes>>
  BY <1>3 DEF Extends
<1> QED
  BY <1>1, <1>2, <1>3 DEF Next, vars, RegisterExportNoMemory, MREnumerateRegistryBegin,
     MREnumerateRegistry, MREnumerateRegistryEnd

(* MRGetMethodByName: what a name resolves to is changed by an overwrite   *)
(* of an entry that has or gets the name, never by an appended export.     *)
THEOREM RegistryNames ==
    ASSUME PoolOnly
    PROVE  Spec => NamesStable
<1>1. RegistryInv /\ RegistryInv' /\ [Next]_vars =>
        [nodes' # <<>> =>
            \A m \in Module, s \in UNION {Names([entry |-> x]) : x \in Export} :
                MRGetMethodByName(m, s) \notin {NOT_FOUND, MRGetMethodByName(m, s)'} =>
                    \E i \in DOMAIN nodes :
                        /\ nodes'[i].entry # nodes[i].entry
                        /\ s \in Names(nodes[i]) \cup Names(nodes'[i])]_vars
  <2> SUFFICES ASSUME RegistryInv, RegistryInv', [Next]_vars, nodes' # <<>>, NEW m, NEW s,
                      MRGetMethodByName(m, s) \notin {NOT_FOUND, MRGetMethodByName(m, s)'}
               PROVE  \E i \in DOMAIN nodes :
                            /\ nodes'[i].entry # nodes[i].entry
                            /\ s \in Names(nodes[i]) \cup Names(nodes'[i])
    OBVIOUS
  <2> QED BY StepExtends, NamesKept DEF RegistryInv
<1> QED BY <1>1, RegistryInvariant, PTL DEF Spec, NamesStable
-----------------------------------------------------------------------------
(* A table or node of the lists ts and ns holds block b. *)
Held(ts, ns, b) ==
    (\E k \in DOMAIN ts : b \in Blocks(ts[k])) \/ (\E i \in DOMAIN ns : b \in Blocks(ns[i]))

LEMMA OwnedIsHeld ==
    /\ \A b : b \in Owned <=> Held(tables, nodes, b)
    /\ \A b : b \in Owned' <=> Held(tables', nodes', b)
BY DEF Owned, Owners, Held

(* A registration called with pool q and the strings ss either leaves      *)
(* nothing of q that is not held but what was not before, the strings      *)
(* included, or is refused with the lists as they were. *)
Tracked(q, ss) ==
    \/ ret' = "registered" /\ \A b \in pool' : Held(tables', nodes', b)
                                            \/ (b \in q \ ss /\ ~Held(tables, nodes, b))
    \/ ret' = "refused" /\ UNCHANGED <<tables, nodes>> /\ pool' = q

LEMMA SetExportEntryTracks ==
    ASSUME nodes \in Seq(NodeRec), NEW q, NEW r, NEW ss, NEW x, NEW k, fault' = "none",
           SetExportEntry(x, r, ss, k),
           \A j \in DOMAIN tables : j \in DOMAIN tables' /\ tables'[j] = tables[j],
           \A b \in r : b \in q \/ Held(tables', nodes, b)
    PROVE  Tracked(q, ss)
<1> DEFINE n == [table |-> k, at |-> Alloc(r), entry |-> x, strings |-> ss]
<1>1. /\ pool' = r \cup {Alloc(r)} /\ nodes' = Append(nodes, n)
      /\ ret' = "registered"
  BY DEF SetExportEntry, Fault
<1>2. Blocks(n) = {Alloc(r)} \cup ss
  BY DEF Blocks
<1>3. n \in NodeRec \cup {n} /\ nodes \in Seq(NodeRec \cup {n})
  BY SeqMonotonic
<1> HIDE DEF n
<1>4. /\ DOMAIN nodes' = DOMAIN nodes \cup {Len(nodes) + 1} /\ nodes'[Len(nodes) + 1] = n
      /\ \A j \in DOMAIN nodes : nodes'[j] = nodes[j]
  BY <1>1, <1>3, AppendFacts
<1>5. \A b : Held(tables, nodes, b) \/ Held(tables', nodes, b) => Held(tables', nodes', b)
  BY <1>4 DEF Held
<1>6. \A b \in {Alloc(r)} \cup ss : Held(tables', nodes', b)
  BY <1>2, <1>4 DEF Held
<1> QED BY <1>1, <1>5, <1>6 DEF Tracked

LEMMA ReplaceTracks ==
    ASSUME nodes \in Seq(NodeRec), NEW q, NEW ss, NEW x, NEW i \in DOMAIN nodes,
           fault' = "none", Replace(x, q, ss, i)
    PROVE  Tracked(q, ss)
<1>1. /\ pool' = q \ nodes[i].strings /\ UNCHANGED tables /\ ret' = "registered"
      /\ nodes' = [nodes EXCEPT ![i] = [@ EXCEPT !.entry = x, !.strings = ss]]
  BY DEF Replace, Fault, Free
<1>2. nodes[i] \in NodeRec
  BY ElementOfSeq, LenProperties
<1>3. /\ DOMAIN nodes' = DOMAIN nodes
      /\ nodes'[i].at = nodes[i].at /\ nodes'[i].strings = ss
      /\ \A j \in DOMAIN nodes : j # i => nodes'[j] = nodes[j]
  BY <1>1, <1>2 DEF NodeRec
<1>4. Blocks(nodes'[i]) = {nodes[i].at} \cup ss
  BY <1>3 DEF Blocks
<1>5. \A b \in pool' : Held(tables, nodes, b) => Held(tables', nodes', b)
  <2> SUFFICES ASSUME NEW b \in pool', NEW j \in DOMAIN nodes, b \in Blocks(nodes[j])
               PROVE  Held(tables', nodes', b)
    BY <1>1 DEF Held
  <2>1. CASE j = i
    BY <1>1, <1>3, <1>4, <2>1 DEF Blocks, Held
  <2>2. CASE j # i
    BY <1>3, <2>2 DEF Held
  <2> QED BY <2>1, <2>2
<1>6. \A b \in ss : Held(tables', nodes', b)
  BY <1>3, <1>4 DEF Held
<1> QED BY <1>1, <1>5, <1>6 DEF Tracked

LEMMA RegisterTracks ==
    ASSUME NEW p, HeapOK(tables, nodes, p), NEW m \in Module, NEW x \in Export, NEW q, NEW ss,
           fault' = "none", MRRegisterMethod(m, x, q, ss)
    PROVE  Tracked(q, ss)
<1>1. nodes \in Seq(NodeRec) /\ DOMAIN nodes \subseteq Nat
  BY LenProperties DEF HeapOK
<1>2. ASSUME NEW k, AppendExport(x, q, ss, k) PROVE Tracked(q, ss)
  <2> DEFINE S == {j \in NodesOf(k) : nodes[j].entry.ordinal = x.ordinal}
             i == NodeByOrdinal(k, x.ordinal)
  <2>1. i = First(S) /\ S \in SUBSET Nat
    BY <1>1 DEF NodeByOrdinal, NodesOf
  <2> HIDE DEF i
  <2>2. CASE i # 0 /\ S # {}
    <3>1. i \in S
      BY <2>1, <2>2, FirstIsLeast
    <3>2. i \in DOMAIN nodes /\ Replace(x, q, ss, i)
      BY <1>2, <2>2, <3>1 DEF AppendExport, NodesOf, i
    <3> QED BY <1>1, <3>2, ReplaceTracks
  <2>3. CASE i = 0
    <3>1. SetExportEntry(x, q, ss, k) /\ UNCHANGED tables
      BY <1>2, <2>3 DEF AppendExport, i
    <3>2. \A j \in DOMAIN tables : j \in DOMAIN tables' /\ tables'[j] = tables[j]
      BY <3>1
    <3> QED BY <1>1, <3>1, <3>2, SetExportEntryTracks
  <2> QED BY <2>1, <2>2, <2>3, FirstOfNone
<1>3. CASE AppendExportTable(m, x, q, ss)
  <2> DEFINE at == Alloc(q)
             name == Alloc(q \cup {at})
             t == [module_name |-> m, at |-> at, strings |-> {name}]
             k == Len(tables) + 1
  <2>1. CASE /\ tables' = Append(tables, t)
             /\ SetExportEntry(x, q \cup {at} \cup {name}, ss, k)
    <3>1. /\ t \in TableRec \cup {t} /\ tables \in Seq(TableRec \cup {t})
          /\ Blocks(t) = {at, name}
      BY SeqMonotonic DEF HeapOK, Blocks
    <3> HIDE DEF t
    <3>2. /\ DOMAIN tables' = DOMAIN tables \cup {k} /\ tables'[k] = t
          /\ \A j \in DOMAIN tables : tables'[j] = tables[j]
      BY <2>1, <3>1, AppendFacts
    <3>3. \A b \in {at, name} : Held(tables', nodes, b)
      BY <3>1, <3>2 DEF Held
    <3> HIDE DEF at, name, k
    <3> QED BY <1>1, <2>1, <3>2, <3>3, SetExportEntryTracks
  <2>2. CASE pool' = q /\ ret' = "refused" /\ UNCHANGED <<tables, nodes>>
    BY <2>2 DEF Tracked
  <2> QED BY <1>3, <2>1, <2>2, Zenon DEF AppendExportTable
<1> QED BY <1>2, <1>3 DEF MRRegisterMethod

(* The copies RegisterExport makes are two blocks at most. *)
LEMMA RegisterExportTracks ==
    ASSUME HeapOK(tables, nodes, pool), NEW m \in Module, NEW x \in Export, fault' = "none",
           RegisterExport(m, x)
    PROVE  \E a, c : \E ss \in SUBSET {a, c} : ss \cap pool = {} /\ Tracked(pool \cup ss, ss)
<1> DEFINE name == Copy(x.method_name, pool)
           alias == Copy(x.alias, pool \cup name)
           ss == name \cup alias
<1>1. /\ name \subseteq {Alloc(pool)} /\ name \cap pool = {}
      /\ alias \subseteq {Alloc(pool \cup name)} /\ alias \cap pool = {}
  BY AllocIsFresh DEF RegisterExport, Copy, CanCopy
<1>2. MRRegisterMethod(m, x, pool \cup ss, ss)
  <2>1. pool \cup ss = pool \cup name \cup alias
    OBVIOUS
  <2> QED BY <2>1 DEF RegisterExport
<1>3. ss \in SUBSET {Alloc(pool), Alloc(pool \cup name)} /\ ss \cap pool = {}
  BY <1>1
<1> HIDE DEF ss
<1>4. Tracked(pool \cup ss, ss)
  BY <1>2, RegisterTracks
<1> QED BY <1>3, <1>4

(* What LeakOnlyOnRefusal says of one step. *)
LeakStep ==
    \/ ret' # "refused" /\ fault' = "none" /\ (pool \ Owned)' \subseteq pool \ Owned
    \/ /\ ret' = "refused"
       /\ UNCHANGED <<tables, nodes>>
       /\ Cardinality(pool' \ pool) <= 2
    \/ fault' # "none"

LEMMA TrackedLeaks ==
    ASSUME NEW a, NEW c, NEW ss, ss \subseteq {a, c}, ss \cap pool = {},
           Tracked(pool \cup ss, ss)
    PROVE  LeakStep
<1>1. CASE ret' = "registered" /\ \A b \in pool' : Held(tables', nodes', b)
                        \/ (b \in (pool \cup ss) \ ss /\ ~Held(tables, nodes, b))
  BY <1>1, OwnedIsHeld DEF LeakStep
<1>2. CASE ret' = "refused" /\ UNCHANGED <<tables, nodes>> /\ pool' = pool \cup ss
  <2>1. pool' \ pool \in SUBSET ({a} \cup {c})
    BY <1>2
  <2>2. IsFiniteSet({a} \cup {c}) /\ Cardinality({a} \cup {c}) <= 2
    <3>1. IsFiniteSet({a}) /\ Cardinality({a}) = 1
      BY FS_Singleton
    <3>2. /\ IsFiniteSet({a} \cup {c})
          /\ Cardinality({a} \cup {c}) = IF c \in {a} THEN Cardinality({a})
                                                   ELSE Cardinality({a}) + 1
      BY <3>1, FS_AddElement
    <3> QED BY <3>1, <3>2
  <2>3. IsFiniteSet(pool' \ pool) /\ Cardinality(pool' \ pool) <= Cardinality({a} \cup {c})
    BY <2>1, <2>2, FS_Subset
  <2>4. Cardinality(pool' \ pool) \in Nat /\ Cardinality({a} \cup {c}) \in Nat
    BY <2>2, <2>3, FS_CardinalityType
  <2> QED BY <1>2, <2>2, <2>3, <2>4 DEF LeakStep
<1> QED BY <1>1, <1>2 DEF Tracked

(* A step that allocates nothing and leaves the lists alone. *)
LEMMA IdleLeaks ==
    ASSUME UNCHANGED <<pool, tables, nodes>>
    PROVE  LeakStep
<1>1. pool' \ pool = {} /\ (pool \ Owned)' \subseteq pool \ Owned
  BY OwnedIsHeld
<1>2. Cardinality(pool' \ pool) <= 2
  BY <1>1, FS_EmptySet
<1> QED BY <1>1, <1>2 DEF LeakStep

LEMMA StepLeaks ==
    ASSUME PoolOnly, RegistryInv, Next
    PROVE  LeakStep
<1>1. ASSUME NEW m \in Module, NEW x \in Export, RegisterExport(m, x) PROVE LeakStep
  <2>1. CASE fault' = "none"
    BY <1>1, <2>1, RegisterExportTracks, TrackedLeaks DEF RegistryInv
  <2> QED BY <2>1 DEF LeakStep
<1>2. ASSUME NEW m \in Module, NEW x \in Export, RegisterScoped(m, x) PROVE LeakStep
  <2>1. MRRegisterMethod(m, x, pool \cup {}, {})
    <3>1. pool \cup {} = pool
      OBVIOUS
    <3> QED BY <1>2, <3>1 DEF RegisterScoped, PoolOnly
  <2>2. CASE fault' = "none"
    <3>1. Tracked(pool \cup {}, {})
      BY <2>1, <2>2, RegisterTracks DEF RegistryInv
    <3> QED BY <3>1, TrackedLeaks
  <2> QED BY <2>2 DEF LeakStep
<1>3. CASE MRResetRegistry
  <2>1. Exclusive /\ MayFree(pool, Owned)
    BY HeapOwned DEF RegistryInv, MayFree
  <2>2. ret' = "none" /\ pool' = pool \ Owned /\ UNCHANGED fault /\ fault = "none"
    BY <1>3, <2>1 DEF MRResetRegistry, Free
  <2> QED BY <2>2 DEF LeakStep
<1>4. CASE UNCHANGED <<pool, tables, nodes>>
  BY <1>4, IdleLeaks
<1> QED
  BY <1>1, <1>2, <1>3, <1>4 DEF Next, RegisterExportNoMemory, MREnumerateRegistryBegin,
     MREnumerateRegistry, MREnumerateRegistryEnd

(* RegisterExport, MRRegisterMethod and MRResetRegistry leak nothing but   *)
(* the two copies of a registration that is refused. *)
THEOREM RegistryLeaks ==
    ASSUME PoolOnly
    PROVE  Spec => LeakOnlyOnRefusal
<1>1. RegistryInv /\ [Next]_vars => [LeakStep]_vars
  BY StepLeaks
<1> QED BY <1>1, RegistryInvariant, PTL DEF Spec, LeakOnlyOnRefusal, LeakStep
=============================================================================
