------------------------- MODULE ModuleRegistryProofs -------------------------
(***************************************************************************)
(* Proofs about ModuleRegistry, for every set of blocks, modules and       *)
(* registrations: the lists stay well formed, memory is owned exclusively  *)
(* while only pool strings are registered, and a listing is complete.      *)
(***************************************************************************)
EXTENDS ModuleRegistry, SequenceTheorems, WellFoundedInduction, TLAPS

(***************************************************************************)
(* Lemmas about the operators the registry is built from.                  *)
(***************************************************************************)

(* First is the least element of a nonempty set of numbers. *)
LEMMA FirstIsLeast ==
    ASSUME NEW S \in SUBSET Nat, S # {}
    PROVE  /\ First(S) \in S
           /\ \A j \in S : First(S) <= j
<1>1. PICK i \in S : \A j \in S : ~(<<j, i>> \in OpToRel(<, Nat))
  BY NatLessThanWellFounded, WFMin, Zenon
<1>2. \A j \in S : i <= j
  <2> SUFFICES ASSUME NEW j \in S PROVE i <= j
    OBVIOUS
  <2>1. ~(<<j, i>> \in {ss \in Nat \X Nat : ss[1] < ss[2]})
    BY <1>1 DEF OpToRel
  <2>2. ~(j < i)
    BY <2>1
  <2> QED
    BY <2>2
<1> QED
  BY <1>2 DEF First

LEMMA FirstOfNone == First({}) = 0
  BY DEF First

(* A sequence with one more element. *)
LEMMA AppendFacts ==
    ASSUME NEW S, NEW s \in Seq(S), NEW e \in S
    PROVE  /\ Append(s, e) \in Seq(S)
           /\ Len(s) \in Nat
           /\ Len(Append(s, e)) = Len(s) + 1
           /\ DOMAIN Append(s, e) = DOMAIN s \cup {Len(s) + 1}
           /\ DOMAIN s = 1 .. Len(s)
           /\ Len(s) + 1 \notin DOMAIN s
           /\ Append(s, e)[Len(s) + 1] = e
           /\ \A i \in DOMAIN s : Append(s, e)[i] = s[i]
  OBVIOUS

(* The block of a successful allocation is new. *)
LEMMA AllocIsFresh ==
    ASSUME NEW p, CanAlloc(p)
    PROVE  Alloc(p) \in Block /\ Alloc(p) \notin p
  BY DEF CanAlloc, Alloc
(***************************************************************************)
(* The heap invariant, over any lists ts and ns and pool p, so that the    *)
(* steps inside one registration can be taken one after the other.         *)
(***************************************************************************)
TableRec == [module_name : Module, at : Block, strings : SUBSET Block]
NodeRec == [table : Nat, at : Block, entry : Export, strings : SUBSET Block]

(* Each table and node holds live blocks of its own. *)
Holds(r, p) == r.at \notin r.strings /\ Blocks(r) \subseteq p
Apart(r, s) == Blocks(r) \cap Blocks(s) = {}

HeapOK(ts, ns, p) ==
    /\ p \subseteq Block
    /\ ts \in Seq(TableRec)
    /\ ns \in Seq(NodeRec)
    /\ \A k \in DOMAIN ts : Holds(ts[k], p)
    /\ \A i \in DOMAIN ns : Holds(ns[i], p)
    /\ \A j, k \in DOMAIN ts : j # k => Apart(ts[j], ts[k])
    /\ \A i, j \in DOMAIN ns : i # j => Apart(ns[i], ns[j])
    /\ \A k \in DOMAIN ts, i \in DOMAIN ns : Apart(ts[k], ns[i])
    /\ \A j, k \in DOMAIN ts : ts[j].module_name = ts[k].module_name => j = k
    /\ \A i \in DOMAIN ns : ns[i].table \in DOMAIN ts
    /\ \A i, j \in DOMAIN ns :
            ns[i].table = ns[j].table /\ ns[i].entry.ordinal = ns[j].entry.ordinal => i = j

(* Blocks bs are live and nobody holds them. *)
Loose(bs, ts, ns, p) ==
    /\ bs \subseteq p
    /\ \A k \in DOMAIN ts : Blocks(ts[k]) \cap bs = {}
    /\ \A i \in DOMAIN ns : Blocks(ns[i]) \cap bs = {}

(* More live blocks do no harm, and what is added belongs to nobody yet. *)
LEMMA GrowPool ==
    ASSUME NEW ts, NEW ns, NEW p, HeapOK(ts, ns, p), NEW q \in SUBSET Block, p \subseteq q
    PROVE  HeapOK(ts, ns, q) /\ Loose(q \ p, ts, ns, q)
<1>1. \A k \in DOMAIN ts : Holds(ts[k], q) /\ Blocks(ts[k]) \cap (q \ p) = {}
  BY DEF HeapOK, Holds
<1>2. \A i \in DOMAIN ns : Holds(ns[i], q) /\ Blocks(ns[i]) \cap (q \ p) = {}
  BY DEF HeapOK, Holds
<1> QED
  BY <1>1, <1>2 DEF HeapOK, Loose

(* A table for a new module at the end of the list. *)
LEMMA AddTable ==
    ASSUME NEW ts, NEW ns, NEW p, HeapOK(ts, ns, p), NEW t \in TableRec,
           \A k \in DOMAIN ts : ts[k].module_name # t.module_name,
           t.at \notin t.strings, Loose(Blocks(t), ts, ns, p)
    PROVE  HeapOK(Append(ts, t), ns, p)
<1> DEFINE us == Append(ts, t)
<1>1. /\ us \in Seq(TableRec)
      /\ DOMAIN us = DOMAIN ts \cup {Len(ts) + 1}
      /\ Len(ts) + 1 \notin DOMAIN ts
      /\ us[Len(ts) + 1] = t
      /\ \A k \in DOMAIN ts : us[k] = ts[k]
  BY AppendFacts DEF HeapOK
<1> HIDE DEF us
<1>2. \A k \in DOMAIN us : Holds(us[k], p)
  BY <1>1 DEF HeapOK, Holds, Loose
<1>3. \A j, k \in DOMAIN us : j # k => Apart(us[j], us[k])
  BY <1>1 DEF HeapOK, Apart, Loose
<1>4. \A k \in DOMAIN us, i \in DOMAIN ns : Apart(us[k], ns[i])
  BY <1>1 DEF HeapOK, Apart, Loose
<1>5. \A j, k \in DOMAIN us : us[j].module_name = us[k].module_name => j = k
  BY <1>1 DEF HeapOK
<1>6. \A i \in DOMAIN ns : ns[i].table \in DOMAIN us
  BY <1>1 DEF HeapOK
<1> QED
  BY <1>1, <1>2, <1>3, <1>4, <1>5, <1>6 DEF HeapOK, us

(* A node for a new ordinal of some table. *)
LEMMA AddNode ==
    ASSUME NEW ts, NEW ns, NEW p, HeapOK(ts, ns, p), NEW n \in NodeRec,
           n.table \in DOMAIN ts,
           \A i \in DOMAIN ns :
                ~(ns[i].table = n.table /\ ns[i].entry.ordinal = n.entry.ordinal),
           n.at \notin n.strings, Loose(Blocks(n), ts, ns, p)
    PROVE  HeapOK(ts, Append(ns, n), p)
<1> DEFINE us == Append(ns, n)
<1>1. /\ us \in Seq(NodeRec)
      /\ DOMAIN us = DOMAIN ns \cup {Len(ns) + 1}
      /\ Len(ns) + 1 \notin DOMAIN ns
      /\ us[Len(ns) + 1] = n
      /\ \A i \in DOMAIN ns : us[i] = ns[i]
  BY AppendFacts DEF HeapOK
<1> HIDE DEF us
<1>2. \A i \in DOMAIN us : Holds(us[i], p)
  BY <1>1 DEF HeapOK, Holds, Loose
<1>3. \A i, j \in DOMAIN us : i # j => Apart(us[i], us[j])
  BY <1>1 DEF HeapOK, Apart, Loose
<1>4. \A k \in DOMAIN ts, i \in DOMAIN us : Apart(ts[k], us[i])
  BY <1>1 DEF HeapOK, Apart, Loose
<1>5. \A i \in DOMAIN us : us[i].table \in DOMAIN ts
  BY <1>1 DEF HeapOK
<1>6. \A i, j \in DOMAIN us :
            us[i].table = us[j].table /\ us[i].entry.ordinal = us[j].entry.ordinal => i = j
  BY <1>1 DEF HeapOK
<1> QED
  BY <1>1, <1>2, <1>3, <1>4, <1>5, <1>6 DEF HeapOK, us

(* An entry overwritten in place, its old strings given back. *)
LEMMA OverwriteNode ==
    ASSUME NEW ts, NEW ns, NEW p, HeapOK(ts, ns, p), NEW i \in DOMAIN ns, NEW x \in Export,
           NEW ss \in SUBSET Block, x.ordinal = ns[i].entry.ordinal, Loose(ss, ts, ns, p)
    PROVE  HeapOK(ts, [ns EXCEPT ![i] = [@ EXCEPT !.entry = x, !.strings = ss]],
                  Free(p, ns[i].strings))
<1> DEFINE n == [ns[i] EXCEPT !.entry = x, !.strings = ss]
           us == [ns EXCEPT ![i] = [@ EXCEPT !.entry = x, !.strings = ss]]
           q == Free(p, ns[i].strings)
<1>0. i \in 1 .. Len(ns) /\ ns[i] \in NodeRec
  BY LenProperties, ElementOfSeq DEF HeapOK
<1>1. n \in NodeRec /\ n.table = ns[i].table /\ n.at = ns[i].at /\ n.entry = x /\ n.strings = ss
  BY <1>0 DEF NodeRec
<1>2. us = [ns EXCEPT ![i] = n]
  OBVIOUS
<1>3. /\ us \in Seq(NodeRec)
      /\ DOMAIN us = DOMAIN ns
      /\ us[i] = n
      /\ \A j \in DOMAIN ns : j # i => us[j] = ns[j]
  <2>1. [ns EXCEPT ![i] = n] \in Seq(NodeRec)
    BY <1>0, <1>1, ExceptSeq DEF HeapOK
  <2> QED
    BY <1>2, <2>1
<1> HIDE DEF n, us
<1>4. q \subseteq Block /\ ss \subseteq q /\ ns[i].at \in q
  BY DEF HeapOK, Loose, Free, Holds, Blocks
<1>5. \A k \in DOMAIN ts : Holds(ts[k], q)
  BY DEF HeapOK, Holds, Free, Apart, Blocks
<1>6. \A j \in DOMAIN us : Holds(us[j], q)
  <2> SUFFICES ASSUME NEW j \in DOMAIN us PROVE Holds(us[j], q)
    OBVIOUS
  <2>1. CASE j = i
    BY <2>1, <1>1, <1>3, <1>4 DEF Holds, Blocks, Loose
  <2>2. CASE j # i
    BY <2>2, <1>3 DEF HeapOK, Holds, Free, Apart, Blocks
  <2> QED
    BY <2>1, <2>2
<1>7. \A j \in DOMAIN ns : j # i => Apart(n, ns[j]) /\ Apart(ns[j], n)
  BY <1>1 DEF HeapOK, Apart, Blocks, Loose
<1>8. \A j, k \in DOMAIN us : j # k => Apart(us[j], us[k])
  BY <1>3, <1>7 DEF HeapOK
<1>9. \A k \in DOMAIN ts, j \in DOMAIN us : Apart(ts[k], us[j])
  <2>1. \A k \in DOMAIN ts : Apart(ts[k], n)
    BY <1>1 DEF HeapOK, Apart, Blocks, Loose
  <2> QED
    BY <2>1, <1>3 DEF HeapOK
<1>10. \A j \in DOMAIN us : us[j].table = ns[j].table /\ us[j].entry.ordinal = ns[j].entry.ordinal
  BY <1>1, <1>3
<1>11. HeapOK(ts, us, q)
  BY <1>3, <1>4, <1>5, <1>6, <1>8, <1>9, <1>10 DEF HeapOK
<1> QED
  BY <1>11 DEF us
(***************************************************************************)
(* What the steps of a registration do.                                    *)
(***************************************************************************)

(* Tables and nodes stay where they are and keep what a key is made of. *)
Extends ==
    /\ \A k \in DOMAIN tables : k \in DOMAIN tables' /\ tables'[k] = tables[k]
    /\ \A i \in DOMAIN nodes : /\ i \in DOMAIN nodes'
                               /\ nodes'[i].table = nodes[i].table
                               /\ nodes'[i].entry.ordinal = nodes[i].entry.ordinal

NodesExtend ==
    \A i \in DOMAIN nodes : i \in DOMAIN nodes' /\ nodes'[i] = nodes[i]

(* Every table has an export. *)
Filled == \A k \in DOMAIN tables : NodesOf(k) # {}

LEMMA SetExportEntryEffect ==
    ASSUME NEW ts, NEW p, NEW ss \in SUBSET Block, NEW x \in Export, NEW k \in DOMAIN ts,
           HeapOK(ts, nodes, p), Loose(ss, ts, nodes, p), fault = "none",
           \A i \in DOMAIN nodes :
                ~(nodes[i].table = k /\ nodes[i].entry.ordinal = x.ordinal),
           SetExportEntry(x, p, ss, k)
    PROVE  /\ HeapOK(ts, nodes', pool')
           /\ NodesExtend
           /\ fault' \in {"none", "null_write"}
           /\ ret' \in {"registered", ret}
           /\ fault' = "none" => \E i \in DOMAIN nodes' : nodes'[i].table = k
<1>1. CASE /\ CanAlloc(p)
           /\ pool' = p \cup {Alloc(p)}
           /\ nodes' = Append(nodes, [table |-> k, at |-> Alloc(p), entry |-> x, strings |-> ss])
           /\ ret' = "registered"
           /\ UNCHANGED fault
  <2> DEFINE n == [table |-> k, at |-> Alloc(p), entry |-> x, strings |-> ss]
             q == p \cup {Alloc(p)}
  <2>1. Alloc(p) \in Block /\ Alloc(p) \notin p
    BY <1>1, AllocIsFresh
  <2>2. k \in Nat
    BY LenProperties DEF HeapOK
  <2>3. n \in NodeRec
    BY <2>1, <2>2 DEF NodeRec
  <2>4. HeapOK(ts, nodes, q) /\ Loose(q \ p, ts, nodes, q)
    BY <2>1, GrowPool DEF HeapOK
  <2>5. n.at \notin n.strings /\ Loose(Blocks(n), ts, nodes, q)
    BY <2>1, <2>4 DEF Loose, Blocks
  <2>6. HeapOK(ts, Append(nodes, n), q)
    BY <2>3, <2>4, <2>5, AddNode
  <2>7. /\ DOMAIN Append(nodes, n) = DOMAIN nodes \cup {Len(nodes) + 1}
        /\ Append(nodes, n)[Len(nodes) + 1] = n
        /\ \A i \in DOMAIN nodes : Append(nodes, n)[i] = nodes[i]
    BY <2>3, AppendFacts DEF HeapOK
  <2> QED
    BY <1>1, <2>6, <2>7 DEF NodesExtend
<1>2. CASE pool' = p /\ UNCHANGED nodes /\ Fault("null_write")
  BY <1>2 DEF Fault, NodesExtend
<1> QED
  BY <1>1, <1>2 DEF SetExportEntry

LEMMA ReplaceEffect ==
    ASSUME NEW p, NEW ss \in SUBSET Block, NEW x \in Export, NEW i \in DOMAIN nodes,
           HeapOK(tables, nodes, p), Loose(ss, tables, nodes, p), fault = "none",
           nodes[i].entry.ordinal = x.ordinal, Replace(x, p, ss, i)
    PROVE  /\ HeapOK(tables', nodes', pool')
           /\ Extends
           /\ DOMAIN nodes' = DOMAIN nodes
           /\ fault' = "none"
           /\ ret' = "registered"
<1>1. MayFree(p, nodes[i].strings)
  BY DEF MayFree, HeapOK, Holds, Blocks
<1>2. /\ UNCHANGED tables
      /\ pool' = Free(p, nodes[i].strings)
      /\ nodes' = [nodes EXCEPT ![i] = [@ EXCEPT !.entry = x, !.strings = ss]]
      /\ ret' = "registered"
      /\ fault' = "none"
  BY <1>1 DEF Replace
<1>3. HeapOK(tables, nodes', pool')
  BY <1>2, OverwriteNode
<1>4. nodes[i] \in NodeRec
  BY ElementOfSeq, LenProperties DEF HeapOK
<1>5. /\ DOMAIN nodes' = DOMAIN nodes
      /\ nodes'[i].table = nodes[i].table
      /\ nodes'[i].entry = x
      /\ \A j \in DOMAIN nodes : j # i => nodes'[j] = nodes[j]
  BY <1>2, <1>4 DEF NodeRec
<1> QED
  BY <1>2, <1>3, <1>5 DEF Extends
(* What a registration leaves, whichever way it goes. *)
Registered ==
    /\ HeapOK(tables', nodes', pool')
    /\ Extends
    /\ fault' \in {"none", "null_write"}
    /\ ret' \in {"registered", "refused", ret}
    /\ fault' = "none" => Filled'

LEMMA AppendExportEffect ==
    ASSUME NEW p, NEW ss \in SUBSET Block, NEW x \in Export, NEW k \in DOMAIN tables,
           HeapOK(tables, nodes, p), Loose(ss, tables, nodes, p), fault = "none", Filled,
           AppendExport(x, p, ss, k)
    PROVE  Registered
<1> DEFINE S == {i \in NodesOf(k) : nodes[i].entry.ordinal = x.ordinal}
           i == NodeByOrdinal(k, x.ordinal)
<1>1. S \in SUBSET Nat /\ \A j \in S : j # 0
  BY LenProperties DEF HeapOK, NodesOf
<1>2. i = First(S)
  BY DEF NodeByOrdinal
<1> HIDE DEF i
<1>3. CASE S # {}
  <2>1. i \in S /\ i # 0
    BY <1>1, <1>2, <1>3, FirstIsLeast
  <2>2. Replace(x, p, ss, i)
    BY <2>1 DEF AppendExport, i
  <2>3. /\ HeapOK(tables', nodes', pool')
        /\ Extends
        /\ DOMAIN nodes' = DOMAIN nodes
        /\ fault' = "none"
        /\ ret' = "registered"
    BY <2>1, <2>2, ReplaceEffect DEF NodesOf
  <2>4. tables' = tables
    BY <2>2 DEF Replace
  <2>5. Filled'
    BY <2>3, <2>4 DEF Filled, NodesOf, Extends
  <2> QED
    BY <2>3, <2>5 DEF Registered
<1>4. CASE S = {}
  <2>1. i = 0
    BY <1>2, <1>4, FirstOfNone
  <2>2. UNCHANGED tables /\ SetExportEntry(x, p, ss, k)
    BY <2>1 DEF AppendExport, i
  <2>3. /\ HeapOK(tables, nodes', pool')
        /\ NodesExtend
        /\ fault' \in {"none", "null_write"}
        /\ ret' \in {"registered", ret}
    BY <1>4, <2>2, SetExportEntryEffect DEF NodesOf
  <2>4. Filled'
    BY <2>2, <2>3 DEF Filled, NodesOf, NodesExtend
  <2>5. Extends
    BY <2>2, <2>3 DEF Extends, NodesExtend
  <2> QED
    BY <2>2, <2>3, <2>4, <2>5 DEF Registered
<1> QED
  BY <1>3, <1>4

LEMMA AppendExportTableEffect ==
    ASSUME NEW m \in Module, NEW p, NEW ss \in SUBSET Block, NEW x \in Export,
           HeapOK(tables, nodes, p), Loose(ss, tables, nodes, p), fault = "none", Filled,
           Tables(m) = {}, AppendExportTable(m, x, p, ss)
    PROVE  Registered
<1> DEFINE at == Alloc(p)
           q == p \cup {at}
           name == Alloc(q)
           r == q \cup {name}
           t == [module_name |-> m, at |-> at, strings |-> {name}]
           us == Append(tables, t)
           k == Len(tables) + 1
<1>1. CASE /\ CanAlloc(p)
           /\ CanAlloc(q)
           /\ tables' = us
           /\ SetExportEntry(x, r, ss, k)
  <2>1. at \in Block /\ at \notin p /\ name \in Block /\ name \notin q
    BY <1>1, AllocIsFresh
  <2>2. t \in TableRec /\ t.at \notin t.strings /\ Blocks(t) = r \ p
    BY <2>1 DEF TableRec, Blocks
  <2>3. HeapOK(tables, nodes, r) /\ Loose(r \ p, tables, nodes, r)
    <3>1. r \in SUBSET Block /\ p \subseteq r
      BY <2>1 DEF HeapOK
    <3> HIDE DEF r
    <3> QED
      BY <3>1, GrowPool
  <2>4. \A j \in DOMAIN tables : tables[j].module_name # m
    BY DEF Tables
  <2>5. HeapOK(us, nodes, r)
    BY <2>2, <2>3, <2>4, AddTable
  <2>6. /\ DOMAIN us = DOMAIN tables \cup {k}
        /\ us[k] = t
        /\ \A j \in DOMAIN tables : us[j] = tables[j]
        /\ k \notin DOMAIN tables
    BY <2>2, AppendFacts DEF HeapOK
  <2>7. Loose(ss, us, nodes, r)
    BY <2>1, <2>2, <2>6 DEF Loose
  <2>8. \A i \in DOMAIN nodes : nodes[i].table # k
    BY <2>6 DEF HeapOK
  <2> HIDE DEF us, k, r
  <2>9. /\ HeapOK(us, nodes', pool')
        /\ NodesExtend
        /\ fault' \in {"none", "null_write"}
        /\ ret' \in {"registered", ret}
        /\ fault' = "none" => \E i \in DOMAIN nodes' : nodes'[i].table = k
    BY <1>1, <2>5, <2>6, <2>7, <2>8, SetExportEntryEffect
  <2>10. fault' = "none" => Filled'
    BY <1>1, <2>6, <2>9 DEF Filled, NodesOf, NodesExtend
  <2>11. Extends
    BY <1>1, <2>6, <2>9 DEF Extends, NodesExtend
  <2> QED
    BY <1>1, <2>9, <2>10, <2>11 DEF Registered
<1>2. CASE pool' = p /\ ret' = "refused" /\ UNCHANGED <<tables, nodes, fault>>
  BY <1>2 DEF Registered, Extends, Filled, NodesOf
<1> QED
  BY <1>1, <1>2 DEF AppendExportTable

LEMMA RegisterEffect ==
    ASSUME NEW m \in Module, NEW p, NEW ss \in SUBSET Block, NEW x \in Export,
           HeapOK(tables, nodes, p), Loose(ss, tables, nodes, p), fault = "none", Filled,
           MRRegisterMethod(m, x, p, ss)
    PROVE  Registered /\ UNCHANGED <<cursor, listing>>
<1>1. CASE Tables(m) # {}
  <2>1. Tables(m) \in SUBSET Nat
    BY LenProperties DEF HeapOK, Tables
  <2>2. First(Tables(m)) \in DOMAIN tables
    BY <1>1, <2>1, FirstIsLeast DEF Tables
  <2> QED
    BY <1>1, <2>2, AppendExportEffect DEF MRRegisterMethod
<1>2. CASE Tables(m) = {}
  BY <1>2, AppendExportTableEffect DEF MRRegisterMethod
<1> QED
  BY <1>1, <1>2

(* A node put at the end, or written over with strings of its own, takes   *)
(* nothing from blocks bs that are held elsewhere.                         *)
LEMMA SetExportEntryLeaves ==
    ASSUME NEW ts, NEW p, NEW ss, NEW x, NEW k, NEW bs, nodes \in Seq(NodeRec),
           Loose(bs, ts, nodes, p), bs \cap ss = {}, SetExportEntry(x, p, ss, k)
    PROVE  Loose(bs, ts, nodes', pool')
<1>1. CASE /\ CanAlloc(p)
           /\ pool' = p \cup {Alloc(p)}
           /\ nodes' = Append(nodes, [table |-> k, at |-> Alloc(p), entry |-> x, strings |-> ss])
  <2> DEFINE n == [table |-> k, at |-> Alloc(p), entry |-> x, strings |-> ss]
  <2>1. Blocks(n) \cap bs = {}
    BY <1>1, AllocIsFresh DEF Loose, Blocks
  <2>2. /\ DOMAIN nodes' = DOMAIN nodes \cup {Len(nodes) + 1}
        /\ nodes'[Len(nodes) + 1] = n
        /\ \A i \in DOMAIN nodes : nodes'[i] = nodes[i]
    <3>1. nodes' = Append(nodes, n) /\ n \in NodeRec \cup {n} /\ nodes \in Seq(NodeRec \cup {n})
      BY <1>1, SeqMonotonic
    <3> HIDE DEF n
    <3> QED
      BY <3>1, AppendFacts
  <2> QED
    BY <1>1, <2>1, <2>2 DEF Loose
<1>2. CASE pool' = p /\ UNCHANGED nodes
  BY <1>2 DEF Loose
<1> QED
  BY <1>1, <1>2 DEF SetExportEntry

LEMMA ReplaceLeaves ==
    ASSUME NEW p, NEW ss, NEW x, NEW i \in DOMAIN nodes, NEW bs, nodes \in Seq(NodeRec),
           Loose(bs, tables, nodes, p), bs \cap ss = {}, Replace(x, p, ss, i)
    PROVE  Loose(bs, tables', nodes', pool')
<1>1. CASE /\ pool' = Free(p, nodes[i].strings)
           /\ nodes' = [nodes EXCEPT ![i] = [@ EXCEPT !.entry = x, !.strings = ss]]
  <2>1. nodes[i] \in NodeRec /\ Blocks(nodes[i]) \cap bs = {}
    BY LenProperties DEF Loose
  <2>2. /\ DOMAIN nodes' = DOMAIN nodes
        /\ nodes'[i].at = nodes[i].at /\ nodes'[i].strings = ss
        /\ \A j \in DOMAIN nodes : j # i => nodes'[j] = nodes[j]
    BY <1>1, <2>1 DEF NodeRec
  <2>3. Blocks(nodes'[i]) \cap bs = {}
    BY <2>1, <2>2 DEF Blocks
  <2> QED
    BY <1>1, <2>1, <2>2, <2>3 DEF Loose, Blocks, Free, Replace
<1>2. CASE pool' = p /\ UNCHANGED nodes
  BY <1>2 DEF Loose, Replace
<1> QED
  BY <1>1, <1>2 DEF Replace

(* A registration leaves alone what others hold. *)
LEMMA RegisterLeaves ==
    ASSUME NEW m \in Module, NEW p, NEW ss, NEW x, NEW bs,
           HeapOK(tables, nodes, p), Loose(bs, tables, nodes, p), bs \cap ss = {},
           MRRegisterMethod(m, x, p, ss)
    PROVE  Loose(bs, tables', nodes', pool')
<1>1. CASE \E k : AppendExport(x, p, ss, k)
  <2>1. PICK k : AppendExport(x, p, ss, k)
    BY <1>1
  <2> DEFINE S == {i \in NodesOf(k) : nodes[i].entry.ordinal = x.ordinal}
             i == NodeByOrdinal(k, x.ordinal)
  <2>2. CASE i # 0
    <3>1. S # {} /\ S \in SUBSET Nat
      <4>1. i = First(S)
        BY DEF NodeByOrdinal
      <4>2. S # {}
        BY <2>2, <4>1, FirstOfNone
      <4>3. DOMAIN nodes \subseteq Nat
        BY LenProperties DEF HeapOK
      <4> QED
        BY <4>2, <4>3 DEF NodesOf
    <3>2. i \in DOMAIN nodes
      BY <3>1, FirstIsLeast DEF NodeByOrdinal, NodesOf
    <3> QED
      BY <2>1, <2>2, <3>2, ReplaceLeaves DEF AppendExport, HeapOK
  <2>3. CASE i = 0
    BY <2>1, <2>3, SetExportEntryLeaves DEF AppendExport, HeapOK
  <2> QED
    BY <2>2, <2>3
<1>2. CASE AppendExportTable(m, x, p, ss)
  <2> DEFINE at == Alloc(p)
             q == p \cup {at}
             name == Alloc(q)
             t == [module_name |-> m, at |-> at, strings |-> {name}]
  <2>1. CASE /\ CanAlloc(p)
             /\ CanAlloc(q)
             /\ tables' = Append(tables, t)
             /\ SetExportEntry(x, q \cup {name}, ss, Len(tables) + 1)
    <3>1. at \notin p /\ name \notin q /\ at \in Block /\ name \in Block
      BY <2>1, AllocIsFresh
    <3> HIDE DEF at, name
    <3>2. t \in TableRec /\ Blocks(t) \cap bs = {}
      BY <3>1 DEF TableRec, Blocks, Loose
    <3>3. /\ DOMAIN tables' = DOMAIN tables \cup {Len(tables) + 1}
          /\ tables'[Len(tables) + 1] = t
          /\ \A k \in DOMAIN tables : tables'[k] = tables[k]
      BY <2>1, <3>2, AppendFacts DEF HeapOK
    <3>4. Loose(bs, tables', nodes, q \cup {name})
      BY <3>2, <3>3 DEF Loose
    <3> QED
      BY <2>1, <3>4, SetExportEntryLeaves DEF HeapOK
  <2>2. CASE pool' = p /\ UNCHANGED <<tables, nodes>>
    BY <2>2 DEF Loose
  <2> QED
    BY <1>2, <2>1, <2>2 DEF AppendExportTable
<1> QED
  BY <1>1, <1>2 DEF MRRegisterMethod
(***************************************************************************)
(* Listings.  A node is ahead of the cursor when the listing has still to  *)
(* give it out.                                                            *)
(***************************************************************************)

(* Node j is node i of table k, or comes after it. *)
From(j, k, i) == nodes[j].table > k \/ (nodes[j].table = k /\ j >= i)

Ahead(j) == ~AtEnd /\ From(j, cursor.module_, cursor.export_)

Given == {listing.given[g] : g \in DOMAIN listing.given}

CursorOK ==
    ~AtEnd => /\ cursor.export_ \in DOMAIN nodes
              /\ cursor.module_ = nodes[cursor.export_].table

(* What was given out lies behind the cursor; what is due was given out or *)
(* lies ahead of it.                                                       *)
Split ==
    /\ \A key \in Given : \E i \in DOMAIN nodes : Key(nodes[i]) = key /\ ~Ahead(i)
    /\ \A key \in listing.due \ Given : \E i \in DOMAIN nodes : Key(nodes[i]) = key /\ Ahead(i)

ListingInv ==
    /\ cursor \in [module_ : Nat, export_ : Nat]
    /\ listing \in [phase : {"idle", "open", "ended"}, due : SUBSET (Module \X Nat),
                    given : Seq(Module \X Nat)]
    /\ \A g, h \in DOMAIN listing.given : listing.given[g] = listing.given[h] => g = h
    /\ listing.phase = "open" => CursorOK /\ Split
    /\ listing.phase = "ended" => listing.due \subseteq Given

(* The cursor moves to the very next node, or to the end if there is none. *)
LEMMA NextPositionIsNext ==
    ASSUME HeapOK(tables, nodes, pool), Filled, NEW i \in DOMAIN nodes,
           NEW np, np = NextPosition(nodes[i].table, i)
    PROVE  LET k == nodes[i].table IN
           \/ /\ np = [module_ |-> 0, export_ |-> 0]
              /\ \A j \in DOMAIN nodes : From(j, k, i) => j = i
           \/ /\ np \in [module_ : Nat, export_ : Nat]
              /\ np.module_ # 0
              /\ np.export_ \in DOMAIN nodes
              /\ np.export_ # 0
              /\ np.module_ = nodes[np.export_].table
              /\ \A j \in DOMAIN nodes :
                    From(j, np.module_, np.export_) <=> From(j, k, i) /\ j # i
<1> DEFINE k == nodes[i].table
           rest == {j \in NodesOf(k) : j > i}
<1>1. /\ DOMAIN tables = 1 .. Len(tables)
      /\ Len(tables) \in Nat
      /\ DOMAIN nodes \subseteq Nat \ {0}
      /\ \A j \in DOMAIN nodes : nodes[j].table \in DOMAIN tables
  BY LenProperties DEF HeapOK
<1>2. k \in Nat /\ k # 0 /\ k <= Len(tables) /\ i \in Nat
  BY <1>1
<1>3. \A l : NodesOf(l) \subseteq DOMAIN nodes
  BY DEF NodesOf
<1>4. CASE rest # {}
  <2>1. np = [module_ |-> k, export_ |-> First(rest)]
    BY <1>4 DEF NextPosition
  <2>2. First(rest) \in rest /\ \A j \in rest : First(rest) <= j
    BY <1>1, <1>3, <1>4, FirstIsLeast
  <2>3. \A j \in DOMAIN nodes : From(j, k, First(rest)) <=> From(j, k, i) /\ j # i
    BY <1>1, <1>2, <2>2 DEF From, NodesOf
  <2> QED
    BY <1>1, <1>2, <2>1, <2>2, <2>3 DEF NodesOf
<1>5. CASE rest = {} /\ k < Len(tables)
  <2> DEFINE S == NodesOf(k + 1)
  <2>1. np = [module_ |-> k + 1, export_ |-> First(S)]
    BY <1>1, <1>2, <1>5 DEF NextPosition
  <2>2. k + 1 \in DOMAIN tables
    BY <1>1, <1>2, <1>5
  <2>3. S # {} /\ S \in SUBSET Nat
    BY <1>1, <1>3, <2>2 DEF Filled
  <2>4. First(S) \in S /\ \A j \in S : First(S) <= j
    BY <2>3, FirstIsLeast
  <2>5. \A j \in DOMAIN nodes : From(j, k + 1, First(S)) <=> From(j, k, i) /\ j # i
    BY <1>1, <1>2, <1>5, <2>4 DEF From, NodesOf
  <2> QED
    BY <1>1, <1>2, <2>1, <2>4, <2>5 DEF NodesOf
<1>6. CASE rest = {} /\ ~(k < Len(tables))
  <2>1. np = [module_ |-> 0, export_ |-> 0]
    BY <1>2, <1>6 DEF NextPosition
  <2>2. \A j \in DOMAIN nodes : From(j, k, i) => j = i
    BY <1>1, <1>2, <1>6 DEF From, NodesOf
  <2> QED
    BY <2>1, <2>2
<1> QED
  BY <1>4, <1>5, <1>6

(* Keys tell nodes apart. *)
LEMMA KeyFacts ==
    ASSUME HeapOK(tables, nodes, pool)
    PROVE  /\ \A i \in DOMAIN nodes : Key(nodes[i]) \in Module \X Nat
           /\ \A i, j \in DOMAIN nodes : Key(nodes[i]) = Key(nodes[j]) => i = j
<1>1. /\ \A i \in DOMAIN nodes : nodes[i] \in NodeRec
      /\ \A k \in DOMAIN tables : tables[k] \in TableRec
  BY ElementOfSeq, LenProperties DEF HeapOK
<1>2. \A x \in Export : x.ordinal \in Nat
  BY ExportAssumption
<1> QED
  BY <1>1, <1>2 DEF HeapOK, Key, NodeRec, TableRec

(* Registrations do not disturb a listing. *)
LEMMA ListingKept ==
    ASSUME HeapOK(tables, nodes, pool), ListingInv, Extends, UNCHANGED <<cursor, listing>>
    PROVE  ListingInv'
<1>1. \A i \in DOMAIN nodes :
            /\ i \in DOMAIN nodes'
            /\ Key(nodes[i])' = Key(nodes[i])
            /\ Ahead(i)' = Ahead(i)
  BY DEF Extends, Key, Ahead, AtEnd, From, HeapOK
<1>2. CursorOK => CursorOK'
  BY DEF CursorOK, AtEnd, Extends
<1>3. Given' = Given
  BY DEF Given
<1>4. Split => Split'
  BY <1>1, <1>3 DEF Split
<1> QED
  BY <1>2, <1>3, <1>4 DEF ListingInv
(* A listing of a registry that holds something begins in order, whatever  *)
(* the cursor was before. *)
LEMMA ListingBegun ==
    ASSUME HeapOK(tables, nodes, pool), Filled, MREnumerateRegistryBegin, tables # <<>>
    PROVE  ListingInv' /\ UNCHANGED <<ret, fault>>
<1> DEFINE i == First(NodesOf(1))
<1>0. UNCHANGED <<tables, nodes>>
  BY DEF MREnumerateRegistryBegin
<1>1. 1 \in DOMAIN tables
  BY EmptySeq, LenProperties DEF HeapOK
<1>2. /\ DOMAIN nodes \subseteq Nat \ {0}
      /\ \A j \in DOMAIN nodes : nodes[j].table \in Nat \ {0}
  BY LenProperties DEF HeapOK
<1>3. NodesOf(1) # {} /\ NodesOf(1) \in SUBSET Nat
  BY <1>1, <1>2 DEF Filled, NodesOf
<1>4. i \in NodesOf(1) /\ \A j \in NodesOf(1) : i <= j
  BY <1>3, FirstIsLeast
<1> HIDE DEF i
<1>5. i \in DOMAIN nodes /\ i # 0 /\ nodes[i].table = 1
  BY <1>2, <1>4 DEF NodesOf
<1>6. /\ cursor' = [module_ |-> 1, export_ |-> i]
      /\ listing' = [phase |-> "open", due |-> {Key(nodes[j]) : j \in DOMAIN nodes},
                     given |-> <<>>]
      /\ UNCHANGED <<ret, fault>>
  BY DEF MREnumerateRegistryBegin, i
<1>7. CursorOK' /\ AtEnd' = FALSE
  BY <1>0, <1>5, <1>6 DEF CursorOK, AtEnd
<1>8. \A j \in DOMAIN nodes : Ahead(j)'
  BY <1>0, <1>2, <1>4, <1>6, <1>7 DEF Ahead, From, NodesOf
<1>9. Given' = {}
  BY <1>6 DEF Given
<1>10. \A j \in DOMAIN nodes : Key(nodes[j])' = Key(nodes[j])
  BY <1>0 DEF Key
<1>11. Split'
  BY <1>0, <1>6, <1>8, <1>9, <1>10 DEF Split
<1>12. listing' \in [phase : {"idle", "open", "ended"}, due : SUBSET (Module \X Nat),
                     given : Seq(Module \X Nat)]
  BY <1>6, KeyFacts
<1>13. cursor' \in [module_ : Nat, export_ : Nat]
  BY <1>2, <1>5, <1>6
<1> QED
  BY <1>6, <1>7, <1>11, <1>12, <1>13 DEF ListingInv

LEMMA ListingBegins ==
    ASSUME HeapOK(tables, nodes, pool), Filled, ListingInv, fault = "none",
           MREnumerateRegistryBegin
    PROVE  ListingInv' /\ fault' \in {"none", "null_read"} /\ ret' = ret
<1>1. CASE tables = <<>>
  BY <1>1, ListingKept DEF MREnumerateRegistryBegin, Fault, Extends
<1>2. CASE tables # <<>>
  BY <1>2, ListingBegun
<1> QED
  BY <1>1, <1>2

LEMMA ListingAdvances ==
    ASSUME HeapOK(tables, nodes, pool), Filled, ListingInv, MREnumerateRegistry
    PROVE  ListingInv'
<1> DEFINE i == cursor.export_
           k == nodes[i].table
           np == NextPosition(k, i)
           given == listing.given
<1>1. /\ i \in DOMAIN nodes
      /\ cursor.module_ = k
      /\ Split
      /\ ~AtEnd
  BY DEF MREnumerateRegistry, ListingInv, CursorOK
<1>2. /\ listing' = [listing EXCEPT !.given = Append(given, Key(nodes[i]))]
      /\ cursor' = np
      /\ UNCHANGED <<tables, nodes>>
  BY <1>1 DEF MREnumerateRegistry
<1>3. Key(nodes[i]) \in Module \X Nat
  BY <1>1, KeyFacts
<1>4. /\ listing' \in [phase : {"idle", "open", "ended"}, due : SUBSET (Module \X Nat),
                       given : Seq(Module \X Nat)]
      /\ listing'.phase = "open"
      /\ listing'.due = listing.due
      /\ listing'.given = Append(given, Key(nodes[i]))
  <2>1. Append(given, Key(nodes[i])) \in Seq(Module \X Nat)
    BY <1>3, AppendFacts DEF ListingInv
  <2>2. listing.phase = "open"
    BY DEF MREnumerateRegistry
  <2> QED
    BY <1>2, <2>1, <2>2 DEF ListingInv
<1>5. /\ given \in Seq(Module \X Nat)
      /\ DOMAIN listing'.given = DOMAIN given \cup {Len(given) + 1}
      /\ Len(given) + 1 \notin DOMAIN given
      /\ listing'.given[Len(given) + 1] = Key(nodes[i])
      /\ \A g \in DOMAIN given : listing'.given[g] = given[g]
  BY <1>3, <1>4, AppendFacts DEF ListingInv
<1>6. Given' = Given \cup {Key(nodes[i])}
  BY <1>5 DEF Given
<1>7. Ahead(i)
  BY <1>1, LenProperties DEF Ahead, From, HeapOK
<1>8. Key(nodes[i]) \notin Given
  BY <1>1, <1>7, KeyFacts DEF Split
<1>9. \A g, h \in DOMAIN listing'.given : listing'.given[g] = listing'.given[h] => g = h
  BY <1>5, <1>8 DEF ListingInv, Given
<1>10. /\ cursor' \in [module_ : Nat, export_ : Nat]
       /\ CursorOK'
       /\ \A j \in DOMAIN nodes : Ahead(j)' <=> Ahead(j) /\ j # i
  <2> HIDE DEF np
  <2>1. np = NextPosition(nodes[i].table, i)
    BY DEF np
  <2>2. CASE /\ np = [module_ |-> 0, export_ |-> 0]
             /\ \A j \in DOMAIN nodes : From(j, k, i) => j = i
    BY <1>1, <1>2, <2>2 DEF CursorOK, AtEnd, Ahead
  <2>3. CASE /\ np \in [module_ : Nat, export_ : Nat]
             /\ np.module_ # 0
             /\ np.export_ \in DOMAIN nodes
             /\ np.export_ # 0
             /\ np.module_ = nodes[np.export_].table
             /\ \A j \in DOMAIN nodes :
                    From(j, np.module_, np.export_) <=> From(j, k, i) /\ j # i
    <3>1. CursorOK' /\ AtEnd' = FALSE
      BY <1>2, <2>3 DEF CursorOK, AtEnd
    <3>2. \A j \in DOMAIN nodes :
                From(j, cursor.module_, cursor.export_)' <=> From(j, np.module_, np.export_)
      BY <1>2 DEF From
    <3> QED
      BY <1>1, <1>2, <2>3, <3>1, <3>2 DEF Ahead
  <2> QED
    BY <1>1, <2>1, <2>2, <2>3, NextPositionIsNext
<1>11. \A j \in DOMAIN nodes : Key(nodes[j])' = Key(nodes[j])
  BY <1>2 DEF Key
<1>12. Split'
  <2>1. \A key \in Given' : \E j \in DOMAIN nodes' : Key(nodes[j])' = key /\ ~Ahead(j)'
    BY <1>1, <1>2, <1>6, <1>10, <1>11 DEF Split
  <2>2. \A key \in (listing.due \ Given)' :
            \E j \in DOMAIN nodes' : Key(nodes[j])' = key /\ Ahead(j)'
    BY <1>1, <1>2, <1>4, <1>6, <1>10, <1>11 DEF Split
  <2> QED
    BY <2>1, <2>2 DEF Split
<1> QED
  BY <1>4, <1>9, <1>10, <1>12 DEF ListingInv

LEMMA ListingEnding ==
    ASSUME HeapOK(tables, nodes, pool), ListingInv, MREnumerateRegistryEnd
    PROVE  ListingInv'
<1>1. Split /\ AtEnd /\ listing' = [listing EXCEPT !.phase = "ended"] /\ UNCHANGED cursor
  BY DEF MREnumerateRegistryEnd, ListingInv
<1>2. listing.due \subseteq Given
  BY <1>1 DEF Split, Ahead
<1>3. Given' = Given /\ listing'.due = listing.due /\ listing'.given = listing.given
  BY <1>1 DEF Given, ListingInv
<1> QED
  BY <1>1, <1>2, <1>3 DEF ListingInv
(***************************************************************************)
(* The inductive invariant and the theorems.                               *)
(***************************************************************************)

(* The only strings callers register are pool strings. *)
PoolOnly == \A x \in Export : x.storage = "pool" \/ Names([entry |-> x]) = {}

RegistryInv ==
    /\ HeapOK(tables, nodes, pool)
    /\ fault = "none" => Filled
    /\ fault \in {"none", "null_write", "null_read"}
    /\ ret \in {"none", "registered", "refused"}
    /\ ListingInv

LEMMA HeapOwned ==
    ASSUME HeapOK(tables, nodes, pool)
    PROVE  Exclusive /\ Owned \subseteq pool
<1>1. Exclusive
  BY DEF HeapOK, Exclusive, TablesDisjoint, NodesDisjoint, TablesNodesDisjoint, Holds, Apart
<1>2. \A r \in Owners : Blocks(r) \subseteq pool
  BY DEF Owners, HeapOK, Holds
<1> QED
  BY <1>1, <1>2 DEF Owned

LEMMA InitInv == Init => RegistryInv
<1> SUFFICES ASSUME Init PROVE RegistryInv
  OBVIOUS
<1>1. HeapOK(tables, nodes, pool) /\ Filled
  BY EmptySeq DEF Init, HeapOK, Filled
<1>2. ListingInv
  BY EmptySeq DEF Init, Idle, ListingInv
<1> QED
  BY <1>1, <1>2 DEF Init, RegistryInv

(* RegisterExport's copies are its own when MRRegisterMethod is called,    *)
(* and none of them is held elsewhere. *)
LEMMA RegisterExportEffect ==
    ASSUME HeapOK(tables, nodes, pool), Filled, NEW bs, Loose(bs, tables, nodes, pool),
           NEW m \in Module, NEW x \in Export, RegisterExport(m, x)
    PROVE  Registered /\ UNCHANGED <<cursor, listing>> /\ Loose(bs, tables', nodes', pool')
<1> DEFINE name == Copy(x.method_name, pool)
           alias == Copy(x.alias, pool \cup name)
           ss == name \cup alias
           p == pool \cup ss
<1>1. name \subseteq Block /\ name \cap pool = {}
  BY AllocIsFresh DEF RegisterExport, Copy, CanCopy
<1>2. alias \subseteq Block /\ alias \cap (pool \cup name) = {}
  BY AllocIsFresh DEF RegisterExport, Copy, CanCopy
<1>3. p \in SUBSET Block /\ p \ pool = ss /\ ss \in SUBSET Block /\ ss \cap pool = {}
  BY <1>1, <1>2 DEF HeapOK
<1>4. fault = "none" /\ MRRegisterMethod(m, x, p, ss)
  <2>1. p = pool \cup name \cup alias
    OBVIOUS
  <2> QED
    BY <2>1 DEF RegisterExport
<1> HIDE DEF ss, p
<1>5. HeapOK(tables, nodes, p) /\ Loose(ss, tables, nodes, p) /\ pool \subseteq p
  <2>1. pool \subseteq p
    BY DEF p
  <2> QED
    BY <1>3, <2>1, GrowPool
<1>6. Registered /\ UNCHANGED <<cursor, listing>>
  BY <1>3, <1>4, <1>5, RegisterEffect
<1>7. Loose(bs, tables, nodes, p) /\ bs \cap ss = {}
  BY <1>3, <1>5 DEF Loose
<1> QED
  BY <1>4, <1>5, <1>6, <1>7, RegisterLeaves

LEMMA RegisterExportKeeps ==
    ASSUME RegistryInv, NEW m \in Module, NEW x \in Export, RegisterExport(m, x)
    PROVE  RegistryInv'
<1>1. Loose({}, tables, nodes, pool) /\ fault = "none"
  BY DEF Loose, RegisterExport
<1>2. Registered /\ UNCHANGED <<cursor, listing>>
  BY <1>1, RegisterExportEffect DEF RegistryInv
<1>3. ListingInv'
  BY <1>2, ListingKept DEF RegistryInv, Registered
<1> QED
  BY <1>2, <1>3 DEF RegistryInv, Registered

(* An export of the caller's own brings no strings. *)
LEMMA RegisterScopedKeeps ==
    ASSUME PoolOnly, RegistryInv, NEW m \in Module, NEW x \in Export, RegisterScoped(m, x)
    PROVE  RegistryInv'
<1>1. fault = "none" /\ MRRegisterMethod(m, x, pool, {})
  BY DEF RegisterScoped, PoolOnly
<1>2. HeapOK(tables, nodes, pool) /\ Loose({}, tables, nodes, pool)
  BY DEF RegistryInv, HeapOK, Loose
<1>3. Registered /\ UNCHANGED <<cursor, listing>>
  <2>1. pool \in SUBSET Block
    BY DEF RegistryInv, HeapOK
  <2> QED
    BY <1>1, <1>2, <2>1, RegisterEffect DEF RegistryInv
<1>4. ListingInv'
  BY <1>3, ListingKept DEF RegistryInv, Registered
<1> QED
  BY <1>3, <1>4 DEF RegistryInv, Registered

LEMMA ResetKeeps ==
    ASSUME RegistryInv, MRResetRegistry
    PROVE  RegistryInv'
<1>1. Exclusive /\ MayFree(pool, Owned)
  BY HeapOwned DEF RegistryInv, MayFree
<1>2. /\ pool' = Free(pool, Owned)
      /\ tables' = <<>>
      /\ nodes' = <<>>
      /\ listing' = Idle
      /\ cursor' = [module_ |-> 0, export_ |-> 0]
      /\ ret' = "none"
      /\ fault' = fault
  BY <1>1 DEF MRResetRegistry
<1>3. HeapOK(tables', nodes', pool') /\ Filled'
  BY <1>2, EmptySeq DEF RegistryInv, HeapOK, Filled, Free
<1>4. ListingInv'
  BY <1>2, EmptySeq DEF Idle, ListingInv
<1> QED
  BY <1>2, <1>3, <1>4 DEF RegistryInv

LEMMA NextInv ==
    ASSUME PoolOnly, RegistryInv, [Next]_vars
    PROVE  RegistryInv'
<1>1. ASSUME NEW m \in Module, NEW x \in Export, RegisterExport(m, x)
      PROVE  RegistryInv'
  BY <1>1, RegisterExportKeeps
<1>2. ASSUME NEW m \in Module, NEW x \in Export, RegisterExportNoMemory(m, x)
      PROVE  RegistryInv'
  <2>1. Extends /\ Filled' = Filled
    BY <1>2 DEF RegisterExportNoMemory, Extends, Filled, NodesOf
  <2>2. ListingInv'
    BY <1>2, <2>1, ListingKept DEF RegistryInv, RegisterExportNoMemory
  <2> QED
    BY <1>2, <2>1, <2>2 DEF RegistryInv, RegisterExportNoMemory
<1>3. ASSUME NEW m \in Module, NEW x \in Export, RegisterScoped(m, x)
      PROVE  RegistryInv'
  BY <1>3, RegisterScopedKeeps
<1>4. CASE MREnumerateRegistryBegin
  <2>1. fault = "none" /\ UNCHANGED <<pool, tables, nodes>>
    BY <1>4 DEF MREnumerateRegistryBegin
  <2>2. ListingInv' /\ fault' \in {"none", "null_read"} /\ ret' = ret
    BY <1>4, <2>1, ListingBegins DEF RegistryInv
  <2>3. Filled'
    BY <2>1 DEF RegistryInv, Filled, NodesOf
  <2> QED
    BY <2>1, <2>2, <2>3 DEF RegistryInv
<1>5. CASE MREnumerateRegistry
  <2>1. UNCHANGED <<pool, tables, nodes, ret, fault>> /\ fault = "none"
    BY <1>5 DEF MREnumerateRegistry
  <2>2. ListingInv'
    BY <1>5, <2>1, ListingAdvances DEF RegistryInv
  <2>3. Filled'
    BY <2>1 DEF RegistryInv, Filled, NodesOf
  <2> QED
    BY <2>1, <2>2, <2>3 DEF RegistryInv
<1>6. CASE MREnumerateRegistryEnd
  <2>1. UNCHANGED <<pool, tables, nodes, ret, fault>> /\ fault = "none"
    BY <1>6 DEF MREnumerateRegistryEnd
  <2>2. ListingInv'
    BY <1>6, ListingEnding DEF RegistryInv
  <2>3. Filled'
    BY <2>1 DEF RegistryInv, Filled, NodesOf
  <2> QED
    BY <2>1, <2>2, <2>3 DEF RegistryInv
<1>7. CASE MRResetRegistry
  BY <1>7, ResetKeeps
<1>8. CASE UNCHANGED vars
  <2>1. Extends /\ UNCHANGED <<cursor, listing>> /\ Filled' = Filled
    BY <1>8 DEF vars, Extends, Filled, NodesOf
  <2>2. ListingInv'
    BY <2>1, ListingKept DEF RegistryInv
  <2> QED
    BY <1>8, <2>1, <2>2 DEF RegistryInv, vars
<1> QED
  BY <1>1, <1>2, <1>3, <1>4, <1>5, <1>6, <1>7, <1>8 DEF Next

(* The inductive invariant holds in every reachable state. *)
THEOREM RegistryInvariant ==
    ASSUME PoolOnly
    PROVE  Spec => []RegistryInv
<1>1. RegistryInv /\ [Next]_vars => RegistryInv'
  BY NextInv
<1> QED
  BY <1>1, InitInv, PTL DEF Spec

(* Type correctness of the registry's state, with the entries' strings in  *)
(* the pool. *)
THEOREM RegistryTypes ==
    ASSUME PoolOnly
    PROVE  Spec => []TypeOK
<1>1. RegistryInv => TypeOK
  <2> SUFFICES ASSUME RegistryInv PROVE TypeOK
    OBVIOUS
  <2>1. tables \in Seq([module_name : Module, at : Block, strings : SUBSET Block])
    BY DEF RegistryInv, HeapOK, TableRec
  <2>2. nodes \in Seq([table : Nat, at : Block, entry : Export,
                       strings : SUBSET (Block \cup {SCOPED})])
    <3>1. NodeRec \subseteq [table : Nat, at : Block, entry : Export,
                             strings : SUBSET (Block \cup {SCOPED})]
      BY DEF NodeRec
    <3> QED
      BY <3>1, SeqMonotonic DEF RegistryInv, HeapOK
  <2> QED
    BY <2>1, <2>2 DEF TypeOK, RegistryInv, HeapOK, ListingInv
<1> QED
  BY <1>1, RegistryInvariant, PTL

(* The lists stay well formed: one table per module, one node per ordinal, *)
(* and a table without an export only after a failed allocation faulted.   *)
THEOREM RegistryWellFormed ==
    ASSUME PoolOnly
    PROVE  Spec => []WellFormed
<1>1. RegistryInv => WellFormed
  <2> SUFFICES ASSUME RegistryInv PROVE WellFormed
    OBVIOUS
  <2>1. \A i, j \in DOMAIN nodes : Key(nodes[i]) = Key(nodes[j]) => i = j
    BY KeyFacts DEF RegistryInv
  <2> QED
    BY <2>1 DEF WellFormed, RegistryInv, HeapOK, Filled
<1> QED
  BY <1>1, RegistryInvariant, PTL

(* Memory safety of the registry: every block is held once, what is held   *)
(* is live, and no free is ever wrong, whichever allocations fail.         *)
THEOREM RegistryOwnership ==
    ASSUME PoolOnly
    PROVE  Spec => []Ownership
<1>1. RegistryInv => Ownership
  BY HeapOwned DEF RegistryInv, Ownership
<1> QED
  BY <1>1, RegistryInvariant, PTL

(* A listing gives out every export that was there when it began, once,    *)
(* under any registrations in between.                                     *)
THEOREM RegistryListing ==
    ASSUME PoolOnly
    PROVE  Spec => []ListingComplete
<1>1. RegistryInv => ListingComplete
  BY DEF RegistryInv, ListingInv, ListingComplete, Given
<1> QED
  BY <1>1, RegistryInvariant, PTL
=============================================================================
