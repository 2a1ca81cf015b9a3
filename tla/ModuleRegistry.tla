---------------------------- MODULE ModuleRegistry ----------------------------
(***************************************************************************)
(* The module export registry (src/src/module_registry.c): a list of       *)
(* modules, each with a list of exports, that owns the strings of its      *)
(* entries; the cursor that lists it; and the way RegisterExport           *)
(* (dxtmain.c) hands it freshly duplicated strings.                        *)
(*                                                                         *)
(* The nodes of all tables are kept in one sequence, in the order they     *)
(* were allocated; the linked list of table k is the subsequence of the    *)
(* nodes whose table is k.  Nodes only ever go to the end of their list    *)
(* and never move, so an index stands for a node's address.  Index 0 is    *)
(* the NULL pointer.                                                       *)
(***************************************************************************)
EXTENDS DmPool, Integers, Sequences, FiniteSets

CONSTANTS
    Module,         \* module names
    Export,         \* the registrations callers may ask for
    NULL,           \* a name that is absent
    SCOPED,         \* storage of a string that was not allocated from the pool
    NOT_FOUND       \* the answer of a lookup that finds nothing

(* A ModuleExport as a caller passes it.  storage says where its strings   *)
(* live: "pool" for PoolStrdup copies, "scoped" for static strings, which  *)
(* module_registry.h allows as well.                                       *)
ASSUME ExportAssumption ==
    \A x \in Export : x \in [ordinal : Nat, method_name : STRING \cup {NULL},
                             alias : STRING \cup {NULL}, address : Nat,
                             storage : {"pool", "scoped"}]
ASSUME SentinelAssumption == SCOPED \notin Block /\ NOT_FOUND \notin Nat

VARIABLES
    pool,           \* blocks handed out by the debug pool
    tables,         \* export_table: the modules, in the order of their list
    nodes,          \* the ExportNodes of all tables, in allocation order
    cursor,         \* the ModuleRegistryCursor of the one listing
    listing,        \* history of that listing: what was due, what it gave out
    ret,            \* result of the last MRRegisterMethod or RegisterExport
    fault           \* "none", or the illegal access that stopped the machine

vars == <<pool, tables, nodes, cursor, listing, ret, fault>>
-----------------------------------------------------------------------------
(* Reading the lists.                                                      *)

(* The head of a list of nodes. *)
First(S) == IF S = {} THEN 0 ELSE CHOOSE i \in S : \A j \in S : i <= j

Tables(m) == {k \in DOMAIN tables : tables[k].module_name = m}
NodesOf(k) == {i \in DOMAIN nodes : nodes[i].table = k}

NodeByOrdinal(k, o) == First({i \in NodesOf(k) : nodes[i].entry.ordinal = o})
Names(n) == {n.entry.method_name, n.entry.alias} \ {NULL}
(* Variant of NodeByName: the last match wins. *)
NodeByNameLast(k, s) ==
    LET hits == {i \in NodesOf(k) : s \in Names(nodes[i])}
    IN IF hits = {} THEN 0 ELSE CHOOSE i \in hits : \A j \in hits : j <= i

NodeByName(k, s) == First({i \in NodesOf(k) : s \in Names(nodes[i])})

(* What a lookup answers for the node it stopped at. *)
AddressAt(i) == IF i = 0 THEN NOT_FOUND ELSE nodes[i].entry.address

MRGetMethodByOrdinal(m, o) == AddressAt(NodeByOrdinal(First(Tables(m)), o))
MRGetMethodByName(m, s) == AddressAt(NodeByName(First(Tables(m)), s))

(* The (module, ordinal) pair a node stands for. *)
Key(n) == <<tables[n.table].module_name, n.entry.ordinal>>
-----------------------------------------------------------------------------
(* Memory the registry holds.                                              *)

(* The blocks behind a table or node: itself and its strings. *)
Blocks(r) == {r.at} \cup r.strings

Owners == {tables[k] : k \in DOMAIN tables} \cup {nodes[i] : i \in DOMAIN nodes}
Owned == UNION {Blocks(r) : r \in Owners}

(* No block is held twice, and what is held is allocated. *)
TablesDisjoint ==
    \A j, k \in DOMAIN tables : j # k => Blocks(tables[j]) \cap Blocks(tables[k]) = {}
NodesDisjoint ==
    \A i, j \in DOMAIN nodes : i # j => Blocks(nodes[i]) \cap Blocks(nodes[j]) = {}
TablesNodesDisjoint ==
    \A k \in DOMAIN tables, i \in DOMAIN nodes :
        Blocks(tables[k]) \cap Blocks(nodes[i]) = {}
Exclusive ==
    /\ \A k \in DOMAIN tables : tables[k].at \notin tables[k].strings
    /\ \A i \in DOMAIN nodes : nodes[i].at \notin nodes[i].strings
    /\ TablesDisjoint
    /\ NodesDisjoint
    /\ TablesNodesDisjoint
-----------------------------------------------------------------------------
Idle == [phase |-> "idle", due |-> {}, given |-> <<>>]

Init ==
    /\ pool = {}
    /\ tables = <<>>
    /\ nodes = <<>>
    /\ cursor = [module_ |-> 0, export_ |-> 0]
    /\ listing = Idle
    /\ ret = "none"
    /\ fault = "none"

(* An access the hardware or the pool does not survive. *)
Fault(f) ==
    /\ fault' = f
    /\ UNCHANGED ret
-----------------------------------------------------------------------------
(* MRRegisterMethod(m, x), called with pool p after the strings ss of x    *)
(* were set up.                                                            *)

(* Variants of Replace: only the address is copied, so that the entry      *)
(* keeps its freed strings; the old strings are not freed; the first       *)
(* registration wins.                                                      *)
ReplaceAddressOnly(x, p, ss, i) ==
    /\ pool' = Free(p, nodes[i].strings)
    /\ nodes' = [nodes EXCEPT ![i].entry.address = x.address]
    /\ ret' = "registered"
    /\ UNCHANGED <<tables, fault>>
ReplaceWithoutFree(x, p, ss, i) ==
    /\ pool' = p
    /\ nodes' = [nodes EXCEPT ![i] = [@ EXCEPT !.entry = x, !.strings = ss]]
    /\ ret' = "registered"
    /\ UNCHANGED <<tables, fault>>
ReplaceIgnored(x, p, ss, i) ==
    /\ pool' = Free(p, ss)
    /\ ret' = "registered"
    /\ UNCHANGED <<tables, nodes, fault>>

(* AppendExport, an entry with the ordinal exists: the strings of the old  *)
(* entry are freed and the entry overwritten in place.                     *)
Replace(x, p, ss, i) ==
    /\ UNCHANGED tables
    /\ IF MayFree(p, nodes[i].strings)
       THEN /\ pool' = Free(p, nodes[i].strings)
            /\ nodes' = [nodes EXCEPT ![i] = [@ EXCEPT !.entry = x, !.strings = ss]]
            /\ ret' = "registered"
            /\ UNCHANGED fault
       ELSE /\ pool' = p
            /\ UNCHANGED nodes
            /\ Fault("bad_free")

(* Variant of SetExportEntry: a failed allocation is taken for a node. *)
SetExportEntryUnchecked(x, p, ss, k) ==
    LET at == IF CanAlloc(p) THEN Alloc(p) ELSE NULL
    IN /\ pool' = (p \cup {at}) \ {NULL}
       /\ nodes' = Append(nodes, [table |-> k, at |-> at, entry |-> x, strings |-> ss])
       /\ ret' = "registered"
       /\ UNCHANGED fault

(* Variant of SetExportEntry: the entry is added and a failure reported. *)
SetExportEntryFalse(x, p, ss, k) ==
    /\ CanAlloc(p)
    /\ pool' = p \cup {Alloc(p)}
    /\ nodes' = Append(nodes, [table |-> k, at |-> Alloc(p), entry |-> x, strings |-> ss])
    /\ ret' = "refused"
    /\ UNCHANGED fault

(* SetExportEntry at the end of table k.  Its check for a failed           *)
(* allocation tests the wrong pointer, so a failure writes through NULL.   *)
SetExportEntry(x, p, ss, k) ==
    \/ /\ CanAlloc(p)
       /\ pool' = p \cup {Alloc(p)}
       /\ nodes' = Append(nodes, [table |-> k, at |-> Alloc(p), entry |-> x, strings |-> ss])
       /\ ret' = "registered"
       /\ UNCHANGED fault
    \/ /\ pool' = p
       /\ UNCHANGED nodes
       /\ Fault("null_write")

(* Variant of AppendExport: no search for the ordinal. *)
AppendExportAlways(x, p, ss, k) == UNCHANGED tables /\ SetExportEntry(x, p, ss, k)

AppendExport(x, p, ss, k) ==
    LET i == NodeByOrdinal(k, x.ordinal)
    IN IF i # 0 THEN Replace(x, p, ss, i)
                ELSE UNCHANGED tables /\ SetExportEntry(x, p, ss, k)

(* SetExportTableEntry and then AppendExport to the new table: the table   *)
(* and the copy of its name are two allocations, and a failure of either   *)
(* frees what was allocated.                                               *)
AppendExportTable(m, x, p, ss) ==
    LET at == Alloc(p)
        q == p \cup {at}
        name == Alloc(q)
    IN \/ /\ CanAlloc(p)
          /\ CanAlloc(q)
          /\ tables' = Append(tables, [module_name |-> m, at |-> at, strings |-> {name}])
          /\ SetExportEntry(x, q \cup {name}, ss, Len(tables) + 1)
       \/ /\ pool' = p
          /\ ret' = "refused"
          /\ UNCHANGED <<tables, nodes, fault>>

MRRegisterMethod(m, x, p, ss) ==
    /\ UNCHANGED <<cursor, listing>>
    /\ IF Tables(m) # {} THEN AppendExport(x, p, ss, First(Tables(m)))
                         ELSE AppendExportTable(m, x, p, ss)

(* The block PoolStrdup copies a name into; an absent name has none. *)
Copy(name, p) == IF name = NULL THEN {} ELSE {Alloc(p)}
CanCopy(name, p) == name = NULL \/ CanAlloc(p)

(* RegisterExport: PoolStrdup for each name, then MRRegisterMethod, whose  *)
(* result it returns without freeing the copies when that is a refusal.    *)
(* RegisterModuleExports is the same with both names absent.               *)
RegisterExport(m, x) ==
    LET name == Copy(x.method_name, pool)
        alias == Copy(x.alias, pool \cup name)
    IN /\ fault = "none"
       /\ x.storage = "pool"
       /\ CanCopy(x.method_name, pool)
       /\ CanCopy(x.alias, pool \cup name)
       /\ MRRegisterMethod(m, x, pool \cup name \cup alias, name \cup alias)

(* RegisterExport, a PoolStrdup fails: what was copied is freed.           *)
RegisterExportNoMemory(m, x) ==
    /\ fault = "none"
    /\ x.storage = "pool"
    /\ Names([entry |-> x]) # {}
    /\ ret' = "refused"
    /\ UNCHANGED <<pool, tables, nodes, cursor, listing, fault>>

(* A caller that passes strings scoped beyond the registry's lifetime.     *)
RegisterScoped(m, x) ==
    /\ fault = "none"
    /\ x.storage = "scoped"
    /\ MRRegisterMethod(m, x, pool, IF Names([entry |-> x]) = {} THEN {} ELSE {SCOPED})
-----------------------------------------------------------------------------
(* MREnumerateRegistryBegin reads export_table->exports without a check.   *)
MREnumerateRegistryBegin ==
    /\ fault = "none"
    /\ IF tables = <<>>
       THEN /\ Fault("null_read")
            /\ UNCHANGED <<cursor, listing>>
       ELSE /\ cursor' = [module_ |-> 1, export_ |-> First(NodesOf(1))]
            /\ listing' = [phase |-> "open", due |-> {Key(nodes[i]) : i \in DOMAIN nodes},
                           given |-> <<>>]
            /\ UNCHANGED <<ret, fault>>
    /\ UNCHANGED <<pool, tables, nodes>>

(* Variant of NextPosition: the end of a table is taken for the end of the list. *)
NextPositionInTable(k, i) ==
    LET rest == {j \in NodesOf(k) : j > i}
    IN IF rest # {} THEN [module_ |-> k, export_ |-> First(rest)]
                    ELSE [module_ |-> k + 1, export_ |-> 0]

(* Where the cursor goes after node i of table k. *)
NextPosition(k, i) ==
    LET rest == {j \in NodesOf(k) : j > i}
    IN CASE rest # {} -> [module_ |-> k, export_ |-> First(rest)]
         [] rest = {} /\ k < Len(tables) ->
                [module_ |-> k + 1, export_ |-> First(NodesOf(k + 1))]
         [] rest = {} /\ k >= Len(tables) -> [module_ |-> 0, export_ |-> 0]

AtEnd == cursor.module_ = 0 \/ cursor.export_ = 0

(* MREnumerateRegistry gives out the entry under the cursor and moves on. *)
MREnumerateRegistry ==
    /\ fault = "none"
    /\ listing.phase = "open"
    /\ ~AtEnd
    /\ listing' = [listing EXCEPT !.given = Append(@, Key(nodes[cursor.export_]))]
    /\ cursor' = NextPosition(cursor.module_, cursor.export_)
    /\ UNCHANGED <<pool, tables, nodes, ret, fault>>

(* Variant of MREnumerateRegistryEnd: the end is not reported. *)
MREnumerateRegistryEndIgnored ==
    /\ fault = "none"
    /\ listing.phase = "open"
    /\ AtEnd
    /\ UNCHANGED vars

(* MREnumerateRegistry returns false: the listing is over. *)
MREnumerateRegistryEnd ==
    /\ fault = "none"
    /\ listing.phase = "open"
    /\ AtEnd
    /\ listing' = [listing EXCEPT !.phase = "ended"]
    /\ UNCHANGED <<pool, tables, nodes, cursor, ret, fault>>

(* MRResetRegistry frees every node, string and table.  module_registry.h  *)
(* rules it out while a listing is open.                                   *)
MRResetRegistry ==
    /\ fault = "none"
    /\ listing.phase # "open"
    /\ IF Exclusive /\ MayFree(pool, Owned)
       THEN /\ pool' = Free(pool, Owned)
            /\ tables' = <<>>
            /\ nodes' = <<>>
            /\ listing' = Idle
            /\ cursor' = [module_ |-> 0, export_ |-> 0]
            /\ ret' = "none"
            /\ UNCHANGED fault
       ELSE Fault("bad_free") /\ UNCHANGED <<pool, tables, nodes, cursor, listing>>
-----------------------------------------------------------------------------
Next ==
    \/ \E m \in Module, x \in Export :
            \/ RegisterExport(m, x)
            \/ RegisterExportNoMemory(m, x)
            \/ RegisterScoped(m, x)
    \/ MREnumerateRegistryBegin
    \/ MREnumerateRegistry
    \/ MREnumerateRegistryEnd
    \/ MRResetRegistry

Spec == Init /\ [][Next]_vars

(* The monitor calls the listing's continuation until it reports the end.  *)
FairSpec == Spec /\ WF_vars(MREnumerateRegistry) /\ WF_vars(MREnumerateRegistryEnd)
-----------------------------------------------------------------------------
(* Every variable has its type. *)
TypeOK ==
    /\ pool \subseteq Block
    /\ tables \in Seq([module_name : Module, at : Block, strings : SUBSET Block])
    /\ nodes \in Seq([table : Nat, at : Block, entry : Export,
                      strings : SUBSET (Block \cup {SCOPED})])
    /\ cursor \in [module_ : Nat, export_ : Nat]
    /\ listing \in [phase : {"idle", "open", "ended"}, due : SUBSET (Module \X Nat),
                    given : Seq(Module \X Nat)]
    /\ ret \in {"none", "registered", "refused"}
    /\ fault \in {"none", "null_write", "null_read", "bad_free"}

(* The registry is well formed: a module has one table, an ordinal one     *)
(* node in it, every node belongs to a table, and only a failed allocation *)
(* leaves a table without a node (which would end a listing early).        *)
WellFormed ==
    /\ \A j, k \in DOMAIN tables : tables[j].module_name = tables[k].module_name => j = k
    /\ \A i, j \in DOMAIN nodes :
            /\ nodes[i].table \in DOMAIN tables
            /\ Key(nodes[i]) = Key(nodes[j]) => i = j
    /\ fault = "none" => \A k \in DOMAIN tables : NodesOf(k) # {}

(* Memory is safe: no block is held by two tables or nodes, nothing held   *)
(* was given back to the pool, and nothing is freed twice.                 *)
Ownership ==
    /\ Exclusive
    /\ Owned \subseteq pool
    /\ fault # "bad_free"

(* A registration that takes effect, a listing or a reset leaks nothing;   *)
(* one that is refused leaks at most the copies of its own strings.        *)
LeakOnlyOnRefusal ==
    [][ \/ ret' # "refused" /\ fault' = "none" /\ (pool \ Owned)' \subseteq pool \ Owned
        \/ /\ ret' = "refused"
           /\ UNCHANGED <<tables, nodes>>
           /\ Cardinality(pool' \ pool) <= 2
        \/ fault' # "none" ]_vars

(* No NULL pointer is written through when an allocation fails: a failing  *)
(* SetExportEntry was meant to make MRRegisterMethod return false.         *)
NoNullWrite == fault # "null_write"

(* Strings scoped beyond the registry's lifetime may be registered         *)
(* (module_registry.h): the registry never hands them to DmFreePool.       *)
ScopedStringsAllowed == fault # "bad_free"

(* What a name resolves to changes only when a registration overwrites an  *)
(* entry in place and the old or new entry has that name: an export        *)
(* appended later never takes over a name that already resolves.           *)
NamesStable ==
    [][ nodes' # <<>> =>
        \A m \in Module, s \in UNION {Names([entry |-> x]) : x \in Export} :
            MRGetMethodByName(m, s) \notin {NOT_FOUND, MRGetMethodByName(m, s)'} =>
                \E i \in DOMAIN nodes :
                    /\ nodes'[i].entry # nodes[i].entry
                    /\ s \in Names(nodes[i]) \cup Names(nodes'[i]) ]_vars

(* A listing gives out nothing twice, and one that ended has given out     *)
(* every export that was registered when it began, whatever was registered *)
(* or overwritten meanwhile.                                               *)
ListingComplete ==
    /\ \A i, j \in DOMAIN listing.given : listing.given[i] = listing.given[j] => i = j
    /\ listing.phase = "ended" =>
            listing.due \subseteq {listing.given[i] : i \in DOMAIN listing.given}

(* A listing that was begun ends, unless the machine faults or the client  *)
(* begins it anew again and again.                                         *)
ListingEnds ==
    <>[][~MREnumerateRegistryBegin]_vars =>
        (listing.phase = "open" ~> (listing.phase = "ended" \/ fault # "none"))

(* What callers see of the registry: the address of each export. *)
Addresses ==
    [k \in Module \X {x.ordinal : x \in Export} |-> MRGetMethodByOrdinal(k[1], k[2])]

(* A registration that is reported as successful is what a lookup of its   *)
(* ordinal finds from then on, over any earlier one, and no other lookup   *)
(* changes.                                                                *)
LastRegistrationWins ==
    [][ \A m \in Module, x \in Export :
            /\ RegisterExport(m, x) \/ RegisterScoped(m, x)
            /\ ret' = "registered" /\ fault' = "none"
            => Addresses' = [Addresses EXCEPT ![<<m, x.ordinal>>] = x.address] ]_vars

(* The registry implements the map it promises: nothing but a successful   *)
(* registration or a reset changes what it answers, a registration changes *)
(* one answer at most, and a refused one none.                             *)
Map == INSTANCE ExportMap WITH
    Ordinal <- {x.ordinal : x \in Export},
    Address <- {x.address : x \in Export},
    address <- Addresses
ImplementsMap == Map!Spec
=============================================================================
