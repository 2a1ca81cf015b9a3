---------------------------- MODULE DxtMainProofs ----------------------------
(***************************************************************************)
(* Proofs about DxtMain: for any number of connections, that the monitor   *)
(* stays within the block of a transfer, and that the walk over the loaded *)
(* modules registers a prefix of their exports; for one connection,        *)
(* whatever is loaded, reserved, installed and registered, that the blocks *)
(* stay apart, that the loader uses the image it received, and that        *)
(* nothing leaks.                                                          *)
(* What registrations do to the registry is taken from RegistryMapProofs.  *)
(***************************************************************************)
EXTENDS DxtMain, SequenceTheorems, TLAPS

RP == INSTANCE RegistryMapProofs

Fields == {"handler", "buffer", "offset", "buffer_size", "bytes_remaining", "extent"}

(* Contexts are records of these fields, reservations have a size. *)
Shapes ==
    /\ DOMAIN ctx = Session /\ \A s \in Session : DOMAIN ctx[s] = Fields
    /\ reserved \subseteq [block : Block, size : Nat]

InBounds(s) ==
    /\ ctx[s].buffer \in Block
    /\ ctx[s].offset \in Nat /\ ctx[s].buffer_size \in Nat /\ ctx[s].extent \in Nat
    /\ ctx[s].bytes_remaining = ctx[s].buffer_size
    /\ ctx[s].offset + ctx[s].buffer_size <= ctx[s].extent

BoundsInv == Shapes /\ \A s \in Session : Receiving(s) => InBounds(s)
-----------------------------------------------------------------------------
(* A block the pool hands out was free. *)
LEMMA AllocFresh ==
    ASSUME NEW p, CanAlloc(p)
    PROVE  Alloc(p) \in Block /\ Alloc(p) \notin p
BY DEF CanAlloc, Alloc

(* A connection's step leaves the others as they were. *)
LEMMA OthersKept ==
    ASSUME Shapes, NEW s \in Session, NEW c, DOMAIN c = Fields, ctx' = [ctx EXCEPT ![s] = c]
    PROVE  /\ DOMAIN ctx' = Session /\ \A t \in Session : DOMAIN ctx'[t] = Fields
           /\ ctx'[s] = c
           /\ \A t \in Session \ {s} : ctx'[t] = ctx[t]
BY DEF Shapes

(* What becomes of the bounds when the context of s becomes c. *)
LEMMA BoundsStep ==
    ASSUME BoundsInv, NEW s \in Session, NEW c, DOMAIN c = Fields, ctx' = [ctx EXCEPT ![s] = c],
           UNCHANGED reserved,
           c.handler = "ReceiveImageData" =>
                /\ c.buffer \in Block
                /\ c.offset \in Nat /\ c.buffer_size \in Nat /\ c.extent \in Nat
                /\ c.bytes_remaining = c.buffer_size
                /\ c.offset + c.buffer_size <= c.extent
    PROVE  BoundsInv'
<1>1. /\ DOMAIN ctx' = Session /\ \A t \in Session : DOMAIN ctx'[t] = Fields
      /\ ctx'[s] = c
      /\ \A t \in Session \ {s} : ctx'[t] = ctx[t]
  BY OthersKept DEF BoundsInv
<1>2. Shapes'
  BY <1>1 DEF BoundsInv, Shapes
<1>3. ASSUME NEW t \in Session, Receiving(t)' PROVE InBounds(t)'
  <2>1. CASE t = s
    BY <1>1, <1>3, <2>1 DEF Receiving, InBounds
  <2>2. CASE t # s
    BY <1>1, <1>3, <2>2 DEF Receiving, InBounds, BoundsInv
  <2> QED BY <2>1, <2>2
<1> QED BY <1>2, <1>3 DEF BoundsInv

LEMMA BoundsSame == ASSUME BoundsInv, UNCHANGED <<ctx, reserved>> PROVE BoundsInv'
BY DEF BoundsInv, Shapes, Receiving, InBounds

(* The contexts a handler leaves. *)
LEMMA NewContexts ==
    ASSUME NEW b, NEW size, NEW extent
    PROVE  /\ DOMAIN NoContext = Fields /\ NoContext.handler = "none"
           /\ DOMAIN ToReceive(b, size, extent) = Fields
           /\ ToReceive(b, size, extent).handler = "ReceiveImageData"
           /\ ToReceive(b, size, extent).buffer = b /\ ToReceive(b, size, extent).offset = 0
           /\ ToReceive(b, size, extent).buffer_size = size
           /\ ToReceive(b, size, extent).bytes_remaining = size
           /\ ToReceive(b, size, extent).extent = extent
BY DEF NoContext, ToReceive, Fields

(* n bytes more: the pointer, the room and what is due move together. *)
LEMMA AdvanceKeeps ==
    ASSUME BoundsInv, NEW s \in Session, Receiving(s), NEW n \in Nat, n <= ctx[s].buffer_size
    PROVE  LET c == Advance(ctx[s], n)
           IN /\ DOMAIN c = Fields /\ c.handler = "ReceiveImageData"
              /\ c.buffer = ctx[s].buffer /\ c.buffer \in Block
              /\ c.offset = ctx[s].offset + n /\ c.bytes_remaining = ctx[s].bytes_remaining - n
              /\ c.offset \in Nat /\ c.buffer_size \in Nat /\ c.extent \in Nat
              /\ c.bytes_remaining = c.buffer_size
              /\ c.offset + c.buffer_size <= c.extent
<1> DEFINE c == Advance(ctx[s], n)
<1>1. /\ DOMAIN c = Fields /\ c.handler = ctx[s].handler /\ c.buffer = ctx[s].buffer
      /\ c.offset = ctx[s].offset + n /\ c.buffer_size = ctx[s].buffer_size - n
      /\ c.bytes_remaining = ctx[s].bytes_remaining - n /\ c.extent = ctx[s].extent
  BY DEF Advance, BoundsInv, Shapes, Fields
<1> HIDE DEF c
<1>2. InBounds(s) /\ ctx[s].handler = "ReceiveImageData"
  BY DEF BoundsInv, Receiving
<1>3. /\ c.offset \in Nat /\ c.buffer_size \in Nat
      /\ c.bytes_remaining = c.buffer_size
      /\ c.offset + c.buffer_size <= c.extent
  BY <1>1, <1>2 DEF InBounds
<1>4. c.buffer \in Block /\ c.extent \in Nat
  BY <1>1, <1>2 DEF InBounds
<1> QED BY <1>1, <1>2, <1>3, <1>4 DEF c

LEMMA BoundsNext == ASSUME BoundsInv, [Next]_vars PROVE BoundsInv'
<1>1. CASE UNCHANGED vars
  BY <1>1, BoundsSame DEF vars
<1>2. CASE DXTMain
  BY <1>2, BoundsSame DEF DXTMain
<1>3. ASSUME NEW s \in Session, HandleHello(s) PROVE BoundsInv'
  <2> DEFINE c == [ctx[s] EXCEPT !.handler = "SendMethodAddresses"]
  <2>1. ctx' = [ctx EXCEPT ![s] = c] /\ UNCHANGED reserved
    BY <1>3 DEF HandleHello
  <2>2. DOMAIN c = Fields /\ c.handler = "SendMethodAddresses"
    BY DEF BoundsInv, Shapes, Fields
  <2> HIDE DEF c
  <2> QED BY <2>1, <2>2, BoundsStep
<1>4. ASSUME NEW s \in Session, SendMethodAddresses(s) \/ ReceiveNothing(s) \/ Disconnect(s)
      PROVE  BoundsInv'
  <2>1. (UNCHANGED ctx \/ ctx' = [ctx EXCEPT ![s] = NoContext]) /\ UNCHANGED reserved
    BY <1>4 DEF SendMethodAddresses, ReceiveNothing, Disconnect, GivenUp
  <2> QED BY <2>1, BoundsSame, BoundsStep, NewContexts
<1>5. ASSUME NEW s \in Session, NEW size \in 0 .. MaxSize, HandleDynamicLoad(s, size)
      PROVE  BoundsInv'
  <2>1. /\ UNCHANGED reserved
        /\ UNCHANGED ctx \/ ctx' = [ctx EXCEPT ![s] = ToReceive(Alloc(pool), size, size)]
        /\ CanAlloc(pool)
    BY <1>5 DEF HandleDynamicLoad
  <2>2. Alloc(pool) \in Block /\ size \in Nat /\ 0 + size <= size
    BY <2>1, AllocFresh, MaxSizeAssumption
  <2> QED BY <2>1, <2>2, BoundsSame, BoundsStep, NewContexts
<1>6. ASSUME NEW s \in Session, NEW size \in 0 .. MaxSize, HandleReserve(s, size)
      PROVE  BoundsInv'
  <2>1. /\ UNCHANGED ctx /\ CanAlloc(pool)
        /\ reserved' = reserved \cup {[block |-> Alloc(pool), size |-> size]}
    BY <1>6 DEF HandleReserve
  <2>2. Alloc(pool) \in Block /\ size \in Nat
    BY <2>1, AllocFresh, MaxSizeAssumption
  <2> QED BY <2>1, <2>2 DEF BoundsInv, Shapes, Receiving, InBounds
<1>7. ASSUME NEW s \in Session, NEW r \in reserved, NEW length \in 0 .. r.size,
             NEW entrypoint \in -1 .. length, HandleInstall(s, r, length, entrypoint)
      PROVE  BoundsInv'
  <2>1. UNCHANGED reserved /\ ctx' = [ctx EXCEPT ![s] = ToReceive(r.block, length, r.size)]
    BY <1>7 DEF HandleInstall
  <2>2. r.block \in Block /\ r.size \in Nat
    BY DEF BoundsInv, Shapes
  <2>3. length \in Nat /\ 0 + length <= r.size
    BY <2>2
  <2> DEFINE c == ToReceive(r.block, length, r.size)
  <2>4. /\ DOMAIN c = Fields /\ c.buffer = r.block /\ c.offset = 0 /\ c.buffer_size = length
        /\ c.bytes_remaining = length /\ c.extent = r.size
    BY NewContexts
  <2>5. UNCHANGED reserved /\ ctx' = [ctx EXCEPT ![s] = c]
    BY <2>1
  <2> HIDE DEF c
  <2>6. /\ DOMAIN c = Fields /\ c.buffer \in Block
        /\ c.offset \in Nat /\ c.buffer_size \in Nat /\ c.extent \in Nat
        /\ c.bytes_remaining = c.buffer_size
        /\ c.offset + c.buffer_size <= c.extent
    BY <2>2, <2>3, <2>4
  <2> QED BY <2>5, <2>6, BoundsStep
<1>8. ASSUME NEW s \in Session, NEW r \in ToExport, HandleRegisterModuleExport(s, r)
      PROVE  BoundsInv'
  BY <1>8, BoundsSame DEF HandleRegisterModuleExport
<1>9. ASSUME NEW s \in Session, NEW n \in 1 .. MaxSize, ReceiveImageData(s, n)
      PROVE  BoundsInv'
  <2> DEFINE c == Advance(ctx[s], n)
  <2>1. /\ UNCHANGED reserved /\ Receiving(s) /\ n <= ctx[s].buffer_size
        /\ ctx' = [ctx EXCEPT ![s] = c] \/ ctx' = [ctx EXCEPT ![s] = NoContext]
    BY <1>9 DEF ReceiveImageData
  <2>2. n \in Nat
    BY MaxSizeAssumption
  <2> HIDE DEF c
  <2>3. CASE ctx' = [ctx EXCEPT ![s] = NoContext]
    BY <2>1, <2>3, BoundsStep, NewContexts
  <2>4. CASE ctx' = [ctx EXCEPT ![s] = c]
    BY <2>1, <2>2, <2>4, AdvanceKeeps, BoundsStep DEF c
  <2> QED BY <2>1, <2>3, <2>4
<1> QED BY <1>1, <1>2, <1>3, <1>4, <1>5, <1>6, <1>7, <1>8, <1>9 DEF Next

(* The contexts of every connection stay in bounds. *)
THEOREM BoundsInvariant == Spec => []BoundsInv
<1>1. Init => BoundsInv
  BY NewContexts DEF Init, BoundsInv, Shapes, Receiving
<1> QED BY <1>1, BoundsNext, PTL DEF Spec

(* ReceiveImageData advances the pointer, the room and the bytes due so    *)
(* that the monitor never writes past the block, for any number of         *)
(* connections and any pieces the data come in; HandleInstall does so as   *)
(* long as its client keeps within what it reserved.                       *)
THEOREM BuffersInBounds == Spec => []BufferInBounds
<1>1. BoundsInv => BufferInBounds
  BY DEF BoundsInv, InBounds, BufferInBounds
<1> QED BY <1>1, BoundsInvariant, PTL
-----------------------------------------------------------------------------
(* One connection.                                                         *)
OneConnection == \E s : Session = {s}

(* The blocks in use besides the registry's. *)
Others == images \cup ReservedBlocks \cup Loading

Registration == [module : Module, export : Export, linked : BOOLEAN]

Types ==
    /\ todo \in Seq(Registration)
    /\ relocation_needed \in BOOLEAN
    /\ fault \notin {"bad_free", "wild_call"}

(* The registry's heap is in order, and nobody else holds a block of it. *)
Heap ==
    /\ RP!HeapOK(tables, nodes, pool)
    /\ fault = "none" => RP!Filled
    /\ RP!Loose(Others, tables, nodes, pool)
    /\ images \cap (ReservedBlocks \cup Loading) = {}

(* A transfer under way: context_store is about its buffer. *)
Transfer(s) ==
    /\ cursor.export_ = ctx[s].buffer
    /\ raw_image_size = ctx[s].offset + ctx[s].bytes_remaining
    /\ relocation_needed => ctx[s].buffer \notin ReservedBlocks
    /\ ~relocation_needed => cursor.module_ = ctx[s].buffer /\ ctx[s].buffer \in ReservedBlocks

IInv ==
    /\ BoundsInv
    /\ Types
    /\ Heap
    /\ \A s \in Session : Receiving(s) => Transfer(s)
    /\ ImageIntact
-----------------------------------------------------------------------------
(* The registry of RegistryMapProofs is that of DxtMain. *)
LEMMA SameRegister ==
    ASSUME NEW m, NEW x, NEW p, NEW ss
    PROVE  R!MRRegisterMethod(m, x, p, ss) <=> RP!MRRegisterMethod(m, x, p, ss)
BY Zenon DEF R!MRRegisterMethod, RP!MRRegisterMethod, R!Tables, RP!Tables, R!First, RP!First,
   R!AppendExport, RP!AppendExport, R!AppendExportTable, RP!AppendExportTable, R!SetExportEntry,
   RP!SetExportEntry, R!Replace, RP!Replace, R!Fault, RP!Fault, R!NodeByOrdinal, RP!NodeByOrdinal,
   R!NodesOf, RP!NodesOf, R!CanAlloc, RP!CanAlloc, R!Alloc, RP!Alloc, R!Free, RP!Free, R!MayFree,
   RP!MayFree

LEMMA SameRegisterExport ==
    ASSUME NEW m, NEW x
    PROVE  R!RegisterExport(m, x) <=> RP!RegisterExport(m, x)
BY SameRegister, Zenon DEF R!RegisterExport, RP!RegisterExport, R!Copy, RP!Copy, R!CanCopy,
   RP!CanCopy, R!CanAlloc, RP!CanAlloc, R!Alloc, RP!Alloc

LEMMA SameOwned ==
    /\ R!Exclusive <=> RP!Exclusive
    /\ R!Owned = RP!Owned
BY Zenon DEF R!Exclusive, RP!Exclusive, R!Owned, RP!Owned, R!TablesDisjoint, RP!TablesDisjoint,
   R!NodesDisjoint, RP!NodesDisjoint, R!TablesNodesDisjoint, RP!TablesNodesDisjoint, R!Blocks,
   RP!Blocks, R!Owners, RP!Owners

LEMMA RegistryAssumptions == RP!ExportAssumption /\ RP!SentinelAssumption
BY ExportAssumption, SentinelAssumption DEF RP!ExportAssumption, RP!SentinelAssumption

(* A registration, called with a pool p in which the others' blocks bs are *)
(* loose. *)
LEMMA RegisterEffect ==
    ASSUME NEW m \in Module, NEW x \in Export, NEW p, NEW bs,
           RP!HeapOK(tables, nodes, p), RP!Loose(bs, tables, nodes, p), fault = "none", RP!Filled,
           R!MRRegisterMethod(m, x, p, {})
    PROVE  /\ RP!HeapOK(tables', nodes', pool') /\ RP!Loose(bs, tables', nodes', pool')
           /\ fault' \in {"none", "null_write"} /\ (fault' = "none" => RP!Filled')
           /\ UNCHANGED <<cursor, listing>>
<1>1. RP!MRRegisterMethod(m, x, p, {})
  BY SameRegister
<1>2. RP!Loose({}, tables, nodes, p)
  BY DEF RP!Loose
<1>3. RP!Registered /\ UNCHANGED <<cursor, listing>>
  BY <1>1, <1>2, RP!RegisterEffect, RegistryAssumptions
<1>4. RP!Loose(bs, tables', nodes', pool')
  BY <1>1, RP!RegisterLeaves, RegistryAssumptions
<1> QED BY <1>3, <1>4 DEF RP!Registered

(* The same of RegisterExport, with the copies it makes. *)
LEMMA RegisterExportEffect ==
    ASSUME NEW m \in Module, NEW x \in Export, NEW bs,
           RP!HeapOK(tables, nodes, pool), RP!Loose(bs, tables, nodes, pool), RP!Filled,
           R!RegisterExport(m, x)
    PROVE  /\ RP!HeapOK(tables', nodes', pool') /\ RP!Loose(bs, tables', nodes', pool')
           /\ fault' \in {"none", "null_write"} /\ (fault' = "none" => RP!Filled')
           /\ UNCHANGED <<cursor, listing>>
<1>1. RP!RegisterExport(m, x)
  BY SameRegisterExport
<1>2. RP!Registered /\ UNCHANGED <<cursor, listing>> /\ RP!Loose(bs, tables', nodes', pool')
  BY <1>1, RP!RegisterExportEffect, RegistryAssumptions
<1> QED BY <1>2 DEF RP!Registered
-----------------------------------------------------------------------------
(* Blocks held by fewer are as loose as before. *)
LEMMA LooseLess ==
    ASSUME NEW bs, NEW cs, cs \subseteq bs, NEW ts, NEW ns, NEW p, RP!Loose(bs, ts, ns, p)
    PROVE  RP!Loose(cs, ts, ns, p)
BY DEF RP!Loose

(* A block just allocated is loose, too. *)
LEMMA LooseMore ==
    ASSUME NEW bs, NEW ts, NEW ns, NEW p, RP!HeapOK(ts, ns, p), RP!Loose(bs, ts, ns, p),
           NEW b \in Block, b \notin p
    PROVE  RP!HeapOK(ts, ns, p \cup {b}) /\ RP!Loose(bs \cup {b}, ts, ns, p \cup {b})
<1>1. p \cup {b} \in SUBSET Block /\ p \subseteq p \cup {b} /\ (p \cup {b}) \ p = {b}
  BY DEF RP!HeapOK
<1>2. RP!HeapOK(ts, ns, p \cup {b}) /\ RP!Loose((p \cup {b}) \ p, ts, ns, p \cup {b})
  BY <1>1, RP!GrowPool, RegistryAssumptions
<1>3. RP!Loose({b}, ts, ns, p \cup {b})
  BY <1>1, <1>2
<1> QED BY <1>2, <1>3 DEF RP!Loose

(* A loose block may be given back. *)
LEMMA LooseFree ==
    ASSUME NEW bs, NEW ts, NEW ns, NEW p, RP!HeapOK(ts, ns, p), RP!Loose(bs, ts, ns, p),
           NEW b \in bs
    PROVE  /\ b \in p /\ RP!HeapOK(ts, ns, p \ {b})
           /\ RP!Loose(bs \ {b}, ts, ns, p \ {b})
<1>1. b \in p /\ RP!Loose(bs \ {b}, ts, ns, p \ {b})
  BY DEF RP!Loose
<1>2. RP!HeapOK(ts, ns, p \ {b})
  BY DEF RP!HeapOK, RP!Loose, RP!Holds
<1> QED BY <1>1, <1>2

(* With one connection there is at most one transfer. *)
LEMMA OneTransfer ==
    ASSUME NEW s, Session = {s}
    PROVE  /\ ~Receiving(s) => Loading = {}
           /\ Receiving(s) => Loading = {ctx[s].buffer} \ ReservedBlocks
BY DEF Loading

(* The heap after a step that leaves the registry alone and after which    *)
(* the others hold no more. *)
LEMMA HeapSame ==
    ASSUME Heap, UNCHANGED <<pool, tables, nodes>>, Others' \subseteq Others,
           fault' = "none" => fault = "none",
           (images \cap (ReservedBlocks \cup Loading))' = {}
    PROVE  Heap'
<1>1. RP!Filled' <=> RP!Filled
  BY DEF RP!Filled, RP!NodesOf
<1>2. RP!Loose(Others', tables, nodes, pool)
  BY LooseLess DEF Heap
<1> QED BY <1>1, <1>2 DEF Heap

(* And after a registration. *)
LEMMA HeapRegistered ==
    ASSUME Types, Heap, UNCHANGED <<images, reserved, ctx>>, fault = "none",
           \/ \E m \in Module, x \in Export :
                R!MRRegisterMethod(m, x, pool, {}) \/ R!RegisterExport(m, x)
           \/ UNCHANGED <<pool, tables, nodes, cursor, fault>>
    PROVE  Heap' /\ cursor' = cursor /\ fault' \in {"none", "null_write"}
<1>1. Others' = Others /\ ReservedBlocks' = ReservedBlocks /\ Loading' = Loading
  BY DEF Others, ReservedBlocks, Loading, Receiving
<1>2. CASE UNCHANGED <<pool, tables, nodes, cursor, fault>>
  BY <1>1, <1>2, HeapSame DEF Heap
<1>3. ASSUME NEW m \in Module, NEW x \in Export,
             R!MRRegisterMethod(m, x, pool, {}) \/ R!RegisterExport(m, x)
      PROVE  /\ RP!HeapOK(tables', nodes', pool') /\ RP!Loose(Others, tables', nodes', pool')
             /\ fault' \in {"none", "null_write"} /\ (fault' = "none" => RP!Filled')
             /\ cursor' = cursor
  BY <1>3, RegisterEffect, RegisterExportEffect DEF Heap
<1>4. CASE \E m \in Module, x \in Export :
                R!MRRegisterMethod(m, x, pool, {}) \/ R!RegisterExport(m, x)
  BY <1>1, <1>3, <1>4 DEF Heap
<1> QED BY <1>2, <1>4
-----------------------------------------------------------------------------
(* Start-up, and "export": registrations only. *)
LEMMA DXTMainInv == ASSUME IInv, DXTMain PROVE IInv'
<1> DEFINE r == Head(todo)
<1>1. /\ todo # <<>> /\ fault = "none" /\ todo' \in {<<>>, Tail(todo)}
      /\ UNCHANGED <<raw_image_size, relocation_needed, ctx, images, reserved, parsed>>
  BY DEF DXTMain, LinkLoadedModules, store
<1>2. r \in Registration /\ todo' \in Seq(Registration)
  BY <1>1, HeadTailProperties, EmptySeq DEF IInv, Types
<1>3. \/ R!MRRegisterMethod(r.module, r.export, pool, {})
      \/ R!RegisterExport(r.module, r.export)
      \/ UNCHANGED <<pool, tables, nodes, cursor, fault>>
  BY DEF DXTMain, LinkLoadedModules, R!RegisterExportNoMemory
<1> HIDE DEF r
<1>4. Heap' /\ cursor' = cursor /\ fault' \in {"none", "null_write"}
  BY <1>1, <1>2, <1>3, HeapRegistered DEF IInv, Registration
<1>5. Types'
  BY <1>1, <1>2, <1>4 DEF IInv, Types
<1>6. BoundsInv' /\ ImageIntact'
  BY <1>1, BoundsSame DEF IInv, ImageIntact
<1>7. \A s \in Session : Receiving(s)' => Transfer(s)'
  BY <1>1, <1>4 DEF IInv, Receiving, Transfer, ReservedBlocks
<1> QED BY <1>4, <1>5, <1>6, <1>7 DEF IInv

LEMMA HandleRegisterModuleExportInv ==
    ASSUME IInv, NEW s \in Session, NEW r \in ToExport, HandleRegisterModuleExport(s, r)
    PROVE  IInv'
<1>1. /\ fault = "none" /\ parsed' = NothingParsed
      /\ UNCHANGED <<raw_image_size, relocation_needed, todo, ctx, images, reserved>>
  BY DEF HandleRegisterModuleExport, Running, store
<1>2. r.module \in Module /\ r.export \in Export
  BY ToExportAssumption
<1>3. \/ R!RegisterExport(r.module, r.export)
      \/ UNCHANGED <<pool, tables, nodes, cursor, fault>>
  BY DEF HandleRegisterModuleExport
<1>4. Heap' /\ cursor' = cursor /\ fault' \in {"none", "null_write"}
  BY <1>1, <1>2, <1>3, HeapRegistered DEF IInv
<1>5. Types' /\ BoundsInv' /\ ImageIntact'
  BY <1>1, <1>4, BoundsSame DEF IInv, Types, ImageIntact
<1>6. \A t \in Session : Receiving(t)' => Transfer(t)'
  BY <1>1, <1>4 DEF IInv, Receiving, Transfer, ReservedBlocks
<1> QED BY <1>4, <1>5, <1>6 DEF IInv

(* Steps after which no transfer is under way, and that leave the registry *)
(* as it is: hello, its lines, a transfer given up. *)
LEMMA QuietInv ==
    ASSUME IInv, BoundsInv', NEW s, Session = {s}, ~Receiving(s)',
           UNCHANGED <<pool, tables, nodes, images, reserved, todo, relocation_needed>>,
           fault' \in {fault, "null_read"}, parsed' \in {parsed, NothingParsed}
    PROVE  IInv'
<1>1. ReservedBlocks' = ReservedBlocks /\ Loading' = {}
  BY DEF ReservedBlocks, Loading
<1>2. Heap'
  <2>1. Others' \subseteq Others /\ (images \cap (ReservedBlocks \cup Loading))' = {}
    BY <1>1 DEF IInv, Heap, Others
  <2> QED BY <2>1, HeapSame DEF IInv
<1>3. Types' /\ ImageIntact'
  BY DEF IInv, Types, ImageIntact
<1> QED BY <1>2, <1>3 DEF IInv

LEMMA QuietSteps ==
    ASSUME IInv, BoundsInv', NEW s, Session = {s},
           HandleHello(s) \/ SendMethodAddresses(s) \/ ReceiveNothing(s) \/ Disconnect(s)
    PROVE  IInv'
<1>1. DOMAIN ctx = Session /\ s \in Session /\ DOMAIN ctx[s] = Fields
  BY DEF IInv, BoundsInv, Shapes
<1>2. CASE HandleHello(s)
  <2> DEFINE c == [ctx[s] EXCEPT !.handler = "SendMethodAddresses"]
  <2>1. ctx' = [ctx EXCEPT ![s] = c] /\ c.handler = "SendMethodAddresses"
    BY <1>1, <1>2 DEF HandleHello, Fields
  <2> HIDE DEF c
  <2>2. ~Receiving(s)'
    BY <1>1, <2>1 DEF Receiving
  <2>3. /\ UNCHANGED <<pool, tables, nodes, images, reserved, todo, relocation_needed>>
        /\ fault' \in {fault, "null_read"} /\ parsed' = NothingParsed
    BY <1>2 DEF HandleHello, store, R!MREnumerateRegistryBegin, R!Fault
  <2> QED BY <2>2, <2>3, QuietInv
<1>3. CASE SendMethodAddresses(s)
  <2>1. /\ UNCHANGED <<pool, tables, nodes, images, reserved, todo, relocation_needed, fault,
                       parsed>>
        /\ UNCHANGED ctx \/ ctx' = [ctx EXCEPT ![s] = NoContext]
        /\ ctx[s].handler = "SendMethodAddresses"
    BY <1>3 DEF SendMethodAddresses, SendingTo, store, R!MREnumerateRegistry,
                R!MREnumerateRegistryEnd
  <2>2. ~Receiving(s)'
    BY <1>1, <2>1, NewContexts DEF Receiving
  <2> QED BY <2>1, <2>2, QuietInv
<1>4. CASE ReceiveNothing(s) \/ Disconnect(s)
  <2>1. /\ UNCHANGED <<pool, tables, nodes, images, reserved, todo, relocation_needed, fault,
                       parsed>>
        /\ ctx' = [ctx EXCEPT ![s] = NoContext]
    BY <1>4 DEF ReceiveNothing, Disconnect, GivenUp, registry, store
  <2>2. ~Receiving(s)'
    BY <1>1, <2>1, NewContexts DEF Receiving
  <2> QED BY <2>1, <2>2, QuietInv
<1> QED BY <1>2, <1>3, <1>4 DEF HandleHello
-----------------------------------------------------------------------------
(* What a command that takes a fresh block leaves. *)
LEMMA HeapTaken ==
    ASSUME Heap, CanAlloc(pool), pool' = pool \cup {Alloc(pool)},
           UNCHANGED <<tables, nodes, images, fault>>,
           (ReservedBlocks \cup Loading)' \subseteq ReservedBlocks \cup Loading \cup {Alloc(pool)}
    PROVE  Heap'
<1> DEFINE b == Alloc(pool)
<1>1. b \in Block /\ b \notin pool
  BY AllocFresh
<1> HIDE DEF b
<1>2. /\ RP!HeapOK(tables, nodes, pool \cup {b})
      /\ RP!Loose(Others \cup {b}, tables, nodes, pool \cup {b})
  BY <1>1, LooseMore DEF Heap
<1>3. Others' \subseteq Others \cup {b}
  BY DEF Others, b
<1>4. images \subseteq pool
  BY DEF Heap, Others, RP!Loose
<1>5. (images \cap (ReservedBlocks \cup Loading))' = {}
  BY <1>1, <1>4 DEF Heap, b
<1>6. RP!Loose(Others', tables, nodes, pool \cup {b})
  BY <1>2, <1>3, LooseLess
<1>7. RP!Filled' <=> RP!Filled
  BY DEF RP!Filled, RP!NodesOf
<1> QED BY <1>2, <1>5, <1>6, <1>7 DEF Heap, b

LEMMA HandleDynamicLoadInv ==
    ASSUME IInv, BoundsInv', NEW s, Session = {s}, NEW size \in 0 .. MaxSize,
           HandleDynamicLoad(s, size)
    PROVE  IInv'
<1> DEFINE b == Alloc(pool)
           c == ToReceive(b, size, size)
<1>1. /\ ctx[s].handler = "none" /\ CanAlloc(pool) /\ pool' = pool \cup {b}
      /\ cursor'.export_ = b /\ raw_image_size' = size /\ relocation_needed' = TRUE
      /\ UNCHANGED ctx \/ ctx' = [ctx EXCEPT ![s] = c]
      /\ parsed' = NothingParsed
      /\ UNCHANGED <<tables, nodes, images, reserved, todo, fault>>
  BY DEF HandleDynamicLoad, registry
<1>2. c.buffer = b /\ c.offset = 0 /\ c.bytes_remaining = size /\ size \in Nat
  BY NewContexts, MaxSizeAssumption
<1>3. b \in Block /\ b \notin pool
  BY <1>1, AllocFresh
<1> HIDE DEF c
<1>4. DOMAIN ctx = Session /\ s \in Session
  BY DEF IInv, BoundsInv, Shapes
<1>5. ReservedBlocks' = ReservedBlocks /\ ReservedBlocks \subseteq pool
  BY <1>1 DEF ReservedBlocks, IInv, Heap, Others, RP!Loose
<1>6. Receiving(s)' => ctx'[s] = c
  BY <1>1, <1>4 DEF Receiving
<1>7. Loading' \subseteq {b}
  BY <1>2, <1>6 DEF Loading
<1>8. Heap'
  BY <1>1, <1>5, <1>7, HeapTaken DEF IInv
<1> HIDE DEF b
<1>9. Types' /\ ImageIntact'
  BY <1>1 DEF IInv, Types, ImageIntact
<1>10. Receiving(s)' => Transfer(s)'
  BY <1>1, <1>2, <1>3, <1>5, <1>6 DEF Transfer
<1> QED BY <1>8, <1>9, <1>10 DEF IInv

LEMMA HandleReserveInv ==
    ASSUME IInv, BoundsInv', NEW s, Session = {s}, NEW size, HandleReserve(s, size)
    PROVE  IInv'
<1> DEFINE b == Alloc(pool)
<1>1. /\ ctx[s].handler = "none" /\ CanAlloc(pool) /\ pool' = pool \cup {b}
      /\ reserved' = reserved \cup {[block |-> b, size |-> size]}
      /\ parsed' = NothingParsed
      /\ UNCHANGED <<tables, nodes, images, todo, relocation_needed, ctx, fault>>
  BY DEF HandleReserve, registry, store
<1> HIDE DEF b
<1>2. ReservedBlocks' = ReservedBlocks \cup {b}
  <2> DEFINE e == [block |-> b, size |-> size]
  <2>1. reserved' = reserved \cup {e} /\ e.block = b
    BY <1>1
  <2> HIDE DEF e
  <2> QED BY <2>1 DEF ReservedBlocks
<1>3. ~Receiving(s)' /\ Loading' = {}
  BY <1>1 DEF Receiving, Loading
<1>4. Heap'
  BY <1>1, <1>2, <1>3, HeapTaken DEF IInv, b
<1>5. Types' /\ ImageIntact'
  BY <1>1 DEF IInv, Types, ImageIntact
<1> QED BY <1>3, <1>4, <1>5 DEF IInv

LEMMA HandleInstallInv ==
    ASSUME IInv, BoundsInv', NEW s, Session = {s}, NEW r \in reserved, NEW length \in 0 .. r.size,
           NEW entrypoint, HandleInstall(s, r, length, entrypoint)
    PROVE  IInv'
<1> DEFINE c == ToReceive(r.block, length, r.size)
<1>1. /\ cursor'.module_ = r.block /\ cursor'.export_ = r.block
      /\ raw_image_size' = length /\ relocation_needed' = FALSE
      /\ ctx' = [ctx EXCEPT ![s] = c] /\ parsed' = NothingParsed
      /\ UNCHANGED <<pool, tables, nodes, images, reserved, todo, fault>>
  BY DEF HandleInstall, registry
<1>2. c.buffer = r.block /\ c.offset = 0 /\ c.bytes_remaining = length
  BY NewContexts
<1> HIDE DEF c
<1>3. ctx'[s] = c /\ length \in Nat
  BY <1>1 DEF IInv, BoundsInv, Shapes
<1>4. ReservedBlocks' = ReservedBlocks /\ r.block \in ReservedBlocks
  BY <1>1 DEF ReservedBlocks
<1>5. Loading' = {}
  BY <1>2, <1>3, <1>4 DEF Loading
<1>6. Heap'
  <2>1. Others' \subseteq Others /\ (images \cap (ReservedBlocks \cup Loading))' = {}
    BY <1>1, <1>4, <1>5 DEF IInv, Heap, Others
  <2> QED BY <1>1, <2>1, HeapSame DEF IInv
<1>7. Types' /\ ImageIntact'
  BY <1>1 DEF IInv, Types, ImageIntact
<1>8. Transfer(s)'
  BY <1>1, <1>2, <1>3, <1>4 DEF Transfer
<1> QED BY <1>6, <1>7, <1>8 DEF IInv
-----------------------------------------------------------------------------
(* What an entrypoint called with a pool p in which bs are loose leaves.   *)
LEMMA CallEffect ==
    ASSUME NEW p, NEW bs, RP!HeapOK(tables, nodes, p), RP!Loose(bs, tables, nodes, p),
           fault = "none", RP!Filled, CallDXTMain(p)
    PROVE  /\ RP!HeapOK(tables', nodes', pool') /\ RP!Loose(bs, tables', nodes', pool')
           /\ fault' \in {"none", "null_write"} /\ (fault' = "none" => RP!Filled')
<1>1. CASE pool' = p /\ UNCHANGED <<registry, cursor, fault>>
  BY <1>1 DEF registry, RP!Filled, RP!NodesOf
<1>2. ASSUME NEW r \in ImageStartup, R!MRRegisterMethod(r.module, r.export, p, {})
      PROVE  /\ RP!HeapOK(tables', nodes', pool') /\ RP!Loose(bs, tables', nodes', pool')
             /\ fault' \in {"none", "null_write"} /\ (fault' = "none" => RP!Filled')
  <2>1. r.module \in Module /\ r.export \in Export
    BY ImageStartupAssumption
  <2> QED BY <1>2, <2>1, RegisterEffect
<1> QED BY <1>1, <1>2 DEF CallDXTMain

(* The end of a transfer: the raw image of a load is given back, whether   *)
(* the load succeeds or not. *)
LEMMA CompleteEffect ==
    ASSUME IInv, NEW s, Session = {s}, Receiving(s), fault = "none", NEW received,
           received = raw_image_size, UNCHANGED reserved,
           ReceiveImageDataComplete(s, received)
    PROVE  /\ RP!HeapOK(tables', nodes', pool')
           /\ RP!Loose(images' \cup ReservedBlocks, tables', nodes', pool')
           /\ images' \cap ReservedBlocks = {}
           /\ fault' \in {"none", "null_write", "null_read"} /\ (fault' = "none" => RP!Filled')
           /\ ImageIntact'
<1> DEFINE b == ctx[s].buffer
           raw == BlockAt(cursor.export_)
           Parsed == parsed' = [raw |-> b, own |-> b, size |-> raw_image_size,
                                received |-> received]
<1>1. s \in Session /\ Transfer(s) /\ b \in Block
  BY DEF IInv, BoundsInv, InBounds
<1>2. raw = b /\ raw # 0
  <2>1. DOMAIN nodes \subseteq Nat
    BY LenProperties DEF IInv, Heap, RP!HeapOK
  <2> QED BY <1>1, <2>1, BlockAssumption DEF BlockAt, Transfer
<1>3. /\ RP!HeapOK(tables, nodes, pool) /\ RP!Filled /\ RP!Loose(Others, tables, nodes, pool)
      /\ images \cap (ReservedBlocks \cup Loading) = {}
      /\ RP!Loose(images \cup ReservedBlocks, tables, nodes, pool)
  BY LooseLess DEF IInv, Heap, Others
<1>4. relocation_needed => b \in Loading /\ b \notin ReservedBlocks
  BY <1>1 DEF Transfer, Loading
<1>5. ~relocation_needed => cursor.module_ = b /\ b \in ReservedBlocks
  BY <1>1 DEF Transfer
<1> HIDE DEF raw
<1> HIDE DEF b
<1>6. CASE ~relocation_needed
  <2>1. Parsed /\ CallDXTMain(pool) /\ UNCHANGED images
    BY <1>5, <1>6 DEF ReceiveImageDataComplete, b
  <2>2. /\ RP!HeapOK(tables', nodes', pool')
        /\ RP!Loose(images \cup ReservedBlocks, tables', nodes', pool')
        /\ fault' \in {"none", "null_write"} /\ (fault' = "none" => RP!Filled')
    BY <1>3, <2>1, CallEffect
  <2>3. ImageIntact'
    BY <2>1 DEF ImageIntact
  <2> QED BY <1>3, <2>1, <2>2, <2>3
<1>7. CASE relocation_needed
  <2>1. Parsed /\ (LoadFails(b) \/ LoadSucceeds(b))
    BY <1>2, <1>7 DEF ReceiveImageDataComplete, b, raw
  <2>2. b \in Others /\ b \notin images \cup ReservedBlocks
    BY <1>3, <1>4, <1>7 DEF Others
  <2>3. ImageIntact'
    BY <1>1, <2>1 DEF ImageIntact
  <2>4. CASE LoadFails(b)
    <3>1. /\ b \in pool /\ RP!HeapOK(tables, nodes, pool \ {b})
          /\ RP!Loose(Others \ {b}, tables, nodes, pool \ {b})
      BY <1>3, <2>2, LooseFree
    <3>2. RP!Loose(images \cup ReservedBlocks, tables, nodes, pool \ {b})
      BY <2>2, <3>1, LooseLess DEF Others
    <3>3. pool' = pool \ {b} /\ UNCHANGED <<tables, nodes, fault, images>>
      BY <2>4, <3>1 DEF LoadFails, MayFree, Free, registry
    <3>4. RP!Filled'
      BY <1>3, <3>3 DEF RP!Filled, RP!NodesOf
    <3>5. /\ RP!HeapOK(tables', nodes', pool')
          /\ RP!Loose(images' \cup ReservedBlocks, tables', nodes', pool')
          /\ images' \cap ReservedBlocks = {} /\ fault' = "none"
      BY <1>3, <3>1, <3>2, <3>3
    <3> QED BY <2>3, <3>4, <3>5
  <2>5. CASE LoadSucceeds(b)
    <3> DEFINE image == Alloc(pool)
               p == (pool \cup {image}) \ {b}
    <3>1. /\ image \in Block /\ image \notin pool
          /\ images' = images \cup {image} /\ CallDXTMain(Free(pool, {b}) \cup {image})
      BY <2>5, AllocFresh DEF LoadSucceeds
    <3> HIDE DEF image
    <3>2. b \in pool /\ b # image /\ images \cup ReservedBlocks \subseteq pool
      BY <1>3, <2>2, <3>1 DEF RP!Loose
    <3>3. /\ RP!HeapOK(tables, nodes, pool \cup {image})
          /\ RP!Loose(Others \cup {image}, tables, nodes, pool \cup {image})
      BY <1>3, <3>1, LooseMore
    <3>4. RP!HeapOK(tables, nodes, p) /\ RP!Loose((Others \cup {image}) \ {b}, tables, nodes, p)
      BY <2>2, <3>3, LooseFree
    <3>5. RP!Loose(images' \cup ReservedBlocks, tables, nodes, p)
      <4>1. images' \cup ReservedBlocks \subseteq (Others \cup {image}) \ {b}
        BY <2>2, <3>1, <3>2 DEF Others
      <4> HIDE DEF p
      <4> QED BY <3>4, <4>1, LooseLess
    <3>6. CallDXTMain(p)
      <4>1. Free(pool, {b}) \cup {image} = p
        BY <3>2 DEF Free
      <4> HIDE DEF p
      <4> QED BY <3>1, <4>1
    <3>7. images' \cap ReservedBlocks = {}
      BY <1>3, <3>1, <3>2
    <3> HIDE DEF p
    <3>8. /\ RP!HeapOK(tables', nodes', pool')
          /\ RP!Loose(images' \cup ReservedBlocks, tables', nodes', pool')
          /\ fault' \in {"none", "null_write"} /\ (fault' = "none" => RP!Filled')
      <4> DEFINE bs == images' \cup ReservedBlocks
      <4>1. RP!Loose(bs, tables, nodes, p)
        BY <3>5
      <4> HIDE DEF bs
      <4>2. RP!Loose(bs, tables', nodes', pool')
        BY <1>3, <3>4, <3>6, <4>1, CallEffect
      <4>3. /\ RP!HeapOK(tables', nodes', pool')
            /\ fault' \in {"none", "null_write"} /\ (fault' = "none" => RP!Filled')
        BY <1>3, <3>4, <3>6, <4>1, CallEffect
      <4> QED BY <4>2, <4>3 DEF bs
    <3> QED BY <2>3, <3>7, <3>8
  <2> QED BY <2>1, <2>4, <2>5
<1> QED BY <1>6, <1>7

LEMMA ReceiveImageDataInv ==
    ASSUME IInv, BoundsInv', NEW s, Session = {s}, NEW n \in 1 .. MaxSize, ReceiveImageData(s, n)
    PROVE  IInv'
<1> DEFINE c == Advance(ctx[s], n)
<1>1. /\ fault = "none" /\ todo = <<>> /\ Receiving(s) /\ n <= ctx[s].buffer_size
      /\ UNCHANGED <<raw_image_size, relocation_needed, todo, reserved>>
  BY DEF ReceiveImageData, Running, store
<1>2. s \in Session /\ Transfer(s) /\ InBounds(s) /\ DOMAIN ctx = Session /\ n \in Nat
  BY <1>1, MaxSizeAssumption DEF IInv, BoundsInv, Shapes
<1>3. /\ c.handler = "ReceiveImageData" /\ c.buffer = ctx[s].buffer
      /\ c.offset = ctx[s].offset + n /\ c.bytes_remaining = ctx[s].bytes_remaining - n
  BY <1>1, <1>2, AdvanceKeeps DEF IInv
<1>4. c.offset + c.bytes_remaining = raw_image_size
  BY <1>2, <1>3 DEF Transfer, InBounds
<1>5. c.offset \in Nat
  BY <1>2, <1>3 DEF InBounds
<1>6. ReservedBlocks' = ReservedBlocks
  BY <1>1 DEF ReservedBlocks
<1>7. CASE /\ ctx' = [ctx EXCEPT ![s] = c]
           /\ UNCHANGED <<pool, registry, fault, cursor, images, parsed>>
  <2> HIDE DEF c
  <2>1. ctx'[s] = c /\ UNCHANGED <<pool, tables, nodes, fault, cursor, images, parsed>>
    BY <1>2, <1>7 DEF registry
  <2>2. Receiving(s)' /\ Transfer(s)'
    BY <1>1, <1>2, <1>3, <1>4, <1>6, <2>1 DEF Receiving, Transfer
  <2>3. Loading' = Loading
    BY <1>1, <1>3, <1>6, <2>1, <2>2 DEF Loading
  <2>4. Heap'
    BY <1>1, <1>6, <2>1, <2>3, HeapSame DEF IInv, Heap, Others
  <2>5. Types' /\ ImageIntact'
    BY <1>1, <2>1 DEF IInv, Types, ImageIntact
  <2> QED BY <2>2, <2>4, <2>5 DEF IInv
<1>8. CASE /\ c.bytes_remaining = 0 /\ ctx' = [ctx EXCEPT ![s] = NoContext]
           /\ ReceiveImageDataComplete(s, c.offset)
  <2> HIDE DEF c
  <2>1. ~Receiving(s)'
    BY <1>2, <1>8, NewContexts DEF Receiving
  <2>2. Loading' = {}
    BY <2>1 DEF Loading
  <2>3. c.offset = raw_image_size
    BY <1>4, <1>5, <1>8
  <2>4. /\ RP!HeapOK(tables', nodes', pool')
        /\ RP!Loose(images' \cup ReservedBlocks, tables', nodes', pool')
        /\ images' \cap ReservedBlocks = {}
        /\ fault' \in {"none", "null_write", "null_read"} /\ (fault' = "none" => RP!Filled')
        /\ ImageIntact'
    BY <1>1, <1>8, <2>3, CompleteEffect
  <2>5. Heap'
    BY <1>6, <2>2, <2>4 DEF Heap, Others
  <2>6. Types'
    BY <1>1, <2>4 DEF IInv, Types
  <2> QED BY <2>1, <2>4, <2>5, <2>6 DEF IInv
<1> QED BY <1>7, <1>8 DEF ReceiveImageData
-----------------------------------------------------------------------------
LEMMA InitInv == ASSUME Init PROVE IInv
<1>1. BoundsInv
  BY NewContexts DEF Init, BoundsInv, Shapes, Receiving
<1>2. \A s \in Session : ~Receiving(s)
  BY NewContexts DEF Init, Receiving
<1>3. Loading = {} /\ ReservedBlocks = {} /\ Others = {}
  BY <1>2 DEF Init, Loading, ReservedBlocks, Others
<1>4. pool = {} /\ tables = <<>> /\ nodes = <<>> /\ fault = "none"
  BY DEF Init, R!Init
<1>5. RP!HeapOK(tables, nodes, pool) /\ RP!Filled
  BY <1>4, EmptySeq DEF RP!HeapOK, RP!Filled
<1>6. Heap
  BY <1>3, <1>4, <1>5 DEF Heap, RP!Loose, Init
<1>7. Types /\ ImageIntact
  BY <1>4, StartupAssumption DEF Init, Types, Registration, ImageIntact
<1> QED BY <1>1, <1>2, <1>6, <1>7 DEF IInv

(* The invariant holds in every state of a loader with one connection.     *)
THEOREM OneConnectionInvariant ==
    ASSUME OneConnection
    PROVE  Spec => []IInv
<1>1. Init => IInv
  BY InitInv
<1>2. IInv /\ [Next]_vars => IInv'
  <2> SUFFICES ASSUME IInv, [Next]_vars PROVE IInv'
    OBVIOUS
  <2>1. PICK s : Session = {s}
    BY DEF OneConnection
  <2>2. BoundsInv'
    BY BoundsNext DEF IInv
  <2>3. CASE UNCHANGED vars
    <3>1. UNCHANGED <<pool, tables, nodes, cursor, fault, raw_image_size, relocation_needed, todo,
                      ctx, images, reserved, parsed>>
      BY <2>3 DEF vars, store
    <3>2. Others' = Others /\ ReservedBlocks' = ReservedBlocks /\ Loading' = Loading
      BY <3>1 DEF Others, ReservedBlocks, Loading, Receiving
    <3>3. Heap'
      BY <3>1, <3>2, HeapSame DEF IInv, Heap
    <3>4. Types' /\ ImageIntact'
      BY <3>1 DEF IInv, Types, ImageIntact
    <3>5. \A t \in Session : Receiving(t)' => Transfer(t)'
      BY <3>1, <3>2 DEF IInv, Receiving, Transfer
    <3> QED BY <2>2, <3>3, <3>4, <3>5 DEF IInv
  <2>4. CASE DXTMain
    BY <2>4, DXTMainInv
  <2>5. CASE HandleHello(s) \/ SendMethodAddresses(s) \/ ReceiveNothing(s) \/ Disconnect(s)
    BY <2>1, <2>2, <2>5, QuietSteps
  <2>6. ASSUME NEW size \in 0 .. MaxSize, HandleDynamicLoad(s, size) \/ HandleReserve(s, size)
        PROVE  IInv'
    BY <2>1, <2>2, <2>6, HandleDynamicLoadInv, HandleReserveInv
  <2>7. ASSUME NEW r \in reserved, NEW length \in 0 .. r.size, NEW entrypoint \in -1 .. length,
               HandleInstall(s, r, length, entrypoint)
        PROVE  IInv'
    BY <2>1, <2>2, <2>7, HandleInstallInv
  <2>8. ASSUME NEW r \in ToExport, HandleRegisterModuleExport(s, r)
        PROVE  IInv'
    BY <2>1, <2>8, HandleRegisterModuleExportInv
  <2>9. ASSUME NEW n \in 1 .. MaxSize, ReceiveImageData(s, n)
        PROVE  IInv'
    BY <2>1, <2>2, <2>9, ReceiveImageDataInv
  <2> QED BY <2>1, <2>3, <2>4, <2>5, <2>6, <2>7, <2>8, <2>9 DEF Next
<1> QED BY <1>1, <1>2, PTL DEF Spec

(* With one connection, the registry, the loaded images, the blocks of     *)
(* "reserve" and the buffer of the running transfer are live blocks and    *)
(* apart, and no block is freed wrongly and no entrypoint called outside   *)
(* what was reserved, through any loads, installs and registrations.       *)
THEOREM OneConnectionMemorySafe ==
    ASSUME OneConnection
    PROVE  Spec => []MemorySafe
<1>1. IInv => MemorySafe
  <2> SUFFICES ASSUME IInv PROVE MemorySafe
    OBVIOUS
  <2>1. RP!Exclusive /\ RP!Owned \subseteq pool
    BY RP!HeapOwned, RegistryAssumptions DEF IInv, Heap
  <2>2. RP!Owned \cap Others = {} /\ Others \subseteq pool
    BY DEF IInv, Heap, RP!Loose, RP!Owned, RP!Owners
  <2> QED BY <2>1, <2>2, SameOwned DEF IInv, Types, Heap, Others, MemorySafe
<1> QED BY <1>1, OneConnectionInvariant, PTL

(* With one connection, HandleDynamicLoad's promise holds: what            *)
(* ReceiveImageDataComplete takes from context_store is the block received *)
(* for that transfer, all of it, at the size announced.  dxtmain_two shows *)
(* that it needs the one connection. *)
THEOREM OneConnectionImageIntact ==
    ASSUME OneConnection
    PROVE  Spec => []ImageIntact
<1>1. IInv => ImageIntact
  BY DEF IInv
<1> QED BY <1>1, OneConnectionInvariant, PTL
-----------------------------------------------------------------------------
(* Every allocated block belongs to the registry or to the others.         *)
AllHeld == \A b \in pool : RP!Held(tables, nodes, b) \/ b \in Others

LeakInv == ~aborted /\ fault = "none" => AllHeld

(* A registration called with pool q and the strings ss, after which the   *)
(* others hold what the registry does not hold of q. *)
LEMMA TrackedHeld ==
    ASSUME NEW q, NEW ss, RP!Tracked(q, ss), ret' = "refused" => ss = {},
           \A b \in q \ ss : RP!Held(tables, nodes, b) \/ b \in Others'
    PROVE  AllHeld'
<1>1. CASE /\ ret' = "registered"
           /\ \A b \in pool' : RP!Held(tables', nodes', b)
                            \/ (b \in q \ ss /\ ~RP!Held(tables, nodes, b))
  BY <1>1 DEF AllHeld
<1>2. CASE ret' = "refused" /\ UNCHANGED <<tables, nodes>> /\ pool' = q
  BY <1>2 DEF AllHeld
<1> QED BY <1>1, <1>2 DEF RP!Tracked

(* The same of a step that leaves the registry alone. *)
LEMMA QuietHeld ==
    ASSUME AllHeld, UNCHANGED <<tables, nodes>>, pool' \subseteq pool \cup Others',
           Others \cap pool' \subseteq Others'
    PROVE  AllHeld'
BY DEF AllHeld

LEMMA RegisterHeld ==
    ASSUME Heap, AllHeld, fault' = "none", Others' = Others, NEW m \in Module, NEW x \in Export,
           \/ R!MRRegisterMethod(m, x, pool, {})
           \/ R!RegisterExport(m, x) /\ ret' # "refused"
    PROVE  AllHeld'
<1>1. RP!HeapOK(tables, nodes, pool)
  BY DEF Heap
<1>2. CASE R!MRRegisterMethod(m, x, pool, {})
  <2>1. RP!Tracked(pool, {})
    BY <1>1, <1>2, SameRegister, RP!RegisterTracks, RegistryAssumptions
  <2> QED BY <2>1, TrackedHeld DEF AllHeld
<1>3. CASE R!RegisterExport(m, x) /\ ret' # "refused"
  <2>1. PICK a, c : \E ss \in SUBSET {a, c} : ss \cap pool = {} /\ RP!Tracked(pool \cup ss, ss)
    BY <1>1, <1>3, SameRegisterExport, RP!RegisterExportTracks, RegistryAssumptions
  <2>2. PICK ss \in SUBSET {a, c} : ss \cap pool = {} /\ RP!Tracked(pool \cup ss, ss)
    BY <2>1
  <2>3. \A b \in (pool \cup ss) \ ss : RP!Held(tables, nodes, b) \/ b \in Others'
    BY DEF AllHeld
  <2> QED BY <1>3, <2>2, <2>3, TrackedHeld
<1> QED BY <1>2, <1>3

(* An entrypoint called with a pool p registers what it takes. *)
LEMMA CallHeld ==
    ASSUME Heap, fault' = "none", NEW p, CallDXTMain(p),
           \A b \in p : RP!Held(tables, nodes, b) \/ b \in Others'
    PROVE  AllHeld'
<1>1. CASE pool' = p /\ UNCHANGED <<registry, cursor, fault>>
  BY <1>1 DEF AllHeld, registry
<1>2. ASSUME NEW r \in ImageStartup, R!MRRegisterMethod(r.module, r.export, p, {})
      PROVE  AllHeld'
  <2>1. r.module \in Module /\ r.export \in Export
    BY ImageStartupAssumption
  <2>2. RP!Tracked(p, {})
    BY <1>2, <2>1, SameRegister, RP!RegisterTracks, RegistryAssumptions DEF Heap
  <2> QED BY <2>2, TrackedHeld
<1> QED BY <1>1, <1>2 DEF CallDXTMain
-----------------------------------------------------------------------------
LEMMA DXTMainHeld ==
    ASSUME IInv, AllHeld, ~aborted', fault' = "none", DXTMain
    PROVE  AllHeld'
<1> DEFINE r == Head(todo)
<1>1. r.module \in Module /\ r.export \in Export
  <2>1. todo # <<>>
    BY DEF DXTMain
  <2>2. r \in Registration
    BY <2>1, HeadTailProperties DEF IInv, Types
  <2> HIDE DEF r
  <2> QED BY <2>2 DEF Registration
<1>2. UNCHANGED <<images, reserved, ctx>>
  BY DEF DXTMain
<1>3. Others' = Others
  BY <1>2 DEF Others, ReservedBlocks, Loading, Receiving
<1>4. \/ R!MRRegisterMethod(r.module, r.export, pool, {})
      \/ R!RegisterExport(r.module, r.export) /\ ret' # "refused"
  BY DEF DXTMain, LinkLoadedModules, R!RegisterExportNoMemory
<1> HIDE DEF r
<1> QED BY <1>1, <1>3, <1>4, RegisterHeld DEF IInv

LEMMA HandleRegisterModuleExportHeld ==
    ASSUME IInv, AllHeld, fault' = "none", NEW s \in Session, NEW r \in ToExport,
           HandleRegisterModuleExport(s, r)
    PROVE  AllHeld'
<1>1. UNCHANGED <<images, reserved, ctx>>
  BY DEF HandleRegisterModuleExport
<1>2. Others' = Others
  BY <1>1 DEF Others, ReservedBlocks, Loading, Receiving
<1>3. CASE R!RegisterExport(r.module, r.export) /\ ret' # "refused"
  BY <1>2, <1>3, RegisterHeld, ToExportAssumption DEF IInv
<1>4. CASE UNCHANGED <<pool, tables, nodes>>
  BY <1>2, <1>4, QuietHeld
<1> QED BY <1>3, <1>4 DEF HandleRegisterModuleExport

(* Hello, its lines, and a transfer given up: at most a reserved block is  *)
(* let go. *)
LEMMA QuietStepsHeld ==
    ASSUME IInv, AllHeld, ~aborted', NEW s, Session = {s},
           HandleHello(s) \/ SendMethodAddresses(s) \/ ReceiveNothing(s) \/ Disconnect(s)
    PROVE  AllHeld'
<1>1. UNCHANGED <<pool, tables, nodes, images, reserved>>
  BY DEF HandleHello, SendMethodAddresses, ReceiveNothing, Disconnect, registry,
         R!MREnumerateRegistryBegin, R!MREnumerateRegistry, R!MREnumerateRegistryEnd
<1>2. Loading = {}
  <2>1. CASE HandleHello(s) \/ SendMethodAddresses(s)
    BY <2>1, OneTransfer DEF HandleHello, SendMethodAddresses, SendingTo, Receiving
  <2>2. CASE ReceiveNothing(s) \/ Disconnect(s)
    <3>1. ~(Receiving(s) /\ ctx[s].buffer \notin ReservedBlocks)
      BY <2>2 DEF ReceiveNothing, Disconnect, GivenUp
    <3> QED BY <3>1, OneTransfer
  <2> QED BY <2>1, <2>2
<1>3. Others \subseteq Others'
  BY <1>1, <1>2 DEF Others, ReservedBlocks
<1> QED BY <1>1, <1>3, QuietHeld

LEMMA CommandsHeld ==
    ASSUME IInv, AllHeld, ~aborted', NEW s, Session = {s},
           \/ \E size \in 0 .. MaxSize : HandleDynamicLoad(s, size) \/ HandleReserve(s, size)
           \/ \E r \in reserved : \E length \in 0 .. r.size : \E entrypoint \in -1 .. length :
                HandleInstall(s, r, length, entrypoint)
    PROVE  AllHeld'
<1> DEFINE b == Alloc(pool)
<1>1. ctx[s].handler = "none" /\ UNCHANGED <<tables, nodes, images>>
  BY DEF HandleDynamicLoad, HandleReserve, HandleInstall, registry
<1>2. Loading = {} /\ DOMAIN ctx = Session /\ s \in Session
  BY <1>1, OneTransfer DEF Receiving, IInv, BoundsInv, Shapes
<1>3. ASSUME NEW size \in 0 .. MaxSize, HandleDynamicLoad(s, size)
      PROVE  AllHeld'
  <2> DEFINE c == ToReceive(b, size, size)
  <2>1. /\ CanAlloc(pool) /\ pool' = pool \cup {b} /\ UNCHANGED reserved
        /\ ctx' = [ctx EXCEPT ![s] = c]
    BY <1>3 DEF HandleDynamicLoad
  <2>2. c.handler = "ReceiveImageData" /\ c.buffer = b
    BY NewContexts
  <2>3. b \notin pool /\ ReservedBlocks \subseteq pool /\ ReservedBlocks' = ReservedBlocks
    BY <2>1, AllocFresh DEF ReservedBlocks, IInv, Heap, Others, RP!Loose
  <2> HIDE DEF b, c
  <2>4. Loading' = {b}
    BY <1>2, <2>1, <2>2, <2>3 DEF Loading, Receiving
  <2>5. pool' \subseteq pool \cup Others' /\ Others \subseteq Others'
    BY <1>1, <1>2, <2>1, <2>3, <2>4 DEF Others
  <2> QED BY <1>1, <2>5, QuietHeld
<1>4. ASSUME NEW size \in 0 .. MaxSize, HandleReserve(s, size)
      PROVE  AllHeld'
  <2> DEFINE e == [block |-> b, size |-> size]
  <2>1. pool' = pool \cup {b} /\ reserved' = reserved \cup {e} /\ e.block = b
    BY <1>4 DEF HandleReserve
  <2> HIDE DEF b, e
  <2>2. ReservedBlocks' = ReservedBlocks \cup {b}
    BY <2>1 DEF ReservedBlocks
  <2>3. pool' \subseteq pool \cup Others' /\ Others \subseteq Others'
    BY <1>1, <1>2, <2>1, <2>2 DEF Others
  <2> QED BY <1>1, <2>3, QuietHeld
<1>5. ASSUME NEW r \in reserved, NEW length, NEW entrypoint,
             HandleInstall(s, r, length, entrypoint)
      PROVE  AllHeld'
  <2>1. UNCHANGED <<pool, reserved>>
    BY <1>5 DEF HandleInstall
  <2>2. Others \subseteq Others'
    BY <1>1, <1>2, <2>1 DEF Others, ReservedBlocks
  <2> QED BY <1>1, <2>1, <2>2, QuietHeld
<1> QED BY <1>3, <1>4, <1>5

(* The end of a transfer: the raw image of a load is the one block that is *)
(* given back. *)
LEMMA CompleteHeld ==
    ASSUME IInv, AllHeld, fault' = "none", NEW s, Session = {s}, Receiving(s), UNCHANGED reserved,
           ~Receiving(s)', NEW received, ReceiveImageDataComplete(s, received)
    PROVE  AllHeld'
<1> DEFINE b == ctx[s].buffer
           raw == BlockAt(cursor.export_)
<1>1. s \in Session /\ Transfer(s) /\ b \in Block
  BY DEF IInv, BoundsInv, InBounds
<1>2. raw = b
  <2>1. DOMAIN nodes \subseteq Nat
    BY LenProperties DEF IInv, Heap, RP!HeapOK
  <2> QED BY <1>1, <2>1, BlockAssumption DEF BlockAt, Transfer
<1>3. Loading = {b} \ ReservedBlocks /\ Loading' = {} /\ ReservedBlocks' = ReservedBlocks
  <2>1. Loading = {b} \ ReservedBlocks
    BY OneTransfer
  <2>2. Loading' = {}
    BY DEF Loading
  <2> QED BY <2>1, <2>2 DEF ReservedBlocks
<1> HIDE DEF raw, b
<1>4. CASE ~relocation_needed
  <2>1. b \in ReservedBlocks /\ cursor.module_ = b
    BY <1>1, <1>4 DEF Transfer, b
  <2>2. CallDXTMain(pool) /\ UNCHANGED images
    BY <1>4, <2>1 DEF ReceiveImageDataComplete
  <2>3. \A d \in pool : RP!Held(tables, nodes, d) \/ d \in Others'
    BY <1>3, <2>1, <2>2 DEF AllHeld, Others
  <2> QED BY <2>2, <2>3, CallHeld DEF IInv
<1>5. CASE relocation_needed
  <2>1. LoadFails(b) \/ LoadSucceeds(b)
    <3>1. fault = "none" /\ raw # 0 => LoadFails(b) \/ LoadSucceeds(b)
      BY <1>2, <1>5 DEF ReceiveImageDataComplete, raw
    <3>2. raw = 0 => fault' = "null_read"
      BY <1>5 DEF ReceiveImageDataComplete, raw
    <3> QED BY <1>2, <1>5, <3>2 DEF ReceiveImageDataComplete, raw
  <2>2. CASE LoadFails(b)
    <3>1. pool' = pool \ {b} /\ UNCHANGED <<tables, nodes, images>>
      BY <2>2 DEF LoadFails, Free, registry
    <3>2. Others \cap pool' \subseteq Others'
      BY <1>3, <3>1 DEF Others
    <3> QED BY <3>1, <3>2, QuietHeld
  <2>3. CASE LoadSucceeds(b)
    <3> DEFINE image == Alloc(pool)
               p == Free(pool, {b}) \cup {image}
    <3>1. images' = images \cup {image} /\ CallDXTMain(p)
      BY <2>3 DEF LoadSucceeds
    <3> HIDE DEF image
    <3>2. \A d \in p : RP!Held(tables, nodes, d) \/ d \in Others'
      BY <1>3, <3>1 DEF AllHeld, Others, Free
    <3> HIDE DEF p
    <3> QED BY <3>1, <3>2, CallHeld DEF IInv
  <2> QED BY <2>1, <2>2, <2>3
<1> QED BY <1>4, <1>5

LEMMA ReceiveImageDataHeld ==
    ASSUME IInv, AllHeld, fault' = "none", NEW s, Session = {s}, NEW n \in 1 .. MaxSize,
           ReceiveImageData(s, n)
    PROVE  AllHeld'
<1> DEFINE c == Advance(ctx[s], n)
<1>1. Receiving(s) /\ n <= ctx[s].buffer_size /\ UNCHANGED reserved
  BY DEF ReceiveImageData
<1>2. s \in Session /\ DOMAIN ctx = Session /\ n \in Nat
  BY MaxSizeAssumption DEF IInv, BoundsInv, Shapes
<1>3. CASE /\ ctx' = [ctx EXCEPT ![s] = c]
           /\ UNCHANGED <<pool, registry, fault, cursor, images, parsed>>
  <2>1. c.handler = "ReceiveImageData" /\ c.buffer = ctx[s].buffer
    BY <1>1, <1>2, AdvanceKeeps DEF IInv
  <2> HIDE DEF c
  <2>2. Loading' = Loading /\ ReservedBlocks' = ReservedBlocks
    BY <1>1, <1>2, <1>3, <2>1 DEF Loading, Receiving, ReservedBlocks
  <2>3. Others' = Others /\ UNCHANGED <<pool, tables, nodes>>
    BY <1>3, <2>2 DEF Others, registry
  <2> QED BY <2>3, QuietHeld
<1>4. CASE ctx' = [ctx EXCEPT ![s] = NoContext] /\ ReceiveImageDataComplete(s, c.offset)
  <2>1. ~Receiving(s)'
    BY <1>2, <1>4, NewContexts DEF Receiving
  <2> HIDE DEF c
  <2> QED BY <1>1, <1>4, <2>1, CompleteHeld
<1> QED BY <1>3, <1>4 DEF ReceiveImageData

(* A step that nothing is lost in comes after steps that lost nothing. *)
LEMMA LeakNext ==
    ASSUME OneConnection, IInv, LeakInv, [Next]_vars
    PROVE  LeakInv'
<1> SUFFICES ASSUME ~aborted', fault' = "none" PROVE AllHeld'
  BY DEF LeakInv
<1>1. PICK s : Session = {s}
  BY DEF OneConnection
<1>2. CASE UNCHANGED vars
  <2>1. UNCHANGED <<pool, tables, nodes, fault, aborted, images, reserved, ctx>>
    BY <1>2 DEF vars, registry
  <2>2. Others' = Others
    BY <2>1 DEF Others, ReservedBlocks, Loading, Receiving
  <2> QED BY <2>1, <2>2, QuietHeld DEF LeakInv
<1>3. CASE DXTMain
  <2>1. fault = "none" /\ ~aborted
    BY <1>3, Zenon DEF DXTMain, LinkLoadedModules
  <2> QED BY <1>3, <2>1, DXTMainHeld DEF LeakInv
<1>4. CASE HandleHello(s) \/ SendMethodAddresses(s) \/ ReceiveNothing(s) \/ Disconnect(s)
  <2>1. fault = "none"
    BY <1>4 DEF HandleHello, SendMethodAddresses, ReceiveNothing, Disconnect, Running
  <2>2. CASE HandleHello(s) \/ SendMethodAddresses(s)
    <3>1. aborted' = aborted
      BY <2>2 DEF HandleHello, SendMethodAddresses
    <3> QED BY <1>1, <1>4, <2>1, <3>1, QuietStepsHeld DEF LeakInv
  <2>3. CASE ReceiveNothing(s) \/ Disconnect(s)
    <3>1. ~aborted
      BY <2>3, Zenon DEF ReceiveNothing, Disconnect, GivenUp
    <3> QED BY <1>1, <1>4, <2>1, <3>1, QuietStepsHeld DEF LeakInv
  <2> QED BY <1>4, <2>2, <2>3
<1>5. CASE \/ \E size \in 0 .. MaxSize : HandleDynamicLoad(s, size) \/ HandleReserve(s, size)
           \/ \E r \in reserved : \E length \in 0 .. r.size : \E entrypoint \in -1 .. length :
                HandleInstall(s, r, length, entrypoint)
  <2>1. fault = "none" /\ ~aborted
    BY <1>5 DEF HandleDynamicLoad, HandleReserve, HandleInstall, Running
  <2> QED BY <1>1, <1>5, <2>1, CommandsHeld DEF LeakInv
<1>6. ASSUME NEW r \in ToExport, HandleRegisterModuleExport(s, r)
      PROVE  AllHeld'
  <2>1. fault = "none" /\ ~aborted
    BY <1>6, Zenon DEF HandleRegisterModuleExport, Running
  <2> QED BY <1>1, <1>6, <2>1, HandleRegisterModuleExportHeld DEF LeakInv
<1>7. ASSUME NEW n \in 1 .. MaxSize, ReceiveImageData(s, n)
      PROVE  AllHeld'
  <2>1. fault = "none" /\ ~aborted
    BY <1>7, Zenon DEF ReceiveImageData, Running
  <2> QED BY <1>1, <1>7, <2>1, ReceiveImageDataHeld DEF LeakInv
<1> QED BY <1>1, <1>2, <1>3, <1>4, <1>5, <1>6, <1>7 DEF Next

(* With one connection, a command that is refused, a load that fails and   *)
(* an install leave nothing behind: every allocated block is in the        *)
(* registry, an image, a reserved block or the buffer of the transfer,     *)
(* unless a transfer or a registration of DXTMain's own was given up.      *)
THEOREM OneConnectionNoLeak ==
    ASSUME OneConnection
    PROVE  Spec => []NoLeak
<1>1. Init => LeakInv
  BY DEF Init, R!Init, LeakInv, AllHeld
<1>2. IInv /\ LeakInv /\ [Next]_vars => LeakInv'
  BY LeakNext
<1>3. MemorySafe /\ LeakInv => NoLeak
  <2>1. \A b : RP!Held(tables, nodes, b) => b \in R!Owned
    BY RP!OwnedIsHeld, SameOwned, RegistryAssumptions
  <2> QED BY <2>1 DEF MemorySafe, LeakInv, AllHeld, Others, NoLeak
<1> QED BY <1>1, <1>2, <1>3, OneConnectionInvariant, OneConnectionMemorySafe, PTL DEF Spec
-----------------------------------------------------------------------------
(* A listing.                                                              *)
AllKeys == {RP!Key(nodes[i]) : i \in DOMAIN nodes}

(* While one is under way its cursor is in order, although the word it is  *)
(* kept in is also that of a transfer, and nothing is registered.          *)
HelloInv ==
    \A s \in Session : SendingTo(s) /\ fault = "none" =>
        /\ todo = <<>>
        /\ RP!ListingInv
        /\ listing.due = AllKeys

LEMMA SameListing ==
    /\ \A n : R!Key(n) = RP!Key(n)
    /\ R!MREnumerateRegistryBegin <=> RP!MREnumerateRegistryBegin
    /\ R!MREnumerateRegistry <=> RP!MREnumerateRegistry
    /\ R!MREnumerateRegistryEnd <=> RP!MREnumerateRegistryEnd
BY Zenon DEF R!Key, RP!Key, R!MREnumerateRegistryBegin, RP!MREnumerateRegistryBegin,
   R!MREnumerateRegistry, RP!MREnumerateRegistry, R!MREnumerateRegistryEnd,
   RP!MREnumerateRegistryEnd, R!First, RP!First, R!NodesOf, RP!NodesOf, R!Fault, RP!Fault,
   R!NextPosition, RP!NextPosition, R!AtEnd, RP!AtEnd

LEMMA KeysKept == ASSUME UNCHANGED <<tables, nodes>> PROVE AllKeys' = AllKeys
BY DEF AllKeys, RP!Key

(* Nothing is to be shown while no listing is under way. *)
LEMMA NotSending ==
    ASSUME NEW s, Session = {s}, ~SendingTo(s)'
    PROVE  HelloInv'
BY DEF HelloInv

LEMMA HandleHelloListing ==
    ASSUME IInv, NEW s, Session = {s}, HandleHello(s)
    PROVE  HelloInv'
<1> SUFFICES ASSUME fault' = "none"
             PROVE  todo' = <<>> /\ RP!ListingInv' /\ listing'.due = AllKeys'
  BY DEF HelloInv
<1>1. RP!MREnumerateRegistryBegin /\ todo' = <<>> /\ fault = "none"
  BY SameListing DEF HandleHello, Running
<1>2. tables # <<>>
  BY <1>1 DEF RP!MREnumerateRegistryBegin, RP!Fault
<1>3. RP!ListingInv'
  BY <1>1, <1>2, RP!ListingBegun, RegistryAssumptions DEF IInv, Heap
<1>4. listing'.due = AllKeys /\ UNCHANGED <<tables, nodes>>
  BY <1>1, <1>2 DEF RP!MREnumerateRegistryBegin, AllKeys
<1> QED BY <1>1, <1>3, <1>4, KeysKept

LEMMA SendMethodAddressesListing ==
    ASSUME IInv, HelloInv, NEW s, Session = {s}, SendMethodAddresses(s)
    PROVE  HelloInv'
<1>1. /\ fault = "none" /\ todo = <<>> /\ SendingTo(s) /\ UNCHANGED todo
      /\ DOMAIN ctx = Session /\ s \in Session
  BY DEF SendMethodAddresses, Running, IInv, BoundsInv, Shapes
<1>2. CASE ctx' = [ctx EXCEPT ![s] = NoContext]
  <2>1. ~SendingTo(s)'
    BY <1>1, <1>2, NewContexts DEF SendingTo
  <2> QED BY <2>1, NotSending
<1>3. CASE R!MREnumerateRegistry /\ UNCHANGED ctx
  <2>1. RP!MREnumerateRegistry
    BY <1>3, SameListing
  <2>2. RP!ListingInv /\ listing.due = AllKeys
    BY <1>1 DEF HelloInv
  <2>3. RP!ListingInv'
    BY <1>1, <2>1, <2>2, RP!ListingAdvances, RegistryAssumptions DEF IInv, Heap
  <2>4. listing'.due = listing.due /\ UNCHANGED <<tables, nodes>>
    BY <2>1, <2>2 DEF RP!MREnumerateRegistry, RP!ListingInv
  <2> QED BY <1>1, <2>2, <2>3, <2>4, KeysKept DEF HelloInv
<1> QED BY <1>2, <1>3 DEF SendMethodAddresses

LEMMA HelloNext ==
    ASSUME OneConnection, IInv, HelloInv, [Next]_vars
    PROVE  HelloInv'
<1>1. PICK s : Session = {s}
  BY DEF OneConnection
<1>2. DOMAIN ctx = Session /\ s \in Session
  BY <1>1 DEF IInv, BoundsInv, Shapes
<1>3. CASE UNCHANGED vars
  <2> SUFFICES ASSUME SendingTo(s)', fault' = "none"
               PROVE  todo' = <<>> /\ RP!ListingInv' /\ listing'.due = AllKeys'
    BY <1>1 DEF HelloInv
  <2>1. UNCHANGED <<pool, tables, nodes, cursor, listing, todo, ctx, fault>>
    BY <1>3 DEF vars, registry
  <2>2. todo = <<>> /\ RP!ListingInv /\ listing.due = AllKeys
    BY <1>2, <2>1 DEF HelloInv, SendingTo
  <2>3. RP!ListingInv'
    BY <2>1, <2>2, RP!ListingKept, RegistryAssumptions DEF IInv, Heap, RP!Extends
  <2> QED BY <2>1, <2>2, <2>3, KeysKept
<1>4. CASE DXTMain
  <2>1. ~SendingTo(s) /\ UNCHANGED ctx
    BY <1>2, <1>4 DEF DXTMain, HelloInv
  <2> QED BY <1>1, <2>1, NotSending DEF SendingTo
<1>5. CASE HandleHello(s) \/ SendMethodAddresses(s)
  BY <1>1, <1>5, HandleHelloListing, SendMethodAddressesListing
<1>6. CASE ReceiveNothing(s) \/ Disconnect(s)
  <2>1. ctx' = [ctx EXCEPT ![s] = NoContext]
    BY <1>6 DEF ReceiveNothing, Disconnect, GivenUp
  <2>2. ~SendingTo(s)'
    BY <1>2, <2>1, NewContexts DEF SendingTo
  <2> QED BY <1>1, <2>2, NotSending
<1>7. ASSUME ctx[s].handler = "none",
             UNCHANGED ctx \/ \E b, n, e : ctx' = [ctx EXCEPT ![s] = ToReceive(b, n, e)]
      PROVE  HelloInv'
  <2>1. ~SendingTo(s)'
    <3>1. CASE UNCHANGED ctx
      BY <1>7, <3>1 DEF SendingTo
    <3>2. ASSUME NEW b, NEW n, NEW e, ctx' = [ctx EXCEPT ![s] = ToReceive(b, n, e)]
          PROVE  ~SendingTo(s)'
      BY <1>2, <3>2, NewContexts DEF SendingTo
    <3> QED BY <1>7, <3>1, <3>2
  <2> QED BY <1>1, <2>1, NotSending
<1>8. ASSUME NEW size \in 0 .. MaxSize, HandleDynamicLoad(s, size) \/ HandleReserve(s, size)
      PROVE  HelloInv'
  <2>1. /\ ctx[s].handler = "none"
        /\ UNCHANGED ctx \/ ctx' = [ctx EXCEPT ![s] = ToReceive(Alloc(pool), size, size)]
    BY <1>8 DEF HandleDynamicLoad, HandleReserve
  <2> QED BY <1>7, <2>1
<1>9. ASSUME NEW r \in reserved, NEW length, NEW entrypoint, HandleInstall(s, r, length, entrypoint)
      PROVE  HelloInv'
  <2>1. ctx[s].handler = "none" /\ ctx' = [ctx EXCEPT ![s] = ToReceive(r.block, length, r.size)]
    BY <1>9 DEF HandleInstall
  <2> QED BY <1>7, <2>1
<1>10. ASSUME NEW r \in ToExport, HandleRegisterModuleExport(s, r)
       PROVE  HelloInv'
  <2>1. ctx[s].handler = "none" /\ UNCHANGED ctx
    BY <1>10 DEF HandleRegisterModuleExport
  <2> QED BY <1>7, <2>1
<1>11. ASSUME NEW n \in 1 .. MaxSize, ReceiveImageData(s, n)
       PROVE  HelloInv'
  <2> DEFINE c == Advance(ctx[s], n)
  <2>1. /\ Receiving(s) /\ n <= ctx[s].buffer_size /\ n \in Nat
        /\ ctx' = [ctx EXCEPT ![s] = c] \/ ctx' = [ctx EXCEPT ![s] = NoContext]
    BY <1>11, MaxSizeAssumption DEF ReceiveImageData
  <2>2. c.handler = "ReceiveImageData"
    BY <1>2, <2>1, AdvanceKeeps DEF IInv
  <2> HIDE DEF c
  <2>3. ~SendingTo(s)'
    BY <1>2, <2>1, <2>2, NewContexts DEF SendingTo
  <2> QED BY <1>1, <2>3, NotSending
<1> QED BY <1>1, <1>3, <1>4, <1>5, <1>6, <1>8, <1>9, <1>10, <1>11 DEF Next

(* Only SendMethodAddresses ends a listing. *)
LEMMA ListingEndsInSend ==
    ASSUME HelloInv, NEW s, Session = {s}, [Next]_vars, listing.phase = "open",
           listing'.phase = "ended"
    PROVE  SendMethodAddresses(s) /\ R!MREnumerateRegistryEnd
<1>1. listing' # listing
  OBVIOUS
<1>2. ASSUME NEW m, NEW x, NEW p, NEW ss, R!MRRegisterMethod(m, x, p, ss)
      PROVE  listing' = listing
  BY <1>2 DEF R!MRRegisterMethod
<1>3. ASSUME NEW m, NEW x, R!RegisterExport(m, x) \/ R!RegisterExportNoMemory(m, x)
      PROVE  listing' = listing
  <2>1. CASE R!RegisterExport(m, x)
    BY <2>1, <1>2, Zenon DEF R!RegisterExport
  <2>2. CASE R!RegisterExportNoMemory(m, x)
    BY <2>2 DEF R!RegisterExportNoMemory
  <2> QED BY <1>3, <2>1, <2>2
<1>4. ASSUME NEW p, CallDXTMain(p) PROVE listing' = listing
  BY <1>2, <1>4 DEF CallDXTMain, registry
<1>5. ~UNCHANGED vars
  BY <1>1 DEF vars, registry
<1>6. ~DXTMain
  BY <1>1, <1>2, <1>3 DEF DXTMain, LinkLoadedModules
<1>7. ~(ReceiveNothing(s) \/ Disconnect(s))
  BY <1>1 DEF ReceiveNothing, Disconnect, registry
<1>8. ~HandleHello(s)
  BY DEF HandleHello, R!MREnumerateRegistryBegin
<1>9. ~\E size \in 0 .. MaxSize : HandleDynamicLoad(s, size) \/ HandleReserve(s, size)
  BY <1>1 DEF HandleDynamicLoad, HandleReserve, registry
<1>10. ~\E r \in reserved : \E length \in 0 .. r.size : \E entrypoint \in -1 .. length :
            HandleInstall(s, r, length, entrypoint)
  BY <1>1 DEF HandleInstall, registry
<1>11. ~\E r \in ToExport : HandleRegisterModuleExport(s, r)
  BY <1>1, <1>3 DEF HandleRegisterModuleExport
<1>12. ~\E n \in 1 .. MaxSize : ReceiveImageData(s, n)
  <2> SUFFICES ASSUME NEW n \in 1 .. MaxSize, ReceiveImageData(s, n) PROVE FALSE
    OBVIOUS
  <2>1. PICK received : ReceiveImageDataComplete(s, received)
    BY <1>1 DEF ReceiveImageData, registry
  <2>2. \/ LoadFails(BlockAt(cursor.export_)) \/ LoadSucceeds(BlockAt(cursor.export_))
        \/ CallDXTMain(pool) \/ UNCHANGED registry
    <3>1. CASE relocation_needed /\ BlockAt(cursor.export_) = 0
      BY <2>1, <3>1 DEF ReceiveImageDataComplete
    <3>2. CASE relocation_needed /\ BlockAt(cursor.export_) # 0
      <4> HIDE DEF LoadFails
      <4> QED BY <2>1, <3>2 DEF ReceiveImageDataComplete
    <3>3. CASE ~relocation_needed
      BY <2>1, <3>3 DEF ReceiveImageDataComplete
    <3> QED BY <3>1, <3>2, <3>3
  <2> QED BY <1>1, <1>4, <2>2 DEF LoadFails, LoadSucceeds, registry
<1>13. SendMethodAddresses(s)
  BY <1>5, <1>6, <1>7, <1>8, <1>9, <1>10, <1>11, <1>12 DEF Next
<1>14. RP!ListingInv
  BY <1>13 DEF SendMethodAddresses, Running, HelloInv
<1>15. ~R!MREnumerateRegistry
  BY <1>14 DEF R!MREnumerateRegistry, RP!ListingInv
<1> QED BY <1>13, <1>15 DEF SendMethodAddresses

(* With one connection, a hello that comes to its end gave out exactly     *)
(* what the registry holds, whatever loads used context_store before, and  *)
(* for registries of any size.                                             *)
THEOREM OneConnectionHello ==
    ASSUME OneConnection
    PROVE  Spec => HelloListsAll
<1>1. Init => HelloInv
  BY DEF Init, HelloInv, SendingTo, NoContext
<1>2. IInv /\ HelloInv /\ [Next]_vars => HelloInv'
  BY HelloNext
<1>3. IInv /\ HelloInv /\ [Next]_vars =>
        [listing.phase = "open" /\ listing'.phase = "ended" =>
            {listing'.given[i] : i \in DOMAIN listing'.given}
                = {R!Key(nodes[i]) : i \in DOMAIN nodes}]_vars
  <2> SUFFICES ASSUME IInv, HelloInv, [Next]_vars, listing.phase = "open",
                      listing'.phase = "ended"
               PROVE  {listing'.given[i] : i \in DOMAIN listing'.given}
                            = {R!Key(nodes[i]) : i \in DOMAIN nodes}
    OBVIOUS
  <2>1. PICK s : Session = {s}
    BY DEF OneConnection
  <2>2. SendMethodAddresses(s) /\ RP!MREnumerateRegistryEnd
    BY <2>1, ListingEndsInSend, SameListing
  <2>3. RP!ListingInv /\ listing.due = AllKeys
    BY <2>1, <2>2 DEF SendMethodAddresses, Running, HelloInv
  <2>4. RP!Split /\ RP!AtEnd
    BY <2>2, <2>3 DEF RP!MREnumerateRegistryEnd, RP!ListingInv
  <2>5. RP!Given = AllKeys
    BY <2>3, <2>4 DEF RP!Split, RP!Ahead, AllKeys
  <2>6. listing'.given = listing.given
    BY <2>2, <2>3 DEF RP!MREnumerateRegistryEnd, RP!ListingInv
  <2>7. AllKeys = {R!Key(nodes[i]) : i \in DOMAIN nodes}
    BY SameListing DEF AllKeys
  <2> QED BY <2>5, <2>6, <2>7 DEF RP!Given
<1> QED BY <1>1, <1>2, <1>3, OneConnectionInvariant, PTL DEF Spec, HelloListsAll
-----------------------------------------------------------------------------
(* Types.                                                                  *)
Word == Nat \cup Block

ContextType ==
    [handler : {"none", "SendMethodAddresses", "ReceiveImageData"}, buffer : Block \cup {NULL},
     offset : 0 .. MaxSize, buffer_size : 0 .. MaxSize, bytes_remaining : 0 .. MaxSize,
     extent : 0 .. MaxSize]

(* The contexts handlers leave have their type. *)
LEMMA ContextTypes ==
    /\ NoContext \in ContextType
    /\ \A c \in ContextType : [c EXCEPT !.handler = "SendMethodAddresses"] \in ContextType
    /\ \A b \in Block, size, extent \in 0 .. MaxSize : ToReceive(b, size, extent) \in ContextType
<1>1. NoContext \in ContextType
  BY MaxSizeAssumption DEF NoContext, ContextType
<1>2. \A c \in ContextType : [c EXCEPT !.handler = "SendMethodAddresses"] \in ContextType
  BY DEF ContextType
<1>3. \A b \in Block, size, extent \in 0 .. MaxSize : ToReceive(b, size, extent) \in ContextType
  BY MaxSizeAssumption DEF ToReceive, ContextType
<1> QED BY <1>1, <1>2, <1>3

(* And so has that of a transfer that goes on. *)
LEMMA AdvanceType ==
    ASSUME BoundsInv, NEW s \in Session, Receiving(s), ctx[s] \in ContextType,
           NEW n \in 1 .. MaxSize, n <= ctx[s].buffer_size
    PROVE  Advance(ctx[s], n) \in ContextType
<1>1. InBounds(s) /\ MaxSize \in Nat
  BY MaxSizeAssumption DEF BoundsInv
<1>2. /\ ctx[s].offset + n \in 0 .. MaxSize
      /\ ctx[s].buffer_size - n \in 0 .. MaxSize
      /\ ctx[s].bytes_remaining - n \in 0 .. MaxSize
  BY <1>1 DEF InBounds, ContextType
<1> QED BY <1>2 DEF Advance, ContextType

(* What a step does to the variables one by one. *)
LEMMA ContextStep ==
    ASSUME TypeOK, NEW s \in Session, NEW c \in ContextType,
           UNCHANGED ctx \/ ctx' = [ctx EXCEPT ![s] = c]
    PROVE  ctx' \in [Session -> ContextType]
BY DEF TypeOK, ContextType

LEMMA TypesNext ==
    ASSUME OneConnection, IInv, IInv', HelloInv', TypeOK, [Next]_vars
    PROVE  TypeOK'
<1>1. PICK s : Session = {s}
  BY DEF OneConnection
<1>2. s \in Session /\ ctx[s] \in ContextType /\ MaxSize \in Nat
  BY <1>1, MaxSizeAssumption DEF TypeOK, ContextType
<1>3. pool' \subseteq Block /\ relocation_needed' \in BOOLEAN
  BY DEF IInv, Heap, RP!HeapOK, Types
<1>4. ctx' \in [Session -> ContextType]
  <2>1. ASSUME NEW c \in ContextType, UNCHANGED ctx \/ ctx' = [ctx EXCEPT ![s] = c]
        PROVE  ctx' \in [Session -> ContextType]
    BY <1>2, <2>1, ContextStep
  <2>2. CASE UNCHANGED ctx
    BY <2>2 DEF TypeOK, ContextType
  <2>3. CASE HandleHello(s)
    <3> DEFINE c == [ctx[s] EXCEPT !.handler = "SendMethodAddresses"]
    <3>1. c \in ContextType
      BY <1>2, ContextTypes
    <3>2. ctx' = [ctx EXCEPT ![s] = c]
      BY <2>3 DEF HandleHello
    <3> HIDE DEF c
    <3> QED BY <2>1, <3>1, <3>2
  <2>4. CASE SendMethodAddresses(s) \/ ReceiveNothing(s) \/ Disconnect(s)
    <3>1. UNCHANGED ctx \/ ctx' = [ctx EXCEPT ![s] = NoContext]
      BY <2>4 DEF SendMethodAddresses, ReceiveNothing, Disconnect, GivenUp
    <3> QED BY <2>1, <3>1, ContextTypes
  <2>5. ASSUME NEW size \in 0 .. MaxSize, HandleDynamicLoad(s, size)
        PROVE  ctx' \in [Session -> ContextType]
    <3>1. /\ CanAlloc(pool)
          /\ UNCHANGED ctx \/ ctx' = [ctx EXCEPT ![s] = ToReceive(Alloc(pool), size, size)]
      BY <2>5 DEF HandleDynamicLoad
    <3> QED BY <2>1, <3>1, ContextTypes, AllocFresh
  <2>6. ASSUME NEW r \in reserved, NEW length \in 0 .. r.size, NEW entrypoint,
               HandleInstall(s, r, length, entrypoint)
        PROVE  ctx' \in [Session -> ContextType]
    <3>1. r.block \in Block /\ r.size \in 0 .. MaxSize /\ length \in 0 .. MaxSize
      BY <1>2 DEF TypeOK
    <3>2. ctx' = [ctx EXCEPT ![s] = ToReceive(r.block, length, r.size)]
      BY <2>6 DEF HandleInstall
    <3> QED BY <2>1, <3>1, <3>2, ContextTypes
  <2>7. ASSUME NEW n \in 1 .. MaxSize, ReceiveImageData(s, n)
        PROVE  ctx' \in [Session -> ContextType]
    <3>1. /\ Receiving(s) /\ n <= ctx[s].buffer_size
          /\ \/ ctx' = [ctx EXCEPT ![s] = Advance(ctx[s], n)]
             \/ ctx' = [ctx EXCEPT ![s] = NoContext]
      BY <2>7 DEF ReceiveImageData
    <3>2. Advance(ctx[s], n) \in ContextType
      BY <1>2, <3>1, AdvanceType DEF IInv
    <3> QED BY <2>1, <3>1, <3>2, ContextTypes
  <2> QED
    BY <1>1, <2>2, <2>3, <2>4, <2>5, <2>6, <2>7
    DEF Next, vars, DXTMain, HandleReserve, HandleRegisterModuleExport
<1>5. cursor' \in [module_ : Word, export_ : Word]
  <2>1. CASE cursor' = cursor
    BY <2>1 DEF TypeOK, Word
  <2>2. CASE HandleHello(s)
    <3>1. SendingTo(s)'
      BY <1>2, <2>2 DEF HandleHello, SendingTo, TypeOK, ContextType
    <3>2. CASE fault' = "none"
      BY <1>2, <3>1, <3>2 DEF HelloInv, RP!ListingInv, Word
    <3>3. CASE fault' # "none"
      BY <2>1, <2>2, <3>3 DEF HandleHello, R!MREnumerateRegistryBegin
    <3> QED BY <3>2, <3>3
  <2>3. CASE SendMethodAddresses(s)
    <3>1. CASE R!MREnumerateRegistry /\ UNCHANGED ctx
      <4>1. SendingTo(s)' /\ fault' = "none"
        BY <2>3, <3>1 DEF SendMethodAddresses, SendingTo, R!MREnumerateRegistry
      <4> QED BY <1>2, <4>1 DEF HelloInv, RP!ListingInv, Word
    <3>2. CASE UNCHANGED cursor
      BY <2>1, <3>2
    <3> QED BY <2>3, <3>1, <3>2 DEF SendMethodAddresses, R!MREnumerateRegistryEnd
  <2>4. ASSUME NEW size, HandleDynamicLoad(s, size)
        PROVE  cursor' \in [module_ : Word, export_ : Word]
    BY <2>4, AllocFresh DEF HandleDynamicLoad, Word
  <2>5. ASSUME NEW r \in reserved, NEW length, NEW entrypoint,
               HandleInstall(s, r, length, entrypoint)
        PROVE  cursor' \in [module_ : Word, export_ : Word]
    BY <2>5 DEF HandleInstall, Word, TypeOK
  <2>6. ASSUME NEW m, NEW x, NEW p, NEW ss, R!MRRegisterMethod(m, x, p, ss)
        PROVE  cursor' = cursor
    BY <2>6 DEF R!MRRegisterMethod
  <2>7. ASSUME NEW m, NEW x, R!RegisterExport(m, x) \/ R!RegisterExportNoMemory(m, x)
        PROVE  cursor' = cursor
    <3>1. CASE R!RegisterExport(m, x)
      BY <2>6, <3>1, Zenon DEF R!RegisterExport
    <3>2. CASE R!RegisterExportNoMemory(m, x)
      BY <3>2 DEF R!RegisterExportNoMemory
    <3> QED BY <2>7, <3>1, <3>2
  <2>8. ASSUME NEW p, CallDXTMain(p) PROVE cursor' = cursor
    BY <2>6, <2>8 DEF CallDXTMain
  <2>9. CASE DXTMain
    BY <2>1, <2>6, <2>7, <2>9 DEF DXTMain, LinkLoadedModules
  <2>10. ASSUME NEW r, HandleRegisterModuleExport(s, r)
         PROVE  cursor' \in [module_ : Word, export_ : Word]
    BY <2>1, <2>7, <2>10 DEF HandleRegisterModuleExport
  <2>11. ASSUME NEW n, ReceiveImageData(s, n)
         PROVE  cursor' \in [module_ : Word, export_ : Word]
    <3>1. CASE UNCHANGED cursor
      BY <2>1, <3>1
    <3>2. ASSUME NEW received, ReceiveImageDataComplete(s, received)
          PROVE  cursor' \in [module_ : Word, export_ : Word]
      <4>1. CASE relocation_needed /\ BlockAt(cursor.export_) = 0
        BY <3>1, <3>2, <4>1 DEF ReceiveImageDataComplete
      <4>2. CASE relocation_needed /\ BlockAt(cursor.export_) # 0
        <5>1. \E raw : LoadFails(raw) \/ LoadSucceeds(raw)
          BY <3>2, <4>2 DEF ReceiveImageDataComplete
        <5> QED BY <2>1, <2>8, <5>1 DEF LoadFails, LoadSucceeds
      <4>3. CASE ~relocation_needed
        BY <2>1, <2>8, <3>2, <4>3 DEF ReceiveImageDataComplete
      <4> QED BY <4>1, <4>2, <4>3
    <3> QED BY <2>11, <3>1, <3>2 DEF ReceiveImageData
  <2> QED
    BY <1>1, <2>1, <2>2, <2>3, <2>4, <2>5, <2>9, <2>10, <2>11
    DEF Next, vars, HandleReserve, ReceiveNothing, Disconnect
<1>6. raw_image_size' \in 0 .. MaxSize
  <2>1. CASE UNCHANGED raw_image_size
    BY <2>1 DEF TypeOK
  <2>2. ASSUME NEW size \in 0 .. MaxSize, HandleDynamicLoad(s, size)
        PROVE  raw_image_size' \in 0 .. MaxSize
    BY <2>2 DEF HandleDynamicLoad
  <2>3. ASSUME NEW r \in reserved, NEW length \in 0 .. r.size, NEW entrypoint,
               HandleInstall(s, r, length, entrypoint)
        PROVE  raw_image_size' \in 0 .. MaxSize
    BY <1>2, <2>3 DEF HandleInstall, TypeOK
  <2> QED
    BY <1>1, <2>1, <2>2, <2>3
    DEF Next, vars, store, DXTMain, HandleHello, SendMethodAddresses, HandleReserve,
        HandleRegisterModuleExport, ReceiveImageData, ReceiveNothing, Disconnect
<1>7. reserved' \subseteq [block : Block, size : 0 .. MaxSize]
  <2>1. CASE UNCHANGED reserved
    BY <2>1 DEF TypeOK
  <2>2. ASSUME NEW size \in 0 .. MaxSize, HandleReserve(s, size)
        PROVE  reserved' \subseteq [block : Block, size : 0 .. MaxSize]
    BY <2>2, AllocFresh DEF HandleReserve, TypeOK
  <2> QED
    BY <1>1, <2>1, <2>2
    DEF Next, vars, DXTMain, HandleHello, SendMethodAddresses, HandleDynamicLoad, HandleInstall,
        HandleRegisterModuleExport, ReceiveImageData, ReceiveNothing, Disconnect
<1>8. images' \subseteq Block
  BY DEF IInv, Heap, Others, RP!Loose, RP!HeapOK
<1>9. lean_build' = lean_build /\ aborted' \in BOOLEAN
  <2>1. lean_build' = lean_build
    BY <1>1
    DEF Next, vars, DXTMain, HandleHello, SendMethodAddresses, HandleDynamicLoad, HandleReserve,
        HandleInstall, HandleRegisterModuleExport, ReceiveImageData, ReceiveNothing, Disconnect
  <2>2. CASE UNCHANGED aborted
    BY <2>1, <2>2 DEF TypeOK
  <2>3. CASE DXTMain
    BY <2>1, <2>2, <2>3, Zenon DEF DXTMain, LinkLoadedModules
  <2>4. CASE ReceiveNothing(s) \/ Disconnect(s)
    BY <2>1, <2>4, Zenon DEF ReceiveNothing, Disconnect, GivenUp
  <2>5. ASSUME NEW size, HandleDynamicLoad(s, size) PROVE aborted' \in BOOLEAN
    BY <2>2, <2>5 DEF HandleDynamicLoad
  <2> QED
    BY <1>1, <2>1, <2>2, <2>3, <2>4, <2>5
    DEF Next, vars, HandleHello, SendMethodAddresses, HandleReserve, HandleInstall,
        HandleRegisterModuleExport, ReceiveImageData
<1> QED
  BY <1>3, <1>4, <1>5, <1>6, <1>7, <1>8, <1>9 DEF TypeOK, ContextType, Word

(* DxtMain keeps its types with one connection: whatever context_store is  *)
(* used for, its words stay a block or a place in the registry, and every  *)
(* size within what was announced. *)
THEOREM OneConnectionTypes ==
    ASSUME OneConnection
    PROVE  Spec => []TypeOK
<1>1. Init => TypeOK
  <2> SUFFICES ASSUME Init PROVE TypeOK
    OBVIOUS
  <2>1. ctx \in [Session -> ContextType]
    BY ContextTypes DEF Init
  <2>2. pool = {} /\ cursor \in [module_ : Nat \cup Block, export_ : Nat \cup Block]
    BY DEF Init, R!Init
  <2>3. lean_build \in BOOLEAN /\ relocation_needed = FALSE /\ aborted = FALSE
    BY DEF Init
  <2>4. raw_image_size = 0 /\ images = {} /\ reserved = {} /\ 0 \in 0 .. MaxSize
    BY MaxSizeAssumption DEF Init
  <2> QED BY <2>1, <2>2, <2>3, <2>4 DEF TypeOK, ContextType
<1>2. Init => HelloInv
  BY DEF Init, HelloInv, SendingTo, NoContext
<1>3. IInv /\ HelloInv /\ [Next]_vars => HelloInv'
  BY HelloNext
<1>4. IInv /\ IInv' /\ HelloInv' /\ TypeOK /\ [Next]_vars => TypeOK'
  BY TypesNext
<1> QED BY <1>1, <1>2, <1>3, <1>4, OneConnectionInvariant, PTL DEF Spec
-----------------------------------------------------------------------------
(* What the walk over the loaded modules has registered, for any number of *)
(* connections.                                                            *)

(* Each export of a loaded module is due once: the walk meets a module     *)
(* once, RegisterModuleExports counts the ordinals up from the directory's *)
(* Base, and DXTMain's own exports come under a module name of their own.  *)
KeyOf(r) == <<r.module, r.export.ordinal>>
LinkedOnce ==
    \A i, j \in DOMAIN Startup : i < j /\ Startup[j].linked => KeyOf(Startup[i]) # KeyOf(Startup[j])

(* The first n registrations were made or tried; of those behind them that *)
(* the walk is to make, none is there.                                     *)
Walked(n) ==
    /\ todo # <<>> /\ fault = "none" => todo = SubSeq(Startup, n + 1, Len(Startup))
    /\ \A i \in 1 .. n : Startup[i].linked => Resolves(Startup[i])
    /\ \A j \in n + 1 .. Len(Startup) : Startup[j].linked => ~Resolves(Startup[j])

StartInv ==
    /\ todo # <<>> /\ fault = "none" => RP!HeapOK(tables, nodes, pool) /\ RP!Filled
    /\ lean_build => reserved = {}
    /\ lean_build /\ images = {} => \E n \in 0 .. Len(Startup) : Walked(n)

LEMMA ResolvesIs ==
    ASSUME NEW r
    PROVE  /\ Resolves(r) <=> RP!Lookup(tables, nodes, r.module, r.export.ordinal) # NOT_FOUND
           /\ Resolves(r)' <=> RP!Lookup(tables', nodes', r.module, r.export.ordinal) # NOT_FOUND
BY DEF Resolves, R!MRGetMethodByOrdinal, R!AddressAt, R!NodeByOrdinal, R!Tables, R!NodesOf,
       R!First, RP!First, RP!Lookup

(* Nothing changes for the walk once it is over. *)
LEMMA StartKept ==
    ASSUME StartInv, UNCHANGED <<tables, nodes, todo, lean_build>>, todo = <<>>,
           images' = {} => images = {}, lean_build' => reserved' = {}
    PROVE  StartInv'
<1>1. \A i : Resolves(Startup[i])' <=> Resolves(Startup[i])
  BY ResolvesIs
<1>2. \A n : Walked(n) => Walked(n)'
  BY <1>1 DEF Walked
<1> QED BY <1>2 DEF StartInv

(* One registration of r, the next due, that is made or has no effect.     *)
LEMMA StartStep ==
    ASSUME LinkedOnce, NEW n \in 0 .. Len(Startup), Walked(n), todo # <<>>, fault = "none",
           n < Len(Startup), NEW r, r = Startup[n + 1],
           \/ RP!TakesEffect(r.module, r.export) /\ todo' = Tail(todo)
           \/ /\ \A m, o : RP!Lookup(tables', nodes', m, o) = RP!Lookup(tables, nodes, m, o)
              /\ \/ todo' = <<>> \/ fault' # "none"
                 \/ ~r.linked /\ todo' = Tail(todo)
    PROVE  \E k \in 0 .. Len(Startup) : Walked(k)'
<1>1. /\ Len(Startup) \in Nat /\ DOMAIN Startup = 1 .. Len(Startup)
      /\ Startup \in Seq(Registration)
  BY StartupAssumption, LenProperties DEF Registration
<1>2. /\ n + 1 \in 0 .. Len(Startup) /\ n + 1 \in 1 .. Len(Startup)
      /\ \A i \in 1 .. n : i \in DOMAIN Startup
      /\ \A j \in (n + 1) + 1 .. Len(Startup) :
            j \in DOMAIN Startup /\ n + 1 < j /\ j \in n + 1 .. Len(Startup)
      /\ \A i \in 1 .. n + 1 : i \in 1 .. n \/ i = n + 1
  BY <1>1
<1>3. Tail(todo) = SubSeq(Startup, (n + 1) + 1, Len(Startup))
  <2>1. todo = SubSeq(Startup, n + 1, Len(Startup))
    BY DEF Walked
  <2> QED BY <1>1, <1>2, <2>1
<1>4. r.export.address # NOT_FOUND
  <2>1. r \in Registration
    BY <1>1, <1>2, ElementOfSeq
  <2>2. r.export \in Export
    BY <2>1 DEF Registration
  <2> QED BY <2>2, ExportAssumption, SentinelAssumption
<1>5. CASE RP!TakesEffect(r.module, r.export) /\ todo' = Tail(todo)
  <2>1. ASSUME NEW i \in 1 .. n + 1, Startup[i].linked PROVE Resolves(Startup[i])'
    <3>1. CASE KeyOf(Startup[i]) = KeyOf(r)
      BY <3>1, <1>4, <1>5, ResolvesIs DEF RP!TakesEffect, KeyOf
    <3>2. CASE KeyOf(Startup[i]) # KeyOf(r)
      <4>1. i \in 1 .. n
        BY <1>2, <3>2
      <4> QED BY <4>1, <2>1, <3>2, <1>5, ResolvesIs DEF RP!TakesEffect, KeyOf, Walked
    <3> QED BY <3>1, <3>2
  <2>2. ASSUME NEW j \in (n + 1) + 1 .. Len(Startup), Startup[j].linked
        PROVE  ~Resolves(Startup[j])'
    <3>1. KeyOf(r) # KeyOf(Startup[j]) /\ ~Resolves(Startup[j])
      BY <2>2, <1>1, <1>2 DEF LinkedOnce, Walked
    <3> QED BY <3>1, <1>5, ResolvesIs DEF RP!TakesEffect, KeyOf
  <2>3. Walked(n + 1)'
    BY <1>3, <1>5, <2>1, <2>2 DEF Walked
  <2> QED BY <1>2, <2>3
<1>6. CASE \A m, o : RP!Lookup(tables', nodes', m, o) = RP!Lookup(tables, nodes, m, o)
  <2>1. \A i : Resolves(Startup[i])' <=> Resolves(Startup[i])
    BY <1>6, ResolvesIs
  <2>2. ASSUME todo' = <<>> \/ fault' # "none" PROVE Walked(n)'
    BY <2>1, <2>2 DEF Walked
  <2>3. ASSUME ~r.linked, todo' = Tail(todo) PROVE Walked(n + 1)'
    BY <1>2, <1>3, <2>1, <2>3 DEF Walked
  <2> QED BY <1>2, <1>6, <2>2, <2>3, <1>5
<1> QED BY <1>5, <1>6

(* MRRegisterMethod takes effect, or not and says so or faults. *)
LEMMA RegistrationEffect ==
    ASSUME NEW m \in Module, NEW x \in Export, RP!HeapOK(tables, nodes, pool), RP!Filled,
           fault = "none",
           R!MRRegisterMethod(m, x, pool, {}) \/ R!RegisterExport(m, x)
    PROVE  /\ RP!TakesEffect(m, x) \/ RP!NoEffect
           /\ RP!HeapOK(tables', nodes', pool') /\ (fault' = "none" => RP!Filled')
<1>1. RP!Loose({}, tables, nodes, pool)
  BY DEF RP!Loose
<1>2. RP!HeapOK(tables', nodes', pool') /\ (fault' = "none" => RP!Filled')
  BY <1>1, RegisterEffect, RegisterExportEffect
<1>3. \E q, ss : RP!MRRegisterMethod(m, x, q, ss)
  <2>1. CASE R!MRRegisterMethod(m, x, pool, {})
    BY <2>1, SameRegister
  <2>2. CASE R!RegisterExport(m, x)
    <3>1. RP!RegisterExport(m, x)
      BY <2>2, SameRegisterExport
    <3> QED BY <3>1 DEF RP!RegisterExport
  <2> QED BY <2>1, <2>2
<1>4. RP!TakesEffect(m, x) \/ RP!NoEffect
  BY <1>2, <1>3, RP!RegisterTakes, RegistryAssumptions
<1> QED BY <1>2, <1>4

LEMMA DXTMainWalks ==
    ASSUME LinkedOnce, StartInv, todo \in Seq(Registration), DXTMain
    PROVE  StartInv'
<1> DEFINE r == Head(todo)
<1>1. /\ fault = "none" /\ todo # <<>> /\ UNCHANGED <<lean_build, images, reserved>>
      /\ RP!HeapOK(tables, nodes, pool) /\ RP!Filled
  BY DEF DXTMain, StartInv
<1>2. r.module \in Module /\ r.export \in Export
  <2>1. r \in Registration
    BY <1>1, HeadTailProperties
  <2> QED BY <2>1 DEF Registration
<1>3. \/ /\ r.linked /\ R!MRRegisterMethod(r.module, r.export, pool, {})
         /\ todo' = IF ret' = "refused" THEN <<>> ELSE Tail(todo)
      \/ /\ ~r.linked /\ todo' = Tail(todo)
         /\ R!RegisterExport(r.module, r.export) \/ R!RegisterExportNoMemory(r.module, r.export)
  BY DEF DXTMain, LinkLoadedModules
<1> HIDE DEF r
<1>4. CASE R!RegisterExportNoMemory(r.module, r.export) /\ ~r.linked /\ todo' = Tail(todo)
  <2>1. UNCHANGED <<pool, tables, nodes, fault>>
    BY <1>4 DEF R!RegisterExportNoMemory
  <2>2. RP!HeapOK(tables', nodes', pool') /\ (RP!Filled' <=> RP!Filled)
    BY <1>1, <2>1 DEF RP!Filled, RP!NodesOf
  <2>3. \A m, o : RP!Lookup(tables', nodes', m, o) = RP!Lookup(tables, nodes, m, o)
    BY <2>1
  <2>4. ASSUME lean_build, images = {} PROVE \E k \in 0 .. Len(Startup) : Walked(k)'
    <3>1. PICK n \in 0 .. Len(Startup) : Walked(n)
      BY <2>4 DEF StartInv
    <3>2. n < Len(Startup) /\ r = Startup[n + 1]
      BY <1>1, <3>1, StartupAssumption DEF Walked, r
    <3> QED BY <1>1, <1>4, <2>3, <3>1, <3>2, StartStep
  <2> QED BY <1>1, <2>2, <2>4 DEF StartInv
<1>5. CASE ~(R!RegisterExportNoMemory(r.module, r.export) /\ ~r.linked /\ todo' = Tail(todo))
  <2>1. R!MRRegisterMethod(r.module, r.export, pool, {}) \/ R!RegisterExport(r.module, r.export)
    BY <1>3, <1>5
  <2>2. /\ RP!TakesEffect(r.module, r.export) \/ RP!NoEffect
        /\ RP!HeapOK(tables', nodes', pool') /\ (fault' = "none" => RP!Filled')
    BY <1>1, <1>2, <2>1, RegistrationEffect
  <2>3. \/ RP!TakesEffect(r.module, r.export) /\ todo' = Tail(todo)
        \/ /\ \A m, o : RP!Lookup(tables', nodes', m, o) = RP!Lookup(tables, nodes, m, o)
           /\ \/ todo' = <<>> \/ fault' # "none"
              \/ ~r.linked /\ todo' = Tail(todo)
    BY <1>3, <1>5, <2>2 DEF RP!TakesEffect, RP!NoEffect
  <2>4. ASSUME lean_build, images = {} PROVE \E k \in 0 .. Len(Startup) : Walked(k)'
    <3>1. PICK n \in 0 .. Len(Startup) : Walked(n)
      BY <2>4 DEF StartInv
    <3>2. n < Len(Startup) /\ r = Startup[n + 1]
      BY <1>1, <3>1, StartupAssumption DEF Walked, r
    <3> QED BY <1>1, <2>3, <3>1, <3>2, StartStep
  <2> QED BY <1>1, <2>2, <2>4 DEF StartInv
<1> QED BY <1>4, <1>5
LEMMA StartNext ==
    ASSUME LinkedOnce, StartInv, todo \in Seq(Registration), [Next]_vars
    PROVE  StartInv'
<1>1. CASE UNCHANGED vars
  <2>1. /\ UNCHANGED <<pool, tables, nodes, todo, fault, lean_build, images, reserved>>
        /\ RP!Filled' <=> RP!Filled
    BY <1>1 DEF vars, registry, RP!Filled, RP!NodesOf
  <2>2. \A i : Resolves(Startup[i])' <=> Resolves(Startup[i])
    BY <2>1, ResolvesIs
  <2>3. \A n : Walked(n) => Walked(n)'
    BY <2>1, <2>2 DEF Walked
  <2> QED BY <2>1, <2>3 DEF StartInv
<1>2. CASE DXTMain
  BY <1>2, DXTMainWalks
<1>3. ASSUME NEW s \in Session,
             HandleHello(s) \/ SendMethodAddresses(s) \/ ReceiveNothing(s) \/ Disconnect(s)
      PROVE  StartInv'
  <2>1. todo = <<>> /\ UNCHANGED <<tables, nodes, todo, lean_build, images, reserved>>
    BY <1>3 DEF HandleHello, SendMethodAddresses, ReceiveNothing, Disconnect, Running, registry,
                R!MREnumerateRegistryBegin, R!MREnumerateRegistry, R!MREnumerateRegistryEnd
  <2> QED BY <2>1, StartKept DEF StartInv
<1>4. ASSUME NEW s \in Session, NEW size \in 0 .. MaxSize, HandleDynamicLoad(s, size)
      PROVE  StartInv'
  <2>1. todo = <<>> /\ UNCHANGED <<tables, nodes, todo, lean_build, images, reserved>>
    BY <1>4 DEF HandleDynamicLoad, Running, registry
  <2> QED BY <2>1, StartKept DEF StartInv
<1>5. ASSUME NEW s \in Session, NEW size \in 0 .. MaxSize, HandleReserve(s, size)
      PROVE  StartInv'
  <2>1. /\ todo = <<>> /\ ~lean_build
        /\ UNCHANGED <<tables, nodes, todo, lean_build, images>>
    BY <1>5 DEF HandleReserve, Running, registry
  <2> QED BY <2>1, StartKept
<1>6. ASSUME NEW s \in Session, NEW r \in reserved, NEW length, NEW entrypoint,
             HandleInstall(s, r, length, entrypoint)
      PROVE  StartInv'
  <2>1. todo = <<>> /\ UNCHANGED <<tables, nodes, todo, lean_build, images, reserved>>
    BY <1>6 DEF HandleInstall, Running, registry
  <2> QED BY <2>1, StartKept DEF StartInv
<1>7. ASSUME NEW s \in Session, NEW r \in ToExport, HandleRegisterModuleExport(s, r)
      PROVE  StartInv'
  <2>1. todo = <<>> /\ todo' = todo /\ ~lean_build /\ lean_build' = lean_build
    BY <1>7 DEF HandleRegisterModuleExport, Running
  <2> QED BY <2>1 DEF StartInv
<1>8. ASSUME NEW s \in Session, NEW n, ReceiveImageData(s, n) PROVE StartInv'
  <2>1. todo = <<>> /\ UNCHANGED <<todo, lean_build, reserved>>
    BY <1>8 DEF ReceiveImageData, Running
  <2>2. CASE UNCHANGED <<registry, images>>
    BY <2>1, <2>2, StartKept DEF registry, StartInv
  <2>3. CASE ~UNCHANGED <<registry, images>>
    <3>1. ReceiveImageDataComplete(s, Advance(ctx[s], n).offset)
      BY <1>8, <2>3 DEF ReceiveImageData
    <3>2. \/ ~relocation_needed /\ cursor.module_ \in ReservedBlocks
          \/ LoadSucceeds(BlockAt(cursor.export_))
      BY <2>3, <3>1 DEF ReceiveImageDataComplete, LoadFails
    <3>3. CASE cursor.module_ \in ReservedBlocks
      <4>1. ~lean_build
        BY <3>3 DEF ReservedBlocks, StartInv
      <4> QED BY <2>1, <4>1 DEF StartInv
    <3>4. CASE LoadSucceeds(BlockAt(cursor.export_))
      <4>1. images' # {}
        BY <3>4 DEF LoadSucceeds
      <4> QED BY <2>1, <4>1 DEF StartInv
    <3> QED BY <3>2, <3>3, <3>4
  <2> QED BY <2>2, <2>3
<1> QED BY <1>1, <1>2, <1>3, <1>4, <1>5, <1>6, <1>7, <1>8 DEF Next

LEMMA TodoNext == ASSUME todo \in Seq(Registration), [Next]_vars PROVE todo' \in Seq(Registration)
<1>1. CASE DXTMain
  <2>1. todo # <<>> /\ todo' \in {<<>>, Tail(todo)}
    BY <1>1 DEF DXTMain, LinkLoadedModules
  <2> QED BY <2>1, HeadTailProperties, EmptySeq
<1>2. CASE todo' = todo
  BY <1>2
<1> QED BY <1>1, <1>2 DEF Next, vars, HandleHello, SendMethodAddresses, HandleDynamicLoad,
           HandleReserve, HandleInstall, HandleRegisterModuleExport, ReceiveImageData,
           ReceiveNothing, Disconnect

LEMMA StartInit == ASSUME Init PROVE StartInv /\ todo \in Seq(Registration)
<1>1. tables = <<>> /\ nodes = <<>> /\ pool = {} /\ todo = Startup /\ reserved = {}
  BY DEF Init, R!Init
<1>2. Len(Startup) \in Nat /\ Startup \in Seq(Registration)
  BY StartupAssumption DEF Registration
<1>3. RP!HeapOK(tables, nodes, pool) /\ RP!Filled
  BY <1>1, EmptySeq DEF RP!HeapOK, RP!Filled
<1>4. \A i : ~Resolves(Startup[i])
  <2>1. \A m, o, j : ~RP!StandsFor(tables, nodes, j, m, o)
    BY <1>1 DEF RP!StandsFor
  <2>2. \A m, o : RP!Lookup(tables, nodes, m, o) = NOT_FOUND
    BY <1>3, <2>1, RP!LookupFindsNone, RegistryAssumptions
  <2> QED BY <2>2, ResolvesIs
<1>5. Startup = SubSeq(Startup, 0 + 1, Len(Startup))
  BY <1>2
<1>6. Walked(0) /\ 0 \in 0 .. Len(Startup)
  BY <1>1, <1>2, <1>4, <1>5 DEF Walked
<1> QED BY <1>1, <1>2, <1>3, <1>6 DEF StartInv

(* LinkLoadedModules links a prefix: of the exports of the loaded modules  *)
(* those that are registered come before those that are not, whichever     *)
(* allocation fails, as long as each is due once.                          *)
THEOREM LinksPrefix ==
    ASSUME LinkedOnce
    PROVE  Spec => []LinkedPrefix
<1>1. Init => StartInv /\ todo \in Seq(Registration)
  BY StartInit
<1>2. StartInv /\ todo \in Seq(Registration) /\ [Next]_vars
        => StartInv' /\ (todo \in Seq(Registration))'
  BY StartNext, TodoNext
<1>3. StartInv => LinkedPrefix
  <2> SUFFICES ASSUME StartInv, lean_build, images = {},
                      NEW i \in DOMAIN Startup, NEW j \in DOMAIN Startup, i < j,
                      Startup[i].linked, Startup[j].linked, Resolves(Startup[j])
               PROVE  Resolves(Startup[i])
    BY DEF LinkedPrefix
  <2>1. PICK n \in 0 .. Len(Startup) : Walked(n)
    BY DEF StartInv
  <2>2. DOMAIN Startup = 1 .. Len(Startup) /\ Len(Startup) \in Nat
    BY StartupAssumption, LenProperties
  <2>3. j \notin n + 1 .. Len(Startup)
    BY <2>1 DEF Walked
  <2>4. i \in 1 .. n
    BY <2>1, <2>2, <2>3
  <2> QED BY <2>1, <2>4 DEF Walked
<1> QED BY <1>1, <1>2, <1>3, PTL DEF Spec
=============================================================================
