------------------------------- MODULE DxtMain -------------------------------
(***************************************************************************)
(* The dynamic DXT loader (src/src/dxtmain.c, link_loaded_modules.c): it   *)
(* fills the export registry at start-up and then serves commands of the   *)
(* debug monitor, whose continuation calls it answers from one static      *)
(* context_store.  Built with LEAN_BUILD, as the repository does, it has   *)
(* "hello" and "load" only, without it also "reserve", "install" and       *)
(* "export".  The variable lean_build is chosen at the start.              *)
(*                                                                         *)
(* The monitor (external) runs handlers one at a time; between two calls   *)
(* for one connection it may serve another connection.                     *)
(*                                                                         *)
(* context_store is a union: its first two words are the cursor of a       *)
(* listing, or dxt_main and image_base of a transfer.  The variable cursor *)
(* is those two words.  dxt_main, which lies somewhere in the image to be  *)
(* installed, stands as the block of that image; for a load it is NULL.    *)
(***************************************************************************)
EXTENDS DmPool, Integers, Sequences

CONSTANTS
    Session,        \* connections to the debug monitor
    MaxSize,        \* bound on the size a load may announce, in units of data
    MaxCommands,    \* bound on the commands besides hello
    Startup,        \* registrations DXTMain makes, in order
    ImageStartup,   \* registrations the entrypoint of a loaded image may make
    ToExport,       \* registrations a client may ask for with "export"
    Module, Export, NULL, SCOPED, NOT_FOUND     \* see ModuleRegistry

ASSUME ExportAssumption ==
    Export \subseteq [ordinal : Nat, method_name : STRING \cup {NULL},
                      alias : STRING \cup {NULL}, address : Nat, storage : {"pool", "scoped"}]
ASSUME SentinelAssumption == SCOPED \notin Block /\ NOT_FOUND \notin Nat

(* The words of context_store tell a block from a place in the registry.   *)
ASSUME BlockAssumption == Block \cap Nat = {}
ASSUME MaxSizeAssumption == {MaxSize, MaxCommands} \subseteq Nat

(* One registration at start-up: linked says whether LinkLoadedModules     *)
(* makes it (and stops at the first failure) or DXTMain itself (which      *)
(* ignores failures).                                                      *)
ASSUME StartupAssumption ==
    Startup \in Seq([module : Module, export : Export, linked : BOOLEAN])
ASSUME ImageStartupAssumption ==
    ImageStartup \subseteq [module : Module, export : Export]
ASSUME ToExportAssumption ==
    ToExport \subseteq [module : Module, export : {x \in Export : x.storage = "pool"}]

VARIABLES
    lean_build,     \* whether LEAN_BUILD is defined
    pool, tables, nodes, listing, ret, fault,   \* see ModuleRegistry
    cursor,         \* words 0 and 1 of context_store
    raw_image_size, \* word 2 of context_store
    relocation_needed,  \* behind them
    todo,           \* start-up registrations still to make
    ctx,            \* the CommandContext of each connection
    images,         \* blocks of the images loaded so far
    reserved,       \* the blocks and sizes that "reserve" gave to clients
    commands,       \* how many commands besides hello there were
    parsed,         \* history: what was last loaded or called, until the next command
    aborted         \* history: a transfer or an own registration was given up

registry == <<tables, nodes, listing, ret>>
store == <<raw_image_size, relocation_needed>>
vars == <<lean_build, pool, tables, nodes, listing, ret, fault, cursor, store, todo, ctx, images,
          reserved, commands, parsed, aborted>>

R == INSTANCE ModuleRegistry

(* The fields of a CommandContext the loader uses.  buffer is the block    *)
(* and offset how far into it the pointer has moved; extent is what the    *)
(* block was allocated with.                                               *)
NoContext == [handler |-> "none", buffer |-> NULL, offset |-> 0, buffer_size |-> 0,
              bytes_remaining |-> 0, extent |-> 0]

(* The context of a connection that is to receive size units into b. *)
ToReceive(b, size, extent) ==
    [handler |-> "ReceiveImageData", buffer |-> b, offset |-> 0, buffer_size |-> size,
     bytes_remaining |-> size, extent |-> extent]

NothingParsed == [raw |-> NULL, own |-> NULL, size |-> 0, received |-> 0]

Init ==
    /\ R!Init
    /\ lean_build \in BOOLEAN
    /\ raw_image_size = 0
    /\ relocation_needed = FALSE
    /\ todo = Startup
    /\ commands = 0
    /\ ctx = [s \in Session |-> NoContext]
    /\ images = {}
    /\ reserved = {}
    /\ parsed = NothingParsed
    /\ aborted = FALSE

(* One more command, as far as the bound allows. *)
Count == commands < MaxCommands /\ commands' = commands + 1

Running == fault = "none" /\ todo = <<>>
ReservedBlocks == {r.block : r \in reserved}
Receiving(s) == ctx[s].handler = "ReceiveImageData"
SendingTo(s) == ctx[s].handler = "SendMethodAddresses"
-----------------------------------------------------------------------------
(* Variant of LinkLoadedModules: linking goes on after a failure. *)
LinkLoadedModulesOn(r) ==
    /\ R!MRRegisterMethod(r.module, r.export, pool, {})
    /\ todo' = Tail(todo)
    /\ UNCHANGED aborted

(* LinkLoadedModules, one export: a refusal stops the walk. *)
LinkLoadedModules(r) ==
    /\ R!MRRegisterMethod(r.module, r.export, pool, {})
    /\ todo' = IF ret' = "refused" THEN <<>> ELSE Tail(todo)
    /\ UNCHANGED aborted

(* DXTMain, one registration.  Its own go through RegisterExport, whose    *)
(* result it ignores. *)
DXTMain ==
    /\ fault = "none"
    /\ todo # <<>>
    /\ LET r == Head(todo)
       IN IF r.linked
          THEN LinkLoadedModules(r)
          ELSE /\ \/ R!RegisterExport(r.module, r.export)
                  \/ R!RegisterExportNoMemory(r.module, r.export)
               /\ todo' = Tail(todo)
               /\ aborted' = (aborted \/ ret' = "refused")
    /\ UNCHANGED <<lean_build, commands, store, ctx, images, reserved, parsed>>
-----------------------------------------------------------------------------
(* HandleHello: the cursor in context_store starts over. *)
HandleHello(s) ==
    /\ Running
    /\ ctx[s].handler = "none"
    /\ R!MREnumerateRegistryBegin
    /\ ctx' = [ctx EXCEPT ![s].handler = "SendMethodAddresses"]
    /\ parsed' = NothingParsed
    /\ UNCHANGED <<lean_build, commands, store, todo, images, reserved, aborted>>

(* Variants of SendMethodAddresses: the end of the registry is reported as *)
(* one more line; a single line is all there is.                           *)
SendMethodAddressesOn(s) ==
    /\ Running
    /\ SendingTo(s)
    /\ R!MREnumerateRegistry \/ R!MREnumerateRegistryEnd
    /\ UNCHANGED <<lean_build, commands, ctx, store, todo, images, reserved, parsed, aborted>>
SendOneMethodAddress(s) ==
    /\ Running
    /\ SendingTo(s)
    /\ ~R!AtEnd
    /\ listing' = [phase |-> "ended", due |-> listing.due,
                   given |-> <<R!Key(nodes[cursor.export_])>>]
    /\ ctx' = [ctx EXCEPT ![s] = NoContext]
    /\ UNCHANGED <<lean_build, commands, pool, tables, nodes, cursor, ret, fault, store, todo,
                   images, reserved, parsed, aborted>>

(* SendMethodAddresses: one line, or XBOX_S_NO_MORE_DATA. *)
SendMethodAddresses(s) ==
    /\ Running
    /\ SendingTo(s)
    /\ \/ R!MREnumerateRegistry /\ UNCHANGED ctx
       \/ R!MREnumerateRegistryEnd /\ ctx' = [ctx EXCEPT ![s] = NoContext]
       \/ /\ listing.phase = "ended"
          /\ ctx' = [ctx EXCEPT ![s] = NoContext]
          /\ UNCHANGED <<pool, tables, nodes, cursor, listing, ret, fault>>
    /\ UNCHANGED <<lean_build, commands, store, todo, images, reserved, parsed, aborted>>
-----------------------------------------------------------------------------
(* Variant of HandleDynamicLoad: the size of an earlier load is kept. *)
HandleDynamicLoadStaleSize(s, size) ==
    /\ Running
    /\ ctx[s].handler = "none"
    /\ Count
    /\ CanAlloc(pool)
    /\ size # 0
    /\ pool' = pool \cup {Alloc(pool)}
    /\ cursor' = [module_ |-> 0, export_ |-> Alloc(pool)]
    /\ raw_image_size' = IF raw_image_size = 0 THEN size ELSE raw_image_size
    /\ relocation_needed' = TRUE
    /\ ctx' = [ctx EXCEPT ![s] = ToReceive(Alloc(pool), size, size)]
    /\ parsed' = NothingParsed
    /\ UNCHANGED <<lean_build, registry, fault, todo, images, reserved, aborted>>

(* HandleDynamicLoad after its parameters were found.  A size of 0 is not  *)
(* refused: no data is left to receive, so the monitor never calls the     *)
(* handler and the block stays allocated.                                  *)
HandleDynamicLoad(s, size) ==
    /\ Running
    /\ ctx[s].handler = "none"
    /\ Count
    /\ CanAlloc(pool)
    /\ LET b == Alloc(pool)
       IN /\ pool' = pool \cup {b}
          /\ cursor' = [module_ |-> 0, export_ |-> b]
          /\ raw_image_size' = size
          /\ relocation_needed' = TRUE
          /\ IF size = 0
             THEN aborted' = TRUE /\ UNCHANGED ctx
             ELSE /\ ctx' = [ctx EXCEPT ![s] = ToReceive(b, size, size)]
                  /\ UNCHANGED aborted
    /\ parsed' = NothingParsed
    /\ UNCHANGED <<lean_build, registry, fault, todo, images, reserved>>

(* The block a pointer word of context_store points to. *)
BlockAt(w) == IF w \in DOMAIN nodes THEN nodes[w].at ELSE w

(* Variant of LoadFails: the raw image stays allocated. *)
LoadFailsKeepingRaw(raw) == UNCHANGED <<pool, fault, registry, cursor, images>>

(* DLLLoad fails: its own blocks and the raw image are freed. *)
LoadFails(raw) ==
    /\ IF MayFree(pool, {raw}) THEN pool' = Free(pool, {raw}) /\ UNCHANGED fault
                               ELSE fault' = "bad_free" /\ UNCHANGED pool
    /\ UNCHANGED <<registry, cursor, images>>

(* What an entrypoint does: it may register an export (without names). *)
CallDXTMain(p) ==
    \/ pool' = p /\ UNCHANGED <<registry, cursor, fault>>
    \/ \E r \in ImageStartup : R!MRRegisterMethod(r.module, r.export, p, {})

(* DLLLoad succeeds: the raw image is freed, the new image stays, and its  *)
(* entrypoint is called.                                                   *)
LoadSucceeds(raw) ==
    LET image == Alloc(pool)
    IN /\ CanAlloc(pool)
       /\ MayFree(pool, {raw})
       /\ images' = images \cup {image}
       /\ CallDXTMain(Free(pool, {raw}) \cup {image})

(* ReceiveImageDataComplete takes from context_store what to call, or the  *)
(* raw image to load.                                                      *)
ReceiveImageDataComplete(s, received) ==
    LET dxt_main == cursor.module_
        raw == BlockAt(cursor.export_)
        Stop(f) == fault' = f /\ UNCHANGED <<pool, registry, cursor, images, parsed>>
        Parse(b) == parsed' = [raw |-> b, own |-> ctx[s].buffer, size |-> raw_image_size,
                               received |-> received]
    IN CASE ~relocation_needed /\ dxt_main \notin ReservedBlocks -> Stop("wild_call")
         [] ~relocation_needed /\ dxt_main \in ReservedBlocks ->
                /\ Parse(dxt_main)
                /\ CallDXTMain(pool)
                /\ UNCHANGED images
         [] relocation_needed /\ raw = 0 -> Stop("null_read")
         [] OTHER -> Parse(raw) /\ (LoadFails(raw) \/ LoadSucceeds(raw))

(* Variants of Advance: the pointer moves by words; the size of what is    *)
(* left of the buffer is not reduced.                                      *)
AdvanceWords(c, n) ==
    [c EXCEPT !.offset = @ + 4 * n, !.buffer_size = @ - n, !.bytes_remaining = @ - n]
AdvanceKeepingSize(c, n) == [c EXCEPT !.offset = @ + n, !.bytes_remaining = @ - n]

(* ReceiveImageData, called with n bytes more in the buffer. *)
Advance(c, n) == [c EXCEPT !.offset = @ + n, !.buffer_size = @ - n, !.bytes_remaining = @ - n]

ReceiveImageData(s, n) ==
    /\ Running
    /\ Receiving(s)
    /\ n <= ctx[s].buffer_size
    /\ n <= ctx[s].bytes_remaining
    /\ LET c == Advance(ctx[s], n)
       IN IF c.bytes_remaining # 0
          THEN /\ ctx' = [ctx EXCEPT ![s] = c]
               /\ UNCHANGED <<pool, registry, fault, cursor, images, parsed>>
          ELSE /\ ctx' = [ctx EXCEPT ![s] = NoContext]
               /\ ReceiveImageDataComplete(s, c.offset)
    /\ UNCHANGED <<lean_build, commands, store, todo, reserved, aborted>>

(* The transfer of s is over and its buffer forgotten, a block that nobody *)
(* else knows of unless it was reserved.                                   *)
GivenUp(s) ==
    /\ ctx' = [ctx EXCEPT ![s] = NoContext]
    /\ aborted' = (aborted \/ (Receiving(s) /\ ctx[s].buffer \notin ReservedBlocks))

(* ReceiveImageData, called with no data: it reports an error and leaves   *)
(* the block allocated.                                                    *)
ReceiveNothing(s) ==
    /\ Running
    /\ Receiving(s)
    /\ GivenUp(s)
    /\ UNCHANGED <<lean_build, commands, pool, registry, fault, cursor, store, todo, images,
                   reserved, parsed>>

(* The connection goes away between two continuation calls.  Nothing tells *)
(* the loader.                                                             *)
Disconnect(s) ==
    /\ Running
    /\ ctx[s].handler # "none"
    /\ GivenUp(s)
    /\ UNCHANGED <<lean_build, commands, pool, registry, fault, cursor, store, todo, images,
                   reserved, parsed>>
-----------------------------------------------------------------------------
(* The commands that LEAN_BUILD leaves out.  A command refused for its     *)
(* parameters, or for lack of memory, changes nothing.                     *)

(* HandleReserve: the block is the client's from now on. *)
HandleReserve(s, size) ==
    /\ Running /\ ~lean_build
    /\ ctx[s].handler = "none"
    /\ Count
    /\ CanAlloc(pool)
    /\ pool' = pool \cup {Alloc(pool)}
    /\ reserved' = reserved \cup {[block |-> Alloc(pool), size |-> size]}
    /\ parsed' = NothingParsed
    /\ UNCHANGED <<lean_build, registry, fault, cursor, store, todo, ctx, images, aborted>>

(* Variant of HandleInstall: relocation_needed is left as it was. *)
HandleInstallKeepingFlag(s, r, length, entrypoint) ==
    /\ Running /\ ~lean_build
    /\ ctx[s].handler = "none"
    /\ Count
    /\ entrypoint \in 0 .. length - 1
    /\ cursor' = [module_ |-> r.block, export_ |-> r.block]
    /\ raw_image_size' = length
    /\ ctx' = [ctx EXCEPT ![s] = ToReceive(r.block, length, r.size)]
    /\ parsed' = NothingParsed
    /\ UNCHANGED <<lean_build, pool, registry, fault, relocation_needed, todo, images, reserved,
                   aborted>>

(* HandleInstall into what was reserved as r, length units, with the       *)
(* entrypoint that far behind base.                                        *)
HandleInstall(s, r, length, entrypoint) ==
    /\ Running /\ ~lean_build
    /\ ctx[s].handler = "none"
    /\ Count
    /\ length # 0
    /\ entrypoint >= 0
    /\ entrypoint < length
    /\ cursor' = [module_ |-> r.block, export_ |-> r.block]
    /\ raw_image_size' = length
    /\ relocation_needed' = FALSE
    /\ ctx' = [ctx EXCEPT ![s] = ToReceive(r.block, length, r.size)]
    /\ parsed' = NothingParsed
    /\ UNCHANGED <<lean_build, pool, registry, fault, todo, images, reserved, aborted>>

(* HandleRegisterModuleExport.  The parameters and the copy of the         *)
(* module's name come and go within the call.  If a copy cannot be had, or *)
(* the registration is refused, all copies are freed.                      *)
HandleRegisterModuleExport(s, r) ==
    /\ Running /\ ~lean_build
    /\ ctx[s].handler = "none"
    /\ Count
    /\ \/ R!RegisterExport(r.module, r.export) /\ (ret' # "refused" \/ fault' # "none")
       \/ /\ ret' = "refused"
          /\ UNCHANGED <<pool, tables, nodes, cursor, listing, fault>>
    /\ parsed' = NothingParsed
    /\ UNCHANGED <<lean_build, store, todo, ctx, images, reserved, aborted>>
-----------------------------------------------------------------------------
Next ==
    \/ DXTMain
    \/ \E s \in Session :
            \/ HandleHello(s)
            \/ SendMethodAddresses(s)
            \/ \E size \in 0 .. MaxSize : HandleDynamicLoad(s, size) \/ HandleReserve(s, size)
            \/ \E r \in reserved : \E length \in 0 .. r.size : \E entrypoint \in -1 .. length :
                    HandleInstall(s, r, length, entrypoint)
            \/ \E r \in ToExport : HandleRegisterModuleExport(s, r)
            \/ \E n \in 1 .. MaxSize : ReceiveImageData(s, n)
            \/ ReceiveNothing(s)
            \/ Disconnect(s)

Spec == Init /\ [][Next]_vars

(* The monitor keeps calling the handler of a connection that stays up. *)
FairSpec ==
    /\ Spec
    /\ WF_vars(DXTMain)
    /\ \A s \in Session :
            /\ WF_vars(SendMethodAddresses(s))
            /\ WF_vars(\E n \in 1 .. MaxSize : ReceiveImageData(s, n))
-----------------------------------------------------------------------------
(* Every variable has its type. *)
TypeOK ==
    /\ pool \subseteq Block
    /\ cursor \in [module_ : Nat \cup Block, export_ : Nat \cup Block]
    /\ raw_image_size \in 0 .. MaxSize
    /\ ctx \in [Session -> [handler : {"none", "SendMethodAddresses", "ReceiveImageData"},
                            buffer : Block \cup {NULL}, offset : 0 .. MaxSize,
                            buffer_size : 0 .. MaxSize, bytes_remaining : 0 .. MaxSize,
                            extent : 0 .. MaxSize]]
    /\ images \subseteq Block
    /\ reserved \subseteq [block : Block, size : 0 .. MaxSize]
    /\ {lean_build, relocation_needed, aborted} \subseteq BOOLEAN

Loading == {ctx[s].buffer : s \in {t \in Session : Receiving(t)}} \ ReservedBlocks

(* The loader never frees or uses a block that is not its own to free or   *)
(* use: registry, loaded images, blocks reserved for clients and transfer  *)
(* buffers are live blocks, no block serves two of them, and no free is    *)
(* wrong.                                                                  *)
MemorySafe ==
    /\ fault \notin {"bad_free", "wild_call"}
    /\ R!Exclusive
    /\ R!Owned \cup images \cup ReservedBlocks \cup Loading \subseteq pool
    /\ R!Owned \cap (images \cup ReservedBlocks \cup Loading) = {}
    /\ images \cap (ReservedBlocks \cup Loading) = {}

(* While no transfer and no registration of DXTMain's own was given up,    *)
(* nothing is allocated but the registry, the loaded images, what clients  *)
(* reserved, and the buffers of running transfers: a refused load, export  *)
(* or install leaves nothing.                                              *)
NoLeak ==
    ~aborted /\ fault = "none" => pool = R!Owned \cup images \cup ReservedBlocks \cup Loading

(* HandleDynamicLoad "Loads a DLL image": the loader parses, or for an     *)
(* install calls into, the block it received for that transfer, all of it, *)
(* at the size announced for it.                                           *)
ImageIntact ==
    parsed # NothingParsed =>
        /\ parsed.raw = parsed.own
        /\ parsed.size = parsed.received

(* The monitor fills ctx.buffer: it never gets past the end of the block.  *)
BufferInBounds ==
    \A s \in Session : Receiving(s) =>
        /\ ctx[s].offset + ctx[s].buffer_size <= ctx[s].extent
        /\ ctx[s].bytes_remaining = ctx[s].buffer_size

(* A listing that comes to its end has given out exactly what the registry *)
(* holds: with one connection nothing is registered meanwhile.             *)
HelloListsAll ==
    [][listing.phase = "open" /\ listing'.phase = "ended" =>
            {listing'.given[i] : i \in DOMAIN listing'.given}
                = {R!Key(nodes[i]) : i \in DOMAIN nodes}]_vars

Resolves(r) == R!MRGetMethodByOrdinal(r.module, r.export.ordinal) # NOT_FOUND

(* LinkLoadedModules stops at the first export it cannot register: the     *)
(* linked exports that are registered come before those that are not, as   *)
(* long as no image and no client has registered any.                      *)
LinkedPrefix ==
    lean_build /\ images = {} => \A i, j \in DOMAIN Startup :
        /\ i < j
        /\ Startup[i].linked /\ Startup[j].linked
        /\ Resolves(Startup[j])
        => Resolves(Startup[i])

(* A transfer or listing comes to an end, or the machine faults. *)
CommandsEnd ==
    \A s \in Session : ctx[s].handler # "none" ~> (ctx[s].handler = "none" \/ fault # "none")
=============================================================================
