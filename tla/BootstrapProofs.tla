--------------------------- MODULE BootstrapProofs ---------------------------
(***************************************************************************)
(* Proofs about Bootstrap, for every number of sessions and blocks, every  *)
(* width of a word and every set of commands: who owns the blocks, where   *)
(* L2 is written and what an install receives (IInv, for which it does not *)
(* matter what numbers amount to); what the numbers are and what the loop  *)
(* of a resolve makes of its arguments, by induction over their digits and *)
(* over the arguments; and the types, and what a resolve sends (JInv).     *)
(***************************************************************************)
EXTENDS Bootstrap, NatFacts, FiniteSetTheorems, TLAPS

Fields == {"handler", "buffer", "offset", "buffer_size", "user_data", "bytes_remaining"}

(* The shapes of the functions and records that are changed in place. *)
Shapes ==
    /\ pool \subseteq Block /\ regions \subseteq Block
    /\ DOMAIN extent = Block
    /\ DOMAIN ctx = Session /\ \A s \in Session : DOMAIN ctx[s] = Fields
    /\ DOMAIN expects = Session
    /\ \A s \in Session : expects[s] = [block |-> expects[s].block, size |-> expects[s].size,
                                        entrypoint |-> expects[s].entrypoint]

(* What L1 leaves in io for the host is a region, or 0. *)
Loading ==
    /\ fault # "wild_write"
    /\ stage = "allocated" /\ io # 0 => \E b \in regions : Address[b] = io
    /\ stage \in {"loaded", "L2"} => regions # {}

(* A promise not yet taken up is about the last region, and the size the   *)
(* connection is ready to receive is the region's.                         *)
Promised(s) ==
    /\ expects[s].block = g_image /\ g_image \in regions
    /\ expects[s].size = extent[g_image] /\ ctx[s].buffer_size = extent[g_image]
    /\ extent[g_image] \in Nat \ {0}

(* One that is being taken up: what has come and what is due make up the   *)
(* region.                                                                 *)
TakenUp(s) ==
    /\ ctx[s].buffer = expects[s].block /\ ctx[s].buffer \in regions
    /\ ctx[s].offset \in Nat /\ ctx[s].bytes_remaining \in Nat
    /\ ctx[s].offset + ctx[s].bytes_remaining = extent[ctx[s].buffer]
    /\ expects[s].size = extent[ctx[s].buffer]
    /\ g_image_entrypoint = expects[s].entrypoint

Promises ==
    /\ ~broken
    /\ \A s \in Session : expects[s] # Nothing =>
            /\ ~SendingTo(s)
            /\ ~Receiving(s) => ctx[s].handler = "none" /\ Promised(s)
            /\ Receiving(s) => TakenUp(s)

IInv == Shapes /\ RegionsOwn /\ Loading /\ Promises
-----------------------------------------------------------------------------
(* A block the pool hands out was free. *)
LEMMA AllocFresh ==
    ASSUME NEW p, CanAlloc(p)
    PROVE  Alloc(p) \in Block /\ Alloc(p) \notin p /\ Alloc(p) # NULL
BY NoBlockAssumption DEF CanAlloc, Alloc

LEMMA InitInv == ASSUME Init PROVE IInv
<1>1. Shapes
  BY DEF Init, Shapes, Fields, NewContext, Nothing
<1>2. \A s \in Session : ~SendingTo(s) /\ ~Receiving(s)
  BY DEF Init, SendingTo, Receiving, NewContext
<1>3. RegionsOwn
  BY <1>2 DEF Init, RegionsOwn, Buffers
<1>4. Loading /\ Promises
  BY <1>2 DEF Init, Loading, Promises
<1> QED BY <1>1, <1>3, <1>4 DEF IInv

(* The buffers stay as they are when no connection starts or stops being   *)
(* sent to.                                                                *)
LEMMA SameBuffers ==
    ASSUME \A s \in Session : /\ SendingTo(s)' <=> SendingTo(s)
                              /\ SendingTo(s) => ctx'[s].user_data = ctx[s].user_data
    PROVE  Buffers' = Buffers
BY DEF Buffers

LEMMA SameBlocks ==
    ASSUME IInv, UNCHANGED <<pool, regions, aborted, g_image>>,
           \A s \in Session : /\ SendingTo(s)' <=> SendingTo(s)
                              /\ SendingTo(s) => ctx'[s].user_data = ctx[s].user_data
    PROVE  RegionsOwn'
<1>1. Buffers' = Buffers
  BY SameBuffers
<1> QED BY <1>1 DEF IInv, RegionsOwn

(* A new region is none of the blocks in use. *)
LEMMA NewRegion ==
    ASSUME IInv, CanAlloc(pool), pool' = pool \cup {Alloc(pool)},
           regions' = regions \cup {Alloc(pool)}, UNCHANGED aborted,
           g_image' \in {g_image, Alloc(pool)},
           \A s \in Session : /\ SendingTo(s)' <=> SendingTo(s)
                              /\ SendingTo(s) => ctx'[s].user_data = ctx[s].user_data
    PROVE  RegionsOwn'
<1> DEFINE b == Alloc(pool)
<1>1. Buffers' = Buffers
  BY SameBuffers
<1>2. b \in Block /\ b \notin pool /\ b # NULL
  BY AllocFresh
<1> HIDE DEF b
<1>3. (regions \cup Buffers \subseteq pool)' /\ (regions \cap Buffers = {})'
  BY <1>1, <1>2 DEF IInv, RegionsOwn, b
<1>4. (~aborted => pool = regions \cup Buffers)' /\ (g_image \in regions \cup {NULL})'
  BY <1>1, <1>2 DEF IInv, RegionsOwn, b
<1> QED BY <1>3, <1>4 DEF IInv, RegionsOwn

LEMMA FaultInv ==
    ASSUME IInv, NEW f, f # "wild_write", Fault(f)
    PROVE  IInv'
<1>1. UNCHANGED <<pool, extent, stage, io, g_image, g_image_entrypoint, ctx, expects, broken,
                  regions, aborted>> /\ fault' = f
  BY DEF Fault, L1vars, history
<1>2. \A s \in Session : (SendingTo(s)' <=> SendingTo(s)) /\ (Receiving(s)' <=> Receiving(s))
  BY <1>1 DEF SendingTo, Receiving
<1>3. RegionsOwn'
  BY <1>1, <1>2, SameBlocks
<1>4. Shapes'
  BY <1>1 DEF IInv, Shapes
<1>5. Loading'
  BY <1>1 DEF IInv, Loading
<1>6. Promises'
  BY <1>1, <1>2 DEF IInv, Promises, Promised, TakenUp
<1> QED BY <1>3, <1>4, <1>5, <1>6 DEF IInv
-----------------------------------------------------------------------------
(* The steps of the host and of L1 touch no connection. *)
LEMMA HostInv ==
    ASSUME IInv, HostSetsSize \/ HostLoadsL2 \/ L1CallEntrypoint
    PROVE  IInv'
<1>1. UNCHANGED <<pool, extent, g_image, g_image_entrypoint, ctx, expects, broken,
                  regions, aborted>>
  BY DEF HostSetsSize, HostLoadsL2, L1CallEntrypoint, history
<1>2. \A s \in Session : (SendingTo(s)' <=> SendingTo(s)) /\ (Receiving(s)' <=> Receiving(s))
  BY <1>1 DEF SendingTo, Receiving
<1>3. RegionsOwn'
  BY <1>1, <1>2, SameBlocks
<1>4. Shapes'
  BY <1>1 DEF IInv, Shapes
<1>5. Promises'
  BY <1>1, <1>2 DEF IInv, Promises, Promised, TakenUp
<1>6. Loading'
  <2>1. CASE HostSetsSize
    BY <1>1, <2>1 DEF HostSetsSize, IInv, Loading
  <2>2. CASE L1CallEntrypoint
    BY <1>1, <2>2 DEF L1CallEntrypoint, IInv, Loading
  <2>3. CASE HostLoadsL2
    <3>1. stage = "allocated" /\ (io # 0 => \E b \in pool : Address[b] = io)
      BY <2>3 DEF HostLoadsL2, IInv, Loading, RegionsOwn
    <3> QED BY <1>1, <2>3, <3>1 DEF HostLoadsL2, IInv, Loading
  <2> QED BY <2>1, <2>2, <2>3
<1> QED BY <1>3, <1>4, <1>5, <1>6 DEF IInv

LEMMA L1AllocateInv == ASSUME IInv, L1Allocate PROVE IInv'
<1> DEFINE b == Alloc(pool)
<1>1. UNCHANGED <<g_image, g_image_entrypoint, ctx, expects, broken, aborted, fault>>
  BY DEF L1Allocate
<1>2. \A s \in Session : (SendingTo(s)' <=> SendingTo(s)) /\ (Receiving(s)' <=> Receiving(s))
  BY <1>1 DEF SendingTo, Receiving
<1>3. CASE io' = 0 /\ UNCHANGED <<pool, extent, regions>>
  <2>1. RegionsOwn'
    BY <1>1, <1>2, <1>3, SameBlocks
  <2>2. Shapes' /\ Loading'
    BY <1>1, <1>3 DEF L1Allocate, IInv, Shapes, Loading
  <2>3. Promises'
    BY <1>1, <1>2, <1>3 DEF IInv, Promises, Promised, TakenUp
  <2> QED BY <2>1, <2>2, <2>3 DEF IInv
<1>4. CASE /\ CanAlloc(pool)
           /\ pool' = pool \cup {Alloc(pool)}
           /\ extent' = [extent EXCEPT ![Alloc(pool)] = io]
           /\ regions' = regions \cup {Alloc(pool)}
           /\ io' = Address[Alloc(pool)]
  <2>1. b \in Block /\ b \notin pool /\ b # NULL
    BY <1>4, AllocFresh
  <2>2. RegionsOwn'
    BY <1>1, <1>2, <1>4, NewRegion
  <2>3. Shapes' /\ Loading'
    BY <1>1, <1>4, <2>1 DEF L1Allocate, IInv, Shapes, Loading
  <2>4. \A r \in regions : extent'[r] = extent[r]
    BY <1>4, <2>1 DEF IInv, Shapes, RegionsOwn
  <2>5. Promises'
    BY <1>1, <1>2, <1>4, <2>4 DEF IInv, Promises, Promised, TakenUp
  <2> QED BY <2>2, <2>3, <2>5 DEF IInv
<1> QED BY <1>3, <1>4 DEF L1Allocate
-----------------------------------------------------------------------------
(* A connection's step leaves the others as they were. *)
LEMMA OthersKept ==
    ASSUME IInv, NEW s \in Session, NEW c, DOMAIN c = Fields,
           ctx' = [ctx EXCEPT ![s] = c] \/ (ctx' = ctx /\ ctx[s] = c)
    PROVE  /\ DOMAIN ctx' = Session /\ \A t \in Session : DOMAIN ctx'[t] = Fields
           /\ ctx'[s] = c
           /\ \A t \in Session \ {s} : /\ ctx'[t] = ctx[t]
                                       /\ SendingTo(t)' <=> SendingTo(t)
                                       /\ Receiving(t)' <=> Receiving(t)
BY DEF IInv, Shapes, SendingTo, Receiving

(* And it forgets what was promised to that connection. *)
LEMMA ForgetPromises ==
    ASSUME IInv, NEW s \in Session, NEW c, DOMAIN c = Fields, ctx' = [ctx EXCEPT ![s] = c],
           expects' = Forget(s) \/ (expects' = expects /\ expects[s] = Nothing),
           UNCHANGED <<extent, regions, g_image, g_image_entrypoint>>, broken' = FALSE
    PROVE  /\ Promises'
           /\ DOMAIN expects' = Session
           /\ \A t \in Session :
                expects'[t] = [block |-> expects'[t].block, size |-> expects'[t].size,
                               entrypoint |-> expects'[t].entrypoint]
<1>1. /\ DOMAIN expects' = Session
      /\ \A t \in Session : expects'[t] = IF t = s THEN Nothing ELSE expects[t]
  BY DEF Forget, IInv, Shapes
<1>2. Promises'
  <2> SUFFICES ASSUME NEW t \in Session, expects'[t] # Nothing
               PROVE  /\ ~SendingTo(t)'
                      /\ ~Receiving(t)' => ctx'[t].handler = "none" /\ Promised(t)'
                      /\ Receiving(t)' => TakenUp(t)'
    BY DEF Promises
  <2>1. t \in Session \ {s} /\ expects'[t] = expects[t]
    BY <1>1
  <2>2. ctx'[t] = ctx[t] /\ (SendingTo(t)' <=> SendingTo(t)) /\ (Receiving(t)' <=> Receiving(t))
    BY <2>1, OthersKept
  <2> QED BY <2>1, <2>2 DEF IInv, Promises, Promised, TakenUp
<1>3. \A t \in Session :
        expects'[t] = [block |-> expects'[t].block, size |-> expects'[t].size,
                       entrypoint |-> expects'[t].entrypoint]
  BY <1>1 DEF IInv, Shapes, Nothing
<1> QED BY <1>1, <1>2, <1>3

(* The rest of the invariant, when nothing is promised to a connection     *)
(* whose context changes.                                                  *)
LEMMA RestKept ==
    ASSUME IInv, NEW s \in Session, NEW c, DOMAIN c = Fields, ctx' = [ctx EXCEPT ![s] = c],
           pool' \subseteq Block,
           expects' = Forget(s) \/ (expects' = expects /\ expects[s] = Nothing),
           UNCHANGED <<extent, stage, io, g_image, g_image_entrypoint, broken, regions, fault>>
    PROVE  Shapes' /\ Loading' /\ Promises'
<1>1. broken' = FALSE
  BY DEF IInv, Promises
<1>2. Promises' /\ Shapes'
  BY <1>1, OthersKept, ForgetPromises DEF IInv, Shapes
<1> QED BY <1>2 DEF IInv, Loading

LEMMA HandleAllocInv ==
    ASSUME IInv, NEW s \in Session, NEW n, HandleAlloc(s, n)
    PROVE  IInv'
<1> DEFINE size == parse_integer(n)
           b == Alloc(pool)
           c == [ctx[s] EXCEPT !.buffer_size = size]
<1>1. /\ ctx' = [ctx EXCEPT ![s] = c]
      /\ UNCHANGED <<stage, io, g_image_entrypoint, broken, aborted, fault>>
      /\ ctx[s].handler = "none"
  BY DEF HandleAlloc, L1vars, Idle
<1>2. DOMAIN c = Fields /\ c.handler = "none" /\ c.buffer_size = size
  BY <1>1 DEF IInv, Shapes, Fields
<1> HIDE DEF c
<1>3. /\ DOMAIN ctx' = Session /\ \A t \in Session : DOMAIN ctx'[t] = Fields
      /\ ctx'[s] = c
      /\ \A t \in Session \ {s} : ctx'[t] = ctx[t]
      /\ \A t \in Session : /\ SendingTo(t)' <=> SendingTo(t)
                            /\ Receiving(t)' <=> Receiving(t)
                            /\ SendingTo(t) => ctx'[t].user_data = ctx[t].user_data
  BY <1>1, <1>2, OthersKept DEF SendingTo, Receiving
<1>4. CASE expects' = Forget(s) /\ UNCHANGED <<pool, extent, g_image, regions>>
  <2>1. RegionsOwn'
    BY <1>1, <1>3, <1>4, SameBlocks
  <2>2. broken' = FALSE
    BY <1>1 DEF IInv, Promises
  <2>3. Promises' /\ Shapes'
    BY <1>1, <1>2, <1>3, <1>4, <2>2, ForgetPromises DEF IInv, Shapes
  <2>4. Loading'
    BY <1>1, <1>4 DEF IInv, Loading
  <2> QED BY <2>1, <2>3, <2>4 DEF IInv
<1>5. CASE /\ size \in Size /\ CanAlloc(pool)
           /\ pool' = pool \cup {b}
           /\ extent' = [extent EXCEPT ![b] = size]
           /\ g_image' = b
           /\ regions' = regions \cup {b}
           /\ expects' = [t \in Session |->
                IF t = s THEN [block |-> b, size |-> size, entrypoint |-> 0]
                ELSE IF Receiving(t) THEN expects[t] ELSE Nothing]
  <2> HIDE DEF size
  <2>1. b \in Block /\ b \notin pool /\ b # NULL /\ size \in Nat \ {0}
    <3>1. Size \subseteq Nat \ {0}
      BY WordAssumption
    <3> QED BY <1>5, <3>1, AllocFresh
  <2>2. RegionsOwn'
    BY <1>1, <1>3, <1>5, NewRegion
  <2> HIDE DEF b
  <2>3. Shapes'
    BY <1>3, <1>5, <2>1 DEF IInv, Shapes, Nothing
  <2>4. Loading'
    BY <1>1, <1>5 DEF IInv, Loading
  <2>5. /\ \A r \in regions : extent'[r] = extent[r]
        /\ extent'[b] = size /\ b \in regions'
    BY <1>5, <2>1 DEF IInv, Shapes, RegionsOwn
  <2>6. Promised(s)' /\ ~SendingTo(s)' /\ ~Receiving(s)' /\ ctx'[s].handler = "none"
    BY <1>2, <1>3, <1>5, <2>1, <2>5 DEF Promised, SendingTo, Receiving
  <2>7. ASSUME NEW t \in Session \ {s}, expects'[t] # Nothing
        PROVE  ~SendingTo(t)' /\ Receiving(t)' /\ TakenUp(t)'
    <3>1. Receiving(t) /\ expects'[t] = expects[t] /\ expects[t] # Nothing
      BY <1>5, <2>7
    <3>2. TakenUp(t) /\ ~SendingTo(t)
      BY <3>1 DEF IInv, Promises
    <3> QED BY <1>1, <1>3, <1>5, <2>5, <3>1, <3>2 DEF TakenUp
  <2>8. Promises'
    BY <1>1, <2>6, <2>7 DEF IInv, Promises
  <2> QED BY <2>2, <2>3, <2>4, <2>8 DEF IInv
<1> QED BY <1>4, <1>5 DEF HandleAlloc

LEMMA HandleInstallInv ==
    ASSUME IInv, NEW s \in Session, NEW n, HandleInstall(s, n)
    PROVE  IInv'
<1> DEFINE e == parse_integer(n)
           c == IF ctx[s].buffer_size = 0 THEN ctx[s]
                ELSE [ctx[s] EXCEPT !.handler = "ReceiveImageData", !.buffer = g_image,
                                    !.offset = 0, !.bytes_remaining = ctx[s].buffer_size]
<1>1. /\ ctx[s].buffer_size # 0 => ctx' = [ctx EXCEPT ![s] = c]
      /\ ctx[s].buffer_size = 0 => ctx' = ctx
      /\ UNCHANGED <<pool, extent, stage, io, g_image, broken, regions, aborted, fault>>
      /\ ctx[s].handler = "none"
      /\ g_image_entrypoint' = e
      /\ expects' = [t \in Session |->
            IF t = s THEN IF expects[s] = Nothing
                          THEN Nothing ELSE [expects[s] EXCEPT !.entrypoint = e]
            ELSE IF Receiving(t) THEN Nothing ELSE expects[t]]
  BY DEF HandleInstall, L1vars, Idle
<1>2. /\ DOMAIN c = Fields /\ c.handler \in {"none", "ReceiveImageData"}
      /\ ctx[s].buffer_size # 0 =>
            /\ c.handler = "ReceiveImageData" /\ c.buffer = g_image /\ c.offset = 0
            /\ c.bytes_remaining = ctx[s].buffer_size
  BY <1>1 DEF IInv, Shapes, Fields
<1>3. ctx' = [ctx EXCEPT ![s] = c] \/ (ctx' = ctx /\ ctx[s] = c)
  BY <1>1
<1> HIDE DEF c, e
<1>4. /\ DOMAIN ctx' = Session /\ \A t \in Session : DOMAIN ctx'[t] = Fields
      /\ ctx'[s] = c
      /\ \A t \in Session \ {s} : /\ ctx'[t] = ctx[t]
                                  /\ SendingTo(t)' <=> SendingTo(t)
                                  /\ Receiving(t)' <=> Receiving(t)
  BY <1>2, <1>3, OthersKept
<1>5. ~SendingTo(s) /\ ~SendingTo(s)' /\ ~Receiving(s)
  BY <1>1, <1>2, <1>4 DEF SendingTo, Receiving
<1>6. RegionsOwn'
  BY <1>1, <1>4, <1>5, SameBlocks
<1>7. /\ DOMAIN expects' = Session
      /\ expects[s] # Nothing => expects'[s] = [expects[s] EXCEPT !.entrypoint = e]
      /\ expects[s] = Nothing => expects'[s] = Nothing
      /\ \A t \in Session \ {s} : expects'[t] = IF Receiving(t) THEN Nothing ELSE expects[t]
  BY <1>1
<1>8. expects[s] # Nothing =>
            expects'[s] = [block |-> expects[s].block, size |-> expects[s].size, entrypoint |-> e]
  BY <1>7 DEF IInv, Shapes
<1>9. Shapes'
  <2>1. \A t \in Session : expects'[t] = [block |-> expects'[t].block, size |-> expects'[t].size,
                                           entrypoint |-> expects'[t].entrypoint]
    BY <1>7, <1>8 DEF IInv, Shapes, Nothing
  <2> QED BY <1>1, <1>4, <1>7, <2>1 DEF IInv, Shapes
<1>10. Loading'
  BY <1>1 DEF IInv, Loading
<1>11. ASSUME expects'[s] # Nothing PROVE Receiving(s)' /\ TakenUp(s)'
  <2>1. expects[s] # Nothing /\ Promised(s)
    BY <1>5, <1>7, <1>11 DEF IInv, Promises
  <2>2. ctx[s].buffer_size \in Nat \ {0} /\ ctx[s].buffer_size = extent[g_image]
        /\ expects[s].block = g_image /\ g_image \in regions /\ expects[s].size = extent[g_image]
    BY <2>1 DEF Promised
  <2>3. ctx'[s].handler = "ReceiveImageData" /\ ctx'[s].buffer = g_image /\ ctx'[s].offset = 0
        /\ ctx'[s].bytes_remaining = extent[g_image]
    BY <1>2, <1>4, <2>2
  <2>4. expects'[s].block = g_image /\ expects'[s].size = extent[g_image]
        /\ expects'[s].entrypoint = e
    BY <1>8, <2>1, <2>2
  <2> QED BY <1>1, <2>2, <2>3, <2>4 DEF Receiving, TakenUp
<1>12. ASSUME NEW t \in Session \ {s}, expects'[t] # Nothing
       PROVE  ~SendingTo(t)' /\ ~Receiving(t)' /\ ctx'[t].handler = "none" /\ Promised(t)'
  <2>1. ~Receiving(t) /\ expects'[t] = expects[t] /\ expects[t] # Nothing
    BY <1>7, <1>12
  <2>2. ~SendingTo(t) /\ ctx[t].handler = "none" /\ Promised(t)
    BY <2>1 DEF IInv, Promises
  <2> QED BY <1>1, <1>4, <2>1, <2>2 DEF Promised
<1>13. Promises'
  BY <1>1, <1>5, <1>11, <1>12 DEF IInv, Promises
<1> QED BY <1>6, <1>9, <1>10, <1>13 DEF IInv

LEMMA ReceiveImageDataInv ==
    ASSUME IInv, NEW s \in Session, NEW n \in 1 .. ctx[s].bytes_remaining, ReceiveImageData(s, n)
    PROVE  IInv'
<1> DEFINE c == [ctx[s] EXCEPT !.offset = @ + n, !.buffer_size = @ - n, !.bytes_remaining = @ - n]
           d == IF c.bytes_remaining # 0 THEN c ELSE Ended(c)
<1>1. CASE Fault("null_write") \/ Fault("overrun")
  BY <1>1, FaultInv
<1>2. CASE /\ IF c.bytes_remaining # 0
              THEN ctx' = [ctx EXCEPT ![s] = c] /\ UNCHANGED <<broken, expects>>
              ELSE /\ ctx' = [ctx EXCEPT ![s] = Ended(c)]
                   /\ broken' = (broken \/ expects[s] \notin
                        {Nothing, [block |-> c.buffer, size |-> c.offset,
                                   entrypoint |-> g_image_entrypoint]})
                   /\ expects' = Forget(s)
           /\ UNCHANGED <<pool, extent, L1vars, g_image, g_image_entrypoint, words, asked,
                          regions, aborted, fault>>
  <2>1. /\ UNCHANGED <<pool, extent, stage, io, g_image, g_image_entrypoint, regions, aborted,
                       fault>>
        /\ Receiving(s) /\ ~SendingTo(s)
        /\ ctx' = [ctx EXCEPT ![s] = d]
    BY <1>2 DEF ReceiveImageData, L1vars, Receiving, SendingTo
  <2>2. /\ DOMAIN c = Fields /\ c.handler = "ReceiveImageData" /\ c.buffer = ctx[s].buffer
        /\ c.offset = ctx[s].offset + n /\ c.bytes_remaining = ctx[s].bytes_remaining - n
    BY <2>1 DEF IInv, Shapes, Fields, Receiving
  <2> HIDE DEF c
  <2>3. DOMAIN d = Fields /\ d.handler \in {"none", "ReceiveImageData"}
    BY <2>2 DEF Ended, NewContext, Fields
  <2> HIDE DEF d
  <2>4. /\ DOMAIN ctx' = Session /\ \A t \in Session : DOMAIN ctx'[t] = Fields
        /\ ctx'[s] = d
        /\ \A t \in Session \ {s} : /\ ctx'[t] = ctx[t]
                                    /\ SendingTo(t)' <=> SendingTo(t)
                                    /\ Receiving(t)' <=> Receiving(t)
    BY <2>1, <2>3, OthersKept
  <2>5. ~SendingTo(s)'
    BY <2>3, <2>4 DEF SendingTo
  <2>6. RegionsOwn'
    BY <2>1, <2>4, <2>5, SameBlocks
  <2>7. Loading'
    BY <2>1 DEF IInv, Loading
  <2>8. CASE c.bytes_remaining # 0
    <3>1. d = c /\ UNCHANGED <<broken, expects>>
      BY <1>2, <2>8 DEF d
    <3>2. Shapes'
      BY <2>1, <2>4, <3>1 DEF IInv, Shapes
    <3>3. ASSUME expects[s] # Nothing PROVE Receiving(s)' /\ TakenUp(s)'
      <4>1. TakenUp(s)
        BY <2>1, <3>3 DEF IInv, Promises
      <4>2. ctx[s].offset \in Nat /\ ctx[s].bytes_remaining \in Nat /\ n \in Nat
            /\ n <= ctx[s].bytes_remaining
        BY <4>1 DEF TakenUp
      <4>3. c.offset \in Nat /\ c.bytes_remaining \in Nat
            /\ c.offset + c.bytes_remaining = ctx[s].offset + ctx[s].bytes_remaining
        BY <2>2, <4>2
      <4> QED BY <2>1, <2>2, <2>4, <3>1, <4>1, <4>3 DEF TakenUp, Receiving
    <3>4. ASSUME NEW t \in Session \ {s}, expects[t] # Nothing
          PROVE  /\ ~SendingTo(t)'
                 /\ ~Receiving(t)' => ctx'[t].handler = "none" /\ Promised(t)'
                 /\ Receiving(t)' => TakenUp(t)'
      BY <2>1, <2>4, <3>1, <3>4 DEF IInv, Promises, Promised, TakenUp
    <3>5. Promises'
      BY <2>5, <3>1, <3>3, <3>4 DEF IInv, Promises
    <3> QED BY <2>6, <2>7, <3>2, <3>5 DEF IInv
  <2>9. CASE c.bytes_remaining = 0
    <3>1. expects' = Forget(s)
      BY <1>2, <2>9
    <3>2. broken' = FALSE
      <4>1. CASE expects[s] = Nothing
        BY <1>2, <2>9, <4>1 DEF IInv, Promises
      <4>2. CASE expects[s] # Nothing
        <5>1. TakenUp(s)
          BY <2>1, <4>2 DEF IInv, Promises
        <5>2. c.offset = extent[ctx[s].buffer]
          BY <2>2, <2>9, <5>1 DEF TakenUp
        <5>3. expects[s] = [block |-> c.buffer, size |-> c.offset,
                            entrypoint |-> g_image_entrypoint]
          BY <2>2, <5>1, <5>2 DEF IInv, Shapes, TakenUp
        <5> QED BY <1>2, <2>9, <5>3 DEF IInv, Promises
      <4> QED BY <4>1, <4>2
    <3>3. Promises' /\ Shapes'
      BY <2>1, <2>3, <2>4, <3>1, <3>2, ForgetPromises DEF IInv, Shapes
    <3> QED BY <2>6, <2>7, <3>3 DEF IInv
  <2> QED BY <2>8, <2>9
<1> QED BY <1>1, <1>2 DEF ReceiveImageData

LEMMA ReceiveNothingInv ==
    ASSUME IInv, NEW s \in Session, ReceiveNothing(s)
    PROVE  IInv'
<1>1. /\ UNCHANGED <<pool, extent, stage, io, g_image, g_image_entrypoint, broken, regions,
                     aborted, fault>>
      /\ ~SendingTo(s)
      /\ ctx' = [ctx EXCEPT ![s] = Ended(ctx[s])] /\ expects' = Forget(s)
  BY DEF ReceiveNothing, L1vars, Receiving, SendingTo
<1>2. DOMAIN Ended(ctx[s]) = Fields /\ Ended(ctx[s]).handler = "none"
  BY DEF Ended, NewContext, Fields
<1>3. /\ DOMAIN ctx' = Session /\ \A t \in Session : DOMAIN ctx'[t] = Fields
      /\ ctx'[s] = Ended(ctx[s])
      /\ \A t \in Session \ {s} : ctx'[t] = ctx[t] /\ (SendingTo(t)' <=> SendingTo(t))
  BY <1>1, <1>2, OthersKept
<1>4. ~SendingTo(s)'
  BY <1>2, <1>3 DEF SendingTo
<1>5. RegionsOwn'
  BY <1>1, <1>3, <1>4, SameBlocks
<1>6. Shapes' /\ Loading' /\ Promises'
  BY <1>1, <1>2, RestKept DEF IInv, Shapes
<1> QED BY <1>5, <1>6 DEF IInv
-----------------------------------------------------------------------------
LEMMA HandleResolveNoMemoryInv ==
    ASSUME IInv, NEW s \in Session, NEW args, HandleResolveNoMemory(s, args)
    PROVE  IInv'
<1> DEFINE r == Resolved(args)
           c == ToSend(NULL, 0)
<1>1. CASE Fault("null_write") \/ Fault("bad_free")
  BY <1>1, FaultInv
<1>2. CASE r.status \in {"hang", "wild_read"} /\ Fault(r.status)
  BY <1>2, FaultInv
<1>3. CASE /\ ctx' = [ctx EXCEPT ![s] = c]
           /\ expects' = Forget(s)
           /\ UNCHANGED <<pool, extent, L1vars, g_image, g_image_entrypoint, words, asked,
                          broken, regions, aborted, fault>>
  <2>1. UNCHANGED <<pool, extent, stage, io, g_image, g_image_entrypoint, broken, regions,
                    aborted, fault>>
    BY <1>3 DEF L1vars
  <2>2. ~SendingTo(s)
    BY DEF HandleResolveNoMemory, Idle, SendingTo
  <2>3. DOMAIN c = Fields /\ c.user_data = NULL
    BY DEF ToSend, Fields
  <2> HIDE DEF c
  <2>4. /\ ctx'[s] = c
        /\ \A t \in Session \ {s} : ctx'[t] = ctx[t] /\ (SendingTo(t)' <=> SendingTo(t))
    BY <1>3, <2>3, OthersKept
  <2>5. Shapes' /\ Loading' /\ Promises'
    BY <1>3, <2>1, <2>3, RestKept DEF IInv, Shapes
  <2>6. Buffers' = Buffers
    BY <2>2, <2>3, <2>4 DEF Buffers
  <2>7. RegionsOwn'
    BY <2>1, <2>2, <2>3, <2>4, <2>6 DEF IInv, RegionsOwn
  <2> QED BY <2>5, <2>7 DEF IInv
<1> QED BY <1>1, <1>2, <1>3 DEF HandleResolveNoMemory

LEMMA HandleResolveInv ==
    ASSUME IInv, NEW s \in Session, NEW args, HandleResolve(s, args)
    PROVE  IInv'
<1> DEFINE r == Resolved(args)
           b == Alloc(pool)
           c == ToSend(b, 4 * Len(r.words))
<1>1. CanAlloc(pool) /\ ctx[s].handler = "none"
  BY DEF HandleResolve, Idle
<1>2. ~SendingTo(s)
  BY <1>1 DEF SendingTo
<1>3. CASE /\ pool' = pool \cup {b}
           /\ ctx' = [ctx EXCEPT ![s] = c]
           /\ expects' = Forget(s)
           /\ UNCHANGED <<extent, L1vars, g_image, g_image_entrypoint, broken, regions, aborted,
                          fault>>
  <2>1. UNCHANGED <<extent, stage, io, g_image, g_image_entrypoint, broken, regions,
                    aborted, fault>>
    BY <1>3 DEF L1vars
  <2>2. DOMAIN c = Fields /\ c.user_data = b /\ c.handler = "SendResolvedExports"
    BY DEF ToSend, Fields
  <2> HIDE DEF c
  <2>3. b \in Block /\ b \notin pool /\ b # NULL
    BY <1>1, AllocFresh
  <2> HIDE DEF b
  <2>4. /\ ctx'[s] = c
        /\ \A t \in Session \ {s} : ctx'[t] = ctx[t] /\ (SendingTo(t)' <=> SendingTo(t))
    BY <1>3, <2>2, OthersKept
  <2>5. Shapes' /\ Loading' /\ Promises'
    BY <1>3, <2>1, <2>2, <2>3, RestKept DEF IInv, Shapes
  <2>6. Buffers' = Buffers \cup {b}
    BY <1>2, <2>2, <2>3, <2>4 DEF Buffers, SendingTo
  <2>7. \A t \in Session : SendingTo(t) /\ ctx[t].user_data # NULL => ctx[t].user_data # b
    BY <2>3 DEF IInv, RegionsOwn, Buffers
  <2>8. ASSUME NEW t \in Session, NEW u \in Session,
               SendingTo(t)', SendingTo(u)', t # u, ctx'[t].user_data # NULL
        PROVE  ctx'[t].user_data # ctx'[u].user_data
    <3>1. CASE t # s /\ u # s
      BY <2>4, <2>8, <3>1 DEF IInv, RegionsOwn
    <3>2. CASE t = s
      BY <2>2, <2>3, <2>4, <2>7, <2>8, <3>2
    <3>3. CASE u = s
      BY <2>2, <2>4, <2>7, <2>8, <3>3
    <3> QED BY <3>1, <3>2, <3>3
  <2>9. RegionsOwn'
    BY <1>3, <2>1, <2>3, <2>6, <2>8 DEF IInv, RegionsOwn
  <2> QED BY <2>5, <2>9 DEF IInv
<1>4. CASE /\ ctx' = [ctx EXCEPT ![s].buffer_size = 0]
           /\ expects' = Forget(s)
           /\ UNCHANGED <<pool, extent, L1vars, g_image, g_image_entrypoint, words, asked,
                          broken, regions, aborted, fault>>
  <2> DEFINE d == [ctx[s] EXCEPT !.buffer_size = 0]
  <2>1. UNCHANGED <<pool, extent, stage, io, g_image, g_image_entrypoint, broken, regions,
                    aborted, fault>> /\ ctx' = [ctx EXCEPT ![s] = d]
    BY <1>4 DEF L1vars
  <2>2. DOMAIN d = Fields /\ d.handler = "none"
    BY <1>1 DEF IInv, Shapes, Fields
  <2> HIDE DEF d
  <2>3. Shapes' /\ Loading' /\ Promises'
    BY <1>4, <2>1, <2>2, RestKept DEF IInv, Shapes
  <2>4. /\ ~SendingTo(s)'
        /\ \A t \in Session \ {s} : ctx'[t] = ctx[t] /\ (SendingTo(t)' <=> SendingTo(t))
    BY <2>1, <2>2, OthersKept DEF SendingTo
  <2>5. RegionsOwn'
    BY <1>2, <2>1, <2>4, SameBlocks
  <2> QED BY <2>3, <2>5 DEF IInv
<1>5. CASE /\ r.status \in {"hang", "wild_read", "overrun"}
           /\ fault' = r.status
           /\ UNCHANGED <<pool, extent, L1vars, g_image, g_image_entrypoint, ctx, words,
                          expects, broken, regions, aborted>>
  <2>1. UNCHANGED <<pool, extent, stage, io, g_image, g_image_entrypoint, ctx, expects, broken,
                    regions, aborted>> /\ fault' # "wild_write"
    BY <1>5 DEF L1vars
  <2>2. \A t \in Session : (SendingTo(t)' <=> SendingTo(t)) /\ (Receiving(t)' <=> Receiving(t))
    BY <2>1 DEF SendingTo, Receiving
  <2>3. RegionsOwn'
    BY <2>1, <2>2, SameBlocks
  <2>4. Shapes' /\ Loading'
    BY <2>1 DEF IInv, Shapes, Loading
  <2>5. Promises'
    BY <2>1, <2>2 DEF IInv, Promises, Promised, TakenUp
  <2> QED BY <2>3, <2>4, <2>5 DEF IInv
<1> QED BY <1>3, <1>4, <1>5 DEF HandleResolve

LEMMA SendResolvedExportsInv ==
    ASSUME IInv, NEW s \in Session, SendResolvedExports(s)
    PROVE  IInv'
<1>1. SendingTo(s) /\ expects[s] = Nothing
  BY DEF SendResolvedExports, IInv, Promises
<1>2. CASE /\ ctx' = [ctx EXCEPT ![s].bytes_remaining = 0]
           /\ UNCHANGED <<pool, extent, L1vars, g_image, g_image_entrypoint, words, history,
                          fault>>
  <2> DEFINE c == [ctx[s] EXCEPT !.bytes_remaining = 0]
  <2>1. /\ UNCHANGED <<pool, extent, stage, io, g_image, g_image_entrypoint, broken, regions,
                       aborted, expects, fault>>
        /\ ctx' = [ctx EXCEPT ![s] = c]
    BY <1>2 DEF L1vars, history
  <2>2. DOMAIN c = Fields /\ c.handler = "SendResolvedExports" /\ c.user_data = ctx[s].user_data
    BY <1>1 DEF IInv, Shapes, Fields, SendingTo
  <2> HIDE DEF c
  <2>3. Shapes' /\ Loading' /\ Promises'
    BY <1>1, <2>1, <2>2, RestKept DEF IInv, Shapes
  <2>4. /\ ctx'[s] = c
        /\ \A t \in Session \ {s} : ctx'[t] = ctx[t] /\ (SendingTo(t)' <=> SendingTo(t))
    BY <2>1, <2>2, OthersKept
  <2>5. SendingTo(s)'
    BY <2>2, <2>4 DEF SendingTo
  <2>6. RegionsOwn'
    BY <1>1, <2>1, <2>2, <2>4, <2>5, SameBlocks
  <2> QED BY <2>3, <2>6 DEF IInv
<1>3. CASE Fault("bad_free")
  BY <1>3, FaultInv
<1>4. CASE /\ MayFree(pool, {ctx[s].user_data})
           /\ ctx' = [ctx EXCEPT ![s] = Ended(@)]
           /\ pool' = Free(pool, {ctx[s].user_data})
           /\ UNCHANGED <<extent, L1vars, g_image, g_image_entrypoint, expects, broken, regions,
                          aborted, fault>>
  <2> DEFINE b == ctx[s].user_data
  <2>1. /\ UNCHANGED <<extent, stage, io, g_image, g_image_entrypoint, broken, regions,
                       aborted, expects, fault>>
        /\ ctx' = [ctx EXCEPT ![s] = Ended(ctx[s])]
        /\ pool' = pool \ {b} /\ b \in pool
    BY <1>4 DEF L1vars, Free, MayFree
  <2>2. DOMAIN Ended(ctx[s]) = Fields /\ Ended(ctx[s]).handler = "none"
    BY DEF Ended, NewContext, Fields
  <2>3. pool' \subseteq Block /\ b # NULL
    BY <2>1, NoBlockAssumption DEF IInv, Shapes
  <2>4. Shapes' /\ Loading' /\ Promises'
    BY <1>1, <2>1, <2>2, <2>3, RestKept
  <2>5. /\ ~SendingTo(s)'
        /\ \A t \in Session \ {s} : ctx'[t] = ctx[t] /\ (SendingTo(t)' <=> SendingTo(t))
    BY <2>1, <2>2, OthersKept DEF SendingTo
  <2> HIDE DEF b
  <2>6. b \notin regions /\ \A t \in Session \ {s} : SendingTo(t) => ctx[t].user_data # b
    BY <1>1, <2>3 DEF IInv, RegionsOwn, Buffers, b
  <2>7. Buffers' = Buffers \ {b}
    BY <2>5, <2>6 DEF Buffers, b
  <2>8. RegionsOwn'
    BY <2>1, <2>5, <2>6, <2>7 DEF IInv, RegionsOwn
  <2> QED BY <2>4, <2>8 DEF IInv
<1> QED BY <1>2, <1>3, <1>4 DEF SendResolvedExports

LEMMA DisconnectInv ==
    ASSUME IInv, NEW s \in Session, Disconnect(s)
    PROVE  IInv'
<1>1. /\ UNCHANGED <<pool, extent, stage, io, g_image, g_image_entrypoint, broken, regions, fault>>
      /\ ctx' = [ctx EXCEPT ![s] = NewContext] /\ expects' = Forget(s)
      /\ aborted' = (aborted \/ SendingTo(s))
  BY DEF Disconnect, L1vars
<1>2. DOMAIN NewContext = Fields /\ NewContext.handler = "none"
  BY DEF NewContext, Fields
<1>3. Shapes' /\ Loading' /\ Promises'
  BY <1>1, <1>2, RestKept DEF IInv, Shapes
<1>4. /\ ~SendingTo(s)'
      /\ \A t \in Session \ {s} : ctx'[t] = ctx[t] /\ (SendingTo(t)' <=> SendingTo(t))
  BY <1>1, <1>2, OthersKept DEF SendingTo
<1>5. Buffers' \subseteq Buffers /\ (~SendingTo(s) => Buffers' = Buffers)
  BY <1>4 DEF Buffers
<1>6. RegionsOwn'
  BY <1>1, <1>4, <1>5 DEF IInv, RegionsOwn
<1> QED BY <1>3, <1>6 DEF IInv
-----------------------------------------------------------------------------
(* The invariant holds in every state. *)
THEOREM InductiveInvariant == Spec => []IInv
<1>1. Init => IInv
  BY InitInv
<1>2. IInv /\ [Next]_vars => IInv'
  <2> SUFFICES ASSUME IInv, [Next]_vars PROVE IInv'
    OBVIOUS
  <2>1. CASE UNCHANGED vars
    <3>1. UNCHANGED <<pool, extent, stage, io, g_image, g_image_entrypoint, ctx, expects, broken,
                      regions, aborted, fault>>
      BY <2>1 DEF vars, L1vars, history
    <3>2. \A t \in Session : (SendingTo(t)' <=> SendingTo(t)) /\ (Receiving(t)' <=> Receiving(t))
      BY <3>1 DEF SendingTo, Receiving
    <3>3. RegionsOwn'
      BY <3>1, <3>2, SameBlocks
    <3>4. Shapes' /\ Loading'
      BY <3>1 DEF IInv, Shapes, Loading
    <3>5. Promises'
      BY <3>1, <3>2 DEF IInv, Promises, Promised, TakenUp
    <3> QED BY <3>3, <3>4, <3>5 DEF IInv
  <2>2. CASE HostSetsSize \/ L1Allocate \/ HostLoadsL2 \/ L1CallEntrypoint
    BY <2>2, HostInv, L1AllocateInv
  <2>3. ASSUME NEW s \in Session, NEW n \in Number,
               HandleAlloc(s, n) \/ HandleInstall(s, n) \/ HandleHangingNumber(s, n)
        PROVE  IInv'
    BY <2>3, HandleAllocInv, HandleInstallInv, FaultInv DEF HandleHangingNumber
  <2>4. ASSUME NEW s \in Session, NEW args \in ArgumentList,
               HandleResolve(s, args) \/ HandleResolveNoMemory(s, args)
        PROVE  IInv'
    BY <2>4, HandleResolveInv, HandleResolveNoMemoryInv
  <2>5. ASSUME NEW s \in Session, NEW n \in 1 .. ctx[s].bytes_remaining, ReceiveImageData(s, n)
        PROVE  IInv'
    BY <2>5, ReceiveImageDataInv
  <2>6. ASSUME NEW s \in Session, SendResolvedExports(s) \/ ReceiveNothing(s) \/ Disconnect(s)
        PROVE  IInv'
    BY <2>6, SendResolvedExportsInv, ReceiveNothingInv, DisconnectInv
  <2> QED BY <2>1, <2>2, <2>3, <2>4, <2>5, <2>6 DEF Next
<1> QED BY <1>1, <1>2, PTL DEF Spec

(* L2's handlers, of any number of connections, give back every buffer of  *)
(* a resolve but a lost connection's, free none twice, and never hand a    *)
(* block out both as a region and as a buffer.                             *)
THEOREM RegionsOwned == Spec => []RegionsOwn
<1>1. IInv => RegionsOwn
  BY DEF IInv
<1> QED BY <1>1, InductiveInvariant, PTL

(* The host writes L2 into a block L1 allocated, although L1's bootstrap   *)
(* returns the same whether it got one or not.                             *)
THEOREM L2InRegion == Spec => []LoadedInRegion
<1>1. IInv => LoadedInRegion
  BY DEF IInv, Loading, LoadedInRegion
<1> QED BY <1>1, InductiveInvariant, PTL

(* HandleAlloc, HandleInstall and ReceiveImageData keep the promise to a   *)
(* client that installs next into what it allocated, whatever the others   *)
(* do to the globals they share, short of an install of their own.         *)
THEOREM InstallsIntact == Spec => []InstallIntact
<1>1. IInv => InstallIntact
  BY DEF IInv, Promises, TakenUp, InstallIntact
<1> QED BY <1>1, InductiveInvariant, PTL
-----------------------------------------------------------------------------
(* Numbers, of every word and base: what parse_integer makes of a list of  *)
(* digits, and what integer_to_hex writes.                                 *)
V == INSTANCE FoldFacts WITH Op <- AddDigit, Start <- 0

Digit == 0 .. Base - 1

LEMMA ValueFolds == \A digits : Value(digits) = V!Fold(digits)
BY DEF Value, V!Fold, FoldLeft, V!FoldLeft, MapThenFoldSet, V!MapThenFoldSet, Max, V!Max

(* What can stand before the first character that is no digit.             *)
LEMMA DigitsType ==
    ASSUME NEW chars \in Seq(0 .. OTHER_CHAR)
    PROVE  Digits(chars) \in Seq(Digit)
<1>1. Base \in Nat
  BY WordAssumption
<1> DEFINE I == {i \in 1 .. Len(chars) : NoDigit(chars[i])}
<1>2. DigitsEnd(chars) = IF I # {} THEN Min(I) ELSE 0
  BY DEF DigitsEnd, SelectInSeq
<1>3. CASE I = {}
  <2>1. DigitsEnd(chars) = 0
    BY <1>2, <1>3
  <2>2. \A i \in 1 .. Len(chars) : chars[i] \in Digit
    BY <1>1, <1>3 DEF NoDigit, Digit, OTHER_CHAR
  <2> QED BY <2>1, <2>2 DEF Digits
<1>4. CASE I # {}
  <2>0. /\ I \subseteq 1 .. Len(chars) /\ I \subseteq Nat
        /\ \A i \in 1 .. Len(chars) : i \in I \/ ~NoDigit(chars[i])
    OBVIOUS
  <2> DEFINE m == DigitsEnd(chars)
  <2> HIDE DEF I
  <2>1. \E x \in I : \A y \in I : x <= y
    BY <2>0, <1>4, LeastNumber
  <2>2. m = Min(I) /\ m \in I /\ \A y \in I : m <= y
    BY <2>1, <1>2, <1>4 DEF Min
  <2> HIDE DEF m
  <2>3. m \in 1 .. Len(chars) /\ \A i \in 1 .. m - 1 : ~NoDigit(chars[i])
    BY <2>0, <2>2
  <2> USE DEF m
  <2>4. Digits(chars) = SubSeq(chars, 1, m - 1)
    BY <2>3 DEF Digits
  <2> HIDE DEF m
  <2>5. \A i \in 1 .. m - 1 : chars[i] \in Digit
    BY <1>1, <2>3 DEF NoDigit, Digit, OTHER_CHAR
  <2> QED BY <2>3, <2>4, <2>5
<1> QED BY <1>3, <1>4

(* Digits alone are all read.                                              *)
LEMMA DigitsAll ==
    ASSUME NEW chars \in Seq(Digit)
    PROVE  Digits(chars) = chars
<1>1. \A i \in 1 .. Len(chars) : ~NoDigit(chars[i])
  BY WordAssumption DEF NoDigit, Digit
<1>2. DigitsEnd(chars) = 0
  BY <1>1 DEF DigitsEnd, SelectInSeq
<1> QED BY <1>2 DEF Digits

LEMMA ValueEmpty == Value(<<>>) = 0
BY ValueFolds, V!FoldEmpty

LEMMA ValueAppend ==
    ASSUME NEW digits \in Seq(Digit), NEW d \in Digit
    PROVE  Value(Append(digits, d)) = (Value(digits) * Base + d) % Word
<1> DEFINE t == Append(digits, d)
           n == Len(digits)
<1>1. n \in Nat /\ DOMAIN digits = 1 .. n /\ DOMAIN t = 1 .. n + 1 /\ t[n + 1] = d
  OBVIOUS
<1>2. \A i \in 1 .. n : digits[i] = t[i]
  OBVIOUS
<1> HIDE DEF t, n
<1>3. V!Fold(t) = AddDigit(V!Fold(digits), t[n + 1])
  BY <1>1, <1>2, V!FoldLonger
<1> QED BY <1>1, <1>3, ValueFolds DEF AddDigit, t

(* A number read keeps to a register.                                      *)
LEMMA ValueType ==
    ASSUME NEW digits \in Seq(Digit)
    PROVE  Value(digits) \in 0 .. Word - 1
<1>1. Word \in Nat \ {0} /\ Base \in Nat
  BY WordAssumption
<1> DEFINE T == {k \in Nat : \A s \in Seq(Digit) : Len(s) = k => Value(s) \in 0 .. Word - 1}
           n == Len(digits)
<1>2. 0 \in T
  <2>1. ASSUME NEW s \in Seq(Digit), Len(s) = 0 PROVE s = <<>>
    BY <2>1
  <2> QED BY <1>1, <2>1, ValueEmpty
<1>3. ASSUME NEW k \in 0 .. n - 1, k \in T PROVE k + 1 \in T
  <2>1. ASSUME NEW s \in Seq(Digit), Len(s) = k + 1 PROVE Value(s) \in 0 .. Word - 1
    <3> DEFINE r == SubSeq(s, 1, k)
               d == s[k + 1]
    <3>1. r \in Seq(Digit) /\ Len(r) = k /\ d \in Digit /\ s = Append(r, d)
      BY <2>1
    <3>2. Value(r) \in 0 .. Word - 1
      BY <3>1, <1>3
    <3> HIDE DEF r, d
    <3>3. Value(s) = (Value(r) * Base + d) % Word
      BY <3>1, ValueAppend
    <3>4. Value(r) * Base + d \in Int
      BY <1>1, <3>1, <3>2 DEF Digit
    <3> QED BY <1>1, <3>3, <3>4, ModuloParts
  <2> QED BY <2>1
<1>4. n \in Nat
  OBVIOUS
<1> HIDE DEF T
<1>5. \A k \in 0 .. n : k \in T
  BY <1>2, <1>3, <1>4, InductionTo
<1> QED BY <1>4, <1>5 DEF T

LEMMA IntegerType ==
    ASSUME NEW n, n.chars \in Seq(0 .. OTHER_CHAR)
    PROVE  parse_integer(n) \in 0 .. Word - 1
BY DigitsType, ValueType, WordAssumption DEF parse_integer
(* The recursion of integer_to_hex goes down.                              *)
LEMMA QuotientSmaller ==
    ASSUME NEW v \in Nat, v # 0
    PROVE  v \div Base \in 0 .. v - 1 /\ v % Base \in Digit /\ v = Base * (v \div Base) + (v % Base)
<1> DEFINE q == v \div Base
           x == v % Base
<1>1. Base \in Nat \ {0} /\ Base >= 2
  BY WordAssumption
<1>2. q \in Int /\ x \in 0 .. Base - 1 /\ v = Base * q + x
  BY <1>1, ModuloParts
<1> HIDE DEF q, x
<1>3. q >= 0
  <2>1. SUFFICES ASSUME q <= -1 PROVE FALSE
    BY <1>2
  <2>2. Base * q <= -Base
    BY <2>1, <1>1, <1>2
  <2> QED BY <2>2, <1>1, <1>2
<1>4. Base * q >= 2 * q
  BY <1>1, <1>2, <1>3
<1>5. q < v
  <2>1. \A p \in Int : p >= 2 * q /\ v = p + x => q < v
    BY <1>1, <1>2, <1>3
  <2>2. Base * q \in Int
    BY <1>1, <1>2
  <2> QED BY <2>1, <2>2, <1>2, <1>4
<1> QED BY <1>2, <1>3, <1>5 DEF q, x, Digit

HexStep(f, v) == IF v = 0 THEN <<>> ELSE Append(f[v \div Base], v % Base)

(* integer_to_hex comes to an end on every number of a register.           *)
LEMMA HexExists ==
    \A v \in 0 .. Word - 1 : HexDigits[v] = HexStep(HexDigits, v)
<1>1. Word \in Nat
  BY WordAssumption
<1> DEFINE Hex(k, f) == f = [v \in 0 .. k - 1 |-> HexStep(f, v)]
           T == {k \in Nat : \E f : Hex(k, f)}
<1>2. 0 \in T
  <2>1. Hex(0, [v \in {} |-> <<>>])
    OBVIOUS
  <2> QED BY <2>1
<1>3. ASSUME NEW k \in 0 .. Word - 1, k \in T PROVE k + 1 \in T
  <2>1. PICK f : Hex(k, f)
    BY <1>3
  <2> DEFINE g == [v \in 0 .. k |-> HexStep(f, v)]
  <2>2. \A v \in 0 .. k - 1 : g[v] = f[v]
    BY <2>1
  <2>3. \A v \in 0 .. k : v # 0 => v \div Base \in 0 .. k - 1
    <3> TAKE v \in 0 .. k
    <3> HAVE v # 0
    <3>1. v \div Base \in 0 .. v - 1
      BY QuotientSmaller
    <3> QED BY <3>1
  <2> HIDE DEF g
  <2>4. \A v \in 0 .. k : HexStep(g, v) = HexStep(f, v)
    BY <2>2, <2>3 DEF HexStep
  <2>5. Hex(k + 1, g)
    BY <2>4 DEF g
  <2> QED BY <2>5
<1> HIDE DEF T
<1>4. Word \in T
  BY <1>1, <1>2, <1>3, InductionTo
<1>5. \E f : Hex(Word, f)
  BY <1>4 DEF T
<1>6. HexDigits = CHOOSE f : Hex(Word, f)
  BY DEF HexDigits, HexStep
<1>7. Hex(Word, HexDigits)
  BY <1>5, <1>6
<1> QED BY <1>7

(* What integer_to_hex writes for a number is read back as the number.     *)
LEMMA HexReadsBack ==
    \A v \in 0 .. Word - 1 : HexDigits[v] \in Seq(Digit) /\ Value(HexDigits[v]) = v
<1>1. Word \in Nat \ {0} /\ Base \in Nat
  BY WordAssumption
<1> DEFINE T == {v \in Nat : v < Word => HexDigits[v] \in Seq(Digit) /\ Value(HexDigits[v]) = v}
<1>2. ASSUME NEW v \in Nat, \A m \in 0 .. v - 1 : m \in T PROVE v \in T
  <2> SUFFICES ASSUME v < Word
               PROVE  HexDigits[v] \in Seq(Digit) /\ Value(HexDigits[v]) = v
    OBVIOUS
  <2>1. HexDigits[v] = HexStep(HexDigits, v)
    BY HexExists, <1>1
  <2>2. CASE v = 0
    BY <2>1, <2>2, ValueEmpty DEF HexStep
  <2>3. CASE v # 0
    <3> DEFINE q == v \div Base
               d == v % Base
               h == HexDigits[q]
    <3>1. q \in 0 .. v - 1 /\ d \in Digit /\ v = Base * q + d
      BY <2>3, QuotientSmaller
    <3>2. h \in Seq(Digit) /\ Value(h) = q
      BY <3>1, <1>2, <1>1
    <3>3. HexDigits[v] = Append(h, d)
      BY <2>1, <2>3 DEF HexStep
    <3> HIDE DEF q, d, h
    <3>4. Value(Append(h, d)) = (q * Base + d) % Word
      BY <3>2, <3>1, ValueAppend
    <3>5. q * Base + d = v /\ v \in 0 .. Word - 1
      BY <3>1, <1>1 DEF Digit
    <3>6. v % Word = v
      BY <1>1, <3>5, ModuloSmall
    <3>7. Append(h, d) \in Seq(Digit)
      BY <3>1, <3>2
    <3> QED BY <3>3, <3>4, <3>5, <3>6, <3>7
  <2> QED BY <2>2, <2>3
<1> HIDE DEF T
<1>3. \A v \in Nat : v \in T
  BY <1>2, StrongInduction
<1> QED BY <1>1, <1>3 DEF T

(* parse_integer undoes integer_to_hex, for every word, base and address:  *)
(* the base in the response to an alloc command is the region's address.   *)
THEOREM BasesReadBack == Spec => []BaseReadsBack
<1>1. IInv => BaseReadsBack
  <2> SUFFICES ASSUME IInv, NEW b \in regions
               PROVE  parse_integer([prefix |-> TRUE, chars |-> integer_to_hex(Address[b])])
                        = Address[b]
    BY DEF BaseReadsBack
  <2>1. Address[b] \in 0 .. Word - 1
    BY AddressAssumption DEF IInv, Shapes
  <2>2. HexDigits[Address[b]] \in Seq(Digit) /\ Value(HexDigits[Address[b]]) = Address[b]
    BY <2>1, HexReadsBack
  <2> QED BY <2>2, DigitsAll DEF parse_integer, integer_to_hex
<1> QED BY <1>1, InductiveInvariant, PTL
-----------------------------------------------------------------------------
(* The loop of resolve over its arguments.                                 *)
R == INSTANCE FoldFacts WITH Op <- ResolveArgument, Start <- ResolveStart

Statuses == {"go", "usage", "hang", "wild_read", "overrun"}
Resolving == [base : 0 .. Word - 1, words : Seq(-1 .. Word - 1), status : Statuses]

(* Where the loop stands behind the first k arguments.                     *)
After(args, k) == Resolved(SubSeq(args, 1, k))

LEMMA ResolvedFolds == \A args : Resolved(args) = R!Fold(args)
BY DEF Resolved, R!Fold, FoldLeft, R!FoldLeft, MapThenFoldSet, R!MapThenFoldSet, Max, R!Max

LEMMA ResolvedEmpty == Resolved(<<>>) = ResolveStart
BY ResolvedFolds, R!FoldEmpty

LEMMA AfterSteps ==
    ASSUME NEW args \in Seq(Argument)
    PROVE  /\ After(args, 0) = ResolveStart
           /\ After(args, Len(args)) = Resolved(args)
           /\ \A k \in 0 .. Len(args) - 1 :
                    After(args, k + 1) = ResolveArgument(After(args, k), args[k + 1])
<1>1. After(args, 0) = ResolveStart
  <2>1. SubSeq(args, 1, 0) = <<>>
    OBVIOUS
  <2> QED BY <2>1, ResolvedEmpty DEF After
<1>2. After(args, Len(args)) = Resolved(args)
  <2>1. SubSeq(args, 1, Len(args)) = args
    OBVIOUS
  <2> QED BY <2>1 DEF After
<1>3. ASSUME NEW k \in 0 .. Len(args) - 1
      PROVE  After(args, k + 1) = ResolveArgument(After(args, k), args[k + 1])
  <2> DEFINE s == SubSeq(args, 1, k)
             t == SubSeq(args, 1, k + 1)
  <2>1. /\ k \in Nat /\ DOMAIN s = 1 .. k /\ DOMAIN t = 1 .. k + 1
        /\ t[k + 1] = args[k + 1] /\ \A i \in 1 .. k : s[i] = t[i]
    OBVIOUS
  <2> HIDE DEF s, t
  <2>2. R!Fold(t) = ResolveArgument(R!Fold(s), t[k + 1])
    BY <2>1, R!FoldLonger
  <2>3. Resolved(t) = ResolveArgument(Resolved(s), args[k + 1])
    BY <2>1, <2>2, ResolvedFolds
  <2> QED BY <2>3 DEF After, s, t
<1> QED BY <1>1, <1>2, <1>3

(* GetExportAddress gives a word, or none.                                 *)
LEMMA ExportType ==
    ASSUME NEW base \in DOMAIN Image, NEW o \in 1 .. Word - 1
    PROVE  ExportAt(base, o) \in -1 .. Word - 1
<1> DEFINE index == o - 1
           m == (4 * index) % Word
           slot == m \div 4
           signed == IF index < Word \div 2 THEN index ELSE index - Word
<1>1. Word \in Nat \ {0} /\ base \in 1 .. Word - 1 /\ Image[base] \in Seq(0 .. Word - 1)
  BY WordAssumption, ImageAssumption
<1>2. m \in 0 .. Word - 1
  <2>1. 4 * index \in Int
    OBVIOUS
  <2> QED BY <1>1, <2>1, ModuloParts
<1>3. slot \in Nat
  <2> HIDE DEF m
  <2> QED BY <1>2, <1>1
<1>4. ASSUME slot < Len(Image[base])
      PROVE  (base + Image[base][slot + 1]) % Word \in 0 .. Word - 1
  <2> HIDE DEF slot
  <2>1. base + Image[base][slot + 1] \in Int
    BY <1>1, <1>3, <1>4
  <2> QED BY <2>1, <1>1, ModuloParts
<1>5. ExportAt(base, o) = IF signed >= Len(Image[base]) THEN 0
                        ELSE IF slot < Len(Image[base])
                             THEN (base + Image[base][slot + 1]) % Word ELSE -1
  BY DEF ExportAt
<1> HIDE DEF slot, signed
<1> QED BY <1>1, <1>4, <1>5

(* An argument leaves no more words than there is room for.                *)
LEMMA ResolvingType ==
    ASSUME NEW r \in Resolving, Len(r.words) <= BufferWords, NEW a \in Argument
    PROVE  /\ ResolveArgument(r, a) \in Resolving
           /\ Len(ResolveArgument(r, a).words) <= BufferWords
<1> DEFINE v == parse_integer(a.number)
<1>1. v \in 0 .. Word - 1
  BY IntegerType DEF Argument
<1>2. Word \in Nat /\ BufferWords \in Nat
  BY WordAssumption
<1> HIDE DEF v
<1>3. ASSUME NEW st \in Statuses
      PROVE  /\ [r EXCEPT !.status = st] \in Resolving
             /\ [r EXCEPT !.status = st].words = r.words
  BY DEF Resolving
<1>4. ASSUME NEW st \in Statuses
      PROVE  /\ [r EXCEPT !.base = v, !.status = st] \in Resolving
             /\ [r EXCEPT !.base = v, !.status = st].words = r.words
  BY <1>1 DEF Resolving
<1>5. ASSUME r.base \in DOMAIN Image, v # 0
      PROVE  /\ ResolveOrdinal(r, a) \in Resolving
             /\ Len(ResolveOrdinal(r, a).words) <= BufferWords
  <2> DEFINE w == ExportAt(r.base, v)
             st == IF w = -1 THEN "wild_read" ELSE IF AllRead(a.number) THEN "go" ELSE "usage"
  <2>1. w \in -1 .. Word - 1
    BY <1>1, <1>5, ExportType
  <2>2. st \in Statuses
    BY DEF Statuses
  <2>3. ResolveOrdinal(r, a) = IF Len(r.words) = BufferWords
                               THEN [r EXCEPT !.status = "overrun"]
                               ELSE [base |-> r.base, words |-> Append(r.words, w), status |-> st]
    BY DEF ResolveOrdinal, v
  <2> HIDE DEF w, st
  <2>4. r.words \in Seq(-1 .. Word - 1) /\ r.base \in 0 .. Word - 1 /\ Len(r.words) \in Nat
    BY DEF Resolving
  <2>5. /\ Append(r.words, w) \in Seq(-1 .. Word - 1)
        /\ Len(Append(r.words, w)) = Len(r.words) + 1
    BY <2>1, <2>4
  <2>6. CASE Len(r.words) = BufferWords
    BY <2>3, <2>6, <1>3, <1>2 DEF Statuses
  <2>7. CASE Len(r.words) # BufferWords
    BY <2>3, <2>7, <2>2, <2>4, <2>5, <1>2 DEF Resolving
  <2> QED BY <2>6, <2>7
<1>6. {"go", "usage", "hang", "wild_read"} \subseteq Statuses
  BY DEF Statuses
<1>7. CASE r.status = "go" /\ a.name = "o" /\ r.base \in DOMAIN Image /\ v # 0
  <2>1. ResolveArgument(r, a) \in {ResolveOrdinal(r, a)}
                                  \cup {[r EXCEPT !.status = st] : st \in Statuses}
    BY <1>6, <1>7 DEF ResolveArgument, v
  <2> QED BY <2>1, <1>3, <1>5, <1>7
<1>8. CASE ~(r.status = "go" /\ a.name = "o" /\ r.base \in DOMAIN Image /\ v # 0)
  <2>1. ResolveArgument(r, a) \in {r} \cup {[r EXCEPT !.status = st] : st \in Statuses}
                                  \cup {[r EXCEPT !.base = v, !.status = st] : st \in Statuses}
    BY <1>6, <1>8 DEF ResolveArgument, v
  <2> QED BY <2>1, <1>3, <1>4
<1> QED BY <1>7, <1>8

LEMMA AfterType ==
    ASSUME NEW args \in Seq(Argument)
    PROVE  \A k \in 0 .. Len(args) :
                After(args, k) \in Resolving /\ Len(After(args, k).words) <= BufferWords
<1> DEFINE n == Len(args)
           T == {k \in Nat : After(args, k) \in Resolving
                                /\ Len(After(args, k).words) <= BufferWords}
<1>1. 0 \in T
  <2>1. ResolveStart \in Resolving /\ Len(ResolveStart.words) = 0
    BY WordAssumption DEF ResolveStart, Resolving, Statuses
  <2> QED BY <2>1, AfterSteps, WordAssumption
<1>2. ASSUME NEW k \in 0 .. n - 1, k \in T PROVE k + 1 \in T
  <2>1. args[k + 1] \in Argument
    OBVIOUS
  <2> QED BY <1>2, <2>1, AfterSteps, ResolvingType
<1>3. n \in Nat
  OBVIOUS
<1> HIDE DEF T
<1>4. \A k \in 0 .. n : k \in T
  BY <1>1, <1>2, <1>3, InductionTo
<1> QED BY <1>4 DEF T
(* How the reference counts and picks, one argument after the other.       *)
LEMMA PlaceSteps ==
    ASSUME NEW args, NEW k \in Nat
    PROVE  /\ IsFiniteSet(Ordinals(args, k)) /\ Place(args, k) \in Nat
           /\ Place(args, 0) = 0
           /\ args[k + 1].name = "o" => /\ Ordinals(args, k + 1) = Ordinals(args, k) \cup {k + 1}
                                        /\ Place(args, k + 1) = Place(args, k) + 1
           /\ args[k + 1].name # "o" => /\ Ordinals(args, k + 1) = Ordinals(args, k)
                                        /\ Place(args, k + 1) = Place(args, k)
<1>1. IsFiniteSet(Ordinals(args, k)) /\ Place(args, k) \in Nat
  <2>1. Ordinals(args, k) \in SUBSET (1 .. k)
    BY DEF Ordinals
  <2>2. IsFiniteSet(1 .. k)
    BY FS_Interval
  <2> QED BY <2>1, <2>2, FS_Subset, FS_CardinalityType DEF Place
<1>2. Place(args, 0) = 0
  <2>1. Ordinals(args, 0) = {}
    BY DEF Ordinals
  <2> QED BY <2>1, FS_EmptySet DEF Place
<1>3. CASE args[k + 1].name = "o"
  <2>1. Ordinals(args, k + 1) = Ordinals(args, k) \cup {k + 1} /\ k + 1 \notin Ordinals(args, k)
    BY <1>3 DEF Ordinals
  <2> QED BY <1>1, <1>2, <1>3, <2>1, FS_AddElement DEF Place
<1>4. CASE args[k + 1].name # "o"
  <2>1. Ordinals(args, k + 1) = Ordinals(args, k)
    BY <1>4 DEF Ordinals
  <2> QED BY <1>1, <1>2, <1>4, <2>1 DEF Place
<1> QED BY <1>3, <1>4

LEMMA PlaceGrows ==
    ASSUME NEW args, NEW k \in Nat, NEW i \in 0 .. k
    PROVE  Place(args, i) <= Place(args, k)
<1>1. Ordinals(args, i) \in SUBSET Ordinals(args, k)
  BY DEF Ordinals
<1> QED BY <1>1, PlaceSteps, FS_Subset DEF Place

(* An ordinal among the first k arguments has one of their places.         *)
LEMMA PlaceIn ==
    ASSUME NEW args, NEW k \in Nat, NEW i \in Ordinals(args, k)
    PROVE  i \in 1 .. k /\ Place(args, i) \in 1 .. Place(args, k)
<1>1. i \in 1 .. k /\ args[(i - 1) + 1].name = "o" /\ i - 1 \in Nat
  BY DEF Ordinals
<1>2. Place(args, (i - 1) + 1) = Place(args, i - 1) + 1 /\ Place(args, i - 1) \in Nat
  BY <1>1, PlaceSteps
<1>3. Place(args, i) <= Place(args, k) /\ Place(args, k) \in Nat
  BY <1>1, PlaceGrows, PlaceSteps
<1> QED BY <1>1, <1>2, <1>3

LEMMA BaseSteps ==
    ASSUME NEW args, NEW k \in Nat
    PROVE  /\ args[k + 1].name = "b" =>
                BaseOf(args, k + 2) = parse_integer(args[k + 1].number)
           /\ args[k + 1].name # "b" => BaseOf(args, k + 2) = BaseOf(args, k + 1)
<1> DEFINE Bases(n) == {j \in 1 .. n : args[j].name = "b"}
<1>1. /\ BaseOf(args, k + 1) = parse_integer(args[Max(Bases(k))].number)
      /\ BaseOf(args, k + 2) = parse_integer(args[Max(Bases(k + 1))].number)
  <2>1. (k + 1) - 1 = k /\ (k + 2) - 1 = k + 1
    OBVIOUS
  <2> QED BY <2>1 DEF BaseOf
<1>2. ASSUME args[k + 1].name = "b" PROVE Max(Bases(k + 1)) = k + 1
  <2> DEFINE B == Bases(k + 1)
  <2>1. k + 1 \in B /\ (\A y \in B : k + 1 >= y) /\ B \subseteq Nat
    BY <1>2
  <2> HIDE DEF B
  <2>2. \A x \in B : (\A y \in B : x >= y) => x = k + 1
    BY <2>1
  <2>3. Max(B) = k + 1
    BY <2>1, <2>2 DEF Max
  <2> QED BY <2>3 DEF B
<1>3. ASSUME args[k + 1].name # "b" PROVE Bases(k + 1) = Bases(k)
  BY <1>3
<1> HIDE DEF Bases
<1> QED BY <1>1, <1>2, <1>3

(* GetExportAddress looks an ordinal of half a word up as the table says.  *)
LEMMA ExportLooksUp ==
    ASSUME NEW base \in DOMAIN Image, NEW o \in 1 .. Word \div 2
    PROVE  /\ ExportAt(base, o) = IF o \in DOMAIN Image[base]
                                  THEN (base + Image[base][o]) % Word ELSE 0
           /\ ExportAt(base, o) # -1
<1> DEFINE index == o - 1
           n == Len(Image[base])
           slot == ((4 * index) % Word) \div 4
<1>1. /\ Word \in Nat \ {0} /\ base \in 1 .. Word - 1 /\ Image[base] \in Seq(0 .. Word - 1)
      /\ n \in Nat /\ 4 * n <= Word /\ DOMAIN Image[base] = 1 .. n
  BY WordAssumption, ImageAssumption
<1>2. index \in Nat /\ index < Word \div 2
  BY <1>1
<1>3. CASE index >= n
  <2>1. ExportAt(base, o) = 0
    BY <1>1, <1>2, <1>3 DEF ExportAt
  <2> QED BY <2>1, <1>1, <1>3
<1>4. CASE index < n
  <2>1. 4 * index \in 0 .. Word - 1
    BY <1>1, <1>2, <1>4
  <2>2. (4 * index) % Word = 4 * index
    BY <2>1, <1>1, ModuloSmall
  <2>3. slot = index
    BY <2>2, <1>2
  <2>4. ExportAt(base, o) = (base + Image[base][slot + 1]) % Word
    BY <1>1, <1>2, <1>4, <2>3 DEF ExportAt
  <2>5. o \in DOMAIN Image[base] /\ slot + 1 = o /\ base + Image[base][o] \in Int
    BY <1>1, <1>4, <2>3
  <2>6. (base + Image[base][o]) % Word \in 0 .. Word - 1
    BY <1>1, <2>5, ModuloParts
  <2> HIDE DEF slot
  <2> QED BY <1>1, <2>4, <2>5, <2>6
<1> QED BY <1>1, <1>2, <1>3, <1>4
(* What the loop has of a well-formed resolve behind k arguments: a word   *)
(* for each ordinal so far, and the base given last.                       *)
Answered(args, k) ==
    LET r == After(args, k)
    IN /\ r.status \in {"go", "usage"}
       /\ r.status = "go" =>
            /\ Len(r.words) = Place(args, k)
            /\ \A i \in Ordinals(args, k) : r.words[Place(args, i)] = Wanted(args, i)
            /\ (\E j \in 1 .. k : args[j].name = "b") => r.base = BaseOf(args, k + 1)

LEMMA AnsweredNext ==
    ASSUME NEW args \in Seq(Argument), WellFormed(args), NEW k \in 0 .. Len(args) - 1,
           Answered(args, k)
    PROVE  Answered(args, k + 1)
<1> DEFINE r == After(args, k)
           q == After(args, k + 1)
           a == args[k + 1]
           v == parse_integer(a.number)
<1>1. q = ResolveArgument(r, a)
  BY AfterSteps
<1>2. r \in Resolving /\ a \in Argument /\ k \in Nat /\ k + 1 \in 1 .. Len(args)
  BY AfterType
<1>3. v \in 0 .. Word - 1
  BY <1>2, IntegerType DEF Argument
<1>4. a.name \in {"b", "o"} /\ ~Hangs(a.number)
  BY <1>2 DEF WellFormed
<1>5. /\ r.status \in {"go", "usage"}
      /\ r.status = "go" =>
            /\ Len(r.words) = Place(args, k)
            /\ \A i \in Ordinals(args, k) : r.words[Place(args, i)] = Wanted(args, i)
            /\ (\E j \in 1 .. k : args[j].name = "b") => r.base = BaseOf(args, k + 1)
  BY DEF Answered
<1>6. ASSUME q.status = "usage" PROVE Answered(args, k + 1)
  BY <1>6 DEF Answered
<1>7. ASSUME q.status = "go",
             Len(q.words) = Place(args, k + 1),
             \A i \in Ordinals(args, k + 1) : q.words[Place(args, i)] = Wanted(args, i),
             (\E j \in 1 .. k + 1 : args[j].name = "b") => q.base = BaseOf(args, k + 2)
      PROVE  Answered(args, k + 1)
  <2>1. (k + 1) + 1 = k + 2
    BY <1>2
  <2> QED BY <1>7, <2>1 DEF Answered
<1> HIDE DEF r, q, v
<1>8. CASE r.status # "go"
  <2>1. q = r
    BY <1>1, <1>8 DEF ResolveArgument
  <2> QED BY <2>1, <1>5, <1>6, <1>8
<1>9. CASE r.status = "go" /\ a.name = "b"
  <2>1. q = [r EXCEPT !.base = v, !.status = IF AllRead(a.number) THEN "go" ELSE "usage"]
    BY <1>1, <1>4, <1>9 DEF ResolveArgument, v
  <2>2. q.base = v /\ q.words = r.words /\ q.status \in {"go", "usage"}
    BY <2>1, <1>2 DEF Resolving
  <2>3. /\ Ordinals(args, k + 1) = Ordinals(args, k) /\ Place(args, k + 1) = Place(args, k)
        /\ BaseOf(args, k + 2) = v
    BY <1>2, <1>9, PlaceSteps, BaseSteps DEF v
  <2> QED BY <2>2, <2>3, <1>5, <1>6, <1>7, <1>9
<1>10. CASE r.status = "go" /\ a.name = "o"
  <2>1. /\ v \in 0 .. Word \div 2 /\ \E j \in 1 .. k : args[j].name = "b"
        /\ BaseOf(args, k + 1) \in DOMAIN Image \cup {0}
    <3>1. (k + 1) - 1 = k
      BY <1>2
    <3> QED BY <3>1, <1>2, <1>10 DEF WellFormed, v
  <2>2. r.base = BaseOf(args, k + 1)
    BY <2>1, <1>5, <1>10
  <2>3. CASE r.base = 0 \/ v = 0
    <3>1. q = [r EXCEPT !.status = "usage"]
      BY <1>1, <1>4, <1>10, <2>3 DEF ResolveArgument, v
    <3>2. q.status = "usage"
      BY <3>1, <1>2 DEF Resolving
    <3> QED BY <3>2, <1>6
  <2>4. CASE r.base \in DOMAIN Image /\ r.base # 0 /\ v # 0
    <3> DEFINE w == ExportAt(r.base, v)
    <3>1. q = ResolveOrdinal(r, a)
      BY <1>1, <1>4, <1>10, <2>4 DEF ResolveArgument, v
    <3>2. v \in 1 .. Word \div 2
      BY <2>1, <2>4
    <3>3. w = Wanted(args, k + 1) /\ w # -1
      BY <3>2, <2>2, <2>4, ExportLooksUp DEF Wanted, v
    <3>4. /\ Ordinals(args, k + 1) = Ordinals(args, k) \cup {k + 1}
          /\ Place(args, k + 1) = Place(args, k) + 1 /\ Place(args, k) \in Nat
          /\ BaseOf(args, k + 2) = BaseOf(args, k + 1)
      BY <1>2, <1>10, PlaceSteps, BaseSteps
    <3>5. Len(r.words) = Place(args, k) /\ Place(args, k) < BufferWords
      <4>1. Place(args, k + 1) <= Place(args, Len(args)) /\ Place(args, Len(args)) \in Nat
        BY <1>2, PlaceGrows, PlaceSteps
      <4>2. Place(args, Len(args)) <= BufferWords
        BY DEF WellFormed
      <4> QED BY <4>1, <4>2, <3>4, <1>5, <1>10, WordAssumption
    <3>6. /\ q.base = r.base /\ q.words = Append(r.words, w) /\ q.status \in {"go", "usage"}
      <4> HIDE DEF w
      <4>1. Len(r.words) # BufferWords
        BY <3>4, <3>5, WordAssumption
      <4>2. q = [base |-> r.base, words |-> Append(r.words, w),
                 status |-> IF w = -1 THEN "wild_read"
                            ELSE IF AllRead(a.number) THEN "go" ELSE "usage"]
        BY <3>1, <4>1 DEF ResolveOrdinal, v, w
      <4> QED BY <4>2, <3>3
    <3> HIDE DEF w
    <3>7. r.words \in Seq(-1 .. Word - 1)
      BY <1>2 DEF Resolving
    <3>8. Len(q.words) = Place(args, k + 1)
      BY <3>4, <3>5, <3>6, <3>7
    <3>9. ASSUME NEW i \in Ordinals(args, k + 1)
          PROVE  q.words[Place(args, i)] = Wanted(args, i)
      <4>1. CASE i = k + 1
        BY <4>1, <3>3, <3>4, <3>5, <3>6, <3>7
      <4>2. CASE i \in Ordinals(args, k)
        <5>1. Place(args, i) \in 1 .. Len(r.words)
          BY <4>2, <1>2, <3>5, PlaceIn
        <5>2. q.words[Place(args, i)] = r.words[Place(args, i)]
          BY <5>1, <3>6, <3>7
        <5> QED BY <5>2, <4>2, <1>5, <1>10
      <4> QED BY <4>1, <4>2, <3>4
    <3> QED BY <3>4, <3>6, <3>8, <3>9, <2>2, <1>6, <1>7
  <2> QED BY <2>1, <2>2, <2>3, <2>4
<1> QED BY <1>4, <1>5, <1>8, <1>9, <1>10

(* The loop ends with all it was asked for, or with a usage error.         *)
LEMMA ResolveAnswers ==
    ASSUME NEW args \in Seq(Argument), WellFormed(args)
    PROVE  /\ Resolved(args).status \in {"go", "usage"}
           /\ Resolved(args).status = "go" =>
                /\ Len(Resolved(args).words) = Place(args, Len(args))
                /\ \A i \in Ordinals(args, Len(args)) :
                        Resolved(args).words[Place(args, i)] = Wanted(args, i)
<1> DEFINE n == Len(args)
           T == {k \in Nat : Answered(args, k)}
<1>1. 0 \in T
  <2>1. After(args, 0) = ResolveStart /\ ResolveStart.words = <<>> /\ ResolveStart.status = "go"
    BY AfterSteps DEF ResolveStart
  <2>2. Ordinals(args, 0) = {}
    BY DEF Ordinals
  <2>3. Place(args, 0) = 0
    BY PlaceSteps
  <2> QED BY <2>1, <2>2, <2>3 DEF Answered
<1>2. ASSUME NEW k \in 0 .. n - 1, k \in T PROVE k + 1 \in T
  BY <1>2, AnsweredNext
<1>3. n \in Nat
  OBVIOUS
<1> HIDE DEF T
<1>4. \A k \in 0 .. n : k \in T
  BY <1>1, <1>2, <1>3, InductionTo
<1>5. Answered(args, n) /\ After(args, n) = Resolved(args)
  BY <1>3, <1>4, AfterSteps DEF T
<1> QED BY <1>5 DEF Answered
-----------------------------------------------------------------------------
(* A connection that receives has a region to receive into, or none, and   *)
(* what its buffer has left is what is due.                                *)
Ready(s) ==
    Receiving(s) =>
        ctx[s].buffer \in Block \cup {NULL} /\ ctx[s].buffer_size = ctx[s].bytes_remaining

(* The words in a buffer are those the loop left there for the arguments   *)
(* remembered, and only a fault of the loop keeps them from being sent.    *)
Kept(s) ==
    /\ asked[s] = <<>> => words[s] = <<>>
    /\ asked[s] # <<>> =>
        /\ stage = "L2"
        /\ asked[s] \in Seq(Argument)
        /\ \/ /\ SendingTo(s)
              /\ Resolved(asked[s]).status = "go" /\ words[s] = Resolved(asked[s]).words
           \/ fault # "none" /\ Resolved(asked[s]).status \in {"hang", "wild_read", "overrun"}
    /\ SendingTo(s) => ctx[s].bytes_remaining \in {0, 4 * Len(words[s])}

JInv ==
    /\ TypeOK
    /\ DOMAIN words = Session /\ DOMAIN asked = Session
    /\ \A s \in Session : Ready(s) /\ Kept(s)

Context ==
    [handler : {"none", "SendResolvedExports", "ReceiveImageData"},
     buffer : Block \cup {NULL, MONITOR}, offset : 0 .. Word - 1,
     buffer_size : 0 .. Word - 1, user_data : Block \cup {NULL},
     bytes_remaining : 0 .. Word - 1]

(* What of the types the other invariant does not give already.            *)
LEMMA TypeFrom ==
    ASSUME IInv', (extent \in [Block -> 0 .. Word - 1])',
           (stage \in {"start", "sized", "allocated", "loaded", "L2"})',
           (io \in 0 .. Word - 1)', (g_image_entrypoint \in 0 .. Word - 1)',
           (ctx \in [Session -> Context])', (aborted \in BOOLEAN)', (broken \in BOOLEAN)'
    PROVE  TypeOK'
BY DEF IInv, Shapes, RegionsOwn, Promises, TypeOK, Context

LEMMA ContextTypes ==
    ASSUME NEW s \in Session, JInv
    PROVE  /\ ctx[s] \in Context /\ ctx \in [Session -> Context]
           /\ NewContext \in Context /\ Ended(ctx[s]) \in Context
<1>1. ctx[s] \in Context /\ ctx \in [Session -> Context]
  BY DEF JInv, TypeOK, Context
<1>2. DefaultSize \in 0 .. Word - 1 /\ 0 \in 0 .. Word - 1
  BY WordAssumption
<1>3. NewContext \in Context
  BY <1>2 DEF NewContext, Context
<1> QED BY <1>1, <1>3 DEF Ended, Context

LEMMA KeptStays ==
    ASSUME NEW s \in Session, Kept(s), words'[s] = words[s], asked'[s] = asked[s],
           SendingTo(s)' <=> SendingTo(s),
           SendingTo(s) => ctx'[s].bytes_remaining \in {0, ctx[s].bytes_remaining},
           stage = "L2" => stage' = "L2" /\ (fault # "none" => fault' # "none")
    PROVE  Kept(s)'
BY DEF Kept

(* A connection whose context stays keeps what is said of it.              *)
LEMMA OtherKept ==
    ASSUME NEW s \in Session, Kept(s), Ready(s), ctx'[s] = ctx[s],
           words'[s] = words[s], asked'[s] = asked[s],
           stage = "L2" => stage' = "L2" /\ (fault # "none" => fault' # "none")
    PROVE  Kept(s)' /\ Ready(s)'
<1>1. (SendingTo(s)' <=> SendingTo(s)) /\ (Receiving(s)' <=> Receiving(s))
  BY DEF SendingTo, Receiving
<1>2. Ready(s)'
  BY <1>1 DEF Ready
<1> QED BY <1>1, <1>2, KeptStays

(* A connection that is not sent to keeps no words, unless at a fault.     *)
LEMMA NothingKept ==
    ASSUME NEW s \in Session, words'[s] = <<>>, asked'[s] = <<>>,
           SendingTo(s)' => ctx'[s].bytes_remaining = 0
    PROVE  Kept(s)'
BY DEF Kept

LEMMA IdleEmpty ==
    ASSUME NEW s \in Session, Kept(s), fault = "none", ~SendingTo(s)
    PROVE  words[s] = <<>> /\ asked[s] = <<>>
BY DEF Kept

LEMMA InitJ == ASSUME Init PROVE JInv
<1>1. \A s \in Session : ~SendingTo(s) /\ ~Receiving(s)
  BY DEF Init, SendingTo, Receiving, NewContext
<1>2. \A s \in Session : Ready(s) /\ Kept(s)
  BY <1>1 DEF Init, Ready, Kept
<1>3. DefaultSize \in 0 .. Word - 1 /\ 0 \in 0 .. Word - 1
  BY WordAssumption
<1>4. NewContext \in Context
  BY <1>3 DEF NewContext, Context
<1>5. TypeOK
  BY <1>3, <1>4 DEF Init, TypeOK, Context
<1> QED BY <1>2, <1>5 DEF Init, JInv

LEMMA UnchangedJ ==
    ASSUME JInv, IInv', NEW f, f # "none", Fault(f) \/ UNCHANGED vars
    PROVE  JInv'
<1>1. /\ UNCHANGED <<extent, stage, io, g_image_entrypoint, ctx, words, asked, aborted, broken>>
      /\ fault' \in {f, fault}
  BY DEF Fault, vars, L1vars, history
<1>2. TypeOK'
  BY <1>1, TypeFrom DEF JInv, TypeOK, Context
<1>3. \A s \in Session : Kept(s)' /\ Ready(s)'
  BY <1>1, OtherKept DEF JInv
<1> QED BY <1>1, <1>2, <1>3 DEF JInv

LEMMA HostJ ==
    ASSUME JInv, IInv', HostSetsSize \/ L1Allocate \/ HostLoadsL2 \/ L1CallEntrypoint
    PROVE  JInv'
<1>1. /\ UNCHANGED <<g_image_entrypoint, ctx, words, asked, aborted, broken>>
      /\ stage # "L2" /\ stage' \in {"start", "sized", "allocated", "loaded", "L2"}
  BY DEF HostSetsSize, L1Allocate, HostLoadsL2, L1CallEntrypoint, history
<1>2. \A s \in Session : Kept(s)' /\ Ready(s)'
  BY <1>1, OtherKept DEF JInv
<1>3. io \in 0 .. Word - 1 /\ 0 \in 0 .. Word - 1 /\ 1 \in 0 .. Word - 1
      /\ L2Size \in 0 .. Word - 1 /\ extent \in [Block -> 0 .. Word - 1]
  BY WordAssumption DEF JInv, TypeOK
<1>4. (io \in 0 .. Word - 1)' /\ (extent \in [Block -> 0 .. Word - 1])'
  <2>1. CASE HostSetsSize \/ HostLoadsL2 \/ L1CallEntrypoint
    BY <2>1, <1>3 DEF HostSetsSize, HostLoadsL2, L1CallEntrypoint
  <2>2. CASE L1Allocate
    <3> DEFINE b == Alloc(pool)
    <3>1. ASSUME CanAlloc(pool) PROVE Address[b] \in 0 .. Word - 1
      <4>1. b \in Block
        BY <3>1, AllocFresh
      <4> HIDE DEF b
      <4> QED BY <4>1, AddressAssumption
    <3> HIDE DEF b
    <3>2. \/ io' = 0 /\ UNCHANGED extent
          \/ CanAlloc(pool) /\ extent' = [extent EXCEPT ![b] = io] /\ io' = Address[b]
      BY <2>2 DEF L1Allocate, b
    <3> QED BY <3>1, <3>2, <1>3
  <2> QED BY <2>1, <2>2
<1>5. TypeOK'
  BY <1>1, <1>4, TypeFrom DEF JInv, TypeOK, Context
<1> QED BY <1>1, <1>2, <1>5 DEF JInv
(* A number of a command is one of a register.                             *)
LEMMA NumberType ==
    ASSUME NEW n \in Number
    PROVE  parse_integer(n) \in 0 .. Word - 1
<1>1. n.chars \in Seq(0 .. OTHER_CHAR)
  BY CharsAssumption DEF Number
<1> QED BY <1>1, IntegerType

LEMMA HandleAllocJ ==
    ASSUME JInv, IInv', NEW s \in Session, NEW n \in Number, HandleAlloc(s, n)
    PROVE  JInv'
<1> DEFINE size == parse_integer(n)
           b == Alloc(pool)
<1>1. size \in 0 .. Word - 1
  BY NumberType
<1> HIDE DEF size, b
<1>2. /\ ctx' = [ctx EXCEPT ![s].buffer_size = size] /\ ctx[s].handler = "none"
      /\ extent' \in {extent, [extent EXCEPT ![b] = size]}
      /\ UNCHANGED <<stage, io, g_image_entrypoint, words, asked, broken, aborted, fault>>
  BY DEF HandleAlloc, Idle, L1vars, size, b
<1>3. (extent \in [Block -> 0 .. Word - 1])' /\ (ctx \in [Session -> Context])'
  BY <1>1, <1>2, ContextTypes DEF JInv, TypeOK, Context
<1>4. TypeOK'
  BY <1>2, <1>3, TypeFrom DEF JInv, TypeOK
<1>5. Kept(s)' /\ Ready(s)'
  <2>1. ctx'[s].handler = "none"
    BY <1>2, ContextTypes DEF Context
  <2>2. ~SendingTo(s) /\ ~SendingTo(s)' /\ ~Receiving(s)'
    BY <1>2, <2>1 DEF SendingTo, Receiving
  <2> QED BY <1>2, <2>2, KeptStays DEF JInv, Ready
<1>6. ASSUME NEW t \in Session, t # s PROVE Kept(t)' /\ Ready(t)'
  <2>1. ctx'[t] = ctx[t]
    BY <1>2, <1>6, ContextTypes
  <2> QED BY <1>2, <2>1, OtherKept DEF JInv
<1> QED BY <1>2, <1>4, <1>5, <1>6 DEF JInv

LEMMA HandleInstallJ ==
    ASSUME JInv, IInv', NEW s \in Session, NEW n \in Number, HandleInstall(s, n)
    PROVE  JInv'
<1> DEFINE entrypoint == parse_integer(n)
           c == [ctx[s] EXCEPT !.handler = "ReceiveImageData", !.buffer = g_image, !.offset = 0,
                               !.bytes_remaining = ctx[s].buffer_size]
<1>1. entrypoint \in 0 .. Word - 1
  BY NumberType
<1> HIDE DEF entrypoint
<1>2. /\ ctx' \in {ctx, [ctx EXCEPT ![s] = c]} /\ ctx[s].handler = "none"
      /\ g_image_entrypoint' = entrypoint
      /\ UNCHANGED <<extent, stage, io, words, asked, broken, aborted, fault>>
  BY DEF HandleInstall, Idle, L1vars, entrypoint
<1>3. g_image \in Block \cup {NULL} /\ 0 \in 0 .. Word - 1
  BY WordAssumption DEF JInv, TypeOK
<1>4. c \in Context /\ c.handler = "ReceiveImageData" /\ c.buffer = g_image
      /\ c.buffer_size = c.bytes_remaining
  BY <1>3, ContextTypes DEF Context
<1> HIDE DEF c
<1>5. (ctx \in [Session -> Context])'
  BY <1>2, <1>4, ContextTypes
<1>6. TypeOK'
  BY <1>1, <1>2, <1>5, TypeFrom DEF JInv, TypeOK
<1>7. Kept(s)' /\ Ready(s)'
  <2>1. ctx'[s] \in {ctx[s], c}
    BY <1>2, ContextTypes
  <2>2. ~SendingTo(s) /\ ~SendingTo(s)'
    BY <1>2, <1>4, <2>1 DEF SendingTo
  <2>3. Ready(s)'
    BY <1>2, <1>3, <1>4, <2>1 DEF Ready, Receiving
  <2> QED BY <1>2, <2>2, <2>3, KeptStays DEF JInv
<1>8. ASSUME NEW t \in Session, t # s PROVE Kept(t)' /\ Ready(t)'
  <2>1. ctx'[t] = ctx[t]
    BY <1>2, <1>8, ContextTypes
  <2> QED BY <1>2, <2>1, OtherKept DEF JInv
<1> QED BY <1>2, <1>6, <1>7, <1>8 DEF JInv

LEMMA ReceiveImageDataJ ==
    ASSUME JInv, IInv', NEW s \in Session, NEW n \in 1 .. ctx[s].bytes_remaining,
           ReceiveImageData(s, n)
    PROVE  JInv'
<1> DEFINE c == [ctx[s] EXCEPT !.offset = @ + n, !.buffer_size = @ - n, !.bytes_remaining = @ - n]
<1>1. CASE Fault("null_write") \/ Fault("overrun")
  BY <1>1, UnchangedJ
<1>2. CASE ~(Fault("null_write") \/ Fault("overrun"))
  <2>1. /\ ctx[s].buffer # NULL /\ ~(c.offset > extent[c.buffer]) /\ Receiving(s)
        /\ ctx' \in {[ctx EXCEPT ![s] = c], [ctx EXCEPT ![s] = Ended(c)]}
        /\ broken' \in {broken, broken \/ expects[s] \notin
                            {Nothing, [block |-> c.buffer, size |-> c.offset,
                                       entrypoint |-> g_image_entrypoint]}}
        /\ UNCHANGED <<extent, stage, io, g_image_entrypoint, words, asked, aborted, fault>>
    BY <1>2 DEF ReceiveImageData, L1vars
  <2>2. (broken \in BOOLEAN)'
    BY <2>1 DEF JInv, TypeOK
  <2>3. /\ ctx[s].buffer \in Block /\ ctx[s].buffer_size = ctx[s].bytes_remaining
        /\ ctx[s] \in Context /\ extent[ctx[s].buffer] \in 0 .. Word - 1
    BY <2>1, ContextTypes DEF JInv, TypeOK, Ready, Context
  <2>4. /\ c.handler = ctx[s].handler /\ c.buffer = ctx[s].buffer
        /\ c.user_data = ctx[s].user_data /\ c.offset = ctx[s].offset + n
        /\ c.buffer_size = ctx[s].buffer_size - n
        /\ c.bytes_remaining = ctx[s].bytes_remaining - n
    BY <2>3 DEF Context
  <2> HIDE DEF c
  <2>5. c.offset \in 0 .. Word - 1 /\ c.bytes_remaining \in 0 .. Word - 1
    BY <2>1, <2>3, <2>4, WordAssumption DEF Context
  <2>6. c \in Context
    BY <2>3, <2>4, <2>5 DEF c, Context
  <2>7. Ended(c) \in Context /\ Ended(c).handler = "none"
    BY <2>6, ContextTypes DEF Ended, Context, NewContext
  <2>8. (ctx \in [Session -> Context])'
    BY <2>1, <2>6, <2>7, ContextTypes
  <2>9. TypeOK'
    BY <2>1, <2>2, <2>8, TypeFrom DEF JInv, TypeOK
  <2>10. Kept(s)' /\ Ready(s)'
    <3>1. ctx'[s] \in {c, Ended(c)}
      BY <2>1, ContextTypes
    <3>2. ~SendingTo(s) /\ ~SendingTo(s)'
      BY <2>1, <2>4, <2>7, <3>1 DEF SendingTo, Receiving
    <3>3. Ready(s)'
      BY <2>1, <2>3, <2>4, <2>7, <3>1 DEF Ready, Receiving
    <3> QED BY <2>1, <3>2, <3>3, KeptStays DEF JInv
  <2>11. ASSUME NEW t \in Session, t # s PROVE Kept(t)' /\ Ready(t)'
    <3>1. ctx'[t] = ctx[t]
      BY <2>1, <2>11, ContextTypes
    <3> QED BY <2>1, <3>1, OtherKept DEF JInv
  <2> QED BY <2>1, <2>9, <2>10, <2>11 DEF JInv
<1> QED BY <1>1, <1>2
(* The end of a transfer, or a connection that goes away.                  *)
LEMMA EndJ ==
    ASSUME JInv, IInv', NEW s \in Session, NEW c \in Context, c.handler = "none",
           ctx' = [ctx EXCEPT ![s] = c], fault = "none",
           (aborted \in BOOLEAN)',
           \/ /\ words' = [words EXCEPT ![s] = <<>>] /\ asked' = [asked EXCEPT ![s] = <<>>]
           \/ UNCHANGED <<words, asked>> /\ ~SendingTo(s),
           UNCHANGED <<extent, stage, io, g_image_entrypoint, broken, fault>>
    PROVE  JInv'
<1>1. (ctx \in [Session -> Context])' /\ ctx'[s].handler = "none"
  BY ContextTypes
<1>2. TypeOK'
  BY <1>1, TypeFrom DEF JInv, TypeOK
<1>3. Kept(s)' /\ Ready(s)'
  <2>1. ~SendingTo(s)' /\ ~Receiving(s)'
    BY <1>1 DEF SendingTo, Receiving
  <2>2. words'[s] = <<>> /\ asked'[s] = <<>>
    BY IdleEmpty DEF JInv
  <2> QED BY <2>1, <2>2, NothingKept DEF Ready
<1>4. ASSUME NEW t \in Session, t # s PROVE Kept(t)' /\ Ready(t)'
  <2>1. ctx'[t] = ctx[t] /\ words'[t] = words[t] /\ asked'[t] = asked[t]
    BY <1>4, ContextTypes DEF JInv
  <2> QED BY <2>1, OtherKept DEF JInv
<1>5. (DOMAIN words = Session)' /\ (DOMAIN asked = Session)'
  BY DEF JInv
<1> QED BY <1>2, <1>3, <1>4, <1>5 DEF JInv

LEMMA ReceiveNothingJ ==
    ASSUME JInv, IInv', NEW s \in Session, ReceiveNothing(s)
    PROVE  JInv'
<1>1. /\ ctx' = [ctx EXCEPT ![s] = Ended(ctx[s])] /\ fault = "none" /\ ~SendingTo(s)
      /\ UNCHANGED <<extent, stage, io, g_image_entrypoint, broken, fault, words, asked, aborted>>
  BY DEF ReceiveNothing, Running, Receiving, SendingTo, L1vars
<1>2. Ended(ctx[s]) \in Context /\ Ended(ctx[s]).handler = "none"
  BY ContextTypes DEF Ended, NewContext
<1> QED BY <1>1, <1>2, EndJ DEF JInv, TypeOK

LEMMA DisconnectJ ==
    ASSUME JInv, IInv', NEW s \in Session, Disconnect(s)
    PROVE  JInv'
<1>1. /\ ctx' = [ctx EXCEPT ![s] = NewContext] /\ fault = "none"
      /\ words' = [words EXCEPT ![s] = <<>>] /\ asked' = [asked EXCEPT ![s] = <<>>]
      /\ (aborted \in BOOLEAN)'
      /\ UNCHANGED <<extent, stage, io, g_image_entrypoint, broken, fault>>
  BY DEF Disconnect, Running, SendingTo, L1vars, JInv, TypeOK
<1>2. NewContext \in Context /\ NewContext.handler = "none"
  BY ContextTypes DEF NewContext
<1> QED BY <1>1, <1>2, EndJ

LEMMA SendResolvedExportsJ ==
    ASSUME JInv, IInv', NEW s \in Session, SendResolvedExports(s)
    PROVE  JInv'
<1>1. CASE Fault("bad_free")
  BY <1>1, UnchangedJ
<1>2. CASE ~Fault("bad_free") /\ ctx[s].bytes_remaining # 0
  <2> DEFINE c == [ctx[s] EXCEPT !.bytes_remaining = 0]
  <2>1. /\ ctx' = [ctx EXCEPT ![s] = c] /\ SendingTo(s)
        /\ UNCHANGED <<extent, stage, io, g_image_entrypoint, broken, fault, words, asked, aborted>>
    BY <1>2 DEF SendResolvedExports, L1vars, history
  <2>2. c \in Context /\ c.handler = ctx[s].handler /\ c.bytes_remaining = 0
    BY ContextTypes, WordAssumption DEF Context
  <2> HIDE DEF c
  <2>3. (ctx \in [Session -> Context])' /\ ctx'[s] = c
    BY <2>1, <2>2, ContextTypes
  <2>4. TypeOK'
    BY <2>1, <2>3, TypeFrom DEF JInv, TypeOK
  <2>5. Kept(s)' /\ Ready(s)'
    <3>1. SendingTo(s)' /\ ~Receiving(s)'
      BY <2>1, <2>2, <2>3 DEF SendingTo, Receiving
    <3> QED BY <2>1, <2>2, <2>3, <3>1, KeptStays DEF JInv, Ready
  <2>6. ASSUME NEW t \in Session, t # s PROVE Kept(t)' /\ Ready(t)'
    <3>1. ctx'[t] = ctx[t]
      BY <2>1, <2>6, ContextTypes
    <3> QED BY <2>1, <3>1, OtherKept DEF JInv
  <2> QED BY <2>1, <2>4, <2>5, <2>6 DEF JInv
<1>3. CASE ~Fault("bad_free") /\ ctx[s].bytes_remaining = 0
  <2>1. /\ ctx' = [ctx EXCEPT ![s] = Ended(ctx[s])] /\ fault = "none"
        /\ words' = [words EXCEPT ![s] = <<>>] /\ asked' = [asked EXCEPT ![s] = <<>>]
        /\ UNCHANGED <<extent, stage, io, g_image_entrypoint, broken, fault, aborted>>
    BY <1>3 DEF SendResolvedExports, Running, L1vars
  <2>2. Ended(ctx[s]) \in Context /\ Ended(ctx[s]).handler = "none"
    BY ContextTypes DEF Ended, NewContext
  <2> QED BY <2>1, <2>2, EndJ DEF JInv, TypeOK
<1> QED BY <1>1, <1>2, <1>3

(* A resolve begins to be sent, with a buffer or without.                  *)
LEMMA SendingJ ==
    ASSUME JInv, IInv', NEW s \in Session, NEW b \in Block \cup {NULL}, NEW bytes \in 0 .. Word - 1,
           ctx' = [ctx EXCEPT ![s] = ToSend(b, bytes)],
           UNCHANGED <<extent, stage, io, g_image_entrypoint, broken, fault, aborted>>,
           Kept(s)',
           \A t \in Session : t # s => words'[t] = words[t] /\ asked'[t] = asked[t],
           (DOMAIN words = Session)' /\ (DOMAIN asked = Session)'
    PROVE  JInv'
<1>1. ToSend(b, bytes) \in Context /\ ToSend(b, bytes).handler = "SendResolvedExports"
  BY WordAssumption DEF ToSend, Context
<1>2. (ctx \in [Session -> Context])' /\ ctx'[s].handler = "SendResolvedExports"
  BY <1>1, ContextTypes
<1>3. TypeOK'
  BY <1>2, TypeFrom DEF JInv, TypeOK
<1>4. Ready(s)'
  BY <1>2 DEF Ready, Receiving
<1>5. ASSUME NEW t \in Session, t # s PROVE Kept(t)' /\ Ready(t)'
  <2>1. ctx'[t] = ctx[t]
    BY <1>5, ContextTypes
  <2> QED BY <2>1, <1>5, OtherKept DEF JInv
<1> QED BY <1>3, <1>4, <1>5 DEF JInv

LEMMA HandleResolveNoMemoryJ ==
    ASSUME JInv, IInv', NEW s \in Session, NEW args, HandleResolveNoMemory(s, args)
    PROVE  JInv'
<1>1. CASE \E f \in {"null_write", "hang", "wild_read", "bad_free"} : Fault(f)
  BY <1>1, UnchangedJ
<1>2. CASE ~\E f \in {"null_write", "hang", "wild_read", "bad_free"} : Fault(f)
  <2>1. /\ ctx' = [ctx EXCEPT ![s] = ToSend(NULL, 0)] /\ fault = "none" /\ ctx[s].handler = "none"
        /\ UNCHANGED <<extent, stage, io, g_image_entrypoint, broken, fault, words, asked, aborted>>
    BY <1>2 DEF HandleResolveNoMemory, Idle, Running, L1vars
  <2>2. words[s] = <<>> /\ asked[s] = <<>>
    BY <2>1, IdleEmpty DEF JInv, SendingTo
  <2>3. ctx'[s].bytes_remaining = 0
    BY <2>1, ContextTypes DEF ToSend
  <2>4. Kept(s)'
    BY <2>1, <2>2, <2>3, NothingKept
  <2>5. 0 \in 0 .. Word - 1
    BY WordAssumption
  <2>6. /\ \A t \in Session : t # s => words'[t] = words[t] /\ asked'[t] = asked[t]
        /\ (DOMAIN words = Session)' /\ (DOMAIN asked = Session)'
    BY <2>1 DEF JInv
  <2>7. NULL \in Block \cup {NULL}
    OBVIOUS
  <2> QED BY <2>1, <2>4, <2>5, <2>6, <2>7, SendingJ
<1> QED BY <1>1, <1>2

LEMMA HandleResolveJ ==
    ASSUME JInv, IInv', NEW s \in Session, NEW args \in ArgumentList, HandleResolve(s, args)
    PROVE  JInv'
<1> DEFINE r == Resolved(args)
           b == Alloc(pool)
           n == Len(r.words)
<1>1. fault = "none" /\ stage = "L2" /\ ctx[s].handler = "none" /\ CanAlloc(pool)
  BY DEF HandleResolve, Idle, Running
<1>2. words[s] = <<>> /\ asked[s] = <<>> /\ ~SendingTo(s) /\ ~Receiving(s)
  BY <1>1, IdleEmpty DEF JInv, SendingTo, Receiving
<1>3. args \in Seq(Argument)
  BY ArgumentAssumption
<1>4. n \in 0 .. BufferWords
  <2>1. r \in Resolving /\ n <= BufferWords
    BY <1>3, AfterSteps, AfterType
  <2>2. r.words \in Seq(-1 .. Word - 1)
    BY <2>1 DEF Resolving
  <2> HIDE DEF r
  <2>3. n \in Nat
    BY <2>2
  <2> QED BY <2>1, <2>3, WordAssumption
<1>5. b \in Block
  BY <1>1, AllocFresh
<1> HIDE DEF r, b
<1>6. CASE r.status = "go"
  <2>1. /\ ctx' = [ctx EXCEPT ![s] = ToSend(b, 4 * n)]
        /\ words' = [words EXCEPT ![s] = r.words] /\ asked' = [asked EXCEPT ![s] = args]
        /\ UNCHANGED <<extent, stage, io, g_image_entrypoint, broken, fault, aborted>>
    BY <1>6 DEF HandleResolve, L1vars, r, b
  <2>2. /\ ctx'[s].handler = "SendResolvedExports" /\ ctx'[s].bytes_remaining = 4 * n
        /\ words'[s] = r.words /\ asked'[s] = args
    BY <2>1, ContextTypes DEF ToSend, JInv
  <2>3. args = <<>> => r.words = <<>>
    BY ResolvedEmpty DEF ResolveStart, r
  <2>4. Kept(s)'
    BY <1>1, <1>3, <1>6, <2>1, <2>2, <2>3 DEF Kept, SendingTo, r
  <2>5. 4 * n \in 0 .. Word - 1
    BY <1>4, WordAssumption
  <2>6. /\ \A t \in Session : t # s => words'[t] = words[t] /\ asked'[t] = asked[t]
        /\ (DOMAIN words = Session)' /\ (DOMAIN asked = Session)'
    BY <2>1 DEF JInv
  <2> HIDE DEF n
  <2> QED BY <2>1, <2>4, <2>5, <2>6, <1>5, SendingJ
<1>7. CASE r.status = "usage"
  <2>1. /\ ctx' = [ctx EXCEPT ![s].buffer_size = 0]
        /\ UNCHANGED <<extent, stage, io, g_image_entrypoint, broken, fault, words, asked, aborted>>
    BY <1>7 DEF HandleResolve, L1vars, r
  <2> DEFINE c == [ctx[s] EXCEPT !.buffer_size = 0]
  <2>2. c \in Context /\ c.handler = "none" /\ ctx' = [ctx EXCEPT ![s] = c]
    BY <1>1, <2>1, ContextTypes, WordAssumption DEF Context
  <2> HIDE DEF c
  <2> QED BY <1>1, <1>2, <2>1, <2>2, EndJ DEF JInv, TypeOK
<1>8. CASE r.status \notin {"go", "usage"}
  <2>1. /\ asked' = [asked EXCEPT ![s] = args] /\ fault' = r.status
        /\ r.status \in {"hang", "wild_read", "overrun"}
        /\ UNCHANGED <<extent, stage, io, g_image_entrypoint, broken, ctx, words, aborted>>
    BY <1>8 DEF HandleResolve, L1vars, r
  <2>2. TypeOK'
    BY <2>1, TypeFrom DEF JInv, TypeOK, Context
  <2>3. Kept(s)' /\ Ready(s)'
    <3>1. words'[s] = <<>> /\ asked'[s] = args /\ ~SendingTo(s)' /\ ~Receiving(s)'
      BY <1>2, <2>1 DEF JInv, SendingTo, Receiving
    <3> QED BY <1>1, <1>3, <2>1, <3>1 DEF Kept, Ready, r
  <2>4. ASSUME NEW t \in Session, t # s PROVE Kept(t)' /\ Ready(t)'
    <3>1. asked'[t] = asked[t]
      BY <2>1, <2>4 DEF JInv
    <3> QED BY <1>1, <2>1, <3>1, OtherKept DEF JInv
  <2>5. (DOMAIN words = Session)' /\ (DOMAIN asked = Session)'
    BY <2>1 DEF JInv
  <2> QED BY <2>2, <2>3, <2>4, <2>5 DEF JInv
<1> QED BY <1>6, <1>7, <1>8
-----------------------------------------------------------------------------
LEMMA NextJ == ASSUME JInv, IInv', [Next]_vars PROVE JInv'
<1>1. CASE UNCHANGED vars
  BY <1>1, UnchangedJ
<1>2. CASE HostSetsSize \/ L1Allocate \/ HostLoadsL2 \/ L1CallEntrypoint
  BY <1>2, HostJ
<1>3. ASSUME NEW s \in Session, NEW n \in Number,
             HandleAlloc(s, n) \/ HandleInstall(s, n) \/ HandleHangingNumber(s, n)
      PROVE  JInv'
  <2>1. HandleHangingNumber(s, n) => Fault("hang")
    BY DEF HandleHangingNumber
  <2> QED BY <1>3, <2>1, HandleAllocJ, HandleInstallJ, UnchangedJ
<1>4. ASSUME NEW s \in Session, NEW args \in ArgumentList,
             HandleResolve(s, args) \/ HandleResolveNoMemory(s, args)
      PROVE  JInv'
  BY <1>4, HandleResolveJ, HandleResolveNoMemoryJ
<1>5. ASSUME NEW s \in Session, NEW n \in 1 .. ctx[s].bytes_remaining, ReceiveImageData(s, n)
      PROVE  JInv'
  BY <1>5, ReceiveImageDataJ
<1>6. ASSUME NEW s \in Session, SendResolvedExports(s) \/ ReceiveNothing(s) \/ Disconnect(s)
      PROVE  JInv'
  BY <1>6, SendResolvedExportsJ, ReceiveNothingJ, DisconnectJ
<1> QED BY <1>1, <1>2, <1>3, <1>4, <1>5, <1>6 DEF Next

(* The second invariant holds in every state, resting on the first.        *)
THEOREM ResolvesInvariant == Spec => []JInv
<1>1. Init => JInv
  BY InitJ
<1>2. JInv /\ IInv' /\ [Next]_vars => JInv'
  BY NextJ
<1> QED BY <1>1, <1>2, InductiveInvariant, PTL DEF Spec

(* No number, size or address the two stages keep leaves the range of a    *)
(* register, whatever a client sends: what is due never goes below 0, and  *)
(* an offset never passes the region.                                      *)
THEOREM TypeCorrect == Spec => []TypeOK
<1>1. JInv => TypeOK
  BY DEF JInv
<1> QED BY <1>1, ResolvesInvariant, PTL

(* The loop of resolve sends one word for each ordinal, each for the base  *)
(* given last before it, for every image, word and list of arguments.      *)
THEOREM WordsResolved == Spec => []ResolvedWords
<1>1. JInv => ResolvedWords
  <2> SUFFICES ASSUME JInv, NEW s \in Session, SendingTo(s), WellFormed(asked[s])
               PROVE  /\ Len(words[s]) = Place(asked[s], Len(asked[s]))
                      /\ \A i \in Ordinals(asked[s], Len(asked[s])) :
                              words[s][Place(asked[s], i)] = Wanted(asked[s], i)
                      /\ ctx[s].bytes_remaining \in {0, 4 * Len(words[s])}
    BY DEF ResolvedWords
  <2>1. Kept(s)
    BY DEF JInv
  <2>2. CASE asked[s] = <<>>
    <3>1. words[s] = <<>> /\ Len(asked[s]) = 0 /\ Len(words[s]) = 0
      BY <2>1, <2>2 DEF Kept
    <3>2. Ordinals(asked[s], 0) = {}
      BY DEF Ordinals
    <3>3. Place(asked[s], 0) = 0
      BY PlaceSteps
    <3> QED BY <2>1, <3>1, <3>2, <3>3 DEF Kept
  <2>3. CASE asked[s] # <<>>
    <3>1. asked[s] \in Seq(Argument)
      BY <2>1, <2>3 DEF Kept
    <3>2. Resolved(asked[s]).status \in {"go", "usage"}
      BY <3>1, ResolveAnswers
    <3>3. Resolved(asked[s]).status = "go" /\ words[s] = Resolved(asked[s]).words
      BY <2>1, <2>3, <3>2 DEF Kept
    <3> QED BY <2>1, <3>1, <3>3, ResolveAnswers DEF Kept
  <2> QED BY <2>2, <2>3
<1> QED BY <1>1, ResolvesInvariant, PTL

(* A resolve a client may well send never runs the loop into the wild,     *)
(* over the end of its buffer or round for ever.                           *)
THEOREM ResolvesAnswered == Spec => []ResolveAnswered
<1>1. JInv => ResolveAnswered
  <2> SUFFICES ASSUME JInv, NEW s \in Session, asked[s] # <<>>, WellFormed(asked[s])
               PROVE  SendingTo(s)
    BY DEF ResolveAnswered
  <2>1. Kept(s)
    BY DEF JInv
  <2>2. asked[s] \in Seq(Argument)
    BY <2>1 DEF Kept
  <2>3. Resolved(asked[s]).status \in {"go", "usage"}
    BY <2>2, ResolveAnswers
  <2> QED BY <2>1, <2>3 DEF Kept
<1> QED BY <1>1, ResolvesInvariant, PTL
=============================================================================
