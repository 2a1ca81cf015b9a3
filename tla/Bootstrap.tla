------------------------------- MODULE Bootstrap -------------------------------
(***************************************************************************)
(* The two bootstrap stages (bootstrap/bootstrap_l1.asm, bootstrap_l2.asm).*)
(* The host writes L1 over DmResumeThread and calls it, first to allocate  *)
(* a block for L2, then to run L2's entry, which registers the processor   *)
(* of "ldxt!" commands: a (allocate a region), i (install a payload into   *)
(* the last region and call it) and r (resolve exports of an image).       *)
(*                                                                         *)
(* The monitor (external) runs handlers one at a time, keeps one           *)
(* CommandContext per connection from command to command and calls a       *)
(* continuation handler until the transfer is over.                        *)
(*                                                                         *)
(* A fault is an illegal access, free or call, or a loop that never ends;  *)
(* nothing is said of the machine after it.                                *)
(***************************************************************************)
EXTENDS DmPool, Integers, SequencesExt

CONSTANTS
    Session,        \* connections to the debug monitor
    Base,           \* what a digit of a number can be: 16 in the code
    Word,           \* the numbers of a register: 2^32 in the code
    BufferWords,    \* the words a resolve has room for: 128 in the code
    Address,        \* the address of each block
    Image,          \* for each address an image lies at, the offsets its table exports
    TextAddress,    \* where a command's text lies
    CtxAddress,     \* where a CommandContext lies
    L2Size,         \* the size of L2
    Size,           \* the sizes of which a block can be had
    DefaultSize,    \* the size of the buffer the monitor gives a connection
    Chars,          \* what may stand behind the 0x of a number
    ArgumentList,   \* the argument lists of resolve commands
    NULL, MONITOR   \* no block; the monitor's own buffer

(* A character of a number is one of the digits 0 .. Base - 1, a letter    *)
(* behind the last digit, or something else.                               *)
PAST_F == Base
OTHER_CHAR == Base + 1
Number == [prefix : BOOLEAN, chars : Chars]
Argument == [name : {"b", "o", "?"}, number : [prefix : BOOLEAN, chars : Seq(0 .. OTHER_CHAR)]]

ASSUME WordAssumption ==
    /\ Base \in Nat \ {0, 1} /\ Word \in Nat /\ Base < Word
    /\ BufferWords \in Nat \ {0} /\ 4 * BufferWords < Word
    /\ {TextAddress, CtxAddress} \subseteq 1 .. Word - 1
    /\ Size \subseteq 1 .. Word - 1 /\ {L2Size, DefaultSize} \subseteq 1 .. Word - 1
ASSUME AddressAssumption ==
    /\ Address \in [Block -> 1 .. Word - 1]
    /\ \A b, c \in Block : Address[b] = Address[c] => b = c
(* A table of exports has four bytes for each, of a space of Word bytes.   *)
ASSUME ImageAssumption ==
    /\ DOMAIN Image \subseteq 1 .. Word - 1
    /\ \A base \in DOMAIN Image :
            Image[base] \in Seq(0 .. Word - 1) /\ 4 * Len(Image[base]) <= Word
ASSUME CharsAssumption == Chars \subseteq Seq(0 .. OTHER_CHAR)
ASSUME ArgumentAssumption == ArgumentList \subseteq Seq(Argument)
ASSUME NoBlockAssumption == {NULL, MONITOR} \cap Block = {}

VARIABLES
    pool,               \* blocks in use
    extent,             \* the size each region was allocated with
    stage,              \* how far the host has come
    io,                 \* io_address of L1
    g_image,            \* globals of L2
    g_image_entrypoint,
    ctx,                \* the CommandContext of each connection
    words,              \* what a resolve stored in its buffer
    asked,              \* history: the arguments of that resolve
    expects,            \* history: what a client may expect of its install
    broken,             \* history: an expectation was not met
    regions,            \* history: blocks handed to the host
    aborted,            \* history: a connection was lost while it was sent to
    fault

L1vars == <<stage, io>>
history == <<asked, expects, broken, regions, aborted>>
vars == <<pool, extent, L1vars, g_image, g_image_entrypoint, ctx, words, history, fault>>
-----------------------------------------------------------------------------
(* Numbers.  parse_integer reads digits up to the first other character;   *)
(* a letter past f is compared with itself for ever.                       *)
NoDigit(c) == c >= Base
DigitsEnd(chars) == SelectInSeq(chars, NoDigit)
Digits(chars) == IF DigitsEnd(chars) = 0 THEN chars ELSE SubSeq(chars, 1, DigitsEnd(chars) - 1)
Hangs(n) == n.prefix /\ DigitsEnd(n.chars) # 0 /\ n.chars[DigitsEnd(n.chars)] = PAST_F

(* Variant of parse_integer: numbers are not cut to a register. *)
parse_integer_unbounded(n) ==
    IF n.prefix THEN FoldLeft(LAMBDA v, d : v * Base + d, 0, Digits(n.chars)) ELSE TextAddress

AddDigit(v, d) == (v * Base + d) % Word
Value(digits) == FoldLeft(AddDigit, 0, digits)

(* Without 0x it leaves the register as parse_arg left it: the address of  *)
(* the argument.  The check for that compares other registers.             *)
parse_integer(n) == IF n.prefix THEN Value(Digits(n.chars)) ELSE TextAddress

(* Nothing is left of the argument behind its number. *)
AllRead(n) == IF n.prefix THEN Digits(n.chars) = n.chars ELSE n.chars = <<>>

(* Variant of integer_to_hex: the digits are not put in order. *)
integer_to_hex_reversed(v) ==
    LET hex[w \in 0 .. Word - 1] == IF w = 0 THEN <<>> ELSE <<w % Base>> \o hex[w \div Base]
    IN hex[v]

(* The digits integer_to_hex writes behind 0x: none at all for 0. *)
HexDigits[v \in 0 .. Word - 1] ==
    IF v = 0 THEN <<>> ELSE Append(HexDigits[v \div Base], v % Base)
integer_to_hex(v) == HexDigits[v]
-----------------------------------------------------------------------------
NewContext == [handler |-> "none", buffer |-> MONITOR, offset |-> 0, buffer_size |-> DefaultSize,
               user_data |-> NULL, bytes_remaining |-> 0]

(* The context after a transfer.  All of it but the size of its buffer is  *)
(* written before it is read again, so the rest is not kept.               *)
Ended(c) == [NewContext EXCEPT !.buffer_size = c.buffer_size]

Nothing == [block |-> NULL, size |-> 0, entrypoint |-> 0]

Init ==
    /\ pool = {}
    /\ extent = [b \in Block |-> 0]
    /\ stage = "start" /\ io = 0
    /\ g_image = NULL /\ g_image_entrypoint = 0
    /\ ctx = [s \in Session |-> NewContext]
    /\ words = [s \in Session |-> <<>>]
    /\ asked = [s \in Session |-> <<>>]
    /\ expects = [s \in Session |-> Nothing]
    /\ broken = FALSE
    /\ regions = {}
    /\ aborted = FALSE
    /\ fault = "none"

Running == fault = "none" /\ stage = "L2"
Receiving(s) == ctx[s].handler = "ReceiveImageData"
SendingTo(s) == ctx[s].handler = "SendResolvedExports"
Idle(s) == Running /\ ctx[s].handler = "none"

(* The machine faults: what else becomes of the state does not matter. *)
Fault(f) ==
    /\ fault' = f
    /\ UNCHANGED <<pool, extent, L1vars, g_image, g_image_entrypoint, ctx, words, history>>
-----------------------------------------------------------------------------
(* L1.  The host says in io what is wanted: a size, or 0 for a call.       *)
HostSetsSize ==
    /\ stage = "start"
    /\ io' = L2Size
    /\ stage' = "sized"
    /\ UNCHANGED <<pool, extent, g_image, g_image_entrypoint, ctx, words, history, fault>>

(* It takes what L1 left in io for the address of its block, and for a     *)
(* failure if that is 0; writes L2 there, and clears io.                   *)
HostLoadsL2 ==
    /\ stage = "allocated"
    /\ io' = 0
    /\ IF io = 0
       THEN stage' = "start" /\ UNCHANGED fault
       ELSE /\ stage' = "loaded"
            /\ fault' = IF \E b \in pool : Address[b] = io THEN "none" ELSE "wild_write"
    /\ UNCHANGED <<pool, extent, g_image, g_image_entrypoint, ctx, words, history>>

(* Variant of L1Allocate: a failure is not stored. *)
L1AllocateKeepingSize ==
    /\ stage = "sized" /\ io # 0
    /\ stage' = "allocated"
    /\ \/ UNCHANGED <<pool, extent, io, regions>>
       \/ /\ CanAlloc(pool)
          /\ pool' = pool \cup {Alloc(pool)}
          /\ extent' = [extent EXCEPT ![Alloc(pool)] = io]
          /\ regions' = regions \cup {Alloc(pool)}
          /\ io' = Address[Alloc(pool)]
    /\ UNCHANGED <<g_image, g_image_entrypoint, ctx, words, asked, expects, broken, aborted, fault>>

(* bootstrap, called with DmAllocatePoolWithTag and io not 0. *)
L1Allocate ==
    /\ stage = "sized" /\ io # 0
    /\ stage' = "allocated"
    /\ \/ io' = 0 /\ UNCHANGED <<pool, extent, regions>>
       \/ /\ CanAlloc(pool)
          /\ pool' = pool \cup {Alloc(pool)}
          /\ extent' = [extent EXCEPT ![Alloc(pool)] = io]
          /\ regions' = regions \cup {Alloc(pool)}
          /\ io' = Address[Alloc(pool)]
    /\ UNCHANGED <<g_image, g_image_entrypoint, ctx, words, asked, expects, broken, aborted, fault>>

(* bootstrap, called with bootstrap_l2 and io 0: L2 registers its command  *)
(* processor, and the result, here 1, goes to io.                          *)
L1CallEntrypoint ==
    /\ stage = "loaded" /\ io = 0 /\ fault = "none"
    /\ stage' = "L2"
    /\ io' = 1
    /\ UNCHANGED <<pool, extent, g_image, g_image_entrypoint, ctx, words, history, fault>>
-----------------------------------------------------------------------------
(* What installs may expect.  A region is promised to the connection that  *)
(* was the last to allocate one, until it does anything but install; the   *)
(* promise to one that is receiving outlives other allocations, but not    *)
(* another install.                                                        *)
Forget(s) == [expects EXCEPT ![s] = Nothing]

(* Variant of HandleAlloc: the size is kept with the image only. *)
HandleAllocKeepingSize(s, n) ==
    LET b == Alloc(pool)
    IN /\ Idle(s)
       /\ ~Hangs(n)
       /\ parse_integer(n) \in Size /\ CanAlloc(pool)
       /\ pool' = pool \cup {b}
       /\ extent' = [extent EXCEPT ![b] = parse_integer(n)]
       /\ g_image' = b
       /\ regions' = regions \cup {b}
       /\ expects' = [t \in Session |->
                IF t = s THEN [block |-> b, size |-> parse_integer(n), entrypoint |-> 0]
                ELSE IF Receiving(t) THEN expects[t] ELSE Nothing]
       /\ UNCHANGED <<L1vars, g_image_entrypoint, ctx, words, asked, broken, aborted, fault>>

(* a s=<size>.  The size is stored before the allocation may fail. *)
HandleAlloc(s, n) ==
    LET size == parse_integer(n)
        b == Alloc(pool)
    IN /\ Idle(s)
       /\ ~Hangs(n)
       /\ size # 0
       /\ ctx' = [ctx EXCEPT ![s].buffer_size = size]
       /\ \/ expects' = Forget(s) /\ UNCHANGED <<pool, extent, g_image, regions>>
          \/ /\ size \in Size /\ CanAlloc(pool)
             /\ pool' = pool \cup {b}
             /\ extent' = [extent EXCEPT ![b] = size]
             /\ g_image' = b
             /\ regions' = regions \cup {b}
             /\ expects' = [t \in Session |->
                    IF t = s THEN [block |-> b, size |-> size, entrypoint |-> 0]
                    ELSE IF Receiving(t) THEN expects[t] ELSE Nothing]
       /\ UNCHANGED <<L1vars, g_image_entrypoint, words, asked, broken, aborted, fault>>

(* A number the loop of parse_integer does not get past. *)
HandleHangingNumber(s, n) ==
    /\ Idle(s)
    /\ Hangs(n)
    /\ Fault("hang")

(* Variant of HandleInstall: the buffer stays where it was. *)
HandleInstallKeepingBuffer(s, n) ==
    /\ Idle(s)
    /\ ~Hangs(n)
    /\ parse_integer(n) # 0 /\ ctx[s].buffer_size # 0
    /\ g_image_entrypoint' = parse_integer(n)
    /\ ctx' = [ctx EXCEPT ![s].handler = "ReceiveImageData",
                          ![s].bytes_remaining = ctx[s].buffer_size]
    /\ expects' = [t \in Session |->
            IF t = s /\ expects[s] # Nothing
            THEN [expects[s] EXCEPT !.entrypoint = parse_integer(n)]
            ELSE IF Receiving(t) THEN Nothing ELSE expects[t]]
    /\ UNCHANGED <<pool, extent, L1vars, g_image, words, asked, broken, regions, aborted, fault>>

(* i e=<entrypoint>.  With no bytes due there is no continuation call. *)
HandleInstall(s, n) ==
    LET entrypoint == parse_integer(n)
    IN /\ Idle(s)
       /\ ~Hangs(n)
       /\ entrypoint # 0
       /\ g_image_entrypoint' = entrypoint
       /\ IF ctx[s].buffer_size = 0
          THEN UNCHANGED ctx
          ELSE ctx' = [ctx EXCEPT ![s].handler = "ReceiveImageData",
                                  ![s].buffer = g_image, ![s].offset = 0,
                                  ![s].bytes_remaining = ctx[s].buffer_size]
       /\ expects' = [t \in Session |->
                IF t = s THEN IF expects[s] = Nothing
                              THEN Nothing ELSE [expects[s] EXCEPT !.entrypoint = entrypoint]
                ELSE IF Receiving(t) THEN Nothing ELSE expects[t]]
       /\ UNCHANGED <<pool, extent, L1vars, g_image, words, asked, broken, regions, aborted, fault>>

(* ReceiveImageData, called with n bytes more at the buffer's pointer.     *)
ReceiveImageData(s, n) ==
    LET c == [ctx[s] EXCEPT !.offset = @ + n, !.buffer_size = @ - n, !.bytes_remaining = @ - n]
    IN /\ Running
       /\ Receiving(s)
       /\ IF ctx[s].buffer = NULL
          THEN Fault("null_write")
          ELSE IF c.offset > extent[c.buffer]
          THEN Fault("overrun")
          ELSE /\ IF c.bytes_remaining # 0
                  THEN ctx' = [ctx EXCEPT ![s] = c] /\ UNCHANGED <<broken, expects>>
                  ELSE /\ ctx' = [ctx EXCEPT ![s] = Ended(c)]
                       /\ broken' = (broken \/ expects[s] \notin
                            {Nothing, [block |-> c.buffer, size |-> c.offset,
                                       entrypoint |-> g_image_entrypoint]})
                       /\ expects' = Forget(s)
               /\ UNCHANGED <<pool, extent, L1vars, g_image, g_image_entrypoint, words, asked,
                              regions, aborted, fault>>

(* ReceiveImageData, called with no data: an error, and nothing is reset.  *)
ReceiveNothing(s) ==
    /\ Running
    /\ Receiving(s)
    /\ ctx' = [ctx EXCEPT ![s] = Ended(@)]
    /\ expects' = Forget(s)
    /\ UNCHANGED <<pool, extent, L1vars, g_image, g_image_entrypoint, words, asked, broken,
                   regions, aborted, fault>>
-----------------------------------------------------------------------------
(* Variant of ExportAt: an index of the table's length is let through. *)
ExportAtOff(base, ordinal) ==
    LET index == ordinal - 1
        signed == IF index < Word \div 2 THEN index ELSE index - Word
        slot == ((4 * index) % Word) \div 4
    IN IF signed > Len(Image[base]) THEN 0
       ELSE IF slot < Len(Image[base]) THEN (base + Image[base][slot + 1]) % Word ELSE -1

(* GetExportAddress: the word for an ordinal of the image at base, or -1   *)
(* if it reads beyond the table.  The index is compared as a signed number *)
(* and loses its two top bits when it becomes an offset.                   *)
ExportAt(base, ordinal) ==
    LET index == ordinal - 1
        signed == IF index < Word \div 2 THEN index ELSE index - Word
        slot == ((4 * index) % Word) \div 4
    IN IF signed >= Len(Image[base]) THEN 0
       ELSE IF slot < Len(Image[base]) THEN (base + Image[base][slot + 1]) % Word ELSE -1

(* Variant of ResolveOrdinal: nothing is stored for an ordinal that fails. *)
ResolveOrdinalOnce(r, a) ==
    LET word == ExportAt(r.base, parse_integer(a.number))
    IN IF Len(r.words) = BufferWords
       THEN [r EXCEPT !.status = "overrun"]
       ELSE [base |-> r.base, words |-> IF word = 0 THEN r.words ELSE Append(r.words, word),
             status |-> IF word = -1 THEN "wild_read"
                        ELSE IF AllRead(a.number) THEN "go" ELSE "usage"]

(* One ordinal, its number read: nothing compares the words with the room. *)
ResolveOrdinal(r, a) ==
    LET word == ExportAt(r.base, parse_integer(a.number))
    IN IF Len(r.words) = BufferWords
       THEN [r EXCEPT !.status = "overrun"]
       ELSE [base |-> r.base, words |-> Append(r.words, word),
             status |-> IF word = -1 THEN "wild_read"
                        ELSE IF AllRead(a.number) THEN "go" ELSE "usage"]

(* One round of the loop over the arguments.  The first base is whatever   *)
(* the register held, the address of the context, so that "some base > 0   *)
(* was previously given" is never missed.                                  *)
ResolveArgument(r, a) ==
    IF r.status # "go" THEN r
    ELSE IF a.name = "b" /\ Hangs(a.number) THEN [r EXCEPT !.status = "hang"]
    ELSE IF a.name = "b" THEN [r EXCEPT !.base = parse_integer(a.number),
                                        !.status = IF AllRead(a.number) THEN "go" ELSE "usage"]
    ELSE IF r.base = 0 \/ a.name # "o" THEN [r EXCEPT !.status = "usage"]
    ELSE IF Hangs(a.number) THEN [r EXCEPT !.status = "hang"]
    ELSE IF parse_integer(a.number) = 0 THEN [r EXCEPT !.status = "usage"]
    ELSE IF r.base \notin DOMAIN Image THEN [r EXCEPT !.status = "wild_read"]
    ELSE ResolveOrdinal(r, a)

ResolveStart == [base |-> CtxAddress, words |-> <<>>, status |-> "go"]
Resolved(args) == FoldLeft(ResolveArgument, ResolveStart, args)

(* The context of a connection that a resolve is to send b to. *)
ToSend(b, bytes) ==
    [handler |-> "SendResolvedExports", buffer |-> b, offset |-> 0,
     buffer_size |-> 4 * BufferWords, user_data |-> b, bytes_remaining |-> bytes]

(* r b=<base> o=<ordinal> ..., when the buffer could not be allocated: the *)
(* first word is written through NULL, and a usage error frees NULL.       *)
HandleResolveNoMemory(s, args) ==
    LET r == Resolved(args)
    IN /\ Idle(s)
       /\ \/ r.words # <<>> /\ Fault("null_write")
          \/ r.words = <<>> /\ r.status \in {"hang", "wild_read"} /\ Fault(r.status)
          \/ r.words = <<>> /\ r.status = "usage" /\ Fault("bad_free")
          \/ /\ r.words = <<>> /\ r.status = "go"
             /\ ctx' = [ctx EXCEPT ![s] = ToSend(NULL, 0)]
             /\ expects' = Forget(s)
             /\ UNCHANGED <<pool, extent, L1vars, g_image, g_image_entrypoint, words, asked,
                            broken, regions, aborted, fault>>

(* Variant of HandleResolve: a usage error leaves the buffer. *)
HandleResolveKeepingBuffer(s, args) ==
    LET r == Resolved(args)
    IN /\ Idle(s)
       /\ CanAlloc(pool)
       /\ r.status = "usage"
       /\ pool' = pool \cup {Alloc(pool)}
       /\ ctx' = [ctx EXCEPT ![s].buffer_size = 0]
       /\ expects' = Forget(s)
       /\ UNCHANGED <<extent, L1vars, g_image, g_image_entrypoint, words, asked, broken, regions,
                      aborted, fault>>

(* The same command with its buffer. *)
HandleResolve(s, args) ==
    LET r == Resolved(args)
        b == Alloc(pool)
    IN /\ Idle(s)
       /\ CanAlloc(pool)
       /\ \/ /\ r.status = "go"
             /\ pool' = pool \cup {b}
             /\ ctx' = [ctx EXCEPT ![s] = ToSend(b, 4 * Len(r.words))]
             /\ words' = [words EXCEPT ![s] = r.words]
             /\ asked' = [asked EXCEPT ![s] = args]
             /\ expects' = Forget(s)
             /\ UNCHANGED <<extent, L1vars, g_image, g_image_entrypoint, broken, regions, aborted,
                            fault>>
          \/ /\ r.status = "usage"
             /\ ctx' = [ctx EXCEPT ![s].buffer_size = 0]
             /\ expects' = Forget(s)
             /\ UNCHANGED <<pool, extent, L1vars, g_image, g_image_entrypoint, words, asked,
                            broken, regions, aborted, fault>>
          \/ /\ r.status \in {"hang", "wild_read", "overrun"}
             /\ fault' = r.status
             /\ asked' = [asked EXCEPT ![s] = args]
             /\ UNCHANGED <<pool, extent, L1vars, g_image, g_image_entrypoint, ctx, words,
                            expects, broken, regions, aborted>>

(* Variant of SendResolvedExports: it waits for bytes_remaining to go to 0. *)
SendResolvedExportsAgain(s) ==
    /\ Running
    /\ SendingTo(s)
    /\ ctx[s].bytes_remaining = 0
    /\ ctx[s].user_data # NULL
    /\ ctx' = [ctx EXCEPT ![s] = Ended(@)]
    /\ pool' = Free(pool, {ctx[s].user_data})
    /\ words' = [words EXCEPT ![s] = <<>>]
    /\ asked' = [asked EXCEPT ![s] = <<>>]
    /\ UNCHANGED <<extent, L1vars, g_image, g_image_entrypoint, expects, broken, regions, aborted,
                   fault>>

(* SendResolvedExports: all words in one go; when called again it frees    *)
(* the buffer and reports that there is no more.                           *)
SendResolvedExports(s) ==
    /\ Running
    /\ SendingTo(s)
    /\ IF ctx[s].bytes_remaining # 0
       THEN /\ ctx' = [ctx EXCEPT ![s].bytes_remaining = 0]
            /\ UNCHANGED <<pool, extent, L1vars, g_image, g_image_entrypoint, words, history,
                           fault>>
       ELSE IF ~MayFree(pool, {ctx[s].user_data})
       THEN Fault("bad_free")
       ELSE /\ ctx' = [ctx EXCEPT ![s] = Ended(@)]
            /\ pool' = Free(pool, {ctx[s].user_data})
            /\ words' = [words EXCEPT ![s] = <<>>]
            /\ asked' = [asked EXCEPT ![s] = <<>>]
            /\ UNCHANGED <<extent, L1vars, g_image, g_image_entrypoint, expects, broken, regions,
                           aborted, fault>>

(* The connection goes away; the next one starts with a new context.       *)
Disconnect(s) ==
    /\ Running
    /\ ctx' = [ctx EXCEPT ![s] = NewContext]
    /\ expects' = Forget(s)
    /\ words' = [words EXCEPT ![s] = <<>>]
    /\ asked' = [asked EXCEPT ![s] = <<>>]
    /\ aborted' = (aborted \/ SendingTo(s))
    /\ UNCHANGED <<pool, extent, L1vars, g_image, g_image_entrypoint, broken, regions, fault>>
-----------------------------------------------------------------------------
Next ==
    \/ HostSetsSize \/ L1Allocate \/ HostLoadsL2 \/ L1CallEntrypoint
    \/ \E s \in Session :
            \/ \E n \in Number :
                    HandleAlloc(s, n) \/ HandleInstall(s, n) \/ HandleHangingNumber(s, n)
            \/ \E args \in ArgumentList : HandleResolve(s, args) \/ HandleResolveNoMemory(s, args)
            \/ SendResolvedExports(s)
            \/ \E n \in 1 .. ctx[s].bytes_remaining : ReceiveImageData(s, n)
            \/ ReceiveNothing(s)
            \/ Disconnect(s)

Spec == Init /\ [][Next]_vars

(* The monitor keeps calling the handler of a connection that stays up. *)
FairSpec ==
    /\ Spec
    /\ \A s \in Session :
            /\ WF_vars(SendResolvedExports(s))
            /\ WF_vars(\E n \in 1 .. ctx[s].bytes_remaining : ReceiveImageData(s, n))
-----------------------------------------------------------------------------
(* What a resolve asks for, argument by argument: the reference for the    *)
(* loop of the code.  An ordinal has the place the code's buffer has for   *)
(* it when every ordinal up to it got one word.                            *)
Ordinals(args, i) == {j \in 1 .. i : args[j].name = "o"}
Place(args, i) == Cardinality(Ordinals(args, i))
BaseOf(args, i) ==
    parse_integer(args[Max({j \in 1 .. i - 1 : args[j].name = "b"})].number)
Wanted(args, i) ==
    LET o == parse_integer(args[i].number)
        base == BaseOf(args, i)
    IN IF o \in DOMAIN Image[base] THEN (base + Image[base][o]) % Word ELSE 0

(* A resolve a client may well send: images and ordinals are given as      *)
(* numbers, bases before ordinals, ordinals in the lower half of a word,   *)
(* and no more than the buffer holds.                                      *)
WellFormed(args) ==
    /\ \A i \in DOMAIN args : args[i].name \in {"b", "o"} /\ ~Hangs(args[i].number)
    /\ Place(args, Len(args)) <= BufferWords
    /\ \A i \in DOMAIN args : args[i].name = "o" =>
            /\ parse_integer(args[i].number) \in 0 .. Word \div 2
            /\ \E j \in 1 .. i - 1 : args[j].name = "b"
            /\ BaseOf(args, i) \in DOMAIN Image \cup {0}

Buffers == {ctx[s].user_data : s \in {t \in Session : SendingTo(t)}} \ {NULL}
-----------------------------------------------------------------------------
(* Every variable has its type. *)
TypeOK ==
    /\ pool \subseteq Block /\ regions \subseteq Block
    /\ extent \in [Block -> 0 .. Word - 1]
    /\ stage \in {"start", "sized", "allocated", "loaded", "L2"}
    /\ io \in 0 .. Word - 1
    /\ g_image \in Block \cup {NULL}
    /\ g_image_entrypoint \in 0 .. Word - 1
    /\ ctx \in [Session -> [handler : {"none", "SendResolvedExports", "ReceiveImageData"},
                            buffer : Block \cup {NULL, MONITOR}, offset : 0 .. Word - 1,
                            buffer_size : 0 .. Word - 1, user_data : Block \cup {NULL},
                            bytes_remaining : 0 .. Word - 1]]
    /\ aborted \in BOOLEAN /\ broken \in BOOLEAN

(* The blocks in use are the regions handed to the host and the buffers of *)
(* resolves still being sent, unless a connection was lost meanwhile: a    *)
(* refused resolve and the end of a sent one give the buffer back, and no  *)
(* region becomes a buffer or the other way round.                         *)
RegionsOwn ==
    /\ regions \cup Buffers \subseteq pool
    /\ regions \cap Buffers = {}
    /\ \A s, t \in Session : SendingTo(s) /\ SendingTo(t) /\ s # t /\ ctx[s].user_data # NULL
            => ctx[s].user_data # ctx[t].user_data
    /\ ~aborted => pool = regions \cup Buffers
    /\ g_image \in regions \cup {NULL}

(* L2 is written into a block L1 allocated for it, although L1 reports     *)
(* success whether it got one or not.                                      *)
LoadedInRegion == fault # "wild_write" /\ (stage \in {"loaded", "L2"} => regions # {})

(* A client that allocates a region and next installs into it, no other    *)
(* client installing meanwhile, gets what it expects: the payload fills    *)
(* the region it was given, from start to end, and what is called then is  *)
(* the entrypoint it named.                                                *)
InstallIntact ==
    /\ \A s \in Session : Receiving(s) /\ expects[s] # Nothing =>
            /\ ctx[s].buffer = expects[s].block
            /\ ctx[s].offset + ctx[s].bytes_remaining = extent[ctx[s].buffer]
            /\ g_image_entrypoint = expects[s].entrypoint
    /\ ~broken

(* The base a region's client reads in the response to its alloc, and may  *)
(* send back as a number, is the address of the region.                    *)
BaseReadsBack ==
    \A b \in regions : parse_integer([prefix |-> TRUE, chars |-> integer_to_hex(Address[b])])
                            = Address[b]

(* "One DWORD per o", for the base given last before it, and 0 for what    *)
(* the image does not export; all of them are sent.                        *)
ResolvedWords ==
    \A s \in Session : SendingTo(s) /\ WellFormed(asked[s]) =>
        /\ Len(words[s]) = Place(asked[s], Len(asked[s]))
        /\ \A i \in Ordinals(asked[s], Len(asked[s])) :
                words[s][Place(asked[s], i)] = Wanted(asked[s], i)
        /\ ctx[s].bytes_remaining \in {0, 4 * Len(words[s])}

(* Resolving what a client may well ask for reads nothing but the export   *)
(* tables, writes nothing but the buffer, and comes back.                  *)
ResolveAnswered ==
    \A s \in Session : asked[s] # <<>> /\ WellFormed(asked[s]) => SendingTo(s)

(* A transfer comes to an end, or the machine faults. *)
CommandsEnd ==
    \A s \in Session : ctx[s].handler # "none" ~> (ctx[s].handler = "none" \/ fault # "none")

(* "Install a binary payload into the last allocated region": what an      *)
(* install is about to receive fits the region, whatever came before.      *)
InstallFitsRegion ==
    \A s \in Session : Receiving(s) /\ ctx[s].buffer \in Block =>
        ctx[s].offset + ctx[s].bytes_remaining <= extent[ctx[s].buffer]
=============================================================================
