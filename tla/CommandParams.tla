----------------------------- MODULE CommandParams -----------------------------
(***************************************************************************)
(* The parser of command parameters (src/src/command_processor_util.c):    *)
(* CPParseCommandParameters reads a text of the form                       *)
(*     key1=value1 key2="quoted value2" ...                                *)
(* into two growing arrays of strings from the debug pool, and CPDelete    *)
(* gives everything back.                                                  *)
(*                                                                         *)
(* A text is a sequence of characters.  Behind it lie its terminating NUL  *)
(* and then whatever the memory holds, here some characters and a NUL.     *)
(* Every allocation is a step of its own, which may fail.                  *)
(***************************************************************************)
EXTENDS DmPool, Integers, Sequences, FiniteSetsExt, SequencesExt

CONSTANTS
    Char,       \* the characters of texts
    Input,      \* what a caller may pass: a text and what the memory holds behind it
    Reserve,    \* DEFAULT_COMMAND_PARAMETER_RESERVE_SIZE
    NULL        \* no block

SPACE == " "
EQUALS == "="
QUOTE == "\""
BACKSLASH == "\\"
NUL == "NUL"

ASSUME CharAssumption == {SPACE, EQUALS, QUOTE, BACKSLASH} \subseteq Char /\ NUL \notin Char
ASSUME InputAssumption == \A t \in Input : t \in [text : Seq(Char), behind : Seq(Char)]
ASSUME ReserveAssumption == Reserve \in Nat \ {0}
ASSUME NoBlockAssumption == NULL \notin Block

(* What CPParseCommandParameters may return besides a count (PCP_ERR_...). *)
OUT_OF_MEMORY == -2
INVALID_KEY == -10
UNTERMINATED_QUOTED_KEY == -11
UNTERMINATED_ESCAPE == -12
Errors == {OUT_OF_MEMORY, INVALID_KEY, UNTERMINATED_QUOTED_KEY, UNTERMINATED_ESCAPE}

VARIABLES
    pool,           \* blocks in use
    input,          \* the text, and what lies behind it
    phase,          \* what the parser does next
    at,             \* key_start: a position of the memory
    max_entries,    \* the room the arrays are to have
    keys,           \* result->keys: a block or NULL
    values,         \* result->values: a block or NULL
    keys_room,      \* how many pointers those two blocks really hold
    values_room,
    entries,        \* the first result->entries slots: blocks and their texts
    ret,            \* what the parser returned
    fault           \* an illegal access or free

arrays == <<keys, values, keys_room, values_room>>
vars == <<pool, input, phase, at, max_entries, keys, values, keys_room, values_room, entries,
          ret, fault>>
-----------------------------------------------------------------------------
(* Scanning.  A pointer into the text is a position of Memory; End is the  *)
(* first position that is not.                                             *)
Memory == input.text \o <<NUL>> \o input.behind \o <<NUL>>
End == Len(Memory) + 1
CharAt(i) == IF i \in DOMAIN Memory THEN Memory[i] ELSE NUL

(* The first position from i on where one of the characters stops a scan. *)
ScanTo(stops, i) == Min({j \in i .. End : CharAt(j) \in stops \cup {NUL}})

FirstNonSpace(i) == ScanTo(Char \ {SPACE}, i)
KeyEnd(i) == ScanTo({SPACE, EQUALS}, i)

(* Variant of QuotedEnd: an escaped quote ends the value. *)
QuotedEndAtEscape(i) == ScanTo({QUOTE}, i)

(* Where the quoted value ends that goes on at i.  A backslash is passed   *)
(* together with what follows it, be it the NUL.                           *)
QuotedEnd(i) ==
    LET scan[j \in 1 .. End + 1] ==
            CASE j >= End \/ CharAt(j) \in {NUL, QUOTE} -> j
              [] CharAt(j) = BACKSLASH -> scan[j + 2]
              [] OTHER -> scan[j + 1]
    IN scan[i]

(* The entry at key position k. *)
HasValue(k) == CharAt(KeyEnd(k)) = EQUALS
Quoted(k) == HasValue(k) /\ CharAt(KeyEnd(k) + 1) = QUOTE
ValueStart(k) == KeyEnd(k) + (IF Quoted(k) THEN 2 ELSE 1)
ValueEnd(k) == IF Quoted(k) THEN QuotedEnd(ValueStart(k)) ELSE ScanTo({SPACE}, ValueStart(k))

(* Variant of EntryEnd: every value is taken to have a closing quote. *)
EntryEndPastQuote(k) == IF HasValue(k) THEN ValueEnd(k) + 1 ELSE KeyEnd(k)

EntryEnd(k) ==
    IF HasValue(k) THEN ValueEnd(k) + (IF Quoted(k) THEN 1 ELSE 0) ELSE KeyEnd(k)

Slice(i, j) == [n \in 1 .. j - i |-> CharAt(i + n - 1)]

(* The copy of a value without its backslashes, each with what it escapes  *)
(* kept, and whether it ends in a backslash that escapes nothing.          *)
CopyChar(copy, c) ==
    IF c = BACKSLASH /\ ~copy.escape THEN [copy EXCEPT !.escape = TRUE]
                                     ELSE [text |-> Append(copy.text, c), escape |-> FALSE]
CopyStart == [text |-> <<>>, escape |-> FALSE]
Unescape(s) == FoldLeft(CopyChar, CopyStart, s)

KeyText(k) == Slice(k, KeyEnd(k))
RawValue(k) == IF HasValue(k) THEN Slice(ValueStart(k), ValueEnd(k)) ELSE <<>>
ValueText(k) == IF Quoted(k) THEN Unescape(RawValue(k)).text ELSE RawValue(k)
BadEscape(k) == Quoted(k) /\ Unescape(RawValue(k)).escape
-----------------------------------------------------------------------------
Init ==
    /\ pool = {}
    /\ input \in Input
    /\ phase = "ReserveKeys"
    /\ at = 0
    /\ max_entries = Reserve
    /\ keys = NULL /\ keys_room = 0
    /\ values = NULL /\ values_room = 0
    /\ entries = <<>>
    /\ ret = 0
    /\ fault = "none"

(* The blocks the arrays, or the slots es, hold. *)
Slots(es) == ({es[i].key : i \in DOMAIN es} \cup {es[i].value : i \in DOMAIN es}) \ {NULL}
Arrays == {keys, values} \ {NULL}
Held == Arrays \cup Slots(entries)

(* Variant of CPDelete: the value strings are forgotten. *)
CPDeleteKeysOnly(p, es) ==
    LET freed == Arrays \cup {es[i].key : i \in DOMAIN es}
    IN /\ pool' = Free(p, freed)
       /\ fault' = IF MayFree(p, freed) THEN fault ELSE "bad_free"
       /\ keys' = NULL /\ keys_room' = 0
       /\ values' = NULL /\ values_room' = 0
       /\ entries' = <<>>

(* CPDelete, when the pool is p and the slots are es: it frees every       *)
(* string and both arrays and forgets them.                                *)
CPDelete(p, es) ==
    LET freed == Arrays \cup Slots(es)
    IN /\ pool' = Free(p, freed)
       /\ fault' = IF MayFree(p, freed) THEN fault ELSE "bad_free"
       /\ keys' = NULL /\ keys_room' = 0
       /\ values' = NULL /\ values_room' = 0
       /\ entries' = <<>>

(* The parser gives up: it deletes what it has. *)
Return(r, p, es) ==
    /\ CPDelete(p, es)
    /\ phase' = "returned"
    /\ ret' = r
    /\ UNCHANGED <<input, at, max_entries>>
-----------------------------------------------------------------------------
(* A new array takes over from the old one, which is freed if there is one.*)
Replace(old) ==
    /\ pool' = Free(pool \cup {Alloc(pool)}, {old})
    /\ fault' = IF MayFree(pool, {old} \ {NULL}) THEN fault ELSE "bad_free"

(* CommandParametersReserve: a new array of keys takes over from the old   *)
(* one, then a new array of values.                                        *)
ReserveKeys ==
    /\ phase = "ReserveKeys"
    /\ \/ Return(OUT_OF_MEMORY, pool, entries)
       \/ /\ CanAlloc(pool)
          /\ Replace(keys)
          /\ keys' = Alloc(pool)
          /\ keys_room' = max_entries
          /\ phase' = "ReserveValues"
          /\ UNCHANGED <<input, at, max_entries, values, values_room, entries, ret>>

ReserveValues ==
    /\ phase = "ReserveValues"
    /\ \/ Return(OUT_OF_MEMORY, pool, entries)
       \/ /\ CanAlloc(pool)
          /\ Replace(values)
          /\ values' = Alloc(pool)
          /\ values_room' = max_entries
          /\ phase' = IF at = 0 THEN "FirstEntry" ELSE "AppendKey"
          /\ UNCHANGED <<input, at, max_entries, keys, keys_room, entries, ret>>

(* CPParseCommandParameters skips the leading spaces.  A text of nothing   *)
(* else leaves no arrays behind.                                           *)
FirstEntry ==
    /\ phase = "FirstEntry"
    /\ LET k == FirstNonSpace(1)
       IN IF CharAt(k) = NUL
          THEN Return(0, pool, entries)
          ELSE /\ at' = k
               /\ phase' = "Entry"
               /\ UNCHANGED <<pool, input, max_entries, arrays, entries, ret, fault>>

(* The loop goes on behind the entry just stored. *)
NextEntry ==
    /\ at' = FirstNonSpace(EntryEnd(at))
    /\ phase' = "Entry"

(* Variant of NeedsRoom: the arrays grow one entry late. *)
NeedsRoomLate == Len(entries) > max_entries

NeedsRoom == Len(entries) = max_entries

(* One round of the loop, up to the first allocation of                    *)
(* CommandParametersAppend; or the end of the text.                        *)
Entry ==
    /\ phase = "Entry"
    /\ \/ /\ CharAt(at) = NUL
          /\ phase' = "parsed"
          /\ ret' = Len(entries)
          /\ UNCHANGED <<pool, input, at, max_entries, arrays, entries, fault>>
       \/ /\ CharAt(at) # NUL
          /\ KeyEnd(at) = at
          /\ Return(INVALID_KEY, pool, entries)
       \/ /\ CharAt(at) # NUL
          /\ KeyEnd(at) # at
          /\ Quoted(at) /\ CharAt(ValueEnd(at)) # QUOTE
          /\ Return(UNTERMINATED_QUOTED_KEY, pool, entries)
       \/ /\ CharAt(at) # NUL
          /\ KeyEnd(at) # at
          /\ Quoted(at) => CharAt(ValueEnd(at)) = QUOTE
          /\ max_entries' = IF NeedsRoom THEN 2 * max_entries ELSE max_entries
          /\ phase' = IF NeedsRoom THEN "ReserveKeys" ELSE "AppendKey"
          /\ UNCHANGED <<pool, input, at, arrays, entries, ret, fault>>

(* Variant of AppendKey: the block of the key is not checked. *)
AppendKeyUnchecked ==
    /\ phase = "AppendKey"
    /\ \E b \in IF CanAlloc(pool) THEN {NULL, Alloc(pool)} ELSE {NULL} :
            /\ pool' = pool \cup ({b} \ {NULL})
            /\ entries' = Append(entries, [key |-> b, name |-> KeyText(at),
                                           value |-> NULL, text |-> <<>>])
    /\ IF RawValue(at) = <<>> THEN NextEntry ELSE phase' = "AppendValue" /\ UNCHANGED at
    /\ UNCHANGED <<input, max_entries, arrays, ret, fault>>

(* CommandParametersAppend: the key, stored in the next slot, whose value  *)
(* stays NULL if there is none.                                            *)
AppendKey ==
    /\ phase = "AppendKey"
    /\ \/ Return(OUT_OF_MEMORY, pool, entries)
       \/ /\ CanAlloc(pool)
          /\ pool' = pool \cup {Alloc(pool)}
          /\ entries' = Append(entries, [key |-> Alloc(pool), name |-> KeyText(at),
                                         value |-> NULL, text |-> <<>>])
          /\ fault' = IF Len(entries) < keys_room /\ Len(entries) < values_room
                      THEN fault ELSE "out_of_bounds"
          /\ IF RawValue(at) = <<>> THEN NextEntry ELSE phase' = "AppendValue" /\ UNCHANGED at
          /\ UNCHANGED <<input, max_entries, arrays, ret>>

(* The same entry with its value. *)
WithValue(b) ==
    [entries EXCEPT ![Len(entries)] = [@ EXCEPT !.value = b, !.text = ValueText(at)]]

AppendValue ==
    /\ phase = "AppendValue"
    /\ \/ Return(OUT_OF_MEMORY, pool, entries)
       \/ /\ CanAlloc(pool)
          /\ IF BadEscape(at)
             THEN Return(UNTERMINATED_ESCAPE, pool \cup {Alloc(pool)}, WithValue(Alloc(pool)))
             ELSE /\ pool' = pool \cup {Alloc(pool)}
                  /\ entries' = WithValue(Alloc(pool))
                  /\ NextEntry
                  /\ UNCHANGED <<input, max_entries, arrays, ret, fault>>
-----------------------------------------------------------------------------
(* The caller deletes the parameters, after a failure perhaps once more.   *)
Release ==
    /\ phase \in {"parsed", "returned"}
    /\ CPDelete(pool, entries)
    /\ phase' = "released"
    /\ UNCHANGED <<input, at, max_entries, ret>>

Next ==
    \/ ReserveKeys \/ ReserveValues \/ FirstEntry \/ Entry \/ AppendKey \/ AppendValue
    \/ Release

Spec == Init /\ [][Next]_vars
-----------------------------------------------------------------------------
(* Reading the parameters back.                                            *)
CPHasKey(name) == \E i \in DOMAIN entries : entries[i].name = name

(* The slot a lookup stops at. *)
CPFind(name) == Min({i \in DOMAIN entries : entries[i].name = name})

CPGetString(name) ==
    IF CPHasKey(name) /\ entries[CPFind(name)].value # NULL
    THEN entries[CPFind(name)].text ELSE NULL
-----------------------------------------------------------------------------
(* What a text says, read character by character: the reference for the    *)
(* parser, which looks ahead and copies slices.                            *)
Started == [mode |-> "gap", list |-> <<>>, name |-> <<>>, text |-> <<>>]

(* The entry being read is complete. *)
Emit(r) == [Started EXCEPT !.list = Append(r.list, [name |-> r.name, text |-> r.text])]

ReadChar(r, c) ==
    CASE r.mode = "gap" ->
            IF c = SPACE THEN r
            ELSE IF c = EQUALS THEN [r EXCEPT !.mode = "no key"]
            ELSE [r EXCEPT !.mode = "key", !.name = <<c>>]
      [] r.mode = "key" ->
            IF c = SPACE THEN Emit(r)
            ELSE IF c = EQUALS THEN [r EXCEPT !.mode = "start"]
            ELSE [r EXCEPT !.name = Append(@, c)]
      [] r.mode \in {"start", "plain"} ->
            IF c = SPACE THEN Emit(r)
            ELSE IF c = QUOTE /\ r.mode = "start" THEN [r EXCEPT !.mode = "quoted"]
            ELSE [r EXCEPT !.mode = "plain", !.text = Append(@, c)]
      [] r.mode = "quoted" ->
            IF c = QUOTE THEN Emit(r)
            ELSE IF c = BACKSLASH THEN [r EXCEPT !.mode = "escape"]
            ELSE [r EXCEPT !.text = Append(@, c)]
      [] r.mode = "escape" -> [r EXCEPT !.mode = "quoted", !.text = Append(@, c)]
      [] r.mode = "no key" -> r

Reading == FoldLeft(ReadChar, Started, input.text)

(* The list read, the last entry included. *)
ReadList == IF Reading.mode \in {"key", "start", "plain"} THEN Emit(Reading).list
                                                        ELSE Reading.list

(* What the parser should return for a text. *)
ReadRet == CASE Reading.mode = "no key" -> INVALID_KEY
             [] Reading.mode = "quoted" -> UNTERMINATED_QUOTED_KEY
             [] OTHER -> Len(ReadList)
-----------------------------------------------------------------------------
Phases == {"ReserveKeys", "ReserveValues", "FirstEntry", "Entry", "AppendKey", "AppendValue",
           "parsed", "returned", "released"}

(* Every variable has its type. *)
TypeOK ==
    /\ pool \subseteq Block
    /\ input \in Input
    /\ phase \in Phases
    /\ max_entries \in Nat \ {0}
    /\ {keys, values} \subseteq Block \cup {NULL}
    /\ {keys_room, values_room} \subseteq Nat
    /\ \A i \in DOMAIN entries : entries[i].key \in Block /\ entries[i].value \in Block \cup {NULL}
    /\ ret \in Nat \cup Errors
    /\ fault \in {"none", "bad_free", "out_of_bounds"}

(* At every step, whichever allocation failed, the blocks in use are the   *)
(* arrays and strings of the result, each held once, so that CPDelete can  *)
(* free them all exactly once; after a failure nothing is left.            *)
ParamsOwn ==
    /\ pool = Held
    /\ fault # "bad_free"
    /\ keys = values => keys = NULL
    /\ Arrays \cap Slots(entries) = {}
    /\ \A i, j \in DOMAIN entries :
            /\ entries[i].key # entries[j].value
            /\ i # j => entries[i].key # entries[j].key
            /\ i # j /\ entries[i].value = entries[j].value => entries[i].value = NULL
    /\ phase \in {"returned", "released"} => pool = {}

(* A slot is written only where both arrays have room for it, and the      *)
(* entries that are kept fit: growing half way does not confuse them.      *)
SlotsFit ==
    /\ fault # "out_of_bounds"
    /\ Len(entries) <= keys_room
    /\ Len(entries) <= values_room

(* Unless memory ran out, the parser returns what the text says: the same  *)
(* keys with the same values, quoted or not, or the error for its first    *)
(* defect; and a lookup answers for the first entry of that name.  A text  *)
(* that ends within an escape is the exception, see UnterminatedRefused.   *)
ParsesText ==
    /\ phase \in {"parsed", "returned"} /\ ret # OUT_OF_MEMORY /\ Reading.mode # "escape"
            => ret = ReadRet
    /\ phase = "parsed" /\ Reading.mode # "escape" =>
            /\ [i \in DOMAIN entries |-> [name |-> entries[i].name, text |-> entries[i].text]]
                    = ReadList
            /\ \A i \in DOMAIN ReadList :
                    LET e == ReadList[i]
                    IN (\A j \in 1 .. i - 1 : ReadList[j].name # e.name)
                            => CPGetString(e.name) = IF e.text = <<>> THEN NULL ELSE e.text

(* The parser does not read past the NUL of its text, except for a text    *)
(* that ends within an escape.                                             *)
StaysInText == Reading.mode # "escape" => at <= Len(input.text) + 1

(* "Unterminated quotes are erroneous." (the tests of the parser): a text  *)
(* that ends within a quoted value is not accepted.                        *)
UnterminatedRefused == phase = "parsed" => Reading.mode \notin {"quoted", "escape"}

=============================================================================
