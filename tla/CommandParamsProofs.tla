-------------------------- MODULE CommandParamsProofs --------------------------
(***************************************************************************)
(* Proofs about CommandParams, for every size of the pool, every first     *)
(* reserve and every set of texts: the types, the ownership of the blocks  *)
(* and the room for the slots, for which it does not matter what the scans *)
(* find; and then that the parser, which looks ahead and copies slices,    *)
(* returns what the reference reader reads character by character.         *)
(***************************************************************************)
EXTENDS CommandParams, NatFacts, SequenceTheorems, TLAPS

(* The slots are records whose names and texts are of some type or other.  *)
SlotType(N, T) == [key : Block, name : N, value : Block \cup {NULL}, text : T]

EntriesType == \E N, T : entries \in Seq(SlotType(N, T))

Types ==
    /\ pool \subseteq Block
    /\ input \in Input
    /\ phase \in Phases
    /\ max_entries \in Nat \ {0}
    /\ keys \in Block \cup {NULL} /\ values \in Block \cup {NULL}
    /\ keys_room \in Nat /\ values_room \in Nat
    /\ EntriesType
    /\ ret \in Nat \cup Errors
    /\ fault = "none"

(* No two slots, and no array and slot, share a block. *)
Distinct ==
    /\ keys = values => keys = NULL
    /\ Arrays \cap Slots(entries) = {}
    /\ \A i, j \in DOMAIN entries :
            /\ entries[i].key # entries[j].value
            /\ i # j => entries[i].key # entries[j].key
            /\ i # j /\ entries[i].value = entries[j].value => entries[i].value = NULL

(* The room there is in each phase of the parser. *)
Room ==
    /\ Len(entries) <= keys_room /\ Len(entries) <= values_room
    /\ phase \in {"ReserveKeys", "ReserveValues", "AppendKey"} => Len(entries) < max_entries
    /\ phase = "ReserveValues" => keys_room = max_entries
    /\ phase \in {"FirstEntry", "Entry", "AppendKey", "AppendValue"} =>
            keys_room = max_entries /\ values_room = max_entries

(* The slot a value is to be put in has none. *)
Pending ==
    phase = "AppendValue" => Len(entries) > 0 /\ entries[Len(entries)].value = NULL

IInv ==
    /\ Types
    /\ pool = Held
    /\ Distinct
    /\ Room
    /\ Pending
    /\ phase \in {"returned", "released"} => pool = {}
-----------------------------------------------------------------------------
(* A block the pool hands out was free. *)
LEMMA AllocFresh ==
    ASSUME NEW p, CanAlloc(p)
    PROVE  Alloc(p) \in Block /\ Alloc(p) \notin p /\ Alloc(p) # NULL
BY NoBlockAssumption DEF CanAlloc, Alloc

(* Slots may be looked at as having any larger set of names and texts. *)
LEMMA SlotTypeWiden ==
    ASSUME NEW N, NEW T, NEW M, NEW U, NEW es \in Seq(SlotType(N, T)), N \subseteq M, T \subseteq U
    PROVE  es \in Seq(SlotType(M, U))
<1>1. SlotType(N, T) \subseteq SlotType(M, U)
  BY DEF SlotType
<1> QED BY <1>1, SeqMonotonic

(* The blocks of the slots after one more key. *)
LEMMA SlotsOfAppend ==
    ASSUME NEW N, NEW T, NEW es \in Seq(SlotType(N, T)), NEW e \in SlotType(N, T),
           e.value = NULL
    PROVE  /\ Append(es, e) \in Seq(SlotType(N, T))
           /\ Len(Append(es, e)) = Len(es) + 1 /\ DOMAIN Append(es, e) = 1 .. Len(es) + 1
           /\ \A i \in DOMAIN es : i \in DOMAIN Append(es, e) /\ Append(es, e)[i] = es[i]
           /\ Append(es, e)[Len(es) + 1] = e
           /\ Slots(Append(es, e)) = Slots(es) \cup {e.key}
<1> DEFINE fs == Append(es, e)
<1>1. /\ fs \in Seq(SlotType(N, T)) /\ Len(fs) = Len(es) + 1 /\ DOMAIN fs = 1 .. Len(es) + 1
      /\ \A i \in DOMAIN es : i \in DOMAIN fs /\ fs[i] = es[i]
      /\ fs[Len(es) + 1] = e
  OBVIOUS
<1>2. Len(es) + 1 \in DOMAIN fs /\ \A i \in DOMAIN fs : i \in DOMAIN es \/ i = Len(es) + 1
  BY <1>1
<1>3. e.key # NULL
  BY NoBlockAssumption DEF SlotType
<1>4. Slots(fs) = Slots(es) \cup {e.key}
  <2> HIDE DEF fs
  <2>1. ASSUME NEW x PROVE x \in Slots(fs) => x \in Slots(es) \cup {e.key}
    BY <1>1, <1>2 DEF Slots
  <2>2. ASSUME NEW x PROVE x \in Slots(es) \cup {e.key} => x \in Slots(fs)
    BY <1>1, <1>2, <1>3 DEF Slots
  <2> QED BY <2>1, <2>2
<1> QED BY <1>1, <1>4

(* The slots es, the last of them replaced by v. *)
WithLast(es, v) == [es EXCEPT ![Len(es)] = v]

(* The blocks of the slots once the last one has its value. *)
LEMMA SlotsOfValue ==
    ASSUME NEW N, NEW T, NEW es \in Seq(SlotType(N, T)), Len(es) > 0,
           es[Len(es)].value = NULL, NEW v \in SlotType(N, T), v.key = es[Len(es)].key
    PROVE  /\ WithLast(es, v) \in Seq(SlotType(N, T))
           /\ Len(WithLast(es, v)) = Len(es) /\ DOMAIN WithLast(es, v) = DOMAIN es
           /\ \A i \in DOMAIN es : WithLast(es, v)[i].key = es[i].key
           /\ \A i \in DOMAIN es : i # Len(es) => WithLast(es, v)[i].value = es[i].value
           /\ Len(es) \in DOMAIN es /\ WithLast(es, v)[Len(es)] = v
           /\ Slots(WithLast(es, v)) = Slots(es) \cup ({v.value} \ {NULL})
<1> DEFINE n == Len(es)
           fs == WithLast(es, v)
<1>1. n \in Nat /\ DOMAIN es = 1 .. n /\ n \in 1 .. n
  BY LenProperties
<1>2. /\ fs \in Seq(SlotType(N, T)) /\ Len(fs) = n
      /\ \A i \in 1 .. n : fs[i] = IF i = n THEN v ELSE es[i]
  BY <1>1, ExceptSeq DEF WithLast
<1>3. DOMAIN fs = 1 .. n
  BY <1>2, LenProperties
<1> HIDE DEF fs
<1>4. Slots(fs) = Slots(es) \cup ({v.value} \ {NULL})
  <2>1. \A i \in DOMAIN es : fs[i].key = es[i].key
    BY <1>1, <1>2
  <2>2. \A i \in DOMAIN es : i # n => fs[i].value = es[i].value
    BY <1>1, <1>2
  <2>3. fs[n].value = v.value
    BY <1>1, <1>2
  <2>4. ASSUME NEW x PROVE x \in Slots(fs) => x \in Slots(es) \cup ({v.value} \ {NULL})
    BY <1>1, <1>3, <2>1, <2>2, <2>3 DEF Slots
  <2>5. ASSUME NEW x PROVE x \in Slots(es) \cup ({v.value} \ {NULL}) => x \in Slots(fs)
    BY <1>1, <1>3, <2>1, <2>2, <2>3 DEF Slots
  <2> QED BY <2>4, <2>5
<1>5. \A i \in DOMAIN es : fs[i].key = es[i].key
  BY <1>1, <1>2
<1> QED BY <1>1, <1>2, <1>3, <1>4, <1>5 DEF fs
-----------------------------------------------------------------------------
(* Giving up, or deleting the result, leaves nothing. *)
LEMMA DeleteInv ==
    ASSUME IInv, NEW p \in SUBSET Block, NEW es, Arrays \cup Slots(es) = p, CPDelete(p, es),
           phase' \in {"returned", "released"}, ret' \in Nat \cup Errors,
           UNCHANGED <<input, max_entries>>
    PROVE  IInv'
<1>1. /\ pool' = {} /\ fault' = "none" /\ entries' = <<>>
      /\ keys' = NULL /\ keys_room' = 0 /\ values' = NULL /\ values_room' = 0
  BY DEF CPDelete, Free, MayFree, IInv, Types
<1>2. Slots(entries)' = {} /\ Arrays' = {} /\ Len(entries') = 0 /\ DOMAIN entries' = {}
  BY <1>1 DEF Slots, Arrays
<1>3. Types'
  <2>1. EntriesType'
    BY <1>1, EmptySeq DEF EntriesType
  <2> QED BY <1>1, <2>1 DEF IInv, Types, Phases
<1>4. (pool = Held)'
  BY <1>1, <1>2 DEF Held
<1>5. Distinct'
  BY <1>1, <1>2 DEF Distinct
<1>6. Room'
  BY <1>1, <1>2 DEF Room
<1> QED BY <1>1, <1>3, <1>4, <1>5, <1>6 DEF IInv, Pending

LEMMA ReturnInv ==
    ASSUME IInv, NEW r \in Nat \cup Errors, Return(r, pool, entries)
    PROVE  IInv'
BY DeleteInv DEF Return, IInv, Types, Held

(* Facts of every state with the invariant. *)
LEMMA Basics ==
    ASSUME IInv
    PROVE  /\ Len(entries) \in Nat /\ DOMAIN entries = 1 .. Len(entries)
           /\ \A i \in DOMAIN entries : entries[i].key \in Block
                                          /\ entries[i].value \in Block \cup {NULL}
           /\ Slots(entries) \subseteq Block /\ Arrays \subseteq pool
           /\ Slots(entries) \subseteq pool /\ pool \subseteq Block
<1>1. PICK N, T : entries \in Seq(SlotType(N, T))
  BY DEF IInv, Types, EntriesType
<1>2. Len(entries) \in Nat /\ DOMAIN entries = 1 .. Len(entries)
  BY <1>1, LenProperties
<1>3. \A i \in DOMAIN entries : entries[i] \in SlotType(N, T)
  BY <1>1, <1>2, ElementOfSeq
<1>4. \A i \in DOMAIN entries : entries[i].key \in Block /\ entries[i].value \in Block \cup {NULL}
  BY <1>3 DEF SlotType
<1> QED BY <1>2, <1>4 DEF IInv, Types, Held, Slots

(* A step that leaves the result alone keeps what is said about it alone.  *)
LEMMA SameResult ==
    ASSUME IInv, UNCHANGED <<pool, input, arrays, entries, fault>>,
           phase' \in Phases, max_entries' \in Nat \ {0}, ret' \in Nat \cup Errors
    PROVE  Types' /\ (pool = Held)' /\ Distinct'
<1>1. Types'
  BY DEF IInv, Types, EntriesType, arrays
<1>2. Slots(entries)' = Slots(entries) /\ Arrays' = Arrays
  BY DEF Slots, Arrays, arrays
<1>3. (pool = Held)'
  BY <1>2 DEF IInv, Held
<1>4. Distinct'
  BY <1>2 DEF IInv, Distinct, arrays
<1> QED BY <1>1, <1>3, <1>4

LEMMA ReserveKeysInv == ASSUME IInv, ReserveKeys PROVE IInv'
<1>1. CASE Return(OUT_OF_MEMORY, pool, entries)
  BY <1>1, ReturnInv DEF Errors
<1>2. CASE /\ CanAlloc(pool) /\ Replace(keys) /\ keys' = Alloc(pool)
           /\ keys_room' = max_entries /\ phase' = "ReserveValues"
           /\ UNCHANGED <<input, at, max_entries, values, values_room, entries, ret>>
  <2>1. keys' \in Block /\ keys' \notin pool /\ keys' # NULL
    BY <1>2, AllocFresh
  <2>2. phase = "ReserveKeys"
    BY DEF ReserveKeys
  <2>3. pool' = (pool \cup {keys'}) \ {keys} /\ fault' = "none"
    BY <1>2, Basics DEF Replace, Free, MayFree, IInv, Types, Arrays
  <2>4. Types'
    BY <1>2, <2>1, <2>3, NoBlockAssumption DEF IInv, Types, Phases, EntriesType
  <2>5. Slots(entries)' = Slots(entries) /\ Arrays' = {keys', values} \ {NULL}
    BY <1>2 DEF Slots, Arrays
  <2>6. (pool = Held)'
    BY <2>1, <2>3, <2>5, Basics, NoBlockAssumption DEF IInv, Held, Distinct, Arrays
  <2>7. Distinct'
    <3>1. Slots(entries)' \cap Arrays' = {}
      BY <2>1, <2>5, Basics DEF IInv, Distinct, Arrays
    <3>2. keys' # values'
      BY <1>2, <2>1, Basics DEF Arrays
    <3> QED BY <1>2, <3>1, <3>2 DEF IInv, Distinct
  <2>8. Room'
    BY <1>2, <2>2, Basics DEF IInv, Types, Room
  <2> QED BY <1>2, <2>4, <2>6, <2>7, <2>8 DEF IInv, Pending
<1> QED BY <1>1, <1>2 DEF ReserveKeys

LEMMA ReserveValuesInv == ASSUME IInv, ReserveValues PROVE IInv'
<1>1. CASE Return(OUT_OF_MEMORY, pool, entries)
  BY <1>1, ReturnInv DEF Errors
<1>2. CASE /\ CanAlloc(pool) /\ Replace(values) /\ values' = Alloc(pool)
           /\ values_room' = max_entries
           /\ phase' = IF at = 0 THEN "FirstEntry" ELSE "AppendKey"
           /\ UNCHANGED <<input, at, max_entries, keys, keys_room, entries, ret>>
  <2>1. values' \in Block /\ values' \notin pool /\ values' # NULL
    BY <1>2, AllocFresh
  <2>2. phase = "ReserveValues" /\ phase' \in {"FirstEntry", "AppendKey"}
    BY <1>2 DEF ReserveValues
  <2>3. pool' = (pool \cup {values'}) \ {values} /\ fault' = "none"
    BY <1>2, Basics DEF Replace, Free, MayFree, IInv, Types, Arrays
  <2>4. Types'
    BY <1>2, <2>1, <2>2, <2>3, NoBlockAssumption DEF IInv, Types, Phases, EntriesType
  <2>5. Slots(entries)' = Slots(entries) /\ Arrays' = {keys, values'} \ {NULL}
    BY <1>2 DEF Slots, Arrays
  <2>6. (pool = Held)'
    BY <2>1, <2>3, <2>5, Basics, NoBlockAssumption DEF IInv, Held, Distinct, Arrays
  <2>7. Distinct'
    <3>1. Slots(entries)' \cap Arrays' = {}
      BY <2>1, <2>5, Basics DEF IInv, Distinct, Arrays
    <3>2. keys' # values'
      BY <1>2, <2>1, Basics DEF Arrays
    <3> QED BY <1>2, <3>1, <3>2 DEF IInv, Distinct
  <2>8. Room'
    BY <1>2, <2>2, Basics DEF IInv, Types, Room
  <2> QED BY <1>2, <2>2, <2>4, <2>6, <2>7, <2>8 DEF IInv, Pending
<1> QED BY <1>1, <1>2 DEF ReserveValues

LEMMA FirstEntryInv == ASSUME IInv, FirstEntry PROVE IInv'
<1>1. CASE Return(0, pool, entries)
  BY <1>1, ReturnInv
<1>2. CASE /\ phase' = "Entry"
           /\ UNCHANGED <<pool, input, max_entries, arrays, entries, ret, fault>>
  <2>1. Types' /\ (pool = Held)' /\ Distinct'
    BY <1>2, SameResult DEF IInv, Types, Phases
  <2>2. Room'
    BY <1>2 DEF FirstEntry, IInv, Room, arrays
  <2> QED BY <1>2, <2>1, <2>2 DEF IInv, Pending
<1> QED BY <1>1, <1>2 DEF FirstEntry

LEMMA EntryInv == ASSUME IInv, Entry PROVE IInv'
<1>1. CASE /\ phase' = "parsed" /\ ret' = Len(entries)
           /\ UNCHANGED <<pool, input, at, max_entries, arrays, entries, fault>>
  <2>1. Types' /\ (pool = Held)' /\ Distinct'
    BY <1>1, SameResult, Basics DEF IInv, Types, Phases
  <2> QED BY <1>1, <2>1 DEF IInv, Room, Pending, arrays
<1>2. CASE Return(INVALID_KEY, pool, entries) \/ Return(UNTERMINATED_QUOTED_KEY, pool, entries)
  BY <1>2, ReturnInv DEF Errors
<1>3. CASE /\ max_entries' = IF NeedsRoom THEN 2 * max_entries ELSE max_entries
           /\ phase' = IF NeedsRoom THEN "ReserveKeys" ELSE "AppendKey"
           /\ UNCHANGED <<pool, input, at, arrays, entries, ret, fault>>
  <2>1. Len(entries) \in Nat /\ Len(entries) <= max_entries /\ max_entries \in Nat \ {0}
    BY Basics DEF Entry, IInv, Types, Room
  <2>2. /\ max_entries' \in Nat \ {0} /\ Len(entries') < max_entries'
        /\ phase' = "AppendKey" => max_entries' = max_entries
        /\ phase' \in {"ReserveKeys", "AppendKey"}
    BY <1>3, <2>1 DEF NeedsRoom
  <2>3. Types' /\ (pool = Held)' /\ Distinct'
    BY <1>3, <2>2, SameResult DEF IInv, Types, Phases
  <2>4. Room'
    BY <1>3, <2>2 DEF Entry, IInv, Room, arrays
  <2> QED BY <2>2, <2>3, <2>4 DEF IInv, Pending
<1> QED BY <1>1, <1>2, <1>3 DEF Entry

LEMMA AppendKeyInv == ASSUME IInv, AppendKey PROVE IInv'
<1>1. CASE Return(OUT_OF_MEMORY, pool, entries)
  BY <1>1, ReturnInv DEF Errors
<1>2. CASE CanAlloc(pool) /\ ~Return(OUT_OF_MEMORY, pool, entries)
  <2> DEFINE b == Alloc(pool)
             n == KeyText(at)
  <2>1. /\ pool' = pool \cup {b}
        /\ entries' = Append(entries, [key |-> b, name |-> n, value |-> NULL, text |-> <<>>])
        /\ fault' = IF Len(entries) < keys_room /\ Len(entries) < values_room
                      THEN fault ELSE "out_of_bounds"
        /\ \/ phase' = "Entry"
           \/ phase' = "AppendValue"
        /\ UNCHANGED <<input, max_entries, arrays, ret>>
    BY <1>2 DEF AppendKey, NextEntry
  <2>2. phase = "AppendKey"
    BY DEF AppendKey
  <2>3. b \in Block /\ b \notin pool /\ b # NULL
    BY <1>2, AllocFresh
  <2> HIDE DEF b, n
  <2>4. PICK N, T : entries \in Seq(SlotType(N, T))
    BY DEF IInv, Types, EntriesType
  <2> DEFINE M == N \cup {n}
             U == T \cup {<<>>}
             e == [key |-> b, name |-> n, value |-> NULL, text |-> <<>>]
  <2>5. /\ entries' \in Seq(SlotType(M, U))
        /\ Len(entries') = Len(entries) + 1 /\ DOMAIN entries' = 1 .. Len(entries) + 1
        /\ \A i \in DOMAIN entries : i \in DOMAIN entries' /\ entries'[i] = entries[i]
        /\ entries'[Len(entries) + 1].key = b /\ entries'[Len(entries) + 1].value = NULL
        /\ Slots(entries') = Slots(entries) \cup {b}
    <3>1. entries \in Seq(SlotType(M, U))
      BY <2>4, SlotTypeWiden
    <3>2. e \in SlotType(M, U) /\ e.key = b /\ e.value = NULL
      BY <2>3 DEF SlotType
    <3>3. entries' = Append(entries, e)
      BY <2>1
    <3> HIDE DEF e, M, U
    <3> QED BY <3>1, <3>2, <3>3, SlotsOfAppend
  <2> HIDE DEF e, M, U
  <2>6. Types'
    <3>1. fault' = "none"
      BY <2>1, <2>2, Basics DEF IInv, Types, Room
    <3>2. EntriesType'
      BY <2>5 DEF EntriesType
    <3> QED BY <2>1, <2>3, <3>1, <3>2 DEF IInv, Types, Phases, arrays
  <2>7. Slots(entries)' = Slots(entries) \cup {b} /\ Arrays' = Arrays
    BY <2>1, <2>5 DEF Slots, Arrays, arrays
  <2>8. (pool = Held)'
    BY <2>1, <2>7 DEF IInv, Held
  <2>9. Distinct'
    <3>1. keys' = values' => keys' = NULL
      BY <2>1 DEF IInv, Distinct, arrays
    <3>2. Arrays' \cap Slots(entries)' = {}
      BY <2>3, <2>7, Basics DEF IInv, Distinct
    <3>3. \A i \in DOMAIN entries : entries[i].key # b /\ entries[i].value # b
                                     /\ entries[i].key # NULL
      BY <2>3, Basics, NoBlockAssumption DEF Slots
    <3>4. \A i \in DOMAIN entries' : i \in DOMAIN entries \/ i = Len(entries) + 1
      BY <2>5, Basics
    <3>5. ASSUME NEW i \in DOMAIN entries', NEW j \in DOMAIN entries'
          PROVE  /\ entries'[i].key # entries'[j].value
                 /\ i # j => entries'[i].key # entries'[j].key
                 /\ i # j /\ entries'[i].value = entries'[j].value => entries'[i].value = NULL
      <4>1. CASE i \in DOMAIN entries /\ j \in DOMAIN entries
        BY <4>1, <2>5 DEF IInv, Distinct
      <4>2. CASE i = Len(entries) + 1 /\ j \in DOMAIN entries
        BY <4>2, <2>3, <2>5, <3>3
      <4>3. CASE i \in DOMAIN entries /\ j = Len(entries) + 1
        BY <4>3, <2>3, <2>5, <3>3
      <4>4. CASE i = Len(entries) + 1 /\ j = Len(entries) + 1
        BY <4>4, <2>3, <2>5
      <4> QED BY <3>4, <4>1, <4>2, <4>3, <4>4
    <3> QED BY <3>1, <3>2, <3>5 DEF Distinct
  <2>10. Room' /\ Pending'
    BY <2>1, <2>2, <2>5, Basics DEF IInv, Types, Room, Pending, arrays
  <2> QED BY <2>1, <2>6, <2>8, <2>9, <2>10 DEF IInv
<1> QED BY <1>1, <1>2 DEF AppendKey

LEMMA AppendValueInv == ASSUME IInv, AppendValue PROVE IInv'
<1>1. CASE Return(OUT_OF_MEMORY, pool, entries)
  BY <1>1, ReturnInv DEF Errors
<1>2. CASE CanAlloc(pool) /\ ~Return(OUT_OF_MEMORY, pool, entries)
  <2> DEFINE b == Alloc(pool)
             last == Len(entries)
             es == WithValue(b)
  <2>1. phase = "AppendValue" /\ last > 0 /\ entries[last].value = NULL
    BY DEF AppendValue, IInv, Pending
  <2>2. b \in Block /\ b \notin pool /\ b # NULL
    BY <1>2, AllocFresh
  <2>3. PICK N, T : entries \in Seq(SlotType(N, T))
    BY DEF IInv, Types, EntriesType
  <2> HIDE DEF b
  <2> DEFINE U == T \cup {ValueText(at)}
             v == [entries[last] EXCEPT !.value = b, !.text = ValueText(at)]
  <2>4. /\ es \in Seq(SlotType(N, U))
        /\ Len(es) = last /\ DOMAIN es = DOMAIN entries
        /\ \A i \in DOMAIN entries : es[i].key = entries[i].key
        /\ \A i \in DOMAIN entries : i # last => es[i].value = entries[i].value
        /\ last \in DOMAIN entries /\ es[last].value = b
        /\ Slots(es) = Slots(entries) \cup {b}
    <3>1. entries \in Seq(SlotType(N, U))
      BY <2>3, SlotTypeWiden
    <3>2. entries[last] \in SlotType(N, U)
      BY <2>1, <3>1, Basics, ElementOfSeq
    <3>3. v \in SlotType(N, U) /\ v.key = entries[last].key /\ v.value = b
      BY <2>2, <3>2 DEF SlotType
    <3>4. es = WithLast(entries, v)
      BY DEF WithValue, WithLast
    <3> HIDE DEF v, U, es
    <3> QED BY <2>1, <2>2, <3>1, <3>3, <3>4, SlotsOfValue
  <2> HIDE DEF U
  <2> HIDE DEF es
  <2>5. CASE Return(UNTERMINATED_ESCAPE, pool \cup {b}, es)
    <3>1. Arrays \cup Slots(es) = pool \cup {b} /\ pool \cup {b} \in SUBSET Block
      BY <2>2, <2>4, Basics DEF IInv, Held
    <3> QED BY <2>5, <3>1, DeleteInv DEF Return, Errors
  <2>6. CASE /\ pool' = pool \cup {b} /\ entries' = es /\ phase' = "Entry"
             /\ UNCHANGED <<input, max_entries, arrays, ret, fault>>
    <3>1. Types'
      <4>1. EntriesType'
        BY <2>4, <2>6 DEF EntriesType
      <4> QED BY <2>2, <2>6, <4>1 DEF IInv, Types, Phases, arrays
    <3>2. Slots(entries)' = Slots(entries) \cup {b} /\ Arrays' = Arrays
      BY <2>4, <2>6 DEF Slots, Arrays, arrays
    <3>3. (pool = Held)'
      BY <2>6, <3>2 DEF IInv, Held
    <3>4. Distinct'
      <4>1. keys' = values' => keys' = NULL
        BY <2>6 DEF IInv, Distinct, arrays
      <4>2. Arrays' \cap Slots(entries)' = {}
        BY <2>2, <3>2, Basics DEF IInv, Distinct
      <4>3. \A i \in DOMAIN entries : entries[i].key # b /\ entries[i].value # b
        BY <2>2, Basics DEF Slots
      <4>4. ASSUME NEW i \in DOMAIN es, NEW j \in DOMAIN es
            PROVE  /\ es[i].key # es[j].value
                   /\ i # j => es[i].key # es[j].key
                   /\ i # j /\ es[i].value = es[j].value => es[i].value = NULL
        <5>1. es[i].key # es[j].value
          BY <2>4, <4>3 DEF IInv, Distinct
        <5>2. i # j => es[i].key # es[j].key
          BY <2>4 DEF IInv, Distinct
        <5>3. i # j /\ es[i].value = es[j].value => es[i].value = NULL
          BY <2>4, <4>3 DEF IInv, Distinct
        <5> QED BY <5>1, <5>2, <5>3
      <4> QED BY <2>6, <4>1, <4>2, <4>4 DEF Distinct
    <3>5. Room' /\ Pending'
      BY <2>1, <2>4, <2>6, Basics DEF IInv, Types, Room, Pending, arrays
    <3> QED BY <2>6, <3>1, <3>3, <3>4, <3>5 DEF IInv
  <2> QED BY <1>2, <2>5, <2>6 DEF AppendValue, NextEntry, b, es
<1> QED BY <1>1, <1>2 DEF AppendValue

LEMMA ReleaseInv == ASSUME IInv, Release PROVE IInv'
<1>1. Arrays \cup Slots(entries) = pool /\ pool \in SUBSET Block
  BY Basics DEF IInv, Held
<1> QED BY <1>1, DeleteInv DEF Release, IInv, Types

LEMMA InitInv == ASSUME Init PROVE IInv
<1>1. EntriesType
  BY EmptySeq DEF Init, EntriesType
<1> QED BY <1>1, ReserveAssumption, NoBlockAssumption
        DEF Init, IInv, Types, Phases, Held, Distinct, Room, Pending, Slots, Arrays
-----------------------------------------------------------------------------
(* The invariant holds in every state. *)
THEOREM InductiveInvariant == Spec => []IInv
<1>1. Init => IInv
  BY InitInv
<1>2. IInv /\ [Next]_vars => IInv'
  <2> SUFFICES ASSUME IInv, [Next]_vars PROVE IInv'
    OBVIOUS
  <2>1. CASE UNCHANGED vars
    <3>1. Types' /\ (pool = Held)' /\ Distinct'
      BY <2>1, SameResult DEF vars, arrays, IInv, Types
    <3> QED BY <2>1, <3>1 DEF vars, IInv, Room, Pending
  <2> QED BY <2>1, ReserveKeysInv, ReserveValuesInv, FirstEntryInv, EntryInv, AppendKeyInv,
             AppendValueInv, ReleaseInv DEF Next
<1> QED BY <1>1, <1>2, PTL DEF Spec

(* CommandParams keeps its types: no slot of the result lacks its key,     *)
(* whichever of the allocations of CommandParametersAppend fails.          *)
THEOREM TypeCorrect == Spec => []TypeOK
<1>1. IInv => TypeOK
  BY Basics DEF IInv, Types, TypeOK
<1> QED BY <1>1, InductiveInvariant, PTL

(* CPParseCommandParameters and CPDelete own their blocks: at every step   *)
(* the pool holds what the result refers to, each block once, and a        *)
(* failure or CPDelete gives all of them back.                             *)
THEOREM ParamsOwned == Spec => []ParamsOwn
<1>1. IInv => ParamsOwn
  BY DEF IInv, Types, Distinct, ParamsOwn
<1> QED BY <1>1, InductiveInvariant, PTL

(* CommandParametersReserve makes room in time: no slot is written outside *)
(* either array, even when only one of them could be replaced.             *)
THEOREM SlotsAlwaysFit == Spec => []SlotsFit
<1>1. IInv => SlotsFit
  BY DEF IInv, Types, Room, SlotsFit
<1> QED BY <1>1, InductiveInvariant, PTL
-----------------------------------------------------------------------------
(* What the scans find.                                                    *)
Text == input.text
Length == Len(Text)

(* A text ends with the first NUL of the memory it lies in.                *)
LEMMA MemoryFacts ==
    ASSUME input \in Input
    PROVE  /\ Text \in Seq(Char) /\ Length \in Nat /\ End \in Nat /\ Length + 1 < End
           /\ \A j \in 1 .. Length : CharAt(j) = Text[j] /\ CharAt(j) \in Char /\ CharAt(j) # NUL
           /\ CharAt(Length + 1) = NUL
           /\ \A j : CharAt(j) \in Char \cup {NUL}
           /\ \A j \in Nat : j >= End => CharAt(j) = NUL
<1> DEFINE C == Char \cup {NUL}
           t == input.text
           b == input.behind
<1>1. t \in Seq(Char) /\ b \in Seq(Char)
  BY InputAssumption
<1>2. t \in Seq(C) /\ b \in Seq(C) /\ <<NUL>> \in Seq(C)
  BY <1>1
<1> HIDE DEF t, b, C
<1> DEFINE u == t \o <<NUL>>
           v == u \o b
           m == v \o <<NUL>>
<1>3. u \in Seq(C) /\ Len(u) = Len(t) + 1 /\ u[Len(t) + 1] = NUL
      /\ \A j \in 1 .. Len(t) : u[j] = t[j]
  BY <1>2
<1> HIDE DEF u
<1>4. v \in Seq(C) /\ Len(v) = Len(u) + Len(b) /\ \A j \in 1 .. Len(u) : v[j] = u[j]
  BY <1>2, <1>3
<1> HIDE DEF v
<1>5. m \in Seq(C) /\ Len(m) = Len(v) + 1 /\ \A j \in 1 .. Len(v) : m[j] = v[j]
  BY <1>2, <1>4
<1> HIDE DEF m
<1>6. Memory = m /\ Text = t
  BY DEF Memory, Text, m, v, u, t, b
<1>7. Length \in Nat /\ Len(t) = Length /\ Len(b) \in Nat /\ Len(v) \in Nat
  BY <1>1, <1>4, <1>6 DEF Length
<1>8. End = Length + Len(b) + 3 /\ DOMAIN Memory = 1 .. End - 1
  BY <1>3, <1>4, <1>5, <1>6, <1>7 DEF End
<1>9. \A j \in 1 .. Length : CharAt(j) = t[j] /\ t[j] \in Char
  BY <1>1, <1>3, <1>4, <1>5, <1>6, <1>7, <1>8 DEF CharAt
<1>10. CharAt(Length + 1) = NUL
  BY <1>3, <1>4, <1>5, <1>6, <1>7, <1>8 DEF CharAt
<1>11. \A j : CharAt(j) \in C
  BY <1>5, <1>6 DEF CharAt, C
<1>12. \A j \in Nat : j >= End => CharAt(j) = NUL
  BY <1>7, <1>8 DEF CharAt
<1> QED BY <1>1, <1>6, <1>7, <1>8, <1>9, <1>10, <1>11, <1>12, CharAssumption DEF C

(* A scan stops at the first character that stops it.                      *)
LEMMA ScanStops ==
    ASSUME input \in Input, NEW stops, NEW i \in 1 .. Length + 1
    PROVE  /\ ScanTo(stops, i) \in i .. Length + 1
           /\ CharAt(ScanTo(stops, i)) \in stops \cup {NUL}
           /\ \A j \in i .. ScanTo(stops, i) - 1 : CharAt(j) \notin stops /\ CharAt(j) # NUL
<1> DEFINE S == {j \in i .. End : CharAt(j) \in stops \cup {NUL}}
           m == Min(S)
<1>1. Length \in Nat /\ End \in Nat /\ Length + 1 < End /\ CharAt(Length + 1) = NUL
  BY MemoryFacts
<1>2. Length + 1 \in S /\ S \subseteq Nat /\ S \subseteq i .. End
  BY <1>1
<1>3. \E x \in S : \A y \in S : x <= y
  <2> HIDE DEF S
  <2> QED BY <1>2, LeastNumber
<1>4. m \in S /\ \A y \in S : m <= y
  <2> HIDE DEF S
  <2> QED BY <1>3 DEF Min
<1>5. ScanTo(stops, i) = m
  BY DEF ScanTo
<1> HIDE DEF m
<1>6. m \in i .. Length + 1 /\ CharAt(m) \in stops \cup {NUL}
  BY <1>1, <1>2, <1>4
<1>7. ASSUME NEW j \in i .. m - 1 PROVE CharAt(j) \notin stops \cup {NUL}
  <2>1. j \notin S
    BY <1>1, <1>4, <1>6
  <2> QED BY <2>1, <1>1, <1>6
<1> QED BY <1>5, <1>6, <1>7

(* A slice grows at its end.                                               *)
LEMMA SliceGrows ==
    ASSUME input \in Input, NEW i \in Nat, NEW j \in Nat, i <= j
    PROVE  /\ Slice(i, i) = <<>>
           /\ Slice(i, j) \in Seq(Char \cup {NUL}) /\ Len(Slice(i, j)) = j - i
           /\ Slice(i, j + 1) = Append(Slice(i, j), CharAt(j))
           /\ Slice(i, j) = <<>> <=> i = j
<1>1. \A n : CharAt(n) \in Char \cup {NUL}
  BY MemoryFacts
<1>2. Slice(i, i) = <<>>
  BY DEF Slice
<1>3. Slice(i, j) \in Seq(Char \cup {NUL}) /\ Len(Slice(i, j)) = j - i
  BY <1>1 DEF Slice
<1>4. Slice(i, j + 1) = Append(Slice(i, j), CharAt(j))
  <2> DEFINE s == Slice(i, j)
             t == Slice(i, j + 1)
  <2>1. /\ DOMAIN t = 1 .. (j - i) + 1 /\ t[(j - i) + 1] = CharAt(j)
        /\ \A n \in 1 .. j - i : t[n] = s[n]
    BY DEF Slice
  <2>2. t \in Seq(Char \cup {NUL})
    BY <1>1 DEF Slice
  <2> HIDE DEF s, t
  <2> QED BY <1>3, <2>1, <2>2 DEF s, t
<1>5. Slice(i, j) = <<>> <=> i = j
  BY <1>2, <1>3
<1> QED BY <1>2, <1>3, <1>4, <1>5

(* The scan of a quoted value comes to an end at every position.           *)
ScanStep(f, j) ==
    CASE j >= End \/ CharAt(j) \in {NUL, QUOTE} -> j
      [] CharAt(j) = BACKSLASH -> f[j + 2]
      [] OTHER -> f[j + 1]

LEMMA ScanExists ==
    ASSUME input \in Input
    PROVE  /\ \A j \in 1 .. Length + 1 : CharAt(j) \in {NUL, QUOTE} => QuotedEnd(j) = j
           /\ \A j \in 1 .. Length : CharAt(j) = BACKSLASH => QuotedEnd(j) = QuotedEnd(j + 2)
           /\ \A j \in 1 .. Length : CharAt(j) \notin {NUL, QUOTE, BACKSLASH}
                                        => QuotedEnd(j) = QuotedEnd(j + 1)
<1>1. Length \in Nat /\ End \in Nat /\ Length + 1 < End
  BY MemoryFacts
<1>12. NUL # BACKSLASH /\ QUOTE # BACKSLASH /\ \A j \in Nat : j >= End => CharAt(j) = NUL
  BY MemoryFacts DEF NUL, QUOTE, BACKSLASH
<1> DEFINE Scans(d, f) == f = [j \in (End + 1) - d .. End + 1 |-> ScanStep(f, j)]
           T == {d \in Nat : \E f : Scans(d, f)}
<1>2. 0 \in T
  <2> DEFINE f == [j \in End + 1 .. End + 1 |-> j]
  <2>2. (End + 1) - 0 = End + 1
    BY <1>1
  <2>1. ASSUME NEW j \in (End + 1) - 0 .. End + 1 PROVE ScanStep(f, j) = j
    <3>1. j >= End /\ CharAt(j) = NUL
      BY <1>12, <1>1
    <3> QED BY <3>1, <1>12 DEF ScanStep
  <2>3. Scans(0, f)
    BY <2>1, <2>2
  <2> QED BY <2>3
<1>3. ASSUME NEW d \in 0 .. End - 1, d \in T PROVE d + 1 \in T
  <2>1. PICK f : Scans(d, f)
    BY <1>3
  <2> DEFINE g == [j \in (End + 1) - (d + 1) .. End + 1 |-> ScanStep(f, j)]
  <2>2. \A j \in (End + 1) - d .. End + 1 : g[j] = f[j]
    BY <2>1, <1>1
  <2>3. \A j \in (End + 1) - (d + 1) .. End + 1 :
            ScanStep(g, j) = ScanStep(f, j)
    <3> HIDE DEF g
    <3> SUFFICES ASSUME NEW j \in (End + 1) - (d + 1) .. End + 1
                 PROVE  ScanStep(g, j) = ScanStep(f, j)
      OBVIOUS
    <3>1. CASE j >= End \/ CharAt(j) \in {NUL, QUOTE}
      <4>1. CharAt(j) # BACKSLASH
        <5>1. j \in Nat
          BY <1>1
        <5> QED BY <5>1, <3>1, <1>12
      <4> QED BY <3>1, <4>1 DEF ScanStep
    <3>2. CASE ~(j >= End \/ CharAt(j) \in {NUL, QUOTE})
      <4>1. j + 1 \in (End + 1) - d .. End + 1
        BY <1>1, <3>2
      <4>2. j + 2 \in (End + 1) - d .. End + 1
        BY <1>1, <3>2
      <4>3. g[j + 1] = f[j + 1] /\ g[j + 2] = f[j + 2]
        BY <4>1, <4>2, <2>2
      <4> QED BY <3>2, <4>3 DEF ScanStep
    <3> QED BY <3>1, <3>2
  <2>4. Scans(d + 1, g) /\ d + 1 \in Nat
    BY <2>3
  <2> HIDE DEF Scans
  <2> QED BY <2>4
<1> HIDE DEF T
<1>4. \A d \in 0 .. End : d \in T
  BY <1>1, <1>2, <1>3, InductionTo
<1>5. \E f : Scans(End, f)
  <2>1. End \in T
    BY <1>1, <1>4
  <2> HIDE DEF Scans
  <2> QED BY <2>1 DEF T
<1> DEFINE Scan == CHOOSE f : Scans(End, f)
<1>6. Scans(End, Scan)
  BY <1>5
<1>7. \A j : QuotedEnd(j) = Scan[j]
  <2>1. (End + 1) - End = 1
    BY <1>1
  <2> QED BY <2>1 DEF QuotedEnd, ScanStep
<1> HIDE DEF Scan
<1>8. \A j \in 1 .. End + 1 : Scan[j] = ScanStep(Scan, j)
  BY <1>1, <1>6
<1>9. \A j \in 1 .. Length + 1 : CharAt(j) \in {NUL, QUOTE} => Scan[j] = j
  BY <1>12, <1>1, <1>8 DEF ScanStep
<1>10. \A j \in 1 .. Length : CharAt(j) = BACKSLASH => Scan[j] = Scan[j + 2]
  BY <1>12, <1>1, <1>8 DEF ScanStep
<1>11. \A j \in 1 .. Length : CharAt(j) \notin {NUL, QUOTE, BACKSLASH} => Scan[j] = Scan[j + 1]
  BY <1>12, <1>1, <1>8 DEF ScanStep
<1> QED BY <1>7, <1>9, <1>10, <1>11
-----------------------------------------------------------------------------
(* What the copy of a value makes of one character more.                   *)
Copying == INSTANCE FoldFacts WITH Op <- CopyChar, Start <- CopyStart

AnyChar == Char \cup {NUL}

LEMMA UnescapeFolds == \A s : Unescape(s) = Copying!Fold(s)
BY DEF Unescape, Copying!Fold, FoldLeft, Copying!FoldLeft, MapThenFoldSet,
       Copying!MapThenFoldSet, Max, Copying!Max

LEMMA UnescapeSteps ==
    /\ Unescape(<<>>) = CopyStart
    /\ \A s \in Seq(AnyChar), c \in AnyChar : Unescape(Append(s, c)) = CopyChar(Unescape(s), c)
<1>1. Unescape(<<>>) = CopyStart
  BY UnescapeFolds, Copying!FoldEmpty
<1>2. ASSUME NEW s \in Seq(AnyChar), NEW c \in AnyChar
      PROVE  Unescape(Append(s, c)) = CopyChar(Unescape(s), c)
  <2> DEFINE t == Append(s, c)
             n == Len(s)
  <2>1. n \in Nat /\ DOMAIN s = 1 .. n /\ DOMAIN t = 1 .. n + 1 /\ t[n + 1] = c
        /\ \A i \in 1 .. n : s[i] = t[i]
    OBVIOUS
  <2> HIDE DEF t, n
  <2>2. Copying!Fold(t) = CopyChar(Copying!Fold(s), t[n + 1])
    BY <2>1, Copying!FoldLonger
  <2> QED BY <2>1, <2>2, UnescapeFolds DEF t
<1> QED BY <1>1, <1>2

(* A value loses all its characters only if it is a lone backslash.        *)
LEMMA UnescapeKeeps ==
    ASSUME NEW s \in Seq(AnyChar)
    PROVE  /\ Unescape(s) \in [text : Seq(AnyChar), escape : BOOLEAN]
           /\ s # <<>> /\ ~Unescape(s).escape => Unescape(s).text # <<>>
<1> DEFINE Copies == [text : Seq(AnyChar), escape : BOOLEAN]
           n == Len(s)
           T == {k \in Nat : \A t \in Seq(AnyChar) : Len(t) = k => Unescape(t) \in Copies}
<1>1. 0 \in T
  <2>1. \A t \in Seq(AnyChar) : Len(t) = 0 => t = <<>>
    OBVIOUS
  <2>2. CopyStart \in Copies
    BY DEF CopyStart
  <2> QED BY <2>1, <2>2, UnescapeSteps
<1>2. ASSUME NEW copy \in Copies, NEW c \in AnyChar
      PROVE  /\ CopyChar(copy, c) \in Copies
             /\ ~CopyChar(copy, c).escape => CopyChar(copy, c).text # <<>>
  <2>1. /\ copy.text \in Seq(AnyChar) /\ copy.escape \in BOOLEAN
        /\ Append(copy.text, c) \in Seq(AnyChar) /\ Append(copy.text, c) # <<>>
    OBVIOUS
  <2>2. CASE c = BACKSLASH /\ ~copy.escape
    <3>1. CopyChar(copy, c) = [copy EXCEPT !.escape = TRUE]
      BY <2>2 DEF CopyChar
    <3> QED BY <3>1
  <2>3. CASE ~(c = BACKSLASH /\ ~copy.escape)
    <3>1. CopyChar(copy, c) = [text |-> Append(copy.text, c), escape |-> FALSE]
      BY <2>3 DEF CopyChar
    <3> QED BY <3>1, <2>1
  <2> QED BY <2>2, <2>3
<1>3. ASSUME NEW t \in Seq(AnyChar), NEW k \in Nat, Len(t) = k + 1
      PROVE  \E r \in Seq(AnyChar), c \in AnyChar : t = Append(r, c) /\ Len(r) = k
  <2> WITNESS SubSeq(t, 1, k) \in Seq(AnyChar), t[k + 1] \in AnyChar
  <2> QED BY <1>3
<1>4. ASSUME NEW k \in 0 .. n - 1, k \in T PROVE k + 1 \in T
  <2> SUFFICES ASSUME NEW t \in Seq(AnyChar), Len(t) = k + 1 PROVE Unescape(t) \in Copies
    OBVIOUS
  <2>1. PICK r \in Seq(AnyChar), c \in AnyChar : t = Append(r, c) /\ Len(r) = k
    BY <1>3
  <2> HIDE DEF Copies
  <2>2. Unescape(r) \in Copies
    BY <1>4, <2>1
  <2> QED BY <2>1, <2>2, <1>2, UnescapeSteps
<1>5. n \in Nat
  OBVIOUS
<1> HIDE DEF T
<1>6. \A k \in 0 .. n : k \in T
  BY <1>1, <1>4, <1>5, InductionTo
<1> HIDE DEF Copies
<1>7. \A t \in Seq(AnyChar) : Len(t) <= n => Unescape(t) \in Copies
  BY <1>5, <1>6 DEF T
<1>8. ASSUME s # <<>>, ~Unescape(s).escape PROVE Unescape(s).text # <<>>
  <2>1. n - 1 \in Nat /\ Len(s) = (n - 1) + 1
    BY <1>8
  <2>2. PICK r \in Seq(AnyChar), c \in AnyChar : s = Append(r, c) /\ Len(r) = n - 1
    BY <2>1, <1>3
  <2>3. Unescape(r) \in Copies
    BY <2>1, <2>2, <1>7
  <2> QED BY <2>2, <2>3, <1>2, <1>8, UnescapeSteps
<1> QED BY <1>5, <1>7, <1>8 DEF Copies
-----------------------------------------------------------------------------
(* The reference reader behind the first k characters of the text.         *)
Reader == INSTANCE FoldFacts WITH Op <- ReadChar, Start <- Started

ReadOf(t, k) == Reader!Fold(SubSeq(t, 1, k))
Read(k) == ReadOf(Text, k)

State(mode, list, name, text) == [mode |-> mode, list |-> list, name |-> name, text |-> text]
Gap(list) == State("gap", list, <<>>, <<>>)

(* A text with one character more, and a list with one entry more.         *)
Grown(s, c) == Append(s, c)
Plus(list, name, text) == Append(list, [name |-> name, text |-> text])

LEMMA ReadSteps ==
    ASSUME input \in Input
    PROVE  /\ Read(0) = Gap(<<>>) /\ Read(Length) = Reading
           /\ \A k \in 1 .. Length : Read(k) = ReadChar(Read(k - 1), CharAt(k))
<1>1. Text \in Seq(Char) /\ Length \in Nat /\ \A k \in 1 .. Length : CharAt(k) = Text[k]
  BY MemoryFacts
<1>2. Read(0) = Gap(<<>>)
  <2>1. SubSeq(Text, 1, 0) = <<>>
    BY <1>1
  <2> QED BY <2>1, Reader!FoldEmpty DEF Read, ReadOf, Gap, State, Started
<1>3. Read(Length) = Reading
  <2>1. SubSeq(Text, 1, Length) = Text
    BY <1>1 DEF Length
  <2>2. \A s : FoldLeft(ReadChar, Started, s) = Reader!Fold(s)
    BY DEF Reader!Fold, FoldLeft, Reader!FoldLeft, MapThenFoldSet, Reader!MapThenFoldSet,
           Max, Reader!Max
  <2> QED BY <2>1, <2>2 DEF Read, ReadOf, Reading, Text
<1>4. ASSUME NEW k \in 1 .. Length PROVE Read(k) = ReadChar(Read(k - 1), CharAt(k))
  <2> DEFINE n == k - 1
             s == SubSeq(Text, 1, k - 1)
             t == SubSeq(Text, 1, k)
  <2>1. /\ n \in Nat /\ DOMAIN s = 1 .. n /\ DOMAIN t = 1 .. n + 1 /\ t[n + 1] = CharAt(k)
        /\ \A i \in 1 .. n : s[i] = t[i]
    BY <1>1 DEF Length
  <2> HIDE DEF n, s, t
  <2>2. Reader!Fold(t) = ReadChar(Reader!Fold(s), t[n + 1])
    BY <2>1, Reader!FoldLonger
  <2> QED BY <2>1, <2>2 DEF Read, ReadOf, s, t
<1> QED BY <1>2, <1>3, <1>4

(* What the reader does with a character, mode by mode.                    *)
LEMMA ReadsGap ==
    ASSUME NEW list, NEW c
    PROVE  /\ c = SPACE => ReadChar(Gap(list), c) = Gap(list)
           /\ c = EQUALS => ReadChar(Gap(list), c).mode = "no key"
           /\ c \notin {SPACE, EQUALS} =>
                    ReadChar(Gap(list), c) = State("key", list, <<c>>, <<>>)
BY DEF ReadChar, Gap, State, SPACE, EQUALS

LEMMA ReadsKey ==
    ASSUME NEW list, NEW name, NEW c
    PROVE  /\ c = SPACE => ReadChar(State("key", list, name, <<>>), c)
                                = Gap(Plus(list, name, <<>>))
           /\ c = EQUALS => ReadChar(State("key", list, name, <<>>), c)
                                = State("start", list, name, <<>>)
           /\ c \notin {SPACE, EQUALS} => ReadChar(State("key", list, name, <<>>), c)
                                = State("key", list, Grown(name, c), <<>>)
BY DEF ReadChar, Gap, State, Emit, Started, Plus, Grown, SPACE, EQUALS

LEMMA ReadsPlain ==
    ASSUME NEW list, NEW name, NEW text, NEW c, NEW m \in {"start", "plain"},
           ~(m = "start" /\ c = QUOTE)
    PROVE  /\ c = SPACE => ReadChar(State(m, list, name, text), c)
                                = Gap(Plus(list, name, text))
           /\ c # SPACE => ReadChar(State(m, list, name, text), c)
                                = State("plain", list, name, Grown(text, c))
BY DEF ReadChar, Gap, State, Emit, Started, Plus, Grown

LEMMA ReadsQuoted ==
    ASSUME NEW list, NEW name, NEW text, NEW c
    PROVE  /\ ReadChar(State("start", list, name, text), QUOTE) = State("quoted", list, name, text)
           /\ c = QUOTE => ReadChar(State("quoted", list, name, text), c)
                                = Gap(Plus(list, name, text))
           /\ c = BACKSLASH => ReadChar(State("quoted", list, name, text), c)
                                = State("escape", list, name, text)
           /\ c \notin {QUOTE, BACKSLASH} => ReadChar(State("quoted", list, name, text), c)
                                = State("quoted", list, name, Grown(text, c))
           /\ ReadChar(State("escape", list, name, text), c)
                    = State("quoted", list, name, Grown(text, c))
BY DEF ReadChar, Gap, State, Emit, Started, Plus, Grown, SPACE, QUOTE, BACKSLASH
-----------------------------------------------------------------------------
(* The parser's scans, and the reader's way over the same characters.      *)

(* Over the spaces between two entries.                                    *)
LEMMA SpacesRead ==
    ASSUME input \in Input, NEW list, NEW i \in 1 .. Length + 1, Read(i - 1) = Gap(list)
    PROVE  /\ FirstNonSpace(i) \in i .. Length + 1
           /\ CharAt(FirstNonSpace(i)) # SPACE
           /\ Read(FirstNonSpace(i) - 1) = Gap(list)
<1> DEFINE m == FirstNonSpace(i)
           n == m - i
           T == {d \in Nat : d <= n => Read((i + d) - 1) = Gap(list)}
<1>1. Length \in Nat /\ \A j : CharAt(j) \in Char \cup {NUL}
  BY MemoryFacts
<1>2. /\ m \in i .. Length + 1 /\ CharAt(m) \in (Char \ {SPACE}) \cup {NUL}
      /\ \A j \in i .. m - 1 : CharAt(j) \notin Char \ {SPACE} /\ CharAt(j) # NUL
  BY ScanStops DEF FirstNonSpace
<1> HIDE DEF m
<1>3. SPACE # NUL
  BY CharAssumption
<1>4. 0 \in T
  <2>1. (i + 0) - 1 = i - 1
    OBVIOUS
  <2> QED BY <2>1
<1>5. ASSUME NEW d \in 0 .. n - 1, d \in T PROVE d + 1 \in T
  <2>1. i + d \in i .. m - 1 /\ i + d \in 1 .. Length /\ (i + (d + 1)) - 1 = i + d
    BY <1>1, <1>2
  <2>2. CharAt(i + d) = SPACE
    BY <2>1, <1>1, <1>2
  <2>3. Read((i + d) - 1) = Gap(list)
    BY <1>5, <1>1, <1>2
  <2>4. Read(i + d) = Gap(list)
    BY <2>1, <2>2, <2>3, ReadSteps, ReadsGap
  <2> QED BY <2>1, <2>4
<1>6. n \in Nat
  BY <1>1, <1>2
<1> HIDE DEF T
<1>7. \A d \in 0 .. n : d \in T
  BY <1>4, <1>5, <1>6, InductionTo
<1>8. n \in T /\ (i + n) - 1 = m - 1
  BY <1>6, <1>7, <1>2
<1> QED BY <1>2, <1>3, <1>6, <1>8 DEF T, m

(* Over a key.                                                             *)
LEMMA KeyRead ==
    ASSUME input \in Input, NEW list, NEW k \in 1 .. Length, Read(k - 1) = Gap(list),
           KeyEnd(k) # k
    PROVE  /\ KeyEnd(k) \in k + 1 .. Length + 1
           /\ CharAt(KeyEnd(k)) \in {SPACE, EQUALS, NUL}
           /\ Read(KeyEnd(k) - 1) = State("key", list, KeyText(k), <<>>)
<1> DEFINE e == KeyEnd(k)
           n == e - (k + 1)
           T == {d \in Nat : d <= n =>
                    Read(k + d) = State("key", list, Slice(k, (k + d) + 1), <<>>)}
<1>1. Length \in Nat
  BY MemoryFacts
<1>2. /\ e \in k .. Length + 1 /\ CharAt(e) \in {SPACE, EQUALS} \cup {NUL}
      /\ \A j \in k .. e - 1 : CharAt(j) \notin {SPACE, EQUALS} /\ CharAt(j) # NUL
  <2>1. k \in 1 .. Length + 1
    BY <1>1
  <2> QED BY <2>1, ScanStops DEF KeyEnd
<1>3. e # k
  OBVIOUS
<1> HIDE DEF e
<1>4. 0 \in T
  <2>1. k \in k .. e - 1
    BY <1>1, <1>2, <1>3
  <2>2. Read(k) = State("key", list, <<CharAt(k)>>, <<>>)
    BY <2>1, <1>2, ReadSteps, ReadsGap
  <2>3. Slice(k, k + 1) = <<CharAt(k)>>
    <3>1. k \in Nat
      BY <1>1
    <3>2. Slice(k, k) = <<>> /\ Slice(k, k + 1) = Append(Slice(k, k), CharAt(k))
      BY <3>1, SliceGrows
    <3> QED BY <3>2
  <2>4. (k + 0) + 1 = k + 1 /\ k + 0 = k
    BY <1>1
  <2> QED BY <2>2, <2>3, <2>4
<1>5. ASSUME NEW d \in 0 .. n - 1, d \in T PROVE d + 1 \in T
  <2> DEFINE j == (k + d) + 1
  <2>1. j \in k .. e - 1 /\ j \in 1 .. Length /\ j - 1 = k + d /\ k + (d + 1) = j /\ j \in Nat
    BY <1>1, <1>2
  <2>2. Read(j - 1) = State("key", list, Slice(k, j), <<>>)
    BY <1>5, <1>1, <1>2, <2>1
  <2> HIDE DEF j
  <2>3. Read(j) = State("key", list, Grown(Slice(k, j), CharAt(j)), <<>>)
    <3>1. Read(j) = ReadChar(Read(j - 1), CharAt(j))
      BY <2>1, ReadSteps
    <3>2. CharAt(j) \notin {SPACE, EQUALS}
      BY <2>1, <1>2
    <3> QED BY <2>2, <3>1, <3>2, ReadsKey
  <2>4. Slice(k, j + 1) = Grown(Slice(k, j), CharAt(j))
    <3>1. k \in Nat /\ k <= j
      BY <1>1, <2>1
    <3> QED BY <2>1, <3>1, SliceGrows DEF Grown
  <2>5. Read(k + (d + 1)) = State("key", list, Slice(k, (k + (d + 1)) + 1), <<>>)
    BY <2>1, <2>3, <2>4
  <2> QED BY <2>5
<1>6. n \in Nat
  BY <1>1, <1>2, <1>3
<1> HIDE DEF T
<1>7. \A d \in 0 .. n : d \in T
  BY <1>4, <1>5, <1>6, InductionTo
<1>8. n \in T /\ k + n = e - 1 /\ (k + n) + 1 = e
  BY <1>6, <1>7, <1>2
<1>9. Read(e - 1) = State("key", list, Slice(k, e), <<>>)
  BY <1>6, <1>8 DEF T
<1> QED BY <1>1, <1>2, <1>3, <1>9 DEF KeyText, e

(* Over a value without quotes that begins at i.                           *)
LEMMA PlainRead ==
    ASSUME input \in Input, NEW list, NEW name, NEW i \in 1 .. Length + 1,
           Read(i - 1) = State("start", list, name, <<>>), CharAt(i) # QUOTE
    PROVE  LET e == ScanTo({SPACE}, i)
           IN /\ e \in i .. Length + 1 /\ CharAt(e) \in {SPACE, NUL}
              /\ \E m \in {"start", "plain"} : /\ Read(e - 1) = State(m, list, name, Slice(i, e))
                                               /\ ~(m = "start" /\ CharAt(e) = QUOTE)
<1> DEFINE e == ScanTo({SPACE}, i)
           n == e - i
           Mode(j) == IF j = i THEN "start" ELSE "plain"
           T == {d \in Nat : d <= n =>
                    Read((i + d) - 1) = State(Mode(i + d), list, name, Slice(i, i + d))}
<1>1. Length \in Nat
  BY MemoryFacts
<1>2. /\ e \in i .. Length + 1 /\ CharAt(e) \in {SPACE} \cup {NUL}
      /\ \A j \in i .. e - 1 : CharAt(j) \notin {SPACE} /\ CharAt(j) # NUL
  BY ScanStops
<1> HIDE DEF e
<1>3. 0 \in T
  <2>1. Slice(i, i) = <<>>
    BY SliceGrows
  <2>2. i + 0 = i /\ Mode(i) = "start"
    OBVIOUS
  <2> QED BY <2>1, <2>2
<1>4. ASSUME NEW d \in 0 .. n - 1, d \in T PROVE d + 1 \in T
  <2> DEFINE j == i + d
  <2>1. /\ j \in i .. e - 1 /\ j \in 1 .. Length /\ i + (d + 1) = j + 1 /\ (j + 1) - 1 = j
        /\ j \in Nat /\ j + 1 # i
    BY <1>1, <1>2
  <2>2. Read(j - 1) = State(Mode(j), list, name, Slice(i, j))
    BY <1>1, <1>2, <1>4
  <2>3. Mode(j) \in {"start", "plain"} /\ (Mode(j) = "start" => j = i) /\ Mode(j + 1) = "plain"
    BY <2>1
  <2> HIDE DEF j, Mode
  <2>4. CharAt(j) # SPACE
    BY <2>1, <1>2
  <2>5. Read(j) = State("plain", list, name, Grown(Slice(i, j), CharAt(j)))
    <3>1. Read(j) = ReadChar(Read(j - 1), CharAt(j))
      BY <2>1, ReadSteps
    <3>2. ~(Mode(j) = "start" /\ CharAt(j) = QUOTE)
      BY <2>3
    <3> QED BY <2>2, <2>3, <2>4, <3>1, <3>2, ReadsPlain
  <2>6. Slice(i, j + 1) = Grown(Slice(i, j), CharAt(j))
    <3>1. i \in Nat /\ i <= j
      BY <2>1
    <3> QED BY <2>1, <3>1, SliceGrows DEF Grown
  <2>7. Read((i + (d + 1)) - 1)
            = State(Mode(i + (d + 1)), list, name, Slice(i, i + (d + 1)))
    BY <2>1, <2>3, <2>5, <2>6
  <2> QED BY <2>7
<1>5. n \in Nat
  BY <1>1, <1>2
<1> HIDE DEF T
<1>6. \A d \in 0 .. n : d \in T
  BY <1>3, <1>4, <1>5, InductionTo
<1>7. n \in T /\ i + n = e
  BY <1>5, <1>6, <1>2
<1>8. Read(e - 1) = State(Mode(e), list, name, Slice(i, e))
  BY <1>5, <1>7 DEF T
<1>9. Mode(e) \in {"start", "plain"} /\ ~(Mode(e) = "start" /\ CharAt(e) = QUOTE)
  OBVIOUS
<1> HIDE DEF Mode
<1> QED BY <1>2, <1>8, <1>9 DEF e

(* Over a quoted value that begins at i, unless the text ends within an    *)
(* escape.                                                                 *)
LEMMA QuotedRead ==
    ASSUME input \in Input, NEW list, NEW name, NEW i \in 1 .. Length + 1,
           Read(i - 1) = State("quoted", list, name, <<>>), Reading.mode # "escape"
    PROVE  LET e == QuotedEnd(i)
               copy == Unescape(Slice(i, e))
           IN /\ e \in i .. Length + 1 /\ CharAt(e) \in {QUOTE, NUL}
              /\ ~copy.escape /\ Read(e - 1) = State("quoted", list, name, copy.text)
<1> DEFINE Copy(j) == Unescape(Slice(i, j))
           Within(j) == /\ j \in i .. Length + 1 /\ ~Copy(j).escape
                        /\ Read(j - 1) = State("quoted", list, name, Copy(j).text)
           Ends(j) == /\ Within(QuotedEnd(j)) /\ CharAt(QuotedEnd(j)) \in {QUOTE, NUL}
           T == {d \in Nat : \A j \in i .. Length + 1 :
                                j = (Length + 1) - d /\ Within(j) => Ends(j)}
<1>1. /\ Length \in Nat /\ CharAt(Length + 1) = NUL
      /\ \A j \in 1 .. Length : CharAt(j) # NUL
      /\ \A j : CharAt(j) \in AnyChar
  BY MemoryFacts DEF AnyChar
<1>2. ASSUME NEW j \in i .. Length + 1
      PROVE  /\ Copy(j) \in [text : Seq(AnyChar), escape : BOOLEAN]
             /\ Copy(j + 1) = CopyChar(Copy(j), CharAt(j))
  <2>1. j \in Nat /\ i \in Nat /\ i <= j
    BY <1>1
  <2>2. Slice(i, j) \in Seq(AnyChar) /\ Slice(i, j + 1) = Append(Slice(i, j), CharAt(j))
    BY <2>1, SliceGrows DEF AnyChar
  <2> QED BY <2>2, <1>1, UnescapeSteps, UnescapeKeeps
<1>3. Within(i)
  <2>1. Slice(i, i) = <<>>
    BY SliceGrows
  <2>2. Copy(i) = CopyStart
    BY <2>1, UnescapeSteps
  <2> QED BY <2>2 DEF CopyStart
<1> HIDE DEF Copy
<1>4. ASSUME NEW d \in Nat, \A m \in 0 .. d - 1 : m \in T PROVE d \in T
  <2> SUFFICES ASSUME NEW j \in i .. Length + 1, j = (Length + 1) - d, Within(j) PROVE Ends(j)
    OBVIOUS
  <2>1. \A h \in i .. Length + 1 : h > j /\ Within(h) => Ends(h)
    <3> SUFFICES ASSUME NEW h \in i .. Length + 1, h > j, Within(h) PROVE Ends(h)
      OBVIOUS
    <3>1. (Length + 1) - h \in 0 .. d - 1 /\ h = (Length + 1) - ((Length + 1) - h)
      BY <1>1
    <3> HIDE DEF Within, Ends
    <3>2. (Length + 1) - h \in T
      BY <3>1, <1>4
    <3> QED BY <3>1, <3>2
  <2>2. CASE CharAt(j) \in {NUL, QUOTE}
    <3>1. QuotedEnd(j) = j
      BY <2>2, <1>1, ScanExists
    <3> HIDE DEF Within
    <3> QED BY <2>2, <3>1
  <2>3. CASE CharAt(j) = BACKSLASH
    <3>1. j \in 1 .. Length
      BY <2>3, <1>1, CharAssumption
    <3>2. QuotedEnd(j) = QuotedEnd(j + 2)
      BY <2>3, <3>1, ScanExists
    <3>3. Read(j) = State("escape", list, name, Copy(j).text)
      <4>1. Read(j) = ReadChar(Read(j - 1), CharAt(j))
        BY <3>1, ReadSteps
      <4>2. Read(j - 1) = State("quoted", list, name, Copy(j).text)
        OBVIOUS
      <4> QED BY <2>3, <4>1, <4>2, ReadsQuoted
    <3>4. Copy(j + 1).text = Copy(j).text /\ Copy(j + 1).escape
      BY <2>3, <1>2 DEF CopyChar, Grown
    <3>5. j # Length
      <4>1. Read(j).mode = "escape"
        BY <3>3 DEF State
      <4> QED BY <4>1, ReadSteps
    <3>6. j + 1 \in 1 .. Length /\ j + 1 \in i .. Length + 1 /\ j + 2 \in i .. Length + 1
          /\ (j + 1) - 1 = j /\ (j + 1) + 1 = j + 2 /\ (j + 2) - 1 = j + 1 /\ j + 2 > j
      BY <1>1, <3>1, <3>5
    <3>7. Read(j + 1) = State("quoted", list, name, Grown(Copy(j).text, CharAt(j + 1)))
      <4>1. Read(j + 1) = ReadChar(Read(j), CharAt(j + 1))
        BY <3>6, ReadSteps
      <4> QED BY <3>3, <4>1, ReadsQuoted
    <3>8. Copy(j + 2) = [text |-> Grown(Copy(j).text, CharAt(j + 1)), escape |-> FALSE]
      BY <3>4, <3>6, <1>2 DEF CopyChar, Grown
    <3>9. Within(j + 2)
      <4>1. ~Copy(j + 2).escape /\ Copy(j + 2).text = Grown(Copy(j).text, CharAt(j + 1))
        BY <3>8
      <4> QED BY <3>6, <3>7, <4>1
    <3> HIDE DEF Within
    <3> QED BY <3>2, <3>6, <3>9, <2>1
  <2>4. CASE CharAt(j) \notin {NUL, QUOTE, BACKSLASH}
    <3>1. j \in 1 .. Length /\ j + 1 \in i .. Length + 1 /\ (j + 1) - 1 = j /\ j + 1 > j
      BY <2>4, <1>1
    <3>2. QuotedEnd(j) = QuotedEnd(j + 1)
      BY <2>4, <3>1, ScanExists
    <3>3. Read(j) = State("quoted", list, name, Grown(Copy(j).text, CharAt(j)))
      <4>1. Read(j) = ReadChar(Read(j - 1), CharAt(j))
        BY <3>1, ReadSteps
      <4>2. Read(j - 1) = State("quoted", list, name, Copy(j).text)
        OBVIOUS
      <4>3. CharAt(j) \notin {QUOTE, BACKSLASH}
        BY <2>4
      <4> QED BY <4>1, <4>2, <4>3, ReadsQuoted
    <3>4. Copy(j + 1) = [text |-> Grown(Copy(j).text, CharAt(j)), escape |-> FALSE]
      BY <2>4, <1>2 DEF CopyChar, Grown
    <3>5. Within(j + 1)
      <4>1. ~Copy(j + 1).escape /\ Copy(j + 1).text = Grown(Copy(j).text, CharAt(j))
        BY <3>4
      <4> QED BY <3>1, <3>3, <4>1
    <3> HIDE DEF Within
    <3> QED BY <3>1, <3>2, <3>5, <2>1
  <2> QED BY <2>2, <2>3, <2>4
<1> HIDE DEF T
<1>5. \A d \in Nat : d \in T
  BY <1>4, StrongInduction
<1>6. Ends(i)
  <2>1. (Length + 1) - i \in Nat /\ i = (Length + 1) - ((Length + 1) - i) /\ i \in i .. Length + 1
    BY <1>1
  <2> HIDE DEF Within, Ends
  <2>2. (Length + 1) - i \in T
    BY <2>1, <1>5
  <2> QED BY <2>1, <2>2, <1>3 DEF T
<1> QED BY <1>6 DEF Copy

(* Once the text has no key where one is due, the reader reads no more.    *)
Refuses(r) == r.mode = "no key"

LEMMA NoKeyRead ==
    ASSUME input \in Input, NEW k \in 1 .. Length, Refuses(Read(k))
    PROVE  Refuses(Reading)
<1> DEFINE n == Length - k
           T == {d \in Nat : d <= n => Refuses(Read(k + d))}
<1>1. Length \in Nat
  BY MemoryFacts
<1>2. 0 \in T
  <2>1. k + 0 = k
    BY <1>1
  <2> QED BY <2>1
<1>3. ASSUME NEW d \in 0 .. n - 1, d \in T PROVE d + 1 \in T
  <2> DEFINE j == k + (d + 1)
  <2>1. j \in 1 .. Length /\ j - 1 = k + d
    BY <1>1
  <2>2. Refuses(Read(j - 1))
    BY <2>1, <1>1, <1>3
  <2> HIDE DEF j
  <2>3. Read(j) = ReadChar(Read(j - 1), CharAt(j))
    BY <2>1, ReadSteps
  <2>4. Read(j) = Read(j - 1)
    BY <2>2, <2>3 DEF ReadChar, Refuses
  <2> QED BY <1>1, <2>2, <2>4 DEF j
<1>4. n \in Nat
  BY <1>1
<1> HIDE DEF T
<1>5. \A d \in 0 .. n : d \in T
  BY <1>2, <1>3, <1>4, InductionTo
<1>6. n \in T /\ k + n = Length
  BY <1>4, <1>5, <1>1
<1> QED BY <1>4, <1>6, ReadSteps DEF T
-----------------------------------------------------------------------------
(* The reader once the entry it is reading, if any, is complete.           *)
Closed(r) == IF r.mode \in {"key", "start", "plain"} THEN Emit(r) ELSE r

(* The parser and the reader stand at k, with the same list of entries: at *)
(* an entry that begins there, or at the end.                              *)
Begins(k, list) == k \in 1 .. Length /\ CharAt(k) # SPACE /\ Read(k - 1) = Gap(list)
Agrees(k, list) ==
    \/ Begins(k, list)
    \/ k = Length + 1 /\ Closed(Reading) = Gap(list)

(* The entry at k passes the checks of the loop.                           *)
Accepted(k) == KeyEnd(k) # k /\ (Quoted(k) => CharAt(ValueEnd(k)) = QUOTE)

(* Behind an entry, or before the first, both go on to the next.           *)
LEMMA GapAgrees ==
    ASSUME input \in Input, NEW list, NEW i \in 1 .. Length + 1, Read(i - 1) = Gap(list)
    PROVE  /\ FirstNonSpace(i) \in i .. Length + 1
           /\ Agrees(FirstNonSpace(i), list)
<1> DEFINE m == FirstNonSpace(i)
<1>1. m \in i .. Length + 1 /\ CharAt(m) # SPACE /\ Read(m - 1) = Gap(list)
  BY SpacesRead
<1>2. Length \in Nat /\ Read(Length) = Reading
  BY MemoryFacts, ReadSteps
<1> HIDE DEF m
<1>3. ASSUME m \in 1 .. Length PROVE Agrees(m, list)
  BY <1>1, <1>3 DEF Agrees, Begins
<1>4. ASSUME m = Length + 1 PROVE Agrees(m, list)
  <2>1. m - 1 = Length
    BY <1>2, <1>4
  <2>2. Reading = Gap(list)
    BY <2>1, <1>1, <1>2
  <2>3. Closed(Reading) = Gap(list)
    BY <2>2 DEF Closed, Gap, State
  <2> QED BY <1>4, <2>3 DEF Agrees
<1>5. m \in 1 .. Length \/ m = Length + 1
  BY <1>1, <1>2
<1> QED BY <1>1, <1>3, <1>4, <1>5 DEF m

(* A space is skipped. *)
LEMMA SpaceSkipped ==
    ASSUME input \in Input, NEW i \in 1 .. Length, CharAt(i) = SPACE
    PROVE  FirstNonSpace(i) = FirstNonSpace(i + 1)
<1> DEFINE S == Char \ {SPACE}
           m == ScanTo(S, i)
           n == ScanTo(S, i + 1)
<1>1. Length \in Nat /\ i \in 1 .. Length + 1 /\ i + 1 \in 1 .. Length + 1
  BY MemoryFacts
<1>2. /\ m \in i .. Length + 1 /\ CharAt(m) \in S \cup {NUL}
      /\ \A j \in i .. m - 1 : CharAt(j) \notin S /\ CharAt(j) # NUL
  BY <1>1, ScanStops
<1>3. /\ n \in i + 1 .. Length + 1 /\ CharAt(n) \in S \cup {NUL}
      /\ \A j \in i + 1 .. n - 1 : CharAt(j) \notin S /\ CharAt(j) # NUL
  BY <1>1, ScanStops
<1>4. SPACE \notin S \cup {NUL}
  BY CharAssumption
<1> HIDE DEF m, n, S
<1>5. m # i
  BY <1>2, <1>4
<1>6. ~(m < n)
  <2> SUFFICES ASSUME m < n PROVE FALSE
    OBVIOUS
  <2>1. m \in i + 1 .. n - 1
    BY <1>2, <1>3, <1>5
  <2> QED BY <2>1, <1>2, <1>3
<1>7. ~(n < m)
  <2> SUFFICES ASSUME n < m PROVE FALSE
    OBVIOUS
  <2>1. n \in i .. m - 1
    BY <1>2, <1>3
  <2> QED BY <2>1, <1>2, <1>3
<1>8. m = n
  BY <1>1, <1>2, <1>3, <1>6, <1>7
<1> QED BY <1>8 DEF FirstNonSpace, m, n, S

LEMMA ReadsEnd ==
    ASSUME NEW m \in {"key", "start", "plain"}, NEW list, NEW name, NEW text
    PROVE  /\ ReadChar(State(m, list, name, text), SPACE) = Gap(Plus(list, name, text))
           /\ Closed(State(m, list, name, text)) = Gap(Plus(list, name, text))
BY DEF ReadChar, Closed, State, Emit, Started, Gap, Plus

(* An entry without a closing quote ends at a space or with the text.      *)
LEMMA EntryCloses ==
    ASSUME input \in Input, NEW list, NEW name, NEW text, NEW m \in {"key", "start", "plain"},
           NEW e \in 1 .. Length + 1, CharAt(e) \in {SPACE, NUL},
           Read(e - 1) = State(m, list, name, text)
    PROVE  /\ FirstNonSpace(e) \in e .. Length + 1
           /\ Agrees(FirstNonSpace(e), Plus(list, name, text))
<1>1. /\ Length \in Nat /\ \A j \in 1 .. Length : CharAt(j) # NUL
      /\ Read(Length) = Reading
      /\ \A k \in 1 .. Length : Read(k) = ReadChar(Read(k - 1), CharAt(k))
  BY MemoryFacts, ReadSteps
<1>2. CASE e \in 1 .. Length
  <2>1. CharAt(e) = SPACE
    BY <1>1, <1>2
  <2>2. Read(e) = Gap(Plus(list, name, text))
    BY <1>1, <1>2, <2>1, ReadsEnd
  <2>3. e + 1 \in 1 .. Length + 1 /\ (e + 1) - 1 = e
    BY <1>1, <1>2
  <2>4. /\ FirstNonSpace(e + 1) \in e + 1 .. Length + 1
        /\ Agrees(FirstNonSpace(e + 1), Plus(list, name, text))
    BY <2>2, <2>3, GapAgrees
  <2>5. FirstNonSpace(e) = FirstNonSpace(e + 1)
    BY <1>2, <2>1, SpaceSkipped
  <2> QED BY <2>3, <2>4, <2>5
<1>3. CASE e = Length + 1
  <2>1. FirstNonSpace(e) = e
    <3>1. FirstNonSpace(e) \in e .. Length + 1
      BY ScanStops DEF FirstNonSpace
    <3> QED BY <1>1, <1>3, <3>1
  <2>2. Reading = State(m, list, name, text)
    <3>1. e - 1 = Length
      BY <1>1, <1>3
    <3> QED BY <3>1, <1>1
  <2>3. Closed(Reading) = Gap(Plus(list, name, text))
    BY <2>2, ReadsEnd
  <2> QED BY <1>1, <1>3, <2>1, <2>3 DEF Agrees
<1> QED BY <1>1, <1>2, <1>3
(* Where the reader is once it has read a key that is there.               *)
LEMMA NoKey ==
    ASSUME input \in Input, NEW list, NEW k, Begins(k, list), KeyEnd(k) = k
    PROVE  Refuses(Reading)
<1>1. Length \in Nat /\ k \in 1 .. Length /\ k \in 1 .. Length + 1 /\ CharAt(k) # NUL
  BY MemoryFacts DEF Begins
<1>2. CharAt(k) = EQUALS
  <2>1. CharAt(k) \in {SPACE, EQUALS} \cup {NUL}
    BY <1>1, ScanStops DEF KeyEnd
  <2> QED BY <2>1, <1>1 DEF Begins
<1>3. Read(k) = ReadChar(Gap(list), EQUALS)
  BY <1>1, <1>2, ReadSteps DEF Begins
<1>4. Refuses(Read(k))
  BY <1>3, ReadsGap DEF Refuses
<1> QED BY <1>1, <1>4, NoKeyRead


(* An entry without a value, or with one that is not quoted.               *)
LEMMA BareEntry ==
    ASSUME input \in Input, NEW list, NEW k, Begins(k, list), KeyEnd(k) # k, ~HasValue(k)
    PROVE  /\ FirstNonSpace(EntryEnd(k)) \in k + 1 .. Length + 1
           /\ Agrees(FirstNonSpace(EntryEnd(k)), Plus(list, KeyText(k), ValueText(k)))
           /\ ~BadEscape(k) /\ RawValue(k) = <<>> /\ ValueText(k) = <<>>
<1> DEFINE e == KeyEnd(k)
<1>1. Length \in Nat /\ k \in 1 .. Length /\ Read(k - 1) = Gap(list)
  BY MemoryFacts DEF Begins
<1>2. /\ e \in k + 1 .. Length + 1 /\ CharAt(e) \in {SPACE, EQUALS, NUL}
      /\ Read(e - 1) = State("key", list, KeyText(k), <<>>)
  BY <1>1, KeyRead
<1>3. CharAt(e) \in {SPACE, NUL} /\ EntryEnd(k) = e
  BY <1>2 DEF HasValue, EntryEnd
<1>4. ~BadEscape(k) /\ RawValue(k) = <<>> /\ ValueText(k) = <<>>
  BY DEF HasValue, Quoted, BadEscape, RawValue, ValueText
<1> HIDE DEF e
<1>5. e \in 1 .. Length + 1
  BY <1>1, <1>2
<1>6. /\ FirstNonSpace(e) \in e .. Length + 1
      /\ Agrees(FirstNonSpace(e), Plus(list, KeyText(k), <<>>))
  BY <1>2, <1>3, <1>5, EntryCloses
<1>7. FirstNonSpace(e) \in k + 1 .. Length + 1
  BY <1>1, <1>2, <1>6
<1> QED BY <1>3, <1>4, <1>6, <1>7

LEMMA PlainEntry ==
    ASSUME input \in Input, NEW list, NEW k, Begins(k, list), KeyEnd(k) # k,
           HasValue(k), ~Quoted(k)
    PROVE  /\ FirstNonSpace(EntryEnd(k)) \in k + 1 .. Length + 1
           /\ Agrees(FirstNonSpace(EntryEnd(k)), Plus(list, KeyText(k), ValueText(k)))
           /\ ~BadEscape(k) /\ ValueText(k) = RawValue(k)
<1> DEFINE e == KeyEnd(k)
           i == e + 1
           v == ScanTo({SPACE}, i)
<1>1. /\ Length \in Nat /\ k \in 1 .. Length /\ Read(k - 1) = Gap(list)
      /\ CharAt(Length + 1) = NUL
  BY MemoryFacts DEF Begins
<1>2. e \in k + 1 .. Length + 1 /\ Read(e - 1) = State("key", list, KeyText(k), <<>>)
  BY <1>1, KeyRead
<1>3. CharAt(e) = EQUALS /\ CharAt(i) # QUOTE
  BY DEF HasValue, Quoted
<1>4. /\ ValueStart(k) = i /\ ValueEnd(k) = v /\ EntryEnd(k) = v + 0
      /\ ~BadEscape(k) /\ ValueText(k) = RawValue(k) /\ RawValue(k) = Slice(i, v)
  BY DEF ValueStart, ValueEnd, EntryEnd, BadEscape, ValueText, RawValue
<1> HIDE DEF e
<1>5. e \in 1 .. Length /\ i \in 1 .. Length + 1 /\ i - 1 = e
  <2>1. e # Length + 1
    BY <1>1, <1>3, CharAssumption
  <2> QED BY <2>1, <1>1, <1>2
<1>6. Read(e) = State("start", list, KeyText(k), <<>>)
  BY <1>2, <1>3, <1>5, ReadSteps, ReadsKey
<1>7. Read(i - 1) = State("start", list, KeyText(k), <<>>)
  BY <1>5, <1>6
<1> HIDE DEF i
<1>8. /\ v \in i .. Length + 1 /\ CharAt(v) \in {SPACE, NUL}
      /\ \E m \in {"start", "plain"} :
            Read(v - 1) = State(m, list, KeyText(k), Slice(i, v))
  BY <1>3, <1>5, <1>7, PlainRead
<1>9. PICK m \in {"start", "plain"} : Read(v - 1) = State(m, list, KeyText(k), Slice(i, v))
  BY <1>8
<1> HIDE DEF v
<1>10. v \in 1 .. Length + 1 /\ v + 0 = v /\ m \in {"key", "start", "plain"}
  BY <1>1, <1>5, <1>8
<1>11. /\ FirstNonSpace(v) \in v .. Length + 1
       /\ Agrees(FirstNonSpace(v), Plus(list, KeyText(k), Slice(i, v)))
  BY <1>8, <1>9, <1>10, EntryCloses
<1>12. FirstNonSpace(v) \in k + 1 .. Length + 1
  BY <1>1, <1>2, <1>5, <1>8, <1>11 DEF i
<1> QED BY <1>4, <1>10, <1>11, <1>12 DEF v

(* A quoted entry: the reader waits for its closing quote.                 *)
Unclosed(r) == r.mode = "quoted"

LEMMA QuotedEntry ==
    ASSUME input \in Input, NEW list, NEW k, Begins(k, list), KeyEnd(k) # k,
           Quoted(k), Reading.mode # "escape"
    PROVE  /\ CharAt(ValueEnd(k)) # QUOTE => Unclosed(Reading)
           /\ CharAt(ValueEnd(k)) = QUOTE =>
                /\ FirstNonSpace(EntryEnd(k)) \in k + 1 .. Length + 1
                /\ Agrees(FirstNonSpace(EntryEnd(k)), Plus(list, KeyText(k), ValueText(k)))
           /\ ~BadEscape(k) /\ (RawValue(k) = <<>> <=> ValueText(k) = <<>>)
<1> DEFINE e == KeyEnd(k)
           i == e + 2
           v == QuotedEnd(i)
           copy == Unescape(Slice(i, v))
<1>1. /\ Length \in Nat /\ k \in 1 .. Length /\ Read(k - 1) = Gap(list)
      /\ CharAt(Length + 1) = NUL /\ \A j \in 1 .. Length : CharAt(j) # NUL
  BY MemoryFacts DEF Begins
<1>2. e \in k + 1 .. Length + 1 /\ Read(e - 1) = State("key", list, KeyText(k), <<>>)
  BY <1>1, KeyRead
<1>3. HasValue(k) /\ CharAt(e) = EQUALS /\ CharAt(e + 1) = QUOTE
  BY DEF HasValue, Quoted
<1>4. /\ ValueStart(k) = i /\ ValueEnd(k) = v /\ EntryEnd(k) = v + 1
      /\ RawValue(k) = Slice(i, v) /\ ValueText(k) = copy.text
      /\ BadEscape(k) <=> copy.escape
  BY <1>3 DEF ValueStart, ValueEnd, EntryEnd, BadEscape, ValueText, RawValue
<1> HIDE DEF e
<1>5. /\ e \in 1 .. Length /\ e + 1 \in 1 .. Length /\ (e + 1) - 1 = e
      /\ i \in 1 .. Length + 1 /\ i - 1 = e + 1
  <2>1. e # Length + 1
    BY <1>1, <1>3, CharAssumption
  <2>2. e + 1 # Length + 1
    BY <1>1, <1>3, CharAssumption
  <2> QED BY <2>1, <2>2, <1>1, <1>2
<1>6. Read(e) = State("start", list, KeyText(k), <<>>)
  BY <1>2, <1>3, <1>5, ReadSteps, ReadsKey
<1>7. Read(i - 1) = State("quoted", list, KeyText(k), <<>>)
  <2>1. Read(e + 1) = ReadChar(Read(e), QUOTE)
    BY <1>3, <1>5, ReadSteps
  <2> QED BY <2>1, <1>5, <1>6, ReadsQuoted
<1> HIDE DEF i
<1>8. /\ v \in i .. Length + 1 /\ CharAt(v) \in {QUOTE, NUL}
      /\ ~copy.escape /\ Read(v - 1) = State("quoted", list, KeyText(k), copy.text)
  BY <1>5, <1>7, QuotedRead
<1>9. Slice(i, v) = <<>> <=> copy.text = <<>>
  <2>1. i \in Nat /\ v \in Nat /\ i <= v
    BY <1>1, <1>5, <1>8
  <2>2. Slice(i, v) \in Seq(AnyChar)
    BY <2>1, SliceGrows DEF AnyChar
  <2>3. Slice(i, v) = <<>> => copy.text = <<>>
    BY UnescapeSteps DEF CopyStart
  <2> QED BY <2>2, <2>3, <1>8, UnescapeKeeps
<1> DEFINE text == copy.text
<1> HIDE DEF v, copy, text
<1>10. ASSUME CharAt(v) # QUOTE PROVE Unclosed(Reading)
  <2>1. v - 1 = Length
    BY <1>1, <1>5, <1>8, <1>10
  <2>2. Reading = State("quoted", list, KeyText(k), copy.text)
    BY <2>1, <1>8, ReadSteps
  <2> QED BY <2>2 DEF Unclosed, State
<1>11. ASSUME CharAt(v) = QUOTE
       PROVE  /\ FirstNonSpace(v + 1) \in k + 1 .. Length + 1
              /\ Agrees(FirstNonSpace(v + 1), Plus(list, KeyText(k), copy.text))
  <2>1. v \in 1 .. Length /\ v + 1 \in 1 .. Length + 1 /\ (v + 1) - 1 = v
    <3>1. v # Length + 1
      BY <1>1, <1>11, CharAssumption
    <3> QED BY <3>1, <1>1, <1>5, <1>8
  <2>2. Read(v) = Gap(Plus(list, KeyText(k), copy.text))
    <3>1. Read(v) = ReadChar(Read(v - 1), QUOTE)
      BY <2>1, <1>11, ReadSteps
    <3> QED BY <3>1, <1>8, ReadsQuoted
  <2>3. /\ FirstNonSpace(v + 1) \in v + 1 .. Length + 1
        /\ Agrees(FirstNonSpace(v + 1), Plus(list, KeyText(k), copy.text))
    BY <2>1, <2>2, GapAgrees
  <2>4. FirstNonSpace(v + 1) \in k + 1 .. Length + 1
    BY <2>1, <2>3, <1>1, <1>2, <1>5, <1>8 DEF i
  <2> QED BY <2>3, <2>4
<1> QED BY <1>4, <1>8, <1>9, <1>10, <1>11

(* What one round of the loop makes of the entry at k.                     *)
LEMMA EntryRead ==
    ASSUME input \in Input, NEW list, NEW k, Begins(k, list), Accepted(k),
           Reading.mode # "escape"
    PROVE  /\ FirstNonSpace(EntryEnd(k)) \in k + 1 .. Length + 1
           /\ Agrees(FirstNonSpace(EntryEnd(k)), Plus(list, KeyText(k), ValueText(k)))
           /\ ~BadEscape(k) /\ (RawValue(k) = <<>> <=> ValueText(k) = <<>>)
<1>1. KeyEnd(k) # k /\ (Quoted(k) => CharAt(ValueEnd(k)) = QUOTE)
  BY DEF Accepted
<1>2. CASE ~HasValue(k)
  BY <1>1, <1>2, BareEntry
<1>3. CASE HasValue(k) /\ ~Quoted(k)
  BY <1>1, <1>3, PlainEntry
<1>4. CASE Quoted(k)
  BY <1>1, <1>4, QuotedEntry
<1> QED BY <1>2, <1>3, <1>4
-----------------------------------------------------------------------------
(* The parser keeps pace with the reader.                                  *)

(* The first n of the slots es as the reader lists them.                   *)
Listing(es, n) == [i \in 1 .. n |-> [name |-> es[i].name, text |-> es[i].text]]
Listed == Listing(entries, Len(entries))

Stored ==
    /\ at \in 0 .. Length + 1
    /\ phase = "FirstEntry" => at = 0
    /\ at = 0 => entries = <<>>
    /\ \A i \in DOMAIN entries : entries[i].value = NULL <=> entries[i].text = <<>>
    /\ phase = "Entry" => Agrees(at, Listed)
    /\ (phase \in {"ReserveKeys", "ReserveValues"} /\ at # 0) \/ phase = "AppendKey" =>
            Begins(at, Listed) /\ Accepted(at)
    /\ phase = "AppendValue" =>
            /\ Begins(at, Listing(entries, Len(entries) - 1)) /\ Accepted(at)
            /\ entries[Len(entries)].name = KeyText(at)
            /\ entries[Len(entries)].text = <<>>
            /\ RawValue(at) # <<>>
    /\ phase = "parsed" => Listed = ReadList /\ ret = Len(entries) /\ ret = ReadRet
    /\ phase = "returned" => ret \in {OUT_OF_MEMORY, ReadRet}

PInv == Reading.mode # "escape" => Stored

(* What is said of a position depends on the text alone.                   *)
LEMMA SameText ==
    ASSUME UNCHANGED input
    PROVE  /\ Length' = Length /\ Reading' = Reading /\ ReadList' = ReadList /\ ReadRet' = ReadRet
           /\ \A k, list : Begins(k, list)' <=> Begins(k, list)
           /\ \A k, list : Agrees(k, list)' <=> Agrees(k, list)
           /\ \A k : Accepted(k)' <=> Accepted(k)
           /\ \A k : KeyText(k)' = KeyText(k) /\ RawValue(k)' = RawValue(k)
<1>1. \A k : CharAt(k)' = CharAt(k)
  BY DEF CharAt, Memory
<1>2. Length' = Length /\ Reading' = Reading /\ ReadList' = ReadList /\ ReadRet' = ReadRet
  BY DEF Length, Text, Reading, ReadList, ReadRet
<1>3. \A k : Read(k)' = Read(k)
  BY DEF Read, ReadOf, Text
<1>4. \A k, list : Begins(k, list)' <=> Begins(k, list)
  BY <1>1, <1>2, <1>3 DEF Begins
<1>5. \A k, list : Agrees(k, list)' <=> Agrees(k, list)
  BY <1>2, <1>4 DEF Agrees
<1>6. End' = End /\ \A s, k : ScanTo(s, k)' = ScanTo(s, k)
  BY DEF End, ScanTo, CharAt, Memory
<1>7. \A k : QuotedEnd(k)' = QuotedEnd(k)
  BY DEF QuotedEnd, End, CharAt, Memory
<1>8. \A k : KeyEnd(k)' = KeyEnd(k)
  BY DEF KeyEnd, ScanTo, End, CharAt, Memory
<1>9. \A k : HasValue(k)' <=> HasValue(k)
  BY <1>1, <1>8 DEF HasValue
<1>10. \A k : Quoted(k)' <=> Quoted(k)
  BY <1>1, <1>8, <1>9 DEF Quoted
<1>11. \A k : ValueStart(k)' = ValueStart(k)
  BY <1>8, <1>10 DEF ValueStart
<1>12. \A k : ValueEnd(k)' = ValueEnd(k)
  BY <1>6, <1>7, <1>10, <1>11 DEF ValueEnd
<1>13. \A i, j : Slice(i, j)' = Slice(i, j)
  BY <1>1 DEF Slice
<1>14. \A k : Accepted(k)' <=> Accepted(k)
  BY <1>1, <1>8, <1>10, <1>12 DEF Accepted
<1>15. \A k : KeyText(k)' = KeyText(k) /\ RawValue(k)' = RawValue(k)
  BY <1>8, <1>9, <1>11, <1>12, <1>13 DEF KeyText, RawValue
<1> QED BY <1>2, <1>4, <1>5, <1>14, <1>15
LEMMA ListingGrows ==
    ASSUME NEW N, NEW T, NEW es \in Seq(SlotType(N, T)), NEW n \in Nat, n + 1 <= Len(es)
    PROVE  Listing(es, n + 1) = Plus(Listing(es, n), es[n + 1].name, es[n + 1].text)
<1> DEFINE R == [name : N, text : T]
           s == Listing(es, n)
           t == Listing(es, n + 1)
           r == [name |-> es[n + 1].name, text |-> es[n + 1].text]
<1>1. \A i \in 1 .. n + 1 : es[i] \in SlotType(N, T)
  BY ElementOfSeq, LenProperties
<1>2. \A i \in 1 .. n + 1 : [name |-> es[i].name, text |-> es[i].text] \in R
  BY <1>1 DEF SlotType
<1>3. s \in Seq(R) /\ Len(s) = n /\ t \in Seq(R) /\ Len(t) = n + 1 /\ r \in R
  BY <1>2 DEF Listing
<1>4. t[n + 1] = r /\ \A i \in 1 .. n : t[i] = s[i]
  BY DEF Listing
<1>5. Plus(s, es[n + 1].name, es[n + 1].text) = Append(s, r)
  BY DEF Plus
<1> HIDE DEF s, t, r, R
<1>6. t = Append(s, r)
  BY <1>3, <1>4
<1> QED BY <1>5, <1>6 DEF s, t

LEMMA ListingSame ==
    ASSUME NEW es, NEW fs, NEW n \in Nat,
           \A i \in 1 .. n : fs[i].name = es[i].name /\ fs[i].text = es[i].text
    PROVE  Listing(fs, n) = Listing(es, n)
BY DEF Listing

(* Giving up keeps the parser in the text; what it returns says why.       *)
LEMMA ReturnPaced ==
    ASSUME Stored, NEW r, NEW p, NEW es, Return(r, p, es), r \in {OUT_OF_MEMORY, ReadRet}
    PROVE  Stored'
<1>1. /\ UNCHANGED <<input, at>> /\ entries' = <<>> /\ phase' = "returned" /\ ret' = r
  BY DEF Return, CPDelete
<1>2. Length' = Length /\ ReadRet' = ReadRet
  BY <1>1, SameText
<1> QED BY <1>1, <1>2 DEF Stored

LEMMA ReserveKeysPaced == ASSUME Stored, ReserveKeys PROVE Stored'
<1>1. CASE Return(OUT_OF_MEMORY, pool, entries)
  BY <1>1, ReturnPaced
<1>2. CASE phase' = "ReserveValues" /\ UNCHANGED <<input, at, entries, ret>>
  <2>1. phase = "ReserveKeys" /\ Length' = Length /\ Listed' = Listed
    BY <1>2, SameText DEF ReserveKeys, Listed
  <2>2. at # 0 => Begins(at, Listed) /\ Accepted(at)
    BY <2>1 DEF Stored
  <2>3. at' # 0 => Begins(at, Listed)' /\ Accepted(at)'
    BY <1>2, <2>1, <2>2, SameText
  <2> QED BY <1>2, <2>1, <2>3 DEF Stored
<1> QED BY <1>1, <1>2 DEF ReserveKeys

LEMMA ReserveValuesPaced == ASSUME Stored, ReserveValues PROVE Stored'
<1>1. CASE Return(OUT_OF_MEMORY, pool, entries)
  BY <1>1, ReturnPaced
<1>2. CASE /\ phase' = IF at = 0 THEN "FirstEntry" ELSE "AppendKey"
           /\ UNCHANGED <<input, at, entries, ret>>
  <2>1. phase = "ReserveValues" /\ Length' = Length /\ Listed' = Listed
    BY <1>2, SameText DEF ReserveValues, Listed
  <2>2. at # 0 => Begins(at, Listed) /\ Accepted(at)
    BY <2>1 DEF Stored
  <2>3. at' # 0 => Begins(at, Listed)' /\ Accepted(at)'
    BY <1>2, <2>1, <2>2, SameText
  <2>4. (phase' = "FirstEntry" /\ at' = 0) \/ (phase' = "AppendKey" /\ at' # 0)
    BY <1>2
  <2> QED BY <1>2, <2>1, <2>3, <2>4 DEF Stored
<1> QED BY <1>1, <1>2 DEF ReserveValues

(* At the end of the text the parser has what the reader has.              *)
LEMMA AgreesAtEnd ==
    ASSUME input \in Input, NEW k, NEW list, Agrees(k, list), CharAt(k) = NUL
    PROVE  ReadList = list /\ ReadRet = Len(list)
<1>1. Closed(Reading) = Gap(list)
  BY MemoryFacts DEF Agrees, Begins
<1>2. CASE Reading.mode \in {"key", "start", "plain"}
  <2>1. Emit(Reading) = Gap(list)
    BY <1>1, <1>2 DEF Closed
  <2>2. Gap(list).list = list
    BY DEF Gap, State
  <2>3. ReadList = list
    BY <1>2, <2>1, <2>2 DEF ReadList
  <2> QED BY <1>2, <2>3 DEF ReadRet
<1>3. CASE Reading.mode \notin {"key", "start", "plain"}
  <2>1. Reading = Gap(list)
    BY <1>1, <1>3 DEF Closed
  <2>2. Reading.mode = "gap" /\ Reading.list = list
    BY <2>1 DEF Gap, State
  <2>3. ReadList = list
    BY <2>2 DEF ReadList
  <2> QED BY <2>2, <2>3 DEF ReadRet
<1> QED BY <1>2, <1>3

LEMMA FirstEntryPaced == ASSUME IInv, Stored, FirstEntry PROVE Stored'
<1> DEFINE k == FirstNonSpace(1)
<1>4. phase = "FirstEntry" /\ at = 0 /\ entries = <<>> /\ Len(entries) = 0 /\ input \in Input
  BY DEF FirstEntry, Stored, IInv, Types
<1>1. k \in 1 .. Length + 1 /\ Agrees(k, <<>>) /\ Length \in Nat
  <2>1. Length \in Nat /\ 1 \in 1 .. Length + 1 /\ 1 - 1 = 0
    BY <1>4, MemoryFacts
  <2>2. Read(1 - 1) = Gap(<<>>)
    BY <1>4, <2>1, ReadSteps
  <2> QED BY <1>4, <2>1, <2>2, GapAgrees
<1> HIDE DEF k
<1>2. CASE CharAt(k) = NUL /\ Return(0, pool, entries)
  <2>1. ReadRet = 0
    BY <1>4, <1>1, <1>2, AgreesAtEnd
  <2> QED BY <1>2, <2>1, ReturnPaced
<1>3. CASE at' = k /\ phase' = "Entry" /\ UNCHANGED <<input, entries, ret>>
  <2>1. Length' = Length /\ Listed' = <<>>
    BY <1>4, <1>3, SameText DEF Listed, Listing
  <2>2. Agrees(at, Listed)'
    BY <1>1, <1>3, <2>1, SameText
  <2>3. at' \in 0 .. Length' + 1
    BY <1>1, <1>3, <2>1
  <2> QED BY <1>4, <1>3, <2>2, <2>3 DEF Stored
<1> QED BY <1>2, <1>3 DEF FirstEntry, k
LEMMA EntryPaced == ASSUME IInv, Stored, Reading.mode # "escape", Entry PROVE Stored'
<1>1. /\ phase = "Entry" /\ input \in Input /\ Agrees(at, Listed) /\ Length \in Nat
      /\ Len(entries) \in Nat
  BY MemoryFacts, Basics DEF Entry, Stored, IInv, Types
<1>2. CharAt(at) # NUL => Begins(at, Listed)
  BY <1>1, MemoryFacts DEF Agrees
<1>3. CASE CharAt(at) = NUL /\ phase' = "parsed" /\ ret' = Len(entries)
           /\ UNCHANGED <<input, at, entries>>
  <2>1. ReadList = Listed /\ ReadRet = Len(Listed)
    BY <1>1, <1>3, AgreesAtEnd
  <2>2. Len(Listed) = Len(entries)
    BY <1>1 DEF Listed, Listing
  <2>3. /\ Length' = Length /\ Listed' = Listed /\ ReadList' = ReadList /\ ReadRet' = ReadRet
    BY <1>3, SameText DEF Listed
  <2> QED BY <1>3, <2>1, <2>2, <2>3 DEF Stored
<1>4. CASE CharAt(at) # NUL /\ KeyEnd(at) = at /\ Return(INVALID_KEY, pool, entries)
  <2>1. Refuses(Reading)
    BY <1>1, <1>2, <1>4, NoKey
  <2>2. ReadRet = INVALID_KEY
    BY <2>1 DEF Refuses, ReadRet
  <2> QED BY <1>4, <2>2, ReturnPaced
<1>5. CASE CharAt(at) # NUL /\ KeyEnd(at) # at /\ Quoted(at) /\ CharAt(ValueEnd(at)) # QUOTE
           /\ Return(UNTERMINATED_QUOTED_KEY, pool, entries)
  <2>1. Unclosed(Reading)
    BY <1>1, <1>2, <1>5, QuotedEntry
  <2>2. ReadRet = UNTERMINATED_QUOTED_KEY
    BY <2>1 DEF Unclosed, ReadRet
  <2> QED BY <1>5, <2>2, ReturnPaced
<1>6. CASE /\ CharAt(at) # NUL /\ KeyEnd(at) # at
           /\ Quoted(at) => CharAt(ValueEnd(at)) = QUOTE
           /\ phase' = IF NeedsRoom THEN "ReserveKeys" ELSE "AppendKey"
           /\ UNCHANGED <<input, at, entries, ret>>
  <2>1. Begins(at, Listed) /\ Accepted(at)
    BY <1>2, <1>6 DEF Accepted
  <2>2. Length' = Length /\ Listed' = Listed
    BY <1>6, SameText DEF Listed
  <2>3. Begins(at, Listed)' /\ Accepted(at)'
    BY <1>6, <2>1, <2>2, SameText
  <2>4. phase' \in {"ReserveKeys", "AppendKey"}
    BY <1>6
  <2> QED BY <1>6, <2>2, <2>3, <2>4 DEF Stored
<1> QED BY <1>3, <1>4, <1>5, <1>6 DEF Entry

(* The entry stored last is the one the reader completes.                  *)
LEMMA NextPaced ==
    ASSUME input \in Input, Reading.mode # "escape", NEW list,
           Begins(at, list), Accepted(at), NextEntry, UNCHANGED input,
           Listed' = Plus(list, KeyText(at), ValueText(at)),
           \A i \in DOMAIN entries' : entries'[i].value = NULL <=> entries'[i].text = <<>>
    PROVE  Stored'
<1>1. at' = FirstNonSpace(EntryEnd(at)) /\ phase' = "Entry"
  BY DEF NextEntry
<1>2. at' \in at + 1 .. Length + 1 /\ Agrees(at', Listed')
  BY <1>1, EntryRead
<1>3. at \in 1 .. Length /\ Length \in Nat /\ Length' = Length
  BY MemoryFacts, SameText DEF Begins
<1>4. at' \in 0 .. Length' + 1 /\ at' # 0
  BY <1>2, <1>3
<1>5. Agrees(at, Listed)'
  BY <1>2, SameText
<1> QED BY <1>1, <1>4, <1>5 DEF Stored

LEMMA AppendKeyPaced == ASSUME IInv, Stored, Reading.mode # "escape", AppendKey PROVE Stored'
<1>1. CASE Return(OUT_OF_MEMORY, pool, entries)
  BY <1>1, ReturnPaced
<1>2. CASE CanAlloc(pool) /\ ~Return(OUT_OF_MEMORY, pool, entries)
  <2> DEFINE n == Len(entries)
             e == [key |-> Alloc(pool), name |-> KeyText(at), value |-> NULL, text |-> <<>>]
  <2>1. /\ entries' = Append(entries, e) /\ input' = input
        /\ IF RawValue(at) = <<>> THEN NextEntry ELSE phase' = "AppendValue" /\ UNCHANGED at
        /\ phase = "AppendKey" /\ ret' = ret
    BY <1>2 DEF AppendKey
  <2>2. Begins(at, Listed) /\ Accepted(at) /\ input \in Input /\ n \in Nat
    BY <2>1, Basics DEF Stored, IInv, Types
  <2>3. PICK N, T : entries \in Seq(SlotType(N, T))
    BY DEF IInv, Types, EntriesType
  <2> DEFINE M == N \cup {KeyText(at)}
             U == T \cup {<<>>}
  <2>4. entries \in Seq(SlotType(M, U))
    BY <2>3, SlotTypeWiden
  <2>5. e \in SlotType(M, U) /\ e.name = KeyText(at) /\ e.value = NULL /\ e.text = <<>>
    BY <1>2, AllocFresh DEF SlotType
  <2> HIDE DEF M, U, e
  <2>6. /\ entries' \in Seq(SlotType(M, U)) /\ Len(entries') = n + 1
        /\ DOMAIN entries' = 1 .. n + 1 /\ DOMAIN entries = 1 .. n
        /\ \A i \in 1 .. n : entries'[i] = entries[i]
        /\ entries'[n + 1] = e
    BY <2>1, <2>4, <2>5, LenProperties
  <2> HIDE DEF n
  <2>7. Listing(entries', n) = Listed
    BY <2>2, <2>6, ListingSame DEF Listed, n
  <2>8. Listed' = Plus(Listed, KeyText(at), <<>>)
    <3>1. Listing(entries', n + 1) = Plus(Listing(entries', n), KeyText(at), <<>>)
      BY <2>2, <2>5, <2>6, ListingGrows
    <3> QED BY <2>6, <2>7, <3>1 DEF Listed
  <2>9. \A i \in DOMAIN entries' : entries'[i].value = NULL <=> entries'[i].text = <<>>
    BY <2>2, <2>5, <2>6 DEF Stored
  <2>10. CASE RawValue(at) = <<>>
    <3>1. ValueText(at) = <<>>
      BY <2>2, <2>10, EntryRead
    <3>2. NextEntry
      BY <2>1, <2>10
    <3> QED BY <2>1, <2>2, <2>8, <2>9, <3>1, <3>2, NextPaced
  <2>11. CASE RawValue(at) # <<>>
    <3>1. phase' = "AppendValue" /\ at' = at
      BY <2>1, <2>11
    <3>2. (n + 1) - 1 = n
      BY <2>2
    <3>3. Begins(at, Listing(entries', Len(entries') - 1)) /\ Accepted(at)
      BY <2>2, <2>6, <2>7, <3>2
    <3>4. Begins(at, Listing(entries, Len(entries) - 1))' /\ Accepted(at)'
      BY <2>1, <3>1, <3>3, SameText
    <3>5. /\ entries'[Len(entries')].name = KeyText(at)'
          /\ entries'[Len(entries')].text = <<>> /\ RawValue(at)' # <<>>
      BY <2>1, <2>5, <2>6, <2>11, <3>1, SameText
    <3>6. at \in 1 .. Length /\ Length' = Length /\ Length \in Nat
      BY <2>1, <2>2, MemoryFacts, SameText DEF Begins
    <3>7. at' \in 0 .. Length' + 1 /\ at' # 0
      BY <3>1, <3>6
    <3> QED BY <2>9, <3>1, <3>4, <3>5, <3>7 DEF Stored
  <2> QED BY <2>10, <2>11
<1> QED BY <1>1, <1>2 DEF AppendKey
LEMMA AppendValuePaced ==
    ASSUME IInv, Stored, Reading.mode # "escape", AppendValue
    PROVE  Stored'
<1>1. CASE Return(OUT_OF_MEMORY, pool, entries)
  BY <1>1, ReturnPaced
<1>2. CASE CanAlloc(pool) /\ ~Return(OUT_OF_MEMORY, pool, entries)
  <2> DEFINE b == Alloc(pool)
             n == Len(entries)
             v == [entries[n] EXCEPT !.value = b, !.text = ValueText(at)]
  <2>1. /\ phase = "AppendValue" /\ n > 0 /\ n \in Nat /\ entries[n].value = NULL
        /\ DOMAIN entries = 1 .. n /\ input \in Input
    BY Basics DEF AppendValue, IInv, Types, Pending
  <2>2. /\ Begins(at, Listing(entries, n - 1)) /\ Accepted(at)
        /\ entries[n].name = KeyText(at) /\ RawValue(at) # <<>>
    BY <2>1 DEF Stored
  <2>3. ~BadEscape(at) /\ ValueText(at) # <<>>
    BY <2>1, <2>2, EntryRead
  <2>4. entries' = WithLast(entries, v) /\ NextEntry /\ input' = input
    BY <1>2, <2>3 DEF AppendValue, WithValue, WithLast
  <2>5. b # NULL /\ b \in Block
    BY <1>2, AllocFresh
  <2> HIDE DEF b
  <2>6. PICK N, T : entries \in Seq(SlotType(N, T))
    BY DEF IInv, Types, EntriesType
  <2> DEFINE U == T \cup {ValueText(at)}
  <2>7. entries \in Seq(SlotType(N, U))
    BY <2>6, SlotTypeWiden
  <2>8. entries[n] \in SlotType(N, U)
    BY <2>1, <2>7, ElementOfSeq
  <2>9. /\ v \in SlotType(N, U) /\ v.key = entries[n].key
        /\ v.name = KeyText(at) /\ v.value = b /\ v.text = ValueText(at)
    BY <2>2, <2>5, <2>8 DEF SlotType
  <2> HIDE DEF v, U
  <2>10. /\ entries' \in Seq(SlotType(N, U)) /\ Len(entries') = n
         /\ DOMAIN entries' = 1 .. n /\ entries'[n] = v
    BY <2>1, <2>4, <2>7, <2>9, SlotsOfValue
  <2>11. \A i \in 1 .. n : i # n => entries'[i] = entries[i]
    BY <2>1, <2>4, <2>7 DEF WithLast
  <2> HIDE DEF n
  <2>12. n - 1 \in Nat /\ (n - 1) + 1 = n /\ \A i \in 1 .. n - 1 : i \in 1 .. n /\ i # n
    BY <2>1
  <2>13. Listing(entries', n - 1) = Listing(entries, n - 1)
    BY <2>11, <2>12, ListingSame
  <2>14. Listed' = Plus(Listing(entries, n - 1), KeyText(at), ValueText(at))
    <3>1. Listing(entries', (n - 1) + 1) = Plus(Listing(entries', n - 1), v.name, v.text)
      <4>1. (n - 1) + 1 <= Len(entries')
        BY <2>10, <2>12, <2>1
      <4> QED BY <2>10, <2>12, <4>1, ListingGrows
    <3> QED BY <2>9, <2>10, <2>12, <2>13, <3>1 DEF Listed
  <2>15. \A i \in DOMAIN entries' : entries'[i].value = NULL <=> entries'[i].text = <<>>
    BY <2>1, <2>3, <2>5, <2>9, <2>10, <2>11 DEF Stored
  <2> QED BY <2>1, <2>2, <2>4, <2>14, <2>15, NextPaced
<1> QED BY <1>1, <1>2 DEF AppendValue

LEMMA ReleasePaced == ASSUME Stored, Release PROVE Stored'
<1>1. UNCHANGED <<input, at>> /\ entries' = <<>> /\ phase' = "released"
  BY DEF Release, CPDelete
<1>2. Length' = Length
  BY <1>1, SameText
<1> QED BY <1>1, <1>2 DEF Stored

LEMMA InitPaced == ASSUME Init PROVE Stored
<1>1. Length \in Nat
  BY MemoryFacts DEF Init
<1> QED BY <1>1 DEF Init, Stored

(* Unless the text ends within an escape, parser and reader keep pace.     *)
THEOREM KeepsPace == Spec => []PInv
<1>1. Init => PInv
  BY InitPaced DEF PInv
<1>2. IInv /\ PInv /\ [Next]_vars => PInv'
  <2> SUFFICES ASSUME IInv, PInv, [Next]_vars, Reading'.mode # "escape" PROVE Stored'
    BY DEF PInv
  <2>1. input' = input
    BY DEF Next, vars, ReserveKeys, ReserveValues, FirstEntry, Entry, AppendKey, AppendValue,
           Release, Return
  <2>2. Reading.mode # "escape" /\ Stored
    BY <2>1, SameText DEF PInv
  <2>3. CASE UNCHANGED vars
    <3>1. /\ UNCHANGED <<input, at, entries, phase, ret>> /\ Listed' = Listed
          /\ Length' = Length /\ ReadList' = ReadList /\ ReadRet' = ReadRet
      BY <2>3, SameText DEF vars, Listed
    <3>2. phase = "Entry" => Agrees(at, Listed)'
      BY <2>2, <3>1, SameText DEF Stored
    <3>3. (phase \in {"ReserveKeys", "ReserveValues"} /\ at # 0) \/ phase = "AppendKey" =>
              Begins(at, Listed)' /\ Accepted(at)'
      BY <2>2, <3>1, SameText DEF Stored
    <3>4. phase = "AppendValue" =>
              /\ Begins(at, Listing(entries, Len(entries) - 1))' /\ Accepted(at)'
              /\ entries'[Len(entries')].name = KeyText(at)'
              /\ entries'[Len(entries')].text = <<>>
              /\ RawValue(at)' # <<>>
      BY <2>2, <3>1, SameText DEF Stored
    <3> QED BY <2>2, <3>1, <3>2, <3>3, <3>4 DEF Stored
  <2> QED BY <2>2, <2>3, ReserveKeysPaced, ReserveValuesPaced, FirstEntryPaced, EntryPaced,
             AppendKeyPaced, AppendValuePaced, ReleasePaced DEF Next
<1> QED BY <1>1, <1>2, InductiveInvariant, PTL DEF Spec

(* The parser stops at the NUL of its text: no scan begins behind it.      *)
THEOREM ParserStaysInText == Spec => []StaysInText
<1>1. IInv /\ PInv => StaysInText
  <2> SUFFICES ASSUME IInv, Stored PROVE at <= Length + 1
    BY DEF PInv, StaysInText, Length, Text
  <2>1. Length \in Nat
    BY MemoryFacts DEF IInv, Types
  <2> QED BY <2>1 DEF Stored
<1> QED BY <1>1, KeepsPace, InductiveInvariant, PTL

(* CPParseCommandParameters returns what the text says, or the error for   *)
(* its first defect, and CPGetString finds the first entry of a key.       *)
THEOREM TextParsed == Spec => []ParsesText
<1>1. IInv /\ PInv => ParsesText
  <2> SUFFICES ASSUME IInv, Stored, Reading.mode # "escape" PROVE ParsesText
    BY DEF PInv, ParsesText
  <2>1. ret \in {OUT_OF_MEMORY, ReadRet} \/ phase \notin {"parsed", "returned"}
    BY DEF Stored
  <2>2. ASSUME phase = "parsed"
        PROVE  /\ Listed = ReadList
               /\ \A i \in DOMAIN ReadList :
                    (\A j \in 1 .. i - 1 : ReadList[j].name # ReadList[i].name)
                        => CPGetString(ReadList[i].name)
                            = IF ReadList[i].text = <<>> THEN NULL ELSE ReadList[i].text
    <3>1. Listed = ReadList /\ Len(entries) \in Nat /\ DOMAIN entries = 1 .. Len(entries)
      BY <2>2, Basics DEF Stored
    <3>2. /\ DOMAIN ReadList = 1 .. Len(entries)
          /\ \A i \in 1 .. Len(entries) : /\ ReadList[i].name = entries[i].name
                                          /\ ReadList[i].text = entries[i].text
      BY <3>1 DEF Listed, Listing
    <3> SUFFICES ASSUME NEW i \in 1 .. Len(entries),
                        \A j \in 1 .. i - 1 : ReadList[j].name # ReadList[i].name
                 PROVE  CPGetString(ReadList[i].name)
                            = IF ReadList[i].text = <<>> THEN NULL ELSE ReadList[i].text
      BY <3>1, <3>2
    <3> DEFINE nm == entries[i].name
               S == {j \in DOMAIN entries : entries[j].name = nm}
    <3>3. i \in S /\ \A j \in S : i <= j
      <4>1. ASSUME NEW j \in S, j < i PROVE FALSE
        <5>1. j \in 1 .. i - 1 /\ j \in 1 .. Len(entries)
          BY <3>1, <4>1
        <5> QED BY <3>2, <4>1, <5>1
      <4>2. i \in S /\ S \subseteq Nat /\ i \in Nat
        BY <3>1
      <4> HIDE DEF S
      <4> QED BY <4>1, <4>2
    <3>4. CPHasKey(nm)
      BY <3>1 DEF CPHasKey
    <3>5. CPFind(nm) = i
      <4>1. CPFind(nm) = Min(S)
        BY DEF CPFind
      <4>2. S \subseteq Nat
        BY <3>1
      <4> HIDE DEF S
      <4>3. Min(S) \in S /\ \A y \in S : Min(S) <= y
        BY <3>3 DEF Min
      <4>4. Min(S) \in Nat /\ i \in Nat /\ i <= Min(S) /\ Min(S) <= i
        BY <3>3, <4>2, <4>3
      <4>5. Min(S) = i
        BY <4>4
      <4> QED BY <4>1, <4>5
    <3>6. entries[i].value = NULL <=> entries[i].text = <<>>
      BY <3>1 DEF Stored
    <3>7. CPGetString(nm) = IF entries[i].text = <<>> THEN NULL ELSE entries[i].text
      BY <3>4, <3>5, <3>6 DEF CPGetString
    <3> QED BY <3>2, <3>7
  <2> QED BY <2>1, <2>2 DEF ParsesText, Listed, Listing
<1> QED BY <1>1, KeepsPace, InductiveInvariant, PTL
=============================================================================
