--------------------------- MODULE DllLoaderProofs ---------------------------
(***************************************************************************)
(* Proofs about DllLoader, for all files, blocks, exports and word sizes:  *)
(* its memory is owned by the context on every path, a failure frees it    *)
(* and is reported; and an image it reports relocated is the file's, moved *)
(* to where it lies.                                                       *)
(***************************************************************************)
EXTENDS DllLoader, NatFacts, TLAPS

(* The phases that have both blocks. *)
Loaded == {"ProcessSection", "ResolveImport", "DLLRelocate", "Fixup", "parsed", "relocated"}

(* What the context holds in each phase. *)
Holdings ==
    /\ phase = "DLLParseHeader" => section_headers = NULL /\ image = NULL
    /\ phase = "DLLLoadImage" => section_headers # NULL /\ image = NULL
    /\ phase \in Loaded => section_headers # NULL /\ image # NULL
    /\ phase = "failed" /\ whole => section_headers = NULL /\ image = NULL
    /\ phase = "rejected" => section_headers = NULL /\ image = NULL
    /\ phase = "kept" => section_headers = NULL /\ image # NULL

LoaderInv == TypeOK /\ ContextOwns /\ Holdings /\ StatusTells

(***************************************************************************)
(* Lemmas about the operators.                                             *)
(***************************************************************************)

(* The block of a successful allocation is new, and not NULL. *)
LEMMA AllocIsFresh ==
    ASSUME NEW p, CanAlloc(p)
    PROVE  Alloc(p) \in Block /\ Alloc(p) \notin p /\ Alloc(p) # NULL
  BY NullAssumption DEF CanAlloc, Alloc

LEMMA SequenceElement ==
    ASSUME NEW S, NEW q \in Seq(S), NEW i \in DOMAIN q
    PROVE  q[i] \in S
  OBVIOUS

(* The place in the raw data of an address of a section. *)
LEMMA OffsetInRange ==
    ASSUME NEW at \in Nat, NEW size \in Nat, NEW va \in Nat, NEW r \in Int, NEW n \in Nat,
           at + size <= n, va <= r, r < va + size
    PROVE  at + (r - va) + 1 \in 1 .. n
  OBVIOUS

(* Sums modulo Word are words. *)
LEMMA ModuloIsWord ==
    ASSUME NEW x \in Int
    PROVE  x % Word \in Words
  BY WordAssumption DEF Words

LEMMA RawWordIsWord ==
    ASSUME NEW f \in File, NEW o \in Nat, NEW g \in Words
    PROVE  RawWord(f, o, g) \in Words
<1>1. f.raw \in Seq(Words)
  BY FileAssumption
<1> QED
  BY <1>1 DEF RawWord

(* A refusal of the header names its reason. *)
LEMMA ChecksNameFailures ==
    ASSUME NEW f, NEW i \in 1 .. 8
    PROVE  HeaderChecks(f)[i][2] \in Status \ {"OK"}
<1>1. i \in {1, 2, 3, 4, 5, 6, 7, 8}
  OBVIOUS
<1> QED
  BY <1>1 DEF HeaderChecks, Status

(* A failing step of DLLParse that holds exactly the blocks it frees.      *)
LEMMA ParseFailsKeeps ==
    ASSUME LoaderInv, NEW st \in Status \ {"OK"}, NEW p \in SUBSET Block,
           NEW sh, NEW im, {sh, im} \ {NULL} = p, ParseFails(st, p, sh, im)
    PROVE  LoaderInv'
<1>1. /\ phase' = "failed"
      /\ status' = st
      /\ pool' = {}
      /\ section_headers' = NULL
      /\ image' = NULL
      /\ fault' = "none"
  BY DEF ParseFails, DLLFreeContext, Free, MayFree, LoaderInv, ContextOwns
<1>2. UNCHANGED <<input, step, address, memory, image_base, new_base, entrypoint>>
  BY DEF ParseFails
<1>3. TypeOK'
  BY <1>1, <1>2 DEF LoaderInv, TypeOK, input, Phases
<1>4. ContextOwns' /\ StatusTells'
  BY <1>1 DEF ContextOwns, StatusTells
<1>5. Holdings'
  BY <1>1 DEF Holdings, Loaded
<1> QED
  BY <1>3, <1>4, <1>5 DEF LoaderInv

(* A failing relocation: DLLLoad frees the context, another caller keeps it. *)
LEMMA RelocateFailsKeeps ==
    ASSUME LoaderInv, phase \in Loaded, NEW st \in Status \ {"OK"}, RelocateFails(st)
    PROVE  LoaderInv'
<1>1. phase' = "failed" /\ status' = st
  BY DEF RelocateFails
<1>2. UNCHANGED <<input, step, address, memory, image_base, new_base, entrypoint>>
  BY DEF RelocateFails
<1>3. CASE whole
  <2>1. pool' = {} /\ section_headers' = NULL /\ image' = NULL /\ fault' = "none"
    BY <1>3 DEF RelocateFails, DLLFreeContext, Free, MayFree, LoaderInv, ContextOwns
  <2>2. TypeOK'
    BY <1>1, <1>2, <2>1 DEF LoaderInv, TypeOK, input, Phases
  <2>3. ContextOwns' /\ StatusTells' /\ Holdings'
    BY <1>1, <2>1 DEF ContextOwns, StatusTells, Holdings, Loaded
  <2> QED
    BY <2>2, <2>3 DEF LoaderInv
<1>4. CASE ~whole
  <2>1. UNCHANGED heap
    BY <1>4 DEF RelocateFails
  <2>2. TypeOK'
    BY <1>1, <1>2, <2>1 DEF LoaderInv, TypeOK, input, heap, Phases
  <2>3. ContextOwns' /\ StatusTells' /\ Holdings'
    BY <1>1, <1>2, <1>4, <2>1
    DEF LoaderInv, ContextOwns, StatusTells, Holdings, Loaded, input, heap
  <2> QED
    BY <2>2, <2>3 DEF LoaderInv
<1> QED
  BY <1>3, <1>4

(* A step between phases that hold both blocks, with well-typed results.   *)
LEMMA LoadedStepKeeps ==
    ASSUME LoaderInv, phase \in Loaded, phase' \in Loaded,
           UNCHANGED <<input, heap, status, address>>,
           step' \in Nat \ {0}, memory' \in [0 .. file.image_size - 1 -> Words],
           {image_base', new_base', entrypoint'} \subseteq Words
    PROVE  LoaderInv'
<1>1. TypeOK'
  BY DEF LoaderInv, TypeOK, input, heap, Phases, Loaded
<1>2. ContextOwns' /\ StatusTells' /\ Holdings'
  BY DEF LoaderInv, ContextOwns, StatusTells, Holdings, Loaded, input, heap
<1> QED
  BY <1>1, <1>2 DEF LoaderInv
(***************************************************************************)
(* One lemma per action.                                                   *)
(***************************************************************************)
LEMMA InitInv == Init => LoaderInv
<1> SUFFICES ASSUME Init PROVE LoaderInv
  OBVIOUS
<1>1. file.base \in Words /\ 0 \in Words
  BY FileAssumption, WordAssumption DEF Init, Words
<1>2. TypeOK
  BY <1>1 DEF Init, TypeOK, Phases, Status
<1>3. ContextOwns /\ Holdings /\ StatusTells
  BY DEF Init, ContextOwns, Holdings, StatusTells, Loaded
<1> QED
  BY <1>2, <1>3 DEF LoaderInv

LEMMA DLLParseHeaderKeeps ==
    ASSUME LoaderInv, DLLParseHeader
    PROVE  LoaderInv'
<1>1. phase = "DLLParseHeader" /\ section_headers = NULL /\ image = NULL /\ pool = {}
  BY DEF DLLParseHeader, LoaderInv, Holdings, ContextOwns
<1>2. {"OUT_OF_MEMORY", "FILE_TOO_SMALL"} \subseteq Status \ {"OK"}
  BY DEF Status
<1>3. ASSUME NEW i \in FailedChecks(file), ParseFails(HeaderChecks(file)[i][2], pool, NULL, NULL)
      PROVE  LoaderInv'
  <2>1. HeaderChecks(file)[i][2] \in Status \ {"OK"}
    BY ChecksNameFailures DEF FailedChecks
  <2>2. {NULL, NULL} \ {NULL} = pool /\ pool \in SUBSET Block
    BY <1>1
  <2> QED
    BY <1>3, <2>1, <2>2, ParseFailsKeeps
<1>4. CASE ParseFails("OUT_OF_MEMORY", pool, NULL, NULL)
  <2>1. {NULL, NULL} \ {NULL} = pool /\ pool \in SUBSET Block
    BY <1>1
  <2> QED
    BY <1>2, <1>4, <2>1, ParseFailsKeeps
<1>5. CASE /\ CanAlloc(pool)
           /\ ParseFails("FILE_TOO_SMALL", pool \cup {Alloc(pool)}, Alloc(pool), NULL)
  <2> DEFINE p == pool \cup {Alloc(pool)}
  <2>1. {Alloc(pool), NULL} \ {NULL} = p /\ p \in SUBSET Block
    BY <1>1, <1>5, AllocIsFresh
  <2> QED
    BY <1>2, <1>5, <2>1, ParseFailsKeeps
<1>6. CASE /\ CanAlloc(pool)
           /\ pool' = pool \cup {Alloc(pool)}
           /\ section_headers' = Alloc(pool)
           /\ Goto("DLLLoadImage", 1)
           /\ UNCHANGED <<input, status, image, address, memory, image_base, new_base,
                          entrypoint, fault>>
  <2>1. Alloc(pool) \in Block /\ Alloc(pool) # NULL
    BY <1>6, AllocIsFresh
  <2>2. TypeOK'
    BY <1>1, <1>6, <2>1 DEF LoaderInv, TypeOK, Phases, input, Goto
  <2>3. ContextOwns' /\ Holdings' /\ StatusTells'
    BY <1>1, <1>6, <2>1
    DEF LoaderInv, ContextOwns, Holdings, StatusTells, Loaded, input, Goto
  <2> QED
    BY <2>2, <2>3 DEF LoaderInv
<1> QED
  BY <1>3, <1>4, <1>5, <1>6 DEF DLLParseHeader

LEMMA DLLLoadImageKeeps ==
    ASSUME LoaderInv, DLLLoadImage
    PROVE  LoaderInv'
<1>1. /\ phase = "DLLLoadImage"
      /\ section_headers # NULL
      /\ section_headers \in Block
      /\ image = NULL
      /\ pool = {section_headers}
      /\ file \in File
  BY DEF DLLLoadImage, LoaderInv, TypeOK, Holdings, ContextOwns
<1>2. {"OUT_OF_MEMORY", "ERROR"} \subseteq Status \ {"OK"}
  BY DEF Status
<1>3. CASE ParseFails("OUT_OF_MEMORY", pool, section_headers, NULL)
  <2>1. {section_headers, NULL} \ {NULL} = pool /\ pool \in SUBSET Block
    BY <1>1
  <2> QED
    BY <1>2, <1>3, <2>1, ParseFailsKeeps
<1>4. CASE /\ CanAlloc(pool)
           /\ ParseFails("ERROR", pool \cup {Alloc(pool)}, section_headers, Alloc(pool))
  <2> DEFINE p == pool \cup {Alloc(pool)}
  <2>1. {section_headers, Alloc(pool)} \ {NULL} = p /\ p \in SUBSET Block
    BY <1>1, <1>4, AllocIsFresh
  <2> QED
    BY <1>2, <1>4, <2>1, ParseFailsKeeps
<1>5. CASE /\ CanAlloc(pool)
           /\ pool' = pool \cup {Alloc(pool)}
           /\ image' = Alloc(pool)
           /\ address' \in {a \in Words \ {0} : a + file.image_size <= Word}
           /\ \E g \in Words :
                 memory' = [r \in 0 .. file.image_size - 1 |->
                               IF r < file.headers THEN RawWord(file, r, g) ELSE g]
           /\ Goto("ProcessSection", 1)
           /\ UNCHANGED <<input, status, section_headers, image_base, new_base, entrypoint,
                          fault>>
  <2>1. Alloc(pool) \in Block /\ Alloc(pool) # NULL /\ Alloc(pool) # section_headers
    BY <1>1, <1>5, AllocIsFresh
  <2>2. file.image_size \in Nat
    BY <1>1, FileAssumption
  <2>3. address' \in Words
    BY <1>5
  <2>4. memory' \in [0 .. file.image_size - 1 -> Words]
    BY <1>1, <1>5, <2>2, RawWordIsWord
  <2>5. TypeOK'
    BY <1>1, <1>5, <2>1, <2>3, <2>4 DEF LoaderInv, TypeOK, Phases, input, Goto
  <2>6. ContextOwns' /\ Holdings' /\ StatusTells'
    BY <1>1, <1>5, <2>1
    DEF LoaderInv, ContextOwns, Holdings, StatusTells, Loaded, input, Goto
  <2> QED
    BY <2>5, <2>6 DEF LoaderInv
<1> QED
  BY <1>3, <1>4, <1>5 DEF DLLLoadImage

(* The context and image in the phases that have both blocks.              *)
LEMMA LoadedFacts ==
    ASSUME LoaderInv, phase \in Loaded
    PROVE  /\ pool = {section_headers, image} \ {NULL}
           /\ pool \in SUBSET Block
           /\ file \in File
           /\ memory \in [0 .. file.image_size - 1 -> Words]
           /\ step \in Nat \ {0}
           /\ {address, image_base, new_base, entrypoint} \subseteq Words
  BY DEF LoaderInv, TypeOK, Holdings, ContextOwns

LEMMA LoadedFails ==
    ASSUME LoaderInv, phase \in Loaded, NEW st \in Status \ {"OK"},
           ParseFails(st, pool, section_headers, image)
    PROVE  LoaderInv'
  BY LoadedFacts, ParseFailsKeeps

LEMMA ProcessSectionKeeps ==
    ASSUME LoaderInv, ProcessSection
    PROVE  LoaderInv'
<1> DEFINE s == file.sections[step]
           mem == [r \in DOMAIN memory |->
                      IF s.va <= r /\ r < s.va + s.size
                      THEN file.raw[s.at + (r - s.va) + 1] ELSE memory[r]]
<1>1. phase \in Loaded /\ phase = "ProcessSection" /\ step <= Len(file.sections)
  BY DEF ProcessSection, Loaded
<1>2. CASE ParseFails("FILE_TOO_SMALL", pool, section_headers, image)
  BY <1>1, <1>2, LoadedFails DEF Status
<1>3. CASE /\ memory' = mem
           /\ step' = step + 1
           /\ UNCHANGED <<input, heap, phase, status, address, image_base, new_base, entrypoint>>
  <2>1. file \in File /\ step \in Nat \ {0}
    BY <1>1, LoadedFacts
  <2>2. /\ file.sections \in Seq([at : Nat, size : Nat, va : Nat])
        /\ file.raw \in Seq(Words)
        /\ file.image_size \in Nat
    BY <2>1, FileAssumption
  <2>3. step \in DOMAIN file.sections
    BY <1>1, <2>1, <2>2
  <2>4. s \in [at : Nat, size : Nat, va : Nat]
    BY <2>2, <2>3, SequenceElement, Zenon
  <2>5. s.at + s.size <= Len(file.raw)
    BY <2>1, <2>3, FileAssumption
  <2>6. ASSUME NEW r \in 0 .. file.image_size - 1, s.va <= r, r < s.va + s.size
        PROVE  file.raw[s.at + (r - s.va) + 1] \in Words
    <3> DEFINE k == s.at + (r - s.va) + 1
    <3>1. /\ s.at \in Nat /\ s.size \in Nat /\ s.va \in Nat
          /\ r \in Int
          /\ Len(file.raw) \in Nat
      BY <2>2, <2>4
    <3>2. k \in 1 .. Len(file.raw)
      BY <2>5, <2>6, <3>1, OffsetInRange, Zenon
    <3> QED
      BY <2>2, <3>2
  <2>7. mem \in [0 .. file.image_size - 1 -> Words]
    BY <1>1, <2>6, LoadedFacts
  <2> QED
    BY <1>1, <1>3, <2>7, LoadedFacts, LoadedStepKeeps DEF Loaded
<1> QED
  BY <1>2, <1>3 DEF ProcessSection

LEMMA ResolveImportKeeps ==
    ASSUME LoaderInv, ResolveImport
    PROVE  LoaderInv'
<1> DEFINE i == file.imports[step]
<1>1. phase \in Loaded /\ phase = "ResolveImport"
  BY DEF ResolveImport, Loaded
<1>2. CASE ParseFails("DLL_FORWARDING_NOT_SUPPORTED", pool, section_headers, image)
  BY <1>1, <1>2, LoadedFails DEF Status
<1>3. CASE ParseFails("UNRESOLVED_IMPORT", pool, section_headers, image)
  BY <1>1, <1>3, LoadedFails DEF Status
<1>4. CASE /\ i.key \in DOMAIN Export
           /\ memory' = [memory EXCEPT ![i.slot] = Export[i.key]]
           /\ step' = step + 1
           /\ UNCHANGED <<input, heap, phase, status, address, image_base, new_base, entrypoint>>
  <2>1. memory' \in [0 .. file.image_size - 1 -> Words]
    BY <1>1, <1>4, LoadedFacts, ExportAssumption
  <2> QED
    BY <1>1, <1>4, <2>1, LoadedFacts, LoadedStepKeeps
<1> QED
  BY <1>2, <1>3, <1>4 DEF ResolveImport

LEMMA EndOfLoopKeeps ==
    ASSUME LoaderInv, EndOfLoop
    PROVE  LoaderInv'
<1>1. phase \in Loaded /\ phase' \in Loaded /\ step' = 1
  BY DEF EndOfLoop, Goto, Loaded
<1> QED
  BY <1>1, LoadedFacts, LoadedStepKeeps DEF EndOfLoop

LEMMA DLLRelocateKeeps ==
    ASSUME LoaderInv, phase \in Loaded, NEW b \in Words, DLLRelocate(b)
    PROVE  LoaderInv'
<1>1. CASE RelocateFails("NO_RELOCATION_DATA")
  BY <1>1, RelocateFailsKeeps DEF Status
<1>2. CASE /\ phase' = "relocated"
           /\ UNCHANGED <<input, heap, step, status, address, memory, image_base, new_base,
                          entrypoint>>
  BY <1>2, LoadedFacts, LoadedStepKeeps DEF Loaded
<1>3. CASE /\ new_base' = b
           /\ Goto("Fixup", 1)
           /\ UNCHANGED <<input, heap, status, address, memory, image_base, entrypoint>>
  BY <1>3, LoadedFacts, LoadedStepKeeps DEF Loaded, Goto
<1> QED
  BY <1>1, <1>2, <1>3 DEF DLLRelocate

LEMMA FixupKeeps ==
    ASSUME LoaderInv, Fixup
    PROVE  LoaderInv'
<1> DEFINE e == file.fixups[step]
<1>1. phase \in Loaded /\ phase = "Fixup" /\ step <= Len(file.fixups)
  BY DEF Fixup, Loaded
<1>2. CASE RelocateFails("UNSUPPORTED_RELOCATION_TYPE")
  BY <1>1, <1>2, RelocateFailsKeeps DEF Status
<1>3. CASE /\ memory' = IF e.type = "HIGHLOW"
                        THEN [memory EXCEPT ![e.rva] = Rebase(memory[e.rva])] ELSE memory
           /\ step' = step + 1
           /\ UNCHANGED <<input, heap, phase, status, address, image_base, new_base, entrypoint>>
  <2>1. e.rva \in 0 .. file.image_size - 1
    <3>1. file \in File /\ step \in Nat \ {0}
      BY <1>1, LoadedFacts
    <3>2. file.fixups \in Seq([type : FixupTypes, rva : Nat]) /\ file.image_size \in Nat
      BY <3>1, FileAssumption
    <3>3. step \in DOMAIN file.fixups
      BY <1>1, <3>1, <3>2
    <3>4. e \in [type : FixupTypes, rva : Nat]
      BY <3>2, <3>3, SequenceElement, Zenon
    <3>5. e.rva < file.image_size
      BY <3>1, <3>3, FileAssumption
    <3> QED
      BY <3>2, <3>4, <3>5
  <2>2. Rebase(memory[e.rva]) \in Words
    <3>1. memory[e.rva] \in Words
      BY <1>1, <2>1, LoadedFacts
    <3>2. memory[e.rva] + (new_base - image_base) \in Int
      BY <1>1, <3>1, LoadedFacts, WordAssumption DEF Words
    <3> QED
      BY <3>2, ModuloIsWord DEF Rebase
  <2>3. memory' \in [0 .. file.image_size - 1 -> Words]
    BY <1>1, <1>3, <2>2, LoadedFacts
  <2> QED
    BY <1>1, <1>3, <2>3, LoadedFacts, LoadedStepKeeps
<1> QED
  BY <1>2, <1>3 DEF Fixup

LEMMA EndOfTableKeeps ==
    ASSUME LoaderInv, EndOfTable
    PROVE  LoaderInv'
<1>1. phase \in Loaded /\ phase' \in Loaded /\ step' = 1
  BY DEF EndOfTable, Goto, Loaded
<1>2. file.entry \in Words /\ new_base \in Words
  BY <1>1, LoadedFacts, FileAssumption
<1>3. (new_base + file.entry) % Word \in Words
  BY <1>2, ModuloIsWord, WordAssumption DEF Words
<1> QED
  BY <1>1, <1>2, <1>3, LoadedFacts, LoadedStepKeeps DEF EndOfTable

LEMMA ReleaseKeeps ==
    ASSUME LoaderInv, Release
    PROVE  LoaderInv'
<1>1. UNCHANGED <<input, step, status, address, memory, image_base, new_base, entrypoint>>
  BY DEF Release
<1>2. CASE phase = "failed"
  <2>1. pool' = {} /\ section_headers' = NULL /\ image' = NULL /\ fault' = "none"
    BY <1>2 DEF Release, DLLFreeContext, Free, MayFree, LoaderInv, ContextOwns
  <2>2. phase' = "rejected"
    BY <1>2 DEF Release
  <2>3. TypeOK'
    BY <1>1, <2>1, <2>2 DEF LoaderInv, TypeOK, input, Phases
  <2>4. ContextOwns' /\ Holdings' /\ StatusTells'
    BY <1>1, <1>2, <2>1, <2>2 DEF LoaderInv, ContextOwns, Holdings, StatusTells, Loaded
  <2> QED
    BY <2>3, <2>4 DEF LoaderInv
<1>3. CASE phase \in {"parsed", "relocated"}
  <2>1. /\ pool' = {image}
        /\ section_headers' = NULL
        /\ image' = image
        /\ image # NULL
        /\ fault' = "none"
    BY <1>3 DEF Release, DLLFreeContext, Free, MayFree, LoaderInv, ContextOwns, Holdings, Loaded
  <2>2. phase' = "kept"
    BY <1>3 DEF Release
  <2>3. TypeOK'
    BY <1>1, <1>3, <2>1, <2>2 DEF LoaderInv, TypeOK, input, Phases
  <2>4. ContextOwns' /\ Holdings' /\ StatusTells'
    BY <1>1, <1>3, <2>1, <2>2 DEF LoaderInv, ContextOwns, Holdings, StatusTells, Loaded
  <2> QED
    BY <2>3, <2>4 DEF LoaderInv
<1> QED
  BY <1>2, <1>3 DEF Release
(***************************************************************************)
(* The inductive invariant and the theorems.                               *)
(***************************************************************************)
LEMMA NextInv ==
    ASSUME LoaderInv, [Next]_vars
    PROVE  LoaderInv'
<1>1. CASE RelocateInPlace
  <2>1. phase \in Loaded
    BY <1>1 DEF RelocateInPlace, Loaded
  <2> QED
    BY <1>1, <2>1, LoadedFacts, DLLRelocateKeeps DEF RelocateInPlace
<1>2. ASSUME NEW b \in Words, RelocateTo(b) PROVE LoaderInv'
  <2>1. phase \in Loaded
    BY <1>2 DEF RelocateTo, Loaded
  <2> QED
    BY <1>2, <2>1, DLLRelocateKeeps DEF RelocateTo
<1>3. CASE Load
  BY <1>1, <1>3, DLLParseHeaderKeeps, DLLLoadImageKeeps, ProcessSectionKeeps,
     ResolveImportKeeps, EndOfLoopKeeps, FixupKeeps, EndOfTableKeeps DEF Load
<1>4. CASE UNCHANGED vars
  BY <1>4 DEF vars, LoaderInv, TypeOK, ContextOwns, Holdings, StatusTells
<1> QED
  BY <1>2, <1>3, <1>4, ReleaseKeeps DEF Next

(* The inductive invariant holds in every reachable state. *)
THEOREM LoaderInvariant == Spec => []LoaderInv
<1>1. LoaderInv /\ [Next]_vars => LoaderInv'
  BY NextInv
<1> QED
  BY <1>1, InitInv, PTL DEF Spec

(* Type correctness of the loader's state: every word of the image and     *)
(* every base is a word, through any sequence of relocations.              *)
THEOREM LoaderTypes == Spec => []TypeOK
<1>1. LoaderInv => TypeOK
  BY DEF LoaderInv
<1> QED
  BY <1>1, LoaderInvariant, PTL

(* DLLParse, DLLRelocate and DLLFreeContext never lose a block, free one   *)
(* twice or free one they do not hold, on any failing path.                *)
THEOREM LoaderOwns == Spec => []ContextOwns
<1>1. LoaderInv => ContextOwns
  BY DEF LoaderInv
<1> QED
  BY <1>1, LoaderInvariant, PTL

(* A load that failed leaves nothing allocated, one that succeeded leaves  *)
(* the image.                                                              *)
THEOREM LoaderFrees == Spec => []FailureFreesAll
<1>1. LoaderInv => FailureFreesAll
  BY DEF LoaderInv, ContextOwns, Holdings, FailureFreesAll
<1> QED
  BY <1>1, LoaderInvariant, PTL

(* output.status is DLLL_OK exactly when the loader has not failed.        *)
THEOREM LoaderTells == Spec => []StatusTells
<1>1. LoaderInv => StatusTells
  BY DEF LoaderInv
<1> QED
  BY <1>1, LoaderInvariant, PTL

(* Header base and entrypoint agree at all times, not only when a          *)
(* relocation has just ended.                                              *)
EntryInv ==
    \/ entrypoint = (image_base + file.entry) % Word
    \/ entrypoint = 0 /\ image_base = file.base

(* After any number of relocations the entrypoint is the one at the last   *)
(* base, or 0 while the image has never left its preferred base.           *)
THEOREM LoaderEntrypoint == Spec => []EntrypointWhenMoved
<1>1. Init => EntryInv
  BY DEF Init, EntryInv
<1>2. EntryInv /\ [Next]_vars => EntryInv'
  <2> SUFFICES ASSUME EntryInv, [Next]_vars PROVE EntryInv'
    OBVIOUS
  <2>1. CASE EndOfTable
    BY <2>1 DEF EndOfTable, EntryInv, input
  <2>2. CASE UNCHANGED <<file, image_base, entrypoint>>
    BY <2>2 DEF EntryInv
  <2>3. ASSUME NEW st, NEW p, NEW sh, NEW im, ParseFails(st, p, sh, im)
        PROVE  UNCHANGED <<file, image_base, entrypoint>>
    BY <2>3 DEF ParseFails, input
  <2>4. ASSUME NEW b, DLLRelocate(b)
        PROVE  UNCHANGED <<file, image_base, entrypoint>>
    BY <2>4 DEF DLLRelocate, RelocateFails, input
  <2>5. CASE Load
    <3>1. CASE DLLParseHeader
      BY <2>2, <2>3, <3>1 DEF DLLParseHeader, input
    <3>2. CASE DLLLoadImage
      BY <2>2, <2>3, <3>2 DEF DLLLoadImage, input
    <3>3. CASE ProcessSection
      BY <2>2, <2>3, <3>3 DEF ProcessSection, input
    <3>4. CASE ResolveImport
      BY <2>2, <2>3, <3>4 DEF ResolveImport, input
    <3>5. CASE EndOfLoop
      BY <2>2, <3>5 DEF EndOfLoop, input
    <3>6. CASE RelocateInPlace
      BY <2>2, <2>4, <3>6 DEF RelocateInPlace
    <3>7. CASE Fixup
      BY <2>2, <3>7 DEF Fixup, RelocateFails, input
    <3> QED
      BY <2>1, <2>5, <3>1, <3>2, <3>3, <3>4, <3>5, <3>6, <3>7 DEF Load
  <2>6. ASSUME NEW b \in Words, RelocateTo(b) PROVE EntryInv'
    BY <2>2, <2>4, <2>6 DEF RelocateTo
  <2>7. CASE Release
    BY <2>2, <2>7 DEF Release, input
  <2>8. CASE UNCHANGED vars
    BY <2>2, <2>8 DEF vars
  <2> QED
    BY <2>5, <2>6, <2>7, <2>8 DEF Next
<1>3. EntryInv => EntrypointWhenMoved
  BY DEF EntryInv, EntrypointWhenMoved
<1> QED
  BY <1>1, <1>2, <1>3, PTL DEF Spec
(***************************************************************************)
(* The words of the image.                                                 *)
(***************************************************************************)

(* The file is laid out as a linker does it: sections do not overlap, an   *)
(* import slot belongs to one import and is not moved by a fixup.  The     *)
(* loader relies on that and checks none of it.                            *)
WellLinked ==
    \A r \in 0 .. file.image_size - 1 :
        /\ \A s, t \in SectionsAt(r) : s = t
        /\ \A i, j \in SlotsAt(r) : file.imports[i].key = file.imports[j].key
        /\ SlotsAt(r) # {} => FixupsAt(r) = {}

(* What section s has for an address. *)
RawAt(s, r) == file.raw[file.sections[s].at + (r - file.sections[s].va) + 1]

(* How far the word at r has been moved from the file's base so far.       *)
Distance(r) ==
    CASE FixupsAt(r) = {} -> 0
      [] phase = "Fixup" /\ (\E i \in FixupsAt(r) : i < step) -> new_base - file.base
      [] OTHER -> image_base - file.base

(* The words that are in place, phase by phase. *)
ImageInv ==
    /\ phase \in {"DLLParseHeader", "DLLLoadImage", "ProcessSection", "ResolveImport",
                  "DLLRelocate", "parsed"} => image_base = file.base
    /\ \A r \in 0 .. file.image_size - 1 :
        /\ phase \in {"ResolveImport", "DLLRelocate", "Fixup", "parsed", "relocated"} =>
            \A i \in SlotsAt(r) :
                (phase = "ResolveImport" => i < step) => memory[r] = Export[file.imports[i].key]
        /\ phase \in Loaded /\ SlotsAt(r) = {} =>
            \A s \in SectionsAt(r) :
                (phase = "ProcessSection" => s < step) =>
                    memory[r] = (RawAt(s, r) + Distance(r)) % Word

LEMMA WordStays ==
    ASSUME NEW w \in Words
    PROVE  w % Word = w
  BY WordAssumption, ModuloSmall DEF Words

(* What the layout of a file gives the loader's loops.                     *)
LEMMA SectionFacts ==
    ASSUME file \in File, NEW r \in 0 .. file.image_size - 1, NEW s \in SectionsAt(r)
    PROVE  s \in Nat \ {0} /\ s <= Len(file.sections) /\ RawAt(s, r) \in Words
<1> DEFINE e == file.sections[s]
<1>1. /\ file.sections \in Seq([at : Nat, size : Nat, va : Nat])
      /\ file.raw \in Seq(Words)
      /\ file.image_size \in Nat
  BY FileAssumption
<1>2. s \in DOMAIN file.sections /\ e.va <= r /\ r < e.va + e.size
  BY DEF SectionsAt
<1>3. e \in [at : Nat, size : Nat, va : Nat]
  BY <1>1, <1>2, SequenceElement, Zenon
<1>4. e.at + e.size <= Len(file.raw)
  BY <1>2, FileAssumption
<1>5. e.at + (r - e.va) + 1 \in 1 .. Len(file.raw)
  <2>1. e.at \in Nat /\ e.size \in Nat /\ e.va \in Nat /\ r \in Int /\ Len(file.raw) \in Nat
    BY <1>1, <1>3
  <2> QED
    BY <1>2, <1>4, <2>1, OffsetInRange, Zenon
<1>6. Len(file.sections) \in Nat /\ DOMAIN file.sections = 1 .. Len(file.sections)
  BY <1>1
<1>7. RawAt(s, r) \in Words
  BY <1>1, <1>5 DEF RawAt
<1> QED
  BY <1>2, <1>6, <1>7

(* The tables of the file are the same after every step. *)
LEMMA SameTables ==
    ASSUME UNCHANGED file, NEW r
    PROVE  /\ SectionsAt(r)' = SectionsAt(r) /\ SlotsAt(r)' = SlotsAt(r)
           /\ FixupsAt(r)' = FixupsAt(r)
           /\ \A s : RawAt(s, r)' = RawAt(s, r)
  BY DEF SectionsAt, SlotsAt, FixupsAt, RawAt

(* Before the sections are copied and after a failure, nothing is said.    *)
LEMMA ImageUnsaid ==
    ASSUME phase' \in {"failed", "kept", "rejected"}
    PROVE  ImageInv'
  BY DEF ImageInv, Loaded

LEMMA HeaderImage ==
    ASSUME ImageInv, DLLParseHeader
    PROVE  ImageInv'
<1>1. phase' = "failed" \/ (phase' = "DLLLoadImage" /\ UNCHANGED <<image_base, file>>)
  BY DEF DLLParseHeader, ParseFails, Goto, input
<1>2. phase = "DLLParseHeader"
  BY DEF DLLParseHeader
<1> QED
  BY <1>1, <1>2, ImageUnsaid DEF ImageInv, Loaded

LEMMA LoadImageImage ==
    ASSUME LoaderInv, ImageInv, DLLLoadImage
    PROVE  ImageInv'
<1>1. phase = "DLLLoadImage" /\ UNCHANGED file
  BY DEF DLLLoadImage, ParseFails, input
<1>2. phase' = "failed" \/ (phase' = "ProcessSection" /\ step' = 1 /\ UNCHANGED image_base)
  BY DEF DLLLoadImage, ParseFails, Goto
<1>3. CASE phase' = "ProcessSection" /\ step' = 1 /\ UNCHANGED image_base
  <2>1. image_base' = file'.base
    BY <1>1, <1>3 DEF ImageInv
  <2>2. ASSUME NEW r \in 0 .. file.image_size - 1, NEW s \in SectionsAt(r)
        PROVE  ~(s < step')
    <3>1. s \in Nat \ {0}
      BY <2>2, SectionFacts DEF LoaderInv, TypeOK
    <3> QED
      BY <1>3, <3>1
  <2> QED
    BY <1>1, <1>3, <2>1, <2>2, SameTables DEF ImageInv, Loaded
<1> QED
  BY <1>2, <1>3, ImageUnsaid

LEMMA SectionImage ==
    ASSUME LoaderInv, ImageInv, WellLinked, ProcessSection
    PROVE  ImageInv'
<1> DEFINE e == file.sections[step]
<1>1. phase = "ProcessSection" /\ phase \in Loaded /\ step <= Len(file.sections)
  BY DEF ProcessSection, Loaded
<1>2. CASE phase' = "failed"
  BY <1>2, ImageUnsaid
<1>3. CASE /\ memory' = [r \in DOMAIN memory |->
                            IF e.va <= r /\ r < e.va + e.size
                            THEN file.raw[e.at + (r - e.va) + 1] ELSE memory[r]]
           /\ step' = step + 1
           /\ UNCHANGED <<input, heap, phase, status, address, image_base, new_base, entrypoint>>
  <2>1. file \in File /\ step \in Nat \ {0} /\ memory \in [0 .. file.image_size - 1 -> Words]
    BY <1>1, LoadedFacts
  <2>2. ASSUME NEW r \in 0 .. file.image_size - 1, NEW s \in SectionsAt(r), s < step + 1,
               SlotsAt(r) = {}
        PROVE  memory'[r] = (RawAt(s, r) + Distance(r)') % Word
    <3>1. s \in Nat \ {0} /\ RawAt(s, r) \in Words
      BY <2>1, <2>2, SectionFacts
    <3>2. Distance(r) = 0 /\ Distance(r)' = 0
      <4>1. image_base = file.base /\ UNCHANGED <<image_base, file, phase>>
        BY <1>1, <1>3 DEF ImageInv, input
      <4>2. image_base \in Int
        BY <1>1, LoadedFacts, WordAssumption DEF Words
      <4> QED
        BY <1>1, <4>1, <4>2 DEF Distance, FixupsAt
    <3>3. RawAt(s, r) % Word = RawAt(s, r) /\ RawAt(s, r) \in Int
      BY <3>1, WordStays, WordAssumption DEF Words
    <3>4. memory'[r] = RawAt(s, r)
      <4>1. CASE s = step
        BY <1>3, <2>1, <2>2, <4>1 DEF SectionsAt, RawAt
      <4>2. CASE s # step
        <5>1. ~(e.va <= r /\ r < e.va + e.size)
          <6>1. step \in DOMAIN file.sections
            <7>1. file.sections \in Seq([at : Nat, size : Nat, va : Nat])
              BY <2>1, FileAssumption
            <7> QED
              BY <1>1, <2>1, <7>1
          <6> QED
            BY <2>2, <4>2, <6>1 DEF WellLinked, SectionsAt
        <5>2. memory'[r] = memory[r]
          BY <1>3, <2>1, <5>1
        <5>3. memory[r] = (RawAt(s, r) + Distance(r)) % Word
          <6>1. s < step
            BY <2>1, <2>2, <3>1, <4>2
          <6> QED
            BY <1>1, <2>2, <6>1 DEF ImageInv
        <5> QED
          BY <3>2, <3>3, <5>2, <5>3
      <4> QED
        BY <4>1, <4>2
    <3> QED
      BY <3>2, <3>3, <3>4
  <2>3. image_base' = file'.base /\ phase' = "ProcessSection" /\ UNCHANGED file
    BY <1>1, <1>3 DEF ImageInv, input
  <2> QED
    BY <1>3, <2>2, <2>3, SameTables DEF ImageInv, Loaded
<1>4. \/ phase' = "failed"
      \/ /\ memory' = [r \in DOMAIN memory |->
                            IF e.va <= r /\ r < e.va + e.size
                            THEN file.raw[e.at + (r - e.va) + 1] ELSE memory[r]]
         /\ step' = step + 1
         /\ UNCHANGED <<input, heap, phase, status, address, image_base, new_base, entrypoint>>
  BY DEF ProcessSection, ParseFails
<1> QED
  BY <1>2, <1>3, <1>4

LEMMA ImportImage ==
    ASSUME LoaderInv, ImageInv, WellLinked, ResolveImport
    PROVE  ImageInv'
<1> DEFINE e == file.imports[step]
<1>1. phase = "ResolveImport" /\ phase \in Loaded /\ step <= Len(file.imports)
  BY DEF ResolveImport, Loaded
<1>2. \/ phase' = "failed"
      \/ /\ memory' = [memory EXCEPT ![e.slot] = Export[e.key]]
         /\ step' = step + 1
         /\ UNCHANGED <<input, heap, phase, status, address, image_base, new_base, entrypoint>>
  BY DEF ResolveImport, ParseFails
<1>3. CASE /\ memory' = [memory EXCEPT ![e.slot] = Export[e.key]]
           /\ step' = step + 1
           /\ UNCHANGED <<input, heap, phase, status, address, image_base, new_base, entrypoint>>
  <2>1. file \in File /\ step \in Nat \ {0} /\ memory \in [0 .. file.image_size - 1 -> Words]
    BY <1>1, LoadedFacts
  <2>2. file.imports \in Seq([forwarded : BOOLEAN, slot : Nat, key : STRING])
    BY <2>1, FileAssumption
  <2>3. step \in DOMAIN file.imports
    BY <1>1, <2>1, <2>2
  <2>4. UNCHANGED <<file, phase, image_base>>
    BY <1>3 DEF input
  <2>5. ASSUME NEW r \in 0 .. file.image_size - 1, NEW i \in SlotsAt(r), i < step + 1
        PROVE  memory'[r] = Export[file.imports[i].key]
    <3>1. i \in Nat
      BY <2>2 DEF SlotsAt
    <3>2. CASE r = e.slot
      <4>1. step \in SlotsAt(r)
        BY <2>3, <3>2 DEF SlotsAt
      <4>2. e.key = file.imports[i].key
        BY <2>5, <4>1 DEF WellLinked
      <4> QED
        BY <1>3, <2>1, <3>2, <4>2
    <3>3. CASE r # e.slot
      <4>1. i # step
        BY <2>5, <3>3 DEF SlotsAt
      <4>2. memory[r] = Export[file.imports[i].key]
        BY <1>1, <2>1, <2>5, <3>1, <4>1 DEF ImageInv
      <4> QED
        BY <1>3, <2>1, <3>3, <4>2
    <3> QED
      BY <3>2, <3>3
  <2>6. ASSUME NEW r \in 0 .. file.image_size - 1, NEW s \in SectionsAt(r), SlotsAt(r) = {}
        PROVE  memory'[r] = (RawAt(s, r) + Distance(r)') % Word
    <3>1. memory'[r] = memory[r]
      BY <1>3, <2>1, <2>3, <2>6 DEF SlotsAt
    <3>2. Distance(r)' = Distance(r)
      BY <1>1, <2>4 DEF Distance, FixupsAt
    <3> QED
      BY <1>1, <2>6, <3>1, <3>2 DEF ImageInv
  <2> QED
    BY <1>1, <1>3, <2>4, <2>5, <2>6, SameTables DEF ImageInv
<1> QED
  BY <1>2, <1>3, ImageUnsaid

LEMMA EndOfLoopImage ==
    ASSUME LoaderInv, ImageInv, EndOfLoop
    PROVE  ImageInv'
<1>1. /\ phase \in {"ProcessSection", "ResolveImport"}
      /\ phase' \in {"ResolveImport", "DLLRelocate", "parsed"}
      /\ phase = "ProcessSection" <=> phase' = "ResolveImport"
      /\ step' = 1
      /\ UNCHANGED <<file, image_base, memory>>
  BY DEF EndOfLoop, Goto, input
<1>2. file \in File /\ step \in Nat \ {0}
  BY <1>1, LoadedFacts DEF Loaded
<1>3. ASSUME NEW r \in 0 .. file.image_size - 1, NEW i \in SlotsAt(r),
             phase' = "ResolveImport" => i < 1
      PROVE  memory[r] = Export[file.imports[i].key]
  <2>1. i \in Nat \ {0} /\ i <= Len(file.imports)
    <3>1. file.imports \in Seq([forwarded : BOOLEAN, slot : Nat, key : STRING])
      BY <1>2, FileAssumption
    <3> QED
      BY <3>1 DEF SlotsAt
  <2>2. phase = "ResolveImport" /\ step > Len(file.imports)
    BY <1>1, <1>3, <2>1 DEF EndOfLoop
  <2>3. i < step
    BY <1>2, <2>1, <2>2
  <2> QED
    BY <2>2, <2>3 DEF ImageInv
<1>4. ASSUME NEW r \in 0 .. file.image_size - 1, NEW s \in SectionsAt(r), SlotsAt(r) = {}
      PROVE  memory[r] = (RawAt(s, r) + Distance(r)') % Word
  <2>1. Distance(r)' = Distance(r)
    BY <1>1 DEF Distance, FixupsAt
  <2>2. s \in Nat /\ s <= Len(file.sections)
    BY <1>2, <1>4, SectionFacts
  <2>3. phase = "ProcessSection" => s < step
    BY <1>1, <1>2, <2>2 DEF EndOfLoop
  <2> QED
    BY <1>1, <1>4, <2>1, <2>3 DEF ImageInv, Loaded
<1>5. image_base' = file'.base
  BY <1>1 DEF ImageInv
<1> QED
  BY <1>1, <1>3, <1>4, <1>5, SameTables DEF ImageInv

LEMMA RelocateImage ==
    ASSUME LoaderInv, ImageInv, phase \in {"DLLRelocate", "parsed", "relocated"},
           NEW b \in Words, DLLRelocate(b)
    PROVE  ImageInv'
<1>1. \/ phase' = "failed"
      \/ /\ phase' \in {"Fixup", "relocated"}
         /\ phase' = "Fixup" => step' = 1
         /\ UNCHANGED <<file, image_base, memory>>
  BY DEF DLLRelocate, RelocateFails, Goto, input
<1>2. CASE /\ phase' \in {"Fixup", "relocated"}
           /\ phase' = "Fixup" => step' = 1
           /\ UNCHANGED <<file, image_base, memory>>
  <2>1. file \in File
    BY LoadedFacts DEF Loaded
  <2>2. ASSUME NEW r \in 0 .. file.image_size - 1
        PROVE  Distance(r)' = Distance(r)
    <3>1. \A i \in FixupsAt(r) : ~(i < 1)
      <4>1. file.fixups \in Seq([type : FixupTypes, rva : Nat])
        BY <2>1, FileAssumption
      <4> QED
        BY <4>1 DEF FixupsAt
    <3>2. FixupsAt(r)' = FixupsAt(r)
      BY <1>2, SameTables
    <3> QED
      BY <1>2, <3>1, <3>2 DEF Distance
  <2>3. ASSUME NEW r \in 0 .. file.image_size - 1, NEW s \in SectionsAt(r), SlotsAt(r) = {}
        PROVE  memory[r] = (RawAt(s, r) + Distance(r)') % Word
    BY <2>2, <2>3 DEF ImageInv, Loaded
  <2>4. ASSUME NEW r \in 0 .. file.image_size - 1, NEW i \in SlotsAt(r)
        PROVE  memory[r] = Export[file.imports[i].key]
    BY <2>4 DEF ImageInv
  <2> QED
    BY <1>2, <2>3, <2>4, SameTables DEF ImageInv
<1> QED
  BY <1>1, <1>2, ImageUnsaid

LEMMA FixupImage ==
    ASSUME LoaderInv, ImageInv, WellLinked, Fixup
    PROVE  ImageInv'
<1> DEFINE e == file.fixups[step]
<1>1. phase = "Fixup" /\ phase \in Loaded /\ step <= Len(file.fixups)
  BY DEF Fixup, Loaded
<1>2. \/ phase' = "failed"
      \/ /\ memory' = IF e.type = "HIGHLOW"
                      THEN [memory EXCEPT ![e.rva] = Rebase(@)] ELSE memory
         /\ step' = step + 1
         /\ UNCHANGED <<input, heap, phase, status, address, image_base, new_base, entrypoint>>
  BY DEF Fixup, RelocateFails
<1>3. CASE /\ memory' = IF e.type = "HIGHLOW"
                        THEN [memory EXCEPT ![e.rva] = Rebase(@)] ELSE memory
           /\ step' = step + 1
           /\ UNCHANGED <<input, heap, phase, status, address, image_base, new_base, entrypoint>>
  <2>1. /\ file \in File /\ step \in Nat \ {0}
        /\ memory \in [0 .. file.image_size - 1 -> Words]
        /\ {image_base, new_base, file.base} \subseteq Int
    BY <1>1, LoadedFacts, FileAssumption, WordAssumption DEF Words
  <2>2. file.fixups \in Seq([type : FixupTypes, rva : Nat])
    BY <2>1, FileAssumption
  <2>3. step \in DOMAIN file.fixups
    BY <1>1, <2>1, <2>2
  <2>4. UNCHANGED <<file, phase, image_base, new_base>>
    BY <1>3 DEF input
  <2>5. ASSUME NEW r \in 0 .. file.image_size - 1, step \in FixupsAt(r)
        PROVE  /\ FixupsAt(r) = {step} /\ SlotsAt(r) = {}
               /\ memory'[r] = (memory[r] + (new_base - image_base)) % Word
    <3>1. e.type = "HIGHLOW" /\ e.rva = r
      BY <2>5 DEF FixupsAt
    <3>2. FixupsAt(r) = {step}
      BY <2>1, <2>3, <2>5, FileAssumption DEF FixupsAt
    <3> QED
      BY <1>3, <2>1, <2>5, <3>1, <3>2 DEF WellLinked, Rebase
  <2>6. ASSUME NEW r \in 0 .. file.image_size - 1, step \notin FixupsAt(r)
        PROVE  memory'[r] = memory[r] /\ Distance(r)' = Distance(r)
    <3>1. ~(e.type = "HIGHLOW" /\ e.rva = r)
      BY <2>3, <2>6 DEF FixupsAt
    <3>2. \A i \in FixupsAt(r) : i < step + 1 <=> i < step
      <4>1. \A i \in FixupsAt(r) : i \in Nat /\ i # step
        BY <2>2, <2>6 DEF FixupsAt
      <4> QED
        BY <2>1, <4>1
    <3>3. FixupsAt(r)' = FixupsAt(r)
      BY <2>4, SameTables
    <3>4. Distance(r)' = Distance(r)
      BY <1>3, <2>4, <3>2, <3>3 DEF Distance
    <3> QED
      BY <1>3, <2>1, <3>1, <3>4
  <2>7. ASSUME NEW r \in 0 .. file.image_size - 1, NEW s \in SectionsAt(r), SlotsAt(r) = {}
        PROVE  memory'[r] = (RawAt(s, r) + Distance(r)') % Word
    <3>1. memory[r] = (RawAt(s, r) + Distance(r)) % Word
      BY <1>1, <2>7 DEF ImageInv
    <3>2. CASE step \in FixupsAt(r)
      <4>1. Distance(r) = image_base - file.base
        BY <1>1, <2>1, <2>5, <3>2 DEF Distance
      <4>2. FixupsAt(r)' = {step} /\ step' = step + 1 /\ phase' = "Fixup"
        BY <1>1, <1>3, <2>4, <2>5, <3>2, SameTables
      <4>3. Distance(r)' = new_base - file.base
        BY <2>1, <2>4, <4>2 DEF Distance
      <4>4. RawAt(s, r) \in Int
        BY <2>1, <2>7, SectionFacts, WordAssumption DEF Words
      <4> DEFINE a == RawAt(s, r) + (image_base - file.base)
                 d == new_base - image_base
      <4>5. a \in Int /\ d \in Int /\ a + d = RawAt(s, r) + (new_base - file.base)
        BY <2>1, <4>4
      <4>6. memory'[r] = ((a % Word) + d) % Word
        BY <2>5, <3>1, <3>2, <4>1
      <4>7. ((a % Word) + d) % Word = (a + d) % Word
        <5> HIDE DEF a, d
        <5> QED
          BY <4>5, ModuloAgain, WordAssumption
      <4> QED
        BY <4>3, <4>5, <4>6, <4>7
    <3>3. CASE step \notin FixupsAt(r)
      BY <2>6, <3>1, <3>3
    <3> QED
      BY <3>2, <3>3
  <2>8. ASSUME NEW r \in 0 .. file.image_size - 1, NEW i \in SlotsAt(r)
        PROVE  memory'[r] = Export[file.imports[i].key]
    <3>1. step \notin FixupsAt(r)
      BY <2>5, <2>8
    <3> QED
      BY <1>1, <2>6, <2>8, <3>1 DEF ImageInv
  <2> QED
    BY <1>1, <2>4, <2>7, <2>8, SameTables DEF ImageInv
<1> QED
  BY <1>2, <1>3, ImageUnsaid

LEMMA EndOfTableImage ==
    ASSUME LoaderInv, ImageInv, EndOfTable
    PROVE  ImageInv'
<1>1. /\ phase = "Fixup" /\ step > Len(file.fixups)
      /\ phase' = "relocated" /\ image_base' = new_base
      /\ UNCHANGED <<file, memory>>
  BY DEF EndOfTable, Goto, input
<1>2. file \in File /\ step \in Nat \ {0}
  BY <1>1, LoadedFacts DEF Loaded
<1>3. ASSUME NEW r \in 0 .. file.image_size - 1
      PROVE  Distance(r)' = Distance(r)
  <2>1. \A i \in FixupsAt(r) : i < step
    <3>1. file.fixups \in Seq([type : FixupTypes, rva : Nat])
      BY <1>2, FileAssumption
    <3> QED
      BY <1>1, <1>2, <3>1 DEF FixupsAt
  <2>2. FixupsAt(r)' = FixupsAt(r)
    BY <1>1, SameTables
  <2> QED
    BY <1>1, <2>1, <2>2 DEF Distance
<1>4. ASSUME NEW r \in 0 .. file.image_size - 1, NEW s \in SectionsAt(r), SlotsAt(r) = {}
      PROVE  memory[r] = (RawAt(s, r) + Distance(r)') % Word
  BY <1>1, <1>3, <1>4 DEF ImageInv, Loaded
<1>5. ASSUME NEW r \in 0 .. file.image_size - 1, NEW i \in SlotsAt(r)
      PROVE  memory[r] = Export[file.imports[i].key]
  BY <1>1, <1>5 DEF ImageInv
<1> QED
  BY <1>1, <1>4, <1>5, SameTables DEF ImageInv

(* The words of a well linked file stay in place.                          *)
LEMMA ImageNext ==
    ASSUME LoaderInv, ImageInv, WellLinked, [Next]_vars
    PROVE  ImageInv'
<1>1. CASE RelocateInPlace
  BY <1>1, RelocateImage, LoadedFacts DEF RelocateInPlace, Loaded
<1>2. ASSUME NEW b \in Words, RelocateTo(b) PROVE ImageInv'
  BY <1>2, RelocateImage DEF RelocateTo
<1>3. CASE Load
  BY <1>1, <1>3, HeaderImage, LoadImageImage, SectionImage, ImportImage, EndOfLoopImage,
     FixupImage, EndOfTableImage DEF Load
<1>4. CASE Release
  BY <1>4, ImageUnsaid DEF Release
<1>5. CASE UNCHANGED vars
  BY <1>5 DEF vars, ImageInv, SlotsAt, SectionsAt, RawAt, Distance, FixupsAt
<1> QED
  BY <1>2, <1>3, <1>4, <1>5 DEF Next

(* A file laid out as a linker does it ends up in memory as it should: an  *)
(* image that DLLLoad or DLLRelocate reports relocated has its sections in *)
(* place, its imports resolved and every fixup moved by the distance of    *)
(* the base it lies at from the file's, after any number of relocations.   *)
THEOREM LoaderImage == Spec => [](WellLinked => ImageCorrect)
<1>1. Init => ImageInv
  BY DEF Init, ImageInv, Loaded
<1>2. [Next]_vars => (WellLinked' => WellLinked)
  <2>1. [Next]_vars => UNCHANGED file
    BY DEF Next, Load, vars, input, DLLParseHeader, DLLLoadImage, ProcessSection, ResolveImport,
           EndOfLoop, RelocateInPlace, RelocateTo, DLLRelocate, Fixup, EndOfTable, Release,
           ParseFails, RelocateFails
  <2> QED
    BY <2>1, SameTables DEF WellLinked
<1>3. LoaderInv /\ (WellLinked => ImageInv) /\ [Next]_vars => (WellLinked => ImageInv)'
  BY <1>2, ImageNext
<1>4. LoaderInv /\ (WellLinked => ImageInv) => (WellLinked => ImageCorrect)
  <2> SUFFICES ASSUME LoaderInv, ImageInv, phase = "relocated" PROVE ImageCorrect
    BY DEF ImageCorrect
  <2>1. \A r \in 0 .. file.image_size - 1 :
            Distance(r) = IF FixupsAt(r) = {} THEN 0 ELSE image_base - file.base
    BY DEF Distance
  <2> QED
    BY <2>1 DEF ImageInv, ImageCorrect, Loaded, RawAt
<1> QED
  BY <1>1, <1>3, <1>4, LoaderInvariant, PTL DEF Spec
=============================================================================
