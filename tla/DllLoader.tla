------------------------------ MODULE DllLoader ------------------------------
(***************************************************************************)
(* The DLL loader (dll_loader/dll_loader.c): DLLParse lays an image out in *)
(* fresh memory and resolves its imports, DLLRelocate rebases it, DLLLoad  *)
(* does one after the other, and DLLFreeContext gives the memory back.     *)
(*                                                                         *)
(* A file is an abstract PE file as a linker writes it, possibly cut short *)
(* or of a kind the loader refuses.  Memory is counted in cells, one per   *)
(* 32-bit word or header, and words are numbers modulo Word.  A fixup is   *)
(* an entry of the base relocation table with the RVA it points to; the    *)
(* table is read up to its zero block.                                     *)
(***************************************************************************)
EXTENDS DmPool, Integers, Sequences

CONSTANTS
    File,           \* the files a caller may pass
    Word,           \* addresses and words are 0 .. Word - 1 and wrap around
    Export,         \* what import resolution knows: a function from imports to addresses
    NULL            \* no block

(* What output.status may say (DLLL_...). *)
Status == {"OK", "ERROR", "FILE_TOO_SMALL", "INVALID_SIGNATURE", "WRONG_MACHINE_TYPE", "FIXED_BASE",
           "OUT_OF_MEMORY", "DLL_FORWARDING_NOT_SUPPORTED", "UNRESOLVED_IMPORT",
           "NO_RELOCATION_DATA", "UNSUPPORTED_RELOCATION_TYPE"}

(* Kinds of fixups (IMAGE_REL_BASED_...). *)
FixupTypes == {"ABSOLUTE", "HIGHLOW", "OTHER"}

Words == 0 .. Word - 1

ASSUME WordAssumption == Word \in Nat \ {0}
ASSUME NullAssumption == NULL \notin Block
ASSUME ExportAssumption == \A k \in DOMAIN Export : Export[k] \in Words

(* A file.  Its raw data is the header cells, then the content, of which   *)
(* length cells arrived; section s is raw cells at .. at + size - 1 for    *)
(* RVAs va onwards.  The tables a linker lays inside the image (imports,   *)
(* fixups) are given as the sequences they encode.                         *)
ASSUME FileAssumption ==
    \A f \in File :
        /\ f \in [length : Nat, lfanew : Nat, extra : Nat,
                  flaws : SUBSET {"dos", "nt", "machine", "fixed"},
                  headers : Nat, image_size : Nat, base : Words, entry : Words,
                  raw : Seq(Words), sections : Seq([at : Nat, size : Nat, va : Nat]),
                  imports : Seq([forwarded : BOOLEAN, slot : Nat, key : STRING]),
                  directory : BOOLEAN, fixups : Seq([type : FixupTypes, rva : Nat])]
        /\ \A s \in DOMAIN f.sections :
                /\ f.sections[s].va + f.sections[s].size <= f.image_size
                /\ f.sections[s].at + f.sections[s].size <= Len(f.raw)
        /\ \A i \in DOMAIN f.imports : f.imports[i].slot < f.image_size
        /\ \A i \in DOMAIN f.fixups : f.fixups[i].rva < f.image_size
        /\ \A i, j \in DOMAIN f.fixups :
                f.fixups[i].type = "HIGHLOW" /\ f.fixups[j].type = "HIGHLOW"
                    /\ f.fixups[i].rva = f.fixups[j].rva => i = j

VARIABLES
    pool,               \* blocks in use
    file,               \* input.raw_data and the header read from it
    phase,              \* the function running: what it does next
    step,               \* its loop counter
    whole,              \* the caller asked for DLLLoad, not for DLLParse alone
    status,             \* output.status
    section_headers,    \* output.section_headers: a block or NULL
    image,              \* output.image: a block or NULL
    address,            \* where that block lies
    memory,             \* the words of the image, a function from RVAs
    image_base,         \* output.header.OptionalHeader.ImageBase
    new_base,           \* argument of the DLLRelocate running
    entrypoint,         \* output.entrypoint
    fault               \* a free that was wrong

input == <<file, whole>>
heap == <<pool, section_headers, image, fault>>
vars == <<pool, file, phase, step, whole, status, section_headers, image, address, memory,
          image_base, new_base, entrypoint, fault>>
-----------------------------------------------------------------------------
Init ==
    /\ pool = {}
    /\ file \in File
    /\ whole \in BOOLEAN
    /\ phase = "DLLParseHeader"
    /\ step = 1
    /\ status = "OK"
    /\ section_headers = NULL
    /\ image = NULL
    /\ address = 0
    /\ memory = <<>>
    /\ image_base = file.base
    /\ new_base = 0
    /\ entrypoint = 0
    /\ fault = "none"

(* Variant of DLLFreeContext: the pointers are not forgotten. *)
DLLFreeContextKeepingPointers(p, sh, im, keep_image) ==
    LET freed == ({sh} \cup IF keep_image THEN {} ELSE {im}) \ {NULL}
    IN /\ pool' = Free(p, freed)
       /\ section_headers' = sh
       /\ image' = im
       /\ fault' = IF MayFree(p, freed) THEN fault ELSE "bad_free"

(* DLLFreeContext, called when the pool is p and the context holds the     *)
(* blocks sh and im (or NULL): it frees each block it holds and forgets it.*)
DLLFreeContext(p, sh, im, keep_image) ==
    LET freed == ({sh} \cup IF keep_image THEN {} ELSE {im}) \ {NULL}
    IN /\ pool' = Free(p, freed)
       /\ section_headers' = NULL
       /\ image' = IF keep_image THEN im ELSE NULL
       /\ fault' = IF MayFree(p, freed) THEN fault ELSE "bad_free"

(* A step of DLLParse fails while the context holds sh and im: DLLParse    *)
(* frees the context. *)
ParseFails(st, p, sh, im) ==
    /\ phase' = "failed"
    /\ status' = st
    /\ DLLFreeContext(p, sh, im, FALSE)
    /\ UNCHANGED <<input, step, address, memory, image_base, new_base, entrypoint>>

Goto(p, i) == phase' = p /\ step' = i
-----------------------------------------------------------------------------
(* DLLParseHeader.  ADVANCE_READ_PTR passes when the file reaches as far.  *)
NtHeader(f) == IF f.lfanew > 1 THEN f.lfanew ELSE 1
SectionTable(f) == NtHeader(f) + 1 + f.extra

(* The checks before the section table is allocated, in the order made.    *)
HeaderChecks(f) ==
    << <<f.length < 1, "FILE_TOO_SMALL">>,
       <<"dos" \in f.flaws, "INVALID_SIGNATURE">>,
       <<f.length < NtHeader(f), "FILE_TOO_SMALL">>,
       <<f.length < NtHeader(f) + 1, "FILE_TOO_SMALL">>,
       <<"nt" \in f.flaws, "INVALID_SIGNATURE">>,
       <<"machine" \in f.flaws, "WRONG_MACHINE_TYPE">>,
       <<"fixed" \in f.flaws, "FIXED_BASE">>,
       <<f.length < SectionTable(f), "FILE_TOO_SMALL">> >>
FailedChecks(f) == {i \in 1 .. 8 : HeaderChecks(f)[i][1]}

DLLParseHeader ==
    /\ phase = "DLLParseHeader"
    /\ \/ \E i \in FailedChecks(file) :
            /\ \A j \in FailedChecks(file) : i <= j
            /\ ParseFails(HeaderChecks(file)[i][2], pool, NULL, NULL)
       \/ /\ FailedChecks(file) = {}
          /\ ParseFails("OUT_OF_MEMORY", pool, NULL, NULL)
       \/ /\ FailedChecks(file) = {}
          /\ CanAlloc(pool)
          /\ file.length < SectionTable(file) + Len(file.sections)
          /\ ParseFails("FILE_TOO_SMALL", pool \cup {Alloc(pool)}, Alloc(pool), NULL)
       \/ /\ FailedChecks(file) = {}
          /\ CanAlloc(pool)
          /\ file.length >= SectionTable(file) + Len(file.sections)
          /\ pool' = pool \cup {Alloc(pool)}
          /\ section_headers' = Alloc(pool)
          /\ Goto("DLLLoadImage", 1)
          /\ UNCHANGED <<input, status, image, address, memory, image_base, new_base,
                         entrypoint, fault>>

(* The raw word at an offset.  Past the end of the data, which the copy of *)
(* the headers does not check, it is some word g.                          *)
RawWord(f, o, g) == IF o < f.length /\ o < Len(f.raw) THEN f.raw[o + 1] ELSE g

(* DLLLoadImage.  The pool does not clear memory: what is not copied holds *)
(* some word g.                                                            *)
DLLLoadImage ==
    /\ phase = "DLLLoadImage"
    /\ \/ ParseFails("OUT_OF_MEMORY", pool, section_headers, NULL)
       \/ /\ CanAlloc(pool)
          /\ file.headers > file.image_size
          /\ ParseFails("ERROR", pool \cup {Alloc(pool)}, section_headers, Alloc(pool))
       \/ /\ CanAlloc(pool)
          /\ file.headers <= file.image_size
          /\ pool' = pool \cup {Alloc(pool)}
          /\ image' = Alloc(pool)
          /\ address' \in {a \in Words \ {0} : a + file.image_size <= Word}
          /\ \E g \in Words :
                memory' = [r \in 0 .. file.image_size - 1 |->
                              IF r < file.headers THEN RawWord(file, r, g) ELSE g]
          /\ Goto("ProcessSection", 1)
          /\ UNCHANGED <<input, status, section_headers, image_base, new_base, entrypoint,
                         fault>>

(* Variant of ProcessSection: a section without data is not passed over. *)
ProcessSectionStuck ==
    /\ phase = "ProcessSection"
    /\ step <= Len(file.sections)
    /\ file.sections[step].size = 0
    /\ UNCHANGED vars

(* DLLProcessSections, one ProcessSection. *)
ProcessSection ==
    /\ phase = "ProcessSection"
    /\ step <= Len(file.sections)
    /\ LET s == file.sections[step]
       IN IF s.size # 0 /\ (s.at > file.length \/ s.at + s.size > file.length)
          THEN ParseFails("FILE_TOO_SMALL", pool, section_headers, image)
          ELSE /\ memory' = [r \in DOMAIN memory |->
                                IF s.va <= r /\ r < s.va + s.size
                                THEN file.raw[s.at + (r - s.va) + 1] ELSE memory[r]]
               /\ step' = step + 1
               /\ UNCHANGED <<input, heap, phase, status, address, image_base, new_base,
                              entrypoint>>

(* DLLResolveImports, one import. *)
ResolveImport ==
    /\ phase = "ResolveImport"
    /\ step <= Len(file.imports)
    /\ LET i == file.imports[step]
       IN \/ /\ i.forwarded
             /\ ParseFails("DLL_FORWARDING_NOT_SUPPORTED", pool, section_headers, image)
          \/ /\ ~i.forwarded
             /\ i.key \notin DOMAIN Export
             /\ ParseFails("UNRESOLVED_IMPORT", pool, section_headers, image)
          \/ /\ ~i.forwarded
             /\ i.key \in DOMAIN Export
             /\ memory' = [memory EXCEPT ![i.slot] = Export[i.key]]
             /\ step' = step + 1
             /\ UNCHANGED <<input, heap, phase, status, address, image_base, new_base,
                            entrypoint>>

(* The two loops end; DLLLoad goes on, DLLParse is done. *)
EndOfLoop ==
    /\ \/ /\ phase = "ProcessSection"
          /\ step > Len(file.sections)
          /\ Goto("ResolveImport", 1)
       \/ /\ phase = "ResolveImport"
          /\ step > Len(file.imports)
          /\ Goto(IF whole THEN "DLLRelocate" ELSE "parsed", 1)
    /\ UNCHANGED <<input, heap, status, address, memory, image_base, new_base, entrypoint>>
-----------------------------------------------------------------------------
(* Variants of RelocateFails: the context is not freed; the status is not  *)
(* set.                                                                    *)
RelocateFailsHoldingImage(st) ==
    /\ phase' = "failed"
    /\ status' = st
    /\ UNCHANGED <<heap, input, step, address, memory, image_base, new_base, entrypoint>>
RelocateFailsSilently(st) ==
    /\ phase' = "failed"
    /\ IF whole THEN DLLFreeContext(pool, section_headers, image, FALSE) ELSE UNCHANGED heap
    /\ UNCHANGED <<input, status, step, address, memory, image_base, new_base, entrypoint>>

(* DLLRelocate fails.  DLLLoad then frees the context, a direct caller has *)
(* to do so itself.                                                        *)
RelocateFails(st) ==
    /\ phase' = "failed"
    /\ status' = st
    /\ IF whole THEN DLLFreeContext(pool, section_headers, image, FALSE) ELSE UNCHANGED heap
    /\ UNCHANGED <<input, step, address, memory, image_base, new_base, entrypoint>>

(* DLLRelocate, called with base b. *)
DLLRelocate(b) ==
    \/ /\ b = image_base
       /\ phase' = "relocated"
       /\ UNCHANGED <<input, heap, step, status, address, memory, image_base, new_base,
                      entrypoint>>
    \/ /\ b # image_base
       /\ ~file.directory
       /\ RelocateFails("NO_RELOCATION_DATA")
    \/ /\ b # image_base
       /\ file.directory
       /\ new_base' = b
       /\ Goto("Fixup", 1)
       /\ UNCHANGED <<input, heap, status, address, memory, image_base, entrypoint>>

(* DLLLoad relocates the image to where it lies; after DLLParse the caller *)
(* names the base, and may do so again.                                    *)
RelocateInPlace ==
    /\ phase = "DLLRelocate"
    /\ DLLRelocate(address)

RelocateTo(b) ==
    /\ ~whole
    /\ phase \in {"parsed", "relocated"}
    /\ DLLRelocate(b)

(* Variant of Rebase: no wrap around. *)
RebaseUnbounded(w) == w + (new_base - image_base)

(* image_delta, added with wrap around. *)
Rebase(w) == (w + (new_base - image_base)) % Word

(* One entry of the base relocation table. *)
Fixup ==
    /\ phase = "Fixup"
    /\ step <= Len(file.fixups)
    /\ LET e == file.fixups[step]
       IN IF e.type = "OTHER"
          THEN RelocateFails("UNSUPPORTED_RELOCATION_TYPE")
          ELSE /\ memory' = IF e.type = "HIGHLOW"
                            THEN [memory EXCEPT ![e.rva] = Rebase(@)] ELSE memory
               /\ step' = step + 1
               /\ UNCHANGED <<input, heap, phase, status, address, image_base, new_base,
                              entrypoint>>

(* Variants of EndOfTable: the header keeps the old base; the entrypoint   *)
(* is computed before the header changes.                                  *)
EndOfTableKeepingBase ==
    /\ phase = "Fixup"
    /\ step > Len(file.fixups)
    /\ entrypoint' = (new_base + file.entry) % Word
    /\ Goto("relocated", 1)
    /\ UNCHANGED <<input, heap, status, address, memory, image_base, new_base>>
EndOfTableOldEntrypoint ==
    /\ phase = "Fixup"
    /\ step > Len(file.fixups)
    /\ image_base' = new_base
    /\ entrypoint' = (image_base + file.entry) % Word
    /\ Goto("relocated", 1)
    /\ UNCHANGED <<input, heap, status, address, memory, new_base>>

(* The table is done: the header and the entrypoint follow. *)
EndOfTable ==
    /\ phase = "Fixup"
    /\ step > Len(file.fixups)
    /\ image_base' = new_base
    /\ entrypoint' = (new_base + file.entry) % Word
    /\ Goto("relocated", 1)
    /\ UNCHANGED <<input, heap, status, address, memory, new_base>>
-----------------------------------------------------------------------------
(* The caller is done with the context: it keeps a loaded image, and frees *)
(* everything after a failure (ReceiveImageDataComplete in dxtmain.c).     *)
Release ==
    /\ phase \in {"failed", "parsed", "relocated"}
    /\ DLLFreeContext(pool, section_headers, image, phase # "failed")
    /\ phase' = IF phase = "failed" THEN "rejected" ELSE "kept"
    /\ UNCHANGED <<input, step, status, address, memory, image_base, new_base, entrypoint>>

Load ==
    \/ DLLParseHeader
    \/ DLLLoadImage
    \/ ProcessSection
    \/ ResolveImport
    \/ EndOfLoop
    \/ RelocateInPlace
    \/ Fixup
    \/ EndOfTable

Next ==
    \/ Load
    \/ \E b \in Words : RelocateTo(b)
    \/ Release

Spec == Init /\ [][Next]_vars

(* The loader runs in one thread, which goes on. *)
FairSpec == Spec /\ WF_vars(Load)
-----------------------------------------------------------------------------
Phases == {"DLLParseHeader", "DLLLoadImage", "ProcessSection", "ResolveImport", "DLLRelocate",
           "Fixup", "parsed", "relocated", "failed", "kept", "rejected"}

(* Every variable has its type. *)
TypeOK ==
    /\ pool \subseteq Block
    /\ file \in File
    /\ whole \in BOOLEAN
    /\ phase \in Phases
    /\ status \in Status
    /\ step \in Nat \ {0}
    /\ section_headers \in Block \cup {NULL}
    /\ image \in Block \cup {NULL}
    /\ address \in Words
    /\ image # NULL => memory \in [0 .. file.image_size - 1 -> Words]
    /\ {image_base, new_base, entrypoint} \subseteq Words
    /\ fault \in {"none", "bad_free"}

(* The loader's memory is what the context holds: on no path is a block    *)
(* lost, freed twice or used after it was freed, although a failure may    *)
(* free the context twice, once inside and once by the caller.             *)
ContextOwns ==
    /\ pool = {section_headers, image} \ {NULL}
    /\ section_headers = image => image = NULL
    /\ fault = "none"

(* DLLLoad and DLLParse leave nothing behind when they fail.               *)
FailureFreesAll ==
    /\ phase = "rejected" => pool = {}
    /\ phase = "failed" /\ whole => pool = {}
    /\ phase = "kept" => section_headers = NULL /\ image # NULL

(* A failure is reported, and only a failure.                              *)
StatusTells == phase \in {"failed", "rejected"} <=> status # "OK"

(* What the file says a word of the image is at its preferred base.        *)
SectionsAt(r) ==
    {s \in DOMAIN file.sections : file.sections[s].va <= r
                                    /\ r < file.sections[s].va + file.sections[s].size}
SlotsAt(r) == {i \in DOMAIN file.imports : file.imports[i].slot = r}
FixupsAt(r) == {i \in DOMAIN file.fixups : file.fixups[i].type = "HIGHLOW"
                                            /\ file.fixups[i].rva = r}

(* A relocated image is the file's: each section lies at its address with  *)
(* its imports resolved and its fixups moved by the distance of the base   *)
(* in the header from the file's, whatever bases it was moved to before.   *)
ImageCorrect ==
    phase = "relocated" =>
        \A r \in 0 .. file.image_size - 1 :
            LET moved == IF FixupsAt(r) = {} THEN 0 ELSE image_base - file.base
            IN /\ \A i \in SlotsAt(r) : memory[r] = Export[file.imports[i].key]
               /\ \A s \in SectionsAt(r) :
                    SlotsAt(r) = {} =>
                        memory[r] = (file.raw[file.sections[s].at + (r - file.sections[s].va) + 1]
                                        + moved) % Word

(* "The rebased entrypoint of the DLL" (dll_loader.h) is the entrypoint at *)
(* the base the image was relocated to.                                    *)
EntrypointRebased ==
    phase = "relocated" => entrypoint = (image_base + file.entry) % Word

(* The entrypoint is that address, or was never set because no relocation  *)
(* moved the image off its preferred base.                                 *)
EntrypointWhenMoved ==
    phase = "relocated" =>
        \/ entrypoint = (image_base + file.entry) % Word
        \/ entrypoint = 0 /\ image_base = file.base

(* Loading ends, with success or failure.                                  *)
LoadEnds == <>(phase \in {"parsed", "relocated", "failed", "kept", "rejected"})
=============================================================================
