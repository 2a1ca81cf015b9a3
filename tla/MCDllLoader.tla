----------------------------- MODULE MCDllLoader -----------------------------
(* Small instances of DllLoader for TLC. *)
EXTENDS DllLoader

(* Two header cells and two sections.  The second section, of data, holds  *)
(* an import slot and a word the fixups move; RVA 4 is never written (bss).*)
Good == [length |-> 7, lfanew |-> 0, extra |-> 1, flaws |-> {}, headers |-> 2,
         image_size |-> 7, base |-> 3, entry |-> 2, raw |-> <<1, 2, 3, 4, 5, 6, 7>>,
         sections |-> << [at |-> 5, size |-> 2, va |-> 2], [at |-> 2, size |-> 2, va |-> 5],
                         [at |-> 0, size |-> 0, va |-> 4] >>,
         imports |-> << [forwarded |-> FALSE, slot |-> 5, key |-> "known"] >>,
         directory |-> TRUE,
         fixups |-> << [type |-> "HIGHLOW", rva |-> 6], [type |-> "ABSOLUTE", rva |-> 0],
                       [type |-> "HIGHLOW", rva |-> 3] >>]

(* Files cut short, of the wrong kind, or with something unsupported.      *)
MCFile ==
    {Good}
    \cup {[Good EXCEPT !.length = n] : n \in 0 .. 6}
    \cup {[Good EXCEPT !.flaws = {x}] : x \in {"dos", "nt", "machine", "fixed"}}
    \cup {[Good EXCEPT !.lfanew = 3], [Good EXCEPT !.headers = 8],
          [Good EXCEPT !.imports[1].forwarded = TRUE],
          [Good EXCEPT !.imports[1].key = "unknown"],
          [Good EXCEPT !.directory = FALSE, !.fixups = <<>>],
          [Good EXCEPT !.fixups[2].type = "OTHER"]}

MCExport == [k \in {"known"} |-> 7]
=============================================================================
