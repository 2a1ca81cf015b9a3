------------------------------ MODULE MCDxtMain ------------------------------
(* Small instances of DxtMain for TLC. *)
EXTENDS DxtMain

MCx(o, name, alias, a) ==
    [ordinal |-> o, method_name |-> name, alias |-> alias, address |-> a, storage |-> "pool"]

(* DXTMain registers one export of its own by name, the walk finds one     *)
(* module with two exports, and a loaded image may override one of them or *)
(* add a third.                                                            *)
Own == MCx(1, "A", NULL, 1)
Linked1 == MCx(1, NULL, NULL, 2)
Linked2 == MCx(2, NULL, NULL, 3)
Added == MCx(3, NULL, NULL, 4)
Override == MCx(2, NULL, NULL, 5)
(* A client may rename DXTMain's export. *)
Renamed == MCx(1, "B", "A", 6)
MCExport == {Added, Override, Own, Linked1, Linked2, Renamed}
MCStartup == <<[module |-> "ddxt", export |-> Own, linked |-> FALSE],
               [module |-> "xbdm", export |-> Linked1, linked |-> TRUE],
               [module |-> "xbdm", export |-> Linked2, linked |-> TRUE]>>
MCToExport == {[module |-> "ddxt", export |-> Renamed]}
MCImageStartup == {[module |-> "xbdm", export |-> x] : x \in {Added, Override}}
=============================================================================
