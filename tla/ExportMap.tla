------------------------------ MODULE ExportMap ------------------------------
(***************************************************************************)
(* What the module registry promises its callers (module_registry.h): a    *)
(* map from (module, ordinal) to the address registered last.  A           *)
(* registration either takes effect and says so, or is refused and changes *)
(* nothing.                                                                *)
(***************************************************************************)
CONSTANTS
    Module,         \* names of the modules that export methods
    Ordinal,        \* export ordinals
    Address,        \* addresses of exported methods
    NOT_FOUND       \* the answer for an export nobody registered, not an address

VARIABLES
    address,        \* address of each export, or NOT_FOUND
    ret             \* result of the last registration

vars == <<address, ret>>

Empty == [k \in Module \X Ordinal |-> NOT_FOUND]

Init == address = Empty /\ ret = "none"

(* A registration that takes effect: the last one for a key wins. *)
Register(m, o, a) ==
    /\ address' = [address EXCEPT ![<<m, o>>] = a]
    /\ ret' = "registered"

(* A registration that is refused. *)
Refuse ==
    /\ ret' = "refused"
    /\ UNCHANGED address

(* The whole registry is dropped. *)
Reset ==
    /\ address' = Empty
    /\ ret' = "none"

Next ==
    \/ \E m \in Module, o \in Ordinal, a \in Address : Register(m, o, a)
    \/ Refuse
    \/ Reset

Spec == Init /\ [][Next]_vars
=============================================================================
