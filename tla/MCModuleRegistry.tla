--------------------------- MODULE MCModuleRegistry ---------------------------
(* Small instances of ModuleRegistry for TLC. *)
EXTENDS ModuleRegistry

(* Registrations: an ordinal with and without names (DXTMain's own export, *)
(* a linked one), and another ordinal whose name the first one already has.*)
MCx(o, name, alias, a, where) ==
    [ordinal |-> o, method_name |-> name, alias |-> alias, address |-> a, storage |-> where]

OwnershipExports ==
    {MCx(1, "A", "a", 1, "pool"), MCx(1, NULL, NULL, 2, "pool"),
     MCx(2, "A", NULL, 3, "pool")}
(* Three exports without names, the last from a caller that copies none.   *)
ListingExports ==
    {MCx(1, NULL, NULL, 1, "pool"), MCx(2, NULL, NULL, 2, "pool"), MCx(3, NULL, NULL, 3, "scoped")}
ScopedExports ==
    {MCx(1, "A", "a", 1, "scoped"), MCx(2, "B", NULL, 2, "pool"), MCx(2, NULL, NULL, 3, "scoped")}

(* The ownership run looks at the registry only: no listing is followed. *)
NoListing == listing.phase = "idle"
=============================================================================
