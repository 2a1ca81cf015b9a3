------------------------------- MODULE DmPool -------------------------------
(***************************************************************************)
(* The debug monitor's memory pool (DmAllocatePoolWithTag, DmFreePool), as *)
(* src/ uses it: an allocation returns a block nobody else holds or NULL,  *)
(* and a block may be freed once.  A pool is the set of blocks handed out. *)
(*                                                                         *)
(* The pool itself is not in the repository.  An allocation is always      *)
(* allowed to fail; which free block a successful one returns makes no     *)
(* difference to the callers, so it is a fixed choice, which also hands a  *)
(* freed block out again as soon as possible.                              *)
(***************************************************************************)
CONSTANT Block     \* the blocks the pool can hand out

(* A further allocation can succeed. *)
CanAlloc(pool) == Block \ pool # {}

(* The block DmAllocatePoolWithTag returns when it succeeds. *)
Alloc(pool) == CHOOSE b \in Block \ pool : TRUE

(* What DmFreePool, called on each block of bs, leaves. *)
Free(pool, bs) == pool \ bs

(* DmFreePool may be called on every block of bs. *)
MayFree(pool, bs) == bs \subseteq pool
=============================================================================
