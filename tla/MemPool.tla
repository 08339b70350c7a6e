------------------------------ MODULE MemPool ------------------------------
(***************************************************************************)
(* What the memory manager promises its clients: an address is taken or    *)
(* free, a region is granted only when all of it is free, and a release    *)
(* gives back one whole region.  Which region an allocation gets, and how  *)
(* the grants are recorded, is left open.  MemMgr implements this.         *)
(***************************************************************************)
EXTENDS Integers

CONSTANT Addr     \* the physical addresses

VARIABLE taken    \* those inside some granted region

PoolInit == taken \in SUBSET Addr

(* claim and alloc: a region that was entirely free becomes taken.         *)
Grant == \E first, last \in Addr :
            /\ (first .. last) \cap taken = {}
            /\ taken' = taken \cup (first .. last)

(* free: one region is given back, and every address of it is free again.  *)
Release == \E first, last \in Addr :
            /\ (first .. last) \subseteq taken
            /\ taken' = taken \ (first .. last)

PoolSpec == PoolInit /\ [][Grant \/ Release]_taken
=============================================================================
