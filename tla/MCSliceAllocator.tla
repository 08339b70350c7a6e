------------------------- MODULE MCSliceAllocator -------------------------
(* The slice allocator and the memory manager for two jobs, with a small   *)
(* window, a reservation below it, one that is refused, and a fixed claim  *)
(* inside the window.                                                      *)
EXTENDS SliceAllocator

CONSTANTS j1, j2

FirstCell == << <<0, 1>>, <<0, 1>> >>
Fixed == {<<2, 1>>}
=============================================================================
