---------------------------- MODULE MCPageFault ----------------------------
(* Instances of the fault-driven memory: two cores, regions of three pages.*)
EXTENDS PageFault

CONSTANTS c1, c2

slice(f, n, k, o) == [first |-> f, pages |-> n, sync |-> k, owner |-> o]

x86(s) == [arch |-> "x86_64", slices |-> s]
arm(s) == [arch |-> "aarch64", slices |-> s]

(* Both backends with more COW pages on a core than copies, and with       *)
(* slices of both kinds, one more streamed page than the register holds;   *)
(* x86 with both cores as owners, ARM with a slice that starts in one      *)
(* region and ends in the next.                                            *)
BothBackends ==
    {x86({slice(0, 2, "COW", c1)}),
     x86({slice(0, 1, "COW", c1), slice(1, 1, "COW", c2)}),
     x86({slice(0, 1, "COW", c1), slice(1, 2, "STREAM", c1)}),
     arm({slice(0, 2, "COW", c1)}),
     arm({slice(0, 1, "COW", c1), slice(1, 1, "STREAM", c1), slice(2, 2, "COW", c1)})}
=============================================================================
