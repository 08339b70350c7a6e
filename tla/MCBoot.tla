------------------------------- MODULE MCBoot -------------------------------
(* Machines with up to two application processors.  A plain machine of     *)
(* each kind, and one for every way in which bring-up can fall short.      *)
EXTENDS Boot

CONSTANTS b, a1, a2

Both == << [core |-> b, enabled |-> TRUE], [core |-> a1, enabled |-> TRUE],
           [core |-> a2, enabled |-> TRUE] >>
One == << [core |-> b, enabled |-> TRUE], [core |-> a2, enabled |-> FALSE],
          [core |-> a1, enabled |-> TRUE] >>

Arm == [arch |-> "arm", image |-> "copied", order |-> One, found |-> TRUE, refused |-> {},
        fits |-> TRUE, psci |-> TRUE, denied |-> {}, heap |-> 2, slices |-> 0, net |-> FALSE,
        gic |-> "v2", redist |-> {b, a1, a2}, far |-> {}, gsKept |-> TRUE]
Shared == [Arm EXCEPT !.image = "shared", !.gic = "v3", !.heap = 6]
X86Kept == [Arm EXCEPT !.arch = "x86", !.heap = 0, !.gic = "none"]

MCMachines ==
    { [Arm EXCEPT !.order = Both, !.heap = 1, !.slices = 1], Shared,
      [X86Kept EXCEPT !.order = Both], [X86Kept EXCEPT !.gsKept = FALSE] }
    \cup { [Arm EXCEPT !.gic = "none"], [Arm EXCEPT !.gic = "v3", !.redist = {b}],
           [Arm EXCEPT !.order = Both, !.gic = "v3", !.far = {a1}], [Arm EXCEPT !.psci = FALSE],
           [Arm EXCEPT !.denied = {a1}, !.net = TRUE], [Arm EXCEPT !.refused = {1}],
           [Arm EXCEPT !.fits = FALSE], [Arm EXCEPT !.heap = 0], [Arm EXCEPT !.found = FALSE],
           [Arm EXCEPT !.image = "none"], [Shared EXCEPT !.heap = 2], [Shared EXCEPT !.heap = 0] }

(* Two cores started in one image.                                         *)
MCSharedBoth == {[Shared EXCEPT !.order = Both]}
=============================================================================
