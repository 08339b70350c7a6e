------------------------ MODULE MCClusterScheduler ------------------------
(* Instances of the cluster scheduler: two nodes and two or three jobs.    *)
EXTENDS ClusterScheduler

CONSTANTS n1, n2

spec(a, p, r, k) == [affinity |-> a, priority |-> p, resource |-> r, kind |-> k, min |-> 1]

(* A job open to any node that needs some peripheral, one tied to n2, and  *)
(* one that needs resource 2 in particular.                                *)
ResourceJobs == {spec(ANY, 1, 0, "PERIPHERAL"), spec(n2, 1, 0, NoKind), spec(ANY, 2, 2, NoKind)}
MmuAndShared == {[kind |-> "MMU", capacity |-> 0, shared |-> FALSE],
                 [kind |-> "PERIPHERAL", capacity |-> 1, shared |-> TRUE]}

(* Jobs without requirements, of different priorities.                     *)
TwoPriorities == {spec(ANY, 1, 0, NoKind), spec(ANY, 2, 0, NoKind)}

(* Later jobs wait for earlier ones; only the second for the first.        *)
EarlierOnly == {p \in Handles \X Handles : p[2] < p[1]}
OneWait == {<<2, 1>>}
=============================================================================
