---------------------------- MODULE MutexService ----------------------------
(***************************************************************************)
(* What the mutex manager promises the cores that use it: a core enters a  *)
(* mutex only when nobody is inside, and only a core that is inside leaves.*)
(* How a core is made to wait is left open.  MutexMgr implements this.     *)
(***************************************************************************)
CONSTANTS Cores, Mutexes

VARIABLE inside    \* the cores inside each mutex

ServiceInit == inside = [m \in Mutexes |-> {}]

Enter(c, m) == inside[m] = {} /\ inside' = [inside EXCEPT ![m] = {c}]

Leave(c, m) == inside[m] = {c} /\ inside' = [inside EXCEPT ![m] = {}]

ServiceSpec == ServiceInit /\ [][\E c \in Cores, m \in Mutexes : Enter(c, m) \/ Leave(c, m)]_inside
=============================================================================
