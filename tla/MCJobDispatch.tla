--------------------------- MODULE MCJobDispatch ---------------------------
(* Instances of the lock-free dispatch code: one core or two.              *)
EXTENDS JobDispatch

CONSTANTS c1, c2

plain(a) == [affinity |-> a, needs |-> FALSE]
needy(a) == [affinity |-> a, needs |-> TRUE]

(* Two cores that submit while they run what was there before.             *)
TwoCores == [cores |-> {c1, c2}, preload |-> << needy(ANY), plain(c2) >>, later |-> {plain(ANY)},
             submitters |-> {c1, c2}, factoryFails |-> FALSE, leavers |-> {}]

(* One core, a factory that may refuse, and a node that leaves.            *)
OneCore == [cores |-> {c1}, preload |-> << needy(ANY), needy(c1) >>, later |-> {plain(ANY), needy(ANY)},
            submitters |-> {c1}, factoryFails |-> TRUE, leavers |-> {c1}]

(* Two cores, one of which submits the first job of all.                   *)
Submitting == [cores |-> {c1, c2}, preload |-> << >>, later |-> {plain(ANY)},
               submitters |-> {c1}, factoryFails |-> FALSE, leavers |-> {}]

OneAndTwo == {OneCore, TwoCores}
JustSubmitting == {Submitting}
=============================================================================
