------------------------- MODULE JobDispatchProofs -------------------------
(***************************************************************************)
(* What the compare-and-swaps of cluster_scheduler.c keep, for every number*)
(* of cores, slots and submissions.  No submission runs on two cores, and  *)
(* none that has finished runs again: both are proved for machines that    *)
(* are settled, in which no node leaves and the kernel's factory refuses   *)
(* no object, and without that they do not hold once a second core runs.   *)
(* No submission is lost with the slot it sits in: this one is proved for  *)
(* every machine.  What a second core breaks, jobs that stay in the hands  *)
(* of the core that claimed them, on the node they were pinned to and with *)
(* their resource, is proved for every machine with one core.              *)
(***************************************************************************)
EXTENDS JobDispatch, TLAPS

Labels == {"idle", "fill", "publish", "scan", "read", "assign", "bind", "deliver", "run", "release", "record",
           "destroy", "cas", "apply", "sweep", "cancel", "unassign"}
Submitting == {"fill", "publish"}
Claiming == {"assign", "bind", "deliver"}
Working == {"run", "release", "record", "destroy", "cas", "apply"}

TypeOK ==
    /\ machine \in Machines
    /\ used \in [Slots -> BOOLEAN] /\ handle \in [Slots -> 0 .. MaxJobs] /\ data \in [Slots -> JobData]
    /\ reserved \in 0 .. MaxJobs /\ lock \in Cores \cup {ANY} /\ done \in SUBSET Handles
    /\ made \in 0 .. MaxJobs /\ joined \in SUBSET Cores
    /\ pc \in [Cores -> Labels] /\ me \in [Cores -> Local]

(* Where a core is says what its locals are good for.                      *)
Place(l, r) ==
    /\ l \in {"fill", "publish", "read", "cas", "apply"} => r.slot \in Slots
    /\ l \in {"scan", "destroy"} => r.slot \in 1 .. JobPool + 1
    /\ l \in {"scan", "read"} => r.best \in 0 .. JobPool
    /\ l \in Claiming \cup {"cancel", "unassign"} => r.best \in Slots
    /\ l = "sweep" => r.best \in 1 .. JobPool + 1
    /\ l \in {"destroy", "cas"} /\ r.gone # ANY => r.best \in Slots
    /\ l \in {"run", "release", "record"} => r.id # 0 /\ r.gone = ANY
    /\ l \in Submitting => r.h # 0

Places == \A c \in Cores : Place(pc[c], me[c])

BaseInv == TypeOK /\ Places
-----------------------------------------------------------------------------
(* The machine's fields.                                                   *)
LEMMA MachineFields ==
    ASSUME TypeOK
    PROVE  /\ machine.preload \in Seq(JobSpec) /\ Len(machine.preload) <= JobPool /\ Len(machine.preload) <= MaxJobs
           /\ machine.later \subseteq JobSpec /\ machine.cores \subseteq Cores
           /\ machine.submitters \subseteq machine.cores
           /\ JobPool \in Nat /\ MaxJobs \in Nat /\ ANY \notin Cores
BY DispatchAssumption, Zenon DEF TypeOK, Machine

(* The numbers of g_job_storage's slots, up to one past the last.          *)
LEMMA SlotNumbers ==
    /\ 0 \in 0 .. JobPool + 1 /\ \A s \in Slots : s # 0 /\ s \in Nat /\ 1 <= s
    /\ \A s \in 0 .. JobPool : s # 0 => s \in Slots
    /\ \A s \in 1 .. JobPool + 1, t \in Slots : s <= t => s \in Slots /\ (s # t => s + 1 <= t)
<1>1. JobPool \in Nat
  BY DispatchAssumption, Zenon
<1> QED
  BY <1>1 DEF Slots

(* The numbers of the submissions, which are their handles.                *)
LEMMA Counts ==
    /\ \A k \in 0 .. MaxJobs : k \in Nat /\ 0 <= k /\ k <= k
    /\ 0 \in 0 .. MaxJobs
    /\ \A k, m \in Nat : (k <= m => k <= m + 1 /\ k < m + 1) /\ (k < m => k <= m /\ k # m)
<1>1. MaxJobs \in Nat
  BY DispatchAssumption, Zenon
<1> QED
  BY <1>1

(* A step of one core that puts it where its locals are good.              *)
LEMMA PlaceStep ==
    ASSUME BaseInv, NEW c \in Cores, NEW l \in Labels, NEW r \in Local, Place(l, r), Goto(c, l), Set(c, r)
    PROVE  pc' \in [Cores -> Labels] /\ me' \in [Cores -> Local] /\ Places'
BY Zenon DEF BaseInv, TypeOK, Goto, Set, Places

(* No core writes outside the slots, and none acts on a slot or a handle   *)
(* it has not got.                                                         *)
LEMMA BaseInit == Init => BaseInv
<1> SUFFICES ASSUME Init PROVE BaseInv
  BY Zenon
<1>1. machine.preload \in Seq(JobSpec) /\ Len(machine.preload) <= JobPool /\ Len(machine.preload) <= MaxJobs
      /\ JobPool \in Nat /\ MaxJobs \in Nat /\ machine.cores \subseteq Cores
  BY DispatchAssumption, Zenon DEF Init, Machine
<1>2. Len(machine.preload) \in Nat /\ \A s \in 1 .. Len(machine.preload) : machine.preload[s] \in JobSpec
  BY <1>1
<1>3. Idle \in Local /\ Place("idle", Idle)
  BY <1>1 DEF Idle, Local, Place, Claiming, Submitting
<1>4. \A h \in 0 .. MaxJobs, sp \in JobSpec : fresh(h, sp) \in JobData
  BY Zenon DEF fresh, JobData
<1>5. \A s \in Slots : (IF s <= Len(Preload) THEN fresh(s, Preload[s]) ELSE fresh(0, NoSpec)) \in JobData
  <2> SUFFICES ASSUME NEW s \in Slots
               PROVE  (IF s <= Len(Preload) THEN fresh(s, Preload[s]) ELSE fresh(0, NoSpec)) \in JobData
    BY Zenon
  <2>1. CASE s <= Len(Preload)
    <3>1. s \in 1 .. Len(Preload) /\ s \in 0 .. MaxJobs
      BY <1>1, <1>2, <2>1 DEF Slots, Preload
    <3> QED
      BY <1>2, <1>4, <2>1, <3>1, Zenon DEF Preload
  <2>2. CASE ~ (s <= Len(Preload))
    <3>1. NoSpec \in JobSpec /\ 0 \in 0 .. MaxJobs
      BY <1>1 DEF NoSpec, JobSpec
    <3> QED
      BY <1>4, <2>2, <3>1, Zenon
  <2> QED
    BY <2>1, <2>2, Zenon
<1>6. data \in [Slots -> JobData]
  BY <1>5, Zenon DEF Init
<1>7. used \in [Slots -> BOOLEAN] /\ handle \in [Slots -> 0 .. MaxJobs]
  BY <1>1, <1>2 DEF Init, Slots, Preload
<1>8. pc \in [Cores -> Labels] /\ me \in [Cores -> Local] /\ Places
  BY <1>3, Zenon DEF Init, Labels, Places
<1> QED
  BY <1>1, <1>2, <1>6, <1>7, <1>8 DEF BaseInv, TypeOK, Init, Preload

(* Every step keeps types and places: the handlers of the scheduler never  *)
(* step outside the job slots, whatever the other cores do.                *)
LEMMA BaseStep == BaseInv /\ [Next]_vars => BaseInv'
<1> SUFFICES ASSUME BaseInv, [Next]_vars PROVE BaseInv'
  BY Zenon
<1>0. CASE UNCHANGED vars
  BY <1>0, Zenon DEF vars, BaseInv, TypeOK, Places
<1> SUFFICES ASSUME NEW c \in Cores,
                    GetNextJob(c) \/ Finish(c) \/ ReportLookup(c) \/ ReportApply(c) \/ Submit(c) \/ Leave(c)
             PROVE  BaseInv'
  BY <1>0, Zenon DEF Next
<1> USE DEF BaseInv
<1>1. /\ JobPool \in Nat /\ MaxJobs \in Nat /\ ANY \notin Cores
      /\ machine.later \subseteq JobSpec /\ machine.cores \subseteq Cores
  BY MachineFields, Zenon
<1>2. pc[c] \in Labels /\ me[c] \in Local /\ Place(pc[c], me[c])
  BY Zenon DEF TypeOK, Places
<1>3. Idle \in Local /\ Place("idle", Idle)
  BY <1>1 DEF Idle, Local, Place, Claiming, Submitting
<1>3a. Idle.best = 0 /\ Idle.gone = ANY
  BY Zenon DEF Idle
<1> DEFINE Moves(l, r) == l \in Labels /\ r \in Local /\ Place(l, r) /\ Goto(c, l) /\ Set(c, r)
<1> DEFINE Shared == /\ machine' \in Machines
                     /\ used' \in [Slots -> BOOLEAN] /\ handle' \in [Slots -> 0 .. MaxJobs]
                     /\ data' \in [Slots -> JobData]
                     /\ reserved' \in 0 .. MaxJobs /\ lock' \in Cores \cup {ANY} /\ done' \in SUBSET Handles
                     /\ made' \in 0 .. MaxJobs /\ joined' \in SUBSET Cores
<1>4. ASSUME NEW l, NEW r, Moves(l, r), Shared PROVE BaseInv'
  <2>1. pc' \in [Cores -> Labels] /\ me' \in [Cores -> Local] /\ Places'
    BY <1>4, PlaceStep, Zenon
  <2> QED
    BY <1>4, <2>1, Zenon DEF TypeOK
<1>5. ASSUME NEW l, NEW r, Moves(l, r), UNCHANGED <<slotVars, reserved, lock, done, made, joined, machine>>
      PROVE  BaseInv'
  <2>1. Shared
    BY <1>5, SMT DEF slotVars, TypeOK
  <2> QED
    BY <1>4, <1>5, <2>1, Zenon
<1> HIDE DEF Moves, Shared
<1>6. CASE StartScan(c)
  <2> DEFINE r == [Idle EXCEPT !.slot = 1]
  <2>0. r \in Local /\ r.slot = 1 /\ r.best = 0
    BY <1>1, <1>3, <1>3a DEF Local
  <2>1. Moves("scan", r)
    BY <1>1, <1>6, <2>0 DEF Moves, StartScan, Place, Labels, Claiming, Submitting
  <2> QED
    BY <1>5, <1>6, <2>1, Zenon DEF StartScan
<1>7. CASE ScanSlot(c)
  <2>1. CASE used[me[c].slot]
    <3>1. handle[me[c].slot] \in 0 .. MaxJobs
      BY <1>7, Zenon DEF ScanSlot, TypeOK
    <3>2. Moves("read", [me[c] EXCEPT !.h = handle[me[c].slot]])
      BY <1>1, <1>2, <1>7, <2>1, <3>1, Zenon DEF Moves, ScanSlot, Local, Place, Labels, Claiming, Submitting
    <3> QED
      BY <1>5, <1>7, <3>2, Zenon DEF ScanSlot
  <2>2. CASE ~ used[me[c].slot]
    <3> DEFINE r == [me[c] EXCEPT !.slot = @ + 1]
    <3>a. me[c].slot \in Slots /\ me[c].slot + 1 \in 1 .. JobPool + 1 /\ me[c].slot + 1 \in 0 .. JobPool + 1
      BY <1>1, <1>7 DEF ScanSlot, Slots
    <3>b. r \in Local /\ r.slot = me[c].slot + 1 /\ r.best = me[c].best
      BY <1>2, <3>a, Zenon DEF Local
    <3>c. Goto(c, "scan")
      BY <1>7, <2>2, Zenon DEF ScanSlot, Goto, TypeOK
    <3>1. Moves("scan", r)
      BY <1>2, <1>7, <2>2, <3>a, <3>b, <3>c, Zenon DEF Moves, ScanSlot, Place, Labels, Claiming, Submitting
    <3> QED
      BY <1>5, <1>7, <3>1, Zenon DEF ScanSlot
  <2> QED
    BY <2>1, <2>2, Zenon
<1>8. CASE ScanJob(c)
  <2> DEFINE next == [me[c] EXCEPT !.slot = @ + 1]
  <2> DEFINE found == [next EXCEPT !.best = me[c].slot, !.bestH = me[c].h]
  <2>a. me[c].slot \in Slots /\ me[c].slot + 1 \in 1 .. JobPool + 1 /\ me[c].slot + 1 \in 0 .. JobPool + 1
        /\ me[c].slot \in 0 .. JobPool
    BY <1>1, <1>2, <1>8 DEF ScanJob, Place, Slots
  <2>b. next \in Local /\ next.slot = me[c].slot + 1 /\ next.best = me[c].best
    BY <1>2, <2>a, Zenon DEF Local
  <2>c. found \in Local /\ found.slot = me[c].slot + 1 /\ found.best = me[c].slot
    BY <1>1, <1>2, <2>a, Zenon DEF Local
  <2>1. Place("scan", next) /\ Place("scan", found)
    BY <1>2, <1>8, <2>a, <2>b, <2>c, Zenon DEF ScanJob, Place, Claiming, Submitting
  <2> HIDE DEF next, found
  <2>2. Goto(c, "scan") /\ (Set(c, next) \/ Set(c, found))
    BY <1>8, Zenon DEF ScanJob, next, found
  <2>3. Moves("scan", next) \/ Moves("scan", found)
    BY <2>b, <2>c, <2>1, <2>2, Zenon DEF Moves, Labels
  <2> QED
    BY <1>5, <1>8, <2>3, Zenon DEF ScanJob
<1>9. CASE ScanClaim(c)
  <2>1. CASE me[c].best = 0 \/ data[me[c].best].dispatched
    <3>1. Moves("idle", Idle)
      BY <1>3, <1>9, <2>1, Zenon DEF Moves, ScanClaim, Labels
    <3> QED
      BY <1>5, <1>9, <2>1, <3>1, Zenon DEF ScanClaim, slotVars
  <2>2. CASE ~ (me[c].best = 0 \/ data[me[c].best].dispatched)
    <3>1. Moves("assign", me[c])
      BY <1>1, <1>2, <1>9, <2>2 DEF Moves, ScanClaim, Place, Labels, Claiming, Submitting, Set, TypeOK, Slots
    <3> DEFINE j == [data[me[c].best] EXCEPT !.dispatched = TRUE]
    <3>a. me[c].best \in Slots /\ data[me[c].best] \in JobData
      BY <1>1, <1>2, <1>9, <2>2 DEF ScanClaim, Place, TypeOK, Slots
    <3>b. j \in JobData
      BY <3>a, Zenon DEF JobData
    <3>2. data' = [data EXCEPT ![me[c].best] = j]
      BY <1>9, <2>2, Zenon DEF ScanClaim
    <3>3. Shared
      BY <1>9, <3>b, <3>2, Zenon DEF Shared, ScanClaim, TypeOK
    <3> QED
      BY <1>4, <3>1, <3>3, Zenon
  <2> QED
    BY <2>1, <2>2, Zenon
<1>10. CASE Assign(c)
  <2>1. Moves("bind", me[c])
    BY <1>1, <1>2, <1>10, Zenon DEF Moves, Assign, Place, Labels, Claiming, Submitting, Set, TypeOK
  <2>a. me[c].best \in Slots /\ data[me[c].best] \in JobData
    BY <1>2, <1>10, Zenon DEF Assign, Place, Claiming, TypeOK
  <2> DEFINE j == [data[me[c].best] EXCEPT !.assigned = IF @ = ANY THEN c ELSE @]
  <2>b. j \in JobData
    BY <2>a, Zenon DEF JobData
  <2>c. data' = [data EXCEPT ![me[c].best] = j]
    BY <1>10, Zenon DEF Assign
  <2> HIDE DEF j
  <2>d. data' \in [Slots -> JobData]
    BY <2>b, <2>c, Zenon DEF TypeOK
  <2>2. Shared
    BY <1>10, <2>d, Zenon DEF Shared, Assign, TypeOK
  <2> QED
    BY <1>4, <2>1, <2>2, Zenon
<1>11. CASE Bind(c)
  <2>1. Moves("deliver", me[c])
    BY <1>1, <1>2, <1>11, Zenon DEF Moves, Bind, Place, Labels, Claiming, Submitting, Set, TypeOK
  <2>a. me[c].best \in Slots /\ data[me[c].best] \in JobData /\ me[c].bestH \in 0 .. MaxJobs
    BY <1>2, <1>11, Zenon DEF Bind, Place, Claiming, TypeOK, Local
  <2> DEFINE j == [data[me[c].best] EXCEPT !.bound = TRUE]
  <2>b. j \in JobData
    BY <2>a, Zenon DEF JobData
  <2>c. \/ data' = [data EXCEPT ![me[c].best] = j] /\ reserved' = me[c].bestH
        \/ UNCHANGED <<reserved, data>>
    BY <1>11, Zenon DEF Bind
  <2>2. data' \in [Slots -> JobData] /\ reserved' \in 0 .. MaxJobs
    BY <2>a, <2>b, <2>c DEF TypeOK
  <2>3. Shared
    BY <1>11, <2>2, Zenon DEF Shared, Bind, TypeOK
  <2> QED
    BY <1>4, <2>1, <2>3, Zenon
<1>12. CASE Deliver(c)
  <2>1. data[me[c].best].job \in 0 .. MaxJobs
    BY <1>2, <1>12, Zenon DEF Deliver, Place, Claiming, TypeOK, JobData
  <2>2. CASE me[c].bestH = 0
    <3>1. Moves("idle", Idle)
      BY <1>3, <1>12, <2>2, Zenon DEF Moves, Deliver, Labels
    <3> QED
      BY <1>5, <1>12, <3>1, Zenon DEF Deliver
  <2>3. CASE me[c].bestH # 0
    <3> DEFINE r == [Idle EXCEPT !.id = me[c].bestH, !.work = data[me[c].best].job]
    <3>a. me[c].bestH \in 0 .. MaxJobs
      BY <1>2, Zenon DEF Local
    <3>b. r \in Local /\ r.id = me[c].bestH /\ r.gone = ANY
      BY <1>3, <1>3a, <2>1, <3>a, ZenonT(60) DEF Local
    <3>1. Moves("run", r)
      BY <1>12, <2>3, <3>b, Zenon DEF Moves, Deliver, Place, Labels, Claiming, Submitting
    <3> QED
      BY <1>5, <1>12, <3>1, Zenon DEF Deliver
  <2> QED
    BY <2>2, <2>3, Zenon
<1>13. CASE FinishLookup(c)
  <2>1. CASE Goto(c, "idle") /\ Set(c, Idle)
    <3>1. Moves("idle", Idle)
      BY <1>3, <2>1, Zenon DEF Moves, Labels
    <3> QED
      BY <1>5, <1>13, <3>1, Zenon DEF FinishLookup
  <2>2. ASSUME NEW s \in Found(me[c].id), Goto(c, "release"), Set(c, [me[c] EXCEPT !.bound = data[s].bound])
        PROVE  BaseInv'
    <3>1. data[s].bound \in BOOLEAN
      BY Zenon DEF Found, TypeOK, JobData
    <3>2. Moves("release", [me[c] EXCEPT !.bound = data[s].bound])
      BY <1>2, <1>13, <2>2, <3>1, Zenon DEF Moves, FinishLookup, Local, Place, Labels, Claiming, Submitting
    <3> QED
      BY <1>5, <1>13, <3>2, Zenon DEF FinishLookup
  <2> QED
    BY <1>13, <2>1, <2>2, Zenon DEF FinishLookup
<1>14. CASE FinishRelease(c)
  <2>1. Moves("record", me[c])
    BY <1>2, <1>14, Zenon DEF Moves, FinishRelease, Place, Labels, Claiming, Submitting, Set, TypeOK
  <2>2. Shared
    BY <1>1, <1>14 DEF Shared, FinishRelease, slotVars, TypeOK
  <2> QED
    BY <1>4, <2>1, <2>2, Zenon
<1>15. CASE FinishRecord(c)
  <2> DEFINE r == [me[c] EXCEPT !.slot = 1, !.h = me[c].id]
  <2>a. 1 \in 0 .. JobPool + 1 /\ 1 \in 1 .. JobPool + 1
    BY <1>1
  <2>b. r \in Local /\ r.slot = 1 /\ r.gone = me[c].gone
    BY <1>2, <2>a, Zenon DEF Local
  <2>1. Moves("destroy", r)
    BY <1>2, <1>15, <2>a, <2>b, Zenon DEF Moves, FinishRecord, Place, Labels, Claiming, Submitting
  <2>2. me[c].id \in Handles
    BY <1>1, <1>2, <1>15 DEF FinishRecord, Local, Place, Handles
  <2>3. Shared
    BY <1>15, <2>2, Zenon DEF Shared, FinishRecord, slotVars, TypeOK
  <2> QED
    BY <1>4, <2>1, <2>3, Zenon
<1>16. ASSUME DestroyReturn(c), me[c].gone # ANY => me[c].best \in Slots
       PROVE  \E l, r : Moves(l, r)
  <2>1. CASE me[c].gone = ANY
    BY <1>3, <1>16, <2>1, Zenon DEF DestroyReturn, Moves, Labels
  <2>2. CASE me[c].gone # ANY
    <3> DEFINE r == [me[c] EXCEPT !.slot = 0, !.h = 0, !.bound = FALSE, !.best = @ + 1]
    <3>1. me[c].best + 1 \in 1 .. JobPool + 1 /\ me[c].best + 1 \in 0 .. JobPool + 1 /\ 0 \in 0 .. JobPool + 1
          /\ 0 \in 0 .. MaxJobs
      BY <1>1, <1>16, <2>2 DEF Slots
    <3>2. r \in Local /\ r.best = me[c].best + 1
      BY <1>2, <3>1, Zenon DEF Local
    <3>3. Place("sweep", r)
      BY <3>1, <3>2, Zenon DEF Place, Claiming, Submitting
    <3> QED
      BY <1>16, <2>2, <3>2, <3>3, Zenon DEF DestroyReturn, Moves, Labels
  <2> QED
    BY <2>1, <2>2, Zenon
<1>17. ASSUME pc[c] \in {"destroy", "cas"}, me[c].slot \in Slots, Goto(c, "destroy"),
              Set(c, [me[c] EXCEPT !.slot = @ + 1])
       PROVE  \E l, r : Moves(l, r)
  <2> DEFINE r == [me[c] EXCEPT !.slot = @ + 1]
  <2>1. me[c].slot + 1 \in 1 .. JobPool + 1 /\ me[c].slot + 1 \in 0 .. JobPool + 1
    BY <1>1, <1>17 DEF Slots
  <2>2. r \in Local /\ r.slot = me[c].slot + 1 /\ r.best = me[c].best /\ r.gone = me[c].gone
    BY <1>2, <2>1, Zenon DEF Local
  <2>3. Moves("destroy", r)
    BY <1>2, <1>17, <2>1, <2>2, Zenon DEF Moves, Place, Labels, Claiming, Submitting
  <2> QED
    BY <2>3, Zenon
<1>18. CASE DestroyFind(c)
  <2>1. CASE me[c].slot \notin Slots
    BY <1>2, <1>5, <1>16, <1>18, <2>1, Zenon DEF DestroyFind, Place
  <2>2. CASE me[c].slot \in Slots /\ me[c].slot \in Found(me[c].h)
    <3>1. Moves("cas", me[c])
      BY <1>2, <1>18, <2>2, Zenon DEF Moves, DestroyFind, Place, Labels, Claiming, Submitting, Set, TypeOK
    <3> QED
      BY <1>5, <1>18, <3>1, Zenon DEF DestroyFind
  <2>3. CASE me[c].slot \in Slots /\ me[c].slot \notin Found(me[c].h)
    <3>1. Goto(c, "destroy")
      BY <1>18, <2>3, Zenon DEF DestroyFind, Goto, TypeOK
    <3> QED
      BY <1>5, <1>17, <1>18, <2>3, <3>1, Zenon DEF DestroyFind
  <2> QED
    BY <2>1, <2>2, <2>3, Zenon
<1>19. CASE DestroyCas(c)
  <2>1. me[c].slot \in Slots /\ (me[c].gone # ANY => me[c].best \in Slots)
    BY <1>2, <1>19, Zenon DEF DestroyCas, Place
  <2>2. \E l, r : Moves(l, r)
    BY <1>16, <1>17, <1>19, <2>1, Zenon DEF DestroyCas
  <2>3. Shared
    BY <1>19, <2>1, Zenon DEF DestroyCas, Shared, TypeOK
  <2> QED
    BY <1>4, <2>2, <2>3, Zenon
<1>20. CASE ReportLookup(c)
  <2>1. CASE Goto(c, "idle") /\ Set(c, Idle) /\ UNCHANGED lock
    <3>1. Moves("idle", Idle)
      BY <1>3, <2>1, Zenon DEF Moves, Labels
    <3> QED
      BY <1>5, <1>20, <2>1, <3>1, Zenon DEF ReportLookup
  <2>2. ASSUME NEW s \in Found(me[c].id), lock' = c, Goto(c, "apply"), Set(c, [me[c] EXCEPT !.slot = s])
        PROVE  BaseInv'
    <3> DEFINE r == [me[c] EXCEPT !.slot = s]
    <3>1. s \in Slots /\ s \in 0 .. JobPool + 1
      BY <1>1 DEF Found, Slots
    <3>2. r \in Local /\ r.slot = s
      BY <1>2, <3>1, Zenon DEF Local
    <3>3. Moves("apply", r)
      BY <2>2, <3>1, <3>2, Zenon DEF Moves, Place, Labels, Claiming, Submitting
    <3>4. Shared
      BY <1>20, <2>2, Zenon DEF Shared, ReportLookup, slotVars, TypeOK
    <3> QED
      BY <1>4, <3>3, <3>4, Zenon
  <2> QED
    BY <1>20, <2>1, <2>2, Zenon DEF ReportLookup
<1>21. CASE ReportApply(c)
  <2>1. Moves("idle", Idle)
    BY <1>3, <1>21, Zenon DEF Moves, ReportApply, Labels
  <2> DEFINE j == [data[me[c].slot] EXCEPT !.dispatched = FALSE]
  <2>a. me[c].slot \in Slots /\ data[me[c].slot] \in JobData
    BY <1>2, <1>21, Zenon DEF ReportApply, Place, TypeOK
  <2>2. j \in JobData
    BY <2>a, Zenon DEF JobData
  <2>3. data' = [data EXCEPT ![me[c].slot] = j]
    BY <1>21, Zenon DEF ReportApply
  <2>4. Shared
    BY <1>21, <2>a, <2>2, <2>3, Zenon DEF Shared, ReportApply, TypeOK
  <2> QED
    BY <1>4, <2>1, <2>4, Zenon
<1>22. ASSUME NEW s \in Slots, SubmitClaim(c, s) PROVE BaseInv'
  <2> DEFINE r == [Idle EXCEPT !.slot = s, !.h = made + 1]
  <2>1. s \in 0 .. JobPool + 1 /\ made + 1 \in 0 .. MaxJobs /\ made + 1 # 0
    BY <1>1, <1>22 DEF SubmitClaim, TypeOK, Slots
  <2>2. r \in Local /\ r.slot = s /\ r.h = made + 1
    BY <1>3, <2>1, Zenon DEF Local
  <2>3. Moves("fill", r)
    BY <1>22, <2>1, <2>2, Zenon DEF Moves, SubmitClaim, Place, Labels, Claiming, Submitting
  <2>4. Shared
    BY <1>22, <2>1, Zenon DEF Shared, SubmitClaim, TypeOK
  <2> QED
    BY <1>4, <2>3, <2>4, Zenon
<1>23. ASSUME NEW spec \in machine.later, SubmitFill(c, spec) PROVE BaseInv'
  <2>1. Moves("publish", me[c])
    BY <1>2, <1>23, Zenon DEF Moves, SubmitFill, Place, Labels, Claiming, Submitting, Set, TypeOK
  <2>2. me[c].slot \in Slots /\ me[c].h \in 0 .. MaxJobs /\ spec \in JobSpec
    BY <1>1, <1>2, <1>23, Zenon DEF SubmitFill, Place, Local
  <2>3. fresh(me[c].h, spec) \in JobData
    BY <2>2, Zenon DEF fresh, JobData
  <2>4. Shared
    BY <1>23, <2>3, Zenon DEF Shared, SubmitFill, TypeOK
  <2> QED
    BY <1>4, <2>1, <2>4, Zenon
<1>24. CASE SubmitPublish(c)
  <2>1. Moves("idle", Idle)
    BY <1>3, <1>24, Zenon DEF Moves, SubmitPublish, Labels
  <2>2. me[c].slot \in Slots /\ me[c].h \in 0 .. MaxJobs
    BY <1>2, <1>24, Zenon DEF SubmitPublish, Place, Local
  <2>3. Shared
    BY <1>24, <2>2, Zenon DEF Shared, SubmitPublish, TypeOK
  <2> QED
    BY <1>4, <2>1, <2>3, Zenon
<1>25. ASSUME NEW n \in machine.leavers, LeaveNode(c, n) PROVE BaseInv'
  <2> DEFINE r == [Idle EXCEPT !.gone = n, !.best = 1]
  <2>1. n \in Cores /\ 1 \in 0 .. JobPool + 1 /\ 1 \in 1 .. JobPool + 1
    BY <1>1, <1>25 DEF LeaveNode, TypeOK
  <2>2. r \in Local /\ r.best = 1
    BY <1>3, <2>1, Zenon DEF Local
  <2>3. Moves("sweep", r)
    BY <1>25, <2>1, <2>2, Zenon DEF Moves, LeaveNode, Place, Labels, Claiming, Submitting
  <2>4. Shared
    BY <1>25, Zenon DEF Shared, LeaveNode, slotVars, TypeOK
  <2> QED
    BY <1>4, <2>3, <2>4, Zenon
<1>26. CASE SweepSlot(c)
  <2>0. me[c].best \in 1 .. JobPool + 1
    BY <1>2, <1>26, Zenon DEF SweepSlot, Place
  <2>1. CASE me[c].best \notin Slots
    <3>1. Moves("idle", Idle)
      BY <1>3, <1>26, <2>1, Zenon DEF Moves, SweepSlot, Labels
    <3> QED
      BY <1>5, <1>26, <3>1, Zenon DEF SweepSlot
  <2>2. CASE me[c].best \in Slots /\ (~ used[me[c].best] \/ ~ Touches(me[c].gone, data[me[c].best]))
    <3> DEFINE r == [me[c] EXCEPT !.best = me[c].best + 1]
    <3>1. me[c].best + 1 \in 1 .. JobPool + 1 /\ me[c].best + 1 \in 0 .. JobPool + 1
      BY <1>1, <2>2 DEF Slots
    <3>2. r \in Local /\ r.best = me[c].best + 1
      BY <1>2, <3>1, Zenon DEF Local
    <3>3. Goto(c, "sweep")
      BY <1>26, <2>2, Zenon DEF SweepSlot, Goto, TypeOK
    <3>4. Place("sweep", r)
      BY <3>1, <3>2, Zenon DEF Place, Claiming, Submitting
    <3>5. Moves("sweep", r)
      BY <1>26, <2>2, <3>2, <3>3, <3>4, Zenon DEF Moves, SweepSlot, Labels
    <3> QED
      BY <1>5, <1>26, <3>5, Zenon DEF SweepSlot
  <2>3. CASE me[c].best \in Slots /\ used[me[c].best] /\ Touches(me[c].gone, data[me[c].best])
    <3> DEFINE r == [me[c] EXCEPT !.h = handle[me[c].best], !.bound = data[me[c].best].bound]
    <3> DEFINE l == IF data[me[c].best].spec.affinity = me[c].gone THEN "cancel" ELSE "unassign"
    <3>1. handle[me[c].best] \in 0 .. MaxJobs /\ data[me[c].best].bound \in BOOLEAN
      BY <2>3, Zenon DEF TypeOK, JobData
    <3>2. r \in Local /\ r.best = me[c].best
      BY <1>2, <3>1, Zenon DEF Local
    <3>3. l \in Labels /\ Place(l, r)
      BY <2>3, <3>2, Zenon DEF Place, Claiming, Submitting, Labels
    <3>4. Goto(c, l) /\ Set(c, r)
      BY <1>26, <2>3, Zenon DEF SweepSlot
    <3>5. Moves(l, r)
      BY <3>2, <3>3, <3>4, Zenon DEF Moves
    <3> QED
      BY <1>5, <1>26, <3>5, Zenon DEF SweepSlot
  <2> QED
    BY <2>1, <2>2, <2>3, Zenon
<1>27. CASE SweepCancel(c)
  <2> DEFINE r == [me[c] EXCEPT !.slot = 1]
  <2>1. 1 \in 0 .. JobPool + 1 /\ 1 \in 1 .. JobPool + 1 /\ me[c].best \in Slots
    BY <1>1, <1>2, <1>27 DEF SweepCancel, Place
  <2>2. r \in Local /\ r.slot = 1 /\ r.best = me[c].best
    BY <1>2, <2>1, Zenon DEF Local
  <2>3. Moves("destroy", r)
    BY <1>27, <2>1, <2>2, Zenon DEF Moves, SweepCancel, Place, Labels, Claiming, Submitting
  <2>4. Shared
    BY <1>1, <1>27 DEF Shared, SweepCancel, slotVars, TypeOK
  <2> QED
    BY <1>4, <2>3, <2>4, Zenon
<1>28. CASE SweepUnassign(c)
  <2> DEFINE r == [me[c] EXCEPT !.best = @ + 1, !.h = 0, !.bound = FALSE]
  <2>1. me[c].best \in Slots /\ me[c].best + 1 \in 0 .. JobPool + 1 /\ me[c].best + 1 \in 1 .. JobPool + 1
        /\ 0 \in 0 .. MaxJobs
    BY <1>1, <1>2, <1>28 DEF SweepUnassign, Place, Slots
  <2>2. r \in Local /\ r.best = me[c].best + 1
    BY <1>2, <2>1, Zenon DEF Local
  <2>3. Moves("sweep", r)
    BY <1>28, <2>1, <2>2, Zenon DEF Moves, SweepUnassign, Place, Labels, Claiming, Submitting
  <2> DEFINE j == [data[me[c].best] EXCEPT !.assigned = ANY]
  <2>4. j \in JobData /\ data' = [data EXCEPT ![me[c].best] = j]
    <3>1. data[me[c].best] \in JobData /\ data' = [data EXCEPT ![me[c].best] = j]
      BY <1>28, <2>1, Zenon DEF SweepUnassign, TypeOK
    <3> QED  BY <3>1, Zenon DEF JobData
  <2>5. Shared
    BY <1>28, <2>4, Zenon DEF Shared, SweepUnassign, TypeOK
  <2> QED
    BY <1>4, <2>3, <2>5, Zenon
<1> QED
  BY <1>6, <1>7, <1>8, <1>9, <1>10, <1>11, <1>12, <1>13, <1>14, <1>15, <1>18, <1>19, <1>20, <1>21, <1>22,
     <1>23, <1>24, <1>25, <1>26, <1>27, <1>28, Zenon DEF GetNextJob, Finish, Submit, Leave
-----------------------------------------------------------------------------
(* No node leaves and the factory refuses no object: a slot is freed only  *)
(* by the report of the core that ran its job.                             *)
Settled == machine.leavers = {} /\ ~ machine.factoryFails

Submitters == {c \in Cores : pc[c] \in Submitting}

(* The cores that have, or are about to get, the job of a slot.            *)
Holders ==
    [s \in Slots |-> {c \in Cores : \/ pc[c] \in Claiming /\ me[c].best = s /\ me[c].bestH # 0
                                    \/ pc[c] \in Working /\ me[c].work = data[s].job}]

Fillers == [s \in Slots |-> {c \in Cores : pc[c] = "fill" /\ me[c].slot = s}]

(* The handles that no slot but s carries, now or ever.                    *)
Homes ==
    [s \in Slots |-> {h \in 1 .. made : /\ handle[s] # 0
                                        /\ \A t \in Slots : h \in {handle[t], data[t].job} => t = s
                                        /\ \A c \in Submitters : me[c].h # h}]

(* A handle, published or noted in a job's data, names one slot.           *)
HandlesSound ==
    /\ \A s \in Slots : handle[s] <= made /\ data[s].job <= made /\ (handle[s] # 0 => data[s].job # 0)
    /\ \A s, t \in Slots : handle[s] # 0 /\ handle[s] \in {handle[t], data[t].job} => s = t
    /\ \A s, t \in Slots : data[s].job # 0 /\ data[s].job = data[t].job => s = t

(* A submitter's handle is nobody else's, and it shares its slot only with *)
(* one that is about to publish over a handle already there.               *)
SubmitsSound ==
    /\ \A c \in Submitters :
          /\ me[c].h <= made
          /\ \A s \in Slots : handle[s] # me[c].h /\ (data[s].job = me[c].h => pc[c] = "publish" /\ s = me[c].slot)
          /\ \A d \in Submitters : me[d].h = me[c].h => d = c
          /\ pc[c] = "publish" => data[me[c].slot].job # 0
          /\ pc[c] = "fill" \/ handle[me[c].slot] = 0 => used[me[c].slot]
    /\ \A c, d \in Submitters :
          pc[c] = "fill" /\ me[c].slot = me[d].slot => c = d \/ (pc[d] = "publish" /\ handle[me[c].slot] # 0)

(* What a core remembers of a slot is still so.                            *)
ScanSound(c) ==
    /\ pc[c] \notin Working => me[c].work = 0
    /\ me[c].gone = ANY /\ pc[c] \notin {"sweep", "cancel", "unassign"}
    /\ pc[c] = "read" /\ me[c].h # 0 => me[c].h \in Homes[me[c].slot]
    /\ pc[c] \in {"scan", "read"} \cup Claiming /\ me[c].bestH # 0
          => me[c].best \in Slots /\ me[c].bestH \in Homes[me[c].best]
    /\ pc[c] \in Working => me[c].work # 0 /\ \E s \in Slots : c \in Holders[s] /\ me[c].id \in Homes[s]
    /\ pc[c] \in {"destroy", "cas"} => me[c].h = me[c].id
    /\ pc[c] \in {"cas", "apply"} => c \in Holders[me[c].slot]

ScansSound == \A c \in Cores : ScanSound(c)

(* One core at a time has a slot's job, and what may not be dispatched, a  *)
(* slot that is free or being filled, says it is already.                  *)
HoldersSound ==
    \A s \in Slots :
        /\ \A c \in Holders[s] : /\ used[s] /\ handle[s] # 0 /\ data[s].dispatched /\ Fillers[s] = {}
                                 /\ Holders[s] = {c}
        /\ handle[s] # 0 /\ (~ used[s] \/ Fillers[s] # {}) => data[s].dispatched

(* A completed job is in no core's hands but its reporter's.               *)
DoneSound ==
    /\ done \subseteq 1 .. made
    /\ \A c \in Submitters : me[c].h \notin done
    /\ \A s \in Slots : data[s].job \in done =>
          data[s].dispatched /\ \A c \in Holders[s] : pc[c] \in {"destroy", "cas"}

SettledInv == HandlesSound /\ SubmitsSound /\ ScansSound /\ HoldersSound /\ DoneSound
-----------------------------------------------------------------------------
(* The other cores stay where they are.                                    *)
Only(c) == \A d \in Cores \ {c} : pc'[d] = pc[d] /\ me'[d] = me[d]

(* A core that moves, moves alone.                                         *)
LEMMA Moved ==
    ASSUME BaseInv, NEW c \in Cores, NEW l, NEW r, Goto(c, l), Set(c, r)
    PROVE  pc'[c] = l /\ me'[c] = r /\ Only(c)
BY Zenon DEF BaseInv, TypeOK, Goto, Set, Only

(* A handle at home stays at home: create_job_object brings only handles   *)
(* that are new.                                                           *)
LEMMA HomesKept ==
    ASSUME BaseInv, BaseInv', NEW c \in Cores, Only(c), made <= made',
           \A t \in Slots : handle'[t] = handle[t] \/ (c \in Submitters /\ handle'[t] = me[c].h),
           \A t \in Slots : data'[t].job = data[t].job \/ (c \in Submitters /\ data'[t].job = me[c].h),
           c \in Submitters' => me'[c].h > made \/ (c \in Submitters /\ me'[c].h = me[c].h)
    PROVE  \A s \in Slots : Homes[s] \subseteq Homes'[s]
<1> SUFFICES ASSUME NEW s \in Slots, NEW h \in Homes[s] PROVE h \in Homes'[s]
  BY Zenon
<1>1. /\ h \in 1 .. made /\ handle[s] # 0
      /\ \A t \in Slots : h \in {handle[t], data[t].job} => t = s
      /\ \A d \in Submitters : me[d].h # h
  BY Zenon DEF Homes
<1>2. h \in 1 .. made'
  BY <1>1 DEF BaseInv, TypeOK
<1>3. handle'[s] # 0
  BY <1>1, Zenon DEF BaseInv, Places, Place, Submitters
<1>4. \A t \in Slots : h \in {handle'[t], data'[t].job} => t = s
  BY <1>1, Zenon
<1>5. ASSUME NEW d \in Submitters' PROVE me'[d].h # h
  <2>1. CASE d = c
    BY <1>1, <1>5, <2>1 DEF BaseInv, TypeOK
  <2>2. CASE d # c
    BY <1>1, <1>5, <2>2, Zenon DEF Submitters, Only
  <2> QED
    BY <2>1, <2>2, Zenon
<1> QED
  BY <1>2, <1>3, <1>4, <1>5, Zenon DEF Homes

(* What a core remembers stays so as long as it does not move, handles stay*)
(* at home and the core keeps what it holds.                               *)
LEMMA ScanKept ==
    ASSUME BaseInv, NEW d \in Cores, ScanSound(d), pc'[d] = pc[d], me'[d] = me[d],
           \A s \in Slots : Homes[s] \subseteq Homes'[s],
           \A s \in Slots : d \in Holders[s] => d \in Holders'[s]
    PROVE  ScanSound(d)'
<1>1. Place(pc[d], me[d])
  BY Zenon DEF BaseInv, Places
<1> QED
  BY <1>1, Zenon DEF ScanSound, Place

(* Most steps of the scheduler change neither a slot's handle nor its job  *)
(* nor its claim: a core that takes one may at most stop to hold a slot.   *)
LEMMA LocalStep ==
    ASSUME BaseInv, BaseInv', SettledInv, NEW c \in Cores, Only(c), UNCHANGED <<used, handle, made, done>>,
           \A s \in Slots : data'[s].job = data[s].job /\ data'[s].dispatched = data[s].dispatched,
           c \notin Submitters, c \notin Submitters',
           \A s \in Slots : c \in Holders'[s] => c \in Holders[s] /\ (pc[c] \in {"destroy", "cas"} => pc'[c] \in {"destroy", "cas"}),
           (\A s \in Slots : Homes[s] \subseteq Homes'[s]) => ScanSound(c)'
    PROVE  SettledInv'
<1>0. made \in Nat /\ \A s \in Slots : handle'[s] = handle[s] /\ used'[s] = used[s]
  BY DEF BaseInv, TypeOK
<1>1. Submitters' = Submitters /\ \A d \in Submitters : pc'[d] = pc[d] /\ me'[d] = me[d]
  BY Zenon DEF Submitters, Only
<1>2. \A s \in Slots : Homes[s] \subseteq Homes'[s]
  BY <1>0, HomesKept
<1>3. \A s \in Slots, d \in Cores \ {c} : d \in Holders'[s] <=> d \in Holders[s]
  BY DEF Holders, Only
<1>4. \A s \in Slots : Holders'[s] \subseteq Holders[s]
  BY <1>3 DEF Holders
<1>5. \A s \in Slots : Fillers'[s] = Fillers[s]
  BY <1>1 DEF Fillers, Submitters, Submitting, Only
<1>6. HandlesSound'
  BY <1>0 DEF SettledInv, HandlesSound
<1>7. SubmitsSound'
  <2>1. \A d \in Submitters : me[d].slot \in Slots
    BY Zenon DEF Submitters, BaseInv, Places, Place, Submitting
  <2> QED
    BY <1>0, <1>1, <2>1 DEF SettledInv, SubmitsSound
<1>8. ScansSound'
  BY <1>2, <1>3, ScanKept, Zenon DEF SettledInv, ScansSound, Only
<1>9. HoldersSound'
  BY <1>0, <1>4, <1>5 DEF SettledInv, HoldersSound
<1>10. DoneSound'
  <2>1. \A s \in Slots : \A d \in Holders'[s] : d \in Cores
    BY Zenon DEF Holders
  <2>2. ASSUME NEW s \in Slots, data'[s].job \in done', NEW d \in Holders'[s] PROVE pc'[d] \in {"destroy", "cas"}
    BY <1>4, <2>1, <2>2, ZenonT(60) DEF SettledInv, DoneSound, Only
  <2> QED
    BY <1>0, <1>1, <2>2, Zenon DEF SettledInv, DoneSound
<1> QED
  BY <1>6, <1>7, <1>8, <1>9, <1>10, Zenon DEF SettledInv

(* pick_next_for_node's pass over the slots, up to its compare-and-swap:   *)
(* the candidate's handle is at home in the candidate's slot.              *)
LEMMA ScanSteps ==
    ASSUME BaseInv, BaseInv', SettledInv, NEW c \in Cores, StartScan(c) \/ ScanSlot(c) \/ ScanJob(c)
    PROVE  SettledInv'
<1>0. ScanSound(c) /\ pc[c] \in Labels /\ me[c] \in Local /\ Place(pc[c], me[c])
  BY Zenon DEF SettledInv, ScansSound, BaseInv, TypeOK, Places
<1>1. ASSUME UNCHANGED <<slotVars, reserved, lock, done, made, joined, machine>>, Only(c), pc[c] \in {"idle", "scan", "read"},
             pc'[c] \in {"idle", "scan", "read"}, (\A s \in Slots : Homes[s] \subseteq Homes'[s]) => ScanSound(c)'
      PROVE  SettledInv'
  <2>1. c \notin Submitters /\ c \notin Submitters' /\ \A s \in Slots : c \notin Holders'[s]
    BY <1>1, Zenon DEF Submitters, Submitting, Holders, Claiming, Working
  <2> QED
    BY <1>1, <2>1, LocalStep, Zenon DEF slotVars
<1>2. CASE StartScan(c)
  <2> DEFINE r == [Idle EXCEPT !.slot = 1]
  <2>1. pc'[c] = "scan" /\ me'[c] = r /\ Only(c)
    BY <1>2, Moved, Zenon DEF StartScan
  <2>2. r.work = 0 /\ r.gone = ANY /\ r.bestH = 0
    BY Zenon DEF Idle
  <2>3. ScanSound(c)'
    BY <2>1, <2>2, Zenon DEF ScanSound, Working, Claiming
  <2> QED
    BY <1>1, <1>2, <2>1, <2>3, Zenon DEF StartScan
<1>3. CASE ScanSlot(c)
  <2>0. me[c].slot \in Slots /\ me[c].work = 0 /\ me[c].gone = ANY
    BY <1>0, <1>3, Zenon DEF ScanSlot, ScanSound, Working
  <2>1. CASE used[me[c].slot]
    <3> DEFINE r == [me[c] EXCEPT !.h = handle[me[c].slot]]
    <3>1. pc'[c] = "read" /\ me'[c] = r /\ Only(c)
      BY <1>3, <2>1, Moved, Zenon DEF ScanSlot
    <3>2. r.work = 0 /\ r.gone = ANY /\ r.best = me[c].best /\ r.bestH = me[c].bestH /\ r.slot = me[c].slot
          /\ r.h = handle[me[c].slot]
      BY <1>0, <2>0, Zenon DEF Local
    <3>3. handle[me[c].slot] # 0 => handle[me[c].slot] \in Homes[me[c].slot]
      <4> SUFFICES ASSUME handle[me[c].slot] # 0 PROVE handle[me[c].slot] \in Homes[me[c].slot]
        BY Zenon
      <4>1. handle[me[c].slot] \in 1 .. made
        BY <2>0 DEF SettledInv, HandlesSound, BaseInv, TypeOK
      <4>2. \A d \in Submitters : \A s \in Slots : handle[s] # me[d].h
        BY Zenon DEF SettledInv, SubmitsSound
      <4>3. \A t \in Slots : handle[me[c].slot] \in {handle[t], data[t].job} => t = me[c].slot
        BY <2>0, Zenon DEF SettledInv, HandlesSound
      <4> QED
        BY <2>0, <4>1, <4>2, <4>3, Zenon DEF Homes
    <3>4. (\A s \in Slots : Homes[s] \subseteq Homes'[s]) => ScanSound(c)'
      BY <1>0, <1>3, <2>0, <3>1, <3>2, <3>3, Zenon DEF ScanSlot, ScanSound, Working, Claiming
    <3> QED
      BY <1>1, <1>3, <3>1, <3>4, Zenon DEF ScanSlot
  <2>2. CASE ~ used[me[c].slot]
    <3> DEFINE r == [me[c] EXCEPT !.slot = @ + 1]
    <3>1. Goto(c, "scan") /\ Set(c, r)
      BY <1>3, <2>2, Zenon DEF ScanSlot, Goto, BaseInv, TypeOK
    <3>2. pc'[c] = "scan" /\ me'[c] = r /\ Only(c)
      BY <3>1, Moved, Zenon
    <3>3. r.work = 0 /\ r.gone = ANY /\ r.best = me[c].best /\ r.bestH = me[c].bestH
      BY <1>0, <2>0, Zenon DEF Local
    <3>4. (\A s \in Slots : Homes[s] \subseteq Homes'[s]) => ScanSound(c)'
      BY <1>0, <1>3, <2>0, <3>2, <3>3, Zenon DEF ScanSlot, ScanSound, Working, Claiming
    <3> QED
      BY <1>1, <1>3, <3>2, <3>4, Zenon DEF ScanSlot
  <2> QED
    BY <2>1, <2>2, Zenon
<1>4. CASE ScanJob(c)
  <2> DEFINE next == [me[c] EXCEPT !.slot = @ + 1]
             found == [next EXCEPT !.best = me[c].slot, !.bestH = me[c].h]
  <2>0. pc[c] = "read" /\ me[c].slot \in Slots /\ me[c].work = 0 /\ me[c].gone = ANY
    BY <1>0, <1>4, Zenon DEF ScanJob, ScanSound, Place, Working
  <2>1. /\ next.work = 0 /\ next.gone = ANY /\ next.best = me[c].best /\ next.bestH = me[c].bestH
        /\ found.work = 0 /\ found.gone = ANY /\ found.best = me[c].slot /\ found.bestH = me[c].h
    BY <1>0, <2>0, Zenon DEF Local
  <2> HIDE DEF next, found
  <2>2. Goto(c, "scan") /\ (Set(c, next) \/ Set(c, found))
    BY <1>4, Zenon DEF ScanJob, next, found
  <2>3. pc'[c] = "scan" /\ me'[c] \in {next, found} /\ Only(c)
    BY <2>2, Moved, Zenon
  <2>4. (\A s \in Slots : Homes[s] \subseteq Homes'[s]) => ScanSound(c)'
    BY <1>0, <2>0, <2>1, <2>3, Zenon DEF ScanSound, Working, Claiming
  <2> QED
    BY <1>1, <1>4, <2>0, <2>3, <2>4, Zenon DEF ScanJob
<1> QED
  BY <1>2, <1>3, <1>4, Zenon

(* A claim's remaining steps and a report's: the core keeps the slot it    *)
(* holds until it is done with it.                                         *)
LEMMA WorkSteps ==
    ASSUME BaseInv, BaseInv', SettledInv, NEW c \in Cores,
           Assign(c) \/ Bind(c) \/ Deliver(c) \/ FinishLookup(c) \/ FinishRelease(c) \/ DestroyFind(c) \/ ReportLookup(c)
    PROVE  SettledInv'
<1>0. ScanSound(c) /\ pc[c] \in Labels /\ me[c] \in Local /\ Place(pc[c], me[c])
  BY Zenon DEF SettledInv, ScansSound, BaseInv, TypeOK, Places
<1>a. \A s \in Slots : c \in Holders[s] <=> \/ pc[c] \in Claiming /\ me[c].best = s /\ me[c].bestH # 0
                                            \/ pc[c] \in Working /\ me[c].work = data[s].job
  BY Zenon DEF Holders
<1>b. \A s \in Slots : c \in Holders'[s] <=> \/ pc'[c] \in Claiming /\ me'[c].best = s /\ me'[c].bestH # 0
                                             \/ pc'[c] \in Working /\ me'[c].work = data'[s].job
  BY Zenon DEF Holders
<1> DEFINE Same == /\ UNCHANGED <<used, handle, made, done>>
                   /\ \A s \in Slots : data'[s].job = data[s].job /\ data'[s].dispatched = data[s].dispatched
<1>1. ASSUME Same, Only(c), pc'[c] = "idle", me'[c] = Idle, pc[c] \notin Submitting PROVE SettledInv'
  <2>1. Idle.work = 0 /\ Idle.gone = ANY
    BY Zenon DEF Idle
  <2>2. ScanSound(c)' /\ c \notin Submitters /\ c \notin Submitters' /\ \A s \in Slots : c \notin Holders'[s]
    BY <1>1, <1>b, <2>1, Zenon DEF ScanSound, Working, Claiming, Submitters, Submitting
  <2> QED
    BY <1>1, <2>2, LocalStep, Zenon
<1>2. CASE Assign(c) \/ Bind(c)
  <2>a. pc[c] \in Claiming /\ pc'[c] \in Claiming /\ me'[c] = me[c] /\ Only(c)
    BY <1>2, Zenon DEF Assign, Bind, Claiming, Goto, Only, BaseInv, TypeOK
  <2>b. me[c].best \in Slots /\ data[me[c].best] \in JobData
    BY <1>0, <2>a, Zenon DEF Place, BaseInv, TypeOK
  <2>c. \E a, b : data' = [data EXCEPT ![me[c].best] = [data[me[c].best] EXCEPT !.assigned = a, !.bound = b]]
    <3>1. CASE Assign(c)
      <4> DEFINE a == IF data[me[c].best].assigned = ANY THEN c ELSE data[me[c].best].assigned
      <4>1. [data[me[c].best] EXCEPT !.assigned = a, !.bound = data[me[c].best].bound] = [data[me[c].best] EXCEPT !.assigned = a]
        BY <2>b, Zenon DEF JobData
      <4> QED
        BY <3>1, <4>1, Zenon DEF Assign
    <3>2. CASE Bind(c)
      <4> DEFINE a == data[me[c].best].assigned
      <4>1. /\ [data[me[c].best] EXCEPT !.assigned = a, !.bound = data[me[c].best].bound] = data[me[c].best]
            /\ [data[me[c].best] EXCEPT !.assigned = a, !.bound = TRUE] = [data[me[c].best] EXCEPT !.bound = TRUE]
        BY <2>b, Zenon DEF JobData
      <4>2. \/ data' = [data EXCEPT ![me[c].best] = [data[me[c].best] EXCEPT !.bound = TRUE]]
            \/ data' = [data EXCEPT ![me[c].best] = data[me[c].best]]
        BY <2>b, <3>2, Zenon DEF Bind, BaseInv, TypeOK
      <4>3. \E b : data' = [data EXCEPT ![me[c].best] = [data[me[c].best] EXCEPT !.assigned = a, !.bound = b]]
        BY <4>1, <4>2, Zenon
      <4> QED
        BY <4>3, Zenon
    <3> QED
      BY <1>2, <3>1, <3>2, Zenon
  <2>d. \A s \in Slots : data'[s].job = data[s].job /\ data'[s].dispatched = data[s].dispatched
    BY <2>b, <2>c DEF BaseInv, TypeOK, JobData
  <2>1. pc[c] \in Claiming /\ pc'[c] \in Claiming /\ me'[c] = me[c] /\ Only(c) /\ Same
    BY <1>2, <2>a, <2>d, Zenon DEF Assign, Bind
  <2>2. c \notin Submitters /\ c \notin Submitters' /\ \A s \in Slots : c \in Holders'[s] => c \in Holders[s]
    BY <1>a, <1>b, <2>1 DEF Submitters, Submitting, Claiming, Working
  <2>3. (\A s \in Slots : Homes[s] \subseteq Homes'[s]) => ScanSound(c)'
    BY <1>0, <2>1, Zenon DEF ScanSound, Claiming, Working
  <2> QED
    BY <2>1, <2>2, <2>3, LocalStep, Zenon DEF Claiming
<1>3. CASE Deliver(c)
  <2>1. me[c].best \in Slots /\ pc[c] = "deliver"
    BY <1>0, <1>3, Zenon DEF Deliver, Place, Claiming
  <2>s. Same
    BY <1>3, Zenon DEF Deliver, slotVars
  <2>2. CASE me[c].bestH = 0
    <3>1. pc'[c] = "idle" /\ me'[c] = Idle /\ Only(c)
      BY <1>3, <2>2, Moved, Zenon DEF Deliver
    <3> QED
      BY <1>1, <2>1, <2>s, <3>1, Zenon DEF Submitting
  <2>3. CASE me[c].bestH # 0
    <3> DEFINE r == [Idle EXCEPT !.id = me[c].bestH, !.work = data[me[c].best].job]
    <3>1. pc'[c] = "run" /\ me'[c] = r /\ Only(c)
      BY <1>3, <2>3, Moved, Zenon DEF Deliver
    <3>2. r.work = data[me[c].best].job /\ r.id = me[c].bestH /\ r.gone = ANY
      BY Zenon DEF Idle
    <3>3. c \in Holders[me[c].best] /\ me[c].bestH \in Homes[me[c].best]
      BY <1>0, <1>a, <2>1, <2>3, Zenon DEF ScanSound, Claiming
    <3>4. handle[me[c].best] # 0 /\ r.work # 0
      BY <2>1, <3>2, <3>3 DEF SettledInv, HoldersSound, HandlesSound
    <3>5. \A s \in Slots : c \in Holders'[s] => s = me[c].best
      BY <1>b, <2>1, <2>s, <3>1, <3>2, <3>4 DEF SettledInv, HandlesSound, Claiming
    <3>6. c \in Holders'[me[c].best]
      BY <1>b, <2>1, <2>s, <3>1, <3>2, Zenon DEF Working
    <3>7. (\A s \in Slots : Homes[s] \subseteq Homes'[s]) => ScanSound(c)'
      BY <2>1, <3>1, <3>2, <3>3, <3>4, <3>6, Zenon DEF ScanSound, Claiming, Working
    <3> QED
      BY <2>1, <2>s, <3>1, <3>3, <3>5, <3>7, LocalStep, Zenon DEF Submitters, Submitting
  <2> QED
    BY <2>2, <2>3, Zenon
<1>4. ASSUME pc[c] \in Working, Same, Only(c), pc'[c] \in Working, me'[c].work = me[c].work, me'[c].id = me[c].id,
             me'[c].gone = me[c].gone,
             pc[c] \in {"destroy", "cas"} => pc'[c] \in {"destroy", "cas"},
             pc'[c] \in {"destroy", "cas"} => me'[c].h = me'[c].id,
             pc'[c] \in {"cas", "apply"} => me'[c].slot \in Slots /\ used[me'[c].slot] /\ handle[me'[c].slot] = me[c].id
      PROVE  SettledInv'
  <2>1. c \notin Submitters /\ c \notin Submitters' /\ \A s \in Slots : c \in Holders'[s] <=> c \in Holders[s]
    BY <1>4, <1>a, <1>b DEF Submitters, Submitting, Claiming, Working
  <2>2. PICK s \in Slots : c \in Holders[s] /\ me[c].id \in Homes[s]
    BY <1>0, <1>4, Zenon DEF ScanSound
  <2>3. pc'[c] \in {"cas", "apply"} => me'[c].slot = s
    BY <1>4, <2>2, Zenon DEF Homes
  <2>4. (\A t \in Slots : Homes[t] \subseteq Homes'[t]) => ScanSound(c)'
    BY <1>0, <1>4, <2>1, <2>2, <2>3, Zenon DEF ScanSound, Claiming, Working
  <2> QED
    BY <1>4, <2>1, <2>4, LocalStep, Zenon
<1>5. CASE FinishLookup(c)
  <2>s. Same /\ pc[c] = "run"
    BY <1>5, Zenon DEF FinishLookup, slotVars
  <2>1. CASE Goto(c, "idle") /\ Set(c, Idle)
    <3>1. pc'[c] = "idle" /\ me'[c] = Idle /\ Only(c)
      BY <2>1, Moved, Zenon
    <3> QED
      BY <1>1, <2>s, <3>1, Zenon DEF Submitting
  <2>2. ASSUME NEW s \in Found(me[c].id), Goto(c, "release"), Set(c, [me[c] EXCEPT !.bound = data[s].bound])
        PROVE  SettledInv'
    <3> DEFINE r == [me[c] EXCEPT !.bound = data[s].bound]
    <3>1. pc'[c] = "release" /\ me'[c] = r /\ Only(c)
      BY <2>2, Moved, Zenon
    <3>2. r.work = me[c].work /\ r.id = me[c].id /\ r.gone = me[c].gone
      BY <1>0, Zenon DEF Local
    <3> QED
      BY <1>4, <2>s, <3>1, <3>2, Zenon DEF Working
  <2> QED
    BY <1>5, <2>1, <2>2, Zenon DEF FinishLookup
<1>6. CASE FinishRelease(c)
  <2>s. Same /\ pc[c] = "release" /\ pc'[c] = "record" /\ me'[c] = me[c] /\ Only(c)
    BY <1>6, Zenon DEF FinishRelease, slotVars, Goto, Only, BaseInv, TypeOK
  <2> QED
    BY <1>4, <2>s, Zenon DEF Working
<1>7. CASE DestroyFind(c)
  <2>s. Same /\ pc[c] = "destroy" /\ me[c].gone = ANY /\ me[c].h = me[c].id
    BY <1>0, <1>7, Zenon DEF DestroyFind, slotVars, ScanSound
  <2>1. CASE me[c].slot \notin Slots
    <3>1. pc'[c] = "idle" /\ me'[c] = Idle /\ Only(c)
      BY <1>7, <2>1, <2>s, Moved, Zenon DEF DestroyFind, DestroyReturn
    <3> QED
      BY <1>1, <2>s, <3>1, Zenon DEF Submitting
  <2>2. CASE me[c].slot \in Slots /\ me[c].slot \in Found(me[c].h)
    <3>1. pc'[c] = "cas" /\ me'[c] = me[c] /\ Only(c)
      BY <1>7, <2>2, Zenon DEF DestroyFind, Goto, Only, BaseInv, TypeOK
    <3> QED
      BY <1>4, <2>s, <2>2, <3>1, Zenon DEF Working, Found
  <2>3. CASE me[c].slot \in Slots /\ me[c].slot \notin Found(me[c].h)
    <3> DEFINE r == [me[c] EXCEPT !.slot = @ + 1]
    <3>1. Goto(c, "destroy") /\ Set(c, r)
      BY <1>7, <2>3, Zenon DEF DestroyFind, Goto, BaseInv, TypeOK
    <3>2. pc'[c] = "destroy" /\ me'[c] = r /\ Only(c)
      BY <3>1, Moved, Zenon
    <3>3. r.work = me[c].work /\ r.id = me[c].id /\ r.gone = me[c].gone /\ r.h = me[c].h
      BY <1>0, Zenon DEF Local
    <3> QED
      BY <1>4, <2>s, <3>2, <3>3, Zenon DEF Working
  <2> QED
    BY <2>1, <2>2, <2>3, Zenon
<1>8. CASE ReportLookup(c)
  <2>s. Same /\ pc[c] = "run"
    BY <1>8, Zenon DEF ReportLookup, slotVars
  <2>1. CASE Goto(c, "idle") /\ Set(c, Idle)
    <3>1. pc'[c] = "idle" /\ me'[c] = Idle /\ Only(c)
      BY <2>1, Moved, Zenon
    <3> QED
      BY <1>1, <2>s, <3>1, Zenon DEF Submitting
  <2>2. ASSUME NEW s \in Found(me[c].id), Goto(c, "apply"), Set(c, [me[c] EXCEPT !.slot = s])
        PROVE  SettledInv'
    <3> DEFINE r == [me[c] EXCEPT !.slot = s]
    <3>1. pc'[c] = "apply" /\ me'[c] = r /\ Only(c)
      BY <2>2, Moved, Zenon
    <3>2. r.work = me[c].work /\ r.id = me[c].id /\ r.gone = me[c].gone /\ r.slot = s
      BY <1>0, Zenon DEF Local
    <3>3. s \in Slots /\ used[s] /\ handle[s] = me[c].id
      BY Zenon DEF Found
    <3> QED
      BY <1>4, <2>s, <3>1, <3>2, <3>3 DEF Working
  <2> QED
    BY <1>8, <2>1, <2>2, Zenon DEF ReportLookup
<1> QED
  BY <1>2, <1>3, <1>5, <1>6, <1>7, <1>8, Zenon
-----------------------------------------------------------------------------
(* The compare-and-swap of pick_next_for_node: the slot was nobody's, for  *)
(* a slot that somebody holds, or that is being given to a new job while   *)
(* its old handle can still be read, is marked dispatched.                 *)
LEMMA ScanClaimStep ==
    ASSUME BaseInv, BaseInv', SettledInv, NEW c \in Cores, ScanClaim(c)
    PROVE  SettledInv'
<1>0. ScanSound(c) /\ pc[c] \in Labels /\ me[c] \in Local /\ Place(pc[c], me[c]) /\ pc[c] = "scan"
  BY Zenon DEF SettledInv, ScansSound, BaseInv, TypeOK, Places, ScanClaim
<1>1. CASE me[c].best = 0 \/ data[me[c].best].dispatched
  <2>1. pc'[c] = "idle" /\ me'[c] = Idle /\ Only(c)
    BY <1>1, Moved, Zenon DEF ScanClaim
  <2>2. Idle.work = 0 /\ Idle.gone = ANY
    BY Zenon DEF Idle
  <2>3. ScanSound(c)' /\ c \notin Submitters /\ c \notin Submitters' /\ \A s \in Slots : c \notin Holders'[s]
    BY <1>0, <2>1, <2>2, Zenon DEF ScanSound, Working, Claiming, Submitters, Submitting, Holders
  <2> QED
    BY <1>1, <2>1, <2>3, LocalStep, Zenon DEF ScanClaim
<1>2. CASE ~ (me[c].best = 0 \/ data[me[c].best].dispatched)
  <2> DEFINE b == me[c].best
  <2>0. b \in Slots /\ data[b] \in JobData /\ ~ data[b].dispatched
    BY <1>0, <1>2 DEF Place, Slots, BaseInv, TypeOK
  <2>1. pc'[c] = "assign" /\ me'[c] = me[c] /\ Only(c)
    BY <1>2, Zenon DEF ScanClaim, Goto, Only, BaseInv, TypeOK
  <2>2. /\ \A s \in Slots : data'[s].job = data[s].job
        /\ \A s \in Slots \ {b} : data'[s].dispatched = data[s].dispatched
        /\ data'[b].dispatched = TRUE
    BY <1>2, <2>0 DEF ScanClaim, BaseInv, TypeOK, JobData
  <2>3. UNCHANGED <<used, handle, made, done>> /\ made \in Nat
    BY DEF ScanClaim, BaseInv, TypeOK
  <2> HIDE DEF b
  <2>4. Submitters' = Submitters /\ \A d \in Submitters : pc'[d] = pc[d] /\ me'[d] = me[d]
    BY <1>0, <2>1, Zenon DEF Submitters, Submitting, Only
  <2>5. \A s \in Slots : Homes[s] \subseteq Homes'[s]
    <3>1. c \notin Submitters'
      BY <2>1, Zenon DEF Submitters, Submitting
    <3> QED
      BY <2>1, <2>2, <2>3, <3>1, HomesKept
  <2>6. \A s \in Slots, d \in Cores \ {c} : d \in Holders'[s] <=> d \in Holders[s]
    BY <2>1, <2>2 DEF Holders, Only
  <2>7. \A s \in Slots : Fillers'[s] = Fillers[s]
    BY <1>0, <2>1 DEF Fillers, Only
  <2>8. Holders[b] = {} /\ \A s \in Slots : Holders[s] \subseteq Cores /\ c \notin Holders[s]
    BY <1>0, <2>0, Zenon DEF SettledInv, HoldersSound, Holders, Claiming, Working
  <2>9. \A s \in Slots : c \in Holders'[s] <=> s = b /\ me[c].bestH # 0
    BY <2>1, Zenon DEF Holders, Claiming, Working, b
  <2>10. \A s \in Slots : IF s = b /\ me[c].bestH # 0 THEN Holders'[s] = {c} ELSE Holders'[s] = Holders[s]
    <3>1. \A s \in Slots : Holders'[s] \subseteq Cores
      BY Zenon DEF Holders
    <3>2. ASSUME NEW s \in Slots, s = b, me[c].bestH # 0 PROVE Holders'[s] = {c}
      <4>1. \A d \in Cores : d \in Holders'[s] <=> d = c
        BY <2>6, <2>8, <2>9, <3>2, Zenon
      <4> QED
        BY <3>1, <4>1, Zenon
    <3>3. ASSUME NEW s \in Slots, ~ (s = b /\ me[c].bestH # 0) PROVE Holders'[s] = Holders[s]
      <4>1. \A d \in Cores : d \in Holders'[s] <=> d \in Holders[s]
        BY <2>6, <2>8, <2>9, <3>3, Zenon
      <4> QED
        BY <2>8, <3>1, <4>1, Zenon
    <3> QED
      BY <3>2, <3>3, Zenon
  <2>11. me[c].bestH # 0 => handle[b] # 0 /\ used[b] /\ Fillers[b] = {}
    BY <1>0, <2>0, Zenon DEF ScanSound, Homes, SettledInv, HoldersSound, b
  <2>12. HandlesSound'
    BY <2>2, <2>3 DEF SettledInv, HandlesSound
  <2>13. SubmitsSound'
    <3>1. \A d \in Submitters : me[d].slot \in Slots
      BY Zenon DEF Submitters, BaseInv, Places, Place, Submitting
    <3> QED
      BY <2>2, <2>3, <2>4, <3>1 DEF SettledInv, SubmitsSound
  <2>14. ScansSound'
    <3>1. ScanSound(c)'
      BY <1>0, <2>1, <2>5, Zenon DEF ScanSound, Claiming, Working
    <3> QED
      BY <2>1, <2>5, <2>6, <3>1, ScanKept, Zenon DEF SettledInv, ScansSound, Only
  <2>15. HoldersSound'
    BY <2>0, <2>2, <2>3, <2>7, <2>10, <2>11 DEF SettledInv, HoldersSound
  <2>16. DoneSound'
    BY <2>0, <2>1, <2>2, <2>3, <2>4, <2>8, <2>10 DEF SettledInv, DoneSound, Only
  <2> QED
    BY <2>12, <2>13, <2>14, <2>15, <2>16, Zenon DEF SettledInv
<1> QED
  BY <1>1, <1>2, Zenon

(* A JOB_RUNNING report clears dispatched only on the slot the core held.  *)
LEMMA ReportApplyStep ==
    ASSUME BaseInv, BaseInv', SettledInv, NEW c \in Cores, ReportApply(c)
    PROVE  SettledInv'
<1> DEFINE b == me[c].slot
<1>0. ScanSound(c) /\ Place(pc[c], me[c]) /\ pc[c] = "apply"
  BY Zenon DEF SettledInv, ScansSound, BaseInv, Places, ReportApply
<1>1. b \in Slots /\ data[b] \in JobData /\ c \in Holders[b]
  BY <1>0, Zenon DEF Place, ScanSound, BaseInv, TypeOK
<1>2. pc'[c] = "idle" /\ me'[c] = Idle /\ Only(c)
  BY Moved, Zenon DEF ReportApply
<1>3. Idle.work = 0 /\ Idle.gone = ANY
  BY Zenon DEF Idle
<1>4. /\ \A s \in Slots : data'[s].job = data[s].job
      /\ \A s \in Slots \ {b} : data'[s].dispatched = data[s].dispatched
  BY <1>1, ZenonT(60) DEF ReportApply, BaseInv, TypeOK, JobData
<1>5. UNCHANGED <<used, handle, made, done>> /\ made \in Nat
  BY DEF ReportApply, BaseInv, TypeOK
<1> HIDE DEF b
<1>6. Submitters' = Submitters /\ \A d \in Submitters : pc'[d] = pc[d] /\ me'[d] = me[d]
  BY <1>0, <1>2, Zenon DEF Submitters, Submitting, Only
<1>7. \A s \in Slots : Homes[s] \subseteq Homes'[s]
  <2>1. c \notin Submitters'
    BY <1>2, Zenon DEF Submitters, Submitting
  <2> QED
    BY <1>2, <1>4, <1>5, <2>1, HomesKept
<1>8. \A s \in Slots, d \in Cores \ {c} : d \in Holders'[s] <=> d \in Holders[s]
  BY <1>2, <1>4, ZenonT(60) DEF Holders, Only
<1>9. \A s \in Slots : Fillers'[s] = Fillers[s]
  BY <1>0, <1>2 DEF Fillers, Only
<1>10. \A s \in Slots : c \notin Holders'[s] /\ Holders'[s] \subseteq Cores
  BY <1>2, Zenon DEF Holders, Claiming, Working
<1>11. /\ used[b] /\ handle[b] # 0 /\ Fillers[b] = {} /\ Holders[b] = {c}
       /\ data[b].job \notin done
  BY <1>0, <1>1, Zenon DEF SettledInv, HoldersSound, DoneSound
<1>12. Holders'[b] = {} /\ \A s \in Slots : Holders'[s] \subseteq Holders[s]
  BY <1>1, <1>8, <1>10, <1>11, Zenon
<1>13. HandlesSound'
  BY <1>4, <1>5 DEF SettledInv, HandlesSound
<1>14. SubmitsSound'
  <2>1. \A d \in Submitters : me[d].slot \in Slots
    BY Zenon DEF Submitters, BaseInv, Places, Place, Submitting
  <2> QED
    BY <1>4, <1>5, <1>6, <2>1 DEF SettledInv, SubmitsSound
<1>15. ScansSound'
  <2>1. ScanSound(c)'
    BY <1>2, <1>3, Zenon DEF ScanSound, Claiming, Working
  <2> QED
    BY <1>2, <1>7, <1>8, <2>1, ScanKept, Zenon DEF SettledInv, ScansSound, Only
<1>16. HoldersSound'
  BY <1>4, <1>5, <1>9, <1>11, <1>12 DEF SettledInv, HoldersSound
<1>17. DoneSound'
  BY <1>2, <1>4, <1>5, <1>6, <1>10, <1>11, <1>12 DEF SettledInv, DoneSound, Only
<1> QED
  BY <1>13, <1>14, <1>15, <1>16, <1>17, Zenon DEF SettledInv

(* Recording a completion: only the core that records it holds the job.    *)
LEMMA FinishRecordStep ==
    ASSUME BaseInv, BaseInv', SettledInv, NEW c \in Cores, FinishRecord(c)
    PROVE  SettledInv'
<1> DEFINE r == [me[c] EXCEPT !.slot = 1, !.h = me[c].id]
<1>0. ScanSound(c) /\ me[c] \in Local /\ pc[c] = "record"
  BY Zenon DEF SettledInv, ScansSound, BaseInv, TypeOK, FinishRecord
<1>1. PICK b \in Slots : c \in Holders[b] /\ me[c].id \in Homes[b]
  BY <1>0, Zenon DEF ScanSound, Working
<1>2. pc'[c] = "destroy" /\ me'[c] = r /\ Only(c)
  BY Moved, Zenon DEF FinishRecord
<1>3. r.work = me[c].work /\ r.id = me[c].id /\ r.gone = me[c].gone /\ r.h = me[c].id
  BY <1>0, Zenon DEF Local
<1>4. UNCHANGED <<used, handle, data, made>> /\ made \in Nat /\ done' = done \cup {me[c].id}
  BY DEF FinishRecord, slotVars, BaseInv, TypeOK
<1> HIDE DEF r
<1>5. Submitters' = Submitters /\ \A d \in Submitters : pc'[d] = pc[d] /\ me'[d] = me[d]
  BY <1>0, <1>2, Zenon DEF Submitters, Submitting, Only
<1>6. \A s \in Slots : Homes[s] \subseteq Homes'[s]
  <2>1. c \notin Submitters'
    BY <1>2, Zenon DEF Submitters, Submitting
  <2> QED
    BY <1>2, <1>4, <2>1, HomesKept
<1>7. \A s \in Slots, d \in Cores : d \in Holders'[s] <=> d \in Holders[s]
  BY <1>0, <1>2, <1>3, <1>4 DEF Holders, Only, Working, Claiming
<1>8. \A s \in Slots : Holders'[s] = Holders[s]
  BY <1>7, Zenon DEF Holders
<1>9. \A s \in Slots : Fillers'[s] = Fillers[s]
  BY <1>0, <1>2 DEF Fillers, Only
<1>10. HandlesSound'
  BY <1>4, Zenon DEF SettledInv, HandlesSound
<1>11. SubmitsSound'
  BY <1>4, <1>5 DEF SettledInv, SubmitsSound
<1>12. ScansSound'
  <2>1. ScanSound(c)'
    BY <1>0, <1>1, <1>2, <1>3, <1>6, <1>8, Zenon DEF ScanSound, Claiming, Working
  <2> QED
    BY <1>2, <1>6, <1>8, <2>1, ScanKept, Zenon DEF SettledInv, ScansSound, Only
<1>13. HoldersSound'
  BY <1>4, <1>8, <1>9 DEF SettledInv, HoldersSound
<1>14. DoneSound'
  <2>1. me[c].id \in 1 .. made /\ \A d \in Submitters : me[d].h # me[c].id
    BY <1>1, Zenon DEF Homes
  <2>2. ASSUME NEW s \in Slots, data[s].job = me[c].id PROVE data[s].dispatched /\ Holders[s] = {c}
    <3>1. s = b
      BY <1>1, <2>2, Zenon DEF Homes
    <3> QED
      BY <1>1, <3>1, Zenon DEF SettledInv, HoldersSound
  <2>3. \A s \in Slots : Holders[s] \subseteq Cores
    BY Zenon DEF Holders
  <2>4. ASSUME NEW s \in Slots, data[s].job \in done'
        PROVE  data[s].dispatched /\ \A d \in Holders[s] : pc'[d] \in {"destroy", "cas"}
    <3>1. CASE data[s].job = me[c].id
      BY <1>2, <2>2, <3>1, Zenon
    <3>2. CASE data[s].job \in done
      BY <1>0, <1>2, <2>3, <3>2, Zenon DEF SettledInv, DoneSound, Only
    <3> QED
      BY <1>4, <2>4, <3>1, <3>2, Zenon
  <2> QED
    BY <1>4, <1>5, <1>8, <2>1, <2>4, Zenon DEF SettledInv, DoneSound
<1> QED
  BY <1>10, <1>11, <1>12, <1>13, <1>14, Zenon DEF SettledInv

(* The compare-and-swap of destroy_job_object frees a slot that only the   *)
(* core itself holds and that stays marked dispatched.                     *)
LEMMA DestroyCasStep ==
    ASSUME BaseInv, BaseInv', SettledInv, NEW c \in Cores, DestroyCas(c)
    PROVE  SettledInv'
<1> DEFINE b == me[c].slot
<1>0. ScanSound(c) /\ Place(pc[c], me[c]) /\ pc[c] = "cas" /\ me[c].gone = ANY
  BY Zenon DEF SettledInv, ScansSound, ScanSound, BaseInv, Places, DestroyCas
<1>1. b \in Slots /\ c \in Holders[b]
  BY <1>0, Zenon DEF Place, ScanSound
<1>2. used[b] /\ handle[b] # 0 /\ data[b].dispatched /\ Fillers[b] = {} /\ Holders[b] = {c}
  BY <1>1, Zenon DEF SettledInv, HoldersSound
<1>3. pc'[c] = "idle" /\ me'[c] = Idle /\ Only(c)
  BY <1>0, <1>2, Moved, Zenon DEF DestroyCas, DestroyReturn
<1>4. Idle.work = 0 /\ Idle.gone = ANY
  BY Zenon DEF Idle
<1>5. UNCHANGED <<handle, data, made, done>> /\ made \in Nat /\ \A s \in Slots \ {b} : used'[s] = used[s]
  BY <1>1, <1>2 DEF DestroyCas, BaseInv, TypeOK
<1> HIDE DEF b
<1>6. Submitters' = Submitters /\ \A d \in Submitters : pc'[d] = pc[d] /\ me'[d] = me[d]
  BY <1>0, <1>3, Zenon DEF Submitters, Submitting, Only
<1>7. \A s \in Slots : Homes[s] \subseteq Homes'[s]
  <2>1. c \notin Submitters'
    BY <1>3, Zenon DEF Submitters, Submitting
  <2> QED
    BY <1>3, <1>5, <2>1, HomesKept
<1>8. \A s \in Slots, d \in Cores \ {c} : d \in Holders'[s] <=> d \in Holders[s]
  BY <1>3, <1>5 DEF Holders, Only
<1>9. \A s \in Slots : Fillers'[s] = Fillers[s]
  BY <1>0, <1>3 DEF Fillers, Only
<1>10. \A s \in Slots : c \notin Holders'[s] /\ Holders'[s] \subseteq Cores
  BY <1>3, Zenon DEF Holders, Claiming, Working
<1>11. Holders'[b] = {} /\ \A s \in Slots : Holders'[s] \subseteq Holders[s]
  BY <1>1, <1>2, <1>8, <1>10, Zenon
<1>12. HandlesSound'
  BY <1>5, Zenon DEF SettledInv, HandlesSound
<1>13. SubmitsSound'
  <2>1. \A d \in Submitters : me[d].slot \in Slots /\ (pc[d] = "fill" => me[d].slot # b)
    BY <1>2, Zenon DEF Submitters, BaseInv, Places, Place, Submitting, Fillers
  <2> QED
    BY <1>2, <1>5, <1>6, <2>1 DEF SettledInv, SubmitsSound
<1>14. ScansSound'
  <2>1. ScanSound(c)'
    BY <1>3, <1>4, Zenon DEF ScanSound, Claiming, Working
  <2> QED
    BY <1>3, <1>7, <1>8, <2>1, ScanKept, Zenon DEF SettledInv, ScansSound, Only
<1>15. HoldersSound'
  BY <1>2, <1>5, <1>9, <1>11 DEF SettledInv, HoldersSound
<1>16. DoneSound'
  BY <1>3, <1>5, <1>6, <1>10, <1>11 DEF SettledInv, DoneSound, Only
<1> QED
  BY <1>12, <1>13, <1>14, <1>15, <1>16, Zenon DEF SettledInv

(* create_job_object wins a free slot: nobody holds it.                    *)
LEMMA SubmitClaimStep ==
    ASSUME BaseInv, BaseInv', SettledInv, NEW c \in Cores, NEW b \in Slots, SubmitClaim(c, b)
    PROVE  SettledInv'
<1> DEFINE r == [Idle EXCEPT !.slot = b, !.h = made + 1]
<1>0. ScanSound(c) /\ pc[c] = "idle" /\ ~ used[b] /\ made \in Nat
  BY DEF SettledInv, ScansSound, BaseInv, TypeOK, SubmitClaim
<1>1. pc'[c] = "fill" /\ me'[c] = r /\ Only(c)
  BY Moved, Zenon DEF SubmitClaim
<1>2. r.slot = b /\ r.h = made + 1 /\ r.work = 0 /\ r.gone = ANY
  BY Zenon DEF Idle
<1>3. UNCHANGED <<handle, data, done>> /\ made' = made + 1 /\ used'[b] = TRUE /\ \A s \in Slots \ {b} : used'[s] = used[s]
  BY Zenon DEF SubmitClaim, BaseInv, TypeOK
<1> HIDE DEF r
<1>4. /\ Submitters' = Submitters \cup {c} /\ c \notin Submitters
      /\ \A d \in Submitters : pc'[d] = pc[d] /\ me'[d] = me[d]
  BY <1>0, <1>1, Zenon DEF Submitters, Submitting, Only
<1>5. \A s \in Slots : Homes[s] \subseteq Homes'[s]
  BY <1>0, <1>1, <1>2, <1>3, HomesKept
<1>6. \A s \in Slots, d \in Cores : d \in Holders'[s] <=> d \in Holders[s]
  BY <1>0, <1>1, <1>3 DEF Holders, Only, Working, Claiming
<1>7. \A s \in Slots : Holders'[s] = Holders[s]
  BY <1>6, Zenon DEF Holders
<1>8. Holders[b] = {} /\ (handle[b] # 0 => data[b].dispatched)
  BY <1>0, Zenon DEF SettledInv, HoldersSound
<1>9. \A s \in Slots \ {b} : Fillers'[s] = Fillers[s]
  BY <1>0, <1>1, <1>2 DEF Fillers, Only
<1>10. \A d \in Submitters : me[d].slot \in Slots
  BY Zenon DEF Submitters, BaseInv, Places, Place, Submitting
<1>11. HandlesSound'
  BY <1>0, <1>3 DEF SettledInv, HandlesSound, BaseInv, TypeOK, JobData
<1>12. SubmitsSound'
  <2>1. \A s \in Slots : handle[s] # made + 1 /\ data[s].job # made + 1
    BY <1>0 DEF SettledInv, HandlesSound, BaseInv, TypeOK, JobData
  <2>2. \A d \in Submitters : me[d].h # made + 1 /\ me[d].h <= made + 1
    BY <1>0, <1>10 DEF SettledInv, SubmitsSound, Submitters, BaseInv, TypeOK, Local
  <2>3. \A d \in Submitters : me[d].slot = b => pc[d] = "publish" /\ handle[b] # 0
    BY <1>0 DEF SettledInv, SubmitsSound, Submitters, Submitting
  <2>4. ASSUME NEW d \in Submitters'
        PROVE  /\ me'[d].h <= made'
               /\ \A s \in Slots : handle[s] # me'[d].h /\ (data[s].job = me'[d].h => pc'[d] = "publish" /\ s = me'[d].slot)
               /\ \A e \in Submitters' : me'[e].h = me'[d].h => e = d
               /\ pc'[d] = "publish" => data[me'[d].slot].job # 0
               /\ pc'[d] = "fill" \/ handle[me'[d].slot] = 0 => used'[me'[d].slot]
    <3>1. CASE d = c
      <4>1. me'[d].h = made + 1 /\ me'[d].slot = b /\ pc'[d] = "fill" /\ made' = made + 1
        BY <1>1, <1>2, <1>3, <3>1, Zenon
      <4>2. \A e \in Submitters' : me'[e].h = made + 1 => e = d
        BY <1>4, <2>2, <3>1, Zenon
      <4>3. me'[d].h <= made'
        BY <1>0, <4>1
      <4> QED
        BY <1>3, <2>1, <4>1, <4>2, <4>3, Zenon
    <3>2. CASE d \in Submitters
      <4>1. me'[d] = me[d] /\ pc'[d] = pc[d] /\ me[d].slot \in Slots /\ me[d].h <= made
        BY <1>4, <1>10, <3>2, Zenon DEF SettledInv, SubmitsSound
      <4>2. me[d].h <= made' /\ me[d].h # made + 1
        BY <1>0, <1>3, <2>2, <3>2, <4>1
      <4>3. \A s \in Slots : handle[s] # me[d].h /\ (data[s].job = me[d].h => pc[d] = "publish" /\ s = me[d].slot)
        BY <3>2, Zenon DEF SettledInv, SubmitsSound
      <4>4. \A e \in Submitters' : me'[e].h = me[d].h => e = d
        <5>1. \A e \in Submitters : me[e].h = me[d].h => e = d
          BY <3>2, Zenon DEF SettledInv, SubmitsSound
        <5> QED
          BY <1>1, <1>2, <1>4, <4>2, <5>1, Zenon
      <4>5. /\ pc[d] = "publish" => data[me[d].slot].job # 0
            /\ pc[d] = "fill" \/ handle[me[d].slot] = 0 => used'[me[d].slot]
        BY <1>3, <3>2, <4>1, ZenonT(60) DEF SettledInv, SubmitsSound
      <4> QED
        BY <4>1, <4>2, <4>3, <4>4, <4>5, ZenonT(60)
    <3> QED
      BY <1>4, <2>4, <3>1, <3>2, Zenon
  <2>5. \A d, e \in Submitters' : pc'[d] = "fill" /\ me'[d].slot = me'[e].slot
           => d = e \/ (pc'[e] = "publish" /\ handle[me'[d].slot] # 0)
    BY <1>1, <1>2, <1>4, <2>3 DEF SettledInv, SubmitsSound
  <2> QED
    BY <1>3, <2>4, <2>5 DEF SubmitsSound
<1>13. ScansSound'
  <2>1. ScanSound(c)'
    BY <1>1, <1>2, Zenon DEF ScanSound, Claiming, Working
  <2> QED
    BY <1>1, <1>5, <1>7, <2>1, ScanKept, Zenon DEF SettledInv, ScansSound, Only
<1>14. HoldersSound'
  BY <1>3, <1>7, <1>8, <1>9, ZenonT(60) DEF SettledInv, HoldersSound
<1>15. DoneSound'
  <2>1. \A s \in Slots : c \notin Holders[s] /\ Holders[s] \subseteq Cores
    BY <1>0, Zenon DEF Holders, Claiming, Working
  <2>2. done \subseteq 1 .. made' /\ made + 1 \notin done
    BY <1>0, <1>3 DEF SettledInv, DoneSound
  <2>3. \A d \in Submitters' : me'[d].h \notin done
    BY <1>1, <1>2, <1>4, <2>2 DEF SettledInv, DoneSound
  <2> QED
    BY <1>1, <1>3, <1>7, <2>1, <2>2, <2>3 DEF SettledInv, DoneSound, Only
<1> QED
  BY <1>11, <1>12, <1>13, <1>14, <1>15, Zenon DEF SettledInv

(* Filling a slot's job_data_t: nobody holds a slot that is being filled,  *)
(* and the job that is written there is nowhere else.                      *)
LEMMA SubmitFillStep ==
    ASSUME BaseInv, BaseInv', SettledInv, NEW c \in Cores, NEW spec, SubmitFill(c, spec)
    PROVE  SettledInv'
<1> DEFINE b == me[c].slot
           h == me[c].h
<1>0. ScanSound(c) /\ Place(pc[c], me[c]) /\ pc[c] = "fill" /\ made \in Nat /\ c \in Submitters
  BY DEF SettledInv, ScansSound, BaseInv, TypeOK, Places, SubmitFill, Submitters, Submitting
<1>1. b \in Slots /\ h # 0 /\ h \in 0 .. MaxJobs
  BY <1>0, Zenon DEF Place, Submitting, BaseInv, TypeOK, Local
<1>2. pc'[c] = "publish" /\ me'[c] = me[c] /\ Only(c)
  BY Zenon DEF SubmitFill, Goto, Only, BaseInv, TypeOK
<1>3. /\ UNCHANGED <<used, handle, made, done>>
      /\ data'[b].job = h /\ data'[b].dispatched = FALSE /\ \A s \in Slots \ {b} : data'[s] = data[s]
  BY <1>1, Zenon DEF SubmitFill, fresh, BaseInv, TypeOK
<1>4. /\ h <= made /\ h \notin done /\ used[b]
      /\ \A s \in Slots : handle[s] # h /\ data[s].job # h
      /\ \A d \in Submitters : me[d].h = h => d = c
      /\ \A d \in Submitters : pc[d] = "fill" /\ me[d].slot = b => d = c
  BY <1>0, Zenon DEF SettledInv, SubmitsSound, DoneSound
<1>5. c \in Fillers[b]
  BY <1>0, <1>1, Zenon DEF Fillers
<1>6. Holders[b] = {}
  BY <1>1, <1>5, Zenon DEF SettledInv, HoldersSound
<1> HIDE DEF b, h
<1>7. Submitters' = Submitters /\ \A d \in Submitters : me'[d] = me[d] /\ (d # c => pc'[d] = pc[d])
  BY <1>0, <1>2, Zenon DEF Submitters, Submitting, Only
<1>8. \A s \in Slots : Homes[s] \subseteq Homes'[s]
  <2>1. \A s \in Slots : data'[s].job = data[s].job \/ (c \in Submitters /\ data'[s].job = me[c].h)
    BY <1>0, <1>1, <1>3, Zenon DEF h
  <2> QED
    BY <1>0, <1>2, <1>3, <2>1, HomesKept
<1>9. ASSUME NEW d \in Cores, pc[d] \in Working PROVE me[d].work # h
  <2>1. PICK s \in Slots : d \in Holders[s]
    BY <1>9, Zenon DEF SettledInv, ScansSound, ScanSound
  <2>2. me[d].work = data[s].job
    BY <1>9, <2>1, Zenon DEF Holders, Working, Claiming
  <2> QED
    BY <1>4, <2>2, Zenon
<1>10. \A s \in Slots, d \in Cores : d \in Holders'[s] <=> d \in Holders[s]
  <2>1. \A s \in Slots : \A d \in Cores : s # b => (d \in Holders'[s] <=> d \in Holders[s])
    BY <1>0, <1>2, <1>3 DEF Holders, Only, Working, Claiming
  <2>2. \A d \in Cores : pc'[d] \in Claiming => pc[d] \in Claiming /\ me'[d] = me[d]
    BY <1>2, Zenon DEF Only, Claiming
  <2>3. \A d \in Cores : pc'[d] \in Working => pc[d] \in Working /\ me'[d] = me[d]
    BY <1>2, Zenon DEF Only, Working
  <2>4. \A d \in Cores : d \notin Holders'[b]
    BY <1>1, <1>3, <1>6, <1>9, <2>2, <2>3 DEF Holders
  <2> QED
    BY <1>6, <2>1, <2>4, Zenon
<1>11. \A s \in Slots : Holders'[s] = Holders[s] /\ Holders[s] \subseteq Cores
  BY <1>10, Zenon DEF Holders
<1>12. Fillers'[b] = {} /\ \A s \in Slots : Fillers'[s] \subseteq Fillers[s]
  BY <1>1, <1>2, <1>4 DEF Fillers, Only, Submitters, Submitting
<1>13. HandlesSound'
  <2>1. \A s \in Slots : data'[s].job <= made /\ (handle[s] # 0 => data'[s].job # 0)
    BY <1>1, <1>3, <1>4 DEF SettledInv, HandlesSound
  <2>2. \A s, t \in Slots : handle[s] # 0 /\ handle[s] \in {handle[t], data'[t].job} => s = t
    BY <1>3, <1>4 DEF SettledInv, HandlesSound
  <2>3. \A s, t \in Slots : data'[s].job # 0 /\ data'[s].job = data'[t].job => s = t
    BY <1>3, <1>4 DEF SettledInv, HandlesSound
  <2> QED
    BY <1>3, <2>1, <2>2, <2>3, Zenon DEF SettledInv, HandlesSound
<1>14. SubmitsSound'
  <2>0. \A d \in Submitters : me[d].slot \in Slots
    BY Zenon DEF Submitters, BaseInv, Places, Place, Submitting
  <2>1. ASSUME NEW d \in Submitters
        PROVE  /\ me[d].h <= made
               /\ \A s \in Slots : handle[s] # me[d].h /\ (data'[s].job = me[d].h => pc'[d] = "publish" /\ s = me[d].slot)
               /\ \A e \in Submitters : me[e].h = me[d].h => e = d
               /\ pc'[d] = "publish" => data'[me[d].slot].job # 0
               /\ pc'[d] = "fill" \/ handle[me[d].slot] = 0 => used[me[d].slot]
    <3>1. CASE d = c
      BY <1>1, <1>2, <1>3, <1>4, <3>1, ZenonT(60) DEF b, h
    <3>2. CASE d # c
      <4>1. me[d].h # h
        BY <1>4, <3>2, Zenon
      <4> QED
        BY <1>1, <1>3, <1>7, <2>0, <3>2, <4>1 DEF SettledInv, SubmitsSound
    <3> QED
      BY <3>1, <3>2, Zenon
  <2>2. ASSUME NEW d \in Submitters, NEW e \in Submitters, pc'[d] = "fill", me[d].slot = me[e].slot, d # e
        PROVE  pc'[e] = "publish" /\ handle[me[d].slot] # 0
    <3>1. d # c /\ pc[d] = "fill"
      BY <1>2, <1>7, <2>2, Zenon
    <3>2. pc[e] = "publish" /\ handle[me[d].slot] # 0
      BY <2>2, <3>1, Zenon DEF SettledInv, SubmitsSound
    <3> QED
      BY <1>0, <1>7, <3>2, Zenon
  <2> QED
    BY <1>3, <1>7, <2>1, <2>2 DEF SubmitsSound
<1>15. ScansSound'
  <2>1. ScanSound(c)'
    BY <1>0, <1>2, Zenon DEF ScanSound, Claiming, Working
  <2> QED
    BY <1>2, <1>8, <1>11, <2>1, ScanKept, Zenon DEF SettledInv, ScansSound, Only
<1>16. HoldersSound'
  <2> SUFFICES ASSUME NEW s \in Slots
               PROVE  /\ \A d \in Holders[s] : /\ used[s] /\ handle[s] # 0 /\ data'[s].dispatched /\ Fillers'[s] = {}
                                               /\ Holders[s] = {d}
                      /\ handle[s] # 0 /\ (~ used[s] \/ Fillers'[s] # {}) => data'[s].dispatched
    BY <1>3, <1>11 DEF HoldersSound
  <2>1. CASE s = b
    BY <1>4, <1>6, <1>12, <2>1, Zenon
  <2>2. CASE s # b
    BY <1>3, <1>12, <2>2, Zenon DEF SettledInv, HoldersSound
  <2> QED
    BY <2>1, <2>2, ZenonT(60)
<1>17. DoneSound'
  <2>1. \A s \in Slots : c \notin Holders[s]
    BY <1>0, Zenon DEF Holders, Claiming, Working
  <2>2. ASSUME NEW s \in Slots, data'[s].job \in done
        PROVE  data'[s].dispatched /\ \A d \in Holders[s] : pc'[d] \in {"destroy", "cas"}
    <3>1. s # b
      BY <1>3, <1>4, <2>2, Zenon
    <3> QED
      BY <1>2, <1>3, <1>11, <2>1, <2>2, <3>1 DEF SettledInv, DoneSound, Only
  <2> QED
    BY <1>3, <1>7, <1>11, <2>2, Zenon DEF SettledInv, DoneSound
<1> QED
  BY <1>13, <1>14, <1>15, <1>16, <1>17, Zenon DEF SettledInv

(* Publishing the handle in g_job_handles: it is new to every slot, and    *)
(* nobody else fills the slot unless its old job is still marked.          *)
LEMMA SubmitPublishStep ==
    ASSUME BaseInv, BaseInv', SettledInv, NEW c \in Cores, Settled, SubmitPublish(c)
    PROVE  SettledInv'
<1> DEFINE b == me[c].slot
           h == me[c].h
<1>0. ScanSound(c) /\ Place(pc[c], me[c]) /\ pc[c] = "publish" /\ made \in Nat /\ c \in Submitters
  BY DEF SettledInv, ScansSound, BaseInv, TypeOK, Places, SubmitPublish, Submitters, Submitting
<1>1. b \in Slots /\ h # 0
  BY <1>0, Zenon DEF Place, Submitting
<1>2. pc'[c] = "idle" /\ me'[c] = Idle /\ Only(c)
  BY Moved, Zenon DEF SubmitPublish
<1>3. Idle.work = 0 /\ Idle.gone = ANY
  BY Zenon DEF Idle
<1>4. UNCHANGED <<used, data, made, done>> /\ handle'[b] = h /\ \A s \in Slots \ {b} : handle'[s] = handle[s]
  BY <1>1, ZenonT(60) DEF SubmitPublish, Settled, BaseInv, TypeOK
<1>5. /\ h <= made /\ data[b].job # 0 /\ (handle[b] = 0 => used[b])
      /\ \A s \in Slots : handle[s] # h /\ (data[s].job = h => s = b)
      /\ \A d \in Submitters : me[d].h = h => d = c
  BY <1>0 DEF SettledInv, SubmitsSound
<1>6. handle[b] = 0 => Fillers[b] = {}
  BY <1>0, <1>1 DEF SettledInv, SubmitsSound, Fillers, Submitters, Submitting
<1> HIDE DEF b, h
<1>7. /\ Submitters' = Submitters \ {c}
      /\ \A d \in Submitters' : me'[d] = me[d] /\ pc'[d] = pc[d] /\ d \in Submitters /\ me[d].h # h
  BY <1>2, <1>5, ZenonT(60) DEF Submitters, Submitting, Only
<1>8. \A s \in Slots : Homes[s] \subseteq Homes'[s]
  <2>1. \A s \in Slots : handle'[s] = handle[s] \/ (c \in Submitters /\ handle'[s] = me[c].h)
    BY <1>0, <1>1, <1>4, Zenon DEF h
  <2>2. c \notin Submitters'
    BY <1>7, ZenonT(60)
  <2> QED
    BY <1>0, <1>2, <1>4, <2>1, <2>2, HomesKept
<1>9. \A s \in Slots, d \in Cores : d \in Holders'[s] <=> d \in Holders[s]
  BY <1>0, <1>2, <1>4 DEF Holders, Only, Working, Claiming
<1>10. \A s \in Slots : Holders'[s] = Holders[s] /\ Holders[s] \subseteq Cores /\ c \notin Holders[s]
  BY <1>0, <1>9, Zenon DEF Holders, Claiming, Working
<1>11. \A s \in Slots : Fillers'[s] = Fillers[s]
  BY <1>0, <1>2 DEF Fillers, Only
<1>12. HandlesSound'
  <2>1. \A s \in Slots : handle'[s] <= made /\ (handle'[s] # 0 => data[s].job # 0)
    BY <1>1, <1>4, <1>5, Zenon DEF SettledInv, HandlesSound
  <2>2. \A s, t \in Slots : handle'[s] # 0 /\ handle'[s] \in {handle'[t], data[t].job} => s = t
    BY <1>4, <1>5 DEF SettledInv, HandlesSound
  <2> QED
    BY <1>4, <2>1, <2>2, Zenon DEF SettledInv, HandlesSound
<1>13. SubmitsSound'
  <2>0. \A d \in Submitters : me[d].slot \in Slots
    BY Zenon DEF Submitters, BaseInv, Places, Place, Submitting
  <2>1. ASSUME NEW d \in Submitters'
        PROVE  /\ me[d].h <= made
               /\ \A s \in Slots : handle'[s] # me[d].h /\ (data[s].job = me[d].h => pc[d] = "publish" /\ s = me[d].slot)
               /\ \A e \in Submitters' : me[e].h = me[d].h => e = d
               /\ pc[d] = "publish" => data[me[d].slot].job # 0
               /\ pc[d] = "fill" \/ handle'[me[d].slot] = 0 => used[me[d].slot]
    BY <1>1, <1>4, <1>7, <2>0, <2>1 DEF SettledInv, SubmitsSound
  <2>2. \A d, e \in Submitters' : pc[d] = "fill" /\ me[d].slot = me[e].slot
           => d = e \/ (pc[e] = "publish" /\ handle'[me[d].slot] # 0)
    BY <1>1, <1>4, <1>7, <2>0 DEF SettledInv, SubmitsSound
  <2> QED
    BY <1>4, <1>7, <2>1, <2>2, SMTT(30) DEF SubmitsSound
<1>14. ScansSound'
  <2>1. ScanSound(c)'
    BY <1>2, <1>3, Zenon DEF ScanSound, Claiming, Working
  <2> QED
    BY <1>2, <1>8, <1>10, <2>1, ScanKept, Zenon DEF SettledInv, ScansSound, Only
<1>15. HoldersSound'
  <2> SUFFICES ASSUME NEW s \in Slots
               PROVE  /\ \A d \in Holders[s] : /\ used[s] /\ handle'[s] # 0 /\ data[s].dispatched /\ Fillers[s] = {}
                                               /\ Holders[s] = {d}
                      /\ handle'[s] # 0 /\ (~ used[s] \/ Fillers[s] # {}) => data[s].dispatched
    BY <1>4, <1>10, <1>11 DEF HoldersSound
  <2> QED
    BY <1>1, <1>4, <1>5, <1>6, ZenonT(60) DEF SettledInv, HoldersSound
<1>16. DoneSound'
  BY <1>2, <1>4, <1>7, <1>10 DEF SettledInv, DoneSound, Only
<1> QED
  BY <1>12, <1>13, <1>14, <1>15, <1>16, Zenon DEF SettledInv
-----------------------------------------------------------------------------
(* The invariant holds at the start, of a machine whose queue is preloaded.*)
LEMMA SettledInit == Init /\ BaseInv => SettledInv
<1> SUFFICES ASSUME Init, BaseInv PROVE SettledInv
  BY Zenon
<1>1. Len(Preload) \in Nat /\ made = Len(Preload) /\ done = {}
  BY MachineFields DEF Init, BaseInv, Preload
<1>2. \A s \in Slots : IF s <= Len(Preload) THEN used[s] /\ handle[s] = s /\ data[s].job = s
                                            ELSE handle[s] = 0 /\ data[s].job = 0
  BY Zenon DEF Init, fresh
<1>3. \A c \in Cores : pc[c] = "idle" /\ me[c].work = 0 /\ me[c].gone = ANY
  BY Zenon DEF Init, Idle
<1>4. Submitters = {} /\ \A s \in Slots : Holders[s] = {} /\ Fillers[s] = {}
  BY <1>3, Zenon DEF Submitters, Holders, Fillers, Submitting, Claiming, Working
<1>5. HandlesSound
  BY <1>1, <1>2 DEF HandlesSound, Slots
<1>6. ScansSound
  BY <1>3, Zenon DEF ScansSound, ScanSound, Claiming, Working
<1>7. HoldersSound
  BY <1>2, <1>4, Zenon DEF HoldersSound
<1> QED
  BY <1>1, <1>4, <1>5, <1>6, <1>7, Zenon DEF SettledInv, SubmitsSound, DoneSound

(* Every step of a settled machine keeps it.                               *)
LEMMA SettledStep == BaseInv /\ BaseInv' /\ SettledInv /\ Settled /\ [Next]_vars => SettledInv'
<1> SUFFICES ASSUME BaseInv, BaseInv', SettledInv, Settled, [Next]_vars PROVE SettledInv'
  BY Zenon
<1>1. CASE UNCHANGED vars
  <2>1. UNCHANGED <<used, handle, data, made, done, pc, me>>
    BY <1>1, Zenon DEF vars
  <2>2. UNCHANGED <<Submitters, Holders, Fillers>>
    BY <2>1, Zenon DEF Submitters, Holders, Fillers
  <2>3. UNCHANGED Homes
    BY <2>1, <2>2, Zenon DEF Homes
  <2>4. HandlesSound' /\ SubmitsSound'
    BY <2>1, <2>2, SMTT(30) DEF SettledInv, HandlesSound, SubmitsSound
  <2>5. ScansSound'
    BY <2>1, <2>2, <2>3 DEF SettledInv, ScansSound, ScanSound
  <2>6. HoldersSound' /\ DoneSound'
    BY <2>1, <2>2, Zenon DEF SettledInv, HoldersSound, DoneSound
  <2> QED
    BY <2>4, <2>5, <2>6, Zenon DEF SettledInv
<1>2. ASSUME NEW c \in Cores,
             GetNextJob(c) \/ Finish(c) \/ ReportLookup(c) \/ ReportApply(c) \/ Submit(c) \/ Leave(c)
      PROVE  SettledInv'
  <2>1. ~ Leave(c)
    BY Zenon DEF Leave, Settled, SettledInv, ScansSound, ScanSound, SweepSlot, SweepCancel, SweepUnassign
  <2> QED
    BY <1>2, <2>1, ScanSteps, WorkSteps, ScanClaimStep, ReportApplyStep, FinishRecordStep, DestroyCasStep,
       SubmitClaimStep, SubmitFillStep, SubmitPublishStep, Zenon DEF GetNextJob, Finish, Submit
<1> QED
  BY <1>1, <1>2, Zenon DEF Next

(* The machine at hand never changes.                                      *)
LEMMA SameMachine == [Next]_vars => UNCHANGED machine
BY ZenonT(60) DEF Next, vars, GetNextJob, Finish, Submit, Leave, StartScan, ScanSlot, ScanJob, ScanClaim, Assign, Bind, Deliver,
       FinishLookup, FinishRelease, FinishRecord, DestroyFind, DestroyCas, ReportLookup, ReportApply,
       SubmitClaim, SubmitFill, SubmitPublish, LeaveNode, SweepSlot, SweepCancel, SweepUnassign

(* The job slots are sound in every settled machine.                       *)
LEMMA SettledSound == Spec => [](BaseInv /\ (Settled => SettledInv))
<1>1. Init => BaseInv /\ (Settled => SettledInv)
  BY BaseInit, SettledInit, Zenon
<1>2. BaseInv /\ (Settled => SettledInv) /\ [Next]_vars => (BaseInv /\ (Settled => SettledInv))'
  <2>1. [Next]_vars => (Settled' => Settled)
    BY SameMachine, Zenon DEF Settled
  <2> QED
    BY <2>1, BaseStep, SettledStep, Zenon
<1> QED
  BY <1>1, <1>2, PTL DEF Spec

(* No submission runs on two cores at once, what pick_next_for_node's      *)
(* comment says of the compare-and-swap on dispatched: in every machine of *)
(* any number of cores where no node leaves and no submission is refused.  *)
THEOREM DispatchedOnce == Spec => [](Settled => DispatchExclusive)
<1>1. BaseInv /\ SettledInv => DispatchExclusive
  <2> SUFFICES ASSUME BaseInv, SettledInv, NEW c \in Cores, NEW d \in Cores, c # d, me[c].work # 0, me[c].work = me[d].work
               PROVE  FALSE
    BY Zenon DEF DispatchExclusive
  <2>1. pc[c] \in Working /\ pc[d] \in Working
    BY Zenon DEF SettledInv, ScansSound, ScanSound
  <2>2. PICK s \in Slots : c \in Holders[s]
    BY <2>1, Zenon DEF SettledInv, ScansSound, ScanSound
  <2>3. me[c].work = data[s].job
    BY <2>1, <2>2, Zenon DEF Holders, Working, Claiming
  <2>4. d \in Holders[s]
    BY <2>1, <2>3, Zenon DEF Holders
  <2> QED
    BY <2>2, <2>4 DEF SettledInv, HoldersSound
<1> QED
  BY <1>1, SettledSound, PTL

(* A finished job is never run again, by whichever core scanned the slots  *)
(* before it finished: destroy_job_object leaves dispatched set.           *)
THEOREM FinishedOnce == Spec => [](Settled => FinishedIsNotRun)
<1>1. BaseInv /\ SettledInv => FinishedIsNotRun
  <2> SUFFICES ASSUME BaseInv, SettledInv, NEW c \in Cores, pc[c] = "run", me[c].work \in done
               PROVE  FALSE
    BY Zenon DEF FinishedIsNotRun
  <2>1. PICK s \in Slots : c \in Holders[s]
    BY Zenon DEF SettledInv, ScansSound, ScanSound, Working
  <2>2. me[c].work = data[s].job
    BY <2>1, Zenon DEF Holders, Working, Claiming
  <2> QED
    BY <2>1, <2>2, Zenon DEF SettledInv, DoneSound
<1> QED
  BY <1>1, SettledSound, PTL

-----------------------------------------------------------------------------
(* The preloaded jobs that are not over: neither completed nor tied to a   *)
(* node that left.                                                         *)
Live == {h \in 1 .. Len(Preload) : h \notin done /\ Preload[h].affinity \in joined \cup {ANY}}

(* No core is about to take a live job's slot away.                        *)
Spares(c) ==
    /\ pc[c] \in Submitting => me[c].h > Len(Preload)
    /\ me[c].gone \notin joined /\ (pc[c] \in {"sweep", "cancel", "unassign"} => me[c].gone # ANY)
    /\ pc[c] \in {"cancel", "destroy", "cas"} => me[c].h \notin Live
    /\ pc[c] \in Submitting \cup {"cas"} => me[c].slot \notin Live

(* What makes CompletionKept inductive: a live job sits where it was put.  *)
LiveInv ==
    /\ Len(Preload) <= made
    /\ \A s \in Slots : handle[s] \in 1 .. Len(Preload) => handle[s] = s
    /\ \A h \in Live : used[h] /\ handle[h] = h /\ data[h].spec = Preload[h]
    /\ \A c \in Cores : Spares(c)

(* A step leaves the slots of live jobs as they are, and publishes no job  *)
(* under the handle of a preloaded one.                                    *)
LeavesLive ==
    /\ UNCHANGED machine /\ made <= made' /\ done \subseteq done' /\ joined' \subseteq joined
    /\ \A h \in Live : used'[h] = used[h] /\ handle'[h] = handle[h] /\ data'[h].spec = data[h].spec
    /\ \A s \in Slots : handle'[s] = handle[s] \/ handle'[s] > Len(Preload)

(* Such a step of a core that stays harmless keeps LiveInv.                *)
LEMMA LiveStep ==
    ASSUME BaseInv, BaseInv', LiveInv, NEW c \in Cores, Only(c), Spares(c)', LeavesLive
    PROVE  LiveInv'
<1>1. Len(Preload) \in Nat /\ made \in Nat /\ made' \in Nat /\ Preload' = Preload
  BY MachineFields DEF BaseInv, TypeOK, Preload, LeavesLive
<1>2. Live' \subseteq Live
  BY <1>1, Zenon DEF Live, LeavesLive
<1>3. Len(Preload') <= made' /\ \A s \in Slots : handle'[s] \in 1 .. Len(Preload') => handle'[s] = s
  <2>1. /\ Len(Preload) <= made /\ made <= made'
        /\ \A s \in Slots : handle[s] \in 1 .. Len(Preload) => handle[s] = s
        /\ \A s \in Slots : handle'[s] = handle[s] \/ handle'[s] > Len(Preload)
    BY ZenonT(30) DEF LiveInv, LeavesLive
  <2> QED
    BY <1>1, <2>1
<1>4. \A h \in Live' : used'[h] /\ handle'[h] = h /\ data'[h].spec = Preload'[h]
  BY <1>1, <1>2, Zenon DEF LiveInv, LeavesLive
<1>5. ASSUME NEW d \in Cores, d # c PROVE Spares(d)'
  <2>1. pc'[d] = pc[d] /\ me'[d] = me[d] /\ Spares(d)
    BY <1>5, Zenon DEF Only, LiveInv
  <2> QED
    BY <1>1, <1>2, <2>1, Zenon DEF Spares, LeavesLive
<1> QED
  BY <1>3, <1>4, <1>5, Zenon DEF LiveInv

(* A core that is not about to submit or destroy takes nothing away.       *)
LEMMA Harmless ==
    ASSUME BaseInv, BaseInv', LiveInv, NEW c \in Cores, UNCHANGED joined,
           pc'[c] \notin Submitting \cup {"sweep", "cancel", "unassign", "destroy", "cas"}, me'[c].gone \in {ANY, me[c].gone}
    PROVE  Spares(c)'
<1>1. ANY \notin joined /\ me[c].gone \notin joined
  <2>1. TypeOK
    BY Zenon DEF BaseInv
  <2>2. ANY \notin Cores /\ joined \subseteq Cores
    BY <2>1, MachineFields, Zenon DEF TypeOK
  <2> QED
    BY <2>2, Zenon DEF LiveInv, Spares
<1>2. me'[c].gone \notin joined'
  BY <1>1, ZenonT(60)
<1> QED
  BY <1>2, Zenon DEF Spares

(* What a core may rely on while LiveInv holds.                            *)
LEMMA LiveFacts ==
    ASSUME BaseInv, BaseInv', LiveInv, NEW c \in Cores
    PROVE  /\ Spares(c) /\ Place(pc[c], me[c]) /\ me[c] \in Local /\ made \in Nat /\ Len(Preload) \in Nat
           /\ Live \subseteq Slots /\ ANY \notin joined /\ ANY \notin joined' /\ Idle.gone = ANY
<1>1. /\ Spares(c) /\ Place(pc[c], me[c]) /\ me[c] \in Local /\ TypeOK /\ made \in 0 .. MaxJobs
      /\ joined \subseteq Cores /\ joined' \subseteq Cores /\ Idle.gone = ANY
  BY Zenon DEF LiveInv, BaseInv, TypeOK, Places, Idle
<1>2. /\ Preload \in Seq(JobSpec) /\ Len(Preload) <= JobPool /\ JobPool \in Nat /\ MaxJobs \in Nat /\ ANY \notin Cores
  BY <1>1, MachineFields, Zenon DEF Preload
<1>3. made \in Nat /\ Len(Preload) \in Nat
  BY <1>1, <1>2
<1>4. 1 .. Len(Preload) \subseteq Slots
  BY <1>2, <1>3 DEF Slots
<1> QED
  BY <1>1, <1>2, <1>3, <1>4, Zenon DEF Live

(* A step that changes no slot but for who may run its job.                *)
Quiet == /\ UNCHANGED <<used, handle, made, done, joined, machine>>
         /\ \A s \in Slots : data'[s].spec = data[s].spec

(* A quiet step of a core that stays harmless keeps LiveInv.               *)
LEMMA QuietStep ==
    ASSUME BaseInv, BaseInv', LiveInv, NEW c \in Cores,
           Quiet, Only(c), Spares(c)'
    PROVE  LiveInv'
<1>0. /\ Spares(c) /\ Place(pc[c], me[c]) /\ me[c] \in Local /\ made \in Nat /\ Len(Preload) \in Nat
      /\ Live \subseteq Slots /\ ANY \notin joined /\ ANY \notin joined' /\ Idle.gone = ANY
  BY LiveFacts, Zenon
<1>1. LeavesLive
  <2>1. UNCHANGED <<used, handle, made, done, joined, machine>> /\ \A s \in Slots : data'[s].spec = data[s].spec
    BY Zenon DEF Quiet
  <2>2. made <= made
    BY <1>0
  <2> QED
    BY <1>0, <2>1, <2>2, Zenon DEF LeavesLive
<1> QED
  BY <1>1, LiveStep, Zenon

(* So does one that goes back to idle.                                     *)
LEMMA QuietIdle ==
    ASSUME BaseInv, BaseInv', LiveInv, NEW c \in Cores,
           Quiet, Goto(c, "idle"), Set(c, Idle)
    PROVE  LiveInv'
<1>0. /\ Spares(c) /\ Place(pc[c], me[c]) /\ me[c] \in Local /\ made \in Nat /\ Len(Preload) \in Nat
      /\ Live \subseteq Slots /\ ANY \notin joined /\ ANY \notin joined' /\ Idle.gone = ANY
  BY LiveFacts, Zenon
<1>1. pc'[c] = "idle" /\ me'[c] = Idle /\ Only(c)
  BY Moved, Zenon
<1>2. Spares(c)'
  BY <1>0, <1>1, Harmless, Zenon DEF Submitting, Quiet
<1> QED
  BY <1>1, <1>2, QuietStep, Zenon

(* The scan reads slots, and the lookups of a finished job only search.    *)
LEMMA LiveScan ==
    ASSUME BaseInv, BaseInv', LiveInv, NEW c \in Cores,
           StartScan(c) \/ ScanSlot(c) \/ ScanJob(c) \/ Deliver(c) \/ FinishLookup(c) \/ ReportLookup(c)
    PROVE  LiveInv'
<1>0. /\ Spares(c) /\ Place(pc[c], me[c]) /\ me[c] \in Local /\ made \in Nat /\ Len(Preload) \in Nat
      /\ Live \subseteq Slots /\ ANY \notin joined /\ ANY \notin joined' /\ Idle.gone = ANY
  BY LiveFacts, Zenon
<1>1. Quiet
  BY Zenon DEF Quiet, StartScan, ScanSlot, ScanJob, Deliver, FinishLookup, ReportLookup, slotVars
<1>2. \E l \in {"idle", "scan", "read", "run", "release", "apply"} : \E r : Goto(c, l) /\ Set(c, r) /\ r.gone \in {ANY, me[c].gone}
  <2>0. CASE StartScan(c)
    <3>1. [Idle EXCEPT !.slot = 1].gone = ANY
      BY Zenon DEF Idle
    <3> QED
      BY <2>0, <3>1, Zenon DEF StartScan
  <2>1. CASE Deliver(c)
    <3> DEFINE r == [Idle EXCEPT !.id = me[c].bestH, !.work = data[me[c].best].job]
    <3>1. r.gone = ANY
      BY Zenon DEF Idle
    <3>2. (Goto(c, "idle") /\ Set(c, Idle)) \/ (Goto(c, "run") /\ Set(c, r))
      BY <2>1, Zenon DEF Deliver
    <3> QED
      BY <1>0, <3>1, <3>2, Zenon
  <2>2. CASE ScanSlot(c)
    <3>1. \A h : [me[c] EXCEPT !.h = h].gone = me[c].gone /\ [me[c] EXCEPT !.slot = h].gone = me[c].gone
      BY <1>0, Zenon DEF Local
    <3>2. UNCHANGED pc => Goto(c, "scan")
      BY <2>2, Zenon DEF ScanSlot, Goto, BaseInv, TypeOK
    <3> QED
      BY <2>2, <3>1, <3>2, Zenon DEF ScanSlot
  <2>3. CASE ScanJob(c)
    <3> DEFINE next == [me[c] EXCEPT !.slot = @ + 1]
               found == [next EXCEPT !.best = me[c].slot, !.bestH = me[c].h]
    <3>1. next.gone = me[c].gone /\ found.gone = me[c].gone
      BY <1>0, Zenon DEF Local
    <3> HIDE DEF next, found
    <3>2. Goto(c, "scan") /\ (Set(c, next) \/ Set(c, found))
      BY <2>3, Zenon DEF ScanJob, next, found
    <3> QED
      BY <3>1, <3>2, Zenon
  <2>4. CASE FinishLookup(c) \/ ReportLookup(c)
    <3>1. \A x : [me[c] EXCEPT !.bound = x].gone = me[c].gone /\ [me[c] EXCEPT !.slot = x].gone = me[c].gone
      BY <1>0, Zenon DEF Local
    <3> QED
      BY <1>0, <2>4, <3>1, Zenon DEF FinishLookup, ReportLookup
  <2> QED
    BY <2>0, <2>1, <2>2, <2>3, <2>4, Zenon
<1>3. Only(c) /\ pc'[c] \in {"idle", "scan", "read", "run", "release", "apply"} /\ me'[c].gone \in {ANY, me[c].gone}
  BY <1>2, Moved, Zenon
<1>4. Spares(c)'
  BY <1>1, <1>3, Harmless, Zenon DEF Submitting, Quiet
<1> QED
  BY QuietStep, <1>1, <1>3, <1>4, Zenon

(* Claiming a job changes its dispatched, node and bound fields only.      *)
LEMMA LiveClaim ==
    ASSUME BaseInv, BaseInv', LiveInv, NEW c \in Cores,
           ScanClaim(c) \/ Assign(c) \/ Bind(c)
    PROVE  LiveInv'
<1>0. /\ Spares(c) /\ Place(pc[c], me[c]) /\ me[c] \in Local /\ made \in Nat /\ Len(Preload) \in Nat
      /\ Live \subseteq Slots /\ ANY \notin joined /\ ANY \notin joined' /\ Idle.gone = ANY
  BY LiveFacts, Zenon
<1>1. me[c].best \in Slots \/ UNCHANGED data
  BY <1>0 DEF ScanClaim, Assign, Bind, Place, Claiming, Slots
<1>2. \A s \in Slots : data'[s].spec = data[s].spec
  <2>1. CASE ScanClaim(c)
    BY <1>1, <2>1, SMTT(30) DEF ScanClaim, BaseInv, TypeOK, JobData
  <2>2. CASE Assign(c)
    BY <1>1, <2>2 DEF Assign, BaseInv, TypeOK, JobData
  <2>3. CASE Bind(c)
    BY <1>1, <2>3 DEF Bind, BaseInv, TypeOK, JobData
  <2> QED
    BY <2>1, <2>2, <2>3, Zenon
<1>3. Quiet
  BY <1>2, Zenon DEF Quiet, ScanClaim, Assign, Bind
<1>4. \/ Goto(c, "idle") /\ Set(c, Idle)
      \/ Only(c) /\ me'[c] = me[c] /\ pc'[c] \in {"assign", "bind", "deliver"}
  BY DEF ScanClaim, Assign, Bind, Goto, Only, BaseInv, TypeOK
<1>5. CASE Only(c) /\ me'[c] = me[c] /\ pc'[c] \in {"assign", "bind", "deliver"}
  BY QuietStep, <1>3, <1>5, Harmless, Zenon DEF Submitting, Quiet
<1> QED
  BY QuietIdle, <1>3, <1>4, <1>5, Zenon

(* Releasing the binding of a finished job.                                *)
LEMMA LiveRelease ==
    ASSUME BaseInv, BaseInv', LiveInv, NEW c \in Cores,
           FinishRelease(c)
    PROVE  LiveInv'
<1>1. Quiet /\ Only(c) /\ me'[c] = me[c] /\ pc'[c] = "record"
  BY Zenon DEF Quiet, FinishRelease, slotVars, Goto, Only, BaseInv, TypeOK
<1> QED
  BY QuietStep, <1>1, Harmless, Zenon DEF Submitting, Quiet

(* The result is recorded before the job object is destroyed, so the job is *)
(* not live when destroy_job_object starts.                                *)
LEMMA LiveRecord ==
    ASSUME BaseInv, BaseInv', LiveInv, NEW c \in Cores,
           FinishRecord(c)
    PROVE  LiveInv'
<1>0. /\ Spares(c) /\ Place(pc[c], me[c]) /\ me[c] \in Local /\ made \in Nat /\ Len(Preload) \in Nat
      /\ Live \subseteq Slots /\ ANY \notin joined /\ ANY \notin joined' /\ Idle.gone = ANY
  BY LiveFacts, Zenon
<1> DEFINE r == [me[c] EXCEPT !.slot = 1, !.h = me[c].id]
<1>1. pc'[c] = "destroy" /\ me'[c] = r /\ Only(c)
  BY Moved, Zenon DEF FinishRecord
<1>2. r.gone = me[c].gone /\ r.h = me[c].id
  BY <1>0, Zenon DEF Local
<1>3. me[c].id \notin Live'
  BY Zenon DEF FinishRecord, Live
<1>4. Spares(c)'
  BY <1>0, <1>1, <1>2, <1>3, Zenon DEF FinishRecord, Spares, Submitting
<1>5. LeavesLive
  BY <1>0 DEF FinishRecord, slotVars, LeavesLive
<1> QED
  BY <1>1, <1>4, <1>5, LiveStep, Zenon

(* destroy_job_object returns to the sweep of leave_node or to its caller. *)
LEMMA ReturnSpares ==
    ASSUME BaseInv, BaseInv', LiveInv, NEW c \in Cores,
           DestroyReturn(c), UNCHANGED joined
    PROVE  Only(c) /\ Spares(c)'
<1>0. /\ Spares(c) /\ Place(pc[c], me[c]) /\ me[c] \in Local /\ made \in Nat /\ Len(Preload) \in Nat
      /\ Live \subseteq Slots /\ ANY \notin joined /\ ANY \notin joined' /\ Idle.gone = ANY
  BY LiveFacts, Zenon
<1>1. CASE me[c].gone = ANY
  <2>1. pc'[c] = "idle" /\ me'[c] = Idle /\ Only(c)
    BY <1>1, Moved, Zenon DEF DestroyReturn
  <2> QED
    BY <1>0, <2>1, Harmless, Zenon DEF Submitting
<1>2. CASE me[c].gone # ANY
  <2> DEFINE r == [me[c] EXCEPT !.slot = 0, !.h = 0, !.bound = FALSE, !.best = @ + 1]
  <2>1. pc'[c] = "sweep" /\ me'[c] = r /\ Only(c)
    BY <1>2, Moved, Zenon DEF DestroyReturn
  <2>2. r.gone = me[c].gone
    BY <1>0, Zenon DEF Local
  <2> QED
    BY <1>0, <1>2, <2>1, <2>2, Zenon DEF Spares, Submitting
<1> QED
  BY <1>1, <1>2, Zenon

(* destroy_job_object goes on with the next slot.                          *)
LEMMA NextSpares ==
    ASSUME BaseInv, BaseInv', LiveInv, NEW c \in Cores,
           pc[c] \in {"destroy", "cas"}, Goto(c, "destroy"), Set(c, [me[c] EXCEPT !.slot = @ + 1]), UNCHANGED <<done, joined, machine>>
    PROVE  Only(c) /\ Spares(c)'
<1>0. /\ Spares(c) /\ Place(pc[c], me[c]) /\ me[c] \in Local /\ made \in Nat /\ Len(Preload) \in Nat
      /\ Live \subseteq Slots /\ ANY \notin joined /\ ANY \notin joined' /\ Idle.gone = ANY
  BY LiveFacts, Zenon
<1> DEFINE r == [me[c] EXCEPT !.slot = @ + 1]
<1>1. pc'[c] = "destroy" /\ me'[c] = r /\ Only(c)
  BY Moved, Zenon
<1>2. r.gone = me[c].gone /\ r.h = me[c].h
  BY <1>0, Zenon DEF Local
<1>3. Live' = Live
  BY Zenon DEF Live, Preload
<1> QED
  BY <1>0, <1>1, <1>2, <1>3, Zenon DEF Spares, Submitting

(* It only looks for the handle it was given, which is no live job's.      *)
LEMMA LiveFind ==
    ASSUME BaseInv, BaseInv', LiveInv, NEW c \in Cores,
           DestroyFind(c)
    PROVE  LiveInv'
<1>0. /\ Spares(c) /\ Place(pc[c], me[c]) /\ me[c] \in Local /\ made \in Nat /\ Len(Preload) \in Nat
      /\ Live \subseteq Slots /\ ANY \notin joined /\ ANY \notin joined' /\ Idle.gone = ANY
  BY LiveFacts, Zenon
<1>1. Quiet /\ Live' = Live
  BY Zenon DEF Quiet, DestroyFind, slotVars, Live, Preload
<1>2. CASE me[c].slot \notin Slots
  BY QuietStep, ReturnSpares, <1>1, <1>2, Zenon DEF DestroyFind
<1>3. CASE me[c].slot \in Slots /\ me[c].slot \in Found(me[c].h)
  <2>1. pc[c] = "destroy" /\ pc'[c] = "cas" /\ me'[c] = me[c] /\ Only(c)
    BY <1>3, Zenon DEF DestroyFind, Goto, Only, BaseInv, TypeOK
  <2>2. me[c].slot \notin Live
    BY <1>0, <1>3, <2>1, Zenon DEF Spares, Found, LiveInv
  <2>3. Spares(c)'
    BY <1>0, <1>1, <2>1, <2>2, Zenon DEF DestroyFind, Spares, Submitting
  <2> QED
    BY QuietStep, <1>1, <2>1, <2>3, Zenon
<1>4. CASE me[c].slot \in Slots /\ me[c].slot \notin Found(me[c].h)
  <2>1. pc[c] = "destroy" /\ Goto(c, "destroy")
    BY <1>4, Zenon DEF DestroyFind, Goto, BaseInv, TypeOK
  <2> QED
    BY QuietStep, NextSpares, <1>1, <1>4, <2>1, Zenon DEF DestroyFind
<1> QED
  BY <1>2, <1>3, <1>4, Zenon

(* It frees the slot it found, which holds no live job.                    *)
LEMMA LiveCas ==
    ASSUME BaseInv, BaseInv', LiveInv, NEW c \in Cores,
           DestroyCas(c)
    PROVE  LiveInv'
<1>0. /\ Spares(c) /\ Place(pc[c], me[c]) /\ me[c] \in Local /\ made \in Nat /\ Len(Preload) \in Nat
      /\ Live \subseteq Slots /\ ANY \notin joined /\ ANY \notin joined' /\ Idle.gone = ANY
  BY LiveFacts, Zenon
<1>1. me[c].slot \in Slots /\ me[c].slot \notin Live
  BY <1>0, Zenon DEF DestroyCas, Place, Spares
<1>2. \A h \in Live : used'[h] = used[h]
  BY <1>0, <1>1, Zenon DEF DestroyCas, BaseInv, TypeOK
<1>3. Only(c) /\ Spares(c)'
  BY ReturnSpares, NextSpares, Zenon DEF DestroyCas
<1>4. LeavesLive
  BY <1>0, <1>2 DEF DestroyCas, LeavesLive
<1> QED
  BY <1>3, <1>4, LiveStep, Zenon

(* report_job_result writes into the slot it found.                        *)
LEMMA LiveReport ==
    ASSUME BaseInv, BaseInv', LiveInv, NEW c \in Cores,
           ReportApply(c)
    PROVE  LiveInv'
<1>0. /\ Spares(c) /\ Place(pc[c], me[c]) /\ me[c] \in Local /\ made \in Nat /\ Len(Preload) \in Nat
      /\ Live \subseteq Slots /\ ANY \notin joined /\ ANY \notin joined' /\ Idle.gone = ANY
  BY LiveFacts, Zenon
<1>1. me[c].slot \in Slots
  BY <1>0, Zenon DEF ReportApply, Place
<1>2. \A s \in Slots : data'[s].spec = data[s].spec
  BY <1>1 DEF ReportApply, BaseInv, TypeOK, JobData
<1> QED
  BY QuietIdle, <1>2, Zenon DEF ReportApply, Quiet

(* create_job takes a slot that is not used.                               *)
LEMMA LiveReserve ==
    ASSUME BaseInv, BaseInv', LiveInv, NEW c \in Cores,
           NEW s \in Slots, SubmitClaim(c, s)
    PROVE  LiveInv'
<1>0. /\ Spares(c) /\ Place(pc[c], me[c]) /\ me[c] \in Local /\ made \in Nat /\ Len(Preload) \in Nat
      /\ Live \subseteq Slots /\ ANY \notin joined /\ ANY \notin joined' /\ Idle.gone = ANY
  BY LiveFacts, Zenon
<1> DEFINE r == [Idle EXCEPT !.slot = s, !.h = made + 1]
<1>1. pc'[c] = "fill" /\ me'[c] = r /\ Only(c)
  BY Moved, Zenon DEF SubmitClaim
<1>2. r.gone = ANY /\ r.h = made + 1 /\ r.slot = s
  BY Zenon DEF Idle
<1>3. s \notin Live /\ Live' = Live /\ made + 1 > Len(Preload)
  BY <1>0 DEF SubmitClaim, LiveInv, Live, Preload
<1>4. Spares(c)'
  BY <1>0, <1>1, <1>2, <1>3, Zenon DEF SubmitClaim, Spares, Submitting, Preload
<1>5. \A h \in Live : used'[h] = used[h]
  BY <1>0, <1>3, Zenon DEF SubmitClaim, BaseInv, TypeOK
<1>6. made <= made' /\ UNCHANGED <<machine, handle, data, done, joined>>
  BY <1>0 DEF SubmitClaim
<1>7. LeavesLive
  BY <1>5, <1>6, Zenon DEF LeavesLive
<1> QED
  BY <1>1, <1>4, <1>7, LiveStep, Zenon

(* It fills that slot, which nobody else took in between.                  *)
LEMMA LiveFill ==
    ASSUME BaseInv, BaseInv', LiveInv, NEW c \in Cores,
           NEW spec, SubmitFill(c, spec)
    PROVE  LiveInv'
<1>0. /\ Spares(c) /\ Place(pc[c], me[c]) /\ me[c] \in Local /\ made \in Nat /\ Len(Preload) \in Nat
      /\ Live \subseteq Slots /\ ANY \notin joined /\ ANY \notin joined' /\ Idle.gone = ANY
  BY LiveFacts, Zenon
<1>1. pc[c] = "fill" /\ pc'[c] = "publish" /\ me'[c] = me[c] /\ Only(c) /\ Live' = Live
  BY Zenon DEF SubmitFill, Goto, Only, BaseInv, TypeOK, Live, Preload
<1>2. me[c].slot \in Slots /\ me[c].slot \notin Live
  BY <1>0, <1>1, Zenon DEF Place, Spares, Submitting
<1>3. Spares(c)'
  BY <1>0, <1>1, Zenon DEF SubmitFill, Spares, Submitting, Preload
<1>4. \A h \in Live : data'[h] = data[h]
  BY <1>0, <1>2, Zenon DEF SubmitFill, BaseInv, TypeOK
<1>5. UNCHANGED <<machine, used, handle, done, made, joined>>
  BY Zenon DEF SubmitFill
<1>6. made <= made'
  BY <1>0, <1>5
<1>7. LeavesLive
  BY <1>4, <1>5, <1>6, Zenon DEF LeavesLive
<1> QED
  BY <1>1, <1>3, <1>7, LiveStep, Zenon

(* It publishes the slot under a handle of its own.                        *)
LEMMA LivePublish ==
    ASSUME BaseInv, BaseInv', LiveInv, NEW c \in Cores,
           SubmitPublish(c)
    PROVE  LiveInv'
<1>0. /\ Spares(c) /\ Place(pc[c], me[c]) /\ me[c] \in Local /\ made \in Nat /\ Len(Preload) \in Nat
      /\ Live \subseteq Slots /\ ANY \notin joined /\ ANY \notin joined' /\ Idle.gone = ANY
  BY LiveFacts, Zenon
<1>1. me[c].slot \in Slots /\ me[c].slot \notin Live /\ me[c].h > Len(Preload)
  BY <1>0, ZenonT(30) DEF SubmitPublish, Place, Spares, Submitting
<1>2. pc'[c] = "idle" /\ me'[c] = Idle /\ Only(c)
  BY Moved, Zenon DEF SubmitPublish
<1>3. Spares(c)'
  BY <1>0, <1>2, Harmless, Zenon DEF SubmitPublish, Submitting
<1>4. /\ \A h \in Live : used'[h] = used[h] /\ handle'[h] = handle[h]
      /\ \A s \in Slots : handle'[s] = handle[s] \/ handle'[s] > Len(Preload)
  BY <1>0, <1>1, Zenon DEF SubmitPublish, BaseInv, TypeOK
<1>5. UNCHANGED <<machine, data, done, made, joined>>
  BY Zenon DEF SubmitPublish
<1>6. made <= made'
  BY <1>0, <1>5
<1>7. LeavesLive
  BY <1>4, <1>5, <1>6, Zenon DEF LeavesLive
<1> QED
  BY <1>2, <1>3, <1>7, LiveStep, ZenonT(30)

(* A node leaves: its jobs are live no more.                               *)
LEMMA LiveLeave ==
    ASSUME BaseInv, BaseInv', LiveInv, NEW c \in Cores,
           NEW n \in machine.leavers, LeaveNode(c, n)
    PROVE  LiveInv'
<1>0. /\ Spares(c) /\ Place(pc[c], me[c]) /\ me[c] \in Local /\ made \in Nat /\ Len(Preload) \in Nat
      /\ Live \subseteq Slots /\ ANY \notin joined /\ ANY \notin joined' /\ Idle.gone = ANY
  BY LiveFacts, Zenon
<1> DEFINE r == [Idle EXCEPT !.gone = n, !.best = 1]
<1>1. pc'[c] = "sweep" /\ me'[c] = r /\ Only(c)
  BY Moved, Zenon DEF LeaveNode
<1>2. r.gone = n /\ n \notin joined' /\ n # ANY
  BY <1>0, Zenon DEF Idle, LeaveNode
<1>3. Spares(c)'
  BY <1>1, <1>2, Zenon DEF Spares, Submitting
<1>4. LeavesLive
  BY <1>0 DEF LeaveNode, slotVars, LeavesLive
<1> QED
  BY <1>1, <1>3, <1>4, LiveStep, Zenon

(* The sweep picks the jobs tied to the node that left, and no others.     *)
LEMMA LiveSweep ==
    ASSUME BaseInv, BaseInv', LiveInv, NEW c \in Cores,
           SweepSlot(c)
    PROVE  LiveInv'
<1>0. /\ Spares(c) /\ Place(pc[c], me[c]) /\ me[c] \in Local /\ made \in Nat /\ Len(Preload) \in Nat
      /\ Live \subseteq Slots /\ ANY \notin joined /\ ANY \notin joined' /\ Idle.gone = ANY
  BY LiveFacts, Zenon
<1>1. Quiet /\ Live' = Live /\ pc[c] = "sweep"
  BY Zenon DEF Quiet, SweepSlot, slotVars, Live, Preload
<1>2. CASE me[c].best \notin Slots
  BY QuietIdle, <1>1, <1>2, Zenon DEF SweepSlot
<1>3. CASE me[c].best \in Slots /\ (~ used[me[c].best] \/ ~ Touches(me[c].gone, data[me[c].best]))
  <2> DEFINE r == [me[c] EXCEPT !.best = me[c].best + 1]
  <2>1. Goto(c, "sweep") /\ Set(c, r)
    BY <1>3, Zenon DEF SweepSlot, Goto, BaseInv, TypeOK
  <2>2. pc'[c] = "sweep" /\ me'[c] = r /\ Only(c)
    BY <2>1, Moved, Zenon
  <2>3. r.gone = me[c].gone
    BY <1>0, Zenon DEF Local
  <2>4. Spares(c)'
    BY <1>0, <1>1, <2>2, <2>3, Zenon DEF SweepSlot, Spares, Submitting
  <2> QED
    BY QuietStep, <1>1, <2>2, <2>4, Zenon
<1>4. CASE me[c].best \in Slots /\ used[me[c].best] /\ Touches(me[c].gone, data[me[c].best])
  <2> DEFINE i == me[c].best
             r == [me[c] EXCEPT !.h = handle[i], !.bound = data[i].bound]
             l == IF data[i].spec.affinity = me[c].gone THEN "cancel" ELSE "unassign"
  <2>1. Goto(c, l) /\ Set(c, r)
    BY <1>4, Zenon DEF SweepSlot
  <2>2. pc'[c] = l /\ me'[c] = r /\ Only(c)
    BY <2>1, Moved
  <2>3. r.gone = me[c].gone /\ r.h = handle[i]
    BY <1>0, Zenon DEF Local
  <2>4. me[c].gone # ANY /\ me[c].gone \notin joined
    BY <1>0, <1>1, Zenon DEF Spares
  <2>5. data[i].spec.affinity = me[c].gone => handle[i] \notin Live
    <3> SUFFICES ASSUME data[i].spec.affinity = me[c].gone, handle[i] \in Live PROVE FALSE
      BY Zenon
    <3>1. handle[i] = i
      BY <1>4, Zenon DEF LiveInv, Live
    <3>2. Preload[i].affinity = me[c].gone
      BY <3>1, Zenon DEF LiveInv
    <3> QED
      BY <2>4, <3>1, <3>2, Zenon DEF Live
  <2>6. Spares(c)'
    BY <1>1, <2>2, <2>3, <2>4, <2>5, Zenon DEF SweepSlot, Spares, Submitting
  <2> QED
    BY QuietStep, <1>1, <2>2, <2>6, Zenon
<1> QED
  BY <1>2, <1>3, <1>4, Zenon

(* It cancels one of them.                                                 *)
LEMMA LiveCancel ==
    ASSUME BaseInv, BaseInv', LiveInv, NEW c \in Cores,
           SweepCancel(c)
    PROVE  LiveInv'
<1>0. /\ Spares(c) /\ Place(pc[c], me[c]) /\ me[c] \in Local /\ made \in Nat /\ Len(Preload) \in Nat
      /\ Live \subseteq Slots /\ ANY \notin joined /\ ANY \notin joined' /\ Idle.gone = ANY
  BY LiveFacts, Zenon
<1> DEFINE r == [me[c] EXCEPT !.slot = 1]
<1>1. Quiet /\ Live' = Live
  BY Zenon DEF Quiet, SweepCancel, slotVars, Live, Preload
<1>2. pc[c] = "cancel" /\ pc'[c] = "destroy" /\ me'[c] = r /\ Only(c)
  BY Moved DEF SweepCancel
<1>3. r.gone = me[c].gone /\ r.h = me[c].h
  BY <1>0, Zenon DEF Local
<1>4. Spares(c)'
  BY <1>0, <1>1, <1>2, <1>3, Zenon DEF SweepCancel, Spares, Submitting
<1> QED
  BY QuietStep, <1>1, <1>2, <1>4, Zenon

(* It takes a job that is not tied to the node off that node.              *)
LEMMA LiveUnassign ==
    ASSUME BaseInv, BaseInv', LiveInv, NEW c \in Cores,
           SweepUnassign(c)
    PROVE  LiveInv'
<1>0. /\ Spares(c) /\ Place(pc[c], me[c]) /\ me[c] \in Local /\ made \in Nat /\ Len(Preload) \in Nat
      /\ Live \subseteq Slots /\ ANY \notin joined /\ ANY \notin joined' /\ Idle.gone = ANY
  BY LiveFacts, Zenon
<1> DEFINE r == [me[c] EXCEPT !.best = @ + 1, !.h = 0, !.bound = FALSE]
<1>1. me[c].best \in Slots
  BY <1>0, Zenon DEF SweepUnassign, Place
<1>2. \A s \in Slots : data'[s].spec = data[s].spec
  BY <1>1 DEF SweepUnassign, BaseInv, TypeOK, JobData
<1>3. Quiet
  BY <1>2, Zenon DEF Quiet, SweepUnassign
<1>4. pc'[c] = "sweep" /\ me'[c] = r /\ Only(c)
  BY Moved, Zenon DEF SweepUnassign
<1>5. r.gone = me[c].gone
  BY <1>0, Zenon DEF Local
<1>6. Spares(c)'
  BY <1>0, <1>4, <1>5, Zenon DEF SweepUnassign, Spares, Submitting
<1> QED
  BY QuietStep, <1>3, <1>4, <1>6, Zenon

(* Every step of every core leaves a live job in its slot.                 *)
LEMMA LiveNext == BaseInv /\ BaseInv' /\ LiveInv /\ [Next]_vars => LiveInv'
<1> SUFFICES ASSUME BaseInv, BaseInv', LiveInv, [Next]_vars PROVE LiveInv'
  BY Zenon
<1>1. CASE UNCHANGED vars
  BY <1>1, Zenon DEF vars, LiveInv, Spares, Live, Preload
<1> SUFFICES ASSUME NEW c \in Cores,
                    GetNextJob(c) \/ Finish(c) \/ ReportLookup(c) \/ ReportApply(c) \/ Submit(c) \/ Leave(c)
             PROVE  LiveInv'
  BY <1>1, Zenon DEF Next
<1>2. CASE GetNextJob(c)
  BY <1>2, LiveScan, LiveClaim, Zenon DEF GetNextJob
<1>3. CASE Finish(c)
  BY <1>3, LiveScan, LiveRelease, LiveRecord, LiveFind, LiveCas, Zenon DEF Finish
<1>4. CASE ReportLookup(c) \/ ReportApply(c)
  BY <1>4, LiveScan, LiveReport, Zenon
<1>5. CASE Submit(c)
  BY <1>5, LiveReserve, LiveFill, LivePublish, Zenon DEF Submit
<1>6. CASE Leave(c)
  BY <1>6, LiveLeave, LiveSweep, LiveCancel, LiveUnassign, LiveFind, LiveCas, Zenon DEF Leave
<1> QED
  BY <1>2, <1>3, <1>4, <1>5, <1>6, Zenon

(* scheduler.h's "retained scalar completion": no job submitted before the *)
(* other cores start is gone before its completion is recorded, unless the *)
(* node it was tied to left.  Here the machine is any: nodes may leave and *)
(* submissions be refused while other cores scan, run and report.          *)
THEOREM CompletionKeptAlways == Spec => []CompletionKept
<1>1. Init /\ BaseInv => LiveInv
  <2> SUFFICES ASSUME Init, BaseInv PROVE LiveInv
    BY Zenon
  <2>1. Len(Preload) \in Nat /\ Len(Preload) <= JobPool /\ JobPool \in Nat /\ ANY \notin joined
    BY MachineFields DEF BaseInv, Preload, TypeOK
  <2>2. \A s \in Slots : IF s <= Len(Preload) THEN used[s] /\ handle[s] = s /\ data[s].spec = Preload[s] ELSE handle[s] = 0
    BY Zenon DEF Init, fresh
  <2>3. \A c \in Cores : pc[c] = "idle" /\ me[c].gone = ANY
    BY Zenon DEF Init, Idle
  <2>4. Live \subseteq 1 .. Len(Preload) /\ \A h \in Live : h \in Slots /\ h <= Len(Preload)
    BY <2>1 DEF Live, Slots
  <2>5. \A c \in Cores : Spares(c)
    BY <2>1, <2>3, Zenon DEF Spares, Submitting
  <2> QED
    <3>1. made = Len(Preload)
      BY Zenon DEF Init
    <3>2. Len(Preload) <= made /\ \A s \in Slots : handle[s] \in 1 .. Len(Preload) => handle[s] = s
      BY <2>1, <2>2, <3>1
    <3>3. \A h \in Live : used[h] /\ handle[h] = h /\ data[h].spec = Preload[h]
      BY <2>2, <2>4, Zenon
    <3> QED
      BY <2>5, <3>2, <3>3, Zenon DEF LiveInv
<1>2. BaseInv /\ LiveInv => CompletionKept
  <2> SUFFICES ASSUME BaseInv, LiveInv, NEW h \in 1 .. Len(Preload), h \in Live PROVE Found(h) # {}
    BY Zenon DEF CompletionKept, Live
  <2>1. h \in Slots
    BY MachineFields DEF BaseInv, Preload, Slots
  <2> QED
    BY <2>1, Zenon DEF LiveInv, Found
<1> QED
  BY <1>1, <1>2, BaseInit, BaseStep, LiveNext, PTL DEF Spec
-----------------------------------------------------------------------------
(* One core calls the handlers.  A slot that is not being submitted to.    *)
Sits(c, s) == used[s] /\ ~ (pc[c] \in Submitting /\ me[c].slot = s)

Alone(c) == \A d \in Cores \ {c} : pc[d] = "idle" /\ me[d] = Idle

(* A slot's handle names the submission in it, and no other slot's.        *)
Numbered(c) ==
    /\ \A s \in Slots : data[s].job <= made /\ (Sits(c, s) => handle[s] = data[s].job /\ handle[s] # 0)
    /\ \A s, t \in Slots : data[s].job = data[t].job => s = t \/ data[s].job = 0
    /\ pc[c] \in Submitting => me[c].h = made
    /\ pc[c] = "fill" => \A s \in Slots : data[s].job < made
    /\ pc[c] = "publish" => LET j == data[me[c].slot] IN j.job = made /\ ~ j.bound /\ ~ j.dispatched

(* The reservation of h is given back and its slot is about to be freed.   *)
Released(c, h) == (pc[c] = "record" /\ me[c].id = h) \/ (pc[c] \in {"destroy", "cas"} /\ me[c].h = h)

(* A job that is dispatched is in the core's hands, one that is bound has  *)
(* the resource.                                                           *)
Accounted(c) ==
    /\ me[c].work = me[c].id
    /\ \A s \in Slots : Sits(c, s) /\ data[s].dispatched => Claims(c, s) \/ me[c].id = handle[s]
    /\ \A s \in Slots : Sits(c, s) /\ data[s].bound => reserved = handle[s] \/ Released(c, handle[s])

(* What the scan saw of its candidate is still so when it is handed out.   *)
Chosen(c, s) ==
    /\ used[s] /\ me[c].bestH = handle[s] /\ data[s].assigned \in {c, ANY}
    /\ data[s].bound \/ (data[s].spec.needs => reserved = 0)

Picked(c) ==
    /\ pc[c] = "read" => used[me[c].slot] /\ me[c].h = handle[me[c].slot]
    /\ pc[c] \in {"scan", "read"} /\ me[c].best # 0 => Chosen(c, me[c].best)
    /\ pc[c] \in {"assign", "bind"} => Chosen(c, me[c].best)
    /\ pc[c] \in {"bind", "deliver"} => data[me[c].best].assigned = c
    /\ pc[c] = "deliver" => LET s == me[c].best IN
          used[s] /\ me[c].bestH = handle[s] /\ (data[s].spec.needs => reserved = handle[s])

(* The job that is run, reported, destroyed or swept is in its slot.       *)
Worked(c) ==
    /\ pc[c] \notin Working \/ me[c].gone # ANY => me[c].id = 0
    /\ pc[c] \in {"sweep", "cancel", "unassign"} => me[c].gone # ANY
    /\ pc[c] \in {"run", "release", "record"} => \E s \in Slots : used[s] /\ handle[s] = me[c].id
    /\ pc[c] = "run" => \A s \in Slots : used[s] /\ handle[s] = me[c].id =>
          data[s].assigned = c /\ (data[s].spec.needs => reserved = me[c].id)
    /\ pc[c] = "apply" => used[me[c].slot] /\ handle[me[c].slot] = me[c].id
    /\ pc[c] = "destroy" => \E s \in Slots : used[s] /\ handle[s] = me[c].h /\ me[c].slot <= s
    /\ pc[c] = "cas" => used[me[c].slot] /\ handle[me[c].slot] = me[c].h
    /\ pc[c] \in {"destroy", "cas"} => me[c].gone # ANY \/ me[c].h = me[c].id
    /\ pc[c] \in {"cancel", "unassign"} => used[me[c].best] /\ handle[me[c].best] = me[c].h

OneInv(c) == Alone(c) /\ Numbered(c) /\ Accounted(c) /\ Picked(c) /\ Worked(c)

OneCoreInv == \A c \in Cores : machine.cores = {c} => OneInv(c)
-----------------------------------------------------------------------------
(* The types that the steps of the one core use.                           *)
LEMMA OneFacts ==
    ASSUME BaseInv, NEW c \in Cores
    PROVE  /\ me[c] \in Local /\ Place(pc[c], me[c]) /\ JobPool \in Nat /\ ANY \notin Cores
           /\ used \in [Slots -> BOOLEAN] /\ handle \in [Slots -> 0 .. MaxJobs] /\ data \in [Slots -> JobData]
           /\ Idle.id = 0 /\ Idle.work = 0 /\ Idle.best = 0 /\ Idle.gone = ANY /\ Idle \in Local
<1>1. TypeOK /\ me[c] \in Local /\ Place(pc[c], me[c])
  BY Zenon DEF BaseInv, TypeOK, Places
<1>2. JobPool \in Nat /\ MaxJobs \in Nat /\ ANY \notin Cores
  BY <1>1, MachineFields, Zenon
<1>3. Idle.id = 0 /\ Idle.work = 0 /\ Idle.best = 0 /\ Idle.gone = ANY
  BY Zenon DEF Idle
<1>4. Idle \in Local
  BY SlotNumbers, Counts, Zenon DEF Idle, Local
<1> QED
  BY <1>1, <1>2, <1>3, <1>4, Zenon DEF TypeOK

(* While the one core submits nothing, a handle finds one slot.            *)
LEMMA OneSlot ==
    ASSUME NEW c \in Cores, Numbered(c), pc[c] \notin Submitting, NEW s \in Slots, used[s]
    PROVE  /\ handle[s] # 0 /\ handle[s] = data[s].job
           /\ \A t \in Slots : used[t] /\ handle[t] = handle[s] => t = s
BY Zenon DEF Numbered, Sits

(* Writing the job_data_t of one slot.                                     *)
LEMMA DataSet ==
    ASSUME data \in [Slots -> JobData], NEW b \in Slots, NEW j, data' = [data EXCEPT ![b] = j]
    PROVE  data'[b] = j /\ \A t \in Slots \ {b} : data'[t] = data[t]
BY Zenon

(* A step of the one core outside create_job_object.                       *)
LEMMA OneStep ==
    ASSUME NEW c \in Cores, OneInv(c), Only(c), pc[c] \notin Submitting, pc'[c] \notin Submitting,
           UNCHANGED <<handle, made>>, \A s \in Slots : data'[s].job = data[s].job /\ (used'[s] => used[s]),
           Accounted(c)', Picked(c)', Worked(c)'
    PROVE  OneInv(c)'
<1>1. Alone(c)'
  BY Zenon DEF OneInv, Alone, Only
<1>2. handle' = handle /\ made' = made
  BY Zenon
<1>3. \A s \in Slots : Sits(c, s)' => Sits(c, s)
  BY Zenon DEF Sits
<1>4. pc'[c] # "fill" /\ pc'[c] # "publish"
  BY Zenon DEF Submitting
<1>5. Numbered(c)'
  <2>1. \A s \in Slots : data[s].job <= made /\ (Sits(c, s) => handle[s] = data[s].job /\ handle[s] # 0)
    BY Zenon DEF OneInv, Numbered
  <2>2. \A s \in Slots : data'[s].job <= made' /\ (Sits(c, s)' => handle'[s] = data'[s].job /\ handle'[s] # 0)
    BY <1>2, <1>3, <2>1, Zenon
  <2>3. \A s, t \in Slots : data'[s].job = data'[t].job => s = t \/ data'[s].job = 0
    BY Zenon DEF OneInv, Numbered
  <2> QED
    BY <1>4, <2>2, <2>3, Zenon DEF Numbered, Submitting
<1> QED
  BY <1>1, <1>5, Zenon DEF OneInv

(* One that writes to no slot and gives no job out or back.                *)
LEMMA OneLocal ==
    ASSUME NEW c \in Cores, OneInv(c), Only(c), pc[c] \notin Submitting \cup Claiming, pc'[c] \notin Submitting,
           UNCHANGED <<used, handle, data, reserved, made>>, me'[c].id = me[c].id, me'[c].work = me[c].work,
           \A h : Released(c, h) => Released(c, h)', Picked(c)', Worked(c)'
    PROVE  OneInv(c)'
<1>1. used' = used /\ handle' = handle /\ data' = data /\ reserved' = reserved /\ made' = made
  BY Zenon
<1>2. \A s \in Slots : Sits(c, s)' => Sits(c, s)
  BY <1>1, Zenon DEF Sits
<1>3. Accounted(c)'
  <2>1. \A s \in Slots : ~ Claims(c, s)
    BY Zenon DEF Claims, Claiming
  <2>2. \A s \in Slots : Sits(c, s)' /\ data'[s].dispatched => me'[c].id = handle'[s]
    BY <1>1, <1>2, <2>1, Zenon DEF OneInv, Accounted
  <2>3. \A s \in Slots : Sits(c, s)' /\ data'[s].bound => reserved' = handle'[s] \/ Released(c, handle[s])'
    BY <1>1, <1>2, Zenon DEF OneInv, Accounted
  <2>4. me'[c].work = me'[c].id
    BY Zenon DEF OneInv, Accounted
  <2> QED
    BY <1>1, <2>2, <2>3, <2>4, Zenon DEF Accounted, Released
<1> QED
  BY <1>1, <1>3, OneStep, Zenon

(* The core is done with a handler that left it without a job.             *)
LEMMA OneIdle ==
    ASSUME BaseInv, NEW c \in Cores, OneInv(c), Goto(c, "idle"), Set(c, Idle),
           pc[c] \notin Submitting \cup Claiming \cup {"record", "destroy", "cas"}, me[c].id = 0,
           UNCHANGED <<used, handle, data, reserved, made>>
    PROVE  OneInv(c)'
<1>1. pc'[c] = "idle" /\ me'[c] = Idle /\ Only(c)
  BY Moved, Zenon
<1>2. Idle.id = 0 /\ Idle.work = 0 /\ me[c].work = 0
  BY OneFacts, ZenonT(60) DEF OneInv, Accounted
<1>3. Picked(c)' /\ Worked(c)' /\ pc'[c] \notin Submitting
  BY <1>1, <1>2, ZenonT(60) DEF Picked, Worked, Working, Submitting
<1>4. \A h : ~ Released(c, h)
  BY Zenon DEF Released
<1> QED
  BY <1>1, <1>2, <1>3, <1>4, OneLocal, Zenon
-----------------------------------------------------------------------------
(* The scan of pick_next_for_node.                                         *)
LEMMA OneScan ==
    ASSUME BaseInv, NEW c \in Cores, OneInv(c), StartScan(c) \/ ScanSlot(c) \/ ScanJob(c)
    PROVE  OneInv(c)'
<1>1. /\ me[c] \in Local /\ Place(pc[c], me[c]) /\ Idle.id = 0 /\ Idle.work = 0 /\ Idle.best = 0 /\ Idle \in Local
      /\ data \in [Slots -> JobData]
  BY OneFacts, Zenon
<1>2. pc[c] \in {"idle", "scan", "read"} /\ UNCHANGED <<used, handle, data, reserved, made>>
  BY Zenon DEF StartScan, ScanSlot, ScanJob, slotVars
<1>3. pc[c] \notin Submitting \cup Claiming /\ pc[c] \notin Working /\ \A h : ~ Released(c, h)
  BY <1>2, ZenonT(60) DEF Submitting, Claiming, Working, Released
<1>4. me[c].id = 0 /\ me[c].work = 0
  BY <1>3, Zenon DEF OneInv, Worked, Accounted
<1>5. ASSUME NEW l \in {"scan", "read"}, NEW r, Goto(c, l), Set(c, r), r.id = 0, r.work = 0,
             l = "read" => used[r.slot] /\ r.h = handle[r.slot],
             r.best # 0 => /\ used[r.best] /\ r.bestH = handle[r.best] /\ data[r.best].assigned \in {c, ANY}
                           /\ data[r.best].bound \/ (data[r.best].spec.needs => reserved = 0)
      PROVE  OneInv(c)'
  <2>1. pc'[c] = l /\ me'[c] = r /\ Only(c)
    BY <1>5, Moved, ZenonT(60)
  <2>2. pc'[c] \in {"scan", "read"} /\ pc'[c] \notin Submitting
    BY <2>1, <1>5, ZenonT(60) DEF Submitting
  <2>3. Picked(c)'
    <3>1. pc'[c] \notin {"assign", "bind"} /\ pc'[c] \notin {"bind", "deliver"} /\ pc'[c] # "deliver"
      BY <2>2, ZenonT(60)
    <3>2. r.best # 0 => Chosen(c, me[c].best)'
      BY <1>2, <1>5, <2>1, ZenonT(60) DEF Chosen
    <3> QED
      BY <1>2, <1>5, <2>1, <3>1, <3>2, Zenon DEF Picked
  <2>4. Worked(c)'
    BY <1>5, <2>1, <2>2, Zenon DEF Worked, Working
  <2> QED
    BY <1>2, <1>3, <1>4, <1>5, <2>1, <2>2, <2>3, <2>4, OneLocal, Zenon
<1>6. CASE StartScan(c)
  <2> DEFINE r == [Idle EXCEPT !.slot = 1]
  <2>1. r.id = 0 /\ r.work = 0 /\ r.best = 0
    BY <1>1, Zenon DEF Local
  <2>2. Goto(c, "scan") /\ Set(c, r)
    BY <1>6, Zenon DEF StartScan
  <2> HIDE DEF r
  <2>3. "scan" \in {"scan", "read"} /\ "scan" # "read"
    OBVIOUS
  <2> QED
    BY <1>5, <2>1, <2>2, <2>3, Zenon
<1>7. ASSUME me[c].best # 0, pc[c] \in {"scan", "read"}
      PROVE  /\ used[me[c].best] /\ me[c].bestH = handle[me[c].best] /\ data[me[c].best].assigned \in {c, ANY}
             /\ data[me[c].best].bound \/ (data[me[c].best].spec.needs => reserved = 0)
  BY <1>7, Zenon DEF OneInv, Picked, Chosen
<1>8. CASE ScanSlot(c)
  <2>1. pc[c] = "scan"
    BY <1>8, Zenon DEF ScanSlot
  <2>2. CASE used[me[c].slot]
    <3> DEFINE r == [me[c] EXCEPT !.h = handle[me[c].slot]]
    <3>1. r.id = 0 /\ r.work = 0 /\ r.best = me[c].best /\ r.bestH = me[c].bestH /\ r.slot = me[c].slot
          /\ r.h = handle[me[c].slot]
      BY <1>1, <1>4, Zenon DEF Local
    <3>2. Goto(c, "read") /\ Set(c, r)
      BY <1>8, <2>2, Zenon DEF ScanSlot
    <3> HIDE DEF r
    <3> QED
      BY <1>5, <1>7, <2>1, <2>2, <3>1, <3>2, Zenon
  <2>3. CASE ~ used[me[c].slot]
    <3> DEFINE r == [me[c] EXCEPT !.slot = @ + 1]
    <3>1. r.id = 0 /\ r.work = 0 /\ r.best = me[c].best /\ r.bestH = me[c].bestH
      BY <1>1, <1>4, Zenon DEF Local
    <3>2. Goto(c, "scan") /\ Set(c, r)
      BY <1>8, <2>1, <2>3, Zenon DEF ScanSlot, Goto, BaseInv, TypeOK
    <3> HIDE DEF r
    <3>3. "scan" \in {"scan", "read"} /\ "scan" # "read"
      OBVIOUS
    <3> QED
      BY <1>5, <1>7, <2>1, <3>1, <3>2, <3>3, Zenon
  <2> QED
    BY <2>2, <2>3, Zenon
<1>9. CASE ScanJob(c)
  <2> DEFINE next == [me[c] EXCEPT !.slot = @ + 1]
             found == [next EXCEPT !.best = me[c].slot, !.bestH = me[c].h]
             j == data[me[c].slot]
  <2>1. pc[c] = "read" /\ Goto(c, "scan") /\ used[me[c].slot] /\ me[c].h = handle[me[c].slot]
    BY <1>9, Zenon DEF ScanJob, OneInv, Picked
  <2>2. next.id = 0 /\ next.work = 0 /\ next.best = me[c].best /\ next.bestH = me[c].bestH
    BY <1>1, <1>4, Zenon DEF Local
  <2>3. found.id = 0 /\ found.work = 0 /\ found.best = me[c].slot /\ found.bestH = me[c].h
    BY <1>1, <1>4, Zenon DEF Local
  <2>4. Set(c, next) \/ (Eligible(c, me[c].h, j) /\ Set(c, found))
    BY <1>9, Zenon DEF ScanJob
  <2> HIDE DEF next, found
  <2>5. Eligible(c, me[c].h, j) => j.assigned \in {c, ANY} /\ (j.bound \/ (j.spec.needs => reserved = 0))
    BY Zenon DEF Eligible, resource_ok_for
  <2>6. "scan" \in {"scan", "read"} /\ "scan" # "read"
    OBVIOUS
  <2>7. CASE Set(c, next)
    BY <1>5, <1>7, <2>1, <2>2, <2>6, <2>7, Zenon
  <2>8. CASE Eligible(c, me[c].h, j) /\ Set(c, found)
    BY <1>5, <2>1, <2>3, <2>5, <2>6, <2>8, Zenon
  <2> QED
    BY <2>4, <2>7, <2>8, Zenon
<1> QED
  BY <1>6, <1>8, <1>9, Zenon

(* The compare-and-swap on dispatched puts the candidate in its hands.     *)
LEMMA OneClaim ==
    ASSUME BaseInv, NEW c \in Cores, OneInv(c), ScanClaim(c)
    PROVE  OneInv(c)'
<1>1. me[c] \in Local /\ Place(pc[c], me[c]) /\ JobPool \in Nat /\ data \in [Slots -> JobData]
  BY OneFacts, Zenon
<1>2. pc[c] = "scan" /\ UNCHANGED <<used, handle, reserved, made>>
  BY Zenon DEF ScanClaim
<1>3. pc[c] \notin Submitting \cup Claiming \cup {"record", "destroy", "cas"} /\ pc[c] \notin Working
  BY <1>2, ZenonT(60) DEF Submitting, Claiming, Working
<1>4. me[c].id = 0
  BY <1>3, Zenon DEF OneInv, Worked
<1>5. CASE me[c].best = 0 \/ data[me[c].best].dispatched
  <2>1. Goto(c, "idle") /\ Set(c, Idle) /\ UNCHANGED data
    BY <1>5, Zenon DEF ScanClaim
  <2> QED
    BY <1>2, <1>3, <1>4, <2>1, OneIdle, Zenon
<1>6. CASE ~ (me[c].best = 0 \/ data[me[c].best].dispatched)
  <2> DEFINE b == me[c].best
             j == [data[b] EXCEPT !.dispatched = TRUE]
  <2>1. b \in Slots
    <3>1. b \in 0 .. JobPool /\ b # 0
      BY <1>1, <1>2, <1>6, Zenon DEF Place
    <3> QED
      BY <3>1, SlotNumbers, Zenon
  <2>2. j.job = data[b].job /\ j.bound = data[b].bound /\ j.spec = data[b].spec /\ j.assigned = data[b].assigned
    BY <1>1, <2>1, Zenon DEF JobData
  <2>3. data' = [data EXCEPT ![b] = j] /\ Goto(c, "assign") /\ Set(c, me[c])
    BY <1>6, Zenon DEF ScanClaim, Set, BaseInv, TypeOK
  <2> HIDE DEF j
  <2>4. data'[b] = j /\ \A t \in Slots \ {b} : data'[t] = data[t]
    BY <1>1, <2>1, <2>3, DataSet, Zenon
  <2>5. pc'[c] = "assign" /\ me'[c] = me[c] /\ Only(c)
    BY <2>3, Moved, Zenon
  <2>6. pc'[c] \notin Submitting /\ pc'[c] \in Claiming
    BY <2>5, Zenon DEF Submitting, Claiming
  <2>7. Accounted(c)'
    <3>1. Claims(c, b)'
      BY <2>5, ZenonT(60) DEF Claims
    <3>2. \A s \in Slots : Sits(c, s)' => Sits(c, s)
      BY <1>2, <1>3, Zenon DEF Sits
    <3>3. \A s \in Slots : ~ Claims(c, s) /\ \A h : ~ Released(c, h)
      BY <1>3, Zenon DEF Claims, Claiming, Released
    <3>4. \A s \in Slots : Sits(c, s)' /\ data'[s].dispatched => Claims(c, s)' \/ me'[c].id = handle'[s]
      BY <1>2, <2>4, <2>5, <3>1, <3>2, <3>3, Zenon DEF OneInv, Accounted
    <3>5. \A s \in Slots : Sits(c, s)' /\ data'[s].bound => reserved' = handle'[s]
      BY <1>2, <2>1, <2>2, <2>4, <3>2, <3>3, Zenon DEF OneInv, Accounted
    <3> QED
      BY <2>5, <3>4, <3>5, ZenonT(60) DEF OneInv, Accounted
  <2>8. Chosen(c, b) /\ b # 0
    BY <1>2, <1>6, Zenon DEF OneInv, Picked
  <2>9. Chosen(c, me[c].best)'
    BY <1>2, <2>2, <2>4, <2>5, <2>8, Zenon DEF Chosen
  <2>10. Picked(c)' /\ Worked(c)'
    <3>1. Picked(c)'
      BY <2>5, <2>9, ZenonT(60) DEF Picked
    <3>2. Worked(c)'
      BY <1>4, <2>5, ZenonT(60) DEF Worked, Working
    <3> QED
      BY <3>1, <3>2, ZenonT(60)
  <2>11. \A s \in Slots : data'[s].job = data[s].job /\ (used'[s] => used[s])
    BY <1>2, <2>1, <2>2, <2>4, Zenon
  <2> QED
    BY <1>2, <1>3, <2>5, <2>6, <2>7, <2>10, <2>11, OneStep, ZenonT(60)
<1> QED
  BY <1>5, <1>6, Zenon

(* The node a job is handed to.                                            *)
LEMMA OneAssign ==
    ASSUME BaseInv, NEW c \in Cores, OneInv(c), Assign(c)
    PROVE  OneInv(c)'
<1> DEFINE b == me[c].best
           j == [data[b] EXCEPT !.assigned = IF @ = ANY THEN c ELSE @]
<1>1. me[c] \in Local /\ Place(pc[c], me[c]) /\ data \in [Slots -> JobData]
  BY OneFacts, Zenon
<1>2. /\ pc[c] = "assign" /\ UNCHANGED <<used, handle, reserved, made>>
      /\ data' = [data EXCEPT ![b] = j] /\ Goto(c, "bind") /\ Set(c, me[c])
  BY Zenon DEF Assign, Set, BaseInv, TypeOK
<1>3. pc[c] \notin Submitting /\ pc[c] \notin Working /\ pc[c] \in Claiming /\ \A h : ~ Released(c, h)
  BY <1>2, ZenonT(60) DEF Submitting, Claiming, Working, Released
<1>4. b \in Slots /\ me[c].id = 0 /\ Chosen(c, b)
  BY <1>1, <1>2, <1>3, Zenon DEF Place, OneInv, Worked, Picked
<1>5. /\ j.job = data[b].job /\ j.bound = data[b].bound /\ j.spec = data[b].spec
      /\ j.dispatched = data[b].dispatched /\ j.assigned = c
  <2>1. j.assigned = IF data[b].assigned = ANY THEN c ELSE data[b].assigned
    BY <1>1, <1>4, Zenon DEF JobData
  <2>2. j.job = data[b].job /\ j.bound = data[b].bound /\ j.spec = data[b].spec /\ j.dispatched = data[b].dispatched
    BY <1>1, <1>4, ZenonT(60) DEF JobData
  <2> QED
    BY <1>4, <2>1, <2>2, Zenon DEF Chosen
<1> HIDE DEF j
<1>6. data'[b] = j /\ \A t \in Slots \ {b} : data'[t] = data[t]
  BY <1>1, <1>2, <1>4, DataSet, Zenon
<1>7. pc'[c] = "bind" /\ me'[c] = me[c] /\ Only(c)
  BY <1>2, Moved, Zenon
<1>8. pc'[c] \notin Submitting /\ \A s \in Slots : Claims(c, s) => Claims(c, s)'
  BY <1>7, ZenonT(60) DEF Submitting, Claims
<1>9. \A s \in Slots : /\ data'[s].job = data[s].job /\ data'[s].bound = data[s].bound
                       /\ data'[s].dispatched = data[s].dispatched
  BY <1>5, <1>6, Zenon
<1>10. Accounted(c)'
  <2>1. \A s \in Slots : Sits(c, s)' => Sits(c, s)
    BY <1>2, <1>3, Zenon DEF Sits
  <2>2. \A s \in Slots : Sits(c, s)' /\ data'[s].dispatched => Claims(c, s)' \/ me'[c].id = handle'[s]
    BY <1>2, <1>7, <1>8, <1>9, <2>1, Zenon DEF OneInv, Accounted
  <2>3. \A s \in Slots : Sits(c, s)' /\ data'[s].bound => reserved' = handle'[s]
    BY <1>2, <1>3, <1>9, <2>1, Zenon DEF OneInv, Accounted
  <2> QED
    BY <1>7, <2>2, <2>3, Zenon DEF OneInv, Accounted
<1>11. Chosen(c, me[c].best)' /\ data'[me'[c].best].assigned = c
  <2>1. me'[c].best = b /\ used' = used /\ handle' = handle /\ reserved' = reserved /\ me'[c].bestH = me[c].bestH
    BY <1>2, <1>7, Zenon
  <2>2. data'[b].assigned = c /\ data'[b].bound = data[b].bound /\ data'[b].spec = data[b].spec
    BY <1>5, <1>6, Zenon
  <2>3. Chosen(c, b)
    BY <1>4, ZenonT(60)
  <2> QED
    BY <2>1, <2>2, <2>3, Zenon DEF Chosen
<1>12. Picked(c)' /\ Worked(c)'
  <2>1. Picked(c)'
    BY <1>7, <1>11, ZenonT(60) DEF Picked
  <2>2. Worked(c)'
    BY <1>4, <1>7, ZenonT(60) DEF Worked, Working
  <2> QED
    BY <2>1, <2>2, Zenon
<1> QED
  BY <1>2, <1>3, <1>7, <1>8, <1>9, <1>10, <1>12, OneStep, Zenon

(* bind_resource_for: nobody else reserves between the check and this.     *)
LEMMA OneBind ==
    ASSUME BaseInv, NEW c \in Cores, OneInv(c), Bind(c)
    PROVE  OneInv(c)'
<1> DEFINE b == me[c].best
<1>1. me[c] \in Local /\ Place(pc[c], me[c]) /\ data \in [Slots -> JobData]
  BY OneFacts, Zenon
<1>2. /\ pc[c] = "bind" /\ UNCHANGED <<used, handle, made>> /\ Goto(c, "deliver") /\ Set(c, me[c])
  BY Zenon DEF Bind, Set, BaseInv, TypeOK
<1>3. pc[c] \notin Submitting /\ pc[c] \notin Working /\ pc[c] \in Claiming /\ \A h : ~ Released(c, h)
  BY <1>2, ZenonT(60) DEF Submitting, Claiming, Working, Released
<1>4. b \in Slots /\ me[c].id = 0 /\ Chosen(c, b) /\ data[b].assigned = c
  BY <1>1, <1>2, <1>3, Zenon DEF Place, OneInv, Worked, Picked
<1>5. used[b] /\ me[c].bestH = handle[b] /\ (data[b].bound \/ (data[b].spec.needs => reserved = 0))
  BY <1>4, Zenon DEF Chosen
<1>6. pc'[c] = "deliver" /\ me'[c] = me[c] /\ Only(c)
  BY <1>2, Moved, Zenon
<1>7. pc'[c] \notin Submitting /\ \A s \in Slots : Claims(c, s) => Claims(c, s)'
  BY <1>6, ZenonT(60) DEF Submitting, Claims
<1>8. \A s \in Slots : used[s] => Sits(c, s) /\ handle[s] # 0 /\ (data[s].bound => reserved = handle[s])
                                  /\ (handle[s] = handle[b] => s = b)
  <2>1. \A s \in Slots : used[s] => Sits(c, s) /\ (data[s].bound => reserved = handle[s])
    BY <1>3, Zenon DEF Sits, OneInv, Accounted
  <2>2. \A s \in Slots : used[s] => handle[s] # 0 /\ (handle[s] = handle[b] => s = b)
    BY <1>3, <1>4, <1>5, OneSlot, Zenon DEF OneInv
  <2> QED
    BY <2>1, <2>2, Zenon
<1>9. ASSUME /\ \A s \in Slots : /\ data'[s].job = data[s].job /\ data'[s].spec = data[s].spec
                                 /\ data'[s].assigned = data[s].assigned /\ data'[s].dispatched = data[s].dispatched,
             \A s \in Slots : used[s] /\ data'[s].bound => reserved' = handle[s],
             data[b].spec.needs => reserved' = handle[b]
      PROVE  OneInv(c)'
  <2>1. Accounted(c)'
    <3>1. \A s \in Slots : Sits(c, s)' => used[s]
      BY <1>2, Zenon DEF Sits
    <3>2. \A s \in Slots : Sits(c, s)' /\ data'[s].dispatched => Claims(c, s)' \/ me'[c].id = handle'[s]
      BY <1>2, <1>6, <1>7, <1>8, <1>9, <3>1, ZenonT(60) DEF OneInv, Accounted
    <3>3. \A s \in Slots : Sits(c, s)' /\ data'[s].bound => reserved' = handle'[s]
      BY <1>2, <1>9, <3>1, Zenon
    <3> QED
      BY <1>6, <3>2, <3>3, Zenon DEF OneInv, Accounted
  <2>2. Picked(c)'
    <3>1. pc'[c] = "deliver" /\ pc'[c] # "read" /\ pc'[c] \notin {"scan", "read"} /\ pc'[c] \notin {"assign", "bind"}
      BY <1>6, ZenonT(60)
    <3> QED
      BY <1>2, <1>4, <1>5, <1>6, <1>9, <3>1, ZenonT(60) DEF Picked
  <2>3. Worked(c)'
    BY <1>4, <1>6, ZenonT(60) DEF Worked, Working
  <2> QED
    BY <1>2, <1>3, <1>6, <1>7, <1>9, <2>1, <2>2, <2>3, OneStep, Zenon
<1>10. CASE ~ data[b].bound /\ data[b].spec.needs /\ reserved \in {0, me[c].bestH}
  <2> DEFINE j == [data[b] EXCEPT !.bound = TRUE]
  <2>1. reserved' = handle[b] /\ data' = [data EXCEPT ![b] = j]
    BY <1>5, <1>10, Zenon DEF Bind
  <2>2. /\ j.job = data[b].job /\ j.spec = data[b].spec /\ j.assigned = data[b].assigned
        /\ j.dispatched = data[b].dispatched
    BY <1>1, <1>4, Zenon DEF JobData
  <2> HIDE DEF j
  <2>3. data'[b] = j /\ \A t \in Slots \ {b} : data'[t] = data[t]
    BY <1>1, <1>4, <2>1, DataSet, Zenon
  <2>4. \A s \in Slots : used[s] /\ data'[s].bound => reserved' = handle[s]
    BY <1>5, <1>8, <1>10, <2>1, <2>3, Zenon
  <2> QED
    BY <1>9, <2>1, <2>2, <2>3, <2>4, Zenon
<1>11. CASE ~ (~ data[b].bound /\ data[b].spec.needs /\ reserved \in {0, me[c].bestH})
  <2>1. UNCHANGED <<reserved, data>>
    BY <1>11, Zenon DEF Bind
  <2>2. data[b].spec.needs => reserved = handle[b]
    BY <1>4, <1>5, <1>8, <1>11, Zenon
  <2> QED
    BY <1>8, <1>9, <2>1, <2>2, Zenon
<1> QED
  BY <1>10, <1>11, Zenon

(* The answer of get_next_job.                                             *)
LEMMA OneDeliver ==
    ASSUME BaseInv, NEW c \in Cores, OneInv(c), Deliver(c)
    PROVE  OneInv(c)'
<1> DEFINE b == me[c].best
           r == [Idle EXCEPT !.id = me[c].bestH, !.work = data[b].job]
<1>1. me[c] \in Local /\ Place(pc[c], me[c]) /\ Idle \in Local /\ Idle.gone = ANY
  BY OneFacts, Zenon
<1>2. pc[c] = "deliver" /\ UNCHANGED <<used, handle, data, reserved, made>>
  BY Zenon DEF Deliver, slotVars
<1>3. pc[c] \notin Submitting /\ pc[c] \notin Working /\ \A h : ~ Released(c, h)
  BY <1>2, ZenonT(60) DEF Submitting, Working, Released
<1>4. b \in Slots
  BY <1>1, <1>2, ZenonT(60) DEF Place, Claiming
<1>5. /\ me[c].id = 0 /\ used[b] /\ me[c].bestH = handle[b] /\ data[b].assigned = c
      /\ data[b].spec.needs => reserved = handle[b]
  BY <1>2, <1>3, Zenon DEF OneInv, Worked, Picked
<1>6. /\ handle[b] # 0 /\ handle[b] = data[b].job /\ \A t \in Slots : used[t] /\ handle[t] = handle[b] => t = b
      /\ \A s \in Slots : used[s] => handle[s] # 0
  BY <1>3, <1>4, <1>5, OneSlot, Zenon DEF OneInv
<1>7. Goto(c, "run") /\ Set(c, r)
  BY <1>5, <1>6, Zenon DEF Deliver
<1>8. r.id = handle[b] /\ r.work = handle[b] /\ r.gone = ANY
  BY <1>1, <1>5, <1>6, Zenon DEF Local
<1> HIDE DEF r
<1>9. pc'[c] = "run" /\ me'[c] = r /\ Only(c)
  BY <1>7, Moved, Zenon
<1>10. pc'[c] \notin Submitting
  BY <1>9, ZenonT(60) DEF Submitting
<1>11. Accounted(c)'
  <2>1. \A s \in Slots : Sits(c, s)' => Sits(c, s) /\ used[s]
    BY <1>2, <1>3, Zenon DEF Sits
  <2>2. \A s \in Slots : Claims(c, s) => s = b
    BY Zenon DEF Claims
  <2>3. \A s \in Slots : Sits(c, s)' /\ data'[s].dispatched => me'[c].id = handle'[s]
    BY <1>2, <1>5, <1>6, <1>8, <1>9, <2>1, <2>2, Zenon DEF OneInv, Accounted
  <2>4. \A s \in Slots : Sits(c, s)' /\ data'[s].bound => reserved' = handle'[s]
    BY <1>2, <1>3, <2>1, ZenonT(60) DEF OneInv, Accounted
  <2> QED
    BY <1>8, <1>9, <2>3, <2>4, Zenon DEF Accounted
<1>12. Picked(c)'
  BY <1>9, ZenonT(60) DEF Picked
<1>13. Worked(c)'
  <2>1. \E s \in Slots : used'[s] /\ handle'[s] = me'[c].id
    BY <1>2, <1>4, <1>5, <1>8, <1>9, Zenon
  <2>2. \A s \in Slots : used'[s] /\ handle'[s] = me'[c].id =>
          data'[s].assigned = c /\ (data'[s].spec.needs => reserved' = me'[c].id)
    BY <1>2, <1>5, <1>6, <1>8, <1>9, Zenon
  <2>3. me'[c].gone = ANY /\ pc'[c] \in Working
    BY <1>8, <1>9, ZenonT(60) DEF Working
  <2>4. /\ pc'[c] \notin {"sweep", "cancel", "unassign"} /\ pc'[c] # "apply" /\ pc'[c] # "destroy" /\ pc'[c] # "cas"
        /\ pc'[c] \notin {"destroy", "cas"} /\ pc'[c] \notin {"cancel", "unassign"}
    BY <1>9, ZenonT(60)
  <2> QED
    BY <2>1, <2>2, <2>3, <2>4, Zenon DEF Worked
<1> QED
  BY <1>2, <1>3, <1>9, <1>10, <1>11, <1>12, <1>13, OneStep, Zenon
-----------------------------------------------------------------------------
(* handle_report_job_result finds the job, because nobody else took it out *)
(* of its slot; the report that does not finish it clears its mark.        *)
LEMMA OneLookup ==
    ASSUME BaseInv, NEW c \in Cores, OneInv(c), FinishLookup(c) \/ ReportLookup(c)
    PROVE  OneInv(c)'
<1>1. me[c] \in Local /\ Place(pc[c], me[c])
  BY OneFacts, Zenon
<1>2. pc[c] = "run" /\ UNCHANGED <<used, handle, data, reserved, made>>
  BY Zenon DEF FinishLookup, ReportLookup, slotVars
<1>3. pc[c] \notin Submitting \cup Claiming /\ \A h : ~ Released(c, h)
  BY <1>2, ZenonT(60) DEF Submitting, Claiming, Released
<1>4. me[c].gone = ANY /\ \E s \in Slots : used[s] /\ handle[s] = me[c].id
  BY <1>1, <1>2, Zenon DEF Place, OneInv, Worked
<1>5. Found(me[c].id) # {}
  BY <1>4, Zenon DEF Found
<1>6. ASSUME NEW l \in {"release", "apply"}, NEW r, Goto(c, l), Set(c, r), r.id = me[c].id, r.work = me[c].work, r.gone = ANY,
             l = "apply" => used[r.slot] /\ handle[r.slot] = me[c].id
      PROVE  OneInv(c)'
  <2>1. pc'[c] = l /\ me'[c] = r /\ Only(c)
    BY <1>6, Moved, ZenonT(60)
  <2>2. pc'[c] \in {"release", "apply"} /\ pc'[c] \notin Submitting /\ Picked(c)'
    BY <1>6, <2>1, ZenonT(60) DEF Submitting, Picked
  <2>3. Worked(c)'
    <3>1. /\ pc'[c] \in Working /\ pc'[c] \notin {"sweep", "cancel", "unassign"} /\ pc'[c] # "run" /\ pc'[c] # "destroy"
          /\ pc'[c] # "cas" /\ pc'[c] \notin {"destroy", "cas"} /\ pc'[c] \notin {"cancel", "unassign"}
      BY <2>2, ZenonT(60) DEF Working
    <3>2. \E s \in Slots : used'[s] /\ handle'[s] = me'[c].id
      BY <1>2, <1>4, <1>6, <2>1, Zenon
    <3>3. pc'[c] = "apply" => used'[me'[c].slot] /\ handle'[me'[c].slot] = me'[c].id
      BY <1>2, <1>6, <2>1, Zenon
    <3> QED
      BY <1>6, <2>1, <3>1, <3>2, <3>3, Zenon DEF Worked
  <2> QED
    BY <1>2, <1>3, <1>6, <2>1, <2>2, <2>3, OneLocal, Zenon
<1>7. CASE FinishLookup(c)
  <2>1. PICK s \in Found(me[c].id) : Goto(c, "release") /\ Set(c, [me[c] EXCEPT !.bound = data[s].bound])
    BY <1>5, <1>7, Zenon DEF FinishLookup
  <2> DEFINE r == [me[c] EXCEPT !.bound = data[s].bound]
  <2>2. r.id = me[c].id /\ r.work = me[c].work /\ r.gone = ANY
    BY <1>1, <1>4, Zenon DEF Local
  <2>3. Goto(c, "release") /\ Set(c, r)
    BY <2>1, Zenon
  <2> HIDE DEF r
  <2>4. "release" \in {"release", "apply"} /\ "release" # "apply"
    OBVIOUS
  <2> QED
    BY <1>6, <2>2, <2>3, <2>4, Zenon
<1>8. CASE ReportLookup(c)
  <2>1. PICK s \in Found(me[c].id) : Goto(c, "apply") /\ Set(c, [me[c] EXCEPT !.slot = s])
    BY <1>5, <1>8, Zenon DEF ReportLookup
  <2> DEFINE r == [me[c] EXCEPT !.slot = s]
  <2>2. r.id = me[c].id /\ r.work = me[c].work /\ r.gone = ANY /\ r.slot = s
    BY <1>1, <1>4, Zenon DEF Local
  <2>3. Goto(c, "apply") /\ Set(c, r) /\ used[s] /\ handle[s] = me[c].id
    BY <2>1, Zenon DEF Found
  <2> HIDE DEF r
  <2>4. "apply" \in {"release", "apply"}
    OBVIOUS
  <2> QED
    BY <1>6, <2>2, <2>3, <2>4, Zenon
<1> QED
  BY <1>7, <1>8, Zenon

(* The report of a job that is to run again: its slot is up for a scan.    *)
LEMMA OneApply ==
    ASSUME BaseInv, NEW c \in Cores, OneInv(c), ReportApply(c)
    PROVE  OneInv(c)'
<1> DEFINE b == me[c].slot
           j == [data[b] EXCEPT !.dispatched = FALSE]
<1>1. me[c] \in Local /\ Place(pc[c], me[c]) /\ data \in [Slots -> JobData] /\ Idle.id = 0 /\ Idle.work = 0
  BY OneFacts, Zenon
<1>2. /\ pc[c] = "apply" /\ UNCHANGED <<used, handle, reserved, made>>
      /\ data' = [data EXCEPT ![b] = j] /\ Goto(c, "idle") /\ Set(c, Idle)
  BY Zenon DEF ReportApply
<1>3. pc[c] \notin Submitting \cup Claiming /\ \A h : ~ Released(c, h)
  BY <1>2, ZenonT(60) DEF Submitting, Claiming, Released
<1>4. b \in Slots /\ used[b] /\ handle[b] = me[c].id
  BY <1>1, <1>2, Zenon DEF Place, OneInv, Worked
<1>5. j.job = data[b].job /\ j.bound = data[b].bound /\ ~ j.dispatched
  BY <1>1, <1>4, ZenonT(60) DEF JobData
<1> HIDE DEF j
<1>6. data'[b] = j /\ \A t \in Slots \ {b} : data'[t] = data[t]
  BY <1>1, <1>2, <1>4, DataSet, Zenon
<1>7. pc'[c] = "idle" /\ me'[c] = Idle /\ Only(c)
  BY <1>2, Moved, Zenon
<1>8. pc'[c] \notin Submitting /\ Picked(c)' /\ Worked(c)'
  BY <1>1, <1>7, ZenonT(60) DEF Submitting, Picked, Worked, Working
<1>9. \A s \in Slots : data'[s].job = data[s].job /\ data'[s].bound = data[s].bound
  BY <1>5, <1>6, Zenon
<1>10. Accounted(c)'
  <2>1. \A s \in Slots : Sits(c, s)' => Sits(c, s) /\ used[s]
    BY <1>2, <1>3, Zenon DEF Sits
  <2>2. \A s \in Slots : used[s] /\ handle[s] = handle[b] => s = b
    BY <1>3, <1>4, OneSlot, Zenon DEF OneInv
  <2>3. \A s \in Slots : ~ Claims(c, s)
    BY <1>3, Zenon DEF Claims, Claiming
  <2>4. \A s \in Slots : ~ (Sits(c, s)' /\ data'[s].dispatched)
    BY <1>4, <1>5, <1>6, <2>1, <2>2, <2>3, Zenon DEF OneInv, Accounted
  <2>5. \A s \in Slots : Sits(c, s)' /\ data'[s].bound => reserved' = handle'[s]
    BY <1>2, <1>3, <1>9, <2>1, Zenon DEF OneInv, Accounted
  <2> QED
    BY <1>1, <1>7, <2>4, <2>5, Zenon DEF Accounted
<1> QED
  BY <1>2, <1>3, <1>7, <1>8, <1>9, <1>10, OneStep, Zenon

(* The reservation of a job that has ended or is cancelled is given back;  *)
(* only the slot that is about to be freed still says bound.               *)
LEMMA OneGiveBack ==
    ASSUME BaseInv, NEW c \in Cores, OneInv(c), NEW h, NEW x \in BOOLEAN,
           reserved' = IF x /\ reserved = h THEN 0 ELSE reserved, Released(c, h)',
           pc[c] \notin Submitting \cup Claiming, \A k : ~ Released(c, k), pc'[c] \notin Submitting, Only(c),
           UNCHANGED <<used, handle, data, made>>, me'[c].id = me[c].id, me'[c].work = me[c].work,
           Picked(c)', Worked(c)'
    PROVE  OneInv(c)'
<1>1. used' = used /\ handle' = handle /\ data' = data /\ made' = made
  BY Zenon
<1>2. \A s \in Slots : Sits(c, s)' => Sits(c, s)
  BY <1>1, Zenon DEF Sits
<1>3. \A s \in Slots : ~ Claims(c, s)
  BY Zenon DEF Claims, Claiming
<1>4. \A s \in Slots : Sits(c, s)' /\ data'[s].dispatched => me'[c].id = handle'[s]
  BY <1>1, <1>2, <1>3, Zenon DEF OneInv, Accounted
<1>5. \A s \in Slots : Sits(c, s)' /\ data'[s].bound => reserved' = handle'[s] \/ handle'[s] = h
  BY <1>1, <1>2, Zenon DEF OneInv, Accounted
<1>6. Accounted(c)'
  BY <1>4, <1>5, ZenonT(60) DEF OneInv, Accounted, Released
<1> QED
  BY <1>1, <1>6, OneStep, Zenon

(* release, then record, then destroy_job_object.                          *)
LEMMA OneFinish ==
    ASSUME BaseInv, NEW c \in Cores, OneInv(c), FinishRelease(c) \/ FinishRecord(c)
    PROVE  OneInv(c)'
<1>1. me[c] \in Local /\ Place(pc[c], me[c])
  BY OneFacts, Zenon
<1>2. pc[c] \in {"release", "record"} /\ UNCHANGED <<used, handle, data, made>>
  BY Zenon DEF FinishRelease, FinishRecord, slotVars
<1>3. pc[c] \notin Submitting \cup Claiming
  BY <1>2, ZenonT(60) DEF Submitting, Claiming
<1>4. me[c].gone = ANY /\ \E s \in Slots : used[s] /\ handle[s] = me[c].id
  BY <1>1, <1>2, Zenon DEF Place, OneInv, Worked
<1>5. CASE FinishRelease(c)
  <2>1. pc[c] = "release" /\ Goto(c, "record") /\ Set(c, me[c])
        /\ reserved' = IF me[c].bound /\ reserved = me[c].id THEN 0 ELSE reserved
    BY <1>5, Zenon DEF FinishRelease, Set, BaseInv, TypeOK
  <2>2. pc'[c] = "record" /\ me'[c] = me[c] /\ Only(c)
    BY <2>1, Moved, ZenonT(60)
  <2>3. pc'[c] \notin Submitting /\ Picked(c)' /\ Released(c, me[c].id)' /\ \A h : ~ Released(c, h)
    BY <2>1, <2>2, Zenon DEF Submitting, Picked, Released
  <2>4. Worked(c)'
    <3>1. /\ pc'[c] \in Working /\ pc'[c] \notin {"sweep", "cancel", "unassign"} /\ pc'[c] # "run" /\ pc'[c] # "destroy"
          /\ pc'[c] # "cas" /\ pc'[c] # "apply" /\ pc'[c] \notin {"destroy", "cas"} /\ pc'[c] \notin {"cancel", "unassign"}
      BY <2>2, ZenonT(60) DEF Working
    <3>2. (\E s \in Slots : used'[s] /\ handle'[s] = me'[c].id) /\ me'[c].gone = ANY
      BY <1>2, <1>4, <2>2, Zenon
    <3> QED
      BY <3>1, <3>2, ZenonT(60) DEF Worked
  <2>5. me[c].bound \in BOOLEAN
    BY <1>1, Zenon DEF Local
  <2>6. PICK h : h = me[c].id
    BY Zenon
  <2>7. reserved' = (IF me[c].bound /\ reserved = h THEN 0 ELSE reserved) /\ Released(c, h)'
    BY <2>1, <2>2, <2>3, <2>6, Zenon DEF Released
  <2> QED
    BY <1>2, <1>3, <2>2, <2>3, <2>4, <2>5, <2>7, OneGiveBack, ZenonT(60)
<1>6. CASE FinishRecord(c)
  <2> DEFINE r == [me[c] EXCEPT !.slot = 1, !.h = me[c].id]
  <2>1. pc[c] = "record" /\ Goto(c, "destroy") /\ Set(c, r) /\ reserved' = reserved
    BY <1>6, Zenon DEF FinishRecord
  <2>2. r.id = me[c].id /\ r.work = me[c].work /\ r.gone = ANY /\ r.slot = 1 /\ r.h = me[c].id
    BY <1>1, <1>4, Zenon DEF Local
  <2> HIDE DEF r
  <2>3. pc'[c] = "destroy" /\ me'[c] = r /\ Only(c)
    BY <2>1, Moved, ZenonT(60)
  <2>4. pc'[c] \notin Submitting /\ Picked(c)'
    BY <2>3, ZenonT(60) DEF Submitting, Picked
  <2>5. \A h : Released(c, h) => Released(c, h)'
    BY <2>1, <2>2, <2>3, ZenonT(60) DEF Released
  <2>6. Worked(c)'
    <3>1. /\ pc'[c] \in Working /\ pc'[c] \notin {"sweep", "cancel", "unassign"} /\ pc'[c] \notin {"run", "release", "record"}
          /\ pc'[c] # "run" /\ pc'[c] # "cas" /\ pc'[c] # "apply" /\ pc'[c] \notin {"cancel", "unassign"}
      BY <2>3, ZenonT(60) DEF Working
    <3>2. PICK s \in Slots : used[s] /\ handle[s] = me[c].id
      BY <1>4, Zenon
    <3>3. 1 <= s
      BY SlotNumbers, Zenon
    <3>4. \E t \in Slots : used'[t] /\ handle'[t] = me'[c].h /\ me'[c].slot <= t
      BY <1>2, <2>2, <2>3, <3>2, <3>3, Zenon
    <3> QED
      BY <2>2, <2>3, <3>1, <3>4, Zenon DEF Worked
  <2> QED
    BY <1>2, <1>3, <2>1, <2>2, <2>3, <2>4, <2>5, <2>6, OneLocal, Zenon
<1> QED
  BY <1>5, <1>6, Zenon

(* destroy_job_object finds the slot of the job: nobody else freed it.     *)
LEMMA OneFind ==
    ASSUME BaseInv, NEW c \in Cores, OneInv(c), DestroyFind(c)
    PROVE  OneInv(c)'
<1> DEFINE b == me[c].slot
<1>1. me[c] \in Local /\ Place(pc[c], me[c]) /\ JobPool \in Nat
  BY OneFacts, Zenon
<1>2. pc[c] = "destroy" /\ UNCHANGED <<used, handle, data, reserved, made>>
  BY Zenon DEF DestroyFind, slotVars
<1>3. pc[c] \notin Submitting \cup Claiming
  BY <1>2, ZenonT(60) DEF Submitting, Claiming
<1>4. /\ me[c].gone # ANY => me[c].id = 0
      /\ me[c].gone # ANY \/ me[c].h = me[c].id
  BY <1>2, Zenon DEF OneInv, Worked
<1>5. PICK s \in Slots : used[s] /\ handle[s] = me[c].h /\ b <= s
  BY <1>2, Zenon DEF OneInv, Worked
<1>6. b \in Slots /\ (b # s => b + 1 <= s)
  <2>1. b \in 1 .. JobPool + 1
    BY <1>1, <1>2, Zenon DEF Place
  <2> QED
    BY <1>5, <2>1, SlotNumbers, Zenon
<1>7. CASE b \in Found(me[c].h)
  <2>1. Goto(c, "cas") /\ Set(c, me[c]) /\ used[b] /\ handle[b] = me[c].h
    BY <1>6, <1>7, Zenon DEF DestroyFind, Found, Set, BaseInv, TypeOK
  <2>2. pc'[c] = "cas" /\ me'[c] = me[c] /\ Only(c)
    BY <2>1, Moved, ZenonT(60)
  <2>3. pc'[c] \notin Submitting /\ Picked(c)' /\ \A h : Released(c, h) => Released(c, h)'
    BY <1>2, <2>2, ZenonT(60) DEF Submitting, Picked, Released
  <2>4. Worked(c)'
    <3>1. /\ pc'[c] \in Working /\ pc'[c] \notin {"sweep", "cancel", "unassign"} /\ pc'[c] \notin {"run", "release", "record"}
          /\ pc'[c] # "run" /\ pc'[c] # "destroy" /\ pc'[c] # "apply" /\ pc'[c] \notin {"cancel", "unassign"}
      BY <2>2, ZenonT(60) DEF Working
    <3> QED
      BY <1>2, <1>4, <2>1, <2>2, <3>1, ZenonT(60) DEF Worked
  <2> QED
    BY <1>2, <1>3, <2>2, <2>3, <2>4, OneLocal, Zenon
<1>8. CASE b \notin Found(me[c].h)
  <2> DEFINE r == [me[c] EXCEPT !.slot = @ + 1]
  <2>1. Goto(c, "destroy") /\ Set(c, r)
    BY <1>2, <1>6, <1>8, Zenon DEF DestroyFind, Goto, BaseInv, TypeOK
  <2>2. r.id = me[c].id /\ r.work = me[c].work /\ r.gone = me[c].gone /\ r.slot = b + 1 /\ r.h = me[c].h
    BY <1>1, Zenon DEF Local
  <2>3. b # s
    BY <1>5, <1>8, Zenon DEF Found
  <2> HIDE DEF r
  <2>4. pc'[c] = "destroy" /\ me'[c] = r /\ Only(c)
    BY <2>1, Moved, ZenonT(60)
  <2>5. pc'[c] \notin Submitting /\ Picked(c)' /\ \A h : Released(c, h) => Released(c, h)'
    BY <1>2, <2>2, <2>4, ZenonT(60) DEF Submitting, Picked, Released
  <2>6. Worked(c)'
    <3>1. /\ pc'[c] \in Working /\ pc'[c] \notin {"sweep", "cancel", "unassign"} /\ pc'[c] \notin {"run", "release", "record"}
          /\ pc'[c] # "run" /\ pc'[c] # "cas" /\ pc'[c] # "apply" /\ pc'[c] \notin {"cancel", "unassign"}
      BY <2>4, ZenonT(60) DEF Working
    <3>2. \E t \in Slots : used'[t] /\ handle'[t] = me'[c].h /\ me'[c].slot <= t
      BY <1>2, <1>5, <1>6, <2>2, <2>3, <2>4, Zenon
    <3> QED
      BY <1>4, <2>2, <2>4, <3>1, <3>2, ZenonT(60) DEF Worked
  <2> QED
    BY <1>2, <1>3, <2>2, <2>4, <2>5, <2>6, OneLocal, Zenon
<1> QED
  BY <1>7, <1>8, Zenon

(* Its compare-and-swap frees the slot; the report or the sweep goes on.   *)
LEMMA OneCas ==
    ASSUME BaseInv, NEW c \in Cores, OneInv(c), DestroyCas(c)
    PROVE  OneInv(c)'
<1> DEFINE b == me[c].slot
<1>1. me[c] \in Local /\ Place(pc[c], me[c]) /\ used \in [Slots -> BOOLEAN] /\ Idle.id = 0 /\ Idle.work = 0
  BY OneFacts, Zenon
<1>2. pc[c] = "cas" /\ UNCHANGED <<handle, data, reserved, made>>
  BY Zenon DEF DestroyCas
<1>3. pc[c] \notin Submitting \cup Claiming
  BY <1>2, ZenonT(60) DEF Submitting, Claiming
<1>4. /\ b \in Slots /\ used[b] /\ handle[b] = me[c].h /\ me[c].work = me[c].id
      /\ me[c].gone # ANY => me[c].id = 0
      /\ me[c].gone # ANY \/ me[c].h = me[c].id
  BY <1>1, <1>2, Zenon DEF Place, OneInv, Worked, Accounted
<1>5. used' = [used EXCEPT ![b] = FALSE] /\ DestroyReturn(c)
  BY <1>4, Zenon DEF DestroyCas
<1>6. ~ used'[b] /\ \A s \in Slots \ {b} : used'[s] = used[s]
  BY <1>1, <1>4, <1>5, Zenon
<1>7. \A s \in Slots : used[s] => handle[s] # 0 /\ (handle[s] = handle[b] => s = b)
  BY <1>3, <1>4, OneSlot, Zenon DEF OneInv
<1>8. PICK r : /\ pc'[c] \in {"idle", "sweep"} /\ me'[c] = r /\ Only(c) /\ r.id = 0 /\ r.work = 0
               /\ pc'[c] = "sweep" => r.gone # ANY
  <2>1. CASE me[c].gone = ANY
    <3>1. Goto(c, "idle") /\ Set(c, Idle)
      BY <1>5, <2>1, Zenon DEF DestroyReturn
    <3>2. pc'[c] = "idle" /\ me'[c] = Idle /\ Only(c)
      BY <3>1, Moved, Zenon
    <3>3. pc'[c] \in {"idle", "sweep"} /\ pc'[c] # "sweep"
      BY <3>2, ZenonT(60)
    <3> QED
      BY <1>1, <3>2, <3>3, Zenon
  <2>2. CASE me[c].gone # ANY
    <3> DEFINE r == [me[c] EXCEPT !.slot = 0, !.h = 0, !.bound = FALSE, !.best = @ + 1]
    <3>1. Goto(c, "sweep") /\ Set(c, r)
      BY <1>5, <2>2, Zenon DEF DestroyReturn
    <3>2. r.id = 0 /\ r.work = 0 /\ r.gone # ANY
      BY <1>1, <1>4, <2>2, Zenon DEF Local
    <3> HIDE DEF r
    <3>3. pc'[c] = "sweep" /\ me'[c] = r /\ Only(c)
      BY <3>1, Moved, ZenonT(60)
    <3> QED
      BY <3>2, <3>3, Zenon
  <2> QED
    BY <2>1, <2>2, Zenon
<1>9. pc'[c] \notin Submitting /\ Picked(c)'
  BY <1>8, ZenonT(60) DEF Submitting, Picked
<1>10. Worked(c)'
  <2>1. /\ pc'[c] \notin Working /\ pc'[c] \notin {"cancel", "unassign"} /\ pc'[c] \notin {"run", "release", "record"}
        /\ pc'[c] # "run" /\ pc'[c] # "cas" /\ pc'[c] # "apply" /\ pc'[c] # "destroy" /\ pc'[c] \notin {"destroy", "cas"}
        /\ pc'[c] \in {"sweep", "cancel", "unassign"} => pc'[c] = "sweep"
    BY <1>8, ZenonT(60) DEF Working
  <2> QED
    BY <1>8, <2>1, Zenon DEF Worked
<1>11. Accounted(c)'
  <2>1. \A s \in Slots : Sits(c, s)' => Sits(c, s) /\ used[s] /\ s # b
    BY <1>3, <1>6, ZenonT(60) DEF Sits
  <2>2. \A s \in Slots : ~ Claims(c, s) /\ (Released(c, handle[s]) => handle[s] = handle[b])
    BY <1>2, <1>3, <1>4, ZenonT(60) DEF Claims, Claiming, Released
  <2>3. \A s \in Slots : ~ (Sits(c, s)' /\ data'[s].dispatched)
    <3>1. \A s \in Slots : Sits(c, s) /\ data[s].dispatched => me[c].id = handle[s]
      BY <2>2, Zenon DEF OneInv, Accounted
    <3>2. me[c].id = 0 \/ me[c].id = handle[b]
      BY <1>4, Zenon
    <3>3. data' = data
      BY <1>2, Zenon
    <3> QED
      BY <1>7, <2>1, <3>1, <3>2, <3>3, Zenon
  <2>4. \A s \in Slots : Sits(c, s)' /\ data'[s].bound => reserved' = handle'[s]
    BY <1>2, <1>7, <2>1, <2>2, Zenon DEF OneInv, Accounted
  <2> QED
    BY <1>8, <2>3, <2>4, Zenon DEF Accounted
<1>12. \A s \in Slots : data'[s].job = data[s].job /\ (used'[s] => used[s])
  BY <1>2, <1>4, <1>6, Zenon
<1> QED
  BY <1>2, <1>3, <1>8, <1>9, <1>10, <1>11, <1>12, OneStep, ZenonT(60)
-----------------------------------------------------------------------------
(* The sweep of handle_leave_node.                                         *)
LEMMA OneSweep ==
    ASSUME BaseInv, NEW c \in Cores, OneInv(c), (\E n \in machine.leavers : LeaveNode(c, n)) \/ SweepSlot(c)
    PROVE  OneInv(c)'
<1>1. /\ me[c] \in Local /\ Place(pc[c], me[c]) /\ ANY \notin Cores
      /\ Idle.id = 0 /\ Idle.work = 0 /\ Idle \in Local
  BY OneFacts, Zenon
<1>2. pc[c] \in {"idle", "sweep"} /\ UNCHANGED <<used, handle, data, reserved, made>>
  BY Zenon DEF LeaveNode, SweepSlot, slotVars
<1>3. pc[c] \notin Submitting \cup Claiming \cup {"record", "destroy", "cas"} /\ pc[c] \notin Working /\ \A h : ~ Released(c, h)
  BY <1>2, ZenonT(60) DEF Submitting, Claiming, Working, Released
<1>4. me[c].id = 0 /\ me[c].work = 0
  BY <1>3, Zenon DEF OneInv, Worked, Accounted
<1>5. ASSUME NEW l \in {"sweep", "cancel", "unassign"}, NEW r, Goto(c, l), Set(c, r), r.id = 0, r.work = 0, r.gone # ANY,
             l \in {"cancel", "unassign"} => used[r.best] /\ handle[r.best] = r.h
      PROVE  OneInv(c)'
  <2>1. pc'[c] = l /\ me'[c] = r /\ Only(c)
    BY <1>5, Moved, ZenonT(60)
  <2>2. pc'[c] \in {"sweep", "cancel", "unassign"} /\ pc'[c] \notin Submitting /\ Picked(c)'
    BY <1>5, <2>1, ZenonT(60) DEF Submitting, Picked
  <2>3. Worked(c)'
    <3>1. /\ pc'[c] \notin {"run", "release", "record"} /\ pc'[c] # "run" /\ pc'[c] # "cas" /\ pc'[c] # "apply"
          /\ pc'[c] # "destroy" /\ pc'[c] \notin {"destroy", "cas"}
      BY <2>2, ZenonT(60)
    <3> QED
      BY <1>2, <1>5, <2>1, <3>1, ZenonT(60) DEF Worked
  <2> QED
    BY <1>2, <1>3, <1>4, <1>5, <2>1, <2>2, <2>3, OneLocal, Zenon
<1>6. "sweep" \in {"sweep", "cancel", "unassign"} /\ "sweep" \notin {"cancel", "unassign"}
  OBVIOUS
<1>7. ASSUME NEW n \in machine.leavers, LeaveNode(c, n) PROVE OneInv(c)'
  <2> DEFINE r == [Idle EXCEPT !.gone = n, !.best = 1]
  <2>1. n \in Cores
    BY <1>7, Zenon DEF LeaveNode, BaseInv, TypeOK
  <2>2. r.id = 0 /\ r.work = 0 /\ r.gone # ANY
    BY <1>1, <2>1, Zenon DEF Local
  <2>3. Goto(c, "sweep") /\ Set(c, r)
    BY <1>7, Zenon DEF LeaveNode
  <2> HIDE DEF r
  <2> QED
    BY <1>5, <1>6, <2>2, <2>3, Zenon
<1>8. CASE SweepSlot(c)
  <2> DEFINE i == me[c].best
  <2>1. pc[c] = "sweep" /\ me[c].gone # ANY
    BY <1>8, Zenon DEF SweepSlot, OneInv, Worked
  <2>2. CASE i \notin Slots
    <3>1. Goto(c, "idle") /\ Set(c, Idle)
      BY <1>8, <2>2, Zenon DEF SweepSlot
    <3> QED
      BY <1>2, <1>3, <1>4, <3>1, OneIdle, Zenon
  <2>3. CASE i \in Slots /\ (~ used[i] \/ ~ Touches(me[c].gone, data[i]))
    <3> DEFINE r == [me[c] EXCEPT !.best = i + 1]
    <3>1. Goto(c, "sweep") /\ Set(c, r)
      BY <1>8, <2>1, <2>3, Zenon DEF SweepSlot, Goto, BaseInv, TypeOK
    <3>2. r.id = 0 /\ r.work = 0 /\ r.gone # ANY
      BY <1>1, <1>4, <2>1, Zenon DEF Local
    <3> HIDE DEF r
    <3> QED
      BY <1>5, <1>6, <3>1, <3>2, Zenon
  <2>4. CASE i \in Slots /\ used[i] /\ Touches(me[c].gone, data[i])
    <3> DEFINE r == [me[c] EXCEPT !.h = handle[i], !.bound = data[i].bound]
               l == IF data[i].spec.affinity = me[c].gone THEN "cancel" ELSE "unassign"
    <3>1. Goto(c, l) /\ Set(c, r)
      BY <1>8, <2>4, Zenon DEF SweepSlot
    <3>2. r.id = 0 /\ r.work = 0 /\ r.gone # ANY /\ r.best = i /\ r.h = handle[i]
      BY <1>1, <1>4, <2>1, Zenon DEF Local
    <3>3. l \in {"sweep", "cancel", "unassign"}
      BY Zenon
    <3> HIDE DEF r, l
    <3> QED
      BY <1>5, <2>4, <3>1, <3>2, <3>3, Zenon
  <2> QED
    BY <2>2, <2>3, <2>4, Zenon
<1> QED
  BY <1>7, <1>8, Zenon

(* The sweep cancels a job: it gives its reservation back and destroys it. *)
LEMMA OneCancel ==
    ASSUME BaseInv, NEW c \in Cores, OneInv(c), SweepCancel(c)
    PROVE  OneInv(c)'
<1> DEFINE r == [me[c] EXCEPT !.slot = 1]
<1>1. me[c] \in Local /\ Place(pc[c], me[c])
  BY OneFacts, Zenon
<1>2. /\ pc[c] = "cancel" /\ UNCHANGED <<used, handle, data, made>> /\ Goto(c, "destroy") /\ Set(c, r)
      /\ reserved' = IF me[c].bound /\ reserved = me[c].h THEN 0 ELSE reserved
  BY Zenon DEF SweepCancel, slotVars
<1>3. pc[c] \notin Submitting \cup Claiming /\ pc[c] \notin Working /\ \A h : ~ Released(c, h)
  BY <1>2, ZenonT(60) DEF Submitting, Claiming, Working, Released
<1>4. /\ me[c].id = 0 /\ me[c].gone # ANY /\ me[c].best \in Slots /\ used[me[c].best] /\ handle[me[c].best] = me[c].h
      /\ me[c].bound \in BOOLEAN
  BY <1>1, <1>2, <1>3, Zenon DEF Place, OneInv, Worked, Local
<1>5. r.id = me[c].id /\ r.work = me[c].work /\ r.gone = me[c].gone /\ r.slot = 1 /\ r.h = me[c].h
  BY <1>1, Zenon DEF Local
<1> HIDE DEF r
<1>6. pc'[c] = "destroy" /\ me'[c] = r /\ Only(c)
  BY <1>2, Moved, ZenonT(60)
<1>7. pc'[c] \notin Submitting /\ Picked(c)'
  BY <1>6, ZenonT(60) DEF Submitting, Picked
<1>8. Worked(c)'
  <2>1. /\ pc'[c] \in Working /\ pc'[c] \notin {"sweep", "cancel", "unassign"} /\ pc'[c] \notin {"run", "release", "record"}
        /\ pc'[c] # "run" /\ pc'[c] # "cas" /\ pc'[c] # "apply" /\ pc'[c] \notin {"cancel", "unassign"}
    BY <1>6, ZenonT(60) DEF Working
  <2>2. 1 <= me[c].best
    BY <1>4, SlotNumbers, Zenon
  <2>3. \E t \in Slots : used'[t] /\ handle'[t] = me'[c].h /\ me'[c].slot <= t
    BY <1>2, <1>4, <1>5, <1>6, <2>2, Zenon
  <2> QED
    BY <1>4, <1>5, <1>6, <2>1, <2>3, Zenon DEF Worked
<1>9. PICK h : h = me[c].h
  BY Zenon
<1>10. reserved' = (IF me[c].bound /\ reserved = h THEN 0 ELSE reserved) /\ Released(c, h)'
  BY <1>2, <1>5, <1>6, <1>9, Zenon DEF Released
<1> QED
  BY <1>2, <1>3, <1>4, <1>5, <1>6, <1>7, <1>8, <1>10, OneGiveBack, Zenon

(* The sweep lets any node have a job that no core is running.             *)
LEMMA OneUnassign ==
    ASSUME BaseInv, NEW c \in Cores, OneInv(c), SweepUnassign(c)
    PROVE  OneInv(c)'
<1> DEFINE b == me[c].best
           j == [data[b] EXCEPT !.assigned = ANY]
           r == [me[c] EXCEPT !.best = @ + 1, !.h = 0, !.bound = FALSE]
<1>1. me[c] \in Local /\ Place(pc[c], me[c]) /\ data \in [Slots -> JobData]
  BY OneFacts, Zenon
<1>2. /\ pc[c] = "unassign" /\ UNCHANGED <<used, handle, reserved, made>>
      /\ data' = [data EXCEPT ![b] = j] /\ Goto(c, "sweep") /\ Set(c, r)
  BY Zenon DEF SweepUnassign
<1>3. pc[c] \notin Submitting \cup Claiming /\ pc[c] \notin Working /\ \A h : ~ Released(c, h)
  BY <1>2, ZenonT(60) DEF Submitting, Claiming, Working, Released
<1>4. b \in Slots /\ me[c].id = 0 /\ me[c].work = 0 /\ me[c].gone # ANY
  BY <1>1, <1>2, <1>3, Zenon DEF Place, OneInv, Worked, Accounted
<1>5. j.job = data[b].job /\ j.bound = data[b].bound /\ j.dispatched = data[b].dispatched
  BY <1>1, <1>4, ZenonT(60) DEF JobData
<1>6. r.id = 0 /\ r.work = 0 /\ r.gone # ANY
  BY <1>1, <1>4, Zenon DEF Local
<1> HIDE DEF j, r
<1>7. data'[b] = j /\ \A t \in Slots \ {b} : data'[t] = data[t]
  BY <1>1, <1>2, <1>4, DataSet, Zenon
<1>8. pc'[c] = "sweep" /\ me'[c] = r /\ Only(c)
  BY <1>2, Moved, Zenon
<1>9. pc'[c] \notin Submitting /\ Picked(c)' /\ Worked(c)'
  BY <1>6, <1>8, ZenonT(60) DEF Submitting, Picked, Worked, Working
<1>10. \A s \in Slots : /\ data'[s].job = data[s].job /\ data'[s].bound = data[s].bound
                        /\ data'[s].dispatched = data[s].dispatched
  BY <1>5, <1>7, Zenon
<1>11. Accounted(c)'
  <2>1. \A s \in Slots : (Sits(c, s)' => Sits(c, s)) /\ ~ Claims(c, s)
    BY <1>2, <1>3, Zenon DEF Sits, Claims, Claiming
  <2>2. \A s \in Slots : Sits(c, s)' /\ data'[s].dispatched => me'[c].id = handle'[s]
    BY <1>2, <1>4, <1>6, <1>8, <1>10, <2>1, Zenon DEF OneInv, Accounted
  <2>3. \A s \in Slots : Sits(c, s)' /\ data'[s].bound => reserved' = handle'[s]
    BY <1>2, <1>3, <1>10, <2>1, Zenon DEF OneInv, Accounted
  <2> QED
    BY <1>6, <1>8, <2>2, <2>3, Zenon DEF Accounted
<1> QED
  BY <1>2, <1>3, <1>8, <1>9, <1>10, <1>11, OneStep, Zenon
-----------------------------------------------------------------------------
(* create_job_object: the slot that is being filled is nobody's yet.       *)
LEMMA OneSubmit ==
    ASSUME BaseInv, NEW c \in Cores, OneInv(c), NEW b \in Slots, SubmitClaim(c, b)
    PROVE  OneInv(c)'
<1> DEFINE r == [Idle EXCEPT !.slot = b, !.h = made + 1]
<1>1. used \in [Slots -> BOOLEAN] /\ Idle.id = 0 /\ Idle.work = 0 /\ Idle \in Local /\ data \in [Slots -> JobData]
  BY OneFacts, Zenon
<1>2. /\ pc[c] = "idle" /\ UNCHANGED <<handle, data, reserved>> /\ made' = made + 1
      /\ used' = [used EXCEPT ![b] = TRUE] /\ Goto(c, "fill") /\ Set(c, r)
  BY Zenon DEF SubmitClaim
<1>3. pc[c] \notin Submitting \cup Claiming /\ pc[c] \notin Working /\ \A h : ~ Released(c, h)
  BY <1>2, ZenonT(60) DEF Submitting, Claiming, Working, Released
<1>4. r.id = 0 /\ r.work = 0 /\ r.slot = b /\ r.h = made'
  BY <1>1, <1>2, Zenon DEF Local
<1> HIDE DEF r
<1>5. pc'[c] = "fill" /\ me'[c] = r /\ Only(c)
  BY <1>2, Moved, ZenonT(60)
<1>6. pc'[c] \in Submitting /\ Picked(c)' /\ Worked(c)'
  BY <1>4, <1>5, ZenonT(60) DEF Submitting, Picked, Worked, Working
<1>7. \A s \in Slots : Sits(c, s)' => Sits(c, s)
  <2>1. \A s \in Slots : s # b => used'[s] = used[s]
    BY <1>1, <1>2, ZenonT(60)
  <2> QED
    BY <1>3, <1>4, <1>5, <1>6, <2>1, Zenon DEF Sits
<1>8. \A s \in Slots : data[s].job <= made /\ data[s].job <= made' /\ data[s].job < made'
  <2>1. \A s \in Slots : data[s].job <= made /\ data[s].job \in 0 .. MaxJobs
    BY <1>1, Zenon DEF OneInv, Numbered, JobData
  <2>2. made \in 0 .. MaxJobs
    BY Zenon DEF BaseInv, TypeOK
  <2>3. made \in Nat /\ \A s \in Slots : data[s].job \in Nat
    BY <2>1, <2>2, Counts, Zenon
  <2> QED
    BY <1>2, <2>1, <2>3, Counts, Zenon
<1>9. Numbered(c)'
  <2>1. pc'[c] # "publish"
    BY <1>5, ZenonT(60)
  <2>2. \A s \in Slots : data'[s].job <= made' /\ (Sits(c, s)' => handle'[s] = data'[s].job /\ handle'[s] # 0)
    BY <1>2, <1>7, <1>8, Zenon DEF OneInv, Numbered
  <2>3. \A s, t \in Slots : data'[s].job = data'[t].job => s = t \/ data'[s].job = 0
    BY <1>2, Zenon DEF OneInv, Numbered
  <2>4. me'[c].h = made' /\ \A s \in Slots : data'[s].job < made'
    BY <1>2, <1>4, <1>5, <1>8, Zenon
  <2> QED
    BY <2>1, <2>2, <2>3, <2>4, ZenonT(60) DEF Numbered
<1>10. Accounted(c)'
  <2>1. me[c].id = 0 /\ \A s \in Slots : ~ Claims(c, s)
    BY <1>3, Zenon DEF OneInv, Worked, Claims, Claiming
  <2>2. \A s \in Slots : Sits(c, s)' /\ data'[s].dispatched => me'[c].id = handle'[s]
    BY <1>2, <1>4, <1>5, <1>7, <2>1, Zenon DEF OneInv, Accounted
  <2>3. \A s \in Slots : Sits(c, s)' /\ data'[s].bound => reserved' = handle'[s]
    BY <1>2, <1>3, <1>7, Zenon DEF OneInv, Accounted
  <2> QED
    BY <1>4, <1>5, <2>2, <2>3, Zenon DEF Accounted
<1>11. Alone(c)'
  BY <1>5, Zenon DEF OneInv, Alone, Only
<1> QED
  BY <1>6, <1>9, <1>10, <1>11, Zenon DEF OneInv

(* The fields of the new job are written.                                  *)
LEMMA OneFill ==
    ASSUME BaseInv, NEW c \in Cores, OneInv(c), NEW spec, SubmitFill(c, spec)
    PROVE  OneInv(c)'
<1> DEFINE b == me[c].slot
           j == fresh(me[c].h, spec)
<1>1. Place(pc[c], me[c]) /\ data \in [Slots -> JobData]
  BY OneFacts, Zenon
<1>2. /\ pc[c] = "fill" /\ UNCHANGED <<used, handle, reserved, made>>
      /\ data' = [data EXCEPT ![b] = j] /\ Goto(c, "publish") /\ Set(c, me[c])
  BY Zenon DEF SubmitFill, Set, BaseInv, TypeOK
<1>3. pc[c] \in Submitting /\ pc[c] \notin Claiming /\ pc[c] \notin Working /\ \A h : ~ Released(c, h)
  BY <1>2, ZenonT(60) DEF Submitting, Claiming, Working, Released
<1>4. b \in Slots /\ me[c].id = 0 /\ me[c].h = made /\ \A s \in Slots : data[s].job < made
  BY <1>1, <1>2, <1>3, Zenon DEF Place, OneInv, Worked, Numbered
<1>5. j.job = made /\ ~ j.bound /\ ~ j.dispatched
  BY <1>4, Zenon DEF fresh
<1> HIDE DEF j
<1>6. data'[b] = j /\ \A t \in Slots \ {b} : data'[t] = data[t]
  BY <1>1, <1>2, <1>4, DataSet, Zenon
<1>7. pc'[c] = "publish" /\ me'[c] = me[c] /\ Only(c)
  BY <1>2, Moved, ZenonT(60)
<1>8. pc'[c] \in Submitting /\ Picked(c)' /\ Worked(c)'
  BY <1>4, <1>7, ZenonT(60) DEF Submitting, Picked, Worked, Working
<1>9. \A s \in Slots : Sits(c, s)' => Sits(c, s) /\ s # b /\ data'[s] = data[s]
  BY <1>2, <1>6, <1>7, <1>8, Zenon DEF Sits
<1>10. Numbered(c)'
  <2>1. made \in Nat /\ made <= made
    <3>1. made \in 0 .. MaxJobs
      BY Zenon DEF BaseInv, TypeOK
    <3> QED
      BY <3>1, Counts, Zenon
  <2>2. \A s \in Slots \ {b} : data[s].job <= made /\ data[s].job # made
    <3>1. \A s \in Slots : data[s].job \in 0 .. MaxJobs
      BY <1>1, Zenon DEF JobData
    <3> QED
      BY <1>4, <2>1, <3>1, Counts, Zenon
  <2>3. \A s \in Slots : data'[s].job <= made' /\ (Sits(c, s)' => handle'[s] = data'[s].job /\ handle'[s] # 0)
    BY <1>2, <1>5, <1>6, <1>9, <2>1, <2>2, ZenonT(60) DEF OneInv, Numbered
  <2>4. \A s, t \in Slots : data'[s].job = data'[t].job => s = t \/ data'[s].job = 0
    <3>1. \A s, t \in Slots : data[s].job = data[t].job => s = t \/ data[s].job = 0
      BY Zenon DEF OneInv, Numbered
    <3>2. data'[b].job = made /\ \A s \in Slots \ {b} : data'[s].job = data[s].job /\ data'[s].job # made
      BY <1>5, <1>6, <2>2, Zenon
    <3> QED
      BY <3>1, <3>2, ZenonT(60)
  <2>5. pc'[c] # "fill"
    BY <1>7, ZenonT(60)
  <2>6. me'[c].h = made' /\ data'[me'[c].slot].job = made' /\ ~ data'[me'[c].slot].bound /\ ~ data'[me'[c].slot].dispatched
    BY <1>2, <1>4, <1>5, <1>6, <1>7, Zenon
  <2> QED
    BY <2>3, <2>4, <2>5, <2>6, Zenon DEF Numbered
<1>11. Accounted(c)'
  <2>1. \A s \in Slots : ~ Claims(c, s)
    BY <1>3, Zenon DEF Claims, Claiming
  <2>2. \A s \in Slots : Sits(c, s)' /\ data'[s].dispatched => me'[c].id = handle'[s]
    BY <1>2, <1>7, <1>9, <2>1, Zenon DEF OneInv, Accounted
  <2>3. \A s \in Slots : Sits(c, s)' /\ data'[s].bound => reserved' = handle'[s]
    BY <1>2, <1>3, <1>9, Zenon DEF OneInv, Accounted
  <2> QED
    BY <1>7, <2>2, <2>3, Zenon DEF OneInv, Accounted
<1>12. Alone(c)'
  BY <1>7, Zenon DEF OneInv, Alone, Only
<1> QED
  BY <1>8, <1>10, <1>11, <1>12, Zenon DEF OneInv

(* The handle is published, or the slot is given back to the pool.         *)
LEMMA OnePublish ==
    ASSUME BaseInv, NEW c \in Cores, OneInv(c), SubmitPublish(c)
    PROVE  OneInv(c)'
<1> DEFINE b == me[c].slot
<1>1. Place(pc[c], me[c]) /\ used \in [Slots -> BOOLEAN] /\ handle \in [Slots -> 0 .. MaxJobs] /\ Idle.id = 0 /\ Idle.work = 0
  BY OneFacts, Zenon
<1>2. pc[c] = "publish" /\ UNCHANGED <<data, reserved, made>> /\ Goto(c, "idle") /\ Set(c, Idle)
  BY Zenon DEF SubmitPublish
<1>3. pc[c] \in Submitting /\ pc[c] \notin Claiming /\ pc[c] \notin Working /\ \A h : ~ Released(c, h)
  BY <1>2, ZenonT(60) DEF Submitting, Claiming, Working, Released
<1>4. /\ b \in Slots /\ me[c].id = 0 /\ me[c].h = made /\ me[c].h # 0
      /\ data[b].job = made /\ ~ data[b].bound /\ ~ data[b].dispatched
  BY <1>1, <1>2, <1>3, Zenon DEF Place, OneInv, Worked, Numbered
<1>5. pc'[c] = "idle" /\ me'[c] = Idle /\ Only(c)
  BY <1>2, Moved, ZenonT(60)
<1>6. pc'[c] \notin Submitting /\ Picked(c)' /\ Worked(c)'
  BY <1>1, <1>5, ZenonT(60) DEF Submitting, Picked, Worked, Working
<1>7. /\ \A s \in Slots \ {b} : used'[s] = used[s] /\ handle'[s] = handle[s]
      /\ used'[b] => handle'[b] = me[c].h
  BY <1>1, <1>4, Zenon DEF SubmitPublish
<1>8. \A s \in Slots \ {b} : Sits(c, s)' => Sits(c, s)
  BY <1>6, <1>7, Zenon DEF Sits
<1>9. Numbered(c)'
  <2>1. \A s \in Slots \ {b} : data'[s].job <= made' /\ (Sits(c, s)' => handle'[s] = data'[s].job /\ handle'[s] # 0)
    <3>1. \A s \in Slots : data[s].job <= made /\ (Sits(c, s) => handle[s] = data[s].job /\ handle[s] # 0)
      BY Zenon DEF OneInv, Numbered
    <3>2. \A s \in Slots : data'[s] = data[s] /\ made' = made
      BY <1>2, Zenon
    <3> QED
      BY <1>7, <1>8, <3>1, <3>2, Zenon
  <2>2. \A s \in {b} : data'[s].job <= made' /\ (Sits(c, s)' => handle'[s] = data'[s].job /\ handle'[s] # 0)
    <3>1. data[b].job <= made /\ \A s \in {b} : Sits(c, s)' => used'[s]
      BY <1>4, Zenon DEF OneInv, Numbered, Sits
    <3>2. data'[b] = data[b] /\ made' = made
      BY <1>2, Zenon
    <3> QED
      BY <1>4, <1>7, <3>1, <3>2, Zenon
  <2>3. \A s \in Slots : data'[s].job <= made' /\ (Sits(c, s)' => handle'[s] = data'[s].job /\ handle'[s] # 0)
    BY <2>1, <2>2, Zenon
  <2>4. \A s, t \in Slots : data'[s].job = data'[t].job => s = t \/ data'[s].job = 0
    BY <1>2, ZenonT(60) DEF OneInv, Numbered
  <2>5. pc'[c] # "fill" /\ pc'[c] # "publish"
    BY <1>5, ZenonT(60)
  <2> QED
    BY <1>6, <2>3, <2>4, <2>5, Zenon DEF Numbered
<1>10. Accounted(c)'
  <2>1. \A s \in Slots : ~ Claims(c, s)
    BY <1>3, Zenon DEF Claims, Claiming
  <2>2. \A s \in Slots : Sits(c, s)' /\ data'[s].dispatched => me'[c].id = handle'[s]
    BY <1>1, <1>2, <1>4, <1>5, <1>7, <1>8, <2>1, Zenon DEF OneInv, Accounted
  <2>3. \A s \in Slots : Sits(c, s)' /\ data'[s].bound => reserved' = handle'[s]
    BY <1>2, <1>3, <1>4, <1>7, <1>8, Zenon DEF OneInv, Accounted
  <2> QED
    BY <1>1, <1>5, <2>2, <2>3, Zenon DEF Accounted
<1>11. Alone(c)'
  BY <1>5, Zenon DEF OneInv, Alone, Only
<1> QED
  BY <1>6, <1>9, <1>10, <1>11, Zenon DEF OneInv
-----------------------------------------------------------------------------
(* The submissions made before the cores run sit in their slots.           *)
LEMMA OneInit == Init /\ BaseInv => OneCoreInv
<1> SUFFICES ASSUME Init, BaseInv, NEW c \in Cores PROVE OneInv(c)
  BY Zenon DEF OneCoreInv
<1>1. pc[c] = "idle" /\ me[c] = Idle /\ \A d \in Cores : pc[d] = "idle" /\ me[d] = Idle
  BY Zenon DEF Init
<1>2. Idle.id = 0 /\ Idle.work = 0
  BY OneFacts, Zenon
<1>3. Alone(c) /\ Picked(c) /\ Worked(c)
  <2>1. Picked(c) /\ Worked(c)
    BY <1>1, <1>2, ZenonT(60) DEF Picked, Worked, Working
  <2> QED
    BY <1>1, <2>1, ZenonT(60) DEF Alone
<1>4. \A s \in Slots : ~ data[s].dispatched /\ ~ data[s].bound
  BY Zenon DEF Init, fresh
<1>5. Accounted(c)
  BY <1>1, <1>2, <1>4, Zenon DEF Accounted
<1>6. Numbered(c)
  <2>1. 0 \notin Slots /\ 0 <= made
    <3>1. made \in 0 .. MaxJobs
      BY Zenon DEF BaseInv, TypeOK
    <3> QED
      BY <3>1, SlotNumbers, Counts, Zenon
  <2>2. \A s \in Slots : IF s <= Len(Preload) THEN used[s] /\ handle[s] = s /\ data[s].job = s
                         ELSE ~ used[s] /\ data[s].job = 0
    BY Zenon DEF Init, fresh
  <2>3. made = Len(Preload)
    BY Zenon DEF Init
  <2>4. \A s \in Slots : data[s].job <= made /\ (used[s] => handle[s] = data[s].job /\ handle[s] # 0)
    BY <2>1, <2>2, <2>3, Zenon
  <2>5. \A s, t \in Slots : data[s].job = data[t].job => s = t \/ data[s].job = 0
    BY <2>1, <2>2, Zenon
  <2>6. pc[c] \notin Submitting /\ pc[c] # "fill" /\ pc[c] # "publish"
    BY <1>1, ZenonT(60) DEF Submitting
  <2> QED
    BY <2>4, <2>5, <2>6, Zenon DEF Numbered, Sits
<1> QED
  BY <1>3, <1>5, <1>6, Zenon DEF OneInv

(* Only the one core takes steps, and each keeps the invariant.            *)
LEMMA OneNext == BaseInv /\ OneCoreInv /\ [Next]_vars => OneCoreInv'
<1> SUFFICES ASSUME BaseInv, OneCoreInv, [Next]_vars, NEW c \in Cores, machine.cores = {c}
             PROVE  OneInv(c)'
  BY SameMachine, Zenon DEF OneCoreInv
<1>1. OneInv(c) /\ machine.submitters \subseteq {c}
  <2>1. TypeOK
    BY Zenon DEF BaseInv
  <2> QED
    BY <2>1, MachineFields, Zenon DEF OneCoreInv
<1>2. CASE UNCHANGED vars
  <2>1. UNCHANGED <<used, handle, data, reserved, made, pc, me>>
    BY <1>2, Zenon DEF vars
  <2>2. Alone(c)' /\ Numbered(c)'
    BY <1>1, <2>1, Zenon DEF OneInv, Alone, Numbered, Sits
  <2>3. Accounted(c)'
    BY <1>1, <2>1, Zenon DEF OneInv, Accounted, Sits, Claims, Released
  <2>4. Picked(c)'
    BY <1>1, <2>1, Zenon DEF OneInv, Picked, Chosen
  <2>5. Worked(c)'
    BY <1>1, <2>1, Zenon DEF OneInv, Worked
  <2> QED
    BY <2>2, <2>3, <2>4, <2>5, Zenon DEF OneInv
<1>3. ASSUME NEW d \in Cores,
             GetNextJob(d) \/ Finish(d) \/ ReportLookup(d) \/ ReportApply(d) \/ Submit(d) \/ Leave(d)
      PROVE  d = c
  <2>1. d \in machine.cores \/ d \in machine.submitters \/
        pc[d] \in {"scan", "read", "assign", "bind", "deliver", "run", "release", "record", "destroy", "cas", "apply",
                   "fill", "publish", "sweep", "cancel", "unassign"}
    BY <1>3, ZenonT(60) DEF GetNextJob, Finish, Submit, Leave, StartScan, ScanSlot, ScanJob, ScanClaim, Assign, Bind, Deliver,
       FinishLookup, FinishRelease, FinishRecord, DestroyFind, DestroyCas, ReportLookup, ReportApply,
       SubmitClaim, SubmitFill, SubmitPublish, LeaveNode, SweepSlot, SweepCancel, SweepUnassign
  <2>2. d \in machine.cores \/ d \in machine.submitters \/ pc[d] # "idle"
    BY <2>1, ZenonT(60)
  <2> QED
    BY <1>1, <2>2, Zenon DEF OneInv, Alone
<1>4. CASE GetNextJob(c)
  BY <1>1, <1>4, OneScan, OneClaim, OneAssign, OneBind, OneDeliver, Zenon DEF GetNextJob
<1>5. CASE Finish(c) \/ ReportLookup(c) \/ ReportApply(c)
  BY <1>1, <1>5, OneLookup, OneApply, OneFinish, OneFind, OneCas, Zenon DEF Finish
<1>6. CASE Submit(c)
  BY <1>1, <1>6, OneSubmit, OneFill, OnePublish, Zenon DEF Submit
<1>7. CASE Leave(c)
  BY <1>1, <1>7, OneSweep, OneCancel, OneUnassign, Zenon DEF Leave
<1> QED
  BY <1>2, <1>3, <1>4, <1>5, <1>6, <1>7, Zenon DEF Next

(* cluster_scheduler.c on a machine with one core: a dispatched job is in  *)
(* that core's hands, runs where it was pinned and with the resource that  *)
(* was reserved for it, for any number of slots and submissions, through   *)
(* objects the factory refuses and nodes that leave.                       *)
THEOREM SafeOnOneCoreAlways == Spec => []SafeOnOneCore
<1>1. Init => BaseInv /\ OneCoreInv
  BY BaseInit, OneInit, Zenon
<1>2. BaseInv /\ OneCoreInv /\ [Next]_vars => (BaseInv /\ OneCoreInv)'
  BY BaseStep, OneNext, Zenon
<1>3. BaseInv /\ OneCoreInv => SafeOnOneCore
  <2> SUFFICES ASSUME BaseInv, OneCoreInv, NEW c \in Cores, machine.cores = {c}
               PROVE  NoLostJob /\ RunsWherePinned /\ HoldsItsResource
    BY Zenon DEF SafeOnOneCore
  <2>1. OneInv(c)
    BY Zenon DEF OneCoreInv
  <2>2. NoLostJob
    BY <2>1, Zenon DEF NoLostJob, OneInv, Accounted, Sits, Submitting
  <2>3. ASSUME NEW d \in Cores, NEW s \in Slots, pc[d] = "run", data[s].job = me[d].work
        PROVE  data[s].assigned = d /\ (data[s].spec.needs => reserved = me[d].id)
    <3>1. pc[d] # "idle"
      BY <2>3, ZenonT(60)
    <3>2. d = c
      BY <2>1, <3>1, ZenonT(60) DEF OneInv, Alone
    <3>3. pc[c] \notin Submitting /\ me[c].work = me[c].id
      BY <2>1, <2>3, <3>2, ZenonT(60) DEF Submitting, OneInv, Accounted
    <3>4. PICK t \in Slots : used[t] /\ handle[t] = me[c].id
      BY <2>1, <2>3, <3>2, Zenon DEF OneInv, Worked
    <3>5. handle[t] # 0 /\ handle[t] = data[t].job
      BY <2>1, <3>3, <3>4, OneSlot, Zenon DEF OneInv
    <3>6. s = t
      BY <2>1, <2>3, <3>2, <3>3, <3>4, <3>5, Zenon DEF OneInv, Numbered
    <3> QED
      BY <2>1, <2>3, <3>2, <3>4, <3>6, Zenon DEF OneInv, Worked
  <2> QED
    BY <2>2, <2>3, Zenon DEF RunsWherePinned, HoldsItsResource
<1> QED
  BY <1>1, <1>2, <1>3, PTL DEF Spec
=============================================================================
