----------------------- MODULE ClusterSchedulerSteps ------------------------
(***************************************************************************)
(* The inductive invariant of the cluster scheduler object, for every      *)
(* number of nodes, jobs, resources and mutexes, what binding, handing out *)
(* and the notes of a job do to it, and the steps that keep it without     *)
(* moving a job into or out of a node's hands: joins and unplugs, resource *)
(* declarations, reports of a wait, mutexes, submissions.  Then the same   *)
(* for the invariant that keeps a mutex's holder in the job table.         *)
(***************************************************************************)
EXTENDS ClusterScheduler, TLAPS

(* A job's handle finds at most one slot, and is not given out again.      *)
HandlesUnique ==
    /\ \A s, t \in Used : job[s].id = job[t].id => s = t
    /\ \A s \in Used : job[s].id <= jobsMade
    /\ \A n \in Nodes : running[n] <= jobsMade

(* The index lists live resources only, and no job is bound to a resource  *)
(* that does not exist yet.                                                *)
IndexSound ==
    /\ \A r \in ResIds : res[r].live => r <= resMade
    /\ \A i \in ResIds : index[i] # 0 => res[index[i]].live
    /\ \A s \in Used : job[s].bound <= resMade

(* Only a loop that runs has a job in hand; the job keeps its dispatched   *)
(* flag for as long; and a job is pinned to a node its affinity allows.    *)
InHand ==
    /\ \A n \in Nodes : running[n] # 0 => n \in up /\ \A s \in SlotOf(running[n]) : job[s].dispatched
    /\ \A s \in Used : job[s].assigned # ANY => job[s].spec.affinity \in {job[s].assigned, ANY}

ClusterInv ==
    /\ RunningJobsSound /\ ReservationsMatchBindings /\ BoostOnlyWhileHolding
    /\ HandlesUnique /\ IndexSound /\ InHand
-----------------------------------------------------------------------------
(* A non-empty set of index entries has a last one, so the scan of         *)
(* bind_resource_for has an outcome.  The lemmas on handle_get_next_job    *)
(* take this as an assumption; LastEntry of SchedulingProofs proves it.    *)
LastEntries == \A S \in SUBSET ResIds : S # {} => \E i \in S : \A k \in S : k <= i

(* What bind_resource_for takes when resource_ok_for agreed: the resource  *)
(* the job has, or a live one that nobody has reserved; and something,     *)
(* whenever the job requires something.                                    *)
LEMMA Binding ==
    ASSUME LastEntries, TypeOK, NEW j \in Job
    PROVE  /\ BindTo(j) \in 0 .. ResPool
           /\ j.bound # 0 => BindTo(j) = j.bound
           /\ IndexSound /\ resource_ok_for(j) /\ j.bound = 0 /\ BindTo(j) # 0
                => res[BindTo(j)].live /\ res[BindTo(j)].reserved = 0
           /\ resource_ok_for(j) /\ Requires(j) => BindTo(j) # 0
<1> USE ClusterAssumption
<1> DEFINE last == CHOOSE i \in Matching(j) : \A k \in Matching(j) : k <= i
<1>1. j.bound \in 0 .. ResPool /\ j.spec.resource \in 0 .. ResPool
  BY Zenon DEF Job, JobSpec
<1>2. CASE Matching(j) # {} /\ j.bound = 0 /\ j.spec.resource = 0 /\ j.spec.kind # NoKind
  <2>1. Matching(j) \in SUBSET ResIds
    BY Zenon DEF Matching
  <2>2. last \in Matching(j)
    BY <1>2, <2>1, Zenon DEF LastEntries
  <2> HIDE DEF last
  <2>3. last \in ResIds /\ index[last] # 0 /\ res[index[last]].reserved = 0
    BY <2>2, Zenon DEF Matching
  <2>4. BindTo(j) = index[last]
    BY <1>2, Zenon DEF BindTo, last
  <2>5. index[last] \in 0 .. ResPool
    BY <2>3, Zenon DEF TypeOK
  <2>6. QED
    BY <1>2, <2>3, <2>4, <2>5, Zenon DEF IndexSound
<1>3. CASE ~ (Matching(j) # {} /\ j.bound = 0 /\ j.spec.resource = 0 /\ j.spec.kind # NoKind)
  BY <1>1, <1>3, Zenon DEF BindTo, resource_ok_for, Requires
<1>4. QED
  BY <1>2, <1>3, Zenon

(* handle_get_next_job on the job table: the job that is handed out, and   *)
(* what the scan may have done to the others.                              *)
LEMMA Handed ==
    ASSUME LastEntries, TypeOK, NEW n \in Nodes, GetNextJob(n)
    PROVE  \E s \in Eligible(n) :
             LET j == job[s]
             IN  /\ running' = [running EXCEPT ![n] = j.id]
                 /\ job'[s] \in Job
                 /\ job'[s].id = j.id /\ job'[s].spec = j.spec /\ job'[s].priority = j.priority
                 /\ job'[s].dispatched /\ job'[s].bound = BindTo(j)
                 /\ job'[s].assigned = IF j.assigned = ANY THEN n ELSE j.assigned
                 /\ res' = IF j.bound = 0 /\ BindTo(j) # 0 THEN [res EXCEPT ![BindTo(j)].reserved = j.id] ELSE res
                 /\ DOMAIN job' = Slots
                 /\ \A t \in Slots \ {s} : \/ job'[t] = job[t]
                                           \/ t \in Used /\ job'[t] = [job[t] EXCEPT !.block = "none"]
<1>1. PICK s \in Best(Candidates(n)) :
         LET j == job[s]
             r == BindTo(j)
         IN  /\ job' = [AfterScan(n) EXCEPT
                           ![s].dispatched = TRUE,
                           ![s].assigned = IF j.assigned = ANY THEN n ELSE j.assigned,
                           ![s].bound = r]
             /\ res' = IF j.bound = 0 /\ r # 0 THEN [res EXCEPT ![r].reserved = j.id] ELSE res
             /\ running' = [running EXCEPT ![n] = j.id]
  BY Zenon DEF GetNextJob
<1>2. s \in Eligible(n)
  BY <1>1, Zenon DEF Best, Candidates
<1>3. s \in Slots /\ s \in Used /\ job[s] \in Job
  BY <1>2, Zenon DEF Eligible, Used, TypeOK
<1>4. BindTo(job[s]) \in 0 .. ResPool
  BY <1>3, Binding, Zenon
<1> DEFINE a == AfterScan(n)
<1>5. /\ a = [t \in Slots |-> a[t]]
      /\ \A t \in Slots : a[t] = job[t] \/ (t \in Used /\ a[t] = [job[t] EXCEPT !.block = "none"])
  BY Zenon DEF AfterScan, Eligible
<1>6. \A t \in Used : job[t] \in Job
  BY Zenon DEF Used, TypeOK
<1>7. /\ a[s] \in Job
      /\ a[s].id = job[s].id /\ a[s].spec = job[s].spec /\ a[s].priority = job[s].priority
  BY <1>3, <1>5 DEF Job
<1> HIDE DEF a
<1>8. job' = [a EXCEPT ![s] = [a[s] EXCEPT !.dispatched = TRUE,
                                            !.assigned = IF job[s].assigned = ANY THEN n ELSE job[s].assigned,
                                            !.bound = BindTo(job[s])]]
  BY <1>1, <1>3, <1>5, <1>7, Zenon DEF a, Job
<1>9. job'[s] = [a[s] EXCEPT !.dispatched = TRUE,
                             !.assigned = IF job[s].assigned = ANY THEN n ELSE job[s].assigned,
                             !.bound = BindTo(job[s])]
  BY <1>3, <1>5, <1>8, Zenon
<1>10. /\ DOMAIN job' = Slots
       /\ \A t \in Slots \ {s} : job'[t] = a[t]
  BY <1>3, <1>5, <1>8, Zenon
<1>11. /\ job'[s] \in Job
       /\ job'[s].id = job[s].id /\ job'[s].spec = job[s].spec /\ job'[s].priority = job[s].priority
       /\ job'[s].dispatched /\ job'[s].bound = BindTo(job[s])
       /\ job'[s].assigned = IF job[s].assigned = ANY THEN n ELSE job[s].assigned
  BY <1>3, <1>4, <1>7, <1>9, ZenonT(60) DEF Job
<1>12. \A t \in Slots \ {s} : job'[t] = job[t] \/ (t \in Used /\ job'[t] = [job[t] EXCEPT !.block = "none"])
  BY <1>5, <1>10, Zenon
<1>13. QED
  <2> WITNESS s \in Eligible(n)
  <2>1. QED
    BY <1>1, <1>10, <1>11, <1>12, Zenon
-----------------------------------------------------------------------------
(* The sizes of the static arrays and the bound on handles are numbers.    *)
LEMMA Sizes == JobPool \in Nat /\ ResPool \in Nat \ {0} /\ NodePool \in Nat /\ MaxJobs \in Nat
BY ClusterAssumption, Zenon

(* Used slots hold jobs, and a job's handle is not 0.                      *)
LEMMA UsedSlots ==
    ASSUME TypeOK
    PROVE  /\ Used \subseteq Slots /\ SlotOf(0) = {}
           /\ \A s \in Used : job[s] \in Job /\ job[s].id \in Handles /\ job[s].id # 0
<1>1. Used \subseteq Slots /\ \A s \in Used : job[s] \in Job
  BY Zenon DEF Used, TypeOK
<1>2. 0 \notin Handles
  BY Sizes DEF Handles
<1>3. \A s \in Used : job[s].id \in Handles
  BY <1>1, Zenon DEF Job
<1>4. QED
  BY <1>1, <1>2, <1>3, Zenon DEF SlotOf

(* The mark of an unused slot is no job.                                   *)
LEMMA FreeIsNoJob == Free \notin Job
BY ClusterAssumption, Zenon

(* A step that changes at most what the scheduler notes about jobs: their  *)
(* priority, whether they are dispatched and what they wait for.           *)
NotesOnly ==
    /\ job' \in [Slots -> Job \cup {Free}]
    /\ \A s \in Slots : job'[s] = Free <=> job[s] = Free
    /\ \A s \in Used : /\ job'[s].id = job[s].id /\ job'[s].spec = job[s].spec
                       /\ job'[s].assigned = job[s].assigned /\ job'[s].bound = job[s].bound

(* Such a step leaves slots, handles and bindings as they were, and so it  *)
(* does what they are about, if no node gets a new job with it.            *)
LEMMA NotesKeep ==
    ASSUME TypeOK, NotesOnly, \A n \in Nodes : running'[n] \in {0, running[n]}, UNCHANGED <<nodeVars, resVars, jobsMade>>
    PROVE  /\ Used' = Used
           /\ \A h : SlotOf(h)' = SlotOf(h)
           /\ ReservationsMatchBindings => ReservationsMatchBindings'
           /\ RunsWhereAssigned => RunsWhereAssigned'
           /\ DispatchExclusive => DispatchExclusive'
           /\ HandlesUnique => HandlesUnique'
           /\ IndexSound => IndexSound'
<1>1. Used' = Used
  BY Zenon DEF Used, NotesOnly
<1>2. \A h : SlotOf(h)' = SlotOf(h)
  BY <1>1, Zenon DEF SlotOf, NotesOnly
<1>3. SlotOf(0) = {}
  BY UsedSlots, Zenon
<1>4. ASSUME ReservationsMatchBindings PROVE ReservationsMatchBindings'
  BY <1>1, <1>2, <1>4 DEF ReservationsMatchBindings, NotesOnly, SlotOf, resVars
<1>5. ASSUME RunsWhereAssigned PROVE RunsWhereAssigned'
  BY <1>1, <1>2, <1>3, <1>5 DEF RunsWhereAssigned, NotesOnly, SlotOf, nodeVars
<1>6. ASSUME DispatchExclusive PROVE DispatchExclusive'
  BY <1>6, Zenon DEF DispatchExclusive
<1>7. ASSUME HandlesUnique PROVE HandlesUnique'
  <2>1. jobsMade \in Nat /\ \A n \in Nodes : running[n] <= jobsMade
    BY <1>7, Sizes DEF HandlesUnique, TypeOK
  <2>2. \A n \in Nodes : running'[n] <= jobsMade
    BY <2>1
  <2>3. QED
    BY <1>1, <1>7, <2>2 DEF HandlesUnique, NotesOnly
<1>8. ASSUME IndexSound PROVE IndexSound'
  BY <1>1, <1>8, Zenon DEF IndexSound, NotesOnly, resVars
<1>9. QED
  BY <1>1, <1>2, <1>4, <1>5, <1>6, <1>7, <1>8, Zenon
-----------------------------------------------------------------------------
(* The memory pool's record and a destroyed one are resources.             *)
LEMMA ResourceRecords ==
    /\ Dead \in Resource /\ ~ Dead.live /\ Dead.reserved = 0
    /\ [Dead EXCEPT !.live = TRUE, !.kind = "MEMORY", !.capacity = 1] \in Resource
<1>1. BSP \in Nodes /\ "MEMORY" \in Kinds \cup {NoKind} /\ NoKind \in Kinds \cup {NoKind} /\ 0 \in 0 .. MaxJobs
  BY ClusterAssumption
<1>2. Dead \in Resource /\ ~ Dead.live /\ Dead.reserved = 0
  BY <1>1, Zenon DEF Dead, Resource
<1>3. [Dead EXCEPT !.live = TRUE, !.kind = "MEMORY", !.capacity = 1] \in Resource
  BY <1>1, <1>2, Zenon DEF Resource
<1>4. QED
  BY <1>2, <1>3, Zenon

(* cluster_scheduler_init_schema: one live resource, no nodes, no jobs.    *)
LEMMA InitInv == Init => ClusterInv
<1> SUFFICES ASSUME Init PROVE ClusterInv
  BY Zenon
<1> USE Sizes DEF Init
<1>1. Used = {} /\ \A h : SlotOf(h) = {}
  BY Zenon DEF Used, SlotOf
<1>2. 1 \in ResIds /\ Dead \in Resource /\ [Dead EXCEPT !.live = TRUE, !.kind = "MEMORY", !.capacity = 1] \in Resource
  BY Sizes, ResourceRecords DEF ResIds
<1>3. TypeOK
  BY <1>2 DEF TypeOK, ResIds
<1>4. DispatchExclusive /\ RunsWhereAssigned /\ StartedJobsAreBound
  BY <1>1, Zenon DEF DispatchExclusive, RunsWhereAssigned, StartedJobsAreBound
<1>5. \A r \in ResIds : res[r].reserved = 0 /\ (res[r].live => r = 1)
  BY Zenon DEF Dead
<1>6. ReservationsMatchBindings /\ BoostOnlyWhileHolding
  BY <1>1, <1>5, Zenon DEF ReservationsMatchBindings, BoostOnlyWhileHolding
<1>7. HandlesUnique /\ IndexSound /\ InHand
  BY <1>1, <1>2, <1>5 DEF HandlesUnique, IndexSound, InHand
<1>8. QED
  BY <1>3, <1>4, <1>6, <1>7, Zenon DEF ClusterInv, RunningJobsSound

(* A node joins, or is unplugged once it has left: what a joining node had *)
(* in hand is nothing, because its loop was not running.                   *)
LEMMA NodeSteps ==
    ASSUME ClusterInv, NEW n \in Nodes, JoinNode(n) \/ RemoveNode(n)
    PROVE  ClusterInv'
<1> USE DEF ClusterInv, RunningJobsSound
<1>1. UNCHANGED <<resVars, jobVars, holder>>
  BY Zenon DEF JoinNode, RemoveNode
<1>2. \A m \in Nodes : running'[m] \in {0, running[m]}
  BY Zenon DEF JoinNode, RemoveNode, TypeOK
<1>3. Used' = Used /\ \A h : SlotOf(h)' = SlotOf(h) /\ Holding(h)' = Holding(h)
  BY <1>1, Zenon DEF Used, SlotOf, Holding, jobVars
<1>4. SlotOf(0) = {}
  BY UsedSlots, Zenon
<1>5. TypeOK'
  <2>1. UNCHANGED <<res, resMade, index, job, jobsMade, completions, holder>>
    BY <1>1, Zenon DEF resVars, jobVars
  <2>2. CASE JoinNode(n)
    BY <2>1, <2>2, Sizes DEF TypeOK, JoinNode
  <2>3. CASE RemoveNode(n)
    BY <2>1, <2>3, Sizes DEF TypeOK, RemoveNode, nodeVars
  <2>4. QED
    BY <2>2, <2>3, Zenon
<1>6. DispatchExclusive'
  BY <1>2, Zenon DEF DispatchExclusive
<1>7. RunsWhereAssigned'
  <2>1. CASE JoinNode(n)
    BY <1>1, <1>3, <1>4, <2>1 DEF RunsWhereAssigned, InHand, JoinNode, jobVars
  <2>2. CASE RemoveNode(n)
    BY <1>1, <1>2, <1>3, <1>4, <2>2 DEF RunsWhereAssigned, RemoveNode, jobVars, nodeVars
  <2>3. QED
    BY <2>1, <2>2, Zenon
<1>8. StartedJobsAreBound' /\ ReservationsMatchBindings' /\ BoostOnlyWhileHolding'
  BY <1>1, <1>3, Zenon DEF StartedJobsAreBound, ReservationsMatchBindings, BoostOnlyWhileHolding, jobVars, resVars, Requires
<1>9. HandlesUnique' /\ IndexSound'
  <2>1. jobsMade \in Nat /\ \A m \in Nodes : running'[m] <= jobsMade
    <3>1. jobsMade \in Nat /\ \A m \in Nodes : running[m] <= jobsMade
      BY Sizes DEF HandlesUnique, TypeOK
    <3>2. QED
      BY <1>2, <3>1
  <2>2. QED
    BY <1>1, <1>3, <2>1, Zenon DEF HandlesUnique, IndexSound, jobVars, resVars
<1>10. InHand'
  <2>1. CASE JoinNode(n)
    BY <1>1, <1>3, <2>1, Zenon DEF InHand, JoinNode, jobVars
  <2>2. CASE RemoveNode(n)
    BY <1>1, <1>3, <2>2, Zenon DEF InHand, RemoveNode, jobVars, TypeOK
  <2>3. QED
    BY <2>1, <2>2, Zenon
<1>11. QED
  BY <1>5, <1>6, <1>7, <1>8, <1>9, <1>10, Zenon

(* Resources are declared and reassigned: a fresh one has no job bound to  *)
(* it, and reassigning only changes the owner.                             *)
LEMMA ResourceSteps ==
    ASSUME ClusterInv,
           \/ \E n \in Nodes, spec \in ResSpecs : DeclareResource(n, spec)
           \/ \E r \in ResIds, n \in Nodes : ReassignResource(r, n)
    PROVE  ClusterInv'
<1> USE DEF ClusterInv, RunningJobsSound
<1>1. UNCHANGED <<nodeVars, jobVars, holder, loopVars>>
  BY Zenon DEF DeclareResource, ReassignResource
<1>2. Used' = Used /\ \A h : SlotOf(h)' = SlotOf(h) /\ Holding(h)' = Holding(h)
  BY <1>1, Zenon DEF Used, SlotOf, Holding, jobVars
<1>3. TypeOK' /\ ReservationsMatchBindings' /\ IndexSound'
  <2>1. ASSUME NEW n \in Nodes, NEW spec \in ResSpecs, DeclareResource(n, spec)
        PROVE  TypeOK' /\ ReservationsMatchBindings' /\ IndexSound'
    <3> DEFINE new == [live |-> TRUE, kind |-> spec.kind, capacity |-> spec.capacity, owner |-> n, reserved |-> 0]
    <3>1. resMade \in Nat /\ resMade + 1 \in ResIds /\ new \in Resource
      <4>1. resMade \in Nat /\ resMade + 1 \in ResIds
        BY <2>1, Sizes DEF DeclareResource, TypeOK, ResIds
      <4>2. spec \in ResSpec
        BY ClusterAssumption, Zenon
      <4>3. spec.kind \in Kinds /\ spec.capacity \in Nat /\ 0 \in 0 .. MaxJobs
        BY <4>2, Sizes DEF ResSpec
      <4>4. QED
        BY <4>1, <4>3, Zenon DEF Resource
    <3>2. PICK i \in ResIds : index' = [index EXCEPT ![i] = resMade + 1]
      BY <2>1, Zenon DEF DeclareResource, Least
    <3>3. res' = [res EXCEPT ![resMade + 1] = new] /\ resMade' = resMade + 1
      BY <2>1, Zenon DEF DeclareResource
    <3> HIDE DEF new
    <3>4. TypeOK'
      <4>1. resMade' \in 1 .. ResPool /\ resMade + 1 \in 0 .. ResPool
        BY <3>1, <3>3, Sizes DEF ResIds
      <4>2. res' \in [ResIds -> Resource] /\ index' \in [ResIds -> 0 .. ResPool]
        BY <3>1, <3>2, <3>3, <4>1, Zenon DEF TypeOK
      <4>3. QED
        BY <1>1, <4>1, <4>2, Zenon DEF TypeOK, nodeVars, jobVars, loopVars
    <3>5. \A r \in ResIds \ {resMade + 1} : res'[r] = res[r]
      BY <3>3, Zenon DEF TypeOK
    <3>6. res'[resMade + 1].live /\ res'[resMade + 1].reserved = 0
      BY <3>1, <3>3, Zenon DEF TypeOK, new
    <3>7. \A s \in Used : job'[s] = job[s] /\ job[s].bound \in Nat /\ job[s].bound # resMade + 1
      <4>1. \A s \in Used : job'[s] = job[s] /\ job[s] \in Job /\ job[s].bound <= resMade
        BY <1>1, Zenon DEF IndexSound, Used, jobVars, TypeOK
      <4>2. \A s \in Used : job[s].bound \in Nat
        BY <4>1, Sizes DEF Job
      <4>3. QED
        BY <3>1, <4>1, <4>2
    <3>8. ReservationsMatchBindings'
      BY <1>2, <3>5, <3>6, <3>7 DEF ReservationsMatchBindings, SlotOf
    <3>9. \A k \in ResIds : index'[k] # 0 => index'[k] = resMade + 1 \/ (index'[k] = index[k] /\ index[k] \in ResIds)
      BY <3>2, ClusterAssumption DEF TypeOK, ResIds
    <3>10. \A k \in ResIds : index'[k] # 0 => res'[index'[k]].live
      BY <3>5, <3>6, <3>9 DEF IndexSound
    <3>11. \A r \in ResIds : res'[r].live => r <= resMade'
      BY <3>1, <3>3, <3>5 DEF IndexSound, ResIds
    <3>12. \A s \in Used' : job'[s].bound <= resMade'
      BY <1>2, <3>1, <3>3, <3>7 DEF IndexSound
    <3>13. QED
      BY <3>4, <3>8, <3>10, <3>11, <3>12, Zenon DEF IndexSound
  <2>2. ASSUME NEW r \in ResIds, NEW n \in Nodes, ReassignResource(r, n)
        PROVE  TypeOK' /\ ReservationsMatchBindings' /\ IndexSound'
    <3>1. /\ res' \in [ResIds -> Resource] /\ resMade' = resMade /\ index' = index
          /\ \A q \in ResIds : res'[q].live = res[q].live /\ res'[q].reserved = res[q].reserved
      <4>1. res' = [res EXCEPT ![r].owner = n] /\ resMade' = resMade /\ index' = index
        BY <2>2, Zenon DEF ReassignResource
      <4>2. res \in [ResIds -> Resource]
        BY Zenon DEF TypeOK
      <4>3. res'[r] = [res[r] EXCEPT !.owner = n] /\ \A q \in ResIds \ {r} : res'[q] = res[q]
        BY <4>1, <4>2, Zenon
      <4>4. res'[r] \in Resource /\ res'[r].live = res[r].live /\ res'[r].reserved = res[r].reserved
        BY <4>2, <4>3 DEF Resource
      <4>5. QED
        BY <4>1, <4>2, <4>3, <4>4, Zenon
    <3>2. TypeOK'
      BY <1>1, <3>1, Zenon DEF TypeOK, nodeVars, jobVars, loopVars
    <3>3. ReservationsMatchBindings'
      BY <1>1, <1>2, <3>1 DEF ReservationsMatchBindings, jobVars
    <3>4. IndexSound'
      <4>1. \A k \in ResIds : index[k] # 0 => index[k] \in ResIds
        BY Sizes DEF TypeOK, ResIds
      <4>2. QED
        BY <1>1, <1>2, <3>1, <4>1, Zenon DEF IndexSound, jobVars
    <3>5. QED
      BY <3>2, <3>3, <3>4, Zenon
  <2>3. QED
    BY <2>1, <2>2, Zenon
<1>4. DispatchExclusive' /\ RunsWhereAssigned' /\ StartedJobsAreBound'
  BY <1>1, <1>2, Zenon DEF DispatchExclusive, RunsWhereAssigned, StartedJobsAreBound, Requires, jobVars, loopVars, nodeVars
<1>5. BoostOnlyWhileHolding' /\ HandlesUnique' /\ InHand'
  BY <1>1, <1>2, Zenon DEF BoostOnlyWhileHolding, HandlesUnique, InHand, jobVars, loopVars
<1>6. QED
  BY <1>3, <1>4, <1>5, Zenon

(* A step that changes no more than the notes about the job node n has.    *)
NotesOf(n) ==
    /\ job' = [s \in Slots |-> job'[s]]
    /\ \A s \in Slots : s \notin SlotOf(running[n]) => job'[s] = job[s]
    /\ \A s \in SlotOf(running[n]) :
         /\ job'[s] \in Job /\ job'[s].id = job[s].id /\ job'[s].spec = job[s].spec
         /\ job'[s].assigned = job[s].assigned /\ job'[s].bound = job[s].bound

(* JOB_RUNNING and JOB_BLOCKED: only the reported job's notes change, and  *)
(* it was dispatched, hence bound to what it requires.                     *)
LEMMA ReportSteps ==
    ASSUME ClusterInv, NEW n \in Nodes,
           \/ ReportRunning(n) \/ ReportBlockedOnMutex(n)
           \/ \E h \in Handles : ReportBlockedOnJob(n, h)
    PROVE  ClusterInv'
<1> USE DEF ClusterInv, RunningJobsSound
<1>1. /\ running[n] # 0 /\ running' = [running EXCEPT ![n] = 0] /\ lost' = [lost EXCEPT ![n] = 0]
      /\ UNCHANGED <<nodeVars, resMade, index, jobsMade, holder, up, res, completions>>
  BY Zenon DEF ReportRunning, ReportBlockedOnMutex, ReportBlockedOnJob, Reporting
<1>2. SlotOf(running[n]) \subseteq Used /\ Used \subseteq Slots /\ \A s \in Used : job[s] \in Job
  BY Zenon DEF SlotOf, Used, TypeOK
<1>3. NotesOf(n) /\ \A s \in SlotOf(running[n]) : job'[s].priority = job[s].priority
  <2>1. CASE ReportRunning(n)
    <3>1. job' = [s \in Slots |-> IF s \in SlotOf(running[n])
                              THEN [job[s] EXCEPT !.dispatched = FALSE] ELSE job[s]]
      BY <2>1, Zenon DEF ReportRunning
    <3>2. QED
      BY <1>2, <3>1, ZenonT(60) DEF Job, NotesOf
  <2>2. ASSUME NEW b \in {"mutex", "job"}, NEW o \in Nat, job' = Undispatched(n, b, o)
        PROVE  NotesOf(n) /\ \A s \in SlotOf(running[n]) : job'[s].priority = job[s].priority
    BY <1>2, <2>2, ZenonT(60) DEF Undispatched, Job, NotesOf
  <2>3. CASE ReportBlockedOnMutex(n)
    <3>1. lost[n] \in Nat /\ job' = Undispatched(n, "mutex", lost[n])
      BY <2>3, ClusterAssumption, Zenon DEF ReportBlockedOnMutex, TypeOK
    <3>2. QED
      BY <2>2, <3>1, Zenon
  <2>4. ASSUME NEW h \in Handles, ReportBlockedOnJob(n, h)
        PROVE  NotesOf(n) /\ \A s \in SlotOf(running[n]) : job'[s].priority = job[s].priority
    <3>1. h \in Nat /\ job' = Undispatched(n, "job", h)
      BY <2>4, Sizes DEF ReportBlockedOnJob, Handles
    <3>2. QED
      BY <2>2, <3>1, Zenon
  <2>5. QED
    BY <2>1, <2>3, <2>4, Zenon
<1>4. NotesOnly
  BY <1>2, <1>3, ClusterAssumption DEF NotesOf, NotesOnly, TypeOK, Used
<1>5. \A m \in Nodes : running'[m] \in {0, running[m]}
  BY <1>1, Zenon DEF TypeOK
<1>6. /\ Used' = Used /\ \A h : SlotOf(h)' = SlotOf(h)
      /\ ReservationsMatchBindings' /\ RunsWhereAssigned' /\ DispatchExclusive' /\ HandlesUnique' /\ IndexSound'
  BY <1>1, <1>4, <1>5, NotesKeep, Zenon DEF resVars
<1>7. TypeOK'
  <2>1. UNCHANGED <<joined, nodesMade, res, resMade, index, jobsMade, completions, holder, up>>
    BY <1>1, Zenon DEF nodeVars
  <2>2. running' \in [Nodes -> 0 .. MaxJobs] /\ lost' \in [Nodes -> MutexIds \cup {0}]
    <3>1. running \in [Nodes -> 0 .. MaxJobs] /\ lost \in [Nodes -> MutexIds \cup {0}] /\ 0 \in 0 .. MaxJobs
      BY Sizes DEF TypeOK
    <3>2. QED
      BY <1>1, <3>1, Zenon
  <2>3. QED
    BY <1>4, <2>1, <2>2, Zenon DEF TypeOK, NotesOnly
<1>8. \A s \in SlotOf(running[n]) : job[s].dispatched
  BY <1>1, ZenonT(30) DEF InHand
<1>9. StartedJobsAreBound'
  BY <1>2, <1>3, <1>6, <1>8 DEF StartedJobsAreBound, NotesOf, Requires
<1>10. BoostOnlyWhileHolding'
  <2>1. \A h : Holding(h)' = Holding(h)
    BY <1>1, Zenon DEF Holding
  <2>2. QED
    BY <1>2, <1>3, <1>6, <2>1 DEF BoostOnlyWhileHolding, NotesOf
<1>11. InHand'
  <2>1. \A m \in Nodes : running'[m] # 0 => m # n /\ running'[m] = running[m] /\ running[m] # running[n]
    BY <1>1, Zenon DEF TypeOK, DispatchExclusive
  <2>2. \A m \in Nodes : running'[m] # 0 => \A s \in SlotOf(running'[m]) : job'[s] = job[s]
    BY <1>2, <1>3, <2>1, Zenon DEF NotesOf, SlotOf
  <2>3. \A m \in Nodes : running'[m] # 0 => m \in up' /\ \A s \in SlotOf(running[m])' : job'[s].dispatched
    <3> SUFFICES ASSUME NEW m \in Nodes, running'[m] # 0, NEW s \in SlotOf(running[m])'
                 PROVE  m \in up' /\ job'[s].dispatched
      BY <1>1, <2>1, Zenon DEF InHand
    <3>1. running'[m] = running[m] /\ s \in SlotOf(running[m])
      BY <1>6, <2>1, Zenon
    <3>2. QED
      BY <1>1, <2>2, <3>1, Zenon DEF InHand
  <2>4. \A s \in Used' : job'[s].assigned # ANY => job'[s].spec.affinity \in {job'[s].assigned, ANY}
    BY <1>2, <1>3, <1>6 DEF InHand, NotesOf
  <2>5. QED
    BY <2>3, <2>4, Zenon DEF InHand
<1>12. QED
  BY <1>6, <1>7, <1>9, <1>10, <1>11, Zenon

(* A step that changes no more than priorities.                            *)
PrioritiesOnly ==
    /\ job' = [s \in Slots |-> job'[s]]
    /\ \A s \in Slots : \/ job'[s] = job[s]
                        \/ \E p \in Int : s \in Used /\ job'[s] = [job[s] EXCEPT !.priority = p]

(* Priorities free no slot and take none.                                  *)
LEMMA PrioritiesUsed == ASSUME TypeOK, PrioritiesOnly PROVE Used' = Used
<1>1. \A s \in Used : job'[s] \in Job
  <2> TAKE s \in Used
  <2>1. s \in Slots /\ job[s] \in Job
    BY UsedSlots, Zenon
  <2>2. CASE \E p \in Int : job'[s] = [job[s] EXCEPT !.priority = p]
    BY <2>1, <2>2, Zenon DEF Job
  <2>3. QED
    BY <2>1, <2>2, Zenon DEF PrioritiesOnly
<1>2. \A s \in Slots : s \notin Used => job'[s] = Free
  BY Zenon DEF PrioritiesOnly, Used
<1>3. QED
  BY <1>1, <1>2, UsedSlots, FreeIsNoJob, Zenon DEF Used

(* Priorities touch none of what concerns dispatching and binding.         *)
LEMMA PrioritiesKeep ==
    ASSUME ClusterInv, PrioritiesOnly, UNCHANGED <<nodeVars, resVars, jobsMade, completions, up, running>>,
           lost' \in [Nodes -> MutexIds \cup {0}], holder' \in [MutexIds -> 0 .. MaxJobs],
           BoostOnlyWhileHolding'
    PROVE  ClusterInv'
<1> USE DEF ClusterInv, RunningJobsSound
<1>1. Used \subseteq Slots /\ \A s \in Used : job[s] \in Job
  BY Zenon DEF Used, TypeOK
<1>2. \A s \in Used : /\ job'[s] \in Job /\ job'[s].id = job[s].id /\ job'[s].spec = job[s].spec
                      /\ job'[s].assigned = job[s].assigned /\ job'[s].bound = job[s].bound
                      /\ job'[s].block = job[s].block /\ job'[s].dispatched = job[s].dispatched
  BY <1>1 DEF PrioritiesOnly, Job
<1>3. NotesOnly
  BY <1>1, <1>2, ClusterAssumption DEF PrioritiesOnly, NotesOnly, TypeOK, Used
<1>4. /\ Used' = Used /\ \A h : SlotOf(h)' = SlotOf(h)
      /\ ReservationsMatchBindings' /\ RunsWhereAssigned' /\ DispatchExclusive' /\ HandlesUnique' /\ IndexSound'
  BY <1>3, NotesKeep, Zenon
<1>5. TypeOK'
  BY <1>3, Zenon DEF TypeOK, NotesOnly, nodeVars, resVars
<1>6. StartedJobsAreBound'
  BY <1>2, <1>4, ZenonT(60) DEF StartedJobsAreBound, Requires
<1>7. InHand'
  BY <1>2, <1>4 DEF InHand, SlotOf
<1>8. QED
  BY <1>4, <1>5, <1>6, <1>7, Zenon

(* handle_mutex_try_lock and handle_mutex_unlock: the boosted job holds    *)
(* the mutex in question, and the job that unlocks is back at its base.    *)
LEMMA MutexSteps ==
    ASSUME ClusterInv, NEW n \in Nodes, NEW m \in MutexIds,
           MutexTryLock(n, m) \/ MutexTryLockLost(n, m) \/ MutexUnlock(n, m)
    PROVE  ClusterInv'
<1> USE DEF ClusterInv, RunningJobsSound
<1>1. Used \subseteq Slots /\ \A s \in Used : job[s] \in Job /\ job[s].priority \in Int /\ job[s].spec.priority \in Int
  BY Zenon DEF Used, TypeOK, Job, JobSpec
<1>2. CASE MutexTryLock(n, m)
  <2>1. /\ UNCHANGED <<nodeVars, resVars, jobVars, loopVars>>
        /\ holder[m] = 0 /\ holder' = [holder EXCEPT ![m] = running[n]] /\ running[n] \in 0 .. MaxJobs
    BY <1>2, Zenon DEF MutexTryLock, TypeOK
  <2>2. \A h : h # 0 => Holding(h) \subseteq Holding(h)'
    BY <2>1, Zenon DEF Holding, TypeOK
  <2>3. \A s \in Used : job[s].id # 0
    BY UsedSlots, Zenon
  <2>4. BoostOnlyWhileHolding'
    BY <2>1, <2>2, <2>3, Zenon DEF BoostOnlyWhileHolding, Used, jobVars
  <2>5. job' = [s \in Slots |-> job'[s]] /\ \A s \in Slots : job'[s] = job[s]
    BY <2>1, Zenon DEF jobVars, TypeOK
  <2>6. PrioritiesOnly
    BY <2>5, Zenon DEF PrioritiesOnly
  <2>7. lost' \in [Nodes -> MutexIds \cup {0}] /\ holder' \in [MutexIds -> 0 .. MaxJobs]
    BY <2>1, Zenon DEF TypeOK, loopVars
  <2>8. QED
    BY <2>1, <2>4, <2>6, <2>7, PrioritiesKeep, Zenon DEF jobVars, loopVars
<1>3. CASE MutexTryLockLost(n, m)
  <2>1. /\ UNCHANGED <<nodeVars, resVars, jobsMade, completions, holder, up, running>>
        /\ holder[m] # 0 /\ lost' = [lost EXCEPT ![n] = m] /\ job' = Boosted(running[n], holder[m])
    BY <1>3, Zenon DEF MutexTryLockLost
  <2>2. \A s \in Slots : \/ job'[s] = job[s]
                         \/ /\ s \in SlotOf(holder[m])
                            /\ \E p \in Int : p > job[s].priority /\ job'[s] = [job[s] EXCEPT !.priority = p]
    <3> SUFFICES ASSUME NEW s \in Slots, s \in SlotOf(holder[m]),
                        \E t \in SlotOf(running[n]) : job[t].priority > job[s].priority
                 PROVE  \E p \in Int : p > job[s].priority /\ job'[s] = [job[s] EXCEPT !.priority = p]
      BY <2>1, Zenon DEF Boosted
    <3> DEFINE t == CHOOSE t \in SlotOf(running[n]) : TRUE
    <3>1. t \in SlotOf(running[n])
      BY Zenon
    <3> HIDE DEF t
    <3>2. t \in Used /\ \A u \in SlotOf(running[n]) : u = t
      BY <3>1, Zenon DEF SlotOf, HandlesUnique
    <3>3. job'[s] = [job[s] EXCEPT !.priority = job[t].priority] /\ job[t].priority > job[s].priority
      BY <2>1, <3>2, Zenon DEF Boosted, t
    <3>4. QED
      BY <1>1, <3>2, <3>3, Zenon
  <2>3. PrioritiesOnly
    <3>1. job' = [s \in Slots |-> job'[s]]
      BY <2>1, Zenon DEF Boosted
    <3>2. QED
      BY <2>2, <3>1, Zenon DEF PrioritiesOnly, SlotOf
  <2>4. BoostOnlyWhileHolding'
    <3>1. Used' = Used
      BY <2>3, PrioritiesUsed, Zenon
    <3>2. \A h : Holding(h)' = Holding(h)
      BY <2>1, Zenon DEF Holding
    <3>3. m \in Holding(holder[m])
      BY Zenon DEF Holding
    <3>4. ASSUME NEW s \in Used
          PROVE  /\ job'[s].priority >= job'[s].spec.priority
                 /\ job'[s].priority > job'[s].spec.priority => Holding(job'[s].id) # {}
      <4>1. CASE job'[s] = job[s]
        BY <4>1, Zenon DEF BoostOnlyWhileHolding
      <4>2. CASE /\ s \in SlotOf(holder[m])
                 /\ \E p \in Int : p > job[s].priority /\ job'[s] = [job[s] EXCEPT !.priority = p]
        <5>1. PICK p \in Int : p > job[s].priority /\ job'[s] = [job[s] EXCEPT !.priority = p]
          BY <4>2, Zenon
        <5>2. job'[s].priority = p /\ job'[s].spec = job[s].spec /\ job'[s].id = job[s].id
          BY <1>1, <5>1, Zenon DEF Job
        <5>3. job[s].id = holder[m] /\ job[s].priority >= job[s].spec.priority
          BY <4>2, Zenon DEF SlotOf, BoostOnlyWhileHolding
        <5>4. QED
          BY <1>1, <3>3, <5>1, <5>2, <5>3
      <4>3. QED
        BY <1>1, <2>2, <4>1, <4>2, Zenon
    <3>5. QED
      BY <3>1, <3>2, <3>4, Zenon DEF BoostOnlyWhileHolding
  <2>5. lost' \in [Nodes -> MutexIds \cup {0}] /\ holder' \in [MutexIds -> 0 .. MaxJobs]
    BY <2>1, Zenon DEF TypeOK
  <2>6. QED
    BY <2>1, <2>3, <2>4, <2>5, PrioritiesKeep, Zenon
<1>4. CASE MutexUnlock(n, m)
  <2>1. /\ UNCHANGED <<nodeVars, resVars, jobsMade, completions, loopVars>>
        /\ holder[m] = running[n] /\ holder' = [holder EXCEPT ![m] = 0]
        /\ job' = [s \in Slots |-> IF s \in SlotOf(running[n])
                                   THEN [job[s] EXCEPT !.priority = job[s].spec.priority]
                                   ELSE job[s]]
    BY <1>4, Zenon DEF MutexUnlock
  <2>2. PrioritiesOnly
    BY <1>1, <2>1, Zenon DEF PrioritiesOnly, SlotOf
  <2>3. \A h : h # running[n] => Holding(h) \subseteq Holding(h)'
    BY <2>1, ZenonT(30) DEF Holding, TypeOK
  <2>4. BoostOnlyWhileHolding'
    <3>1. Used' = Used
      BY <2>2, PrioritiesUsed, Zenon
    <3>2. ASSUME NEW s \in Used, s \in SlotOf(running[n])
          PROVE  job'[s].priority = job'[s].spec.priority /\ job'[s].priority \in Int
      BY <1>1, <2>1, <3>2 DEF Job
    <3>3. ASSUME NEW s \in Used, s \notin SlotOf(running[n])
          PROVE  job'[s] = job[s] /\ job[s].id # running[n]
      BY <1>1, <2>1, <3>3, Zenon DEF SlotOf
    <3>4. QED
      BY <2>3, <3>1, <3>2, <3>3 DEF BoostOnlyWhileHolding
  <2>5. lost' \in [Nodes -> MutexIds \cup {0}] /\ holder' \in [MutexIds -> 0 .. MaxJobs]
    BY <2>1, Sizes DEF TypeOK, loopVars
  <2>6. QED
    BY <2>1, <2>2, <2>4, <2>5, PrioritiesKeep, Zenon DEF loopVars
<1>5. QED
  BY <1>2, <1>3, <1>4, Zenon
-----------------------------------------------------------------------------
(* handle_submit_job: a new handle in an unused slot, bound to nothing.    *)
LEMMA SubmitStep ==
    ASSUME ClusterInv, NEW spec \in JobSpecs, SubmitJob(spec)
    PROVE  ClusterInv'
<1> USE DEF ClusterInv, RunningJobsSound
<1> DEFINE new == [id |-> jobsMade + 1, spec |-> spec, priority |-> spec.priority,
                   assigned |-> ANY, bound |-> 0, block |-> "none", on |-> 0, dispatched |-> FALSE]
<1>1. PICK s \in Slots \ Used : job' = [job EXCEPT ![s] = new]
  BY Zenon DEF SubmitJob, Least
<1>2. /\ jobsMade < MaxJobs /\ jobsMade' = jobsMade + 1
      /\ UNCHANGED <<nodeVars, resVars, completions, holder, loopVars>>
  BY Zenon DEF SubmitJob
<1>3. jobsMade \in Nat /\ resMade \in Nat /\ jobsMade + 1 \in Handles /\ spec \in JobSpec
  BY <1>2, Sizes, ClusterAssumption DEF TypeOK, Handles
<1>4. spec.priority \in Int /\ 0 \in 0 .. ResPool
  BY <1>3, Sizes DEF JobSpec
<1>5. new \in Job
  BY <1>3, <1>4, Zenon DEF Job
<1>6. /\ job'[s] = new /\ \A t \in Slots \ {s} : job'[t] = job[t]
      /\ job' \in [Slots -> Job \cup {Free}]
  BY <1>1, <1>5, Zenon DEF TypeOK
<1>7. new # Free
  BY <1>5, ClusterAssumption, Zenon
<1>8. /\ new.id = jobsMade + 1 /\ new.spec = spec /\ new.priority = spec.priority /\ new.assigned = ANY
      /\ new.bound = 0 /\ new.block = "none" /\ ~ new.dispatched
  BY Zenon
<1> HIDE DEF new
<1>9. Used' = Used \cup {s} /\ Used \subseteq Slots /\ s \notin Used /\ \A t \in Used : job'[t] = job[t]
  BY <1>1, <1>6, <1>7 DEF Used
<1>10. \A h : h # jobsMade + 1 => SlotOf(h)' = SlotOf(h)
  BY <1>6, <1>8, <1>9, Zenon DEF SlotOf
<1>11. /\ \A t \in Used : job[t].id \in Nat /\ job[t].id # jobsMade + 1
       /\ \A n \in Nodes : running[n] \in Nat /\ running[n] # jobsMade + 1
  BY <1>3, Sizes DEF HandlesUnique, TypeOK, Used, Job, Handles
<1>12. TypeOK'
  <2>1. UNCHANGED <<joined, nodesMade, res, resMade, index, completions, holder, up, running, lost>>
    BY <1>2, Zenon DEF nodeVars, resVars, loopVars
  <2>2. jobsMade' \in 0 .. MaxJobs
    BY <1>2, <1>3, Sizes
  <2>3. QED
    BY <1>6, <2>1, <2>2, Zenon DEF TypeOK
<1>13. DispatchExclusive' /\ RunsWhereAssigned'
  BY <1>2, <1>9, <1>10, <1>11 DEF DispatchExclusive, RunsWhereAssigned, loopVars, nodeVars, SlotOf
<1>14. StartedJobsAreBound'
  BY <1>6, <1>8, <1>9 DEF StartedJobsAreBound, Requires
<1>15. ReservationsMatchBindings'
  <2> SUFFICES ASSUME NEW r \in ResIds, res[r].live
               PROVE  /\ \A t \in Used' : job'[t].bound = r => res[r].reserved = job'[t].id
                      /\ res[r].reserved # 0 => \E t \in SlotOf(res[r].reserved)' : job'[t].bound = r
    BY <1>2 DEF ReservationsMatchBindings, resVars
  <2>1. r # 0
    BY Sizes DEF ResIds
  <2>2. \A t \in Used' : job'[t].bound = r => res[r].reserved = job'[t].id
    BY <1>6, <1>8, <1>9, <2>1 DEF ReservationsMatchBindings
  <2>3. res' = res
    BY <1>2, Zenon DEF resVars
  <2>4. ASSUME res[r].reserved # 0 PROVE \E t \in SlotOf(res[r].reserved)' : job'[t].bound = r
    <3>1. PICK t \in SlotOf(res[r].reserved) : job[t].bound = r
      BY <2>4, Zenon DEF ReservationsMatchBindings
    <3>2. t \in Used /\ job[t].id = res[r].reserved
      BY <3>1, Zenon DEF SlotOf
    <3>3. t \in SlotOf(res[r].reserved)' /\ job'[t].bound = r
      BY <1>9, <2>3, <3>1, <3>2, Zenon DEF SlotOf
    <3>4. QED
      BY <3>3, Zenon
  <2>5. QED
    BY <2>2, <2>4, ZenonT(30)
<1>16. BoostOnlyWhileHolding'
  <2>1. \A h : Holding(h)' = Holding(h)
    BY <1>2, Zenon DEF Holding
  <2>2. QED
    BY <1>4, <1>6, <1>8, <1>9, <2>1 DEF BoostOnlyWhileHolding
<1>17. HandlesUnique'
  <2>1. \A t \in Used : job[t].id <= jobsMade + 1
    BY <1>3, <1>11 DEF HandlesUnique
  <2>2. \A n \in Nodes : running'[n] <= jobsMade + 1
    BY <1>2, <1>3, <1>11 DEF HandlesUnique, loopVars
  <2>3. \A t \in Used' : job'[t].id <= jobsMade'
    BY <1>2, <1>3, <1>6, <1>8, <1>9, <2>1
  <2>4. \A t, u \in Used' : job'[t].id = job'[u].id => t = u
    <3>1. job'[s].id = jobsMade + 1 /\ \A t \in Used : job'[t].id = job[t].id /\ job'[t].id # jobsMade + 1
      BY <1>6, <1>8, <1>9, <1>11, Zenon
    <3>2. QED
      BY <1>9, <3>1 DEF HandlesUnique
  <2>5. QED
    BY <1>2, <2>2, <2>3, <2>4, Zenon DEF HandlesUnique
<1>18. IndexSound'
  BY <1>2, <1>3, <1>6, <1>8, <1>9 DEF IndexSound, resVars
<1>19. InHand'
  BY <1>2, <1>6, <1>8, <1>9, <1>10, <1>11 DEF InHand, loopVars, SlotOf
<1>20. QED
  BY <1>12, <1>13, <1>14, <1>15, <1>16, <1>17, <1>18, <1>19, Zenon
-----------------------------------------------------------------------------
(* Every job in the table was submitted, and a job that a node runs or     *)
(* that holds a mutex is still in the table.                               *)
HeldInv ==
    /\ \A s \in Used : job[s].spec \in JobSpecs
    /\ \A n \in Nodes : running[n] # 0 => running[n] \in LiveIds
    /\ \A m \in MutexIds : holder[m] # 0 => holder[m] \in LiveIds

(* A job that stays in its slot with its handle.                           *)
Stays(s) == job'[s] # Free /\ job'[s].id = job[s].id /\ job'[s].spec = job[s].spec

(* A job whose record is replaced by one with its handle stays.            *)
LEMMA StaysAs ==
    ASSUME NEW s, NEW j \in Job, job'[s] = j, j.id = job[s].id, j.spec = job[s].spec
    PROVE  Stays(s)
BY FreeIsNoJob, Zenon DEF Stays

(* What a step must show for HeldInv: the jobs it takes out of the table,  *)
(* gone, are neither run nor hold a mutex afterwards.                      *)
LEMMA HeldKept ==
    ASSUME HeldInv, NEW gone \in SUBSET Used,
           \A s \in Used \ gone : Stays(s),
           \A s \in Slots \ Used : job'[s] = Free \/ job'[s].spec \in JobSpecs,
           \A s \in gone : job'[s] = Free,
           \A n \in Nodes : running'[n] # 0 => /\ running'[n] \in LiveIds
                                               /\ \A s \in gone : running'[n] # job[s].id,
           \A m \in MutexIds : holder'[m] # 0 => /\ holder'[m] \in LiveIds
                                                 /\ \A s \in gone : holder'[m] # job[s].id
    PROVE  HeldInv'
<1>1. Used \subseteq Slots
  BY Zenon DEF Used
<1>2. \A s \in Used' : job'[s].spec \in JobSpecs
  BY <1>1, Zenon DEF HeldInv, Used, Stays
<1>3. \A h \in LiveIds : (\A s \in gone : h # job[s].id) => h \in LiveIds'
  <2> SUFFICES ASSUME NEW s \in Used, s \notin gone PROVE job[s].id \in LiveIds'
    BY Zenon DEF LiveIds
  <2>1. s \in Used' /\ job'[s].id = job[s].id
    BY <1>1, Zenon DEF Stays, Used
  <2>2. QED
    BY <2>1, Zenon DEF LiveIds
<1>4. QED
  BY <1>2, <1>3, Zenon DEF HeldInv

(* The steps that leave every job in its slot: joins, unplugs, resources,  *)
(* reports of a wait, mutexes.                                             *)
LEMMA HeldQuiet ==
    ASSUME HeldInv, \A s \in Used : Stays(s), \A s \in Slots \ Used : job'[s] = Free,
           \A n \in Nodes : running'[n] \in {0, running[n]} \union LiveIds,
           \A m \in MutexIds : holder'[m] \in {0, holder[m]} \union LiveIds
    PROVE  HeldInv'
<1>1. /\ \A n \in Nodes : running'[n] # 0 => running'[n] \in LiveIds
      /\ \A m \in MutexIds : holder'[m] # 0 => holder'[m] \in LiveIds
  BY Zenon DEF HeldInv
<1>2. {} \in SUBSET Used
  BY Zenon
<1>3. QED
  BY <1>1, <1>2, HeldKept, Zenon

(* handle_get_next_job: the job it hands out is in the table.              *)
LEMMA HeldHanded ==
    ASSUME LastEntries, TypeOK, HeldInv, NEW n \in Nodes, GetNextJob(n) PROVE HeldInv'
<1>1. PICK s \in Eligible(n) :
         /\ running' = [running EXCEPT ![n] = job[s].id]
         /\ job'[s] \in Job
         /\ job'[s].id = job[s].id /\ job'[s].spec = job[s].spec
         /\ \A t \in Slots \ {s} : \/ job'[t] = job[t]
                                   \/ t \in Used /\ job'[t] = [job[t] EXCEPT !.block = "none"]
  BY Handed, Zenon
<1>2. s \in Used /\ Used \subseteq Slots /\ \A t \in Used : job[t] \in Job
  BY UsedSlots, Zenon DEF Eligible
<1>3. \A t \in Used : Stays(t)
  <2> TAKE t \in Used
  <2>1. CASE t = s
    BY <1>1, <2>1, FreeIsNoJob, Zenon DEF Stays
  <2>2. CASE job'[t] = job[t]
    BY <2>2, Zenon DEF Stays, Used
  <2>3. CASE job'[t] = [job[t] EXCEPT !.block = "none"]
    <3>1. job'[t] \in Job /\ job'[t].id = job[t].id /\ job'[t].spec = job[t].spec
      BY <1>2, <2>3 DEF Job
    <3>2. QED
      BY <3>1, StaysAs, Zenon
  <2>4. QED
    BY <1>1, <1>2, <2>1, <2>2, <2>3, Zenon
<1>4. \A t \in Slots \ Used : job'[t] = Free
  BY <1>1, <1>2, Zenon DEF Used
<1>5. \A k \in Nodes : running'[k] \in {0, running[k]} \union LiveIds
  BY <1>1, <1>2, Zenon DEF TypeOK, LiveIds
<1>6. UNCHANGED holder
  BY Zenon DEF GetNextJob
<1>7. QED
  BY <1>3, <1>4, <1>5, <1>6, HeldQuiet, Zenon

(* The mutex calls change priorities only.                                 *)
LEMMA PrioritiesMove ==
    ASSUME TypeOK, NEW n \in Nodes, NEW m \in MutexIds,
           MutexTryLock(n, m) \/ MutexTryLockLost(n, m) \/ MutexUnlock(n, m)
    PROVE  \A s \in Slots : \/ job'[s] = job[s]
                            \/ \E p \in Int : s \in Used /\ job'[s] = [job[s] EXCEPT !.priority = p]
<1>1. \A s \in Used : s \in Slots /\ job[s].priority \in Int /\ job[s].spec.priority \in Int
  BY UsedSlots, Zenon DEF Job, JobSpec
<1>2. CASE MutexTryLock(n, m)
  BY <1>2, Zenon DEF MutexTryLock, jobVars
<1>3. CASE MutexTryLockLost(n, m)
  <2> DEFINE t == CHOOSE t \in SlotOf(running[n]) : TRUE
  <2>1. \A s \in Slots : \/ job'[s] = job[s]
                         \/ /\ s \in SlotOf(holder[m]) /\ SlotOf(running[n]) # {}
                            /\ job'[s] = [job[s] EXCEPT !.priority = job[t].priority]
    BY <1>3, Zenon DEF MutexTryLockLost, Boosted
  <2>2. SlotOf(running[n]) # {} => t \in SlotOf(running[n])
    BY Zenon
  <2> HIDE DEF t
  <2>3. SlotOf(running[n]) # {} => job[t].priority \in Int
    BY <1>1, <2>2, Zenon DEF SlotOf
  <2>4. QED
    BY <2>1, <2>3, Zenon DEF SlotOf
<1>4. CASE MutexUnlock(n, m)
  <2>1. \A s \in Slots : \/ job'[s] = job[s]
                         \/ s \in Used /\ job'[s] = [job[s] EXCEPT !.priority = job[s].spec.priority]
    BY <1>4, Zenon DEF MutexUnlock, SlotOf
  <2>2. QED
    BY <1>1, <2>1, Zenon
<1>5. QED
  BY <1>2, <1>3, <1>4, Zenon

(* The reports and the mutex calls of a running job, which is in the table.*)
LEMMA HeldSlice ==
    ASSUME TypeOK, DispatchExclusive, HandlesUnique, HeldInv, NEW n \in Nodes, Slice(n) PROVE HeldInv'
<1>1. Used \subseteq Slots /\ \A s \in Used : job[s] \in Job
  BY UsedSlots, Zenon
<1>2. \A k \in Nodes : running'[k] \in {0, running[k]}
  <2>1. running' = [running EXCEPT ![n] = 0] \/ running' = running
    BY Zenon DEF Slice, ReportFinished, ReportRunning, ReportBlockedOnMutex, ReportBlockedOnJob, Reporting,
           MutexTryLock, MutexTryLockLost, MutexUnlock, loopVars
  <2>2. QED
    BY <2>1, Zenon DEF TypeOK
<1>3. CASE ReportFinished(n)
  <2>1. /\ running[n] # 0 /\ running' = [running EXCEPT ![n] = 0] /\ holder' = holder
        /\ \A m \in MutexIds : holder[m] # running[n]
    BY <1>3, Zenon DEF ReportFinished, Reporting, Holding
  <2>2. CASE UNCHANGED job
    BY <1>2, <2>1, <2>2, HeldQuiet, Zenon DEF Stays, Used
  <2>3. ASSUME NEW s \in SlotOf(running[n]), job' = [job EXCEPT ![s] = Free] PROVE HeldInv'
    <3>1. s \in Used /\ s \in Slots /\ job[s].id = running[n] /\ {s} \in SUBSET Used
      BY <1>1, Zenon DEF SlotOf
    <3>2. job'[s] = Free /\ \A t \in Slots \ {s} : job'[t] = job[t]
      BY <2>3, <3>1, Zenon DEF TypeOK
    <3>3. \A t \in Used \ {s} : Stays(t)
      BY <1>1, <3>2, Zenon DEF Stays, Used
    <3>4. \A t \in Slots \ Used : job'[t] = Free
      BY <3>1, <3>2, Zenon DEF Used
    <3>5. \A k \in Nodes : running'[k] # 0 => running'[k] \in LiveIds /\ running'[k] # job[s].id
      BY <2>1, <3>1, Zenon DEF HeldInv, TypeOK, DispatchExclusive
    <3>6. \A m \in MutexIds : holder'[m] # 0 => holder'[m] \in LiveIds /\ holder'[m] # job[s].id
      BY <2>1, <3>1, Zenon DEF HeldInv
    <3>7. QED
      BY <3>1, <3>2, <3>3, <3>4, <3>5, <3>6, HeldKept, ZenonT(60)
  <2>4. QED
    BY <1>3, <2>2, <2>3, Zenon DEF ReportFinished
<1>4. CASE ReportRunning(n) \/ ReportBlockedOnMutex(n) \/ \E h \in Handles : ReportBlockedOnJob(n, h)
  <2>1. UNCHANGED holder
    BY <1>4, Zenon DEF ReportRunning, ReportBlockedOnMutex, ReportBlockedOnJob, Reporting
  <2>2. \A s \in Slots : job'[s] = job[s] \/ (s \in Used /\ Stays(s))
    <3>1. CASE ReportRunning(n)
      <4>1. \A s \in Slots : \/ job'[s] = job[s]
                             \/ s \in Used /\ job'[s] = [job[s] EXCEPT !.dispatched = FALSE]
        BY <3>1, Zenon DEF ReportRunning, SlotOf
      <4>2. ASSUME NEW s \in Used, job'[s] = [job[s] EXCEPT !.dispatched = FALSE] PROVE Stays(s)
        <5>1. job'[s] \in Job /\ job'[s].id = job[s].id /\ job'[s].spec = job[s].spec
          BY <1>1, <4>2, Zenon DEF Job
        <5>2. QED
          BY <5>1, StaysAs, Zenon
      <4>3. QED
        BY <4>1, <4>2, Zenon
    <3>2. ASSUME NEW b \in {"mutex", "job"}, NEW o \in Nat, job' = Undispatched(n, b, o)
          PROVE  \A s \in Slots : job'[s] = job[s] \/ (s \in Used /\ Stays(s))
      <4>1. \A s \in Slots : \/ job'[s] = job[s]
                             \/ s \in Used /\ job'[s] = [job[s] EXCEPT !.dispatched = FALSE, !.block = b, !.on = o]
        BY <3>2, Zenon DEF Undispatched, SlotOf
      <4>2. ASSUME NEW s \in Used, job'[s] = [job[s] EXCEPT !.dispatched = FALSE, !.block = b, !.on = o]
            PROVE  Stays(s)
        <5>1. job'[s] \in Job /\ job'[s].id = job[s].id /\ job'[s].spec = job[s].spec
          BY <1>1, <4>2, Zenon DEF Job
        <5>2. QED
          BY <5>1, StaysAs, Zenon
      <4>3. QED
        BY <4>1, <4>2, Zenon
    <3>3. ReportBlockedOnMutex(n) => lost[n] \in Nat
      BY ClusterAssumption, Zenon DEF ReportBlockedOnMutex, TypeOK
    <3>4. \A h \in Handles : h \in Nat
      BY Sizes DEF Handles
    <3>5. QED
      BY <1>4, <3>1, <3>2, <3>3, <3>4, Zenon DEF ReportBlockedOnMutex, ReportBlockedOnJob
  <2>3. QED
    BY <1>1, <1>2, <2>1, <2>2, HeldQuiet DEF Used, Stays
<1>5. ASSUME NEW m \in MutexIds, MutexTryLock(n, m) \/ MutexTryLockLost(n, m) \/ MutexUnlock(n, m) PROVE HeldInv'
  <2>1. running[n] # 0 /\ running[n] \in LiveIds
    BY <1>5, Zenon DEF MutexTryLock, MutexTryLockLost, MutexUnlock, HeldInv
  <2>2. holder' \in {holder, [holder EXCEPT ![m] = running[n]], [holder EXCEPT ![m] = 0]}
    BY <1>5, Zenon DEF MutexTryLock, MutexTryLockLost, MutexUnlock
  <2>3. \A k \in MutexIds : holder'[k] \in {0, holder[k]} \union LiveIds
    BY <2>1, <2>2, Zenon DEF TypeOK
  <2>4. \A s \in Slots : \/ job'[s] = job[s]
                         \/ \E p \in Int : s \in Used /\ job'[s] = [job[s] EXCEPT !.priority = p]
    BY <1>5, PrioritiesMove, Zenon
  <2>5. \A s \in Slots : job'[s] = job[s] \/ (s \in Used /\ Stays(s))
    <3>1. ASSUME NEW s \in Used, NEW p \in Int, job'[s] = [job[s] EXCEPT !.priority = p] PROVE Stays(s)
      <4>1. job'[s] \in Job /\ job'[s].id = job[s].id /\ job'[s].spec = job[s].spec
        BY <1>1, <3>1, Zenon DEF Job
      <4>2. QED
        BY <4>1, StaysAs, Zenon
    <3>2. QED
      BY <2>4, <3>1, Zenon
  <2>6. QED
    BY <1>1, <1>2, <2>3, <2>5, HeldQuiet, Zenon DEF Used, Stays
<1>6. QED
  BY <1>3, <1>4, <1>5, Zenon DEF Slice

(* handle_submit_job: a new job in an unused slot.                         *)
LEMMA HeldSubmit ==
    ASSUME TypeOK, HeldInv, NEW spec \in JobSpecs, SubmitJob(spec) PROVE HeldInv'
<1>1. PICK s \in Least(Slots \ Used) :
        job' = [job EXCEPT ![s] = [id |-> jobsMade + 1, spec |-> spec, priority |-> spec.priority,
                                   assigned |-> ANY, bound |-> 0, block |-> "none", on |-> 0,
                                   dispatched |-> FALSE]]
  BY Zenon DEF SubmitJob
<1>2. s \in Slots \ Used /\ Used \subseteq Slots
  BY UsedSlots, Zenon DEF Least
<1>3. job'[s].spec = spec /\ \A t \in Slots \ {s} : job'[t] = job[t]
  BY <1>1, <1>2, Zenon DEF TypeOK
<1>4. /\ \A t \in Used : Stays(t)
      /\ \A t \in Slots \ Used : job'[t] = Free \/ job'[t].spec \in JobSpecs
  BY <1>2, <1>3, Zenon DEF Stays, Used
<1>5. UNCHANGED <<running, holder>>
  BY Zenon DEF SubmitJob, loopVars
<1>6. /\ \A n \in Nodes : running'[n] # 0 => running'[n] \in LiveIds
      /\ \A m \in MutexIds : holder'[m] # 0 => holder'[m] \in LiveIds
  BY <1>5, Zenon DEF HeldInv
<1>7. {} \in SUBSET Used
  BY Zenon
<1>8. QED
  BY <1>4, <1>6, <1>7, HeldKept, Zenon

(* handle_leave_node: nobody requires the node, so it cancels nothing.     *)
LEMMA HeldLeave ==
    ASSUME TypeOK, HeldInv, NEW n \in Leavers, LeaveNode(n), \A spec \in JobSpecs : spec.affinity # n
    PROVE  HeldInv'
<1>1. Used \subseteq Slots /\ \A s \in Used : job[s] \in Job
  BY UsedSlots, Zenon
<1>2. Cancelled(n) = {}
  BY Zenon DEF Cancelled, HeldInv
<1>3. \A s \in Slots : \/ job'[s] = job[s]
                       \/ s \in Used /\ job'[s] = [job[s] EXCEPT !.assigned = ANY]
  BY <1>2, Zenon DEF LeaveNode
<1>4. ASSUME NEW s \in Used, job'[s] = [job[s] EXCEPT !.assigned = ANY] PROVE Stays(s)
  <2>1. job'[s] \in Job /\ job'[s].id = job[s].id /\ job'[s].spec = job[s].spec
    BY <1>1, <1>4, Zenon DEF Job
  <2>2. QED
    BY <2>1, StaysAs, Zenon
<1>5. \A s \in Slots : job'[s] = job[s] \/ (s \in Used /\ Stays(s))
  BY <1>3, <1>4, Zenon
<1>6. UNCHANGED <<running, holder>>
  BY Zenon DEF LeaveNode, loopVars
<1>7. QED
  BY <1>1, <1>5, <1>6, HeldQuiet, Zenon DEF Used, Stays
=============================================================================
