-------------------------- MODULE SchedulingProofs --------------------------
(***************************************************************************)
(* Proofs about who runs: the cluster scheduler object, which hands jobs   *)
(* out to nodes, and the job table of JobExec, from which a core picks.    *)
(* The two share no state.                                                 *)
(*                                                                         *)
(* ClusterScheduler, for every number of nodes, jobs, resources and        *)
(* mutexes, every set of submissions, and nodes that join, leave and are   *)
(* unplugged at any time: the steps that hand a job out, finish it and     *)
(* take it from a leaving node, and the theorems.                          *)
(*                                                                         *)
(* JobExec, for any table size, priorities and queues, when only jobs call *)
(* job_exec_wake.  (With DriverWakes TLC violates ContextsOwn.)            *)
(***************************************************************************)
EXTENDS ClusterSchedulerSteps, JobExec

(* handle_get_next_job: the job was in nobody's hands, the node may run    *)
(* it, and what it is bound to was unreserved or its own already.          *)
LEMMA GetNextStep ==
    ASSUME LastEntries, ClusterInv, NEW n \in Nodes, GetNextJob(n)
    PROVE  ClusterInv'
<1> USE DEF ClusterInv, RunningJobsSound
<1>1. PICK s \in Eligible(n) :
         /\ running' = [running EXCEPT ![n] = job[s].id]
         /\ job'[s] \in Job
         /\ job'[s].id = job[s].id /\ job'[s].spec = job[s].spec /\ job'[s].priority = job[s].priority
         /\ job'[s].dispatched /\ job'[s].bound = BindTo(job[s])
         /\ job'[s].assigned = IF job[s].assigned = ANY THEN n ELSE job[s].assigned
         /\ res' = IF job[s].bound = 0 /\ BindTo(job[s]) # 0
                   THEN [res EXCEPT ![BindTo(job[s])].reserved = job[s].id] ELSE res
         /\ DOMAIN job' = Slots
         /\ \A t \in Slots \ {s} : \/ job'[t] = job[t]
                                   \/ t \in Used /\ job'[t] = [job[t] EXCEPT !.block = "none"]
  BY Handed, Zenon
<1>2. /\ n \in up /\ UNCHANGED <<nodeVars, resMade, index, jobsMade, completions, holder, up, lost>>
  BY Zenon DEF GetNextJob
<1>3. /\ s \in Used /\ job[s] \in Job /\ ~ job[s].dispatched /\ resource_ok_for(job[s])
      /\ job[s].assigned = n \/ (job[s].assigned = ANY /\ job[s].spec.affinity \in {n, ANY})
  BY Zenon DEF Eligible, Used, TypeOK
<1>4. Used \subseteq Slots /\ \A t \in Used : job[t] \in Job
  BY Zenon DEF Used, TypeOK
<1>5. \A t \in Used \ {s} :
        /\ job'[t] \in Job /\ job'[t].id = job[t].id /\ job'[t].spec = job[t].spec
        /\ job'[t].priority = job[t].priority /\ job'[t].assigned = job[t].assigned
        /\ job'[t].bound = job[t].bound /\ job'[t].dispatched = job[t].dispatched
        /\ job'[t].block \in {job[t].block, "none"}
  BY <1>1, <1>4 DEF Job
<1>6. Used' = Used /\ \A t \in Slots \ Used : job'[t] = Free
  BY <1>1, <1>3, <1>4, <1>5, ClusterAssumption DEF Used
<1>7. \A t \in Used : /\ job'[t] \in Job /\ job'[t].id = job[t].id /\ job'[t].spec = job[t].spec
                      /\ job'[t].priority = job[t].priority
  BY <1>1, <1>5, Zenon
<1>8. \A h : SlotOf(h)' = SlotOf(h) /\ Holding(h)' = Holding(h)
  BY <1>2, <1>6, <1>7, Zenon DEF SlotOf, Holding
<1>9. SlotOf(job[s].id) = {s} /\ job[s].id \in Handles /\ job[s].id # 0
  BY <1>3, Sizes DEF SlotOf, HandlesUnique, Job, Handles
<1>10. \A m \in Nodes : running[m] # job[s].id
  BY <1>3, <1>9, Zenon DEF InHand
<1>11. running'[n] = job[s].id /\ \A m \in Nodes \ {n} : running'[m] = running[m]
  BY <1>1, Zenon DEF TypeOK
<1> DEFINE b == BindTo(job[s])
<1>12. /\ b \in 0 .. ResPool /\ (job[s].bound # 0 => b = job[s].bound)
       /\ job[s].bound = 0 /\ b # 0 => res[b].live /\ res[b].reserved = 0
       /\ Requires(job[s]) => b # 0
  BY <1>3, Binding, Zenon
<1>13. job'[s].bound = b /\ res' = IF job[s].bound = 0 /\ b # 0 THEN [res EXCEPT ![b].reserved = job[s].id] ELSE res
  BY <1>1, Zenon
<1> HIDE DEF b
<1>14. /\ res' \in [ResIds -> Resource]
       /\ \A r \in ResIds : res'[r].live = res[r].live
       /\ \A r \in ResIds : res'[r].reserved = IF r = b /\ job[s].bound = 0 THEN job[s].id ELSE res[r].reserved
  <2>1. res \in [ResIds -> Resource] /\ job[s].id \in 0 .. MaxJobs
    BY <1>9, Sizes DEF TypeOK, Handles
  <2>2. CASE job[s].bound = 0 /\ b # 0
    <3>1. b \in ResIds /\ res' = [res EXCEPT ![b].reserved = job[s].id]
      BY <1>12, <1>13, <2>2, Sizes DEF ResIds
    <3>2. res'[b] = [res[b] EXCEPT !.reserved = job[s].id] /\ \A r \in ResIds \ {b} : res'[r] = res[r]
      BY <2>1, <3>1, Zenon
    <3>3. res'[b] \in Resource /\ res'[b].live = res[b].live /\ res'[b].reserved = job[s].id
      BY <2>1, <3>1, <3>2 DEF Resource
    <3>4. res' \in [ResIds -> Resource]
      BY <2>1, <3>1, <3>2, <3>3, Zenon
    <3>5. QED
      BY <2>2, <3>2, <3>3, <3>4, Zenon
  <2>3. CASE ~ (job[s].bound = 0 /\ b # 0)
    BY <1>13, <2>1, <2>3, Sizes DEF ResIds
  <2>4. QED
    BY <2>2, <2>3, Zenon
<1>15. TypeOK'
  <2>1. job' = [t \in Slots |-> job'[t]] /\ \A t \in Slots : job'[t] \in Job \cup {Free}
    <3>1. DOMAIN job' = Slots /\ \A t \in Slots : job'[t] \in Job \cup {Free}
      BY <1>1, <1>6, <1>7, Zenon
    <3>2. job' = [t \in Slots |-> job'[t]]
      BY Zenon DEF GetNextJob, AfterScan
    <3>3. QED
      BY <3>1, <3>2, Zenon
  <2>2. job' \in [Slots -> Job \cup {Free}]
    BY <2>1, ZenonT(60)
  <2>3. running' \in [Nodes -> 0 .. MaxJobs]
    BY <1>1, <1>9, Sizes DEF TypeOK, Handles
  <2>4. UNCHANGED <<joined, nodesMade, resMade, index, jobsMade, completions, holder, up, lost>>
    BY <1>2, Zenon DEF nodeVars
  <2>5. QED
    BY <1>14, <2>2, <2>3, <2>4, Zenon DEF TypeOK
<1>16. DispatchExclusive'
  BY <1>10, <1>11, Zenon DEF DispatchExclusive
<1>17. InHand'
  <2>1. \A m \in Nodes \ {n} : s \notin SlotOf(running[m])
    BY <1>10, ZenonT(60) DEF SlotOf
  <2>2. \A m \in Nodes : running'[m] # 0 => m \in up /\ \A t \in SlotOf(running[m])' : job'[t].dispatched
    <3> SUFFICES ASSUME NEW m \in Nodes, running'[m] # 0, NEW t \in SlotOf(running[m])'
                 PROVE  job'[t].dispatched
      BY <1>2, <1>11, Zenon DEF InHand
    <3>1. t \in SlotOf(running'[m])
      BY <1>8, ZenonT(60)
    <3>2. QED
      BY <1>1, <1>5, <1>9, <1>11, <2>1, <3>1 DEF InHand, SlotOf
  <2>3. \A t \in Used' : job'[t].assigned # ANY => job'[t].spec.affinity \in {job'[t].assigned, ANY}
    BY <1>1, <1>3, <1>5, <1>6 DEF InHand
  <2>4. QED
    BY <1>2, <2>2, <2>3, Zenon DEF InHand
<1>18. RunsWhereAssigned'
  <2> SUFFICES ASSUME NEW m \in Nodes, NEW t \in SlotOf(running[m])'
               PROVE  /\ job'[t].spec.affinity \in {m, ANY}
                      /\ job'[t].assigned = m \/ (job'[t].assigned = ANY /\ m \notin joined)
    BY <1>2, Zenon DEF RunsWhereAssigned, nodeVars
  <2>1. t \in SlotOf(running'[m]) /\ t \in Used
    BY <1>8, Zenon DEF SlotOf
  <2>2. CASE m = n
    <3>1. t = s
      BY <1>9, <1>11, <2>1, <2>2, Zenon
    <3>2. QED
      <4>1. n # ANY
        BY ClusterAssumption, Zenon
      <4>2. job[s].spec.affinity \in {n, ANY}
        BY <1>3, <4>1, Zenon DEF InHand
      <4>3. QED
        BY <1>1, <1>3, <2>2, <3>1, <4>2
  <2>3. CASE m # n
    <3>1. t \in SlotOf(running[m]) /\ t # s
      BY <1>10, <1>11, <2>1, <2>3, Zenon DEF SlotOf
    <3>2. QED
      BY <1>5, <2>1, <3>1, ZenonT(60) DEF RunsWhereAssigned
  <2>4. QED
    BY <2>2, <2>3, Zenon
<1>19. StartedJobsAreBound'
  <2>1. \A t \in Used : Requires(job'[t]) <=> Requires(job[t])
    BY <1>7, Zenon DEF Requires
  <2>2. \A t \in Used \ {s} : job'[t].dispatched \/ job'[t].block # "none" => job[t].dispatched \/ job[t].block # "none"
    BY <1>5, Zenon
  <2>3. ASSUME NEW t \in Used, Requires(job'[t]), job'[t].dispatched \/ job'[t].block # "none"
        PROVE  job'[t].bound # 0
    <3>1. CASE t = s
      BY <1>12, <1>13, <2>1, <2>3, <3>1
    <3>2. CASE t # s
      BY <1>5, <2>1, <2>2, <2>3, <3>2 DEF StartedJobsAreBound
    <3>3. QED
      BY <3>1, <3>2, Zenon
  <2>4. QED
    BY <1>6, <2>3, Zenon DEF StartedJobsAreBound, Requires
<1>20. ReservationsMatchBindings'
  <2> SUFFICES ASSUME NEW r \in ResIds, res[r].live
               PROVE  /\ \A t \in Used : job'[t].bound = r => res'[r].reserved = job'[t].id
                      /\ res'[r].reserved # 0 => \E t \in SlotOf(res[r].reserved)' : job'[t].bound = r
    BY <1>6, <1>14, Zenon DEF ReservationsMatchBindings
  <2>1. r # 0
    BY Sizes DEF ResIds
  <2>2. CASE r = b /\ job[s].bound = 0
    <3>1. res[r].reserved = 0 /\ res'[r].reserved = job[s].id
      BY <1>12, <1>14, <2>1, <2>2
    <3>2. \A t \in Used : job[t].id # 0
      BY <1>4, Sizes DEF Job, Handles
    <3>3. \A t \in Used \ {s} : job'[t].bound # r
      BY <1>5, <3>1, <3>2 DEF ReservationsMatchBindings
    <3>4. s \in SlotOf(res[r].reserved)' /\ job'[s].bound = r
      BY <1>3, <1>6, <1>7, <1>13, <2>2, <3>1, Zenon DEF SlotOf
    <3>5. QED
      BY <1>7, <3>1, <3>3, <3>4, Zenon
  <2>3. CASE ~ (r = b /\ job[s].bound = 0)
    <3>1. res'[r].reserved = res[r].reserved
      BY <1>14, <2>3, Zenon
    <3>2. \A t \in Used : job'[t].bound = r => job[t].bound = r
      BY <1>5, <1>12, <1>13, <2>3, Zenon
    <3>3. \A t \in Used : job[t].bound = r => job'[t].bound = r
      BY <1>5, <1>12, <1>13, <2>1, <2>3, Zenon
    <3>4. \A t \in Used : job'[t].bound = r => res'[r].reserved = job'[t].id
      BY <1>7, <3>1, <3>2 DEF ReservationsMatchBindings
    <3>5. ASSUME res'[r].reserved # 0 PROVE \E t \in SlotOf(res[r].reserved)' : job'[t].bound = r
      <4>1. PICK t \in SlotOf(res[r].reserved) : job[t].bound = r
        BY <3>1, <3>5, Zenon DEF ReservationsMatchBindings
      <4>2. t \in Used /\ job[t].id = res[r].reserved
        BY <4>1, Zenon DEF SlotOf
      <4>3. t \in SlotOf(res[r].reserved)' /\ job'[t].bound = r
        BY <1>6, <1>7, <3>1, <3>3, <4>1, <4>2, Zenon DEF SlotOf
      <4>4. QED
        BY <4>3, Zenon
    <3>6. QED
      BY <3>4, <3>5, Zenon
  <2>4. QED
    BY <2>2, <2>3, Zenon
<1>21. BoostOnlyWhileHolding'
  BY <1>6, <1>7, <1>8, Zenon DEF BoostOnlyWhileHolding
<1>22. HandlesUnique'
  <2>1. jobsMade' = jobsMade /\ \A t \in Used : job'[t].id = job[t].id
    BY <1>2, <1>7, Zenon
  <2>2. \A m \in Nodes : running'[m] <= jobsMade
    BY <1>3, <1>11, Zenon DEF HandlesUnique
  <2>3. QED
    BY <1>6, <2>1, <2>2 DEF HandlesUnique
<1>23. IndexSound'
  <2>1. \A i \in ResIds : index[i] # 0 => index[i] \in ResIds
    BY Sizes DEF TypeOK, ResIds
  <2>2. b <= resMade
    <3>1. b # 0 => b \in ResIds
      BY <1>12, Sizes DEF ResIds
    <3>2. 0 <= resMade
      BY Sizes DEF TypeOK
    <3>3. QED
      BY <1>3, <1>12, <3>1, <3>2, Zenon DEF IndexSound
  <2>3. \A t \in Used' : job'[t].bound <= resMade'
    BY <1>2, <1>5, <1>6, <1>13, <2>2, Zenon DEF IndexSound
  <2>4. QED
    BY <1>2, <1>14, <2>1, <2>3, Zenon DEF IndexSound
<1>24. QED
  BY <1>15, <1>16, <1>17, <1>18, <1>19, <1>20, <1>21, <1>22, <1>23

(* JOB_FINISHED: the job's slot and its reservation go together, and no    *)
(* other job is bound to the resource.                                     *)
LEMMA FinishStep ==
    ASSUME ClusterInv, NEW n \in Nodes, ReportFinished(n)
    PROVE  ClusterInv'
<1> USE DEF ClusterInv, RunningJobsSound
<1>1. /\ running[n] # 0 /\ running' = [running EXCEPT ![n] = 0] /\ lost' = [lost EXCEPT ![n] = 0]
      /\ UNCHANGED <<nodeVars, resMade, index, jobsMade, holder, up>>
  BY Zenon DEF ReportFinished, Reporting
<1>2. running'[n] = 0 /\ \A m \in Nodes \ {n} : running'[m] = running[m]
  BY <1>1, Zenon DEF TypeOK
<1>3. Used \subseteq Slots /\ \A t \in Used : job[t] \in Job
  BY Zenon DEF Used, TypeOK
<1> DEFINE OneSlotLess == /\ Used' \subseteq Used /\ \A t \in Used' : job'[t] = job[t]
                     /\ Used \ Used' \subseteq SlotOf(running[n])
                     /\ job' \in [Slots -> Job \cup {Free}]
<1>4. OneSlotLess
  <2>1. CASE job' = job
    BY <2>1, Zenon DEF Used, TypeOK
  <2>2. ASSUME NEW s \in SlotOf(running[n]), job' = [job EXCEPT ![s] = Free]
        PROVE  OneSlotLess
    <3>1. s \in Used
      BY Zenon DEF SlotOf
    <3>2. job'[s] = Free /\ \A t \in Slots \ {s} : job'[t] = job[t]
      BY <1>3, <2>2, <3>1, Zenon DEF TypeOK
    <3>3. QED
      BY <1>3, <2>2, <3>1, <3>2, Zenon DEF Used, TypeOK
  <2>3. QED
    BY <2>1, <2>2, Zenon DEF ReportFinished
<1>5. completions' \in Seq(Handles)
  <2>1. completions \in Seq(Handles) /\ JobPool \in Nat
    BY Sizes, Zenon DEF TypeOK
  <2>2. CASE UNCHANGED completions
    BY <2>1, <2>2, Zenon
  <2>3. CASE completions' = LastN(Append(completions, running[n]), JobPool)
    <3> DEFINE seq == Append(completions, running[n])
    <3>1. running[n] \in Handles
      BY <1>1, Sizes DEF TypeOK, Handles
    <3>2. seq \in Seq(Handles) /\ Len(seq) \in Nat
      BY <2>1, <3>1
    <3>3. completions' = LastN(seq, JobPool)
      BY <2>3, Zenon
    <3> HIDE DEF seq
    <3>4. CASE Len(seq) <= JobPool
      BY <3>2, <3>3, <3>4, Zenon DEF LastN
    <3>5. CASE Len(seq) > JobPool
      <4>1. completions' = SubSeq(seq, Len(seq) - JobPool + 1, Len(seq))
        <5>1. ~ (Len(seq) <= JobPool)
          BY <2>1, <3>2, <3>5
        <5>2. QED
          BY <3>3, <5>1, Zenon DEF LastN
      <4>2. Len(seq) - JobPool + 1 \in 1 .. Len(seq) + 1
        BY <2>1, <3>2, <3>5
      <4>3. QED
        BY <3>2, <4>1, <4>2
    <3>6. QED
      BY <2>1, <3>2, <3>4, <3>5
  <2>4. QED
    BY <2>2, <2>3, Zenon DEF ReportFinished
<1> DEFINE OneReleased ==
      /\ res' \in [ResIds -> Resource]
      /\ \A r \in ResIds : res'[r].live = res[r].live
      /\ \A r \in ResIds : \/ /\ res'[r].reserved = res[r].reserved
                              /\ \A t \in Used \ Used' : job[t].bound = r => res[r].reserved # job[t].id
                           \/ /\ res'[r].reserved = 0
                              /\ \E t \in Used \ Used' : job[t].bound = r /\ res[r].reserved = job[t].id
<1>6. OneReleased
  <2>1. CASE res' = res /\ job' = job
    BY <2>1, Zenon DEF TypeOK, Used
  <2>2. ASSUME NEW s \in SlotOf(running[n]), job' = [job EXCEPT ![s] = Free], res' = Released(job[s])
        PROVE  OneReleased
    <3>1. s \in Used /\ Used \ Used' = {s}
      BY <1>3, <2>2, Zenon DEF Used, SlotOf, TypeOK
    <3>2. job[s].bound \in 0 .. ResPool /\ res \in [ResIds -> Resource] /\ 0 \in 0 .. MaxJobs
      BY <1>3, <3>1, Sizes DEF Job, TypeOK
    <3>3. CASE job[s].bound # 0 /\ res[job[s].bound].reserved = job[s].id
      <4>1. PICK b \in ResIds : b = job[s].bound
        BY <3>2, <3>3, Sizes DEF ResIds
      <4>2. res' = [res EXCEPT ![b].reserved = 0]
        BY <2>2, <3>3, <4>1, Zenon DEF Released
      <4>3. res'[b] = [res[b] EXCEPT !.reserved = 0] /\ \A r \in ResIds \ {b} : res'[r] = res[r]
        BY <3>2, <4>1, <4>2, Zenon
      <4>4. res'[b] \in Resource /\ res'[b].live = res[b].live /\ res'[b].reserved = 0
        BY <3>2, <4>1, <4>3 DEF Resource
      <4>5. res' \in [ResIds -> Resource]
        BY <3>2, <4>2, <4>3, <4>4, Zenon
      <4>6. QED
        BY <3>1, <3>3, <4>1, <4>3, <4>4, <4>5, ZenonT(60)
    <3>4. CASE ~ (job[s].bound # 0 /\ res[job[s].bound].reserved = job[s].id)
      <4>1. res' = res
        BY <2>2, <3>4, Zenon DEF Released
      <4>2. \A r \in ResIds : r # 0
        BY Sizes DEF ResIds
      <4>3. QED
        BY <3>1, <3>2, <3>4, <4>1, <4>2, Zenon
    <3>5. QED
      BY <3>3, <3>4, Zenon
  <2>3. QED
    BY <2>1, <2>2, Zenon DEF ReportFinished
<1>7. Used' \subseteq Used /\ \A t \in Used' : job'[t] = job[t]
  BY <1>4, Zenon
<1>8. TypeOK'
  <2>1. UNCHANGED <<joined, nodesMade, resMade, index, jobsMade, holder, up>>
    BY <1>1, Zenon DEF nodeVars
  <2>2. running' \in [Nodes -> 0 .. MaxJobs] /\ lost' \in [Nodes -> MutexIds \cup {0}]
    <3>1. running \in [Nodes -> 0 .. MaxJobs] /\ lost \in [Nodes -> MutexIds \cup {0}] /\ 0 \in 0 .. MaxJobs
      BY Sizes DEF TypeOK
    <3>2. QED
      BY <1>1, <3>1, Zenon
  <2>3. job' \in [Slots -> Job \cup {Free}] /\ res' \in [ResIds -> Resource]
    BY <1>4, <1>6, Zenon
  <2>4. QED
    BY <1>5, <2>1, <2>2, <2>3, Zenon DEF TypeOK
<1>9. DispatchExclusive'
  BY <1>2, Zenon DEF DispatchExclusive
<1>10. \A r \in ResIds :
         /\ res'[r].live = res[r].live
         /\ \/ /\ res'[r].reserved = res[r].reserved
               /\ \A t \in Used \ Used' : job[t].bound = r => res[r].reserved # job[t].id
            \/ /\ res'[r].reserved = 0
               /\ \E t \in Used \ Used' : job[t].bound = r /\ res[r].reserved = job[t].id
  BY <1>6, Zenon
<1> HIDE DEF OneSlotLess, OneReleased
<1>11. \A m \in Nodes : \A t \in SlotOf(running[m])' :
         m # n /\ t \in SlotOf(running[m]) /\ job'[t] = job[t]
  <2> SUFFICES ASSUME NEW m \in Nodes, NEW t \in Used', job'[t].id = running'[m]
               PROVE  m # n /\ t \in SlotOf(running[m]) /\ job'[t] = job[t]
    BY Zenon DEF SlotOf
  <2>1. t \in Used /\ job'[t] = job[t] /\ job[t].id # 0
    BY <1>7, UsedSlots, Zenon
  <2>2. m # n /\ running'[m] = running[m]
    BY <1>2, <2>1, Zenon
  <2>3. QED
    BY <2>1, <2>2, Zenon DEF SlotOf
<1>12. RunsWhereAssigned'
  <2>1. joined' = joined
    BY <1>1, Zenon DEF nodeVars
  <2>2. QED
    BY <1>11, <2>1 DEF RunsWhereAssigned
<1>13. InHand'
  <2>1. \A m \in Nodes : running'[m] # 0 => m \in up'
    BY <1>1, <1>2, Zenon DEF InHand
  <2>2. \A m \in Nodes : \A t \in SlotOf(running[m])' : running[m] # 0 /\ job'[t] = job[t] /\ t \in SlotOf(running[m])
    BY <1>11, UsedSlots, Zenon
  <2>3. \A m \in Nodes : \A t \in SlotOf(running[m])' : job'[t].dispatched
    BY <2>2, Zenon DEF InHand
  <2>4. \A t \in Used' : job'[t].assigned # ANY => job'[t].spec.affinity \in {job'[t].assigned, ANY}
    BY <1>7, Zenon DEF InHand
  <2>5. QED
    BY <2>1, <2>3, <2>4, Zenon DEF InHand
<1>14. StartedJobsAreBound'
  BY <1>7, Zenon DEF StartedJobsAreBound, Requires
<1>15. BoostOnlyWhileHolding'
  <2>1. \A h : Holding(h)' = Holding(h)
    BY <1>1, Zenon DEF Holding
  <2>2. QED
    BY <1>7, <2>1, Zenon DEF BoostOnlyWhileHolding
<1>16. ReservationsMatchBindings'
  <2>1. ASSUME NEW r \in ResIds, res[r].live, NEW t \in Used', job'[t].bound = r
        PROVE  res'[r].reserved = job'[t].id
    <3>1. t \in Used /\ job'[t] = job[t] /\ res[r].reserved = job[t].id
      BY <1>7, <2>1, Zenon DEF ReservationsMatchBindings
    <3>2. \A u \in Used \ Used' : res[r].reserved # job[u].id
      BY <3>1, Zenon DEF HandlesUnique
    <3>3. QED
      BY <1>10, <3>1, <3>2, Zenon
  <2>2. ASSUME NEW r \in ResIds, res[r].live, res'[r].reserved # 0
        PROVE  \E t \in SlotOf(res[r].reserved)' : job'[t].bound = r
    <3>1. /\ res'[r].reserved = res[r].reserved
          /\ \A t \in Used \ Used' : job[t].bound = r => res[r].reserved # job[t].id
      BY <1>10, <2>2, Zenon
    <3>2. PICK t \in Used : job[t].bound = r /\ job[t].id = res[r].reserved
      BY <2>2, <3>1, Zenon DEF ReservationsMatchBindings, SlotOf
    <3>3. t \in Used' /\ job'[t] = job[t]
      BY <1>7, <3>1, <3>2, Zenon
    <3>4. t \in SlotOf(res[r].reserved)' /\ job'[t].bound = r
      BY <3>1, <3>2, <3>3, Zenon DEF SlotOf
    <3>5. QED
      BY <3>4, Zenon
  <2>3. QED
    BY <1>10, <2>1, <2>2, Zenon DEF ReservationsMatchBindings
<1>17. HandlesUnique'
  <2>1. \A m \in Nodes : running'[m] <= jobsMade
    <3>1. 0 <= jobsMade
      BY Sizes DEF TypeOK
    <3>2. QED
      BY <1>2, <3>1, Zenon DEF HandlesUnique
  <2>2. jobsMade' = jobsMade
    BY <1>1, Zenon
  <2>3. QED
    BY <1>7, <2>1, <2>2, Zenon DEF HandlesUnique
<1>18. IndexSound'
  <2>1. \A i \in ResIds : index[i] # 0 => index[i] \in ResIds
    BY Sizes DEF TypeOK, ResIds
  <2>2. index' = index /\ resMade' = resMade /\ \A r \in ResIds : res'[r].live = res[r].live
    BY <1>1, <1>10, Zenon
  <2>3. QED
    BY <1>7, <2>1, <2>2, Zenon DEF IndexSound
<1>19. QED
  BY <1>8, <1>9, <1>12, <1>13, <1>14, <1>15, <1>16, <1>17, <1>18, Zenon

(* handle_leave_node: what was reserved on the node is gone, what a        *)
(* cancelled job had reserved elsewhere is released, and the jobs that are *)
(* unpinned are those of the node that leaves.                             *)
LEMMA LeaveStep ==
    ASSUME ClusterInv, NEW n \in Nodes, LeaveNode(n)
    PROVE  ClusterInv'
<1> USE DEF ClusterInv, RunningJobsSound
<1>1. joined' = joined \ {n} /\ UNCHANGED <<nodesMade, resMade, jobsMade, completions, holder, loopVars>>
  BY Zenon DEF LeaveNode
<1>2. Used \subseteq Slots /\ Cancelled(n) \subseteq Used /\ \A t \in Used : job[t] \in Job
  BY Zenon DEF Used, TypeOK, Cancelled
<1>3. job' = [s \in Slots |->
                 IF s \in Cancelled(n) THEN Free
                 ELSE IF s \in Used /\ Touches(n, job[s]) THEN [job[s] EXCEPT !.assigned = ANY]
                 ELSE job[s]]
  BY Zenon DEF LeaveNode
<1>4. /\ \A t \in Cancelled(n) : job'[t] = Free
      /\ \A t \in Slots \ Used : job'[t] = Free
      /\ \A t \in Used \ Cancelled(n) :
           /\ Touches(n, job[t]) => job'[t] = [job[t] EXCEPT !.assigned = ANY]
           /\ ~ Touches(n, job[t]) => job'[t] = job[t]
  BY <1>2, <1>3, Zenon DEF Used
<1>5. \A t \in Used \ Cancelled(n) :
        /\ job'[t] \in Job /\ job'[t].id = job[t].id /\ job'[t].spec = job[t].spec
        /\ job'[t].priority = job[t].priority /\ job'[t].bound = job[t].bound
        /\ job'[t].block = job[t].block /\ job'[t].dispatched = job[t].dispatched
        /\ Touches(n, job[t]) => job'[t].assigned = ANY
        /\ ~ Touches(n, job[t]) => job'[t].assigned = job[t].assigned
  <2> SUFFICES ASSUME NEW t \in Used \ Cancelled(n)
               PROVE  /\ job'[t] \in Job /\ job'[t].id = job[t].id /\ job'[t].spec = job[t].spec
                      /\ job'[t].priority = job[t].priority /\ job'[t].bound = job[t].bound
                      /\ job'[t].block = job[t].block /\ job'[t].dispatched = job[t].dispatched
                      /\ Touches(n, job[t]) => job'[t].assigned = ANY
                      /\ ~ Touches(n, job[t]) => job'[t].assigned = job[t].assigned
    BY Zenon
  <2>1. CASE ~ Touches(n, job[t])
    BY <1>2, <1>4, <2>1, Zenon
  <2>2. CASE Touches(n, job[t])
    <3>1. job[t] \in Job /\ job'[t] = [job[t] EXCEPT !.assigned = ANY]
      BY <1>2, <1>4, <2>2, Zenon
    <3>2. QED
      BY <2>2, <3>1 DEF Job
  <2>3. QED
    BY <2>1, <2>2, Zenon
<1>6. Used' = Used \ Cancelled(n)
  BY <1>2, <1>4, <1>5, FreeIsNoJob DEF Used
<1>7. Used' \subseteq Used /\ \A t \in Used' : job'[t].id = job[t].id /\ job'[t].bound = job[t].bound
  BY <1>5, <1>6, Zenon
<1>8. \A t \in Used' : job'[t].spec = job[t].spec /\ job'[t].priority = job[t].priority
  BY <1>5, <1>6, Zenon
<1>9. \A t \in Used' : job'[t].block = job[t].block /\ job'[t].dispatched = job[t].dispatched
  BY <1>5, <1>6, Zenon
<1>10. \A t \in Used' : \/ job'[t].assigned = job[t].assigned /\ ~ Touches(n, job[t])
                        \/ job'[t].assigned = ANY /\ job[t].assigned = n
  <2>1. \A t \in Used' : Touches(n, job[t]) => job[t].assigned = n
    BY <1>6, Zenon DEF Touches, Cancelled
  <2>2. QED
    BY <1>5, <1>6, <2>1, Zenon
<1>11. joined' = joined \ {n} /\ up' = up /\ running' = running /\ jobsMade' = jobsMade /\ resMade' = resMade
  BY <1>1, Zenon DEF loopVars
<1>12. \A m \in Nodes : \A t \in SlotOf(running[m])' : t \in Used' /\ t \in SlotOf(running[m])
  BY <1>7, <1>11, Zenon DEF SlotOf
<1> DEFINE Freed(r) == \E s \in Cancelled(n) : job[s].bound = r /\ job[s].id = res[r].reserved
<1>13. /\ \A r \in Owned(n) : r \in ResIds /\ res'[r] = Dead
       /\ \A r \in ResIds \ Owned(n) : res'[r] = IF Freed(r) THEN [res[r] EXCEPT !.reserved = 0] ELSE res[r]
       /\ res' = [r \in ResIds |-> res'[r]]
  BY Zenon DEF LeaveNode, Owned
<1> HIDE DEF Freed
<1>14. \A r \in ResIds \ Owned(n) :
         /\ res'[r] \in Resource /\ res'[r].live = res[r].live
         /\ Freed(r) => res'[r].reserved = 0
         /\ ~ Freed(r) => res'[r].reserved = res[r].reserved
  <2>1. \A r \in ResIds : res[r] \in Resource
    BY Zenon DEF TypeOK
  <2>2. QED
    BY <1>13, <2>1, Sizes DEF Resource
<1>15. \A r \in ResIds : res'[r].live => r \notin Owned(n) /\ res[r].live
  BY <1>13, <1>14, ResourceRecords, Zenon
<1>16. \A i \in ResIds : index[i] \in 0 .. ResPool /\ index'[i] = IF index[i] \in Owned(n) THEN 0 ELSE index[i]
  BY Zenon DEF LeaveNode, TypeOK
<1>17. TypeOK'
  <2>1. res' \in [ResIds -> Resource]
    <3>1. \A r \in ResIds : res'[r] \in Resource
      BY <1>13, <1>14, ResourceRecords, Zenon
    <3>2. QED
      BY <1>13, <3>1, Zenon
  <2>2. index' \in [ResIds -> 0 .. ResPool]
    <3>1. index' = [i \in ResIds |-> index'[i]]
      BY Zenon DEF LeaveNode
    <3>2. \A i \in ResIds : index'[i] \in 0 .. ResPool
      BY <1>16, Sizes
    <3>3. QED
      BY <3>1, <3>2, Zenon
  <2>3. job' \in [Slots -> Job \cup {Free}]
    <3>1. \A t \in Slots : job'[t] \in Job \cup {Free}
      BY <1>4, <1>5, Zenon
    <3>2. job' = [t \in Slots |-> job'[t]]
      BY <1>3, Zenon
    <3>3. QED
      BY <3>1, <3>2, Zenon
  <2>4. UNCHANGED <<nodesMade, resMade, jobsMade, completions, holder, up, running, lost>> /\ joined' \subseteq Nodes
    BY <1>1, Zenon DEF TypeOK, loopVars
  <2>5. QED
    BY <2>1, <2>2, <2>3, <2>4, Zenon DEF TypeOK
<1>18. DispatchExclusive'
  BY <1>11, Zenon DEF DispatchExclusive
<1>19. HandlesUnique'
  <2>1. \A s, t \in Used' : job'[s].id = job'[t].id => s = t
    BY <1>7, ZenonT(60) DEF HandlesUnique
  <2>2. \A s \in Used' : job'[s].id <= jobsMade'
    BY <1>7, <1>11, Zenon DEF HandlesUnique
  <2>3. \A m \in Nodes : running'[m] <= jobsMade'
    BY <1>11, Zenon DEF HandlesUnique
  <2>4. QED
    BY <2>1, <2>2, <2>3, Zenon DEF HandlesUnique
<1>20. RunsWhereAssigned'
  <2> SUFFICES ASSUME NEW m \in Nodes, NEW t \in SlotOf(running[m])'
               PROVE  /\ job'[t].spec.affinity \in {m, ANY}
                      /\ job'[t].assigned = m \/ (job'[t].assigned = ANY /\ m \notin joined')
    BY Zenon DEF RunsWhereAssigned
  <2>1. /\ t \in Used' /\ job[t].spec.affinity \in {m, ANY}
        /\ job[t].assigned = m \/ (job[t].assigned = ANY /\ m \notin joined)
    BY <1>12, Zenon DEF RunsWhereAssigned
  <2>2. n # ANY
    BY ClusterAssumption, Zenon
  <2>3. QED
    BY <1>8, <1>10, <1>11, <2>1, <2>2, Zenon
<1>21. StartedJobsAreBound'
  BY <1>7, <1>8, <1>9 DEF StartedJobsAreBound, Requires
<1>22. BoostOnlyWhileHolding'
  <2>1. \A h : Holding(h)' = Holding(h)
    BY <1>1, Zenon DEF Holding
  <2>2. QED
    BY <1>7, <1>8, <2>1, Zenon DEF BoostOnlyWhileHolding
<1>23. ReservationsMatchBindings'
  <2>1. ASSUME NEW r \in ResIds, res'[r].live, NEW t \in Used', job'[t].bound = r
        PROVE  res'[r].reserved = job'[t].id
    <3>1. t \in Used \ Cancelled(n) /\ job[t].bound = r /\ job'[t].id = job[t].id
      BY <1>6, <1>7, <2>1, Zenon
    <3>2. res[r].reserved = job[t].id
      BY <1>15, <2>1, <3>1, Zenon DEF ReservationsMatchBindings
    <3>3. ~ Freed(r)
      BY <1>2, <3>1, <3>2, Zenon DEF HandlesUnique, Freed
    <3>4. QED
      BY <1>14, <1>15, <2>1, <3>1, <3>2, <3>3
  <2>2. ASSUME NEW r \in ResIds, res'[r].live, res'[r].reserved # 0
        PROVE  \E t \in SlotOf(res[r].reserved)' : job'[t].bound = r
    <3>1. res[r].live /\ res'[r].reserved = res[r].reserved /\ ~ Freed(r)
      BY <1>14, <1>15, <2>2, Zenon
    <3>2. PICK t \in Used : job[t].bound = r /\ job[t].id = res[r].reserved
      BY <2>2, <3>1, Zenon DEF ReservationsMatchBindings, SlotOf
    <3>3. t \in Used'
      BY <1>6, <3>1, <3>2, Zenon DEF Freed
    <3>4. t \in SlotOf(res[r].reserved)' /\ job'[t].bound = r
      BY <1>7, <3>1, <3>2, <3>3, Zenon DEF SlotOf
    <3>5. QED
      BY <3>4, Zenon
  <2>3. QED
    BY <2>1, <2>2, Zenon DEF ReservationsMatchBindings
<1>24. IndexSound'
  <2>1. \A i \in ResIds : index'[i] # 0 => index'[i] = index[i] /\ index[i] \in ResIds \ Owned(n)
    BY <1>16, Sizes DEF ResIds
  <2>2. \A i \in ResIds : index'[i] # 0 => res'[index'[i]].live
    BY <1>14, <2>1, Zenon DEF IndexSound
  <2>3. \A r \in ResIds : res'[r].live => r <= resMade'
    BY <1>11, <1>15, Zenon DEF IndexSound
  <2>4. \A t \in Used' : job'[t].bound <= resMade'
    BY <1>7, <1>11, Zenon DEF IndexSound
  <2>5. QED
    BY <2>2, <2>3, <2>4, Zenon DEF IndexSound
<1>25. InHand'
  <2>1. \A m \in Nodes : running'[m] # 0 => m \in up'
    BY <1>11, Zenon DEF InHand
  <2>2. \A m \in Nodes : \A t \in SlotOf(running[m])' : running[m] # 0 /\ t \in SlotOf(running[m])
    BY <1>12, UsedSlots, Zenon
  <2>3. \A m \in Nodes : \A t \in SlotOf(running[m])' : job'[t].dispatched
    BY <1>9, <1>12, <2>2, Zenon DEF InHand
  <2>4. \A t \in Used' : job'[t].assigned # ANY => job'[t].spec.affinity \in {job'[t].assigned, ANY}
    BY <1>7, <1>8, <1>10, Zenon DEF InHand
  <2>5. QED
    BY <2>1, <2>3, <2>4, Zenon DEF InHand
<1>26. QED
  BY <1>17, <1>18, <1>19, <1>20, <1>21, <1>22, <1>23, <1>24, <1>25, Zenon
-----------------------------------------------------------------------------
(* The driver's context, 0, is the number of no slot of the job table.     *)
LEMMA DriverNoJob == Driver \notin Residents
BY ExecAssumption DEF Residents, Driver

(* The empty job table satisfies ExecInv.                                  *)
LEMMA InitExecInv == ExecInit => ExecInv
<1> SUFFICES ASSUME ExecInit PROVE ExecInv
    BY Zenon
<1> USE ExecAssumption DEF ExecInit
<1>1. ExecType
  <2>1. /\ state \in [Residents -> {"UNUSED", "READY", "RUNNING", "BLOCKED"}]
        /\ prio \in [Residents -> Int]
    OBVIOUS
  <2>2. waiting \in [Residents -> Queues \cup {Park, None}]
    BY Zenon
  <2>3. rsp \in [Residents -> Contexts] /\ stack \in [Residents -> Contexts]
    BY Zenon DEF Contexts, Driver
  <2>4. stacks \subseteq Residents /\ current \in Contexts /\ cpu \in Contexts
    BY Zenon DEF Contexts, Driver
  <2>5. halted \in BOOLEAN
    BY Zenon
  <2>6. QED
    BY <2>1, <2>2, <2>3, <2>4, <2>5, Zenon DEF ExecType
<1>2. RunningIsCurrent /\ RunningIsHighest
    BY Zenon DEF RunningIsCurrent, RunningIsHighest
<1>3. Driver \notin Residents
    BY DriverNoJob, Zenon
<1>4. QED
    BY <1>1, <1>2, <1>3, Zenon DEF ExecInv, CanRun

(* What job_exec_wait, job_exec_wake and job_exec_run rely on: the slot    *)
(* number that current_job holds is the executing job's.                   *)
LEMMA ExecutingJob ==
    ASSUME ExecInv, cpu # Driver, ~ halted
    PROVE  cpu \in Residents /\ current = cpu /\ state[cpu] = "RUNNING" /\ stack[cpu] # 0
BY ExecAssumption, Zenon DEF ExecInv, ExecType, RunningIsCurrent, Contexts, CanRun

(* job_exec_alloc_stack and job_exec_spawn keep ExecInv.                   *)
LEMMA SpawnExecInv ==
    ASSUME ExecInv, NEW p \in Priorities, Spawn(p) PROVE ExecInv'
<1> PICK i \in Lowest(With("UNUSED")), k \in Lowest(Residents \ stacks) :
         /\ stack' = [stack EXCEPT ![i] = k] /\ stacks' = stacks \cup {k}
         /\ state' = [state EXCEPT ![i] = "READY"]
         /\ prio' = [prio EXCEPT ![i] = p]
         /\ waiting' = [waiting EXCEPT ![i] = None]
         /\ rsp' = [rsp EXCEPT ![i] = i]
    BY Zenon DEF Spawn
<1> i \in Residents /\ state[i] = "UNUSED" /\ k \in Residents /\ k \notin stacks /\ k # 0
    BY ExecAssumption DEF Lowest, With, Residents
<1> cpu = Driver /\ UNCHANGED <<current, cpu, halted>>
    BY Zenon DEF Spawn
<1>1. ExecType'
    BY ExecAssumption, Zenon DEF ExecInv, ExecType, Contexts
<1>2. RunningIsCurrent' /\ RunningIsHighest'
    BY Zenon DEF RunningIsCurrent, RunningIsHighest
<1>3. Driver \notin Residents
    BY DriverNoJob, Zenon
<1>4. QED
    BY <1>1, <1>2, <1>3, ExecAssumption DEF ExecInv, ExecType, CanRun

(* job_exec_run keeps ExecInv.                                             *)
LEMMA RunExecInv ==
    ASSUME ExecInv, NEW i \in Residents, Run(i) PROVE ExecInv'
<1>1. /\ state[i] = "READY" /\ rsp[i] = i /\ state' = [state EXCEPT ![i] = "RUNNING"]
      /\ current' = i /\ cpu' = i /\ cpu = Driver
      /\ UNCHANGED <<prio, waiting, rsp, stack, stacks, halted>>
    BY Zenon DEF Run, HighestPriority, With, ExecInv
<1>2. i # Driver /\ ~ halted
    BY <1>1, ExecAssumption DEF ExecInv, Residents, Driver
<1>3. ExecType'
    BY <1>1, Zenon DEF ExecInv, ExecType, Contexts
<1>4. RunningIsCurrent'
    BY <1>1, <1>2, Zenon DEF ExecInv, ExecType, RunningIsCurrent
<1>5. \A k \in With("READY") : prio[k] <= prio[i]
    BY <1>1 DEF Run, HighestPriority, With, ExecInv, ExecType
<1>6. RunningIsHighest'
    BY <1>1, <1>5, Zenon DEF ExecInv, ExecType, RunningIsHighest, With
<1>7. QED
    BY <1>1, <1>2, <1>3, <1>4, <1>6 DEF ExecInv, ExecType, CanRun

(* job_exec_wait, when it finds nothing to run, keeps ExecInv.             *)
LEMMA HaltExecInv ==
    ASSUME ExecInv, cpu # Driver, ~ halted, NEW q \in Queues \cup {Park},
           waiting' = [waiting EXCEPT ![current] = q],
           state' = [state EXCEPT ![current] = "BLOCKED"], halted',
           UNCHANGED <<prio, rsp, current, cpu, stack, stacks>>
    PROVE  ExecInv'
<1>1. cpu \in Residents /\ current = cpu /\ state[cpu] = "RUNNING" /\ stack[cpu] # 0
    BY ExecutingJob, Zenon
<1>2. ExecType'
    BY <1>1, Zenon DEF ExecInv, ExecType
<1>3. RunningIsCurrent'
    BY <1>1, Zenon DEF ExecInv, ExecType, RunningIsCurrent
<1>4. RunningIsHighest'
    BY <1>1, Zenon DEF ExecInv, ExecType, RunningIsHighest
<1>5. QED
    BY <1>1, <1>2, <1>3, <1>4 DEF ExecInv, ExecType, CanRun

(* The switch that job_exec_wait and a preempting job_exec_wake end with:  *)
(* the executing job goes to state s, waiting on q, and job n, which is    *)
(* not outranked by what is READY afterwards, resumes where it stopped.    *)
LEMMA SwitchExecInv ==
    ASSUME ExecInv, cpu # Driver, ~ halted,
           NEW n \in Residents, n # current, CanRun(n), waiting'[n] # Park,
           NEW s \in {"READY", "BLOCKED"},
           state' = [state EXCEPT ![current] = s, ![n] = "RUNNING"],
           waiting' \in [Residents -> Queues \cup {Park, None}],
           \A i \in Residents \ {current, n} : waiting'[i] = waiting[i],
           waiting'[current] = Park => s = "BLOCKED",
           \A i \in With("READY") : prio[i] <= prio[n],
           s = "READY" => prio[current] <= prio[n],
           current' = n, Switch(current, n),
           UNCHANGED <<prio, halted, stack, stacks>>
    PROVE  ExecInv'
<1>1. cpu \in Residents /\ current = cpu /\ state[cpu] = "RUNNING" /\ stack[cpu] # 0
    BY ExecutingJob, Zenon
<1>2. cpu' = n /\ rsp' = rsp
    BY <1>1 DEF Switch, ExecInv, ExecType
<1>3. ExecType'
    BY <1>1, <1>2, Zenon DEF ExecInv, ExecType, Contexts
<1>4. RunningIsCurrent'
    BY <1>1, <1>2, Zenon DEF ExecInv, ExecType, RunningIsCurrent
<1>5. RunningIsHighest'
    BY <1>1, <1>2, Zenon DEF ExecInv, ExecType, RunningIsHighest, With
<1>6. n # Driver /\ state[n] # "UNUSED"
    BY ExecAssumption DEF ExecInv, CanRun, Residents, Driver
<1>7. /\ \A i \in Residents : rsp'[i] = i
      /\ halted' => cpu' # Driver
      /\ \A i \in Residents : waiting'[i] = Park => state'[i] = "BLOCKED"
    BY <1>1, <1>2, <1>6, Zenon DEF ExecInv, ExecType
<1>8. /\ \A i \in Residents : state'[i] = "UNUSED" => stack'[i] = 0 /\ cpu' # i
      /\ \A i \in Residents : CanRun(i)' => stack'[i] # 0
    BY <1>1, <1>2, <1>6 DEF ExecInv, ExecType, CanRun
<1>9. QED
    BY <1>3, <1>4, <1>5, <1>7, <1>8, Zenon DEF ExecInv

(* job_exec_wait keeps ExecInv.                                            *)
LEMMA WaitExecInv ==
    ASSUME ExecInv, NEW q \in Queues \cup {Park}, Wait(q) PROVE ExecInv'
<1>1. /\ cpu # Driver /\ ~ halted /\ UNCHANGED <<stack, stacks>>
      /\ waiting' = [waiting EXCEPT ![current] = q]
    BY Zenon DEF Wait
<1>2. cpu \in Residents /\ current = cpu /\ state[cpu] = "RUNNING" /\ stack[cpu] # 0
    BY <1>1, ExecutingJob, Zenon
<1>3. CASE With("READY") = {} /\ halted'
           /\ state' = [state EXCEPT ![current] = "BLOCKED"]
           /\ UNCHANGED <<prio, rsp, current, cpu>>
    BY <1>1, <1>3, HaltExecInv, Zenon
<1>4. ASSUME NEW n \in HighestPriority(With("READY")), current' = n, Switch(current, n),
             state' = [state EXCEPT ![current] = "BLOCKED", ![n] = "RUNNING"],
             UNCHANGED <<prio, halted>>
      PROVE  ExecInv'
  <2>1. n \in Residents /\ n # current /\ state[n] = "READY" /\ CanRun(n)
    BY <1>2, Zenon DEF HighestPriority, With, CanRun
  <2>2. \A i \in With("READY") : prio[i] <= prio[n]
    BY <2>1 DEF HighestPriority, With, ExecInv, ExecType
  <2>3. waiting' \in [Residents -> Queues \cup {Park, None}]
    BY <1>1, Zenon DEF ExecInv, ExecType
  <2>4. \A i \in Residents \ {current} : waiting'[i] = waiting[i]
    BY <1>1, Zenon DEF ExecInv, ExecType
  <2>5. waiting'[n] # Park
    BY <2>1, <2>4, Zenon DEF ExecInv
  <2>6. QED
    BY <1>1, <1>4, <2>1, <2>2, <2>3, <2>4, <2>5, SwitchExecInv, Zenon
<1>5. QED
    BY <1>3, <1>4, Zenon DEF Wait

(* job_exec_wake, called by a job, keeps ExecInv.                          *)
LEMMA WakeExecInv ==
    ASSUME ExecInv, ~ DriverWakes, NEW q \in Queues, Wake(q) PROVE ExecInv'
<1>1. cpu # Driver /\ ~ halted /\ UNCHANGED <<prio, stack, stacks, halted>>
    BY Zenon DEF Wake
<1>2. cpu \in Residents /\ current = cpu /\ state[cpu] = "RUNNING" /\ stack[cpu] # 0
    BY <1>1, ExecutingJob, Zenon
<1>3. PICK w \in HighestPriority(Waiters(q)) :
         /\ waiting' = [waiting EXCEPT ![w] = None]
         /\ \/ /\ Preempts(w)
               /\ state' = [state EXCEPT ![current] = "READY", ![w] = "RUNNING"]
               /\ current' = w /\ Switch(current, w)
            \/ /\ ~ Preempts(w)
               /\ state' = [state EXCEPT ![w] = "READY"]
               /\ UNCHANGED <<rsp, current, cpu>>
    BY Zenon DEF Wake
<1>4. w \in Residents /\ w # current /\ state[w] = "BLOCKED" /\ waiting[w] = q /\ CanRun(w)
    BY <1>2, ExecAssumption, Zenon DEF HighestPriority, Waiters, With, CanRun
<1>5. /\ waiting' \in [Residents -> Queues \cup {Park, None}] /\ waiting'[w] = None
      /\ \A i \in Residents \ {w} : waiting'[i] = waiting[i]
    BY <1>3, <1>4 DEF ExecInv, ExecType
<1>6. CASE Preempts(w)
  <2>1. /\ state' = [state EXCEPT ![current] = "READY", ![w] = "RUNNING"]
        /\ current' = w /\ Switch(current, w)
    BY <1>3, <1>6, ZenonT(60)
  <2>2. prio[current] <= prio[w] /\ \A i \in With("READY") : prio[i] <= prio[w]
    <3>1. prio \in [Residents -> Int] /\ prio[w] > prio[current]
      BY <1>6, Zenon DEF Preempts, ExecInv, ExecType
    <3>2. \A i \in With("READY") : i \in Residents /\ prio[i] <= prio[current]
      BY <1>1, <1>2, Zenon DEF ExecInv, RunningIsHighest, With
    <3>3. QED
      BY <1>2, <1>4, <3>1, <3>2
  <2>3. waiting'[current] # Park /\ waiting'[w] # Park
    BY <1>2, <1>4, <1>5, ExecAssumption, Zenon DEF ExecInv
  <2>4. QED
    BY <1>1, <1>4, <1>5, <2>1, <2>2, <2>3, SwitchExecInv, Zenon
<1>7. CASE ~ Preempts(w)
  <2>1. state' = [state EXCEPT ![w] = "READY"] /\ UNCHANGED <<rsp, current, cpu>>
    BY <1>3, <1>7, Zenon
  <2>2. prio[w] <= prio[current]
    BY <1>2, <1>4, <1>7, ExecAssumption DEF Preempts, ExecInv, ExecType, Residents
  <2>3. ExecType' /\ RunningIsCurrent'
    BY <1>1, <1>2, <1>4, <1>5, <2>1, Zenon DEF ExecInv, ExecType, RunningIsCurrent
  <2>4. RunningIsHighest'
    BY <1>1, <1>2, <1>4, <2>1, <2>2 DEF ExecInv, ExecType, RunningIsHighest, With
  <2>5. QED
    BY <1>1, <1>2, <1>4, <1>5, <2>1, <2>3, <2>4, ExecAssumption DEF ExecInv, ExecType, CanRun
<1>8. QED
    BY <1>6, <1>7, Zenon

(* A job that hands the core back, and the driver that frees a stack, keep *)
(* ExecInv.                                                                *)
LEMMA DriverStepsExecInv ==
    ASSUME ExecInv, ReturnToDriver \/ \E i \in Residents : FreeStack(i)
    PROVE  ExecInv'
<1>1. Driver \notin Residents
    BY DriverNoJob, Zenon
<1>2. CASE ReturnToDriver
  <2>1. cpu \in Residents /\ current = cpu /\ state[cpu] = "RUNNING"
    BY <1>2, ExecutingJob, Zenon DEF ReturnToDriver
  <2>2. rsp' = rsp /\ cpu' = Driver /\ ~ halted
        /\ UNCHANGED <<state, prio, waiting, stack, stacks, current, halted>>
    BY <1>2, <2>1 DEF ReturnToDriver, ExecInv, ExecType
  <2>3. ExecType' /\ RunningIsCurrent' /\ RunningIsHighest'
    BY <2>2, Zenon DEF ExecInv, ExecType, Contexts, RunningIsCurrent, RunningIsHighest
  <2>4. QED
    BY <1>1, <2>2, <2>3, Zenon DEF ExecInv, CanRun
<1>3. ASSUME NEW i \in Residents, FreeStack(i) PROVE ExecInv'
  <2>1. /\ cpu = Driver /\ stack[i] # 0 /\ (state[i] = "RUNNING" \/ waiting[i] = Park)
        /\ stacks' = stacks \ {stack[i]} /\ stack' = [stack EXCEPT ![i] = 0]
        /\ UNCHANGED <<state, prio, waiting, rsp, current, cpu, halted>>
    BY <1>3, Zenon DEF FreeStack, table
  <2>2. ExecType' /\ RunningIsCurrent' /\ RunningIsHighest'
    BY <2>1, Zenon DEF ExecInv, ExecType, Contexts, Driver, RunningIsCurrent, RunningIsHighest
  <2>3. ~ CanRun(i)
    BY <1>1, <2>1, Zenon DEF ExecInv, CanRun
  <2>4. QED
    BY <1>1, <2>1, <2>2, <2>3 DEF ExecInv, ExecType, CanRun
<1>4. QED
    BY <1>2, <1>3, Zenon

(* ExecInv is an invariant of the core's job table when only jobs wake     *)
(* jobs.                                                                   *)
THEOREM ExecInvariant == ASSUME ~ DriverWakes PROVE ExecSpec => []ExecInv
<1>1. ExecInv /\ [ExecNext]_execVars => ExecInv'
  <2> SUFFICES ASSUME ExecInv, [ExecNext]_execVars PROVE ExecInv'
    BY Zenon
  <2>1. CASE UNCHANGED execVars
    BY <2>1, Zenon DEF execVars, table, ExecInv, ExecType, RunningIsCurrent, RunningIsHighest,
                With, CanRun
  <2>2. CASE ExecNext
    BY <2>2, SpawnExecInv, RunExecInv, WaitExecInv, WakeExecInv, DriverStepsExecInv
       DEF ExecNext
  <2>3. QED
    BY <2>1, <2>2, Zenon
<1>2. QED
    BY InitExecInv, <1>1, PTL DEF ExecSpec

(* While a job executes, current_job is its slot, so every wait and wake   *)
(* of job_exec.c acts on the right entry of the table.                     *)
THEOREM RunningIsCurrentAlways == ASSUME ~ DriverWakes PROVE ExecSpec => []RunningIsCurrent
<1>1. ExecInv => RunningIsCurrent
    BY Zenon DEF ExecInv
<1>2. QED
    BY ExecInvariant, <1>1, PTL

(* A job resumes with its own registers, however it was switched away      *)
(* from (job_exec_wait and job_exec_wake).                                 *)
THEOREM ContextsOwnAlways == ASSUME ~ DriverWakes PROVE ExecSpec => []ContextsOwn
<1>1. ExecInv => ContextsOwn
    BY Zenon DEF ExecInv, ContextsOwn
<1>2. QED
    BY ExecInvariant, <1>1, PTL

(* pick_highest_priority_ready and the preemption in job_exec_wake keep    *)
(* strict priority order on the core.                                      *)
THEOREM RunningIsHighestAlways == ASSUME ~ DriverWakes PROVE ExecSpec => []RunningIsHighest
<1>1. ExecInv => RunningIsHighest
    BY Zenon DEF ExecInv
<1>2. QED
    BY ExecInvariant, <1>1, PTL

(* job_exec_alloc_stack never hands out the stack of a job that can still  *)
(* run.                                                                    *)
THEOREM StacksDisjointAlways == ASSUME ~ DriverWakes PROVE ExecSpec => []StacksDisjoint
<1>1. ExecInv => StacksDisjoint
    BY Zenon DEF ExecInv, StacksDisjoint
<1>2. QED
    BY ExecInvariant, <1>1, PTL
-----------------------------------------------------------------------------
(* The theorems about the cluster scheduler.  That a scan has a last match *)
(* takes the library's induction theorems, which nothing above needs.      *)
LOCAL INSTANCE WellFoundedInduction

(* Every non-empty set of naturals has a least element.                    *)
LEMMA LeastNatural ==
    ASSUME NEW S \in SUBSET Nat, S # {}
    PROVE  \E x \in S : \A y \in S : x <= y
<1>1. PICK x \in S : \A y \in S : ~ (<<y, x>> \in OpToRel(<, Nat))
  BY WFMin, NatLessThanWellFounded, Zenon
<1>2. OpToRel(<, Nat) = {ss \in Nat \X Nat : ss[1] < ss[2]}
  BY Zenon DEF OpToRel
<1>3. \A y \in S : ~ (y < x)
  BY <1>1, <1>2, Zenon
<1>4. QED
  BY <1>3

(* A non-empty set of index entries has a last one (bind_resource_for).    *)
LEMMA LastEntry == LastEntries
<1> SUFFICES ASSUME NEW S \in SUBSET ResIds, S # {}
             PROVE  \E i \in S : \A k \in S : k <= i
  BY Zenon DEF LastEntries
<1> DEFINE T == {x \in Nat : \E i \in S : x + i = ResPool}
<1>1. ResPool \in Nat /\ S \subseteq Nat /\ \A i \in S : i <= ResPool
  BY ClusterAssumption DEF ResIds
<1>2. \A i \in S : ResPool - i \in T
  BY <1>1
<1>3. T \in SUBSET Nat /\ T # {}
  BY <1>2, Zenon
<1>6. PICK x \in T : \A y \in T : x <= y
  BY <1>3, LeastNatural, Zenon
<1>7. PICK i \in S : x + i = ResPool
  BY Zenon
<1>8. \A k \in S : k <= i
  <2> TAKE k \in S
  <2>1. x <= ResPool - k
    BY <1>2, <1>6, Zenon
  <2>2. x \in Nat
    BY <1>3, Zenon
  <2> HIDE DEF T
  <2>3. QED
    BY <1>1, <1>7, <2>1, <2>2
<1>9. QED
  BY <1>8, Zenon

(* Every handler and every node keeps the invariant.                       *)
LEMMA ClusterStep == ClusterInv /\ [Next]_vars => ClusterInv'
<1> SUFFICES ASSUME ClusterInv, [Next]_vars PROVE ClusterInv'
  BY Zenon
<1>1. CASE \E n \in Nodes : JoinNode(n) \/ GetNextJob(n) \/ Slice(n)
  BY <1>1, LastEntry, NodeSteps, GetNextStep, FinishStep, ReportSteps, MutexSteps, Zenon DEF Slice
<1>2. CASE \/ \E n \in Nodes, spec \in ResSpecs : DeclareResource(n, spec)
           \/ \E r \in ResIds, n \in Nodes : ReassignResource(r, n)
  BY <1>2, ResourceSteps, Zenon
<1>3. CASE \E spec \in JobSpecs : SubmitJob(spec)
  BY <1>3, SubmitStep, Zenon
<1>4. CASE (\E n \in Leavers : LeaveNode(n)) \/ \E n \in Removable : RemoveNode(n)
  <2>1. Leavers \subseteq Nodes /\ Removable \subseteq Nodes
    BY ClusterAssumption, Zenon
  <2>2. QED
    BY <1>4, <2>1, LeaveStep, NodeSteps, Zenon
<1>5. CASE UNCHANGED vars
  <2>1. UNCHANGED <<joined, nodesMade, res, resMade, index, job, jobsMade, completions, holder, up, running, lost>>
    BY <1>5, Zenon DEF vars, nodeVars, resVars, jobVars, loopVars
  <2>2. Used' = Used /\ \A h : SlotOf(h)' = SlotOf(h) /\ Holding(h)' = Holding(h)
    BY <2>1, Zenon DEF Used, SlotOf, Holding
  <2>3. TypeOK' /\ DispatchExclusive' /\ RunsWhereAssigned'
    BY <2>1, <2>2, Zenon DEF ClusterInv, RunningJobsSound, TypeOK, DispatchExclusive, RunsWhereAssigned
  <2>4. StartedJobsAreBound' /\ ReservationsMatchBindings' /\ BoostOnlyWhileHolding'
    BY <2>1, <2>2, Zenon DEF ClusterInv, RunningJobsSound, StartedJobsAreBound, Requires, ReservationsMatchBindings,
                      BoostOnlyWhileHolding
  <2>5. HandlesUnique' /\ IndexSound' /\ InHand'
    BY <2>1, <2>2, Zenon DEF ClusterInv, HandlesUnique, IndexSound, InHand
  <2>6. QED
    BY <2>3, <2>4, <2>5, Zenon DEF ClusterInv, RunningJobsSound
<1>6. QED
  BY <1>1, <1>2, <1>3, <1>4, <1>5, Zenon DEF Next

(* The scheduler's inductive invariant: besides the three properties, that *)
(* handles are unique, that the index lists live resources, and that a job *)
(* in hand is marked dispatched.                                           *)
THEOREM ClusterInvariant == Spec => []ClusterInv
BY InitInv, ClusterStep, PTL DEF Spec

(* What a node has been handed is sound, in any cluster: the job is in no  *)
(* other node's hands, runs where its affinity and its pinning allow, and  *)
(* is bound to a resource if it requires one (handle_get_next_job).        *)
THEOREM RunningJobsSoundAlways == Spec => []RunningJobsSound
BY ClusterInvariant, PTL DEF ClusterInv

(* Reservations and bindings agree through finishes, cancellations and     *)
(* leaving nodes: no reservation outlives its job, and no two jobs share a *)
(* resource (bind_resource_for, release_job_resource, handle_leave_node).  *)
THEOREM ReservationsMatchAlways == Spec => []ReservationsMatchBindings
BY ClusterInvariant, PTL DEF ClusterInv

(* A raised priority goes with a held mutex, however many mutexes a job    *)
(* holds and whoever waits (handle_mutex_try_lock, handle_mutex_unlock).   *)
THEOREM BoostOnlyWhileHoldingAlways == Spec => []BoostOnlyWhileHolding
BY ClusterInvariant, PTL DEF ClusterInv

(* Every step keeps HeldInv if no job requires a node that leaves.         *)
LEMMA HeldStep ==
    ASSUME \A spec \in JobSpecs : spec.affinity \notin Leavers, ClusterInv, HeldInv, [Next]_vars
    PROVE  HeldInv'
<1> USE DEF ClusterInv, RunningJobsSound
<1>1. \A s \in Slots : s \notin Used => job[s] = Free
  BY Zenon DEF Used
<1>2. ASSUME UNCHANGED <<job, holder>>, \A n \in Nodes : running'[n] \in {0, running[n]} PROVE HeldInv'
  BY <1>1, <1>2, HeldQuiet, Zenon DEF Used, Stays
<1>3. ASSUME NEW n \in Nodes, JoinNode(n) \/ RemoveNode(n) PROVE HeldInv'
  <2>1. UNCHANGED <<job, holder>> /\ (running' = running \/ running' = [running EXCEPT ![n] = 0])
    BY <1>3, Zenon DEF JoinNode, RemoveNode, jobVars
  <2>2. QED
    BY <1>2, <2>1, Zenon DEF TypeOK
<1>4. ASSUME \/ UNCHANGED vars \/ \E n \in Nodes, spec \in ResSpecs : DeclareResource(n, spec)
             \/ \E r \in ResIds, n \in Nodes : ReassignResource(r, n)
      PROVE  HeldInv'
  <2>1. UNCHANGED <<job, holder, running>>
    BY <1>4, Zenon DEF vars, DeclareResource, ReassignResource, jobVars, loopVars
  <2>2. QED
    BY <1>2, <2>1, Zenon
<1>5. Removable \subseteq Nodes
  BY ClusterAssumption, Zenon
<1>6. QED
  BY <1>3, <1>4, <1>5, LastEntry, HeldHanded, HeldSlice, HeldSubmit, HeldLeave DEF Next

(* A taken mutex has a job in the table that can release it, in any        *)
(* cluster in which no job requires a node that leaves: handle_leave_node  *)
(* cancels such a job without releasing what it holds.                     *)
THEOREM HeldByAJobAlways ==
    ASSUME \A spec \in JobSpecs : spec.affinity \notin Leavers
    PROVE  Spec => []HeldByAJob
<1>1. Init => HeldInv
  BY Zenon DEF Init, HeldInv, Used
<1>2. ClusterInv /\ HeldInv /\ [Next]_vars => HeldInv'
  BY HeldStep, Zenon
<1>3. HeldInv => HeldByAJob
  BY Zenon DEF HeldInv, HeldByAJob
<1>4. QED
  BY <1>1, <1>2, <1>3, ClusterInvariant, PTL DEF Spec
=============================================================================
