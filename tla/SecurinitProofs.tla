-------------------------- MODULE SecurinitProofs --------------------------
(***************************************************************************)
(* The kernel's map comes back after every run of a guest, the Gate's      *)
(* counters tell what reached the sink, and the stage is loaded as the     *)
(* loader promises, for every image, environment and user region.          *)
(***************************************************************************)
EXTENDS Securinit, BringupProofs, FiniteSetTheorems
-----------------------------------------------------------------------------
(* The callback is bound under a map that is already the guest's, which    *)
(* MapRestored leaves out and the step to the guest needs.                 *)
MapInv == MapRestored /\ (pc = "bind" => tlb = {Users})

(* securinit_main runs the guest twice: which run is on follows from where *)
(* the job is, and Verify is only reached in one of the two.               *)
RunInv ==
    /\ pc \in {"lock", "claim", "load", "handoff", "main", "closed", "allow", "open", "wrap"} => run = 0
    /\ pc = "run" => run \in {0, 1}
    /\ pc = "revoke" => run = 1
    /\ pc \in {"map", "bind", "guest", "unmap", "verify"} => run \in {1, 2}

(* The tables' shape is the architecture's, and no step changes that.      *)
LEMMA ImageKept == [Next]_vars => image' = image /\ Kernels' = Kernels /\ Users' = Users
<1> SUFFICES ASSUME [Next]_vars PROVE image' = image
  BY Zenon DEF Kernels, Users, Levels, Arm
<1>1. CASE Load
  BY <1>1, Zenon DEF Load, LoadNext, LoadRefuse, LoadSegment, LoadMain, LoadSkip, LoadFirstPassEnds, LoadLookUp
<1>2. CASE UNCHANGED loaderVars
  BY <1>2, Zenon DEF loaderVars
<1>3. CASE UNCHANGED vars
  BY <1>2, <1>3, ZenonT(60) DEF vars
<1>4. CASE Next /\ ~ Load
  BY <1>2, <1>4, Zenon
     DEF Next, Job, OtherLocks, OtherUnlocks, TryLock, ClaimRegions, LoadReturns, Handoff, SecurinitMain, Create,
         AskGate, Admin, WrapperCreate, ProbeStart, MapUser, BindHook, UnmapUser, GuestLoad, GuestCall, GuestExit,
         Verify, Stats
<1>5. QED
  BY <1>1, <1>3, <1>4, Zenon

(* The two runs follow one another.                                        *)
LEMMA RunStep == RunInv /\ [Next]_vars => RunInv'
<1> SUFFICES ASSUME RunInv, [Next]_vars PROVE RunInv'
  BY Zenon
<1> USE DEF RunInv, Goto
<1>1. CASE OtherLocks \/ OtherUnlocks \/ GuestLoad \/ GuestCall \/ UNCHANGED vars
  BY <1>1, Zenon DEF OtherLocks, OtherUnlocks, GuestLoad, GuestCall, vars, stage
<1>2. CASE Load
  BY <1>2, Zenon DEF Load, stage
<1>3. CASE TryLock \/ ClaimRegions \/ LoadReturns \/ Stats
  BY <1>3, Zenon DEF TryLock, ClaimRegions, LoadReturns, Stats
<1>4. CASE Handoff \/ SecurinitMain \/ WrapperCreate
  BY <1>4, Zenon DEF Handoff, SecurinitMain, WrapperCreate, Create
<1>5. CASE AskGate
  BY <1>5, Zenon DEF AskGate
<1>6. CASE Admin
  BY <1>6, ZenonT(60) DEF Admin
<1>7. CASE ProbeStart
  BY <1>7 DEF ProbeStart
<1>8. CASE MapUser \/ BindHook \/ UnmapUser
  BY <1>8, Zenon DEF MapUser, BindHook, UnmapUser
<1>9. CASE GuestExit
  BY <1>9, Zenon DEF GuestExit, Runs
<1>10. CASE Verify
  BY <1>10, Zenon DEF Verify
<1>11. QED
  BY <1>1, <1>2, <1>3, <1>4, <1>5, <1>6, <1>7, <1>8, <1>9, <1>10 DEF Next, Job

Mapped == {"map", "bind", "guest", "unmap"}

(* Every step outside the wrapper's run leaves map and TLB alone, and the  *)
(* run begins and ends with the kernel's.                                  *)
LEMMA MapStep == RunInv /\ MapInv /\ [Next]_vars => MapInv'
<1> SUFFICES ASSUME RunInv, MapInv, [Next]_vars PROVE MapInv'
  BY Zenon
<1>0. Kernels' = Kernels /\ Users' = Users
  BY ImageKept, Zenon
<1> USE DEF MapInv, MapRestored, Goto
<1>1. ASSUME map' = map, tlb' = tlb, pc \notin Mapped, pc' \notin Mapped \ {"map"} PROVE MapInv'
  BY <1>0, <1>1, Zenon DEF Mapped
<1>2. ASSUME map' = map, tlb' = tlb, hook' = hook, pc' = pc PROVE MapInv'
  BY <1>0, <1>2, Zenon
<1>3. CASE OtherLocks \/ OtherUnlocks \/ GuestLoad \/ GuestCall \/ UNCHANGED vars
  BY <1>2, <1>3, Zenon DEF OtherLocks, OtherUnlocks, GuestLoad, GuestCall, vars, stage
<1>4. CASE Load
  BY <1>2, <1>4, Zenon DEF Load, stage
<1>5. CASE TryLock \/ ClaimRegions \/ LoadReturns \/ Stats \/ ProbeStart
  BY <1>1, <1>5, Zenon DEF TryLock, ClaimRegions, LoadReturns, Stats, ProbeStart, Mapped
<1>6. CASE Handoff \/ SecurinitMain \/ WrapperCreate
  BY <1>1, <1>6, Zenon DEF Handoff, SecurinitMain, WrapperCreate, Create, Mapped
<1>7. CASE AskGate
  BY <1>1, <1>7 DEF AskGate, Mapped
<1>8. CASE Admin
  BY <1>1, <1>8, Zenon DEF Admin, Mapped
<1>9. CASE Verify
  <2>1. pc' \in {"revoke", "end", "stats"}
    BY <1>9, Zenon DEF Verify, RunInv
  <2>2. QED
    BY <1>1, <1>9, <2>1, Zenon DEF Verify, Mapped
<1>10. CASE MapUser
  <2>1. CASE map # Users
    BY <1>10, <2>1, Zenon DEF MapUser, Write
  <2>2. CASE map = Users
    BY <1>10, <1>0, <2>2, Zenon DEF MapUser
  <2>3. QED
    BY <2>1, <2>2
<1>11. CASE BindHook
  BY <1>11, <1>0, Zenon DEF BindHook
<1>12. CASE GuestExit
  BY <1>12, Zenon DEF GuestExit
<1>13. CASE UnmapUser
  <2>1. CASE map # Kernels
    BY <1>13, <2>1, Zenon DEF UnmapUser, Write
  <2>2. CASE map = Kernels
    BY <1>13, <1>0, <2>2, Zenon DEF UnmapUser
  <2>3. QED
    BY <2>1, <2>2, Zenon
<1>14. QED
  BY <1>3, <1>4, <1>5, <1>6, <1>7, <1>8, <1>9, <1>10, <1>11, <1>12, <1>13, Zenon DEF Next, Job
-----------------------------------------------------------------------------
(* What StatsTellTruth needs: the counters agree with the sink throughout, *)
(* and where the job is tells what both contain.  In the granted run the   *)
(* guest's word is 1 only if its call got through; in the revoked one each *)
(* call that reaches the Gate is denied.                                   *)
Markers == {"boot", "ipc", "denied"}
Answers == {"bad_descriptor", "bad_endpoint", "bounds", "ok", "rejected"}
WrapType == [access : Nat, exits : Nat, denied : Nat, forwarded : Nat, results : Seq(Answers), word : {0, 1}]
Forwards(s) == Cardinality({i \in DOMAIN s : s[i] # "denied"})

CountType ==
    /\ gate \in [allowed : BOOLEAN, denied : Nat, forwarded : Nat]
    /\ sink \in Seq(Markers) /\ failures \in Nat
    /\ wrap \in WrapType

Counts(denied, forwarded) == gate.denied = denied /\ gate.forwarded = forwarded
Shut(denied, forwarded) == ~ gate.allowed /\ Counts(denied, forwarded)
Open(denied, forwarded) == gate.allowed /\ Counts(denied, forwarded)
Reported == failures = 0 => sink = <<"boot", "ipc", "denied">>

(* The first guest run: nothing said yet, or its one message delivered.    *)
FirstRun ==
    /\ gate.allowed
    /\ wrap.forwarded = 0 => Open(1, 1) /\ sink = <<"boot">> /\ wrap.word = 0
    /\ wrap.forwarded = 1 /\ wrap.word = 1 => Open(1, 2) /\ sink = <<"boot", "ipc">>

Early == {"lock", "claim", "load", "handoff", "main", "closed"}
Wrapped == {"map", "bind", "guest", "unmap", "verify"}

(* What the Gate's switch and counters and the sink are at each place.     *)
Placement ==
    /\ pc \in Early => Shut(0, 0) /\ sink = << >>
    /\ pc = "allow" => Shut(1, 0) /\ sink = << >>
    /\ pc = "open" => Open(1, 0) /\ sink = << >>
    /\ pc = "wrap" \/ (pc = "run" /\ run = 0) => Open(1, 1) /\ sink = <<"boot">>
    /\ pc \in Wrapped /\ run = 1 => FirstRun
    /\ pc = "revoke" => Open(1, 2) /\ Reported
    /\ pc = "run" /\ run = 1 => Shut(1, 2) /\ Reported
    /\ pc \in Wrapped /\ run = 2 => Shut(1 + wrap.forwarded, 2) /\ Reported
    /\ pc \in {"stats", "started"} => Shut(2, 2) /\ sink = <<"boot", "ipc", "denied", "denied">>

(* Unless the sink refuses, the Gate counts what reached it, and where the *)
(* job is says how much that is.                                           *)
StatInv == CountType /\ (env.dead # "sink" => gate.forwarded = Forwards(sink) /\ Placement)

(* A report adds one to what the sink counts, and a "denied" nothing.      *)
LEMMA ForwardsAppend ==
    ASSUME NEW A, NEW s \in Seq(A), NEW m \in A
    PROVE  /\ Append(s, m) \in Seq(A)
           /\ Forwards(Append(s, m)) = IF m = "denied" THEN Forwards(s) ELSE Forwards(s) + 1
<1> DEFINE t == Append(s, m)
           S == {i \in DOMAIN s : s[i] # "denied"}
           T == {i \in DOMAIN t : t[i] # "denied"}
<1>1. /\ t \in Seq(A) /\ Len(s) \in Nat /\ DOMAIN s = 1 .. Len(s) /\ DOMAIN t = 1 .. Len(s) + 1
      /\ t[Len(s) + 1] = m /\ \A i \in 1 .. Len(s) : t[i] = s[i]
  <2>1. Len(s) \in Nat /\ DOMAIN s = 1 .. Len(s)
    OBVIOUS
  <2>2. t \in Seq(A) /\ Len(t) = Len(s) + 1
    OBVIOUS
  <2>3. DOMAIN t = 1 .. Len(t)
    BY <2>2
  <2>4. t[Len(s) + 1] = m
    BY <2>1
  <2>5. \A i \in 1 .. Len(s) : t[i] = s[i]
    BY <2>1
  <2> QED
    BY <2>1, <2>2, <2>3, <2>4, <2>5
<1>2. IsFiniteSet(S) /\ Len(s) + 1 \notin S
  <2>1. IsFiniteSet(1 .. Len(s))
    BY <1>1, FS_Interval
  <2>2. S \in SUBSET (1 .. Len(s))
    BY <1>1, Zenon
  <2>3. IsFiniteSet(S)
    BY <2>1, <2>2, FS_Subset, Zenon
  <2>4. Len(s) + 1 \notin 1 .. Len(s)
    BY <1>1
  <2> QED
    BY <2>2, <2>3, <2>4, Zenon
<1>3. T = IF m = "denied" THEN S ELSE S \cup {Len(s) + 1}
  <2> HIDE DEF t
  <2>1. ASSUME NEW i PROVE i \in 1 .. Len(s) + 1 <=> i \in 1 .. Len(s) \/ i = Len(s) + 1
    BY <1>1
  <2> QED
    BY <1>1, <2>1, Zenon
<1>4. Cardinality(S \cup {Len(s) + 1}) = Cardinality(S) + 1
  BY <1>2, FS_AddElement, Zenon
<1> QED
  BY <1>1, <1>3, <1>4, ZenonT(60) DEF Forwards

(* What Append makes of a sequence, by its elements.                       *)
LEMMA Grown ==
    ASSUME NEW A, NEW s \in Seq(A), NEW m \in A, NEW t \in Seq(A),
           Len(t) = Len(s) + 1, \A i \in 1 .. Len(s) : t[i] = s[i], t[Len(s) + 1] = m
    PROVE  Append(s, m) = t
<1>1. Append(s, m) \in Seq(A) /\ Len(Append(s, m)) = Len(t) /\ Len(s) \in Nat
  OBVIOUS
<1>2. \A i \in 1 .. Len(t) : Append(s, m)[i] = t[i]
  OBVIOUS
<1> QED
  BY <1>1, <1>2

(* The sink's contents as they grow.                                       *)
LEMMA SinkGrows ==
    /\ Append(<< >>, "boot") = <<"boot">>
    /\ Append(<<"boot">>, "ipc") = <<"boot", "ipc">>
    /\ Append(<<"boot", "ipc">>, "denied") = <<"boot", "ipc", "denied">>
    /\ Append(<<"boot", "ipc", "denied">>, "denied") = <<"boot", "ipc", "denied", "denied">>
<1>1. Append(<< >>, "boot") = <<"boot">>
  OBVIOUS
<1>2. Append(<<"boot">>, "ipc") = <<"boot", "ipc">>
  <2> DEFINE s == <<"boot">>
             t == <<"boot", "ipc">>
  <2>1. s \in Seq(Markers) /\ t \in Seq(Markers) /\ "ipc" \in Markers
    BY DEF Markers
  <2>2. Len(t) = Len(s) + 1 /\ (\A i \in 1 .. Len(s) : t[i] = s[i]) /\ t[Len(s) + 1] = "ipc"
    OBVIOUS
  <2> HIDE DEF s, t
  <2>3. Append(s, "ipc") = t
    BY <2>1, <2>2, Grown, Zenon
  <2> QED
    BY <2>3, Zenon DEF s, t
<1>3. Append(<<"boot", "ipc">>, "denied") = <<"boot", "ipc", "denied">>
  <2> DEFINE s == <<"boot", "ipc">>
             t == <<"boot", "ipc", "denied">>
  <2>1. s \in Seq(Markers) /\ t \in Seq(Markers) /\ "denied" \in Markers
    BY DEF Markers
  <2>2. Len(t) = Len(s) + 1 /\ (\A i \in 1 .. Len(s) : t[i] = s[i]) /\ t[Len(s) + 1] = "denied"
    OBVIOUS
  <2> HIDE DEF s, t
  <2>3. Append(s, "denied") = t
    BY <2>1, <2>2, Grown, Zenon
  <2> QED
    BY <2>3, Zenon DEF s, t
<1>4. Append(<<"boot", "ipc", "denied">>, "denied") = <<"boot", "ipc", "denied", "denied">>
  <2> DEFINE s == <<"boot", "ipc", "denied">>
             t == <<"boot", "ipc", "denied", "denied">>
  <2>1. s \in Seq(Markers) /\ t \in Seq(Markers) /\ "denied" \in Markers
    BY DEF Markers
  <2>2. Len(t) = Len(s) + 1 /\ (\A i \in 1 .. Len(s) : t[i] = s[i]) /\ t[Len(s) + 1] = "denied"
    OBVIOUS
  <2> HIDE DEF s, t
  <2>3. Append(s, "denied") = t
    BY <2>1, <2>2, Grown, Zenon
  <2> QED
    BY <2>3, Zenon DEF s, t
<1> QED
  BY <1>1, <1>2, <1>3, <1>4

(* A stage that has not asked the Gate yet has heard nothing from it.      *)
LEMMA StatStart == Init => StatInv
<1> SUFFICES ASSUME Init PROVE StatInv
  BY Zenon
<1>1. CountType
  BY DEF Init, CountType, NoWrap, WrapType
<1>2. Placement
  BY Zenon DEF Init, Placement, Shut, Open, Counts, Early, Wrapped
<1>3. Forwards(<< >>) = 0
  <2>1. {i \in DOMAIN << >> : << >>[i] # "denied"} = {}
    OBVIOUS
  <2> QED
    BY <2>1, FS_EmptySet, Zenon DEF Forwards
<1>4. gate.forwarded = Forwards(sink)
  BY <1>3, Zenon DEF Init
<1> QED
  BY <1>1, <1>2, <1>4, Zenon DEF StatInv

(* A step that neither asks the Gate nor runs the guest keeps the books.   *)
Bookless == UNCHANGED <<env, gate, sink, failures>>
LEMMA BooklessStep ==
    ASSUME StatInv, RunInv, Bookless, CountType',
           wrap'.forwarded = wrap.forwarded, wrap'.word = wrap.word,
           \/ pc' = pc /\ run' = run
           \/ pc' = "end"
           \/ pc \in Early /\ pc' \in Early
           \/ pc = "wrap" /\ pc' = "run" /\ run' = run
           \/ pc \in Wrapped /\ pc' \in Wrapped /\ run' = run
           \/ pc = "stats" /\ pc' = "started"
    PROVE  StatInv'
<1>1. (env.dead # "sink" => gate.forwarded = Forwards(sink))'
  BY ZenonT(60) DEF Bookless, StatInv, Forwards
<1>2. ASSUME env.dead # "sink" PROVE Placement'
  <2>1. Placement
    BY <1>2, Zenon DEF StatInv
  <2> QED
    BY <2>1 DEF Bookless, Placement, Shut, Open, Counts, Reported, FirstRun, Early, Wrapped, RunInv
<1> QED
  BY <1>1, <1>2, Zenon DEF StatInv, Bookless

(* What a call of the Gate does to its counters and to the sink.           *)
LEMMA GateEffect ==
    ASSUME CountType, NEW m \in Markers, Gate(m)
    PROVE  /\ gate' \in [allowed : BOOLEAN, denied : Nat, forwarded : Nat] /\ sink' \in Seq(Markers)
           /\ gate'.allowed = gate.allowed
           /\ GateOk => /\ gate'.denied = gate.denied /\ gate'.forwarded = gate.forwarded + 1
                        /\ env.dead # "sink" => sink' = Append(sink, m)
           /\ ~ GateOk => gate'.denied = gate.denied + 1 /\ gate'.forwarded = gate.forwarded /\ sink' = sink
<1>1. gate \in [allowed : BOOLEAN, denied : Nat, forwarded : Nat] /\ sink \in Seq(Markers)
  BY Zenon DEF CountType
<1>2. Append(sink, m) \in Seq(Markers)
  BY <1>1, ForwardsAppend, Zenon
<1>3. CASE GateOk
  <2>1. gate' = [gate EXCEPT !.forwarded = @ + 1] /\ Status(m)
    BY <1>3, Zenon DEF Gate
  <2>2. sink' \in {sink, Append(sink, m)} /\ (env.dead # "sink" => sink' = Append(sink, m))
    BY <2>1, Zenon DEF Status, Alive
  <2>3. gate' \in [allowed : BOOLEAN, denied : Nat, forwarded : Nat]
        /\ gate'.denied = gate.denied /\ gate'.forwarded = gate.forwarded + 1
    BY <1>1, <2>1
  <2>4. gate'.allowed = gate.allowed
    BY <1>1, <2>1, Zenon
  <2> QED
    BY <1>1, <1>2, <1>3, <2>2, <2>3, <2>4, Zenon
<1>4. CASE ~ GateOk
  <2>1. gate' = [gate EXCEPT !.denied = @ + 1] /\ sink' = sink
    BY <1>4, Zenon DEF Gate
  <2>2. gate' \in [allowed : BOOLEAN, denied : Nat, forwarded : Nat]
        /\ gate'.denied = gate.denied + 1 /\ gate'.forwarded = gate.forwarded
    BY <1>1, <2>1
  <2>3. gate'.allowed = gate.allowed
    BY <1>1, <2>1, Zenon
  <2> QED
    BY <1>1, <1>4, <2>1, <2>2, <2>3, Zenon
<1> QED
  BY <1>3, <1>4, Zenon

(* The Gate counts a call as forwarded exactly if the sink gets it.        *)
LEMMA GateCounts ==
    ASSUME CountType, NEW m \in Markers, m # "denied", Gate(m), env.dead # "sink",
           gate.forwarded = Forwards(sink)
    PROVE  gate'.forwarded = Forwards(sink')
<1>1. CASE GateOk
  <2>1. gate'.forwarded = gate.forwarded + 1 /\ sink' = Append(sink, m)
    BY <1>1, GateEffect, Zenon
  <2>2. Forwards(sink') = Forwards(sink) + 1
    BY <2>1, ForwardsAppend DEF CountType
  <2> QED
    BY <2>1, <2>2, Zenon
<1>2. CASE ~ GateOk
  BY <1>2, GateEffect, Zenon
<1> QED
  BY <1>1, <1>2, Zenon

(* securinit_main asks the Gate while it is closed and once it is open.    *)
LEMMA AskStep ==
    ASSUME StatInv, AskGate PROVE StatInv'
<1>1. CountType /\ UNCHANGED <<env, wrap, failures, run>> /\ pc \in {"closed", "open"}
  BY Zenon DEF StatInv, AskGate
<1>2. CASE ~ Alive("gate")
  <2>1. pc' = "end" /\ UNCHANGED <<gate, sink>>
    BY <1>2, Zenon DEF AskGate, Goto
  <2> QED
    BY <1>1, <2>1, Zenon DEF StatInv, CountType, Forwards, Placement, Early, Wrapped
<1>3. CASE Alive("gate")
  <2>1. Gate("boot") /\ "boot" \in Markers /\ pc' = (IF GateOk # (pc = "open") THEN "end" ELSE IF pc = "closed" THEN "allow" ELSE "wrap")
    BY <1>3, Zenon DEF AskGate, Goto, Markers
  <2>2. CountType'
    <3>1. gate' \in [allowed : BOOLEAN, denied : Nat, forwarded : Nat] /\ sink' \in Seq(Markers)
      BY <1>1, <2>1, GateEffect, Zenon
    <3> QED
      BY <1>1, <3>1, Zenon DEF CountType
  <2>3. ASSUME env.dead # "sink" PROVE gate'.forwarded = Forwards(sink') /\ Placement'
    <3>1. gate'.forwarded = Forwards(sink')
      <4>1. gate.forwarded = Forwards(sink)
        BY <2>3, Zenon DEF StatInv
      <4> QED
        BY <1>1, <2>1, <2>3, <4>1, GateCounts
    <3>2. CASE pc' = "end"
      BY <3>1, <3>2, Zenon DEF Placement, Early, Wrapped
    <3>3. CASE pc = "closed" /\ pc' = "allow"
      <4>1. Shut(0, 0) /\ sink = << >>
        BY <2>3, <3>3, Zenon DEF StatInv, Placement, Early
      <4>2. ~ GateOk
        BY <4>1, Zenon DEF GateOk, Shut
      <4>3. gate'.allowed = gate.allowed /\ gate'.denied = gate.denied + 1 /\ gate'.forwarded = gate.forwarded
            /\ sink' = sink
        BY <1>1, <2>1, <4>2, GateEffect
      <4>4. Shut(1, 0)' /\ sink' = << >>
        BY <4>1, <4>3 DEF Shut, Counts
      <4> QED
        BY <3>1, <3>3, <4>4, Zenon DEF Placement, Early, Wrapped
    <3>4. CASE pc = "open" /\ pc' = "wrap"
      <4>1. Open(1, 0) /\ sink = << >> /\ GateOk
        BY <2>1, <2>3, <3>4, Zenon DEF StatInv, Placement
      <4>2. gate'.allowed = gate.allowed /\ gate'.denied = gate.denied /\ gate'.forwarded = gate.forwarded + 1
            /\ sink' = Append(sink, "boot")
        BY <1>1, <2>1, <2>3, <4>1, GateEffect
      <4>3. Open(1, 1)' /\ sink' = <<"boot">>
        BY <4>1, <4>2, SinkGrows DEF Open, Counts
      <4> QED
        BY <3>1, <3>4, <4>3, Zenon DEF Placement, Early, Wrapped
    <3> QED
      BY <1>1, <2>1, <3>2, <3>3, <3>4
  <2> QED
    BY <1>1, <2>2, <2>3, Zenon DEF StatInv
<1> QED
  BY <1>2, <1>3, Zenon

(* Admin opens the Gate before the first run and closes it after.          *)
LEMMA AdminStep ==
    ASSUME StatInv, RunInv, Admin PROVE StatInv'
<1>1. CountType /\ UNCHANGED <<env, sink, wrap, failures, run>> /\ pc \in {"allow", "revoke"}
  BY Zenon DEF StatInv, Admin
<1>2. CASE ~ Alive("admin")
  <2>1. pc' = "end" /\ UNCHANGED gate
    BY <1>2, Zenon DEF Admin, Goto
  <2> QED
    BY <1>1, <2>1, Zenon DEF StatInv, CountType, Forwards, Placement, Early, Wrapped
<1>3. CASE Alive("admin")
  <2>1. gate' = [gate EXCEPT !.allowed = pc = "allow"] /\ pc' = IF pc = "allow" THEN "open" ELSE "run"
    BY <1>3, Zenon DEF Admin, Goto
  <2>2. CountType' /\ gate'.forwarded = gate.forwarded /\ gate'.denied = gate.denied
    BY <1>1, <2>1, Zenon DEF CountType
  <2>4. gate'.allowed = (pc = "allow")
    BY <1>1, <2>1, Zenon DEF CountType
  <2>3. ASSUME env.dead # "sink" PROVE gate'.forwarded = Forwards(sink)' /\ Placement'
    <3>1. gate'.forwarded = Forwards(sink)'
      BY <1>1, <2>2, <2>3, Zenon DEF StatInv
    <3>2. CASE pc = "allow"
      <4>1. Shut(1, 0) /\ sink = << >>
        BY <2>3, <3>2, Zenon DEF StatInv, Placement
      <4>2. Open(1, 0)' /\ sink' = << >>
        BY <1>1, <2>2, <2>4, <3>2, <4>1, Zenon DEF Shut, Open, Counts
      <4> QED
        BY <2>1, <3>1, <3>2, <4>2, Zenon DEF Placement, Early, Wrapped
    <3>3. CASE pc = "revoke"
      <4>1. Open(1, 2) /\ Reported /\ run = 1
        BY <2>3, <3>3, Zenon DEF StatInv, Placement, RunInv
      <4>2. Shut(1, 2)' /\ Reported'
        BY <1>1, <2>2, <2>4, <3>3, <4>1, Zenon DEF Shut, Open, Counts, Reported
      <4> QED
        BY <1>1, <2>1, <3>1, <3>3, <4>1, <4>2 DEF Placement, Early, Wrapped
    <3> QED
      BY <1>1, <3>1, <3>2, <3>3
  <2> QED
    BY <1>1, <2>2, <2>3, Zenon DEF StatInv
<1> QED
  BY <1>2, <1>3, Zenon

(* A run of the guest begins with the wrapper's counters at zero.          *)
LEMMA ProbeStep ==
    ASSUME StatInv, RunInv, ProbeStart PROVE StatInv'
<1>1. CountType /\ UNCHANGED <<env, gate, sink>> /\ pc = "run" /\ run' = run + 1 /\ run \in {0, 1}
      /\ wrap' = NoWrap /\ (failures' = failures \/ pc' = "end") /\ failures' \in {failures, failures + 1}
      /\ pc' \in {"end", "map"}
  BY Zenon DEF StatInv, ProbeStart, Goto, RunInv
<1>2. NoWrap \in WrapType
      /\ NoWrap.forwarded = 0 /\ NoWrap.word = 0
  BY DEF NoWrap, WrapType
<1>3. CountType'
  BY <1>1, <1>2 DEF CountType
<1>4. ASSUME env.dead # "sink" PROVE gate'.forwarded = Forwards(sink)' /\ Placement'
  <2>1. gate'.forwarded = Forwards(sink)' /\ Placement
    BY <1>1, <1>4, Zenon DEF StatInv
  <2>2. CASE pc' = "end"
    BY <2>1, <2>2, Zenon DEF Placement, Early, Wrapped
  <2>3. CASE pc' = "map" /\ run = 0
    <3>1. Open(1, 1) /\ sink = <<"boot">>
      BY <1>1, <2>1, <2>3, Zenon DEF Placement
    <3>2. FirstRun'
      BY <1>1, <1>2, <3>1 DEF FirstRun, Shut, Open, Counts
    <3> QED
      BY <1>1, <2>1, <2>3, <3>2 DEF Placement, Early, Wrapped
  <2>4. CASE pc' = "map" /\ run = 1
    <3>1. Shut(1, 2) /\ Reported /\ failures' = failures
      BY <1>1, <2>1, <2>4, Zenon DEF Placement
    <3>2. Shut(1 + wrap.forwarded, 2)' /\ Reported'
      BY <1>1, <1>2, <3>1 DEF Shut, Open, Counts, Reported
    <3> QED
      BY <1>1, <2>1, <2>4, <3>2 DEF Placement, Early, Wrapped
  <2> QED
    BY <1>1, <2>1, <2>2, <2>3, <2>4, Zenon
<1> QED
  BY <1>1, <1>3, <1>4 DEF StatInv

(* What a change of the wrapper's record leaves alone.                     *)
LEMMA WrapFields ==
    ASSUME NEW w \in WrapType
    PROVE  /\ \A s \in Seq(Answers) : LET v == [w EXCEPT !.results = s]
              IN  v \in WrapType /\ v.forwarded = w.forwarded /\ v.word = w.word /\ v.denied = w.denied
           /\ \A n \in Nat, b \in {0, 1} : LET v == [w EXCEPT !.forwarded = n, !.word = b]
              IN  v \in WrapType /\ v.forwarded = n /\ v.word = b
           /\ \A n \in Nat : LET v == [w EXCEPT !.access = n]
              IN  v \in WrapType /\ v.forwarded = w.forwarded /\ v.word = w.word
           /\ \A n \in Nat : LET v == [w EXCEPT !.exits = n]
              IN  v \in WrapType /\ v.forwarded = w.forwarded /\ v.word = w.word
BY Zenon DEF WrapType

(* A call of the guest that the wrapper passes on is counted by both.      *)
LEMMA CallStep ==
    ASSUME StatInv, RunInv, GuestCall PROVE StatInv'
<1> DEFINE status == CheckCall(Call(Instr))
           after  == [wrap EXCEPT !.results = Append(@, status)]
<1>1. CountType /\ UNCHANGED <<env, failures, run, pc>> /\ pc = "guest" /\ run \in {1, 2}
  BY Zenon DEF StatInv, GuestCall, Runs, RunInv
<1>2. status \in Answers
  BY Zenon DEF CheckCall, Answers
<1>3. after \in WrapType
      /\ after.forwarded = wrap.forwarded /\ after.word = wrap.word
  <2>1. wrap \in WrapType
    BY <1>1, Zenon DEF CountType
  <2> HIDE DEF status
  <2>2. wrap.results \in Seq(Answers)
    BY <2>1, Zenon DEF WrapType
  <2>3. Append(wrap.results, status) \in Seq(Answers)
    BY <1>2, <2>2
  <2> QED
    BY <2>1, <2>3, WrapFields, Zenon
<1>4. CASE status # "ok"
  <2>1. UNCHANGED <<gate, sink>> /\ wrap' = [after EXCEPT !.denied = @ + 1]
    BY <1>4, Zenon DEF GuestCall
  <2>2. wrap' \in WrapType
        /\ wrap'.forwarded = wrap.forwarded /\ wrap'.word = wrap.word
    <3> HIDE DEF after
    <3> QED
      BY <1>3, <2>1 DEF WrapType
  <2>3. CountType'
    BY <1>1, <2>1, <2>2, Zenon DEF CountType
  <2>4. Bookless
    BY <1>1, <2>1, Zenon DEF Bookless
  <2> QED
    BY <1>1, <2>2, <2>3, <2>4, BooklessStep
<1>5. CASE status = "ok"
  <2>1. Gate("ipc") /\ "ipc" \in Markers /\ wrap' = [after EXCEPT !.forwarded = @ + 1, !.word = IF GateOk THEN 1 ELSE 0]
    BY <1>5, Zenon DEF GuestCall, Markers
  <2>2. wrap' \in WrapType
        /\ wrap'.forwarded = wrap.forwarded + 1 /\ wrap'.word = (IF GateOk THEN 1 ELSE 0)
    <3> DEFINE word == IF GateOk THEN 1 ELSE 0
    <3>1. word \in {0, 1} /\ wrap' = [after EXCEPT !.forwarded = @ + 1, !.word = word]
      BY <2>1, Zenon
    <3> HIDE DEF after, word
    <3>2. wrap' \in WrapType
          /\ wrap'.forwarded = wrap.forwarded + 1 /\ wrap'.word = word
      <4>1. after.forwarded + 1 \in Nat
        BY <1>3 DEF WrapType
      <4>2. wrap' \in WrapType /\ wrap'.forwarded = after.forwarded + 1 /\ wrap'.word = word
        BY <1>3, <3>1, <4>1, WrapFields, ZenonT(60)
      <4> QED
        BY <1>3, <4>2, Zenon
    <3> QED
      BY <3>2, Zenon DEF word
  <2>3. CountType'
    <3>1. gate' \in [allowed : BOOLEAN, denied : Nat, forwarded : Nat] /\ sink' \in Seq(Markers)
      BY <1>1, <2>1, GateEffect, Zenon
    <3> QED
      BY <1>1, <2>2, <3>1, Zenon DEF CountType
  <2>4. ASSUME env.dead # "sink" PROVE gate'.forwarded = Forwards(sink') /\ Placement'
    <3>1. gate'.forwarded = Forwards(sink') /\ Placement
      <4>1. gate.forwarded = Forwards(sink) /\ Placement
        BY <2>4, Zenon DEF StatInv
      <4> QED
        BY <1>1, <2>1, <2>4, <4>1, GateCounts, Zenon
    <3>2. wrap.forwarded \in Nat /\ wrap.word \in {0, 1}
      BY <1>1, Zenon DEF CountType, WrapType
    <3>3. CASE run = 1
      <4>1. FirstRun
        BY <1>1, <3>1, <3>3, Zenon DEF Placement, Wrapped
      <4>2. gate'.allowed
        BY <1>1, <2>1, <4>1, GateEffect, Zenon DEF FirstRun
      <4>3. wrap'.forwarded # 0
        BY <2>2, <3>2
      <4>4. ASSUME wrap'.forwarded = 1, wrap'.word = 1
            PROVE  Open(1, 2)' /\ sink' = <<"boot", "ipc">>
        <5>1. wrap.forwarded = 0 /\ GateOk
          BY <2>2, <3>2, <4>4
        <5>2. Open(1, 1) /\ sink = <<"boot">>
          BY <4>1, <5>1, Zenon DEF FirstRun
        <5>3. gate'.allowed = gate.allowed /\ gate'.denied = gate.denied /\ gate'.forwarded = gate.forwarded + 1
              /\ sink' = Append(sink, "ipc")
          BY <1>1, <2>1, <2>4, <5>1, GateEffect
        <5> QED
          BY <5>2, <5>3, SinkGrows DEF Open, Counts
      <4>5. FirstRun'
        BY <4>2, <4>3, <4>4 DEF FirstRun
      <4> QED
        BY <1>1, <3>1, <3>3, <4>5 DEF Placement, Early, Wrapped
    <3>4. CASE run = 2
      <4>1. Shut(1 + wrap.forwarded, 2) /\ Reported
        BY <1>1, <3>1, <3>4 DEF Placement, Wrapped
      <4>2. ~ GateOk
        BY <4>1, Zenon DEF GateOk, Shut
      <4>3. gate'.allowed = gate.allowed /\ gate'.denied = gate.denied + 1 /\ gate'.forwarded = gate.forwarded
            /\ sink' = sink
        BY <1>1, <2>1, <4>2, GateEffect
      <4>4. Shut(1 + wrap.forwarded, 2)' /\ Reported'
        BY <1>1, <2>2, <3>2, <4>1, <4>3 DEF Shut, Counts, Reported
      <4> QED
        BY <1>1, <3>1, <3>4, <4>4 DEF Placement, Early, Wrapped
    <3> QED
      BY <1>1, <3>1, <3>3, <3>4, Zenon
  <2> QED
    BY <1>1, <2>3, <2>4, Zenon DEF StatInv
<1> QED
  BY <1>4, <1>5, Zenon

(* A run that went as it must is reported, and securinit_main goes on only *)
(* if the guest's call got through when granted and did not when revoked.  *)
LEMMA VerifyStep ==
    ASSUME StatInv, RunInv, Verify PROVE StatInv'
<1>1. CountType /\ UNCHANGED <<env, gate, wrap, run>> /\ pc = "verify" /\ run \in {1, 2}
  BY Zenon DEF StatInv, Verify, RunInv
<1>2. \/ Valid /\ Alive("status") /\ Status("denied") /\ failures' = failures
      \/ ~ (Valid /\ Alive("status")) /\ failures' = failures + 1 /\ sink' = sink
  BY Zenon DEF Verify
<1>3. failures \in Nat /\ sink \in Seq(Markers)
  BY <1>1, Zenon DEF CountType
<1>4. sink' \in Seq(Markers) /\ Forwards(sink') = Forwards(sink)
  <2>1. sink' = sink \/ sink' = Append(sink, "denied")
    BY <1>2, Zenon DEF Status
  <2> QED
    <3>1. "denied" \in Markers
      BY Zenon DEF Markers
    <3>2. Append(sink, "denied") \in Seq(Markers) /\ Forwards(Append(sink, "denied")) = Forwards(sink)
      BY <1>3, <3>1, ForwardsAppend, Zenon
    <3> QED
      BY <1>3, <2>1, <3>2, Zenon
<1>5. CountType'
  BY <1>1, <1>2, <1>3, <1>4 DEF CountType
<1>6. \/ pc' = "end"
      \/ run = 1 /\ pc' = "revoke" /\ Valid /\ wrap.word = 1
      \/ run = 2 /\ pc' = "stats" /\ failures' = 0
  BY <1>1 DEF Verify, Goto
<1>7. ASSUME env.dead # "sink" PROVE gate'.forwarded = Forwards(sink') /\ Placement'
  <2>1. gate'.forwarded = Forwards(sink') /\ Placement
    BY <1>1, <1>4, <1>7, Zenon DEF StatInv
  <2>2. Valid /\ Alive("status") => sink' = Append(sink, "denied")
    BY <1>2, <1>7, Zenon DEF Status, Alive
  <2>3. CASE pc' = "end"
    BY <2>1, <2>3, Zenon DEF Placement, Early, Wrapped
  <2>4. CASE run = 1 /\ pc' = "revoke" /\ Valid /\ wrap.word = 1
    <3>1. wrap.forwarded = 1 /\ FirstRun
      BY <1>1, <2>1, <2>4 DEF Valid, Placement, Wrapped
    <3>2. Open(1, 2) /\ sink = <<"boot", "ipc">>
      BY <2>4, <3>1, Zenon DEF FirstRun
    <3>3. Reported'
      BY <1>2, <1>3, <2>2, <2>4, <3>2, SinkGrows DEF Reported
    <3>4. Open(1, 2)'
      BY <1>1, <3>2, Zenon DEF Shut, Open, Counts
    <3> QED
      BY <2>1, <2>4, <3>3, <3>4 DEF Placement, Early, Wrapped
  <2>5. CASE run = 2 /\ pc' = "stats" /\ failures' = 0
    <3>1. Valid /\ Alive("status") /\ failures = 0
      BY <1>2, <1>3, <2>5
    <3>2. Shut(1 + wrap.forwarded, 2) /\ sink = <<"boot", "ipc", "denied">> /\ wrap.forwarded = 1
      BY <1>1, <2>1, <2>5, <3>1 DEF Placement, Wrapped, Reported, Valid
    <3>3. Shut(2, 2)' /\ sink' = <<"boot", "ipc", "denied", "denied">>
      BY <1>1, <2>2, <3>1, <3>2, SinkGrows DEF Shut, Open, Counts
    <3> QED
      BY <2>1, <2>5, <3>3 DEF Placement, Early, Wrapped
  <2> QED
    BY <1>6, <2>1, <2>3, <2>4, <2>5, Zenon
<1> QED
  BY <1>1, <1>5, <1>7 DEF StatInv

(* Every step of the job and of its neighbours keeps the books.            *)
LEMMA StatStep == StatInv /\ RunInv /\ [Next]_vars => StatInv'
<1> SUFFICES ASSUME StatInv, RunInv, [Next]_vars PROVE StatInv'
  BY Zenon
<1>1. CountType
  BY Zenon DEF StatInv
<1>2. ASSUME Bookless, wrap' = wrap,
             \/ pc' = pc /\ run' = run
             \/ pc' = "end"
             \/ pc \in Early /\ pc' \in Early
             \/ pc = "wrap" /\ pc' = "run" /\ run' = run
             \/ pc \in Wrapped /\ pc' \in Wrapped /\ run' = run
             \/ pc = "stats" /\ pc' = "started"
      PROVE  StatInv'
  <2>1. CountType'
    BY <1>1, <1>2, Zenon DEF CountType, Bookless
  <2> QED
    BY <1>2, <2>1, BooklessStep
<1>3. CASE OtherLocks \/ OtherUnlocks
  BY <1>2, <1>3, Zenon DEF OtherLocks, OtherUnlocks, Bookless
<1>4. CASE UNCHANGED vars \/ Load
  BY <1>2, <1>4, Zenon DEF vars, stage, Load, Bookless
<1>5. CASE TryLock \/ ClaimRegions \/ LoadReturns
  BY <1>2, <1>5, Zenon DEF TryLock, ClaimRegions, LoadReturns, Goto, Bookless, Early
<1>6. CASE Handoff \/ SecurinitMain
  BY <1>2, <1>6, Zenon DEF Handoff, SecurinitMain, Create, Goto, Bookless, Early
<1>7. CASE WrapperCreate
  BY <1>2, <1>7, Zenon DEF WrapperCreate, Create, Goto, Bookless
<1>8. CASE MapUser \/ UnmapUser
  BY <1>2, <1>8, Zenon DEF MapUser, UnmapUser, Goto, Bookless, Wrapped
<1>9. CASE BindHook
  BY <1>2, <1>9, Zenon DEF BindHook, Goto, Bookless, Wrapped
<1>10. CASE Stats
  BY <1>2, <1>10, Zenon DEF Stats, Goto, Bookless
<1>11. CASE GuestLoad \/ GuestExit
  <2>1. Bookless /\ run' = run /\ pc \in Wrapped /\ pc' \in Wrapped
    BY <1>11, Zenon DEF GuestLoad, GuestExit, Runs, Goto, Bookless, Wrapped
  <2>2. wrap' = [wrap EXCEPT !.access = @ + 1] \/ wrap' = [wrap EXCEPT !.exits = @ + 1]
    BY <1>11, Zenon DEF GuestLoad, GuestExit
  <2>3. wrap' \in WrapType
        /\ wrap'.forwarded = wrap.forwarded /\ wrap'.word = wrap.word
    <3>1. wrap \in WrapType
      BY <1>1, Zenon DEF CountType
    <3>2. wrap.access + 1 \in Nat /\ wrap.exits + 1 \in Nat
      BY <3>1 DEF WrapType
    <3>3. CASE wrap' = [wrap EXCEPT !.access = @ + 1]
      BY <3>1, <3>2, <3>3, WrapFields, Zenon
    <3>4. CASE wrap' = [wrap EXCEPT !.exits = @ + 1]
      BY <3>1, <3>2, <3>4, WrapFields, Zenon
    <3> QED
      BY <2>2, <3>3, <3>4
  <2>4. CountType'
    BY <1>1, <2>1, <2>3 DEF CountType, Bookless
  <2> QED
    BY <2>1, <2>3, <2>4, BooklessStep
<1>12. QED
  BY <1>3, <1>4, <1>5, <1>6, <1>7, <1>8, <1>9, <1>10, <1>11, AskStep, AdminStep, ProbeStep, CallStep, VerifyStep
     DEF Next, Job
-----------------------------------------------------------------------------
(* The kernel's page tables and a clean TLB are back after every run of a  *)
(* guest, on the paths where the router refuses the callback too, and the  *)
(* guest runs only behind its own tables, for every image and environment  *)
(* (securinit_arm_isolation_probe, securinit_x86_isolation_probe).         *)
THEOREM MapRestoredAlways == Spec => []MapRestored
<1>1. Init => RunInv /\ MapInv
  BY Zenon DEF Init, RunInv, MapInv, MapRestored
<1>2. MapInv => MapRestored
  BY Zenon DEF MapInv
<1>3. QED
  BY <1>1, <1>2, RunStep, MapStep, PTL DEF Spec

(* No other step of securinit's start touches what the loader works on     *)
(* (job_securinit_boot, stage_load_macho).                                 *)
LEMMA JobLoads == Spec => LoadSpec
<1>1. Init => LoadInit
  BY Zenon DEF Init
<1>2. [Next]_vars => [LoadNext]_loaderVars
  <2> SUFFICES ASSUME [Next]_vars, ~ UNCHANGED loaderVars PROVE LoadNext
    BY Zenon
  <2>1. CASE UNCHANGED vars
    BY <2>1 DEF vars
  <2>2. CASE Next
    BY <2>2, Zenon
       DEF Next, Job, Load, OtherLocks, OtherUnlocks, TryLock, ClaimRegions, LoadReturns, Handoff, SecurinitMain,
           Create, AskGate, Admin, WrapperCreate, ProbeStart, MapUser, BindHook, UnmapUser, GuestLoad, GuestCall,
           GuestExit, Verify, Stats
  <2>3. QED
    BY <2>1, <2>2, Zenon
<1>3. QED
  BY <1>1, <1>2, PTL DEF Spec, LoadSpec

(* In the job as in the loader alone, nothing outside the stage's region   *)
(* is written.                                                             *)
THEOREM JobStaysInside == Spec => []StaysInside
BY JobLoads, LoaderStaysInside, PTL

(* And the stage that the job starts is the image's, whole: what is jumped *)
(* to is the byte LC_MAIN names.                                           *)
THEOREM JobLoadsExactly == Spec => []LoadedExact
BY JobLoads, LoaderExact, PTL
(* The Gate's counters tell what reached coreinit's sink, and a stage that *)
(* starts was denied twice and forwarded twice, whichever object but the   *)
(* sink the kernel refuses to invoke and however many the factory makes    *)
(* (gate_handler, securinit_main, wrapped_handler).                        *)
THEOREM StatsTellTruthAlways == Spec => []StatsTellTruth
<1>1. Init => RunInv
  BY Zenon DEF Init, RunInv
<1>2. StatInv => StatsTellTruth
  BY Zenon DEF StatInv, Placement, Shut, Open, Counts, Forwards, StatsTellTruth
<1>3. QED
  BY <1>1, <1>2, StatStart, RunStep, StatStep, PTL DEF Spec
=============================================================================
