----------------------------- MODULE BootProofs -----------------------------
(***************************************************************************)
(* Proofs about Boot, for any number of cores and every machine: a core    *)
(* enters coreinit_main with its own handoff, interrupts are configured by *)
(* one core at a time, and the proxies of a core that has an image of its  *)
(* own keep their targets.                                                 *)
(*                                                                         *)
(* Most steps are steps of one core that leave the bring-up loop's         *)
(* variables alone (Aside), so the invariant is shown to survive those by  *)
(* the kind of step (QuietStep, OutsideStep) and only the steps of the     *)
(* bring-up loop and of a core that comes out of reset one by one.         *)
(***************************************************************************)
EXTENDS Boot, TLAPS

EarlyLabels == {"start", "topo", "topo.fill", "proxies", "services", "scheduler", "early", "join"}
IrqLabels == {"irq.clear", "irq.load", "irq.mask", "irq.unmask", "irq.route", "irq.redist", "irq.enable"}
LateLabels == {"timer", "timer.arm", "unlock", "signal", "send", "test", "test.wfi"}
SmpLabels == {"smp.record", "smp.params", "smp.greet", "smp.on", "smp.init", "smp.sipi", "smp.sipi2"}
ResetLabels == {"reset", "trampoline", "trampoline.jump"}

Handles == {"mutex", "sched", "serial"}

Local == [ret : {"none", "topo", "join", "unlock", "cal", "timer"}, spins : Nat, cal : BOOLEAN,
          verdict : {"none", "pass", "fail"}, greeted : BOOLEAN, region : Nat, stack : Nat, handle : [Handles -> Nat]]

CpuState == [state : BOOLEAN, on : BOOLEAN, ready : BOOLEAN, enabled : SUBSET {"timer", "signal"},
             armed : BOOLEAN, storm : BOOLEAN, signal : BOOLEAN, seen : BOOLEAN]

Statics == [count : {0, Len(hw.order)}, used : SUBSET Slots,
            slot : [Slots -> {"none", "routed", "local"} \X {"none", "mutex", "sched", "serial"}]]

BootType ==
    /\ hw \in Machines /\ cpu \in [Cores -> CpuState]
    /\ DOMAIN pc = Cores /\ me \in [Cores -> Local] /\ DOMAIN icr = Cores
    /\ DOMAIN image = Cores
    /\ \A c \in Cores : image[c] \in Statics
    /\ smp \in [next : Nat \ {0}, region : Nat, heap : Int, slices : Int]
    /\ DOMAIN record = 0 .. Len(hw.order)
    /\ params \in [stack : Nat, region : Nat]
    /\ DOMAIN jobs = Cores
    /\ inside \in [{HwMutex} -> SUBSET Cores]

(* A core that is off or in reset takes no interrupts.                     *)
Quiet == \A a \in Aps : pc[a] \in ResetLabels \cup {"off"} => ~ cpu[a].on

(* The boot core has not yet joined the cluster.  Until then it is alone.  *)
FirstRet == IF X86 THEN "topo" ELSE "join"
Booting == pc[Bsp] \in EarlyLabels \/ (Configures(Bsp) /\ me[Bsp].ret = FirstRet)

Started(k) == k \in {"init", "sipi1", "sipi2"}

(* Only the boot core sends to others, and it does not go on before an     *)
(* INIT is delivered.                                                      *)
Messages ==
    /\ \A c \in Cores : Started(icr[c].kind) => c = Bsp /\ icr[c].to \in Aps
    /\ icr[Bsp].kind = "init" => pc[Bsp] \in {"smp.sipi", "fault"}

(* A core configures its interrupts inside the mutex, or alone.            *)
Excluded ==
    /\ \A c, d \in inside[HwMutex] : c = d
    /\ \A c \in Cores : Configures(c) => c \in inside[HwMutex] \/ (c = Bsp /\ Booting)
    /\ \A a \in Aps : pc[a] # "early" /\ (Configures(a) => me[a].ret = "unlock")
    /\ Configures(Bsp) => me[Bsp].ret \in {FirstRet, IF X86 THEN "cal" ELSE "timer"}
    /\ pc[Bsp] = "cal" => X86 /\ me[Bsp].ret = "cal"
    /\ pc[Bsp] \notin ResetLabels \cup {"off"}
    /\ Booting => /\ inside[HwMutex] = {} /\ \A a \in Aps : pc[a] = "off"
                  /\ "smp" \notin jobs[Bsp] /\ ~ Started(icr[Bsp].kind)

(* The boot core of an x86_64 machine calibrates before it starts a core.  *)
Calibrated ==
    /\ ~ X86 => ~ me[Bsp].cal
    /\ X86 /\ pc[Bsp] \in LateLabels \cup SmpLabels \cup {"smp", "smp.next"} => me[Bsp].cal
    /\ X86 /\ pc[Bsp] \in {"run", "idle"} /\ "smp" \in jobs[Bsp] => me[Bsp].cal \/ "timer" \in jobs[Bsp]

(* A region is taken for each entry at most, and none twice.  A record     *)
(* that was given to a core is not written again.                          *)
Full(a) == [owner |-> a, services |-> TRUE, cal |-> X86, state |-> ~ X86]

Given(r, a) == r \in 1 .. smp.region /\ (pc[Bsp] = "smp.record" => r # smp.region) /\ record[r] = Full(a)

Coming(a) == pc[a] \in ResetLabels \/ (icr[Bsp].kind = "init" /\ icr[Bsp].to = a)

Regions ==
    /\ smp.region <= smp.next /\ (pc[Bsp] \notin SmpLabels \cup {"fault"} => smp.region < smp.next)
    /\ pc[Bsp] \in SmpLabels => smp.next \in DOMAIN hw.order /\ Entry.core \in Aps /\ smp.region # 0
    /\ pc[Bsp] \in SmpLabels \ {"smp.record"} => record[smp.region] = Full(Entry.core)
    /\ pc[Bsp] = "smp.init" \/ (pc[Bsp] = "smp.greet" /\ X86)
          => params = [stack |-> smp.region, region |-> smp.region]

Handoffs ==
    \A a \in Aps :
        /\ Coming(a) => params.stack = params.region /\ Given(params.region, a)
        /\ pc[a] = "trampoline.jump" => me[a].stack = params.stack
        /\ Running(a) => me[a].stack = me[a].region /\ Given(me[a].region, a)

BootInv == BootType /\ Quiet /\ Messages /\ Excluded /\ Calibrated /\ Regions /\ Handoffs

(* With an image of its own a core makes its proxies in a fixed order, so  *)
(* each of them has a fixed slot, even if the core is started again.       *)
Rank(c, s) == IF s = "mutex" THEN (IF c = Bsp THEN 0 ELSE 1)
              ELSE IF s = "sched" THEN (IF c = Bsp THEN 1 ELSE 2)
              ELSE (IF c = Bsp THEN 2 ELSE 3)

Made(c) == IF pc[c] = "services" THEN 0
           ELSE IF pc[c] = "scheduler" THEN (IF c = Bsp THEN 0 ELSE 1)
           ELSE IF c # Bsp THEN 2 ELSE IF hw.net THEN 1 ELSE 0

Staged(c) ==
    \/ pc[c] \in {"services", "scheduler", "early", "join"}
    \/ X86 /\ pc[c] \in {"topo", "topo.fill"}
    \/ c = Bsp /\ Booting /\ Configures(c)

OwnProxies(c) ==
    /\ \A s \in Handles : me[c].handle[s] # 0 =>
         /\ me[c].handle[s] = Rank(c, s) /\ me[c].handle[s] \in Slots
         /\ image[c].slot[me[c].handle[s]] = Target(c, s)
    /\ Staged(c) => image[c].used = 1 .. Made(c) \cap Slots

OwnImages == hw.image # "shared"

ProxyInv == OwnImages => \A c \in Cores : OwnProxies(c)
-----------------------------------------------------------------------------
(* A step of one core.                                                     *)
Only(c) ==
    /\ hw' = hw
    /\ cpu' \in [Cores -> CpuState] /\ DOMAIN pc' = Cores /\ me' \in [Cores -> Local]
    /\ \A d \in Cores \ {c} : pc'[d] = pc[d] /\ me'[d] = me[d] /\ cpu'[d] = cpu[d]

(* Moving one core's program counter (Goto).                               *)
LEMMA Going ==
    ASSUME BootType, NEW c \in Cores, NEW l, Goto(c, l)
    PROVE  DOMAIN pc' = Cores /\ pc'[c] = l /\ \A d \in Cores \ {c} : pc'[d] = pc[d]
BY Zenon DEF BootType, Goto

(* Writing the locals of one core (Set).                                   *)
LEMMA Setting ==
    ASSUME BootType, NEW c \in Cores, NEW r \in Local, Set(c, r)
    PROVE  me' \in [Cores -> Local] /\ me'[c] = r /\ \A d \in Cores \ {c} : me'[d] = me[d]
BY Zenon DEF BootType, Set

(* Writing the interrupt state of one core (Cpu).                          *)
LEMMA Changing ==
    ASSUME BootType, NEW c \in Cores, NEW s \in CpuState, Cpu(c, s)
    PROVE  cpu' \in [Cores -> CpuState] /\ cpu'[c] = s /\ \A d \in Cores \ {c} : cpu'[d] = cpu[d]
BY Zenon DEF BootType, Cpu

(* The values a core's registers take.                                     *)
LEMMA CpuValues ==
    ASSUME NEW s \in CpuState
    PROVE  /\ \A x \in BOOLEAN : /\ [s EXCEPT !.state = x] \in CpuState
                                 /\ [s EXCEPT !.storm = x] \in CpuState
                                 /\ [s EXCEPT !.seen = x] \in CpuState
           /\ [s EXCEPT !.on = TRUE] \in CpuState
           /\ [s EXCEPT !.armed = TRUE] \in CpuState
           /\ [s EXCEPT !.signal = TRUE] \in CpuState
           /\ \A x, y \in BOOLEAN : [s EXCEPT !.seen = x, !.signal = y] \in CpuState
           /\ \A x, y \in BOOLEAN : [s EXCEPT !.signal = x, !.seen = y] \in CpuState
           /\ [s EXCEPT !.on = TRUE, !.ready = TRUE] \in CpuState
           /\ [s EXCEPT !.armed = TRUE, !.ready = TRUE, !.on = TRUE] \in CpuState
           /\ \A x \in SUBSET {"timer", "signal"} : [s EXCEPT !.enabled = x] \in CpuState
BY Zenon DEF CpuState

(* The values a core's locals take.                                        *)
LEMMA LocalValues ==
    ASSUME NEW r \in Local
    PROVE  /\ \A x \in {"topo", "join", "unlock", "cal", "timer"} : [r EXCEPT !.ret = x] \in Local
           /\ \A x \in {"pass", "fail"} : [r EXCEPT !.verdict = x] \in Local
           /\ \A x \in Nat : [r EXCEPT !.spins = x] \in Local
           /\ \A x \in Nat : [r EXCEPT !.stack = x] \in Local
           /\ \A x \in Nat : [r EXCEPT !.region = x] \in Local
           /\ \A x, y \in Nat : [r EXCEPT !.region = x, !.stack = y] \in Local
           /\ [r EXCEPT !.spins = 0, !.cal = TRUE] \in Local
           /\ [r EXCEPT !.greeted = TRUE] \in Local
           /\ \A s \in Handles, x \in Nat : [r EXCEPT !.handle[s] = x] \in Local
BY Zenon DEF Local

(* What a core is told elsewhere stays when it counts or notes a result.   *)
Same(q, r) == /\ q.ret = r.ret /\ q.region = r.region /\ q.stack = r.stack
              /\ q.handle = r.handle

(* The busy-wait counter, the self-test's verdict and the calibration      *)
(* leave the rest of the locals alone.                                     *)
LEMMA Counted ==
    ASSUME NEW r \in Local
    PROVE  /\ \A x \in Nat : Same([r EXCEPT !.spins = x], r) /\ [r EXCEPT !.spins = x].cal = r.cal
           /\ \A x \in {"pass", "fail"} : Same([r EXCEPT !.verdict = x], r) /\ [r EXCEPT !.verdict = x].cal = r.cal
           /\ Same([r EXCEPT !.spins = 0, !.cal = TRUE], r) /\ [r EXCEPT !.spins = 0, !.cal = TRUE].cal
<1>1. \A x \in Nat : Same([r EXCEPT !.spins = x], r) /\ [r EXCEPT !.spins = x].cal = r.cal
  BY Zenon DEF Local, Same
<1>2. \A x \in {"pass", "fail"} : Same([r EXCEPT !.verdict = x], r) /\ [r EXCEPT !.verdict = x].cal = r.cal
  BY Zenon DEF Local, Same
<1>3. Same([r EXCEPT !.spins = 0, !.cal = TRUE], r) /\ [r EXCEPT !.spins = 0, !.cal = TRUE].cal
  BY Zenon DEF Local, Same
<1> QED
  BY <1>1, <1>2, <1>3, Zenon

(* What such a step keeps when it is a step of the interrupt code, or an   *)
(* interrupt: what the boot core wrote for a core, and others' messages.   *)
Keeps(c) == Same(me'[c], me[c])

Wire ==
    /\ DOMAIN icr' = Cores
    /\ \A d \in Cores : icr'[d] = icr[d] \/ ~ (Started(icr[d].kind) \/ Started(icr'[d].kind))

Configuring(c) == pc[c] \in IrqLabels /\ pc'[c] \in IrqLabels \cup {me[c].ret} /\ me'[c] = me[c]
Calibrating(c) == pc[c] = "cal" /\ pc'[c] = "timer" /\ me'[c].cal
Late(c) == pc[c] \in LateLabels /\ pc'[c] \in LateLabels \cup {"run", "panic"} /\ me'[c].cal = me[c].cal

(* Every step of irq_core_init, timer_core_init and the signal's self-test *)
(* is of one of the three kinds.                                           *)
LEMMA IrqKinds ==
    ASSUME BootType, NEW c \in Cores, IrqStep(c)
    PROVE  Only(c) /\ Keeps(c) /\ Wire /\ (Configuring(c) \/ Calibrating(c) \/ Late(c))
<1>1. cpu[c] \in CpuState /\ me[c] \in Local /\ cpu \in [Cores -> CpuState] /\ me \in [Cores -> Local] /\ DOMAIN icr = Cores
  BY Zenon DEF BootType
<1>2. hw.gsKept \in BOOLEAN
  BY BootAssumption, Zenon DEF BootType, MachineType
<1>3. me[c].spins \in Nat
  BY <1>1, Zenon DEF Local
<1>4. cpu[c].state \in BOOLEAN /\ cpu[c].enabled \in SUBSET {"timer", "signal"} /\ cpu[c].seen \in BOOLEAN
  BY <1>1, Zenon DEF CpuState
<1>5. ASSUME UNCHANGED <<hw, icr, me>>, cpu' \in [Cores -> CpuState],
             \A d \in Cores \ {c} : cpu'[d] = cpu[d], NEW l, Goto(c, l),
             \/ pc[c] \in IrqLabels /\ l \in IrqLabels \cup {me[c].ret}
             \/ pc[c] \in LateLabels /\ l \in LateLabels \cup {"run", "panic"}
      PROVE  Only(c) /\ Keeps(c) /\ Wire /\ (Configuring(c) \/ Calibrating(c) \/ Late(c))
  BY <1>1, <1>5, Going, Zenon DEF Only, Keeps, Same, Wire, Configuring, Late
<1> USE DEF IrqLabels, LateLabels
<1>6. CASE IdtClear(c)
  BY <1>1, <1>5, <1>6, Zenon DEF IdtClear, At
<1>7. CASE IdtLoad(c)
  <2>1. [cpu[c] EXCEPT !.state = @ /\ hw.gsKept] \in CpuState
    BY <1>1, <1>2, <1>4, CpuValues, Zenon
  <2> QED
    BY <1>5, <1>7, <2>1, Changing, Zenon DEF IdtLoad, At
<1>8. CASE PicRemap(c)
  BY <1>1, <1>5, <1>8, Zenon DEF PicRemap, At
<1>9. CASE PicUnmask(c)
  BY <1>1, <1>5, <1>9, CpuValues, Changing, Zenon DEF PicUnmask, At
<1>10. CASE HandlersClear(c)
  BY <1>1, <1>5, <1>10, Zenon DEF HandlersClear, At
<1>11. CASE DistributorOff(c)
  <2>1. [cpu[c] EXCEPT !.enabled = IF hw.gic = "v2" THEN {} ELSE @] \in CpuState
    BY <1>1, <1>4, CpuValues, Zenon
  <2> QED
    BY <1>5, <1>11, <2>1, Changing, Zenon DEF DistributorOff, At
<1>12. CASE DistributorOn(c)
  BY <1>1, <1>5, <1>12, Zenon DEF DistributorOn, At
<1>13. CASE Redistributor(c)
  <2>1. [cpu[c] EXCEPT !.enabled = {}] \in CpuState
    BY <1>1, CpuValues, Zenon
  <2> QED
    BY <1>1, <1>5, <1>13, <2>1, Changing, Zenon DEF Redistributor, At
<1>14. CASE CpuInterface(c)
  BY <1>1, <1>5, <1>14, CpuValues, Changing, Zenon DEF CpuInterface, At
<1>15. CASE Calibrate(c)
  <2>1. [me[c] EXCEPT !.spins = 0, !.cal = TRUE] \in Local
    BY <1>1, LocalValues, Zenon
  <2>2. [me[c] EXCEPT !.spins = 0, !.cal = TRUE].cal
    BY <1>1, Counted, Zenon
  <2>3. Only(c) /\ Wire /\ pc[c] = "cal" /\ pc'[c] = "timer" /\ me'[c] = [me[c] EXCEPT !.spins = 0, !.cal = TRUE]
    <3>1. /\ pc[c] = "cal" /\ Goto(c, "timer") /\ Set(c, [me[c] EXCEPT !.spins = 0, !.cal = TRUE])
          /\ UNCHANGED <<hw, cpu, icr>>
      BY <1>15, Zenon DEF Calibrate, At
    <3>2. DOMAIN pc' = Cores /\ pc'[c] = "timer" /\ \A d \in Cores \ {c} : pc'[d] = pc[d]
      BY <3>1, Going, Zenon
    <3>3. /\ me' \in [Cores -> Local] /\ me'[c] = [me[c] EXCEPT !.spins = 0, !.cal = TRUE]
          /\ \A d \in Cores \ {c} : me'[d] = me[d]
      BY <2>1, <3>1, Setting, Zenon
    <3> QED
      BY <1>1, <3>1, <3>2, <3>3, Zenon DEF Only, Wire
  <2>4. Keeps(c)
    BY <1>1, <2>3, Counted, Zenon DEF Keeps
  <2> QED
    BY <2>2, <2>3, <2>4, Zenon DEF Calibrating
<1>16. CASE LapicInstall(c)
  BY <1>1, <1>5, <1>16, Zenon DEF LapicInstall, At
<1>17. CASE LapicArm(c)
  BY <1>1, <1>5, <1>17, CpuValues, Changing, Zenon DEF LapicArm, At, AfterTimer
<1>18. ASSUME NEW line \in {"timer", "signal"}
       PROVE  [cpu[c] EXCEPT !.enabled = IF hw.gic = "none" THEN @ ELSE @ \cup {line}] \in CpuState
  BY <1>1, <1>4, CpuValues, Zenon
<1>19. CASE ArmInstall(c)
  BY <1>1, <1>5, <1>18, <1>19, Changing, Zenon DEF ArmInstall, At, GicInstall
<1>20. CASE ArmArm(c)
  BY <1>1, <1>5, <1>20, CpuValues, Changing, Zenon DEF ArmArm, At, AfterTimer
<1>21. CASE IpiInstall(c)
  BY <1>1, <1>5, <1>21, Zenon DEF IpiInstall, At
<1>22. CASE SgiInstall(c)
  BY <1>5, <1>18, <1>22, Changing, Zenon DEF SgiInstall, At, GicInstall
<1>23. CASE IpiSend(c)
  <2>1. [cpu[c] EXCEPT !.seen = FALSE] \in CpuState
    BY <1>1, CpuValues, Zenon
  <2>2. Only(c) /\ Keeps(c) /\ Late(c)
    <3>1. pc[c] = "send" /\ Goto(c, "test") /\ Cpu(c, [cpu[c] EXCEPT !.seen = FALSE]) /\ UNCHANGED <<hw, me>>
      BY <1>23, Zenon DEF IpiSend, At
    <3>2. DOMAIN pc' = Cores /\ pc'[c] = "test" /\ \A d \in Cores \ {c} : pc'[d] = pc[d]
      BY <3>1, Going, Zenon
    <3>3. cpu' \in [Cores -> CpuState] /\ \A d \in Cores \ {c} : cpu'[d] = cpu[d]
      BY <2>1, <3>1, Changing, Zenon
    <3> QED
      BY <1>1, <3>1, <3>2, <3>3, Zenon DEF Only, Keeps, Same, Late
  <2>3. ~ Started(icr[c].kind)
    BY <1>23 DEF IpiSend, Idle, Started
  <2>4. DOMAIN icr' = Cores /\ icr'[c] = [kind |-> "signal", to |-> c] /\ \A d \in Cores \ {c} : icr'[d] = icr[d]
    BY <1>1, <1>23, Zenon DEF IpiSend
  <2>5. ~ Started(icr'[c].kind)
    BY <2>4 DEF Started
  <2> QED
    BY <2>2, <2>3, <2>4, <2>5, Zenon DEF Wire
<1>24. CASE SgiSend(c)
  <2>1. [cpu[c] EXCEPT !.seen = FALSE, !.signal = hw.gic # "none" /\ c \notin hw.far] \in CpuState
    BY <1>1, CpuValues, Zenon
  <2> QED
    BY <1>5, <1>24, <2>1, Changing, Zenon DEF SgiSend, At
<1>25. CASE SignalTest(c)
  <2>1. me[c].spins + 1 \in Nat
    BY <1>3
  <2>2. PICK r \in Local : Set(c, r) /\ Same(r, me[c]) /\ r.cal = me[c].cal
    <3>1. CASE Set(c, [me[c] EXCEPT !.spins = @ + 1])
      <4> DEFINE q == [me[c] EXCEPT !.spins = @ + 1]
      <4>1. q \in Local /\ Same(q, me[c]) /\ q.cal = me[c].cal
        BY <1>1, <2>1, LocalValues, Counted, Zenon
      <4>2. Set(c, q)
        BY <3>1, Zenon
      <4> HIDE DEF q
      <4> QED
        BY <4>1, <4>2, Zenon
    <3>2. CASE Set(c, [me[c] EXCEPT !.verdict = IF cpu[c].seen THEN "pass" ELSE "fail"])
      <4> DEFINE v == IF cpu[c].seen THEN "pass" ELSE "fail"
                 q == [me[c] EXCEPT !.verdict = v]
      <4>1. v \in {"pass", "fail"}
        BY Zenon
      <4> HIDE DEF v
      <4>2. q \in Local /\ Same(q, me[c]) /\ q.cal = me[c].cal
        BY <1>1, <4>1, LocalValues, Counted, Zenon
      <4>3. Set(c, q)
        BY <3>2, Zenon DEF v
      <4> HIDE DEF q
      <4> QED
        BY <4>2, <4>3, Zenon
    <3> QED
      BY <1>25, <3>1, <3>2, Zenon DEF SignalTest
  <2>3. pc[c] = "test" /\ \E l \in {"test.wfi", "run"} : Goto(c, l)
    BY <1>25, Zenon DEF SignalTest, At
  <2>4. UNCHANGED irqVars
    BY <1>25, Zenon DEF SignalTest
  <2>5. DOMAIN pc' = Cores /\ pc'[c] \in {"test.wfi", "run"} /\ \A d \in Cores \ {c} : pc'[d] = pc[d]
    BY <2>3, Going, Zenon
  <2>6. me' \in [Cores -> Local] /\ me'[c] = r /\ \A d \in Cores \ {c} : me'[d] = me[d]
    BY <2>2, Setting, Zenon
  <2> QED
    BY <1>1, <2>2, <2>3, <2>4, <2>5, <2>6, Zenon DEF Only, Keeps, Wire, Late, irqVars
<1> QED
  BY <1>6, <1>7, <1>8, <1>9, <1>10, <1>11, <1>12, <1>13, <1>14, <1>15, <1>16, <1>17, <1>19, <1>20, <1>21, <1>22,
     <1>23, <1>24, <1>25, Zenon DEF IrqStep

(* An interrupt ends a wait or finds no gate; a core that is off or in     *)
(* reset takes none.                                                       *)
Interrupted(c) ==
    pc'[c] \in {Woken(pc[c]), "fault"} /\ me'[c].cal = me[c].cal /\ (c = Bsp \/ cpu[c].on)

(* lapic_timer_isr, the GIC's timer interrupt and the wake-up IPI or SGI   *)
(* only interrupt the core they reach.                                     *)
LEMMA TickKinds ==
    ASSUME BootType, NEW c \in Cores, TimerTick(c) \/ SignalTaken(c)
    PROVE  Only(c) /\ Keeps(c) /\ Wire /\ Interrupted(c)
<1>1. cpu[c] \in CpuState /\ cpu \in [Cores -> CpuState] /\ me \in [Cores -> Local] /\ DOMAIN icr = Cores
  BY Zenon DEF BootType
<1>2. UNCHANGED <<hw, icr, me>> /\ cpu[c].on /\ \E l \in {Woken(pc[c]), "fault"} : Goto(c, l)
  BY Zenon DEF TimerTick, SignalTaken, LapicTick, ArmTick, ArmTickUnhandled, IpiTaken, SgiTaken, irqVars, Wake, Reaches
<1>3. cpu[c].seen \in BOOLEAN /\ cpu[c].state \in BOOLEAN
  BY <1>1, Zenon DEF CpuState
<1>4. (cpu[c].seen \/ (Handled(c, "signal") /\ cpu[c].state)) \in BOOLEAN
  BY Zenon
<1>5. cpu' = cpu \/ \E s \in CpuState : Cpu(c, s)
  <2>1. [cpu[c] EXCEPT !.signal = FALSE, !.seen = @ \/ (Handled(c, "signal") /\ cpu[c].state)] \in CpuState
    BY <1>1, <1>4, CpuValues, Zenon
  <2>2. [cpu[c] EXCEPT !.storm = FALSE] \in CpuState /\ [cpu[c] EXCEPT !.storm = TRUE] \in CpuState
    BY <1>1, CpuValues, Zenon
  <2> QED
    BY <2>1, <2>2, Zenon DEF TimerTick, SignalTaken, LapicTick, ArmTick, ArmTickUnhandled, IpiTaken, SgiTaken, irqVars, Seen
<1>6. cpu' \in [Cores -> CpuState] /\ \A d \in Cores \ {c} : cpu'[d] = cpu[d]
  BY <1>1, <1>5, Changing, Zenon
<1>7. DOMAIN pc' = Cores /\ pc'[c] \in {Woken(pc[c]), "fault"} /\ \A d \in Cores \ {c} : pc'[d] = pc[d]
  BY <1>2, Going, Zenon
<1> QED
  BY <1>1, <1>2, <1>6, <1>7, Zenon DEF Only, Keeps, Same, Wire, Interrupted

(* The PIT of pit_busy_sleep_ms only interrupts the boot core.             *)
LEMMA PitKind ==
    ASSUME BootType, PitTick
    PROVE  Only(Bsp) /\ Keeps(Bsp) /\ Wire /\ Interrupted(Bsp)
<1>1. Bsp \in Cores
  BY BootAssumption, Zenon
<1>2. cpu \in [Cores -> CpuState] /\ me \in [Cores -> Local] /\ DOMAIN icr = Cores /\ me[Bsp] \in Local
  BY <1>1, Zenon DEF BootType
<1>3. UNCHANGED irqVars /\ \E l \in {Woken(pc[Bsp]), "fault"} : Goto(Bsp, l)
  BY Zenon DEF PitTick, Wake
<1>4. me[Bsp].spins + 1 \in Nat
  BY <1>2 DEF Local
<1>5. PICK r \in Local : (me' = me \/ Set(Bsp, r)) /\ Same(r, me[Bsp]) /\ r.cal = me[Bsp].cal
  <2>1. CASE me' = me \/ Set(Bsp, me[Bsp])
    BY <1>2, <2>1, Zenon DEF Same
  <2>2. CASE Set(Bsp, [me[Bsp] EXCEPT !.spins = @ + 1])
    <3> DEFINE q == [me[Bsp] EXCEPT !.spins = @ + 1]
    <3>1. q \in Local /\ Same(q, me[Bsp]) /\ q.cal = me[Bsp].cal
      BY <1>2, <1>4, LocalValues, Counted, Zenon
    <3>2. Set(Bsp, q)
      BY <2>2, Zenon
    <3> HIDE DEF q
    <3> QED
      BY <3>1, <3>2, Zenon
  <2>3. me' = me \/ Set(Bsp, me[Bsp]) \/ Set(Bsp, [me[Bsp] EXCEPT !.spins = @ + 1])
    <3> DEFINE ticks == pc[Bsp] = "cal" /\ me[Bsp].spins <= CalTicks
    <3>1. me' = me \/ Set(Bsp, IF ticks THEN [me[Bsp] EXCEPT !.spins = @ + 1] ELSE me[Bsp])
      BY Zenon DEF PitTick
    <3> HIDE DEF ticks
    <3> QED
      BY <3>1, Zenon
  <2> QED
    BY <2>1, <2>2, <2>3, Zenon
<1>6. me' \in [Cores -> Local] /\ me'[Bsp] \in {r, me[Bsp]} /\ \A d \in Cores \ {Bsp} : me'[d] = me[d]
  BY <1>1, <1>2, <1>5, Setting, Zenon
<1>7. DOMAIN pc' = Cores /\ pc'[Bsp] \in {Woken(pc[Bsp]), "fault"} /\ \A d \in Cores \ {Bsp} : pc'[d] = pc[d]
  BY <1>1, <1>3, Going, Zenon
<1>8. Same(me'[Bsp], me[Bsp]) /\ me'[Bsp].cal = me[Bsp].cal
  BY <1>5, <1>6, Zenon DEF Same
<1> QED
  BY <1>2, <1>3, <1>6, <1>7, <1>8, Zenon DEF Only, Keeps, Wire, Interrupted, irqVars
-----------------------------------------------------------------------------
(* Steps beside the bring-up loop: a core that is awake goes on, and       *)
(* nothing of what the boot core prepared for another core changes.        *)
Aside(c) ==
    /\ Only(c) /\ Wire /\ UNCHANGED <<smp, record, params>>
    /\ me'[c].stack = me[c].stack /\ me'[c].region = me[c].region
    /\ pc[c] \notin ResetLabels \cup {"off"} /\ pc'[c] \notin ResetLabels \cup {"off"}
    /\ c = Bsp => \/ pc'[c] \in {pc[c], "fault"}
                  \/ pc[c] \notin SmpLabels \cup {"fault"} /\ pc'[c] \notin SmpLabels

(* A step beside the bring-up loop takes no message, region or handoff     *)
(* away.                                                                   *)
LEMMA AsideStep ==
    ASSUME BootInv, NEW c \in Cores, Aside(c)
    PROVE  Quiet' /\ Messages' /\ Regions' /\ Handoffs'
<1>1. Bsp \in Cores /\ Aps \subseteq Cores /\ Bsp \notin Aps
  BY BootAssumption, Zenon
<1>2. \A d \in Cores : d # c => pc'[d] = pc[d] /\ me'[d] = me[d] /\ cpu'[d] = cpu[d]
  BY Zenon DEF Aside, Only
<1>3. \A a \in Aps : /\ pc'[a] \in ResetLabels \cup {"off"} => pc'[a] = pc[a] /\ cpu'[a] = cpu[a]
                     /\ Running(a)' => Running(a)
                     /\ me'[a].stack = me[a].stack /\ me'[a].region = me[a].region
  BY <1>1, <1>2, Zenon DEF Aside, Running, ResetLabels
<1>4. Quiet'
  BY <1>3, Zenon DEF BootInv, Quiet
<1>5. \/ pc'[Bsp] \in {pc[Bsp], "fault"}
      \/ pc[Bsp] \notin SmpLabels \cup {"fault"} /\ pc'[Bsp] \notin SmpLabels
  BY <1>1, <1>2, Zenon DEF Aside
<1>6. /\ \A d \in Cores : Started(icr'[d].kind) => icr'[d] = icr[d]
      /\ icr'[Bsp].kind = "init" => icr'[Bsp] = icr[Bsp]
  BY <1>1, Zenon DEF Aside, Wire, Started
<1>7. pc[Bsp] \in {"smp.sipi", "fault"} => pc'[Bsp] \in {"smp.sipi", "fault"}
  BY <1>5, Zenon DEF SmpLabels
<1>8. Messages'
  BY <1>6, <1>7, Zenon DEF BootInv, Messages
<1>9. /\ pc'[Bsp] \in SmpLabels => pc'[Bsp] = pc[Bsp]
      /\ pc'[Bsp] \notin SmpLabels \cup {"fault"} => pc[Bsp] \notin SmpLabels \cup {"fault"}
  BY <1>5, Zenon DEF SmpLabels
<1>10. hw' = hw /\ smp' = smp /\ record' = record /\ params' = params
  BY Zenon DEF Aside, Only
<1>11. Regions'
  BY <1>9, <1>10, Zenon DEF BootInv, Regions, Entry, Full, X86, SmpLabels
<1>12. \A r : \A a \in Aps : Given(r, a) => Given(r, a)'
  BY <1>9, <1>10, Zenon DEF Given, Full, X86, SmpLabels
<1>13. \A a \in Aps : Coming(a)' => Coming(a)
  BY <1>3, <1>6, Zenon DEF Coming
<1>14. Handoffs'
  <2> SUFFICES ASSUME NEW a \in Aps
               PROVE  /\ Coming(a)' => params'.stack = params'.region /\ Given(params.region, a)'
                      /\ pc'[a] = "trampoline.jump" => me'[a].stack = params'.stack
                      /\ Running(a)' => me'[a].stack = me'[a].region /\ Given(me[a].region, a)'
    BY <1>3, <1>10, Zenon DEF Handoffs, Given
  <2>1. /\ Coming(a) => params.stack = params.region /\ Given(params.region, a)
        /\ pc[a] = "trampoline.jump" => me[a].stack = params.stack
        /\ Running(a) => me[a].stack = me[a].region /\ Given(me[a].region, a)
    BY Zenon DEF BootInv, Handoffs
  <2>2. pc'[a] = "trampoline.jump" => pc[a] = "trampoline.jump"
    BY <1>3, Zenon DEF ResetLabels
  <2> QED
    BY <1>3, <1>10, <1>12, <1>13, <2>1, <2>2, Zenon
<1> QED
  BY <1>4, <1>8, <1>11, <1>14, Zenon

(* A step of one core that does not begin to configure leaves the cores    *)
(* excluded from each other.                                               *)
LEMMA ExcludedStep ==
    ASSUME BootInv, NEW c \in Cores, Only(c), inside' = inside, me'[c].ret = me[c].ret,
           c = Bsp => pc'[c] \notin ResetLabels \cup {"off"}, c = Bsp \/ pc'[c] # "early",
           Configures(c)' => Configures(c),
           c = Bsp /\ Booting' => Booting,
           c = Bsp /\ Booting /\ Configures(c)' => Booting',
           c = Bsp /\ pc'[c] = "cal" => X86 /\ me[c].ret = "cal",
           Booting' => (c = Bsp \/ pc'[c] = "off") /\ "smp" \notin jobs'[Bsp] /\ ~ Started(icr'[Bsp].kind)
    PROVE  Excluded'
<1>1. Bsp \in Cores /\ Aps \subseteq Cores /\ Bsp \notin Aps /\ Cores = Aps \cup {Bsp}
  BY BootAssumption, Zenon
<1>2. hw' = hw /\ \A d \in Cores : me'[d].ret = me[d].ret /\ (d # c => pc'[d] = pc[d])
  BY Zenon DEF Only
<1>3. \A d \in Cores : Configures(d)' => Configures(d)
  BY <1>2, Zenon DEF Configures
<1>4. /\ Booting' => Booting
      /\ Booting /\ Configures(Bsp)' => Booting'
      /\ pc'[Bsp] = "cal" => X86 /\ me[Bsp].ret = "cal"
      /\ pc'[Bsp] \notin ResetLabels \cup {"off"}
  <2>1. CASE c = Bsp
    BY <2>1, Zenon
  <2>2. CASE c # Bsp
    <3>1. pc'[Bsp] = pc[Bsp] /\ me'[Bsp].ret = me[Bsp].ret
      BY <1>1, <1>2, <2>2, Zenon
    <3>2. Booting' <=> Booting
      BY <1>2, <3>1, Zenon DEF Booting, FirstRet, X86, Configures
    <3> QED
      BY <3>1, <3>2, Zenon DEF BootInv, Excluded
  <2> QED
    BY <2>1, <2>2, Zenon
<1>5. \A d \in Cores : Configures(d)' => d \in inside'[HwMutex] \/ (d = Bsp /\ Booting')
  BY <1>3, <1>4, Zenon DEF BootInv, Excluded
<1>6. \A a \in Aps : pc'[a] # "early" /\ (Configures(a)' => me'[a].ret = "unlock")
  <2>1. \A a \in Aps : pc[a] # "early" /\ (Configures(a) => me[a].ret = "unlock")
    BY Zenon DEF BootInv, Excluded
  <2> QED
    BY <1>1, <1>2, <1>3, <2>1, Zenon
<1>7. /\ Configures(Bsp)' => me'[Bsp].ret \in {FirstRet', IF X86' THEN "cal" ELSE "timer"}
      /\ pc'[Bsp] = "cal" => X86' /\ me'[Bsp].ret = "cal"
  <2>1. me'[Bsp].ret = me[Bsp].ret /\ FirstRet' = FirstRet /\ (X86' <=> X86)
    BY <1>1, <1>2, Zenon DEF FirstRet, X86
  <2>2. Configures(Bsp) => me[Bsp].ret \in {FirstRet, IF X86 THEN "cal" ELSE "timer"}
    BY Zenon DEF BootInv, Excluded
  <2> QED
    BY <1>1, <1>3, <1>4, <2>1, <2>2, Zenon
<1>8. ASSUME Booting'
      PROVE  /\ inside'[HwMutex] = {} /\ \A a \in Aps : pc'[a] = "off"
             /\ "smp" \notin jobs'[Bsp] /\ ~ Started(icr'[Bsp].kind)
  <2>1. inside[HwMutex] = {} /\ \A a \in Aps : pc[a] = "off"
    BY <1>4, <1>8, Zenon DEF BootInv, Excluded
  <2> QED
    BY <1>1, <1>2, <1>8, <2>1, Zenon
<1>9. \A d, e \in inside'[HwMutex] : d = e
  BY Zenon DEF BootInv, Excluded
<1> QED
  BY <1>4, <1>5, <1>6, <1>7, <1>8, <1>9, Zenon DEF Excluded

(* Beside the bring-up loop only the boot core itself ends its time alone. *)
LEMMA ExcludedAside ==
    ASSUME BootInv, NEW c \in Cores, Only(c), Wire, inside' = inside, me'[c].ret = me[c].ret, pc[c] # "off",
           pc'[c] \notin ResetLabels \cup {"off"}, c = Bsp \/ pc'[c] # "early",
           Configures(c)' => Configures(c),
           c = Bsp /\ Booting' => Booting,
           c = Bsp /\ Booting /\ Configures(c)' => Booting',
           c = Bsp /\ pc'[c] = "cal" => X86 /\ me[c].ret = "cal",
           Booting' => "smp" \notin jobs'[Bsp]
    PROVE  Excluded'
<1>1. Bsp \in Cores /\ Cores = Aps \cup {Bsp}
  BY BootAssumption, Zenon
<1>2. c # Bsp /\ Booting' => Booting
  <2>1. c # Bsp => pc'[Bsp] = pc[Bsp] /\ me'[Bsp] = me[Bsp] /\ hw' = hw
    BY <1>1, Zenon DEF Only
  <2> QED
    BY <2>1, Zenon DEF Booting, FirstRet, X86, Configures
<1>3. Booting => (\A a \in Aps : pc[a] = "off") /\ ~ Started(icr[Bsp].kind)
  BY Zenon DEF BootInv, Excluded
<1>4. Booting' => c = Bsp /\ ~ Started(icr'[Bsp].kind)
  BY <1>1, <1>2, <1>3, Zenon DEF Wire
<1> QED
  BY <1>4, ExcludedStep, Zenon

(* A step of one core leaves the proxies of the others alone if each core  *)
(* has its own image.                                                      *)
LEMMA ProxyStep ==
    ASSUME ProxyInv, NEW c \in Cores, Only(c),
           OwnImages => OwnProxies(c)' /\ \A d \in Cores \ {c} : image'[d] = image[d]
    PROVE  ProxyInv'
<1> SUFFICES ASSUME OwnImages', NEW d \in Cores, d # c
             PROVE  OwnProxies(d)'
  BY Zenon DEF ProxyInv, OwnImages, Only
<1>1. hw' = hw /\ pc'[d] = pc[d] /\ me'[d] = me[d] /\ image'[d] = image[d] /\ OwnProxies(d)
  BY Zenon DEF Only, ProxyInv, OwnImages
<1>2. Staged(d)' => Staged(d)
  BY <1>1, Zenon DEF Staged, Booting, Configures, FirstRet, X86
<1>3. Made(d)' = Made(d)
  BY <1>1, Zenon DEF Made
<1> QED
  BY <1>1, <1>2, <1>3, Zenon DEF OwnProxies, Target

(* Every step of the interrupt code, and every interrupt, keeps the        *)
(* invariant: it only brings the core further within its own job.          *)
LEMMA QuietStep ==
    ASSUME BootInv, NEW c \in Cores, Only(c), Keeps(c), Wire, UNCHANGED bootVars,
           Configuring(c) \/ Calibrating(c) \/ Late(c) \/ Interrupted(c)
    PROVE  BootInv' /\ (ProxyInv => ProxyInv')
<1>1. Bsp \in Cores /\ Aps \subseteq Cores /\ Bsp \notin Aps /\ Cores = Aps \cup {Bsp}
  BY BootAssumption, Zenon
<1>2. BootType'
  BY Zenon DEF BootInv, BootType, Statics, Only, Wire, bootVars
<1>3. /\ hw' = hw /\ smp' = smp /\ record' = record /\ params' = params /\ inside' = inside /\ image' = image /\ jobs' = jobs
      /\ me'[c].ret = me[c].ret /\ me'[c].stack = me[c].stack /\ me'[c].region = me[c].region
      /\ me'[c].handle = me[c].handle
  BY Zenon DEF Only, bootVars, Keeps, Same
<1>4. pc[c] \notin ResetLabels \cup {"off"}
  <2>1. CASE Interrupted(c)
    BY <1>1, <2>1, Zenon DEF Interrupted, BootInv, Quiet, Excluded
  <2>2. CASE Configuring(c) \/ Calibrating(c) \/ Late(c)
    BY <2>2, Zenon DEF Configuring, Calibrating, Late, ResetLabels, IrqLabels, LateLabels
  <2> QED
    BY <2>1, <2>2, Zenon
<1>5. pc[c] \in IrqLabels => /\ c \in Aps => me[c].ret = "unlock"
                             /\ c = Bsp => me[c].ret \in {FirstRet, IF X86 THEN "cal" ELSE "timer"}
  BY Zenon DEF BootInv, Excluded, Configures, IrqLabels
<1>6. FirstRet \in {"topo", "join"} /\ (X86 => FirstRet = "topo") /\ (~ X86 => FirstRet = "join")
  BY Zenon DEF FirstRet
<1>7. \/ pc'[c] = pc[c] /\ me'[c].cal = me[c].cal
      \/ pc'[c] = "fault" /\ me'[c].cal = me[c].cal
      \/ pc[c] = "lock.wfi" /\ pc'[c] = "timer.lock" /\ me'[c].cal = me[c].cal
      \/ pc[c] = "idle" /\ pc'[c] = "run" /\ me'[c].cal = me[c].cal
      \/ pc[c] \in IrqLabels /\ pc'[c] \in IrqLabels /\ me'[c].cal = me[c].cal
      \/ pc[c] \in IrqLabels /\ pc'[c] = me[c].ret /\ me'[c].cal = me[c].cal
      \/ pc[c] = "cal" /\ pc'[c] = "timer" /\ me'[c].cal
      \/ pc[c] \in LateLabels /\ pc'[c] \in LateLabels \cup {"run", "panic"} /\ me'[c].cal = me[c].cal
  <2>1. CASE Interrupted(c)
    BY <2>1 DEF Interrupted, Woken, LateLabels
  <2>2. CASE Configuring(c)
    BY <2>2, Zenon DEF Configuring
  <2>3. CASE Calibrating(c) \/ Late(c)
    BY <2>3, Zenon DEF Calibrating, Late
  <2> QED
    BY <2>1, <2>2, <2>3, Zenon
<1>8. /\ pc'[c] \notin ResetLabels \cup {"off"}
      /\ c # Bsp => pc'[c] # "early"
      /\ Configures(c)' => Configures(c)
  <2>1. c # Bsp => pc[c] # "early"
    BY <1>1, Zenon DEF BootInv, Excluded
  <2>2. pc[c] \in IrqLabels => me[c].ret \in {"unlock", "topo", "join", "cal", "timer"}
    BY <1>1, <1>5, <1>6, Zenon
  <2> QED
    BY <1>1, <1>4, <1>5, <1>7, <2>1, <2>2 DEF ResetLabels, IrqLabels, LateLabels, Configures
<1>9. c = Bsp => \/ pc'[c] \in {pc[c], "fault"}
                 \/ pc[c] \notin SmpLabels \cup {"fault"} /\ pc'[c] \notin SmpLabels
  BY <1>5, <1>6, <1>7 DEF SmpLabels, IrqLabels, LateLabels
<1>10. Quiet' /\ Messages' /\ Regions' /\ Handoffs'
  <2>1. Aside(c)
    BY <1>3, <1>4, <1>8, <1>9, Zenon DEF Aside
  <2> QED
    BY <2>1, AsideStep, Zenon
<1>11. (FirstRet' = FirstRet) /\ (X86' <=> X86)
  BY <1>3, Zenon DEF FirstRet, X86
<1>12. ASSUME c = Bsp
       PROVE  /\ Booting' => Booting
              /\ Booting /\ Configures(c)' => Booting'
              /\ pc'[c] = "cal" => X86 /\ me[c].ret = "cal"
  <2>1. pc[Bsp] = "cal" => X86 /\ me[Bsp].ret = "cal"
    BY Zenon DEF BootInv, Excluded
  <2>2. pc'[c] = "cal" => X86 /\ me[c].ret = "cal"
    BY <1>5, <1>6, <1>7, <1>12, <2>1 DEF IrqLabels, LateLabels
  <2>3. Booting' => Booting
    BY <1>3, <1>5, <1>6, <1>7, <1>8, <1>11, <1>12 DEF Booting, EarlyLabels, IrqLabels, LateLabels, Configures
  <2>4. Booting /\ Configures(c)' => Booting'
    BY <1>3, <1>8, <1>11, <1>12 DEF Booting, EarlyLabels, Configures
  <2> QED
    BY <2>2, <2>3, <2>4, Zenon
<1>13. Booting' => "smp" \notin jobs'[Bsp]
  <2>1. Booting' => Booting
    <3>1. c # Bsp => pc'[Bsp] = pc[Bsp] /\ me'[Bsp] = me[Bsp]
      BY <1>1, Zenon DEF Only
    <3> QED
      BY <1>11, <1>12, <3>1, Zenon DEF Booting, Configures
  <2> QED
    BY <1>3, <2>1, Zenon DEF BootInv, Excluded
<1>14. Excluded'
  <2>1. pc[c] # "off" /\ (c = Bsp \/ pc'[c] # "early")
    BY <1>4, <1>8, Zenon
  <2> QED
    BY <1>3, <1>8, <1>12, <1>13, <2>1, ExcludedAside, Zenon
<1>15. Calibrated'
  <2>1. CASE c # Bsp
    <3>1. pc'[Bsp] = pc[Bsp] /\ me'[Bsp] = me[Bsp]
      BY <1>1, <2>1, Zenon DEF Only
    <3> QED
      BY <1>3, <1>11, <3>1, Zenon DEF BootInv, Calibrated
  <2>2. CASE c = Bsp
    <3>1. /\ ~ X86 => ~ me[c].cal
          /\ X86 /\ pc[c] \in LateLabels \cup SmpLabels \cup {"smp", "smp.next"} => me[c].cal
          /\ X86 /\ pc[c] \in {"run", "idle"} /\ "smp" \in jobs[c] => me[c].cal \/ "timer" \in jobs[c]
          /\ pc[c] = "cal" => X86
      BY <2>2, Zenon DEF BootInv, Calibrated, Excluded
    <3>2. ~ X86 => ~ me'[c].cal
      BY <1>7, <3>1, Zenon
    <3>3. X86 /\ pc'[c] \in LateLabels \cup SmpLabels \cup {"smp", "smp.next"} => me'[c].cal
      BY <1>5, <1>6, <1>7, <2>2, <3>1 DEF IrqLabels, LateLabels, SmpLabels
    <3>4. X86 /\ pc'[c] \in {"run", "idle"} /\ "smp" \in jobs[c] => me'[c].cal \/ "timer" \in jobs[c]
      BY <1>5, <1>6, <1>7, <2>2, <3>1 DEF IrqLabels, LateLabels, SmpLabels
    <3> QED
      BY <1>3, <1>11, <2>2, <3>2, <3>3, <3>4, Zenon DEF Calibrated
  <2> QED
    BY <2>1, <2>2, Zenon
<1>16. ASSUME ProxyInv
       PROVE  ProxyInv'
  <2>1. Staged(c)' => Staged(c)
    <3>1. c = Bsp /\ Booting' /\ Configures(c)' => c = Bsp /\ Booting /\ Configures(c)
      BY <1>8, <1>12, Zenon
    <3>2. pc'[c] \in {"services", "scheduler", "early", "join", "topo", "topo.fill"}
             => pc'[c] = pc[c] \/ (pc[c] \in IrqLabels /\ c = Bsp /\ me[c].ret = FirstRet)
      BY <1>1, <1>5, <1>6, <1>7 DEF IrqLabels, LateLabels
    <3>3. pc[c] \in IrqLabels /\ c = Bsp /\ me[c].ret = FirstRet => c = Bsp /\ Booting /\ Configures(c)
      BY Zenon DEF Booting, Configures, IrqLabels
    <3> QED
      BY <1>11, <3>1, <3>2, <3>3, Zenon DEF Staged
  <2>2. Staged(c)' => Made(c)' = Made(c)
    <3>1. pc'[c] \in {"services", "scheduler"} \/ pc[c] \in {"services", "scheduler"} => pc'[c] = pc[c] \/ pc'[c] = "fault"
      BY <1>1, <1>5, <1>6, <1>7 DEF IrqLabels, LateLabels
    <3>2. Staged(c)' => pc'[c] # "fault"
      BY DEF Staged, Configures
    <3> QED
      BY <1>3, <3>1, <3>2, Zenon DEF Made
  <2>3. OwnImages => OwnProxies(c)
    BY <1>16, Zenon DEF ProxyInv
  <2>4. OwnImages => OwnProxies(c)'
    BY <1>3, <2>1, <2>2, <2>3, Zenon DEF OwnProxies, Target
  <2> QED
    BY <1>3, <1>16, <2>4, ProxyStep, Zenon
<1> QED
  BY <1>2, <1>10, <1>14, <1>15, <1>16, Zenon DEF BootInv
-----------------------------------------------------------------------------
(* A step of coreinit_main or of scheduler_run: it changes at most its     *)
(* image and its own jobs.                                                 *)
Typed == DOMAIN image' = Cores /\ \A d \in Cores : image'[d] \in Statics

Forward(c) ==
    /\ Only(c) /\ Typed /\ UNCHANGED <<icr, smp, record, params>>
    /\ me'[c].stack = me[c].stack /\ me'[c].region = me[c].region /\ me'[c].cal = me[c].cal
    /\ pc[c] \notin ResetLabels \cup SmpLabels \cup {"off", "fault"}
    /\ pc'[c] \notin ResetLabels \cup SmpLabels \cup {"off"}
    /\ DOMAIN jobs' = Cores /\ \A d \in Cores \ {c} : jobs'[d] = jobs[d]

(* What the boot core needs in order to go on to the bring-up of others.   *)
Ready(c) ==
    /\ X86 /\ pc'[c] \in LateLabels \cup {"smp", "smp.next"} => me[c].cal
    /\ X86 /\ pc'[c] \in {"run", "idle"} /\ "smp" \in jobs'[c] => me[c].cal \/ "timer" \in jobs'[c]

(* A core that goes on in coreinit_main or to its next job keeps what the  *)
(* boot core prepared for others.                                          *)
LEMMA ForwardStep ==
    ASSUME BootInv, NEW c \in Cores, Forward(c), c = Bsp => Ready(c), inside' \in [{HwMutex} -> SUBSET Cores]
    PROVE  BootType' /\ Quiet' /\ Messages' /\ Calibrated' /\ Regions' /\ Handoffs'
<1>1. Bsp \in Cores
  BY BootAssumption, Zenon
<1>2. hw' = hw /\ icr' = icr /\ smp' = smp /\ record' = record /\ params' = params
  BY Zenon DEF Forward, Only
<1>3. BootType'
  BY <1>2, Zenon DEF BootInv, BootType, Statics, Forward, Only, Typed
<1>4. Aside(c)
  <2>1. DOMAIN icr = Cores
    BY Zenon DEF BootInv, BootType
  <2> QED
    BY <1>2, <2>1, Zenon DEF Aside, Forward, Wire
<1>5. Calibrated'
  <2>1. CASE c # Bsp
    <3>1. pc'[Bsp] = pc[Bsp] /\ me'[Bsp] = me[Bsp] /\ jobs'[Bsp] = jobs[Bsp]
      BY <1>1, <2>1, Zenon DEF Forward, Only
    <3> QED
      BY <1>2, <3>1, Zenon DEF BootInv, Calibrated, X86
  <2>2. CASE c = Bsp
    <3>1. me'[Bsp].cal = me[Bsp].cal /\ pc'[Bsp] \notin SmpLabels
      BY <2>2, Zenon DEF Forward
    <3> QED
      BY <1>2, <2>2, <3>1, Zenon DEF BootInv, Calibrated, X86, Ready
  <2> QED
    BY <2>1, <2>2, Zenon
<1> QED
  BY <1>3, <1>4, <1>5, AsideStep, Zenon

(* Such a step outside irq_core_init, which keeps the mutex as it is.      *)
LEMMA OutsideStep ==
    ASSUME BootInv, NEW c \in Cores, Forward(c), inside' = inside, me'[c].ret = me[c].ret,
           ~ Configures(c)', c = Bsp => Ready(c),
           pc'[c] \in EarlyLabels => /\ pc[c] \in EarlyLabels /\ (c = Bsp \/ pc'[c] # "early")
                                     /\ jobs'[c] = jobs[c]
    PROVE  BootInv'
<1>1. Bsp \in Cores
  BY BootAssumption, Zenon
<1>2. BootType' /\ Quiet' /\ Messages' /\ Calibrated' /\ Regions' /\ Handoffs'
  <2>1. inside' \in [{HwMutex} -> SUBSET Cores]
    BY Zenon DEF BootInv, BootType
  <2> QED
    BY <2>1, ForwardStep, Zenon
<1>3. Only(c) /\ Wire /\ pc[c] # "off" /\ pc'[c] \notin ResetLabels \cup {"off"}
  BY Zenon DEF BootInv, BootType, Forward, Wire
<1>4. c = Bsp \/ pc'[c] # "early"
  BY Zenon DEF EarlyLabels
<1>5. pc'[c] # "cal"
  BY Zenon DEF Configures
<1>6. c = Bsp /\ Booting' => Booting
  BY Zenon DEF Booting
<1>7. Booting' => "smp" \notin jobs'[Bsp]
  <2>1. CASE c = Bsp
    BY <1>6, <2>1, Zenon DEF Booting, BootInv, Excluded
  <2>2. CASE c # Bsp
    <3>1. pc'[Bsp] = pc[Bsp] /\ me'[Bsp] = me[Bsp] /\ jobs'[Bsp] = jobs[Bsp] /\ hw' = hw
      BY <1>1, <2>2, Zenon DEF Forward, Only
    <3> QED
      BY <3>1, Zenon DEF Booting, FirstRet, X86, Configures, BootInv, Excluded
  <2> QED
    BY <2>1, <2>2, Zenon
<1>8. Excluded'
  BY <1>3, <1>4, <1>5, <1>6, <1>7, ExcludedAside, Zenon
<1> QED
  BY <1>2, <1>8, Zenon DEF BootInv

(* A core's proxies keep their targets when it makes no new ones.          *)
LEMMA ProxyKept ==
    ASSUME ProxyInv, NEW c \in Cores, Only(c), me'[c].handle = me[c].handle,
           OwnImages => /\ \A d \in Cores \ {c} : image'[d] = image[d]
                        /\ image'[c].slot = image[c].slot
                        /\ Staged(c)' => image'[c].used = 1 .. Made(c)' \cap Slots
    PROVE  ProxyInv'
<1>1. ASSUME OwnImages
      PROVE  OwnProxies(c)'
  <2>1. OwnProxies(c)
    BY <1>1, Zenon DEF ProxyInv
  <2> QED
    BY <1>1, <2>1, Zenon DEF OwnProxies, Target, Rank
<1> QED
  BY <1>1, ProxyStep, Zenon

(* The image of a core with an image of its own is its own.                *)
LEMMA ImageOf ==
    ASSUME BootType, NEW c \in Cores
    PROVE  Image(c) \in Cores /\ image[Image(c)] \in Statics /\ (OwnImages => Image(c) = c)
BY BootAssumption, Zenon DEF Image, OwnImages, BootType

(* Writing the static data of one image.                                   *)
LEMMA Adjusting ==
    ASSUME BootType, NEW i \in Cores, NEW v \in Statics, image' = [image EXCEPT ![i] = v]
    PROVE  Typed /\ image'[i] = v /\ \A d \in Cores \ {i} : image'[d] = image[d]
BY Zenon DEF Typed, BootType

(* The core state set at the start of coreinit_main.                       *)
LEMMA CoreStateStep ==
    ASSUME BootInv, NEW c \in Cores, CoreState(c)
    PROVE  BootInv' /\ (ProxyInv => ProxyInv')
<1>1. BootType
  BY Zenon DEF BootInv
<1>2. pc[c] = "start" /\ UNCHANGED <<hw, icr, me, bootVars>> /\ \E l \in {"proxies", "topo"} : Goto(c, l)
  BY Zenon DEF CoreState, At
<1>3. cpu' \in [Cores -> CpuState] /\ \A d \in Cores \ {c} : cpu'[d] = cpu[d]
  <2>1. cpu[c] \in CpuState /\ (c = Bsp \/ ApState(c)) \in BOOLEAN
    BY <1>1, Zenon DEF BootType
  <2>2. [cpu[c] EXCEPT !.state = c = Bsp \/ ApState(c)] \in CpuState
    BY <2>1, CpuValues, Zenon
  <2> QED
    BY <1>1, <2>2, Changing, Zenon DEF CoreState
<1>4. DOMAIN pc' = Cores /\ pc'[c] \in {"proxies", "topo"} /\ \A d \in Cores \ {c} : pc'[d] = pc[d]
  BY <1>1, <1>2, Going, Zenon
<1>5. X86 => pc'[c] # "topo"
  <2>1. X86 => Goto(c, "proxies")
    BY Zenon DEF CoreState
  <2>2. X86 => pc'[c] = "proxies"
    BY <1>1, <2>1, Going, Zenon
  <2> QED
    BY <2>2
<1>6. Only(c)
  BY <1>1, <1>2, <1>3, <1>4, Zenon DEF Only, BootType
<1>7. Forward(c)
  BY <1>1, <1>2, <1>4, <1>6, Zenon DEF Forward, Typed, BootType, bootVars, ResetLabels, SmpLabels
<1>8. Ready(c)
  BY <1>4, Zenon DEF Ready, LateLabels
<1>9. BootInv'
  <2>1. ~ Configures(c)' /\ pc[c] \in EarlyLabels /\ pc'[c] # "early" /\ jobs'[c] = jobs[c]
    BY <1>2, <1>4, Zenon DEF Configures, EarlyLabels, bootVars
  <2> QED
    BY <1>2, <1>7, <1>8, <2>1, OutsideStep, Zenon DEF bootVars
<1>10. ~ Staged(c)'
  BY <1>2, <1>4, <1>5, Zenon DEF Staged, Configures, X86
<1>11. ASSUME ProxyInv
       PROVE  ProxyInv'
  BY <1>2, <1>6, <1>10, <1>11, ProxyKept, Zenon DEF bootVars
<1> QED
  BY <1>9, <1>11, Zenon

(* topology_discover and proxy_init write the statics of one image.        *)
LEMMA StaticsStep ==
    ASSUME BootInv, NEW c \in Cores, TopoClear(c) \/ TopoFill(c) \/ ProxyInit(c)
    PROVE  BootInv' /\ (ProxyInv => ProxyInv')
<1> DEFINE i == Image(c)
<1>1. BootType /\ i \in Cores /\ image[i] \in Statics /\ (OwnImages => i = c)
  BY ImageOf, Zenon DEF BootInv
<1>2. pc[c] \in {"topo", "topo.fill", "proxies"} /\ UNCHANGED <<irqVars, me, smp, record, params, jobs, inside>>
  BY Zenon DEF TopoClear, TopoFill, ProxyInit, At
<1>3. \/ pc[c] = "topo" /\ Goto(c, "topo.fill")
      \/ pc[c] = "topo.fill" /\ X86 /\ Goto(c, "join")
      \/ pc[c] = "topo.fill" /\ ~ X86 /\ Goto(c, "proxies")
      \/ pc[c] = "proxies" /\ Goto(c, "services")
  BY Zenon DEF TopoClear, TopoFill, ProxyInit, At
<1>4. /\ DOMAIN pc' = Cores /\ \A d \in Cores \ {c} : pc'[d] = pc[d]
      /\ \/ pc[c] = "topo" /\ pc'[c] = "topo.fill"
         \/ pc[c] = "topo.fill" /\ X86 /\ pc'[c] = "join"
         \/ pc[c] = "topo.fill" /\ ~ X86 /\ pc'[c] = "proxies"
         \/ pc[c] = "proxies" /\ pc'[c] = "services"
  BY <1>1, <1>3, Going, Zenon
<1>5. PICK v \in Statics : /\ image' = [image EXCEPT ![i] = v] /\ v.slot = image[i].slot
                           /\ v.used = IF pc[c] = "proxies" THEN {} ELSE image[i].used
  <2>1. ASSUME NEW n \in {0, Len(hw.order)}
        PROVE  /\ [image[i] EXCEPT !.count = n] \in Statics
               /\ [image[i] EXCEPT !.count = n].slot = image[i].slot
               /\ [image[i] EXCEPT !.count = n].used = image[i].used
    BY <1>1, Zenon DEF Statics
  <2>2. /\ [image[i] EXCEPT !.used = {}] \in Statics
        /\ [image[i] EXCEPT !.used = {}].slot = image[i].slot
        /\ [image[i] EXCEPT !.used = {}].used = {}
    BY <1>1, Zenon DEF Statics
  <2>3. CASE TopoClear(c)
    BY <2>1, <2>3, Zenon DEF TopoClear, At
  <2>4. CASE TopoFill(c)
    BY <2>1, <2>4, Zenon DEF TopoFill, At
  <2>5. CASE ProxyInit(c)
    BY <2>2, <2>5, Zenon DEF ProxyInit, At
  <2> QED
    BY <2>3, <2>4, <2>5, Zenon
<1> HIDE DEF i
<1>6. Typed /\ image'[i] = v /\ \A d \in Cores \ {i} : image'[d] = image[d]
  BY <1>1, <1>5, Adjusting, Zenon
<1>7. Only(c)
  BY <1>1, <1>2, <1>4, Zenon DEF Only, BootType, irqVars
<1>8. Forward(c)
  BY <1>1, <1>2, <1>4, <1>6, <1>7, Zenon DEF Forward, BootType, irqVars, ResetLabels, SmpLabels
<1>9. Ready(c)
  BY <1>4, Zenon DEF Ready, LateLabels
<1>10. BootInv'
  <2>1. ~ Configures(c)' /\ pc[c] \in EarlyLabels /\ pc'[c] # "early" /\ jobs'[c] = jobs[c]
    BY <1>2, <1>4, Zenon DEF Configures, EarlyLabels
  <2> QED
    BY <1>2, <1>8, <1>9, <2>1, OutsideStep, Zenon
<1>11. ASSUME ProxyInv
       PROVE  ProxyInv'
  <2>1. ASSUME OwnImages, Staged(c)'
        PROVE  image'[c].used = 1 .. Made(c)' \cap Slots
    <3>1. CASE pc[c] = "proxies"
      <4>1. pc'[c] = "services" /\ image'[c].used = {}
        BY <1>1, <1>4, <1>5, <1>6, <2>1, <3>1, Zenon
      <4> QED
        BY <4>1 DEF Made
    <3>2. CASE pc[c] # "proxies"
      <4>1. X86' <=> X86
        BY <1>2, Zenon DEF X86, irqVars
      <4>2. Staged(c) /\ Made(c)' = Made(c)
        BY <1>2, <1>4, <2>1, <3>2, <4>1, Zenon DEF Staged, Made, Configures, irqVars
      <4>3. image'[c].used = image[c].used
        BY <1>1, <1>5, <1>6, <2>1, <3>2, Zenon
      <4> QED
        BY <1>11, <2>1, <4>2, <4>3, Zenon DEF ProxyInv, OwnProxies
    <3> QED
      BY <3>1, <3>2, Zenon
  <2> QED
    BY <1>1, <1>2, <1>5, <1>6, <1>7, <1>11, <2>1, ProxyKept, Zenon
<1> QED
  BY <1>10, <1>11, Zenon

(* A step to run, idle, a wait or a job, with the statics and the mutex as *)
(* they were.                                                              *)
LEMMA JobStep ==
    ASSUME BootInv, NEW c \in Cores, NEW l, Goto(c, l), NEW r \in Local, Set(c, r),
           Same(r, me[c]), r.cal = me[c].cal,
           UNCHANGED <<irqVars, image, smp, record, params, inside>>,
           DOMAIN jobs' = Cores, \A d \in Cores \ {c} : jobs'[d] = jobs[d],
           pc[c] \in {"run", "timer.lock", "smp", "smp.next"},
           l \in {"run", "idle", "timer.lock", "lock.wfi", "panic", "smp", "smp.next"},
           c = Bsp /\ X86 /\ l \in {"smp", "smp.next"} => me[c].cal,
           c = Bsp /\ X86 /\ l \in {"run", "idle"} /\ "smp" \in jobs'[c] => me[c].cal \/ "timer" \in jobs'[c]
    PROVE  BootInv' /\ (ProxyInv => ProxyInv')
<1>1. BootType
  BY Zenon DEF BootInv
<1>2. DOMAIN pc' = Cores /\ pc'[c] = l /\ \A d \in Cores \ {c} : pc'[d] = pc[d]
  BY <1>1, Going, Zenon
<1>3. me' \in [Cores -> Local] /\ me'[c] = r /\ \A d \in Cores \ {c} : me'[d] = me[d]
  BY <1>1, Setting, Zenon
<1>4. Only(c)
  BY <1>1, <1>2, <1>3, Zenon DEF Only, BootType, irqVars
<1>5. /\ pc[c] \notin ResetLabels \cup SmpLabels \cup {"off", "fault"} /\ pc'[c] \notin ResetLabels \cup SmpLabels \cup {"off"}
      /\ ~ Configures(c)' /\ pc'[c] \notin EarlyLabels /\ pc'[c] \notin LateLabels
  BY <1>2 DEF ResetLabels, SmpLabels, EarlyLabels, LateLabels, Configures
<1>6. Forward(c)
  BY <1>1, <1>3, <1>4, <1>5, Zenon DEF Forward, Same, Typed, BootType, irqVars
<1>7. c = Bsp => Ready(c)
  BY <1>2, <1>5, Zenon DEF Ready
<1>8. BootInv'
  BY <1>3, <1>5, <1>6, <1>7, OutsideStep, Zenon DEF Same
<1>9. ~ Staged(c)'
  BY <1>2, <1>5 DEF Staged
<1>10. ASSUME ProxyInv
       PROVE  ProxyInv'
  BY <1>3, <1>4, <1>9, <1>10, ProxyKept, Zenon DEF Same
<1> QED
  BY <1>8, <1>10, Zenon

(* A step that leaves the locals alone, seen as one that writes them.      *)
LEMMA Unset ==
    ASSUME BootType, NEW c \in Cores, me' = me
    PROVE  me[c] \in Local /\ Set(c, me[c]) /\ Same(me[c], me[c])
BY Zenon DEF BootType, Set, Same

(* A core takes its next job.  The SMP job comes after the timer's.        *)
LEMMA RunJobStep ==
    ASSUME BootInv, NEW c \in Cores, RunJob(c)
    PROVE  BootInv' /\ (ProxyInv => ProxyInv')
<1>1. BootType /\ me[c] \in Local
  BY Zenon DEF BootInv, BootType
<1> DEFINE j == First(jobs[c])
           l == IF j = "timer" THEN "timer.lock" ELSE IF j = "smp" /\ c = Bsp THEN "smp" ELSE "run"
           r == IF j = "greet" THEN [me[c] EXCEPT !.greeted = TRUE] ELSE me[c]
<1>2. /\ pc[c] = "run" /\ jobs' = [jobs EXCEPT ![c] = @ \ {j}] /\ Goto(c, l) /\ Set(c, r)
      /\ UNCHANGED <<irqVars, image, smp, record, params, inside>>
  BY Zenon DEF RunJob, At
<1>3. /\ j = "timer" <=> "timer" \in jobs[c]
      /\ j = "smp" => "smp" \in jobs[c]
  BY DEF First
<1>4. r \in Local /\ Same(r, me[c]) /\ r.cal = me[c].cal
  <2>1. /\ [me[c] EXCEPT !.greeted = TRUE] \in Local /\ Same([me[c] EXCEPT !.greeted = TRUE], me[c])
        /\ [me[c] EXCEPT !.greeted = TRUE].cal = me[c].cal
    BY <1>1, Zenon DEF Local, Same
  <2> QED
    BY <1>1, <2>1, Zenon DEF Same
<1>5. l \in {"run", "timer.lock", "smp"} /\ (l = "run" => j # "timer") /\ (l = "smp" => j = "smp" /\ c = Bsp)
  BY Zenon
<1> HIDE DEF j, l, r
<1>6. DOMAIN jobs' = Cores /\ jobs'[c] = jobs[c] \ {j} /\ \A d \in Cores \ {c} : jobs'[d] = jobs[d]
  BY <1>1, <1>2, Zenon DEF BootType
<1>7. c = Bsp /\ X86 /\ "smp" \in jobs[c] => me[c].cal \/ "timer" \in jobs[c]
  BY <1>2, Zenon DEF BootInv, Calibrated
<1>8. c = Bsp /\ X86 /\ l = "smp" => me[c].cal
  BY <1>3, <1>5, <1>7
<1>9. c = Bsp /\ X86 /\ l = "run" /\ "smp" \in jobs'[c] => me[c].cal \/ "timer" \in jobs'[c]
  BY <1>3, <1>5, <1>6, <1>7
<1>10. /\ c = Bsp /\ X86 /\ l \in {"smp", "smp.next"} => me[c].cal
       /\ c = Bsp /\ X86 /\ l \in {"run", "idle"} /\ "smp" \in jobs'[c] => me[c].cal \/ "timer" \in jobs'[c]
       /\ l \in {"run", "idle", "timer.lock", "lock.wfi", "panic", "smp", "smp.next"}
       /\ pc[c] \in {"run", "timer.lock", "smp", "smp.next"}
  BY <1>2, <1>5, <1>8, <1>9
<1> QED
  BY <1>2, <1>4, <1>6, <1>10, JobStep, Zenon

(* A core waits, or gives up or finishes the bring-up of the others.       *)
LEMMA IdleStep ==
    ASSUME BootInv, NEW c \in Cores,
           Wait(c) \/ (c = Bsp /\ SmpStart) \/ (c = Bsp /\ SmpDone)
    PROVE  BootInv' /\ (ProxyInv => ProxyInv')
<1>1. BootType
  BY Zenon DEF BootInv
<1>2. UNCHANGED <<irqVars, me, bootVars>>
  BY Zenon DEF Wait, SmpStart, SmpDone
<1>3. \/ pc[c] = "run" /\ jobs[c] = {} /\ Goto(c, "idle")
      \/ c = Bsp /\ pc[c] = "smp" /\ Goto(c, "smp.next")
      \/ c = Bsp /\ pc[c] \in {"smp", "smp.next"} /\ Goto(c, "run")
  BY Zenon DEF Wait, SmpStart, SmpDone, At
<1>4. c = Bsp /\ X86 /\ pc[c] \in {"smp", "smp.next"} => me[c].cal
  BY Zenon DEF BootInv, Calibrated
<1>5. PICK l \in {"idle", "run", "smp.next"} :
        /\ Goto(c, l) /\ pc[c] \in {"run", "smp", "smp.next"}
        /\ c = Bsp /\ X86 /\ l = "smp.next" => me[c].cal
        /\ c = Bsp /\ X86 /\ l \in {"run", "idle"} /\ "smp" \in jobs[c] => me[c].cal
  BY <1>3, <1>4, Zenon
<1>6. /\ c = Bsp /\ X86 /\ l \in {"smp", "smp.next"} => me[c].cal
      /\ c = Bsp /\ X86 /\ l \in {"run", "idle"} /\ "smp" \in jobs'[c] => me[c].cal \/ "timer" \in jobs'[c]
      /\ l \in {"run", "idle", "timer.lock", "lock.wfi", "panic", "smp", "smp.next"}
      /\ pc[c] \in {"run", "timer.lock", "smp", "smp.next"}
  BY <1>2, <1>5 DEF bootVars
<1>7. DOMAIN jobs' = Cores /\ \A d \in Cores \ {c} : jobs'[d] = jobs[d]
  BY <1>1, <1>2, Zenon DEF BootType, bootVars
<1>8. me[c] \in Local /\ Set(c, me[c]) /\ Same(me[c], me[c])
  BY <1>1, <1>2, Unset, Zenon
<1> QED
  BY <1>2, <1>5, <1>6, <1>7, <1>8, JobStep, Zenon DEF bootVars
-----------------------------------------------------------------------------
(* The value a core will return to from irq_core_init.                     *)
LEMMA Returning ==
    ASSUME BootType, NEW c \in Cores, NEW x \in {"topo", "join", "unlock", "cal", "timer"},
           Set(c, [me[c] EXCEPT !.ret = x])
    PROVE  /\ me' \in [Cores -> Local] /\ \A d \in Cores \ {c} : me'[d] = me[d]
           /\ me'[c].ret = x /\ me'[c].stack = me[c].stack /\ me'[c].region = me[c].region
           /\ me'[c].cal = me[c].cal /\ me'[c].handle = me[c].handle
<1> DEFINE q == [me[c] EXCEPT !.ret = x]
<1>2. me[c] \in Local
  BY Zenon DEF BootType
<1>3. q \in Local
  BY <1>2, LocalValues, Zenon
<1>4. q.ret = x /\ q.stack = me[c].stack /\ q.region = me[c].region /\ q.cal = me[c].cal /\ q.handle = me[c].handle
  BY <1>2, Zenon DEF Local
<1> HIDE DEF q
<1>5. Set(c, q)
  BY Zenon DEF q
<1>6. me' \in [Cores -> Local] /\ me'[c] = q /\ \A d \in Cores \ {c} : me'[d] = me[d]
  BY <1>3, <1>5, Setting, Zenon
<1> QED
  BY <1>4, <1>6, Zenon

(* A core begins irq_core_init.                                            *)
LEMMA Begins ==
    ASSUME BootInv, NEW c \in Cores, NEW x \in {"topo", "join", "unlock", "cal", "timer"},
           Set(c, [me[c] EXCEPT !.ret = x]), Goto(c, "irq.clear"), pc[c] \in {"early", "timer.lock"},
           UNCHANGED <<irqVars, image, smp, record, params, jobs>>, inside' \in [{HwMutex} -> SUBSET Cores],
           Excluded', Staged(c)' => Staged(c)
    PROVE  BootInv' /\ (ProxyInv => ProxyInv')
<1>1. BootType
  BY Zenon DEF BootInv
<1>2. /\ me' \in [Cores -> Local] /\ \A d \in Cores \ {c} : me'[d] = me[d]
      /\ me'[c].ret = x /\ me'[c].stack = me[c].stack /\ me'[c].region = me[c].region
      /\ me'[c].cal = me[c].cal /\ me'[c].handle = me[c].handle
  BY <1>1, Returning, Zenon
<1>3. DOMAIN pc' = Cores /\ pc'[c] = "irq.clear" /\ \A d \in Cores \ {c} : pc'[d] = pc[d]
  BY <1>1, Going, Zenon
<1>4. Only(c)
  BY <1>1, <1>2, <1>3, Zenon DEF Only, BootType, irqVars
<1>5. Forward(c)
  <2>1. /\ pc[c] \notin ResetLabels \cup SmpLabels \cup {"off", "fault"}
        /\ pc'[c] \notin ResetLabels \cup SmpLabels \cup {"off"}
    BY <1>3, Zenon DEF ResetLabels, SmpLabels
  <2> QED
    BY <1>1, <1>2, <1>4, <2>1, Zenon DEF Forward, Typed, BootType, irqVars
<1>6. Ready(c)
  BY <1>3, Zenon DEF Ready, LateLabels
<1>7. BootInv'
  BY <1>5, <1>6, ForwardStep, Zenon DEF BootInv
<1>8. Made(c)' = Made(c)
  BY <1>3, Zenon DEF Made, irqVars
<1>9. ASSUME ProxyInv
      PROVE  ProxyInv'
  <2>1. OwnImages /\ Staged(c)' => image'[c].used = 1 .. Made(c)' \cap Slots
    BY <1>8, <1>9, Zenon DEF ProxyInv, OwnProxies
  <2> QED
    BY <1>2, <1>4, <1>9, <2>1, ProxyKept, Zenon
<1> QED
  BY <1>7, <1>9, Zenon

(* The boot core's first irq_core_init: it is still alone.                 *)
LEMMA EarlyStep ==
    ASSUME BootInv, NEW c \in Cores, Early(c)
    PROVE  BootInv' /\ (ProxyInv => ProxyInv')
<1>1. BootType /\ Cores = Aps \cup {Bsp} /\ Bsp \notin Aps
  BY BootAssumption, Zenon DEF BootInv
<1>2. /\ pc[c] = "early" /\ Goto(c, "irq.clear") /\ Set(c, [me[c] EXCEPT !.ret = FirstRet])
      /\ UNCHANGED <<irqVars, bootVars>>
  BY Zenon DEF Early, At, FirstRet
<1>3. FirstRet \in {"topo", "join", "unlock", "cal", "timer"}
  BY Zenon DEF FirstRet
<1>4. c = Bsp
  BY <1>1, <1>2, Zenon DEF BootInv, Excluded
<1>5. Booting /\ inside[HwMutex] = {} /\ (\A a \in Aps : pc[a] = "off") /\ "smp" \notin jobs[Bsp] /\ ~ Started(icr[Bsp].kind)
  BY <1>2, <1>4, Zenon DEF BootInv, Excluded, Booting, EarlyLabels
<1>6. me'[Bsp].ret = FirstRet /\ pc'[Bsp] = "irq.clear" /\ \A a \in Aps : pc'[a] = "off"
  <2>1. me'[c].ret = FirstRet
    BY <1>1, <1>2, <1>3, Returning, Zenon
  <2>2. pc'[c] = "irq.clear" /\ \A d \in Cores \ {c} : pc'[d] = pc[d]
    BY <1>1, <1>2, Going, Zenon
  <2> QED
    BY <1>1, <1>4, <1>5, <2>1, <2>2, Zenon
<1>7. FirstRet' = FirstRet /\ inside' = inside /\ jobs' = jobs /\ icr' = icr
  BY <1>2, Zenon DEF FirstRet, X86, irqVars, bootVars
<1>8. Configures(Bsp)' /\ Booting' /\ \A a \in Aps : ~ Configures(a)'
  BY <1>6, <1>7 DEF Configures, Booting
<1>9. Excluded'
  <2>1. pc'[Bsp] # "cal" /\ pc'[Bsp] \notin ResetLabels \cup {"off"}
    BY <1>6, Zenon DEF ResetLabels
  <2>2. \A a \in Aps : pc'[a] # "early"
    BY <1>6
  <2>3. me'[Bsp].ret = FirstRet'
    BY <1>6, <1>7, Zenon
  <2>4. \A d \in Cores : Configures(d)' => d = Bsp
    BY <1>1, <1>8, Zenon
  <2>5. inside'[HwMutex] = {} /\ (\A a \in Aps : pc'[a] = "off") /\ "smp" \notin jobs'[Bsp] /\ ~ Started(icr'[Bsp].kind)
    BY <1>5, <1>6, <1>7, Zenon
  <2> QED
    BY <1>8, <2>1, <2>2, <2>3, <2>4, <2>5, Zenon DEF Excluded
<1>10. Staged(c)
  BY <1>2, Zenon DEF Staged
<1>11. inside' \in [{HwMutex} -> SUBSET Cores]
  BY <1>1, <1>7, Zenon DEF BootType
<1> QED
  BY <1>2, <1>3, <1>9, <1>10, <1>11, Begins, Zenon DEF bootVars

(* job_timer_bringup: a core enters the mutex when nobody is inside, and   *)
(* then nobody configures: the boot core is past its time alone.           *)
LEMMA LockStep ==
    ASSUME BootInv, NEW c \in Cores, Lock(c)
    PROVE  BootInv' /\ (ProxyInv => ProxyInv')
<1>1. BootType /\ Cores = Aps \cup {Bsp} /\ Bsp \notin Aps /\ Bsp \in Cores /\ Aps \subseteq Cores
  BY BootAssumption, Zenon DEF BootInv
<1>2. pc[c] = "timer.lock" /\ UNCHANGED <<irqVars, image, smp, record, params, jobs>>
  BY Zenon DEF Lock, At
<1>3. CASE inside' = inside /\ me' = me /\ \E l \in {"panic", "lock.wfi"} : Goto(c, l)
  <2>1. PICK l \in {"panic", "lock.wfi"} : Goto(c, l)
    BY <1>3, Zenon
  <2>2. l \notin {"smp", "smp.next", "run", "idle"} /\ l \in {"run", "idle", "timer.lock", "lock.wfi", "panic", "smp", "smp.next"}
    BY Zenon
  <2>3. DOMAIN jobs' = Cores /\ \A d \in Cores \ {c} : jobs'[d] = jobs[d]
    BY <1>1, <1>2, Zenon DEF BootType
  <2>4. me[c] \in Local /\ Set(c, me[c]) /\ Same(me[c], me[c])
    BY <1>1, <1>3, Unset, Zenon
  <2> QED
    BY <1>2, <1>3, <2>1, <2>2, <2>3, <2>4, JobStep, Zenon
<1> DEFINE x == IF c # Bsp THEN "unlock" ELSE IF X86 THEN "cal" ELSE "timer"
<1>4. CASE Mutex!Enter(c, HwMutex) /\ Goto(c, "irq.clear") /\ Set(c, [me[c] EXCEPT !.ret = x])
  <2>1. x \in {"topo", "join", "unlock", "cal", "timer"} /\ (c # Bsp => x = "unlock")
        /\ (c = Bsp => x = IF X86 THEN "cal" ELSE "timer")
    BY Zenon
  <2> HIDE DEF x
  <2>2. inside[HwMutex] = {} /\ inside'[HwMutex] = {c} /\ inside' \in [{HwMutex} -> SUBSET Cores]
    BY <1>1, <1>4, Zenon DEF Mutex!Enter, BootType
  <2>3. me'[c].ret = x /\ \A d \in Cores \ {c} : me'[d] = me[d]
    BY <1>1, <1>4, <2>1, Returning, Zenon
  <2>4. pc'[c] = "irq.clear" /\ \A d \in Cores \ {c} : pc'[d] = pc[d]
    BY <1>1, <1>4, Going, Zenon
  <2>5. ~ Booting
    <3>1. c = Bsp => ~ Booting
      BY <1>2 DEF Booting, EarlyLabels, Configures
    <3>2. c \in Aps => ~ Booting
      BY <1>2, Zenon DEF BootInv, Excluded
    <3> QED
      BY <1>1, <3>1, <3>2, Zenon
  <2>6. FirstRet' = FirstRet /\ (X86' <=> X86) /\ FirstRet \in {"topo", "join"}
    BY <1>2, Zenon DEF FirstRet, X86, irqVars
  <2>7. ~ Booting'
    <3>1. CASE c = Bsp
      BY <2>1, <2>3, <2>4, <2>6, <3>1 DEF Booting, EarlyLabels
    <3>2. CASE c # Bsp
      BY <1>1, <2>3, <2>4, <2>5, <2>6, <3>2, Zenon DEF Booting, Configures
    <3> QED
      BY <3>1, <3>2, Zenon
  <2>8. \A d \in Cores : Configures(d)' => d = c
    <3>1. \A d \in Cores : ~ Configures(d)
      BY <2>2, <2>5, Zenon DEF BootInv, Excluded
    <3> QED
      BY <2>4, <3>1, Zenon DEF Configures
  <2>9. \A a \in Aps : pc'[a] # "early" /\ (Configures(a)' => me'[a].ret = "unlock")
    <3>1. \A a \in Aps : pc[a] # "early"
      BY Zenon DEF BootInv, Excluded
    <3>2. \A a \in Aps : pc'[a] # "early"
      BY <1>1, <2>4, <3>1
    <3> QED
      BY <1>1, <2>1, <2>3, <2>8, <3>2, Zenon
  <2>10. /\ Configures(Bsp)' => me'[Bsp].ret = IF X86' THEN "cal" ELSE "timer"
         /\ pc'[Bsp] = "cal" => X86' /\ me'[Bsp].ret = "cal"
         /\ pc'[Bsp] \notin ResetLabels \cup {"off"}
    <3>1. Configures(Bsp)' => me'[Bsp].ret = IF X86' THEN "cal" ELSE "timer"
      BY <1>1, <2>1, <2>3, <2>6, <2>8, Zenon
    <3>2. pc'[Bsp] # "cal"
      <4>1. pc'[Bsp] = "cal" => c = Bsp
        BY <1>1, <2>8, Zenon DEF Configures
      <4> QED
        BY <2>4, <4>1
    <3>3. pc'[Bsp] \notin ResetLabels \cup {"off"}
      BY <1>1, <2>4, Zenon DEF BootInv, Excluded, ResetLabels
    <3> QED
      BY <3>1, <3>2, <3>3, Zenon
  <2>11. Excluded'
    BY <2>2, <2>7, <2>8, <2>9, <2>10, Zenon DEF Excluded
  <2>12. ~ Staged(c)'
    BY <2>4, <2>7 DEF Staged
  <2> QED
    BY <1>2, <1>4, <2>1, <2>2, <2>11, <2>12, Begins, Zenon
<1> QED
  BY <1>3, <1>4, Zenon DEF Lock

(* The holder leaves the mutex, after its irq_core_init.                   *)
LEMMA UnlockStep ==
    ASSUME BootInv, NEW c \in Cores, Unlock(c)
    PROVE  BootInv' /\ (ProxyInv => ProxyInv')
<1>1. BootType /\ Cores = Aps \cup {Bsp} /\ Bsp \notin Aps /\ Bsp \in Cores /\ Aps \subseteq Cores
  BY BootAssumption, Zenon DEF BootInv
<1>2. /\ pc[c] = "unlock" /\ UNCHANGED <<irqVars, me, image, smp, record, params, jobs>>
      /\ inside[HwMutex] = {c} /\ inside' = [inside EXCEPT ![HwMutex] = {}]
      /\ \E l \in {"signal", "timer"} : Goto(c, l)
  BY Zenon DEF Unlock, At, Mutex!Leave
<1>3. inside'[HwMutex] = {} /\ inside' \in [{HwMutex} -> SUBSET Cores]
  BY <1>1, <1>2, Zenon DEF BootType
<1>4. DOMAIN pc' = Cores /\ pc'[c] \in {"signal", "timer"} /\ \A d \in Cores \ {c} : pc'[d] = pc[d]
  BY <1>1, <1>2, Going, Zenon
<1>5. Only(c)
  BY <1>1, <1>2, <1>4, Zenon DEF Only, BootType, irqVars
<1>6. Forward(c)
  <2>1. /\ pc[c] \notin ResetLabels \cup SmpLabels \cup {"off", "fault"}
        /\ pc'[c] \notin ResetLabels \cup SmpLabels \cup {"off"}
    BY <1>2, <1>4, Zenon DEF ResetLabels, SmpLabels
  <2> QED
    BY <1>1, <1>2, <1>5, <2>1, Zenon DEF Forward, Typed, BootType, irqVars
<1>7. c = Bsp => Ready(c)
  <2>1. c = Bsp /\ X86 => me[c].cal
    BY <1>2, Zenon DEF BootInv, Calibrated, LateLabels
  <2> QED
    BY <1>4, <2>1, Zenon DEF Ready
<1>8. ~ Booting
  BY <1>2, Zenon DEF BootInv, Excluded
<1>9. ~ Configures(c)' /\ pc'[c] \notin EarlyLabels
  BY <1>4, Zenon DEF Configures, EarlyLabels
<1>10. FirstRet' = FirstRet /\ (X86' <=> X86)
  BY <1>2, Zenon DEF FirstRet, X86, irqVars
<1>11. ~ Booting'
  <2>1. c # Bsp => pc'[Bsp] = pc[Bsp]
    BY <1>1, <1>4, Zenon
  <2> QED
    BY <1>2, <1>8, <1>9, <1>10, <2>1, Zenon DEF Booting, Configures
<1>12. \A d \in Cores : ~ Configures(d)'
  <2>1. \A d \in Cores : Configures(d) => d = c
    BY <1>2, <1>8, Zenon DEF BootInv, Excluded
  <2> QED
    BY <1>4, <1>9, <2>1, Zenon DEF Configures
<1>13. Excluded'
  <2>1. \A a \in Aps : pc'[a] # "early"
    <3>1. \A a \in Aps : pc[a] # "early"
      BY Zenon DEF BootInv, Excluded
    <3> QED
      BY <1>1, <1>4, <3>1
  <2>2. pc'[Bsp] \notin ResetLabels \cup {"off", "cal"}
    <3>1. pc[Bsp] \notin ResetLabels \cup {"off"}
      BY Zenon DEF BootInv, Excluded
    <3>2. pc'[Bsp] # "cal"
      BY <1>1, <1>12, Zenon DEF Configures
    <3> QED
      BY <1>1, <1>4, <3>1, <3>2 DEF ResetLabels
  <2> QED
    BY <1>1, <1>3, <1>11, <1>12, <2>1, <2>2, Zenon DEF Excluded
<1>14. BootInv'
  BY <1>3, <1>6, <1>7, <1>13, ForwardStep, Zenon DEF BootInv
<1>15. ~ Staged(c)'
  BY <1>4, <1>9 DEF Staged
<1>16. ASSUME ProxyInv
       PROVE  ProxyInv'
  BY <1>2, <1>5, <1>15, <1>16, ProxyKept, Zenon
<1> QED
  BY <1>14, <1>16, Zenon
-----------------------------------------------------------------------------
(* Nothing moves: a message is delivered that changes no core's place.     *)
LEMMA UnmovedStep ==
    ASSUME BootInv, UNCHANGED <<hw, pc, me, bootVars>>, cpu' \in [Cores -> CpuState], DOMAIN icr' = Cores,
           \A d \in Cores : cpu'[d].on = cpu[d].on,
           \A d \in Cores : Started(icr'[d].kind) => icr'[d] = icr[d]
    PROVE  BootInv' /\ (ProxyInv => ProxyInv')
<1>1. Bsp \in Cores /\ Aps \subseteq Cores
  BY BootAssumption, Zenon
<1>2. /\ hw' = hw /\ pc' = pc /\ me' = me /\ image' = image /\ smp' = smp /\ record' = record /\ params' = params
      /\ jobs' = jobs /\ inside' = inside
  BY Zenon DEF bootVars
<1>3. BootType'
  BY <1>2, Zenon DEF BootInv, BootType, Statics
<1>4. Quiet'
  BY <1>1, <1>2, Zenon DEF BootInv, Quiet
<1>5. icr'[Bsp].kind = "init" => icr'[Bsp] = icr[Bsp]
  BY <1>1, Zenon DEF Started
<1>6. Messages'
  BY <1>2, <1>5, Zenon DEF BootInv, Messages
<1>7. Excluded'
  <2>1. Started(icr'[Bsp].kind) => Started(icr[Bsp].kind)
    BY <1>1, Zenon
  <2> QED
    BY <1>2, <2>1, Zenon DEF BootInv, Excluded, Configures, Booting, FirstRet, X86
<1>8. Calibrated'
  BY <1>2, Zenon DEF BootInv, Calibrated, X86
<1>9. Regions'
  BY <1>2, Zenon DEF BootInv, Regions, Entry, Full, X86
<1>10. Handoffs'
  <2>1. \A a \in Aps : Coming(a)' => Coming(a)
    BY <1>2, <1>5, Zenon DEF Coming
  <2>2. \A a \in Aps : (Running(a)' => Running(a)) /\ \A r : Given(r, a) => Given(r, a)'
    BY <1>2, Zenon DEF Given, Full, X86, Running
  <2> QED
    BY <1>2, <2>1, <2>2, Zenon DEF BootInv, Handoffs
<1>11. ASSUME ProxyInv
       PROVE  ProxyInv'
  <2>1. (Booting' <=> Booting) /\ (X86' <=> X86) /\ \A c \in Cores : Configures(c)' <=> Configures(c)
    BY <1>2, Zenon DEF Booting, FirstRet, X86, Configures
  <2>2. \A c \in Cores : (Staged(c)' => Staged(c)) /\ Made(c)' = Made(c)
    BY <1>2, <2>1, Zenon DEF Staged, Made
  <2>3. ASSUME NEW c \in Cores, OwnProxies(c)
        PROVE  OwnProxies(c)'
    BY <1>2, <2>2, <2>3, Zenon DEF OwnProxies, Target
  <2> QED
    BY <1>2, <1>11, <2>3, Zenon DEF ProxyInv, OwnImages
<1> QED
  BY <1>3, <1>4, <1>6, <1>7, <1>8, <1>9, <1>10, <1>11, Zenon DEF BootInv

(* A core is reset, enters the trampoline, or leaves it for coreinit_main  *)
(* with what the parameter block says.                                     *)
LEMMA ComingStep ==
    ASSUME BootInv, NEW a \in Aps, Only(a), UNCHANGED bootVars, DOMAIN icr' = Cores,
           \A d \in Cores : Started(icr'[d].kind) => icr'[d] = icr[d],
           Coming(a), ~ cpu'[a].on, me'[a].ret = me[a].ret, me'[a].handle = me[a].handle,
           pc'[a] \in ResetLabels \cup {"start"},
           pc'[a] = "trampoline.jump" => me'[a].stack = params.stack,
           pc'[a] = "start" => me'[a].stack = params.stack /\ me'[a].region = params.region
    PROVE  BootInv' /\ (ProxyInv => ProxyInv')
<1>1. Bsp \in Cores /\ Aps \subseteq Cores /\ a \in Cores /\ a # Bsp
  BY BootAssumption, Zenon
<1>2. /\ hw' = hw /\ image' = image /\ smp' = smp /\ record' = record /\ params' = params
      /\ jobs' = jobs /\ inside' = inside
  BY Zenon DEF bootVars, Only
<1>3. \A d \in Cores \ {a} : pc'[d] = pc[d] /\ me'[d] = me[d] /\ cpu'[d] = cpu[d]
  BY Zenon DEF Only
<1>4. pc'[Bsp] = pc[Bsp] /\ me'[Bsp] = me[Bsp]
  BY <1>1, <1>3, Zenon
<1>5. icr'[Bsp].kind = "init" => icr'[Bsp] = icr[Bsp]
  BY <1>1, Zenon DEF Started
<1>6. BootType'
  BY <1>2, Zenon DEF BootInv, BootType, Statics, Only
<1>7. Quiet'
  BY <1>1, <1>3, Zenon DEF BootInv, Quiet
<1>8. Messages'
  BY <1>4, <1>5, Zenon DEF BootInv, Messages
<1>9. ~ Booting
  BY DEF BootInv, Excluded, Coming, Started, ResetLabels
<1>10. ~ Booting'
  BY <1>2, <1>4, <1>9, Zenon DEF Booting, FirstRet, X86, Configures
<1>11. ~ Configures(a)' /\ pc'[a] # "early"
  BY DEF Configures, ResetLabels
<1>12. Excluded'
  BY <1>1, <1>2, <1>10, <1>11, ExcludedStep, Zenon
<1>13. Calibrated'
  BY <1>2, <1>4, Zenon DEF BootInv, Calibrated, X86
<1>14. Regions'
  BY <1>2, <1>4, Zenon DEF BootInv, Regions, Entry, Full, X86
<1>15. \A r : \A b \in Aps : Given(r, b) => Given(r, b)'
  BY <1>2, <1>4, Zenon DEF Given, Full, X86
<1>16. Handoffs'
  <2> SUFFICES ASSUME NEW b \in Aps
               PROVE  /\ Coming(b)' => params'.stack = params'.region /\ Given(params.region, b)'
                      /\ pc'[b] = "trampoline.jump" => me'[b].stack = params'.stack
                      /\ Running(b)' => me'[b].stack = me'[b].region /\ \E r : r = me'[b].region /\ Given(r, b)'
    BY <1>2, Zenon DEF Handoffs, Given
  <2>1. /\ Coming(b) => params.stack = params.region /\ Given(params.region, b)
        /\ pc[b] = "trampoline.jump" => me[b].stack = params.stack
        /\ Running(b) => me[b].stack = me[b].region /\ Given(me[b].region, b)
    BY Zenon DEF BootInv, Handoffs
  <2>2. CASE b = a
    <3>1. Running(b)' => pc'[b] = "start"
      BY <2>2, Zenon DEF Running, ResetLabels
    <3> QED
      BY <1>2, <1>15, <2>1, <2>2, <3>1, Zenon
  <2>3. CASE b # a
    <3>1. pc'[b] = pc[b] /\ me'[b] = me[b]
      BY <1>1, <1>3, <2>3, Zenon
    <3>2. (Coming(b)' => Coming(b)) /\ (Running(b)' => Running(b))
      BY <1>5, <3>1, Zenon DEF Coming, Running
    <3> QED
      BY <1>2, <1>15, <2>1, <3>1, <3>2, Zenon
  <2> QED
    BY <2>2, <2>3, Zenon
<1>17. ~ Staged(a)'
  BY <1>1, <1>11 DEF Staged, ResetLabels
<1>18. ASSUME ProxyInv
       PROVE  ProxyInv'
  BY <1>1, <1>2, <1>17, <1>18, ProxyKept, Zenon
<1> QED
  BY <1>6, <1>7, <1>8, <1>12, <1>13, <1>14, <1>16, <1>18, Zenon DEF BootInv

(* A Local APIC delivers its message.  Only the boot core's concern other  *)
(* cores, and only an INIT moves a core that is not in reset.              *)
LEMMA IcrStep ==
    ASSUME BootInv, NEW c \in Cores, IcrDelivered(c)
    PROVE  BootInv' /\ (ProxyInv => ProxyInv')
<1>1. BootType /\ Bsp \in Cores /\ Aps \subseteq Cores
  BY BootAssumption, Zenon DEF BootInv
<1>2. cpu \in [Cores -> CpuState] /\ me \in [Cores -> Local] /\ DOMAIN icr = Cores /\ DOMAIN pc = Cores
  BY <1>1, Zenon DEF BootType
<1>3. UNCHANGED <<hw, table, router, me, bootVars>> /\ icr' = [icr EXCEPT ![c] = Idle]
  BY Zenon DEF IcrDelivered
<1>4. DOMAIN icr' = Cores /\ \A d \in Cores : Started(icr'[d].kind) => icr'[d] = icr[d]
  <2>1. DOMAIN icr' = Cores /\ icr'[c] = Idle /\ \A d \in Cores \ {c} : icr'[d] = icr[d]
    BY <1>2, <1>3, Zenon
  <2>2. ~ Started(Idle.kind)
    BY DEF Started, Idle
  <2> QED
    BY <2>1, <2>2, Zenon
<1>5. Started(icr[c].kind) => c = Bsp /\ icr[c].to \in Aps
  BY Zenon DEF BootInv, Messages
<1> DEFINE m == icr[c]
<1>6. CASE m.kind = "signal" /\ Cpu(c, [cpu[c] EXCEPT !.signal = TRUE]) /\ UNCHANGED pc
  <2> DEFINE s == [cpu[c] EXCEPT !.signal = TRUE]
  <2>1. s \in CpuState /\ s.on = cpu[c].on
    BY <1>2, Zenon DEF CpuState
  <2>2. Cpu(c, s)
    BY <1>6, Zenon
  <2> HIDE DEF s
  <2>3. cpu' \in [Cores -> CpuState] /\ \A d \in Cores : cpu'[d].on = cpu[d].on
    BY <1>1, <2>1, <2>2, Changing, Zenon
  <2> QED
    BY <1>3, <1>4, <1>6, <2>3, UnmovedStep, ZenonT(60)
<1>7. CASE UNCHANGED <<pc, cpu>>
  BY <1>2, <1>3, <1>4, <1>7, UnmovedStep, Zenon
<1>8. ASSUME NEW a \in Aps, NEW l \in {"reset", "trampoline"}, Goto(a, l), Coming(a), ~ cpu'[a].on,
             cpu' \in [Cores -> CpuState], \A d \in Cores \ {a} : cpu'[d] = cpu[d]
      PROVE  BootInv' /\ (ProxyInv => ProxyInv')
  <2>1. DOMAIN pc' = Cores /\ pc'[a] = l /\ \A d \in Cores \ {a} : pc'[d] = pc[d]
    BY <1>1, <1>8, Going, Zenon
  <2>2. Only(a)
    BY <1>2, <1>3, <1>8, <2>1, Zenon DEF Only
  <2>3. pc'[a] \in ResetLabels \cup {"start"} /\ pc'[a] # "trampoline.jump" /\ pc'[a] # "start"
    BY <2>1, Zenon DEF ResetLabels
  <2> QED
    BY <1>3, <1>4, <1>8, <2>2, <2>3, ComingStep, Zenon
<1>9. CASE m.kind = "init" /\ Goto(m.to, "reset") /\ Cpu(m.to, Reset)
  <2>1. c = Bsp /\ m.to \in Aps /\ Coming(m.to)
    BY <1>5, <1>9, Zenon DEF Started, Coming
  <2>2. Reset \in CpuState /\ ~ Reset.on
    BY DEF Reset, CpuState
  <2>3. cpu' \in [Cores -> CpuState] /\ cpu'[m.to] = Reset /\ \A d \in Cores \ {m.to} : cpu'[d] = cpu[d]
    BY <1>1, <1>9, <2>1, <2>2, Changing, Zenon
  <2> QED
    BY <1>8, <1>9, <2>1, <2>2, <2>3, Zenon
<1>10. CASE m.kind \in {"sipi1", "sipi2"} /\ pc[m.to] = "reset" /\ Goto(m.to, "trampoline") /\ UNCHANGED cpu
  <2>1. m.to \in Aps /\ Coming(m.to) /\ ~ cpu[m.to].on
    BY <1>5, <1>10, Zenon DEF Started, Coming, ResetLabels, BootInv, Quiet
  <2> QED
    BY <1>2, <1>8, <1>10, <2>1, Zenon
<1> HIDE DEF m
<1> QED
  BY <1>6, <1>7, <1>9, <1>10, Zenon DEF IcrDelivered, m

(* A core in the trampoline reads the parameter block.                     *)
LEMMA TrampolineStep ==
    ASSUME BootInv, NEW c \in Cores, Trampoline(c) \/ TrampolineJump(c)
    PROVE  BootInv' /\ (ProxyInv => ProxyInv')
<1>1. BootType /\ Cores = Aps \cup {Bsp}
  BY BootAssumption, Zenon DEF BootInv
<1>2. pc[c] \in {"trampoline", "trampoline.jump"} /\ UNCHANGED <<irqVars, bootVars>>
  BY Zenon DEF Trampoline, TrampolineJump
<1>3. c \in Aps /\ Coming(c) /\ ~ cpu[c].on
  BY <1>1, <1>2, Zenon DEF BootInv, Excluded, Quiet, Coming, ResetLabels
<1>4. me[c] \in Local /\ params.stack \in Nat /\ params.region \in Nat /\ me \in [Cores -> Local]
      /\ cpu \in [Cores -> CpuState] /\ DOMAIN icr = Cores
  BY <1>1, Zenon DEF BootType
<1>5. PICK r \in Local, l \in {"trampoline.jump", "start"} :
        /\ Set(c, r) /\ Goto(c, l) /\ r.ret = me[c].ret /\ r.handle = me[c].handle
        /\ r.stack = params.stack /\ (l = "start" => r.region = params.region)
  <2>1. CASE Trampoline(c)
    <3> DEFINE q == [me[c] EXCEPT !.stack = params.stack]
    <3>1. q \in Local /\ q.ret = me[c].ret /\ q.handle = me[c].handle /\ q.stack = params.stack
      BY <1>4, Zenon DEF Local
    <3>2. Set(c, q) /\ Goto(c, "trampoline.jump")
      BY <2>1, Zenon DEF Trampoline
    <3> HIDE DEF q
    <3> QED
      BY <3>1, <3>2, Zenon
  <2>2. CASE TrampolineJump(c)
    <3> DEFINE q == [me[c] EXCEPT !.region = params.region]
    <3>1. q \in Local /\ q.ret = me[c].ret /\ q.handle = me[c].handle /\ q.stack = me[c].stack /\ q.region = params.region
      BY <1>4, Zenon DEF Local
    <3>2. Set(c, q) /\ Goto(c, "start")
      BY <2>2, Zenon DEF TrampolineJump
    <3>3. me[c].stack = params.stack
      BY <1>3, <2>2, Zenon DEF BootInv, Handoffs, TrampolineJump
    <3> HIDE DEF q
    <3> QED
      BY <3>1, <3>2, <3>3, Zenon
  <2> QED
    BY <2>1, <2>2, Zenon
<1>6. DOMAIN pc' = Cores /\ pc'[c] = l /\ \A d \in Cores \ {c} : pc'[d] = pc[d]
  BY <1>1, <1>5, Going, Zenon
<1>7. me' \in [Cores -> Local] /\ me'[c] = r /\ \A d \in Cores \ {c} : me'[d] = me[d]
  BY <1>1, <1>5, Setting, Zenon
<1>8. Only(c)
  BY <1>2, <1>4, <1>6, <1>7, Zenon DEF Only, irqVars
<1>9. pc'[c] \in ResetLabels \cup {"start"}
  BY <1>6, Zenon DEF ResetLabels
<1>10. ~ cpu'[c].on /\ DOMAIN icr' = Cores /\ \A d \in Cores : icr'[d] = icr[d]
  BY <1>2, <1>3, <1>4, Zenon DEF irqVars
<1> QED
  BY <1>2, <1>3, <1>5, <1>6, <1>7, <1>8, <1>9, <1>10, ComingStep, Zenon
-----------------------------------------------------------------------------
(* Where the boot core goes; the others stay where they are.               *)
Moves(l) == DOMAIN pc' = Cores /\ pc'[Bsp] = l /\ \A d \in Cores \ {Bsp} : pc'[d] = pc[d]

Bringup == SmpLabels \cup {"smp.next"}

SmpType == [next : Nat \ {0}, region : Nat, heap : Int, slices : Int]

(* A step of smp_bring_up_all: given that it keeps what it has handed out, *)
(* it keeps the rest, which it does not touch.                             *)
LEMMA BringupStep ==
    ASSUME BootInv, NEW l \in Bringup, pc[Bsp] \in Bringup, Moves(l), UNCHANGED <<hw, cpu, me, image, inside>>,
           smp' \in SmpType, DOMAIN record' = DOMAIN record, params' \in [stack : Nat, region : Nat],
           DOMAIN jobs' = Cores, DOMAIN icr' = Cores, Messages', Regions',
           \A r : \A a \in Aps : Given(r, a) => Given(r, a)',
           \A a \in Aps : pc[a] = "trampoline.jump" => params' = params,
           \A a \in Aps : Coming(a)' => \/ Coming(a) /\ params' = params
                                        \/ params'.stack = params'.region /\ \E r : r = params'.region /\ Given(r, a)'
    PROVE  BootInv' /\ (ProxyInv => ProxyInv')
<1>1. BootType /\ Bsp \in Cores /\ Aps \subseteq Cores /\ Bsp \notin Aps
  BY BootAssumption, Zenon DEF BootInv
<1>2. DOMAIN pc' = Cores /\ pc'[Bsp] = l /\ \A d \in Cores \ {Bsp} : pc'[d] = pc[d]
  BY Zenon DEF Moves
<1>3. Only(Bsp)
  BY <1>1, <1>2, Zenon DEF Only, BootType
<1>4. BootType'
  BY <1>1, <1>2, Zenon DEF BootType, Statics, SmpType
<1>5. Quiet'
  BY <1>1, <1>2, Zenon DEF BootInv, Quiet
<1>6. /\ pc'[Bsp] \notin ResetLabels \cup EarlyLabels \cup {"off", "run", "idle", "cal"}
      /\ ~ Configures(Bsp)'
  BY <1>2 DEF Bringup, SmpLabels, ResetLabels, EarlyLabels, Configures
<1>7. ~ Booting'
  BY <1>6, Zenon DEF Booting
<1>8. Excluded'
  BY <1>1, <1>3, <1>6, <1>7, ExcludedStep, Zenon
<1>9. Calibrated'
  <2>1. X86 => me[Bsp].cal
    BY Zenon DEF BootInv, Calibrated, Bringup
  <2>2. X86' <=> X86
    BY Zenon DEF X86
  <2>3. ~ X86 => ~ me[Bsp].cal
    BY Zenon DEF BootInv, Calibrated
  <2> QED
    BY <1>6, <2>1, <2>2, <2>3, Zenon DEF Calibrated
<1>10. Handoffs'
  <2> SUFFICES ASSUME NEW a \in Aps
               PROVE  /\ Coming(a)' => params'.stack = params'.region /\ \E r : r = params'.region /\ Given(r, a)'
                      /\ pc'[a] = "trampoline.jump" => me'[a].stack = params'.stack
                      /\ Running(a)' => me'[a].stack = me'[a].region /\ Given(me[a].region, a)'
    BY Zenon DEF Handoffs, Given
  <2>1. /\ Coming(a) => params.stack = params.region /\ Given(params.region, a)
        /\ pc[a] = "trampoline.jump" => me[a].stack = params.stack
        /\ Running(a) => me[a].stack = me[a].region /\ Given(me[a].region, a)
    BY Zenon DEF BootInv, Handoffs
  <2>2. pc'[a] = pc[a] /\ (Running(a)' => Running(a))
    BY <1>1, <1>2, Zenon DEF Running
  <2> QED
    BY <2>1, <2>2, Zenon
<1>11. ~ Staged(Bsp)'
  BY <1>6, <1>7 DEF Staged, EarlyLabels
<1>12. ASSUME ProxyInv
       PROVE  ProxyInv'
  BY <1>1, <1>3, <1>11, <1>12, ProxyKept, Zenon
<1> QED
  BY <1>4, <1>5, <1>8, <1>9, <1>10, <1>12, Zenon DEF BootInv

(* One that sends nothing and leaves the parameter block alone.            *)
LEMMA PreparingStep ==
    ASSUME BootInv, NEW l \in Bringup, pc[Bsp] \in Bringup \ {"smp.sipi"}, Moves(l),
           UNCHANGED <<irqVars, me, image, params, inside>>,
           smp' \in SmpType, DOMAIN record' = DOMAIN record, DOMAIN jobs' = Cores, Regions',
           \A r : \A a \in Aps : Given(r, a) => Given(r, a)'
    PROVE  BootInv' /\ (ProxyInv => ProxyInv')
<1>1. BootType /\ Bsp \in Cores /\ Aps \subseteq Cores /\ Bsp \notin Aps
  BY BootAssumption, Zenon DEF BootInv
<1>2. \A d \in Cores \ {Bsp} : pc'[d] = pc[d]
  BY Zenon DEF Moves
<1>3. icr[Bsp].kind # "init"
  <2>1. pc[Bsp] \notin {"smp.sipi", "fault"}
    BY DEF Bringup, SmpLabels
  <2> QED
    BY <2>1, Zenon DEF BootInv, Messages
<1>4. icr' = icr /\ DOMAIN icr' = Cores /\ params' = params /\ params' \in [stack : Nat, region : Nat]
  BY <1>1, Zenon DEF BootType, irqVars
<1>5. Messages'
  BY <1>3, <1>4, Zenon DEF BootInv, Messages
<1>6. \A a \in Aps : Coming(a)' => Coming(a) /\ params' = params
  BY <1>1, <1>2, <1>4, Zenon DEF Coming
<1> QED
  BY <1>4, <1>5, <1>6, BringupStep, Zenon DEF irqVars

(* The boot core passes over an entry, or prepares the context of a core.  *)
LEMMA ContextStep ==
    ASSUME BootInv, SmpSkip \/ SmpContextX86 \/ SmpContextArm \/ SmpContextShared
    PROVE  BootInv' /\ (ProxyInv => ProxyInv')
<1>1. BootType /\ Bsp \in Cores /\ image[Image(Bsp)] \in Statics /\ hw \in MachineType
  BY BootAssumption, ImageOf, Zenon DEF BootInv, BootType
<1>2. smp \in SmpType /\ smp.next \in Nat \ {0} /\ smp.region \in Nat /\ smp.heap \in Int /\ smp.slices \in Int
  BY <1>1, Zenon DEF BootType, SmpType
<1>3. pc[Bsp] = "smp.next" => smp.region < smp.next
  BY Zenon DEF BootInv, Regions, SmpLabels
<1>4. ASSUME NEW ok \in BOOLEAN, NEW heap \in Int, NEW slices \in Int, Prepared(ok, heap, slices)
      PROVE  BootInv' /\ (ProxyInv => ProxyInv')
  <2> DEFINE l == IF ok THEN "smp.record" ELSE "smp.next"
             n == IF ok THEN smp.next ELSE smp.next + 1
  <2>1. /\ pc[Bsp] = "smp.next" /\ Wanted /\ Goto(Bsp, l)
        /\ smp' = [next |-> n, region |-> smp.region + 1, heap |-> heap, slices |-> slices]
        /\ UNCHANGED <<irqVars, me, image, record, params, jobs, inside>>
    BY <1>4, Zenon DEF Prepared, At
  <2>2. n \in Nat \ {0} /\ smp.region + 1 \in Nat \ {0} /\ smp.region + 1 <= n /\ (~ ok => smp.region + 1 < n)
    BY <1>2, <1>3, <2>1
  <2>3. l \in {"smp.record", "smp.next"} /\ (l = "smp.record" => n = smp.next) /\ (l = "smp.next" => smp.region + 1 < n)
    BY <2>2
  <2> HIDE DEF l, n
  <2>4. smp' \in SmpType /\ smp'.next = n /\ smp'.region = smp.region + 1
    BY <2>1, <2>2, Zenon DEF SmpType
  <2>5. Moves(l) /\ pc'[Bsp] = l
    BY <1>1, <2>1, Going, Zenon DEF Moves
  <2>6. smp.next \in DOMAIN hw.order /\ Entry.core \in Aps
    <3> DEFINE Entries == [core : Cores, enabled : BOOLEAN]
    <3>1. hw.order \in Seq(Entries) /\ \A e \in Entries : e.core \in Cores
      BY <1>1, Zenon DEF MachineType
    <3> HIDE DEF Entries
    <3>2. smp.next <= Count /\ Count \in {0, Len(hw.order)} /\ Entry.core # Bsp
      BY <1>1, <2>1, Zenon DEF Wanted, Count, Statics
    <3>3. smp.next \in 1 .. Len(hw.order)
      BY <1>2, <3>1, <3>2
    <3>4. Entry \in Entries
      BY <3>1, <3>3 DEF Entry
    <3>5. smp.next \in DOMAIN hw.order
      BY <3>1, <3>3
    <3> QED
      BY <3>1, <3>2, <3>4, <3>5, BootAssumption, Zenon
  <2>7. Regions'
    <3>1. hw' = hw
      BY <2>1, Zenon DEF irqVars
    <3>2. pc'[Bsp] \in SmpLabels => pc'[Bsp] = "smp.record"
      BY <2>3, <2>5 DEF SmpLabels
    <3>3. pc'[Bsp] \notin SmpLabels \cup {"fault"} => pc'[Bsp] = "smp.next"
      BY <2>3, <2>5, Zenon DEF SmpLabels
    <3>4. smp'.region <= smp'.next /\ (pc'[Bsp] = "smp.next" => smp'.region < smp'.next)
      BY <2>2, <2>3, <2>4, <2>5, Zenon
    <3>5. pc'[Bsp] = "smp.record" => /\ smp'.next \in DOMAIN hw'.order /\ Entry'.core \in Aps
      BY <2>3, <2>4, <2>5, <2>6, <3>1, Zenon DEF Entry
    <3>6. smp'.region # 0
      BY <2>2, <2>4
    <3>7. pc'[Bsp] # "smp.init" /\ pc'[Bsp] # "smp.greet"
      BY <2>3, <2>5
    <3> QED
      BY <3>2, <3>3, <3>4, <3>5, <3>6, <3>7, Zenon DEF Regions
  <2>8. \A r : \A a \in Aps : Given(r, a) => Given(r, a)'
    <3>1. \A r \in 1 .. smp.region : r \in 1 .. smp'.region /\ r # smp'.region
      BY <1>2, <2>4
    <3> QED
      BY <2>1, <3>1, Zenon DEF Given, Full, X86, irqVars
  <2>9. l \in Bringup /\ pc[Bsp] \in Bringup \ {"smp.sipi"}
    BY <2>1, <2>3 DEF Bringup, SmpLabels
  <2>10. DOMAIN record' = DOMAIN record /\ DOMAIN jobs' = Cores
    BY <1>1, <2>1, Zenon DEF BootType
  <2> QED
    BY <2>1, <2>4, <2>5, <2>7, <2>8, <2>9, <2>10, PreparingStep, Zenon
<1>5. CASE SmpSkip
  <2>1. /\ pc[Bsp] = "smp.next" /\ pc' = pc /\ smp' = [smp EXCEPT !.next = @ + 1]
        /\ UNCHANGED <<irqVars, pc, me, image, record, params, jobs, inside>>
    BY <1>5, Zenon DEF SmpSkip, At
  <2>2. smp.next + 1 \in Nat \ {0}
    BY <1>2
  <2>3. smp' \in SmpType /\ smp'.next = smp.next + 1 /\ smp'.region = smp.region
    BY <1>2, <2>1, <2>2, Zenon DEF SmpType
  <2>4. Moves("smp.next")
    BY <1>1, <2>1, Zenon DEF Moves, BootType
  <2>5. smp'.region < smp'.next /\ smp'.region <= smp'.next
    BY <1>2, <1>3, <2>1, <2>3
  <2>6. Regions'
    BY <2>1, <2>5 DEF Regions, SmpLabels
  <2>7. \A r : \A a \in Aps : Given(r, a) => Given(r, a)'
    BY <2>1, <2>3, Zenon DEF Given, Full, X86, irqVars
  <2>8. "smp.next" \in Bringup /\ pc[Bsp] \in Bringup \ {"smp.sipi"}
    BY <2>1 DEF Bringup, SmpLabels
  <2>9. DOMAIN record' = DOMAIN record /\ DOMAIN jobs' = Cores
    BY <1>1, <2>1, Zenon DEF BootType
  <2> QED
    BY <2>1, <2>3, <2>4, <2>6, <2>7, <2>8, <2>9, PreparingStep, Zenon
<1>6. hw.fits \in BOOLEAN /\ (Claimed /\ hw.fits) \in BOOLEAN /\ (smp.heap >= 3) \in BOOLEAN
  <2>1. hw.fits \in BOOLEAN
    BY <1>1, Zenon DEF MachineType
  <2>2. (Claimed /\ hw.fits) \in BOOLEAN
    BY Zenon
  <2>3. (smp.heap >= 3) \in BOOLEAN
    BY <1>2
  <2> QED
    BY <2>1, <2>2, <2>3, Zenon
<1>7. smp.heap - 1 \in Int /\ smp.slices - 1 \in Int /\ 0 \in Int /\ (IF smp.heap >= 3 THEN smp.heap - 3 ELSE 0) \in Int
  BY <1>2
<1>8. CASE SmpContextX86
  BY <1>2, <1>4, <1>6, <1>8, Zenon DEF SmpContextX86
<1>9. CASE SmpContextArm
  BY <1>2, <1>4, <1>6, <1>7, <1>9, Zenon DEF SmpContextArm
<1>10. CASE SmpContextShared
  BY <1>2, <1>4, <1>6, <1>7, <1>10, Zenon DEF SmpContextShared
<1> QED
  BY <1>5, <1>8, <1>9, <1>10, Zenon

(* The boot core writes the record of a core, complete and for that core.  *)
LEMMA RecordStep ==
    ASSUME BootInv, SmpRecordX86 \/ SmpRecordArm \/ SmpHandoff
    PROVE  BootInv' /\ (ProxyInv => ProxyInv')
<1>1. BootType /\ Bsp \in Cores /\ hw \in Machines /\ me[Bsp] \in Local
  BY BootAssumption, Zenon DEF BootInv, BootType
<1>2. smp \in SmpType /\ smp.next \in Nat \ {0} /\ smp.region \in Nat
  BY <1>1, Zenon DEF BootType, SmpType
<1>3. hw.image = "shared" => ~ X86
  BY <1>1, BootAssumption, Zenon DEF X86
<1>4. pc[Bsp] = "smp.record"
  BY Zenon DEF SmpRecordX86, SmpRecordArm, SmpHandoff, Record, At
<1>5. smp.next \in DOMAIN hw.order /\ Entry.core \in Aps /\ smp.region # 0 /\ smp.region <= smp.next
  BY <1>4, Zenon DEF BootInv, Regions, SmpLabels
<1>6. me[Bsp].cal = X86
  <2>1. (X86 => me[Bsp].cal) /\ (~ X86 => ~ me[Bsp].cal)
    BY <1>4, Zenon DEF BootInv, Calibrated, SmpLabels
  <2>2. me[Bsp].cal \in BOOLEAN
    BY <1>1, Zenon DEF Local
  <2> QED
    BY <2>1, <2>2, Zenon DEF X86
<1>7. PICK l \in {"smp.params", "smp.greet"} :
        /\ Goto(Bsp, l) /\ record' = [record EXCEPT ![smp.region] = Full(Entry.core)] /\ (X86 => l = "smp.params")
        /\ UNCHANGED <<irqVars, me, image, smp, params, jobs, inside>>
  <2>1. X86 => [owner |-> Entry.core, services |-> TRUE, cal |-> me[Bsp].cal, state |-> FALSE] = Full(Entry.core)
    BY <1>6, Zenon DEF Full
  <2>2. ~ X86 => [owner |-> Entry.core, services |-> TRUE, cal |-> me[Bsp].cal, state |-> TRUE] = Full(Entry.core)
    BY <1>6, Zenon DEF Full
  <2>3. CASE SmpRecordX86
    BY <2>1, <2>3, Zenon DEF SmpRecordX86, Record
  <2>4. CASE SmpRecordArm
    BY <2>2, <2>4, Zenon DEF SmpRecordArm, Record
  <2>5. CASE SmpHandoff
    BY <1>3, <2>2, <2>5, Zenon DEF SmpHandoff, Record
  <2> QED
    BY <2>3, <2>4, <2>5, Zenon
<1>8. Moves(l) /\ pc'[Bsp] = l
  BY <1>1, <1>7, Going, Zenon DEF Moves
<1>9. /\ smp.region \in DOMAIN record /\ DOMAIN record' = DOMAIN record
      /\ record'[smp.region] = Full(Entry.core) /\ \A r \in DOMAIN record \ {smp.region} : record'[r] = record[r]
  <2>1. smp.region \in 0 .. Len(hw.order)
    <3>1. hw.order \in Seq([core : Cores, enabled : BOOLEAN])
      BY <1>1, BootAssumption, Zenon DEF MachineType
    <3> QED
      BY <1>2, <1>5, <3>1
  <2>2. smp.region \in DOMAIN record
    BY <1>1, <2>1, Zenon DEF BootType
  <2> QED
    BY <1>7, <2>2, Zenon
<1>10. hw' = hw /\ smp' = smp /\ params' = params /\ (X86' <=> X86) /\ Entry' = Entry
  BY <1>7, Zenon DEF irqVars, X86, Entry
<1>11. Regions'
  <2>1. pc'[Bsp] \in SmpLabels /\ pc'[Bsp] # "smp.record" /\ pc'[Bsp] # "smp.init" /\ (X86 => pc'[Bsp] # "smp.greet")
    BY <1>7, <1>8 DEF SmpLabels
  <2>2. record'[smp'.region] = Full(Entry.core)'
    BY <1>9, <1>10, Zenon DEF Full
  <2> QED
    BY <1>5, <1>10, <2>1, <2>2, Zenon DEF Regions
<1>12. \A r : \A a \in Aps : Given(r, a) => Given(r, a)'
  <2>1. \A r \in 1 .. smp.region : r # smp.region => r \in DOMAIN record
    <3>1. \A r \in 1 .. smp.region : r \in 0 .. Len(hw.order)
      <4>1. hw.order \in Seq([core : Cores, enabled : BOOLEAN])
        BY <1>1, BootAssumption, Zenon DEF MachineType
      <4> QED
        BY <1>2, <1>5, <4>1
    <3> QED
      BY <1>1, <3>1, Zenon DEF BootType
  <2>2. \A a \in Aps : Full(a)' = Full(a)
    BY <1>10, Zenon DEF Full
  <2>3. pc'[Bsp] # "smp.record"
    BY <1>7, <1>8
  <2> QED
    BY <1>4, <1>9, <1>10, <2>1, <2>2, <2>3, Zenon DEF Given
<1>13. l \in Bringup /\ pc[Bsp] \in Bringup \ {"smp.sipi"}
  BY <1>4, <1>7 DEF Bringup, SmpLabels
<1>14. DOMAIN jobs' = Cores /\ smp' \in SmpType
  BY <1>1, <1>2, <1>7, Zenon DEF BootType
<1> QED
  BY <1>7, <1>8, <1>9, <1>11, <1>12, <1>13, <1>14, PreparingStep, Zenon

(* The records given away stay given while no region is taken or written.  *)
LEMMA GivenKept ==
    ASSUME UNCHANGED <<hw, record>>, smp'.region = smp.region, pc'[Bsp] # "smp.record"
    PROVE  \A r : \A a \in Aps : Given(r, a) => Given(r, a)'
BY Zenon DEF Given, Full, X86

(* Within one turn of the loop, after the record is written: what it holds.*)
LEMMA Turn ==
    ASSUME BootInv, pc[Bsp] \in SmpLabels \ {"smp.record"}
    PROVE  /\ smp \in SmpType /\ smp.region \in Nat \ {0} /\ smp.next \in Nat /\ smp.region <= smp.next
           /\ smp.next \in DOMAIN hw.order /\ Entry.core \in Aps /\ record[smp.region] = Full(Entry.core)
           /\ pc'[Bsp] # "smp.record" /\ UNCHANGED <<hw, record>> /\ smp'.region = smp.region
                => \E r, a : r = smp.region /\ a = Entry.core /\ Given(r, a)'
<1>1. smp \in SmpType /\ smp.region \in Nat \ {0} /\ smp.next \in Nat /\ smp.region <= smp.next
  <2>1. smp \in SmpType
    BY Zenon DEF BootInv, BootType, SmpType
  <2>2. smp.region # 0 /\ smp.region <= smp.next
    BY Zenon DEF BootInv, Regions
  <2> QED
    BY <2>1, <2>2 DEF SmpType
<1>2. smp.next \in DOMAIN hw.order /\ Entry.core \in Aps /\ record[smp.region] = Full(Entry.core)
  BY Zenon DEF BootInv, Regions
<1>3. smp.region \in 1 .. smp.region
  BY <1>1
<1>4. ASSUME pc'[Bsp] # "smp.record", UNCHANGED <<hw, record>>, smp'.region = smp.region
      PROVE  \E r, a : r = smp.region /\ a = Entry.core /\ Given(r, a)'
  <2>1. PICK r, a : r = smp.region /\ a = Entry.core
    BY Zenon
  <2>2. Given(r, a)'
    BY <1>2, <1>3, <1>4, <2>1, Zenon DEF Given, Full, X86
  <2> QED
    BY <2>1, <2>2, Zenon
<1> QED
  BY <1>1, <1>2, <1>4, Zenon

(* The parameter block is written when no core is on its way; the greeting *)
(* is queued.                                                              *)
LEMMA ParamsStep ==
    ASSUME BootInv, SmpParams \/ SmpGreet
    PROVE  BootInv' /\ (ProxyInv => ProxyInv')
<1>1. BootType /\ Bsp \in Cores /\ Aps \subseteq Cores /\ Bsp \notin Aps
  BY BootAssumption, Zenon DEF BootInv
<1>2. UNCHANGED <<irqVars, me, image, smp, record, inside>> /\ pc[Bsp] \in {"smp.params", "smp.greet"}
  BY Zenon DEF SmpParams, SmpGreet, At
<1>3. pc[Bsp] \in SmpLabels \ {"smp.record"} /\ pc[Bsp] \in Bringup \ {"smp.sipi"}
  BY <1>2 DEF SmpLabels, Bringup
<1>4. /\ smp \in SmpType /\ smp.region \in Nat \ {0} /\ smp.next \in Nat /\ smp.region <= smp.next
      /\ smp.next \in DOMAIN hw.order /\ Entry.core \in Aps /\ record[smp.region] = Full(Entry.core)
  BY <1>3, Turn, Zenon
<1>5. hw' = hw /\ smp' = smp /\ record' = record /\ (X86' <=> X86) /\ Entry' = Entry /\ Full(Entry.core)' = Full(Entry.core)
  BY <1>2, Zenon DEF irqVars, X86, Entry, Full
<1>6. icr' = icr /\ DOMAIN icr' = Cores /\ icr[Bsp].kind # "init"
  <2>1. pc[Bsp] \notin {"smp.sipi", "fault"}
    BY <1>2
  <2> QED
    BY <1>1, <1>2, <2>1, Zenon DEF BootType, BootInv, Messages, irqVars
<1>7. ASSUME NEW l \in SmpLabels \ {"smp.record"}, pc'[Bsp] = l,
             l = "smp.init" \/ (l = "smp.greet" /\ X86) => params' = [stack |-> smp.region, region |-> smp.region]
      PROVE  Regions'
  BY <1>4, <1>5, <1>7, Zenon DEF Regions
<1>8. CASE SmpParams
  <2>1. /\ Goto(Bsp, "smp.greet") /\ params' = [stack |-> smp.region, region |-> smp.region] /\ jobs' = jobs
        /\ \A a \in Aps : pc[a] \notin ResetLabels
    BY <1>8, Zenon DEF SmpParams, ResetLabels
  <2>2. Moves("smp.greet") /\ pc'[Bsp] = "smp.greet" /\ \A d \in Cores \ {Bsp} : pc'[d] = pc[d]
    BY <1>1, <2>1, Going, Zenon DEF Moves
  <2>3. "smp.greet" \in SmpLabels \ {"smp.record"} /\ "smp.greet" \in Bringup /\ "smp.greet" # "smp.record"
    BY DEF SmpLabels, Bringup
  <2>4. Regions'
    BY <1>7, <2>1, <2>2, <2>3, Zenon
  <2>5. Messages'
    BY <1>6, Zenon DEF BootInv, Messages
  <2>6. \A r : \A a \in Aps : Given(r, a) => Given(r, a)'
    BY <1>2, <2>2, <2>3, GivenKept, Zenon DEF irqVars
  <2>7. \A a \in Aps : ~ Coming(a)' /\ pc[a] # "trampoline.jump"
    BY <1>1, <1>6, <2>1, <2>2, Zenon DEF Coming, ResetLabels
  <2>8. params' \in [stack : Nat, region : Nat]
    BY <1>4, <2>1, Zenon
  <2>9. DOMAIN jobs' = Cores /\ DOMAIN record' = DOMAIN record /\ smp' \in SmpType
    BY <1>1, <1>4, <1>5, <2>1, Zenon DEF BootType
  <2>10. UNCHANGED <<hw, cpu, me, image, inside>> /\ pc[Bsp] \in Bringup
    BY <1>2, <1>3, Zenon DEF irqVars
  <2> QED
    BY <1>6, <2>2, <2>3, <2>4, <2>5, <2>6, <2>7, <2>8, <2>9, <2>10, BringupStep, Zenon
<1>9. CASE SmpGreet
  <2>1. PICK l \in {"smp.init", "smp.on"} : /\ Goto(Bsp, l) /\ (l = "smp.init" => X86) /\ params' = params /\ pc[Bsp] = "smp.greet"
                                            /\ jobs' = [jobs EXCEPT ![Entry.core] = @ \cup {"greet"}]
    BY <1>9, Zenon DEF SmpGreet, At
  <2>2. Moves(l) /\ pc'[Bsp] = l
    BY <1>1, <2>1, Going, Zenon DEF Moves
  <2>3. l \in SmpLabels \ {"smp.record"} /\ l \in Bringup /\ l # "smp.record" /\ l # "smp.greet"
    BY <2>1 DEF SmpLabels, Bringup
  <2>4. X86 => params = [stack |-> smp.region, region |-> smp.region]
    BY <2>1, Zenon DEF BootInv, Regions
  <2>5. Regions'
    BY <1>7, <2>1, <2>2, <2>3, <2>4, Zenon
  <2>6. \A r : \A a \in Aps : Given(r, a) => Given(r, a)'
    BY <1>2, <2>2, <2>3, GivenKept, Zenon DEF irqVars
  <2>7. DOMAIN jobs' = Cores /\ DOMAIN record' = DOMAIN record /\ smp' \in SmpType
    BY <1>1, <1>4, <1>5, <2>1, Zenon DEF BootType
  <2> QED
    BY <1>2, <1>3, <2>1, <2>2, <2>3, <2>5, <2>6, <2>7, PreparingStep, Zenon
<1> QED
  BY <1>8, <1>9, Zenon

(* INIT, SIPI, SIPI: each is sent when the one before it has arrived.      *)
LEMMA IpiStep ==
    ASSUME BootInv, NEW at \in {"smp.init", "smp.sipi", "smp.sipi2"}, NEW kind \in {"init", "sipi1", "sipi2"},
           NEW next \in {"smp.sipi", "smp.sipi2", "smp.next"}, SmpIpi(at, kind, next),
           kind = "init" <=> at = "smp.init", kind = "init" <=> next = "smp.sipi", kind = "sipi2" <=> next = "smp.next"
    PROVE  BootInv' /\ (ProxyInv => ProxyInv')
<1>1. BootType /\ Bsp \in Cores /\ Aps \subseteq Cores /\ Bsp \notin Aps
  BY BootAssumption, Zenon DEF BootInv
<1>2. /\ pc[Bsp] = at /\ icr[Bsp] = Idle /\ icr' = [icr EXCEPT ![Bsp] = [kind |-> kind, to |-> Entry.core]] /\ Goto(Bsp, next)
      /\ smp' = IF kind = "sipi2" THEN [smp EXCEPT !.next = @ + 1] ELSE smp
      /\ UNCHANGED <<hw, cpu, table, router, me, image, record, params, jobs, inside>>
  BY Zenon DEF SmpIpi, Send, At
<1>3. pc[Bsp] \in SmpLabels \ {"smp.record"} /\ pc[Bsp] \in Bringup /\ next \in Bringup /\ next # "smp.record"
  BY <1>2 DEF SmpLabels, Bringup
<1>4. /\ smp \in SmpType /\ smp.region \in Nat \ {0} /\ smp.next \in Nat /\ smp.region <= smp.next
      /\ smp.next \in DOMAIN hw.order /\ Entry.core \in Aps /\ record[smp.region] = Full(Entry.core)
  BY <1>3, Turn, Zenon
<1>5. Moves(next) /\ pc'[Bsp] = next /\ \A d \in Cores \ {Bsp} : pc'[d] = pc[d]
  BY <1>1, <1>2, Going, Zenon DEF Moves
<1>6. DOMAIN icr' = Cores /\ icr'[Bsp] = [kind |-> kind, to |-> Entry.core] /\ \A d \in Cores \ {Bsp} : icr'[d] = icr[d]
  BY <1>1, <1>2, Zenon DEF BootType
<1>7. icr'[Bsp].kind = kind /\ icr'[Bsp].to = Entry.core
  BY <1>6
<1>8. Messages'
  <2>1. \A d \in Cores : Started(icr'[d].kind) => d = Bsp /\ icr'[d].to \in Aps
    BY <1>4, <1>6, <1>7, Zenon DEF BootInv, Messages
  <2> QED
    BY <1>5, <1>7, <2>1, Zenon DEF Messages
<1>9. /\ smp' \in SmpType /\ smp'.region = smp.region
      /\ kind # "sipi2" => smp' = smp
      /\ kind = "sipi2" => smp'.region <= smp'.next /\ smp'.region < smp'.next
  <2>1. smp.next + 1 \in Nat \ {0} /\ smp.region <= smp.next + 1 /\ smp.region < smp.next + 1
    BY <1>4
  <2>2. /\ [smp EXCEPT !.next = @ + 1] \in SmpType /\ [smp EXCEPT !.next = @ + 1].region = smp.region
        /\ [smp EXCEPT !.next = @ + 1].next = smp.next + 1
    BY <1>4, <2>1, Zenon DEF SmpType
  <2> QED
    BY <1>2, <1>4, <2>1, <2>2, Zenon
<1>10. hw' = hw /\ record' = record /\ (X86' <=> X86) /\ (smp' = smp => Entry' = Entry) /\ Full(Entry.core)' = Full(Entry'.core)
  BY <1>2, Zenon DEF X86, Entry, Full
<1>11. Regions'
  <2>1. pc'[Bsp] # "smp.init" /\ pc'[Bsp] # "smp.greet"
    BY <1>5
  <2>2. CASE kind = "sipi2"
    <3>1. pc'[Bsp] = "smp.next" /\ "smp.next" \notin SmpLabels
      BY <1>5, <2>2 DEF SmpLabels
    <3> QED
      BY <1>9, <2>1, <2>2, <3>1, Zenon DEF Regions
  <2>3. CASE kind # "sipi2"
    <3>1. pc'[Bsp] \in SmpLabels
      BY <1>5, <2>3 DEF SmpLabels
    <3>2. smp' = smp /\ Entry' = Entry /\ record'[smp'.region] = Full(Entry.core)'
      BY <1>4, <1>9, <1>10, <2>3, Zenon DEF Full
    <3> QED
      BY <1>4, <1>10, <2>1, <3>1, <3>2, Zenon DEF Regions
  <2> QED
    BY <2>2, <2>3, Zenon
<1>12. \A r : \A a \in Aps : Given(r, a) => Given(r, a)'
  BY <1>2, <1>3, <1>5, <1>9, GivenKept, Zenon
<1>13. ASSUME NEW a \in Aps, Coming(a)'
       PROVE  \/ Coming(a) /\ params' = params
              \/ params'.stack = params'.region /\ \E r : r = params'.region /\ Given(r, a)'
  <2>1. CASE pc'[a] \in ResetLabels
    BY <1>1, <1>2, <1>5, <2>1, Zenon DEF Coming
  <2>2. CASE pc'[a] \notin ResetLabels
    <3>1. kind = "init" /\ a = Entry.core
      BY <1>7, <1>13, <2>2, Zenon DEF Coming
    <3>2. params = [stack |-> smp.region, region |-> smp.region]
      BY <1>2, <3>1, Zenon DEF BootInv, Regions
    <3>3. params'.stack = smp.region /\ params'.region = smp.region
      BY <1>2, <3>2, Zenon
    <3>4. PICK r, b : r = smp.region /\ b = Entry.core /\ Given(r, b)'
      BY <1>2, <1>3, <1>5, <1>9, Turn, Zenon
    <3> QED
      BY <3>1, <3>3, <3>4, Zenon
  <2> QED
    BY <2>1, <2>2, Zenon
<1>14. DOMAIN record' = DOMAIN record /\ params' = params /\ params' \in [stack : Nat, region : Nat] /\ DOMAIN jobs' = Cores
  BY <1>1, <1>2, Zenon DEF BootType
<1> QED
  BY <1>2, <1>3, <1>5, <1>6, <1>8, <1>9, <1>11, <1>12, <1>13, <1>14, BringupStep, ZenonT(60)

(* PSCI CPU_ON starts a core with the record written for it.               *)
LEMMA CpuOnStep ==
    ASSUME BootInv, SmpCpuOn
    PROVE  BootInv' /\ (ProxyInv => ProxyInv')
<1>1. BootType /\ Bsp \in Cores /\ Aps \subseteq Cores /\ Bsp \notin Aps /\ Cores = Aps \cup {Bsp}
  BY BootAssumption, Zenon DEF BootInv
<1>2. pc[Bsp] = "smp.on" /\ smp' = [smp EXCEPT !.next = @ + 1] /\ UNCHANGED <<irqVars, image, record, params, jobs, inside>>
  BY Zenon DEF SmpCpuOn, At
<1>3. pc[Bsp] \in SmpLabels \ {"smp.record"} /\ pc[Bsp] \in Bringup \ {"smp.sipi"}
  BY <1>2 DEF SmpLabels, Bringup
<1>4. /\ smp \in SmpType /\ smp.region \in Nat \ {0} /\ smp.next \in Nat /\ smp.region <= smp.next
      /\ smp.next \in DOMAIN hw.order /\ Entry.core \in Aps /\ record[smp.region] = Full(Entry.core)
  BY <1>3, Turn, Zenon
<1>5. smp' \in SmpType /\ smp'.region = smp.region /\ smp'.region < smp'.next /\ smp'.region <= smp'.next
  <2>1. smp.next + 1 \in Nat \ {0} /\ smp.region < smp.next + 1 /\ smp.region <= smp.next + 1
    BY <1>4
  <2>2. smp' \in SmpType /\ smp'.region = smp.region /\ smp'.next = smp.next + 1
    BY <1>2, <1>4, <2>1, Zenon DEF SmpType
  <2> QED
    BY <2>1, <2>2, Zenon
<1>6. "smp.next" \in Bringup /\ "smp.next" \notin SmpLabels \cup EarlyLabels /\ "smp.next" # "smp.record"
  BY DEF Bringup, SmpLabels, EarlyLabels
<1>7. pc'[Bsp] = "smp.next" => Regions'
  BY <1>5, <1>6 DEF Regions
<1>8. pc'[Bsp] = "smp.next" => \A r : \A a \in Aps : Given(r, a) => Given(r, a)'
  BY <1>2, <1>5, <1>6, GivenKept, Zenon DEF irqVars
<1>9. CASE Goto(Bsp, "smp.next") /\ me' = me
  <2>1. Moves("smp.next") /\ pc'[Bsp] = "smp.next"
    BY <1>1, <1>9, Going, Zenon DEF Moves
  <2>2. DOMAIN jobs' = Cores /\ DOMAIN record' = DOMAIN record
    BY <1>1, <1>2, Zenon DEF BootType
  <2> QED
    BY <1>2, <1>3, <1>5, <1>6, <1>7, <1>8, <1>9, <2>1, <2>2, PreparingStep, Zenon
<1>10. CASE /\ pc' = [pc EXCEPT ![Bsp] = "smp.next", ![Entry.core] = "start"]
            /\ Set(Entry.core, [me[Entry.core] EXCEPT !.region = smp.region, !.stack = smp.region])
  <2>1. PICK a, k : a = Entry.core /\ k = smp.region
    BY Zenon
  <2>2. a \in Aps /\ a \in Cores /\ a # Bsp /\ k \in Nat
    BY <1>1, <1>4, <2>1
  <2>3. DOMAIN pc' = Cores /\ pc'[Bsp] = "smp.next" /\ pc'[a] = "start" /\ \A d \in Cores \ {a, Bsp} : pc'[d] = pc[d]
    BY <1>1, <1>10, <2>1, <2>2, Zenon DEF BootType
  <2>4. /\ me' \in [Cores -> Local] /\ (\A d \in Cores \ {a} : me'[d] = me[d])
        /\ me'[a].region = k /\ me'[a].stack = k /\ me'[a].handle = me[a].handle
    <3> DEFINE q == [me[a] EXCEPT !.region = k, !.stack = k]
    <3>1. me[a] \in Local
      BY <1>1, <2>2, Zenon DEF BootType
    <3>2. q \in Local /\ q.region = k /\ q.stack = k /\ q.handle = me[a].handle
      BY <2>2, <3>1, Zenon DEF Local
    <3>3. Set(a, q)
      BY <1>10, <2>1, Zenon
    <3> HIDE DEF q
    <3>4. me' \in [Cores -> Local] /\ me'[a] = q /\ \A d \in Cores \ {a} : me'[d] = me[d]
      BY <1>1, <2>2, <3>2, <3>3, Setting, Zenon
    <3> QED
      BY <3>2, <3>4, Zenon
  <2>5. hw' = hw /\ icr' = icr /\ cpu' = cpu /\ (X86' <=> X86) /\ FirstRet' = FirstRet
    BY <1>2, Zenon DEF irqVars, X86, FirstRet
  <2>6. BootType'
    BY <1>1, <1>2, <1>5, <2>3, <2>4, <2>5, Zenon DEF BootType, Statics, SmpType
  <2>7. Quiet'
    <3>1. "start" \notin ResetLabels \cup {"off"}
      BY DEF ResetLabels
    <3> QED
      BY <1>1, <2>3, <2>5, <3>1, Zenon DEF BootInv, Quiet
  <2>8. Messages'
    <3>1. icr[Bsp].kind # "init"
      <4>1. pc[Bsp] \notin {"smp.sipi", "fault"}
        BY <1>2
      <4> QED
        BY <4>1, Zenon DEF BootInv, Messages
    <3> QED
      BY <2>5, <3>1, Zenon DEF BootInv, Messages
  <2>9. ~ Configures(Bsp)' /\ ~ Booting' /\ ~ Configures(a)' /\ pc'[Bsp] # "cal" /\ pc'[Bsp] \notin ResetLabels \cup {"off"}
    BY <1>6, <2>3 DEF Configures, Booting, ResetLabels
  <2>10. Excluded'
    <3>1. \A d \in Cores \ {a, Bsp} : (Configures(d)' => Configures(d)) /\ me'[d] = me[d]
      BY <2>3, <2>4, Zenon DEF Configures
    <3>2. \A d \in Cores : Configures(d)' => d \in Cores \ {a, Bsp}
      BY <2>9, Zenon
    <3>3. \A d \in Cores : Configures(d)' => d \in inside'[HwMutex]
      BY <1>2, <3>1, <3>2, Zenon DEF BootInv, Excluded
    <3>4. \A b \in Aps : pc'[b] # "early"
      <4>1. \A b \in Aps : pc[b] # "early"
        BY Zenon DEF BootInv, Excluded
      <4> QED
        BY <1>1, <2>3, <4>1
    <3>5. \A b \in Aps : Configures(b)' => me'[b].ret = "unlock"
      BY <1>1, <3>1, <3>2, Zenon DEF BootInv, Excluded
    <3>6. \A d, e \in inside'[HwMutex] : d = e
      BY <1>2, Zenon DEF BootInv, Excluded
    <3> QED
      BY <2>9, <3>3, <3>4, <3>5, <3>6, Zenon DEF Excluded
  <2>11. Calibrated'
    <3>1. me'[Bsp] = me[Bsp] /\ "smp.next" \notin {"run", "idle"}
      BY <1>1, <2>2, <2>4, Zenon
    <3>2. (X86 => me[Bsp].cal) /\ (~ X86 => ~ me[Bsp].cal)
      BY <1>3, Zenon DEF BootInv, Calibrated
    <3> QED
      BY <2>3, <2>5, <3>1, <3>2, Zenon DEF Calibrated
  <2>12. Given(k, a)'
    <3>1. \E r, b : r = smp.region /\ b = Entry.core /\ Given(r, b)'
      BY <1>2, <1>3, <1>5, <1>6, <2>3, <2>5, Turn, Zenon
    <3> QED
      BY <2>1, <3>1, Zenon
  <2>13. Handoffs'
    <3> SUFFICES ASSUME NEW b \in Aps
                 PROVE  /\ Coming(b)' => params'.stack = params'.region /\ Given(params.region, b)'
                        /\ pc'[b] = "trampoline.jump" => me'[b].stack = params'.stack
                        /\ Running(b)' => me'[b].stack = me'[b].region /\ \E r : r = me'[b].region /\ Given(r, b)'
      BY <1>2, Zenon DEF Handoffs, Given
    <3>1. /\ Coming(b) => params.stack = params.region /\ Given(params.region, b)
          /\ pc[b] = "trampoline.jump" => me[b].stack = params.stack
          /\ Running(b) => me[b].stack = me[b].region /\ Given(me[b].region, b)
      BY Zenon DEF BootInv, Handoffs
    <3>2. \A r : Given(r, b) => Given(r, b)'
      BY <1>8, <2>3, Zenon
    <3>3. pc'[b] \in ResetLabels => pc'[b] = pc[b] /\ b # a
      BY <1>1, <2>3 DEF ResetLabels
    <3>4. Coming(b)' => Coming(b)
      BY <2>5, <3>3, Zenon DEF Coming
    <3>5. pc'[b] = "trampoline.jump" => pc[b] = "trampoline.jump" /\ b # a
      BY <3>3, Zenon DEF ResetLabels
    <3>6. b # a /\ Running(b)' => Running(b) /\ me'[b] = me[b]
      BY <1>1, <2>3, <2>4, Zenon DEF Running
    <3>7. params' = params
      BY <1>2, Zenon
    <3>8. Coming(b)' => params'.stack = params'.region /\ Given(params.region, b)'
      BY <3>1, <3>2, <3>4, <3>7, Zenon
    <3>9. pc'[b] = "trampoline.jump" => me'[b].stack = params'.stack
      BY <1>1, <2>4, <3>1, <3>5, <3>7, Zenon
    <3>10. Running(b)' => me'[b].stack = me'[b].region /\ \E r : r = me'[b].region /\ Given(r, b)'
      BY <2>4, <2>12, <3>1, <3>2, <3>6, Zenon
    <3> QED
      BY <3>8, <3>9, <3>10, Zenon
  <2>14. ASSUME ProxyInv
         PROVE  ProxyInv'
    <3> SUFFICES ASSUME OwnImages, NEW d \in Cores
                 PROVE  OwnProxies(d)'
      BY <2>5, Zenon DEF ProxyInv, OwnImages
    <3>1. OwnProxies(d) /\ me'[d].handle = me[d].handle /\ image' = image
      BY <1>2, <2>4, <2>14, Zenon DEF ProxyInv
    <3>2. Staged(d)' => Staged(d) /\ Made(d)' = Made(d)
      <4>1. CASE d \in {a, Bsp}
        <5>1. ~ Staged(d)'
          BY <2>3, <2>9, <4>1 DEF Staged
        <5> QED
          BY <5>1, Zenon
      <4>2. CASE d \notin {a, Bsp}
        <5>1. pc'[d] = pc[d]
          BY <2>3, <4>2, Zenon
        <5> QED
          BY <2>5, <4>2, <5>1, Zenon DEF Staged, Made
      <4> QED
        BY <4>1, <4>2, Zenon
    <3> QED
      BY <3>1, <3>2, Zenon DEF OwnProxies, Target
  <2> QED
    BY <1>7, <2>3, <2>6, <2>7, <2>8, <2>10, <2>11, <2>13, <2>14, Zenon DEF BootInv
<1> QED
  BY <1>9, <1>10, Zenon DEF SmpCpuOn
-----------------------------------------------------------------------------
(* What create_proxy_common does: it returns a slot that was free and that *)
(* no free slot is below, or none if all are taken.                        *)
Created(c, service, s) ==
    LET i == Image(c) IN
    /\ s \in Slots \cup {0} /\ me'[c].handle[service] = s
    /\ \A t \in Handles \ {service} : me'[c].handle[t] = me[c].handle[t]
    /\ \A d \in Cores \ {i} : image'[d] = image[d]
    /\ s = 0 => Slots \subseteq image[i].used /\ image' = image
    /\ s # 0 => /\ s \notin image[i].used /\ \A x \in Slots \ image[i].used : s <= x
                /\ image'[i].used = image[i].used \cup {s} /\ image'[i].slot[s] = Target(c, service)
                /\ \A t \in Slots \ {s} : image'[i].slot[t] = image[i].slot[t]

(* create_proxy_common does what Created says and touches nothing else of  *)
(* the core.                                                               *)
LEMMA CreateProxyMakes ==
    ASSUME BootType, NEW c \in Cores, NEW service \in Handles, CreateProxy(c, service)
    PROVE  /\ Typed /\ me' \in [Cores -> Local] /\ \A d \in Cores \ {c} : me'[d] = me[d]
           /\ me'[c].ret = me[c].ret /\ me'[c].stack = me[c].stack /\ me'[c].region = me[c].region
           /\ me'[c].cal = me[c].cal /\ \E s : Created(c, service, s)
<1> DEFINE i == Image(c)
<1>1. i \in Cores /\ image[i] \in Statics /\ me[c] \in Local
  BY ImageOf, Zenon DEF BootType
<1>2. image[i].used \in SUBSET Slots /\ image[i].slot \in [Slots -> {"none", "routed", "local"} \X {"none", "mutex", "sched", "serial"}]
  BY <1>1, Zenon DEF Statics
<1>3. Free(i) \in SUBSET Nat /\ 0 \notin Slots /\ Slots \subseteq Nat
  BY BootAssumption DEF Free, Slots
<1>4. PICK s \in Slots \cup {0} :
        /\ IF s = 0 THEN Free(i) = {} ELSE s \in Free(i) /\ \A x \in Free(i) : s <= x
        /\ image' = IF s = 0 THEN image
                    ELSE [image EXCEPT ![i].slot[s] = Target(c, service), ![i].used = @ \cup {s}]
        /\ Set(c, [me[c] EXCEPT !.handle[service] = s])
  BY Zenon DEF CreateProxy
<1>5. /\ image' = IF s = 0 THEN image ELSE [image EXCEPT ![i].slot[s] = Target(c, service), ![i].used = @ \cup {s}]
      /\ Set(c, [me[c] EXCEPT !.handle[service] = s])
  BY <1>4, Zenon
<1>6. s \in Slots \cup {0} /\ s \in Nat /\ (s = 0 => Slots \subseteq image[i].used)
      /\ (s # 0 => s \in Slots /\ s \notin image[i].used /\ \A x \in Slots \ image[i].used : s <= x)
  <2>1. Free(i) = Slots \ image[i].used
    BY Zenon DEF Free
  <2>2. CASE s = 0
    <3>1. Slots \subseteq image[i].used
      BY <1>4, <2>1, <2>2, Zenon
    <3> QED
      BY <2>2, <3>1
  <2>3. CASE s # 0
    BY <1>3, <1>4, <2>1, <2>3, Zenon
  <2> QED
    BY <2>2, <2>3, Zenon
<1> DEFINE q == [me[c] EXCEPT !.handle[service] = s]
<1>7. /\ q \in Local /\ q.ret = me[c].ret /\ q.stack = me[c].stack /\ q.region = me[c].region /\ q.cal = me[c].cal
      /\ q.handle[service] = s /\ \A t \in Handles \ {service} : q.handle[t] = me[c].handle[t]
  BY <1>1, <1>6, Zenon DEF Local
<1>8. Set(c, q)
  BY <1>5, Zenon
<1> HIDE DEF q
<1>9. me' \in [Cores -> Local] /\ me'[c] = q /\ \A d \in Cores \ {c} : me'[d] = me[d]
  BY <1>7, <1>8, Setting, Zenon
<1>10. Target(c, service) \in {"none", "routed", "local"} \X {"none", "mutex", "sched", "serial"}
  BY Zenon DEF Target, Handles
<1>11. CASE s = 0
  <2>1. Typed /\ image' = image
    BY <1>5, <1>11, Zenon DEF Typed, BootType
  <2>2. Created(c, service, s)
    BY <1>6, <1>7, <1>9, <1>11, <2>1, Zenon DEF Created
  <2> QED
    BY <1>7, <1>9, <2>1, <2>2, Zenon
<1>12. CASE s # 0
  <2> DEFINE v == [image[i] EXCEPT !.slot[s] = Target(c, service), !.used = @ \cup {s}]
  <2>1. image' = [image EXCEPT ![i] = v]
    BY <1>1, <1>5, <1>12, Zenon DEF BootType
  <2>2. /\ v \in Statics /\ v.used = image[i].used \cup {s} /\ v.slot[s] = Target(c, service)
        /\ \A t \in Slots \ {s} : v.slot[t] = image[i].slot[t]
    BY <1>1, <1>2, <1>6, <1>10, <1>12, Zenon DEF Statics
  <2> HIDE DEF v
  <2>3. Typed /\ image'[i] = v /\ \A d \in Cores \ {i} : image'[d] = image[d]
    BY <1>1, <2>1, <2>2, Adjusting, Zenon
  <2>4. Created(c, service, s)
    BY <1>6, <1>7, <1>9, <1>12, <2>2, <2>3, Zenon DEF Created
  <2> QED
    BY <1>7, <1>9, <2>3, <2>4, Zenon
<1> QED
  BY <1>11, <1>12, Zenon

(* A step of c after which k slots of its table are used, in the order of  *)
(* main's calls.                                                           *)
Ordered(c, k) ==
    /\ image'[c].used = 1 .. k \cap Slots
    /\ \A t \in Handles : me'[c].handle[t] # 0 =>
         /\ me'[c].handle[t] = Rank(c, t) /\ me'[c].handle[t] \in Slots
         /\ image'[c].slot[me'[c].handle[t]] = Target(c, t)
    /\ \A d \in Cores \ {c} : image'[d] = image[d]

(* The k+1st proxy of a core with an image of its own gets slot k+1, if    *)
(* there is one.                                                           *)
LEMMA InOrder ==
    ASSUME BootType, NEW c \in Cores, NEW service \in Handles, NEW s, Created(c, service, s),
           OwnImages, OwnProxies(c), NEW k \in Nat, image[c].used = 1 .. k \cap Slots, Rank(c, service) = k + 1
    PROVE  Ordered(c, k + 1)
<1> SUFFICES /\ image'[c].used = 1 .. (k + 1) \cap Slots
             /\ \A t \in Handles : me'[c].handle[t] # 0 =>
                  /\ me'[c].handle[t] = Rank(c, t) /\ me'[c].handle[t] \in Slots
                  /\ image'[c].slot[me'[c].handle[t]] = Target(c, t)
             /\ \A d \in Cores \ {c} : image'[d] = image[d]
  BY Zenon DEF Ordered
<1>1. Image(c) = c /\ MaxProxies \in Nat
  BY ImageOf, BootAssumption, Zenon
<1>2. /\ s \in Slots \cup {0} /\ me'[c].handle[service] = s
      /\ \A t \in Handles \ {service} : me'[c].handle[t] = me[c].handle[t]
      /\ \A d \in Cores \ {c} : image'[d] = image[d]
      /\ s = 0 => Slots \subseteq image[c].used /\ image' = image
      /\ s # 0 => /\ s \notin image[c].used /\ \A x \in Slots \ image[c].used : s <= x
                  /\ image'[c].used = image[c].used \cup {s} /\ image'[c].slot[s] = Target(c, service)
                  /\ \A t \in Slots \ {s} : image'[c].slot[t] = image[c].slot[t]
  BY <1>1, Zenon DEF Created
<1>3. s # 0 => s = k + 1 /\ s \in Slots
  <2>1. ASSUME s # 0
        PROVE  s = k + 1 /\ s \in Slots
    <3>1. s \in 1 .. MaxProxies /\ s \notin 1 .. k
      BY <1>2, <2>1 DEF Slots
    <3>2. k + 1 \in Slots \ image[c].used
      BY <1>1, <3>1 DEF Slots
    <3>3. s <= k + 1
      BY <1>2, <2>1, <3>2, Zenon
    <3> QED
      BY <3>1, <3>3 DEF Slots
  <2> QED
    BY <2>1, Zenon
<1>4. image'[c].used = 1 .. (k + 1) \cap Slots
  <2>1. CASE s = 0
    <3>1. 1 .. k \cap Slots = 1 .. (k + 1) \cap Slots
      BY <1>1, <1>2, <2>1 DEF Slots
    <3> QED
      BY <1>2, <2>1, <3>1, Zenon
  <2>2. CASE s # 0
    <3>1. (1 .. k \cap Slots) \cup {k + 1} = 1 .. (k + 1) \cap Slots
      BY <1>1, <1>3, <2>2 DEF Slots
    <3> QED
      BY <1>2, <1>3, <2>2, <3>1, Zenon
  <2> QED
    BY <2>1, <2>2, Zenon
<1>5. ASSUME NEW t \in Handles, me'[c].handle[t] # 0
      PROVE  /\ me'[c].handle[t] = Rank(c, t) /\ me'[c].handle[t] \in Slots
             /\ image'[c].slot[me'[c].handle[t]] = Target(c, t)
  <2>1. CASE t = service
    BY <1>2, <1>3, <1>5, <2>1, Zenon
  <2>2. CASE t # service
    <3>1. me'[c].handle[t] = me[c].handle[t] /\ me[c].handle[t] # 0
      BY <1>2, <1>5, <2>2, Zenon
    <3>2. me[c].handle[t] = Rank(c, t) /\ me[c].handle[t] \in Slots /\ image[c].slot[me[c].handle[t]] = Target(c, t)
      BY <3>1, Zenon DEF OwnProxies
    <3>3. Rank(c, t) # Rank(c, service)
      BY <2>2 DEF Rank, Handles
    <3>4. image'[c].slot[me[c].handle[t]] = image[c].slot[me[c].handle[t]]
      BY <1>2, <1>3, <3>2, <3>3, Zenon
    <3> QED
      BY <3>1, <3>2, <3>4, Zenon
  <2> QED
    BY <2>1, <2>2, Zenon
<1> QED
  BY <1>2, <1>4, <1>5, Zenon

(* coreinit_main's three proxies.                                          *)
LEMMA CreateStep ==
    ASSUME BootInv, NEW c \in Cores, NEW l \in {"scheduler", "early", "topo", "join", "run"}, Goto(c, l),
           pc[c] \in {"services", "scheduler", "join"}, l = "early" => c = Bsp,
           UNCHANGED <<irqVars, smp, record, params, inside>>,
           DOMAIN jobs' = Cores, \A d \in Cores \ {c} : jobs'[d] = jobs[d], l # "run" => jobs'[c] = jobs[c],
           c = Bsp /\ l = "run" /\ "smp" \in jobs'[c] => "timer" \in jobs'[c],
           \/ UNCHANGED <<image, me>> /\ (l # "run" => Made(c)' = Made(c))
           \/ \E service \in Handles : /\ CreateProxy(c, service) /\ Rank(c, service) = Made(c) + 1
                                       /\ l # "run" => Made(c)' = Made(c) + 1
    PROVE  BootInv' /\ (ProxyInv => ProxyInv')
<1>1. BootType
  BY Zenon DEF BootInv
<1>2. DOMAIN pc' = Cores /\ pc'[c] = l /\ \A d \in Cores \ {c} : pc'[d] = pc[d]
  BY <1>1, Going, Zenon
<1>3. /\ Typed /\ me' \in [Cores -> Local] /\ \A d \in Cores \ {c} : me'[d] = me[d]
      /\ me'[c].ret = me[c].ret /\ me'[c].stack = me[c].stack /\ me'[c].region = me[c].region
      /\ me'[c].cal = me[c].cal
  <2>1. CASE UNCHANGED <<image, me>>
    BY <1>1, <2>1, Zenon DEF BootType, Typed
  <2>2. CASE \E service \in Handles : CreateProxy(c, service)
    BY <1>1, <2>2, CreateProxyMakes, Zenon
  <2> QED
    BY <2>1, <2>2, Zenon
<1>4. Only(c)
  BY <1>1, <1>2, <1>3, Zenon DEF Only, BootType, irqVars
<1>5. /\ pc[c] \notin ResetLabels \cup SmpLabels \cup {"off", "fault"} /\ pc'[c] \notin ResetLabels \cup SmpLabels \cup {"off"}
      /\ ~ Configures(c)' /\ pc[c] \in EarlyLabels /\ (pc'[c] \in EarlyLabels => l # "run")
      /\ pc'[c] \notin LateLabels \cup {"smp", "smp.next", "idle"}
  BY <1>2 DEF ResetLabels, SmpLabels, EarlyLabels, LateLabels, Configures
<1>6. Forward(c)
  BY <1>3, <1>4, <1>5, Zenon DEF Forward, irqVars
<1>7. c = Bsp => Ready(c)
  BY <1>2, <1>5, Zenon DEF Ready
<1>8. pc'[c] \in EarlyLabels => c = Bsp \/ pc'[c] # "early"
  BY <1>2, Zenon
<1>9. BootInv'
  BY <1>3, <1>5, <1>6, <1>7, <1>8, OutsideStep, Zenon
<1>10. Staged(c) /\ Made(c) \in Nat /\ (Staged(c)' => l # "run")
  BY <1>2, <1>5 DEF Staged, Made, EarlyLabels
<1>11. ASSUME ProxyInv
       PROVE  ProxyInv'
  <2>1. CASE UNCHANGED <<image, me>> /\ (l # "run" => Made(c)' = Made(c))
    <3>1. OwnImages /\ Staged(c)' => image'[c].used = 1 .. Made(c)' \cap Slots
      BY <1>10, <1>11, <2>1, Zenon DEF ProxyInv, OwnProxies
    <3> QED
      BY <1>4, <1>11, <2>1, <3>1, ProxyKept, Zenon
  <2>2. ASSUME NEW service \in Handles, CreateProxy(c, service), Rank(c, service) = Made(c) + 1,
               l # "run" => Made(c)' = Made(c) + 1
        PROVE  ProxyInv'
    <3>1. ASSUME OwnImages
          PROVE  OwnProxies(c)' /\ \A d \in Cores \ {c} : image'[d] = image[d]
      <4>1. PICK s : Created(c, service, s)
        BY <1>1, <2>2, CreateProxyMakes, Zenon
      <4>2. OwnProxies(c) /\ image[c].used = 1 .. Made(c) \cap Slots
        BY <1>10, <1>11, <3>1, Zenon DEF ProxyInv, OwnProxies
      <4>3. PICK k \in Nat : k = Made(c)
        BY <1>10, Zenon
      <4>4. image[c].used = 1 .. k \cap Slots /\ Rank(c, service) = k + 1
        BY <2>2, <4>2, <4>3, Zenon
      <4>5. Ordered(c, k + 1)
        BY <1>1, <3>1, <4>1, <4>2, <4>4, InOrder, Zenon
      <4>6. Ordered(c, Made(c) + 1)
        BY <4>3, <4>5, Zenon
      <4> QED
        BY <1>10, <2>2, <4>6, Zenon DEF Ordered, OwnProxies, Target
    <3> QED
      BY <1>4, <1>11, <3>1, ProxyStep, Zenon
  <2> QED
    BY <2>1, <2>2, Zenon
<1> QED
  BY <1>9, <1>11, Zenon

(* Services, Scheduler and Join.                                           *)
LEMMA MainStep ==
    ASSUME BootInv, NEW c \in Cores, Services(c) \/ Scheduler(c) \/ Join(c)
    PROVE  BootInv' /\ (ProxyInv => ProxyInv')
<1>1. BootType
  BY Zenon DEF BootInv
<1>2. UNCHANGED <<irqVars, smp, record, params, inside>> /\ pc[c] \in {"services", "scheduler", "join"}
  BY Zenon DEF Services, Scheduler, Join, At
<1>3. hw' = hw /\ {"mutex", "sched", "serial"} \subseteq Handles
  BY <1>2, Zenon DEF irqVars, Handles
<1>4. jobs' = jobs => DOMAIN jobs' = Cores /\ (\A d \in Cores \ {c} : jobs'[d] = jobs[d]) /\ jobs'[c] = jobs[c]
  BY <1>1, Zenon DEF BootType
<1>5. CASE Services(c)
  <2>1. /\ pc[c] = "services" /\ Goto(c, "scheduler") /\ jobs' = jobs
        /\ (c = Bsp /\ UNCHANGED <<image, me>>) \/ (c # Bsp /\ CreateProxy(c, "mutex"))
    BY <1>5, Zenon DEF Services, At
  <2>2. pc'[c] = "scheduler"
    BY <1>1, <2>1, Going, Zenon
  <2>3. /\ c = Bsp => Made(c)' = Made(c)
        /\ c # Bsp => Made(c)' = Made(c) + 1 /\ Rank(c, "mutex") = Made(c) + 1
    BY <2>1, <2>2 DEF Made, Rank
  <2>4. \/ UNCHANGED <<image, me>> /\ Made(c)' = Made(c)
        \/ \E service \in Handles : /\ CreateProxy(c, service) /\ Rank(c, service) = Made(c) + 1
                                    /\ Made(c)' = Made(c) + 1
    BY <1>3, <2>1, <2>3, Zenon
  <2> QED
    BY <1>2, <1>4, <2>1, <2>4, CreateStep, Zenon
<1>6. CASE Scheduler(c)
  <2>1. PICK l \in {"early", "topo", "join"} :
          /\ pc[c] = "scheduler" /\ Goto(c, l) /\ jobs' = jobs /\ (l = "early" => c = Bsp)
          /\ \/ c # Bsp /\ CreateProxy(c, "sched")
             \/ c = Bsp /\ hw.net /\ CreateProxy(c, "sched")
             \/ c = Bsp /\ ~ hw.net /\ UNCHANGED <<image, me>>
    BY <1>6, Zenon DEF Scheduler, At
  <2>2. pc'[c] = l
    BY <1>1, <2>1, Going, Zenon
  <2>3. /\ c # Bsp \/ hw.net => Made(c)' = Made(c) + 1 /\ Rank(c, "sched") = Made(c) + 1
        /\ c = Bsp /\ ~ hw.net => Made(c)' = Made(c)
    BY <1>3, <2>1, <2>2 DEF Made, Rank
  <2>4. \/ UNCHANGED <<image, me>> /\ Made(c)' = Made(c)
        \/ \E service \in Handles : /\ CreateProxy(c, service) /\ Rank(c, service) = Made(c) + 1
                                    /\ Made(c)' = Made(c) + 1
    BY <1>3, <2>1, <2>3, Zenon
  <2>5. l # "run" /\ l \in {"scheduler", "early", "topo", "join", "run"}
    BY <2>1
  <2> QED
    BY <1>2, <1>4, <2>1, <2>4, <2>5, CreateStep, Zenon
<1>7. CASE Join(c)
  <2>1. /\ pc[c] = "join" /\ Goto(c, "run")
        /\ (c = Bsp /\ ~ hw.net /\ UNCHANGED <<image, me>>) \/ (~ (c = Bsp /\ ~ hw.net) /\ CreateProxy(c, "serial"))
        /\ jobs' = [jobs EXCEPT ![c] = @ \cup IF hw.found THEN {"timer", "smp", "rest"} ELSE {"rest"}]
    BY <1>7, Zenon DEF Join, At
  <2>2. ~ (c = Bsp /\ ~ hw.net) => Rank(c, "serial") = Made(c) + 1
    BY <2>1 DEF Made, Rank
  <2>3. /\ DOMAIN jobs' = Cores /\ (\A d \in Cores \ {c} : jobs'[d] = jobs[d])
        /\ jobs'[c] = jobs[c] \cup IF hw.found THEN {"timer", "smp", "rest"} ELSE {"rest"}
    BY <1>1, <2>1, Zenon DEF BootType
  <2>4. c = Bsp => "smp" \notin jobs[c]
    BY <2>1, Zenon DEF BootInv, Excluded, Booting, EarlyLabels
  <2>5. c = Bsp /\ "smp" \in jobs'[c] => "timer" \in jobs'[c]
    BY <2>3, <2>4
  <2>6. \/ UNCHANGED <<image, me>>
        \/ \E service \in Handles : CreateProxy(c, service) /\ Rank(c, service) = Made(c) + 1
    BY <1>3, <2>1, <2>2, Zenon
  <2>7. "run" # "early" /\ "run" \in {"scheduler", "early", "topo", "join", "run"}
    OBVIOUS
  <2> QED
    BY <1>2, <2>1, <2>3, <2>5, <2>6, <2>7, CreateStep, Zenon
<1> QED
  BY <1>5, <1>6, <1>7, Zenon
-----------------------------------------------------------------------------
(* The reset state: the boot core at coreinit_main, every other core off,  *)
(* no region taken, no proxy made.                                         *)
LEMMA BootInitially == Init => BootInv /\ ProxyInv
<1> SUFFICES ASSUME Init PROVE BootInv /\ ProxyInv
  OBVIOUS
<1>1. Bsp \in Cores /\ Aps \subseteq Cores /\ Bsp \notin Aps
  BY BootAssumption, Zenon
<1>2. hw \in Machines /\ hw.heap \in Int /\ hw.slices \in Int
  <2>1. hw \in Machines /\ hw.heap \in Nat /\ hw.slices \in Nat
    BY BootAssumption, Zenon DEF Init, MachineType
  <2> QED
    BY <2>1
<1>3. Fresh \in Local /\ Reset \in CpuState /\ ~ Fresh.cal /\ ~ Reset.on /\ \A s \in Handles : Fresh.handle[s] = 0
  BY DEF Fresh, Local, Reset, CpuState, Handles
<1>4. /\ \A a \in Aps : pc[a] = "off"
      /\ pc[Bsp] = "start" /\ DOMAIN pc = Cores
  BY <1>1, Zenon DEF Init
<1>5. \A c \in Cores : ~ Started(icr[c].kind) /\ icr[c].kind # "init"
  <2>1. ~ Started(Idle.kind) /\ Idle.kind # "init"
    BY DEF Started, Idle
  <2> QED
    BY <2>1, Zenon DEF Init
<1>6. smp = [next |-> 1, region |-> 0, heap |-> hw.heap, slices |-> hw.slices]
  BY Zenon DEF Init
<1>7. smp \in SmpType /\ smp.next = 1 /\ smp.region = 0
  BY <1>2, <1>6 DEF SmpType
<1>8. BootType
  <2>1. DOMAIN image = Cores /\ \A c \in Cores : image[c] = [count |-> 0, slot |-> [s \in Slots |-> <<"none", "none">>], used |-> {}]
    BY Zenon DEF Init
  <2>2. [count |-> 0, slot |-> [s \in Slots |-> <<"none", "none">>], used |-> {}] \in Statics
    BY Zenon DEF Statics
  <2>3. params \in [stack : Nat, region : Nat]
    BY DEF Init
  <2>4. cpu \in [Cores -> CpuState] /\ me \in [Cores -> Local] /\ inside \in [{HwMutex} -> SUBSET Cores]
    BY <1>3, Zenon DEF Init
  <2>5. DOMAIN icr = Cores /\ DOMAIN record = 0 .. Len(hw.order) /\ DOMAIN jobs = Cores
    BY Zenon DEF Init
  <2> QED
    BY <1>2, <1>4, <1>7, <2>1, <2>2, <2>3, <2>4, <2>5, Zenon DEF BootType, SmpType
<1>9. Quiet
  BY <1>1, <1>3, Zenon DEF Init, Quiet
<1>10. Messages
  BY <1>1, <1>5, Zenon DEF Messages
<1>11. Excluded
  <2>1. inside[HwMutex] = {} /\ jobs[Bsp] = {}
    BY <1>1, Zenon DEF Init
  <2>2. \A c \in Cores : ~ Configures(c)
    <3>1. \A c \in Cores : pc[c] \in {"start", "off"}
      BY Zenon DEF Init
    <3> QED
      BY <3>1 DEF Configures
  <2>3. pc[Bsp] # "cal" /\ pc[Bsp] \notin ResetLabels \cup {"off"} /\ \A a \in Aps : pc[a] # "early"
    BY <1>4 DEF ResetLabels
  <2> QED
    BY <1>1, <1>4, <1>5, <2>1, <2>2, <2>3, Zenon DEF Excluded
<1>12. Calibrated
  <2>1. ~ me[Bsp].cal
    BY <1>1, <1>3, Zenon DEF Init
  <2> QED
    BY <1>4, <2>1 DEF Calibrated, LateLabels, SmpLabels
<1>13. Regions
  BY <1>4, <1>7 DEF Regions, SmpLabels
<1>14. Handoffs
  <2>1. \A a \in Aps : ~ Coming(a) /\ ~ Running(a) /\ pc[a] # "trampoline.jump"
    BY <1>1, <1>4, <1>5 DEF Coming, Running, ResetLabels
  <2> QED
    BY <2>1, Zenon DEF Handoffs
<1>15. ProxyInv
  <2>1. \A c \in Cores : me[c] = Fresh
    BY Zenon DEF Init
  <2>2. \A c \in Cores : ~ Staged(c)
    <3>1. \A c \in Cores : pc[c] \in {"start", "off"}
      BY Zenon DEF Init
    <3> QED
      BY <3>1 DEF Staged, Configures
  <2> QED
    BY <1>3, <2>1, <2>2, Zenon DEF ProxyInv, OwnProxies
<1> QED
  BY <1>8, <1>9, <1>10, <1>11, <1>12, <1>13, <1>14, <1>15, Zenon DEF BootInv

(* Every step of the boot, the bring-up loop, the interrupt code and the   *)
(* hardware preserves the invariant.                                       *)
LEMMA BootNext == BootInv /\ [Next]_vars => BootInv' /\ (ProxyInv => ProxyInv')
<1> SUFFICES ASSUME BootInv, [Next]_vars
             PROVE  BootInv' /\ (ProxyInv => ProxyInv')
  OBVIOUS
<1>1. BootType /\ Bsp \in Cores
  BY BootAssumption, Zenon DEF BootInv
<1>2. CASE SmpStep
  <2>1. CASE SmpIpi("smp.init", "init", "smp.sipi")
    BY <2>1, IpiStep
  <2>2. CASE SmpIpi("smp.sipi", "sipi1", "smp.sipi2")
    BY <2>2, IpiStep
  <2>3. CASE SmpIpi("smp.sipi2", "sipi2", "smp.next")
    BY <2>3, IpiStep
  <2>4. CASE SmpStart \/ SmpDone
    BY <1>1, <2>4, IdleStep, Zenon
  <2>5. CASE SmpSkip \/ SmpContextX86 \/ SmpContextArm \/ SmpContextShared
    BY <2>5, ContextStep, Zenon
  <2>6. CASE SmpRecordX86 \/ SmpRecordArm \/ SmpHandoff
    BY <2>6, RecordStep, Zenon
  <2>7. CASE SmpParams \/ SmpGreet
    BY <2>7, ParamsStep, Zenon
  <2>8. CASE SmpCpuOn
    BY <2>8, CpuOnStep, Zenon
  <2> QED
    BY <1>2, <2>1, <2>2, <2>3, <2>4, <2>5, <2>6, <2>7, <2>8, Zenon DEF SmpStep
<1>3. CASE Pit
  BY <1>1, <1>3, PitKind, QuietStep, Zenon DEF Pit
<1>4. ASSUME NEW c \in Cores, CoreStep(c)
      PROVE  BootInv' /\ (ProxyInv => ProxyInv')
  <2>1. CASE CoreState(c)
    BY <2>1, CoreStateStep, Zenon
  <2>2. CASE TopoClear(c) \/ TopoFill(c) \/ ProxyInit(c)
    BY <2>2, StaticsStep, Zenon
  <2>3. CASE Services(c) \/ Scheduler(c) \/ Join(c)
    BY <2>3, MainStep, Zenon
  <2>4. CASE Early(c)
    BY <2>4, EarlyStep, Zenon
  <2>5. CASE RunJob(c)
    BY <2>5, RunJobStep, Zenon
  <2>6. CASE Wait(c)
    BY <2>6, IdleStep, Zenon
  <2>7. CASE Lock(c)
    BY <2>7, LockStep, Zenon
  <2>8. CASE Unlock(c)
    BY <2>8, UnlockStep, Zenon
  <2>9. CASE Trampoline(c) \/ TrampolineJump(c)
    BY <2>9, TrampolineStep, Zenon
  <2>10. CASE IrqStep(c) /\ UNCHANGED bootVars
    BY <1>1, <2>10, IrqKinds, QuietStep, Zenon
  <2> QED
    BY <1>4, <2>1, <2>2, <2>3, <2>4, <2>5, <2>6, <2>7, <2>8, <2>9, <2>10, Zenon DEF CoreStep
<1>5. ASSUME NEW c \in Cores, Hardware(c)
      PROVE  BootInv' /\ (ProxyInv => ProxyInv')
  BY <1>1, <1>5, TickKinds, QuietStep, Zenon DEF Hardware
<1>6. ASSUME NEW c \in Cores, IcrDelivered(c)
      PROVE  BootInv' /\ (ProxyInv => ProxyInv')
  BY <1>6, IcrStep, Zenon
<1>7. CASE UNCHANGED vars
  <2>1. UNCHANGED <<hw, cpu, icr, pc, me, bootVars>>
    BY <1>7, Zenon DEF vars, irqVars
  <2>2. cpu' \in [Cores -> CpuState] /\ DOMAIN icr' = Cores
    BY <1>1, <2>1, Zenon DEF BootType
  <2> QED
    BY <2>1, <2>2, UnmovedStep, Zenon
<1> QED
  BY <1>2, <1>3, <1>4, <1>5, <1>6, <1>7, Zenon DEF Next

(* The inductive invariant of the boot.                                    *)
LEMMA BootInvariant == Spec => []BootInv
<1>1. Init => BootInv
  BY BootInitially, Zenon
<1>2. BootInv /\ [Next]_vars => BootInv'
  BY BootNext, Zenon
<1> QED
  BY <1>1, <1>2, PTL DEF Spec

(* smp_bring_up_all: an AP enters coreinit_main on its own stack, with its *)
(* own region and a complete record of its own, whatever the number of     *)
(* cores, the order in which they are discovered and the failures on the   *)
(* way, although one parameter block and one region counter serve all.     *)
THEOREM HandoffIntactAlways == Spec => []HandoffIntact
<1>1. BootInv => HandoffIntact
  BY Zenon DEF BootInv, Handoffs, HandoffIntact, Given, Full
<1> QED
  BY <1>1, BootInvariant, PTL

(* job_timer_bringup and the boot core's first irq_core_init: the cores    *)
(* configure the shared interrupt hardware one at a time, and no core is   *)
(* inside the mutex while another one configures outside.                  *)
THEOREM ConfiguresAloneAlways == Spec => []ConfiguresAlone
<1>1. BootInv => ConfiguresAlone
  <2> SUFFICES ASSUME BootInv, NEW c \in Cores, NEW d \in Cores, c # d, Configures(c)
               PROVE  ~ Configures(d) /\ d \notin inside[HwMutex]
    BY Zenon DEF ConfiguresAlone
  <2>1. CASE c \in inside[HwMutex]
    <3>1. ~ Booting /\ d \notin inside[HwMutex]
      BY <2>1, Zenon DEF BootInv, Excluded
    <3> QED
      BY <3>1, Zenon DEF BootInv, Excluded
  <2>2. CASE c = Bsp /\ Booting
    <3>1. inside[HwMutex] = {}
      BY <2>2, Zenon DEF BootInv, Excluded
    <3> QED
      BY <2>2, <3>1, Zenon DEF BootInv, Excluded
  <2> QED
    BY <2>1, <2>2, Zenon DEF BootInv, Excluded
<1> QED
  BY <1>1, BootInvariant, PTL

(* proxy.c: where every core has an image of its own, no later proxy_init  *)
(* or create_proxy makes a handle forward to something else, also when     *)
(* cores are started again, for every size of the proxy table.             *)
THEOREM ProxiesForwardAlways == Spec => [](OwnImages => ProxiesForward)
<1>1. Init => BootInv /\ ProxyInv
  BY BootInitially, Zenon
<1>2. BootInv /\ ProxyInv /\ [Next]_vars => (BootInv /\ ProxyInv)'
  BY BootNext, Zenon
<1>3. BootInv /\ ProxyInv => (OwnImages => ProxiesForward)
  <2> SUFFICES ASSUME BootInv, ProxyInv, OwnImages, NEW c \in Cores, NEW s \in DOMAIN me[c].handle, me[c].handle[s] # 0
               PROVE  image[Image(c)].slot[me[c].handle[s]] = Target(c, s)
    BY Zenon DEF ProxiesForward
  <2>1. s \in Handles
    BY Zenon DEF BootInv, BootType, Local
  <2>2. OwnProxies(c)
    BY Zenon DEF ProxyInv
  <2>3. Image(c) = c
    BY ImageOf, Zenon DEF BootInv
  <2> QED
    BY <2>1, <2>2, <2>3, Zenon DEF OwnProxies
<1> QED
  BY <1>1, <1>2, <1>3, PTL DEF Spec
=============================================================================
