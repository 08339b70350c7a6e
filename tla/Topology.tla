------------------------------ MODULE Topology ------------------------------
(***************************************************************************)
(* Discovering the machine: topology_discover on both architectures (the   *)
(* device tree and the ACPI tables), the choice of a PSCI conduit and the  *)
(* search for a network device.                                            *)
(*                                                                         *)
(* The boot information machine is chosen in Init.  Its tree is a token    *)
(* sequence of Fdt or empty (no blob), its acpi the tables an RSDP leads   *)
(* to, its nics the names of the nodes that answer as a virtio network     *)
(* device, its refuses those that do not take the driver's features, and   *)
(* its says what a correct reading of the description gives.  A search for *)
(* a compatible node takes one step per round of its loop.                 *)
(***************************************************************************)
EXTENDS Fdt, Integers, Sequences, SequencesExt, FiniteSets

CONSTANTS
    MaxCores,        \* TOPOLOGY_MAX_CORES, ACPI_MAX_CPUS
    Machines         \* the boot information Init chooses from

VARIABLES
    machine,
    pc,              \* the step of the discovery
    cursor,          \* the last child of /cpus seen, 0 before the first
    alt,             \* which of a device's compatible strings is searched for
    search,          \* the search under way
    out,             \* topology_t: cores and arch_opaque
    wired,           \* what the serial, interrupt and signal backends were told
    psci,            \* the conduit smp_bring_up_all takes
    nic              \* the node the network device was found at

vars == <<machine, pc, cursor, alt, search, out, wired, psci, nic>>

X86 == machine.arch = "x86"
Tree == machine.tree
Acpi == machine.acpi
NoOut == [cores |-> << >>, uart |-> 0, gicd |-> 0, freq |-> 0, fdt |-> FALSE, lapic |-> 0,
          ok |-> FALSE]
NotWired == [uart |-> 0, cadence |-> FALSE, gicd |-> 0, cpu |-> 0, redist |-> 0, v2 |-> FALSE]

Init ==
    /\ machine \in Machines
    /\ pc = "start" /\ cursor = 0 /\ alt = 1 /\ search = Start
    /\ out = NoOut /\ wired = NotWired /\ psci = "none" /\ nic = Err

(* topology_boot_hint on aarch64: the device tree wins.                    *)
Hint == CASE Tree # << >>  -> "fdt"
          [] Acpi.rsdp # 0 -> "acpi"
          [] OTHER         -> "none"
-----------------------------------------------------------------------------
(* node_enabled: unlike fdt_is_enabled, an empty status is not enabled.    *)
NodeEnabled(b, node) ==
    LET p == GetProp(b, node, "status")
    IN  IF p = Err THEN TRUE ELSE b[p].val # << >> /\ b[p].val[1] \in {"okay", "ok"}

(* read_reg_first_cell: only one or two cells make an identifier.          *)
FirstReg(b, node) ==
    LET p  == GetProp(b, node, "reg")
        ac == ParentCells(b, node, "#address-cells")
    IN  IF p = Err THEN Err
        ELSE IF b[p].val = << >> \/ ac \notin {1, 2} THEN Err
        ELSE RdCells(b[p].val, 1, ac)

(* acpi_find: the XSDT of a revision 2 RSDP that has one, or else the      *)
(* RSDT, and in it the first valid table with that signature.              *)
First(tables, sig) ==
    LET at == {i \in DOMAIN tables : tables[i].sig = sig /\ tables[i].valid}
    IN  IF at = {} THEN [sig |-> "none"] ELSE tables[Min(at)]

AcpiFind(sig) ==
    LET root == IF Acpi.revision >= 2 /\ Acpi.xsdt.there THEN Acpi.xsdt ELSE Acpi.rsdt
    IN  IF root.valid THEN First(root.tables, sig) ELSE [sig |-> "none"]

(* topology_aarch64_psci_method.                                           *)
AcpiPsci ==
    LET fadt == AcpiFind("FACP")
    IN  IF Acpi.rsdp = 0 \/ Acpi.revision < 2 \/ ~ Acpi.extended THEN "none"
        ELSE IF fadt.sig = "none" THEN "none" ELSE fadt.psci

(* psci_parse: /psci with a method this code knows and a function number.  *)
TreePsci ==
    LET node   == PathOffset(Tree, <<"psci">>)
        method == GetProp(Tree, node, "method")
    IN  IF node = Err THEN "none"
        ELSE IF method = Err \/ GetProp(Tree, node, "cpu_on") = Err THEN "none"
        ELSE IF Tree[method].val[1] \in {"hvc", "smc"} THEN Tree[method].val[1] ELSE "none"

(* The loop over the MADT on aarch64; it ends at a core too many, whatever *)
(* entries follow.                                                         *)
Madt(m, e) ==
    CASE m.full -> m
      [] ~ m.full /\ e.type = "gicc" /\ Len(m.cores) >= MaxCores -> [m EXCEPT !.full = TRUE]
      [] ~ m.full /\ e.type = "gicc" /\ Len(m.cores) < MaxCores ->
            [m EXCEPT !.cores = Append(@, [id |-> e.id, enabled |-> e.enabled]),
                      !.gicc = IF e.enabled /\ @ = 0 THEN e.base ELSE @]
      [] ~ m.full /\ e.type = "gicd" -> [m EXCEPT !.gicd = e.base, !.version = e.version]
      [] ~ m.full /\ e.type = "gicr" -> [m EXCEPT !.gicr = e.base]
      [] OTHER -> m

(* The loop over the MADT on x86_64.                                       *)
Lapics(m, e) ==
    IF e.type = "lapic" /\ Len(m) < MaxCores
    THEN Append(m, [id |-> e.id, enabled |-> e.enabled]) ELSE m

(* topology_wire_backends.                                                 *)
WireBackends(w, o, cadence) ==
    [w EXCEPT !.uart = IF o.uart # 0 THEN o.uart ELSE @,
              !.cadence = IF o.uart # 0 THEN cadence ELSE @,
              !.gicd = IF o.gicd # 0 THEN o.gicd ELSE @]
-----------------------------------------------------------------------------
(* The network is set up from the tree whatever the discovery said, then   *)
(* the other cores of a machine that was discovered.                       *)
Bringup(o) == IF o.ok THEN "psci" ELSE "done"
After(o) == IF ~ X86 /\ Tree # << >> THEN "net" ELSE Bringup(o)

Returns(o, w) ==
    /\ out' = o /\ wired' = w /\ pc' = After(o)
    /\ UNCHANGED <<machine, cursor, alt, search, psci, nic>>

Fails == Returns(NoOut, wired)

(* x86_64: acpi_discover, where a missing MADT in the XSDT is looked for   *)
(* in the RSDT.                                                            *)
DiscoverX86 ==
    /\ pc = "start" /\ X86
    /\ LET inX  == IF Acpi.revision >= 2 /\ Acpi.xsdt.there /\ Acpi.xsdt.valid
                   THEN First(Acpi.xsdt.tables, "APIC") ELSE [sig |-> "none"]
           madt == IF inX.sig # "none" THEN inX
                   ELSE IF Acpi.rsdt.valid THEN First(Acpi.rsdt.tables, "APIC") ELSE inX
       IN  IF Acpi.rsdp = 0 \/ (Acpi.revision >= 2 /\ ~ Acpi.extended) \/ madt.sig = "none"
           THEN Fails
           ELSE Returns([NoOut EXCEPT !.lapic = madt.base, !.ok = TRUE,
                                      !.cores = FoldLeft(Lapics, << >>, madt.entries)], wired)

(* aarch64, an RSDP: topology_discover_acpi, then the wiring.              *)
DiscoverAcpi ==
    /\ pc = "start" /\ ~ X86 /\ Hint = "acpi"
    /\ LET madt == AcpiFind("APIC")
           spcr == AcpiFind("SPCR")
           m    == FoldLeft(Madt, [cores |-> << >>, full |-> FALSE, gicc |-> 0, gicd |-> 0,
                                   version |-> 0, gicr |-> 0], madt.entries)
           o    == [NoOut EXCEPT !.cores = m.cores, !.gicd = m.gicd, !.ok = m.cores # << >>,
                                 !.uart = IF spcr.sig # "none" /\ spcr.pl011 THEN spcr.base ELSE 0]
           w    == [NotWired EXCEPT !.cpu = IF m.version = 2 THEN m.gicc ELSE 0,
                                    !.v2 = m.version = 2 /\ m.gicc # 0,
                                    !.redist = IF m.version = 3 THEN m.gicr ELSE 0]
       IN  IF (Acpi.revision >= 2 /\ ~ Acpi.extended) \/ madt.sig = "none" THEN Fails
           ELSE Returns(o, WireBackends(w, o, FALSE))

(* aarch64, no description, or a tree without /cpus.                       *)
NoDescription ==
    /\ pc = "start" /\ ~ X86
    /\ \/ Hint = "none" /\ Fails
       \/ /\ Hint = "fdt" /\ PathOffset(Tree, <<"cpus">>) = Err
          /\ Returns([NoOut EXCEPT !.fdt = TRUE], wired)

DiscoverTree ==
    /\ pc = "start" /\ ~ X86 /\ Hint = "fdt" /\ PathOffset(Tree, <<"cpus">>) # Err
    /\ out' = [NoOut EXCEPT !.fdt = TRUE]
    /\ pc' = "cpus"
    /\ UNCHANGED <<machine, cursor, alt, search, wired, psci, nic>>

(* fdt_next_child: the first child, then siblings; the loop ends at no     *)
(* more children or at a core too many.                                    *)
NextChild(b, parent, c) == IF c = 0 THEN FirstChild(b, parent) ELSE NextSibling(b, parent, c)

NextCpu ==
    /\ pc = "cpus"
    /\ LET child == NextChild(Tree, PathOffset(Tree, <<"cpus">>), cursor)
       IN  IF child = Err \/ Len(out.cores) >= MaxCores
           THEN pc' = "uart" /\ UNCHANGED <<cursor, out>>
           ELSE /\ cursor' = child
                /\ out' = IF NodeEnabled(Tree, child) /\ FirstReg(Tree, child) # Err
                          THEN [out EXCEPT !.cores = Append(@, [id |-> FirstReg(Tree, child),
                                                               enabled |-> TRUE])]
                          ELSE out
                /\ UNCHANGED pc
    /\ UNCHANGED <<machine, alt, search, wired, psci, nic>>

Uarts == <<"cdns,uart-r1p12", "xlnx,zynqmp-uart", "arm,pl011">>
Gics == <<"arm,gic-v3", "arm,cortex-a15-gic", "arm,gic-400", "arm,gic">>
Nics == <<"virtio,mmio", "cdns,gem">>
Wanted == CASE pc = "uart" -> Uarts [] pc = "gic" -> Gics [] pc = "net" -> Nics

(* One round of a search; the next compatible string when it fails.        *)
SearchRound ==
    /\ pc \in {"uart", "gic", "net"} /\ search.found = Open
    /\ search' = Search(Tree, search, Wanted[alt], nic)
    /\ UNCHANGED <<machine, pc, cursor, alt, out, wired, psci, nic>>

NextCompatible ==
    /\ pc \in {"uart", "gic", "net"} /\ search.found = Err /\ alt < Len(Wanted)
    /\ alt' = alt + 1 /\ search' = Start /\ nic' = Err
    /\ UNCHANGED <<machine, pc, cursor, out, wired, psci>>

Over(at, next) ==
    /\ pc = at /\ search.found # Open
    /\ search.found = Err => alt = Len(Wanted)
    /\ pc' = next /\ alt' = 1 /\ search' = Start

Enabled == search.found # Err /\ NodeEnabled(Tree, search.found)

Uart ==
    /\ Over("uart", "gic")
    /\ LET base == RegToCpuAddr(Tree, search.found, 0)
       IN  IF Enabled /\ base # Err
           THEN out' = [out EXCEPT !.uart = base] /\ wired' = [wired EXCEPT !.cadence = alt < 3]
           ELSE UNCHANGED <<out, wired>>
    /\ UNCHANGED <<machine, cursor, psci, nic>>

Gic ==
    /\ Over("gic", "timer")
    /\ LET dist == RegToCpuAddr(Tree, search.found, 0)
           cpu  == RegToCpuAddr(Tree, search.found, 1)
       IN  /\ out' = IF Enabled /\ dist # Err THEN [out EXCEPT !.gicd = dist] ELSE out
           /\ wired' = IF ~ Enabled \/ cpu = Err THEN wired
                       ELSE IF alt = 1 THEN [wired EXCEPT !.redist = cpu]
                       ELSE [wired EXCEPT !.cpu = cpu, !.v2 = TRUE]
    /\ UNCHANGED <<machine, cursor, psci, nic>>

Timer ==
    /\ pc = "timer"
    /\ LET node == PathOffset(Tree, <<"timer">>)
           p    == GetProp(Tree, node, "clock-frequency")
           o    == [out EXCEPT !.freq = IF node = Err \/ p = Err THEN 0 ELSE Tree[p].val[1],
                               !.ok = out.cores # << >>]
       IN  Returns(o, WireBackends(wired, o, wired.cadence))

(* virtio_init: on to the next node when this one is disabled, cannot be   *)
(* reached or is no network device.                                        *)
Is(set) == search.found \notin {Open, Err} /\ Tree[search.found].name \in set
Reachable(node) == IsEnabled(Tree, node) /\ RegToCpuAddr(Tree, node, 0) # Err

VirtioNextForgets ==
    /\ pc = "net" /\ alt = 1 /\ search.found \notin {Open, Err}
    /\ ~ Reachable(search.found) \/ ~ Is(machine.nics)
    /\ search' = Start
    /\ UNCHANGED <<machine, pc, cursor, alt, out, wired, psci, nic>>

VirtioNext ==
    /\ pc = "net" /\ alt = 1 /\ search.found \notin {Open, Err}
    /\ ~ Reachable(search.found) \/ ~ Is(machine.nics)
    /\ nic' = search.found /\ search' = Start
    /\ UNCHANGED <<machine, pc, cursor, alt, out, wired, psci>>

VirtioFound ==
    /\ pc = "net" /\ alt = 1 /\ Is(machine.nics \ machine.refuses)
    /\ Reachable(search.found)
    /\ Over("net", Bringup(out)) /\ nic' = search.found
    /\ UNCHANGED <<machine, cursor, out, wired, psci>>

(* A device that refuses ends virtio_init, and the Cadence one is tried.   *)
VirtioRefuses ==
    /\ pc = "net" /\ alt = 1 /\ Is(machine.nics \cap machine.refuses)
    /\ Reachable(search.found)
    /\ alt' = 2 /\ search' = Start /\ nic' = Err
    /\ UNCHANGED <<machine, pc, cursor, out, wired, psci>>

GemNext ==
    /\ pc = "net" /\ alt = 2 /\ search.found \notin {Open, Err} /\ ~ Reachable(search.found)
    /\ nic' = search.found /\ search' = Start
    /\ UNCHANGED <<machine, pc, cursor, alt, out, wired, psci>>

(* The Cadence Ethernet, or no network at all.                             *)
GemFound ==
    /\ pc = "net" /\ alt = 2 /\ search.found # Open /\ (search.found = Err \/ Reachable(search.found))
    /\ Over("net", Bringup(out)) /\ nic' = search.found
    /\ UNCHANGED <<machine, cursor, out, wired, psci>>

(* smp_bring_up_all reads the conduit, from the tree when there is one.    *)
Psci ==
    /\ pc = "psci" /\ pc' = "done"
    /\ psci' = IF X86 THEN psci ELSE IF out.fdt THEN TreePsci ELSE AcpiPsci
    /\ UNCHANGED <<machine, cursor, alt, search, out, wired, nic>>

Next ==
    \/ DiscoverX86 \/ DiscoverAcpi \/ NoDescription \/ DiscoverTree \/ NextCpu
    \/ SearchRound \/ NextCompatible \/ Uart \/ Gic \/ Timer
    \/ VirtioNext \/ VirtioFound \/ VirtioRefuses \/ GemNext \/ GemFound \/ Psci

Spec == Init /\ [][Next]_vars
FairSpec == Spec /\ WF_vars(Next)
-----------------------------------------------------------------------------
(***************************************************************************)
(* What a device tree says, by its brackets.                               *)
(***************************************************************************)
Nodes == {p \in DOMAIN Tree : Tree[p].t = "begin"}

(* The innermost node around each token, Err around the root.              *)
Most(S) == IF S = {} THEN Err ELSE Max(S)
Level(p) == Cardinality({i \in Nodes : i <= p}) - Cardinality({i \in 1 .. p : Tree[i].t = "end"})
Holders ==
    UNION {{[q \in DOMAIN Tree |-> Most({p \in Nodes : p < q /\ q < close[p]})] :
        close \in {[p \in Nodes |-> Min({q \in p .. Len(Tree) : level[q] < level[p]})]}} :
        level \in {[p \in DOMAIN Tree |-> Level(p)]}}

Least(S) == IF S = {} THEN Err ELSE Min(S)

(* Walking the tree with fdt_parent_offset, fdt_first_child and            *)
(* fdt_next_sibling meets every node the brackets put there, in order, as  *)
(* deep as FDT_MAX_DEPTH allows, whatever properties and NOPs lie between. *)
WalkExact ==
    pc = "start" => \A holder \in Holders :
        LET depth[p \in Int] == IF p = Err THEN -1 ELSE 1 + depth[holder[p]]
            Kids(p) == {q \in Nodes : holder[q] = p}
        IN  \A p \in Nodes :
              /\ depth[p] <= MaxDepth => ParentOffset(Tree, p) = holder[p]
              /\ depth[p] < MaxDepth =>
                    /\ FirstChild(Tree, p) = Least(Kids(p))
                    /\ \A c \in Kids(p) : NextSibling(Tree, p, c) = Least({d \in Kids(p) : d > c})

(* A search for a compatible string ends at the first node in the tree's   *)
(* order, after the node it was told to go on from, that lists the string  *)
(* anywhere in its compatible property, and fails only when there is none  *)
(* (fdt_next_node_by_compatible_offset).                                   *)
SearchExact ==
    search.found # Open => \A holder \in Holders :
        LET Lists(q) == /\ Tree[q].t = "prop" /\ Tree[q].name = "compatible"
                        /\ Wanted[alt] \in Range(Tree[q].val)
        IN  search.found = Least({p \in Nodes : p > nic /\ \E q \in DOMAIN Tree :
                                                    holder[q] = p /\ Lists(q)})

(* What the backends are told at the end is what the machine's description *)
(* says: the enabled cores in order up to the table's limit, and the       *)
(* addresses of the UART and the interrupt controller as the CPU sees them *)
(* through every bus above (topology_discover, fdt_reg_to_cpu_addr).       *)
DiscoveredExact ==
    pc = "done" =>
        /\ out.ok = (machine.says.cores # << >>)
        /\ [i \in DOMAIN out.cores |-> out.cores[i].id] = machine.says.cores
        /\ wired = machine.says.wired
        /\ out.ok => psci = machine.says.psci
        /\ machine.says.nic = IF nic = Err THEN "none" ELSE Tree[nic].name

(* Discovery ends: topology_discover, the search of the network device and *)
(* of the conduit return on every tree no deeper than FDT_MAX_DEPTH.       *)
DiscoveryEnds == <>(pc = "done")
=============================================================================
