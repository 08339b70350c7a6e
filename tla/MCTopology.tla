----------------------------- MODULE MCTopology -----------------------------
(***************************************************************************)
(* Small machines for Topology.  A tree has the shape of a real one: a     *)
(* /cpus with a cpu-map three levels deep, the deepest FDT_MAX_DEPTH = 4   *)
(* allows, and the devices on a bus, between NOPs.  Addresses count in     *)
(* cells of 16.                                                            *)
(***************************************************************************)
EXTENDS Topology

P(name, val) == <<[t |-> "prop", name |-> name, val |-> val]>>
Nop == <<[t |-> "nop"]>>
Node(name, props, children) ==
    <<[t |-> "begin", name |-> name]>> \o FlattenSeq(props) \o FlattenSeq(children) \o <<[t |-> "end"]>>

Leaf(name, compatible, reg, status) ==
    Node(name, <<P("compatible", compatible), P("reg", reg), status>>, << >>)

Okay == P("status", <<"okay">>)
Off == P("status", <<"disabled">>)

(* The choices a tree is built from.                                       *)
Cpus == [three |-> <<Okay, << >>, Okay>>, second |-> <<Off, P("status", <<"ok">>), Off>>,
         none |-> <<Off, P("status", << >>), Off>>]
Ids == [three |-> <<0, 1>>, second |-> <<1>>, none |-> << >>]

(* A bus maps its addresses 1:1, into a window at 64, or only up to 4.     *)
Buses == {"empty", "window", "short"}
Ranges(bus, cells) ==
    LET At(a) == IF cells = 1 THEN <<a>> ELSE <<a \div 16, a % 16>>
    IN  CASE bus = "empty"  -> << >>
          [] bus = "window" -> <<0>> \o At(64) \o <<4>> \o <<4>> \o At(32) \o <<12>>
          [] bus = "short"  -> <<0>> \o At(64) \o <<4>>
Seen(bus, a) == CASE bus = "empty"  -> a
                  [] bus = "window" -> IF a < 4 THEN 64 + a ELSE IF a < 16 THEN 28 + a ELSE Err
                  [] bus = "short"  -> IF a < 4 THEN 64 + a ELSE Err

MCTree(cpus, bus, cells, uart, gic, net, method) ==
    Node("", <<P("#address-cells", <<cells>>), P("#size-cells", <<1>>)>>, <<
        Node("cpus", <<P("#address-cells", <<1>>), P("#size-cells", <<0>>)>>, <<
            Node("cpu-map", << >>, <<Node("cluster0", << >>, << >>)>>), Nop,
            Node("cpu0", <<P("reg", <<0>>), Cpus[cpus][1]>>, << >>),
            Node("cpu1", <<P("reg", <<1>>), Cpus[cpus][2]>>, << >>), Nop,
            Node("cpu2", <<Cpus[cpus][3], Nop, P("reg", <<2>>)>>, << >>)>>),
        Node("soc", <<P("#address-cells", <<1>>), Nop, P("#size-cells", <<1>>),
                      P("ranges", Ranges(bus, cells))>>, <<
            Leaf("virtio0", <<"virtio,mmio">>, <<3, 1>>, << >>),
            Leaf("uart", <<"vendor,uart", uart>>, <<1, 1>>, Okay), Nop,
            Node("gic", <<P("compatible", <<gic>>), P("reg", <<2, 1, 5, 1>>)>>,
                 <<Leaf("v2m", <<"arm,gic-v2m-frame">>, <<6, 1>>, << >>)>>),
            Leaf("virtio1", <<"virtio,mmio">>, <<7, 1>>, << >>),
            Leaf("gem", <<"cdns,gem">>, <<2, 1>>, IF net = "off" THEN Off ELSE Okay)>>),
        Node("timer", <<P("clock-frequency", <<9>>)>>, << >>),
        Node("psci", <<P("method", <<method>>), P("cpu_on", <<4>>)>>, << >>)>>)
    \o <<[t |-> "done"]>>

NoAcpi == [rsdp |-> 0]
Or0(a) == IF a = Err THEN 0 ELSE a

TreeMachine(cpus, bus, cells, uart, gic, net) ==
    LET u == IF uart = "none" THEN 0 ELSE Or0(Seen(bus, 1))
        g == IF gic = "none" THEN 0 ELSE Or0(Seen(bus, 2))
        c == IF gic = "none" THEN 0 ELSE Or0(Seen(bus, 5))
        far == Seen(bus, 7) # Err
    IN  [arch |-> "arm", acpi |-> NoAcpi,
         tree |-> MCTree(cpus, bus, cells, uart, gic, net, IF cells = 1 THEN "hvc" ELSE "smc"),
         nics |-> CASE net = "near" -> {"virtio0"} [] net = "off" -> {} [] OTHER -> {"virtio1"},
         refuses |-> IF net = "refuses" THEN {"virtio1"} ELSE {},
         says |-> [cores |-> Ids[cpus], psci |-> IF cells = 1 THEN "hvc" ELSE "smc",
                   wired |-> [uart |-> u, cadence |-> u # 0 /\ uart # "arm,pl011", gicd |-> g,
                              cpu |-> IF gic = "arm,gic-v3" THEN 0 ELSE c,
                              redist |-> IF gic = "arm,gic-v3" THEN c ELSE 0,
                              v2 |-> gic # "arm,gic-v3" /\ c # 0],
                   nic |-> CASE net = "near" -> "virtio0" [] net = "far" /\ far -> "virtio1"
                             [] net = "off" -> "none" [] OTHER -> "gem"]]

TreeMachines ==
    {TreeMachine(cpus, bus, cells, "arm,pl011", "arm,gic-v3", "far") :
        cpus \in DOMAIN Cpus, bus \in Buses, cells \in {1, 2}}
    \cup {TreeMachine("three", bus, 1, uart, gic, net) :
        bus \in Buses, uart \in {"none", "xlnx,zynqmp-uart"}, gic \in {"none", "arm,gic"},
        net \in {"near", "far", "off", "refuses"}}

(* A tree without /cpus.                                                   *)
Bare == [TreeMachine("none", "empty", 1, "none", "none", "off") EXCEPT
            !.tree = Node("", << >>, <<Node("chosen", << >>, << >>)>>) \o <<[t |-> "done"]>>,
            !.says.psci = "none"]
-----------------------------------------------------------------------------
Table(sig, valid) == [sig |-> sig, valid |-> valid]
Madts == <<[type |-> "gicd", base |-> 5, version |-> 2],
           [type |-> "gicc", id |-> 0, enabled |-> TRUE, base |-> 6],
           [type |-> "gicc", id |-> 1, enabled |-> FALSE, base |-> 6],
           [type |-> "gicc", id |-> 2, enabled |-> TRUE, base |-> 6]>>
V3 == <<[type |-> "gicc", id |-> 3, enabled |-> TRUE, base |-> 0],
        [type |-> "gicr", base |-> 7], [type |-> "gicd", base |-> 5, version |-> 3]>>
LapicTable == <<[type |-> "ioapic"], [type |-> "lapic", id |-> 1, enabled |-> TRUE],
                [type |-> "lapic", id |-> 0, enabled |-> TRUE],
                [type |-> "lapic", id |-> 2, enabled |-> TRUE]>>
Apic(entries, valid) == [sig |-> "APIC", valid |-> valid, entries |-> entries, base |-> 9]
Spcr == [sig |-> "SPCR", valid |-> TRUE, pl011 |-> TRUE, base |-> 4]
Fadt(conduit) == [sig |-> "FACP", valid |-> TRUE, psci |-> conduit]
Sdt(tables) == [there |-> TRUE, valid |-> TRUE, tables |-> tables]
NoSdt == [there |-> FALSE, valid |-> FALSE, tables |-> << >>]

AcpiMachine(arch, revision, extended, xsdt, rsdt, cores, wires, conduit) ==
    [arch |-> arch, tree |-> << >>, nics |-> {}, refuses |-> {},
     acpi |-> [rsdp |-> 1, revision |-> revision, extended |-> extended, xsdt |-> xsdt, rsdt |-> rsdt],
     says |-> [cores |-> cores, psci |-> conduit, wired |-> wires, nic |-> "none"]]

AcpiMachines ==
    {AcpiMachine("arm", 2, TRUE, Sdt(<<Apic(V3, FALSE), Apic(Madts, TRUE), Spcr, Fadt("hvc")>>), NoSdt,
        <<0, 1>>, [NotWired EXCEPT !.uart = 4, !.gicd = 5, !.cpu = 6, !.v2 = TRUE], "hvc"),
     AcpiMachine("arm", 1, TRUE, NoSdt, Sdt(<<Apic(V3, TRUE)>>),
        <<3>>, [NotWired EXCEPT !.gicd = 5, !.redist = 7], "none"),
     AcpiMachine("arm", 2, FALSE, Sdt(<<Apic(V3, TRUE)>>), NoSdt, << >>, NotWired, "none"),
     AcpiMachine("x86", 2, TRUE, Sdt(<<Apic(LapicTable, FALSE)>>), Sdt(<<Apic(LapicTable, TRUE)>>),
        <<1, 0>>, NotWired, "none"),
     AcpiMachine("x86", 2, TRUE, Sdt(<<Apic(LapicTable, TRUE)>>), NoSdt, <<1, 0>>, NotWired, "none"),
     AcpiMachine("x86", 0, TRUE, NoSdt, NoSdt, << >>, NotWired, "none")}

Nothing == [AcpiMachine("arm", 0, TRUE, NoSdt, NoSdt, << >>, NotWired, "none") EXCEPT !.acpi = NoAcpi]

MCMachines == TreeMachines \cup AcpiMachines \cup {Bare, Nothing}
=============================================================================
