----------------------------- MODULE MC_Planner -----------------------------
(* Sets of hosts for Planner. *)
EXTENDS Planner, HostCatalog

\* Parameters of the user: none, Virtu's own in part, ids of another device,
\* the ids of the second card, and a list that starts with them.
Own == {<<>>, <<Param("quiet"), Param("iommu=pt")>>, <<IdsParam(<<9>>)>>,
        <<IdsParam(<<9>>), IdsParam(<<5, 6>>)>>, <<IdsParam(<<5, 6, 9>>)>>}

Layouts   == {[Base EXCEPT !.pci = g, !.drm = m] : g \in {<<>>} \cup Single \cup Pairs \cup Foreign, m \in Screens}
Stacks    == {[Base EXCEPT !.pci = g, !.own = o, !.early = e] :
                g \in Single \cup Pairs, o \in Own, e \in BOOLEAN}
Resources == {[Base EXCEPT !.ram = r, !.cpuinfo = t, !.free_gb = f, !.disk = d, !.defined = n] :
                r \in {0, 4096, 6144, 16384}, t \in {Cpu(0, 1), Cpu(1, 0), Cpu(0, 2), Cpu(4, 0)},
                f \in {0, 60, 500}, d \in BOOLEAN, n \in {{}, {1}, {1, 2}, {2}}}
\* From one core to sixteen, with and without two threads, and of both kinds; and
\* two packages.
Processors == {[Base EXCEPT !.cpuinfo = Cpu(n, 0)] : n \in 1..16} \cup {[Base EXCEPT !.cpuinfo = Cpu(0, n)] : n \in 1..16}
              \cup {[Base EXCEPT !.cpuinfo = c] : c \in {Cpu(2, 2), Paired(2, 4), Cpu(4, 4), Paired(6, 4), Paired(6, 8), Paired(8, 8), Cpu(8, 2)}}
              \cup {[Base EXCEPT !.cpuinfo = Packages(2, n)] : n \in {1, 2, 4, 6}}
Lacking   == {[Base EXCEPT !.lacks = {x}] : x \in {"cpu", "iommu", "qemu", "virsh", "ovmf", "groups"}}
             \cup {[Base EXCEPT !.kind = "Unknown"]}
\* The three initramfs systems are written alike; an unknown one blocks.
Initramfs == {[Base EXCEPT !.initramfs = f] : f \in {"Dracut", "UpdateInitramfs", "Unknown"}}
\* Today's card will be replaced once.
Upgrades  == {[Base EXCEPT !.pci = g, !.spare = <<n>>, !.own = o] : g \in Single \cup Pairs,
                n \in {Card3(TRUE, TRUE), Card1("Integrated", TRUE, TRUE) \o Card3(TRUE, FALSE),
                       Card1("Discrete", TRUE, TRUE) \o Card3(TRUE, FALSE)},
                o \in {<<>>, <<IdsParam(<<9>>)>>}}

\* Hosts with GRUB as grub-mkconfig, a known display manager, a virsh that
\* answers and GPUs that differ in their ids.
GrubHosts  == Layouts \cup Stacks \cup Resources \cup Lacking \cup Initramfs \cup Processors \cup Upgrades
\* The same with a third GPU, for the recommendation.
ThreeGpus  == {[Base EXCEPT !.pci = g] : g \in Triples}
\* Hosts that plans are accepted for, and fail on.
Failing    == {[Base EXCEPT !.kind = b] : b \in {"Refind", "Syslinux"}}
              \cup {[Base EXCEPT !.mkconfig = "grub2-mkconfig"]}
              \cup {[Base EXCEPT !.dm = d, !.pci = g] : d \in {"Unknown", "None"}, g \in Single \cup Pairs}
              \cup {[Base EXCEPT !.lists = FALSE, !.defined = n] : n \in {{}, {1}}}
SetupHosts == GrubHosts \cup ThreeGpus \cup Failing

\* They are all hosts that the theorems of PlannerProofs speak of.
ASSUME PlainHosts == \A h \in SetupHosts : PlainBoot(h) /\ DistinctCards(h) /\ PlainCards(h)

\* systemd-boot: detection reports loader.conf.
SystemdBootHosts == {[Base EXCEPT !.kind = "SystemdBoot", !.pci = g] : g \in Pairs}
=============================================================================
