----------------------------- MODULE HostCatalog -----------------------------
(* Machines to run Planner and Wizard on: GPU layouts, boot stacks,         *)
(* monitors, processors, memory.                                           *)
EXTENDS Decisions

Function(bus, dev, fn, class, vendor, id, group, boot) ==
  [bus |-> bus, dev |-> dev, fn |-> fn, class |-> class, vendor |-> vendor, id |-> id,
   group |-> group, boot_vga |-> boot, driver |-> "native"]

\* A bridge and a card on a bus, with its sound function; where it is not
\* isolated, a USB controller is in the group too.
Card(bus, vendor, id, audio, fn, iso, boot) ==
  <<Function(bus, 0, 0, "display", vendor, id, bus, boot)>>
  \o (IF audio = 0 THEN <<>> ELSE <<Function(bus, 0, fn, "audio", vendor, audio, bus, FALSE)>>)
  \o <<Function(bus, 1, 0, "bridge", "Intel", 20, bus, FALSE)>>
  \o (IF iso THEN <<>> ELSE <<Function(bus, 2, 0, "other", "Intel", 21, bus, FALSE)>>)

\* An integrated GPU is on bus 0 or, from AMD, 6; a discrete one elsewhere.  The
\* sound function of the second card sorts before it, that of the first after.
Card1(type, iso, boot) ==
  IF type = "Discrete" THEN Card(1, "Nvidia", 3, 4, 1, iso, boot) ELSE Card(0, "Intel", 3, 0, 0, iso, boot)
Card2(type, iso, boot) ==
  IF type = "Discrete" THEN Card(3, "Amd", 6, 5, 2, iso, boot) ELSE Card(6, "Amd", 6, 0, 0, iso, boot)
Card3(iso, boot) == Card(8, "Amd", 8, 0, 0, iso, boot)

Single == {Card2(t, i, TRUE) : t \in {"Discrete", "Integrated"}, i \in BOOLEAN}
\* At most one integrated GPU: see README for two.
Pairs  == {Card1(t[1], i, b) \o Card2(t[2], j, ~b) :
             t \in {<<"Discrete", "Discrete">>, <<"Integrated", "Discrete">>, <<"Discrete", "Integrated">>},
             i \in BOOLEAN, j \in BOOLEAN, b \in BOOLEAN}
Triples == {Card1(t, i, b = 1) \o Card2("Discrete", j, b = 2) \o Card3(l, b = 3) :
             t \in {"Discrete", "Integrated"}, i \in BOOLEAN, j \in BOOLEAN, l \in BOOLEAN, b \in 1..3}
\* A third-party display adapter (of unknown vendor) beside a card.
Foreign == {<<Function(2, 0, 0, "display", "Other", 2, 2, b)>> \o Card2("Discrete", i, ~b) :
              i \in BOOLEAN, b \in BOOLEAN}

Connector(name, bus, connected, internal) ==
  [name |-> name, slot |-> <<bus, 0>>, connected |-> connected, internal |-> internal]
\* None, one, one on each GPU, two on the first, the same name on both, a laptop
\* with an external screen.
Screens == {<<>>, <<Connector("DP-1", 1, TRUE, FALSE), Connector("DP-2", 3, FALSE, FALSE)>>,
            <<Connector("DP-1", 1, TRUE, FALSE), Connector("DP-2", 3, TRUE, FALSE)>>,
            <<Connector("DP-1", 1, TRUE, FALSE), Connector("DP-2", 1, TRUE, FALSE)>>,
            <<Connector("DP-1", 1, TRUE, FALSE), Connector("DP-1", 3, TRUE, FALSE)>>,
            <<Connector("eDP-1", 0, TRUE, TRUE), Connector("HDMI-1", 0, FALSE, FALSE),
              Connector("DP-1", 3, TRUE, FALSE)>>}

\* Cores with two threads come first; the second threads are numbered last, or
\* beside the first ones; or there are several packages with the same core ids.
Cpu(both, one)  == [p \in 1..(2 * both + one) |-> <<0, (p - 1) % (both + one)>>]
Paired(both, one) == [p \in 1..(2 * both + one) |-> <<0, IF p <= 2 * both THEN (p - 1) \div 2 ELSE p - both - 1>>]
Packages(n, cores) == [p \in 1..(2 * n * cores) |-> <<(p - 1) % n, ((p - 1) \div n) % cores>>]

Base == [pci |-> Card2("Discrete", TRUE, TRUE), drm |-> <<Connector("DP-1", 3, TRUE, FALSE)>>,
         cpuinfo |-> Cpu(4, 0), defined |-> {}, lists |-> TRUE, lacks |-> {}, spare |-> <<>>,
         kind |-> "Grub2", mkconfig |-> "grub-mkconfig", initramfs |-> "Mkinitcpio", dm |-> "Sddm",
         ram |-> 16384, free_gb |-> 500, disk |-> FALSE, cpu_param |-> "amd_iommu=on",
         own |-> <<>>, early |-> FALSE, cmdline |-> <<>>, vfio |-> FALSE,
         gpus |-> <<>>, monitors |-> <<>>, domains |-> {}, cpus |-> <<>>, cores |-> 0, threads |-> 0, ht |-> FALSE]
=============================================================================
