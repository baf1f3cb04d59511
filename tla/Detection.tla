------------------------------ MODULE Detection ------------------------------
(***************************************************************************)
(* What `detect::scan_system` makes of a machine (src/src/detect).  The    *)
(* parsers of /proc and /sys are left out: a machine is a record that      *)
(* holds what they read, and a scan fills in its profile fields.           *)
(*                                                                         *)
(*   pci      functions in slot order: bus, dev, fn, class (display, audio,*)
(*            bridge, other), vendor, id, group, boot_vga, driver          *)
(*   drm      connectors by card and name: name, slot, connected, internal *)
(*   cpuinfo  for each logical CPU, in order, its package and core id      *)
(*   defined  the domains libvirt has; lists: whether virsh list succeeds  *)
(*   lacks    what is not there: "cpu", "iommu", "qemu", "virsh", ...      *)
(*                                                                         *)
(* PCI ids are numbers, ordered like their strings; the profile knows a    *)
(* GPU by its position.                                                    *)
(***************************************************************************)
EXTENDS Integers, Sequences, FiniteSets, SequencesExt

PciFunction  == [bus : Nat, dev : Nat, fn : Nat, class : {"display", "audio", "bridge", "other"},
                 vendor : {"Intel", "Amd", "Nvidia", "Other"}, id : Nat \ {0}, group : Nat,
                 boot_vga : BOOLEAN, driver : {"native", "vfio-pci"}]
DrmConnector == [name : STRING, slot : Nat \X Nat, connected : BOOLEAN, internal : BOOLEAN]
Parameter    == [key : STRING, ids : Seq(Nat)]

\* The fields a scan fills in, and the others; what the others may hold.
Profile  == {"gpus", "monitors", "domains", "cpus", "cores", "threads", "ht"}
Hardware == {"pci", "drm", "cpuinfo", "defined", "lists", "lacks", "spare", "kind", "mkconfig",
             "initramfs", "dm", "ram", "free_gb", "disk", "cpu_param", "own", "early", "cmdline", "vfio"}

IsMachine(m) ==
  /\ DOMAIN m = Profile \cup Hardware
  /\ m.pci \in Seq(PciFunction) /\ m.spare \in Seq(Seq(PciFunction)) /\ m.drm \in Seq(DrmConnector)
  /\ m.cpuinfo \in Seq(Nat \X Nat) /\ m.ram \in Nat
  /\ m.defined \subseteq Nat \ {0} /\ IsFiniteSet(m.defined)
  /\ m.own \in Seq(Parameter) /\ m.cpu_param \in {"amd_iommu=on", "intel_iommu=on"}
  /\ m.mkconfig \in {"grub-mkconfig", "grub2-mkconfig"}
  /\ {m.lists, m.early} \subseteq BOOLEAN

\* The least of a set of positions, or 0.
First(S) == IF S = {} THEN 0 ELSE CHOOSE i \in S : \A j \in S : i <= j

\* A finite set of numbers as a sorted list, and the part of a list at some
\* positions.  (SetToSortSeq and SelectSeq give the same lists, but the provers
\* cannot look into them.)
Ascending(S)   == [i \in 1..Cardinality(S) |-> CHOOSE a \in S : Cardinality({b \in S : b < a}) = i - 1]
Filtered(s, P) == LET at == Ascending(P) IN [i \in 1..Cardinality(P) |-> s[at[i]]]

\* Mutant: a group is judged by its display and audio functions only.
check_gpu_isolation_any(devices) == \E d \in devices : d.class = "display"

Slot(f) == <<f.bus, f.dev>>

determine_gpu_type(f) ==
  CASE f.vendor = "Intel" \/ (f.vendor = "Amd" /\ f.bus \in {0, 6}) -> "Integrated"
    [] f.vendor = "Nvidia" \/ (f.vendor = "Amd" /\ f.bus \notin {0, 6}) -> "Discrete"
    [] OTHER -> "Unknown"

\* The first audio function beside the GPU, or 0.
detect_companion_audio(pci, f) ==
  LET j == First({j \in DOMAIN pci : Slot(pci[j]) = Slot(f) /\ pci[j].fn \in 1..7 /\ pci[j].class = "audio"})
  IN  IF j = 0 THEN 0 ELSE pci[j].id

\* The functions that share f's IOMMU group; without an IOMMU there is none.
read_group_devices(m, f) ==
  IF "iommu" \in m.lacks THEN {} ELSE {g \in ToSet(m.pci) : g.group = f.group}

check_gpu_isolation(devices) ==
  LET non_bridge == {d \in devices : d.class # "bridge"}
  IN  non_bridge # {} /\ \A d \in non_bridge : d.class \in {"display", "audio"}

parse_gpu_device(m, f) ==
  [type |-> determine_gpu_type(f), id |-> f.id, audio |-> detect_companion_audio(m.pci, f),
   isolated |-> check_gpu_isolation(read_group_devices(m, f)),
   boot_vga |-> f.boot_vga, driver |-> f.driver, slot |-> Slot(f), group |-> f.group]

detect_all(m) ==
  LET displays == Filtered(m.pci, {j \in DOMAIN m.pci : m.pci[j].class = "display"})
  IN  [i \in DOMAIN displays |-> parse_gpu_device(m, displays[i])]

\* Connected ones first, external before internal.
detect_monitors(m) ==
  LET Part(c, i) == Filtered(m.drm, {d \in DOMAIN m.drm : m.drm[d].connected = c /\ m.drm[d].internal = i})
  IN  Part(TRUE, FALSE) \o Part(TRUE, TRUE) \o Part(FALSE, FALSE) \o Part(FALSE, TRUE)

detect_libvirt_domains(m) == IF m.lists /\ "virsh" \notin m.lacks THEN m.defined ELSE {}

\* The logical CPUs, numbered from 0, of each physical core, in the order of
\* packages and cores.
build_core_thread_map(cpuinfo) ==
  LET keys == ToSet(cpuinfo)
      Before(a, b) == a[1] < b[1] \/ (a[1] = b[1] /\ a[2] < b[2])
      Key(i) == CHOOSE a \in keys : Cardinality({b \in keys : Before(b, a)}) = i - 1
  IN  [i \in 1..Cardinality(keys) |->
         Ascending({p \in 0..(Len(cpuinfo) - 1) : cpuinfo[p + 1] = Key(i)})]

scan_system(m) ==
  LET cpus == build_core_thread_map(m.cpuinfo) IN
  [m EXCEPT !.gpus     = detect_all(m),
            !.monitors = detect_monitors(m),
            !.domains  = detect_libvirt_domains(m),
            !.cpus     = cpus,
            !.cores    = Len(cpus),
            !.threads  = Len(FlattenSeq(cpus)),
            !.ht       = \E c \in DOMAIN cpus : Len(cpus[c]) > 1]
=============================================================================
