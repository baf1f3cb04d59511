------------------------------- MODULE Planner -------------------------------
(***************************************************************************)
(* From a scanned host to a running VM, as Virtu decides it: choices,      *)
(* validation and plan (module Decisions), what the writers of Phase A     *)
(* make of the boot configuration, what the next boot makes of that, what  *)
(* `virtu resume` then finds, and what libvirt is asked to define          *)
(* (src/src/engine/{planner,executor,resume}.rs, src/src/config/writers,   *)
(* src/src/main.rs).                                                       *)
(*                                                                         *)
(* Lifecycle takes a plan that fits its host and asks what crashes and     *)
(* retries do; here nothing interferes, and the question is whether what   *)
(* is planned fits the host.  A host is an element of Hosts: a machine     *)
(* (module Detection), its boot stack, the user's own kernel parameters    *)
(* and the cards that will replace today's.                                *)
(***************************************************************************)
EXTENDS Decisions

CONSTANTS
  Hosts,  \* the hosts Virtu is run on
  Edits   \* whether the user edits the recommended choices (wizard, library)

ASSUME PlannerAssumption == (\A h \in Hosts : IsMachine(h)) /\ Edits \in BOOLEAN

VARIABLES
  host,    \* the system profile, as a scan would find it now
  files,   \* parameters in grub, loader and entry; snippet's ids; initramfs modules
  grubcfg, \* the generated boot menu's parameters
  image,   \* the initramfs: has vfio modules, ids from the snippet
  config,  \* the passthrough configuration
  steps,   \* the accepted plan
  ids,     \* the PCI ids of pending.toml's host fingerprint
  stage,   \* how far the setup has come
  k        \* the current step of the phase, 0 after its last one

vars == <<host, files, grubcfg, image, config, steps, ids, stage, k>>

-----------------------------------------------------------------------------
(* The machine *)

\* vfio-pci takes the devices of the last vfio-pci.ids on the command line, and
\* without one those of the modprobe snippet, if it is in the image.
Claimed(cmdline, img) ==
  LET j == SelectLastInSeq(cmdline, LAMBDA p : p.key = "vfio-pci.ids") IN
  IF ~img.mods THEN {} ELSE ToSet(IF j = 0 THEN img.ids ELSE cmdline[j].ids)

Booted(h, cmdline, img) ==
  scan_system([h EXCEPT !.cmdline = cmdline,
                        !.vfio = img.mods,
                        !.pci = [j \in DOMAIN h.pci |-> [h.pci[j] EXCEPT !.driver =
                          IF h.pci[j].id \in Claimed(cmdline, img) THEN "vfio-pci" ELSE "native"]]])

FirstImage(h) == [mods |-> h.early, ids |-> <<>>]

Init ==
  \E h \in Hosts :
    /\ files = [grub |-> h.own, loader |-> <<>>, entry |-> h.own, other |-> h.own,
                snippet |-> <<>>, mods |-> h.early]
    /\ grubcfg = h.own
    /\ image = FirstImage(h)
    /\ host = Booted(h, h.own, FirstImage(h))
    /\ config = <<>> /\ steps = <<>> /\ ids = <<>>
    /\ stage = "scan" /\ k = 0

\* What the wizard or a caller of the library may make of the defaults: other
\* roles with any stated mode and monitor plan, or another name, disk, device,
\* number of vCPUs.
Reassigned(d, r, m, p) ==
  [d EXCEPT !.roles = r, !.gpu_mode = m, !.monitor = p, !.looking_glass = (p.plan = "LookingGlassOnly")]

Edited(h) ==
  LET d == recommended_defaults(h)
      plans == {d.monitor} \cup {OneMonitor(s) : s \in {"LookingGlassOnly", "SwitchInputs", "HookHandoff"}}
  IN  {Reassigned(d, r, m, p) : r \in [DOMAIN h.gpus -> Role], m \in Mode, p \in plans}
      \cup {[d EXCEPT !.vm_name = 1], [d EXCEPT !.disk = "Existing"], [d EXCEPT !.devices = "bad"]}
      \cup {[d EXCEPT !.vcpu = v] : v \in 1..h.threads}

choose(c) ==
  /\ stage = "scan"
  /\ host.gpus # <<>>
  /\ config' = c
  /\ stage' = "chosen"
  /\ UNCHANGED <<host, files, grubcfg, image, steps, ids, k>>

\* recommended_defaults returns None.
no_gpus ==
  /\ stage = "scan"
  /\ host.gpus = <<>>
  /\ stage' = "refused"
  /\ UNCHANGED <<host, files, grubcfg, image, config, steps, ids, k>>

plan_refused ==
  /\ stage = "chosen"
  /\ validate(host, config) # {}
  /\ stage' = "refused"
  /\ UNCHANGED <<host, files, grubcfg, image, config, steps, ids, k>>

plan_accepted ==
  /\ stage = "chosen"
  /\ validate(host, config) = {}
  /\ steps' = plan(host, config)
  /\ stage' = "phase_a"
  /\ k' = NextOf(plan(host, config), 0, PhaseAKinds)
  /\ UNCHANGED <<host, files, grubcfg, image, config, ids>>

-----------------------------------------------------------------------------
(* Phase A *)

At(s, kind) == stage = s /\ k # 0 /\ steps[k].kind = kind
Walk(kinds) == k' = NextOf(steps, k, kinds) /\ UNCHANGED <<stage, config, steps, ids>>
Fail == stage' = "failed" /\ UNCHANGED <<host, files, grubcfg, image, config, steps, ids, k>>

\* Missing parameters are appended to the line, the others are left alone.
EnsureParams(line, params) == line \o Filtered(params, {i \in DOMAIN params : ~Contains(line, params[i])})

HasWriter(kind) == kind \in {"Grub2", "SystemdBoot"}

run_bootloader_step ==
  /\ At("phase_a", "BootloaderWrite")
  /\ HasWriter(host.kind)
  /\ files' = [files EXCEPT ![steps[k].touches] = EnsureParams(@, required_kernel_params(host, config))]
  /\ Walk(PhaseAKinds)
  /\ UNCHANGED <<host, grubcfg, image>>

bootloader_not_implemented ==
  /\ At("phase_a", "BootloaderWrite")
  /\ ~HasWriter(host.kind)
  /\ Fail

run_vfio_step ==
  /\ At("phase_a", "VfioConfig")
  /\ files' = [files EXCEPT !.snippet = sort_dedup(host, config)]
  /\ Walk(PhaseAKinds)
  /\ UNCHANGED <<host, grubcfg, image>>

\* All three initramfs writers make sure that the vfio modules are listed.
run_initramfs_step ==
  /\ At("phase_a", "InitramfsWrite")
  /\ files' = [files EXCEPT !.mods = TRUE]
  /\ Walk(PhaseAKinds)
  /\ UNCHANGED <<host, grubcfg, image>>

Wrote(kind) == \E i \in DOMAIN steps : steps[i].kind = kind

\* grub-mkconfig exists unless the distribution calls it grub2-mkconfig.
Regenerates == Wrote("BootloaderWrite") /\ host.kind = "Grub2" => host.mkconfig = "grub-mkconfig"

\* Mutant: the record keeps the ids in an order other than the writers'.
HostFingerprint_unsorted(h, c) == SetToSortSeq(pci_ids(h, c), >)

\* The ids that pending.toml keeps for the check after the reboot.
HostFingerprint(h, c) == Ascending(pci_ids(h, c))

\* run_regenerate_commands, then the pending record.
finish_phase_a ==
  /\ stage = "phase_a" /\ k = 0
  /\ Regenerates
  /\ grubcfg' = IF Wrote("BootloaderWrite") /\ host.kind = "Grub2" THEN files.grub ELSE grubcfg
  /\ image' = IF Wrote("InitramfsWrite") THEN [mods |-> files.mods, ids |-> files.snippet] ELSE image
  /\ ids' = HostFingerprint(host, config)
  /\ stage' = "pending"
  /\ UNCHANGED <<host, files, config, steps, k>>

regenerate_fails ==
  /\ stage = "phase_a" /\ k = 0
  /\ ~Regenerates
  /\ Fail

-----------------------------------------------------------------------------
(* Reboot, resume, Phase B *)

\* The parameters the boot loader starts the kernel with.
BootLine(h) == CASE h.kind = "Grub2" -> grubcfg
                 [] h.kind = "SystemdBoot" -> files.entry
                 [] OTHER -> files.other

reboot ==
  /\ stage = "pending"
  /\ host' = Booted(host, BootLine(host), image)
  /\ stage' = "booted"
  /\ UNCHANGED <<files, grubcfg, image, config, steps, ids, k>>

\* Each id that belongs to a GPU is looked up at the first GPU that has it.
BoundToVfio(h, id) ==
  LET i == First({j \in DOMAIN h.gpus : h.gpus[j].id = id})
  IN  i # 0 => h.gpus[i].driver = "vfio-pci"

verify_phase_a_landed(h, s) ==
  /\ "iommu" \notin h.lacks
  /\ \A p \in {Param(h.cpu_param), Param("iommu=pt")} \cup (IF s = <<>> THEN {} ELSE {IdsParam(s)}) :
       cmdline_has_param(h.cmdline, p)
  /\ h.vfio
  /\ \A j \in DOMAIN s : BoundToVfio(h, s[j])

run_resume ==
  /\ stage = "booted"
  /\ stage' = IF verify_phase_a_landed(host, ids) THEN "phase_b" ELSE "notready"
  /\ k' = NextOf(steps, 0, PhaseBKinds)
  /\ UNCHANGED <<host, files, grubcfg, image, config, steps, ids>>

phase_b_step ==
  /\ \/ At("phase_b", "HookInstall") /\ CanHook(host, config)
     \/ At("phase_b", "LookingGlassInstall")   \* deferred
     \/ At("phase_b", "VmXmlGenerate") /\ vm_view(host, config)
  /\ Walk(PhaseBKinds)
  /\ UNCHANGED <<host, files, grubcfg, image>>

phase_b_fails ==
  /\ \/ At("phase_b", "HookInstall") /\ ~CanHook(host, config)
     \/ At("phase_b", "VmXmlGenerate") /\ ~vm_view(host, config)
     \/ At("phase_b", "VmRegister") /\ ~DefineAccepts(host, generate_vm_xml(host, config))
  /\ Fail

run_vm_register_step ==
  /\ At("phase_b", "VmRegister")
  /\ DefineAccepts(host, generate_vm_xml(host, config))
  /\ host' = [host EXCEPT !.defined = @ \cup {config.vm_name}, !.disk = TRUE]
  /\ Walk(PhaseBKinds)
  /\ UNCHANGED <<files, grubcfg, image>>

\* Verify reads only; then the pending record goes.
verify_step ==
  /\ At("phase_b", "Verify")
  /\ stage' = "done"
  /\ UNCHANGED <<host, files, grubcfg, image, config, steps, ids, k>>

\* The user removes the VM with its disk, turns the machine off and puts the
\* next card in; what Phase A wrote stays.
swap_card ==
  /\ stage = "done"
  /\ host.spare # <<>>
  /\ host' = Booted([host EXCEPT !.pci = Head(host.spare), !.spare = Tail(@),
                                 !.defined = @ \ {config.vm_name}, !.disk = FALSE],
                    BootLine(host), image)
  /\ config' = <<>> /\ steps' = <<>> /\ ids' = <<>>
  /\ stage' = "scan" /\ k' = 0
  /\ UNCHANGED <<files, grubcfg, image>>

-----------------------------------------------------------------------------
Next ==
  \/ \E c \in {recommended_defaults(host)} \cup (IF Edits THEN Edited(host) ELSE {}) : choose(c)
  \/ no_gpus
  \/ plan_refused \/ plan_accepted
  \/ run_bootloader_step \/ bootloader_not_implemented
  \/ run_vfio_step \/ run_initramfs_step
  \/ finish_phase_a \/ regenerate_fails
  \/ reboot
  \/ run_resume
  \/ phase_b_step \/ phase_b_fails
  \/ run_vm_register_step
  \/ verify_step
  \/ swap_card

Spec == Init /\ [][Next]_vars
-----------------------------------------------------------------------------
(* Properties *)

\* The choices keep their types; a VM always gets a processor and a plan never
\* lacks its snapshot.
TypeOK ==
  /\ stage \in {"scan", "chosen", "refused", "phase_a", "pending", "booted", "phase_b",
                "notready", "failed", "done"}
  /\ k \in 0..Len(steps)
  /\ config # <<>> =>
       /\ config.vm_name \in Nat \ {0} /\ config.vcpu \in Nat \ {0} /\ config.ram_mb \in Nat
       /\ config.gpu_mode \in Mode /\ config.roles \in [DOMAIN host.gpus -> Role]
  /\ steps # <<>> => steps[1].kind = "Snapshot"
  /\ ToSet(ids) \subseteq Nat

\* What validation accepts fails later in six ways only: a bootloader without a
\* writer, a GRUB whose mkconfig has another name, a display manager without
\* hooks, two host GPUs, a scan that could not list the domains, an odd number of
\* vCPUs on a processor with two threads per core (README, section 3).  In
\* particular no accepted plan passes several GPUs through, or hands a display
\* over without the hooks' single GPU.
KnownFailures ==
  stage = "failed" =>
    \/ ~HasWriter(host.kind)
    \/ host.mkconfig = "grub2-mkconfig"
    \/ host.dm \in {"Unknown", "None"} /\ derived_mode(host, config) = "SingleGpu"
    \/ Cardinality(With(config, "Host")) >= 2
    \/ ~host.lists
    \/ host.ht /\ config.vcpu % 2 = 1

\* After Phase A and a reboot, resume finds the host ready: the parameters
\* reached the kernel and the passthrough devices their driver (planner,
\* writers, boot and verifier agree on files, tokens and order of ids).
LandedMeansReady == stage # "notready"

\* A GPU that is not passed through keeps its driver across the reboot: an
\* Ignored one "must remain on its current driver" (passthrough.rs lines
\* 150-152), and the host draws its desktop with the Host one.
HostGpuKept ==
  stage \in {"booted", "notready", "phase_b", "done"} =>
    \A i \in DOMAIN host.gpus :
      /\ config.roles[i] # "Passthrough"
      /\ host.gpus[i].id \notin Claimed(host.own, FirstImage(host))
      => host.gpus[i].driver # "vfio-pci"

\* Once Phase A has landed the guest's devices can be opened: everything in
\* their IOMMU groups except bridges is on vfio-pci.  Isolation is judged at the
\* scan by the classes in a group, which is then "safe for GPU passthrough"
\* (iommu.rs lines 189-190); the devices are bound by the ids of card and companion.
GroupViable ==
  stage \in {"phase_b", "done"} =>
    \A j \in gpu_hostdev(host, config), f \in ToSet(host.pci) :
      f.group = host.pci[j].group /\ f.class # "bridge" => f.driver = "vfio-pci"

\* "Never split a physical core between VM and emulator" (cpu_topology.rs line
\* 21): no logical CPU has both, no two vCPUs share one, and on a processor whose
\* cores are alike every recommended vCPU has its own.
PinningSound ==
  stage \in {"phase_b", "done"} =>
    LET t == generate_vm_xml(host, config).cputune IN
    /\ ToSet(t.pins) \cap t.emulator = {}
    /\ IsInjective(t.pins)
    /\ \A p, q \in DOMAIN host.cpuinfo :
         host.cpuinfo[p] = host.cpuinfo[q] /\ p - 1 \in ToSet(t.pins) => q - 1 \notin t.emulator
    /\ /\ \A core \in ToSet(host.cpus) : Len(core) = ThreadsPerCore(host)
       /\ config.vcpu = recommend_vcpu_count(host)
       => Len(t.pins) = config.vcpu

\* Planning again on a host where Phase A has landed finds nothing left to do:
\* "re-planning a host that already had Phase A applied must build the same
\* sorted token to detect the AlreadySatisfied state" (planner.rs lines 630-633).
ReplanSatisfied ==
  stage \in {"phase_b", "done"} =>
    \A i \in DOMAIN PhaseASteps(host, config) :
      PhaseASteps(host, config)[i].state = "AlreadySatisfied"

\* A configuration with any other roles and stated mode.
Assigned(d, r, m) == [d EXCEPT !.roles = r, !.gpu_mode = m]
OtherRoles(h, d)  == {Assigned(d, r, m) : r \in [DOMAIN h.gpus -> Role], m \in Mode}

\* Where nothing is on vfio-pci yet (the recommendation does not look at drivers)
\* the recommendation misses no assignment of roles that passes discrete GPUs
\* through and keeps a GPU for the host or has only one: if some such assignment
\* is accepted, so is the recommended one.  Integrated GPUs may be missed: of two,
\* one could be passed through, and the recommendation is refused.
RecommendationSuffices ==
  stage = "scan" /\ host.gpus # <<>> /\ (\A i \in DOMAIN host.gpus : host.gpus[i].driver # "vfio-pci") =>
    LET d == recommended_defaults(host)
    IN  (\E c \in OtherRoles(host, d) :
           /\ \A i \in With(c, "Passthrough") : host.gpus[i].type = "Discrete"
           /\ With(c, "Host") # {} \/ Len(host.gpus) = 1
           /\ validate(host, c) = {})
        => validate(host, d) = {}

-----------------------------------------------------------------------------
(* The hosts that LandedMeansReady, HostGpuKept and GroupViable are proved for;
   on others they fail (README, section 3). *)

\* The ids of the functions that a host has or gets with its next card.
IdsOf(pci)  == {f.id : f \in ToSet(pci)}
KnownIds(h) == IdsOf(h.pci) \cup UNION {IdsOf(pci) : pci \in ToSet(h.spare)}

\* The boot loader is GRUB (the others are refused, or have no writer and fail)
\* and the card is replaced at most once, or never if the user's own parameters
\* bind cards of this host and no other device; where they do, it is with the last
\* vfio-pci.ids.
PlainBoot(h) ==
  /\ h.kind \in {"Grub2", "Refind", "Syslinux", "Unknown"}
  /\ Len(h.spare) <= 1
  /\ \A i, j \in DOMAIN h.own :
       /\ h.own[i].key = "vfio-pci.ids" /\ ToSet(h.own[i].ids) \subseteq KnownIds(h)
       /\ h.own[j].key = "vfio-pci.ids"
       => j <= i /\ h.spare = <<>>

\* No other function has the id of a GPU.
DistinctGpus(pci) ==
  \A i, j \in DOMAIN pci : i # j /\ pci[i].class = "display" => pci[i].id # pci[j].id

\* The functions of a slot share a group, and at most one of them is a GPU and one,
\* with a number of its own, the GPU's sound.
OneCardPerSlot(pci) ==
  \A i, j \in DOMAIN pci : Slot(pci[i]) = Slot(pci[j]) =>
    /\ pci[i].group = pci[j].group
    /\ pci[i].class = pci[j].class /\ pci[i].class \in {"display", "audio"} => i = j
    /\ pci[i].class = "display" /\ pci[j].class = "audio" => pci[j].fn \in 1..7

\* GPUs and sound devices that share a group are functions of one card.
OneCardPerGroup(pci) ==
  \A i, j \in DOMAIN pci :
    pci[i].group = pci[j].group /\ {pci[i].class, pci[j].class} \subseteq {"display", "audio"}
    => Slot(pci[i]) = Slot(pci[j])

CardLists(h)     == {h.pci} \cup ToSet(h.spare)
DistinctCards(h) == \A pci \in CardLists(h) : DistinctGpus(pci)
PlainCards(h)    == \A pci \in CardLists(h) : OneCardPerSlot(pci) /\ OneCardPerGroup(pci)
=============================================================================
