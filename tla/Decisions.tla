------------------------------ MODULE Decisions ------------------------------
(***************************************************************************)
(* What Virtu decides about a scanned host: the compatibility report, the  *)
(* recommended choices, validation, the plan and the domain XML            *)
(* (src/src/engine/{compatibility,planner,vm_xml}.rs,                      *)
(* src/src/vm/{passthrough,validation,profile,cpu_topology}.rs,            *)
(* src/src/vm/xml).  h is a scanned host (module Detection), c a           *)
(* passthrough configuration.  VM name n stands for virtu-windows-n, 1 for *)
(* virtu-windows.  Planner and Wizard run on these operators.              *)
(***************************************************************************)
EXTENDS Detection

Role == {"Host", "Passthrough", "Ignored"}
Mode == {"DualGpu", "IgpuHost", "SingleGpu", "MultiGpu"}

\* A kernel parameter; ids is the value of vfio-pci.ids, empty for the others.
Param(k)     == [key |-> k, ids |-> <<>>]
IdsParam(s)  == [key |-> "vfio-pci.ids", ids |-> s]

\* A position, or a fallback for it.
OrElse(i, j) == IF i # 0 THEN i ELSE j
Issue(id, when)  == IF when THEN {id} ELSE {}

-----------------------------------------------------------------------------
(* Detection and compatibility *)

\* The file each detected bootloader reports as its config_path.
ConfigPath(kind) ==
  CASE kind = "Grub2"       -> "grub"
    [] kind = "SystemdBoot" -> "loader"
    [] kind \in {"Refind", "Syslinux"} -> "other"
    [] OTHER -> "none"   \* Efistub, Unknown

\* Findings of severity Fail; the others only warn.
push_cpu_virtualization(h)   == Issue("cpu-virtualization", "cpu" \in h.lacks)
push_iommu_state(h)          == Issue("iommu-active", "iommu" \in h.lacks)
push_bootloader_state(h)     == Issue("bootloader-detected", h.kind = "Unknown")
push_initramfs_state(h)      == Issue("initramfs-detected", h.initramfs = "Unknown")
push_gpu_state(h) ==
  IF h.gpus = <<>> THEN {"gpus-detected"}
  ELSE Issue("gpu-isolation", \A i \in DOMAIN h.gpus : ~h.gpus[i].isolated)
push_virtualization_tools(h) == Issue("qemu-available", "qemu" \in h.lacks)
                                \cup Issue("libvirt-available", "virsh" \in h.lacks)
push_ovmf_state(h)           == Issue("ovmf-available", "ovmf" \in h.lacks)
push_user_access(h)          == Issue("user-access", "groups" \in h.lacks)

build_compatibility_report(h) ==
  push_cpu_virtualization(h) \cup push_iommu_state(h) \cup push_bootloader_state(h)
  \cup push_initramfs_state(h) \cup push_gpu_state(h) \cup push_virtualization_tools(h)
  \cup push_ovmf_state(h) \cup push_user_access(h)

-----------------------------------------------------------------------------
(* Recommended choices *)

Roles(n, host_gpu, pass_gpu) ==
  [i \in 1..n |-> CASE i = host_gpu -> "Host"
                    [] i # host_gpu /\ i = pass_gpu -> "Passthrough"
                    [] OTHER -> "Ignored"]

\* Mutant: the first discrete GPU, isolated or not.
candidate_dgpu_first(gpus) == First({i \in DOMAIN gpus : gpus[i].type = "Discrete"})

candidate_dgpu(gpus) ==
  LET discrete == {i \in DOMAIN gpus : gpus[i].type = "Discrete"}
  IN  OrElse(First({i \in discrete : gpus[i].isolated}), First(discrete))

recommend_gpu_assignment(gpus) ==
  LET all  == DOMAIN gpus
      igpu == First({i \in all : gpus[i].type = "Integrated"})
      dgpu == candidate_dgpu(gpus)
      pass == OrElse(First({i \in all : gpus[i].isolated /\ ~gpus[i].boot_vga}),
              OrElse(First({i \in all : gpus[i].isolated}),
              OrElse(First({i \in all : ~gpus[i].boot_vga}), 2)))
      rest == all \ {pass}
      keep == OrElse(First({i \in rest : gpus[i].boot_vga}), First(rest))
  IN  CASE Len(gpus) = 1 -> [mode |-> "SingleGpu", roles |-> <<"Passthrough">>]
        [] Len(gpus) # 1 /\ igpu # 0 /\ dgpu # 0 ->
             [mode |-> "IgpuHost", roles |-> Roles(Len(gpus), igpu, dgpu)]
        [] OTHER -> [mode |-> "DualGpu", roles |-> Roles(Len(gpus), keep, pass)]

OneMonitor(strategy) == [plan |-> strategy, host |-> "", vm |-> ""]

recommend_monitor_plan(h, roles) ==
  LET connected == {i \in DOMAIN h.monitors : h.monitors[i].connected}
      Owned(role) == First({i \in connected : \E g \in DOMAIN roles :
                       roles[g] = role /\ h.monitors[i].slot = h.gpus[g].slot})
      hm == OrElse(Owned("Host"), First(connected))
      vm == OrElse(Owned("Passthrough"),
                   First({i \in connected : h.monitors[i].name # h.monitors[hm].name}))
  IN  IF /\ Cardinality(connected) >= 2
         /\ vm # 0
         /\ h.monitors[hm].name # h.monitors[vm].name
      THEN [plan |-> "TwoMonitors", host |-> h.monitors[hm].name, vm |-> h.monitors[vm].name]
      ELSE OneMonitor("LookingGlassOnly")

Least(a, b)   == IF a <= b THEN a ELSE b
Largest(a, b) == IF a >= b THEN a ELSE b

recommended_vm_ram_mb(total) ==
  LET max_for_vm == Largest(total - 4096, 0) IN
  Largest(Least(total \div 2, max_for_vm), Least(4096, max_for_vm))

\* Mutant: the last two clamps are missing.
recommend_vcpu_count_unclamped(h) == Least(((h.cores * 3) \div 4) * (IF h.ht THEN 2 ELSE 1), h.threads - 1)

recommend_vcpu_count(h) ==
  LET max_for_vm == Largest(h.threads - 1, 1)
      target == Largest((h.cores * 3) \div 4, 1) * (IF h.ht THEN 2 ELSE 1)
  IN  Largest(Least(target, max_for_vm), 1)

default_vm_name(h) == First(1..(Cardinality(h.domains) + 1) \ h.domains)

\* devices stands for audio, network, input and ISO, right in the defaults.
recommended_defaults(h) ==
  LET r == recommend_gpu_assignment(h.gpus)
      m == recommend_monitor_plan(h, r.roles)
  IN  [vm_name |-> default_vm_name(h), gpu_mode |-> r.mode, roles |-> r.roles, monitor |-> m,
       looking_glass |-> m.plan = "LookingGlassOnly", ram_mb |-> recommended_vm_ram_mb(h.ram),
       vcpu |-> recommend_vcpu_count(h), disk |-> "Create", devices |-> "ok"]

With(c, role) == {i \in DOMAIN c.roles : c.roles[i] = role}

\* The mode the roles imply; "None" without a passthrough GPU, and also with
\* more than one host GPU.
derived_mode(h, c) ==
  LET pass == With(c, "Passthrough")
      keep == With(c, "Host")
  IN  CASE pass = {} -> "None"
        [] Cardinality(pass) >= 2 -> "MultiGpu"
        [] Cardinality(pass) = 1 /\ keep = {} -> "SingleGpu"
        [] Cardinality(pass) = 1 /\ Cardinality(keep) >= 2 -> "None"
        [] OTHER -> IF \E i \in keep : h.gpus[i].type = "Integrated" THEN "IgpuHost" ELSE "DualGpu"

-----------------------------------------------------------------------------
(* Validation: the issues that are errors.  There is one role per GPU, as in
   every configuration the program makes. *)

check_vm_name(h, c) == Issue("VmNameCollidesWithDomain", c.vm_name \in h.domains)

\* Mutant: several passthrough GPUs are let through.
check_gpu_roles_multi(h, c) ==
  Issue("GpuRoleMissing", With(c, "Passthrough") = {})
  \cup Issue("PassthroughGpuNotIsolated", \E i \in With(c, "Passthrough") : ~h.gpus[i].isolated)
  \cup Issue("GpuModeMismatch", derived_mode(h, c) \notin {"None", c.gpu_mode})

check_gpu_roles(h, c) ==
  Issue("GpuRoleMissing", With(c, "Passthrough") = {})
  \cup Issue("PassthroughGpuNotIsolated", \E i \in With(c, "Passthrough") : ~h.gpus[i].isolated)
  \cup Issue("HostGpuPassthroughBound", \E i \in With(c, "Host") : h.gpus[i].driver = "vfio-pci")
  \cup Issue("GpuModeMismatch", derived_mode(h, c) \notin {"None", c.gpu_mode})
  \cup Issue("MultiGpuNotImplemented", derived_mode(h, c) = "MultiGpu")

check_monitors(h, c) ==
  LET known == {h.monitors[i].name : i \in DOMAIN h.monitors} IN
  CASE c.monitor.plan = "HookHandoff" ->
         Issue("HookHandoffRequiresSingleGpu", derived_mode(h, c) # "SingleGpu")
         \cup Issue("HookHandoffRequiresKnownDisplayManager", h.dm \in {"Unknown", "None"})
    [] c.monitor.plan = "TwoMonitors" ->
         Issue("MonitorConnectorsCollide", c.monitor.host = c.monitor.vm)
         \cup Issue("MonitorConnectorUnknown", ~({c.monitor.host, c.monitor.vm} \subseteq known))
    [] OTHER -> {}

check_looking_glass(h, c) ==
  Issue("LookingGlassRequiresPassthrough", c.looking_glass /\ derived_mode(h, c) = "None")

check_resources(h, c) ==
  Issue("RamTooSmall", c.ram_mb < 2048)
  \cup Issue("RamExceedsHost", h.ram > 0 /\ c.ram_mb >= h.ram)
  \cup Issue("VcpuTooLow", c.vcpu < 2)
  \cup Issue("VcpuExceedsHost", c.vcpu >= Largest(h.threads, 1))
  \cup Issue("DiskPathExistsForCreate", c.disk = "Create" /\ h.disk)
  \cup Issue("StorageInsufficient", c.disk = "Create" /\ h.free_gb > 0 /\ 100 > h.free_gb)
  \cup Issue("DiskPathMissingForExisting", c.disk = "Existing" /\ ~h.disk)

check_devices(c) == Issue("DeviceChoiceInvalid", c.devices # "ok")

validate(h, c) ==
  Issue("CompatibilityBlocked", build_compatibility_report(h) # {})
  \cup check_vm_name(h, c) \cup check_gpu_roles(h, c) \cup check_monitors(h, c)
  \cup check_looking_glass(h, c) \cup check_resources(h, c) \cup check_devices(c)

-----------------------------------------------------------------------------
(* The plan *)

\* The ids of some GPUs and of their companion audio devices (0: it has none).
Devices(h, G) == {h.gpus[i].id : i \in G} \cup ({h.gpus[i].audio : i \in G} \ {0})

\* Mutant: every GPU that is not ignored.
pci_ids_active(h, c) == Devices(h, DOMAIN c.roles \ With(c, "Ignored"))

\* What is passed through, without order; planner and executor collect it alike.
pci_ids(h, c) == Devices(h, With(c, "Passthrough"))

\* Mutant: in an order other than the executor's.
passthrough_pci_ids_unsorted(h, c) == SetToSortSeq(pci_ids(h, c), >)

\* The planner's list, sorted; and what the executor does with its own.
passthrough_pci_ids(h, c) == Ascending(pci_ids(h, c))
sort_dedup(h, c)          == Ascending(pci_ids(h, c))

required_kernel_params(h, c) ==
  LET s == sort_dedup(h, c) IN
  <<Param(h.cpu_param), Param("iommu=pt")>> \o (IF s = <<>> THEN <<>> ELSE <<IdsParam(s)>>)

\* A plain parameter is a whole token; the ids are looked for as a substring.
cmdline_has_param(cmdline, p) ==
  \E i \in DOMAIN cmdline : cmdline[i].key = p.key /\ IsPrefix(p.ids, cmdline[i].ids)

Step(kind, touches, satisfied) ==
  <<[kind |-> kind, touches |-> touches,
     state |-> IF satisfied THEN "AlreadySatisfied" ELSE "Pending"]>>

bootloader_step(h, c) ==
  LET s      == passthrough_pci_ids(h, c)
      wanted == {Param(h.cpu_param), Param("iommu=pt")} \cup (IF s = <<>> THEN {} ELSE {IdsParam(s)})
  IN  IF ConfigPath(h.kind) = "none" THEN <<>>
      ELSE Step("BootloaderWrite", ConfigPath(h.kind), \A p \in wanted : cmdline_has_param(h.cmdline, p))

vfio_step(h, c) ==
  IF passthrough_pci_ids(h, c) = <<>> THEN <<>>
  ELSE Step("VfioConfig", "snippet",
            h.vfio /\ \E i \in With(c, "Passthrough") : h.gpus[i].driver = "vfio-pci")

initramfs_step(h) ==
  IF h.initramfs = "Unknown" THEN <<>> ELSE Step("InitramfsWrite", "initramfs", h.vfio)

PhaseASteps(h, c) == bootloader_step(h, c) \o vfio_step(h, c) \o initramfs_step(h)

plan(h, c) ==
  Step("Snapshot", "snapshots", FALSE) \o PhaseASteps(h, c)
  \o (IF derived_mode(h, c) = "SingleGpu" \/ c.monitor.plan = "HookHandoff"
      THEN Step("HookInstall", "hooks", FALSE) ELSE <<>>)
  \o (IF c.looking_glass THEN Step("LookingGlassInstall", "none", FALSE) ELSE <<>>)
  \o Step("VmXmlGenerate", "xml", FALSE) \o Step("VmRegister", "disk", FALSE)
  \o Step("Verify", "none", FALSE)

PhaseAKinds == {"BootloaderWrite", "VfioConfig", "InitramfsWrite"}
PhaseBKinds == {"HookInstall", "LookingGlassInstall", "VmXmlGenerate", "VmRegister", "Verify"}

\* The next step of plan p after position i with one of the given kinds.
NextOf(p, i, kinds) == First({j \in DOMAIN p : j > i /\ p[j].kind \in kinds})

-----------------------------------------------------------------------------
(* The domain *)

\* The display managers whose service the hook scripts know how to stop.
HasService(dm) == dm \notin {"Unknown", "None"}

\* What the hook step needs: one passthrough GPU, and scripts that can be written.
CanHook(h, c) == Cardinality(With(c, "Passthrough")) = 1 /\ HasService(h.dm)

\* vm_view: what the XML generator needs.
vm_view(h, c) ==
  /\ derived_mode(h, c) \notin {"None", "MultiGpu"}
  /\ derived_mode(h, c) # "SingleGpu" => Cardinality(With(c, "Host")) = 1

ThreadsPerCore(h) == IF h.ht THEN 2 ELSE 1

\* Mutant: the emulator keeps the last cores, whatever the VM got.
calculate_pinning_reserve(h, vcpu) ==
  LET vm == FlattenSeq(SubSeq(h.cpus, 1, Least(h.cores, Largest(vcpu \div ThreadsPerCore(h), 1))))
  IN  [pins |-> SubSeq(vm, 1, Least(Len(vm), vcpu)),
       emulator |-> ToSet(h.cpus[h.cores]) \cup (IF h.cores >= 8 THEN ToSet(h.cpus[h.cores - 1]) ELSE {})]

\* Whole cores for the VM from the first one on; the others, of which one or
\* two are always left, for the emulator.  The list of a cpuset is its set.
calculate_pinning(h, vcpu) ==
  LET host_reserve  == IF h.cores >= 8 THEN 2 ELSE 1
      vm_core_count == Least(Largest(h.cores - host_reserve, 0), Largest(vcpu \div ThreadsPerCore(h), 1))
      vm   == FlattenSeq(SubSeq(h.cpus, 1, vm_core_count))
      rest == FlattenSeq(SubSeq(h.cpus, vm_core_count + 1, h.cores))
  IN  [pins |-> SubSeq(vm, 1, Least(Len(vm), vcpu)),
       emulator |-> IF rest = <<>> THEN 0..Largest(h.threads - 1, 0) ELSE ToSet(rest)]

\* The functions that the XML hands to the guest.
gpu_hostdev(h, c) ==
  {j \in DOMAIN h.pci : \E i \in With(c, "Passthrough") :
     Slot(h.pci[j]) = h.gpus[i].slot /\ h.pci[j].id \in {h.gpus[i].id, h.gpus[i].audio}}

\* What of the XML libvirt and the host depend on.
generate_vm_xml(h, c) ==
  [name |-> c.vm_name, vcpu |-> c.vcpu,
   topology |-> Largest(c.vcpu \div ThreadsPerCore(h), 1) * ThreadsPerCore(h),
   cputune |-> calculate_pinning(h, c.vcpu), hostdev |-> gpu_hostdev(h, c)]

\* libvirt refuses a name it has with another UUID, and a topology that does
\* not multiply to the number of vCPUs.
DefineAccepts(h, xml) == xml.name \notin h.defined /\ xml.topology = xml.vcpu
=============================================================================
