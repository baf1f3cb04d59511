---------------------------- MODULE PlannerProofs ----------------------------
(***************************************************************************)
(* Proofs of the safety properties of Planner, for any set of machines:    *)
(* what an accepted plan may fail of, what resume finds after the reboot,  *)
(* and what the VM gets.                                                   *)
(***************************************************************************)
EXTENDS Planner, DecisionProofs

-----------------------------------------------------------------------------
(* The inductive invariant *)

\* Functions with one id have one driver.
OneDriver(h) == \A i, j \in DOMAIN h.pci : h.pci[i].id = h.pci[j].id => h.pci[i].driver = h.pci[j].driver

Stages == {"scan", "chosen", "refused", "phase_a", "pending", "booted", "phase_b", "notready", "failed", "done"}

Planned == stage \in {"phase_a", "pending", "booted", "phase_b", "notready", "failed", "done"}
Waiting == stage \in {"pending", "booted", "phase_b", "notready", "done"}

\* What validation guarantees and the reboot does not change.
Sound(h, c) ==
  /\ {"iommu", "virsh"} \cap h.lacks = {} /\ h.kind # "Unknown" /\ h.initramfs # "Unknown"
  /\ With(c, "Passthrough") # {} /\ (\A i \in With(c, "Passthrough") : h.gpus[i].isolated)
  /\ derived_mode(h, c) # "MultiGpu"
  /\ c.monitor.plan = "HookHandoff" => derived_mode(h, c) = "SingleGpu"
  /\ c.vcpu >= 2

\* A step of the kind is still ahead.
Due(kind) == k # 0 /\ \E i \in DOMAIN steps : i >= k /\ steps[i].kind = kind

HostInv == Scanned(host) /\ OneDriver(host)

ChoiceInv ==
  /\ stage \in Stages
  /\ stage \in {"scan", "chosen"} => host.domains = detect_libvirt_domains(host)
  /\ config # <<>> => ConfigOK(host, config)
  /\ stage \notin {"scan", "refused"} => ConfigOK(host, config)

PlanInv ==
  /\ ~Planned => steps = <<>> /\ k = 0
  /\ Planned => k \in 0..Len(steps) /\ PlanOK(host, config, steps) /\ Sound(host, config)
  /\ ToSet(ids) \subseteq Nat
  /\ Waiting => ids = Ascending(pci_ids(host, config))
  \* the name is free until the domain is registered
  /\ stage \in {"phase_a", "pending", "booted"} \/ (stage = "phase_b" /\ Due("VmRegister")) =>
       config.vm_name \notin host.defined \/ ~host.lists
  /\ stage \in {"phase_b", "done"} => verify_phase_a_landed(host, ids)

IInv == HostInv /\ ChoiceInv /\ PlanInv /\ KnownFailures

-----------------------------------------------------------------------------
(* The boot configuration *)

IdsAt(line) == {i \in DOMAIN line : line[i].key = "vfio-pci.ids"}
LastIds(line, i) == i \in IdsAt(line) /\ \A j \in IdsAt(line) : j <= i

\* Entries that may have been written for a card of this host.
OfCards(h, line) == {i \in IdsAt(line) : ToSet(line[i].ids) \subseteq KnownIds(h)}

\* Before the boot loader is written, and after.
Unwritten(h, line) == \A i \in OfCards(h, line) : LastIds(line, i) /\ h.spare = <<>>
Written(h, c, line) ==
  /\ \A p \in {Param(h.cpu_param), Param("iommu=pt"), IdsParam(sort_dedup(h, c))} : p \in ToSet(line)
  /\ \E i \in IdsAt(line) : LastIds(line, i) /\ line[i].ids = sort_dedup(h, c)
  /\ h.spare # <<>> => \A i \in OfCards(h, line) : LastIds(line, i)

\* Every function is on vfio-pci if it is to be passed through, and on no other account.
Bound(h, c) == \A j \in DOMAIN h.pci : h.pci[j].driver = "vfio-pci" <=> h.pci[j].id \in pci_ids(h, c)

\* A parameter.  (The provers do not know that a literal is a string.)
Token == [key : STRING \cup {"amd_iommu=on", "intel_iommu=on", "iommu=pt", "vfio-pci.ids"}, ids : Seq(Nat)]

FilesType == DOMAIN files = {"grub", "loader", "entry", "other", "snippet", "mods"} /\ files.grub \in Seq(Token)

BootInv ==
  /\ host.kind \in {"Grub2", "Refind", "Syslinux", "Unknown"} /\ Len(host.spare) <= 1
  /\ FilesType
  /\ stage \in {"scan", "chosen"} => Unwritten(host, files.grub)
  /\ stage = "phase_a" => Unwritten(host, files.grub) \/ Written(host, config, files.grub)
  /\ stage = "phase_a" /\ ~Due("BootloaderWrite") => host.kind = "Grub2" /\ Written(host, config, files.grub)
  /\ stage = "phase_a" /\ ~Due("InitramfsWrite") => files.mods
  /\ Waiting => host.kind = "Grub2" /\ Written(host, config, files.grub) /\ grubcfg = files.grub /\ image.mods
  /\ stage \in {"booted", "phase_b", "notready", "done"} =>
       host.cmdline = files.grub /\ host.vfio /\ Bound(host, config)
  /\ LandedMeansReady

-----------------------------------------------------------------------------
(* Reboots and walks *)

\* What a boot leaves alone, and the drivers it sets.
Unmoved(h, n) == \A x \in Hardware \ {"pci", "cmdline", "vfio"} : n[x] = h[x]

\* The host that a boot makes of a machine.
LEMMA BootedHost ==
  ASSUME NEW h, IsMachine(h), NEW line, NEW img, NEW n, n = Booted(h, line, img)
  PROVE  /\ Scanned(n) /\ OneDriver(n) /\ n.domains = detect_libvirt_domains(n)
         /\ SameButDriver(h.pci, n.pci) /\ Unmoved(h, n) /\ n.cmdline = line /\ n.vfio = img.mods
         /\ \A j \in DOMAIN n.pci :
              n.pci[j].driver = IF n.pci[j].id \in Claimed(line, img) THEN "vfio-pci" ELSE "native"
<1> DEFINE C == Claimed(line, img)
           pci == [j \in DOMAIN h.pci |-> [h.pci[j] EXCEPT !.driver = IF h.pci[j].id \in C THEN "vfio-pci" ELSE "native"]]
           m == [h EXCEPT !.cmdline = line, !.vfio = img.mods, !.pci = pci]
<1>0. DOMAIN h = Profile \cup Hardware
  BY DEF IsMachine
<1>1. n = scan_system(m)
  BY Zenon DEF Booted
<1> HIDE DEF C
<1>2. /\ h.pci \in Seq(PciFunction) /\ Len(h.pci) \in Nat /\ DOMAIN h.pci = 1..Len(h.pci)
      /\ \A j \in DOMAIN h.pci : h.pci[j] \in PciFunction
  BY FunctionAt
<1>4. /\ DOMAIN pci = DOMAIN h.pci /\ pci = [j \in DOMAIN h.pci |-> pci[j]]
      /\ \A j \in DOMAIN h.pci : pci[j] = [h.pci[j] EXCEPT !.driver = IF h.pci[j].id \in C THEN "vfio-pci" ELSE "native"]
  OBVIOUS
<1> HIDE DEF pci
<1>5. ASSUME NEW j \in DOMAIN h.pci
      PROVE  /\ pci[j] \in PciFunction /\ pci[j].driver = IF pci[j].id \in C THEN "vfio-pci" ELSE "native"
             /\ pci[j].bus = h.pci[j].bus /\ pci[j].dev = h.pci[j].dev /\ pci[j].fn = h.pci[j].fn
             /\ pci[j].class = h.pci[j].class /\ pci[j].vendor = h.pci[j].vendor /\ pci[j].id = h.pci[j].id
             /\ pci[j].group = h.pci[j].group /\ pci[j].boot_vga = h.pci[j].boot_vga
  <2>1. PICK f \in PciFunction, d \in {"native", "vfio-pci"} :
          /\ f = h.pci[j] /\ d = IF f.id \in C THEN "vfio-pci" ELSE "native"
          /\ pci[j] = [f EXCEPT !.driver = d]
    <3>1. h.pci[j] \in PciFunction
      BY <1>2
    <3>2. (IF h.pci[j].id \in C THEN "vfio-pci" ELSE "native") \in {"native", "vfio-pci"}
      OBVIOUS
    <3>3. pci[j] = [h.pci[j] EXCEPT !.driver = IF h.pci[j].id \in C THEN "vfio-pci" ELSE "native"]
      BY <1>4
    <3> QED BY <3>1, <3>2, <3>3, Zenon
  <2>2. PICK e : e = [f EXCEPT !.driver = d] /\ e = pci[j]
    BY <2>1
  <2>3. /\ e \in PciFunction /\ e.driver = d /\ e.bus = f.bus /\ e.dev = f.dev /\ e.fn = f.fn
        /\ e.class = f.class /\ e.vendor = f.vendor /\ e.id = f.id /\ e.group = f.group /\ e.boot_vga = f.boot_vga
    BY <2>2 DEF PciFunction
  <2> QED BY <2>1, <2>2, <2>3, Zenon
<1>6. SameButDriver(h.pci, pci)
  BY <1>4, <1>5, Zenon DEF SameButDriver
<1>7. pci \in Seq(PciFunction)
  <2>1. pci \in [1..Len(h.pci) -> PciFunction]
    BY <1>2, <1>4, <1>5
  <2> QED BY <1>2, <2>1, SeqDef
<1>8. /\ DOMAIN m = Profile \cup Hardware /\ m.pci = pci /\ m.cmdline = line /\ m.vfio = img.mods
      /\ \A x \in Hardware \ {"pci", "cmdline", "vfio"} : m[x] = h[x]
  BY <1>0 DEF Hardware
<1> HIDE DEF m
<1>9. IsMachine(m)
  <2>1. /\ m.spare = h.spare /\ m.drm = h.drm /\ m.cpuinfo = h.cpuinfo /\ m.ram = h.ram /\ m.defined = h.defined
        /\ m.own = h.own /\ m.cpu_param = h.cpu_param /\ m.mkconfig = h.mkconfig /\ m.lists = h.lists
        /\ m.early = h.early
    BY <1>8 DEF Hardware
  <2> QED BY <1>7, <1>8, <2>1 DEF IsMachine
<1>10. \A x \in Hardware : n[x] = m[x]
  BY <1>1, <1>9, ScanKeeps
<1>11. Scanned(n) /\ n.domains = detect_libvirt_domains(n)
  BY <1>1, <1>9, ScanIsScanned
<1>12. n.pci = pci /\ n.cmdline = line /\ n.vfio = img.mods /\ Unmoved(h, n)
  BY <1>8, <1>10 DEF Unmoved, Hardware
<1>13. OneDriver(n)
  <2>1. \A i, j \in DOMAIN pci : pci[i].id = pci[j].id => pci[i].driver = pci[j].driver
    BY <1>4, <1>5
  <2> QED BY <1>12, <2>1 DEF OneDriver
<1> QED BY <1>4, <1>5, <1>6, <1>11, <1>12, <1>13 DEF C

\* The next step of some kinds: none between, and none left when it is 0.
LEMMA NextStep ==
  ASSUME NEW p, NEW n \in Nat, DOMAIN p = 1..n, NEW i \in 0..n, NEW kinds, NEW j, j = NextOf(p, i, kinds)
  PROVE  /\ j \in 0..n /\ (j # 0 => j > i /\ p[j].kind \in kinds)
         /\ \A x \in DOMAIN p : x > i /\ p[x].kind \in kinds => j # 0 /\ j <= x
<1> DEFINE S == {x \in DOMAIN p : x > i /\ p[x].kind \in kinds}
<1>1. S \in SUBSET (Nat \ {0}) /\ S \in SUBSET (1..n) /\ j = First(S)
  BY DEF NextOf
<1>2. \A x : x \in S <=> x \in DOMAIN p /\ x > i /\ p[x].kind \in kinds
  OBVIOUS
<1> HIDE DEF S
<1>3. (S = {} <=> j = 0) /\ (S # {} => j \in S /\ \A x \in S : j <= x)
  BY <1>1, FirstIsLeast
<1>4. j \in 0..n /\ (j # 0 => j \in S)
  <2>1. j = 0 \/ j \in 1..n
    BY <1>1, <1>3, Zenon
  <2>2. j \in 0..n
    BY <2>1
  <2> QED BY <1>3, <2>2, Zenon
<1>5. j # 0 => j > i /\ p[j].kind \in kinds
  BY <1>2, <1>4
<1>6. ASSUME NEW x \in DOMAIN p, x > i, p[x].kind \in kinds PROVE j # 0 /\ j <= x
  <2>1. x \in S
    BY <1>2, <1>6
  <2> QED BY <1>3, <2>1
<1> QED BY <1>4, <1>5, <1>6

\* Decisions about a host survive what changes drivers, boot parameters or domains only.
LEMMA DecisionsKept ==
  ASSUME NEW h, Scanned(h), NEW n, Scanned(n), NEW c, ConfigOK(h, c),
         SameButDriver(h.pci, n.pci), n.lacks = h.lacks, n.kind = h.kind, n.initramfs = h.initramfs
  PROVE  /\ Alike(h.gpus, n.gpus) /\ ConfigOK(n, c)
         /\ pci_ids(n, c) = pci_ids(h, c) /\ derived_mode(n, c) = derived_mode(h, c)
         /\ \A p : PlanOK(h, c, p) => PlanOK(n, c, p)
         /\ Sound(h, c) => Sound(n, c)
<1>1. Alike(h.gpus, n.gpus)
  BY AlikeAfterBoot
<1>2. DOMAIN n.gpus = DOMAIN h.gpus
  BY <1>1 DEF Alike
<1>3. ConfigOK(n, c) /\ DOMAIN c.roles = DOMAIN h.gpus
  BY <1>2 DEF ConfigOK
<1>4. pci_ids(n, c) = pci_ids(h, c) /\ derived_mode(n, c) = derived_mode(h, c)
  BY <1>1, <1>3, SameDecisions
<1>5. \A p : PlanOK(h, c, p) => PlanOK(n, c, p)
  BY <1>4, Zenon DEF PlanOK
<1>6. \A i \in With(c, "Passthrough") : n.gpus[i].isolated = h.gpus[i].isolated
  BY <1>1, <1>3 DEF Alike, With
<1>7. Sound(h, c) => Sound(n, c)
  BY <1>4, <1>6, Zenon DEF Sound
<1> QED BY <1>1, <1>3, <1>4, <1>5, <1>7

\* Registering a domain changes what libvirt has, not the profile.
Registered(h, name) == [h EXCEPT !.defined = @ \cup {name}, !.disk = TRUE]

\* Registering a domain keeps the host a scanned one.
LEMMA RegisteredHost ==
  ASSUME NEW h, Scanned(h), NEW name \in Nat \ {0}, NEW n, n = Registered(h, name)
  PROVE  /\ Scanned(n) /\ n.pci = h.pci /\ n.gpus = h.gpus
         /\ \A x \in (Hardware \cup Profile) \ {"defined", "disk"} : n[x] = h[x]
<1>1. /\ DOMAIN h = Profile \cup Hardware /\ DOMAIN n = DOMAIN h /\ n.defined = h.defined \cup {name}
      /\ \A x \in (Hardware \cup Profile) \ {"defined", "disk"} : n[x] = h[x]
  BY DEF Scanned, IsMachine, Profile, Hardware, Registered
<1>2. /\ n.spare = h.spare /\ n.drm = h.drm /\ n.cpuinfo = h.cpuinfo /\ n.ram = h.ram /\ n.pci = h.pci
      /\ n.own = h.own /\ n.cpu_param = h.cpu_param /\ n.mkconfig = h.mkconfig /\ n.lists = h.lists
      /\ n.early = h.early /\ n.lacks = h.lacks
  BY <1>1 DEF Hardware
<1>3. /\ n.gpus = h.gpus /\ n.monitors = h.monitors /\ n.domains = h.domains /\ n.cpus = h.cpus
      /\ n.cores = h.cores /\ n.threads = h.threads /\ n.ht = h.ht
  BY <1>1 DEF Profile
<1>4. n.defined \subseteq Nat \ {0} /\ IsFiniteSet(n.defined)
  <2>1. h.defined \subseteq Nat \ {0} /\ IsFiniteSet(h.defined)
    BY DEF Scanned, IsMachine
  <2>2. IsFiniteSet(h.defined \cup {name})
    BY <2>1, FS_AddElement
  <2>3. n.defined = h.defined \cup {name}
    BY <1>1
  <2> QED BY <2>1, <2>2, <2>3
<1>5. IsMachine(n)
  BY <1>1, <1>2, <1>4 DEF Scanned, IsMachine
<1>6. detect_all(n) = detect_all(h) /\ detect_monitors(n) = detect_monitors(h)
  BY <1>2, SameDevices
<1>7. Scanned(n)
  BY <1>2, <1>3, <1>5, <1>6, Zenon DEF Scanned
<1> QED BY <1>1, <1>2, <1>3, <1>7

\* An empty list has no elements.
LEMMA NoElements == ToSet(<<>>) = {}
BY DEF ToSet

\* The first scan.
LEMMA InitInv == Init => IInv
<1> SUFFICES ASSUME Init PROVE IInv
  OBVIOUS
<1>1. PICK h \in Hosts : host = Booted(h, h.own, FirstImage(h))
  BY DEF Init
<1>2. IsMachine(h)
  BY PlannerAssumption
<1>3. Scanned(host) /\ OneDriver(host) /\ host.domains = detect_libvirt_domains(host)
  BY <1>1, <1>2, BootedHost
<1>4. config = <<>> /\ steps = <<>> /\ ids = <<>> /\ stage = "scan" /\ k = 0
  BY DEF Init
<1>5. ~Planned /\ ~Waiting
  BY <1>4 DEF Planned, Waiting
<1>6. ChoiceInv
  BY <1>3, <1>4 DEF ChoiceInv, Stages
<1>7. PlanInv
  BY <1>4, <1>5, NoElements DEF PlanInv
<1>8. KnownFailures
  BY <1>4 DEF KnownFailures
<1> QED BY <1>3, <1>6, <1>7, <1>8 DEF IInv, HostInv

\* The choices that may be made are configurations.
LEMMA EditedOK ==
  ASSUME NEW h, Scanned(h), h.gpus # <<>>, NEW c \in {recommended_defaults(h)} \cup (IF Edits THEN Edited(h) ELSE {})
  PROVE  ConfigOK(h, c)
<1> DEFINE d == recommended_defaults(h)
           plans == {d.monitor} \cup {OneMonitor(s) : s \in {"LookingGlassOnly", "SwitchInputs", "HookHandoff"}}
           E1 == {Reassigned(d, r, m, p) : r \in [DOMAIN h.gpus -> Role], m \in Mode, p \in plans}
           E2 == {[d EXCEPT !.vm_name = 1], [d EXCEPT !.disk = "Existing"], [d EXCEPT !.devices = "bad"]}
           E3 == {[d EXCEPT !.vcpu = v] : v \in 1..h.threads}
<1>1. ConfigOK(h, d)
  BY Recommended
<1>2. d = [vm_name |-> d.vm_name, gpu_mode |-> d.gpu_mode, roles |-> d.roles, monitor |-> d.monitor,
           looking_glass |-> d.looking_glass, ram_mb |-> d.ram_mb, vcpu |-> d.vcpu, disk |-> d.disk,
           devices |-> d.devices]
  BY Zenon DEF recommended_defaults
<1>3. Edited(h) = E1 \cup E2 \cup E3
  BY SMT DEF Edited
<1> HIDE DEF d, plans
<1>4. CASE c \in E1
  <2>0. PICK r \in [DOMAIN h.gpus -> Role], m \in Mode, p \in plans : c = Reassigned(d, r, m, p)
    BY <1>4, SMT
  <2>1. c.vm_name = d.vm_name /\ c.vcpu = d.vcpu /\ c.ram_mb = d.ram_mb /\ c.gpu_mode = m /\ c.roles = r
    BY <1>2, <2>0 DEF Reassigned
  <2> QED BY <1>1, <2>1 DEF ConfigOK
<1>5. CASE c \in E2
  <2>1. (c.vm_name = d.vm_name \/ c.vm_name = 1) /\ c.vcpu = d.vcpu /\ c.ram_mb = d.ram_mb /\ c.gpu_mode = d.gpu_mode /\ c.roles = d.roles
    BY <1>2, <1>5
  <2> QED BY <1>1, <2>1 DEF ConfigOK
<1>6. CASE c \in E3
  <2>0. PICK v \in 1..h.threads : c = [d EXCEPT !.vcpu = v]
    BY <1>6
  <2>1. c.vm_name = d.vm_name /\ c.vcpu = v /\ c.ram_mb = d.ram_mb /\ c.gpu_mode = d.gpu_mode /\ c.roles = d.roles
    BY <1>2, <2>0
  <2>2. v \in Nat \ {0}
    BY Processor
  <2> QED BY <1>1, <2>1, <2>2 DEF ConfigOK
<1>7. CASE c = d
  BY <1>1, <1>7
<1> HIDE DEF E1, E2, E3
<1> QED BY <1>3, <1>4, <1>5, <1>6, <1>7 DEF d

-----------------------------------------------------------------------------
(* The invariant is kept *)

\* Choosing, and being refused.
LEMMA ChooseInv ==
  ASSUME NEW c \in {recommended_defaults(host)} \cup (IF Edits THEN Edited(host) ELSE {}), choose(c), IInv
  PROVE  IInv'
<1>1. /\ stage = "scan" /\ host.gpus # <<>> /\ config' = c /\ stage' = "chosen"
      /\ UNCHANGED <<host, steps, ids, k>>
  BY DEF choose
<1>2. HostInv /\ ChoiceInv /\ PlanInv
  BY DEF IInv
<1>3. ConfigOK(host, c)
  BY <1>1, <1>2, EditedOK DEF HostInv
<1>4. HostInv'
  BY <1>1, <1>2 DEF HostInv
<1>5. ~Planned /\ ~Planned' /\ ~Waiting /\ ~Waiting'
  BY <1>1 DEF Planned, Waiting
<1>6. ChoiceInv'
  BY <1>1, <1>2, <1>3 DEF ChoiceInv, Stages
<1>7. PlanInv'
  BY <1>1, <1>2, <1>5 DEF PlanInv
<1>8. KnownFailures'
  BY <1>1 DEF KnownFailures
<1> QED BY <1>4, <1>6, <1>7, <1>8 DEF IInv

\* A refusal ends the setup where it is.
LEMMA RefusedInv ==
  ASSUME no_gpus \/ plan_refused, IInv
  PROVE  IInv'
<1>1. stage \in {"scan", "chosen"} /\ stage' = "refused" /\ UNCHANGED <<host, config, steps, ids, k>>
  BY DEF no_gpus, plan_refused
<1>2. HostInv /\ ChoiceInv /\ PlanInv
  BY DEF IInv
<1>4. HostInv'
  BY <1>1, <1>2 DEF HostInv
<1>5. ~Planned /\ ~Planned' /\ ~Waiting /\ ~Waiting'
  BY <1>1 DEF Planned, Waiting
<1>6. ChoiceInv'
  BY <1>1, <1>2 DEF ChoiceInv, Stages
<1>7. PlanInv'
  BY <1>1, <1>2, <1>5 DEF PlanInv
<1>8. KnownFailures'
  BY <1>1 DEF KnownFailures
<1> QED BY <1>4, <1>6, <1>7, <1>8 DEF IInv

\* Planning: what validation has accepted is sound, and its name is free if the scan
\* could list the domains.
LEMMA AcceptedInv ==
  ASSUME plan_accepted, IInv
  PROVE  IInv'
<1>1. /\ stage = "chosen" /\ validate(host, config) = {} /\ steps' = plan(host, config) /\ stage' = "phase_a"
      /\ k' = NextOf(plan(host, config), 0, PhaseAKinds) /\ UNCHANGED <<host, config, ids>>
  BY DEF plan_accepted
<1>2. HostInv /\ ChoiceInv /\ PlanInv
  BY DEF IInv
<1>3. ConfigOK(host, config) /\ host.domains = detect_libvirt_domains(host)
  BY <1>1, <1>2 DEF ChoiceInv
<1>4. PlanOK(host, config, plan(host, config))
  BY PlanShape
<1>5. config.vcpu \in Nat
  BY <1>3 DEF ConfigOK
<1>6. Sound(host, config) /\ config.vm_name \notin host.domains
  BY <1>1, <1>5, Accepted DEF Sound
<1>7. config.vm_name \notin host.defined \/ ~host.lists
  BY <1>3, <1>6 DEF Sound, detect_libvirt_domains
<1>8. k' \in 0..Len(steps')
  <2>1. Len(steps') \in Nat /\ DOMAIN steps' = 1..Len(steps')
    BY <1>1, <1>4 DEF PlanOK
  <2>2. 0 \in 0..Len(steps') /\ k' = NextOf(steps', 0, PhaseAKinds)
    BY <1>1, <2>1
  <2> QED BY <2>1, <2>2, NextStep
<1>9. HostInv'
  BY <1>1, <1>2 DEF HostInv
<1>10. ChoiceInv'
  BY <1>1, <1>2, <1>3 DEF ChoiceInv, Stages
<1>11. Planned' /\ ~Waiting' /\ stage' # "phase_b" /\ stage' # "done"
  BY <1>1 DEF Planned, Waiting
<1>12. PlanInv'
  BY <1>1, <1>2, <1>4, <1>6, <1>7, <1>8, <1>11 DEF PlanInv
<1>13. KnownFailures'
  BY <1>1 DEF KnownFailures
<1> QED BY <1>9, <1>10, <1>12, <1>13 DEF IInv

\* A step of a phase is done.
LEMMA WalkInv ==
  ASSUME NEW kinds, stage \in {"phase_a", "phase_b"}, k # 0, Walk(kinds), UNCHANGED host, IInv
  PROVE  /\ IInv'
         /\ \A kind : kind \in kinds /\ kind # steps[k].kind => (Due(kind) => Due(kind)')
<1>1. k' = NextOf(steps, k, kinds) /\ UNCHANGED <<stage, config, steps, ids, host>>
  BY DEF Walk
<1>2. HostInv /\ ChoiceInv /\ PlanInv
  BY DEF IInv
<1>3. Planned /\ Planned'
  BY <1>1 DEF Planned
<1>4. k \in 0..Len(steps) /\ Len(steps) \in Nat /\ DOMAIN steps = 1..Len(steps)
  BY <1>2, <1>3 DEF PlanInv, PlanOK
<1>5. /\ k' \in 0..Len(steps) /\ (k' # 0 => k' > k)
      /\ \A x \in DOMAIN steps : x > k /\ steps[x].kind \in kinds => k' # 0 /\ k' <= x
  BY <1>1, <1>4, NextStep
<1>6. ASSUME NEW kind, Due(kind)' PROVE Due(kind)
  <2>1. PICK i \in DOMAIN steps : k' # 0 /\ i >= k' /\ steps[i].kind = kind
    BY <1>1, <1>6 DEF Due
  <2>2. i \in Int /\ k \in Int /\ k' \in Int
    BY <1>4, <1>5
  <2>3. i >= k
    BY <1>5, <2>1, <2>2
  <2> QED BY <2>1, <2>3 DEF Due
<1>7. ASSUME NEW kind \in kinds, kind # steps[k].kind, Due(kind) PROVE Due(kind)'
  <2>1. PICK i \in DOMAIN steps : i >= k /\ steps[i].kind = kind
    BY <1>7 DEF Due
  <2>2. i \in Int /\ k \in Int /\ i # k
    BY <1>4, <1>7, <2>1
  <2>3. i > k
    BY <2>1, <2>2
  <2>4. k' # 0 /\ k' <= i /\ k' \in Int
    BY <1>4, <1>5, <2>1, <2>3
  <2>5. i >= k'
    BY <2>2, <2>4
  <2> QED BY <1>1, <2>1, <2>4, <2>5 DEF Due
<1>8. HostInv' /\ ChoiceInv'
  BY <1>1, <1>2 DEF HostInv, ChoiceInv
<1>9. PlanInv'
  <2>1. (stage = "phase_b" /\ Due("VmRegister"))' => stage = "phase_b" /\ Due("VmRegister")
    BY <1>1, <1>6
  <2>2. Waiting' <=> Waiting
    BY <1>1 DEF Waiting
  <2> QED BY <1>1, <1>2, <1>3, <1>5, <2>1, <2>2 DEF PlanInv
<1>10. KnownFailures'
  BY <1>1 DEF KnownFailures
<1> QED BY <1>7, <1>8, <1>9, <1>10 DEF IInv

\* A step fails: everything stays as it is.
LEMMA FailInv ==
  ASSUME stage \in {"phase_a", "phase_b"}, Fail, IInv, KnownFailures'
  PROVE  IInv'
<1>1. stage' = "failed" /\ UNCHANGED <<host, config, steps, ids, k>>
  BY DEF Fail
<1>2. HostInv /\ ChoiceInv /\ PlanInv
  BY DEF IInv
<1>3. Planned /\ Planned' /\ ~Waiting' /\ stage' # "phase_b" /\ stage' # "done"
  BY <1>1 DEF Planned, Waiting
<1>4. HostInv' /\ ChoiceInv'
  BY <1>1, <1>2 DEF HostInv, ChoiceInv, Stages
<1>5. PlanInv'
  BY <1>1, <1>2, <1>3 DEF PlanInv
<1> QED BY <1>4, <1>5 DEF IInv

\* A mode exists for one passthrough GPU and at most one host GPU.
LEMMA ModeOf ==
  ASSUME NEW h, Scanned(h), NEW c, ConfigOK(h, c), With(c, "Passthrough") # {}, derived_mode(h, c) # "MultiGpu"
  PROVE  /\ Cardinality(With(c, "Passthrough")) = 1
         /\ derived_mode(h, c) = "None" => Cardinality(With(c, "Host")) >= 2
         /\ derived_mode(h, c) \notin {"None", "SingleGpu"} => Cardinality(With(c, "Host")) = 1
<1> DEFINE pass == With(c, "Passthrough")
           keep == With(c, "Host")
<1>1. pass \in SUBSET DOMAIN h.gpus /\ keep \in SUBSET DOMAIN h.gpus
  BY DEF With, ConfigOK
<1>2. IsFiniteSet(DOMAIN h.gpus)
  <2>1. DOMAIN h.gpus = 1..Len(h.gpus) /\ Len(h.gpus) \in Nat
    BY GpuFields
  <2> QED BY <2>1, FS_Interval
<1>3. /\ IsFiniteSet(pass) /\ IsFiniteSet(keep)
  BY <1>1, <1>2, FS_Subset
<1>4. Cardinality(pass) \in Nat /\ Cardinality(keep) \in Nat /\ Cardinality(pass) # 0
  BY <1>3, FS_CardinalityType, FS_EmptySet
<1>5. keep = {} <=> Cardinality(keep) = 0
  BY <1>3, FS_EmptySet
<1>6. PICK n, m \in Nat : n = Cardinality(pass) /\ m = Cardinality(keep)
  BY <1>4
<1>7. derived_mode(h, c) =
        CASE n >= 2 -> "MultiGpu"
          [] n = 1 /\ m = 0 -> "SingleGpu"
          [] n = 1 /\ m >= 2 -> "None"
          [] OTHER -> IF \E i \in keep : h.gpus[i].type = "Integrated" THEN "IgpuHost" ELSE "DualGpu"
  BY <1>4, <1>5, <1>6 DEF derived_mode
<1>8. n # 0
  BY <1>4, <1>6
<1> HIDE DEF pass, keep
<1>9. n = 1 /\ (derived_mode(h, c) = "None" => m >= 2) /\ (derived_mode(h, c) \notin {"None", "SingleGpu"} => m = 1)
  BY <1>7, <1>8
<1> QED BY <1>6, <1>9 DEF pass, keep

\* The topology of the XML has all the vCPUs unless there are two threads per core and
\* an odd number of them.
LEMMA WholeCores ==
  ASSUME NEW v \in Nat, v >= 2
  PROVE  (Largest(v \div 1, 1) * 1 = v) /\ (v % 2 # 1 => Largest(v \div 2, 1) * 2 = v)
<1>1. v \div 1 = v
  OBVIOUS
<1>2. v \div 2 \in Int /\ v \div 2 >= 1
  OBVIOUS
<1>3. v % 2 # 1 => v = 2 * (v \div 2)
  OBVIOUS
<1> QED BY <1>1, <1>2, <1>3 DEF Largest

\* The three failures of Phase A and B are known.
LEMMA PhaseAFails ==
  ASSUME bootloader_not_implemented \/ regenerate_fails, IInv
  PROVE  IInv'
<1>1. stage = "phase_a" /\ Fail
  BY DEF bootloader_not_implemented, regenerate_fails, At
<1>2. UNCHANGED <<host, config>>
  BY <1>1 DEF Fail
<1>3. ~HasWriter(host.kind) \/ host.mkconfig = "grub2-mkconfig"
  <2>1. CASE bootloader_not_implemented
    BY <2>1 DEF bootloader_not_implemented
  <2>2. CASE regenerate_fails
    <3>1. host.mkconfig # "grub-mkconfig"
      BY <2>2 DEF regenerate_fails, Regenerates
    <3>2. host.mkconfig \in {"grub-mkconfig", "grub2-mkconfig"}
      BY DEF IInv, HostInv, Scanned, IsMachine
    <3> QED BY <3>1, <3>2
  <2> QED BY <2>1, <2>2
<1>4. KnownFailures'
  BY <1>2, <1>3 DEF KnownFailures
<1> QED BY <1>1, <1>4, FailInv

\* Phase B fails for the known reasons.
LEMMA PhaseBFails ==
  ASSUME phase_b_fails, IInv
  PROVE  IInv'
<1>1. stage = "phase_b" /\ k # 0 /\ Fail
  BY DEF phase_b_fails, At
<1>2. UNCHANGED <<host, config>>
  BY <1>1 DEF Fail
<1>3. HostInv /\ ChoiceInv /\ PlanInv
  BY DEF IInv
<1>4. Planned
  BY <1>1 DEF Planned
<1>5. /\ Scanned(host) /\ ConfigOK(host, config) /\ PlanOK(host, config, steps) /\ Sound(host, config)
      /\ k \in DOMAIN steps
  <2>1. k \in 0..Len(steps) /\ PlanOK(host, config, steps) /\ Sound(host, config)
    BY <1>3, <1>4 DEF PlanInv
  <2>2. Scanned(host) /\ ConfigOK(host, config)
    BY <1>1, <1>3 DEF HostInv, ChoiceInv
  <2>3. DOMAIN steps = 1..Len(steps) /\ Len(steps) \in Nat
    BY <2>1 DEF PlanOK
  <2> QED BY <1>1, <2>1, <2>2, <2>3
<1>6. /\ Cardinality(With(config, "Passthrough")) = 1
      /\ derived_mode(host, config) = "None" => Cardinality(With(config, "Host")) >= 2
      /\ derived_mode(host, config) \notin {"None", "SingleGpu"} => Cardinality(With(config, "Host")) = 1
  BY <1>5, ModeOf DEF Sound
<1>7. \/ host.dm \in {"Unknown", "None"} /\ derived_mode(host, config) = "SingleGpu"
      \/ Cardinality(With(config, "Host")) >= 2
      \/ ~host.lists
      \/ host.ht /\ config.vcpu % 2 = 1
  <2>1. CASE steps[k].kind = "HookInstall" /\ ~CanHook(host, config)
    <3>1. derived_mode(host, config) = "SingleGpu"
      BY <1>5, <2>1 DEF PlanOK, Sound
    <3>2. host.dm \in {"Unknown", "None"}
      BY <1>6, <2>1 DEF CanHook, HasService
    <3> QED BY <3>1, <3>2
  <2>2. CASE ~vm_view(host, config)
    <3>1. derived_mode(host, config) = "None"
      BY <1>5, <1>6, <2>2 DEF vm_view, Sound
    <3> QED BY <1>6, <3>1
  <2>3. CASE steps[k].kind = "VmRegister" /\ ~DefineAccepts(host, generate_vm_xml(host, config))
    <3>1. Due("VmRegister")
      <4>1. k \in Int
        BY <1>5 DEF PlanOK
      <4>2. k >= k
        BY <4>1
      <4> QED BY <1>1, <1>5, <2>3, <4>2 DEF Due
    <3>2. config.vm_name \notin host.defined \/ ~host.lists
      BY <1>1, <1>3, <3>1 DEF PlanInv
    <3> DEFINE xml == generate_vm_xml(host, config)
    <3>3. xml.name = config.vm_name /\ xml.vcpu = config.vcpu
          /\ xml.topology = Largest(config.vcpu \div ThreadsPerCore(host), 1) * ThreadsPerCore(host)
      BY DEF generate_vm_xml
    <3> HIDE DEF xml
    <3>4. xml.name \in host.defined \/ xml.topology # xml.vcpu
      BY <2>3 DEF DefineAccepts, xml
    <3>5. PICK v \in Nat : v = config.vcpu /\ v >= 2
      BY <1>5 DEF ConfigOK, Sound
    <3>6. CASE xml.topology # xml.vcpu
      <4>1. (Largest(v \div 1, 1) * 1 = v) /\ (v % 2 # 1 => Largest(v \div 2, 1) * 2 = v)
        BY <3>5, WholeCores
      <4>2. ThreadsPerCore(host) = IF host.ht THEN 2 ELSE 1
        BY DEF ThreadsPerCore
      <4>3. CASE host.ht
        <5>1. ThreadsPerCore(host) = 2
          BY <4>2, <4>3
        <5>2. Largest(v \div 2, 1) * 2 # v
          BY <3>3, <3>5, <3>6, <5>1
        <5> QED BY <3>5, <4>1, <4>3, <5>2
      <4>4. CASE ~host.ht
        <5>1. ThreadsPerCore(host) = 1
          BY <4>2, <4>4
        <5>2. Largest(v \div 1, 1) * 1 # v
          BY <3>3, <3>5, <3>6, <5>1
        <5> QED BY <4>1, <5>2
      <4> QED BY <4>3, <4>4
    <3>7. CASE xml.name \in host.defined
      BY <3>2, <3>3, <3>7
    <3> QED BY <3>4, <3>6, <3>7
  <2> QED BY <2>1, <2>2, <2>3 DEF phase_b_fails, At
<1>8. KnownFailures'
  BY <1>2, <1>7 DEF KnownFailures
<1> QED BY <1>1, <1>8, FailInv

\* Phase A is finished: the record keeps the ids.
LEMMA FinishInv ==
  ASSUME finish_phase_a, IInv
  PROVE  IInv'
<1>1. stage = "phase_a" /\ ids' = Ascending(pci_ids(host, config)) /\ stage' = "pending" /\ UNCHANGED <<host, config, steps, k>>
  BY DEF finish_phase_a, HostFingerprint
<1>2. HostInv /\ ChoiceInv /\ PlanInv
  BY DEF IInv
<1>3. Planned /\ Planned' /\ stage' # "phase_b" /\ stage' # "done"
  BY <1>1 DEF Planned
<1>4. ToSet(ids') \subseteq Nat
  <2>1. Scanned(host) /\ DOMAIN config.roles = DOMAIN host.gpus
    BY <1>1, <1>2 DEF HostInv, ChoiceInv, ConfigOK
  <2>2. pci_ids(host, config) \in SUBSET (Nat \ {0}) /\ IsFiniteSet(pci_ids(host, config))
    BY <2>1, PassedIds
  <2>3. PICK S \in SUBSET Nat : S = pci_ids(host, config) /\ IsFiniteSet(S)
    BY <2>2
  <2>4. ToSet(Ascending(S)) = S
    BY <2>3, SortedNumbers
  <2> QED BY <1>1, <2>3, <2>4
<1>5. HostInv' /\ ChoiceInv'
  BY <1>1, <1>2 DEF HostInv, ChoiceInv, Stages
<1>6. PlanInv'
  BY <1>1, <1>2, <1>3, <1>4 DEF PlanInv
<1>7. KnownFailures'
  BY <1>1 DEF KnownFailures
<1> QED BY <1>5, <1>6, <1>7 DEF IInv

\* The fields that a reboot does not touch, by name.
LEMMA UnmovedFields ==
  ASSUME NEW h, NEW n, Unmoved(h, n)
  PROVE  /\ n.lacks = h.lacks /\ n.kind = h.kind /\ n.initramfs = h.initramfs /\ n.defined = h.defined
         /\ n.lists = h.lists /\ n.spare = h.spare /\ n.own = h.own /\ n.early = h.early /\ n.cpu_param = h.cpu_param
         /\ n.cpuinfo = h.cpuinfo
BY DEF Unmoved, Hardware

\* The reboot keeps what validation has found.
LEMMA RebootInv ==
  ASSUME reboot, IInv
  PROVE  IInv'
<1>1. /\ stage = "pending" /\ host' = Booted(host, BootLine(host), image) /\ stage' = "booted"
      /\ UNCHANGED <<config, steps, ids, k>>
  BY DEF reboot
<1>2. HostInv /\ ChoiceInv /\ PlanInv
  BY DEF IInv
<1>3. Scanned(host) /\ IsMachine(host) /\ ConfigOK(host, config)
  BY <1>1, <1>2 DEF HostInv, Scanned, ChoiceInv
<1>4. Scanned(host') /\ OneDriver(host') /\ SameButDriver(host.pci, host'.pci) /\ Unmoved(host, host')
  BY <1>1, <1>3, BootedHost
<1>5. /\ host'.lacks = host.lacks /\ host'.kind = host.kind /\ host'.initramfs = host.initramfs
      /\ host'.defined = host.defined /\ host'.lists = host.lists
  BY <1>4, UnmovedFields
<1>6. /\ ConfigOK(host', config) /\ pci_ids(host', config) = pci_ids(host, config)
      /\ PlanOK(host, config, steps) => PlanOK(host', config, steps)
      /\ Sound(host, config) => Sound(host', config)
  BY <1>3, <1>4, <1>5, DecisionsKept
<1>7. HostInv'
  BY <1>4 DEF HostInv
<1>8. ChoiceInv'
  BY <1>1, <1>6 DEF ChoiceInv, Stages
<1>9. Planned /\ Planned' /\ Waiting /\ Waiting' /\ stage' # "phase_b" /\ stage' # "done"
  BY <1>1 DEF Planned, Waiting
<1>10. PlanInv'
  BY <1>1, <1>2, <1>5, <1>6, <1>9 DEF PlanInv
<1>11. KnownFailures'
  BY <1>1 DEF KnownFailures
<1> QED BY <1>7, <1>8, <1>10, <1>11 DEF IInv

\* A resume goes on only with what it has verified.
LEMMA ResumeInv ==
  ASSUME run_resume, IInv
  PROVE  IInv'
<1>1. /\ stage = "booted" /\ stage' = IF verify_phase_a_landed(host, ids) THEN "phase_b" ELSE "notready"
      /\ k' = NextOf(steps, 0, PhaseBKinds) /\ UNCHANGED <<host, config, steps, ids>>
  BY DEF run_resume
<1>2. HostInv /\ ChoiceInv /\ PlanInv
  BY DEF IInv
<1>3. stage' \in {"phase_b", "notready"} /\ (stage' = "phase_b" => verify_phase_a_landed(host, ids))
  BY <1>1
<1>4. Planned /\ Planned' /\ Waiting /\ Waiting'
  BY <1>1, <1>3 DEF Planned, Waiting
<1>5. k' \in 0..Len(steps)
  <2>1. Len(steps) \in Nat /\ DOMAIN steps = 1..Len(steps)
    BY <1>2, <1>4 DEF PlanInv, PlanOK
  <2>2. 0 \in 0..Len(steps)
    BY <2>1
  <2> QED BY <1>1, <2>1, <2>2, NextStep
<1>6. HostInv' /\ ChoiceInv'
  BY <1>1, <1>2, <1>3 DEF HostInv, ChoiceInv, Stages
<1>7. PlanInv'
  BY <1>1, <1>2, <1>3, <1>4, <1>5 DEF PlanInv
<1>8. KnownFailures'
  BY <1>3 DEF KnownFailures
<1> QED BY <1>6, <1>7, <1>8 DEF IInv

\* The verification looks at the kernel, the command line, the GPUs and the IOMMU.
LEMMA SameVerdict ==
  ASSUME NEW h, NEW n, NEW s, n.lacks = h.lacks, n.cpu_param = h.cpu_param, n.cmdline = h.cmdline,
         n.vfio = h.vfio, n.gpus = h.gpus, verify_phase_a_landed(h, s)
  PROVE  verify_phase_a_landed(n, s)
BY Zenon DEF verify_phase_a_landed, BoundToVfio

\* The domain is registered: there is no such step after this one.
LEMMA RegisterInv ==
  ASSUME run_vm_register_step, IInv
  PROVE  IInv' /\ host'.pci = host.pci /\ host'.gpus = host.gpus /\ \A x \in (Hardware \cup Profile) \ {"defined", "disk"} : host'[x] = host[x]
<1>1. /\ stage = "phase_b" /\ k # 0 /\ steps[k].kind = "VmRegister"
      /\ host' = [host EXCEPT !.defined = @ \cup {config.vm_name}, !.disk = TRUE]
      /\ k' = NextOf(steps, k, PhaseBKinds) /\ UNCHANGED <<stage, config, steps, ids>>
  BY DEF run_vm_register_step, At, Walk
<1>2. HostInv /\ ChoiceInv /\ PlanInv
  BY DEF IInv
<1>3. Planned /\ Planned' /\ Waiting /\ Waiting'
  BY <1>1 DEF Planned, Waiting
<1>4. Scanned(host) /\ ConfigOK(host, config) /\ PlanOK(host, config, steps) /\ k \in 0..Len(steps) /\ Sound(host, config)
  BY <1>1, <1>2, <1>3 DEF HostInv, ChoiceInv, PlanInv
<1>5. config.vm_name \in Nat \ {0}
  BY <1>4 DEF ConfigOK
<1>6. /\ Scanned(host') /\ host'.pci = host.pci /\ host'.gpus = host.gpus
      /\ \A x \in (Hardware \cup Profile) \ {"defined", "disk"} : host'[x] = host[x]
  <2>0. PICK v \in Nat \ {0} : v = config.vm_name
    BY <1>5, Zenon
  <2>1. PICK n : n = host' /\ n = Registered(host, v)
    BY <1>1, <2>0, Zenon DEF Registered
  <2>2. /\ Scanned(n) /\ n.pci = host.pci /\ n.gpus = host.gpus
        /\ \A x \in (Hardware \cup Profile) \ {"defined", "disk"} : n[x] = host[x]
    BY <1>4, <2>1, RegisteredHost
  <2> QED BY <2>1, <2>2, Zenon
<1>7. /\ host'.lacks = host.lacks /\ host'.kind = host.kind /\ host'.initramfs = host.initramfs
      /\ host'.cpu_param = host.cpu_param /\ host'.cmdline = host.cmdline /\ host'.vfio = host.vfio
  BY <1>6 DEF Hardware
<1>8. SameButDriver(host.pci, host'.pci)
  BY <1>6 DEF SameButDriver
<1>9. /\ ConfigOK(host', config) /\ pci_ids(host', config) = pci_ids(host, config)
      /\ PlanOK(host', config, steps) /\ Sound(host', config)
  BY <1>4, <1>6, <1>7, <1>8, DecisionsKept
<1>10. OneDriver(host')
  BY <1>2, <1>6 DEF HostInv, OneDriver
<1>11. /\ Len(steps) \in Nat /\ DOMAIN steps = 1..Len(steps) /\ Once(steps, "VmRegister")
  BY <1>4 DEF PlanOK
<1>12. k' \in 0..Len(steps) /\ (k' # 0 => k' > k)
  BY <1>1, <1>4, <1>11, NextStep
<1>13. ~Due("VmRegister")'
  <2> SUFFICES ASSUME Due("VmRegister")' PROVE FALSE
    OBVIOUS
  <2>1. PICK i \in DOMAIN steps : k' # 0 /\ i >= k' /\ steps[i].kind = "VmRegister"
    BY <1>1 DEF Due
  <2>2. k \in DOMAIN steps /\ i \in Int /\ k \in Int /\ k' \in Int
    BY <1>1, <1>4, <1>11, <1>12
  <2>3. i = k
    BY <1>1, <1>11, <2>1, <2>2 DEF Once
  <2> QED BY <1>12, <2>1, <2>2, <2>3
<1>14. verify_phase_a_landed(host', ids)
  <2>1. verify_phase_a_landed(host, ids)
    BY <1>1, <1>2 DEF PlanInv
  <2> QED BY <1>6, <1>7, <2>1, SameVerdict
<1>15. HostInv'
  BY <1>6, <1>10 DEF HostInv
<1>16. ChoiceInv'
  BY <1>1, <1>9 DEF ChoiceInv, Stages
<1>17. PlanInv'
  BY <1>1, <1>2, <1>3, <1>9, <1>12, <1>13, <1>14 DEF PlanInv
<1>18. KnownFailures'
  BY <1>1 DEF KnownFailures
<1> QED BY <1>6, <1>15, <1>16, <1>17, <1>18 DEF IInv

\* The last step keeps the invariant.
LEMMA VerifyInv ==
  ASSUME verify_step, IInv
  PROVE  IInv'
<1>1. stage = "phase_b" /\ stage' = "done" /\ UNCHANGED <<host, config, steps, ids, k>>
  BY DEF verify_step, At
<1>2. HostInv /\ ChoiceInv /\ PlanInv
  BY DEF IInv
<1>3. Planned /\ Planned' /\ Waiting /\ Waiting'
  BY <1>1 DEF Planned, Waiting
<1>4. HostInv' /\ ChoiceInv'
  BY <1>1, <1>2 DEF HostInv, ChoiceInv, Stages
<1>5. PlanInv'
  BY <1>1, <1>2, <1>3 DEF PlanInv
<1>6. KnownFailures'
  BY <1>1 DEF KnownFailures
<1> QED BY <1>4, <1>5, <1>6 DEF IInv

\* The machine with the next card in.
Swapped == [host EXCEPT !.pci = Head(host.spare), !.spare = Tail(@), !.defined = @ \ {config.vm_name}, !.disk = FALSE]

\* The machine with its next card.
LEMMA SwappedMachine ==
  ASSUME IsMachine(host), host.spare # <<>>
  PROVE  /\ IsMachine(Swapped) /\ Swapped.pci = Head(host.spare) /\ Swapped.spare = Tail(host.spare)
         /\ Swapped.kind = host.kind
<1> DEFINE n == Swapped
<1>1. /\ DOMAIN host = Profile \cup Hardware /\ DOMAIN n = DOMAIN host /\ n.defined = host.defined \ {config.vm_name}
      /\ n.pci = Head(host.spare) /\ n.spare = Tail(host.spare)
      /\ \A x \in Hardware \ {"defined", "disk", "pci", "spare"} : n[x] = host[x]
  BY DEF Swapped, IsMachine, Profile, Hardware
<1> HIDE DEF n
<1>2. /\ n.drm = host.drm /\ n.cpuinfo = host.cpuinfo /\ n.ram = host.ram
      /\ n.own = host.own /\ n.cpu_param = host.cpu_param /\ n.mkconfig = host.mkconfig /\ n.lists = host.lists
      /\ n.early = host.early /\ n.kind = host.kind
  BY <1>1 DEF Hardware
<1>3. n.defined \subseteq Nat \ {0} /\ IsFiniteSet(n.defined)
  <2>1. host.defined \subseteq Nat \ {0} /\ IsFiniteSet(host.defined)
    BY DEF IsMachine
  <2> QED BY <1>1, <2>1, FS_Subset
<1>4. n.pci \in Seq(PciFunction) /\ n.spare \in Seq(Seq(PciFunction))
  <2>1. host.spare \in Seq(Seq(PciFunction))
    BY DEF IsMachine
  <2> QED BY <1>1, <2>1, HeadTailProperties
<1>5. IsMachine(n)
  BY <1>1, <1>2, <1>3, <1>4 DEF IsMachine
<1> QED BY <1>1, <1>2, <1>5 DEF n

\* The next setup starts like the first.
LEMMA SwapInv ==
  ASSUME swap_card, IInv
  PROVE  IInv'
<1>1. /\ host.spare # <<>> /\ host' = Booted(Swapped, BootLine(host), image)
      /\ config' = <<>> /\ steps' = <<>> /\ ids' = <<>> /\ stage' = "scan" /\ k' = 0
  BY DEF swap_card, Swapped
<1>2. IsMachine(host)
  BY DEF IInv, HostInv, Scanned
<1>3. IsMachine(Swapped)
  BY <1>1, <1>2, SwappedMachine
<1>4. Scanned(host') /\ OneDriver(host') /\ host'.domains = detect_libvirt_domains(host')
  BY <1>1, <1>3, BootedHost
<1>5. ~Planned' /\ ~Waiting'
  BY <1>1 DEF Planned, Waiting
<1>6. HostInv'
  BY <1>4 DEF HostInv
<1>7. ChoiceInv'
  BY <1>1, <1>4 DEF ChoiceInv, Stages
<1>8. PlanInv'
  BY <1>1, <1>5, NoElements DEF PlanInv
<1>9. KnownFailures'
  BY <1>1 DEF KnownFailures
<1> QED BY <1>6, <1>7, <1>8, <1>9 DEF IInv

\* Nothing changes.
LEMMA StutterInv ==
  ASSUME UNCHANGED vars, IInv
  PROVE  IInv'
<1>1. UNCHANGED <<host, files, grubcfg, image, config, steps, ids, stage, k>>
  BY DEF vars
<1>2. HostInv' /\ ChoiceInv' /\ KnownFailures'
  BY <1>1 DEF IInv, HostInv, ChoiceInv, KnownFailures
<1>3. (Planned' <=> Planned) /\ (Waiting' <=> Waiting) /\ (Due("VmRegister")' <=> Due("VmRegister"))
  BY <1>1 DEF Planned, Waiting, Due
<1>4. PlanInv'
  BY <1>1, <1>3 DEF IInv, PlanInv
<1> QED BY <1>2, <1>4 DEF IInv

\* Every step keeps the invariant.
LEMMA NextInv == IInv /\ [Next]_vars => IInv'
<1> SUFFICES ASSUME IInv, [Next]_vars PROVE IInv'
  OBVIOUS
<1>1. ASSUME NEW c \in {recommended_defaults(host)} \cup (IF Edits THEN Edited(host) ELSE {}), choose(c) PROVE IInv'
  BY <1>1, ChooseInv
<1>2. CASE no_gpus \/ plan_refused
  BY <1>2, RefusedInv
<1>3. CASE plan_accepted
  BY <1>3, AcceptedInv
<1>4. CASE run_bootloader_step \/ run_vfio_step \/ run_initramfs_step
  <2>1. stage = "phase_a" /\ k # 0 /\ Walk(PhaseAKinds) /\ UNCHANGED host
    BY <1>4 DEF run_bootloader_step, run_vfio_step, run_initramfs_step, At
  <2> QED BY <2>1, WalkInv
<1>5. CASE bootloader_not_implemented \/ regenerate_fails
  BY <1>5, PhaseAFails
<1>6. CASE finish_phase_a
  BY <1>6, FinishInv
<1>7. CASE reboot
  BY <1>7, RebootInv
<1>8. CASE run_resume
  BY <1>8, ResumeInv
<1>9. CASE phase_b_step
  <2>1. stage = "phase_b" /\ k # 0 /\ Walk(PhaseBKinds) /\ UNCHANGED host
    BY <1>9 DEF phase_b_step, At
  <2> QED BY <2>1, WalkInv
<1>10. CASE phase_b_fails
  BY <1>10, PhaseBFails
<1>11. CASE run_vm_register_step
  BY <1>11, RegisterInv
<1>12. CASE verify_step
  BY <1>12, VerifyInv
<1>13. CASE swap_card
  BY <1>13, SwapInv
<1>14. CASE UNCHANGED vars
  BY <1>14, StutterInv
<1> QED
  BY <1>1, <1>2, <1>3, <1>4, <1>5, <1>6, <1>7, <1>8, <1>9, <1>10, <1>11, <1>12, <1>13, <1>14 DEF Next

\* The invariant holds in every reachable state, for any set of machines.
THEOREM Invariance == Spec => []IInv
<1>1. IInv /\ [Next]_vars => IInv'
  BY NextInv
<1> QED BY <1>1, InitInv, PTL DEF Spec

-----------------------------------------------------------------------------
(* What holds for any machine *)

\* TypeOK always holds: a choice has a processor, a plan starts with its snapshot.
THEOREM TypeCorrect == Spec => []TypeOK
<1>1. IInv => TypeOK
  <2> SUFFICES ASSUME IInv PROVE TypeOK
    OBVIOUS
  <2>1. HostInv /\ ChoiceInv /\ PlanInv
    BY DEF IInv
  <2>2. k \in 0..Len(steps) /\ (steps # <<>> => steps[1].kind = "Snapshot")
    <3>1. CASE Planned
      BY <2>1, <3>1 DEF PlanInv, PlanOK
    <3>2. CASE ~Planned
      <4>1. k = 0 /\ steps = <<>>
        BY <2>1, <3>2 DEF PlanInv
      <4>2. Len(steps) = 0
        BY <4>1
      <4> QED BY <4>1, <4>2
    <3> QED BY <3>1, <3>2
  <2>3. ToSet(ids) \subseteq Nat
    BY <2>1 DEF PlanInv
  <2> QED BY <2>1, <2>2, <2>3 DEF TypeOK, ChoiceInv, Stages, ConfigOK
<1> QED BY <1>1, Invariance, PTL

\* KnownFailures always holds: what validation accepts fails in the six known ways only.
THEOREM KnownFailuresAlways == Spec => []KnownFailures
<1>1. IInv => KnownFailures
  BY DEF IInv
<1> QED BY <1>1, Invariance, PTL

\* Where Phase A has landed, the passed-through GPUs are on vfio-pci.
LEMMA LandedGpus ==
  ASSUME NEW h, Scanned(h), OneDriver(h), NEW c, ConfigOK(h, c),
         verify_phase_a_landed(h, Ascending(pci_ids(h, c)))
  PROVE  \A i \in With(c, "Passthrough") : h.gpus[i].driver = "vfio-pci"
<1> SUFFICES ASSUME NEW i \in With(c, "Passthrough") PROVE h.gpus[i].driver = "vfio-pci"
  OBVIOUS
<1> DEFINE id == h.gpus[i].id
           S == {j \in DOMAIN h.gpus : h.gpus[j].id = id}
           at == Ascending(Displays(h))
<1>1. DOMAIN c.roles = DOMAIN h.gpus /\ i \in DOMAIN h.gpus
  BY DEF ConfigOK, With
<1>2. PICK s : s = Ascending(pci_ids(h, c)) /\ \A j \in DOMAIN s : BoundToVfio(h, s[j])
  BY DEF verify_phase_a_landed
<1>3. id \in ToSet(s)
  <2>1. PICK P \in SUBSET Nat : P = pci_ids(h, c) /\ IsFiniteSet(P) /\ id \in P
    BY <1>1, PassedIds
  <2>2. ToSet(Ascending(P)) = P
    BY <2>1, SortedNumbers
  <2> QED BY <1>2, <2>1, <2>2
<1>4. BoundToVfio(h, id)
  BY <1>2, <1>3, Zenon DEF ToSet
<1>5. /\ Len(h.gpus) \in Nat /\ DOMAIN h.gpus = 1..Len(h.gpus)
      /\ \A j \in DOMAIN h.gpus : at[j] \in DOMAIN h.pci /\ h.gpus[j] = parse_gpu_device(h, h.pci[at[j]])
  BY GpuFields
<1>6. S \in SUBSET (Nat \ {0}) /\ i \in S
  BY <1>1, <1>5
<1>7. PICK x \in S : x = First(S) /\ x # 0
  <2> HIDE DEF S
  <2>1. First(S) \in S /\ First(S) # 0
    BY <1>6, FirstIsLeast
  <2> QED BY <2>1
<1>8. h.gpus[x].driver = "vfio-pci"
  BY <1>4, <1>7, Zenon DEF BoundToVfio
<1>9. \A j \in DOMAIN h.gpus : h.gpus[j].id = h.pci[at[j]].id /\ h.gpus[j].driver = h.pci[at[j]].driver
  <2> SUFFICES ASSUME NEW j \in DOMAIN h.gpus PROVE h.gpus[j].id = h.pci[at[j]].id /\ h.gpus[j].driver = h.pci[at[j]].driver
    OBVIOUS
  <2>1. PICK f : f = h.pci[at[j]]
    OBVIOUS
  <2>2. h.gpus[j] = parse_gpu_device(h, f)
    BY <1>5, <2>1, Zenon
  <2>3. h.gpus[j].id = f.id /\ h.gpus[j].driver = f.driver
    BY <2>2 DEF parse_gpu_device
  <2> QED BY <2>1, <2>3, Zenon
<1>10. h.pci[at[x]].id = h.pci[at[i]].id /\ at[x] \in DOMAIN h.pci /\ at[i] \in DOMAIN h.pci
  BY <1>1, <1>5, <1>7, <1>9
<1>11. h.pci[at[x]].driver = h.pci[at[i]].driver
  BY <1>10, Zenon DEF OneDriver
<1> QED BY <1>1, <1>7, <1>8, <1>9, <1>11

\* Where Phase A has landed, every step of a new plan's Phase A is satisfied.
LEMMA Replanned ==
  ASSUME NEW h, Scanned(h), OneDriver(h), NEW c, ConfigOK(h, c), With(c, "Passthrough") # {},
         verify_phase_a_landed(h, Ascending(pci_ids(h, c)))
  PROVE  \A i \in DOMAIN PhaseASteps(h, c) : PhaseASteps(h, c)[i].state = "AlreadySatisfied"
<1> DEFINE s == Ascending(pci_ids(h, c))
           wanted == {Param(h.cpu_param), Param("iommu=pt")} \cup (IF s = <<>> THEN {} ELSE {IdsParam(s)})
<1>1. h.vfio /\ \A p \in wanted : cmdline_has_param(h.cmdline, p)
  BY DEF verify_phase_a_landed
<1>2. \E i \in With(c, "Passthrough") : h.gpus[i].driver = "vfio-pci"
  BY LandedGpus
<1>3. ASSUME NEW kind, NEW touches, NEW b, b PROVE \A x \in ToSet(Step(kind, touches, b)) : x.state = "AlreadySatisfied"
  BY <1>3 DEF Step, ToSet
<1>4. \A x \in ToSet(<<>>) : x.state = "AlreadySatisfied"
  BY NoElements
<1>5. \A x \in ToSet(bootloader_step(h, c)) : x.state = "AlreadySatisfied"
  <2>1. bootloader_step(h, c) = IF ConfigPath(h.kind) = "none" THEN <<>>
          ELSE Step("BootloaderWrite", ConfigPath(h.kind), \A p \in wanted : cmdline_has_param(h.cmdline, p))
    BY Zenon DEF bootloader_step, passthrough_pci_ids
  <2> HIDE DEF wanted
  <2>2. CASE ConfigPath(h.kind) = "none"
    BY <1>4, <2>1, <2>2
  <2>3. CASE ConfigPath(h.kind) # "none"
    <3>1. bootloader_step(h, c) = Step("BootloaderWrite", ConfigPath(h.kind), \A p \in wanted : cmdline_has_param(h.cmdline, p))
      BY <2>1, <2>3
    <3>2. \A x \in ToSet(Step("BootloaderWrite", ConfigPath(h.kind), \A p \in wanted : cmdline_has_param(h.cmdline, p))) : x.state = "AlreadySatisfied"
      BY <1>1, <1>3, Zenon
    <3> QED BY <3>1, <3>2, Zenon
  <2> QED BY <2>2, <2>3
<1>6. \A x \in ToSet(vfio_step(h, c)) : x.state = "AlreadySatisfied"
  <2> DEFINE b == h.vfio /\ \E i \in With(c, "Passthrough") : h.gpus[i].driver = "vfio-pci"
  <2>1. vfio_step(h, c) = <<>> \/ vfio_step(h, c) = Step("VfioConfig", "snippet", b)
    BY Zenon DEF vfio_step
  <2>2. b
    BY <1>1, <1>2
  <2> HIDE DEF b
  <2> QED BY <1>3, <1>4, <2>1, <2>2, Zenon
<1>7. \A x \in ToSet(initramfs_step(h)) : x.state = "AlreadySatisfied"
  <2>1. initramfs_step(h) = <<>> \/ initramfs_step(h) = Step("InitramfsWrite", "initramfs", h.vfio)
    BY Zenon DEF initramfs_step
  <2> QED BY <1>1, <1>3, <1>4, <2>1, Zenon
<1>8. PICK a : a = PhaseASteps(h, c)
  OBVIOUS
<1>9. ToSet(a) = ToSet(bootloader_step(h, c)) \cup ToSet(vfio_step(h, c)) \cup ToSet(initramfs_step(h))
  BY <1>8, PhaseAShape
<1>10. \A x \in ToSet(a) : x.state = "AlreadySatisfied"
  BY <1>5, <1>6, <1>7, <1>9
<1>11. \A i \in DOMAIN a : a[i] \in ToSet(a)
  BY DEF ToSet
<1> QED BY <1>8, <1>10, <1>11, Zenon

\* ReplanSatisfied always holds: planning again after Phase A has landed finds nothing to do.
THEOREM ReplanSatisfiedAlways == Spec => []ReplanSatisfied
<1>1. IInv => ReplanSatisfied
  <2> SUFFICES ASSUME IInv, stage \in {"phase_b", "done"}
               PROVE  \A i \in DOMAIN PhaseASteps(host, config) : PhaseASteps(host, config)[i].state = "AlreadySatisfied"
    BY DEF ReplanSatisfied
  <2>1. HostInv /\ ChoiceInv /\ PlanInv /\ Planned /\ Waiting
    BY DEF IInv, Planned, Waiting
  <2>2. Scanned(host) /\ OneDriver(host) /\ ConfigOK(host, config)
    BY <2>1 DEF HostInv, ChoiceInv
  <2>3. Sound(host, config) /\ verify_phase_a_landed(host, Ascending(pci_ids(host, config)))
    BY <2>1 DEF PlanInv
  <2> QED BY <2>2, <2>3, Replanned DEF Sound
<1> QED BY <1>1, Invariance, PTL

-----------------------------------------------------------------------------
(* Pinning *)

\* The cores that the VM gets.
VmCores(h, vcpu) ==
  Least(Largest(h.cores - (IF h.cores >= 8 THEN 2 ELSE 1), 0), Largest(vcpu \div ThreadsPerCore(h), 1))

\* The host always keeps a core.
LEMMA CoreShare ==
  ASSUME NEW c \in Nat, NEW w \in Nat, NEW t \in {1, 2}, NEW v,
         v = Least(Largest(c - (IF c >= 8 THEN 2 ELSE 1), 0), Largest(w \div t, 1))
  PROVE  v \in Nat /\ v <= c /\ (c # 0 => v < c)
<1>1. PICK x \in Nat : x = Largest(w \div t, 1)
  <2>1. CASE t = 1
    BY <2>1 DEF Largest
  <2>2. CASE t = 2
    BY <2>2 DEF Largest
  <2> QED BY <2>1, <2>2
<1> QED BY <1>1 DEF Least, Largest

\* On a processor with cores alike the recommended vCPUs are whole cores' threads.
LEMMA RecommendedShare ==
  ASSUME NEW c \in Nat, NEW w \in Nat, NEW t \in {1, 2}, NEW n \in Nat, n = t * c, w >= 2,
         w = Largest(Least(Largest((c * 3) \div 4, 1) * t, Largest(n - 1, 1)), 1),
         NEW v, v = Least(Largest(c - (IF c >= 8 THEN 2 ELSE 1), 0), Largest(w \div t, 1))
  PROVE  Least(t * v, w) = w
<1>1. PICK f \in Nat : f = (c * 3) \div 4 /\ 4 * f <= 3 * c /\ 3 * c < 4 * f + 4
  OBVIOUS
<1>2. CASE t = 1
  <2>0. n = c /\ Largest(f, 1) * t = Largest(f, 1)
    BY <1>1, <1>2 DEF Largest
  <2>1. w = Largest(Least(Largest(f, 1), Largest(c - 1, 1)), 1)
    BY <1>1, <2>0
  <2>2. w <= f /\ w <= c - 1
    BY <1>1, <2>1 DEF Largest, Least
  <2>3. v = Least(Largest(c - (IF c >= 8 THEN 2 ELSE 1), 0), w)
    BY <1>2 DEF Largest
  <2> QED BY <1>1, <1>2, <2>2, <2>3 DEF Largest, Least
<1>3. CASE t = 2
  <2>1. w = Largest(Least(Largest(f, 1) * 2, Largest(2 * c - 1, 1)), 1)
    BY <1>1, <1>3
  <2>2. w = 2 * f /\ f >= 1 /\ c >= 2
    BY <1>1, <2>1 DEF Largest, Least
  <2>3. w \div t = f
    BY <1>3, <2>2
  <2>4. v = f
    BY <1>1, <2>2, <2>3 DEF Largest, Least
  <2> QED BY <1>3, <2>2, <2>4 DEF Least
<1> QED BY <1>2, <1>3

\* A part of a list of lists: its elements, and that they are as separate as in the whole.
LEMMA PartOf ==
  ASSUME NEW T, NEW ss \in Seq(Seq(T)), NEW a \in Nat \ {0}, NEW b \in Nat, a <= b + 1, b <= Len(ss),
         NEW u, u = FlattenSeq(SubSeq(ss, a, b))
  PROVE  /\ u \in Seq(T)
         /\ \A x : x \in ToSet(u) <=> \E i \in a..b : x \in ToSet(ss[i])
         /\ Separate(ss) => IsInjective(u)
         /\ AllOf(ss, 1) => Len(u) = b - a + 1
         /\ AllOf(ss, 2) => Len(u) = 2 * (b - a + 1)
<1> DEFINE n == b - a + 1
<1>0. Len(ss) \in Nat
  BY LenProperties
<1>1. PICK q : q = SubSeq(ss, a, b)
  OBVIOUS
<1>2. /\ q \in Seq(Seq(T)) /\ Len(q) = n /\ n \in Nat
      /\ \A i \in 1..n : q[i] = ss[a + i - 1] /\ a + i - 1 \in a..b /\ a + i - 1 \in 1..Len(ss)
  <2>1. \A i \in a..b : i \in 1..Len(ss)
    BY <1>0
  <2>2. n \in Nat /\ \A i \in 1..n : a + i - 1 \in a..b
    OBVIOUS
  <2>3. \A i \in a..b : ss[i] \in Seq(T)
    BY <2>1, ElementOfSeq
  <2>4. a \in Int /\ b \in Int
    OBVIOUS
  <2>5. /\ SubSeq(ss, a, b) \in Seq(Seq(T)) /\ Len(SubSeq(ss, a, b)) = IF a <= b THEN b - a + 1 ELSE 0
        /\ \A i \in 1..(b - a + 1) : SubSeq(ss, a, b)[i] = ss[a + i - 1]
    BY <2>3, <2>4, SubSeqProperties
  <2>6. Len(q) = n
    BY <1>1, <2>4, <2>5
  <2> QED BY <1>1, <2>1, <2>2, <2>5, <2>6
<1>3. JoinOK(T, q, u, n)
  BY <1>1, <1>2, Flattened
<1>4. \A x : x \in ToSet(u) <=> \E i \in a..b : x \in ToSet(ss[i])
  <2>1. \A x : x \in ToSet(u) <=> \E i \in 1..n : x \in ToSet(q[i])
    BY <1>3 DEF JoinOK, Elements
  <2>2. ASSUME NEW i \in a..b PROVE i - a + 1 \in 1..n /\ a + (i - a + 1) - 1 = i
    OBVIOUS
  <2>3. ASSUME NEW i \in a..b PROVE \E m \in 1..n : q[m] = ss[i]
    BY <1>2, <2>2
  <2>4. \A m \in 1..n : \E i \in a..b : q[m] = ss[i]
    BY <1>2
  <2> QED BY <2>1, <2>3, <2>4
<1>5. Separate(ss) => Separate(q)
  <2> SUFFICES ASSUME Separate(ss) PROVE Separate(q)
    OBVIOUS
  <2>1. \A i \in 1..n : IsInjective(q[i])
    BY <1>2 DEF Separate
  <2>2. ASSUME NEW i \in 1..n, NEW j \in 1..n, i # j PROVE ToSet(q[i]) \cap ToSet(q[j]) = {}
    <3>1. a + i - 1 # a + j - 1
      BY <2>2
    <3>2. PICK x, y \in 1..Len(ss) : x # y /\ q[i] = ss[x] /\ q[j] = ss[y]
      BY <1>2, <3>1
    <3> QED BY <3>2 DEF Separate
  <2> QED BY <1>2, <2>1, <2>2 DEF Separate
<1>6. \A c : AllOf(ss, c) => AllOf(q, c)
  BY <1>2 DEF AllOf
<1> QED BY <1>3, <1>4, <1>5, <1>6 DEF JoinOK

\* The beginning of a list.
LEMMA Beginning ==
  ASSUME NEW T, NEW u \in Seq(T), NEW n \in Nat, n <= Len(u), NEW p, p = SubSeq(u, 1, n)
  PROVE  Len(p) = n /\ ToSet(p) \subseteq ToSet(u) /\ (IsInjective(u) => IsInjective(p))
<1>1. Len(u) \in Nat /\ DOMAIN u = 1..Len(u)
  BY LenProperties
<1>2. \A i \in 1..n : i \in 1..Len(u) /\ u[i] \in T
  BY <1>1, ElementOfSeq
<1>3. p \in Seq(T) /\ Len(p) = n /\ \A i \in 1..n : p[i] = u[i]
  <2>1. /\ SubSeq(u, 1, n) \in Seq(T) /\ Len(SubSeq(u, 1, n)) = IF 1 <= n THEN n - 1 + 1 ELSE 0
        /\ \A i \in 1..(n - 1 + 1) : SubSeq(u, 1, n)[i] = u[1 + i - 1]
    BY <1>2, SubSeqProperties
  <2>2. \A i \in 1..n : 1 + i - 1 = i /\ i \in 1..(n - 1 + 1)
    OBVIOUS
  <2> QED BY <2>1, <2>2
<1>4. DOMAIN p = 1..n /\ \A i \in 1..n : i \in DOMAIN u
  BY <1>1, <1>2, <1>3, LenProperties
<1> QED BY <1>3, <1>4 DEF ToSet, IsInjective

\* The parts of calculate_pinning.
LEMMA PinningParts ==
  ASSUME NEW h, NEW w, NEW t, t = calculate_pinning(h, w), NEW v, v = VmCores(h, w),
         NEW vm, vm = FlattenSeq(SubSeq(h.cpus, 1, v)), NEW rest, rest = FlattenSeq(SubSeq(h.cpus, v + 1, h.cores))
  PROVE  /\ t.pins = SubSeq(vm, 1, Least(Len(vm), w))
         /\ t.emulator = IF rest = <<>> THEN 0..Largest(h.threads - 1, 0) ELSE ToSet(rest)
BY DEF calculate_pinning, VmCores

\* What a VM of at least two vCPUs is pinned to.
Pinned(h, w, t) ==
  /\ ToSet(t.pins) \cap t.emulator = {}
  /\ IsInjective(t.pins)
  /\ \A p, q \in DOMAIN h.cpuinfo : h.cpuinfo[p] = h.cpuinfo[q] /\ p - 1 \in ToSet(t.pins) => q - 1 \notin t.emulator
  /\ (\A core \in ToSet(h.cpus) : Len(core) = ThreadsPerCore(h)) /\ w = recommend_vcpu_count(h) => Len(t.pins) = w

\* The pinning of any number of vCPUs is sound.
LEMMA PinningHolds ==
  ASSUME NEW h, Scanned(h), NEW w \in Nat, w >= 2, NEW t, t = calculate_pinning(h, w)
  PROVE  Pinned(h, w, t)
<1>1. /\ h.cpus \in Seq(Seq(Nat)) /\ h.cores = Len(h.cpus) /\ h.cores \in Nat
      /\ JoinOK(Nat, h.cpus, FlattenSeq(h.cpus), Len(h.cpus)) /\ h.threads = Len(FlattenSeq(h.cpus))
      /\ h.threads \in Nat
  BY Processor
<1>2. PICK cpus \in Seq(Seq(Nat)), c \in Nat, n \in Nat : cpus = h.cpus /\ c = h.cores /\ c = Len(cpus) /\ n = h.threads
  BY <1>1
<1>3. PICK tpc \in {1, 2} : tpc = ThreadsPerCore(h)
  BY DEF ThreadsPerCore
<1>4. PICK v : v = VmCores(h, w)
  OBVIOUS
<1>5. v \in Nat /\ v <= c /\ (c # 0 => v < c)
  <2>1. v = Least(Largest(c - (IF c >= 8 THEN 2 ELSE 1), 0), Largest(w \div tpc, 1))
    BY <1>2, <1>3, <1>4 DEF VmCores
  <2> QED BY <2>1, CoreShare
<1>6. PICK vm, rest : vm = FlattenSeq(SubSeq(cpus, 1, v)) /\ rest = FlattenSeq(SubSeq(cpus, v + 1, c))
  OBVIOUS
<1>7. /\ t.pins = SubSeq(vm, 1, Least(Len(vm), w))
      /\ t.emulator = IF rest = <<>> THEN 0..Largest(h.threads - 1, 0) ELSE ToSet(rest)
  <2>1. vm = FlattenSeq(SubSeq(h.cpus, 1, v)) /\ rest = FlattenSeq(SubSeq(h.cpus, v + 1, h.cores))
    BY <1>2, <1>6, Zenon
  <2> QED BY <1>4, <2>1, PinningParts
<1>8. Separate(cpus) /\ (\A i \in 1..Len(cpus) : ToSet(cpus[i]) # {})
      /\ \A i \in 1..Len(cpus), p, q \in DOMAIN h.cpuinfo :
           h.cpuinfo[p] = h.cpuinfo[q] /\ p - 1 \in ToSet(cpus[i]) => q - 1 \in ToSet(cpus[i])
  <2>1. PICK info \in Seq(Nat \X Nat) : info = h.cpuinfo /\ cpus = build_core_thread_map(info)
    BY <1>2, Zenon DEF Scanned, IsMachine
  <2>2. Separate(cpus) /\ (\A i \in 1..Len(cpus) : ToSet(cpus[i]) # {})
        /\ \A i \in 1..Len(cpus), p, q \in DOMAIN info :
             info[p] = info[q] /\ p - 1 \in ToSet(cpus[i]) => q - 1 \in ToSet(cpus[i])
    BY <2>1, CoreList
  <2> QED BY <2>1, <2>2, Zenon
<1>9. /\ vm \in Seq(Nat) /\ IsInjective(vm) /\ Len(vm) \in Nat
      /\ \A x : x \in ToSet(vm) <=> \E i \in 1..v : x \in ToSet(cpus[i])
      /\ AllOf(cpus, 1) => Len(vm) = v
      /\ AllOf(cpus, 2) => Len(vm) = 2 * v
  <2>1. 1 <= v + 1 /\ v <= Len(cpus) /\ v - 1 + 1 = v
    BY <1>2, <1>5
  <2>2. /\ vm \in Seq(Nat) /\ (Separate(cpus) => IsInjective(vm))
        /\ \A x : x \in ToSet(vm) <=> \E i \in 1..v : x \in ToSet(cpus[i])
        /\ AllOf(cpus, 1) => Len(vm) = v - 1 + 1
        /\ AllOf(cpus, 2) => Len(vm) = 2 * (v - 1 + 1)
    BY <1>5, <1>6, <2>1, PartOf
  <2> QED BY <1>8, <2>1, <2>2, LenProperties
<1>10. /\ rest \in Seq(Nat) /\ \A x : x \in ToSet(rest) <=> \E i \in (v + 1)..c : x \in ToSet(cpus[i])
  <2>1. PICK a \in Nat \ {0} : a = v + 1 /\ a <= c + 1 /\ c <= Len(cpus)
    BY <1>2, <1>5
  <2>2. rest = FlattenSeq(SubSeq(cpus, a, c))
    BY <1>6, <2>1, Zenon
  <2>3. rest \in Seq(Nat) /\ \A x : x \in ToSet(rest) <=> \E i \in a..c : x \in ToSet(cpus[i])
    <3>1. a <= c + 1 /\ c <= Len(cpus)
      BY <2>1
    <3>2. ASSUME NEW u, u = FlattenSeq(SubSeq(cpus, a, c))
          PROVE  u \in Seq(Nat) /\ \A x : x \in ToSet(u) <=> \E i \in a..c : x \in ToSet(cpus[i])
      BY <3>1, <3>2, PartOf
    <3> QED BY <2>2, <3>2, Zenon
  <2> QED BY <2>1, <2>3, Zenon
<1>11. PICK m \in Nat : m = Least(Len(vm), w) /\ m <= Len(vm)
  BY <1>9 DEF Least
<1>12. Len(t.pins) = m /\ ToSet(t.pins) \subseteq ToSet(vm) /\ IsInjective(t.pins)
  BY <1>7, <1>9, <1>11, Beginning
<1>13. ASSUME NEW x \in ToSet(t.pins) PROVE \E i \in 1..v : x \in ToSet(cpus[i])
  BY <1>9, <1>12
<1>14. ASSUME NEW i \in 1..v PROVE /\ i \in 1..Len(cpus) /\ c # 0 /\ t.emulator = ToSet(rest)
                                   /\ \A x \in ToSet(cpus[i]) : x \notin t.emulator
  <2>1. c # 0 /\ i \in 1..Len(cpus) /\ c \in (v + 1)..c /\ c \in 1..Len(cpus)
    BY <1>2, <1>5
  <2>2. rest # <<>>
    <3>1. PICK x : x \in ToSet(cpus[c])
      BY <1>8, <2>1
    <3>2. x \in ToSet(rest)
      BY <1>10, <2>1, <3>1
    <3> QED BY <3>2, NoElements, Zenon
  <2>3. t.emulator = ToSet(rest)
    BY <1>7, <2>2
  <2>4. ASSUME NEW x \in ToSet(cpus[i]), NEW j \in (v + 1)..c, x \in ToSet(cpus[j]) PROVE FALSE
    <3>1. j \in 1..Len(cpus) /\ i # j
      BY <1>2, <1>5
    <3>2. ToSet(cpus[i]) \cap ToSet(cpus[j]) = {}
      BY <1>8, <2>1, <3>1, Zenon DEF Separate
    <3> QED BY <2>4, <3>2
  <2>5. \A x \in ToSet(cpus[i]) : x \notin ToSet(rest)
    BY <1>10, <2>4
  <2> QED BY <2>1, <2>3, <2>5
<1>15. ToSet(t.pins) \cap t.emulator = {}
  BY <1>13, <1>14
<1>16. ASSUME NEW p \in DOMAIN h.cpuinfo, NEW q \in DOMAIN h.cpuinfo, h.cpuinfo[p] = h.cpuinfo[q], p - 1 \in ToSet(t.pins)
       PROVE  q - 1 \notin t.emulator
  <2>1. PICK i \in 1..v : p - 1 \in ToSet(cpus[i])
    BY <1>13, <1>16
  <2>2. q - 1 \in ToSet(cpus[i])
    BY <1>8, <1>14, <1>16, <2>1
  <2> QED BY <1>14, <2>2
<1>17. ASSUME \A core \in ToSet(h.cpus) : Len(core) = ThreadsPerCore(h), w = recommend_vcpu_count(h)
       PROVE  Len(t.pins) = w
  <2>1. AllOf(cpus, tpc)
    <3>1. \A i \in 1..Len(cpus) : cpus[i] \in ToSet(cpus)
      BY LenProperties DEF ToSet
    <3> QED BY <1>2, <1>3, <1>17, <3>1 DEF AllOf
  <2>2. n = tpc * c
    <3>1. JoinOK(Nat, cpus, FlattenSeq(cpus), c) /\ n = Len(FlattenSeq(cpus))
      BY <1>1, <1>2
    <3>2. tpc = 1 => n = c
      BY <2>1, <3>1 DEF JoinOK
    <3>3. tpc = 2 => n = 2 * c
      BY <2>1, <3>1 DEF JoinOK
    <3> QED BY <3>2, <3>3
  <2>3. w = Largest(Least(Largest((c * 3) \div 4, 1) * tpc, Largest(n - 1, 1)), 1)
    BY <1>2, <1>3, <1>17 DEF recommend_vcpu_count, ThreadsPerCore
  <2>4. v = Least(Largest(c - (IF c >= 8 THEN 2 ELSE 1), 0), Largest(w \div tpc, 1))
    BY <1>2, <1>3, <1>4 DEF VmCores
  <2>5. Least(tpc * v, w) = w
    BY <2>2, <2>3, <2>4, RecommendedShare
  <2>6. Len(vm) = tpc * v
    <3>1. tpc = 1 => Len(vm) = tpc * v
      BY <1>5, <1>9, <2>1
    <3>2. tpc = 2 => Len(vm) = tpc * v
      BY <1>5, <1>9, <2>1
    <3> QED BY <3>1, <3>2
  <2> QED BY <1>11, <1>12, <2>5, <2>6
<1> QED BY <1>12, <1>15, <1>16, <1>17 DEF Pinned

\* PinningSound always holds: vCPUs and emulator never share a core.
THEOREM PinningSoundAlways == Spec => []PinningSound
<1>1. IInv => PinningSound
  <2> SUFFICES ASSUME IInv, stage \in {"phase_b", "done"}
               PROVE  Pinned(host, config.vcpu, generate_vm_xml(host, config).cputune)
    BY Zenon DEF PinningSound, Pinned
  <2>1. HostInv /\ ChoiceInv /\ PlanInv /\ Planned
    BY DEF IInv, Planned
  <2>2. Scanned(host) /\ ConfigOK(host, config) /\ Sound(host, config)
    BY <2>1 DEF HostInv, ChoiceInv, PlanInv
  <2>3. PICK w \in Nat : w = config.vcpu /\ w >= 2
    BY <2>2 DEF ConfigOK, Sound
  <2>4. PICK t : t = calculate_pinning(host, w)
    OBVIOUS
  <2>5. generate_vm_xml(host, config).cputune = t
    BY <2>3, <2>4 DEF generate_vm_xml
  <2>6. Pinned(host, w, t)
    BY <2>2, <2>3, <2>4, PinningHolds
  <2> QED BY <2>3, <2>5, <2>6
<1> QED BY <1>1, Invariance, PTL

-----------------------------------------------------------------------------
(* Recommendation *)

\* One GPU for the guest and at most one for the host: the mode of such roles.
LEMMA ModeOfPair ==
  ASSUME NEW h, NEW c, NEW x, With(c, "Passthrough") = {x}, NEW K, K = With(c, "Host")
  PROVE  /\ K = {} => derived_mode(h, c) = "SingleGpu"
         /\ \A y : K = {y} => derived_mode(h, c) = IF h.gpus[y].type = "Integrated" THEN "IgpuHost" ELSE "DualGpu"
<1>1. With(c, "Passthrough") # {} /\ Cardinality(With(c, "Passthrough")) = 1
  BY FS_Singleton
<1>2. ASSUME K = {} PROVE derived_mode(h, c) = "SingleGpu"
  <2>1. Cardinality(K) = 0
    BY <1>2, FS_EmptySet
  <2> QED BY <1>1, <1>2, <2>1 DEF derived_mode
<1>3. ASSUME NEW y, K = {y} PROVE derived_mode(h, c) = IF h.gpus[y].type = "Integrated" THEN "IgpuHost" ELSE "DualGpu"
  <2>1. Cardinality(K) = 1 /\ K # {} /\ ((\E i \in K : h.gpus[i].type = "Integrated") <=> h.gpus[y].type = "Integrated")
    BY <1>3, FS_Singleton
  <2> QED BY <1>1, <2>1 DEF derived_mode
<1> QED BY <1>2, <1>3

\* The first of a set of GPUs.
LEMMA FirstGpu ==
  ASSUME NEW n \in Nat, NEW S \in SUBSET (1..n)
  PROVE  (S = {} => First(S) = 0) /\ (S # {} => First(S) \in S /\ First(S) \in 1..n /\ First(S) # 0)
<1>1. S \in SUBSET (Nat \ {0})
  OBVIOUS
<1> QED BY <1>1, FirstIsLeast

\* Where some discrete GPU is isolated, the recommended guest GPU is isolated, another
\* one is kept if there is one, and the recommended mode is that of the roles.
LEMMA AssignmentFits ==
  ASSUME NEW h, Scanned(h), NEW p \in DOMAIN h.gpus, h.gpus[p].type = "Discrete", h.gpus[p].isolated,
         NEW r, r = recommend_gpu_assignment(h.gpus), NEW c, c.roles = r.roles
  PROVE  \E x \in DOMAIN h.gpus : /\ With(c, "Passthrough") = {x} /\ h.gpus[x].isolated
                                  /\ derived_mode(h, c) = r.mode /\ r.mode \in {"SingleGpu", "IgpuHost", "DualGpu"}
<1>1. PICK n \in Nat : Len(h.gpus) = n /\ DOMAIN h.gpus = 1..n /\ p \in 1..n
  BY GpuFields
<1>2. PICK g : g = h.gpus
  OBVIOUS
<1> DEFINE igpu == First({i \in DOMAIN g : g[i].type = "Integrated"})
           discrete == {i \in DOMAIN g : g[i].type = "Discrete"}
           dgpu == candidate_dgpu(g)
           pass == OrElse(First({i \in DOMAIN g : g[i].isolated /\ ~g[i].boot_vga}),
                   OrElse(First({i \in DOMAIN g : g[i].isolated}),
                   OrElse(First({i \in DOMAIN g : ~g[i].boot_vga}), 2)))
           rest == DOMAIN g \ {pass}
           keep == OrElse(First({i \in rest : g[i].boot_vga}), First(rest))
<1>3. r = CASE Len(g) = 1 -> [mode |-> "SingleGpu", roles |-> <<"Passthrough">>]
            [] Len(g) # 1 /\ igpu # 0 /\ dgpu # 0 -> [mode |-> "IgpuHost", roles |-> Roles(Len(g), igpu, dgpu)]
            [] OTHER -> [mode |-> "DualGpu", roles |-> Roles(Len(g), keep, pass)]
  BY <1>2, Zenon DEF recommend_gpu_assignment
<1>4. \A role : With(c, role) = Held(r.roles, role)
  BY DEF With, Held
<1>5. /\ dgpu \in 1..n /\ g[dgpu].type = "Discrete" /\ g[dgpu].isolated /\ dgpu # 0
  <2> DEFINE S == {i \in discrete : g[i].isolated}
  <2>1. S \in SUBSET (1..n) /\ S # {}
    BY <1>1, <1>2
  <2>2. dgpu = OrElse(First(S), First(discrete))
    BY DEF candidate_dgpu
  <2>3. First(S) \in S /\ First(S) # 0
    <3> HIDE DEF S
    <3> QED BY <2>1, FirstGpu
  <2>4. dgpu = First(S)
    BY <2>2, <2>3 DEF OrElse
  <2>5. \A i \in S : i \in 1..n /\ g[i].type = "Discrete" /\ g[i].isolated /\ i # 0
    BY <1>1, <1>2
  <2> HIDE DEF S, dgpu
  <2> QED BY <2>3, <2>4, <2>5
<1>6. pass \in 1..n /\ g[pass].isolated
  <2> DEFINE A == {i \in DOMAIN g : g[i].isolated /\ ~g[i].boot_vga}
             B == {i \in DOMAIN g : g[i].isolated}
             o == OrElse(First({i \in DOMAIN g : ~g[i].boot_vga}), 2)
  <2>1. A \in SUBSET (1..n) /\ B \in SUBSET (1..n) /\ B # {} /\ A \subseteq B
    BY <1>1, <1>2
  <2>2. pass = OrElse(First(A), OrElse(First(B), o))
    OBVIOUS
  <2>3. \A i \in B : i \in 1..n /\ g[i].isolated
    BY <1>1, <1>2
  <2> HIDE DEF A, B, o, pass
  <2>4. /\ First(B) \in B /\ First(B) # 0 /\ (First(A) = 0 \/ First(A) \in A)
    BY <2>1, FirstGpu
  <2>5. pass \in B
    BY <2>1, <2>2, <2>4 DEF OrElse
  <2> QED BY <2>3, <2>5
<1>7. igpu \in 0..n /\ (igpu # 0 => g[igpu].type = "Integrated") /\ (igpu = 0 => \A i \in 1..n : g[i].type # "Integrated")
  <2> DEFINE S == {i \in DOMAIN g : g[i].type = "Integrated"}
  <2>1. S \in SUBSET (1..n) /\ (\A i : i \in S <=> i \in 1..n /\ g[i].type = "Integrated") /\ igpu = First(S)
    BY <1>1, <1>2
  <2> HIDE DEF S, igpu
  <2>2. (S = {} => igpu = 0) /\ (S # {} => igpu \in S /\ igpu \in 1..n /\ igpu # 0)
    BY <2>1, FirstGpu
  <2> QED BY <2>1, <2>2
<1>8. n # 1 => keep \in 1..n /\ keep # pass
  <2> SUFFICES ASSUME n # 1 PROVE keep \in 1..n /\ keep # pass
    OBVIOUS
  <2> DEFINE A == {i \in rest : g[i].boot_vga}
  <2> HIDE DEF pass
  <2>1. A \in SUBSET (1..n) /\ rest \in SUBSET (1..n) /\ A \subseteq rest /\ pass \notin rest
    BY <1>1, <1>2
  <2>2. rest # {}
    <3>1. 1 \in 1..n /\ 2 \in 1..n
      BY <1>1
    <3>2. pass # 1 \/ pass # 2
      OBVIOUS
    <3> QED BY <1>1, <1>2, <3>1, <3>2
  <2>3. keep = OrElse(First(A), First(rest))
    OBVIOUS
  <2> HIDE DEF A, rest, keep
  <2>4. First(rest) \in rest /\ First(rest) # 0 /\ (First(A) = 0 \/ First(A) \in A)
    BY <2>1, <2>2, FirstGpu
  <2>5. keep \in rest
    BY <2>1, <2>3, <2>4 DEF OrElse
  <2> QED BY <2>1, <2>5
<1> HIDE DEF igpu, dgpu, pass, keep
<1>9. CASE n = 1
  <2>1. r.mode = "SingleGpu" /\ r.roles = <<"Passthrough">>
    BY <1>1, <1>2, <1>3, <1>9
  <2>2. With(c, "Passthrough") = {1} /\ With(c, "Host") = {}
    BY <1>4, <2>1 DEF Held
  <2>3. derived_mode(h, c) = "SingleGpu"
    BY <2>2, ModeOfPair
  <2>4. p = 1
    BY <1>1, <1>9
  <2> QED BY <2>1, <2>2, <2>3, <2>4
<1>10. CASE n # 1 /\ igpu # 0
  <2>1. r.mode = "IgpuHost" /\ r.roles = Roles(n, igpu, dgpu)
    BY <1>1, <1>2, <1>3, <1>5, <1>10
  <2>2. igpu # dgpu /\ dgpu \in 0..n
    BY <1>5, <1>7, <1>10
  <2>3. Held(r.roles, "Host") = {igpu} \ {0} /\ Held(r.roles, "Passthrough") = {dgpu} \ {0, igpu}
    BY <1>7, <2>1, <2>2, RolesOf
  <2>4. With(c, "Host") = {igpu} /\ With(c, "Passthrough") = {dgpu}
    BY <1>4, <1>5, <1>10, <2>2, <2>3
  <2>5. derived_mode(h, c) = "IgpuHost"
    BY <1>2, <1>7, <1>10, <2>4, ModeOfPair
  <2> QED BY <1>1, <1>2, <1>5, <2>1, <2>4, <2>5
<1>11. CASE n # 1 /\ igpu = 0
  <2>1. r.mode = "DualGpu" /\ r.roles = Roles(n, keep, pass)
    BY <1>1, <1>2, <1>3, <1>11
  <2>2. keep \in 0..n /\ pass \in 0..n /\ keep # 0 /\ pass # 0
    BY <1>6, <1>8, <1>11
  <2>3. Held(r.roles, "Host") = {keep} \ {0} /\ Held(r.roles, "Passthrough") = {pass} \ {0, keep}
    BY <2>1, <2>2, RolesOf
  <2>4. With(c, "Host") = {keep} /\ With(c, "Passthrough") = {pass}
    BY <1>4, <1>8, <1>11, <2>2, <2>3
  <2>5. derived_mode(h, c) = "DualGpu"
    <3>1. h.gpus[keep].type # "Integrated"
      BY <1>2, <1>7, <1>8, <1>11
    <3> QED BY <2>4, <3>1, ModeOfPair
  <2> QED BY <1>1, <1>2, <1>6, <2>1, <2>4, <2>5
<1> QED BY <1>9, <1>10, <1>11

\* The recommended monitor plan is one of two kinds.
LEMMA MonitorPlan ==
  ASSUME NEW h, NEW roles PROVE recommend_monitor_plan(h, roles).plan \in {"TwoMonitors", "LookingGlassOnly"}
<1>1. PICK m : m = recommend_monitor_plan(h, roles)
  OBVIOUS
<1>2. \/ \E x, y : m = [plan |-> "TwoMonitors", host |-> x, vm |-> y]
      \/ m = [plan |-> "LookingGlassOnly", host |-> "", vm |-> ""]
  BY <1>1, Zenon DEF recommend_monitor_plan, OneMonitor
<1>3. ASSUME NEW x, NEW y, m = [plan |-> "TwoMonitors", host |-> x, vm |-> y] PROVE m.plan = "TwoMonitors"
  BY <1>3
<1>4. ASSUME m = [plan |-> "LookingGlassOnly", host |-> "", vm |-> ""] PROVE m.plan = "LookingGlassOnly"
  BY <1>4
<1>5. m.plan = "TwoMonitors" \/ m.plan = "LookingGlassOnly"
  BY <1>2, <1>3, <1>4, Zenon
<1> QED BY <1>1, <1>5

\* If other roles that pass a discrete GPU through are accepted, the recommended ones are.
LEMMA Suffices ==
  ASSUME NEW h, Scanned(h), \A i \in DOMAIN h.gpus : h.gpus[i].driver # "vfio-pci",
         NEW d, d = recommended_defaults(h), NEW c,
         c.vm_name = d.vm_name, c.monitor = d.monitor, c.looking_glass = d.looking_glass, c.ram_mb = d.ram_mb,
         c.vcpu = d.vcpu, c.disk = d.disk, c.devices = d.devices, c.roles \in [DOMAIN h.gpus -> Role],
         \A i \in With(c, "Passthrough") : h.gpus[i].type = "Discrete", validate(h, c) = {}
  PROVE  validate(h, d) = {}
<1> DEFINE r == recommend_gpu_assignment(h.gpus)
<1>1. /\ build_compatibility_report(h) = {} /\ c.vm_name \notin h.domains
      /\ check_gpu_roles(h, c) = {} /\ check_monitors(h, c) = {}
      /\ check_resources(h, c) = {} /\ check_devices(c) = {}
  BY ValidParts
<1>2. With(c, "Passthrough") # {} /\ \A i \in With(c, "Passthrough") : h.gpus[i].isolated
  BY <1>1, ValidRoles
<1>3. PICK p \in DOMAIN h.gpus : h.gpus[p].type = "Discrete" /\ h.gpus[p].isolated
  BY <1>2 DEF With
<1>4. d.roles = r.roles /\ d.gpu_mode = r.mode
  BY DEF recommended_defaults
<1> HIDE DEF r
<1>5. PICK x \in DOMAIN h.gpus : /\ With(d, "Passthrough") = {x} /\ h.gpus[x].isolated
                                 /\ derived_mode(h, d) = r.mode /\ r.mode \in {"SingleGpu", "IgpuHost", "DualGpu"}
  BY <1>3, <1>4, AssignmentFits DEF r
<1>6. h.gpus # <<>>
  BY <1>3
<1>7. d.roles \in [DOMAIN h.gpus -> Role]
  BY <1>6, Recommended DEF ConfigOK
<1>8. \A i \in With(d, "Host") : h.gpus[i].driver # "vfio-pci"
  BY <1>7 DEF With
<1>9. check_gpu_roles(h, d) = {}
  <2>1. derived_mode(h, d) \in {"None", d.gpu_mode} /\ derived_mode(h, d) # "MultiGpu"
    BY <1>4, <1>5
  <2> QED BY <1>5, <1>8, <2>1, ValidRoles
<1>10. check_monitors(h, d) = {}
  <2>1. d.monitor = recommend_monitor_plan(h, d.roles)
    BY DEF recommended_defaults
  <2>2. d.monitor.plan \in {"TwoMonitors", "LookingGlassOnly"}
    BY <2>1, MonitorPlan
  <2>3. CASE d.monitor.plan = "TwoMonitors"
    <3>1. check_monitors(h, d) = check_monitors(h, c)
      BY <2>3 DEF check_monitors
    <3> QED BY <1>1, <3>1
  <2>4. CASE d.monitor.plan = "LookingGlassOnly"
    BY <2>4 DEF check_monitors
  <2> QED BY <2>2, <2>3, <2>4
<1>11. check_looking_glass(h, d) = {}
  BY <1>5, NoIssue DEF check_looking_glass
<1>12. check_resources(h, d) = {} /\ check_devices(d) = {}
  <2>1. check_resources(h, d) = check_resources(h, c)
    BY DEF check_resources
  <2>2. check_devices(d) = check_devices(c)
    BY DEF check_devices
  <2> QED BY <1>1, <2>1, <2>2
<1>13. d.vm_name \notin h.domains
  BY <1>1
<1> QED BY <1>1, <1>9, <1>10, <1>11, <1>12, <1>13, ValidParts

\* RecommendationSuffices always holds: the recommendation misses no possible setup.
THEOREM RecommendationSufficesAlways == Spec => []RecommendationSuffices
<1>1. IInv => RecommendationSuffices
  <2> SUFFICES ASSUME IInv, \A i \in DOMAIN host.gpus : host.gpus[i].driver # "vfio-pci",
                      NEW d, d = recommended_defaults(host), NEW c \in OtherRoles(host, d),
                      \A i \in With(c, "Passthrough") : host.gpus[i].type = "Discrete", validate(host, c) = {}
               PROVE  validate(host, d) = {}
    BY Zenon DEF RecommendationSuffices
  <2>0. PICK r \in [DOMAIN host.gpus -> Role], m \in Mode : c = Assigned(d, r, m)
    BY SMT DEF OtherRoles
  <2>1. Scanned(host)
    BY DEF IInv, HostInv
  <2>2. d = [vm_name |-> d.vm_name, gpu_mode |-> d.gpu_mode, roles |-> d.roles, monitor |-> d.monitor,
             looking_glass |-> d.looking_glass, ram_mb |-> d.ram_mb, vcpu |-> d.vcpu, disk |-> d.disk,
             devices |-> d.devices]
    BY Zenon DEF recommended_defaults
  <2>3. /\ c.vm_name = d.vm_name /\ c.monitor = d.monitor /\ c.looking_glass = d.looking_glass /\ c.ram_mb = d.ram_mb
        /\ c.vcpu = d.vcpu /\ c.disk = d.disk /\ c.devices = d.devices /\ c.roles = r
    BY <2>0, <2>2 DEF Assigned
  <2> QED BY <2>1, <2>3, Suffices
<1> QED BY <1>1, Invariance, PTL

-----------------------------------------------------------------------------
(* Boot parameters *)

\* The last vfio-pci.ids on the command line counts.
LEMMA ClaimedLast ==
  ASSUME NEW line \in Seq(Token), NEW img, img.mods, NEW i, LastIds(line, i)
  PROVE  Claimed(line, img) = ToSet(line[i].ids)
<1> DEFINE I == {x \in 1..Len(line) : line[x].key = "vfio-pci.ids"}
           j == SelectLastInSeq(line, LAMBDA p : p.key = "vfio-pci.ids")
<1>1. Len(line) \in Nat /\ DOMAIN line = 1..Len(line)
  BY LenProperties
<1>2. i \in I /\ (\A x \in I : x <= i) /\ I \in SUBSET Int
  BY <1>1 DEF LastIds, IdsAt
<1>3. j = Max(I)
  BY <1>2 DEF SelectLastInSeq
<1>4. Max(I) \in I /\ \A y \in I : Max(I) >= y
  <2> HIDE DEF I
  <2>1. \E x \in I : \A y \in I : x >= y
    BY <1>2
  <2> QED BY <2>1, Zenon DEF Max
<1>5. j = i
  <2> HIDE DEF I, j
  <2>1. i <= Max(I) /\ Max(I) <= i /\ Max(I) \in Int /\ i \in Int
    BY <1>2, <1>4
  <2> QED BY <1>3, <2>1
<1>6. j # 0
  BY <1>1, <1>2, <1>5
<1>7. Claimed(line, img) = IF ~img.mods THEN {} ELSE ToSet(IF j = 0 THEN img.ids ELSE line[j].ids)
  BY DEF Claimed
<1> HIDE DEF j
<1> QED BY <1>5, <1>6, <1>7

\* A parameter on the command line is found there.
LEMMA HasParam ==
  ASSUME NEW line \in Seq(Token), NEW p \in ToSet(line)
  PROVE  cmdline_has_param(line, p)
<1>1. PICK i \in DOMAIN line : line[i] = p
  BY DEF ToSet
<1>2. p \in Token
  BY <1>1, LenProperties
<1>3. p.ids \in Seq(Nat)
  BY <1>2 DEF Token
<1>4. IsPrefix(p.ids, p.ids)
  <2>1. Len(p.ids) \in Nat
    BY <1>3, LenProperties
  <2> QED BY <2>1 DEF IsPrefix
<1> QED BY <1>1, <1>4 DEF cmdline_has_param

\* What EnsureParams makes of a line, for three parameters of which only the last is
\* vfio-pci.ids: the missing ones are added, and the rest of the line stays.
Extended(line, new, p3) ==
  /\ new \in Seq(Token) /\ Len(new) \in Nat /\ DOMAIN new = 1..Len(new) /\ Len(line) <= Len(new)
  /\ \A i \in 1..Len(line) : new[i] = line[i]
  /\ \A i \in IdsAt(new) : i > Len(line) => new[i] = p3 /\ p3 \notin ToSet(line)
  /\ \A i, j \in IdsAt(new) : i > Len(line) /\ j > Len(line) => i = j

\* What EnsureParams leaves in a line.
LEMMA Ensured ==
  ASSUME NEW line \in Seq(Token), NEW p1 \in Token, NEW p2 \in Token, NEW p3 \in Token,
         p1.key # "vfio-pci.ids", p2.key # "vfio-pci.ids", p3.key = "vfio-pci.ids",
         NEW new, new = EnsureParams(line, <<p1, p2, p3>>)
  PROVE  /\ Extended(line, new, p3)
         /\ {p1, p2, p3} \subseteq ToSet(new)
         /\ {p1, p2, p3} \subseteq ToSet(line) => new = line
<1>1. PICK P : P = <<p1, p2, p3>>
  OBVIOUS
<1>2. P \in Seq(Token) /\ Len(P) = 3 /\ DOMAIN P = 1..3 /\ P[1] = p1 /\ P[2] = p2 /\ P[3] = p3
  BY <1>1
<1>3. Len(line) \in Nat /\ DOMAIN line = 1..Len(line)
  BY LenProperties
<1> DEFINE A == {i \in DOMAIN P : ~Contains(line, P[i])}
           n == Cardinality(A)
           at == Ascending(A)
<1>4. \A p : Contains(line, p) <=> p \in ToSet(line)
  BY <1>3 DEF Contains, ToSet
<1>5. A \in SUBSET (1..Len(P)) /\ \A i : i \in A <=> i \in 1..3 /\ P[i] \notin ToSet(line)
  BY <1>2, <1>4
<1>6. PICK F : F = Filtered(P, A)
  OBVIOUS
<1>7. new = line \o F
  BY <1>1, <1>6 DEF EnsureParams
<1> HIDE DEF A
<1>8. F \in Seq(Token) /\ Selects(F, P, A, at)
  BY <1>2, <1>5, <1>6, FilteredList
<1>9. /\ n \in Nat /\ Len(F) = n /\ DOMAIN F = 1..n /\ (\A i \in 1..n : at[i] \in A /\ F[i] = P[at[i]])
      /\ (\A j \in A : \E i \in 1..n : at[i] = j) /\ \A i, j \in 1..n : i < j => at[i] < at[j]
  BY <1>8 DEF Selects
<1> HIDE DEF at, n
<1>10. /\ new \in Seq(Token) /\ Len(new) = Len(line) + n
       /\ \A i \in 1..(Len(line) + n) : new[i] = IF i <= Len(line) THEN line[i] ELSE F[i - Len(line)]
  <2>1. /\ line \o F \in Seq(Token) /\ Len(line \o F) = Len(line) + Len(F)
        /\ \A i \in 1..(Len(line) + Len(F)) : (line \o F)[i] = IF i <= Len(line) THEN line[i] ELSE F[i - Len(line)]
    BY <1>8, ConcatProperties
  <2>2. Len(F) = n
    BY <1>9
  <2> QED BY <1>7, <2>1, <2>2, Zenon
<1>11. Len(new) \in Nat /\ DOMAIN new = 1..(Len(line) + n) /\ Len(line) <= Len(new)
  BY <1>3, <1>9, <1>10, LenProperties
<1>12. \A i \in 1..Len(line) : new[i] = line[i]
  BY <1>3, <1>9, <1>10
<1>13. ASSUME NEW i \in IdsAt(new), i > Len(line)
       PROVE  i - Len(line) \in 1..n /\ at[i - Len(line)] = 3 /\ new[i] = p3 /\ p3 \notin ToSet(line)
  <2>1. i \in 1..(Len(line) + n) /\ new[i].key = "vfio-pci.ids"
    BY <1>11 DEF IdsAt
  <2>2. PICK x \in 1..n : x = i - Len(line) /\ new[i] = F[x]
    <3>1. new[i] = IF i <= Len(line) THEN line[i] ELSE F[i - Len(line)]
      BY <1>10, <2>1, Zenon
    <3>2. ~(i <= Len(line)) /\ i - Len(line) \in 1..n
      BY <1>3, <1>9, <1>13, <2>1
    <3> QED BY <3>1, <3>2, Zenon
  <2>3. PICK y \in A : y = at[x] /\ new[i] = P[y]
    BY <1>9, <2>2
  <2>4. y \in 1..3 /\ P[y] \notin ToSet(line) /\ P[y].key = "vfio-pci.ids"
    BY <1>5, <2>1, <2>3
  <2>5. y = 3
    BY <1>2, <2>4
  <2> QED BY <1>2, <2>2, <2>3, <2>4, <2>5
<1>14. ASSUME NEW i \in IdsAt(new), NEW j \in IdsAt(new), i > Len(line), j > Len(line) PROVE i = j
  <2>1. PICK x, y \in 1..n : x = i - Len(line) /\ y = j - Len(line) /\ at[x] = 3 /\ at[y] = 3
    BY <1>13, <1>14
  <2>2. x = y
    <3>1. ~(x < y) /\ ~(y < x)
      BY <1>9, <2>1
    <3> QED BY <1>9, <3>1
  <2>3. i \in Int /\ j \in Int
    BY <1>3, <1>9, <1>11 DEF IdsAt
  <2> QED BY <1>3, <2>1, <2>2, <2>3
<1>15. Extended(line, new, p3)
  BY <1>10, <1>11, <1>12, <1>13, <1>14 DEF Extended
<1>16. ASSUME NEW y \in 1..3 PROVE P[y] \in ToSet(new)
  <2>1. ToSet(new) = ToSet(line) \cup ToSet(F)
    BY <1>7, <1>8, ElementsOfConcat
  <2>2. CASE y \in A
    <3>1. PICK x \in 1..n : at[x] = y
      BY <1>9, <2>2
    <3>2. x \in DOMAIN F /\ F[x] = P[y]
      BY <1>9, <3>1
    <3> QED BY <2>1, <3>2 DEF ToSet
  <2>3. CASE y \notin A
    BY <1>5, <2>1, <2>3
  <2> QED BY <2>2, <2>3
<1>17. {p1, p2, p3} \subseteq ToSet(new)
  <2>1. P[1] \in ToSet(new) /\ P[2] \in ToSet(new) /\ P[3] \in ToSet(new)
    BY <1>16
  <2> QED BY <1>2, <2>1
<1>18. ASSUME {p1, p2, p3} \subseteq ToSet(line) PROVE new = line
  <2>1. A = {}
    <3>1. \A i \in 1..3 : P[i] \in {p1, p2, p3}
      BY <1>2
    <3> QED BY <1>5, <1>18, <3>1
  <2>2. n = 0
    BY <2>1, FS_EmptySet DEF n
  <2>3. F = <<>>
    BY <1>8, <1>9, <2>2, EmptySeq
  <2> QED BY <1>7, <2>3, ConcatEmptySeq
<1> QED BY <1>15, <1>17, <1>18

\* The ids of the guest's devices as a list.
LEMMA GuestIds ==
  ASSUME NEW h, Scanned(h), NEW c, ConfigOK(h, c), With(c, "Passthrough") # {}
  PROVE  /\ sort_dedup(h, c) \in Seq(Nat) /\ sort_dedup(h, c) # <<>>
         /\ ToSet(sort_dedup(h, c)) = pci_ids(h, c) /\ pci_ids(h, c) \subseteq IdsOf(h.pci)
<1>1. DOMAIN c.roles = DOMAIN h.gpus
  BY DEF ConfigOK
<1>2. PICK S \in SUBSET Nat : /\ S = pci_ids(h, c) /\ IsFiniteSet(S) /\ S # {}
                              /\ \A x \in S : \E j \in DOMAIN h.pci : h.pci[j].id = x
  <2>1. /\ pci_ids(h, c) \in SUBSET (Nat \ {0}) /\ IsFiniteSet(pci_ids(h, c))
        /\ \A x \in pci_ids(h, c) : \E j \in DOMAIN h.pci : h.pci[j].id = x
        /\ \A i \in With(c, "Passthrough") : h.gpus[i].id \in pci_ids(h, c)
    BY <1>1, PassedIds
  <2>2. pci_ids(h, c) # {} /\ pci_ids(h, c) \in SUBSET Nat
    BY <2>1
  <2> QED BY <2>1, <2>2
<1>3. Ascending(S) \in Seq(Nat) /\ ToSet(Ascending(S)) = S
  BY <1>2, SortedNumbers
<1>4. Ascending(S) # <<>>
  BY <1>2, <1>3, NoElements
<1>5. S \subseteq IdsOf(h.pci)
  BY <1>2 DEF IdsOf, ToSet
<1> QED BY <1>2, <1>3, <1>4, <1>5 DEF sort_dedup

\* Three parameters as a list.
LEMMA ThreeParams ==
  ASSUME NEW a, NEW b, NEW c PROVE <<a, b>> \o <<c>> = <<a, b, c>>
<1>1. PICK s, t, u : s = <<a, b>> /\ t = <<c>> /\ u = <<a, b, c>>
  OBVIOUS
<1>2. s \in Seq({a, b, c}) /\ t \in Seq({a, b, c}) /\ u \in Seq({a, b, c}) /\ Len(s) = 2 /\ Len(t) = 1 /\ Len(u) = 3
      /\ s[1] = a /\ s[2] = b /\ t[1] = c /\ u[1] = a /\ u[2] = b /\ u[3] = c
  BY <1>1
<1>3. s \o t \in Seq({a, b, c}) /\ Len(s \o t) = 3 /\ (s \o t)[1] = a /\ (s \o t)[2] = b /\ (s \o t)[3] = c
  <2>1. s \o t \in Seq({a, b, c}) /\ Len(s \o t) = Len(s) + Len(t)
    /\ \A i \in 1 .. Len(s)+Len(t) : (s \o t)[i] = IF i <= Len(s) THEN s[i] ELSE t[i-Len(s)]
    BY <1>2, ConcatProperties
  <2> QED BY <1>2, <2>1
<1>4. \A i \in 1..3 : (s \o t)[i] = u[i]
  BY <1>2, <1>3
<1>5. s \o t = u
  BY <1>2, <1>3, <1>4, SeqEqual
<1> QED BY <1>1, <1>5

\* Writing the boot loader's file: the guest's ids come last, and whatever named other
\* cards of this host is still not there.
LEMMA WriteLine ==
  ASSUME NEW h, Scanned(h), NEW c, ConfigOK(h, c), With(c, "Passthrough") # {}, NEW line \in Seq(Token),
         Unwritten(h, line) \/ Written(h, c, line), NEW new, new = EnsureParams(line, required_kernel_params(h, c))
  PROVE  new \in Seq(Token) /\ Written(h, c, new)
<1>1. PICK s \in Seq(Nat) : s = sort_dedup(h, c) /\ s # <<>> /\ ToSet(s) = pci_ids(h, c) /\ pci_ids(h, c) \subseteq IdsOf(h.pci)
  BY GuestIds
<1>2. PICK p1, p2, p3 \in Token :
        /\ p1 = Param(h.cpu_param) /\ p2 = Param("iommu=pt") /\ p3 = IdsParam(s)
        /\ p1.key # "vfio-pci.ids" /\ p2.key # "vfio-pci.ids" /\ p3.key = "vfio-pci.ids" /\ p3.ids = s
  <2>1. h.cpu_param \in {"amd_iommu=on", "intel_iommu=on"}
    BY DEF Scanned, IsMachine
  <2>2. <<>> \in Seq(Nat)
    BY EmptySeq
  <2>3. Param(h.cpu_param) \in Token /\ Param(h.cpu_param).key # "vfio-pci.ids"
    BY <2>1, <2>2 DEF Param, Token
  <2>4. Param("iommu=pt") \in Token /\ Param("iommu=pt").key # "vfio-pci.ids"
    BY <2>2 DEF Param, Token
  <2>5. IdsParam(s) \in Token /\ IdsParam(s).key = "vfio-pci.ids" /\ IdsParam(s).ids = s
    BY <2>2 DEF IdsParam, Token
  <2> QED BY <2>3, <2>4, <2>5, Zenon
<1>3. required_kernel_params(h, c) = <<p1, p2, p3>>
  <2>1. required_kernel_params(h, c) = <<p1, p2>> \o <<p3>>
    BY <1>1, <1>2, Zenon DEF required_kernel_params
  <2>2. <<p1, p2>> \o <<p3>> = <<p1, p2, p3>>
    BY ThreeParams
  <2> QED BY <2>1, <2>2
<1>4. new = EnsureParams(line, <<p1, p2, p3>>)
  BY <1>3
<1>5. Extended(line, new, p3) /\ {p1, p2, p3} \subseteq ToSet(new) /\ ({p1, p2, p3} \subseteq ToSet(line) => new = line)
  BY <1>2, <1>4, Ensured
<1>6. CASE Written(h, c, line)
  <2>1. {p1, p2, p3} \subseteq ToSet(line)
    BY <1>1, <1>2, <1>6 DEF Written
  <2> QED BY <1>5, <1>6, <2>1
<1>7. CASE Unwritten(h, line)
  <2>1. Len(line) \in Nat /\ DOMAIN line = 1..Len(line)
    BY LenProperties
  <2>2. /\ new \in Seq(Token) /\ Len(new) \in Nat /\ DOMAIN new = 1..Len(new) /\ Len(line) <= Len(new)
        /\ \A i \in 1..Len(line) : new[i] = line[i]
        /\ \A i \in IdsAt(new) : i > Len(line) => new[i] = p3 /\ p3 \notin ToSet(line)
        /\ \A i, j \in IdsAt(new) : i > Len(line) /\ j > Len(line) => i = j
    BY <1>5 DEF Extended
  <2>3. \A i \in IdsAt(new) : i \in Int /\ (i <= Len(line) => i \in IdsAt(line))
    BY <2>1, <2>2 DEF IdsAt
  <2>4. ASSUME NEW i \in IdsAt(new), i > Len(line) PROVE LastIds(new, i)
    <3>1. \A j \in IdsAt(new) : j <= i
      BY <2>1, <2>2, <2>3, <2>4
    <3> QED BY <3>1 DEF LastIds
  <2>5. ASSUME NEW i \in IdsAt(new), i <= Len(line), ToSet(new[i].ids) \subseteq KnownIds(h)
        PROVE  i \in IdsAt(line) /\ LastIds(line, i) /\ h.spare = <<>>
    <3>1. i \in IdsAt(line) /\ new[i] = line[i]
      BY <2>1, <2>2, <2>3, <2>5 DEF IdsAt
    <3> QED BY <1>7, <2>5, <3>1 DEF Unwritten, OfCards
  <2>6. \E i \in IdsAt(new) : LastIds(new, i) /\ new[i].ids = s
    <3>1. PICK i \in DOMAIN new : new[i] = p3
      BY <1>5 DEF ToSet
    <3>2. i \in IdsAt(new) /\ new[i].ids = s /\ i \in Int
      BY <1>2, <2>2, <3>1 DEF IdsAt
    <3>3. CASE i > Len(line)
      BY <2>4, <3>2, <3>3
    <3>4. CASE i <= Len(line)
      <4>1. ToSet(new[i].ids) \subseteq KnownIds(h)
        BY <1>1, <3>2 DEF KnownIds
      <4>2. i \in IdsAt(line) /\ LastIds(line, i)
        BY <2>5, <3>2, <3>4, <4>1
      <4>3. p3 \in ToSet(line)
        BY <2>1, <2>2, <3>1, <4>2 DEF IdsAt, ToSet
      <4>4. \A j \in IdsAt(new) : j <= Len(line)
        BY <2>1, <2>2, <2>3, <4>3
      <4>5. \A j \in IdsAt(new) : j <= i
        BY <2>3, <4>2, <4>4 DEF LastIds
      <4> QED BY <3>2, <4>5 DEF LastIds
    <3> QED BY <2>1, <3>2, <3>3, <3>4
  <2>7. h.spare # <<>> => \A i \in OfCards(h, new) : LastIds(new, i)
    <3> SUFFICES ASSUME h.spare # <<>>, NEW i \in OfCards(h, new) PROVE LastIds(new, i)
      OBVIOUS
    <3>1. i \in IdsAt(new) /\ ToSet(new[i].ids) \subseteq KnownIds(h) /\ i \in Int
      BY <2>3 DEF OfCards
    <3>2. ~(i <= Len(line))
      BY <2>5, <3>1
    <3> QED BY <2>1, <2>4, <3>1, <3>2
  <2> QED BY <1>1, <1>2, <1>5, <2>2, <2>6, <2>7 DEF Written
<1> QED BY <1>6, <1>7

\* What the boot configuration is for depends on the cards, and not on drivers.
LEMMA SameLine ==
  ASSUME NEW h, NEW n, n.spare = h.spare, n.cpu_param = h.cpu_param, SameButDriver(h.pci, n.pci),
         NEW c, pci_ids(n, c) = pci_ids(h, c), NEW line
  PROVE  /\ KnownIds(n) = KnownIds(h)
         /\ Unwritten(h, line) => Unwritten(n, line)
         /\ Written(h, c, line) => Written(n, c, line)
<1>1. IdsOf(n.pci) = IdsOf(h.pci)
  BY DEF IdsOf, ToSet, SameButDriver
<1>2. KnownIds(n) = KnownIds(h)
  BY <1>1, Zenon DEF KnownIds
<1>3. OfCards(n, line) = OfCards(h, line)
  BY <1>2, Zenon DEF OfCards
<1>4. sort_dedup(n, c) = sort_dedup(h, c)
  BY DEF sort_dedup
<1>5. Unwritten(h, line) => Unwritten(n, line)
  BY <1>3, Zenon DEF Unwritten
<1>6. Written(h, c, line) => Written(n, c, line)
  BY <1>3, <1>4, Zenon DEF Written
<1> QED BY <1>2, <1>5, <1>6

-----------------------------------------------------------------------------
(* The boot configuration is what resume looks for *)

\* Nothing is written yet.
LEMMA BootInit ==
  ASSUME \A h \in Hosts : PlainBoot(h), Init
  PROVE  BootInv
<1>1. PICK h \in Hosts :
        /\ files = [grub |-> h.own, loader |-> <<>>, entry |-> h.own, other |-> h.own, snippet |-> <<>>, mods |-> h.early]
        /\ host = Booted(h, h.own, FirstImage(h)) /\ stage = "scan"
  BY DEF Init
<1>2. IsMachine(h) /\ PlainBoot(h)
  BY PlannerAssumption
<1>3. SameButDriver(h.pci, host.pci) /\ Unmoved(h, host)
  BY <1>1, <1>2, BootedHost
<1>4. host.kind = h.kind /\ host.spare = h.spare
  BY <1>3, UnmovedFields
<1>5. DOMAIN files = {"grub", "loader", "entry", "other", "snippet", "mods"} /\ files.grub = h.own
  BY <1>1
<1>6. h.own \in Seq(Token)
  <2>1. h.own \in Seq(Parameter)
    BY <1>2 DEF IsMachine
  <2>2. Parameter \subseteq Token
    BY DEF Parameter, Token
  <2>3. Len(h.own) \in Nat /\ h.own \in [1..Len(h.own) -> Token]
    BY <2>1, <2>2, LenProperties
  <2> QED BY <2>3, SeqDef
<1>7. Unwritten(host, h.own)
  <2>1. KnownIds(host) = KnownIds(h)
    <3>1. IdsOf(host.pci) = IdsOf(h.pci)
      BY <1>3 DEF IdsOf, ToSet, SameButDriver
    <3> QED BY <1>4, <3>1, Zenon DEF KnownIds
  <2>2. \A i \in OfCards(host, h.own), j \in IdsAt(h.own) : j <= i /\ h.spare = <<>>
    BY <1>2, <2>1 DEF PlainBoot, OfCards, IdsAt
  <2>3. OfCards(host, h.own) \subseteq IdsAt(h.own)
    BY DEF OfCards
  <2> QED BY <1>4, <2>2, <2>3 DEF Unwritten, LastIds
<1>8. ~Waiting
  BY <1>1 DEF Waiting
<1> QED BY <1>1, <1>2, <1>4, <1>5, <1>6, <1>7, <1>8 DEF BootInv, FilesType, PlainBoot, LandedMeansReady

\* A setup ends early; the choices are made.
LEMMA BootIdle ==
  ASSUME BootInv, UNCHANGED <<host, files, grubcfg, image>>,
         stage' \in {"refused", "failed"} \/ (stage \in {"scan", "chosen"} /\ stage' \in {"scan", "chosen"})
  PROVE  BootInv'
<1>1. ~Waiting' /\ stage' # "phase_a" /\ stage' \notin {"booted", "phase_b", "notready", "done"}
  BY DEF Waiting
<1>2. FilesType'
  BY DEF BootInv, FilesType
<1>3. stage' \in {"scan", "chosen"} => Unwritten(host, files.grub)
  BY DEF BootInv
<1> QED BY <1>1, <1>2, <1>3 DEF BootInv, LandedMeansReady

\* Steps after the reboot that leave the machine alone.
LEMMA BootAfter ==
  ASSUME BootInv, UNCHANGED <<host, files, grubcfg, image, config>>,
         stage \in {"booted", "phase_b", "done"}, stage' \in {"phase_b", "done"}
  PROVE  BootInv'
<1>1. Waiting /\ stage' # "phase_a" /\ stage' # "notready" /\ stage' \notin {"scan", "chosen"}
  BY DEF Waiting
<1>2. FilesType'
  BY DEF BootInv, FilesType
<1>3. /\ host.kind = "Grub2" /\ Written(host, config, files.grub) /\ grubcfg = files.grub /\ image.mods
      /\ host.cmdline = files.grub /\ host.vfio /\ Bound(host, config)
  BY <1>1 DEF BootInv
<1> QED BY <1>1, <1>2, <1>3 DEF BootInv, LandedMeansReady

\* A plan of a supported boot loader writes it, and the initramfs.
LEMMA BothWritten ==
  ASSUME NEW h, NEW c, NEW p, PlanOK(h, c, p), Sound(h, c), h.kind \in {"Grub2", "Refind", "Syslinux", "Unknown"}
  PROVE  \E i, j \in DOMAIN p : p[i].kind = "BootloaderWrite" /\ p[j].kind = "InitramfsWrite"
<1>1. ConfigPath(h.kind) # "none"
  <2>1. h.kind \in {"Grub2", "Refind", "Syslinux"}
    BY DEF Sound
  <2> QED BY <2>1 DEF ConfigPath
<1> QED BY <1>1 DEF PlanOK, Sound

\* An accepted plan has its bootloader and initramfs steps ahead.
LEMMA BootAccepted ==
  ASSUME plan_accepted, BootInv, IInv, IInv'
  PROVE  BootInv'
<1>1. /\ stage = "chosen" /\ stage' = "phase_a" /\ k' = NextOf(steps', 0, PhaseAKinds)
      /\ UNCHANGED <<host, files, grubcfg, image, config>>
  BY DEF plan_accepted
<1>2. PlanOK(host, config, steps') /\ Sound(host, config)
  <2>1. PlanInv' /\ Planned'
    BY <1>1 DEF IInv, Planned
  <2> QED BY <1>1, <2>1 DEF PlanInv
<1>3. /\ host.kind \in {"Grub2", "Refind", "Syslinux", "Unknown"} /\ Len(host.spare) <= 1
      /\ FilesType /\ Unwritten(host, files.grub)
  BY <1>1 DEF BootInv
<1>4. ASSUME NEW i \in DOMAIN steps', steps'[i].kind \in PhaseAKinds PROVE k' # 0 /\ i >= k'
  <2>1. Len(steps') \in Nat /\ DOMAIN steps' = 1..Len(steps') /\ 0 \in 0..Len(steps') /\ i > 0
    BY <1>2 DEF PlanOK
  <2>2. k' # 0 /\ k' <= i /\ k' \in 0..Len(steps')
    BY <1>1, <1>4, <2>1, NextStep
  <2> QED BY <2>1, <2>2
<1>5. Due("BootloaderWrite")' /\ Due("InitramfsWrite")'
  <2>1. PICK i, j \in DOMAIN steps' : steps'[i].kind = "BootloaderWrite" /\ steps'[j].kind = "InitramfsWrite"
    BY <1>2, <1>3, BothWritten
  <2>2. k' # 0 /\ i >= k' /\ j >= k'
    BY <1>4, <2>1 DEF PhaseAKinds
  <2> QED BY <2>1, <2>2 DEF Due
<1>6. ~Waiting'
  BY <1>1 DEF Waiting
<1>7. FilesType'
  BY <1>1, <1>3 DEF FilesType
<1> QED BY <1>1, <1>3, <1>5, <1>6, <1>7 DEF BootInv, LandedMeansReady

\* The three writers of Phase A.
LEMMA BootWriters ==
  ASSUME run_bootloader_step \/ run_vfio_step \/ run_initramfs_step, BootInv, IInv
  PROVE  BootInv'
<1>1. /\ stage = "phase_a" /\ stage' = "phase_a" /\ k # 0 /\ Walk(PhaseAKinds)
      /\ UNCHANGED <<host, grubcfg, image, config>>
  BY DEF run_bootloader_step, run_vfio_step, run_initramfs_step, At, Walk
<1>2. \A kind : kind \in PhaseAKinds /\ kind # steps[k].kind => (Due(kind) => Due(kind)')
  BY <1>1, WalkInv
<1>3. /\ host.kind \in {"Grub2", "Refind", "Syslinux", "Unknown"} /\ Len(host.spare) <= 1
      /\ DOMAIN files = {"grub", "loader", "entry", "other", "snippet", "mods"} /\ files.grub \in Seq(Token)
      /\ Unwritten(host, files.grub) \/ Written(host, config, files.grub)
      /\ ~Due("BootloaderWrite") => host.kind = "Grub2" /\ Written(host, config, files.grub)
      /\ ~Due("InitramfsWrite") => files.mods
  BY <1>1 DEF BootInv, FilesType
<1>4. {"BootloaderWrite", "InitramfsWrite"} \subseteq PhaseAKinds
  BY DEF PhaseAKinds
<1>5. ~Waiting'
  BY <1>1 DEF Waiting
<1>6. CASE run_bootloader_step
  <2>1. /\ steps[k].kind = "BootloaderWrite" /\ HasWriter(host.kind)
        /\ files' = [files EXCEPT ![steps[k].touches] = EnsureParams(@, required_kernel_params(host, config))]
    BY <1>6 DEF run_bootloader_step, At
  <2>2. host.kind = "Grub2"
    BY <1>3, <2>1 DEF HasWriter
  <2>3. Scanned(host) /\ ConfigOK(host, config) /\ PlanOK(host, config, steps) /\ Sound(host, config) /\ k \in 0..Len(steps)
    <3>1. Planned
      BY <1>1 DEF Planned
    <3> QED BY <1>1, <3>1 DEF IInv, HostInv, ChoiceInv, PlanInv
  <2>4. steps[k].touches = "grub"
    <3>1. k \in DOMAIN steps
      BY <1>1, <2>3 DEF PlanOK
    <3> QED BY <2>1, <2>2, <2>3, <3>1 DEF PlanOK, ConfigPath
  <2>5. PICK new : new = EnsureParams(files.grub, required_kernel_params(host, config))
    OBVIOUS
  <2>6. files' = [files EXCEPT !["grub"] = new]
    BY <2>1, <2>4, <2>5
  <2>7. DOMAIN files' = DOMAIN files /\ files'.grub = new /\ files'.mods = files.mods
    BY <1>3, <2>6
  <2>8. With(config, "Passthrough") # {}
    BY <2>3 DEF Sound
  <2>9. new \in Seq(Token) /\ Written(host, config, new)
    BY <1>3, <2>3, <2>5, <2>8, WriteLine
  <2>10. ~Due("InitramfsWrite")' => files'.mods
    BY <1>2, <1>3, <1>4, <2>1, <2>7
  <2>11. FilesType'
    BY <1>3, <2>7, <2>9 DEF FilesType
  <2> QED BY <1>1, <1>3, <1>5, <2>2, <2>7, <2>9, <2>10, <2>11 DEF BootInv, LandedMeansReady
<1>7. CASE run_vfio_step \/ run_initramfs_step
  <2>1. steps[k].kind # "BootloaderWrite"
    BY <1>7 DEF run_vfio_step, run_initramfs_step, At
  <2>2. /\ DOMAIN files' = DOMAIN files /\ files'.grub = files.grub
        /\ (files'.mods = files.mods /\ steps[k].kind = "VfioConfig") \/ files'.mods = TRUE
    <3>1. CASE run_vfio_step
      BY <1>3, <3>1 DEF run_vfio_step, At
    <3>2. CASE run_initramfs_step
      BY <1>3, <3>2 DEF run_initramfs_step
    <3> QED BY <1>7, <3>1, <3>2
  <2>3. ~Due("BootloaderWrite")' => host.kind = "Grub2" /\ Written(host, config, files.grub)
    BY <1>2, <1>3, <1>4, <2>1
  <2>4. ~Due("InitramfsWrite")' => files'.mods
    BY <1>2, <1>3, <1>4, <2>2
  <2>5. FilesType'
    BY <1>3, <2>2 DEF FilesType
  <2> QED BY <1>1, <1>3, <1>5, <2>2, <2>3, <2>4, <2>5 DEF BootInv, LandedMeansReady
<1> QED BY <1>6, <1>7

\* Phase A is finished: boot menu and image are made of what was written.
LEMMA BootFinish ==
  ASSUME finish_phase_a, BootInv, IInv
  PROVE  BootInv'
<1>1. /\ stage = "phase_a" /\ k = 0 /\ stage' = "pending" /\ UNCHANGED <<host, files, config, steps>>
      /\ grubcfg' = IF Wrote("BootloaderWrite") /\ host.kind = "Grub2" THEN files.grub ELSE grubcfg
      /\ image' = IF Wrote("InitramfsWrite") THEN [mods |-> files.mods, ids |-> files.snippet] ELSE image
  BY DEF finish_phase_a
<1>2. ~Due("BootloaderWrite") /\ ~Due("InitramfsWrite")
  BY <1>1 DEF Due
<1>3. /\ host.kind = "Grub2" /\ Len(host.spare) <= 1 /\ FilesType /\ Written(host, config, files.grub) /\ files.mods
  BY <1>1, <1>2 DEF BootInv
<1>4. PlanOK(host, config, steps) /\ Sound(host, config)
  <2>1. Planned /\ PlanInv
    BY <1>1 DEF Planned, IInv
  <2> QED BY <2>1 DEF PlanInv
<1>5. Wrote("BootloaderWrite") /\ Wrote("InitramfsWrite")
  BY <1>3, <1>4, BothWritten DEF Wrote
<1>6. grubcfg' = files.grub /\ image'.mods
  BY <1>1, <1>3, <1>5
<1>7. FilesType'
  BY <1>1, <1>3 DEF FilesType
<1> QED BY <1>1, <1>3, <1>6, <1>7 DEF BootInv, LandedMeansReady

\* A boot with what was written: the guest's devices, and no others, are on vfio-pci.
LEMMA BootReboot ==
  ASSUME reboot, BootInv, IInv
  PROVE  BootInv'
<1>1. /\ stage = "pending" /\ stage' = "booted" /\ host' = Booted(host, BootLine(host), image)
      /\ UNCHANGED <<files, grubcfg, image, config>>
  BY DEF reboot
<1>2. Waiting /\ Planned
  BY <1>1 DEF Waiting, Planned
<1>3. /\ host.kind = "Grub2" /\ Written(host, config, files.grub) /\ grubcfg = files.grub /\ image.mods
      /\ Len(host.spare) <= 1 /\ FilesType /\ files.grub \in Seq(Token)
  BY <1>2 DEF BootInv, FilesType
<1>4. Scanned(host) /\ IsMachine(host) /\ ConfigOK(host, config) /\ Sound(host, config)
  BY <1>1, <1>2 DEF IInv, HostInv, Scanned, ChoiceInv, PlanInv
<1>5. BootLine(host) = files.grub
  BY <1>3 DEF BootLine
<1>6. PICK n : n = host' /\ n = Booted(host, files.grub, image)
  BY <1>1, <1>5
<1>7. /\ Scanned(n) /\ SameButDriver(host.pci, n.pci) /\ Unmoved(host, n) /\ n.cmdline = files.grub /\ n.vfio = image.mods
      /\ \A j \in DOMAIN n.pci :
           n.pci[j].driver = IF n.pci[j].id \in Claimed(files.grub, image) THEN "vfio-pci" ELSE "native"
  BY <1>4, <1>6, BootedHost
<1>8. /\ n.lacks = host.lacks /\ n.kind = host.kind /\ n.initramfs = host.initramfs /\ n.spare = host.spare
      /\ n.cpu_param = host.cpu_param
  BY <1>7, UnmovedFields
<1>9. pci_ids(n, config) = pci_ids(host, config)
  BY <1>4, <1>7, <1>8, DecisionsKept
<1>10. Written(n, config, files.grub)
  BY <1>3, <1>7, <1>8, <1>9, SameLine
<1>11. Claimed(files.grub, image) = pci_ids(n, config)
  <2>1. PICK i \in IdsAt(files.grub) : LastIds(files.grub, i) /\ files.grub[i].ids = sort_dedup(host, config)
    BY <1>3 DEF Written
  <2>2. Claimed(files.grub, image) = ToSet(files.grub[i].ids)
    BY <1>3, <2>1, ClaimedLast
  <2>3. ToSet(sort_dedup(host, config)) = pci_ids(host, config)
    BY <1>4, GuestIds DEF Sound
  <2> QED BY <1>9, <2>1, <2>2, <2>3
<1>12. Bound(n, config)
  BY <1>7, <1>11 DEF Bound
<1>13. FilesType'
  BY <1>1, <1>3 DEF FilesType
<1>14. host'.kind = "Grub2" /\ Len(host'.spare) <= 1
  BY <1>3, <1>6, <1>8
<1>15. /\ Written(host', config, files.grub) /\ host'.cmdline = files.grub /\ host'.vfio /\ Bound(host', config)
  BY <1>3, <1>6, <1>7, <1>10, <1>12
<1> QED BY <1>1, <1>3, <1>13, <1>14, <1>15 DEF BootInv, LandedMeansReady

\* What resume looks for is there.
LEMMA Landed ==
  ASSUME NEW h, Scanned(h), NEW c, ConfigOK(h, c), Sound(h, c), h.cmdline \in Seq(Token), Written(h, c, h.cmdline),
         h.vfio, Bound(h, c), NEW s, s = Ascending(pci_ids(h, c))
  PROVE  verify_phase_a_landed(h, s)
<1>1. "iommu" \notin h.lacks /\ With(c, "Passthrough") # {}
  BY DEF Sound
<1>2. s = sort_dedup(h, c) /\ ToSet(s) = pci_ids(h, c)
  BY <1>1, GuestIds DEF sort_dedup
<1>3. \A p \in {Param(h.cpu_param), Param("iommu=pt")} \cup (IF s = <<>> THEN {} ELSE {IdsParam(s)}) :
        cmdline_has_param(h.cmdline, p)
  <2>1. \A p \in ToSet(h.cmdline) : cmdline_has_param(h.cmdline, p)
    BY HasParam
  <2>2. \A p \in {Param(h.cpu_param), Param("iommu=pt"), IdsParam(s)} : p \in ToSet(h.cmdline)
    BY <1>2 DEF Written
  <2> QED BY <2>1, <2>2
<1>4. ASSUME NEW j \in DOMAIN s PROVE BoundToVfio(h, s[j])
  <2> DEFINE S == {x \in DOMAIN h.gpus : h.gpus[x].id = s[j]}
             at == Ascending(Displays(h))
  <2>1. /\ Len(h.gpus) \in Nat /\ DOMAIN h.gpus = 1..Len(h.gpus)
        /\ \A x \in DOMAIN h.gpus : at[x] \in DOMAIN h.pci /\ h.gpus[x] = parse_gpu_device(h, h.pci[at[x]])
    BY GpuFields
  <2>2. S \in SUBSET (Nat \ {0}) /\ \A x \in S : x \in DOMAIN h.gpus /\ h.gpus[x].id = s[j]
    BY <2>1
  <2>3. s[j] \in pci_ids(h, c)
    BY <1>2 DEF ToSet
  <2>4. ASSUME NEW x \in S PROVE h.gpus[x].driver = "vfio-pci"
    <3>1. PICK f : f = h.pci[at[x]] /\ at[x] \in DOMAIN h.pci /\ h.gpus[x] = parse_gpu_device(h, f)
      BY <2>1, <2>2
    <3>2. h.gpus[x].id = f.id /\ h.gpus[x].driver = f.driver
      BY <3>1 DEF parse_gpu_device
    <3>3. f.id \in pci_ids(h, c)
      BY <2>2, <2>3, <3>2
    <3>4. f.driver = "vfio-pci"
      BY <3>1, <3>3, Zenon DEF Bound
    <3> QED BY <3>2, <3>4
  <2>5. PICK i : i = First(S)
    OBVIOUS
  <2>6. i # 0 => i \in S
    <3> HIDE DEF S
    <3> QED BY <2>2, <2>5, FirstIsLeast
  <2> QED BY <2>4, <2>5, <2>6, Zenon DEF BoundToVfio
<1> QED BY <1>1, <1>3, <1>4 DEF verify_phase_a_landed

\* A resume finds the host ready.
LEMMA BootResume ==
  ASSUME run_resume, BootInv, IInv
  PROVE  BootInv'
<1>1. /\ stage = "booted" /\ stage' = IF verify_phase_a_landed(host, ids) THEN "phase_b" ELSE "notready"
      /\ UNCHANGED <<host, files, grubcfg, image, config>>
  BY DEF run_resume
<1>2. Waiting /\ Planned
  BY <1>1 DEF Waiting, Planned
<1>3. Scanned(host) /\ ConfigOK(host, config) /\ Sound(host, config) /\ ids = Ascending(pci_ids(host, config))
  BY <1>1, <1>2 DEF IInv, HostInv, ChoiceInv, PlanInv
<1>4. /\ Written(host, config, host.cmdline) /\ host.cmdline \in Seq(Token) /\ host.vfio /\ Bound(host, config)
  BY <1>1, <1>2 DEF BootInv, FilesType
<1>5. verify_phase_a_landed(host, ids)
  BY <1>3, <1>4, Landed
<1>6. stage' = "phase_b"
  BY <1>1, <1>5
<1> QED BY <1>1, <1>6, BootAfter

\* Registering a domain leaves the boot configuration alone.
LEMMA BootRegister ==
  ASSUME run_vm_register_step, BootInv, IInv
  PROVE  BootInv'
<1>1. stage = "phase_b" /\ UNCHANGED <<stage, files, grubcfg, image, config>>
  BY DEF run_vm_register_step, At, Walk
<1>2. host'.pci = host.pci /\ host'.gpus = host.gpus /\ \A x \in (Hardware \cup Profile) \ {"defined", "disk"} : host'[x] = host[x]
  BY RegisterInv
<1>3. PICK n : n = host'
  OBVIOUS
<1>4. /\ n.kind = host.kind /\ n.spare = host.spare /\ n.cpu_param = host.cpu_param /\ n.cmdline = host.cmdline
      /\ n.vfio = host.vfio /\ n.pci = host.pci /\ n.gpus = host.gpus
  BY <1>2, <1>3 DEF Hardware
<1>5. Waiting
  BY <1>1 DEF Waiting
<1>6. /\ host.kind = "Grub2" /\ Len(host.spare) <= 1 /\ Written(host, config, files.grub) /\ grubcfg = files.grub /\ image.mods
      /\ FilesType /\ host.cmdline = files.grub /\ host.vfio /\ Bound(host, config)
  BY <1>1, <1>5 DEF BootInv
<1>7. pci_ids(n, config) = pci_ids(host, config)
  BY <1>4 DEF pci_ids, Devices
<1>8. SameButDriver(host.pci, n.pci)
  BY <1>4 DEF SameButDriver
<1>9. Written(n, config, files.grub)
  BY <1>4, <1>6, <1>7, <1>8, SameLine
<1>10. Bound(n, config)
  BY <1>4, <1>6, <1>7 DEF Bound
<1>11. FilesType'
  BY <1>1, <1>6 DEF FilesType
<1>12. /\ host'.kind = "Grub2" /\ Len(host'.spare) <= 1 /\ Written(host', config, files.grub)
       /\ host'.cmdline = files.grub /\ host'.vfio /\ Bound(host', config)
  BY <1>3, <1>4, <1>6, <1>9, <1>10
<1> QED BY <1>1, <1>6, <1>11, <1>12 DEF BootInv, LandedMeansReady

\* The next card: none of the lines before the last names it.
LEMMA BootSwap ==
  ASSUME swap_card, BootInv, IInv
  PROVE  BootInv'
<1>1. /\ stage = "done" /\ host.spare # <<>> /\ host' = Booted(Swapped, BootLine(host), image) /\ stage' = "scan"
      /\ UNCHANGED <<files, grubcfg, image>>
  BY DEF swap_card, Swapped
<1>2. Waiting
  BY <1>1 DEF Waiting
<1>3. /\ host.kind = "Grub2" /\ Written(host, config, files.grub) /\ Len(host.spare) <= 1 /\ FilesType
  BY <1>2 DEF BootInv
<1>4. IsMachine(host)
  BY DEF IInv, HostInv, Scanned
<1>5. PICK m : m = Swapped
  OBVIOUS
<1>6. IsMachine(m) /\ m.pci = Head(host.spare) /\ m.spare = Tail(host.spare) /\ m.kind = host.kind
  BY <1>1, <1>4, <1>5, SwappedMachine
<1>7. PICK n : n = host' /\ n = Booted(m, BootLine(host), image)
  BY <1>1, <1>5
<1>8. SameButDriver(m.pci, n.pci) /\ Unmoved(m, n)
  BY <1>6, <1>7, BootedHost
<1>9. n.kind = host.kind /\ n.spare = Tail(host.spare)
  BY <1>6, <1>8, UnmovedFields
<1>10. PICK card : host.spare = <<card>> /\ Head(host.spare) = card /\ Tail(host.spare) = <<>> /\ ToSet(host.spare) = {card}
  <2>1. host.spare \in Seq(Seq(PciFunction))
    BY <1>4 DEF IsMachine
  <2>2. Len(host.spare) = 1
    <3>1. PICK s : s = host.spare
      OBVIOUS
    <3>2. s \in Seq(Seq(PciFunction)) /\ s # <<>> /\ Len(s) <= 1
      BY <1>1, <1>3, <2>1, <3>1
    <3>3. Len(s) \in Nat
      BY <3>2, LenProperties
    <3>4. Len(s) # 0
      BY <3>2, EmptySeq, Zenon
    <3>5. Len(s) = 1
      BY <3>2, <3>3, <3>4
    <3> QED BY <3>1, <3>5
  <2>3. host.spare = <<host.spare[1]>>
    BY <2>1, <2>2
  <2>4. PICK x : host.spare = <<x>>
    BY <2>3
  <2>5. Head(<<x>>) = x /\ Tail(<<x>>) = <<>> /\ ToSet(<<x>>) = {x}
    BY DEF ToSet
  <2> QED BY <2>4, <2>5
<1>11. KnownIds(n) \subseteq KnownIds(host)
  <2>1. IdsOf(n.pci) = IdsOf(card)
    <3>1. SameButDriver(card, n.pci)
      BY <1>6, <1>8, <1>10
    <3> QED BY <3>1 DEF IdsOf, ToSet, SameButDriver
  <2>2. KnownIds(n) = IdsOf(card)
    <3>1. ToSet(n.spare) = {}
      BY <1>9, <1>10, NoElements
    <3> QED BY <2>1, <3>1 DEF KnownIds
  <2>3. IdsOf(card) \subseteq KnownIds(host)
    BY <1>10 DEF KnownIds
  <2> QED BY <2>2, <2>3
<1>12. Unwritten(n, files.grub)
  <2>1. \A i \in OfCards(host, files.grub) : LastIds(files.grub, i)
    BY <1>1, <1>3 DEF Written
  <2>2. OfCards(n, files.grub) \subseteq OfCards(host, files.grub)
    BY <1>11 DEF OfCards
  <2> QED BY <1>9, <1>10, <2>1, <2>2 DEF Unwritten
<1>13. ~Waiting'
  BY <1>1 DEF Waiting
<1>14. FilesType'
  BY <1>1, <1>3 DEF FilesType
<1>15. Len(<<>>) = 0
  OBVIOUS
<1>16. host'.kind = "Grub2" /\ Len(host'.spare) <= 1 /\ Unwritten(host', files.grub)
  BY <1>3, <1>7, <1>9, <1>10, <1>12, <1>15
<1> QED BY <1>1, <1>13, <1>14, <1>16 DEF BootInv, LandedMeansReady

\* Every step keeps the boot configuration what it should be.
LEMMA BootNext == IInv /\ IInv' /\ BootInv /\ [Next]_vars => BootInv'
<1> SUFFICES ASSUME IInv, IInv', BootInv, [Next]_vars PROVE BootInv'
  OBVIOUS
<1>1. ASSUME NEW c \in {recommended_defaults(host)} \cup (IF Edits THEN Edited(host) ELSE {}), choose(c) PROVE BootInv'
  BY <1>1, BootIdle DEF choose
<1>2. CASE no_gpus \/ plan_refused
  BY <1>2, BootIdle DEF no_gpus, plan_refused
<1>3. CASE plan_accepted
  BY <1>3, BootAccepted
<1>4. CASE run_bootloader_step \/ run_vfio_step \/ run_initramfs_step
  BY <1>4, BootWriters
<1>5. CASE bootloader_not_implemented \/ regenerate_fails \/ phase_b_fails
  <2>1. Fail
    BY <1>5 DEF bootloader_not_implemented, regenerate_fails, phase_b_fails
  <2> QED BY <2>1, BootIdle DEF Fail
<1>6. CASE finish_phase_a
  BY <1>6, BootFinish
<1>7. CASE reboot
  BY <1>7, BootReboot
<1>8. CASE run_resume
  BY <1>8, BootResume
<1>9. CASE phase_b_step
  <2>1. stage = "phase_b" /\ stage' = "phase_b" /\ UNCHANGED <<host, files, grubcfg, image, config>>
    BY <1>9 DEF phase_b_step, At, Walk
  <2> QED BY <2>1, BootAfter
<1>10. CASE run_vm_register_step
  BY <1>10, BootRegister
<1>11. CASE verify_step
  <2>1. stage = "phase_b" /\ stage' = "done" /\ UNCHANGED <<host, files, grubcfg, image, config>>
    BY <1>11 DEF verify_step, At
  <2> QED BY <2>1, BootAfter
<1>12. CASE swap_card
  BY <1>12, BootSwap
<1>13. CASE UNCHANGED vars
  <2>1. UNCHANGED <<host, files, grubcfg, image, config, steps, ids, stage, k>>
    BY <1>13 DEF vars
  <2>2. (Waiting' <=> Waiting) /\ (FilesType' <=> FilesType)
        /\ (Due("BootloaderWrite")' <=> Due("BootloaderWrite")) /\ (Due("InitramfsWrite")' <=> Due("InitramfsWrite"))
    BY <2>1 DEF Waiting, FilesType, Due
  <2> QED BY <2>1, <2>2 DEF BootInv, LandedMeansReady
<1> QED
  BY <1>1, <1>2, <1>3, <1>4, <1>5, <1>6, <1>7, <1>8, <1>9, <1>10, <1>11, <1>12, <1>13 DEF Next

\* On plain hosts the boot configuration is always what it should be at that stage.
THEOREM BootInvariance ==
  ASSUME \A h \in Hosts : PlainBoot(h)
  PROVE  Spec => []BootInv
<1>1. Init => BootInv
  BY BootInit
<1>2. IInv /\ IInv' /\ BootInv /\ [Next]_vars => BootInv'
  BY BootNext
<1> QED BY <1>1, <1>2, Invariance, PTL DEF Spec

\* LandedMeansReady always holds on plain hosts: after Phase A and a reboot, resume finds
\* the host ready.
THEOREM LandedMeansReadyAlways ==
  ASSUME \A h \in Hosts : PlainBoot(h)
  PROVE  Spec => []LandedMeansReady
<1>1. BootInv => LandedMeansReady
  BY DEF BootInv
<1> QED BY <1>1, BootInvariance, PTL

-----------------------------------------------------------------------------
(* The cards *)

\* Drivers play no part in how the functions are laid out.
LEMMA SameLayout ==
  ASSUME NEW a, NEW b, SameButDriver(a, b)
  PROVE  /\ DistinctGpus(a) => DistinctGpus(b)
         /\ OneCardPerSlot(a) => OneCardPerSlot(b)
         /\ OneCardPerGroup(a) => OneCardPerGroup(b)
<1>1. DOMAIN b = DOMAIN a
  BY DEF SameButDriver
<1>2. \A j \in DOMAIN a : /\ b[j].class = a[j].class /\ b[j].id = a[j].id /\ b[j].group = a[j].group
                          /\ b[j].fn = a[j].fn /\ Slot(b[j]) = Slot(a[j])
  BY DEF SameButDriver, Slot
<1>3. ASSUME DistinctGpus(a) PROVE DistinctGpus(b)
  BY <1>1, <1>2, <1>3 DEF DistinctGpus
<1>4. ASSUME OneCardPerSlot(a) PROVE OneCardPerSlot(b)
  <2> SUFFICES ASSUME NEW i \in DOMAIN b, NEW j \in DOMAIN b, Slot(b[i]) = Slot(b[j])
               PROVE  /\ b[i].group = b[j].group
                      /\ b[i].class = b[j].class /\ b[i].class \in {"display", "audio"} => i = j
                      /\ b[i].class = "display" /\ b[j].class = "audio" => b[j].fn \in 1..7
    BY DEF OneCardPerSlot
  <2>1. Slot(a[i]) = Slot(a[j])
    BY <1>1, <1>2
  <2>2. /\ a[i].group = a[j].group
        /\ a[i].class = a[j].class /\ a[i].class \in {"display", "audio"} => i = j
        /\ a[i].class = "display" /\ a[j].class = "audio" => a[j].fn \in 1..7
    BY <1>1, <1>4, <2>1 DEF OneCardPerSlot
  <2> QED BY <1>1, <1>2, <2>2
<1>5. ASSUME OneCardPerGroup(a) PROVE OneCardPerGroup(b)
  <2> SUFFICES ASSUME NEW i \in DOMAIN b, NEW j \in DOMAIN b, b[i].group = b[j].group,
                      {b[i].class, b[j].class} \subseteq {"display", "audio"}
               PROVE  Slot(b[i]) = Slot(b[j])
    BY DEF OneCardPerGroup
  <2>1. Slot(a[i]) = Slot(a[j])
    BY <1>1, <1>2, <1>5 DEF OneCardPerGroup
  <2> QED BY <1>1, <1>2, <2>1
<1> QED BY <1>3, <1>4, <1>5

\* A boot changes drivers only, in the cards that are in the host.
LEMMA BootedCards ==
  ASSUME NEW h, IsMachine(h), NEW line, NEW img, NEW n, n = Booted(h, line, img)
  PROVE  \A q \in CardLists(n) : q \in CardLists(h) \/ \E p \in CardLists(h) : SameButDriver(p, q)
<1>1. SameButDriver(h.pci, n.pci) /\ Unmoved(h, n)
  BY BootedHost
<1>2. n.spare = h.spare
  BY <1>1, UnmovedFields
<1> QED BY <1>1, <1>2 DEF CardLists

\* Whatever happens, the cards in the host and those still to come are ones that
\* were there before, up to their drivers.
LEMMA CardsNext ==
  ASSUME IInv, [Next]_vars, NEW q \in CardLists(host')
  PROVE  q \in CardLists(host) \/ \E p \in CardLists(host) : SameButDriver(p, q)
<1>0. IsMachine(host)
  BY DEF IInv, HostInv, Scanned
<1>1. CASE reboot
  <2>1. host' = Booted(host, BootLine(host), image)
    BY <1>1 DEF reboot
  <2> QED BY <1>0, <2>1, BootedCards
<1>2. CASE swap_card
  <2>1. host.spare # <<>> /\ host' = Booted(Swapped, BootLine(host), image)
    BY <1>2 DEF swap_card, Swapped
  <2>2. PICK m : m = Swapped
    OBVIOUS
  <2>3. IsMachine(m) /\ m.pci = Head(host.spare) /\ m.spare = Tail(host.spare)
    BY <1>0, <2>1, <2>2, SwappedMachine
  <2>4. PICK s : s = host.spare /\ s \in Seq(Seq(PciFunction)) /\ s # <<>>
    BY <1>0, <2>1 DEF IsMachine
  <2>5. Head(s) \in ToSet(s) /\ ToSet(Tail(s)) \subseteq ToSet(s)
    <3>1. DOMAIN s = 1..Len(s) /\ Len(s) \in Nat \ {0}
      BY <2>4, EmptySeq, LenProperties
    <3>2. Head(s) = s[1] /\ Len(Tail(s)) = Len(s) - 1 /\ DOMAIN Tail(s) = 1..(Len(s) - 1)
          /\ \A i \in 1..(Len(s) - 1) : Tail(s)[i] = s[i + 1]
      BY <2>4, <3>1
    <3> QED BY <3>1, <3>2 DEF ToSet
  <2>6. CardLists(m) \subseteq CardLists(host)
    BY <2>3, <2>4, <2>5 DEF CardLists
  <2> QED BY <2>1, <2>2, <2>3, <2>6, BootedCards
<1>3. CASE run_vm_register_step
  <2>1. host' = Registered(host, config.vm_name)
    BY <1>3 DEF run_vm_register_step, Registered
  <2>2. host'.pci = host.pci /\ host'.spare = host.spare
    BY <1>0, <2>1 DEF Registered, IsMachine, Hardware
  <2> QED BY <2>2 DEF CardLists
<1>4. CASE UNCHANGED host
  BY <1>4
<1>5. UNCHANGED host \/ reboot \/ swap_card \/ run_vm_register_step
  <2>1. ASSUME NEW c \in {recommended_defaults(host)} \cup (IF Edits THEN Edited(host) ELSE {}), choose(c)
        PROVE  UNCHANGED host
    BY <2>1 DEF choose
  <2>2. CASE no_gpus \/ plan_refused \/ plan_accepted \/ run_bootloader_step \/ run_vfio_step \/ run_initramfs_step
    BY <2>2 DEF no_gpus, plan_refused, plan_accepted, run_bootloader_step, run_vfio_step, run_initramfs_step
  <2>3. CASE bootloader_not_implemented \/ regenerate_fails \/ phase_b_fails
    BY <2>3 DEF bootloader_not_implemented, regenerate_fails, phase_b_fails, Fail
  <2>4. CASE finish_phase_a \/ run_resume \/ phase_b_step \/ verify_step
    BY <2>4 DEF finish_phase_a, run_resume, phase_b_step, verify_step
  <2>5. CASE UNCHANGED vars
    BY <2>5 DEF vars
  <2> QED BY <2>1, <2>2, <2>3, <2>4, <2>5 DEF Next
<1> QED BY <1>1, <1>2, <1>3, <1>4, <1>5

\* No two GPUs of one model, now or with the cards to come; stays so.
THEOREM DistinctInvariance ==
  ASSUME \A h \in Hosts : DistinctCards(h)
  PROVE  Spec => []DistinctCards(host)
<1>1. Init => DistinctCards(host)
  <2> SUFFICES ASSUME Init PROVE DistinctCards(host)
    OBVIOUS
  <2>1. PICK h \in Hosts : host = Booted(h, h.own, FirstImage(h))
    BY DEF Init
  <2> QED BY <2>1, BootedCards, SameLayout, PlannerAssumption DEF DistinctCards
<1>2. IInv /\ DistinctCards(host) /\ [Next]_vars => DistinctCards(host)'
  <2> SUFFICES ASSUME IInv, DistinctCards(host), [Next]_vars, NEW q \in CardLists(host')
               PROVE  DistinctGpus(q)
    BY DEF DistinctCards
  <2> QED BY CardsNext, SameLayout DEF DistinctCards
<1> QED BY <1>1, <1>2, Invariance, PTL DEF Spec

\* A card has its slot and its group to itself, now or with the cards to come; stays so.
THEOREM CardsInvariance ==
  ASSUME \A h \in Hosts : PlainCards(h)
  PROVE  Spec => []PlainCards(host)
<1>1. Init => PlainCards(host)
  <2> SUFFICES ASSUME Init PROVE PlainCards(host)
    OBVIOUS
  <2>1. PICK h \in Hosts : host = Booted(h, h.own, FirstImage(h))
    BY DEF Init
  <2> QED BY <2>1, BootedCards, SameLayout, PlannerAssumption DEF PlainCards
<1>2. IInv /\ PlainCards(host) /\ [Next]_vars => PlainCards(host)'
  <2> SUFFICES ASSUME IInv, PlainCards(host), [Next]_vars, NEW q \in CardLists(host')
               PROVE  OneCardPerSlot(q) /\ OneCardPerGroup(q)
    BY DEF PlainCards
  <2> QED BY CardsNext, SameLayout DEF PlainCards
<1> QED BY <1>1, <1>2, Invariance, PTL DEF Spec

\* A GPU has the id of its function, which no other function has.
LEMMA OwnId ==
  ASSUME NEW h, Scanned(h), DistinctGpus(h.pci), NEW c, DOMAIN c.roles = DOMAIN h.gpus,
         NEW i \in DOMAIN h.gpus, h.gpus[i].id \in pci_ids(h, c)
  PROVE  c.roles[i] = "Passthrough"
<1> DEFINE at == Ascending(Displays(h))
<1>1. /\ \A g \in DOMAIN h.gpus : /\ at[g] \in DOMAIN h.pci /\ h.pci[at[g]].class = "display"
                                  /\ h.gpus[g] = parse_gpu_device(h, h.pci[at[g]])
      /\ \A g, e \in DOMAIN h.gpus : at[g] = at[e] => g = e
  BY GpuFields
<1> HIDE DEF at
<1>2. h.pci \in Seq(PciFunction)
  BY DEF Scanned, IsMachine
<1>3. \A g \in DOMAIN h.gpus : h.gpus[g].id = h.pci[at[g]].id /\ h.gpus[g].audio = detect_companion_audio(h.pci, h.pci[at[g]])
  <2> TAKE g \in DOMAIN h.gpus
  <2>1. h.gpus[g] = parse_gpu_device(h, h.pci[at[g]])
    BY <1>1
  <2> QED BY <2>1 DEF parse_gpu_device
<1>4. PICK g \in With(c, "Passthrough") :
        h.gpus[i].id = h.gpus[g].id \/ (h.gpus[g].audio # 0 /\ h.gpus[i].id = h.gpus[g].audio)
  BY DEF pci_ids, Devices
<1>5. g \in DOMAIN h.gpus /\ c.roles[g] = "Passthrough"
  BY <1>4 DEF With
<1>6. CASE h.gpus[i].id = h.gpus[g].id
  <2>1. at[i] = at[g]
    BY <1>1, <1>3, <1>5, <1>6 DEF DistinctGpus
  <2> QED BY <1>1, <1>5, <2>1
<1>7. CASE h.gpus[g].audio # 0 /\ h.gpus[i].id = h.gpus[g].audio
  <2>1. PICK j \in DOMAIN h.pci : h.pci[j].class = "audio" /\ h.gpus[g].audio = h.pci[j].id
    BY <1>2, <1>3, <1>5, <1>7, Companion
  <2>2. at[i] # j
    BY <1>1, <2>1
  <2>3. h.pci[at[i]].id # h.pci[j].id
    BY <1>1, <2>1, <2>2 DEF DistinctGpus
  <2> QED BY <1>3, <1>7, <2>1, <2>3
<1> QED BY <1>4, <1>6, <1>7

\* HostGpuKept always holds on hosts with a plain boot and no two GPUs of one model: a
\* GPU that is not passed through keeps its driver.
THEOREM HostGpuKeptAlways ==
  ASSUME \A h \in Hosts : PlainBoot(h) /\ DistinctCards(h)
  PROVE  Spec => []HostGpuKept
<1>1. IInv /\ BootInv /\ DistinctCards(host) => HostGpuKept
  <2> SUFFICES ASSUME IInv, BootInv, DistinctCards(host), stage \in {"booted", "notready", "phase_b", "done"},
                      NEW i \in DOMAIN host.gpus, config.roles[i] # "Passthrough"
               PROVE  host.gpus[i].driver # "vfio-pci"
    BY DEF HostGpuKept
  <2>1. Scanned(host) /\ Bound(host, config) /\ DistinctGpus(host.pci)
    BY DEF IInv, HostInv, BootInv, DistinctCards, CardLists
  <2>2. ConfigOK(host, config)
    BY DEF IInv, ChoiceInv
  <2>3. DOMAIN config.roles = DOMAIN host.gpus
    BY <2>2 DEF ConfigOK
  <2>4. host.gpus[i].id \notin pci_ids(host, config)
    BY <2>1, <2>3, OwnId
  <2>5. PICK j \in DOMAIN host.pci : host.gpus[i].id = host.pci[j].id /\ host.gpus[i].driver = host.pci[j].driver
    <3>1. PICK j \in DOMAIN host.pci : host.gpus[i] = parse_gpu_device(host, host.pci[j])
      BY <2>1, GpuFields
    <3> QED BY <3>1 DEF parse_gpu_device
  <2> QED BY <2>1, <2>4, <2>5 DEF Bound
<1>2. (\A h \in Hosts : PlainBoot(h)) /\ (\A h \in Hosts : DistinctCards(h))
  OBVIOUS
<1>3. Spec => []BootInv
  BY <1>2, BootInvariance
<1>4. Spec => []DistinctCards(host)
  BY <1>2, DistinctInvariance
<1> QED BY <1>1, <1>3, <1>4, Invariance, PTL

\* GroupViable always holds on hosts with a plain boot and plain cards, where a card has
\* its IOMMU group to itself but for bridges and foreign devices: once Phase A has landed,
\* everything in the groups of the guest's devices is on vfio-pci.
THEOREM GroupViableAlways ==
  ASSUME \A h \in Hosts : PlainBoot(h) /\ PlainCards(h)
  PROVE  Spec => []GroupViable
<1>1. IInv /\ BootInv /\ PlainCards(host) => GroupViable
  <2> SUFFICES ASSUME IInv, BootInv, PlainCards(host), stage \in {"phase_b", "done"},
                      NEW j \in gpu_hostdev(host, config), NEW f \in ToSet(host.pci),
                      f.group = host.pci[j].group, f.class # "bridge"
               PROVE  f.driver = "vfio-pci"
    BY DEF GroupViable
  <2> DEFINE at == Ascending(Displays(host))
  <2>1. Scanned(host) /\ Bound(host, config) /\ OneCardPerSlot(host.pci) /\ OneCardPerGroup(host.pci)
        /\ host.pci \in Seq(PciFunction)
    BY DEF IInv, HostInv, Scanned, IsMachine, BootInv, PlainCards, CardLists
  <2>2. ConfigOK(host, config) /\ Sound(host, config)
    BY DEF IInv, ChoiceInv, PlanInv, Planned
  <2>3. DOMAIN config.roles = DOMAIN host.gpus
    BY <2>2 DEF ConfigOK
  <2>4. PICK i \in With(config, "Passthrough") : j \in DOMAIN host.pci /\ Slot(host.pci[j]) = host.gpus[i].slot
    BY DEF gpu_hostdev
  <2>5. PICK q \in DOMAIN host.pci : f = host.pci[q]
    BY DEF ToSet
  <2>6. i \in DOMAIN host.gpus /\ host.gpus[i].isolated
    BY <2>2, <2>3, <2>4 DEF With, Sound
  <2>7. PICK g \in DOMAIN host.pci : host.pci[g].class = "display" /\ host.gpus[i] = parse_gpu_device(host, host.pci[g])
    BY <2>1, <2>6, GpuFields
  <2>8. /\ host.gpus[i].id = host.pci[g].id /\ host.gpus[i].slot = Slot(host.pci[g])
        /\ host.gpus[i].audio = detect_companion_audio(host.pci, host.pci[g])
        /\ host.gpus[i].isolated = check_gpu_isolation(read_group_devices(host, host.pci[g]))
    BY <2>7 DEF parse_gpu_device
  <2>9. host.pci[q].group = host.pci[g].group
    BY <2>1, <2>4, <2>5, <2>7, <2>8 DEF OneCardPerSlot
  <2>10. host.pci[q].class \in {"display", "audio"}
    BY <2>5, <2>6, <2>8, <2>9, IsolatedAt
  <2>11. Slot(host.pci[q]) = Slot(host.pci[g])
    BY <2>1, <2>7, <2>9, <2>10 DEF OneCardPerGroup
  <2>12. /\ host.gpus[i].id \in pci_ids(host, config)
         /\ host.gpus[i].audio # 0 => host.gpus[i].audio \in pci_ids(host, config)
    BY <2>1, <2>3, <2>4, PassedIds
  <2>13. host.pci[q].id \in pci_ids(host, config)
    <3>1. CASE host.pci[q].class = "display"
      <4>1. q = g
        BY <2>1, <2>7, <2>11, <3>1 DEF OneCardPerSlot
      <4> QED BY <2>8, <2>12, <4>1
    <3>2. CASE host.pci[q].class = "audio"
      <4>1. host.pci[q].fn \in 1..7
        BY <2>1, <2>7, <2>11, <3>2 DEF OneCardPerSlot
      <4>2. PICK s \in DOMAIN host.pci : /\ Slot(host.pci[s]) = Slot(host.pci[g]) /\ host.pci[s].class = "audio"
                                         /\ host.gpus[i].audio = host.pci[s].id
        BY <2>1, <2>8, <2>11, <3>2, <4>1, Companion
      <4>3. s = q
        BY <2>1, <2>11, <3>2, <4>2 DEF OneCardPerSlot
      <4>4. host.pci[s].id # 0
        BY <2>1, FunctionAt DEF Scanned
      <4> QED BY <2>12, <4>2, <4>3, <4>4
    <3> QED BY <2>10, <3>1, <3>2
  <2> QED BY <2>1, <2>5, <2>13 DEF Bound
<1>2. (\A h \in Hosts : PlainBoot(h)) /\ (\A h \in Hosts : PlainCards(h))
  OBVIOUS
<1>3. Spec => []BootInv
  BY <1>2, BootInvariance
<1>4. Spec => []PlainCards(host)
  BY <1>2, CardsInvariance
<1> QED BY <1>1, <1>3, <1>4, Invariance, PTL
=============================================================================
