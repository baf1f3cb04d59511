----------------------------- MODULE HookScripts -----------------------------
(***************************************************************************)
(* The hand-over of the only GPU between the desktop and the VM, by the    *)
(* three scripts that src/src/config/writers/hooks.rs generates: libvirt   *)
(* calls the dispatcher for every domain and event, the dispatcher runs    *)
(* release or reattach.  Both run under `set -eu` with a trap that prints  *)
(* how to recover: a command that fails ends the script unless it is       *)
(* followed by `|| true`.                                                  *)
(*                                                                         *)
(* libvirt, the kernel's driver binding and the user are external, modelled*)
(* from what the scripts ask of them: the devices are in the domain as     *)
(* managed, new_id refuses an id vfio-pci already has and takes devices    *)
(* without a driver, remove_id refuses an id it has not and lets no device *)
(* go.  Claimed is whether vfio-pci has the devices since the boot, as     *)
(* after Phase A.                                                          *)
(***************************************************************************)
EXTENDS Naturals, Sequences, FiniteSets

CONSTANTS
  Cards,    \* the cards: vendor and the module that drives the card
  Claimed,  \* whether vfio-pci may have the devices since the boot
  Faults    \* whether commands may fail for reasons of their own

\* The PCI ids of the scripts in order, and the domains libvirt runs.
Devices == <<"gpu", "audio">>
Domain  == {"vm", "other"}

Modules == [Nvidia  |-> {"nvidia_drm", "nvidia_modeset", "nvidia_uvm", "nvidia"},
            Amd     |-> {"amdgpu", "radeon"},
            Intel   |-> {"i915"},
            Unknown |-> {"other"}]
Binding == {"native", "vfio-pci", "none"}

ASSUME HookAssumption ==
  /\ \A c \in Cards : c.vendor \in DOMAIN Modules /\ c.native \in Modules[c.vendor]
  /\ Claimed \subseteq BOOLEAN /\ Claimed # {} /\ Faults \in BOOLEAN

VARIABLES
  card,    \* the card
  claimed, \* whether vfio-pci takes the devices at every boot
  sys,     \* running services, loaded modules, vfio-pci's id table, drivers of the devices
  vm,      \* the domain: off, prepare (the release script), running, release (reattach)
  mine,    \* devices that libvirt itself has moved to vfio-pci
  script,  \* per domain, the commands that its hook has still to run
  last,    \* the last script of the VM since the boot: none, released, returned, failed
  told,    \* the recovery instructions have been printed and not been followed
  other    \* another domain is running

vars == <<card, claimed, sys, vm, mine, script, last, told, other>>

-----------------------------------------------------------------------------
(* The scripts *)

Cmd(do, arg)   == [do |-> do, arg |-> arg, tolerated |-> FALSE]
OrTrue(do, arg) == [do |-> do, arg |-> arg, tolerated |-> TRUE]

write_unbind_drivers(vendor) ==
  CASE vendor = "Nvidia" -> <<OrTrue("stop", "persistenced"),
                              OrTrue("rmmod", "nvidia_drm"), OrTrue("rmmod", "nvidia_modeset"),
                              OrTrue("rmmod", "nvidia_uvm"), OrTrue("rmmod", "nvidia")>>
    [] vendor = "Amd"    -> <<OrTrue("rmmod", "amdgpu"), OrTrue("rmmod", "radeon")>>
    [] vendor = "Intel"  -> <<OrTrue("rmmod", "i915")>>
    [] OTHER -> <<>>

\* Mutant: the arms of AMD and Intel are swapped.
write_rebind_drivers_swapped(vendor) ==
  CASE vendor = "Intel" -> <<Cmd("modprobe", "amdgpu")>>
    [] vendor = "Amd"   -> <<Cmd("modprobe", "i915")>>
    [] OTHER -> <<>>

write_rebind_drivers(vendor) ==
  CASE vendor = "Nvidia" -> <<Cmd("modprobe", "nvidia"), Cmd("modprobe", "nvidia_modeset"),
                              Cmd("modprobe", "nvidia_uvm"), Cmd("modprobe", "nvidia_drm"),
                              OrTrue("start", "persistenced")>>
    [] vendor = "Amd"    -> <<Cmd("modprobe", "amdgpu")>>
    [] vendor = "Intel"  -> <<Cmd("modprobe", "i915")>>
    [] OTHER -> <<>>

\* Mutant: a display manager that does not stop is passed over.
release_script_tolerant(vendor) ==
  <<OrTrue("stop", "dm")>> \o write_unbind_drivers(vendor) \o <<Cmd("modprobe", "vfio-pci")>>
  \o [i \in DOMAIN Devices |-> Cmd("new_id", Devices[i])]

release_script(vendor) ==
  <<Cmd("stop", "dm")>> \o write_unbind_drivers(vendor) \o <<Cmd("modprobe", "vfio-pci")>>
  \o [i \in DOMAIN Devices |-> Cmd("new_id", Devices[i])]

\* Mutants: the display manager is not started again; the ids are removed last.
reattach_script_dark(vendor) ==
  [i \in DOMAIN Devices |-> OrTrue("remove_id", Devices[i])] \o write_rebind_drivers(vendor)
  \o <<OrTrue("stop", "dm")>>

reattach_script_ids_last(vendor) ==
  write_rebind_drivers(vendor) \o <<Cmd("start", "dm")>>
  \o [i \in DOMAIN Devices |-> OrTrue("remove_id", Devices[i])]

reattach_script(vendor) ==
  [i \in DOMAIN Devices |-> OrTrue("remove_id", Devices[i])] \o write_rebind_drivers(vendor)
  \o <<Cmd("start", "dm")>>

dispatcher(name, op, sub) ==
  CASE name = "vm" /\ <<op, sub>> = <<"prepare", "begin">> -> release_script(card.vendor)
    [] name = "vm" /\ <<op, sub>> = <<"release", "end">>   -> reattach_script(card.vendor)
    [] OTHER -> <<>>

-----------------------------------------------------------------------------
(* Kernel and service manager *)

Boot(c, at_boot) ==
  [up |-> {"dm"} \cup (IF c.vendor = "Nvidia" THEN {"persistenced"} ELSE {}),
   mods |-> Modules[c.vendor] \ (IF c.native = "amdgpu" THEN {"radeon"} ELSE {}),
   vfio |-> at_boot, table |-> IF at_boot THEN {"gpu", "audio"} ELSE {},
   bound |-> [d \in {"gpu", "audio"} |-> IF at_boot THEN "vfio-pci" ELSE "native"]]

\* Commands the kernel refuses whatever the circumstances: an id that is there
\* already, an id that is not there, a module that others use.
Refuses(c) ==
  \/ c.do = "new_id" /\ (c.arg \in sys.table \/ ~sys.vfio)
  \/ c.do = "remove_id" /\ c.arg \notin sys.table
  \/ c.do = "rmmod" /\ c.arg = "nvidia_modeset" /\ "nvidia_drm" \in sys.mods
  \/ /\ c.do = "rmmod" /\ c.arg = "nvidia"
     /\ sys.mods \cap {"nvidia_modeset", "nvidia_uvm"} # {} \/ "persistenced" \in sys.up

\* The device's binding after vfio-pci or the native driver takes or leaves it.
Rebound(d, from, to) == [sys.bound EXCEPT ![d] = IF @ = from THEN to ELSE @]

Effect(c) ==
  CASE c.do = "stop"      -> [sys EXCEPT !.up = @ \ {c.arg}]
    [] c.do = "start"     -> [sys EXCEPT !.up = @ \cup {c.arg}]
    [] c.do = "rmmod"     -> [sys EXCEPT !.mods = @ \ {c.arg},
                                         !.bound = IF c.arg = card.native THEN Rebound("gpu", "native", "none") ELSE @]
    [] c.do = "modprobe" /\ c.arg = "vfio-pci" -> [sys EXCEPT !.vfio = TRUE]
    [] c.do = "modprobe" /\ c.arg # "vfio-pci" ->
         [sys EXCEPT !.mods = @ \cup {c.arg},
                     !.bound = IF c.arg = card.native THEN Rebound("gpu", "none", "native") ELSE @]
    [] c.do = "new_id"    -> [sys EXCEPT !.table = @ \cup {c.arg}, !.bound = Rebound(c.arg, "none", "vfio-pci")]
    [] c.do = "remove_id" -> [sys EXCEPT !.table = @ \ {c.arg}]

\* The drivers that may take a device which is probed again.
Probed(d) ==
  LET takers == (IF d \in sys.table THEN {"vfio-pci"} ELSE {})
                \cup (IF d = "audio" \/ card.native \in sys.mods THEN {"native"} ELSE {})
  IN  IF takers = {} THEN {"none"} ELSE takers

-----------------------------------------------------------------------------
Init ==
  /\ card \in Cards
  /\ claimed \in Claimed
  /\ sys = Boot(card, claimed)
  /\ vm = "off" /\ mine = {}
  /\ script = [d \in Domain |-> <<>>]
  /\ last = "none" /\ told = FALSE
  /\ other = FALSE

\* The result of the VM's script when its last command has run.
Finished(d) ==
  IF d = "vm" /\ Len(script[d]) = 1 THEN (IF vm = "prepare" THEN "released" ELSE "returned") ELSE last

run_command(d) ==
  /\ script[d] # <<>>
  /\ ~Refuses(Head(script[d]))
  /\ sys' = Effect(Head(script[d]))
  /\ script' = [script EXCEPT ![d] = Tail(@)]
  /\ last' = Finished(d)
  /\ told' = (told /\ "dm" \notin sys'.up)
  /\ UNCHANGED <<card, claimed, vm, mine, other>>

\* A write to remove_id fails for no reason but the kernel's.
MayFail(d) ==
  /\ script[d] # <<>>
  /\ Refuses(Head(script[d])) \/ (Faults /\ Head(script[d]).do # "remove_id")

\* The command is followed by `|| true`.
ignore_failure(d) ==
  /\ MayFail(d) /\ Head(script[d]).tolerated
  /\ script' = [script EXCEPT ![d] = Tail(@)]
  /\ last' = Finished(d)
  /\ UNCHANGED <<card, claimed, sys, vm, mine, told, other>>

\* _virtu_recovery, then the script exits.
recovery_trap(d) ==
  /\ MayFail(d) /\ ~Head(script[d]).tolerated
  /\ script' = [script EXCEPT ![d] = <<>>]
  /\ told' = TRUE
  /\ last' = IF d = "vm" THEN "failed" ELSE last
  /\ UNCHANGED <<card, claimed, sys, vm, mine, other>>

-----------------------------------------------------------------------------
(* libvirt: the hooks of one domain run one after the other, in its own time *)

virsh_start ==
  /\ vm = "off" /\ script["vm"] = <<>>
  /\ vm' = "prepare"
  /\ script' = [script EXCEPT !["vm"] = dispatcher("vm", "prepare", "begin")]
  /\ UNCHANGED <<card, claimed, sys, mine, last, told, other>>

\* The devices that are not on vfio-pci yet are moved there.
attach_devices ==
  /\ vm = "prepare" /\ script["vm"] = <<>> /\ last = "released"
  /\ mine' = {d \in DOMAIN sys.bound : sys.bound[d] # "vfio-pci"}
  /\ sys' = [sys EXCEPT !.vfio = TRUE, !.bound = [d \in DOMAIN @ |-> "vfio-pci"]]
  /\ vm' = "running"
  /\ script' = [script EXCEPT !["vm"] = dispatcher("vm", "start", "begin") \o dispatcher("vm", "started", "begin")]
  /\ UNCHANGED <<card, claimed, last, told, other>>

\* A failing hook makes libvirt give up the start and clean up.
abort_start ==
  /\ vm = "prepare" /\ script["vm"] = <<>> /\ last = "failed"
  /\ vm' = "release"
  /\ script' = [script EXCEPT !["vm"] = dispatcher("vm", "stopped", "end") \o dispatcher("vm", "release", "end")]
  /\ UNCHANGED <<card, claimed, sys, mine, last, told, other>>

\* The guest shuts down, crashes or is destroyed; its managed devices are probed
\* again, if libvirt was the one that moved them.
guest_ends ==
  /\ vm = "running" /\ script["vm"] = <<>>
  /\ \E b \in [DOMAIN sys.bound -> Binding] :
       /\ \A d \in DOMAIN b : IF d \in mine THEN b[d] \in Probed(d) ELSE b[d] = sys.bound[d]
       /\ sys' = [sys EXCEPT !.bound = b]
  /\ mine' = {}
  /\ vm' = "release"
  /\ script' = [script EXCEPT !["vm"] = dispatcher("vm", "stopped", "end") \o dispatcher("vm", "release", "end")]
  /\ UNCHANGED <<card, claimed, last, told, other>>

domain_off ==
  /\ vm = "release" /\ script["vm"] = <<>>
  /\ vm' = "off"
  /\ UNCHANGED <<card, claimed, sys, mine, script, last, told, other>>

\* Another domain starts or stops, and the hook is called for it as well.
other_domain ==
  /\ script["other"] = <<>>
  /\ other' = ~other
  /\ script' = [script EXCEPT !["other"] =
       IF other THEN dispatcher("other", "stopped", "end") \o dispatcher("other", "release", "end")
       ELSE dispatcher("other", "prepare", "begin") \o dispatcher("other", "started", "begin")]
  /\ UNCHANGED <<card, claimed, sys, vm, mine, last, told>>

-----------------------------------------------------------------------------
(* The user follows the printed instructions, or reboots *)

start_by_hand ==
  /\ told /\ vm = "off"
  /\ sys' = [sys EXCEPT !.up = @ \cup {"dm"}]
  /\ told' = FALSE
  /\ UNCHANGED <<card, claimed, vm, mine, script, last, other>>

unload_vfio ==
  /\ told /\ vm = "off" /\ sys.vfio
  /\ sys' = [sys EXCEPT !.vfio = FALSE, !.table = {},
                        !.bound = [d \in DOMAIN @ |-> IF @[d] = "vfio-pci" THEN "none" ELSE @[d]]]
  /\ UNCHANGED <<card, claimed, vm, mine, script, last, told, other>>

reboot ==
  /\ sys' = Boot(card, claimed)
  /\ vm' = "off" /\ mine' = {}
  /\ script' = [d \in Domain |-> <<>>]
  /\ last' = "none" /\ told' = FALSE /\ other' = FALSE
  /\ UNCHANGED <<card, claimed>>

Step(d) == run_command(d) \/ ignore_failure(d) \/ recovery_trap(d)

Next ==
  \/ \E d \in Domain : Step(d)
  \/ virsh_start \/ attach_devices \/ abort_start \/ guest_ends \/ domain_off
  \/ other_domain
  \/ start_by_hand \/ unload_vfio
  \/ reboot

Spec == Init /\ [][Next]_vars

\* A script that runs goes on, and libvirt goes on when it has ended; nobody has
\* to start or stop a guest, reboot, or follow the instructions.
Fairness == WF_vars(Step("vm")) /\ WF_vars(attach_devices) /\ WF_vars(abort_start) /\ WF_vars(domain_off)

FairSpec == Spec /\ Fairness
-----------------------------------------------------------------------------
(* Properties *)

\* Types; a running guest has all its devices.
TypeOK ==
  /\ card \in Cards /\ claimed \in Claimed
  /\ sys.up \subseteq {"dm", "persistenced"} /\ sys.vfio \in BOOLEAN
  /\ sys.mods \subseteq Modules[card.vendor] /\ sys.table \subseteq {"gpu", "audio"}
  /\ sys.bound \in [{"gpu", "audio"} -> Binding]
  /\ vm \in {"off", "prepare", "running", "release"}
  /\ mine \subseteq {"gpu", "audio"}
  /\ DOMAIN script = Domain
  /\ last \in {"none", "released", "returned", "failed"}
  /\ told \in BOOLEAN /\ other \in BOOLEAN
  /\ vm = "running" => last = "released" /\ \A d \in DOMAIN sys.bound : sys.bound[d] = "vfio-pci"

\* While the guest has the GPU no display manager runs, whatever other domains
\* do and whichever commands failed on the way (hooks.rs lines 8 and 110-113).
DisplayReleased == vm = "running" => "dm" \notin sys.up

\* Once a release/end hook has run since the boot, completely or not, vfio-pci
\* has none of the ids left, so that new_id cannot refuse the next start.
NextStartUnblocked ==
  vm = "off" /\ last # "none" => sys.table = {}

\* A display manager that has been stopped comes back, unless a guest is running
\* or the user has been told what to do: "Failure of the end script tells the user
\* exactly what to do" (hooks.rs lines 22-23).
DisplayReturns ==
  ("dm" \notin sys.up) ~> ("dm" \in sys.up \/ told \/ vm = "running")

\* After the guest has shut down and reattach has run to its end, "the GPU returns
\* to its native driver and the display manager restarts" (HARDWARE_MATRIX.md
\* lines 140-141).
NativeReturns ==
  vm = "off" /\ last = "returned" => sys.bound["gpu"] = "native" /\ "dm" \in sys.up
=============================================================================
