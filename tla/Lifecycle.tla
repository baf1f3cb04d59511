------------------------------ MODULE Lifecycle ------------------------------
(***************************************************************************)
(* The life of a host under Virtu: `virtu apply --phase a --confirm`, the  *)
(* reboot, `virtu resume`, `virtu rollback --to <id>`, the commands these  *)
(* run on the host and the ones rollback asks the user to run              *)
(* (src/src/main.rs, src/src/engine/executor.rs, src/src/engine/resume.rs, *)
(* src/src/snapshot/mod.rs).                                               *)
(*                                                                         *)
(* Snapshot models the file engine under concurrency; here the CLI is used *)
(* one command at a time, a write with its check is one step, and what     *)
(* counts is what lies outside the manifest: the generated boot artifacts, *)
(* the running kernel, the libvirt domain, the disk image, the mode of the *)
(* hook scripts and the post-restore actions.  A command may be killed or  *)
(* fail between any two steps, and may then be tried again.                *)
(***************************************************************************)
EXTENDS Naturals, Sequences

CONSTANTS
  Cycle,       \* snapshot ids, one per apply
  NoCycle,     \* no such snapshot
  NoManifest,  \* no manifest.toml in the snapshot directory
  HasHook,     \* the plan has a HookInstall step (single-GPU passthrough)
  CreateDisk,  \* DiskChoice::Create rather than DiskChoice::Existing
  Existing,    \* Phase B files that are there before Virtu ever runs
  MayRollback, \* whether the user ever rolls back
  Undefines    \* whether the user undefines a leftover domain by hand

\* bootloader config, modprobe snippet, initramfs config; the three hook
\* scripts, the domain XML; the guest's disk image
BootFiles == {"boot", "vfio", "initrd"}
Touched   == BootFiles \cup {"xml"} \cup (IF HasHook THEN {"hook"} ELSE {})
                       \cup (IF CreateDisk THEN {"disk"} ELSE {})
File      == BootFiles \cup {"xml", "hook", "disk"}
Content   == {"none", "orig", "virtu", "guest"}
Action    == {"regen", "reload", "rebuild", "reboot", "rmhooks", "undefine"}
Manifest  == [pre : [File -> Content \cup {"unseen"}], actions : SUBSET Action]

\* Mutant: only one of the two regenerate commands is run.
PhaseA_one_command ==
  [snapshot |-> "boot", boot |-> "vfio", vfio |-> "initrd", initrd |-> "mkconfig",
   mkconfig |-> "persist", rebuild |-> "persist", persist |-> "pend"]

\* The steps of the two phases, each with the one that follows it: the loops of
\* the executor walk the plan in order.
PhaseA == [snapshot |-> "boot", boot |-> "vfio", vfio |-> "initrd", initrd |-> "mkconfig",
           mkconfig |-> "rebuild", rebuild |-> "persist", persist |-> "pend"]

\* Mutant: the scripts are not made executable.
PhaseB_no_chmod ==
  [hook |-> "hook_manifest", hook_manifest |-> "hook_action", hook_action |-> "xml",
   xml |-> "xml_manifest", xml_manifest |-> "register",
   register |-> IF CreateDisk THEN "create" ELSE "define",
   create |-> "define", define |-> "undo_action", undo_action |-> "clear"]

PhaseB == [hook |-> "chmod", chmod |-> "hook_manifest", hook_manifest |-> "hook_action",
           hook_action |-> "xml", xml |-> "xml_manifest", xml_manifest |-> "register",
           register |-> IF CreateDisk THEN "create" ELSE "define",
           create |-> "define", define |-> "undo_action", undo_action |-> "clear"]

StepsA   == DOMAIN PhaseA \cup {"pend"}
StepsB   == DOMAIN PhaseB \cup {"clear"}
FirstB   == IF HasHook THEN "hook" ELSE "xml"
After(l) == IF l \in DOMAIN PhaseA THEN PhaseA[l] ELSE PhaseB[l]
Persists == {"persist", "hook_manifest", "xml_manifest"}
Entries  == <<"boot", "vfio", "initrd", "hook", "xml", "disk">>  \* manifest order

ASSUME LifecycleAssumption ==
  /\ NoCycle \notin Cycle
  /\ NoManifest \notin Manifest
  /\ HasHook \in BOOLEAN /\ CreateDisk \in BOOLEAN /\ MayRollback \in BOOLEAN
  /\ Undefines \in BOOLEAN
  /\ Existing \subseteq {"xml", "hook"}

VARIABLES
  live,     \* the host's files
  exec,     \* the hook scripts are executable
  grubcfg,  \* which kernel parameters the generated boot menu carries
  image,    \* which modules the initramfs image carries
  kernel,   \* what the running kernel was booted with
  domain,   \* the cycle whose XML libvirt has as the domain, or NoCycle
  snap,     \* snap[c]: manifest.toml of snapshot c, or NoManifest
  pending,  \* the snapshot id in pending.toml, or NoCycle
  used,     \* snapshot ids handed out
  proc,     \* the running command: location, snapshot id, manifest in memory,
            \* whether this attempt made the disk image, entries left to restore
  todo,     \* post-restore actions of the last rollback not yet carried out
  undone,   \* the snapshot of the last rollback, until a new command starts
  torn,     \* history: cycles interrupted between virsh define and its record
  failed    \* the last command ended with a virsh define that failed

artifacts == <<grubcfg, image, kernel>>
history   == <<todo, undone, torn, failed>>
vars      == <<live, exec, artifacts, domain, snap, pending, used, proc, history>>

NoMem == [pre |-> [f \in File |-> "unseen"], actions |-> {}]
Idle  == [pc |-> "idle", id |-> NoCycle, mem |-> NoMem, made |-> FALSE, left |-> {}]

\* What grub-mkconfig and the initramfs tool make of the config files.
Cmdline(files)   == IF files["boot"] = "virtu" THEN "virtu" ELSE "orig"
Initramfs(files) == IF files["initrd"] = "virtu" /\ files["vfio"] = "virtu" THEN "virtu" ELSE "orig"

TypeOK ==
  /\ live \in [File -> Content]
  /\ exec \in BOOLEAN
  /\ grubcfg \in {"orig", "virtu"} /\ image \in {"orig", "virtu"}
  /\ kernel \in [cmdline : {"orig", "virtu"}, image : {"orig", "virtu"}]
  /\ domain \in Cycle \cup {NoCycle}
  /\ snap \in [Cycle -> Manifest \cup {NoManifest}]
  /\ pending \in Cycle \cup {NoCycle}
  /\ used \in SUBSET Cycle
  /\ proc \in [pc : {"idle", "restore"} \cup StepsA \cup StepsB,
               id : Cycle \cup {NoCycle}, mem : Manifest, made : BOOLEAN, left : SUBSET File]
  /\ todo \in SUBSET Action
  /\ undone \in Cycle \cup {NoCycle}
  /\ torn \in SUBSET Cycle
  /\ failed \in BOOLEAN

Init ==
  /\ live = [f \in File |-> CASE f \in {"boot", "initrd"} \cup Existing -> "orig"
                              [] f = "disk" /\ ~CreateDisk -> "guest"
                              [] OTHER -> "none"]
  /\ exec = ("hook" \in Existing)
  /\ grubcfg = "orig" /\ image = "orig"
  /\ kernel = [cmdline |-> "orig", image |-> "orig"]
  /\ domain = NoCycle
  /\ snap = [c \in Cycle |-> NoManifest]
  /\ pending = NoCycle
  /\ used = {}
  /\ proc = Idle
  /\ todo = {} /\ undone = NoCycle /\ torn = {} /\ failed = FALSE

\* A new command takes over the terminal.
Fresh == todo' = {} /\ undone' = NoCycle /\ failed' = FALSE /\ UNCHANGED torn

\* The running command moves on to the next step of its phase.
Advance == proc' = [proc EXCEPT !.pc = After(proc.pc)]

-----------------------------------------------------------------------------
(* virtu apply --phase a --confirm *)

\* Refused while pending.toml exists; the plan is refused when the disk to be
\* created is already there, or the existing one is missing (check_resources).
\* The VM has the same name in every cycle: default_vm_name avoids a name only
\* if detection saw it, and a failing `virsh list` shows it none.
run_apply(c) ==
  /\ proc.pc = "idle"
  /\ pending = NoCycle
  /\ c \notin used
  /\ CreateDisk <=> live["disk"] = "none"
  /\ proc' = [Idle EXCEPT !.pc = "snapshot", !.id = c]
  /\ used' = used \cup {c}
  /\ Fresh
  /\ UNCHANGED <<live, exec, artifacts, domain, snap, pending>>

\* Mutant: the initramfs rebuild is forgotten.
derive_restore_actions_no_rebuild == {"regen", "reload", "reboot"}

\* The post-restore actions of a plan with all three Phase A writers.
derive_restore_actions == {"regen", "reload", "rebuild", "reboot"}

\* Capture, with the post-restore actions derived from the plan.
execute_snapshot_step ==
  LET m == [pre     |-> [f \in File |-> IF f \in Touched THEN live[f] ELSE "unseen"],
            actions |-> derive_restore_actions]
  IN
  /\ proc.pc = "snapshot"
  /\ snap' = [snap EXCEPT ![proc.id] = m]
  /\ proc' = [proc EXCEPT !.pc = After("snapshot"), !.mem = m]
  /\ UNCHANGED <<live, exec, artifacts, domain, pending, used, history>>

\* Mutant: a file that did not exist at capture must still be missing.
MayWrite_strict(f) == live[f] = proc.mem.pre[f]

\* snapshot_then_write of file f, seen from outside: refused unless the entry
\* says the file did not exist or the file still has the captured bytes.
MayWrite(f) == proc.mem.pre[f] = "none" \/ live[f] = proc.mem.pre[f]

write_boot_file(f) ==
  /\ proc.pc = f
  /\ MayWrite(f)
  /\ live' = [live EXCEPT ![f] = "virtu"]
  /\ Advance
  /\ UNCHANGED <<exec, artifacts, domain, snap, pending, used, history>>

\* run_regenerate_commands, when the command succeeds; a failing one returns
\* the error (stop), with the files written and no pending.toml.
run_grub_mkconfig ==
  /\ proc.pc = "mkconfig"
  /\ grubcfg' = Cmdline(live)
  /\ Advance
  /\ UNCHANGED <<live, exec, image, kernel, domain, snap, pending, used, history>>

rebuild_initramfs ==
  /\ proc.pc = "rebuild"
  /\ image' = Initramfs(live)
  /\ Advance
  /\ UNCHANGED <<live, exec, grubcfg, kernel, domain, snap, pending, used, history>>

\* persist_manifest and, in Phase B, write_manifest after a step.
write_manifest(l) ==
  /\ proc.pc = l
  /\ snap' = [snap EXCEPT ![proc.id] = proc.mem]
  /\ Advance
  /\ UNCHANGED <<live, exec, artifacts, domain, pending, used, history>>

write_pending ==
  /\ proc.pc = "pend"
  /\ pending' = proc.id
  /\ proc' = Idle
  /\ UNCHANGED <<live, exec, artifacts, domain, snap, used, history>>

-----------------------------------------------------------------------------
(* virtu resume *)

\* verify_phase_a_landed on the running kernel: the command line, and through
\* the image vfio_pci loaded and bound to the passthrough GPU.
Ready == kernel.cmdline = "virtu" /\ kernel.image = "virtu"

\* A resume that finds NotReady prints why and changes nothing.
run_resume ==
  /\ proc.pc = "idle"
  /\ pending # NoCycle
  /\ Ready
  /\ snap[pending] # NoManifest
  /\ proc' = [Idle EXCEPT !.pc = FirstB, !.id = pending, !.mem = snap[pending]]
  /\ Fresh
  /\ UNCHANGED <<live, exec, artifacts, domain, snap, pending, used>>

\* The three scripts, validated with bash -n, go through snapshot_then_write;
\* write_atomic replaces a file by a fresh temporary one, mode 0600.
write_hooks ==
  /\ proc.pc = "hook"
  /\ MayWrite("hook")
  /\ live' = [live EXCEPT !["hook"] = "virtu"]
  /\ exec' = FALSE
  /\ Advance
  /\ UNCHANGED <<artifacts, domain, snap, pending, used, history>>

set_executable ==
  /\ proc.pc = "chmod"
  /\ exec' = TRUE
  /\ Advance
  /\ UNCHANGED <<live, artifacts, domain, snap, pending, used, history>>

\* RemoveHookScripts is recorded and the manifest persisted a second time.
push_remove_hooks ==
  LET m == [proc.mem EXCEPT !.actions = @ \cup {"rmhooks"}] IN
  /\ proc.pc = "hook_action"
  /\ snap' = [snap EXCEPT ![proc.id] = m]
  /\ proc' = [proc EXCEPT !.pc = After("hook_action"), !.mem = m]
  /\ UNCHANGED <<live, exec, artifacts, domain, pending, used, history>>

run_vm_xml_step ==
  /\ proc.pc = "xml"
  /\ MayWrite("xml")
  /\ live' = [live EXCEPT !["xml"] = "virtu"]
  /\ Advance
  /\ UNCHANGED <<exec, artifacts, domain, snap, pending, used, history>>

\* run_vm_register_step up to the first host command: an existing disk must be
\* there; for a disk to be created declare_created_entry finds the entry that
\* capture made, and the manifest is persisted once more.
declare_disk ==
  /\ proc.pc = "register"
  /\ ~CreateDisk => live["disk"] # "none"
  /\ snap' = IF CreateDisk THEN [snap EXCEPT ![proc.id] = proc.mem] ELSE snap
  /\ Advance
  /\ UNCHANGED <<live, exec, artifacts, domain, pending, used, history>>

\* qemu-img create writes a blank image over whatever is at the path.
run_qemu_img_create ==
  /\ proc.pc = "create"
  /\ live' = [live EXCEPT !["disk"] = "virtu"]
  /\ proc' = [proc EXCEPT !.pc = After("create"), !.made = TRUE]
  /\ UNCHANGED <<exec, artifacts, domain, snap, pending, used, history>>

\* A failing qemu-img may or may not leave a file; nothing is cleaned up.
qemu_img_fails ==
  /\ proc.pc = "create"
  /\ live' \in {live, [live EXCEPT !["disk"] = "virtu"]}
  /\ proc' = Idle
  /\ UNCHANGED <<exec, artifacts, domain, snap, pending, used, history>>

\* Every rendering of the XML has a new random UUID, and libvirt refuses a new
\* UUID for a name it already has.
run_virsh_define ==
  /\ proc.pc = "define"
  /\ domain = NoCycle
  /\ domain' = proc.id
  /\ Advance
  /\ UNCHANGED <<live, exec, artifacts, snap, pending, used, history>>

\* Mutant: the compensating action does not ask whose image it is.
virsh_define_fails_any ==
  /\ proc.pc = "define"
  /\ live' = [live EXCEPT !["disk"] = "none"]
  /\ proc' = Idle
  /\ failed' = TRUE
  /\ UNCHANGED <<exec, artifacts, domain, snap, pending, used, todo, undone, torn>>

\* The compensating action: an image this attempt made is removed.
virsh_define_fails ==
  /\ proc.pc = "define"
  /\ live' = IF proc.made THEN [live EXCEPT !["disk"] = "none"] ELSE live
  /\ proc' = Idle
  /\ failed' = TRUE
  /\ UNCHANGED <<exec, artifacts, domain, snap, pending, used, todo, undone, torn>>

\* Mutant: the action is not persisted.
push_undefine_unsaved ==
  /\ proc.pc = "undo_action"
  /\ proc' = [proc EXCEPT !.pc = After("undo_action"), !.mem.actions = @ \cup {"undefine"}]
  /\ UNCHANGED <<live, exec, artifacts, domain, snap, pending, used, history>>

\* Mutant: the action is persisted in a manifest made anew.
push_undefine_fresh ==
  LET m == [NoMem EXCEPT !.actions = proc.mem.actions \cup {"undefine"}] IN
  /\ proc.pc = "undo_action"
  /\ snap' = [snap EXCEPT ![proc.id] = m]
  /\ proc' = [proc EXCEPT !.pc = After("undo_action"), !.mem = m]
  /\ UNCHANGED <<live, exec, artifacts, domain, pending, used, history>>

\* UndefineLibvirtDomain is recorded once virsh define has succeeded.
push_undefine ==
  LET m == [proc.mem EXCEPT !.actions = @ \cup {"undefine"}] IN
  /\ proc.pc = "undo_action"
  /\ snap' = [snap EXCEPT ![proc.id] = m]
  /\ proc' = [proc EXCEPT !.pc = After("undo_action"), !.mem = m]
  /\ UNCHANGED <<live, exec, artifacts, domain, pending, used, history>>

\* Verify only reads; then pending.toml is removed.
clear_pending ==
  /\ proc.pc = "clear"
  /\ pending' = NoCycle
  /\ proc' = Idle
  /\ UNCHANGED <<live, exec, artifacts, domain, snap, used, history>>

\* The command is killed, or a step returns an error; nothing is undone.
stop ==
  /\ proc.pc # "idle"
  /\ proc' = Idle
  /\ torn' = IF proc.pc = "undo_action" THEN torn \cup {proc.id} ELSE torn
  /\ UNCHANGED <<live, exec, artifacts, domain, snap, pending, used, todo, undone, failed>>

-----------------------------------------------------------------------------
(* virtu rollback --to <id> *)

\* Mutant: an id whose manifest was never written is accepted.
rollback_to_unchecked(c) ==
  /\ MayRollback
  /\ proc.pc = "idle"
  /\ proc' = [Idle EXCEPT !.pc = "restore", !.id = c, !.mem = snap[c], !.left = Touched]
  /\ Fresh
  /\ UNCHANGED <<live, exec, artifacts, domain, snap, pending, used>>

rollback_to(c) ==
  /\ MayRollback
  /\ proc.pc = "idle"
  /\ snap[c] # NoManifest
  /\ proc' = [Idle EXCEPT !.pc = "restore", !.id = c, !.mem = snap[c],
                          !.left = {f \in File : snap[c].pre[f] # "unseen"}]
  /\ Fresh
  /\ UNCHANGED <<live, exec, artifacts, domain, snap, pending, used>>

\* Entries are restored one by one, in the order of the manifest; a file that
\* already matches is left alone, any other is removed or written anew, without
\* its mode.
restore_entry(f) ==
  /\ proc.pc = "restore"
  /\ \E i \in 1..Len(Entries) :
       f = Entries[i] /\ f \in proc.left /\ \A j \in 1..(i - 1) : Entries[j] \notin proc.left
  /\ live' = [live EXCEPT ![f] = proc.mem.pre[f]]
  /\ exec' = (exec /\ (f = "hook" => live[f] = proc.mem.pre[f] /\ live[f] # "none"))
  /\ proc' = [proc EXCEPT !.left = @ \ {f}]
  /\ UNCHANGED <<artifacts, domain, snap, pending, used, history>>

\* The summary lists the post-restore actions; pending.toml is not touched.
restore_done ==
  /\ proc.pc = "restore"
  /\ proc.left = {}
  /\ todo' = proc.mem.actions
  /\ undone' = proc.id
  /\ proc' = Idle
  /\ UNCHANGED <<live, exec, artifacts, domain, snap, pending, used, torn, failed>>

-----------------------------------------------------------------------------
(* The host and its user *)

\* The user carries out a printed action; the reboot comes after what precedes
\* it in the list.  What a module reload leaves bound to vfio_pci depends on the
\* drivers that hold the device.
run_restore_action(a) ==
  /\ proc.pc = "idle"
  /\ a \in todo
  /\ a = "reboot" => todo \cap {"regen", "reload", "rebuild"} = {}
  /\ todo' = todo \ {a}
  /\ grubcfg' = IF a = "regen" THEN Cmdline(live) ELSE grubcfg
  /\ image' = IF a = "rebuild" THEN Initramfs(live) ELSE image
  /\ \E i \in {"orig", "virtu"} :
       kernel' = CASE a = "reboot" -> [cmdline |-> grubcfg, image |-> image]
                   [] a = "reload" -> [kernel EXCEPT !.image = i]
                   [] OTHER        -> kernel
  /\ live' = IF a = "rmhooks" THEN [live EXCEPT !["hook"] = "none"] ELSE live
  /\ exec' = (exec /\ a # "rmhooks")
  /\ domain' = IF a = "undefine" THEN NoCycle ELSE domain
  /\ UNCHANGED <<snap, pending, used, proc, undone, torn, failed>>

\* A reboot, also one that kills a running command.
reboot ==
  /\ kernel' = [cmdline |-> grubcfg, image |-> image]
  /\ proc' = Idle
  /\ torn' = IF proc.pc = "undo_action" THEN torn \cup {proc.id} ELSE torn
  /\ UNCHANGED <<live, exec, grubcfg, image, domain, snap, pending, used, todo, undone, failed>>

\* A kernel package regenerates boot menu and image from what is configured.
system_upgrade ==
  /\ grubcfg' = Cmdline(live)
  /\ image' = Initramfs(live)
  /\ UNCHANGED <<live, exec, kernel, domain, snap, pending, used, proc, history>>

\* The user starts the registered VM and installs a guest on its blank disk.
install_guest ==
  /\ proc.pc = "idle"
  /\ domain # NoCycle
  /\ live["disk"] = "virtu"
  /\ live' = [live EXCEPT !["disk"] = "guest"]
  /\ UNCHANGED <<exec, artifacts, domain, snap, pending, used, proc, history>>

\* What the knowledge base advises for "domain already exists": if it is a
\* leftover from a previous run, undefine it.
undefine_leftover ==
  /\ Undefines
  /\ proc.pc = "idle"
  /\ failed
  /\ domain # NoCycle
  /\ domain' = NoCycle
  /\ UNCHANGED <<live, exec, artifacts, snap, pending, used, proc, history>>

-----------------------------------------------------------------------------
Apply ==
  \/ \E c \in Cycle : run_apply(c)
  \/ execute_snapshot_step
  \/ \E f \in BootFiles : write_boot_file(f)
  \/ run_grub_mkconfig \/ rebuild_initramfs
  \/ write_pending

Resume ==
  \/ run_resume
  \/ write_hooks \/ set_executable \/ push_remove_hooks
  \/ run_vm_xml_step
  \/ declare_disk
  \/ run_qemu_img_create \/ qemu_img_fails
  \/ run_virsh_define \/ virsh_define_fails
  \/ push_undefine
  \/ clear_pending

RollbackNext ==
  \/ \E c \in Cycle : rollback_to(c)
  \/ \E f \in File : restore_entry(f)
  \/ restore_done

Next ==
  \/ Apply \/ Resume \/ RollbackNext
  \/ \E l \in Persists : write_manifest(l)
  \/ stop
  \/ \E a \in Action : run_restore_action(a)
  \/ reboot \/ system_upgrade \/ install_guest \/ undefine_leftover

Spec == Init /\ [][Next]_vars

\* The user reboots after an apply and keeps calling `virtu resume`, and no step
\* of it fails for ever: what fails in some attempts succeeds in others.  Where
\* libvirt refuses the name, some attempt lives to report it, and a user who
\* undefines leftovers does so.
Persistence ==
  /\ WF_vars(reboot)
  /\ SF_vars(run_resume)
  /\ SF_vars(write_hooks) /\ SF_vars(set_executable) /\ SF_vars(push_remove_hooks)
  /\ SF_vars(run_vm_xml_step)
  /\ \A l \in Persists : SF_vars(write_manifest(l))
  /\ SF_vars(declare_disk) /\ SF_vars(run_qemu_img_create)
  /\ SF_vars(run_virsh_define) /\ SF_vars(push_undefine) /\ SF_vars(clear_pending)
  /\ SF_vars(domain # NoCycle /\ virsh_define_fails) /\ SF_vars(undefine_leftover)

FairSpec == Spec /\ Persistence
-----------------------------------------------------------------------------
(* Properties *)

\* pending.toml is written only when the next boot will carry Phase A: boot menu
\* and initramfs have both been made from Virtu's files, so the resume after a
\* reboot finds Phase A landed.  When a command fails half-way through the writes
\* and regenerate commands, after whatever earlier cycles and rollbacks left, there
\* is no record (execute_phase_a, executor.rs lines 172-195).
PendingMeansStaged ==
  [][pending' # NoCycle /\ pending' # pending => grubcfg = "virtu" /\ image = "virtu"]_vars

\* A disk image Virtu made is in some manifest on disk, so that a rollback
\* removes it, also when the command died right after qemu-img or a later step
\* persisted the manifest again: "Declare the disk image in the manifest before
\* mutating" (executor.rs lines 952-953).
DiskTracked ==
  CreateDisk /\ live["disk"] # "none" =>
    \E c \in Cycle : snap[c] # NoManifest /\ snap[c].pre["disk"] = "none"

\* An existing disk image the user chose is never removed or overwritten, by
\* whatever sequence of applies, failed and retried resumes and rollbacks: only
\* an image that the attempt made itself is (executor.rs lines 987-998).
GuestDiskKept == ~CreateDisk => live["disk"] = "guest"

\* A domain libvirt knows can be undone from its manifest, except while the
\* record is being written and after an interruption at exactly that point,
\* the one step of Phase B that is done before it is recorded.
DomainUndoable ==
  domain # NoCycle =>
    \/ "undefine" \in snap[domain].actions
    \/ proc.pc = "undo_action" /\ proc.id = domain
    \/ domain \in torn

\* Phase B reports completion, by removing pending.toml, only on a host where
\* everything it promises is in place, whatever earlier attempts left behind:
\* the domain is defined from this XML, its disk exists, and the hook scripts
\* are there and executable.
CompleteMeansInstalled ==
  [][pending # NoCycle /\ pending' = NoCycle =>
       /\ domain = pending
       /\ live["xml"] = "virtu" /\ live["disk"] # "none"
       /\ HasHook => live["hook"] = "virtu" /\ exec]_vars

\* After a rollback and the actions it lists, nothing of the cycle is left: the
\* files are as captured, the host has booted what they configure, and the
\* domain is gone unless its record was torn (see DomainUndoable).  Planner:
\* "restore the previous /etc/libvirt/hooks layout from the snapshot manifest".
HostRestored ==
  undone # NoCycle /\ todo = {} /\ proc.pc = "idle" =>
    /\ \A f \in File : snap[undone].pre[f] # "unseen" => live[f] = snap[undone].pre[f]
    /\ kernel = [cmdline |-> Cmdline(snap[undone].pre), image |-> Initramfs(snap[undone].pre)]
    /\ domain = undone => undone \in torn

\* An apply whose Phase A was recorded is brought to its end by rebooting and
\* resuming, however often attempts are cut short: "re-running this step is safe"
\* (executor.rs lines 1117-1119), a domain left defined is cleaned up "before
\* re-trying" (commands.rs lines 341-343), and pending.toml is removed at last.
ResumeFinishes == pending # NoCycle ~> pending = NoCycle

\* "Refuses to overwrite an existing path" (commands.rs line 273).
NeverOverwritesDisk == [][run_qemu_img_create => live["disk"] = "none"]_vars
=============================================================================
