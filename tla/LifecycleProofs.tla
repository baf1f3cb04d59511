--------------------------- MODULE LifecycleProofs ---------------------------
(***************************************************************************)
(* Proofs of the safety properties of Lifecycle, for any number of cycles, *)
(* with or without hooks, with a new or an existing disk, and whatever was *)
(* on the host before.  A running command and its manifest on disk agree   *)
(* (Running, Manifests); what the two phases have passed is in place       *)
(* (Staging, Progress); between a rollback and the next command only the   *)
(* listed actions change the host (Undoing).                               *)
(***************************************************************************)
EXTENDS Lifecycle, TLAPS

HookSteps == {"hook", "chmod", "hook_manifest", "hook_action"}

\* The steps of Phase B behind which the XML, the disk and the domain are there.
AfterXml    == {"xml_manifest", "register", "create", "define", "undo_action", "clear"}
AfterDisk   == {"define", "undo_action", "clear"}
AfterDefine == {"undo_action", "clear"}

\* The running command: its manifest is the one on disk, and pending.toml names
\* it in Phase B and nobody in Phase A.
Running ==
  /\ proc.pc = "idle" => proc = Idle
  /\ proc.pc # "idle" => proc.id \in Cycle
  /\ proc.pc = "snapshot" => /\ snap[proc.id] = NoManifest /\ proc.id \in used
                             /\ CreateDisk => live["disk"] = "none"
  /\ proc.pc \notin {"idle", "snapshot"} => snap[proc.id] # NoManifest /\ proc.mem = snap[proc.id]
  /\ proc.pc \in StepsA => pending = NoCycle
  /\ proc.pc \in StepsB => pending = proc.id
  /\ proc.pc \in HookSteps => HasHook
  /\ proc.pc = "create" \/ proc.made => CreateDisk
  /\ proc.pc # "restore" => proc.left = {}
  /\ \A f \in proc.left : proc.mem.pre[f] # "unseen"

\* What every manifest says: an entry for each touched file, none for a disk that
\* is to be created, and the actions that undo Phase A.
WellFormed(m) ==
  /\ \A f \in File : m.pre[f] # "unseen" <=> f \in Touched
  /\ CreateDisk => m.pre["disk"] = "none"
  /\ derive_restore_actions \subseteq m.actions
  /\ "rmhooks" \in m.actions => HasHook

Manifests == \A c \in Cycle : snap[c] # NoManifest => c \in used /\ WellFormed(snap[c])

DomainKnown == domain # NoCycle => snap[domain] # NoManifest

\* What the steps of Phase B behind the command have put in place.
Progress ==
  /\ HasHook /\ proc.pc \in StepsB \ {"hook"} => live["hook"] = "virtu"
  /\ HasHook /\ proc.pc \in StepsB \ {"hook", "chmod"} => exec
  /\ proc.pc \in AfterXml => live["xml"] = "virtu"
  /\ CreateDisk /\ proc.pc \in AfterDisk => live["disk"] # "none"
  /\ proc.pc \in AfterDefine => domain = proc.id

\* What the steps of Phase A behind the command have put in place.
Staging ==
  /\ proc.pc \in {"vfio", "initrd", "mkconfig", "rebuild", "persist", "pend"} => live["boot"] = "virtu"
  /\ proc.pc \in {"initrd", "mkconfig", "rebuild", "persist", "pend"} => live["vfio"] = "virtu"
  /\ proc.pc \in {"mkconfig", "rebuild", "persist", "pend"} => live["initrd"] = "virtu"
  /\ proc.pc \in {"rebuild", "persist", "pend"} => grubcfg = "virtu"
  /\ proc.pc \in {"persist", "pend"} => image = "virtu"

\* Entries that a rollback has passed are restored.
Restoring ==
  proc.pc = "restore" =>
    \A f \in File : proc.mem.pre[f] # "unseen" /\ f \notin proc.left => live[f] = proc.mem.pre[f]

\* Between a rollback and the next command: what the listed actions that are no
\* longer on the list have brought about.
Undoing ==
  undone # NoCycle =>
    /\ proc.pc = "idle" /\ snap[undone] # NoManifest
    /\ todo \subseteq snap[undone].actions
    /\ "regen" \notin todo => grubcfg = Cmdline(live)
    /\ "rebuild" \notin todo => image = Initramfs(live)
    /\ "reboot" \notin todo => /\ todo \cap {"regen", "reload", "rebuild"} = {}
                               /\ kernel = [cmdline |-> grubcfg, image |-> image]
    /\ domain = undone => undone \in torn \/ "undefine" \in todo

\* The scripts are Virtu's own: there were none before, and a finished setup
\* leaves a disk that refuses the next apply.
HooksOwn == HasHook => CreateDisk /\ "hook" \notin Existing

\* Then no manifest ever captures a script, and after a rollback the files are as
\* captured, also when the listed action has removed the scripts.
HooksUndone ==
  HooksOwn =>
    /\ \A c \in Cycle : snap[c] # NoManifest /\ HasHook => snap[c].pre["hook"] = "none"
    /\ HasHook /\ pending = NoCycle /\ live["disk"] = "none" => live["hook"] = "none"
    /\ undone # NoCycle =>
         \A f \in File : snap[undone].pre[f] # "unseen" => live[f] = snap[undone].pre[f]

\* The inductive invariant.
IInv ==
  /\ Running
  /\ Manifests
  /\ DomainKnown
  /\ Progress
  /\ Restoring
  /\ Undoing
  /\ HooksUndone
  /\ Staging
  /\ DiskTracked
  /\ GuestDiskKept
  /\ DomainUndoable

-----------------------------------------------------------------------------
(* The steps of the plan *)

\* The successor of each step of Phase A.
LEMMA AfterA ==
  /\ After("snapshot") = "boot" /\ After("boot") = "vfio" /\ After("vfio") = "initrd"
  /\ After("initrd") = "mkconfig" /\ After("mkconfig") = "rebuild" /\ After("rebuild") = "persist"
  /\ After("persist") = "pend"
BY DEF After, PhaseA

\* The successor of each step of Phase B.
LEMMA AfterB ==
  /\ After("hook") = "chmod" /\ After("chmod") = "hook_manifest"
  /\ After("hook_manifest") = "hook_action" /\ After("hook_action") = "xml"
  /\ After("xml") = "xml_manifest" /\ After("xml_manifest") = "register"
  /\ After("register") = IF CreateDisk THEN "create" ELSE "define"
  /\ After("create") = "define" /\ After("define") = "undo_action"
  /\ After("undo_action") = "clear"
BY DEF After, PhaseA, PhaseB

\* The steps of the two phases.
LEMMA StepSets ==
  /\ StepsA = {"snapshot", "boot", "vfio", "initrd", "mkconfig", "rebuild", "persist", "pend"}
  /\ StepsB = {"hook", "chmod", "hook_manifest", "hook_action", "xml", "xml_manifest", "register",
               "create", "define", "undo_action", "clear"}
BY DEF StepsA, StepsB, PhaseA, PhaseB

-----------------------------------------------------------------------------
(* Types *)

Location == {"idle", "restore"} \cup StepsA \cup StepsB
Process  == [pc : Location, id : Cycle \cup {NoCycle}, mem : Manifest, made : BOOLEAN, left : SUBSET File]

\* A command that has ended, and any command with another location.
LEMMA ProcessType ==
  /\ Idle \in Process
  /\ \A q \in Process, l \in Location : [q EXCEPT !.pc = l] \in Process
BY DEF Idle, NoMem, Manifest, Process, Location

\* A host on which Virtu has not run.
LEMMA InitType == ASSUME Init PROVE TypeOK
<1>1. live \in [File -> Content]
  BY DEF Init, Content
<1>2. exec \in BOOLEAN
  BY DEF Init
<1>3. proc \in Process
  BY ProcessType DEF Init
<1> QED BY <1>1, <1>2, <1>3 DEF Init, TypeOK, Location, Process

\* Every step of an apply keeps the types.
LEMMA ApplyType ==
  ASSUME TypeOK, Running, Apply
  PROVE  TypeOK'
<1>0. proc \in Process
  BY DEF TypeOK, Process, Location
<1>1. ASSUME NEW c \in Cycle, run_apply(c) PROVE TypeOK'
  BY <1>1, StepSets DEF run_apply, TypeOK, Idle, NoMem, Manifest, Fresh, artifacts
<1>2. CASE execute_snapshot_step
  <2> DEFINE m == [pre |-> [f \in File |-> IF f \in Touched THEN live[f] ELSE "unseen"],
                   actions |-> derive_restore_actions]
  <2>1. m \in Manifest
    BY DEF Manifest, derive_restore_actions, Action, TypeOK
  <2>2. snap' = [snap EXCEPT ![proc.id] = m] /\ proc' = [proc EXCEPT !.pc = "boot", !.mem = m]
    BY <1>2, AfterA DEF execute_snapshot_step
  <2> HIDE DEF m
  <2>3. proc' \in Process /\ snap' \in [Cycle -> Manifest \cup {NoManifest}]
    BY <1>0, <2>1, <2>2, StepSets DEF Process, Location, TypeOK
  <2> QED BY <1>2, <2>3 DEF execute_snapshot_step, TypeOK, artifacts, history, Process, Location
<1>3. ASSUME NEW f \in BootFiles, write_boot_file(f) PROVE TypeOK'
  <2>1. After(f) \in Location /\ proc.pc = f
    BY <1>3, AfterA, StepSets DEF BootFiles, Location, write_boot_file
  <2>2. proc' \in Process
    BY <1>0, <1>3, <2>1, ProcessType DEF write_boot_file, Advance
  <2>3. live' \in [File -> Content]
    BY <1>3 DEF write_boot_file, TypeOK, Content
  <2> QED BY <1>3, <2>2, <2>3 DEF write_boot_file, TypeOK, artifacts, history, Process, Location
<1>4. CASE run_grub_mkconfig
  <2>1. proc' \in Process
    BY <1>0, <1>4, AfterA, StepSets, ProcessType DEF run_grub_mkconfig, Advance, Location
  <2> QED BY <1>4, <2>1 DEF run_grub_mkconfig, Cmdline, TypeOK, history, Process, Location
<1>5. CASE rebuild_initramfs
  <2>1. proc' \in Process
    BY <1>0, <1>5, AfterA, StepSets, ProcessType DEF rebuild_initramfs, Advance, Location
  <2> QED BY <1>5, <2>1 DEF rebuild_initramfs, Initramfs, TypeOK, history, Process, Location
<1>6. CASE write_pending
  BY <1>0, <1>6, ProcessType DEF write_pending, TypeOK, artifacts, history, Process, Location
<1> QED BY <1>1, <1>2, <1>3, <1>4, <1>5, <1>6 DEF Apply

\* Every step of a resume keeps the types.
LEMMA ResumeType ==
  ASSUME TypeOK, Running, Resume
  PROVE  TypeOK'
<1>0. proc \in Process
  BY DEF TypeOK, Process, Location
<1>1. CASE run_resume
  BY <1>1, StepSets DEF run_resume, FirstB, TypeOK, Idle, NoMem, Manifest, Fresh, artifacts
<1>2. CASE write_hooks
  <2>1. proc' \in Process
    BY <1>0, <1>2, AfterB, StepSets, ProcessType DEF write_hooks, Advance, Location
  <2> QED BY <1>2, <2>1 DEF write_hooks, TypeOK, Content, artifacts, history, Process, Location
<1>3. CASE set_executable
  <2>1. proc' \in Process
    BY <1>0, <1>3, AfterB, StepSets, ProcessType DEF set_executable, Advance, Location
  <2> QED BY <1>3, <2>1 DEF set_executable, TypeOK, artifacts, history, Process, Location
<1>4. CASE push_remove_hooks \/ push_undefine
  <2>1. PICK a \in {"rmhooks", "undefine"}, l \in Location :
          LET m == [proc.mem EXCEPT !.actions = @ \cup {a}] IN
          /\ snap' = [snap EXCEPT ![proc.id] = m]
          /\ proc' = [proc EXCEPT !.pc = l, !.mem = m]
    BY <1>4, AfterB, StepSets DEF push_remove_hooks, push_undefine, Location
  <2> DEFINE m == [proc.mem EXCEPT !.actions = @ \cup {a}]
  <2>2. m \in Manifest
    BY <1>0 DEF Process, Manifest, Action
  <2>3. snap' = [snap EXCEPT ![proc.id] = m] /\ proc' = [proc EXCEPT !.pc = l, !.mem = m]
    BY <2>1
  <2> HIDE DEF m
  <2>4. snap' \in [Cycle -> Manifest \cup {NoManifest}] /\ proc' \in Process
    BY <1>0, <2>2, <2>3 DEF TypeOK, Process
  <2> QED BY <1>4, <2>4 DEF push_remove_hooks, push_undefine, TypeOK, artifacts, history, Process, Location
<1>5. CASE run_vm_xml_step
  <2>1. proc' \in Process
    BY <1>0, <1>5, AfterB, StepSets, ProcessType DEF run_vm_xml_step, Advance, Location
  <2> QED BY <1>5, <2>1 DEF run_vm_xml_step, TypeOK, Content, artifacts, history, Process, Location
<1>6. CASE declare_disk
  <2>1. proc' \in Process
    BY <1>0, <1>6, AfterB, StepSets, ProcessType DEF declare_disk, Advance, Location
  <2>2. snap' \in [Cycle -> Manifest \cup {NoManifest}]
    BY <1>0, <1>6 DEF declare_disk, TypeOK, Process
  <2> QED BY <1>6, <2>1, <2>2 DEF declare_disk, TypeOK, artifacts, history, Process, Location
<1>7. CASE run_qemu_img_create
  <2>1. proc' \in Process
    BY <1>0, <1>7, AfterB, StepSets DEF run_qemu_img_create, Process, Location
  <2> QED BY <1>7, <2>1 DEF run_qemu_img_create, TypeOK, Content, artifacts, history, Process, Location
<1>8. CASE qemu_img_fails
  <2>1. live' \in [File -> Content]
    BY <1>8 DEF qemu_img_fails, TypeOK, Content
  <2> QED BY <1>8, <2>1, ProcessType DEF qemu_img_fails, TypeOK, artifacts, history, Process, Location
<1>9. CASE run_virsh_define
  <2>1. proc' \in Process
    BY <1>0, <1>9, AfterB, StepSets, ProcessType DEF run_virsh_define, Advance, Location
  <2> QED BY <1>0, <1>9, <2>1 DEF run_virsh_define, TypeOK, artifacts, history, Process, Location
<1>10. CASE virsh_define_fails
  <2>1. live' \in [File -> Content]
    BY <1>10 DEF virsh_define_fails, TypeOK, Content
  <2> QED BY <1>10, <2>1, ProcessType DEF virsh_define_fails, TypeOK, artifacts, Process, Location
<1>11. CASE clear_pending
  BY <1>11, ProcessType DEF clear_pending, TypeOK, artifacts, history, Process, Location
<1> QED BY <1>1, <1>2, <1>3, <1>4, <1>5, <1>6, <1>7, <1>8, <1>9, <1>10, <1>11 DEF Resume

\* Every step of a rollback keeps the types: what is left to restore has an entry.
LEMMA RollbackType ==
  ASSUME TypeOK, Running, RollbackNext
  PROVE  TypeOK'
<1>0. proc \in Process
  BY DEF TypeOK, Process, Location
<1>1. ASSUME NEW c \in Cycle, rollback_to(c) PROVE TypeOK'
  <2>1. snap[c] \in Manifest
    BY <1>1 DEF rollback_to, TypeOK
  <2> QED BY <1>1, <2>1, StepSets DEF rollback_to, TypeOK, Idle, NoMem, Fresh, artifacts
<1>2. ASSUME NEW f \in File, restore_entry(f) PROVE TypeOK'
  <2>1. f \in proc.left /\ proc.mem.pre[f] \in Content
    BY <1>0, <1>2 DEF restore_entry, Running, Process, Manifest
  <2>2. live' \in [File -> Content] /\ exec' \in BOOLEAN
    BY <1>2, <2>1 DEF restore_entry, TypeOK
  <2>3. proc' \in Process
    BY <1>0, <1>2 DEF restore_entry, Process
  <2> QED BY <1>2, <2>2, <2>3 DEF restore_entry, TypeOK, artifacts, history, Process, Location
<1>3. CASE restore_done
  BY <1>0, <1>3, ProcessType DEF restore_done, TypeOK, artifacts, Process, Location, Manifest
<1> QED BY <1>1, <1>2, <1>3 DEF RollbackNext

\* So do persists, kills, and what the host and its user do.
LEMMA HostType ==
  ASSUME TypeOK, Running
  PROVE  /\ (\E l \in Persists : write_manifest(l)) => TypeOK'
         /\ stop => TypeOK'
         /\ (\E a \in Action : run_restore_action(a)) => TypeOK'
         /\ reboot \/ system_upgrade \/ install_guest \/ undefine_leftover => TypeOK'
<1>0. proc \in Process
  BY DEF TypeOK, Process, Location
<1>1. ASSUME NEW l \in Persists, write_manifest(l) PROVE TypeOK'
  <2>1. proc' \in Process
    BY <1>0, <1>1, AfterA, AfterB, StepSets, ProcessType DEF write_manifest, Advance, Location, Persists
  <2>2. snap' \in [Cycle -> Manifest \cup {NoManifest}]
    BY <1>0, <1>1 DEF write_manifest, TypeOK, Process
  <2> QED BY <1>1, <2>1, <2>2 DEF write_manifest, TypeOK, artifacts, history, Process, Location
<1>2. CASE stop
  BY <1>0, <1>2, ProcessType DEF stop, Running, TypeOK, artifacts, Process, Location
<1>3. ASSUME NEW a \in Action, run_restore_action(a) PROVE TypeOK'
  <2>1. kernel' \in [cmdline : {"orig", "virtu"}, image : {"orig", "virtu"}]
    BY <1>3 DEF run_restore_action, TypeOK
  <2>2. live' \in [File -> Content] /\ exec' \in BOOLEAN
    BY <1>3 DEF run_restore_action, TypeOK, Content
  <2>3. grubcfg' \in {"orig", "virtu"} /\ image' \in {"orig", "virtu"}
    BY <1>3 DEF run_restore_action, TypeOK, Cmdline, Initramfs
  <2> QED BY <1>3, <2>1, <2>2, <2>3 DEF run_restore_action, TypeOK
<1>4. CASE reboot
  BY <1>0, <1>4, ProcessType DEF reboot, Running, TypeOK, Process, Location
<1>5. CASE system_upgrade
  BY <1>5 DEF system_upgrade, TypeOK, Cmdline, Initramfs, history
<1>6. CASE install_guest
  <2>1. live' \in [File -> Content]
    BY <1>6 DEF install_guest, TypeOK, Content
  <2> QED BY <1>6, <2>1 DEF install_guest, TypeOK, artifacts, history
<1>7. CASE undefine_leftover
  BY <1>7 DEF undefine_leftover, TypeOK, artifacts, history
<1> QED BY <1>1, <1>2, <1>3, <1>4, <1>5, <1>6, <1>7

\* All variables have their types in the next state.
LEMMA NextType ==
  ASSUME TypeOK, Running, [Next]_vars
  PROVE  TypeOK'
<1>1. CASE Next
  BY <1>1, ApplyType, ResumeType, RollbackType, HostType DEF Next
<1>2. CASE UNCHANGED vars
  BY <1>2 DEF vars, artifacts, history, TypeOK
<1> QED BY <1>1, <1>2

-----------------------------------------------------------------------------
(* The running command *)

\* A step that moves on with a new manifest.
LEMMA NewManifest ==
  ASSUME TypeOK, TypeOK', Running, NEW m, NEW l, proc.pc # "idle",
         proc' = [proc EXCEPT !.pc = l, !.mem = m], snap' = [snap EXCEPT ![proc.id] = m]
  PROVE  /\ m \in Manifest
         /\ proc'.pc = l /\ proc'.mem = m /\ proc'.id = proc.id
         /\ proc'.made = proc.made /\ proc'.left = proc.left
         /\ snap'[proc.id] = m /\ proc.id \in Cycle
         /\ \A c \in Cycle : c # proc.id => snap'[c] = snap[c]
<1>0. proc \in Process /\ proc' \in Process
  BY DEF TypeOK, Process, Location
<1>1. /\ proc'.pc = l /\ proc'.mem = m /\ proc'.id = proc.id
      /\ proc'.made = proc.made /\ proc'.left = proc.left
  BY <1>0 DEF Process
<1>2. m \in Manifest
  BY <1>0, <1>1 DEF Process
<1> QED BY <1>1, <1>2 DEF Running, TypeOK

\* Every step of an apply or a resume keeps the command and its manifest in step.
LEMMA RunningNext ==
  ASSUME TypeOK, TypeOK', Running, Manifests, Next
  PROVE  Running'
<1> USE StepSets, AfterA, AfterB DEF HookSteps
<1>0. proc \in Process /\ NoCycle \notin Cycle /\ NoManifest \notin Manifest
  BY LifecycleAssumption DEF TypeOK, Process, Location
<1>1. CASE proc' = Idle
  BY <1>1 DEF Running, Idle
<1>2. ASSUME NEW c \in Cycle, run_apply(c) PROVE Running'
  BY <1>2 DEF run_apply, Running, Manifests, Idle
<1>3. CASE execute_snapshot_step
  <2>1. PICK m : snap' = [snap EXCEPT ![proc.id] = m] /\ proc' = [proc EXCEPT !.pc = "boot", !.mem = m]
    BY <1>3, Zenon DEF execute_snapshot_step
  <2>2. proc.pc # "idle"
    BY <1>3 DEF execute_snapshot_step
  <2>3. /\ m \in Manifest /\ proc'.pc = "boot" /\ proc'.mem = m /\ proc'.id = proc.id
        /\ proc'.made = proc.made /\ proc'.left = proc.left /\ snap'[proc.id] = m /\ proc.id \in Cycle
    BY ONLY TypeOK, TypeOK', Running, <2>1, <2>2, NewManifest
  <2> QED BY <1>0, <1>3, <2>3 DEF execute_snapshot_step, Running
<1>4. ASSUME NEW f \in BootFiles, write_boot_file(f) PROVE Running'
  BY <1>0, <1>4 DEF write_boot_file, Advance, BootFiles, Running, Process
<1>5. CASE run_grub_mkconfig \/ rebuild_initramfs
  BY <1>0, <1>5 DEF run_grub_mkconfig, rebuild_initramfs, Advance, Running, Process
<1>6. CASE run_resume
  BY <1>0, <1>6 DEF run_resume, FirstB, Running, Idle, TypeOK
<1>7. CASE write_hooks \/ set_executable \/ run_vm_xml_step
  BY <1>0, <1>7 DEF write_hooks, set_executable, run_vm_xml_step, Advance, Running, Process
<1>8. CASE push_remove_hooks \/ push_undefine
  <2> DEFINE Recorded(l) == \E m : snap' = [snap EXCEPT ![proc.id] = m] /\ proc' = [proc EXCEPT !.pc = l, !.mem = m]
  <2>a. push_remove_hooks => Recorded(After("hook_action"))
    BY ONLY Zenon DEF push_remove_hooks
  <2>b. push_undefine => Recorded(After("undo_action"))
    BY ONLY Zenon DEF push_undefine
  <2> HIDE DEF Recorded
  <2>1. PICK l \in {"xml", "clear"} : Recorded(l)
    BY ONLY <1>8, <2>a, <2>b, AfterB
  <2>2. PICK m : snap' = [snap EXCEPT ![proc.id] = m] /\ proc' = [proc EXCEPT !.pc = l, !.mem = m]
    BY ONLY <2>1 DEF Recorded
  <2>3. proc.pc \in {"hook_action", "undo_action"} /\ pending' = pending /\ used' = used
    BY <1>8 DEF push_remove_hooks, push_undefine
  <2>4. proc.pc # "idle"
    BY <2>3
  <2>5. /\ m \in Manifest /\ proc'.pc = l /\ proc'.mem = m /\ proc'.id = proc.id
        /\ proc'.made = proc.made /\ proc'.left = proc.left /\ snap'[proc.id] = m /\ proc.id \in Cycle
    BY ONLY TypeOK, TypeOK', Running, <2>2, <2>4, NewManifest
  <2> QED BY <1>0, <2>3, <2>5 DEF Running
<1>10. CASE declare_disk
  BY <1>0, <1>10 DEF declare_disk, Advance, Running, TypeOK, Process
<1>11. CASE run_qemu_img_create \/ run_virsh_define
  <2>1. CASE run_qemu_img_create
    BY <1>0, <2>1 DEF run_qemu_img_create, Running, Process
  <2>2. CASE run_virsh_define
    BY <1>0, <2>2 DEF run_virsh_define, Advance, Running, Process
  <2> QED BY <1>11, <2>1, <2>2
<1>12. ASSUME NEW c \in Cycle, rollback_to(c) PROVE Running'
  <2>1. proc' = [Idle EXCEPT !.pc = "restore", !.id = c, !.mem = snap[c],
                             !.left = {f \in File : snap[c].pre[f] # "unseen"}]
    BY <1>12 DEF rollback_to
  <2>2. /\ proc'.pc = "restore" /\ proc'.id = c /\ proc'.mem = snap[c] /\ ~proc'.made
        /\ \A f \in proc'.left : snap[c].pre[f] # "unseen"
    BY ONLY <2>1 DEF Idle
  <2>3. snap[c] # NoManifest /\ snap' = snap
    BY <1>12 DEF rollback_to
  <2> QED BY <2>2, <2>3 DEF Running
<1>13. ASSUME NEW f \in File, restore_entry(f) PROVE Running'
  BY <1>0, <1>13 DEF restore_entry, Running, Process
<1>14. ASSUME NEW l \in Persists, write_manifest(l) PROVE Running'
  BY <1>0, <1>14 DEF write_manifest, Advance, Persists, Running, TypeOK, Process
<1>15. ASSUME NEW a \in Action, run_restore_action(a) PROVE Running'
  BY <1>0, <1>15 DEF run_restore_action, Running, Idle
<1>16. CASE system_upgrade \/ install_guest \/ undefine_leftover
  BY <1>0, <1>16 DEF system_upgrade, install_guest, undefine_leftover, Running, Idle
<1>17. write_pending \/ qemu_img_fails \/ virsh_define_fails \/ clear_pending \/ stop \/ restore_done \/ reboot
       => proc' = Idle
  BY DEF write_pending, qemu_img_fails, virsh_define_fails, clear_pending, stop, restore_done, reboot
<1> QED BY <1>1, <1>2, <1>3, <1>4, <1>5, <1>6, <1>7, <1>8, <1>10, <1>11, <1>12, <1>13, <1>14, <1>15,
           <1>16, <1>17 DEF Next, Apply, Resume, RollbackNext

-----------------------------------------------------------------------------
(* Manifests on disk *)

\* Persisting the manifest of the running command again changes nothing: it is
\* written only by the capture and by the two steps that add an action.
LEMMA SnapNext ==
  ASSUME TypeOK, Running, Next
  PROVE  execute_snapshot_step \/ push_remove_hooks \/ push_undefine \/ UNCHANGED snap
<1>1. ASSUME NEW l \in Persists, write_manifest(l) PROVE UNCHANGED snap
  BY <1>1 DEF write_manifest, Persists, Running, TypeOK
<1>2. CASE declare_disk
  BY <1>2 DEF declare_disk, Running, TypeOK
<1>3. CASE Apply
  BY <1>3 DEF Apply, run_apply, write_boot_file, run_grub_mkconfig, rebuild_initramfs, write_pending
<1>4. CASE Resume
  BY <1>2, <1>4 DEF Resume, run_resume, write_hooks, set_executable, run_vm_xml_step,
     run_qemu_img_create, qemu_img_fails, run_virsh_define, virsh_define_fails, clear_pending
<1>5. CASE RollbackNext
  BY <1>5 DEF RollbackNext, rollback_to, restore_entry, restore_done
<1>6. CASE stop \/ (\E a \in Action : run_restore_action(a)) \/ reboot \/ system_upgrade
           \/ install_guest \/ undefine_leftover
  BY <1>6 DEF stop, run_restore_action, reboot, system_upgrade, install_guest, undefine_leftover
<1> QED BY <1>1, <1>3, <1>4, <1>5, <1>6 DEF Next

\* What the capture writes.
LEMMA Captured ==
  ASSUME TypeOK, TypeOK', Running, execute_snapshot_step
  PROVE  /\ proc.id \in Cycle /\ snap[proc.id] = NoManifest
         /\ proc'.pc = "boot" /\ proc'.id = proc.id
         /\ snap'[proc.id] \in Manifest
         /\ snap'[proc.id].actions = derive_restore_actions
         /\ \A f \in File : snap'[proc.id].pre[f] = IF f \in Touched THEN live[f] ELSE "unseen"
         /\ \A c \in Cycle : c # proc.id => snap'[c] = snap[c]
<1> DEFINE p == [f \in File |-> IF f \in Touched THEN live[f] ELSE "unseen"]
           m == [pre |-> p, actions |-> derive_restore_actions]
<1>1. snap' = [snap EXCEPT ![proc.id] = m] /\ proc' = [proc EXCEPT !.pc = "boot", !.mem = m]
  BY AfterA DEF execute_snapshot_step
<1>2. m.pre = p /\ m.actions = derive_restore_actions
  OBVIOUS
<1>3. \A f \in File : p[f] = IF f \in Touched THEN live[f] ELSE "unseen"
  OBVIOUS
<1>4. proc.pc # "idle" /\ snap[proc.id] = NoManifest
  BY DEF execute_snapshot_step, Running
<1> HIDE DEF m, p
<1>5. /\ m \in Manifest /\ proc.id \in Cycle /\ snap'[proc.id] = m
      /\ proc'.pc = "boot" /\ proc'.id = proc.id
      /\ \A c \in Cycle : c # proc.id => snap'[c] = snap[c]
  BY ONLY TypeOK, TypeOK', Running, <1>1, <1>4, NewManifest
<1> QED BY <1>2, <1>3, <1>4, <1>5

\* What an added action changes.
LEMMA Pushed ==
  ASSUME TypeOK, TypeOK', Running, push_remove_hooks \/ push_undefine
  PROVE  /\ proc.id \in Cycle /\ snap[proc.id] \in Manifest /\ snap'[proc.id] \in Manifest
         /\ proc'.id = proc.id
         /\ snap'[proc.id].pre = snap[proc.id].pre
         /\ push_remove_hooks => /\ proc.pc = "hook_action" /\ proc'.pc = "xml"
                                 /\ snap'[proc.id].actions = snap[proc.id].actions \cup {"rmhooks"}
         /\ push_undefine => /\ proc.pc = "undo_action" /\ proc'.pc = "clear"
                             /\ snap'[proc.id].actions = snap[proc.id].actions \cup {"undefine"}
         /\ \A c \in Cycle : c # proc.id => snap'[c] = snap[c]
<1>0. proc.pc # "idle" /\ proc.id \in Cycle /\ proc.mem = snap[proc.id] /\ proc.mem \in Manifest
  BY DEF push_remove_hooks, push_undefine, Running, TypeOK
<1>1. ASSUME NEW a, NEW l,
             snap' = [snap EXCEPT ![proc.id] = [proc.mem EXCEPT !.actions = @ \cup {a}]],
             proc' = [proc EXCEPT !.pc = l, !.mem = [proc.mem EXCEPT !.actions = @ \cup {a}]]
      PROVE  /\ snap'[proc.id] \in Manifest /\ proc'.id = proc.id /\ proc'.pc = l
             /\ snap'[proc.id].pre = snap[proc.id].pre
             /\ snap'[proc.id].actions = snap[proc.id].actions \cup {a}
             /\ \A c \in Cycle : c # proc.id => snap'[c] = snap[c]
  <2> DEFINE m == [proc.mem EXCEPT !.actions = @ \cup {a}]
  <2>1. m.pre = proc.mem.pre /\ m.actions = proc.mem.actions \cup {a}
    BY <1>0 DEF Manifest
  <2>2. snap' = [snap EXCEPT ![proc.id] = m] /\ proc' = [proc EXCEPT !.pc = l, !.mem = m]
    BY <1>1
  <2> HIDE DEF m
  <2>3. /\ m \in Manifest /\ snap'[proc.id] = m /\ proc'.pc = l /\ proc'.id = proc.id
        /\ \A c \in Cycle : c # proc.id => snap'[c] = snap[c]
    BY ONLY TypeOK, TypeOK', Running, <1>0, <2>2, NewManifest
  <2> QED BY <1>0, <2>1, <2>3
<1>2. CASE push_remove_hooks
  <2>1. /\ proc.pc = "hook_action"
        /\ snap' = [snap EXCEPT ![proc.id] = [proc.mem EXCEPT !.actions = @ \cup {"rmhooks"}]]
        /\ proc' = [proc EXCEPT !.pc = "xml", !.mem = [proc.mem EXCEPT !.actions = @ \cup {"rmhooks"}]]
    BY <1>2, AfterB DEF push_remove_hooks
  <2>2. ~push_undefine
    BY <2>1 DEF push_undefine
  <2> QED BY ONLY <1>0, <1>1, <2>1, <2>2
<1>3. CASE push_undefine
  <2>1. /\ proc.pc = "undo_action"
        /\ snap' = [snap EXCEPT ![proc.id] = [proc.mem EXCEPT !.actions = @ \cup {"undefine"}]]
        /\ proc' = [proc EXCEPT !.pc = "clear", !.mem = [proc.mem EXCEPT !.actions = @ \cup {"undefine"}]]
    BY <1>3, AfterB DEF push_undefine
  <2>2. ~push_remove_hooks
    BY <2>1 DEF push_remove_hooks
  <2> QED BY ONLY <1>0, <1>1, <2>1, <2>2
<1> QED BY <1>2, <1>3

\* A manifest on disk stays there with its entries, and loses no action.
LEMMA Frozen ==
  ASSUME TypeOK, TypeOK', Running, Next, NEW c \in Cycle, snap[c] # NoManifest
  PROVE  /\ snap'[c] # NoManifest /\ snap'[c].pre = snap[c].pre
         /\ snap[c].actions \subseteq snap'[c].actions
<1>1. NoManifest \notin Manifest
  BY LifecycleAssumption
<1>2. CASE execute_snapshot_step
  BY <1>2, Captured
<1>3. CASE push_remove_hooks \/ push_undefine
  BY <1>1, <1>3, Pushed
<1> QED BY <1>2, <1>3, SnapNext

\* Every manifest is written for an id handed out, and is well formed.
LEMMA ManifestsNext ==
  ASSUME TypeOK, TypeOK', Running, Manifests, Next
  PROVE  Manifests'
<1>1. CASE execute_snapshot_step
  <2>1. used' = used /\ proc.id \in used /\ (CreateDisk => live["disk"] = "none")
    BY <1>1 DEF execute_snapshot_step, Running
  <2>2. WellFormed(snap'[proc.id])
    BY <1>1, <2>1, Captured DEF WellFormed, TypeOK, Content, Touched, File, derive_restore_actions
  <2> QED BY <1>1, <2>1, <2>2, Captured DEF Manifests, WellFormed
<1>2. CASE push_remove_hooks \/ push_undefine
  <2>1. used' = used
    BY <1>2 DEF push_remove_hooks, push_undefine
  <2>2. snap[proc.id] # NoManifest /\ (push_remove_hooks => HasHook)
    BY <1>2 DEF Running, push_remove_hooks, push_undefine, HookSteps
  <2>3. WellFormed(snap[proc.id])
    BY <1>2, <2>2, Pushed DEF Manifests
  <2>4. WellFormed(snap'[proc.id])
    BY <1>2, <2>2, <2>3, Pushed DEF WellFormed
  <2> QED BY <1>2, <2>1, <2>2, <2>4, Pushed DEF Manifests, WellFormed
<1>3. CASE UNCHANGED snap
  <2>1. used \subseteq used'
    BY <1>3 DEF Next, Apply, Resume, RollbackNext, run_apply, execute_snapshot_step, write_boot_file,
       run_grub_mkconfig, rebuild_initramfs, write_pending, run_resume, write_hooks, set_executable,
       push_remove_hooks, run_vm_xml_step, declare_disk, run_qemu_img_create, qemu_img_fails,
       run_virsh_define, virsh_define_fails, push_undefine, clear_pending, rollback_to, restore_entry,
       restore_done, write_manifest, stop, run_restore_action, reboot, system_upgrade, install_guest,
       undefine_leftover
  <2> QED BY <1>3, <2>1 DEF Manifests, WellFormed
<1> QED BY <1>1, <1>2, <1>3, SnapNext

-----------------------------------------------------------------------------
(* The libvirt domain *)

\* Which steps change the domain, that a torn record is never forgotten, and how
\* the step that records the domain ends.
LEMMA DomainChanges ==
  ASSUME Next
  PROVE  /\ run_virsh_define \/ domain' = NoCycle \/ domain' = domain
         /\ torn \subseteq torn'
         /\ proc.pc = "undo_action" => push_undefine \/ proc.id \in torn' \/ proc' = proc
<1>1. run_virsh_define \/ domain' = NoCycle \/ domain' = domain
  BY DEF Next, Apply, Resume, RollbackNext, run_apply, execute_snapshot_step, write_boot_file,
     run_grub_mkconfig, rebuild_initramfs, write_pending, run_resume, write_hooks, set_executable,
     push_remove_hooks, run_vm_xml_step, declare_disk, run_qemu_img_create, qemu_img_fails,
     virsh_define_fails, push_undefine, clear_pending, rollback_to, restore_entry,
     restore_done, write_manifest, stop, run_restore_action, reboot, system_upgrade, install_guest,
     undefine_leftover
<1>2. torn \subseteq torn'
  BY DEF Next, Apply, Resume, RollbackNext, run_apply, execute_snapshot_step, write_boot_file,
     run_grub_mkconfig, rebuild_initramfs, write_pending, run_resume, write_hooks, set_executable,
     push_remove_hooks, run_vm_xml_step, declare_disk, run_qemu_img_create, qemu_img_fails,
     run_virsh_define, virsh_define_fails, push_undefine, clear_pending, rollback_to, restore_entry,
     restore_done, write_manifest, stop, run_restore_action, reboot, system_upgrade, install_guest,
     undefine_leftover, history, Fresh
<1>3. proc.pc = "undo_action" => push_undefine \/ proc.id \in torn' \/ proc' = proc
  BY DEF Next, Apply, Resume, RollbackNext, run_apply, execute_snapshot_step, write_boot_file,
     run_grub_mkconfig, rebuild_initramfs, write_pending, run_resume, write_hooks, set_executable,
     push_remove_hooks, run_vm_xml_step, declare_disk, run_qemu_img_create, qemu_img_fails,
     run_virsh_define, virsh_define_fails, clear_pending, rollback_to, restore_entry,
     restore_done, write_manifest, stop, run_restore_action, reboot, system_upgrade, install_guest,
     undefine_leftover, BootFiles, Persists
<1> QED BY <1>1, <1>2, <1>3

\* A domain keeps a manifest that undoes it, or its record is being written or torn.
LEMMA DomainNext ==
  ASSUME TypeOK, TypeOK', Running, DomainKnown, DomainUndoable, Next
  PROVE  DomainKnown' /\ DomainUndoable'
<1>1. CASE run_virsh_define
  <2>1. proc \in Process
    BY DEF TypeOK, Process, Location
  <2>2. proc'.pc = "undo_action" /\ proc'.id = proc.id /\ domain' = proc.id /\ snap' = snap
    BY <1>1, <2>1, AfterB DEF run_virsh_define, Advance, Process
  <2>3. snap[proc.id] # NoManifest
    BY <1>1 DEF run_virsh_define, Running
  <2> QED BY <2>2, <2>3 DEF DomainKnown, DomainUndoable
<1>2. CASE domain' = NoCycle
  BY <1>2 DEF DomainKnown, DomainUndoable
<1>3. CASE domain' = domain /\ domain # NoCycle
  <2>1. domain \in Cycle /\ snap[domain] # NoManifest
    BY <1>3 DEF TypeOK, DomainKnown
  <2>2. snap'[domain] # NoManifest /\ snap[domain].actions \subseteq snap'[domain].actions
    BY <2>1, Frozen
  <2>3. CASE "undefine" \in snap[domain].actions \/ domain \in torn
    BY <1>3, <2>2, <2>3, DomainChanges DEF DomainKnown, DomainUndoable
  <2>4. CASE proc.pc = "undo_action" /\ proc.id = domain
    <3>1. push_undefine => "undefine" \in snap'[domain].actions
      BY <2>4, Pushed
    <3> QED BY <1>3, <2>2, <2>4, <3>1, DomainChanges DEF DomainKnown, DomainUndoable
  <2> QED BY <1>3, <2>3, <2>4 DEF DomainUndoable
<1> QED BY <1>1, <1>2, <1>3, DomainChanges

-----------------------------------------------------------------------------
(* Phase A on the host *)

\* A command past the first write of Phase A got there by a step of an apply, or
\* waits while the system is upgraded.
LEMMA InPhaseA ==
  ASSUME TypeOK, TypeOK', Running, Next,
         proc'.pc \in {"vfio", "initrd", "mkconfig", "rebuild", "persist", "pend"}
  PROVE  \/ \E f \in BootFiles : write_boot_file(f)
         \/ run_grub_mkconfig \/ rebuild_initramfs \/ write_manifest("persist") \/ system_upgrade
<1>0. proc \in Process
  BY DEF TypeOK, Process, Location
<1>1. proc' # Idle
  BY DEF Idle
<1>2. ~stop /\ ~reboot /\ ~restore_done /\ ~clear_pending /\ ~virsh_define_fails /\ ~qemu_img_fails /\ ~write_pending
  BY <1>1 DEF stop, reboot, restore_done, clear_pending, virsh_define_fails, qemu_img_fails, write_pending
<1>3. ASSUME NEW c \in Cycle PROVE ~run_apply(c) /\ ~rollback_to(c)
  BY DEF run_apply, rollback_to, Idle
<1>4. ~execute_snapshot_step
  BY Captured
<1>5. ~run_resume
  BY DEF run_resume, FirstB, Idle
<1>6. ~write_hooks /\ ~set_executable /\ ~run_vm_xml_step /\ ~declare_disk /\ ~run_virsh_define
  BY <1>0, AfterB DEF write_hooks, set_executable, run_vm_xml_step, declare_disk, run_virsh_define,
     Advance, Process
<1>7. ~push_remove_hooks /\ ~push_undefine /\ ~run_qemu_img_create
  BY <1>0, AfterB DEF push_remove_hooks, push_undefine, run_qemu_img_create, Process
<1>8. ASSUME NEW f \in File PROVE ~restore_entry(f)
  BY <1>0 DEF restore_entry, Process
<1>9. ASSUME NEW l \in Persists, write_manifest(l) PROVE l = "persist"
  BY <1>0, <1>9, AfterB DEF write_manifest, Advance, Process, Persists
<1>10. (\E a \in Action : run_restore_action(a)) \/ install_guest \/ undefine_leftover => FALSE
  BY DEF run_restore_action, install_guest, undefine_leftover
<1> QED BY <1>2, <1>3, <1>4, <1>5, <1>6, <1>7, <1>8, <1>9, <1>10 DEF Next, Apply, Resume, RollbackNext

\* What the steps behind an apply have put in place stays while it runs: a package
\* upgrade makes the same artifacts of the same files.
LEMMA StagingNext ==
  ASSUME TypeOK, TypeOK', Running, Staging, Next
  PROVE  Staging'
<1> USE AfterA
<1>0. proc \in Process
  BY DEF TypeOK, Process, Location
<1>1. CASE proc'.pc \notin {"vfio", "initrd", "mkconfig", "rebuild", "persist", "pend"}
  BY <1>1 DEF Staging
<1>2. ASSUME NEW f \in BootFiles, write_boot_file(f) PROVE Staging'
  BY <1>0, <1>2 DEF write_boot_file, Advance, Staging, Process, TypeOK, File, BootFiles
<1>3. CASE run_grub_mkconfig
  BY <1>0, <1>3 DEF run_grub_mkconfig, Advance, Staging, Process, Cmdline
<1>4. CASE rebuild_initramfs
  BY <1>0, <1>4 DEF rebuild_initramfs, Advance, Staging, Process, Initramfs
<1>5. CASE write_manifest("persist")
  BY <1>0, <1>5 DEF write_manifest, Advance, Staging, Process, artifacts
<1>6. CASE system_upgrade
  BY <1>6 DEF system_upgrade, Staging, Cmdline, Initramfs
<1> QED BY <1>1, <1>2, <1>3, <1>4, <1>5, <1>6, InPhaseA

-----------------------------------------------------------------------------
(* Phase B on the host *)

\* A command in Phase B got there by one of the steps of a resume, or waits while
\* the system is upgraded.
LEMMA InPhaseB ==
  ASSUME TypeOK, TypeOK', Running, Next, proc'.pc \in StepsB
  PROVE  \/ run_resume
         \/ /\ proc.pc \in StepsB
            /\ \/ write_hooks \/ set_executable \/ push_remove_hooks \/ run_vm_xml_step \/ declare_disk
               \/ run_qemu_img_create \/ run_virsh_define \/ push_undefine \/ system_upgrade
               \/ \E l \in {"hook_manifest", "xml_manifest"} : write_manifest(l)
<1> USE StepSets
<1>0. proc \in Process
  BY DEF TypeOK, Process, Location
<1>1. proc' # Idle
  BY DEF Idle
<1>2. ~stop /\ ~reboot /\ ~restore_done /\ ~clear_pending /\ ~virsh_define_fails /\ ~qemu_img_fails /\ ~write_pending
  BY <1>1 DEF stop, reboot, restore_done, clear_pending, virsh_define_fails, qemu_img_fails, write_pending
<1>3. ASSUME NEW c \in Cycle PROVE ~run_apply(c) /\ ~rollback_to(c)
  BY DEF run_apply, rollback_to, Idle
<1>4. ~execute_snapshot_step
  BY Captured
<1>5. ~run_grub_mkconfig /\ ~rebuild_initramfs
  BY <1>0, AfterA DEF run_grub_mkconfig, rebuild_initramfs, Advance, Process
<1>6. ASSUME NEW f \in BootFiles PROVE ~write_boot_file(f)
  BY <1>0, AfterA DEF write_boot_file, Advance, Process, BootFiles
<1>7. ASSUME NEW f \in File PROVE ~restore_entry(f)
  BY <1>0 DEF restore_entry, Process
<1>8. ASSUME NEW l \in Persists, write_manifest(l) PROVE l \in {"hook_manifest", "xml_manifest"}
  BY <1>0, <1>8, AfterA DEF write_manifest, Advance, Process, Persists
<1>9. (\E a \in Action : run_restore_action(a)) \/ install_guest \/ undefine_leftover => FALSE
  BY DEF run_restore_action, install_guest, undefine_leftover
<1>10. \/ write_hooks \/ set_executable \/ push_remove_hooks \/ run_vm_xml_step \/ declare_disk
       \/ run_qemu_img_create \/ run_virsh_define \/ push_undefine \/ system_upgrade
       \/ \E l \in {"hook_manifest", "xml_manifest"} : write_manifest(l)
       => proc.pc \in StepsB
  BY DEF write_hooks, set_executable, push_remove_hooks, run_vm_xml_step, declare_disk,
     run_qemu_img_create, run_virsh_define, push_undefine, system_upgrade, write_manifest
<1> QED BY <1>2, <1>3, <1>4, <1>5, <1>6, <1>7, <1>8, <1>9, <1>10 DEF Next, Apply, Resume, RollbackNext

\* What the steps behind a resume have put in place stays while it runs.
LEMMA ProgressNext ==
  ASSUME TypeOK, TypeOK', Running, Progress, Next
  PROVE  Progress'
<1> USE StepSets, AfterB DEF AfterXml, AfterDisk, AfterDefine
<1>0. proc \in Process
  BY DEF TypeOK, Process, Location
<1>1. CASE proc'.pc \notin StepsB
  BY <1>1 DEF Progress
<1>2. CASE run_resume
  BY <1>2 DEF run_resume, FirstB, Idle, Progress
<1>3. CASE write_hooks
  BY <1>0, <1>3 DEF write_hooks, Advance, Progress, Process, TypeOK, File
<1>4. CASE set_executable
  BY <1>0, <1>4 DEF set_executable, Advance, Progress, Process
<1>5. CASE push_remove_hooks \/ push_undefine
  <2>1. UNCHANGED <<live, exec, domain>>
    BY <1>5 DEF push_remove_hooks, push_undefine
  <2> QED BY <1>5, <2>1, Pushed DEF Progress
<1>6. CASE run_vm_xml_step
  BY <1>0, <1>6 DEF run_vm_xml_step, Advance, Progress, Process, TypeOK, File
<1>7. CASE declare_disk
  BY <1>0, <1>7 DEF declare_disk, Advance, Progress, Process
<1>8. CASE run_qemu_img_create
  BY <1>0, <1>8 DEF run_qemu_img_create, Progress, Process, TypeOK, File
<1>9. CASE run_virsh_define
  BY <1>0, <1>9 DEF run_virsh_define, Advance, Progress, Process
<1>10. CASE system_upgrade
  BY <1>10 DEF system_upgrade, Progress
<1>11. ASSUME NEW l \in {"hook_manifest", "xml_manifest"}, write_manifest(l) PROVE Progress'
  BY <1>0, <1>11 DEF write_manifest, Advance, Progress, Process
<1> QED BY <1>1, <1>2, <1>3, <1>4, <1>5, <1>6, <1>7, <1>8, <1>9, <1>10, <1>11, InPhaseB

-----------------------------------------------------------------------------
(* The disk image *)

\* Which steps change the disk image.
LEMMA DiskChanges ==
  ASSUME TypeOK, Next
  PROVE  \/ live'["disk"] = live["disk"]
         \/ run_qemu_img_create \/ qemu_img_fails \/ virsh_define_fails \/ install_guest
         \/ restore_entry("disk")
<1>1. CASE Apply
  <2>1. ASSUME NEW f \in BootFiles, write_boot_file(f) PROVE live'["disk"] = live["disk"]
    BY <2>1 DEF write_boot_file, BootFiles, File, TypeOK
  <2>2. CASE ~\E f \in BootFiles : write_boot_file(f)
    BY <1>1, <2>2 DEF Apply, run_apply, execute_snapshot_step, run_grub_mkconfig, rebuild_initramfs, write_pending
  <2> QED BY <2>1, <2>2
<1>2. CASE Resume
  <2>1. CASE write_hooks \/ run_vm_xml_step
    BY <2>1 DEF write_hooks, run_vm_xml_step, File, TypeOK
  <2>2. CASE ~(write_hooks \/ run_vm_xml_step)
    BY <1>2, <2>2 DEF Resume, run_resume, set_executable, push_remove_hooks, declare_disk, run_virsh_define,
       push_undefine, clear_pending
  <2> QED BY <2>1, <2>2
<1>3. CASE RollbackNext
  <2>1. ASSUME NEW f \in File, f # "disk", restore_entry(f) PROVE live'["disk"] = live["disk"]
    BY <2>1 DEF restore_entry, TypeOK, File
  <2> QED BY <1>3, <2>1 DEF RollbackNext, rollback_to, restore_done
<1>4. ASSUME NEW a \in Action, run_restore_action(a) PROVE live'["disk"] = live["disk"]
  BY <1>4 DEF run_restore_action, TypeOK, File
<1>5. CASE (\E l \in Persists : write_manifest(l)) \/ stop \/ reboot \/ system_upgrade \/ undefine_leftover
  BY <1>5 DEF write_manifest, stop, reboot, system_upgrade, undefine_leftover
<1> QED BY <1>1, <1>2, <1>3, <1>4, <1>5 DEF Next

\* A rollback that restores a disk image removes one that was to be created.
LEMMA DiskEntry ==
  ASSUME TypeOK, Running, Manifests, restore_entry("disk")
  PROVE  CreateDisk /\ live'["disk"] = "none"
<1>1. proc.pc = "restore" /\ "disk" \in proc.left /\ live'["disk"] = proc.mem.pre["disk"]
  BY DEF restore_entry, TypeOK, File
<1>2. /\ proc.mem.pre["disk"] # "unseen" /\ proc.id \in Cycle
      /\ snap[proc.id] # NoManifest /\ proc.mem = snap[proc.id]
  BY <1>1 DEF Running
<1>3. WellFormed(proc.mem)
  BY <1>2 DEF Manifests
<1>4. "disk" \in Touched <=> CreateDisk
  BY DEF Touched, BootFiles
<1> QED BY <1>1, <1>2, <1>3, <1>4 DEF WellFormed, File

\* An image to be created is in a manifest before qemu-img runs; an existing one
\* is never touched.
LEMMA DiskNext ==
  ASSUME TypeOK, TypeOK', Running, Manifests, DiskTracked, GuestDiskKept, Next
  PROVE  DiskTracked' /\ GuestDiskKept'
<1>1. CASE live'["disk"] = live["disk"]
  <2>1. ASSUME CreateDisk, live'["disk"] # "none"
        PROVE  \E c \in Cycle : snap'[c] # NoManifest /\ snap'[c].pre["disk"] = "none"
    BY <1>1, <2>1, Frozen DEF DiskTracked
  <2> QED BY <1>1, <2>1 DEF DiskTracked, GuestDiskKept
<1>2. CASE run_qemu_img_create \/ qemu_img_fails
  <2>1. CreateDisk /\ proc.id \in Cycle /\ snap[proc.id] # NoManifest /\ UNCHANGED snap
    BY <1>2 DEF run_qemu_img_create, qemu_img_fails, Running
  <2>2. snap[proc.id].pre["disk"] = "none"
    BY <2>1 DEF Manifests, WellFormed
  <2> QED BY <2>1, <2>2 DEF DiskTracked, GuestDiskKept
<1>3. CASE virsh_define_fails /\ live'["disk"] # live["disk"]
  BY <1>3 DEF virsh_define_fails, Running, DiskTracked, GuestDiskKept, TypeOK, File
<1>4. CASE install_guest
  BY <1>4 DEF install_guest, DiskTracked, GuestDiskKept
<1>5. CASE restore_entry("disk")
  BY <1>5, DiskEntry DEF DiskTracked, GuestDiskKept
<1> QED BY <1>1, <1>2, <1>3, <1>4, <1>5, DiskChanges

-----------------------------------------------------------------------------
(* Rollback *)

\* Entries are passed one by one, each restored when it is passed.
LEMMA RestoringNext ==
  ASSUME TypeOK, TypeOK', Running, Restoring, Next
  PROVE  Restoring'
<1> USE StepSets
<1>0. proc \in Process
  BY DEF TypeOK, Process, Location
<1>1. CASE proc'.pc # "restore"
  BY <1>1 DEF Restoring
<1>2. ASSUME NEW c \in Cycle, rollback_to(c) PROVE Restoring'
  BY <1>2 DEF rollback_to, Idle, Restoring
<1>3. ASSUME NEW f \in File, restore_entry(f) PROVE Restoring'
  BY <1>0, <1>3 DEF restore_entry, Restoring, Process, TypeOK
<1>4. CASE system_upgrade
  BY <1>4 DEF system_upgrade, Restoring
<1>5. CASE proc'.pc = "restore"
  <2>1. proc' # Idle
    BY <1>5 DEF Idle
  <2>2. ASSUME NEW c \in Cycle PROVE ~run_apply(c)
    BY <1>5 DEF run_apply, Idle
  <2>3. ~execute_snapshot_step /\ ~push_remove_hooks /\ ~push_undefine
    BY <1>5, Captured, Pushed
  <2>4. ~run_resume
    BY <1>5 DEF run_resume, Idle, FirstB
  <2>5. proc' = [proc EXCEPT !.pc = After(proc.pc)] => proc.pc \notin (StepsA \cup StepsB) \ {"pend", "clear"}
    BY <1>0, <1>5, AfterA, AfterB DEF Process
  <2>6. ~Apply
    BY <2>1, <2>2, <2>3, <2>5 DEF Apply, write_boot_file, run_grub_mkconfig, rebuild_initramfs,
       write_pending, Advance, BootFiles
  <2>7. ~Resume
    <3>1. ~run_qemu_img_create
      BY <1>0, <1>5, AfterB DEF run_qemu_img_create, Process
    <3> QED BY <2>1, <2>3, <2>4, <2>5, <3>1 DEF Resume, write_hooks, set_executable, run_vm_xml_step,
         declare_disk, qemu_img_fails, run_virsh_define, virsh_define_fails, clear_pending, Advance
  <2>8. ASSUME NEW l \in Persists PROVE ~write_manifest(l)
    BY <2>5 DEF write_manifest, Advance, Persists
  <2>9. ~restore_done /\ ~stop /\ ~reboot
    BY <2>1 DEF restore_done, stop, reboot
  <2>10. (\E a \in Action : run_restore_action(a)) \/ install_guest \/ undefine_leftover => FALSE
    BY <1>5 DEF run_restore_action, install_guest, undefine_leftover
  <2> QED BY <1>2, <1>3, <1>4, <2>6, <2>7, <2>8, <2>9, <2>10 DEF Next, RollbackNext
<1> QED BY <1>1, <1>5

\* Which steps leave or make a rollback that is being undone.
LEMMA UndoneChanges ==
  ASSUME TypeOK, Running, Undoing, Next, undone' # NoCycle
  PROVE  \/ restore_done
         \/ /\ undone' = undone
            /\ \/ \E a \in Action : run_restore_action(a)
               \/ reboot \/ system_upgrade \/ install_guest \/ undefine_leftover
<1> USE StepSets
<1>1. ~\E c \in Cycle : run_apply(c) \/ rollback_to(c)
  BY DEF run_apply, rollback_to, Fresh
<1>2. ~run_resume
  BY DEF run_resume, Fresh
<1>3. CASE restore_done
  BY <1>3
<1>4. CASE ~restore_done
  <2>1. undone' = undone
    BY <1>1, <1>2, <1>4 DEF Next, Apply, Resume, RollbackNext, execute_snapshot_step, write_boot_file,
       run_grub_mkconfig, rebuild_initramfs, write_pending, write_hooks, set_executable,
       push_remove_hooks, run_vm_xml_step, declare_disk, run_qemu_img_create, qemu_img_fails,
       run_virsh_define, virsh_define_fails, push_undefine, clear_pending, restore_entry,
       write_manifest, stop, run_restore_action, reboot, system_upgrade, install_guest,
       undefine_leftover, history
  <2>2. proc.pc = "idle"
    BY <2>1 DEF Undoing
  <2> QED BY <1>1, <1>2, <1>4, <2>1, <2>2 DEF Next, Apply, Resume, RollbackNext, execute_snapshot_step, write_boot_file,
       run_grub_mkconfig, rebuild_initramfs, write_pending, write_hooks, set_executable,
       push_remove_hooks, run_vm_xml_step, declare_disk, run_qemu_img_create, qemu_img_fails,
       run_virsh_define, virsh_define_fails, push_undefine, clear_pending, restore_entry,
       write_manifest, stop, BootFiles, Persists
<1> QED BY <1>3, <1>4

\* Between a rollback and the next command the actions taken off the list have
\* had their effect, and nothing undoes it.
LEMMA UndoingNext ==
  ASSUME TypeOK, TypeOK', Running, Manifests, DomainUndoable, Undoing, Next
  PROVE  Undoing'
<1> SUFFICES ASSUME undone' # NoCycle PROVE Undoing'
  BY DEF Undoing
<1>1. CASE restore_done
  <2>1. /\ proc.pc = "restore" /\ proc' = Idle /\ todo' = proc.mem.actions /\ undone' = proc.id
        /\ UNCHANGED <<snap, domain, torn>>
    BY <1>1 DEF restore_done
  <2>2. proc.id \in Cycle /\ snap[proc.id] # NoManifest /\ proc.mem = snap[proc.id]
    BY <2>1 DEF Running
  <2>3. {"regen", "reload", "rebuild", "reboot"} \subseteq todo'
    BY <2>1, <2>2 DEF Manifests, WellFormed, derive_restore_actions
  <2>4. domain = proc.id => proc.id \in torn \/ "undefine" \in todo'
    BY <2>1, <2>2, LifecycleAssumption DEF DomainUndoable
  <2> QED BY <2>1, <2>2, <2>3, <2>4 DEF Undoing, Idle
<1>2. CASE undone' = undone /\ ~restore_done
  <2>1. /\ proc.pc = "idle" /\ snap[undone] # NoManifest /\ todo \subseteq snap[undone].actions
        /\ "regen" \notin todo => grubcfg = Cmdline(live)
        /\ "rebuild" \notin todo => image = Initramfs(live)
        /\ "reboot" \notin todo => /\ todo \cap {"regen", "reload", "rebuild"} = {}
                                   /\ kernel = [cmdline |-> grubcfg, image |-> image]
        /\ domain = undone => undone \in torn \/ "undefine" \in todo
    BY <1>2 DEF Undoing
  <2>2. ASSUME NEW a \in Action, run_restore_action(a) PROVE Undoing'
    <3>1. Cmdline(live') = Cmdline(live) /\ Initramfs(live') = Initramfs(live)
      BY <2>2 DEF run_restore_action, Cmdline, Initramfs, TypeOK, File, BootFiles
    <3>2. "reboot" \notin todo' => /\ todo' \cap {"regen", "reload", "rebuild"} = {}
                                   /\ kernel' = [cmdline |-> grubcfg', image |-> image']
      BY <2>1, <2>2 DEF run_restore_action
    <3>3. /\ "regen" \notin todo' => grubcfg' = Cmdline(live')
          /\ "rebuild" \notin todo' => image' = Initramfs(live')
      BY <2>1, <2>2, <3>1 DEF run_restore_action
    <3>4. domain' = undone => undone \in torn \/ "undefine" \in todo'
      BY <1>2, <2>1, <2>2 DEF run_restore_action
    <3>5. snap' = snap /\ proc' = proc /\ torn' = torn /\ todo' \subseteq todo
      BY <2>2 DEF run_restore_action
    <3> QED BY <1>2, <2>1, <3>2, <3>3, <3>4, <3>5 DEF Undoing
  <2>3. CASE reboot
    BY <1>2, <2>1, <2>3 DEF reboot, Undoing, Idle
  <2>4. CASE system_upgrade
    BY <1>2, <2>1, <2>4 DEF system_upgrade, Undoing, history
  <2>5. CASE install_guest
    <3>1. Cmdline(live') = Cmdline(live) /\ Initramfs(live') = Initramfs(live)
      BY <2>5 DEF install_guest, Cmdline, Initramfs, TypeOK, File, BootFiles
    <3> QED BY <1>2, <2>1, <2>5, <3>1 DEF install_guest, Undoing, artifacts, history
  <2>6. CASE undefine_leftover
    BY <1>2, <2>1, <2>6 DEF undefine_leftover, Undoing, artifacts, history
  <2> QED BY <1>2, <2>2, <2>3, <2>4, <2>5, <2>6, UndoneChanges
<1> QED BY <1>1, <1>2, UndoneChanges

-----------------------------------------------------------------------------
(* Hooks and rollback *)

\* Which steps change the hook scripts.
LEMMA HookChanges ==
  ASSUME TypeOK, Next
  PROVE  \/ live'["hook"] \in {live["hook"], "none"}
         \/ write_hooks \/ restore_entry("hook")
<1>1. CASE Apply
  BY <1>1 DEF Apply, run_apply, execute_snapshot_step, write_boot_file, run_grub_mkconfig,
     rebuild_initramfs, write_pending, BootFiles, File, TypeOK
<1>2. CASE Resume
  BY <1>2 DEF Resume, run_resume, set_executable, push_remove_hooks, run_vm_xml_step,
     declare_disk, run_qemu_img_create, qemu_img_fails, run_virsh_define, virsh_define_fails,
     push_undefine, clear_pending, File, TypeOK
<1>3. CASE RollbackNext
  <2>1. ASSUME NEW f \in File, f # "hook", restore_entry(f) PROVE live'["hook"] = live["hook"]
    BY <2>1 DEF restore_entry, TypeOK, File
  <2> QED BY <1>3, <2>1 DEF RollbackNext, rollback_to, restore_done
<1>4. ASSUME NEW a \in Action, run_restore_action(a) PROVE live'["hook"] \in {live["hook"], "none"}
  BY <1>4 DEF run_restore_action, TypeOK, File
<1>5. CASE (\E l \in Persists : write_manifest(l)) \/ stop \/ reboot \/ system_upgrade
           \/ install_guest \/ undefine_leftover
  BY <1>5 DEF write_manifest, stop, reboot, system_upgrade, install_guest, undefine_leftover, TypeOK, File
<1> QED BY <1>1, <1>2, <1>3, <1>4, <1>5 DEF Next

\* pending.toml is written by an apply and removed by a resume that have come to
\* their ends, and otherwise left alone.
LEMMA PendingChanges ==
  ASSUME Next
  PROVE  pending' = pending \/ clear_pending \/ write_pending
BY DEF Next, Apply, Resume, RollbackNext, run_apply, execute_snapshot_step, write_boot_file,
   run_grub_mkconfig, rebuild_initramfs, run_resume, write_hooks, set_executable,
   push_remove_hooks, run_vm_xml_step, declare_disk, run_qemu_img_create, qemu_img_fails,
   run_virsh_define, virsh_define_fails, push_undefine, rollback_to, restore_entry,
   restore_done, write_manifest, stop, run_restore_action, reboot, system_upgrade, install_guest,
   undefine_leftover

\* With no plan pending and no disk image there are no scripts: a rollback removes
\* them before the image, and a failed resume keeps the plan pending.
LEMMA HooksBeforeDisk ==
  ASSUME TypeOK, TypeOK', Running, Manifests, Progress, Restoring, HooksUndone, Next,
         HooksOwn, HasHook, pending' = NoCycle, live'["disk"] = "none"
  PROVE  live'["hook"] = "none"
<1> USE StepSets
<1>0. proc \in Process /\ NoCycle \notin Cycle /\ CreateDisk
  BY LifecycleAssumption DEF TypeOK, Process, Location, HooksOwn
<1>1. \A c \in Cycle : snap[c] # NoManifest => snap[c].pre["hook"] = "none"
  BY DEF HooksUndone
<1>2. ~write_pending
  BY <1>0 DEF write_pending, Running
<1>3. CASE clear_pending
  <2>1. live["disk"] # "none" /\ live' = live
    BY <1>0, <1>3 DEF clear_pending, Progress, AfterDisk
  <2> QED BY <2>1
<1>4. CASE pending = NoCycle
  <2>1. proc.pc \notin StepsB
    BY <1>0, <1>4 DEF Running
  <2>2. ~write_hooks /\ ~run_qemu_img_create /\ ~qemu_img_fails /\ ~virsh_define_fails
    BY <2>1 DEF write_hooks, run_qemu_img_create, qemu_img_fails, virsh_define_fails
  <2>3. ASSUME proc.pc = "restore" PROVE proc.mem.pre["hook"] = "none"
    BY <1>1, <2>3 DEF Running
  <2>4. CASE restore_entry("hook")
    BY <2>3, <2>4 DEF restore_entry, TypeOK, File
  <2>5. CASE restore_entry("disk")
    <3>1. proc.pc = "restore" /\ "hook" \notin proc.left /\ live'["hook"] = live["hook"]
      BY <2>5 DEF restore_entry, Entries, TypeOK, File
    <3>2. live["hook"] = proc.mem.pre["hook"]
      BY <2>3, <3>1 DEF Restoring, File
    <3> QED BY <2>3, <3>1, <3>2
  <2>6. CASE live["disk"] = "none" /\ live'["hook"] \in {live["hook"], "none"}
    BY <1>4, <2>6 DEF HooksUndone
  <2>7. CASE install_guest
    BY <2>7 DEF install_guest, TypeOK, File
  <2> QED BY <2>2, <2>4, <2>5, <2>6, <2>7, DiskChanges, HookChanges
<1> QED BY <1>2, <1>3, <1>4, PendingChanges

\* No manifest captures a script.
LEMMA NoScriptCaptured ==
  ASSUME TypeOK, TypeOK', Running, HooksUndone, Next, HooksOwn, HasHook,
         NEW c \in Cycle, snap'[c] # NoManifest
  PROVE  snap'[c].pre["hook"] = "none"
<1>1. CASE snap[c] # NoManifest
  BY <1>1, Frozen DEF HooksUndone
<1>2. CASE snap[c] = NoManifest
  <2>1. execute_snapshot_step /\ c = proc.id
    <3>1. push_remove_hooks \/ push_undefine => snap[proc.id] # NoManifest
      BY DEF push_remove_hooks, push_undefine, Running
    <3> QED BY <1>2, <3>1, SnapNext, Captured, Pushed
  <2>2. live["disk"] = "none" /\ pending = NoCycle
    BY <2>1, StepSets DEF execute_snapshot_step, Running, HooksOwn
  <2>3. live["hook"] = "none"
    BY <2>2 DEF HooksUndone
  <2>4. snap'[c].pre["hook"] = live["hook"]
    BY <2>1, Captured DEF Touched, File, BootFiles
  <2> QED BY <2>3, <2>4
<1> QED BY <1>1, <1>2

\* After a rollback the files are and stay as captured.
LEMMA FilesStayRestored ==
  ASSUME TypeOK, TypeOK', Running, Manifests, Restoring, Undoing, HooksUndone, Next, HooksOwn,
         undone' # NoCycle, NEW f \in File, snap'[undone'].pre[f] # "unseen"
  PROVE  live'[f] = snap'[undone'].pre[f]
<1>1. CASE restore_done
  <2>1. /\ proc.pc = "restore" /\ proc.left = {} /\ undone' = proc.id /\ UNCHANGED <<live, snap>>
        /\ proc.mem = snap[proc.id]
    BY <1>1 DEF restore_done, Running
  <2> QED BY <2>1 DEF Restoring
<1>2. CASE ~restore_done
  <2>1. /\ undone' = undone /\ undone # NoCycle /\ undone \in Cycle
        /\ \/ \E a \in Action : run_restore_action(a)
           \/ reboot \/ system_upgrade \/ install_guest \/ undefine_leftover
    BY <1>2, UndoneChanges DEF TypeOK
  <2>2. UNCHANGED snap
    BY <2>1 DEF run_restore_action, reboot, system_upgrade, install_guest, undefine_leftover
  <2>3. snap[undone] # NoManifest /\ WellFormed(snap[undone]) /\ todo \subseteq snap[undone].actions
    BY <2>1 DEF Undoing, Manifests
  <2>4. live[f] = snap[undone].pre[f]
    BY <2>1, <2>2 DEF HooksUndone
  <2>5. ASSUME NEW a \in Action, run_restore_action(a) PROVE live'[f] = live[f]
    <3>1. CASE a = "rmhooks" /\ f = "hook"
      <4>1. live["hook"] = "none"
        BY <2>1, <2>3, <2>4, <2>5, <3>1 DEF run_restore_action, WellFormed, HooksUndone
      <4> QED BY <2>5, <3>1, <4>1 DEF run_restore_action, TypeOK
    <3>2. CASE ~(a = "rmhooks" /\ f = "hook")
      BY <2>5, <3>2 DEF run_restore_action, TypeOK
    <3> QED BY <3>1, <3>2
  <2>6. CASE install_guest
    <3>1. f # "disk"
      BY <2>2, <2>3, <2>4, <2>1, <2>6 DEF install_guest, WellFormed, Touched, BootFiles
    <3> QED BY <2>1, <2>2, <2>4, <2>6, <3>1 DEF install_guest, TypeOK
  <2>7. CASE reboot \/ system_upgrade \/ undefine_leftover
    BY <2>1, <2>2, <2>4, <2>7 DEF reboot, system_upgrade, undefine_leftover
  <2> QED BY <2>1, <2>2, <2>4, <2>5, <2>6, <2>7
<1> QED BY <1>1, <1>2

\* The part of the invariant that needs the scripts to be Virtu's own.
LEMMA HooksNext ==
  ASSUME TypeOK, TypeOK', Running, Manifests, Progress, Restoring, Undoing, HooksUndone, Next
  PROVE  HooksUndone'
<1> SUFFICES ASSUME HooksOwn PROVE HooksUndone'
  BY DEF HooksUndone, HooksOwn
<1>1. \A c \in Cycle : snap'[c] # NoManifest /\ HasHook => snap'[c].pre["hook"] = "none"
  BY NoScriptCaptured
<1>2. HasHook /\ pending' = NoCycle /\ live'["disk"] = "none" => live'["hook"] = "none"
  BY HooksBeforeDisk
<1>3. undone' # NoCycle =>
        \A f \in File : snap'[undone'].pre[f] # "unseen" => live'[f] = snap'[undone'].pre[f]
  BY FilesStayRestored
<1> QED BY <1>1, <1>2, <1>3 DEF HooksUndone

-----------------------------------------------------------------------------
(* Theorems *)

\* A host on which Virtu has not run satisfies the invariant.
LEMMA InitInv == ASSUME Init PROVE IInv
<1> USE StepSets
<1>1. /\ proc = Idle /\ proc.pc = "idle" /\ proc.made = FALSE /\ proc.left = {} /\ snap = [c \in Cycle |-> NoManifest]
      /\ domain = NoCycle /\ undone = NoCycle /\ pending = NoCycle
  BY DEF Init, Idle
<1>2. /\ CreateDisk => live["disk"] = "none"
      /\ ~CreateDisk => live["disk"] = "guest"
      /\ "hook" \notin Existing => live["hook"] = "none"
  BY LifecycleAssumption DEF Init, File
<1>3. Running
  BY <1>1 DEF Running, HookSteps
<1>4. Manifests /\ DomainKnown /\ Progress /\ Restoring /\ Undoing /\ Staging /\ DomainUndoable
  BY <1>1 DEF Manifests, DomainKnown, Progress, Restoring, Undoing, Staging,
     DomainUndoable, AfterXml, AfterDisk, AfterDefine
<1>5. HooksUndone
  BY <1>1, <1>2 DEF HooksUndone, HooksOwn
<1>6. DiskTracked /\ GuestDiskKept
  BY <1>2 DEF DiskTracked, GuestDiskKept
<1> QED BY <1>3, <1>4, <1>5, <1>6 DEF IInv

\* Every step preserves the invariant.
LEMMA NextInv == ASSUME TypeOK, TypeOK', IInv, [Next]_vars PROVE IInv'
<1>1. CASE Next
  BY <1>1, RunningNext, ManifestsNext, DomainNext, ProgressNext, RestoringNext, UndoingNext, HooksNext,
     StagingNext, DiskNext DEF IInv
<1>2. CASE UNCHANGED vars
  BY <1>2 DEF vars, artifacts, history, IInv, Running, Manifests, WellFormed, DomainKnown, Progress, Restoring,
     Undoing, HooksUndone, Staging, DiskTracked, GuestDiskKept, DomainUndoable, Cmdline, Initramfs
<1> QED BY <1>1, <1>2

\* The types and the inductive invariant hold in every state of the life of a host.
THEOREM Invariance == Spec => [](TypeOK /\ IInv)
<1>1. Init => TypeOK /\ IInv
  BY InitType, InitInv
<1>2. TypeOK /\ IInv /\ [Next]_vars => (TypeOK /\ IInv)'
  BY NextType, NextInv DEF IInv
<1> QED BY <1>1, <1>2, PTL DEF Spec

\* All variables have their types, whatever is killed, retried or rolled back.
THEOREM TypeCorrect == Spec => []TypeOK
BY Invariance, PTL

\* pending.toml is written only when boot menu and initramfs carry Phase A, so that
\* the resume after the next boot finds it landed (execute_phase_a).
THEOREM PendingMeansStagedAlways == Spec => PendingMeansStaged
<1>1. ASSUME TypeOK, IInv, [Next]_vars, pending' # NoCycle, pending' # pending
      PROVE  grubcfg = "virtu" /\ image = "virtu"
  <2>1. Next
    BY <1>1 DEF vars
  <2>2. write_pending
    BY <1>1, <2>1, PendingChanges DEF clear_pending
  <2> QED BY <1>1, <2>2 DEF write_pending, IInv, Staging
<1>2. TypeOK /\ IInv /\ [Next]_vars =>
        [pending' # NoCycle /\ pending' # pending => grubcfg = "virtu" /\ image = "virtu"]_vars
  BY <1>1
<1> QED BY <1>2, Invariance, PTL DEF Spec, PendingMeansStaged

\* A disk image Virtu made is always in a manifest that a rollback can use
\* (run_vm_register_step in engine/executor.rs).
THEOREM DiskTrackedAlways == Spec => []DiskTracked
<1>1. IInv => DiskTracked
  BY DEF IInv
<1> QED BY <1>1, Invariance, PTL

\* An existing disk image is never removed or overwritten, by whatever sequence of
\* applies, failed resumes and rollbacks.
THEOREM GuestDiskKeptAlways == Spec => []GuestDiskKept
<1>1. IInv => GuestDiskKept
  BY DEF IInv
<1> QED BY <1>1, Invariance, PTL

\* A registered domain can be undone from its manifest, but for the one window
\* between virsh define and its record.
THEOREM DomainUndoableAlways == Spec => []DomainUndoable
<1>1. IInv => DomainUndoable
  BY DEF IInv
<1> QED BY <1>1, Invariance, PTL

\* pending.toml is removed only from a host on which everything Phase B promises
\* is in place (execute_phase_b, then run_resume removes it).
THEOREM CompleteMeansInstalledAlways == Spec => CompleteMeansInstalled
<1>1. ASSUME TypeOK, IInv, [Next]_vars, pending # NoCycle, pending' = NoCycle
      PROVE  /\ domain = pending
             /\ live["xml"] = "virtu" /\ live["disk"] # "none"
             /\ HasHook => live["hook"] = "virtu" /\ exec
  <2> USE StepSets
  <2>1. Next
    BY <1>1 DEF vars
  <2>2. ~write_pending
    BY <1>1, LifecycleAssumption DEF write_pending, IInv, Running
  <2>3. clear_pending
    BY <1>1, <2>1, <2>2, PendingChanges
  <2>4. proc.pc = "clear" /\ proc.id = pending
    BY <1>1, <2>3 DEF clear_pending, IInv, Running
  <2> QED BY <1>1, <2>4 DEF IInv, Progress, GuestDiskKept, AfterXml, AfterDisk, AfterDefine
<1>2. TypeOK /\ IInv /\ [Next]_vars =>
        [pending # NoCycle /\ pending' = NoCycle =>
           /\ domain = pending
           /\ live["xml"] = "virtu" /\ live["disk"] # "none"
           /\ HasHook => live["hook"] = "virtu" /\ exec]_vars
  BY <1>1
<1> QED BY <1>2, Invariance, PTL DEF Spec, CompleteMeansInstalled

\* After a rollback and the actions it lists the host is as captured and has booted
\* what the captured files configure, and the cycle's domain is gone unless its
\* record was torn; on a host whose scripts are Virtu's own (rollback_to in
\* snapshot/mod.rs, derive_restore_actions in engine/executor.rs).
THEOREM HostRestoredAlways == ASSUME HooksOwn PROVE Spec => []HostRestored
<1>1. TypeOK /\ IInv => HostRestored
  <2> SUFFICES ASSUME TypeOK, IInv, undone # NoCycle, todo = {}, proc.pc = "idle"
               PROVE  /\ \A f \in File : snap[undone].pre[f] # "unseen" => live[f] = snap[undone].pre[f]
                      /\ kernel = [cmdline |-> Cmdline(snap[undone].pre), image |-> Initramfs(snap[undone].pre)]
                      /\ domain = undone => undone \in torn
    BY DEF HostRestored
  <2>1. \A f \in File : snap[undone].pre[f] # "unseen" => live[f] = snap[undone].pre[f]
    BY DEF IInv, HooksUndone
  <2>2. /\ kernel = [cmdline |-> Cmdline(live), image |-> Initramfs(live)]
        /\ domain = undone => undone \in torn
        /\ snap[undone] # NoManifest
    BY DEF IInv, Undoing
  <2>3. \A f \in BootFiles : live[f] = snap[undone].pre[f]
    BY <2>1, <2>2 DEF IInv, Manifests, WellFormed, Touched, File, TypeOK
  <2>4. Cmdline(snap[undone].pre) = Cmdline(live) /\ Initramfs(snap[undone].pre) = Initramfs(live)
    BY <2>3 DEF Cmdline, Initramfs, BootFiles
  <2> QED BY <2>1, <2>2, <2>4
<1> QED BY <1>1, Invariance, PTL
=============================================================================
