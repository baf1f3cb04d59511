# A TLA+ model of Virtu

Virtu prepares a Linux host for GPU passthrough: it edits the boot
configuration, waits for a reboot, installs hook scripts, writes a libvirt
domain and registers it, and it promises that every change can be rolled back.
This directory models the part of Virtu on which that promise rests, the
decisions it takes about a host, its wizard and the hook scripts it generates;
checks them with TLC, and proves with TLAPS the central guarantees of the
transaction engine, of the life of a host, of the decisions, of the wizard and of
the scripts. Paths below are relative to the repository's `src/` directory.

## 1. Inventory

| Component | State it keeps | Operations | Correct when |
|---|---|---|---|
| snapshot engine, `snapshot/mod.rs` | `~/.virtu/snapshots/<id>/files/*`, `manifest.toml` | `capture`, `restore`, `rollback_to` | a manifest on disk always describes a complete and intact baseline; a rollback puts every entry back |
| manifest, `snapshot/manifest.rs` | entries (pre/post hash, existed?), restore actions | `push_entry`, `record_post_edit_hash` | a baseline is never rewritten, also by several resumes |
| pending record, `snapshot/pending.rs` | `~/.virtu/state/pending.toml` | written by Phase A, read by resume, removed by Phase B | names only a run that Phase A finished |
| hash-guarded write, `config/atomic_write.rs` | - | `snapshot_then_write`, `declare_created_entry` | nobody's bytes are lost |
| file system layer, `snapshot/fs.rs` | the host's files | `write_atomic`, `remove_file`, `set_executable` | atomic replacement |
| executor, `engine/executor.rs` | in-memory manifest of the running command | `execute_phase_a`, `execute_phase_b` and their steps | every effect is recorded so that it can be undone, and an interrupted phase can be retried |
| resume verifier, `engine/resume.rs` | - | `verify_phase_a_landed`, `verify_hook_install` | Phase B runs only on a kernel that carries Phase A's edits |
| host commands, `config/writers/commands.rs` | boot menu, initramfs, disk image, libvirt domains | `grub-mkconfig`, `mkinitcpio` etc., `qemu-img`, `virsh` | failures leave a state rollback can handle |
| command line, `main.rs`, `cli.rs` | - | `apply`, `resume`, `rollback`, `scan`, `plan`, `status`, `wizard` | refuses what would clash with a pending plan |
| planner, `engine/planner.rs`, `engine/step.rs` | - | `plan` | every path a step writes is among its touches; order of the steps |
| validation, `vm/validation.rs`; choices, `vm/passthrough.rs` | - | `validate`, `recommended_defaults` | a plan that passes can be executed |
| compatibility, `engine/compatibility.rs` | - | `build_compatibility_report` | blockers block |
| writers, `config/writers/{grub,systemd_boot,vfio_modprobe,initramfs/*}.rs` | - | pure text rewriting | idempotent, loses nothing |
| hook scripts, `config/writers/hooks.rs` | display manager, driver bindings | generated dispatcher, `release` and `reattach`, called by libvirt | guest and desktop never share the GPU; the display comes back, or the user is told how |
| domain XML, `engine/vm_xml.rs`, `vm/xml`, `vm/profile.rs`, `vm/cpu_topology.rs` | - | `vm_view`, `calculate_pinning`, rendering | libvirt accepts the domain; no core is split between guest and host |
| wizard, `tui` | current screen, choices, configuration, preview | key events | what is confirmed is what was shown, and is valid |
| detection, `detect` | - | `scan_system` | what it calls isolated can be passed through |
| knowledge base, `kb`, `engine/diagnostics.rs`; `packaging` | - | tables | - |

How they interact: `virtu apply --phase a --confirm` refuses while
`pending.toml` exists, plans, captures, writes the boot files through
`snapshot_then_write`, runs the regenerate commands, persists the manifest and
writes `pending.toml` last. After the reboot `virtu resume` reads the record,
verifies the running kernel, and walks the remaining steps with the manifest it
reads from disk, persisting it after each; the record is removed at the very
end. `virtu rollback --to <id>` restores the entries of a manifest and prints
the actions the user has to carry out. Invocations share nothing but files, and
there is no lock.

What is hard: several invocations and other programs change the same files;
any invocation may be killed, or return an error, between any two steps, and the
code undoes nothing on error paths but one; a resume is retried on whatever an
earlier attempt left; effects outside the manifest (boot menu, initramfs,
libvirt, disk image, mode bits) have to be undone as well; a plan is made, a
reboot later verified and then carried out by different parts of the code that
must agree on order and spelling; libvirt calls the hook scripts for every
domain, and each of their commands may fail while the screen is dark. The list, with lines,
is under `hazards` in `PROJECT.json`.

## 2. Modules

| Module | Models |
|---|---|
| `Snapshot` | the transaction engine under concurrency: captures, guarded writes, persists, resumes, rollbacks, crashes, foreign edits |
| `MC_Snapshot` | small hosts and plans for it |
| `Recoverable` | the promise of the engine without its mechanism: notes, kept notes, writes, restores, record |
| `SnapshotProofs` | theorems about `Snapshot` for all values of its constants |
| `RecoverableProofs` | the proof that `Snapshot` implements `Recoverable` |
| `Lifecycle` | apply, reboot, resume, rollback, used one at a time, with everything outside the manifest: boot menu, initramfs, running kernel, disk image, domain, executable bit, post-restore actions |
| `MC_Lifecycle` | symmetry for it |
| `LifecycleProofs` | theorems about `Lifecycle` |
| `Detection` | operators: what a scan makes of a machine's PCI functions, IOMMU groups, connectors, processors and domains |
| `Decisions` | operators: compatibility report, recommendation, validation, plan, view, pinning and XML of a scanned host |
| `Planner` | a setup from scan to registered VM: choices, writers, next boot, verifier, Phase B, a change of cards |
| `Wizard` | the screens of `virtu wizard` and their events |
| `HookScripts` | the hand-over of the only GPU when libvirt starts and stops the VM |
| `DecisionProofs` | lemmas about the operators of `Detection` and `Decisions`, for the next two |
| `PlannerProofs`, `WizardProofs`, `HookProofs` | theorems about the three |
| `HostCatalog`, `MC_Planner`, `MC_Wizard`, `MC_HookScripts` | machines, sets of hosts and cards for them |

`Snapshot` instantiates `Recoverable`; `Planner` and `Wizard` both extend
`Decisions`, which extends `Detection`.

The first two specifications split the same code at a different seam. `Snapshot` keeps
every interleaving and has arbitrary plans but knows only files; `Lifecycle`
fixes the plan's shape and runs commands one at a time but knows the host. A
write with its check is two steps in the first and one in the second.

### Snapshot

A run is one `virtu apply`, and its snapshot id is the run itself. Processes
(`Proc`) are the applies and the slots of `Resume`: a resume takes a free slot,
notes in `job` the run that `pending.toml` names at that moment, and frees the
slot when it ends, so that any number of resumes can follow each other and as many
as there are slots can work on one record at a time, each with its own copy of the
manifest. `live` are the host's files, `backup[r]` and `disk[r]` the snapshot
directory, `pending` the record; `pc`, `job`, `k`, `mem`, `buf` are the processes
and `rb` the rollback invocations, each of which may be repeated. Contents are
abstract; a hash is represented by the content it belongs to, which assumes
SHA-256 without collisions. Each action is one system call that others can
observe: `capture_one`, `execute_snapshot_step` (the manifest is written),
`read_target`, `pre_edit_check`, `snapshot_then_write` (the rename),
`persist_manifest`, `write_pending`, `run_resume`, `execute_phase_b`,
`write_manifest`, `clear_pending`, `restore_entry`. `stop` ends a process after
any of them. A writer is an arbitrary function of the content it read
(`Rewrite`). `user_edit` is everybody else.

`user`, `blind` and `dirty` are history variables. They record what someone last
left at a path, whether that edit came where the code has no check, and which
paths a rollback is not answerable for.

`PlanAssumption` states what the engine relies on: each path a step writes is
among the plan's touches (true of every step the planner builds, which is why
`declare_created_entry` never adds an entry), and the touched paths have
different sanitized names.

### Recoverable

The abstract specification has no directories, hashes, processes or crashes. A
run notes contents (`Observe`), keeps its notes for good (`Keep`) or loses them
(`Abandon`); only with kept notes may it write, and only files it has notes of
(`Write`); a rollback puts a file back to the kept note (`Restore`); the record
names a run only when all of its staged files are marked (`Announce`). A later
`Mark` may leave out files of Phase B that an earlier one had, never a staged one:
two resumes of one record do that to each other. Changes by
others are counted (`others`), so that a write of Virtu cannot pass for one.
`ImplementsRecoverable` says that `Snapshot` implements it: notes are the
entries in memory until `manifest.toml` is on disk and the entries on disk from
then on. Captures spread over time, crashes, retries, the re-reading of the
manifest by a resume and the copy a rollback works from all have to map to
single abstract steps or to none.

### Lifecycle

Contents are `none`, `orig`, `virtu` (what Virtu writes) and `guest` (a disk
with a guest on it). The three hook scripts are one file `hook`, with their
executable bit in `exec`. `grubcfg` and `image` are the generated artifacts and
`kernel` what was booted. `PhaseA` and `PhaseB` give, for each step of the
two loops, the step that follows it, at the granularity of what a kill can
separate; `proc` is the running command, one at a time. Two resumes side by side
are `Snapshot`'s subject; what they would do to each other's restore actions is not
modelled: the actions are persisted with the same copies as the post-edit hashes, so
one resume can drop the action that undefines the domain of the other, just as it
drops a hash. `HasHook` selects the single-GPU plan, `CreateDisk` the
disk choice, `Existing` what was on the host before.

External programs: `grub-mkconfig` and the initramfs tools turn configuration
into artifacts; `qemu-img create` overwrites what is at the path; `virsh define`
refuses a second UUID for a name it already has (the knowledge base lists the
message, and every rendering of the XML has a fresh UUID, `vm/xml/mod.rs:63`);
a module reload may leave the device with either driver. A host with GRUB and an
IOMMU enabled in the firmware is assumed, and a process that may write the
files. Every cycle uses the same VM name: `default_vm_name`
(`vm/passthrough.rs`) avoids the names that detection found, but a failing
`virsh list` yields an empty list (`detect/readiness.rs:278-298`), so the name
may be taken; a cycle that gets another name does not meet these hazards. The
command line always plans `DiskChoice::Create`; an existing disk is chosen by
callers of the library.

### Detection and Decisions

A machine is a record of what the parsers of `/proc`, `/sys` and command output
read (`Detection` lists the fields), and `scan_system` fills in the profile: GPUs
in slot order with their kind, companion sound function, group and isolation,
connectors in the order of `monitors.rs`, the threads of each core, the domains,
none if `virsh list` fails. The pure functions of the code are operators with its
names. PCI ids are numbers ordered like their strings; a kernel parameter is a
key, and `vfio-pci.ids` also has its list. The substring test on the command line
is a prefix test on the list: ids have a fixed width and the token has no
terminator, so a longer list that starts with the wanted one matches. Of the
validation errors those about audio, network, input and ISO are one (`devices`),
and there is one role per GPU. Of the XML only what libvirt or the host depends
on is kept: name, vCPUs, topology, pinning, host devices.

### Planner

A machine of `Hosts` is scanned, a configuration is chosen
(`recommended_defaults`, or with `Edits` any roles, mode, monitor plan and vCPUs,
as the wizard and callers of the library can), validated and planned; the Phase A
writers change `files`; the regenerate commands make `grubcfg` and `image` of
them; `reboot` makes the host that the next scan finds; `run_resume` verifies it,
and Phase B runs to `done` or `failed`. After a failure the code stops and leaves
the rest to rollback, which is `Lifecycle`'s subject. When the host has a `spare`
card, `swap_card` lets the user replace the card and set up again on what the
first setup left in the boot configuration. External: `vfio-pci` takes what the
last `vfio-pci.ids` names, and without one what the snippet in the image names,
if its module is in the image; libvirt refuses a name it has, and a topology that
does not multiply to the number of vCPUs.

### Wizard

The profile is scanned before the first screen. `choices` is the choice screen
with its highlighted field, `config` the working configuration, `preview` what
the preview was built from. One action is one event on one screen: `move` and
`edit` change the choices and commit them, `enter_preview` commits once more and
builds a new preview, `back` drops it, `scroll`, `confirm`, `quit`. Events that a
screen ignores, resizing and drawing are left out. The errors of a preview are the
set of their ids, so two errors of one id count as one line of the scrolled list;
`PlanFailed` is left out because validation has refused first whatever `plan` would
(a blocked host, its own errors).

### HookScripts

A script is a sequence of commands, each with or without `|| true`; libvirt
starts one through `dispatcher`, for the VM and for another domain. `run_command`
takes its first command, `ignore_failure` and `recovery_trap` are the two ways in
which it can fail under `set -eu`. `sys` is what the scripts work on: running
services, loaded modules, vfio-pci's id table, the driver of each device.
`Faults` lets any command fail except `remove_id`, which fails only where the
kernel refuses it. External, from the documentation of the interfaces the scripts
use: `new_id` refuses an id that is there and takes devices without a driver,
`remove_id` refuses an id that is not there and lets no device go, a module in
use cannot be removed; libvirt moves managed devices to vfio-pci and hands back
those it moved, and it calls `release/end` also for a start that failed in
`prepare/begin`. `Claimed` tells whether vfio-pci has the devices since the boot,
which is what Phase A arranges.

## 3. Runs

| Run | Result | Shows |
|---|---|---|
| `snapshot_solo` | pass | one plan over three files, two resumes of its record at a time, a foreign edit, repeated rollbacks, crashes and retries: baselines intact and frozen, the record durable, no bytes lost, rollback complete |
| `snapshot_duo` | pass | the same for two concurrent plans over the same files, which race for `pending.toml`; and the engine implements `Recoverable` |
| `lifecycle_setup` | pass | single GPU, new disk, two cycles: a record exists only of a Phase A that the next boot carries, disk and domain can be undone, completion means installed, rollback restores the host |
| `lifecycle_dual` | pass | existing disk and an older XML, two cycles: rollback restores the host, the user's disk is never touched |
| `lifecycle_retry` | pass | persistent resuming ends, on a host without earlier scripts or XML, if leftover domains are undefined |
| `lifecycle_redefine` | violation | without that help, an attempt cut short after `virsh define` blocks every later one |
| `lifecycle_overwrite` | violation | a retry runs `qemu-img create` over an existing image |
| `planner` | pass | some 1200 machines with GRUB and every choice: what is accepted fails for six known reasons only, Phase A lands, other GPUs keep their driver, the guest's IOMMU groups are free, pinning splits no core, planning again finds nothing to do, the recommendation is refused only where every setup of discrete GPUs is; also after a change of cards |
| `planner_systemd_boot` | violation | on systemd-boot, Phase A edits a file that no boot reads |
| `wizard` | pass | all sequences of events on 211 hosts: the preview is never stale, roles follow the mode, what is confirmed is valid, renders, and leaves the host a thread, memory, and 4 GiB wherever the guest has more than 2 |
| `hooks` | pass | five cards, any command failing, other domains, reboots: guest and display manager never share the GPU, no leftover id refuses the next start, the display returns or the user is told |
| `hooks_native` | violation | after a clean shutdown the GPU stays on vfio-pci |

Every violation is a disagreement between the code and a sentence in the
repository; `findings` in `PROJECT.json` quotes both. Further disagreements were
met and have no run of their own:

- `snapshot_then_write` accepts whatever is at a path that did not exist at
  capture, and checks in a step before the rename; its comment
  (`config/atomic_write.rs:38-40`) says a changed file is refused. `UserBytesKept`
  states what is left of the promise: `blind` marks exactly these edits.
- Two resumes of one record each persist the manifest they loaded
  (`engine/executor.rs:679`, `889`): the one that loaded first takes back the
  post-edit hash the other has recorded for a file of Phase B, although a missing hash
  "means the writer for this entry has not run yet" (`snapshot/manifest.rs:88-89`).
  Nothing that restores a file depends on these hashes. `BaselineFrozen` states what
  is never lost: the baseline, and the hashes of Phase A.
- When scripts existed before, an attempt cut short after writing them makes
  every later resume fail on the hash check, although "re-running this step is
  safe" (`engine/executor.rs:1117-1119`); hence `lifecycle_retry` has none.
- `rollback` leaves `pending.toml`, so it does not "abort" the plan (`main.rs:105`):
  `apply` stays refused, and after apply, reboot and rollback a `resume` finds Phase A
  on the running kernel and goes on with Phase B of the plan that is rolled back.
  Once the listed actions are carried out and the host is rebooted the verifier
  refuses it.
- The error of a failed `qemu-img create` says "rollback already cleaned up the
  partial image" (`engine/executor.rs:550`; the step returns at once), and that
  of a failed `virsh define` says the image "has been left on disk for
  inspection" (line 559; lines 990-991 have just removed it).
- rEFInd and Syslinux are planned and fail in Phase A, EFISTUB gets no bootloader
  step and never becomes ready; `README.md:84` says the planner refuses them.
- `run_grub_mkconfig` runs a fixed command, so hosts that call it `grub2-mkconfig`
  fail; its comment (`config/writers/commands.rs:118-124`) speaks of detection's.
- With hook scripts from before, rollback restores them and then lists an action
  that removes exactly these paths (`snapshot/manifest.rs:159`); the planner says
  it will "restore the previous /etc/libvirt/hooks layout" (`engine/planner.rs:460`).
  `lifecycle_setup` has none; with `Existing = {"hook"}` it violates `HostRestored`, whose
  theorem therefore assumes `HooksOwn`.
- The hook step is planned for every single-GPU configuration, but validation
  looks at the display manager only for `HookHandoff`: a host without a known one
  gets through Phase A and fails in Phase B. `README.md:83` says "the planner
  refuses unknown DMs at plan time" and calls `SwitchInputs` the workaround.
- `vfio-pci.ids` names a model: of two equal cards the host's is claimed as well
  ("Stays bound to the host driver", `vm/passthrough.rs:144`). With such a pair
  `planner` violates `HostGpuKept`.
- A group with two cards, or with the sound device of another slot, counts as "safe
  for GPU passthrough" (`detect/iommu.rs:189-191`) although only one card and its
  companion are bound. With both cards of a pair in one group `planner` violates
  `GroupViable`, whose theorem therefore assumes `PlainCards`.
- Processors with cores of both kinds are recommended a number of vCPUs that may
  be odd (8 + 16 cores: 31), which libvirt refuses for two threads per core; and
  whole cores of both kinds yield fewer pins than vCPUs.
- The parameter line keeps the `vfio-pci.ids` of every card it has seen. A change
  from card A to B lands (`planner`); one back to A finds its token there, but
  not last, and never lands.
- The wizard prints `virtu apply`, which starts again from
  `recommended_defaults`: what was confirmed is not what is applied
  (`tui/mod.rs:139`, `main.rs:113-123`).
- Without any edit, Enter on the choice screen replaces the recommended roles in
  dual-GPU mode by the first two discrete cards, isolated or not
  (`tui/screens/choices.rs:440-460`), and `LookingGlassOnly` by `SwitchInputs`.
  In single-GPU mode the card of the earlier mode is kept, where the comment
  (lines 394-396) prefers the first discrete one.
- "Virtu reserves at least 4 GiB for the host" (`tui/screens/choices.rs:128`): the
  minimum of 2 GiB for the guest is clamped last, so on a host with 5 GiB one step in
  the memory field takes the recommended 1 GiB to 2 GiB, which can be confirmed.
  `ReserveKept` states what holds on every host.
- Phase A binds the only GPU to vfio-pci at every boot, while
  `tests/HARDWARE_MATRIX.md:136-137` expects it on its native driver. The first
  start after a boot then fails at `new_id`, which refuses the id; libvirt's
  clean-up call of reattach removes the ids, and the second start gets further.
- Of an AMD card on `radeon` the driver is removed and `amdgpu` loaded instead;
  of a card of unknown vendor nothing is removed, and libvirt moves it.
- `<rom file>` names a file under `/var/lib/libvirt/vbios` that nothing creates
  (`vm/xml/devices/gpu_hostdev.rs:22-27`).
- Two host GPUs make `derived_mode` return `None`; validation then compares no
  mode, and unless Looking Glass is on accepts what the XML generator refuses. In
  the wizard this takes two integrated GPUs, which iGPU mode both keeps for the
  host; hence the hypothesis of `ConfirmedRendersAlways`.
- Two integrated GPUs (every Intel GPU counts as one) are recommended as
  `DualGpu`, while the roles imply `IgpuHost`: `apply` is always refused.
- On hosts with one or two threads the recommended processor count is refused,
  against the comment in `recommend_vcpu_count`.

`KnownFailures` lists the ways in which an accepted plan fails; the point of the
run is that there are no others.

Bounds. `snapshot_solo`: one run, three files of the three kinds the executor
writes (rewritten in place, generated in Phase A, generated in Phase B), three
contents, two resumes at a time (the hazard is one between load and persist of the
other) and any number one after the other, one rollback at a time, which may be
repeated, one edit.
`snapshot_duo`: two runs and one resume at a time, because the hazards are
pairwise (a write of one between check and write of the other, one removing the
other's record), over one file of each phase. The theorems remove these bounds.
`Lifecycle` has two cycles, so that the baseline of an apply can be what an
earlier cycle or its rollback left; the runs that ask whether a single sentence
is true have one. The temporal runs have one cycle and no rollback, since a
rollback is a decision not to finish. Deadlock is not checked in `Snapshot`,
`Planner` and `Wizard`, where all commands may have ended; `Lifecycle` and
`HookScripts` never deadlock.
`planner` has all layouts of up to three GPUs with at most one integrated
(isolation, boot card and kind of each; roles are decided pairwise and the third
GPU is the one left over), a display adapter of another vendor, six arrangements
of monitors, five of the user's own parameters, the three initramfs systems,
processors of one to sixteen cores with one thread, two or both, and of two
packages, one change of cards, and resources at and around the code's limits (no
RAM known, just the reserve, one to eight threads, names taken). Hosts on which
accepted plans fail (rEFInd, `grub2-mkconfig`, no display manager, a `virsh list`
that fails) are among them. Systemd-boot has a run of its own; EFISTUB and cards
of one model are discussed above. `wizard` has the same layouts with little
memory and few threads, so that every step of both counters is reachable and both
ends are met. `hooks` needs no bound: its state is finite.

Fairness. `ResumeFinishes` (`Persistence`): the user reboots and calls
`virtu resume` again, and no step fails in every attempt, hence strong fairness
for the steps of a resume. That is what the code's own messages ask of the user;
the program itself schedules nothing. `DisplayReturns` (`Fairness`): a shell goes
on with its script and libvirt goes on once its hook has ended, weak fairness of
each; which of a command's outcomes occurs is left open, and nobody has to start
or stop a guest, reboot or follow the instructions.

## 4. Proofs

`SnapshotProofs` proves, for any sets of files, contents, plans, runs, resumes at a
time (of one record or several) and rollbacks, any writer functions and any number of
edits: `TypeOK`,
`UserBytesKept`, `BaselineIntact`, `PendingIsDurable`, `RollbackComplete` and
`BaselineFrozen`. The only assumption is `PlanAssumption`.

None of the properties is inductive. `IInv` adds what ties a process's memory to
the disk:

- `MemoryMatchesDisk`: once capture is committed, the entries of every process that
  works for the run are those on disk. Everything else depends on it, because
  persists write memory back.
- `CaptureProgress`, `EntriesComplete`: entries exist for the paths capture has
  passed, hence for all of them once there is a manifest.
- `BackupsMatch`: an entry for a file that existed has a backup with its bytes,
  from the moment the entry exists; backup names do not collide.
- `WriteProgress`: the Phase A writes behind an apply have their post-edit hash in
  its memory, which gives `PendingIsDurable` at the persist; and every copy of a
  manifest that a resume holds or will load has all hashes of Phase A, so that
  resumes which overwrite each other's copies lose none of them. They do lose each
  other's hashes of Phase B (section 3), hence `BaselineFrozen` speaks of the
  baseline and of Phase A.
- `CheckedIsKept`: between check and rename, the bytes at the target are in a
  committed snapshot, or were edited in that window (and are `blind`).
- `UnguardedIsSafe`: where an entry says that a file did not exist, what a
  person left there was either nothing, or came in later unseen.
- `RollbackMatchesDisk`: a running rollback's entries are those on disk.

The main argument for `UserBytesKept` is that a rename only replaces bytes that
the check found equal to the captured ones, which are in a committed snapshot,
and that committed baselines and backups never change (`Frozen`, `KeptStable`).
`NextInv` has a lemma for each group of conjuncts and kind of step.

### Refinement

`RecoverableProofs` proves `ImplementsRecoverable` for the same constants. `Note`,
`KeptRuns` and `Marked` are the expressions that `Snapshot` substitutes for the
variables of `Recoverable`. There is one lemma per step of the engine that the
promise speaks of (`capture_one` is `Observe`, the first manifest `Keep`, the
rename `Write`, `restore_entry` `Restore`, `write_pending` `Announce`, a persist
`Mark`, a stop before the manifest `Abandon`, a foreign edit `Outside`, removal of
the record `Clear`), and one for all the others, which stutter. The guards come from
the inductive invariant: `MemoryMatchesDisk` (a writing process is committed) with
`PlanAssumption` (a written path is touched) gives that of `Write`,
`CaptureProgress` that of `Keep`, `WriteProgress` that of `Announce`,
`RollbackMatchesDisk` that of `Restore`. `MemoryMatchesDisk` is also what makes a
persist harmless: it writes back the entries that are there, with all the marks of
Phase A (`WriteProgress`), whichever resume's copy it is. One part is new,
`CaptureUnmarked`: before its manifest is on disk a run has marked nothing.

### Lifecycle

`LifecycleProofs` proves for any set of cycles, plans with and without hooks, new
and existing disks and any files from before: `TypeOK`, `DiskTracked`,
`DomainUndoable`, `GuestDiskKept` and the action properties `CompleteMeansInstalled`
and `PendingMeansStaged`; and, under `HooksOwn`, `HostRestored`. The properties
lean on each other, so they are parts of one inductive invariant, with:

- `Running`: a command's manifest is the one on disk, `pending.toml` names the
  resume's cycle and nobody during an apply, and a disk is made only where it
  may be.
- `Manifests`: each manifest on disk has an entry for every touched file, none
  of a disk that is to be created, and the actions that undo Phase A.
- `DomainKnown`: the registered domain belongs to a cycle with a manifest.
- `Staging`: the files that Phase A has passed are Virtu's, and then the boot menu
  and the initramfs that are made of them. `PendingMeansStaged` is this at the
  write of the record.
- `Progress`: the scripts, XML, disk and domain that Phase B has passed are in
  place. `CompleteMeansInstalled` is this at the last step.
- `Restoring`, `Undoing`: the entries that a rollback has passed are restored;
  after it, and until the next command, each listed action that is no longer on
  the list has had its effect, in spite of reboots in between. `HostRestored` is
  `Undoing` with an empty list.
- `HooksUndone`: under `HooksOwn` no manifest ever captures a script.

`HooksOwn` says that a plan with hooks starts on a host without scripts and makes
its own disk. It cannot be dropped: scripts from before are restored by the
rollback and then removed by the action it lists (section 3). With an existing
disk, a second cycle meets the same through the scripts of the first; with a new
one it is refused while the disk of the first is there.

### HookScripts

`HookProofs` proves `TypeOK`, `DisplayReleased` and `NextStartUnblocked` for any
set of cards, for both values of `Claimed` and any failing commands. Both
properties hold because of the order of the commands, so `ScriptOf` relates what is left of
a script to the state: in the release hook the display manager is stopped unless
no command has run yet or the start has failed; in the reattach hook the ids
already removed are out of the table, and only then come modules and services. A
failed script is dropped, and the invariant has to hold at every cut: libvirt
starts the guest only after a release that ended well.

### Decisions

`DecisionProofs` says what the operators compute for every machine. Lists come first.
The provers cannot use the library's induction theorems, whose parameter is a
predicate, so facts about lists are proved from the least number for which they
fail (`LeastNumber`):

- `SortedList`, `FilteredList`: `Ascending` lists a finite set in order, each element
  once, and `Filtered` the part of a list at some positions. `Ranks` is behind both:
  in a finite linear order each element has its own number of predecessors.
- `Flattened`: `FlattenSeq` is the concatenation. The fold is a function that a
  `CHOOSE` picks; `JoinsExists` shows that there is one.
  `JoinOK` says what the concatenation has: the elements of the parts, none twice
  if the parts are disjoint, and the sum of their lengths if they are equally long.
- `GpuList`, `MonitorList`, `CoreList`: what a scan finds. The cores partition the
  logical CPUs, and no core is empty.
- `IsolatedAt`, `Companion`, `AlikeAfterBoot`, `SameDecisions`: two scans of a machine
  that differ in drivers only find the same GPUs, and what depends on them
  (roles, mode, ids, isolation) is decided alike.
- `PassedIds`, `FreeName`, `Recommended`, `Accepted`, `PlanShape`: what validation
  guarantees of a configuration, and which steps a plan has, where and how often.

### Planner

`PlannerProofs` proves for any set of machines, so for any number of GPUs, groups,
monitors, processors, domains, parameters and changes of cards, with and without
edits of the choices: `TypeOK`, `KnownFailures`, `ReplanSatisfied`, `PinningSound` and
`RecommendationSuffices`. `PlannerAssumption` only says that they are machines
(`IsMachine`). The inductive invariant `IInv` has, besides `KnownFailures`:

- `HostInv`: the host is what a scan makes of it, and functions with one id have one
  driver, since drivers are bound by id.
- `ChoiceInv`: a configuration fits the GPUs of the host, also after the reboot.
- `PlanInv`: the plan is the one for this host and configuration, `Sound` holds of
  them (what validation has checked and the reboot does not change), the name is
  still free while the domain is to be registered, and from the record on `ids` are
  those that planning would compute now.

`KnownFailures` is not inductive alone because a failure of Phase B is excluded by
what validation saw before the reboot, on a host with other drivers. `ReplanSatisfied`
follows from what the verifier checked, with `LandedGpus`: the first GPU with an id
speaks for all. `PinningSound` and `RecommendationSuffices` are about one state;
their proofs are arithmetic on cores (`CoreShare`, `RecommendedShare`, `PartOf`) and a
comparison of the recommended with any other accepted assignment (`AssignmentFits`:
a GPU that is passed through is isolated, so the recommendation has one to choose).
`RecommendationSuffices` is about discrete GPUs and hosts with nothing on vfio-pci;
two integrated GPUs are a case it leaves out, and in which the recommendation is
refused although one of them could be passed through (section 3).

The other three properties need more of the host; without it they fail, as section 3
describes:

- `LandedMeansReady` for hosts that are `PlainBoot`: not systemd-boot (a finding) and
  not EFISTUB; at most one change of cards, because a card that comes back finds its
  `vfio-pci.ids` on the line but not last; and for the same reason a `vfio-pci.ids` of
  the user's that names cards of this host only is the last one, and no change of
  cards follows.
- `HostGpuKept` for hosts that are also `DistinctCards`: no other function has the id
  of a GPU.
- `GroupViable` for hosts that are `PlainBoot` and `PlainCards`: the functions of a slot
  share a group and hold one card (`OneCardPerSlot`), and GPUs and sound devices that
  share a group are functions of one card (`OneCardPerGroup`). That is how single cards
  behind ports of their own look; a board with two GPUs behind one slot number is not
  covered, and for two cards in one group the property fails (section 3).

All hosts of the run `planner` are of this kind (assumption `PlainHosts`, which TLC
evaluates), with failing boot loaders and the user's own ids among them. The argument
is `BootInv`, which follows the parameter line through a setup: before it is written
each `vfio-pci.ids` on it that could be taken for one of this host's cards is the last
(`Unwritten`); after it the wanted one is there and last (`Written`), be it appended or
found; after the boot exactly the functions with the passed ids are on vfio-pci
(`Bound`). A change of cards leads from `Written` back to `Unwritten`, because
the old entry does not name the new card. `DistinctInvariance` and `CardsInvariance` say
that cards stay so across boots and changes, and the two properties follow from
`Bound`: no other function has a GPU's id (`OwnId`), and in an isolated group nothing
but bridges is left beside the card and its companion.

### Wizard

`WizardProofs` proves `TypeOK`, `PreviewCurrent`, `RolesAligned`, `ReserveKept` for
any set of hosts, any number and kinds of GPUs, and `ConfirmedRenders` where each
host has at most one integrated GPU (`OneIntegrated`). The assumption on the
constant, `WizardAssumption`, says that a profile lists its GPUs and that memory,
threads and cores are numbers. The lemmas are about the operators of `Wizard`:

- `Alignment`: whatever roles it gets, `align_gpu_roles_to_mode` passes at most
  one GPU through, keeps for the host what the mode says, and changes nothing when
  it is applied again. `CommitTwice` is the consequence for the configuration: a
  preview that commits once more shows what the last edit committed.
- `AlignedMode`: the mode that aligned roles imply is the chosen one, or none.
- `PlanNotEmpty`, `ValidateFinite`: the list of the preview has an entry.
- `Reported`: when validation reports which of seven issues.

`ReserveKept` holds on every host because it says what the clamps do: the guest gets
what lies beyond the host's 4 GiB or its own minimum of 2 GiB, whichever is more, and
validation keeps that below a known total. The screen promises more (section 3). It is not a matter of the choice screen alone: on a host without GPUs
the configuration starts above the reserve, and only the compatibility report
keeps it from being confirmed.

### Only model-checked

- Liveness (`ResumeFinishes`, `DisplayReturns`), which is out of the prover's reach.
- The violations of section 3, which are about single hosts.

Every invariant of a passing run is proved. The inductive invariants were checked
with TLC on the instances of the runs, or on a part of their hosts, before they were
proved. The refinement was checked with two resumes of one record as well, on the
instance of `snapshot_solo`; the run `snapshot_duo` has one resume at a time. `Ascending` and `Filtered` of `Detection` are written out, where
`SetToSortSeq` and `SelectSeq` of the library would do, because the provers cannot
look into those two.

## 5. Plan

Done: all modules of section 2, all runs of section 3 and the theorems of section 4.
What could come next:

1. `HostGpuKept` and `GroupViable` for equal cards and shared groups, once the code binds
   devices by slot and judges isolation by card.
2. `LandedMeansReady` for systemd-boot, once detection reports the boot entry, and for
   any number of changes, once the writers replace an old `vfio-pci.ids`.
3. The reports that only print (warnings of validation and compatibility,
   `verify_hook_install`), if something comes to depend on them.

## 6. Not modelled

- The text: drawing of the screens, wording of reports, the XML apart from what
  `generate_vm_xml` keeps, the quoting and layout of configuration files. The
  writers are modelled by the tokens they add.
- The parsers of `/proc`, `/sys` and command output, and the detection of
  distribution, storage, audio, USB devices and display server, whose results
  only appear in reports or as a field of a machine.
- The knowledge base (`kb`, `engine/diagnostics.rs`): a table of regular
  expressions and advice, looked up once, without state. `Lifecycle` uses one
  piece of its advice.
- `verify_hook_install` and the warnings of validation and compatibility, which
  only print.
- `packaging`: recipes without program logic.
- Snapshot ids: two captures within a millisecond would share a directory
  (`snapshot/manifest.rs:197`); every run has an id of its own here.
