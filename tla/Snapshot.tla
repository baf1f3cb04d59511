------------------------------ MODULE Snapshot ------------------------------
(***************************************************************************)
(* The transaction engine every change Virtu makes to a host file goes     *)
(* through: capture of a baseline into ~/.virtu/snapshots/<id>/, the       *)
(* hash-guarded atomic write, the manifest, the pending.toml record, and   *)
(* rollback (src/src/snapshot/mod.rs, src/src/config/atomic_write.rs and   *)
(* the phase loops of src/src/engine/executor.rs).                         *)
(*                                                                         *)
(* Nothing in the program is locked, so an invocation is a process of its  *)
(* own: several `virtu apply`, `virtu resume` and `virtu rollback` may     *)
(* interleave with each other and with whoever else edits the files, and   *)
(* several resumes may work from one pending.toml, each with its own copy  *)
(* of the manifest.  An apply is named by the snapshot id it makes, a      *)
(* resume or rollback by a slot that is free again when it ends.  Any      *)
(* invocation may stop after any step, killed or returning an error: the   *)
(* code undoes nothing on an error path, so both leave the same disk.      *)
(*                                                                         *)
(* Bytes stand for file contents; SHA-256 is taken to be injective, so a   *)
(* recorded hash is represented by the bytes it is the hash of.            *)
(***************************************************************************)
EXTENDS Naturals, Sequences

CONSTANTS
  Path,        \* host files some plan touches
  Bytes,       \* contents a file can have
  Absent,      \* the file does not exist
  Unseen,      \* the manifest has no entry for the path
  NoManifest,  \* no manifest.toml in the snapshot directory
  Name,        \* names of backup files inside <snapshot>/files/
  BackupName,  \* sanitize_path: the backup name of a path
  Run,         \* invocations of `virtu apply`, named by their snapshot ids
  Resume,      \* slots for invocations of `virtu resume`
  NoRun,       \* pending.toml does not exist
  Touches,     \* Touches[r]: the plan's unique touched paths, in plan order
  WorkA,       \* WorkA[r]: the paths Phase A writes, in order
  WorkB,       \* WorkB[r]: the paths Phase B writes through the manifest
  FlushB,      \* paths after whose write Phase B persists the manifest
  MustExist,   \* paths whose writer rewrites the current content
  Rewrite,     \* Rewrite[p][c]: what the writer of p makes of content c
  Rollback,    \* slots for invocations of `virtu rollback --to`
  EditBytes,   \* what a user or another program may leave at a path
  MaxEdits     \* bound on such edits

State    == Bytes \cup {Absent}
Manifest == [pre : [Path -> State \cup {Unseen}], edited : SUBSET Path]
Elems(s) == {s[i] : i \in 1..Len(s)}
Proc     == Run \cup Resume

\* The planner lists every path a writer of the plan writes among the plan's
\* touches, and no two touched paths share a sanitized name.
ASSUME PlanAssumption ==
  /\ Absent \notin Bytes
  /\ Unseen \notin State
  /\ NoRun \notin Run
  /\ Run \cap Resume = {}
  /\ NoManifest \notin Manifest
  /\ BackupName \in [Path -> Name]
  /\ \A p, q \in Path : BackupName[p] = BackupName[q] => p = q
  /\ Touches \in [Run -> Seq(Path)]
  /\ WorkA \in [Run -> Seq(Path)]
  /\ WorkB \in [Run -> Seq(Path)]
  /\ \A r \in Run : Elems(WorkA[r]) \cup Elems(WorkB[r]) \subseteq Elems(Touches[r])
  /\ Rewrite \in [Path -> [State -> Bytes]]
  /\ EditBytes \subseteq State
  /\ MaxEdits \in Nat

VARIABLES
  live,     \* the host's files
  backup,   \* backup[r]: the files directory of snapshot r
  disk,     \* disk[r]: manifest.toml of snapshot r, or NoManifest
  pending,  \* the snapshot id pending.toml names, or NoRun
  pc,       \* pc[i]: where the apply or resume i stands
  job,      \* job[i]: the run i works for, NoRun in a free slot
  k,        \* position in the list the process is walking
  mem,      \* the process's in-memory manifest
  buf,      \* the content the current writer started from
  rb,       \* rb[b]: the rollback invocation b
  edits,    \* how many foreign edits have happened
  user,     \* history: what a person or another program last left at a path
  blind,    \* history: paths whose last foreign edit no check of a run can see
  dirty     \* history: dirty[b], paths changed by others while b runs

proc == <<pc, job, k, mem, buf>>
vars == <<live, backup, disk, pending, proc, rb, edits, user, blind, dirty>>

\* An apply executes Phase A of its plan, a resume Phase B.
Work(i)   == IF i \in Run THEN WorkA[i] ELSE WorkB[job[i]]
Target(i) == Work(i)[k[i]]
Empty    == [pre |-> [p \in Path |-> Unseen], edited |-> {}]

Stopped  == {"idle", "ended"}
Active   == {"capture", "step", "check", "write", "persist", "pend", "verify"}

TypeOK ==
  /\ live \in [Path -> State]
  /\ backup \in [Run -> [Name -> State]]
  /\ disk \in [Run -> Manifest \cup {NoManifest}]
  /\ pending \in Run \cup {NoRun}
  /\ pc \in [Proc -> Stopped \cup Active]
  /\ job \in [Proc -> Run \cup {NoRun}]
  /\ \A r \in Run : job[r] = r
  /\ \A i \in Proc : pc[i] \in Active => job[i] \in Run
  /\ k \in [Proc -> Nat \ {0}]
  /\ mem \in [Proc -> Manifest]
  /\ buf \in [Proc -> State]
  /\ rb \in [Rollback -> [pc : {"idle", "run", "done", "failed"}, id : Run \cup {NoRun},
                        k : Nat \ {0},
                        pre : [Path -> State \cup {Unseen}]]]
  /\ edits \in Nat
  /\ user \in [Path -> State]
  /\ blind \in SUBSET Path
  /\ dirty \in [Rollback -> SUBSET Path]

Init ==
  /\ live \in [Path -> EditBytes]
  /\ backup = [r \in Run |-> [n \in Name |-> Absent]]
  /\ disk = [r \in Run |-> NoManifest]
  /\ pending = NoRun
  /\ pc = [i \in Proc |-> "idle"]
  /\ job = [i \in Proc |-> IF i \in Run THEN i ELSE NoRun]
  /\ k = [i \in Proc |-> 1]
  /\ mem = [i \in Proc |-> Empty]
  /\ buf = [i \in Proc |-> Absent]
  /\ rb = [b \in Rollback |-> [pc |-> "idle", id |-> NoRun, k |-> 1, pre |-> Empty.pre]]
  /\ edits = 0
  /\ user = live
  /\ blind = {}
  /\ dirty = [b \in Rollback |-> {}]

\* A change to path p by anyone but rollback b leaves b not answerable for p.
Smudged(p) == [b \in Rollback |-> IF rb[b].pc = "idle" THEN {} ELSE dirty[b] \cup {p}]

\* Process i ends; its memory is gone, and the slot of a resume is free.
Exit(i) ==
  /\ pc' = [pc EXCEPT ![i] = IF i \in Run THEN "ended" ELSE "idle"]
  /\ job' = [job EXCEPT ![i] = IF i \in Run THEN i ELSE NoRun]
  /\ k' = [k EXCEPT ![i] = 1]
  /\ mem' = [mem EXCEPT ![i] = Empty]
  /\ buf' = [buf EXCEPT ![i] = Absent]

\* Process i moves to location l, at position n of its list.
Goto(i, l, n) == pc' = [pc EXCEPT ![i] = l] /\ k' = [k EXCEPT ![i] = n]

-----------------------------------------------------------------------------
(* `virtu apply --phase a --confirm` *)

\* run_apply refuses while pending.toml exists.  Capture then creates the
\* snapshot directory; the check is not repeated.
run_apply(r) ==
  /\ pc[r] = "idle"
  /\ pending = NoRun
  /\ Goto(r, "capture", 1)
  /\ UNCHANGED <<live, backup, disk, pending, job, mem, buf, rb, edits, user, blind, dirty>>

\* Mutant: only the entry is made, not the backup.
capture_one_no_backup(r) ==
  /\ pc[r] = "capture"
  /\ k[r] <= Len(Touches[r])
  /\ mem' = [mem EXCEPT ![r].pre[Touches[r][k[r]]] = live[Touches[r][k[r]]]]
  /\ Goto(r, "capture", k[r] + 1)
  /\ UNCHANGED <<live, backup, disk, pending, job, buf, rb, edits, user, blind, dirty>>

\* capture_one: read the target, copy it under its sanitized name, and keep the
\* hash in an entry; a missing target becomes an entry with nothing to restore.
capture_one(r) ==
  LET p == Touches[r][k[r]] IN
  /\ pc[r] = "capture"
  /\ k[r] <= Len(Touches[r])
  /\ mem' = [mem EXCEPT ![r].pre[p] = live[p]]
  /\ backup' = IF live[p] = Absent THEN backup
               ELSE [backup EXCEPT ![r][BackupName[p]] = live[p]]
  /\ Goto(r, "capture", k[r] + 1)
  /\ UNCHANGED <<live, disk, pending, job, buf, rb, edits, user, blind, dirty>>

\* capture_with_id writes manifest.toml last; execute_snapshot_step reads it
\* back and hands it to the writers.
execute_snapshot_step(r) ==
  /\ pc[r] = "capture"
  /\ k[r] > Len(Touches[r])
  /\ disk' = [disk EXCEPT ![r] = mem[r]]
  /\ Goto(r, "step", 1)
  /\ UNCHANGED <<live, backup, pending, job, mem, buf, rb, edits, user, blind, dirty>>

-----------------------------------------------------------------------------
(* One writer step, in either phase *)

\* The writer reads what it is going to rewrite; a file it cannot do without
\* must be there.  Generated files are written whatever the content.
read_target(i) ==
  /\ pc[i] = "step"
  /\ k[i] <= Len(Work(i))
  /\ Target(i) \in MustExist => live[Target(i)] # Absent
  /\ buf' = [buf EXCEPT ![i] = live[Target(i)]]
  /\ Goto(i, "check", k[i])
  /\ UNCHANGED <<live, backup, disk, pending, job, mem, rb, edits, user, blind, dirty>>

\* Mutant: the hash is not compared.
MatchesCapture_any(pre, now) == TRUE

\* A file that existed at capture must still have the captured hash; one that
\* did not exist is not looked at.
MatchesCapture(pre, now) == pre # Absent => now = pre

\* snapshot_then_write, first half: the write needs an entry, and the
\* current content must match it.
pre_edit_check(i) ==
  LET pre == mem[i].pre[Target(i)] IN
  /\ pc[i] = "check"
  /\ pre # Unseen
  /\ MatchesCapture(pre, live[Target(i)])
  /\ Goto(i, "write", k[i])
  /\ UNCHANGED <<live, backup, disk, pending, job, mem, buf, rb, edits, user, blind, dirty>>

\* snapshot_then_write, second half: the rename, and the post-edit hash in the
\* in-memory manifest.  Phase B then persists the manifest where a step ends.
snapshot_then_write(i) ==
  LET p == Target(i) IN
  /\ pc[i] = "write"
  /\ live' = [live EXCEPT ![p] = Rewrite[p][buf[i]]]
  /\ mem' = [mem EXCEPT ![i].edited = @ \cup {p}]
  /\ buf' = [buf EXCEPT ![i] = Absent]
  /\ dirty' = Smudged(p)
  /\ IF i \in Resume /\ p \in FlushB THEN Goto(i, "persist", k[i])
     ELSE Goto(i, "step", k[i] + 1)
  /\ UNCHANGED <<backup, disk, pending, job, rb, edits, user, blind>>

-----------------------------------------------------------------------------
(* The ends of the two phases *)

\* Mutant: the manifest with the post-edit hashes is not persisted.
persist_manifest_skipped(r) ==
  /\ pc[r] = "step"
  /\ k[r] > Len(WorkA[r])
  /\ Goto(r, "pend", k[r])
  /\ UNCHANGED <<live, backup, disk, pending, job, mem, buf, rb, edits, user, blind, dirty>>

\* All Phase A writes are done and the regenerate commands succeeded.
persist_manifest(r) ==
  /\ pc[r] = "step"
  /\ k[r] > Len(WorkA[r])
  /\ disk' = [disk EXCEPT ![r] = mem[r]]
  /\ Goto(r, "pend", k[r])
  /\ UNCHANGED <<live, backup, pending, job, mem, buf, rb, edits, user, blind, dirty>>

\* The record that lets `virtu resume` continue is written last.
write_pending(r) ==
  /\ pc[r] = "pend"
  /\ pending' = r
  /\ Exit(r)
  /\ UNCHANGED <<live, backup, disk, rb, edits, user, blind, dirty>>

\* Mutant: nothing looks whether there is a record.
run_resume_unchecked(i) ==
  /\ pc[i] = "idle"
  /\ job' = [job EXCEPT ![i] = pending]
  /\ Goto(i, "verify", 1)
  /\ UNCHANGED <<live, backup, disk, pending, mem, buf, rb, edits, user, blind, dirty>>

\* `virtu resume` reads the record, scans the host and verifies that Phase A
\* landed; the record is not looked at again before the very end, and nothing
\* keeps a second resume from reading it too.
run_resume(i) ==
  /\ pc[i] = "idle"
  /\ pending # NoRun
  /\ job' = [job EXCEPT ![i] = pending]
  /\ Goto(i, "verify", 1)
  /\ UNCHANGED <<live, backup, disk, pending, mem, buf, rb, edits, user, blind, dirty>>

\* Mutant: Phase B takes a new baseline from the files as they are now.
execute_phase_b_recapture(i) ==
  /\ pc[i] = "verify"
  /\ disk[job[i]] # NoManifest
  /\ mem' = [mem EXCEPT ![i] = [disk[job[i]] EXCEPT !.pre = live]]
  /\ Goto(i, "step", 1)
  /\ UNCHANGED <<live, backup, disk, pending, job, buf, rb, edits, user, blind, dirty>>

\* execute_phase_b starts from the manifest on disk, also when an earlier
\* attempt stopped half-way or another resume is at work on it.
execute_phase_b(i) ==
  /\ pc[i] = "verify"
  /\ disk[job[i]] # NoManifest
  /\ mem' = [mem EXCEPT ![i] = disk[job[i]]]
  /\ Goto(i, "step", 1)
  /\ UNCHANGED <<live, backup, disk, pending, job, buf, rb, edits, user, blind, dirty>>

\* write_manifest at the end of a Phase B step: the copy of this resume
\* replaces what is on disk, whoever wrote that.
write_manifest(i) ==
  /\ pc[i] = "persist"
  /\ disk' = [disk EXCEPT ![job[i]] = mem[i]]
  /\ Goto(i, "step", k[i] + 1)
  /\ UNCHANGED <<live, backup, pending, job, mem, buf, rb, edits, user, blind, dirty>>

\* Every Phase B step is done: remove pending.toml, whatever it names by now.
clear_pending(i) ==
  /\ pc[i] = "step"
  /\ k[i] > Len(WorkB[job[i]])
  /\ pending' = NoRun
  /\ Exit(i)
  /\ UNCHANGED <<live, backup, disk, rb, edits, user, blind, dirty>>

\* The process is killed, or a read, a write, a check, a writer or a host
\* command fails and the error is returned, or the verifier refuses.
stop(i) ==
  /\ pc[i] \in Active
  /\ Exit(i)
  /\ UNCHANGED <<live, backup, disk, pending, rb, edits, user, blind, dirty>>

-----------------------------------------------------------------------------
(* `virtu rollback --to <id>` *)

\* restore refuses a snapshot directory without a manifest.  Nothing is kept of
\* an earlier rollback: the next one starts at the first entry again.
restore_begin(b, s) ==
  /\ rb[b].pc # "run"
  /\ pc[s] # "idle"
  /\ disk[s] # NoManifest
  /\ rb' = [rb EXCEPT ![b] = [pc |-> "run", id |-> s, k |-> 1, pre |-> disk[s].pre]]
  /\ dirty' = [dirty EXCEPT ![b] = {}]
  /\ UNCHANGED <<live, backup, disk, pending, proc, edits, user, blind>>

\* Mutant: a file that did not exist is left where it is.
Restored_kept(pre, now) == IF pre = Absent THEN now ELSE pre

\* What restore leaves at a path: the captured bytes, or no file.
Restored(pre, now) == pre

\* One entry: bytes that are already right are left alone; otherwise the backup
\* is read, compared with the recorded hash and written back.  A file that did
\* not exist is removed.  The history variable user keeps what a person left at
\* p unless exactly those bytes are what this rollback was asked to replace.
restore_entry(b) ==
  LET s   == rb[b].id
      p   == Touches[s][rb[b].k]
      pre == rb[b].pre[p]
  IN
  /\ rb[b].pc = "run"
  /\ rb[b].k <= Len(Touches[s])
  /\ \/ /\ pre = Absent \/ live[p] = pre \/ backup[s][BackupName[p]] = pre
        /\ live' = [live EXCEPT ![p] = Restored(pre, live[p])]
        /\ user' = IF live[p] = user[p] THEN [user EXCEPT ![p] = pre] ELSE user
        /\ rb' = [rb EXCEPT ![b].k = @ + 1]
        /\ dirty' = [Smudged(p) EXCEPT ![b] = dirty[b] \ {p}]
     \/ /\ pre # Absent /\ live[p] # pre /\ backup[s][BackupName[p]] # pre
        /\ rb' = [rb EXCEPT ![b].pc = "failed"]
        /\ UNCHANGED <<live, user, dirty>>
  /\ UNCHANGED <<backup, disk, pending, proc, edits, blind>>

restore_done(b) ==
  /\ rb[b].pc = "run"
  /\ rb[b].k > Len(Touches[rb[b].id])
  /\ rb' = [rb EXCEPT ![b].pc = "done"]
  /\ UNCHANGED <<live, backup, disk, pending, proc, edits, user, blind, dirty>>

\* Killed, or an I/O error: what is restored stays restored.
restore_stop(b) ==
  /\ rb[b].pc = "run"
  /\ rb' = [rb EXCEPT ![b].pc = "failed"]
  /\ UNCHANGED <<live, backup, disk, pending, proc, edits, user, blind, dirty>>

-----------------------------------------------------------------------------
(* Everybody else: an editor, a package upgrade *)

\* Run r's baseline says p did not exist, for which a writer has no check.
FoundNone(r, p) == disk[r] # NoManifest /\ disk[r].pre[p] = Absent

\* Process i may write p without looking at p again: its check is behind it, or
\* there is no check for p, in what it holds or in what it is going to load.
Unguarded(i, p) ==
  \/ pc[i] \in Active /\ mem[i].pre[p] = Absent
  \/ pc[i] = "verify" /\ FoundNone(job[i], p)
  \/ pc[i] = "write" /\ Target(i) = p

\* Some process, or a resume that is still to come, may write p unseen.
Exposed(p) ==
  \/ \E i \in Proc : Unguarded(i, p)
  \/ pending # NoRun /\ FoundNone(pending, p)

user_edit(p, c) ==
  /\ edits < MaxEdits
  /\ edits' = edits + 1
  /\ live' = [live EXCEPT ![p] = c]
  /\ user' = [user EXCEPT ![p] = c]
  /\ blind' = IF Exposed(p) THEN blind \cup {p} ELSE blind \ {p}
  /\ dirty' = Smudged(p)
  /\ UNCHANGED <<backup, disk, pending, proc, rb>>

-----------------------------------------------------------------------------
ApplyStep(r) ==
  \/ run_apply(r) \/ capture_one(r) \/ execute_snapshot_step(r)
  \/ persist_manifest(r) \/ write_pending(r)

ResumeStep(i) ==
  \/ run_resume(i) \/ execute_phase_b(i) \/ write_manifest(i) \/ clear_pending(i)

WriterStep(i) ==
  \/ read_target(i) \/ pre_edit_check(i) \/ snapshot_then_write(i) \/ stop(i)

RunStep(i) ==
  \/ i \in Run /\ ApplyStep(i)
  \/ i \in Resume /\ ResumeStep(i)
  \/ WriterStep(i)

RollbackStep(b) ==
  \/ \E s \in Run : restore_begin(b, s)
  \/ restore_entry(b) \/ restore_done(b) \/ restore_stop(b)

Next ==
  \/ \E i \in Proc : RunStep(i)
  \/ \E b \in Rollback : RollbackStep(b)
  \/ \E p \in Path, c \in EditBytes : user_edit(p, c)

Spec == Init /\ [][Next]_vars
-----------------------------------------------------------------------------
(* Properties *)

\* What a person left at p can be had back from a committed snapshot.
Kept(p) ==
  \E s \in Run :
    /\ disk[s] # NoManifest
    /\ disk[s].pre[p] = user[p]
    /\ user[p] # Absent => backup[s][BackupName[p]] = user[p]

\* No interleaving of applies, resumes, rollbacks and crashes loses bytes that
\* a person or another program put into a file: they are still in the file or
\* in a snapshot a rollback can restore.  Excepted are edits made after a run's
\* check of the file, and files that appear after capture found none, for which
\* snapshot_then_write has no check (atomic_write.rs lines 41-58).
UserBytesKept == \A p \in Path \ blind : live[p] = user[p] \/ Kept(p)

\* A manifest.toml on disk describes a complete, intact baseline at every
\* moment, also in the middle of a crashed or concurrent run: each touched path
\* has an entry, and each entry for a file that existed has its own backup with
\* the bytes of the recorded hash.  Rollback therefore never meets the
\* HashMismatch or missing-backup error of restore.
BaselineIntact ==
  \A r \in Run : disk[r] # NoManifest =>
    \A p \in Elems(Touches[r]) :
      /\ disk[r].pre[p] # Unseen
      /\ disk[r].pre[p] # Absent => backup[r][BackupName[p]] = disk[r].pre[p]

\* pending.toml only ever names a run whose Phase A is finished and recorded:
\* its manifest is on disk and carries the post-edit hash of every Phase A
\* write.  A crash anywhere in Phase A leaves no record that resume could take.
PendingIsDurable ==
  pending # NoRun =>
    /\ disk[pending] # NoManifest
    /\ Elems(WorkA[pending]) \subseteq disk[pending].edited

\* A rollback that reached the end has put every file of the snapshot back to
\* its captured bytes, or back to not existing, save the files somebody else
\* changed after the rollback handled them; a rollback still running or cut
\* short has done so for the entries behind it.
RollbackComplete ==
  \A b \in Rollback : rb[b].id # NoRun =>
    \A i \in 1..Len(Touches[rb[b].id]) :
      LET p == Touches[rb[b].id][i] IN
      i < rb[b].k /\ p \notin dirty[b] => live[p] = rb[b].pre[p]

\* The baseline of a committed manifest is never rewritten and the post-edit
\* hashes of Phase A are never lost, also when several resumes of one record
\* persist their own copies of the manifest over each other (executor.rs lines 679
\* and 793-810).  The hashes of Phase B can be lost that way: README, section 3.
BaselineFrozen ==
  [][\A r \in Run : disk[r] # NoManifest =>
        /\ disk'[r] # NoManifest
        /\ disk'[r].pre = disk[r].pre
        /\ disk[r].edited \cap Elems(WorkA[r]) \subseteq disk'[r].edited]_vars

-----------------------------------------------------------------------------
(* Refinement: the engine implements Recoverable.  A run's notes are its     *)
(* entries, in the memory of its apply until manifest.toml is there and on   *)
(* disk from then on.                                                        *)

Committed(r) == disk[r] # NoManifest

R == INSTANCE Recoverable WITH
       Touched <- [r \in Run |-> Elems(Touches[r])],
       Staged  <- [r \in Run |-> Elems(WorkA[r])],
       Makes   <- [p \in Path |-> {Rewrite[p][c] : c \in State}],
       files   <- live,
       note    <- [r \in Run |-> IF Committed(r) THEN disk[r].pre ELSE mem[r].pre],
       kept    <- {r \in Run : Committed(r)},
       marked  <- [r \in Run |-> IF Committed(r) THEN disk[r].edited ELSE {}],
       record  <- pending,
       others  <- edits

\* Every step of every interleaving of applies, resumes, rollbacks, crashes and
\* edits is a step the promise allows: no write before the baseline of the file is
\* committed and none outside the plan, no restore to anything but the committed
\* baseline, no change to a committed baseline, no record of an unfinished Phase A.
ImplementsRecoverable == R!Spec
=============================================================================
