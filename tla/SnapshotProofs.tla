--------------------------- MODULE SnapshotProofs ---------------------------
(***************************************************************************)
(* Proofs of the safety properties of Snapshot, for any number of plans,   *)
(* resumes, rollbacks, files and foreign edits.  Applies and resumes,      *)
(* rollbacks and foreign edits are treated in turn.  A process keeps its   *)
(* own memory, but several resumes share a manifest: what they may rely on *)
(* is that nobody changes a committed baseline (Frozen) and that every     *)
(* copy of the manifest in circulation has all hashes of Phase A           *)
(* (WriteProgress); kept bytes therefore stay kept (KeptStable).           *)
(***************************************************************************)
EXTENDS Snapshot, TLAPS

\* Where a process holds a manifest that is on disk.
Writing == {"step", "check", "write", "persist", "pend"}

\* What a process holds in memory agrees with the baseline on disk; only an
\* apply captures, before there is a manifest.
MemoryMatchesDisk ==
  \A i \in Proc :
    /\ i \in Run /\ pc[i] \in {"idle", "capture"} => disk[i] = NoManifest
    /\ pc[i] \in {"capture", "pend"} => i \in Run
    /\ pc[i] \in {"verify", "persist"} => i \in Resume
    /\ pc[i] \in Writing => disk[job[i]] # NoManifest /\ mem[i].pre = disk[job[i]].pre
    /\ pc[i] \in {"write", "check"} => k[i] <= Len(Work(i))
    /\ pc[i] = "verify" => disk[job[i]] # NoManifest
    /\ pc[i] \in Stopped \cup {"verify"} => mem[i] = Empty

\* Capture has an entry for every path behind it.
CaptureProgress ==
  \A r \in Run : pc[r] = "capture" =>
    \A i \in 1..Len(Touches[r]) : i < k[r] => mem[r].pre[Touches[r][i]] # Unseen

\* Phase A has recorded the post-edit hash of every path behind it, and every
\* copy of the manifest that a resume works from has all of them.
WriteProgress ==
  /\ \A r \in Run :
       /\ pc[r] \in {"step", "check", "write"} =>
            \A n \in 1..Len(WorkA[r]) : n < k[r] => WorkA[r][n] \in mem[r].edited
       /\ pc[r] = "pend" => Elems(WorkA[r]) \subseteq disk[r].edited
  /\ \A i \in Resume :
       /\ pc[i] \in Active => Elems(WorkA[job[i]]) \subseteq disk[job[i]].edited
       /\ pc[i] \in Writing => Elems(WorkA[job[i]]) \subseteq mem[i].edited

\* A backup holds the bytes of the entry that points at it.
Backed(r, pre) ==
  \A p \in Path : pre[p] \notin {Unseen, Absent} => backup[r][BackupName[p]] = pre[p]

BackupsMatch ==
  /\ \A i \in Proc : pc[i] \in Active => Backed(job[i], mem[i].pre)
  /\ \A r \in Run : disk[r] # NoManifest => Backed(r, disk[r].pre)

\* A manifest on disk has an entry for every path the plan touches.
EntriesComplete ==
  \A r \in Run : disk[r] # NoManifest =>
    \A p \in Elems(Touches[r]) : disk[r].pre[p] # Unseen

\* Where a process is going to write without looking, the bytes a person left
\* there are already safe (or were put there unseen).
UnguardedIsSafe ==
  \A p \in Path : Exposed(p) => p \in blind \/ user[p] = Absent \/ Kept(p)

\* A write whose check is behind it replaces bytes that a snapshot holds.
CheckedIsKept ==
  \A i \in Proc : pc[i] = "write" =>
    /\ mem[i].pre[Target(i)] # Unseen
    /\ Target(i) \in blind \/ Kept(Target(i))

\* A rollback works from the baseline of a committed manifest.
RollbackMatchesDisk ==
  \A b \in Rollback :
    /\ rb[b].pc = "idle" => rb[b].id = NoRun
    /\ rb[b].pc = "run" => rb[b].id # NoRun
    /\ rb[b].id # NoRun => disk[rb[b].id] # NoManifest /\ rb[b].pre = disk[rb[b].id].pre

\* The inductive invariant.  BaselineIntact follows from BackupsMatch and
\* EntriesComplete; UserBytesKept is inductive only together with what the two
\* parts above it say of files a run will write without looking again.
IInv ==
  /\ MemoryMatchesDisk
  /\ CaptureProgress
  /\ WriteProgress
  /\ BackupsMatch
  /\ EntriesComplete
  /\ UnguardedIsSafe
  /\ CheckedIsKept
  /\ RollbackMatchesDisk
  /\ UserBytesKept
  /\ PendingIsDurable
  /\ RollbackComplete

-----------------------------------------------------------------------------
(* Facts about the pieces the steps are made of *)

\* A plan touches a sequence of host paths (collect_targets).
LEMMA TouchesType == \A r \in Run : Touches[r] \in Seq(Path) /\ Elems(Touches[r]) \subseteq Path
BY PlanAssumption DEF Elems

\* A process at work has a run to work for; an apply works for its own.
LEMMA JobType ==
  ASSUME TypeOK, NEW i \in Proc
  PROVE  (pc[i] \in Active => job[i] \in Run) /\ (i \in Run => job[i] = i) /\ (i \notin Run => i \in Resume)
BY DEF TypeOK, Proc

\* The writer steps of either phase walk a list of host paths, so the target of
\* a position inside the list is a path.
LEMMA WorkType ==
  ASSUME TypeOK, NEW i \in Proc, pc[i] \in Active
  PROVE  /\ Work(i) \in Seq(Path)
         /\ k[i] <= Len(Work(i)) => Target(i) \in Path
<1>1. Work(i) \in Seq(Path) /\ k[i] \in Nat \ {0}
  BY PlanAssumption, JobType DEF Work, TypeOK
<1> QED BY <1>1 DEF Target

\* A process without a manifest in memory holds a well-formed empty one.
LEMMA EmptyType == Empty \in Manifest
BY DEF Empty, Manifest

\* What capture_one does to the manifest and the backup directory of its run.
LEMMA CaptureEffect ==
  ASSUME TypeOK, NEW r \in Run, capture_one(r),
         NEW p, p = Touches[r][k[r]]
  PROVE  /\ p \in Path
         /\ mem' \in [Proc -> Manifest]
         /\ mem'[r].pre[p] = live[p]
         /\ \A q \in Path : q # p => mem'[r].pre[q] = mem[r].pre[q]
         /\ mem'[r].edited = mem[r].edited
         /\ \A j \in Proc : j # r => mem'[j] = mem[j]
         /\ backup' \in [Run -> [Name -> State]]
         /\ live[p] # Absent => backup'[r][BackupName[p]] = live[p]
         /\ \A q \in Path : q # p => backup'[r][BackupName[q]] = backup[r][BackupName[q]]
         /\ \A s \in Run : s # r => backup'[s] = backup[s]
<1>0. r \in Proc
  BY DEF Proc
<1>1. p \in Path
  BY <1>0, TouchesType DEF capture_one, TypeOK
<1>2. mem' = [mem EXCEPT ![r].pre[p] = live[p]]
  BY DEF capture_one
<1>3. backup' = IF live[p] = Absent THEN backup ELSE [backup EXCEPT ![r][BackupName[p]] = live[p]]
  BY DEF capture_one
<1>4. /\ mem[r] \in Manifest /\ live[p] \in State /\ BackupName[p] \in Name
      /\ backup[r] \in [Name -> State]
  BY <1>0, <1>1, PlanAssumption DEF TypeOK
<1> DEFINE m == [mem[r] EXCEPT !.pre[p] = live[p]]
<1>5. mem' = [mem EXCEPT ![r] = m]
  BY <1>2
<1>6. /\ m \in Manifest
      /\ m.pre[p] = live[p]
      /\ \A q \in Path : q # p => m.pre[q] = mem[r].pre[q]
      /\ m.edited = mem[r].edited
  BY <1>1, <1>4 DEF Manifest
<1> HIDE DEF m
<1>7. mem'[r] = m /\ mem' \in [Proc -> Manifest] /\ \A j \in Proc : j # r => mem'[j] = mem[j]
  BY <1>0, <1>5, <1>6 DEF TypeOK
<1>8. /\ backup' \in [Run -> [Name -> State]]
      /\ live[p] # Absent => backup'[r][BackupName[p]] = live[p]
      /\ \A n \in Name : n # BackupName[p] => backup'[r][n] = backup[r][n]
      /\ \A s \in Run : s # r => backup'[s] = backup[s]
  BY <1>3, <1>4 DEF TypeOK
<1>9. \A q \in Path : q # p => BackupName[q] \in Name /\ BackupName[q] # BackupName[p]
  BY <1>1, PlanAssumption
<1> QED BY <1>1, <1>6, <1>7, <1>8, <1>9

\* What snapshot_then_write does to the file, the manifest and the process.
LEMMA WriteEffect ==
  ASSUME TypeOK, MemoryMatchesDisk, NEW i \in Proc, snapshot_then_write(i), NEW p, p = Target(i)
  PROVE  /\ p \in Path
         /\ live' \in [Path -> State]
         /\ \A q \in Path : q # p => live'[q] = live[q]
         /\ mem' \in [Proc -> Manifest]
         /\ mem'[i].pre = mem[i].pre
         /\ mem'[i].edited = mem[i].edited \cup {p}
         /\ \A j \in Proc : j # i => mem'[j] = mem[j]
         /\ dirty' = Smudged(p)
         /\ \/ pc' = [pc EXCEPT ![i] = "persist"] /\ k' = k /\ i \in Resume
            \/ pc' = [pc EXCEPT ![i] = "step"] /\ k' = [k EXCEPT ![i] = k[i] + 1]
<1>1. p \in Path
  BY WorkType DEF MemoryMatchesDisk, snapshot_then_write, Active
<1>2. Rewrite[p][buf[i]] \in State
  BY <1>1, PlanAssumption DEF TypeOK, State
<1>3. live' = [live EXCEPT ![p] = Rewrite[p][buf[i]]]
  BY DEF snapshot_then_write
<1>4. live' \in [Path -> State] /\ \A q \in Path : q # p => live'[q] = live[q]
  BY <1>1, <1>2, <1>3 DEF TypeOK
<1> DEFINE m == [mem[i] EXCEPT !.edited = @ \cup {p}]
<1>5. mem' = [mem EXCEPT ![i] = m]
  BY DEF snapshot_then_write
<1>6. m \in Manifest /\ m.pre = mem[i].pre /\ m.edited = mem[i].edited \cup {p}
  <2>1. mem[i] \in Manifest
    BY DEF TypeOK
  <2> QED BY <2>1, <1>1 DEF Manifest
<1> HIDE DEF m
<1>7. mem'[i] = m /\ mem' \in [Proc -> Manifest] /\ \A j \in Proc : j # i => mem'[j] = mem[j]
  BY <1>5, <1>6 DEF TypeOK
<1>8. dirty' = Smudged(p)
  BY DEF snapshot_then_write
<1>9. \/ pc' = [pc EXCEPT ![i] = "persist"] /\ k' = k /\ i \in Resume
      \/ pc' = [pc EXCEPT ![i] = "step"] /\ k' = [k EXCEPT ![i] = k[i] + 1]
  BY DEF snapshot_then_write, Goto, TypeOK
<1> QED BY <1>1, <1>4, <1>6, <1>7, <1>8, <1>9

\* Ending a process keeps the types and concerns that process alone.
LEMMA ExitEffect ==
  ASSUME TypeOK, NEW i \in Proc, Exit(i)
  PROVE  /\ pc' \in [Proc -> Stopped \cup Active] /\ job' \in [Proc -> Run \cup {NoRun}]
         /\ k' \in [Proc -> Nat \ {0}] /\ mem' \in [Proc -> Manifest] /\ buf' \in [Proc -> State]
         /\ pc'[i] \in Stopped /\ mem'[i] = Empty /\ (i \in Run => job'[i] = i /\ pc'[i] = "ended")
         /\ \A j \in Proc : j # i => /\ pc'[j] = pc[j] /\ job'[j] = job[j] /\ k'[j] = k[j]
                                     /\ mem'[j] = mem[j] /\ buf'[j] = buf[j]
<1>1. /\ pc' \in [Proc -> Stopped \cup Active] /\ job' \in [Proc -> Run \cup {NoRun}]
      /\ pc'[i] \in Stopped /\ (i \in Run => job'[i] = i /\ pc'[i] = "ended")
      /\ \A j \in Proc : j # i => pc'[j] = pc[j] /\ job'[j] = job[j]
  BY DEF TypeOK, Exit, Stopped
<1>2. /\ k' \in [Proc -> Nat \ {0}] /\ mem' \in [Proc -> Manifest] /\ buf' \in [Proc -> State]
      /\ mem'[i] = Empty
      /\ \A j \in Proc : j # i => k'[j] = k[j] /\ mem'[j] = mem[j] /\ buf'[j] = buf[j]
  BY EmptyType DEF TypeOK, Exit, State
<1> QED BY <1>1, <1>2

\* The bookkeeping of foreign changes during a rollback stays well-typed.
LEMMA SmudgedType ==
  ASSUME TypeOK, NEW p \in Path
  PROVE  Smudged(p) \in [Rollback -> SUBSET Path]
BY DEF Smudged, TypeOK

-----------------------------------------------------------------------------
(* Types *)

\* A process that ends keeps the types.
LEMMA ExitType ==
  ASSUME TypeOK, NEW i \in Proc, Exit(i), pending' \in Run \cup {NoRun},
         UNCHANGED <<live, backup, disk, rb, edits, user, blind, dirty>>
  PROVE  TypeOK'
<1>1. \A r \in Run : job'[r] = r
  BY ExitEffect DEF TypeOK, Proc
<1>2. \A j \in Proc : pc'[j] \in Active => job'[j] \in Run
  BY ExitEffect DEF TypeOK, Stopped, Active
<1> QED BY <1>1, <1>2, ExitEffect DEF TypeOK

\* A process at work that moves on keeps the types of what moving changes.
LEMMA GotoType ==
  ASSUME TypeOK, NEW i \in Proc, job[i] \in Run, NEW l \in Active, NEW n \in Nat \ {0}, Goto(i, l, n),
         job' = job
  PROVE  /\ pc' \in [Proc -> Stopped \cup Active] /\ k' \in [Proc -> Nat \ {0}]
         /\ job' \in [Proc -> Run \cup {NoRun}] /\ \A r \in Run : job'[r] = r
         /\ \A j \in Proc : pc'[j] \in Active => job'[j] \in Run
         /\ pc'[i] = l /\ k'[i] = n
         /\ \A j \in Proc : j # i => pc'[j] = pc[j] /\ k'[j] = k[j]
BY DEF TypeOK, Goto

\* Every step of an apply or a resume preserves the types.
LEMMA RunType ==
  ASSUME TypeOK, MemoryMatchesDisk, NEW i \in Proc, RunStep(i)
  PROVE  TypeOK'
<1>0. /\ k[i] \in Nat \ {0} /\ k[i] + 1 \in Nat \ {0} /\ 1 \in Nat \ {0}
      /\ pc[i] \in Active \/ i \in Run => job[i] \in Run
      /\ {"capture", "step", "check", "write", "persist", "pend", "verify"} \subseteq Active
  BY JobType DEF TypeOK, Active
<1>1. CASE i \in Run /\ run_apply(i)
  BY <1>0, <1>1, GotoType DEF run_apply, TypeOK
<1>2. CASE i \in Run /\ capture_one(i)
  <2>1. mem' \in [Proc -> Manifest] /\ backup' \in [Run -> [Name -> State]]
    BY <1>2, CaptureEffect
  <2> QED BY <1>0, <1>2, <2>1, GotoType DEF capture_one, TypeOK
<1>3. CASE i \in Run /\ execute_snapshot_step(i)
  <2>1. disk' \in [Run -> Manifest \cup {NoManifest}]
    BY <1>3 DEF execute_snapshot_step, TypeOK
  <2> QED BY <1>0, <1>3, <2>1, GotoType DEF execute_snapshot_step, TypeOK
<1>4. CASE read_target(i)
  <2>1. buf' \in [Proc -> State]
    BY <1>0, <1>4, WorkType DEF read_target, TypeOK
  <2> QED BY <1>0, <1>4, <2>1, GotoType DEF read_target, TypeOK
<1>5. CASE pre_edit_check(i)
  BY <1>0, <1>5, GotoType DEF pre_edit_check, TypeOK
<1>6. CASE snapshot_then_write(i)
  <2>1. PICK p : p = Target(i)
    OBVIOUS
  <2>2. live' \in [Path -> State] /\ mem' \in [Proc -> Manifest] /\ p \in Path /\ dirty' = Smudged(p)
    BY <1>6, <2>1, WriteEffect
  <2>3. /\ pc' \in [Proc -> Stopped \cup Active] /\ k' \in [Proc -> Nat \ {0}]
        /\ job' \in [Proc -> Run \cup {NoRun}] /\ \A r \in Run : job'[r] = r
        /\ \A j \in Proc : pc'[j] \in Active => job'[j] \in Run
    <3>1. job' = job /\ job[i] \in Run
      BY <1>0, <1>6 DEF snapshot_then_write
    <3>2. Goto(i, "persist", k[i]) \/ Goto(i, "step", k[i] + 1)
      BY <1>6 DEF snapshot_then_write
    <3> QED BY <1>0, <3>1, <3>2, GotoType
  <2>4. dirty' \in [Rollback -> SUBSET Path]
    BY <2>2, SmudgedType
  <2>5. buf' \in [Proc -> State]
    BY <1>6 DEF snapshot_then_write, TypeOK, State
  <2> QED BY <1>6, <2>2, <2>3, <2>4, <2>5 DEF snapshot_then_write, TypeOK
<1>7. CASE i \in Run /\ persist_manifest(i)
  <2>1. disk' \in [Run -> Manifest \cup {NoManifest}]
    BY <1>7 DEF persist_manifest, TypeOK
  <2> QED BY <1>0, <1>7, <2>1, GotoType DEF persist_manifest, TypeOK
<1>8. CASE i \in Run /\ write_pending(i)
  BY <1>8, ExitType DEF write_pending
<1>9. CASE i \in Resume /\ run_resume(i)
  <2>1. pending \in Run /\ i \notin Run
    BY <1>9, PlanAssumption DEF run_resume, TypeOK
  <2>2. /\ pc' \in [Proc -> Stopped \cup Active] /\ k' \in [Proc -> Nat \ {0}]
        /\ job' \in [Proc -> Run \cup {NoRun}] /\ \A r \in Run : job'[r] = r
        /\ \A j \in Proc : pc'[j] \in Active => job'[j] \in Run
    BY <1>0, <1>9, <2>1 DEF run_resume, Goto, TypeOK, Proc
  <2> QED BY <1>9, <2>2 DEF run_resume, TypeOK
<1>10. CASE i \in Resume /\ execute_phase_b(i)
  <2>1. mem' \in [Proc -> Manifest]
    BY <1>0, <1>10 DEF execute_phase_b, TypeOK
  <2> QED BY <1>0, <1>10, <2>1, GotoType DEF execute_phase_b, TypeOK
<1>11. CASE i \in Resume /\ write_manifest(i)
  <2>1. disk' \in [Run -> Manifest \cup {NoManifest}]
    BY <1>0, <1>11 DEF write_manifest, TypeOK
  <2> QED BY <1>0, <1>11, <2>1, GotoType DEF write_manifest, TypeOK
<1>12. CASE i \in Resume /\ clear_pending(i)
  BY <1>12, ExitType DEF clear_pending
<1>13. CASE stop(i)
  <2>1. pending' \in Run \cup {NoRun}
    BY <1>13 DEF stop, TypeOK
  <2> QED BY <1>13, <2>1, ExitType DEF stop
<1> QED BY <1>1, <1>2, <1>3, <1>4, <1>5, <1>6, <1>7, <1>8, <1>9, <1>10, <1>11, <1>12, <1>13
        DEF RunStep, ApplyStep, ResumeStep, WriterStep

\* What one restored entry does, when the rollback does not refuse it.
LEMMA RestoreEffect ==
  ASSUME TypeOK, RollbackMatchesDisk, EntriesComplete, NEW b \in Rollback, restore_entry(b),
         NEW s, s = rb[b].id, NEW p, p = Touches[s][rb[b].k]
  PROVE  /\ s \in Run /\ p \in Path /\ p \in Elems(Touches[s])
         /\ rb[b].pre = disk[s].pre /\ disk[s] # NoManifest
         /\ rb[b].pre[p] \in State
         /\ \/ /\ live' = [live EXCEPT ![p] = rb[b].pre[p]]
               /\ user' = IF live[p] = user[p] THEN [user EXCEPT ![p] = rb[b].pre[p]] ELSE user
               /\ rb' = [rb EXCEPT ![b].k = rb[b].k + 1]
               /\ dirty' = [Smudged(p) EXCEPT ![b] = dirty[b] \ {p}]
            \/ /\ rb' = [rb EXCEPT ![b].pc = "failed"]
               /\ UNCHANGED <<live, user, dirty>>
<1>1. /\ rb[b] \in [pc : {"idle", "run", "done", "failed"}, id : Run \cup {NoRun},
                    k : Nat \ {0}, pre : [Path -> State \cup {Unseen}]]
      /\ rb[b].pc = "run" /\ rb[b].k <= Len(Touches[rb[b].id])
  BY DEF TypeOK, restore_entry
<1>2. s \in Run /\ rb[b].pre = disk[s].pre /\ disk[s] # NoManifest
  BY <1>1 DEF RollbackMatchesDisk
<1>3. p \in Path /\ p \in Elems(Touches[s])
  BY <1>1, <1>2, TouchesType DEF Elems
<1>4. rb[b].pre[p] \in State
  BY <1>1, <1>2, <1>3 DEF EntriesComplete
<1> QED BY <1>2, <1>3, <1>4 DEF restore_entry, Restored

\* Every step of a rollback preserves the types: an entry of a committed
\* manifest always has something to restore.
LEMMA RollbackType ==
  ASSUME TypeOK, RollbackMatchesDisk, EntriesComplete, NEW b \in Rollback, RollbackStep(b)
  PROVE  TypeOK'
<1>0. rb[b] \in [pc : {"idle", "run", "done", "failed"}, id : Run \cup {NoRun},
                 k : Nat \ {0}, pre : [Path -> State \cup {Unseen}]]
  BY DEF TypeOK
<1>1. ASSUME NEW s \in Run, restore_begin(b, s)
      PROVE  TypeOK'
  <2>1. disk[s].pre \in [Path -> State \cup {Unseen}]
    BY <1>1 DEF restore_begin, TypeOK, Manifest
  <2>2. dirty' \in [Rollback -> SUBSET Path]
    BY <1>1 DEF restore_begin, TypeOK
  <2> QED BY <1>0, <1>1, <2>1, <2>2 DEF restore_begin, TypeOK, proc
<1>2. CASE restore_entry(b)
  <2>1. PICK s, p : s = rb[b].id /\ p = Touches[s][rb[b].k]
    OBVIOUS
  <2>2. p \in Path /\ rb[b].pre[p] \in State
    BY <1>2, <2>1, RestoreEffect
  <2>3. \/ /\ live' = [live EXCEPT ![p] = rb[b].pre[p]]
           /\ user' = IF live[p] = user[p] THEN [user EXCEPT ![p] = rb[b].pre[p]] ELSE user
           /\ rb' = [rb EXCEPT ![b].k = rb[b].k + 1]
           /\ dirty' = [Smudged(p) EXCEPT ![b] = dirty[b] \ {p}]
        \/ /\ rb' = [rb EXCEPT ![b].pc = "failed"]
           /\ UNCHANGED <<live, user, dirty>>
    BY <1>2, <2>1, RestoreEffect
  <2>4. live' \in [Path -> State] /\ user' \in [Path -> State]
    BY <2>2, <2>3 DEF TypeOK
  <2>5. dirty' \in [Rollback -> SUBSET Path]
    <3>1. Smudged(p) \in [Rollback -> SUBSET Path] /\ dirty \in [Rollback -> SUBSET Path]
      BY <2>2, SmudgedType DEF TypeOK
    <3>2. dirty[b] \ {p} \in SUBSET Path
      BY <3>1
    <3>3. dirty' = dirty \/ dirty' = [Smudged(p) EXCEPT ![b] = dirty[b] \ {p}]
      BY <2>3
    <3> QED BY <3>1, <3>2, <3>3
  <2>6. rb' \in [Rollback -> [pc : {"idle", "run", "done", "failed"}, id : Run \cup {NoRun},
                              k : Nat \ {0}, pre : [Path -> State \cup {Unseen}]]]
    <3> DEFINE RB == [pc : {"idle", "run", "done", "failed"}, id : Run \cup {NoRun},
                      k : Nat \ {0}, pre : [Path -> State \cup {Unseen}]]
    <3>1. /\ [rb[b] EXCEPT !.k = rb[b].k + 1] \in RB
          /\ [rb[b] EXCEPT !.pc = "failed"] \in RB
      BY <1>0
    <3>2. \/ rb' = [rb EXCEPT ![b] = [rb[b] EXCEPT !.k = rb[b].k + 1]]
          \/ rb' = [rb EXCEPT ![b] = [rb[b] EXCEPT !.pc = "failed"]]
      BY <2>3
    <3>3. rb \in [Rollback -> RB]
      BY DEF TypeOK
    <3> HIDE DEF RB
    <3>4. rb' \in [Rollback -> RB]
      BY <3>1, <3>2, <3>3
    <3> QED BY <3>4 DEF RB
  <2> QED BY <1>2, <2>4, <2>5, <2>6 DEF restore_entry, TypeOK, proc
<1>3. CASE restore_done(b)
  BY <1>0, <1>3 DEF restore_done, TypeOK, proc
<1>4. CASE restore_stop(b)
  BY <1>0, <1>4 DEF restore_stop, TypeOK, proc
<1> QED BY <1>1, <1>2, <1>3, <1>4 DEF RollbackStep

\* A foreign edit preserves the types.
LEMMA EditType ==
  ASSUME TypeOK, NEW p \in Path, NEW c \in EditBytes, user_edit(p, c)
  PROVE  TypeOK'
<1>1. c \in State
  BY PlanAssumption
<1>2. dirty' \in [Rollback -> SUBSET Path]
  BY SmudgedType DEF user_edit
<1>3. live' \in [Path -> State] /\ user' \in [Path -> State] /\ blind' \in SUBSET Path /\ edits' \in Nat
  BY <1>1 DEF user_edit, TypeOK
<1> QED BY <1>2, <1>3 DEF user_edit, TypeOK, proc

\* All variables have their types in the next state, given the parts of the
\* inductive invariant that bound list positions and manifest entries.
LEMMA NextType ==
  ASSUME TypeOK, IInv, [Next]_vars
  PROVE  TypeOK'
<1>1. CASE Next
  BY <1>1, RunType, RollbackType, EditType DEF Next, IInv
<1>2. CASE UNCHANGED vars
  BY <1>2 DEF vars, proc, TypeOK
<1> QED BY <1>1, <1>2

-----------------------------------------------------------------------------
(* What a step of one process leaves alone *)

\* A step of an apply or a resume touches neither the history of foreign edits,
\* nor any rollback, nor the memory of another process, and in the snapshots at
\* most its own run's; it changes pending.toml only by naming itself at the end
\* of Phase A or by removing the file.
LEMMA RunFrame ==
  ASSUME TypeOK, MemoryMatchesDisk, NEW i \in Proc, RunStep(i)
  PROVE  /\ user' = user /\ blind' = blind /\ rb' = rb
         /\ \A j \in Proc : j # i =>
              pc'[j] = pc[j] /\ job'[j] = job[j] /\ k'[j] = k[j] /\ mem'[j] = mem[j]
         /\ backup' = backup \/ (i \in Run /\ capture_one(i))
         /\ \/ disk' = disk
            \/ i \in Run /\ execute_snapshot_step(i)
            \/ i \in Run /\ persist_manifest(i)
            \/ i \in Resume /\ write_manifest(i)
         /\ pending' \in {pending, NoRun} \/ (pending' = i /\ pc[i] = "pend" /\ disk' = disk /\ i \in Run)
<1>1. CASE i \in Run /\ run_apply(i)
  BY <1>1 DEF run_apply, Goto, TypeOK
<1>2. CASE i \in Run /\ capture_one(i)
  <2>1. \A j \in Proc : j # i => mem'[j] = mem[j]
    BY <1>2, CaptureEffect
  <2> QED BY <1>2, <2>1 DEF capture_one, Goto, TypeOK
<1>3. CASE i \in Run /\ execute_snapshot_step(i)
  BY <1>3 DEF execute_snapshot_step, Goto, TypeOK
<1>4. CASE read_target(i)
  BY <1>4 DEF read_target, Goto, TypeOK
<1>5. CASE pre_edit_check(i)
  BY <1>5 DEF pre_edit_check, Goto, TypeOK
<1>6. CASE snapshot_then_write(i)
  <2>1. \A j \in Proc : j # i => mem'[j] = mem[j]
    BY <1>6, WriteEffect
  <2>2. \A j \in Proc : j # i => pc'[j] = pc[j] /\ k'[j] = k[j]
    <3>1. \/ pc' = [pc EXCEPT ![i] = "persist"] /\ k' = k
          \/ pc' = [pc EXCEPT ![i] = "step"] /\ k' = [k EXCEPT ![i] = k[i] + 1]
      BY <1>6, WriteEffect
    <3> QED BY <3>1 DEF TypeOK
  <2> QED BY <1>6, <2>1, <2>2 DEF snapshot_then_write
<1>7. CASE i \in Run /\ persist_manifest(i)
  BY <1>7 DEF persist_manifest, Goto, TypeOK
<1>8. CASE i \in Run /\ write_pending(i)
  BY <1>8, ExitEffect DEF write_pending
<1>9. CASE i \in Resume /\ run_resume(i)
  BY <1>9 DEF run_resume, Goto, TypeOK
<1>10. CASE i \in Resume /\ execute_phase_b(i)
  BY <1>10 DEF execute_phase_b, Goto, TypeOK
<1>11. CASE i \in Resume /\ write_manifest(i)
  BY <1>11 DEF write_manifest, Goto, TypeOK
<1>12. CASE i \in Resume /\ clear_pending(i)
  BY <1>12, ExitEffect DEF clear_pending
<1>13. CASE stop(i)
  BY <1>13, ExitEffect DEF stop
<1> QED BY <1>1, <1>2, <1>3, <1>4, <1>5, <1>6, <1>7, <1>8, <1>9, <1>10, <1>11, <1>12, <1>13
        DEF RunStep, ApplyStep, ResumeStep, WriterStep

-----------------------------------------------------------------------------
(* A committed snapshot is frozen *)

\* Whoever persists a manifest that is already on disk, the apply or one of
\* several resumes, writes the same baseline back, and nobody touches the
\* backups again.
LEMMA RunFrozen ==
  ASSUME TypeOK, MemoryMatchesDisk, NEW i \in Proc, RunStep(i),
         NEW s \in Run, disk[s] # NoManifest
  PROVE  disk'[s] # NoManifest /\ disk'[s].pre = disk[s].pre /\ backup'[s] = backup[s]
<1>1. mem[i] \in Manifest /\ mem[i] # NoManifest /\ (i \in Run => job[i] = i)
  BY PlanAssumption, JobType DEF TypeOK
<1>2. backup'[s] = backup[s]
  <2>1. CASE i \in Run /\ capture_one(i)
    <3>1. s # i
      BY <2>1 DEF capture_one, MemoryMatchesDisk
    <3> QED BY <2>1, <3>1, CaptureEffect
  <2> QED BY <2>1, RunFrame
<1>3. CASE disk' = disk
  BY <1>2, <1>3
<1>4. CASE i \in Run /\ execute_snapshot_step(i)
  <2>1. s # i /\ disk' = [disk EXCEPT ![i] = mem[i]]
    BY <1>4 DEF execute_snapshot_step, MemoryMatchesDisk
  <2> QED BY <1>2, <2>1 DEF TypeOK
<1>5. CASE i \in Run /\ persist_manifest(i)
  <2>1. pc[i] \in Writing /\ disk' = [disk EXCEPT ![i] = mem[i]]
    BY <1>5 DEF persist_manifest, Writing
  <2>2. mem[i].pre = disk[i].pre
    BY <1>1, <1>5, <2>1 DEF MemoryMatchesDisk
  <2> QED BY <1>1, <1>2, <2>1, <2>2 DEF TypeOK
<1>6. CASE i \in Resume /\ write_manifest(i)
  <2>1. pc[i] \in Writing /\ disk' = [disk EXCEPT ![job[i]] = mem[i]]
    BY <1>6 DEF write_manifest, Writing
  <2>2. mem[i].pre = disk[job[i]].pre
    BY <2>1 DEF MemoryMatchesDisk
  <2> QED BY <1>1, <1>2, <2>1, <2>2 DEF TypeOK
<1> QED BY <1>3, <1>4, <1>5, <1>6, RunFrame

\* Every copy of a manifest that replaces the one on disk has the post-edit
\* hashes of Phase A that were there.
LEMMA HashesKept ==
  ASSUME TypeOK, MemoryMatchesDisk, WriteProgress, NEW i \in Proc, RunStep(i),
         NEW s \in Run, disk[s] # NoManifest
  PROVE  disk[s].edited \cap Elems(WorkA[s]) \subseteq disk'[s].edited
<1>1. CASE disk' = disk
  BY <1>1
<1>2. CASE i \in Run /\ execute_snapshot_step(i)
  <2>1. s # i /\ disk' = [disk EXCEPT ![i] = mem[i]]
    BY <1>2 DEF execute_snapshot_step, MemoryMatchesDisk
  <2> QED BY <2>1 DEF TypeOK
<1>3. CASE i \in Run /\ persist_manifest(i)
  <2>1. /\ disk' = [disk EXCEPT ![i] = mem[i]] /\ pc[i] = "step" /\ k[i] > Len(WorkA[i])
        /\ k[i] \in Nat /\ WorkA[i] \in Seq(Path)
    BY <1>3, PlanAssumption DEF persist_manifest, TypeOK
  <2>2. Elems(WorkA[i]) \subseteq mem[i].edited
    <3>1. \A n \in 1..Len(WorkA[i]) : n < k[i] => WorkA[i][n] \in mem[i].edited
      BY <1>3, <2>1 DEF WriteProgress
    <3> QED BY <2>1, <3>1 DEF Elems
  <2> QED BY <2>1, <2>2 DEF TypeOK
<1>4. CASE i \in Resume /\ write_manifest(i)
  <2>1. disk' = [disk EXCEPT ![job[i]] = mem[i]] /\ pc[i] \in Writing
    BY <1>4 DEF write_manifest, Writing
  <2>2. Elems(WorkA[job[i]]) \subseteq mem[i].edited
    BY <1>4, <2>1 DEF WriteProgress
  <2> QED BY <2>1, <2>2 DEF TypeOK
<1> QED BY <1>1, <1>2, <1>3, <1>4, RunFrame

\* A manifest first appears at the end of its own apply's capture.
LEMMA FirstManifest ==
  ASSUME TypeOK, MemoryMatchesDisk, NEW i \in Proc, RunStep(i),
         NEW s \in Run, disk[s] = NoManifest, disk'[s] # NoManifest
  PROVE  s = i /\ execute_snapshot_step(i)
<1>1. CASE i \in Run /\ execute_snapshot_step(i)
  BY <1>1 DEF execute_snapshot_step, TypeOK
<1>2. CASE i \in Run /\ persist_manifest(i)
  <2>1. pc[i] \in Writing /\ disk' = [disk EXCEPT ![i] = mem[i]] /\ job[i] = i
    BY <1>2, JobType DEF persist_manifest, Writing
  <2> QED BY <2>1 DEF TypeOK, MemoryMatchesDisk
<1>3. CASE i \in Resume /\ write_manifest(i)
  <2>1. pc[i] \in Writing /\ disk' = [disk EXCEPT ![job[i]] = mem[i]]
    BY <1>3 DEF write_manifest, Writing
  <2> QED BY <2>1 DEF TypeOK, MemoryMatchesDisk
<1> QED BY <1>1, <1>2, <1>3, RunFrame

\* The same for any step: rollbacks and foreign edits never touch a snapshot.
LEMMA Frozen ==
  ASSUME TypeOK, MemoryMatchesDisk, [Next]_vars, NEW s \in Run, disk[s] # NoManifest
  PROVE  disk'[s] # NoManifest /\ disk'[s].pre = disk[s].pre /\ backup'[s] = backup[s]
<1>1. ASSUME NEW i \in Proc, RunStep(i)
      PROVE  disk'[s] # NoManifest /\ disk'[s].pre = disk[s].pre /\ backup'[s] = backup[s]
  BY <1>1, RunFrozen
<1>2. ASSUME NEW b \in Rollback, RollbackStep(b)
      PROVE  disk' = disk /\ backup' = backup
  BY <1>2 DEF RollbackStep, restore_begin, restore_entry, restore_done, restore_stop
<1>3. ASSUME NEW p \in Path, NEW c \in EditBytes, user_edit(p, c)
      PROVE  disk' = disk /\ backup' = backup
  BY <1>3 DEF user_edit
<1>4. CASE UNCHANGED vars
  BY <1>4 DEF vars
<1> QED BY <1>1, <1>2, <1>3, <1>4 DEF Next

\* A process's memory keeps agreeing with the manifest of its run, whoever
\* persists that one.
LEMMA RunMemory ==
  ASSUME TypeOK, MemoryMatchesDisk, PendingIsDurable, NEW i \in Proc, RunStep(i)
  PROVE  MemoryMatchesDisk'
<1>a. /\ mem[i] \in Manifest /\ mem[i] # NoManifest /\ NoRun \notin Run
      /\ (i \in Run => job[i] = i /\ i \notin Resume) /\ (pc[i] \in Active => job[i] \in Run)
  BY PlanAssumption, JobType DEF TypeOK
<1> DEFINE Agrees(j) ==
      /\ j \in Run /\ pc[j] \in {"idle", "capture"} => disk[j] = NoManifest
      /\ pc[j] \in {"capture", "pend"} => j \in Run
      /\ pc[j] \in {"verify", "persist"} => j \in Resume
      /\ pc[j] \in Writing => disk[job[j]] # NoManifest /\ mem[j].pre = disk[job[j]].pre
      /\ pc[j] \in {"write", "check"} => k[j] <= Len(Work(j))
      /\ pc[j] = "verify" => disk[job[j]] # NoManifest
      /\ pc[j] \in Stopped \cup {"verify"} => mem[j] = Empty
<1>b. Agrees(i)
  BY DEF MemoryMatchesDisk
<1>c. ASSUME NEW j \in Proc, j # i
      PROVE  Agrees(j)'
  <2>1. pc'[j] = pc[j] /\ job'[j] = job[j] /\ k'[j] = k[j] /\ mem'[j] = mem[j]
    BY <1>c, RunFrame
  <2>2. Agrees(j) /\ (pc[j] \in Active => job[j] \in Run)
    BY JobType DEF MemoryMatchesDisk
  <2>3. j \in Run /\ pc[j] \in {"idle", "capture"} => disk'[j] = NoManifest
    BY <1>c, <2>2, FirstManifest
  <2>4. pc[j] \in Writing \cup {"verify"} =>
          disk'[job[j]] # NoManifest /\ disk'[job[j]].pre = disk[job[j]].pre
    BY <2>2, RunFrozen DEF Writing, Active
  <2>5. Work(j)' = Work(j)
    BY <2>1 DEF Work
  <2> QED BY <2>1, <2>2, <2>3, <2>4, <2>5
<1>0. SUFFICES Agrees(i)'
  BY <1>c DEF MemoryMatchesDisk
<1>1. CASE i \in Run /\ run_apply(i)
  BY <1>1, <1>a, <1>b DEF run_apply, Goto, TypeOK, Writing, Stopped
<1>2. CASE i \in Run /\ capture_one(i)
  BY <1>2, <1>a, <1>b DEF capture_one, Goto, TypeOK, Writing, Stopped
<1>3. CASE i \in Run /\ execute_snapshot_step(i)
  BY <1>3, <1>a DEF execute_snapshot_step, Goto, TypeOK, Writing, Stopped
<1>4. CASE read_target(i)
  BY <1>4, <1>a, <1>b DEF read_target, Goto, TypeOK, Writing, Stopped, Work
<1>5. CASE pre_edit_check(i)
  BY <1>5, <1>a, <1>b DEF pre_edit_check, Goto, TypeOK, Writing, Stopped, Work
<1>6. CASE snapshot_then_write(i)
  <2>1. pc[i] = "write" /\ disk' = disk /\ job' = job
    BY <1>6 DEF snapshot_then_write
  <2>2. mem'[i].pre = mem[i].pre
    BY <1>6, WriteEffect
  <2>3. \/ pc'[i] = "persist" /\ i \in Resume
        \/ pc'[i] = "step"
    BY <1>6, WriteEffect DEF TypeOK
  <2> QED BY <1>b, <2>1, <2>2, <2>3 DEF Writing, Stopped
<1>7. CASE i \in Run /\ persist_manifest(i)
  BY <1>7, <1>a DEF persist_manifest, Goto, TypeOK, Writing, Stopped
<1>8. CASE i \in Run /\ write_pending(i)
  BY <1>8, <1>a, ExitEffect DEF write_pending, Writing, Stopped
<1>9. CASE i \in Resume /\ run_resume(i)
  BY <1>9, <1>a, <1>b DEF run_resume, Goto, TypeOK, Writing, Stopped, PendingIsDurable
<1>10. CASE i \in Resume /\ execute_phase_b(i)
  BY <1>10, <1>a DEF execute_phase_b, Goto, TypeOK, Writing, Stopped
<1>11. CASE i \in Resume /\ write_manifest(i)
  BY <1>11, <1>a, <1>b DEF write_manifest, Goto, TypeOK, Writing, Stopped, Active
<1>12. CASE i \in Resume /\ clear_pending(i)
  <2>1. i \notin Run
    BY <1>12, <1>a
  <2> QED BY <1>12, <2>1, ExitEffect DEF clear_pending, Writing, Stopped
<1>13. CASE stop(i)
  BY <1>13, <1>a, ExitEffect DEF stop, Writing, Stopped
<1> QED BY <1>1, <1>2, <1>3, <1>4, <1>5, <1>6, <1>7, <1>8, <1>9, <1>10, <1>11, <1>12, <1>13
        DEF RunStep, ApplyStep, ResumeStep, WriterStep

\* What a snapshot keeps, it keeps as long as nobody leaves something new.
LEMMA KeptStable ==
  ASSUME TypeOK, MemoryMatchesDisk, [Next]_vars, NEW p \in Path, Kept(p), user'[p] = user[p]
  PROVE  Kept(p)'
<1>1. PICK s \in Run : /\ disk[s] # NoManifest /\ disk[s].pre[p] = user[p]
                       /\ user[p] # Absent => backup[s][BackupName[p]] = user[p]
  BY DEF Kept
<1>2. disk'[s] # NoManifest /\ disk'[s].pre = disk[s].pre /\ backup'[s] = backup[s]
  BY <1>1, Frozen
<1> QED BY <1>1, <1>2 DEF Kept

-----------------------------------------------------------------------------
(* The parts of the invariant that only runs can disturb *)

\* Capture walks the touched paths in order and gives each one an entry.
LEMMA RunCapture ==
  ASSUME TypeOK, MemoryMatchesDisk, CaptureProgress, NEW i \in Proc, RunStep(i)
  PROVE  CaptureProgress'
<1>a. ASSUME NEW s \in Run, s # i, pc'[s] = "capture", NEW n \in 1..Len(Touches[s]), n < k'[s]
      PROVE  mem'[s].pre[Touches[s][n]] # Unseen
  BY <1>a, RunFrame DEF CaptureProgress, Proc
<1>b. ASSUME i \in Run, pc'[i] = "capture", NEW n \in 1..Len(Touches[i]), n < k'[i]
      PROVE  mem'[i].pre[Touches[i][n]] # Unseen
  <2>a. k[i] \in Nat /\ Touches[i] \in Seq(Path) /\ Touches[i][n] \in Path
    BY <1>b, TouchesType DEF TypeOK
  <2>1. CASE run_apply(i)
    BY <1>b, <2>1 DEF run_apply, Goto, TypeOK
  <2>2. CASE capture_one(i)
    <3>1. PICK p : p = Touches[i][k[i]]
      OBVIOUS
    <3>2. p \in Path /\ mem'[i].pre[p] = live[p]
          /\ \A q \in Path : q # p => mem'[i].pre[q] = mem[i].pre[q]
      BY <1>b, <2>2, <3>1, CaptureEffect
    <3>3. live[p] # Unseen
      BY <3>2, PlanAssumption DEF TypeOK
    <3>4. k'[i] = k[i] + 1 /\ pc[i] = "capture"
      BY <2>2 DEF capture_one, Goto, TypeOK
    <3>5. CASE n = k[i]
      BY <3>1, <3>2, <3>3, <3>5
    <3>6. CASE n # k[i]
      <4>1. n < k[i]
        BY <1>b, <2>a, <3>4, <3>6
      <4>2. mem[i].pre[Touches[i][n]] # Unseen
        BY <1>b, <3>4, <4>1 DEF CaptureProgress
      <4> QED BY <2>a, <3>2, <3>3, <4>2
    <3> QED BY <3>5, <3>6
  <2>3. ~run_apply(i) /\ ~capture_one(i) => pc'[i] # "capture"
    <3>1. CASE snapshot_then_write(i)
      BY <3>1, WriteEffect DEF TypeOK
    <3>2. CASE write_pending(i) \/ clear_pending(i) \/ stop(i)
      BY <3>2, ExitEffect DEF write_pending, clear_pending, stop, Stopped
    <3> QED BY <3>1, <3>2 DEF RunStep, ApplyStep, ResumeStep, WriterStep, execute_snapshot_step,
              read_target, pre_edit_check, persist_manifest, run_resume, execute_phase_b,
              write_manifest, Goto, TypeOK
  <2> QED BY <1>b, <2>1, <2>2, <2>3
<1> QED BY <1>a, <1>b DEF CaptureProgress

\* manifest.toml first appears when every touched path has its entry, and later
\* persists keep the entries.
LEMMA RunEntries ==
  ASSUME TypeOK, MemoryMatchesDisk, CaptureProgress, EntriesComplete, NEW i \in Proc, RunStep(i)
  PROVE  EntriesComplete'
<1>1. ASSUME NEW s \in Run, disk[s] # NoManifest, NEW p \in Elems(Touches[s])
      PROVE  disk'[s].pre[p] # Unseen
  BY <1>1, RunFrozen DEF EntriesComplete
<1>2. ASSUME NEW s \in Run, disk[s] = NoManifest, disk'[s] # NoManifest, NEW p \in Elems(Touches[s])
      PROVE  disk'[s].pre[p] # Unseen
  <2>1. s = i /\ execute_snapshot_step(i)
    BY <1>2, FirstManifest
  <2>2. disk'[i] = mem[i] /\ pc[i] = "capture" /\ k[i] > Len(Touches[i]) /\ k[i] \in Nat
    BY <2>1 DEF execute_snapshot_step, TypeOK
  <2>3. PICK n \in 1..Len(Touches[i]) : p = Touches[i][n]
    BY <1>2, <2>1 DEF Elems
  <2>4. n < k[i]
    BY <2>1, <2>2, TouchesType
  <2> QED BY <2>1, <2>2, <2>3, <2>4 DEF CaptureProgress
<1> QED BY <1>1, <1>2 DEF EntriesComplete

\* An entry for a file that existed and its backup are made in one step of
\* capture_one, from the same bytes; distinct paths have distinct backups.
LEMMA RunBackups ==
  ASSUME TypeOK, MemoryMatchesDisk, BackupsMatch, NEW i \in Proc, RunStep(i)
  PROVE  BackupsMatch'
<1>a. (i \in Run => job[i] = i) /\ (pc[i] \in Active => job[i] \in Run)
  BY JobType
<1>1. ASSUME NEW s \in Run, disk[s] # NoManifest
      PROVE  Backed(s, disk[s].pre)'
  <2>1. disk'[s].pre = disk[s].pre /\ backup'[s] = backup[s] /\ Backed(s, disk[s].pre)
    BY <1>1, RunFrozen DEF BackupsMatch
  <2> QED BY <2>1 DEF Backed
<1>2. ASSUME NEW j \in Proc, j # i, pc'[j] \in Active
      PROVE  Backed(job[j], mem[j].pre)'
  <2>1. pc'[j] = pc[j] /\ mem'[j] = mem[j] /\ job'[j] = job[j] /\ job[j] \in Run
    BY <1>2, RunFrame, JobType
  <2>2. Backed(job[j], mem[j].pre)
    BY <1>2, <2>1 DEF BackupsMatch
  <2>3. backup'[job[j]] = backup[job[j]] \/ mem[j] = Empty
    <3>1. CASE disk[job[j]] # NoManifest
      BY <2>1, <3>1, RunFrozen
    <3>2. CASE disk[job[j]] = NoManifest
      <4>1. pc[j] = "capture"
        BY <1>2, <2>1, <3>2 DEF MemoryMatchesDisk, Active, Writing
      <4>2. j \in Run /\ job[j] = j
        BY <4>1, JobType DEF MemoryMatchesDisk
      <4>3. backup'[j] = backup[j]
        BY <1>2, <4>2, RunFrame, CaptureEffect
      <4> QED BY <4>2, <4>3
    <3> QED BY <3>1, <3>2
  <2> QED BY <2>1, <2>2, <2>3 DEF Backed, Empty
<1>3. ASSUME pc'[i] \in Active
      PROVE  Backed(job[i], mem[i].pre)'
  <2>1. CASE i \in Run /\ capture_one(i)
    <3>1. PICK p : p = Touches[i][k[i]]
      OBVIOUS
    <3>2. /\ p \in Path /\ mem'[i].pre[p] = live[p]
          /\ \A q \in Path : q # p => mem'[i].pre[q] = mem[i].pre[q]
          /\ live[p] # Absent => backup'[i][BackupName[p]] = live[p]
          /\ \A q \in Path : q # p => backup'[i][BackupName[q]] = backup[i][BackupName[q]]
      BY <2>1, <3>1, CaptureEffect
    <3>3. Backed(i, mem[i].pre) /\ job'[i] = i
      BY <1>a, <2>1 DEF capture_one, BackupsMatch, Active
    <3> QED BY <3>2, <3>3 DEF Backed
  <2>2. CASE snapshot_then_write(i)
    <3>1. mem'[i].pre = mem[i].pre /\ backup' = backup /\ job' = job
      BY <2>2, WriteEffect DEF snapshot_then_write
    <3>2. Backed(job[i], mem[i].pre)
      BY <2>2 DEF snapshot_then_write, BackupsMatch, Active
    <3> QED BY <3>1, <3>2 DEF Backed
  <2>3. CASE (i \in Run /\ run_apply(i)) \/ (i \in Resume /\ run_resume(i))
    <3>1. mem'[i] = Empty
      BY <2>3 DEF run_apply, run_resume, MemoryMatchesDisk, Stopped
    <3> QED BY <3>1 DEF Backed, Empty
  <2>4. CASE i \in Resume /\ execute_phase_b(i)
    <3>1. disk[job[i]] # NoManifest /\ mem'[i] = disk[job[i]] /\ disk' = disk /\ job' = job /\ job[i] \in Run
      BY <1>a, <2>4 DEF execute_phase_b, TypeOK, Active
    <3>2. Backed(job[i], disk[job[i]].pre)'
      BY <3>1, <1>1
    <3> QED BY <3>1, <3>2 DEF Backed
  <2>5. CASE execute_snapshot_step(i) \/ read_target(i) \/ pre_edit_check(i)
             \/ persist_manifest(i) \/ write_manifest(i)
    <3>1. mem' = mem /\ backup' = backup /\ pc[i] \in Active /\ job' = job
      BY <2>5 DEF execute_snapshot_step, read_target, pre_edit_check, persist_manifest,
           write_manifest, Active
    <3>2. Backed(job[i], mem[i].pre)
      BY <3>1 DEF BackupsMatch
    <3> QED BY <3>1, <3>2 DEF Backed
  <2>6. CASE write_pending(i) \/ clear_pending(i) \/ stop(i)
    BY <1>3, <2>6, ExitEffect DEF write_pending, clear_pending, stop, Stopped, Active
  <2> QED BY <2>1, <2>2, <2>3, <2>4, <2>5, <2>6 DEF RunStep, ApplyStep, ResumeStep, WriterStep
<1>4. ASSUME NEW s \in Run, disk[s] = NoManifest, disk'[s] # NoManifest
      PROVE  Backed(s, disk[s].pre)'
  <2>1. s = i /\ execute_snapshot_step(i)
    BY <1>4, FirstManifest
  <2>2. disk'[i] = mem[i] /\ mem' = mem /\ pc'[i] \in Active /\ job'[i] = i
    BY <1>a, <2>1 DEF execute_snapshot_step, TypeOK, Goto, Active
  <2> QED BY <1>3, <2>1, <2>2 DEF Backed
<1> QED BY <1>1, <1>2, <1>3, <1>4 DEF BackupsMatch

\* Phase A records the post-edit hash of each path it has written, and persists
\* the manifest only after the last one.
LEMMA ApplyWrites ==
  ASSUME TypeOK, MemoryMatchesDisk, WriteProgress, NEW i \in Proc, RunStep(i), NEW r \in Run
  PROVE  /\ pc'[r] \in {"step", "check", "write"} =>
              \A n \in 1..Len(WorkA[r]) : n < k'[r] => WorkA[r][n] \in mem'[r].edited
         /\ pc'[r] = "pend" => Elems(WorkA[r]) \subseteq disk'[r].edited
<1>a. /\ pc[r] \in {"step", "check", "write"} =>
           \A n \in 1..Len(WorkA[r]) : n < k[r] => WorkA[r][n] \in mem[r].edited
      /\ pc[r] = "pend" => Elems(WorkA[r]) \subseteq disk[r].edited
  BY DEF WriteProgress
<1>b. r \in Proc /\ r \notin Resume /\ job[r] = r /\ k[r] \in Nat \ {0} /\ WorkA[r] \in Seq(Path)
  BY PlanAssumption, JobType DEF Proc, TypeOK
<1>c. pc[r] = "pend" => Elems(WorkA[r]) \subseteq disk'[r].edited
  <2>1. pc[r] = "pend" => disk[r] # NoManifest
    BY <1>b DEF MemoryMatchesDisk, Writing
  <2> QED BY <1>a, <2>1, HashesKept
<1>d. CASE r # i
  BY <1>a, <1>b, <1>c, <1>d, RunFrame
<1>e. CASE r = i
  <2>1. CASE run_apply(r) \/ capture_one(r) \/ execute_snapshot_step(r) \/ run_resume(r)
    BY <1>b, <2>1 DEF run_apply, capture_one, execute_snapshot_step, run_resume, Goto, TypeOK
  <2>2. CASE read_target(r) \/ pre_edit_check(r)
    BY <1>a, <1>b, <2>2 DEF read_target, pre_edit_check, Goto, TypeOK
  <2>3. CASE snapshot_then_write(r)
    <3>1. pc[r] = "write"
      BY <2>3 DEF snapshot_then_write
    <3>2. PICK p : p = Target(r)
      OBVIOUS
    <3>3. mem'[r].edited = mem[r].edited \cup {p}
      BY <1>b, <2>3, <3>2, WriteEffect
    <3>4. pc'[r] = "step" /\ k'[r] = k[r] + 1
      BY <1>b, <2>3, WriteEffect DEF TypeOK
    <3>5. ASSUME NEW n \in 1..Len(WorkA[r]), n < k'[r]
          PROVE  WorkA[r][n] \in mem'[r].edited
      <4>1. n = k[r] \/ n < k[r]
        BY <1>b, <3>4, <3>5
      <4>2. CASE n = k[r]
        BY <1>b, <3>2, <3>3, <4>2 DEF Target, Work
      <4>3. CASE n < k[r]
        BY <1>a, <3>1, <3>3, <4>3
      <4> QED BY <4>1, <4>2, <4>3
    <3> QED BY <3>4, <3>5
  <2>4. CASE persist_manifest(r)
    <3>1. disk'[r] = mem[r] /\ pc'[r] = "pend" /\ pc[r] = "step" /\ k[r] > Len(WorkA[r])
      BY <1>b, <2>4 DEF persist_manifest, Goto, TypeOK
    <3>2. \A n \in 1..Len(WorkA[r]) : WorkA[r][n] \in mem[r].edited
      BY <1>a, <1>b, <3>1
    <3> QED BY <3>1, <3>2 DEF Elems
  <2>5. CASE write_pending(r) \/ stop(r)
    BY <1>b, <2>5, ExitEffect DEF write_pending, stop, Stopped
  <2> QED BY <1>b, <1>e, <2>1, <2>2, <2>3, <2>4, <2>5 DEF RunStep, ApplyStep, WriterStep
<1> QED BY <1>d, <1>e

\* A resume takes the hashes of Phase A over from the manifest it loads, and no
\* other resume removes them there.
LEMMA ResumeWrites ==
  ASSUME TypeOK, MemoryMatchesDisk, WriteProgress, PendingIsDurable,
         NEW i \in Proc, RunStep(i), NEW j \in Resume
  PROVE  /\ pc'[j] \in Active => Elems(WorkA[job'[j]]) \subseteq disk'[job'[j]].edited
         /\ pc'[j] \in Writing => Elems(WorkA[job'[j]]) \subseteq mem'[j].edited
<1>a. /\ pc[j] \in Active => Elems(WorkA[job[j]]) \subseteq disk[job[j]].edited
      /\ pc[j] \in Writing => Elems(WorkA[job[j]]) \subseteq mem[j].edited
  BY DEF WriteProgress
<1>b. j \in Proc /\ j \notin Run /\ NoRun \notin Run /\ (pc[j] \in Active => job[j] \in Run)
  BY PlanAssumption, JobType DEF Proc
<1>c. pc[j] \in Active => Elems(WorkA[job[j]]) \subseteq disk'[job[j]].edited
  <2>1. pc[j] \in Active => disk[job[j]] # NoManifest
    BY <1>b DEF MemoryMatchesDisk, Writing, Active
  <2> QED BY <1>a, <1>b, <2>1, HashesKept
<1>d. CASE j # i
  BY <1>a, <1>b, <1>c, <1>d, RunFrame
<1>e. CASE j = i
  <2>1. CASE run_resume(j)
    <3>1. /\ pc'[j] = "verify" /\ job'[j] = pending /\ disk' = disk /\ pending # NoRun
      BY <1>b, <2>1 DEF run_resume, Goto, TypeOK
    <3> QED BY <3>1 DEF PendingIsDurable, Writing
  <2>2. CASE execute_phase_b(j)
    <3>1. pc[j] \in Active /\ job' = job /\ mem'[j] = disk[job[j]] /\ disk' = disk
      BY <1>b, <2>2 DEF execute_phase_b, TypeOK, Active
    <3> QED BY <1>a, <3>1
  <2>3. CASE read_target(j) \/ pre_edit_check(j)
    <3>1. pc[j] \in Active /\ pc[j] \in Writing /\ job' = job /\ mem' = mem /\ disk' = disk
      BY <1>b, <2>3 DEF read_target, pre_edit_check, Writing, Active
    <3> QED BY <1>a, <3>1
  <2>4. CASE write_manifest(j)
    <3>1. pc[j] \in Active /\ pc[j] \in Writing /\ job' = job /\ mem' = mem
      BY <1>b, <2>4 DEF write_manifest, Writing, Active
    <3> QED BY <1>a, <1>c, <3>1
  <2>5. CASE snapshot_then_write(j)
    <3>1. pc[j] \in Active /\ pc[j] \in Writing /\ job' = job /\ disk' = disk
      BY <2>5 DEF snapshot_then_write, Writing, Active
    <3>2. mem[j].edited \subseteq mem'[j].edited
      BY <1>b, <2>5, WriteEffect
    <3> QED BY <1>a, <3>1, <3>2
  <2>6. CASE clear_pending(j) \/ stop(j)
    BY <1>b, <2>6, ExitEffect DEF clear_pending, stop, Stopped, Active, Writing
  <2> QED BY <1>b, <1>e, <2>1, <2>2, <2>3, <2>4, <2>5, <2>6 DEF RunStep, ResumeStep, WriterStep
<1> QED BY <1>d, <1>e

\* Both together.
LEMMA RunWrites ==
  ASSUME TypeOK, MemoryMatchesDisk, WriteProgress, PendingIsDurable, NEW i \in Proc, RunStep(i)
  PROVE  WriteProgress'
BY ApplyWrites, ResumeWrites DEF WriteProgress

\* pending.toml is written after the manifest that carries all Phase A hashes.
LEMMA RunPending ==
  ASSUME TypeOK, MemoryMatchesDisk, WriteProgress, PendingIsDurable, NEW i \in Proc, RunStep(i)
  PROVE  PendingIsDurable'
<1>1. CASE pending' = NoRun
  BY <1>1 DEF PendingIsDurable
<1>2. CASE pending' = pending /\ pending # NoRun
  <2>1. pending \in Run /\ disk[pending] # NoManifest /\ Elems(WorkA[pending]) \subseteq disk[pending].edited
    BY <1>2 DEF TypeOK, PendingIsDurable
  <2>2. disk'[pending] # NoManifest /\ Elems(WorkA[pending]) \subseteq disk'[pending].edited
    BY <2>1, RunFrozen, HashesKept
  <2> QED BY <1>2, <2>2 DEF PendingIsDurable
<1>3. CASE pending' = i /\ pc[i] = "pend" /\ disk' = disk /\ i \in Run
  <2>1. disk[i] # NoManifest /\ Elems(WorkA[i]) \subseteq disk[i].edited
    BY <1>3, JobType DEF WriteProgress, MemoryMatchesDisk, Writing
  <2> QED BY <1>3, <2>1 DEF PendingIsDurable
<1> QED BY <1>1, <1>2, <1>3, RunFrame

-----------------------------------------------------------------------------
(* Rollback does what it reports *)

\* A run that writes a file while a rollback is under way makes the rollback not
\* answerable for that file; otherwise it leaves the restored files alone.
LEMMA RunRollback ==
  ASSUME TypeOK, MemoryMatchesDisk, RollbackMatchesDisk, RollbackComplete,
         NEW i \in Proc, RunStep(i)
  PROVE  RollbackMatchesDisk' /\ RollbackComplete'
<1>1. rb' = rb
  BY RunFrame
<1>2. RollbackMatchesDisk'
  <2>1. ASSUME NEW b \in Rollback, rb[b].id # NoRun
        PROVE  disk'[rb[b].id] # NoManifest /\ rb[b].pre = disk'[rb[b].id].pre
    <3>1. rb[b].id \in Run /\ disk[rb[b].id] # NoManifest /\ rb[b].pre = disk[rb[b].id].pre
      BY <2>1 DEF RollbackMatchesDisk, TypeOK
    <3> QED BY <3>1, RunFrozen
  <2> QED BY <1>1, <2>1 DEF RollbackMatchesDisk
<1>3. ASSUME NEW b \in Rollback, rb[b].id # NoRun, NEW q \in Path, q \notin dirty'[b]
      PROVE  q \notin dirty[b] /\ live'[q] = live[q]
  <2>1. CASE snapshot_then_write(i)
    <3>1. PICK p : p = Target(i)
      OBVIOUS
    <3>2. p \in Path /\ dirty' = Smudged(p) /\ \A x \in Path : x # p => live'[x] = live[x]
      BY <2>1, <3>1, WriteEffect
    <3>3. rb[b].pc # "idle"
      BY <1>3 DEF RollbackMatchesDisk
    <3>4. dirty'[b] = dirty[b] \cup {p}
      BY <3>2, <3>3 DEF Smudged
    <3> QED BY <1>3, <3>2, <3>4
  <2>2. CASE ~snapshot_then_write(i)
    <3>1. live' = live /\ dirty' = dirty
      BY <2>2 DEF RunStep, ApplyStep, ResumeStep, WriterStep, run_apply, capture_one,
         execute_snapshot_step, read_target, pre_edit_check, persist_manifest, write_pending,
         run_resume, execute_phase_b, write_manifest, clear_pending, stop
    <3> QED BY <1>3, <3>1
  <2> QED BY <2>1, <2>2
<1>4. RollbackComplete'
  <2>1. ASSUME NEW b \in Rollback, rb[b].id # NoRun, NEW n \in 1..Len(Touches[rb[b].id]),
               n < rb[b].k, Touches[rb[b].id][n] \notin dirty'[b]
        PROVE  live'[Touches[rb[b].id][n]] = rb[b].pre[Touches[rb[b].id][n]]
    <3>1. PICK q : q = Touches[rb[b].id][n]
      OBVIOUS
    <3>2. rb[b].id \in Run
      BY <2>1 DEF TypeOK
    <3>3. q \in Path
      BY <3>1, <3>2, TouchesType
    <3>4. q \notin dirty[b] /\ live'[q] = live[q]
      BY <1>3, <2>1, <3>1, <3>3
    <3>5. live[q] = rb[b].pre[q]
      BY <2>1, <3>1, <3>4 DEF RollbackComplete
    <3> QED BY <3>1, <3>4, <3>5
  <2> QED BY <1>1, <2>1 DEF RollbackComplete
<1> QED BY <1>2, <1>4

\* The same for a foreign edit.
LEMMA EditRollback ==
  ASSUME TypeOK, RollbackMatchesDisk, RollbackComplete,
         NEW p \in Path, NEW c \in EditBytes, user_edit(p, c)
  PROVE  RollbackMatchesDisk' /\ RollbackComplete'
<1>1. rb' = rb /\ disk' = disk /\ dirty' = Smudged(p) /\ live' = [live EXCEPT ![p] = c]
  BY DEF user_edit
<1>2. RollbackMatchesDisk'
  BY <1>1 DEF RollbackMatchesDisk
<1>3. ASSUME NEW b \in Rollback, rb[b].id # NoRun, NEW i \in 1..Len(Touches[rb[b].id]),
             i < rb[b].k, Touches[rb[b].id][i] \notin dirty'[b]
      PROVE  live'[Touches[rb[b].id][i]] = rb[b].pre[Touches[rb[b].id][i]]
  <2>1. PICK q : q = Touches[rb[b].id][i]
    OBVIOUS
  <2>2. rb[b].id \in Run /\ rb[b].pc # "idle"
    BY <1>3 DEF TypeOK, RollbackMatchesDisk
  <2>3. q \in Path
    BY <2>1, <2>2, TouchesType
  <2>4. dirty'[b] = dirty[b] \cup {p}
    BY <1>1, <2>2 DEF Smudged
  <2>5. q \notin dirty[b] /\ q # p
    BY <1>3, <2>1, <2>4
  <2>6. live[q] = rb[b].pre[q]
    BY <1>3, <2>1, <2>5 DEF RollbackComplete
  <2> QED BY <1>1, <2>1, <2>3, <2>5, <2>6 DEF TypeOK
<1> QED BY <1>1, <1>2, <1>3 DEF RollbackComplete

\* Restoring one entry puts its file back and leaves the earlier ones alone.
LEMMA RestoreRollback ==
  ASSUME TypeOK, RollbackMatchesDisk, RollbackComplete, EntriesComplete,
         NEW b \in Rollback, restore_entry(b)
  PROVE  RollbackMatchesDisk' /\ RollbackComplete'
<1>1. PICK s, p : s = rb[b].id /\ p = Touches[s][rb[b].k]
  OBVIOUS
<1>2. /\ s \in Run /\ p \in Path /\ rb[b].pc = "run" /\ disk' = disk /\ rb[b].k \in Nat
      /\ rb[b] \in [pc : {"idle", "run", "done", "failed"}, id : Run \cup {NoRun},
                    k : Nat \ {0}, pre : [Path -> State \cup {Unseen}]]
  BY <1>1, RestoreEffect DEF restore_entry, TypeOK
<1>3. CASE /\ live' = [live EXCEPT ![p] = rb[b].pre[p]]
           /\ rb' = [rb EXCEPT ![b].k = rb[b].k + 1]
           /\ dirty' = [Smudged(p) EXCEPT ![b] = dirty[b] \ {p}]
  <2>1. /\ rb'[b].pc = rb[b].pc /\ rb'[b].id = rb[b].id /\ rb'[b].pre = rb[b].pre
        /\ rb'[b].k = rb[b].k + 1
    BY <1>2, <1>3 DEF TypeOK
  <2>2. \A a \in Rollback : a # b => rb'[a] = rb[a]
    BY <1>3 DEF TypeOK
  <2>3. RollbackMatchesDisk'
    BY <1>2, <2>1, <2>2 DEF RollbackMatchesDisk
  <2>4. dirty'[b] = dirty[b] \ {p} /\ \A a \in Rollback : a # b => dirty'[a] = Smudged(p)[a]
    BY <1>2, <1>3, SmudgedType
  <2>5. ASSUME NEW i \in 1..Len(Touches[s]), i < rb[b].k + 1, Touches[s][i] \notin dirty'[b]
        PROVE  live'[Touches[s][i]] = rb[b].pre[Touches[s][i]]
    <3>1. PICK q : q = Touches[s][i]
      OBVIOUS
    <3>2. q \in Path
      BY <1>2, <3>1, TouchesType
    <3>3. CASE q = p
      BY <1>2, <1>3, <3>1, <3>3 DEF TypeOK
    <3>4. CASE q # p
      <4>1. i # rb[b].k
        BY <1>1, <3>1, <3>4
      <4>2. i < rb[b].k
        BY <1>2, <2>5, <4>1
      <4>3. q \notin dirty[b]
        BY <2>4, <2>5, <3>1, <3>4
      <4>4. live[q] = rb[b].pre[q]
        BY <1>1, <1>2, <3>1, <4>2, <4>3, PlanAssumption DEF RollbackComplete
      <4> QED BY <1>3, <3>1, <3>2, <3>4, <4>4 DEF TypeOK
    <3> QED BY <3>3, <3>4
  <2>6. ASSUME NEW a \in Rollback, a # b, rb[a].id # NoRun, NEW i \in 1..Len(Touches[rb[a].id]),
               i < rb[a].k, Touches[rb[a].id][i] \notin dirty'[a]
        PROVE  live'[Touches[rb[a].id][i]] = rb[a].pre[Touches[rb[a].id][i]]
    <3>1. PICK q : q = Touches[rb[a].id][i]
      OBVIOUS
    <3>2. rb[a].id \in Run /\ rb[a].pc # "idle"
      BY <2>6 DEF TypeOK, RollbackMatchesDisk
    <3>3. q \in Path
      BY <3>1, <3>2, TouchesType
    <3>4. dirty'[a] = dirty[a] \cup {p}
      BY <2>4, <2>6, <3>2 DEF Smudged
    <3>5. q \notin dirty[a] /\ q # p
      BY <2>6, <3>1, <3>4
    <3>6. live[q] = rb[a].pre[q]
      BY <2>6, <3>1, <3>5 DEF RollbackComplete
    <3> QED BY <1>3, <3>1, <3>3, <3>5, <3>6 DEF TypeOK
  <2> QED BY <1>1, <2>1, <2>2, <2>3, <2>5, <2>6 DEF RollbackComplete
<1>4. CASE rb' = [rb EXCEPT ![b].pc = "failed"] /\ UNCHANGED <<live, user, dirty>>
  <2>1. /\ rb'[b].pc = "failed" /\ rb'[b].id = rb[b].id /\ rb'[b].pre = rb[b].pre
        /\ rb'[b].k = rb[b].k
    BY <1>2, <1>4 DEF TypeOK
  <2>2. \A a \in Rollback : a # b => rb'[a] = rb[a]
    BY <1>4 DEF TypeOK
  <2>3. RollbackMatchesDisk'
    BY <1>2, <2>1, <2>2 DEF RollbackMatchesDisk
  <2>4. RollbackComplete'
    BY <1>4, <2>1, <2>2 DEF RollbackComplete
  <2> QED BY <2>3, <2>4
<1> QED BY <1>1, <1>3, <1>4, RestoreEffect

\* Every step of a rollback keeps what the rollback has restored so far.
LEMMA StepRollback ==
  ASSUME TypeOK, RollbackMatchesDisk, RollbackComplete, EntriesComplete,
         NEW b \in Rollback, RollbackStep(b)
  PROVE  RollbackMatchesDisk' /\ RollbackComplete'
<1>0. /\ rb[b] \in [pc : {"idle", "run", "done", "failed"}, id : Run \cup {NoRun},
                    k : Nat \ {0}, pre : [Path -> State \cup {Unseen}]]
      /\ NoRun \notin Run
  BY PlanAssumption DEF TypeOK
<1>1. ASSUME NEW s \in Run, restore_begin(b, s)
      PROVE  RollbackMatchesDisk' /\ RollbackComplete'
  <2>1. /\ disk' = disk /\ live' = live
        /\ \A a \in Rollback : a # b => rb'[a] = rb[a] /\ dirty'[a] = dirty[a]
    BY <1>1 DEF restore_begin, TypeOK
  <2>2. /\ rb'[b].pc = "run" /\ rb'[b].id = s /\ rb'[b].k = 1 /\ rb'[b].pre = disk[s].pre
        /\ disk[s] # NoManifest
    BY <1>0, <1>1 DEF restore_begin, TypeOK
  <2>3. RollbackMatchesDisk'
    BY <1>0, <2>1, <2>2 DEF RollbackMatchesDisk
  <2>4. ASSUME NEW i \in 1..Len(Touches[rb'[b].id])
        PROVE  ~(i < rb'[b].k)
    BY <2>2
  <2> QED BY <2>1, <2>3, <2>4 DEF RollbackComplete
<1>2. CASE restore_entry(b)
  BY <1>2, RestoreRollback
<1>3. CASE restore_done(b) \/ restore_stop(b)
  <2>1. /\ disk' = disk /\ live' = live /\ dirty' = dirty /\ rb[b].pc = "run"
        /\ \A a \in Rollback : a # b => rb'[a] = rb[a]
    BY <1>3 DEF restore_done, restore_stop, TypeOK
  <2>2. /\ rb'[b].pc \in {"done", "failed"}
        /\ rb'[b].id = rb[b].id /\ rb'[b].k = rb[b].k /\ rb'[b].pre = rb[b].pre
    BY <1>0, <1>3 DEF restore_done, restore_stop, TypeOK
  <2>3. RollbackMatchesDisk'
    BY <2>1, <2>2 DEF RollbackMatchesDisk
  <2>4. RollbackComplete'
    BY <2>1, <2>2 DEF RollbackComplete
  <2> QED BY <2>3, <2>4
<1> QED BY <1>1, <1>2, <1>3 DEF RollbackStep

-----------------------------------------------------------------------------
(* Nobody's bytes are lost *)

\* The three parts of the invariant about foreign bytes.
Safe == UnguardedIsSafe /\ CheckedIsKept /\ UserBytesKept

\* A process that passed its check may write: what a person left at the target
\* is the captured content, hence in the run's own snapshot, or was kept before.
LEMMA CheckMakesKept ==
  ASSUME TypeOK, IInv, NEW i \in Proc, pre_edit_check(i),
         NEW p, p = Target(i)
  PROVE  p \in Path /\ mem[i].pre[p] # Unseen /\ (p \in blind \/ Kept(p))
<1>1. k[i] <= Len(Work(i)) /\ pc[i] = "check" /\ mem[i].pre[p] # Unseen
      /\ (mem[i].pre[p] # Absent => live[p] = mem[i].pre[p])
  BY DEF pre_edit_check, MatchesCapture, IInv, MemoryMatchesDisk
<1>2. p \in Path /\ job[i] \in Run
  BY <1>1, WorkType, JobType DEF Active
<1>3. disk[job[i]] # NoManifest /\ disk[job[i]].pre = mem[i].pre
  BY <1>1 DEF IInv, MemoryMatchesDisk, Writing
<1>4. mem[i].pre[p] # Absent => backup[job[i]][BackupName[p]] = mem[i].pre[p]
  BY <1>1, <1>2 DEF IInv, BackupsMatch, Backed, Active
<1>5. CASE mem[i].pre[p] # Absent
  BY <1>1, <1>2, <1>3, <1>4, <1>5 DEF IInv, UserBytesKept, Kept
<1>6. CASE mem[i].pre[p] = Absent
  <2>1. Exposed(p)
    BY <1>1, <1>6 DEF Exposed, Unguarded, Active
  <2>2. p \in blind \/ user[p] = Absent \/ Kept(p)
    BY <1>2, <2>1 DEF IInv, UnguardedIsSafe
  <2>3. user[p] = Absent => Kept(p)
    BY <1>2, <1>3, <1>6 DEF Kept
  <2> QED BY <1>1, <1>2, <2>2, <2>3
<1> QED BY <1>1, <1>2, <1>5, <1>6

\* The process that takes a step can newly write a path unseen only when capture
\* finds no file there, or when the check of that path has just passed.
LEMMA OwnUnguarded ==
  ASSUME TypeOK, IInv, NEW i \in Proc, RunStep(i), NEW p \in Path, Unguarded(i, p)'
  PROVE  \/ Exposed(p)
         \/ live[p] = Absent
         \/ pre_edit_check(i) /\ p = Target(i)
<1>0. Absent # Unseen /\ NoRun \notin Run /\ MemoryMatchesDisk /\ Empty.pre[p] = Unseen
  BY PlanAssumption DEF State, IInv, Empty
<1>a. pc[i] \in Active /\ mem[i].pre[p] = Absent => Exposed(p)
  BY DEF Exposed, Unguarded
<1>1. CASE i \in Run /\ run_apply(i)
  <2>1. mem'[i] = Empty /\ pc'[i] = "capture"
    BY <1>0, <1>1 DEF run_apply, Goto, MemoryMatchesDisk, Stopped, TypeOK
  <2> QED BY <1>0, <2>1 DEF Unguarded
<1>2. CASE i \in Run /\ capture_one(i)
  <2>1. PICK x : x = Touches[i][k[i]]
    OBVIOUS
  <2>2. /\ mem'[i].pre[x] = live[x]
        /\ \A q \in Path : q # x => mem'[i].pre[q] = mem[i].pre[q]
    BY <1>2, <2>1, CaptureEffect
  <2>3. pc[i] \in Active /\ pc'[i] = "capture"
    BY <1>2 DEF capture_one, Goto, TypeOK, Active
  <2> QED BY <1>a, <2>1, <2>2, <2>3 DEF Unguarded
<1>3. CASE execute_snapshot_step(i) \/ read_target(i) \/ persist_manifest(i) \/ write_manifest(i)
  <2>1. pc[i] \in Active /\ pc'[i] \in {"step", "check", "pend"} /\ mem' = mem
    BY <1>3 DEF execute_snapshot_step, read_target, persist_manifest, write_manifest, Goto, TypeOK, Active
  <2> QED BY <1>a, <2>1 DEF Unguarded
<1>4. CASE pre_edit_check(i)
  <2>1. pc[i] \in Active /\ pc'[i] = "write" /\ mem' = mem /\ job' = job /\ k'[i] = k[i]
    BY <1>4 DEF pre_edit_check, Goto, TypeOK, Active
  <2>2. Target(i)' = Target(i)
    BY <2>1 DEF Target, Work
  <2> QED BY <1>4, <1>a, <2>1, <2>2 DEF Unguarded
<1>5. CASE snapshot_then_write(i)
  <2>1. pc[i] \in Active /\ mem'[i].pre = mem[i].pre
    BY <1>0, <1>5, WriteEffect DEF snapshot_then_write, Active
  <2>2. pc'[i] \in {"persist", "step"}
    BY <1>0, <1>5, WriteEffect DEF TypeOK
  <2> QED BY <1>a, <2>1, <2>2 DEF Unguarded
<1>6. CASE i \in Resume /\ run_resume(i)
  <2>1. /\ pending # NoRun /\ job'[i] = pending /\ pc'[i] = "verify" /\ disk' = disk /\ mem'[i] = Empty
    BY <1>0, <1>6 DEF run_resume, Goto, TypeOK, MemoryMatchesDisk, Stopped
  <2> QED BY <1>0, <2>1 DEF Unguarded, Exposed, FoundNone
<1>7. CASE i \in Resume /\ execute_phase_b(i)
  <2>1. /\ pc[i] = "verify" /\ disk[job[i]] # NoManifest
        /\ pc'[i] = "step" /\ mem'[i] = disk[job[i]]
    BY <1>7 DEF execute_phase_b, Goto, TypeOK
  <2> QED BY <2>1 DEF Unguarded, Exposed, FoundNone
<1>8. CASE write_pending(i) \/ clear_pending(i) \/ stop(i)
  BY <1>8, ExitEffect DEF write_pending, clear_pending, stop, Stopped, Active, Unguarded
<1> QED BY <1>1, <1>2, <1>3, <1>4, <1>5, <1>6, <1>7, <1>8 DEF RunStep, ApplyStep, ResumeStep, WriterStep

\* The same for what any process, or a resume still to come, may write unseen.
LEMMA RunUnguarded ==
  ASSUME TypeOK, IInv, NEW i \in Proc, RunStep(i), NEW p \in Path, Exposed(p)'
  PROVE  \/ Exposed(p)
         \/ live[p] = Absent
         \/ pre_edit_check(i) /\ p = Target(i)
<1>0. NoRun \notin Run /\ MemoryMatchesDisk
  BY PlanAssumption DEF IInv
<1>1. ASSUME NEW j \in Proc, j # i, Unguarded(j, p)'
      PROVE  Unguarded(j, p)
  <2>1. pc'[j] = pc[j] /\ job'[j] = job[j] /\ k'[j] = k[j] /\ mem'[j] = mem[j]
    BY <1>0, <1>1, RunFrame
  <2>2. Target(j)' = Target(j)
    BY <2>1 DEF Target, Work
  <2>3. pc[j] = "verify" /\ FoundNone(job[j], p)' => FoundNone(job[j], p)
    <3>1. pc[j] = "verify" => job[j] \in Run /\ disk[job[j]] # NoManifest
      BY <1>0, JobType DEF MemoryMatchesDisk, Active
    <3> QED BY <1>0, <2>1, <3>1, RunFrozen DEF FoundNone
  <2> QED BY <1>1, <2>1, <2>2, <2>3 DEF Unguarded, FoundNone
<1>2. ASSUME pending' # NoRun, FoundNone(pending, p)'
      PROVE  Exposed(p)
  <2>1. CASE pending' = pending
    <3>1. pending \in Run /\ disk[pending] # NoManifest
      BY <1>2, <2>1 DEF IInv, PendingIsDurable, TypeOK
    <3>2. FoundNone(pending, p)
      BY <1>0, <1>2, <2>1, <3>1, RunFrozen DEF FoundNone
    <3> QED BY <1>2, <2>1, <3>2 DEF Exposed
  <2>2. CASE pending' = i /\ pc[i] = "pend" /\ disk' = disk /\ i \in Run
    <3>1. mem[i].pre = disk[i].pre
      BY <1>0, <2>2, JobType DEF MemoryMatchesDisk, Writing
    <3> QED BY <1>2, <2>2, <3>1 DEF FoundNone, Exposed, Unguarded, Active
  <2> QED BY <1>0, <1>2, <2>1, <2>2, RunFrame
<1>3. Unguarded(i, p)' \/ (\E j \in Proc : j # i /\ Unguarded(j, p)') \/ (pending' # NoRun /\ FoundNone(pending, p)')
  BY DEF Exposed
<1>4. (\E j \in Proc : j # i /\ Unguarded(j, p)') => Exposed(p)
  BY <1>1 DEF Exposed
<1> QED BY <1>2, <1>3, <1>4, OwnUnguarded

\* No step of an apply or a resume loses what a person left in a file.
LEMMA RunSafe ==
  ASSUME TypeOK, IInv, NEW i \in Proc, RunStep(i)
  PROVE  Safe'
<1>0. /\ user' = user /\ blind' = blind /\ MemoryMatchesDisk
      /\ \A q \in Path : Kept(q) => Kept(q)'
  <2>1. user' = user /\ blind' = blind /\ MemoryMatchesDisk
    BY RunFrame DEF IInv
  <2>2. [Next]_vars
    BY DEF Next
  <2> QED BY <2>1, <2>2, KeptStable
<1>1. UnguardedIsSafe'
  <2> SUFFICES ASSUME NEW p \in Path, Exposed(p)'
               PROVE  p \in blind \/ user[p] = Absent \/ Kept(p)
    BY <1>0 DEF UnguardedIsSafe
  <2>1. CASE Exposed(p)
    BY <2>1 DEF IInv, UnguardedIsSafe
  <2>2. CASE live[p] = Absent
    BY <2>2 DEF IInv, UserBytesKept
  <2>3. CASE pre_edit_check(i) /\ p = Target(i)
    BY <2>3, CheckMakesKept
  <2> QED BY <2>1, <2>2, <2>3, RunUnguarded
<1>2. CheckedIsKept'
  <2> SUFFICES ASSUME NEW j \in Proc, pc'[j] = "write", NEW p, p = Target(j)'
               PROVE  mem'[j].pre[p] # Unseen /\ (p \in blind \/ Kept(p)')
    BY <1>0 DEF CheckedIsKept
  <2>1. CASE j # i
    <3>1. pc'[j] = pc[j] /\ job'[j] = job[j] /\ k'[j] = k[j] /\ mem'[j] = mem[j]
      BY <1>0, <2>1, RunFrame
    <3>2. p = Target(j) /\ pc[j] = "write" /\ k[j] <= Len(Work(j))
      BY <1>0, <3>1 DEF Target, Work, MemoryMatchesDisk
    <3>3. p \in Path
      BY <3>2, WorkType DEF Active
    <3> QED BY <1>0, <3>1, <3>2, <3>3 DEF IInv, CheckedIsKept
  <2>2. CASE j = i
    <3>1. ~snapshot_then_write(i)
      BY <1>0, <2>2, WriteEffect DEF TypeOK
    <3>2. ~(write_pending(i) \/ clear_pending(i) \/ stop(i))
      BY <2>2, ExitEffect DEF write_pending, clear_pending, stop, Stopped
    <3>3. pre_edit_check(i)
      BY <2>2, <3>1, <3>2 DEF RunStep, ApplyStep, ResumeStep, WriterStep, run_apply, capture_one,
         execute_snapshot_step, read_target, persist_manifest, run_resume, execute_phase_b,
         write_manifest, Goto, TypeOK
    <3>4. p = Target(i) /\ mem' = mem
      BY <2>2, <3>3 DEF pre_edit_check, Goto, Target, Work, TypeOK
    <3> QED BY <1>0, <2>2, <3>3, <3>4, CheckMakesKept
  <2> QED BY <2>1, <2>2
<1>3. UserBytesKept'
  <2>1. CASE snapshot_then_write(i)
    <3>1. pc[i] = "write"
      BY <2>1 DEF snapshot_then_write
    <3>2. PICK p : p = Target(i)
      OBVIOUS
    <3>3. \A q \in Path : q # p => live'[q] = live[q]
      BY <1>0, <2>1, <3>2, WriteEffect
    <3>4. p \in blind \/ Kept(p)
      BY <3>1, <3>2 DEF IInv, CheckedIsKept
    <3> QED BY <1>0, <3>3, <3>4 DEF IInv, UserBytesKept
  <2>2. CASE ~snapshot_then_write(i)
    <3>1. live' = live
      BY <2>2 DEF RunStep, ApplyStep, ResumeStep, WriterStep, run_apply, capture_one,
         execute_snapshot_step, read_target, pre_edit_check, persist_manifest, write_pending,
         run_resume, execute_phase_b, write_manifest, clear_pending, stop
    <3> QED BY <1>0, <3>1 DEF IInv, UserBytesKept
  <2> QED BY <2>1, <2>2
<1> QED BY <1>1, <1>2, <1>3 DEF Safe

\* Rollback replaces what a person left only by what the snapshot holds, and
\* from then on the snapshot holds it.
LEMMA RollbackSafe ==
  ASSUME TypeOK, IInv, NEW b \in Rollback, RollbackStep(b)
  PROVE  Safe'
<1>0. /\ UNCHANGED <<backup, disk, pending, pc, job, k, mem, blind>>
      /\ \A i \in Proc : Target(i)' = Target(i)
      /\ \A i \in Proc, q \in Path : Unguarded(i, q)' = Unguarded(i, q)
      /\ \A q \in Path : Exposed(q)' = Exposed(q)
  <2>1. UNCHANGED <<backup, disk, pending, pc, job, k, mem, blind>>
    BY DEF RollbackStep, restore_begin, restore_entry, restore_done, restore_stop, proc
  <2> QED BY <2>1 DEF Target, Work, Unguarded, Exposed, FoundNone
<1>a. MemoryMatchesDisk /\ [Next]_vars
  BY DEF IInv, Next
<1>b. \A i \in Proc : pc[i] = "write" => Target(i) \in Path
  BY WorkType DEF IInv, MemoryMatchesDisk, Active
<1>1. CASE live' = live /\ user' = user
  <2>1. \A q \in Path : Kept(q) => Kept(q)'
    BY <1>1, <1>a, KeptStable
  <2> QED BY <1>0, <1>1, <1>b, <2>1 DEF Safe, IInv, UnguardedIsSafe, CheckedIsKept, UserBytesKept
<1>2. CASE restore_entry(b)
  <2>1. PICK s, p : s = rb[b].id /\ p = Touches[s][rb[b].k]
    OBVIOUS
  <2>2. /\ s \in Run /\ p \in Path /\ rb[b].pre = disk[s].pre /\ disk[s] # NoManifest
        /\ rb[b].pre[p] \in State
    BY <1>2, <2>1, RestoreEffect DEF IInv
  <2>3. CASE /\ live' = [live EXCEPT ![p] = rb[b].pre[p]]
             /\ user' = IF live[p] = user[p] THEN [user EXCEPT ![p] = rb[b].pre[p]] ELSE user
    <3>1. \A q \in Path : q # p => live'[q] = live[q] /\ user'[q] = user[q]
      BY <2>3 DEF TypeOK
    <3>2. live'[p] = rb[b].pre[p]
      BY <2>2, <2>3 DEF TypeOK
    <3>3. CASE live[p] = user[p]
      <4>1. user'[p] = rb[b].pre[p]
        BY <2>2, <2>3, <3>3 DEF TypeOK
      <4>2. rb[b].pre[p] # Absent => backup[s][BackupName[p]] = rb[b].pre[p]
        <5>1. rb[b].pre[p] # Unseen
          BY <2>2, PlanAssumption
        <5> QED BY <2>2, <5>1 DEF IInv, BackupsMatch, Backed
      <4>3. Kept(p)'
        BY <1>0, <2>2, <4>1, <4>2 DEF Kept
      <4>4. \A q \in Path : Kept(q) => Kept(q)'
        BY <1>a, <3>1, <4>3, KeptStable
      <4>5. UnguardedIsSafe'
        BY <1>0, <3>1, <4>3, <4>4 DEF IInv, UnguardedIsSafe
      <4>6. CheckedIsKept'
        BY <1>0, <1>b, <4>4 DEF IInv, CheckedIsKept
      <4>7. UserBytesKept'
        BY <1>0, <3>1, <3>2, <4>1, <4>4 DEF IInv, UserBytesKept
      <4> QED BY <4>5, <4>6, <4>7 DEF Safe
    <3>4. CASE live[p] # user[p]
      <4>1. user' = user
        BY <2>3, <3>4
      <4>2. \A q \in Path : Kept(q) => Kept(q)'
        BY <1>a, <4>1, KeptStable
      <4>3. UnguardedIsSafe'
        BY <1>0, <4>1, <4>2 DEF IInv, UnguardedIsSafe
      <4>4. CheckedIsKept'
        BY <1>0, <1>b, <4>2 DEF IInv, CheckedIsKept
      <4>5. UserBytesKept'
        BY <1>0, <3>1, <3>4, <4>1, <4>2 DEF IInv, UserBytesKept
      <4> QED BY <4>3, <4>4, <4>5 DEF Safe
    <3> QED BY <3>3, <3>4
  <2> QED BY <1>1, <1>2, <2>1, <2>3, RestoreEffect DEF IInv
<1>3. CASE ~restore_entry(b)
  <2>1. live' = live /\ user' = user
    BY <1>3 DEF RollbackStep, restore_begin, restore_done, restore_stop
  <2> QED BY <1>1, <2>1
<1> QED BY <1>2, <1>3

\* A foreign edit of p puts the new bytes in the file itself; a run that could
\* still overwrite them without looking makes the path blind.
LEMMA EditSafe ==
  ASSUME TypeOK, IInv, NEW p \in Path, NEW c \in EditBytes, user_edit(p, c)
  PROVE  Safe'
<1>0. /\ UNCHANGED <<backup, disk, pending, pc, job, k, mem>>
      /\ \A i \in Proc : Target(i)' = Target(i)
      /\ \A i \in Proc, q \in Path : Unguarded(i, q)' = Unguarded(i, q)
      /\ \A q \in Path : Exposed(q)' = Exposed(q)
  <2>1. UNCHANGED <<backup, disk, pending, pc, job, k, mem>>
    BY DEF user_edit, proc
  <2> QED BY <2>1 DEF Target, Work, Unguarded, Exposed, FoundNone
<1>a. MemoryMatchesDisk /\ [Next]_vars
  BY DEF IInv, Next
<1>b. \A i \in Proc : pc[i] = "write" => Target(i) \in Path
  BY WorkType DEF IInv, MemoryMatchesDisk, Active
<1>1. /\ \A q \in Path : q # p => live'[q] = live[q] /\ user'[q] = user[q] /\ (q \in blind' <=> q \in blind)
      /\ live'[p] = c /\ user'[p] = c
      /\ Exposed(p) => p \in blind'
  BY DEF user_edit, TypeOK
<1>2. \A q \in Path : q # p /\ Kept(q) => Kept(q)'
  BY <1>1, <1>a, KeptStable
<1>3. UnguardedIsSafe'
  BY <1>0, <1>1, <1>2 DEF IInv, UnguardedIsSafe
<1>4. CheckedIsKept'
  <2> SUFFICES ASSUME NEW i \in Proc, pc[i] = "write"
               PROVE  mem[i].pre[Target(i)] # Unseen /\ (Target(i) \in blind' \/ Kept(Target(i))')
    BY <1>0 DEF CheckedIsKept
  <2>1. mem[i].pre[Target(i)] # Unseen /\ (Target(i) \in blind \/ Kept(Target(i)))
    BY DEF IInv, CheckedIsKept
  <2>2. CASE Target(i) = p
    <3>1. Exposed(p)
      BY <2>2 DEF Exposed, Unguarded
    <3> QED BY <1>1, <2>1, <2>2, <3>1
  <2>3. CASE Target(i) # p
    <3>1. PICK q : q = Target(i)
      OBVIOUS
    <3>2. q \in blind' \/ Kept(q)'
      BY <1>1, <1>2, <1>b, <2>1, <2>3, <3>1
    <3> QED BY <1>0, <2>1, <3>1, <3>2
  <2> QED BY <2>2, <2>3
<1>5. UserBytesKept'
  BY <1>1, <1>2 DEF IInv, UserBytesKept
<1> QED BY <1>3, <1>4, <1>5 DEF Safe

-----------------------------------------------------------------------------
(* The invariant *)

\* A host on which Virtu has not run satisfies the invariant.
LEMMA InitInv == ASSUME Init PROVE TypeOK /\ IInv
<1>1. TypeOK
  <2>1. Empty.pre \in [Path -> State \cup {Unseen}] /\ Empty \in Manifest
    BY EmptyType DEF Empty
  <2>2. live \in [Path -> State]
    BY PlanAssumption DEF Init
  <2>3. \A i \in Proc : pc[i] = "idle" /\ "idle" \in Stopped /\ "idle" \notin Active
    BY DEF Init, Stopped, Active
  <2>4. job \in [Proc -> Run \cup {NoRun}] /\ \A r \in Run : job[r] = r
    BY DEF Init, Proc
  <2>5. pc \in [Proc -> Stopped \cup Active]
    BY DEF Init, Stopped
  <2> QED BY <2>1, <2>2, <2>3, <2>4, <2>5 DEF Init, TypeOK, State
<1>2. MemoryMatchesDisk /\ CaptureProgress /\ WriteProgress
  BY DEF Init, MemoryMatchesDisk, CaptureProgress, WriteProgress, Writing, Active, Proc
<1>3. BackupsMatch /\ EntriesComplete
  BY DEF Init, BackupsMatch, EntriesComplete, Active
<1>4. UserBytesKept /\ CheckedIsKept
  BY DEF Init, UserBytesKept, CheckedIsKept
<1>5. UnguardedIsSafe
  BY PlanAssumption DEF Init, UnguardedIsSafe, Exposed, Unguarded, Active
<1>6. RollbackMatchesDisk /\ RollbackComplete /\ PendingIsDurable
  BY DEF Init, RollbackMatchesDisk, RollbackComplete, PendingIsDurable
<1> QED BY <1>1, <1>2, <1>3, <1>4, <1>5, <1>6 DEF IInv

\* The parts that depend only on the runs survive a step of anybody else.
LEMMA Untouched ==
  ASSUME IInv, UNCHANGED <<backup, disk, pending, proc>>
  PROVE  /\ MemoryMatchesDisk' /\ CaptureProgress' /\ WriteProgress'
         /\ BackupsMatch' /\ EntriesComplete' /\ PendingIsDurable'
<1>1. UNCHANGED <<backup, disk, pending, pc, job, k, mem>>
  BY DEF proc
<1>2. MemoryMatchesDisk'
  BY <1>1 DEF IInv, MemoryMatchesDisk, Work
<1>3. CaptureProgress' /\ WriteProgress'
  BY <1>1 DEF IInv, CaptureProgress, WriteProgress
<1>4. BackupsMatch' /\ EntriesComplete' /\ PendingIsDurable'
  BY <1>1 DEF IInv, BackupsMatch, Backed, EntriesComplete, PendingIsDurable
<1> QED BY <1>2, <1>3, <1>4

\* The invariant is inductive: every step of every process preserves it.
LEMMA NextInv ==
  ASSUME TypeOK, IInv, [Next]_vars
  PROVE  IInv'
<1>1. ASSUME NEW i \in Proc, RunStep(i)
      PROVE  IInv'
  <2>1. MemoryMatchesDisk' /\ CaptureProgress' /\ EntriesComplete' /\ BackupsMatch'
    BY <1>1, RunMemory, RunCapture, RunEntries, RunBackups DEF IInv
  <2>2. WriteProgress' /\ PendingIsDurable' /\ RollbackMatchesDisk' /\ RollbackComplete'
    BY <1>1, RunWrites, RunPending, RunRollback DEF IInv
  <2>3. Safe'
    BY <1>1, RunSafe
  <2> QED BY <2>1, <2>2, <2>3 DEF IInv, Safe
<1>2. ASSUME NEW b \in Rollback, RollbackStep(b)
      PROVE  IInv'
  <2>1. UNCHANGED <<backup, disk, pending, proc>>
    BY <1>2 DEF RollbackStep, restore_begin, restore_entry, restore_done, restore_stop
  <2>2. RollbackMatchesDisk' /\ RollbackComplete' /\ Safe'
    BY <1>2, StepRollback, RollbackSafe DEF IInv
  <2> QED BY <2>1, <2>2, Untouched DEF IInv, Safe
<1>3. ASSUME NEW p \in Path, NEW c \in EditBytes, user_edit(p, c)
      PROVE  IInv'
  <2>1. UNCHANGED <<backup, disk, pending, proc>>
    BY <1>3 DEF user_edit
  <2>2. RollbackMatchesDisk' /\ RollbackComplete' /\ Safe'
    BY <1>3, EditRollback, EditSafe DEF IInv
  <2> QED BY <2>1, <2>2, Untouched DEF IInv, Safe
<1>4. CASE UNCHANGED vars
  <2>1. UNCHANGED <<backup, disk, pending, proc>> /\ UNCHANGED <<live, user, blind, rb, dirty>>
    BY <1>4 DEF vars
  <2>3. Safe'
    <3>1. UNCHANGED <<pc, job, k, mem>> /\ \A i \in Proc : Target(i)' = Target(i)
      BY <2>1 DEF proc, Target, Work
    <3>2. \A q \in Path : (Exposed(q)' => Exposed(q)) /\ (Kept(q)' <=> Kept(q))
      BY <2>1, <3>1 DEF Exposed, Unguarded, FoundNone, Kept
    <3>3. UnguardedIsSafe' /\ UserBytesKept'
      BY <2>1, <3>2 DEF IInv, UnguardedIsSafe, UserBytesKept
    <3>4. \A i \in Proc : pc[i] = "write" => Target(i) \in Path
      BY WorkType DEF IInv, MemoryMatchesDisk, Active
    <3>5. CheckedIsKept'
      BY <2>1, <3>1, <3>2, <3>4 DEF IInv, CheckedIsKept
    <3> QED BY <3>3, <3>5 DEF Safe
  <2>4. RollbackMatchesDisk' /\ RollbackComplete'
    BY <2>1 DEF IInv, RollbackMatchesDisk, RollbackComplete
  <2> QED BY <2>1, <2>3, <2>4, Untouched DEF IInv, Safe
<1> QED BY <1>1, <1>2, <1>3, <1>4 DEF Next

\* The inductive invariant holds in every reachable state, for any plans, any
\* number of concurrent applies, resumes (also of one record) and rollbacks, and
\* any number of foreign edits.
THEOREM Invariance == Spec => [](TypeOK /\ IInv)
<1>1. TypeOK /\ IInv /\ [Next]_vars => (TypeOK /\ IInv)'
  BY NextType, NextInv
<1> QED BY InitInv, <1>1, PTL DEF Spec

\* Every variable keeps its type.
THEOREM TypeCorrect == Spec => []TypeOK
BY Invariance, PTL

\* Bytes that a person or another program left in a file are in the file or in
\* a committed snapshot, whatever applies, resumes, rollbacks and crashes do
\* (snapshot_then_write and restore; blind edits excepted).
THEOREM UserBytesKeptAlways == Spec => []UserBytesKept
<1>1. IInv => UserBytesKept
  BY DEF IInv
<1> QED BY <1>1, Invariance, PTL

\* pending.toml never names a run whose manifest is missing or lacks a Phase A
\* post-edit hash (execute_phase_a writes it last).
THEOREM PendingIsDurableAlways == Spec => []PendingIsDurable
<1>1. IInv => PendingIsDurable
  BY DEF IInv
<1> QED BY <1>1, Invariance, PTL

\* restore puts back every entry behind it, whatever else runs meanwhile, save
\* the files others changed afterwards.
THEOREM RollbackCompleteAlways == Spec => []RollbackComplete
<1>1. IInv => RollbackComplete
  BY DEF IInv
<1> QED BY <1>1, Invariance, PTL

\* A manifest on disk has an entry for every touched path and an intact backup
\* for every file that existed: restore never meets its HashMismatch.
THEOREM BaselineIntactAlways == Spec => []BaselineIntact
<1>1. IInv => BaselineIntact
  BY TouchesType DEF IInv, EntriesComplete, BackupsMatch, Backed, BaselineIntact
<1> QED BY <1>1, Invariance, PTL

\* Whoever persists a manifest again, the apply or any of several resumes of one
\* record, leaves the captured baseline and the post-edit hashes of Phase A in it
\* (executor.rs persist_manifest and write_manifest).
THEOREM BaselineFrozenAlways == Spec => BaselineFrozen
<1>1. ASSUME TypeOK, IInv, [Next]_vars, NEW r \in Run, disk[r] # NoManifest
      PROVE  disk[r].edited \cap Elems(WorkA[r]) \subseteq disk'[r].edited
  <2>1. ASSUME NEW i \in Proc, RunStep(i)
        PROVE  disk[r].edited \cap Elems(WorkA[r]) \subseteq disk'[r].edited
    BY <1>1, <2>1, HashesKept DEF IInv
  <2>2. CASE disk' = disk
    BY <2>2
  <2>3. (\E b \in Rollback : RollbackStep(b)) \/ (\E p \in Path, c \in EditBytes : user_edit(p, c))
        \/ UNCHANGED vars => disk' = disk
    BY DEF RollbackStep, restore_begin, restore_entry, restore_done, restore_stop, user_edit, vars
  <2> QED BY <1>1, <2>1, <2>2, <2>3 DEF Next
<1>2. TypeOK /\ IInv /\ [Next]_vars =>
        [\A r \in Run : disk[r] # NoManifest =>
            /\ disk'[r] # NoManifest
            /\ disk'[r].pre = disk[r].pre
            /\ disk[r].edited \cap Elems(WorkA[r]) \subseteq disk'[r].edited]_vars
  BY <1>1, Frozen DEF IInv
<1> QED BY <1>2, Invariance, PTL DEF Spec, BaselineFrozen
=============================================================================
