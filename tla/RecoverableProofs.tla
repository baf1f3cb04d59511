-------------------------- MODULE RecoverableProofs --------------------------
(***************************************************************************)
(* The proof that Snapshot implements Recoverable, for any plans, applies, *)
(* resumes, rollbacks and foreign edits.  Each step of the engine is       *)
(* matched with the step of the promise that it carries out, or changes    *)
(* nothing the promise speaks of.  Note, Marked and KeptRuns are what the  *)
(* refinement mapping of Snapshot substitutes.                             *)
(***************************************************************************)
EXTENDS SnapshotProofs

Note     == [r \in Run |-> IF Committed(r) THEN disk[r].pre ELSE mem[r].pre]
KeptRuns == {r \in Run : Committed(r)}
Marked   == [r \in Run |-> IF Committed(r) THEN disk[r].edited ELSE {}]

\* Before its manifest is on disk a run has not recorded a write.
CaptureUnmarked == \A r \in Run : pc[r] = "capture" => mem[r].edited = {}

\* The initial states of the engine are initial states of the promise.
LEMMA InitRefines == ASSUME Init PROVE R!Init
<1>1. live \in [Path -> State]
  BY InitInv DEF TypeOK
<1>2. Note = [r \in Run |-> R!Blank]
  BY DEF Init, Note, Committed, R!Blank, Empty, Proc
<1>3. KeptRuns = {} /\ Marked = [r \in Run |-> {}]
  BY DEF Init, KeptRuns, Marked, Committed
<1> QED BY <1>1, <1>2, <1>3 DEF Init, R!Init, Note, KeptRuns, Marked

-----------------------------------------------------------------------------
(* What a run's step does to what the promise speaks of *)

\* Only the notes of the run that the process works for may change: those of
\* another run are in the memory of another process or in a manifest that this
\* step leaves alone.
LEMMA OthersNotes ==
  ASSUME TypeOK, MemoryMatchesDisk, NEW i \in Proc, RunStep(i),
         NEW s \in Run, s # i, disk'[s] = disk[s]
  PROVE  Note'[s] = Note[s] /\ Marked'[s] = Marked[s] /\ (Committed(s)' <=> Committed(s))
BY RunFrame DEF Note, Marked, Committed, Proc

\* A step that changes neither a manifest nor the entries of an apply that has
\* none on disk changes no note.
LEMMA SameNotes ==
  ASSUME TypeOK, MemoryMatchesDisk, NEW i \in Proc, RunStep(i), disk' = disk,
         i \in Run => Committed(i) \/ mem'[i] = mem[i]
  PROVE  Note' = Note /\ KeptRuns' = KeptRuns /\ Marked' = Marked
<1>1. i \in Run => Note'[i] = Note[i] /\ Marked'[i] = Marked[i] /\ (Committed(i)' <=> Committed(i))
  BY DEF Note, Marked, Committed
<1>2. \A s \in Run : Note'[s] = Note[s] /\ Marked'[s] = Marked[s] /\ (Committed(s)' <=> Committed(s))
  BY <1>1, OthersNotes
<1> QED BY <1>2 DEF Note, Marked, KeptRuns

\* A step that concerns neither files nor notes nor the record is no step of the
\* promise.
LEMMA Stutters ==
  ASSUME Note' = Note, KeptRuns' = KeptRuns, Marked' = Marked, UNCHANGED <<live, pending, edits>>
  PROVE  UNCHANGED R!vars
BY DEF R!vars, Note, KeptRuns, Marked

\* capture_one is Observe: the entry is made of what the file holds.
LEMMA CaptureObserves ==
  ASSUME TypeOK, MemoryMatchesDisk, NEW r \in Run, capture_one(r)
  PROVE  R!Next
<1>0. r \in Proc /\ RunStep(r)
  BY DEF Proc, RunStep, ApplyStep
<1>1. PICK p : p = Touches[r][k[r]]
  OBVIOUS
<1>2. /\ p \in Path /\ mem' \in [Proc -> Manifest] /\ mem'[r].pre[p] = live[p]
      /\ \A q \in Path : q # p => mem'[r].pre[q] = mem[r].pre[q]
  BY <1>1, CaptureEffect
<1>3. p \in Elems(Touches[r])
  BY <1>0, <1>1, TouchesType DEF capture_one, TypeOK, Elems
<1>4. ~Committed(r) /\ disk' = disk /\ UNCHANGED <<live, pending, edits>>
  BY <1>0 DEF capture_one, MemoryMatchesDisk, Committed
<1>5. mem[r].pre \in [Path -> State \cup {Unseen}] /\ mem'[r].pre \in [Path -> State \cup {Unseen}]
  BY <1>0, <1>2 DEF TypeOK, Manifest
<1>6. mem'[r].pre = [mem[r].pre EXCEPT ![p] = live[p]]
  BY <1>2, <1>5
<1>7. Note'[r] = [Note[r] EXCEPT ![p] = live[p]] /\ ~Committed(r)'
  BY <1>4, <1>6 DEF Note, Committed
<1>8. \A s \in Run : s # r =>
        Note'[s] = Note[s] /\ Marked'[s] = Marked[s] /\ (Committed(s)' <=> Committed(s))
  BY <1>0, <1>4, OthersNotes
<1>9. Note' = [Note EXCEPT ![r][p] = live[p]]
  BY <1>7, <1>8 DEF Note
<1>10. KeptRuns' = KeptRuns /\ Marked' = Marked /\ r \notin KeptRuns
  BY <1>4, <1>7, <1>8 DEF KeptRuns, Marked
<1>11. R!Observe(r, p)
  BY <1>3, <1>4, <1>9, <1>10 DEF R!Observe, Note, KeptRuns, Marked
<1> QED BY <1>2, <1>11 DEF R!Next

\* execute_snapshot_step is Keep: the manifest has an entry for every file.
LEMMA ManifestKeeps ==
  ASSUME TypeOK, IInv, CaptureUnmarked, NEW r \in Run, execute_snapshot_step(r)
  PROVE  R!Next
<1>0. r \in Proc /\ RunStep(r)
  BY DEF Proc, RunStep, ApplyStep
<1>1. /\ ~Committed(r) /\ disk'[r] = mem[r] /\ mem' = mem /\ mem[r].edited = {}
      /\ (\A s \in Run : s # r => disk'[s] = disk[s])
      /\ UNCHANGED <<live, pending, edits>>
  BY <1>0 DEF execute_snapshot_step, IInv, MemoryMatchesDisk, Committed, CaptureUnmarked, TypeOK
<1>2. Committed(r)'
  BY <1>0, <1>1, PlanAssumption DEF TypeOK, Committed
<1>3. Note'[r] = Note[r] /\ Marked'[r] = Marked[r]
  BY <1>1, <1>2 DEF Note, Marked, Committed
<1>4. \A s \in Run : s # r =>
        Note'[s] = Note[s] /\ Marked'[s] = Marked[s] /\ (Committed(s)' <=> Committed(s))
  BY <1>0, <1>1, OthersNotes DEF IInv
<1>5. Note' = Note /\ Marked' = Marked /\ KeptRuns' = KeptRuns \cup {r}
  BY <1>2, <1>3, <1>4 DEF Note, Marked, KeptRuns
<1>6. \A p \in Elems(Touches[r]) : Note[r][p] # Unseen
  <2>1. \A i \in 1..Len(Touches[r]) : mem[r].pre[Touches[r][i]] # Unseen
    BY <1>0, TouchesType DEF execute_snapshot_step, IInv, CaptureProgress, TypeOK
  <2> QED BY <1>1, <2>1 DEF Elems, Note
<1>7. R!Keep(r)
  BY <1>1, <1>5, <1>6 DEF R!Keep, Note, KeptRuns, Marked
<1> QED BY <1>7 DEF R!Next

\* snapshot_then_write is Write: the file has an entry in a committed manifest.
LEMMA WriteIsKept ==
  ASSUME TypeOK, IInv, NEW i \in Proc, snapshot_then_write(i)
  PROVE  R!Next
<1>0. MemoryMatchesDisk /\ RunStep(i) /\ job[i] \in Run /\ (i \in Run => job[i] = i)
  BY JobType DEF IInv, RunStep, WriterStep, snapshot_then_write, Active
<1>1. PICK p : p = Target(i)
  OBVIOUS
<1>2. /\ pc[i] \in Active /\ k[i] <= Len(Work(i)) /\ Committed(job[i])
      /\ UNCHANGED <<disk, pending, edits>>
  BY <1>0 DEF snapshot_then_write, MemoryMatchesDisk, Writing, Active, Committed
<1>3. p \in Path /\ p \in Elems(Touches[job[i]])
  <2>1. Work(i) \in Seq(Path) /\ p \in Elems(Work(i))
    BY <1>1, <1>2, WorkType DEF Target, Elems, TypeOK
  <2>2. Elems(Work(i)) \subseteq Elems(Touches[job[i]])
    BY <1>0, PlanAssumption DEF Work
  <2> QED BY <1>0, <2>1, <2>2, TouchesType
<1>4. live' = [live EXCEPT ![p] = Rewrite[p][buf[i]]] /\ buf[i] \in State
  BY <1>1 DEF snapshot_then_write, TypeOK
<1>5. Note' = Note /\ KeptRuns' = KeptRuns /\ Marked' = Marked
  BY <1>0, <1>2, SameNotes
<1>6. job[i] \in KeptRuns
  BY <1>0, <1>2 DEF KeptRuns
<1>7. R!Write(job[i], p)
  BY <1>0, <1>2, <1>3, <1>4, <1>5, <1>6 DEF R!Write, Note, KeptRuns, Marked
<1> QED BY <1>0, <1>3, <1>7 DEF R!Next

\* Persisting the manifest of a committed run is Mark: whose copy it is, it has
\* the hashes of Phase A that are on disk.
LEMMA PersistMarks ==
  ASSUME TypeOK, IInv, NEW i \in Proc, RunStep(i), NEW r \in Run, r = job[i],
         pc[i] \in Writing, disk' = [disk EXCEPT ![r] = mem[i]], mem' = mem,
         UNCHANGED <<live, pending, edits>>
  PROVE  R!Next
<1>1. /\ Committed(r) /\ disk'[r] = mem[i] /\ mem[i].pre = disk[r].pre
      /\ \A s \in Run : s # r => disk'[s] = disk[s]
  BY DEF IInv, MemoryMatchesDisk, Committed, TypeOK
<1>2. Committed(r)' /\ mem[i].edited \in SUBSET Path
  BY <1>1, PlanAssumption DEF TypeOK, Committed, Manifest
<1>3. PICK done \in SUBSET Path : done = mem[i].edited
  BY <1>2
<1>4. Note'[r] = Note[r] /\ Marked'[r] = done
  BY <1>1, <1>2, <1>3 DEF Note, Marked, Committed
<1>5. \A s \in Run : s # r =>
        Note'[s] = Note[s] /\ Marked'[s] = Marked[s] /\ (Committed(s)' <=> Committed(s))
  BY <1>1 DEF Note, Marked, Committed
<1>6. Note' = Note /\ KeptRuns' = KeptRuns
  BY <1>1, <1>2, <1>4, <1>5 DEF Note, KeptRuns
<1>7. Marked' = [Marked EXCEPT ![r] = done]
  <2>1. Marked = [s \in Run |-> Marked[s]] /\ Marked' = [s \in Run |-> Marked'[s]]
    BY DEF Marked
  <2>2. \A s \in Run : Marked'[s] = IF s = r THEN done ELSE Marked[s]
    BY <1>4, <1>5
  <2>3. [Marked EXCEPT ![r] = done] = [s \in Run |-> IF s = r THEN done ELSE Marked[s]]
    BY <2>1
  <2> QED BY <2>1, <2>2, <2>3
<1>8. r \in KeptRuns
  BY <1>1 DEF KeptRuns
<1>9. Marked[r] \cap Elems(WorkA[r]) \subseteq done
  <2>1. disk[r].edited \cap Elems(WorkA[r]) \subseteq disk'[r].edited
    BY <1>1, HashesKept DEF IInv, Committed
  <2> QED BY <1>1, <1>3, <2>1 DEF Marked
<1>10. R!Mark(r, done)
  BY <1>6, <1>7, <1>8, <1>9 DEF R!Mark, Note, KeptRuns, Marked
<1> QED BY <1>10 DEF R!Next

\* write_pending is Announce: all that Phase A wrote is marked on disk.
LEMMA RecordAnnounces ==
  ASSUME TypeOK, IInv, NEW r \in Run, write_pending(r)
  PROVE  R!Next
<1>0. r \in Proc /\ RunStep(r) /\ job[r] = r
  BY JobType DEF Proc, RunStep, ApplyStep
<1>1. /\ Committed(r) /\ Elems(WorkA[r]) \subseteq disk[r].edited
      /\ pending' = r /\ UNCHANGED <<live, disk, edits>>
  BY <1>0 DEF write_pending, IInv, MemoryMatchesDisk, WriteProgress, Writing, Committed
<1>2. Note' = Note /\ KeptRuns' = KeptRuns /\ Marked' = Marked
  BY <1>0, <1>1, SameNotes DEF IInv
<1>3. r \in KeptRuns /\ Elems(WorkA[r]) \subseteq Marked[r]
  BY <1>1 DEF KeptRuns, Marked
<1>4. R!Announce(r)
  BY <1>1, <1>2, <1>3 DEF R!Announce, Note, KeptRuns, Marked
<1> QED BY <1>4 DEF R!Next

\* An apply that ends before its manifest is on disk is Abandon, any other end
\* loses nothing the promise speaks of.
LEMMA StopAbandons ==
  ASSUME TypeOK, IInv, NEW i \in Proc, stop(i)
  PROVE  R!Next \/ UNCHANGED R!vars
<1>0. MemoryMatchesDisk /\ RunStep(i)
  BY DEF IInv, RunStep, WriterStep
<1>1. mem'[i] = Empty /\ UNCHANGED <<live, disk, pending, edits>>
  BY ExitEffect DEF stop
<1>2. CASE i \in Run => Committed(i)
  BY <1>0, <1>1, <1>2, SameNotes, Stutters
<1>3. CASE i \in Run /\ ~Committed(i)
  <2>1. \A s \in Run : s # i =>
          Note'[s] = Note[s] /\ Marked'[s] = Marked[s] /\ (Committed(s)' <=> Committed(s))
    BY <1>0, <1>1, OthersNotes
  <2>2. ~Committed(i)' /\ Note'[i] = R!Blank /\ Marked'[i] = Marked[i]
    BY <1>1, <1>3 DEF Note, Marked, Committed, Empty, R!Blank
  <2>3. Note' = [Note EXCEPT ![i] = R!Blank]
    BY <2>1, <2>2 DEF Note
  <2>4. KeptRuns' = KeptRuns /\ Marked' = Marked /\ i \notin KeptRuns
    BY <1>3, <2>1, <2>2 DEF KeptRuns, Marked
  <2>5. R!Abandon(i)
    BY <1>1, <2>3, <2>4 DEF R!Abandon, Note, KeptRuns, Marked
  <2> QED BY <1>3, <2>5 DEF R!Next
<1> QED BY <1>2, <1>3

\* Every step of an apply or a resume is a step of the promise, or none.
LEMMA RunRefines ==
  ASSUME TypeOK, IInv, CaptureUnmarked, NEW i \in Proc, RunStep(i)
  PROVE  R!Next \/ UNCHANGED R!vars
<1>0. /\ MemoryMatchesDisk /\ (i \in Run => job[i] = i) /\ (pc[i] \in Active => job[i] \in Run)
      /\ (i \in Resume => i \notin Run)
  BY JobType, PlanAssumption DEF IInv
<1>1. CASE run_apply(i) \/ read_target(i) \/ pre_edit_check(i) \/ run_resume(i)
  <2>1. UNCHANGED <<live, disk, mem, pending, edits>>
    BY <1>1 DEF run_apply, read_target, pre_edit_check, run_resume
  <2> QED BY <1>0, <2>1, SameNotes, Stutters
<1>2. CASE i \in Resume /\ execute_phase_b(i)
  <2>1. UNCHANGED <<live, disk, pending, edits>>
    BY <1>2 DEF execute_phase_b
  <2> QED BY <1>0, <1>2, <2>1, SameNotes, Stutters
<1>3. CASE i \in Resume /\ clear_pending(i)
  <2>1. pending' = NoRun /\ UNCHANGED <<live, disk, edits>>
    BY <1>3 DEF clear_pending
  <2>2. Note' = Note /\ KeptRuns' = KeptRuns /\ Marked' = Marked
    BY <1>0, <1>3, <2>1, SameNotes
  <2>3. R!Clear
    BY <2>1, <2>2 DEF R!Clear, Note, KeptRuns, Marked
  <2> QED BY <2>3 DEF R!Next
<1>4. CASE i \in Run /\ persist_manifest(i)
  BY <1>0, <1>4, PersistMarks DEF persist_manifest, Writing, Active
<1>5. CASE i \in Resume /\ write_manifest(i)
  BY <1>0, <1>5, PersistMarks DEF write_manifest, Writing, Active
<1> QED BY <1>0, <1>1, <1>2, <1>3, <1>4, <1>5, CaptureObserves, ManifestKeeps, WriteIsKept,
           RecordAnnounces, StopAbandons DEF RunStep, ApplyStep, ResumeStep, WriterStep

\* A restored entry is Restore, to the kept note; the rest of a rollback changes
\* nothing the promise speaks of.
LEMMA RollbackRefines ==
  ASSUME TypeOK, IInv, NEW b \in Rollback, RollbackStep(b)
  PROVE  R!Next \/ UNCHANGED R!vars
<1>1. UNCHANGED <<disk, mem, pending, edits>>
  BY DEF RollbackStep, restore_begin, restore_entry, restore_done, restore_stop, proc
<1>2. Note' = Note /\ KeptRuns' = KeptRuns /\ Marked' = Marked
  BY <1>1 DEF Note, KeptRuns, Marked, Committed
<1>3. CASE live' = live
  BY <1>1, <1>2, <1>3, Stutters
<1>4. CASE restore_entry(b)
  <2>1. PICK s, p : s = rb[b].id /\ p = Touches[s][rb[b].k]
    OBVIOUS
  <2>2. /\ s \in Run /\ p \in Path /\ p \in Elems(Touches[s])
        /\ rb[b].pre = disk[s].pre /\ disk[s] # NoManifest
        /\ live' = [live EXCEPT ![p] = rb[b].pre[p]] \/ live' = live
    BY <1>4, <2>1, RestoreEffect DEF IInv
  <2>3. s \in KeptRuns /\ Note[s] = rb[b].pre
    BY <2>2 DEF KeptRuns, Note, Committed
  <2>4. CASE live' = [live EXCEPT ![p] = rb[b].pre[p]]
    <3>1. R!Restore(s, p)
      BY <1>1, <1>2, <2>2, <2>3, <2>4 DEF R!Restore, Note, KeptRuns, Marked
    <3> QED BY <2>2, <3>1 DEF R!Next
  <2> QED BY <1>3, <2>2, <2>4
<1>5. CASE ~restore_entry(b)
  <2>1. live' = live
    BY <1>5 DEF RollbackStep, restore_begin, restore_done, restore_stop
  <2> QED BY <1>3, <2>1
<1> QED BY <1>4, <1>5

\* A foreign edit is Outside.
LEMMA EditRefines ==
  ASSUME TypeOK, NEW p \in Path, NEW c \in EditBytes, user_edit(p, c)
  PROVE  R!Next
<1>1. /\ c \in State /\ edits' = edits + 1 /\ live' = [live EXCEPT ![p] = c]
      /\ UNCHANGED <<disk, mem, pending>>
  BY PlanAssumption DEF user_edit, proc
<1>2. Note' = Note /\ KeptRuns' = KeptRuns /\ Marked' = Marked
  BY <1>1 DEF Note, KeptRuns, Marked, Committed
<1>3. R!Outside(p, c)
  BY <1>1, <1>2 DEF R!Outside, Note, KeptRuns, Marked
<1> QED BY <1>1, <1>3 DEF R!Next

-----------------------------------------------------------------------------
(* The refinement *)

\* No capture has anything to mark, since a process starts with an empty manifest.
LEMMA CaptureUnmarkedNext ==
  ASSUME TypeOK, IInv, CaptureUnmarked, [Next]_vars
  PROVE  CaptureUnmarked'
<1>1. ASSUME NEW i \in Proc, RunStep(i) PROVE CaptureUnmarked'
  <2>0. \A s \in Run : s # i => pc'[s] = pc[s] /\ mem'[s] = mem[s]
    BY <1>1, RunFrame DEF IInv, Proc
  <2>1. CASE run_apply(i)
    <3>1. mem'[i] = Empty
      BY <2>1 DEF run_apply, IInv, MemoryMatchesDisk, Stopped
    <3> QED BY <2>0, <3>1 DEF CaptureUnmarked, Empty
  <2>2. CASE i \in Run /\ capture_one(i)
    <3>1. mem'[i].edited = mem[i].edited /\ pc[i] = "capture"
      BY <2>2, CaptureEffect DEF capture_one
    <3> QED BY <2>0, <2>2, <3>1 DEF CaptureUnmarked
  <2>3. CASE ~run_apply(i) /\ ~(i \in Run /\ capture_one(i))
    <3>1. pc'[i] # "capture"
      <4>1. CASE snapshot_then_write(i)
        BY <4>1, WriteEffect DEF TypeOK, IInv
      <4>2. CASE write_pending(i) \/ clear_pending(i) \/ stop(i)
        BY <4>2, ExitEffect DEF write_pending, clear_pending, stop, Stopped
      <4> QED BY <1>1, <2>3, <4>1, <4>2 DEF RunStep, ApplyStep, ResumeStep, WriterStep,
           execute_snapshot_step, read_target, pre_edit_check, persist_manifest, run_resume,
           execute_phase_b, write_manifest, Goto, TypeOK
    <3> QED BY <2>0, <3>1 DEF CaptureUnmarked
  <2> QED BY <2>1, <2>2, <2>3
<1>2. CASE UNCHANGED <<pc, mem>>
  BY <1>2 DEF CaptureUnmarked
<1>3. (\E b \in Rollback : RollbackStep(b)) \/ (\E p \in Path, c \in EditBytes : user_edit(p, c))
      \/ UNCHANGED vars => UNCHANGED <<pc, mem>>
  BY DEF RollbackStep, restore_begin, restore_entry, restore_done, restore_stop, user_edit, vars, proc
<1> QED BY <1>1, <1>2, <1>3 DEF Next

\* Every step of the engine is a step of the promise or leaves it alone.
LEMMA StepRefines ==
  ASSUME TypeOK, IInv, CaptureUnmarked, [Next]_vars
  PROVE  [R!Next]_(R!vars)
<1>1. CASE Next
  BY <1>1, RunRefines, RollbackRefines, EditRefines DEF Next
<1>2. CASE UNCHANGED vars
  <2>1. UNCHANGED <<live, disk, mem, pending, edits>>
    BY <1>2 DEF vars, proc
  <2>2. Note' = Note /\ KeptRuns' = KeptRuns /\ Marked' = Marked
    BY <2>1 DEF Note, KeptRuns, Marked, Committed
  <2> QED BY <2>1, <2>2, Stutters
<1> QED BY <1>1, <1>2

\* The transaction engine of snapshot/mod.rs and atomic_write.rs keeps the promise
\* of Recoverable under any interleaving of any number of applies, resumes (also
\* of one record), rollbacks, crashes and foreign edits: no write before the
\* baseline of its file is committed, no restore to anything else, no record of an
\* unfinished Phase A.
THEOREM Refinement == Spec => ImplementsRecoverable
<1>1. Init => R!Init /\ CaptureUnmarked
  <2>1. ASSUME Init PROVE CaptureUnmarked
    BY <2>1 DEF Init, CaptureUnmarked, Proc, Empty
  <2> QED BY <2>1, InitRefines
<1>2. TypeOK /\ IInv /\ CaptureUnmarked /\ [Next]_vars => CaptureUnmarked' /\ [R!Next]_(R!vars)
  BY CaptureUnmarkedNext, StepRefines
<1> QED BY <1>1, <1>2, Invariance, PTL DEF Spec, ImplementsRecoverable, R!Spec
=============================================================================
