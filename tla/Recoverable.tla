---------------------------- MODULE Recoverable ----------------------------
(***************************************************************************)
(* What the snapshot engine promises the owner of the host's files, with   *)
(* the directories, backups, hashes, processes and crashes left out.       *)
(* A run notes the contents it finds, keeps its notes for good, and only   *)
(* then writes, and only files it has notes of; a rollback puts a file     *)
(* back to what the kept note says and to nothing else; the record for     *)
(* `virtu resume` names a run only when all it staged is marked as done.   *)
(* Whoever else owns the host may change any file at any time.             *)
(***************************************************************************)
EXTENDS Naturals

CONSTANTS
  Path,     \* the host's files
  State,    \* contents a file can have, not existing included
  Unseen,   \* no note of the file
  Run,      \* runs
  NoRun,    \* no record
  Touched,  \* Touched[r]: the files of run r
  Staged,   \* Staged[r]: the files run r changes before the reboot
  Makes     \* Makes[p]: the contents Virtu gives p

VARIABLES
  files,   \* the host's files
  note,    \* note[r]: the content run r found at a path
  kept,    \* the runs whose notes are final
  marked,  \* marked[r]: the files run r has recorded as changed
  record,  \* the run that is to be resumed
  others   \* how often somebody else has changed a file

vars == <<files, note, kept, marked, record, others>>

Blank == [p \in Path |-> Unseen]

Init ==
  /\ files \in [Path -> State]
  /\ note = [r \in Run |-> Blank]
  /\ kept = {}
  /\ marked = [r \in Run |-> {}]
  /\ record = NoRun
  /\ others = 0

Observe(r, p) ==
  /\ r \notin kept /\ p \in Touched[r]
  /\ note' = [note EXCEPT ![r][p] = files[p]]
  /\ UNCHANGED <<files, kept, marked, record, others>>

\* The notes of a run that ends before it keeps them are lost.
Abandon(r) ==
  /\ r \notin kept
  /\ note' = [note EXCEPT ![r] = Blank]
  /\ UNCHANGED <<files, kept, marked, record, others>>

Keep(r) ==
  /\ \A p \in Touched[r] : note[r][p] # Unseen
  /\ kept' = kept \cup {r}
  /\ UNCHANGED <<files, note, marked, record, others>>

Write(r, p) ==
  /\ r \in kept /\ p \in Touched[r]
  /\ \E c \in Makes[p] : files' = [files EXCEPT ![p] = c]
  /\ UNCHANGED <<note, kept, marked, record, others>>

\* A later mark may leave out a file that an earlier one had, but none that was
\* changed before the reboot.
Mark(r, done) ==
  /\ r \in kept
  /\ marked[r] \cap Staged[r] \subseteq done
  /\ marked' = [marked EXCEPT ![r] = done]
  /\ UNCHANGED <<files, note, kept, record, others>>

Restore(r, p) ==
  /\ r \in kept /\ p \in Touched[r]
  /\ files' = [files EXCEPT ![p] = note[r][p]]
  /\ UNCHANGED <<note, kept, marked, record, others>>

Announce(r) ==
  /\ r \in kept /\ Staged[r] \subseteq marked[r]
  /\ record' = r
  /\ UNCHANGED <<files, note, kept, marked, others>>

Clear ==
  /\ record' = NoRun
  /\ UNCHANGED <<files, note, kept, marked, others>>

\* Every change of a file that is neither a write nor a restore is owned up to
\* by somebody else.
Outside(p, c) ==
  /\ others' = others + 1
  /\ files' = [files EXCEPT ![p] = c]
  /\ UNCHANGED <<note, kept, marked, record>>

Next ==
  \/ \E r \in Run :
       \/ Keep(r) \/ Abandon(r) \/ Announce(r)
       \/ \E p \in Path : Observe(r, p) \/ Write(r, p) \/ Restore(r, p)
       \/ \E done \in SUBSET Path : Mark(r, done)
  \/ Clear
  \/ \E p \in Path, c \in State : Outside(p, c)

Spec == Init /\ [][Next]_vars
=============================================================================
