---------------------------- MODULE MC_Snapshot ----------------------------
(***************************************************************************)
(* Small hosts for Snapshot.  grub is a file Phase A rewrites in place,    *)
(* xml and hook are generated by Phase B.  Solo has one plan with two      *)
(* resumes at a time, Duo two concurrent plans over two of the files.      *)
(***************************************************************************)
EXTENDS Snapshot, TLC

AllNames       == [grub |-> "_grub", xml |-> "_xml", hook |-> "_hook"]
MCName         == {AllNames[p] : p \in Path}
MCBackupName   == [p \in Path |-> AllNames[p]]
MCBytes        == {"u0", "v0", "gen"}
\* The GRUB writer is idempotent; a generated file does not depend on content.
MCRewrite      == [p \in Path |-> [c \in MCBytes \cup {Absent} |-> IF p = "grub" THEN "v0" ELSE "gen"]]
MCEditBytes    == {"u0", Absent}

DuoTouches     == [r \in Run |-> <<"grub", "xml">>]
DuoWorkA       == [r \in Run |-> <<"grub">>]
DuoWorkB       == [r \in Run |-> <<"xml">>]

SoloTouches    == [r \in Run |-> <<"grub", "xml", "hook">>]
SoloWorkA      == [r \in Run |-> <<"grub">>]
SoloWorkB      == [r \in Run |-> <<"xml", "hook">>]

\* All plans of a model are alike, and so are the slots for resumes.
Symmetry       == Permutations(Run) \cup Permutations(Resume)
=============================================================================
