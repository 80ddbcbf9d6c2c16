-------------------------- MODULE ArchiveImportMC --------------------------
(***************************************************************************)
(* The instance of ArchiveImport that TLC checks is the union of two: one  *)
(* log file at a time, with everything; and two at a time, rotated and     *)
(* edited, without an initial capture and open only between runs.          *)
(***************************************************************************)
EXTENDS ArchiveImport

OneLog ==
    /\ \A i \in Inodes \ {1} : mtime[i] = 0
    /\ clock < MaxClock
    /\ at[NPaths] = 0

TwoLogs ==
    /\ \A p \in Paths : blob[p].st = "none"
    /\ Cardinality(Used) <= 3
    /\ clock > 0 => Linked(1)
    /\ \A i \in Inodes : /\ Len(data[i]) <= 1
                         /\ open[i] => mpc = "idle" /\ at[Live] = i

\* What is checked holds as long as no two files share a row.
Bounded == OneLog \/ (TwoLogs /\ OwnRows)
=============================================================================
