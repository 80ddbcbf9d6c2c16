---------------------------- MODULE RetentionMC ----------------------------
(***************************************************************************)
(* Retention with two inodes and batches of two files for TLC: either one  *)
(* inode with everything that can happen to it, or two inodes without      *)
(* writers and without calls that outlive their run.                       *)
(***************************************************************************)
EXTENDS Retention

OneInode  == \A i \in Inodes \ {1} : data[i].stat = 0
OneCaller ==
    /\ \A i \in Inodes : ~ writer[i]
    /\ hpc # "idle" => mpc \in {"wait", "idle"}

OneInodeOrCaller == OneInode \/ OneCaller
=============================================================================
