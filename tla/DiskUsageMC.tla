---------------------------- MODULE DiskUsageMC ----------------------------
(***************************************************************************)
(* For TLC: "a" with "b" and "h", "b" with "g".                            *)
(***************************************************************************)
EXTENDS DiskUsage

MCParent == [a |-> "/", b |-> "a", g |-> "b", h |-> "a"]
=============================================================================
