----------------------------- MODULE FleetRunMC -----------------------------
(***************************************************************************)
(* A small fleet for TLC: two nodes of cluster a and one of cluster b,     *)
(* remote and custom hosts, containers on two nodes, and VMs of which one  *)
(* shares its vmid with a VM of the other cluster.                         *)
(***************************************************************************)
EXTENDS FleetRun

MCNodes      == {"a1", "a2", "b1"}
MCNodeOrder  == <<"a1", "a2", "b1">>
MCClusterOf  == [a1 |-> "a", a2 |-> "a", b1 |-> "b"]
MCCustomOrder == <<"d1", "d2", "d3">>
MCHome       == [c1 |-> "a1", c2 |-> "a1", c3 |-> "a1", c4 |-> "b1"]
MCVmHome     == [v1 |-> "b", v2 |-> "a"]
MCTwins      == [v1 |-> {"a"}, v2 |-> {}]
MCVmCluster  == [v1 |-> "none", v2 |-> "none"]
MCVmNode     == [v1 |-> "none", v2 |-> "a2"]

Chain == [d1 |-> {}, d2 |-> {"d1"}, d3 |-> {"d1", "d2"}]
Plain == [mode |-> "update", phases |-> {}, limit |-> {"all"}, dry |-> FALSE,
          reboots |-> TRUE, soak |-> TRUE, bare |-> FALSE, force |-> FALSE, depends |-> Chain]

MCOptions ==
    { [Plain EXCEPT !.phases = {"remote", "custom"}],
      [Plain EXCEPT !.phases = {"custom", "manager"}, !.depends = [Chain EXCEPT !.d1 = {"d3"}]],
      [Plain EXCEPT !.phases = {"lxc", "manager"}],
      [Plain EXCEPT !.phases = {"lxc", "node"}, !.limit = {"a1"}],
      [Plain EXCEPT !.phases = {"remote", "custom", "lxc", "vm", "node", "manager"},
                    !.limit = {"r2", "d2", "c3", "v2", "a2", Manager}],
      [Plain EXCEPT !.phases = {"remote", "lxc"}, !.bare = TRUE, !.limit = {"r1", "c2"}],
      [Plain EXCEPT !.phases = {"remote", "vm", "manager"}, !.force = TRUE],
      [Plain EXCEPT !.phases = {"lxc", "vm", "node"}, !.limit = {"a2", "v1"}, !.dry = TRUE],
      [Plain EXCEPT !.phases = {"node", "manager"}, !.limit = {"a1", "a2", "b1", Manager}],
      [Plain EXCEPT !.mode = "alloy"],
      [Plain EXCEPT !.mode = "housekeeping", !.limit = {"c1", "c2", "c3", "b1"}] }
=============================================================================
