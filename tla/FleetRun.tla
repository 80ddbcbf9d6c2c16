------------------------------ MODULE FleetRun ------------------------------
(***************************************************************************)
(* One fleet run of the manager (driver.run_fleet): the phases remote,     *)
(* custom, lxc, vm and node in that order, the canary waves inside three   *)
(* of them, the pool of threads that runs the hosts of a wave, and the     *)
(* final report.  The node phase is NodePhase's; the flow of one host is   *)
(* its outcome here (UpdateFlow has its steps).                            *)
(*                                                                         *)
(* opt is what the operator asked for and the settings that steer the run. *)
(* Nodes stop and start answering at any moment (Flap), which is what      *)
(* discovery, quorum and VM resolution have to live with.                  *)
(***************************************************************************)
EXTENDS NodePhase, FiniteSets

CONSTANTS Remotes, CustomOrder,       \* remote hosts; custom hosts in inventory order
          Guests, Home,               \* managed containers and their nodes
          Vms, VmHome, Twins,         \* VMs, their clusters, other clusters that
                                      \* have a VM of the same vmid
          VmCluster, VmNode,          \* cluster= and pve_node= of the inventory, or None
          DefaultCluster, None,
          Canaries,                   \* canary_hosts and canary=true
          Windowed,                   \* hosts now outside their maintenance window
          NoAlloy, NoHousekeeping,    \* the exclusion lists
          Forks,                      \* worker threads of a wave
          Options                     \* requests considered

VARIABLES
    opt,      \* options and settings of the run
    place,    \* phase the main thread is in
    stage,    \* step of that phase
    disc,     \* discovery: how far, found nodes or clusters, nodes not answering
    batches,  \* sets of hosts still to hand to the thread pool, in order
    waveBad,  \* a host of this phase's folded batches failed
    fate,     \* what became of each host
    acted,    \* observation: cluster in which the run works on a VM
    total,    \* the merged FleetState: failed, changed
    report    \* exit status, dead-man ping, and whether a briefing was sent

driverVars == <<opt, place, stage, disc, batches, waveBad, fate, acted, total, report>>
vars == <<nodeVars, driverVars>>

Customs    == {CustomOrder[i] : i \in DOMAIN CustomOrder}
Hosts      == Remotes \cup Customs \cup Guests \cup Vms
Clusters   == {ClusterOf[n] : n \in Nodes}
PhaseOrder == <<"remote", "custom", "lxc", "vm", "node", "notify">>
Members(p) == CASE p = "remote" -> Remotes [] p = "custom" -> Customs
                [] p = "lxc" -> Guests [] p = "vm" -> Vms [] OTHER -> {}

\* A host is an entry of the inventory: the same name in two groups is two hosts.
ASSUME FleetAssumption ==
    /\ CustomOrder \in Seq(Customs)
    /\ \A i, j \in DOMAIN CustomOrder : CustomOrder[i] = CustomOrder[j] => i = j
    /\ Remotes \cap Customs = {} /\ (Remotes \cup Customs) \cap Guests = {}
    /\ (Remotes \cup Customs \cup Guests) \cap Vms = {}
    /\ Hosts \cap (Nodes \cup {Manager}) = {} /\ Manager \notin Nodes
    /\ Home \in [Guests -> Nodes] /\ VmHome \in [Vms -> Clusters]
    /\ Twins \in [Vms -> SUBSET Clusters]
    /\ VmCluster \in [Vms -> Clusters \cup {None}] /\ VmNode \in [Vms -> Nodes \cup {None}]
    /\ DefaultCluster \in Clusters /\ None \notin Clusters \cup Nodes
    /\ Forks \in Nat \ {0}
    /\ \A o \in Options :
         /\ o.mode \in {"update", "alloy", "housekeeping"}
         /\ o.phases \subseteq {"remote", "custom", "lxc", "vm", "node", "manager"}
         /\ o.limit \subseteq Hosts \cup Nodes \cup {Manager, "all"}
         /\ {o.dry, o.reboots, o.soak, o.bare, o.force} \subseteq BOOLEAN
         /\ o.depends \in [Customs -> SUBSET Customs]

Fates  == {"omitted", "waiting", "running", "idle", "changed", "failed",
           "windowed", "dependency", "canary", "undiscovered"}
Ended  == Fates \ {"waiting", "running"}
Places == {PhaseOrder[i] : i \in DOMAIN PhaseOrder} \cup {"preflight", "ended"}
Stages == {"start", "discover", "canary", "rest"}

TypeOK ==
    /\ NodeTypeOK
    /\ opt \in Options /\ place \in Places /\ stage \in Stages
    /\ disc.next \in Nat /\ disc.found \subseteq Nodes \cup Clusters /\ disc.lost \subseteq Nodes
    /\ \A i \in DOMAIN batches : batches[i] \subseteq Hosts
    /\ waveBad \in BOOLEAN
    /\ fate \in [Hosts -> Fates] /\ acted \in [Vms -> Clusters \cup {None}]
    /\ total \in [failed : BOOLEAN, changed : BOOLEAN]
    /\ report \in [exit : {"none", "0", "1", "aborted"}, ping : {"none", "ok", "fail"},
                   sent : BOOLEAN]

-----------------------------------------------------------------------------
(***************************************************************************)
(* What the options select.                                                *)
(***************************************************************************)
Selected(o, p) ==
    CASE o.mode = "housekeeping" -> p \in {"lxc", "notify"}
      [] o.mode = "alloy"        -> p \in {"lxc", "vm", "notify"}
      [] OTHER -> \/ p \in o.phases \cup {"notify"}
                  \/ p = "node" /\ "manager" \in o.phases

InLimit(o, h) == "all" \in o.limit \/ h \in o.limit

\* Excluded from a logging-only run; maintenance keeps a container that is
\* excluded from Alloy when the limit names it.
Excluded(o, h) ==
    \/ o.mode = "alloy" /\ h \in NoAlloy
    \/ o.mode = "housekeeping" /\ (h \in NoHousekeeping \/ h \in NoAlloy \ o.limit)

Wanted(o, h) ==
    /\ \E p \in {"remote", "custom", "lxc", "vm"} : h \in Members(p) /\ Selected(o, p)
    /\ InLimit(o, h) \/ (h \in Guests /\ Home[h] \in o.limit)
    /\ ~ Excluded(o, h)

Init ==
    /\ opt \in Options
    /\ job = [nodes   |-> IF opt.mode = "update" /\ "node" \in opt.phases
                          THEN {n \in Nodes : InLimit(opt, n)} ELSE {},
              manager |-> opt.mode = "update" /\ "manager" \in opt.phases /\ InLimit(opt, Manager),
              dry     |-> opt.dry, reboots |-> opt.reboots]
    /\ up = Nodes /\ NodeInit
    /\ place = "preflight" /\ stage = "start"
    /\ disc = [next |-> 1, found |-> {}, lost |-> {}]
    /\ batches = <<>> /\ waveBad = FALSE
    /\ fate = [h \in Hosts |-> IF Wanted(opt, h) THEN "waiting" ELSE "omitted"]
    /\ acted = [v \in Vms |-> None]
    /\ total = [failed |-> FALSE, changed |-> FALSE]
    /\ report = [exit |-> "none", ping |-> "none", sent |-> FALSE]

PhaseIndex(p) == CHOOSE i \in DOMAIN PhaseOrder : PhaseOrder[i] = p

\* The next selected phase after place i of PhaseOrder.
Enter(i) ==
    /\ place' = PhaseOrder[CHOOSE j \in DOMAIN PhaseOrder :
                             /\ j > i /\ Selected(opt, PhaseOrder[j])
                             /\ \A k \in (i + 1) .. (j - 1) : ~ Selected(opt, PhaseOrder[k])]
    /\ stage' = "start" /\ waveBad' = FALSE
    /\ disc' = [next |-> 1, found |-> {}, lost |-> {}]
    /\ batches' = <<>>

\* SystemExit or an exception out of run_fleet: no report of any kind.
Abort ==
    /\ place' = "ended" /\ report' = [report EXCEPT !.exit = "aborted"]
    /\ UNCHANGED <<nodeVars, opt, stage, disc, batches, waveBad, fate, acted, total>>

\* Inventory, proxy and catalogue checks before anything is contacted.
Preflight ==
    /\ place = "preflight"
    /\ \/ Enter(0) /\ UNCHANGED <<nodeVars, opt, fate, acted, total, report>>
       \/ Abort

-----------------------------------------------------------------------------
(***************************************************************************)
(* Waves: remote, lxc and vm.                                              *)
(***************************************************************************)
waiting == {h \in Members(place) : fate[h] = "waiting"}

\* One pool per wave, and for containers one pool per node, node after node;
\* a pool with nothing to do is over at once.
Pools(S) ==
    IF place = "lxc"
    THEN [i \in DOMAIN NodeOrder |-> {h \in S : Home[h] = NodeOrder[i]}]
    ELSE <<S>>

\* Canaries go first when there is anyone to protect.
Launch(S) ==
    LET canaries == IF opt.mode = "update" THEN S \cap Canaries ELSE {}
    IN  IF canaries = {} \/ canaries = S
        THEN stage' = "rest" /\ batches' = Pools(S)
        ELSE stage' = "canary" /\ batches' = Pools(canaries)

StartRemote ==
    /\ place = "remote" /\ stage = "start"
    /\ Launch(waiting)
    /\ UNCHANGED <<nodeVars, opt, place, disc, waveBad, fate, acted, total, report>>

StartDiscovery ==
    /\ place \in {"lxc", "vm"} /\ stage = "start" /\ stage' = "discover"
    /\ UNCHANGED <<nodeVars, opt, place, disc, batches, waveBad, fate, acted, total, report>>

\* A node outside the limit is not asked, unless an id or a bare override needs it.
Asked(n) == InLimit(opt, n) \/ opt.limit \cap (Guests \cup Vms) # {} \/ opt.bare

\* Ask one node for its containers: a list, silence, or an error.
DiscoverNode ==
    /\ place = "lxc" /\ stage = "discover" /\ disc.next <= Len(NodeOrder)
    /\ LET n == NodeOrder[disc.next]
       IN  \/ /\ Asked(n) /\ n \in up
              /\ disc' = [disc EXCEPT !.next = @ + 1, !.found = @ \cup {n}]
              /\ UNCHANGED total
           \/ /\ Asked(n) /\ n \notin up
              /\ disc' = [disc EXCEPT !.next = @ + 1, !.lost = @ \cup {n}]
              /\ UNCHANGED total
           \/ /\ Asked(n) /\ n \in up
              /\ disc' = [disc EXCEPT !.next = @ + 1]
              /\ total' = [total EXCEPT !.failed = TRUE]
           \/ ~ Asked(n) /\ disc' = [disc EXCEPT !.next = @ + 1] /\ UNCHANGED total
    /\ UNCHANGED <<nodeVars, opt, place, stage, batches, waveBad, fate, acted, report>>

Reachable(h) == Home[h] \in disc.found
complete     == \A i \in DOMAIN NodeOrder : Asked(NodeOrder[i]) => NodeOrder[i] \in disc.found

\* Each cluster with a silent node is asked for its quorum; without it the run fails.
Verdict ==
    /\ place = "lxc" /\ stage = "discover" /\ disc.next > Len(NodeOrder)
    /\ ~ (opt.bare /\ ~ complete)
    /\ \E quorate \in [{ClusterOf[n] : n \in disc.lost} -> BOOLEAN] :
         /\ \A c \in DOMAIN quorate :
              quorate[c] \in Answer({n \in Nodes \ disc.lost : ClusterOf[n] = c})
         /\ total' = [total EXCEPT !.failed = @ \/ \E c \in DOMAIN quorate : ~ quorate[c]]
    /\ fate' = [h \in Hosts |-> IF h \in waiting /\ ~ Reachable(h) THEN "undiscovered" ELSE fate[h]]
    /\ Launch({h \in waiting : Reachable(h)})
    /\ UNCHANGED <<nodeVars, opt, place, disc, waveBad, acted, report>>

\* A bare override id cannot be told apart from a hidden one.
RefuseOverrides ==
    /\ place = "lxc" /\ stage = "discover" /\ disc.next > Len(NodeOrder)
    /\ opt.bare /\ ~ complete
    /\ Abort

\* Every cluster that has an answering node may tell where its VMs are.
DiscoverVms ==
    /\ place = "vm" /\ stage = "discover"
    /\ \E found \in SUBSET {ClusterOf[n] : n \in up} : disc' = [disc EXCEPT !.found = found]
    /\ Launch(waiting)
    /\ UNCHANGED <<nodeVars, opt, place, waveBad, fate, acted, total, report>>

\* Clusters in which discovery found a VM of v's vmid.
Sighted(v) == disc.found \cap ({VmHome[v]} \cup Twins[v])

\* _resolve_vm_cluster: inventory, then a unique sighting, then the default.
Resolved(v) ==
    IF VmCluster[v] # None THEN VmCluster[v]
    ELSE IF VmNode[v] # None THEN ClusterOf[VmNode[v]]
    ELSE IF Cardinality(Sighted(v)) = 1 THEN CHOOSE c \in Sighted(v) : TRUE
    ELSE DefaultCluster

\* _run_one raises: several clusters to choose from, or no node to go to.
Unresolved(v) ==
    /\ VmNode[v] = None
    /\ Resolved(v) \notin Sighted(v) \/ (VmCluster[v] = None /\ Cardinality(Sighted(v)) > 1)

Workers == IF opt.mode = "housekeeping" THEN 1 ELSE Forks
inPool  == {h \in Hosts : fate[h] = "running"}
OutsideWindow(h) == h \in Windowed /\ ~ opt.force

Begin_LosesWorker(h) ==
    /\ place \in {"remote", "lxc", "vm"} /\ batches # <<>> /\ h \in Head(batches)
    /\ fate[h] = "waiting" /\ Cardinality({g \in Hosts : fate[g] \in {"running", "failed"}}) < Workers
    /\ fate' = [fate EXCEPT ![h] =
                  CASE OutsideWindow(h) /\ h \notin Guests -> "windowed"
                    [] h \in Vms /\ ~ OutsideWindow(h) /\ Unresolved(h) -> "failed"
                    [] OTHER -> "running"]
    /\ acted' = IF h \in Vms /\ fate'[h] = "running" THEN [acted EXCEPT ![h] = Resolved(h)]
                ELSE acted
    /\ UNCHANGED <<nodeVars, opt, place, stage, disc, batches, waveBad, total, report>>

\* A thread of the pool takes a host.
Begin(h) ==
    /\ place \in {"remote", "lxc", "vm"} /\ batches # <<>> /\ h \in Head(batches)
    /\ fate[h] = "waiting" /\ Cardinality(inPool) < Workers
    /\ fate' = [fate EXCEPT ![h] =
                  CASE OutsideWindow(h) /\ h \notin Guests -> "windowed"
                    [] h \in Vms /\ ~ OutsideWindow(h) /\ Unresolved(h) -> "failed"
                    [] OTHER -> "running"]
    /\ acted' = IF h \in Vms /\ fate'[h] = "running" THEN [acted EXCEPT ![h] = Resolved(h)]
                ELSE acted
    /\ UNCHANGED <<nodeVars, opt, place, stage, disc, batches, waveBad, total, report>>

\* The flow of a host returns, or raises in its thread.
End(h) ==
    /\ fate[h] = "running"
    /\ \E outcome \in {"idle", "changed", "failed"} : fate' = [fate EXCEPT ![h] = outcome]
    /\ UNCHANGED <<nodeVars, opt, place, stage, disc, batches, waveBad, acted, total, report>>

\* run_concurrent returns when every future of the pool has its result, and the
\* outcomes are folded into the state.
Fold_FirstResult ==
    /\ batches # <<>> /\ \E h \in Head(batches) : fate[h] \in Ended
    /\ LET failed == \E h \in Head(batches) : fate[h] = "failed"
       IN  /\ waveBad' = (waveBad \/ failed)
           /\ total' = [failed  |-> total.failed \/ failed,
                        changed |-> total.changed \/ \E h \in Head(batches) : fate[h] = "changed"]
    /\ batches' = Tail(batches)
    /\ UNCHANGED <<nodeVars, opt, place, stage, disc, fate, acted, report>>

Fold ==
    /\ batches # <<>> /\ \A h \in Head(batches) : fate[h] \in Ended
    /\ LET failed == \E h \in Head(batches) : fate[h] = "failed"
       IN  /\ waveBad' = (waveBad \/ failed)
           /\ total' = [failed  |-> total.failed \/ failed,
                        changed |-> total.changed \/ \E h \in Head(batches) : fate[h] = "changed"]
    /\ batches' = Tail(batches)
    /\ UNCHANGED <<nodeVars, opt, place, stage, disc, fate, acted, report>>

\* The rest of the phase is recorded SKIPPED (canary failed).
SkipRest ==
    /\ fate' = [h \in Hosts |-> IF h \in waiting THEN "canary" ELSE fate[h]]
    /\ stage' = "rest" /\ UNCHANGED batches

Gate_SoakForgotten ==
    /\ stage = "canary" /\ batches = <<>>
    /\ \/ waveBad /\ SkipRest
       \/ ~ waveBad /\ stage' = "rest" /\ batches' = Pools(waiting) /\ UNCHANGED fate
       \/ ~ waveBad /\ ~ opt.dry /\ opt.soak /\ SkipRest
    /\ UNCHANGED <<nodeVars, opt, place, disc, waveBad, acted, total, report>>

\* After the canaries: a failure ends the phase, and so does a monitor that is
\* not healthy after the soak.
Gate ==
    /\ stage = "canary" /\ batches = <<>>
    /\ \/ waveBad /\ SkipRest /\ UNCHANGED total
       \/ ~ waveBad /\ stage' = "rest" /\ batches' = Pools(waiting) /\ UNCHANGED <<fate, total>>
       \/ /\ ~ waveBad /\ ~ opt.dry /\ opt.soak
          /\ SkipRest /\ total' = [total EXCEPT !.failed = TRUE]
    /\ UNCHANGED <<nodeVars, opt, place, disc, waveBad, acted, report>>

EndPhase_LeavesPool ==
    /\ place \in {"remote", "custom", "lxc", "vm"} /\ stage = "rest"
    /\ Enter(PhaseIndex(place))
    /\ UNCHANGED <<nodeVars, opt, fate, acted, total, report>>

EndPhase ==
    /\ place \in {"remote", "custom", "lxc", "vm"} /\ stage = "rest" /\ batches = <<>>
    /\ Enter(PhaseIndex(place))
    /\ UNCHANGED <<nodeVars, opt, fate, acted, total, report>>

-----------------------------------------------------------------------------
(***************************************************************************)
(* Custom hosts, one after the other.                                      *)
(***************************************************************************)
IndexOf(h) == CHOOSE i \in DOMAIN CustomOrder : CustomOrder[i] = h

\* validate_depends_order, over the whole inventory.
WellOrdered == \A h \in Customs : \A d \in opt.depends[h] : IndexOf(d) <= IndexOf(h)

StartCustom ==
    /\ place = "custom" /\ stage = "start"
    /\ \/ /\ WellOrdered
          /\ stage' = "rest"
          /\ batches' = [i \in DOMAIN CustomOrder |-> {CustomOrder[i]} \cap waiting]
          /\ UNCHANGED <<nodeVars, opt, place, disc, waveBad, fate, acted, total, report>>
       \/ ~ WellOrdered /\ Abort

DependencyFailed(h) == \E d \in opt.depends[h] : fate[d] = "failed"

BeginCustom ==
    /\ place = "custom" /\ batches # <<>>
    /\ \E h \in Head(batches) :
         /\ fate[h] = "waiting"
         /\ fate' = [fate EXCEPT ![h] = IF OutsideWindow(h) THEN "windowed"
                                        ELSE IF DependencyFailed(h) THEN "dependency"
                                        ELSE "running"]
    /\ UNCHANGED <<nodeVars, opt, place, stage, disc, batches, waveBad, acted, total, report>>

\* The file configs/<name>.yml of the next host is missing or invalid.
BrokenConfig ==
    /\ place = "custom" /\ batches # <<>>
    /\ \E h \in Head(batches) : fate[h] = "waiting" /\ ~ OutsideWindow(h)
    /\ Abort

-----------------------------------------------------------------------------
(***************************************************************************)
(* Nodes, the report, and the whole run.                                   *)
(***************************************************************************)
InNodePhase == place = "node" /\ NodeStep /\ UNCHANGED driverVars

EndNodePhase ==
    /\ place = "node" /\ at = "done"
    /\ \E c \in {total.changed, \E n \in DOMAIN status : status[n] \in {"updated", "rebooted", "manual reboot"}} :
         total' = [failed |-> total.failed \/ NodePhaseFailed, changed |-> total.changed \/ c]
    /\ Enter(PhaseIndex("node"))
    /\ UNCHANGED <<nodeVars, opt, fate, acted, report>>

\* run_notify_phase: maintenance pings nothing, and its alert policy may hold a
\* failure back (quiet).
FinalReport ==
    /\ place = "notify" /\ place' = "ended"
    /\ \E attention, quiet \in BOOLEAN :
         report' = [exit |-> IF total.failed THEN "1" ELSE "0",
                    ping |-> IF opt.mode = "housekeeping" THEN "none"
                             ELSE IF total.failed THEN "fail" ELSE "ok",
                    sent |-> \/ attention
                             \/ total.changed /\ opt.mode # "housekeeping"
                             \/ total.failed /\ ~ (quiet /\ opt.mode = "housekeeping")]
    /\ UNCHANGED <<nodeVars, opt, stage, disc, batches, waveBad, fate, acted, total>>

\* Outages matter in the phases that talk to nodes.
Outage == place \in {"lxc", "vm", "node"} /\ Flap /\ UNCHANGED driverVars

Main == \/ Preflight \/ StartRemote \/ StartDiscovery \/ DiscoverNode \/ Verdict
        \/ RefuseOverrides \/ DiscoverVms \/ Fold \/ Gate \/ EndPhase
        \/ StartCustom \/ BeginCustom \/ BrokenConfig
        \/ InNodePhase \/ EndNodePhase \/ FinalReport

\* The process has exited.
Exited == place = "ended" /\ UNCHANGED vars

Next == Main \/ Outage \/ Exited \/ \E h \in Hosts : Begin(h) \/ End(h)

Spec == Init /\ [][Next]_vars

\* The main thread waits for another machine.  invoke_primitive gives such a call
\* no deadline, and no caller of run_concurrent passes one: it may never return.
Calling ==
    \/ /\ place = "lxc" /\ stage = "discover"
       /\ IF disc.next <= Len(NodeOrder) THEN Asked(NodeOrder[disc.next])
          ELSE disc.lost # {} /\ ~ opt.bare
    \/ place = "vm" /\ stage = "discover"
    \/ place = "node" /\ NodeCalling

\* Threads are scheduled.  That a call or the flow of a host returns is nobody's
\* promise, and no fairness is assumed of it.
Fairness == WF_vars(~ Calling /\ Main) /\ \A h \in Hosts : WF_vars(Begin(h))
FairSpec == Spec /\ Fairness

-----------------------------------------------------------------------------
(***************************************************************************)
(* What a run promises.                                                    *)
(***************************************************************************)
Worked == {"running", "idle", "changed", "failed"}

\* No host outside the canaries is worked on before every canary of its phase
\* has come to a good end, in whatever order the threads finish (README.md:33).
CanariesFirst ==
    opt.mode = "update" =>
        \A p \in {"remote", "lxc", "vm"} : \A h \in Members(p) \ Canaries :
            fate[h] \in Worked =>
                \A c \in Members(p) \cap Canaries : fate[c] \notin {"waiting", "running", "failed"}

\* Exit status 0 means that every wanted host was dealt with and nothing failed
\* or was left out because of a failure; the dead-man's switch is told the same,
\* and maintenance never tells it anything (run_notify_phase).
CleanExitMeansClean ==
    /\ report.exit = "0" =>
         /\ \A h \in Hosts : fate[h] \in {"omitted", "idle", "changed", "windowed", "undiscovered"}
         /\ ~ NodePhaseFailed
    /\ report.ping # "none" => (report.ping = "ok") = (report.exit = "0") /\ opt.mode # "housekeeping"

\* The main thread hangs in one call for ever.
MainHangs == <>[]Calling /\ <>[][~ Main]_vars

\* A run comes to its end, whatever nodes do meanwhile and whatever flows fail:
\* only a call that never returns, of the main thread or of the flow of one host,
\* can keep it from that (orchestration.py:59-65).
RunEnds == \/ <>(place = "ended")
           \/ MainHangs \/ \E h \in Hosts : <>[](fate[h] = "running")

\* A manager that is to update itself does so even when the node loop was
\* aborted (run_node_phase: "always runs regardless of node failures"); only a
\* call of the node phase that never returns can keep it from that.
ManagerStillUpdated ==
    \/ (place = "node" /\ job.manager) ~> (status[Manager] # "none")
    \/ MainHangs /\ <>[](place = "node")

Units == Hosts \cup Nodes \cup {Manager}
UnitRank == [u \in Units |->
    CASE u \in Remotes -> 1 [] u \in Customs -> 2 [] u \in Guests -> 3
      [] u \in Vms -> 4 [] OTHER -> 5]

HostDeed(h) == CASE fate[h] \in {"waiting", "running", "failed"} -> fate[h]
                 [] fate[h] \in {"idle", "changed"} -> "done"
                 [] OTHER -> "skipped"

NodeDeed(n) ==
    LET working == at \in Steps /\ n = node
        due     == /\ IF n = Manager THEN job.manager ELSE n \in job.nodes
                   /\ place \notin {"notify", "ended"} \/ report.exit = "aborted"
    IN  CASE status[n] \in {"failed", "skipped"} -> status[n]
          [] status[n] \notin {"failed", "skipped", "none"} -> "done"
          [] status[n] = "none" /\ working -> "running"
          [] status[n] = "none" /\ ~ working /\ due -> "waiting"
          [] OTHER -> "skipped"

\* FleetPromise seen from here: canaries are the front of an update run, except
\* that custom hosts have none, even if canary_hosts names one.
Promise == INSTANCE FleetPromise WITH
    Rank <- UnitRank, Exclusive <- Nodes,
    front   <- IF opt.mode = "update" THEN Canaries \cap (Remotes \cup Guests \cup Vms) ELSE {},
    needs   <- [u \in Units |-> IF u \in Customs THEN opt.depends[u] ELSE {}],
    deed    <- [u \in Units |-> IF u \in Hosts THEN HostDeed(u) ELSE NodeDeed(u)],
    verdict <- CASE report.exit = "0" -> "ok" [] report.exit = "1" -> "failed"
                 [] OTHER -> report.exit

\* The run keeps every promise of FleetPromise: one deed per unit, phases that
\* do not overlap, canaries before the rest, dependencies before dependents, one
\* node at a time and none after a failed one, a truthful verdict at the end.
KeepsPromise == Promise!PromiseSpec

\* What _resolve_vm_cluster says of itself ("Never guesses"): the run works on a
\* VM in the VM's own cluster.
ActsOnOwnVm == \A v \in Vms : acted[v] \in {None, VmHome[v]}

\* What run_fleet says of phase 4: it "always run[s]", so a host that was worked
\* on is never left without a report.
WorkIsReported == report.exit = "aborted" => \A h \in Hosts : fate[h] \notin Worked
=============================================================================
