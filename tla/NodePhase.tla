----------------------------- MODULE NodePhase -----------------------------
(***************************************************************************)
(* The node phase of a fleet run: Proxmox nodes are upgraded one at a time *)
(* in inventory order, rebooted when their diagnostics ask for it, and the *)
(* manager container updates itself last (driver.run_node_phase and        *)
(* flows/node.py).                                                         *)
(*                                                                         *)
(* A node may stop and start answering between any two calls.  What a      *)
(* failed call leaves behind is an error text, and the phase decides from  *)
(* the text alone whether the node "never answered": marked is true of a   *)
(* text that holds one of the markers, which a live node's own errors may. *)
(***************************************************************************)
EXTENDS Integers, Sequences

CONSTANTS Nodes, NodeOrder,   \* the nodes, and their inventory order
          ClusterOf,          \* [Nodes -> clusters]
          Nvidia,             \* nodes flagged nvidia_host
          ManagerNode,        \* the node that really hosts the manager
          AptTries,           \* node_apt_retries + 1
          MaxFlaps            \* bound on the times a node stops or starts answering

ASSUME NodeAssumption ==
    /\ NodeOrder \in Seq(Nodes)
    /\ \A i, j \in DOMAIN NodeOrder : NodeOrder[i] = NodeOrder[j] => i = j
    /\ Nvidia \subseteq Nodes /\ ManagerNode \in Nodes
    /\ AptTries \in Nat \ {0} /\ MaxFlaps \in Nat

VARIABLES
    job,     \* what was asked: selected nodes, manager update, dry run, auto reboot
    up,      \* nodes that answer
    flaps,   \* changes of up so far
    at,      \* step of the flow of the node whose turn it is
    turn,    \* its place in NodeOrder
    know,    \* what that flow has learnt
    status,  \* status of the record of each node and of the manager
    answered,\* observation: nodes that answered a call of this phase
    booted   \* observation: nodes this phase has rebooted

nodeVars == <<job, up, flaps, at, turn, know, status, answered, booted>>

Manager  == "manager"
Statuses == {"none", "updated", "rebooted", "manual reboot", "failed", "skipped"}
Steps    == {"probe", "apt", "diagnose", "reboot", "settle", "recheck", "report"}
Job  == [nodes : SUBSET Nodes, manager : BOOLEAN, dry : BOOLEAN, reboots : BOOLEAN]
Know == [manager : BOOLEAN,    \* is_manager
         tries : 0..AptTries,  \* apt attempts made
         wants : BOOLEAN,      \* reboot_needed
         hard : BOOLEAN,       \* hard_errors
         failed : BOOLEAN, marked : BOOLEAN]   \* outcome.error, and its text
Blank == [manager |-> FALSE, tries |-> 0, wants |-> FALSE, hard |-> FALSE,
          failed |-> FALSE, marked |-> FALSE]

NodeTypeOK ==
    /\ job \in Job /\ up \subseteq Nodes /\ flaps \in 0..MaxFlaps
    /\ at \in Steps \cup {"next", "manager", "done"}
    /\ turn \in 0..Len(NodeOrder) /\ (at \in Steps => turn > 0)
    /\ know \in Know
    /\ status \in [Nodes \cup {Manager} -> Statuses]
    /\ answered \subseteq Nodes /\ booted \subseteq answered

NodeInit ==
    /\ flaps = 0 /\ at = "next" /\ turn = 0 /\ know = Blank
    /\ status = [n \in Nodes \cup {Manager} |-> "none"]
    /\ answered = {} /\ booted = {}

node == NodeOrder[turn]

\* A node stops or starts answering.
Flap ==
    /\ flaps < MaxFlaps /\ flaps' = flaps + 1
    /\ \E n \in Nodes : up' = (up \ {n}) \cup ({n} \ up)
    /\ UNCHANGED <<job, at, turn, know, status, answered, booted>>

\* Loop head: the next selected node, then the manager.
NextNode ==
    /\ at = "next"
    /\ IF turn < Len(NodeOrder)
       THEN /\ turn' = turn + 1
            /\ at' = IF NodeOrder[turn + 1] \in job.nodes THEN "probe" ELSE "next"
       ELSE at' = "manager" /\ UNCHANGED turn
    /\ know' = Blank
    /\ UNCHANGED <<job, up, flaps, status, answered, booted>>

Frame == UNCHANGED <<job, up, flaps, turn, status>>

\* The node answers this call.
Answers == node \in up /\ answered' = answered \cup {node}

\* The flow's exception handler: a FAILED outcome with the text of the error.
Raise(marked) ==
    /\ know' = [know EXCEPT !.failed = TRUE, !.marked = marked]
    /\ at' = "report"

\* A call that raises: the node does not answer, or its answer is an error.
CallFails ==
    \/ node \notin up /\ Raise(TRUE) /\ UNCHANGED answered
    \/ Answers /\ \E m \in BOOLEAN : Raise(m)

\* "pct list" finds the manager; any other result reads as "not the manager".
ProbeManager ==
    /\ at = "probe" /\ at' = "apt"
    /\ \/ Answers /\ know' = [know EXCEPT !.manager = (node = ManagerNode)]
       \/ Answers /\ UNCHANGED know
       \/ UNCHANGED <<know, answered>>
    /\ Frame /\ UNCHANGED booted

\* apt dist-upgrade, retried; a simulation ignores its own failure.
Apt ==
    /\ at = "apt"
    /\ \/ Answers /\ at' = "diagnose" /\ UNCHANGED know
       \/ /\ job.dry /\ at' = "diagnose" /\ UNCHANGED know
          /\ (Answers \/ UNCHANGED answered)
       \/ /\ ~ job.dry /\ know.tries + 1 < AptTries
          /\ know' = [know EXCEPT !.tries = @ + 1] /\ UNCHANGED at
          /\ (Answers \/ (node \notin up /\ UNCHANGED answered))
       \/ ~ job.dry /\ know.tries + 1 = AptTries /\ CallFails
    /\ Frame /\ UNCHANGED booted

\* A reboot is due and nothing forbids it.
Allowed == know'.wants /\ ~ know'.manager /\ ~ job.dry /\ job.reboots /\ ~ know'.hard

\* node_post_upgrade and its classification.
Diagnose ==
    /\ at = "diagnose"
    /\ \/ /\ Answers
          /\ \E w, h \in BOOLEAN : know' = [know EXCEPT !.wants = w, !.hard = h]
          /\ at' = IF Allowed THEN "reboot" ELSE "report"
       \/ CallFails
    /\ Frame /\ UNCHANGED booted

\* reboot_host returns when the node is back, or fails after 900 s with a text
\* of its own.
Reboot ==
    /\ at = "reboot"
    /\ \/ node \notin up /\ Raise(TRUE) /\ UNCHANGED <<answered, booted, up>>
       \/ /\ Answers /\ booted' = booted \cup {node}
          /\ \/ at' = "settle" /\ UNCHANGED <<know, up>>
             \/ Raise(FALSE) /\ up' \in {up, up \ {node}}
       \/ Answers /\ (\E m \in BOOLEAN : Raise(m)) /\ UNCHANGED <<booted, up>>
    /\ UNCHANGED <<job, flaps, turn, status>>

\* Wait for the apt proxy's port, which this node may host.
Settle ==
    /\ at = "settle"
    /\ \/ /\ at' = IF node \in Nvidia THEN "recheck" ELSE "report"
          /\ UNCHANGED know
       \/ Raise(FALSE)
    /\ Frame /\ UNCHANGED <<answered, booted>>

\* NVIDIA diagnostics of the booted kernel.
Recheck ==
    /\ at = "recheck"
    /\ \/ Answers /\ \E h \in BOOLEAN : know' = [know EXCEPT !.hard = @ \/ h] /\ at' = "report"
       \/ CallFails
    /\ Frame /\ UNCHANGED booted

\* _cluster_quorate over the selected nodes of the node's own cluster but the node.
Peers     == {n \in job.nodes : ClusterOf[n] = ClusterOf[node] /\ n # node}
Answer(P) == IF P \cap up = {} THEN {FALSE} ELSE BOOLEAN

OutcomeStatus ==
    IF know.failed \/ know.hard THEN "failed"
    ELSE IF node \in booted THEN "rebooted"
    ELSE IF know.wants THEN "manual reboot" ELSE "updated"

Report_EndsPhase ==
    /\ at = "report"
    /\ \E quorate \in Answer(Peers) :
         LET skip == know.failed /\ know.marked /\ quorate
         IN  /\ status' = [status EXCEPT ![node] = IF skip THEN "skipped" ELSE OutcomeStatus]
             /\ at' = IF ~ skip /\ OutcomeStatus = "failed" THEN "done" ELSE "next"
    /\ UNCHANGED <<job, up, flaps, turn, know, answered, booted>>

\* Back in the loop: an unreachable node of a quorate cluster is skipped, any
\* other failure ends the loop.
Report ==
    /\ at = "report"
    /\ \E quorate \in Answer(Peers) :
         LET skip == know.failed /\ know.marked /\ quorate
         IN  /\ status' = [status EXCEPT ![node] = IF skip THEN "skipped" ELSE OutcomeStatus]
             /\ at' = IF ~ skip /\ OutcomeStatus = "failed" THEN "manager" ELSE "next"
    /\ UNCHANGED <<job, up, flaps, turn, know, answered, booted>>

\* run_manager_update: a failed apt is "not changed", only an exception fails it.
UpdateManager ==
    /\ at = "manager" /\ at' = "done"
    /\ \/ /\ job.manager
          /\ \E s \in {"updated", "failed"} : status' = [status EXCEPT ![Manager] = s]
       \/ ~ job.manager /\ UNCHANGED status
    /\ UNCHANGED <<job, up, flaps, turn, know, answered, booted>>

NodeStep == NextNode \/ ProbeManager \/ Apt \/ Diagnose \/ Reboot \/ Settle
                \/ Recheck \/ Report \/ UpdateManager

\* The phase waits for a node, or for the package manager of the manager; the
\* wait for a port (settle) has a deadline.
NodeCalling == \/ at \in Steps \ {"settle", "report"}
               \/ at = "report" /\ know.failed /\ know.marked
               \/ at = "manager" /\ job.manager

NodePhaseFailed == \E n \in DOMAIN status : status[n] = "failed"

-----------------------------------------------------------------------------
\* What README.md says of manager_lxc_id: its node is never rebooted.
ManagerNodeKept == ManagerNode \notin booted

\* What the comment above the node loop says: only a node that never answered
\* is skipped.
SkippedNeverAnswered == \A n \in Nodes : status[n] = "skipped" => n \notin answered
=============================================================================
