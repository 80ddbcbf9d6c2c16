--------------------------- MODULE FleetRun_proofs ---------------------------
(***************************************************************************)
(* Theorems about FleetRun, for any inventory and any number of threads;   *)
(* and, after them, about UpdateFlow, the steps behind the outcome of one  *)
(* host, for every choice of flows, every number of attempts and any       *)
(* number of changes to the guest.                                         *)
(***************************************************************************)
EXTENDS FleetRun, UpdateFlow, FiniteSetTheorems, SequenceTheorems, TLAPS

HostPhases == {"remote", "custom", "lxc", "vm"}
Waves      == {"remote", "lxc", "vm"}
Untouched  == {"omitted", "waiting"}
Active     == {"waiting", "running"}

\* The places of a run in their order, and the place of a host's phase.
Pos(p)  == CASE p = "preflight" -> 0 [] p = "remote" -> 1 [] p = "custom" -> 2 [] p = "lxc" -> 3
             [] p = "vm" -> 4 [] p = "node" -> 5 [] p = "notify" -> 6 [] OTHER -> 7
Turn(h) == CASE h \in Remotes -> 1 [] h \in Customs -> 2 [] h \in Guests -> 3 [] OTHER -> 4

InQueue(h) == \E i \in DOMAIN batches : h \in batches[i]
Ordered(h) == \E i \in DOMAIN NodeOrder : NodeOrder[i] = Home[h]

DriverTypes ==
    /\ opt \in Options /\ place \in Places /\ stage \in Stages
    /\ disc \in [next : Nat \ {0}, found : SUBSET (Nodes \cup Clusters), lost : SUBSET Nodes]
    /\ batches \in Seq(SUBSET Hosts)
    /\ waveBad \in BOOLEAN
    /\ fate \in [Hosts -> Fates]
    /\ total \in [failed : BOOLEAN, changed : BOOLEAN]
    /\ report \in [exit : {"none", "0", "1", "aborted"}, ping : {"none", "ok", "fail"},
                   sent : BOOLEAN]

\* The queue holds hosts of this phase, each once, and none behind its head has begun.
QueueInv ==
    /\ place \notin HostPhases \cup {"ended"} => batches = <<>>
    /\ stage \in {"start", "discover"} => batches = <<>>
    /\ \A i \in DOMAIN batches : \A h \in batches[i] :
         /\ place # "ended" => Turn(h) = Pos(place)
         /\ i > 1 => fate[h] = "waiting"
         /\ \A j \in DOMAIN batches : h \in batches[j] => i = j
    /\ place = "custom" =>
         \A i, j \in DOMAIN batches : \A a, b \in DOMAIN CustomOrder :
            CustomOrder[a] \in batches[i] /\ CustomOrder[b] \in batches[j] =>
              (i = j => a = b) /\ (i < j => a < b)

\* A phase leaves no host waiting or at work, and touches none of another phase.
PhaseFor(h) ==
    /\ fate[h] # "omitted" => Selected(opt, PhaseOrder[Turn(h)])
    /\ Turn(h) > Pos(place) => fate[h] \in Untouched
    /\ Turn(h) = Pos(place) /\ stage \in {"start", "discover"} => fate[h] \in Untouched
    /\ Turn(h) < Pos(place) /\ place # "ended" => fate[h] \notin Active
    /\ Turn(h) = Pos(place) /\ fate[h] \in Active
         /\ (stage = "rest" \/ (stage = "canary" /\ h \in Canaries)) => InQueue(h)
    /\ fate[h] = "running" => place # "ended" /\ batches # <<>> /\ h \in Head(batches)
    /\ place = "lxc" /\ stage \in {"canary", "rest"} /\ Turn(h) = 3 /\ fate[h] = "waiting" => Ordered(h)

PhaseInv == \A h \in Hosts : PhaseFor(h)

DiscInv == place = "lxc" => disc.found \subseteq {NodeOrder[i] : i \in DOMAIN NodeOrder}

\* The rest of a phase is out of the question, or its canaries are past all danger.
Guarded(p) ==
    \/ \A h \in Members(p) \ Canaries : fate[h] \notin Worked \cup {"waiting"}
    \/ \A c \in Members(p) \cap Canaries : fate[c] \notin {"waiting", "running", "failed"}

CanaryInv ==
    /\ stage = "canary" =>
         /\ place \in Waves /\ opt.mode = "update"
         /\ \A i \in DOMAIN batches : batches[i] \subseteq Canaries
         /\ \A h \in Members(place) \ Canaries : fate[h] \notin Worked
         /\ \A c \in Members(place) \cap Canaries : fate[c] = "failed" => waveBad \/ InQueue(c)
    /\ \A p \in Waves :
         opt.mode = "update" /\ place # "ended" /\ (Pos(p) < Pos(place) \/ (p = place /\ stage = "rest"))
           => Guarded(p)
    /\ place = "ended" => stage # "canary" /\ CanariesFirst

\* Nothing fails without the state of the run knowing, at the latest when the batch is folded.
FailInv ==
    /\ waveBad => total.failed
    /\ \A h \in Hosts : fate[h] = "failed" => total.failed \/ InQueue(h)
    /\ \A h \in Hosts : fate[h] \in {"canary", "dependency"} => total.failed
    /\ NodePhaseFailed => place = "node" \/ total.failed

ReportInv ==
    /\ place # "ended" => report.exit = "none" /\ report.ping = "none"
    /\ place = "ended" => report.exit # "none"
    /\ report.exit \in {"0", "1"} => batches = <<>> /\ \A h \in Hosts : fate[h] \notin Active
    /\ report.exit = "0" => ~ total.failed
    /\ report.ping # "none" => (report.ping = "ok") = (report.exit = "0") /\ opt.mode # "housekeeping"

NodeInv ==
    /\ status \in [Nodes \cup {Manager} -> Statuses]
    /\ turn \in 0..Len(NodeOrder) /\ at \in Steps \cup {"next", "manager", "done"}
    /\ job.nodes \subseteq Nodes /\ job.manager \in BOOLEAN /\ up \subseteq Nodes
    /\ job.nodes # {} \/ job.manager => Selected(opt, "node")
    /\ Pos(place) < 5 => at = "next" /\ turn = 0
    /\ at = "next" /\ turn = 0 => \A n \in DOMAIN status : status[n] = "none"
    /\ place # "node" => at \in {"next", "done"}
    /\ at \in Steps => turn > 0 /\ node \in job.nodes /\ status[node] = "none"
    /\ at \in Steps \cup {"next"} => \A n \in Nodes : status[n] # "failed"
    /\ at # "done" => status[Manager] = "none"
    /\ \A n \in Nodes : status[n] # "none" => \E i \in 1..turn : NodeOrder[i] = n

RunInv == /\ DriverTypes /\ QueueInv /\ PhaseInv /\ DiscInv
          /\ CanaryInv /\ FailInv /\ ReportInv /\ NodeInv

(***************************************************************************)
(* Phases and hosts.                                                       *)
(***************************************************************************)
LEMMA PhaseNames ==
    /\ PhaseOrder[1] = "remote" /\ PhaseOrder[2] = "custom" /\ PhaseOrder[3] = "lxc"
    /\ PhaseOrder[4] = "vm" /\ PhaseOrder[5] = "node" /\ PhaseOrder[6] = "notify"
    /\ DOMAIN PhaseOrder = 1 .. 6
    /\ Places = {"preflight", "remote", "custom", "lxc", "vm", "node", "notify", "ended"}
  <1>1. PhaseOrder[1] = "remote" /\ PhaseOrder[2] = "custom" /\ PhaseOrder[3] = "lxc"
        /\ PhaseOrder[4] = "vm" /\ PhaseOrder[5] = "node" /\ PhaseOrder[6] = "notify"
        /\ DOMAIN PhaseOrder = 1 .. 6
    BY DEF PhaseOrder
  <1>2. 1 .. 6 = {1, 2, 3, 4, 5, 6}
    OBVIOUS
  <1> QED
    BY <1>1, <1>2 DEF Places

LEMMA Positions ==
    /\ Pos("preflight") = 0 /\ Pos("remote") = 1 /\ Pos("custom") = 2 /\ Pos("lxc") = 3
    /\ Pos("vm") = 4 /\ Pos("node") = 5 /\ Pos("notify") = 6 /\ Pos("ended") = 7
  BY DEF Pos

LEMMA PositionOfPhase == \A i \in 1 .. 6 : Pos(PhaseOrder[i]) = i
  <1>1. \A i \in 1 .. 6 : i = 1 \/ i = 2 \/ i = 3 \/ i = 4 \/ i = 5 \/ i = 6
    OBVIOUS
  <1> QED
    BY <1>1, PhaseNames, Positions

\* A host has one phase.
LEMMA HostTurns ==
    /\ \A h \in Hosts : Turn(h) \in 1 .. 4
    /\ \A p \in HostPhases : Members(p) = {h \in Hosts : Turn(h) = Pos(p)}
    /\ \A h \in Hosts : h \in Guests <=> Turn(h) = 3
    /\ \A h \in Hosts : h \in Vms <=> Turn(h) = 4
    /\ \A h \in Hosts : h \in Customs <=> Turn(h) = 2
  <1>1. \A h \in Hosts : Turn(h) \in 1 .. 4
    BY DEF Turn
  <1>2. /\ Members("remote") = Remotes /\ Members("custom") = Customs
        /\ Members("lxc") = Guests /\ Members("vm") = Vms
    BY DEF Members
  <1>3. \A h \in Hosts : /\ h \in Remotes <=> Turn(h) = 1
                         /\ h \in Customs <=> Turn(h) = 2
                         /\ h \in Guests <=> Turn(h) = 3
                         /\ h \in Vms <=> Turn(h) = 4
    BY FleetAssumption DEF Turn, Hosts
  <1>4. Remotes \subseteq Hosts /\ Customs \subseteq Hosts /\ Guests \subseteq Hosts /\ Vms \subseteq Hosts
    BY DEF Hosts
  <1> QED
    BY <1>1, <1>2, <1>3, <1>4, Positions DEF HostPhases

LEMMA NotifySelected == opt \in Options => Selected(opt, "notify")
  BY FleetAssumption DEF Selected

\* A run goes on to the next selected phase, and there always is one.
LEMMA EnterMeans ==
    ASSUME opt \in Options, NEW i \in 0 .. 5, Enter(i)
    PROVE  /\ \E j \in (i + 1) .. 6 :
                /\ place' = PhaseOrder[j] /\ Pos(place') = j /\ Pos(place)' = j
                /\ Selected(opt, PhaseOrder[j])
                /\ \A k \in (i + 1) .. (j - 1) : ~ Selected(opt, PhaseOrder[k])
           /\ stage' = "start" /\ batches' = <<>> /\ waveBad' = FALSE
           /\ disc' = [next |-> 1, found |-> {}, lost |-> {}]
  <1> DEFINE Sel(j) == Selected(opt, PhaseOrder[j])
             First(j) == j > i /\ Sel(j) /\ \A k \in (i + 1) .. (j - 1) : ~ Sel(k)
  <1>1. Sel(6)
    BY PhaseNames, NotifySelected
  <1> HIDE DEF Sel
  <1>2. \E j \in 1 .. 6 : First(j)
    <2>1. i \in {0, 1, 2, 3, 4, 5}
      OBVIOUS
    <2> QED
      BY <1>1, <2>1
  <1>3. place' = PhaseOrder[CHOOSE j \in DOMAIN PhaseOrder : First(j)]
    BY DEF Enter, Sel
  <1>4. PICK j \in 1 .. 6 : place' = PhaseOrder[j] /\ First(j)
    BY <1>2, <1>3, PhaseNames
  <1>5. j \in (i + 1) .. 6 /\ Pos(place') = j /\ Pos(place)' = j
    BY <1>4, PositionOfPhase DEF Pos
  <1> QED
    BY <1>4, <1>5 DEF Enter, Sel

LEMMA PhaseIndexes ==
    /\ PhaseIndex("remote") = 1 /\ PhaseIndex("custom") = 2 /\ PhaseIndex("lxc") = 3
    /\ PhaseIndex("vm") = 4 /\ PhaseIndex("node") = 5
  <1>1. \A i \in 1 .. 6 : PhaseIndex(PhaseOrder[i]) = i
    <2>1. \A i, j \in 1 .. 6 : PhaseOrder[i] = PhaseOrder[j] => i = j
      BY PositionOfPhase
    <2> QED
      BY <2>1, PhaseNames DEF PhaseIndex
  <1> QED
    BY <1>1, PhaseNames

(***************************************************************************)
(* Queues.                                                                 *)
(***************************************************************************)
OfPhase(S) == \A h \in S : h \in Hosts /\ Turn(h) = Pos(place)

\* The pools of a wave are a partition of its hosts.
LEMMA PoolsPartition ==
    ASSUME place \in Waves, NEW S \in SUBSET Hosts, OfPhase(S),
           place = "lxc" => \A h \in S : Ordered(h)
    PROVE  /\ Pools(S) \in Seq(SUBSET Hosts)
           /\ \A i \in DOMAIN Pools(S) : Pools(S)[i] \subseteq S
           /\ \A h \in S : \E i \in DOMAIN Pools(S) : h \in Pools(S)[i]
           /\ \A i, j \in DOMAIN Pools(S) : \A h \in Hosts : h \in Pools(S)[i] /\ h \in Pools(S)[j] => i = j
  <1>1. CASE place = "lxc"
    <2> DEFINE q == [i \in DOMAIN NodeOrder |-> {h \in S : Home[h] = NodeOrder[i]}]
    <2>1. Pools(S) = q
      BY <1>1 DEF Pools
    <2>2. Len(NodeOrder) \in Nat /\ DOMAIN NodeOrder = 1 .. Len(NodeOrder)
      BY NodeAssumption
    <2>3. q \in Seq(SUBSET Hosts) /\ DOMAIN q = DOMAIN NodeOrder
      BY <2>2
    <2>4. \A i \in DOMAIN q : q[i] = {h \in S : Home[h] = NodeOrder[i]}
      OBVIOUS
    <2> HIDE DEF q
    <2>5. \A h \in S : \E i \in DOMAIN q : h \in q[i]
      BY <1>1, <2>3, <2>4 DEF Ordered
    <2>6. \A i, j \in DOMAIN q : \A h \in Hosts : h \in q[i] /\ h \in q[j] => i = j
      BY <2>3, <2>4, NodeAssumption
    <2> QED
      BY <2>1, <2>3, <2>4, <2>5, <2>6
  <1>2. CASE place # "lxc"
    <2>1. Pools(S) = <<S>>
      BY <1>2 DEF Pools
    <2>2. <<S>> \in Seq(SUBSET Hosts) /\ DOMAIN <<S>> = {1} /\ <<S>>[1] = S
      OBVIOUS
    <2> QED
      BY <2>1, <2>2
  <1> QED
    BY <1>1, <1>2

\* What folding a pool leaves in the queue.
LEMMA TailMeans ==
    ASSUME batches \in Seq(SUBSET Hosts), batches # <<>>, batches' = Tail(batches)
    PROVE  /\ batches' \in Seq(SUBSET Hosts)
           /\ \A i \in DOMAIN batches' : i + 1 \in DOMAIN batches /\ i + 1 > 1 /\ batches'[i] = batches[i + 1]
           /\ \A i \in DOMAIN batches : i = 1 \/ (i - 1 \in DOMAIN batches' /\ batches'[i - 1] = batches[i])
           /\ 1 \in DOMAIN batches /\ Head(batches) = batches[1]
           /\ DOMAIN batches \subseteq Nat /\ DOMAIN batches' \subseteq Nat
  <1>1. /\ Len(batches) \in Nat \ {0} /\ DOMAIN batches = 1 .. Len(batches) /\ Head(batches) = batches[1]
        /\ batches' \in Seq(SUBSET Hosts) /\ Len(batches') = Len(batches) - 1
        /\ DOMAIN batches' = 1 .. Len(batches')
        /\ \A i \in 1 .. Len(batches) - 1 : batches'[i] = batches[i + 1]
    OBVIOUS
  <1>2. \A i \in DOMAIN batches' : i + 1 \in DOMAIN batches /\ i + 1 > 1 /\ batches'[i] = batches[i + 1]
    BY <1>1
  <1>3. ASSUME NEW i \in DOMAIN batches, i # 1
        PROVE  i - 1 \in DOMAIN batches' /\ batches'[i - 1] = batches[i]
    <2>1. i - 1 \in 1 .. Len(batches) - 1 /\ (i - 1) + 1 = i
      BY <1>1, <1>3
    <2> QED
      BY <1>1, <2>1
  <1> QED
    BY <1>1, <1>2, <1>3

\* The head of a queue is its first pool.
LEMMA HeadMeans ==
    ASSUME batches \in Seq(SUBSET Hosts), batches # <<>>
    PROVE  /\ 1 \in DOMAIN batches /\ Head(batches) = batches[1] /\ DOMAIN batches \subseteq Nat \ {0}
           /\ Head(batches) \subseteq Hosts
  <1>1. Len(batches) \in Nat \ {0} /\ DOMAIN batches = 1 .. Len(batches) /\ Head(batches) = batches[1]
    OBVIOUS
  <1> QED
    BY <1>1

LEMMA EmptyQueue == ASSUME batches = <<>> PROVE DOMAIN batches = {} /\ \A h \in Hosts : ~ InQueue(h)
  BY DEF InQueue

(***************************************************************************)
(* What the invariant says of a run that is not yet over.                  *)
(***************************************************************************)
DriverInv == DriverTypes /\ QueueInv /\ PhaseInv /\ DiscInv /\ CanaryInv /\ FailInv /\ ReportInv

LEMMA CanariesWereFirst == ASSUME DriverInv PROVE CanariesFirst
  <1>1. CASE place = "ended"
    BY <1>1 DEF DriverInv, CanaryInv
  <1>2. CASE place # "ended"
    <2> SUFFICES ASSUME opt.mode = "update", NEW p \in Waves, NEW h \in Members(p) \ Canaries,
                        fate[h] \in Worked, NEW c \in Members(p) \cap Canaries
                 PROVE  fate[c] \notin {"waiting", "running", "failed"}
      BY DEF CanariesFirst, Waves
    <2>1. h \in Hosts /\ Turn(h) = Pos(p) /\ p \in HostPhases /\ place \in Places /\ stage \in Stages
      BY HostTurns DEF Waves, HostPhases, DriverInv, DriverTypes
    <2>2. fate[h] \notin Untouched
      BY DEF Worked, Untouched
    <2>3. Pos(p) <= Pos(place)
      <3>1. Pos(p) \in Int /\ Pos(place) \in Int
        BY DEF Pos
      <3>2. ~ (Pos(p) > Pos(place))
        BY <2>1, <2>2 DEF DriverInv, PhaseInv, PhaseFor
      <3> QED
        BY <3>1, <3>2
    <2>4. CASE Pos(p) < Pos(place)
      BY <1>2, <2>4 DEF DriverInv, CanaryInv, Guarded
    <2>5. CASE Pos(p) = Pos(place)
      <3>1. p = place
        BY <2>1, <2>5, PhaseNames DEF Pos, HostPhases
      <3>2. stage \in {"canary", "rest"}
        BY <2>1, <2>2, <2>5 DEF DriverInv, PhaseInv, PhaseFor, Stages
      <3>3. CASE stage = "canary"
        BY <3>1, <3>3 DEF DriverInv, CanaryInv
      <3>4. CASE stage = "rest"
        BY <1>2, <3>1, <3>4 DEF DriverInv, CanaryInv, Guarded
      <3> QED
        BY <3>2, <3>3, <3>4
    <2> QED
      BY <2>3, <2>4, <2>5 DEF Pos
  <1> QED
    BY <1>1, <1>2

\* Nothing of the driver moves.
LEMMA DriverStill ==
    ASSUME DriverInv, UNCHANGED driverVars, place = "node" \/ UNCHANGED status
    PROVE  DriverInv'
  <1> USE DEF driverVars
  <1>1. DriverTypes'
    BY DEF DriverInv, DriverTypes
  <1>2. QueueInv'
    BY DEF DriverInv, QueueInv
  <1>3. PhaseInv' /\ DiscInv'
    BY DEF DriverInv, PhaseInv, PhaseFor, InQueue, DiscInv, Ordered
  <1>4. CanaryInv'
    BY DEF DriverInv, CanaryInv, Guarded, CanariesFirst, InQueue, Members
  <1>5. FailInv' /\ ReportInv'
    BY DEF DriverInv, FailInv, ReportInv, NodePhaseFailed, InQueue
  <1> QED
    BY <1>1, <1>2, <1>3, <1>4, <1>5 DEF DriverInv

(***************************************************************************)
(* From phase to phase.                                                    *)
(***************************************************************************)
LEMMA EnterKept ==
    ASSUME DriverInv, NEW i \in 0 .. 5, Pos(place) = i, Enter(i), UNCHANGED <<opt, fate, report, status>>,
           batches = <<>>, place # "ended",
           \A h \in Hosts : Turn(h) = i => fate[h] \notin Active,
           i \in 1 .. 4 => stage = "rest",
           total' \in [failed : BOOLEAN, changed : BOOLEAN], total.failed => total'.failed,
           NodePhaseFailed => total'.failed
    PROVE  DriverInv'
  <1>1. /\ opt \in Options /\ fate \in [Hosts -> Fates] /\ place \in Places /\ stage \in Stages
        /\ \A h \in Hosts : Turn(h) \in 1 .. 4
    BY HostTurns DEF DriverInv, DriverTypes
  <1>2. PICK j \in (i + 1) .. 6 :
          /\ place' = PhaseOrder[j] /\ Pos(place') = j /\ Pos(place)' = j
          /\ Selected(opt, PhaseOrder[j])
          /\ \A k \in (i + 1) .. (j - 1) : ~ Selected(opt, PhaseOrder[k])
    BY <1>1, EnterMeans
  <1>3. /\ stage' = "start" /\ batches' = <<>> /\ waveBad' = FALSE
        /\ disc' = [next |-> 1, found |-> {}, lost |-> {}]
    BY <1>1, EnterMeans
  <1>4. i \in Int /\ j \in Int /\ i < j /\ j <= 6
    BY <1>2
  <1>5. place' \in Places /\ place' # "ended"
    <2>1. j \in 1 .. 6
      BY <1>4
    <2>2. j = 1 \/ j = 2 \/ j = 3 \/ j = 4 \/ j = 5 \/ j = 6
      BY <2>1
    <2> QED
      BY <1>2, <2>2, PhaseNames
  <1>6. ASSUME NEW h \in Hosts, i < Turn(h), Turn(h) < j PROVE fate[h] = "omitted"
    <2>1. Turn(h) \in (i + 1) .. (j - 1)
      BY <1>1, <1>4, <1>6
    <2> QED
      BY <1>2, <2>1 DEF DriverInv, PhaseInv, PhaseFor
  <1>7. DriverTypes'
    <2>1. disc' \in [next : Nat \ {0}, found : SUBSET (Nodes \cup Clusters), lost : SUBSET Nodes]
      BY <1>3
    <2>2. batches' \in Seq(SUBSET Hosts) /\ stage' \in Stages /\ waveBad' \in BOOLEAN
      <3>1. <<>> \in Seq(SUBSET Hosts)
        OBVIOUS
      <3> QED
        BY <1>3, <3>1, Zenon DEF Stages
    <2>3. opt' \in Options /\ fate' \in [Hosts -> Fates] /\ UNCHANGED report
      BY <1>1
    <2> QED
      BY <1>5, <2>1, <2>2, <2>3 DEF DriverInv, DriverTypes
  <1>8. QueueInv'
    BY <1>3 DEF QueueInv
  <1>9. PhaseInv'
    <2> SUFFICES ASSUME NEW h \in Hosts
                 PROVE  /\ fate[h] # "omitted" => Selected(opt, PhaseOrder[Turn(h)])
                        /\ Turn(h) >= j => fate[h] \in Untouched
                        /\ Turn(h) < j => fate[h] \notin Active
                        /\ fate[h] # "running"
      BY <1>1, <1>2, <1>3, <1>4 DEF PhaseInv, PhaseFor
    <2>1. fate[h] # "omitted" => Selected(opt, PhaseOrder[Turn(h)])
      BY DEF DriverInv, PhaseInv, PhaseFor
    <2>2. Turn(h) >= j => fate[h] \in Untouched
      BY <1>1, <1>4 DEF DriverInv, PhaseInv, PhaseFor
    <2>3. Turn(h) < j => fate[h] \notin Active
      <3>1. CASE Turn(h) < i
        BY <3>1 DEF DriverInv, PhaseInv, PhaseFor
      <3>2. CASE i < Turn(h) /\ Turn(h) < j
        BY <1>6, <3>2 DEF Active
      <3> QED
        BY <1>1, <1>4, <3>1, <3>2
    <2>4. fate[h] # "running"
      BY DEF DriverInv, PhaseInv, PhaseFor
    <2> QED
      BY <2>1, <2>2, <2>3, <2>4
  <1>10. DiscInv'
    BY <1>3 DEF DiscInv
  <1>11. CanaryInv'
    <2>1. ASSUME NEW p \in Waves, opt.mode = "update", Pos(p) < j PROVE Guarded(p)
      <3>1. Members(p) = {h \in Hosts : Turn(h) = Pos(p)} /\ Pos(p) \in Int
        BY HostTurns DEF Waves, HostPhases, Pos
      <3>2. CASE Pos(p) < i
        BY <2>1, <3>2 DEF DriverInv, CanaryInv
      <3>3. CASE Pos(p) = i
        <4>1. p = place /\ i \in 1 .. 4
          BY <1>1, <3>3, PhaseNames DEF Pos, Waves
        <4> QED
          BY <2>1, <4>1 DEF DriverInv, CanaryInv
      <3>4. CASE i < Pos(p)
        BY <1>6, <2>1, <3>1, <3>4 DEF Guarded, Worked
      <3> QED
        BY <1>4, <3>1, <3>2, <3>3, <3>4
    <2>2. \A p \in Waves : Guarded(p)' = Guarded(p)
      BY DEF Guarded, Members
    <2> QED
      BY <1>2, <1>3, <1>5, <2>1, <2>2 DEF CanaryInv
  <1>12. FailInv'
    <2>1. \A h \in Hosts : ~ InQueue(h)
      BY EmptyQueue
    <2> QED
      BY <1>3, <2>1 DEF DriverInv, FailInv, NodePhaseFailed
  <1>13. ReportInv'
    BY <1>5 DEF DriverInv, ReportInv
  <1> QED
    BY <1>7, <1>8, <1>9, <1>10, <1>11, <1>12, <1>13 DEF DriverInv

\* A run that stops without a report leaves nothing at work.
LEMMA AbortKept ==
    ASSUME DriverInv, Abort, place # "ended", place # "node", stage # "canary",
           \A h \in Hosts : fate[h] # "running"
    PROVE  DriverInv'
  <1>1. /\ place' = "ended" /\ report' = [report EXCEPT !.exit = "aborted"]
        /\ UNCHANGED <<opt, stage, disc, batches, waveBad, fate, total, status>>
    BY DEF Abort, nodeVars
  <1>2. /\ report' \in [exit : {"none", "0", "1", "aborted"}, ping : {"none", "ok", "fail"}, sent : BOOLEAN]
        /\ report'.exit = "aborted" /\ report'.ping = "none" /\ Pos(place') = 7 /\ Pos(place)' = 7
    BY <1>1, Positions DEF DriverInv, DriverTypes, ReportInv, Pos
  <1>3. DriverTypes'
    BY <1>1, <1>2 DEF DriverInv, DriverTypes, Places
  <1>4. QueueInv'
    BY <1>1 DEF DriverInv, QueueInv
  <1>5. PhaseInv' /\ DiscInv'
    BY <1>1, <1>2, HostTurns DEF DriverInv, PhaseInv, PhaseFor, DiscInv
  <1>6. CanaryInv'
    BY <1>1, CanariesWereFirst DEF CanaryInv, CanariesFirst, Members
  <1>7. FailInv'
    BY <1>1 DEF DriverInv, FailInv, NodePhaseFailed, InQueue
  <1>8. ReportInv'
    BY <1>1, <1>2 DEF ReportInv
  <1> QED
    BY <1>3, <1>4, <1>5, <1>6, <1>7, <1>8 DEF DriverInv

\* The report ends a run that has nothing waiting or at work.
LEMMA FinalReportKept == ASSUME DriverInv, FinalReport PROVE DriverInv'
  <1>1. /\ place = "notify" /\ place' = "ended"
        /\ UNCHANGED <<opt, stage, disc, batches, waveBad, fate, total, status>>
    BY DEF FinalReport, nodeVars
  <1>2. /\ report' \in [exit : {"none", "0", "1", "aborted"}, ping : {"none", "ok", "fail"}, sent : BOOLEAN]
        /\ report'.exit = IF total.failed THEN "1" ELSE "0"
        /\ report'.ping = IF opt.mode = "housekeeping" THEN "none" ELSE IF total.failed THEN "fail" ELSE "ok"
    <2>1. PICK attention, quiet \in BOOLEAN :
            report' = [exit |-> IF total.failed THEN "1" ELSE "0",
                       ping |-> IF opt.mode = "housekeeping" THEN "none"
                                ELSE IF total.failed THEN "fail" ELSE "ok",
                       sent |-> \/ attention
                                \/ total.changed /\ opt.mode # "housekeeping"
                                \/ total.failed /\ ~ (quiet /\ opt.mode = "housekeeping")]
      BY DEF FinalReport
    <2> QED
      BY <2>1
  <1>3. batches = <<>> /\ \A h \in Hosts : fate[h] \notin Active /\ ~ InQueue(h)
    <2>1. batches = <<>>
      BY <1>1 DEF DriverInv, QueueInv, HostPhases
    <2>2. \A h \in Hosts : Turn(h) < Pos(place)
      BY <1>1, Positions, HostTurns
    <2> QED
      BY <1>1, <2>1, <2>2, EmptyQueue DEF DriverInv, PhaseInv, PhaseFor
  <1>4. Pos(place') = 7 /\ Pos(place)' = 7
    BY <1>1 DEF Pos
  <1>5. DriverTypes'
    BY <1>1, <1>2 DEF DriverInv, DriverTypes, Places
  <1>6. QueueInv'
    BY <1>1, <1>3 DEF QueueInv
  <1>7. PhaseInv' /\ DiscInv'
    BY <1>1, <1>3, <1>4, HostTurns DEF DriverInv, PhaseInv, PhaseFor, DiscInv, Active
  <1>8. CanaryInv'
    <2>1. stage # "canary"
      BY <1>1 DEF DriverInv, CanaryInv, Waves
    <2> QED
      BY <1>1, <2>1, CanariesWereFirst DEF CanaryInv, CanariesFirst, Members
  <1>9. FailInv'
    BY <1>1 DEF DriverInv, FailInv, NodePhaseFailed, InQueue
  <1>10. ReportInv'
    BY <1>1, <1>2, <1>3 DEF ReportInv
  <1> QED
    BY <1>5, <1>6, <1>7, <1>8, <1>9, <1>10 DEF DriverInv

(***************************************************************************)
(* Waves.                                                                  *)
(***************************************************************************)
\* Canaries first, if there is anyone to protect.
LEMMA LaunchMeans ==
    ASSUME NEW S \in SUBSET Hosts, Launch(S)
    PROVE  \E T \in SUBSET S :
             /\ batches' = Pools(T)
             /\ \/ /\ stage' = "rest" /\ T = S
                   /\ opt.mode = "update" => S \cap Canaries = {} \/ S \subseteq Canaries
                \/ stage' = "canary" /\ T = S \cap Canaries /\ opt.mode = "update"
  <1> DEFINE canaries == IF opt.mode = "update" THEN S \cap Canaries ELSE {}
  <1>1. CASE canaries = {} \/ canaries = S
    <2>1. stage' = "rest" /\ batches' = Pools(S)
      BY <1>1 DEF Launch
    <2>2. opt.mode = "update" => S \cap Canaries = {} \/ S \subseteq Canaries
      BY <1>1
    <2> QED
      BY <2>1, <2>2
  <1>2. CASE ~ (canaries = {} \/ canaries = S)
    <2>1. stage' = "canary" /\ batches' = Pools(canaries)
      BY <1>2 DEF Launch
    <2>2. opt.mode = "update" /\ canaries = S \cap Canaries
      BY <1>2
    <2> QED
      BY <2>1, <2>2
  <1> QED
    BY <1>1, <1>2

\* What a step of a wave leaves to the other phases.
Elsewhere == \A h \in Hosts : Turn(h) # Pos(place) => fate'[h] = fate[h]

LEMMA OthersGuarded ==
    ASSUME DriverInv, place \in HostPhases, Elsewhere, UNCHANGED <<opt, place>>
    PROVE  \A p \in Waves : opt.mode = "update" /\ Pos(p) < Pos(place) => Guarded(p)'
  <1> SUFFICES ASSUME NEW p \in Waves, opt.mode = "update", Pos(p) < Pos(place) PROVE Guarded(p)'
    OBVIOUS
  <1>1. Members(p) = {h \in Hosts : Turn(h) = Pos(p)} /\ Members(p)' = Members(p)
    BY HostTurns DEF Waves, HostPhases, Members
  <1>2. Guarded(p)
    BY DEF DriverInv, CanaryInv, HostPhases
  <1>3. \A h \in Members(p) : fate'[h] = fate[h]
    BY <1>1 DEF Elsewhere, Pos, HostPhases
  <1> QED
    BY <1>1, <1>2, <1>3 DEF Guarded

LEMMA LaunchKept ==
    ASSUME DriverInv, place \in Waves, stage \in {"start", "discover"},
           NEW S \in SUBSET Hosts, OfPhase(S), Launch(S), place = "lxc" => \A h \in S : Ordered(h),
           UNCHANGED <<opt, place, waveBad, report, status>>, Elsewhere, fate' \in [Hosts -> Fates],
           \A h \in Hosts : Turn(h) = Pos(place) =>
             /\ fate'[h] \in {"omitted", "waiting", "undiscovered"}
             /\ fate'[h] = "waiting" <=> h \in S
             /\ fate'[h] # "omitted" => fate[h] # "omitted",
           total' \in [failed : BOOLEAN, changed : BOOLEAN], total.failed => total'.failed,
           disc' \in [next : Nat \ {0}, found : SUBSET (Nodes \cup Clusters), lost : SUBSET Nodes],
           DiscInv'
    PROVE  DriverInv'
  <1>1. PICK T \in SUBSET S :
          /\ batches' = Pools(T)
          /\ \/ /\ stage' = "rest" /\ T = S
                /\ opt.mode = "update" => S \cap Canaries = {} \/ S \subseteq Canaries
             \/ stage' = "canary" /\ T = S \cap Canaries /\ opt.mode = "update"
    BY LaunchMeans
  <1>2. /\ batches' \in Seq(SUBSET Hosts)
        /\ \A i \in DOMAIN batches' : batches'[i] \subseteq T
        /\ \A h \in T : \E i \in DOMAIN batches' : h \in batches'[i]
        /\ \A i, j \in DOMAIN batches' : \A h \in Hosts : h \in batches'[i] /\ h \in batches'[j] => i = j
    <2>1. T \in SUBSET Hosts /\ OfPhase(T) /\ (place = "lxc" => \A h \in T : Ordered(h))
      BY DEF OfPhase
    <2> QED
      BY <1>1, <2>1, PoolsPartition
  <1>3. stage' \in {"canary", "rest"} /\ place \in HostPhases /\ place # "custom" /\ place # "ended"
        /\ place # "node"
    BY <1>1 DEF Waves, HostPhases
  <1>4. /\ Members(place) = {h \in Hosts : Turn(h) = Pos(place)} /\ Members(place)' = Members(place)
        /\ Pos(place)' = Pos(place) /\ Pos(place) \in 1 .. 4
        /\ \A h \in Hosts : Turn(h) \in 1 .. 4
    BY <1>3, HostTurns DEF Members, Pos, HostPhases
  <1>5. DriverTypes'
    BY <1>2, <1>3 DEF DriverInv, DriverTypes, Stages
  <1>6. QueueInv'
    <2>1. ASSUME NEW i \in DOMAIN batches', NEW h \in batches'[i]
          PROVE  /\ Turn(h) = Pos(place) /\ fate'[h] = "waiting"
                 /\ \A j \in DOMAIN batches' : h \in batches'[j] => i = j
      BY <1>2, <2>1 DEF OfPhase
    <2> QED
      BY <1>3, <1>4, <2>1 DEF QueueInv
  <1>7. PhaseInv'
    <2>1. ASSUME NEW h \in Hosts, Turn(h) # Pos(place)
          PROVE  /\ fate'[h] # "omitted" => Selected(opt, PhaseOrder[Turn(h)])
                 /\ Turn(h) > Pos(place) => fate'[h] \in Untouched
                 /\ Turn(h) < Pos(place) => fate'[h] \notin Active
                 /\ fate'[h] # "running"
      <3>1. fate'[h] = fate[h]
        BY <2>1 DEF Elsewhere
      <3>2. fate[h] # "running"
        BY <1>3, <1>4, <2>1 DEF DriverInv, PhaseInv, PhaseFor, Active, Untouched
      <3> QED
        BY <1>3, <3>1, <3>2 DEF DriverInv, PhaseInv, PhaseFor
    <2>2. ASSUME NEW h \in Hosts, Turn(h) = Pos(place)
          PROVE  /\ fate'[h] # "omitted" => Selected(opt, PhaseOrder[Turn(h)])
                 /\ fate'[h] # "running"
                 /\ place = "lxc" /\ fate'[h] = "waiting" => Ordered(h)
                 /\ fate'[h] \in Active /\ (stage' = "rest" \/ h \in Canaries) => InQueue(h)'
      <3>1. fate'[h] # "omitted" => Selected(opt, PhaseOrder[Turn(h)])
        BY <2>2 DEF DriverInv, PhaseInv, PhaseFor
      <3>2. fate'[h] # "running" /\ (fate'[h] = "waiting" <=> h \in S)
        BY <2>2
      <3>3. h \in S /\ (stage' = "rest" \/ h \in Canaries) => h \in T
        BY <1>1
      <3>4. h \in T => InQueue(h)'
        BY <1>2 DEF InQueue
      <3> QED
        BY <3>1, <3>2, <3>3, <3>4 DEF Active
    <2>3. ASSUME NEW h \in Hosts PROVE PhaseFor(h)'
      <3>1. CASE Turn(h) # Pos(place)
        BY <1>3, <1>4, <2>1, <3>1, Positions DEF PhaseFor
      <3>2. CASE Turn(h) = Pos(place)
        BY <1>3, <1>4, <2>2, <3>2 DEF PhaseFor
      <3> QED
        BY <3>1, <3>2
    <2> QED
      BY <2>3 DEF PhaseInv
  <1>8. CanaryInv'
    <2>1. \A p \in Waves : opt.mode = "update" /\ Pos(p) < Pos(place) => Guarded(p)'
      BY <1>3, OthersGuarded
    <2>2. ASSUME opt.mode = "update", stage' = "rest" PROVE Guarded(place)'
      <3>1. \A h \in Members(place) : fate'[h] \notin Worked
                /\ (fate'[h] = "waiting" => h \in S) /\ fate'[h] \notin {"running", "failed"}
        BY <1>4 DEF Worked
      <3>2. S \cap Canaries = {} \/ S \subseteq Canaries
        BY <1>1, <2>2
      <3> QED
        BY <1>4, <3>1, <3>2 DEF Guarded
    <2>3. ASSUME stage' = "canary"
          PROVE  /\ opt.mode = "update"
                 /\ \A i \in DOMAIN batches' : batches'[i] \subseteq Canaries
                 /\ \A h \in Members(place) : fate'[h] \notin Worked /\ fate'[h] # "failed"
      BY <1>1, <1>2, <1>4, <2>3 DEF Worked
    <2> QED
      BY <1>3, <1>4, <2>1, <2>2, <2>3 DEF CanaryInv
  <1>9. FailInv'
    <2>1. ASSUME NEW h \in Hosts, fate'[h] \in {"failed", "canary", "dependency"} PROVE total'.failed
      <3>1. Turn(h) # Pos(place) /\ fate'[h] = fate[h]
        BY <2>1 DEF Elsewhere
      <3>2. ~ InQueue(h)
        BY <1>3 DEF DriverInv, QueueInv, InQueue
      <3> QED
        BY <2>1, <3>1, <3>2 DEF DriverInv, FailInv
    <2>2. NodePhaseFailed' => total'.failed
      BY <1>3 DEF DriverInv, FailInv, NodePhaseFailed
    <2>3. waveBad' => total'.failed
      BY DEF DriverInv, FailInv
    <2> QED
      BY <2>1, <2>2, <2>3 DEF FailInv
  <1>10. ReportInv'
    BY <1>3 DEF DriverInv, ReportInv
  <1> QED
    BY <1>5, <1>6, <1>7, <1>8, <1>9, <1>10 DEF DriverInv

LEMMA WaitingMeans ==
    ASSUME DriverInv, place \in HostPhases
    PROVE  /\ waiting = {h \in Hosts : Turn(h) = Pos(place) /\ fate[h] = "waiting"}
           /\ waiting \in SUBSET Hosts /\ OfPhase(waiting)
  BY HostTurns DEF waiting, OfPhase

LEMMA StartRemoteKept == ASSUME DriverInv, StartRemote PROVE DriverInv'
  <1>1. /\ place = "remote" /\ stage = "start" /\ Launch(waiting)
        /\ UNCHANGED <<status, opt, place, disc, waveBad, fate, total, report>>
    BY DEF StartRemote, nodeVars
  <1>2. /\ waiting = {h \in Hosts : Turn(h) = Pos(place) /\ fate[h] = "waiting"}
        /\ waiting \in SUBSET Hosts /\ OfPhase(waiting)
    BY <1>1, WaitingMeans DEF HostPhases
  <1>3. \A h \in Hosts : Turn(h) = Pos(place) =>
          /\ fate'[h] \in {"omitted", "waiting", "undiscovered"}
          /\ fate'[h] = "waiting" <=> h \in waiting
          /\ fate'[h] # "omitted" => fate[h] # "omitted"
    BY <1>1, <1>2 DEF DriverInv, PhaseInv, PhaseFor, Untouched
  <1>4. DiscInv' /\ Elsewhere
    BY <1>1 DEF DiscInv, Elsewhere
  <1>5. /\ total' \in [failed : BOOLEAN, changed : BOOLEAN] /\ (total.failed => total'.failed)
        /\ disc' \in [next : Nat \ {0}, found : SUBSET (Nodes \cup Clusters), lost : SUBSET Nodes]
        /\ fate' \in [Hosts -> Fates]
    BY <1>1 DEF DriverInv, DriverTypes
  <1>6. place \in Waves /\ stage \in {"start", "discover"} /\ place # "lxc"
    BY <1>1 DEF Waves
  <1> HIDE DEF waiting
  <1> QED
    BY <1>1, <1>2, <1>3, <1>4, <1>5, <1>6, LaunchKept

LEMMA StartDiscoveryKept == ASSUME DriverInv, StartDiscovery PROVE DriverInv'
  <1>1. /\ place \in {"lxc", "vm"} /\ stage = "start" /\ stage' = "discover"
        /\ UNCHANGED <<status, opt, place, disc, batches, waveBad, fate, total, report>>
    BY DEF StartDiscovery, nodeVars
  <1>2. DriverTypes' /\ QueueInv'
    BY <1>1 DEF DriverInv, DriverTypes, QueueInv, Stages
  <1>3. PhaseInv' /\ DiscInv'
    <2>1. ASSUME NEW h \in Hosts PROVE PhaseFor(h)'
      BY <1>1 DEF DriverInv, PhaseInv, PhaseFor
    <2> QED
      BY <1>1, <2>1 DEF DriverInv, DiscInv, PhaseInv
  <1>4. CanaryInv'
    BY <1>1 DEF DriverInv, CanaryInv, Guarded, Members
  <1>5. FailInv' /\ ReportInv'
    BY <1>1 DEF DriverInv, FailInv, ReportInv, NodePhaseFailed, InQueue
  <1> QED
    BY <1>2, <1>3, <1>4, <1>5 DEF DriverInv

\* A node answers, is silent or fails.
LEMMA DiscoverNodeKept == ASSUME DriverInv, DiscoverNode PROVE DriverInv'
  <1> DEFINE n == NodeOrder[disc.next]
  <1>1. /\ place = "lxc" /\ stage = "discover" /\ disc.next <= Len(NodeOrder)
        /\ UNCHANGED <<status, opt, place, stage, batches, waveBad, fate, report>>
    BY DEF DiscoverNode, nodeVars
  <1>2. /\ disc \in [next : Nat \ {0}, found : SUBSET (Nodes \cup Clusters), lost : SUBSET Nodes]
        /\ total \in [failed : BOOLEAN, changed : BOOLEAN]
    BY DEF DriverInv, DriverTypes
  <1>3. disc.next \in DOMAIN NodeOrder /\ n \in Nodes
    <2>1. Len(NodeOrder) \in Nat /\ DOMAIN NodeOrder = 1 .. Len(NodeOrder)
      BY NodeAssumption
    <2>2. disc.next \in 1 .. Len(NodeOrder)
      BY <1>1, <1>2, <2>1
    <2> QED
      BY <2>1, <2>2, NodeAssumption
  <1>4. /\ \/ disc' = [disc EXCEPT !.next = @ + 1, !.found = @ \cup {n}]
           \/ disc' = [disc EXCEPT !.next = @ + 1, !.lost = @ \cup {n}]
           \/ disc' = [disc EXCEPT !.next = @ + 1]
        /\ total' = total \/ total' = [total EXCEPT !.failed = TRUE]
    BY DEF DiscoverNode
  <1> HIDE DEF n
  <1>5. /\ disc' \in [next : Nat \ {0}, found : SUBSET (Nodes \cup Clusters), lost : SUBSET Nodes]
        /\ disc'.found \subseteq disc.found \cup {n}
    <2>1. disc.next + 1 \in Nat \ {0}
      BY <1>2
    <2>2. /\ disc.found \in SUBSET (Nodes \cup Clusters) /\ disc.lost \in SUBSET Nodes
          /\ disc.found \cup {n} \in SUBSET (Nodes \cup Clusters) /\ disc.lost \cup {n} \in SUBSET Nodes
      BY <1>2, <1>3
    <2>3. PICK f, l : /\ disc' = [next |-> disc.next + 1, found |-> f, lost |-> l]
                      /\ f = disc.found \/ f = disc.found \cup {n}
                      /\ l = disc.lost \/ l = disc.lost \cup {n}
      <3>1. CASE disc' = [disc EXCEPT !.next = @ + 1, !.found = @ \cup {n}]
        <4>1. disc' = [next |-> disc.next + 1, found |-> disc.found \cup {n}, lost |-> disc.lost]
          BY <1>2, <3>1
        <4> QED
          BY <4>1
      <3>2. CASE disc' = [disc EXCEPT !.next = @ + 1, !.lost = @ \cup {n}]
        <4>1. disc' = [next |-> disc.next + 1, found |-> disc.found, lost |-> disc.lost \cup {n}]
          BY <1>2, <3>2
        <4> QED
          BY <4>1
      <3>3. CASE disc' = [disc EXCEPT !.next = @ + 1]
        <4>1. disc' = [next |-> disc.next + 1, found |-> disc.found, lost |-> disc.lost]
          BY <1>2, <3>3
        <4> QED
          BY <4>1
      <3> QED
        BY <1>4, <3>1, <3>2, <3>3
    <2> QED
      BY <2>1, <2>2, <2>3
  <1>6. /\ total' \in [failed : BOOLEAN, changed : BOOLEAN]
        /\ total.failed => total'.failed
    BY <1>2, <1>4
  <1>7. DriverTypes'
    BY <1>1, <1>5, <1>6 DEF DriverInv, DriverTypes
  <1>8. QueueInv'
    BY <1>1 DEF DriverInv, QueueInv
  <1>9. PhaseInv'
    <2>1. ASSUME NEW h \in Hosts PROVE PhaseFor(h)'
      BY <1>1 DEF DriverInv, PhaseInv, PhaseFor, InQueue
    <2> QED
      BY <2>1 DEF PhaseInv
  <1>10. DiscInv'
    BY <1>1, <1>3, <1>5 DEF DriverInv, DiscInv, n
  <1>11. CanaryInv'
    BY <1>1 DEF DriverInv, CanaryInv, Guarded, Members
  <1>12. FailInv' /\ ReportInv'
    BY <1>1, <1>6 DEF DriverInv, FailInv, ReportInv, NodePhaseFailed, InQueue
  <1> QED
    BY <1>7, <1>8, <1>9, <1>10, <1>11, <1>12 DEF DriverInv

\* Containers on nodes that did not answer are out of reach.
LEMMA VerdictKept == ASSUME DriverInv, Verdict PROVE DriverInv'
  <1> DEFINE S == {h \in waiting : Reachable(h)}
  <1>1. /\ place = "lxc" /\ stage = "discover" /\ Launch(S)
        /\ fate' = [h \in Hosts |-> IF h \in waiting /\ ~ Reachable(h) THEN "undiscovered" ELSE fate[h]]
        /\ UNCHANGED <<status, opt, place, disc, waveBad, report>>
    BY DEF Verdict, nodeVars
  <1>2. /\ waiting = {h \in Hosts : Turn(h) = Pos(place) /\ fate[h] = "waiting"}
        /\ waiting \in SUBSET Hosts /\ OfPhase(waiting)
    BY <1>1, WaitingMeans DEF HostPhases
  <1>3. /\ total' \in [failed : BOOLEAN, changed : BOOLEAN] /\ (total.failed => total'.failed)
    <2>1. PICK q : total' = [total EXCEPT !.failed = @ \/ \E c \in DOMAIN q : ~ q[c]]
      BY DEF Verdict
    <2>2. total \in [failed : BOOLEAN, changed : BOOLEAN]
      BY DEF DriverInv, DriverTypes
    <2> DEFINE b == \E c \in DOMAIN q : ~ q[c]
    <2>3. total' = [total EXCEPT !.failed = total.failed \/ b] /\ b \in BOOLEAN
      BY <2>1
    <2> HIDE DEF b
    <2> QED
      BY <2>2, <2>3
  <1>4. /\ disc' \in [next : Nat \ {0}, found : SUBSET (Nodes \cup Clusters), lost : SUBSET Nodes]
        /\ fate' \in [Hosts -> Fates]
    <2>1. fate \in [Hosts -> Fates] /\ "undiscovered" \in Fates
      BY DEF DriverInv, DriverTypes, Fates
    <2> QED
      BY <1>1, <2>1 DEF DriverInv, DriverTypes
  <1>5. DiscInv' /\ Elsewhere
    BY <1>1, <1>2 DEF DriverInv, DiscInv, Elsewhere
  <1>6. S \in SUBSET Hosts /\ OfPhase(S) /\ \A h \in S : Ordered(h)
    <2>1. \A h \in S : Home[h] \in {NodeOrder[i] : i \in DOMAIN NodeOrder}
      BY <1>1 DEF DriverInv, DiscInv, Reachable
    <2> QED
      BY <1>2, <2>1 DEF OfPhase, Ordered
  <1>7. \A h \in Hosts : Turn(h) = Pos(place) =>
          /\ fate'[h] \in {"omitted", "waiting", "undiscovered"}
          /\ fate'[h] = "waiting" <=> h \in S
          /\ fate'[h] # "omitted" => fate[h] # "omitted"
    <2> SUFFICES ASSUME NEW h \in Hosts, Turn(h) = Pos(place)
                 PROVE  /\ fate'[h] \in {"omitted", "waiting", "undiscovered"}
                        /\ fate'[h] = "waiting" <=> h \in S
                        /\ fate'[h] # "omitted" => fate[h] # "omitted"
      OBVIOUS
    <2>1. fate[h] \in {"omitted", "waiting"}
      BY <1>1 DEF DriverInv, PhaseInv, PhaseFor, Untouched
    <2>2. h \in waiting <=> fate[h] = "waiting"
      BY <1>2
    <2>3. fate'[h] = IF h \in waiting /\ ~ Reachable(h) THEN "undiscovered" ELSE fate[h]
      BY <1>1
    <2> QED
      BY <2>1, <2>2, <2>3
  <1>8. place \in Waves /\ stage \in {"start", "discover"}
    BY <1>1 DEF Waves
  <1> HIDE DEF S
  <1> QED
    BY <1>1, <1>3, <1>4, <1>5, <1>6, <1>7, <1>8, LaunchKept

LEMMA DiscoverVmsKept == ASSUME DriverInv, up \subseteq Nodes, DiscoverVms PROVE DriverInv'
  <1>1. /\ place = "vm" /\ stage = "discover" /\ Launch(waiting)
        /\ UNCHANGED <<status, opt, place, waveBad, fate, total, report>>
    BY DEF DiscoverVms, nodeVars
  <1>2. /\ waiting = {h \in Hosts : Turn(h) = Pos(place) /\ fate[h] = "waiting"}
        /\ waiting \in SUBSET Hosts /\ OfPhase(waiting)
    BY <1>1, WaitingMeans DEF HostPhases
  <1>3. \A h \in Hosts : Turn(h) = Pos(place) =>
          /\ fate'[h] \in {"omitted", "waiting", "undiscovered"}
          /\ fate'[h] = "waiting" <=> h \in waiting
          /\ fate'[h] # "omitted" => fate[h] # "omitted"
    BY <1>1, <1>2 DEF DriverInv, PhaseInv, PhaseFor, Untouched
  <1>4. DiscInv' /\ Elsewhere
    BY <1>1 DEF DiscInv, Elsewhere
  <1>5. disc' \in [next : Nat \ {0}, found : SUBSET (Nodes \cup Clusters), lost : SUBSET Nodes]
    <2>1. PICK found \in SUBSET {ClusterOf[n] : n \in up} : disc' = [disc EXCEPT !.found = found]
      BY DEF DiscoverVms
    <2>2. found \subseteq Clusters
      BY <2>1 DEF Clusters
    <2> QED
      BY <2>1, <2>2 DEF DriverInv, DriverTypes
  <1>6. /\ total' \in [failed : BOOLEAN, changed : BOOLEAN] /\ (total.failed => total'.failed)
        /\ fate' \in [Hosts -> Fates]
    BY <1>1 DEF DriverInv, DriverTypes
  <1>7. place \in Waves /\ stage \in {"start", "discover"} /\ place # "lxc"
    BY <1>1 DEF Waves
  <1> HIDE DEF waiting
  <1> QED
    BY <1>1, <1>2, <1>3, <1>4, <1>5, <1>6, <1>7, LaunchKept

LEMMA RefuseOverridesKept == ASSUME DriverInv, RefuseOverrides PROVE DriverInv'
  <1>1. place = "lxc" /\ stage = "discover" /\ Abort /\ batches = <<>>
    BY DEF RefuseOverrides, DriverInv, QueueInv
  <1>2. \A h \in Hosts : fate[h] # "running"
    BY <1>1 DEF DriverInv, PhaseInv, PhaseFor
  <1> QED
    BY <1>1, <1>2, AbortKept

(***************************************************************************)
(* Pools at work.                                                          *)
(***************************************************************************)
\* A host of the first pool begins or ends.
LEMMA WorkKept ==
    ASSUME DriverInv, NEW h \in Hosts, batches # <<>>, h \in Head(batches), place # "ended",
           fate[h] \in Active, NEW f, fate' = [fate EXCEPT ![h] = f],
           f \in {"running", "idle", "changed", "failed", "windowed", "dependency"},
           f = "dependency" => total.failed,
           UNCHANGED <<opt, place, stage, disc, batches, waveBad, total, report, status>>
    PROVE  DriverInv'
  <1>1. /\ fate \in [Hosts -> Fates] /\ stage \in Stages /\ batches \in Seq(SUBSET Hosts)
        /\ 1 \in DOMAIN batches /\ Head(batches) = batches[1] /\ DOMAIN batches \subseteq Nat \ {0}
    BY HeadMeans DEF DriverInv, DriverTypes
  <1>2. /\ place \in HostPhases /\ stage \in {"canary", "rest"} /\ Turn(h) = Pos(place) /\ InQueue(h)
    BY <1>1 DEF DriverInv, QueueInv, InQueue, Stages
  <1>3. /\ Members(place) = {k \in Hosts : Turn(k) = Pos(place)}
        /\ Pos(place) \in 1 .. 4 /\ Pos(place)' = Pos(place) /\ \A k \in Hosts : Turn(k) \in 1 .. 4
        /\ \A k : InQueue(k)' = InQueue(k)
    BY <1>2, HostTurns DEF Pos, HostPhases, InQueue
  <1>4. fate'[h] = f /\ \A k \in Hosts : k # h => fate'[k] = fate[k]
    BY <1>1
  <1>5. DriverTypes'
    <2>1. fate' \in [Hosts -> Fates]
      BY <1>1 DEF Fates
    <2> QED
      BY <2>1 DEF DriverInv, DriverTypes
  <1>6. QueueInv'
    <2>1. \A i \in DOMAIN batches : h \in batches[i] => i = 1
      BY <1>1 DEF DriverInv, QueueInv
    <2>2. ASSUME NEW i \in DOMAIN batches, NEW k \in batches[i], i > 1 PROVE fate'[k] = "waiting"
      <3>1. k # h /\ k \in Hosts
        BY <1>1, <2>1, <2>2
      <3> QED
        BY <1>4, <2>2, <3>1 DEF DriverInv, QueueInv
    <2> QED
      BY <1>3, <2>2 DEF DriverInv, QueueInv
  <1>7. PhaseInv'
    <2>1. PhaseFor(h)'
      <3>1. fate[h] # "omitted" /\ Selected(opt, PhaseOrder[Turn(h)])
        BY DEF DriverInv, PhaseInv, PhaseFor, Active
      <3> QED
        BY <1>2, <1>3, <1>4, <3>1 DEF PhaseFor
    <2>2. ASSUME NEW k \in Hosts, k # h PROVE PhaseFor(k)'
      BY <1>3, <1>4, <2>2 DEF DriverInv, PhaseInv, PhaseFor
    <2> QED
      BY <2>1, <2>2 DEF PhaseInv
  <1>8. DiscInv'
    BY DEF DriverInv, DiscInv
  <1>9. CanaryInv'
    <2>1. \A p \in Waves : opt.mode = "update" /\ Pos(p) < Pos(place) => Guarded(p)'
      BY <1>2, <1>4, OthersGuarded DEF Elsewhere
    <2>2. ASSUME opt.mode = "update", stage = "rest", place \in Waves PROVE Guarded(place)'
      <3>1. Guarded(place)
        BY <2>2 DEF DriverInv, CanaryInv
      <3>2. CASE h \in Canaries
        <4>1. \A k \in Members(place) \ Canaries : fate[k] \notin Worked \cup {"waiting"}
          BY <1>2, <1>3, <3>1, <3>2 DEF Guarded, Active
        <4> QED
          BY <1>3, <1>4, <3>2, <4>1 DEF Guarded
      <3>3. CASE h \notin Canaries
        <4>1. \A c \in Members(place) \cap Canaries : fate[c] \notin {"waiting", "running", "failed"}
          BY <1>2, <1>3, <3>1, <3>3 DEF Guarded, Active, Worked
        <4> QED
          BY <1>3, <1>4, <3>3, <4>1 DEF Guarded
      <3> QED
        BY <3>2, <3>3
    <2>3. ASSUME stage = "canary"
          PROVE  /\ \A k \in Members(place) \ Canaries : fate'[k] \notin Worked
                 /\ \A c \in Members(place) \cap Canaries : fate'[c] = "failed" => waveBad \/ InQueue(c)
      <3>1. h \in Canaries
        BY <1>1, <2>3 DEF DriverInv, CanaryInv
      <3> QED
        BY <1>2, <1>3, <1>4, <2>3, <3>1 DEF DriverInv, CanaryInv
    <2>4. stage = "canary" => /\ place \in Waves /\ opt.mode = "update"
                              /\ \A i \in DOMAIN batches : batches[i] \subseteq Canaries
      BY DEF DriverInv, CanaryInv
    <2>5. Members(place)' = Members(place)
      BY DEF Members
    <2> QED
      BY <1>3, <2>1, <2>2, <2>3, <2>4, <2>5 DEF CanaryInv
  <1>10. FailInv'
    <2>1. ASSUME NEW k \in Hosts
          PROVE  /\ fate'[k] = "failed" => total.failed \/ InQueue(k)
                 /\ fate'[k] \in {"canary", "dependency"} => total.failed
      <3>1. CASE k = h
        BY <1>2, <1>4, <3>1
      <3>2. CASE k # h
        BY <1>4, <3>2 DEF DriverInv, FailInv
      <3> QED
        BY <3>1, <3>2
    <2> QED
      BY <1>3, <2>1 DEF DriverInv, FailInv, NodePhaseFailed
  <1>11. ReportInv'
    BY DEF DriverInv, ReportInv
  <1> QED
    BY <1>5, <1>6, <1>7, <1>8, <1>9, <1>10, <1>11 DEF DriverInv

LEMMA BeginKept == ASSUME DriverInv, NEW h \in Hosts, Begin(h) PROVE DriverInv'
  <1> DEFINE f == CASE OutsideWindow(h) /\ h \notin Guests -> "windowed"
                    [] h \in Vms /\ ~ OutsideWindow(h) /\ Unresolved(h) -> "failed"
                    [] OTHER -> "running"
  <1>1. /\ place \in Waves /\ batches # <<>> /\ h \in Head(batches) /\ fate[h] = "waiting"
        /\ fate' = [fate EXCEPT ![h] = f]
        /\ UNCHANGED <<opt, place, stage, disc, batches, waveBad, total, report, status>>
    BY DEF Begin, nodeVars, Waves
  <1>2. f \in {"running", "failed", "windowed"}
    OBVIOUS
  <1> HIDE DEF f
  <1> QED
    BY <1>1, <1>2, WorkKept DEF Waves, Active

LEMMA EndKept == ASSUME DriverInv, NEW h \in Hosts, End(h) PROVE DriverInv'
  <1>1. PICK f \in {"idle", "changed", "failed"} : fate' = [fate EXCEPT ![h] = f]
    BY DEF End
  <1>2. fate[h] = "running" /\ UNCHANGED <<opt, place, stage, disc, batches, waveBad, total, report, status>>
    BY DEF End, nodeVars
  <1>3. place # "ended" /\ batches # <<>> /\ h \in Head(batches)
    BY <1>2 DEF DriverInv, PhaseInv, PhaseFor
  <1> QED
    BY <1>1, <1>2, <1>3, WorkKept DEF Active

\* A pool is folded when all of its hosts have ended.
LEMMA FoldKept == ASSUME DriverInv, Fold PROVE DriverInv'
  <1> DEFINE bad == \E h \in Head(batches) : fate[h] = "failed"
             new == total.changed \/ \E h \in Head(batches) : fate[h] = "changed"
  <1>1. /\ batches # <<>> /\ batches' = Tail(batches)
        /\ \A h \in Head(batches) : fate[h] \in Ended
        /\ UNCHANGED <<opt, place, stage, disc, fate, report, status>>
        /\ waveBad' = (waveBad \/ bad)
        /\ total' = [failed |-> total.failed \/ bad, changed |-> new]
    BY DEF Fold, nodeVars
  <1>2. bad \in BOOLEAN /\ new \in BOOLEAN
    BY DEF DriverInv, DriverTypes
  <1>3. bad => \E h \in Head(batches) : fate[h] = "failed"
    OBVIOUS
  <1>4. \A h \in Head(batches) : fate[h] = "failed" => bad
    OBVIOUS
  <1> HIDE DEF bad, new
  <1>5. /\ batches \in Seq(SUBSET Hosts) /\ stage \in Stages
        /\ waveBad \in BOOLEAN /\ total \in [failed : BOOLEAN, changed : BOOLEAN]
    BY DEF DriverInv, DriverTypes
  <1>6. /\ batches' \in Seq(SUBSET Hosts)
        /\ \A i \in DOMAIN batches' : i + 1 \in DOMAIN batches /\ i + 1 > 1 /\ batches'[i] = batches[i + 1]
        /\ \A i \in DOMAIN batches : i = 1 \/ (i - 1 \in DOMAIN batches' /\ batches'[i - 1] = batches[i])
        /\ 1 \in DOMAIN batches /\ Head(batches) = batches[1]
        /\ DOMAIN batches \subseteq Nat /\ DOMAIN batches' \subseteq Nat
    BY <1>1, <1>5, TailMeans
  <1>7. \A h \in Hosts : InQueue(h) => InQueue(h)' \/ h \in Head(batches)
    BY <1>6 DEF InQueue
  <1>8. \A h \in Hosts : fate[h] # "running"
    BY <1>1 DEF DriverInv, PhaseInv, PhaseFor, Ended
  <1>9. stage \in {"canary", "rest"} /\ place \in HostPhases \cup {"ended"}
    BY <1>1, <1>5 DEF DriverInv, QueueInv, Stages
  <1>10. total' \in [failed : BOOLEAN, changed : BOOLEAN] /\ waveBad' \in BOOLEAN
         /\ (total'.failed <=> total.failed \/ bad)
    BY <1>1, <1>2, <1>5
  <1>11. DriverTypes'
    BY <1>1, <1>6, <1>10 DEF DriverInv, DriverTypes
  <1>12. QueueInv'
    <2>1. ASSUME NEW i \in DOMAIN batches', NEW h \in batches'[i]
          PROVE  /\ place # "ended" => Turn(h) = Pos(place)
                 /\ fate[h] = "waiting"
                 /\ \A j \in DOMAIN batches' : h \in batches'[j] => i = j
      <3>1. i + 1 \in DOMAIN batches /\ i + 1 > 1 /\ h \in batches[i + 1]
        BY <1>6
      <3>2. \A j \in DOMAIN batches' : h \in batches'[j] => i + 1 = j + 1
        BY <1>6, <3>1 DEF DriverInv, QueueInv
      <3> QED
        BY <1>6, <3>1, <3>2 DEF DriverInv, QueueInv
    <2>2. ASSUME place = "custom", NEW i \in DOMAIN batches', NEW j \in DOMAIN batches',
                 NEW a \in DOMAIN CustomOrder, NEW b \in DOMAIN CustomOrder,
                 CustomOrder[a] \in batches'[i], CustomOrder[b] \in batches'[j]
          PROVE  (i = j => a = b) /\ (i < j => a < b)
      <3>1. /\ i + 1 \in DOMAIN batches /\ j + 1 \in DOMAIN batches
            /\ CustomOrder[a] \in batches[i + 1] /\ CustomOrder[b] \in batches[j + 1]
        BY <1>6, <2>2
      <3>2. (i + 1 = j + 1 => a = b) /\ (i + 1 < j + 1 => a < b)
        BY <2>2, <3>1 DEF DriverInv, QueueInv
      <3> QED
        BY <1>6, <3>2
    <2>3. Pos(place)' = Pos(place)
      BY <1>1 DEF Pos
    <2> QED
      BY <1>1, <1>9, <2>1, <2>2, <2>3 DEF QueueInv
  <1>13. PhaseInv'
    <2>1. ASSUME NEW h \in Hosts PROVE PhaseFor(h)'
      <3>1. fate[h] \in Active => h \notin Head(batches)
        BY <1>1 DEF Ended, Active
      <3>2. fate[h] \in Active /\ InQueue(h) => InQueue(h)'
        BY <1>7, <3>1
      <3> QED
        BY <1>1, <1>8, <3>2 DEF DriverInv, PhaseInv, PhaseFor
    <2> QED
      BY <2>1 DEF PhaseInv
  <1>14. DiscInv'
    BY <1>1 DEF DriverInv, DiscInv
  <1>15. CanaryInv'
    <2>1. ASSUME stage = "canary"
          PROVE  /\ place \in Waves /\ opt.mode = "update"
                 /\ \A i \in DOMAIN batches' : batches'[i] \subseteq Canaries
                 /\ \A h \in Members(place) \ Canaries : fate[h] \notin Worked
                 /\ \A c \in Members(place) \cap Canaries : fate[c] = "failed" => waveBad' \/ InQueue(c)'
      <3>1. place \in Waves /\ opt.mode = "update" /\ Members(place) \subseteq Hosts
        BY <2>1, HostTurns DEF DriverInv, CanaryInv, Waves, HostPhases
      <3>2. \A i \in DOMAIN batches' : batches'[i] \subseteq Canaries
        BY <1>6, <2>1 DEF DriverInv, CanaryInv
      <3>3. ASSUME NEW c \in Members(place) \cap Canaries, fate[c] = "failed" PROVE waveBad' \/ InQueue(c)'
        <4>1. waveBad \/ InQueue(c)
          BY <2>1, <3>3 DEF DriverInv, CanaryInv
        <4>2. InQueue(c) => InQueue(c)' \/ bad
          BY <1>4, <1>7, <3>1, <3>3
        <4> QED
          BY <1>1, <4>1, <4>2
      <3> QED
        BY <2>1, <3>1, <3>2, <3>3 DEF DriverInv, CanaryInv
    <2>2. \A p \in Waves : Guarded(p)' = Guarded(p)
      BY <1>1 DEF Guarded, Members
    <2>3. Members(place)' = Members(place) /\ Pos(place)' = Pos(place)
      BY <1>1 DEF Members, Pos
    <2>4. CanariesFirst' = CanariesFirst
      BY <1>1 DEF CanariesFirst, Members
    <2> QED
      BY <1>1, <2>1, <2>2, <2>3, <2>4 DEF DriverInv, CanaryInv
  <1>16. FailInv'
    <2>1. \A h \in Hosts : fate[h] = "failed" => total'.failed \/ InQueue(h)'
      BY <1>4, <1>7, <1>10 DEF DriverInv, FailInv
    <2>2. waveBad' => total'.failed
      BY <1>1, <1>10 DEF DriverInv, FailInv
    <2> QED
      BY <1>1, <1>10, <2>1, <2>2 DEF DriverInv, FailInv, NodePhaseFailed
  <1>17. ReportInv'
    BY <1>1 DEF DriverInv, ReportInv
  <1> QED
    BY <1>11, <1>12, <1>13, <1>14, <1>15, <1>16, <1>17 DEF DriverInv

\* After the canaries.
LEMMA GateKept == ASSUME DriverInv, Gate PROVE DriverInv'
  <1>1. /\ stage = "canary" /\ batches = <<>> /\ stage' = "rest"
        /\ UNCHANGED <<opt, place, disc, waveBad, report, status>>
    BY DEF Gate, SkipRest, nodeVars
  <1>2. /\ place \in Waves /\ opt.mode = "update" /\ place \in HostPhases /\ place # "ended" /\ place # "custom"
        /\ \A h \in Members(place) \ Canaries : fate[h] \notin Worked
        /\ \A c \in Members(place) \cap Canaries : fate[c] = "failed" => waveBad
    BY <1>1, EmptyQueue, HostTurns DEF DriverInv, CanaryInv, Waves, HostPhases
  <1>3. /\ waiting = {h \in Hosts : Turn(h) = Pos(place) /\ fate[h] = "waiting"}
        /\ waiting \in SUBSET Hosts /\ OfPhase(waiting)
    BY <1>2, WaitingMeans
  <1>4. /\ Members(place) = {h \in Hosts : Turn(h) = Pos(place)} /\ Members(place)' = Members(place)
        /\ Pos(place)' = Pos(place) /\ Pos(place) \in 1 .. 4 /\ \A h \in Hosts : Turn(h) \in 1 .. 4
    BY <1>1, <1>2, HostTurns DEF Members, Pos, HostPhases
  <1>5. /\ fate \in [Hosts -> Fates] /\ total \in [failed : BOOLEAN, changed : BOOLEAN]
        /\ \A h \in Hosts : ~ InQueue(h)
    BY <1>1, EmptyQueue DEF DriverInv, DriverTypes
  <1>6. ASSUME NEW c \in Members(place) \cap Canaries PROVE fate[c] \notin Active
    BY <1>1, <1>4, <1>5, <1>6 DEF DriverInv, PhaseInv, PhaseFor
  <1>7. \A h \in Hosts : fate[h] # "running"
    BY <1>1 DEF DriverInv, PhaseInv, PhaseFor
  <1> HIDE DEF waiting
  <1>8. CASE ~ waveBad /\ batches' = Pools(waiting) /\ UNCHANGED <<fate, total>>
    <2>1. place = "lxc" => \A h \in waiting : Ordered(h)
      BY <1>1, <1>3, Positions DEF DriverInv, PhaseInv, PhaseFor
    <2>2. /\ batches' \in Seq(SUBSET Hosts)
          /\ \A i \in DOMAIN batches' : batches'[i] \subseteq waiting
          /\ \A h \in waiting : \E i \in DOMAIN batches' : h \in batches'[i]
          /\ \A i, j \in DOMAIN batches' : \A h \in Hosts : h \in batches'[i] /\ h \in batches'[j] => i = j
      <3>1. /\ Pools(waiting) \in Seq(SUBSET Hosts)
            /\ \A i \in DOMAIN Pools(waiting) : Pools(waiting)[i] \subseteq waiting
            /\ \A h \in waiting : \E i \in DOMAIN Pools(waiting) : h \in Pools(waiting)[i]
            /\ \A i, j \in DOMAIN Pools(waiting) : \A h \in Hosts :
                  h \in Pools(waiting)[i] /\ h \in Pools(waiting)[j] => i = j
        BY <1>2, <1>3, <2>1, PoolsPartition
      <3>2. batches' = Pools(waiting)
        BY <1>8
      <3> QED
        BY <3>1, <3>2
    <2>3. DriverTypes'
      BY <1>1, <1>8, <2>2 DEF DriverInv, DriverTypes, Stages
    <2>4. QueueInv'
      <3>1. ASSUME NEW i \in DOMAIN batches', NEW h \in batches'[i]
            PROVE  /\ Turn(h) = Pos(place) /\ fate[h] = "waiting"
                   /\ \A j \in DOMAIN batches' : h \in batches'[j] => i = j
        BY <1>3, <2>2, <3>1
      <3> QED
        BY <1>1, <1>2, <1>4, <1>8, <3>1 DEF QueueInv
    <2>5. PhaseInv'
      <3>1. ASSUME NEW h \in Hosts PROVE PhaseFor(h)'
        <4>1. Turn(h) = Pos(place) /\ fate[h] \in Active => InQueue(h)'
          BY <1>3, <1>7, <2>2 DEF Active, InQueue
        <4> QED
          BY <1>1, <1>2, <1>4, <1>7, <1>8, <4>1 DEF DriverInv, PhaseInv, PhaseFor
      <3> QED
        BY <3>1 DEF PhaseInv
    <2>6. DiscInv'
      BY <1>1 DEF DriverInv, DiscInv
    <2>7. CanaryInv'
      <3>1. \A p \in Waves : opt.mode = "update" /\ Pos(p) < Pos(place) => Guarded(p)'
        BY <1>1, <1>2, <1>8, OthersGuarded DEF Elsewhere
      <3>2. Guarded(place)'
        BY <1>2, <1>4, <1>6, <1>8 DEF Guarded, Active
      <3> QED
        BY <1>1, <1>2, <1>4, <3>1, <3>2 DEF CanaryInv
    <2>8. FailInv' /\ ReportInv'
      BY <1>1, <1>2, <1>5, <1>8 DEF DriverInv, FailInv, ReportInv, NodePhaseFailed
    <2> QED
      BY <2>3, <2>4, <2>5, <2>6, <2>7, <2>8 DEF DriverInv
  <1>9. CASE /\ SkipRest
             /\ total' \in [failed : BOOLEAN, changed : BOOLEAN] /\ total'.failed
    <2>1. /\ batches' = batches
          /\ fate' = [h \in Hosts |-> IF h \in waiting THEN "canary" ELSE fate[h]]
      BY <1>9 DEF SkipRest
    <2>2. /\ fate' \in [Hosts -> Fates]
          /\ \A h \in Hosts : Turn(h) # Pos(place) => fate'[h] = fate[h]
          /\ \A h \in Hosts : Turn(h) = Pos(place) => fate'[h] \notin Active /\ fate'[h] # "waiting"
          /\ \A h \in Hosts : fate'[h] = fate[h] \/ (fate[h] = "waiting" /\ fate'[h] = "canary")
      <3>1. \A h \in Hosts : fate'[h] = IF h \in waiting THEN "canary" ELSE fate[h]
        BY <2>1
      <3>2. \A h \in Hosts : h \in waiting <=> Turn(h) = Pos(place) /\ fate[h] = "waiting"
        BY <1>3
      <3>3. fate' \in [Hosts -> Fates]
        BY <1>5, <2>1 DEF Fates
      <3> QED
        BY <1>7, <3>1, <3>2, <3>3 DEF Active
    <2>3. DriverTypes'
      BY <1>1, <1>9, <2>1, <2>2 DEF DriverInv, DriverTypes, Stages
    <2>4. QueueInv'
      BY <1>1, <2>1 DEF QueueInv
    <2>5. PhaseInv'
      <3>1. ASSUME NEW h \in Hosts PROVE PhaseFor(h)'
        <4>1. CASE Turn(h) = Pos(place)
          <5>1. Selected(opt, PhaseOrder[Turn(h)]) \/ fate'[h] = "omitted"
            BY <2>2 DEF DriverInv, PhaseInv, PhaseFor
          <5> QED
            BY <1>1, <1>2, <1>4, <2>2, <4>1, <5>1 DEF PhaseFor, Active
        <4>2. CASE Turn(h) # Pos(place)
          BY <1>1, <1>2, <1>4, <1>7, <2>2, <4>2, Positions DEF DriverInv, PhaseInv, PhaseFor
        <4> QED
          BY <4>1, <4>2
      <3> QED
        BY <3>1 DEF PhaseInv
    <2>6. DiscInv'
      BY <1>1 DEF DriverInv, DiscInv
    <2>7. CanaryInv'
      <3>1. \A p \in Waves : opt.mode = "update" /\ Pos(p) < Pos(place) => Guarded(p)'
        BY <1>1, <1>2, <2>2, OthersGuarded DEF Elsewhere
      <3>2. Guarded(place)'
        <4>1. ASSUME NEW h \in Members(place) \ Canaries PROVE fate'[h] \notin Worked \cup {"waiting"}
          <5>1. h \in Hosts /\ Turn(h) = Pos(place) /\ fate[h] \notin Worked
            BY <1>2, <1>4
          <5> QED
            BY <2>2, <5>1 DEF Worked
        <4> QED
          BY <1>4, <4>1 DEF Guarded
      <3> QED
        BY <1>1, <1>2, <1>4, <3>1, <3>2 DEF CanaryInv
    <2>8. FailInv'
      <3>1. NodePhaseFailed' = NodePhaseFailed
        BY <1>1 DEF NodePhaseFailed
      <3> QED
        BY <1>9 DEF FailInv
    <2>9. ReportInv'
      BY <1>1, <1>2 DEF DriverInv, ReportInv
    <2> QED
      BY <2>3, <2>4, <2>5, <2>6, <2>7, <2>8, <2>9 DEF DriverInv
  <1>10. \/ ~ waveBad /\ batches' = Pools(waiting) /\ UNCHANGED <<fate, total>>
         \/ SkipRest /\ waveBad /\ UNCHANGED total
         \/ SkipRest /\ total' = [total EXCEPT !.failed = TRUE]
    BY DEF Gate
  <1>11. CASE SkipRest /\ waveBad /\ UNCHANGED total
    <2>1. total'.failed
      BY <1>11 DEF DriverInv, FailInv
    <2> QED
      BY <1>5, <1>9, <1>11, <2>1
  <1>12. CASE SkipRest /\ total' = [total EXCEPT !.failed = TRUE]
    <2>1. total'.failed /\ total' \in [failed : BOOLEAN, changed : BOOLEAN]
      BY <1>5, <1>12
    <2> QED
      BY <1>9, <1>12, <2>1
  <1> QED
    BY <1>8, <1>10, <1>11, <1>12

LEMMA EndPhaseKept == ASSUME DriverInv, EndPhase PROVE DriverInv'
  <1>1. /\ place \in HostPhases /\ stage = "rest" /\ batches = <<>> /\ Enter(PhaseIndex(place))
        /\ UNCHANGED <<opt, fate, total, report, status>>
    BY DEF EndPhase, nodeVars, HostPhases
  <1>2. PhaseIndex(place) = Pos(place) /\ Pos(place) \in 1 .. 4 /\ Pos(place) \in 0 .. 5
        /\ place # "ended" /\ place # "node"
    BY <1>1, PhaseIndexes, Positions DEF HostPhases
  <1>3. \A h \in Hosts : Turn(h) = Pos(place) => fate[h] \notin Active
    BY <1>1, EmptyQueue DEF DriverInv, PhaseInv, PhaseFor
  <1>4. /\ total' \in [failed : BOOLEAN, changed : BOOLEAN] /\ (total.failed => total'.failed)
        /\ (NodePhaseFailed => total'.failed)
    BY <1>1, <1>2 DEF DriverInv, DriverTypes, FailInv
  <1> QED
    BY <1>1, <1>2, <1>3, <1>4, EnterKept

LEMMA PreflightKept == ASSUME DriverInv, Preflight PROVE DriverInv'
  <1>1. place = "preflight" /\ Pos(place) = 0
    BY Positions DEF Preflight
  <1>2. \A h \in Hosts : fate[h] \in Untouched
    BY <1>1, HostTurns DEF DriverInv, PhaseInv, PhaseFor
  <1>3. stage # "canary" /\ batches = <<>>
    BY <1>1 DEF DriverInv, CanaryInv, QueueInv, Waves, HostPhases
  <1>4. CASE Enter(0) /\ UNCHANGED <<nodeVars, opt, fate, acted, total, report>>
    <2>1. \A h \in Hosts : Turn(h) # 0
      BY HostTurns
    <2>2. /\ total' \in [failed : BOOLEAN, changed : BOOLEAN] /\ (total.failed => total'.failed)
          /\ (NodePhaseFailed => total'.failed) /\ UNCHANGED <<opt, fate, report, status>>
      BY <1>1, <1>4 DEF DriverInv, DriverTypes, FailInv, nodeVars
    <2> QED
      BY <1>1, <1>3, <1>4, <2>1, <2>2, EnterKept
  <1>5. CASE Abort
    BY <1>1, <1>2, <1>3, <1>5, AbortKept DEF Untouched
  <1> QED
    BY <1>4, <1>5 DEF Preflight

LEMMA EndNodePhaseKept == ASSUME DriverInv, EndNodePhase PROVE DriverInv'
  <1>1. /\ place = "node" /\ Enter(5) /\ Pos(place) = 5 /\ batches = <<>>
        /\ UNCHANGED <<opt, fate, report, status>>
    BY PhaseIndexes, Positions DEF EndNodePhase, nodeVars, DriverInv, QueueInv, HostPhases
  <1>2. /\ total' \in [failed : BOOLEAN, changed : BOOLEAN] /\ (total.failed => total'.failed)
        /\ (NodePhaseFailed => total'.failed)
    <2>1. PICK c \in {total.changed, \E n \in DOMAIN status : status[n] \in {"updated", "rebooted", "manual reboot"}} :
            total' = [failed |-> total.failed \/ NodePhaseFailed, changed |-> total.changed \/ c]
      BY DEF EndNodePhase
    <2>2. total.failed \in BOOLEAN /\ total.changed \in BOOLEAN /\ c \in BOOLEAN /\ NodePhaseFailed \in BOOLEAN
      BY DEF DriverInv, DriverTypes, NodePhaseFailed
    <2> QED
      BY <2>1, <2>2
  <1>3. \A h \in Hosts : Turn(h) # 5
    BY HostTurns
  <1> QED
    BY <1>1, <1>2, <1>3, EnterKept

(***************************************************************************)
(* Custom hosts.                                                           *)
(***************************************************************************)
LEMMA StartCustomKept == ASSUME DriverInv, StartCustom PROVE DriverInv'
  <1>1. place = "custom" /\ stage = "start"
    BY DEF StartCustom
  <1>2. \A h \in Hosts : fate[h] # "running" /\ ~ InQueue(h)
    BY <1>1, EmptyQueue DEF DriverInv, PhaseInv, PhaseFor, QueueInv
  <1>3. CASE Abort
    BY <1>1, <1>2, <1>3, AbortKept
  <1> DEFINE q == [i \in DOMAIN CustomOrder |-> {CustomOrder[i]} \cap waiting]
  <1>4. CASE stage' = "rest" /\ batches' = q
              /\ UNCHANGED <<nodeVars, opt, place, disc, waveBad, fate, acted, total, report>>
    <2>1. /\ waiting = {h \in Hosts : Turn(h) = Pos(place) /\ fate[h] = "waiting"}
          /\ waiting \in SUBSET Hosts /\ OfPhase(waiting)
      BY <1>1, WaitingMeans DEF HostPhases
    <2>2. Len(CustomOrder) \in Nat /\ DOMAIN CustomOrder = 1 .. Len(CustomOrder)
      BY FleetAssumption
    <2>3. q \in Seq(SUBSET Hosts) /\ DOMAIN q = DOMAIN CustomOrder
      BY <2>1, <2>2
    <2>4. \A i \in DOMAIN CustomOrder : batches'[i] = {CustomOrder[i]} \cap waiting
      BY <1>4
    <2>5. batches' \in Seq(SUBSET Hosts) /\ DOMAIN batches' = DOMAIN CustomOrder
      BY <1>4, <2>3
    <2>6. \A h \in waiting : \E i \in DOMAIN batches' : h \in batches'[i]
      <3>1. \A h \in waiting : h \in Customs
        BY <1>1, <2>1, HostTurns, Positions
      <3> QED
        BY <2>4, <2>5, <3>1 DEF Customs
    <2> HIDE DEF q, waiting
    <2>7. UNCHANGED <<opt, place, disc, waveBad, fate, total, report, status>>
          /\ Pos(place) = 2 /\ Pos(place)' = 2
      BY <1>1, <1>4, Positions DEF nodeVars, Pos
    <2>8. DriverTypes'
      BY <1>4, <2>5, <2>7 DEF DriverInv, DriverTypes, Stages
    <2>9. QueueInv'
      <3>1. ASSUME NEW i \in DOMAIN batches', NEW h \in batches'[i]
            PROVE  Turn(h) = Pos(place) /\ fate[h] = "waiting"
                   /\ \A j \in DOMAIN batches' : h \in batches'[j] => i = j
        <4>1. h = CustomOrder[i] /\ h \in waiting
          BY <2>4, <2>5
        <4>2. \A j \in DOMAIN batches' : h \in batches'[j] => h = CustomOrder[j]
          BY <2>4, <2>5
        <4> QED
          BY <2>1, <2>5, <4>1, <4>2, FleetAssumption
      <3>2. ASSUME NEW i \in DOMAIN batches', NEW a \in DOMAIN CustomOrder, CustomOrder[a] \in batches'[i]
            PROVE  a = i
        BY <2>4, <2>5, <3>2, FleetAssumption
      <3> QED
        BY <1>1, <1>4, <2>7, <3>1, <3>2 DEF QueueInv, HostPhases
    <2>10. PhaseInv'
      <3>1. ASSUME NEW h \in Hosts PROVE PhaseFor(h)'
        <4>1. Turn(h) = Pos(place) /\ fate[h] \in Active => InQueue(h)'
          BY <1>2, <2>1, <2>6 DEF Active, InQueue
        <4> QED
          BY <1>1, <1>2, <1>4, <2>7, <4>1 DEF DriverInv, PhaseInv, PhaseFor
      <3> QED
        BY <3>1 DEF PhaseInv
    <2>11. DiscInv'
      BY <1>1, <2>7 DEF DiscInv
    <2>12. CanaryInv'
      <3>1. \A p \in Waves : opt.mode = "update" /\ Pos(p) < Pos(place) => Guarded(p)'
        BY <1>1, <2>7, OthersGuarded DEF Elsewhere, HostPhases
      <3> QED
        BY <1>1, <1>4, <2>7, <3>1 DEF CanaryInv, Waves
    <2>13. FailInv' /\ ReportInv'
      BY <1>1, <1>2, <2>7 DEF DriverInv, FailInv, ReportInv, NodePhaseFailed
    <2> QED
      BY <2>8, <2>9, <2>10, <2>11, <2>12, <2>13 DEF DriverInv
  <1> QED
    BY <1>3, <1>4 DEF StartCustom

\* The pool of a custom host has no other host; its dependencies are behind it.
LEMMA CustomPools ==
    ASSUME DriverInv, place = "custom", batches # <<>>, NEW h \in Head(batches), fate[h] = "waiting"
    PROVE  /\ h \in Hosts /\ h \in Customs
           /\ \A k \in Hosts : InQueue(k) => fate[k] = "waiting"
  <1>1. /\ 1 \in DOMAIN batches /\ Head(batches) = batches[1] /\ DOMAIN batches \subseteq Nat \ {0}
        /\ Head(batches) \subseteq Hosts
    BY HeadMeans DEF DriverInv, DriverTypes
  <1>2. \A k \in Hosts : InQueue(k) => k \in Customs
    <2>1. \A k \in Hosts : InQueue(k) => Turn(k) = 2
      BY Positions DEF DriverInv, QueueInv, InQueue
    <2> QED
      BY <2>1, HostTurns
  <1>3. h \in Hosts /\ h \in Customs
    BY <1>1, <1>2 DEF InQueue
  <1>4. ASSUME NEW k \in Hosts, InQueue(k), k # h PROVE fate[k] = "waiting"
    <2>1. PICK i \in DOMAIN batches : k \in batches[i]
      BY <1>4 DEF InQueue
    <2>2. PICK a \in DOMAIN CustomOrder : CustomOrder[a] = h
      BY <1>3 DEF Customs
    <2>3. PICK b \in DOMAIN CustomOrder : CustomOrder[b] = k
      BY <1>2, <1>4 DEF Customs
    <2>4. i # 1
      BY <1>1, <1>4, <2>1, <2>2, <2>3 DEF DriverInv, QueueInv
    <2>5. i > 1
      BY <1>1, <2>1, <2>4
    <2> QED
      BY <2>1, <2>5 DEF DriverInv, QueueInv
  <1> QED
    BY <1>3, <1>4

LEMMA BeginCustomKept == ASSUME DriverInv, BeginCustom PROVE DriverInv'
  <1>1. PICK h \in Head(batches) :
          /\ fate[h] = "waiting"
          /\ fate' = [fate EXCEPT ![h] = IF OutsideWindow(h) THEN "windowed"
                                         ELSE IF DependencyFailed(h) THEN "dependency"
                                         ELSE "running"]
    BY DEF BeginCustom
  <1>2. place = "custom" /\ batches # <<>>
        /\ UNCHANGED <<opt, place, stage, disc, batches, waveBad, total, report, status>>
    BY DEF BeginCustom, nodeVars
  <1>3. h \in Hosts /\ h \in Customs /\ \A k \in Hosts : InQueue(k) => fate[k] = "waiting"
    BY <1>1, <1>2, CustomPools
  <1>4. DependencyFailed(h) => total.failed
    <2>1. ASSUME DependencyFailed(h) PROVE total.failed
      <3>1. PICK d \in opt.depends[h] : fate[d] = "failed"
        BY <2>1 DEF DependencyFailed
      <3>2. opt.depends[h] \subseteq Customs
        BY <1>3, FleetAssumption DEF DriverInv, DriverTypes
      <3>3. d \in Hosts
        BY <3>1, <3>2 DEF Hosts
      <3> QED
        BY <1>3, <3>1, <3>3 DEF DriverInv, FailInv
    <2> QED
      BY <2>1
  <1> DEFINE f == IF OutsideWindow(h) THEN "windowed"
                  ELSE IF DependencyFailed(h) THEN "dependency" ELSE "running"
  <1>5. fate' = [fate EXCEPT ![h] = f] /\ f \in {"running", "windowed", "dependency"}
        /\ (f = "dependency" => total.failed)
    BY <1>1, <1>4
  <1> HIDE DEF f
  <1> QED
    BY <1>1, <1>2, <1>3, <1>5, WorkKept DEF Active

LEMMA BrokenConfigKept == ASSUME DriverInv, BrokenConfig PROVE DriverInv'
  <1>1. PICK h \in Head(batches) : fate[h] = "waiting"
    BY DEF BrokenConfig
  <1>2. place = "custom" /\ batches # <<>> /\ Abort
    BY DEF BrokenConfig
  <1>3. /\ 1 \in DOMAIN batches /\ Head(batches) = batches[1]
    BY <1>2, HeadMeans DEF DriverInv, DriverTypes
  <1>4. \A k \in Hosts : InQueue(k) => fate[k] = "waiting"
    BY <1>1, <1>2, CustomPools
  <1>5. \A k \in Hosts : fate[k] # "running"
    BY <1>3, <1>4 DEF DriverInv, PhaseInv, PhaseFor, InQueue
  <1>6. stage # "canary"
    BY <1>2 DEF DriverInv, CanaryInv, Waves
  <1> QED
    BY <1>2, <1>5, <1>6, AbortKept

(***************************************************************************)
(* The node phase.                                                         *)
(***************************************************************************)
\* A step of the flow of the node whose turn it is.
LEMMA FlowStep ==
    ASSUME ProbeManager \/ Apt \/ Diagnose \/ Reboot \/ Settle \/ Recheck, up \subseteq Nodes
    PROVE  at \in Steps \ {"report"} /\ at' \in Steps /\ UNCHANGED <<job, turn, status>> /\ up' \subseteq Nodes
  <1> USE DEF Steps, Frame, Raise
  <1>1. CASE ProbeManager
    BY <1>1 DEF ProbeManager
  <1>2. CASE Apt
    BY <1>2 DEF Apt, CallFails
  <1>3. CASE Diagnose
    BY <1>3 DEF Diagnose, CallFails
  <1>4. CASE Reboot
    BY <1>4 DEF Reboot
  <1>5. CASE Settle
    BY <1>5 DEF Settle
  <1>6. CASE Recheck
    BY <1>6 DEF Recheck, CallFails
  <1> QED
    BY <1>1, <1>2, <1>3, <1>4, <1>5, <1>6

\* The node a report is about has one of four statuses.
LEMMA ReportMeans ==
    ASSUME Report
    PROVE  /\ at = "report" /\ at' \in {"next", "manager"} /\ UNCHANGED <<job, up, turn>>
           /\ \E s \in Statuses \ {"none"} :
                status' = [status EXCEPT ![node] = s] /\ (s = "failed" <=> at' = "manager")
  <1>1. PICK quorate \in Answer(Peers) :
          /\ status' = [status EXCEPT ![node] = IF know.failed /\ know.marked /\ quorate THEN "skipped"
                                                ELSE OutcomeStatus]
          /\ at' = IF ~ (know.failed /\ know.marked /\ quorate) /\ OutcomeStatus = "failed"
                   THEN "manager" ELSE "next"
    BY DEF Report
  <1>2. OutcomeStatus \in Statuses \ {"none"}
    BY DEF OutcomeStatus, Statuses
  <1>3. CASE know.failed /\ know.marked /\ quorate
    <2>1. status' = [status EXCEPT ![node] = "skipped"] /\ at' = "next"
      BY <1>1, <1>3
    <2>2. at = "report" /\ UNCHANGED <<job, up, turn>>
      BY DEF Report
    <2>3. "skipped" \in Statuses \ {"none"} /\ "skipped" # "failed" /\ at' # "manager"
      BY <2>1 DEF Statuses
    <2> QED
      BY <2>1, <2>2, <2>3
  <1>4. CASE ~ (know.failed /\ know.marked /\ quorate)
    <2>1. status' = [status EXCEPT ![node] = OutcomeStatus]
          /\ at' = IF OutcomeStatus = "failed" THEN "manager" ELSE "next"
      BY <1>1, <1>4
    <2> QED
      BY <1>2, <2>1 DEF Report
  <1> QED
    BY <1>3, <1>4

LEMMA NodeOrders ==
    /\ Len(NodeOrder) \in Nat /\ DOMAIN NodeOrder = 1 .. Len(NodeOrder)
    /\ \A i \in 1 .. Len(NodeOrder) : NodeOrder[i] \in Nodes
    /\ \A i, j \in 1 .. Len(NodeOrder) : NodeOrder[i] = NodeOrder[j] => i = j
    /\ Manager \notin Nodes
  BY NodeAssumption, FleetAssumption

LEMMA NodeStepKept == ASSUME NodeInv, place = "node", NodeStep, UNCHANGED driverVars PROVE NodeInv'
  <1> USE NodeOrders, Positions
  <1>1. UNCHANGED <<place, opt>>
    BY DEF driverVars
  <1>2. CASE NextNode
    <2>1. /\ at = "next" /\ UNCHANGED <<job, up, status>>
          /\ \/ /\ turn < Len(NodeOrder) /\ turn' = turn + 1
                /\ at' = IF NodeOrder[turn + 1] \in job.nodes THEN "probe" ELSE "next"
             \/ at' = "manager" /\ turn' = turn
      BY <1>2 DEF NextNode
    <2>2. CASE at' = "manager" /\ turn' = turn
      BY <1>1, <2>1, <2>2 DEF NodeInv, Steps
    <2>3. CASE /\ turn < Len(NodeOrder) /\ turn' = turn + 1
               /\ at' = IF NodeOrder[turn + 1] \in job.nodes THEN "probe" ELSE "next"
      <3>1. turn + 1 \in 1 .. Len(NodeOrder) /\ turn \in Nat
        BY <2>3 DEF NodeInv
      <3>2. status[NodeOrder[turn + 1]] = "none"
        <4>1. \A i \in 1 .. turn : NodeOrder[i] # NodeOrder[turn + 1]
          BY <3>1
        <4> QED
          BY <3>1, <4>1 DEF NodeInv
      <3>3. \A n \in Nodes : status[n] # "none" => \E i \in 1 .. turn + 1 : NodeOrder[i] = n
        <4>1. \A i \in 1 .. turn : i \in 1 .. turn + 1
          BY <3>1
        <4> QED
          BY <4>1 DEF NodeInv
      <3> QED
        BY <1>1, <2>1, <2>3, <3>1, <3>2, <3>3 DEF NodeInv, Steps, node
    <2> QED
      BY <2>1, <2>2, <2>3
  <1>3. CASE ProbeManager \/ Apt \/ Diagnose \/ Reboot \/ Settle \/ Recheck
    <2>1. at \in Steps /\ at' \in Steps /\ UNCHANGED <<job, turn, status>> /\ up' \subseteq Nodes
      BY <1>3, FlowStep DEF NodeInv
    <2> QED
      BY <1>1, <2>1 DEF NodeInv, Steps, node
  <1>4. CASE Report
    <2>1. /\ at = "report" /\ at' \in {"next", "manager"} /\ UNCHANGED <<job, up, turn>>
      BY <1>4, ReportMeans
    <2>2. PICK s \in Statuses \ {"none"} :
            status' = [status EXCEPT ![node] = s] /\ (s = "failed" <=> at' = "manager")
      BY <1>4, ReportMeans
    <2>3. /\ turn \in 1 .. Len(NodeOrder) /\ node \in Nodes /\ node # Manager
          /\ status \in [Nodes \cup {Manager} -> Statuses]
      BY <2>1 DEF NodeInv, Steps, node
    <2>4. /\ status' \in [Nodes \cup {Manager} -> Statuses] /\ status'[node] = s
          /\ \A n \in Nodes \cup {Manager} : n # node => status'[n] = status[n]
      BY <2>2, <2>3
    <2>5. \A n \in Nodes : status'[n] # "none" => \E i \in 1 .. turn : NodeOrder[i] = n
      BY <2>3, <2>4 DEF NodeInv, node
    <2>6. at' = "next" => \A n \in Nodes : status'[n] # "failed"
      BY <2>1, <2>2, <2>4 DEF NodeInv, Steps
    <2>7. status'[Manager] = "none"
      BY <2>1, <2>3, <2>4 DEF NodeInv
    <2> QED
      BY <1>1, <2>1, <2>3, <2>4, <2>5, <2>6, <2>7 DEF NodeInv, Steps
  <1>5. CASE UpdateManager
    <2>1. /\ at = "manager" /\ at' = "done" /\ UNCHANGED <<job, up, turn>>
          /\ \/ \E s \in {"updated", "failed"} : status' = [status EXCEPT ![Manager] = s]
             \/ status' = status
      BY <1>5 DEF UpdateManager
    <2>2. /\ status' \in [Nodes \cup {Manager} -> Statuses]
          /\ \A n \in Nodes : status'[n] = status[n]
      <3>1. status \in [Nodes \cup {Manager} -> Statuses] /\ {"updated", "failed"} \subseteq Statuses
        BY DEF NodeInv, Statuses
      <3>2. CASE \E s \in {"updated", "failed"} : status' = [status EXCEPT ![Manager] = s]
        <4>1. PICK s \in Statuses : status' = [status EXCEPT ![Manager] = s]
          BY <3>1, <3>2
        <4> QED
          BY <3>1, <4>1
      <3> QED
        BY <2>1, <3>1, <3>2
    <2> QED
      BY <1>1, <2>1, <2>2 DEF NodeInv, Steps
  <1> QED
    BY <1>2, <1>3, <1>4, <1>5 DEF NodeStep

LEMMA FlapKept == ASSUME NodeInv, Flap, UNCHANGED driverVars PROVE NodeInv'
  <1>1. up' \subseteq Nodes /\ UNCHANGED <<job, at, turn, status, place, opt>>
    BY DEF Flap, NodeInv, driverVars
  <1> QED
    BY <1>1 DEF NodeInv, node, Pos

\* The driver moves on: to the node phase from before, from it when it is over.
LEMMA NodeStays ==
    ASSUME NodeInv, UNCHANGED <<nodeVars, opt>>, Pos(place)' >= Pos(place),
           place' # "node" => place # "node" \/ at = "done"
    PROVE  NodeInv'
  <1>1. Pos(place) \in 0 .. 7 /\ Pos(place)' \in 0 .. 7
    BY DEF Pos
  <1>2. UNCHANGED <<job, at, turn, status, up>>
    BY DEF nodeVars
  <1> QED
    BY <1>1, <1>2 DEF NodeInv, node

LEMMA EnterGoesOn ==
    ASSUME DriverInv, NEW i \in 0 .. 5, Pos(place) = i, Enter(i)
    PROVE  Pos(place)' >= Pos(place)
  <1>1. \E j \in (i + 1) .. 6 : Pos(place)' = j
    BY EnterMeans DEF DriverInv, DriverTypes
  <1> QED
    BY <1>1

(***************************************************************************)
(* The whole run.                                                          *)
(***************************************************************************)
LEMMA StepKept == RunInv /\ [Next]_vars => RunInv'
  <1> SUFFICES ASSUME DriverInv, NodeInv, [Next]_vars PROVE DriverInv' /\ NodeInv'
    BY DEF RunInv, DriverInv
  <1>1. ASSUME UNCHANGED <<nodeVars, opt, place>> PROVE NodeInv'
    BY <1>1, NodeStays DEF Pos
  <1>2. ASSUME Abort, place # "node" PROVE NodeInv'
    <2>1. UNCHANGED <<nodeVars, opt>> /\ Pos(place)' = 7
      BY <1>2 DEF Abort, Pos
    <2>2. Pos(place) <= 7
      BY DEF Pos
    <2> QED
      BY <1>2, <2>1, <2>2, NodeStays
  <1>3. CASE Preflight
    <2>1. place = "preflight" /\ Pos(place) = 0
      BY <1>3, Positions DEF Preflight
    <2>2. ASSUME Enter(0), UNCHANGED <<nodeVars, opt>> PROVE NodeInv'
      BY <2>1, <2>2, EnterGoesOn, NodeStays
    <2> QED
      BY <1>2, <1>3, <2>1, <2>2, PreflightKept DEF Preflight
  <1>4. CASE StartRemote
    BY <1>1, <1>4, StartRemoteKept DEF StartRemote
  <1>5. CASE StartDiscovery
    BY <1>1, <1>5, StartDiscoveryKept DEF StartDiscovery
  <1>6. CASE DiscoverNode
    BY <1>1, <1>6, DiscoverNodeKept DEF DiscoverNode
  <1>7. CASE Verdict
    BY <1>1, <1>7, VerdictKept DEF Verdict
  <1>8. CASE RefuseOverrides
    BY <1>2, <1>8, RefuseOverridesKept DEF RefuseOverrides
  <1>9. CASE DiscoverVms
    BY <1>1, <1>9, DiscoverVmsKept DEF DiscoverVms, NodeInv
  <1>10. CASE Fold
    BY <1>1, <1>10, FoldKept DEF Fold
  <1>11. CASE Gate
    BY <1>1, <1>11, GateKept DEF Gate
  <1>12. CASE EndPhase
    <2>1. /\ place \in HostPhases /\ place # "node" /\ Enter(PhaseIndex(place))
          /\ UNCHANGED <<nodeVars, opt>>
      BY <1>12 DEF EndPhase, HostPhases
    <2>2. PhaseIndex(place) = Pos(place) /\ Pos(place) \in 0 .. 5
      BY <2>1, PhaseIndexes, Positions DEF HostPhases
    <2> QED
      BY <1>12, <2>1, <2>2, EnterGoesOn, NodeStays, EndPhaseKept
  <1>13. CASE StartCustom
    <2>1. CASE Abort
      BY <1>2, <1>13, <2>1, StartCustomKept DEF StartCustom
    <2>2. CASE UNCHANGED <<nodeVars, opt, place>>
      BY <1>1, <1>13, <2>2, StartCustomKept
    <2> QED
      BY <1>13, <2>1, <2>2 DEF StartCustom
  <1>14. CASE BeginCustom
    BY <1>1, <1>14, BeginCustomKept DEF BeginCustom
  <1>15. CASE BrokenConfig
    BY <1>2, <1>15, BrokenConfigKept DEF BrokenConfig
  <1>16. CASE InNodePhase
    BY <1>16, NodeStepKept, DriverStill DEF InNodePhase
  <1>17. CASE EndNodePhase
    <2>1. place = "node" /\ at = "done" /\ Enter(5) /\ Pos(place) = 5 /\ UNCHANGED <<nodeVars, opt>>
      BY <1>17, PhaseIndexes, Positions DEF EndNodePhase
    <2> QED
      BY <1>17, <2>1, EnterGoesOn, NodeStays, EndNodePhaseKept
  <1>18. CASE FinalReport
    <2>1. place = "notify" /\ place' = "ended" /\ UNCHANGED <<nodeVars, opt>>
      BY <1>18 DEF FinalReport
    <2>2. Pos(place) = 6 /\ Pos(place)' = 7
      BY <2>1 DEF Pos
    <2> QED
      BY <1>18, <2>1, <2>2, NodeStays, FinalReportKept
  <1>19. CASE Outage
    <2>1. Flap /\ UNCHANGED driverVars /\ UNCHANGED status
      BY <1>19 DEF Outage, Flap
    <2> QED
      BY <2>1, FlapKept, DriverStill
  <1>20. CASE Exited \/ UNCHANGED vars
    <2>1. UNCHANGED <<nodeVars, opt, place, driverVars, status>>
      BY <1>20 DEF Exited, vars, driverVars, nodeVars
    <2> QED
      BY <1>1, <2>1, DriverStill
  <1>21. ASSUME NEW h \in Hosts, Begin(h) PROVE DriverInv' /\ NodeInv'
    BY <1>1, <1>21, BeginKept DEF Begin
  <1>22. ASSUME NEW h \in Hosts, End(h) PROVE DriverInv' /\ NodeInv'
    BY <1>1, <1>22, EndKept DEF End
  <1> QED
    BY <1>3, <1>4, <1>5, <1>6, <1>7, <1>8, <1>9, <1>10, <1>11, <1>12, <1>13, <1>14, <1>15, <1>16,
       <1>17, <1>18, <1>19, <1>20, <1>21, <1>22 DEF Next, Main

LEMMA RunInit == Init => RunInv
  <1> SUFFICES ASSUME Init PROVE RunInv
    OBVIOUS
  <1>1. opt \in Options /\ place = "preflight" /\ stage = "start" /\ Pos(place) = 0
        /\ batches = <<>> /\ waveBad = FALSE /\ up = Nodes
        /\ disc = [next |-> 1, found |-> {}, lost |-> {}]
        /\ total = [failed |-> FALSE, changed |-> FALSE]
        /\ report = [exit |-> "none", ping |-> "none", sent |-> FALSE]
    BY Positions DEF Init
  <1>2. /\ fate \in [Hosts -> Fates]
        /\ \A h \in Hosts : fate[h] = IF Wanted(opt, h) THEN "waiting" ELSE "omitted"
    BY DEF Init, Fates
  <1>3. DriverTypes
    <2>1. <<>> \in Seq(SUBSET Hosts)
      OBVIOUS
    <2>2. disc \in [next : Nat \ {0}, found : SUBSET (Nodes \cup Clusters), lost : SUBSET Nodes]
      BY <1>1
    <2>3. place \in Places /\ stage \in Stages /\ waveBad \in BOOLEAN
      BY <1>1 DEF Places, Stages
    <2>4. /\ total \in [failed : BOOLEAN, changed : BOOLEAN]
          /\ report \in [exit : {"none", "0", "1", "aborted"}, ping : {"none", "ok", "fail"}, sent : BOOLEAN]
      BY <1>1
    <2> QED
      BY <1>1, <1>2, <2>1, <2>2, <2>3, <2>4 DEF DriverTypes
  <1>4. QueueInv
    BY <1>1 DEF QueueInv
  <1>5. PhaseInv
    <2>1. ASSUME NEW h \in Hosts PROVE PhaseFor(h)
      <3>1. Turn(h) \in 1 .. 4 /\ fate[h] \in Untouched /\ fate[h] # "running"
        BY <1>2, HostTurns DEF Untouched
      <3>2. fate[h] # "omitted" => Selected(opt, PhaseOrder[Turn(h)])
        <4>1. SUFFICES ASSUME Wanted(opt, h) PROVE Selected(opt, PhaseOrder[Turn(h)])
          BY <1>2
        <4>2. PICK p \in {"remote", "custom", "lxc", "vm"} : h \in Members(p) /\ Selected(opt, p)
          BY <4>1 DEF Wanted
        <4>3. Turn(h) = Pos(p)
          BY <4>2, HostTurns DEF HostPhases
        <4>4. PhaseOrder[Pos(p)] = p
          BY PhaseNames, Positions
        <4> QED
          BY <4>2, <4>3, <4>4
      <3> QED
        BY <1>1, <3>1, <3>2 DEF PhaseFor
    <2> QED
      BY <2>1 DEF PhaseInv
  <1>6. DiscInv
    BY <1>1 DEF DiscInv
  <1>7. CanaryInv
    <2>1. \A p \in Waves : ~ (Pos(p) < Pos(place)) /\ p # place
      BY <1>1 DEF Pos, Waves
    <2> QED
      BY <1>1, <2>1 DEF CanaryInv
  <1>8. status = [n \in Nodes \cup {Manager} |-> "none"] /\ at = "next" /\ turn = 0
    BY DEF Init, NodeInit
  <1>9. FailInv
    BY <1>1, <1>2, <1>8 DEF FailInv, NodePhaseFailed
  <1>10. ReportInv
    BY <1>1 DEF ReportInv
  <1>11. NodeInv
    <2>1. /\ job.nodes = IF opt.mode = "update" /\ "node" \in opt.phases
                         THEN {n \in Nodes : InLimit(opt, n)} ELSE {}
          /\ job.manager = (opt.mode = "update" /\ "manager" \in opt.phases /\ InLimit(opt, Manager))
      BY DEF Init
    <2>2. /\ job.nodes \subseteq Nodes /\ job.manager \in BOOLEAN
          /\ job.nodes # {} \/ job.manager => Selected(opt, "node")
      BY <2>1 DEF Selected, InLimit
    <2>3. 0 \in 0 .. Len(NodeOrder)
      BY NodeOrders
    <2> QED
      BY <1>1, <1>8, <2>2, <2>3 DEF NodeInv, Statuses, Steps
  <1> QED
    BY <1>3, <1>4, <1>5, <1>6, <1>7, <1>9, <1>10, <1>11 DEF RunInv

\* Every state of a run satisfies the invariant.
LEMMA AlwaysRunInv == Spec => []RunInv
  BY RunInit, StepKept, PTL DEF Spec

\* Canaries come first (the waves of run_lxc_phase, run_vm_phase and run_remote_phase): for any
\* fleet, any number of threads and any order in which they finish, no host outside the
\* canaries is worked on before every canary of its phase has come to a good end.
THEOREM AlwaysCanariesFirst == Spec => []CanariesFirst
  <1>1. RunInv => CanariesFirst
    BY CanariesWereFirst DEF RunInv, DriverInv
  <1> QED
    BY <1>1, AlwaysRunInv, PTL

\* Exit status 0 and the "ok" of the dead-man's switch (run_notify_phase) mean that nothing
\* failed, nothing was left behind and nothing was left out because of a failure.
THEOREM AlwaysCleanExit == Spec => []CleanExitMeansClean
  <1>1. RunInv => CleanExitMeansClean
    <2> SUFFICES ASSUME RunInv PROVE CleanExitMeansClean
      OBVIOUS
    <2>1. ASSUME report.exit = "0"
          PROVE  /\ \A h \in Hosts : fate[h] \in {"omitted", "idle", "changed", "windowed", "undiscovered"}
                 /\ ~ NodePhaseFailed
      <3>1. batches = <<>> /\ ~ total.failed /\ place = "ended" /\ \A h \in Hosts : fate[h] \notin Active
        BY <2>1 DEF RunInv, ReportInv
      <3>2. \A h \in Hosts : ~ InQueue(h)
        BY <3>1, EmptyQueue
      <3>3. \A h \in Hosts : fate[h] \in Fates /\ fate[h] \notin {"failed", "canary", "dependency"}
        BY <3>1, <3>2 DEF RunInv, DriverTypes, FailInv
      <3>4. ~ NodePhaseFailed
        BY <3>1 DEF RunInv, FailInv
      <3> QED
        BY <3>1, <3>3, <3>4 DEF Fates, Active
    <2>2. report.ping # "none" => (report.ping = "ok") = (report.exit = "0") /\ opt.mode # "housekeeping"
      BY DEF RunInv, ReportInv
    <2> QED
      BY <2>1, <2>2 DEF CleanExitMeansClean
  <1> QED
    BY <1>1, AlwaysRunInv, PTL

(***************************************************************************)
(* The promise of FleetPromise.                                            *)
(***************************************************************************)
DeedOf(u)   == IF u \in Hosts THEN HostDeed(u) ELSE NodeDeed(u)
Settled     == {"done", "failed", "skipped"}
PromiseRank(u) == IF u \in Hosts THEN Turn(u) ELSE 5
Front       == IF opt.mode = "update" THEN Canaries \cap (Remotes \cup Guests \cup Vms) ELSE {}

LEMMA UnitRanks == \A u \in Units : UnitRank[u] = PromiseRank(u)
  BY FleetAssumption DEF UnitRank, PromiseRank, Turn, Units, Hosts

\* Steps of this specification, as steps of the promise.
LEMMA PromiseStutters ==
    ASSUME UNCHANGED <<opt, report>>, \A u \in Units : DeedOf(u)' = DeedOf(u)
    PROVE  UNCHANGED Promise!promiseVars
  BY DEF Promise!promiseVars, DeedOf

LEMMA PromiseSkips ==
    ASSUME UNCHANGED <<opt, report>>,
           \A u \in Units : DeedOf(u)' = DeedOf(u) \/ (DeedOf(u) \notin Settled /\ DeedOf(u)' = "skipped")
    PROVE  [Promise!PromiseNext]_Promise!promiseVars
  <1> DEFINE S == {u \in Units : DeedOf(u)' # DeedOf(u)}
             deed == [u \in Units |-> IF u \in Hosts THEN HostDeed(u) ELSE NodeDeed(u)]
  <1>1. \A u \in Units : deed[u] = DeedOf(u) /\ deed'[u] = DeedOf(u)'
    BY DEF DeedOf
  <1>2. S \in SUBSET {u \in Units : deed[u] \notin Settled}
    BY <1>1
  <1>3. deed' = [u \in Units |-> IF u \in S THEN "skipped" ELSE deed[u]]
    BY <1>1
  <1>4. Promise!Skip
    BY <1>2, <1>3, Zenon DEF Promise!Skip, Promise!Settled, Settled
  <1> QED
    BY <1>4 DEF Promise!PromiseNext

\* What the promise asks before a unit begins.
MayStart(u) ==
    /\ DeedOf(u) = "waiting"
    /\ \A v \in Units : PromiseRank(v) < PromiseRank(u) => DeedOf(v) \in Settled
    /\ u \notin Front => \A v \in Front : PromiseRank(v) = PromiseRank(u) => DeedOf(v) \in {"done", "skipped"}
    /\ u \in Customs => \A d \in opt.depends[u] \ {u} : DeedOf(d) \in {"done", "skipped"}
    /\ u \in Nodes => \A n \in Nodes : DeedOf(n) \notin {"running", "failed"}

LEMMA MayStartMeans == ASSUME opt \in Options, NEW u \in Units, MayStart(u) PROVE Promise!MayBegin(u)
  <1> DEFINE deed == [v \in Units |-> IF v \in Hosts THEN HostDeed(v) ELSE NodeDeed(v)]
             needs == [v \in Units |-> IF v \in Customs THEN opt.depends[v] ELSE {}]
  <1>1. \A v \in Units : deed[v] = DeedOf(v)
    BY DEF DeedOf
  <1>2. Front \subseteq Units /\ Nodes \subseteq Units /\ Customs \subseteq Units
    BY DEF Front, Units, Hosts
  <1>3. \A d \in needs[u] : u \in Customs /\ d \in opt.depends[u] /\ d \in Units
    BY <1>2, FleetAssumption
  <1>4. deed[u] = "waiting"
    BY <1>1 DEF MayStart
  <1>5. \A v \in Units : UnitRank[v] < UnitRank[u] => deed[v] \in Settled
    BY <1>1, UnitRanks DEF MayStart
  <1>6. u \notin Front => \A v \in Front : UnitRank[v] = UnitRank[u] => deed[v] \in {"done", "skipped"}
    BY <1>1, <1>2, UnitRanks DEF MayStart
  <1>7. \A v \in needs[u] \ {u} : deed[v] \in {"done", "skipped"}
    BY <1>1, <1>3 DEF MayStart
  <1>8. u \in Nodes => \A v \in Nodes : deed[v] \notin {"running", "failed"}
    BY <1>1, <1>2 DEF MayStart
  <1> QED
    BY <1>4, <1>5, <1>6, <1>7, <1>8 DEF Promise!MayBegin, Promise!Settled, Settled, Front

\* One unit moves on.
LEMMA PromiseStarts ==
    ASSUME opt \in Options, NEW u \in Units, MayStart(u), UNCHANGED <<opt, report>>,
           DeedOf(u)' = "running", \A v \in Units \ {u} : DeedOf(v)' = DeedOf(v)
    PROVE  [Promise!PromiseNext]_Promise!promiseVars
  <1> DEFINE deed == [v \in Units |-> IF v \in Hosts THEN HostDeed(v) ELSE NodeDeed(v)]
  <1>1. \A v \in Units : deed[v] = DeedOf(v) /\ deed'[v] = DeedOf(v)'
    BY DEF DeedOf
  <1>2. deed' = [deed EXCEPT ![u] = "running"]
    BY <1>1
  <1>3. Promise!MayBegin(u)
    BY MayStartMeans
  <1>4. Promise!Start(u)
    BY <1>2, <1>3, Zenon DEF Promise!Start
  <1> QED
    BY <1>4 DEF Promise!PromiseNext

LEMMA PromiseFinishes ==
    ASSUME opt \in Options, NEW u \in Units, DeedOf(u) = "running" \/ MayStart(u),
           UNCHANGED <<opt, report>>,
           DeedOf(u)' \in {"done", "failed"}, \A v \in Units \ {u} : DeedOf(v)' = DeedOf(v)
    PROVE  [Promise!PromiseNext]_Promise!promiseVars
  <1> DEFINE deed == [v \in Units |-> IF v \in Hosts THEN HostDeed(v) ELSE NodeDeed(v)]
  <1>1. \A v \in Units : deed[v] = DeedOf(v) /\ deed'[v] = DeedOf(v)'
    BY DEF DeedOf
  <1>2. deed' = [deed EXCEPT ![u] = DeedOf(u)']
    BY <1>1
  <1>3. deed[u] = "running" \/ Promise!MayBegin(u)
    BY <1>1, MayStartMeans
  <1>4. \E d \in {"done", "failed"} : deed' = [deed EXCEPT ![u] = d]
    BY <1>2
  <1>5. Promise!Finish(u)
    BY <1>3, <1>4, Zenon DEF Promise!Finish
  <1> QED
    BY <1>5 DEF Promise!PromiseNext

\* The run ends with a verdict.
LEMMA PromiseConcludes ==
    ASSUME UNCHANGED opt, \A u \in Units : DeedOf(u)' = DeedOf(u), report.exit = "none",
           \/ /\ \A u \in Units : DeedOf(u) \in Settled
              /\ \/ report'.exit = "1"
                 \/ report'.exit = "0" /\ \A u \in Units : DeedOf(u) # "failed"
           \/ /\ \A u \in Units : DeedOf(u) # "running"
              /\ report'.exit = "aborted"
    PROVE  [Promise!PromiseNext]_Promise!promiseVars
  <1> DEFINE deed == [v \in Units |-> IF v \in Hosts THEN HostDeed(v) ELSE NodeDeed(v)]
             verdict == CASE report.exit = "0" -> "ok" [] report.exit = "1" -> "failed"
                          [] OTHER -> report.exit
  <1>1. \A v \in Units : deed[v] = DeedOf(v) /\ deed'[v] = DeedOf(v)'
    BY DEF DeedOf
  <1>2. UNCHANGED deed
    BY <1>1
  <1>3. /\ verdict = "none"
        /\ report'.exit = "0" => verdict' = "ok"
        /\ report'.exit = "1" => verdict' = "failed"
        /\ report'.exit = "aborted" => verdict' = "aborted"
    OBVIOUS
  <1>4. \/ /\ \A u \in Units : deed[u] \in Settled
           /\ verdict' \in IF \E u \in Units : deed[u] = "failed" THEN {"failed"} ELSE {"ok", "failed"}
        \/ /\ \A u \in Units : deed[u] # "running"
           /\ verdict' = "aborted"
    BY <1>1, <1>3
  <1>5. Promise!Conclude
    BY <1>2, <1>3, <1>4, Zenon DEF Promise!Conclude, Promise!Settled, Settled
  <1> QED
    BY <1>5 DEF Promise!PromiseNext

LEMMA UnitKinds ==
    /\ Hosts \subseteq Units /\ Nodes \subseteq Units /\ Manager \in Units
    /\ \A u \in Units : u \notin Hosts <=> u \in Nodes \cup {Manager}
    /\ \A h \in Hosts : PromiseRank(h) = Turn(h) /\ PromiseRank(h) \in 1 .. 4 /\ DeedOf(h) = HostDeed(h)
    /\ \A u \in Nodes \cup {Manager} : PromiseRank(u) = 5 /\ DeedOf(u) = NodeDeed(u)
  BY FleetAssumption, HostTurns DEF Units, PromiseRank, DeedOf

LEMMA HostDeeds ==
    ASSUME fate \in [Hosts -> Fates], NEW h \in Hosts
    PROVE  /\ DeedOf(h) = "waiting" <=> fate[h] = "waiting"
           /\ DeedOf(h) = "running" <=> fate[h] = "running"
           /\ DeedOf(h) = "failed"  <=> fate[h] = "failed"
           /\ DeedOf(h) = "done"    <=> fate[h] \in {"idle", "changed"}
           /\ DeedOf(h) = "skipped" <=> fate[h] \in {"omitted", "windowed", "dependency", "canary", "undiscovered"}
           /\ DeedOf(h) \in Settled <=> fate[h] \notin Active
           /\ DeedOf(h) \in {"done", "skipped"} <=> fate[h] \notin {"waiting", "running", "failed"}
  <1>1. fate[h] \in Fates /\ DeedOf(h) = HostDeed(h)
    BY UnitKinds
  <1> QED
    BY <1>1 DEF HostDeed, Fates, Settled, Active

LEMMA NodeDeeds ==
    ASSUME NEW u \in Nodes \cup {Manager}
    PROVE  DeedOf(u) \in Settled \cup {"waiting", "running"}
  BY UnitKinds DEF NodeDeed, Settled

\* What a node's deed depends on.
LEMMA NodesStill ==
    ASSUME UNCHANGED <<job, at, turn, status, report>>,
           place' \in {"notify", "ended"} <=> place \in {"notify", "ended"}
    PROVE  \A u \in Nodes \cup {Manager} : DeedOf(u)' = DeedOf(u)
  <1>1. \A u \in Nodes \cup {Manager} : NodeDeed(u)' = NodeDeed(u)
    BY DEF NodeDeed, node
  <1> QED
    BY <1>1, UnitKinds DEF DeedOf

LEMMA HostsStill == ASSUME UNCHANGED fate PROVE \A h \in Hosts : DeedOf(h)' = DeedOf(h)
  BY DEF DeedOf, HostDeed

\* Steps that change no deed.
LEMMA QuietSteps ==
    ASSUME UNCHANGED <<job, at, turn, status, opt, fate, report>>,
           place' \in {"notify", "ended"} <=> place \in {"notify", "ended"}
    PROVE  UNCHANGED Promise!promiseVars
  BY UnitKinds, NodesStill, HostsStill, PromiseStutters

\* One host moves on.
LEMMA HostMoves ==
    ASSUME fate \in [Hosts -> Fates], NEW h \in Hosts, NEW f \in Fates, fate' = [fate EXCEPT ![h] = f],
           UNCHANGED <<nodeVars, place, report>>
    PROVE  /\ \A u \in Units \ {h} : DeedOf(u)' = DeedOf(u)
           /\ f = "running" => DeedOf(h)' = "running"
           /\ f \in {"idle", "changed"} => DeedOf(h)' = "done"
           /\ f = "failed" => DeedOf(h)' = "failed"
           /\ f \in {"windowed", "dependency"} => DeedOf(h)' = "skipped"
  <1>1. \A u \in Nodes \cup {Manager} : DeedOf(u)' = DeedOf(u)
    BY NodesStill DEF nodeVars
  <1>2. \A g \in Hosts \ {h} : DeedOf(g)' = DeedOf(g)
    BY DEF DeedOf, HostDeed
  <1>3. fate'[h] = f /\ DeedOf(h)' = HostDeed(h)'
    BY DEF DeedOf
  <1> QED
    BY <1>1, <1>2, <1>3, UnitKinds DEF HostDeed

\* Hosts left out of a run.
LEMMA HostsSkipped ==
    ASSUME fate \in [Hosts -> Fates], UNCHANGED <<nodeVars, opt, place, report>>,
           \A h \in Hosts : \/ fate'[h] = fate[h]
                            \/ fate[h] = "waiting" /\ fate'[h] \in {"windowed", "dependency", "canary", "undiscovered"}
    PROVE  [Promise!PromiseNext]_Promise!promiseVars
  <1>1. \A u \in Nodes \cup {Manager} : DeedOf(u)' = DeedOf(u)
    BY NodesStill DEF nodeVars
  <1>2. ASSUME NEW h \in Hosts, fate'[h] = fate[h] PROVE DeedOf(h)' = DeedOf(h)
    BY <1>2 DEF DeedOf, HostDeed
  <1>3. ASSUME NEW h \in Hosts, fate[h] = "waiting",
               fate'[h] \in {"windowed", "dependency", "canary", "undiscovered"}
        PROVE  DeedOf(h) \notin Settled /\ DeedOf(h)' = "skipped"
    BY <1>3 DEF DeedOf, HostDeed, Settled
  <1> QED
    BY <1>1, <1>2, <1>3, UnitKinds, PromiseSkips DEF nodeVars

\* A custom phase that goes on was found to be in order.
OrderInv == place = "custom" /\ stage = "rest" => WellOrdered

LEMMA OrderKept == DriverInv /\ OrderInv /\ [Next]_vars => OrderInv'
  <1> SUFFICES ASSUME DriverInv, OrderInv, [Next]_vars, place' = "custom", stage' = "rest"
               PROVE  WellOrdered'
    BY DEF OrderInv
  <1>1. UNCHANGED opt
    <2>1. CASE UNCHANGED vars
      BY <2>1 DEF vars, driverVars
    <2>2. CASE Outage \/ Exited \/ \E h \in Hosts : Begin(h) \/ End(h)
      BY <2>2 DEF Outage, Exited, vars, driverVars, Begin, End
    <2>3. CASE Preflight \/ StartRemote \/ StartDiscovery \/ DiscoverNode \/ Verdict \/ RefuseOverrides
      BY <2>3 DEF Preflight, StartRemote, StartDiscovery, DiscoverNode, Verdict, RefuseOverrides, Abort
    <2>4. CASE DiscoverVms \/ Fold \/ Gate \/ EndPhase \/ StartCustom \/ BeginCustom \/ BrokenConfig
      BY <2>4 DEF DiscoverVms, Fold, Gate, EndPhase, StartCustom, BeginCustom, BrokenConfig, Abort
    <2>5. CASE InNodePhase \/ EndNodePhase \/ FinalReport
      BY <2>5 DEF InNodePhase, EndNodePhase, FinalReport, driverVars
    <2> QED
      BY <2>1, <2>2, <2>3, <2>4, <2>5 DEF Next, Main
  <1>2. WellOrdered
    <2>1. CASE UNCHANGED <<place, stage>>
      BY <2>1 DEF OrderInv
    <2>2. CASE UNCHANGED driverVars
      BY <2>1, <2>2 DEF driverVars
    <2>3. CASE \E h \in Hosts : Begin(h) \/ End(h)
      BY <2>1, <2>3 DEF Begin, End
    <2>4. CASE \E i : Enter(i)
      BY <2>4 DEF Enter
    <2>5. CASE Abort
      BY <2>5 DEF Abort
    <2>6. CASE StartRemote \/ StartDiscovery \/ DiscoverNode \/ Verdict \/ DiscoverVms
      BY <2>6 DEF StartRemote, StartDiscovery, DiscoverNode, Verdict, DiscoverVms
    <2>7. CASE Fold \/ BeginCustom
      BY <2>1, <2>7 DEF Fold, BeginCustom
    <2>8. CASE Gate
      BY <2>8 DEF Gate, DriverInv, CanaryInv, Waves
    <2>9. CASE StartCustom
      BY <2>5, <2>9 DEF StartCustom
    <2>10. CASE FinalReport
      BY <2>10 DEF FinalReport
    <2>11. CASE UNCHANGED vars \/ Exited \/ Outage \/ InNodePhase
      BY <2>2, <2>11 DEF vars, Exited, Outage, InNodePhase
    <2>12. CASE Preflight \/ RefuseOverrides \/ BrokenConfig
      BY <2>4, <2>5, <2>12 DEF Preflight, RefuseOverrides, BrokenConfig
    <2>13. CASE EndPhase \/ EndNodePhase
      BY <2>4, <2>13 DEF EndPhase, EndNodePhase
    <2> QED
      BY <2>3, <2>6, <2>7, <2>8, <2>9, <2>10, <2>11, <2>12, <2>13 DEF Next, Main
  <1> QED
    BY <1>1, <1>2 DEF WellOrdered

LEMMA IndexMeans == \A h \in Customs : IndexOf(h) \in DOMAIN CustomOrder /\ CustomOrder[IndexOf(h)] = h
  BY DEF Customs, IndexOf

\* A host that a pool takes may begin.
LEMMA HostMayStart ==
    ASSUME DriverInv, OrderInv, NEW h \in Hosts, batches # <<>>, h \in Head(batches), place # "ended",
           fate[h] = "waiting", place = "custom" => ~ DependencyFailed(h)
    PROVE  MayStart(h)
  <1>1. /\ fate \in [Hosts -> Fates] /\ stage \in Stages /\ batches \in Seq(SUBSET Hosts) /\ opt \in Options
        /\ 1 \in DOMAIN batches /\ Head(batches) = batches[1] /\ DOMAIN batches \subseteq Nat \ {0}
    BY HeadMeans DEF DriverInv, DriverTypes
  <1>2. /\ place \in HostPhases /\ stage \in {"canary", "rest"} /\ Turn(h) = Pos(place) /\ InQueue(h)
    BY <1>1 DEF DriverInv, QueueInv, InQueue, Stages
  <1>3. PromiseRank(h) = Pos(place) /\ Pos(place) \in 1 .. 4
    BY <1>2, UnitKinds
  <1>4. DeedOf(h) = "waiting"
    BY <1>1, HostDeeds
  <1>5. ASSUME NEW v \in Units, PromiseRank(v) < PromiseRank(h) PROVE DeedOf(v) \in Settled
    <2>1. v \in Hosts
      BY <1>3, <1>5, UnitKinds
    <2>2. Turn(v) < Pos(place)
      BY <1>3, <1>5, <2>1, UnitKinds
    <2>3. fate[v] \notin Active
      BY <2>1, <2>2 DEF DriverInv, PhaseInv, PhaseFor
    <2> QED
      BY <1>1, <2>1, <2>3, HostDeeds
  <1>6. ASSUME h \notin Front, NEW c \in Front, PromiseRank(c) = PromiseRank(h)
        PROVE  DeedOf(c) \in {"done", "skipped"}
    <2>1. /\ opt.mode = "update" /\ c \in Canaries /\ c \in Hosts /\ c \notin Customs
          /\ Turn(c) = Turn(h)
      <3>1. opt.mode = "update" /\ c \in Canaries /\ c \in Hosts
        BY <1>6 DEF Front, Hosts
      <3>2. c \notin Customs
        BY <1>6, FleetAssumption DEF Front
      <3> QED
        BY <1>6, <3>1, <3>2, UnitKinds
    <2>2. place \in Waves
      <3>1. Turn(h) # 2
        BY <2>1, HostTurns
      <3> QED
        BY <1>2, <3>1, Positions DEF Waves, HostPhases
    <2>3. h \in Members(place) /\ c \in Members(place)
      BY <1>2, <2>1, HostTurns
    <2>4. h \notin Canaries
      <3>1. h \in Remotes \cup Guests \cup Vms
        BY <2>1, HostTurns DEF Hosts
      <3> QED
        BY <1>6, <2>1, <3>1 DEF Front
    <2>5. stage = "rest"
      BY <1>1, <1>2, <2>4 DEF DriverInv, CanaryInv
    <2>6. Guarded(place)
      BY <2>1, <2>2, <2>5 DEF DriverInv, CanaryInv
    <2>7. fate[c] \notin {"waiting", "running", "failed"}
      BY <2>1, <2>3, <2>4, <2>6 DEF Guarded
    <2> QED
      BY <1>1, <2>1, <2>7, HostDeeds
  <1>7. ASSUME h \in Customs, NEW d \in opt.depends[h] \ {h} PROVE DeedOf(d) \in {"done", "skipped"}
    <2>1. d \in Customs /\ d \in Hosts /\ Turn(d) = 2 /\ Turn(h) = 2
      <3>1. d \in Customs
        BY <1>1, <1>7, FleetAssumption
      <3> QED
        BY <1>7, <3>1, HostTurns DEF Hosts
    <2>2. place = "custom" /\ stage = "rest"
      <3>1. place = "custom"
        <4>1. \A p \in HostPhases : Pos(p) = 2 => p = "custom"
          BY DEF Pos, HostPhases
        <4> QED
          BY <1>2, <2>1, <4>1
      <3> QED
        BY <1>2, <3>1 DEF DriverInv, CanaryInv, Waves
    <2>3. fate[d] # "failed"
      BY <1>7, <2>2 DEF DependencyFailed
    <2>4. fate[d] \notin Active
      <3> SUFFICES ASSUME fate[d] \in Active PROVE FALSE
        OBVIOUS
      <3>1. InQueue(d)
        BY <1>2, <2>1, <2>2 DEF DriverInv, PhaseInv, PhaseFor
      <3>2. PICK j \in DOMAIN batches : d \in batches[j]
        BY <3>1 DEF InQueue
      <3>3. /\ IndexOf(h) \in DOMAIN CustomOrder /\ CustomOrder[IndexOf(h)] = h
            /\ IndexOf(d) \in DOMAIN CustomOrder /\ CustomOrder[IndexOf(d)] = d
        BY <1>7, <2>1, IndexMeans
      <3>4. /\ 1 = j => IndexOf(h) = IndexOf(d)
            /\ 1 < j => IndexOf(h) < IndexOf(d)
        BY <1>1, <2>2, <3>2, <3>3 DEF DriverInv, QueueInv
      <3>5. IndexOf(d) <= IndexOf(h) /\ IndexOf(d) # IndexOf(h)
        BY <1>7, <2>2, <3>3 DEF OrderInv, WellOrdered
      <3>6. IndexOf(h) \in Int /\ IndexOf(d) \in Int /\ j \in Nat \ {0}
        <4>1. DOMAIN CustomOrder \subseteq Int
          BY FleetAssumption
        <4> QED
          BY <1>1, <3>3, <4>1
      <3> QED
        BY <3>4, <3>5, <3>6
    <2> QED
      BY <1>1, <2>1, <2>3, <2>4, HostDeeds DEF Active
  <1>8. h \notin Nodes
    BY UnitKinds
  <1> QED
    BY <1>4, <1>5, <1>6, <1>7, <1>8 DEF MayStart

\* Threads of the pool.
LEMMA BeginPromised ==
    ASSUME DriverInv, OrderInv, NEW h \in Hosts, Begin(h)
    PROVE  [Promise!PromiseNext]_Promise!promiseVars
  <1> DEFINE f == CASE OutsideWindow(h) /\ h \notin Guests -> "windowed"
                    [] h \in Vms /\ ~ OutsideWindow(h) /\ Unresolved(h) -> "failed"
                    [] OTHER -> "running"
  <1>1. /\ place \in Waves /\ batches # <<>> /\ h \in Head(batches) /\ fate[h] = "waiting"
        /\ fate' = [fate EXCEPT ![h] = f]
        /\ UNCHANGED <<nodeVars, opt, place, report>>
    BY DEF Begin, Waves
  <1>2. f \in {"running", "failed", "windowed"} /\ f \in Fates
    BY DEF Fates
  <1> HIDE DEF f
  <1>3. fate \in [Hosts -> Fates] /\ opt \in Options /\ h \in Units
    BY UnitKinds DEF DriverInv, DriverTypes
  <1>4. /\ \A u \in Units \ {h} : DeedOf(u)' = DeedOf(u)
        /\ f = "running" => DeedOf(h)' = "running"
        /\ f = "failed" => DeedOf(h)' = "failed"
        /\ f = "windowed" => DeedOf(h)' = "skipped"
    BY <1>1, <1>2, <1>3, HostMoves
  <1>5. MayStart(h)
    BY <1>1, HostMayStart DEF Waves
  <1>6. CASE f = "running"
    BY <1>1, <1>3, <1>4, <1>5, <1>6, PromiseStarts
  <1>7. CASE f = "failed"
    BY <1>1, <1>3, <1>4, <1>5, <1>7, PromiseFinishes
  <1>8. CASE f = "windowed"
    BY <1>1, <1>3, <1>4, <1>5, <1>8, PromiseSkips DEF MayStart, Settled
  <1> QED
    BY <1>2, <1>6, <1>7, <1>8

LEMMA EndPromised ==
    ASSUME DriverInv, NEW h \in Hosts, End(h)
    PROVE  [Promise!PromiseNext]_Promise!promiseVars
  <1>1. PICK f \in {"idle", "changed", "failed"} : fate' = [fate EXCEPT ![h] = f]
    BY DEF End
  <1>2. fate[h] = "running" /\ UNCHANGED <<nodeVars, opt, place, report>> /\ f \in Fates
    BY DEF End, Fates
  <1>3. fate \in [Hosts -> Fates] /\ opt \in Options /\ h \in Units
    BY UnitKinds DEF DriverInv, DriverTypes
  <1>4. (\A u \in Units \ {h} : DeedOf(u)' = DeedOf(u)) /\ DeedOf(h)' \in {"done", "failed"}
    BY <1>1, <1>2, <1>3, HostMoves
  <1>5. DeedOf(h) = "running"
    BY <1>2, <1>3, HostDeeds
  <1> QED
    BY <1>2, <1>3, <1>4, <1>5, PromiseFinishes

LEMMA BeginCustomPromised ==
    ASSUME DriverInv, OrderInv, BeginCustom
    PROVE  [Promise!PromiseNext]_Promise!promiseVars
  <1>1. place = "custom" /\ batches # <<>> /\ UNCHANGED <<nodeVars, opt, place, report>>
    BY DEF BeginCustom
  <1>2. PICK h \in Head(batches) :
          /\ fate[h] = "waiting"
          /\ fate' = [fate EXCEPT ![h] = IF OutsideWindow(h) THEN "windowed"
                                         ELSE IF DependencyFailed(h) THEN "dependency" ELSE "running"]
    BY DEF BeginCustom
  <1>3. fate \in [Hosts -> Fates] /\ opt \in Options /\ h \in Hosts /\ h \in Units
    BY <1>1, HeadMeans, UnitKinds DEF DriverInv, DriverTypes
  <1>4. PICK f \in {"windowed", "dependency", "running"} :
          fate' = [fate EXCEPT ![h] = f] /\ (f = "running" => ~ DependencyFailed(h))
    BY <1>2
  <1>5. f \in Fates
    BY DEF Fates
  <1>6. /\ \A u \in Units \ {h} : DeedOf(u)' = DeedOf(u)
        /\ f = "running" => DeedOf(h)' = "running"
        /\ f \in {"windowed", "dependency"} => DeedOf(h)' = "skipped"
    BY <1>1, <1>3, <1>4, <1>5, HostMoves
  <1>7. DeedOf(h) = "waiting"
    BY <1>2, <1>3, HostDeeds
  <1>8. CASE f = "running"
    <2>1. MayStart(h)
      BY <1>1, <1>2, <1>3, <1>4, <1>8, HostMayStart
    <2> QED
      BY <1>1, <1>3, <1>6, <1>8, <2>1, PromiseStarts
  <1>9. CASE f # "running"
    BY <1>1, <1>3, <1>6, <1>7, <1>9, PromiseSkips DEF Settled
  <1> QED
    BY <1>8, <1>9

\* On to the next phase; the nodes of a phase that is passed over were not asked for.
LEMMA EnterPromised ==
    ASSUME DriverInv, NodeInv, NEW i \in 0 .. 4, Pos(place) = i, Enter(i),
           UNCHANGED <<nodeVars, opt, fate, report>>
    PROVE  UNCHANGED Promise!promiseVars
  <1>1. place \notin {"notify", "ended"} /\ opt \in Options /\ i \in 0 .. 5
    BY Positions DEF DriverInv, DriverTypes
  <1>2. PICK j \in (i + 1) .. 6 :
          /\ place' = PhaseOrder[j]
          /\ \A k \in (i + 1) .. (j - 1) : ~ Selected(opt, PhaseOrder[k])
    BY <1>1, EnterMeans
  <1>3. CASE j = 6
    <2>1. place' = "notify" /\ ~ Selected(opt, "node")
      <3>1. 5 \in (i + 1) .. (j - 1)
        BY <1>3
      <3> QED
        BY <1>2, <1>3, <3>1, PhaseNames
    <2>2. job.nodes = {} /\ ~ job.manager
      BY <2>1 DEF NodeInv
    <2>3. \A u \in Nodes \cup {Manager} : NodeDeed(u)' = NodeDeed(u)
      BY <2>2 DEF NodeDeed, nodeVars, node
    <2>4. \A u \in Nodes \cup {Manager} : DeedOf(u)' = DeedOf(u)
      BY <2>3, UnitKinds DEF DeedOf
    <2> QED
      BY <2>4, HostsStill, PromiseStutters, UnitKinds
  <1>4. CASE j # 6
    <2>1. j \in {1, 2, 3, 4, 5}
      BY <1>4
    <2>2. place' \notin {"notify", "ended"}
      BY <1>2, <2>1, PhaseNames
    <2> QED
      BY <1>1, <2>2, QuietSteps DEF nodeVars
  <1> QED
    BY <1>3, <1>4

\* Before the node phase and after it no node is at work.
LEMMA NodesRest == ASSUME NodeInv, place # "node" PROVE \A u \in Nodes \cup {Manager} : DeedOf(u) # "running"
  <1>1. at \notin Steps
    BY DEF NodeInv, Steps
  <1>2. \A u \in Nodes \cup {Manager} : NodeDeed(u) # "running"
    BY <1>1 DEF NodeDeed
  <1> QED
    BY <1>2, UnitKinds

LEMMA AbortPromised ==
    ASSUME DriverInv, NodeInv, Abort, place \notin {"node", "notify", "ended"},
           \A h \in Hosts : fate[h] # "running"
    PROVE  [Promise!PromiseNext]_Promise!promiseVars
  <1>1. /\ place' = "ended" /\ UNCHANGED <<nodeVars, opt, fate>>
        /\ report' = [report EXCEPT !.exit = "aborted"] /\ report.exit = "none"
    BY DEF Abort, DriverInv, ReportInv
  <1>2. report'.exit = "aborted"
    BY <1>1 DEF DriverInv, DriverTypes
  <1>3. \A u \in Nodes \cup {Manager} : NodeDeed(u)' = NodeDeed(u)
    BY <1>1, <1>2 DEF NodeDeed, nodeVars, node
  <1>4. \A u \in Units : DeedOf(u)' = DeedOf(u)
    BY <1>1, <1>3, HostsStill, UnitKinds DEF DeedOf
  <1>5. \A u \in Units : DeedOf(u) # "running"
    <2>1. fate \in [Hosts -> Fates]
      BY DEF DriverInv, DriverTypes
    <2> QED
      BY <2>1, HostDeeds, NodesRest, UnitKinds
  <1> QED
    BY <1>1, <1>2, <1>4, <1>5, PromiseConcludes

LEMMA FinalReportPromised ==
    ASSUME DriverInv, NodeInv, FinalReport
    PROVE  [Promise!PromiseNext]_Promise!promiseVars
  <1>1. place = "notify" /\ place' = "ended" /\ UNCHANGED <<nodeVars, opt, fate>> /\ report.exit = "none"
    BY DEF FinalReport, DriverInv, ReportInv
  <1>2. report'.exit = IF total.failed THEN "1" ELSE "0"
    <2>1. PICK attention, quiet \in BOOLEAN :
            report' = [exit |-> IF total.failed THEN "1" ELSE "0",
                       ping |-> IF opt.mode = "housekeeping" THEN "none"
                                ELSE IF total.failed THEN "fail" ELSE "ok",
                       sent |-> \/ attention
                                \/ total.changed /\ opt.mode # "housekeeping"
                                \/ total.failed /\ ~ (quiet /\ opt.mode = "housekeeping")]
      BY DEF FinalReport
    <2> QED
      BY <2>1
  <1>3. report'.exit # "aborted"
    BY <1>2
  <1>4. \A u \in Nodes \cup {Manager} : NodeDeed(u) \in Settled /\ NodeDeed(u)' = NodeDeed(u)
    <2>1. at \notin Steps
      BY <1>1 DEF NodeInv, Steps
    <2> QED
      BY <1>1, <1>3, <2>1 DEF NodeDeed, nodeVars, Settled
  <1>5. \A u \in Units : DeedOf(u)' = DeedOf(u)
    BY <1>1, <1>4, HostsStill, UnitKinds DEF DeedOf
  <1>6. \A h \in Hosts : fate[h] \notin Active /\ (fate[h] = "failed" => total.failed)
    <2>1. batches = <<>>
      BY <1>1 DEF DriverInv, QueueInv, HostPhases
    <2>2. \A h \in Hosts : Turn(h) < Pos(place)
      BY <1>1, Positions, HostTurns
    <2> QED
      BY <1>1, <2>1, <2>2, EmptyQueue DEF DriverInv, PhaseInv, PhaseFor, FailInv
  <1>7. \A u \in Nodes \cup {Manager} : NodeDeed(u) = "failed" => total.failed
    <2>1. NodePhaseFailed => total.failed
      BY <1>1 DEF DriverInv, FailInv
    <2>2. \A u \in Nodes \cup {Manager} : NodeDeed(u) = "failed" => status[u] = "failed"
      BY DEF NodeDeed
    <2>3. DOMAIN status = Nodes \cup {Manager}
      BY DEF NodeInv
    <2> QED
      BY <2>1, <2>2, <2>3 DEF NodePhaseFailed
  <1>8. \A u \in Units : DeedOf(u) \in Settled /\ (DeedOf(u) = "failed" => total.failed)
    <2>1. fate \in [Hosts -> Fates]
      BY DEF DriverInv, DriverTypes
    <2> QED
      BY <1>4, <1>6, <1>7, <2>1, HostDeeds, UnitKinds
  <1> QED
    BY <1>1, <1>2, <1>5, <1>8, PromiseConcludes

LEMMA EndNodePhasePromised ==
    ASSUME DriverInv, NodeInv, EndNodePhase
    PROVE  [Promise!PromiseNext]_Promise!promiseVars
  <1>1. place = "node" /\ at = "done" /\ UNCHANGED <<nodeVars, opt, fate, report>> /\ report.exit = "none"
    BY DEF EndNodePhase, DriverInv, ReportInv
  <1>2. \A u \in Nodes \cup {Manager} :
          \/ NodeDeed(u)' = NodeDeed(u)
          \/ NodeDeed(u) \notin Settled /\ NodeDeed(u)' = "skipped"
    BY <1>1 DEF NodeDeed, nodeVars, Settled, Steps
  <1>3. \A u \in Nodes \cup {Manager} : DeedOf(u)' = NodeDeed(u)'
    BY UnitKinds DEF DeedOf
  <1> QED
    BY <1>1, <1>2, <1>3, HostsStill, UnitKinds, PromiseSkips

\* In the node phase every host has been dealt with.
LEMMA HostsSettled == ASSUME DriverInv, place = "node" PROVE \A h \in Hosts : DeedOf(h) \in Settled
  <1>1. \A h \in Hosts : Turn(h) < Pos(place)
    BY Positions, HostTurns
  <1>2. \A h \in Hosts : fate[h] \notin Active
    BY <1>1 DEF DriverInv, PhaseInv, PhaseFor
  <1> QED
    BY <1>2, HostDeeds DEF DriverInv, DriverTypes

LEMMA NodeMayStart ==
    ASSUME DriverInv, place = "node", NEW u \in Nodes \cup {Manager}, DeedOf(u) = "waiting",
           u \in Nodes => \A n \in Nodes : DeedOf(n) \notin {"running", "failed"}
    PROVE  MayStart(u)
  <1>1. \A v \in Units : PromiseRank(v) < PromiseRank(u) => DeedOf(v) \in Settled
    <2>1. ASSUME NEW v \in Units, PromiseRank(v) < 5 PROVE v \in Hosts
      BY <2>1, UnitKinds
    <2> QED
      BY <2>1, HostsSettled, UnitKinds
  <1>2. \A v \in Front : PromiseRank(v) # PromiseRank(u)
    <2>1. Front \subseteq Hosts
      BY DEF Front, Hosts
    <2> QED
      BY <2>1, UnitKinds
  <1>3. u \notin Customs
    BY UnitKinds DEF Hosts
  <1> QED
    BY <1>1, <1>2, <1>3 DEF MayStart

LEMMA NodeStepPromised ==
    ASSUME DriverInv, NodeInv, InNodePhase
    PROVE  [Promise!PromiseNext]_Promise!promiseVars
  <1>1. place = "node" /\ NodeStep /\ UNCHANGED <<opt, place, fate, report>> /\ opt \in Options
    BY DEF InNodePhase, driverVars, DriverInv, DriverTypes
  <1>2. \A h \in Hosts : DeedOf(h)' = DeedOf(h)
    BY <1>1, HostsStill
  <1>3. \A u \in Nodes \cup {Manager} : DeedOf(u) = NodeDeed(u) /\ DeedOf(u)' = NodeDeed(u)' /\ u \in Units
    BY UnitKinds DEF DeedOf
  <1>4. ASSUME \A u \in Nodes \cup {Manager} : NodeDeed(u)' = NodeDeed(u)
        PROVE  [Promise!PromiseNext]_Promise!promiseVars
    BY <1>1, <1>2, <1>3, <1>4, UnitKinds, PromiseStutters
  <1>5. ASSUME NEW u \in Nodes \cup {Manager}, \A v \in (Nodes \cup {Manager}) \ {u} : NodeDeed(v)' = NodeDeed(v)
        PROVE  \A v \in Units \ {u} : DeedOf(v)' = DeedOf(v)
    BY <1>2, <1>3, <1>5, UnitKinds
  <1>6. CASE NextNode
    <2>1. /\ at = "next" /\ UNCHANGED <<job, status>>
          /\ \/ /\ turn < Len(NodeOrder) /\ turn' = turn + 1
                /\ at' = IF NodeOrder[turn + 1] \in job.nodes THEN "probe" ELSE "next"
             \/ at' = "manager" /\ turn' = turn
      BY <1>6 DEF NextNode
    <2>2. CASE at' \notin Steps
      <3>1. \A u \in Nodes \cup {Manager} : NodeDeed(u)' = NodeDeed(u)
        BY <1>1, <2>1, <2>2 DEF NodeDeed, Steps
      <3> QED
        BY <1>4, <3>1
    <2>3. CASE at' \in Steps
      <3>1. turn < Len(NodeOrder) /\ turn' = turn + 1 /\ NodeOrder[turn + 1] \in job.nodes /\ at' = "probe"
        BY <2>1, <2>3 DEF Steps
      <3>2. PICK n \in Nodes : n = NodeOrder[turn + 1] /\ n # Manager /\ node' = n
        BY <3>1, NodeOrders DEF NodeInv, node
      <3>3. status[n] = "none"
        <4>1. turn + 1 \in 1 .. Len(NodeOrder) /\ turn \in Nat
          BY <3>1, NodeOrders DEF NodeInv
        <4>2. \A i \in 1 .. turn : NodeOrder[i] # n
          BY <3>2, <4>1, NodeOrders
        <4> QED
          BY <4>2 DEF NodeInv
      <3>4. n \in job.nodes /\ n \in Nodes \cup {Manager} /\ n \in Units
        BY <3>1, <3>2, UnitKinds
      <3>5. NodeDeed(n) = "waiting" /\ NodeDeed(n)' = "running"
        <4>1. NodeDeed(n) = "waiting"
          BY <1>1, <2>1, <3>2, <3>3, <3>4 DEF NodeDeed, Steps
        <4>2. status'[n] = "none" /\ at' \in Steps /\ n = node'
          BY <2>1, <2>3, <3>2, <3>3
        <4> QED
          BY <4>1, <4>2 DEF NodeDeed
      <3>6. \A v \in (Nodes \cup {Manager}) \ {n} : NodeDeed(v)' = NodeDeed(v)
        <4>1. \A v \in (Nodes \cup {Manager}) \ {n} : v # node' /\ at \notin Steps
          BY <2>1, <3>2 DEF Steps
        <4> QED
          BY <1>1, <2>1, <4>1 DEF NodeDeed
      <3>7. \A v \in Nodes : NodeDeed(v) \notin {"running", "failed"}
        BY <2>1 DEF NodeDeed, NodeInv, Steps
      <3>8. MayStart(n)
        BY <1>1, <1>3, <3>4, <3>5, <3>7, NodeMayStart
      <3> QED
        BY <1>1, <1>3, <1>5, <3>4, <3>5, <3>6, <3>8, PromiseStarts
    <2> QED
      BY <2>2, <2>3
  <1>7. CASE ProbeManager \/ Apt \/ Diagnose \/ Reboot \/ Settle \/ Recheck
    <2>1. at \in Steps /\ at' \in Steps /\ UNCHANGED <<job, turn, status>>
      BY <1>7, FlowStep DEF NodeInv
    <2>2. \A u \in Nodes \cup {Manager} : NodeDeed(u)' = NodeDeed(u)
      BY <1>1, <2>1 DEF NodeDeed, node
    <2> QED
      BY <1>4, <2>2
  <1>8. CASE Report
    <2>1. /\ at = "report" /\ at' \in {"next", "manager"} /\ UNCHANGED <<job, turn>>
      BY <1>8, ReportMeans
    <2>2. PICK n \in Nodes : n = node /\ n # Manager /\ status[n] = "none" /\ n \in Units
      BY <2>1, NodeOrders, UnitKinds DEF NodeInv, Steps, node
    <2>3. PICK s \in Statuses \ {"none"} : status' = [status EXCEPT ![n] = s]
      BY <1>8, <2>2, ReportMeans
    <2>4. status'[n] = s /\ \A v \in (Nodes \cup {Manager}) \ {n} : status'[v] = status[v]
      BY <2>2, <2>3 DEF NodeInv
    <2>5. NodeDeed(n) = "running"
      BY <2>1, <2>2 DEF NodeDeed, Steps
    <2>6. NodeDeed(n)' = IF s = "failed" THEN "failed" ELSE IF s = "skipped" THEN "skipped" ELSE "done"
      BY <2>3, <2>4 DEF NodeDeed
    <2>7. \A v \in (Nodes \cup {Manager}) \ {n} : NodeDeed(v)' = NodeDeed(v)
      <3>1. \A v \in (Nodes \cup {Manager}) \ {n} : v # node /\ v # node' /\ at' \notin Steps
        BY <2>1, <2>2 DEF node, Steps
      <3> QED
        BY <1>1, <2>1, <2>4, <3>1 DEF NodeDeed
    <2>8. CASE s = "skipped"
      <3>1. DeedOf(n) \notin Settled /\ DeedOf(n)' = "skipped"
        BY <1>3, <2>2, <2>5, <2>6, <2>8 DEF Settled
      <3> QED
        BY <1>1, <1>5, <2>2, <2>7, <3>1, PromiseSkips
    <2>9. CASE s # "skipped"
      <3>1. DeedOf(n) = "running" /\ DeedOf(n)' \in {"done", "failed"}
        BY <1>3, <2>2, <2>5, <2>6, <2>9
      <3> QED
        BY <1>1, <1>5, <2>2, <2>7, <3>1, PromiseFinishes
    <2> QED
      BY <2>8, <2>9
  <1>9. CASE UpdateManager
    <2>1. /\ at = "manager" /\ at' = "done" /\ UNCHANGED <<job, turn>>
          /\ \/ job.manager /\ \E s \in {"updated", "failed"} : status' = [status EXCEPT ![Manager] = s]
             \/ status' = status
      BY <1>9 DEF UpdateManager
    <2>2. status \in [Nodes \cup {Manager} -> Statuses] /\ Manager \notin Nodes /\ status[Manager] = "none"
      BY <2>1, NodeOrders DEF NodeInv
    <2>3. CASE status' = status
      <3>1. \A u \in Nodes \cup {Manager} : NodeDeed(u)' = NodeDeed(u)
        BY <1>1, <2>1, <2>3 DEF NodeDeed, Steps
      <3> QED
        BY <1>4, <3>1
    <2>4. CASE job.manager /\ \E s \in {"updated", "failed"} : status' = [status EXCEPT ![Manager] = s]
      <3>1. PICK s \in {"updated", "failed"} : status' = [status EXCEPT ![Manager] = s]
        BY <2>4
      <3>2. status'[Manager] = s /\ \A v \in Nodes : status'[v] = status[v]
        BY <2>2, <3>1
      <3>3. NodeDeed(Manager) = "waiting"
        BY <1>1, <2>1, <2>2, <2>4 DEF NodeDeed, Steps
      <3>4. NodeDeed(Manager)' \in {"done", "failed"}
        BY <3>1, <3>2 DEF NodeDeed
      <3>5. \A v \in (Nodes \cup {Manager}) \ {Manager} : NodeDeed(v)' = NodeDeed(v)
        BY <1>1, <2>1, <2>2, <3>2 DEF NodeDeed, Steps
      <3>6. MayStart(Manager)
        BY <1>1, <1>3, <2>2, <3>3, NodeMayStart
      <3> QED
        BY <1>1, <1>3, <1>5, <3>4, <3>5, <3>6, PromiseFinishes
    <2> QED
      BY <2>1, <2>3, <2>4
  <1> QED
    BY <1>1, <1>6, <1>7, <1>8, <1>9 DEF NodeStep

\* Steps of the phases that move no unit.
LEMMA QuietPhases ==
    ASSUME DriverInv, StartRemote \/ StartDiscovery \/ DiscoverNode \/ DiscoverVms \/ Fold \/ (StartCustom /\ ~ Abort)
    PROVE  UNCHANGED Promise!promiseVars
  <1>1. UNCHANGED <<nodeVars, opt, place, fate, report>>
    BY DEF StartRemote, StartDiscovery, DiscoverNode, DiscoverVms, Fold, StartCustom
  <1> QED
    BY <1>1, QuietSteps DEF nodeVars

\* Steps that leave hosts out.
LEMMA SkipsPromised ==
    ASSUME DriverInv, Verdict \/ Gate
    PROVE  [Promise!PromiseNext]_Promise!promiseVars
  <1>1. UNCHANGED <<nodeVars, opt, place, report>> /\ fate \in [Hosts -> Fates]
    BY DEF Verdict, Gate, DriverInv, DriverTypes
  <1>2. ASSUME NEW h \in Hosts
        PROVE  \/ fate'[h] = fate[h]
               \/ fate[h] = "waiting" /\ fate'[h] \in {"canary", "undiscovered"}
    <2>1. CASE Verdict
      <3>1. fate' = [g \in Hosts |-> IF g \in waiting /\ ~ Reachable(g) THEN "undiscovered" ELSE fate[g]]
        BY <2>1 DEF Verdict
      <3> QED
        BY <3>1 DEF waiting
    <2>2. CASE Gate
      <3>1. \/ fate' = [g \in Hosts |-> IF g \in waiting THEN "canary" ELSE fate[g]]
            \/ UNCHANGED fate
        BY <2>2 DEF Gate, SkipRest
      <3> QED
        BY <3>1 DEF waiting
    <2> QED
      BY <2>1, <2>2
  <1> QED
    BY <1>1, <1>2, HostsSkipped

LEMMA StepPromised ==
    ASSUME DriverInv, NodeInv, OrderInv, [Next]_vars
    PROVE  [Promise!PromiseNext]_Promise!promiseVars
  <1>1. \A h \in Hosts : fate[h] = "running" => place # "ended" /\ batches # <<>> /\ h \in Head(batches)
    BY DEF DriverInv, PhaseInv, PhaseFor
  <1>2. CASE Preflight
    <2>1. place = "preflight" /\ Pos(place) = 0
      BY <1>2, Positions DEF Preflight
    <2>2. batches = <<>>
      BY <2>1 DEF DriverInv, QueueInv, HostPhases
    <2>3. CASE Enter(0) /\ UNCHANGED <<nodeVars, opt, fate, report>>
      BY <2>1, <2>3, EnterPromised
    <2>4. CASE Abort
      BY <1>1, <2>1, <2>2, <2>4, AbortPromised
    <2> QED
      BY <1>2, <2>3, <2>4 DEF Preflight
  <1>3. CASE RefuseOverrides
    <2>1. place = "lxc" /\ stage = "discover" /\ Abort
      BY <1>3 DEF RefuseOverrides
    <2>2. batches = <<>>
      BY <2>1 DEF DriverInv, QueueInv
    <2> QED
      BY <1>1, <2>1, <2>2, AbortPromised
  <1>4. CASE StartCustom /\ Abort
    <2>1. place = "custom" /\ stage = "start"
      BY <1>4 DEF StartCustom
    <2>2. batches = <<>>
      BY <2>1 DEF DriverInv, QueueInv
    <2> QED
      BY <1>1, <1>4, <2>1, <2>2, AbortPromised
  <1>5. CASE BrokenConfig
    <2>1. PICK h \in Head(batches) : fate[h] = "waiting"
      BY <1>5 DEF BrokenConfig
    <2>2. place = "custom" /\ batches # <<>> /\ Abort
      BY <1>5 DEF BrokenConfig
    <2>3. \A k \in Head(batches) : k = h
      <3>1. stage # "start" /\ batches \in Seq(SUBSET Hosts)
        BY <2>2 DEF DriverInv, DriverTypes, QueueInv
      <3>2. 1 \in DOMAIN batches /\ Head(batches) = batches[1] /\ Head(batches) \subseteq Hosts
        BY <2>2, <3>1, HeadMeans
      <3>3. \A k \in Head(batches) : k \in Customs /\ k \in batches[1]
        BY <2>2, <3>2, HostTurns, Positions DEF DriverInv, QueueInv
      <3>4. \A a, b \in DOMAIN CustomOrder :
               CustomOrder[a] \in batches[1] /\ CustomOrder[b] \in batches[1] => a = b
        BY <2>2, <3>2 DEF DriverInv, QueueInv
      <3>5. \A k \in Head(batches) : IndexOf(k) = IndexOf(h)
        BY <3>3, <3>4, IndexMeans
      <3> QED
        BY <3>3, <3>5, IndexMeans
    <2>4. \A k \in Hosts : fate[k] # "running"
      BY <1>1, <2>1, <2>3
    <2> QED
      BY <2>2, <2>4, AbortPromised
  <1>6. CASE EndPhase
    <2>1. place \in HostPhases /\ Enter(PhaseIndex(place)) /\ UNCHANGED <<nodeVars, opt, fate, report>>
      BY <1>6 DEF EndPhase, HostPhases
    <2>2. PhaseIndex(place) = Pos(place) /\ Pos(place) \in 0 .. 4
      BY <2>1, PhaseIndexes, Positions DEF HostPhases
    <2> QED
      BY <2>1, <2>2, EnterPromised
  <1>7. CASE Outage \/ Exited \/ UNCHANGED vars
    <2>1. UNCHANGED <<job, at, turn, status, opt, fate, report, place>>
      BY <1>7 DEF Outage, Flap, Exited, vars, nodeVars, driverVars
    <2> QED
      BY <2>1, QuietSteps
  <1>8. CASE StartRemote \/ StartDiscovery \/ DiscoverNode \/ DiscoverVms \/ Fold \/ (StartCustom /\ ~ Abort)
    BY <1>8, QuietPhases
  <1>9. CASE Verdict \/ Gate
    BY <1>9, SkipsPromised
  <1>10. CASE BeginCustom
    BY <1>10, BeginCustomPromised
  <1>11. CASE InNodePhase \/ EndNodePhase \/ FinalReport
    BY <1>11, NodeStepPromised, EndNodePhasePromised, FinalReportPromised
  <1>12. CASE \E h \in Hosts : Begin(h) \/ End(h)
    BY <1>12, BeginPromised, EndPromised
  <1> QED
    BY <1>2, <1>3, <1>4, <1>5, <1>6, <1>7, <1>8, <1>9, <1>10, <1>11, <1>12 DEF Next, Main

LEMMA PromiseBegins == Init => Promise!PromiseInit
  <1> SUFFICES ASSUME Init PROVE Promise!PromiseInit
    OBVIOUS
  <1>1. /\ opt \in Options /\ report.exit = "none"
        /\ \A h \in Hosts : fate[h] \in {"waiting", "omitted"}
        /\ at = "next" /\ status = [n \in Nodes \cup {Manager} |-> "none"]
    BY DEF Init, NodeInit
  <1>2. \A h \in Hosts : HostDeed(h) \in {"waiting", "skipped"}
    BY <1>1 DEF HostDeed
  <1>3. \A u \in Nodes \cup {Manager} : NodeDeed(u) \in {"waiting", "skipped"}
    <2>1. at \notin Steps /\ \A u \in Nodes \cup {Manager} : status[u] = "none"
      BY <1>1 DEF Steps
    <2> QED
      BY <2>1 DEF NodeDeed
  <1>4. \A u \in Units : (IF u \in Hosts THEN HostDeed(u) ELSE NodeDeed(u)) \in {"waiting", "skipped"}
    BY <1>2, <1>3, UnitKinds
  <1>5. \A u \in Customs : opt.depends[u] \subseteq Units
    <2>1. \A u \in Customs : opt.depends[u] \subseteq Customs
      BY <1>1, FleetAssumption
    <2> QED
      BY <2>1, UnitKinds DEF Hosts
  <1>6. Front \subseteq Units
    BY UnitKinds DEF Front, Hosts
  <1>7. [u \in Units |-> IF u \in Hosts THEN HostDeed(u) ELSE NodeDeed(u)] \in [Units -> {"waiting", "skipped"}]
    BY <1>4
  <1>8. [u \in Units |-> IF u \in Customs THEN opt.depends[u] ELSE {}] \in [Units -> SUBSET Units]
    BY <1>5
  <1> QED
    BY <1>1, <1>6, <1>7, <1>8 DEF Promise!PromiseInit, Front

\* A fleet run implements FleetPromise (run_fleet and the phases it calls): for any fleet, any
\* number of threads and whatever nodes and hosts do, a unit is dealt with at most once, phases do not
\* overlap, canaries go before the rest and dependencies before dependents, one node runs at a
\* time and none after one failed, and the verdict comes last and calls a failure a failure.
THEOREM RunKeepsPromise == Spec => KeepsPromise
  <1>1. Init => Promise!PromiseInit
    BY PromiseBegins
  <1>2. Init => OrderInv
    BY DEF Init, OrderInv
  <1>3. RunInv /\ OrderInv /\ [Next]_vars => OrderInv' /\ [Promise!PromiseNext]_Promise!promiseVars
    BY OrderKept, StepPromised DEF RunInv, DriverInv
  <1> QED
    BY <1>1, <1>2, <1>3, AlwaysRunInv, PTL DEF Spec, KeepsPromise, Promise!PromiseSpec

(***************************************************************************)
(* Types of what the invariant above does not speak of.                    *)
(***************************************************************************)
NodeTypes ==
    /\ job \in Job /\ flaps \in 0 .. MaxFlaps /\ know \in Know
    /\ answered \subseteq Nodes /\ booted \subseteq answered

OtherTypes == NodeTypes /\ acted \in [Vms -> Clusters \cup {None}]

LEMMA KnowKept ==
    ASSUME know \in Know
    PROVE  /\ Blank \in Know
           /\ \A b \in BOOLEAN : [know EXCEPT !.manager = b] \in Know /\ [know EXCEPT !.hard = @ \/ b] \in Know
           /\ \A b \in BOOLEAN : [know EXCEPT !.failed = TRUE, !.marked = b] \in Know
           /\ \A w, h \in BOOLEAN : [know EXCEPT !.wants = w, !.hard = h] \in Know
           /\ know.tries + 1 < AptTries => [know EXCEPT !.tries = @ + 1] \in Know
  <1> USE DEF Know
  <1>1. AptTries \in Nat \ {0}
    BY NodeAssumption
  <1>2. Blank \in Know
    BY <1>1 DEF Blank
  <1>3. ASSUME NEW b \in BOOLEAN PROVE [know EXCEPT !.manager = b] \in Know
    OBVIOUS
  <1>4. ASSUME NEW b \in BOOLEAN PROVE [know EXCEPT !.hard = @ \/ b] \in Know
    <2>1. know.hard \/ b \in BOOLEAN
      OBVIOUS
    <2>2. ASSUME NEW c \in BOOLEAN PROVE [know EXCEPT !.hard = c] \in Know
      OBVIOUS
    <2> QED
      BY <2>2
  <1>5. ASSUME NEW b \in BOOLEAN PROVE [know EXCEPT !.failed = TRUE, !.marked = b] \in Know
    OBVIOUS
  <1>6. ASSUME NEW w \in BOOLEAN, NEW h \in BOOLEAN PROVE [know EXCEPT !.wants = w, !.hard = h] \in Know
    OBVIOUS
  <1>7. ASSUME know.tries + 1 < AptTries PROVE [know EXCEPT !.tries = @ + 1] \in Know
    BY <1>1, <1>7
  <1> QED
    BY <1>2, <1>3, <1>4, <1>5, <1>6, <1>7

\* A step of a node's flow.
LEMMA FlowTypes ==
    ASSUME NodeTypes, NodeInv, ProbeManager \/ Apt \/ Diagnose \/ Reboot \/ Settle \/ Recheck
    PROVE  NodeTypes'
  <1>1. node \in Nodes /\ UNCHANGED <<job, flaps>>
    <2>1. at \in Steps
      BY FlowStep DEF NodeInv
    <2>2. UNCHANGED flaps
      BY DEF ProbeManager, Apt, Diagnose, Reboot, Settle, Recheck, Frame
    <2> QED
      BY <2>1, <2>2, FlowStep DEF NodeInv
  <1>2. know \in Know /\ answered \subseteq Nodes /\ booted \subseteq answered
    BY DEF NodeTypes
  <1>3. Answers => answered' \subseteq Nodes /\ answered \subseteq answered' /\ node \in answered'
    BY <1>1, <1>2 DEF Answers
  <1>4. \A m \in BOOLEAN : Raise(m) => know' \in Know
    BY <1>2, KnowKept DEF Raise
  <1>5. CallFails => know' \in Know /\ answered' \subseteq Nodes /\ answered \subseteq answered'
    BY <1>2, <1>3, <1>4 DEF CallFails
  <1>6. CASE ProbeManager
    BY <1>1, <1>2, <1>3, <1>6, KnowKept DEF ProbeManager, NodeTypes
  <1>7. CASE Apt
    BY <1>1, <1>2, <1>3, <1>5, <1>7, KnowKept DEF Apt, NodeTypes
  <1>8. CASE Diagnose
    BY <1>1, <1>2, <1>3, <1>5, <1>8, KnowKept DEF Diagnose, NodeTypes
  <1>9. CASE Reboot
    <2>1. know' \in Know
      BY <1>2, <1>4, <1>9 DEF Reboot
    <2>2. answered' \subseteq Nodes /\ booted' \subseteq answered'
      BY <1>2, <1>3, <1>9 DEF Reboot
    <2> QED
      BY <1>1, <2>1, <2>2 DEF NodeTypes
  <1>10. CASE Settle
    BY <1>1, <1>2, <1>4, <1>10 DEF Settle, NodeTypes
  <1>11. CASE Recheck
    BY <1>1, <1>2, <1>3, <1>5, <1>11, KnowKept DEF Recheck, NodeTypes
  <1> QED
    BY <1>6, <1>7, <1>8, <1>9, <1>10, <1>11

LEMMA NodeTypesKept == ASSUME NodeTypes, NodeInv, [Next]_vars PROVE NodeTypes'
  <1>1. CASE UNCHANGED <<job, flaps, know, answered, booted>>
    BY <1>1 DEF NodeTypes
  <1>2. CASE NextNode
    BY <1>2, KnowKept DEF NextNode, NodeTypes
  <1>3. CASE ProbeManager \/ Apt \/ Diagnose \/ Reboot \/ Settle \/ Recheck
    BY <1>3, FlowTypes
  <1>4. CASE Report \/ UpdateManager
    BY <1>1, <1>4 DEF Report, UpdateManager
  <1>5. CASE Flap
    BY <1>5, NodeAssumption DEF Flap, NodeTypes
  <1>6. CASE UNCHANGED nodeVars
    BY <1>1, <1>6 DEF nodeVars
  <1>7. [Next]_vars => NodeStep \/ Flap \/ UNCHANGED nodeVars
    <2>1. CASE InNodePhase \/ Outage \/ Exited \/ UNCHANGED vars
      BY <2>1 DEF InNodePhase, Outage, Exited, vars
    <2>2. CASE Preflight \/ StartRemote \/ StartDiscovery \/ DiscoverNode \/ Verdict \/ RefuseOverrides \/ DiscoverVms
      BY <2>2 DEF Preflight, StartRemote, StartDiscovery, DiscoverNode, Verdict, RefuseOverrides, DiscoverVms, Abort
    <2>3. CASE Fold \/ Gate \/ EndPhase \/ StartCustom \/ BeginCustom \/ BrokenConfig
      BY <2>3 DEF Fold, Gate, EndPhase, StartCustom, BeginCustom, BrokenConfig, Abort
    <2>4. CASE EndNodePhase \/ FinalReport
      BY <2>4 DEF EndNodePhase, FinalReport
    <2>5. CASE \E h \in Hosts : Begin(h) \/ End(h)
      BY <2>5 DEF Begin, End
    <2> QED
      BY <2>1, <2>2, <2>3, <2>4, <2>5 DEF Next, Main
  <1> QED
    BY <1>2, <1>3, <1>4, <1>5, <1>6, <1>7 DEF NodeStep

\* The cluster in which a run works on a VM.
LEMMA ActedKept ==
    ASSUME DriverInv, acted \in [Vms -> Clusters \cup {None}], [Next]_vars
    PROVE  acted' \in [Vms -> Clusters \cup {None}]
  <1>1. CASE UNCHANGED acted
    BY <1>1
  <1>2. ASSUME NEW h \in Hosts, Begin(h) PROVE acted' \in [Vms -> Clusters \cup {None}]
    <2>1. ASSUME h \in Vms PROVE Resolved(h) \in Clusters
      <3>1. Sighted(h) \subseteq Clusters
        BY <2>1, FleetAssumption DEF Sighted
      <3>2. Cardinality(Sighted(h)) = 1 => \E c \in Sighted(h) : TRUE
        <4>1. Cardinality({}) = 0
          BY FS_EmptySet
        <4> QED
          BY <4>1
      <3>3. VmNode[h] # None => ClusterOf[VmNode[h]] \in Clusters
        BY <2>1, FleetAssumption DEF Clusters
      <3>4. VmCluster[h] # None => VmCluster[h] \in Clusters
        BY <2>1, FleetAssumption
      <3>5. Cardinality(Sighted(h)) = 1 => (CHOOSE c \in Sighted(h) : TRUE) \in Clusters
        BY <3>1, <3>2
      <3> QED
        BY <3>3, <3>4, <3>5, FleetAssumption DEF Resolved
    <2>2. acted' = acted \/ (h \in Vms /\ acted' = [acted EXCEPT ![h] = Resolved(h)])
      BY <1>2 DEF Begin
    <2> QED
      BY <2>1, <2>2
  <1>3. [Next]_vars => UNCHANGED acted \/ \E h \in Hosts : Begin(h)
    <2>1. CASE InNodePhase \/ Outage \/ Exited \/ UNCHANGED vars
      BY <2>1 DEF InNodePhase, Outage, Exited, vars, driverVars
    <2>2. CASE Preflight \/ StartRemote \/ StartDiscovery \/ DiscoverNode \/ Verdict \/ RefuseOverrides \/ DiscoverVms
      BY <2>2 DEF Preflight, StartRemote, StartDiscovery, DiscoverNode, Verdict, RefuseOverrides, DiscoverVms, Abort
    <2>3. CASE Fold \/ Gate \/ EndPhase \/ StartCustom \/ BeginCustom \/ BrokenConfig
      BY <2>3 DEF Fold, Gate, EndPhase, StartCustom, BeginCustom, BrokenConfig, Abort
    <2>4. CASE EndNodePhase \/ FinalReport
      BY <2>4 DEF EndNodePhase, FinalReport
    <2>5. CASE \E h \in Hosts : Begin(h) \/ End(h)
      BY <2>5 DEF End
    <2> QED
      BY <2>1, <2>2, <2>3, <2>4, <2>5 DEF Next, Main
  <1> QED
    BY <1>1, <1>2, <1>3

LEMMA OtherTypesInit == Init => OtherTypes
  <1> SUFFICES ASSUME Init PROVE OtherTypes
    OBVIOUS
  <1>1. opt.dry \in BOOLEAN /\ opt.reboots \in BOOLEAN
    BY FleetAssumption DEF Init
  <1>2. job \in Job
    BY <1>1 DEF Init, Job
  <1>3. know \in Know
    <2>1. AptTries \in Nat
      BY NodeAssumption
    <2> QED
      BY <2>1 DEF Init, NodeInit, Know, Blank
  <1>4. flaps \in 0 .. MaxFlaps /\ answered = {} /\ booted = {}
    BY NodeAssumption DEF Init, NodeInit
  <1> QED
    BY <1>2, <1>3, <1>4 DEF Init, OtherTypes, NodeTypes

\* Every state of a fleet run is well typed, for any fleet, any options and any outages.
THEOREM TypeCorrect == Spec => []TypeOK
  <1>1. RunInv /\ OtherTypes /\ [Next]_vars => OtherTypes'
    BY NodeTypesKept, ActedKept DEF RunInv, DriverInv, OtherTypes
  <1>2. RunInv /\ OtherTypes => TypeOK
    <2> SUFFICES ASSUME RunInv, OtherTypes PROVE TypeOK
      OBVIOUS
    <2>1. NodeTypeOK
      BY DEF RunInv, NodeInv, OtherTypes, NodeTypes, NodeTypeOK
    <2>2. \A i \in DOMAIN batches : batches[i] \subseteq Hosts
      <3>1. batches \in Seq(SUBSET Hosts)
        BY DEF RunInv, DriverTypes
      <3> QED
        BY <3>1
    <2>3. disc.next \in Nat /\ disc.found \subseteq Nodes \cup Clusters /\ disc.lost \subseteq Nodes
      BY DEF RunInv, DriverTypes
    <2> QED
      BY <2>1, <2>2, <2>3 DEF RunInv, DriverTypes, OtherTypes, TypeOK
  <1> QED
    BY <1>1, <1>2, OtherTypesInit, AlwaysRunInv, PTL DEF Spec

-----------------------------------------------------------------------------
(***************************************************************************)
(* UpdateFlow.                                                             *)
(***************************************************************************)

(***************************************************************************)
(* Types, part by part: one step per action.                               *)
(***************************************************************************)
\* A run's record before it starts.
LEMMA FreshRun ==
  /\ NoRun \in Run /\ NoRun.status = "none" /\ NoRun.base = 1
  /\ ~ NoRun.taken /\ ~ NoRun.warned
  BY DEF Run, NoRun, FlowStatuses

\* A run's record as StartRun sets it.
LEMMA StartedRun ==
  ASSUME NEW dry \in BOOLEAN, NEW wants \in BOOLEAN, NEW monitored \in BOOLEAN,
         NEW base \in Nat
  PROVE  /\ [NoRun EXCEPT !.dry = dry, !.wants = wants, !.monitored = monitored,
                          !.base = base] \in Run
         /\ [NoRun EXCEPT !.dry = dry, !.wants = wants, !.monitored = monitored,
                          !.base = base].status = "none"
  <1>1. NoRun \in Run /\ NoRun.status = "none"
    BY FreshRun
  <1> QED
    BY <1>1, ZenonT(60) DEF Run

\* The version no snapshot has.
LEMMA NoSnapIsZero == NoSnap = 0
  BY DEF NoSnap

\* A rollback that outlived its call still has its snapshot.
LEMMA SnapshotToRestore == FlowTypeOK /\ task = "rollback" => snap # NoSnap
  BY DEF FlowTypeOK, Counts, NoSnap

\* TypeOK's four parts, each kept by every step.
LEMMA CountsKept == Counts /\ [FlowNext]_flowVars => Counts'
  <1> SUFFICES ASSUME Counts, [FlowNext]_flowVars PROVE Counts'
    OBVIOUS
  <1> USE UpdateAssumption, NoSnapIsZero DEF Counts
  <1>1. ASSUME NEW dry \in BOOLEAN, NEW wants \in BOOLEAN, NEW monitored \in BOOLEAN,
               StartRun(dry, wants, monitored)
        PROVE  Counts'
    BY <1>1 DEF StartRun
  <1>2. CASE GuestLives
    BY <1>2 DEF GuestLives, Touch, Power
  <1>3. CASE TaskEnds
    BY <1>3 DEF TaskEnds, TaskKinds
  <1>4. CASE Introspect
    BY <1>4 DEF Introspect, MayTouch, Touch, Power
  <1>5. CASE IntrospectRaises
    BY <1>5 DEF IntrospectRaises, Power
  <1>6. CASE Backup
    BY <1>6 DEF Backup
  <1>7. CASE TakeSnapshot
    BY <1>7 DEF TakeSnapshot, CreateCall
  <1>8. CASE Alloy
    BY <1>8 DEF Alloy, MayTouch, Touch
  <1>9. CASE OsUpdate
    BY <1>9 DEF OsUpdate, MayTouch, Touch
  <1>10. CASE AppUpdate
    BY <1>10 DEF AppUpdate, MayTouch, Touch
  <1>11. CASE Upgrade
    BY <1>11 DEF Upgrade, MayTouch, Touch
  <1>12. CASE RunSteps
    BY <1>12 DEF RunSteps, MayTouch, Touch
  <1>13. CASE RebootGuest
    BY <1>13 DEF RebootGuest, Power
  <1>14. CASE HealthCheck
    BY <1>14 DEF HealthCheck
  <1>15. CASE ReportFlow
    BY <1>15 DEF ReportFlow
  <1>16. CASE CallRaises
    BY <1>16 DEF CallRaises
  <1>17. CASE Rescue
    <2>1. /\ disk' = disk \/ (disk' = snap /\ snap # NoSnap)
          /\ task' = task \/ snap # NoSnap
      BY <1>17 DEF Rescue, RollbackCall
    <2>2. UNCHANGED <<clock, own, snap, tries>>
      BY <1>17 DEF Rescue
    <2> QED
      BY <2>1, <2>2
  <1>18. CASE Poll
    BY <1>18 DEF Poll, Power
  <1>19. CASE DeleteSnapshot
    BY <1>19 DEF DeleteSnapshot
  <1>20. CASE StopAgain
    BY <1>20 DEF StopAgain
  <1>21. CASE Killed
    BY <1>21 DEF Killed
  <1>22. CASE UNCHANGED flowVars
    BY <1>22 DEF flowVars
  <1> QED
    BY <1>1, <1>2, <1>3, <1>4, <1>5, <1>6, <1>7, <1>8, <1>9, <1>10, <1>11, <1>12,
       <1>13, <1>14, <1>15, <1>16, <1>17, <1>18, <1>19, <1>20, <1>21, <1>22 DEF FlowNext, Flow

LEMMA TagsKept == Tags /\ [FlowNext]_flowVars => Tags'
  <1> SUFFICES ASSUME Tags, [FlowNext]_flowVars PROVE Tags'
    OBVIOUS
  <1> USE UpdateAssumption DEF Tags, TaskKinds, FlowPlaces, TrySteps, Updating, Closing
  <1>1. ASSUME NEW dry \in BOOLEAN, NEW wants \in BOOLEAN, NEW monitored \in BOOLEAN,
               StartRun(dry, wants, monitored)
        PROVE  Tags'
    BY <1>1 DEF StartRun
  <1>2. CASE GuestLives
    BY <1>2 DEF GuestLives, Touch, Power
  <1>3. CASE TaskEnds
    BY <1>3 DEF TaskEnds, TaskKinds
  <1>4. CASE Introspect
    BY <1>4 DEF Introspect, MayTouch, Touch, Power
  <1>5. CASE IntrospectRaises
    BY <1>5 DEF IntrospectRaises, Power
  <1>6. CASE Backup
    BY <1>6 DEF Backup
  <1>7. CASE TakeSnapshot
    BY <1>7 DEF TakeSnapshot, CreateCall
  <1>8. CASE Alloy
    BY <1>8 DEF Alloy, MayTouch, Touch
  <1>9. CASE OsUpdate
    BY <1>9 DEF OsUpdate, MayTouch, Touch
  <1>10. CASE AppUpdate
    BY <1>10 DEF AppUpdate, MayTouch, Touch
  <1>11. CASE Upgrade
    BY <1>11 DEF Upgrade, MayTouch, Touch
  <1>12. CASE RunSteps
    BY <1>12 DEF RunSteps, MayTouch, Touch
  <1>13. CASE RebootGuest
    BY <1>13 DEF RebootGuest, Power
  <1>14. CASE HealthCheck
    BY <1>14 DEF HealthCheck
  <1>15. CASE ReportFlow
    BY <1>15 DEF ReportFlow
  <1>16. CASE CallRaises
    BY <1>16 DEF CallRaises
  <1>17. CASE Rescue
    BY <1>17 DEF Rescue, RollbackCall
  <1>18. CASE Poll
    BY <1>18 DEF Poll, Power
  <1>19. CASE DeleteSnapshot
    BY <1>19 DEF DeleteSnapshot
  <1>20. CASE StopAgain
    BY <1>20 DEF StopAgain
  <1>21. CASE Killed
    BY <1>21 DEF Killed
  <1>22. CASE UNCHANGED flowVars
    BY <1>22 DEF flowVars
  <1> QED
    BY <1>1, <1>2, <1>3, <1>4, <1>5, <1>6, <1>7, <1>8, <1>9, <1>10, <1>11, <1>12,
       <1>13, <1>14, <1>15, <1>16, <1>17, <1>18, <1>19, <1>20, <1>21, <1>22 DEF FlowNext, Flow

LEMMA RunKept == Counts /\ Tags /\ RunKnown /\ [FlowNext]_flowVars => RunKnown'
  <1> SUFFICES ASSUME Counts /\ Tags /\ RunKnown, [FlowNext]_flowVars PROVE RunKnown'
    OBVIOUS
  <1> USE DEF RunKnown, TrySteps, Updating, Closing
  <1>1. ASSUME NEW dry \in BOOLEAN, NEW wants \in BOOLEAN, NEW monitored \in BOOLEAN,
               StartRun(dry, wants, monitored)
        PROVE  RunKnown'
    <2> DEFINE r == [NoRun EXCEPT !.dry = dry, !.wants = wants,
                                  !.monitored = monitored, !.base = disk]
    <2>1. disk \in Nat
      BY DEF Counts
    <2>2. r \in Run /\ r.status = "none"
      BY <2>1, StartedRun, ZenonT(60)
    <2>3. run' \in Run /\ run'.status = "none"
      <3>1. run' = r
        BY <1>1 DEF StartRun
      <3> HIDE DEF r
      <3> QED
        BY <2>2, <3>1
    <2>4. pc' \in {"introspect", "backup"}
      BY <1>1 DEF StartRun
    <2> QED
      BY <2>3, <2>4
  <1>2. CASE GuestLives
    BY <1>2 DEF GuestLives
  <1>3. CASE TaskEnds
    BY <1>3 DEF TaskEnds, TaskKinds
  <1>4. CASE Introspect
    <2>1. disk' \in Nat
      BY <1>4 DEF Introspect, MayTouch, Touch, Counts
    <2>2. run' = [run EXCEPT !.wasStopped = ~ alive, !.base = disk']
      BY <1>4 DEF Introspect
    <2>3. pc = "introspect" /\ pc' = "backup" /\ alive \in BOOLEAN
      BY <1>4 DEF Introspect, Tags
    <2>4. run' \in Run
      BY <2>1, <2>2, <2>3 DEF Run
    <2>5. run'.status = "none"
      <3>1. run \in Run /\ run.status = "none"
        BY <2>3
      <3> QED
        BY <2>2, <3>1 DEF Run
    <2> QED
      BY <2>3, <2>4, <2>5
  <1>5. CASE IntrospectRaises
    BY <1>5 DEF IntrospectRaises, Power
  <1>6. CASE Backup
    BY <1>6 DEF Backup, Run, FlowStatuses
  <1>7. CASE TakeSnapshot
    BY <1>7 DEF TakeSnapshot, Run, FlowStatuses
  <1>8. CASE Alloy
    <2>1. pc' \in {"os", "upgrade", "steps"}
      BY <1>8, UpdateAssumption DEF Alloy, Tags
    <2>2. run' = run /\ pc = "alloy"
      BY <1>8 DEF Alloy
    <2> QED
      BY <2>1, <2>2
  <1>9. CASE OsUpdate
    BY <1>9 DEF OsUpdate, Run, FlowStatuses
  <1>10. CASE AppUpdate
    BY <1>10 DEF AppUpdate, Run, FlowStatuses
  <1>11. CASE Upgrade
    BY <1>11 DEF Upgrade, Run, FlowStatuses
  <1>12. CASE RunSteps
    BY <1>12 DEF RunSteps, Run, FlowStatuses
  <1>13. CASE RebootGuest
    BY <1>13 DEF RebootGuest, Run, FlowStatuses
  <1>14. CASE HealthCheck
    BY <1>14 DEF HealthCheck
  <1>15. CASE ReportFlow
    BY <1>15 DEF ReportFlow, Run, FlowStatuses
  <1>16. CASE CallRaises
    BY <1>16 DEF CallRaises
  <1>17. CASE Rescue
    BY <1>17 DEF Rescue, Run, FlowStatuses
  <1>18. CASE Poll
    BY <1>18 DEF Poll, Run, FlowStatuses
  <1>19. CASE DeleteSnapshot
    BY <1>19 DEF DeleteSnapshot
  <1>20. CASE StopAgain
    BY <1>20 DEF StopAgain
  <1>21. CASE Killed
    BY <1>21, FreshRun DEF Killed
  <1>22. CASE UNCHANGED flowVars
    BY <1>22 DEF flowVars
  <1> QED
    BY <1>1, <1>2, <1>3, <1>4, <1>5, <1>6, <1>7, <1>8, <1>9, <1>10, <1>11, <1>12,
       <1>13, <1>14, <1>15, <1>16, <1>17, <1>18, <1>19, <1>20, <1>21, <1>22 DEF FlowNext, Flow

LEMMA BaseKept == Counts /\ RunKnown /\ run.base <= clock /\ [FlowNext]_flowVars => (run.base <= clock)'
  <1> SUFFICES ASSUME Counts /\ RunKnown /\ run.base <= clock, [FlowNext]_flowVars PROVE (run.base <= clock)'
    OBVIOUS
  <1> USE FreshRun, NoSnapIsZero DEF Counts, RunKnown, Run
  <1>1. ASSUME NEW dry \in BOOLEAN, NEW wants \in BOOLEAN, NEW monitored \in BOOLEAN,
               StartRun(dry, wants, monitored)
        PROVE  (run.base <= clock)'
    BY <1>1 DEF StartRun
  <1>2. CASE GuestLives
    BY <1>2 DEF GuestLives, Touch, Power
  <1>3. CASE TaskEnds
    BY <1>3 DEF TaskEnds, TaskKinds
  <1>4. CASE Introspect
    BY <1>4 DEF Introspect, MayTouch, Touch, Power
  <1>5. CASE IntrospectRaises
    BY <1>5 DEF IntrospectRaises, Power
  <1>6. CASE Backup
    BY <1>6 DEF Backup
  <1>7. CASE TakeSnapshot
    BY <1>7 DEF TakeSnapshot, CreateCall
  <1>8. CASE Alloy
    BY <1>8, UpdateAssumption DEF Alloy, MayTouch, Touch
  <1>9. CASE OsUpdate
    BY <1>9 DEF OsUpdate, MayTouch, Touch
  <1>10. CASE AppUpdate
    BY <1>10 DEF AppUpdate, MayTouch, Touch
  <1>11. CASE Upgrade
    BY <1>11 DEF Upgrade, MayTouch, Touch
  <1>12. CASE RunSteps
    BY <1>12 DEF RunSteps, MayTouch, Touch
  <1>13. CASE RebootGuest
    BY <1>13 DEF RebootGuest, Power
  <1>14. CASE HealthCheck
    BY <1>14 DEF HealthCheck
  <1>15. CASE ReportFlow
    BY <1>15 DEF ReportFlow
  <1>16. CASE CallRaises
    BY <1>16 DEF CallRaises
  <1>17. CASE Rescue
    BY <1>17 DEF Rescue, RollbackCall
  <1>18. CASE Poll
    BY <1>18 DEF Poll, Power
  <1>19. CASE DeleteSnapshot
    BY <1>19 DEF DeleteSnapshot
  <1>20. CASE StopAgain
    BY <1>20 DEF StopAgain
  <1>21. CASE Killed
    BY <1>21 DEF Killed
  <1>22. CASE UNCHANGED flowVars
    BY <1>22 DEF flowVars
  <1> QED
    BY <1>1, <1>2, <1>3, <1>4, <1>5, <1>6, <1>7, <1>8, <1>9, <1>10, <1>11, <1>12,
       <1>13, <1>14, <1>15, <1>16, <1>17, <1>18, <1>19, <1>20, <1>21, <1>22 DEF FlowNext, Flow

\* Every reachable state is well typed.
THEOREM FlowTypeCorrect == FlowSpec => []FlowTypeOK
  <1>1. FlowInit => FlowTypeOK
    BY UpdateAssumption, FreshRun, NoSnapIsZero
       DEF FlowInit, FlowTypeOK, Counts, Tags, TaskKinds, RunKnown, FlowPlaces, TrySteps, Updating, Closing
  <1>2. FlowTypeOK /\ [FlowNext]_flowVars => FlowTypeOK'
    BY CountsKept, TagsKept, RunKept, BaseKept DEF FlowTypeOK
  <1> QED
    BY <1>1, <1>2, PTL DEF FlowSpec

(***************************************************************************)
(* The strengthened invariant: what a run knows of the snapshot.           *)
(***************************************************************************)
\* Before its snapshot a run has neither taken one nor given a warning.
Fresh == pc \in {"introspect", "backup", "snapshot"} => ~ run.taken /\ ~ run.warned

\* Up to the snapshot the guest is as the run found it, unless a late rollback of
\* an earlier run came in between: then that run's snapshot is in the way.
FoundAsIs ==
    pc \in {"backup", "snapshot"} => disk = run.base \/ (snap # NoSnap /\ task = "none")

\* A snapshot that was taken is of that state, and no task can replace it.
Owned ==
    pc \in Updating \cup {"report", "rescue"} /\ run.taken
        => snap = run.base /\ task = "none"

\* From the first change on, an update that wants a snapshot has it or warns.
TakenOrWarned == pc \in Updating /\ run.wants /\ ~ run.warned => run.taken

\* A rollback that returned a result to read has put the guest back, and is over.
PolledIsBack ==
    kind # "lxc" /\ (pc = "poll" \/ (pc \in Closing /\ run.status = "rolled back"))
        => disk = run.base /\ task # "rollback"

\* A run finds the guest with all its own work, and a rollback that outlives its
\* call goes no further back and keeps the guest down.
OwnWorkSafe ==
    /\ OwnWorkKept
    /\ pc # "idle" => own <= run.base
    /\ task = "rollback" => own <= snap /\ ~ alive

OwnSnapshot ==
    /\ Fresh /\ FoundAsIs /\ Owned /\ TakenOrWarned
    /\ PolledIsBack /\ ConfirmedRollback

SnapshotInv == OwnSnapshot /\ OwnWorkSafe

\* The run and the snapshot: TypeOK is needed for the shape of the run's record only.
LEMMA OwnSnapshotKept == FlowTypeOK /\ OwnSnapshot /\ [FlowNext]_flowVars => OwnSnapshot'
  <1> SUFFICES ASSUME FlowTypeOK /\ OwnSnapshot, [FlowNext]_flowVars PROVE OwnSnapshot'
    OBVIOUS
  <1> USE FreshRun
      DEF FlowTypeOK, Counts, Tags, RunKnown, Run, FlowPlaces, TrySteps, Updating, Closing,
          OwnSnapshot, Fresh, FoundAsIs, Owned, TakenOrWarned, PolledIsBack,
          ConfirmedRollback
  <1>1. ASSUME NEW dry \in BOOLEAN, NEW wants \in BOOLEAN, NEW monitored \in BOOLEAN,
               StartRun(dry, wants, monitored)
        PROVE  OwnSnapshot'
    BY <1>1 DEF StartRun
  <1>2. CASE GuestLives
    BY <1>2 DEF GuestLives, Touch, Power
  <1>3. CASE TaskEnds
    <2>1. UNCHANGED <<kind, pc, run>> /\ task # "none" /\ task' = "none"
      BY <1>3 DEF TaskEnds, TaskKinds
    <2>2. UNCHANGED <<disk, alive>> \/ (task = "rollback" /\ snap' = snap /\ snap # NoSnap)
      <3>1. task = "rollback" => snap # NoSnap
        BY SnapshotToRestore
      <3>2. UNCHANGED <<disk, alive>> \/ (task = "rollback" /\ snap' = snap)
        BY <1>3 DEF TaskEnds
      <3> QED
        BY <3>1, <3>2
    <2>3. Fresh' /\ TakenOrWarned'
      BY <2>1
    <2>4. FoundAsIs'
      BY <2>1, <2>2
    <2>5. Owned'
      BY <2>1
    <2>6. PolledIsBack' /\ ConfirmedRollback'
      BY <2>1, <2>2
    <2> QED
      BY <2>3, <2>4, <2>5, <2>6
  <1>4. CASE Introspect
    BY <1>4 DEF Introspect, MayTouch, Touch, Power
  <1>5. CASE IntrospectRaises
    BY <1>5 DEF IntrospectRaises, Power
  <1>6. CASE Backup
    BY <1>6 DEF Backup
  <1>7. CASE TakeSnapshot
    BY <1>7 DEF TakeSnapshot, CreateCall
  <1>8. CASE Alloy
    BY <1>8, UpdateAssumption DEF Alloy, MayTouch, Touch
  <1>9. CASE OsUpdate
    BY <1>9 DEF OsUpdate, MayTouch, Touch
  <1>10. CASE AppUpdate
    BY <1>10 DEF AppUpdate, MayTouch, Touch
  <1>11. CASE Upgrade
    BY <1>11 DEF Upgrade, MayTouch, Touch
  <1>12. CASE RunSteps
    BY <1>12 DEF RunSteps, MayTouch, Touch
  <1>13. CASE RebootGuest
    BY <1>13 DEF RebootGuest, Power
  <1>14. CASE HealthCheck
    BY <1>14 DEF HealthCheck
  <1>15. CASE ReportFlow
    BY <1>15 DEF ReportFlow
  <1>16. CASE CallRaises
    BY <1>16 DEF CallRaises
  <1>17. CASE Rescue
    BY <1>17 DEF Rescue, RollbackCall
  <1>18. CASE Poll
    BY <1>18 DEF Poll, Power
  <1>19. CASE DeleteSnapshot
    BY <1>19 DEF DeleteSnapshot
  <1>20. CASE StopAgain
    BY <1>20 DEF StopAgain
  <1>21. CASE Killed
    BY <1>21 DEF Killed
  <1>22. CASE UNCHANGED flowVars
    BY <1>22 DEF flowVars
  <1> QED
    BY <1>1, <1>2, <1>3, <1>4, <1>5, <1>6, <1>7, <1>8, <1>9, <1>10, <1>11, <1>12,
       <1>13, <1>14, <1>15, <1>16, <1>17, <1>18, <1>19, <1>20, <1>21, <1>22 DEF FlowNext, Flow


\* The guest's own work: versions only grow, but for rollbacks.
LEMMA OwnWorkSafeKept == FlowTypeOK /\ Owned /\ OwnWorkSafe /\ [FlowNext]_flowVars => OwnWorkSafe'
  <1> SUFFICES ASSUME FlowTypeOK /\ Owned /\ OwnWorkSafe, [FlowNext]_flowVars PROVE OwnWorkSafe'
    OBVIOUS
  <1> USE FreshRun, NoSnapIsZero
      DEF FlowTypeOK, Counts, RunKnown, Run, OwnWorkSafe, OwnWorkKept
  <1>1. ASSUME NEW dry \in BOOLEAN, NEW wants \in BOOLEAN, NEW monitored \in BOOLEAN,
               StartRun(dry, wants, monitored)
        PROVE  OwnWorkSafe'
    BY <1>1 DEF StartRun
  <1>2. CASE GuestLives
    BY <1>2 DEF GuestLives, Touch, Power
  <1>3. CASE TaskEnds
    BY <1>3 DEF TaskEnds, TaskKinds
  <1>4. CASE Introspect
    <2>1. pc # "idle" /\ UNCHANGED <<own, snap, task>>
      BY <1>4 DEF Introspect
    <2>2. disk' \in Nat /\ disk' >= disk
      BY <1>4 DEF Introspect, MayTouch, Touch
    <2>3. run'.base = disk'
      BY <1>4 DEF Introspect
    <2>4. task = "rollback" => alive' = alive
      BY <1>4 DEF Introspect, Power
    <2> QED
      BY <2>1, <2>2, <2>3, <2>4
  <1>5. CASE IntrospectRaises
    BY <1>5 DEF IntrospectRaises, Power
  <1>6. CASE Backup
    BY <1>6 DEF Backup
  <1>7. CASE TakeSnapshot
    BY <1>7 DEF TakeSnapshot, CreateCall
  <1>8. CASE Alloy
    BY <1>8, UpdateAssumption DEF Alloy, MayTouch, Touch
  <1>9. CASE OsUpdate
    BY <1>9 DEF OsUpdate, MayTouch, Touch
  <1>10. CASE AppUpdate
    BY <1>10 DEF AppUpdate, MayTouch, Touch
  <1>11. CASE Upgrade
    BY <1>11 DEF Upgrade, MayTouch, Touch
  <1>12. CASE RunSteps
    BY <1>12 DEF RunSteps, MayTouch, Touch
  <1>13. CASE RebootGuest
    BY <1>13 DEF RebootGuest, Power
  <1>14. CASE HealthCheck
    BY <1>14 DEF HealthCheck
  <1>15. CASE ReportFlow
    BY <1>15 DEF ReportFlow
  <1>16. CASE CallRaises
    <2>1. pc # "idle" /\ UNCHANGED <<disk, own, alive, snap, task, run>>
      BY <1>16 DEF CallRaises, TrySteps, Updating
    <2> QED
      BY <2>1
  <1>17. CASE Rescue
    <2>1. pc = "rescue" /\ UNCHANGED <<own, snap>>
      BY <1>17 DEF Rescue
    <2>2. run'.base = run.base
      BY <1>17 DEF Rescue
    <2>3. \/ UNCHANGED <<disk, alive, task>>
          \/ run.taken /\ task = "none" /\ disk' = snap /\ task' = task
          \/ run.taken /\ UNCHANGED disk /\ alive' = FALSE
      BY <1>17 DEF Rescue, RollbackCall
    <2>4. own <= run.base /\ (run.taken => snap = run.base)
      BY <2>1 DEF Owned, Updating
    <2> QED
      BY <2>1, <2>2, <2>3, <2>4
  <1>18. CASE Poll
    BY <1>18 DEF Poll, Power
  <1>19. CASE DeleteSnapshot
    BY <1>19 DEF DeleteSnapshot
  <1>20. CASE StopAgain
    <2>1. pc' = "idle" /\ UNCHANGED <<disk, own, snap, task>>
      BY <1>20 DEF StopAgain
    <2>2. alive' = alive \/ alive' = FALSE
      BY <1>20 DEF StopAgain
    <2> QED
      BY <2>1, <2>2
  <1>21. CASE Killed
    BY <1>21 DEF Killed
  <1>22. CASE UNCHANGED flowVars
    BY <1>22 DEF flowVars
  <1> QED
    BY <1>1, <1>2, <1>3, <1>4, <1>5, <1>6, <1>7, <1>8, <1>9, <1>10, <1>11, <1>12,
       <1>13, <1>14, <1>15, <1>16, <1>17, <1>18, <1>19, <1>20, <1>21, <1>22 DEF FlowNext, Flow

\* Both parts of the invariant together.
LEMMA SnapshotInvKept == FlowTypeOK /\ SnapshotInv /\ [FlowNext]_flowVars => SnapshotInv'
  <1>1. SnapshotInv => Owned
    BY DEF SnapshotInv, OwnSnapshot
  <1> QED
    BY <1>1, OwnSnapshotKept, OwnWorkSafeKept DEF SnapshotInv

\* The invariant above holds in every reachable state.
THEOREM FlowInductive == FlowSpec => []SnapshotInv
  <1>1. FlowInit => SnapshotInv
    BY FreshRun DEF FlowInit, SnapshotInv, OwnSnapshot, Fresh, FoundAsIs, Owned, TakenOrWarned,
                    PolledIsBack, ConfirmedRollback, OwnWorkSafe, OwnWorkKept, Updating, Closing
  <1>2. FlowTypeOK /\ SnapshotInv /\ [FlowNext]_flowVars => SnapshotInv'
    BY SnapshotInvKept
  <1> QED
    BY <1>1, <1>2, FlowTypeCorrect, PTL DEF FlowSpec

(***************************************************************************)
(* What follows from it.                                                   *)
(***************************************************************************)
\* An update runs with a snapshot of the state it started from, or warns.
THEOREM AlwaysProtectedUnlessWarned == FlowSpec => []ProtectedUnlessWarned
  <1>1. SnapshotInv => ProtectedUnlessWarned
    BY DEF SnapshotInv, OwnSnapshot, TakenOrWarned, Owned, ProtectedUnlessWarned
  <1> QED
    BY <1>1, FlowInductive, PTL

\* Where the result of the rollback is read, "rolled back" is true.
THEOREM AlwaysConfirmedRollback == FlowSpec => []ConfirmedRollback
  <1>1. SnapshotInv => ConfirmedRollback
    BY DEF SnapshotInv, OwnSnapshot
  <1> QED
    BY <1>1, FlowInductive, PTL

\* What the guest did between two runs is never lost.
THEOREM AlwaysOwnWorkKept == FlowSpec => []OwnWorkKept
  <1>1. SnapshotInv => OwnWorkKept
    BY DEF SnapshotInv, OwnWorkSafe
  <1> QED
    BY <1>1, FlowInductive, PTL

\* A run that rolls back has taken the snapshot itself: no other action leads
\* from "rescue" to the steps after it.
LEMMA StepsBackToBase ==
  ASSUME SnapshotInv, [FlowNext]_flowVars, pc = "rescue", pc' \in {"poll", "cleanup"},
         disk' # disk
  PROVE  disk' = run.base
  <1>1. CASE Rescue
    <2>1. run.taken /\ \E ok \in BOOLEAN : RollbackCall(ok)
      BY <1>1 DEF Rescue
    <2>2. disk' = snap
      BY <2>1 DEF RollbackCall
    <2> QED
      BY <2>1, <2>2 DEF SnapshotInv, OwnSnapshot, Owned
  <1>2. ~ TaskEnds /\ ~ Killed /\ ~ UNCHANGED flowVars
    BY DEF TaskEnds, Killed, flowVars
  <1>3. ASSUME NEW dry \in BOOLEAN, NEW wants \in BOOLEAN, NEW monitored \in BOOLEAN,
               StartRun(dry, wants, monitored)
        PROVE  FALSE
    BY <1>3 DEF StartRun
  <1>4. ~ (GuestLives \/ Introspect \/ IntrospectRaises \/ Backup \/ TakeSnapshot)
    BY DEF GuestLives, Introspect, IntrospectRaises, Backup, TakeSnapshot
  <1>5. ~ (Alloy \/ OsUpdate \/ AppUpdate \/ Upgrade \/ RunSteps)
    BY DEF Alloy, OsUpdate, AppUpdate, Upgrade, RunSteps
  <1>6. ~ (RebootGuest \/ HealthCheck \/ ReportFlow \/ CallRaises)
    BY DEF RebootGuest, HealthCheck, ReportFlow, CallRaises, TrySteps, Updating
  <1>7. ~ (Poll \/ DeleteSnapshot \/ StopAgain)
    BY DEF Poll, DeleteSnapshot, StopAgain
  <1> QED
    BY <1>1, <1>2, <1>3, <1>4, <1>5, <1>6, <1>7 DEF FlowNext, Flow

\* A rollback takes the guest to where the present run found it.
THEOREM AlwaysRollbackToOwnBase == FlowSpec => RollbackToOwnBase
  <1>1. SnapshotInv /\ [FlowNext]_flowVars
          => [pc = "rescue" /\ pc' \in {"poll", "cleanup"} /\ disk' # disk
                => disk' = run.base]_flowVars
    BY StepsBackToBase
  <1> QED
    BY <1>1, FlowInductive, PTL DEF FlowSpec, RollbackToOwnBase

(***************************************************************************)
(* What goes wrong stays on record until the run's result.                 *)
(***************************************************************************)
\* Only a container goes on after a failed step, and then with an error; the other
\* flows leave for the rescue, which reports no success.
BrokenKnown ==
    /\ pc \in {"introspect", "backup", "snapshot", "alloy", "os", "upgrade", "steps"} => ~ run.broken
    /\ pc \in {"app", "reboot", "health", "report"} /\ run.broken => run.errors
    /\ BrokenMeansReported

LEMMA BrokenKept == FlowTypeOK /\ BrokenKnown /\ [FlowNext]_flowVars => BrokenKnown'
  <1> SUFFICES ASSUME FlowTypeOK, BrokenKnown, [FlowNext]_flowVars PROVE BrokenKnown'
    OBVIOUS
  <1>0. run \in Run /\ kind \in {"lxc", "vm", "custom"}
    BY UpdateAssumption DEF FlowTypeOK, RunKnown, Tags
  <1> USE DEF BrokenKnown, BrokenMeansReported, Closing
  <1>1. ASSUME NEW dry \in BOOLEAN, NEW wants \in BOOLEAN, NEW monitored \in BOOLEAN,
               StartRun(dry, wants, monitored)
        PROVE  BrokenKnown'
    <2>1. ~ run'.broken /\ pc' \in {"introspect", "backup"}
      BY <1>1 DEF StartRun, NoRun
    <2> QED
      BY <2>1
  <1>2. CASE GuestLives \/ TaskEnds
    BY <1>2 DEF GuestLives, TaskEnds
  <1>3. CASE Introspect
    <2>1. pc = "introspect" /\ pc' = "backup" /\ run'.broken = run.broken
      BY <1>0, <1>3 DEF Introspect, Run
    <2> QED
      BY <2>1
  <1>4. CASE IntrospectRaises
    BY <1>4 DEF IntrospectRaises
  <1>5. CASE Backup
    <2>1. pc = "backup" /\ pc' \in {"cleanup", "alloy", "snapshot"} /\ run'.broken = run.broken
      BY <1>0, <1>5 DEF Backup, Run
    <2> QED
      BY <2>1
  <1>6. CASE TakeSnapshot
    <2>1. pc = "snapshot" /\ pc' \in {"alloy", "snapshot"} /\ run'.broken = run.broken
      BY <1>0, <1>6 DEF TakeSnapshot, Run
    <2> QED
      BY <2>1
  <1>7. CASE Alloy
    <2>1. pc = "alloy" /\ pc' \in {"os", "upgrade", "steps"} /\ run' = run
      BY <1>0, <1>7 DEF Alloy
    <2> QED
      BY <2>1
  \* A failed step is an error, and an error is never taken back.
  <1>8. CASE OsUpdate \/ AppUpdate
    <2>1. PICK failed \in BOOLEAN :
            run'.errors = (run.errors \/ failed) /\ run'.broken = (run.broken \/ failed)
      BY <1>0, <1>8 DEF OsUpdate, AppUpdate, Run
    <2>2. pc \in {"os", "app"} /\ pc' \in {"app", "reboot"}
      BY <1>8 DEF OsUpdate, AppUpdate
    <2> QED
      BY <2>1, <2>2
  <1>9. CASE Upgrade \/ RunSteps
    <2>1. /\ pc \in {"upgrade", "steps"}
          /\ pc' = "rescue" \/ (pc' = "reboot" /\ run'.broken = run.broken)
      BY <1>0, <1>9 DEF Upgrade, RunSteps, Run
    <2> QED
      BY <2>1
  <1>10. CASE RebootGuest \/ HealthCheck
    <2>1. pc \in {"reboot", "health"} /\ pc' \in {"health", "report", "rescue"} /\ run' = run
      BY <1>10 DEF RebootGuest, HealthCheck
    <2> QED
      BY <2>1
  <1>11. CASE ReportFlow
    <2>1. /\ pc = "report" /\ pc' = "cleanup" /\ run'.broken = run.broken
          /\ run.errors => run'.status = "failed"
      BY <1>0, <1>11 DEF ReportFlow, Run
    <2> QED
      BY <2>1
  <1>12. CASE CallRaises
    BY <1>12 DEF CallRaises
  <1>13. CASE Rescue \/ Poll
    <2>1. pc' = "poll" \/ (pc' = "cleanup" /\ run'.status # "ok")
      BY <1>0, <1>13 DEF Rescue, Poll, Run
    <2> QED
      BY <2>1
  <1>14. CASE DeleteSnapshot
    BY <1>14 DEF DeleteSnapshot
  <1>15. CASE StopAgain \/ Killed
    BY <1>15 DEF StopAgain, Killed
  <1>16. CASE UNCHANGED flowVars
    BY <1>16 DEF flowVars
  <1> QED
    BY <1>1, <1>2, <1>3, <1>4, <1>5, <1>6, <1>7, <1>8, <1>9, <1>10, <1>11, <1>12, <1>13,
       <1>14, <1>15, <1>16 DEF FlowNext, Flow

\* Whether a failed step raised or was only put on record, no flow reports the run as a
\* success, whatever the snapshot, the rollback and the cleanup did.
THEOREM AlwaysBrokenReported == FlowSpec => []BrokenMeansReported
  <1>1. FlowInit => BrokenKnown
    BY DEF FlowInit, BrokenKnown, BrokenMeansReported, Closing
  <1>2. BrokenKnown => BrokenMeansReported
    BY DEF BrokenKnown
  <1> QED
    BY <1>1, <1>2, BrokenKept, FlowTypeCorrect, PTL DEF FlowSpec
=============================================================================
