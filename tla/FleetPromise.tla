---------------------------- MODULE FleetPromise ----------------------------
(***************************************************************************)
(* What a fleet run promises, whatever its threads, waves and phases do:   *)
(* every unit (a host, a container, a node, the manager) is dealt with at  *)
(* most once; phases do not overlap; the rest of a phase waits for its     *)
(* front, a dependent for what it needs; of the exclusive units one runs   *)
(* at a time and none after one failed; and the verdict comes last and     *)
(* calls a failure a failure.                                              *)
(***************************************************************************)
EXTENDS Integers

CONSTANTS Units,
          Rank,       \* [Units -> Int]: the phase of a unit
          Exclusive   \* units of which one runs at a time

VARIABLES
    front, needs,  \* fixed by the request: units that go first, what a unit needs
    deed,          \* what became of each unit
    verdict        \* of the run

promiseVars == <<front, needs, deed, verdict>>

Settled == {"done", "failed", "skipped"}

PromiseTypeOK ==
    /\ front \subseteq Units /\ needs \in [Units -> SUBSET Units]
    /\ deed \in [Units -> Settled \cup {"waiting", "running"}]
    /\ verdict \in {"none", "ok", "failed", "aborted"}

PromiseInit ==
    /\ front \subseteq Units /\ needs \in [Units -> SUBSET Units]
    /\ deed \in [Units -> {"waiting", "skipped"}] /\ verdict = "none"

MayBegin(u) ==
    /\ deed[u] = "waiting"
    /\ \A v \in Units : Rank[v] < Rank[u] => deed[v] \in Settled
    /\ u \notin front =>
         \A v \in front : Rank[v] = Rank[u] => deed[v] \in {"done", "skipped"}
    /\ \A v \in needs[u] \ {u} : deed[v] \in {"done", "skipped"}
    /\ u \in Exclusive => \A v \in Exclusive : deed[v] \notin {"running", "failed"}

Start(u) ==
    /\ MayBegin(u) /\ deed' = [deed EXCEPT ![u] = "running"]
    /\ UNCHANGED <<front, needs, verdict>>

Finish(u) ==
    /\ deed[u] = "running" \/ MayBegin(u)
    /\ \E d \in {"done", "failed"} : deed' = [deed EXCEPT ![u] = d]
    /\ UNCHANGED <<front, needs, verdict>>

\* Running units may be found to be out of reach, waiting ones may be left out.
Skip ==
    /\ \E S \in SUBSET {u \in Units : deed[u] \notin Settled} :
         deed' = [u \in Units |-> IF u \in S THEN "skipped" ELSE deed[u]]
    /\ UNCHANGED <<front, needs, verdict>>

Conclude ==
    /\ verdict = "none"
    /\ \/ /\ \A u \in Units : deed[u] \in Settled
          /\ verdict' \in IF \E u \in Units : deed[u] = "failed" THEN {"failed"} ELSE {"ok", "failed"}
       \/ /\ \A u \in Units : deed[u] # "running"
          /\ verdict' = "aborted"
    /\ UNCHANGED <<front, needs, deed>>

PromiseNext == Skip \/ Conclude \/ \E u \in Units : Start(u) \/ Finish(u)

PromiseSpec == PromiseInit /\ [][PromiseNext]_promiseVars

PromiseVerdict == verdict = "ok" => \A u \in Units : deed[u] \in {"done", "skipped"}
=============================================================================
