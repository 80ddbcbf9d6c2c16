-------------------------- MODULE Retention_proofs --------------------------
(***************************************************************************)
(* Theorems about what removes lines of a guest: Retention, for every      *)
(* number of paths, inodes, source rows and files per call, and            *)
(* NativeRetention, for any stanzas and configurations and any number of   *)
(* faults and changes.                                                     *)
(***************************************************************************)
EXTENDS Retention, NativeRetention, TLAPS

(***************************************************************************)
(* Every action keeps the types of the state.                              *)
(***************************************************************************)
LEMMA TypeInit == Init => TypeOK
  <1> SUFFICES ASSUME Init PROVE TypeOK
    OBVIOUS
  <1> USE RetentionAssumption
  <1>1. NoCall \in [spec : Spec1, blocked : BOOLEAN]
    BY DEF NoCall, NoSpec, Spec1, Paths, Inodes
  <1>2. intent \in [Ids -> Intent]
    BY DEF Init, Intent, States
  <1>3. row \in [Sources -> Row]
    BY DEF Init, Row, NoRow
  <1> QED
    BY <1>1, <1>2, <1>3 DEF Init, TypeOK, Version

LEMMA GuestTypes == TypeOK /\ Guest => TypeOK'
  <1> SUFFICES ASSUME TypeOK, Guest PROVE TypeOK'
    OBVIOUS
  <1> USE DEF TypeOK, GuestOnly
  <1>1. ASSUME NEW p \in Paths, NEW i \in Inodes, Create(p, i) PROVE TypeOK'
    BY <1>1 DEF Create, Version
  <1>2. ASSUME NEW i \in Inodes, OpenWriter(i) PROVE TypeOK'
    BY <1>2 DEF OpenWriter
  <1>3. ASSUME NEW i \in Inodes, CloseWriter(i) PROVE TypeOK'
    BY <1>3 DEF CloseWriter
  <1>4. ASSUME NEW i \in Inodes, WriteLog(i) PROVE TypeOK'
    BY <1>4 DEF WriteLog, Version
  <1>5. ASSUME NEW p \in Paths, Rotate(p) PROVE TypeOK'
    BY <1>5, RetentionAssumption DEF Rotate, Paths
  <1>6. ASSUME NEW p \in Paths, RemoveLog(p) PROVE TypeOK'
    BY <1>6 DEF RemoveLog
  <1> QED
    BY <1>1, <1>2, <1>3, <1>4, <1>5, <1>6 DEF Guest

\* What an import records is a row and a coverage entry.
LEMMA ImportTypes ==
  ASSUME TypeOK, NEW p \in Paths, ImportFile(p)
  PROVE  TypeOK'
  <1> DEFINE i   == orig[p]
             now == [path |-> p, ino |-> i, stat |-> data[i].stat, body |-> data[i].body]
  <1>1. i \in Inodes
    BY DEF TypeOK, ImportFile, NoFile
  <1>2. now \in Row /\ Row = [path : Nat, ino : Nat, stat : Nat, body : Nat]
    BY <1>1 DEF TypeOK, Row, Paths, Inodes, Version
  <1>3. \A m \in MatchRow(p, i) : m \in Sources
    BY DEF MatchRow, Newest
  <1>4. PICK s \in Sources, r \in Row :
          /\ row' = [row EXCEPT ![s] = r]
          /\ covered' = covered \cup
               {[path |-> p, ino |-> i, stat |-> r.stat, body |-> r.body,
                 src |-> s, recovery |-> FALSE]}
          /\ archived' \in {archived, archived \cup {now.body}}
    <2>1. CASE \E m \in MatchRow(p, i) :
                 /\ row[m].stat = now.stat
                 /\ row' = [row EXCEPT ![m] = [now EXCEPT !.body = row[m].body]]
                 /\ covered' = covered \cup
                      {[path |-> p, ino |-> i, stat |-> [now EXCEPT !.body = row[m].body].stat,
                        body |-> [now EXCEPT !.body = row[m].body].body,
                        src |-> m, recovery |-> FALSE]}
                 /\ UNCHANGED archived
      <3>1. PICK m \in MatchRow(p, i) :
                 /\ row' = [row EXCEPT ![m] = [now EXCEPT !.body = row[m].body]]
                 /\ covered' = covered \cup
                      {[path |-> p, ino |-> i, stat |-> [now EXCEPT !.body = row[m].body].stat,
                        body |-> [now EXCEPT !.body = row[m].body].body,
                        src |-> m, recovery |-> FALSE]}
                 /\ UNCHANGED archived
        BY <2>1
      <3>2. [now EXCEPT !.body = row[m].body] \in Row
        BY <1>2, <1>3 DEF TypeOK, Row
      <3> QED
        BY <3>1, <3>2, <1>3
    <2>2. CASE \E m \in MatchRow(p, i) :
                 /\ row' = [row EXCEPT ![m] = now]
                 /\ covered' = covered \cup
                      {[path |-> p, ino |-> i, stat |-> now.stat, body |-> now.body,
                        src |-> m, recovery |-> FALSE]}
                 /\ archived' = archived \cup {now.body}
      BY <2>2, <1>2, <1>3
    <2>3. CASE \E s \in Sources :
                 /\ row' = [row EXCEPT ![s] = now]
                 /\ covered' = covered \cup
                      {[path |-> p, ino |-> i, stat |-> now.stat, body |-> now.body,
                        src |-> s, recovery |-> FALSE]}
                 /\ archived' = archived \cup {now.body}
      BY <2>3, <1>2
    <2> QED
      BY <2>1, <2>2, <2>3 DEF ImportFile
  <1>5. row' \in [Sources -> Row]
    BY <1>4 DEF TypeOK
  <1>6. covered' \subseteq Spec1
    <2>1. s \in Nat /\ r.stat \in Nat /\ r.body \in Nat
      BY RetentionAssumption DEF Sources, Row
    <2>2. [path |-> p, ino |-> i, stat |-> r.stat, body |-> r.body,
           src |-> s, recovery |-> FALSE] \in Spec1
      BY <1>1, <2>1 DEF Spec1
    <2> QED
      BY <1>4, <2>2 DEF TypeOK
  <1>7. archived' \subseteq Nat
    BY <1>2, <1>4 DEF TypeOK, Row
  <1> QED
    BY <1>5, <1>6, <1>7 DEF ImportFile, TypeOK

LEMMA ManagerTypes == TypeOK /\ Manager => TypeOK'
  <1> SUFFICES ASSUME TypeOK, Manager PROVE TypeOK'
    OBVIOUS
  <1>1. CASE StartRun
    BY <1>1 DEF StartRun, TypeOK
  <1>2. CASE EndImport
    BY <1>2 DEF EndImport, TypeOK, OpenIntents
  <1>3. CASE RecoverChunk
    <2>1. \A d \in Ids : RecoverySpec(d) \in Spec1
      BY DEF RecoverySpec, Spec1, TypeOK, Ids, Intent
    <2> QED
      BY <1>3, <2>1 DEF RecoverChunk, TypeOK
  <1>4. CASE RecoverDone
    BY <1>4 DEF RecoverDone, TypeOK
  <1>5. CASE PlanChunk
    BY <1>5 DEF PlanChunk, TypeOK
  <1>6. CASE CallPrune
    BY <1>6 DEF CallPrune, TypeOK
  <1>7. CASE BatchDone
    BY <1>7 DEF BatchDone, TypeOK
  <1>8. CASE EndRun
    BY <1>8 DEF EndRun, TypeOK
  <1>9. ASSUME NEW p \in Paths, ImportFile(p) PROVE TypeOK'
    BY <1>9, ImportTypes
  <1>10. ASSUME NEW s \in unrecorded, RecordIntent(s) PROVE TypeOK'
    <2>1. s \in Spec1 /\ IdOf(s) \in Ids
      BY DEF TypeOK, IdOf, Ids, Spec1
    <2>2. [state |-> "pending", stat |-> s.stat, body |-> s.body, src |-> s.src,
           missing |-> FALSE] \in Intent
      BY <2>1 DEF Spec1, Intent, States
    <2>3. intent' \in [Ids -> Intent]
      BY <1>10, <2>1, <2>2 DEF RecordIntent, TypeOK
    <2> QED
      BY <1>10, <2>3 DEF RecordIntent, TypeOK
  <1>11. ASSUME NEW o \in reply, Resolve(o) PROVE TypeOK'
    <2>1. o \in Outcome /\ IdOf(o.spec) \in Ids
      BY DEF TypeOK, Outcome, IdOf, Ids, Spec1
    <2>2. intent' \in [Ids -> Intent]
      <3>1. CASE UNCHANGED intent
        BY <3>1 DEF TypeOK
      <3>2. CASE /\ o.state \in {"done", "restored", "conflict", "absent"}
                 /\ intent' = [intent EXCEPT ![IdOf(o.spec)].state = o.state,
                                             ![IdOf(o.spec)].missing = o.missing]
        BY <2>1, <3>2 DEF TypeOK, Intent, States, Outcome
      <3> QED
        BY <1>11, <3>1, <3>2 DEF Resolve
    <2>3. failed' \in BOOLEAN
      BY <1>11 DEF Resolve, TypeOK
    <2> QED
      BY <1>11, <2>2, <2>3 DEF Resolve, TypeOK
  <1>12. ASSUME NEW s \in Sources, PurgeTombstone(s) PROVE TypeOK'
    BY <1>12 DEF PurgeTombstone, TypeOK, Row, NoRow
  <1> QED
    BY <1>1, <1>2, <1>3, <1>4, <1>5, <1>6, <1>7, <1>8, <1>9, <1>10, <1>11, <1>12
    DEF Manager

(***************************************************************************)
(* The inductive invariant.  A proof of coverage carried anywhere (a row,  *)
(* an approved file, a file of a batch or of a helper call) is of archived *)
(* bytes; an inode is linked at one place at most; and what the helper has *)
(* established about the file in quarantine stays true until it unlinks.   *)
(***************************************************************************)
ProofsArchived ==
    /\ \A s \in Sources : row[s].ino # NoFile => row[s].body \in archived
    /\ \A c \in covered \cup batch \cup unrecorded \cup hwait : c.body \in archived
    /\ hpc \notin {"idle", "pick"} => hcur.spec.body \in archived

LinkedOnce ==
    /\ \A p, q \in Paths : orig[p] = orig[q] /\ orig[p] # NoFile => p = q
    /\ \A p, q \in Paths : quar[p] = quar[q] /\ quar[p] # NoFile => p = q
    /\ \A p, q \in Paths : orig[p] = quar[q] => orig[p] = NoFile

HelperKnows ==
    LET s == hcur.spec IN
    /\ hpc \in {"hash", "unlink", "leftscan", "lefthash", "leftunlink"}
         => quar[s.path] = s.ino
    /\ hpc \in {"hash", "unlink", "lefthash", "leftunlink"} => ~ writer[s.ino]
    /\ hpc \in {"unlink", "leftunlink"} => data[s.ino].body = s.body

IInv == TypeOK /\ ProofsArchived /\ LinkedOnce /\ HelperKnows /\ NoUnarchivedErase

LEMMA HelperTypes == TypeOK /\ HelperKnows /\ Helper => TypeOK'
  <1> SUFFICES ASSUME TypeOK, HelperKnows, Helper PROVE TypeOK'
    OBVIOUS
  <1> DEFINE cur == hcur.spec
  <1>1. cur \in Spec1 /\ cur.path \in Paths /\ cur.ino \in Inodes /\ hcur.blocked \in BOOLEAN
    BY DEF TypeOK, Spec1
  <1>2. NoCall \in [spec : Spec1, blocked : BOOLEAN]
    BY RetentionAssumption DEF NoCall, NoSpec, Spec1, Paths, Inodes
  <1> DEFINE CallTypes == /\ hpc' \in {"idle", "pick", "rename", "scan", "hash", "unlink",
                                        "restore", "restoring", "leftscan", "lefthash",
                                        "leftunlink"}
                         /\ hcur' \in [spec : Spec1, blocked : BOOLEAN]
                         /\ hwait' \subseteq Spec1
                         /\ outcome' \subseteq Outcome
  <1>3. ASSUME NEW s \in Spec1, NEW state \in Verdicts, NEW missing \in BOOLEAN,
               NEW stop \in BOOLEAN, ReportAnd(s, state, missing, stop)
        PROVE  CallTypes
    <2>1. \A r \in Spec1, v \in Verdicts, b \in BOOLEAN :
            [spec |-> r, state |-> v, missing |-> b] \in Outcome
      BY DEF Outcome
    <2>2. "pending" \in Verdicts
      BY DEF Verdicts
    <2> DEFINE rest == IF stop THEN hwait \ {s} ELSE {}
    <2>3. rest \subseteq Spec1
      BY DEF TypeOK
    <2>4. {[spec |-> r, state |-> "pending", missing |-> FALSE] : r \in rest} \subseteq Outcome
      BY <2>1, <2>2, <2>3
    <2>5. [spec |-> s, state |-> state, missing |-> missing] \in Outcome
      BY <2>1
    <2>6. /\ outcome' = outcome \cup {[spec |-> s, state |-> state, missing |-> missing]}
                \cup {[spec |-> r, state |-> "pending", missing |-> FALSE] : r \in rest}
          /\ hwait' = hwait \ ({s} \cup rest)
          /\ hpc' = "pick" /\ hcur' = NoCall
      BY <1>3 DEF ReportAnd
    <2> HIDE DEF rest
    <2> QED
      BY <1>2, <2>4, <2>5, <2>6 DEF TypeOK
  <1>4. ASSUME NEW s \in Spec1, NEW state \in Verdicts, NEW missing \in BOOLEAN,
               Report(s, state, missing)
        PROVE  CallTypes
    BY <1>3, <1>4 DEF Report
  <1>5. ASSUME NEW s \in Spec1, NEW blocked \in BOOLEAN,
               NEW step \in {"rename", "scan", "hash", "unlink", "restore", "restoring",
                             "leftscan", "lefthash", "leftunlink"},
               GoTo(step, s, blocked)
        PROVE  CallTypes
    BY <1>5 DEF GoTo, TypeOK
  <1>6. {"done", "restored", "conflict", "absent", "blocked", "pending"} = Verdicts
    BY DEF Verdicts
  <1> HIDE DEF cur, CallTypes
  <1> DEFINE Files == /\ orig' \in [Paths -> Inodes \cup {NoFile}]
                     /\ quar' \in [Paths -> Inodes \cup {NoFile}]
                     /\ erased' \subseteq Nat
                     /\ clobbered' \subseteq Nat
  <1>7. ASSUME CallTypes, Files, HelperOnly PROVE TypeOK'
    BY <1>7 DEF TypeOK, CallTypes, HelperOnly
  <1>8. ASSUME UNCHANGED <<orig, quar>>, UNCHANGED seen PROVE Files
    BY <1>8 DEF TypeOK, seen
  <1>9. \A i \in Inodes : data[i].body \in Nat
    BY DEF TypeOK, Version
  <1> HIDE DEF Files
  <1>10. ASSUME NEW s \in hwait, HPick(s) PROVE TypeOK'
    <2>1. s \in Spec1
      BY DEF TypeOK
    <2>2. CallTypes
      BY <1>10, <2>1, <1>4, <1>5, <1>6 DEF HPick
    <2> QED
      BY <1>10, <2>2, <1>7, <1>8 DEF HPick
  <1>11. CASE HRename
    <2>1. CallTypes
      BY <1>11, <1>1, <1>4, <1>5, <1>6 DEF HRename, cur
    <2>2. Files
      <3>1. orig \in [Paths -> Inodes \cup {NoFile}] /\ quar \in [Paths -> Inodes \cup {NoFile}]
        BY DEF TypeOK
      <3>2. UNCHANGED seen
        BY <1>11 DEF HRename
      <3>3. CASE UNCHANGED <<orig, quar>>
        BY <3>2, <3>3, <1>8
      <3>4. CASE /\ quar' = [quar EXCEPT ![cur.path] = orig[cur.path]]
                 /\ orig' = [orig EXCEPT ![cur.path] = NoFile]
        <4>1. erased' \subseteq Nat /\ clobbered' \subseteq Nat
          BY <3>2 DEF TypeOK, seen
        <4> QED
          BY <3>1, <3>4, <4>1, <1>1 DEF Files
      <3> QED
        BY <1>11, <3>3, <3>4 DEF HRename, cur
    <2> QED
      BY <1>11, <2>1, <2>2, <1>7 DEF HRename
  <1>12. CASE HScan
    BY <1>12, <1>1, <1>5, <1>7, <1>8 DEF HScan, cur
  <1>13. CASE HHash
    BY <1>13, <1>1, <1>5, <1>7, <1>8 DEF HHash, cur
  <1>14. CASE HLeftScan
    BY <1>14, <1>1, <1>4, <1>5, <1>6, <1>7, <1>8 DEF HLeftScan, cur
  <1>15. CASE HLeftHash
    BY <1>15, <1>1, <1>4, <1>5, <1>6, <1>7, <1>8 DEF HLeftHash, cur
  <1>16. CASE HUnlink
    <2>1. CallTypes
      BY <1>16, <1>1, <1>3, <1>4, <1>5, <1>6 DEF HUnlink, cur
    <2>2. quar[cur.path] \in Inodes
      BY <1>16, <1>1 DEF HUnlink, HelperKnows, cur
    <2>3. Files
      BY <1>16, <1>1, <1>8, <1>9, <2>2 DEF HUnlink, Files, TypeOK, seen, cur
    <2> QED
      BY <1>16, <2>1, <2>3, <1>7 DEF HUnlink
  <1>17. CASE HRestore
    <2>1. CallTypes
      BY <1>17, <1>1, <1>4, <1>5, <1>6 DEF HRestore, cur
    <2> QED
      BY <1>17, <2>1, <1>7, <1>8 DEF HRestore
  <1>18. CASE HRestoring
    <2>1. CallTypes
      BY <1>18, <1>1, <1>4, <1>6 DEF HRestoring, cur
    <2>2. Files
      BY <1>18, <1>1, <1>8, <1>9 DEF HRestoring, Files, TypeOK, seen, cur
    <2> QED
      BY <1>18, <2>1, <2>2, <1>7 DEF HRestoring
  <1>19. CASE HFinish
    BY <1>19 DEF HFinish, TypeOK
  <1>20. CASE HDie
    BY <1>20, <1>2 DEF HDie, HelperOnly, TypeOK
  <1> QED
    BY <1>10, <1>11, <1>12, <1>13, <1>14, <1>15, <1>16, <1>17, <1>18, <1>19, <1>20 DEF Helper

(***************************************************************************)
(* Every action preserves the three parts of the inductive invariant.      *)
(***************************************************************************)
LEMMA GuestKeeps ==
  ASSUME IInv, Guest
  PROVE  ProofsArchived' /\ LinkedOnce' /\ HelperKnows' /\ NoUnarchivedErase'
  <1> USE DEF IInv, TypeOK, GuestOnly
  <1>1. ProofsArchived' /\ NoUnarchivedErase'
    BY DEF Guest, Create, OpenWriter, CloseWriter, WriteLog, Rotate, RemoveLog,
           ProofsArchived, NoUnarchivedErase
  <1>2. LinkedOnce'
    <2>1. ASSUME NEW p \in Paths, NEW i \in Inodes, Create(p, i) PROVE LinkedOnce'
      BY <2>1 DEF Create, LinkedOnce, Linked, Inodes, NoFile
    <2>2. ASSUME NEW i \in Inodes, OpenWriter(i) \/ CloseWriter(i) \/ WriteLog(i)
          PROVE LinkedOnce'
      BY <2>2 DEF OpenWriter, CloseWriter, WriteLog, LinkedOnce
    <2>3. ASSUME NEW p \in Paths, Rotate(p) PROVE LinkedOnce'
      BY <2>3 DEF Rotate, LinkedOnce, Paths
    <2>4. ASSUME NEW p \in Paths, RemoveLog(p) PROVE LinkedOnce'
      BY <2>4 DEF RemoveLog, LinkedOnce
    <2> QED
      BY <2>1, <2>2, <2>3, <2>4 DEF Guest
  <1>3. HelperKnows'
    <2> DEFINE s == hcur.spec
    <2>1. s.path \in Paths /\ s.ino \in Inodes /\ s.ino # NoFile
      BY DEF Spec1, Inodes, NoFile
    <2>2. quar' = quar /\ hcur' = hcur /\ hpc' = hpc
      BY DEF Guest, Create, OpenWriter, CloseWriter, WriteLog, Rotate, RemoveLog
    <2>3. ASSUME quar[s.path] = s.ino PROVE \A p \in Paths : orig[p] # s.ino
      BY <2>1, <2>3 DEF LinkedOnce
    <2>4. ASSUME quar[s.path] = s.ino, ~ writer[s.ino]
          PROVE  writer'[s.ino] = FALSE /\ data'[s.ino] = data[s.ino]
      <3>1. ASSUME NEW p \in Paths, NEW i \in Inodes, Create(p, i) PROVE i # s.ino
        BY <2>1, <2>4, <3>1 DEF Create, Linked
      <3>2. ASSUME NEW i \in Inodes, OpenWriter(i) PROVE i # s.ino
        BY <2>3, <2>4, <3>2 DEF OpenWriter
      <3>3. ASSUME NEW i \in Inodes, WriteLog(i) PROVE i # s.ino
        BY <2>4, <3>3 DEF WriteLog
      <3> QED
        BY <2>1, <2>4, <3>1, <3>2, <3>3
        DEF Guest, Create, OpenWriter, CloseWriter, WriteLog, Rotate, RemoveLog
    <2> QED
      BY <2>2, <2>4 DEF HelperKnows
  <1> QED
    BY <1>1, <1>2, <1>3

\* A row is written only with bytes that Loki acknowledges in the same import
\* or that it already held for that inode.
LEMMA ImportKeeps ==
  ASSUME IInv, NEW p \in Paths, ImportFile(p)
  PROVE  ProofsArchived'
  <1> DEFINE i   == orig[p]
             now == [path |-> p, ino |-> i, stat |-> data[i].stat, body |-> data[i].body]
  <1>1. i # NoFile
    BY DEF ImportFile
  <1>2. \A m \in MatchRow(p, i) : m \in Sources /\ row[m].ino = i
    BY DEF MatchRow, Newest
  <1>3. PICK s, r :
          /\ s \in Sources
          /\ row' = [row EXCEPT ![s] = r]
          /\ covered' = covered \cup
               {[path |-> p, ino |-> i, stat |-> r.stat, body |-> r.body,
                 src |-> s, recovery |-> FALSE]}
          /\ archived \subseteq archived' /\ r.body \in archived'
    <2>1. ASSUME NEW m \in MatchRow(p, i) PROVE row[m].body \in archived
      BY <1>1, <1>2 DEF IInv, ProofsArchived
    <2> DEFINE Keep(s, r) ==
                 /\ row' = [row EXCEPT ![s] = r]
                 /\ covered' = covered \cup
                      {[path |-> p, ino |-> i, stat |-> r.stat, body |-> r.body,
                        src |-> s, recovery |-> FALSE]}
    <2>2. CASE \E m \in MatchRow(p, i) :
                 Keep(m, [now EXCEPT !.body = row[m].body]) /\ UNCHANGED archived
      <3>1. PICK m \in MatchRow(p, i) :
                 Keep(m, [now EXCEPT !.body = row[m].body]) /\ UNCHANGED archived
        BY <2>2
      <3>2. [now EXCEPT !.body = row[m].body].body = row[m].body
        OBVIOUS
      <3> QED
        BY <1>2, <2>1, <3>1, <3>2
    <2>3. CASE \E m \in Sources :
                 Keep(m, now) /\ archived' = archived \cup {now.body}
      BY <2>3
    <2> QED
      BY <1>2, <2>2, <2>3 DEF ImportFile
  <1>4. \A t \in Sources : row'[t].ino # NoFile => row'[t].body \in archived'
    BY <1>3 DEF IInv, TypeOK, ProofsArchived
  <1>5. \A c \in covered' : c.body \in archived'
    BY <1>3 DEF IInv, ProofsArchived
  <1>6. UNCHANGED <<batch, unrecorded, hwait, hpc, hcur>>
    BY DEF ImportFile
  <1> QED
    BY <1>3, <1>4, <1>5, <1>6 DEF IInv, ProofsArchived

LEMMA ManagerKeeps ==
  ASSUME IInv, Manager
  PROVE  ProofsArchived' /\ LinkedOnce' /\ HelperKnows' /\ NoUnarchivedErase'
  <1> DEFINE Acts == \/ StartRun \/ EndImport \/ RecoverChunk \/ RecoverDone
                     \/ PlanChunk \/ CallPrune \/ BatchDone \/ EndRun
                     \/ \E p \in Paths : ImportFile(p)
                     \/ \E s \in unrecorded : RecordIntent(s)
                     \/ \E o \in reply : Resolve(o)
                     \/ \E s \in Sources : PurgeTombstone(s)
  <1>1. Acts
    BY DEF Manager
  <1> USE DEF StartRun, EndImport, RecoverDone, PlanChunk, CallPrune, BatchDone, EndRun,
              RecordIntent, Resolve, PurgeTombstone
  <1>2. UNCHANGED <<orig, quar, data, writer, hcur, erased>> /\ archived \subseteq archived'
    BY <1>1 DEF RecoverChunk, ImportFile
  <1>3. LinkedOnce'
    BY <1>2 DEF IInv, LinkedOnce
  <1>4. NoUnarchivedErase'
    BY <1>2 DEF IInv, NoUnarchivedErase
  <1>5. hpc' = hpc \/ hpc' = "pick"
    BY <1>1 DEF RecoverChunk, ImportFile
  <1>6. HelperKnows'
    BY <1>2, <1>5 DEF IInv, HelperKnows
  <1>7. ProofsArchived'
    <2>1. CASE \E p \in Paths : ImportFile(p)
      BY <2>1, ImportKeeps
    <2>2. CASE RecoverChunk
      <3>1. \A d \in Ids : Provable(d) => RecoverySpec(d).body \in archived
        BY DEF Provable, RecoverySpec, IInv, ProofsArchived, Ids, Inodes, NoFile
      <3>2. \A c \in batch' : c.body \in archived
        BY <2>2, <3>1 DEF RecoverChunk, IInv, TypeOK
      <3> QED
        BY <2>2, <3>2 DEF RecoverChunk, IInv, ProofsArchived
    <2>3. CASE \E s \in Sources : PurgeTombstone(s)
      BY <2>3 DEF IInv, TypeOK, ProofsArchived, NoRow, NoFile
    <2>4. CASE StartRun \/ EndImport \/ RecoverDone \/ PlanChunk \/ CallPrune
               \/ BatchDone \/ EndRun
      BY <2>4 DEF IInv, ProofsArchived
    <2>5. CASE (\E s \in unrecorded : RecordIntent(s)) \/ (\E o \in reply : Resolve(o))
      BY <2>5 DEF IInv, ProofsArchived
    <2> QED
      BY <1>1, <2>1, <2>2, <2>3, <2>4, <2>5
  <1> QED
    BY <1>3, <1>4, <1>6, <1>7

LEMMA HelperKeeps ==
  ASSUME IInv, Helper
  PROVE  ProofsArchived' /\ LinkedOnce' /\ HelperKnows' /\ NoUnarchivedErase'
  <1> DEFINE cur == hcur.spec
  <1> USE DEF IInv
  <1>1. cur \in Spec1 /\ cur.path \in Paths /\ cur.ino \in Inodes /\ cur.ino # NoFile
    BY DEF TypeOK, Spec1, Inodes, NoFile
  <1>2. UNCHANGED <<row, archived, covered, batch, unrecorded, data, writer>>
    BY DEF Helper, HPick, HRename, HScan, HHash, HLeftScan, HLeftHash, HUnlink,
           HRestore, HRestoring, HFinish, HDie, HelperOnly
  \* A step either ends with the file (a report, the end of the call) or goes on
  \* with it to a later step; it never looks at a file the manager did not name.
  <1>3. ASSUME NEW s, NEW state, NEW missing, NEW stop, ReportAnd(s, state, missing, stop)
        PROVE  hpc' = "pick" /\ hwait' \subseteq hwait
    BY <1>3 DEF ReportAnd
  <1>4. ASSUME NEW s, NEW state, NEW missing, Report(s, state, missing)
        PROVE  hpc' = "pick" /\ hwait' \subseteq hwait
    BY <1>3, <1>4 DEF Report
  <1>5. ASSUME NEW step, NEW s, NEW blocked, GoTo(step, s, blocked)
        PROVE  hpc' = step /\ hcur'.spec = s /\ hwait' = hwait
    BY <1>5 DEF GoTo
  <1>6. ASSUME hwait' \subseteq hwait,
               \/ hpc' \in {"idle", "pick"}
               \/ hcur'.spec.body \in archived
        PROVE  ProofsArchived'
    BY <1>2, <1>6 DEF ProofsArchived
  <1>7. ASSUME hpc' \in {"idle", "pick", "rename", "scan", "restore", "restoring"}
        PROVE  HelperKnows'
    BY <1>7 DEF HelperKnows
  <1>8. ASSUME UNCHANGED <<orig, quar>> PROVE LinkedOnce'
    BY <1>8 DEF LinkedOnce
  <1>9. ASSUME UNCHANGED erased PROVE NoUnarchivedErase'
    BY <1>2, <1>9 DEF NoUnarchivedErase
  <1> HIDE DEF cur
  <1>10. ASSUME NEW s \in hwait, HPick(s)
         PROVE  ProofsArchived' /\ LinkedOnce' /\ HelperKnows' /\ NoUnarchivedErase'
    <2>1. s.body \in archived
      BY DEF ProofsArchived
    <2>2. \/ hpc' = "pick" /\ hwait' \subseteq hwait
          \/ hpc' = "rename" /\ hcur'.spec = s /\ hwait' = hwait
          \/ /\ hpc' = "leftscan" /\ hcur'.spec = s /\ hwait' = hwait
             /\ quar[s.path] = s.ino
      BY <1>10, <1>4, <1>5 DEF HPick
    <2>4. ProofsArchived'
      BY <2>1, <2>2, <1>6
    <2>5. UNCHANGED <<orig, quar>> /\ UNCHANGED erased
      BY <1>10 DEF HPick, seen
    <2>6. HelperKnows'
      BY <2>2, <2>5 DEF HelperKnows
    <2> QED
      BY <2>4, <2>5, <2>6, <1>8, <1>9
  <1>11. CASE HRename
    <2>1. \/ hpc' = "pick" /\ hwait' \subseteq hwait
          \/ hpc' = "scan" /\ hcur'.spec = cur /\ hwait' = hwait
      BY <1>11, <1>4, <1>5 DEF HRename, cur
    <2>2. ProofsArchived'
      BY <1>11, <2>1, <1>6 DEF HRename, ProofsArchived, cur
    <2>3. LinkedOnce'
      <3>1. CASE UNCHANGED <<orig, quar>>
        BY <3>1, <1>8
      <3>2. CASE /\ orig[cur.path] # NoFile
                 /\ quar' = [quar EXCEPT ![cur.path] = orig[cur.path]]
                 /\ orig' = [orig EXCEPT ![cur.path] = NoFile]
        BY <3>2, <1>1 DEF LinkedOnce, TypeOK
      <3> QED
        BY <1>11, <3>1, <3>2 DEF HRename, cur
    <2>4. HelperKnows' /\ NoUnarchivedErase'
      BY <1>11, <2>1, <1>7, <1>9 DEF HRename, seen
    <2> QED
      BY <2>2, <2>3, <2>4
  <1>12. CASE HScan
    <2>1. /\ \/ /\ hpc' = "hash" /\ hcur'.spec = cur /\ hwait' = hwait
                /\ quar[cur.path] = cur.ino /\ ~ writer[cur.ino]
             \/ hpc' = "restore" /\ hcur'.spec = cur /\ hwait' = hwait
          /\ UNCHANGED <<orig, quar>> /\ UNCHANGED erased
      BY <1>12, <1>5 DEF HScan, cur, seen
    <2>2. ProofsArchived'
      BY <1>12, <2>1, <1>6 DEF HScan, ProofsArchived, cur
    <2>3. HelperKnows'
      BY <2>1, <1>2 DEF HelperKnows
    <2> QED
      BY <2>1, <2>2, <2>3, <1>8, <1>9
  <1>13. CASE HHash
    <2>1. /\ \/ /\ hpc' = "unlink" /\ hcur'.spec = cur /\ hwait' = hwait
                /\ data[cur.ino].body = cur.body
             \/ hpc' = "restore" /\ hcur'.spec = cur /\ hwait' = hwait
          /\ UNCHANGED <<orig, quar>> /\ UNCHANGED erased
      BY <1>13, <1>5 DEF HHash, cur, seen
    <2>2. ProofsArchived'
      BY <1>13, <2>1, <1>6 DEF HHash, ProofsArchived, cur
    <2>3. HelperKnows'
      BY <1>13, <2>1, <1>2 DEF HHash, HelperKnows, cur
    <2> QED
      BY <2>1, <2>2, <2>3, <1>8, <1>9
  <1>14. CASE HLeftScan
    <2>1. /\ \/ hpc' = "pick" /\ hwait' \subseteq hwait
             \/ /\ hpc' = "lefthash" /\ hcur'.spec = cur /\ hwait' = hwait
                /\ ~ writer[cur.ino]
          /\ UNCHANGED <<orig, quar>> /\ UNCHANGED erased
      BY <1>14, <1>4, <1>5 DEF HLeftScan, cur, seen
    <2>2. ProofsArchived'
      BY <1>14, <2>1, <1>6 DEF HLeftScan, ProofsArchived, cur
    <2>3. HelperKnows'
      BY <1>14, <2>1, <1>2 DEF HLeftScan, HelperKnows, cur
    <2> QED
      BY <2>1, <2>2, <2>3, <1>8, <1>9
  <1>15. CASE HLeftHash
    <2>1. /\ \/ hpc' = "pick" /\ hwait' \subseteq hwait
             \/ /\ hpc' = "leftunlink" /\ hcur'.spec = cur /\ hwait' = hwait
                /\ data[cur.ino].body = cur.body
          /\ UNCHANGED <<orig, quar>> /\ UNCHANGED erased
      BY <1>15, <1>4, <1>5 DEF HLeftHash, cur, seen
    <2>2. ProofsArchived'
      BY <1>15, <2>1, <1>6 DEF HLeftHash, ProofsArchived, cur
    <2>3. HelperKnows'
      BY <1>15, <2>1, <1>2 DEF HLeftHash, HelperKnows, cur
    <2> QED
      BY <2>1, <2>2, <2>3, <1>8, <1>9
  <1>16. CASE HUnlink
    <2>1. cur.body \in archived /\ quar[cur.path] = cur.ino /\ data[cur.ino].body = cur.body
      BY <1>16 DEF HUnlink, HelperKnows, ProofsArchived, cur
    <2>2. \/ hpc' = "pick" /\ hwait' \subseteq hwait
          \/ hpc' = "restore" /\ hcur'.spec = cur /\ hwait' = hwait
      BY <1>16, <1>3, <1>4, <1>5 DEF HUnlink, cur
    <2>3. ProofsArchived' /\ HelperKnows'
      BY <2>1, <2>2, <1>6, <1>7
    <2>4. LinkedOnce'
      <3>1. CASE UNCHANGED <<orig, quar>>
        BY <3>1, <1>8
      <3>2. CASE quar' = [quar EXCEPT ![cur.path] = NoFile] /\ UNCHANGED orig
        BY <3>2, <1>1 DEF LinkedOnce, TypeOK
      <3> QED
        BY <1>16, <3>1, <3>2 DEF HUnlink, cur
    <2>5. NoUnarchivedErase'
      BY <1>16, <2>1, <1>2, <1>9 DEF HUnlink, NoUnarchivedErase, seen, cur
    <2> QED
      BY <2>3, <2>4, <2>5
  <1>17. CASE HRestore
    <2>1. /\ \/ hpc' = "pick" /\ hwait' \subseteq hwait
             \/ hpc' = "restoring" /\ hcur'.spec = cur /\ hwait' = hwait
          /\ UNCHANGED <<orig, quar>> /\ UNCHANGED erased
      BY <1>17, <1>4, <1>5 DEF HRestore, cur, seen
    <2>2. ProofsArchived'
      BY <1>17, <2>1, <1>6 DEF HRestore, ProofsArchived, cur
    <2> QED
      BY <2>1, <2>2, <1>7, <1>8, <1>9
  <1>18. CASE HRestoring
    <2>1. hpc' = "pick" /\ hwait' \subseteq hwait /\ UNCHANGED erased
      BY <1>18, <1>4 DEF HRestoring, seen
    <2>2. LinkedOnce'
      <3>1. CASE UNCHANGED <<orig, quar>>
        BY <3>1, <1>8
      <3>2. CASE /\ orig' = [orig EXCEPT ![cur.path] = quar[cur.path]]
                 /\ quar' = [quar EXCEPT ![cur.path] = NoFile]
        BY <3>2, <1>1 DEF LinkedOnce, TypeOK
      <3> QED
        BY <1>18, <3>1, <3>2 DEF HRestoring, cur
    <2> QED
      BY <2>1, <2>2, <1>6, <1>7, <1>9
  <1>19. CASE HFinish
    BY <1>19, <1>6, <1>7, <1>8, <1>9 DEF HFinish
  <1>20. CASE HDie
    BY <1>20, <1>6, <1>7, <1>8, <1>9 DEF HDie
  <1> QED
    BY <1>10, <1>11, <1>12, <1>13, <1>14, <1>15, <1>16, <1>17, <1>18, <1>19, <1>20 DEF Helper

LEMMA InitInv == Init => IInv
  <1> SUFFICES ASSUME Init PROVE IInv
    OBVIOUS
  <1>1. TypeOK
    BY TypeInit
  <1> QED
    BY <1>1 DEF Init, IInv, ProofsArchived, LinkedOnce, HelperKnows, NoUnarchivedErase,
                NoRow, NoFile

THEOREM Inductive == Spec => []IInv
  <1>1. IInv /\ [Next]_vars => IInv'
    <2> SUFFICES ASSUME IInv, [Next]_vars PROVE IInv'
      OBVIOUS
    <2>1. CASE UNCHANGED vars
      BY <2>1 DEF IInv, TypeOK, ProofsArchived, LinkedOnce, HelperKnows, NoUnarchivedErase, vars
    <2>2. CASE Guest
      BY <2>2, GuestTypes, GuestKeeps DEF IInv
    <2>3. CASE Manager
      BY <2>3, ManagerTypes, ManagerKeeps DEF IInv
    <2>4. CASE Helper
      BY <2>4, HelperTypes, HelperKeeps DEF IInv
    <2> QED
      BY <2>1, <2>2, <2>3, <2>4 DEF Next
  <1> QED
    BY <1>1, InitInv, PTL DEF Spec

\* The variables of a run, of the helper's call, of the two stores and of the
\* log filesystem keep their types whatever the constants are.
THEOREM TypeCorrect == Spec => []TypeOK
  <1>1. IInv => TypeOK
    BY DEF IInv
  <1> QED
    BY <1>1, Inductive, PTL

\* The helper's unlink (_prune_one, _recover_leftover) only ever removes bytes
\* that Loki has acknowledged, for any number of files, rows and files per call.
THEOREM NeverErasesUnarchived == Spec => []NoUnarchivedErase
  <1>1. IInv => NoUnarchivedErase
    BY DEF IInv
  <1> QED
    BY <1>1, Inductive, PTL

(***************************************************************************)
(* What is resolved stays so.  A file moves to higher paths only, and a    *)
(* body once replaced never comes back.                                    *)
(***************************************************************************)
Located(q, i) == orig[q] = i \/ quar[q] = i

\* A version known of id: older than what the inode holds, or that very version, and then
\* not yet moved below the path.
Past(id, stat, body) ==
    /\ body <= data[id[2]].body
    /\ body = data[id[2]].body =>
         /\ stat = data[id[2]].stat
         /\ \A q \in Paths : Located(q, id[2]) => id[1] <= q

\* That version has left the path of id for good.
Gone(id, body) ==
    body < data[id[2]].body \/ \A q \in Paths : Located(q, id[2]) => id[1] < q

VersionsPast ==
    /\ \A i \in Inodes : data[i].body <= clock
    /\ \A s \in Sources, i \in Inodes : row[s].ino = i =>
         /\ row[s].body <= data[i].body
         /\ row[s].body = data[i].body => row[s].stat = data[i].stat
    /\ \A c \in covered \cup batch \cup unrecorded : Past(IdOf(c), c.stat, c.body)
    /\ \A d \in Ids : Past(d, intent[d].stat, intent[d].body)

\* From here on an inode holds a later version, or moves up and away.
Ageing ==
    /\ clock <= clock'
    /\ \A i \in Inodes :
         /\ data'[i].body <= clock'
         /\ \/ data'[i] = data[i] /\ \A q \in Paths : Located(q, i)' => \E r \in Paths : Located(r, i) /\ r <= q
            \/ data[i].body < data'[i].body

LEMMA PastStays ==
    ASSUME TypeOK, TypeOK', Ageing, NEW id \in Ids, NEW stat, NEW body \in Nat
    PROVE  /\ Past(id, stat, body) => Past(id, stat, body)'
           /\ Past(id, stat, body) /\ Gone(id, body) => Gone(id, body)'
  <1> DEFINE i == id[2]
             p == id[1]
  <1>1. i \in Inodes /\ p \in Paths /\ p \in Nat
    BY DEF Ids, Paths
  <1>2. data[i].body \in Nat /\ data'[i].body \in Nat
    BY <1>1 DEF TypeOK, Version
  <1> HIDE DEF i, p
  <1>3. CASE data[i].body < data'[i].body
    <2>1. body <= data[i].body => body < data'[i].body /\ body <= data'[i].body /\ body # data'[i].body
      BY <1>2, <1>3
    <2> QED
      BY <2>1 DEF Past, Gone, i
  <1>4. CASE data'[i] = data[i] /\ \A q \in Paths : Located(q, i)' => \E r \in Paths : Located(r, i) /\ r <= q
    <2>1. (\A q \in Paths : Located(q, i) => p <= q) => (\A q \in Paths : Located(q, i) => p <= q)'
      BY <1>1, <1>4 DEF Paths
    <2>2. (\A q \in Paths : Located(q, i) => p < q) => (\A q \in Paths : Located(q, i) => p < q)'
      BY <1>1, <1>4 DEF Paths
    <2> QED
      BY <1>4, <2>1, <2>2 DEF Past, Gone, i, p
  <1> QED
    BY <1>1, <1>3, <1>4 DEF Ageing

\* The guest writes new versions, rotates upwards and removes.
LEMMA GuestAges == ASSUME TypeOK, VersionsPast, Guest PROVE Ageing
  <1> USE DEF TypeOK, Version, Located, VersionsPast
  <1>1. ASSUME NEW p \in Paths, NEW i \in Inodes, Create(p, i) PROVE Ageing
    <2>1. ASSUME NEW j \in Inodes, j # i, NEW q \in Paths, Located(q, j)' PROVE Located(q, j)
      BY <1>1, <2>1 DEF Create
    <2>2. data[i].body < data'[i].body /\ \A j \in Inodes : j # i => data'[j] = data[j]
      BY <1>1 DEF Create
    <2>3. clock' = clock + 1 /\ data'[i].body = clock + 1
      BY <1>1 DEF Create
    <2> HIDE DEF Located
    <2> QED
      BY <2>1, <2>2, <2>3 DEF Ageing, Paths
  <1>2. ASSUME NEW i \in Inodes, OpenWriter(i) \/ CloseWriter(i) PROVE Ageing
    <2>1. UNCHANGED <<orig, quar, data, clock>>
      BY <1>2 DEF OpenWriter, CloseWriter
    <2> QED
      BY <2>1 DEF Ageing, Paths
  <1>3. ASSUME NEW i \in Inodes, WriteLog(i) PROVE Ageing
    <2>1. data[i].body < data'[i].body /\ \A j \in Inodes : j # i => data'[j] = data[j]
      BY <1>3 DEF WriteLog
    <2>2. clock' = clock + 1 /\ data'[i].body = clock + 1 /\ UNCHANGED <<orig, quar>>
      BY <1>3 DEF WriteLog
    <2> QED
      BY <2>1, <2>2 DEF Ageing, Paths
  <1>4. ASSUME NEW p \in Paths, Rotate(p) PROVE Ageing
    <2>1. /\ p + 1 \in Paths /\ orig' = [orig EXCEPT ![p] = NoFile, ![p + 1] = orig[p]]
          /\ UNCHANGED <<quar, data, clock>>
      BY <1>4, RetentionAssumption DEF Rotate, Paths
    <2>2. ASSUME NEW j \in Inodes, NEW q \in Paths, Located(q, j)'
          PROVE  \E r \in Paths : Located(r, j) /\ r <= q
      <3>1. j # NoFile
        BY DEF Inodes, NoFile
      <3>2. CASE q = p + 1 /\ orig'[q] = j
        <4>1. orig[p] = j /\ p <= q
          BY <2>1, <3>2 DEF Paths
        <4> QED
          BY <4>1
      <3>3. CASE Located(q, j)
        <4>1. q <= q
          BY DEF Paths
        <4> QED
          BY <3>3, <4>1
      <3> QED
        BY <2>1, <2>2, <3>1, <3>2, <3>3
    <2> QED
      BY <2>1, <2>2 DEF Ageing
  <1>5. ASSUME NEW p \in Paths, RemoveLog(p) PROVE Ageing
    <2>1. orig' = [orig EXCEPT ![p] = NoFile] /\ UNCHANGED <<quar, data, clock>>
      BY <1>5 DEF RemoveLog
    <2>2. ASSUME NEW j \in Inodes, NEW q \in Paths, Located(q, j)' PROVE Located(q, j) /\ q <= q
      BY <2>1, <2>2 DEF Inodes, NoFile, Paths
    <2> QED
      BY <2>1, <2>2 DEF Ageing
  <1> QED
    BY <1>1, <1>2, <1>3, <1>4, <1>5 DEF Guest

\* Quarantine and restoring keep a file at its path.
LEMMA HelperAges == ASSUME IInv, VersionsPast, Helper PROVE Ageing
  <1> USE DEF IInv, TypeOK, Version
  <1> DEFINE cur == hcur.spec
  <1>1. cur \in Spec1 /\ cur.path \in Paths
    BY DEF Spec1
  <1>2. UNCHANGED <<data, clock>>
    BY DEF Helper, HPick, HRename, HScan, HHash, HLeftScan, HLeftHash, HUnlink,
           HRestore, HRestoring, HFinish, HDie, HelperOnly
  <1>3. \/ UNCHANGED <<orig, quar>>
        \/ orig' = [orig EXCEPT ![cur.path] = NoFile] /\ quar' = [quar EXCEPT ![cur.path] = orig[cur.path]]
        \/ orig' = orig /\ quar' = [quar EXCEPT ![cur.path] = NoFile]
        \/ orig' = [orig EXCEPT ![cur.path] = quar[cur.path]] /\ quar' = [quar EXCEPT ![cur.path] = NoFile]
    BY DEF Helper, HPick, HRename, HScan, HHash, HLeftScan, HLeftHash, HUnlink,
           HRestore, HRestoring, HFinish, HDie
  <1>4. ASSUME NEW i \in Inodes, NEW q \in Paths, Located(q, i)' PROVE Located(q, i) /\ q <= q
    <2>1. i # NoFile /\ q <= q
      BY DEF Inodes, NoFile, Paths
    <2>2. orig \in [Paths -> Inodes \cup {NoFile}] /\ quar \in [Paths -> Inodes \cup {NoFile}]
      OBVIOUS
    <2> HIDE DEF IInv, TypeOK, cur
    <2> QED
      BY <1>1, <1>3, <1>4, <2>1, <2>2 DEF Located
  <1> QED
    BY <1>2, <1>4 DEF Ageing, VersionsPast

\* Only an import writes rows; it binds a version the inode holds, or one with its stat that
\* the row had before.
LEMMA ManagerPast == ASSUME TypeOK, VersionsPast, LinkedOnce, Manager PROVE VersionsPast'
  <1>1. UNCHANGED <<orig, quar, data, clock>>
    BY DEF Manager, StartRun, EndImport, RecoverChunk, RecoverDone, PlanChunk, CallPrune, BatchDone,
           EndRun, ImportFile, RecordIntent, Resolve, PurgeTombstone
  <1>2. ASSUME NEW id, NEW stat, NEW body PROVE Past(id, stat, body)' <=> Past(id, stat, body)
    BY <1>1 DEF Past, Located
  <1> DEFINE Bodies == covered \cup batch \cup unrecorded
  <1>3. ASSUME UNCHANGED <<row, intent>>, \A c \in Bodies' : Past(IdOf(c), c.stat, c.body)
        PROVE  VersionsPast'
    BY <1>1, <1>2, <1>3 DEF VersionsPast
  <1>4. ASSUME UNCHANGED <<row, intent>>, Bodies' \subseteq Bodies PROVE VersionsPast'
    BY <1>3, <1>4 DEF VersionsPast
  <1>5. CASE StartRun \/ EndImport \/ RecoverDone \/ PlanChunk \/ CallPrune \/ BatchDone \/ EndRun
    <2>1. UNCHANGED <<row, intent>> /\ Bodies' \subseteq Bodies
      BY <1>5 DEF StartRun, EndImport, RecoverDone, PlanChunk, CallPrune, BatchDone, EndRun
    <2> QED
      BY <1>4, <2>1
  <1>6. CASE RecoverChunk
    <2>1. ASSUME NEW c \in batch' PROVE Past(IdOf(c), c.stat, c.body)
      <3>1. PICK d \in Ids : c = RecoverySpec(d)
        BY <1>6 DEF RecoverChunk, TypeOK
      <3>2. IdOf(c) = d /\ c.stat = intent[d].stat /\ c.body = intent[d].body
        BY <3>1 DEF RecoverySpec, IdOf, Ids
      <3> QED
        BY <3>2 DEF VersionsPast
    <2>2. UNCHANGED <<row, intent, covered, unrecorded>>
      BY <1>6 DEF RecoverChunk
    <2> QED
      BY <1>3, <2>1, <2>2 DEF VersionsPast
  <1>7. ASSUME NEW s \in unrecorded, RecordIntent(s) PROVE VersionsPast'
    <2>1. UNCHANGED <<row, covered, batch>> /\ unrecorded' \subseteq unrecorded
      BY <1>7 DEF RecordIntent
    <2>2. ASSUME NEW d \in Ids PROVE Past(d, intent'[d].stat, intent'[d].body)
      <3>1. \/ intent'[d] = intent[d]
            \/ d = IdOf(s) /\ intent'[d].stat = s.stat /\ intent'[d].body = s.body
        BY <1>7 DEF RecordIntent, TypeOK
      <3> QED
        BY <3>1 DEF VersionsPast
    <2> QED
      BY <1>1, <1>2, <2>1, <2>2 DEF VersionsPast
  <1>8. ASSUME NEW o \in reply, Resolve(o) PROVE VersionsPast'
    <2>1. UNCHANGED <<row, covered, batch, unrecorded>>
      BY <1>8 DEF Resolve
    <2>2. ASSUME NEW d \in Ids PROVE intent'[d].stat = intent[d].stat /\ intent'[d].body = intent[d].body
      BY <1>8 DEF Resolve, TypeOK, Intent
    <2> QED
      BY <1>1, <1>2, <2>1, <2>2 DEF VersionsPast
  <1>9. ASSUME NEW s \in Sources, PurgeTombstone(s) PROVE VersionsPast'
    <2>1. UNCHANGED <<intent, covered, batch, unrecorded>> /\ row' = [row EXCEPT ![s] = NoRow]
      BY <1>9 DEF PurgeTombstone
    <2>2. \A t \in Sources, i \in Inodes : row'[t].ino = i => row'[t] = row[t]
      BY <2>1 DEF TypeOK, NoRow, Inodes
    <2> QED
      BY <1>1, <1>2, <2>1, <2>2 DEF VersionsPast
  <1>10. ASSUME NEW p \in Paths, ImportFile(p) PROVE VersionsPast'
    <2> DEFINE i == orig[p]
    <2>1. i \in Inodes
      BY <1>10 DEF ImportFile, TypeOK, NoFile
    <2>2. PICK s \in Sources, r \in [path : {p}, ino : {i}, stat : {data[i].stat}, body : Nat] :
            /\ row' = [row EXCEPT ![s] = r]
            /\ covered' = covered \cup {[path |-> p, ino |-> i, stat |-> r.stat, body |-> r.body,
                                         src |-> s, recovery |-> FALSE]}
            /\ \/ r.body = data[i].body
               \/ row[s].ino = i /\ r.body = row[s].body
      <3> DEFINE now == [path |-> p, ino |-> i, stat |-> data[i].stat, body |-> data[i].body]
      <3>1. now \in [path : {p}, ino : {i}, stat : {data[i].stat}, body : Nat]
        BY <2>1 DEF TypeOK, Version
      <3>2. CASE \E m \in MatchRow(p, i) :
                   /\ row' = [row EXCEPT ![m] = [now EXCEPT !.body = row[m].body]]
                   /\ covered' = covered \cup {[path |-> p, ino |-> i, stat |-> now.stat,
                                                body |-> row[m].body, src |-> m, recovery |-> FALSE]}
        <4>1. PICK m \in MatchRow(p, i) :
                   /\ row' = [row EXCEPT ![m] = [now EXCEPT !.body = row[m].body]]
                   /\ covered' = covered \cup {[path |-> p, ino |-> i, stat |-> now.stat,
                                                body |-> row[m].body, src |-> m, recovery |-> FALSE]}
          BY <3>2
        <4>2. m \in Sources /\ row[m].ino = i /\ row[m].body \in Nat
          BY DEF MatchRow, Newest, TypeOK, Row
        <4>3. [now EXCEPT !.body = row[m].body] \in [path : {p}, ino : {i}, stat : {data[i].stat}, body : Nat]
          BY <4>2
        <4> QED
          BY <4>1, <4>2, <4>3
      <3>3. CASE \E m \in Sources :
                   /\ row' = [row EXCEPT ![m] = now]
                   /\ covered' = covered \cup {[path |-> p, ino |-> i, stat |-> now.stat,
                                                body |-> now.body, src |-> m, recovery |-> FALSE]}
        BY <3>1, <3>3
      <3>4. \A m \in MatchRow(p, i) : m \in Sources
        BY DEF MatchRow, Newest
      <3> QED
        BY <1>10, <3>2, <3>3, <3>4 DEF ImportFile
    <2>3. /\ r.body <= data[i].body
          /\ r.body = data[i].body => r.stat = data[i].stat
      BY <2>1, <2>2 DEF VersionsPast, TypeOK, Version
    <2>4. \A t \in Sources, j \in Inodes : row'[t].ino = j =>
            row'[t] = row[t] \/ (j = i /\ row'[t] = r)
      BY <2>2 DEF TypeOK
    <2>5. ASSUME NEW q \in Paths, Located(q, i) PROVE p <= q
      BY <1>10, <2>1, <2>5 DEF Located, LinkedOnce, NoFile, Paths, Inodes
    <2>6. Past(<<p, i>>, r.stat, r.body)
      BY <2>2, <2>3, <2>5 DEF Past
    <2>7. ASSUME NEW c \in covered' PROVE Past(IdOf(c), c.stat, c.body)
      BY <2>2, <2>6, <2>7 DEF IdOf, VersionsPast
    <2>8. UNCHANGED <<batch, unrecorded, intent>>
      BY <1>10 DEF ImportFile
    <2>9. \A t \in Sources, j \in Inodes : row'[t].ino = j =>
            row'[t].body <= data[j].body /\ (row'[t].body = data[j].body => row'[t].stat = data[j].stat)
      BY <2>3, <2>4 DEF VersionsPast
    <2> QED
      BY <1>1, <1>2, <2>7, <2>8, <2>9 DEF VersionsPast
  <1> QED
    BY <1>5, <1>6, <1>7, <1>8, <1>9, <1>10 DEF Manager

\* What is known of versions stays true as files age.
LEMMA VersionsKept == ASSUME IInv, IInv', VersionsPast, [Next]_vars PROVE VersionsPast'
  <1> USE DEF IInv
  <1>1. ASSUME Ageing, UNCHANGED <<row, intent, covered, batch, unrecorded>> PROVE VersionsPast'
    <2>1. ASSUME NEW c \in covered \cup batch \cup unrecorded PROVE Past(IdOf(c), c.stat, c.body)'
      <3>1. IdOf(c) \in Ids /\ c.body \in Nat
        BY DEF TypeOK, Spec1, IdOf, Ids
      <3> QED
        BY <1>1, <3>1, PastStays DEF VersionsPast
    <2>2. ASSUME NEW d \in Ids PROVE Past(d, intent[d].stat, intent[d].body)'
      <3>1. intent[d].body \in Nat
        BY DEF TypeOK, Intent
      <3> QED
        BY <1>1, <3>1, PastStays DEF VersionsPast
    <2>3. ASSUME NEW s \in Sources, NEW i \in Inodes, row[s].ino = i
          PROVE  row[s].body <= data'[i].body /\ (row[s].body = data'[i].body => row[s].stat = data'[i].stat)
      <3>1. row[s].body \in Nat /\ data[i].body \in Nat /\ data'[i].body \in Nat
        BY DEF TypeOK, Row, Version
      <3> QED
        BY <1>1, <2>3, <3>1 DEF VersionsPast, Ageing
    <2> QED
      BY <1>1, <2>1, <2>2, <2>3 DEF VersionsPast, Ageing
  <1>2. CASE Guest
    <2>1. UNCHANGED <<row, intent, covered, batch, unrecorded>>
      BY <1>2 DEF Guest, GuestOnly, Create, OpenWriter, CloseWriter, WriteLog, Rotate, RemoveLog
    <2> QED
      BY <1>1, <1>2, <2>1, GuestAges
  <1>3. CASE Helper
    <2>1. UNCHANGED <<row, intent, covered, batch, unrecorded>>
      BY <1>3 DEF Helper, HPick, HRename, HScan, HHash, HLeftScan, HLeftHash, HUnlink,
                  HRestore, HRestoring, HFinish, HDie, HelperOnly
    <2> QED
      BY <1>1, <1>3, <2>1, HelperAges
  <1>4. CASE Manager
    BY <1>4, ManagerPast
  <1>5. CASE UNCHANGED vars
    BY <1>5 DEF vars, VersionsPast, Past, Located
  <1> QED
    BY <1>2, <1>3, <1>4, <1>5 DEF Next

\* An outcome that resolves its intent for good.
Settles(o) == o.state = "done" \/ (o.state = "absent" /\ o.spec.recovery)

Settled(o) == Settles(o) => Gone(IdOf(o.spec), intent[IdOf(o.spec)].body)

ResolvedInv ==
    /\ \A d \in Ids : intent[d].state \in {"done", "absent"} => Gone(d, intent[d].body)
    /\ mpc = "wait" => \A o \in outcome : Settled(o)
    /\ mpc = "resolve" => \A o \in reply : Settled(o)

LEMMA IdsOfSpecs == ASSUME NEW s \in Spec1 PROVE IdOf(s) \in Ids
  BY DEF Spec1, IdOf, Ids

LEMMA SettledStays ==
    ASSUME IInv, IInv', VersionsPast, Ageing, UNCHANGED intent, NEW o \in Outcome, Settled(o)
    PROVE  Settled(o)'
  <1>1. o.spec \in Spec1
    BY DEF Outcome
  <1> DEFINE d == IdOf(o.spec)
  <1>2. d \in Ids /\ intent[d].body \in Nat
    BY <1>1, IdsOfSpecs DEF IInv, TypeOK, Intent
  <1>3. Past(d, intent[d].stat, intent[d].body)
    BY <1>2 DEF VersionsPast
  <1>4. Gone(d, intent[d].body) => Gone(d, intent[d].body)'
    BY <1>2, <1>3, PastStays DEF IInv
  <1> QED
    BY <1>4 DEF Settled

\* What a step of the helper adds to its outcomes is true: an unlinked inode is linked
\* nowhere else, and a file that is at neither path has moved on.
LEMMA NewlySettled ==
    ASSUME IInv, IInv', VersionsPast, Helper, NEW o \in outcome', o \notin outcome
    PROVE  Settled(o)'
  <1> USE DEF IInv
  <1>1. UNCHANGED <<data, intent>>
    BY DEF Helper, HPick, HRename, HScan, HHash, HLeftScan, HLeftHash, HUnlink,
           HRestore, HRestoring, HFinish, HDie, HelperOnly
  <1>2. ASSUME NEW s, NEW state, NEW missing, NEW stop, ReportAnd(s, state, missing, stop)
        PROVE  \/ o.spec = s /\ o.state = state
               \/ o.state = "pending"
    BY <1>2 DEF ReportAnd
  <1>3. ASSUME NEW s, NEW state, NEW missing, Report(s, state, missing)
        PROVE  \/ o.spec = s /\ o.state = state
               \/ o.state = "pending"
    BY <1>2, <1>3 DEF Report
  <1>4. ASSUME NEW step, NEW s, NEW blocked PROVE ~ GoTo(step, s, blocked)
    BY <1>4 DEF GoTo
  <1>5. ASSUME ~ Settles(o) PROVE Settled(o)'
    BY <1>5 DEF Settled, Settles
  <1>6. ASSUME NEW s \in hwait, HPick(s) PROVE Settled(o)'
    <2>1. s \in Spec1 /\ s.path \in Paths /\ s.ino \in Inodes
      BY DEF TypeOK, Spec1
    <2>2. \/ ~ Settles(o)
          \/ o.spec = s /\ s.recovery /\ orig[s.path] = NoFile /\ quar[s.path] = NoFile /\ UNCHANGED <<orig, quar>>
      BY <1>6, <1>3, <1>4 DEF HPick, Settles
    <2>3. CASE o.spec = s /\ orig[s.path] = NoFile /\ quar[s.path] = NoFile /\ UNCHANGED <<orig, quar>>
      <3> DEFINE d == IdOf(s)
      <3>1. d \in Ids /\ d[1] = s.path /\ d[2] = s.ino /\ d[2] # NoFile /\ intent[d].body \in Nat
        BY <2>1, IdsOfSpecs DEF IdOf, TypeOK, Intent, Inodes, NoFile
      <3>2. Past(d, intent[d].stat, intent[d].body)
        BY <3>1 DEF VersionsPast
      <3> HIDE DEF d
      <3>3. ~ Located(d[1], d[2])
        BY <2>3, <3>1 DEF Located
      <3>4. data[d[2]].body \in Nat /\ d[1] \in Paths
        BY <2>1, <3>1 DEF TypeOK, Version
      <3>5. Gone(d, intent[d].body)
        BY <3>1, <3>2, <3>3, <3>4 DEF Past, Gone, Paths
      <3>6. Gone(d, intent[d].body)'
        BY <1>1, <2>3, <3>5 DEF Gone, Located
      <3> QED
        BY <2>3, <3>6 DEF Settled, d
    <2> QED
      BY <1>5, <2>2, <2>3
  <1>7. CASE HUnlink
    <2> DEFINE s == hcur.spec
    <2>1. s \in Spec1 /\ s.path \in Paths /\ s.ino \in Inodes /\ s.ino # NoFile
      BY DEF TypeOK, Spec1, Inodes, NoFile
    <2>2. \/ ~ Settles(o)
          \/ o.spec = s /\ quar' = [quar EXCEPT ![s.path] = NoFile] /\ UNCHANGED orig
      BY <1>7, <1>2, <1>3, <1>4 DEF HUnlink, Settles
    <2>3. CASE o.spec = s /\ quar' = [quar EXCEPT ![s.path] = NoFile] /\ UNCHANGED orig
      <3> DEFINE i == o.spec.ino
                 p == o.spec.path
      <3>1. quar[p] = i /\ quar' = [quar EXCEPT ![p] = NoFile] /\ p \in Paths /\ i # NoFile
        BY <1>7, <2>1, <2>3 DEF HUnlink, HelperKnows
      <3>2. IdOf(o.spec)[1] = p /\ IdOf(o.spec)[2] = i
        BY DEF IdOf
      <3>3. orig \in [Paths -> Inodes \cup {NoFile}] /\ quar \in [Paths -> Inodes \cup {NoFile}]
        BY DEF TypeOK
      <3> HIDE DEF s, i, p
      <3>4. ASSUME NEW q \in Paths PROVE orig'[q] # i /\ quar'[q] # i
        <4>1. orig[q] # i
          BY <3>1 DEF LinkedOnce
        <4>2. quar[q] = i => q = p
          BY <3>1 DEF LinkedOnce
        <4> QED
          BY <2>3, <3>1, <3>3, <4>1, <4>2
      <3>5. Gone(IdOf(o.spec), intent[IdOf(o.spec)].body)'
        BY <3>2, <3>4 DEF Gone, Located, i
      <3> QED
        BY <3>5 DEF Settled
    <2> QED
      BY <1>5, <2>2, <2>3
  <1>8. CASE HRename \/ HScan \/ HHash
    BY <1>8, <1>3, <1>4, <1>5 DEF HRename, HScan, HHash, Settles
  <1>9. CASE HLeftScan \/ HLeftHash
    BY <1>9, <1>3, <1>4, <1>5 DEF HLeftScan, HLeftHash, Settles
  <1>10. CASE HRestore \/ HRestoring
    BY <1>10, <1>3, <1>4, <1>5 DEF HRestore, HRestoring, Settles
  <1>11. CASE HFinish \/ HDie
    BY <1>11 DEF HFinish, HDie
  <1> QED
    BY <1>6, <1>7, <1>8, <1>9, <1>10, <1>11 DEF Helper

LEMMA ResolvedKept ==
    ASSUME IInv, IInv', VersionsPast, ResolvedInv, [Next]_vars
    PROVE  ResolvedInv'
  <1>1. outcome \subseteq Outcome /\ reply \subseteq Outcome
    BY DEF IInv, TypeOK
  <1>2. ASSUME Ageing, UNCHANGED intent, NEW d \in Ids, intent[d].state \in {"done", "absent"}
        PROVE  Gone(d, intent[d].body)'
    <2>1. intent[d].body \in Nat /\ Past(d, intent[d].stat, intent[d].body)
      BY <1>2 DEF IInv, TypeOK, Intent, VersionsPast
    <2> QED
      BY <1>2, <2>1, PastStays DEF IInv, ResolvedInv
  <1>3. CASE Guest
    <2>1. UNCHANGED <<mpc, outcome, reply, intent>> /\ Ageing
      BY <1>3, GuestAges DEF IInv, Guest, GuestOnly, Create, OpenWriter, CloseWriter, WriteLog, Rotate, RemoveLog
    <2> QED
      BY <1>1, <1>2, <2>1, SettledStays DEF ResolvedInv
  <1>4. CASE Helper
    <2>1. UNCHANGED intent /\ Ageing
      BY <1>4, HelperAges DEF Helper, HPick, HRename, HScan, HHash, HLeftScan, HLeftHash, HUnlink,
                              HRestore, HRestoring, HFinish, HDie, HelperOnly
    <2>2. \/ UNCHANGED <<mpc, reply>>
          \/ mpc = "wait" /\ mpc' = "resolve" /\ reply' = outcome
      BY <1>4 DEF Helper, HPick, HRename, HScan, HHash, HLeftScan, HLeftHash, HUnlink,
                  HRestore, HRestoring, HFinish, HDie, HelperOnly
    <2>3. ASSUME mpc' = "wait", NEW o \in outcome' PROVE Settled(o)'
      <3>1. CASE o \in outcome
        BY <1>1, <2>1, <2>2, <2>3, <3>1, SettledStays DEF ResolvedInv
      <3> QED
        BY <1>4, <3>1, NewlySettled
    <2>4. ASSUME mpc' = "resolve", NEW o \in reply' PROVE Settled(o)'
      BY <1>1, <2>1, <2>2, <2>4, SettledStays DEF ResolvedInv
    <2> QED
      BY <1>2, <2>1, <2>3, <2>4 DEF ResolvedInv
  <1>5. CASE Manager
    <2>1. UNCHANGED <<orig, quar, data>>
      BY <1>5 DEF Manager, StartRun, EndImport, RecoverChunk, RecoverDone, PlanChunk, CallPrune, BatchDone,
                  EndRun, ImportFile, RecordIntent, Resolve, PurgeTombstone
    <2>2. ASSUME NEW id, NEW body PROVE Gone(id, body)' <=> Gone(id, body)
      BY <2>1 DEF Gone, Located
    <2>3. CASE \E o \in reply : Resolve(o)
      <3>1. PICK o \in reply : Resolve(o)
        BY <2>3
      <3>2. mpc = "resolve" /\ mpc' = "resolve" /\ reply' \subseteq reply /\ o \in Outcome
        BY <1>1, <3>1 DEF Resolve
      <3>3. \A d \in Ids : intent'[d].body = intent[d].body
        BY <3>1 DEF Resolve, IInv, TypeOK, Intent
      <3>4. ASSUME NEW d \in Ids, intent'[d].state \in {"done", "absent"} PROVE Gone(d, intent[d].body)
        <4>1. \/ intent'[d].state = intent[d].state
              \/ d = IdOf(o.spec) /\ Settles(o)
          BY <3>1, <3>4 DEF Resolve, IInv, TypeOK, Intent, Settles
        <4> QED
          BY <3>2, <3>4, <4>1 DEF ResolvedInv, Settled
      <3>5. ASSUME NEW u \in reply PROVE Settled(u)'
        <4>1. IdOf(u.spec) \in Ids
          BY <1>1, IdsOfSpecs DEF Outcome
        <4> QED
          BY <2>2, <3>2, <3>3, <4>1 DEF ResolvedInv, Settled
      <3> QED
        BY <2>2, <3>2, <3>3, <3>4, <3>5 DEF ResolvedInv
    <2>4. CASE \E s \in unrecorded : RecordIntent(s)
      <3>1. PICK s \in unrecorded : RecordIntent(s)
        BY <2>4
      <3>2. mpc' = "record"
        BY <3>1 DEF RecordIntent
      <3>3. ASSUME NEW d \in Ids, intent'[d].state \in {"done", "absent"} PROVE intent'[d] = intent[d]
        BY <3>1, <3>3 DEF RecordIntent, IInv, TypeOK
      <3> QED
        BY <2>2, <3>2, <3>3 DEF ResolvedInv
    <2>5. CASE ~ (\E o \in reply : Resolve(o)) /\ ~ (\E s \in unrecorded : RecordIntent(s))
      <3>1. /\ UNCHANGED intent /\ mpc' # "resolve"
            /\ mpc' = "wait" => outcome' = {}
        BY <1>5, <2>5 DEF Manager, StartRun, EndImport, RecoverChunk, RecoverDone, PlanChunk, CallPrune,
                          BatchDone, EndRun, ImportFile, PurgeTombstone
      <3> QED
        BY <2>2, <3>1 DEF ResolvedInv
    <2> QED
      BY <2>3, <2>4, <2>5
  <1>6. CASE UNCHANGED vars
    BY <1>6 DEF vars, ResolvedInv, Settled, Gone, Located
  <1> QED
    BY <1>3, <1>4, <1>5, <1>6 DEF Next

LEMMA InitPast == Init => VersionsPast /\ ResolvedInv
  <1> SUFFICES ASSUME Init PROVE VersionsPast /\ ResolvedInv
    OBVIOUS
  <1>1. \A q \in Paths, i \in Inodes : ~ Located(q, i)
    BY DEF Init, Located, Inodes, NoFile
  <1>2. \A d \in Ids : d[2] \in Inodes
    BY DEF Ids
  <1> QED
    BY <1>1, <1>2 DEF Init, VersionsPast, ResolvedInv, Past, NoRow, Inodes

\* An intent that was resolved as done or absent (_resolve_outcomes) tells the truth for good:
\* that version of the file is never again at either of its paths, for any number of files,
\* runs and deaths.
THEOREM AlwaysResolvedMeansGone == Spec => []ResolvedMeansGone
  <1>1. IInv /\ ResolvedInv => ResolvedMeansGone
    <2> SUFFICES ASSUME IInv, ResolvedInv, NEW d \in Ids, intent[d].state \in {"done", "absent"},
                        NEW at \in {orig[d[1]], quar[d[1]]}, at = d[2],
                        data[at] = [stat |-> intent[d].stat, body |-> intent[d].body]
                 PROVE  FALSE
      BY DEF ResolvedMeansGone
    <2>1. d[1] \in Paths /\ d[1] \in Nat /\ intent[d].body \in Nat /\ data[d[2]].body = intent[d].body
      BY DEF Ids, Paths, IInv, TypeOK, Intent
    <2>2. Located(d[1], d[2])
      BY DEF Located
    <2> QED
      BY <2>1, <2>2 DEF ResolvedInv, Gone
  <1>2. IInv /\ IInv' /\ VersionsPast /\ ResolvedInv /\ [Next]_vars => VersionsPast' /\ ResolvedInv'
    BY VersionsKept, ResolvedKept
  <1> QED
    BY <1>1, <1>2, Inductive, InitPast, PTL DEF Spec

(***************************************************************************)
(* A pending intent keeps the row that proves it, or is out of date.       *)
(***************************************************************************)
ProvedBy(s) ==
    /\ s.src \in Sources
    /\ row[s.src].ino = s.ino /\ row[s.src].stat = s.stat /\ row[s.src].body = s.body

Outdated(d) == intent[d].body < data[d[2]].body

PendingInv ==
    /\ \A c \in covered : c.src \in Sources
    /\ mpc = "record" => \A s \in unrecorded : ProvedBy(s)
    /\ \A d \in Ids : intent[d].state = "pending" => Provable(d) \/ Outdated(d)

\* An import rewrites a row only for the inode it describes, and changes what the row proves
\* only once that inode holds another version.
LEMMA ImportSpares ==
    ASSUME IInv, VersionsPast, NEW p \in Paths, ImportFile(p), NEW d \in Ids, Provable(d)
    PROVE  Provable(d)' \/ Outdated(d)'
  <1> DEFINE i   == orig[p]
             now == [path |-> p, ino |-> i, stat |-> data[i].stat, body |-> data[i].body]
             n   == intent[d]
  <1>1. UNCHANGED <<intent, data>>
    BY DEF ImportFile
  <1>2. row \in [Sources -> Row] /\ i \in Inodes /\ d[2] \in Inodes /\ d[2] # 0
    BY DEF IInv, TypeOK, ImportFile, NoFile, Ids, Inodes
  <1>3. /\ n.src \in Sources
        /\ row[n.src].ino = d[2] /\ row[n.src].stat = n.stat /\ row[n.src].body = n.body
    BY DEF Provable
  <1>4. ASSUME NEW s \in Sources, NEW r, row' = [row EXCEPT ![s] = r],
               n.src = s => r.ino = d[2] /\ r.stat = n.stat /\ r.body = n.body
        PROVE  Provable(d)'
    <2>1. n.src = s => row'[n.src] = r
      BY <1>2, <1>4
    <2>2. n.src # s => row'[n.src] = row[n.src]
      BY <1>2, <1>3, <1>4
    <2> QED
      BY <1>1, <1>3, <1>4, <2>1, <2>2 DEF Provable
  <1>5. \A m \in MatchRow(p, i) : m \in Sources /\ row[m].ino = i
    BY DEF MatchRow, Newest
  <1>6. CASE \E m \in MatchRow(p, i) :
               row[m].stat = now.stat /\ row' = [row EXCEPT ![m] = [now EXCEPT !.body = row[m].body]]
    <2>1. PICK m \in MatchRow(p, i) :
               row[m].stat = now.stat /\ row' = [row EXCEPT ![m] = [now EXCEPT !.body = row[m].body]]
      BY <1>6
    <2> DEFINE r == [now EXCEPT !.body = row[m].body]
    <2>2. r.ino = i /\ r.stat = row[m].stat /\ r.body = row[m].body
      BY <2>1
    <2> HIDE DEF r
    <2> QED
      BY <1>3, <1>4, <1>5, <2>1, <2>2 DEF r
  <1>7. CASE \E m \in MatchRow(p, i) : row[m].stat # now.stat /\ row' = [row EXCEPT ![m] = now]
    <2>1. PICK m \in MatchRow(p, i) : row[m].stat # now.stat /\ row' = [row EXCEPT ![m] = now]
      BY <1>7
    <2>2. CASE n.src = m
      <3>1. d[2] = i /\ n.stat # data[i].stat
        BY <1>3, <1>5, <2>1, <2>2
      <3>2. n.body <= data[i].body /\ n.body # data[i].body
        BY <3>1 DEF VersionsPast, Past
      <3>3. n.body \in Nat /\ data[i].body \in Nat
        BY <1>2 DEF IInv, TypeOK, Intent, Version
      <3>4. Outdated(d)
        BY <3>1, <3>2, <3>3 DEF Outdated
      <3> QED
        BY <1>1, <3>4 DEF Outdated
    <2> QED
      BY <1>4, <1>5, <2>1, <2>2
  <1>8. CASE \E s \in Sources : row[s] = NoRow /\ row' = [row EXCEPT ![s] = now]
    <2>1. PICK s \in Sources : row[s] = NoRow /\ row' = [row EXCEPT ![s] = now]
      BY <1>8
    <2>2. n.src # s
      BY <1>2, <1>3, <2>1 DEF NoRow
    <2> QED
      BY <1>4, <2>1, <2>2
  <1> QED
    BY <1>6, <1>7, <1>8 DEF ImportFile

LEMMA PendingKept == ASSUME IInv, IInv', VersionsPast, PendingInv, [Next]_vars PROVE PendingInv'
  <1>1. ASSUME UNCHANGED <<row, intent>>, covered' \subseteq covered, mpc' # "record",
               \A j \in Inodes : data[j].body <= data'[j].body
        PROVE  PendingInv'
    <2>1. ASSUME NEW d \in Ids, Outdated(d) PROVE Outdated(d)'
      <3>1. d[2] \in Inodes /\ intent[d].body \in Nat /\ data[d[2]].body \in Nat /\ data'[d[2]].body \in Nat
        BY DEF IInv, TypeOK, Ids, Intent, Version
      <3> QED
        BY <1>1, <2>1, <3>1 DEF Outdated
    <2>2. \A d \in Ids : Provable(d)' <=> Provable(d)
      BY <1>1 DEF Provable
    <2> QED
      BY <1>1, <2>1, <2>2 DEF PendingInv
  <1>2. ASSUME UNCHANGED <<row, intent, covered, unrecorded, mpc>>,
               \A j \in Inodes : data[j].body <= data'[j].body
        PROVE  PendingInv'
    <2>1. ASSUME NEW d \in Ids, Outdated(d) PROVE Outdated(d)'
      <3>1. d[2] \in Inodes /\ intent[d].body \in Nat /\ data[d[2]].body \in Nat /\ data'[d[2]].body \in Nat
        BY DEF IInv, TypeOK, Ids, Intent, Version
      <3> QED
        BY <1>2, <2>1, <3>1 DEF Outdated
    <2>2. /\ \A d \in Ids : Provable(d)' <=> Provable(d)
          /\ \A s \in unrecorded : ProvedBy(s)' <=> ProvedBy(s)
      BY <1>2 DEF Provable, ProvedBy
    <2> QED
      BY <1>2, <2>1, <2>2 DEF PendingInv
  <1>3. \A j \in Inodes : data[j].body \in Nat /\ data[j].body <= data[j].body
    BY DEF IInv, TypeOK, Version
  <1>4. CASE Guest
    <2>1. UNCHANGED <<row, intent, covered, unrecorded, mpc>>
      BY <1>4 DEF Guest, GuestOnly, Create, OpenWriter, CloseWriter, WriteLog, Rotate, RemoveLog
    <2>2. Ageing
      BY <1>4, GuestAges DEF IInv
    <2>3. \A j \in Inodes : data[j].body <= data'[j].body
      BY <2>2, <1>3 DEF Ageing, IInv, TypeOK, Version
    <2> QED
      BY <1>2, <2>1, <2>3
  <1>5. CASE Helper
    <2>1. UNCHANGED <<row, intent, covered, unrecorded, data>>
      BY <1>5 DEF Helper, HPick, HRename, HScan, HHash, HLeftScan, HLeftHash, HUnlink,
                  HRestore, HRestoring, HFinish, HDie, HelperOnly
    <2>2. mpc' = mpc \/ mpc' = "resolve"
      BY <1>5 DEF Helper, HPick, HRename, HScan, HHash, HLeftScan, HLeftHash, HUnlink,
                  HRestore, HRestoring, HFinish, HDie, HelperOnly
    <2> QED
      BY <1>1, <1>2, <1>3, <2>1, <2>2
  <1>6. CASE Manager
    <2>1. UNCHANGED data
      BY <1>6 DEF Manager, StartRun, EndImport, RecoverChunk, RecoverDone, PlanChunk, CallPrune, BatchDone,
                  EndRun, ImportFile, RecordIntent, Resolve, PurgeTombstone
    <2>2. CASE StartRun \/ EndImport \/ RecoverChunk \/ RecoverDone \/ CallPrune \/ BatchDone \/ EndRun
      <3>1. UNCHANGED <<row, intent>> /\ covered' \subseteq covered /\ mpc' # "record"
        BY <2>2 DEF StartRun, EndImport, RecoverChunk, RecoverDone, CallPrune, BatchDone, EndRun
      <3> QED
        BY <1>1, <1>3, <2>1, <3>1
    <2>3. CASE PlanChunk
      <3>1. UNCHANGED <<row, intent>> /\ covered' \subseteq covered
        BY <2>3 DEF PlanChunk
      <3>2. \A s \in unrecorded' : s \in covered /\ Authorized(s)
        BY <2>3 DEF PlanChunk
      <3>3. \A s \in unrecorded' : ProvedBy(s)'
        BY <3>1, <3>2 DEF PendingInv, Authorized, ProvedBy
      <3>4. \A d \in Ids : Provable(d)' = Provable(d) /\ Outdated(d)' = Outdated(d)
        BY <2>1, <3>1 DEF Provable, Outdated
      <3> QED
        BY <3>1, <3>3, <3>4 DEF PendingInv
    <2>4. ASSUME NEW s \in unrecorded, RecordIntent(s) PROVE PendingInv'
      <3>1. /\ mpc = "record" /\ unrecorded' \subseteq unrecorded
            /\ UNCHANGED <<row, covered>>
        BY <2>4 DEF RecordIntent
      <3>2. s \in Spec1 /\ IdOf(s) \in Ids /\ ProvedBy(s)
        BY <3>1, IdsOfSpecs DEF PendingInv, IInv, TypeOK
      <3>3. \A u \in unrecorded' : ProvedBy(u)'
        BY <3>1 DEF PendingInv, ProvedBy
      <3>4. ASSUME NEW d \in Ids, intent'[d].state = "pending" PROVE Provable(d)' \/ Outdated(d)'
        <4>1. CASE intent'[d] = intent[d]
          <5>1. Provable(d) \/ Outdated(d)
            BY <3>4, <4>1 DEF PendingInv
          <5> QED
            BY <2>1, <3>1, <4>1, <5>1 DEF Provable, Outdated
        <4>2. CASE /\ d = IdOf(s)
                   /\ intent'[d] = [state |-> "pending", stat |-> s.stat, body |-> s.body,
                                    src |-> s.src, missing |-> FALSE]
          <5>1. d[2] = s.ino
            BY <4>2 DEF IdOf
          <5> QED
            BY <3>1, <3>2, <4>2, <5>1 DEF ProvedBy, Provable
        <4> QED
          BY <2>4, <3>2, <4>1, <4>2 DEF RecordIntent, IInv, TypeOK
      <3> QED
        BY <3>1, <3>3, <3>4 DEF PendingInv
    <2>5. ASSUME NEW o \in reply, Resolve(o) PROVE PendingInv'
      <3>1. mpc' = "resolve" /\ UNCHANGED <<row, covered>>
        BY <2>5 DEF Resolve
      <3>2. ASSUME NEW d \in Ids, intent'[d].state = "pending"
            PROVE  /\ intent[d].state = "pending" /\ intent'[d].src = intent[d].src
                   /\ intent'[d].stat = intent[d].stat /\ intent'[d].body = intent[d].body
        BY <2>5, <3>2 DEF Resolve, IInv, TypeOK, Intent
      <3>3. ASSUME NEW d \in Ids, intent'[d].state = "pending" PROVE Provable(d)' \/ Outdated(d)'
        <4>1. Provable(d) \/ Outdated(d)
          BY <3>2, <3>3 DEF PendingInv
        <4> QED
          BY <2>1, <3>1, <3>2, <3>3, <4>1 DEF Provable, Outdated
      <3> QED
        BY <3>1, <3>3 DEF PendingInv
    <2>6. ASSUME NEW p \in Paths, ImportFile(p) PROVE PendingInv'
      <3>1. mpc' # "record" /\ UNCHANGED intent
        BY <2>6 DEF ImportFile
      <3>2. \A m \in MatchRow(p, orig[p]) : m \in Sources
        BY DEF MatchRow, Newest
      <3>3. \A c \in covered' : c.src \in Sources
        BY <2>6, <3>2 DEF ImportFile, PendingInv
      <3>4. \A d \in Ids : Outdated(d) => Outdated(d)'
        BY <2>1, <3>1 DEF Outdated
      <3>5. \A d \in Ids : intent[d].state = "pending" => Provable(d)' \/ Outdated(d)'
        BY <2>6, <3>4, ImportSpares DEF PendingInv
      <3> QED
        BY <3>1, <3>3, <3>5 DEF PendingInv
    <2>7. ASSUME NEW s \in Sources, PurgeTombstone(s) PROVE PendingInv'
      <3>1. mpc' = "idle" /\ UNCHANGED <<covered, intent>> /\ row' = [row EXCEPT ![s] = NoRow]
        BY <2>7 DEF PurgeTombstone
      <3>2. ASSUME NEW d \in Ids, intent[d].state = "pending", Provable(d) PROVE Provable(d)'
        <4>1. intent[d].src # s
          BY <2>7, <3>2 DEF PurgeTombstone
        <4>2. row'[intent[d].src] = row[intent[d].src]
          BY <3>1, <3>2, <4>1 DEF Provable, IInv, TypeOK
        <4> QED
          BY <3>1, <3>2, <4>2 DEF Provable
      <3>3. \A d \in Ids : Outdated(d) => Outdated(d)'
        BY <2>1, <3>1 DEF Outdated
      <3> QED
        BY <3>1, <3>2, <3>3 DEF PendingInv
    <2> QED
      BY <1>6, <2>2, <2>3, <2>4, <2>5, <2>6, <2>7 DEF Manager
  <1>7. CASE UNCHANGED vars
    BY <1>2, <1>3, <1>7 DEF vars
  <1> QED
    BY <1>4, <1>5, <1>6, <1>7 DEF Next

\* A file that an interrupted call left in quarantine can always be recovered
\* (_recovery_spec): neither purge_tombstones nor a later import takes the row that proves a
\* pending intent, as long as the file is the version of that intent.
THEOREM AlwaysRecoverable == Spec => []QuarantineRecoverable
  <1>1. IInv /\ PendingInv => QuarantineRecoverable
    <2> SUFFICES ASSUME IInv, PendingInv, NEW d \in Ids, intent[d].state = "pending", quar[d[1]] = d[2],
                        data[d[2]] = [stat |-> intent[d].stat, body |-> intent[d].body]
                 PROVE  Provable(d)
      BY DEF QuarantineRecoverable
    <2>1. intent[d].body \in Nat /\ data[d[2]].body = intent[d].body
      BY DEF IInv, TypeOK, Intent
    <2> QED
      BY <2>1 DEF PendingInv, Outdated
  <1>2. IInv /\ IInv' /\ VersionsPast /\ PendingInv /\ [Next]_vars => VersionsPast' /\ PendingInv'
    BY VersionsKept, PendingKept
  <1>3. Init => PendingInv
    BY DEF Init, PendingInv
  <1> QED
    BY <1>1, <1>2, <1>3, Inductive, InitPast, PTL DEF Spec

-----------------------------------------------------------------------------
(* NativeRetention.                                                        *)

(***************************************************************************)
(* Types, part by part.                                                    *)
(***************************************************************************)
RunSet == [alloy : Configs \cup {"none"}, seen : Probes, native : SUBSET Targets,
           blocks : SUBSET Targets, fresh : Probes, arrived : SUBSET Streams,
           outcome : {"none", "ok"}, end : {"none", "ok", "failed"}]
ProofSet == [alloy : Configs \cup {"none"}, policies : PolicySets, file : BOOLEAN]
GhostSet == [governed : SUBSET Targets, own : BOOLEAN, lost : BOOLEAN,
             proved : SUBSET [alloy : Configs \cup {"none"}, stream : Streams, policies : PolicySets]]

NativeGuestTypes == want \in Configs /\ loki \in BOOLEAN /\ guest \in Guests /\ changes \in 0..MaxChanges
StoreTypes == proof \in ProofSet /\ run \in RunSet /\ faults \in 0..MaxFaults
Types      == NativeGuestTypes /\ StoreTypes /\ ghost \in GhostSet

\* What a probe answers has the type of an answer.
LEMMA ProbeType == ASSUME guest \in Guests PROVE Probe \in Probes /\ Policies(guest) \in PolicySets
  BY DEF Guests, Probe, Probes, Policies, PolicySets

LEMMA RotatedType == ASSUME guest \in Guests PROVE Rotated(guest) \in Guests
  BY DEF Guests, Rotated

LEMMA NoneTypes == NoProof \in ProofSet /\ NoRun \in RunSet /\ NoPolicies \in PolicySets
  BY DEF NoProof, ProofSet, NoRun, RunSet, NoProbe, Probes, NoPolicies, PolicySets

\* A run that is over.
LEMMA OverType == ASSUME NEW how \in {"ok", "failed"}, Over(how) PROVE run' \in RunSet /\ pc' = "idle"
  BY NoneTypes DEF Over, RunSet

\* The guest and Loki by themselves.
World == WorldChanges \/ GuestEdits \/ StanzasAppear \/ PolicyRemoved \/ GuestRotates

LEMMA WorldStays == ASSUME World PROVE UNCHANGED <<proof, run, pc, faults>>
  BY DEF World, WorldChanges, GuestEdits, StanzasAppear, PolicyRemoved, GuestRotates, Change

LEMMA WorldTypes == ASSUME Types, World PROVE NativeGuestTypes' /\ ghost' \in GhostSet
  <1>1. changes' \in 0..MaxChanges
    <2>1. changes < MaxChanges /\ changes' = changes + 1
      BY DEF World, WorldChanges, GuestEdits, StanzasAppear, PolicyRemoved, GuestRotates, Change
    <2> QED
      BY <2>1, NativeAssumption DEF Types, NativeGuestTypes
  <1>2. want' \in Configs /\ loki' \in BOOLEAN
    BY DEF World, WorldChanges, GuestEdits, StanzasAppear, PolicyRemoved, GuestRotates, Types, NativeGuestTypes
  <1>3. guest' \in Guests
    <2> USE DEF Types, NativeGuestTypes
    <2>1. CASE WorldChanges
      BY <2>1 DEF WorldChanges
    <2>2. CASE GuestEdits
      <3>1. CASE \E p \in SUBSET Profiles : guest' = [guest EXCEPT !.profiles = p, !.tasks = "pbs" \in p]
        <4>1. PICK p \in SUBSET Profiles : guest' = [guest EXCEPT !.profiles = p, !.tasks = "pbs" \in p]
          BY <3>1
        <4>2. ("pbs" \in p) \in BOOLEAN
          OBVIOUS
        <4> QED
          BY <4>1, <4>2, ZenonT(60) DEF Guests
      <3>2. CASE ~ \E p \in SUBSET Profiles : guest' = [guest EXCEPT !.profiles = p, !.tasks = "pbs" \in p]
        BY <2>2, <3>2, ZenonT(60) DEF GuestEdits, Guests
      <3> QED
        BY <3>1, <3>2
    <2>3. CASE StanzasAppear
      BY <2>3, ZenonT(60) DEF StanzasAppear, Guests
    <2>4. CASE PolicyRemoved
      BY <2>4 DEF PolicyRemoved, Guests
    <2>5. CASE GuestRotates
      BY <2>5, RotatedType DEF GuestRotates
    <2> QED
      BY <2>1, <2>2, <2>3, <2>4, <2>5 DEF World
  <1>4. ghost' \in GhostSet
    <2>1. guest.native \subseteq Targets
      BY DEF Types, NativeGuestTypes, Guests
    <2> QED
      BY <2>1, ZenonT(60) DEF World, WorldChanges, GuestEdits, StanzasAppear, PolicyRemoved, GuestRotates, Types,
                  GhostSet
  <1> QED
    BY <1>1, <1>2, <1>3, <1>4 DEF NativeGuestTypes

\* The commands of a run, and what each does to the guest.
Commanded ==
    \/ WriteJournald \/ RestartJournald \/ Backup \/ WriteManaged \/ WriteNative
    \/ Reopen \/ RotateManaged \/ Vacuum

\* The steps of a run that only look, or write to the store.
Looked ==
    \/ Ready \/ FirstMarkers \/ Tighten \/ ReadNative \/ ReadManaged
    \/ LookBefore \/ Reopened \/ LookAfter \/ Fresh \/ SecondMarkers \/ Match
    \/ Authorize1 \/ Authorize2 \/ After \/ Prune \/ StepFails

LEMMA Steps == NativeNext <=> World \/ Begin \/ Persist \/ Commanded \/ Looked
  BY DEF NativeNext, World, NativeManager, Commanded, Looked

LEMMA LookedStays == ASSUME Looked PROVE UNCHANGED <<want, loki, changes, guest, proof>>
  <1> USE DEF Stay, Fails, Go
  <1>1. CASE Ready \/ Tighten \/ StepFails
    BY <1>1 DEF Ready, Tighten, StepFails
  <1>2. CASE FirstMarkers \/ SecondMarkers
    BY <1>2 DEF FirstMarkers, SecondMarkers, Markers
  <1>3. CASE ReadNative \/ ReadManaged
    BY <1>3 DEF ReadNative, ReadManaged
  <1>4. CASE LookBefore \/ LookAfter \/ Reopened
    BY <1>4 DEF LookBefore, LookAfter, Reopened, Look, Check
  <1>5. CASE Fresh \/ Match \/ After \/ Prune
    BY <1>5 DEF Fresh, Match, After, Prune
  <1>6. CASE Authorize1 \/ Authorize2
    BY <1>6 DEF Authorize1, Authorize2, Authorize
  <1> QED
    BY <1>1, <1>2, <1>3, <1>4, <1>5, <1>6 DEF Looked

LEMMA CommandedStays ==
    ASSUME Commanded
    PROVE  /\ UNCHANGED <<want, loki, changes, proof>>
           /\ UNCHANGED run \/ Over("failed")
  <1> USE DEF Stay, Fails, Go, Command
  <1>1. CASE WriteJournald \/ RestartJournald \/ Backup \/ WriteManaged \/ WriteNative
    BY <1>1 DEF WriteJournald, RestartJournald, Backup, WriteManaged, WriteNative
  <1>2. CASE Reopen
    BY <1>2 DEF Reopen, Signal
  <1>3. CASE RotateManaged \/ Vacuum
    BY <1>3 DEF RotateManaged, Vacuum
  <1> QED
    BY <1>1, <1>2, <1>3 DEF Commanded

LEMMA GuestTypesKept == Types /\ NativeNext => NativeGuestTypes'
  <1> SUFFICES ASSUME Types, NativeNext PROVE NativeGuestTypes'
    OBVIOUS
  <1>1. CASE World
    BY <1>1, WorldTypes
  <1>2. CASE Looked
    BY <1>2, LookedStays DEF Types, NativeGuestTypes
  <1>3. CASE Begin
    BY <1>3 DEF Begin, Stay, Types, NativeGuestTypes, Guests
  <1>4. CASE Persist
    BY <1>4 DEF Persist, Stay, Types, NativeGuestTypes
  <1>5. CASE Commanded
    <2>1. guest' \in Guests
      <3> USE DEF Types, NativeGuestTypes, Command, Fails
      <3>1. CASE WriteJournald \/ RestartJournald \/ Backup
        BY <3>1, ZenonT(60) DEF WriteJournald, RestartJournald, Backup, Guests
      <3>2. CASE WriteManaged \/ WriteNative
        BY <3>2, ZenonT(60) DEF WriteManaged, WriteNative, Guests, StoreTypes, RunSet
      <3>3. CASE Reopen
        BY <3>3 DEF Reopen, Signal, Guests
      <3>4. CASE RotateManaged
        BY <3>4, RotatedType DEF RotateManaged
      <3>5. CASE Vacuum
        BY <3>5 DEF Vacuum
      <3> QED
        BY <1>5, <3>1, <3>2, <3>3, <3>4, <3>5 DEF Commanded
    <2> QED
      BY <1>5, <2>1, CommandedStays DEF Types, NativeGuestTypes
  <1> QED
    BY <1>1, <1>2, <1>3, <1>4, <1>5, Steps

LEMMA FaultsKept == Types /\ NativeNext => faults' \in 0..MaxFaults
  <1> SUFFICES ASSUME Types, NativeNext PROVE faults' \in 0..MaxFaults
    OBVIOUS
  <1>1. ASSUME UNCHANGED faults \/ Fault PROVE faults' \in 0..MaxFaults
    BY <1>1, NativeAssumption DEF Fault, Types, StoreTypes
  <1> USE DEF Stay, Fails, Go, Command
  <1>2. CASE World
    BY <1>1, <1>2, WorldStays
  <1>3. CASE Begin \/ Persist
    BY <1>1, <1>3 DEF Begin, Persist
  <1>4. CASE Commanded
    BY <1>1, <1>4 DEF Commanded, WriteJournald, RestartJournald, Backup, WriteManaged, WriteNative, Reopen,
                      Signal, RotateManaged, Vacuum
  <1>5. CASE FirstMarkers \/ SecondMarkers
    BY <1>1, <1>5 DEF FirstMarkers, SecondMarkers, Markers
  <1>6. CASE Looked /\ ~ FirstMarkers /\ ~ SecondMarkers
    BY <1>1, <1>6 DEF Looked, Ready, Tighten, ReadNative, ReadManaged, LookBefore, Reopened, LookAfter, Look,
                      Check, Fresh, Match, Authorize1, Authorize2, Authorize, After, Prune, StepFails
  <1> QED
    BY <1>2, <1>3, <1>4, <1>5, <1>6, Steps

LEMMA RunKept == Types /\ NativeNext => run' \in RunSet
  <1> SUFFICES ASSUME Types, NativeNext PROVE run' \in RunSet
    OBVIOUS
  <1> USE DEF Types, StoreTypes
  <1>1. ASSUME UNCHANGED run \/ Over("failed") \/ Over("ok") PROVE run' \in RunSet
    BY <1>1, OverType
  <1>2. CASE World
    BY <1>1, <1>2, WorldStays
  <1>3. CASE Begin
    BY <1>3, NoneTypes, ProbeType DEF Begin, RunSet, NativeGuestTypes
  <1>4. CASE Persist \/ Commanded
    BY <1>1, <1>4, CommandedStays DEF Persist
  <1>5. CASE FirstMarkers \/ SecondMarkers
    <2>1. ASSUME NEW p \in Probes, NEW at, NEW next, Markers(at, next, p)
          PROVE  run' \in RunSet
      <3>1. run' = [run EXCEPT !.arrived = {"journal"} \cup Eligible(p), !.outcome = "ok"] \/ Over("failed")
        BY <2>1 DEF Markers
      <3>2. {"journal"} \cup Eligible(p) \subseteq Streams
        BY DEF Eligible, Streams
      <3> QED
        BY <1>1, <3>1, <3>2 DEF RunSet
    <2>2. run.seen \in Probes /\ run.fresh \in Probes
      BY DEF RunSet
    <2> QED
      BY <1>5, <2>1, <2>2 DEF FirstMarkers, SecondMarkers
  <1>6. CASE ReadNative \/ ReadManaged
    BY <1>1, <1>6 DEF ReadNative, ReadManaged, Fails, Blocks, RunSet, NativeGuestTypes, Guests
  <1>7. CASE Fresh \/ After
    BY <1>1, <1>7, ProbeType DEF Fresh, After, Fails, RunSet, NativeGuestTypes
  <1>8. CASE LookBefore \/ LookAfter \/ Reopened
    BY <1>1, <1>8 DEF LookBefore, LookAfter, Reopened, Look, Check, Fails
  <1>9. CASE Ready \/ Tighten \/ Match \/ Authorize1 \/ Authorize2 \/ Prune \/ StepFails
    BY <1>1, <1>9 DEF Ready, Tighten, Match, Authorize1, Authorize2, Authorize, Prune, StepFails, Fails
  <1> QED
    BY <1>2, <1>3, <1>4, <1>5, <1>6, <1>7, <1>8, <1>9, Steps DEF Looked

\* The deliveries a run has seen.
LEMMA ProvedType == ASSUME Types PROVE
    Proved \subseteq [alloy : Configs \cup {"none"}, stream : Streams, policies : PolicySets]
  BY DEF Types, StoreTypes, RunSet, Probes, Proved

LEMMA ProofKept == Types /\ NativeNext => proof' \in ProofSet
  <1> SUFFICES ASSUME Types, NativeNext PROVE proof' \in ProofSet
    OBVIOUS
  <1>1. CASE Persist
    BY <1>1 DEF Persist, Types, StoreTypes, ProofSet, RunSet, Probes
  <1>2. CASE World \/ Begin \/ Commanded \/ Looked
    BY <1>2, WorldStays, CommandedStays, LookedStays DEF Begin, Types, StoreTypes
  <1> QED
    BY <1>1, <1>2, Steps

\* What the steps of a run do to the history.
LEMMA GhostSteps ==
    ASSUME Commanded \/ Looked \/ Begin
    PROVE  \/ UNCHANGED ghost
           \/ ghost' = [ghost EXCEPT !.own = FALSE]
           \/ RotateManaged /\ \E due \in BOOLEAN :
                ghost' = [ghost EXCEPT !.lost = @ \/ (due /\ Lingering /\ ~ghost.own)]
  <1> USE DEF Fails, Go
  <1>1. CASE Begin \/ Ready \/ Tighten \/ ReadNative \/ ReadManaged \/ Fresh \/ Match \/ After \/ Prune
             \/ StepFails
    BY <1>1 DEF Begin, Ready, Tighten, ReadNative, ReadManaged, Fresh, Match, After, Prune, StepFails
  <1>2. CASE FirstMarkers \/ SecondMarkers \/ Authorize1 \/ Authorize2
    BY <1>2 DEF FirstMarkers, SecondMarkers, Markers, Authorize1, Authorize2, Authorize
  <1>3. CASE LookBefore \/ LookAfter \/ Reopened \/ Reopen
    BY <1>3 DEF LookBefore, LookAfter, Reopened, Reopen, Look, Check, Signal
  <1>4. CASE WriteJournald \/ RestartJournald \/ Backup \/ WriteManaged \/ WriteNative \/ Vacuum
    BY <1>4 DEF WriteJournald, RestartJournald, Backup, WriteManaged, WriteNative, Vacuum
  <1>5. CASE RotateManaged
    BY <1>5 DEF RotateManaged
  <1> QED
    BY <1>1, <1>2, <1>3, <1>4, <1>5 DEF Commanded, Looked

LEMMA GhostKept == Types /\ NativeNext => ghost' \in GhostSet
  <1> SUFFICES ASSUME Types, NativeNext PROVE ghost' \in GhostSet
    OBVIOUS
  <1>1. CASE World
    BY <1>1, WorldTypes
  <1>2. CASE Persist
    BY <1>2, ProvedType DEF Persist, Types, GhostSet
  <1>3. CASE Begin \/ Commanded \/ Looked
    <2>1. \A due \in BOOLEAN : (ghost.lost \/ (due /\ Lingering /\ ~ghost.own)) \in BOOLEAN
      OBVIOUS
    <2> HIDE DEF Lingering
    <2> QED
      BY <1>3, <2>1, GhostSteps DEF Types, GhostSet
  <1> QED
    BY <1>1, <1>2, <1>3, Steps

LEMMA TypesKept == Types /\ [NativeNext]_nativeVars => Types'
  <1> SUFFICES ASSUME Types, [NativeNext]_nativeVars PROVE Types'
    OBVIOUS
  <1>1. CASE NativeNext
    BY <1>1, GuestTypesKept, FaultsKept, RunKept, ProofKept, GhostKept DEF Types, StoreTypes
  <1>2. CASE UNCHANGED nativeVars
    BY <1>2 DEF nativeVars, Types, NativeGuestTypes, StoreTypes
  <1> QED
    BY <1>1, <1>2

LEMMA TypesInit == NativeInit => Types
  <1> SUFFICES ASSUME NativeInit PROVE Types
    OBVIOUS
  <1>1. want \in Configs
    BY NativeAssumption DEF NativeInit
  <1>2. guest \in Guests /\ guest.native \subseteq Targets
    BY <1>1 DEF NativeInit, Guests
  <1>3. ghost \in GhostSet
    BY <1>2 DEF NativeInit, NoGhost, GhostSet
  <1>4. changes \in 0..MaxChanges /\ faults \in 0..MaxFaults /\ loki \in BOOLEAN
    BY NativeAssumption DEF NativeInit
  <1> QED
    BY <1>1, <1>2, <1>3, <1>4, NoneTypes DEF NativeInit, Types, NativeGuestTypes, StoreTypes

\* Guest, store, run and history keep their types in every behaviour.
THEOREM NativeTypeCorrect == NativeSpec => []NativeTypeOK
  <1>1. Types => NativeTypeOK
    BY DEF Types, NativeGuestTypes, StoreTypes, RunSet, ProofSet, GhostSet, NativeTypeOK
  <1> QED
    BY <1>1, TypesInit, TypesKept, PTL DEF NativeSpec

(***************************************************************************)
(* Vacuumed on proof.                                                      *)
(***************************************************************************)
\* What a proof claims was seen, by a run that ended with these policies.
Backed(p) ==
    LET now == {r \in ghost.proved : r.alloy = p.alloy /\ r.policies = p.policies}
    IN  /\ \E r \in now : r.stream = "journal"
        /\ p.file => \E r \in now : r.stream \in Profiles

\* The proof in the store is none or is backed; a run that may store one has seen the
\* journal; one that may vacuum matches what the store has.
ProofInv ==
    /\ proof = NoProof \/ Backed(proof)
    /\ run.outcome = "ok" => "journal" \in run.arrived
    /\ pc = "persist" => run.outcome = "ok"
    /\ pc # "idle" => run.alloy \in Configs
    /\ pc \in {"vacuum1", "vacuum2"} => Reused(run.fresh)

\* Seen deliveries are never forgotten.
LEMMA ProvedGrows == ASSUME Types, NativeNext PROVE ghost.proved \subseteq ghost'.proved
  <1>1. CASE World
    BY <1>1 DEF World, WorldChanges, GuestEdits, StanzasAppear, PolicyRemoved, GuestRotates, Types, GhostSet
  <1>2. CASE Persist
    BY <1>2 DEF Persist, Types, GhostSet
  <1>3. CASE Begin \/ Commanded \/ Looked
    <2> HIDE DEF Lingering
    <2> QED
      BY <1>3, GhostSteps DEF Types, GhostSet
  <1> QED
    BY <1>1, <1>2, <1>3, Steps

LEMMA BackedKept ==
    Types /\ ProofInv /\ NativeNext => (proof = NoProof \/ Backed(proof))'
  <1> SUFFICES ASSUME Types, ProofInv, NativeNext PROVE (proof = NoProof \/ Backed(proof))'
    OBVIOUS
  <1>1. CASE Persist
    <2>1. pc = "persist" /\ "journal" \in run.arrived
      BY <1>1 DEF Persist, Go, ProofInv
    <2>2. /\ proof' = [alloy |-> run.alloy, policies |-> run.fresh.policies,
                       file |-> run.arrived \cap Profiles # {}]
          /\ Proved \subseteq ghost'.proved
      BY <1>1 DEF Persist, Types, GhostSet
    <2>3. \A s \in run.arrived :
            \E r \in Proved : r.stream = s /\ r.alloy = run.alloy /\ r.policies = run.fresh.policies
      <3> TAKE s \in run.arrived
      <3>1. [alloy |-> run.alloy, stream |-> s, policies |-> run.fresh.policies] \in Proved
        BY DEF Proved
      <3> QED
        BY <3>1
    <2> QED
      BY <2>1, <2>2, <2>3, ZenonT(60) DEF Backed
  <1>2. ASSUME ~ Persist PROVE (proof = NoProof \/ Backed(proof))'
    <2>1. UNCHANGED proof
      BY <1>2, Steps, WorldStays, CommandedStays, LookedStays DEF Begin
    <2> QED
      BY <2>1, ProvedGrows DEF ProofInv, Backed
  <1> QED
    BY <1>1, <1>2

\* Which steps come to persist, and which to the vacuum.
LEMMA ProofInvKept == Types /\ ProofInv /\ [NativeNext]_nativeVars => ProofInv'
  <1> SUFFICES ASSUME Types, ProofInv, [NativeNext]_nativeVars PROVE ProofInv'
    OBVIOUS
  <1> DEFINE Rest == /\ run'.outcome = "ok" => "journal" \in run'.arrived
                     /\ pc' = "persist" => run'.outcome = "ok"
                     /\ pc' # "idle" => run'.alloy \in Configs
                     /\ pc' \in {"vacuum1", "vacuum2"} => Reused(run.fresh)'
  <1>1. ASSUME NativeNext PROVE Rest
    <2>1. ASSUME Over("failed") \/ Over("ok") PROVE Rest
      BY <2>1 DEF Over, NoRun
    <2>2. ASSUME UNCHANGED run, pc' \notin {"idle", "persist", "vacuum1", "vacuum2"}, pc # "idle" PROVE Rest
      BY <2>2 DEF ProofInv
    <2> USE DEF Types, StoreTypes
    <2>3. CASE World
      BY <2>3, WorldStays DEF ProofInv, Reused
    <2>4. CASE Begin
      BY <2>4 DEF Begin, Go, NoRun, NativeGuestTypes
    <2>5. CASE FirstMarkers \/ SecondMarkers
      <3>1. ASSUME NEW at, NEW next, NEW p, Markers(at, next, p), at # "idle",
                   next \notin {"vacuum1", "vacuum2"}
            PROVE  Rest
        <4>1. \/ Over("failed")
              \/ pc' = next /\ run' = [run EXCEPT !.arrived = {"journal"} \cup Eligible(p), !.outcome = "ok"]
          BY <3>1 DEF Markers
        <4> QED
          BY <2>1, <3>1, <4>1, ZenonT(60) DEF Markers, ProofInv, RunSet
      <3> QED
        BY <2>5, <3>1 DEF FirstMarkers, SecondMarkers
    <2>6. CASE Fresh \/ After
      BY <2>1, <2>6 DEF Fresh, After, Fails, Go, ProofInv, RunSet
    <2>7. CASE Authorize1 \/ Authorize2
      BY <2>1, <2>7 DEF Authorize1, Authorize2, Authorize, MayDelete, Fails, Go, ProofInv, Reused
    <2>8. CASE Ready \/ Tighten \/ Match \/ Prune \/ StepFails
      BY <2>1, <2>2, <2>8 DEF Ready, Tighten, Match, Prune, StepFails, Fails, Go, Queries, Commands
    <2>9. CASE ReadNative \/ ReadManaged
      BY <2>1, <2>9 DEF ReadNative, ReadManaged, Fails, Go, ProofInv, RunSet
    <2>10. CASE LookBefore \/ LookAfter \/ Reopened
      BY <2>1, <2>2, <2>10 DEF LookBefore, LookAfter, Reopened, Look, Check, Fails, Go
    <2>11. CASE WriteJournald \/ RestartJournald \/ Backup \/ WriteManaged \/ WriteNative
      BY <2>1, <2>2, <2>11 DEF WriteJournald, RestartJournald, Backup, WriteManaged, WriteNative, Command, Fails
    <2>12. CASE Reopen \/ RotateManaged \/ Vacuum
      BY <2>1, <2>2, <2>12 DEF Reopen, Signal, RotateManaged, Vacuum, Command, Go
    <2>13. CASE Persist
      BY <2>2, <2>13 DEF Persist, Go
    <2> QED
      BY <1>1, <2>3, <2>4, <2>5, <2>6, <2>7, <2>8, <2>9, <2>10, <2>11, <2>12, <2>13, Steps
      DEF Commanded, Looked
  <1>2. CASE NativeNext
    BY <1>1, <1>2, BackedKept DEF ProofInv
  <1>3. CASE UNCHANGED nativeVars
    BY <1>3 DEF nativeVars, ProofInv, Backed, Reused
  <1> QED
    BY <1>2, <1>3

\* Whatever fails, dies, is edited or reused: a journal is vacuumed only when its marker, and
\* one through an application if there is one that counts, reached Loki under this
\* configuration, by a run that ended with these policies (verification_reused,
\* _persist_verification, _authorize_deletion).
THEOREM AlwaysVacuumOnProof == NativeSpec => []VacuumOnProof
  <1>1. NativeInit => ProofInv
    BY DEF NativeInit, ProofInv, NoRun
  <1>2. Types /\ ProofInv => VacuumOnProof
    <2> SUFFICES ASSUME Types, ProofInv, pc \in {"vacuum1", "vacuum2"} PROVE VacuumOnProof
      BY DEF VacuumOnProof
    <2>1. Reused(run.fresh) /\ run.alloy \in Configs
      BY DEF ProofInv
    <2>2. proof # NoProof
      BY <2>1, NativeAssumption DEF Reused, NoProof
    <2> QED
      BY <2>1, <2>2 DEF ProofInv, Backed, Reused, VacuumOnProof
  <1> QED
    BY <1>1, <1>2, TypesInit, TypesKept, ProofInvKept, PTL DEF NativeSpec

(***************************************************************************)
(* No line lost by the manager's rotation.                                 *)
(***************************************************************************)
\* About to rotate, either nobody writes to a rotated log or the guest has rotated by
\* itself since the last look.
TailInv ==
    /\ ~ ghost.lost
    /\ pc = "rotate" /\ Lingering => ghost.own

LEMMA TailInvKept == Types /\ TailInv /\ [NativeNext]_nativeVars => TailInv'
  <1> SUFFICES ASSUME Types, TailInv, [NativeNext]_nativeVars PROVE TailInv'
    OBVIOUS
  <1> DEFINE Elsewhere == pc' # "rotate" /\ ghost'.lost = ghost.lost
  <1>1. ASSUME Elsewhere PROVE TailInv'
    BY <1>1 DEF TailInv
  <1>2. CASE World
    <2> USE DEF Types, NativeGuestTypes, GhostSet, Guests, TailInv, Lingering
    <2>1. UNCHANGED pc
      BY <1>2, WorldStays
    <2>2. CASE WorldChanges
      BY <2>1, <2>2 DEF WorldChanges
    <2>3. CASE GuestEdits
      BY <2>1, <2>3 DEF GuestEdits
    <2>4. CASE StanzasAppear \/ PolicyRemoved
      BY <2>1, <2>4 DEF StanzasAppear, PolicyRemoved
    <2>5. CASE GuestRotates
      BY <2>1, <2>5 DEF GuestRotates
    <2> QED
      BY <1>2, <2>2, <2>3, <2>4, <2>5 DEF World
  <1>3. CASE LookBefore \/ LookAfter \/ Reopened
    <2>1. UNCHANGED guest /\ ghost'.lost = ghost.lost
      BY <1>3 DEF LookBefore, LookAfter, Reopened, Look, Check, Fails, Types, GhostSet
    <2>2. pc' = "rotate" => ~ Lingering
      BY <1>3 DEF LookBefore, LookAfter, Reopened, Look, Check, Fails, Over, Go
    <2> QED
      BY <2>1, <2>2 DEF TailInv, Lingering
  <1>4. CASE RotateManaged
    <2>1. pc = "rotate" /\ pc' # "rotate"
      BY <1>4 DEF RotateManaged, Command, Over
    <2>2. PICK due \in BOOLEAN : ghost' = [ghost EXCEPT !.lost = @ \/ (due /\ Lingering /\ ~ghost.own)]
      BY <1>4 DEF RotateManaged
    <2>3. ~ ghost'.lost
      BY <2>1, <2>2 DEF TailInv, Types, GhostSet
    <2> QED
      BY <2>1, <2>3 DEF TailInv
  <1>5. CASE Begin \/ Persist
    BY <1>1, <1>5 DEF Begin, Persist, Go, Types, GhostSet
  <1>6. CASE WriteJournald \/ RestartJournald \/ Backup \/ WriteManaged \/ WriteNative \/ Reopen \/ Vacuum
    BY <1>1, <1>6 DEF WriteJournald, RestartJournald, Backup, WriteManaged, WriteNative, Reopen, Signal,
                      Vacuum, Command, Fails, Over, Go
  <1>7. CASE FirstMarkers \/ SecondMarkers \/ Authorize1 \/ Authorize2
    BY <1>1, <1>7 DEF FirstMarkers, SecondMarkers, Markers, Authorize1, Authorize2, Authorize, Fails, Over, Go
  <1>8. CASE Ready \/ Tighten \/ ReadNative \/ ReadManaged \/ Fresh \/ Match \/ After \/ Prune \/ StepFails
    BY <1>1, <1>8 DEF Ready, Tighten, ReadNative, ReadManaged, Fresh, Match, After, Prune, StepFails, Fails,
                      Over, Go
  <1>9. CASE UNCHANGED nativeVars
    BY <1>9 DEF nativeVars, TailInv, Lingering
  <1> QED
    BY <1>2, <1>3, <1>4, <1>5, <1>6, <1>7, <1>8, <1>9, Steps DEF Commanded, Looked

\* Wherever a run dies between a rotation and the reopening, the manager never compresses a
\* log that the proxy still writes to (_apply_npm_cutover).
THEOREM AlwaysTailKept == NativeSpec => []TailKept
  <1>1. NativeInit => TailInv
    BY DEF NativeInit, NoGhost, TailInv
  <1>2. TailInv => TailKept
    BY DEF TailInv, TailKept
  <1> QED
    BY <1>1, <1>2, TypesInit, TypesKept, TailInvKept, PTL DEF NativeSpec

(***************************************************************************)
(* No log without a policy.                                                *)
(***************************************************************************)
\* The native file covers all that is governed, or nothing, and then the manager's policy
\* does.  A run that moves stanzas writes what the native file has at least, and empties
\* that file with the same stanzas in the manager's.
PolicyInv ==
    /\ ghost.governed \subseteq guest.native \cup guest.managed
    /\ guest.native = {} \/ ghost.governed \subseteq guest.native
    /\ pc \in {"readmanaged", "backup", "managed", "native"} => run.native \subseteq guest.native
    /\ pc \in {"backup", "managed", "native"} /\ run.native # {} => run.blocks = run.native
    /\ pc \in {"backup", "native"} => run.native # {}
    /\ pc = "managed" /\ run.native = {} => run.blocks = guest.managed
    /\ pc = "native" => guest.managed = run.blocks

\* The other steps of a run change neither stanzas nor what a run knows of them, and do not
\* enter the cutover.
LEMMA PolicyElsewhere ==
    ASSUME Types, PolicyInv, ghost'.governed = ghost.governed, guest'.native = guest.native,
           guest'.managed = guest.managed,
           pc' \notin {"readmanaged", "backup", "managed", "native"}
    PROVE  PolicyInv'
  BY DEF PolicyInv

LEMMA PolicyWorld == ASSUME Types, PolicyInv, ~ Partial, World PROVE PolicyInv'
  <1> USE DEF Types, NativeGuestTypes, GhostSet, Guests
  <1>1. UNCHANGED <<run, pc>>
    BY WorldStays
  <1>2. CASE WorldChanges \/ GuestEdits \/ GuestRotates
    <2>1. ghost'.governed = ghost.governed
      BY <1>2 DEF WorldChanges, GuestEdits, GuestRotates
    <2>2. guest'.native = guest.native /\ guest'.managed = guest.managed
      BY <1>2 DEF WorldChanges, GuestEdits, GuestRotates, Rotated
    <2> QED
      BY <1>1, <2>1, <2>2 DEF PolicyInv
  <1>3. CASE StanzasAppear
    <2>1. PICK s \in SUBSET Targets \ {{}} :
            /\ ghost.governed \subseteq s
            /\ guest' = [guest EXCEPT !.native = @ \cup s, !.odd = FALSE]
            /\ ghost' = [ghost EXCEPT !.governed = @ \cup s]
      BY <1>3 DEF StanzasAppear
    <2>2. /\ guest'.native = guest.native \cup s /\ guest'.managed = guest.managed
          /\ ghost'.governed \subseteq guest'.native
      BY <2>1
    <2> QED
      BY <1>1, <2>2 DEF PolicyInv
  <1>4. CASE PolicyRemoved
    <2>1. /\ pc \notin {"managed", "native"}
          /\ guest'.native = guest.native /\ guest'.managed = {}
          /\ ghost'.governed = ghost.governed \ guest.managed
      BY <1>4 DEF PolicyRemoved
    <2> QED
      BY <1>1, <2>1 DEF PolicyInv
  <1> QED
    BY <1>2, <1>3, <1>4 DEF World

LEMMA PolicyCommanded == ASSUME Types, PolicyInv, Commanded PROVE PolicyInv'
  <1> USE DEF Types, NativeGuestTypes, GhostSet, Guests
  <1>1. ghost'.governed = ghost.governed
    BY GhostSteps
  <1>2. CASE WriteJournald \/ RestartJournald \/ Reopen \/ Vacuum
    <2>1. guest'.native = guest.native /\ guest'.managed = guest.managed
      BY <1>2 DEF WriteJournald, RestartJournald, Reopen, Vacuum, Signal, Command
    <2>2. pc' \notin {"readmanaged", "backup", "managed", "native"}
      BY <1>2 DEF WriteJournald, RestartJournald, Reopen, Vacuum, Signal, Command, Over, Go
    <2> QED
      BY <1>1, <2>1, <2>2, PolicyElsewhere
  <1>3. CASE RotateManaged
    <2>1. guest'.native = guest.native /\ guest'.managed = guest.managed
      BY <1>3 DEF RotateManaged, Rotated, Command
    <2>2. pc' \notin {"readmanaged", "backup", "managed", "native"}
      BY <1>3 DEF RotateManaged, Command, Over
    <2> QED
      BY <1>1, <2>1, <2>2, PolicyElsewhere
  <1>4. CASE Backup
    <2>1. guest'.native = guest.native /\ guest'.managed = guest.managed /\ pc = "backup"
      BY <1>4 DEF Backup, Command
    <2>2. (pc' = "managed" /\ UNCHANGED run) \/ pc' = "idle"
      BY <1>4 DEF Backup, Command, Over
    <2> QED
      BY <1>1, <2>1, <2>2 DEF PolicyInv
  <1>5. CASE WriteManaged
    <2>1. guest'.native = guest.native /\ guest'.managed = run.blocks /\ pc = "managed"
      BY <1>5 DEF WriteManaged, Command
    <2>2. \/ pc' = (IF run.native # {} THEN "native" ELSE "look1") /\ UNCHANGED run
          \/ pc' = "idle"
      BY <1>5 DEF WriteManaged, Command, Over
    <2> QED
      BY <1>1, <2>1, <2>2 DEF PolicyInv
  <1>6. CASE WriteNative
    <2>1. CASE UNCHANGED guest
      BY <1>1, <1>6, <2>1, PolicyElsewhere DEF WriteNative, Fails, Command, Over
    <2>2. CASE guest' = [guest EXCEPT !.native = {}] /\ guest.native = run.native
      <3>1. pc = "native" /\ pc' \in {"look1", "idle"}
        BY <1>6, <2>2 DEF WriteNative, Fails, Command, Over
      <3>2. guest'.native = {} /\ guest'.managed = guest.managed /\ ghost.governed \subseteq guest.managed
        BY <2>2, <3>1 DEF PolicyInv
      <3> QED
        BY <1>1, <3>1, <3>2 DEF PolicyInv
    <2> QED
      BY <1>6, <2>1, <2>2 DEF WriteNative, Fails, Command
  <1> QED
    BY <1>2, <1>3, <1>4, <1>5, <1>6 DEF Commanded

LEMMA PolicyLooked == ASSUME Types, PolicyInv, Looked PROVE PolicyInv'
  <1> USE DEF Types, GhostSet
  <1>1. ghost'.governed = ghost.governed /\ UNCHANGED guest
    <2>1. ghost' = ghost \/ ghost' = [ghost EXCEPT !.own = FALSE]
      BY GhostSteps, LookedStays DEF Looked, LookBefore, LookAfter, Reopened, Look, Check, Fails, Ready,
         FirstMarkers, SecondMarkers, Markers, Tighten, ReadNative, ReadManaged, Fresh, Match,
         Authorize1, Authorize2, Authorize, After, Prune, StepFails
    <2> QED
      BY <2>1, LookedStays
  <1>2. CASE ReadNative
    <2>1. \/ pc' = "readmanaged" /\ run' = [run EXCEPT !.native = guest.native]
          \/ pc' = "idle"
      BY <1>2 DEF ReadNative, Fails, Over, Go
    <2> QED
      BY <1>1, <2>1 DEF PolicyInv, StoreTypes, RunSet
  <1>3. CASE ReadManaged
    <2>1. \/ /\ pc = "readmanaged" /\ run' = [run EXCEPT !.blocks = Blocks]
             /\ pc' = IF run.native # {} THEN "backup"
                       ELSE IF guest.managed # Blocks \/ guest.edited THEN "managed" ELSE "look1"
          \/ pc' = "idle"
      BY <1>3 DEF ReadManaged, Fails, Over
    <2>2. CASE pc' = "idle"
      BY <1>1, <2>2, PolicyElsewhere
    <2>3. CASE pc' # "idle" /\ run.native # {}
      BY <1>1, <2>1, <2>3 DEF PolicyInv, StoreTypes, RunSet, Blocks
    <2>4. CASE pc' # "idle" /\ run.native = {}
      BY <1>1, <2>1, <2>4 DEF PolicyInv, StoreTypes, RunSet, Blocks
    <2> QED
      BY <2>2, <2>3, <2>4
  <1>4. ASSUME ~ ReadNative, ~ ReadManaged
        PROVE  pc' \notin {"readmanaged", "backup", "managed", "native"}
    <2>1. CASE Ready \/ Tighten \/ Fresh \/ Match \/ After \/ Prune \/ StepFails
      BY <2>1 DEF Ready, Tighten, Fresh, Match, After, Prune, StepFails, Fails, Over, Go
    <2>2. CASE FirstMarkers \/ SecondMarkers \/ Authorize1 \/ Authorize2
      BY <2>2 DEF FirstMarkers, SecondMarkers, Markers, Authorize1, Authorize2, Authorize, Fails, Over, Go
    <2>3. CASE LookBefore \/ LookAfter \/ Reopened
      BY <2>3 DEF LookBefore, LookAfter, Reopened, Look, Check, Fails, Over, Go
    <2> QED
      BY <1>4, <2>1, <2>2, <2>3 DEF Looked
  <1> QED
    BY <1>1, <1>2, <1>3, <1>4, PolicyElsewhere

LEMMA PolicyInvKept == Types /\ PolicyInv /\ ~ Partial /\ [NativeNext]_nativeVars => PolicyInv'
  <1> SUFFICES ASSUME Types, PolicyInv, ~ Partial, [NativeNext]_nativeVars PROVE PolicyInv'
    OBVIOUS
  <1>1. CASE World
    BY <1>1, PolicyWorld
  <1>2. CASE Commanded
    BY <1>2, PolicyCommanded
  <1>3. CASE Looked
    BY <1>3, PolicyLooked
  <1>4. CASE Begin
    BY <1>4, PolicyElsewhere DEF Begin, Go, Types, NativeGuestTypes, Guests
  <1>5. CASE Persist
    BY <1>5, PolicyElsewhere DEF Persist, Go, Types, GhostSet
  <1>6. CASE UNCHANGED nativeVars
    BY <1>6 DEF nativeVars, PolicyInv
  <1> QED
    BY <1>1, <1>2, <1>3, <1>4, <1>5, <1>6, Steps

\* Where stanzas come back to the native file all together, no step of the cutover, no death
\* of the manager in it and no package in between leaves a log without the rotation policy it
\* had (_apply_npm_cutover, npm_cutover_commands).
THEOREM AlwaysPolicyKept == ~ Partial => (NativeSpec => []PolicyKept)
  <1> SUFFICES ASSUME ~ Partial PROVE NativeSpec => []PolicyKept
    OBVIOUS
  <1>1. NativeInit => PolicyInv
    BY DEF NativeInit, PolicyInv, NoGhost
  <1>2. PolicyInv => PolicyKept
    BY DEF PolicyInv, PolicyKept
  <1>3. Types /\ PolicyInv /\ [NativeNext]_nativeVars => PolicyInv'
    BY PolicyInvKept
  <1> QED
    BY <1>1, <1>2, <1>3, TypesInit, TypesKept, PTL DEF NativeSpec

=============================================================================
