-------------------------- MODULE DiskUsage_proofs --------------------------
(***************************************************************************)
(* Theorems about DiskUsage, for any tree, limits and numbers of changes,  *)
(* errors and reports.                                                     *)
(***************************************************************************)
EXTENDS DiskUsage, FiniteSetTheorems, WellFoundedInduction, TLAPS

-----------------------------------------------------------------------------
(***************************************************************************)
(* The tree.  Path is a recursive function: that it obeys its definition   *)
(* is shown with what it must be, the names in every set that holds n and, *)
(* with a name, its parent.                                                *)
(***************************************************************************)
UpClosed(S) == \A x \in S \cap Names : Parent[x] \in S

Above(n) == {m \in Names : \A S \in SUBSET (Names \cup {Root}) : n \in S /\ UpClosed(S) => m \in S}

LEMMA AboveStep ==
    /\ Above(Root) = {}
    /\ \A n \in Names : Above(n) = {n} \cup Above(Parent[n])
  <1>1. Above(Root) = {}
    <2>1. UpClosed({Root})
      BY DiskAssumption DEF UpClosed
    <2> QED
      BY <2>1, DiskAssumption DEF Above
  <1>2. ASSUME NEW n \in Names PROVE Above(n) = {n} \cup Above(Parent[n])
    <2>1. Parent[n] \in Names \cup {Root}
      BY DiskAssumption DEF Names
    <2>2. ASSUME NEW m \in Above(n), m # n PROVE m \in Above(Parent[n])
      <3> SUFFICES ASSUME NEW S \in SUBSET (Names \cup {Root}), Parent[n] \in S, UpClosed(S)
                   PROVE  m \in S
        BY <2>2 DEF Above
      <3>1. UpClosed(S \cup {n})
        BY DEF UpClosed
      <3> QED
        BY <2>2, <3>1 DEF Above
    <2>3. {n} \cup Above(Parent[n]) \subseteq Above(n)
      BY <2>1 DEF Above, UpClosed
    <2> QED
      BY <2>2, <2>3
  <1> QED
    BY <1>1, <1>2

LEMMA PathStep ==
    /\ Path[Root] = {}
    /\ \A n \in Names : Path[n] = {n} \cup Path[Parent[n]]
  <1> DEFINE P == [n \in Names \cup {Root} |-> Above(n)]
  <1>1. \A n \in Names : Parent[n] \in Names \cup {Root}
    BY DiskAssumption DEF Names
  <1>2. P = [n \in Names \cup {Root} |-> IF n = Root THEN {} ELSE {n} \cup P[Parent[n]]]
    BY <1>1, AboveStep, DiskAssumption
  <1> HIDE DEF P
  <1>3. \E f : f = [n \in Names \cup {Root} |-> IF n = Root THEN {} ELSE {n} \cup f[Parent[n]]]
    BY <1>2
  <1>4. Path = [n \in Names \cup {Root} |-> IF n = Root THEN {} ELSE {n} \cup Path[Parent[n]]]
    BY <1>3 DEF Path
  <1> QED
    BY <1>1, <1>4, DiskAssumption

\* Every nonempty set of natural numbers has a least one.
LEMMA Least == ASSUME NEW T \in SUBSET Nat, T # {} PROVE \E x \in T : \A y \in T : x <= y
  <1>1. \E x \in T : \A y \in T : ~ (<<y, x>> \in OpToRel(<, Nat))
    BY WFMin, NatLessThanWellFounded
  <1>2. \A a, b \in Nat : a < b => <<a, b>> \in OpToRel(<, Nat)
    BY DEF OpToRel
  <1>3. PICK x \in T : \A y \in T : ~ (<<y, x>> \in OpToRel(<, Nat))
    BY <1>1
  <1>4. \A y \in T : ~ (y < x)
    BY <1>2, <1>3
  <1>5. \A y \in T : x <= y
    BY <1>4
  <1> QED
    BY <1>5

\* What goes wrong for some name goes wrong for one whose parent is fine, or the root.
LEMMA Highest ==
    ASSUME NEW Bad \in SUBSET Names, Bad # {}
    PROVE  \E n \in Bad : Parent[n] \notin Bad
  <1>1. PICK depth \in [Names \cup {Root} -> 0 .. Cardinality(Names)] :
               \A n \in Names : depth[Parent[n]] < depth[n]
    BY DiskAssumption
  <1>2. \A n \in Names : depth[n] \in Nat
    BY <1>1
  <1> DEFINE T == {depth[n] : n \in Bad}
  <1>3. T \in SUBSET Nat /\ T # {}
    BY <1>2
  <1>4. PICK x \in T : \A y \in T : x <= y
    BY <1>3, Least
  <1>5. PICK n \in Bad : depth[n] = x
    BY <1>4
  <1>6. ASSUME Parent[n] \in Bad PROVE FALSE
    <2>1. depth[n] <= depth[Parent[n]]
      BY <1>4, <1>5, <1>6
    <2>2. depth[Parent[n]] < depth[n] /\ depth[n] \in Nat /\ depth[Parent[n]] \in Nat
      BY <1>1, <1>2, <1>6
    <2> QED
      BY <2>1, <2>2
  <1> QED
    BY <1>5, <1>6

LEMMA PathNames == \A n \in Names \cup {Root} : Path[n] \subseteq Names
  <1> DEFINE Bad == {n \in Names : ~ (Path[n] \subseteq Names)}
  <1>1. ASSUME Bad # {} PROVE FALSE
    <2>1. PICK n \in Bad : Parent[n] \notin Bad
      BY <1>1, Highest
    <2>2. Parent[n] \in Names \cup {Root}
      BY DiskAssumption DEF Names
    <2>3. Path[Parent[n]] \subseteq Names
      BY <2>1, <2>2, PathStep
    <2> QED
      BY <2>1, <2>3, PathStep
  <1> QED
    BY <1>1, PathStep

\* Above what is above n is above n.
LEMMA PathTransitive == \A n \in Names : \A m \in Path[n] : Path[m] \subseteq Path[n]
  <1> DEFINE Bad == {n \in Names : \E m \in Path[n] : ~ (Path[m] \subseteq Path[n])}
  <1>1. ASSUME Bad # {} PROVE FALSE
    <2>1. PICK n \in Bad : Parent[n] \notin Bad
      BY <1>1, Highest
    <2>2. PICK m \in Path[n] : ~ (Path[m] \subseteq Path[n])
      BY <2>1
    <2>3. m # n /\ m \in Path[Parent[n]] /\ Path[Parent[n]] \subseteq Path[n]
      BY <2>2, PathStep
    <2>4. Parent[n] \in Names
      BY <2>3, PathStep, DiskAssumption DEF Names
    <2>5. Path[m] \subseteq Path[Parent[n]]
      BY <2>1, <2>3, <2>4
    <2> QED
      BY <2>2, <2>3, <2>5
  <1> QED
    BY <1>1

\* All but a name itself are directories.
LEMMA PathDirs == \A n \in Names : \A m \in Path[n] : m = n \/ (m \in Dirs /\ m \in Path[Parent[n]])
  <1> DEFINE Bad == {n \in Names : \E m \in Path[n] : m # n /\ m \notin Dirs}
  <1>1. ASSUME Bad # {} PROVE FALSE
    <2>1. PICK n \in Bad : Parent[n] \notin Bad
      BY <1>1, Highest
    <2>2. PICK m \in Path[n] : m # n /\ m \notin Dirs
      BY <2>1
    <2>3. m \in Path[Parent[n]] /\ Parent[n] \in Dirs
      BY <2>2, PathStep, DiskAssumption
    <2>4. Parent[n] \in Names /\ m # Parent[n]
      BY <2>2, <2>3 DEF Names
    <2> QED
      BY <2>1, <2>2, <2>3, <2>4
  <1> QED
    BY <1>1, PathStep

\* On the way from a directory down to a name there is an entry of the directory.
LEMMA NextDown ==
    ASSUME NEW n \in Names, NEW d \in Dirs \cup {Root}, d = Root \/ d \in Path[n], d # n
    PROVE  \E m \in Path[n] : Parent[m] = d
  <1> DEFINE Bad == {x \in Names : /\ d = Root \/ d \in Path[x]
                                   /\ d # x /\ ~ \E m \in Path[x] : Parent[m] = d}
  <1>1. ASSUME Bad # {} PROVE FALSE
    <2>1. PICK x \in Bad : Parent[x] \notin Bad
      BY <1>1, Highest
    <2>2. Path[x] = {x} \cup Path[Parent[x]]
      BY PathStep
    <2>3. Parent[x] # d
      BY <2>1, <2>2
    <2>4. Parent[x] \in Names
      BY <2>1, <2>2, <2>3, PathStep, DiskAssumption DEF Names
    <2>5. d = Root \/ d \in Path[Parent[x]]
      BY <2>1, <2>2
    <2>6. PICK m \in Path[Parent[x]] : Parent[m] = d
      BY <2>1, <2>3, <2>4, <2>5
    <2> QED
      BY <2>1, <2>2, <2>6
  <1> QED
    BY <1>1

LEMMA Tree ==
    /\ \A n \in Names : n \in Path[n] /\ Path[n] \subseteq Names /\ Parent[n] \in Dirs \cup {Root}
    /\ \A f \in Files : \A d \in Dirs : d \in Path[f] <=> f \in Under(d)
    /\ \A d \in Dirs : Under(d) \subseteq Names
    /\ Dirs \subseteq Names /\ Files \subseteq Names /\ Dirs \cap Files = {} /\ Root \notin Names
  BY PathStep, PathNames, DiskAssumption DEF Under, Names

-----------------------------------------------------------------------------
(***************************************************************************)
(* Types.                                                                  *)
(***************************************************************************)
Tables   == UNION {[D -> Nat] : D \in SUBSET Dirs}
Messages == [kind : {"none", "unavailable", "progress", "complete", "partial"}, alloc : Tables]
Frames   == [dir : Dirs \cup {Root}, left : SUBSET Names]
Steps    == {"new", "walk", "open", "told", "part", "rest", "end", "exit", "exited", "killed"}

Workers == [pc : Steps, stack : Seq(Frames), at : [name : Names \cup {"none"}, ino : Inodes \cup {0}],
            seen : SUBSET Inodes, visited : Nat, errors : Nat, partial : BOOLEAN,
            before : SUBSET Names, msg : Messages, sent : Nat, alloc : Tables]

Parents == [pc : {"select", "read", "reap", "drain", "close", "done"}, latest : Messages,
            reaped : BOOLEAN]

GuestTypes ==
    /\ node \in [Names -> Inodes \cup {0}] /\ mounted \subseteq Names
    /\ still \subseteq Names /\ ever \subseteq Files \X Inodes /\ changes \in Nat

WorkTypes ==
    /\ w \in Workers /\ pipe \in Seq(Messages) /\ Len(pipe) <= PipeCap
    /\ clock \in 0 .. 2 /\ parent \in Parents

\* Nothing is said before the walk begins; its stack is there as long as it goes on.
Stages ==
    /\ w.pc = "new" =>
         /\ w.stack = <<>> /\ w.seen = {} /\ w.alloc = <<>> /\ w.msg = None /\ w.before = {}
         /\ pipe = <<>> /\ parent.latest = None /\ \A d \in Dirs : node[d] # 0
    /\ w.pc \in {"open", "told"} \/ (w.pc \in {"part", "rest"} /\ w.msg.kind = "progress")
         => w.stack # <<>>
    /\ w.pc = "open" => w.at.name \in Names /\ w.at.ino # 0

Types == GuestTypes /\ WorkTypes /\ Stages

LEMMA NoneType ==
    None \in Messages /\ <<>> \in Tables /\ DOMAIN None.alloc = {} /\ <<>> \in Seq(Frames)
  <1>1. <<>> \in [{} -> Nat]
    OBVIOUS
  <1>2. <<>> \in Tables
    BY <1>1 DEF Tables
  <1> QED
    BY <1>1, <1>2 DEF None, Messages

LEMMA InodesFinite ==
    /\ Inodes \subseteq Nat \ {0} /\ IsFiniteSet(Inodes)
    /\ Cardinality(Files) \in Nat /\ 0 .. Cardinality(Files) \subseteq Inodes \cup {0}
  <1>1. IsFiniteSet(Files)
    BY DiskAssumption, FS_Subset DEF Names
  <1>2. Cardinality(Files) \in Nat /\ MaxChanges \in Nat
    BY <1>1, FS_CardinalityType, DiskAssumption
  <1>3. IsFiniteSet(Inodes)
    BY <1>2, FS_Interval DEF Inodes
  <1> QED
    BY <1>2, <1>3 DEF Inodes

LEMMA TableUpdate ==
    ASSUME NEW t \in Tables, NEW D \in SUBSET Dirs, NEW f \in [D -> Nat]
    PROVE  f \in Tables /\ DOMAIN t \subseteq Dirs /\ \A d \in DOMAIN t : t[d] \in Nat
  BY DEF Tables

(***************************************************************************)
(* What a change of the guest does and leaves alone.                       *)
(***************************************************************************)
Current == \A n \in Files : node[n] # 0 => <<n, node[n]>> \in ever

\* No name of S, nor one below it, is still untouched.
LEMMA Touched ==
    ASSUME NEW S, Changed(S), NEW n \in still', NEW m \in Path[n], n \in Names
    PROVE  n \in still /\ m \notin S
  BY PathNames DEF Changed

LEMMA GuestKeeps ==
    ASSUME Types, Guest
    PROVE  /\ Walking /\ UNCHANGED <<w, pipe, stuck, clock, parent>>
           /\ GuestTypes' /\ Current' /\ ever \subseteq ever' /\ still' \subseteq still
           /\ \A e \in ever' : e \in ever \/ e[2] = node'[e[1]]
           /\ \A n \in still' : \A m \in Path[n] :
                node'[m] = node[m] /\ (m \in mounted' <=> m \in mounted)
  <1> DEFINE Goal(S) == \A n \in still' : \A m \in Path[n] : m \in Names /\ m \notin S
  <1>1. ASSUME NEW S, Changed(S), node' \in [Names -> Inodes \cup {0}], mounted' \subseteq Names
        PROVE  /\ Walking /\ UNCHANGED <<w, pipe, stuck, clock, parent>>
               /\ GuestTypes' /\ Current' /\ ever \subseteq ever' /\ still' \subseteq still
               /\ \A e \in ever' : e \in ever \/ e[2] = node'[e[1]]
               /\ Goal(S)
    <2>1. Goal(S)
      <3> SUFFICES ASSUME NEW n \in still', NEW m \in Path[n] PROVE m \in Names /\ m \notin S
        OBVIOUS
      <3>1. n \in Names
        BY <1>1 DEF Changed, Types, GuestTypes
      <3> QED
        BY <1>1, <3>1, Touched, PathNames
    <2>2. ever' \subseteq Files \X Inodes
      BY <1>1, Tree DEF Changed, Types, GuestTypes
    <2>3. GuestTypes'
      BY <1>1, <2>2 DEF Changed, Types, GuestTypes
    <2>4. Current' /\ ever \subseteq ever' /\ \A e \in ever' : e \in ever \/ e[2] = node'[e[1]]
      BY <1>1 DEF Changed, Current
    <2> QED
      BY <1>1, <2>1, <2>3, <2>4 DEF Changed
  <1>2. CASE Remove
    <2>1. PICK k \in Names : /\ node' = [m \in Names |-> IF k \in Path[m] THEN 0 ELSE node[m]]
                             /\ Changed({k}) /\ UNCHANGED mounted
      BY <1>2 DEF Remove
    <2>2. node' \in [Names -> Inodes \cup {0}] /\ mounted' \subseteq Names
      BY <2>1 DEF Types, GuestTypes
    <2>3. Goal({k})
      BY <1>1, <2>1, <2>2
    <2>4. ASSUME NEW n \in still', NEW m \in Path[n] PROVE k \notin Path[m]
      <3>1. n \in Names
        BY <2>1 DEF Changed, Types, GuestTypes
      <3> QED
        BY <2>3, <3>1, PathTransitive
    <2>5. \A n \in still' : \A m \in Path[n] : node'[m] = node[m]
      BY <2>1, <2>3, <2>4
    <2> HIDE DEF Goal
    <2> QED
      BY <1>1, <2>1, <2>2, <2>5
  <1>3. CASE Create
    <2>1. PICK k \in Files, i \in Inodes :
            /\ node' = [node EXCEPT ![k] = i] /\ Changed({k} \cup Links(i)) /\ UNCHANGED mounted
      BY <1>3 DEF Create
    <2>2. node' \in [Names -> Inodes \cup {0}] /\ mounted' \subseteq Names
      BY <2>1 DEF Types, GuestTypes
    <2>3. Goal({k} \cup Links(i))
      BY <1>1, <2>1, <2>2
    <2>4. \A n \in still' : \A m \in Path[n] : node'[m] = node[m]
      BY <2>1, <2>3 DEF Types, GuestTypes
    <2> HIDE DEF Goal
    <2> QED
      BY <1>1, <2>1, <2>2, <2>4
  <1>4. CASE Mount \/ Unmount
    <2>1. PICK k \in Names : /\ mounted' \in {mounted \cup {k}, mounted \ {k}}
                             /\ UNCHANGED node /\ Changed({k})
      BY <1>4 DEF Mount, Unmount, Types, GuestTypes
    <2>2. node' \in [Names -> Inodes \cup {0}] /\ mounted' \subseteq Names
      BY <2>1 DEF Types, GuestTypes
    <2>3. Goal({k})
      BY <1>1, <2>1, <2>2
    <2>4. \A n \in still' : \A m \in Path[n] : node'[m] = node[m] /\ (m \in mounted' <=> m \in mounted)
      BY <2>1, <2>3
    <2> HIDE DEF Goal
    <2> QED
      BY <1>1, <2>1, <2>2, <2>4
  <1> QED
    BY <1>2, <1>3, <1>4 DEF Guest

(***************************************************************************)
(* Types are kept, action by action.                                       *)
(***************************************************************************)
LEMMA InitTypes == Init => Types
  <1> SUFFICES ASSUME Init PROVE Types
    OBVIOUS
  <1>1. GuestTypes
    BY InodesFinite DEF Init, GuestTypes
  <1>2. w \in Workers
    BY NoneType DEF Init, Workers, Steps, NoFile
  <1>3. parent \in Parents
    BY NoneType DEF Init, Parents
  <1>4. WorkTypes
    <2>1. PipeCap \in Nat
      BY DiskAssumption
    <2>2. pipe \in Seq(Messages) /\ Len(pipe) <= PipeCap
      <3>1. pipe = <<>>
        BY DEF Init
      <3> QED
        BY <2>1, <3>1
    <2>3. clock \in 0 .. 2
      BY DEF Init
    <2> QED
      BY <1>2, <1>3, <2>2, <2>3 DEF WorkTypes
  <1>5. Stages
    BY DEF Init, Stages
  <1> QED
    BY <1>1, <1>4, <1>5 DEF Types

LEMMA ListingType == Listing(Root) \subseteq Names /\ \A d \in Dirs : Listing(d) \subseteq Names
  BY DEF Listing

LEMMA StartTypes == ASSUME Types, Start PROVE Types'
  <1> DEFINE s == <<[dir |-> Root, left |-> Listing(Root)]>>
  <1>1. w' = [w EXCEPT !.pc = "walk", !.before = mounted, !.stack = s]
    BY DEF Start
  <1>2. s \in Seq(Frames) /\ s # <<>>
    BY ListingType DEF Frames
  <1> HIDE DEF s
  <1>3. w' \in Workers /\ w'.pc = "walk"
    BY <1>1, <1>2 DEF Types, WorkTypes, GuestTypes, Workers, Steps
  <1>4. GuestTypes'
    BY DEF Types, GuestTypes, Start, Names
  <1> QED
    BY <1>3, <1>4 DEF Types, WorkTypes, Stages, Start

\* Steps that change the worker and perhaps what it has written.
LEMMA WorkerTypes ==
    ASSUME Types, Look, w' \in Workers, w.pc # "new", w'.pc # "new",
           w'.pc \in {"open", "told"} \/ (w'.pc \in {"part", "rest"} /\ w'.msg.kind = "progress")
             => w'.stack # <<>>,
           w'.pc = "open" => w'.at.name \in Names /\ w'.at.ino # 0,
           UNCHANGED pipe
    PROVE  Types'
  BY DEF Types, GuestTypes, WorkTypes, Stages, Look

LEMMA EndedType ==
    ASSUME w \in Workers, NEW msg \in Messages
    PROVE  /\ Ended(msg) \in Workers /\ Ended(msg).pc = "part" /\ Ended(msg).msg = msg
           /\ Ended(msg).stack = <<>> /\ Ended(msg).seen = {} /\ Ended(msg).alloc = <<>>
           /\ Ended(msg).before = {}
  BY NoneType DEF Workers, Ended, Steps, NoFile

LEMMA UnavailableTypes == ASSUME Types, Unavailable PROVE Types'
  <1> DEFINE msg == [kind |-> "unavailable", alloc |-> <<>>]
  <1>1. msg \in Messages /\ msg.kind = "unavailable"
    BY NoneType DEF Messages
  <1>2. w' = Ended(msg) /\ Look /\ UNCHANGED pipe
    BY DEF Unavailable
  <1> HIDE DEF msg
  <1>3. w' \in Workers /\ w'.pc = "part" /\ w'.msg.kind = "unavailable"
    BY <1>1, <1>2, EndedType DEF Types, WorkTypes
  <1> QED
    BY <1>2, <1>3 DEF Types, GuestTypes, WorkTypes, Stages, Look

LEMMA HaltTypes == ASSUME Types, Halt PROVE Types'
  <1>1. w' \in Workers /\ w'.pc = "end"
    BY NoneType DEF Halt, Types, WorkTypes, Workers, Steps
  <1> QED
    BY <1>1, WorkerTypes DEF Halt, Works

LEMMA Shorter ==
    ASSUME NEW s \in Seq(Frames), s # <<>>
    PROVE  /\ SubSeq(s, 1, Len(s) - 1) \in Seq(Frames) /\ Len(SubSeq(s, 1, Len(s) - 1)) = Len(s) - 1
           /\ \A k \in 1 .. Len(s) - 1 : SubSeq(s, 1, Len(s) - 1)[k] = s[k]
           /\ Len(s) \in Nat \ {0} /\ s[Len(s)] \in Frames
  OBVIOUS

LEMMA LeaveTypes == ASSUME Types, Leave PROVE Types'
  <1>1. w' \in Workers /\ w'.pc = "walk"
    BY Shorter DEF Leave, Works, Types, WorkTypes, Workers, Steps
  <1> QED
    BY <1>1, WorkerTypes DEF Leave, Works

LEMMA Renewed ==
    ASSUME w \in Workers, NEW s \in Seq(Frames), NEW k \in Nat
    PROVE  [w EXCEPT !.stack = s, !.visited = k] \in Workers
  BY DEF Workers

LEMMA Replaced ==
    ASSUME NEW s \in Seq(Frames), s # <<>>, NEW f \in Frames
    PROVE  [s EXCEPT ![Len(s)] = f] \in Seq(Frames) /\ Len([s EXCEPT ![Len(s)] = f]) = Len(s)
  OBVIOUS

\* The next entry of the directory that is read.
LEMMA EntryStep ==
    ASSUME Types, Entry
    PROVE  \E n \in Top.left :
             /\ n \in Names /\ Look /\ UNCHANGED pipe /\ w.pc = "walk" /\ w.stack # <<>>
             /\ w' \in Workers
             /\ w'.stack = [w.stack EXCEPT ![Len(w.stack)].left = @ \ {n}]
             /\ Len(w'.stack) = Len(w.stack)
             /\ w'.seen = w.seen /\ w'.alloc = w.alloc /\ w'.before = w.before
             /\ w'.partial = w.partial /\ w'.msg = w.msg
             /\ \/ (n \in w.before \/ node[n] = 0) /\ w'.pc = "walk"
                \/ node[n] # 0 /\ w'.pc = "open" /\ w'.at = [name |-> n, ino |-> node[n]]
  <1>1. PICK n \in Top.left :
          LET v == [w EXCEPT !.stack[Len(w.stack)].left = @ \ {n}, !.visited = @ + 1]
          IN  w' = IF n \in w.before \/ node[n] = 0 THEN v
                   ELSE [v EXCEPT !.pc = "open", !.at = [name |-> n, ino |-> node[n]]]
    BY DEF Entry
  <1> DEFINE s == [w.stack EXCEPT ![Len(w.stack)].left = @ \ {n}]
             v == [w EXCEPT !.stack = s, !.visited = @ + 1]
  <1>2. w' = IF n \in w.before \/ node[n] = 0 THEN v
             ELSE [v EXCEPT !.pc = "open", !.at = [name |-> n, ino |-> node[n]]]
    BY <1>1 DEF Types, WorkTypes, Workers
  <1>3. w \in Workers /\ w.pc = "walk" /\ w.stack # <<>> /\ Look /\ UNCHANGED pipe
    BY DEF Entry, Works, Types, WorkTypes
  <1>4. w.stack \in Seq(Frames) /\ Len(w.stack) \in Nat \ {0} /\ Top \in Frames
    BY <1>3, Shorter DEF Workers, Top
  <1>5. n \in Names
    BY <1>4 DEF Frames
  <1>6. s \in Seq(Frames) /\ Len(s) = Len(w.stack)
    <2>1. [Top EXCEPT !.left = @ \ {n}] \in Frames
      BY <1>4 DEF Frames
    <2>2. s = [w.stack EXCEPT ![Len(w.stack)] = [Top EXCEPT !.left = @ \ {n}]]
      BY <1>4 DEF Top
    <2> HIDE DEF s
    <2> QED
      BY <1>3, <1>4, <2>1, <2>2, Replaced
  <1>7. [name |-> n, ino |-> node[n]] \in [name : Names \cup {"none"}, ino : Inodes \cup {0}]
    BY <1>5 DEF Types, GuestTypes
  <1> HIDE DEF s
  <1>8. v \in Workers
    <2>1. w.visited + 1 \in Nat
      BY <1>3 DEF Workers
    <2> QED
      BY <1>3, <1>6, <2>1, Renewed
  <1>9. w' \in Workers
    BY <1>2, <1>7, <1>8 DEF Workers, Steps
  <1>10. /\ w'.stack = s /\ w'.seen = w.seen /\ w'.alloc = w.alloc /\ w'.before = w.before
         /\ w'.partial = w.partial /\ w'.msg = w.msg
    BY <1>2, <1>3 DEF Workers
  <1>11. \/ (n \in w.before \/ node[n] = 0) /\ w'.pc = "walk"
         \/ node[n] # 0 /\ w'.pc = "open" /\ w'.at = [name |-> n, ino |-> node[n]]
    BY <1>2, <1>3 DEF Workers
  <1> USE DEF s
  <1> QED
    BY <1>3, <1>5, <1>6, <1>9, <1>10, <1>11

LEMMA EntryTypes == ASSUME Types, Entry PROVE Types'
  <1>1. PICK n \in Top.left :
             /\ n \in Names /\ Look /\ UNCHANGED pipe /\ w.pc = "walk" /\ w.stack # <<>>
             /\ w' \in Workers /\ Len(w'.stack) = Len(w.stack)
             /\ \/ (n \in w.before \/ node[n] = 0) /\ w'.pc = "walk"
                \/ node[n] # 0 /\ w'.pc = "open" /\ w'.at = [name |-> n, ino |-> node[n]]
    BY EntryStep
  <1>2. w'.stack # <<>>
    BY <1>1 DEF Types, WorkTypes, Workers
  <1>3. w'.pc = "open" => w'.at.name \in Names /\ w'.at.ino # 0
    BY <1>1
  <1> QED
    BY <1>1, <1>2, <1>3, WorkerTypes

\* Entering a directory: passed over, or its entries are listed and it has a row.
LEMMA EnterDirStep ==
    ASSUME Types, EnterDir
    PROVE  /\ Look /\ UNCHANGED pipe /\ w.pc = "open" /\ w.at.name \in Dirs /\ w'.pc = "told"
           /\ w' \in Workers /\ w'.stack # <<>>
           /\ w'.seen = w.seen /\ w'.before = w.before /\ w'.partial = w.partial
           /\ \/ /\ node[w.at.name] = 0 \/ w.at.name \in mounted
                 /\ w'.stack = w.stack /\ w'.alloc = w.alloc
              \/ /\ w'.stack = Append(w.stack, [dir |-> w.at.name, left |-> Listing(w.at.name)])
                 /\ w'.alloc = [r \in DOMAIN w.alloc \cup ({w.at.name} \cap Rows) |->
                                  Allocated(w.alloc, r)]
  <1> DEFINE d == w.at.name
             s == Append(w.stack, [dir |-> d, left |-> Listing(d)])
             a == [r \in DOMAIN w.alloc \cup ({d} \cap Rows) |-> Allocated(w.alloc, r)]
             v == [w EXCEPT !.pc = "told"]
  <1>1. w \in Workers /\ w.stack # <<>> /\ w.pc = "open" /\ d \in Dirs /\ Look /\ UNCHANGED pipe
    BY DEF EnterDir, Works, Types, WorkTypes, Stages
  <1>2. w' = IF node[d] = 0 \/ d \in mounted THEN v ELSE [v EXCEPT !.stack = s, !.alloc = a]
    BY <1>1 DEF EnterDir, Workers
  <1>3. s \in Seq(Frames) /\ s # <<>>
    <2>1. [dir |-> d, left |-> Listing(d)] \in Frames
      BY <1>1, ListingType DEF Frames
    <2>2. w.stack \in Seq(Frames)
      BY <1>1 DEF Workers
    <2> QED
      BY <2>1, <2>2
  <1>4. a \in Tables
    <2>1. PICK D \in SUBSET Dirs : w.alloc \in [D -> Nat]
      BY <1>1 DEF Workers, Tables
    <2>2. a \in [D \cup ({d} \cap Rows) -> Nat]
      BY <2>1 DEF Allocated
    <2>3. D \cup ({d} \cap Rows) \in SUBSET Dirs
      BY <2>1 DEF Rows
    <2> HIDE DEF a
    <2> QED
      BY <2>2, <2>3 DEF Tables
  <1> HIDE DEF a, s
  <1>5. v \in Workers /\ [v EXCEPT !.stack = s, !.alloc = a] \in Workers
    BY <1>1, <1>3, <1>4 DEF Workers, Steps
  <1>6. w' \in Workers /\ w'.pc = "told" /\ w'.seen = w.seen /\ w'.before = w.before
        /\ w'.partial = w.partial
    BY <1>1, <1>2, <1>5 DEF Workers
  <1>7. \/ /\ node[d] = 0 \/ d \in mounted
           /\ w'.stack = w.stack /\ w'.alloc = w.alloc
        \/ w'.stack = s /\ w'.alloc = a
    BY <1>1, <1>2 DEF Workers
  <1>8. w'.stack # <<>>
    BY <1>1, <1>3, <1>7
  <1> USE DEF a, s
  <1> QED
    BY <1>1, <1>6, <1>7, <1>8

LEMMA EnterDirTypes == ASSUME Types, EnterDir PROVE Types'
  BY EnterDirStep, WorkerTypes

\* A file is passed over, or its inode counted in every row above it.
LEMMA CountFileStep ==
    ASSUME Types, CountFile
    PROVE  /\ Look /\ UNCHANGED pipe /\ w.pc = "open" /\ w.at.name \in Files /\ w.at.ino \in Inodes
           /\ w' \in Workers /\ w'.stack = w.stack /\ w.stack # <<>>
           /\ w'.before = w.before /\ w'.partial = w.partial
           /\ \/ /\ node[w.at.name] # w.at.ino \/ w.at.name \in mounted \/ w.at.ino \in w.seen
                 /\ w'.seen = w.seen /\ w'.alloc = w.alloc /\ w'.pc = "walk"
              \/ /\ node[w.at.name] = w.at.ino /\ w.at.ino \notin w.seen
                 /\ w'.seen = w.seen \cup {w.at.ino} /\ w'.pc = "told"
                 /\ w'.alloc = [d \in DOMAIN w.alloc |->
                                  w.alloc[d] + IF d \in Path[w.at.name] THEN 1 ELSE 0]
  <1> DEFINE i == w.at.ino
             a == [d \in DOMAIN w.alloc |-> w.alloc[d] + IF d \in Path[w.at.name] THEN 1 ELSE 0]
  <1>1. /\ w \in Workers /\ w.stack # <<>> /\ w.pc = "open" /\ w.at.name \in Files /\ i # 0
        /\ Look /\ UNCHANGED pipe
    BY DEF CountFile, Works, Types, WorkTypes, Stages
  <1>2. w' = IF node[w.at.name] # i \/ w.at.name \in mounted \/ i \in w.seen
             THEN [w EXCEPT !.pc = "walk"]
             ELSE [w EXCEPT !.pc = "told", !.seen = @ \cup {i}, !.alloc = a]
    BY DEF CountFile
  <1>3. i \in Inodes /\ w.seen \cup {i} \in SUBSET Inodes
    BY <1>1 DEF Workers
  <1>4. a \in Tables
    <2>1. PICK D \in SUBSET Dirs : w.alloc \in [D -> Nat]
      BY <1>1 DEF Workers, Tables
    <2>2. a \in [D -> Nat]
      BY <2>1
    <2> HIDE DEF a
    <2> QED
      BY <2>1, <2>2 DEF Tables
  <1> HIDE DEF a
  <1>5. /\ [w EXCEPT !.pc = "walk"] \in Workers
        /\ [w EXCEPT !.pc = "told", !.seen = @ \cup {i}, !.alloc = a] \in Workers
    BY <1>1, <1>3, <1>4 DEF Workers, Steps
  <1>6. w' \in Workers /\ w'.stack = w.stack /\ w'.before = w.before /\ w'.partial = w.partial
    BY <1>1, <1>2, <1>5 DEF Workers
  <1>7. \/ /\ node[w.at.name] # i \/ w.at.name \in mounted \/ i \in w.seen
           /\ w'.seen = w.seen /\ w'.alloc = w.alloc /\ w'.pc = "walk"
        \/ /\ node[w.at.name] = i /\ i \notin w.seen
           /\ w'.seen = w.seen \cup {i} /\ w'.pc = "told" /\ w'.alloc = a
    BY <1>1, <1>2 DEF Workers
  <1> USE DEF a
  <1> QED
    BY <1>1, <1>3, <1>6, <1>7

LEMMA CountFileTypes == ASSUME Types, CountFile PROVE Types'
  BY CountFileStep, WorkerTypes

LEMMA ReadFailsTypes == ASSUME Types, ReadFails PROVE Types'
  <1>1. w \in Workers /\ Look /\ UNCHANGED pipe /\ w.pc \in {"open", "walk"}
    BY DEF ReadFails, Types, WorkTypes
  <1> DEFINE v == [w EXCEPT !.errors = @ + 1, !.partial = TRUE]
  <1>2. v \in Workers /\ v.stack = w.stack
    <2>1. w.errors + 1 \in Nat
      BY <1>1 DEF Workers
    <2> QED
      BY <1>1, <2>1 DEF Workers
  <1>3. CASE w.pc = "open"
    <2>1. w' = [v EXCEPT !.pc = IF w.at.name \in Dirs THEN "told" ELSE "walk"]
      BY <1>3 DEF ReadFails
    <2> HIDE DEF v
    <2>2. w' \in Workers /\ w'.pc \in {"told", "walk"} /\ w'.stack = w.stack
      BY <1>2, <2>1 DEF Workers, Steps
    <2>3. w.stack # <<>>
      BY <1>3 DEF Types, Stages
    <2> QED
      BY <1>1, <2>2, <2>3, WorkerTypes
  <1>4. CASE w.pc = "walk"
    <2>1. w.stack # <<>> /\ w' = [v EXCEPT !.stack = SubSeq(w.stack, 1, Len(w.stack) - 1)]
      BY <1>1, <1>2, <1>4 DEF ReadFails
    <2>2. SubSeq(w.stack, 1, Len(w.stack) - 1) \in Seq(Frames)
      BY <1>1, <2>1, Shorter DEF Workers
    <2>3. v.pc = "walk"
      BY <1>1, <1>4 DEF Workers
    <2> HIDE DEF v
    <2>4. w' \in Workers /\ w'.pc = "walk"
      BY <1>2, <2>1, <2>2, <2>3 DEF Workers, Steps
    <2> QED
      BY <1>1, <2>4, WorkerTypes
  <1> QED
    BY <1>1, <1>3, <1>4

LEMMA FittingRows == \A t : \A S \in Fitting(t) : S \subseteq DOMAIN t
  BY DEF Fitting

LEMMA SnapshotType ==
    ASSUME w \in Workers, NEW S \in SUBSET DOMAIN w.alloc,
           NEW kind \in {"progress", "complete", "partial"}
    PROVE  /\ Snapshot(kind, S) \in Messages /\ Snapshot(kind, S).kind = kind
           /\ DOMAIN Snapshot(kind, S).alloc = S
           /\ \A d \in S : Snapshot(kind, S).alloc[d] = w.alloc[d]
  <1>1. PICK D \in SUBSET Dirs : w.alloc \in [D -> Nat]
    BY DEF Workers, Tables
  <1>2. [d \in S |-> w.alloc[d]] \in [S -> Nat] /\ S \in SUBSET Dirs
    BY <1>1
  <1>3. [d \in S |-> w.alloc[d]] \in Tables
    BY <1>2 DEF Tables
  <1> QED
    BY <1>3 DEF Snapshot, Messages

\* On with the walk, or a report of rows that fit.
LEMMA ProgressStep ==
    ASSUME Types, Progress
    PROVE  /\ Look /\ UNCHANGED pipe /\ w.pc = "told" /\ w' \in Workers
           /\ w'.stack = w.stack /\ w.stack # <<>> /\ w'.seen = w.seen /\ w'.before = w.before
           /\ w'.partial = w.partial /\ w'.alloc = w.alloc
           /\ \/ w'.pc = "walk" /\ w'.msg = w.msg
              \/ /\ w'.pc = "part" /\ w'.msg.kind = "progress"
                 /\ \E S \in SUBSET DOMAIN w.alloc : w'.msg = Snapshot("progress", S)
  <1>1. /\ w \in Workers /\ Look /\ UNCHANGED pipe /\ w.pc = "told" /\ w.stack # <<>>
    BY DEF Progress, Works, Types, WorkTypes, Stages
  <1>2. CASE w' = [w EXCEPT !.pc = "walk"]
    BY <1>1, <1>2 DEF Workers, Steps
  <1>3. ASSUME NEW S \in Fitting(w.alloc),
               w' = [w EXCEPT !.pc = "part", !.sent = @ + 1, !.msg = Snapshot("progress", S)]
        PROVE  /\ w' \in Workers /\ w'.stack = w.stack /\ w'.seen = w.seen
               /\ w'.before = w.before /\ w'.partial = w.partial /\ w'.alloc = w.alloc
               /\ w'.pc = "part" /\ w'.msg.kind = "progress" /\ S \in SUBSET DOMAIN w.alloc
               /\ w'.msg = Snapshot("progress", S)
    <2>1. S \in SUBSET DOMAIN w.alloc
      BY FittingRows
    <2>2. Snapshot("progress", S) \in Messages /\ Snapshot("progress", S).kind = "progress"
      BY <1>1, <2>1, SnapshotType
    <2>3. w.sent + 1 \in Nat
      BY <1>1 DEF Workers
    <2> QED
      BY <1>1, <1>3, <2>1, <2>2, <2>3 DEF Workers, Steps
  <1>4. \/ w' = [w EXCEPT !.pc = "walk"]
        \/ \E S \in Fitting(w.alloc) :
             w' = [w EXCEPT !.pc = "part", !.sent = @ + 1, !.msg = Snapshot("progress", S)]
    BY DEF Progress
  <1>5. CASE \E S \in Fitting(w.alloc) :
               w' = [w EXCEPT !.pc = "part", !.sent = @ + 1, !.msg = Snapshot("progress", S)]
    BY <1>1, <1>3, <1>5
  <1> QED
    BY <1>2, <1>4, <1>5

LEMMA ProgressTypes == ASSUME Types, Progress PROVE Types'
  BY ProgressStep, WorkerTypes

\* The last message, and when it may say that the walk is complete.
LEMMA FinishStep ==
    ASSUME Types, Finish
    PROVE  /\ Look /\ UNCHANGED pipe /\ w' \in Workers
           /\ w.pc = "end" \/ (w.pc = "walk" /\ w.stack = <<>>)
           /\ w'.pc = "part" /\ w'.stack = <<>> /\ w'.seen = {} /\ w'.alloc = <<>> /\ w'.before = {}
           /\ \E S \in SUBSET DOMAIN w.alloc, kind \in {"complete", "partial"} :
                /\ w'.msg = Snapshot(kind, S) /\ w'.msg.kind = kind
                /\ kind = "complete" =>
                     ~ w.partial /\ {d \in DOMAIN w.alloc : w.alloc[d] > 0} \subseteq S
  <1>1. /\ w \in Workers /\ Look /\ UNCHANGED pipe
        /\ w.pc = "end" \/ (w.pc = "walk" /\ w.stack = <<>>)
    BY DEF Finish, Works, Types, WorkTypes
  <1> DEFINE Whole(S) == /\ ~w.partial /\ w.errors = 0 /\ mounted = w.before
                         /\ {d \in DOMAIN w.alloc : w.alloc[d] > 0} \subseteq S
  <1>2. PICK S \in Fitting(w.alloc) :
               w' = Ended(Snapshot(IF Whole(S) THEN "complete" ELSE "partial", S))
    BY DEF Finish
  <1>3. S \in SUBSET DOMAIN w.alloc
    BY FittingRows
  <1>4. PICK kind \in {"complete", "partial"} :
               w' = Ended(Snapshot(kind, S)) /\ (kind = "complete" => Whole(S))
    BY <1>2
  <1>5. Snapshot(kind, S) \in Messages /\ Snapshot(kind, S).kind = kind
    BY <1>1, <1>3, SnapshotType
  <1> QED
    BY <1>1, <1>3, <1>4, <1>5, EndedType

LEMMA FinishTypes == ASSUME Types, Finish PROVE Types'
  <1>1. PICK kind \in {"complete", "partial"} : w'.msg.kind = kind
    BY FinishStep
  <1> QED
    BY <1>1, FinishStep, WorkerTypes

\* A message is written in two parts; with the end of a report the walk goes on.
LEMMA WriteStep ==
    ASSUME Types, WritePart \/ WriteEnd
    PROVE  /\ Look /\ w.pc \in {"part", "rest"} /\ w' \in Workers
           /\ \E pc \in {"rest", "walk", "exit"} :
                /\ w' = [w EXCEPT !.pc = pc] /\ w'.pc = pc
                /\ pc = "walk" => w.msg.kind = "progress"
           /\ \E m \in {None, w.msg} : pipe' = Append(pipe, m)
           /\ pipe' \in Seq(Messages) /\ Len(pipe') <= PipeCap
  <1>1. w \in Workers /\ pipe \in Seq(Messages) /\ PipeCap \in Nat /\ Len(pipe) \in Nat
    BY DiskAssumption DEF Types, WorkTypes
  <1>2. CASE WritePart
    <2>1. Look /\ w.pc = "part" /\ Len(pipe) < PipeCap /\ pipe' = Append(pipe, None)
          /\ w' = [w EXCEPT !.pc = "rest"]
      BY <1>2 DEF WritePart, Works
    <2>2. w' \in Workers /\ w'.pc = "rest"
      BY <1>1, <2>1 DEF Workers, Steps
    <2>3. pipe' \in Seq(Messages) /\ Len(pipe') <= PipeCap
      BY <1>1, <2>1, NoneType
    <2> QED
      BY <2>1, <2>2, <2>3
  <1>3. CASE WriteEnd
    <2>1. PICK pc \in {"walk", "exit"} : w' = [w EXCEPT !.pc = pc]
                                         /\ (pc = "walk" => w.msg.kind = "progress")
      BY <1>3 DEF WriteEnd
    <2>2. Look /\ w.pc = "rest" /\ Len(pipe) < PipeCap /\ pipe' = Append(pipe, w.msg)
      BY <1>3 DEF WriteEnd, Works
    <2>3. w' \in Workers /\ w'.pc = pc
      BY <1>1, <2>1 DEF Workers, Steps
    <2>4. w.msg \in Messages
      BY <1>1 DEF Workers
    <2>5. pipe' \in Seq(Messages) /\ Len(pipe') <= PipeCap
      BY <1>1, <2>2, <2>4
    <2> QED
      BY <2>1, <2>2, <2>3, <2>5
  <1> QED
    BY <1>2, <1>3

LEMMA WriteTypes == ASSUME Types, WritePart \/ WriteEnd PROVE Types'
  <1>1. PICK pc \in {"rest", "walk", "exit"} : w' = [w EXCEPT !.pc = pc] /\ w'.pc = pc
    BY WriteStep
  <1>2. w \in Workers /\ w' \in Workers /\ Look /\ w.pc \in {"part", "rest"}
    BY WriteStep DEF Types, WorkTypes
  <1>3. w'.stack = w.stack /\ w'.msg = w.msg
    BY <1>1, <1>2 DEF Workers
  <1>4. WorkTypes'
    BY <1>2, WriteStep DEF Types, WorkTypes, Look
  <1>5. Stages'
    BY <1>1, <1>2, <1>3 DEF Types, Stages
  <1> QED
    BY <1>2, <1>4, <1>5 DEF Types, GuestTypes, Look

LEMMA ExitTypes == ASSUME Types, Exit PROVE Types'
  <1>1. w' \in Workers /\ w'.pc = "exited"
    BY DEF Exit, Types, WorkTypes, Workers, Steps
  <1> QED
    BY <1>1, WorkerTypes DEF Exit, Works

\* The parent reads messages and may end the worker.
LEMMA ParentStep ==
    ASSUME Types, Collect
    PROVE  /\ Keep /\ parent' \in Parents /\ pipe' \in {pipe, Tail(pipe)}
           /\ pipe' = pipe \/ pipe # <<>>
           /\ w' \in {w, [w EXCEPT !.pc = "killed"]}
           /\ parent'.latest = parent.latest \/ (pipe # <<>> /\ parent'.latest = Head(pipe))
  <1>1. parent \in Parents /\ pipe \in Seq(Messages)
    BY DEF Types, WorkTypes
  <1>2. ASSUME pipe # <<>>
        PROVE  /\ Consumed(parent) \in Parents
               /\ Consumed(parent).latest \in {parent.latest, Head(pipe)}
    <2>1. Head(pipe) \in Messages
      BY <1>1, <1>2
    <2> QED
      BY <1>1, <2>1 DEF Consumed, Parents
  <1>3. CASE Select
    BY <1>1, <1>3 DEF Select, Parents, Keep
  <1>4. CASE Read
    <2>1. CASE pipe # <<>> /\ parent' = [Consumed(parent) EXCEPT !.pc = "select"] /\ pipe' = Tail(pipe)
      <3>1. parent' \in Parents /\ parent'.latest = Consumed(parent).latest
        BY <1>2, <2>1 DEF Parents
      <3> QED
        BY <1>2, <1>4, <2>1, <3>1 DEF Read, Keep
    <2>2. CASE parent' = [parent EXCEPT !.pc = "close"] /\ UNCHANGED pipe
      BY <1>1, <1>4, <2>2 DEF Read, Parents, Keep
    <2> QED
      BY <1>4, <2>1, <2>2 DEF Read
  <1>5. CASE Reap
    BY <1>1, <1>5 DEF Reap, Parents, Keep
  <1>6. CASE Drain
    <2>1. CASE pipe # <<>> /\ parent' = Consumed(parent) /\ pipe' = Tail(pipe)
      BY <1>2, <1>6, <2>1 DEF Drain, Keep
    <2>2. CASE parent' = [parent EXCEPT !.pc = "close"] /\ UNCHANGED pipe
      BY <1>1, <1>6, <2>2 DEF Drain, Parents, Keep
    <2> QED
      BY <1>6, <2>1, <2>2 DEF Drain
  <1>7. CASE Terminate
    <2>1. parent' \in Parents /\ parent'.latest = parent.latest
      BY <1>1, <1>7 DEF Terminate, Parents
    <2> QED
      BY <1>7, <2>1 DEF Terminate, Keep
  <1> QED
    BY <1>3, <1>4, <1>5, <1>6, <1>7 DEF Collect

\* The parts of the worker that a step of another process leaves alone.
LEMMA WorkerAside ==
    ASSUME Types, w' \in {w, [w EXCEPT !.pc = "killed"]}
    PROVE  /\ w' \in Workers /\ w'.pc \in {w.pc, "killed"} /\ w'.stack = w.stack
           /\ w'.at = w.at /\ w'.seen = w.seen /\ w'.alloc = w.alloc /\ w'.before = w.before
           /\ w'.partial = w.partial /\ w'.msg = w.msg
  <1>1. w \in Workers
    BY DEF Types, WorkTypes
  <1>2. CASE w' = w
    BY <1>1, <1>2
  <1>3. CASE w' = [w EXCEPT !.pc = "killed"]
    BY <1>1, <1>3 DEF Workers, Steps
  <1> QED
    BY <1>2, <1>3

LEMMA ParentTypes == ASSUME Types, Collect PROVE Types'
  <1>1. /\ Keep /\ parent' \in Parents /\ pipe' \in {pipe, Tail(pipe)}
        /\ pipe' = pipe \/ pipe # <<>>
        /\ w' \in {w, [w EXCEPT !.pc = "killed"]}
        /\ parent'.latest = parent.latest \/ (pipe # <<>> /\ parent'.latest = Head(pipe))
    BY ParentStep
  <1>2. pipe' \in Seq(Messages) /\ Len(pipe') <= PipeCap
    <2>1. pipe \in Seq(Messages) /\ Len(pipe) <= PipeCap /\ PipeCap \in Nat
      BY DiskAssumption DEF Types, WorkTypes
    <2>2. CASE pipe # <<>> /\ pipe' = Tail(pipe)
      <3>1. Tail(pipe) \in Seq(Messages) /\ Len(Tail(pipe)) = Len(pipe) - 1 /\ Len(pipe) \in Nat
        BY <2>1, <2>2
      <3> QED
        BY <2>1, <2>2, <3>1
    <2>3. CASE pipe' = pipe
      BY <2>1, <2>3
    <2> QED
      BY <1>1, <2>2, <2>3
  <1>3. /\ w' \in Workers /\ w'.pc \in {w.pc, "killed"} /\ w'.stack = w.stack
        /\ w'.at = w.at /\ w'.seen = w.seen /\ w'.alloc = w.alloc /\ w'.before = w.before
        /\ w'.msg = w.msg
    BY <1>1, WorkerAside
  <1>4. WorkTypes'
    BY <1>1, <1>2, <1>3 DEF Types, WorkTypes, Keep
  <1>5. Stages'
    <2>1. CASE w'.pc = "new"
      <3>1. w.pc = "new"
        BY <1>3, <2>1
      <3>2. pipe = <<>> /\ parent.latest = None
        BY <3>1 DEF Types, Stages
      <3>3. pipe' = <<>> /\ parent'.latest = None
        BY <1>1, <3>2
      <3> QED
        BY <1>1, <1>3, <2>1, <3>1, <3>3 DEF Types, Stages, Keep
    <2>2. CASE w'.pc # "new"
      BY <1>3, <2>2 DEF Types, Stages
    <2> QED
      BY <2>1, <2>2
  <1> QED
    BY <1>1, <1>4, <1>5 DEF Types, GuestTypes, Keep

LEMMA TypesKept == Types /\ [Next]_vars => Types'
  <1> SUFFICES ASSUME Types, [Next]_vars PROVE Types'
    OBVIOUS
  <1>1. CASE Guest
    <2>1. Walking /\ GuestTypes' /\ UNCHANGED <<w, pipe, stuck, clock, parent>>
      BY <1>1, GuestKeeps
    <2>2. w.pc # "new"
      BY <2>1 DEF Walking, Types, Stages
    <2> QED
      BY <2>1, <2>2 DEF Types, WorkTypes, Stages
  <1>2. CASE Start \/ Unavailable \/ Halt \/ Leave
    BY <1>2, StartTypes, UnavailableTypes, HaltTypes, LeaveTypes
  <1>3. CASE Entry \/ EnterDir \/ CountFile \/ ReadFails
    BY <1>3, EntryTypes, EnterDirTypes, CountFileTypes, ReadFailsTypes
  <1>4. CASE Progress \/ Finish \/ WritePart \/ WriteEnd \/ Exit
    BY <1>4, ProgressTypes, FinishTypes, WriteTypes, ExitTypes
  <1>5. CASE Hang
    BY <1>5 DEF Hang, Types, GuestTypes, WorkTypes, Stages
  <1>6. CASE Tick
    BY <1>6 DEF Tick, Types, GuestTypes, WorkTypes, Stages
  <1>7. CASE Collect
    BY <1>7, ParentTypes
  <1>8. CASE UNCHANGED vars
    BY <1>8 DEF vars, Types, GuestTypes, WorkTypes, Stages
  <1> QED
    BY <1>1, <1>2, <1>3, <1>4, <1>5, <1>6, <1>7, <1>8 DEF Next, Worker, Done

\* The state keeps its types, and nothing is reported before the walk begins.
THEOREM TypeCorrect == Spec => []TypeOK
  <1> DEFINE Flag == stuck \in BOOLEAN
  <1>1. Types => (stuck \in BOOLEAN => TypeOK)
    <2> SUFFICES ASSUME Types, stuck \in BOOLEAN PROVE TypeOK
      OBVIOUS
    <2>1. \A d \in DOMAIN w.alloc : w.alloc[d] \in Nat
      <3>1. w.alloc \in Tables
        BY DEF Types, WorkTypes, Workers
      <3> QED
        BY <3>1 DEF Tables
    <2> QED
      BY <2>1 DEF Types, GuestTypes, WorkTypes, Workers, Parents, TypeOK
  <1>2. Init => Flag
    BY DEF Init
  <1>3. Flag /\ [Next]_vars => Flag'
    <2>1. [Next]_vars => stuck' = stuck \/ stuck' = ~stuck
      BY DEF Next, Guest, Remove, Create, Mount, Unmount, Changed, Worker, Start, Unavailable, Halt,
             Leave, Entry, EnterDir, CountFile, ReadFails, Progress, Finish, WritePart, WriteEnd,
             Exit, Look, Hang, Tick, Collect, Select, Read, Reap, Drain, Terminate, Keep, Done, vars
    <2> QED
      BY <2>1
  <1>4. Types /\ Flag => TypeOK
    BY <1>1
  <1> HIDE DEF Flag
  <1> QED
    BY <1>2, <1>3, <1>4, InitTypes, TypesKept, PTL DEF Spec

\* Steps that end or shorten the walk: nothing is counted.
LEMMA PlainStep ==
    ASSUME Types, Halt \/ Leave \/ ReadFails \/ Exit
    PROVE  /\ Look /\ UNCHANGED pipe /\ w' \in Workers /\ w.pc \in {"walk", "open", "exit"}
           /\ w'.seen = w.seen /\ w'.alloc = w.alloc /\ w'.before = w.before /\ w'.msg = w.msg
           /\ w'.pc \in {"walk", "told", "end", "exited"}
           /\ w.pc = "exit" => w'.stack = w.stack /\ w'.pc = "exited"
           /\ w'.pc = "end" => w'.partial
           /\ \/ w'.stack \in {<<>>, w.stack}
              \/ w.stack # <<>> /\ w'.stack = SubSeq(w.stack, 1, Len(w.stack) - 1)
           /\ \/ w'.pc \in {"end", "exited"} \/ w'.partial
              \/ /\ w.pc = "walk" /\ w'.partial = w.partial /\ w.stack # <<>> /\ Top.left = {}
                 /\ w'.stack = SubSeq(w.stack, 1, Len(w.stack) - 1)
  <1>1. w \in Workers
    BY DEF Types, WorkTypes
  <1>2. CASE Halt
    <2>1. w' \in Workers
      BY <1>1, <1>2, NoneType DEF Halt, Workers, Steps
    <2> QED
      BY <1>1, <1>2, <2>1 DEF Halt, Works, Workers
  <1>3. CASE Leave
    <2>1. w' \in Workers
      BY <1>1, <1>3, Shorter DEF Leave, Workers
    <2> QED
      BY <1>1, <1>3, <2>1 DEF Leave, Works, Workers
  <1>4. CASE Exit
    <2>1. w' \in Workers
      BY <1>1, <1>4 DEF Exit, Workers, Steps
    <2> QED
      BY <1>1, <1>4, <2>1 DEF Exit, Works, Workers
  <1>5. CASE ReadFails
    <2> DEFINE v == [w EXCEPT !.errors = @ + 1, !.partial = TRUE]
    <2>1. Look /\ UNCHANGED pipe /\ w.pc \in {"open", "walk"}
      BY <1>5 DEF ReadFails
    <2>2. w.errors + 1 \in Nat
      BY <1>1 DEF Workers
    <2>3. /\ v \in Workers /\ v.stack = w.stack /\ v.seen = w.seen /\ v.alloc = w.alloc
          /\ v.before = w.before /\ v.msg = w.msg /\ v.partial /\ v.pc = w.pc
      BY <1>1, <2>2 DEF Workers
    <2>4. CASE w.pc = "open"
      <3>1. w' = [v EXCEPT !.pc = IF w.at.name \in Dirs THEN "told" ELSE "walk"]
        BY <1>5, <2>4 DEF ReadFails
      <3> HIDE DEF v
      <3>2. w' \in Workers /\ w'.pc \in {"told", "walk"}
        BY <2>3, <3>1 DEF Workers, Steps
      <3>3. /\ w'.seen = w.seen /\ w'.alloc = w.alloc /\ w'.before = w.before /\ w'.msg = w.msg
            /\ w'.stack = w.stack /\ w'.partial
        BY <2>3, <3>1 DEF Workers
      <3> QED
        BY <2>1, <2>4, <3>2, <3>3
    <2>5. CASE w.pc = "walk"
      <3>1. w.stack # <<>> /\ w' = [v EXCEPT !.stack = SubSeq(w.stack, 1, Len(w.stack) - 1)]
        BY <2>3, <1>5, <2>5 DEF ReadFails
      <3>2. SubSeq(w.stack, 1, Len(w.stack) - 1) \in Seq(Frames)
        BY <1>1, <3>1, Shorter DEF Workers
      <3> HIDE DEF v
      <3>3. w' \in Workers /\ w'.pc = "walk"
        BY <2>3, <2>5, <3>1, <3>2 DEF Workers
      <3>4. /\ w'.seen = w.seen /\ w'.alloc = w.alloc /\ w'.before = w.before /\ w'.msg = w.msg
            /\ w'.stack = SubSeq(w.stack, 1, Len(w.stack) - 1) /\ w'.partial
        BY <2>3, <3>1 DEF Workers
      <3> QED
        BY <2>1, <2>5, <3>1, <3>3, <3>4
    <2> QED
      BY <2>1, <2>4, <2>5
  <1> QED
    BY <1>2, <1>3, <1>4, <1>5


-----------------------------------------------------------------------------
(***************************************************************************)
(* NeverOvercounts.  What a table gives a directory is bounded by what was *)
(* below it, and, while it is built, by what was counted of that.          *)
(***************************************************************************)
Sound(t) == \A d \in DOMAIN t : t[d] <= Cardinality(Seen(d))

Upper ==
    /\ Walking => Current
    /\ \A d \in DOMAIN w.alloc : w.alloc[d] <= Cardinality(w.seen \cap Seen(d))
    /\ Sound(w.msg.alloc) /\ Sound(parent.latest.alloc)
    /\ \A k \in 1 .. Len(pipe) : Sound(pipe[k].alloc)


LEMMA SmallSet ==
    ASSUME NEW S \in SUBSET Inodes, NEW T \in SUBSET S
    PROVE  /\ IsFiniteSet(S) /\ IsFiniteSet(T) /\ Cardinality(S) \in Nat /\ Cardinality(T) \in Nat
           /\ Cardinality(T) <= Cardinality(S)
  BY InodesFinite, FS_Subset, FS_CardinalityType

LEMMA SeenType == ASSUME GuestTypes PROVE \A d : Seen(d) \subseteq Inodes
  BY DEF GuestTypes, Seen

LEMMA TableType ==
    ASSUME NEW t \in Tables
    PROVE  DOMAIN t \subseteq Dirs /\ \A d \in DOMAIN t : t[d] \in Nat
  BY DEF Tables

\* Bounds only grow while the guest changes.
LEMMA SoundGrows ==
    ASSUME GuestTypes', ever \subseteq ever', NEW t \in Tables,
           \A d \in DOMAIN t : t[d] <= Cardinality(Seen(d))
    PROVE  \A d \in DOMAIN t : t[d] <= Cardinality(Seen(d)')
  <1> SUFFICES ASSUME NEW d \in DOMAIN t PROVE t[d] <= Cardinality(Seen(d)')
    OBVIOUS
  <1>1. Seen(d)' \subseteq Inodes /\ Seen(d) \subseteq Seen(d)'
    BY DEF GuestTypes, Seen
  <1>2. Cardinality(Seen(d)) \in Nat /\ Cardinality(Seen(d)') \in Nat
        /\ Cardinality(Seen(d)) <= Cardinality(Seen(d)')
    BY <1>1, SmallSet
  <1> QED
    BY <1>2, TableType

LEMMA Said ==
    ASSUME Types
    PROVE  /\ w.msg.alloc \in Tables /\ parent.latest.alloc \in Tables
           /\ \A k \in 1 .. Len(pipe) : pipe[k].alloc \in Tables
  <1>1. w.msg \in Messages /\ parent.latest \in Messages
    BY DEF Types, WorkTypes, Workers, Parents
  <1>2. \A k \in 1 .. Len(pipe) : pipe[k] \in Messages
    BY DEF Types, WorkTypes
  <1> QED
    BY <1>1, <1>2 DEF Messages

LEMMA UpperGuest == ASSUME Types, Types', Upper, Guest PROVE Upper'
  <1>1. /\ UNCHANGED <<w, pipe, parent>> /\ Current' /\ ever \subseteq ever' /\ GuestTypes'
    BY GuestKeeps
  <1>2. /\ w.msg.alloc \in Tables /\ parent.latest.alloc \in Tables
        /\ \A k \in 1 .. Len(pipe) : pipe[k].alloc \in Tables
    BY Said
  <1>3. \A t \in Tables : (\A d \in DOMAIN t : t[d] <= Cardinality(Seen(d)))
                            => (\A d \in DOMAIN t : t[d] <= Cardinality(Seen(d)'))
    BY <1>1, SoundGrows
  <1>4. Sound(w.msg.alloc)' /\ Sound(parent.latest.alloc)'
    BY <1>1, <1>2, <1>3 DEF Sound, Upper
  <1>5. (\A k \in 1 .. Len(pipe) : Sound(pipe[k].alloc))'
    BY <1>1, <1>2, <1>3 DEF Sound, Upper
  <1>6. \A d \in DOMAIN w'.alloc : w'.alloc[d] <= Cardinality(w'.seen \cap Seen(d)')
    <2> SUFFICES ASSUME NEW d \in DOMAIN w.alloc
                 PROVE  w.alloc[d] <= Cardinality(w.seen \cap Seen(d)')
      BY <1>1
    <2>1. /\ w.seen \cap Seen(d)' \in SUBSET Inodes
          /\ w.seen \cap Seen(d) \in SUBSET (w.seen \cap Seen(d)')
      BY <1>1 DEF Seen, Types, WorkTypes, Workers
    <2>2. /\ Cardinality(w.seen \cap Seen(d)) <= Cardinality(w.seen \cap Seen(d)')
          /\ Cardinality(w.seen \cap Seen(d)) \in Nat /\ Cardinality(w.seen \cap Seen(d)') \in Nat
      BY <2>1, SmallSet
    <2>3. w.alloc[d] \in Nat /\ w.alloc[d] <= Cardinality(w.seen \cap Seen(d))
      BY TableType DEF Types, WorkTypes, Workers, Upper
    <2> QED
      BY <2>2, <2>3
  <1> QED
    BY <1>1, <1>4, <1>5, <1>6 DEF Upper

\* A step of the others, by what it does to tables and messages.
LEMMA UpperStep ==
    ASSUME Types, Types', Upper, UNCHANGED <<node, ever>>, Walking' => Walking,
           w'.alloc = <<>> \/ (w'.alloc = w.alloc /\ w'.seen = w.seen),
           w'.msg = w.msg \/ Sound(w'.msg.alloc),
           \/ pipe' \in {pipe, Append(pipe, None), Append(pipe, w.msg)}
           \/ pipe # <<>> /\ pipe' = Tail(pipe),
           parent'.latest = parent.latest \/ (pipe # <<>> /\ parent'.latest = Head(pipe))
    PROVE  Upper'
  <1>1. \A d : Seen(d)' = Seen(d)
    BY DEF Seen, Under
  <1>2. \A t : Sound(t)' = Sound(t)
    BY <1>1 DEF Sound
  <1>3. Walking' => Current'
    BY DEF Upper, Current
  <1>4. \A d \in DOMAIN w'.alloc : w'.alloc[d] <= Cardinality(w'.seen \cap Seen(d)')
    BY <1>1 DEF Upper
  <1>5. pipe \in Seq(Messages) /\ Sound(None.alloc)
    BY DEF Types, WorkTypes, Sound, None
  <1>6. Sound(w'.msg.alloc)
    BY DEF Upper
  <1>7. \A k \in 1 .. Len(pipe') : Sound(pipe'[k].alloc)
    <2>1. CASE pipe' = pipe
      BY <2>1 DEF Upper
    <2>2. ASSUME NEW m \in {None, w.msg}, pipe' = Append(pipe, m)
          PROVE  \A k \in 1 .. Len(pipe') : Sound(pipe'[k].alloc)
      <3>1. Sound(m.alloc)
        BY <1>5 DEF Upper
      <3>2. \A k \in 1 .. Len(pipe') : pipe'[k] = m \/ (k \in 1 .. Len(pipe) /\ pipe'[k] = pipe[k])
        BY <1>5, <2>2
      <3> QED
        BY <3>1, <3>2 DEF Upper
    <2>3. CASE pipe # <<>> /\ pipe' = Tail(pipe)
      <3>1. \A k \in 1 .. Len(pipe') : k + 1 \in 1 .. Len(pipe) /\ pipe'[k] = pipe[k + 1]
        BY <1>5, <2>3
      <3> QED
        BY <3>1 DEF Upper
    <2> QED
      BY <2>1, <2>2, <2>3
  <1>8. Sound(parent'.latest.alloc)
    <2>1. CASE pipe # <<>> /\ parent'.latest = Head(pipe)
      <3>1. 1 \in 1 .. Len(pipe) /\ Head(pipe) = pipe[1]
        BY <1>5, <2>1
      <3> QED
        BY <2>1, <3>1 DEF Upper
    <2> QED
      BY <2>1 DEF Upper
  <1> QED
    BY <1>2, <1>3, <1>4, <1>6, <1>7, <1>8 DEF Upper

LEMMA UpperStart == ASSUME Types, Types', Upper, Start PROVE Upper'
  <1>1. w.pc = "new" /\ w \in Workers
    BY DEF Start, Works, Types, WorkTypes
  <1>2. w.msg = None /\ parent.latest = None /\ pipe = <<>> /\ w.alloc = <<>>
    BY <1>1 DEF Types, Stages
  <1>3. /\ w'.msg = None /\ w'.alloc = <<>> /\ parent'.latest = None /\ pipe' = <<>>
        /\ Current'
    BY <1>1, <1>2 DEF Start, Workers, Current
  <1>4. DOMAIN w'.alloc = {} /\ DOMAIN w'.msg.alloc = {} /\ DOMAIN parent'.latest.alloc = {}
    BY <1>3, NoneType DEF None
  <1>5. 1 .. Len(pipe') = {}
    BY <1>3
  <1> QED
    BY <1>3, <1>4, <1>5 DEF Upper, Sound

\* What is counted is below every row that gains, and was not counted before.
LEMMA UpperCount == ASSUME Types, Types', Upper, CountFile PROVE Upper'
  <1> DEFINE i == w.at.ino
  <1>1. /\ Look /\ UNCHANGED pipe /\ w.pc = "open" /\ w.at.name \in Files /\ i \in Inodes
        /\ w.seen \in SUBSET Inodes /\ w.alloc \in Tables
    BY CountFileStep DEF Types, WorkTypes, Workers
  <1>2. w'.msg = w.msg
    BY <1>1 DEF CountFile, Types, WorkTypes, Workers
  <1>3. Walking
    BY <1>1 DEF Walking
  <1>4. CASE w'.seen = w.seen /\ w'.alloc = w.alloc
    BY <1>1, <1>2, <1>3, <1>4, UpperStep DEF Look
  <1>5. CASE /\ node[w.at.name] = i /\ i \notin w.seen /\ w'.seen = w.seen \cup {i}
             /\ w'.alloc = [d \in DOMAIN w.alloc |->
                              w.alloc[d] + IF d \in Path[w.at.name] THEN 1 ELSE 0]
    <2>1. <<w.at.name, i>> \in ever
      BY <1>1, <1>3, <1>5, InodesFinite DEF Upper, Current
    <2>2. ASSUME NEW d \in DOMAIN w.alloc
          PROVE  w'.alloc[d] <= Cardinality(w'.seen \cap Seen(d))
      <3> DEFINE S == w.seen \cap Seen(d)
      <3>1. d \in Dirs /\ w.alloc[d] \in Nat
        BY <1>1, TableType
      <3>2. w.alloc[d] <= Cardinality(S) /\ i \notin S
        BY <1>5 DEF Upper
      <3>3. IsFiniteSet(S) /\ Cardinality(S) \in Nat
        BY <1>1, SmallSet
      <3>4. CASE d \in Path[w.at.name]
        <4>1. i \in Seen(d)
          BY <1>1, <2>1, <3>1, <3>4, Tree DEF Seen
        <4>2. w'.seen \cap Seen(d) = S \cup {i}
          BY <1>5, <4>1
        <4>3. Cardinality(w'.seen \cap Seen(d)) = Cardinality(S) + 1
          BY <3>2, <3>3, <4>2, FS_AddElement
        <4>4. w'.alloc[d] = w.alloc[d] + 1
          BY <1>5, <3>4
        <4> HIDE DEF S
        <4> QED
          BY <3>1, <3>2, <3>3, <4>3, <4>4
      <3>5. CASE d \notin Path[w.at.name]
        <4>1. w'.alloc[d] = w.alloc[d]
          BY <1>5, <3>1, <3>5
        <4>2. S \in SUBSET (w'.seen \cap Seen(d)) /\ w'.seen \cap Seen(d) \in SUBSET Inodes
          BY <1>1, <1>5
        <4>3. Cardinality(S) <= Cardinality(w'.seen \cap Seen(d))
              /\ Cardinality(w'.seen \cap Seen(d)) \in Nat
          BY <4>2, SmallSet
        <4> HIDE DEF S
        <4> QED
          BY <3>1, <3>2, <3>3, <4>1, <4>3
      <3> QED
        BY <3>4, <3>5
    <2>3. \A d : Seen(d)' = Seen(d)
      BY <1>1 DEF Seen, Under, Look
    <2>4. \A d \in DOMAIN w'.alloc : w'.alloc[d] <= Cardinality(w'.seen \cap Seen(d)')
      BY <1>5, <2>2, <2>3
    <2>5. Current' /\ \A t : Sound(t)' = Sound(t)
      BY <1>1, <1>3, <2>3 DEF Look, Current, Upper, Sound
    <2>6. Sound(w.msg.alloc)' /\ Sound(parent.latest.alloc)'
      BY <1>1, <1>2, <2>3 DEF Look, Upper, Sound
    <2>7. (\A k \in 1 .. Len(pipe) : Sound(pipe[k].alloc))'
      BY <1>1, <2>3 DEF Upper, Sound
    <2> QED
      BY <2>4, <2>5, <2>6, <2>7 DEF Upper
  <1> QED
    BY <1>4, <1>5, CountFileStep

LEMMA SnapshotSound ==
    ASSUME Types, Upper, NEW S \in SUBSET DOMAIN w.alloc,
           NEW kind \in {"progress", "complete", "partial"}
    PROVE  Sound(Snapshot(kind, S).alloc)
  <1>1. \A d : w.seen \cap Seen(d) \in SUBSET Seen(d) /\ Seen(d) \in SUBSET Inodes
    BY SeenType DEF Types
  <1>2. \A d : /\ Cardinality(w.seen \cap Seen(d)) <= Cardinality(Seen(d))
               /\ Cardinality(w.seen \cap Seen(d)) \in Nat /\ Cardinality(Seen(d)) \in Nat
    BY <1>1, SmallSet
  <1>3. \A d \in S : w.alloc[d] <= Cardinality(w.seen \cap Seen(d)) /\ w.alloc[d] \in Nat
    BY TableType DEF Types, WorkTypes, Workers, Upper
  <1>4. ASSUME NEW d \in S PROVE w.alloc[d] <= Cardinality(Seen(d))
    <2>1. /\ Cardinality(w.seen \cap Seen(d)) <= Cardinality(Seen(d))
          /\ Cardinality(w.seen \cap Seen(d)) \in Nat /\ Cardinality(Seen(d)) \in Nat
      BY <1>2
    <2>2. w.alloc[d] <= Cardinality(w.seen \cap Seen(d)) /\ w.alloc[d] \in Nat
      BY <1>3
    <2> QED
      BY <2>1, <2>2
  <1> QED
    BY <1>4, SnapshotType DEF Sound, Types, WorkTypes

LEMMA UpperKept == Upper /\ Types /\ Types' /\ [Next]_vars => Upper'
  <1> SUFFICES ASSUME Upper, Types, Types', [Next]_vars PROVE Upper'
    OBVIOUS
  <1>1. w \in Workers /\ w' \in Workers
    BY DEF Types, WorkTypes
  <1>2. CASE Halt \/ Leave \/ ReadFails \/ Exit
    <2>1. Walking' => Walking
      BY <1>2, PlainStep DEF Walking
    <2> QED
      BY <1>2, <2>1, PlainStep, UpperStep DEF Look
  <1>3. CASE Unavailable
    <2> DEFINE msg == [kind |-> "unavailable", alloc |-> <<>>]
    <2>1. w' = Ended(msg) /\ Look /\ UNCHANGED pipe /\ msg \in Messages
      BY <1>3, NoneType DEF Unavailable, Messages
    <2>2. w'.alloc = <<>> /\ w'.msg = msg /\ w'.stack = <<>> /\ w'.pc = "part"
      BY <1>1, <2>1, EndedType
    <2>3. Sound(w'.msg.alloc)
      BY <2>2, NoneType DEF Sound, None
    <2>4. ~ Walking'
      BY <2>2 DEF Walking
    <2> QED
      BY <2>1, <2>2, <2>3, <2>4, UpperStep DEF Look
  <1>4. CASE Entry
    BY <1>4, EntryStep, UpperStep DEF Look, Walking
  <1>5. CASE EnterDir
    <2>1. /\ Look /\ UNCHANGED pipe /\ w.pc = "open" /\ w'.pc = "told" /\ w'.seen = w.seen
          /\ w.alloc \in Tables
      BY <1>5, EnterDirStep DEF Types, WorkTypes, Workers
    <2>2. w'.msg = w.msg
      BY <1>1, <1>5 DEF EnterDir, Workers
    <2>3. CASE w'.alloc = w.alloc
      BY <2>1, <2>2, <2>3, UpperStep DEF Look, Walking
    <2>4. CASE w'.alloc = [r \in DOMAIN w.alloc \cup ({w.at.name} \cap Rows) |->
                             Allocated(w.alloc, r)]
      <3>1. \A d : Seen(d)' = Seen(d)
        BY <2>1 DEF Seen, Under, Look
      <3>2. \A d : Cardinality(w.seen \cap Seen(d)) \in Nat
        BY <1>1, SmallSet DEF Workers
      <3>3. \A d \in DOMAIN w'.alloc : w'.alloc[d] <= Cardinality(w'.seen \cap Seen(d)')
        BY <2>1, <2>4, <3>1, <3>2 DEF Allocated, Upper
      <3>4. Current'
        BY <2>1 DEF Look, Current, Upper, Walking
      <3>5. Sound(w.msg.alloc)' /\ Sound(parent.latest.alloc)'
        BY <2>1, <2>2, <3>1 DEF Look, Upper, Sound
      <3>6. (\A k \in 1 .. Len(pipe) : Sound(pipe[k].alloc))'
        BY <2>1, <3>1 DEF Upper, Sound
      <3> QED
        BY <3>3, <3>4, <3>5, <3>6 DEF Upper
    <2> QED
      BY <1>5, <2>3, <2>4, EnterDirStep
  <1>6. CASE Progress
    <2>1. w'.msg = w.msg \/ Sound(w'.msg.alloc)
      BY <1>6, ProgressStep, SnapshotSound
    <2> QED
      BY <1>6, <2>1, ProgressStep, UpperStep DEF Look, Walking
  <1>7. CASE Finish
    <2>1. Sound(w'.msg.alloc)
      BY <1>7, FinishStep, SnapshotSound
    <2> QED
      BY <1>7, <2>1, FinishStep, UpperStep DEF Look, Walking
  <1>8. CASE WritePart \/ WriteEnd
    <2>1. PICK pc \in {"rest", "walk", "exit"} :
            /\ w' = [w EXCEPT !.pc = pc] /\ w'.pc = pc
            /\ pc = "walk" => w.msg.kind = "progress"
      BY <1>8, WriteStep
    <2>2. PICK m \in {None, w.msg} : pipe' = Append(pipe, m)
      BY <1>8, WriteStep
    <2>3. Look /\ w.pc \in {"part", "rest"}
      BY <1>8, WriteStep
    <2>4. w'.alloc = w.alloc /\ w'.seen = w.seen /\ w'.msg = w.msg /\ w'.stack = w.stack
      BY <1>1, <2>1 DEF Workers
    <2>5. Walking' => Walking
      BY <2>1, <2>3, <2>4 DEF Walking, Types, Stages
    <2> QED
      BY <2>2, <2>3, <2>4, <2>5, UpperStep DEF Look
  <1>9. CASE Collect
    <2>1. /\ Keep /\ pipe' \in {pipe, Tail(pipe)} /\ w' \in {w, [w EXCEPT !.pc = "killed"]}
          /\ pipe' = pipe \/ pipe # <<>>
          /\ parent'.latest = parent.latest \/ (pipe # <<>> /\ parent'.latest = Head(pipe))
      BY <1>9, ParentStep
    <2>2. /\ w'.pc \in {w.pc, "killed"} /\ w'.stack = w.stack /\ w'.seen = w.seen
          /\ w'.alloc = w.alloc /\ w'.msg = w.msg
      BY <2>1, WorkerAside
    <2>3. Walking' => Walking
      BY <2>2 DEF Walking
    <2> QED
      BY <2>1, <2>2, <2>3, UpperStep DEF Keep
  <1>10. CASE UNCHANGED <<node, ever, w, pipe, parent>>
    BY <1>10, UpperStep DEF Walking
  <1>11. Hang \/ Tick \/ UNCHANGED vars => UNCHANGED <<node, ever, w, pipe, parent>>
    BY DEF Hang, Tick, vars
  <1> QED
    BY <1>2, <1>3, <1>4, <1>5, <1>6, <1>7, <1>8, <1>9, <1>10, <1>11, UpperGuest, UpperStart, UpperCount
       DEF Next, Worker, Done

LEMMA InitUpper == Init => Upper
  <1> SUFFICES ASSUME Init PROVE Upper
    OBVIOUS
  <1>1. w.msg = None /\ parent.latest = None /\ pipe = <<>> /\ w.alloc = <<>> /\ ~ Walking
    BY DEF Init, Walking
  <1>2. DOMAIN w.alloc = {} /\ DOMAIN w.msg.alloc = {} /\ DOMAIN parent.latest.alloc = {}
        /\ 1 .. Len(pipe) = {}
    BY <1>1, NoneType DEF None
  <1> QED
    BY <1>1, <1>2 DEF Upper, Sound

\* No report gives a directory more than the files that were below it at some time of the
\* walk, each counted once (collect_disk_usage).
THEOREM AlwaysNeverOvercounts == Spec => []NeverOvercounts
  <1>1. Upper => NeverOvercounts
    BY DEF Upper, Sound, NeverOvercounts
  <1> QED
    BY <1>1, InitTypes, TypesKept, InitUpper, UpperKept, PTL DEF Spec

-----------------------------------------------------------------------------
(***************************************************************************)
(* CompleteMissesNothing.  A file left alone is counted, or on the stack   *)
(* of the walk, or the one that is looked at; and what was counted has a   *)
(* row in every directory above it.                                        *)
(***************************************************************************)
Live == w.pc \in {"walk", "open", "told"} \/ (w.pc \in {"part", "rest"} /\ w.msg.kind = "progress")

\* A name left alone has the inode it had throughout, and no mount above it.
Intact ==
    /\ \A n \in still : \A m \in Path[n] : node[m] # 0 /\ m \notin mounted /\ m \notin w.before
    /\ \A e \in ever : e[1] \in still => node[e[1]] = e[2]

Pending(n) ==
    \/ \E k \in 1 .. Len(w.stack) : w.stack[k].left \cap Path[n] # {}
    \/ w.pc = "open" /\ w.at.name \in Path[n]

Covered ==
    /\ w.pc = "end" => w.partial
    /\ Live /\ ~ w.partial => \A n \in still \cap Files : node[n] \in w.seen \/ Pending(n)

Looked == w.pc = "open" /\ w.at.name \in still => node[w.at.name] = w.at.ino

\* The directories on the stack, and so those above them, have rows.
Entered ==
    /\ \A k \in 1 .. Len(w.stack) :
         /\ Path[w.stack[k].dir] \cap Rows \subseteq DOMAIN w.alloc
         /\ \A m \in w.stack[k].left : Parent[m] = w.stack[k].dir
    /\ w.pc = "open" => Path[Parent[w.at.name]] \cap Rows \subseteq DOMAIN w.alloc

Tallied ==
    /\ \A d \in Rows : w.seen \cap Kept(d) # {} => d \in DOMAIN w.alloc
    /\ \A d \in DOMAIN w.alloc : Cardinality(w.seen \cap Kept(d)) <= w.alloc[d]

Full(t) == \A d \in Rows : Kept(d) # {} => d \in DOMAIN t /\ Cardinality(Kept(d)) <= t[d]

Honest(m) == m.kind = "complete" => Full(m.alloc)

Lower ==
    /\ Intact /\ Covered /\ Looked /\ Entered /\ Tallied
    /\ Honest(w.msg) /\ Honest(parent.latest)
    /\ \A k \in 1 .. Len(pipe) : Honest(pipe[k])

LEMMA KeptType == \A d : Kept(d) \subseteq Inodes
  BY DEF Kept

\* What is left alone becomes less.
LEMMA KeptShrinks ==
    ASSUME Types, Upper, Guest
    PROVE  \A d : Kept(d)' \subseteq Kept(d)
  <1>1. /\ Walking /\ ever \subseteq ever' /\ still' \subseteq still /\ GuestTypes'
        /\ \A e \in ever' : e \in ever \/ e[2] = node'[e[1]]
        /\ \A n \in still' : \A m \in Path[n] : node'[m] = node[m]
    BY GuestKeeps
  <1> SUFFICES ASSUME NEW d, NEW i \in Inodes, Held(i)' # {}, Held(i)' \subseteq still' \cap Under(d)
               PROVE  Held(i) # {} /\ Held(i) \subseteq still \cap Under(d)
    BY DEF Kept, Under
  <1>2. Held(i) \subseteq Held(i)'
    BY <1>1 DEF Held
  <1>3. PICK n \in Files : <<n, i>> \in ever' /\ n \in still'
    BY DEF Held
  <1>4. node'[n] = node[n]
    BY <1>1, <1>3, Tree
  <1>5. <<n, i>> \in ever
    <2>1. CASE <<n, i>> \notin ever
      <3>1. i = node[n] /\ i # 0
        BY <1>1, <1>3, <1>4, <2>1, InodesFinite
      <3> QED
        BY <1>1, <1>3, <3>1 DEF Upper, Current
    <2> QED
      BY <2>1
  <1> QED
    BY <1>1, <1>2, <1>3, <1>5 DEF Held

\* A table with everything keeps it all while less is left alone.
LEMMA FullStays ==
    ASSUME Types, Upper, Guest, NEW t \in Tables,
           \A d \in Rows : Kept(d) # {} => d \in DOMAIN t /\ Cardinality(Kept(d)) <= t[d]
    PROVE  \A d \in Rows : Kept(d)' # {} => d \in DOMAIN t /\ Cardinality(Kept(d)') <= t[d]
  <1> SUFFICES ASSUME NEW d \in Rows, Kept(d)' # {}
               PROVE  d \in DOMAIN t /\ Cardinality(Kept(d)') <= t[d]
    OBVIOUS
  <1>1. Kept(d)' \in SUBSET Kept(d) /\ Kept(d) \in SUBSET Inodes
    BY KeptShrinks, KeptType
  <1>2. /\ Cardinality(Kept(d)') <= Cardinality(Kept(d))
        /\ Cardinality(Kept(d)') \in Nat /\ Cardinality(Kept(d)) \in Nat
    BY <1>1, SmallSet
  <1>3. d \in DOMAIN t /\ Cardinality(Kept(d)) <= t[d] /\ t[d] \in Nat
    BY <1>1, TableType
  <1> QED
    BY <1>2, <1>3

LEMMA LowerGuest == ASSUME Types, Types', Upper, Lower, Guest PROVE Lower'
  <1>1. /\ UNCHANGED <<w, pipe, parent>> /\ ever \subseteq ever' /\ still' \subseteq still
        /\ \A e \in ever' : e \in ever \/ e[2] = node'[e[1]]
        /\ \A n \in still' : \A m \in Path[n] :
             node'[m] = node[m] /\ (m \in mounted' <=> m \in mounted)
    BY GuestKeeps
  <1>2. \A n \in still' : n \in Names /\ n \in Path[n] /\ node'[n] = node[n]
    BY <1>1, Tree DEF Types, GuestTypes
  <1>3. Intact'
    <2>1. \A n \in still' : \A m \in Path[n] : node'[m] # 0 /\ m \notin mounted' /\ m \notin w'.before
      BY <1>1 DEF Lower, Intact
    <2>2. \A e \in ever' : e[1] \in still' => node'[e[1]] = e[2]
      BY <1>1, <1>2 DEF Lower, Intact
    <2> QED
      BY <2>1, <2>2 DEF Intact
  <1>4. Covered'
    BY <1>1, <1>2 DEF Lower, Covered, Live, Pending
  <1>5. Looked' /\ Entered'
    BY <1>1, <1>2 DEF Lower, Looked, Entered, Rows, HasRow
  <1>6. Tallied'
    <2>1. \A d : Kept(d)' \in SUBSET Kept(d) /\ Kept(d) \in SUBSET Inodes
      BY KeptShrinks, KeptType
    <2>2. \A d \in Rows : w.seen \cap Kept(d)' # {} => d \in DOMAIN w.alloc
      BY <2>1 DEF Lower, Tallied
    <2>3. ASSUME NEW d \in DOMAIN w.alloc
          PROVE  Cardinality(w.seen \cap Kept(d)') <= w.alloc[d]
      <3>1. /\ w.seen \cap Kept(d)' \in SUBSET (w.seen \cap Kept(d))
            /\ w.seen \cap Kept(d) \in SUBSET Inodes
        BY <2>1
      <3>2. /\ Cardinality(w.seen \cap Kept(d)') <= Cardinality(w.seen \cap Kept(d))
            /\ Cardinality(w.seen \cap Kept(d)') \in Nat /\ Cardinality(w.seen \cap Kept(d)) \in Nat
        BY <3>1, SmallSet
      <3>3. Cardinality(w.seen \cap Kept(d)) <= w.alloc[d] /\ w.alloc[d] \in Nat
        BY TableType DEF Types, WorkTypes, Workers, Lower, Tallied
      <3> QED
        BY <3>2, <3>3
    <2> QED
      BY <1>1, <2>2, <2>3 DEF Tallied, Rows, HasRow
  <1>7. \A t \in Tables :
          (\A d \in Rows : Kept(d) # {} => d \in DOMAIN t /\ Cardinality(Kept(d)) <= t[d])
          => (\A d \in Rows : Kept(d)' # {} => d \in DOMAIN t /\ Cardinality(Kept(d)') <= t[d])
    BY FullStays
  <1>8. Honest(w.msg)' /\ Honest(parent.latest)'
    BY <1>1, <1>7, Said DEF Lower, Honest, Full, Rows, HasRow
  <1>9. (\A k \in 1 .. Len(pipe) : Honest(pipe[k]))'
    BY <1>1, <1>7, Said DEF Lower, Honest, Full, Rows, HasRow
  <1> QED
    BY <1>3, <1>4, <1>5, <1>6, <1>8, <1>9 DEF Lower

\* A step of the others, by what it does to the mount table read and the messages.
LEMMA LowerStep ==
    ASSUME Types, Types', Lower, UNCHANGED <<node, mounted, still, ever>>,
           w'.before \in {w.before, {}}, Covered', Looked', Entered', Tallied',
           w'.msg = w.msg \/ Honest(w'.msg),
           \/ pipe' \in {pipe, Append(pipe, None), Append(pipe, w.msg)}
           \/ pipe # <<>> /\ pipe' = Tail(pipe),
           parent'.latest = parent.latest \/ (pipe # <<>> /\ parent'.latest = Head(pipe))
    PROVE  Lower'
  <1>1. \A d : Kept(d)' = Kept(d)
    BY DEF Kept, Held, Under
  <1>2. \A m : Honest(m)' = Honest(m)
    BY <1>1 DEF Honest, Full, Rows, HasRow
  <1>3. Intact'
    BY DEF Lower, Intact
  <1>4. pipe \in Seq(Messages) /\ Honest(None)
    BY DEF Types, WorkTypes, Honest, None
  <1>5. Honest(w'.msg)
    BY DEF Lower
  <1>6. \A k \in 1 .. Len(pipe') : Honest(pipe'[k])
    <2>1. CASE pipe' = pipe
      BY <2>1 DEF Lower
    <2>2. ASSUME NEW m \in {None, w.msg}, pipe' = Append(pipe, m)
          PROVE  \A k \in 1 .. Len(pipe') : Honest(pipe'[k])
      <3>1. Honest(m)
        BY <1>4 DEF Lower
      <3>2. \A k \in 1 .. Len(pipe') : pipe'[k] = m \/ (k \in 1 .. Len(pipe) /\ pipe'[k] = pipe[k])
        BY <1>4, <2>2
      <3> QED
        BY <3>1, <3>2 DEF Lower
    <2>3. CASE pipe # <<>> /\ pipe' = Tail(pipe)
      <3>1. \A k \in 1 .. Len(pipe') : k + 1 \in 1 .. Len(pipe) /\ pipe'[k] = pipe[k + 1]
        BY <1>4, <2>3
      <3> QED
        BY <3>1 DEF Lower
    <2> QED
      BY <2>1, <2>2, <2>3
  <1>7. Honest(parent'.latest)
    <2>1. CASE pipe # <<>> /\ parent'.latest = Head(pipe)
      <3>1. 1 \in 1 .. Len(pipe) /\ Head(pipe) = pipe[1]
        BY <1>4, <2>1
      <3> QED
        BY <2>1, <3>1 DEF Lower
    <2> QED
      BY <2>1 DEF Lower
  <1> QED
    BY <1>2, <1>3, <1>5, <1>6, <1>7 DEF Lower

LEMMA TalliedStep ==
    ASSUME Types, Tallied, UNCHANGED <<still, ever>>,
           (w'.alloc = <<>> /\ w'.seen = {}) \/ (w'.alloc = w.alloc /\ w'.seen = w.seen)
    PROVE  Tallied'
  <1>1. \A d : Kept(d)' = Kept(d)
    BY DEF Kept, Held, Under
  <1>2. CASE w'.alloc = <<>> /\ w'.seen = {}
    <2>1. DOMAIN w'.alloc = {}
      BY <1>2, NoneType DEF None
    <2> QED
      BY <1>2, <2>1 DEF Tallied
  <1>3. CASE w'.alloc = w.alloc /\ w'.seen = w.seen
    BY <1>1, <1>3 DEF Tallied, Rows, HasRow
  <1> QED
    BY <1>2, <1>3

\* Frames that stay, and no entry that is looked at.
LEMMA EnteredStep ==
    ASSUME Types, Entered, w'.pc # "open",
           DOMAIN w.alloc \subseteq DOMAIN w'.alloc \/ w'.stack = <<>>,
           \/ w'.stack \in {<<>>, w.stack}
           \/ w.stack # <<>> /\ w'.stack = SubSeq(w.stack, 1, Len(w.stack) - 1)
    PROVE  Entered' /\ Looked'
  <1>1. w.stack \in Seq(Frames)
    BY DEF Types, WorkTypes, Workers
  <1>2. \A k \in 1 .. Len(w'.stack) : /\ k \in 1 .. Len(w.stack) /\ w'.stack[k] = w.stack[k]
                                      /\ w'.stack # <<>>
    <2>1. \/ w'.stack = <<>> \/ w'.stack = w.stack
          \/ w.stack # <<>> /\ w'.stack = SubSeq(w.stack, 1, Len(w.stack) - 1)
      OBVIOUS
    <2>2. CASE w'.stack = <<>>
      BY <2>2
    <2>3. CASE w'.stack = w.stack
      BY <1>1, <2>3
    <2>4. CASE w.stack # <<>> /\ w'.stack = SubSeq(w.stack, 1, Len(w.stack) - 1)
      <3> DEFINE K == Len(w.stack)
      <3>1. /\ K \in Nat \ {0} /\ Len(w'.stack) = K - 1
            /\ \A k \in 1 .. K - 1 : w'.stack[k] = w.stack[k]
        BY <1>1, <2>4, Shorter
      <3>2. w'.stack # <<>> \/ Len(w'.stack) = 0
        OBVIOUS
      <3> HIDE DEF K
      <3>3. \A k \in 1 .. Len(w'.stack) : k \in 1 .. K /\ w'.stack[k] = w.stack[k] /\ w'.stack # <<>>
        BY <3>1, <3>2
      <3> QED
        BY <3>3 DEF K
    <2> QED
      BY <2>1, <2>2, <2>3, <2>4
  <1>3. \A k \in 1 .. Len(w'.stack) :
          /\ Path[w'.stack[k].dir] \cap Rows \subseteq DOMAIN w'.alloc
          /\ \A m \in w'.stack[k].left : Parent[m] = w'.stack[k].dir
    BY <1>2 DEF Entered
  <1> QED
    BY <1>3 DEF Entered, Looked, Rows, HasRow

\* The walk begins with an entry of the root on the way to every name.
LEMMA LowerStart == ASSUME Types, Types', Lower, Start PROVE Lower'
  <1>1. w.pc = "new" /\ w \in Workers /\ UNCHANGED <<node, mounted, pipe, parent>>
    BY DEF Start, Works, Types, WorkTypes
  <1>2. /\ w.msg = None /\ parent.latest = None /\ pipe = <<>> /\ w.alloc = <<>> /\ w.seen = {}
        /\ \A d \in Dirs : node[d] # 0
    BY <1>1 DEF Types, Stages
  <1>3. /\ w'.msg = None /\ w'.alloc = <<>> /\ w'.seen = {} /\ w'.before = mounted /\ w'.pc = "walk"
        /\ w'.stack = <<[dir |-> Root, left |-> Listing(Root)]>>
    BY <1>1, <1>2 DEF Start, Workers
  <1>4. /\ still' = {n \in Names : node[n] # 0 /\ Path[n] \cap mounted = {}}
        /\ ever' = {<<n, node[n]>> : n \in {m \in Files : node[m] # 0}}
    BY DEF Start
  <1>5. ASSUME NEW n \in still', NEW m \in Path[n]
        PROVE  node[m] # 0 /\ m \notin mounted
    BY <1>2, <1>4, PathDirs
  <1>6. Intact'
    BY <1>1, <1>3, <1>4, <1>5 DEF Intact
  <1>7. Covered'
    <2> SUFFICES ASSUME NEW n \in still' \cap Files
                 PROVE  w'.stack[1].left \cap Path[n] # {}
      BY <1>3 DEF Covered, Pending
    <2>1. n \in Names /\ n # Root
      BY Tree
    <2>2. PICK m \in Path[n] : Parent[m] = Root
      BY <2>1, NextDown
    <2>3. m \in Names /\ node[m] # 0
      BY <1>5, <2>1, Tree
    <2> QED
      BY <1>3, <2>2, <2>3 DEF Listing
  <1>8. Entered' /\ Looked'
    <2>1. \A k \in 1 .. Len(w'.stack) : w'.stack[k] = [dir |-> Root, left |-> Listing(Root)]
      BY <1>3
    <2>2. \A m \in Listing(Root) : Parent[m] = Root
      BY DEF Listing
    <2> QED
      BY <1>3, <2>1, <2>2, PathStep DEF Entered, Looked, Rows, HasRow
  <1>9. Tallied'
    <2>1. DOMAIN w'.alloc = {}
      BY <1>3, NoneType DEF None
    <2> QED
      BY <1>3, <2>1 DEF Tallied
  <1>10. Honest(w.msg)' /\ Honest(parent.latest)' /\ (\A k \in 1 .. Len(pipe) : Honest(pipe[k]))'
    <2>1. w'.msg.kind = "none" /\ parent'.latest.kind = "none" /\ pipe' = <<>>
      BY <1>1, <1>2, <1>3 DEF None
    <2>2. 1 .. Len(pipe') = {}
      BY <2>1
    <2> QED
      BY <2>1, <2>2 DEF Honest
  <1> QED
    BY <1>6, <1>7, <1>8, <1>9, <1>10 DEF Lower

\* An entry leaves its frame only to be looked at, or when no name left alone is below it.
LEMMA LowerEntry == ASSUME Types, Types', Lower, Entry PROVE Lower'
  <1>1. PICK n \in Top.left :
             /\ n \in Names /\ Look /\ UNCHANGED pipe /\ w.pc = "walk" /\ w.stack # <<>>
             /\ w' \in Workers
             /\ w'.stack = [w.stack EXCEPT ![Len(w.stack)].left = @ \ {n}]
             /\ Len(w'.stack) = Len(w.stack)
             /\ w'.seen = w.seen /\ w'.alloc = w.alloc /\ w'.before = w.before
             /\ w'.partial = w.partial /\ w'.msg = w.msg
             /\ \/ (n \in w.before \/ node[n] = 0) /\ w'.pc = "walk"
                \/ node[n] # 0 /\ w'.pc = "open" /\ w'.at = [name |-> n, ino |-> node[n]]
    BY EntryStep
  <1> DEFINE K == Len(w.stack)
  <1>2. w.stack \in Seq(Frames) /\ K \in Nat \ {0} /\ Top = w.stack[K] /\ K \in 1 .. K
    BY <1>1, Shorter DEF Types, WorkTypes, Workers, Top
  <1>3. \A k \in 1 .. K : /\ w'.stack[k].dir = w.stack[k].dir
                          /\ w'.stack[k].left = IF k = K THEN w.stack[k].left \ {n} ELSE w.stack[k].left
    <2> SUFFICES ASSUME NEW k \in 1 .. K
                 PROVE  /\ w'.stack[k].dir = w.stack[k].dir
                        /\ w'.stack[k].left = IF k = K THEN w.stack[k].left \ {n} ELSE w.stack[k].left
      OBVIOUS
    <2>1. w.stack[k] \in Frames
      BY <1>2
    <2>2. k \in DOMAIN w.stack
      BY <1>2
    <2>3. w'.stack[k] = IF k = K THEN [w.stack[k] EXCEPT !.left = @ \ {n}] ELSE w.stack[k]
      BY <1>1, <2>2
    <2> HIDE DEF K
    <2> QED
      BY <2>1, <2>3 DEF Frames
  <1>4. Covered'
    <2> SUFFICES ASSUME Live', ~ w'.partial, NEW x \in still' \cap Files
                 PROVE  node'[x] \in w'.seen \/ Pending(x)'
      BY <1>1 DEF Covered
    <2>1. node[x] \in w.seen \/ Pending(x)
      BY <1>1 DEF Lower, Covered, Live, Look
    <2>2. CASE n \in Path[x]
      <3>1. n \notin w.before /\ node[n] # 0
        BY <1>1, <2>2 DEF Lower, Intact, Look
      <3>2. w'.pc = "open" /\ w'.at.name = n
        BY <1>1, <3>1
      <3> QED
        BY <2>2, <3>2 DEF Pending
    <2>3. ASSUME n \notin Path[x], NEW k \in 1 .. K, w.stack[k].left \cap Path[x] # {}
          PROVE  Pending(x)'
      <3>1. w'.stack[k].left \cap Path[x] # {} /\ k \in 1 .. Len(w'.stack)
        BY <1>1, <1>3, <2>3
      <3> QED
        BY <3>1 DEF Pending
    <2> QED
      BY <1>1, <2>1, <2>2, <2>3 DEF Pending, Look
  <1>5. Looked'
    BY <1>1 DEF Looked, Look
  <1>6. Entered'
    <2>1. \A k \in 1 .. Len(w'.stack) :
            /\ Path[w'.stack[k].dir] \cap Rows \subseteq DOMAIN w'.alloc
            /\ \A m \in w'.stack[k].left : Parent[m] = w'.stack[k].dir
      BY <1>1, <1>3 DEF Lower, Entered
    <2>2. w'.pc = "open" => Path[Parent[w'.at.name]] \cap Rows \subseteq DOMAIN w'.alloc
      BY <1>1, <1>2 DEF Lower, Entered
    <2> QED
      BY <2>1, <2>2 DEF Entered, Rows, HasRow
  <1>7. Tallied'
    BY <1>1, TalliedStep DEF Lower, Look
  <1> QED
    BY <1>1, <1>4, <1>5, <1>6, <1>7, LowerStep DEF Look

\* A directory is passed over only when no name left alone is below it; else the way on to
\* every such name is an entry of it.
LEMMA LowerEnterDir == ASSUME Types, Types', Lower, EnterDir PROVE Lower'
  <1> DEFINE d == w.at.name
  <1>1. /\ Look /\ UNCHANGED pipe /\ w.pc = "open" /\ d \in Dirs /\ w'.pc = "told"
        /\ w'.seen = w.seen /\ w'.before = w.before /\ w'.partial = w.partial
        /\ w \in Workers /\ w.stack \in Seq(Frames) /\ w.stack # <<>> /\ d \in Names
    BY EnterDirStep DEF Types, WorkTypes, Stages, Workers
  <1>2. w'.msg = w.msg
    BY <1>1 DEF EnterDir, Workers
  <1>3. Looked'
    BY <1>1 DEF Looked
  <1>4. CASE (node[d] = 0 \/ d \in mounted) /\ w'.stack = w.stack /\ w'.alloc = w.alloc
    <2>1. \A x \in still : d \notin Path[x]
      BY <1>4 DEF Lower, Intact
    <2>2. Covered'
      <3> SUFFICES ASSUME ~ w'.partial, NEW x \in still' \cap Files
                   PROVE  node'[x] \in w'.seen \/ Pending(x)'
        BY <1>1 DEF Covered
      <3>1. node[x] \in w.seen \/ Pending(x)
        BY <1>1 DEF Lower, Covered, Live, Look
      <3> QED
        BY <1>1, <1>4, <2>1, <3>1 DEF Pending, Look
    <2>3. Entered'
      BY <1>1, <1>4, EnteredStep DEF Lower
    <2>4. Tallied'
      BY <1>1, <1>4, TalliedStep DEF Lower, Look
    <2> QED
      BY <1>1, <1>2, <1>3, <2>2, <2>3, <2>4, LowerStep DEF Look
  <1>5. CASE /\ w'.stack = Append(w.stack, [dir |-> d, left |-> Listing(d)])
             /\ w'.alloc = [r \in DOMAIN w.alloc \cup ({d} \cap Rows) |-> Allocated(w.alloc, r)]
    <2> DEFINE K == Len(w.stack)
    <2>1. /\ K \in Nat /\ Len(w'.stack) = K + 1 /\ \A k \in 1 .. K : w'.stack[k] = w.stack[k]
          /\ w'.stack[K + 1] = [dir |-> d, left |-> Listing(d)]
      BY <1>1, <1>5
    <2>2. Covered'
      <3> SUFFICES ASSUME ~ w'.partial, NEW x \in still' \cap Files
                   PROVE  node'[x] \in w'.seen \/ Pending(x)'
        BY <1>1 DEF Covered
      <3>1. node[x] \in w.seen \/ Pending(x)
        BY <1>1 DEF Lower, Covered, Live, Look
      <3>2. ASSUME NEW k \in 1 .. K, w.stack[k].left \cap Path[x] # {} PROVE Pending(x)'
        <4>1. k \in 1 .. Len(w'.stack) /\ w'.stack[k].left \cap Path[x] # {}
          BY <2>1, <3>2
        <4> QED
          BY <4>1 DEF Pending
      <3>3. CASE d \in Path[x]
        <4>1. x \in Names /\ d # x
          BY <1>1, Tree
        <4>2. PICK m \in Path[x] : Parent[m] = d
          BY <1>1, <3>3, <4>1, NextDown
        <4>3. m \in Names /\ node[m] # 0
          BY <1>1, <4>1, Tree DEF Lower, Intact, Look
        <4>4. m \in Listing(d)
          BY <4>2, <4>3 DEF Listing
        <4>5. K + 1 \in 1 .. Len(w'.stack) /\ w'.stack[K + 1].left \cap Path[x] # {}
          BY <2>1, <4>4
        <4> QED
          BY <4>5 DEF Pending
      <3> QED
        BY <1>1, <3>1, <3>2, <3>3 DEF Pending, Look
    <2>3. DOMAIN w'.alloc = DOMAIN w.alloc \cup ({d} \cap Rows)
      BY <1>5
    <2>4. Entered'
      <3>1. Path[d] \cap Rows \subseteq DOMAIN w'.alloc
        BY <1>1, <2>3, PathStep DEF Lower, Entered
      <3>2. \A m \in Listing(d) : Parent[m] = d
        BY DEF Listing
      <3>3. \A k \in 1 .. Len(w'.stack) :
              /\ Path[w'.stack[k].dir] \cap Rows \subseteq DOMAIN w'.alloc
              /\ \A m \in w'.stack[k].left : Parent[m] = w'.stack[k].dir
        <4> SUFFICES ASSUME NEW k \in 1 .. Len(w'.stack)
                     PROVE  /\ Path[w'.stack[k].dir] \cap Rows \subseteq DOMAIN w'.alloc
                            /\ \A m \in w'.stack[k].left : Parent[m] = w'.stack[k].dir
          OBVIOUS
        <4>1. CASE k \in 1 .. K
          BY <2>1, <2>3, <4>1 DEF Lower, Entered
        <4>2. CASE k = K + 1
          BY <2>1, <3>1, <3>2, <4>2
        <4> QED
          BY <2>1, <4>1, <4>2
      <3> QED
        BY <1>1, <3>3 DEF Entered, Rows, HasRow
    <2>5. Tallied'
      <3>1. \A r : Kept(r)' = Kept(r)
        BY <1>1 DEF Kept, Held, Under, Look
      <3>2. ASSUME NEW r \in DOMAIN w'.alloc
            PROVE  Cardinality(w'.seen \cap Kept(r)) <= w'.alloc[r]
        <4>1. w'.alloc[r] = Allocated(w.alloc, r)
          BY <1>5, <2>3
        <4>2. CASE r \in DOMAIN w.alloc
          BY <1>1, <4>1, <4>2 DEF Allocated, Lower, Tallied
        <4>3. CASE r \notin DOMAIN w.alloc
          <5>1. r \in Rows /\ w'.alloc[r] = 0
            BY <2>3, <4>1, <4>3 DEF Allocated
          <5>2. w'.seen \cap Kept(r) = {}
            BY <1>1, <4>3, <5>1 DEF Lower, Tallied
          <5> QED
            BY <5>1, <5>2, FS_EmptySet
        <4> QED
          BY <4>2, <4>3
      <3>3. \A r \in Rows : w'.seen \cap Kept(r) # {} => r \in DOMAIN w'.alloc
        BY <1>1, <2>3 DEF Lower, Tallied
      <3> QED
        BY <3>1, <3>2, <3>3 DEF Tallied, Rows, HasRow
    <2> QED
      BY <1>1, <1>2, <1>3, <2>2, <2>4, <2>5, LowerStep DEF Look
  <1> QED
    BY <1>4, <1>5, EnterDirStep

\* A file is passed over only when it was counted, or was not left alone; all rows above
\* it are there.
LEMMA LowerCount == ASSUME Types, Types', Upper, Lower, CountFile PROVE Lower'
  <1> DEFINE f == w.at.name
             i == w.at.ino
  <1>1. /\ Look /\ UNCHANGED pipe /\ w.pc = "open" /\ f \in Files /\ i \in Inodes
        /\ w \in Workers /\ w'.stack = w.stack /\ w.stack # <<>> /\ w'.pc \in {"walk", "told"}
        /\ w'.before = w.before /\ w'.partial = w.partial /\ f \in Names
        /\ w.seen \in SUBSET Inodes /\ w.alloc \in Tables
    BY CountFileStep, Tree DEF Types, WorkTypes, Workers
  <1>2. w'.msg = w.msg
    BY <1>1 DEF CountFile, Workers
  <1>3. w.seen \subseteq w'.seen /\ DOMAIN w'.alloc = DOMAIN w.alloc
    BY CountFileStep
  <1>4. Covered'
    <2> SUFFICES ASSUME ~ w'.partial, NEW x \in still' \cap Files
                 PROVE  node'[x] \in w'.seen \/ Pending(x)'
      BY <1>1 DEF Covered
    <2>1. node[x] \in w.seen \/ Pending(x)
      BY <1>1 DEF Lower, Covered, Live, Look
    <2>2. CASE f \in Path[x]
      <3>1. f = x
        BY <1>1, <2>2, PathDirs, Tree
      <3>2. node[x] = i /\ x \notin mounted
        BY <1>1, <2>2, <3>1 DEF Lower, Looked, Intact, Look
      <3>3. i \in w'.seen
        BY <3>1, <3>2, CountFileStep
      <3> QED
        BY <1>1, <3>2, <3>3 DEF Look
    <2> QED
      BY <1>1, <1>3, <2>1, <2>2 DEF Pending, Look
  <1>5. Entered' /\ Looked'
    BY <1>1, <1>3, EnteredStep DEF Lower
  <1>6. Tallied'
    <2>1. CASE w'.seen = w.seen /\ w'.alloc = w.alloc
      BY <1>1, <2>1, TalliedStep DEF Lower, Look
    <2>2. CASE /\ node[f] = i /\ i \notin w.seen /\ w'.seen = w.seen \cup {i}
               /\ w'.alloc = [d \in DOMAIN w.alloc |-> w.alloc[d] + IF d \in Path[f] THEN 1 ELSE 0]
      <3>1. f \in Held(i)
        BY <1>1, <2>2, InodesFinite DEF Upper, Current, Walking, Held
      <3>2. \A d \in Dirs : i \in Kept(d) => d \in Path[f]
        BY <1>1, <3>1, Tree DEF Kept
      <3>3. \A d \in Rows : w'.seen \cap Kept(d) # {} => d \in DOMAIN w'.alloc
        <4> SUFFICES ASSUME NEW d \in Rows, w'.seen \cap Kept(d) # {}
                     PROVE  d \in DOMAIN w.alloc
          BY <1>3
        <4>1. CASE w.seen \cap Kept(d) # {}
          BY <4>1 DEF Lower, Tallied
        <4>2. CASE i \in Kept(d)
          <5>1. d \in Path[Parent[f]]
            BY <1>1, <3>2, <4>2, PathDirs, Tree DEF Rows
          <5> QED
            BY <1>1, <5>1 DEF Lower, Entered
        <4> QED
          BY <2>2, <4>1, <4>2
      <3>4. ASSUME NEW d \in DOMAIN w'.alloc
            PROVE  Cardinality(w'.seen \cap Kept(d)) <= w'.alloc[d]
        <4> DEFINE S == w.seen \cap Kept(d)
        <4>1. d \in DOMAIN w.alloc /\ d \in Dirs /\ w.alloc[d] \in Nat
          BY <1>1, <1>3, TableType
        <4>2. Cardinality(S) <= w.alloc[d] /\ i \notin S
          BY <2>2, <4>1 DEF Lower, Tallied
        <4>3. IsFiniteSet(S) /\ Cardinality(S) \in Nat
          BY <1>1, SmallSet
        <4>4. w'.alloc[d] \in Nat /\ w.alloc[d] <= w'.alloc[d]
          BY <2>2, <4>1
        <4>5. CASE i \in Kept(d)
          <5>1. w'.alloc[d] = w.alloc[d] + 1
            BY <2>2, <3>2, <4>1, <4>5
          <5>2. w'.seen \cap Kept(d) = S \cup {i}
            BY <2>2, <4>5
          <5>3. Cardinality(w'.seen \cap Kept(d)) = Cardinality(S) + 1
            BY <4>2, <4>3, <5>2, FS_AddElement
          <5> HIDE DEF S
          <5> QED
            BY <4>1, <4>2, <4>3, <5>1, <5>3
        <4>6. CASE i \notin Kept(d)
          <5>1. w'.seen \cap Kept(d) = S
            BY <2>2, <4>6
          <5> HIDE DEF S
          <5> QED
            BY <4>1, <4>2, <4>3, <4>4, <5>1
        <4> QED
          BY <4>5, <4>6
      <3>5. \A d : Kept(d)' = Kept(d)
        BY <1>1 DEF Kept, Held, Under, Look
      <3> QED
        BY <3>3, <3>4, <3>5 DEF Tallied, Rows, HasRow
    <2> QED
      BY <2>1, <2>2, CountFileStep
  <1> QED
    BY <1>1, <1>2, <1>4, <1>5, <1>6, LowerStep DEF Look

\* When the stack is empty and nothing failed, all that was left alone was counted.
LEMMA AllCounted ==
    ASSUME Types, Lower, w.pc = "walk", w.stack = <<>>, ~ w.partial,
           NEW d \in Rows, Kept(d) # {}
    PROVE  d \in DOMAIN w.alloc /\ Cardinality(Kept(d)) <= w.alloc[d] /\ w.alloc[d] > 0
  <1>1. ASSUME NEW i \in Kept(d) PROVE i \in w.seen
    <2>1. PICK n \in Held(i) : n \in still \cap Files /\ <<n, i>> \in ever
      BY DEF Kept, Held
    <2>2. node[n] = i
      BY <2>1 DEF Lower, Intact
    <2>3. ~ Pending(n)
      BY DEF Pending
    <2> QED
      BY <2>1, <2>2, <2>3 DEF Lower, Covered, Live
  <1>2. w.seen \cap Kept(d) = Kept(d)
    BY <1>1
  <1>3. d \in DOMAIN w.alloc /\ Cardinality(Kept(d)) <= w.alloc[d]
    BY <1>2 DEF Lower, Tallied
  <1>4. w.alloc[d] \in Nat
    BY <1>3, TableType DEF Types, WorkTypes, Workers
  <1>5. IsFiniteSet(Kept(d)) /\ Cardinality(Kept(d)) \in Nat /\ Kept(d) \in SUBSET Inodes
    BY KeptType, SmallSet
  <1>6. Cardinality(Kept(d)) # 0
    BY <1>5, FS_EmptySet
  <1> QED
    BY <1>3, <1>4, <1>5, <1>6

LEMMA LowerFinish == ASSUME Types, Types', Lower, Finish PROVE Lower'
  <1>1. PICK S \in SUBSET DOMAIN w.alloc, kind \in {"complete", "partial"} :
          /\ w'.msg = Snapshot(kind, S) /\ w'.msg.kind = kind
          /\ kind = "complete" =>
               ~ w.partial /\ {d \in DOMAIN w.alloc : w.alloc[d] > 0} \subseteq S
    BY FinishStep
  <1>2. /\ Look /\ UNCHANGED pipe /\ w \in Workers /\ w.alloc \in Tables
        /\ w.pc = "end" \/ (w.pc = "walk" /\ w.stack = <<>>)
        /\ w'.pc = "part" /\ w'.stack = <<>> /\ w'.seen = {} /\ w'.alloc = <<>> /\ w'.before = {}
    BY FinishStep DEF Types, WorkTypes, Workers
  <1>3. ~ Live'
    BY <1>1, <1>2 DEF Live
  <1>4. Entered' /\ Looked'
    BY <1>2, EnteredStep DEF Lower
  <1>5. Covered'
    BY <1>2, <1>3 DEF Covered
  <1>6. Tallied'
    BY <1>2, TalliedStep DEF Lower, Look
  <1>7. Honest(w'.msg)
    <2> SUFFICES ASSUME kind = "complete", NEW d \in Rows, Kept(d) # {}
                 PROVE  d \in DOMAIN w'.msg.alloc /\ Cardinality(Kept(d)) <= w'.msg.alloc[d]
      BY <1>1 DEF Honest, Full
    <2>1. w.pc = "walk" /\ w.stack = <<>> /\ ~ w.partial
      BY <1>1, <1>2 DEF Lower, Covered
    <2>2. d \in DOMAIN w.alloc /\ Cardinality(Kept(d)) <= w.alloc[d] /\ w.alloc[d] > 0
      BY <2>1, AllCounted
    <2>3. d \in S
      BY <1>1, <2>2
    <2> QED
      BY <1>1, <1>2, <2>2, <2>3, SnapshotType
  <1> QED
    BY <1>2, <1>4, <1>5, <1>6, <1>7, LowerStep DEF Look

\* A directory is left when none of its entries is to come; where the walk is cut or a read
\* fails, the result is partial.
LEMMA LowerPlain ==
    ASSUME Types, Types', Lower, Halt \/ Leave \/ ReadFails \/ Exit
    PROVE  Lower'
  <1>1. /\ Look /\ UNCHANGED pipe /\ w \in Workers /\ w'.seen = w.seen /\ w'.alloc = w.alloc
        /\ w'.before = w.before /\ w'.msg = w.msg /\ w'.pc \in {"walk", "told", "end", "exited"}
        /\ w'.pc = "end" => w'.partial
        /\ \/ w'.stack \in {<<>>, w.stack}
           \/ w.stack # <<>> /\ w'.stack = SubSeq(w.stack, 1, Len(w.stack) - 1)
    BY PlainStep DEF Types, WorkTypes
  <1>2. Covered'
    <2> SUFFICES ASSUME Live', ~ w'.partial, NEW x \in still' \cap Files
                 PROVE  node'[x] \in w'.seen \/ Pending(x)'
      BY <1>1 DEF Covered
    <2>1. /\ w.pc = "walk" /\ ~ w.partial /\ w.stack # <<>> /\ Top.left = {}
          /\ w'.stack = SubSeq(w.stack, 1, Len(w.stack) - 1)
      BY <1>1, PlainStep DEF Live
    <2>2. node[x] \in w.seen \/ Pending(x)
      BY <1>1, <2>1 DEF Lower, Covered, Live, Look
    <2>3. ASSUME NEW k \in 1 .. Len(w.stack), w.stack[k].left \cap Path[x] # {}
          PROVE  Pending(x)'
      <3>1. k # Len(w.stack)
        BY <2>1, <2>3 DEF Top
      <3>2. w.stack \in Seq(Frames)
        BY <1>1 DEF Workers
      <3>3. k \in 1 .. Len(w'.stack) /\ w'.stack[k] = w.stack[k]
        BY <2>1, <3>1, <3>2, Shorter
      <3> QED
        BY <2>3, <3>3 DEF Pending
    <2> QED
      BY <1>1, <2>1, <2>2, <2>3 DEF Pending, Look
  <1>3. Entered' /\ Looked'
    BY <1>1, EnteredStep DEF Lower
  <1>4. Tallied'
    BY <1>1, TalliedStep DEF Lower, Look
  <1> QED
    BY <1>1, <1>2, <1>3, <1>4, LowerStep DEF Look

\* The walk ends without a result.
LEMMA LowerUnavailable == ASSUME Types, Types', Lower, Unavailable PROVE Lower'
  <1> DEFINE msg == [kind |-> "unavailable", alloc |-> <<>>]
  <1>1. w \in Workers /\ w' = Ended(msg) /\ Look /\ UNCHANGED pipe /\ msg \in Messages
    BY NoneType DEF Unavailable, Messages, Types, WorkTypes
  <1>2. /\ w'.alloc = <<>> /\ w'.msg = msg /\ w'.stack = <<>> /\ w'.pc = "part" /\ w'.seen = {}
        /\ w'.before = {}
    BY <1>1, EndedType
  <1>3. Honest(w'.msg) /\ ~ Live'
    BY <1>2 DEF Honest, Live
  <1>4. Entered' /\ Looked'
    BY <1>2, EnteredStep DEF Lower
  <1>5. Covered'
    BY <1>2, <1>3 DEF Covered
  <1>6. Tallied'
    BY <1>1, <1>2, TalliedStep DEF Lower, Look
  <1> QED
    BY <1>1, <1>2, <1>3, <1>4, <1>5, <1>6, LowerStep DEF Look

\* A report does not claim to be complete; the walk goes on as it was.
LEMMA LowerProgress == ASSUME Types, Types', Lower, Progress PROVE Lower'
  <1>1. /\ Look /\ UNCHANGED pipe /\ w.pc = "told" /\ w'.stack = w.stack /\ w'.seen = w.seen
        /\ w'.before = w.before /\ w'.partial = w.partial /\ w'.alloc = w.alloc
        /\ w'.pc \in {"walk", "part"} /\ (w'.msg = w.msg \/ w'.msg.kind = "progress")
    BY ProgressStep
  <1>2. w'.msg = w.msg \/ Honest(w'.msg)
    BY <1>1 DEF Honest
  <1>3. Covered'
    BY <1>1 DEF Lower, Covered, Live, Pending, Look
  <1>4. Entered' /\ Looked'
    BY <1>1, EnteredStep DEF Lower
  <1>5. Tallied'
    BY <1>1, TalliedStep DEF Lower, Look
  <1> QED
    BY <1>1, <1>2, <1>3, <1>4, <1>5, LowerStep DEF Look

\* Writing, reading and ending the worker leave what was counted alone.
LEMMA LowerAside ==
    ASSUME Types, Types', Lower, UNCHANGED <<node, mounted, still, ever>>,
           w'.stack = w.stack, w'.at = w.at, w'.seen = w.seen, w'.alloc = w.alloc,
           w'.before = w.before, w'.partial = w.partial, w'.msg = w.msg,
           \/ w'.pc \in {w.pc, "killed"}
           \/ w.pc # "open" /\ w'.pc \notin {"open", "end"},
           Live' => Live
    PROVE  Covered' /\ Looked' /\ Entered' /\ Tallied'
  <1>1. Covered'
    BY DEF Lower, Covered, Pending, Live
  <1>2. Looked' /\ Entered'
    BY DEF Lower, Looked, Entered, Rows, HasRow
  <1>3. Tallied'
    BY TalliedStep DEF Lower
  <1> QED
    BY <1>1, <1>2, <1>3

LEMMA LowerWrite == ASSUME Types, Types', Lower, WritePart \/ WriteEnd PROVE Lower'
  <1>1. PICK pc \in {"rest", "walk", "exit"} :
          /\ w' = [w EXCEPT !.pc = pc] /\ w'.pc = pc
          /\ pc = "walk" => w.msg.kind = "progress"
    BY WriteStep
  <1>2. PICK m \in {None, w.msg} : pipe' = Append(pipe, m)
    BY WriteStep
  <1>3. Look /\ w.pc \in {"part", "rest"} /\ w \in Workers
    BY WriteStep DEF Types, WorkTypes
  <1>4. /\ w'.alloc = w.alloc /\ w'.seen = w.seen /\ w'.msg = w.msg /\ w'.stack = w.stack
        /\ w'.at = w.at /\ w'.before = w.before /\ w'.partial = w.partial
    BY <1>1, <1>3 DEF Workers
  <1>5. Live' => Live
    BY <1>1, <1>3, <1>4 DEF Live
  <1>6. Covered' /\ Looked' /\ Entered' /\ Tallied'
    BY <1>1, <1>3, <1>4, <1>5, LowerAside DEF Look
  <1> QED
    BY <1>2, <1>3, <1>4, <1>6, LowerStep DEF Look

LEMMA LowerCollect == ASSUME Types, Types', Lower, Collect PROVE Lower'
  <1>1. /\ Keep /\ pipe' \in {pipe, Tail(pipe)} /\ w' \in {w, [w EXCEPT !.pc = "killed"]}
        /\ pipe' = pipe \/ pipe # <<>>
        /\ parent'.latest = parent.latest \/ (pipe # <<>> /\ parent'.latest = Head(pipe))
    BY ParentStep
  <1>2. /\ w'.pc \in {w.pc, "killed"} /\ w'.stack = w.stack /\ w'.at = w.at /\ w'.seen = w.seen
        /\ w'.alloc = w.alloc /\ w'.before = w.before /\ w'.partial = w.partial /\ w'.msg = w.msg
    BY <1>1, WorkerAside
  <1>3. Live' => Live
    BY <1>2 DEF Live
  <1>4. Covered' /\ Looked' /\ Entered' /\ Tallied'
    BY <1>1, <1>2, <1>3, LowerAside DEF Keep
  <1> QED
    BY <1>1, <1>2, <1>4, LowerStep DEF Keep

LEMMA LowerKept == Lower /\ Upper /\ Types /\ Types' /\ [Next]_vars => Lower'
  <1> SUFFICES ASSUME Lower, Upper, Types, Types', [Next]_vars PROVE Lower'
    OBVIOUS
  <1>1. CASE Guest \/ Start \/ Unavailable
    BY <1>1, LowerGuest, LowerStart, LowerUnavailable
  <1>2. CASE Halt \/ Leave \/ ReadFails \/ Exit
    BY <1>2, LowerPlain
  <1>3. CASE Entry \/ EnterDir \/ CountFile
    BY <1>3, LowerEntry, LowerEnterDir, LowerCount
  <1>4. CASE Progress \/ Finish \/ WritePart \/ WriteEnd
    BY <1>4, LowerProgress, LowerFinish, LowerWrite
  <1>5. CASE Collect
    BY <1>5, LowerCollect
  <1>6. CASE Hang \/ Tick \/ UNCHANGED vars
    <2>1. UNCHANGED <<node, mounted, w, pipe, parent, still, ever>>
      BY <1>6 DEF Hang, Tick, vars
    <2>2. Covered' /\ Looked' /\ Entered' /\ Tallied'
      BY <2>1, LowerAside DEF Live
    <2> QED
      BY <2>1, <2>2, LowerStep
  <1> QED
    BY <1>1, <1>2, <1>3, <1>4, <1>5, <1>6 DEF Next, Worker, Done

\* A complete result has a row for every directory down to the depth, with all files that
\* were below it throughout the walk (collect_disk_usage).
THEOREM AlwaysCompleteMissesNothing == Spec => []CompleteMissesNothing
  <1>1. Init => Lower
    <2> SUFFICES ASSUME Init PROVE Lower
      OBVIOUS
    <2>1. /\ w.pc = "new" /\ w.msg = None /\ parent.latest = None /\ pipe = <<>> /\ w.alloc = <<>>
          /\ w.stack = <<>> /\ w.seen = {} /\ still = {} /\ ever = {}
      BY DEF Init
    <2>2. DOMAIN w.alloc = {} /\ 1 .. Len(pipe) = {} /\ 1 .. Len(w.stack) = {}
      BY <2>1, NoneType DEF None
    <2>3. Honest(None)
      BY DEF Honest, None
    <2>4. Intact /\ Covered /\ Looked
      BY <2>1 DEF Intact, Covered, Looked, Live
    <2>5. Entered /\ Tallied
      BY <2>1, <2>2 DEF Entered, Tallied
    <2> QED
      BY <2>1, <2>2, <2>3, <2>4, <2>5 DEF Lower
  <1>2. Lower /\ Types => CompleteMissesNothing
    <2> SUFFICES ASSUME Lower, Types, parent.latest.kind = "complete",
                        NEW d \in Rows, Kept(d) # {}
                 PROVE  /\ d \in DOMAIN parent.latest.alloc
                        /\ parent.latest.alloc[d] >= Cardinality(Kept(d))
      BY DEF CompleteMissesNothing
    <2> DEFINE t == parent.latest.alloc
    <2>1. t \in Tables /\ d \in DOMAIN t /\ Cardinality(Kept(d)) <= t[d]
      BY Said DEF Lower, Honest, Full
    <2>2. t[d] \in Nat /\ Cardinality(Kept(d)) \in Nat
      BY <2>1, TableType, KeptType, SmallSet
    <2> QED
      BY <2>1, <2>2
  <1> QED
    BY <1>1, <1>2, InitTypes, TypesKept, InitUpper, UpperKept, LowerKept, PTL DEF Spec

=============================================================================
