----------------------------- MODULE DiskUsage -----------------------------
(***************************************************************************)
(* The disk_usage operation of the node helper (housekeeping_io.py): a     *)
(* forked worker walks the guest's root file system and reports through a  *)
(* pipe; the parent keeps the latest snapshot and ends the worker when its *)
(* time is up.  The guest changes under the walk, every descriptor that is *)
(* opened and checked is a step, reads may fail or hang.                   *)
(*                                                                         *)
(* A name of the tree is a directory or a file for good; files come and go *)
(* and may be linked twice, directories may be removed.  Every file occupies one unit, so *)
(* a size is a number of inodes.  Mounts cover single names: what is open  *)
(* below one stays readable, as through the worker's descriptors.          *)
(***************************************************************************)
EXTENDS Integers, Sequences, FiniteSets

CONSTANTS Dirs, Files,  \* names below the root
          Parent,       \* Parent[n]: the directory of n
          Root,
          Extras,       \* directories that are reported at any depth
          MaxDepth,     \* DISK_USAGE_MAX_DEPTH
          MaxEntries,   \* max_entries of the request
          MaxRows,      \* DISK_USAGE_MAX_ROWS
          PipeCap,      \* what the pipe holds
          MaxChanges, MaxErrors, MaxProgress  \* bounds: of the guest, failing reads, reports

Names == Dirs \cup Files
Inodes == 1 .. Cardinality(Files) + MaxChanges

\* A directory or file and the directories above it.
Path[n \in Names \cup {Root}] == IF n = Root THEN {} ELSE {n} \cup Path[Parent[n]]

ASSUME DiskAssumption ==
    /\ IsFiniteSet(Names) /\ Root \notin Names /\ Dirs \cap Files = {} /\ Extras \subseteq Dirs
    \* a tree: the way up from every name ends at the root
    /\ Parent \in [Names -> Dirs \cup {Root}]
    /\ \E depth \in [Names \cup {Root} -> 0 .. Cardinality(Names)] :
          \A n \in Names : depth[Parent[n]] < depth[n]
    \* extras and their ancestors always fit
    /\ Cardinality(UNION {Path[x] : x \in Extras}) <= MaxRows
    /\ {MaxDepth, MaxEntries, MaxRows, PipeCap, MaxChanges, MaxErrors, MaxProgress} \subseteq Nat

VARIABLES
    node,     \* node[n]: 0 when there is no n, for a file its inode
    mounted,  \* the mount table: names with a file system mounted over them
    w,        \* the worker
    pipe,     \* written and not yet read: parts and ends of messages
    stuck,    \* the worker hangs in a system call
    clock,    \* 1: the worker's deadline has passed, 2: the parent's
    parent,   \* the parent
    still,    \* ghost: names untouched since the walk began, and never covered
    ever,     \* ghost: files and inodes that were there at some time of the walk
    changes

vars == <<node, mounted, w, pipe, stuck, clock, parent, still, ever, changes>>

Under(d)  == IF d = Root THEN Names ELSE {n \in Names : d \in Path[n] /\ n # d}
HasRow(d) == Cardinality(Path[d]) <= MaxDepth \/ d \in Extras
Rows      == {d \in Dirs : HasRow(d)}
Links(i)  == {n \in Files : node[n] = i}

None == [kind |-> "none", alloc |-> <<>>]

-----------------------------------------------------------------------------
(* The guest.                                                               *)

\* Later changes concern nobody.
Walking == w.pc \in {"walk", "open", "told", "end"} \/ w.stack # <<>>

Changed(S) ==
    /\ changes < MaxChanges /\ changes' = changes + 1
    /\ still' = still \ UNION {{m \in Names : n \in Path[m]} : n \in S}
    /\ ever' = ever \cup {<<n, node'[n]>> : n \in {m \in Files : node'[m] # 0}}
    /\ Walking /\ UNCHANGED <<w, pipe, stuck, clock, parent>>

There == {Root} \cup {n \in Names : node[n] # 0}

Remove == \E n \in Names :
    /\ node[n] # 0
    /\ node' = [m \in Names |-> IF n \in Path[m] THEN 0 ELSE node[m]]
    /\ Changed({n}) /\ UNCHANGED mounted

\* A new file, or one more link of a file.
Create == \E n \in Files, i \in Inodes :
    /\ node[n] = 0 /\ Parent[n] \in There
    /\ node' = [node EXCEPT ![n] = i]
    /\ Changed({n} \cup Links(i)) /\ UNCHANGED mounted

Mount == \E n \in Names :
    /\ node[n] # 0 /\ n \notin mounted
    /\ mounted' = mounted \cup {n} /\ UNCHANGED node /\ Changed({n})

Unmount == \E n \in mounted :
    mounted' = mounted \ {n} /\ UNCHANGED node /\ Changed({n})

Guest == Remove \/ Create \/ Mount \/ Unmount

-----------------------------------------------------------------------------
(* The worker.  A frame is an open directory with the entries still to come. *)

NoFile == [name |-> "none", ino |-> 0]

Init ==
    /\ node \in [Names -> 0 .. Cardinality(Files)]
    /\ \A d \in Dirs : node[d] = 1
    /\ mounted \in {{}} \cup {{n} : n \in Names}
    /\ w = [pc |-> "new", stack |-> <<>>, at |-> NoFile, seen |-> {}, visited |-> 0,
            errors |-> 0, partial |-> FALSE, before |-> {}, msg |-> None, sent |-> 0,
            alloc |-> <<>>]
    /\ pipe = <<>> /\ stuck = FALSE /\ clock = 0
    /\ parent = [pc |-> "select", latest |-> None, reaped |-> FALSE]
    /\ still = {} /\ ever = {} /\ changes = 0

Look == UNCHANGED <<node, mounted, clock, parent, still, ever, changes, stuck>>
Works(pc) == w.pc = pc /\ ~stuck

Listing(d) == {n \in Names : Parent[n] = d /\ node[n] # 0}

\* The mount table, then the root directory; the ghosts start here.
Start ==
    /\ Works("new")
    /\ w' = [w EXCEPT !.pc = "walk", !.before = mounted,
                      !.stack = <<[dir |-> Root, left |-> Listing(Root)]>>]
    /\ still' = {n \in Names : node[n] # 0 /\ Path[n] \cap mounted = {}}
    /\ ever' = {<<n, node[n]>> : n \in {m \in Files : node[m] # 0}}
    /\ UNCHANGED <<node, mounted, pipe, stuck, clock, parent, changes>>

\* The walk is over and its last message is next.
Ended(msg) == [w EXCEPT !.pc = "part", !.msg = msg, !.stack = <<>>, !.at = NoFile,
                        !.seen = {}, !.alloc = <<>>, !.before = {}, !.visited = 0]

\* The mount table or a mount identity cannot be read, or the root not be opened safely:
\* the walk ends there.
Unavailable ==
    /\ w.pc \in {"new", "open", "end"} /\ ~stuck /\ w.errors < MaxErrors
    /\ w' = Ended([kind |-> "unavailable", alloc |-> <<>>])
    /\ Look /\ UNCHANGED pipe

Top  == w.stack[Len(w.stack)]
Over == clock >= 1 \/ w.visited >= MaxEntries

\* Variant: a limit that is reached just ends the walk.
Halt_Variant ==
    /\ Works("walk") /\ w.stack # <<>> /\ Over
    /\ w' = [w EXCEPT !.pc = "end", !.stack = <<>>]
    /\ Look /\ UNCHANGED pipe

Halt ==
    /\ Works("walk") /\ w.stack # <<>> /\ Over
    /\ w' = [w EXCEPT !.pc = "end", !.stack = <<>>, !.partial = TRUE]
    /\ Look /\ UNCHANGED pipe

Leave ==
    /\ Works("walk") /\ w.stack # <<>> /\ ~Over /\ Top.left = {}
    /\ w' = [w EXCEPT !.stack = SubSeq(@, 1, Len(@) - 1)]
    /\ Look /\ UNCHANGED pipe

\* The next entry: skipped when the first mount table covers it, else looked at.
Entry ==
    /\ Works("walk") /\ w.stack # <<>> /\ ~Over
    /\ \E n \in Top.left :
         LET v == [w EXCEPT !.stack[Len(w.stack)].left = @ \ {n}, !.visited = @ + 1]
         IN  w' = IF n \in w.before \/ node[n] = 0 THEN v
                  ELSE [v EXCEPT !.pc = "open", !.at = [name |-> n, ino |-> node[n]]]
    /\ Look /\ UNCHANGED pipe

\* A row is there once its directory was entered.
Allocated(alloc, d) == IF d \in DOMAIN alloc THEN alloc[d] ELSE 0

\* A directory is opened as a path, its mount checked, and only then read.
EnterDir ==
    /\ Works("open") /\ w.at.name \in Dirs
    /\ LET d == w.at.name
           v == [w EXCEPT !.pc = "told"]
       IN  w' = IF node[d] = 0 \/ d \in mounted THEN v
                ELSE [v EXCEPT !.stack = Append(@, [dir |-> d, left |-> Listing(d)]),
                               !.alloc = [r \in DOMAIN @ \cup ({d} \cap Rows) |-> Allocated(@, r)]]
    /\ Look /\ UNCHANGED pipe

\* Variant: hard links are not remembered.
CountFile_Variant ==
    /\ Works("open") /\ w.at.name \in Files
    /\ LET i == w.at.ino
       IN  w' = IF node[w.at.name] # i \/ w.at.name \in mounted
                THEN [w EXCEPT !.pc = "walk"]
                ELSE [w EXCEPT !.pc = "told", !.seen = @ \cup {i},
                        !.alloc = [d \in DOMAIN @ |-> @[d] + IF d \in Path[w.at.name] THEN 1 ELSE 0]]
    /\ Look /\ UNCHANGED pipe

\* A file is opened, found to be the one looked at and on the root mount, and counted
\* for every row above it unless another link of it was.
CountFile ==
    /\ Works("open") /\ w.at.name \in Files
    /\ LET i == w.at.ino
       IN  w' = IF node[w.at.name] # i \/ w.at.name \in mounted \/ i \in w.seen
                THEN [w EXCEPT !.pc = "walk"]
                ELSE [w EXCEPT !.pc = "told", !.seen = @ \cup {i},
                        !.alloc = [d \in DOMAIN @ |-> @[d] + IF d \in Path[w.at.name] THEN 1 ELSE 0]]
    /\ Look /\ UNCHANGED pipe

\* A stat, an open or an enumeration fails: the walk goes on, its result is partial.
ReadFails ==
    /\ w.errors < MaxErrors /\ ~stuck
    /\ LET v == [w EXCEPT !.errors = @ + 1, !.partial = TRUE]
       IN  \/ /\ w.pc = "open"
              /\ w' = [v EXCEPT !.pc = IF w.at.name \in Dirs THEN "told" ELSE "walk"]
           \/ /\ w.pc = "walk" /\ w.stack # <<>> /\ ~Over
              /\ w' = [v EXCEPT !.stack = SubSeq(@, 1, Len(@) - 1)]
    /\ Look /\ UNCHANGED pipe

\* Rows that fit: extras and their ancestors come first, then any others that hold
\* something, each with its ancestors.
Fitting(alloc) ==
    LET rows == DOMAIN alloc
        kept == {d \in rows : \E x \in Extras \cap rows : d \in Path[x]}
        used == kept \cup {d \in rows : alloc[d] > 0}
    IN  IF Cardinality(used) <= MaxRows THEN {used}
        ELSE {S \in SUBSET used : /\ kept \subseteq S /\ Cardinality(S) <= MaxRows
                                  /\ \A d \in S : Path[d] \cap rows \subseteq S}

Snapshot(kind, S) == [kind |-> kind, alloc |-> [d \in S |-> w.alloc[d]]]

\* About once a second the counts so far are reported.
Progress ==
    /\ Works("told")
    /\ w' \in {[w EXCEPT !.pc = "walk"]} \cup
              {[w EXCEPT !.pc = "part", !.sent = @ + 1, !.msg = Snapshot("progress", S)] :
                  S \in IF w.sent < MaxProgress THEN Fitting(w.alloc) ELSE {}}
    /\ Look /\ UNCHANGED pipe

\* The mount table is read again; errors, limits, dropped rows and a changed table make
\* the result partial.
Finish ==
    /\ Works("end") \/ (Works("walk") /\ w.stack = <<>>)
    /\ \E S \in Fitting(w.alloc) :
         LET whole == /\ ~w.partial /\ w.errors = 0 /\ mounted = w.before
                      /\ {d \in DOMAIN w.alloc : w.alloc[d] > 0} \subseteq S
         IN  w' = Ended(Snapshot(IF whole THEN "complete" ELSE "partial", S))
    /\ Look /\ UNCHANGED pipe

\* A message needs several writes; the pipe may be full, or cut by a signal.
WritePart ==
    /\ Works("part") /\ Len(pipe) < PipeCap
    /\ pipe' = Append(pipe, None) /\ w' = [w EXCEPT !.pc = "rest"] /\ Look

WriteEnd ==
    /\ Works("rest") /\ Len(pipe) < PipeCap
    /\ pipe' = Append(pipe, w.msg)
    /\ w' = [w EXCEPT !.pc = IF w.msg.kind = "progress" THEN "walk" ELSE "exit"] /\ Look

Exit == Works("exit") /\ w' = [w EXCEPT !.pc = "exited"] /\ Look /\ UNCHANGED pipe

\* A system call that does not return, and one that does in the end.
Hang ==
    /\ w.pc \in {"new", "walk", "open"} /\ stuck' = ~stuck
    /\ UNCHANGED <<node, mounted, w, pipe, clock, parent, still, ever, changes>>

Worker == \/ Start \/ Unavailable \/ Halt \/ Leave \/ Entry \/ EnterDir \/ CountFile
          \/ ReadFails \/ Progress \/ Finish \/ WritePart \/ WriteEnd \/ Exit

-----------------------------------------------------------------------------
(* The parent.                                                              *)

Gone == w.pc \in {"exited", "killed"}
Keep == UNCHANGED <<node, mounted, stuck, clock, still, ever, changes>>

Tick == clock < 2 /\ clock' = clock + 1
        /\ UNCHANGED <<node, mounted, w, pipe, stuck, parent, still, ever, changes>>

\* Whole lines only: a part waits for its end.
Consumed(p) == [p EXCEPT !.latest = IF Head(pipe) = None THEN @ ELSE Head(pipe)]

\* Variant: wait for the worker without a limit.
Select_Variant ==
    /\ parent.pc = "select" /\ (pipe # <<>> \/ Gone)
    /\ parent' = [parent EXCEPT !.pc = "read"]
    /\ UNCHANGED <<w, pipe>> /\ Keep

\* select waits at most 50 ms, and not beyond the parent's deadline.
Select ==
    /\ parent.pc = "select"
    /\ parent' = [parent EXCEPT !.pc = IF clock = 2 THEN "drain"
                                       ELSE IF pipe # <<>> \/ Gone THEN "read" ELSE "reap"]
    /\ UNCHANGED <<w, pipe>> /\ Keep

Read ==
    /\ parent.pc = "read"
    /\ \/ /\ pipe # <<>> /\ parent' = [Consumed(parent) EXCEPT !.pc = "select"]
          /\ pipe' = Tail(pipe)
       \/ /\ pipe = <<>> /\ Gone /\ parent' = [parent EXCEPT !.pc = "close"] /\ UNCHANGED pipe
    /\ UNCHANGED w /\ Keep

\* Nothing to read: has the worker ended?
Reap ==
    /\ parent.pc = "reap"
    /\ parent' = IF Gone THEN [parent EXCEPT !.pc = "close", !.reaped = TRUE]
                 ELSE [parent EXCEPT !.pc = "select"]
    /\ UNCHANGED <<w, pipe>> /\ Keep

\* After the deadline what lies in the pipe is still read.
Drain ==
    /\ parent.pc = "drain"
    /\ \/ /\ pipe # <<>> /\ parent' = Consumed(parent) /\ pipe' = Tail(pipe)
       \/ /\ parent' = [parent EXCEPT !.pc = "close"] /\ UNCHANGED pipe
    /\ UNCHANGED w /\ Keep

\* SIGTERM, SIGKILL and a bounded wait: a worker that hangs is left behind.
Terminate ==
    /\ parent.pc = "close" /\ parent' = [parent EXCEPT !.pc = "done"]
    /\ w' = IF parent.reaped \/ Gone \/ stuck THEN w ELSE [w EXCEPT !.pc = "killed"]
    /\ UNCHANGED pipe /\ Keep

Collect == Select \/ Read \/ Reap \/ Drain \/ Terminate

Done == parent.pc = "done" /\ UNCHANGED vars

Next == (parent.pc # "done" /\ (Guest \/ Worker \/ Hang \/ Tick \/ Collect)) \/ Done

Spec     == Init /\ [][Next]_vars
FairSpec == Spec /\ WF_vars(Collect) /\ WF_vars(Tick)

-----------------------------------------------------------------------------
(* Properties.                                                              *)

TypeOK ==
    /\ node \in [Names -> Inodes \cup {0}] /\ mounted \subseteq Names
    /\ w.seen \subseteq Inodes /\ \A d \in DOMAIN w.alloc : w.alloc[d] \in Nat /\ w.before \subseteq Names
    /\ Len(pipe) <= PipeCap /\ stuck \in BOOLEAN /\ clock \in 0 .. 2
    /\ parent.pc \in {"select", "read", "reap", "drain", "close", "done"}
    /\ still \subseteq Names

\* The names an inode had at some time of the walk; the inodes all of whose names were
\* below d and left alone throughout it; those that had a name below d at some time.
Held(i) == {n \in Files : <<n, i>> \in ever}
Kept(d) == {i \in Inodes : Held(i) # {} /\ Held(i) \subseteq still \cap Under(d)}
Seen(d) == {e[2] : e \in {f \in ever : f[1] \in Under(d)}}

\* No report, also one of an unfinished walk, gives a directory more than the files
\* that were below it at some time of the walk, each counted once: links, files that
\* were replaced and file systems mounted during the walk do not inflate it.
NeverOvercounts ==
    LET told == parent.latest IN
    told.kind \notin {"none", "unavailable"} =>
        \A d \in DOMAIN told.alloc : told.alloc[d] <= Cardinality(Seen(d))

\* A complete result has a row for every directory down to the depth, with all files
\* that were below it throughout the walk; whatever could not be read, was cut off or
\* did not fit has made it partial.
CompleteMissesNothing ==
    parent.latest.kind = "complete" =>
        \A d \in Rows : Kept(d) # {} /\ parent.pc = "done" =>
            d \in DOMAIN parent.latest.alloc /\ parent.latest.alloc[d] >= Cardinality(Kept(d))

\* The call ends, also when the worker hangs for good (disk_usage: "blocked filesystem
\* I/O can never hang the RPC parent").
ParentEnds == <>(parent.pc = "done")

\* "The parent keeps the latest valid snapshot" (disk_usage).  It does not when the
\* worker reports and exits between a select that found nothing and the waitpid.
FinalKept ==
    parent.pc = "done" /\ w.pc = "exited" /\ clock < 2
      => parent.latest.kind \notin {"none", "progress"}
=============================================================================
