----------------------------- MODULE LogStream -----------------------------
(***************************************************************************)
(* How the bytes of a guest's logs reach the importer: the snapshot of     *)
(* ranges by the node helper (housekeeping_io.py), the windowed reader,    *)
(* the pool that batches frozen ranges into one transfer, decoding, and    *)
(* the cut into log fragments (housekeeping_stream.py), driven as          *)
(* _import_source drives them.                                             *)
(*                                                                         *)
(* Sources are the captured blobs 1 .. NBlobs, in plan order, and the live *)
(* log after them.  A byte is one of the classes the code tells apart:     *)
(* newline "n", a plain byte "a", one whose JSON form is longer "x", the   *)
(* lead "L" and continuation "C" of a two-byte character, the end mark "e" *)
(* of a compressed frame, and "z", a byte that rotted.                     *)
(*                                                                         *)
(* One snapshot call is one step: the helper opens and checks every source *)
(* and fails when a file changes under it.  What can happen to files falls *)
(* between two calls, the only moments the code looks.  ArchiveImport has  *)
(* the saved batches and the verification of prefixes rewritten in place;  *)
(* here a flush is atomic and a log is only appended to, cut or rotated.   *)
(***************************************************************************)
EXTENDS Integers, Sequences, FiniteSets, SequencesExt

CONSTANTS NBlobs,     \* captured blobs
          Gz,         \* those that hold a compressed log
          Growing,    \* those captured while the log was being written
          Texts,      \* Texts[s]: what source s may hold at first
          Tails,      \* what a writer may append to the live log
          Window,     \* MAX_FETCH_BYTES
          MaxRanges,  \* MAX_POOL_RANGES
          MaxRaw,     \* MAX_RAW_FRAGMENT
          MaxEntry,   \* MAX_ENTRY_BYTES
          MaxRuns, MaxFaults, MaxChanges  \* bounds: runs, failing calls, changes of files

Blobs   == 1 .. NBlobs
Live    == NBlobs + 1
Sources == 1 .. Live
Bytes   == {"n", "a", "x", "L", "C", "e", "z"}

ASSUME StreamAssumption ==
    /\ NBlobs \in Nat /\ Gz \subseteq Blobs /\ Growing \subseteq Blobs
    /\ Window \in Nat \ {0} /\ MaxRanges \in Nat \ {0} /\ MaxRaw \in Nat \ {0}
    /\ MaxEntry \in Nat /\ MaxEntry >= 3   \* no byte of its own is too large for an entry
    /\ MaxRuns \in Nat /\ MaxFaults \in Nat /\ MaxChanges \in Nat
    /\ \A s \in Sources : Texts[s] \subseteq Seq(Bytes)
    /\ Tails \subseteq Seq(Bytes)

VARIABLES
    file,    \* file[s]: the blob, or the inode of the live log
    row,     \* row[s]: durable position in the decoded stream, and completion
    sent,    \* sent[s]: fragments Loki has accepted
    pc, wire, todo, cur,   \* the run: recorded sources, those left, the one being read
    rd,      \* RemoteLogReader
    pool,    \* RemoteSnapshotPool
    buf,     \* _LineBuffer: decoded bytes that wait, and the end of the stream
    pos,     \* where the next fragment starts
    taken,   \* fragments not yet sent
    failed,  \* sources this run gave up on
    hit, lost,  \* ghosts: reads that met a fault; lost[s]: the batch that failed for s
    asked,   \* ghost: hints this run's batches have asked the node for
    runs, faults, changes

vars == <<file, row, sent, pc, wire, todo, cur, rd, pool, buf, pos, taken, failed,
          hit, lost, asked, runs, faults, changes>>

run     == <<pc, wire, todo, cur, rd, pool, buf, pos, taken, failed, hit, lost, asked>>
durable == <<row, sent>>

Ended       == {"idle", "over", "stopped", "dead"}
Bit(b)      == IF b THEN 1 ELSE 0
Take(q, k)  == SubSeq(q, 1, IF k <= Len(q) THEN k ELSE Len(q))
Drop(q, k)  == SubSeq(q, k + 1, Len(q))
Lesser(a, b) == IF a <= b THEN a ELSE b

\* The elements of q that are in S, in their order.
Keeping(q, S) ==
    LET keep[n \in 0 .. Len(q)] ==
          IF n = 0 THEN <<>>
          ELSE IF q[n] \in S THEN Append(keep[n - 1], q[n]) ELSE keep[n - 1]
    IN  keep[Len(q)]

-----------------------------------------------------------------------------
(* Files.  text is what was written, size how much of it is there.          *)

Content(s) == LET t == Take(file[s].text, file[s].size)
              IN  IF file[s].st = "rotten" THEN <<"z">> \o Tail(t) ELSE t

Change(s, f) ==
    /\ changes < MaxChanges /\ changes' = changes + 1 /\ pc \in Ended \cup {"next", "read"}
    /\ file' = [file EXCEPT ![s] = f]
    /\ UNCHANGED <<durable, run, runs, faults>>

\* A writer appends; it may still do so on a log that was rotated under it.
Grow(t) ==
    /\ file[Live].size = Len(file[Live].text)
    /\ Change(Live, [file[Live] EXCEPT !.text = @ \o t, !.size = @ + Len(t),
                                       !.late = @ \/ file[Live].path = "rotated"])

Rotate == file[Live].path = "current" /\ Change(Live, [file[Live] EXCEPT !.path = "rotated"])

Truncate == file[Live].size > 0 /\ Change(Live, [file[Live] EXCEPT !.size = 0])

\* A blob is touched or removed, or its bytes rot under an unchanged stat.
Spoil(s) ==
    /\ file[s].st = "sound"
    /\ \E st \in {"touched", "rotten"} :
         /\ st = "rotten" => file[s].size > 0
         /\ Change(s, [file[s] EXCEPT !.st = st])

World == \/ \E t \in Tails : Grow(t)
         \/ Rotate \/ Truncate
         \/ \E s \in Blobs : Spoil(s)

-----------------------------------------------------------------------------
(* The node helper's snapshot of ranges, and its validation on arrival.     *)

Request(s, off, n) == [src |-> s, off |-> off, len |-> n]

\* Identity and sizes for a live log, receipt and stat for a blob.
Readable(q) ==
    /\ q.src \in Blobs => file[q.src].st # "touched"
    /\ q.src = Live =>
         /\ file[Live].path = wire[Live].path
         /\ file[Live].size >= wire[Live].size /\ q.off + q.len <= wire[Live].size

Excerpt(q) == [src |-> q.src, off |-> q.off,
             bytes |-> SubSeq(Content(q.src), q.off + 1, q.off + q.len)]

Exact(qs) == [i \in 1 .. Len(qs) |-> Excerpt(qs[i])]

\* What a transport or a helper that went wrong may deliver: nothing, less than was
\* asked, or the ranges in another order.
Garbled(qs) == {<<>>, Front(Exact(qs)), Reverse(Exact(qs)),
                [Exact(qs) EXCEPT ![1].bytes = Take(@, Len(@) - 1)]}

\* Exactly the requested members in order, each of the size and identity asked for.
Accepts(qs, reply) ==
    /\ Len(reply) = Len(qs)
    /\ \A i \in 1 .. Len(qs) :
         /\ reply[i].src = qs[i].src /\ reply[i].off = qs[i].off
         /\ Len(reply[i].bytes) = qs[i].len

Answerable(qs) == \A i \in 1 .. Len(qs) : Readable(qs[i])

\* What a call can end with: the accepted ranges, or <<>> for an error.
Replies(qs) == {<<>>} \cup IF Answerable(qs)
                           THEN {Exact(qs)} \cup {g \in Garbled(qs) : Accepts(qs, g)} ELSE {}

\* A helper that works reads everything or refuses it all; anything else is a fault.
Call(qs, reply) ==
    \/ /\ Answerable(qs) /\ reply = Exact(qs) /\ UNCHANGED <<faults, hit>>
    \/ /\ ~Answerable(qs) /\ reply = <<>> /\ UNCHANGED faults
       /\ hit' = hit \cup {s \in {cur} : \E i \in 1 .. Len(qs) : qs[i].src = s /\ ~Readable(qs[i])}
    \/ /\ faults < MaxFaults /\ faults' = faults + 1 /\ hit' = hit \cup {cur}

-----------------------------------------------------------------------------
(* A run of the import.                                                     *)

NoReader == [got |-> 0, left |-> <<>>, bytes |-> <<>>, pooled |-> FALSE, eof |-> FALSE]
NoPool   == [hints |-> <<>>, next |-> 1, tar |-> <<>>, held |-> 0]
NoBuf    == [bytes |-> <<>>, eof |-> FALSE, skip |-> 0]
Start    == [off |-> 0, line |-> 1, idx |-> 0]

Init ==
    /\ \E t \in {u \in [Sources -> UNION {Texts[s] : s \in Sources}] :
                 \A s \in Sources : u[s] \in Texts[s]} :
         file = [s \in Sources |-> [text |-> t[s], size |-> Len(t[s]), path |-> "current",
                                    late |-> FALSE, st |-> "sound"]]
    /\ row = [s \in Sources |-> [at |-> Start, done |-> FALSE, size |-> 0]]
    /\ sent = [s \in Sources |-> <<>>]
    /\ pc = "idle" /\ wire = [s \in Sources |-> [size |-> 0, path |-> "current"]]
    /\ todo = {} /\ cur = 0 /\ rd = NoReader /\ pool = NoPool /\ buf = NoBuf
    /\ pos = Start /\ taken = <<>> /\ failed = {} /\ hit = {} /\ asked = <<>>
    /\ lost = [s \in Sources |-> {}] /\ runs = 0 /\ faults = 0 /\ changes = 0

\* What is left to read: a blob until it is complete, the live log whenever it is
\* longer than what was completed.
Left(s) == ~row[s].done \/ (s = Live /\ file[s].size > row[s].size)

\* The first range of every blob of the plan is a hint, in plan order.
Hints(S) == Keeping([s \in Blobs |-> s], {s \in S : file[s].size > 0})

\* Probe and plan; the pool is opened over the plan.
Begin ==
    /\ pc \in Ended /\ runs < MaxRuns /\ runs' = runs + 1
    /\ wire' = [s \in Sources |-> [size |-> file[s].size, path |-> file[s].path]]
    /\ todo' = {s \in Sources : Left(s) /\ (s = Live => file[s].size >= row[s].size)}
    /\ pool' = [NoPool EXCEPT !.hints = Hints({s \in Blobs : Left(s)})]
    /\ pc' = "next" /\ failed' = {} /\ hit' = {} /\ lost' = [s \in Sources |-> {}] /\ asked' = <<>>
    /\ UNCHANGED <<file, durable, cur, rd, buf, pos, taken, faults, changes>>

\* _import_source opens the readers; decoding starts at the stream's origin and what
\* was archived before is read and discarded.
Open ==
    /\ pc = "next" /\ todo # {}
    /\ LET s == CHOOSE t \in todo : \A u \in todo : t <= u
       IN  /\ cur' = s /\ todo' = todo \ {s}
           /\ pos' = row[s].at /\ buf' = [NoBuf EXCEPT !.skip = row[s].at.off]
    /\ rd' = NoReader /\ taken' = <<>> /\ pc' = "read"
    /\ UNCHANGED <<file, durable, wire, pool, failed, hit, lost, asked, runs, faults, changes>>

\* An error ends the source, not the run: what was not sent is dropped, the reader is
\* closed and a pooled range with it.
GiveUp(p, h) ==
    /\ failed' = failed \cup {cur} /\ pc' = "next" /\ taken' = <<>> /\ rd' = NoReader
    /\ pool' = [p EXCEPT !.held = 0] /\ hit' = h
    /\ UNCHANGED <<file, durable, wire, todo, cur, buf, pos, runs, changes>>

-----------------------------------------------------------------------------
(* RemoteLogReader: one window of at most Window bytes at a time.           *)

Active(s) == IF s = Live THEN wire[s].path = "current" ELSE s \in Growing

Hungry == ~buf.eof /\ (buf.skip > 0 \/ Len(buf.bytes) <= MaxRaw)
Dry    == pc = "read" /\ Hungry /\ rd.left = <<>>
Asking == Dry /\ rd.got < wire[cur].size
Width  == Lesser(Window, wire[cur].size - rd.got)

Receive(bytes, pooled) ==
    /\ rd' = [rd EXCEPT !.left = bytes, !.pooled = pooled]
    /\ UNCHANGED <<file, durable, pc, wire, todo, cur, buf, pos, taken, failed, runs, changes>>

\* A range is pooled under its whole request: only first windows were advertised.
Pooled  == rd.got = 0 /\ cur \in DOMAIN pool.tar
IndexOf(s) == {i \in pool.next .. Len(pool.hints) : pool.hints[i] = s}
Batches == rd.got = 0 /\ cur \notin DOMAIN pool.tar /\ pool.held = 0 /\ IndexOf(cur) # {}

FetchServed ==
    /\ Asking /\ Pooled
    /\ pool' = [pool EXCEPT !.tar = [s \in DOMAIN @ \ {cur} |-> @[s]], !.held = @ + 1]
    /\ Receive(pool.tar[cur], TRUE) /\ UNCHANGED <<hit, lost, asked, faults>>

First(s) == Lesser(Window, wire[s].size)
Total(i, j) == FoldSeq(LAMBDA s, n : n + First(s), 0, SubSeq(pool.hints, i, j))

\* The hints from i on that fit one transfer; the first always does.
Fits(i, j) == j - i < MaxRanges /\ (j = i \/ Total(i, j) <= Window)
Batch(i) ==
    LET j == CHOOSE j \in i .. Len(pool.hints) :
                Fits(i, j) /\ \A k \in j + 1 .. Len(pool.hints) : ~Fits(i, k)
    IN  SubSeq(pool.hints, i, j)

\* Variant: the cursor moves on only when the batch has arrived.
FetchBatch_Variant ==
    /\ Asking /\ Batches
    /\ \E i \in IndexOf(cur) :
         LET b  == Batch(i)
             qs == [k \in 1 .. Len(b) |-> Request(b[k], 0, First(b[k]))]
         IN  /\ asked' = asked \o b
             /\ \E reply \in Replies(qs) :
                  /\ Call(qs, reply)
                  /\ IF reply = <<>>
                     THEN /\ GiveUp([pool EXCEPT !.tar = <<>>], hit')
                          /\ lost' = [lost EXCEPT ![cur] = ToSet(b)]
                     ELSE /\ Receive(reply[1].bytes, TRUE) /\ UNCHANGED lost
                          /\ pool' = [pool EXCEPT !.next = i + Len(b), !.held = 1, !.tar =
                                [s \in ToSet(Tail(b)) |-> reply[CHOOSE k \in 2 .. Len(b) : b[k] = s].bytes]]

\* One transfer for a batch of hints.  The cursor passes them before the call, and the
\* tar kept so far is dropped: a batch that fails is never asked for again.
FetchBatch ==
    /\ Asking /\ Batches
    /\ \E i \in IndexOf(cur) :
         LET b    == Batch(i)
             qs   == [k \in 1 .. Len(b) |-> Request(b[k], 0, First(b[k]))]
             past == [pool EXCEPT !.next = i + Len(b), !.tar = <<>>]
         IN  /\ asked' = asked \o b
             /\ \E reply \in Replies(qs) :
                  /\ Call(qs, reply)
                  /\ IF reply = <<>>
                     THEN /\ GiveUp(past, hit')
                          /\ lost' = [lost EXCEPT ![cur] = ToSet(b)]
                     ELSE /\ Receive(reply[1].bytes, TRUE) /\ UNCHANGED lost
                          /\ pool' = [past EXCEPT !.held = 1, !.tar =
                                [s \in ToSet(Tail(b)) |-> reply[CHOOSE k \in 2 .. Len(b) : b[k] = s].bytes]]

\* Live logs, later windows and whatever the pool does not serve.
FetchOne ==
    /\ Asking /\ ~Pooled /\ ~Batches
    /\ LET qs == <<Request(cur, rd.got, Width)>>
       IN  \E reply \in Replies(qs) :
             /\ Call(qs, reply)
             /\ IF reply = <<>> THEN GiveUp(pool, hit')
                ELSE Receive(reply[1].bytes, FALSE) /\ UNCHANGED pool
    /\ UNCHANGED <<lost, asked>>

-----------------------------------------------------------------------------
(* DecodedLogReader: plain bytes, or frames that each need their end mark.  *)

Plain(bytes) == Keeping(bytes, Bytes \ {"e"})

Decoded(s, bytes) == IF s \in Gz THEN Plain(bytes) ELSE bytes

\* Variant: the digest of a captured blob is left to the node's receipt.
Ends_Variant(r) == cur \in Gz => Last(r.bytes) = "e"

\* A blob read whole must have its recorded digest, a compressed one a last frame.
Ends(r) == /\ cur \in Blobs => r.bytes = file[cur].text
           /\ cur \in Gz => Last(r.bytes) = "e"

\* Bytes move on to the line buffer, those before the resume offset are discarded.
Pull ==
    /\ pc = "read" /\ Hungry /\ rd.left # <<>>
    /\ LET want == IF buf.skip > 0 THEN buf.skip ELSE MaxRaw + 1 - Len(buf.bytes)
           raw  == IF cur \in Gz THEN rd.left ELSE Take(rd.left, want)
           out  == Decoded(cur, raw)
           gone == Lesser(buf.skip, Len(out))
           r    == [rd EXCEPT !.left = Drop(@, Len(raw)), !.got = @ + Len(raw), !.bytes = @ \o raw]
       IN  \/ /\ r.got = wire[cur].size /\ ~Ends(r)
              /\ GiveUp(pool, hit \cup {cur})
           \/ /\ r.got = wire[cur].size => Ends(r)
              /\ rd' = r
              /\ buf' = [buf EXCEPT !.bytes = @ \o Drop(out, gone), !.skip = @ - gone]
              /\ pool' = [pool EXCEPT !.held = IF r.left = <<>> THEN 0 ELSE @]
              /\ UNCHANGED <<file, durable, pc, wire, todo, cur, pos, taken, failed, hit, runs, changes>>
    /\ UNCHANGED <<lost, asked, faults>>

\* The end of the stream; one that ends before the resume offset is an error.
EndOfStream ==
    /\ Dry /\ rd.got = wire[cur].size
    /\ \/ /\ buf.skip > 0 /\ GiveUp(pool, hit \cup {cur})
       \/ /\ buf.skip = 0 /\ buf' = [buf EXCEPT !.eof = TRUE]
          /\ UNCHANGED <<file, durable, pc, wire, todo, cur, rd, pool, pos, taken, failed, hit,
                         runs, changes>>
    /\ UNCHANGED <<lost, asked, faults>>

-----------------------------------------------------------------------------
(* iter_log_fragments.                                                      *)

\* Variant: a cut may fall anywhere.
SafeEnd_Variant(b, end) == IF end >= Len(b) THEN Len(b) ELSE end

\* The largest cut up to end that leaves no character of b in two.
SafeEnd(b, end) ==
    IF end >= Len(b) THEN Len(b)
    ELSE LET lead == {i \in 1 .. end : b[i] # "C"}
         IN  IF lead = {} THEN end
             ELSE LET i == CHOOSE i \in lead : \A k \in lead : k <= i
                  IN  IF i + Bit(b[i] = "L") > end THEN i - 1 ELSE end

AtLeast1(n) == IF n < 1 THEN 1 ELSE n

\* The next chunk: up to a newline, up to the size limit, or what is left.
Chunk ==
    LET ends == {i \in 1 .. Lesser(Len(buf.bytes), MaxRaw + 1) : buf.bytes[i] = "n"}
    IN  IF ends # {}
        THEN LET i == CHOOSE i \in ends : \A k \in ends : i <= k
             IN  [text |-> Take(buf.bytes, i - 1), term |-> TRUE, last |-> FALSE]
        ELSE IF Len(buf.bytes) > MaxRaw
        THEN [text |-> Take(buf.bytes, AtLeast1(SafeEnd(buf.bytes, MaxRaw))),
              term |-> FALSE, last |-> FALSE]
        ELSE [text |-> buf.bytes, term |-> FALSE, last |-> TRUE]

Encoded(b) == Len(b) + 2 * Cardinality({i \in DOMAIN b : b[i] = "x"})

\* How much of a chunk fits one entry: shrunk in proportion until it does.
Fit(text) ==
    LET fit[n \in 0 .. Len(text)] ==
          LET size == Encoded(Take(text, n))
              goal == AtLeast1(Lesser(n - 1, (n * MaxEntry * 97) \div (size * 100)))
          IN  IF size <= MaxEntry THEN n ELSE fit[AtLeast1(SafeEnd(text, goal))]
    IN  fit[Len(text)]

\* Variant: the part of a line that did not fit goes back without its newline.
Fragment_Variant(c, n) ==
    LET final == (c.term \/ c.last) /\ n = Len(c.text)
    IN  [start |-> pos, text |-> Take(c.text, n), term |-> final /\ c.term,
         partial |-> final /\ ~c.term /\ Active(cur),
         next |-> IF final /\ (c.term \/ ~Active(cur))
                  THEN [off |-> pos.off + n, line |-> pos.line + 1, idx |-> 0]
                  ELSE [off |-> pos.off + n, line |-> pos.line, idx |-> pos.idx + 1]]

\* Variant: the end of what was recorded ends the line.
Fragment_EndsLine(c, n) ==
    LET final == (c.term \/ c.last) /\ n = Len(c.text)
    IN  [start |-> pos, text |-> Take(c.text, n), term |-> final /\ c.term,
         partial |-> final /\ ~c.term /\ Active(cur),
         next |-> IF final
                  THEN [off |-> pos.off + n + Bit(c.term), line |-> pos.line + 1, idx |-> 0]
                  ELSE [off |-> pos.off + n, line |-> pos.line, idx |-> pos.idx + 1]]

\* The fragment of n bytes, and where the next one starts: a line that is not over, or
\* the last line of a log still written, goes on with the next index.
Fragment(c, n) ==
    LET final == (c.term \/ c.last) /\ n = Len(c.text)
    IN  [start |-> pos, text |-> Take(c.text, n), term |-> final /\ c.term,
         partial |-> final /\ ~c.term /\ Active(cur),
         next |-> IF final /\ (c.term \/ ~Active(cur))
                  THEN [off |-> pos.off + n + Bit(c.term), line |-> pos.line + 1, idx |-> 0]
                  ELSE [off |-> pos.off + n, line |-> pos.line, idx |-> pos.idx + 1]]

Yield ==
    /\ pc = "read" /\ ~Hungry /\ buf.bytes # <<>>
    /\ LET c == Chunk
           f == Fragment(c, Fit(c.text))
       IN  /\ taken' = taken \o <<f>> /\ pos' = f.next
           /\ buf' = [buf EXCEPT !.bytes = Drop(@, f.next.off - pos.off)]
    /\ UNCHANGED <<file, durable, pc, wire, todo, cur, rd, pool, failed, hit, lost, asked,
                   runs, faults, changes>>

-----------------------------------------------------------------------------
(* What _import_source does with the fragments.                             *)

Send(r) == /\ sent' = [sent EXCEPT ![cur] = @ \o taken] /\ row' = [row EXCEPT ![cur] = r]
           /\ taken' = <<>>

\* A full body is sent before the next fragment is taken in.
Flush ==
    /\ pc = "read" /\ ~Hungry /\ buf.bytes # <<>> /\ taken # <<>>
    /\ Send([row[cur] EXCEPT !.at = pos])
    /\ UNCHANGED <<file, pc, wire, todo, cur, rd, pool, buf, pos, failed, hit, lost, asked,
                   runs, faults, changes>>

\* The whole recorded range was read and cut: the source is complete at this size.
Complete ==
    /\ pc = "read" /\ ~Hungry /\ buf.bytes = <<>>
    /\ Send([at |-> pos, done |-> TRUE, size |-> wire[cur].size])
    /\ pc' = "next"
    /\ UNCHANGED <<file, wire, todo, cur, rd, pool, buf, pos, failed, hit, lost, asked,
                   runs, faults, changes>>

\* The run's budget is used up, or Loki does not accept the body.
Stop ==
    /\ pc = "read" /\ ~Hungry /\ buf.bytes # <<>>
    /\ \/ Send([row[cur] EXCEPT !.at = pos])
       \/ taken' = <<>> /\ UNCHANGED durable
    /\ pc' = "stopped" /\ pool' = NoPool /\ rd' = NoReader
    /\ UNCHANGED <<file, wire, todo, cur, buf, pos, failed, hit, lost, asked, runs, faults, changes>>

End ==
    /\ pc = "next" /\ todo = {} /\ pc' = "over" /\ pool' = NoPool
    /\ UNCHANGED <<file, durable, wire, todo, cur, rd, buf, pos, taken, failed, hit, lost, asked,
                   runs, faults, changes>>

Die ==
    /\ pc \notin Ended /\ faults < MaxFaults /\ faults' = faults + 1
    /\ pc' = "dead" /\ pool' = NoPool /\ rd' = NoReader /\ taken' = <<>>
    /\ UNCHANGED <<file, durable, wire, todo, cur, buf, pos, failed, hit, lost, asked, runs, changes>>

Done == pc \in Ended /\ runs = MaxRuns /\ UNCHANGED vars

Next ==
    \/ World \/ Begin \/ Open \/ FetchServed \/ FetchBatch \/ FetchOne \/ Pull \/ EndOfStream
    \/ Yield \/ Flush \/ Complete \/ Stop \/ End \/ Die \/ Done

Spec == Init /\ [][Next]_vars

-----------------------------------------------------------------------------
(* Properties.                                                              *)

Written(s)  == Decoded(s, file[s].text)
Piece(f)    == f.text \o (IF f.term THEN <<"n">> ELSE <<>>)
Joined(q)   == FlattenSeq([i \in DOMAIN q |-> Piece(q[i])])
Archived(s) == Joined(sent[s])
Newlines(q) == Cardinality({i \in DOMAIN q : q[i] = "n"})

TypeOK ==
    /\ \A s \in Sources :
         /\ file[s].text \in Seq(Bytes) /\ file[s].size \in 0 .. Len(file[s].text)
         /\ row[s].at.off \in Nat /\ row[s].at.line \in Nat \ {0} /\ row[s].at.idx \in Nat
         /\ row[s].done \in BOOLEAN /\ wire[s].size \in Nat
    /\ pc \in Ended \cup {"next", "read"} /\ todo \subseteq Sources
    /\ cur \in Sources \cup {0} /\ failed \subseteq Sources
    /\ rd.got \in Nat /\ rd.left \in Seq(Bytes) /\ rd.bytes \in Seq(Bytes)
    /\ buf.bytes \in Seq(Bytes) /\ buf.eof \in BOOLEAN /\ buf.skip \in Nat
    /\ pool.held \in {0, 1} /\ pool.next \in Nat \ {0} /\ DOMAIN pool.tar \subseteq Blobs

\* The fragments Loki has of a source, put together again with their terminators, are
\* what was written up to the row's offset: no byte missing, doubled or of another
\* source, however the stream was cut into windows, batches, fragments and runs.  Of
\* bytes that rotted this can be said once their blob is complete.
NothingLostOrDoubled ==
    \A s \in Sources : file[s].st # "rotten" \/ row[s].done =>
        Archived(s) = Take(Written(s), row[s].at.off)

\* A source is complete only when all that was recorded of it is archived.
CompleteMeansAll ==
    \A s \in Sources : row[s].done =>
        LET n == IF s = Live THEN row[s].size ELSE Len(Written(s))
        IN  Take(Archived(s), n) = Take(Written(s), n) /\ Len(Archived(s)) >= n

\* Every fragment carries the number of its line in the log and its index within the
\* line, across resumed runs and a line that was still being written when first read.
\* A writer that goes on after the rotation is excepted (see LineNumbersAlways), as are
\* fragments of bytes that rotted: what was sent before the digest failed stays sent.
LineNumbers ==
    \A s \in Sources : ~file[s].late /\ (file[s].st # "rotten" \/ row[s].done) =>
        \A i \in DOMAIN sent[s] : LET f == sent[s][i] IN
            /\ f.start.line = 1 + Newlines(Take(Written(s), f.start.off))
            /\ f.start.idx = Cardinality({k \in 1 .. i - 1 : sent[s][k].start.line = f.start.line})

\* No fragment ends inside a character, but where the recorded prefix did.
WholeCharacters ==
    \A s \in Sources : \A i \in DOMAIN sent[s] : LET f == sent[s][i] IN
        /\ f.text # <<>> /\ Last(f.text) = "L" /\ ~f.partial
        => f.next.off = Len(Written(s)) \/ Written(s)[f.next.off + 1] # "C" \/ file[s].late

\* A transfer that fails costs the source that asked for it; the others of its batch
\* are read one by one (RemoteSnapshotPool: the strict singleton fetch instead).
BatchCostsOne ==
    \A s \in Blobs : \A t \in lost[s] \ {s} : t \in failed => t \in hit

\* "Pooling changes no source coverage" (housekeeping_stream.py): a source is given up
\* only for a failure of its own.  A blob that can no longer be read fails the batch,
\* and with it the source before it, in every run.
OwnFailuresOnly == failed \subseteq hit

\* "A closed file's unterminated final line is that file's last line": not when its
\* writer goes on after the rotation, as a writer does until it reopens its log.
LineNumbersAlways ==
    \A s \in Sources : \A i \in DOMAIN sent[s] : LET f == sent[s][i] IN
        f.start.line = 1 + Newlines(Take(Written(s), f.start.off))
=============================================================================
