-------------------------- MODULE LogStream_proofs --------------------------
(***************************************************************************)
(* Theorems about LogStream, for any number of blobs, any texts, windows   *)
(* and limits, and any number of runs, faults and changes of files.        *)
(***************************************************************************)
EXTENDS LogStream, SequenceTheorems, FiniteSetTheorems, WellFoundedInduction, TLAPS

-----------------------------------------------------------------------------
(***************************************************************************)
(* The inductive invariant.  The operators are over values, not over the   *)
(* state, so that a step which leaves their arguments leaves them.         *)
(***************************************************************************)
Places    == [off : Nat, line : Nat \ {0}, idx : Nat]
Fragments == [start : Places, text : Seq(Bytes), term : BOOLEAN, partial : BOOLEAN, next : Places]
Ways      == {"current", "rotated"}
FileSet   == [text : Seq(Bytes), size : Nat, path : Ways, late : BOOLEAN,
              st : {"sound", "touched", "rotten"}]
Reader    == [got : Nat, left : Seq(Bytes), bytes : Seq(Bytes), pooled : BOOLEAN, eof : BOOLEAN]
Tars      == UNION {[D -> Seq(Bytes)] : D \in SUBSET Blobs}
PoolSet   == [hints : Seq(Blobs), next : Nat \ {0}, tar : Tars, held : {0, 1}]

Types ==
    /\ file \in [Sources -> FileSet]
    /\ row \in [Sources -> [at : Places, done : BOOLEAN, size : Nat]]
    /\ sent \in [Sources -> Seq(Fragments)]
    /\ wire \in [Sources -> [size : Nat, path : Ways]]
    /\ pc \in Ended \cup {"next", "read"} /\ todo \in SUBSET Sources
    /\ cur \in Sources \cup {0} /\ (pc = "read" => cur \in Sources)
    /\ rd \in Reader /\ pool \in PoolSet
    /\ buf \in [bytes : Seq(Bytes), eof : BOOLEAN, skip : Nat]
    /\ pos \in Places /\ taken \in Seq(Fragments) /\ failed \in SUBSET Sources

\* A blob keeps its length; a live log is there to its end or was cut to nothing.
OnDisk ==
    /\ \A s \in Blobs : /\ file[s].size = Len(file[s].text)
                        /\ file[s].path = "current" /\ ~file[s].late
                        /\ file[s].st = "rotten" => file[s].size > 0
    /\ file[Live].st = "sound" /\ file[Live].size \in {0, Len(file[Live].text)}

\* What a run recorded of its sources stays a beginning of them; a log recorded as
\* rotated was recorded to its end, unless its writer goes on.
Recorded ==
    /\ \A s \in Sources : wire[s].size <= Len(file[s].text)
    /\ pc \notin Ended => \A s \in Blobs : wire[s].size = Len(file[s].text)
    /\ wire[Live].path = "rotated" =>
         /\ file[Live].path = "rotated"
         /\ file[Live].late \/ wire[Live].size \in {0, Len(file[Live].text)}

\* The decoded stream of a source.
Stream(s, f) == Decoded(s, f.text)
LineAt(d, p) == p.line = 1 + Newlines(Take(d, p.off))
Lines(d, q)  == \A i \in 1 .. Len(q) : q[i].start.off <= Len(d) /\ LineAt(d, q[i].start)

\* The fragments q are the stream d up to the place p and stand at their lines; the
\* next line has the number of p, unless the stream is over.
Placed(f, d, q, p, over) ==
    /\ p.off <= Len(d) /\ Joined(q) = Take(d, p.off)
    /\ ~f.late => Lines(d, q) /\ (LineAt(d, p) \/ over)

\* A blob whose first byte is no longer what was written, and bytes read from it then.
Bad(f)       == f.st = "rotten" /\ f.text[1] # "z"
Spoilt(f, q) == Bad(f) /\ q # <<>> /\ q[1] # f.text[1]
Begins(p, q) == Len(p) <= Len(q) /\ \A i \in 1 .. Len(p) : p[i] = q[i]

Over(s, f, r) ==
    /\ r.done /\ r.at.off = Len(Stream(s, f))
    /\ s = Live => f.path = "rotated" /\ r.size = Len(f.text)
Whole(s, f, q, r) == Placed(f, Stream(s, f), q, r.at, Over(s, f, r))

\* Whatever is not a blob that went bad and cannot complete is archived as it was written.
Rows == \A s \in Sources : \/ Whole(s, file[s], sent[s], row[s])
                           \/ Bad(file[s]) /\ ~row[s].done

Reached(s, f, r) == r.done => r.at.off >= IF s = Live THEN r.size ELSE Len(Stream(s, f))
Reaches == \A s \in Sources : Reached(s, file[s], row[s])

\* Fragments of one line are counted from zero, and lines never go back.
Same(q, n, l)    == {k \in 1 .. n : q[k].start.line = l}
NumberedTo(q, p) ==
    /\ \A i \in 1 .. Len(q) : /\ q[i].start.line <= p.line
                              /\ q[i].start.idx = Cardinality(Same(q, i - 1, q[i].start.line))
    /\ p.idx = Cardinality(Same(q, Len(q), p.line))
Indexed ==
    /\ \A s \in Sources : NumberedTo(sent[s], row[s].at)
    /\ pc = "read" => NumberedTo(sent[cur] \o taken, pos)

\* What is left to read is not complete, or it is a live log that has grown since.
Unfinished(s, f, r) == ~r.done \/ (s = Live /\ r.size < Len(f.text))
Agenda ==
    /\ pc = "next" => \A s \in todo : Unfinished(s, file[s], row[s])
    /\ pc = "read" => \A s \in todo \cup {cur} : Unfinished(s, file[s], row[s])
    /\ pc = "read" => cur \notin todo
    /\ pc \notin Ended => \A i \in 1 .. Len(pool.hints) : wire[pool.hints[i]].size > 0
    /\ pool.held = 1 => pc = "read" /\ rd.left # <<>>

\* A range the pool keeps is the first window of its source, read when the source was
\* sound, or it starts with the byte that rotted.
Arrived(s, f, w, q, r, b) ==
    /\ Len(b) = Lesser(Window, w.size) /\ w.size > 0
    /\ \/ Begins(b, f.text) /\ Whole(s, f, q, r)
       \/ Spoilt(f, b)
Fresh(s) == pc = "read" /\ s = cur /\ rd.got = 0 /\ rd.left = <<>>
Kept ==
    pc \in {"next", "read"} =>
        \A s \in DOMAIN pool.tar : s \in todo \/ Fresh(s) =>
            Arrived(s, file[s], wire[s], sent[s], row[s], pool.tar[s])

Data == rd.bytes \o rd.left
PosOver(s, f, w, b, p) ==
    /\ b.bytes = <<>> /\ b.eof /\ p.off = Len(Stream(s, f))
    /\ s = Live => w.path = "rotated" /\ w.size = Len(f.text)

\* The source being read: what came of it is a beginning of it and the fragments taken
\* are placed in it, or it starts with the byte that rotted.
Reading ==
    pc = "read" =>
        /\ rd.got = Len(rd.bytes) /\ rd.got + Len(rd.left) <= wire[cur].size
        /\ Data = <<>> => taken = <<>> /\ pos = row[cur].at
        /\ Data # <<>> =>
             \/ /\ Begins(Data, file[cur].text)
                /\ Placed(file[cur], Stream(cur, file[cur]), sent[cur] \o taken, pos,
                          PosOver(cur, file[cur], wire[cur], buf, pos))
             \/ Spoilt(file[cur], Data)
        /\ cur \in Blobs /\ rd.got = wire[cur].size /\ rd.got > 0 => rd.bytes = file[cur].text

\* What waits in the line buffer follows the place of the next fragment in what was
\* decoded, once that place is reached.
Follows(d, p, b) ==
    /\ Len(d) + b.skip = p.off + Len(b.bytes)
    /\ b.skip > 0 => b.bytes = <<>>
    /\ \A i \in 1 .. Len(b.bytes) : b.bytes[i] = d[p.off + i]
Buffered ==
    pc = "read" =>
        /\ row[cur].at.off <= pos.off
        /\ Follows(Decoded(cur, rd.bytes), pos, buf)
        /\ buf.eof => rd.got = wire[cur].size /\ buf.skip = 0

IInv == /\ Types /\ OnDisk /\ Recorded /\ Rows /\ Reaches /\ Indexed /\ Agenda /\ Kept
        /\ Reading /\ Buffered

-----------------------------------------------------------------------------
(***************************************************************************)
(* Induction: over the members of a set of natural numbers, since no       *)
(* prover takes an induction theorem that is stated for a predicate.       *)
(***************************************************************************)
LEMMA Least == ASSUME NEW T \in SUBSET Nat, T # {} PROVE \E x \in T : \A y \in T : x <= y
  <1>1. \E x \in T : \A y \in T : ~ (<<y, x>> \in OpToRel(<, Nat))
    BY WFMin, NatLessThanWellFounded
  <1>2. \A a, b \in Nat : a < b => <<a, b>> \in OpToRel(<, Nat)
    BY DEF OpToRel
  <1>3. PICK x \in T : \A y \in T : ~ (<<y, x>> \in OpToRel(<, Nat))
    BY <1>1
  <1>4. \A y \in T : ~ (y < x)
    BY <1>2, <1>3
  <1>5. \A y \in T : x <= y
    BY <1>4
  <1> QED
    BY <1>5

LEMMA Greatest ==
    ASSUME NEW N \in Nat, NEW T \in SUBSET (0 .. N), T # {}
    PROVE  \E x \in T : \A y \in T : y <= x
  <1> DEFINE U == {N - x : x \in T}
  <1>1. U \in SUBSET Nat /\ U # {}
    OBVIOUS
  <1>2. PICK u \in U : \A y \in U : u <= y
    BY <1>1, Least
  <1>3. PICK x \in T : u = N - x
    BY <1>2
  <1>4. ASSUME NEW y \in T PROVE y <= x
    <2>1. N - y \in U
      OBVIOUS
    <2>2. N - x <= N - y
      BY <1>2, <1>3, <2>1
    <2> QED
      BY <2>2
  <1> QED
    BY <1>4

LEMMA Induction ==
    ASSUME NEW N \in Nat, NEW T, 0 \in T, \A n \in 1 .. N : n - 1 \in T => n \in T
    PROVE  \A n \in 0 .. N : n \in T
  <1> DEFINE Missed == (0 .. N) \ T
  <1> SUFFICES ASSUME Missed # {} PROVE FALSE
    OBVIOUS
  <1>0. Missed \in SUBSET Nat
    OBVIOUS
  <1>1. PICK x \in Missed : \A y \in Missed : x <= y
    BY <1>0, Least
  <1>2. x \in 1 .. N /\ x \notin T /\ x - 1 \in 0 .. N
    OBVIOUS
  <1>3. x - 1 \notin Missed
    BY <1>1, <1>2
  <1> QED
    BY <1>2, <1>3

-----------------------------------------------------------------------------
(***************************************************************************)
(* Keeping.  It is a recursive function: that it obeys its definition is   *)
(* shown by building it step by step.                                      *)
(***************************************************************************)
Keeps(g, q, S, N) ==
    /\ g = [n \in 0 .. N |-> g[n]] /\ g[0] = <<>>
    /\ \A n \in 1 .. N : g[n] = IF q[n] \in S THEN Append(g[n - 1], q[n]) ELSE g[n - 1]

LEMMA KeepsExists == \A q, S : \A N \in Nat : \E g : Keeps(g, q, S, N)
  <1> SUFFICES ASSUME NEW q, NEW S, NEW N \in Nat PROVE \E g : Keeps(g, q, S, N)
    OBVIOUS
  <1> DEFINE T == {n \in Nat : \E g : Keeps(g, q, S, n)}
  <1>1. 0 \in T
    <2>1. Keeps([n \in 0 .. 0 |-> <<>>], q, S, 0)
      BY DEF Keeps
    <2> QED
      BY <2>1
  <1>2. ASSUME NEW n \in 1 .. N, n - 1 \in T PROVE n \in T
    <2>1. PICK g : Keeps(g, q, S, n - 1)
      BY <1>2
    <2> DEFINE h == [k \in 0 .. n |-> IF k < n THEN g[k]
                                      ELSE IF q[n] \in S THEN Append(g[n - 1], q[n]) ELSE g[n - 1]]
    <2>2. \A k \in 0 .. n - 1 : h[k] = g[k]
      OBVIOUS
    <2>3. h[n] = IF q[n] \in S THEN Append(h[n - 1], q[n]) ELSE h[n - 1]
      BY <2>2
    <2>4. h = [k \in 0 .. n |-> h[k]] /\ h[0] = <<>>
      BY <2>1, <2>2 DEF Keeps
    <2> HIDE DEF h
    <2>5. \A k \in 1 .. n : h[k] = IF q[k] \in S THEN Append(h[k - 1], q[k]) ELSE h[k - 1]
      <3> SUFFICES ASSUME NEW k \in 1 .. n
                   PROVE  h[k] = IF q[k] \in S THEN Append(h[k - 1], q[k]) ELSE h[k - 1]
        OBVIOUS
      <3>1. CASE k = n
        BY <2>3, <3>1
      <3>2. CASE k # n
        <4>1. k \in 1 .. n - 1 /\ k - 1 \in 0 .. n - 1 /\ k \in 0 .. n - 1
          BY <3>2
        <4> QED
          BY <2>1, <2>2, <4>1 DEF Keeps
      <3> QED
        BY <3>1, <3>2
    <2>6. Keeps(h, q, S, n)
      BY <2>4, <2>5 DEF Keeps
    <2> QED
      BY <2>6
  <1>3. N \in 0 .. N
    OBVIOUS
  <1> HIDE DEF T
  <1>4. N \in T
    BY <1>1, <1>2, <1>3, Induction
  <1> QED
    BY <1>4 DEF T

LEMMA KeepingFcn ==
    ASSUME NEW S, NEW E, NEW q \in Seq(E)
    PROVE  \E g : Keeps(g, q, S, Len(q)) /\ Keeping(q, S) = g[Len(q)]
  <1> DEFINE Body(g) == [n \in 0 .. Len(q) |->
                           IF n = 0 THEN <<>>
                           ELSE IF q[n] \in S THEN Append(g[n - 1], q[n]) ELSE g[n - 1]]
             keep == CHOOSE g : g = Body(g)
  <1>1. Len(q) \in Nat
    OBVIOUS
  <1>2. PICK g : Keeps(g, q, S, Len(q))
    BY <1>1, KeepsExists
  <1>3. ASSUME NEW f, f = Body(f) PROVE Keeps(f, q, S, Len(q))
    <2>1. \A n \in 0 .. Len(q) :
            Body(f)[n] = IF n = 0 THEN <<>>
                         ELSE IF q[n] \in S THEN Append(f[n - 1], q[n]) ELSE f[n - 1]
      OBVIOUS
    <2>2. Body(f) = [n \in 0 .. Len(q) |-> Body(f)[n]]
      OBVIOUS
    <2> HIDE DEF Body
    <2>3. f = [n \in 0 .. Len(q) |-> f[n]]
      BY <1>3, <2>2
    <2>4. \A n \in 0 .. Len(q) :
            f[n] = IF n = 0 THEN <<>>
                   ELSE IF q[n] \in S THEN Append(f[n - 1], q[n]) ELSE f[n - 1]
      BY <1>3, <2>1
    <2> QED
      BY <1>1, <2>3, <2>4 DEF Keeps
  <1>4. g = Body(g)
    <2>1. \A n \in 0 .. Len(q) :
            Body(g)[n] = IF n = 0 THEN <<>>
                         ELSE IF q[n] \in S THEN Append(g[n - 1], q[n]) ELSE g[n - 1]
      OBVIOUS
    <2>2. Body(g) = [n \in 0 .. Len(q) |-> Body(g)[n]]
      OBVIOUS
    <2> HIDE DEF Body
    <2>3. \A n \in 0 .. Len(q) : Body(g)[n] = g[n]
      <3>1. \A n \in 0 .. Len(q) :
              g[n] = IF n = 0 THEN <<>>
                     ELSE IF q[n] \in S THEN Append(g[n - 1], q[n]) ELSE g[n - 1]
        <4>1. \A n \in 0 .. Len(q) : n = 0 \/ n \in 1 .. Len(q)
          BY <1>1
        <4>2. /\ g[0] = <<>>
              /\ \A n \in 1 .. Len(q) :
                    g[n] = IF q[n] \in S THEN Append(g[n - 1], q[n]) ELSE g[n - 1]
          BY <1>2, Zenon DEF Keeps
        <4>3. \A n \in 1 .. Len(q) : n # 0
          OBVIOUS
        <4> HIDE <1>2
        <4> QED
          BY <4>1, <4>2, <4>3
      <3> QED
        BY <2>1, <3>1, Zenon
    <2>4. g = [n \in 0 .. Len(q) |-> g[n]]
      BY <1>2 DEF Keeps
    <2>5. [n \in 0 .. Len(q) |-> Body(g)[n]] = [n \in 0 .. Len(q) |-> g[n]]
      BY <2>3, Zenon
    <2> QED
      BY <2>2, <2>4, <2>5, Zenon
  <1>5. keep = Body(keep)
    <2> HIDE DEF Body
    <2> QED
      BY <1>4
  <1>6. Keeps(keep, q, S, Len(q))
    BY <1>3, <1>5
  <1>7. Keeping(q, S) = keep[Len(q)]
    BY DEF Keeping
  <1> QED
    BY <1>6, <1>7

\* What is kept of a beginning is a beginning of what is kept.
LEMMA KeepsGrow ==
    ASSUME NEW S, NEW E, NEW q \in Seq(E), NEW g, Keeps(g, q, S, Len(q))
    PROVE  \A n \in 0 .. Len(q) : g[n] \in Seq(E \cap S)
  <1> DEFINE T == {n \in 0 .. Len(q) : g[n] \in Seq(E \cap S)}
  <1>1. Len(q) \in Nat /\ 0 \in T
    BY DEF Keeps
  <1>2. ASSUME NEW n \in 1 .. Len(q), n - 1 \in T PROVE n \in T
    <2>1. q[n] \in E /\ n \in 0 .. Len(q)
      OBVIOUS
    <2>2. g[n - 1] \in Seq(E \cap S)
      BY <1>2
    <2>3. q[n] \in S => Append(g[n - 1], q[n]) \in Seq(E \cap S)
      BY <2>1, <2>2
    <2> QED
      BY <2>1, <2>2, <2>3 DEF Keeps
  <1> HIDE DEF T
  <1>3. \A n \in 0 .. Len(q) : n \in T
    BY <1>1, <1>2, Induction
  <1> QED
    BY <1>3 DEF T

LEMMA KeepingType ==
    ASSUME NEW S, NEW E, NEW q \in Seq(E)
    PROVE  Keeping(q, S) \in Seq(E \cap S)
  <1>1. PICK g : Keeps(g, q, S, Len(q)) /\ Keeping(q, S) = g[Len(q)]
    BY KeepingFcn
  <1>2. \A n \in 0 .. Len(q) : g[n] \in Seq(E \cap S)
    BY <1>1, KeepsGrow
  <1> QED
    BY <1>1, <1>2

LEMMA ConcatAppend ==
    ASSUME NEW D, NEW a \in Seq(D), NEW b \in Seq(D), NEW e \in D
    PROVE  Append(a \o b, e) = a \o Append(b, e)
  <1>1. <<e>> \in Seq(D) /\ a \o b \in Seq(D)
    OBVIOUS
  <1>2. Append(a \o b, e) = (a \o b) \o <<e>> /\ Append(b, e) = b \o <<e>>
    BY <1>1, AppendIsConcat
  <1> QED
    BY <1>1, <1>2, ConcatAssociative

\* Two runs of Keeping agree as far as what they read agrees.
LEMMA KeepsSame ==
    ASSUME NEW S, NEW p, NEW q, NEW M \in Nat, NEW N \in Nat, NEW g, NEW h,
           Keeps(g, p, S, M), Keeps(h, q, S, N), NEW n \in Nat, n <= M, n <= N,
           \A i \in 1 .. n : p[i] = q[i]
    PROVE  g[n] = h[n]
  <1> DEFINE T == {k \in 0 .. n : g[k] = h[k]}
  <1>1. 0 \in T
    BY DEF Keeps
  <1>2. ASSUME NEW k \in 1 .. n, k - 1 \in T PROVE k \in T
    <2>1. k \in 1 .. M /\ k \in 1 .. N /\ g[k - 1] = h[k - 1] /\ p[k] = q[k]
      BY <1>2
    <2>2. g[k] = h[k]
      BY <2>1 DEF Keeps
    <2> QED
      BY <2>2
  <1> HIDE DEF T
  <1>3. \A k \in 0 .. n : k \in T
    BY <1>1, <1>2, Induction
  <1>4. n \in 0 .. n
    OBVIOUS
  <1> QED
    BY <1>3, <1>4 DEF T

LEMMA KeepingEmpty == ASSUME NEW S PROVE Keeping(<<>>, S) = <<>>
  <1>1. <<>> \in Seq({}) /\ Len(<<>>) = 0
    OBVIOUS
  <1>2. PICK g : Keeps(g, <<>>, S, Len(<<>>)) /\ Keeping(<<>>, S) = g[Len(<<>>)]
    BY <1>1, KeepingFcn
  <1> QED
    BY <1>1, <1>2 DEF Keeps

LEMMA KeepingAppend ==
    ASSUME NEW S, NEW E, NEW q \in Seq(E), NEW e \in E
    PROVE  Keeping(Append(q, e), S) = IF e \in S THEN Append(Keeping(q, S), e) ELSE Keeping(q, S)
  <1> DEFINE r == Append(q, e)
             N == Len(q)
  <1>1. /\ r \in Seq(E) /\ Len(r) = N + 1 /\ N \in Nat /\ r[N + 1] = e
        /\ \A i \in 1 .. N : q[i] = r[i]
    BY AppendProperties
  <1>2. PICK g : Keeps(g, q, S, N) /\ Keeping(q, S) = g[N]
    BY KeepingFcn
  <1>3. PICK h : Keeps(h, r, S, Len(r)) /\ Keeping(r, S) = h[Len(r)]
    BY <1>1, KeepingFcn
  <1> HIDE DEF r, N
  <1>4. Keeps(h, r, S, N + 1) /\ Keeping(r, S) = h[N + 1]
    BY <1>1, <1>3
  <1>5. N + 1 \in Nat /\ N <= N + 1 /\ N <= N
    BY <1>1
  <1>6. g[N] = h[N]
    BY <1>1, <1>2, <1>4, <1>5, KeepsSame
  <1>7. N + 1 \in 1 .. N + 1 /\ (N + 1) - 1 = N
    BY <1>1
  <1>8. h[N + 1] = IF r[N + 1] \in S THEN Append(h[N], r[N + 1]) ELSE h[N]
    BY <1>4, <1>7 DEF Keeps
  <1>9. Keeping(r, S) = IF e \in S THEN Append(Keeping(q, S), e) ELSE Keeping(q, S)
    BY <1>1, <1>2, <1>4, <1>6, <1>8
  <1> QED
    BY <1>9 DEF r

\* Sequences grow one element at a time.
LEMMA Growth ==
    ASSUME NEW E, NEW q \in Seq(E)
    PROVE  /\ SubSeq(q, 1, 0) = <<>> /\ SubSeq(q, 1, Len(q)) = q
           /\ \A n \in 1 .. Len(q) : /\ SubSeq(q, 1, n - 1) \in Seq(E) /\ q[n] \in E
                                     /\ SubSeq(q, 1, n) = Append(SubSeq(q, 1, n - 1), q[n])
  <1>1. SubSeq(q, 1, 0) = <<>> /\ SubSeq(q, 1, Len(q)) = q
    BY SubSeqEmpty, SubSeqFull
  <1>2. ASSUME NEW n \in 1 .. Len(q)
        PROVE  /\ SubSeq(q, 1, n - 1) \in Seq(E) /\ q[n] \in E
               /\ SubSeq(q, 1, n) = Append(SubSeq(q, 1, n - 1), q[n])
    <2>1. q[n] \in E /\ 1 \in 1 .. Len(q) /\ n \in 1 .. Len(q) /\ n - 1 \in Int /\ 1 \in Int
      OBVIOUS
    <2>2. \A i \in 1 .. n - 1 : q[i] \in E
      OBVIOUS
    <2>3. SubSeq(q, 1, n - 1) \in Seq(E)
      BY <2>1, <2>2, SubSeqProperties
    <2>4. SubSeq(q, 1, n) = SubSeq(q, 1, n - 1) \o <<q[n]>>
      BY <2>1, SubSeqRecursiveSecond
    <2>5. Append(SubSeq(q, 1, n - 1), q[n]) = SubSeq(q, 1, n - 1) \o <<q[n]>>
      BY <2>1, <2>3, AppendIsConcat
    <2> QED
      BY <2>1, <2>3, <2>4, <2>5
  <1> QED
    BY <1>1, <1>2

LEMMA KeepingConcat ==
    ASSUME NEW S, NEW E, NEW p \in Seq(E), NEW q \in Seq(E)
    PROVE  Keeping(p \o q, S) = Keeping(p, S) \o Keeping(q, S)
  <1> DEFINE Q(n) == SubSeq(q, 1, n)
             T == {n \in 0 .. Len(q) : Keeping(p \o Q(n), S) = Keeping(p, S) \o Keeping(Q(n), S)}
  <1>0. Len(q) \in Nat /\ Keeping(p, S) \in Seq(E \cap S)
    BY KeepingType
  <1>1. 0 \in T
    <2>1. p \o <<>> = p /\ Keeping(p, S) \o <<>> = Keeping(p, S)
      BY <1>0, ConcatEmptySeq
    <2>2. Q(0) = <<>> /\ Keeping(<<>>, S) = <<>>
      BY KeepingEmpty, Growth
    <2>3. Keeping(p \o Q(0), S) = Keeping(p, S) \o Keeping(Q(0), S)
      BY <2>1, <2>2
    <2> QED
      BY <1>0, <2>3
  <1>2. ASSUME NEW n \in 1 .. Len(q), n - 1 \in T PROVE n \in T
    <2>1. /\ Q(n - 1) \in Seq(E) /\ q[n] \in E /\ Q(n) = Append(Q(n - 1), q[n])
          /\ Keeping(p \o Q(n - 1), S) = Keeping(p, S) \o Keeping(Q(n - 1), S)
          /\ n \in 0 .. Len(q)
      BY <1>2, Growth
    <2> DEFINE r == Q(n - 1)
               e == q[n]
               k == Keeping(p, S)
               l == Keeping(r, S)
    <2>2. Q(n) = Append(r, e) /\ r \in Seq(E) /\ e \in E /\ Keeping(p \o r, S) = k \o l
      BY <2>1
    <2>3. p \o r \in Seq(E) /\ l \in Seq(E \cap S) /\ k \in Seq(E \cap S)
      BY <1>0, <2>2, ConcatProperties, KeepingType
    <2> HIDE DEF Q, r, e, k, l
    <2>4. p \o Append(r, e) = Append(p \o r, e)
      BY <2>2, ConcatAppend
    <2>5. Keeping(Append(p \o r, e), S) = IF e \in S THEN Append(k \o l, e) ELSE k \o l
      BY <2>2, <2>3, KeepingAppend
    <2>6. Keeping(Append(r, e), S) = IF e \in S THEN Append(l, e) ELSE l
      BY <2>2, KeepingAppend DEF l
    <2>7. e \in S => Append(k \o l, e) = k \o Append(l, e)
      <3> SUFFICES ASSUME e \in S PROVE Append(k \o l, e) = k \o Append(l, e)
        OBVIOUS
      <3>1. k \in Seq(E) /\ l \in Seq(E) /\ e \in E
        <4>1. E \cap S \subseteq E
          OBVIOUS
        <4> QED
          BY <2>2, <2>3, <4>1, SeqMonotonic
      <3>2. k \o Append(l, e) = Append(k \o l, e)
        BY <3>1, ConcatAppend
      <3> QED
        BY <3>2
    <2>8. Keeping(p \o Q(n), S) = k \o Keeping(Q(n), S)
      BY <2>2, <2>4, <2>5, <2>6, <2>7
    <2> QED
      BY <2>1, <2>8 DEF k
  <1> HIDE DEF T
  <1>3. \A n \in 0 .. Len(q) : n \in T
    BY <1>0, <1>1, <1>2, Induction
  <1>4. Len(q) \in T
    BY <1>0, <1>3
  <1> QED
    BY <1>4, Growth DEF T

-----------------------------------------------------------------------------
(***************************************************************************)
(* FlattenSeq, the same way: the pieces of the archive put together.       *)
(***************************************************************************)
Flats(g, q, N) ==
    /\ g = [n \in 1 .. N |-> g[n]]
    /\ \A n \in 1 .. N : g[n] = IF n = 1 THEN q[n] ELSE g[n - 1] \o q[n]

LEMMA FlatsExists == \A q : \A N \in Nat : \E g : Flats(g, q, N)
  <1> SUFFICES ASSUME NEW q, NEW N \in Nat PROVE \E g : Flats(g, q, N)
    OBVIOUS
  <1> DEFINE T == {n \in Nat : \E g : Flats(g, q, n)}
  <1>1. 0 \in T
    <2>1. Flats([n \in 1 .. 0 |-> <<>>], q, 0)
      BY DEF Flats
    <2> QED
      BY <2>1
  <1>2. ASSUME NEW n \in 1 .. N, n - 1 \in T PROVE n \in T
    <2>1. PICK g : Flats(g, q, n - 1)
      BY <1>2
    <2> DEFINE h == [k \in 1 .. n |-> IF k < n THEN g[k]
                                      ELSE IF n = 1 THEN q[n] ELSE g[n - 1] \o q[n]]
    <2>2. \A k \in 1 .. n - 1 : h[k] = g[k]
      OBVIOUS
    <2>3. h[n] = IF n = 1 THEN q[n] ELSE h[n - 1] \o q[n]
      <3>1. n # 1 => n - 1 \in 1 .. n - 1
        OBVIOUS
      <3> QED
        BY <2>2, <3>1
    <2>4. h = [k \in 1 .. n |-> h[k]]
      OBVIOUS
    <2> HIDE DEF h
    <2>5. \A k \in 1 .. n : h[k] = IF k = 1 THEN q[k] ELSE h[k - 1] \o q[k]
      <3> SUFFICES ASSUME NEW k \in 1 .. n
                   PROVE  h[k] = IF k = 1 THEN q[k] ELSE h[k - 1] \o q[k]
        OBVIOUS
      <3>1. CASE k = n
        BY <2>3, <3>1
      <3>2. CASE k # n
        <4>1. k \in 1 .. n - 1 /\ (k # 1 => k - 1 \in 1 .. n - 1)
          BY <3>2
        <4>2. g[k] = IF k = 1 THEN q[k] ELSE g[k - 1] \o q[k]
          BY <2>1, <4>1 DEF Flats
        <4> QED
          BY <2>2, <4>1, <4>2
      <3> QED
        BY <3>1, <3>2
    <2>6. Flats(h, q, n)
      BY <2>4, <2>5 DEF Flats
    <2> QED
      BY <2>6
  <1>3. N \in 0 .. N
    OBVIOUS
  <1> HIDE DEF T
  <1>4. N \in T
    BY <1>1, <1>2, <1>3, Induction
  <1> QED
    BY <1>4 DEF T

LEMMA FlattenFcn ==
    ASSUME NEW E, NEW q \in Seq(E), Len(q) # 0
    PROVE  \E g : Flats(g, q, Len(q)) /\ FlattenSeq(q) = g[Len(q)]
  <1> DEFINE Body(g) == [i \in 1 .. Len(q) |-> IF i = 1 THEN q[i] ELSE g[i - 1] \o q[i]]
             flat == CHOOSE g : g = Body(g)
  <1>1. Len(q) \in Nat
    OBVIOUS
  <1>2. PICK g : Flats(g, q, Len(q))
    BY <1>1, FlatsExists
  <1>3. ASSUME NEW f, f = Body(f) PROVE Flats(f, q, Len(q))
    <2>1. \A n \in 1 .. Len(q) : Body(f)[n] = IF n = 1 THEN q[n] ELSE f[n - 1] \o q[n]
      OBVIOUS
    <2>2. Body(f) = [n \in 1 .. Len(q) |-> Body(f)[n]]
      OBVIOUS
    <2> HIDE DEF Body
    <2>3. f = [n \in 1 .. Len(q) |-> f[n]]
      BY <1>3, <2>2
    <2>4. \A n \in 1 .. Len(q) : f[n] = IF n = 1 THEN q[n] ELSE f[n - 1] \o q[n]
      BY <1>3, <2>1
    <2> QED
      BY <2>3, <2>4 DEF Flats
  <1>4. g = Body(g)
    <2>1. \A n \in 1 .. Len(q) : Body(g)[n] = IF n = 1 THEN q[n] ELSE g[n - 1] \o q[n]
      OBVIOUS
    <2>2. Body(g) = [n \in 1 .. Len(q) |-> Body(g)[n]]
      OBVIOUS
    <2> HIDE DEF Body
    <2>3. \A n \in 1 .. Len(q) : Body(g)[n] = g[n]
      BY <1>2, <2>1, Zenon DEF Flats
    <2>4. g = [n \in 1 .. Len(q) |-> g[n]]
      BY <1>2 DEF Flats
    <2>5. [n \in 1 .. Len(q) |-> Body(g)[n]] = [n \in 1 .. Len(q) |-> g[n]]
      BY <2>3, Zenon
    <2> QED
      BY <2>2, <2>4, <2>5, Zenon
  <1>5. flat = Body(flat)
    <2> HIDE DEF Body
    <2> QED
      BY <1>4
  <1>6. Flats(flat, q, Len(q))
    BY <1>3, <1>5
  <1>7. FlattenSeq(q) = flat[Len(q)]
    BY DEF FlattenSeq
  <1> QED
    BY <1>6, <1>7

LEMMA FlattenEmpty == FlattenSeq(<<>>) = <<>>
  BY DEF FlattenSeq

LEMMA FlatsSame ==
    ASSUME NEW p, NEW q, NEW M \in Nat, NEW N \in Nat, NEW g, NEW h,
           Flats(g, p, M), Flats(h, q, N), NEW n \in Nat, n >= 1, n <= M, n <= N,
           \A i \in 1 .. n : p[i] = q[i]
    PROVE  g[n] = h[n]
  <1> DEFINE T == {k \in 0 .. n : k = 0 \/ g[k] = h[k]}
  <1>1. 0 \in T
    OBVIOUS
  <1>2. ASSUME NEW k \in 1 .. n, k - 1 \in T PROVE k \in T
    <2>1. /\ k \in 1 .. M /\ k \in 1 .. N /\ k \in 0 .. n /\ p[k] = q[k]
          /\ k # 1 => g[k - 1] = h[k - 1]
      BY <1>2
    <2>2. /\ g[k] = IF k = 1 THEN p[k] ELSE g[k - 1] \o p[k]
          /\ h[k] = IF k = 1 THEN q[k] ELSE h[k - 1] \o q[k]
      BY <2>1, Zenon DEF Flats
    <2>3. g[k] = h[k]
      BY <2>1, <2>2
    <2> QED
      BY <2>1, <2>3
  <1> HIDE DEF T
  <1>3. \A k \in 0 .. n : k \in T
    BY <1>1, <1>2, Induction
  <1>4. n \in 0 .. n /\ n # 0
    OBVIOUS
  <1> QED
    BY <1>3, <1>4 DEF T

LEMMA FlattenAppend ==
    ASSUME NEW E, NEW q \in Seq(Seq(E)), NEW x \in Seq(E)
    PROVE  FlattenSeq(Append(q, x)) = FlattenSeq(q) \o x
  <1> DEFINE r == Append(q, x)
             N == Len(q)
  <1>1. /\ r \in Seq(Seq(E)) /\ Len(r) = N + 1 /\ N \in Nat /\ r[N + 1] = x
        /\ \A i \in 1 .. N : q[i] = r[i]
    BY AppendProperties
  <1> HIDE DEF r, N
  <1>2. PICK h : Flats(h, r, Len(r)) /\ FlattenSeq(r) = h[Len(r)]
    <2>1. Len(r) # 0
      BY <1>1
    <2> QED
      BY <1>1, <2>1, FlattenFcn
  <1>3. N + 1 \in 1 .. N + 1 /\ (N + 1) - 1 = N /\ N + 1 \in Nat
    BY <1>1
  <1>4. h[N + 1] = IF N + 1 = 1 THEN x ELSE h[N] \o x
    BY <1>1, <1>2, <1>3 DEF Flats
  <1>5. CASE N = 0
    <2>1. q = <<>> /\ FlattenSeq(q) = <<>>
      BY <1>5, FlattenEmpty, EmptySeq DEF N
    <2>2. h[N + 1] = x
      BY <1>4, <1>5
    <2>3. <<>> \o x = x
      BY ConcatEmptySeq
    <2>4. FlattenSeq(r) = FlattenSeq(q) \o x
      BY <1>1, <1>2, <2>1, <2>2, <2>3
    <2> QED
      BY <2>4 DEF r
  <1>6. CASE N # 0
    <2>1. PICK g : Flats(g, q, N) /\ FlattenSeq(q) = g[N]
      BY <1>6, FlattenFcn DEF N
    <2>2. N >= 1 /\ N <= N /\ N <= N + 1 /\ N + 1 # 1
      BY <1>1, <1>6
    <2>3. Flats(h, r, N + 1)
      BY <1>1, <1>2
    <2>4. g[N] = h[N]
      <3>1. /\ N \in Nat /\ N + 1 \in Nat /\ N >= 1 /\ N <= N /\ N <= N + 1
            /\ Flats(g, q, N) /\ Flats(h, r, N + 1)
            /\ \A i \in 1 .. N : q[i] = r[i]
        BY <1>1, <1>3, <2>1, <2>2, <2>3
      <3> QED
        BY <3>1, FlatsSame
    <2>5. FlattenSeq(r) = FlattenSeq(q) \o x
      BY <1>1, <1>2, <1>4, <2>1, <2>2, <2>4
    <2> QED
      BY <2>5 DEF r
  <1> QED
    BY <1>5, <1>6

-----------------------------------------------------------------------------
(***************************************************************************)
(* Beginnings and ends of sequences.                                       *)
(***************************************************************************)
LEMMA Taking ==
    ASSUME NEW E, NEW q \in Seq(E), NEW k \in Nat
    PROVE  /\ Take(q, k) \in Seq(E)
           /\ Len(Take(q, k)) = IF k <= Len(q) THEN k ELSE Len(q)
           /\ \A i \in 1 .. Len(Take(q, k)) : Take(q, k)[i] = q[i]
  <1> DEFINE n == IF k <= Len(q) THEN k ELSE Len(q)
  <1>1. n \in Int /\ 1 \in Int /\ n >= 0 /\ n <= Len(q) /\ Len(q) \in Nat
    OBVIOUS
  <1> HIDE DEF n
  <1>2. \A i \in 1 .. n : q[i] \in E
    BY <1>1
  <1>3. /\ SubSeq(q, 1, n) \in Seq(E) /\ Len(SubSeq(q, 1, n)) = IF 1 <= n THEN n - 1 + 1 ELSE 0
        /\ \A i \in 1 .. n - 1 + 1 : SubSeq(q, 1, n)[i] = q[1 + i - 1]
    BY <1>1, <1>2, SubSeqProperties
  <1>4. Take(q, k) = SubSeq(q, 1, n)
    BY DEF Take, n
  <1>5. n - 1 + 1 = n /\ (IF 1 <= n THEN n - 1 + 1 ELSE 0) = n /\ \A i \in 1 .. n : 1 + i - 1 = i
    BY <1>1
  <1>6. Len(Take(q, k)) = n /\ \A i \in 1 .. n : Take(q, k)[i] = q[i]
    BY <1>3, <1>4, <1>5
  <1> QED
    BY <1>3, <1>4, <1>6 DEF n

LEMMA TakingAll ==
    ASSUME NEW E, NEW q \in Seq(E), NEW k \in Nat, k >= Len(q)
    PROVE  Take(q, k) = q
  <1>1. Len(Take(q, k)) = Len(q)
    BY Taking
  <1> QED
    BY <1>1, Taking, SeqEqual

LEMMA TakingNone == ASSUME NEW E, NEW q \in Seq(E) PROVE Take(q, 0) = <<>>
  BY SubSeqEmpty DEF Take

LEMMA Dropping ==
    ASSUME NEW E, NEW q \in Seq(E), NEW k \in 0 .. Len(q)
    PROVE  /\ Drop(q, k) \in Seq(E) /\ Len(Drop(q, k)) = Len(q) - k
           /\ \A i \in 1 .. Len(q) - k : Drop(q, k)[i] = q[k + i]
  <1>1. k + 1 \in Int /\ Len(q) \in Int /\ \A i \in k + 1 .. Len(q) : q[i] \in E
    OBVIOUS
  <1>2. /\ SubSeq(q, k + 1, Len(q)) \in Seq(E)
        /\ Len(SubSeq(q, k + 1, Len(q))) = IF k + 1 <= Len(q) THEN Len(q) - (k + 1) + 1 ELSE 0
        /\ \A i \in 1 .. Len(q) - (k + 1) + 1 : SubSeq(q, k + 1, Len(q))[i] = q[(k + 1) + i - 1]
    BY <1>1, SubSeqProperties
  <1>3. /\ Len(q) - (k + 1) + 1 = Len(q) - k
        /\ (IF k + 1 <= Len(q) THEN Len(q) - (k + 1) + 1 ELSE 0) = Len(q) - k
        /\ \A i \in 1 .. Len(q) - k : (k + 1) + i - 1 = k + i
    OBVIOUS
  <1>4. Len(Drop(q, k)) = Len(q) - k /\ \A i \in 1 .. Len(q) - k : Drop(q, k)[i] = q[k + i]
    BY <1>2, <1>3 DEF Drop
  <1> QED
    BY <1>2, <1>4 DEF Drop

LEMMA TakeDrop ==
    ASSUME NEW E, NEW q \in Seq(E), NEW k \in 0 .. Len(q)
    PROVE  Take(q, k) \o Drop(q, k) = q
  <1> DEFINE a == Take(q, k)
             b == Drop(q, k)
  <1>1. k \in Nat /\ k <= Len(q) /\ Len(q) \in Nat
    OBVIOUS
  <1>2. a \in Seq(E) /\ Len(a) = k /\ \A i \in 1 .. k : a[i] = q[i]
    BY <1>1, Taking
  <1>3. b \in Seq(E) /\ Len(b) = Len(q) - k /\ \A i \in 1 .. Len(q) - k : b[i] = q[k + i]
    BY Dropping
  <1> HIDE DEF a, b
  <1>4. /\ a \o b \in Seq(E) /\ Len(a \o b) = Len(q)
        /\ \A i \in 1 .. Len(q) : (a \o b)[i] = IF i <= k THEN a[i] ELSE b[i - k]
    BY <1>1, <1>2, <1>3, ConcatProperties
  <1>5. ASSUME NEW i \in 1 .. Len(a \o b) PROVE (a \o b)[i] = q[i]
    <2>1. CASE i <= k
      BY <1>1, <1>2, <1>4, <2>1
    <2>2. CASE i > k
      <3>1. i - k \in 1 .. Len(q) - k /\ k + (i - k) = i
        BY <1>1, <1>4, <2>2
      <3>2. b[i - k] = q[k + (i - k)]
        BY <1>3, <3>1
      <3> QED
        BY <1>4, <2>2, <3>1, <3>2
    <2> QED
      BY <1>1, <2>1, <2>2
  <1>6. a \o b = q
    BY <1>4, <1>5, SeqEqual
  <1> QED
    BY <1>6 DEF a, b

\* A longer beginning is a shorter one and what follows it.
LEMMA TakeMore ==
    ASSUME NEW E, NEW q \in Seq(E), NEW k \in Nat, NEW b \in Seq(E), k + Len(b) <= Len(q),
           \A i \in 1 .. Len(b) : b[i] = q[k + i]
    PROVE  Take(q, k) \o b = Take(q, k + Len(b))
  <1> DEFINE a == Take(q, k)
             c == Take(q, k + Len(b))
             n == k + Len(b)
  <1>1. Len(b) \in Nat /\ Len(q) \in Nat /\ k <= Len(q) /\ n \in Nat /\ n <= Len(q)
    OBVIOUS
  <1>2. a \in Seq(E) /\ Len(a) = k /\ \A i \in 1 .. k : a[i] = q[i]
    BY <1>1, Taking
  <1>3. c \in Seq(E) /\ Len(c) = n /\ \A i \in 1 .. n : c[i] = q[i]
    BY <1>1, Taking
  <1> HIDE DEF a, c
  <1>4. /\ a \o b \in Seq(E) /\ Len(a \o b) = n
        /\ \A i \in 1 .. n : (a \o b)[i] = IF i <= k THEN a[i] ELSE b[i - k]
    BY <1>1, <1>2, ConcatProperties
  <1>5. ASSUME NEW i \in 1 .. Len(a \o b) PROVE (a \o b)[i] = c[i]
    <2>1. CASE i <= k
      BY <1>1, <1>2, <1>3, <1>4, <2>1
    <2>2. CASE i > k
      <3>1. i - k \in 1 .. Len(b) /\ k + (i - k) = i
        BY <1>1, <1>4, <2>2
      <3>2. b[i - k] = q[k + (i - k)]
        BY <3>1
      <3> QED
        BY <1>3, <1>4, <2>2, <3>1, <3>2
    <2> QED
      BY <1>1, <2>1, <2>2
  <1>6. a \o b = c
    BY <1>3, <1>4, <1>5, SeqEqual
  <1> QED
    BY <1>6 DEF a, c

LEMMA TakePrefix ==
    ASSUME NEW E, NEW p \in Seq(E), NEW q \in Seq(E), Begins(p, q), NEW k \in Nat, k <= Len(p)
    PROVE  Take(p, k) = Take(q, k)
  <1>1. k <= Len(q) /\ Len(p) \in Nat /\ Len(q) \in Nat /\ \A i \in 1 .. Len(p) : p[i] = q[i]
    BY DEF Begins
  <1>2. /\ Take(p, k) \in Seq(E) /\ Len(Take(p, k)) = k /\ \A i \in 1 .. k : Take(p, k)[i] = p[i]
        /\ Take(q, k) \in Seq(E) /\ Len(Take(q, k)) = k /\ \A i \in 1 .. k : Take(q, k)[i] = q[i]
    BY <1>1, Taking
  <1>3. \A i \in 1 .. k : Take(p, k)[i] = Take(q, k)[i]
    BY <1>1, <1>2
  <1> QED
    BY <1>2, <1>3, SeqEqual

LEMMA BeginsConcat ==
    ASSUME NEW E, NEW p \in Seq(E), NEW q \in Seq(E)
    PROVE  Begins(p, p \o q)
  <1>1. /\ Len(p \o q) = Len(p) + Len(q) /\ Len(p) \in Nat /\ Len(q) \in Nat
        /\ \A i \in 1 .. Len(p) + Len(q) : (p \o q)[i] = IF i <= Len(p) THEN p[i] ELSE q[i - Len(p)]
    BY ConcatProperties
  <1> QED
    BY <1>1 DEF Begins

LEMMA BeginsRest ==
    ASSUME NEW E, NEW p \in Seq(E), NEW q \in Seq(E), Begins(p, q)
    PROVE  q = p \o Drop(q, Len(p)) /\ Drop(q, Len(p)) \in Seq(E)
  <1>1. Len(p) \in 0 .. Len(q) /\ Len(p) \in Nat /\ Len(p) <= Len(p) /\ Len(p) >= Len(p)
    BY DEF Begins
  <1>2. Take(p, Len(p)) = Take(q, Len(p))
    BY <1>1, TakePrefix
  <1>3. Take(p, Len(p)) = p
    BY <1>1, TakingAll
  <1>4. Take(q, Len(p)) \o Drop(q, Len(p)) = q
    BY <1>1, TakeDrop
  <1>5. Drop(q, Len(p)) \in Seq(E)
    BY <1>1, Dropping
  <1> QED
    BY <1>2, <1>3, <1>4, <1>5

-----------------------------------------------------------------------------
(***************************************************************************)
(* Decoding, joining fragments and counting lines.                         *)
(***************************************************************************)
LEMMA DecodedType ==
    ASSUME NEW s, NEW q \in Seq(Bytes)
    PROVE  Decoded(s, q) \in Seq(Bytes)
  <1>1. Keeping(q, Bytes \ {"e"}) \in Seq(Bytes \cap (Bytes \ {"e"}))
    BY KeepingType
  <1>2. Bytes \cap (Bytes \ {"e"}) \subseteq Bytes
    OBVIOUS
  <1>3. Keeping(q, Bytes \ {"e"}) \in Seq(Bytes)
    BY <1>1, <1>2, SeqMonotonic
  <1> QED
    BY <1>3 DEF Decoded, Plain

LEMMA DecodedEmpty == ASSUME NEW s PROVE Decoded(s, <<>>) = <<>>
  BY KeepingEmpty DEF Decoded, Plain

LEMMA DecodedConcat ==
    ASSUME NEW s, NEW p \in Seq(Bytes), NEW q \in Seq(Bytes)
    PROVE  Decoded(s, p \o q) = Decoded(s, p) \o Decoded(s, q)
  <1>1. Keeping(p \o q, Bytes \ {"e"}) = Keeping(p, Bytes \ {"e"}) \o Keeping(q, Bytes \ {"e"})
    BY KeepingConcat
  <1> QED
    BY <1>1 DEF Decoded, Plain

LEMMA DecodedBegins ==
    ASSUME NEW s, NEW p \in Seq(Bytes), NEW q \in Seq(Bytes), Begins(p, q)
    PROVE  Begins(Decoded(s, p), Decoded(s, q))
  <1> DEFINE r == Drop(q, Len(p))
  <1>1. q = p \o r /\ r \in Seq(Bytes)
    BY BeginsRest
  <1> HIDE DEF r
  <1>2. Decoded(s, q) = Decoded(s, p) \o Decoded(s, r)
    BY <1>1, DecodedConcat
  <1>3. Decoded(s, p) \in Seq(Bytes) /\ Decoded(s, r) \in Seq(Bytes)
    BY <1>1, DecodedType
  <1>4. Begins(Decoded(s, p), Decoded(s, p) \o Decoded(s, r))
    BY <1>3, BeginsConcat
  <1> QED
    BY <1>2, <1>4

LEMMA PieceType == ASSUME NEW f \in Fragments PROVE Piece(f) \in Seq(Bytes)
  <1>1. f.text \in Seq(Bytes) /\ <<"n">> \in Seq(Bytes) /\ <<>> \in Seq(Bytes)
    BY DEF Fragments, Bytes
  <1>2. f.text \o <<"n">> \in Seq(Bytes) /\ f.text \o <<>> \in Seq(Bytes)
    BY <1>1, ConcatProperties
  <1> QED
    BY <1>2 DEF Piece

LEMMA JoinedEmpty == Joined(<<>>) = <<>>
  <1>1. [i \in DOMAIN <<>> |-> Piece(<<>>[i])] = <<>>
    OBVIOUS
  <1> QED
    BY <1>1, FlattenEmpty DEF Joined

LEMMA JoinedAppend ==
    ASSUME NEW q \in Seq(Fragments), NEW f \in Fragments
    PROVE  Joined(Append(q, f)) = Joined(q) \o Piece(f)
  <1> DEFINE r == Append(q, f)
             a == [i \in DOMAIN q |-> Piece(q[i])]
             b == [i \in DOMAIN r |-> Piece(r[i])]
  <1>1. /\ r \in Seq(Fragments) /\ Len(r) = Len(q) + 1 /\ Len(q) \in Nat
        /\ DOMAIN r = 1 .. Len(q) + 1 /\ DOMAIN q = 1 .. Len(q)
        /\ r[Len(q) + 1] = f /\ \A i \in 1 .. Len(q) : r[i] = q[i] /\ q[i] \in Fragments
    BY AppendProperties, LenProperties
  <1> HIDE DEF r
  <1>2. a \in Seq(Seq(Bytes)) /\ Len(a) = Len(q)
    <2>1. \A i \in 1 .. Len(q) : Piece(q[i]) \in Seq(Bytes)
      BY <1>1, PieceType
    <2> QED
      BY <1>1, <2>1
  <1>3. Piece(f) \in Seq(Bytes)
    BY PieceType
  <1>4. b = Append(a, Piece(f))
    <2> DEFINE c == Append(a, Piece(f))
    <2>1. /\ c \in Seq(Seq(Bytes)) /\ Len(c) = Len(q) + 1 /\ c[Len(q) + 1] = Piece(f)
          /\ \A i \in 1 .. Len(q) : c[i] = a[i]
      BY <1>2, <1>3, AppendProperties
    <2>2. \A i \in 1 .. Len(q) + 1 : Piece(r[i]) \in Seq(Bytes)
      BY <1>1, PieceType
    <2>3. b \in Seq(Seq(Bytes)) /\ Len(b) = Len(q) + 1
      BY <1>1, <2>2
    <2>4. \A i \in 1 .. Len(q) : a[i] = Piece(q[i]) /\ b[i] = Piece(q[i])
      BY <1>1
    <2>5. b[Len(q) + 1] = Piece(f)
      BY <1>1
    <2> HIDE DEF a, b, c
    <2>6. \A i \in 1 .. Len(b) : b[i] = c[i]
      <3> SUFFICES ASSUME NEW i \in 1 .. Len(b) PROVE b[i] = c[i]
        OBVIOUS
      <3>1. i \in 1 .. Len(q) \/ i = Len(q) + 1
        BY <1>1, <2>3
      <3> QED
        BY <2>1, <2>4, <2>5, <3>1
    <2>7. b = c
      BY <2>1, <2>3, <2>6, SeqEqual
    <2> QED
      BY <2>7 DEF c
  <1> HIDE DEF a, b
  <1>5. FlattenSeq(Append(a, Piece(f))) = FlattenSeq(a) \o Piece(f)
    BY <1>2, <1>3, FlattenAppend
  <1> QED
    BY <1>4, <1>5 DEF Joined, a, b, r

LEMMA JoinedTaken ==
    ASSUME NEW p \in Seq(Fragments), NEW q \in Seq(Fragments), NEW f \in Fragments
    PROVE  /\ p \o (q \o <<f>>) = Append(p \o q, f) /\ p \o q \in Seq(Fragments)
           /\ q \o <<f>> \in Seq(Fragments)
           /\ Joined(p \o (q \o <<f>>)) = Joined(p \o q) \o Piece(f)
  <1>1. p \o q \in Seq(Fragments) /\ <<f>> \in Seq(Fragments)
    BY ConcatProperties
  <1>2. q \o <<f>> \in Seq(Fragments)
    BY <1>1, ConcatProperties
  <1>3. p \o (q \o <<f>>) = (p \o q) \o <<f>>
    BY <1>1, ConcatAssociative
  <1>4. Append(p \o q, f) = (p \o q) \o <<f>>
    BY <1>1, AppendIsConcat
  <1>5. Joined(Append(p \o q, f)) = Joined(p \o q) \o Piece(f)
    BY <1>1, JoinedAppend
  <1> QED
    BY <1>1, <1>2, <1>3, <1>4, <1>5

LEMMA NewlinesType == ASSUME NEW q \in Seq(Bytes) PROVE Newlines(q) \in Nat
  <1>1. IsFiniteSet(DOMAIN q)
    BY LenProperties, FS_Interval
  <1>2. IsFiniteSet({i \in DOMAIN q : q[i] = "n"})
    BY <1>1, FS_Subset
  <1> QED
    BY <1>2, FS_CardinalityType DEF Newlines

LEMMA NewlinesNone ==
    ASSUME NEW q \in Seq(Bytes), \A i \in 1 .. Len(q) : q[i] # "n"
    PROVE  Newlines(q) = 0
  <1>1. {i \in DOMAIN q : q[i] = "n"} = {}
    BY LenProperties
  <1> QED
    BY <1>1, FS_EmptySet DEF Newlines

LEMMA NewlinesAppend ==
    ASSUME NEW q \in Seq(Bytes), NEW x \in Bytes
    PROVE  Newlines(Append(q, x)) = Newlines(q) + Bit(x = "n")
  <1> DEFINE r == Append(q, x)
             N == Len(q) + 1
             A == {i \in DOMAIN q : q[i] = "n"}
             B == {i \in DOMAIN r : r[i] = "n"}
  <1>1. /\ r \in Seq(Bytes) /\ Len(r) = N /\ Len(q) \in Nat /\ r[N] = x
        /\ DOMAIN r = 1 .. N /\ DOMAIN q = 1 .. Len(q) /\ \A i \in 1 .. Len(q) : r[i] = q[i]
    BY AppendProperties, LenProperties
  <1>2. IsFiniteSet(A) /\ N \notin A
    <2>1. IsFiniteSet(DOMAIN q)
      BY <1>1, FS_Interval
    <2> QED
      BY <1>1, <2>1, FS_Subset
  <1>3. B = IF x = "n" THEN A \cup {N} ELSE A
    BY <1>1
  <1>4. Cardinality(A \cup {N}) = Cardinality(A) + 1 /\ Cardinality(A) \in Nat
    BY <1>2, FS_AddElement, FS_CardinalityType
  <1> HIDE DEF A, B, r
  <1>5. Cardinality(B) = Cardinality(A) + Bit(x = "n")
    BY <1>3, <1>4 DEF Bit
  <1> QED
    BY <1>5 DEF Newlines, A, B, r

LEMMA NewlinesConcat ==
    ASSUME NEW p \in Seq(Bytes), NEW q \in Seq(Bytes)
    PROVE  Newlines(p \o q) = Newlines(p) + Newlines(q)
  <1> DEFINE Q(n) == SubSeq(q, 1, n)
             T == {n \in 0 .. Len(q) : Newlines(p \o Q(n)) = Newlines(p) + Newlines(Q(n))}
  <1>0. Len(q) \in Nat /\ Newlines(p) \in Nat
    BY NewlinesType
  <1>1. 0 \in T
    <2>1. Q(0) = <<>> /\ p \o <<>> = p
      BY ConcatEmptySeq, Growth
    <2>2. Newlines(<<>>) = 0
      <3>1. <<>> \in Seq(Bytes) /\ \A i \in 1 .. Len(<<>>) : <<>>[i] # "n"
        OBVIOUS
      <3> QED
        BY <3>1, NewlinesNone
    <2>4. Newlines(Q(0)) = 0
      BY <2>1, <2>2, Zenon
    <2>5. p \o Q(0) = p
      BY <2>1, Zenon
    <2> HIDE DEF Q
    <2>6. Newlines(p \o Q(0)) = Newlines(p)
      BY <2>5, Zenon
    <2>3. Newlines(p \o Q(0)) = Newlines(p) + Newlines(Q(0))
      BY <1>0, <2>4, <2>6
    <2> QED
      BY <1>0, <2>3
  <1>2. ASSUME NEW n \in 1 .. Len(q), n - 1 \in T PROVE n \in T
    <2> DEFINE r == Q(n - 1)
               e == q[n]
    <2>1. /\ r \in Seq(Bytes) /\ e \in Bytes /\ Q(n) = Append(r, e)
          /\ Newlines(p \o r) = Newlines(p) + Newlines(r) /\ n \in 0 .. Len(q)
      BY <1>2, Growth
    <2> HIDE DEF Q, r, e
    <2>2. p \o Append(r, e) = Append(p \o r, e) /\ p \o r \in Seq(Bytes)
      BY <2>1, ConcatAppend, ConcatProperties
    <2>3. Newlines(Append(p \o r, e)) = Newlines(p \o r) + Bit(e = "n")
      BY <2>1, <2>2, NewlinesAppend
    <2>4. Newlines(Append(r, e)) = Newlines(r) + Bit(e = "n")
      BY <2>1, NewlinesAppend
    <2>5. Newlines(r) \in Nat /\ Bit(e = "n") \in Nat
      BY <2>1, NewlinesType DEF Bit
    <2>6. Newlines(p \o Q(n)) = Newlines(p) + Newlines(Q(n))
      BY <1>0, <2>1, <2>2, <2>3, <2>4, <2>5
    <2> QED
      BY <2>1, <2>6
  <1> HIDE DEF T
  <1>3. \A n \in 0 .. Len(q) : n \in T
    BY <1>0, <1>1, <1>2, Induction
  <1>4. Len(q) \in T
    BY <1>0, <1>3
  <1> QED
    BY <1>4, Growth DEF T

-----------------------------------------------------------------------------
(***************************************************************************)
(* Cutting: no cut is beyond what there is, and shrinking a chunk to an    *)
(* entry comes to an end.                                                  *)
(***************************************************************************)
LEMMA SafeEndBound ==
    ASSUME NEW b \in Seq(Bytes), NEW end \in Nat
    PROVE  /\ SafeEnd(b, end) \in 0 .. Len(b)
           /\ end < Len(b) => SafeEnd(b, end) \in 0 .. end
  <1> DEFINE lead == {i \in 1 .. end : b[i] # "C"}
             top == CHOOSE i \in lead : \A k \in lead : k <= i
  <1>1. CASE end >= Len(b)
    <2>1. SafeEnd(b, end) = Len(b) /\ Len(b) \in Nat
      BY <1>1 DEF SafeEnd
    <2> QED
      BY <1>1, <2>1
  <1>2. CASE end < Len(b) /\ lead = {}
    <2>1. ~(end >= Len(b)) /\ Len(b) \in Nat
      BY <1>2
    <2>2. SafeEnd(b, end) = end
      BY <1>2, <2>1 DEF SafeEnd
    <2> QED
      BY <2>1, <2>2
  <1>3. CASE end < Len(b) /\ lead # {}
    <2>1. ~(end >= Len(b)) /\ Len(b) \in Nat
      BY <1>3
    <2>2. lead \in SUBSET (0 .. end)
      OBVIOUS
    <2>3. \E i \in lead : \A k \in lead : k <= i
      BY <1>3, <2>2, Greatest
    <2>4. top \in lead
      BY <2>3
    <2>5. SafeEnd(b, end) = IF top + Bit(b[top] = "L") > end THEN top - 1 ELSE end
      BY <1>3, <2>1 DEF SafeEnd
    <2>6. top \in 1 .. end
      BY <2>4
    <2> HIDE DEF lead, top
    <2>7. SafeEnd(b, end) = top - 1 \/ SafeEnd(b, end) = end
      BY <2>5
    <2> QED
      BY <2>1, <2>6, <2>7
  <1> QED
    BY <1>1, <1>2, <1>3

LEMMA EncodedType == ASSUME NEW b \in Seq(Bytes)
                     PROVE  Encoded(b) \in Nat /\ (Len(b) <= 1 => Encoded(b) <= 3)
  <1> DEFINE A == {i \in DOMAIN b : b[i] = "x"}
  <1>1. IsFiniteSet(DOMAIN b) /\ Len(b) \in Nat /\ DOMAIN b = 1 .. Len(b)
    BY LenProperties, FS_Interval
  <1>2. A \in SUBSET (1 .. Len(b)) /\ IsFiniteSet(1 .. Len(b))
    BY <1>1
  <1>3. Cardinality(1 .. Len(b)) = Len(b)
    <2>1. Cardinality(1 .. Len(b)) = IF 1 > Len(b) THEN 0 ELSE Len(b) - 1 + 1
      BY <1>1, FS_Interval
    <2> QED
      BY <1>1, <2>1
  <1> HIDE DEF A
  <1>4. IsFiniteSet(A) /\ Cardinality(A) <= Len(b)
    BY <1>2, <1>3, FS_Subset
  <1>5. Cardinality(A) \in Nat
    BY <1>4, FS_CardinalityType
  <1>6. Encoded(b) = Len(b) + 2 * Cardinality(A)
    BY DEF Encoded, A
  <1> QED
    BY <1>1, <1>4, <1>5, <1>6

SizeOf(t, n)  == Encoded(Take(t, n))
Shrunk(t, n)  == AtLeast1(SafeEnd(t, AtLeast1(Lesser(n - 1, (n * MaxEntry * 97) \div (SizeOf(t, n) * 100)))))
Fitted(g, t, N) ==
    /\ g = [n \in 0 .. N |-> g[n]]
    /\ \A n \in 0 .. N : g[n] = IF SizeOf(t, n) <= MaxEntry THEN n ELSE g[Shrunk(t, n)]

LEMMA Shrinks ==
    ASSUME NEW t \in Seq(Bytes), NEW n \in 0 .. Len(t), ~(SizeOf(t, n) <= MaxEntry)
    PROVE  Shrunk(t, n) \in 1 .. n - 1
  <1> DEFINE size == SizeOf(t, n)
             a == n * MaxEntry * 97
             b == size * 100
             share == a \div b
             goal == AtLeast1(Lesser(n - 1, share))
  <1>1. n \in Nat /\ Len(t) \in Nat /\ n <= Len(t) /\ MaxEntry \in Nat /\ MaxEntry >= 3
    BY StreamAssumption
  <1>2. Take(t, n) \in Seq(Bytes) /\ Len(Take(t, n)) = n
    BY <1>1, Taking
  <1>3. size \in Nat /\ (n <= 1 => size <= 3)
    BY <1>2, EncodedType DEF SizeOf
  <1>4. n >= 2 /\ size > 3
    BY <1>1, <1>3
  <1> HIDE DEF size
  <1>5. a \in Int /\ b \in Int /\ b > 0
    <2>1. n * MaxEntry \in Int
      BY <1>1
    <2> QED
      BY <1>3, <1>4, <2>1
  <1> HIDE DEF a, b
  <1>6. share \in Int
    BY <1>5
  <1> HIDE DEF share
  <1>7. goal \in 1 .. n - 1
    BY <1>1, <1>4, <1>6 DEF AtLeast1, Lesser
  <1> HIDE DEF goal
  <1>8. goal \in Nat /\ goal < Len(t)
    BY <1>1, <1>7
  <1>9. SafeEnd(t, goal) \in 0 .. goal
    BY <1>8, SafeEndBound
  <1>10. AtLeast1(SafeEnd(t, goal)) \in 1 .. n - 1
    BY <1>1, <1>4, <1>7, <1>9 DEF AtLeast1
  <1> QED
    BY <1>10 DEF Shrunk, goal, share, a, b, size

LEMMA FittedExists ==
    ASSUME NEW t \in Seq(Bytes)
    PROVE  \E g : Fitted(g, t, Len(t))
  <1> DEFINE T == {n \in 0 .. Len(t) : \E g : Fitted(g, t, n)}
  <1>0. Len(t) \in Nat
    OBVIOUS
  <1>1. 0 \in T
    <2> DEFINE g == [k \in 0 .. 0 |-> 0]
    <2>1. SizeOf(t, 0) <= MaxEntry
      <3>1. 0 \in 0 .. Len(t)
        BY <1>0
      <3>2. ~(\E x \in 1 .. 0 - 1 : TRUE)
        OBVIOUS
      <3> QED
        BY <3>1, <3>2, Shrinks
    <2>2. g[0] = 0 /\ \A n \in 0 .. 0 : n = 0
      OBVIOUS
    <2>3. g = [n \in 0 .. 0 |-> g[n]]
      OBVIOUS
    <2> HIDE DEF g
    <2>4. Fitted(g, t, 0)
      BY <2>1, <2>2, <2>3 DEF Fitted
    <2> QED
      BY <1>0, <2>4
  <1>2. ASSUME NEW n \in 1 .. Len(t), n - 1 \in T PROVE n \in T
    <2>1. PICK g : Fitted(g, t, n - 1)
      BY <1>2
    <2> DEFINE v == IF SizeOf(t, n) <= MaxEntry THEN n ELSE g[Shrunk(t, n)]
               h == [k \in 0 .. n |-> IF k < n THEN g[k] ELSE v]
    <2>2. (\A k \in 0 .. n - 1 : h[k] = g[k]) /\ h[n] = v
      OBVIOUS
    <2>3. h = [k \in 0 .. n |-> h[k]]
      OBVIOUS
    <2>4. n \in 0 .. Len(t) /\ \A k \in 0 .. n : k \in 0 .. Len(t) /\ (k = n \/ k \in 0 .. n - 1)
      BY <1>0
    <2>5. \A k \in 0 .. n : ~(SizeOf(t, k) <= MaxEntry) => Shrunk(t, k) \in 1 .. k - 1
      BY <2>4, Shrinks
    <2> HIDE DEF h
    <2>6. \A k \in 0 .. n : h[k] = IF SizeOf(t, k) <= MaxEntry THEN k ELSE h[Shrunk(t, k)]
      <3> SUFFICES ASSUME NEW k \in 0 .. n
                   PROVE  h[k] = IF SizeOf(t, k) <= MaxEntry THEN k ELSE h[Shrunk(t, k)]
        OBVIOUS
      <3>1. ~(SizeOf(t, k) <= MaxEntry) => h[Shrunk(t, k)] = g[Shrunk(t, k)]
        <4>1. ~(SizeOf(t, k) <= MaxEntry) => Shrunk(t, k) \in 0 .. n - 1
          BY <2>5
        <4> QED
          BY <2>2, <4>1
      <3>2. CASE k = n
        BY <2>2, <3>1, <3>2
      <3>3. CASE k \in 0 .. n - 1
        <4>1. g[k] = IF SizeOf(t, k) <= MaxEntry THEN k ELSE g[Shrunk(t, k)]
          BY <2>1, <3>3 DEF Fitted
        <4> QED
          BY <2>2, <3>1, <3>3, <4>1
      <3> QED
        BY <2>4, <3>2, <3>3
    <2>7. Fitted(h, t, n)
      BY <2>3, <2>6 DEF Fitted
    <2> QED
      BY <2>4, <2>7
  <1>3. \A n \in 0 .. Len(t) : n \in T
    <2> HIDE DEF T
    <2> QED
      BY <1>0, <1>1, <1>2, Induction
  <1>4. Len(t) \in T
    BY <1>0, <1>3
  <1> QED
    BY <1>4

LEMMA FitBound == ASSUME NEW t \in Seq(Bytes) PROVE Fit(t) \in 0 .. Len(t)
  <1> DEFINE Body(g) == [n \in 0 .. Len(t) |->
                           IF SizeOf(t, n) <= MaxEntry THEN n ELSE g[Shrunk(t, n)]]
             fit == CHOOSE g : g = Body(g)
  <1>0. Len(t) \in Nat
    OBVIOUS
  <1>1. PICK g : Fitted(g, t, Len(t))
    BY FittedExists
  <1>2. g = Body(g)
    <2>1. \A n \in 0 .. Len(t) :
            Body(g)[n] = IF SizeOf(t, n) <= MaxEntry THEN n ELSE g[Shrunk(t, n)]
      OBVIOUS
    <2>2. Body(g) = [n \in 0 .. Len(t) |-> Body(g)[n]]
      OBVIOUS
    <2> HIDE DEF Body
    <2>3. \A n \in 0 .. Len(t) : Body(g)[n] = g[n]
      BY <1>1, <2>1, Zenon DEF Fitted
    <2>4. g = [n \in 0 .. Len(t) |-> g[n]]
      BY <1>1 DEF Fitted
    <2>5. [n \in 0 .. Len(t) |-> Body(g)[n]] = [n \in 0 .. Len(t) |-> g[n]]
      BY <2>3, Zenon
    <2> QED
      BY <2>2, <2>4, <2>5, Zenon
  <1>3. fit = Body(fit)
    <2> HIDE DEF Body
    <2> QED
      BY <1>2
  <1>4. Fit(t) = fit[Len(t)]
    BY DEF Fit, SizeOf, Shrunk
  <1>5. \A n \in 0 .. Len(t) : fit[n] = IF SizeOf(t, n) <= MaxEntry THEN n ELSE fit[Shrunk(t, n)]
    <2>1. \A n \in 0 .. Len(t) :
            Body(fit)[n] = IF SizeOf(t, n) <= MaxEntry THEN n ELSE fit[Shrunk(t, n)]
      OBVIOUS
    <2> HIDE DEF Body, fit
    <2> QED
      BY <1>3, <2>1, Zenon
  <1> HIDE DEF fit
  <1> DEFINE T == {n \in 0 .. Len(t) : \A k \in 0 .. n : fit[k] \in 0 .. k}
  <1>6. 0 \in T
    <2>1. ~(SizeOf(t, 0) <= MaxEntry) => FALSE
      <3>1. 0 \in 0 .. Len(t)
        BY <1>0
      <3>2. ~(\E x \in 1 .. 0 - 1 : TRUE)
        OBVIOUS
      <3> QED
        BY <3>1, <3>2, Shrinks
    <2>2. fit[0] = 0
      BY <1>0, <1>5, <2>1
    <2> QED
      BY <1>0, <2>2
  <1>7. ASSUME NEW n \in 1 .. Len(t), n - 1 \in T PROVE n \in T
    <2>1. n \in 0 .. Len(t) /\ \A k \in 0 .. n - 1 : fit[k] \in 0 .. k
      BY <1>7
    <2>2. ~(SizeOf(t, n) <= MaxEntry) => Shrunk(t, n) \in 1 .. n - 1
      BY <2>1, Shrinks
    <2>3. fit[n] \in 0 .. n
      <3>1. CASE SizeOf(t, n) <= MaxEntry
        <4>1. fit[n] = n
          BY <1>5, <2>1, <3>1
        <4> QED
          BY <4>1
      <3>2. CASE ~(SizeOf(t, n) <= MaxEntry)
        <4>1. Shrunk(t, n) \in 1 .. n - 1 /\ Shrunk(t, n) \in 0 .. n - 1
          BY <2>2, <3>2
        <4>2. fit[n] = fit[Shrunk(t, n)]
          BY <1>5, <2>1, <3>2
        <4>3. fit[Shrunk(t, n)] \in 0 .. Shrunk(t, n)
          BY <2>1, <4>1
        <4> QED
          BY <4>1, <4>2, <4>3
      <3> QED
        BY <3>1, <3>2
    <2>4. \A k \in 0 .. n : k = n \/ k \in 0 .. n - 1
      OBVIOUS
    <2> QED
      BY <2>1, <2>3, <2>4
  <1>8. \A n \in 0 .. Len(t) : n \in T
    <2> HIDE DEF T
    <2> QED
      BY <1>0, <1>6, <1>7, Induction
  <1>9. Len(t) \in T
    BY <1>0, <1>8
  <1>10. fit[Len(t)] \in 0 .. Len(t)
    BY <1>0, <1>9
  <1> QED
    BY <1>4, <1>10

\* The next chunk is a beginning of what waits, without a newline, up to a newline when
\* it says so and all of it when it says that it is the last.
LEMMA ChunkFacts ==
    ASSUME buf.bytes \in Seq(Bytes)
    PROVE  /\ Chunk.term \in BOOLEAN /\ Chunk.last \in BOOLEAN /\ ~(Chunk.term /\ Chunk.last)
           /\ \E m \in 0 .. Len(buf.bytes) :
                /\ Chunk.text = Take(buf.bytes, m)
                /\ \A i \in 1 .. m : buf.bytes[i] # "n"
                /\ Chunk.term => m < Len(buf.bytes) /\ buf.bytes[m + 1] = "n"
                /\ Chunk.last => m = Len(buf.bytes) /\ Len(buf.bytes) <= MaxRaw
  <1> DEFINE b == buf.bytes
             N == Lesser(Len(b), MaxRaw + 1)
             ends == {i \in 1 .. N : b[i] = "n"}
             least == CHOOSE i \in ends : \A k \in ends : i <= k
  <1>0. Len(b) \in Nat /\ MaxRaw \in Nat /\ MaxRaw >= 1
    BY StreamAssumption
  <1>1. N \in Nat /\ N <= Len(b) /\ N <= MaxRaw + 1 /\ (N = Len(b) \/ N = MaxRaw + 1)
    BY <1>0 DEF Lesser
  <1>2. CASE ends # {}
    <2>1. ends \in SUBSET Nat
      BY <1>1
    <2>2. \E i \in ends : \A k \in ends : i <= k
      BY <1>2, <2>1, Least
    <2>3. least \in ends /\ \A k \in ends : least <= k
      BY <2>2
    <2>4. Chunk = [text |-> Take(b, least - 1), term |-> TRUE, last |-> FALSE]
      BY <1>2 DEF Chunk
    <2>5. least \in 1 .. N /\ b[least] = "n"
      BY <2>3
    <2>6. \A i \in 1 .. least - 1 : b[i] # "n"
      <3> SUFFICES ASSUME NEW i \in 1 .. least - 1, b[i] = "n" PROVE FALSE
        OBVIOUS
      <3>1. i \in 1 .. N /\ ~(least <= i)
        BY <1>1, <2>5
      <3>2. i \in ends
        BY <3>1
      <3> QED
        BY <2>3, <3>1, <3>2
    <2> HIDE DEF ends, least, N
    <2>7. least - 1 \in 0 .. Len(b) /\ least - 1 < Len(b) /\ (least - 1) + 1 = least
      BY <1>1, <2>5
    <2>8. Chunk.text = Take(b, least - 1) /\ Chunk.term = TRUE /\ Chunk.last = FALSE
      BY <2>4
    <2> QED
      BY <2>5, <2>6, <2>7, <2>8
  <1>3. CASE ends = {} /\ Len(b) > MaxRaw
    <2> DEFINE m == AtLeast1(SafeEnd(b, MaxRaw))
    <2>1. Chunk = [text |-> Take(b, m), term |-> FALSE, last |-> FALSE]
      BY <1>3 DEF Chunk
    <2>2. SafeEnd(b, MaxRaw) \in 0 .. MaxRaw
      BY <1>0, <1>3, SafeEndBound
    <2>3. m \in 1 .. MaxRaw
      BY <1>0, <2>2 DEF AtLeast1
    <2>4. N = MaxRaw + 1
      BY <1>0, <1>3 DEF Lesser
    <2>5. \A i \in 1 .. N : b[i] # "n"
      BY <1>3
    <2> HIDE DEF m, N, ends
    <2>6. m \in 0 .. Len(b) /\ \A i \in 1 .. m : b[i] # "n"
      BY <1>0, <1>3, <2>3, <2>4, <2>5
    <2>7. Chunk.text = Take(b, m) /\ Chunk.term = FALSE /\ Chunk.last = FALSE
      BY <2>1
    <2> QED
      BY <2>6, <2>7
  <1>4. CASE ends = {} /\ ~(Len(b) > MaxRaw)
    <2>1. Chunk = [text |-> b, term |-> FALSE, last |-> TRUE]
      BY <1>4 DEF Chunk
    <2>2. N = Len(b)
      BY <1>0, <1>4 DEF Lesser
    <2>3. \A i \in 1 .. N : b[i] # "n"
      BY <1>4
    <2> HIDE DEF N, ends
    <2>4. Len(b) \in 0 .. Len(b) /\ Len(b) <= MaxRaw /\ \A i \in 1 .. Len(b) : b[i] # "n"
      BY <1>0, <1>4, <2>2, <2>3
    <2>5. Take(b, Len(b)) = b
      BY <1>0, TakingAll
    <2>6. Chunk.text = Take(b, Len(b)) /\ Chunk.term = FALSE /\ Chunk.last = TRUE
      BY <2>1, <2>5
    <2> QED
      BY <2>4, <2>6
  <1> QED
    BY <1>2, <1>3, <1>4

\* The next fragment stands where the last one ended and takes a beginning of what
\* waits; the place after it counts its newline, or the end of a stream that is over.
Cut == Fragment(Chunk, Fit(Chunk.text))

LEMMA CutFacts ==
    ASSUME buf.bytes \in Seq(Bytes), pos \in Places
    PROVE  /\ Cut \in Fragments /\ Cut.start = pos
           /\ \E k \in 0 .. Len(buf.bytes) :
                /\ Cut.next.off = pos.off + k
                /\ Piece(Cut) = Take(buf.bytes, k)
                /\ \/ Cut.next.line = pos.line + Newlines(Piece(Cut))
                   \/ /\ k = Len(buf.bytes) /\ Len(buf.bytes) <= MaxRaw /\ ~Active(cur)
           /\ \/ Cut.next.line = pos.line + 1 /\ Cut.next.idx = 0
              \/ Cut.next.line = pos.line /\ Cut.next.idx = pos.idx + 1
  <1> DEFINE b == buf.bytes
             c == Chunk
             n == Fit(c.text)
             final == (c.term \/ c.last) /\ n = Len(c.text)
  <1>1. /\ c.term \in BOOLEAN /\ c.last \in BOOLEAN /\ ~(c.term /\ c.last)
        /\ \E m \in 0 .. Len(b) :
             /\ c.text = Take(b, m)
             /\ \A i \in 1 .. m : b[i] # "n"
             /\ c.term => m < Len(b) /\ b[m + 1] = "n"
             /\ c.last => m = Len(b) /\ Len(b) <= MaxRaw
    BY ChunkFacts
  <1> HIDE DEF b, c
  <1>2. PICK m \in 0 .. Len(b) :
          /\ c.text = Take(b, m)
          /\ \A i \in 1 .. m : b[i] # "n"
          /\ c.term => m < Len(b) /\ b[m + 1] = "n"
          /\ c.last => m = Len(b) /\ Len(b) <= MaxRaw
    BY <1>1
  <1>3. m \in Nat /\ m <= Len(b) /\ Len(b) \in Nat /\ b \in Seq(Bytes)
    BY <1>2 DEF b
  <1>16. /\ \A i \in 1 .. m : b[i] # "n"
         /\ c.term => m < Len(b) /\ b[m + 1] = "n"
         /\ c.last => m = Len(b) /\ Len(b) <= MaxRaw
    BY <1>2
  <1>4. c.text \in Seq(Bytes) /\ Len(c.text) = m /\ \A i \in 1 .. m : c.text[i] = b[i]
    BY <1>2, <1>3, Taking
  <1>5. n \in 0 .. m
    BY <1>4, FitBound
  <1> HIDE DEF n
  <1> DEFINE t == Take(c.text, n)
  <1>6. t \in Seq(Bytes) /\ Len(t) = n /\ \A i \in 1 .. n : t[i] = b[i]
    <2>1. n \in Nat /\ n <= Len(c.text)
      BY <1>3, <1>4, <1>5
    <2>2. t \in Seq(Bytes) /\ Len(t) = n /\ \A i \in 1 .. n : t[i] = c.text[i]
      BY <1>4, <2>1, Taking
    <2> QED
      BY <1>3, <1>4, <1>5, <2>2
  <1>7. t = Take(b, n)
    <2>1. n \in Nat /\ n <= Len(b)
      BY <1>3, <1>5
    <2>2. Take(b, n) \in Seq(Bytes) /\ Len(Take(b, n)) = n /\ \A i \in 1 .. n : Take(b, n)[i] = b[i]
      BY <1>3, <2>1, Taking
    <2> QED
      BY <1>6, <2>2, SeqEqual
  <1> HIDE DEF t
  <1>8. Newlines(t) = 0
    <2>1. \A i \in 1 .. Len(t) : t[i] # "n"
      <3>1. \A i \in 1 .. Len(t) : i \in 1 .. n /\ i \in 1 .. m
        BY <1>3, <1>5, <1>6
      <3> QED
        BY <1>6, <1>16, <3>1
    <2> QED
      BY <1>6, <2>1, NewlinesNone
  <1> DEFINE w == final /\ c.term
             next == IF final /\ (c.term \/ ~Active(cur))
                     THEN [off |-> pos.off + n + Bit(c.term), line |-> pos.line + 1, idx |-> 0]
                     ELSE [off |-> pos.off + n, line |-> pos.line, idx |-> pos.idx + 1]
  <1>9. Cut = [start |-> pos, text |-> t, term |-> w,
               partial |-> final /\ ~c.term /\ Active(cur), next |-> next]
    BY DEF Cut, Fragment, b, c, n, t
  <1> HIDE DEF final
  <1>10. pos.off \in Nat /\ pos.line \in Nat \ {0} /\ pos.idx \in Nat /\ Bit(c.term) \in Nat /\ n \in Nat
    BY <1>3, <1>5 DEF Places, Bit
  <1>11. next \in Places
    BY <1>10 DEF Places
  <1>12. w \in BOOLEAN /\ (final /\ ~c.term /\ Active(cur)) \in BOOLEAN
    OBVIOUS
  <1> HIDE DEF w, next
  <1>13. Cut \in Fragments /\ Cut.start = pos /\ Cut.text = t /\ Cut.term = w /\ Cut.next = next
    BY <1>6, <1>9, <1>11, <1>12 DEF Fragments
  <1>14. \/ next.line = pos.line + 1 /\ next.idx = 0
         \/ next.line = pos.line /\ next.idx = pos.idx + 1
    BY DEF next
  <1>15. \E k \in 0 .. Len(b) :
           /\ next.off = pos.off + k
           /\ Piece(Cut) = Take(b, k)
           /\ \/ next.line = pos.line + Newlines(Piece(Cut))
              \/ /\ k = Len(b) /\ Len(b) <= MaxRaw /\ ~Active(cur)
    <2>1. CASE w
      <3>1. final /\ c.term /\ n = m /\ Bit(c.term) = 1
        BY <1>4, <2>1 DEF w, final, Bit
      <3>2. next.off = pos.off + (n + 1) /\ next.line = pos.line + 1
        <4>1. next = [off |-> pos.off + n + Bit(c.term), line |-> pos.line + 1, idx |-> 0]
          BY <3>1, Zenon DEF next
        <4>2. next.off = pos.off + n + Bit(c.term) /\ next.line = pos.line + 1
          BY <4>1
        <4> QED
          BY <1>10, <3>1, <4>2
      <3>3. n + 1 \in 0 .. Len(b) /\ b[n + 1] = "n" /\ n < Len(b)
        BY <1>3, <1>16, <3>1
      <3>4. <<"n">> \in Seq(Bytes) /\ Len(<<"n">>) = 1 /\ n + Len(<<"n">>) = n + 1
            /\ \A i \in 1 .. 1 : <<"n">>[i] = b[n + i]
        <4>1. <<"n">> \in Seq(Bytes) /\ Len(<<"n">>) = 1
          BY DEF Bytes
        <4>2. \A i \in 1 .. 1 : i = 1
          OBVIOUS
        <4>3. <<"n">>[1] = b[n + 1]
          BY <3>3
        <4>4. n + 1 = n + Len(<<"n">>)
          BY <4>1
        <4> QED
          BY <4>1, <4>2, <4>3, <4>4
      <3>5. b \in Seq(Bytes) /\ n + Len(<<"n">>) <= Len(b)
        BY <1>3, <3>3, <3>4 DEF b
      <3>6. Take(b, n) \o <<"n">> = Take(b, n + 1)
        <4>1. Take(b, n) \o <<"n">> = Take(b, n + Len(<<"n">>))
          BY <1>10, <3>4, <3>5, TakeMore
        <4> QED
          BY <3>4, <4>1
      <3>7. Piece(Cut) = t \o <<"n">>
        BY <1>13, <2>1 DEF Piece
      <3>8. Piece(Cut) = Take(b, n + 1)
        BY <1>7, <3>6, <3>7
      <3>9. Newlines(Piece(Cut)) = 1
        <4>1. Append(t, "n") = t \o <<"n">> /\ "n" \in Bytes
          BY <1>6, AppendIsConcat DEF Bytes
        <4>2. Newlines(Append(t, "n")) = Newlines(t) + Bit("n" = "n")
          BY <1>6, <4>1, NewlinesAppend
        <4>3. Bit("n" = "n") = 1
          BY DEF Bit
        <4>4. Newlines(Append(t, "n")) = 1
          BY <1>8, <4>2, <4>3
        <4> QED
          BY <3>7, <4>1, <4>4
      <3>10. next.line = pos.line + Newlines(Piece(Cut))
        BY <3>2, <3>9
      <3> QED
        BY <3>2, <3>3, <3>8, <3>10
    <2>2. CASE ~w
      <3>1. Piece(Cut) = t \o <<>> /\ t \o <<>> = t
        BY <1>6, <1>13, <2>2, ConcatEmptySeq DEF Piece
      <3>2. Piece(Cut) = Take(b, n) /\ Newlines(Piece(Cut)) = 0
        BY <1>7, <1>8, <3>1
      <3>3. n \in 0 .. Len(b)
        BY <1>3, <1>5
      <3>4. next.off = pos.off + n
        BY <1>10, <2>2 DEF next, w, Bit
      <3>5. CASE next.line = pos.line
        <4>1. next.line = pos.line + Newlines(Piece(Cut))
          BY <1>10, <3>2, <3>5
        <4> QED
          BY <3>2, <3>3, <3>4, <4>1
      <3>6. CASE next.line # pos.line
        <4>1. final /\ ~c.term /\ ~Active(cur)
          BY <2>2, <3>6 DEF next, w
        <4>2. n = Len(b) /\ Len(b) <= MaxRaw
          <5>1. c.last /\ n = m
            BY <1>4, <4>1, Zenon DEF final
          <5> QED
            BY <1>16, <5>1
        <4> QED
          BY <3>2, <3>3, <3>4, <4>1, <4>2
      <3> QED
        BY <3>5, <3>6
    <2> QED
      BY <2>1, <2>2
  <1> QED
    BY <1>13, <1>14, <1>15 DEF b

\* A fragment that stands at the next place is numbered, and the place after it is.
LEMMA NumberedNext ==
    ASSUME NEW q \in Seq(Fragments), NEW f \in Fragments, NEW p \in Places, NEW n \in Places,
           NumberedTo(q, p), f.start = p,
           \/ n.line = p.line + 1 /\ n.idx = 0
           \/ n.line = p.line /\ n.idx = p.idx + 1
    PROVE  NumberedTo(Append(q, f), n)
  <1> DEFINE r == Append(q, f)
             N == Len(q)
  <1>1. /\ r \in Seq(Fragments) /\ Len(r) = N + 1 /\ N \in Nat /\ r[N + 1] = f
        /\ \A i \in 1 .. N : r[i] = q[i]
    BY AppendProperties
  <1>2. p.line \in Nat /\ p.idx \in Nat /\ n.line \in Nat /\ n.idx \in Nat
    BY DEF Places
  <1>3. \A i \in 1 .. N : q[i] \in Fragments
    OBVIOUS
  <1> HIDE DEF r, N
  <1>4. ASSUME NEW i \in 1 .. N PROVE q[i].start.line \in Nat
    BY <1>3 DEF Fragments, Places
  <1>5. ASSUME NEW k \in 0 .. N, NEW l PROVE Same(r, k, l) = Same(q, k, l)
    <2>1. \A i \in 1 .. k : r[i] = q[i]
      BY <1>1
    <2> QED
      BY <2>1 DEF Same
  <1>6. ASSUME NEW l PROVE Same(r, N + 1, l) = IF p.line = l THEN Same(q, N, l) \cup {N + 1}
                                              ELSE Same(q, N, l)
    <2>1. \A i \in 1 .. N + 1 : i \in 1 .. N \/ i = N + 1
      BY <1>1
    <2>2. 1 .. N \subseteq 1 .. N + 1 /\ N + 1 \in 1 .. N + 1
      BY <1>1
    <2>3. r[N + 1].start.line = p.line
      BY <1>1
    <2> QED
      BY <1>1, <2>1, <2>2, <2>3 DEF Same
  <1>7. /\ \A i \in 1 .. N : /\ q[i].start.line <= p.line
                             /\ q[i].start.idx = Cardinality(Same(q, i - 1, q[i].start.line))
        /\ p.idx = Cardinality(Same(q, N, p.line))
    BY DEF NumberedTo, N
  <1>8. ASSUME NEW i \in 1 .. N + 1
        PROVE  /\ r[i].start.line <= n.line
               /\ r[i].start.idx = Cardinality(Same(r, i - 1, r[i].start.line))
    <2>1. CASE i \in 1 .. N
      <3>1. r[i] = q[i] /\ i - 1 \in 0 .. N
        BY <1>1, <2>1
      <3>2. q[i].start.line <= n.line
        BY <1>2, <1>4, <1>7, <2>1
      <3>3. Same(r, i - 1, q[i].start.line) = Same(q, i - 1, q[i].start.line)
        BY <1>5, <3>1
      <3> QED
        BY <1>7, <2>1, <3>1, <3>2, <3>3
    <2>2. CASE i = N + 1
      <3>1. r[i].start = p /\ i - 1 = N /\ N \in 0 .. N
        BY <1>1, <2>2
      <3>2. Same(r, N, p.line) = Same(q, N, p.line)
        BY <1>5, <3>1
      <3> QED
        BY <1>2, <1>7, <3>1, <3>2
    <2> QED
      BY <1>1, <2>1, <2>2
  <1>9. n.idx = Cardinality(Same(r, N + 1, n.line))
    <2>1. IsFiniteSet(Same(q, N, p.line)) /\ N + 1 \notin Same(q, N, p.line)
      <3>1. IsFiniteSet(1 .. N)
        BY <1>1, FS_Interval
      <3>2. Same(q, N, p.line) \subseteq 1 .. N
        BY DEF Same
      <3>3. N + 1 \notin 1 .. N
        BY <1>1
      <3> QED
        BY <3>1, <3>2, <3>3, FS_Subset
    <2>2. CASE n.line = p.line /\ n.idx = p.idx + 1
      <3>1. Same(r, N + 1, p.line) = Same(q, N, p.line) \cup {N + 1}
        BY <1>6
      <3>2. Cardinality(Same(q, N, p.line) \cup {N + 1}) = Cardinality(Same(q, N, p.line)) + 1
        BY <2>1, FS_AddElement
      <3> QED
        BY <1>7, <2>2, <3>1, <3>2
    <2>3. CASE n.line = p.line + 1 /\ n.idx = 0
      <3>1. p.line # n.line
        BY <1>2, <2>3
      <3>2. Same(r, N + 1, n.line) = Same(q, N, n.line)
        BY <1>6, <3>1
      <3>3. \A i \in 1 .. N : q[i].start.line # n.line
        BY <1>2, <1>4, <1>7, <2>3
      <3>4. Same(q, N, n.line) = {}
        BY <3>3 DEF Same
      <3> QED
        BY <2>3, <3>2, <3>4, FS_EmptySet
    <2> QED
      BY <2>2, <2>3
  <1>10. NumberedTo(r, n)
    BY <1>1, <1>8, <1>9 DEF NumberedTo
  <1> QED
    BY <1>10 DEF r

LEMMA NumberedStart == NumberedTo(<<>>, Start)
  <1>1. Len(<<>>) = 0 /\ Same(<<>>, 0, 1) = {} /\ Start.line = 1 /\ Start.idx = 0
    BY DEF Same, Start
  <1>2. Cardinality(Same(<<>>, Len(<<>>), Start.line)) = 0
    BY <1>1, FS_EmptySet
  <1> QED
    BY <1>1, <1>2 DEF NumberedTo

-----------------------------------------------------------------------------
(***************************************************************************)
(* What the node helper delivers.                                          *)
(***************************************************************************)
LEMMA BatchFacts ==
    ASSUME pool.hints \in Seq(Blobs), NEW i \in 1 .. Len(pool.hints)
    PROVE  /\ Batch(i) \in Seq(Blobs) /\ Len(Batch(i)) \in Nat \ {0}
           /\ Batch(i)[1] = pool.hints[i]
           /\ \A k \in 1 .. Len(Batch(i)) : \E m \in 1 .. Len(pool.hints) : Batch(i)[k] = pool.hints[m]
  <1> DEFINE h == pool.hints
             T == {j \in i .. Len(h) : Fits(i, j)}
             last == CHOOSE j \in i .. Len(h) : Fits(i, j) /\ \A k \in j + 1 .. Len(h) : ~Fits(i, k)
  <1>1. Len(h) \in Nat /\ i \in 1 .. Len(h) /\ i \in i .. Len(h)
    OBVIOUS
  <1>2. Fits(i, i)
    <2>1. i - i < MaxRanges
      BY StreamAssumption
    <2> QED
      BY <2>1 DEF Fits
  <1>3. i \in T /\ T \in SUBSET (0 .. Len(h))
    BY <1>1, <1>2
  <1>4. PICK j \in T : \A k \in T : k <= j
    BY <1>1, <1>3, Greatest
  <1>5. \A k \in j + 1 .. Len(h) : ~Fits(i, k)
    <2> SUFFICES ASSUME NEW k \in j + 1 .. Len(h), Fits(i, k) PROVE FALSE
      OBVIOUS
    <2>1. j \in i .. Len(h)
      BY <1>4
    <2>2. k \in i .. Len(h) /\ ~(k <= j)
      BY <1>1, <2>1
    <2>3. k \in T
      BY <2>2
    <2> QED
      BY <1>4, <2>2, <2>3
  <1>6. j \in i .. Len(h) /\ Fits(i, j)
    BY <1>4
  <1>7. last \in i .. Len(h)
    BY <1>5, <1>6
  <1>8. Batch(i) = SubSeq(h, i, last)
    BY DEF Batch
  <1> HIDE DEF last, h, T
  <1>9. \A k \in i .. last : h[k] \in Blobs
    BY <1>1, <1>7 DEF h
  <1>10. i \in Int /\ last \in Int /\ i <= last
    BY <1>1, <1>7
  <1>11. /\ SubSeq(h, i, last) \in Seq(Blobs)
         /\ Len(SubSeq(h, i, last)) = IF i <= last THEN last - i + 1 ELSE 0
         /\ \A k \in 1 .. last - i + 1 : SubSeq(h, i, last)[k] = h[i + k - 1]
    BY <1>9, <1>10, SubSeqProperties
  <1>12. Len(Batch(i)) = last - i + 1 /\ last - i + 1 >= 1 /\ last - i + 1 \in Nat
    BY <1>8, <1>10, <1>11
  <1>13. ASSUME NEW k \in 1 .. Len(Batch(i))
         PROVE  i + k - 1 \in 1 .. Len(h) /\ Batch(i)[k] = h[i + k - 1]
    BY <1>1, <1>7, <1>8, <1>10, <1>11, <1>12
  <1>14. 1 \in 1 .. Len(Batch(i)) /\ i + 1 - 1 = i
    BY <1>1, <1>12
  <1>15. Batch(i)[1] = h[i]
    BY <1>13, <1>14
  <1>16. \A k \in 1 .. Len(Batch(i)) : \E m \in 1 .. Len(h) : Batch(i)[k] = h[m]
    BY <1>13
  <1>17. Batch(i) \in Seq(Blobs) /\ Len(Batch(i)) \in Nat \ {0}
    BY <1>8, <1>11, <1>12
  <1> QED
    BY <1>15, <1>16, <1>17 DEF h

\* A readable range holds what was written, but for a first byte that rotted.
LEMMA Delivered ==
    ASSUME Types, OnDisk, Recorded, NEW s \in Sources, pc \notin Ended,
           NEW off \in Nat, NEW n \in Nat \ {0}, off + n <= wire[s].size,
           Readable(Request(s, off, n))
    PROVE  LET b == Excerpt(Request(s, off, n)).bytes
               t == file[s].text
           IN  /\ b \in Seq(Bytes) /\ Len(b) = n
               /\ off > 0 \/ ~Bad(file[s]) => \A i \in 1 .. n : b[i] = t[off + i]
               /\ off = 0 /\ Bad(file[s]) => b[1] # t[1]
  <1> DEFINE q == Request(s, off, n)
             f == file[s]
             t == f.text
             p == Take(t, f.size)
             c == Content(s)
             b == Excerpt(q).bytes
  <1>1. f \in FileSet /\ wire[s].size \in Nat
    BY DEF Types
  <1>2. t \in Seq(Bytes) /\ f.size \in Nat /\ Len(t) \in Nat
    BY <1>1 DEF FileSet
  <1>3. q.src = s /\ q.off = off /\ q.len = n
    BY DEF Request
  <1>4. wire[s].size <= f.size /\ f.size <= Len(t)
    <2>1. CASE s \in Blobs
      <3>1. wire[s].size = Len(t) /\ f.size = Len(t)
        BY <2>1 DEF Recorded, OnDisk
      <3> QED
        BY <1>2, <3>1
    <2>2. CASE s = Live
      <3>1. file[Live].size >= wire[Live].size
        BY <1>3, <2>2 DEF Readable
      <3>2. f.size \in {0, Len(t)}
        BY <2>2 DEF OnDisk
      <3> QED
        BY <1>1, <1>2, <2>2, <3>1, <3>2
    <2> QED
      BY <2>1, <2>2, StreamAssumption DEF Sources, Blobs, Live
  <1>5. off + n <= f.size /\ off + n <= Len(t) /\ f.size >= 1
    BY <1>1, <1>2, <1>4
  <1> HIDE DEF q, f
  <1>6. p \in Seq(Bytes) /\ Len(p) = f.size /\ \A i \in 1 .. f.size : p[i] = t[i]
    BY <1>2, <1>4, Taking
  <1>7. /\ c \in Seq(Bytes) /\ Len(c) = f.size
        /\ \A i \in 1 .. f.size : i > 1 \/ f.st # "rotten" => c[i] = t[i]
        /\ f.st = "rotten" => c[1] = "z"
    <2>1. CASE f.st # "rotten"
      <3>1. c = p
        BY <2>1 DEF Content, f
      <3> QED
        BY <1>6, <2>1, <3>1
    <2>2. CASE f.st = "rotten"
      <3>1. c = <<"z">> \o Tail(p)
        BY <2>2 DEF Content, f
      <3> HIDE DEF p, c
      <3>2. p # <<>> /\ <<"z">> \in Seq(Bytes) /\ Len(<<"z">>) = 1 /\ <<"z">>[1] = "z"
        BY <1>2, <1>5, <1>6 DEF Bytes
      <3>3. /\ Tail(p) \in Seq(Bytes) /\ Len(Tail(p)) = f.size - 1
            /\ \A i \in 1 .. f.size - 1 : Tail(p)[i] = p[i + 1]
        BY <1>6, <3>2, HeadTailProperties
      <3>4. /\ c \in Seq(Bytes) /\ Len(c) = 1 + (f.size - 1)
            /\ \A i \in 1 .. 1 + (f.size - 1) : c[i] = IF i <= 1 THEN <<"z">>[i] ELSE Tail(p)[i - 1]
        BY <3>1, <3>2, <3>3, ConcatProperties
      <3>5. ASSUME NEW i \in 1 .. f.size, i > 1 PROVE c[i] = t[i]
        <4>1. i - 1 \in 1 .. f.size - 1 /\ (i - 1) + 1 = i /\ ~(i <= 1)
          BY <1>2, <3>5
        <4>2. c[i] = Tail(p)[i - 1]
          <5>1. i \in 1 .. 1 + (f.size - 1)
            BY <1>2
          <5> QED
            BY <3>4, <4>1, <5>1
        <4> QED
          BY <1>6, <3>3, <4>1, <4>2
      <3>6. c[1] = "z"
        BY <1>2, <1>5, <3>2, <3>4
      <3> QED
        BY <1>2, <2>2, <3>4, <3>5, <3>6
    <2> QED
      BY <2>1, <2>2
  <1> HIDE DEF p, c, t
  <1>8. b = SubSeq(c, off + 1, off + n)
    BY <1>3 DEF Excerpt, c
  <1> HIDE DEF b
  <1>9. b \in Seq(Bytes) /\ Len(b) = n /\ \A i \in 1 .. n : b[i] = c[off + i]
    <2>1. off + 1 \in Int /\ off + n \in Int /\ \A i \in off + 1 .. off + n : c[i] \in Bytes
      BY <1>2, <1>5, <1>7
    <2>2. /\ b \in Seq(Bytes)
          /\ Len(b) = IF off + 1 <= off + n THEN (off + n) - (off + 1) + 1 ELSE 0
          /\ \A i \in 1 .. (off + n) - (off + 1) + 1 : b[i] = c[(off + 1) + i - 1]
      BY <1>8, <2>1, SubSeqProperties
    <2>3. /\ (IF off + 1 <= off + n THEN (off + n) - (off + 1) + 1 ELSE 0) = n
          /\ (off + n) - (off + 1) + 1 = n
          /\ \A i \in 1 .. n : (off + 1) + i - 1 = off + i
      OBVIOUS
    <2> QED
      BY <2>2, <2>3
  <1>10. ASSUME off > 0 \/ ~Bad(f), NEW i \in 1 .. n PROVE b[i] = t[off + i]
    <2>1. off + i \in 1 .. f.size
      BY <1>2, <1>5
    <2>2. CASE off + i > 1 \/ f.st # "rotten"
      BY <1>7, <1>9, <2>1, <2>2
    <2>3. CASE off + i = 1 /\ f.st = "rotten"
      <3>1. off = 0 /\ t[1] = "z"
        BY <1>10, <2>3 DEF Bad, t
      <3> QED
        BY <1>7, <1>9, <2>1, <2>3, <3>1
    <2> QED
      BY <2>1, <2>2, <2>3
  <1>11. ASSUME off = 0, Bad(f) PROVE b[1] # t[1]
    <2>1. b[1] = c[1] /\ c[1] = "z" /\ t[1] # "z"
      BY <1>7, <1>9, <1>11 DEF Bad, t
    <2> QED
      BY <2>1
  <1> QED
    BY <1>9, <1>10, <1>11 DEF b, t, f, q

\* What a run accepts is exactly what was asked for, unless a call failed: a source is
\* asked for one range only, so the order and the lengths leave nothing else.
Orderly(qs, N) ==
    /\ N \in Nat \ {0} /\ qs = [i \in 1 .. N |-> qs[i]] /\ Len(qs) = N
    /\ \A i \in 1 .. N : \E s \in Sources, off \in Nat, n \in Nat \ {0} :
          qs[i] = Request(s, off, n) /\ off + n <= wire[s].size
    /\ \A i, j \in 1 .. N : qs[i].src = qs[j].src => qs[i] = qs[j]

LEMMA RepliesExact ==
    ASSUME Types, OnDisk, Recorded, pc \notin Ended, NEW N, NEW qs, Orderly(qs, N),
           NEW reply \in Replies(qs), reply # <<>>
    PROVE  /\ reply = Exact(qs)
           /\ \A i \in 1 .. N : Readable(qs[i]) /\ reply[i] = Excerpt(qs[i])
  <1>0. /\ N \in Nat \ {0} /\ qs = [i \in 1 .. N |-> qs[i]] /\ Len(qs) = N
        /\ \A i \in 1 .. N : \E s \in Sources, off \in Nat, n \in Nat \ {0} :
              qs[i] = Request(s, off, n) /\ off + n <= wire[s].size
        /\ \A i, j \in 1 .. N : qs[i].src = qs[j].src => qs[i] = qs[j]
    BY DEF Orderly
  <1> USE <1>0
  <1> DEFINE e == Exact(qs)
  <1>1. Answerable(qs) /\ (reply = e \/ (reply \in Garbled(qs) /\ Accepts(qs, reply)))
    BY DEF Replies
  <1>2. \A i \in 1 .. N : Readable(qs[i])
    BY <1>1 DEF Answerable
  <1>3. e = [i \in 1 .. N |-> Excerpt(qs[i])]
    BY DEF Exact
  <1>4. ASSUME NEW i \in 1 .. N
        PROVE  /\ Excerpt(qs[i]).src = qs[i].src /\ Excerpt(qs[i]).bytes \in Seq(Bytes)
               /\ Len(Excerpt(qs[i]).bytes) = qs[i].len /\ qs[i].len \in Nat \ {0}
    <2>1. PICK s \in Sources, off \in Nat, n \in Nat \ {0} :
            qs[i] = Request(s, off, n) /\ off + n <= wire[s].size
      OBVIOUS
    <2>2. Readable(Request(s, off, n))
      BY <1>2, <2>1
    <2>3. Excerpt(qs[i]).bytes \in Seq(Bytes) /\ Len(Excerpt(qs[i]).bytes) = n
      BY <2>1, <2>2, Delivered
    <2>4. qs[i].len = n /\ Excerpt(qs[i]).src = qs[i].src
      BY <2>1 DEF Request, Excerpt
    <2> QED
      BY <2>3, <2>4
  <1> DEFINE S == {Excerpt(qs[i]) : i \in 1 .. N}
  <1>5. e \in Seq(S) /\ Len(e) = N /\ DOMAIN e = 1 .. N /\ \A i \in 1 .. N : e[i] = Excerpt(qs[i])
    <2>1. \A i \in 1 .. N : Excerpt(qs[i]) \in S
      OBVIOUS
    <2> HIDE DEF e, S
    <2>2. e \in [1 .. N -> S] /\ DOMAIN e = 1 .. N /\ \A i \in 1 .. N : e[i] = Excerpt(qs[i])
      BY <1>3, <2>1
    <2>3. e \in Seq(S)
      BY <2>2, SeqDef
    <2>4. N \in Nat
      OBVIOUS
    <2> QED
      BY <2>2, <2>3, <2>4, LenProperties
  <1> HIDE DEF e, S
  <1>6. ASSUME reply \in Garbled(qs), Accepts(qs, reply) PROVE reply = e
    <2>1. /\ Len(reply) = N
          /\ \A i \in 1 .. N : reply[i].src = qs[i].src /\ Len(reply[i].bytes) = qs[i].len
      BY <1>6 DEF Accepts
    <2>2. CASE reply = Front(e)
      <3>1. 1 \in Int /\ N - 1 \in Int /\ \A i \in 1 .. N - 1 : e[i] \in S
        BY <1>5
      <3>2. Len(SubSeq(e, 1, N - 1)) = IF 1 <= N - 1 THEN (N - 1) - 1 + 1 ELSE 0
        BY <3>1, SubSeqProperties
      <3>3. Front(e) = SubSeq(e, 1, N - 1)
        BY <1>5 DEF Front
      <3>4. Len(reply) # N
        BY <2>2, <3>2, <3>3
      <3> QED
        BY <2>1, <3>4
    <2>3. CASE reply = Reverse(e)
      <3>1. reply = [i \in 1 .. N |-> e[(N - i) + 1]]
        BY <1>5, <2>3 DEF Reverse
      <3>2. ASSUME NEW i \in 1 .. N PROVE e[(N - i) + 1] = e[i]
        <4> DEFINE j == (N - i) + 1
        <4>1. j \in 1 .. N
          OBVIOUS
        <4>2. reply[i] = Excerpt(qs[j])
          BY <1>5, <3>1, <4>1
        <4> HIDE DEF j
        <4>3. qs[j].src = qs[i].src
          BY <1>4, <2>1, <4>1, <4>2
        <4>4. qs[j] = qs[i]
          BY <4>1, <4>3
        <4>5. e[j] = e[i]
          BY <1>5, <4>1, <4>4
        <4> QED
          BY <4>5 DEF j
      <3>3. reply = [i \in 1 .. N |-> e[i]]
        BY <3>1, <3>2
      <3>4. e = [i \in 1 .. N |-> e[i]]
        BY <1>3, <1>5
      <3> QED
        BY <3>3, <3>4
    <2>4. CASE reply = [e EXCEPT ![1].bytes = Take(@, Len(@) - 1)]
      <3> DEFINE b == Excerpt(qs[1]).bytes
      <3>1. 1 \in 1 .. N
        OBVIOUS
      <3>2. b \in Seq(Bytes) /\ Len(b) = qs[1].len /\ qs[1].len \in Nat \ {0}
        BY <1>4, <3>1
      <3>3. reply[1].bytes = Take(b, Len(b) - 1)
        <4>1. reply[1] = [e[1] EXCEPT !.bytes = Take(@, Len(@) - 1)]
          BY <1>5, <2>4, <3>1
        <4>2. e[1] = Excerpt(qs[1])
          BY <1>5, <3>1
        <4>3. reply[1].bytes = Take(e[1].bytes, Len(e[1].bytes) - 1)
          BY <4>1, <4>2 DEF Excerpt
        <4> QED
          BY <4>2, <4>3
      <3> HIDE DEF b
      <3>4. Len(b) - 1 \in Nat /\ Len(b) - 1 <= Len(b)
        BY <3>2
      <3>5. Len(Take(b, Len(b) - 1)) = Len(b) - 1
        BY <3>2, <3>4, Taking
      <3>6. Len(reply[1].bytes) = qs[1].len
        BY <2>1, <3>1
      <3>7. Len(reply[1].bytes) = Len(b) - 1
        BY <3>3, <3>5
      <3> QED
        BY <3>2, <3>6, <3>7
    <2>5. reply # <<>>
      OBVIOUS
    <2> QED
      BY <1>6, <2>2, <2>3, <2>4, <2>5 DEF Garbled, e
  <1>7. reply = e
    BY <1>1, <1>6
  <1> QED
    BY <1>2, <1>5, <1>7 DEF e

-----------------------------------------------------------------------------
(***************************************************************************)
(* What a change of a file may do to it, and that nothing of the invariant *)
(* depends on more.                                                        *)
(***************************************************************************)
Moves(s, f, g) ==
    /\ g \in FileSet /\ Begins(f.text, g.text)
    /\ f.late => g.late
    /\ f.path = "rotated" => g.path = "rotated" /\ (g.late \/ g.text = f.text)
    /\ f.st = "rotten" => g.st = "rotten"
    /\ g.st = "rotten" => g.size > 0
    /\ s \in Blobs => g.text = f.text /\ g.size = f.size /\ g.path = f.path /\ g.late = f.late
    /\ s = Live => g.st = "sound" /\ g.size \in {0, Len(g.text)}

LEMMA BeginsSelf == ASSUME NEW q PROVE Begins(q, q) \/ ~(Len(q) \in Nat)
  BY DEF Begins

LEMMA LiveApart == /\ Live \notin Blobs /\ Live \in Sources /\ Live \notin Gz /\ Blobs \subseteq Sources
                   /\ \A s \in Sources : s \in Blobs \/ s = Live
  BY StreamAssumption DEF Live, Blobs, Sources

LEMMA StaysAsItIs ==
    ASSUME Types, OnDisk, NEW s \in Sources
    PROVE  Moves(s, file[s], file[s])
  <1>1. file[s] \in FileSet
    BY DEF Types
  <1>2. Begins(file[s].text, file[s].text)
    BY <1>1, BeginsSelf DEF FileSet
  <1> QED
    BY <1>1, <1>2, LiveApart DEF Moves, OnDisk

LEMMA ChangeMoves ==
    ASSUME Types, OnDisk, NEW s \in Sources, NEW f, Change(s, f), Moves(s, file[s], f)
    PROVE  \A t \in Sources : Moves(t, file[t], file'[t])
  <1>1. file' = [file EXCEPT ![s] = f] /\ DOMAIN file = Sources
    BY DEF Change, Types
  <1>2. \A t \in Sources : file'[t] = IF t = s THEN f ELSE file[t]
    BY <1>1
  <1> QED
    BY <1>2, StaysAsItIs

LEMMA WorldMoves ==
    ASSUME Types, OnDisk, World
    PROVE  /\ \A s \in Sources : Moves(s, file[s], file'[s])
           /\ DOMAIN file' = Sources /\ file' = [s \in Sources |-> file'[s]]
           /\ UNCHANGED <<durable, run>>
  <1>0. \A s \in Sources : file[s] \in FileSet
    BY DEF Types
  <1>1. CASE \E t \in Tails : Grow(t)
    <2> PICK t \in Tails : Grow(t)
      BY <1>1
    <2> DEFINE late == file[Live].late \/ file[Live].path = "rotated"
               text == file[Live].text \o t
               g == [file[Live] EXCEPT !.text = text, !.size = @ + Len(t), !.late = late]
    <2>1. file[Live].size = Len(file[Live].text) /\ Change(Live, g)
      BY DEF Grow
    <2>2. t \in Seq(Bytes) /\ Len(t) \in Nat
      BY StreamAssumption
    <2>3. file[Live] \in FileSet /\ file[Live].text \in Seq(Bytes) /\ file[Live].st = "sound"
      BY <1>0, LiveApart DEF OnDisk, FileSet
    <2>4. /\ file[Live].text \o t \in Seq(Bytes)
          /\ Len(file[Live].text \o t) = Len(file[Live].text) + Len(t)
          /\ Begins(file[Live].text, file[Live].text \o t)
      BY <2>2, <2>3, ConcatProperties, BeginsConcat
    <2>7. late \in BOOLEAN /\ (file[Live].late => late) /\ (file[Live].path = "rotated" => late)
      BY <2>3 DEF FileSet
    <2> HIDE DEF late, text
    <2>8. file[Live].size + Len(t) = Len(text) /\ Len(text) \in Nat /\ text \in Seq(Bytes)
      BY <2>1, <2>2, <2>3, <2>4 DEF text
    <2>5. /\ g.text = text /\ g.size = Len(text) /\ g.st = "sound"
          /\ g.late = late /\ g.path = file[Live].path /\ g \in FileSet
      BY <2>3, <2>7, <2>8 DEF FileSet
    <2> HIDE DEF g
    <2>6. Moves(Live, file[Live], g)
      <3>1. Begins(file[Live].text, text)
        BY <2>4 DEF text
      <3> QED
        BY <2>3, <2>5, <2>7, <3>1, LiveApart DEF Moves
    <2> QED
      BY <2>1, <2>6, ChangeMoves, LiveApart DEF Change, Types
  <1>2. CASE Rotate
    <2> DEFINE g == [file[Live] EXCEPT !.path = "rotated"]
    <2>1. Change(Live, g) /\ file[Live] \in FileSet /\ file[Live].path = "current"
      BY <1>0, <1>2, LiveApart DEF Rotate
    <2>2. g \in FileSet /\ g.text = file[Live].text /\ g.size = file[Live].size
          /\ g.st = file[Live].st /\ g.late = file[Live].late /\ g.path = "rotated"
      BY <2>1 DEF FileSet, Ways
    <2> HIDE DEF g
    <2>3. Moves(Live, file[Live], g)
      BY <2>1, <2>2, StaysAsItIs, LiveApart DEF Moves
    <2> QED
      BY <2>1, <2>3, ChangeMoves, LiveApart DEF Change, Types
  <1>3. CASE Truncate
    <2> DEFINE g == [file[Live] EXCEPT !.size = 0]
    <2>1. Change(Live, g) /\ file[Live] \in FileSet
      BY <1>0, <1>3, LiveApart DEF Truncate
    <2>2. g \in FileSet /\ g.text = file[Live].text /\ g.size = 0
          /\ g.st = file[Live].st /\ g.late = file[Live].late /\ g.path = file[Live].path
      BY <2>1 DEF FileSet
    <2> HIDE DEF g
    <2>3. Moves(Live, file[Live], g)
      BY <2>1, <2>2, StaysAsItIs, LiveApart DEF Moves
    <2> QED
      BY <2>1, <2>3, ChangeMoves, LiveApart DEF Change, Types
  <1>4. CASE \E s \in Blobs : Spoil(s)
    <2> PICK s \in Blobs : Spoil(s)
      BY <1>4
    <2>1. PICK st \in {"touched", "rotten"} : /\ st = "rotten" => file[s].size > 0
                                              /\ Change(s, [file[s] EXCEPT !.st = st])
      BY DEF Spoil
    <2> DEFINE g == [file[s] EXCEPT !.st = st]
    <2>2. s \in Sources /\ file[s] \in FileSet /\ file[s].st = "sound" /\ Change(s, g)
      BY <1>0, <2>1, LiveApart DEF Spoil
    <2>3. g \in FileSet /\ g.text = file[s].text /\ g.size = file[s].size
          /\ g.st = st /\ g.late = file[s].late /\ g.path = file[s].path
      BY <2>2 DEF FileSet
    <2> HIDE DEF g
    <2>4. Moves(s, file[s], g)
      BY <2>1, <2>2, <2>3, StaysAsItIs, LiveApart DEF Moves
    <2> QED
      BY <2>2, <2>4, ChangeMoves, LiveApart DEF Change, Types
  <1> QED
    BY <1>1, <1>2, <1>3, <1>4 DEF World

LEMMA StreamType == ASSUME NEW s, NEW f \in FileSet PROVE Stream(s, f) \in Seq(Bytes)
  BY DecodedType DEF FileSet, Stream

LEMMA StreamMoves ==
    ASSUME NEW s, NEW f \in FileSet, NEW g, Moves(s, f, g)
    PROVE  g \in FileSet /\ Begins(Stream(s, f), Stream(s, g))
  <1>1. f.text \in Seq(Bytes) /\ g.text \in Seq(Bytes) /\ Begins(f.text, g.text) /\ g \in FileSet
    BY DEF Moves, FileSet
  <1> QED
    BY <1>1, DecodedBegins DEF Stream

LEMMA BeginsTrans ==
    ASSUME NEW E, NEW p \in Seq(E), NEW q \in Seq(E), NEW r \in Seq(E), Begins(p, q), Begins(q, r)
    PROVE  Begins(p, r)
  <1>1. Len(p) \in Nat /\ Len(q) \in Nat /\ Len(r) \in Nat /\ Len(p) <= Len(q) /\ Len(q) <= Len(r)
    BY DEF Begins
  <1>2. \A i \in 1 .. Len(p) : i \in 1 .. Len(q) /\ p[i] = q[i] /\ q[i] = r[i]
    BY <1>1 DEF Begins
  <1> QED
    BY <1>1, <1>2 DEF Begins

LEMMA LineExtends ==
    ASSUME NEW d \in Seq(Bytes), NEW e \in Seq(Bytes), Begins(d, e),
           NEW p \in Places, p.off <= Len(d), LineAt(d, p)
    PROVE  LineAt(e, p) /\ p.off <= Len(e)
  <1>1. p.off \in Nat
    BY DEF Places
  <1>2. Take(d, p.off) = Take(e, p.off)
    BY <1>1, TakePrefix
  <1>3. p.off <= Len(e)
    <2>1. Len(d) \in Nat /\ Len(e) \in Nat /\ Len(d) <= Len(e)
      BY DEF Begins
    <2> QED
      BY <1>1, <2>1
  <1> QED
    BY <1>2, <1>3 DEF LineAt

LEMMA PlacedMoves ==
    ASSUME NEW s, NEW f \in FileSet, NEW g, Moves(s, f, g),
           NEW q \in Seq(Fragments), NEW p \in Places, NEW a \in BOOLEAN, NEW b \in BOOLEAN,
           a => b \/ g.late, Placed(f, Stream(s, f), q, p, a)
    PROVE  Placed(g, Stream(s, g), q, p, b)
  <1> DEFINE d == Stream(s, f)
             e == Stream(s, g)
  <1>1. d \in Seq(Bytes) /\ e \in Seq(Bytes) /\ Begins(d, e) /\ (f.late => g.late)
    BY StreamMoves, StreamType DEF Moves
  <1> HIDE DEF d, e
  <1>2. p.off <= Len(d) /\ Joined(q) = Take(d, p.off) /\ p.off \in Nat
    BY DEF Placed, Places, d
  <1>3. Take(d, p.off) = Take(e, p.off)
    BY <1>1, <1>2, TakePrefix
  <1>4. p.off <= Len(e)
    <2>1. Len(d) \in Nat /\ Len(e) \in Nat /\ Len(d) <= Len(e)
      BY <1>1 DEF Begins
    <2> QED
      BY <1>2, <2>1
  <1>5. ASSUME ~g.late PROVE Lines(e, q) /\ (LineAt(e, p) \/ b)
    <2>1. Lines(d, q) /\ (LineAt(d, p) \/ a)
      BY <1>1, <1>5 DEF Placed, d
    <2>2. LineAt(d, p) => LineAt(e, p)
      BY <1>1, <1>2, LineExtends
    <2>3. ASSUME NEW i \in 1 .. Len(q) PROVE q[i].start.off <= Len(e) /\ LineAt(e, q[i].start)
      <3>1. q[i].start \in Places /\ q[i].start.off <= Len(d) /\ LineAt(d, q[i].start)
        <4>1. q[i] \in Fragments
          BY ElementOfSeq
        <4>2. q[i].start \in Places
          BY <4>1 DEF Fragments
        <4> QED
          BY <2>1, <4>2 DEF Lines
      <3> QED
        BY <1>1, <3>1, LineExtends
    <2> QED
      BY <1>5, <2>1, <2>2, <2>3 DEF Lines
  <1>6. Placed(g, e, q, p, b)
    BY <1>2, <1>3, <1>4, <1>5 DEF Placed
  <1> QED
    BY <1>6 DEF e

LEMMA OverMoves ==
    ASSUME NEW s \in Sources, NEW f \in FileSet, NEW g, Moves(s, f, g), NEW r, Over(s, f, r)
    PROVE  Over(s, g, r) \/ g.late
  <1>1. CASE s \in Blobs
    BY <1>1, LiveApart DEF Moves, Over, Stream
  <1>2. CASE s = Live
    BY <1>2, LiveApart DEF Moves, Over, Stream
  <1> QED
    BY <1>1, <1>2, LiveApart

RowSet == [at : Places, done : BOOLEAN, size : Nat]

LEMMA WholeMoves ==
    ASSUME NEW s \in Sources, NEW f \in FileSet, NEW g, Moves(s, f, g),
           NEW q \in Seq(Fragments), NEW r \in RowSet, Whole(s, f, q, r)
    PROVE  Whole(s, g, q, r)
  <1>1. Over(s, f, r) \in BOOLEAN /\ Over(s, g, r) \in BOOLEAN /\ r.at \in Places
    BY DEF Over, RowSet
  <1>2. Over(s, f, r) => Over(s, g, r) \/ g.late
    BY OverMoves
  <1> QED
    BY <1>1, <1>2, PlacedMoves DEF Whole

LEMMA BadMoves ==
    ASSUME NEW s \in Sources, NEW f, NEW g, Moves(s, f, g), Bad(f)
    PROVE  Bad(g) /\ g.text = f.text
  BY LiveApart DEF Moves, Bad

LEMMA SpoiltMoves ==
    ASSUME NEW s \in Sources, NEW f, NEW g, Moves(s, f, g), NEW q, Spoilt(f, q)
    PROVE  Spoilt(g, q)
  BY BadMoves DEF Spoilt

LEMMA BeginsMoves ==
    ASSUME NEW s, NEW f \in FileSet, NEW g, Moves(s, f, g), NEW q \in Seq(Bytes), Begins(q, f.text)
    PROVE  Begins(q, g.text)
  <1>1. f.text \in Seq(Bytes) /\ g.text \in Seq(Bytes) /\ Begins(f.text, g.text)
    BY DEF Moves, FileSet
  <1> QED
    BY <1>1, BeginsTrans

LEMMA ArrivedMoves ==
    ASSUME NEW s \in Sources, NEW f \in FileSet, NEW g, Moves(s, f, g), NEW w,
           NEW q \in Seq(Fragments), NEW r \in RowSet, NEW b \in Seq(Bytes), Arrived(s, f, w, q, r, b)
    PROVE  Arrived(s, g, w, q, r, b)
  BY WholeMoves, SpoiltMoves, BeginsMoves DEF Arrived

LEMMA TypedParts ==
    ASSUME Types, NEW s \in Sources
    PROVE  /\ file[s] \in FileSet /\ row[s] \in RowSet /\ sent[s] \in Seq(Fragments)
           /\ row[s].at \in Places /\ wire[s].size \in Nat /\ wire[s].path \in Ways
           /\ file[s].text \in Seq(Bytes) /\ file[s].size \in Nat
  BY DEF Types, RowSet, FileSet

LEMMA TarParts ==
    ASSUME Types
    PROVE  /\ DOMAIN pool.tar \subseteq Sources /\ DOMAIN pool.tar \subseteq Blobs
           /\ \A s \in DOMAIN pool.tar : pool.tar[s] \in Seq(Bytes)
  <1>1. pool.tar \in Tars
    BY DEF Types, PoolSet
  <1>2. PICK D \in SUBSET Blobs : pool.tar \in [D -> Seq(Bytes)]
    BY <1>1 DEF Tars
  <1> QED
    BY <1>2, LiveApart

LEMMA ReadParts ==
    ASSUME Types, pc = "read"
    PROVE  /\ cur \in Sources /\ sent[cur] \in Seq(Fragments) /\ taken \in Seq(Fragments)
           /\ sent[cur] \o taken \in Seq(Fragments) /\ pos \in Places
           /\ rd.bytes \in Seq(Bytes) /\ rd.left \in Seq(Bytes) /\ Data \in Seq(Bytes)
           /\ rd.got \in Nat /\ buf.bytes \in Seq(Bytes) /\ buf.skip \in Nat /\ buf.eof \in BOOLEAN
  <1>1. /\ cur \in Sources /\ taken \in Seq(Fragments) /\ pos \in Places
        /\ rd.bytes \in Seq(Bytes) /\ rd.left \in Seq(Bytes) /\ rd.got \in Nat
        /\ buf.bytes \in Seq(Bytes) /\ buf.skip \in Nat /\ buf.eof \in BOOLEAN
    BY DEF Types, Reader
  <1>2. sent[cur] \in Seq(Fragments)
    BY <1>1, TypedParts
  <1> QED
    BY <1>1, <1>2, ConcatProperties DEF Data

LEMMA WorldKeeps == ASSUME IInv, World PROVE IInv'
  <1>0. /\ Types /\ OnDisk /\ Recorded /\ Rows /\ Reaches /\ Indexed /\ Agenda /\ Kept
        /\ Reading /\ Buffered
    BY DEF IInv
  <1>1. /\ \A s \in Sources : Moves(s, file[s], file'[s])
        /\ DOMAIN file' = Sources /\ file' = [s \in Sources |-> file'[s]]
        /\ UNCHANGED <<durable, run>>
    BY <1>0, WorldMoves
  <1>2. /\ row' = row /\ sent' = sent /\ pc' = pc /\ wire' = wire /\ todo' = todo /\ cur' = cur
        /\ rd' = rd /\ pool' = pool /\ buf' = buf /\ pos' = pos /\ taken' = taken /\ failed' = failed
    BY <1>1 DEF durable, run
  <1>3. Types'
    <2>1. file' \in [Sources -> FileSet]
      BY <1>1 DEF Moves
    <2> QED
      BY <1>0, <1>2, <2>1 DEF Types
  <1>4. OnDisk'
    <2>1. \A s \in Blobs :
             /\ file'[s].size = Len(file'[s].text)
             /\ file'[s].path = "current" /\ ~file'[s].late
             /\ file'[s].st = "rotten" => file'[s].size > 0
      BY <1>0, <1>1, LiveApart DEF OnDisk, Moves
    <2>2. file'[Live].st = "sound" /\ file'[Live].size \in {0, Len(file'[Live].text)}
      BY <1>1, LiveApart DEF Moves
    <2> QED
      BY <2>1, <2>2 DEF OnDisk
  <1>5. Recorded'
    <2>1. ASSUME NEW s \in Sources PROVE wire[s].size <= Len(file'[s].text)
      <3>1. wire[s].size <= Len(file[s].text) /\ wire[s].size \in Nat
        BY <1>0, TypedParts DEF Recorded
      <3>2. Begins(file[s].text, file'[s].text)
        BY <1>1 DEF Moves
      <3>3. Len(file[s].text) \in Nat /\ Len(file'[s].text) \in Nat
        BY <1>1, <1>0, TypedParts DEF Moves, FileSet
      <3> QED
        BY <3>1, <3>2, <3>3 DEF Begins
    <2>2. pc \notin Ended => \A s \in Blobs : wire[s].size = Len(file'[s].text)
      BY <1>0, <1>1, LiveApart DEF Recorded, Moves
    <2>3. wire[Live].path = "rotated" =>
            /\ file'[Live].path = "rotated"
            /\ file'[Live].late \/ wire[Live].size \in {0, Len(file'[Live].text)}
      BY <1>0, <1>1, LiveApart DEF Recorded, Moves
    <2> QED
      BY <1>2, <2>1, <2>2, <2>3 DEF Recorded
  <1>6. Rows'
    <2>1. ASSUME NEW s \in Sources
          PROVE  Whole(s, file'[s], sent[s], row[s]) \/ (Bad(file'[s]) /\ ~row[s].done)
      <3>1. Moves(s, file[s], file'[s]) /\ file[s] \in FileSet /\ sent[s] \in Seq(Fragments)
            /\ row[s] \in RowSet
        BY <1>0, <1>1, TypedParts
      <3>2. Whole(s, file[s], sent[s], row[s]) \/ (Bad(file[s]) /\ ~row[s].done)
        BY <1>0 DEF Rows
      <3> QED
        BY <3>1, <3>2, WholeMoves, BadMoves
    <2> QED
      BY <1>2, <2>1 DEF Rows
  <1>7. Reaches'
    <2>1. ASSUME NEW s \in Sources PROVE Reached(s, file'[s], row[s])
      <3>1. s \in Blobs => file'[s].text = file[s].text
        BY <1>1, LiveApart DEF Moves
      <3>2. Reached(s, file[s], row[s])
        BY <1>0 DEF Reaches
      <3> QED
        BY <3>1, <3>2, LiveApart DEF Reached, Stream
    <2> QED
      BY <1>2, <2>1 DEF Reaches
  <1>8. Indexed'
    BY <1>0, <1>2 DEF Indexed
  <1>9. Agenda'
    <2>1. ASSUME NEW s \in Sources, Unfinished(s, file[s], row[s])
          PROVE  Unfinished(s, file'[s], row[s])
      <3>1. Begins(file[s].text, file'[s].text) /\ row[s].size \in Nat
        BY <1>0, <1>1, TypedParts DEF Moves, RowSet
      <3>2. Len(file[s].text) \in Nat /\ Len(file'[s].text) \in Nat
        BY <1>1, <1>0, TypedParts DEF Moves, FileSet
      <3>3. Len(file[s].text) <= Len(file'[s].text)
        BY <3>1 DEF Begins
      <3> QED
        BY <2>1, <3>1, <3>2, <3>3 DEF Unfinished
    <2>2. todo \subseteq Sources /\ (pc = "read" => cur \in Sources)
      BY <1>0 DEF Types
    <2> QED
      BY <1>0, <1>2, <2>1, <2>2 DEF Agenda
  <1>10. Kept'
    <2>1. ASSUME pc \in {"next", "read"}, NEW s \in DOMAIN pool.tar, s \in todo \/ Fresh(s)
          PROVE  Arrived(s, file'[s], wire[s], sent[s], row[s], pool.tar[s])
      <3>1. Arrived(s, file[s], wire[s], sent[s], row[s], pool.tar[s])
        BY <1>0, <2>1 DEF Kept
      <3>2. s \in Sources /\ pool.tar[s] \in Seq(Bytes)
        BY <1>0, TarParts
      <3> QED
        BY <1>0, <1>1, <3>1, <3>2, TypedParts, ArrivedMoves
    <2>2. \A s : Fresh(s)' <=> Fresh(s)
      BY <1>2 DEF Fresh
    <2> QED
      BY <1>2, <2>1, <2>2 DEF Kept
  <1>11. Reading'
    <2> SUFFICES ASSUME pc = "read" PROVE Reading'
      BY <1>2 DEF Reading
    <2>0. Data' = Data
      BY <1>2 DEF Data
    <2>1. Moves(cur, file[cur], file'[cur]) /\ file[cur] \in FileSet /\ cur \in Sources
          /\ sent[cur] \o taken \in Seq(Fragments) /\ pos \in Places /\ Data \in Seq(Bytes)
          /\ buf.eof \in BOOLEAN /\ file[cur].text \in Seq(Bytes)
      BY <1>0, <1>1, ReadParts, TypedParts
    <2>2. cur \in Blobs => file'[cur].text = file[cur].text
      BY <2>1 DEF Moves
    <2> DEFINE a == PosOver(cur, file[cur], wire[cur], buf, pos)
               b == PosOver(cur, file'[cur], wire[cur], buf, pos)
    <2>3. a \in BOOLEAN /\ b \in BOOLEAN
      BY <2>1 DEF PosOver
    <2>4. a => b \/ file'[cur].late
      <3>1. CASE cur \in Blobs
        BY <2>2, <3>1 DEF PosOver, Stream
      <3>2. CASE cur = Live
        <4>1. wire[Live].path = "rotated" =>
                file[Live].path = "rotated" /\ (file'[Live].late \/ file'[Live].text = file[Live].text)
          BY <1>0, <2>1, <3>2 DEF Recorded, Moves
        <4> QED
          BY <3>2, <4>1 DEF PosOver, Stream
      <3> QED
        BY <2>1, <3>1, <3>2, LiveApart
    <2> HIDE DEF a, b
    <2>5. Placed(file[cur], Stream(cur, file[cur]), sent[cur] \o taken, pos, a)
          => Placed(file'[cur], Stream(cur, file'[cur]), sent[cur] \o taken, pos, b)
      <3> DEFINE f == file[cur]
                 g == file'[cur]
                 q == sent[cur] \o taken
      <3>1. f \in FileSet /\ Moves(cur, f, g) /\ q \in Seq(Fragments) /\ pos \in Places
            /\ (a => b \/ g.late)
        BY <2>1, <2>4
      <3> HIDE DEF f, g, q
      <3>2. Placed(f, Stream(cur, f), q, pos, a) => Placed(g, Stream(cur, g), q, pos, b)
        BY <2>3, <3>1, PlacedMoves
      <3> QED
        BY <3>2 DEF f, g, q
    <2>6. Begins(Data, file[cur].text) => Begins(Data, file'[cur].text)
      BY <2>1, BeginsMoves
    <2>7. Spoilt(file[cur], Data) => Spoilt(file'[cur], Data)
      BY <2>1, SpoiltMoves
    <2>8. /\ rd.got = Len(rd.bytes) /\ rd.got + Len(rd.left) <= wire[cur].size
          /\ Data = <<>> => taken = <<>> /\ pos = row[cur].at
          /\ Data # <<>> =>
               \/ /\ Begins(Data, file[cur].text)
                  /\ Placed(file[cur], Stream(cur, file[cur]), sent[cur] \o taken, pos, a)
               \/ Spoilt(file[cur], Data)
          /\ cur \in Blobs /\ rd.got = wire[cur].size /\ rd.got > 0 => rd.bytes = file[cur].text
      BY <1>0 DEF Reading, a
    <2>9. /\ rd.got = Len(rd.bytes) /\ rd.got + Len(rd.left) <= wire[cur].size
          /\ Data = <<>> => taken = <<>> /\ pos = row[cur].at
          /\ Data # <<>> =>
               \/ /\ Begins(Data, file'[cur].text)
                  /\ Placed(file'[cur], Stream(cur, file'[cur]), sent[cur] \o taken, pos, b)
               \/ Spoilt(file'[cur], Data)
          /\ cur \in Blobs /\ rd.got = wire[cur].size /\ rd.got > 0 => rd.bytes = file'[cur].text
      BY <2>2, <2>5, <2>6, <2>7, <2>8
    <2> QED
      BY <1>2, <2>0, <2>9 DEF Reading, b
  <1>12. Buffered'
    BY <1>0, <1>2 DEF Buffered
  <1> QED
    BY <1>3, <1>4, <1>5, <1>6, <1>7, <1>8, <1>9, <1>10, <1>11, <1>12 DEF IInv

-----------------------------------------------------------------------------
(***************************************************************************)
(* The invariant holds at the start and over every action of a run.        *)
(***************************************************************************)
LEMMA PlacedStart ==
    ASSUME NEW f, NEW d \in Seq(Bytes), NEW b \in BOOLEAN
    PROVE  Placed(f, d, <<>>, Start, b)
  <1>1. Take(d, 0) = <<>> /\ Joined(<<>>) = <<>> /\ Len(d) \in Nat
    BY TakingNone, JoinedEmpty
  <1>2. Newlines(<<>>) = 0
    <2>1. <<>> \in Seq(Bytes) /\ \A i \in 1 .. Len(<<>>) : <<>>[i] # "n"
      BY EmptySeq
    <2> QED
      BY <2>1, NewlinesNone
  <1>3. Start.off = 0 /\ Start.line = 1
    BY DEF Start
  <1>4. Lines(d, <<>>)
    BY DEF Lines
  <1>5. LineAt(d, Start)
    BY <1>1, <1>2, <1>3 DEF LineAt
  <1> QED
    BY <1>1, <1>3, <1>4, <1>5 DEF Placed

LEMMA InitKeeps == Init => IInv
  <1> SUFFICES ASSUME Init PROVE IInv
    OBVIOUS
  <1>0. PICK t \in {u \in [Sources -> UNION {Texts[s] : s \in Sources}] :
                      \A s \in Sources : u[s] \in Texts[s]} :
           file = [s \in Sources |-> [text |-> t[s], size |-> Len(t[s]), path |-> "current",
                                      late |-> FALSE, st |-> "sound"]]
    BY DEF Init
  <1>1. /\ row = [s \in Sources |-> [at |-> Start, done |-> FALSE, size |-> 0]]
        /\ sent = [s \in Sources |-> <<>>]
        /\ pc = "idle" /\ wire = [s \in Sources |-> [size |-> 0, path |-> "current"]]
        /\ todo = {} /\ cur = 0 /\ rd = NoReader /\ pool = NoPool /\ buf = NoBuf
        /\ pos = Start /\ taken = <<>> /\ failed = {}
    BY DEF Init
  <1>2. Start \in Places
    BY DEF Start, Places
  <1>3. ASSUME NEW s \in Sources
        PROVE  /\ file[s] = [text |-> t[s], size |-> Len(t[s]), path |-> "current",
                             late |-> FALSE, st |-> "sound"]
               /\ t[s] \in Seq(Bytes) /\ Len(t[s]) \in Nat /\ file[s] \in FileSet
    <2>1. t[s] \in Seq(Bytes)
      BY StreamAssumption
    <2>2. Len(t[s]) \in Nat
      BY <2>1
    <2> QED
      BY <1>0, <2>1, <2>2 DEF FileSet, Ways
  <1>4. ASSUME NEW s \in Sources
        PROVE  /\ row[s] = [at |-> Start, done |-> FALSE, size |-> 0] /\ sent[s] = <<>>
               /\ wire[s] = [size |-> 0, path |-> "current"]
    BY <1>1
  <1>5. Types
    <2>1. file \in [Sources -> FileSet]
      BY <1>0, <1>3
    <2>2. row \in [Sources -> [at : Places, done : BOOLEAN, size : Nat]]
          /\ wire \in [Sources -> [size : Nat, path : Ways]]
      BY <1>1, <1>2 DEF Ways
    <2>3. sent \in [Sources -> Seq(Fragments)] /\ taken \in Seq(Fragments)
      BY <1>1, EmptySeq
    <2>4. rd \in Reader
      BY <1>1, EmptySeq DEF NoReader, Reader
    <2>5. pool \in PoolSet
      <3>1. <<>> \in [{} -> Seq(Bytes)]
        OBVIOUS
      <3>2. [{} -> Seq(Bytes)] \in {[D -> Seq(Bytes)] : D \in SUBSET Blobs}
        OBVIOUS
      <3>3. <<>> \in Tars
        BY <3>1, <3>2 DEF Tars
      <3> QED
        BY <1>1, <3>3, EmptySeq DEF NoPool, PoolSet
    <2>6. buf \in [bytes : Seq(Bytes), eof : BOOLEAN, skip : Nat]
      BY <1>1, EmptySeq DEF NoBuf
    <2> QED
      BY <1>1, <1>2, <2>1, <2>2, <2>3, <2>4, <2>5, <2>6 DEF Types, Ended
  <1>6. OnDisk
    <2>1. ASSUME NEW s \in Blobs
          PROVE  /\ file[s].size = Len(file[s].text)
                 /\ file[s].path = "current" /\ ~file[s].late
                 /\ file[s].st = "rotten" => file[s].size > 0
      <3>1. s \in Sources
        BY LiveApart
      <3>2. file[s] = [text |-> t[s], size |-> Len(t[s]), path |-> "current",
                       late |-> FALSE, st |-> "sound"]
        BY <1>3, <3>1
      <3> QED
        BY <3>2
    <2>2. file[Live].st = "sound" /\ file[Live].size \in {0, Len(file[Live].text)}
      <3>1. file[Live] = [text |-> t[Live], size |-> Len(t[Live]), path |-> "current",
                          late |-> FALSE, st |-> "sound"]
        BY <1>3, LiveApart
      <3> QED
        BY <3>1
    <2> QED
      BY <2>1, <2>2 DEF OnDisk
  <1>7. Recorded
    <2>1. ASSUME NEW s \in Sources PROVE wire[s].size <= Len(file[s].text)
      BY <1>3, <1>4
    <2>2. wire[Live].path = "current"
      BY <1>4, LiveApart
    <2> QED
      BY <1>1, <2>1, <2>2 DEF Recorded, Ended
  <1>8. Rows
    <2> SUFFICES ASSUME NEW s \in Sources PROVE Whole(s, file[s], sent[s], row[s])
      BY DEF Rows
    <2>1. Stream(s, file[s]) \in Seq(Bytes) /\ Over(s, file[s], row[s]) \in BOOLEAN
      BY <1>3, StreamType DEF Over
    <2> QED
      BY <1>4, <2>1, PlacedStart DEF Whole
  <1>9. Reaches
    BY <1>4 DEF Reaches, Reached
  <1>10. Indexed
    BY <1>1, <1>4, NumberedStart DEF Indexed
  <1>11. Agenda
    BY <1>1 DEF Agenda, Ended, NoPool
  <1>12. Kept /\ Reading /\ Buffered
    BY <1>1 DEF Kept, Reading, Buffered
  <1> QED
    BY <1>5, <1>6, <1>7, <1>8, <1>9, <1>10, <1>11, <1>12 DEF IInv

LEMMA Parts ==
    ASSUME IInv
    PROVE  /\ Types /\ OnDisk /\ Recorded /\ Rows /\ Reaches /\ Indexed /\ Agenda /\ Kept
           /\ Reading /\ Buffered
  BY DEF IInv

\* What was archived stands as long as neither it nor a file changes.
LEMMA Archive ==
    ASSUME OnDisk, Rows, Reaches, UNCHANGED <<file, durable>>
    PROVE  OnDisk' /\ Rows' /\ Reaches' /\ file' = file /\ row' = row /\ sent' = sent
  <1>1. file' = file /\ row' = row /\ sent' = sent
    BY DEF durable
  <1>2. OnDisk'
    BY <1>1 DEF OnDisk
  <1>3. Rows'
    BY <1>1 DEF Rows
  <1>4. Reaches'
    BY <1>1 DEF Reaches
  <1> QED
    BY <1>1, <1>2, <1>3, <1>4

LEMMA HintsType ==
    ASSUME Types, NEW S \in SUBSET Blobs
    PROVE  Hints(S) \in Seq({s \in Blobs : file[s].size > 0}) /\ Hints(S) \in Seq(Blobs)
  <1> DEFINE E == {s \in S : file[s].size > 0}
  <1>1. [s \in Blobs |-> s] \in Seq(Blobs)
    BY StreamAssumption DEF Blobs
  <1>2. Hints(S) \in Seq(Blobs \cap E)
    BY <1>1, KeepingType DEF Hints
  <1>3. Blobs \cap E \subseteq {s \in Blobs : file[s].size > 0} /\ Blobs \cap E \subseteq Blobs
    OBVIOUS
  <1> HIDE DEF E
  <1>4. ASSUME NEW A, NEW B, A \subseteq B, NEW q \in Seq(A) PROVE q \in Seq(B)
    BY <1>4
  <1> QED
    BY <1>2, <1>3, <1>4

LEMMA BeginKeeps == ASSUME IInv, Begin PROVE IInv'
  <1>0. /\ Types /\ OnDisk /\ Recorded /\ Rows /\ Reaches /\ Indexed /\ Agenda /\ Kept
        /\ Reading /\ Buffered
    BY Parts
  <1>1. /\ wire' = [s \in Sources |-> [size |-> file[s].size, path |-> file[s].path]]
        /\ todo' = {s \in Sources : Left(s) /\ (s = Live => file[s].size >= row[s].size)}
        /\ pool' = [NoPool EXCEPT !.hints = Hints({s \in Blobs : Left(s)})]
        /\ pc' = "next" /\ failed' = {}
        /\ UNCHANGED <<file, durable, cur, rd, buf, pos, taken>>
    BY DEF Begin
  <1>2. OnDisk' /\ Rows' /\ Reaches' /\ file' = file /\ row' = row /\ sent' = sent
    BY <1>0, <1>1, Archive
  <1>3. ASSUME NEW s \in Sources
        PROVE  /\ file[s] \in FileSet /\ file[s].size \in Nat /\ file[s].path \in Ways
               /\ file[s].size <= Len(file[s].text) /\ Len(file[s].text) \in Nat
               /\ wire'[s].size = file[s].size /\ wire'[s].path = file[s].path
    <2>1. file[s] \in FileSet /\ Len(file[s].text) \in Nat
      BY <1>0, TypedParts DEF FileSet
    <2>2. file[s].size <= Len(file[s].text)
      BY <1>0, <2>1, LiveApart DEF OnDisk
    <2> QED
      BY <1>1, <2>1, <2>2 DEF FileSet
  <1>4. pool'.hints \in Seq({s \in Blobs : file[s].size > 0}) /\ pool'.hints \in Seq(Blobs)
        /\ pool'.next = 1 /\ pool'.tar = <<>> /\ pool'.held = 0 /\ pool' \in PoolSet
    <2> DEFINE h == Hints({s \in Blobs : Left(s)})
    <2>1. h \in Seq({s \in Blobs : file[s].size > 0}) /\ h \in Seq(Blobs)
      BY <1>0, HintsType
    <2> HIDE DEF h
    <2>2. <<>> \in Tars
      <3>1. <<>> \in [{} -> Seq(Bytes)]
        OBVIOUS
      <3>2. [{} -> Seq(Bytes)] \in {[D -> Seq(Bytes)] : D \in SUBSET Blobs}
        OBVIOUS
      <3> QED
        BY <3>1, <3>2 DEF Tars
    <2>3. pool' = [hints |-> h, next |-> 1, tar |-> <<>>, held |-> 0]
      BY <1>1 DEF NoPool, h
    <2> QED
      BY <2>1, <2>2, <2>3 DEF PoolSet
  <1>5. Types'
    <2>1. wire' \in [Sources -> [size : Nat, path : Ways]]
      <3>1. \A s \in Sources : file[s].size \in Nat /\ file[s].path \in Ways
        BY <1>3
      <3> QED
        BY <1>1, <3>1
    <2>2. todo' \in SUBSET Sources /\ failed' \in SUBSET Sources
      BY <1>1
    <2> QED
      BY <1>0, <1>1, <1>2, <1>4, <2>1, <2>2 DEF Types
  <1>6. Recorded'
    <2>1. ASSUME NEW s \in Sources PROVE wire'[s].size <= Len(file'[s].text)
      BY <1>2, <1>3
    <2>2. ASSUME NEW s \in Blobs PROVE wire'[s].size = Len(file'[s].text)
      <3>1. s \in Sources /\ file[s].size = Len(file[s].text)
        BY <1>0, LiveApart DEF OnDisk
      <3> QED
        BY <1>2, <1>3, <3>1
    <2>3. wire'[Live].path = "rotated" =>
            /\ file'[Live].path = "rotated"
            /\ file'[Live].late \/ wire'[Live].size \in {0, Len(file'[Live].text)}
      BY <1>0, <1>2, <1>3, LiveApart DEF OnDisk
    <2> QED
      BY <2>1, <2>2, <2>3 DEF Recorded
  <1>7. Indexed'
    BY <1>0, <1>1, <1>2 DEF Indexed
  <1>8. Agenda'
    <2>1. ASSUME NEW s \in todo' PROVE Unfinished(s, file[s], row[s])
      <3>1. Left(s) /\ s \in Sources
        BY <1>1
      <3>2. row[s].size \in Nat
        BY <1>0, <3>1, TypedParts DEF RowSet
      <3>3. s = Live => file[s].size \in {0, Len(file[s].text)}
        BY <1>0 DEF OnDisk
      <3> QED
        BY <1>3, <3>1, <3>2, <3>3 DEF Left, Unfinished
    <2>2. ASSUME NEW i \in 1 .. Len(pool'.hints) PROVE wire'[pool'.hints[i]].size > 0
      <3>1. pool'.hints[i] \in {s \in Blobs : file[s].size > 0}
        BY <1>4
      <3>2. pool'.hints[i] \in Sources
        BY <3>1, LiveApart
      <3> QED
        BY <1>3, <3>1, <3>2
    <2> QED
      BY <1>1, <1>2, <1>4, <2>1, <2>2 DEF Agenda
  <1>9. Kept'
    BY <1>4 DEF Kept
  <1>10. Reading' /\ Buffered'
    BY <1>1 DEF Reading, Buffered
  <1> QED
    BY <1>2, <1>5, <1>6, <1>7, <1>8, <1>9, <1>10 DEF IInv

LEMMA OpenKeeps == ASSUME IInv, Open PROVE IInv'
  <1>0. /\ Types /\ OnDisk /\ Recorded /\ Rows /\ Reaches /\ Indexed /\ Agenda /\ Kept
        /\ Reading /\ Buffered
    BY Parts
  <1> DEFINE s == CHOOSE t \in todo : \A u \in todo : t <= u
  <1>1. s \in todo /\ s \in Sources
    <2>1. todo \in SUBSET Nat /\ todo # {} /\ todo \subseteq Sources
      <3>1. Sources \subseteq Nat
        BY StreamAssumption DEF Sources, Live
      <3>2. todo \subseteq Sources /\ todo # {}
        BY <1>0 DEF Types, Open
      <3> QED
        BY <3>1, <3>2
    <2>2. \E t \in todo : \A u \in todo : t <= u
      BY <2>1, Least
    <2> QED
      BY <2>1, <2>2
  <1>2. /\ cur' = s /\ todo' = todo \ {s} /\ pos' = row[s].at
        /\ buf' = [NoBuf EXCEPT !.skip = row[s].at.off]
        /\ rd' = NoReader /\ taken' = <<>> /\ pc' = "read" /\ pc = "next"
        /\ UNCHANGED <<file, durable, wire, pool, failed>>
    BY DEF Open
  <1> HIDE DEF s
  <1>3. OnDisk' /\ Rows' /\ Reaches' /\ file' = file /\ row' = row /\ sent' = sent
    BY <1>0, <1>2, Archive
  <1>4. row[s].at \in Places /\ row[s].at.off \in Nat /\ sent[s] \in Seq(Fragments) /\ wire[s].size \in Nat
    BY <1>0, <1>1, TypedParts DEF Places
  <1>5. buf' = [bytes |-> <<>>, eof |-> FALSE, skip |-> row[s].at.off]
    BY <1>2 DEF NoBuf
  <1>6. rd' = [got |-> 0, left |-> <<>>, bytes |-> <<>>, pooled |-> FALSE, eof |-> FALSE]
    BY <1>2 DEF NoReader
  <1>7. Types'
    <2>1. rd' \in Reader
      BY <1>6, EmptySeq DEF Reader
    <2>2. buf' \in [bytes : Seq(Bytes), eof : BOOLEAN, skip : Nat]
      BY <1>4, <1>5, EmptySeq
    <2>3. taken' \in Seq(Fragments)
      BY <1>2, EmptySeq
    <2> QED
      BY <1>0, <1>1, <1>2, <1>3, <1>4, <2>1, <2>2, <2>3 DEF Types
  <1>8. Recorded'
    BY <1>0, <1>2, <1>3 DEF Recorded, Ended
  <1>9. Indexed'
    <2>1. sent[s] \o <<>> = sent[s]
      BY <1>4, ConcatEmptySeq
    <2> QED
      BY <1>0, <1>1, <1>2, <1>3, <2>1 DEF Indexed
  <1>10. Agenda'
    <2>1. \A t \in todo' \cup {cur'} : Unfinished(t, file[t], row[t])
      BY <1>0, <1>1, <1>2 DEF Agenda
    <2>2. pool.held # 1 /\ \A i \in 1 .. Len(pool.hints) : wire[pool.hints[i]].size > 0
      BY <1>0, <1>2 DEF Agenda, Ended
    <2> QED
      BY <1>2, <1>3, <2>1, <2>2 DEF Agenda
  <1>11. Kept'
    <2> SUFFICES ASSUME NEW t \in DOMAIN pool'.tar, t \in todo' \/ Fresh(t)'
                 PROVE  Arrived(t, file'[t], wire'[t], sent'[t], row'[t], pool'.tar[t])
      BY DEF Kept
    <2>1. t \in todo
      BY <1>1, <1>2 DEF Fresh
    <2> QED
      BY <1>0, <1>2, <1>3, <2>1 DEF Kept
  <1>12. Reading'
    <2>1. Data' = <<>>
      BY <1>6, ConcatEmptySeq, EmptySeq DEF Data
    <2>2. rd'.got = Len(rd'.bytes) /\ rd'.got + Len(rd'.left) <= wire'[cur'].size
      BY <1>2, <1>4, <1>6
    <2>3. taken' = <<>> /\ pos' = row'[cur'].at /\ ~(rd'.got > 0)
      BY <1>2, <1>3, <1>6
    <2> QED
      BY <2>1, <2>2, <2>3 DEF Reading
  <1>13. Buffered'
    <2>1. Decoded(cur', rd'.bytes) = <<>>
      BY <1>6, DecodedEmpty
    <2>2. Follows(<<>>, pos', buf')
      BY <1>2, <1>4, <1>5 DEF Follows
    <2> QED
      BY <1>2, <1>3, <1>4, <1>5, <2>1, <2>2 DEF Buffered
  <1> QED
    BY <1>3, <1>7, <1>8, <1>9, <1>10, <1>11, <1>12, <1>13 DEF IInv

LEMMA GiveUpKeeps ==
    ASSUME IInv, pc = "read", NEW h, NEW p \in PoolSet, GiveUp(p, h),
           p.hints = pool.hints, p.tar = pool.tar \/ p.tar = <<>>
    PROVE  IInv'
  <1>0. /\ Types /\ OnDisk /\ Recorded /\ Rows /\ Reaches /\ Indexed /\ Agenda /\ Kept
        /\ Reading /\ Buffered
    BY Parts
  <1>1. /\ failed' = failed \cup {cur} /\ pc' = "next" /\ taken' = <<>> /\ rd' = NoReader
        /\ pool' = [p EXCEPT !.held = 0]
        /\ UNCHANGED <<file, durable, wire, todo, cur, buf, pos>>
    BY DEF GiveUp
  <1>2. OnDisk' /\ Rows' /\ Reaches' /\ file' = file /\ row' = row /\ sent' = sent
    BY <1>0, <1>1, Archive
  <1>3. pool'.hints = pool.hints /\ pool'.held = 0 /\ pool' \in PoolSet
        /\ (pool'.tar = pool.tar \/ pool'.tar = <<>>)
    BY <1>1 DEF PoolSet
  <1>4. Types'
    <2>1. rd' \in Reader
      BY <1>1, EmptySeq DEF Reader, NoReader
    <2>2. taken' \in Seq(Fragments) /\ failed' \in SUBSET Sources
      BY <1>0, <1>1, EmptySeq DEF Types
    <2> QED
      BY <1>0, <1>1, <1>2, <1>3, <2>1, <2>2 DEF Types
  <1>5. Recorded'
    BY <1>0, <1>1, <1>2 DEF Recorded, Ended
  <1>6. Indexed'
    BY <1>0, <1>1, <1>2 DEF Indexed
  <1>7. Agenda'
    <2>1. \A i \in 1 .. Len(pool.hints) : wire[pool.hints[i]].size > 0
      BY <1>0 DEF Agenda, Ended
    <2>2. \A t \in todo : Unfinished(t, file[t], row[t])
      BY <1>0 DEF Agenda
    <2> QED
      BY <1>1, <1>2, <1>3, <2>1, <2>2 DEF Agenda
  <1>8. Kept'
    <2> SUFFICES ASSUME NEW t \in DOMAIN pool'.tar, t \in todo' \/ Fresh(t)'
                 PROVE  Arrived(t, file'[t], wire'[t], sent'[t], row'[t], pool'.tar[t])
      BY DEF Kept
    <2>1. t \in todo /\ pool'.tar = pool.tar
      BY <1>1, <1>3 DEF Fresh
    <2> QED
      BY <1>0, <1>1, <1>2, <2>1 DEF Kept
  <1>9. Reading' /\ Buffered'
    BY <1>1 DEF Reading, Buffered
  <1> QED
    BY <1>2, <1>4, <1>5, <1>6, <1>7, <1>8, <1>9 DEF IInv

\* A window that arrives is the beginning of its source or what follows what was read, or
\* the beginning of a source that rotted.
LEMMA ReceiveKeeps ==
    ASSUME IInv, pc = "read", rd.left = <<>>, NEW bytes \in Seq(Bytes), bytes # <<>>,
           NEW pooled \in BOOLEAN, Receive(bytes, pooled),
           rd.got + Len(bytes) <= wire[cur].size,
           pool' \in PoolSet, pool'.hints = pool.hints,
           \A s \in DOMAIN pool'.tar : s \in todo =>
                Arrived(s, file[s], wire[s], sent[s], row[s], pool'.tar[s]),
           rd.got = 0 => \/ Begins(bytes, file[cur].text) /\ Whole(cur, file[cur], sent[cur], row[cur])
                         \/ Spoilt(file[cur], bytes),
           rd.got > 0 => \A i \in 1 .. Len(bytes) : bytes[i] = file[cur].text[rd.got + i]
    PROVE  IInv'
  <1>0. /\ Types /\ OnDisk /\ Recorded /\ Rows /\ Reaches /\ Indexed /\ Agenda /\ Kept
        /\ Reading /\ Buffered
    BY Parts
  <1>1. /\ rd' = [rd EXCEPT !.left = bytes, !.pooled = pooled]
        /\ UNCHANGED <<file, durable, pc, wire, todo, cur, buf, pos, taken, failed>>
    BY DEF Receive
  <1>2. OnDisk' /\ Rows' /\ Reaches' /\ file' = file /\ row' = row /\ sent' = sent
    BY <1>0, <1>1, Archive
  <1>3. /\ cur \in Sources /\ sent[cur] \in Seq(Fragments) /\ taken \in Seq(Fragments)
        /\ sent[cur] \o taken \in Seq(Fragments) /\ pos \in Places
        /\ rd.bytes \in Seq(Bytes) /\ rd.left \in Seq(Bytes) /\ Data \in Seq(Bytes)
        /\ rd.got \in Nat
    BY <1>0, ReadParts
  <1>4. /\ rd' \in Reader /\ rd'.got = rd.got /\ rd'.bytes = rd.bytes /\ rd'.left = bytes
        /\ Data' = rd.bytes \o bytes
    <2>1. rd \in Reader
      BY <1>0 DEF Types
    <2>2. rd' \in Reader /\ rd'.got = rd.got /\ rd'.bytes = rd.bytes /\ rd'.left = bytes
      BY <1>1, <2>1 DEF Reader
    <2> QED
      BY <2>2 DEF Data
  <1>5. Len(bytes) \in Nat \ {0}
    BY EmptySeq
  <1>6. Types'
    BY <1>0, <1>1, <1>2, <1>4 DEF Types
  <1>7. Recorded'
    BY <1>0, <1>1, <1>2 DEF Recorded
  <1>8. Indexed'
    BY <1>0, <1>1, <1>2 DEF Indexed
  <1>9. Agenda'
    BY <1>0, <1>1, <1>2, <1>4 DEF Agenda
  <1>10. Kept'
    <2> SUFFICES ASSUME NEW t \in DOMAIN pool'.tar, t \in todo' \/ Fresh(t)'
                 PROVE  Arrived(t, file'[t], wire'[t], sent'[t], row'[t], pool'.tar[t])
      BY DEF Kept
    <2>1. t \in todo
      BY <1>1, <1>4 DEF Fresh
    <2> QED
      BY <1>1, <1>2, <2>1
  <1>11. Buffered'
    BY <1>0, <1>1, <1>2, <1>4 DEF Buffered
  <1>12. file[cur].text \in Seq(Bytes) /\ file[cur] \in FileSet /\ wire[cur].size \in Nat
         /\ wire[cur].size <= Len(file[cur].text) /\ Len(file[cur].text) \in Nat
    BY <1>0, <1>3, TypedParts DEF Recorded
  <1>13. rd.got = Len(rd.bytes) /\ Data = rd.bytes
    BY <1>0, <1>3, ConcatEmptySeq DEF Reading, Data
  <1> DEFINE over == PosOver(cur, file[cur], wire[cur], buf, pos)
  <1>14. /\ rd.bytes \o bytes # <<>>
         /\ \/ /\ Begins(rd.bytes \o bytes, file[cur].text)
               /\ Placed(file[cur], Stream(cur, file[cur]), sent[cur] \o taken, pos, over)
            \/ Spoilt(file[cur], rd.bytes \o bytes)
    <2>0. Len(rd.bytes \o bytes) = rd.got + Len(bytes) /\ rd.bytes \o bytes \in Seq(Bytes)
          /\ \A i \in 1 .. Len(rd.bytes) + Len(bytes) :
               (rd.bytes \o bytes)[i] = IF i <= Len(rd.bytes) THEN rd.bytes[i] ELSE bytes[i - Len(rd.bytes)]
      BY <1>3, <1>13, ConcatProperties
    <2>00. rd.bytes \o bytes # <<>>
      <3>1. Len(rd.bytes \o bytes) # 0
        BY <1>3, <1>5, <2>0
      <3> QED
        BY <3>1
    <2>1. CASE rd.got = 0
      <3>1. rd.bytes = <<>> /\ rd.bytes \o bytes = bytes
        BY <1>3, <1>13, <2>1, EmptySeq, ConcatEmptySeq
      <3>2. taken = <<>> /\ pos = row[cur].at /\ sent[cur] \o taken = sent[cur]
        BY <1>0, <1>3, <1>13, <3>1, ConcatEmptySeq DEF Reading
      <3>3. ~Over(cur, file[cur], row[cur])
        BY <1>0, <1>3, <1>12, TypedParts DEF Agenda, Unfinished, Over, RowSet
      <3>4. Whole(cur, file[cur], sent[cur], row[cur]) =>
              Placed(file[cur], Stream(cur, file[cur]), sent[cur] \o taken, pos, over)
        BY <3>2, <3>3 DEF Whole, Placed
      <3> QED
        BY <2>1, <2>00, <3>1, <3>4
    <2>2. CASE rd.got > 0
      <3>1. rd.bytes # <<>> /\ 1 \in 1 .. Len(rd.bytes)
        BY <1>3, <1>13, <2>2, EmptySeq
      <3>2. \/ /\ Begins(rd.bytes, file[cur].text)
               /\ Placed(file[cur], Stream(cur, file[cur]), sent[cur] \o taken, pos, over)
            \/ Spoilt(file[cur], rd.bytes)
        BY <1>0, <1>13, <3>1 DEF Reading
      <3>3. ASSUME Begins(rd.bytes, file[cur].text) PROVE Begins(rd.bytes \o bytes, file[cur].text)
        <4>1. ASSUME NEW i \in 1 .. rd.got + Len(bytes)
              PROVE  (rd.bytes \o bytes)[i] = file[cur].text[i]
          <5>1. CASE i <= rd.got
            <6>1. i \in 1 .. Len(rd.bytes) /\ i \in 1 .. Len(rd.bytes) + Len(bytes)
              BY <1>3, <1>5, <1>13, <5>1
            <6> QED
              BY <2>0, <3>3, <6>1 DEF Begins
          <5>2. CASE ~(i <= rd.got)
            <6>1. i - rd.got \in 1 .. Len(bytes) /\ rd.got + (i - rd.got) = i
                  /\ i \in 1 .. Len(rd.bytes) + Len(bytes)
              <7> DEFINE g == rd.got
                         n == Len(bytes)
              <7>1. g \in Nat /\ n \in Nat /\ i \in 1 .. g + n /\ ~(i <= g) /\ Len(rd.bytes) = g
                BY <1>3, <1>5, <1>13, <5>2
              <7> HIDE DEF g, n
              <7>2. i - g \in 1 .. n /\ g + (i - g) = i
                BY <7>1
              <7> QED
                BY <7>1, <7>2 DEF g, n
            <6>2. (rd.bytes \o bytes)[i] = bytes[i - rd.got]
              BY <1>13, <2>0, <5>2, <6>1
            <6> QED
              BY <2>2, <6>1, <6>2
          <5> QED
            BY <5>1, <5>2
        <4>2. rd.got + Len(bytes) <= Len(file[cur].text)
          BY <1>3, <1>5, <1>12
        <4> QED
          BY <2>0, <4>1, <4>2 DEF Begins
      <3>4. ASSUME Spoilt(file[cur], rd.bytes) PROVE Spoilt(file[cur], rd.bytes \o bytes)
        <4>1. (rd.bytes \o bytes)[1] = rd.bytes[1]
          <5>1. 1 \in 1 .. Len(rd.bytes) + Len(bytes) /\ 1 <= Len(rd.bytes)
            BY <1>3, <1>5, <1>13, <2>2
          <5> QED
            BY <2>0, <5>1
        <4> QED
          BY <2>00, <3>4, <4>1 DEF Spoilt
      <3> QED
        BY <2>00, <3>2, <3>3, <3>4
    <2> QED
      BY <1>3, <2>1, <2>2
  <1> HIDE DEF over
  <1>15. Reading'
    <2>1. rd.got # wire[cur].size
      BY <1>3, <1>5, <1>12
    <2>2. over' = over
      BY <1>1, <1>2 DEF over
    <2> QED
      BY <1>1, <1>2, <1>4, <1>13, <1>14, <2>1 DEF Reading, over
  <1> QED
    BY <1>2, <1>6, <1>7, <1>8, <1>9, <1>10, <1>11, <1>15 DEF IInv

\* The first window of a source that was read.
LEMMA FirstArrives ==
    ASSUME Types, OnDisk, Recorded, Rows, pc \notin Ended, NEW s \in Sources, wire[s].size > 0,
           Readable(Request(s, 0, First(s)))
    PROVE  /\ Excerpt(Request(s, 0, First(s))).bytes \in Seq(Bytes)
           /\ Arrived(s, file[s], wire[s], sent[s], row[s], Excerpt(Request(s, 0, First(s))).bytes)
  <1> DEFINE n == First(s)
             b == Excerpt(Request(s, 0, n)).bytes
             t == file[s].text
  <1>1. wire[s].size \in Nat /\ t \in Seq(Bytes) /\ wire[s].size <= Len(t) /\ Len(t) \in Nat
    BY TypedParts DEF Recorded
  <1>2. n \in Nat \ {0} /\ n <= wire[s].size /\ 0 + n <= wire[s].size
        /\ n = Lesser(Window, wire[s].size)
    BY <1>1, StreamAssumption DEF First, Lesser
  <1> HIDE DEF n
  <1>3. /\ b \in Seq(Bytes) /\ Len(b) = n
        /\ ~Bad(file[s]) => \A i \in 1 .. n : b[i] = t[0 + i]
        /\ Bad(file[s]) => b[1] # t[1]
    <2>1. Readable(Request(s, 0, n))
      BY DEF n
    <2>2. 0 \in Nat /\ ~(0 > 0)
      OBVIOUS
    <2>3. /\ b \in Seq(Bytes) /\ Len(b) = n
          /\ 0 > 0 \/ ~Bad(file[s]) => \A i \in 1 .. n : b[i] = t[0 + i]
          /\ 0 = 0 /\ Bad(file[s]) => b[1] # t[1]
      BY <1>2, <2>1, <2>2, Delivered
    <2> QED
      BY <2>3
  <1> HIDE DEF b
  <1>4. CASE Bad(file[s])
    <2>1. b # <<>>
      BY <1>2, <1>3
    <2> QED
      BY <1>2, <1>3, <1>4, <2>1 DEF Arrived, Spoilt, b, n
  <1>5. CASE ~Bad(file[s])
    <2>1. \A i \in 1 .. n : b[i] = t[i]
      <3>1. \A i \in 1 .. n : 0 + i = i
        OBVIOUS
      <3> QED
        BY <1>3, <1>5, <3>1
    <2>2. Begins(b, t)
      <3>1. Len(b) <= Len(t)
        BY <1>1, <1>2, <1>3
      <3> QED
        BY <1>3, <2>1, <3>1 DEF Begins
    <2>3. Whole(s, file[s], sent[s], row[s])
      BY <1>5 DEF Rows
    <2> QED
      BY <1>2, <1>3, <2>2, <2>3 DEF Arrived, b, n
  <1> QED
    BY <1>4, <1>5

LEMMA FetchServedKeeps == ASSUME IInv, FetchServed PROVE IInv'
  <1>0. /\ Types /\ OnDisk /\ Recorded /\ Rows /\ Reaches /\ Indexed /\ Agenda /\ Kept
        /\ Reading /\ Buffered
    BY Parts
  <1> DEFINE b == pool.tar[cur]
  <1>1. /\ pc = "read" /\ rd.left = <<>> /\ rd.got < wire[cur].size /\ rd.got = 0
        /\ cur \in DOMAIN pool.tar /\ Receive(b, TRUE)
        /\ pool' = [pool EXCEPT !.tar = [s \in DOMAIN @ \ {cur} |-> @[s]], !.held = @ + 1]
    BY DEF FetchServed, Asking, Dry, Pooled
  <1>2. Arrived(cur, file[cur], wire[cur], sent[cur], row[cur], b) /\ b \in Seq(Bytes)
    BY <1>0, <1>1, TarParts DEF Kept, Fresh
  <1>3. cur \in Sources /\ wire[cur].size \in Nat
    BY <1>0, <1>1, TypedParts, ReadParts
  <1>4. b # <<>> /\ rd.got + Len(b) <= wire[cur].size
    <2>1. Len(b) = Lesser(Window, wire[cur].size) /\ wire[cur].size > 0
      BY <1>2 DEF Arrived
    <2>2. Lesser(Window, wire[cur].size) \in 1 .. wire[cur].size
      BY <1>3, <2>1, StreamAssumption DEF Lesser
    <2>3. b # <<>>
      BY <2>1, <2>2
    <2>4. 0 + Len(b) <= wire[cur].size
      BY <1>3, <2>1, <2>2
    <2> QED
      BY <1>1, <2>3, <2>4
  <1>5. pool.held = 0
    BY <1>0, <1>1 DEF Agenda, Types, PoolSet
  <1> DEFINE kept == [s \in DOMAIN pool.tar \ {cur} |-> pool.tar[s]]
  <1>6. kept \in Tars
    <2>1. DOMAIN pool.tar \ {cur} \in SUBSET Blobs /\ \A s \in DOMAIN pool.tar : pool.tar[s] \in Seq(Bytes)
      BY <1>0, TarParts
    <2>2. kept \in [DOMAIN pool.tar \ {cur} -> Seq(Bytes)]
      BY <2>1
    <2> HIDE DEF kept
    <2> QED
      BY <2>1, <2>2 DEF Tars
  <1>7. DOMAIN kept = DOMAIN pool.tar \ {cur} /\ \A s \in DOMAIN kept : kept[s] = pool.tar[s]
    OBVIOUS
  <1>8. pool' = [pool EXCEPT !.tar = kept, !.held = 1]
    BY <1>1, <1>5
  <1> HIDE DEF kept
  <1>9. pool' \in PoolSet /\ pool'.hints = pool.hints /\ pool'.tar = kept
    <2>1. pool \in PoolSet
      BY <1>0 DEF Types
    <2> QED
      BY <1>6, <1>8, <2>1 DEF PoolSet
  <1>10. \A s \in DOMAIN pool'.tar : s \in todo =>
            Arrived(s, file[s], wire[s], sent[s], row[s], pool'.tar[s])
    BY <1>0, <1>1, <1>7, <1>9 DEF Kept
  <1>11. \/ Begins(b, file[cur].text) /\ Whole(cur, file[cur], sent[cur], row[cur])
         \/ Spoilt(file[cur], b)
    BY <1>2 DEF Arrived
  <1> HIDE DEF b
  <1>12. /\ rd.got = 0 => \/ Begins(b, file[cur].text) /\ Whole(cur, file[cur], sent[cur], row[cur])
                          \/ Spoilt(file[cur], b)
         /\ rd.got > 0 => \A i \in 1 .. Len(b) : b[i] = file[cur].text[rd.got + i]
    BY <1>1, <1>11
  <1>13. TRUE \in BOOLEAN
    OBVIOUS
  <1> QED
    BY <1>1, <1>2, <1>4, <1>9, <1>10, <1>12, <1>13, ReceiveKeeps

LEMMA FetchOneKeeps == ASSUME IInv, FetchOne PROVE IInv'
  <1>0. /\ Types /\ OnDisk /\ Recorded /\ Rows /\ Reaches /\ Indexed /\ Agenda /\ Kept
        /\ Reading /\ Buffered
    BY Parts
  <1> DEFINE q  == Request(cur, rd.got, Width)
             qs == <<q>>
  <1>1. /\ pc = "read" /\ rd.left = <<>> /\ rd.got < wire[cur].size
        /\ \E reply \in Replies(qs) :
              IF reply = <<>> THEN GiveUp(pool, hit')
              ELSE Receive(reply[1].bytes, FALSE) /\ UNCHANGED pool
    BY DEF FetchOne, Asking, Dry
  <1>2. PICK reply \in Replies(qs) : IF reply = <<>> THEN GiveUp(pool, hit')
                                     ELSE Receive(reply[1].bytes, FALSE) /\ UNCHANGED pool
    BY <1>1
  <1>3. cur \in Sources /\ wire[cur].size \in Nat /\ rd.got \in Nat /\ pool \in PoolSet
    BY <1>0, <1>1, TypedParts, ReadParts DEF Types
  <1>4. Width \in Nat \ {0} /\ rd.got + Width <= wire[cur].size
    BY <1>1, <1>3, StreamAssumption DEF Width, Lesser
  <1>5. CASE reply = <<>>
    BY <1>1, <1>2, <1>3, <1>5, GiveUpKeeps
  <1>6. CASE reply # <<>>
    <2> DEFINE N == 1
    <2>1. /\ qs = [i \in 1 .. N |-> qs[i]] /\ Len(qs) = N
          /\ \A i \in 1 .. N : qs[i] = q
          /\ N \in Nat \ {0} /\ 1 \in 1 .. N
      OBVIOUS
    <2>2. \E s \in Sources, off \in Nat, n \in Nat \ {0} :
             q = Request(s, off, n) /\ off + n <= wire[s].size
      BY <1>3, <1>4
    <2>4. pc \notin Ended
      BY <1>1 DEF Ended
    <2>5. Readable(q) /\ reply[1] = Excerpt(q)
      <3> HIDE DEF qs, q, N
      <3>1. \A i \in 1 .. N : \E s \in Sources, off \in Nat, n \in Nat \ {0} :
               qs[i] = Request(s, off, n) /\ off + n <= wire[s].size
        BY <2>1, <2>2
      <3>2. \A i, j \in 1 .. N : qs[i].src = qs[j].src => qs[i] = qs[j]
        BY <2>1
      <3>3. Orderly(qs, N)
        BY <2>1, <3>1, <3>2 DEF Orderly
      <3>4. \A i \in 1 .. N : Readable(qs[i]) /\ reply[i] = Excerpt(qs[i])
        BY <1>0, <1>6, <2>4, <3>3, RepliesExact
      <3> QED
        BY <2>1, <3>4
    <2> DEFINE b == Excerpt(q).bytes
    <2>6. /\ b \in Seq(Bytes) /\ Len(b) = Width
          /\ rd.got > 0 => \A i \in 1 .. Width : b[i] = file[cur].text[rd.got + i]
      BY <1>0, <1>3, <1>4, <2>4, <2>5, Delivered
    <2>7. rd.got = 0 => \/ Begins(b, file[cur].text) /\ Whole(cur, file[cur], sent[cur], row[cur])
                        \/ Spoilt(file[cur], b)
      <3> SUFFICES ASSUME rd.got = 0
                   PROVE  \/ Begins(b, file[cur].text) /\ Whole(cur, file[cur], sent[cur], row[cur])
                          \/ Spoilt(file[cur], b)
        OBVIOUS
      <3>1. q = Request(cur, 0, First(cur)) /\ wire[cur].size > 0
        <4>1. wire[cur].size - 0 = wire[cur].size
          BY <1>3
        <4> QED
          BY <1>1, <4>1 DEF First, Width
      <3>2. Arrived(cur, file[cur], wire[cur], sent[cur], row[cur], b)
        BY <1>0, <1>3, <2>4, <2>5, <3>1, FirstArrives
      <3> QED
        BY <3>2 DEF Arrived
    <2>8. Receive(b, FALSE) /\ pool' = pool
      BY <1>2, <1>6, <2>5
    <2> HIDE DEF b, q
    <2>9. b # <<>> /\ rd.got + Len(b) <= wire[cur].size
      BY <1>4, <2>6
    <2>10. \A s \in DOMAIN pool'.tar : s \in todo =>
             Arrived(s, file[s], wire[s], sent[s], row[s], pool'.tar[s])
      BY <1>0, <1>1, <2>8 DEF Kept
    <2>11. pool' \in PoolSet /\ pool'.hints = pool.hints /\ FALSE \in BOOLEAN
      BY <1>3, <2>8
    <2>12. rd.got > 0 => \A i \in 1 .. Len(b) : b[i] = file[cur].text[rd.got + i]
      BY <2>6
    <2> QED
      BY <1>1, <2>6, <2>7, <2>8, <2>9, <2>10, <2>11, <2>12, ReceiveKeeps
  <1> QED
    BY <1>5, <1>6

LEMMA FetchBatchKeeps == ASSUME IInv, FetchBatch PROVE IInv'
  <1>0. /\ Types /\ OnDisk /\ Recorded /\ Rows /\ Reaches /\ Indexed /\ Agenda /\ Kept
        /\ Reading /\ Buffered
    BY Parts
  <1>1. /\ pc = "read" /\ rd.left = <<>> /\ rd.got < wire[cur].size /\ rd.got = 0
        /\ pc \notin Ended
    BY DEF FetchBatch, Asking, Dry, Batches, Ended
  <1>2. PICK i \in IndexOf(cur) :
           LET b    == Batch(i)
               qs   == [k \in 1 .. Len(b) |-> Request(b[k], 0, First(b[k]))]
               past == [pool EXCEPT !.next = i + Len(b), !.tar = <<>>]
           IN  \E reply \in Replies(qs) :
                  IF reply = <<>> THEN GiveUp(past, hit')
                  ELSE /\ Receive(reply[1].bytes, TRUE)
                       /\ pool' = [past EXCEPT !.held = 1, !.tar =
                             [s \in ToSet(Tail(b)) |-> reply[CHOOSE k \in 2 .. Len(b) : b[k] = s].bytes]]
    BY DEF FetchBatch
  <1> DEFINE b    == Batch(i)
             N    == Len(b)
             qs   == [k \in 1 .. N |-> Request(b[k], 0, First(b[k]))]
             past == [pool EXCEPT !.next = i + N, !.tar = <<>>]
             Index(s) == CHOOSE k \in 2 .. N : b[k] = s
  <1>3. PICK reply \in Replies(qs) :
           IF reply = <<>> THEN GiveUp(past, hit')
           ELSE /\ Receive(reply[1].bytes, TRUE)
                /\ pool' = [past EXCEPT !.held = 1, !.tar =
                               [s \in ToSet(Tail(b)) |-> reply[Index(s)].bytes]]
    BY <1>2
  <1>4. pool \in PoolSet /\ pool.hints \in Seq(Blobs) /\ pool.next \in Nat \ {0}
    BY <1>0 DEF Types, PoolSet
  <1>5. i \in 1 .. Len(pool.hints) /\ pool.hints[i] = cur /\ i \in Nat
    BY <1>4 DEF IndexOf
  <1>6. /\ b \in Seq(Blobs) /\ N \in Nat \ {0} /\ b[1] = cur
        /\ \A k \in 1 .. N : \E m \in 1 .. Len(pool.hints) : b[k] = pool.hints[m]
    BY <1>4, <1>5, BatchFacts
  <1> HIDE DEF b, N
  <1>7. ASSUME NEW k \in 1 .. N
        PROVE  /\ b[k] \in Blobs /\ b[k] \in Sources /\ wire[b[k]].size \in Nat \ {0}
               /\ First(b[k]) \in Nat \ {0} /\ 0 + First(b[k]) <= wire[b[k]].size
    <2>1. b[k] \in Blobs /\ b[k] \in Sources
      BY <1>6, LiveApart DEF N
    <2>2. wire[b[k]].size > 0 /\ wire[b[k]].size \in Nat
      BY <1>0, <1>1, <1>6, <2>1, TypedParts DEF Agenda
    <2> QED
      BY <2>1, <2>2, StreamAssumption DEF First, Lesser
  <1>8. past \in PoolSet /\ past.hints = pool.hints /\ past.tar = <<>>
    <2>1. <<>> \in Tars
      <3>1. <<>> \in [{} -> Seq(Bytes)]
        OBVIOUS
      <3>2. [{} -> Seq(Bytes)] \in {[D -> Seq(Bytes)] : D \in SUBSET Blobs}
        OBVIOUS
      <3> QED
        BY <3>1, <3>2 DEF Tars
    <2>2. i + N \in Nat \ {0}
      BY <1>5, <1>6
    <2> QED
      BY <1>4, <2>1, <2>2 DEF PoolSet
  <1>9. CASE reply = <<>>
    <2> HIDE DEF past
    <2> QED
      BY <1>1, <1>3, <1>8, <1>9, GiveUpKeeps
  <1>10. CASE reply # <<>>
    <2>1. qs = [k \in 1 .. N |-> qs[k]] /\ Len(qs) = N
          /\ \A k \in 1 .. N : qs[k] = Request(b[k], 0, First(b[k]))
      BY <1>6
    <2> HIDE DEF qs
    <2>2. Orderly(qs, N)
      <3>1. \A k \in 1 .. N : \E s \in Sources, off \in Nat, n \in Nat \ {0} :
               qs[k] = Request(s, off, n) /\ off + n <= wire[s].size
        <4> SUFFICES ASSUME NEW k \in 1 .. N
                     PROVE  \E s \in Sources, off \in Nat, n \in Nat \ {0} :
                              qs[k] = Request(s, off, n) /\ off + n <= wire[s].size
          OBVIOUS
        <4>1. b[k] \in Sources /\ 0 \in Nat /\ First(b[k]) \in Nat \ {0}
              /\ 0 + First(b[k]) <= wire[b[k]].size /\ qs[k] = Request(b[k], 0, First(b[k]))
          BY <1>7, <2>1
        <4> QED
          BY <4>1
      <3>2. \A k, j \in 1 .. N : qs[k].src = qs[j].src => qs[k] = qs[j]
        <4> SUFFICES ASSUME NEW k \in 1 .. N, NEW j \in 1 .. N, qs[k].src = qs[j].src
                     PROVE  qs[k] = qs[j]
          OBVIOUS
        <4>1. qs[k].src = b[k] /\ qs[j].src = b[j]
          BY <2>1 DEF Request
        <4> QED
          BY <2>1, <4>1
      <3> QED
        BY <1>6, <2>1, <3>1, <3>2 DEF Orderly
    <2>3. \A k \in 1 .. N : Readable(qs[k]) /\ reply[k] = Excerpt(qs[k])
      BY <1>0, <1>1, <1>10, <2>2, RepliesExact
    <2>4. ASSUME NEW k \in 1 .. N
          PROVE  /\ reply[k].bytes \in Seq(Bytes)
                 /\ Arrived(b[k], file[b[k]], wire[b[k]], sent[b[k]], row[b[k]], reply[k].bytes)
      <3>1. Readable(Request(b[k], 0, First(b[k]))) /\ reply[k] = Excerpt(Request(b[k], 0, First(b[k])))
        BY <2>1, <2>3
      <3>2. b[k] \in Sources /\ wire[b[k]].size > 0
        BY <1>7
      <3> QED
        BY <1>0, <1>1, <3>1, <3>2, FirstArrives
    <2> DEFINE D   == ToSet(Tail(b))
               tar == [s \in D |-> reply[Index(s)].bytes]
    <2>5. ASSUME NEW s \in D
          PROVE  /\ s \in Blobs /\ tar[s] \in Seq(Bytes)
                 /\ Arrived(s, file[s], wire[s], sent[s], row[s], tar[s])
      <3>1. \E k \in 2 .. N : b[k] = s
        <4>1. /\ b # <<>> /\ Len(Tail(b)) = N - 1
              /\ \A k \in 1 .. Len(Tail(b)) : Tail(b)[k] = b[k + 1] /\ k + 1 \in 2 .. N
          BY <1>6, EmptySeq, HeadTailProperties DEF N
        <4>2. PICK k \in DOMAIN Tail(b) : Tail(b)[k] = s
          BY DEF ToSet
        <4>3. Tail(b) \in Seq(Blobs)
          BY <1>6, <4>1, HeadTailProperties
        <4>4. k \in 1 .. Len(Tail(b))
          BY <4>2, <4>3, LenProperties
        <4> QED
          BY <4>1, <4>2, <4>4
      <3>2. Index(s) \in 2 .. N /\ b[Index(s)] = s
        BY <3>1
      <3>3. tar[s] = reply[Index(s)].bytes
        OBVIOUS
      <3> HIDE DEF Index, tar
      <3>4. Index(s) \in 1 .. N
        BY <1>6, <3>2
      <3> QED
        BY <1>7, <2>4, <3>2, <3>3, <3>4
    <2>6. DOMAIN tar = D
      OBVIOUS
    <2>7. tar \in Tars
      <3>1. tar = [s \in D |-> tar[s]]
        OBVIOUS
      <3> HIDE DEF tar, D
      <3>2. tar \in [D -> Seq(Bytes)] /\ D \in SUBSET Blobs
        BY <2>5, <3>1
      <3> QED
        BY <3>2 DEF Tars
    <2>8. /\ Receive(reply[1].bytes, TRUE)
          /\ pool' = [past EXCEPT !.held = 1, !.tar = tar]
      BY <1>3, <1>10
    <2> HIDE DEF tar, past, D, Index
    <2>9. pool' \in PoolSet /\ pool'.hints = pool.hints /\ pool'.tar = tar
      BY <1>8, <2>7, <2>8 DEF PoolSet
    <2>10. \A s \in DOMAIN pool'.tar : s \in todo =>
              Arrived(s, file[s], wire[s], sent[s], row[s], pool'.tar[s])
      BY <2>5, <2>6, <2>9
    <2> DEFINE w == reply[1].bytes
    <2>11. w \in Seq(Bytes) /\ Arrived(cur, file[cur], wire[cur], sent[cur], row[cur], w)
      <3>1. 1 \in 1 .. N
        BY <1>6
      <3> QED
        BY <1>6, <2>4, <3>1
    <2>12. Receive(w, TRUE) /\ TRUE \in BOOLEAN
      BY <2>8
    <2> HIDE DEF w
    <2>13. w # <<>> /\ rd.got + Len(w) <= wire[cur].size
      <3>1. Len(w) = Lesser(Window, wire[cur].size) /\ wire[cur].size > 0
        BY <2>11 DEF Arrived
      <3>2. wire[cur].size \in Nat
        BY <1>0, <1>1, ReadParts, TypedParts
      <3>3. Lesser(Window, wire[cur].size) \in 1 .. wire[cur].size
        BY <3>1, <3>2, StreamAssumption DEF Lesser
      <3>4. w # <<>>
        BY <3>1, <3>3
      <3>5. 0 + Len(w) <= wire[cur].size
        BY <3>1, <3>2, <3>3
      <3> QED
        BY <1>1, <3>4, <3>5
    <2>14. /\ rd.got = 0 => \/ Begins(w, file[cur].text) /\ Whole(cur, file[cur], sent[cur], row[cur])
                            \/ Spoilt(file[cur], w)
           /\ rd.got > 0 => \A k \in 1 .. Len(w) : w[k] = file[cur].text[rd.got + k]
      BY <1>1, <2>11 DEF Arrived
    <2> QED
      BY <1>1, <2>9, <2>10, <2>11, <2>12, <2>13, <2>14, ReceiveKeeps
  <1> QED
    BY <1>9, <1>10

\* What is decoded follows what waits, after the bytes that are still to be skipped.
LEMMA FollowsMore ==
    ASSUME NEW d \in Seq(Bytes), NEW out \in Seq(Bytes), NEW p, p.off \in Nat,
           NEW b \in [bytes : Seq(Bytes), eof : BOOLEAN, skip : Nat], Follows(d, p, b),
           NEW c, c.bytes = b.bytes \o Drop(out, Lesser(b.skip, Len(out))),
           c.skip = b.skip - Lesser(b.skip, Len(out))
    PROVE  Follows(d \o out, p, c) /\ c.bytes \in Seq(Bytes) /\ c.skip \in Nat
  <1> DEFINE x == b.bytes
             off == p.off
             gone == Lesser(b.skip, Len(out))
             k == b.skip
             y == Drop(out, gone)
             n == Len(x)
             m == Len(out)
             l == Len(d)
  <1>1. x \in Seq(Bytes) /\ k \in Nat /\ n \in Nat /\ m \in Nat /\ l \in Nat /\ off \in Nat
    OBVIOUS
  <1>2. gone \in 0 .. m /\ gone <= k /\ (gone = k \/ gone = m) /\ k - gone \in Nat
    BY <1>1 DEF Lesser
  <1>3. y \in Seq(Bytes) /\ Len(y) = m - gone /\ \A i \in 1 .. m - gone : y[i] = out[gone + i]
    <2>1. out \in Seq(Bytes) /\ gone \in 0 .. Len(out)
      BY <1>2
    <2> HIDE DEF gone
    <2> QED
      BY <2>1, Dropping
  <1>4. l + k = off + n /\ (k > 0 => x = <<>>) /\ \A i \in 1 .. n : x[i] = d[off + i]
    BY DEF Follows
  <1>5. k > 0 => n = 0
    BY <1>4
  <1> HIDE DEF x, k, y, n, m, l, off, gone
  <1>6. /\ d \o out \in Seq(Bytes) /\ Len(d \o out) = l + m
        /\ \A i \in 1 .. l + m : (d \o out)[i] = IF i <= l THEN d[i] ELSE out[i - l]
    BY ConcatProperties DEF l, m
  <1>7. /\ x \o y \in Seq(Bytes) /\ Len(x \o y) = n + (m - gone)
        /\ \A i \in 1 .. n + (m - gone) : (x \o y)[i] = IF i <= n THEN x[i] ELSE y[i - n]
    <2>1. /\ x \o y \in Seq(Bytes) /\ Len(x \o y) = n + Len(y)
          /\ \A i \in 1 .. n + Len(y) : (x \o y)[i] = IF i <= n THEN x[i] ELSE y[i - n]
      BY <1>1, <1>3, ConcatProperties DEF n
    <2>2. Len(y) = m - gone
      BY <1>3
    <2> QED
      BY <2>1, <2>2
  <1>8. c.bytes = x \o y /\ c.skip = k - gone /\ p.off = off
    BY DEF x, y, k, gone, off
  <1>9. Len(d \o out) + c.skip = p.off + Len(c.bytes)
    <2>1. (l + m) + (k - gone) = off + (n + (m - gone))
      <3>1. l \in Int /\ k \in Int /\ n \in Int /\ m \in Int /\ gone \in Int /\ off \in Int
        BY <1>1, <1>2
      <3>2. l = (off + n) - k
        BY <1>4, <3>1
      <3> QED
        BY <3>1, <3>2
    <2>2. Len(c.bytes) = n + (m - gone) /\ c.skip = k - gone
      BY <1>7, <1>8
    <2> QED
      BY <1>6, <1>8, <2>1, <2>2
  <1>10. c.skip > 0 => c.bytes = <<>>
    <2> SUFFICES ASSUME c.skip > 0 PROVE c.bytes = <<>>
      OBVIOUS
    <2>1. gone = m /\ k > 0
      BY <1>1, <1>2, <1>8
    <2>2. Len(x \o y) = 0
      BY <1>1, <1>5, <1>7, <2>1
    <2> QED
      BY <1>7, <1>8, <2>2, EmptySeq
  <1>11. ASSUME NEW i \in 1 .. Len(c.bytes) PROVE c.bytes[i] = (d \o out)[p.off + i]
    <2>1. i \in 1 .. n + (m - gone)
      BY <1>7, <1>8
    <2>2. CASE i <= n
      <3>1. k = 0 /\ i \in 1 .. n
        BY <1>1, <1>2, <1>5, <2>1, <2>2
      <3>2. off + i \in 1 .. l + m /\ off + i <= l
        BY <1>1, <1>4, <3>1
      <3> QED
        BY <1>4, <1>6, <1>7, <1>8, <2>1, <2>2, <3>1, <3>2
    <2>3. CASE ~(i <= n)
      <3>1. gone = k
        BY <1>1, <1>2, <1>5, <2>1, <2>3
      <3>2. off + i \in 1 .. l + m /\ ~(off + i <= l) /\ (off + i) - l = gone + (i - n)
            /\ i - n \in 1 .. m - gone
        BY <1>1, <1>2, <1>4, <1>5, <2>1, <2>3, <3>1
      <3>3. (d \o out)[off + i] = out[(off + i) - l]
        BY <1>6, <3>2
      <3>4. (x \o y)[i] = y[i - n]
        BY <1>7, <2>1, <2>3
      <3>5. y[i - n] = out[gone + (i - n)]
        BY <1>3, <3>2
      <3> QED
        BY <1>8, <3>2, <3>3, <3>4, <3>5
    <2> QED
      BY <2>2, <2>3
  <1> QED
    BY <1>2, <1>7, <1>8, <1>9, <1>10, <1>11 DEF Follows, m

LEMMA PullKeeps == ASSUME IInv, Pull PROVE IInv'
  <1>0. /\ Types /\ OnDisk /\ Recorded /\ Rows /\ Reaches /\ Indexed /\ Agenda /\ Kept
        /\ Reading /\ Buffered
    BY Parts
  <1> DEFINE want == IF buf.skip > 0 THEN buf.skip ELSE MaxRaw + 1 - Len(buf.bytes)
             raw  == IF cur \in Gz THEN rd.left ELSE Take(rd.left, want)
             out  == Decoded(cur, raw)
             gone == Lesser(buf.skip, Len(out))
             rest == Drop(rd.left, Len(raw))
             all  == rd.bytes \o raw
             r    == [rd EXCEPT !.left = rest, !.got = @ + Len(raw), !.bytes = all]
  <1>1. pc = "read" /\ Hungry /\ rd.left # <<>> /\ pool \in PoolSet
    BY <1>0 DEF Pull, Types
  <1>2. \/ \E h : GiveUp(pool, h)
        \/ /\ r.got = wire[cur].size => Ends(r)
           /\ rd' = r
           /\ buf' = [buf EXCEPT !.bytes = @ \o Drop(out, gone), !.skip = @ - gone]
           /\ pool' = [pool EXCEPT !.held = IF r.left = <<>> THEN 0 ELSE @]
           /\ UNCHANGED <<file, durable, pc, wire, todo, cur, pos, taken, failed>>
    BY DEF Pull
  <1>3. CASE \E h : GiveUp(pool, h)
    <2> PICK h : GiveUp(pool, h)
      BY <1>3
    <2> QED
      BY <1>1, GiveUpKeeps
  <1>4. CASE /\ r.got = wire[cur].size => Ends(r)
             /\ rd' = r
             /\ buf' = [buf EXCEPT !.bytes = @ \o Drop(out, gone), !.skip = @ - gone]
             /\ pool' = [pool EXCEPT !.held = IF r.left = <<>> THEN 0 ELSE @]
             /\ UNCHANGED <<file, durable, pc, wire, todo, cur, pos, taken, failed>>
    <2>1. /\ cur \in Sources /\ pos \in Places /\ pos.off \in Nat
          /\ rd.bytes \in Seq(Bytes) /\ rd.left \in Seq(Bytes) /\ Data \in Seq(Bytes)
          /\ rd.got \in Nat /\ buf.bytes \in Seq(Bytes) /\ buf.skip \in Nat /\ buf.eof \in BOOLEAN
          /\ rd \in Reader /\ buf \in [bytes : Seq(Bytes), eof : BOOLEAN, skip : Nat]
      BY <1>0, <1>1, ReadParts DEF Types, Places
    <2>2. ~buf.eof /\ (buf.skip > 0 \/ Len(buf.bytes) <= MaxRaw)
      BY <1>1 DEF Hungry
    <2>3. want \in Nat \ {0}
      BY <2>1, <2>2, StreamAssumption
    <2> HIDE DEF want
    <2>4. PICK k \in 1 .. Len(rd.left) : raw = Take(rd.left, k) /\ Len(raw) = k /\ raw \in Seq(Bytes)
      <3>1. Len(rd.left) \in Nat \ {0}
        BY <1>1, <2>1, EmptySeq
      <3>2. CASE cur \in Gz
        <4>1. raw = Take(rd.left, Len(rd.left))
          BY <2>1, <3>1, <3>2, TakingAll
        <4> QED
          BY <2>1, <3>1, <3>2, <4>1
      <3>3. CASE cur \notin Gz
        <4>1. raw = Take(rd.left, want)
          BY <3>3
        <4>2. raw \in Seq(Bytes) /\ Len(raw) = IF want <= Len(rd.left) THEN want ELSE Len(rd.left)
          BY <2>1, <2>3, <4>1, Taking
        <4>3. CASE want <= Len(rd.left)
          BY <2>3, <3>1, <4>1, <4>2, <4>3
        <4>4. CASE ~(want <= Len(rd.left))
          <5>1. raw = rd.left /\ Take(rd.left, Len(rd.left)) = rd.left
            BY <2>1, <2>3, <3>1, <4>1, <4>4, TakingAll
          <5> QED
            BY <2>1, <3>1, <5>1
        <4> QED
          BY <4>3, <4>4
      <3> QED
        BY <3>2, <3>3
    <2> HIDE DEF raw
    <2>5. /\ rest \in Seq(Bytes) /\ Len(rest) = Len(rd.left) - k /\ raw \o rest = rd.left
      <3>1. k \in 0 .. Len(rd.left)
        BY <2>4
      <3> QED
        BY <2>1, <2>4, <3>1, Dropping, TakeDrop
    <2>6. out \in Seq(Bytes)
      BY <2>4, DecodedType
    <2>7. all \in Seq(Bytes) /\ Len(all) = Len(rd.bytes) + k /\ Len(all) \in Nat \ {0}
      <3>1. all \in Seq(Bytes) /\ Len(all) = Len(rd.bytes) + Len(raw)
        BY <2>1, <2>4, ConcatProperties
      <3>2. Len(rd.bytes) \in Nat /\ Len(raw) = k /\ k \in Nat \ {0}
        BY <2>1, <2>4
      <3> QED
        BY <3>1, <3>2
    <2>8. Decoded(cur, all) = Decoded(cur, rd.bytes) \o out
      BY <2>1, <2>4, DecodedConcat
    <2>9. all \o rest = Data
      <3>0. rd.bytes \in Seq(Bytes) /\ raw \in Seq(Bytes) /\ rest \in Seq(Bytes)
        BY <2>1, <2>4, <2>5
      <3> DEFINE x == rd.bytes
      <3>2. x \in Seq(Bytes)
        BY <3>0
      <3> HIDE DEF rest, all, x
      <3>3. (x \o raw) \o rest = x \o (raw \o rest)
        BY <3>0, <3>2, ConcatAssociative
      <3>1. (rd.bytes \o raw) \o rest = rd.bytes \o (raw \o rest)
        BY <3>3 DEF x
      <3> QED
        BY <2>5, <3>1 DEF Data, all
    <2> HIDE DEF rest, all, out
    <2>10. r \in Reader /\ r.left = rest /\ r.got = rd.got + k /\ r.bytes = all
      <3>1. r = [rd EXCEPT !.left = rest, !.got = rd.got + k, !.bytes = all]
        BY <2>4
      <3>2. rd.got + k \in Nat
        BY <2>1, <2>4
      <3> QED
        BY <2>1, <2>5, <2>7, <3>1, <3>2 DEF Reader
    <2> HIDE DEF r
    <2>11. rd' = r /\ Data' = Data /\ (r.got = wire[cur].size => Ends(r))
      BY <1>4, <2>9, <2>10 DEF Data
    <2>12. /\ buf'.bytes = buf.bytes \o Drop(out, gone) /\ buf'.skip = buf.skip - gone
           /\ buf'.eof = buf.eof
           /\ buf' = [buf EXCEPT !.bytes = buf'.bytes, !.skip = buf'.skip]
      BY <1>4, <2>1
    <2>13. OnDisk' /\ Rows' /\ Reaches' /\ file' = file /\ row' = row /\ sent' = sent
      BY <1>0, <1>4, Archive
    <2>14. /\ Follows(Decoded(cur, all), pos, buf') /\ buf'.bytes \in Seq(Bytes) /\ buf'.skip \in Nat
      <3>1. Decoded(cur, rd.bytes) \in Seq(Bytes) /\ Follows(Decoded(cur, rd.bytes), pos, buf)
        BY <1>0, <1>1, <2>1, DecodedType DEF Buffered
      <3> DEFINE d == Decoded(cur, rd.bytes)
      <3>2. d \in Seq(Bytes) /\ Follows(d, pos, buf) /\ Decoded(cur, all) = d \o out
        BY <2>8, <3>1
      <3> DEFINE p == pos
                 b == buf
                 c == buf'
      <3>3. /\ p.off \in Nat /\ b \in [bytes : Seq(Bytes), eof : BOOLEAN, skip : Nat] /\ Follows(d, p, b)
            /\ c.bytes = b.bytes \o Drop(out, Lesser(b.skip, Len(out)))
            /\ c.skip = b.skip - Lesser(b.skip, Len(out))
        BY <2>1, <2>12, <3>2
      <3> HIDE DEF d, p, b, c
      <3>4. Follows(d \o out, p, c) /\ c.bytes \in Seq(Bytes) /\ c.skip \in Nat
        BY <2>6, <3>2, <3>3, FollowsMore
      <3> QED
        BY <3>2, <3>4 DEF p, c
    <2>15. buf' \in [bytes : Seq(Bytes), eof : BOOLEAN, skip : Nat]
      BY <2>1, <2>12, <2>14
    <2>16. pool' \in PoolSet /\ pool'.hints = pool.hints /\ pool'.tar = pool.tar
           /\ (pool'.held = 1 => r.left # <<>>)
      BY <1>1, <1>4 DEF PoolSet
    <2>17. Types'
      BY <1>0, <1>4, <2>10, <2>11, <2>13, <2>15, <2>16 DEF Types
    <2>18. Recorded'
      BY <1>0, <1>4, <2>13 DEF Recorded
    <2>19. Indexed'
      BY <1>0, <1>4, <2>13 DEF Indexed
    <2>20. Agenda'
      BY <1>0, <1>1, <1>4, <2>11, <2>13, <2>16 DEF Agenda
    <2>21. r.got > 0
      BY <2>1, <2>4, <2>10
    <2>22. Kept'
      <3> SUFFICES ASSUME NEW t \in DOMAIN pool'.tar, t \in todo' \/ Fresh(t)'
                   PROVE  Arrived(t, file'[t], wire'[t], sent'[t], row'[t], pool'.tar[t])
        BY DEF Kept
      <3>1. t \in todo
        BY <1>4, <2>11, <2>21 DEF Fresh
      <3> QED
        BY <1>0, <1>1, <1>4, <2>13, <2>16, <3>1 DEF Kept
    <2>23. Buffered'
      BY <1>0, <1>1, <1>4, <2>2, <2>10, <2>11, <2>12, <2>13, <2>14 DEF Buffered
    <2>24. Data # <<>>
      <3>1. Len(Data) = Len(all) + Len(rest)
        BY <2>5, <2>7, <2>9, ConcatProperties
      <3>2. Len(rest) \in Nat
        BY <2>5
      <3>3. Len(Data) # 0
        BY <2>7, <3>1, <3>2
      <3> QED
        BY <3>3
    <2>25. Reading'
      <3> DEFINE over == PosOver(cur, file[cur], wire[cur], buf, pos)
      <3>1. over = FALSE /\ over' = FALSE
        BY <1>4, <2>2, <2>12 DEF PosOver
      <3> HIDE DEF over
      <3>2. rd.got = Len(rd.bytes) /\ rd.got + Len(rd.left) <= wire[cur].size
        BY <1>0, <1>1 DEF Reading
      <3>3. r.got = Len(r.bytes) /\ r.got + Len(r.left) <= wire[cur].size
        <4>1. Len(rd.left) \in Int /\ rd.got \in Int /\ k \in Int
          BY <2>1, <2>4
        <4>2. r.got = Len(r.bytes)
          BY <2>7, <2>10, <3>2
        <4>3. r.got + Len(r.left) = rd.got + Len(rd.left)
          BY <2>5, <2>10, <4>1
        <4> QED
          BY <3>2, <4>2, <4>3
      <3>4. \/ /\ Begins(Data, file[cur].text)
               /\ Placed(file[cur], Stream(cur, file[cur]), sent[cur] \o taken, pos, over)
            \/ Spoilt(file[cur], Data)
        BY <1>0, <1>1, <2>24 DEF Reading, over
      <3>5. cur \in Blobs /\ r.got = wire[cur].size => r.bytes = file[cur].text
        BY <2>11 DEF Ends
      <3>6. over' = over
        BY <3>1
      <3> QED
        BY <1>4, <2>11, <2>13, <2>24, <3>3, <3>4, <3>5, <3>6 DEF Reading, over
    <2> QED
      BY <2>13, <2>17, <2>18, <2>19, <2>20, <2>22, <2>23, <2>25 DEF IInv
  <1> QED
    BY <1>2, <1>3, <1>4

LEMMA EndOfStreamKeeps == ASSUME IInv, EndOfStream PROVE IInv'
  <1>0. /\ Types /\ OnDisk /\ Recorded /\ Rows /\ Reaches /\ Indexed /\ Agenda /\ Kept
        /\ Reading /\ Buffered
    BY Parts
  <1>1. pc = "read" /\ ~buf.eof /\ rd.left = <<>> /\ rd.got = wire[cur].size /\ pool \in PoolSet
    BY <1>0 DEF EndOfStream, Dry, Hungry, Types
  <1>2. \/ \E h : GiveUp(pool, h)
        \/ /\ buf.skip = 0 /\ buf' = [buf EXCEPT !.eof = TRUE]
           /\ UNCHANGED <<file, durable, pc, wire, todo, cur, rd, pool, pos, taken, failed>>
    BY DEF EndOfStream
  <1>3. CASE \E h : GiveUp(pool, h)
    <2> PICK h : GiveUp(pool, h)
      BY <1>3
    <2> QED
      BY <1>1, GiveUpKeeps
  <1>4. CASE /\ buf.skip = 0 /\ buf' = [buf EXCEPT !.eof = TRUE]
             /\ UNCHANGED <<file, durable, pc, wire, todo, cur, rd, pool, pos, taken, failed>>
    <2>1. OnDisk' /\ Rows' /\ Reaches' /\ file' = file /\ row' = row /\ sent' = sent
      BY <1>0, <1>4, Archive
    <2>2. /\ buf'.bytes = buf.bytes /\ buf'.skip = buf.skip /\ buf'.eof = TRUE
          /\ buf' \in [bytes : Seq(Bytes), eof : BOOLEAN, skip : Nat]
      BY <1>0, <1>4 DEF Types
    <2>3. Types'
      BY <1>0, <1>4, <2>1, <2>2 DEF Types
    <2>4. Recorded' /\ Indexed' /\ Agenda'
      BY <1>0, <1>4, <2>1 DEF Recorded, Indexed, Agenda
    <2>5. Kept'
      <3> SUFFICES ASSUME NEW t \in DOMAIN pool'.tar, t \in todo' \/ Fresh(t)'
                   PROVE  Arrived(t, file'[t], wire'[t], sent'[t], row'[t], pool'.tar[t])
        BY DEF Kept
      <3>1. t \in todo \/ Fresh(t)
        BY <1>4 DEF Fresh
      <3> QED
        BY <1>0, <1>1, <1>4, <2>1, <3>1 DEF Kept
    <2>6. Buffered'
      <3>1. Follows(Decoded(cur, rd.bytes), pos, buf) => Follows(Decoded(cur, rd.bytes), pos, buf')
        BY <2>2 DEF Follows
      <3> QED
        BY <1>0, <1>1, <1>4, <2>1, <2>2, <3>1 DEF Buffered
    <2>7. Reading'
      <3> DEFINE over == PosOver(cur, file[cur], wire[cur], buf, pos)
      <3>1. over = FALSE
        BY <1>1 DEF PosOver
      <3> HIDE DEF over
      <3>2. Placed(file[cur], Stream(cur, file[cur]), sent[cur] \o taken, pos, over) =>
              Placed(file[cur], Stream(cur, file[cur]), sent[cur] \o taken, pos, over')
        BY <3>1 DEF Placed
      <3>3. Data' = Data
        BY <1>4 DEF Data
      <3>4. Data # <<>> =>
              \/ /\ Begins(Data, file[cur].text)
                 /\ Placed(file[cur], Stream(cur, file[cur]), sent[cur] \o taken, pos, over)
              \/ Spoilt(file[cur], Data)
        BY <1>0, <1>1 DEF Reading, over
      <3>5. /\ rd.got = Len(rd.bytes) /\ rd.got + Len(rd.left) <= wire[cur].size
            /\ Data = <<>> => taken = <<>> /\ pos = row[cur].at
            /\ cur \in Blobs /\ rd.got = wire[cur].size /\ rd.got > 0 => rd.bytes = file[cur].text
        BY <1>0, <1>1 DEF Reading
      <3> QED
        BY <1>1, <1>4, <2>1, <3>2, <3>3, <3>4, <3>5 DEF Reading, over
    <2> QED
      BY <2>1, <2>3, <2>4, <2>5, <2>6, <2>7 DEF IInv
  <1> QED
    BY <1>2, <1>3, <1>4

\* A fragment of what waits continues the archive.
LEMMA PlacedNext ==
    ASSUME NEW f, NEW d \in Seq(Bytes), NEW q \in Seq(Fragments), NEW g \in Fragments,
           NEW b \in Seq(Bytes), NEW k \in 0 .. Len(b), NEW over \in BOOLEAN,
           Placed(f, d, q, g.start, FALSE),
           g.start.off + Len(b) <= Len(d), \A i \in 1 .. Len(b) : b[i] = d[g.start.off + i],
           g.next.off = g.start.off + k, Piece(g) = Take(b, k),
           f.late \/ over \/ g.next.line = g.start.line + Newlines(Piece(g))
    PROVE  Placed(f, d, Append(q, g), g.next, over)
  <1> DEFINE p == g.start
             n == g.next
             r == Append(q, g)
             N == Len(q)
             c == Take(b, k)
  <1>1. p \in Places /\ n \in Places /\ p.off \in Nat /\ n.off \in Nat /\ p.line \in Nat /\ n.line \in Nat
    BY DEF Fragments, Places
  <1>2. /\ r \in Seq(Fragments) /\ Len(r) = N + 1 /\ N \in Nat /\ r[N + 1] = g
        /\ \A i \in 1 .. N : r[i] = q[i]
    BY AppendProperties
  <1>3. Joined(r) = Joined(q) \o Piece(g)
    BY JoinedAppend
  <1>4. c \in Seq(Bytes) /\ Len(c) = k /\ \A i \in 1 .. k : c[i] = b[i]
    BY Taking
  <1>5. Len(b) \in Nat /\ Len(d) \in Nat /\ k \in Nat /\ k <= Len(b)
    OBVIOUS
  <1> HIDE DEF r, N, c
  <1>6. \A i \in 1 .. Len(c) : c[i] = d[p.off + i]
    <2>1. \A i \in 1 .. k : i \in 1 .. Len(b)
      BY <1>5
    <2> QED
      BY <1>4, <2>1
  <1>7. p.off + k <= Len(d)
    BY <1>1, <1>5
  <1>8. Take(d, p.off) \o c = Take(d, n.off)
    <2>1. p.off + Len(c) <= Len(d) /\ n.off = p.off + Len(c)
      BY <1>4, <1>7
    <2>2. Take(d, p.off) \o c = Take(d, p.off + Len(c))
      BY <1>1, <1>4, <1>6, <2>1, TakeMore
    <2> QED
      BY <2>1, <2>2
  <1>9. Joined(r) = Take(d, n.off) /\ n.off <= Len(d)
    BY <1>3, <1>7, <1>8 DEF Placed, c
  <1>10. ASSUME ~f.late PROVE Lines(d, r) /\ (LineAt(d, n) \/ over)
    <2>1. Lines(d, q) /\ LineAt(d, p) /\ p.off <= Len(d)
      BY <1>10 DEF Placed
    <2>2. ASSUME NEW i \in 1 .. Len(r) PROVE r[i].start.off <= Len(d) /\ LineAt(d, r[i].start)
      <3>1. CASE i \in 1 .. N
        <4>1. q[i].start.off <= Len(d) /\ LineAt(d, q[i].start)
          BY <2>1, <3>1 DEF Lines, N
        <4> QED
          BY <1>2, <3>1, <4>1
      <3>2. CASE i \notin 1 .. N
        <4>1. i = N + 1
          BY <1>2, <3>2
        <4>2. r[i].start = p
          BY <1>2, <4>1
        <4> QED
          BY <2>1, <4>2
      <3> QED
        BY <3>1, <3>2
    <2>3. ASSUME n.line = p.line + Newlines(Piece(g)) PROVE LineAt(d, n)
      <3>1. Take(d, p.off) \in Seq(Bytes)
        BY <1>1, Taking
      <3>2. Newlines(Take(d, p.off) \o c) = Newlines(Take(d, p.off)) + Newlines(c)
        BY <1>4, <3>1, NewlinesConcat
      <3>3. Newlines(Take(d, p.off)) \in Nat /\ Newlines(c) \in Nat
        BY <1>4, <3>1, NewlinesType
      <3>4. p.line = 1 + Newlines(Take(d, p.off)) /\ n.line = p.line + Newlines(c)
        BY <2>1, <2>3 DEF LineAt, c
      <3>5. Newlines(Take(d, n.off)) = Newlines(Take(d, p.off)) + Newlines(c)
        BY <1>8, <3>2
      <3>6. n.line = 1 + Newlines(Take(d, n.off))
        BY <3>3, <3>4, <3>5
      <3> QED
        BY <3>6 DEF LineAt
    <2> QED
      BY <1>10, <2>2, <2>3 DEF Lines
  <1>11. Placed(f, d, r, n, over)
    BY <1>9, <1>10 DEF Placed
  <1> QED
    BY <1>11 DEF r

\* What was decoded is a beginning of the stream, and what waits follows the next place in it.
LEMMA Waiting ==
    ASSUME Types, Recorded, Reading, Buffered, pc = "read", buf.skip = 0,
           Data # <<>>, Begins(Data, file[cur].text)
    PROVE  LET d == Stream(cur, file[cur])
           IN  /\ d \in Seq(Bytes) /\ pos.off + Len(buf.bytes) <= Len(d)
               /\ \A i \in 1 .. Len(buf.bytes) : buf.bytes[i] = d[pos.off + i]
               /\ buf.eof => \/ pos.off + Len(buf.bytes) = Len(d)
                             \/ cur = Live /\ wire[Live].size # Len(file[Live].text)
  <1> DEFINE d == Stream(cur, file[cur])
             e == Decoded(cur, rd.bytes)
             t == file[cur].text
             n == Len(buf.bytes)
  <1>1. /\ cur \in Sources /\ pos \in Places /\ pos.off \in Nat
        /\ rd.bytes \in Seq(Bytes) /\ rd.left \in Seq(Bytes) /\ Data \in Seq(Bytes)
        /\ rd.got \in Nat /\ buf.bytes \in Seq(Bytes) /\ n \in Nat
    BY ReadParts DEF Places
  <1>2. file[cur] \in FileSet /\ t \in Seq(Bytes) /\ d \in Seq(Bytes) /\ e \in Seq(Bytes)
    BY <1>1, TypedParts, StreamType, DecodedType
  <1>3. Begins(rd.bytes, Data)
    BY <1>1, BeginsConcat DEF Data
  <1>4. Begins(rd.bytes, t)
    BY <1>1, <1>2, <1>3, BeginsTrans
  <1>5. Begins(e, d)
    BY <1>1, <1>2, <1>4, DecodedBegins DEF Stream
  <1>6. /\ rd.got = Len(rd.bytes) /\ rd.got + Len(rd.left) <= wire[cur].size
        /\ cur \in Blobs /\ rd.got = wire[cur].size /\ rd.got > 0 => rd.bytes = t
        /\ buf.eof => rd.got = wire[cur].size
    BY DEF Reading, Buffered
  <1>7. Len(e) = pos.off + n /\ \A i \in 1 .. n : buf.bytes[i] = e[pos.off + i]
    <2>1. Follows(e, pos, buf)
      BY DEF Buffered
    <2>2. Len(e) + 0 = pos.off + n /\ \A i \in 1 .. n : buf.bytes[i] = e[pos.off + i]
      BY <2>1 DEF Follows
    <2>3. Len(e) \in Nat
      BY <1>2
    <2> HIDE DEF e, n
    <2> QED
      BY <2>2, <2>3
  <1> HIDE DEF d, e, n, t
  <1>8. Len(e) \in Nat /\ Len(d) \in Nat /\ Len(e) <= Len(d) /\ \A i \in 1 .. Len(e) : e[i] = d[i]
    BY <1>2, <1>5 DEF Begins
  <1>9. ASSUME NEW i \in 1 .. n PROVE buf.bytes[i] = d[pos.off + i]
    <2>1. pos.off + i \in 1 .. Len(e)
      BY <1>1, <1>7
    <2> QED
      BY <1>7, <1>8, <2>1
  <1>10. ASSUME buf.eof, cur = Live => wire[Live].size = Len(t) PROVE Len(e) = Len(d)
    <2>1. CASE cur \in Blobs
      <3>1. CASE rd.got > 0
        <4>1. rd.bytes = t
          BY <1>6, <1>10, <2>1, <3>1
        <4> QED
          BY <4>1 DEF e, d, t, Stream
      <3>2. CASE ~(rd.got > 0)
        <4>1. Len(Data) = Len(rd.bytes) + Len(rd.left) /\ Len(Data) # 0
          <5>1. Data \in Seq(Bytes) /\ Data # <<>> /\ rd.bytes \in Seq(Bytes) /\ rd.left \in Seq(Bytes)
            BY <1>1
          <5>2. Len(Data) # 0
            BY <5>1, EmptySeq
          <5>3. Len(rd.bytes \o rd.left) = Len(rd.bytes) + Len(rd.left)
            BY <5>1, ConcatProperties
          <5> QED
            BY <5>2, <5>3 DEF Data
        <4>2. rd.got + Len(rd.left) <= rd.got
          BY <1>6, <1>10
        <4>3. Len(rd.left) \in Nat
          BY <1>1
        <4>4. rd.got = 0 /\ Len(rd.bytes) = 0
          BY <1>1, <1>6, <3>2
        <4>5. Len(rd.left) = 0
          BY <4>2, <4>3, <4>4
        <4> QED
          BY <4>1, <4>4, <4>5
      <3> QED
        BY <3>1, <3>2
    <2>2. CASE cur = Live
      <3>1. e = rd.bytes /\ d = t
        BY <2>2, LiveApart DEF e, d, t, Stream, Decoded
      <3> QED
        BY <1>6, <1>10, <2>2, <3>1
    <2> QED
      BY <1>1, <2>1, <2>2, LiveApart
  <1>11. pos.off + n <= Len(d)
    BY <1>7, <1>8
  <1> QED
    BY <1>2, <1>7, <1>9, <1>10, <1>11 DEF d, n, t

LEMMA YieldKeeps == ASSUME IInv, Yield PROVE IInv'
  <1>0. /\ Types /\ OnDisk /\ Recorded /\ Rows /\ Reaches /\ Indexed /\ Agenda /\ Kept
        /\ Reading /\ Buffered
    BY Parts
  <1>1. /\ pc = "read" /\ buf.bytes # <<>> /\ taken' = taken \o <<Cut>> /\ pos' = Cut.next
        /\ buf' = [buf EXCEPT !.bytes = Drop(@, Cut.next.off - pos.off)]
        /\ UNCHANGED <<file, durable, pc, wire, todo, cur, rd, pool, failed>>
    BY DEF Yield, Cut
  <1>2. /\ cur \in Sources /\ sent[cur] \in Seq(Fragments) /\ taken \in Seq(Fragments)
        /\ sent[cur] \o taken \in Seq(Fragments) /\ pos \in Places /\ pos.off \in Nat
        /\ rd.bytes \in Seq(Bytes) /\ rd.left \in Seq(Bytes) /\ Data \in Seq(Bytes)
        /\ rd.got \in Nat /\ buf.bytes \in Seq(Bytes) /\ buf.skip \in Nat /\ buf.eof \in BOOLEAN
        /\ buf \in [bytes : Seq(Bytes), eof : BOOLEAN, skip : Nat]
    BY <1>0, <1>1, ReadParts DEF Places, Types
  <1>3. buf.skip = 0 /\ (buf.eof \/ Len(buf.bytes) > MaxRaw)
    <2>1. ~(buf.skip > 0)
      BY <1>0, <1>1 DEF Buffered, Follows
    <2>2. Len(buf.bytes) \in Nat /\ MaxRaw \in Nat
      BY <1>2, StreamAssumption
    <2> QED
      BY <1>2, <2>1, <2>2 DEF Yield, Hungry
  <1>4. /\ Cut \in Fragments /\ Cut.start = pos
        /\ \E k \in 0 .. Len(buf.bytes) :
                /\ Cut.next.off = pos.off + k
                /\ Piece(Cut) = Take(buf.bytes, k)
                /\ \/ Cut.next.line = pos.line + Newlines(Piece(Cut))
                   \/ /\ k = Len(buf.bytes) /\ Len(buf.bytes) <= MaxRaw /\ ~Active(cur)
        /\ \/ Cut.next.line = pos.line + 1 /\ Cut.next.idx = 0
           \/ Cut.next.line = pos.line /\ Cut.next.idx = pos.idx + 1
    BY <1>2, CutFacts
  <1>5. PICK k \in 0 .. Len(buf.bytes) :
                /\ Cut.next.off = pos.off + k
                /\ Piece(Cut) = Take(buf.bytes, k)
                /\ \/ Cut.next.line = pos.line + Newlines(Piece(Cut))
                   \/ /\ k = Len(buf.bytes) /\ Len(buf.bytes) <= MaxRaw /\ ~Active(cur)
    BY <1>4
  <1>6. OnDisk' /\ Rows' /\ Reaches' /\ file' = file /\ row' = row /\ sent' = sent
    BY <1>0, <1>1, Archive
  <1> DEFINE rest == Drop(buf.bytes, k)
  <1>7. /\ rest \in Seq(Bytes) /\ Len(rest) = Len(buf.bytes) - k
        /\ \A i \in 1 .. Len(buf.bytes) - k : rest[i] = buf.bytes[k + i]
    BY <1>2, Dropping
  <1>8. Cut.next.off - pos.off = k
    <2>1. k \in Int /\ pos.off \in Int
      BY <1>2
    <2> QED
      BY <1>5, <2>1
  <1>9. /\ buf'.bytes = rest /\ buf'.skip = 0 /\ buf'.eof = buf.eof
        /\ buf' \in [bytes : Seq(Bytes), eof : BOOLEAN, skip : Nat]
    <2>1. buf' = [buf EXCEPT !.bytes = rest]
      BY <1>1, <1>8
    <2> HIDE DEF rest
    <2> QED
      BY <1>2, <1>3, <1>7, <2>1
  <1> HIDE DEF rest
  <1> DEFINE q == sent[cur] \o taken
             f == Cut
  <1>10. /\ sent[cur] \o (taken \o <<f>>) = Append(q, f) /\ taken \o <<f>> \in Seq(Fragments)
         /\ f.next \in Places
    <2>1. f \in Fragments
      BY <1>4
    <2> HIDE DEF f
    <2>2. f.next \in Places
      BY <2>1 DEF Fragments
    <2> QED
      BY <1>2, <2>1, <2>2, JoinedTaken
  <1>11. Types'
    BY <1>0, <1>1, <1>6, <1>9, <1>10 DEF Types
  <1>12. Recorded' /\ Agenda'
    BY <1>0, <1>1, <1>6 DEF Recorded, Agenda
  <1>13. Kept'
    <2> SUFFICES ASSUME NEW t \in DOMAIN pool'.tar, t \in todo' \/ Fresh(t)'
                 PROVE  Arrived(t, file'[t], wire'[t], sent'[t], row'[t], pool'.tar[t])
      BY DEF Kept
    <2>1. t \in todo \/ Fresh(t)
      BY <1>1 DEF Fresh
    <2> QED
      BY <1>0, <1>1, <1>6, <2>1 DEF Kept
  <1>14. Indexed'
    <2>1. NumberedTo(q, pos)
      BY <1>0, <1>1 DEF Indexed
    <2>2. q \in Seq(Fragments) /\ f \in Fragments /\ f.start = pos
          /\ (\/ f.next.line = pos.line + 1 /\ f.next.idx = 0
              \/ f.next.line = pos.line /\ f.next.idx = pos.idx + 1)
      BY <1>2, <1>4
    <2> HIDE DEF q, f
    <2>3. NumberedTo(Append(q, f), f.next)
      BY <1>2, <1>10, <2>1, <2>2, NumberedNext
    <2>4. pos' = f.next /\ taken' = taken \o <<f>>
      BY <1>1 DEF f
    <2> QED
      BY <1>0, <1>1, <1>6, <1>10, <2>3, <2>4 DEF Indexed
  <1>15. Buffered'
    <2> DEFINE d == Decoded(cur, rd.bytes)
    <2>1. /\ row[cur].at.off <= pos.off /\ Follows(d, pos, buf) /\ d \in Seq(Bytes)
          /\ (buf.eof => rd.got = wire[cur].size)
      BY <1>0, <1>1, <1>2, DecodedType DEF Buffered
    <2> HIDE DEF d
    <2>2. pos'.off = pos.off + k
      BY <1>1, <1>5
    <2>3. row[cur].at.off <= pos'.off
      <3>1. row[cur].at.off \in Nat
        BY <1>0, <1>2, TypedParts DEF Places
      <3> QED
        BY <1>2, <2>1, <2>2, <3>1
    <2>4. Follows(d, pos', buf')
      <3>1. Len(d) \in Nat /\ Len(buf.bytes) \in Nat /\ k \in Nat /\ k <= Len(buf.bytes)
        BY <1>2, <2>1
      <3>2. Len(d) + 0 = pos.off + Len(buf.bytes) /\ \A i \in 1 .. Len(buf.bytes) : buf.bytes[i] = d[pos.off + i]
        BY <1>3, <2>1 DEF Follows
      <3>3. Len(d) + 0 = (pos.off + k) + (Len(buf.bytes) - k)
        BY <1>2, <3>1, <3>2
      <3>4. ASSUME NEW i \in 1 .. Len(rest) PROVE rest[i] = d[(pos.off + k) + i]
        <4>1. i \in 1 .. Len(buf.bytes) - k /\ k + i \in 1 .. Len(buf.bytes)
              /\ pos.off + (k + i) = (pos.off + k) + i
          BY <1>2, <1>7, <3>1
        <4> QED
          BY <1>7, <3>2, <4>1
      <3> QED
        BY <1>7, <1>9, <2>2, <3>3, <3>4 DEF Follows
    <2> QED
      BY <1>1, <1>3, <1>6, <1>9, <2>1, <2>3, <2>4 DEF Buffered, d
  <1>16. Data # <<>> /\ Data' = Data
    <2>1. Len(buf.bytes) \in Nat \ {0}
      BY <1>1, <1>2, EmptySeq
    <2>2. Data = <<>> => rd.bytes = <<>>
      <3>1. Len(Data) = Len(rd.bytes) + Len(rd.left) /\ Len(rd.left) \in Nat /\ Len(rd.bytes) \in Nat
        BY <1>2, ConcatProperties DEF Data
      <3>2. Len(Data) = 0 => Len(rd.bytes) = 0
        <4> DEFINE a == Len(rd.bytes)
                   b == Len(rd.left)
        <4>1. Len(Data) = a + b /\ a \in Nat /\ b \in Nat
          BY <3>1
        <4> HIDE DEF a, b
        <4>2. a + b = 0 => a = 0
          BY <4>1
        <4> QED
          BY <4>1, <4>2 DEF a
      <3> QED
        BY <1>2, <3>2, EmptySeq
    <2>3. Follows(Decoded(cur, rd.bytes), pos, buf)
      BY <1>0, <1>1 DEF Buffered
    <2>4. Follows(<<>>, pos, buf) => Len(<<>>) + 0 = pos.off + Len(buf.bytes)
      BY <1>3 DEF Follows
    <2>5. Len(<<>>) + 0 # pos.off + Len(buf.bytes)
      BY <1>2, <2>1
    <2>6. rd.bytes # <<>>
      BY <2>3, <2>4, <2>5, DecodedEmpty
    <2> QED
      BY <1>1, <2>2, <2>6 DEF Data
  <1>17. Reading'
    <2> DEFINE over == PosOver(cur, file[cur], wire[cur], buf, pos)
               next == PosOver(cur, file[cur], wire[cur], buf', pos')
               d == Stream(cur, file[cur])
    <2>1. over = FALSE /\ next \in BOOLEAN
      BY <1>1, <1>9 DEF PosOver
    <2>2. \/ /\ Begins(Data, file[cur].text)
             /\ Placed(file[cur], d, q, pos, over)
          \/ Spoilt(file[cur], Data)
      BY <1>0, <1>1, <1>16 DEF Reading
    <2>3. ASSUME Begins(Data, file[cur].text), Placed(file[cur], d, q, pos, over)
          PROVE  Placed(file[cur], d, Append(q, f), f.next, next)
      <3>1. /\ d \in Seq(Bytes) /\ pos.off + Len(buf.bytes) <= Len(d)
            /\ \A i \in 1 .. Len(buf.bytes) : buf.bytes[i] = d[pos.off + i]
            /\ buf.eof => \/ pos.off + Len(buf.bytes) = Len(d)
                          \/ cur = Live /\ wire[Live].size # Len(file[Live].text)
        BY <1>0, <1>1, <1>3, <1>16, <2>3, Waiting
      <3>2. file[cur].late \/ next \/ f.next.line = f.start.line + Newlines(Piece(f))
        <4> SUFFICES ASSUME ~file[cur].late, f.next.line # f.start.line + Newlines(Piece(f))
                     PROVE  next
          OBVIOUS
        <4>1. k = Len(buf.bytes) /\ Len(buf.bytes) <= MaxRaw /\ ~Active(cur)
          BY <1>4, <1>5
        <4>2. buf.eof
          <5>1. Len(buf.bytes) \in Nat /\ MaxRaw \in Nat
            BY <1>2, StreamAssumption
          <5> QED
            BY <1>3, <4>1, <5>1
        <4>3. rest = <<>>
          <5>1. Len(rest) = 0
            BY <1>2, <1>7, <4>1
          <5> QED
            BY <1>7, <5>1, EmptySeq
        <4>4. cur = Live => wire[Live].path = "rotated" /\ wire[Live].size = Len(file[Live].text)
          <5> SUFFICES ASSUME cur = Live
                       PROVE  wire[Live].path = "rotated" /\ wire[Live].size = Len(file[Live].text)
            OBVIOUS
          <5>1. wire[Live].path = "rotated"
            <6>1. wire[Live].path \in Ways
              BY <1>0, LiveApart, TypedParts
            <6> QED
              BY <4>1, <6>1 DEF Active, Ways
          <5>2. wire[Live].size \in {0, Len(file[Live].text)}
            BY <1>0, <5>1 DEF Recorded
          <5>3. wire[cur].size # 0
            <6>1. Len(Data) = Len(rd.bytes) + Len(rd.left) /\ Len(Data) \in Nat \ {0}
              BY <1>2, <1>16, ConcatProperties, EmptySeq DEF Data
            <6>2. Len(rd.bytes) + Len(rd.left) <= wire[cur].size
              BY <1>0, <1>1 DEF Reading
            <6>3. Len(Data) <= wire[cur].size
              BY <6>1, <6>2
            <6>4. wire[cur].size \in Nat /\ Len(Data) \in Nat \ {0}
              BY <1>0, <1>2, <6>1, TypedParts
            <6> QED
              BY <6>3, <6>4
          <5> QED
            BY <5>1, <5>2, <5>3
        <4>5. f.next.off = Len(d)
          BY <1>5, <3>1, <4>1, <4>2, <4>4
        <4> QED
          BY <1>1, <1>9, <4>2, <4>3, <4>4, <4>5 DEF PosOver
      <3>3. Placed(file[cur], d, q, f.start, FALSE)
        BY <1>4, <2>1, <2>3
      <3>4. /\ f \in Fragments /\ q \in Seq(Fragments) /\ f.start.off + Len(buf.bytes) <= Len(d)
            /\ \A i \in 1 .. Len(buf.bytes) : buf.bytes[i] = d[f.start.off + i]
            /\ f.next.off = f.start.off + k /\ Piece(f) = Take(buf.bytes, k)
        BY <1>2, <1>4, <1>5, <3>1
      <3> DEFINE b == buf.bytes
                 g == file[cur]
      <3> HIDE DEF f, q, d, next, b, g
      <3>5. /\ b \in Seq(Bytes) /\ k \in 0 .. Len(b) /\ f.start.off + Len(b) <= Len(d)
            /\ \A i \in 1 .. Len(b) : b[i] = d[f.start.off + i]
            /\ Piece(f) = Take(b, k)
        BY <1>2, <3>4 DEF b
      <3>6. (g.late \/ next \/ f.next.line = f.start.line + Newlines(Piece(f)))
            /\ Placed(g, d, q, f.start, FALSE)
        BY <3>2, <3>3 DEF g
      <3>7. /\ d \in Seq(Bytes) /\ q \in Seq(Fragments) /\ f \in Fragments /\ next \in BOOLEAN
            /\ f.next.off = f.start.off + k
        BY <2>1, <3>1, <3>4
      <3>8. Placed(g, d, Append(q, f), f.next, next)
        BY <3>5, <3>6, <3>7, PlacedNext
      <3> QED
        BY <3>8 DEF g
    <2>4. /\ rd.got = Len(rd.bytes) /\ rd.got + Len(rd.left) <= wire[cur].size
          /\ cur \in Blobs /\ rd.got = wire[cur].size /\ rd.got > 0 => rd.bytes = file[cur].text
      BY <1>0, <1>1 DEF Reading
    <2>5. \/ /\ Begins(Data, file[cur].text)
             /\ Placed(file[cur], d, Append(q, f), f.next, next)
          \/ Spoilt(file[cur], Data)
      BY <2>2, <2>3
    <2>6. sent[cur] \o taken' = Append(q, f) /\ pos' = f.next
      BY <1>1, <1>10
    <2> HIDE DEF q, f
    <2> QED
      BY <1>1, <1>6, <1>16, <2>4, <2>5, <2>6 DEF Reading
  <1> QED
    BY <1>6, <1>11, <1>12, <1>13, <1>14, <1>15, <1>17 DEF IInv

LEMMA NoPoolType == NoPool \in PoolSet
  <1>1. <<>> \in [{} -> Seq(Bytes)]
    OBVIOUS
  <1>2. [{} -> Seq(Bytes)] \in {[D -> Seq(Bytes)] : D \in SUBSET Blobs}
    OBVIOUS
  <1>3. <<>> \in Tars
    BY <1>1, <1>2 DEF Tars
  <1> QED
    BY <1>3, EmptySeq DEF NoPool, PoolSet

LEMMA NothingJoined ==
    ASSUME NEW a \in Seq(Bytes), NEW b \in Seq(Bytes), a \o b = <<>>
    PROVE  a = <<>> /\ b = <<>>
  <1>1. Len(a \o b) = Len(a) + Len(b)
    BY ConcatProperties
  <1>2. Len(a \o b) = 0 /\ Len(a) \in Nat /\ Len(b) \in Nat
    BY EmptySeq
  <1>3. 0 = Len(a) + Len(b)
    BY <1>1, <1>2
  <1>4. Len(a) = 0 /\ Len(b) = 0
    BY <1>2, <1>3
  <1> QED
    BY <1>4, EmptySeq

\* What is sent is archived.
LEMMA SendFacts ==
    ASSUME IInv, pc = "read", NEW r \in RowSet, Send(r), file' = file, r.at = pos,
           Whole(cur, file[cur], sent[cur] \o taken, r) \/ (Bad(file[cur]) /\ ~r.done),
           Reached(cur, file[cur], r)
    PROVE  /\ OnDisk' /\ Rows' /\ Reaches' /\ taken' = <<>>
           /\ row' \in [Sources -> RowSet] /\ sent' \in [Sources -> Seq(Fragments)]
           /\ row'[cur] = r /\ sent'[cur] = sent[cur] \o taken
           /\ \A s \in Sources : s # cur => row'[s] = row[s] /\ sent'[s] = sent[s]
           /\ \A s \in Sources : NumberedTo(sent'[s], row'[s].at)
  <1>0. /\ Types /\ OnDisk /\ Recorded /\ Rows /\ Reaches /\ Indexed /\ Agenda /\ Kept
        /\ Reading /\ Buffered
    BY Parts
  <1>1. cur \in Sources /\ sent[cur] \o taken \in Seq(Fragments)
    BY <1>0, ReadParts
  <1>2. /\ sent' = [sent EXCEPT ![cur] = @ \o taken] /\ row' = [row EXCEPT ![cur] = r]
        /\ taken' = <<>>
    BY DEF Send
  <1>3. row \in [Sources -> RowSet] /\ sent \in [Sources -> Seq(Fragments)]
    BY <1>0 DEF Types, RowSet
  <1>4. /\ row' \in [Sources -> RowSet] /\ sent' \in [Sources -> Seq(Fragments)]
        /\ row'[cur] = r /\ sent'[cur] = sent[cur] \o taken
        /\ \A s \in Sources : s # cur => row'[s] = row[s] /\ sent'[s] = sent[s]
    BY <1>1, <1>2, <1>3
  <1>5. OnDisk'
    BY <1>0 DEF OnDisk
  <1>6. ASSUME NEW s \in Sources
        PROVE  /\ \/ Whole(s, file'[s], sent'[s], row'[s])
                  \/ Bad(file'[s]) /\ ~row'[s].done
               /\ Reached(s, file'[s], row'[s])
               /\ NumberedTo(sent'[s], row'[s].at)
    <2>1. CASE s = cur
      <3>1. NumberedTo(sent[cur] \o taken, pos)
        BY <1>0 DEF Indexed
      <3> QED
        BY <1>4, <2>1, <3>1
    <2>2. CASE s # cur
      <3>1. /\ \/ Whole(s, file[s], sent[s], row[s])
               \/ Bad(file[s]) /\ ~row[s].done
            /\ Reached(s, file[s], row[s])
            /\ NumberedTo(sent[s], row[s].at)
        BY <1>0 DEF Rows, Reaches, Indexed
      <3>2. file'[s] = file[s] /\ row'[s] = row[s] /\ sent'[s] = sent[s]
        BY <1>4, <2>2
      <3> QED
        BY <3>1, <3>2
    <2> QED
      BY <2>1, <2>2
  <1>7. Rows' /\ Reaches'
    BY <1>6 DEF Rows, Reaches
  <1> QED
    BY <1>2, <1>4, <1>5, <1>6, <1>7

\* Before the end of its stream a source goes on as it was: archived, or gone bad.
LEMMA FlushFacts ==
    ASSUME IInv, pc = "read", buf.bytes # <<>>
    PROVE  LET r == [row[cur] EXCEPT !.at = pos]
           IN  /\ r \in RowSet /\ r.at = pos /\ r.done = row[cur].done /\ r.size = row[cur].size
               /\ Whole(cur, file[cur], sent[cur] \o taken, r) \/ (Bad(file[cur]) /\ ~r.done)
               /\ Reached(cur, file[cur], r)
               /\ Data # <<>>
  <1>0. /\ Types /\ OnDisk /\ Recorded /\ Rows /\ Reaches /\ Indexed /\ Agenda /\ Kept
        /\ Reading /\ Buffered
    BY Parts
  <1> DEFINE r == [row[cur] EXCEPT !.at = pos]
  <1>1. /\ cur \in Sources /\ pos \in Places /\ pos.off \in Nat /\ row[cur] \in RowSet
        /\ rd.bytes \in Seq(Bytes) /\ rd.left \in Seq(Bytes) /\ buf.bytes \in Seq(Bytes) /\ buf.skip \in Nat
    BY <1>0, ReadParts, TypedParts DEF Places
  <1>2. r \in RowSet /\ r.at = pos /\ r.done = row[cur].done /\ r.size = row[cur].size
    BY <1>1 DEF RowSet
  <1> HIDE DEF r
  <1>3. Data # <<>>
    <2> SUFFICES ASSUME Data = <<>> PROVE FALSE
      OBVIOUS
    <2>1. rd.bytes = <<>>
      BY <1>1, NothingJoined DEF Data
    <2>3. Decoded(cur, rd.bytes) = <<>>
      BY <2>1, DecodedEmpty
    <2>4. Follows(<<>>, pos, buf)
      BY <1>0, <2>3 DEF Buffered
    <2>5. Len(<<>>) + buf.skip = pos.off + Len(buf.bytes) /\ (buf.skip > 0 => buf.bytes = <<>>)
      BY <2>4 DEF Follows
    <2>6. buf.skip = 0
      BY <1>1, <2>5
    <2>7. Len(buf.bytes) \in Nat \ {0} /\ Len(<<>>) = 0
      BY <1>1, EmptySeq
    <2>8. 0 + 0 = pos.off + Len(buf.bytes)
      BY <2>5, <2>6, <2>7
    <2> QED
      BY <1>1, <2>7, <2>8
  <1> DEFINE over == PosOver(cur, file[cur], wire[cur], buf, pos)
  <1>4. \/ Placed(file[cur], Stream(cur, file[cur]), sent[cur] \o taken, pos, over)
        \/ Spoilt(file[cur], Data)
    BY <1>0, <1>3 DEF Reading
  <1>5. over = FALSE
    BY DEF PosOver
  <1> HIDE DEF over
  <1>6. Whole(cur, file[cur], sent[cur] \o taken, r) \/ (Bad(file[cur]) /\ ~r.done)
    <2>1. CASE Placed(file[cur], Stream(cur, file[cur]), sent[cur] \o taken, pos, over)
      <3>1. Placed(file[cur], Stream(cur, file[cur]), sent[cur] \o taken, pos, Over(cur, file[cur], r))
        BY <1>5, <2>1 DEF Placed
      <3> QED
        BY <1>2, <3>1 DEF Whole
    <2>2. CASE Spoilt(file[cur], Data)
      <3>1. Bad(file[cur]) /\ cur # Live
        BY <1>0, <2>2 DEF Spoilt, Bad, OnDisk
      <3>2. ~row[cur].done
        BY <1>0, <3>1 DEF Agenda, Unfinished
      <3> QED
        BY <1>2, <3>1, <3>2
    <2> QED
      BY <1>4, <2>1, <2>2
  <1>7. Reached(cur, file[cur], r)
    <2>1. Reached(cur, file[cur], row[cur]) /\ row[cur].at.off <= pos.off
      BY <1>0, <1>1 DEF Reaches, Buffered
    <2>2. row[cur].at.off \in Nat /\ row[cur].size \in Nat /\ Len(Stream(cur, file[cur])) \in Nat
      <3>1. Stream(cur, file[cur]) \in Seq(Bytes)
        BY <1>0, <1>1, TypedParts, StreamType
      <3> QED
        BY <1>1, <3>1 DEF RowSet, Places
    <2> QED
      BY <1>1, <1>2, <2>1, <2>2 DEF Reached
  <1> QED
    BY <1>2, <1>3, <1>6, <1>7 DEF r

LEMMA FlushKeeps == ASSUME IInv, Flush PROVE IInv'
  <1>0. /\ Types /\ OnDisk /\ Recorded /\ Rows /\ Reaches /\ Indexed /\ Agenda /\ Kept
        /\ Reading /\ Buffered
    BY Parts
  <1> DEFINE r == [row[cur] EXCEPT !.at = pos]
  <1>1. /\ pc = "read" /\ buf.bytes # <<>> /\ Send(r)
        /\ UNCHANGED <<file, pc, wire, todo, cur, rd, pool, buf, pos, failed>>
    BY DEF Flush
  <1>2. /\ r \in RowSet /\ r.at = pos /\ r.done = row[cur].done /\ r.size = row[cur].size
        /\ Whole(cur, file[cur], sent[cur] \o taken, r) \/ (Bad(file[cur]) /\ ~r.done)
        /\ Reached(cur, file[cur], r)
        /\ Data # <<>>
    BY <1>1, FlushFacts
  <1> HIDE DEF r
  <1>3. /\ OnDisk' /\ Rows' /\ Reaches' /\ taken' = <<>>
        /\ row' \in [Sources -> RowSet] /\ sent' \in [Sources -> Seq(Fragments)]
        /\ row'[cur] = r /\ sent'[cur] = sent[cur] \o taken
        /\ \A s \in Sources : s # cur => row'[s] = row[s] /\ sent'[s] = sent[s]
        /\ \A s \in Sources : NumberedTo(sent'[s], row'[s].at)
    BY <1>1, <1>2, SendFacts
  <1>4. cur \in Sources /\ todo \subseteq Sources /\ sent[cur] \o taken \in Seq(Fragments)
        /\ pos \in Places /\ pos.off \in Nat
    BY <1>0, <1>1, ReadParts DEF Types, Places
  <1>5. sent'[cur] \o taken' = sent[cur] \o taken
    <2> DEFINE q == sent[cur] \o taken
    <2>1. sent'[cur] = q /\ taken' = <<>> /\ q \in Seq(Fragments)
      BY <1>3, <1>4
    <2> HIDE DEF q
    <2>2. q \o <<>> = q
      BY <2>1, ConcatEmptySeq
    <2>3. sent'[cur] \o taken' = q
      BY <2>1, <2>2
    <2> QED
      BY <2>3 DEF q
  <1>6. Types'
    <2>1. taken' \in Seq(Fragments)
      BY <1>3, EmptySeq
    <2> QED
      BY <1>0, <1>1, <1>3, <2>1 DEF Types, RowSet
  <1>7. Recorded'
    BY <1>0, <1>1 DEF Recorded
  <1>8. Indexed'
    BY <1>0, <1>1, <1>3, <1>5 DEF Indexed
  <1>9. Agenda'
    <2>1. ASSUME NEW s \in todo \cup {cur} PROVE Unfinished(s, file[s], row'[s])
      <3>1. Unfinished(s, file[s], row[s]) /\ s \in Sources
        BY <1>0, <1>1, <1>4 DEF Agenda
      <3> QED
        BY <1>2, <1>3, <3>1 DEF Unfinished
    <2> QED
      BY <1>0, <1>1, <2>1 DEF Agenda
  <1>10. Kept'
    <2> SUFFICES ASSUME NEW t \in DOMAIN pool'.tar, t \in todo' \/ Fresh(t)'
                 PROVE  Arrived(t, file'[t], wire'[t], sent'[t], row'[t], pool'.tar[t])
      BY DEF Kept
    <2>1. ~Fresh(t)'
      <3>1. rd.got = 0 /\ rd.left = <<>> => Data = <<>>
        <4>1. rd.got = Len(rd.bytes) /\ rd.bytes \in Seq(Bytes)
          BY <1>0, <1>1, ReadParts DEF Reading
        <4> QED
          BY <4>1, EmptySeq, ConcatEmptySeq DEF Data
      <3> QED
        BY <1>1, <1>2, <3>1 DEF Fresh
    <2>2. t \in todo /\ t # cur /\ t \in Sources
      BY <1>0, <1>1, <1>4, <2>1 DEF Agenda
    <2> QED
      BY <1>0, <1>1, <1>3, <2>2 DEF Kept
  <1>11. Reading'
    <2> DEFINE over == PosOver(cur, file[cur], wire[cur], buf, pos)
    <2>1. Data' = Data /\ over' = over
      BY <1>1 DEF Data
    <2>2. /\ rd.got = Len(rd.bytes) /\ rd.got + Len(rd.left) <= wire[cur].size
          /\ \/ /\ Begins(Data, file[cur].text)
                /\ Placed(file[cur], Stream(cur, file[cur]), sent[cur] \o taken, pos, over)
             \/ Spoilt(file[cur], Data)
          /\ cur \in Blobs /\ rd.got = wire[cur].size /\ rd.got > 0 => rd.bytes = file[cur].text
      BY <1>0, <1>1, <1>2 DEF Reading
    <2> HIDE DEF over
    <2> QED
      BY <1>1, <1>2, <1>5, <2>1, <2>2 DEF Reading, over
  <1>12. Buffered'
    BY <1>0, <1>1, <1>2, <1>3, <1>4 DEF Buffered
  <1> QED
    BY <1>3, <1>6, <1>7, <1>8, <1>9, <1>10, <1>11, <1>12 DEF IInv

LEMMA StopKeeps == ASSUME IInv, Stop PROVE IInv'
  <1>0. /\ Types /\ OnDisk /\ Recorded /\ Rows /\ Reaches /\ Indexed /\ Agenda /\ Kept
        /\ Reading /\ Buffered
    BY Parts
  <1> DEFINE r == [row[cur] EXCEPT !.at = pos]
  <1>1. /\ pc = "read" /\ buf.bytes # <<>> /\ pc' = "stopped" /\ pool' = NoPool /\ rd' = NoReader
        /\ Send(r) \/ (taken' = <<>> /\ UNCHANGED durable)
        /\ UNCHANGED <<file, wire, todo, cur, buf, pos, failed>>
    BY DEF Stop
  <1>2. /\ OnDisk' /\ Rows' /\ Reaches' /\ taken' = <<>>
        /\ row' \in [Sources -> RowSet] /\ sent' \in [Sources -> Seq(Fragments)]
        /\ \A s \in Sources : NumberedTo(sent'[s], row'[s].at)
    <2>1. CASE Send(r)
      <3>1. /\ r \in RowSet /\ r.at = pos
            /\ Whole(cur, file[cur], sent[cur] \o taken, r) \/ (Bad(file[cur]) /\ ~r.done)
            /\ Reached(cur, file[cur], r)
        BY <1>1, FlushFacts
      <3> HIDE DEF r
      <3> QED
        BY <1>1, <2>1, <3>1, SendFacts
    <2>2. CASE taken' = <<>> /\ UNCHANGED durable
      <3>1. OnDisk' /\ Rows' /\ Reaches' /\ file' = file /\ row' = row /\ sent' = sent
        BY <1>0, <1>1, <2>2, Archive
      <3> QED
        BY <1>0, <2>2, <3>1 DEF Types, RowSet, Indexed
    <2> QED
      BY <1>1, <2>1, <2>2
  <1>3. Types'
    <2>1. rd' \in Reader /\ taken' \in Seq(Fragments)
      BY <1>1, <1>2, EmptySeq DEF NoReader, Reader
    <2>2. pool' \in PoolSet
      BY <1>1, NoPoolType
    <2> QED
      BY <1>0, <1>1, <1>2, <2>1, <2>2 DEF Types, RowSet, Ended
  <1>4. Recorded'
    BY <1>0, <1>1 DEF Recorded, Ended
  <1>5. Indexed' /\ Kept' /\ Reading' /\ Buffered'
    BY <1>1, <1>2 DEF Indexed, Kept, Reading, Buffered
  <1>6. Agenda'
    BY <1>1 DEF Agenda, Ended, NoPool
  <1> QED
    BY <1>2, <1>3, <1>4, <1>5, <1>6 DEF IInv

LEMMA EndKeeps == ASSUME IInv, End \/ Die PROVE IInv'
  <1>0. /\ Types /\ OnDisk /\ Recorded /\ Rows /\ Reaches /\ Indexed /\ Agenda /\ Kept
        /\ Reading /\ Buffered
    BY Parts
  <1>1. /\ pc' \in Ended /\ pool' = NoPool /\ (rd' = rd \/ rd' = NoReader)
        /\ (taken' = taken \/ taken' = <<>>)
        /\ UNCHANGED <<file, durable, wire, todo, cur, buf, pos, failed>>
    BY DEF End, Die, Ended
  <1>2. OnDisk' /\ Rows' /\ Reaches' /\ file' = file /\ row' = row /\ sent' = sent
    BY <1>0, <1>1, Archive
  <1>3. Types'
    <2>0. NoReader \in Reader /\ <<>> \in Seq(Fragments)
      BY EmptySeq DEF NoReader, Reader
    <2>1. rd' \in Reader /\ taken' \in Seq(Fragments)
      BY <1>0, <1>1, <2>0 DEF Types
    <2>2. pool' \in PoolSet
      BY <1>1, NoPoolType
    <2>3. pc' # "read"
      BY <1>1 DEF Ended
    <2> QED
      BY <1>0, <1>1, <1>2, <2>1, <2>2, <2>3 DEF Types
  <1>4. pc' # "read" /\ pc' # "next"
    BY <1>1 DEF Ended
  <1>5. Recorded'
    BY <1>0, <1>1, <1>2 DEF Recorded
  <1>6. Indexed' /\ Kept' /\ Reading' /\ Buffered'
    BY <1>0, <1>2, <1>4 DEF Indexed, Kept, Reading, Buffered
  <1>7. Agenda'
    BY <1>1, <1>4 DEF Agenda, NoPool
  <1> QED
    BY <1>2, <1>3, <1>5, <1>6, <1>7 DEF IInv

LEMMA CompleteKeeps == ASSUME IInv, Complete PROVE IInv'
  <1>0. /\ Types /\ OnDisk /\ Recorded /\ Rows /\ Reaches /\ Indexed /\ Agenda /\ Kept
        /\ Reading /\ Buffered
    BY Parts
  <1> DEFINE r == [at |-> pos, done |-> TRUE, size |-> wire[cur].size]
             f == file[cur]
             d == Stream(cur, f)
             q == sent[cur] \o taken
  <1>1. /\ pc = "read" /\ buf.bytes = <<>> /\ pc' = "next" /\ Send(r)
        /\ UNCHANGED <<file, wire, todo, cur, rd, pool, buf, pos, failed>>
    BY DEF Complete
  <1>2. /\ cur \in Sources /\ pos \in Places /\ pos.off \in Nat /\ wire[cur].size \in Nat
        /\ rd.bytes \in Seq(Bytes) /\ rd.left \in Seq(Bytes) /\ rd.got \in Nat
        /\ Len(rd.left) \in Nat /\ buf.skip \in Nat /\ buf.eof \in BOOLEAN
        /\ f \in FileSet /\ f.text \in Seq(Bytes) /\ sent[cur] \in Seq(Fragments)
        /\ q \in Seq(Fragments)
    BY <1>0, <1>1, ReadParts, TypedParts DEF Places
  <1>3. buf.eof
    <2>1. Len(buf.bytes) = 0 /\ MaxRaw \in Nat
      BY <1>1, StreamAssumption, EmptySeq
    <2>2. buf.eof \/ ~(buf.skip > 0 \/ Len(buf.bytes) <= MaxRaw)
      BY DEF Complete, Hungry
    <2> QED
      BY <2>1, <2>2
  <1>4. /\ rd.got = wire[cur].size /\ buf.skip = 0 /\ rd.got = Len(rd.bytes)
        /\ rd.got + Len(rd.left) <= wire[cur].size
    BY <1>0, <1>1, <1>3 DEF Buffered, Reading
  <1>5. rd.left = <<>> /\ Data = rd.bytes
    <2>0. rd.got + Len(rd.left) <= rd.got
      BY <1>4
    <2>1. Len(rd.left) = 0
      BY <1>2, <2>0
    <2>2. rd.left = <<>>
      BY <1>2, <2>1, EmptySeq
    <2> QED
      BY <1>2, <2>2, ConcatEmptySeq DEF Data
  <1>6. Len(Decoded(cur, rd.bytes)) = pos.off
    <2> DEFINE e == Decoded(cur, rd.bytes)
    <2>1. Follows(e, pos, buf) /\ e \in Seq(Bytes)
      BY <1>0, <1>1, <1>2, DecodedType DEF Buffered
    <2> HIDE DEF e
    <2>2. Len(e) + 0 = pos.off + Len(<<>>)
      BY <1>1, <1>4, <2>1 DEF Follows
    <2>3. Len(e) \in Nat /\ Len(<<>>) = 0
      BY <2>1
    <2>4. Len(e) = pos.off
      BY <1>2, <2>2, <2>3
    <2> QED
      BY <2>4 DEF e
  <1>7. cur \in Blobs => rd.bytes = f.text
    <2> SUFFICES ASSUME cur \in Blobs PROVE rd.bytes = f.text
      OBVIOUS
    <2>1. CASE rd.got > 0
      BY <1>0, <1>1, <1>4, <2>1 DEF Reading
    <2>2. CASE ~(rd.got > 0)
      <3>1. wire[cur].size = Len(f.text)
        BY <1>0, <1>1, <2>2 DEF Recorded, Ended
      <3>3. rd.got = 0
        BY <1>2, <2>2
      <3>2. Len(rd.bytes) = 0 /\ Len(f.text) = 0
        BY <1>4, <3>1, <3>3
      <3> QED
        BY <1>2, <3>2, EmptySeq
    <2> QED
      BY <2>1, <2>2
  <1>8. r \in RowSet /\ r.at = pos /\ r.done = TRUE /\ r.size = wire[cur].size
    BY <1>2 DEF RowSet
  <1> HIDE DEF r, q, d, f
  <1>9. Whole(cur, f, q, r)
    <2> DEFINE over == PosOver(cur, f, wire[cur], buf, pos)
    <2>1. CASE Data # <<>>
      <3>1. \/ Begins(Data, f.text) /\ Placed(f, d, q, pos, over)
            \/ Spoilt(f, Data)
        BY <1>0, <1>1, <2>1 DEF Reading, f, d, q
      <3>2. ~Spoilt(f, Data)
        <4> SUFFICES ASSUME Spoilt(f, Data) PROVE FALSE
          OBVIOUS
        <4>1. cur \in Blobs
          BY <1>0, <1>2, LiveApart DEF Spoilt, Bad, OnDisk, f
        <4> QED
          BY <1>5, <1>7, <4>1 DEF Spoilt
      <3>3. over => Over(cur, f, r)
        <4> SUFFICES ASSUME over PROVE Over(cur, f, r)
          OBVIOUS
        <4>1. pos.off = Len(Stream(cur, f))
              /\ (cur = Live => wire[cur].path = "rotated" /\ wire[cur].size = Len(f.text))
          BY DEF PosOver
        <4>2. cur = Live => f.path = "rotated"
          BY <1>0, <4>1 DEF Recorded, f
        <4> QED
          BY <1>8, <4>1, <4>2 DEF Over
      <3> HIDE DEF over
      <3>4. Placed(f, d, q, pos, over)
        BY <3>1, <3>2
      <3>5. Placed(f, d, q, pos, Over(cur, f, r))
        BY <3>3, <3>4 DEF Placed
      <3> QED
        BY <1>8, <3>5 DEF Whole, d
    <2>2. CASE Data = <<>>
      <3>1. taken = <<>> /\ pos = row[cur].at
        BY <1>0, <1>1, <2>2 DEF Reading
      <3>2. q = sent[cur]
        BY <1>2, <3>1, ConcatEmptySeq DEF q
      <3>3. ~Bad(f)
        <4> SUFFICES ASSUME Bad(f) PROVE FALSE
          OBVIOUS
        <4>1. cur \in Blobs
          BY <1>0, <1>2, LiveApart DEF Bad, OnDisk, f
        <4>2. f.text = <<>>
          BY <1>5, <1>7, <2>2, <4>1
        <4>3. f.size = Len(f.text) /\ f.size > 0
          BY <1>0, <4>1 DEF OnDisk, Bad, f
        <4> QED
          BY <4>2, <4>3, EmptySeq
      <3>4. Whole(cur, f, sent[cur], row[cur])
        BY <1>0, <1>2, <3>3 DEF Rows, f
      <3>5. ~Over(cur, f, row[cur])
        <4>1. Unfinished(cur, f, row[cur])
          BY <1>0, <1>1 DEF Agenda, f
        <4>2. Len(f.text) \in Nat
          BY <1>2
        <4> QED
          BY <4>1, <4>2 DEF Unfinished, Over
      <3> QED
        BY <1>8, <3>1, <3>2, <3>4, <3>5 DEF Whole, Placed
    <2> QED
      BY <2>1, <2>2
  <1>10. Reached(cur, f, r)
    <2>1. CASE cur = Live
      <3>1. Decoded(cur, rd.bytes) = rd.bytes
        BY <2>1, LiveApart DEF Decoded
      <3>2. pos.off = wire[cur].size
        BY <1>4, <1>6, <3>1
      <3> QED
        BY <1>2, <1>8, <2>1, <3>2 DEF Reached
    <2>2. CASE cur \in Blobs
      <3>1. Stream(cur, f) = Decoded(cur, rd.bytes)
        BY <1>7, <2>2 DEF Stream
      <3> QED
        BY <1>2, <1>6, <1>8, <2>2, <3>1, LiveApart DEF Reached
    <2> QED
      BY <1>2, <2>1, <2>2, LiveApart
  <1>11. /\ OnDisk' /\ Rows' /\ Reaches' /\ taken' = <<>>
         /\ row' \in [Sources -> RowSet] /\ sent' \in [Sources -> Seq(Fragments)]
         /\ \A s \in Sources : s # cur => row'[s] = row[s] /\ sent'[s] = sent[s]
         /\ \A s \in Sources : NumberedTo(sent'[s], row'[s].at)
    <2>1. Whole(cur, file[cur], sent[cur] \o taken, r) /\ Reached(cur, file[cur], r)
      BY <1>9, <1>10 DEF f, q
    <2>2. Send(r)
      BY <1>1 DEF r
    <2> QED
      BY <1>1, <1>8, <2>1, <2>2, SendFacts
  <1>12. Types'
    <2>1. taken' \in Seq(Fragments)
      BY <1>11, EmptySeq
    <2> QED
      BY <1>0, <1>1, <1>11, <2>1 DEF Types, RowSet
  <1>13. Recorded'
    BY <1>0, <1>1 DEF Recorded, Ended
  <1>14. Indexed'
    BY <1>1, <1>11 DEF Indexed
  <1>15. \A s \in todo : s \in Sources /\ s # cur
    BY <1>0, <1>1 DEF Types, Agenda
  <1>16. Agenda'
    <2>1. ASSUME NEW s \in todo PROVE Unfinished(s, file[s], row'[s])
      <3>1. Unfinished(s, file[s], row[s])
        BY <1>0, <1>1 DEF Agenda
      <3> QED
        BY <1>11, <1>15, <3>1
    <2>2. pool.held # 1 /\ \A i \in 1 .. Len(pool.hints) : wire[pool.hints[i]].size > 0
      BY <1>0, <1>1, <1>5 DEF Agenda, Ended
    <2> QED
      BY <1>1, <2>1, <2>2 DEF Agenda
  <1>17. Kept'
    <2> SUFFICES ASSUME NEW t \in DOMAIN pool'.tar, t \in todo' \/ Fresh(t)'
                 PROVE  Arrived(t, file'[t], wire'[t], sent'[t], row'[t], pool'.tar[t])
      BY DEF Kept
    <2>1. t \in todo
      BY <1>1 DEF Fresh
    <2>2. Arrived(t, file[t], wire[t], sent[t], row[t], pool.tar[t])
      BY <1>0, <1>1, <2>1 DEF Kept
    <2> QED
      BY <1>1, <1>11, <1>15, <2>1, <2>2
  <1>18. Reading' /\ Buffered'
    BY <1>1 DEF Reading, Buffered
  <1> QED
    BY <1>11, <1>12, <1>13, <1>14, <1>16, <1>17, <1>18 DEF IInv

LEMMA StutterKeeps == ASSUME IInv, UNCHANGED vars PROVE IInv'
  <1>1. /\ file' = file /\ row' = row /\ sent' = sent /\ pc' = pc /\ wire' = wire /\ todo' = todo
        /\ cur' = cur /\ rd' = rd /\ pool' = pool /\ buf' = buf /\ pos' = pos /\ taken' = taken
        /\ failed' = failed
    BY DEF vars
  <1>2. \A s : Fresh(s)' <=> Fresh(s)
    BY <1>1 DEF Fresh
  <1>3. Data' = Data
    BY <1>1 DEF Data
  <1>4. Types' /\ OnDisk' /\ Recorded' /\ Rows' /\ Reaches' /\ Indexed' /\ Agenda'
    BY <1>1 DEF IInv, Types, OnDisk, Recorded, Rows, Reaches, Indexed, Agenda
  <1>5. Kept'
    BY <1>1, <1>2 DEF IInv, Kept
  <1>6. Reading'
    BY <1>1, <1>3 DEF IInv, Reading
  <1>7. Buffered'
    BY <1>1 DEF IInv, Buffered
  <1> QED
    BY <1>4, <1>5, <1>6, <1>7 DEF IInv

LEMMA NextKeeps == ASSUME IInv, [Next]_vars PROVE IInv'
  <1>1. CASE World
    BY <1>1, WorldKeeps
  <1>2. CASE Begin
    BY <1>2, BeginKeeps
  <1>3. CASE Open
    BY <1>3, OpenKeeps
  <1>4. CASE FetchServed
    BY <1>4, FetchServedKeeps
  <1>5. CASE FetchBatch
    BY <1>5, FetchBatchKeeps
  <1>6. CASE FetchOne
    BY <1>6, FetchOneKeeps
  <1>7. CASE Pull
    BY <1>7, PullKeeps
  <1>8. CASE EndOfStream
    BY <1>8, EndOfStreamKeeps
  <1>9. CASE Yield
    BY <1>9, YieldKeeps
  <1>10. CASE Flush
    BY <1>10, FlushKeeps
  <1>11. CASE Complete
    BY <1>11, CompleteKeeps
  <1>12. CASE Stop
    BY <1>12, StopKeeps
  <1>13. CASE End \/ Die
    BY <1>13, EndKeeps
  <1>14. CASE Done \/ UNCHANGED vars
    BY <1>14, StutterKeeps DEF Done
  <1> QED
    BY <1>1, <1>2, <1>3, <1>4, <1>5, <1>6, <1>7, <1>8, <1>9, <1>10, <1>11, <1>12, <1>13, <1>14 DEF Next

LEMMA Invariance == Spec => []IInv
  <1>1. IInv /\ [Next]_vars => IInv'
    BY NextKeeps
  <1> QED
    BY <1>1, InitKeeps, PTL DEF Spec

-----------------------------------------------------------------------------
(***************************************************************************)
(* What the invariant says of the archive.                                 *)
(***************************************************************************)
LEMMA Archives ==
    ASSUME IInv, NEW s \in Sources, file[s].st # "rotten" \/ row[s].done
    PROVE  /\ Whole(s, file[s], sent[s], row[s])
           /\ Archived(s) = Take(Written(s), row[s].at.off)
           /\ row[s].at.off <= Len(Written(s)) /\ row[s].at.off \in Nat /\ row[s].size \in Nat
           /\ Written(s) \in Seq(Bytes)
  <1>0. Types /\ Rows
    BY Parts
  <1>1. Written(s) = Stream(s, file[s]) /\ Archived(s) = Joined(sent[s])
    BY DEF Written, Stream, Archived
  <1>2. Written(s) \in Seq(Bytes) /\ row[s].at.off \in Nat /\ row[s].size \in Nat
    BY <1>0, <1>1, TypedParts, StreamType DEF Places, RowSet
  <1>3. Whole(s, file[s], sent[s], row[s])
    BY <1>0 DEF Rows, Bad
  <1> QED
    BY <1>1, <1>2, <1>3 DEF Whole, Placed

\* The types the model declares, in every state: what the code's readers, buffers and
\* durable positions may hold.
THEOREM TypeCorrect == Spec => []TypeOK
  <1>1. IInv => TypeOK
    <2> SUFFICES ASSUME IInv PROVE TypeOK
      OBVIOUS
    <2>1. Types /\ OnDisk
      BY Parts
    <2>2. ASSUME NEW s \in Sources
          PROVE  /\ file[s].text \in Seq(Bytes) /\ file[s].size \in 0 .. Len(file[s].text)
                 /\ row[s].at.off \in Nat /\ row[s].at.line \in Nat \ {0} /\ row[s].at.idx \in Nat
                 /\ row[s].done \in BOOLEAN /\ wire[s].size \in Nat
      <3>1. /\ file[s] \in FileSet /\ row[s] \in RowSet /\ row[s].at \in Places
            /\ wire[s].size \in Nat /\ file[s].text \in Seq(Bytes)
        BY <2>1, TypedParts
      <3>2. Len(file[s].text) \in Nat
        BY <3>1
      <3>3. file[s].size \in {0, Len(file[s].text)}
        BY <2>1, LiveApart DEF OnDisk
      <3> QED
        BY <3>1, <3>2, <3>3 DEF RowSet, Places
    <2>3. rd \in Reader /\ pool \in PoolSet /\ DOMAIN pool.tar \subseteq Blobs
      BY <2>1, TarParts DEF Types
    <2> QED
      BY <2>1, <2>2, <2>3 DEF TypeOK, Types, Reader, PoolSet
  <1> QED
    BY <1>1, Invariance, PTL

\* What Loki has of a source is what was written up to the durable offset: no byte lost,
\* doubled or of another source, whatever windows, batches, cuts, failures, deaths and
\* resumed runs the importer went through (_import_source, RemoteSnapshotPool,
\* iter_log_fragments).
THEOREM AlwaysNothingLostOrDoubled == Spec => []NothingLostOrDoubled
  <1>1. IInv => NothingLostOrDoubled
    BY Archives DEF NothingLostOrDoubled
  <1> QED
    BY <1>1, Invariance, PTL

\* A source marked complete has all of what was recorded of it in the archive.
THEOREM AlwaysCompleteMeansAll == Spec => []CompleteMeansAll
  <1>1. IInv => CompleteMeansAll
    <2> SUFFICES ASSUME IInv, NEW s \in Sources, row[s].done
                 PROVE  LET n == IF s = Live THEN row[s].size ELSE Len(Written(s))
                        IN  Take(Archived(s), n) = Take(Written(s), n) /\ Len(Archived(s)) >= n
      BY DEF CompleteMeansAll
    <2> DEFINE n == IF s = Live THEN row[s].size ELSE Len(Written(s))
               a == Archived(s)
               w == Written(s)
               off == row[s].at.off
    <2>1. /\ a = Take(w, off) /\ off <= Len(w) /\ off \in Nat /\ row[s].size \in Nat
          /\ w \in Seq(Bytes)
      BY Archives
    <2>2. off >= n
      <3>1. Reached(s, file[s], row[s])
        BY Parts DEF Reaches
      <3> QED
        BY <3>1 DEF Reached, Written, Stream
    <2>3. n \in Nat
      BY <2>1
    <2> HIDE DEF n, a, w, off
    <2>4. a \in Seq(Bytes) /\ Len(a) = off /\ \A i \in 1 .. Len(a) : a[i] = w[i]
      BY <2>1, Taking
    <2>5. Begins(a, w)
      BY <2>1, <2>4 DEF Begins
    <2>6. n <= Len(a)
      BY <2>1, <2>2, <2>3, <2>4
    <2>7. Take(a, n) = Take(w, n) /\ Len(a) >= n
      BY <2>1, <2>3, <2>4, <2>5, <2>6, TakePrefix
    <2> QED
      BY <2>7 DEF n, a, w
  <1> QED
    BY <1>1, Invariance, PTL

\* Every fragment carries its line's number in the log and its index within the line.
THEOREM AlwaysLineNumbers == Spec => []LineNumbers
  <1>1. IInv => LineNumbers
    <2> SUFFICES ASSUME IInv, NEW s \in Sources, ~file[s].late, file[s].st # "rotten" \/ row[s].done,
                        NEW i \in DOMAIN sent[s]
                 PROVE  /\ sent[s][i].start.line = 1 + Newlines(Take(Written(s), sent[s][i].start.off))
                        /\ sent[s][i].start.idx =
                             Cardinality({k \in 1 .. i - 1 : sent[s][k].start.line = sent[s][i].start.line})
      BY DEF LineNumbers
    <2>1. Whole(s, file[s], sent[s], row[s]) /\ Written(s) = Stream(s, file[s])
      BY Archives DEF Written, Stream
    <2>2. i \in 1 .. Len(sent[s])
      <3>1. sent[s] \in Seq(Fragments)
        BY Parts, TypedParts
      <3> QED
        BY <3>1, LenProperties
    <2>3. LineAt(Written(s), sent[s][i].start)
      BY <2>1, <2>2 DEF Whole, Placed, Lines
    <2>4. sent[s][i].start.idx = Cardinality(Same(sent[s], i - 1, sent[s][i].start.line))
      BY <2>2, Parts DEF Indexed, NumberedTo
    <2> QED
      BY <2>3, <2>4 DEF LineAt, Same
  <1> QED
    BY <1>1, Invariance, PTL

=============================================================================
