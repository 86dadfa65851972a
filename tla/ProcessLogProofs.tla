--------------------------- MODULE ProcessLogProofs ---------------------------
(* Theorems about ProcessLog, for any readers, sizes and restarts.         *)
EXTENDS ProcessLog, NaturalSets

(* What the wakeups rest on: the readers' variables are functions.         *)
ReaderTypes ==
    /\ pc \in [Readers -> {"idle", "look", "waiting", "answer"}]
    /\ holds \in [Readers -> Logs]
    /\ current \in Logs
    /\ DOMAIN cursor = Readers /\ DOMAIN log = Logs

(* A step that changes a log, a cursor or a place of a reader leaves no    *)
(* reader waiting for what is there.                                       *)
LEMMA WakeupStep == ReaderTypes /\ NoLostWakeup /\ [Next]_vars => ReaderTypes' /\ NoLostWakeup'
<1> SUFFICES ASSUME ReaderTypes, NoLostWakeup, [Next]_vars PROVE ReaderTypes' /\ NoLostWakeup'
  OBVIOUS
<1> USE DEF ReaderTypes, NoLostWakeup, idVars, logVars, readerVars
<1>1. ASSUME NEW e \in Logs, NEW s \in Streams, PumpStep(e, s) PROVE ReaderTypes' /\ NoLostWakeup'
  <2>1. /\ pc' = [r \in Readers |-> IF pc[r] = "waiting" /\ holds[r] = e THEN "look" ELSE pc[r]]
        /\ current' = current /\ holds' = holds /\ cursor' = cursor /\ DOMAIN log' = Logs
        /\ \A d \in Logs \ {e} : log'[d] = log[d]
    BY <1>1 DEF PumpStep, Pump, PumpEnd, NotifyAll, Woken
  <2> QED BY <2>1
<1>2. ASSUME NEW r \in Readers, NEW l \in Limits, NEW wait \in BOOLEAN, Lookup(r, l, wait)
      PROVE  ReaderTypes' /\ NoLostWakeup'
  BY <1>2 DEF Lookup
<1>3. ASSUME NEW r \in Readers, Wait(r) PROVE ReaderTypes' /\ NoLostWakeup'
  BY <1>3 DEF Wait
<1>4. ASSUME NEW r \in Readers, Look(r) PROVE ReaderTypes' /\ NoLostWakeup'
  <2>1. pc' = [pc EXCEPT ![r] = "answer"] /\ UNCHANGED <<current, log, holds, cursor>>
    BY <1>4 DEF Look
  <2> QED BY <2>1
<1>5. ASSUME NEW r \in Readers, Answer(r) \/ NotFound(r) PROVE ReaderTypes' /\ NoLostWakeup'
  <2>1. /\ pc' = [pc EXCEPT ![r] = "idle"] /\ UNCHANGED <<current, log, holds>>
        /\ DOMAIN cursor' = Readers /\ \A q \in Readers \ {r} : cursor'[q] = cursor[q]
    BY <1>5 DEF Answer, NotFound, Done
  <2> QED BY <2>1
<1>6. ASSUME NEW r \in Readers, Deadline(r) PROVE ReaderTypes' /\ NoLostWakeup'
  BY <1>6 DEF Deadline
<1>7. CASE Drop \/ Start
  BY <1>7, LogAssumption DEF Drop, Start, Logs
<1>8. CASE UNCHANGED vars
  BY <1>8 DEF vars
<1> QED BY <1>1, <1>2, <1>3, <1>4, <1>5, <1>6, <1>7, <1>8 DEF Next, ReadStep

(* No notification is lost between a reader's look and its wait, whatever  *)
(* pumps, other readers and restarts do.                                   *)
THEOREM NoLostWakeupCorrect == Spec => []NoLostWakeup
<1>1. Init => ReaderTypes /\ NoLostWakeup
  BY LogAssumption DEF Init, ReaderTypes, NoLostWakeup, Logs
<1> QED BY <1>1, WakeupStep, PTL DEF Spec

-----------------------------------------------------------------------------
(* Totals of sequences of sizes. *)

(* s is the sequence of totals of sizes: s[k] is that of the first k.      *)
Sums(s, sizes) ==
    /\ s[0] = 0
    /\ \A k \in 1 .. Len(sizes) : s[k] = s[k - 1] + sizes[k]

LEMMA TotalSums ==
    ASSUME NEW sizes \in Seq(Nat)
    PROVE  \E s \in [0 .. Len(sizes) -> Int] : Sums(s, sizes) /\ Total(sizes) = s[Len(sizes)]
<1> DEFINE n == Len(sizes)
           F == [k \in 1 .. n |-> [v \in Int |-> v + sizes[k]]]
           Equation(s) == s = [k \in 0 .. n |-> IF k = 0 THEN 0 ELSE s[k - 1] + sizes[k]]
           sum == CHOOSE s : Equation(s)
<1>1. n \in Nat /\ 0 \in Int /\ F \in [1 .. n -> [Int -> Int]]
  OBVIOUS
<1>2. PICK g : Iterates(n, Int, 0, F, g)
  <2> HIDE DEF n, F
  <2> QED BY <1>1, IteratesExist
<1>3. g \in [0 .. n -> Int] /\ g[0] = 0 /\ \A k \in 1 .. n : g[k] = g[k - 1] + sizes[k]
  <2>1. g \in [0 .. n -> Int] /\ g[0] = 0 /\ \A k \in 1 .. n : g[k] = F[k][g[k - 1]]
    BY <1>2 DEF Iterates
  <2>2. \A k \in 1 .. n : F[k][g[k - 1]] = g[k - 1] + sizes[k]
    <3>1. \A k \in 1 .. n : g[k - 1] \in Int
      <4>1. \A k \in 1 .. n : k - 1 \in 0 .. n
        BY <1>1
      <4> HIDE DEF n, F
      <4> QED BY <2>1, <4>1
    <3> QED BY <3>1
  <2> QED BY <2>1, <2>2
<1>4. Equation(g)
  <2>1. \A k \in 0 .. n : k # 0 => k \in 1 .. n
    BY <1>1
  <2>2. \A k \in 0 .. n : g[k] = IF k = 0 THEN 0 ELSE g[k - 1] + sizes[k]
    BY <1>3, <2>1, Zenon
  <2> QED BY <1>3, <2>2
<1>5. Equation(sum)
  <2> HIDE DEF Equation
  <2> QED BY <1>4
<1>6. Total(sizes) = sum[n]
  BY DEF Total
<1> HIDE DEF sum
<1>7. sum[0] = 0 /\ \A k \in 1 .. n : sum[k] = sum[k - 1] + sizes[k]
  <2>1. \A k \in 0 .. n : sum[k] = IF k = 0 THEN 0 ELSE sum[k - 1] + sizes[k]
    BY <1>5, Zenon
  <2> QED BY <1>1, <2>1
<1> HIDE DEF Equation, F
<1>8. Agree(n, sum, g)
  <2>1. sum[0] = g[0] /\ \A k \in 1 .. n : sum[k - 1] = g[k - 1] => sum[k] = g[k]
    BY <1>3, <1>7, Zenon
  <2> QED BY <1>1, <2>1, IteratesAgree
<1> QED BY <1>1, <1>3, <1>6, <1>8 DEF Sums, Agree

(* Any such sequence ends with the total. *)
LEMMA SumsTotal ==
    ASSUME NEW sizes \in Seq(Nat), NEW s, Sums(s, sizes)
    PROVE  s[Len(sizes)] = Total(sizes)
<1>1. PICK p \in [0 .. Len(sizes) -> Int] : Sums(p, sizes) /\ Total(sizes) = p[Len(sizes)]
  BY TotalSums
<1>2. Agree(Len(sizes), s, p)
  <2>1. Len(sizes) \in Nat /\ s[0] = p[0]
    BY <1>1 DEF Sums
  <2>2. \A k \in 1 .. Len(sizes) : s[k - 1] = p[k - 1] => s[k] = p[k]
    BY <1>1 DEF Sums
  <2> QED BY <2>1, <2>2, IteratesAgree
<1> QED BY <1>1, <1>2 DEF Agree

LEMMA TotalEmpty ==
    ASSUME NEW sizes \in Seq(Nat), Len(sizes) = 0
    PROVE  Total(sizes) = 0
BY TotalSums DEF Sums

LEMMA TotalAppend ==
    ASSUME NEW sizes \in Seq(Nat), NEW x \in Nat
    PROVE  Total(Append(sizes, x)) = Total(sizes) + x
<1> DEFINE more == Append(sizes, x)
<1>1. /\ more \in Seq(Nat) /\ Len(sizes) \in Nat /\ Len(more) = Len(sizes) + 1
      /\ \A k \in 1 .. Len(sizes) : more[k] = sizes[k]
      /\ more[Len(more)] = x
  OBVIOUS
<1> HIDE DEF more
<1>2. PICK p \in [0 .. Len(more) -> Int] : Sums(p, more) /\ Total(more) = p[Len(more)]
  BY <1>1, TotalSums
<1>3. Sums(p, sizes)
  BY <1>1, <1>2 DEF Sums
<1>4. p[Len(sizes)] = Total(sizes)
  BY <1>3, SumsTotal
<1>5. Len(more) \in 1 .. Len(more) /\ Len(more) - 1 = Len(sizes)
  BY <1>1
<1>6. p[Len(more)] = p[Len(sizes)] + x
  BY <1>1, <1>2, <1>5 DEF Sums
<1> QED BY <1>2, <1>4, <1>6 DEF more

LEMMA TotalSplit ==
    ASSUME NEW sizes \in Seq(Nat), NEW n \in 0 .. Len(sizes)
    PROVE  Total(sizes) = Total(SubSeq(sizes, 1, n)) + Total(SubSeq(sizes, n + 1, Len(sizes)))
<1> DEFINE front == SubSeq(sizes, 1, n)
           rest == SubSeq(sizes, n + 1, Len(sizes))
<1>1. /\ Len(sizes) \in Nat
      /\ front \in Seq(Nat) /\ Len(front) = n /\ \A k \in 1 .. n : front[k] = sizes[k]
      /\ rest \in Seq(Nat) /\ Len(rest) = Len(sizes) - n
      /\ \A k \in 1 .. Len(rest) : rest[k] = sizes[n + k]
  OBVIOUS
<1> HIDE DEF front, rest
<1>2. PICK p \in [0 .. Len(sizes) -> Int] : Sums(p, sizes) /\ Total(sizes) = p[Len(sizes)]
  BY TotalSums
<1>3. Sums(p, front)
  BY <1>1, <1>2 DEF Sums
<1>4. p[n] = Total(front)
  BY <1>1, <1>3, SumsTotal
<1> DEFINE q == [k \in 0 .. Len(rest) |-> p[n + k] - p[n]]
<1>5. Sums(q, rest)
  <2>1. q[0] = 0
    <3>1. 0 \in 0 .. Len(rest) /\ n + 0 = n
      <4>1. Len(rest) \in Nat
        BY <1>1
      <4> QED BY <4>1
    <3>2. p[n] \in Int
      OBVIOUS
    <3>3. q[0] = p[n + 0] - p[n]
      BY <3>1
    <3> HIDE DEF q
    <3>4. \A a \in Int : a - a = 0
      OBVIOUS
    <3> QED BY <3>1, <3>2, <3>3, <3>4
  <2>2. ASSUME NEW k \in 1 .. Len(rest) PROVE q[k] = q[k - 1] + rest[k]
    <3>1. n + k \in 1 .. Len(sizes) /\ n + k - 1 \in 0 .. Len(sizes) /\ n + (k - 1) = n + k - 1
      BY <1>1
    <3>2. p[n + k] = p[n + k - 1] + rest[k]
      <4>1. \A i \in 1 .. Len(sizes) : p[i] = p[i - 1] + sizes[i]
        BY <1>2 DEF Sums
      <4>2. rest[k] = sizes[n + k]
        BY <1>1
      <4> QED BY <3>1, <4>1, <4>2
    <3>3. n \in 0 .. Len(sizes) /\ k \in 0 .. Len(rest) /\ k - 1 \in 0 .. Len(rest)
      <4>1. Len(rest) \in Nat
        BY <1>1
      <4> QED BY <4>1
    <3>4. rest[k] \in Int /\ p[n + k - 1] \in Int /\ p[n] \in Int
      <4>1. rest[k] \in Nat
        BY <1>1
      <4>2. \A i \in 0 .. Len(sizes) : p[i] \in Int
        OBVIOUS
      <4> QED BY <3>1, <3>3, <4>1, <4>2
    <3>5. q[k] = p[n + k] - p[n] /\ q[k - 1] = p[n + k - 1] - p[n]
      BY <3>1, <3>3
    <3>6. \A a, b, c, d \in Int : a = b + d => a - c = (b - c) + d
      OBVIOUS
    <3>7. p[n + k] \in Int
      BY <3>1
    <3>8. p[n + k] - p[n] = (p[n + k - 1] - p[n]) + rest[k]
      BY <3>2, <3>4, <3>6, <3>7
    <3> HIDE DEF q
    <3> QED BY <3>5, <3>8
  <2> QED BY <2>1, <2>2 DEF Sums
<1>6. q[Len(rest)] = Total(rest)
  <2> HIDE DEF q
  <2> QED BY <1>1, <1>5, SumsTotal
<1>7. q[Len(rest)] = p[Len(sizes)] - p[n]
  <2>1. Len(rest) \in 0 .. Len(rest) /\ n + Len(rest) = Len(sizes)
    BY <1>1
  <2> QED BY <2>1
<1>8. p[Len(sizes)] \in Int /\ p[n] \in Int
  BY <1>1
<1> QED BY <1>2, <1>4, <1>6, <1>7, <1>8 DEF front, rest

LEMMA ChunkTypes == \A c \in Chunk : c.seq \in Nat \ {0} /\ c.raw \in Nat
<1>1. \A x \in Sizes \cup {0} : x \in Nat
  BY LogAssumption
<1> QED BY <1>1 DEF Chunk

LEMMA RawSizes ==
    ASSUME NEW chunks \in Seq(Chunk)
    PROVE  LET raw == [k \in 1 .. Len(chunks) |-> chunks[k].raw]
           IN  /\ raw \in Seq(Nat) /\ Len(raw) = Len(chunks) /\ Len(chunks) \in Nat
               /\ \A k \in 1 .. Len(raw) : raw[k] = chunks[k].raw
<1> DEFINE raw == [k \in 1 .. Len(chunks) |-> chunks[k].raw]
<1>1. \A k \in 1 .. Len(chunks) : chunks[k].raw \in Nat
  BY ChunkTypes
<1>2. Len(chunks) \in Nat
  OBVIOUS
<1>3. raw \in Seq(Nat) /\ Len(raw) = Len(chunks)
  BY <1>1, <1>2
<1> QED BY <1>2, <1>3

LEMMA RawType == \A chunks \in Seq(Chunk) : RawBytes(chunks) \in Int
<1> SUFFICES ASSUME NEW chunks \in Seq(Chunk) PROVE RawBytes(chunks) \in Int
  OBVIOUS
<1> DEFINE raw == [k \in 1 .. Len(chunks) |-> chunks[k].raw]
<1>1. raw \in Seq(Nat) /\ RawBytes(chunks) = Total(raw)
  BY RawSizes DEF RawBytes
<1> HIDE DEF raw
<1> QED BY <1>1, TotalSums

LEMMA RawAppend ==
    ASSUME NEW chunks \in Seq(Chunk), NEW c \in Chunk
    PROVE  RawBytes(Append(chunks, c)) = RawBytes(chunks) + c.raw
<1> DEFINE raw == [k \in 1 .. Len(chunks) |-> chunks[k].raw]
           more == Append(chunks, c)
<1>1. raw \in Seq(Nat) /\ Len(raw) = Len(chunks) /\ c.raw \in Nat /\ Len(chunks) \in Nat
  <2>1. c.raw \in Nat
    BY ChunkTypes
  <2> QED BY <2>1, RawSizes
<1>2. [k \in 1 .. Len(more) |-> more[k].raw] = Append(raw, c.raw)
  <2>1. /\ Len(more) = Len(chunks) + 1 /\ more[Len(more)] = c
        /\ \A k \in 1 .. Len(chunks) : more[k] = chunks[k]
    OBVIOUS
  <2>2. \A k \in 1 .. Len(more) : more[k].raw = Append(raw, c.raw)[k]
    <3> HIDE DEF more
    <3> QED BY <1>1, <2>1
  <2>3. Append(raw, c.raw) = [k \in 1 .. Len(more) |-> Append(raw, c.raw)[k]]
    <3>1. Append(raw, c.raw) \in Seq(Nat) /\ Len(Append(raw, c.raw)) = Len(more)
      <4> HIDE DEF raw, more
      <4> QED BY <1>1, <2>1
    <3> HIDE DEF raw, more
    <3> QED BY <3>1
  <2> HIDE DEF raw, more
  <2> QED BY <2>2, <2>3
<1>3. Total(Append(raw, c.raw)) = Total(raw) + c.raw
  <2> HIDE DEF raw
  <2> QED BY <1>1, TotalAppend
<1> QED BY <1>2, <1>3 DEF RawBytes

LEMMA RawSplit ==
    ASSUME NEW chunks \in Seq(Chunk), NEW n \in 0 .. Len(chunks)
    PROVE  RawBytes(chunks)
              = RawBytes(SubSeq(chunks, 1, n)) + RawBytes(SubSeq(chunks, n + 1, Len(chunks)))
<1> DEFINE raw == [k \in 1 .. Len(chunks) |-> chunks[k].raw]
           front == SubSeq(chunks, 1, n)
           rest == SubSeq(chunks, n + 1, Len(chunks))
<1>1. /\ raw \in Seq(Nat) /\ Len(raw) = Len(chunks) /\ Len(chunks) \in Nat
      /\ \A k \in 1 .. Len(raw) : raw[k] = chunks[k].raw
  BY RawSizes
<1>2. /\ Len(front) = n /\ \A k \in 1 .. n : front[k] = chunks[k]
      /\ Len(rest) = Len(chunks) - n /\ \A k \in 1 .. Len(rest) : rest[k] = chunks[n + k]
  <2>1. Len(chunks) \in Nat /\ \A k \in 1 .. Len(chunks) : chunks[k] \in Chunk
    OBVIOUS
  <2> QED BY <2>1
<1>3. RawBytes(chunks) = Total(raw)
  BY DEF RawBytes
<1> HIDE DEF raw, front, rest
<1>4. [k \in 1 .. Len(front) |-> front[k].raw] = SubSeq(raw, 1, n)
  <2>1. SubSeq(raw, 1, n) = [k \in 1 .. n |-> raw[k]]
    BY <1>1
  <2> QED BY <1>1, <1>2, <2>1
<1>5. [k \in 1 .. Len(rest) |-> rest[k].raw] = SubSeq(raw, n + 1, Len(raw))
  <2>1. SubSeq(raw, n + 1, Len(raw)) = [k \in 1 .. Len(raw) - n |-> raw[n + k]]
    BY <1>1
  <2>2. \A k \in 1 .. Len(rest) : n + k \in 1 .. Len(raw) /\ rest[k].raw = raw[n + k]
    BY <1>1, <1>2
  <2> QED BY <1>1, <1>2, <2>1, <2>2
<1>6. Total(raw) = Total(SubSeq(raw, 1, n)) + Total(SubSeq(raw, n + 1, Len(raw)))
  BY <1>1, TotalSplit
<1> QED BY <1>3, <1>4, <1>5, <1>6 DEF RawBytes, front, rest

-----------------------------------------------------------------------------
(* The bytes of the logs. *)

LogTypes == log \in [Logs -> [chunks : Seq(Chunk), bytes : Int, next : Nat \ {0}]]

(* A chunk that comes in is counted, and eviction takes off what it drops, *)
(* which is as little as it may, up to everything.                         *)
LEMMA AddedCounts ==
    ASSUME NEW lg \in [chunks : Seq(Chunk), bytes : Int, next : Nat \ {0}],
           NEW raw \in Sizes \cup {0}, NEW text \in Sizes \cup {1},
           lg.bytes = RawBytes(lg.chunks)
    PROVE  /\ Added(lg, raw, text) \in [chunks : Seq(Chunk), bytes : Int, next : Nat \ {0}]
           /\ Added(lg, raw, text).bytes = RawBytes(Added(lg, raw, text).chunks)
<1> DEFINE c == [seq |-> lg.next, raw |-> raw, text |-> text]
<1>1. c \in Chunk /\ c.raw = raw /\ lg.chunks \in Seq(Chunk) /\ raw \in Int
  BY LogAssumption DEF Chunk
<1>2. RawBytes(Append(lg.chunks, c)) = RawBytes(lg.chunks) + raw
  <2> HIDE DEF c
  <2> QED BY <1>1, RawAppend
<1> QED BY <1>1, <1>2 DEF Added

LEMMA EvictCounts ==
    ASSUME NEW lg \in [chunks : Seq(Chunk), bytes : Int, next : Nat \ {0}],
           lg.bytes = RawBytes(lg.chunks)
    PROVE  \E n \in 0 .. Len(lg.chunks) :
              LET rest == SubSeq(lg.chunks, n + 1, Len(lg.chunks))
              IN  /\ Evict(lg) = [chunks |-> rest, bytes |-> RawBytes(rest), next |-> lg.next]
                  /\ RawBytes(rest) =< BufferBytes
<1> DEFINE over(m) == lg.bytes - Freed(SubSeq(lg.chunks, 1, m)) > BufferBytes
           Enough == {m \in 0 .. Len(lg.chunks) : m = Len(lg.chunks) \/ ~over(m)}
           n == Min(Enough)
           rest == SubSeq(lg.chunks, n + 1, Len(lg.chunks))
<1>1. lg.chunks \in Seq(Chunk) /\ Len(lg.chunks) \in Nat /\ BufferBytes \in Nat
  BY LogAssumption
<1>2. n \in Enough
  <2>1. Enough \subseteq Nat /\ Len(lg.chunks) \in Enough
    BY <1>1
  <2> HIDE DEF Enough
  <2>2. \E m \in Enough : \A l \in Enough : m =< l
    BY <2>1, LeastNat
  <2> QED BY <2>2 DEF Min
<1>3. n \in 0 .. Len(lg.chunks) /\ (n = Len(lg.chunks) \/ ~over(n))
  <2> HIDE DEF n, over
  <2> QED BY <1>2
<1>4. Evict(lg) = [chunks |-> rest, bytes |-> lg.bytes - Freed(SubSeq(lg.chunks, 1, n)),
                   next |-> lg.next]
  <2>1. Evict(lg) = [lg EXCEPT !.chunks = rest,
                               !.bytes = lg.bytes - Freed(SubSeq(lg.chunks, 1, n))]
    BY DEF Evict
  <2> HIDE DEF n, rest
  <2> QED BY <2>1
<1> HIDE DEF n, Enough
<1>5. RawBytes(lg.chunks) = RawBytes(SubSeq(lg.chunks, 1, n)) + RawBytes(rest)
  BY <1>1, <1>3, RawSplit
<1>6. SubSeq(lg.chunks, 1, n) \in Seq(Chunk) /\ rest \in Seq(Chunk)
  BY <1>1, <1>3
<1>7. RawBytes(SubSeq(lg.chunks, 1, n)) \in Int /\ RawBytes(rest) \in Int
  BY <1>6, RawType
<1>8. lg.bytes - Freed(SubSeq(lg.chunks, 1, n)) = RawBytes(rest)
  <2> HIDE DEF rest
  <2> QED BY <1>5, <1>7 DEF Freed
<1>9. RawBytes(rest) =< BufferBytes
  <2>1. CASE n = Len(lg.chunks)
    <3>1. Len(rest) = 0
      BY <1>1, <2>1
    <3>2. RawBytes(rest) = 0
      <4> DEFINE raw == [k \in 1 .. Len(rest) |-> rest[k].raw]
      <4>1. raw \in Seq(Nat) /\ Len(raw) = 0
        <5> HIDE DEF rest
        <5> QED BY <1>6, <3>1, RawSizes
      <4> HIDE DEF raw, rest
      <4>2. Total(raw) = 0
        BY <4>1, TotalEmpty
      <4> QED BY <4>2 DEF RawBytes, raw
    <3> QED BY <1>1, <3>2
  <2>2. CASE ~over(n)
    <3> HIDE DEF rest
    <3> QED BY <1>1, <1>7, <1>8, <2>2
  <2> QED BY <1>3, <2>1, <2>2
<1> HIDE DEF rest
<1>10. Evict(lg) = [chunks |-> rest, bytes |-> RawBytes(rest), next |-> lg.next]
  BY <1>4, <1>8
<1> QED BY <1>3, <1>9, <1>10 DEF rest

LEMMA BytesStep ==
    ASSUME LogTypes, BytesAccount, [Next]_vars
    PROVE  LogTypes' /\ BytesAccount'
<1> DEFINE Good(lg) == /\ lg \in [chunks : Seq(Chunk), bytes : Int, next : Nat \ {0}]
                       /\ lg.bytes = RawBytes(lg.chunks)
<1>1. \A e \in Logs : Good(log[e]) /\ log[e].bytes =< BufferBytes
  BY DEF LogTypes, BytesAccount
<1> SUFFICES /\ DOMAIN log' = Logs /\ log' = [e \in Logs |-> log'[e]]
             /\ \A e \in Logs : Good(log'[e]) /\ log'[e].bytes =< BufferBytes
  BY DEF LogTypes, BytesAccount
<1> USE DEF idVars, logVars, readerVars
<1>2. ASSUME UNCHANGED log
      PROVE  /\ DOMAIN log' = Logs /\ log' = [e \in Logs |-> log'[e]]
             /\ \A e \in Logs : Good(log'[e]) /\ log'[e].bytes =< BufferBytes
  <2> HIDE DEF Good
  <2> QED BY <1>1, <1>2 DEF LogTypes
<1>3. ASSUME NEW e \in Logs, NEW lg, Good(lg), lg.bytes =< BufferBytes, log' = [log EXCEPT ![e] = lg]
      PROVE  /\ DOMAIN log' = Logs /\ log' = [d \in Logs |-> log'[d]]
             /\ \A d \in Logs : Good(log'[d]) /\ log'[d].bytes =< BufferBytes
  <2> HIDE DEF Good
  <2>1. DOMAIN log = Logs
    BY DEF LogTypes
  <2>2. log'[e] = lg /\ \A d \in Logs \ {e} : log'[d] = log[d]
    BY <1>3, <2>1
  <2> QED BY <1>1, <1>3, <2>1, <2>2
<1>4. ASSUME NEW e \in Logs, NEW s \in Streams, NEW raw \in Sizes, NEW text \in Sizes,
             Pump(e, s, raw, text)
      PROVE  \E lg : Good(lg) /\ lg.bytes =< BufferBytes /\ log' = [log EXCEPT ![e] = lg]
  <2> DEFINE more == Added(log[e], raw, text)
             lg == Evict(more)
  <2>1. Good(more)
    BY <1>1, AddedCounts
  <2>2. Good(lg) /\ lg.bytes =< BufferBytes
    <3> HIDE DEF more
    <3>1. PICK n \in 0 .. Len(more.chunks) :
              LET rest == SubSeq(more.chunks, n + 1, Len(more.chunks))
              IN  /\ lg = [chunks |-> rest, bytes |-> RawBytes(rest), next |-> more.next]
                  /\ RawBytes(rest) =< BufferBytes
      BY <2>1, EvictCounts
    <3> DEFINE rest == SubSeq(more.chunks, n + 1, Len(more.chunks))
    <3>2. rest \in Seq(Chunk)
      BY <2>1
    <3>3. RawBytes(rest) \in Int
      BY <3>2, RawType
    <3> HIDE DEF lg, rest
    <3> QED BY <2>1, <3>1, <3>2, <3>3 DEF rest
  <2>3. log' = [log EXCEPT ![e] = lg]
    BY <1>4 DEF Pump
  <2> HIDE DEF lg, Good
  <2> QED BY <2>2, <2>3
<1>5. ASSUME NEW e \in Logs, NEW s \in Streams, PumpEnd(e, s, TRUE)
      PROVE  \E lg : Good(lg) /\ lg.bytes =< BufferBytes /\ log' = [log EXCEPT ![e] = lg]
  <2> DEFINE lg == Added(log[e], 0, 1)
  <2>1. Good(lg)
    <3>1. 0 \in Sizes \cup {0} /\ 1 \in Sizes \cup {1}
      OBVIOUS
    <3>2. log[e] \in [chunks : Seq(Chunk), bytes : Int, next : Nat \ {0}]
          /\ log[e].bytes = RawBytes(log[e].chunks)
      BY <1>1
    <3> QED BY <3>1, <3>2, AddedCounts
  <2>2. lg.bytes =< BufferBytes
    <3>1. lg.bytes = log[e].bytes + 0 /\ log[e].bytes \in Int
      BY <1>1 DEF Added
    <3> QED BY <1>1, <3>1
  <2>3. log' = [log EXCEPT ![e] = lg]
    BY <1>5 DEF PumpEnd
  <2> HIDE DEF lg, Good
  <2> QED BY <2>1, <2>2, <2>3
<1>6. ASSUME NEW e \in Logs, NEW s \in Streams, PumpEnd(e, s, FALSE) PROVE UNCHANGED log
  BY <1>6 DEF PumpEnd
<1>7. ASSUME NEW r \in Readers, ReadStep(r) \/ Deadline(r) PROVE UNCHANGED log
  BY <1>7 DEF ReadStep, Deadline, Wait, Look, Answer, NotFound, Done
<1>8. ASSUME NEW r \in Readers, NEW l \in Limits, NEW wait \in BOOLEAN, Lookup(r, l, wait)
      PROVE  UNCHANGED log
  BY <1>8 DEF Lookup
<1>9. ASSUME Drop \/ Start \/ UNCHANGED vars PROVE UNCHANGED log
  BY <1>9 DEF Drop, Start, vars
<1> HIDE DEF Good
<1>10. \/ UNCHANGED log
       \/ \E e \in Logs : \E lg :
             Good(lg) /\ lg.bytes =< BufferBytes /\ log' = [log EXCEPT ![e] = lg]
  <2>1. ASSUME NEW e \in Logs, NEW s \in Streams, PumpStep(e, s)
        PROVE  \/ UNCHANGED log
               \/ \E lg : Good(lg) /\ lg.bytes =< BufferBytes /\ log' = [log EXCEPT ![e] = lg]
    <3>1. CASE \E raw, text \in Sizes : Pump(e, s, raw, text)
      BY <1>4, <3>1
    <3>2. CASE PumpEnd(e, s, TRUE)
      BY <1>5, <3>2
    <3>3. CASE PumpEnd(e, s, FALSE)
      BY <1>6, <3>3
    <3>4. \A tail \in BOOLEAN : tail = TRUE \/ tail = FALSE
      OBVIOUS
    <3> QED BY <2>1, <3>1, <3>2, <3>3, <3>4, Zenon DEF PumpStep
  <2> QED BY <1>7, <1>8, <1>9, <2>1 DEF Next
<1> QED BY <1>2, <1>3, <1>10

LEMMA InitBytes == Init => LogTypes /\ BytesAccount
<1> SUFFICES ASSUME Init PROVE LogTypes /\ BytesAccount
  OBVIOUS
<1>1. LogTypes
  BY DEF Init, LogTypes
<1>2. RawBytes(<<>>) = 0
  <2> DEFINE raw == [k \in 1 .. Len(<<>>) |-> <<>>[k].raw]
  <2>1. raw \in Seq(Nat) /\ Len(raw) = 0
    OBVIOUS
  <2> HIDE DEF raw
  <2>2. Total(raw) = 0
    BY <2>1, TotalEmpty
  <2> QED BY <2>2 DEF RawBytes, raw
<1>3. BytesAccount
  BY <1>2, LogAssumption DEF Init, BytesAccount
<1> QED BY <1>1, <1>3

(* The running total that decides on eviction is the size of what is kept, *)
(* and no more than the buffer may hold, for any sizes, pumps and restarts. *)
THEOREM BytesAccountCorrect == Spec => []BytesAccount
BY InitBytes, BytesStep, PTL DEF Spec

-----------------------------------------------------------------------------
(* The numbers of the chunks of a log run up to next, without a gap.       *)
LogRecords == [chunks : Seq(Chunk), bytes : Int, next : Nat \ {0}]

Gapless(lg) ==
    /\ Len(lg.chunks) < lg.next
    /\ \A k \in 1 .. Len(lg.chunks) : lg.chunks[k].seq = lg.next - Len(lg.chunks) + k - 1

LEMMA OldestNumber ==
    ASSUME NEW lg \in LogRecords, Gapless(lg)
    PROVE  Oldest(lg) = lg.next - Len(lg.chunks) /\ Oldest(lg) \in 1 .. lg.next
<1> USE DEF LogRecords, Gapless
<1>1. lg.chunks \in Seq(Chunk) /\ Len(lg.chunks) \in Nat /\ lg.next \in Nat
  OBVIOUS
<1>2. CASE lg.chunks = <<>>
  BY <1>1, <1>2 DEF Oldest
<1>3. CASE lg.chunks # <<>>
  <2>1. 1 \in 1 .. Len(lg.chunks) /\ Head(lg.chunks) = lg.chunks[1]
    BY <1>1, <1>3
  <2> QED BY <1>1, <1>3, <2>1 DEF Oldest
<1> QED BY <1>2, <1>3

(* A log that got a chunk, and perhaps dropped some. *)
Grows(lg, more) ==
    /\ more \in LogRecords /\ Gapless(more)
    /\ more.next = lg.next + 1
    /\ Oldest(more) \in Oldest(lg) .. more.next

LEMMA AddedGrows ==
    ASSUME NEW lg \in LogRecords, Gapless(lg), lg.bytes = RawBytes(lg.chunks),
           NEW raw \in Sizes \cup {0}, NEW text \in Sizes \cup {1}
    PROVE  Grows(lg, Added(lg, raw, text))
<1> DEFINE more == Added(lg, raw, text)
<1>1. more \in LogRecords
  BY AddedCounts DEF LogRecords
<1>2. lg.chunks \in Seq(Chunk) /\ Len(lg.chunks) \in Nat /\ lg.next \in Nat
  BY DEF LogRecords
<1>3. more.next = lg.next + 1
  BY DEF Added
<1>4. /\ Len(more.chunks) = Len(lg.chunks) + 1
      /\ \A k \in 1 .. Len(lg.chunks) : more.chunks[k] = lg.chunks[k]
      /\ more.chunks[Len(lg.chunks) + 1].seq = lg.next
  <2> DEFINE c == [seq |-> lg.next, raw |-> raw, text |-> text]
  <2>1. more.chunks = Append(lg.chunks, c) /\ c.seq = lg.next
    BY DEF Added
  <2> HIDE DEF c, more
  <2> QED BY <1>2, <2>1
<1> HIDE DEF more
<1>5. Gapless(more)
  <2>1. Len(more.chunks) = Len(lg.chunks) + 1
    BY <1>4
  <2>2. \A l, m \in Nat : (m + 1) - (l + 1) = m - l /\ (m + 1) - (l + 1) + (l + 1) - 1 = m
    OBVIOUS
  <2>3. Len(more.chunks) < more.next
    BY <1>2, <1>3, <1>4 DEF Gapless
  <2>4. ASSUME NEW k \in 1 .. Len(more.chunks)
        PROVE  more.chunks[k].seq = more.next - Len(more.chunks) + k - 1
    <3>1. CASE k \in 1 .. Len(lg.chunks)
      <4>1. more.chunks[k].seq = lg.next - Len(lg.chunks) + k - 1
        BY <1>4, <3>1 DEF Gapless
      <4>2. more.next - Len(more.chunks) = lg.next - Len(lg.chunks)
        BY <2>1, <2>2, <1>2, <1>3
      <4> QED BY <4>1, <4>2
    <3>2. CASE k = Len(lg.chunks) + 1
      <4>1. more.chunks[k].seq = lg.next
        BY <1>4, <3>2
      <4>2. more.next - Len(more.chunks) + k - 1 = lg.next
        BY <2>1, <2>2, <1>2, <1>3, <3>2
      <4> QED BY <4>1, <4>2
    <3> QED BY <1>2, <1>4, <3>1, <3>2
  <2> QED BY <2>3, <2>4 DEF Gapless
<1>6. Oldest(more) = Oldest(lg)
  BY <1>1, <1>2, <1>3, <1>4, <1>5, OldestNumber
<1>7. Oldest(lg) \in 1 .. lg.next
  BY OldestNumber
<1> QED BY <1>1, <1>2, <1>3, <1>5, <1>6, <1>7 DEF Grows, more

LEMMA EvictGrows ==
    ASSUME NEW lg \in LogRecords, NEW more, Grows(lg, more), Gapless(lg),
           more.bytes = RawBytes(more.chunks)
    PROVE  Grows(lg, Evict(more))
<1>1. /\ more \in LogRecords /\ Gapless(more)
      /\ more.chunks \in Seq(Chunk) /\ Len(more.chunks) \in Nat /\ more.next \in Nat \ {0}
  BY DEF Grows, LogRecords
<1>2. PICK n \in 0 .. Len(more.chunks) :
         LET rest == SubSeq(more.chunks, n + 1, Len(more.chunks))
         IN  Evict(more) = [chunks |-> rest, bytes |-> RawBytes(rest), next |-> more.next]
  BY <1>1, EvictCounts DEF Grows, LogRecords
<1> DEFINE rest == SubSeq(more.chunks, n + 1, Len(more.chunks))
           less == Evict(more)
<1>3. /\ rest \in Seq(Chunk) /\ Len(rest) = Len(more.chunks) - n
      /\ \A k \in 1 .. Len(rest) : rest[k] = more.chunks[n + k]
  BY <1>1
<1>4. less.chunks = rest /\ less.next = more.next
  BY <1>2
<1>5. less \in LogRecords
  <2>1. RawBytes(rest) \in Int
    BY <1>3, RawType
  <2> HIDE DEF rest
  <2> QED BY <1>1, <1>2, <1>3, <2>1 DEF LogRecords, rest
<1> HIDE DEF rest, less
<1>6. Gapless(less)
  <2>1. \A k \in 1 .. Len(rest) :
           n + k \in 1 .. Len(more.chunks) /\ rest[k].seq = more.next - Len(rest) + k - 1
    <3> SUFFICES ASSUME NEW k \in 1 .. Len(rest)
                 PROVE  /\ n + k \in 1 .. Len(more.chunks)
                        /\ rest[k].seq = more.next - Len(rest) + k - 1
      OBVIOUS
    <3>1. n + k \in 1 .. Len(more.chunks)
      BY <1>1, <1>3
    <3>2. rest[k].seq = more.next - Len(more.chunks) + (n + k) - 1
      BY <1>1, <1>3, <3>1 DEF Gapless
    <3>3. more.next - Len(more.chunks) + (n + k) - 1 = more.next - Len(rest) + k - 1
      BY <1>1, <1>3
    <3> QED BY <3>1, <3>2, <3>3
  <2> QED BY <1>1, <1>3, <1>4, <2>1 DEF Gapless
<1>7. Oldest(less) = Oldest(more) + n /\ Oldest(less) \in 1 .. less.next
  <2>1. Oldest(less) = less.next - Len(less.chunks) /\ Oldest(less) \in 1 .. less.next
    BY <1>5, <1>6, OldestNumber
  <2>2. Oldest(more) = more.next - Len(more.chunks)
    BY <1>1, OldestNumber
  <2> QED BY <1>1, <1>3, <1>4, <2>1, <2>2
<1>8. Oldest(lg) \in 1 .. lg.next /\ lg.next \in Nat
  BY OldestNumber DEF LogRecords
<1> QED BY <1>1, <1>4, <1>5, <1>6, <1>7, <1>8 DEF Grows, less

-----------------------------------------------------------------------------
(* What a reader is shown.  Of a log without gaps, the chunks after a      *)
(* cursor are those that begin at FirstNew, up to the last.                *)
FirstNew(lg, after) == IF after + 1 >= Oldest(lg) THEN after + 1 ELSE Oldest(lg)

LEMMA NewerNumbers ==
    ASSUME NEW lg \in LogRecords, Gapless(lg), NEW after \in Nat
    PROVE  LET new == Newer(lg, after)
               from == FirstNew(lg, after)
           IN  /\ new \in Seq(Chunk)
               /\ Len(new) = IF from < lg.next THEN lg.next - from ELSE 0
               /\ \A k \in 1 .. Len(new) : new[k].seq = from + k - 1
<1> DEFINE n == Len(lg.chunks)
           skip == FirstNew(lg, after) - Oldest(lg)
           Size(k) == IF k > skip THEN k - skip ELSE 0
           h == [k \in 0 .. n |-> [j \in 1 .. Size(k) |-> lg.chunks[skip + j]]]
           Step(g, k) == IF lg.chunks[k].seq > after THEN Append(g[k - 1], lg.chunks[k])
                         ELSE g[k - 1]
           Equation(g) == g = [k \in 0 .. n |-> IF k = 0 THEN <<>> ELSE Step(g, k)]
           new == CHOOSE g : Equation(g)
<1>1. /\ lg.chunks \in Seq(Chunk) /\ n \in Nat /\ lg.next \in Nat /\ n < lg.next
      /\ Oldest(lg) = lg.next - n
      /\ \A k \in 1 .. n : lg.chunks[k] \in Chunk /\ lg.chunks[k].seq = Oldest(lg) + k - 1
  <2>1. lg.chunks \in Seq(Chunk) /\ n \in Nat /\ lg.next \in Nat
    BY DEF LogRecords
  <2>2. n < lg.next
    BY DEF Gapless
  <2>3. Oldest(lg) = lg.next - n
    BY OldestNumber
  <2>4. \A k \in 1 .. n : lg.chunks[k] \in Chunk
    BY <2>1
  <2>5. \A k \in 1 .. n : lg.chunks[k].seq = Oldest(lg) + k - 1
    BY <2>3 DEF Gapless
  <2> QED BY <2>1, <2>2, <2>3, <2>4, <2>5
<1>2. skip \in Nat /\ Oldest(lg) \in Nat /\ FirstNew(lg, after) \in Nat
  BY <1>1 DEF FirstNew
<1>3. \A k \in 1 .. n : lg.chunks[k].seq > after <=> k > skip
  <2>1. \A k \in 1 .. n : Oldest(lg) + k - 1 > after <=> k > skip
    BY <1>2 DEF FirstNew
  <2> HIDE DEF n, skip
  <2> QED BY <1>1, <2>1
<1> HIDE DEF n, skip
<1>4. \A k \in 0 .. n : h[k] \in Seq(Chunk) /\ Len(h[k]) = Size(k)
                        /\ \A j \in 1 .. Size(k) : h[k][j] = lg.chunks[skip + j]
  <2> SUFFICES ASSUME NEW k \in 0 .. n
               PROVE  h[k] \in Seq(Chunk) /\ Len(h[k]) = Size(k)
                      /\ \A j \in 1 .. Size(k) : h[k][j] = lg.chunks[skip + j]
    OBVIOUS
  <2>1. Size(k) \in Nat /\ \A j \in 1 .. Size(k) : skip + j \in 1 .. n
    BY <1>1, <1>2
  <2>2. \A j \in 1 .. Size(k) : lg.chunks[skip + j] \in Chunk
    BY <1>1, <2>1
  <2>3. h[k] = [j \in 1 .. Size(k) |-> lg.chunks[skip + j]]
    OBVIOUS
  <2> HIDE DEF h, Size
  <2> QED BY <2>1, <2>2, <2>3
<1>5. \A k \in 1 .. n : h[k] = Step(h, k)
  <2> SUFFICES ASSUME NEW k \in 1 .. n PROVE h[k] = Step(h, k)
    OBVIOUS
  <2>1. k - 1 \in 0 .. n /\ k \in 0 .. n
    BY <1>1
  <2>2. CASE k > skip
    <3>1. Size(k) = Size(k - 1) + 1 /\ skip + Size(k) = k /\ Size(k - 1) \in Nat
      BY <1>1, <1>2, <2>2
    <3>2. h[k - 1] \in Seq(Chunk) /\ Len(h[k - 1]) = Size(k - 1) /\ lg.chunks[k] \in Chunk
      BY <1>1, <1>4, <2>1
    <3>3. Append(h[k - 1], lg.chunks[k]) \in Seq(Chunk)
          /\ Len(Append(h[k - 1], lg.chunks[k])) = Size(k)
          /\ \A j \in 1 .. Size(k) :
                Append(h[k - 1], lg.chunks[k])[j]
                  = IF j = Size(k) THEN lg.chunks[k] ELSE h[k - 1][j]
      <4> HIDE DEF h, Size
      <4> QED BY <3>1, <3>2
    <3>4. \A j \in 1 .. Size(k) : h[k][j] = Append(h[k - 1], lg.chunks[k])[j]
      <4> HIDE DEF h, Size
      <4>1. \A j \in 1 .. Size(k) : j = Size(k) \/ j \in 1 .. Size(k - 1)
        BY <3>1
      <4> QED BY <1>4, <2>1, <3>1, <3>3, <4>1
    <3>5. h[k] \in Seq(Chunk) /\ Len(h[k]) = Size(k)
      BY <1>4, <2>1
    <3>6. h[k] = Append(h[k - 1], lg.chunks[k])
      <4> HIDE DEF h, Size
      <4>1. \A s \in Seq(Chunk) : s = [j \in 1 .. Len(s) |-> s[j]]
        OBVIOUS
      <4>2. h[k] = [j \in 1 .. Size(k) |-> h[k][j]]
        BY <3>5, <4>1
      <4>3. Append(h[k - 1], lg.chunks[k])
              = [j \in 1 .. Size(k) |-> Append(h[k - 1], lg.chunks[k])[j]]
        BY <3>3, <4>1
      <4> QED BY <3>4, <4>2, <4>3
    <3> HIDE DEF h
    <3> QED BY <1>3, <2>2, <3>6
  <2>3. CASE ~(k > skip)
    <3>1. Size(k) = 0 /\ Size(k - 1) = 0
      BY <1>1, <1>2, <2>3
    <3>2. h[k] = h[k - 1]
      BY <2>1, <3>1
    <3> HIDE DEF h
    <3> QED BY <1>3, <2>3, <3>2
  <2> QED BY <2>2, <2>3
<1>6. h[0] = <<>>
  <2>1. Size(0) = 0 /\ 0 \in 0 .. n
    BY <1>1, <1>2
  <2> QED BY <2>1
<1>7. Equation(h)
  <2>1. \A k \in 0 .. n : k # 0 => k \in 1 .. n
    BY <1>1
  <2>2. \A k \in 0 .. n : h[k] = IF k = 0 THEN <<>> ELSE Step(h, k)
    <3> HIDE DEF h, Step
    <3> QED BY <1>5, <1>6, <2>1, Zenon
  <2>3. h = [k \in 0 .. n |-> h[k]]
    OBVIOUS
  <2> HIDE DEF h, Step
  <2> QED BY <2>2, <2>3
<1>8. Equation(new)
  <2> HIDE DEF Equation, h
  <2> QED BY <1>7
<1>9. Newer(lg, after) = new[n]
  BY DEF Newer, n
<1> HIDE DEF new
<1>10. new[0] = <<>> /\ \A k \in 1 .. n : new[k] = Step(new, k)
  <2>1. \A k \in 0 .. n : new[k] = IF k = 0 THEN <<>> ELSE Step(new, k)
    <3> HIDE DEF Step
    <3> QED BY <1>8, Zenon
  <2>2. 0 \in 0 .. n /\ \A k \in 1 .. n : k \in 0 .. n /\ k # 0
    BY <1>1
  <2> HIDE DEF Step
  <2> QED BY <2>1, <2>2, Zenon
<1> HIDE DEF Equation, h
<1>11. Agree(n, new, h)
  <2>1. new[0] = h[0] /\ \A k \in 1 .. n : new[k - 1] = h[k - 1] => new[k] = h[k]
    BY <1>5, <1>6, <1>10, Zenon
  <2> HIDE DEF Step
  <2> QED BY <1>1, <2>1, IteratesAgree
<1>12. Newer(lg, after) = h[n]
  BY <1>1, <1>9, <1>11 DEF Agree
<1>13. n \in 0 .. n /\ Size(n) = IF FirstNew(lg, after) < lg.next THEN lg.next - FirstNew(lg, after) ELSE 0
  <2>1. /\ n > skip <=> FirstNew(lg, after) < lg.next
        /\ n - skip = lg.next - FirstNew(lg, after)
    <3>1. Oldest(lg) = lg.next - n /\ n \in Nat /\ lg.next \in Nat
      BY <1>1
    <3> QED BY <1>2, <3>1 DEF skip
  <2> QED BY <1>1, <2>1
<1>14. ASSUME NEW j \in 1 .. Size(n)
       PROVE  lg.chunks[skip + j].seq = FirstNew(lg, after) + j - 1
  <2>1. skip + j \in 1 .. n
    BY <1>1, <1>2
  <2>2. lg.chunks[skip + j].seq = Oldest(lg) + (skip + j) - 1
    BY <1>1, <2>1
  <2>3. Oldest(lg) + skip = FirstNew(lg, after) /\ j \in Nat
    <3>1. j \in Nat
      BY <1>1, <1>2
    <3> QED BY <1>2, <3>1 DEF skip
  <2> QED BY <1>2, <2>2, <2>3
<1> HIDE DEF Size
<1> QED BY <1>4, <1>12, <1>13, <1>14

(* It is shown some of them, the first one in any case.                    *)
LEMMA FitsSome ==
    ASSUME NEW chunks \in Seq(Chunk), NEW bytes
    PROVE  /\ Fits(chunks, bytes) \in 0 .. Len(chunks)
           /\ Len(chunks) > 0 => Fits(chunks, bytes) >= 1
<1> DEFINE S == {n \in 0 .. Len(chunks) : n =< 1 \/ TextBytes(SubSeq(chunks, 1, n)) =< bytes}
<1>1. Len(chunks) \in Nat
  OBVIOUS
<1>2. 0 \in S /\ (Len(chunks) > 0 => 1 \in S) /\ S \in SUBSET (0 .. Len(chunks))
  BY <1>1
<1>3. Fits(chunks, bytes) = Max(S)
  BY DEF Fits
<1> HIDE DEF S
<1>4. IsFiniteSet(S) /\ S \subseteq Nat
  <2>1. S \in SUBSET Nat /\ \A s \in S : s =< Len(chunks)
    BY <1>1, <1>2
  <2> QED BY <1>1, <2>1, FS_BoundedSetOfNaturals
<1>5. \E x \in S : \A y \in S : y =< x
  BY <1>2, <1>4, GreatestNat
<1>6. Max(S) \in S /\ \A y \in S : Max(S) >= y
  BY <1>4, <1>5 DEF Max
<1> QED BY <1>1, <1>2, <1>3, <1>6

-----------------------------------------------------------------------------
(* The refinement.  A reader that holds the log of the first child has     *)
(* seen and been shown chunks of this log only, and holds no other before. *)
Numbered == \A e \in Logs : Gapless(log[e])

Reading ==
    /\ current \in Logs
    /\ pc \in [Readers -> {"idle", "look", "waiting", "answer"}]
    /\ holds \in [Readers -> Logs] /\ \A r \in Readers : holds[r] =< current
    /\ cursor \in [Readers -> Nat]
    /\ DOMAIN answer = Readers /\ \A r \in Readers : answer[r].out \in Seq(Nat)
    /\ \A r \in Readers : pc[r] # "answer" => answer[r] = Nothing
    /\ \A r \in Readers : holds[r] = 0 =>
          /\ cursor[r] < log[0].next
          /\ \A k \in 1 .. Len(answer[r].out) : answer[r].out[k] < log[0].next

FeedInv == LogTypes /\ BytesAccount /\ Numbered /\ Reading

(* The batches and cursors of the feed. *)
Batch == [r \in Readers |-> IF holds[r] = 0 THEN answer[r] ELSE Nothing]
Seen  == [r \in Readers |-> IF holds[r] = 0 THEN cursor[r] ELSE 0]

LEMMA FirstLog == 0 \in Logs /\ Logs \subseteq Nat
BY LogAssumption DEF Logs

LEMMA PumpGrows ==
    ASSUME LogTypes, BytesAccount, Numbered, NEW e \in Logs, NEW s \in Streams, PumpStep(e, s)
    PROVE  \/ log' = log
           \/ \E lg : Grows(log[e], lg) /\ log' = [log EXCEPT ![e] = lg]
<1>1. log[e] \in LogRecords /\ Gapless(log[e]) /\ log[e].bytes = RawBytes(log[e].chunks)
  BY DEF LogTypes, LogRecords, BytesAccount, Numbered
<1>2. ASSUME NEW raw \in Sizes, NEW text \in Sizes, Pump(e, s, raw, text)
      PROVE  \E lg : Grows(log[e], lg) /\ log' = [log EXCEPT ![e] = lg]
  <2> DEFINE more == Added(log[e], raw, text)
  <2>1. Grows(log[e], more) /\ more.bytes = RawBytes(more.chunks)
    BY <1>1, AddedGrows, AddedCounts DEF LogRecords
  <2>2. log' = [log EXCEPT ![e] = Evict(more)]
    BY <1>2 DEF Pump
  <2> HIDE DEF more
  <2>3. Grows(log[e], Evict(more))
    BY <1>1, <2>1, EvictGrows
  <2> QED BY <2>2, <2>3
<1>3. ASSUME PumpEnd(e, s, TRUE)
      PROVE  \E lg : Grows(log[e], lg) /\ log' = [log EXCEPT ![e] = lg]
  <2>1. 0 \in Sizes \cup {0} /\ 1 \in Sizes \cup {1}
    OBVIOUS
  <2>2. Grows(log[e], Added(log[e], 0, 1))
    BY <1>1, <2>1, AddedGrows
  <2>3. log' = [log EXCEPT ![e] = Added(log[e], 0, 1)]
    BY <1>3 DEF PumpEnd
  <2> QED BY <2>2, <2>3
<1>4. ASSUME PumpEnd(e, s, FALSE) PROVE log' = log
  BY <1>4 DEF PumpEnd
<1>5. \A tail \in BOOLEAN : tail = TRUE \/ tail = FALSE
  OBVIOUS
<1>6. CASE \E raw, text \in Sizes : Pump(e, s, raw, text)
  BY <1>2, <1>6
<1>7. CASE \E tail \in BOOLEAN : PumpEnd(e, s, tail)
  BY <1>3, <1>4, <1>5, <1>7, Zenon
<1> QED BY <1>6, <1>7 DEF PumpStep

(* What is not a step of pumps, of a look or of an answer is none of the   *)
(* feed's, but for a lookup that leaves the first log.                     *)
LEMMA FeedSame ==
    ASSUME UNCHANGED <<log, holds, answer, cursor>>
    PROVE  UNCHANGED Feed!vars
BY DEF Feed!vars

LEMMA PumpFeeds ==
    ASSUME FeedInv, NEW e \in Logs, NEW s \in Streams, PumpStep(e, s)
    PROVE  Numbered' /\ Reading' /\ [Feed!Next]_Feed!vars
<1>1. /\ UNCHANGED <<current, holds, answer, cursor>>
      /\ pc' = [r \in Readers |-> IF pc[r] = "waiting" /\ holds[r] = e THEN "look" ELSE pc[r]]
  BY DEF PumpStep, Pump, PumpEnd, NotifyAll, Woken, idVars
<1>2. CASE log' = log
  <2>1. Numbered' /\ Reading'
    BY <1>1, <1>2 DEF FeedInv, Numbered, Reading
  <2> QED BY <1>1, <1>2, <2>1, FeedSame
<1>3. ASSUME NEW lg, Grows(log[e], lg), log' = [log EXCEPT ![e] = lg]
      PROVE  Numbered' /\ Reading' /\ [Feed!Next]_Feed!vars
  <2>1. /\ log'[e] = lg /\ Gapless(lg) /\ lg.next = log[e].next + 1
        /\ Oldest(lg) \in Oldest(log[e]) .. lg.next
        /\ \A d \in Logs \ {e} : log'[d] = log[d]
    BY <1>3 DEF FeedInv, LogTypes, Grows
  <2>2. Numbered'
    BY <2>1 DEF FeedInv, Numbered
  <2>3. log[0].next \in Nat /\ log'[0].next \in {log[0].next, log[0].next + 1}
    BY <2>1, FirstLog DEF FeedInv, LogTypes
  <2>4. Reading'
    <3>1. ASSUME NEW r \in Readers, holds[r] = 0
          PROVE  /\ cursor[r] < log'[0].next
                 /\ \A k \in 1 .. Len(answer[r].out) : answer[r].out[k] < log'[0].next
      <4>1. cursor[r] \in Nat /\ \A k \in 1 .. Len(answer[r].out) : answer[r].out[k] \in Nat
        BY DEF FeedInv, Reading
      <4>2. /\ cursor[r] < log[0].next
            /\ \A k \in 1 .. Len(answer[r].out) : answer[r].out[k] < log[0].next
        BY <3>1 DEF FeedInv, Reading
      <4>3. \A a \in Nat : a < log[0].next => a < log'[0].next
        BY <2>3
      <4> QED BY <4>1, <4>2, <4>3
    <3> QED BY <1>1, <3>1 DEF FeedInv, Reading
  <2>5. CASE e = 0
    <3>1. Feed!Emit
      BY <1>1, <2>1, <2>5 DEF Feed!Emit
    <3> QED BY <2>2, <2>4, <3>1 DEF Feed!Next
  <2>6. CASE e # 0
    <3>1. log'[0] = log[0]
      BY <2>1, <2>6, FirstLog
    <3>2. UNCHANGED Feed!vars
      BY <1>1, <3>1 DEF Feed!vars
    <3> QED BY <2>2, <2>4, <3>2
  <2> QED BY <2>5, <2>6
<1> QED BY <1>2, <1>3, PumpGrows DEF FeedInv

LEMMA LookupFeeds ==
    ASSUME FeedInv, NEW r \in Readers, NEW l \in Limits, NEW wait \in BOOLEAN, Lookup(r, l, wait)
    PROVE  Numbered' /\ Reading' /\ [Feed!Next]_Feed!vars
<1>1. /\ UNCHANGED <<current, log, answer, cursor>>
      /\ holds' = [holds EXCEPT ![r] = current] /\ pc' = [pc EXCEPT ![r] = "look"]
      /\ pc[r] = "idle"
  BY DEF Lookup, idVars, logVars
<1>2. answer[r] = Nothing /\ holds[r] \in Nat /\ current \in Nat /\ holds[r] =< current
  BY <1>1, FirstLog DEF FeedInv, Reading
<1>3. Numbered'
  BY <1>1 DEF FeedInv, Numbered
<1>4. Reading'
  BY <1>1, <1>2, FirstLog DEF FeedInv, Reading
<1>5. CASE holds[r] = 0 /\ current # 0
  <2>1. Batch' = [Batch EXCEPT ![r] = Nothing] /\ Seen' = [Seen EXCEPT ![r] = 0]
    BY <1>1, <1>2, <1>5 DEF FeedInv, Reading, Batch, Seen
  <2>2. Feed!Leave(r)
    BY <1>1, <2>1 DEF Feed!Leave, Feed!Nothing, Nothing, Batch, Seen
  <2> QED BY <1>3, <1>4, <2>2 DEF Feed!Next
<1>6. CASE ~(holds[r] = 0 /\ current # 0)
  <2>1. Batch' = Batch /\ Seen' = Seen
    BY <1>1, <1>2, <1>6 DEF FeedInv, Reading, Batch, Seen
  <2>2. UNCHANGED Feed!vars
    BY <1>1, <2>1 DEF Feed!vars, Batch, Seen
  <2> QED BY <1>3, <1>4, <2>2
<1> QED BY <1>5, <1>6

(* The n numbers from a on, of those below m.                              *)
LEMMA RunOfNumbers ==
    ASSUME NEW a \in Nat, NEW n \in Nat
    PROVE  [k \in 1 .. n |-> a + k - 1] \in Seq(Nat) /\ Len([k \in 1 .. n |-> a + k - 1]) = n
<1>1. \A k \in 1 .. n : a + k - 1 \in Nat
  OBVIOUS
<1> QED BY <1>1

LEMMA RunBelow ==
    ASSUME NEW a \in Nat, NEW n \in Nat, NEW m \in Nat, a =< m, n =< m - a, m - a > 0 => n >= 1
    PROVE  /\ a + n - 1 \in a - 1 .. m - 1
           /\ a < m => a + n - 1 >= a
           /\ a + n - 1 + 1 - a = n
           /\ (n < m - a) = (a + n - 1 < m - 1)
           /\ \A k \in 1 .. n : a + k - 1 < m
OBVIOUS

(* What a look finds is a run of chunks from the first new one on.         *)
LEMMA LookFeeds ==
    ASSUME FeedInv, NEW r \in Readers, Look(r)
    PROVE  Numbered' /\ Reading' /\ [Feed!Next]_Feed!vars
<1> DEFINE lg == log[holds[r]]
           new == Newer(lg, cursor[r])
           n == Fits(new, limit[r])
           from == FirstNew(lg, cursor[r])
           shown == [out  |-> [k \in 1 .. n |-> new[k].seq],
                     lost |-> Lost(lg, cursor[r]),
                     more |-> n < Len(new)]
<1>1. /\ UNCHANGED <<current, log, holds, cursor>> /\ pc' = [pc EXCEPT ![r] = "answer"]
      /\ answer' = [answer EXCEPT ![r] = shown]
  BY DEF Look, idVars, logVars
<1>2. lg \in LogRecords /\ Gapless(lg) /\ cursor[r] \in Nat /\ lg.next \in Nat
  BY DEF FeedInv, Reading, LogTypes, LogRecords, Numbered
<1>3. /\ new \in Seq(Chunk) /\ Len(new) = IF from < lg.next THEN lg.next - from ELSE 0
      /\ \A k \in 1 .. Len(new) : new[k].seq = from + k - 1
  <2> HIDE DEF lg
  <2> QED BY <1>2, NewerNumbers
<1>4. n \in 0 .. Len(new) /\ (Len(new) > 0 => n >= 1)
  <2> HIDE DEF new
  <2> QED BY <1>3, FitsSome
<1>5. Oldest(lg) \in 1 .. lg.next /\ from \in Nat
  <2>1. Oldest(lg) \in 1 .. lg.next
    <3> HIDE DEF lg
    <3> QED BY <1>2, OldestNumber
  <2> QED BY <1>2, <2>1 DEF FirstNew
<1> HIDE DEF n, new
<1>6. n \in Nat /\ n =< Len(new) /\ (Len(new) > 0 => n >= 1)
  BY <1>3, <1>4
<1>7. shown.out = [k \in 1 .. n |-> from + k - 1] /\ shown.out \in Seq(Nat) /\ Len(shown.out) = n
  <2>1. \A k \in 1 .. n : k \in 1 .. Len(new)
    BY <1>3, <1>6
  <2>2. shown.out = [k \in 1 .. n |-> from + k - 1]
    BY <1>3, <2>1
  <2> HIDE DEF shown, from
  <2>3. [k \in 1 .. n |-> from + k - 1] \in Seq(Nat) /\ Len([k \in 1 .. n |-> from + k - 1]) = n
    BY <1>5, <1>6, RunOfNumbers
  <2> QED BY <2>2, <2>3
<1>8. Numbered'
  BY <1>1 DEF FeedInv, Numbered
<1>9. ASSUME holds[r] = 0
      PROVE  /\ log[0].next \in Nat /\ from =< log[0].next
             /\ n =< log[0].next - from /\ (log[0].next - from > 0 => n >= 1)
             /\ Len(new) = log[0].next - from
  <2>1. from =< log[0].next /\ Len(new) = log[0].next - from /\ log[0].next \in Nat
    BY <1>2, <1>3, <1>5, <1>9 DEF FeedInv, Reading, FirstNew
  <2> HIDE DEF from
  <2> QED BY <1>6, <2>1
<1> HIDE DEF lg
<1>10. Reading'
  <2>1. ASSUME holds[r] = 0
        PROVE  \A k \in 1 .. Len(shown.out) : shown.out[k] < log[0].next
    <3> HIDE DEF shown, from
    <3>1. \A k \in 1 .. n : from + k - 1 < log[0].next
      BY <1>5, <1>6, <1>9, <2>1, RunBelow
    <3> QED BY <1>7, <3>1
  <2> HIDE DEF shown
  <2> QED BY <1>1, <1>7, <2>1 DEF FeedInv, Reading
<1>11. CASE holds[r] = 0
  <2> DEFINE to == from + n - 1
  <2>1. /\ Batch' = [Batch EXCEPT ![r] = shown] /\ Seen' = Seen /\ Seen[r] = cursor[r]
        /\ DOMAIN Batch = Readers
    <3> HIDE DEF shown
    <3> QED BY <1>1, <1>11 DEF FeedInv, Reading, Batch, Seen
  <2>2. Feed!From(r) = from
    BY <1>11, <2>1 DEF Feed!From, FirstNew, lg, Seen
  <2>3. /\ to \in from - 1 .. log[0].next - 1 /\ (from < log[0].next => to >= from)
        /\ to + 1 - from = n
        /\ (n < Len(new)) = (to < log[0].next - 1)
    <3> DEFINE m == log[0].next
    <3>1. m \in Nat /\ from =< m /\ n =< m - from /\ (m - from > 0 => n >= 1) /\ Len(new) = m - from
      BY <1>9, <1>11
    <3>2. from \in Nat /\ n \in Nat
      BY <1>5, <1>6
    <3> HIDE DEF from, m, to
    <3>3. /\ from + n - 1 \in from - 1 .. m - 1 /\ (from < m => from + n - 1 >= from)
          /\ from + n - 1 + 1 - from = n
          /\ (n < m - from) = (from + n - 1 < m - 1)
      BY <3>1, <3>2, RunBelow
    <3> QED BY <3>1, <3>3 DEF m, to
  <2>4. Lost(lg, cursor[r]) = (cursor[r] # 0 /\ from # cursor[r] + 1)
    BY <1>2, <1>5 DEF Lost, FirstNew
  <2>5. shown = [out  |-> [k \in 1 .. to + 1 - from |-> from + k - 1],
                 lost |-> cursor[r] # 0 /\ from # cursor[r] + 1,
                 more |-> to < log[0].next - 1]
    <3> HIDE DEF to, from
    <3> QED BY <1>7, <2>3, <2>4
  <2> HIDE DEF to, from, shown
  <2>6. /\ Batch' = [Batch EXCEPT ![r] =
                [out  |-> [k \in 1 .. to + 1 - Feed!From(r) |-> Feed!From(r) + k - 1],
                 lost |-> Seen[r] # 0 /\ Feed!From(r) # Seen[r] + 1,
                 more |-> to < log[0].next - 1]]
        /\ to \in Feed!From(r) - 1 .. log[0].next - 1
        /\ Feed!From(r) < log[0].next => to >= Feed!From(r)
    BY <2>1, <2>2, <2>3, <2>5
  <2>7. Oldest(log[0])' = Oldest(log[0]) /\ log'[0].next = log[0].next
    BY <1>1
  <2>8. Feed!Take(r)
    BY <2>1, <2>6, <2>7, Zenon DEF Feed!Take, Batch, Seen
  <2> QED BY <1>8, <1>10, <2>8 DEF Feed!Next
<1>12. CASE holds[r] # 0
  <2>1. Batch' = Batch /\ Seen' = Seen
    <3> HIDE DEF shown
    <3> QED BY <1>1, <1>12 DEF FeedInv, Reading, Batch, Seen
  <2>2. UNCHANGED Feed!vars
    BY <1>1, <2>1 DEF Feed!vars, Batch, Seen
  <2> QED BY <1>8, <1>10, <2>2
<1> QED BY <1>11, <1>12

LEMMA AnswerFeeds ==
    ASSUME FeedInv, NEW r \in Readers, Answer(r) \/ NotFound(r)
    PROVE  Numbered' /\ Reading' /\ [Feed!Next]_Feed!vars
<1>1. /\ UNCHANGED <<current, log, holds>> /\ pc' = [pc EXCEPT ![r] = "idle"]
      /\ answer' = [answer EXCEPT ![r] = Nothing]
      /\ cursor' = cursor \/ cursor' = [cursor EXCEPT ![r] = NextAfter(r)]
  BY DEF Answer, NotFound, Done, idVars, logVars
<1>2. /\ cursor[r] \in Nat /\ NextAfter(r) \in Nat
      /\ holds[r] = 0 => cursor[r] < log[0].next /\ NextAfter(r) < log[0].next
      /\ answer[r].out # <<>> => NextAfter(r) = answer[r].out[Len(answer[r].out)]
  <2>1. cursor[r] \in Nat /\ answer[r].out \in Seq(Nat)
    BY DEF FeedInv, Reading
  <2>2. CASE answer[r].out = <<>>
    BY <2>1, <2>2 DEF NextAfter, FeedInv, Reading
  <2>3. CASE answer[r].out # <<>>
    <3>1. Len(answer[r].out) \in 1 .. Len(answer[r].out)
      BY <2>1, <2>3
    <3>2. NextAfter(r) = answer[r].out[Len(answer[r].out)]
      BY <2>3 DEF NextAfter, Last
    <3>3. answer[r].out[Len(answer[r].out)] \in Nat
      BY <2>1, <3>1
    <3>4. holds[r] = 0 => /\ cursor[r] < log[0].next
                          /\ \A k \in 1 .. Len(answer[r].out) : answer[r].out[k] < log[0].next
      BY DEF FeedInv, Reading
    <3> QED BY <2>1, <3>1, <3>2, <3>3, <3>4
  <2> QED BY <2>2, <2>3
<1>3. Numbered'
  BY <1>1 DEF FeedInv, Numbered
<1>4. Nothing.out = <<>> /\ <<>> \in Seq(Nat) /\ Len(<<>>) = 0
  BY DEF Nothing
<1>5. Reading'
  <2>1. /\ pc' \in [Readers -> {"idle", "look", "waiting", "answer"}]
        /\ cursor' \in [Readers -> Nat]
        /\ DOMAIN answer' = Readers
    BY <1>1, <1>2 DEF FeedInv, Reading
  <2>2. ASSUME NEW q \in Readers
        PROVE  /\ answer'[q].out \in Seq(Nat)
               /\ pc'[q] # "answer" => answer'[q] = Nothing
               /\ holds[q] = 0 =>
                     /\ cursor'[q] < log[0].next
                     /\ \A k \in 1 .. Len(answer'[q].out) : answer'[q].out[k] < log[0].next
    <3>1. CASE q = r
      <4>1. answer'[r] = Nothing /\ cursor'[r] \in {cursor[r], NextAfter(r)}
        BY <1>1 DEF FeedInv, Reading
      <4>2. \A k \in 1 .. Len(<<>>) : FALSE
        OBVIOUS
      <4> QED BY <1>2, <1>4, <3>1, <4>1, <4>2
    <3>2. CASE q # r
      <4>1. answer'[q] = answer[q] /\ cursor'[q] = cursor[q] /\ pc'[q] = pc[q]
        BY <1>1, <3>2 DEF FeedInv, Reading
      <4> QED BY <4>1 DEF FeedInv, Reading
    <3> QED BY <3>1, <3>2
  <2> QED BY <1>1, <2>1, <2>2 DEF FeedInv, Reading
<1>6. Batch' = [Batch EXCEPT ![r] = Nothing]
  BY <1>1 DEF FeedInv, Reading, Batch
<1>7. CASE cursor' = cursor \/ holds[r] # 0 \/ answer[r].out = <<>>
  <2>1. Seen' = Seen
    BY <1>1, <1>7 DEF FeedInv, Reading, Seen, NextAfter
  <2>2. Feed!Miss(r)
    BY <1>1, <1>6, <2>1 DEF Feed!Miss, Feed!Nothing, Nothing, Batch, Seen
  <2> QED BY <1>3, <1>5, <2>2 DEF Feed!Next
<1>8. CASE cursor' # cursor /\ holds[r] = 0 /\ answer[r].out # <<>>
  <2>1. /\ Batch[r] = answer[r]
        /\ Seen' = [Seen EXCEPT ![r] = answer[r].out[Len(answer[r].out)]]
    BY <1>1, <1>2, <1>8 DEF FeedInv, Reading, Batch, Seen
  <2>2. Feed!Give(r)
    BY <1>1, <1>6, <1>8, <2>1 DEF Feed!Give, Feed!Nothing, Nothing, Batch, Seen
  <2> QED BY <1>3, <1>5, <2>2 DEF Feed!Next
<1> QED BY <1>7, <1>8

LEMMA FeedStep == FeedInv /\ [Next]_vars => FeedInv' /\ [Feed!Next]_Feed!vars
<1> SUFFICES ASSUME FeedInv, [Next]_vars PROVE FeedInv' /\ [Feed!Next]_Feed!vars
  OBVIOUS
<1>1. LogTypes' /\ BytesAccount'
  BY BytesStep DEF FeedInv
<1>2. ASSUME UNCHANGED <<log, holds, answer, cursor>>, current' \in Logs, current' >= current,
             pc' \in [Readers -> {"idle", "look", "waiting", "answer"}],
             \A r \in Readers : pc[r] = "answer" => pc'[r] = "answer"
      PROVE  Numbered' /\ Reading' /\ [Feed!Next]_Feed!vars
  <2>1. \A r \in Readers : holds[r] =< current'
    <3>1. current \in Nat /\ current' \in Nat /\ \A r \in Readers : holds[r] \in Nat /\ holds[r] =< current
      BY <1>2, FirstLog DEF FeedInv, Reading
    <3> QED BY <1>2, <3>1
  <2>2. Numbered' /\ Reading'
    BY <1>2, <2>1 DEF FeedInv, Numbered, Reading
  <2> QED BY <1>2, <2>2, FeedSame
<1>3. current \in Logs /\ current \in Nat
  BY FirstLog DEF FeedInv, Reading
<1> USE DEF idVars, logVars, readerVars
<1>4. ASSUME NEW r \in Readers, Wait(r) \/ Deadline(r)
      PROVE  Numbered' /\ Reading' /\ [Feed!Next]_Feed!vars
  <2>1. /\ UNCHANGED <<current, log, holds, answer, cursor>> /\ pc[r] # "answer"
        /\ pc' = [pc EXCEPT ![r] = "waiting"] \/ pc' = [pc EXCEPT ![r] = "look"]
    BY <1>4 DEF Wait, Deadline
  <2>2. /\ pc' \in [Readers -> {"idle", "look", "waiting", "answer"}]
        /\ \A q \in Readers : pc[q] = "answer" => pc'[q] = "answer"
    BY <2>1 DEF FeedInv, Reading
  <2> QED BY <1>2, <1>3, <2>1, <2>2
<1>5. ASSUME Drop \/ Start \/ UNCHANGED vars
      PROVE  Numbered' /\ Reading' /\ [Feed!Next]_Feed!vars
  BY <1>2, <1>3, <1>5, LogAssumption DEF Drop, Start, vars, FeedInv, Reading, Logs
<1> QED BY <1>1, <1>4, <1>5, PumpFeeds, LookupFeeds, LookFeeds, AnswerFeeds
           DEF Next, ReadStep, FeedInv

(* The log of one child is an OutputFeed for its readers, for any sizes,   *)
(* limits, pumps and restarts: chunks in order, none twice, none missed    *)
(* without a notice.                                                       *)
THEOREM ImplementsFeedCorrect == Spec => ImplementsFeed
<1>1. Init => FeedInv /\ Feed!Init
  <2> SUFFICES ASSUME Init PROVE FeedInv /\ Feed!Init
    OBVIOUS
  <2>1. LogTypes /\ BytesAccount
    BY InitBytes
  <2>2. \A e \in Logs : log[e] = [chunks |-> <<>>, bytes |-> 0, next |-> 1]
    BY DEF Init
  <2>3. Numbered
    BY <2>2 DEF Numbered, Gapless
  <2>4. Reading
    <3>1. log[0].next = 1 /\ Nothing.out = <<>> /\ <<>> \in Seq(Nat)
      BY <2>2, FirstLog DEF Nothing
    <3>2. \A k \in 1 .. Len(<<>>) : FALSE
      OBVIOUS
    <3>3. \A r \in Readers : answer[r] = Nothing /\ cursor[r] = 0 /\ holds[r] = 0
      BY DEF Init
    <3>4. /\ pc \in [Readers -> {"idle", "look", "waiting", "answer"}]
          /\ holds \in [Readers -> Logs] /\ current = 0
          /\ cursor \in [Readers -> Nat] /\ DOMAIN answer = Readers
      BY FirstLog DEF Init
    <3>5. ASSUME NEW r \in Readers
          PROVE  /\ answer[r].out \in Seq(Nat) /\ holds[r] =< current
                 /\ cursor[r] < log[0].next
                 /\ \A k \in 1 .. Len(answer[r].out) : answer[r].out[k] < log[0].next
      <4>1. answer[r].out = <<>> /\ holds[r] = 0 /\ cursor[r] = 0
        BY <3>1, <3>3
      <4> QED BY <3>1, <3>2, <3>4, <4>1
    <3> QED BY <3>3, <3>4, <3>5, FirstLog DEF Reading
  <2>5. Oldest(log[0]) = 1 /\ log[0].next = 1
    BY <2>2, FirstLog DEF Oldest
  <2>6. Feed!Init
    BY <2>5 DEF Init, Feed!Init, Feed!Nothing, Nothing
  <2> QED BY <2>1, <2>3, <2>4, <2>6 DEF FeedInv
<1> QED BY <1>1, FeedStep, PTL DEF Spec, ImplementsFeed, Feed!Spec

=============================================================================
