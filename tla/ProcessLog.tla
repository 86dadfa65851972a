------------------------------ MODULE ProcessLog ------------------------------
(***************************************************************************)
(* The output log of one process id in agent_runtime/processes.py: the two *)
(* pump threads of each child append what they read from its pipes to a    *)
(* buffer of bounded size, and readers page through it with a cursor,      *)
(* waiting on a condition for output to come.  A restart gives the id a    *)
(* new child with an empty log (ProcessRegistry has the restart itself);   *)
(* readers and pumps that hold the old one go on with it.                  *)
(*                                                                         *)
(* An action is a region under the log's lock (item.lock) or a lookup      *)
(* under the registry's.  Readers follow the README: they pass the         *)
(* next_after of one answer as the `after' of the next call.  Text is its  *)
(* length; redaction, timestamps and stream names are left out.            *)
(***************************************************************************)
EXTENDS Integers, SequencesExt

CONSTANTS
    Readers,        \* the threads that run read
    Streams,        \* {"stdout", "stderr"}
    Sizes,          \* of what one os.read returns, and of texts
    TextSizes,      \* size read -> sizes of the texts it may be made into
    BufferBytes,    \* cfg.process_buffer_bytes
    Limits,         \* the limit_bytes readers ask for
    MaxSeq,         \* bound: the chunks of all the logs together
    MaxRestarts     \* bound: the restarts of the id

Logs == 0 .. MaxRestarts        \* one per child the id named

ASSUME LogAssumption ==
    /\ Sizes \subseteq Nat \ {0} /\ TextSizes \in [Sizes -> SUBSET Sizes]
    /\ Limits \subseteq Nat \ {0}
    /\ BufferBytes \in Nat \ {0}
    /\ MaxSeq \in Nat /\ MaxRestarts \in Nat

VARIABLES
    known,      \* FALSE after a restart or _gc dropped the entry of the id
    current,    \* the log of the child that the id names, or named last
    log,        \* log -> chunks, bytes and next_seq of its Managed
    open,       \* log -> the streams whose pump still reads
    pc,         \* reader -> idle, look (has the lock next), waiting, answer
    holds,      \* reader -> the log it looked up
    late,       \* reader -> TRUE once its deadline has passed
    limit,      \* reader -> limit_bytes of its call
    answer,     \* reader -> what its look found, until it answers
    cursor      \* reader -> next_after of its last answer

idVars     == <<known, current>>
logVars    == <<log, open>>
readerVars == <<pc, holds, late, limit, answer, cursor>>
vars == <<idVars, logVars, readerVars>>

(* Data counts its bytes; the text left over at the end counts none.       *)
Chunk == [seq : Nat \ {0}, raw : Sizes \cup {0}, text : Sizes \cup {1}]

TypeOK ==
    /\ known \in BOOLEAN
    /\ current \in Logs
    /\ \A e \in Logs :
          /\ log[e].chunks \in Seq(Chunk)
          /\ log[e].bytes \in Nat
          /\ log[e].next \in Nat \ {0}
          /\ open[e] \subseteq Streams
    /\ pc \in [Readers -> {"idle", "look", "waiting", "answer"}]
    /\ holds \in [Readers -> Logs]
    /\ late \in [Readers -> BOOLEAN]
    /\ limit \in [Readers -> Limits]
    /\ \A r \in Readers :
          /\ answer[r].out \in Seq(Nat)
          /\ answer[r].lost \in BOOLEAN /\ answer[r].more \in BOOLEAN
    /\ cursor \in [Readers -> Nat]

Nothing == [out |-> <<>>, lost |-> FALSE, more |-> FALSE]

Init ==
    /\ known = TRUE
    /\ current = 0
    /\ log = [e \in Logs |-> [chunks |-> <<>>, bytes |-> 0, next |-> 1]]
    /\ open = [e \in Logs |-> IF e = 0 THEN Streams ELSE {}]
    /\ pc = [r \in Readers |-> "idle"]
    /\ holds = [r \in Readers |-> 0]
    /\ late = [r \in Readers |-> FALSE]
    /\ limit \in [Readers -> Limits]
    /\ answer = [r \in Readers |-> Nothing]
    /\ cursor = [r \in Readers |-> 0]

-----------------------------------------------------------------------------
(* Pumps. *)

Total(sizes) ==
    LET sum[k \in 0 .. Len(sizes)] == IF k = 0 THEN 0 ELSE sum[k - 1] + sizes[k]
    IN  sum[Len(sizes)]

RawBytes(chunks) == Total([k \in 1 .. Len(chunks) |-> chunks[k].raw])
TextBytes(chunks) == Total([k \in 1 .. Len(chunks) |-> chunks[k].text])

FreedMutant(chunks) == TextBytes(chunks)
Freed(chunks) == RawBytes(chunks)       \* bytes -= raw_len, chunk after chunk

(* While the buffer is over its size, drop the oldest chunk. *)
Evict(lg) ==
    LET over(n) == lg.bytes - Freed(SubSeq(lg.chunks, 1, n)) > BufferBytes
        n == Min({m \in 0 .. Len(lg.chunks) : m = Len(lg.chunks) \/ ~over(m)})
    IN  [lg EXCEPT !.chunks = SubSeq(@, n + 1, Len(@)),
                   !.bytes = @ - Freed(SubSeq(lg.chunks, 1, n))]

Added(lg, raw, text) ==
    [chunks |-> Append(lg.chunks, [seq |-> lg.next, raw |-> raw, text |-> text]),
     bytes  |-> lg.bytes + raw,
     next   |-> lg.next + 1]

(* chunk_cond.notify_all(): every reader that waits on this log looks again. *)
WokenMutant(e) ==               \* notify()
    LET waiters == {r \in Readers : pc[r] = "waiting" /\ holds[r] = e}
    IN  IF waiters = {} THEN {} ELSE {CHOOSE r \in waiters : TRUE}
Woken(e) == {r \in Readers : pc[r] = "waiting" /\ holds[r] = e}

NotifyAll(e) == pc' = [r \in Readers |-> IF r \in Woken(e) THEN "look" ELSE pc[r]]

Room == MapThenSumSet(LAMBDA e : log[e].next - 1, Logs) < MaxSeq     \* bound

(* A read from the pipe: decoding and redaction make a text of another size *)
(* of it, or none yet, and then the pump just reads on.                     *)
Pump(e, s, raw, text) ==
    /\ s \in open[e] /\ Room
    /\ text \in TextSizes[raw]
    /\ log' = [log EXCEPT ![e] = Evict(Added(@, raw, text))]
    /\ NotifyAll(e)
    /\ UNCHANGED <<idVars, open, holds, late, limit, answer, cursor>>

(* End of the stream: an incomplete character that the decoder still holds *)
(* becomes a chunk that counts no bytes.                                   *)
PumpEnd(e, s, tail) ==
    /\ s \in open[e]
    /\ tail => Room
    /\ open' = [open EXCEPT ![e] = @ \ {s}]
    /\ log' = IF tail THEN [log EXCEPT ![e] = Added(@, 0, 1)] ELSE log
    /\ NotifyAll(e)
    /\ UNCHANGED <<idVars, holds, late, limit, answer, cursor>>

-----------------------------------------------------------------------------
(* read. *)

Oldest(lg) == IF lg.chunks = <<>> THEN lg.next ELSE Head(lg.chunks).seq

(* The chunks that the cursor has not passed, collected one by one. *)
Newer(lg, after) ==
    LET new[k \in 0 .. Len(lg.chunks)] ==
            IF k = 0 THEN <<>>
            ELSE IF lg.chunks[k].seq > after THEN Append(new[k - 1], lg.chunks[k])
            ELSE new[k - 1]
    IN  new[Len(lg.chunks)]

(* cursor_lost. *)
LostMutant(lg, after) == after # 0 /\ after < Oldest(lg) - 2
Lost(lg, after) == after # 0 /\ after < Oldest(lg) - 1

(* The chunks that fit the limit, and the first one in any case. *)
Fits(chunks, bytes) ==
    Max({n \in 0 .. Len(chunks) : n =< 1 \/ TextBytes(SubSeq(chunks, 1, n)) =< bytes})

Lookup(r, l, wait) ==
    /\ pc[r] = "idle" /\ known
    /\ holds' = [holds EXCEPT ![r] = current]
    /\ limit' = [limit EXCEPT ![r] = l]
    /\ late' = [late EXCEPT ![r] = ~wait]
    /\ pc' = [pc EXCEPT ![r] = "look"]
    /\ UNCHANGED <<idVars, logVars, answer, cursor>>

(* Nothing new and time left: release the lock and wait. *)
Wait(r) ==
    /\ pc[r] = "look" /\ ~late[r]
    /\ Newer(log[holds[r]], cursor[r]) = <<>>
    /\ pc' = [pc EXCEPT ![r] = "waiting"]
    /\ UNCHANGED <<idVars, logVars, holds, late, limit, answer, cursor>>

Look(r) ==
    /\ pc[r] = "look"
    /\ LET lg  == log[holds[r]]
           new == Newer(lg, cursor[r])
           n   == Fits(new, limit[r])
       IN  /\ late[r] \/ new # <<>>
           /\ answer' = [answer EXCEPT ![r] =
                [out  |-> [k \in 1 .. n |-> new[k].seq],
                 lost |-> Lost(lg, cursor[r]),
                 more |-> n < Len(new)]]
    /\ pc' = [pc EXCEPT ![r] = "answer"]
    /\ UNCHANGED <<idVars, logVars, holds, late, limit, cursor>>

(* The status of the id, and the answer; or the id is gone and read raises. *)
NextAfter(r) == IF answer[r].out = <<>> THEN cursor[r] ELSE Last(answer[r].out)

Done(r) ==
    /\ pc' = [pc EXCEPT ![r] = "idle"]
    /\ late' = [late EXCEPT ![r] = FALSE]
    /\ answer' = [answer EXCEPT ![r] = Nothing]
    /\ UNCHANGED <<idVars, logVars, holds, limit>>

Answer(r) ==
    /\ pc[r] = "answer" /\ known
    /\ cursor' = [cursor EXCEPT ![r] = NextAfter(r)]
    /\ Done(r)

NotFound(r) ==
    /\ pc[r] = "answer" /\ ~known
    /\ UNCHANGED cursor
    /\ Done(r)

-----------------------------------------------------------------------------
(* The clock, and the registry. *)

(* A reader that the deadline catches between two looks finds out when it   *)
(* waits.                                                                  *)
Deadline(r) ==
    /\ pc[r] = "waiting"
    /\ late' = [late EXCEPT ![r] = TRUE]
    /\ pc' = [pc EXCEPT ![r] = "look"]
    /\ UNCHANGED <<idVars, logVars, holds, limit, answer, cursor>>

(* restart, or _gc, drops the entry; a start gives the id a new child. *)
Drop ==
    /\ known
    /\ known' = FALSE
    /\ UNCHANGED <<current, logVars, readerVars>>

Start ==
    /\ current < MaxRestarts
    /\ known' = TRUE
    /\ current' = current + 1
    /\ open' = [open EXCEPT ![current + 1] = Streams]
    /\ UNCHANGED <<log, readerVars>>

-----------------------------------------------------------------------------
PumpStep(e, s) ==
    \/ \E raw, text \in Sizes : Pump(e, s, raw, text)
    \/ \E tail \in BOOLEAN : PumpEnd(e, s, tail)

ReadStep(r) == Wait(r) \/ Look(r) \/ Answer(r) \/ NotFound(r)

Next ==
    \/ \E e \in Logs, s \in Streams : PumpStep(e, s)
    \/ \E r \in Readers, l \in Limits, wait \in BOOLEAN : Lookup(r, l, wait)
    \/ \E r \in Readers : ReadStep(r) \/ Deadline(r)
    \/ Drop \/ Start

Spec == Init /\ [][Next]_vars

-----------------------------------------------------------------------------
(* Safety. *)

(* The running total that decides on eviction is the size of what is kept, *)
(* and the buffer is never over its limit, whatever the pumps interleave.  *)
BytesAccount ==
    \A e \in Logs :
        /\ log[e].bytes = RawBytes(log[e].chunks)
        /\ log[e].bytes =< BufferBytes

(* No reader sleeps while the log it looks at has output it has not seen:  *)
(* no notification is lost between its look and its wait.                  *)
NoLostWakeup ==
    \A r \in Readers :
        pc[r] = "waiting" => Newer(log[holds[r]], cursor[r]) = <<>>

(* The log of one child is an OutputFeed: chunks in order, none twice, none *)
(* missed without cursor_lost but before the first answer, and truncated    *)
(* exactly when more is kept, for as long as the reader asks for this log.  *)
Feed == INSTANCE OutputFeed WITH
    oldest <- Oldest(log[0]),
    next   <- log[0].next,
    batch  <- [r \in Readers |-> IF holds[r] = 0 THEN answer[r] ELSE Nothing],
    cursor <- [r \in Readers |-> IF holds[r] = 0 THEN cursor[r] ELSE 0]

ImplementsFeed == Feed!Spec
=============================================================================
