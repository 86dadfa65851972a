------------------------- MODULE ForegroundCallsProofs -------------------------
(* Theorems about StdioServer, about Execute, and about ForegroundCalls:   *)
(* what holds of commands alone holds in the pool and in those of batches, *)
(* whose steps are steps of Execute, on Windows and elsewhere.             *)
EXTENDS ForegroundCalls, FiniteSetTheorems, TLAPS

-----------------------------------------------------------------------------
(* The count of pending requests. *)

(* Only a main thread that reads accepts, and none does after an interrupt. *)
Counting ==
    /\ pc \in [Threads -> {"idle", "call", "batch", "write", "shutdown", "exited"}]
    /\ queue \in Seq(Messages)
    /\ pending \in Int
    /\ cut \in BOOLEAN
    /\ cut => pc[Main] \in {"shutdown", "exited"}

LEMMA BusyFinite == IsFiniteSet(Busy) /\ Cardinality(Busy) \in Nat
<1>1. Busy \in SUBSET Workers
  BY DEF Busy
<1> QED BY <1>1, ServerAssumption, FS_Subset, FS_CardinalityType

(* What leaves the workers' places, the queue and the count alone.         *)
LEMMA SameCount ==
    ASSUME PendingExact, \A w \in Workers : pc'[w] = "idle" <=> pc[w] = "idle",
           queue' = queue, pending' = pending, cut' = cut, starved' = starved
    PROVE  PendingExact'
<1>1. Busy' = Busy
  BY DEF Busy
<1> QED BY <1>1 DEF PendingExact

(* A thread that has written: a worker counts its request down.            *)
LEMMA EndWriteCounts ==
    ASSUME Counting, PendingExact, NEW t \in Threads, pc[t] # "idle", t = Main => pc[t] = "write",
           EndWrite(t), UNCHANGED <<queue, cut, starved>>
    PROVE  Counting' /\ PendingExact'
<1> USE ServerAssumption DEF Counting, Threads, EndWrite
<1>1. Counting'
  OBVIOUS
<1>2. CASE t = Main
  BY <1>2, SameCount
<1>3. CASE t \in Workers
  <2>1. t \in Busy /\ Busy' = Busy \ {t}
    BY <1>3 DEF Busy
  <2>2. Cardinality(Busy \ {t}) = Cardinality(Busy) - 1
    BY <2>1, BusyFinite, FS_RemoveElement
  <2>3. pending' = pending - 1 /\ queue' = queue /\ cut' = cut /\ starved' = starved
    BY <1>3
  <2>4. pending \in Int /\ Len(queue) \in Nat /\ Cardinality(Busy) \in Nat /\ MaxPending \in Nat
    BY BusyFinite
  <2>5. Cardinality(Busy') = Cardinality(Busy) - 1
    BY <2>1, <2>2
  <2> QED BY <1>1, <2>3, <2>4, <2>5 DEF PendingExact
<1> QED BY <1>1, <1>2, <1>3

LEMMA CountStep == Counting /\ PendingExact /\ [Next]_vars => Counting' /\ PendingExact'
<1> SUFFICES ASSUME Counting, PendingExact, [Next]_vars PROVE Counting' /\ PendingExact'
  OBVIOUS
<1> USE ServerAssumption DEF Counting, Threads, poolVars, threadVars, outVars, batchVars
<1>1. ASSUME NEW m \in Messages, Accept(m) PROVE Counting' /\ PendingExact'
  <2>1. Busy' = Busy
    BY <1>1 DEF Accept, Busy
  <2>2. Len(queue') = Len(queue) + 1 /\ ~cut /\ pending + 1 =< MaxPending
    BY <1>1 DEF Accept, Overloaded
  <2>3. Counting'
    BY <1>1 DEF Accept
  <2>4. Len(queue) \in Nat /\ pending' = pending + 1 /\ cut' = cut /\ starved' = starved
    BY <1>1 DEF Accept
  <2> QED BY <2>1, <2>2, <2>3, <2>4, BusyFinite DEF PendingExact
<1>2. ASSUME NEW m \in Messages, Reject(m) PROVE Counting' /\ PendingExact'
  BY <1>2, SameCount DEF Reject, BeginWrite
<1>3. CASE EndOfInput \/ Exit
  BY <1>3, SameCount DEF EndOfInput, Exit
<1>4. CASE Interrupt
  <2>1. Busy' = Busy
    BY <1>4 DEF Interrupt, Abort, Busy
  <2> QED BY <1>4, <2>1, BusyFinite DEF Interrupt, Abort, PendingExact
<1>5. ASSUME NEW w \in Workers, Take(w) PROVE Counting' /\ PendingExact'
  <2>1. w \notin Busy /\ Busy' = Busy \cup {w}
    BY <1>5 DEF Take, Busy
  <2>2. Cardinality(Busy \cup {w}) = Cardinality(Busy) + 1
    BY <2>1, BusyFinite, FS_AddElement
  <2>3. queue' \in Seq(Messages) /\ Len(queue) \in Nat /\ Len(queue') = Len(queue) - 1
    BY <1>5 DEF Take
  <2>4. Counting'
    BY <1>5, <2>3 DEF Take
  <2> QED BY <1>5, <2>1, <2>2, <2>3, <2>4, BusyFinite DEF Take, PendingExact
<1>6. ASSUME NEW w \in Workers, NEW raises \in BOOLEAN, Handled(w, raises)
      PROVE  Counting' /\ PendingExact'
  <2>1. CASE Answers(job[w], raises)
    BY <1>6, <2>1, SameCount DEF Handled, Through, BeginWrite
  <2>2. CASE ~Answers(job[w], raises)
    BY <1>6, <2>2, EndWriteCounts DEF Handled, Through
  <2> QED BY <2>1, <2>2
<1>7. ASSUME NEW w \in Workers, BeginCall(w) \/ EndCall(w) PROVE Counting' /\ PendingExact'
  BY <1>7, SameCount DEF BeginCall, EndCall
<1>8. ASSUME NEW t \in Threads, WriteStep(t) PROVE Counting' /\ PendingExact'
  BY <1>8, EndWriteCounts DEF WriteStep, Written, WriteTimeout
<1>9. ASSUME NEW m \in Messages, HelperStep(m) PROVE Counting' /\ PendingExact'
  BY <1>9, SameCount DEF HelperStep, Emit, EmitFails
<1>10. CASE Stall \/ Break
  BY <1>10, SameCount DEF Stall, Break
<1>11. CASE UNCHANGED vars
  BY <1>11, SameCount DEF vars
(* Without a thread nothing is said of the count.                          *)
<1>12. ASSUME NEW m \in Messages, SubmitFails(m) \/ RejectStarves(m) PROVE Counting' /\ PendingExact'
  <2>1. CASE SubmitFails(m)
    <3>1. Append(queue, m) \in Seq(Messages)
      OBVIOUS
    <3> QED BY <2>1, <3>1 DEF SubmitFails, PendingExact
  <2>2. CASE RejectStarves(m)
    BY <2>2 DEF RejectStarves, Abort, PendingExact
  <2> QED BY <1>12, <2>1, <2>2
<1>13. ASSUME NEW w \in Workers, NEW raises \in BOOLEAN, HandledStarves(w, raises)
       PROVE  Counting' /\ PendingExact'
  BY <1>13 DEF HandledStarves, PendingExact
<1> QED BY <1>1, <1>2, <1>3, <1>4, <1>5, <1>6, <1>7, <1>8, <1>9, <1>10, <1>11, <1>12, <1>13
           DEF Next, MainStep, WorkerStep, Finish, ClientStep

(* As long as run_stdio gets its threads, the count of pending requests is *)
(* exact, for any number of workers, requests and batches, so the bound on *)
(* the backlog is kept and nothing leaks.                                  *)
THEOREM PendingExactCorrect == Spec => []PendingExact
<1>1. Init => Counting /\ PendingExact
  <2> SUFFICES ASSUME Init PROVE Counting /\ PendingExact
    OBVIOUS
  <2>1. Busy = {} /\ Cardinality({}) = 0
    BY FS_EmptySet DEF Init, Busy, Threads
  <2>2. Counting
    <3>1. queue \in Seq(Messages) /\ pending = 0 /\ cut = FALSE
      BY DEF Init
    <3>2. pc \in [Threads -> {"idle", "call", "batch", "write", "shutdown", "exited"}]
      BY DEF Init
    <3>3. pending \in Int
      BY <3>1
    <3>4. cut \in BOOLEAN /\ ~cut
      BY <3>1, Zenon
    <3> QED BY <3>1, <3>2, <3>3, <3>4 DEF Counting
  <2>3. Len(queue) = 0 /\ pending = 0
    BY DEF Init
  <2> QED BY <2>1, <2>2, <2>3, ServerAssumption DEF PendingExact
<1> QED BY <1>1, CountStep, PTL DEF Spec

-----------------------------------------------------------------------------
(* The path of a line.  It is unsent, queued, the job of one thread, or    *)
(* done with; nothing is written for it before its thread has handled it;  *)
(* and while nothing has gone wrong a request is always at one of these    *)
(* places or answered.                                                     *)
Queued == {queue[k] : k \in 1 .. Len(queue)}

Untouched(m) == sent[m] = 0 /\ m \notin helpers /\ m \notin failed

Handles(t, m) == job[t] = m /\ pc[t] \in {"call", "batch"}

Awaits(t, m) == job[t] = m /\ pc[t] = "write" /\ m \in helpers \cup failed

LineTypes ==
    /\ unsent \subseteq Messages
    /\ queue \in Seq(Messages)
    /\ pc \in [Threads -> {"idle", "call", "batch", "write", "shutdown", "exited"}]
    /\ job \in [Threads -> Messages \cup {None}]
    /\ helpers \subseteq Messages /\ failed \subseteq Messages
    /\ sent \in [Messages -> Nat]

QueueDistinct == \A k, l \in 1 .. Len(queue) : queue[k] = queue[l] => k = l

OnePlace ==
    /\ pc[Main] \in {"idle", "write", "shutdown", "exited"}
    /\ \A w \in Workers : pc[w] \in {"idle", "call", "batch", "write"}
    /\ \A t \in Threads : pc[t] = "idle" => job[t] = None
    /\ \A t \in Threads : pc[t] \in {"call", "batch", "write"} => job[t] # None
    /\ \A t, u \in Threads : job[t] = job[u] /\ job[t] # None => t = u
    /\ unsent \cap Queued = {}
    /\ \A t \in Threads : job[t] \notin unsent \cup Queued

OneResponse ==
    /\ \A m \in unsent \cup Queued : Untouched(m)
    /\ \A t \in Threads, m \in Messages : Handles(t, m) => Untouched(m)
    /\ \A m \in helpers : sent[m] = 0 /\ m \notin failed
    /\ \A m \in Messages : sent[m] =< 1

NoneLost ==
    ~cut /\ ~dead /\ ~starved =>
        /\ \A m \in Messages \ (Notifications \cup Silent) :
              \/ m \in unsent \cup Queued
              \/ \E t \in Threads : Handles(t, m) \/ Awaits(t, m)
              \/ sent[m] = 1
        /\ pc[Main] \in {"shutdown", "exited"} => unsent = {} /\ job[Main] = None
        /\ threads = {} => Queued = {}
        /\ pc[Main] = "exited" => Queued = {} /\ Busy = {}

Path == LineTypes /\ QueueDistinct /\ OnePlace /\ OneResponse /\ NoneLost

LEMMA QueuedMessages == LineTypes => Queued \subseteq Messages
BY DEF LineTypes, Queued

(* A line joins the queue at its end, and leaves it from its head.         *)
LEMMA QueueJoined ==
    ASSUME queue \in Seq(Messages), QueueDistinct, NEW m \in Messages, m \notin Queued,
           queue' = Append(queue, m)
    PROVE  queue' \in Seq(Messages) /\ QueueDistinct' /\ Queued' = Queued \cup {m}
<1>1. /\ queue' \in Seq(Messages) /\ Len(queue) \in Nat /\ Len(queue') = Len(queue) + 1
      /\ \A k \in 1 .. Len(queue) : queue'[k] = queue[k]
      /\ queue'[Len(queue) + 1] = m
  OBVIOUS
<1>2. \A k \in 1 .. Len(queue') : k \in 1 .. Len(queue) \/ k = Len(queue) + 1
  BY <1>1
<1>3. QueueDistinct'
  BY <1>1, <1>2 DEF QueueDistinct, Queued
<1>4. Queued' = Queued \cup {m}
  <2>1. \A x \in Queued' : x \in Queued \cup {m}
    BY <1>1, <1>2 DEF Queued
  <2>2. \A x \in Queued \cup {m} : x \in Queued'
    BY <1>1 DEF Queued
  <2> QED BY <2>1, <2>2
<1> QED BY <1>1, <1>3, <1>4

LEMMA QueueLeft ==
    ASSUME queue \in Seq(Messages), QueueDistinct, queue # <<>>, queue' = Tail(queue)
    PROVE  /\ queue' \in Seq(Messages) /\ QueueDistinct'
           /\ Head(queue) \in Queued /\ Queued' = Queued \ {Head(queue)}
<1>1. /\ queue' \in Seq(Messages) /\ Len(queue) \in Nat \ {0} /\ Len(queue') = Len(queue) - 1
      /\ \A k \in 1 .. Len(queue') : queue'[k] = queue[k + 1]
      /\ Head(queue) = queue[1]
  OBVIOUS
<1>2. QueueDistinct'
  BY <1>1 DEF QueueDistinct
<1>3. Head(queue) \in Queued
  BY <1>1 DEF Queued
<1>4. Queued' = Queued \ {Head(queue)}
  <2>1. \A x \in Queued' : x \in Queued \ {Head(queue)}
    BY <1>1 DEF Queued, QueueDistinct
  <2>2. ASSUME NEW x \in Queued \ {Head(queue)} PROVE x \in Queued'
    <3>1. PICK k \in 1 .. Len(queue) : x = queue[k]
      BY DEF Queued
    <3>2. k - 1 \in 1 .. Len(queue') /\ queue'[k - 1] = x
      BY <1>1, <3>1
    <3> QED BY <3>2 DEF Queued
  <2> QED BY <2>1, <2>2
<1> QED BY <1>1, <1>2, <1>3, <1>4

LEMMA QueueKept == queue' = queue /\ QueueDistinct => QueueDistinct' /\ Queued' = Queued
BY DEF QueueDistinct, Queued

(* A thread that goes on after a write, whatever has become of it.         *)
LEMMA EndWritePath ==
    ASSUME Path, NEW t \in Threads, pc[t] = "write", EndWrite(t),
           UNCHANGED <<unsent, queue, threadVars, helpers, failed, sent, cut>>,
           ~dead' => ~dead /\ job[t] \notin helpers \cup failed
    PROVE  Path'
<1> USE ServerAssumption DEF Path, EndWrite, Threads, threadVars, Untouched, Handles, Awaits
<1>1. QueueDistinct' /\ Queued' = Queued
  BY QueueKept
<1>2. LineTypes'
  BY DEF LineTypes
<1>3. OnePlace'
  BY <1>1, QueuedMessages DEF LineTypes, OnePlace
<1>4. OneResponse'
  BY <1>1 DEF LineTypes, OnePlace, OneResponse
<1>5. NoneLost'
  <2> SUFFICES ASSUME ~dead', ~cut', ~starved' PROVE NoneLost'
    BY DEF NoneLost
  <2>1. NoneLost /\ ~dead /\ ~cut /\ ~starved /\ threads' = threads /\ unsent' = unsent /\ sent' = sent
        /\ ~Awaits(t, job[t]) /\ ~Handles(t, job[t])
    OBVIOUS
  <2>2. \A u \in Threads, m \in Messages :
           (Handles(u, m) => Handles(u, m)') /\ (Awaits(u, m) => Awaits(u, m)')
    BY DEF LineTypes
  <2>3. pc'[Main] \in {"shutdown", "exited"} => pc[Main] = pc'[Main] /\ job'[Main] = job[Main]
    BY DEF LineTypes
  <2>4. Busy' \subseteq Busy
    BY DEF LineTypes, Busy
  <2> HIDE DEF Handles, Awaits, Threads, EndWrite
  <2> QED BY <1>1, <2>1, <2>2, <2>3, <2>4 DEF NoneLost
<1> QED BY <1>1, <1>2, <1>3, <1>4, <1>5

LEMMA PathStep == Path /\ [Next]_vars => Path'
<1> SUFFICES ASSUME Path, [Next]_vars PROVE Path'
  OBVIOUS
<1> USE ServerAssumption DEF Path, Threads, Untouched, Handles, Awaits, poolVars, threadVars, outVars, batchVars
<1>1. ASSUME NEW m \in Messages, Accept(m) PROVE Path'
  <2>1. QueueDistinct' /\ Queued' = Queued \cup {m} /\ queue' \in Seq(Messages)
    BY <1>1, QueueJoined DEF Accept, LineTypes, OnePlace
  <2>2. LineTypes'
    BY <1>1, <2>1 DEF Accept, LineTypes
  <2>3. OnePlace'
    BY <1>1, <2>1 DEF Accept, LineTypes, OnePlace
  <2>4. OneResponse'
    BY <1>1, <2>1 DEF Accept, LineTypes, OneResponse
  <2>5. NoneLost'
    <3>1. threads' # {}
      BY <1>1 DEF Accept
    <3> QED BY <1>1, <2>1, <3>1 DEF Accept, LineTypes, NoneLost
  <2> QED BY <2>1, <2>2, <2>3, <2>4, <2>5
<1>2. ASSUME NEW m \in Messages, Reject(m) PROVE Path'
  <2>1. QueueDistinct' /\ Queued' = Queued
    BY <1>2, QueueKept DEF Reject
  <2>2. LineTypes'
    BY <1>2 DEF Reject, BeginWrite, LineTypes
  <2>3. OnePlace'
    BY <1>2, <2>1 DEF Reject, BeginWrite, LineTypes, OnePlace
  <2>4. OneResponse'
    BY <1>2, <2>1 DEF Reject, BeginWrite, LineTypes, OnePlace, OneResponse
  <2>5. NoneLost'
    <3>1. CASE m \in Notifications
      BY <1>2, <2>1, <3>1 DEF Reject, LineTypes, NoneLost
    <3>2. CASE m \notin Notifications
      <4> SUFFICES ASSUME ~dead', ~cut', ~starved' PROVE NoneLost'
        BY DEF NoneLost
      <4>1. /\ BeginWrite(Main, m) /\ unsent' = unsent \ {m} /\ pc[Main] = "idle" /\ ~dead /\ ~cut
            /\ ~starved /\ threads' = threads
        BY <1>2, <3>2 DEF Reject, BeginWrite
      <4>2. Awaits(Main, m)' /\ pc'[Main] = "write"
        BY <4>1 DEF BeginWrite, LineTypes
      <4>3. \A t \in Threads, n \in Messages :
               (Handles(t, n) => Handles(t, n)') /\ (Awaits(t, n) => Awaits(t, n)')
        BY <4>1 DEF BeginWrite, LineTypes
      <4>4. sent' = sent
        BY <4>1 DEF BeginWrite
      <4> HIDE DEF Handles, Awaits, LineTypes, QueueDistinct, OnePlace, OneResponse
      <4> QED BY <2>1, <4>1, <4>2, <4>3, <4>4 DEF NoneLost
    <3> QED BY <3>1, <3>2
  <2> QED BY <2>1, <2>2, <2>3, <2>4, <2>5
<1>3. CASE EndOfInput \/ Exit
  <2>1. QueueDistinct' /\ Queued' = Queued
    BY <1>3, QueueKept DEF EndOfInput, Exit
  <2>2. LineTypes'
    BY <1>3 DEF EndOfInput, Exit, LineTypes
  <2>3. OnePlace'
    BY <1>3, <2>1 DEF EndOfInput, Exit, LineTypes, OnePlace
  <2>4. OneResponse'
    BY <1>3, <2>1 DEF EndOfInput, Exit, LineTypes, OneResponse
  <2>5. CASE EndOfInput
    <3>1. NoneLost'
      BY <2>1, <2>5 DEF EndOfInput, LineTypes, OnePlace, NoneLost
    <3> QED BY <2>1, <2>2, <2>3, <2>4, <3>1
  <2>6. CASE Exit
    <3>1. (queue = <<>> => Queued = {}) /\ Busy' = Busy
      BY <2>6 DEF Exit, Queued, Busy
    <3>2. NoneLost'
      BY <2>1, <2>6, <3>1 DEF Exit, Drained, LineTypes, OnePlace, NoneLost
    <3> QED BY <2>1, <2>2, <2>3, <2>4, <3>2
  <2> QED BY <1>3, <2>5, <2>6
<1>4. ASSUME Abort, unsent' \subseteq unsent, pc[Main] \in {"idle", "write"}, UNCHANGED <<job, outVars>>
      PROVE  Path'
  <2>1. QueueDistinct' /\ Queued' = {}
    BY <1>4 DEF Abort, QueueDistinct, Queued
  <2>2. LineTypes'
    BY <1>4 DEF Abort, LineTypes
  <2>3. OnePlace'
    BY <1>4, <2>1 DEF Abort, LineTypes, OnePlace
  <2>4. OneResponse'
    BY <1>4, <2>1 DEF Abort, LineTypes, OneResponse
  <2>5. NoneLost'
    BY <1>4 DEF Abort, NoneLost
  <2> QED BY <2>1, <2>2, <2>3, <2>4, <2>5
<1>5. ASSUME NEW w \in Workers, Take(w) PROVE Path'
  <2>1. /\ QueueDistinct' /\ Head(queue) \in Queued /\ Queued' = Queued \ {Head(queue)}
        /\ queue' \in Seq(Messages) /\ Head(queue) \in Messages
    BY <1>5, QueueLeft DEF Take, LineTypes
  <2>2. \E s \in {"call", "batch"} : pc' = [pc EXCEPT ![w] = s]
    BY <1>5 DEF Take
  <2>3. LineTypes'
    BY <1>5, <2>1, <2>2 DEF Take, LineTypes
  <2>4. OnePlace'
    BY <1>5, <2>1, <2>2 DEF Take, LineTypes, OnePlace
  <2>5. OneResponse'
    <3>1. /\ UNCHANGED <<unsent, helpers, sent, failed>> /\ job' = [job EXCEPT ![w] = Head(queue)]
          /\ w \in Threads
      BY <1>5 DEF Take, outVars, Threads
    <3>2. \A m \in Messages : Untouched(m)' = Untouched(m)
      BY <3>1 DEF Untouched
    <3>3. \A t \in Threads, m \in Messages :
             Handles(t, m)' => Handles(t, m) \/ m = Head(queue)
      BY <2>2, <3>1 DEF LineTypes, Handles
    <3>4. \A m \in unsent' \cup Queued' : Untouched(m)'
      BY <2>1, <3>1, <3>2 DEF OneResponse, LineTypes
    <3>5. \A t \in Threads, m \in Messages : Handles(t, m)' => Untouched(m)'
      <4> HIDE DEF Handles, Untouched, Threads, LineTypes
      <4> QED BY <2>1, <3>2, <3>3 DEF OneResponse
    <3>6. /\ \A m \in helpers' : sent'[m] = 0 /\ m \notin failed'
          /\ \A m \in Messages : sent'[m] =< 1
      BY <3>1 DEF OneResponse
    <3> QED BY <3>4, <3>5, <3>6 DEF OneResponse
  <2>6. NoneLost'
    <3> PICK h \in Messages : h = Head(queue)
      BY <2>1
    <3>1. Handles(w, h)'
      BY <1>5, <2>1, <2>2 DEF Take, LineTypes
    <3>2. \A t \in Threads, n \in Messages :
             (Handles(t, n) => Handles(t, n)') /\ (Awaits(t, n) => Awaits(t, n)')
      BY <1>5, <2>2 DEF Take, LineTypes
    <3>3. /\ pc'[Main] = pc[Main] /\ job'[Main] = job[Main]
          /\ UNCHANGED <<unsent, sent, cut, dead, threads, starved>>
      BY <1>5, <2>2 DEF Take, LineTypes
    <3>4. w \in Threads
      OBVIOUS
    <3> HIDE DEF Handles, Awaits, LineTypes, QueueDistinct, OnePlace, OneResponse, Threads
    <3> QED BY <2>1, <3>1, <3>2, <3>3, <3>4 DEF NoneLost
  <2> QED BY <2>1, <2>3, <2>4, <2>5, <2>6
<1>6. ASSUME NEW w \in Workers, NEW raises \in BOOLEAN, Handled(w, raises)
      PROVE  Path'
  <2>1. QueueDistinct' /\ Queued' = Queued
    BY <1>6, QueueKept DEF Handled
  <2>2. CASE Answers(job[w], raises)
    <3>1. /\ BeginWrite(w, job[w]) /\ UNCHANGED <<unsent, queue, threads, starved, cut>>
          /\ pc[w] \in {"call", "batch"}
      BY <1>6, <2>2 DEF Handled, Through
    <3>2. LineTypes'
      BY <3>1 DEF BeginWrite, LineTypes, OnePlace
    <3>3. OnePlace'
      BY <3>1, <2>1 DEF BeginWrite, LineTypes, OnePlace
    <3>4. OneResponse'
      BY <3>1, <2>1 DEF BeginWrite, LineTypes, OnePlace, OneResponse
    <3>5. NoneLost'
      BY <3>1, <2>1 DEF BeginWrite, LineTypes, OnePlace, NoneLost, Busy
    <3> QED BY <2>1, <3>2, <3>3, <3>4, <3>5
  <2>3. CASE ~Answers(job[w], raises)
    <3>1. /\ EndWrite(w) /\ UNCHANGED <<unsent, queue, threads, starved, cut, helpers, failed, dead, sent>>
          /\ pc[w] \in {"call", "batch"} /\ job[w] \in Notifications \cup Silent
      BY <1>6, <2>3 DEF Handled, Through, Answers
    <3>2. LineTypes'
      BY <3>1 DEF EndWrite, LineTypes, OnePlace
    <3>3. OnePlace'
      BY <3>1, <2>1, QueuedMessages DEF EndWrite, LineTypes, OnePlace
    <3>4. OneResponse'
      BY <3>1, <2>1 DEF EndWrite, LineTypes, OnePlace, OneResponse
    <3>5. NoneLost'
      <4>1. \A t \in Threads, n \in Messages \ (Notifications \cup Silent) :
               (Handles(t, n) => Handles(t, n)') /\ (Awaits(t, n) => Awaits(t, n)')
        BY <3>1 DEF EndWrite, LineTypes
      <4>2. pc'[Main] = pc[Main] /\ job'[Main] = job[Main] /\ Busy' \subseteq Busy
        BY <3>1 DEF EndWrite, LineTypes, Busy
      <4> HIDE DEF Handles, Awaits, LineTypes, QueueDistinct, OnePlace, OneResponse, Threads
      <4> QED BY <2>1, <3>1, <4>1, <4>2 DEF NoneLost
    <3> QED BY <2>1, <3>2, <3>3, <3>4, <3>5
  <2> QED BY <2>2, <2>3
<1>7. ASSUME NEW t \in Threads, WriteStep(t) PROVE Path'
  BY <1>7, EndWritePath DEF WriteStep, Written, WriteTimeout
<1>8. ASSUME NEW m \in Messages, HelperStep(m) PROVE Path'
  <2>1. QueueDistinct' /\ Queued' = Queued
    BY <1>8, QueueKept DEF HelperStep, Emit, EmitFails
  <2>2. LineTypes'
    BY <1>8 DEF HelperStep, Emit, EmitFails, LineTypes
  <2>3. OnePlace'
    BY <1>8, <2>1 DEF HelperStep, Emit, EmitFails, LineTypes, OnePlace
  <2>4. OneResponse'
    <3>1. CASE Emit(m)
      BY <2>1, <3>1 DEF Emit, LineTypes, OneResponse
    <3>2. CASE EmitFails(m)
      BY <2>1, <3>2 DEF EmitFails, LineTypes, OneResponse
    <3> QED BY <1>8, <3>1, <3>2 DEF HelperStep
  <2>5. NoneLost'
    <3>1. CASE Emit(m)
      BY <2>1, <3>1 DEF Emit, LineTypes, OneResponse, NoneLost, Busy
    <3>2. CASE EmitFails(m)
      BY <2>1, <3>2 DEF EmitFails, LineTypes, OneResponse, NoneLost, Busy
    <3> QED BY <1>8, <3>1, <3>2 DEF HelperStep
  <2> QED BY <2>1, <2>2, <2>3, <2>4, <2>5
<1>9. ASSUME UNCHANGED <<unsent, queue, threadVars, pc, job, outVars, cut>> PROVE Path'
  <2>1. QueueDistinct' /\ Queued' = Queued /\ Busy' = Busy
    BY <1>9, QueueKept DEF Busy
  <2>2. LineTypes' /\ OnePlace'
    BY <1>9, <2>1 DEF LineTypes, OnePlace
  <2>3. OneResponse' /\ NoneLost'
    BY <1>9, <2>1 DEF OneResponse, NoneLost
  <2> QED BY <2>1, <2>2, <2>3
<1>10. ASSUME NEW w \in Workers, BeginCall(w) \/ EndCall(w) PROVE Path'
  BY <1>9, <1>10 DEF BeginCall, EndCall
<1>11. CASE Stall \/ Break
  BY <1>9, <1>11 DEF Stall, Break
<1>12. CASE UNCHANGED vars
  BY <1>9, <1>12 DEF vars
<1>13. ASSUME NEW m \in Messages, SubmitFails(m) PROVE Path'
  <2>1. QueueDistinct' /\ Queued' = Queued \cup {m} /\ queue' \in Seq(Messages)
    BY <1>13, QueueJoined DEF SubmitFails, LineTypes, OnePlace
  <2>2. LineTypes'
    BY <1>13, <2>1 DEF SubmitFails, LineTypes
  <2>3. OnePlace'
    BY <1>13, <2>1 DEF SubmitFails, LineTypes, OnePlace
  <2>4. OneResponse'
    BY <1>13, <2>1 DEF SubmitFails, LineTypes, OneResponse
  <2>5. NoneLost'
    BY <1>13 DEF SubmitFails, NoneLost
  <2> QED BY <2>1, <2>2, <2>3, <2>4, <2>5
<1>14. ASSUME NEW m \in Messages, RejectStarves(m) PROVE Path'
  BY <1>4, <1>14 DEF RejectStarves
<1>15. CASE Interrupt
  BY <1>4, <1>15 DEF Interrupt
<1>16. ASSUME NEW w \in Workers, NEW raises \in BOOLEAN, HandledStarves(w, raises) PROVE Path'
  <2>1. QueueDistinct' /\ Queued' = Queued
    BY <1>16, QueueKept DEF HandledStarves
  <2>2. LineTypes'
    BY <1>16 DEF HandledStarves, LineTypes
  <2>3. OnePlace'
    BY <1>16, <2>1, QueuedMessages DEF HandledStarves, Through, LineTypes, OnePlace
  <2>4. OneResponse'
    BY <1>16, <2>1 DEF HandledStarves, LineTypes, OnePlace, OneResponse
  <2>5. NoneLost'
    BY <1>16 DEF HandledStarves, NoneLost
  <2> QED BY <2>1, <2>2, <2>3, <2>4, <2>5
<1> QED BY <1>1, <1>2, <1>3, <1>5, <1>6, <1>7, <1>8, <1>10, <1>11, <1>12, <1>13, <1>14, <1>15, <1>16
           DEF Next, MainStep, WorkerStep, Finish, ClientStep

(* A request never gets two responses, on whatever path; and a server that *)
(* ends after end of input, with a client that reads and with the threads  *)
(* it asked for, has answered every line but notifications and the silent  *)
(* methods.                                                                *)
THEOREM AnsweredOnceCorrect == Spec => []AnsweredOnce
<1>1. Init => Path
  <2> SUFFICES ASSUME Init PROVE Path
    OBVIOUS
  <2>1. Queued = {} /\ QueueDistinct
    BY DEF Init, Queued, QueueDistinct
  <2>2. LineTypes
    BY DEF Init, LineTypes
  <2>3. OnePlace
    BY <2>1, ServerAssumption DEF Init, OnePlace, Threads
  <2>4. OneResponse
    BY <2>1 DEF Init, OneResponse, Untouched, Handles
  <2>5. NoneLost
    BY <2>1, ServerAssumption DEF Init, NoneLost, Threads
  <2> QED BY <2>1, <2>2, <2>3, <2>4, <2>5 DEF Path
<1>2. Path => AnsweredOnce
  <2> SUFFICES ASSUME Path PROVE AnsweredOnce
    OBVIOUS
  <2>1. \A m \in Messages : sent[m] =< 1
    BY DEF Path, OneResponse
  <2>2. ASSUME pc[Main] = "exited", ~cut, ~dead, ~starved,
               NEW m \in Messages \ (Notifications \cup Silent)
        PROVE  sent[m] = 1
    <3>1. unsent = {} /\ Queued = {} /\ Busy = {}
      BY <2>2 DEF Path, NoneLost
    <3>2. \A t \in Threads : ~Handles(t, m) /\ ~Awaits(t, m)
      BY <2>2, <3>1 DEF Threads, Busy, Handles, Awaits
    <3> QED BY <2>2, <3>1, <3>2 DEF Path, NoneLost
  <2> QED BY <2>1, <2>2 DEF AnsweredOnce
<1> QED BY <1>1, <1>2, PathStep, PTL DEF Spec

-----------------------------------------------------------------------------
(* The commands: Execute by itself, whose variable pc is `at' and whose    *)
(* workers are the runners here.                                           *)

(* The place of a call and its child: a call that answers has seen its     *)
(* child exit; a child that its kill reached has left nothing but what     *)
(* escaped its group, and that only forks its like.                        *)
ChildPlace ==
    \A r \in Runners :
        /\ at[r] # "idle" => answer[r] = "none" /\ leader[r] # "none"
        /\ answer[r] \in {"done", "timeout"} => leader[r] = "exited" /\ E!Holders(r) = {}
        /\ reached[r] => /\ at[r] \in {"idle", "drain"}
                         /\ leader[r] = "exited"
                         /\ kin[r] \subseteq {"away", "gone"}

LEMMA ForkGrows ==
    ASSUME E!TypeOK, NEW r \in Runners, E!Fork(r)
    PROVE  \E p \in E!AllKinds, k \in E!AllKinds \cap Kinds :
              /\ p \in E!Parents(r) /\ k \in E!Offspring(p)
              /\ kin' = [kin EXCEPT ![r] = kin[r] \cup {k}]
              /\ UNCHANGED <<at, leader, answer, reached>>
<1>1. PICK p \in E!Parents(r) : \E k \in E!Offspring(p) \cap Kinds :
         kin' = [kin EXCEPT ![r] = kin[r] \cup {k}]
  BY DEF E!Fork
<1>2. p \in E!AllKinds /\ Kinds \subseteq E!AllKinds
  BY CallAssumption DEF E!TypeOK, E!Parents, E!AllKinds
<1> QED BY <1>1, <1>2 DEF E!Fork

LEMMA ChildTypes == E!Spec => []E!TypeOK
<1>1. E!Init => E!TypeOK
  BY DEF E!Init, E!TypeOK
<1>2. E!TypeOK /\ [E!Next]_E!vars => E!TypeOK'
  <2> SUFFICES ASSUME E!TypeOK, [E!Next]_E!vars PROVE E!TypeOK'
    OBVIOUS
  <2>1. ASSUME NEW r \in Runners, E!Exit(r) \/ E!Fork(r) \/ E!Vanish(r) PROVE E!TypeOK'
    <3>1. CASE E!Exit(r)
      BY <3>1 DEF E!Exit, E!TypeOK
    <3>2. CASE E!Fork(r)
      BY <3>2, ForkGrows DEF E!TypeOK
    <3>3. CASE E!Vanish(r)
      BY <3>3 DEF E!Vanish, E!TypeOK
    <3> QED BY <2>1, <3>1, <3>2, <3>3
  <2>2. ASSUME NEW r \in Runners, E!Spawn(r) \/ E!SpawnFails(r) PROVE E!TypeOK'
    BY <2>2 DEF E!Spawn, E!SpawnFails, E!TypeOK
  <2>3. ASSUME NEW r \in Runners, E!Handle(r) PROVE E!TypeOK'
    <3>1. CASE E!Communicated(r)
      BY <3>1 DEF E!Communicated, E!Answer, E!TypeOK
    <3>2. CASE E!Timeout(r)
      BY <3>2 DEF E!Timeout, E!TypeOK
    <3>3. CASE E!KillTree(r)
      <4>1. CASE UNCHANGED <<leader, kin, reached>>
        BY <3>3, <4>1 DEF E!KillTree, E!TypeOK
      <4>2. CASE E!Reach(r)
        <5>1. kin[r] \ E!Killed \in SUBSET Kinds
          BY DEF E!TypeOK
        <5> QED BY <3>3, <4>2, <5>1 DEF E!KillTree, E!Reach, E!TypeOK
      <4> QED BY <3>3, <4>1, <4>2 DEF E!KillTree, E!Miss
    <3>4. CASE E!KillRaises(r)
      BY <3>4 DEF E!KillRaises, E!Answer, E!TypeOK
    <3>5. CASE E!Drain(r)
      BY <3>5 DEF E!Drain, E!Answer, E!TypeOK
    <3> QED BY <2>3, <3>1, <3>2, <3>3, <3>4, <3>5 DEF E!Handle
  <2>4. CASE UNCHANGED E!vars
    BY <2>4 DEF E!vars, E!TypeOK
  <2> QED BY <2>1, <2>2, <2>3, <2>4 DEF E!Next
<1> QED BY <1>1, <1>2, PTL DEF E!Spec

LEMMA ChildPlaceStep == E!TypeOK /\ ChildPlace /\ [E!Next]_E!vars => ChildPlace'
<1> SUFFICES ASSUME E!TypeOK, ChildPlace, [E!Next]_E!vars PROVE ChildPlace'
  OBVIOUS
<1> USE DEF E!TypeOK, ChildPlace, E!Holders
<1>1. ASSUME NEW r \in Runners, E!Exit(r) PROVE ChildPlace'
  BY <1>1 DEF E!Exit
<1>2. ASSUME NEW r \in Runners, E!Fork(r) PROVE ChildPlace'
  (* Where nobody has the pipe or is in the group, nobody forks one that   *)
  (* has it or is in it.                                                   *)
  <2>1. PICK p \in E!AllKinds, k \in E!AllKinds \cap Kinds :
           /\ p \in E!Parents(r) /\ k \in E!Offspring(p)
           /\ kin' = [kin EXCEPT ![r] = kin[r] \cup {k}]
           /\ UNCHANGED <<at, leader, answer, reached>>
    BY <1>2, ForkGrows
  <2>2. answer[r] \in {"done", "timeout"} => k \notin {"piped", "away"}
    BY <2>1 DEF E!Parents, E!Offspring, E!AllKinds
  <2>3. reached[r] => k \in {"away", "gone"}
    BY <2>1 DEF E!Parents, E!Offspring, E!AllKinds
  <2> QED BY <2>1, <2>2, <2>3
<1>3. ASSUME NEW r \in Runners, E!Vanish(r) PROVE ChildPlace'
  BY <1>3 DEF E!Vanish
<1>4. ASSUME NEW r \in Runners, E!Spawn(r) PROVE ChildPlace'
  BY <1>4 DEF E!Spawn
<1>5. ASSUME NEW r \in Runners, E!SpawnFails(r) PROVE ChildPlace'
  BY <1>5 DEF E!SpawnFails
<1>6. ASSUME NEW r \in Runners, E!Communicated(r) PROVE ChildPlace'
  BY <1>6 DEF E!Communicated, E!Answer, E!Ended
<1>7. ASSUME NEW r \in Runners, E!Timeout(r) PROVE ChildPlace'
  BY <1>7 DEF E!Timeout, E!TimesOut
<1>8. ASSUME NEW r \in Runners, E!KillTree(r) PROVE ChildPlace'
  <2>1. CASE UNCHANGED <<leader, kin, reached>>
    BY <1>8, <2>1 DEF E!KillTree
  <2>2. CASE E!Reach(r)
    BY <1>8, <2>2, CallAssumption DEF E!KillTree, E!Reach, E!Killed, E!AllKinds
  <2> QED BY <1>8, <2>1, <2>2 DEF E!KillTree, E!Miss
<1>9. ASSUME NEW r \in Runners, E!KillRaises(r) PROVE ChildPlace'
  BY <1>9 DEF E!KillRaises, E!Answer
<1>10. ASSUME NEW r \in Runners, E!Drain(r) PROVE ChildPlace'
  BY <1>10 DEF E!Drain, E!Drained, E!Answer, E!Ended
<1>11. CASE UNCHANGED E!vars
  BY <1>11 DEF E!vars
<1> QED BY <1>1, <1>2, <1>3, <1>4, <1>5, <1>6, <1>7, <1>8, <1>9, <1>10, <1>11
           DEF E!Next, E!Handle

LEMMA ChildPlaceCorrect == E!Spec => []ChildPlace
<1>1. E!Init => ChildPlace
  BY DEF E!Init, ChildPlace, E!Holders
<1> QED BY <1>1, ChildTypes, ChildPlaceStep, PTL DEF E!Spec

-----------------------------------------------------------------------------
(* The commands in the pool. *)

LEMMA RunnerOf == \A w \in Workers, i \in 0 .. MaxConcurrency : <<w, i>> \in Runners
BY DEF Runners

(* The server whose calls are commands implements Execute: a step of the   *)
(* pool is a step of a command, or leaves all children alone.              *)
THEOREM ChildSpec == CallSpec => E!Spec
<1>1. CallInit => E!Init
  BY DEF CallInit
<1>2. [CallNext]_allVars => [E!Next]_E!vars
  <2> SUFFICES ASSUME [CallNext]_allVars PROVE [E!Next]_E!vars
    OBVIOUS
  <2> USE DEF E!vars
  <2>1. ASSUME NEW r \in Runners, ChildSteps(r) PROVE E!Next
    BY <2>1 DEF ChildSteps, E!Next
  <2>2. ASSUME NEW r \in Runners, RunChild(r) \/ WaitForChild(r) PROVE E!Next
    BY <2>2 DEF RunChild, WaitForChild, E!Next
  <2>3. ASSUME NEW w \in Workers, Handling(w) PROVE [E!Next]_E!vars
    <3>1. CASE TakeCall(w) \/ CallHandled(w) \/ BatchHandled(w)
      BY <3>1 DEF TakeCall, CallHandled, CallOver, BatchHandled, childVars
    <3>2. ASSUME NEW i \in BatchThreads, BatchBegin(w, i) \/ BatchCallOver(w, i)
          PROVE  UNCHANGED E!vars
      BY <3>2 DEF BatchBegin, BatchCallOver, CallOver, childVars
    <3>3. ASSUME NEW i \in 0 .. MaxConcurrency, RunChild(<<w, i>>) \/ WaitForChild(<<w, i>>)
          PROVE  E!Next
      BY <2>2, <3>3, RunnerOf
    <3> QED BY <2>3, <3>1, <3>2, <3>3 DEF Handling
  <2>4. ASSUME Elsewhere \/ UNCHANGED allVars PROVE UNCHANGED E!vars
    BY <2>4 DEF Elsewhere, allVars, childVars
  <2> QED BY <2>1, <2>3, <2>4 DEF CallNext
<1> QED BY <1>1, <1>2, PTL DEF CallSpec, E!Spec

(* And it implements StdioServer, whose theorems hence hold of it: only    *)
(* the end of a call is no longer up to the pool.                          *)
THEOREM ServerSpec == CallSpec => Spec
<1>1. CallInit => Init
  BY DEF CallInit
<1>2. [CallNext]_allVars => [Next]_vars
  <2> SUFFICES ASSUME [CallNext]_allVars PROVE [Next]_vars
    OBVIOUS
  <2>1. ASSUME NEW r, ChildSteps(r) \/ RunChild(r) \/ WaitForChild(r)
        PROVE  UNCHANGED vars
    BY <2>1 DEF ChildSteps, RunChild, WaitForChild
  <2>2. ASSUME NEW w \in Workers, TakeCall(w) \/ CallHandled(w) \/ BatchHandled(w)
        PROVE  WorkerStep(w)
    BY <2>2 DEF TakeCall, CallHandled, BatchHandled, WorkerStep
  <2>3. ASSUME NEW w \in Workers, NEW i, BatchBegin(w, i) \/ BatchCallOver(w, i)
        PROVE  WorkerStep(w)
    BY <2>3 DEF BatchBegin, BatchCallOver, WorkerStep
  <2> QED BY <2>1, <2>2, <2>3 DEF CallNext, Handling, Next, allVars
<1> QED BY <1>1, <1>2, PTL DEF CallSpec, Spec

(* Whatever its descendants do, a call that answers with the output of its *)
(* child has seen the child exit and every holder of the pipe go.          *)
THEOREM AnsweredEndedCorrect == CallSpec => []AnsweredEnded
<1>1. ChildPlace => AnsweredEnded
  BY DEF ChildPlace, AnsweredEnded, E!AnsweredEnded, E!Ended
<1> QED BY <1>1, ChildSpec, ChildPlaceCorrect, PTL

(* A timeout that found its child running and killed it has ended the      *)
(* group, and all who held the pipe, by the time it is answered: whatever  *)
(* is left, whenever it was forked, left the group and closed the pipe.    *)
THEOREM TimeoutEndsGroupCorrect == CallSpec => []TimeoutEndsGroup
<1>1. E!TypeOK /\ ChildPlace => TimeoutEndsGroup
  BY DEF E!TypeOK, ChildPlace, TimeoutEndsGroup, E!TimeoutEndsGroup, E!Holders, E!AllKinds
<1> QED BY <1>1, ChildSpec, ChildTypes, ChildPlaceCorrect, PTL

-----------------------------------------------------------------------------
(* The server and the children.  A command is under way only within its    *)
(* call, and a call only within its line: the running calls of a batch are *)
(* those of the threads of its pool.  A child that runs on after its call  *)
(* is one whose kill raised; and a server that has exited has idle workers *)
(* and no line that a thread could take.                                   *)
Active(w) == {i \in BatchThreads : stage[<<w, i>>] # "free"}

Places ==
    /\ stage \in [Runners -> {"free", "called", "child"}]
    /\ pc \in [Threads -> {"idle", "call", "batch", "write", "shutdown", "exited"}]
    /\ running \in [Workers -> Nat]

Lines ==
    \A w \in Workers :
        /\ stage[Own(w)] # "free" => pc[w] = "call"
        /\ running[w] = Cardinality(Active(w))
        /\ running[w] # 0 => pc[w] = "batch"

Commands ==
    \A r \in Runners :
        /\ at[r] # "idle" => stage[r] = "child"
        /\ leader[r] = "running" => at[r] # "idle" \/ answer[r] = "internal"

AllOver == pc[Main] = "exited" => Drained

Inv == Places /\ Lines /\ Commands /\ AllOver

LEMMA ActiveFinite == \A w \in Workers : IsFiniteSet(Active(w))
<1>1. MaxConcurrency \in Nat
  BY ServerAssumption, FS_CardinalityType DEF MaxConcurrency
<1>2. IsFiniteSet(BatchThreads)
  BY <1>1, FS_Interval DEF BatchThreads
<1> QED BY <1>2, FS_Subset DEF Active

LEMMA BatchRunner ==
    /\ \A w \in Workers, i \in BatchThreads : <<w, i>> \in Runners /\ <<w, i>> # Own(w)
    /\ \A w \in Workers : Own(w) \in Runners
    /\ \A r \in Runners : \/ \E w \in Workers : r = Own(w)
                          \/ \E w \in Workers, i \in BatchThreads : r = <<w, i>>
<1>1. MaxConcurrency \in Nat
  BY ServerAssumption, FS_CardinalityType DEF MaxConcurrency
<1> QED BY <1>1 DEF Runners, Own, BatchThreads

(* What leaves the calls alone.                                            *)
LEMMA LinesKept ==
    ASSUME Places, Lines, UNCHANGED <<stage, running>>,
           \A w \in Workers : pc[w] \in {"call", "batch"} => pc'[w] = pc[w]
    PROVE  Lines'
<1>1. \A w \in Workers : Active(w)' = Active(w)
  BY DEF Active
<1> QED BY <1>1 DEF Places, Lines

(* A worker that is through with its line has no call under way.           *)
LEMMA LineOver ==
    ASSUME Places, Lines, NEW w \in Workers,
           \/ pc[w] = "call" /\ stage' = [stage EXCEPT ![Own(w)] = "free"]
           \/ pc[w] = "batch" /\ running[w] = 0 /\ stage' = stage,
           running' = running, \A v \in Workers \ {w} : pc'[v] = pc[v]
    PROVE  Lines'
<1>1. \A v \in Workers : Active(v)' = Active(v)
  BY BatchRunner DEF Active, Places, Own
<1>2. running[w] = 0 /\ stage'[Own(w)] = "free"
  BY BatchRunner DEF Places, Lines
<1>3. \A v \in Workers \ {w} : stage'[Own(v)] = stage[Own(v)]
  BY BatchRunner DEF Places, Own
<1> QED BY <1>1, <1>2, <1>3 DEF Lines

(* The main thread, writers, helpers and the client.                       *)
LEMMA ElsewhereStep ==
    ASSUME Inv, Elsewhere,
           \/ MainStep
           \/ \E t \in Threads : WriteStep(t)
           \/ \E m \in Messages : HelperStep(m)
           \/ ClientStep
    PROVE  Inv'
<1> USE ServerAssumption DEF Threads, poolVars, threadVars, batchVars, outVars
<1>0. Commands' /\ UNCHANGED stage
  BY DEF Inv, Commands, Elsewhere, childVars
<1>1. ASSUME NEW m \in Messages, Accept(m) \/ SubmitFails(m) \/ Reject(m) \/ RejectStarves(m)
      PROVE  Inv'
  <2>1. Places' /\ running' = running
    BY <1>0, <1>1 DEF Inv, Places, Accept, SubmitFails, Reject, RejectStarves, Abort, BeginWrite
  <2>2. \A w \in Workers : pc'[w] = pc[w]
    BY <1>1 DEF Inv, Places, Accept, SubmitFails, Reject, RejectStarves, Abort, BeginWrite
  <2>3. pc'[Main] # "exited"
    BY <1>1 DEF Inv, Places, Accept, SubmitFails, Reject, RejectStarves, Abort, BeginWrite
  <2> QED BY <1>0, <2>1, <2>2, <2>3, LinesKept DEF Inv, AllOver
<1>2. CASE EndOfInput \/ Interrupt
  <2>1. Places' /\ running' = running
    BY <1>0, <1>2 DEF Inv, Places, EndOfInput, Interrupt, Abort
  <2>2. (\A w \in Workers : pc'[w] = pc[w]) /\ pc'[Main] # "exited"
    BY <1>2 DEF Inv, Places, EndOfInput, Interrupt, Abort
  <2> QED BY <1>0, <2>1, <2>2, LinesKept DEF Inv, AllOver
<1>3. CASE Exit
  <2>1. Places' /\ running' = running
    BY <1>0, <1>3 DEF Inv, Places, Exit
  <2>2. (\A w \in Workers : pc'[w] = pc[w]) /\ Drained'
    BY <1>3 DEF Inv, Places, Exit, Drained, Busy
  <2> QED BY <1>0, <2>1, <2>2, LinesKept DEF Inv, AllOver
<1>4. ASSUME NEW t \in Threads, WriteStep(t) PROVE Inv'
  <2>1. /\ pc[t] = "write" /\ pc' = [pc EXCEPT ![t] = "idle"]
        /\ UNCHANGED <<queue, threads, running>>
    BY <1>4 DEF WriteStep, Written, WriteTimeout, EndWrite
  <2>2. Places' /\ \A w \in Workers : pc[w] \in {"call", "batch"} => pc'[w] = pc[w]
    BY <1>0, <2>1 DEF Inv, Places
  <2>3. AllOver'
    BY <2>1 DEF Inv, Places, AllOver, Drained, Busy
  <2> QED BY <1>0, <2>1, <2>2, <2>3, LinesKept DEF Inv
<1>5. ASSUME UNCHANGED <<pc, queue, threads, running>> PROVE Inv'
  <2>1. Places' /\ AllOver'
    BY <1>0, <1>5 DEF Inv, Places, AllOver, Drained, Busy
  <2> QED BY <1>0, <1>5, <2>1, LinesKept DEF Inv
<1>6. ASSUME NEW m \in Messages, HelperStep(m) PROVE Inv'
  BY <1>5, <1>6 DEF HelperStep, Emit, EmitFails
<1>7. CASE Stall \/ Break
  BY <1>5, <1>7 DEF Stall, Break
<1> QED BY <1>1, <1>2, <1>3, <1>4, <1>6, <1>7 DEF MainStep, ClientStep

(* A command: its call goes on, or comes to its end.                       *)
LEMMA ChildStep ==
    ASSUME Inv, E!TypeOK, NEW r \in Runners, RunChild(r) \/ WaitForChild(r) \/ ChildSteps(r)
    PROVE  Inv'
<1> USE DEF E!TypeOK
<1>1. UNCHANGED vars
  BY DEF RunChild, WaitForChild, ChildSteps
<1>2. AllOver' /\ UNCHANGED <<pc, running>>
  BY <1>1 DEF Inv, AllOver, Drained, Busy, vars, poolVars, threadVars, batchVars
<1>3. CASE RunChild(r)
  <2>1. stage[r] = "called" /\ stage' = [stage EXCEPT ![r] = "child"]
    BY <1>3 DEF RunChild
  <2>2. Places'
    BY <1>2, <2>1 DEF Inv, Places
  <2>3. \A w \in Workers : Active(w)' = Active(w) /\ (stage'[Own(w)] # "free" => stage[Own(w)] # "free")
    BY <2>1, BatchRunner DEF Inv, Places, Active
  <2>4. Lines'
    BY <1>2, <2>3 DEF Inv, Lines
  <2>5. Commands'
    BY <1>3, <2>1 DEF Inv, Places, Commands, RunChild, E!Spawn, E!SpawnFails
  <2> QED BY <1>2, <2>2, <2>4, <2>5 DEF Inv
<1>4. CASE WaitForChild(r) \/ ChildSteps(r)
  <2>1. stage' = stage
    BY <1>4 DEF WaitForChild, ChildSteps
  <2>2. Places' /\ Lines'
    BY <1>2, <2>1, LinesKept DEF Inv, Places
  <2>3. CASE ChildSteps(r)
    <3>1. Commands'
      BY <2>1, <2>3 DEF Inv, Commands, ChildSteps, E!Exit, E!Fork, E!Vanish
    <3> QED BY <1>2, <2>2, <3>1 DEF Inv
  <2>4. CASE WaitForChild(r)
    <3> USE <2>1, <2>4 DEF Inv, Commands, WaitForChild, E!Answer, E!Ended
    <3>1. CASE E!Communicated(r)
      BY <1>2, <2>2, <3>1 DEF E!Communicated
    <3>2. CASE E!Timeout(r)
      BY <1>2, <2>2, <3>2 DEF E!Timeout, E!TimesOut
    <3>3. CASE E!KillTree(r)
      BY <1>2, <2>2, <3>3 DEF E!KillTree, E!Reach, E!Miss
    <3>4. CASE E!KillRaises(r)
      BY <1>2, <2>2, <3>4 DEF E!KillRaises
    <3>5. CASE E!Drain(r)
      BY <1>2, <2>2, <3>5 DEF E!Drain, E!Drained
    <3> QED BY <3>1, <3>2, <3>3, <3>4, <3>5 DEF E!Handle
  <2> QED BY <1>4, <2>3, <2>4
<1> QED BY <1>3, <1>4

(* The end of a call that a runner had taken up.                           *)
LEMMA CallOverCommands ==
    ASSUME Places, Commands, NEW r \in Runners, CallOver(r)
    PROVE  Commands' /\ stage[r] # "free" /\ stage' = [stage EXCEPT ![r] = "free"] /\ at[r] = "idle"
BY DEF Places, Commands, CallOver, Returned, childVars

LEMMA HandlingStep ==
    ASSUME Inv, E!TypeOK, NEW w \in Workers, Handling(w)
    PROVE  Inv'
<1> USE ServerAssumption, BatchRunner DEF Threads, poolVars, threadVars, batchVars, outVars
<1>1. CASE TakeCall(w)
  <2>1. /\ w \in threads /\ queue # <<>> /\ pc[w] = "idle"
        /\ UNCHANGED <<running, childVars>>
    BY <1>1 DEF TakeCall, Take
  <2>2. PICK h \in {TRUE, FALSE} :
           /\ stage' = [stage EXCEPT ![Own(w)] = IF h THEN "free" ELSE "called"]
           /\ pc' = [pc EXCEPT ![w] = IF h THEN "batch" ELSE "call"]
    <3>1. CASE Head(queue) \in Batches
      BY <1>1, <3>1 DEF TakeCall, Take
    <3>2. CASE Head(queue) \notin Batches
      BY <1>1, <3>2 DEF TakeCall, Take
    <3> QED BY <3>1, <3>2
  <2>3. stage[Own(w)] = "free" /\ running[w] = 0
    BY <2>1 DEF Inv, Lines
  <2>4. Places'
    BY <2>1, <2>2 DEF Inv, Places
  <2>5. \A v \in Workers : Active(v)' = Active(v)
    BY <2>2 DEF Inv, Places, Active, Own
  <2>6. \A v \in Workers \ {w} : stage'[Own(v)] = stage[Own(v)] /\ pc'[v] = pc[v]
    BY <2>2 DEF Inv, Places, Own
  <2>7. Lines'
    <3>1. /\ stage'[Own(w)] # "free" => pc'[w] = "call"
          /\ running'[w] = Cardinality(Active(w)') /\ running'[w] = 0
      BY <2>1, <2>2, <2>3, <2>5 DEF Inv, Places, Lines
    <3> QED BY <2>1, <2>5, <2>6, <3>1 DEF Inv, Lines
  <2>8. Commands'
    BY <2>1, <2>2, <2>3 DEF Inv, Places, Commands, childVars
  <2>9. AllOver'
    BY <2>1, <2>2 DEF Inv, Places, AllOver, Drained
  <2> QED BY <2>4, <2>7, <2>8, <2>9 DEF Inv
<1>2. ASSUME NEW raises \in BOOLEAN, Finish(w, raises)
      PROVE  /\ Through(w) /\ UNCHANGED <<running, queue, threads>>
             /\ \E s \in {"write", "idle"} : pc' = [pc EXCEPT ![w] = s]
  BY <1>2 DEF Finish, Handled, HandledStarves, BeginWrite, EndWrite
<1>3. CASE CallHandled(w)
  <2>1. /\ Through(w) /\ UNCHANGED <<running, queue, threads>>
        /\ \E s \in {"write", "idle"} : pc' = [pc EXCEPT ![w] = s]
    BY <1>2, <1>3 DEF CallHandled
  <2>2. Commands' /\ stage[Own(w)] # "free" /\ stage' = [stage EXCEPT ![Own(w)] = "free"]
    BY <1>3, CallOverCommands DEF CallHandled, Inv
  <2>3. pc[w] = "call"
    BY <2>2 DEF Inv, Lines
  <2>4. Places' /\ AllOver'
    BY <2>1, <2>2, <2>3 DEF Inv, Places, AllOver, Drained, Busy
  <2>5. Lines'
    BY <2>1, <2>2, <2>3, LineOver DEF Inv, Places
  <2> QED BY <2>2, <2>4, <2>5 DEF Inv
<1>4. CASE BatchHandled(w)
  <2>1. /\ Through(w) /\ UNCHANGED <<running, queue, threads>>
        /\ \E s \in {"write", "idle"} : pc' = [pc EXCEPT ![w] = s]
    BY <1>2, <1>4 DEF BatchHandled
  <2>2. pc[w] = "batch" /\ UNCHANGED <<stage, childVars>>
    BY <1>4 DEF BatchHandled
  <2>3. Places' /\ AllOver'
    BY <2>1, <2>2 DEF Inv, Places, AllOver, Drained, Busy
  <2>4. Lines'
    BY <2>1, <2>2, LineOver DEF Inv, Places, Through
  <2>5. Commands'
    BY <2>2 DEF Inv, Commands, childVars
  <2> QED BY <2>3, <2>4, <2>5 DEF Inv
<1>5. ASSUME NEW i \in BatchThreads, BatchBegin(w, i) PROVE Inv'
  <2>1. /\ stage[<<w, i>>] = "free" /\ stage' = [stage EXCEPT ![<<w, i>>] = "called"]
        /\ pc[w] = "batch" /\ running' = [running EXCEPT ![w] = running[w] + 1]
        /\ UNCHANGED <<pc, queue, threads, childVars>>
    BY <1>5 DEF BatchBegin, BeginCall
  <2>2. i \notin Active(w) /\ Active(w)' = Active(w) \cup {i}
    BY <2>1 DEF Inv, Places, Active
  <2>3. Cardinality(Active(w)') = Cardinality(Active(w)) + 1
    BY <2>2, ActiveFinite, FS_AddElement
  <2>4. \A v \in Workers \ {w} : Active(v)' = Active(v)
    BY <2>1 DEF Inv, Places, Active
  <2>5. \A v \in Workers : stage'[Own(v)] = stage[Own(v)]
    BY <2>1 DEF Inv, Places, Own
  <2>6. Places' /\ AllOver'
    BY <2>1 DEF Inv, Places, AllOver, Drained, Busy
  <2>7. Lines'
    BY <2>1, <2>3, <2>4, <2>5 DEF Inv, Places, Lines
  <2>8. Commands'
    BY <2>1 DEF Inv, Places, Commands, childVars
  <2> QED BY <2>6, <2>7, <2>8 DEF Inv
<1>6. ASSUME NEW i \in BatchThreads, BatchCallOver(w, i) PROVE Inv'
  <2>1. /\ running[w] > 0 /\ running' = [running EXCEPT ![w] = running[w] - 1]
        /\ UNCHANGED <<pc, queue, threads>>
    BY <1>6 DEF BatchCallOver, EndCall
  <2>2. Commands' /\ stage[<<w, i>>] # "free" /\ stage' = [stage EXCEPT ![<<w, i>>] = "free"]
    BY <1>6, CallOverCommands DEF BatchCallOver, Inv
  <2>3. i \in Active(w) /\ Active(w)' = Active(w) \ {i}
    BY <2>2 DEF Inv, Places, Active
  <2>4. Cardinality(Active(w)') = Cardinality(Active(w)) - 1
    BY <2>3, ActiveFinite, FS_RemoveElement
  <2>5. \A v \in Workers \ {w} : Active(v)' = Active(v)
    BY <2>2 DEF Inv, Places, Active
  <2>6. \A v \in Workers : stage'[Own(v)] = stage[Own(v)]
    BY <2>2 DEF Inv, Places, Own
  <2>7. Places' /\ AllOver'
    BY <2>1, <2>2 DEF Inv, Places, AllOver, Drained, Busy
  <2>8. Lines'
    BY <2>1, <2>4, <2>5, <2>6 DEF Inv, Places, Lines
  <2> QED BY <2>2, <2>7, <2>8 DEF Inv
<1>7. ASSUME NEW i \in 0 .. MaxConcurrency, RunChild(<<w, i>>) \/ WaitForChild(<<w, i>>) PROVE Inv'
  BY <1>7, ChildStep, RunnerOf
<1> QED BY <1>1, <1>3, <1>4, <1>5, <1>6, <1>7 DEF Handling

(* When the server has ended, after end of input or an interrupt, no       *)
(* command is running but one whose kill raised, neither of a line nor of  *)
(* a batch.                                                                *)
THEOREM ExitLeavesNoChildCorrect == CallSpec => []ExitLeavesNoChild
<1>1. CallSpec => []E!TypeOK
  BY ChildSpec, ChildTypes, PTL
<1>2. CallInit => Inv
  <2> SUFFICES ASSUME CallInit PROVE Inv
    OBVIOUS
  <2>1. Places /\ Commands /\ AllOver
    BY ServerAssumption DEF CallInit, Init, E!Init, Places, Commands, AllOver, Threads
  <2>2. \A w \in Workers : Active(w) = {}
    BY BatchRunner DEF CallInit, Active
  <2>3. Lines
    BY <2>2, BatchRunner, FS_EmptySet DEF CallInit, Init, Lines
  <2> QED BY <2>1, <2>3 DEF Inv
<1>3. Inv /\ E!TypeOK /\ E!TypeOK' /\ [CallNext]_allVars => Inv'
  <2> SUFFICES ASSUME Inv, E!TypeOK, [CallNext]_allVars PROVE Inv'
    OBVIOUS
  <2>1. CASE UNCHANGED allVars
    <3>1. \A w \in Workers : Active(w)' = Active(w)
      BY <2>1 DEF Active, allVars
    <3> QED BY <2>1, <3>1 DEF Inv, Places, Lines, Commands, AllOver, Drained, Busy, allVars,
                              childVars, vars, poolVars, threadVars, batchVars
  <2> QED BY <2>1, ElsewhereStep, HandlingStep, ChildStep DEF CallNext
<1>4. Inv => ExitLeavesNoChild
  <2> SUFFICES ASSUME Inv, pc[Main] = "exited", NEW r \in Runners, leader[r] = "running"
               PROVE  answer[r] = "internal"
    BY DEF ExitLeavesNoChild
  <2>1. \A w \in Workers : pc[w] = "idle"
    BY DEF Inv, AllOver, Drained, Busy
  <2>2. \A w \in Workers : stage[Own(w)] = "free" /\ Active(w) = {}
    BY <2>1, ActiveFinite, FS_EmptySet DEF Inv, Lines
  <2>3. stage[r] = "free"
    BY <2>2, BatchRunner DEF Active
  <2> QED BY <2>3 DEF Inv, Commands
<1> QED BY <1>1, <1>2, <1>3, <1>4, PTL DEF CallSpec
=============================================================================
