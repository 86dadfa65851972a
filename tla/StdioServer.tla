------------------------------- MODULE StdioServer -------------------------------
(***************************************************************************)
(* The JSON-RPC loop of agent_runtime/server.py: Server.run_stdio.  The    *)
(* main thread reads lines from stdin, bounds the backlog and hands them   *)
(* to a pool; pool threads handle them and write the responses, each on a  *)
(* helper thread that is given up after a timeout; a batch runs its calls  *)
(* on a pool of its own.  At end of input the pool is drained.             *)
(*                                                                         *)
(* A message is one line of input.  What a tool does is left out: a call   *)
(* ends, with a result or a fault.  The system may refuse to start a       *)
(* thread: of the pool, of a batch's pool, or a helper of a write.         *)
(***************************************************************************)
EXTENDS Integers, Sequences, FiniteSets

CONSTANTS
    Messages,       \* the lines a client sends
    Notifications,  \* those without an id
    Batches,        \* those that call the batch tool
    Silent,         \* those whose method is initialized or notifications/...,
                    \*   with an id or without
    BatchSize,      \* the most calls in a batch
    Workers,        \* the pool threads, max_concurrency of them
    Main,           \* the main thread
    MaxPending,     \* MAX_PENDING_REQUESTS
    Client,         \* what the client may do: "stall", "break", "interrupt"
    Starves,        \* TRUE if the system may refuse to start a thread
    None            \* no message

Threads == Workers \cup {Main}
MaxConcurrency == Cardinality(Workers)

ASSUME ServerAssumption ==
    /\ IsFiniteSet(Messages) /\ None \notin Messages
    /\ Notifications \subseteq Messages /\ Batches \subseteq Messages
    /\ Silent \subseteq Messages /\ Silent \cap Batches = {}
    /\ BatchSize \in 1 .. 16
    /\ IsFiniteSet(Workers) /\ Workers # {} /\ Main \notin Workers
    /\ MaxPending \in Nat \ {0}
    /\ Client \subseteq {"stall", "break", "interrupt"}
    /\ Starves \in BOOLEAN

VARIABLES
    unsent,     \* the lines the client has yet to send
    pipe,       \* stdout: flows, stalled (the client does not read), broken
    queue,      \* the pool's work queue
    pending,    \* run_stdio's count of requests not yet answered
    threads,    \* the pool threads that have been started
    starved,    \* (history) TRUE once run_stdio got no thread
    pc,         \* thread -> idle, call, batch, write; main also shutdown, exited
    job,        \* thread -> the message it works on
    waiting,    \* worker -> the calls of its batch that have not begun
    running,    \* worker -> the calls of its batch that run
    helpers,    \* the messages whose response a helper thread has yet to write
    failed,     \* the messages whose helper thread met an error
    dead,       \* stdout_dead
    sent,       \* message -> the responses written for it
    cut         \* TRUE after an interrupt

threadVars == <<threads, starved>>
poolVars  == <<queue, pending, threadVars>>
batchVars == <<waiting, running>>
outVars   == <<helpers, failed, dead, sent>>
vars == <<unsent, pipe, poolVars, pc, job, batchVars, outVars, cut>>

Busy == {w \in Workers : pc[w] # "idle"}

TypeOK ==
    /\ unsent \subseteq Messages
    /\ pipe \in {"flows", "stalled", "broken"}
    /\ queue \in Seq(Messages)
    /\ pending \in Int
    /\ threads \subseteq Workers /\ starved \in BOOLEAN
    /\ pc \in [Threads -> {"idle", "call", "batch", "write", "shutdown", "exited"}]
    /\ job \in [Threads -> Messages \cup {None}]
    /\ waiting \in [Workers -> 0 .. BatchSize]
    /\ running \in [Workers -> 0 .. MaxConcurrency]
    /\ helpers \subseteq Messages /\ failed \subseteq Messages
    /\ dead \in BOOLEAN /\ cut \in BOOLEAN
    /\ sent \in [Messages -> Nat]

Init ==
    /\ unsent = Messages
    /\ pipe = "flows"
    /\ queue = <<>> /\ pending = 0
    /\ threads = {} /\ starved = FALSE
    /\ pc = [t \in Threads |-> "idle"]
    /\ job = [t \in Threads |-> None]
    /\ waiting = [w \in Workers |-> 0]
    /\ running = [w \in Workers |-> 0]
    /\ helpers = {} /\ failed = {}
    /\ dead = FALSE
    /\ sent = [m \in Messages |-> 0]
    /\ cut = FALSE

-----------------------------------------------------------------------------
(* _write: nothing once stdout is dead, else a helper thread, which the    *)
(* caller waits for.                                                       *)
BeginWrite(t, m) ==
    /\ job' = [job EXCEPT ![t] = m]
    /\ pc' = [pc EXCEPT ![t] = "write"]
    /\ helpers' = IF dead THEN helpers ELSE helpers \cup {m}
    /\ UNCHANGED <<failed, dead, sent>>

(* The caller goes on: a worker counts its request down. *)
EndWrite(t) ==
    /\ pc' = [pc EXCEPT ![t] = "idle"]
    /\ job' = [job EXCEPT ![t] = None]
    /\ pending' = IF t = Main THEN pending ELSE pending - 1

(* The helper has written, or met an error; or there was none to wait for. *)
Written(t) ==
    /\ pc[t] = "write" /\ job[t] \notin helpers
    /\ dead' = (dead \/ job[t] \in failed)
    /\ EndWrite(t)
    /\ UNCHANGED <<unsent, pipe, queue, threadVars, batchVars, helpers, failed, sent, cut>>

(* STDOUT_WRITE_TIMEOUT_SECONDS have passed; the helper is left behind. *)
WriteTimeout(t) ==
    /\ pc[t] = "write" /\ job[t] \in helpers /\ pipe = "stalled"
    /\ dead' = TRUE
    /\ EndWrite(t)
    /\ UNCHANGED <<unsent, pipe, queue, threadVars, batchVars, helpers, failed, sent, cut>>

Emit(m) ==
    /\ m \in helpers /\ pipe = "flows"
    /\ sent' = [sent EXCEPT ![m] = @ + 1]
    /\ helpers' = helpers \ {m}
    /\ UNCHANGED <<unsent, pipe, poolVars, pc, job, batchVars, failed, dead, cut>>

EmitFails(m) ==
    /\ m \in helpers /\ pipe = "broken"
    /\ failed' = failed \cup {m}
    /\ helpers' = helpers \ {m}
    /\ UNCHANGED <<unsent, pipe, poolVars, pc, job, batchVars, dead, sent, cut>>

-----------------------------------------------------------------------------
(* The main thread: _submit. *)

OverloadedMutant == pending + 1 > MaxPending + 1
Overloaded == pending + 1 > MaxPending

(* submit: the line is queued, and a thread started if there are fewer      *)
(* than max_concurrency and none is idle.                                   *)
Accept(m) ==
    /\ pc[Main] = "idle" /\ m \in unsent /\ ~Overloaded
    /\ unsent' = unsent \ {m}
    /\ pending' = pending + 1
    /\ queue' = Append(queue, m)
    /\ threads' \in {threads \cup {w} : w \in Workers}
    /\ UNCHANGED <<starved, pipe, pc, job, batchVars, outVars, cut>>

(* The thread cannot be started: submit raises, and pending goes down       *)
(* again, but the line has been queued all the same.                        *)
SubmitFails(m) ==
    /\ Starves /\ threads # Workers
    /\ pc[Main] = "idle" /\ m \in unsent /\ ~Overloaded
    /\ unsent' = unsent \ {m}
    /\ queue' = Append(queue, m)
    /\ starved' = TRUE
    /\ UNCHANGED <<pending, threads, pipe, pc, job, batchVars, outVars, cut>>

(* Too much is pending: an error at once, nothing for a notification. *)
Reject(m) ==
    /\ pc[Main] = "idle" /\ m \in unsent /\ Overloaded
    /\ unsent' = unsent \ {m}
    /\ IF m \in Notifications
       THEN UNCHANGED <<pc, job, outVars>>
       ELSE BeginWrite(Main, m)
    /\ UNCHANGED <<pipe, poolVars, batchVars, cut>>

(* The main thread leaves the loop by an exception: what is queued is       *)
(* cancelled.                                                               *)
Abort ==
    /\ pc' = [pc EXCEPT ![Main] = "shutdown"]
    /\ queue' = <<>>
    /\ cut' = TRUE

(* That error gets no helper thread: _write raises in the main thread.      *)
RejectStarves(m) ==
    /\ Starves /\ ~dead
    /\ pc[Main] = "idle" /\ m \in unsent \ Notifications /\ Overloaded
    /\ unsent' = unsent \ {m}
    /\ Abort
    /\ starved' = TRUE
    /\ UNCHANGED <<pending, threads, pipe, job, batchVars, outVars>>

EndOfInput ==
    /\ pc[Main] = "idle" /\ unsent = {}
    /\ pc' = [pc EXCEPT ![Main] = "shutdown"]
    /\ UNCHANGED <<unsent, pipe, poolVars, job, batchVars, outVars, cut>>

(* Ctrl+C. *)
Interrupt ==
    /\ "interrupt" \in Client
    /\ pc[Main] \in {"idle", "write"}
    /\ Abort
    /\ UNCHANGED <<unsent, pipe, pending, threadVars, job, batchVars, outVars>>

(* shutdown(wait=True), or the interpreter's own wait for pool threads: for *)
(* those there are.                                                         *)
DrainedMutant == queue = <<>> \/ threads = {}
Drained == (queue = <<>> \/ threads = {}) /\ Busy = {}

Exit ==
    /\ pc[Main] = "shutdown" /\ Drained
    /\ pc' = [pc EXCEPT ![Main] = "exited"]
    /\ UNCHANGED <<unsent, pipe, poolVars, job, batchVars, outVars, cut>>

-----------------------------------------------------------------------------
(* Pool threads: _handle. *)

(* A batch submits its calls: none when it is refused, some when the system *)
(* refuses a thread of its pool.                                            *)
Take(w) ==
    /\ w \in threads /\ pc[w] = "idle" /\ queue # <<>>
    /\ queue' = Tail(queue)
    /\ job' = [job EXCEPT ![w] = Head(queue)]
    /\ IF Head(queue) \in Batches
       THEN /\ pc' = [pc EXCEPT ![w] = "batch"]
            /\ \E calls \in 0 .. BatchSize : waiting' = [waiting EXCEPT ![w] = calls]
       ELSE pc' = [pc EXCEPT ![w] = "call"] /\ UNCHANGED waiting
    /\ UNCHANGED <<unsent, pipe, pending, threadVars, running, outVars, cut>>

(* handle returns or raises.  A notification that raises is answered too;   *)
(* the silent methods return before anything looks at the id.               *)
Answers(m, raises) == m \notin Silent /\ (m \notin Notifications \/ raises)

(* handle is through with the line. *)
Through(w) ==
    \/ pc[w] = "call"
    \/ pc[w] = "batch" /\ waiting[w] = 0 /\ running[w] = 0

Handled(w, raises) ==
    /\ Through(w)
    /\ IF Answers(job[w], raises)
       THEN BeginWrite(w, job[w]) /\ UNCHANGED pending
       ELSE EndWrite(w) /\ UNCHANGED outVars
    /\ UNCHANGED <<unsent, pipe, queue, threadVars, batchVars, cut>>

(* The response gets no helper thread: _write raises, and the exception     *)
(* passes by the line that counts the request down.                         *)
HandledStarves(w, raises) ==
    /\ Starves /\ ~dead
    /\ Through(w) /\ Answers(job[w], raises)
    /\ pc' = [pc EXCEPT ![w] = "idle"]
    /\ job' = [job EXCEPT ![w] = None]
    /\ starved' = TRUE
    /\ UNCHANGED <<unsent, pipe, queue, pending, threads, batchVars, outVars, cut>>

(* batch: a pool of min(calls, max_concurrency) threads of its own. *)
FreshThreadMutant(w) == \E v \in Workers : pc[v] = "idle"    \* the shared pool
FreshThread(w) == running[w] < MaxConcurrency

BeginCall(w) ==
    /\ pc[w] = "batch" /\ waiting[w] > 0 /\ FreshThread(w)
    /\ waiting' = [waiting EXCEPT ![w] = @ - 1]
    /\ running' = [running EXCEPT ![w] = @ + 1]
    /\ UNCHANGED <<unsent, pipe, poolVars, pc, job, outVars, cut>>

EndCall(w) ==
    /\ running[w] > 0
    /\ running' = [running EXCEPT ![w] = @ - 1]
    /\ UNCHANGED <<unsent, pipe, poolVars, pc, job, waiting, outVars, cut>>

-----------------------------------------------------------------------------
(* The client's end of stdout. *)
Stall ==
    /\ "stall" \in Client
    /\ pipe' = CASE pipe = "flows" -> "stalled" [] pipe = "stalled" -> "flows" [] OTHER -> pipe
    /\ UNCHANGED <<unsent, poolVars, pc, job, batchVars, outVars, cut>>

Break ==
    /\ "break" \in Client
    /\ pipe' = "broken"
    /\ UNCHANGED <<unsent, poolVars, pc, job, batchVars, outVars, cut>>

-----------------------------------------------------------------------------
MainStep ==
    \/ EndOfInput \/ Exit
    \/ \E m \in Messages : Accept(m) \/ SubmitFails(m) \/ Reject(m) \/ RejectStarves(m)

Finish(w, raises) == Handled(w, raises) \/ HandledStarves(w, raises)

WorkerStep(w) == Take(w) \/ BeginCall(w) \/ EndCall(w) \/ \E raises \in BOOLEAN : Finish(w, raises)

WriteStep(t) == Written(t) \/ WriteTimeout(t)

(* Helper threads are daemons: they end with the main thread. *)
HelperStep(m) == pc[Main] # "exited" /\ (Emit(m) \/ EmitFails(m))

ClientStep == Stall \/ Break \/ Interrupt

Next ==
    \/ MainStep
    \/ \E w \in Workers : WorkerStep(w)
    \/ \E t \in Threads : WriteStep(t)
    \/ \E m \in Messages : HelperStep(m)
    \/ ClientStep

Spec == Init /\ [][Next]_vars

(* Threads are scheduled, calls end, and the client sends all it has and    *)
(* closes its end.  A helper writes if the pipe flows again and again.      *)
FairSpec ==
    /\ Spec
    /\ WF_vars(MainStep)
    /\ \A w \in Workers : WF_vars(WorkerStep(w))
    /\ \A t \in Threads : WF_vars(WriteStep(t))
    /\ \A m \in Messages : SF_vars(HelperStep(m))

-----------------------------------------------------------------------------
(* The count that bounds the backlog is exact, so neither a flood gets past *)
(* it nor does it leak until every request is refused: as long as run_stdio *)
(* gets the threads it asks for (see README).                               *)
PendingExact ==
    ~starved => /\ ~cut => pending = Len(queue) + Cardinality(Busy)
                /\ Len(queue) + Cardinality(Busy) =< MaxPending

(* A request never gets two responses, and a server that ends after end of  *)
(* input, with a client that reads and a system that has threads, has       *)
(* answered every line but notifications and the silent methods.            *)
AnsweredOnce ==
    /\ \A m \in Messages : sent[m] =< 1
    /\ pc[Main] = "exited" /\ ~cut /\ ~dead /\ ~starved
          => \A m \in Messages \ (Notifications \cup Silent) : sent[m] = 1

(* However the client treats stdout, whatever batches keep the pool busy    *)
(* and whatever threads there are, the server ends once it has read all its *)
(* input.                                                                   *)
ServerEnds == <>(pc[Main] = "exited")
=============================================================================
