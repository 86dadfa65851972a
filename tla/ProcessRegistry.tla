---------------------------- MODULE ProcessRegistry ----------------------------
(***************************************************************************)
(* The process registry of agent_runtime/processes.py: ProcessManager.     *)
(* Worker threads run the start, stop, restart and list calls of the       *)
(* `process' tool concurrently; `items' maps a process id to the child it  *)
(* names; the children are operating system processes that exit when they  *)
(* like.  An action is one region of a handler that no other thread can    *)
(* interrupt: a block under ProcessManager.lock, one system call, or one   *)
(* read of the dictionary.  At end of input the main thread runs cleanup.  *)
(*                                                                         *)
(* Left out: the command, working directory and environment of a child     *)
(* (the checks on them that fail a start are its "error" outcome), and the *)
(* output and stdin of a child (other modules).  A definition whose name   *)
(* ends in Mutant is a wrong variant of the one below it: the README says  *)
(* which property tells the two apart.                                     *)
(***************************************************************************)
EXTENDS Integers, FiniteSets

CONSTANTS
    Ids,            \* the process ids that calls name
    Workers,        \* the pool threads that run tool calls
    Main,           \* the main thread, which runs cleanup at exit
    Ops,            \* the operations the clients use
    MaxProcesses,   \* cfg.max_processes
    MaxSpawns,      \* bound: the children ever spawned
    Windows,        \* os.name == "nt": taskkill does the killing
    KillChildrenOnExit,     \* cfg.kill_children_on_exit
    None            \* no child, no id

Children == 1 .. MaxSpawns      \* numbered in the order of Managed.started
Threads  == Workers \cup {Main}

ASSUME RegistryAssumption ==
    /\ IsFiniteSet(Ids) /\ None \notin Ids
    /\ IsFiniteSet(Workers) /\ Workers # {} /\ Main \notin Workers
    /\ Ops \subseteq {"start", "stop", "restart", "list"}
    /\ MaxProcesses \in Nat \ {0}
    /\ MaxSpawns \in Nat
    /\ None \notin Children
    /\ Windows \in BOOLEAN /\ KillChildrenOnExit \in BOOLEAN

VARIABLES
    leader,     \* child -> unborn, running, killed (SIGKILL sent) or exited
    tree,       \* child -> TRUE while a descendant in its process group lives
    aged,       \* the children started at least process_ttl_seconds ago
    spared,     \* (history) the children that the last forced taskkill on them
                \*   failed to end
    items,      \* ProcessManager.items: id -> child or None
    pc,         \* thread -> the step its handler takes next
    op,         \* thread -> the operation it runs, or ran last
    arg,        \* thread -> its process_id argument
    force,      \* thread -> its force argument
    got,        \* thread -> the child its last _get or spawn gave it
    keys,       \* thread -> the ids that list or cleanup have still to visit
    reply       \* thread -> how its last operation ended

osVars   == <<leader, tree, aged, spared>>
callVars == <<op, arg, force>>
vars == <<osVars, items, pc, callVars, got, keys, reply>>

Faults == {"process_limit", "process_exists", "process_not_found", "error"}

Steps == {"idle", "gc", "spawn", "recall", "get", "signal", "wait", "kill",
          "rewait", "stopped", "pop", "status", "keys", "visit", "cleanup",
          "exited"}

TypeOK ==
    /\ leader \in [Children -> {"unborn", "running", "killed", "exited"}]
    /\ tree \in [Children -> BOOLEAN]
    /\ aged \in SUBSET Children
    /\ spared \in SUBSET Children
    /\ items \in [Ids -> Children \cup {None}]
    /\ pc \in [Threads -> Steps]
    /\ op \in [Threads -> {"start", "stop", "restart", "list", "none"}]
    /\ arg \in [Threads -> Ids \cup {None}]
    /\ force \in [Threads -> BOOLEAN]
    /\ got \in [Threads -> Children \cup {None}]
    /\ keys \in [Threads -> SUBSET Ids]
    /\ reply \in [Threads -> Faults \cup {"none", "ok"}]

(* What Popen.poll() answers: None, hence TRUE here, until the leader has exited. *)
Alive(c) == leader[c] \in {"running", "killed"}

Registered == {i \in Ids : items[i] # None}
LiveIds    == {i \in Registered : Alive(items[i])}
Active     == Cardinality(LiveIds)

Init ==
    /\ leader = [c \in Children |-> "unborn"]
    /\ tree = [c \in Children |-> FALSE]
    /\ aged = {} /\ spared = {}
    /\ items = [i \in Ids |-> None]
    /\ pc = [t \in Threads |-> "idle"]
    /\ op = [t \in Threads |-> "none"]
    /\ arg = [t \in Threads |-> None]
    /\ force = [t \in Threads |-> FALSE]
    /\ got = [t \in Threads |-> None]
    /\ keys = [t \in Threads |-> {}]
    /\ reply = [t \in Threads |-> "none"]

-----------------------------------------------------------------------------
(* Control of a handler. *)

Goto(t, step) ==
    /\ pc' = [pc EXCEPT ![t] = step]
    /\ UNCHANGED reply

(* The handler returns or raises; cleanup swallows what stop raises and goes on. *)
Return(t, outcome) ==
    /\ pc' = [pc EXCEPT ![t] = IF t = Main THEN "cleanup" ELSE "idle"]
    /\ reply' = [reply EXCEPT ![t] = outcome]

FirstStep(o) ==
    CASE o = "stop"    -> "get"
      [] o = "restart" -> "recall"
      [] OTHER         -> "gc"

(* A worker takes a call from the pool.  A start without a process_id is a *)
(* start with an id that no other call names.                              *)
Call(t, o, i, f) ==
    /\ pc[t] = "idle" /\ pc[Main] = "idle"
    /\ o = "restart" => f                  \* its stop is a forced one
    /\ o \in {"start", "list"} => ~f
    /\ (i = None) <=> (o = "list")
    /\ op' = [op EXCEPT ![t] = o]
    /\ arg' = [arg EXCEPT ![t] = i]
    /\ force' = [force EXCEPT ![t] = f]
    /\ got' = [got EXCEPT ![t] = None]
    /\ reply' = [reply EXCEPT ![t] = "none"]
    /\ pc' = [pc EXCEPT ![t] = FirstStep(o)]
    /\ UNCHANGED <<osVars, items, keys>>

-----------------------------------------------------------------------------
(* _gc: drop the exited entries that outlived the ttl, then, above         *)
(* max_processes, the oldest exited ones, and count the live ones.  One    *)
(* step: it holds the lock throughout.  It polls the children three times, *)
(* and no lock keeps them from exiting: the dying are those that were      *)
(* still alive when it chose whom to drop and are not when it counts.      *)
(* (One that exits between the first two polls counts as exited before or  *)
(* after the choice, with the same result.)                                *)

KeptMutant == {i \in Registered : items[i] \notin aged}
Kept == {i \in Registered : Alive(items[i]) \/ items[i] \notin aged}

ExcessMutant == Cardinality(Kept) - MaxProcesses - 1
Excess == Cardinality(Kept) - MaxProcesses

OlderExitedMutant(i) == {j \in Kept : ~Alive(items[j]) /\ items[j] > items[i]}
OlderExited(i) == {j \in Kept : ~Alive(items[j]) /\ items[j] < items[i]}

Evicted == {i \in Kept : ~Alive(items[i]) /\ Cardinality(OlderExited(i)) < Excess}

Survivors == Kept \ Evicted

LimitReachedMutant(active) == active > MaxProcesses
LimitReached(active) == active >= MaxProcesses

(* start refuses the directory or the command, before it counts anything. *)
StartRefused(t) ==
    /\ pc[t] = "gc" /\ op[t] # "list"
    /\ Return(t, "error")
    /\ UNCHANGED <<osVars, items, callVars, got, keys>>

Gc(t, dying) ==
    /\ pc[t] = "gc"
    /\ dying \subseteq {items[i] : i \in LiveIds}
    /\ items' = [i \in Ids |-> IF i \in Survivors THEN items[i] ELSE None]
    /\ leader' = [c \in Children |-> IF c \in dying THEN "exited" ELSE leader[c]]
    /\ UNCHANGED <<tree, aged, spared, callVars, got, keys>>
    /\ IF op[t] = "list"
       THEN Goto(t, "keys")
       ELSE IF LimitReached(Active')
            THEN Return(t, "process_limit")
            ELSE Goto(t, "spawn")

-----------------------------------------------------------------------------
(* start, after _gc: the block under the lock that checks the id, spawns   *)
(* the child, has the job object adopt it and registers it.  A spawned     *)
(* child may have descendants.                                             *)

Unborn == {c \in Children : leader[c] = "unborn"}

FreeMutant(t) == TRUE
Free(t) == arg[t] \notin LiveIds

SpawnExists(t) ==
    /\ pc[t] = "spawn" /\ ~Free(t)
    /\ Return(t, "process_exists")
    /\ UNCHANGED <<osVars, items, callVars, got, keys>>

SpawnFails(t) ==
    /\ pc[t] = "spawn" /\ Free(t)
    /\ Return(t, "error")
    /\ UNCHANGED <<osVars, items, callVars, got, keys>>

(* job.adopt is best-effort and its outcome shows nowhere before the end of *)
(* the server: these are the children that the job may have taken in.       *)
Adoptable == {c \in Children : Windows /\ KillChildrenOnExit}

Spawn(t, c, forks) ==
    /\ pc[t] = "spawn" /\ Free(t)
    /\ c \in Unborn /\ \A d \in Unborn : c <= d
    /\ leader' = [leader EXCEPT ![c] = "running"]
    /\ tree' = [tree EXCEPT ![c] = forks]
    /\ items' = [items EXCEPT ![arg[t]] = c]
    /\ got' = [got EXCEPT ![t] = c]
    /\ Goto(t, "status")
    /\ UNCHANGED <<aged, spared, callVars, keys>>

-----------------------------------------------------------------------------
(* stop, and the stop inside restart. *)

(* restart looks the id up for the command to run again, before stop does. *)
Recall(t) ==
    /\ pc[t] = "recall"
    /\ IF arg[t] \in Registered
       THEN Goto(t, "get")
       ELSE Return(t, "process_not_found")
    /\ UNCHANGED <<osVars, items, callVars, got, keys>>

Get(t) ==
    /\ pc[t] = "get"
    /\ IF arg[t] \in Registered
       THEN Goto(t, "signal") /\ got' = [got EXCEPT ![t] = items[arg[t]]]
       ELSE Return(t, "process_not_found") /\ UNCHANGED got
    /\ UNCHANGED <<osVars, items, callVars, keys>>

(* _terminate_tree: nothing for a leader that has exited; SIGKILL to the   *)
(* group with force, else SIGTERM, which a child may heed or ignore and so *)
(* changes nothing by itself.                                              *)
Killed(c) ==
    /\ leader' = [leader EXCEPT ![c] = "killed"]
    /\ tree' = [tree EXCEPT ![c] = FALSE]
    /\ spared' = spared \ {c}

(* taskkill ends the leader or not, and not its descendants: nobody looks  *)
(* at its exit code.                                                       *)
Missed(c) ==
    /\ Windows
    /\ leader' \in {leader, [leader EXCEPT ![c] = "killed"]}
    /\ spared' = spared \cup {c}
    /\ UNCHANGED tree

TerminateTree(c, hard) ==
    IF Alive(c) /\ hard
    THEN Killed(c) \/ Missed(c)
    ELSE UNCHANGED <<leader, tree, spared>>

(* The first signal is as hard as the caller asked; the one that follows a *)
(* wait that timed out kills, whatever force says.                         *)
HardMutant(t) == force[t]
Hard(t) == pc[t] = "kill" \/ force[t]

Signal(t) ==
    /\ pc[t] \in {"signal", "kill"}
    /\ TerminateTree(got[t], Hard(t))
    /\ Goto(t, IF pc[t] = "signal" THEN "wait" ELSE "rewait")
    /\ UNCHANGED <<aged, items, callVars, got, keys>>

(* taskkill itself runs into its 15 s timeout and raises out of stop. *)
TaskkillHangs(t) ==
    /\ Windows
    /\ pc[t] \in {"signal", "kill"}
    /\ Alive(got[t])
    /\ Return(t, "error")
    /\ spared' = spared \cup {got[t]}
    /\ UNCHANGED <<leader, tree, aged, items, callVars, got, keys>>

(* proc.wait(timeout=10) returns once the leader has exited ... *)
Waited(c) == ~Alive(c)

WaitDone(t) ==
    /\ pc[t] \in {"wait", "rewait"}
    /\ Waited(got[t])
    /\ Goto(t, IF op[t] = "restart" THEN "stopped" ELSE "status")
    /\ UNCHANGED <<osVars, items, callVars, got, keys>>

(* ... or times out: the first time leads to the kill, the second raises. *)
TimedOutMutant(t) == Goto(t, IF pc[t] = "wait" THEN "kill" ELSE "status")
TimedOutMutant2(t) == IF pc[t] = "wait" THEN Goto(t, "kill") ELSE Return(t, "timeout")
TimedOut(t) == IF pc[t] = "wait" THEN Goto(t, "kill") ELSE Return(t, "error")

WaitTimeout(t) ==
    /\ pc[t] \in {"wait", "rewait"}
    /\ Alive(got[t])
    /\ TimedOut(t)
    /\ UNCHANGED <<osVars, items, callVars, got, keys>>

(* The status that stop ends with looks the id up once more; restart goes  *)
(* on after it ...                                                         *)
Stopped(t) ==
    /\ pc[t] = "stopped"
    /\ IF arg[t] \in Registered
       THEN Goto(t, "pop")
       ELSE Return(t, "process_not_found")
    /\ UNCHANGED <<osVars, items, callVars, got, keys>>

(* ... drops whatever the id names by now, and starts again.               *)
Pop(t) ==
    /\ pc[t] = "pop"
    /\ items' = [items EXCEPT ![arg[t]] = None]
    /\ Goto(t, "gc")
    /\ UNCHANGED <<osVars, callVars, got, keys>>

(* The status that start, stop and restart end with. *)
Status(t) ==
    /\ pc[t] = "status"
    /\ Return(t, IF arg[t] \in Registered THEN "ok" ELSE "process_not_found")
    /\ UNCHANGED <<osVars, items, callVars, got, keys>>

-----------------------------------------------------------------------------
(* list, after _gc: a copy of the keys, then the status of one after the   *)
(* other, without the lock.                                                *)

Keys(t) ==
    /\ pc[t] = "keys"
    /\ keys' = [keys EXCEPT ![t] = Registered]
    /\ Goto(t, "visit")
    /\ UNCHANGED <<osVars, items, callVars, got>>

Visit(t, i) ==
    /\ pc[t] = "visit" /\ i \in keys[t]
    /\ IF i \in Registered
       THEN /\ keys' = [keys EXCEPT ![t] = @ \ {i}]
            /\ Goto(t, "visit")
       ELSE /\ keys' = [keys EXCEPT ![t] = {}]
            /\ Return(t, "process_not_found")
    /\ UNCHANGED <<osVars, items, callVars, got>>

Listed(t) ==
    /\ pc[t] = "visit" /\ keys[t] = {}
    /\ Return(t, "ok")
    /\ UNCHANGED <<osVars, items, callVars, got, keys>>

-----------------------------------------------------------------------------
(* cleanup, on the main thread once every worker is idle: a forced stop of *)
(* every id.  When the server is gone the job object ends the children it  *)
(* took in that are left; of their descendants it knows those that were    *)
(* forked after the adoption.                                              *)

DrainedMutant == TRUE
Drained == \A t \in Workers : pc[t] = "idle"

BeginCleanup ==
    /\ pc[Main] = "idle" /\ Drained
    /\ keys' = [keys EXCEPT ![Main] = Registered]
    /\ pc' = [pc EXCEPT ![Main] = "cleanup"]
    /\ op' = [op EXCEPT ![Main] = "stop"]
    /\ force' = [force EXCEPT ![Main] = TRUE]
    /\ UNCHANGED <<osVars, items, arg, got, reply>>

CleanupNext(i) ==
    /\ pc[Main] = "cleanup" /\ i \in keys[Main]
    /\ keys' = [keys EXCEPT ![Main] = @ \ {i}]
    /\ arg' = [arg EXCEPT ![Main] = i]
    /\ Goto(Main, "get")
    /\ UNCHANGED <<osVars, items, op, force, got>>

JobKills(adopted) ==
    /\ leader' = [c \in Children |->
                     IF c \in adopted /\ Alive(c) THEN "killed" ELSE leader[c]]
    /\ \E known \in SUBSET adopted : tree' = [c \in Children |-> tree[c] /\ c \notin known]

CleanupDone ==
    /\ pc[Main] = "cleanup" /\ keys[Main] = {}
    /\ Goto(Main, "exited")
    /\ \E adopted \in SUBSET Adoptable : JobKills(adopted)
    /\ UNCHANGED <<aged, spared, items, callVars, got, keys>>

-----------------------------------------------------------------------------
(* The operating system and the clock. *)

Exit(c) ==
    /\ Alive(c)
    /\ leader' = [leader EXCEPT ![c] = "exited"]
    /\ UNCHANGED <<tree, aged, spared, items, pc, callVars, got, keys, reply>>

TreeExit(c) ==
    /\ tree[c]
    /\ tree' = [tree EXCEPT ![c] = FALSE]
    /\ UNCHANGED <<leader, aged, spared, items, pc, callVars, got, keys, reply>>

(* Children reach the ttl in the order they were started. *)
Age(c) ==
    /\ leader[c] # "unborn" /\ c \notin aged
    /\ 1 .. c - 1 \subseteq aged
    /\ aged' = aged \cup {c}
    /\ UNCHANGED <<leader, tree, spared, items, pc, callVars, got, keys, reply>>

-----------------------------------------------------------------------------
StartStep(t) ==
    \/ StartRefused(t) \/ SpawnExists(t) \/ SpawnFails(t)
    \/ \E dying \in SUBSET Children : Gc(t, dying)
    \/ \E c \in Children, forks \in BOOLEAN : Spawn(t, c, forks)

StopStep(t) ==
    \/ Get(t) \/ Signal(t) \/ TaskkillHangs(t)
    \/ WaitDone(t) \/ WaitTimeout(t) \/ Status(t)

RestartStep(t) == Recall(t) \/ Stopped(t) \/ Pop(t)

ListStep(t) == Keys(t) \/ Listed(t) \/ \E i \in Ids : Visit(t, i)

HandlerStep(t) == StartStep(t) \/ StopStep(t) \/ RestartStep(t) \/ ListStep(t)

CleanupStep == CleanupDone \/ \E i \in Ids : CleanupNext(i)

Next ==
    \/ \E t \in Workers, o \in Ops, i \in Ids \cup {None}, f \in BOOLEAN : Call(t, o, i, f)
    \/ \E t \in Threads : HandlerStep(t)
    \/ BeginCleanup
    \/ CleanupStep
    \/ \E c \in Children : Exit(c) \/ TreeExit(c) \/ Age(c)

Spec == Init /\ [][Next]_vars

(* Threads are scheduled, and a killed child dies; nothing else is promised. *)
Fairness ==
    /\ \A t \in Threads : WF_vars(HandlerStep(t))
    /\ WF_vars(CleanupStep)
    /\ \A c \in Children : WF_vars(leader[c] = "killed" /\ Exit(c))

FairSpec == Spec /\ Fairness

-----------------------------------------------------------------------------
(* Safety. *)

(* Every child that is still running is named by an entry, so that a later  *)
(* stop, restart or cleanup can reach it: neither _gc nor a start that      *)
(* replaces an entry ever loses one.  Restart breaks it (see README).       *)
NoOrphan == \A c \in Children : Alive(c) => \E i \in Registered : items[i] = c

(* start compares _gc's count with max_processes before it takes the lock   *)
(* and registers, so concurrent starts overshoot; never by as much as there *)
(* are workers, since each one passed the test with the limit not reached.  *)
LimitOvershoot ==
    Cardinality(LiveIds) + Cardinality({t \in Workers : pc[t] = "spawn"})
        =< MaxProcesses + Cardinality(Workers) - 1

(* The whole dictionary, exited entries included, is bounded as well: every *)
(* start runs _gc first, and _gc cuts the dictionary back to the limit.     *)
RegistryBounded ==
    Cardinality(Registered) + Cardinality({t \in Workers : pc[t] = "spawn"})
        =< MaxProcesses + Cardinality(Workers)

(* A stop that answers, and the stop in a restart before the entry is       *)
(* dropped, left the child it looked up first exited, whatever other        *)
(* threads did to the id in the meantime.                                   *)
StopEndsItsChild ==
    \A t \in Threads :
        \/ pc[t] = "status" /\ op[t] = "stop"
        \/ pc[t] \in {"stopped", "pop"}
        \/ op[t] = "stop" /\ reply[t] = "ok" /\ pc[t] \in {"idle", "cleanup", "exited"}
        => leader[got[t]] = "exited"

(* A clean exit of the server leaves no child running: cleanup has stopped, *)
(* or at least killed, all of them, but for those that taskkill failed to   *)
(* end.  The job is no help here, since it may not have taken them in: it   *)
(* rests on the drained pool and on every child having its entry, which     *)
(* overlapping restarts break (see README).                                 *)
CleanExitEndsChildren ==
    pc[Main] = "exited" => \A c \in Children : leader[c] = "running" => c \in spared

-----------------------------------------------------------------------------
(* What a step may never do. *)

(* An entry whose child runs is never dropped or replaced, but by a restart *)
(* of that very id.                                                         *)
LiveEntryKept ==
    [][\A i \in LiveIds :
          items'[i] = items[i] \/ \E t \in Workers : pc[t] = "pop" /\ arg[t] = i]_vars

(* _gc forgets the oldest first: when it drops an entry, no entry with an   *)
(* older exited child stays.                                                *)
OldestDroppedFirst ==
    [][\A i, j \in Registered :
          /\ items'[i] = None /\ items'[j] # None
          /\ ~Alive(items[j])
          /\ \A t \in Workers : pc[t] # "pop"
          => items[i] < items[j]]_vars

-----------------------------------------------------------------------------
(* Liveness. *)

(* A stop, forced or not, ends the child it looked up even if the child     *)
(* ignores SIGTERM: the wait that times out is followed by SIGKILL, or by a *)
(* taskkill, and only one that fails or hangs can leave the child running.  *)
StopEndsChild ==
    \A c \in Children :
        (\E t \in Threads : pc[t] = "signal" /\ got[t] = c)
            ~> leader[c] = "exited" \/ c \in spared
=============================================================================
