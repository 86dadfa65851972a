------------------------------- MODULE FileEdits -------------------------------
(***************************************************************************)
(* The mutations of agent_runtime/capabilities.py: Capabilities.filesystem *)
(* on files, run by the pool threads at the same time.  Each takes the     *)
(* striped locks of the paths it names, one after the other, then reads,   *)
(* validates and writes, and releases them.                                *)
(*                                                                         *)
(* The content of a file is the number of the write that made it, 0 for    *)
(* none: who overwrote what is told apart, the text is not, and whether an *)
(* edit matches the text is left open.  `replace' is replace_text and      *)
(* multi_edit, which differ in the text only.  Left out: directories, and  *)
(* programs other than the server that write the same files.               *)
(***************************************************************************)
EXTENDS Integers, Sequences, FiniteSets
LOCAL INSTANCE FiniteSetsExt

CONSTANTS
    Threads,        \* the pool threads
    Paths,          \* the files, by resolved path
    Stripes,        \* the table of locks: numbers, in the order of their id()
    StripeOf,       \* _path_lock: path -> stripe; paths may share one
    Patches,        \* the target lists of the patches that clients send
    Free,           \* the owner of a lock that nobody holds
    MaxWrites       \* bound: the writes of the calls ever taken

Versions == Nat
Torn == -1                      \* a copy in progress, or cut off

ASSUME EditsAssumption ==
    /\ Stripes \subseteq Nat /\ IsFiniteSet(Stripes)
    /\ StripeOf \in [Paths -> Stripes]
    /\ Patches \subseteq Seq(Paths) \ {<<>>}
    /\ Free \notin Threads
    /\ MaxWrites \in Nat \ {0}

VARIABLES
    files,      \* path -> its content
    writes,     \* the number of the last write
    owner,      \* stripe -> the thread that holds it
    pc,         \* thread -> idle, lock, read, write, fill, unlock
    op,         \* thread -> its action
    targets,    \* thread -> the paths it locks, in the order it writes them
    base,       \* thread -> what it read, path by path
    landed,     \* thread -> how many of its targets it has written
    reply       \* thread -> how its call ends

callVars == <<op, targets>>
vars == <<files, writes, owner, pc, callVars, base, landed, reply>>

Edits == {"replace", "patch"}           \* read, validate, write
Overwrites == {"write", "copy", "move", "delete"}

TypeOK ==
    /\ files \in [Paths -> Versions \cup {Torn}]
    /\ writes \in Versions
    /\ owner \in [Stripes -> Threads \cup {Free}]
    /\ pc \in [Threads -> {"idle", "lock", "read", "write", "fill", "unlock"}]
    /\ op \in [Threads -> Edits \cup Overwrites \cup {"none"}]
    /\ targets \in [Threads -> Seq(Paths)]
    /\ base \in [Threads -> [Paths -> Versions \cup {Torn}]]
    /\ landed \in [Threads -> Nat]
    /\ reply \in [Threads -> {"none", "ok", "content_mismatch", "error"}]

Nothing == [p \in Paths |-> 0]

Init ==
    /\ files = [p \in Paths |-> 1] /\ writes = 1
    /\ owner = [s \in Stripes |-> Free]
    /\ pc = [t \in Threads |-> "idle"]
    /\ op = [t \in Threads |-> "none"]
    /\ targets = [t \in Threads |-> <<>>]
    /\ base = [t \in Threads |-> Nothing]
    /\ landed = [t \in Threads |-> 0]
    /\ reply = [t \in Threads |-> "none"]

-----------------------------------------------------------------------------
Goto(t, step) ==
    /\ pc' = [pc EXCEPT ![t] = step]
    /\ UNCHANGED reply

(* The handler leaves _locked_paths with an outcome. *)
Finish(t, outcome) ==
    /\ pc' = [pc EXCEPT ![t] = "unlock"]
    /\ reply' = [reply EXCEPT ![t] = outcome]

(* The call is over, and its local variables with it. *)
Return(t) ==
    /\ pc' = [pc EXCEPT ![t] = "idle"]
    /\ op' = [op EXCEPT ![t] = "none"]
    /\ targets' = [targets EXCEPT ![t] = <<>>]
    /\ base' = [base EXCEPT ![t] = Nothing]
    /\ landed' = [landed EXCEPT ![t] = 0]
    /\ reply' = [reply EXCEPT ![t] = "none"]

Target(t) == targets[t][landed[t] + 1]
LastTarget(t) == landed[t] + 1 = Len(targets[t])

ListsFor(o) ==
    IF o = "patch" THEN Patches
    ELSE IF o \in {"copy", "move"} THEN Paths \X Paths
    ELSE {<<p>> : p \in Paths}

Owed(t) == IF op[t] \in Edits \cup {"write"} THEN Len(targets[t]) - landed[t] ELSE 0

Room(o, ts) ==                          \* bound: every call taken can write all it has to
    o \in Edits \cup {"write"}
        => writes + MapThenSumSet(Owed, Threads) + Len(ts) =< MaxWrites

Call(t, o, ts) ==
    /\ pc[t] = "idle"
    /\ ts \in ListsFor(o) /\ Room(o, ts)
    /\ op' = [op EXCEPT ![t] = o]
    /\ targets' = [targets EXCEPT ![t] = ts]
    /\ Goto(t, "lock")
    /\ UNCHANGED <<files, writes, owner, base, landed>>

-----------------------------------------------------------------------------
(* _locked_paths: each stripe once, in the order of the table. *)

Stripe(t, k) == StripeOf[targets[t][k]]

MissingMutant(t) == {Stripe(t, k) : k \in {1}} \ {s \in Stripes : owner[s] = t}
Missing(t) == {Stripe(t, k) : k \in 1 .. Len(targets[t])} \ {s \in Stripes : owner[s] = t}

WantedMutant(t) == Missing(t)
Wanted(t) == {s \in Missing(t) : \A r \in Missing(t) : s =< r}

Acquire(t) ==
    /\ pc[t] = "lock"
    /\ \E s \in Wanted(t) : owner[s] = Free /\ owner' = [owner EXCEPT ![s] = t]
    /\ UNCHANGED <<files, writes, pc, callVars, base, landed, reply>>

Locked(t) ==
    /\ pc[t] = "lock" /\ Missing(t) = {}
    /\ Goto(t, IF op[t] \in Edits THEN "read" ELSE "write")
    /\ UNCHANGED <<files, writes, owner, callVars, base, landed>>

Unlock(t) ==
    /\ pc[t] = "unlock"
    /\ owner' = [s \in Stripes |-> IF owner[s] = t THEN Free ELSE owner[s]]
    /\ Return(t)
    /\ UNCHANGED <<files, writes>>

-----------------------------------------------------------------------------
(* What is done under the locks, and the checks before them. *)

(* Bad arguments, a path that does not resolve, not a file, too large. *)
Refuse(t) ==
    /\ pc[t] = "lock" /\ \A s \in Stripes : owner[s] # t
    /\ Return(t)
    /\ UNCHANGED <<files, writes, owner>>

(* Read every target and validate the whole edit against what was read. *)
Read(t) ==
    /\ pc[t] = "read"
    /\ base' = [base EXCEPT ![t] = files]
    /\ \/ /\ op[t] = "replace" => files[Target(t)] # 0
          /\ Goto(t, "write")
       \/ Finish(t, "content_mismatch")
       \/ Finish(t, "error")
    /\ UNCHANGED <<files, writes, owner, callVars, landed>>

(* _atomic_write of the next target: a temporary file renamed over it. *)
WriteTarget(t) ==
    /\ pc[t] = "write" /\ op[t] \in Edits \cup {"write"}
    /\ writes' = writes + 1
    /\ files' = [files EXCEPT ![Target(t)] = writes + 1]
    /\ landed' = [landed EXCEPT ![t] = @ + 1]
    /\ IF LastTarget(t) THEN Finish(t, "ok") ELSE Goto(t, "write")
    /\ UNCHANGED <<owner, callVars, base>>

(* The operating system refuses the write, rename, copy or unlink. *)
Fails(t) ==
    /\ pc[t] \in {"write", "fill"}
    /\ Finish(t, "error")
    /\ UNCHANGED <<files, writes, owner, callVars, base, landed>>

Delete(t) ==
    /\ pc[t] = "write" /\ op[t] = "delete"
    /\ files[Target(t)] # 0
    /\ files' = [files EXCEPT ![Target(t)] = 0]
    /\ Finish(t, "ok")
    /\ UNCHANGED <<writes, owner, callVars, base, landed>>

Move(t) ==
    /\ pc[t] = "write" /\ op[t] = "move"
    /\ LET src == targets[t][1]  dest == targets[t][2]
       IN  /\ files[src] # 0
           /\ files' = [files EXCEPT ![src] = 0, ![dest] = files[src]]
    /\ Finish(t, "ok")
    /\ UNCHANGED <<writes, owner, callVars, base, landed>>

(* shutil.copy2 truncates the destination and fills it from the source. *)
Copy(t) ==
    /\ pc[t] = "write" /\ op[t] = "copy"
    /\ LET src == targets[t][1]  dest == targets[t][2]
       IN  /\ files[src] # 0 /\ src # dest
           /\ files' = [files EXCEPT ![dest] = Torn]
    /\ Goto(t, "fill")
    /\ UNCHANGED <<writes, owner, callVars, base, landed>>

Fill(t) ==
    /\ pc[t] = "fill"
    /\ files' = [files EXCEPT ![targets[t][2]] = files[targets[t][1]]]
    /\ Finish(t, "ok")
    /\ UNCHANGED <<writes, owner, callVars, base, landed>>

-----------------------------------------------------------------------------
Step(t) ==
    \/ Refuse(t) \/ Acquire(t) \/ Locked(t) \/ Read(t) \/ WriteTarget(t)
    \/ Delete(t) \/ Move(t) \/ Copy(t) \/ Fill(t) \/ Fails(t) \/ Unlock(t)

Next ==
    \/ \E t \in Threads, o \in Edits \cup Overwrites : \E ts \in ListsFor(o) : Call(t, o, ts)
    \/ \E t \in Threads : Step(t)

Spec == Init /\ [][Next]_vars

-----------------------------------------------------------------------------
(* What an edit was validated against is still in every file it has yet to *)
(* write: an edit never overwrites one it has not seen.  The README: "a    *)
(* second edit sees a stale base and fails rather than overwriting".       *)
EditsAreCurrent ==
    \A t \in Threads :
        pc[t] = "write" /\ op[t] \in Edits
        => \A k \in landed[t] + 1 .. Len(targets[t]) :
              files[targets[t][k]] = base[t][targets[t][k]]

(* A move takes a file away, and a copy reads it, while no other thread is *)
(* between reading that file and writing it: of two threads at work under  *)
(* the locks, neither names a path of the other.                           *)
Working(t) == pc[t] \in {"read", "write", "fill"}

Disjoint ==
    \A t, u \in Threads :
        t # u /\ Working(t) /\ Working(u)
        => \A k \in 1 .. Len(targets[t]), j \in 1 .. Len(targets[u]) :
              targets[t][k] # targets[u][j]

(* The threads never all wait for each other's stripes, however the sets   *)
(* they lock overlap and collide in the table.                             *)
Blocked(t) == pc[t] = "lock" /\ Missing(t) # {} /\ \A s \in Wanted(t) : owner[s] # Free

DeadlockFree ==
    (\E t \in Threads : pc[t] # "idle")
        => \E t \in Threads : pc[t] # "idle" /\ ~Blocked(t)
=============================================================================
