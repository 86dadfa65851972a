----------------------------- MODULE ProcessStdin -----------------------------
(***************************************************************************)
(* ProcessManager.write of agent_runtime/processes.py: text for the stdin  *)
(* of one child.  The pipe to a child that does not read fills up, and a   *)
(* write to it blocks, so each text is written by a helper thread that the *)
(* caller joins with a timeout, under the child's stdin_lock.  After a     *)
(* timeout the lock is given back and the helper stays behind, so that     *)
(* helpers of several texts may meet in the BufferedWriter proc.stdin.     *)
(*                                                                         *)
(* Texts are numbered in the order in which their callers get stdin_lock.  *)
(* `entered' has them in the order in which they enter the BufferedWriter: *)
(* the first `pushed' have gone on into the pipe, whose last `unread' ones *)
(* are still there, and the rest is in the buffer.                         *)
(***************************************************************************)
EXTENDS Integers, Sequences, FiniteSets

CONSTANTS
    Callers,        \* the pool threads
    Nobody,         \* the holder of stdin_lock when it is free
    PipeSlots,      \* the texts the pipe holds
    MaxTexts        \* bound: the texts written to the child

ASSUME StdinAssumption ==
    /\ Nobody \notin Callers
    /\ IsFiniteSet(Callers)
    /\ PipeSlots \in Nat \ {0}
    /\ MaxTexts \in Nat

Texts == 1 .. MaxTexts

VARIABLES
    reader,     \* who has the read end: the child, a descendant of it, none
    entered,    \* the texts that entered the BufferedWriter, in this order
    pushed,     \* how many of them went on into the pipe
    unread,     \* how many of those are in the pipe still
    io,         \* the text whose helper has the lock of the BufferedWriter, or 0
    helper,     \* text -> none, write, flush, push, ok, error
    owner,      \* stdin_lock
    last,       \* the number of the last text
    pc,         \* caller -> idle, lock, join, check
    mine,       \* caller -> its text, or 0
    reply,      \* text -> none, ok, stdin_blocked, stdin_closed
    late        \* (history) the texts whose join timed out

pipeVars   == <<reader, entered, pushed, unread>>
callerVars == <<owner, last, pc, mine, reply, late>>
vars == <<pipeVars, io, helper, callerVars>>

Running(i) == helper[i] \in {"write", "flush", "push"}

TypeOK ==
    /\ reader \in {"child", "descendant", "none"}
    /\ entered \in Seq(Texts)
    /\ pushed \in 0 .. Len(entered)
    /\ unread \in 0 .. pushed
    /\ io \in Texts \cup {0}
    /\ helper \in [Texts -> {"none", "write", "flush", "push", "ok", "error"}]
    /\ owner \in Callers \cup {Nobody}
    /\ last \in Texts \cup {0}
    /\ pc \in [Callers -> {"idle", "lock", "join", "check"}]
    /\ mine \in [Callers -> Texts \cup {0}]
    /\ reply \in [Texts -> {"none", "ok", "stdin_blocked", "stdin_closed"}]
    /\ late \in SUBSET Texts

Init ==
    /\ reader = "child"
    /\ entered = <<>> /\ pushed = 0 /\ unread = 0
    /\ io = 0
    /\ helper = [i \in Texts |-> "none"]
    /\ owner = Nobody /\ last = 0
    /\ pc = [c \in Callers |-> "idle"]
    /\ mine = [c \in Callers |-> 0]
    /\ reply = [i \in Texts |-> "none"]
    /\ late = {}

-----------------------------------------------------------------------------
(* The caller. *)

Queued == {c \in Callers : pc[c] = "lock"}

(* A child that has exited is refused at once, which changes nothing.      *)
Call(c) ==
    /\ pc[c] = "idle" /\ reader = "child"
    /\ last + Cardinality(Queued) < MaxTexts
    /\ pc' = [pc EXCEPT ![c] = "lock"]
    /\ UNCHANGED <<pipeVars, io, helper, owner, last, mine, reply, late>>

LockFreeMutant == TRUE
LockFree == owner = Nobody

Lock(c) ==
    /\ pc[c] = "lock" /\ LockFree /\ last < MaxTexts
    /\ owner' = c
    /\ last' = last + 1
    /\ mine' = [mine EXCEPT ![c] = last']
    /\ helper' = [helper EXCEPT ![last'] = "write"]
    /\ pc' = [pc EXCEPT ![c] = "join"]
    /\ UNCHANGED <<pipeVars, io, reply, late>>

(* join returns: the helper has ended, or the timeout has passed.          *)
TimeoutMutant(c) == FALSE
Timeout(c) == Running(mine[c])

Join(c) ==
    /\ pc[c] = "join"
    /\ \/ /\ ~Running(mine[c])
          /\ UNCHANGED late
       \/ /\ Timeout(c)
          /\ late' = late \cup {mine[c]}
    /\ owner' = Nobody
    /\ pc' = [pc EXCEPT ![c] = "check"]
    /\ UNCHANGED <<pipeVars, io, helper, last, mine, reply>>

(* is_alive is asked after the lock has been given back.                   *)
OutcomeMutant(i) == IF Running(i) THEN "stdin_blocked" ELSE helper[i]

Outcome(i) ==
    IF Running(i) THEN "stdin_blocked"
    ELSE IF helper[i] = "ok" THEN "ok" ELSE "stdin_closed"

Check(c) ==
    /\ pc[c] = "check"
    /\ reply' = [reply EXCEPT ![mine[c]] = Outcome(mine[c])]
    /\ mine' = [mine EXCEPT ![c] = 0]
    /\ pc' = [pc EXCEPT ![c] = "idle"]
    /\ UNCHANGED <<pipeVars, io, helper, owner, last, late>>

-----------------------------------------------------------------------------
(* The helper of text i.  A write and a flush take the lock of the         *)
(* BufferedWriter.  A text that fits is only put in the buffer by write;   *)
(* flush sends all that is there, other helpers' texts too, and keeps the  *)
(* lock until that is done.                                                *)

Write(i) ==
    /\ helper[i] = "write" /\ io = 0
    /\ entered' = Append(entered, i)
    /\ helper' = [helper EXCEPT ![i] = "flush"]
    /\ UNCHANGED <<reader, pushed, unread, io, callerVars>>

Flush(i) ==
    /\ helper[i] = "flush" /\ io = 0
    /\ io' = i
    /\ helper' = [helper EXCEPT ![i] = "push"]
    /\ UNCHANGED <<pipeVars, callerVars>>

Push(i) ==
    /\ helper[i] = "push" /\ pushed < Len(entered)
    /\ reader # "none" /\ unread < PipeSlots
    /\ pushed' = pushed + 1
    /\ unread' = unread + 1
    /\ UNCHANGED <<reader, entered, io, helper, callerVars>>

FlushedMutant(i) == TRUE
Flushed(i) == pushed = Len(entered)

PushEnd(i) ==
    /\ helper[i] = "push" /\ Flushed(i)
    /\ io' = 0
    /\ helper' = [helper EXCEPT ![i] = "ok"]
    /\ UNCHANGED <<pipeVars, callerVars>>

(* The pipe breaks; what it has not taken stays in the buffer.             *)
AfterBreakMutant == "flush"
AfterBreak == "error"

PushFails(i) ==
    /\ helper[i] = "push" /\ pushed < Len(entered) /\ reader = "none"
    /\ io' = 0
    /\ helper' = [helper EXCEPT ![i] = AfterBreak]
    /\ UNCHANGED <<pipeVars, callerVars>>

Help(i) == Write(i) \/ Flush(i) \/ Push(i) \/ PushEnd(i) \/ PushFails(i)

-----------------------------------------------------------------------------
(* The child reads when it likes.  It may exit, and leave the read end to  *)
(* a descendant that inherited it; with the last reader the pipe breaks.   *)

Drain ==
    /\ reader # "none" /\ unread > 0
    /\ unread' = unread - 1
    /\ UNCHANGED <<reader, entered, pushed, io, helper, callerVars>>

Exit ==
    /\ reader # "none"
    /\ reader' \in IF reader = "child" THEN {"descendant", "none"} ELSE {"none"}
    /\ unread' = IF reader' = "none" THEN 0 ELSE unread
    /\ UNCHANGED <<entered, pushed, io, helper, callerVars>>

Next ==
    \/ \E c \in Callers : Call(c) \/ Lock(c) \/ Join(c) \/ Check(c)
    \/ \E i \in Texts : Help(i)
    \/ Drain
    \/ Exit

(* Threads that can go on do; a lock that comes free again and again is    *)
(* got in the end.  Nothing is assumed of the child.                       *)
Fairness ==
    /\ \A c \in Callers : WF_vars(Join(c) \/ Check(c)) /\ SF_vars(Lock(c))
    /\ \A i \in Texts : SF_vars(Help(i))

Spec == Init /\ [][Next]_vars
FairSpec == Spec /\ Fairness

-----------------------------------------------------------------------------
(* A text reaches the child before the texts of all later writes, unless   *)
(* its own write timed out: "Writes serialize per process"                 *)
(* (processes.py 174), which the lock does not give once helpers stay      *)
(* behind.                                                                 *)
InOrder ==
    \A a, b \in 1 .. pushed :
        a < b /\ entered[a] > entered[b] => entered[b] \in late

(* A write that answers ok has put its text into the pipe, once, and a     *)
(* text is never sent twice, whatever answer its write got.                *)
OkSent ==
    /\ \A i \in Texts : reply[i] = "ok" => \E k \in 1 .. pushed : entered[k] = i
    /\ \A a, b \in 1 .. pushed : entered[a] = entered[b] => a = b

(* A write answers, whether or not the child ever reads (170-173).         *)
WriteAnswers == \A c \in Callers : pc[c] # "idle" ~> pc[c] = "idle"

(* Helpers stay blocked "only until the child exits and the pipe breaks"   *)
(* (172-173), that is, until the last descendant with the read end exits.  *)
HelpersEnd == reader = "none" ~> \A i \in Texts : ~Running(i)
=============================================================================
