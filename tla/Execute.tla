------------------------------- MODULE Execute --------------------------------
(***************************************************************************)
(* Capabilities.execute and _kill_tree of agent_runtime/capabilities.py: a *)
(* foreground command.  The pool thread that runs it spawns a child in a   *)
(* process group of its own, waits in communicate() for the child's exit   *)
(* and for the end of its output, and on a timeout kills the tree and      *)
(* waits once more, now without a timeout.                                 *)
(*                                                                         *)
(* The output ends when the last process that inherited its pipe has gone, *)
(* so the descendants of the child matter: "piped" ones are in its group   *)
(* and have the pipe, "quiet" ones are in the group and have closed it,    *)
(* "away" ones have left the group and have the pipe, "gone" ones have     *)
(* neither (setsid x >/dev/null &).  On Windows the group is what taskkill *)
(* /T finds below the child.  How many there are of a kind makes no        *)
(* difference.  Authorisation, the command line, and the clipping and      *)
(* redaction of the output are left out.                                   *)
(***************************************************************************)
EXTENDS Integers

CONSTANTS
    Workers,        \* the pool threads
    Windows,        \* TRUE on Windows, where taskkill does the killing
    Kinds           \* bound: the kinds of descendants that a child may have

AllKinds == {"piped", "quiet", "away", "gone"}

VARIABLES
    pc,         \* worker -> idle, communicate, kill, drain
    leader,     \* worker -> the child of its last call: none, running, exited
    kin,        \* worker -> the kinds of descendants that child has
    answer,     \* worker -> how its last call ended: none (in it or never
                \*   called), done, timeout, process_start, internal
    reached     \* (history) worker -> TRUE when its _kill_tree found the child
                \*   running and killed it

vars == <<pc, leader, kin, answer, reached>>

TypeOK ==
    /\ pc \in [Workers -> {"idle", "communicate", "kill", "drain"}]
    /\ leader \in [Workers -> {"none", "running", "exited"}]
    /\ kin \in [Workers -> SUBSET Kinds]
    /\ answer \in [Workers -> {"none", "done", "timeout", "process_start", "internal"}]
    /\ reached \in [Workers -> BOOLEAN]

Init ==
    /\ pc = [w \in Workers |-> "idle"]
    /\ leader = [w \in Workers |-> "none"]
    /\ kin = [w \in Workers |-> {}]
    /\ answer = [w \in Workers |-> "none"]
    /\ reached = [w \in Workers |-> FALSE]

-----------------------------------------------------------------------------
(* The child and its descendants do what they like. *)

Exit(w) ==
    /\ leader[w] = "running"
    /\ leader' = [leader EXCEPT ![w] = "exited"]
    /\ UNCHANGED <<pc, kin, answer, reached>>

(* A new one may leave the group and close the pipe, but get back neither. *)
(* One that changes its own kind forks, and vanishes.                      *)
Offspring(k) ==
    CASE k = "piped" -> AllKinds
      [] k = "quiet" -> {"quiet", "gone"}
      [] k = "away"  -> {"away", "gone"}
      [] k = "gone"  -> {"gone"}

Parents(w) == kin[w] \cup (IF leader[w] = "running" THEN {"piped"} ELSE {})

Fork(w) ==
    /\ \E p \in Parents(w) : \E k \in Offspring(p) \cap Kinds :
          kin' = [kin EXCEPT ![w] = @ \cup {k}]
    /\ UNCHANGED <<pc, leader, answer, reached>>

Vanish(w) ==
    /\ \E k \in kin[w] : kin' = [kin EXCEPT ![w] = @ \ {k}]
    /\ UNCHANGED <<pc, leader, answer, reached>>

-----------------------------------------------------------------------------
(* The call. *)

Answer(w, a) ==
    /\ answer' = [answer EXCEPT ![w] = a]
    /\ pc' = [pc EXCEPT ![w] = "idle"]
    /\ UNCHANGED <<leader, kin, reached>>

Spawn(w) ==
    /\ pc[w] = "idle"
    /\ pc' = [pc EXCEPT ![w] = "communicate"]
    /\ leader' = [leader EXCEPT ![w] = "running"]
    /\ kin' = [kin EXCEPT ![w] = {}]
    /\ answer' = [answer EXCEPT ![w] = "none"]
    /\ reached' = [reached EXCEPT ![w] = FALSE]

SpawnFails(w) ==
    /\ pc[w] = "idle"
    /\ leader' = [leader EXCEPT ![w] = "none"]
    /\ kin' = [kin EXCEPT ![w] = {}]
    /\ answer' = [answer EXCEPT ![w] = "process_start"]
    /\ reached' = [reached EXCEPT ![w] = FALSE]
    /\ UNCHANGED pc

(* communicate() returns: nobody has the pipe, and the child is reaped.    *)
Holders(w) == kin[w] \cap {"piped", "away"}

Ended(w) == leader[w] = "exited" /\ Holders(w) = {}

Communicated(w) ==
    /\ pc[w] = "communicate" /\ Ended(w)
    /\ Answer(w, "done")

(* It raises TimeoutExpired; the child may have ended a moment ago.        *)
TimesOutMutant(w) == FALSE
TimesOut(w) == pc[w] = "communicate"

Timeout(w) ==
    /\ TimesOut(w)
    /\ pc' = [pc EXCEPT ![w] = "kill"]
    /\ UNCHANGED <<leader, kin, answer, reached>>

(* The group dies, or what taskkill /T finds below the child.              *)
KilledMutant == {}
Killed == {"piped", "quiet"}

Reach(w) ==
    /\ leader' = [leader EXCEPT ![w] = "exited"]
    /\ kin' = [kin EXCEPT ![w] = @ \ Killed]
    /\ reached' = [reached EXCEPT ![w] = TRUE]

(* taskkill fails, or misses whoever is forked while it goes through the    *)
(* tree: nobody looks at its exit code.  Those that it ends all the same    *)
(* exit and vanish after it.                                                *)
Miss == Windows /\ UNCHANGED <<leader, kin, reached>>

KillTree(w) ==
    /\ pc[w] = "kill"
    /\ pc' = [pc EXCEPT ![w] = "drain"]
    /\ IF leader[w] = "exited"
       THEN UNCHANGED <<leader, kin, reached>>
       ELSE Reach(w) \/ Miss
    /\ UNCHANGED answer

(* The kill raises what nothing catches: taskkill runs into its own         *)
(* timeout, or the group is another user's (PermissionError).  The call     *)
(* ends in an error and nobody waits for the child.                         *)
KillRaises(w) ==
    /\ pc[w] = "kill" /\ leader[w] = "running"
    /\ Answer(w, "internal")

DrainedMutant(w) == pc[w] = "drain"
Drained(w) == pc[w] = "drain" /\ Ended(w)

Drain(w) == Drained(w) /\ Answer(w, "timeout")

Handle(w) == Communicated(w) \/ Timeout(w) \/ KillTree(w) \/ KillRaises(w) \/ Drain(w)

Next ==
    \E w \in Workers :
        \/ Exit(w) \/ Fork(w) \/ Vanish(w)
        \/ Spawn(w) \/ SpawnFails(w)
        \/ Handle(w)

Spec == Init /\ [][Next]_vars

(* Threads are scheduled and communicate() has its timeout; nothing is     *)
(* assumed of children.                                                    *)
FairSpec == Spec /\ \A w \in Workers : WF_vars(Handle(w))

-----------------------------------------------------------------------------
(* A call that answers with the output of its child leaves no child        *)
(* running and nobody who still has the pipe, so the output is complete.   *)
AnsweredEnded == \A w \in Workers : answer[w] \in {"done", "timeout"} => Ended(w)

(* A timeout that found its child running and killed it has ended all that *)
(* were in its group or held its pipe, however they forked, by the time it *)
(* is answered: the kill takes the group, the wait after it the holders.   *)
TimeoutEndsGroup ==
    \A w \in Workers : answer[w] = "timeout" /\ reached[w] => kin[w] \subseteq {"gone"}

(* A call ends, or it has timed out and waits at line 721 for processes    *)
(* that the kill did not reach: one that left the group, or, if the child  *)
(* had exited before the kill or was missed by it, any that has the pipe.  *)
Escaped(w) ==
    /\ pc[w] = "drain"
    /\ "away" \in kin[w] \/ (~reached[w] /\ ("piped" \in kin[w] \/ leader[w] = "running"))

PinnedByEscapee == \A w \in Workers : pc[w] # "idle" ~> pc[w] = "idle" \/ Escaped(w)
=============================================================================
