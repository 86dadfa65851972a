---------------------------- MODULE ForegroundCalls ----------------------------
(***************************************************************************)
(* StdioServer whose calls are foreground commands: the pool threads that  *)
(* handle requests, and the threads of batches, run Execute.  StdioServer  *)
(* by itself assumes that calls end; here they end when Execute lets them, *)
(* and the end of the server depends on what the children do.              *)
(***************************************************************************)
EXTENDS StdioServer

CONSTANTS Windows, Kinds        \* see Execute

(* Who runs commands: <<w, 0>> is worker w itself, <<w, i>> the i-th thread *)
(* of the pool of its batch.                                                *)
Runners == Workers \X (0 .. MaxConcurrency)

Own(w) == <<w, 0>>
BatchThreads == 1 .. MaxConcurrency

VARIABLES
    stage,      \* runner -> free, called (its call has not come to a child
                \*   yet) or child (it has)
    at,         \* the variables of Execute: pc, ...
    leader, kin, answer, reached

E == INSTANCE Execute WITH pc <- at, Workers <- Runners

ASSUME CallAssumption == Windows \in BOOLEAN /\ Kinds \subseteq E!AllKinds

childVars == <<at, leader, kin, answer, reached>>
allVars == <<vars, stage, childVars>>

CallInit ==
    /\ Init /\ E!Init
    /\ stage = [r \in Runners |-> "free"]

-----------------------------------------------------------------------------
(* The command of a runner. *)

RunChild(r) ==
    /\ stage[r] = "called"
    /\ r = Own(r[1]) => job[r[1]] \notin Silent
    /\ E!Spawn(r) \/ E!SpawnFails(r)
    /\ stage' = [stage EXCEPT ![r] = "child"]
    /\ UNCHANGED vars

WaitForChild(r) == E!Handle(r) /\ UNCHANGED <<vars, stage>>

(* The call is over: its command is, or it is refused, or is no command.   *)
Returned(r) == stage[r] = "child" /\ at[r] = "idle"

CallOver(r) ==
    /\ stage[r] = "called" \/ Returned(r)
    /\ stage' = [stage EXCEPT ![r] = "free"]
    /\ UNCHANGED childVars

-----------------------------------------------------------------------------
(* A worker's line: a call, or a batch of them, and the response. *)

TakeCall(w) ==
    /\ Take(w)
    /\ stage' = [stage EXCEPT ![Own(w)] = IF Head(queue) \in Batches THEN "free" ELSE "called"]
    /\ UNCHANGED childVars

CallHandled(w) ==
    /\ CallOver(Own(w))
    /\ \E raises \in BOOLEAN :
          /\ Returned(Own(w)) => raises = (answer[Own(w)] = "internal")
          /\ Finish(w, raises)

(* The threads of a pool are alike. *)
BatchBegin(w, i) ==
    /\ stage[<<w, i>>] = "free" /\ \A j \in 1 .. i - 1 : stage[<<w, j>>] # "free"
    /\ BeginCall(w)
    /\ stage' = [stage EXCEPT ![<<w, i>>] = "called"]
    /\ UNCHANGED childVars

BatchCallOver(w, i) == CallOver(<<w, i>>) /\ EndCall(w)

BatchHandled(w) ==
    /\ pc[w] = "batch"
    /\ \E raises \in BOOLEAN : Finish(w, raises)
    /\ UNCHANGED <<stage, childVars>>

Handling(w) ==
    \/ TakeCall(w) \/ CallHandled(w) \/ BatchHandled(w)
    \/ \E i \in BatchThreads : BatchBegin(w, i) \/ BatchCallOver(w, i)
    \/ \E i \in 0 .. MaxConcurrency : RunChild(<<w, i>>) \/ WaitForChild(<<w, i>>)

ChildSteps(r) == (E!Exit(r) \/ E!Fork(r) \/ E!Vanish(r)) /\ UNCHANGED <<vars, stage>>

Elsewhere == UNCHANGED <<stage, childVars>>

CallNext ==
    \/ \E w \in Workers : Handling(w)
    \/ \E r \in Runners : ChildSteps(r)
    \/ /\ \/ MainStep
          \/ \E t \in Threads : WriteStep(t)
          \/ \E m \in Messages : HelperStep(m)
          \/ ClientStep
       /\ Elsewhere

CallSpec == CallInit /\ [][CallNext]_allVars

(* As in StdioServer and Execute: threads are scheduled, and nothing is    *)
(* assumed of children.  A line has finitely many steps, so that fairness  *)
(* to a worker with the threads of its batch is fairness to each of them.  *)
FairCalls ==
    /\ CallSpec
    /\ WF_allVars(MainStep /\ Elsewhere)
    /\ \A w \in Workers : WF_allVars(Handling(w))
    /\ \A t \in Threads : WF_allVars(WriteStep(t) /\ Elsewhere)
    /\ \A m \in Messages : SF_allVars(HelperStep(m) /\ Elsewhere)

-----------------------------------------------------------------------------
(* The properties of Execute, in the pool and in the pools of batches.     *)
AnsweredEnded == E!AnsweredEnded
TimeoutEndsGroup == E!TimeoutEndsGroup
PinnedByEscapee == E!PinnedByEscapee

(* A server that has ended, after end of input or after an interrupt,      *)
(* leaves no child of a foreground call running but one whose kill raised: *)
(* the exit waits for the pool's threads, and they for those of batches.   *)
ExitLeavesNoChild ==
    pc[Main] = "exited" =>
        \A r \in Runners : leader[r] = "running" => answer[r] = "internal"

Pinned == \E r \in Runners : E!Escaped(r)

(* After end of input the server ends, or in the end there is always some  *)
(* runner that waits for descendants that the kill at its timeout did not  *)
(* reach (capabilities.py 721; the comment at server.py 544-547 gives the  *)
(* bound on the backlog as the reason why the wait ends).                  *)
EndsUnlessPinned == <>(pc[Main] = "exited") \/ <>[]Pinned
=============================================================================
