-------------------------- MODULE ProcessStdinProofs --------------------------
(* Theorems about ProcessStdin, for any callers, pipe and number of texts. *)
EXTENDS ProcessStdin, TLAPS

(* A caller past stdin_lock has a text, and it has the lock while it joins. *)
Control ==
    \A c \in Callers :
        /\ pc[c] \in {"join", "check"} => mine[c] \in 1 .. last
        /\ pc[c] = "join" => owner = c

(* A helper that runs although its join has not timed out is that of the    *)
(* last text, whose caller has the lock: it has no one behind it.           *)
LastRuns ==
    \A i \in Texts :
        Running(i) /\ i \notin late =>
            i = last /\ owner \in Callers /\ pc[owner] = "join" /\ mine[owner] = i

(* A text enters the buffer once, by the first step of its helper.          *)
Entered ==
    /\ \A i \in Texts : helper[i] # "none" <=> i <= last
    /\ \A k \in 1 .. Len(entered) : helper[entered[k]] \notin {"none", "write"}
    /\ \A j, k \in 1 .. Len(entered) : entered[j] = entered[k] => j = k

(* A helper past its write has a text in the buffer, which is in the pipe   *)
(* when its flush succeeded.                                                *)
Delivered ==
    \A i \in Texts :
        /\ helper[i] \in {"flush", "push"} => \E k \in 1 .. Len(entered) : entered[k] = i
        /\ helper[i] = "ok" \/ reply[i] = "ok" => \E k \in 1 .. pushed : entered[k] = i

(* What has entered after a later text comes from a write that timed out.   *)
Overtaken ==
    \A j, k \in 1 .. Len(entered) :
        j < k /\ entered[j] > entered[k] => entered[k] \in late

Inv == Control /\ LastRuns /\ Entered /\ Delivered /\ Overtaken

-----------------------------------------------------------------------------
LEMMA TypeInit == Init => TypeOK
  BY StdinAssumption DEF Init, TypeOK, Texts

LEMMA TypeStep == TypeOK /\ Control /\ [Next]_vars => TypeOK'
<1> SUFFICES ASSUME TypeOK, Control, [Next]_vars PROVE TypeOK'
  OBVIOUS
<1> USE StdinAssumption DEF TypeOK, Texts, pipeVars, callerVars
<1>1. ASSUME NEW c \in Callers, Call(c) PROVE TypeOK'
  BY <1>1 DEF Call
<1>2. ASSUME NEW c \in Callers, Lock(c) PROVE TypeOK'
  BY <1>2 DEF Lock
<1>3. ASSUME NEW c \in Callers, Join(c) PROVE TypeOK'
  <2>1. mine[c] \in Texts
    BY <1>3 DEF Join, Control
  <2> QED BY <1>3, <2>1 DEF Join
<1>4. ASSUME NEW c \in Callers, Check(c) PROVE TypeOK'
  BY <1>4 DEF Check, Outcome
<1>5. ASSUME NEW i \in Texts, Help(i) PROVE TypeOK'
  <2>1. CASE Write(i)
    BY <2>1 DEF Write
  <2>2. CASE Flush(i)
    BY <2>2 DEF Flush
  <2>3. CASE Push(i)
    BY <2>3 DEF Push
  <2>4. CASE PushEnd(i)
    BY <2>4 DEF PushEnd
  <2>5. CASE PushFails(i)
    BY <2>5 DEF PushFails, AfterBreak
  <2> QED BY <1>5, <2>1, <2>2, <2>3, <2>4, <2>5 DEF Help
<1>6. CASE Drain
  BY <1>6 DEF Drain
<1>7. CASE Exit
  BY <1>7 DEF Exit
<1>8. CASE UNCHANGED vars
  BY <1>8 DEF vars
<1> QED BY <1>1, <1>2, <1>3, <1>4, <1>5, <1>6, <1>7, <1>8 DEF Next

-----------------------------------------------------------------------------
LEMMA EnteredBefore ==
  ASSUME TypeOK, Inv, NEW k \in 1 .. Len(entered)
  PROVE  entered[k] \in Texts /\ entered[k] \in Nat /\ last \in Nat /\ entered[k] <= last
<1>1. entered[k] \in Texts
  BY DEF TypeOK
<1> QED BY <1>1, StdinAssumption DEF TypeOK, Inv, Entered, Texts

(* Steps of callers leave the buffer and the pipe alone. *)

LEMMA CallStep ==
  ASSUME TypeOK, Inv, NEW c \in Callers, Call(c)
  PROVE  Inv'
  BY DEF TypeOK, Inv, Control, LastRuns, Entered, Delivered, Overtaken, Call, Running,
         pipeVars, callerVars

(* The lock is free, so no helper runs that was not given up.               *)
LEMMA LockStep ==
  ASSUME TypeOK, Inv, NEW c \in Callers, Lock(c)
  PROVE  Inv'
<1> USE StdinAssumption DEF TypeOK, Inv, Lock, LockFree, pipeVars, Texts
<1>1. helper' = [helper EXCEPT ![last + 1] = "write"] /\ last + 1 \in Texts
  OBVIOUS
<1>2. Control'
  BY DEF Control
<1>3. \A i \in Texts : Running(i) => i \in late
  BY DEF LastRuns
<1>4. LastRuns'
  BY <1>1, <1>3 DEF LastRuns, Running
<1>5. \A k \in 1 .. Len(entered) : entered[k] # last + 1
  BY EnteredBefore
<1>6. Entered'
  BY <1>1, <1>5 DEF Entered
<1>7. Delivered'
  BY <1>1 DEF Delivered, Entered
<1>8. Overtaken'
  BY DEF Overtaken
<1> QED BY <1>2, <1>4, <1>6, <1>7, <1>8

(* Only the owner of the lock joins, so what still runs is given up.        *)
LEMMA JoinStep ==
  ASSUME TypeOK, Inv, NEW c \in Callers, Join(c)
  PROVE  Inv'
<1> USE StdinAssumption DEF TypeOK, Inv, Join, pipeVars
<1>1. owner = c /\ mine[c] \in Texts
  BY DEF Control, Texts
<1>2. late \subseteq late'
  OBVIOUS
<1>3. Control'
  BY <1>1 DEF Control
<1>4. \A i \in Texts : Running(i) => i \in late'
  BY <1>1 DEF LastRuns
<1>5. LastRuns'
  BY <1>4 DEF LastRuns, Running
<1>6. Entered' /\ Delivered'
  BY DEF Entered, Delivered
<1>7. Overtaken'
  BY <1>2 DEF Overtaken
<1> QED BY <1>3, <1>5, <1>6, <1>7

LEMMA CheckStep ==
  ASSUME TypeOK, Inv, NEW c \in Callers, Check(c)
  PROVE  Inv'
<1> USE StdinAssumption DEF TypeOK, Inv, Check, pipeVars
<1>1. Control' /\ LastRuns'
  BY DEF Control, LastRuns, Running
<1>2. Entered' /\ Overtaken'
  BY DEF Entered, Overtaken
<1>3. Delivered'
  BY DEF Delivered, Outcome, Control, Texts
<1> QED BY <1>1, <1>2, <1>3

-----------------------------------------------------------------------------
(* Steps of helpers. *)

LEMMA WriteStep ==
  ASSUME TypeOK, Inv, NEW i \in Texts, Write(i)
  PROVE  Inv'
<1> USE DEF TypeOK, Inv, Write, callerVars, Texts
<1>1. /\ Len(entered') = Len(entered) + 1
      /\ entered'[Len(entered) + 1] = i
      /\ \A k \in 1 .. Len(entered) : entered'[k] = entered[k]
  OBVIOUS
<1>2. \A k \in 1 .. Len(entered) : entered[k] # i /\ entered[k] <= last
  BY EnteredBefore DEF Entered
<1>3. Control' /\ LastRuns'
  BY DEF Control, LastRuns, Running
<1>4. Entered'
  BY <1>1, <1>2 DEF Entered
<1>5. Delivered'
  <2> SUFFICES ASSUME NEW n \in Texts
               PROVE  /\ helper'[n] \in {"flush", "push"} =>
                            \E k \in 1 .. Len(entered') : entered'[k] = n
                      /\ helper'[n] = "ok" \/ reply'[n] = "ok" =>
                            \E k \in 1 .. pushed' : entered'[k] = n
    BY DEF Delivered
  <2>1. CASE n = i
    <3>1. reply[i] # "ok"
      BY <1>2 DEF Delivered
    <3> QED BY <1>1, <2>1, <3>1
  <2>2. CASE n # i
    BY <1>1, <2>2 DEF Delivered
  <2> QED BY <2>1, <2>2
<1>6. Overtaken'
  (* A text after the last one that entered: only a later one may be there, *)
  (* and then this one is not the last and was given up.                    *)
  <2>1. ASSUME NEW j \in 1 .. Len(entered), entered[j] > i
        PROVE  i \in late
    BY <1>2, <2>1, EnteredBefore DEF LastRuns, Running
  <2> QED BY <1>1, <2>1 DEF Overtaken
<1> QED BY <1>3, <1>4, <1>5, <1>6

LEMMA FlushStep ==
  ASSUME TypeOK, Inv, NEW i \in Texts, Flush(i)
  PROVE  Inv'
<1> USE DEF TypeOK, Inv, Flush, callerVars, pipeVars
<1>1. Control' /\ LastRuns'
  BY DEF Control, LastRuns, Running
<1>2. Entered' /\ Overtaken'
  BY DEF Entered, Overtaken
<1>3. Delivered'
  BY DEF Delivered
<1> QED BY <1>1, <1>2, <1>3

LEMMA PushStep ==
  ASSUME TypeOK, Inv, NEW i \in Texts, Push(i)
  PROVE  Inv'
<1> USE DEF TypeOK, Inv, Push, callerVars
<1>1. Control' /\ LastRuns' /\ Entered' /\ Overtaken'
  BY DEF Control, LastRuns, Running, Entered, Overtaken
<1>2. Delivered'
  BY DEF Delivered
<1> QED BY <1>1, <1>2

(* The flush has sent all there is, the helper's own text included.         *)
LEMMA PushEndStep ==
  ASSUME TypeOK, Inv, NEW i \in Texts, PushEnd(i)
  PROVE  Inv'
<1> USE DEF TypeOK, Inv, PushEnd, Flushed, callerVars, pipeVars
<1>1. Control' /\ LastRuns'
  BY DEF Control, LastRuns, Running
<1>2. Entered' /\ Overtaken'
  BY DEF Entered, Overtaken
<1>3. Delivered'
  BY DEF Delivered
<1> QED BY <1>1, <1>2, <1>3

LEMMA PushFailsStep ==
  ASSUME TypeOK, Inv, NEW i \in Texts, PushFails(i)
  PROVE  Inv'
<1> USE DEF TypeOK, Inv, PushFails, AfterBreak, callerVars, pipeVars
<1>1. Control' /\ LastRuns'
  BY DEF Control, LastRuns, Running
<1>2. Entered' /\ Overtaken'
  BY DEF Entered, Overtaken
<1>3. Delivered'
  BY DEF Delivered
<1> QED BY <1>1, <1>2, <1>3

-----------------------------------------------------------------------------
LEMMA InvInit == Init => Inv
  BY StdinAssumption DEF Init, Inv, Control, LastRuns, Entered, Delivered, Overtaken, Running, Texts

LEMMA InvStep == TypeOK /\ Inv /\ [Next]_vars => Inv'
<1> SUFFICES ASSUME TypeOK, Inv, [Next]_vars PROVE Inv'
  OBVIOUS
<1>1. ASSUME NEW c \in Callers, Call(c) \/ Lock(c) \/ Join(c) \/ Check(c) PROVE Inv'
  BY <1>1, CallStep, LockStep, JoinStep, CheckStep
<1>2. ASSUME NEW i \in Texts, Help(i) PROVE Inv'
  BY <1>2, WriteStep, FlushStep, PushStep, PushEndStep, PushFailsStep DEF Help
<1>3. CASE Drain \/ Exit \/ UNCHANGED vars
  BY <1>3 DEF Drain, Exit, vars, pipeVars, callerVars, Inv, Control, LastRuns, Entered, Delivered,
              Overtaken, Running
<1> QED BY <1>1, <1>2, <1>3 DEF Next

LEMMA Inductive == Spec => [](TypeOK /\ Inv)
<1>1. Inv => Control
  BY DEF Inv
<1> QED BY <1>1, TypeInit, TypeStep, InvInit, InvStep, PTL DEF Spec

(* Every variable has its type in every state.                             *)
THEOREM TypeCorrect == Spec => []TypeOK
  BY Inductive, PTL

(* Texts reach the pipe in the order of their writes, however many callers *)
(* and helpers there are, but for those whose write timed out.             *)
THEOREM InOrderCorrect == Spec => []InOrder
<1>1. TypeOK /\ Inv => InOrder
  BY DEF TypeOK, Inv, Overtaken, InOrder
<1> QED BY <1>1, Inductive, PTL

(* An ok means that the text is in the pipe, and no text is sent twice.    *)
THEOREM OkSentCorrect == Spec => []OkSent
<1>1. TypeOK /\ Inv => OkSent
  BY DEF TypeOK, Inv, Delivered, Entered, OkSent
<1> QED BY <1>1, Inductive, PTL
=============================================================================
