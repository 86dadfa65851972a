------------------------ MODULE ProcessRegistryProofs ------------------------
(* Theorems about ProcessRegistry, for any workers, ids and limits. *)
EXTENDS ProcessRegistry, NaturalSets

(* How the steps of a handler depend on its operation: a list only counts   *)
(* and lists, a stop never spawns, every other step has an id, and the      *)
(* steps of a stop have a child.                                            *)
Acting == {"recall", "gc", "spawn", "get", "signal", "wait", "kill", "rewait",
           "stopped", "pop", "status"}

Holding == {"signal", "wait", "kill", "rewait", "stopped", "pop"}

Respawning == {"recall", "gc", "spawn", "stopped", "pop"}

Control ==
    /\ op[Main] \in {"none", "stop"}
    /\ pc[Main] = "idle" => reply[Main] = "none"
    /\ pc[Main] \notin Respawning
    /\ \A t \in Threads :
          /\ op[t] = "list" => pc[t] \in {"idle", "gc", "keys", "visit"}
          /\ pc[t] \in {"keys", "visit"} => op[t] = "list"
          /\ op[t] = "stop" => pc[t] \notin Respawning
          /\ pc[t] \in Acting /\ op[t] # "list" => arg[t] \in Ids
          /\ pc[t] \in Holding => got[t] \in Children

(* Every variable has its type initially.                                   *)
LEMMA TypeInit == Init => TypeOK
  BY DEF Init, TypeOK, Steps, Threads, Faults

(* Every step of a thread, of the system or of the clock keeps the types.   *)
LEMMA TypeStep == TypeOK /\ Control /\ [Next]_vars => TypeOK'
<1> SUFFICES ASSUME TypeOK, Control, [Next]_vars
             PROVE  TypeOK'
  OBVIOUS
<1> USE DEF TypeOK, osVars, callVars
<1>1. ASSUME NEW t \in Workers, NEW o \in Ops, NEW i \in Ids \cup {None}, NEW f \in BOOLEAN,
             Call(t, o, i, f)
      PROVE  TypeOK'
  BY <1>1, RegistryAssumption DEF Call, FirstStep, Steps, Threads
<1>2. ASSUME NEW t \in Threads, StartStep(t)
      PROVE  TypeOK'
  <2>1. CASE StartRefused(t)
    BY <2>1 DEF StartRefused, Return, Steps, Faults
  <2>2. ASSUME NEW dying \in SUBSET Children, Gc(t, dying)
        PROVE  TypeOK'
    BY <2>2 DEF Gc, Goto, Return, Steps, Faults
  <2>3. CASE SpawnExists(t)
    BY <2>3 DEF SpawnExists, Return, Steps, Faults
  <2>4. CASE SpawnFails(t)
    BY <2>4 DEF SpawnFails, Return, Steps, Faults
  <2>5. ASSUME NEW c \in Children, NEW forks \in BOOLEAN,
                    Spawn(t, c, forks)
        PROVE  TypeOK'
    BY <2>5 DEF Spawn, Goto, Steps
  <2> QED BY <1>2, <2>1, <2>2, <2>3, <2>4, <2>5 DEF StartStep
<1>3. ASSUME NEW t \in Threads, StopStep(t)
      PROVE  TypeOK'
  <2>1. CASE Get(t)
    BY <2>1 DEF Get, Registered, Goto, Return, Steps, Faults
  <2>2. CASE Signal(t)
    BY <2>2 DEF Signal, TerminateTree, Killed, Missed, Goto, Steps, Control, Holding
  <2>3. CASE TaskkillHangs(t)
    BY <2>3 DEF TaskkillHangs, Return, Steps, Faults, Control, Holding
  <2>4. CASE WaitDone(t)
    BY <2>4 DEF WaitDone, Goto, Steps
  <2>5. CASE WaitTimeout(t)
    BY <2>5 DEF WaitTimeout, TimedOut, Goto, Return, Steps, Faults
  <2>6. CASE Status(t)
    BY <2>6 DEF Status, Return, Steps, Faults
  <2> QED BY <1>3, <2>1, <2>2, <2>3, <2>4, <2>5, <2>6 DEF StopStep
<1>4. ASSUME NEW t \in Threads, RestartStep(t)
      PROVE  TypeOK'
  <2>1. CASE Recall(t)
    BY <2>1 DEF Recall, Goto, Return, Steps, Faults
  <2>2. CASE Stopped(t)
    BY <2>2 DEF Stopped, Goto, Return, Steps, Faults
  <2>3. CASE Pop(t)
    BY <2>3 DEF Pop, Goto, Steps
  <2> QED BY <1>4, <2>1, <2>2, <2>3 DEF RestartStep
<1>5. ASSUME NEW t \in Threads, ListStep(t)
      PROVE  TypeOK'
  <2>1. CASE Keys(t)
    BY <2>1 DEF Keys, Registered, Goto, Steps
  <2>2. CASE Listed(t)
    BY <2>2 DEF Listed, Return, Steps, Faults
  <2>3. ASSUME NEW i \in Ids, Visit(t, i)
        PROVE  TypeOK'
    BY <2>3 DEF Visit, Goto, Return, Steps, Faults
  <2> QED BY <1>5, <2>1, <2>2, <2>3 DEF ListStep
<1>6. CASE BeginCleanup
  BY <1>6 DEF BeginCleanup, Registered, Steps, Threads
<1>7. CASE CleanupStep
  <2>1. CASE CleanupDone
    BY <2>1 DEF CleanupDone, JobKills, Goto, Steps
  <2>2. ASSUME NEW i \in Ids, CleanupNext(i)
        PROVE  TypeOK'
    BY <2>2 DEF CleanupNext, Goto, Steps
  <2> QED BY <1>7, <2>1, <2>2 DEF CleanupStep
<1>8. ASSUME NEW c \in Children, Exit(c) \/ TreeExit(c) \/ Age(c)
      PROVE  TypeOK'
  BY <1>8 DEF Exit, TreeExit, Age
<1>9. CASE UNCHANGED vars
  BY <1>9 DEF vars
<1> HIDE DEF TypeOK
<1> QED BY <1>1, <1>2, <1>3, <1>4, <1>5, <1>6, <1>7, <1>8, <1>9 DEF Next, HandlerStep

(* No handler runs initially.                                               *)
LEMMA ControlInit == Init => Control
  BY DEF Init, Control, Threads, Acting, Holding, Respawning

(* Every step goes on within the operation its handler runs.                *)
LEMMA ControlStep == TypeOK /\ Control /\ [Next]_vars => Control'
<1> SUFFICES ASSUME TypeOK, Control, [Next]_vars
             PROVE  Control'
  OBVIOUS
<1> USE DEF TypeOK, Control, Acting, Holding, Respawning, osVars, callVars, Threads
<1>1. ASSUME NEW t \in Workers, NEW o \in Ops, NEW i \in Ids \cup {None}, NEW f \in BOOLEAN,
             Call(t, o, i, f)
      PROVE  Control'
  BY <1>1, RegistryAssumption DEF Call, FirstStep
<1>2. ASSUME NEW t \in Threads, StartStep(t)
      PROVE  Control'
  <2>1. CASE StartRefused(t)
    BY <2>1 DEF StartRefused, Return
  <2>2. ASSUME NEW dying \in SUBSET Children, Gc(t, dying)
        PROVE  Control'
    BY <2>2 DEF Gc, Goto, Return
  <2>3. CASE SpawnExists(t)
    BY <2>3 DEF SpawnExists, Return
  <2>4. CASE SpawnFails(t)
    BY <2>4 DEF SpawnFails, Return
  <2>5. ASSUME NEW c \in Children, NEW forks \in BOOLEAN,
                    Spawn(t, c, forks)
        PROVE  Control'
    BY <2>5 DEF Spawn, Goto
  <2> QED BY <1>2, <2>1, <2>2, <2>3, <2>4, <2>5 DEF StartStep
<1>3. ASSUME NEW t \in Threads, StopStep(t)
      PROVE  Control'
  <2>1. CASE Get(t)
    BY <2>1 DEF Get, Registered, Goto, Return
  <2>2. CASE Signal(t)
    BY <2>2 DEF Signal, TerminateTree, Killed, Missed, Goto
  <2>3. CASE TaskkillHangs(t)
    BY <2>3 DEF TaskkillHangs, Return
  <2>4. CASE WaitDone(t)
    BY <2>4 DEF WaitDone, Waited, Goto
  <2>5. CASE WaitTimeout(t)
    BY <2>5 DEF WaitTimeout, TimedOut, Goto, Return
  <2>6. CASE Status(t)
    BY <2>6 DEF Status, Return
  <2> QED BY <1>3, <2>1, <2>2, <2>3, <2>4, <2>5, <2>6 DEF StopStep
<1>4. ASSUME NEW t \in Threads, RestartStep(t)
      PROVE  Control'
  <2>1. CASE Recall(t)
    BY <2>1 DEF Recall, Registered, Goto, Return
  <2>2. CASE Stopped(t)
    BY <2>2 DEF Stopped, Goto, Return
  <2>3. CASE Pop(t)
    BY <2>3 DEF Pop, Goto
  <2> QED BY <1>4, <2>1, <2>2, <2>3 DEF RestartStep
<1>5. ASSUME NEW t \in Threads, ListStep(t)
      PROVE  Control'
  <2>1. CASE Keys(t)
    BY <2>1 DEF Keys, Goto
  <2>2. CASE Listed(t)
    BY <2>2 DEF Listed, Return
  <2>3. ASSUME NEW i \in Ids, Visit(t, i)
        PROVE  Control'
    BY <2>3 DEF Visit, Goto, Return
  <2> QED BY <1>5, <2>1, <2>2, <2>3 DEF ListStep
<1>6. CASE BeginCleanup
  BY <1>6, RegistryAssumption DEF BeginCleanup, Registered
<1>7. CASE CleanupStep
  <2>1. CASE CleanupDone
    BY <2>1, RegistryAssumption DEF CleanupDone, JobKills, Goto
  <2>2. ASSUME NEW i \in Ids, CleanupNext(i)
        PROVE  Control'
    BY <2>2, RegistryAssumption DEF CleanupNext, Goto
  <2> QED BY <1>7, <2>1, <2>2 DEF CleanupStep
<1>8. ASSUME NEW c \in Children, Exit(c) \/ TreeExit(c) \/ Age(c)
      PROVE  Control'
  BY <1>8 DEF Exit, TreeExit, Age
<1>9. CASE UNCHANGED vars
  BY <1>9 DEF vars
<1> HIDE DEF TypeOK, Control
<1> QED BY <1>1, <1>2, <1>3, <1>4, <1>5, <1>6, <1>7, <1>8, <1>9 DEF Next, HandlerStep

-----------------------------------------------------------------------------
(* Every variable of the registry keeps its type. *)
THEOREM TypeCorrect == Spec => []TypeOK
<1>1. Init => TypeOK /\ Control
  BY TypeInit, ControlInit
<1>2. TypeOK /\ Control /\ [Next]_vars => TypeOK' /\ Control'
  BY TypeStep, ControlStep
<1> QED BY <1>1, <1>2, PTL DEF Spec

-----------------------------------------------------------------------------
(* A child that an entry or a handler refers to has been spawned. *)
Born ==
    /\ \A i \in Ids : items[i] \in Children => leader[items[i]] # "unborn"
    /\ \A t \in Threads : got[t] \in Children => leader[got[t]] # "unborn"

(* A spawn is the only way into an entry or a handler.                      *)
LEMMA BornStep == TypeOK /\ Control /\ Born /\ [Next]_vars => Born'
<1> SUFFICES ASSUME TypeOK, Control, Born, [Next]_vars
             PROVE  Born'
  OBVIOUS
<1> USE DEF TypeOK, Control, Born, Acting, Holding, Respawning, osVars, callVars, Threads
<1>1. ASSUME NEW t \in Workers, NEW o \in Ops, NEW i \in Ids \cup {None}, NEW f \in BOOLEAN,
             Call(t, o, i, f)
      PROVE  Born'
  BY <1>1, RegistryAssumption DEF Call, FirstStep
<1>2. ASSUME NEW t \in Threads, StartStep(t)
      PROVE  Born'
  <2>1. CASE StartRefused(t)
    BY <2>1 DEF StartRefused, Return
  <2>2. ASSUME NEW dying \in SUBSET Children, Gc(t, dying)
        PROVE  Born'
    BY <2>2, RegistryAssumption DEF Gc, Goto, Return
  <2>3. CASE SpawnExists(t)
    BY <2>3 DEF SpawnExists, Return
  <2>4. CASE SpawnFails(t)
    BY <2>4 DEF SpawnFails, Return
  <2>5. ASSUME NEW c \in Children, NEW forks \in BOOLEAN,
                    Spawn(t, c, forks)
        PROVE  Born'
    BY <2>5 DEF Spawn, Goto
  <2> QED BY <1>2, <2>1, <2>2, <2>3, <2>4, <2>5 DEF StartStep
<1>3. ASSUME NEW t \in Threads, StopStep(t)
      PROVE  Born'
  <2>1. CASE Get(t)
    BY <2>1 DEF Get, Registered, Goto, Return
  <2>2. CASE Signal(t)
    BY <2>2 DEF Signal, TerminateTree, Killed, Missed, Goto
  <2>3. CASE TaskkillHangs(t)
    BY <2>3 DEF TaskkillHangs, Return
  <2>4. CASE WaitDone(t)
    BY <2>4 DEF WaitDone, Waited, Goto
  <2>5. CASE WaitTimeout(t)
    BY <2>5 DEF WaitTimeout, TimedOut, Goto, Return
  <2>6. CASE Status(t)
    BY <2>6 DEF Status, Return
  <2> QED BY <1>3, <2>1, <2>2, <2>3, <2>4, <2>5, <2>6 DEF StopStep
<1>4. ASSUME NEW t \in Threads, RestartStep(t)
      PROVE  Born'
  <2>1. CASE Recall(t)
    BY <2>1 DEF Recall, Registered, Goto, Return
  <2>2. CASE Stopped(t)
    BY <2>2 DEF Stopped, Goto, Return
  <2>3. CASE Pop(t)
    BY <2>3, RegistryAssumption DEF Pop, Goto
  <2> QED BY <1>4, <2>1, <2>2, <2>3 DEF RestartStep
<1>5. ASSUME NEW t \in Threads, ListStep(t)
      PROVE  Born'
  <2>1. CASE Keys(t)
    BY <2>1 DEF Keys, Goto
  <2>2. CASE Listed(t)
    BY <2>2 DEF Listed, Return
  <2>3. ASSUME NEW i \in Ids, Visit(t, i)
        PROVE  Born'
    BY <2>3 DEF Visit, Goto, Return
  <2> QED BY <1>5, <2>1, <2>2, <2>3 DEF ListStep
<1>6. CASE BeginCleanup
  BY <1>6, RegistryAssumption DEF BeginCleanup, Registered
<1>7. CASE CleanupStep
  <2>1. CASE CleanupDone
    BY <2>1, RegistryAssumption DEF CleanupDone, JobKills, Goto
  <2>2. ASSUME NEW i \in Ids, CleanupNext(i)
        PROVE  Born'
    BY <2>2, RegistryAssumption DEF CleanupNext, Goto
  <2> QED BY <1>7, <2>1, <2>2 DEF CleanupStep
<1>8. ASSUME NEW c \in Children, Exit(c) \/ TreeExit(c) \/ Age(c)
      PROVE  Born'
  BY <1>8 DEF Exit, TreeExit, Age
<1>9. CASE UNCHANGED vars
  BY <1>9 DEF vars
<1> HIDE DEF TypeOK, Control, Born
<1> QED BY <1>1, <1>2, <1>3, <1>4, <1>5, <1>6, <1>7, <1>8, <1>9 DEF Next, HandlerStep

-----------------------------------------------------------------------------
(* A stop that answers, and the stop in a restart before the entry is       *)
(* dropped, left the child it looked up first exited.                       *)
Ended(t) == got[t] \in Children /\ leader[got[t]] = "exited"

AfterWait(t) ==
    \/ pc[t] = "status" /\ op[t] = "stop"
    \/ pc[t] \in {"stopped", "pop"}
    \/ op[t] = "stop" /\ reply[t] = "ok" /\ pc[t] \in {"idle", "cleanup", "exited"}

EndedAfterWait == \A t \in Threads : AfterWait(t) => Ended(t)

(* A wait that returns saw the child exited, and exited is for good.        *)
LEMMA EndedStep == TypeOK /\ Control /\ Born /\ EndedAfterWait /\ [Next]_vars => EndedAfterWait'
<1> SUFFICES ASSUME TypeOK, Control, Born, EndedAfterWait, [Next]_vars
             PROVE  EndedAfterWait'
  OBVIOUS
<1> USE DEF TypeOK, Control, Born, Holding, Respawning, EndedAfterWait, AfterWait, Ended, Alive, osVars, callVars, Threads
<1>1. ASSUME NEW t \in Workers, NEW o \in Ops, NEW i \in Ids \cup {None}, NEW f \in BOOLEAN,
             Call(t, o, i, f)
      PROVE  EndedAfterWait'
  BY <1>1, RegistryAssumption DEF Call, FirstStep
<1>2. ASSUME NEW t \in Threads, StartStep(t)
      PROVE  EndedAfterWait'
  <2>1. CASE StartRefused(t)
    BY <2>1 DEF StartRefused, Return
  <2>2. ASSUME NEW dying \in SUBSET Children, Gc(t, dying)
        PROVE  EndedAfterWait'
    BY <2>2 DEF Gc, Goto, Return
  <2>3. CASE SpawnExists(t)
    BY <2>3 DEF SpawnExists, Return
  <2>4. CASE SpawnFails(t)
    BY <2>4 DEF SpawnFails, Return
  <2>5. ASSUME NEW c \in Children, NEW forks \in BOOLEAN,
                    Spawn(t, c, forks)
        PROVE  EndedAfterWait'
    <3>1. leader[c] = "unborn"
      BY <2>5 DEF Spawn, Unborn
    <3>2. ASSUME NEW u \in Threads, u # t, AfterWait(u)'
          PROVE  Ended(u)'
      <4>1. Ended(u)
        BY <2>5, <3>2 DEF Spawn, Goto
      <4> QED BY <2>5, <3>1, <3>2, <4>1 DEF Spawn
    <3>3. ~AfterWait(t)'
      BY <2>5 DEF Spawn, Goto
    <3> QED BY <3>2, <3>3
  <2> QED BY <1>2, <2>1, <2>2, <2>3, <2>4, <2>5 DEF StartStep
<1>3. ASSUME NEW t \in Threads, StopStep(t)
      PROVE  EndedAfterWait'
  <2>1. CASE Get(t)
    BY <2>1 DEF Get, Registered, Goto, Return
  <2>2. CASE Signal(t)
    BY <2>2 DEF Signal, TerminateTree, Killed, Missed, Goto
  <2>3. CASE TaskkillHangs(t)
    BY <2>3 DEF TaskkillHangs, Return
  <2>4. CASE WaitDone(t)
    BY <2>4 DEF WaitDone, Waited, Goto
  <2>5. CASE WaitTimeout(t)
    BY <2>5 DEF WaitTimeout, TimedOut, Goto, Return
  <2>6. CASE Status(t)
    BY <2>6 DEF Status, Return
  <2> QED BY <1>3, <2>1, <2>2, <2>3, <2>4, <2>5, <2>6 DEF StopStep
<1>4. ASSUME NEW t \in Threads, RestartStep(t)
      PROVE  EndedAfterWait'
  <2>1. CASE Recall(t)
    BY <2>1 DEF Recall, Registered, Goto, Return
  <2>2. CASE Stopped(t)
    BY <2>2 DEF Stopped, Goto, Return
  <2>3. CASE Pop(t)
    BY <2>3 DEF Pop, Goto
  <2> QED BY <1>4, <2>1, <2>2, <2>3 DEF RestartStep
<1>5. ASSUME NEW t \in Threads, ListStep(t)
      PROVE  EndedAfterWait'
  <2>1. CASE Keys(t)
    BY <2>1 DEF Keys, Goto
  <2>2. CASE Listed(t)
    BY <2>2 DEF Listed, Return
  <2>3. ASSUME NEW i \in Ids, Visit(t, i)
        PROVE  EndedAfterWait'
    BY <2>3 DEF Visit, Goto, Return
  <2> QED BY <1>5, <2>1, <2>2, <2>3 DEF ListStep
<1>6. CASE BeginCleanup
  BY <1>6, RegistryAssumption DEF BeginCleanup, Registered
<1>7. CASE CleanupStep
  <2>1. CASE CleanupDone
    BY <2>1, RegistryAssumption DEF CleanupDone, JobKills, Goto
  <2>2. ASSUME NEW i \in Ids, CleanupNext(i)
        PROVE  EndedAfterWait'
    BY <2>2, RegistryAssumption DEF CleanupNext, Goto
  <2> QED BY <1>7, <2>1, <2>2 DEF CleanupStep
<1>8. ASSUME NEW c \in Children, Exit(c) \/ TreeExit(c) \/ Age(c)
      PROVE  EndedAfterWait'
  BY <1>8 DEF Exit, TreeExit, Age
<1>9. CASE UNCHANGED vars
  BY <1>9 DEF vars
<1> HIDE DEF TypeOK, Control, Born, EndedAfterWait, AfterWait, Ended
<1> QED BY <1>1, <1>2, <1>3, <1>4, <1>5, <1>6, <1>7, <1>8, <1>9 DEF Next, HandlerStep

(* A stop that answers ok has ended the child it looked up, whatever the    *)
(* other threads did to the id meanwhile.                                   *)
THEOREM StopCorrect == Spec => []StopEndsItsChild
<1> DEFINE IInv == TypeOK /\ Control /\ Born /\ EndedAfterWait
<1>1. Init => IInv
  BY ControlInit, TypeInit, RegistryAssumption DEF Init, Born, EndedAfterWait, AfterWait, Threads
<1>2. IInv /\ [Next]_vars => IInv'
  BY TypeStep, ControlStep, BornStep, EndedStep
<1>3. IInv => StopEndsItsChild
  BY DEF EndedAfterWait, AfterWait, Ended, StopEndsItsChild
<1> QED BY <1>1, <1>2, <1>3, PTL DEF Spec

-----------------------------------------------------------------------------
(* Only a restart, at its "pop", drops or replaces an entry whose child     *)
(* runs.                                                                    *)
Popping(i) == \E t \in Workers : pc[t] = "pop" /\ arg[t] = i

EntriesKept == \A i \in LiveIds : items'[i] = items[i] \/ Popping(i)

(* _gc evicts exited entries only, and a start replaces none that is alive. *)
LEMMA LiveEntryStep == TypeOK /\ Control /\ [Next]_vars => EntriesKept
<1> SUFFICES ASSUME TypeOK, Control, [Next]_vars
             PROVE  EntriesKept
  OBVIOUS
<1> USE DEF TypeOK, EntriesKept, LiveIds, Registered, osVars, callVars, Threads
<1>1. ASSUME NEW t \in Workers, NEW o \in Ops, NEW i \in Ids \cup {None}, NEW f \in BOOLEAN,
             Call(t, o, i, f)
      PROVE  EntriesKept
  BY <1>1, RegistryAssumption DEF Call, FirstStep
<1>2. ASSUME NEW t \in Threads, StartStep(t)
      PROVE  EntriesKept
  <2>1. CASE StartRefused(t)
    BY <2>1 DEF StartRefused, Return
  <2>2. ASSUME NEW dying \in SUBSET Children, Gc(t, dying)
        PROVE  EntriesKept
    BY <2>2 DEF Gc, Survivors, Evicted, Kept
  <2>3. CASE SpawnExists(t)
    BY <2>3 DEF SpawnExists, Return
  <2>4. CASE SpawnFails(t)
    BY <2>4 DEF SpawnFails, Return
  <2>5. ASSUME NEW c \in Children, NEW forks \in BOOLEAN,
                    Spawn(t, c, forks)
        PROVE  EntriesKept
    BY <2>5 DEF Spawn, Free
  <2> QED BY <1>2, <2>1, <2>2, <2>3, <2>4, <2>5 DEF StartStep
<1>3. ASSUME NEW t \in Threads, StopStep(t)
      PROVE  EntriesKept
  <2>1. CASE Get(t)
    BY <2>1 DEF Get, Registered, Goto, Return
  <2>2. CASE Signal(t)
    BY <2>2 DEF Signal, TerminateTree, Killed, Missed, Goto
  <2>3. CASE TaskkillHangs(t)
    BY <2>3 DEF TaskkillHangs, Return
  <2>4. CASE WaitDone(t)
    BY <2>4 DEF WaitDone, Waited, Goto
  <2>5. CASE WaitTimeout(t)
    BY <2>5 DEF WaitTimeout, TimedOut, Goto, Return
  <2>6. CASE Status(t)
    BY <2>6 DEF Status, Return
  <2> QED BY <1>3, <2>1, <2>2, <2>3, <2>4, <2>5, <2>6 DEF StopStep
<1>4. ASSUME NEW t \in Threads, RestartStep(t)
      PROVE  EntriesKept
  <2>1. CASE Recall(t)
    BY <2>1 DEF Recall, Registered, Goto, Return
  <2>2. CASE Stopped(t)
    BY <2>2 DEF Stopped, Goto, Return
  <2>3. CASE Pop(t)
    BY <2>3 DEF Pop, Popping, Control, Respawning
  <2> QED BY <1>4, <2>1, <2>2, <2>3 DEF RestartStep
<1>5. ASSUME NEW t \in Threads, ListStep(t)
      PROVE  EntriesKept
  <2>1. CASE Keys(t)
    BY <2>1 DEF Keys, Goto
  <2>2. CASE Listed(t)
    BY <2>2 DEF Listed, Return
  <2>3. ASSUME NEW i \in Ids, Visit(t, i)
        PROVE  EntriesKept
    BY <2>3 DEF Visit, Goto, Return
  <2> QED BY <1>5, <2>1, <2>2, <2>3 DEF ListStep
<1>6. CASE BeginCleanup
  BY <1>6, RegistryAssumption DEF BeginCleanup, Registered
<1>7. CASE CleanupStep
  <2>1. CASE CleanupDone
    BY <2>1, RegistryAssumption DEF CleanupDone, JobKills, Goto
  <2>2. ASSUME NEW i \in Ids, CleanupNext(i)
        PROVE  EntriesKept
    BY <2>2, RegistryAssumption DEF CleanupNext, Goto
  <2> QED BY <1>7, <2>1, <2>2 DEF CleanupStep
<1>8. ASSUME NEW c \in Children, Exit(c) \/ TreeExit(c) \/ Age(c)
      PROVE  EntriesKept
  BY <1>8 DEF Exit, TreeExit, Age
<1>9. CASE UNCHANGED vars
  BY <1>9 DEF vars
<1> HIDE DEF TypeOK, EntriesKept, LiveIds, Registered
<1> QED BY <1>1, <1>2, <1>3, <1>4, <1>5, <1>6, <1>7, <1>8, <1>9 DEF Next, HandlerStep

(* An entry whose child runs is never dropped or replaced, but by a restart *)
(* of that very id.                                                         *)
THEOREM LiveEntryKeptCorrect == Spec => LiveEntryKept
<1> DEFINE IInv == TypeOK /\ Control
<1>1. Init => IInv
  BY ControlInit, TypeInit
<1>2. IInv /\ [Next]_vars => IInv'
  BY TypeStep, ControlStep
<1>3. IInv /\ [Next]_vars
      => [\A i \in LiveIds :
             items'[i] = items[i] \/ \E t \in Workers : pc[t] = "pop" /\ arg[t] = i]_vars
  BY LiveEntryStep DEF EntriesKept, Popping
<1> QED BY <1>1, <1>2, <1>3, PTL DEF Spec, LiveEntryKept

-----------------------------------------------------------------------------
(* Without restart no entry is popped, and so every child that runs keeps   *)
(* the entry its start gave it.                                             *)
NoRestarts == \A t \in Threads : op[t] # "restart" /\ pc[t] \notin {"recall", "stopped", "pop"}

(* A client that never asks for a restart never makes a handler pop.        *)
LEMMA NoRestartsStep ==
  ASSUME "restart" \notin Ops
  PROVE  TypeOK /\ NoRestarts /\ [Next]_vars => NoRestarts'
<1> SUFFICES ASSUME TypeOK, NoRestarts, [Next]_vars
             PROVE  NoRestarts'
  OBVIOUS
<1> USE DEF TypeOK, NoRestarts, osVars, callVars, Threads
<1>1. ASSUME NEW t \in Workers, NEW o \in Ops, NEW i \in Ids \cup {None}, NEW f \in BOOLEAN,
             Call(t, o, i, f)
      PROVE  NoRestarts'
  BY <1>1, RegistryAssumption DEF Call, FirstStep
<1>2. ASSUME NEW t \in Threads, StartStep(t)
      PROVE  NoRestarts'
  <2>1. CASE StartRefused(t)
    BY <2>1 DEF StartRefused, Return
  <2>2. ASSUME NEW dying \in SUBSET Children, Gc(t, dying)
        PROVE  NoRestarts'
    BY <2>2 DEF Gc, Goto, Return
  <2>3. CASE SpawnExists(t)
    BY <2>3 DEF SpawnExists, Return
  <2>4. CASE SpawnFails(t)
    BY <2>4 DEF SpawnFails, Return
  <2>5. ASSUME NEW c \in Children, NEW forks \in BOOLEAN,
                    Spawn(t, c, forks)
        PROVE  NoRestarts'
    BY <2>5 DEF Spawn, Goto
  <2> QED BY <1>2, <2>1, <2>2, <2>3, <2>4, <2>5 DEF StartStep
<1>3. ASSUME NEW t \in Threads, StopStep(t)
      PROVE  NoRestarts'
  <2>1. CASE Get(t)
    BY <2>1 DEF Get, Registered, Goto, Return
  <2>2. CASE Signal(t)
    BY <2>2 DEF Signal, TerminateTree, Killed, Missed, Goto
  <2>3. CASE TaskkillHangs(t)
    BY <2>3 DEF TaskkillHangs, Return
  <2>4. CASE WaitDone(t)
    BY <2>4 DEF WaitDone, Waited, Goto
  <2>5. CASE WaitTimeout(t)
    BY <2>5 DEF WaitTimeout, TimedOut, Goto, Return
  <2>6. CASE Status(t)
    BY <2>6 DEF Status, Return
  <2> QED BY <1>3, <2>1, <2>2, <2>3, <2>4, <2>5, <2>6 DEF StopStep
<1>4. ASSUME NEW t \in Threads, RestartStep(t)
      PROVE  NoRestarts'
  <2>1. CASE Recall(t)
    BY <2>1 DEF Recall, Registered, Goto, Return
  <2>2. CASE Stopped(t)
    BY <2>2 DEF Stopped, Goto, Return
  <2>3. CASE Pop(t)
    BY <2>3 DEF Pop, Goto
  <2> QED BY <1>4, <2>1, <2>2, <2>3 DEF RestartStep
<1>5. ASSUME NEW t \in Threads, ListStep(t)
      PROVE  NoRestarts'
  <2>1. CASE Keys(t)
    BY <2>1 DEF Keys, Goto
  <2>2. CASE Listed(t)
    BY <2>2 DEF Listed, Return
  <2>3. ASSUME NEW i \in Ids, Visit(t, i)
        PROVE  NoRestarts'
    BY <2>3 DEF Visit, Goto, Return
  <2> QED BY <1>5, <2>1, <2>2, <2>3 DEF ListStep
<1>6. CASE BeginCleanup
  BY <1>6, RegistryAssumption DEF BeginCleanup, Registered
<1>7. CASE CleanupStep
  <2>1. CASE CleanupDone
    BY <2>1, RegistryAssumption DEF CleanupDone, JobKills, Goto
  <2>2. ASSUME NEW i \in Ids, CleanupNext(i)
        PROVE  NoRestarts'
    BY <2>2, RegistryAssumption DEF CleanupNext, Goto
  <2> QED BY <1>7, <2>1, <2>2 DEF CleanupStep
<1>8. ASSUME NEW c \in Children, Exit(c) \/ TreeExit(c) \/ Age(c)
      PROVE  NoRestarts'
  BY <1>8 DEF Exit, TreeExit, Age
<1>9. CASE UNCHANGED vars
  BY <1>9 DEF vars
<1> HIDE DEF TypeOK, NoRestarts
<1> QED BY <1>1, <1>2, <1>3, <1>4, <1>5, <1>6, <1>7, <1>8, <1>9 DEF Next, HandlerStep

(* A child that starts to run is registered in the same step. *)
Named(b) == \E i \in Ids : items[i] = b

LEMMA BirthStep ==
  ASSUME TypeOK, Control, [Next]_vars, NEW b \in Children, Alive(b)'
  PROVE  Alive(b) \/ Named(b)'
<1> DEFINE Birth == Alive(b) \/ Named(b)'
<1> SUFFICES Birth
  OBVIOUS
<1> USE DEF TypeOK, Alive, osVars, callVars
<1>1. ASSUME NEW t \in Workers, NEW o \in Ops, NEW i \in Ids \cup {None}, NEW f \in BOOLEAN,
             Call(t, o, i, f)
      PROVE  Birth
  BY <1>1, RegistryAssumption DEF Call, FirstStep
<1>2. ASSUME NEW t \in Threads, StartStep(t)
      PROVE  Birth
  <2>1. CASE StartRefused(t)
    BY <2>1 DEF StartRefused, Return
  <2>2. ASSUME NEW dying \in SUBSET Children, Gc(t, dying)
        PROVE  Birth
    BY <2>2 DEF Gc, Goto, Return
  <2>3. CASE SpawnExists(t)
    BY <2>3 DEF SpawnExists, Return
  <2>4. CASE SpawnFails(t)
    BY <2>4 DEF SpawnFails, Return
  <2>5. ASSUME NEW c \in Children, NEW forks \in BOOLEAN,
                    Spawn(t, c, forks)
        PROVE  Birth
    BY <2>5 DEF Spawn, Goto, Control, Acting, Named
  <2> QED BY <1>2, <2>1, <2>2, <2>3, <2>4, <2>5 DEF StartStep
<1>3. ASSUME NEW t \in Threads, StopStep(t)
      PROVE  Birth
  <2>1. CASE Get(t)
    BY <2>1 DEF Get, Registered, Goto, Return
  <2>2. CASE Signal(t)
    BY <2>2 DEF Signal, TerminateTree, Killed, Missed, Goto
  <2>3. CASE TaskkillHangs(t)
    BY <2>3 DEF TaskkillHangs, Return
  <2>4. CASE WaitDone(t)
    BY <2>4 DEF WaitDone, Waited, Goto
  <2>5. CASE WaitTimeout(t)
    BY <2>5 DEF WaitTimeout, TimedOut, Goto, Return
  <2>6. CASE Status(t)
    BY <2>6 DEF Status, Return
  <2> QED BY <1>3, <2>1, <2>2, <2>3, <2>4, <2>5, <2>6 DEF StopStep
<1>4. ASSUME NEW t \in Threads, RestartStep(t)
      PROVE  Birth
  <2>1. CASE Recall(t)
    BY <2>1 DEF Recall, Registered, Goto, Return
  <2>2. CASE Stopped(t)
    BY <2>2 DEF Stopped, Goto, Return
  <2>3. CASE Pop(t)
    BY <2>3 DEF Pop, Goto
  <2> QED BY <1>4, <2>1, <2>2, <2>3 DEF RestartStep
<1>5. ASSUME NEW t \in Threads, ListStep(t)
      PROVE  Birth
  <2>1. CASE Keys(t)
    BY <2>1 DEF Keys, Goto
  <2>2. CASE Listed(t)
    BY <2>2 DEF Listed, Return
  <2>3. ASSUME NEW i \in Ids, Visit(t, i)
        PROVE  Birth
    BY <2>3 DEF Visit, Goto, Return
  <2> QED BY <1>5, <2>1, <2>2, <2>3 DEF ListStep
<1>6. CASE BeginCleanup
  BY <1>6, RegistryAssumption DEF BeginCleanup, Registered
<1>7. CASE CleanupStep
  <2>1. CASE CleanupDone
    BY <2>1, RegistryAssumption DEF CleanupDone, JobKills, Goto
  <2>2. ASSUME NEW i \in Ids, CleanupNext(i)
        PROVE  Birth
    BY <2>2, RegistryAssumption DEF CleanupNext, Goto
  <2> QED BY <1>7, <2>1, <2>2 DEF CleanupStep
<1>8. ASSUME NEW c \in Children, Exit(c) \/ TreeExit(c) \/ Age(c)
      PROVE  Birth
  BY <1>8 DEF Exit, TreeExit, Age
<1>9. CASE UNCHANGED vars
  BY <1>9 DEF vars
<1> HIDE DEF Birth, TypeOK, Alive
<1> QED BY <1>1, <1>2, <1>3, <1>4, <1>5, <1>6, <1>7, <1>8, <1>9 DEF Next, HandlerStep

(* The entry of a child that runs outlives every step.                      *)
LEMMA OrphanStep ==
  ASSUME RegistryAssumption, NoRestarts
  PROVE  TypeOK /\ Control /\ NoOrphan /\ [Next]_vars => NoOrphan'
<1> SUFFICES ASSUME TypeOK, Control, NoOrphan, [Next]_vars, NEW b \in Children, Alive(b)'
             PROVE  \E i \in Registered' : items'[i] = b
  BY DEF NoOrphan
<1>1. CASE Alive(b)
  <2>1. PICK i \in Registered : items[i] = b
    BY <1>1 DEF NoOrphan
  <2>2. items'[i] = b
    BY <1>1, <2>1, LiveEntryStep DEF EntriesKept, Popping, LiveIds, NoRestarts, Threads
  <2> QED BY <2>1, <2>2, RegistryAssumption DEF Registered
<1>2. CASE ~Alive(b)
  BY <1>2, BirthStep, RegistryAssumption DEF Named, Registered
<1> QED BY <1>1, <1>2

(* As long as no client uses restart, every child that runs is named by an  *)
(* entry, so that a stop or the cleanup at exit can reach it.               *)
THEOREM NoOrphanCorrect ==
  ASSUME "restart" \notin Ops
  PROVE  Spec => []NoOrphan
<1> DEFINE IInv == TypeOK /\ Control /\ NoRestarts /\ NoOrphan
<1>1. Init => IInv
  BY ControlInit, TypeInit DEF Init, NoRestarts, NoOrphan, Alive
<1>2. IInv /\ [Next]_vars => IInv'
  BY TypeStep, ControlStep, NoRestartsStep, OrphanStep, RegistryAssumption
<1> QED BY <1>1, <1>2, PTL DEF Spec

-----------------------------------------------------------------------------
(* The exit of the server.  Cleanup runs when no other handler does, and    *)
(* always by force.  Each child that runs with an entry is one it still has *)
(* to visit, has killed, or failed to kill.                                 *)
Quiet == pc[Main] # "idle" => Drained /\ force[Main]

Swept ==
    pc[Main] # "idle" =>
        \A i \in LiveIds :
            \/ leader[items[i]] = "killed" \/ items[i] \in spared
            \/ i \in keys[Main]
            \/ pc[Main] = "get" /\ arg[Main] = i
            \/ pc[Main] = "signal" /\ got[Main] = items[i]

Leaving == Quiet /\ CleanExitEndsChildren /\ Swept /\ NoOrphan

(* Cleanup kills what it visits or fails to, and no step of the exit starts *)
(* a child.                                                                 *)
LEMMA LeavingStep ==
  ASSUME TypeOK, Control, Leaving, [Next]_vars, NoOrphan'
  PROVE  Leaving'
<1> DEFINE Left == Quiet' /\ CleanExitEndsChildren' /\ Swept'
<1> SUFFICES Left
  BY DEF Leaving
<1> USE DEF TypeOK, Leaving, Quiet, Drained, CleanExitEndsChildren, Swept, LiveIds,
            Registered, Alive, osVars, callVars, Threads
<1>1. ASSUME NEW t \in Workers, NEW o \in Ops, NEW i \in Ids \cup {None}, NEW f \in BOOLEAN,
             Call(t, o, i, f)
      PROVE  Left
  BY <1>1, RegistryAssumption DEF Call, FirstStep
<1>2. ASSUME NEW t \in Threads, StartStep(t)
      PROVE  Left
  <2>1. CASE StartRefused(t)
    BY <2>1 DEF StartRefused, Return
  <2>2. ASSUME NEW dying \in SUBSET Children, Gc(t, dying)
        PROVE  Left
    BY <2>2 DEF Gc, Goto, Return
  <2>3. CASE SpawnExists(t)
    BY <2>3 DEF SpawnExists, Return
  <2>4. CASE SpawnFails(t)
    BY <2>4 DEF SpawnFails, Return
  <2>5. ASSUME NEW c \in Children, NEW forks \in BOOLEAN,
                    Spawn(t, c, forks)
        PROVE  Left
    <3>1. t # Main /\ pc[Main] = "idle" /\ pc'[Main] = "idle"
      BY <2>5 DEF Spawn, Goto, Control, Respawning
    <3> QED BY <2>5, <3>1 DEF Spawn, Goto
  <2> QED BY <1>2, <2>1, <2>2, <2>3, <2>4, <2>5 DEF StartStep
<1>3. ASSUME NEW t \in Threads, StopStep(t)
      PROVE  Left
  <2>1. CASE Get(t)
    BY <2>1 DEF Get, Registered, Goto, Return
  <2>2. CASE Signal(t)
    <3>1. CASE t # Main
      <4>1. pc[Main] = "idle" /\ pc'[Main] = "idle"
        BY <2>2, <3>1 DEF Signal, Goto
      <4> QED BY <2>2, <3>1, <4>1 DEF Signal
    <3>2. CASE t = Main
      <4>1. Hard(Main) /\ pc'[Main] \in {"wait", "rewait"} /\ got[Main] \in Children
        BY <2>2, <3>2 DEF Signal, Goto, Hard, Control, Holding
      <4>2. \A c \in Children \ {got[Main]} : leader'[c] = leader[c] /\ (c \in spared' <=> c \in spared)
        BY <2>2, <3>2, <4>1 DEF Signal, TerminateTree, Killed, Missed
      <4>3. leader'[got[Main]] \in {"killed", "exited", "unborn"} \/ got[Main] \in spared'
        BY <2>2, <3>2, <4>1 DEF Signal, TerminateTree, Killed, Missed
      <4>4. Quiet' /\ CleanExitEndsChildren'
        BY <2>2, <3>2, <4>1 DEF Signal, Goto
      <4>5. Swept'
        BY <2>2, <3>2, <4>1, <4>2, <4>3, RegistryAssumption DEF Signal
      <4> QED BY <4>4, <4>5
    <3> QED BY <3>1, <3>2
  <2>3. CASE TaskkillHangs(t)
    BY <2>3 DEF TaskkillHangs, Return
  <2>4. CASE WaitDone(t)
    BY <2>4 DEF WaitDone, Waited, Goto
  <2>5. CASE WaitTimeout(t)
    BY <2>5 DEF WaitTimeout, TimedOut, Goto, Return
  <2>6. CASE Status(t)
    BY <2>6 DEF Status, Return
  <2> QED BY <1>3, <2>1, <2>2, <2>3, <2>4, <2>5, <2>6 DEF StopStep
<1>4. ASSUME NEW t \in Threads, RestartStep(t)
      PROVE  Left
  <2>1. CASE Recall(t)
    BY <2>1 DEF Recall, Registered, Goto, Return
  <2>2. CASE Stopped(t)
    BY <2>2 DEF Stopped, Goto, Return
  <2>3. CASE Pop(t)
    BY <2>3 DEF Pop, Goto
  <2> QED BY <1>4, <2>1, <2>2, <2>3 DEF RestartStep
<1>5. ASSUME NEW t \in Threads, ListStep(t)
      PROVE  Left
  <2>1. CASE Keys(t)
    BY <2>1 DEF Keys, Goto
  <2>2. CASE Listed(t)
    BY <2>2 DEF Listed, Return
  <2>3. ASSUME NEW i \in Ids, Visit(t, i)
        PROVE  Left
    <3>1. t # Main /\ pc[Main] = "idle" /\ pc'[Main] = "idle"
      BY <2>3 DEF Visit, Goto, Return, Control
    <3> QED BY <2>3, <3>1 DEF Visit
  <2> QED BY <1>5, <2>1, <2>2, <2>3 DEF ListStep
<1>6. CASE BeginCleanup
  BY <1>6, RegistryAssumption DEF BeginCleanup, Registered
<1>7. CASE CleanupStep
  <2>1. CASE CleanupDone
    <3>1. /\ items' = items /\ spared' = spared /\ pc' = [pc EXCEPT ![Main] = "exited"]
          /\ \A c \in Children : leader'[c] \in {leader[c], "killed"}
      BY <2>1 DEF CleanupDone, JobKills, Goto
    <3>2. \A c \in Children : leader[c] = "running" => c \in spared
      BY <2>1, RegistryAssumption DEF CleanupDone, NoOrphan
    <3>3. CleanExitEndsChildren'
      BY <3>1, <3>2
    <3>4. Swept'
      BY <2>1, <3>1, RegistryAssumption DEF CleanupDone
    <3>5. Quiet'
      BY <2>1, <3>1, RegistryAssumption DEF CleanupDone
    <3> QED BY <3>3, <3>4, <3>5
  <2>2. ASSUME NEW i \in Ids, CleanupNext(i)
        PROVE  Left
    BY <2>2, RegistryAssumption DEF CleanupNext, Goto
  <2> QED BY <1>7, <2>1, <2>2 DEF CleanupStep
<1>8. ASSUME NEW c \in Children, Exit(c) \/ TreeExit(c) \/ Age(c)
      PROVE  Left
  BY <1>8 DEF Exit, TreeExit, Age
<1>9. CASE UNCHANGED vars
  BY <1>9 DEF vars
<1> HIDE DEF Left, TypeOK, Leaving, Quiet, Drained, CleanExitEndsChildren, Swept, LiveIds, Registered,
              Alive
<1> QED BY <1>1, <1>2, <1>3, <1>4, <1>5, <1>6, <1>7, <1>8, <1>9 DEF Next, HandlerStep

(* As long as no client uses restart, a clean exit leaves no child running  *)
(* but those that taskkill failed to end, for any number of workers, ids    *)
(* and spawns, with the job object or without.                              *)
THEOREM CleanExitCorrect ==
  ASSUME "restart" \notin Ops
  PROVE  Spec => []CleanExitEndsChildren
<1> DEFINE IInv == TypeOK /\ Control /\ NoRestarts /\ Leaving
<1>1. Init => IInv
  BY ControlInit, TypeInit, RegistryAssumption
  DEF Init, Leaving, Quiet, CleanExitEndsChildren, Swept, NoOrphan, NoRestarts, Alive, Threads
<1>2. ASSUME IInv, [Next]_vars
      PROVE  IInv'
  <2>1. NoRestarts' /\ NoOrphan'
    BY <1>2, NoRestartsStep, OrphanStep, RegistryAssumption DEF Leaving
  <2> QED BY <1>2, <2>1, TypeStep, ControlStep, LeavingStep
<1>3. IInv => CleanExitEndsChildren
  BY DEF Leaving
<1> QED BY <1>1, <1>2, <1>3, PTL DEF Spec

-----------------------------------------------------------------------------
(* The overshoot of the limit. *)
Spawners == {t \in Workers : pc[t] = "spawn"}

(* What LimitOvershoot counts is finite.                                    *)
LEMMA Finite ==
  ASSUME TypeOK
  PROVE  /\ IsFiniteSet(LiveIds) /\ Cardinality(LiveIds) \in Nat
         /\ IsFiniteSet(Spawners) /\ Cardinality(Spawners) \in Nat
         /\ Cardinality(Workers) \in Nat /\ Cardinality(Spawners) =< Cardinality(Workers)
<1>1. LiveIds \in SUBSET Ids /\ Spawners \in SUBSET Workers
  BY DEF LiveIds, Registered, Spawners
<1> QED BY <1>1, FS_Subset, FS_CardinalityType, RegistryAssumption

(* No step but a _gc that lets a start through and a spawn can add to what  *)
(* LimitOvershoot counts.                                                   *)
LEMMA OvershootShrinks ==
  ASSUME TypeOK, LimitOvershoot,
         LiveIds' \subseteq LiveIds, Spawners' \subseteq Spawners
  PROVE  LimitOvershoot'
<1>1. /\ IsFiniteSet(LiveIds') /\ Cardinality(LiveIds') =< Cardinality(LiveIds)
      /\ IsFiniteSet(Spawners') /\ Cardinality(Spawners') =< Cardinality(Spawners)
  BY Finite, FS_Subset
<1>2. Cardinality(LiveIds') \in Nat /\ Cardinality(Spawners') \in Nat
  BY <1>1, FS_CardinalityType
<1> QED BY <1>1, <1>2, Finite, RegistryAssumption DEF LimitOvershoot, Spawners

(* A _gc lets a start through below the limit only, and a spawn uses its permit up. *)
LEMMA OvershootStep ==
  ASSUME TypeOK, Control, Born, LimitOvershoot, [Next]_vars
  PROVE  LimitOvershoot'
<1> USE DEF TypeOK, LiveIds, Registered, Alive, Spawners, osVars, callVars, Threads
<1>1. ASSUME NEW t \in Workers, NEW o \in Ops, NEW i \in Ids \cup {None}, NEW f \in BOOLEAN,
             Call(t, o, i, f)
      PROVE  LimitOvershoot'
  BY <1>1, OvershootShrinks, RegistryAssumption DEF Call, FirstStep
<1>2. ASSUME NEW t \in Threads, StartStep(t)
      PROVE  LimitOvershoot'
  <2>1. CASE StartRefused(t)
    BY <2>1, OvershootShrinks, RegistryAssumption DEF StartRefused, Return
  <2>2. ASSUME NEW dying \in SUBSET Children, Gc(t, dying)
        PROVE  LimitOvershoot'
    <3>1. LiveIds' \subseteq LiveIds
      BY <2>2 DEF Gc
    <3>2. CASE Spawners' \subseteq Spawners
      BY <3>1, <3>2, OvershootShrinks
    <3>3. CASE ~(Spawners' \subseteq Spawners)
      <4>1. ~LimitReached(Active')
        BY <2>2, <3>3 DEF Gc, Goto, Return
      <4>2. Spawners' \in SUBSET Workers /\ LiveIds' \in SUBSET LiveIds
        BY <3>1
      <4>3. /\ Cardinality(Spawners') \in Nat /\ Cardinality(Spawners') =< Cardinality(Workers)
            /\ Cardinality(LiveIds') \in Nat
        BY <4>2, Finite, FS_Subset, FS_CardinalityType, RegistryAssumption
      <4> HIDE DEF TypeOK, LiveIds, Spawners
      <4>4. LimitOvershoot' <=> (Cardinality(LiveIds') + Cardinality(Spawners')
                                  =< MaxProcesses + Cardinality(Workers) - 1)
        BY DEF LimitOvershoot, Spawners
      <4>5. Cardinality(LiveIds') < MaxProcesses
        BY <4>1, <4>3, RegistryAssumption DEF LimitReached, Active
      <4>6. Cardinality(Workers) \in Nat
        BY RegistryAssumption, FS_CardinalityType
      <4> QED BY <4>3, <4>4, <4>5, <4>6, RegistryAssumption
    <3> QED BY <3>2, <3>3
  <2>3. CASE SpawnExists(t)
    BY <2>3, OvershootShrinks, RegistryAssumption DEF SpawnExists, Return
  <2>4. CASE SpawnFails(t)
    BY <2>4, OvershootShrinks, RegistryAssumption DEF SpawnFails, Return
  <2>5. ASSUME NEW c \in Children, NEW forks \in BOOLEAN,
                    Spawn(t, c, forks)
        PROVE  LimitOvershoot'
    <3>1. t \in Spawners
      BY <2>5 DEF Spawn, Control, Respawning
    <3>2. LiveIds' \in SUBSET (LiveIds \cup {arg[t]})
      BY <2>5 DEF Spawn, Unborn, Born
    <3>3. Spawners' \in SUBSET (Spawners \ {t})
      BY <2>5 DEF Spawn, Goto
    <3>4. /\ IsFiniteSet(LiveIds') /\ Cardinality(LiveIds') =< Cardinality(LiveIds) + 1
          /\ IsFiniteSet(Spawners') /\ Cardinality(Spawners') =< Cardinality(Spawners) - 1
      <4> HIDE DEF TypeOK, LiveIds, Spawners
      <4>1. /\ IsFiniteSet(LiveIds \cup {arg[t]})
            /\ Cardinality(LiveIds \cup {arg[t]}) =< Cardinality(LiveIds) + 1
        <5>1. IsFiniteSet(LiveIds) /\ Cardinality(LiveIds) \in Nat
          BY Finite
        <5>2. /\ IsFiniteSet(LiveIds \cup {arg[t]})
              /\ Cardinality(LiveIds \cup {arg[t]})
                    = IF arg[t] \in LiveIds THEN Cardinality(LiveIds) ELSE Cardinality(LiveIds) + 1
          BY <5>1, FS_AddElement
        <5> QED BY <5>1, <5>2
      <4>2. /\ IsFiniteSet(Spawners \ {t})
            /\ Cardinality(Spawners \ {t}) = Cardinality(Spawners) - 1
        BY <3>1, Finite, FS_RemoveElement
      <4>3. /\ IsFiniteSet(LiveIds') /\ Cardinality(LiveIds') =< Cardinality(LiveIds \cup {arg[t]})
            /\ IsFiniteSet(Spawners') /\ Cardinality(Spawners') =< Cardinality(Spawners \ {t})
        BY <3>2, <3>3, <4>1, <4>2, FS_Subset
      <4>4. Cardinality(LiveIds') \in Nat /\ Cardinality(LiveIds \cup {arg[t]}) \in Nat
        BY <4>1, <4>3, FS_CardinalityType
      <4> QED BY <4>1, <4>2, <4>3, <4>4, Finite
    <3>5. Cardinality(LiveIds') \in Nat /\ Cardinality(Spawners') \in Nat
      BY <3>4, FS_CardinalityType
    <3> HIDE DEF TypeOK, LiveIds, Spawners
    <3>6. LimitOvershoot' <=> (Cardinality(LiveIds') + Cardinality(Spawners')
                                =< MaxProcesses + Cardinality(Workers) - 1)
      BY DEF LimitOvershoot, Spawners
    <3>7. Cardinality(LiveIds) + Cardinality(Spawners) =< MaxProcesses + Cardinality(Workers) - 1
      BY DEF LimitOvershoot, Spawners
    <3> QED BY <3>4, <3>5, <3>6, <3>7, Finite, RegistryAssumption
  <2> QED BY <1>2, <2>1, <2>2, <2>3, <2>4, <2>5 DEF StartStep
<1>3. ASSUME NEW t \in Threads, StopStep(t)
      PROVE  LimitOvershoot'
  <2>1. CASE Get(t)
    BY <2>1, OvershootShrinks, RegistryAssumption DEF Get, Goto, Return
  <2>2. CASE Signal(t)
    BY <2>2, OvershootShrinks, RegistryAssumption DEF Signal, TerminateTree, Killed, Missed, Goto
  <2>3. CASE TaskkillHangs(t)
    BY <2>3, OvershootShrinks, RegistryAssumption DEF TaskkillHangs, Return
  <2>4. CASE WaitDone(t)
    BY <2>4, OvershootShrinks, RegistryAssumption DEF WaitDone, Goto
  <2>5. CASE WaitTimeout(t)
    BY <2>5, OvershootShrinks, RegistryAssumption DEF WaitTimeout, TimedOut, Goto, Return
  <2>6. CASE Status(t)
    BY <2>6, OvershootShrinks, RegistryAssumption DEF Status, Return
  <2> QED BY <1>3, <2>1, <2>2, <2>3, <2>4, <2>5, <2>6 DEF StopStep
<1>4. ASSUME NEW t \in Threads, RestartStep(t)
      PROVE  LimitOvershoot'
  <2>1. CASE Recall(t)
    BY <2>1, OvershootShrinks, RegistryAssumption DEF Recall, Goto, Return
  <2>2. CASE Stopped(t)
    BY <2>2, OvershootShrinks, RegistryAssumption DEF Stopped, Goto, Return
  <2>3. CASE Pop(t)
    BY <2>3, OvershootShrinks, RegistryAssumption DEF Pop, Goto
  <2> QED BY <1>4, <2>1, <2>2, <2>3 DEF RestartStep
<1>5. ASSUME NEW t \in Threads, ListStep(t)
      PROVE  LimitOvershoot'
  <2>1. CASE Keys(t)
    BY <2>1, OvershootShrinks, RegistryAssumption DEF Keys, Goto
  <2>2. CASE Listed(t)
    BY <2>2, OvershootShrinks, RegistryAssumption DEF Listed, Return
  <2>3. ASSUME NEW i \in Ids, Visit(t, i)
        PROVE  LimitOvershoot'
    BY <2>3, OvershootShrinks, RegistryAssumption DEF Visit, Goto, Return
  <2> QED BY <1>5, <2>1, <2>2, <2>3 DEF ListStep
<1>6. CASE BeginCleanup
  BY <1>6, OvershootShrinks, RegistryAssumption DEF BeginCleanup
<1>7. CASE CleanupStep
  <2>1. CASE CleanupDone
    BY <2>1, OvershootShrinks, RegistryAssumption DEF CleanupDone, JobKills, Goto
  <2>2. ASSUME NEW i \in Ids, CleanupNext(i)
        PROVE  LimitOvershoot'
    BY <2>2, OvershootShrinks, RegistryAssumption DEF CleanupNext, Goto
  <2> QED BY <1>7, <2>1, <2>2 DEF CleanupStep
<1>8. ASSUME NEW c \in Children, Exit(c) \/ TreeExit(c) \/ Age(c)
      PROVE  LimitOvershoot'
  BY <1>8, OvershootShrinks, RegistryAssumption DEF Exit, TreeExit, Age
<1>9. CASE UNCHANGED vars
  BY <1>9, OvershootShrinks, RegistryAssumption DEF vars
<1> HIDE DEF TypeOK, LiveIds, Registered, Alive, Spawners
<1> QED BY <1>1, <1>2, <1>3, <1>4, <1>5, <1>6, <1>7, <1>8, <1>9 DEF Next, HandlerStep

(* No entry and no start to begin with.                                     *)
LEMMA OvershootInit == Init => TypeOK /\ Control /\ Born /\ LimitOvershoot
<1>1. Init => LiveIds = {} /\ Spawners = {}
  BY RegistryAssumption DEF Init, LiveIds, Registered, Spawners, Threads
<1>2. Init => LimitOvershoot
  <2>1. Cardinality(Workers) \in Nat \ {0}
    BY FS_EmptySet, FS_CardinalityType, RegistryAssumption
  <2>2. LimitOvershoot <=> (Cardinality(LiveIds) + Cardinality(Spawners)
                              =< MaxProcesses + Cardinality(Workers) - 1)
    BY DEF LimitOvershoot, Spawners
  <2>3. Init => Cardinality(LiveIds) = 0 /\ Cardinality(Spawners) = 0
    BY <1>1, FS_EmptySet
  <2> QED BY <2>1, <2>2, <2>3, RegistryAssumption
<1> QED BY <1>2, ControlInit, TypeInit, RegistryAssumption DEF Init, Born

(* The calls that run a process never overshoot the limit by as much as     *)
(* there are workers.                                                       *)
THEOREM OvershootCorrect == Spec => []LimitOvershoot
<1> DEFINE IInv == TypeOK /\ Control /\ Born /\ LimitOvershoot
<1>1. Init => IInv
  BY OvershootInit
<1>2. IInv /\ [Next]_vars => IInv'
  BY TypeStep, ControlStep, BornStep, OvershootStep
<1> QED BY <1>1, <1>2, PTL DEF Spec

-----------------------------------------------------------------------------
(* The choice of _gc.  Unless it keeps running children only, it cuts the   *)
(* dictionary back to the limit: the oldest exited entry it keeps has at    *)
(* least as many older ones before it as there are too many, and all of     *)
(* them go.                                                                 *)
LEMMA SurvivorsBounded ==
  ASSUME TypeOK
  PROVE  /\ IsFiniteSet(Survivors) /\ Cardinality(Survivors) \in Nat
         /\ Cardinality(Survivors) =< MaxProcesses \/ \A i \in Survivors : Alive(items[i])
<1>1. /\ IsFiniteSet(Kept) /\ Cardinality(Kept) \in Nat
      /\ \A S \in SUBSET Kept : IsFiniteSet(S) /\ Cardinality(S) \in Nat
  <2>1. Kept \in SUBSET Ids
    BY DEF Kept, Registered
  <2>2. IsFiniteSet(Kept)
    BY <2>1, FS_Subset, RegistryAssumption
  <2> QED BY <2>2, FS_Subset, FS_CardinalityType
<1>2. Survivors \in SUBSET Kept /\ Evicted \in SUBSET Kept
  BY DEF Survivors, Evicted
<1> SUFFICES ASSUME NEW i0 \in Survivors, ~Alive(items[i0])
             PROVE  Cardinality(Survivors) =< MaxProcesses
  BY <1>1, <1>2
<1> DEFINE Exited == {i \in Survivors : ~Alive(items[i])}
           Numbers == {items[i] : i \in Exited}
<1>3. PICK m \in Numbers : \A n \in Numbers : m =< n
  <2>1. \A e \in Exited : items[e] \in Nat
    BY RegistryAssumption DEF TypeOK, Survivors, Kept, Registered, Children
  <2>2. i0 \in Exited
    OBVIOUS
  <2>3. Numbers \subseteq Nat /\ Numbers # {}
    BY <2>1, <2>2
  <2> HIDE DEF Numbers
  <2> QED BY <2>3, LeastNat
<1>4. PICK i \in Exited : items[i] = m
  BY <1>3
<1>5. OlderExited(i) \subseteq Evicted
  <2> SUFFICES ASSUME NEW j \in OlderExited(i), j \notin Evicted PROVE FALSE
    OBVIOUS
  <2>1. j \in Exited /\ items[j] < items[i]
    BY DEF OlderExited, Survivors
  <2>2. items[i] =< items[j]
    BY <1>3, <1>4, <2>1
  <2>3. items[i] \in Nat /\ items[j] \in Nat
    BY <1>4, <2>1, RegistryAssumption DEF TypeOK, Survivors, Kept, Registered, Children
  <2> QED BY <2>1, <2>2, <2>3
<1>6. OlderExited(i) \in SUBSET Kept /\ ~(Cardinality(OlderExited(i)) < Excess)
  BY <1>4 DEF OlderExited, Survivors, Evicted
<1>7. Cardinality(Evicted) >= Excess
  <2>1. Cardinality(OlderExited(i)) =< Cardinality(Evicted)
    BY <1>1, <1>2, <1>5, FS_Subset
  <2> QED BY <1>1, <1>2, <1>6, <2>1, RegistryAssumption DEF Excess
<1>8. Cardinality(Survivors) = Cardinality(Kept) - Cardinality(Evicted)
  <2>1. Kept \cap Evicted = Evicted
    BY <1>2
  <2> QED BY <1>1, <2>1, FS_Difference DEF Survivors
<1> QED BY <1>1, <1>2, <1>7, <1>8, RegistryAssumption DEF Excess

(* What RegistryBounded counts is finite, and only a _gc that lets a start  *)
(* through and a spawn can add to it.                                       *)
LEMMA RegisteredFinite ==
  TypeOK => IsFiniteSet(Registered) /\ Cardinality(Registered) \in Nat
  BY FS_Subset, FS_CardinalityType, RegistryAssumption DEF Registered

LEMMA BoundedShrinks ==
  ASSUME TypeOK, RegistryBounded,
         Registered' \subseteq Registered, Spawners' \subseteq Spawners
  PROVE  RegistryBounded'
<1>1. /\ IsFiniteSet(Registered') /\ Cardinality(Registered') =< Cardinality(Registered)
      /\ IsFiniteSet(Spawners') /\ Cardinality(Spawners') =< Cardinality(Spawners)
  BY Finite, RegisteredFinite, FS_Subset
<1>2. Cardinality(Registered') \in Nat /\ Cardinality(Spawners') \in Nat
  BY <1>1, FS_CardinalityType
<1> QED BY <1>1, <1>2, Finite, RegisteredFinite, RegistryAssumption DEF RegistryBounded, Spawners

(* A _gc that lets a start through leaves at most as many entries as the    *)
(* limit, or else all of them were live when it chose, and LimitOvershoot   *)
(* bounds those.                                                            *)
LEMMA BoundedStep ==
  ASSUME TypeOK, Control, LimitOvershoot, RegistryBounded, [Next]_vars
  PROVE  RegistryBounded'
<1> USE DEF TypeOK, Registered, Spawners, osVars, callVars, Threads
<1>1. ASSUME NEW t \in Workers, NEW o \in Ops, NEW i \in Ids \cup {None}, NEW f \in BOOLEAN,
             Call(t, o, i, f)
      PROVE  RegistryBounded'
  BY <1>1, BoundedShrinks, RegistryAssumption DEF Call, FirstStep
<1>2. ASSUME NEW t \in Threads, StartStep(t)
      PROVE  RegistryBounded'
  <2>1. CASE StartRefused(t)
    BY <2>1, BoundedShrinks, RegistryAssumption DEF StartRefused, Return
  <2>2. ASSUME NEW dying \in SUBSET Children, Gc(t, dying)
        PROVE  RegistryBounded'
    <3>1. Registered' = Survivors /\ Survivors \subseteq Registered
      BY <2>2, RegistryAssumption DEF Gc, Survivors, Kept
    <3>2. CASE Spawners' \subseteq Spawners
      BY <3>1, <3>2, BoundedShrinks
    <3>3. CASE ~(Spawners' \subseteq Spawners)
      <4>1. Spawners' \in SUBSET (Spawners \cup {t}) /\ Spawners' \in SUBSET Workers
        BY <2>2 DEF Gc, Goto, Return
      <4> HIDE DEF TypeOK, Registered, Spawners
      <4>2. /\ Cardinality(Spawners') \in Nat /\ Cardinality(Spawners') =< Cardinality(Workers)
            /\ Cardinality(Spawners') =< Cardinality(Spawners) + 1
            /\ Cardinality(Spawners) \in Nat /\ Cardinality(Workers) \in Nat
        <5>1. /\ IsFiniteSet(Spawners \cup {t})
              /\ Cardinality(Spawners \cup {t})
                   = IF t \in Spawners THEN Cardinality(Spawners) ELSE Cardinality(Spawners) + 1
          BY Finite, FS_AddElement
        <5> QED BY <4>1, <5>1, Finite, FS_Subset, FS_CardinalityType, RegistryAssumption
      <4>3. RegistryBounded' <=> (Cardinality(Registered') + Cardinality(Spawners')
                                    =< MaxProcesses + Cardinality(Workers))
        BY DEF RegistryBounded, Spawners
      <4>4. CASE Cardinality(Survivors) =< MaxProcesses
        BY <3>1, <4>2, <4>3, <4>4, SurvivorsBounded, RegistryAssumption
      <4>5. CASE \A i \in Survivors : Alive(items[i])
        <5>1. Survivors \in SUBSET LiveIds
          BY <4>5 DEF Survivors, Kept, LiveIds
        <5>2. Cardinality(Survivors) =< Cardinality(LiveIds) /\ Cardinality(Survivors) \in Nat
          BY <5>1, Finite, FS_Subset, SurvivorsBounded
        <5>3. Cardinality(LiveIds) + Cardinality(Spawners) =< MaxProcesses + Cardinality(Workers) - 1
          BY DEF LimitOvershoot, Spawners
        <5> QED BY <3>1, <4>2, <4>3, <5>2, <5>3, Finite, RegistryAssumption
      <4> QED BY <4>4, <4>5, SurvivorsBounded
    <3> QED BY <3>2, <3>3
  <2>3. CASE SpawnExists(t)
    BY <2>3, BoundedShrinks, RegistryAssumption DEF SpawnExists, Return
  <2>4. CASE SpawnFails(t)
    BY <2>4, BoundedShrinks, RegistryAssumption DEF SpawnFails, Return
  <2>5. ASSUME NEW c \in Children, NEW forks \in BOOLEAN,
                    Spawn(t, c, forks)
        PROVE  RegistryBounded'
    <3>1. t \in Spawners
      BY <2>5 DEF Spawn, Control, Respawning
    <3>2. Registered' \in SUBSET (Registered \cup {arg[t]}) /\ Spawners' \in SUBSET (Spawners \ {t})
      BY <2>5 DEF Spawn, Goto
    <3> HIDE DEF TypeOK, Registered, Spawners
    <3>3. /\ IsFiniteSet(Registered \cup {arg[t]})
          /\ Cardinality(Registered \cup {arg[t]}) =< Cardinality(Registered) + 1
      <4>1. /\ IsFiniteSet(Registered \cup {arg[t]})
            /\ Cardinality(Registered \cup {arg[t]})
                  = IF arg[t] \in Registered THEN Cardinality(Registered) ELSE Cardinality(Registered) + 1
        BY RegisteredFinite, FS_AddElement
      <4> QED BY <4>1, RegisteredFinite
    <3>4. /\ IsFiniteSet(Spawners \ {t})
          /\ Cardinality(Spawners \ {t}) = Cardinality(Spawners) - 1
      BY <3>1, Finite, FS_RemoveElement
    <3>5. /\ IsFiniteSet(Registered') /\ Cardinality(Registered') =< Cardinality(Registered \cup {arg[t]})
          /\ IsFiniteSet(Spawners') /\ Cardinality(Spawners') =< Cardinality(Spawners \ {t})
      BY <3>2, <3>3, <3>4, FS_Subset
    <3>6. /\ Cardinality(Registered') \in Nat /\ Cardinality(Spawners') \in Nat
          /\ Cardinality(Registered \cup {arg[t]}) \in Nat
      BY <3>3, <3>5, FS_CardinalityType
    <3>7. /\ RegistryBounded' <=> (Cardinality(Registered') + Cardinality(Spawners')
                                    =< MaxProcesses + Cardinality(Workers))
          /\ Cardinality(Registered) + Cardinality(Spawners) =< MaxProcesses + Cardinality(Workers)
      BY DEF RegistryBounded, Spawners
    <3> QED BY <3>3, <3>4, <3>5, <3>6, <3>7, Finite, RegisteredFinite, RegistryAssumption
  <2> QED BY <1>2, <2>1, <2>2, <2>3, <2>4, <2>5 DEF StartStep
<1>3. ASSUME NEW t \in Threads, StopStep(t)
      PROVE  RegistryBounded'
  <2>1. CASE Get(t)
    BY <2>1, BoundedShrinks, RegistryAssumption DEF Get, Goto, Return
  <2>2. CASE Signal(t)
    BY <2>2, BoundedShrinks, RegistryAssumption DEF Signal, TerminateTree, Killed, Missed, Goto
  <2>3. CASE TaskkillHangs(t)
    BY <2>3, BoundedShrinks, RegistryAssumption DEF TaskkillHangs, Return
  <2>4. CASE WaitDone(t)
    BY <2>4, BoundedShrinks, RegistryAssumption DEF WaitDone, Goto
  <2>5. CASE WaitTimeout(t)
    BY <2>5, BoundedShrinks, RegistryAssumption DEF WaitTimeout, TimedOut, Goto, Return
  <2>6. CASE Status(t)
    BY <2>6, BoundedShrinks, RegistryAssumption DEF Status, Return
  <2> QED BY <1>3, <2>1, <2>2, <2>3, <2>4, <2>5, <2>6 DEF StopStep
<1>4. ASSUME NEW t \in Threads, RestartStep(t)
      PROVE  RegistryBounded'
  <2>1. CASE Recall(t)
    BY <2>1, BoundedShrinks, RegistryAssumption DEF Recall, Goto, Return
  <2>2. CASE Stopped(t)
    BY <2>2, BoundedShrinks, RegistryAssumption DEF Stopped, Goto, Return
  <2>3. CASE Pop(t)
    BY <2>3, BoundedShrinks, RegistryAssumption DEF Pop, Goto
  <2> QED BY <1>4, <2>1, <2>2, <2>3 DEF RestartStep
<1>5. ASSUME NEW t \in Threads, ListStep(t)
      PROVE  RegistryBounded'
  <2>1. CASE Keys(t)
    BY <2>1, BoundedShrinks, RegistryAssumption DEF Keys, Goto
  <2>2. CASE Listed(t)
    BY <2>2, BoundedShrinks, RegistryAssumption DEF Listed, Return
  <2>3. ASSUME NEW i \in Ids, Visit(t, i)
        PROVE  RegistryBounded'
    BY <2>3, BoundedShrinks, RegistryAssumption DEF Visit, Goto, Return
  <2> QED BY <1>5, <2>1, <2>2, <2>3 DEF ListStep
<1>6. CASE BeginCleanup
  BY <1>6, BoundedShrinks, RegistryAssumption DEF BeginCleanup
<1>7. CASE CleanupStep
  <2>1. CASE CleanupDone
    BY <2>1, BoundedShrinks, RegistryAssumption DEF CleanupDone, JobKills, Goto
  <2>2. ASSUME NEW i \in Ids, CleanupNext(i)
        PROVE  RegistryBounded'
    BY <2>2, BoundedShrinks, RegistryAssumption DEF CleanupNext, Goto
  <2> QED BY <1>7, <2>1, <2>2 DEF CleanupStep
<1>8. ASSUME NEW c \in Children, Exit(c) \/ TreeExit(c) \/ Age(c)
      PROVE  RegistryBounded'
  BY <1>8, BoundedShrinks, RegistryAssumption DEF Exit, TreeExit, Age
<1>9. CASE UNCHANGED vars
  BY <1>9, BoundedShrinks, RegistryAssumption DEF vars
<1> HIDE DEF TypeOK, Registered, Spawners
<1> QED BY <1>1, <1>2, <1>3, <1>4, <1>5, <1>6, <1>7, <1>8, <1>9 DEF Next, HandlerStep

(* The whole dictionary is bounded, exited entries included, however many   *)
(* starts run at once and whatever has exited and aged.                     *)
THEOREM BoundedCorrect == Spec => []RegistryBounded
<1> DEFINE IInv == TypeOK /\ Control /\ Born /\ LimitOvershoot /\ RegistryBounded
<1>1. Init => IInv
  <2>1. Init => Registered = {} /\ Spawners = {}
    BY RegistryAssumption DEF Init, Registered, Spawners, Threads
  <2>2. Init => RegistryBounded
    <3>1. Cardinality(Workers) \in Nat
      BY FS_CardinalityType, RegistryAssumption
    <3>2. RegistryBounded <=> (Cardinality(Registered) + Cardinality(Spawners)
                                 =< MaxProcesses + Cardinality(Workers))
      BY DEF RegistryBounded, Spawners
    <3>3. Init => Cardinality(Registered) = 0 /\ Cardinality(Spawners) = 0
      BY <2>1, FS_EmptySet
    <3> QED BY <3>1, <3>2, <3>3, RegistryAssumption
  <2> QED BY <2>2, OvershootInit
<1>2. IInv /\ [Next]_vars => IInv'
  BY TypeStep, ControlStep, BornStep, OvershootStep, BoundedStep
<1> QED BY <1>1, <1>2, PTL DEF Spec

-----------------------------------------------------------------------------
(* Children reach the ttl in the order they were started.                   *)
AgedInOrder == \A c \in aged : 1 .. c - 1 \subseteq aged

LEMMA AgedStep == TypeOK /\ AgedInOrder /\ [Next]_vars => AgedInOrder'
<1> SUFFICES ASSUME TypeOK, AgedInOrder, [Next]_vars
             PROVE  AgedInOrder'
  OBVIOUS
<1>1. aged' = aged \/ \E c \in Children : Age(c)
  BY DEF Next, vars, osVars, Call, HandlerStep, StartStep, StartRefused, Gc, SpawnExists, SpawnFails,
         Spawn, StopStep, Get, Signal, TaskkillHangs, WaitDone, WaitTimeout, Status, RestartStep,
         Recall, Stopped, Pop, ListStep, Keys, Listed, Visit, BeginCleanup, CleanupStep, CleanupDone,
         CleanupNext, Exit, TreeExit
<1>2. CASE aged' = aged
  BY <1>2 DEF AgedInOrder
<1>3. ASSUME NEW c \in Children, Age(c)
      PROVE  AgedInOrder'
  BY <1>3 DEF Age, AgedInOrder
<1> QED BY <1>1, <1>2, <1>3

(* _gc keeps no exited entry that is as old as one it drops: neither when   *)
(* it drops that for its age nor when it drops it for its place.            *)
LEMMA GcOldestFirst ==
  ASSUME TypeOK, AgedInOrder,
         NEW i \in Registered, i \notin Survivors,
         NEW j \in Survivors, ~Alive(items[j])
  PROVE  items[i] < items[j]
<1>1. /\ items[i] \in Nat \ {0} /\ items[j] \in Nat \ {0}
      /\ j \in Kept /\ j \notin Evicted /\ items[j] \notin aged
  BY RegistryAssumption DEF TypeOK, Survivors, Kept, Registered, Children
<1>2. CASE i \notin Kept
  <2>1. items[i] \in aged
    BY <1>2 DEF Kept
  <2> QED BY <1>1, <2>1 DEF AgedInOrder
<1>3. CASE i \in Kept
  <2>1. i \in Evicted
    BY <1>3 DEF Survivors
  <2>2. Cardinality(OlderExited(i)) < Excess /\ ~(Cardinality(OlderExited(j)) < Excess)
    BY <1>1, <2>1 DEF Evicted
  <2>3. ASSUME items[j] =< items[i] PROVE FALSE
    <3>1. OlderExited(j) \in SUBSET OlderExited(i)
      <4>1. \A k \in Kept : items[k] \in Nat
        BY RegistryAssumption DEF TypeOK, Kept, Registered, Children
      <4> QED BY <1>1, <2>3, <4>1 DEF OlderExited
    <3>2. IsFiniteSet(Kept)
      <4>1. Kept \in SUBSET Ids
        BY DEF Kept, Registered
      <4> QED BY <4>1, FS_Subset, RegistryAssumption
    <3>3. OlderExited(i) \in SUBSET Kept
      BY DEF OlderExited
    <3>4. IsFiniteSet(OlderExited(i)) /\ Cardinality(OlderExited(j)) =< Cardinality(OlderExited(i))
      BY <3>1, <3>2, <3>3, FS_Subset
    <3>5. /\ Cardinality(OlderExited(i)) \in Nat /\ Cardinality(OlderExited(j)) \in Nat
          /\ Cardinality(Kept) \in Nat
      BY <3>1, <3>2, <3>4, FS_Subset, FS_CardinalityType
    <3> QED BY <2>2, <3>4, <3>5, RegistryAssumption DEF Excess
  <2> QED BY <1>1, <2>3
<1> QED BY <1>2, <1>3

(* Entries are dropped by _gc and by the pop of a restart only.             *)
LEMMA DropStep ==
  ASSUME TypeOK, Control, [Next]_vars, NEW i \in Registered, items'[i] = None
  PROVE  \/ \E t \in Threads, dying \in SUBSET Children : Gc(t, dying)
         \/ \E t \in Workers : pc[t] = "pop"
<1>1. CASE items' = items
  BY <1>1 DEF Registered
<1>2. ASSUME NEW t \in Threads, Pop(t)
      PROVE  \E u \in Workers : pc[u] = "pop"
  BY <1>2 DEF Pop, Control, Respawning, Threads
<1>3. ASSUME NEW t \in Threads, NEW c \in Children, NEW forks \in BOOLEAN,
             Spawn(t, c, forks)
      PROVE  FALSE
  BY <1>3, RegistryAssumption DEF Spawn, TypeOK, Registered
<1>4. \/ items' = items
      \/ \E t \in Threads : Pop(t) \/ \E dying \in SUBSET Children : Gc(t, dying)
      \/ \E t \in Threads, c \in Children, forks \in BOOLEAN : Spawn(t, c, forks)
  BY DEF Next, vars, Call, HandlerStep, StartStep, StartRefused, SpawnExists, SpawnFails,
         StopStep, Get, Signal, TaskkillHangs, WaitDone, WaitTimeout, Status, RestartStep,
         Recall, Stopped, ListStep, Keys, Listed, Visit, BeginCleanup, CleanupStep, CleanupDone,
         CleanupNext, Exit, TreeExit, Age
<1> QED BY <1>1, <1>2, <1>3, <1>4

(* _gc forgets the oldest first: no step but the pop of a restart drops an  *)
(* entry and leaves one whose child has exited and is older.                *)
THEOREM OldestDroppedFirstCorrect == Spec => OldestDroppedFirst
<1> DEFINE IInv == TypeOK /\ Control /\ AgedInOrder
<1>1. Init => IInv
  BY ControlInit, TypeInit DEF Init, AgedInOrder
<1>2. IInv /\ [Next]_vars => IInv'
  BY TypeStep, ControlStep, AgedStep
<1>3. IInv /\ [Next]_vars
      => [\A i, j \in Registered :
             /\ items'[i] = None /\ items'[j] # None
             /\ ~Alive(items[j])
             /\ \A t \in Workers : pc[t] # "pop"
             => items[i] < items[j]]_vars
  <2> SUFFICES ASSUME IInv, [Next]_vars, NEW i \in Registered, NEW j \in Registered,
                      items'[i] = None, items'[j] # None, ~Alive(items[j]),
                      \A t \in Workers : pc[t] # "pop"
               PROVE  items[i] < items[j]
    OBVIOUS
  <2>1. PICK t \in Threads, dying \in SUBSET Children : Gc(t, dying)
    BY DropStep
  <2>2. i \notin Survivors /\ j \in Survivors
    BY <2>1, RegistryAssumption DEF Gc, Registered, Survivors, Kept
  <2> QED BY <2>2, GcOldestFirst
<1> QED BY <1>1, <1>2, <1>3, PTL DEF Spec, OldestDroppedFirst
=============================================================================
