---------------------------- MODULE FileEditsProofs ----------------------------
(* Theorems about FileEdits, for any threads, files, table of locks and    *)
(* patches, and about how a patch is read and applied to the text of a     *)
(* file, for any texts, hunks and edit scripts.                            *)
EXTENDS FileEdits, TextAlgorithms, NaturalSets, SequenceTheorems

(* The list of targets that a call has, and how far it has come with it.   *)
Shape ==
    \A t \in Threads :
        /\ pc[t] # "idle" =>
              /\ targets[t] # <<>>
              /\ op[t] = "patch" => targets[t] \in Patches
              /\ op[t] \in {"copy", "move"} => Len(targets[t]) = 2
              /\ op[t] \notin {"patch", "copy", "move"} => Len(targets[t]) = 1
        /\ pc[t] \in {"idle", "lock", "read"} => landed[t] = 0
        /\ pc[t] = "write" => landed[t] < Len(targets[t])
        /\ pc[t] = "fill" => op[t] = "copy"

LEMMA Lists ==
    ASSUME NEW o, NEW ts \in ListsFor(o)
    PROVE  /\ ts \in Seq(Paths) /\ ts # <<>>
           /\ o = "patch" => ts \in Patches
           /\ o \in {"copy", "move"} => Len(ts) = 2
           /\ o \notin {"patch", "copy", "move"} => Len(ts) = 1
<1>1. CASE o = "patch"
  BY <1>1, EditsAssumption DEF ListsFor
<1>2. CASE o \in {"copy", "move"}
  <2>1. PICK p \in Paths, q \in Paths : ts = <<p, q>>
    BY <1>2 DEF ListsFor
  <2> QED BY <1>2, <2>1
<1>3. CASE o \notin {"patch", "copy", "move"}
  <2>1. PICK p \in Paths : ts = <<p>>
    BY <1>3 DEF ListsFor
  <2> QED BY <1>3, <2>1
<1> QED BY <1>1, <1>2, <1>3

LEMMA TypeStep == TypeOK /\ Shape /\ [Next]_vars => TypeOK' /\ Shape'
<1> SUFFICES ASSUME TypeOK, Shape, [Next]_vars PROVE TypeOK' /\ Shape'
  OBVIOUS
<1> USE EditsAssumption DEF TypeOK, Shape, Versions, Torn, Nothing, callVars
<1>1. ASSUME NEW t \in Threads, NEW o \in Edits \cup Overwrites, NEW ts \in ListsFor(o), Call(t, o, ts)
      PROVE  TypeOK' /\ Shape'
  BY <1>1, Lists DEF Call, Goto, Edits, Overwrites
<1>2. ASSUME NEW t \in Threads, Refuse(t) \/ Unlock(t) PROVE TypeOK' /\ Shape'
  <2>1. Return(t) /\ UNCHANGED <<files, writes>> /\ owner' \in [Stripes -> Threads \cup {Free}]
    BY <1>2 DEF Refuse, Unlock
  <2> QED BY <2>1 DEF Return
<1>3. ASSUME NEW t \in Threads, Acquire(t) PROVE TypeOK' /\ Shape'
  <2>1. owner' \in [Stripes -> Threads \cup {Free}]
    BY <1>3 DEF Acquire
  <2> QED BY <1>3, <2>1 DEF Acquire
<1>4. ASSUME NEW t \in Threads, Locked(t) PROVE TypeOK' /\ Shape'
  BY <1>4 DEF Locked, Goto
<1>5. ASSUME NEW t \in Threads, Read(t) PROVE TypeOK' /\ Shape'
  <2>1. pc[t] = "read" /\ base' \in [Threads -> [Paths -> Versions \cup {Torn}]]
    BY <1>5 DEF Read
  <2>2. UNCHANGED <<files, writes, owner, op, targets, landed>>
    BY <1>5 DEF Read
  <2>3. \E s \in {"write", "unlock"}, r \in {"none", "ok", "content_mismatch", "error"} :
           pc' = [pc EXCEPT ![t] = s] /\ (reply' = reply \/ reply' = [reply EXCEPT ![t] = r])
    BY <1>5 DEF Read, Goto, Finish
  <2>4. /\ pc' \in [Threads -> {"idle", "lock", "read", "write", "fill", "unlock"}]
        /\ reply' \in [Threads -> {"none", "ok", "content_mismatch", "error"}]
    <3>1. PICK s \in {"write", "unlock"}, r \in {"none", "ok", "content_mismatch", "error"} :
             pc' = [pc EXCEPT ![t] = s] /\ (reply' = reply \/ reply' = [reply EXCEPT ![t] = r])
      BY <2>3
    <3>2. /\ pc \in [Threads -> {"idle", "lock", "read", "write", "fill", "unlock"}]
          /\ reply \in [Threads -> {"none", "ok", "content_mismatch", "error"}]
      OBVIOUS
    <3> HIDE DEF TypeOK, Shape, Versions
    <3> QED BY <3>1, <3>2
  <2>5. TypeOK'
    <3> HIDE DEF Versions
    <3> QED BY <2>1, <2>2, <2>4
  <2>6. Shape'
    BY <2>1, <2>2, <2>3
  <2> QED BY <2>5, <2>6
<1>6. ASSUME NEW t \in Threads, pc[t] = "write" PROVE Target(t) \in Paths
  BY <1>6 DEF Target
<1>7. ASSUME NEW t \in Threads, WriteTarget(t) PROVE TypeOK' /\ Shape'
  <2> USE <1>7 DEF WriteTarget
  <2>1. writes' \in Versions /\ files' \in [Paths -> Versions \cup {Torn}]
    BY <1>6
  <2>2. landed' = [landed EXCEPT ![t] = landed[t] + 1] /\ landed' \in [Threads -> Nat]
    OBVIOUS
  <2>3. CASE LastTarget(t)
    <3>1. pc' = [pc EXCEPT ![t] = "unlock"] /\ reply' = [reply EXCEPT ![t] = "ok"]
      BY <2>3 DEF Finish
    <3>2. TypeOK'
      BY <2>1, <2>2, <3>1
    <3>3. Shape'
      BY <2>2, <3>1
    <3> QED BY <3>2, <3>3
  <2>4. CASE ~LastTarget(t)
    <3>1. landed[t] + 1 < Len(targets[t])
      BY <2>4 DEF LastTarget
    <3>2. pc' = [pc EXCEPT ![t] = "write"] /\ reply' = reply
      BY <2>4 DEF Goto
    <3>3. TypeOK'
      BY <2>1, <2>2, <3>2
    <3>4. Shape'
      BY <2>2, <3>1, <3>2
    <3> QED BY <3>3, <3>4
  <2> QED BY <2>3, <2>4
<1>8. ASSUME NEW t \in Threads, Delete(t) PROVE TypeOK' /\ Shape'
  BY <1>6, <1>8 DEF Delete, Finish
<1>9. ASSUME NEW t \in Threads, pc[t] # "idle", op[t] \in {"copy", "move"}
      PROVE  targets[t][1] \in Paths /\ targets[t][2] \in Paths
  BY <1>9
<1>10. ASSUME NEW t \in Threads, Move(t) PROVE TypeOK' /\ Shape'
  <2>1. files' = [files EXCEPT ![targets[t][1]] = 0, ![targets[t][2]] = files[targets[t][1]]]
    BY <1>10 DEF Move
  <2>2. targets[t][1] \in Paths /\ targets[t][2] \in Paths
    BY <1>9, <1>10 DEF Move
  <2>3. files' \in [Paths -> Versions \cup {Torn}]
    <3> DEFINE C == Versions \cup {Torn}
    <3>1. files \in [Paths -> C] /\ 0 \in C
      OBVIOUS
    <3> HIDE DEF C
    <3>2. [files EXCEPT ![targets[t][1]] = 0] \in [Paths -> C]
      BY <2>2, <3>1
    <3>3. files[targets[t][1]] \in C
      BY <2>2, <3>1
    <3>4. files' \in [Paths -> C]
      BY <2>1, <2>2, <3>2, <3>3
    <3> QED BY <3>4 DEF C
  <2> QED BY <1>10, <2>3 DEF Move, Finish
<1>11. ASSUME NEW t \in Threads, Copy(t) PROVE TypeOK' /\ Shape'
  BY <1>9, <1>11 DEF Copy, Goto
<1>12. ASSUME NEW t \in Threads, Fill(t) PROVE TypeOK' /\ Shape'
  BY <1>9, <1>12 DEF Fill, Finish
<1>13. ASSUME NEW t \in Threads, Fails(t) PROVE TypeOK' /\ Shape'
  BY <1>13 DEF Fails, Finish
<1>14. CASE UNCHANGED vars
  BY <1>14 DEF vars
<1> QED BY <1>1, <1>2, <1>3, <1>4, <1>5, <1>7, <1>8, <1>10, <1>11, <1>12, <1>13, <1>14
           DEF Next, Step

LEMMA TypeCorrect == Spec => [](TypeOK /\ Shape)
<1>1. Init => TypeOK /\ Shape
  BY EditsAssumption DEF Init, TypeOK, Shape, Versions, Torn, Nothing
<1> QED BY <1>1, TypeStep, PTL DEF Spec

-----------------------------------------------------------------------------
(* The locks.  A thread at work owns the stripes of all its targets; one   *)
(* that still locks owns smaller stripes than any it has yet to lock, and  *)
(* an idle one none.                                                       *)
Held(t) ==
    /\ Working(t) => \A k \in 1 .. Len(targets[t]) : owner[Stripe(t, k)] = t
    /\ \A s \in Stripes :
          owner[s] = t =>
             /\ pc[t] # "idle"
             /\ pc[t] = "lock" => \A r \in Missing(t) : s < r

Locks == \A t \in Threads : Held(t)

(* What a thread does leaves the others' calls alone.                      *)
Alone(t) ==
    \A u \in Threads \ {t} :
        /\ pc'[u] = pc[u] /\ op'[u] = op[u] /\ targets'[u] = targets[u]
        /\ base'[u] = base[u] /\ landed'[u] = landed[u]

LEMMA AloneStep ==
    ASSUME TypeOK, NEW t \in Threads,
           Step(t) \/ \E o \in Edits \cup Overwrites : \E ts \in ListsFor(o) : Call(t, o, ts)
    PROVE  Alone(t)
<1> USE DEF TypeOK, Alone, callVars, Goto, Finish, Return
<1>1. CASE \E o \in Edits \cup Overwrites : \E ts \in ListsFor(o) : Call(t, o, ts)
  BY <1>1 DEF Call
<1>2. CASE Refuse(t) \/ Unlock(t)
  BY <1>2 DEF Refuse, Unlock
<1>3. CASE Acquire(t) \/ Locked(t)
  BY <1>3 DEF Acquire, Locked
<1>4. CASE Read(t) \/ WriteTarget(t)
  BY <1>4 DEF Read, WriteTarget
<1>5. CASE Delete(t) \/ Move(t) \/ Copy(t) \/ Fill(t) \/ Fails(t)
  BY <1>5 DEF Delete, Move, Copy, Fill, Fails
<1> QED BY <1>1, <1>2, <1>3, <1>4, <1>5 DEF Step

LEMMA StripeType ==
    ASSUME TypeOK, NEW t \in Threads
    PROVE  /\ \A k \in 1 .. Len(targets[t]) : Stripe(t, k) \in Stripes
           /\ Missing(t) \subseteq Stripes
BY EditsAssumption DEF TypeOK, Stripe, Missing

(* A thread whose own call and locks do not change holds what it held.     *)
LEMMA SameHeld ==
    ASSUME TypeOK, NEW u \in Threads, Held(u),
           pc'[u] = pc[u], targets'[u] = targets[u],
           \A s \in Stripes : owner'[s] = u <=> owner[s] = u
    PROVE  Held(u)'
<1>1. \A k \in 1 .. Len(targets[u]) : Stripe(u, k) \in Stripes
  BY StripeType
<1>2. Missing(u)' = Missing(u)
  BY DEF Missing, Stripe
<1>3. Working(u)' = Working(u)
  BY DEF Working
<1> QED BY <1>1, <1>2, <1>3 DEF Held, Stripe

LEMMA LocksStep == TypeOK /\ Shape /\ Locks /\ [Next]_vars => Locks'
<1> SUFFICES ASSUME TypeOK, Shape, Locks, [Next]_vars PROVE Locks'
  OBVIOUS
<1> USE EditsAssumption
<1>1. ASSUME NEW t \in Threads, NEW o \in Edits \cup Overwrites, NEW ts \in ListsFor(o), Call(t, o, ts)
      PROVE  Locks'
  <2>1. ASSUME NEW u \in Threads \ {t} PROVE Held(u)'
    BY <1>1, AloneStep, SameHeld DEF Locks, Alone, Call
  <2>2. Held(t)'
    <3>1. pc[t] = "idle" /\ pc'[t] = "lock" /\ owner' = owner
      BY <1>1 DEF Call, Goto, TypeOK
    <3> QED BY <3>1 DEF Locks, Held, Working
  <2> QED BY <2>1, <2>2 DEF Locks
<1>2. ASSUME NEW t \in Threads, Step(t) PROVE Locks'
  <2>1. Alone(t)
    BY <1>2, AloneStep
  <2>2. ASSUME NEW u \in Threads \ {t} PROVE Held(u)'
    <3>1. \A s \in Stripes : owner'[s] = u <=> owner[s] = u
      BY <1>2 DEF TypeOK, Step, Refuse, Acquire, Locked, Read, WriteTarget, Delete, Move, Copy,
         Fill, Fails, Unlock
    <3> QED BY <2>1, <3>1, SameHeld DEF Locks, Alone
  <2>3. CASE Refuse(t) \/ Unlock(t)
    <3>1. pc'[t] = "idle" /\ \A s \in Stripes : owner'[s] # t
      <4>1. pc'[t] = "idle"
        BY <2>3 DEF Refuse, Unlock, Return, TypeOK
      <4>2. ASSUME NEW s \in Stripes PROVE owner'[s] # t
        BY <2>3, EditsAssumption DEF Refuse, Unlock
      <4> QED BY <4>1, <4>2
    <3>2. Held(t)'
      BY <3>1 DEF Held, Working
    <3> QED BY <2>2, <3>2 DEF Locks
  <2>4. CASE Acquire(t)
    <3>1. PICK s \in Wanted(t) : owner' = [owner EXCEPT ![s] = t]
      BY <2>4 DEF Acquire
    <3>2. Missing(t)' = Missing(t) \ {s}
      BY <2>4, <3>1 DEF Acquire, Missing, Stripe, callVars, TypeOK
    <3>3. pc[t] = "lock" /\ pc'[t] = "lock"
      BY <2>4 DEF Acquire
    <3>4. s \in Missing(t) /\ \A r \in Missing(t) : s =< r
      BY <3>1 DEF Wanted
    <3>5. ASSUME NEW q \in Stripes, owner'[q] = t, NEW r \in Missing(t)' PROVE q < r
      <4>1. r \in Missing(t) /\ r # s /\ r \in Nat /\ s \in Nat
        BY <3>2, <3>4, <3>5, StripeType
      <4>2. CASE q = s
        BY <3>4, <4>1, <4>2
      <4>3. CASE q # s
        BY <3>1, <3>3, <3>5, <4>1, <4>3 DEF Locks, Held, TypeOK
      <4> QED BY <4>2, <4>3
    <3>6. Held(t)'
      BY <3>3, <3>5 DEF Held, Working
    <3> QED BY <2>2, <3>6 DEF Locks
  <2>5. CASE Locked(t)
    <3>1. Missing(t) = {} /\ pc'[t] \in {"read", "write"} /\ owner' = owner /\ targets' = targets
      BY <2>5 DEF Locked, Goto, TypeOK, callVars
    <3>2. \A k \in 1 .. Len(targets[t]) : owner[Stripe(t, k)] = t
      BY <3>1, StripeType DEF Missing
    <3>3. Held(t)'
      BY <3>1, <3>2 DEF Held, Stripe
    <3> QED BY <2>2, <3>3 DEF Locks
  <2>6. CASE Read(t) \/ WriteTarget(t) \/ Delete(t) \/ Move(t) \/ Copy(t) \/ Fill(t) \/ Fails(t)
    <3>1. Working(t) /\ pc'[t] \in {"write", "fill", "unlock"} /\ owner' = owner /\ targets' = targets
      BY <2>6 DEF Read, WriteTarget, Delete, Move, Copy, Fill, Fails, Goto, Finish, Working, TypeOK,
         callVars
    <3>2. Held(t)'
      BY <3>1 DEF Locks, Held, Stripe
    <3> QED BY <2>2, <3>2 DEF Locks
  <2> QED BY <1>2, <2>3, <2>4, <2>5, <2>6 DEF Step
<1>3. CASE UNCHANGED vars
  <2>1. \A u \in Threads : Held(u)'
    BY <1>3, SameHeld DEF vars, callVars, Locks
  <2> QED BY <2>1 DEF Locks
<1> QED BY <1>1, <1>2, <1>3 DEF Next

LEMMA LocksCorrect == Spec => []Locks
<1>1. Init => Locks
  BY EditsAssumption DEF Init, Locks, Held, Working
<1> QED BY <1>1, LocksStep, TypeCorrect, PTL DEF Spec

(* Two threads at work have no file in common.                             *)
THEOREM DisjointCorrect == Spec => []Disjoint
<1>1. TypeOK /\ Locks => Disjoint
  BY DEF Locks, Held, Disjoint, Stripe
<1> QED BY <1>1, TypeCorrect, LocksCorrect, PTL

-----------------------------------------------------------------------------
(* A step changes the content only of files that its thread works on.      *)
LEMMA FilesStep ==
    ASSUME TypeOK, Shape, NEW t \in Threads, Step(t), NEW p \in Paths, files'[p] # files[p]
    PROVE  Working(t) /\ \E k \in 1 .. Len(targets[t]) : targets[t][k] = p
<1> USE DEF TypeOK, Shape, Working
<1>1. CASE WriteTarget(t) \/ Delete(t)
  <2>1. pc[t] = "write" /\ files'[p] # files[p] => p = Target(t)
    BY <1>1 DEF WriteTarget, Delete
  <2>2. landed[t] + 1 \in 1 .. Len(targets[t])
    BY <1>1 DEF WriteTarget, Delete
  <2> QED BY <2>1, <2>2, <1>1 DEF Target, WriteTarget, Delete
<1>2. CASE Move(t) \/ Copy(t) \/ Fill(t)
  <2>1. Working(t) /\ Len(targets[t]) = 2
    BY <1>2 DEF Move, Copy, Fill
  <2>2. p = targets[t][1] \/ p = targets[t][2]
    BY <1>2 DEF Move, Copy, Fill
  <2> QED BY <2>1, <2>2
<1>3. CASE ~(WriteTarget(t) \/ Delete(t) \/ Move(t) \/ Copy(t) \/ Fill(t))
  BY <1>3 DEF Step, Refuse, Acquire, Locked, Read, Fails, Unlock
<1> QED BY <1>1, <1>2, <1>3

(* No patch names a file twice.                                            *)
OneEach == \A ts \in Patches : \A i, j \in 1 .. Len(ts) : ts[i] = ts[j] => i = j

LEMMA CurrentStep ==
    ASSUME OneEach, TypeOK, Shape, Disjoint, EditsAreCurrent, [Next]_vars
    PROVE  EditsAreCurrent'
<1> SUFFICES ASSUME NEW u \in Threads, pc'[u] = "write", op'[u] \in Edits,
                    NEW k \in landed'[u] + 1 .. Len(targets'[u])
             PROVE  files'[targets'[u][k]] = base'[u][targets'[u][k]]
  BY DEF EditsAreCurrent
<1>1. ASSUME NEW t \in Threads, NEW o \in Edits \cup Overwrites, NEW ts \in ListsFor(o), Call(t, o, ts)
      PROVE  files'[targets'[u][k]] = base'[u][targets'[u][k]]
  <2>1. t # u /\ files' = files
    BY <1>1 DEF Call, Goto, TypeOK
  <2> QED BY <1>1, <2>1, AloneStep DEF Alone, EditsAreCurrent
<1>2. ASSUME NEW t \in Threads \ {u}, Step(t)
      PROVE  files'[targets'[u][k]] = base'[u][targets'[u][k]]
  <2>1. /\ pc[u] = "write" /\ op[u] \in Edits /\ targets'[u] = targets[u]
        /\ base'[u] = base[u] /\ landed'[u] = landed[u]
    BY <1>2, AloneStep DEF Alone
  <2>2. k \in 1 .. Len(targets[u]) /\ targets[u][k] \in Paths
    BY <2>1 DEF TypeOK
  <2>3. files'[targets[u][k]] = files[targets[u][k]]
    BY <1>2, <2>1, <2>2, FilesStep DEF Disjoint, Working
  <2> QED BY <2>1, <2>3 DEF EditsAreCurrent
<1>3. CASE Read(u)
  <2>1. base'[u] = files /\ files' = files
    BY <1>3 DEF Read, TypeOK
  <2> QED BY <2>1
<1>4. CASE WriteTarget(u)
  <2>1. /\ pc[u] = "write" /\ op[u] \in Edits /\ targets' = targets /\ base' = base
        /\ landed'[u] = landed[u] + 1
        /\ files' = [files EXCEPT ![Target(u)] = writes + 1]
    BY <1>4 DEF WriteTarget, callVars, TypeOK
  <2>2. /\ landed[u] \in Nat /\ landed[u] + 1 \in 1 .. Len(targets[u])
        /\ k \in 1 .. Len(targets[u]) /\ k # landed[u] + 1
        /\ k \in landed[u] + 1 .. Len(targets[u])
    BY <2>1 DEF TypeOK, Shape
  <2>3. targets[u][k] # Target(u)
    <3>1. pc[u] # "idle" /\ op[u] \in {"replace", "patch"}
      BY <2>1 DEF Edits
    <3> QED BY <2>2, <3>1 DEF OneEach, Shape, Target
  <2>4. targets[u][k] \in Paths
    BY <2>2 DEF TypeOK
  <2> QED BY <2>1, <2>2, <2>3, <2>4 DEF EditsAreCurrent, TypeOK
<1>5. CASE Delete(u) \/ Move(u) \/ Copy(u) \/ Fill(u) \/ Fails(u) \/ Unlock(u) \/ Refuse(u) \/ Acquire(u)
  BY <1>5 DEF Delete, Move, Copy, Fill, Fails, Unlock, Refuse, Acquire, Goto, Finish, Return, TypeOK
<1>6. CASE Locked(u)
  BY <1>6 DEF Locked, Goto, TypeOK, callVars
<1>7. CASE UNCHANGED vars
  BY <1>7 DEF vars, callVars, EditsAreCurrent
<1> QED BY <1>1, <1>2, <1>3, <1>4, <1>5, <1>6, <1>7 DEF Next, Step

(* Provided that no patch names a file twice, an edit never overwrites     *)
(* what it has not seen, however many threads edit, copy, move and delete. *)
THEOREM EditsAreCurrentCorrect == OneEach => (Spec => []EditsAreCurrent)
<1> SUFFICES ASSUME OneEach PROVE Spec => []EditsAreCurrent
  OBVIOUS
<1>1. Init => EditsAreCurrent
  BY DEF Init, EditsAreCurrent
<1>2. TypeOK /\ Shape /\ Disjoint /\ EditsAreCurrent /\ [Next]_vars => EditsAreCurrent'
  BY CurrentStep
<1> QED BY <1>1, <1>2, TypeCorrect, DisjointCorrect, PTL DEF Spec

-----------------------------------------------------------------------------
(* Of the stripes that threads wait for, take the greatest.  Its owner     *)
(* waits for none, since that would be a greater one.                      *)
LEMMA SomeoneGoesOn == TypeOK /\ Locks => DeadlockFree
<1> SUFFICES ASSUME TypeOK, Locks,
                    NEW t0 \in Threads, pc[t0] # "idle",
                    \A t \in Threads : pc[t] # "idle" => Blocked(t)
             PROVE  FALSE
  BY DEF DeadlockFree
<1> DEFINE Awaited == {s \in Stripes : \E t \in Threads : pc[t] # "idle" /\ s \in Wanted(t)}
<1>1. ASSUME NEW t \in Threads, pc[t] # "idle" PROVE \E s \in Awaited : s \in Wanted(t)
  <2>1. Missing(t) \subseteq Stripes /\ Missing(t) # {}
    BY <1>1, StripeType DEF Blocked
  <2>2. PICK s \in Missing(t) : \A r \in Missing(t) : s =< r
    BY <2>1, LeastNat, EditsAssumption
  <2> QED BY <1>1, <2>1, <2>2 DEF Wanted
<1>2. PICK s \in Awaited : \A r \in Awaited : r =< s
  <2>1. Awaited \in SUBSET Stripes /\ Awaited # {}
    BY <1>1
  <2>2. IsFiniteSet(Awaited) /\ Awaited \subseteq Nat
    BY <2>1, FS_Subset, EditsAssumption
  <2> HIDE DEF Awaited
  <2> QED BY <2>1, <2>2, GreatestNat
<1>3. PICK t \in Threads : pc[t] # "idle" /\ s \in Wanted(t)
  BY <1>2
<1>4. owner[s] \in Threads
  BY <1>2, <1>3 DEF Blocked, TypeOK
<1>5. pc[owner[s]] = "lock" /\ \A r \in Missing(owner[s]) : s < r
  BY <1>2, <1>4 DEF Locks, Held, Blocked
<1>6. PICK r \in Awaited : r \in Wanted(owner[s])
  BY <1>1, <1>4, <1>5
<1>7. r \in Nat /\ s \in Nat /\ s < r /\ r =< s
  BY <1>2, <1>5, <1>6, EditsAssumption DEF Wanted
<1> QED BY <1>7

(* Threads never all wait for one another, whatever the table of locks     *)
(* maps to the same stripe.                                                *)
THEOREM DeadlockFreeCorrect == Spec => []DeadlockFree
BY TypeCorrect, LocksCorrect, SomeoneGoesOn, PTL

-----------------------------------------------------------------------------
(* The states in which build_new goes through the hunks, and the hunks.    *)
States == [ok : BOOLEAN, lines : Seq(Texts), nl : BOOLEAN, cursor : Nat]
AnyOp == [op : LineOps, text : Texts, nl : BOOLEAN]
Hunks == [start : Nat, len : Nat, ops : Seq(AnyOp)]

LEMMA OpTexts == \A o \in AnyOp : o.text \in Texts
BY DEF AnyOp

(* s[k] is the side of the first k lines.                                  *)
SidesOf(s, ops, sel) ==
    /\ s[0] = <<>>
    /\ \A k \in 1 .. Len(ops) :
          s[k] = IF ops[k].op \in sel THEN Append(s[k - 1], ops[k].text) ELSE s[k - 1]

LEMMA SideBuilt ==
    ASSUME NEW R, NEW ops \in Seq(R), \A o \in R : o.text \in Texts, NEW sel
    PROVE  \E s \in [0 .. Len(ops) -> Seq(Texts)] : SidesOf(s, ops, sel) /\ Side(ops, sel) = s[Len(ops)]
<1> DEFINE n == Len(ops)
           V == Seq(Texts)
           Add(s, k) == IF ops[k].op \in sel THEN Append(s[k - 1], ops[k].text) ELSE s[k - 1]
           F == [k \in 1 .. n |-> [v \in V |-> IF ops[k].op \in sel THEN Append(v, ops[k].text) ELSE v]]
           Equation(s) == s = [k \in 0 .. n |-> IF k = 0 THEN <<>>
                                ELSE IF ops[k].op \in sel THEN Append(s[k - 1], ops[k].text)
                                ELSE s[k - 1]]
           side == CHOOSE s : Equation(s)
<1>1. n \in Nat /\ <<>> \in V /\ \A k \in 1 .. n : ops[k].text \in Texts
  <2>1. \A k \in 1 .. n : ops[k] \in R
    OBVIOUS
  <2> QED BY <2>1
<1>2. F \in [1 .. n -> [V -> V]]
  BY <1>1
<1>3. PICK g : Iterates(n, V, <<>>, F, g)
  <2> HIDE DEF n, F, V
  <2> QED BY <1>1, <1>2, IteratesExist
<1>4. g \in [0 .. n -> V] /\ g[0] = <<>> /\ \A k \in 1 .. n : g[k] = Add(g, k)
  <2>1. g \in [0 .. n -> V] /\ g[0] = <<>> /\ \A k \in 1 .. n : g[k] = F[k][g[k - 1]]
    BY <1>3 DEF Iterates
  <2>2. \A k \in 1 .. n : g[k - 1] \in V
    <3>1. \A k \in 1 .. n : k - 1 \in 0 .. n
      BY <1>1
    <3> HIDE DEF n, F, V
    <3> QED BY <2>1, <3>1
  <2>3. \A k \in 1 .. n : F[k][g[k - 1]] = Add(g, k)
    <3> HIDE DEF n, V
    <3> QED BY <2>2
  <2> HIDE DEF F, Add
  <2> QED BY <2>1, <2>3
<1> HIDE DEF F
<1>5. Equation(g)
  <2>1. \A k \in 0 .. n : k # 0 => k \in 1 .. n
    BY <1>1
  <2>2. \A k \in 0 .. n : g[k] = IF k = 0 THEN <<>> ELSE Add(g, k)
    <3> HIDE DEF Add
    <3> QED BY <1>4, <2>1, Zenon
  <2> QED BY <1>4, <2>2
<1>6. Equation(side)
  <2> HIDE DEF Equation
  <2> QED BY <1>5
<1>7. Side(ops, sel) = side[n]
  BY DEF Side
<1> HIDE DEF side
<1>8. side[0] = <<>> /\ \A k \in 1 .. n : side[k] = Add(side, k)
  <2>1. \A k \in 0 .. n : side[k] = IF k = 0 THEN <<>> ELSE Add(side, k)
    BY <1>6, Zenon
  <2>2. 0 \in 0 .. n /\ \A k \in 1 .. n : k \in 0 .. n /\ k # 0
    BY <1>1
  <2> HIDE DEF Add
  <2> QED BY <2>1, <2>2, Zenon
<1> HIDE DEF Equation
<1>9. Agree(n, side, g)
  <2>1. side[0] = g[0] /\ \A k \in 1 .. n : side[k - 1] = g[k - 1] => side[k] = g[k]
    BY <1>4, <1>8, Zenon
  <2> HIDE DEF Add
  <2> QED BY <1>1, <2>1, IteratesAgree
<1>10. Side(ops, sel) = g[n]
  BY <1>1, <1>7, <1>9 DEF Agree
<1> HIDE DEF V
<1> QED BY <1>4, <1>10 DEF SidesOf, V

LEMMA OpStates ==
    ASSUME NEW lines \in Seq(Texts), NEW s \in States, NEW o \in AnyOp
    PROVE  ApplyOp(lines, s, o) \in States
<1>1. Mismatch \in States
  BY DEF Mismatch, States
<1>2. o.nl \in BOOLEAN /\ o.text \in Texts
  BY DEF AnyOp
<1>3. s.lines \in Seq(Texts) /\ s.nl \in BOOLEAN /\ s.cursor \in Nat
  BY DEF States
<1>4. Append(s.lines, o.text) \in Seq(Texts)
  BY <1>2, <1>3
<1> QED BY <1>1, <1>2, <1>3, <1>4 DEF ApplyOp, EndsIn, States

LEMMA UpToStates ==
    ASSUME NEW lines \in Seq(Texts), NEW s \in States, NEW h \in Hunks,
           ~Misplaced(h, s.cursor, lines)
    PROVE  /\ Start(h) = Place(h) /\ Place(h) \in s.cursor .. Len(lines)
           /\ SubSeq(lines, s.cursor + 1, Place(h)) \in Seq(Texts)
           /\ UpTo(lines, s, h) = [ok |-> s.ok, nl |-> s.nl, cursor |-> Place(h),
                                   lines |-> s.lines \o SubSeq(lines, s.cursor + 1, Place(h))]
           /\ UpTo(lines, s, h) \in States
<1>1. h.start \in Nat /\ s.cursor \in Nat /\ s.lines \in Seq(Texts) /\ s.nl \in BOOLEAN /\ s.ok \in BOOLEAN
  BY DEF Hunks, States
<1>2. Start(h) = Place(h) /\ Place(h) \in Nat
  BY <1>1 DEF Start, Place
<1>3. Place(h) \in s.cursor .. Len(lines)
  BY <1>1, <1>2 DEF Misplaced
<1>4. SubSeq(lines, s.cursor + 1, Place(h)) \in Seq(Texts)
  BY <1>1, <1>3
<1>5. UpTo(lines, s, h) = [ok |-> s.ok, nl |-> s.nl, cursor |-> Place(h),
                           lines |-> s.lines \o SubSeq(lines, s.cursor + 1, Place(h))]
  <2> DEFINE more == s.lines \o SubSeq(lines, s.cursor + 1, Place(h))
  <2>1. UpTo(lines, s, h) = [s EXCEPT !.lines = more, !.cursor = Place(h)]
    BY <1>2 DEF UpTo
  <2> HIDE DEF more
  <2>2. DOMAIN s = {"ok", "lines", "nl", "cursor"}
    BY DEF States
  <2>3. UpTo(lines, s, h) = [ok |-> s.ok, nl |-> s.nl, cursor |-> Place(h), lines |-> more]
    BY <2>1, <2>2
  <2> QED BY <2>3 DEF more
<1>6. s.lines \o SubSeq(lines, s.cursor + 1, Place(h)) \in Seq(Texts)
  BY <1>1, <1>4
<1> QED BY <1>1, <1>2, <1>3, <1>4, <1>5, <1>6 DEF States

(* The states in which a hunk is applied, line by line. *)
Runs(run, lines, begin, ops) ==
    /\ run \in [0 .. Len(ops) -> States]
    /\ run[0] = begin
    /\ \A k \in 1 .. Len(ops) : run[k] = ApplyOp(lines, run[k - 1], ops[k])

LEMMA HunkRuns ==
    ASSUME NEW lines \in Seq(Texts), NEW s \in States, NEW h \in Hunks,
           s.ok, ~Misplaced(h, s.cursor, lines)
    PROVE  \E run : /\ Runs(run, lines, UpTo(lines, s, h), h.ops)
                    /\ ApplyHunk(lines, s, h) = run[Len(h.ops)]
<1> DEFINE ops == h.ops
           n == Len(ops)
           begin == UpTo(lines, s, h)
           F == [k \in 1 .. n |-> [v \in States |-> ApplyOp(lines, v, ops[k])]]
           Equation(r) == r = [k \in 0 .. n |-> IF k = 0 THEN begin
                                                ELSE ApplyOp(lines, r[k - 1], ops[k])]
           after == CHOOSE r : Equation(r)
<1>1. n \in Nat /\ begin \in States /\ \A k \in 1 .. n : ops[k] \in AnyOp
  BY UpToStates DEF Hunks
<1>2. F \in [1 .. n -> [States -> States]]
  <2>1. \A k \in 1 .. n : \A v \in States : ApplyOp(lines, v, ops[k]) \in States
    BY <1>1, OpStates
  <2> HIDE DEF n, ops
  <2> QED BY <2>1
<1>3. PICK g : Iterates(n, States, begin, F, g)
  <2> HIDE DEF n, F, begin
  <2> QED BY <1>1, <1>2, IteratesExist
<1>4. g \in [0 .. n -> States] /\ g[0] = begin /\ \A k \in 1 .. n : g[k] = ApplyOp(lines, g[k - 1], ops[k])
  <2>1. g \in [0 .. n -> States] /\ g[0] = begin /\ \A k \in 1 .. n : g[k] = F[k][g[k - 1]]
    BY <1>3 DEF Iterates
  <2>2. \A k \in 1 .. n : g[k - 1] \in States
    <3>1. \A k \in 1 .. n : k - 1 \in 0 .. n
      BY <1>1
    <3> HIDE DEF n, F, begin
    <3> QED BY <2>1, <3>1
  <2>3. \A k \in 1 .. n : F[k][g[k - 1]] = ApplyOp(lines, g[k - 1], ops[k])
    <3> HIDE DEF n, begin
    <3> QED BY <2>2
  <2> HIDE DEF F, n, begin
  <2> QED BY <2>1, <2>3
<1> HIDE DEF F, begin
<1>5. Equation(g)
  <2>1. \A k \in 0 .. n : k # 0 => k \in 1 .. n
    BY <1>1
  <2>2. \A k \in 0 .. n : g[k] = IF k = 0 THEN begin ELSE ApplyOp(lines, g[k - 1], ops[k])
    BY <1>4, <2>1, Zenon
  <2> QED BY <1>4, <2>2
<1>6. Equation(after)
  <2> HIDE DEF Equation
  <2> QED BY <1>5
<1>7. ApplyHunk(lines, s, h) = after[n]
  BY DEF ApplyHunk, begin
<1> HIDE DEF after
<1>8. after[0] = begin /\ \A k \in 1 .. n : after[k] = ApplyOp(lines, after[k - 1], ops[k])
  <2>1. \A k \in 0 .. n : after[k] = IF k = 0 THEN begin ELSE ApplyOp(lines, after[k - 1], ops[k])
    BY <1>6, Zenon
  <2>2. 0 \in 0 .. n /\ \A k \in 1 .. n : k \in 0 .. n /\ k # 0
    BY <1>1
  <2> QED BY <2>1, <2>2, Zenon
<1> HIDE DEF Equation
<1>9. Agree(n, after, g)
  <2>1. after[0] = g[0] /\ \A k \in 1 .. n : after[k - 1] = g[k - 1] => after[k] = g[k]
    BY <1>4, <1>8, Zenon
  <2> QED BY <1>1, <2>1, IteratesAgree
<1>10. ApplyHunk(lines, s, h) = g[n]
  BY <1>1, <1>7, <1>9 DEF Agree
<1> QED BY <1>4, <1>10 DEF Runs, begin

-----------------------------------------------------------------------------
(* The lines of part are those of the file from the one after c on.        *)
Found(lines, c, part) ==
    /\ c + Len(part) =< Len(lines)
    /\ \A i \in 1 .. Len(part) : lines[c + i] = part[i]

LEMMA FoundEmpty ==
    ASSUME NEW lines \in Seq(Texts), NEW c \in 0 .. Len(lines)
    PROVE  Found(lines, c, <<>>)
<1>1. Len(lines) \in Nat /\ Len(<<>>) = 0
  OBVIOUS
<1> QED BY <1>1 DEF Found

LEMMA FoundAppend ==
    ASSUME NEW lines \in Seq(Texts), NEW c \in Nat, NEW part \in Seq(Texts), NEW text \in Texts
    PROVE  Found(lines, c, Append(part, text)) <=>
              /\ Found(lines, c, part)
              /\ c + Len(part) < Len(lines) /\ lines[c + Len(part) + 1] = text
<1> DEFINE more == Append(part, text)
           n == Len(part)
<1>1. /\ n \in Nat /\ Len(lines) \in Nat /\ Len(more) = n + 1
      /\ more[n + 1] = text /\ \A i \in 1 .. n : more[i] = part[i]
  OBVIOUS
<1> HIDE DEF more, n
<1>2. \A i \in 1 .. n + 1 : i \in 1 .. n \/ i = n + 1
  BY <1>1
<1>3. c + (n + 1) =< Len(lines) <=> c + n =< Len(lines) /\ c + n < Len(lines)
  BY <1>1
<1>4. c + (n + 1) = c + n + 1 /\ n + 1 \in 1 .. n + 1 /\ 1 .. n \subseteq 1 .. n + 1
  BY <1>1
<1>5. (\A i \in 1 .. n + 1 : lines[c + i] = more[i])
         <=> (\A i \in 1 .. n : lines[c + i] = part[i]) /\ lines[c + n + 1] = text
  <2>1. \A i \in 1 .. n : (lines[c + i] = more[i]) <=> (lines[c + i] = part[i])
    BY <1>1
  <2>2. (lines[c + (n + 1)] = more[n + 1]) <=> (lines[c + n + 1] = text)
    BY <1>1, <1>4
  <2> QED BY <1>2, <1>4, <2>1, <2>2, Zenon
<1>6. Found(lines, c, more) <=> c + (n + 1) =< Len(lines) /\ \A i \in 1 .. n + 1 : lines[c + i] = more[i]
  BY <1>1 DEF Found
<1>7. Found(lines, c, part) <=> c + n =< Len(lines) /\ \A i \in 1 .. n : lines[c + i] = part[i]
  BY DEF Found, n
<1>8. Found(lines, c, more) <=> Found(lines, c, part) /\ c + n < Len(lines) /\ lines[c + n + 1] = text
  BY <1>3, <1>5, <1>6, <1>7, Zenon
<1> QED BY <1>8 DEF more, n

LEMMA FoundSubSeq ==
    ASSUME NEW lines \in Seq(Texts), NEW c \in Nat, NEW part \in Seq(Texts)
    PROVE  Found(lines, c, part) <=>
              c + Len(part) =< Len(lines) /\ SubSeq(lines, c + 1, c + Len(part)) = part
<1>1. Len(lines) \in Nat /\ Len(part) \in Nat
  OBVIOUS
<1>2. CASE c + Len(part) =< Len(lines)
  <2> DEFINE sub == SubSeq(lines, c + 1, c + Len(part))
  <2>1. /\ sub \in Seq(Texts) /\ Len(sub) = Len(part)
        /\ \A i \in 1 .. Len(part) : sub[i] = lines[c + i]
    <3> DEFINE a == c + 1
               b == c + Len(part)
    <3>1. /\ a \in Int /\ b \in Int /\ b - a + 1 = Len(part) /\ (a =< b \/ Len(part) = 0)
          /\ \A i \in 1 .. Len(part) : a + i - 1 = c + i
          /\ \A i \in a .. b : i \in 1 .. Len(lines)
      BY <1>1, <1>2
    <3>2. \A i \in a .. b : lines[i] \in Texts
      BY <3>1
    <3> HIDE DEF a, b
    <3>3. /\ SubSeq(lines, a, b) \in Seq(Texts)
          /\ Len(SubSeq(lines, a, b)) = IF a =< b THEN b - a + 1 ELSE 0
          /\ \A i \in 1 .. b - a + 1 : SubSeq(lines, a, b)[i] = lines[a + i - 1]
      BY <3>1, <3>2, SubSeqProperties
    <3> QED BY <3>1, <3>3 DEF a, b, sub
  <2> HIDE DEF sub
  <2>2. sub = part <=> \A i \in 1 .. Len(part) : sub[i] = part[i]
    <3>1. \A s \in Seq(Texts) : s = [i \in 1 .. Len(s) |-> s[i]]
      OBVIOUS
    <3>2. sub = [i \in 1 .. Len(part) |-> sub[i]] /\ part = [i \in 1 .. Len(part) |-> part[i]]
      BY <2>1, <3>1
    <3> QED BY <3>2
  <2> QED BY <1>2, <2>1, <2>2 DEF Found, sub
<1> QED BY <1>2 DEF Found

LEMMA AppendConcat ==
    ASSUME NEW front \in Seq(Texts), NEW part \in Seq(Texts), NEW text \in Texts
    PROVE  Append(front \o part, text) = front \o Append(part, text)
<1> DEFINE s == Append(front \o part, text)
           t == front \o Append(part, text)
           n == Len(front) + Len(part)
<1>1. Len(front) \in Nat /\ Len(part) \in Nat
  OBVIOUS
<1>2. /\ front \o part \in Seq(Texts) /\ Len(front \o part) = n
      /\ \A i \in 1 .. n : (front \o part)[i] = IF i =< Len(front) THEN front[i] ELSE part[i - Len(front)]
  BY ConcatProperties
<1>3. /\ s \in Seq(Texts) /\ Len(s) = n + 1 /\ s[n + 1] = text
      /\ \A i \in 1 .. n : s[i] = (front \o part)[i]
  <2> HIDE DEF n
  <2> QED BY <1>2
<1>4. /\ Append(part, text) \in Seq(Texts) /\ Len(Append(part, text)) = Len(part) + 1
      /\ Append(part, text)[Len(part) + 1] = text
      /\ \A i \in 1 .. Len(part) : Append(part, text)[i] = part[i]
  OBVIOUS
<1>5. /\ t \in Seq(Texts) /\ Len(t) = n + 1
      /\ \A i \in 1 .. n + 1 : t[i] = IF i =< Len(front) THEN front[i] ELSE Append(part, text)[i - Len(front)]
  BY <1>1, <1>4, ConcatProperties
<1> HIDE DEF s, t
<1>6. ASSUME NEW i \in 1 .. n + 1 PROVE s[i] = t[i]
  <2>1. CASE i = n + 1
    <3>1. i - Len(front) = Len(part) + 1 /\ ~(i =< Len(front))
      BY <1>1, <2>1
    <3> QED BY <1>3, <1>4, <1>5, <2>1, <3>1
  <2>2. CASE i # n + 1
    <3>1. i \in 1 .. n
      BY <1>1, <2>2
    <3>2. i =< Len(front) \/ i - Len(front) \in 1 .. Len(part)
      BY <1>1, <3>1
    <3> QED BY <1>2, <1>3, <1>4, <1>5, <3>1, <3>2
  <2> QED BY <2>1, <2>2
<1>7. s = t
  BY <1>3, <1>5, <1>6, SeqEqual
<1> QED BY <1>7 DEF s, t

(* One line of a hunk: the old lines up to it have been found if and only  *)
(* if the state is ok, and then the new ones up to it are written.         *)
Applied(s, lines, begin, old, new) ==
    /\ s.ok <=> Found(lines, begin.cursor, old)
    /\ s.ok => s.lines = begin.lines \o new /\ s.cursor = begin.cursor + Len(old)

LEMMA OpApplied ==
    ASSUME NEW lines \in Seq(Texts), NEW begin \in States, NEW s \in States, NEW o \in AnyOp,
           NEW old \in Seq(Texts), NEW new \in Seq(Texts), Applied(s, lines, begin, old, new)
    PROVE  Applied(ApplyOp(lines, s, o), lines, begin,
                   IF o.op \in OldOps THEN Append(old, o.text) ELSE old,
                   IF o.op \in NewOps THEN Append(new, o.text) ELSE new)
<1> DEFINE t == ApplyOp(lines, s, o)
           more == IF o.op \in OldOps THEN Append(old, o.text) ELSE old
           next == IF o.op \in NewOps THEN Append(new, o.text) ELSE new
<1>1. /\ o.text \in Texts /\ begin.cursor \in Nat /\ begin.lines \in Seq(Texts)
      /\ Len(old) \in Nat /\ Len(lines) \in Nat
  BY DEF AnyOp, States
<1>2. ~Mismatch.ok
  BY DEF Mismatch
<1>3. t.ok <=> s.ok /\ ~(o.op \in OldOps /\ Differs(o, s.cursor, lines))
  BY <1>2 DEF ApplyOp
<1>4. Found(lines, begin.cursor, more) <=>
         Found(lines, begin.cursor, old) /\ ~(o.op \in OldOps /\ Differs(o, begin.cursor + Len(old), lines))
  <2>1. Differs(o, begin.cursor + Len(old), lines) <=>
           ~(begin.cursor + Len(old) < Len(lines) /\ lines[begin.cursor + Len(old) + 1] = o.text)
    BY <1>1 DEF Differs
  <2>2. Found(lines, begin.cursor, Append(old, o.text)) <=>
              /\ Found(lines, begin.cursor, old)
              /\ begin.cursor + Len(old) < Len(lines) /\ lines[begin.cursor + Len(old) + 1] = o.text
    BY <1>1, FoundAppend
  <2> QED BY <2>1, <2>2
<1>5. t.ok <=> Found(lines, begin.cursor, more)
  BY <1>3, <1>4 DEF Applied
<1>6. ASSUME t.ok PROVE t.lines = begin.lines \o next /\ t.cursor = begin.cursor + Len(more)
  <2>1. s.ok /\ s.lines = begin.lines \o new /\ s.cursor = begin.cursor + Len(old)
    BY <1>3, <1>6 DEF Applied
  <2>2. /\ t.lines = IF o.op \in NewOps THEN Append(s.lines, o.text) ELSE s.lines
        /\ t.cursor = IF o.op \in OldOps THEN s.cursor + 1 ELSE s.cursor
    BY <1>3, <1>6 DEF ApplyOp
  <2>3. Append(begin.lines \o new, o.text) = begin.lines \o Append(new, o.text)
    BY <1>1, AppendConcat
  <2>4. Len(Append(old, o.text)) = Len(old) + 1
    BY <1>1
  <2>5. begin.cursor + Len(old) + 1 = begin.cursor + (Len(old) + 1)
    <3>1. \A a, b \in Nat : a + b + 1 = a + (b + 1)
      OBVIOUS
    <3> QED BY <1>1, <3>1
  <2> QED BY <2>1, <2>2, <2>3, <2>4, <2>5
<1> HIDE DEF t, more, next
<1>7. Applied(t, lines, begin, more, next)
  BY <1>5, <1>6 DEF Applied
<1> QED BY <1>7 DEF t, more, next

LEMMA OpsApplied ==
    ASSUME NEW lines \in Seq(Texts), NEW begin \in States, begin.ok, begin.cursor =< Len(lines),
           NEW ops \in Seq(AnyOp), NEW run, Runs(run, lines, begin, ops)
    PROVE  Applied(run[Len(ops)], lines, begin, Side(ops, OldOps), Side(ops, NewOps))
<1> DEFINE n == Len(ops)
<1>1. PICK old \in [0 .. n -> Seq(Texts)] : SidesOf(old, ops, OldOps) /\ Side(ops, OldOps) = old[n]
  BY SideBuilt, OpTexts
<1>2. PICK new \in [0 .. n -> Seq(Texts)] : SidesOf(new, ops, NewOps) /\ Side(ops, NewOps) = new[n]
  BY SideBuilt, OpTexts
<1> DEFINE Good(k) == Applied(run[k], lines, begin, old[k], new[k])
           T == {k \in 0 .. n : Good(k)}
<1>3. n \in Nat /\ \A k \in 1 .. n : ops[k] \in AnyOp /\ k - 1 \in 0 .. n
  OBVIOUS
<1> HIDE DEF n
<1>4. Good(0)
  <2>1. run[0] = begin /\ old[0] = <<>> /\ new[0] = <<>>
    BY <1>1, <1>2 DEF Runs, SidesOf
  <2>2. begin.cursor \in 0 .. Len(lines) /\ begin.lines \in Seq(Texts) /\ begin.cursor \in Nat
    <3>1. begin.cursor \in Nat /\ begin.lines \in Seq(Texts) /\ Len(lines) \in Nat
      BY DEF States
    <3> QED BY <3>1
  <2>3. Found(lines, begin.cursor, <<>>)
    BY <2>2, FoundEmpty
  <2>4. begin.lines \o <<>> = begin.lines /\ begin.cursor + Len(<<>>) = begin.cursor
    BY <2>2
  <2> QED BY <2>1, <2>3, <2>4 DEF Applied
<1>5. ASSUME NEW k \in 1 .. n, Good(k - 1) PROVE Good(k)
  <2>1. /\ run[k] = ApplyOp(lines, run[k - 1], ops[k])
        /\ old[k] = IF ops[k].op \in OldOps THEN Append(old[k - 1], ops[k].text) ELSE old[k - 1]
        /\ new[k] = IF ops[k].op \in NewOps THEN Append(new[k - 1], ops[k].text) ELSE new[k - 1]
    BY <1>1, <1>2 DEF Runs, SidesOf, n
  <2>2. /\ run[k - 1] \in States /\ ops[k] \in AnyOp
        /\ old[k - 1] \in Seq(Texts) /\ new[k - 1] \in Seq(Texts)
    BY <1>3 DEF Runs, n
  <2>3. Applied(run[k - 1], lines, begin, old[k - 1], new[k - 1])
    BY <1>5
  <2> HIDE DEF Good
  <2>4. Applied(ApplyOp(lines, run[k - 1], ops[k]), lines, begin,
                IF ops[k].op \in OldOps THEN Append(old[k - 1], ops[k].text) ELSE old[k - 1],
                IF ops[k].op \in NewOps THEN Append(new[k - 1], ops[k].text) ELSE new[k - 1])
    BY <2>2, <2>3, OpApplied
  <2> QED BY <2>1, <2>4 DEF Good
<1> HIDE DEF Good
<1>6. 0 \in T /\ \A k \in 1 .. n : k - 1 \in T => k \in T
  <2>1. 0 \in 0 .. n /\ \A k \in 1 .. n : k \in 0 .. n
    BY <1>3
  <2> QED BY <1>4, <1>5, <2>1
<1>7. Good(n)
  <2>1. n \in 0 .. n
    BY <1>3
  <2>2. \A k \in 0 .. n : k \in T
    <3> HIDE DEF T
    <3> QED BY <1>3, <1>6, UpwardsTo
  <2> QED BY <2>1, <2>2
<1> QED BY <1>1, <1>2, <1>7 DEF Good, n

-----------------------------------------------------------------------------
(* One hunk, in any state. *)
HunkDone(t, lines, s, h) ==
    /\ t.ok <=> s.ok /\ s.cursor =< Place(h) /\ FindsLines(h, lines)
    /\ t.ok => /\ t.lines = s.lines \o SubSeq(lines, s.cursor + 1, Place(h)) \o Side(h.ops, NewOps)
               /\ t.cursor = Behind(h) /\ t.cursor =< Len(lines)

LEMMA PlaceTypes ==
    ASSUME NEW h \in Hunks
    PROVE  /\ Place(h) \in Nat /\ Start(h) = Place(h) /\ h.ops \in Seq(AnyOp)
           /\ Side(h.ops, OldOps) \in Seq(Texts) /\ Side(h.ops, NewOps) \in Seq(Texts)
           /\ Behind(h) = Place(h) + Len(Side(h.ops, OldOps)) /\ Len(Side(h.ops, OldOps)) \in Nat
<1>1. h.start \in Nat /\ h.ops \in Seq(AnyOp)
  BY DEF Hunks
<1>2. Place(h) \in Nat /\ Start(h) = Place(h)
  BY <1>1 DEF Start, Place
<1>3. \A sel : Side(h.ops, sel) \in Seq(Texts)
  <2>1. Len(h.ops) \in 0 .. Len(h.ops)
    <3>1. Len(h.ops) \in Nat
      BY <1>1
    <3> QED BY <3>1
  <2> QED BY <1>1, <2>1, SideBuilt, OpTexts
<1>4. Len(Side(h.ops, OldOps)) \in Nat
  BY <1>3
<1> QED BY <1>1, <1>2, <1>3, <1>4 DEF Behind

LEMMA HunkApplied ==
    ASSUME NEW lines \in Seq(Texts), NEW s \in States, NEW h \in Hunks, s.ok => s.cursor =< Len(lines)
    PROVE  /\ ApplyHunk(lines, s, h) \in States
           /\ HunkDone(ApplyHunk(lines, s, h), lines, s, h)
<1> DEFINE t == ApplyHunk(lines, s, h)
           old == Side(h.ops, OldOps)
           new == Side(h.ops, NewOps)
<1>1. /\ Place(h) \in Nat /\ Start(h) = Place(h) /\ h.ops \in Seq(AnyOp)
      /\ old \in Seq(Texts) /\ new \in Seq(Texts) /\ Len(old) \in Nat /\ Behind(h) = Place(h) + Len(old)
  BY PlaceTypes
<1>2. Len(lines) \in Nat /\ s.cursor \in Nat
  BY DEF States
<1> HIDE DEF old, new
<1>3. FindsLines(h, lines) <=> Found(lines, Place(h), old)
  <2>1. Found(lines, Place(h), old) <=>
           Place(h) + Len(old) =< Len(lines) /\ SubSeq(lines, Place(h) + 1, Place(h) + Len(old)) = old
    BY <1>1, FoundSubSeq
  <2>2. FindsLines(h, lines) <=>
           Behind(h) =< Len(lines) /\ SubSeq(lines, Place(h) + 1, Behind(h)) = old
    BY DEF FindsLines, old
  <2> QED BY <1>1, <2>1, <2>2
<1>4. CASE ~s.ok \/ Misplaced(h, s.cursor, lines)
  <2>1. t = Mismatch
    BY <1>4 DEF ApplyHunk
  <2>2. Mismatch \in States /\ ~Mismatch.ok
    BY DEF Mismatch, States
  <2>3. Misplaced(h, s.cursor, lines) => ~(s.cursor =< Place(h)) \/ Behind(h) > Len(lines)
    BY <1>1, <1>2 DEF Misplaced
  <2>4. ~(s.ok /\ s.cursor =< Place(h) /\ FindsLines(h, lines))
    <3>1. Behind(h) > Len(lines) => ~FindsLines(h, lines)
      BY <1>1, <1>2 DEF FindsLines
    <3> QED BY <1>4, <2>3, <3>1
  <2> QED BY <2>1, <2>2, <2>4 DEF HunkDone
<1>5. CASE s.ok /\ ~Misplaced(h, s.cursor, lines)
  <2> DEFINE begin == UpTo(lines, s, h)
             n == Len(h.ops)
  <2>1. /\ begin \in States /\ begin.ok /\ begin.cursor = Place(h)
        /\ begin.lines = s.lines \o SubSeq(lines, s.cursor + 1, Place(h))
        /\ s.cursor =< Place(h) /\ Place(h) =< Len(lines)
    <3>1. Place(h) \in s.cursor .. Len(lines)
      BY <1>5, UpToStates
    <3>2. /\ begin = [ok |-> s.ok, nl |-> s.nl, cursor |-> Place(h),
                     lines |-> s.lines \o SubSeq(lines, s.cursor + 1, Place(h))]
          /\ begin \in States
      BY <1>5, UpToStates
    <3>3. s.cursor =< Place(h) /\ Place(h) =< Len(lines)
      BY <1>2, <3>1
    <3> HIDE DEF begin
    <3> QED BY <1>5, <3>2, <3>3
  <2>2. PICK run : Runs(run, lines, begin, h.ops) /\ t = run[n]
    BY <1>5, HunkRuns
  <2> HIDE DEF begin, t
  <2>3. t \in States
    <3>1. n \in 0 .. n
      <4>1. n \in Nat
        BY <1>1
      <4> QED BY <4>1
    <3> QED BY <2>2, <3>1 DEF Runs
  <2>4. Applied(t, lines, begin, old, new)
    BY <1>1, <2>1, <2>2, OpsApplied DEF old, new
  <2>5. t.ok <=> FindsLines(h, lines)
    BY <1>3, <2>1, <2>4 DEF Applied
  <2>6. t.ok => /\ t.lines = s.lines \o SubSeq(lines, s.cursor + 1, Place(h)) \o new
                /\ t.cursor = Behind(h) /\ t.cursor =< Len(lines)
    BY <1>1, <2>1, <2>4, <2>5 DEF Applied, FindsLines
  <2>7. HunkDone(t, lines, s, h)
    BY <1>5, <2>1, <2>5, <2>6 DEF HunkDone, new
  <2> QED BY <2>3, <2>7 DEF t
<1> QED BY <1>4, <1>5

-----------------------------------------------------------------------------
(* All the hunks. *)
LEMMA BuildRuns ==
    ASSUME NEW lines \in Seq(Texts), NEW hunks \in Seq(Hunks)
    PROVE  \E run \in [0 .. Len(hunks) -> States] :
              /\ run[0] = Untouched
              /\ \A k \in 1 .. Len(hunks) : run[k] = ApplyHunk(lines, run[k - 1], hunks[k])
              /\ LET s == run[Len(hunks)]
                     built == BuildNew([lines |-> lines, nl |-> TRUE], hunks)
                 IN  /\ built.ok <=> s.ok
                     /\ s.ok => built.lines = s.lines \o SubSeq(lines, s.cursor + 1, Len(lines))
<1> DEFINE n == Len(hunks)
           V == {s \in States : s.ok => s.cursor =< Len(lines)}
           F == [k \in 1 .. n |-> [v \in V |-> ApplyHunk(lines, v, hunks[k])]]
           Equation(r) == r = [k \in 0 .. n |-> IF k = 0 THEN Untouched
                                                ELSE ApplyHunk(lines, r[k - 1], hunks[k])]
           after == CHOOSE r : Equation(r)
<1>1. n \in Nat /\ Len(lines) \in Nat /\ \A k \in 1 .. n : hunks[k] \in Hunks
  OBVIOUS
<1>2. Untouched \in V
  BY <1>1 DEF Untouched, States
<1>3. F \in [1 .. n -> [V -> V]]
  <2>1. ASSUME NEW k \in 1 .. n, NEW v \in V PROVE ApplyHunk(lines, v, hunks[k]) \in V
    <3>1. /\ ApplyHunk(lines, v, hunks[k]) \in States
          /\ HunkDone(ApplyHunk(lines, v, hunks[k]), lines, v, hunks[k])
      BY <1>1, HunkApplied
    <3> QED BY <3>1 DEF HunkDone
  <2> HIDE DEF V, n
  <2> QED BY <2>1
<1>4. PICK g : Iterates(n, V, Untouched, F, g)
  <2> HIDE DEF n, F, V
  <2> QED BY <1>1, <1>2, <1>3, IteratesExist
<1>5. g \in [0 .. n -> V] /\ g[0] = Untouched /\ \A k \in 1 .. n : g[k] = ApplyHunk(lines, g[k - 1], hunks[k])
  <2>1. g \in [0 .. n -> V] /\ g[0] = Untouched /\ \A k \in 1 .. n : g[k] = F[k][g[k - 1]]
    BY <1>4 DEF Iterates
  <2>2. \A k \in 1 .. n : g[k - 1] \in V
    <3>1. \A k \in 1 .. n : k - 1 \in 0 .. n
      BY <1>1
    <3> HIDE DEF n, F, V
    <3> QED BY <2>1, <3>1
  <2>3. \A k \in 1 .. n : F[k][g[k - 1]] = ApplyHunk(lines, g[k - 1], hunks[k])
    <3> HIDE DEF n, V
    <3> QED BY <2>2
  <2> HIDE DEF F, V, n
  <2> QED BY <2>1, <2>3
<1> HIDE DEF F
<1>6. Equation(g)
  <2>1. \A k \in 0 .. n : k # 0 => k \in 1 .. n
    BY <1>1
  <2>2. \A k \in 0 .. n : g[k] = IF k = 0 THEN Untouched ELSE ApplyHunk(lines, g[k - 1], hunks[k])
    BY <1>5, <2>1, Zenon
  <2> HIDE DEF V
  <2> QED BY <1>5, <2>2
<1>7. Equation(after)
  <2> HIDE DEF Equation
  <2> QED BY <1>6
<1> DEFINE s == after[n]
           out == s.lines \o SubSeq(lines, s.cursor + 1, Len(lines))
           built == BuildNew([lines |-> lines, nl |-> TRUE], hunks)
<1>8. built = [ok |-> s.ok, lines |-> IF s.ok THEN out ELSE <<>>, nl |-> out = <<>> \/ s.nl]
  BY DEF BuildNew
<1> HIDE DEF after, built
<1>9. after[0] = Untouched /\ \A k \in 1 .. n : after[k] = ApplyHunk(lines, after[k - 1], hunks[k])
  <2>1. \A k \in 0 .. n : after[k] = IF k = 0 THEN Untouched ELSE ApplyHunk(lines, after[k - 1], hunks[k])
    BY <1>7, Zenon
  <2>2. 0 \in 0 .. n /\ \A k \in 1 .. n : k \in 0 .. n /\ k # 0
    BY <1>1
  <2> QED BY <2>1, <2>2, Zenon
<1> HIDE DEF Equation
<1>10. Agree(n, after, g)
  <2>1. after[0] = g[0] /\ \A k \in 1 .. n : after[k - 1] = g[k - 1] => after[k] = g[k]
    BY <1>5, <1>9, Zenon
  <2> QED BY <1>1, <2>1, IteratesAgree
<1>11. s = g[n]
  BY <1>1, <1>10 DEF Agree
<1>12. (built.ok <=> g[n].ok) /\ (g[n].ok => built.lines = g[n].lines \o SubSeq(lines, g[n].cursor + 1, Len(lines)))
  BY <1>8, <1>11
<1>13. g \in [0 .. n -> States]
  BY <1>5
<1> QED BY <1>5, <1>12, <1>13 DEF built

(* The hunks go through if and only if they fit, and then the file is      *)
(* spliced.                                                                *)
LEMMA BuildExact ==
    ASSUME NEW p, p.lines \in Seq(Texts), p.hunks \in Seq(Hunks)
    PROVE  LET built == BuildNew([lines |-> p.lines, nl |-> TRUE], p.hunks)
           IN  (built.ok <=> Fits(p)) /\ (built.ok => built.lines = Spliced(p))
<1> DEFINE lines == p.lines
           hunks == p.hunks
           n == Len(hunks)
           built == BuildNew([lines |-> lines, nl |-> TRUE], hunks)
           FitsAt(k) == Past(p, k - 1) =< Place(hunks[k]) /\ FindsLines(hunks[k], lines)
<1>1. n \in Nat /\ Len(lines) \in Nat /\ \A k \in 1 .. n : hunks[k] \in Hunks /\ k - 1 \in 0 .. n
  OBVIOUS
<1>2. PICK run \in [0 .. n -> States] :
         /\ run[0] = Untouched
         /\ \A k \in 1 .. n : run[k] = ApplyHunk(lines, run[k - 1], hunks[k])
         /\ built.ok <=> run[n].ok
         /\ run[n].ok => built.lines = run[n].lines \o SubSeq(lines, run[n].cursor + 1, Len(lines))
  BY BuildRuns
<1> DEFINE Good(k) == /\ run[k].ok <=> \A i \in 1 .. k : FitsAt(i)
                      /\ run[k].ok => run[k].cursor = Past(p, k) /\ run[k].cursor =< Len(lines)
           Wrong == {k \in 0 .. n : ~Good(k)}
<1> HIDE DEF n, lines, hunks, built
<1>3. Good(0)
  <2>1. Untouched.ok /\ Untouched.cursor = 0 /\ Past(p, 0) = 0
    BY DEF Untouched, Past
  <2> QED BY <1>1, <1>2, <2>1
<1>4. ASSUME NEW k \in 1 .. n, run[k - 1].ok => run[k - 1].cursor =< Len(lines)
      PROVE  HunkDone(run[k], lines, run[k - 1], hunks[k])
  <2>1. lines \in Seq(Texts) /\ run[k - 1] \in States /\ hunks[k] \in Hunks
    BY <1>1, <1>2 DEF lines
  <2> QED BY <1>2, <1>4, <2>1, HunkApplied
<1>5. ASSUME NEW k \in 1 .. n, Good(k - 1) PROVE Good(k)
  <2>1. HunkDone(run[k], lines, run[k - 1], hunks[k])
    BY <1>4, <1>5
  <2>2. Past(p, k) = Behind(hunks[k])
    BY <1>1 DEF Past, hunks
  <2>3. (\A i \in 1 .. k : FitsAt(i)) <=> (\A i \in 1 .. k - 1 : FitsAt(i)) /\ FitsAt(k)
    <3>1. \A i \in 1 .. k : i \in 1 .. k - 1 \/ i = k
      BY <1>1
    <3>2. k \in 1 .. k /\ 1 .. k - 1 \subseteq 1 .. k
      BY <1>1
    <3> HIDE DEF FitsAt
    <3> QED BY <3>1, <3>2
  <2>4. run[k].ok <=> run[k - 1].ok /\ FitsAt(k)
    BY <1>5, <2>1 DEF HunkDone
  <2>5. run[k].ok => run[k].cursor = Past(p, k) /\ run[k].cursor =< Len(lines)
    BY <2>1, <2>2 DEF HunkDone
  <2> HIDE DEF FitsAt
  <2> QED BY <1>5, <2>3, <2>4, <2>5
<1> HIDE DEF Good
<1>6. \A k \in 0 .. n : Good(k)
  <2> SUFFICES ASSUME Wrong # {} PROVE FALSE
    OBVIOUS
  <2>1. PICK m \in Wrong : \A l \in Wrong : m =< l
    <3>1. Wrong \subseteq Nat
      BY <1>1
    <3> HIDE DEF Wrong
    <3> QED BY <3>1, LeastNat
  <2>2. m \in 1 .. n /\ m - 1 \notin Wrong
    BY <1>1, <1>3, <2>1
  <2> QED BY <1>1, <1>5, <2>1, <2>2
<1>7. Fits(p) <=> \A i \in 1 .. n : FitsAt(i)
  BY DEF Fits, n, hunks, lines
<1>8. n \in 0 .. n
  BY <1>1
<1>9. built.ok <=> Fits(p)
  <2> HIDE DEF FitsAt
  <2> QED BY <1>2, <1>6, <1>7, <1>8 DEF Good
<1>10. ASSUME built.ok PROVE built.lines = Spliced(p)
  <2>1. \A k \in 0 .. n : run[k].ok /\ run[k].cursor = Past(p, k) /\ run[k].cursor =< Len(lines)
    <3>1. \A k \in 0 .. n : \A i \in 1 .. k : i \in 1 .. n
      BY <1>1
    <3> HIDE DEF FitsAt
    <3> QED BY <1>6, <1>7, <1>9, <1>10, <3>1 DEF Good
  <2> DEFINE More(f, k) == f \o SubSeq(lines, Past(p, k - 1) + 1, Place(hunks[k]))
                             \o Side(hunks[k].ops, NewOps)
             g == [k \in 0 .. n |-> run[k].lines]
             Equation(f) == f = [i \in 0 .. n |-> IF i = 0 THEN <<>>
                                   ELSE f[i - 1] \o SubSeq(lines, Past(p, i - 1) + 1, Place(hunks[i]))
                                                 \o Side(hunks[i].ops, NewOps)]
             front == CHOOSE f : Equation(f)
  <2>2. \A k \in 1 .. n : run[k].lines = More(run[k - 1].lines, k)
    <3>1. ASSUME NEW k \in 1 .. n PROVE run[k].lines = More(run[k - 1].lines, k)
      <4>1. k \in 0 .. n /\ k - 1 \in 0 .. n
        BY <1>1
      <4>2. HunkDone(run[k], lines, run[k - 1], hunks[k])
        BY <1>4, <2>1, <4>1
      <4> QED BY <2>1, <4>1, <4>2 DEF HunkDone
    <3> QED BY <3>1
  <2>3. g[0] = <<>> /\ \A k \in 1 .. n : g[k] = More(g[k - 1], k)
    <3>1. 0 \in 0 .. n /\ \A k \in 1 .. n : k \in 0 .. n /\ k - 1 \in 0 .. n
      BY <1>1
    <3>2. Untouched.lines = <<>>
      BY DEF Untouched
    <3> HIDE DEF More
    <3> QED BY <1>2, <2>2, <3>1, <3>2
  <2>4. Equation(g)
    <3>1. \A k \in 0 .. n : k # 0 => k \in 1 .. n
      BY <1>1
    <3>2. \A k \in 0 .. n : g[k] = IF k = 0 THEN <<>> ELSE More(g[k - 1], k)
      <4> HIDE DEF More, g
      <4> QED BY <2>3, <3>1, Zenon
    <3>3. g = [k \in 0 .. n |-> g[k]]
      OBVIOUS
    <3> HIDE DEF g
    <3> QED BY <3>2, <3>3
  <2>5. Equation(front)
    <3> HIDE DEF Equation, g
    <3> QED BY <2>4
  <2>6. Spliced(p) = front[n] \o SubSeq(lines, Past(p, n) + 1, Len(lines))
    BY DEF Spliced, n, lines, hunks
  <2> HIDE DEF front
  <2>7. front[0] = <<>> /\ \A k \in 1 .. n : front[k] = More(front[k - 1], k)
    <3>1. \A k \in 0 .. n : front[k] = IF k = 0 THEN <<>> ELSE More(front[k - 1], k)
      BY <2>5, Zenon
    <3>2. 0 \in 0 .. n /\ \A k \in 1 .. n : k \in 0 .. n /\ k # 0
      BY <1>1
    <3> HIDE DEF More
    <3> QED BY <3>1, <3>2, Zenon
  <2> HIDE DEF Equation, More, g
  <2>8. Agree(n, front, g)
    <3>1. front[0] = g[0] /\ \A k \in 1 .. n : front[k - 1] = g[k - 1] => front[k] = g[k]
      BY <2>3, <2>7, Zenon
    <3> QED BY <1>1, <3>1, IteratesAgree
  <2>9. front[n] = run[n].lines
    BY <1>8, <2>8 DEF Agree, g
  <2> QED BY <1>2, <1>8, <2>1, <2>6, <2>9
<1> QED BY <1>9, <1>10 DEF built, lines, hunks

-----------------------------------------------------------------------------
(* What the inputs are. *)
LEMMA BoundedSeqs ==
    ASSUME NEW S, NEW n \in Nat, NEW s \in BoundedSeq(S, n)
    PROVE  s \in Seq(S)
<1>1. PICK m \in 0 .. n : s \in [1 .. m -> S]
  BY DEF BoundedSeq, SeqOf
<1> QED BY <1>1, SeqDef

LEMMA PlacingTypes ==
    ASSUME NEW p \in Placings
    PROVE  p.lines \in Seq(Texts) /\ p.hunks \in Seq(Hunks)
<1>1. HunkOps \in Nat /\ MoreHunks \in Nat /\ OtherLines \in Nat
  BY AlgorithmsAssumption
<1>2. p.lines \in BoundedSeq(Plain, OtherLines)
  BY DEF Placings
<1>3. PICK h \in Hunk(BoundedSeq(HunkOp, HunkOps)),
           more \in BoundedSeq(Hunk(BoundedSeq(HunkOp, 1)), MoreHunks) :
         p.hunks = <<h>> \o more
  <2>1. p.hunks \in HunkLists
    BY DEF Placings
  <2> QED BY <2>1, Zenon DEF HunkLists
<1>4. \A k \in Nat : Hunk(BoundedSeq(HunkOp, k)) \subseteq Hunks
  <2>1. ASSUME NEW k \in Nat, NEW g \in Hunk(BoundedSeq(HunkOp, k)) PROVE g \in Hunks
    <3>1. g \in [start : 0 .. OtherLines + 1, len : {0}, ops : BoundedSeq(HunkOp, k)]
      BY DEF Hunk
    <3>2. g.ops \in Seq(AnyOp)
      <4>1. g.ops \in Seq(HunkOp)
        BY <3>1, BoundedSeqs
      <4>2. HunkOp \subseteq AnyOp
        BY DEF HunkOp, AnyOp, Plain
      <4> QED BY <4>1, <4>2, SeqMonotonic
    <3> QED BY <1>1, <3>1, <3>2 DEF Hunks
  <2> QED BY <2>1
<1>5. h \in Hunks /\ more \in Seq(Hunks)
  <2>1. more \in Seq(Hunk(BoundedSeq(HunkOp, 1)))
    BY <1>1, <1>3, BoundedSeqs
  <2>2. Hunk(BoundedSeq(HunkOp, 1)) \subseteq Hunks
    BY <1>4
  <2>3. more \in Seq(Hunks)
    BY <2>1, <2>2, SeqMonotonic
  <2> QED BY <1>1, <1>4, <2>3
<1>6. <<h>> \o more \in Seq(Hunks)
  <2>1. <<h>> \in Seq(Hunks)
    BY <1>5
  <2> QED BY <1>5, <2>1, ConcatProperties
<1>7. p.lines \in Seq(Texts)
  <2>1. p.lines \in Seq(Plain) /\ Plain \subseteq Texts
    BY <1>1, <1>2, BoundedSeqs DEF Plain
  <2> QED BY <2>1, SeqMonotonic
<1> QED BY <1>3, <1>6, <1>7

-----------------------------------------------------------------------------
(* Edit scripts. *)
Scripts == Seq(Op)

LEMMA ScriptTexts == \A o \in Op : o.text \in Texts /\ o.op \in LineOps
BY DEF Op

LEMMA LineTexts ==
    ASSUME NEW script \in Scripts, NEW i \in 1 .. Len(script)
    PROVE  script[i] \in Op /\ script[i].text \in Texts /\ script[i].op \in LineOps
<1>1. script[i] \in Op
  BY DEF Scripts
<1> QED BY <1>1, ScriptTexts

LEMMA LastAppend ==
    ASSUME NEW S, NEW s \in Seq(S), NEW e \in S
    PROVE  /\ Append(s, e) \in Seq(S) /\ Append(s, e) # <<>>
           /\ Last(Append(s, e)) = e /\ Front(Append(s, e)) = s
<1> DEFINE t == Append(s, e)
           n == Len(s)
<1>1. n \in Nat /\ t \in Seq(S) /\ t # <<>> /\ Len(t) = n + 1 /\ t[n + 1] = e /\ \A i \in 1 .. n : t[i] = s[i]
  BY AppendProperties
<1> HIDE DEF t
<1>2. Last(t) = e
  BY <1>1 DEF Last
<1>3. Front(t) = SubSeq(t, 1, n)
  BY <1>1 DEF Front
<1>4. /\ SubSeq(t, 1, n) \in Seq(S) /\ Len(SubSeq(t, 1, n)) = n
      /\ \A i \in 1 .. n : SubSeq(t, 1, n)[i] = t[i]
  <2>1. \A i \in 1 .. n : t[i] \in S
    BY <1>1
  <2> HIDE DEF n
  <2>2. /\ SubSeq(t, 1, n) \in Seq(S) /\ Len(SubSeq(t, 1, n)) = IF 1 =< n THEN n - 1 + 1 ELSE 0
        /\ \A i \in 1 .. n - 1 + 1 : SubSeq(t, 1, n)[i] = t[1 + i - 1]
    BY <1>1, <2>1, SubSeqProperties
  <2>3. n - 1 + 1 = n /\ \A i \in 1 .. n : 1 + i - 1 = i
    BY <1>1
  <2> QED BY <1>1, <2>2, <2>3
<1>5. SubSeq(t, 1, n) = s
  BY <1>1, <1>4, SeqEqual
<1> QED BY <1>1, <1>2, <1>3, <1>5 DEF t

(* The sides of the beginnings of a script. *)
LEMMA PrefixSides ==
    ASSUME NEW script \in Scripts, NEW sel
    PROVE  \E s \in [0 .. Len(script) -> Seq(Texts)] :
              /\ SidesOf(s, script, sel)
              /\ \A k \in 0 .. Len(script) : Side(SubSeq(script, 1, k), sel) = s[k]
              /\ Side(script, sel) = s[Len(script)]
<1> DEFINE n == Len(script)
<1>1. n \in Nat /\ \A k \in 1 .. n : script[k] \in Op
  BY DEF Scripts
<1>2. PICK s \in [0 .. n -> Seq(Texts)] : SidesOf(s, script, sel) /\ Side(script, sel) = s[n]
  BY SideBuilt, ScriptTexts DEF Scripts
<1>3. ASSUME NEW k \in 0 .. n PROVE Side(SubSeq(script, 1, k), sel) = s[k]
  <2> DEFINE part == SubSeq(script, 1, k)
  <2>1. part \in Scripts /\ Len(part) = k /\ \A i \in 1 .. k : part[i] = script[i]
    <3>1. k \in Nat /\ \A i \in 1 .. k : script[i] \in Op
      BY <1>1
    <3>2. /\ part \in Seq(Op) /\ Len(part) = IF 1 =< k THEN k - 1 + 1 ELSE 0
          /\ \A i \in 1 .. k - 1 + 1 : part[i] = script[1 + i - 1]
      BY <3>1, SubSeqProperties
    <3>3. k - 1 + 1 = k /\ \A i \in 1 .. k : 1 + i - 1 = i
      BY <3>1
    <3> QED BY <3>1, <3>2, <3>3 DEF Scripts
  <2> HIDE DEF part
  <2>2. PICK t \in [0 .. Len(part) -> Seq(Texts)] : SidesOf(t, part, sel) /\ Side(part, sel) = t[Len(part)]
    BY <2>1, SideBuilt, ScriptTexts DEF Scripts
  <2>3. t[0] = s[0] /\ \A i \in 1 .. k : t[i - 1] = s[i - 1] => t[i] = s[i]
    <3>1. \A i \in 1 .. k : i \in 1 .. n
      BY <1>1
    <3>2. t[0] = <<>> /\ s[0] = <<>>
      BY <1>2, <2>2 DEF SidesOf
    <3>3. ASSUME NEW i \in 1 .. k, t[i - 1] = s[i - 1] PROVE t[i] = s[i]
      <4>1. t[i] = IF part[i].op \in sel THEN Append(t[i - 1], part[i].text) ELSE t[i - 1]
        BY <2>1, <2>2 DEF SidesOf
      <4>2. s[i] = IF script[i].op \in sel THEN Append(s[i - 1], script[i].text) ELSE s[i - 1]
        BY <1>2, <3>1 DEF SidesOf
      <4>3. part[i] = script[i]
        BY <2>1
      <4> QED BY <3>3, <4>1, <4>2, <4>3
    <3> QED BY <3>2, <3>3
  <2>4. Agree(k, t, s)
    <3>1. k \in Nat
      BY <1>1
    <3> QED BY <2>3, <3>1, IteratesAgree
  <2>5. t[k] = s[k]
    BY <1>1, <2>4 DEF Agree
  <2> QED BY <2>1, <2>2, <2>5 DEF part
<1> QED BY <1>2, <1>3 DEF n

(* The side of one more line. *)
LEMMA NextSide ==
    ASSUME NEW script \in Scripts, NEW sel, NEW i \in 1 .. Len(script)
    PROVE  /\ Side(SubSeq(script, 1, i - 1), sel) \in Seq(Texts)
           /\ Side(SubSeq(script, 1, i), sel) =
                 IF script[i].op \in sel THEN Append(Side(SubSeq(script, 1, i - 1), sel), script[i].text)
                 ELSE Side(SubSeq(script, 1, i - 1), sel)
<1>1. PICK s \in [0 .. Len(script) -> Seq(Texts)] :
              /\ SidesOf(s, script, sel)
              /\ \A k \in 0 .. Len(script) : Side(SubSeq(script, 1, k), sel) = s[k]
              /\ Side(script, sel) = s[Len(script)]
  BY PrefixSides, Zenon
<1>2. i \in 0 .. Len(script) /\ i - 1 \in 0 .. Len(script)
  <2>1. Len(script) \in Nat
    BY DEF Scripts
  <2> QED BY <2>1
<1>3. s[i] = IF script[i].op \in sel THEN Append(s[i - 1], script[i].text) ELSE s[i - 1]
  BY <1>1 DEF SidesOf
<1> QED BY <1>1, <1>2, <1>3

LEMMA WholeSide ==
    ASSUME NEW script \in Scripts, NEW sel
    PROVE  /\ Side(SubSeq(script, 1, 0), sel) = <<>>
           /\ Side(SubSeq(script, 1, Len(script)), sel) = Side(script, sel)
           /\ Side(script, sel) \in Seq(Texts)
<1>1. PICK s \in [0 .. Len(script) -> Seq(Texts)] :
              /\ SidesOf(s, script, sel)
              /\ \A k \in 0 .. Len(script) : Side(SubSeq(script, 1, k), sel) = s[k]
              /\ Side(script, sel) = s[Len(script)]
  BY PrefixSides
<1>2. 0 \in 0 .. Len(script) /\ Len(script) \in 0 .. Len(script)
  <2>1. Len(script) \in Nat
    BY DEF Scripts
  <2> QED BY <2>1
<1> QED BY <1>1, <1>2 DEF SidesOf

(* Old lines are counted one by one, and the old version begins with those *)
(* of the beginning of a script.                                           *)
LEMMA OldStep ==
    ASSUME NEW script \in Scripts, NEW i \in 1 .. Len(script)
    PROVE  /\ OldUpTo(script, i - 1) \in Nat
           /\ OldUpTo(script, i) = OldUpTo(script, i - 1) + (IF script[i].op \in OldOps THEN 1 ELSE 0)
<1> DEFINE before == Side(SubSeq(script, 1, i - 1), OldOps)
<1>1. before \in Seq(Texts) /\ script[i].text \in Texts
  <2>1. before \in Seq(Texts)
    BY NextSide
  <2> QED BY <2>1, LineTexts
<1>2. Side(SubSeq(script, 1, i), OldOps) = IF script[i].op \in OldOps THEN Append(before, script[i].text) ELSE before
  BY NextSide
<1> HIDE DEF before
<1>3. Len(before) \in Nat /\ Len(Append(before, script[i].text)) = Len(before) + 1
  BY <1>1
<1>4. OldUpTo(script, i - 1) = Len(before)
  BY DEF OldUpTo, before
<1>5. OldUpTo(script, i) = Len(IF script[i].op \in OldOps THEN Append(before, script[i].text) ELSE before)
  BY <1>2 DEF OldUpTo
<1> QED BY <1>3, <1>4, <1>5

LEMMA OldRises ==
    ASSUME NEW script \in Scripts, NEW j \in 0 .. Len(script), NEW i \in 0 .. j
    PROVE  /\ OldUpTo(script, i) \in Nat /\ OldUpTo(script, j) \in Nat
           /\ OldUpTo(script, i) =< OldUpTo(script, j)
           /\ \A x \in 1 .. OldUpTo(script, i) :
                 Side(SubSeq(script, 1, j), OldOps)[x] = Side(SubSeq(script, 1, i), OldOps)[x]
<1> DEFINE n == Len(script)
           c(k) == OldUpTo(script, k)
           old(k) == Side(SubSeq(script, 1, k), OldOps)
           Good(m) == i =< m => /\ c(i) \in Nat /\ c(m) \in Nat /\ c(i) =< c(m)
                                /\ \A x \in 1 .. c(i) : old(m)[x] = old(i)[x]
           T == {m \in 0 .. n : Good(m)}
<1>1. n \in Nat /\ i \in 0 .. n
  <2>1. n \in Nat
    BY DEF Scripts
  <2> QED BY <2>1
<1>2. \A k \in 0 .. n : old(k) \in Seq(Texts) /\ c(k) = Len(old(k)) /\ c(k) \in Nat
  <2>1. PICK s \in [0 .. Len(script) -> Seq(Texts)] :
              /\ SidesOf(s, script, OldOps)
              /\ \A k \in 0 .. Len(script) : Side(SubSeq(script, 1, k), OldOps) = s[k]
              /\ Side(script, OldOps) = s[Len(script)]
    BY PrefixSides, Zenon
  <2>2. \A k \in 0 .. n : old(k) \in Seq(Texts)
    BY <2>1
  <2> QED BY <2>2 DEF OldUpTo
<1>3. \A k \in 1 .. n : old(k) = IF script[k].op \in OldOps THEN Append(old(k - 1), script[k].text) ELSE old(k - 1)
  BY NextSide
<1>4. \A k \in 1 .. n : script[k].text \in Texts
  BY ScriptTexts DEF Scripts
<1> HIDE DEF c, old, n
<1>5. Good(0)
  <2>1. i =< 0 => i = 0
    BY <1>1
  <2> QED BY <1>1, <1>2, <2>1
<1>6. ASSUME NEW k \in 1 .. n, Good(k - 1) PROVE Good(k)
  <2>1. k \in 0 .. n /\ k - 1 \in 0 .. n
    BY <1>1
  <2>2. CASE k = i
    BY <1>2, <2>1, <2>2
  <2>3. CASE i =< k - 1
    <3>1. c(i) \in Nat /\ c(k - 1) \in Nat /\ c(i) =< c(k - 1) /\ \A x \in 1 .. c(i) : old(k - 1)[x] = old(i)[x]
      BY <1>6, <2>3
    <3>2. c(k) \in Nat /\ c(k - 1) =< c(k) /\ \A x \in 1 .. c(k - 1) : old(k)[x] = old(k - 1)[x]
      <4> DEFINE o == old(k - 1)
      <4>1. o \in Seq(Texts) /\ script[k].text \in Texts /\ c(k - 1) = Len(o)
        BY <1>2, <1>4, <2>1
      <4> HIDE DEF o
      <4>2. \A x \in 1 .. Len(o) : Append(o, script[k].text)[x] = o[x]
        BY <4>1
      <4>3. Len(Append(o, script[k].text)) = Len(o) + 1 /\ Len(o) \in Nat
        BY <4>1
      <4>4. old(k) = Append(o, script[k].text) \/ old(k) = o
        BY <1>3 DEF o
      <4>5. c(k) = Len(old(k)) /\ c(k) \in Nat
        BY <1>2, <2>1
      <4>6. CASE old(k) = o
        BY <4>1, <4>5, <4>6 DEF o
      <4>7. CASE old(k) = Append(o, script[k].text)
        <5>1. c(k) = c(k - 1) + 1
          BY <4>1, <4>3, <4>5, <4>7
        <5>2. \A x \in 1 .. c(k - 1) : old(k)[x] = o[x]
          BY <4>1, <4>2, <4>7
        <5> QED BY <4>1, <4>3, <4>5, <5>1, <5>2 DEF o
      <4> QED BY <4>4, <4>6, <4>7
    <3>3. \A x \in 1 .. c(i) : x \in 1 .. c(k - 1)
      BY <3>1
    <3>4. c(i) =< c(k)
      BY <3>1, <3>2
    <3> QED BY <3>1, <3>2, <3>3, <3>4
  <2>4. i =< k => k = i \/ i =< k - 1
    BY <1>1
  <2> QED BY <2>2, <2>3, <2>4
<1> HIDE DEF Good
<1>7. 0 \in T /\ \A k \in 1 .. n : k - 1 \in T => k \in T
  <2>1. 0 \in 0 .. n /\ \A k \in 1 .. n : k \in 0 .. n
    BY <1>1
  <2> QED BY <1>5, <1>6, <2>1
<1>8. Good(j)
  <2>1. \A k \in 0 .. n : k \in T
    <3> HIDE DEF T
    <3> QED BY <1>1, <1>7, UpwardsTo
  <2> QED BY <2>1 DEF n
<1>9. i =< j
  BY <1>1
<1> QED BY <1>8, <1>9 DEF Good, c, old

(* Where an old line is in the old version. *)
LEMMA OldLineThere ==
    ASSUME NEW script \in Scripts, NEW i \in 1 .. Len(script)
    PROVE  /\ OldUpTo(script, i) =< Len(Side(script, OldOps))
           /\ OldUpTo(script, Len(script)) = Len(Side(script, OldOps))
           /\ script[i].op \in OldOps =>
                 /\ OldUpTo(script, i) = OldUpTo(script, i - 1) + 1
                 /\ Side(script, OldOps)[OldUpTo(script, i - 1) + 1] = script[i].text
<1> DEFINE n == Len(script)
           old == Side(SubSeq(script, 1, i), OldOps)
           before == Side(SubSeq(script, 1, i - 1), OldOps)
<1>1. n \in Nat /\ n \in 0 .. n /\ i \in 0 .. n
  <2>1. n \in Nat
    BY DEF Scripts
  <2> QED BY <2>1
<1>2. Side(SubSeq(script, 1, n), OldOps) = Side(script, OldOps)
  BY WholeSide
<1>3. OldUpTo(script, n) = Len(Side(script, OldOps))
  BY <1>2 DEF OldUpTo
<1>4. /\ OldUpTo(script, i) \in Nat /\ OldUpTo(script, i) =< OldUpTo(script, n)
      /\ \A x \in 1 .. OldUpTo(script, i) : Side(SubSeq(script, 1, n), OldOps)[x] = old[x]
  BY <1>1, OldRises
<1>5. OldUpTo(script, i) =< Len(Side(script, OldOps))
  BY <1>3, <1>4
<1>6. ASSUME script[i].op \in OldOps
      PROVE  /\ OldUpTo(script, i) = OldUpTo(script, i - 1) + 1
             /\ Side(script, OldOps)[OldUpTo(script, i - 1) + 1] = script[i].text
  <2>1. OldUpTo(script, i - 1) \in Nat /\ OldUpTo(script, i) = OldUpTo(script, i - 1) + 1
    BY <1>6, OldStep
  <2>2. before \in Seq(Texts) /\ script[i].text \in Texts /\ old = Append(before, script[i].text)
    <3>1. before \in Seq(Texts) /\ old = Append(before, script[i].text)
      BY <1>6, NextSide
    <3> QED BY <3>1, LineTexts
  <2>3. OldUpTo(script, i - 1) = Len(before)
    BY DEF OldUpTo
  <2> HIDE DEF before, old
  <2>4. old[Len(before) + 1] = script[i].text
    BY <2>2
  <2>5. OldUpTo(script, i) \in 1 .. OldUpTo(script, i)
    BY <2>1
  <2> QED BY <1>2, <1>4, <2>1, <2>3, <2>4, <2>5
<1> QED BY <1>3, <1>5, <1>6 DEF n

-----------------------------------------------------------------------------
(* The last line of the run of shown lines that a shown line is in.        *)
EndsRun(shown, i, j) == j \in shown /\ j >= i /\ j + 1 \notin shown /\ i .. j \subseteq shown

LEMMA HunkEnds ==
    ASSUME NEW n \in Nat, NEW shown \in SUBSET (1 .. n), NEW i \in shown
    PROVE  /\ EndsRun(shown, i, HunkEnd(shown, i))
           /\ HunkEnd(shown, i) \in i .. n
           /\ \A j : EndsRun(shown, i, j) => HunkEnd(shown, i) = j
<1> DEFINE Ends == {j \in i .. n : j + 1 \notin shown}
<1>1. i \in 1 .. n /\ i \in Nat
  OBVIOUS
<1>2. PICK m \in Ends : \A l \in Ends : m =< l
  <2>1. n \in Ends /\ Ends \subseteq Nat
    <3>1. n + 1 \notin 1 .. n /\ n \in i .. n /\ i .. n \subseteq Nat
      BY <1>1
    <3> QED BY <3>1
  <2> HIDE DEF Ends
  <2> QED BY <2>1, LeastNat
<1>3. \A k \in i .. m : k \in shown
  <2> SUFFICES ASSUME NEW k \in i .. m PROVE k \in shown
    OBVIOUS
  <2>1. CASE k = i
    BY <2>1
  <2>2. CASE k # i
    <3>1. k - 1 \in i .. n /\ ~(m =< k - 1) /\ k - 1 + 1 = k
      BY <1>1, <1>2, <2>2
    <3> QED BY <1>2, <3>1
  <2> QED BY <2>1, <2>2
<1>4. EndsRun(shown, i, m)
  <2>1. m \in i .. m /\ m >= i
    BY <1>1, <1>2
  <2>2. m + 1 \notin shown
    BY <1>2
  <2> QED BY <1>3, <2>1, <2>2 DEF EndsRun
<1>5. ASSUME NEW j, NEW k, EndsRun(shown, i, j), EndsRun(shown, i, k) PROVE ~(j < k)
  <2>1. j \in 1 .. n /\ k \in 1 .. n /\ j >= i /\ j + 1 \notin shown /\ i .. k \subseteq shown
    BY <1>5 DEF EndsRun
  <2>2. j < k => j + 1 \in i .. k
    BY <1>1, <2>1
  <2> QED BY <2>1, <2>2
<1>6. HunkEnd(shown, i) = CHOOSE j \in shown : EndsRun(shown, i, j)
  BY DEF HunkEnd, EndsRun
<1>7. EndsRun(shown, i, HunkEnd(shown, i))
  <2>1. \E j \in shown : EndsRun(shown, i, j)
    BY <1>4 DEF EndsRun
  <2> QED BY <1>6, <2>1
<1>8. \A j : EndsRun(shown, i, j) => HunkEnd(shown, i) = j
  <2> SUFFICES ASSUME NEW j, EndsRun(shown, i, j) PROVE HunkEnd(shown, i) = j
    OBVIOUS
  <2>1. ~(j < HunkEnd(shown, i)) /\ ~(HunkEnd(shown, i) < j)
    BY <1>5, <1>7
  <2>2. j \in Nat /\ HunkEnd(shown, i) \in Nat
    <3>1. j \in shown /\ HunkEnd(shown, i) \in shown
      BY <1>7 DEF EndsRun
    <3>2. \A k \in shown : k \in Nat
      OBVIOUS
    <3> QED BY <3>1, <3>2
  <2> QED BY <2>1, <2>2
<1>9. HunkEnd(shown, i) \in i .. n
  <2>1. HunkEnd(shown, i) \in 1 .. n /\ HunkEnd(shown, i) >= i
    BY <1>7 DEF EndsRun
  <2> QED BY <1>1, <2>1
<1> QED BY <1>7, <1>8, <1>9

LEMMA HunkEndSame ==
    ASSUME NEW n \in Nat, NEW shown \in SUBSET (1 .. n), NEW i \in shown
    PROVE  /\ i - 1 \in shown => HunkEnd(shown, i - 1) = HunkEnd(shown, i)
           /\ i + 1 \notin shown => HunkEnd(shown, i) = i
<1>1. i \in Nat
  OBVIOUS
<1>2. ASSUME i - 1 \in shown PROVE HunkEnd(shown, i - 1) = HunkEnd(shown, i)
  <2> DEFINE e == HunkEnd(shown, i)
  <2>1. EndsRun(shown, i, e) /\ e \in Nat
    <3>1. EndsRun(shown, i, e) /\ e \in i .. n
      BY HunkEnds
    <3> QED BY <1>1, <3>1
  <2> HIDE DEF e
  <2>2. e >= i - 1 /\ \A k \in i - 1 .. e : k = i - 1 \/ k \in i .. e
    BY <1>1, <2>1 DEF EndsRun
  <2>3. EndsRun(shown, i - 1, e)
    BY <1>2, <2>1, <2>2 DEF EndsRun
  <2> QED BY <1>2, <2>3, HunkEnds DEF e
<1>3. ASSUME i + 1 \notin shown PROVE HunkEnd(shown, i) = i
  <2>1. i >= i /\ \A k \in i .. i : k = i
    BY <1>1
  <2>2. EndsRun(shown, i, i)
    BY <1>3, <2>1 DEF EndsRun
  <2> QED BY <2>2, HunkEnds
<1> QED BY <1>2, <1>3

-----------------------------------------------------------------------------
(* The lines of diffs, and the states of parse between the files.          *)
DiffLine ==
    [kind : {"---", "+++"}, path : PathKinds] \cup [kind : {"@@"}, start : Nat, len : Nat]
    \cup {NoNewline} \cup [kind : {"line"}, op : LineOps, text : Texts]

PatchFile == [old : PathKinds, new : PathKinds, hunks : Seq(Hunks)]

FileOf(old, new, hunks) == [old |-> old, new |-> new, hunks |-> hunks]
Open(done, file) == [mode |-> "hunks", files |-> Append(done, file)]
Begun == [mode |-> "---", files |-> <<>>]

HunkOf(start, len, ops) == [start |-> start, len |-> len, ops |-> ops]
FullOp(sign, text) == [op |-> sign, text |-> text, nl |-> TRUE]
CutOp(sign, text) == [op |-> sign, text |-> text, nl |-> FALSE]
LineOf(sign, text) == [kind |-> "line", op |-> sign, text |-> text]

(* s is the state of parse after the lines of the diff. *)
Parses(diff, s) ==
    \E run : /\ run[0] = Begun
             /\ \A k \in 1 .. Len(diff) : run[k] = ParseLine(run[k - 1], diff[k])
             /\ s = run[Len(diff)]

LEMMA ParsesNone == Parses(<<>>, Begun)
<1> DEFINE run == [k \in {0} |-> Begun]
<1>1. run[0] = Begun /\ Len(<<>>) = 0 /\ 1 .. 0 = {}
  OBVIOUS
<1> HIDE DEF run
<1> QED BY <1>1 DEF Parses

LEMMA ParsesMore ==
    ASSUME NEW S, NEW diff \in Seq(S), NEW t \in S, NEW s, Parses(diff, s)
    PROVE  Parses(Append(diff, t), ParseLine(s, t))
<1> DEFINE n == Len(diff)
           more == Append(diff, t)
<1>1. PICK run : /\ run[0] = Begun
                 /\ \A k \in 1 .. n : run[k] = ParseLine(run[k - 1], diff[k])
                 /\ s = run[n]
  BY DEF Parses
<1>2. n \in Nat /\ Len(more) = n + 1 /\ more[n + 1] = t /\ \A k \in 1 .. n : more[k] = diff[k]
  BY AppendProperties
<1> HIDE DEF n, more
<1> DEFINE next == [k \in 0 .. n + 1 |-> IF k = n + 1 THEN ParseLine(s, t) ELSE run[k]]
<1>3. /\ next[n + 1] = ParseLine(s, t) /\ \A k \in 0 .. n : next[k] = run[k]
  <2>1. n + 1 \in 0 .. n + 1 /\ \A k \in 0 .. n : k \in 0 .. n + 1 /\ k # n + 1
    BY <1>2
  <2> QED BY <2>1
<1> HIDE DEF next
<1>4. next[0] = Begun
  BY <1>1, <1>2, <1>3
<1>5. ASSUME NEW k \in 1 .. n + 1 PROVE next[k] = ParseLine(next[k - 1], more[k])
  <2>1. CASE k = n + 1
    <3>1. k - 1 = n /\ n \in 0 .. n
      BY <1>2, <2>1
    <3>2. next[k] = ParseLine(s, t) /\ next[k - 1] = s /\ more[k] = t
      BY <1>1, <1>2, <1>3, <2>1, <3>1
    <3> QED BY <3>2
  <2>2. CASE k # n + 1
    <3>1. k \in 1 .. n /\ k \in 0 .. n /\ k - 1 \in 0 .. n
      BY <1>2, <2>2
    <3>2. next[k] = run[k] /\ next[k - 1] = run[k - 1] /\ more[k] = diff[k] /\ run[k] = ParseLine(run[k - 1], diff[k])
      BY <1>1, <1>2, <1>3, <3>1
    <3> QED BY <3>2
  <2> QED BY <2>1, <2>2
<1>6. next[0] = Begun /\ (\A k \in 1 .. Len(more) : next[k] = ParseLine(next[k - 1], more[k]))
         /\ ParseLine(s, t) = next[Len(more)]
  BY <1>2, <1>3, <1>4, <1>5
<1>7. Parses(more, ParseLine(s, t))
  BY <1>6, Zenon DEF Parses
<1> QED BY <1>7 DEF more

LEMMA ParseIs ==
    ASSUME NEW S, NEW diff \in Seq(S), NEW s, Parses(diff, s)
    PROVE  Parse(diff) = IF s.mode = "hunks" /\ Closed(Last(s.files)) /\ Len(s.files) =< MaxFiles
                         THEN s.files ELSE <<>>
<1> DEFINE n == Len(diff)
           Equation(r) == r = [k \in 0 .. n |-> IF k = 0 THEN [mode |-> "---", files |-> <<>>]
                                                ELSE ParseLine(r[k - 1], diff[k])]
           after == CHOOSE r : Equation(r)
<1>1. PICK run : /\ run[0] = Begun
                 /\ \A k \in 1 .. n : run[k] = ParseLine(run[k - 1], diff[k])
                 /\ s = run[n]
  BY DEF Parses
<1>2. n \in Nat
  OBVIOUS
<1> DEFINE g == [k \in 0 .. n |-> run[k]]
<1>3. Equation(g)
  <2>1. \A k \in 0 .. n : k = 0 \/ (k \in 1 .. n /\ k - 1 \in 0 .. n)
    BY <1>2
  <2>2. \A k \in 0 .. n : g[k] = IF k = 0 THEN Begun ELSE ParseLine(g[k - 1], diff[k])
    <3> SUFFICES ASSUME NEW k \in 0 .. n PROVE g[k] = IF k = 0 THEN Begun ELSE ParseLine(g[k - 1], diff[k])
      OBVIOUS
    <3> HIDE DEF n
    <3>1. CASE k = 0
      BY <1>1, <3>1
    <3>2. CASE k # 0
      <4>1. k \in 1 .. n /\ g[k] = run[k] /\ g[k - 1] = run[k - 1]
        BY <2>1, <3>2
      <4> HIDE DEF g
      <4> QED BY <1>1, <3>2, <4>1
    <3> QED BY <3>1, <3>2
  <2>3. g = [k \in 0 .. n |-> g[k]]
    OBVIOUS
  <2> HIDE DEF g, n
  <2> QED BY <2>2, <2>3 DEF Begun
<1>4. Equation(after)
  <2> HIDE DEF Equation, g
  <2> QED BY <1>3
<1>5. Parse(diff) = IF after[n].mode = "hunks" /\ Closed(Last(after[n].files)) /\ Len(after[n].files) =< MaxFiles
                    THEN after[n].files ELSE <<>>
  BY DEF Parse
<1> HIDE DEF after, g
<1>6. after[0] = Begun /\ \A k \in 1 .. n : after[k] = ParseLine(after[k - 1], diff[k])
  <2>1. \A k \in 0 .. n : after[k] = IF k = 0 THEN Begun ELSE ParseLine(after[k - 1], diff[k])
    BY <1>4, Zenon DEF Begun
  <2>2. 0 \in 0 .. n /\ \A k \in 1 .. n : k \in 0 .. n /\ k # 0
    BY <1>2
  <2> QED BY <2>1, <2>2, Zenon
<1> HIDE DEF Equation
<1>7. Agree(n, after, run)
  <2>1. after[0] = run[0] /\ \A k \in 1 .. n : after[k - 1] = run[k - 1] => after[k] = run[k]
    BY <1>1, <1>6, Zenon
  <2> QED BY <1>2, <2>1, IteratesAgree
<1>8. after[n] = s
  BY <1>1, <1>2, <1>7 DEF Agree
<1> QED BY <1>5, <1>8

-----------------------------------------------------------------------------
(* One line, inside a file. *)
LEMMA OpenIs ==
    ASSUME NEW done \in Seq(PatchFile), NEW file \in PatchFile
    PROVE  /\ Open(done, file).mode = "hunks" /\ Open(done, file).files = Append(done, file)
           /\ Last(Open(done, file).files) = file
           /\ \A f : Inside(Open(done, file), f) = Open(done, f)
<1>1. Last(Append(done, file)) = file /\ Front(Append(done, file)) = done
  BY LastAppend
<1>2. Open(done, file).mode = "hunks" /\ Open(done, file).files = Append(done, file)
  BY DEF Open
<1> QED BY <1>1, <1>2 DEF Inside, Open

LEMMA FileTypes ==
    ASSUME NEW old \in PathKinds, NEW new \in PathKinds, NEW hunks \in Seq(Hunks)
    PROVE  /\ FileOf(old, new, hunks) \in PatchFile
           /\ FileOf(old, new, hunks).hunks = hunks
           /\ FileOf(old, new, hunks).old = old /\ FileOf(old, new, hunks).new = new
           /\ \A h : WithHunk(FileOf(old, new, hunks), h) = FileOf(old, new, Append(hunks, h))
<1>1. ASSUME NEW h PROVE WithHunk(FileOf(old, new, hunks), h) = FileOf(old, new, Append(hunks, h))
  <2> DEFINE file == FileOf(old, new, hunks)
  <2>1. file.hunks = hunks /\ \A x : [file EXCEPT !.hunks = x] = FileOf(old, new, x)
    BY DEF FileOf
  <2>2. WithHunk(file, h) = [file EXCEPT !.hunks = Append(file.hunks, h)]
    BY DEF WithHunk
  <2> HIDE DEF file
  <2>3. WithHunk(file, h) = FileOf(old, new, Append(hunks, h))
    BY <2>1, <2>2
  <2> QED BY <2>3 DEF file
<1> QED BY <1>1 DEF FileOf, PatchFile

LEMMA HunkTypes ==
    ASSUME NEW start \in Nat, NEW len \in Nat, NEW ops \in Seq(AnyOp)
    PROVE  /\ HunkOf(start, len, ops) \in Hunks
           /\ HunkOf(start, len, ops).start = start
           /\ HunkOf(start, len, ops).len = len
           /\ HunkOf(start, len, ops).ops = ops
           /\ \A more : [HunkOf(start, len, ops) EXCEPT !.ops = more] = HunkOf(start, len, more)
BY DEF HunkOf, Hunks

LEMMA EmptyHunk ==
    ASSUME NEW start \in Nat, NEW len \in Nat
    PROVE  /\ HunkOf(start, len, <<>>) \in Hunks
           /\ HunkOf(start, len, <<>>).start = start
           /\ HunkOf(start, len, <<>>).len = len
           /\ HunkOf(start, len, <<>>).ops = <<>>
<1>1. <<>> \in Seq(AnyOp)
  OBVIOUS
<1> QED BY <1>1 DEF HunkOf, Hunks

LEMMA HunkRecord ==
    ASSUME NEW h \in Hunks
    PROVE  /\ h = HunkOf(h.start, h.len, h.ops)
           /\ h.start \in Nat /\ h.len \in Nat /\ h.ops \in Seq(AnyOp)
BY DEF HunkOf, Hunks

LEMMA HeaderRead ==
    ASSUME NEW done \in Seq(PatchFile), NEW old \in PathKinds, NEW new \in PathKinds,
           NEW hunks \in Seq(Hunks), NEW start \in Nat, NEW len \in Nat,
           hunks = <<>> \/ Counts(Last(hunks))
    PROVE  ParseLine(Open(done, FileOf(old, new, hunks)), HunkHeader(start, len))
              = Open(done, FileOf(old, new, Append(hunks, HunkOf(start, len, <<>>))))
<1> DEFINE file == FileOf(old, new, hunks)
           s == Open(done, file)
           t == HunkHeader(start, len)
<1>1. file \in PatchFile /\ file.hunks = hunks /\ \A h : WithHunk(file, h) = FileOf(old, new, Append(hunks, h))
  BY FileTypes
<1>2. s.mode = "hunks" /\ Last(s.files) = file /\ \A f : Inside(s, f) = Open(done, f)
  BY <1>1, OpenIs
<1>3. t.kind = "@@" /\ t.start = start /\ t.len = len
  BY DEF HunkHeader
<1>4. file.hunks = <<>> \/ Closed(file)
  BY <1>1 DEF Closed
<1> HIDE DEF file, s, t
<1>5. ParseLine(s, t) = InHunks(s, t)
  BY <1>2 DEF ParseLine
<1>6. InHunks(s, t) = Inside(s, WithHunk(file, [start |-> start, len |-> len, ops |-> <<>>]))
  BY <1>2, <1>3, <1>4 DEF InHunks
<1>7. ParseLine(s, t) = Open(done, FileOf(old, new, Append(hunks, HunkOf(start, len, <<>>))))
  BY <1>1, <1>2, <1>5, <1>6 DEF HunkOf
<1> QED BY <1>7 DEF s, t, file

(* The last hunk with other lines. *)
Blank(x) == x = <<>>

LEMMA HeaderReadOn ==
    ASSUME NEW done \in Seq(PatchFile), NEW old \in PathKinds, NEW new \in PathKinds,
           NEW hunks \in Seq(Hunks), hunks = <<>> \/ Counts(Last(hunks)),
           NEW start \in Nat, NEW len \in Nat, NEW ops, Blank(ops)
    PROVE  ParseLine(Open(done, FileOf(old, new, hunks)), HunkHeader(start, len))
              = Open(done, FileOf(old, new, Append(hunks, HunkOf(start, len, ops))))
<1>1. ParseLine(Open(done, FileOf(old, new, hunks)), HunkHeader(start, len))
         = Open(done, FileOf(old, new, Append(hunks, HunkOf(start, len, <<>>))))
  BY HeaderRead
<1> QED BY <1>1, Zenon DEF Blank

LEMMA OpsReplaced ==
    ASSUME NEW old \in PathKinds, NEW new \in PathKinds, NEW front \in Seq(Hunks),
           NEW start \in Nat, NEW len \in Nat, NEW ops \in Seq(AnyOp), NEW more
    PROVE  WithOps(FileOf(old, new, Append(front, HunkOf(start, len, ops))), more)
              = FileOf(old, new, Append(front, HunkOf(start, len, more)))
<1> DEFINE h == HunkOf(start, len, ops)
           hunks == Append(front, h)
           file == FileOf(old, new, hunks)
<1>1. h \in Hunks /\ [h EXCEPT !.ops = more] = HunkOf(start, len, more)
  BY HunkTypes
<1> HIDE DEF h
<1>2. hunks \in Seq(Hunks) /\ Last(hunks) = h /\ Front(hunks) = front
  BY <1>1, LastAppend
<1> HIDE DEF hunks
<1>3. WithOps(file, more) = [file EXCEPT !.hunks = Append(front, HunkOf(start, len, more))]
  <2>1. file.hunks = hunks
    BY DEF FileOf
  <2>2. WithOps(file, more) =
           [file EXCEPT !.hunks = Append(Front(file.hunks), [Last(file.hunks) EXCEPT !.ops = more])]
    BY DEF WithOps
  <2> HIDE DEF file
  <2> QED BY <1>1, <1>2, <2>1, <2>2
<1>4. \A x : [file EXCEPT !.hunks = x] = FileOf(old, new, x)
  BY DEF FileOf
<1> QED BY <1>3, <1>4 DEF h, hunks

LEMMA LineRead ==
    ASSUME NEW done \in Seq(PatchFile), NEW old \in PathKinds, NEW new \in PathKinds,
           NEW front \in Seq(Hunks), NEW start \in Nat, NEW len \in Nat, NEW ops \in Seq(AnyOp),
           NEW sign \in LineOps, NEW text \in Texts
    PROVE  ParseLine(Open(done, FileOf(old, new, Append(front, HunkOf(start, len, ops)))),
                     LineOf(sign, text))
              = Open(done, FileOf(old, new, Append(front, HunkOf(start, len, Append(ops, FullOp(sign, text))))))
<1> DEFINE h == HunkOf(start, len, ops)
           hunks == Append(front, h)
           file == FileOf(old, new, hunks)
           s == Open(done, file)
           t == LineOf(sign, text)
           more == Append(ops, FullOp(sign, text))
<1>1. h \in Hunks /\ h.ops = ops
  BY HunkTypes
<1>2. hunks \in Seq(Hunks) /\ hunks # <<>> /\ Last(hunks) = h
  <2> HIDE DEF h
  <2> QED BY <1>1, LastAppend
<1>3. file \in PatchFile /\ file.hunks = hunks
  <2> HIDE DEF hunks
  <2> QED BY <1>2, FileTypes
<1>4. WithOps(file, more) = FileOf(old, new, Append(front, HunkOf(start, len, more)))
  <2> HIDE DEF more
  <2> QED BY OpsReplaced
<1>5. s.mode = "hunks" /\ Last(s.files) = file /\ \A f : Inside(s, f) = Open(done, f)
  <2> HIDE DEF file
  <2> QED BY <1>3, OpenIs
<1>6. t.kind = "line" /\ t.op = sign /\ t.text = text
  BY DEF LineOf
<1> HIDE DEF h, hunks, file, s, t
<1>7. ParseLine(s, t) = InHunks(s, t)
  BY <1>5 DEF ParseLine
<1>8. InHunks(s, t) = Inside(s, WithOps(file, more))
  BY <1>1, <1>2, <1>3, <1>5, <1>6 DEF InHunks, FullOp
<1>9. ParseLine(s, t) = Open(done, FileOf(old, new, Append(front, HunkOf(start, len, more))))
  BY <1>4, <1>5, <1>7, <1>8
<1> QED BY <1>9 DEF s, t, file, hunks, h

LEMMA EndRead ==
    ASSUME NEW done \in Seq(PatchFile), NEW old \in PathKinds, NEW new \in PathKinds,
           NEW front \in Seq(Hunks), NEW start \in Nat, NEW len \in Nat, NEW ops \in Seq(AnyOp),
           NEW sign \in LineOps, NEW text \in Texts
    PROVE  ParseLine(Open(done, FileOf(old, new,
                          Append(front, HunkOf(start, len, Append(ops, FullOp(sign, text)))))), NoNewline)
              = Open(done, FileOf(old, new, Append(front, HunkOf(start, len, Append(ops, CutOp(sign, text))))))
<1> DEFINE o == FullOp(sign, text)
           all == Append(ops, o)
           h == HunkOf(start, len, all)
           hunks == Append(front, h)
           file == FileOf(old, new, hunks)
           s == Open(done, file)
           more == Append(ops, CutOp(sign, text))
<1>1. o \in AnyOp /\ [o EXCEPT !.nl = FALSE] = CutOp(sign, text)
  <2>1. \A b \in BOOLEAN : [o EXCEPT !.nl = b] = [op |-> sign, text |-> text, nl |-> b]
    BY DEF FullOp
  <2>2. o \in AnyOp
    BY DEF FullOp, AnyOp
  <2> QED BY <2>1, <2>2 DEF CutOp
<1>2. all \in Seq(AnyOp) /\ all # <<>> /\ Last(all) = o /\ Front(all) = ops
  <2> HIDE DEF o
  <2> QED BY <1>1, LastAppend
<1>3. h \in Hunks /\ h.ops = all
  <2> HIDE DEF all
  <2> QED BY <1>2, HunkTypes
<1>4. hunks \in Seq(Hunks) /\ hunks # <<>> /\ Last(hunks) = h
  <2> HIDE DEF h
  <2> QED BY <1>3, LastAppend
<1>5. file \in PatchFile /\ file.hunks = hunks
  <2> HIDE DEF hunks
  <2> QED BY <1>4, FileTypes
<1>6. WithOps(file, more) = FileOf(old, new, Append(front, HunkOf(start, len, more)))
  <2> HIDE DEF all, more
  <2> QED BY <1>2, OpsReplaced
<1>7. s.mode = "hunks" /\ Last(s.files) = file /\ \A f : Inside(s, f) = Open(done, f)
  <2> HIDE DEF file
  <2> QED BY <1>5, OpenIs
<1> DEFINE t == NoNewline
<1>8. t.kind = "no newline"
  BY DEF NoNewline
<1> HIDE DEF o, all, h, hunks, file, s, t
<1>9. ParseLine(s, t) = InHunks(s, t)
  BY <1>7 DEF ParseLine
<1>10. InHunks(s, t) = Inside(s, WithOps(file, more))
  <2>1. Append(Front(all), [Last(all) EXCEPT !.nl = FALSE]) = more
    BY <1>1, <1>2
  <2>2. Last(file.hunks).ops = all /\ file.hunks # <<>> /\ Last(s.files) = file
    BY <1>3, <1>4, <1>5, <1>7
  <2>3. t.kind # "@@" /\ t.kind # "line"
    BY <1>8, Zenon
  <2> HIDE DEF more
  <2> QED BY <1>2, <1>8, <2>1, <2>2, <2>3, Zenon DEF InHunks
<1>11. ParseLine(s, t) = Open(done, FileOf(old, new, Append(front, HunkOf(start, len, more))))
  BY <1>6, <1>7, <1>9, <1>10
<1> QED BY <1>11 DEF s, t, file, hunks, h, all, o

(* A header where none is expected. *)
LEMMA WrongRead ==
    ASSUME NEW done \in Seq(PatchFile), NEW old \in PathKinds, NEW new \in PathKinds,
           NEW hunks \in Seq(Hunks), NEW t,
           t.kind = "+++" \/ (t.kind = "---" /\ ~Counts(Last(hunks)))
    PROVE  ParseLine(Open(done, FileOf(old, new, hunks)), t) = Refused
<1> DEFINE file == FileOf(old, new, hunks)
           s == Open(done, file)
<1>1. file \in PatchFile /\ file.hunks = hunks
  BY FileTypes
<1>2. s.mode = "hunks" /\ Last(s.files) = file
  BY <1>1, OpenIs
<1> HIDE DEF file, s
<1>3. t.kind = "---" => ~Closed(file)
  BY <1>1 DEF Closed
<1>4. ParseLine(s, t) = InHunks(s, t)
  BY <1>2 DEF ParseLine
<1>5. InHunks(s, t) = Refused
  <2>1. t.kind \notin {"@@", "line", "no newline"}
    BY Zenon
  <2>2. ~(t.kind = "---" /\ Closed(Last(s.files)))
    BY <1>2, <1>3
  <2> QED BY <2>1, <2>2, Zenon DEF InHunks
<1> QED BY <1>4, <1>5 DEF s, file

LEMMA RefusedRead == \A t : ParseLine(Refused, t) = Refused
BY DEF ParseLine, Refused

Unpatchable(old, new) == "bad" \in {old, new} \/ (new = "/dev/null" /\ old # "/dev/null")

(* The headers of a file, after complete ones. *)
LEMMA SectionRead ==
    ASSUME NEW done \in Seq(PatchFile), NEW old \in PathKinds, NEW new \in PathKinds, NEW s,
           \/ s = Begun /\ done = <<>>
           \/ \E front \in Seq(PatchFile), file \in PatchFile :
                 s = Open(front, file) /\ Closed(file) /\ done = Append(front, file)
    PROVE  ParseLine(ParseLine(s, OldHeader(old)), NewHeader(new)) =
              IF Unpatchable(old, new) THEN Refused
              ELSE Open(done, FileOf(old, new, <<>>))
<1> DEFINE fresh == FileOf(old, old, <<>>)
           next == [mode |-> "+++", files |-> Append(done, fresh)]
           t == OldHeader(old)
           u == NewHeader(new)
<1>1. t.kind = "---" /\ t.path = old /\ u.kind = "+++" /\ u.path = new
  BY DEF OldHeader, NewHeader
<1> HIDE DEF t, u
<1>2. ParseLine(s, t) = next
  <2>1. CASE s = Begun /\ done = <<>>
    <3>1. s.mode = "---" /\ s.files = done
      BY <2>1 DEF Begun
    <3>2. ParseLine(s, t) = BeginFile(s, t)
      BY <3>1 DEF ParseLine
    <3> QED BY <1>1, <3>1, <3>2 DEF BeginFile, FileOf
  <2>2. ASSUME NEW front \in Seq(PatchFile), NEW file \in PatchFile,
               s = Open(front, file), Closed(file), done = Append(front, file)
        PROVE  ParseLine(s, t) = next
    <3>1. s.mode = "hunks" /\ s.files = done /\ Last(s.files) = file
      BY <2>2, OpenIs
    <3>2. ParseLine(s, t) = InHunks(s, t)
      BY <3>1 DEF ParseLine
    <3>3. InHunks(s, t) = BeginFile(s, t)
      BY <1>1, <2>2, <3>1 DEF InHunks
    <3> QED BY <1>1, <3>1, <3>2, <3>3 DEF BeginFile, FileOf
  <2> QED BY <2>1, <2>2
<1>3. fresh \in PatchFile /\ fresh.old = old /\ [fresh EXCEPT !.new = new] = FileOf(old, new, <<>>)
  <2>1. <<>> \in Seq(Hunks)
    OBVIOUS
  <2> QED BY <2>1 DEF FileOf, PatchFile
<1>4. Last(Append(done, fresh)) = fresh /\ Front(Append(done, fresh)) = done
  <2> HIDE DEF fresh
  <2> QED BY <1>3, LastAppend
<1> HIDE DEF fresh
<1>5. next.mode = "+++" /\ Last(next.files) = fresh /\ \A f : Inside(next, f) = Open(done, f)
  BY <1>4 DEF Inside, Open
<1> HIDE DEF next
<1>6. ParseLine(next, u) = NamesFile(next, u)
  BY <1>5 DEF ParseLine
<1>7. NamesFile(next, u) = IF Unpatchable(old, new) THEN Refused
                           ELSE Open(done, FileOf(old, new, <<>>))
  BY <1>1, <1>3, <1>5 DEF NamesFile, Unpatchable
<1> QED BY <1>2, <1>6, <1>7 DEF t, u

LEMMA CountMore ==
    ASSUME NEW ops \in Seq(AnyOp), NEW o \in AnyOp
    PROVE  /\ Cardinality(OldLines(ops)) \in Nat
           /\ Cardinality(OldLines(Append(ops, o))) =
                 Cardinality(OldLines(ops)) + (IF o.op \in OldOps THEN 1 ELSE 0)
<1> DEFINE n == Len(ops)
           more == Append(ops, o)
<1>1. /\ n \in Nat /\ DOMAIN ops = 1 .. n /\ DOMAIN more = 1 .. n + 1
      /\ more[n + 1] = o /\ \A i \in 1 .. n : more[i] = ops[i]
  <2>1. more \in Seq(AnyOp) /\ Len(more) = n + 1
    BY AppendProperties
  <2>2. n \in Nat /\ DOMAIN ops = 1 .. n /\ DOMAIN more = 1 .. n + 1
    BY <2>1
  <2>3. more[n + 1] = o /\ \A i \in 1 .. n : more[i] = ops[i]
    BY AppendProperties
  <2> QED BY <2>2, <2>3
<1> HIDE DEF n, more
<1>2. OldLines(ops) = {i \in 1 .. n : ops[i].op \in OldOps}
  BY <1>1 DEF OldLines
<1>3. IsFiniteSet(OldLines(ops)) /\ n + 1 \notin OldLines(ops)
  <2>1. IsFiniteSet(1 .. n)
    BY <1>1, FS_Interval
  <2>2. OldLines(ops) \in SUBSET (1 .. n) /\ n + 1 \notin 1 .. n
    BY <1>1, <1>2
  <2> QED BY <2>1, <2>2, FS_Subset
<1>4. OldLines(more) = IF o.op \in OldOps THEN OldLines(ops) \cup {n + 1} ELSE OldLines(ops)
  <2>1. OldLines(more) = {i \in 1 .. n + 1 : more[i].op \in OldOps}
    BY <1>1 DEF OldLines
  <2>2. \A i : i \in 1 .. n + 1 <=> i \in 1 .. n \/ i = n + 1
    BY <1>1
  <2> QED BY <1>1, <1>2, <2>1, <2>2
<1> HIDE DEF OldLines
<1>5. Cardinality(OldLines(ops)) \in Nat
  BY <1>3, FS_CardinalityType
<1>6. Cardinality(OldLines(ops) \cup {n + 1}) = Cardinality(OldLines(ops)) + 1
  BY <1>3, FS_AddElement
<1> QED BY <1>4, <1>5, <1>6 DEF more

LEMMA CountsTypes ==
    ASSUME NEW ops \in Seq(AnyOp)
    PROVE  Cardinality(OldLines(ops)) \in Nat
<1>1. DOMAIN ops = 1 .. Len(ops) /\ Len(ops) \in Nat
  OBVIOUS
<1>2. IsFiniteSet(1 .. Len(ops)) /\ OldLines(ops) \in SUBSET (1 .. Len(ops))
  BY <1>1, FS_Interval DEF OldLines
<1> QED BY <1>2, FS_Subset, FS_CardinalityType

LEMMA CountNone == Cardinality(OldLines(<<>>)) = 0
<1>1. OldLines(<<>>) = {}
  BY DEF OldLines
<1> QED BY <1>1, FS_EmptySet

-----------------------------------------------------------------------------
(* What the lines of a diff tell of the hunks that were read of them.      *)
Quiet(diff) == \A k \in 3 .. Len(diff) : diff[k].kind \notin {"---", "+++"}

LastHeader(diff, b) ==
    b \in DOMAIN diff /\ diff[b].kind = "@@" /\ \A k \in b + 1 .. Len(diff) : diff[k].kind # "@@"

Announces(diff, b, h) ==
    diff[b].len = h.len /\ Cardinality(OldAfter(diff, b)) = Cardinality(OldLines(h.ops))

Follows(diff, hunks) ==
    /\ Quiet(diff)
    /\ \/ hunks = <<>> /\ \A k \in DOMAIN diff : diff[k].kind # "@@"
       \/ hunks # <<>> /\ \E b : LastHeader(diff, b) /\ Announces(diff, b, Last(hunks))

LEMMA MoreLines ==
    ASSUME NEW diff \in Seq(DiffLine), NEW t \in DiffLine
    PROVE  /\ Append(diff, t) \in Seq(DiffLine)
           /\ Len(diff) \in Nat /\ Len(Append(diff, t)) = Len(diff) + 1
           /\ DOMAIN diff = 1 .. Len(diff)
           /\ DOMAIN Append(diff, t) = 1 .. Len(diff) + 1
           /\ Append(diff, t)[Len(diff) + 1] = t
           /\ \A k \in 1 .. Len(diff) : Append(diff, t)[k] = diff[k]
<1>1. Append(diff, t) \in Seq(DiffLine) /\ Len(Append(diff, t)) = Len(diff) + 1
  BY AppendProperties
<1>2. Append(diff, t)[Len(diff) + 1] = t /\ \A k \in 1 .. Len(diff) : Append(diff, t)[k] = diff[k]
  BY AppendProperties
<1>3. DOMAIN diff = 1 .. Len(diff) /\ Len(diff) \in Nat
  OBVIOUS
<1>4. DOMAIN Append(diff, t) = 1 .. Len(diff) + 1
  BY <1>1
<1> QED BY <1>1, <1>2, <1>3, <1>4

LEMMA QuietMore ==
    ASSUME NEW diff \in Seq(DiffLine), NEW t \in DiffLine, Len(diff) >= 2
    PROVE  Quiet(Append(diff, t)) <=> Quiet(diff) /\ t.kind \notin {"---", "+++"}
<1> DEFINE n == Len(diff)
           more == Append(diff, t)
<1>1. n \in Nat /\ Len(more) = n + 1 /\ more[n + 1] = t /\ \A k \in 1 .. n : more[k] = diff[k]
  BY MoreLines
<1> HIDE DEF more
<1>2. \A k : k \in 3 .. n + 1 <=> k \in 3 .. n \/ k = n + 1
  BY <1>1
<1>3. \A k \in 3 .. n : k \in 1 .. n
  BY <1>1
<1> HIDE DEF n
<1>4. Quiet(more) <=> \A k \in 3 .. n + 1 : more[k].kind \notin {"---", "+++"}
  BY <1>1 DEF Quiet
<1>5. Quiet(diff) <=> \A k \in 3 .. n : diff[k].kind \notin {"---", "+++"}
  BY DEF Quiet, n
<1>6. Quiet(more) <=> Quiet(diff) /\ t.kind \notin {"---", "+++"}
  BY <1>1, <1>2, <1>3, <1>4, <1>5, Zenon
<1> QED BY <1>6 DEF more

LEMMA LastHeaderKept ==
    ASSUME NEW diff \in Seq(DiffLine), NEW t \in DiffLine, NEW b, LastHeader(diff, b), t.kind # "@@"
    PROVE  /\ LastHeader(Append(diff, t), b) /\ Append(diff, t)[b] = diff[b]
           /\ Cardinality(OldAfter(diff, b)) \in Nat
           /\ Cardinality(OldAfter(Append(diff, t), b)) =
                 Cardinality(OldAfter(diff, b)) + (IF t.kind = "line" /\ t.op \in OldOps THEN 1 ELSE 0)
<1> DEFINE n == Len(diff)
           more == Append(diff, t)
           isOld == t.kind = "line" /\ t.op \in OldOps
<1>1. /\ n \in Nat /\ Len(more) = n + 1 /\ DOMAIN more = 1 .. n + 1 /\ DOMAIN diff = 1 .. n
      /\ more[n + 1] = t /\ \A k \in 1 .. n : more[k] = diff[k]
  BY MoreLines
<1> HIDE DEF more
<1>2. b \in 1 .. n /\ diff[b].kind = "@@" /\ \A k \in b + 1 .. n : diff[k].kind # "@@"
  BY <1>1 DEF LastHeader
<1>3. \A k : k \in b + 1 .. n + 1 <=> k \in b + 1 .. n \/ k = n + 1
  BY <1>1, <1>2
<1>4. b \in 1 .. n + 1 /\ \A k \in b + 1 .. n : k \in 1 .. n
  BY <1>1, <1>2
<1>5. LastHeader(more, b) /\ more[b] = diff[b]
  <2>1. more[b] = diff[b]
    BY <1>1, <1>2
  <2>2. \A k \in b + 1 .. n + 1 : more[k].kind # "@@"
    BY <1>1, <1>2, <1>3, <1>4
  <2> QED BY <1>1, <1>2, <1>4, <2>1, <2>2 DEF LastHeader
<1>6. OldAfter(diff, b) = {k \in b + 1 .. n : diff[k].kind = "line" /\ diff[k].op \in OldOps}
  BY DEF OldAfter
<1>7. OldAfter(more, b) = IF isOld THEN OldAfter(diff, b) \cup {n + 1} ELSE OldAfter(diff, b)
  <2>1. OldAfter(more, b) = {k \in b + 1 .. n + 1 : more[k].kind = "line" /\ more[k].op \in OldOps}
    BY <1>1 DEF OldAfter
  <2>2. \A k \in b + 1 .. n : more[k] = diff[k]
    BY <1>1, <1>4
  <2> HIDE DEF n
  <2> QED BY <1>1, <1>3, <1>6, <2>1, <2>2
<1>8. IsFiniteSet(OldAfter(diff, b)) /\ n + 1 \notin OldAfter(diff, b)
  <2>1. IsFiniteSet(b + 1 .. n)
    BY <1>1, <1>2, FS_Interval
  <2>2. OldAfter(diff, b) \in SUBSET (b + 1 .. n) /\ n + 1 \notin b + 1 .. n
    BY <1>1, <1>6
  <2> QED BY <2>1, <2>2, FS_Subset
<1> HIDE DEF isOld
<1>9. Cardinality(OldAfter(diff, b)) \in Nat
  BY <1>8, FS_CardinalityType
<1>10. Cardinality(OldAfter(diff, b) \cup {n + 1}) = Cardinality(OldAfter(diff, b)) + 1
  BY <1>8, FS_AddElement
<1>11. Cardinality(OldAfter(more, b)) = Cardinality(OldAfter(diff, b)) + (IF isOld THEN 1 ELSE 0)
  BY <1>7, <1>9, <1>10
<1> QED BY <1>5, <1>9, <1>11 DEF more, isOld

LEMMA FollowsHeader ==
    ASSUME NEW diff \in Seq(DiffLine), Len(diff) >= 2, NEW hunks \in Seq(Hunks), Follows(diff, hunks),
           NEW start \in Nat, NEW len \in Nat
    PROVE  Follows(Append(diff, HunkHeader(start, len)), Append(hunks, HunkOf(start, len, <<>>)))
<1> DEFINE t == HunkHeader(start, len)
           more == Append(diff, t)
           h == HunkOf(start, len, <<>>)
           n == Len(diff)
<1>1. t \in DiffLine /\ t.kind = "@@" /\ t.len = len
  BY DEF HunkHeader, DiffLine
<1>2. h \in Hunks /\ h.len = len /\ h.ops = <<>>
  BY EmptyHunk
<1> HIDE DEF t, h
<1>3. Append(hunks, h) # <<>> /\ Last(Append(hunks, h)) = h
  BY <1>2, LastAppend
<1>4. n \in Nat /\ Len(more) = n + 1 /\ DOMAIN more = 1 .. n + 1 /\ more[n + 1] = t
  BY <1>1, MoreLines
<1>5. Quiet(more)
  BY <1>1, QuietMore DEF Follows
<1> HIDE DEF more
<1>6. LastHeader(more, n + 1)
  <2>1. n + 1 \in 1 .. n + 1 /\ n + 1 + 1 .. n + 1 = {}
    BY <1>4
  <2> QED BY <1>1, <1>4, <2>1 DEF LastHeader
<1>7. OldAfter(more, n + 1) = {}
  <2>1. n + 1 + 1 .. n + 1 = {}
    BY <1>4
  <2> QED BY <1>4, <2>1 DEF OldAfter
<1>8. Announces(more, n + 1, h)
  BY <1>1, <1>2, <1>4, <1>7, CountNone, FS_EmptySet DEF Announces
<1>9. Follows(more, Append(hunks, h))
  BY <1>3, <1>5, <1>6, <1>8, Zenon DEF Follows
<1> QED BY <1>9 DEF more, t, h

(* The lines in the last hunk and those behind its header grow alike.      *)
LEMMA FollowsMore ==
    ASSUME NEW diff \in Seq(DiffLine), Len(diff) >= 2, NEW front \in Seq(Hunks),
           NEW h \in Hunks, NEW g \in Hunks, Follows(diff, Append(front, h)),
           NEW t \in DiffLine, t.kind \in {"line", "no newline"}, g.len = h.len,
           Cardinality(OldLines(g.ops)) =
               Cardinality(OldLines(h.ops)) + (IF t.kind = "line" /\ t.op \in OldOps THEN 1 ELSE 0)
    PROVE  Follows(Append(diff, t), Append(front, g))
<1> DEFINE more == Append(diff, t)
<1>1. /\ Append(front, h) # <<>> /\ Last(Append(front, h)) = h
      /\ Append(front, g) # <<>> /\ Last(Append(front, g)) = g
  BY LastAppend, Zenon
<1>2. t.kind \notin {"---", "+++"} /\ t.kind # "@@"
  BY Zenon
<1>3. Quiet(more)
  BY <1>2, QuietMore, Zenon DEF Follows
<1>4. PICK b : LastHeader(diff, b) /\ Announces(diff, b, h)
  BY <1>1, Zenon DEF Follows
<1>5. /\ LastHeader(more, b) /\ more[b] = diff[b] /\ Cardinality(OldAfter(diff, b)) \in Nat
      /\ Cardinality(OldAfter(more, b)) =
            Cardinality(OldAfter(diff, b)) + (IF t.kind = "line" /\ t.op \in OldOps THEN 1 ELSE 0)
  BY <1>2, <1>4, LastHeaderKept, Zenon
<1> HIDE DEF more
<1>6. Announces(more, b, g)
  BY <1>4, <1>5, Zenon DEF Announces
<1>7. Follows(more, Append(front, g))
  BY <1>1, <1>3, <1>5, <1>6, Zenon DEF Follows
<1> QED BY <1>7, Zenon DEF more

-----------------------------------------------------------------------------
(* The state of parse after the lines, which are those of one file.        *)
Reads(old, new, diff, s) ==
    /\ Parses(diff, s)
    /\ \/ s = Refused /\ ~Quiet(diff)
       \/ \E hunks \in Seq(Hunks) : s = Open(<<>>, FileOf(old, new, hunks)) /\ Follows(diff, hunks)

LEMMA ReadRight ==
    ASSUME NEW old \in PathKinds, NEW new \in PathKinds, NEW diff \in Seq(DiffLine),
           NEW s, Reads(old, new, diff, s)
    PROVE  Parse(diff) # <<>> <=> Quiet(diff) /\ Whole(diff)
<1>1. Parse(diff) = IF s.mode = "hunks" /\ Closed(Last(s.files)) /\ Len(s.files) =< MaxFiles
                    THEN s.files ELSE <<>>
  BY ParseIs DEF Reads
<1>2. CASE s = Refused /\ ~Quiet(diff)
  <2>1. s.mode # "hunks"
    BY <1>2 DEF Refused
  <2> QED BY <1>1, <1>2, <2>1
<1>3. ASSUME NEW hunks \in Seq(Hunks), s = Open(<<>>, FileOf(old, new, hunks)), Follows(diff, hunks)
      PROVE  Parse(diff) # <<>> <=> Quiet(diff) /\ Whole(diff)
  <2> DEFINE file == FileOf(old, new, hunks)
  <2>1. file \in PatchFile /\ file.hunks = hunks /\ <<>> \in Seq(PatchFile)
    BY FileTypes
  <2> HIDE DEF file
  <2>2. s.mode = "hunks" /\ s.files = Append(<<>>, file) /\ Last(s.files) = file
    BY <1>3, <2>1, OpenIs DEF file
  <2>3. s.files # <<>> /\ Len(s.files) = 1 /\ 1 =< MaxFiles
    <3>1. Len(Append(<<>>, file)) = 1 /\ Append(<<>>, file) # <<>>
      BY <2>1
    <3> QED BY <2>2, <3>1, PatchAssumption
  <2>4. Parse(diff) # <<>> <=> Closed(file)
    BY <1>1, <2>2, <2>3
  <2>5. Whole(diff) <=> \E b : LastHeader(diff, b) /\ Cardinality(OldAfter(diff, b)) = diff[b].len
    BY Zenon DEF Whole, LastHeader
  <2>6. CASE hunks = <<>>
    <3>1. \A b : ~LastHeader(diff, b)
      BY <1>3, <2>6 DEF Follows, LastHeader
    <3> QED BY <2>1, <2>4, <2>5, <2>6, <3>1 DEF Closed
  <2>7. CASE hunks # <<>>
    <3>1. PICK b : LastHeader(diff, b) /\ Announces(diff, b, Last(hunks))
      BY <1>3, <2>7 DEF Follows
    <3>2. \A a : LastHeader(diff, a) => a = b
      <4> SUFFICES ASSUME NEW a, LastHeader(diff, a) PROVE a = b
        OBVIOUS
      <4>1. DOMAIN diff = 1 .. Len(diff) /\ Len(diff) \in Nat
        OBVIOUS
      <4>2. a \in 1 .. Len(diff) /\ b \in 1 .. Len(diff) /\ diff[a].kind = "@@" /\ diff[b].kind = "@@"
        BY <3>1, <4>1 DEF LastHeader
      <4>3. ~(b \in a + 1 .. Len(diff)) /\ ~(a \in b + 1 .. Len(diff))
        BY <3>1, <4>2 DEF LastHeader
      <4> QED BY <4>1, <4>2, <4>3
    <3>3. Whole(diff) <=> Counts(Last(hunks))
      BY <2>5, <3>1, <3>2 DEF Announces, Counts
    <3>4. Closed(file) <=> Counts(Last(hunks))
      BY <2>1, <2>7 DEF Closed
    <3> QED BY <1>3, <2>4, <3>3, <3>4 DEF Follows
  <2> QED BY <2>6, <2>7
<1> QED BY <1>2, <1>3 DEF Reads

(* So it is after all the beginnings of the diff that have its headers. *)
Tracked(old, new, diff) ==
    \A k \in 2 .. Len(diff) : \E s : Reads(old, new, SubSeq(diff, 1, k), s)

LEMMA TrackedMore ==
    ASSUME NEW old, NEW new, NEW diff \in Seq(DiffLine), NEW t \in DiffLine, NEW s,
           Tracked(old, new, diff), Reads(old, new, Append(diff, t), s)
    PROVE  Tracked(old, new, Append(diff, t))
<1> DEFINE n == Len(diff)
           more == Append(diff, t)
<1>1. n \in Nat /\ more \in Seq(DiffLine) /\ Len(more) = n + 1 /\ \A k \in 1 .. n : more[k] = diff[k]
  BY MoreLines
<1>2. SubSeq(more, 1, n + 1) = more
  BY <1>1, SubSeqFull
<1>3. \A k \in 2 .. n : SubSeq(more, 1, k) = SubSeq(diff, 1, k)
  <2> SUFFICES ASSUME NEW k \in 2 .. n PROVE SubSeq(more, 1, k) = SubSeq(diff, 1, k)
    OBVIOUS
  <2> DEFINE a == SubSeq(more, 1, k)
             b == SubSeq(diff, 1, k)
  <2>1. k \in Int /\ 1 =< k /\ k - 1 + 1 = k /\ \A i \in 1 .. k : i \in 1 .. n /\ i \in 1 .. n + 1 /\ 1 + i - 1 = i
    BY <1>1
  <2>2. \A i \in 1 .. k : diff[i] \in DiffLine /\ more[i] = diff[i]
    BY <1>1, <2>1
  <2> HIDE DEF more, n
  <2>3. a \in Seq(DiffLine) /\ Len(a) = k /\ \A i \in 1 .. k : a[i] = more[i]
    <3>1. /\ a \in Seq(DiffLine) /\ Len(a) = IF 1 =< k THEN k - 1 + 1 ELSE 0
          /\ \A i \in 1 .. k - 1 + 1 : a[i] = more[1 + i - 1]
      BY <2>1, <2>2, SubSeqProperties
    <3> QED BY <2>1, <3>1
  <2>4. b \in Seq(DiffLine) /\ Len(b) = k /\ \A i \in 1 .. k : b[i] = diff[i]
    <3>1. /\ b \in Seq(DiffLine) /\ Len(b) = IF 1 =< k THEN k - 1 + 1 ELSE 0
          /\ \A i \in 1 .. k - 1 + 1 : b[i] = diff[1 + i - 1]
      BY <2>1, <2>2, SubSeqProperties
    <3> QED BY <2>1, <3>1
  <2> HIDE DEF a, b
  <2>5. a = b
    BY <2>2, <2>3, <2>4, SeqEqual
  <2> QED BY <2>5 DEF a, b
<1>4. ASSUME NEW k \in 2 .. n + 1 PROVE \E r : Reads(old, new, SubSeq(more, 1, k), r)
  <2>1. CASE k = n + 1
    BY <1>2, <2>1
  <2>2. CASE k # n + 1
    <3>1. k \in 2 .. n
      BY <1>1, <2>2
    <3>2. SubSeq(more, 1, k) = SubSeq(diff, 1, k)
      BY <1>3, <3>1
    <3> HIDE DEF more
    <3> QED BY <3>1, <3>2 DEF Tracked
  <2> QED BY <2>1, <2>2
<1>5. Tracked(old, new, more)
  <2> HIDE DEF more
  <2> QED BY <1>1, <1>4 DEF Tracked
<1> QED BY <1>5 DEF more

-----------------------------------------------------------------------------
(* build_new, one hunk after the other. *)
Within(lines) == {s \in States : s.ok => s.cursor =< Len(lines)}

(* s is the state of build_new after the hunks. *)
Builds(lines, hunks, run) ==
    /\ run \in [0 .. Len(hunks) -> Within(lines)]
    /\ run[0] = Untouched
    /\ \A k \in 1 .. Len(hunks) : run[k] = ApplyHunk(lines, run[k - 1], hunks[k])

Building(lines, hunks, s) == \E run : Builds(lines, hunks, run) /\ s = run[Len(hunks)]

LEMMA BuildingNone ==
    ASSUME NEW lines \in Seq(Texts)
    PROVE  Building(lines, <<>>, Untouched)
<1> DEFINE run == [k \in 0 .. 0 |-> Untouched]
<1>1. Len(<<>>) = 0 /\ 0 \in 0 .. 0 /\ 1 .. 0 = {}
  OBVIOUS
<1>2. Untouched \in Within(lines)
  <2>1. Len(lines) \in Nat
    OBVIOUS
  <2> QED BY <2>1 DEF Untouched, States, Within
<1>3. run \in [0 .. 0 -> Within(lines)] /\ run[0] = Untouched
  BY <1>1, <1>2
<1> HIDE DEF run
<1>4. Builds(lines, <<>>, run)
  BY <1>1, <1>3 DEF Builds
<1> QED BY <1>1, <1>3, <1>4 DEF Building

LEMMA HunkWithin ==
    ASSUME NEW lines \in Seq(Texts), NEW s \in Within(lines), NEW h \in Hunks
    PROVE  ApplyHunk(lines, s, h) \in Within(lines)
<1>1. s \in States /\ (s.ok => s.cursor =< Len(lines))
  BY DEF Within
<1>2. /\ ApplyHunk(lines, s, h) \in States
      /\ HunkDone(ApplyHunk(lines, s, h), lines, s, h)
  BY <1>1, HunkApplied
<1> QED BY <1>2 DEF HunkDone, Within

LEMMA BuildingMore ==
    ASSUME NEW lines \in Seq(Texts), NEW hunks \in Seq(Hunks), NEW s, Building(lines, hunks, s), NEW h \in Hunks
    PROVE  Building(lines, Append(hunks, h), ApplyHunk(lines, s, h))
<1> DEFINE n == Len(hunks)
           more == Append(hunks, h)
           t == ApplyHunk(lines, s, h)
           V == Within(lines)
<1>1. PICK run : Builds(lines, hunks, run) /\ s = run[n]
  BY DEF Building
<1>2. n \in Nat /\ Len(more) = n + 1 /\ more[n + 1] = h /\ \A k \in 1 .. n : more[k] = hunks[k]
  BY AppendProperties
<1>3. /\ run \in [0 .. n -> V] /\ run[0] = Untouched
      /\ \A k \in 1 .. n : run[k] = ApplyHunk(lines, run[k - 1], hunks[k])
  BY <1>1 DEF Builds
<1>4. t \in V
  <2>1. n \in 0 .. n
    BY <1>2
  <2>2. s \in V
    <3> HIDE DEF V
    <3> QED BY <1>1, <1>3, <2>1
  <2> QED BY <2>2, HunkWithin
<1> HIDE DEF n, more, t, V
<1> DEFINE next == [k \in 0 .. n + 1 |-> IF k = n + 1 THEN t ELSE run[k]]
<1>5. /\ next[n + 1] = t /\ \A k \in 0 .. n : next[k] = run[k]
      /\ next \in [0 .. n + 1 -> V]
  <2>1. n + 1 \in 0 .. n + 1 /\ \A k \in 0 .. n : k \in 0 .. n + 1 /\ k # n + 1
    BY <1>2
  <2>2. \A k \in 0 .. n + 1 : k = n + 1 \/ k \in 0 .. n
    BY <1>2
  <2>3. next[n + 1] = t /\ \A k \in 0 .. n : next[k] = run[k]
    BY <2>1
  <2>4. \A k \in 0 .. n + 1 : next[k] \in V
    <3> HIDE DEF next
    <3> QED BY <1>3, <1>4, <2>2, <2>3
  <2>5. next \in [0 .. n + 1 -> V]
    BY <2>4
  <2> QED BY <2>3, <2>5
<1> HIDE DEF next
<1>6. next[0] = Untouched
  <2>1. 0 \in 0 .. n
    BY <1>2
  <2> QED BY <1>3, <1>5, <2>1
<1>7. ASSUME NEW k \in 1 .. n + 1 PROVE next[k] = ApplyHunk(lines, next[k - 1], more[k])
  <2>1. CASE k = n + 1
    <3>1. k - 1 = n /\ n \in 0 .. n
      BY <1>2, <2>1
    <3>2. next[k] = ApplyHunk(lines, s, h) /\ next[k - 1] = s /\ more[k] = h
      BY <1>1, <1>2, <1>5, <2>1, <3>1 DEF t
    <3> QED BY <3>2
  <2>2. CASE k # n + 1
    <3>1. k \in 1 .. n /\ k \in 0 .. n /\ k - 1 \in 0 .. n
      BY <1>2, <2>2
    <3>2. next[k] = run[k] /\ next[k - 1] = run[k - 1] /\ more[k] = hunks[k]
             /\ run[k] = ApplyHunk(lines, run[k - 1], hunks[k])
      BY <1>2, <1>3, <1>5, <3>1
    <3> QED BY <3>2
  <2> QED BY <2>1, <2>2
<1>8. Builds(lines, more, next) /\ t = next[Len(more)]
  BY <1>2, <1>5, <1>6, <1>7 DEF Builds, V
<1>9. Building(lines, more, t)
  BY <1>8, Zenon DEF Building
<1> QED BY <1>9 DEF more, t

LEMMA BuildingLast ==
    ASSUME NEW lines \in Seq(Texts), NEW front \in Seq(Hunks), NEW h \in Hunks, NEW s,
           Building(lines, Append(front, h), s)
    PROVE  \E r \in Within(lines) : Building(lines, front, r) /\ s = ApplyHunk(lines, r, h)
<1> DEFINE n == Len(front)
           more == Append(front, h)
           V == Within(lines)
<1>1. PICK run : Builds(lines, more, run) /\ s = run[Len(more)]
  BY DEF Building
<1>2. n \in Nat /\ Len(more) = n + 1 /\ more[n + 1] = h /\ \A k \in 1 .. n : more[k] = front[k]
  BY AppendProperties
<1> HIDE DEF n, more, V
<1>3. /\ run \in [0 .. n + 1 -> V] /\ run[0] = Untouched
      /\ \A k \in 1 .. n + 1 : run[k] = ApplyHunk(lines, run[k - 1], more[k])
      /\ s = run[n + 1]
  BY <1>1, <1>2 DEF Builds, V
<1> DEFINE less == [k \in 0 .. n |-> run[k]]
<1>4. \A k \in 0 .. n : less[k] = run[k] /\ run[k] \in V
  <2>1. \A k \in 0 .. n : k \in 0 .. n + 1
    BY <1>2
  <2> QED BY <1>3, <2>1
<1>5. less \in [0 .. n -> V] /\ less[0] = Untouched
  <2>1. less \in [0 .. n -> V]
    BY <1>4
  <2>2. 0 \in 0 .. n
    BY <1>2
  <2> HIDE DEF less
  <2> QED BY <1>3, <1>4, <2>1, <2>2
<1> HIDE DEF less
<1>6. ASSUME NEW k \in 1 .. n PROVE less[k] = ApplyHunk(lines, less[k - 1], front[k])
  <2>1. k \in 0 .. n /\ k - 1 \in 0 .. n /\ k \in 1 .. n + 1
    BY <1>2
  <2>2. less[k] = run[k] /\ less[k - 1] = run[k - 1] /\ more[k] = front[k]
           /\ run[k] = ApplyHunk(lines, run[k - 1], more[k])
    BY <1>2, <1>3, <1>4, <2>1
  <2> QED BY <2>2
<1>7. Builds(lines, front, less)
  BY <1>5, <1>6 DEF Builds, V, n
<1>8. less[n] \in Within(lines) /\ Building(lines, front, less[n])
  <2>1. n \in 0 .. n
    BY <1>2
  <2>2. less[n] \in Within(lines)
    BY <1>5, <2>1 DEF V
  <2>3. Building(lines, front, less[n])
    BY <1>7, Zenon DEF Building, n
  <2> QED BY <2>2, <2>3
<1>9. s = ApplyHunk(lines, less[n], h)
  <2>1. n + 1 \in 1 .. n + 1 /\ n + 1 - 1 = n /\ n \in 0 .. n
    BY <1>2
  <2>2. run[n + 1] = ApplyHunk(lines, run[n + 1 - 1], more[n + 1])
    BY <1>3, <2>1
  <2> QED BY <1>2, <1>3, <1>4, <2>1, <2>2
<1> QED BY <1>8, <1>9, Zenon

LEMMA BuildIs ==
    ASSUME NEW lines \in Seq(Texts), NEW nl, NEW hunks \in Seq(Hunks), NEW s, Building(lines, hunks, s)
    PROVE  LET out == s.lines \o SubSeq(lines, s.cursor + 1, Len(lines))
           IN  BuildNew([lines |-> lines, nl |-> nl], hunks) =
                  [ok |-> s.ok, lines |-> IF s.ok THEN out ELSE <<>>, nl |-> out = <<>> \/ s.nl]
<1> DEFINE n == Len(hunks)
           Equation(r) == r = [k \in 0 .. n |-> IF k = 0 THEN Untouched
                                                ELSE ApplyHunk(lines, r[k - 1], hunks[k])]
           after == CHOOSE r : Equation(r)
           outOf(u) == u.lines \o SubSeq(lines, u.cursor + 1, Len(lines))
           built == BuildNew([lines |-> lines, nl |-> nl], hunks)
<1>1. PICK run : Builds(lines, hunks, run) /\ s = run[n]
  BY DEF Building
<1>2. n \in Nat
  OBVIOUS
<1>3. /\ run \in [0 .. n -> Within(lines)] /\ run[0] = Untouched
      /\ \A k \in 1 .. n : run[k] = ApplyHunk(lines, run[k - 1], hunks[k])
  BY <1>1 DEF Builds
<1>4. Equation(run)
  <2>1. \A k \in 0 .. n : k # 0 => k \in 1 .. n
    BY <1>2
  <2>2. \A k \in 0 .. n : run[k] = IF k = 0 THEN Untouched ELSE ApplyHunk(lines, run[k - 1], hunks[k])
    BY <1>3, <2>1, Zenon
  <2> QED BY <1>3, <2>2
<1>5. Equation(after)
  <2> HIDE DEF Equation
  <2> QED BY <1>4
<1>6. built = [ok |-> after[n].ok, lines |-> IF after[n].ok THEN outOf(after[n]) ELSE <<>>,
               nl |-> outOf(after[n]) = <<>> \/ after[n].nl]
  BY DEF BuildNew
<1> HIDE DEF after, built, outOf
<1>7. after[0] = Untouched /\ \A k \in 1 .. n : after[k] = ApplyHunk(lines, after[k - 1], hunks[k])
  <2>1. \A k \in 0 .. n : after[k] = IF k = 0 THEN Untouched ELSE ApplyHunk(lines, after[k - 1], hunks[k])
    BY <1>5, Zenon
  <2>2. 0 \in 0 .. n /\ \A k \in 1 .. n : k \in 0 .. n /\ k # 0
    BY <1>2
  <2> QED BY <2>1, <2>2, Zenon
<1> HIDE DEF Equation
<1>8. Agree(n, after, run)
  <2>1. after[0] = run[0] /\ \A k \in 1 .. n : after[k - 1] = run[k - 1] => after[k] = run[k]
    BY <1>3, <1>7, Zenon
  <2> QED BY <1>2, <2>1, IteratesAgree
<1>9. after[n] = s
  BY <1>1, <1>2, <1>8 DEF Agree
<1> QED BY <1>6, <1>9 DEF built, outOf

-----------------------------------------------------------------------------
(* A hunk with one more line. *)
LEMMA HunkOneMore ==
    ASSUME NEW lines \in Seq(Texts), NEW r \in Within(lines), NEW start \in Nat, NEW len \in Nat,
           NEW ops \in Seq(AnyOp), NEW o \in AnyOp, ApplyHunk(lines, r, HunkOf(start, len, ops)).ok
    PROVE  ApplyHunk(lines, r, HunkOf(start, len, Append(ops, o)))
              = ApplyOp(lines, ApplyHunk(lines, r, HunkOf(start, len, ops)), o)
<1> DEFINE h == HunkOf(start, len, ops)
           more == Append(ops, o)
           g == HunkOf(start, len, more)
           n == Len(ops)
<1>1. /\ n \in Nat /\ more \in Seq(AnyOp) /\ Len(more) = n + 1
      /\ more[n + 1] = o /\ \A k \in 1 .. n : more[k] = ops[k]
  BY AppendProperties
<1> HIDE DEF more
<1>2. h \in Hunks /\ h.ops = ops /\ h.start = start
  BY HunkTypes
<1>3. g \in Hunks /\ g.ops = more /\ g.start = start
  BY <1>1, HunkTypes
<1> HIDE DEF h, g, n
<1>4. r \in States
  BY DEF Within
<1>5. ~Mismatch.ok
  BY DEF Mismatch
<1>6. r.ok /\ ~Misplaced(h, r.cursor, lines)
  <2>1. ApplyHunk(lines, r, h).ok
    BY DEF h
  <2>2. ~r.ok \/ Misplaced(h, r.cursor, lines) => ApplyHunk(lines, r, h) = Mismatch
    BY DEF ApplyHunk
  <2> QED BY <1>5, <2>1, <2>2
<1>7. ~Misplaced(g, r.cursor, lines) /\ UpTo(lines, r, g) = UpTo(lines, r, h)
  <2>1. Start(g) = Start(h)
    BY <1>2, <1>3 DEF Start
  <2> QED BY <1>6, <2>1 DEF Misplaced, UpTo
<1>8. PICK a : Runs(a, lines, UpTo(lines, r, h), h.ops) /\ ApplyHunk(lines, r, h) = a[Len(h.ops)]
  BY <1>2, <1>4, <1>6, HunkRuns
<1>9. PICK b : Runs(b, lines, UpTo(lines, r, g), g.ops) /\ ApplyHunk(lines, r, g) = b[Len(g.ops)]
  BY <1>3, <1>4, <1>6, <1>7, HunkRuns
<1>10. /\ a[0] = UpTo(lines, r, h) /\ ApplyHunk(lines, r, h) = a[n]
       /\ \A k \in 1 .. n : a[k] = ApplyOp(lines, a[k - 1], ops[k])
  BY <1>2, <1>8 DEF Runs, n
<1>11. /\ b[0] = UpTo(lines, r, h) /\ ApplyHunk(lines, r, g) = b[n + 1]
       /\ \A k \in 1 .. n + 1 : b[k] = ApplyOp(lines, b[k - 1], more[k])
  BY <1>1, <1>3, <1>7, <1>9 DEF Runs
<1>12. Agree(n, b, a)
  <2>1. \A k \in 1 .. n : k \in 1 .. n + 1
    BY <1>1
  <2>2. b[0] = a[0] /\ \A k \in 1 .. n : b[k - 1] = a[k - 1] => b[k] = a[k]
    BY <1>1, <1>10, <1>11, <2>1
  <2> QED BY <1>1, <2>2, IteratesAgree
<1>13. n \in 0 .. n /\ n + 1 \in 1 .. n + 1 /\ n + 1 - 1 = n
  BY <1>1
<1>14. b[n] = a[n]
  BY <1>12, <1>13 DEF Agree
<1>15. b[n + 1] = ApplyOp(lines, b[n + 1 - 1], more[n + 1])
  BY <1>11, <1>13
<1>16. ApplyHunk(lines, r, g) = ApplyOp(lines, ApplyHunk(lines, r, h), o)
  BY <1>1, <1>10, <1>11, <1>13, <1>14, <1>15
<1> QED BY <1>16 DEF g, h, more

LEMMA BuildingOp ==
    ASSUME NEW lines \in Seq(Texts), NEW front \in Seq(Hunks), NEW start \in Nat, NEW len \in Nat,
           NEW ops \in Seq(AnyOp), NEW o \in AnyOp,
           NEW s, Building(lines, Append(front, HunkOf(start, len, ops)), s), s.ok
    PROVE  Building(lines, Append(front, HunkOf(start, len, Append(ops, o))), ApplyOp(lines, s, o))
<1> DEFINE h == HunkOf(start, len, ops)
           g == HunkOf(start, len, Append(ops, o))
<1>1. h \in Hunks /\ g \in Hunks
  <2> DEFINE more == Append(ops, o)
  <2>1. more \in Seq(AnyOp)
    BY AppendProperties
  <2> HIDE DEF more
  <2>2. HunkOf(start, len, more) \in Hunks /\ h \in Hunks
    BY <2>1, HunkTypes
  <2> QED BY <2>2 DEF more
<1>2. PICK r \in Within(lines) : Building(lines, front, r) /\ s = ApplyHunk(lines, r, h)
  <2> HIDE DEF h
  <2>1. Building(lines, Append(front, h), s)
    BY DEF h
  <2> QED BY <1>1, <2>1, BuildingLast
<1>3. ApplyHunk(lines, r, g) = ApplyOp(lines, s, o)
  BY <1>2, HunkOneMore
<1> HIDE DEF g, h
<1>4. Building(lines, Append(front, g), ApplyHunk(lines, r, g))
  BY <1>1, <1>2, BuildingMore
<1> QED BY <1>3, <1>4 DEF g

(* A hunk without lines yet. *)
BegunAt(lines, s, p) ==
    [ok |-> TRUE, nl |-> s.nl, cursor |-> p, lines |-> s.lines \o SubSeq(lines, s.cursor + 1, p)]

LEMMA HunkBegunAt ==
    ASSUME NEW lines \in Seq(Texts), NEW s \in Within(lines), s.ok, NEW start \in Nat, NEW len \in Nat,
           NEW p \in s.cursor .. Len(lines), p = IF start = 0 THEN 0 ELSE start - 1,
           NEW ops, Blank(ops)
    PROVE  ApplyHunk(lines, s, HunkOf(start, len, ops)) = BegunAt(lines, s, p)
<1> DEFINE h == HunkOf(start, len, <<>>)
<1>0. h = HunkOf(start, len, ops)
  BY DEF Blank
<1>1. Len(<<>>) = 0
  OBVIOUS
<1>2. h \in Hunks /\ h.ops = <<>> /\ h.start = start
  BY EmptyHunk
<1> HIDE DEF h
<1>3. Place(h) = p /\ Start(h) = p
  <2>1. Place(h) = p
    BY <1>2 DEF Place
  <2> QED BY <1>2, <2>1, PlaceTypes
<1>4. s \in States /\ s.cursor \in Nat /\ Len(lines) \in Nat
  BY DEF Within, States
<1>5. ~Misplaced(h, s.cursor, lines)
  BY <1>3, <1>4 DEF Misplaced
<1>6. UpTo(lines, s, h) = [ok |-> s.ok, nl |-> s.nl, cursor |-> p,
                           lines |-> s.lines \o SubSeq(lines, s.cursor + 1, p)]
  BY <1>2, <1>3, <1>4, <1>5, UpToStates
<1>7. PICK run : Runs(run, lines, UpTo(lines, s, h), h.ops) /\ ApplyHunk(lines, s, h) = run[Len(h.ops)]
  BY <1>2, <1>4, <1>5, HunkRuns
<1>8. ApplyHunk(lines, s, h) = UpTo(lines, s, h)
  BY <1>1, <1>2, <1>7 DEF Runs
<1>9. s.ok = TRUE
  BY <1>4 DEF States
<1>10. ApplyHunk(lines, s, h) = BegunAt(lines, s, p)
  BY <1>6, <1>8, <1>9 DEF BegunAt
<1> QED BY <1>0, <1>10

-----------------------------------------------------------------------------
(* The diff has been understood so far, as one file with these hunks; or   *)
(* it has been refused.                                                    *)
Stands(old, new, diff, hunks) ==
    /\ diff \in Seq(DiffLine) /\ Len(diff) >= 2 /\ hunks \in Seq(Hunks)
    /\ Tracked(old, new, diff)
    /\ Parses(diff, Open(<<>>, FileOf(old, new, hunks))) /\ Follows(diff, hunks)

Rejects(old, new, diff) ==
    /\ diff \in Seq(DiffLine) /\ Len(diff) >= 2
    /\ Tracked(old, new, diff)
    /\ Parses(diff, Refused) /\ ~Quiet(diff)

LEMMA RejectsMore ==
    ASSUME NEW old, NEW new, NEW diff, Rejects(old, new, diff), NEW t \in DiffLine
    PROVE  Rejects(old, new, Append(diff, t))
<1> DEFINE more == Append(diff, t)
<1>1. diff \in Seq(DiffLine) /\ Len(diff) >= 2 /\ Tracked(old, new, diff) /\ Parses(diff, Refused) /\ ~Quiet(diff)
  BY DEF Rejects
<1>2. more \in Seq(DiffLine) /\ Len(more) >= 2
  BY <1>1, MoreLines
<1>3. Parses(more, Refused)
  <2>1. Parses(more, ParseLine(Refused, t))
    BY <1>1, ParsesMore
  <2> QED BY <2>1, RefusedRead
<1>4. ~Quiet(more)
  BY <1>1, QuietMore
<1>5. Tracked(old, new, more)
  <2>1. Reads(old, new, more, Refused)
    BY <1>3, <1>4 DEF Reads
  <2> QED BY <1>1, <2>1, TrackedMore
<1> HIDE DEF more
<1>6. Rejects(old, new, more)
  BY <1>2, <1>3, <1>4, <1>5 DEF Rejects
<1> QED BY <1>6 DEF more

LEMMA StandsMore ==
    ASSUME NEW old \in PathKinds, NEW new \in PathKinds, NEW diff, NEW hunks, Stands(old, new, diff, hunks),
           NEW t \in DiffLine, NEW next \in Seq(Hunks),
           ParseLine(Open(<<>>, FileOf(old, new, hunks)), t) = Open(<<>>, FileOf(old, new, next)),
           Follows(Append(diff, t), next)
    PROVE  Stands(old, new, Append(diff, t), next)
<1> DEFINE more == Append(diff, t)
           s == Open(<<>>, FileOf(old, new, next))
<1>1. /\ diff \in Seq(DiffLine) /\ Len(diff) >= 2 /\ Tracked(old, new, diff)
      /\ Parses(diff, Open(<<>>, FileOf(old, new, hunks)))
  BY DEF Stands
<1>2. more \in Seq(DiffLine) /\ Len(more) >= 2
  BY <1>1, MoreLines
<1>3. Parses(more, s)
  <2>1. Parses(more, ParseLine(Open(<<>>, FileOf(old, new, hunks)), t))
    BY <1>1, ParsesMore
  <2> QED BY <2>1
<1>4. Reads(old, new, more, s)
  BY <1>3 DEF Reads
<1>5. Tracked(old, new, more)
  <2> HIDE DEF s
  <2> QED BY <1>1, <1>4, TrackedMore
<1>6. Stands(old, new, more, next)
  <2> HIDE DEF more
  <2>1. Follows(more, next)
    BY DEF more
  <2> QED BY <1>2, <1>3, <1>5, <2>1 DEF Stands
<1> QED BY <1>6

LEMMA FirstLineRead ==
    ASSUME NEW old \in PathKinds, NEW new \in PathKinds, NEW front \in Seq(Hunks),
           NEW start \in Nat, NEW len \in Nat, NEW ops \in Seq(AnyOp), NEW sign \in LineOps, NEW text \in Texts
    PROVE  ParseLine(Open(<<>>, FileOf(old, new, Append(front, HunkOf(start, len, ops)))), LineOf(sign, text))
              = Open(<<>>, FileOf(old, new, Append(front, HunkOf(start, len, Append(ops, FullOp(sign, text))))))
<1> DEFINE none == <<>>
<1>1. none \in Seq(PatchFile)
  OBVIOUS
<1> HIDE DEF none
<1>2. ParseLine(Open(none, FileOf(old, new, Append(front, HunkOf(start, len, ops)))), LineOf(sign, text))
              = Open(none, FileOf(old, new, Append(front, HunkOf(start, len, Append(ops, FullOp(sign, text))))))
  BY <1>1, LineRead
<1> QED BY <1>2 DEF none

LEMMA FirstEndRead ==
    ASSUME NEW old \in PathKinds, NEW new \in PathKinds, NEW front \in Seq(Hunks),
           NEW start \in Nat, NEW len \in Nat, NEW ops \in Seq(AnyOp), NEW sign \in LineOps, NEW text \in Texts
    PROVE  ParseLine(Open(<<>>, FileOf(old, new,
                          Append(front, HunkOf(start, len, Append(ops, FullOp(sign, text)))))), NoNewline)
              = Open(<<>>, FileOf(old, new, Append(front, HunkOf(start, len, Append(ops, CutOp(sign, text))))))
<1> DEFINE none == <<>>
<1>1. none \in Seq(PatchFile)
  OBVIOUS
<1> HIDE DEF none
<1>2. ParseLine(Open(none, FileOf(old, new,
                          Append(front, HunkOf(start, len, Append(ops, FullOp(sign, text)))))), NoNewline)
              = Open(none, FileOf(old, new, Append(front, HunkOf(start, len, Append(ops, CutOp(sign, text))))))
  BY <1>1, EndRead
<1> QED BY <1>2 DEF none

LEMMA StandsHeader ==
    ASSUME NEW old \in PathKinds, NEW new \in PathKinds, NEW diff, NEW hunks, Stands(old, new, diff, hunks),
           hunks = <<>> \/ Counts(Last(hunks)), NEW start \in Nat, NEW len \in Nat
    PROVE  Stands(old, new, Append(diff, HunkHeader(start, len)), Append(hunks, HunkOf(start, len, <<>>)))
<1> DEFINE t == HunkHeader(start, len)
           h == HunkOf(start, len, <<>>)
           next == Append(hunks, h)
<1>1. diff \in Seq(DiffLine) /\ Len(diff) >= 2 /\ hunks \in Seq(Hunks) /\ Follows(diff, hunks) /\ <<>> \in Seq(PatchFile)
  BY DEF Stands
<1>2. t \in DiffLine
  BY DEF HunkHeader, DiffLine
<1>3. next \in Seq(Hunks)
  <2>1. h \in Hunks
    BY EmptyHunk
  <2> HIDE DEF h
  <2> QED BY <1>1, <2>1, AppendProperties
<1>4. ParseLine(Open(<<>>, FileOf(old, new, hunks)), t) = Open(<<>>, FileOf(old, new, next))
  <2> DEFINE none == <<>>
             ops == <<>>
             more == Append(hunks, HunkOf(start, len, ops))
  <2>1. none \in Seq(PatchFile)
    BY <1>1
  <2>2. Blank(ops)
    BY DEF Blank
  <2>3. hunks \in Seq(Hunks)
    BY <1>1
  <2>4. more = next /\ none = <<>> /\ t = HunkHeader(start, len)
    OBVIOUS
  <2> HIDE DEF none, ops, t, next
  <2>5. ParseLine(Open(none, FileOf(old, new, hunks)), HunkHeader(start, len)) = Open(none, FileOf(old, new, more))
    BY <2>1, <2>2, <2>3, HeaderReadOn
  <2> HIDE DEF more
  <2> QED BY <2>4, <2>5
<1>5. Follows(Append(diff, t), next)
  BY <1>1, FollowsHeader
<1> HIDE DEF t, h, next
<1>6. Stands(old, new, Append(diff, t), next)
  BY <1>2, <1>3, <1>4, <1>5, StandsMore
<1> QED BY <1>6 DEF t, h, next

LEMMA OpTypes ==
    ASSUME NEW sign \in LineOps, NEW text \in Texts, NEW ops \in Seq(AnyOp), NEW o \in {FullOp(sign, text), CutOp(sign, text)}
    PROVE  o \in AnyOp /\ o.op = sign /\ o.text = text /\ Append(ops, o) \in Seq(AnyOp)
<1>1. o \in AnyOp /\ o.op = sign /\ o.text = text
  <2>1. CASE o = FullOp(sign, text)
    BY <2>1 DEF FullOp, AnyOp
  <2>2. CASE o = CutOp(sign, text)
    BY <2>2 DEF CutOp, AnyOp
  <2> QED BY <2>1, <2>2
<1>2. Append(ops, o) \in Seq(AnyOp)
  BY <1>1, AppendProperties
<1> QED BY <1>1, <1>2

LEMMA StandsLine ==
    ASSUME NEW old \in PathKinds, NEW new \in PathKinds, NEW diff, NEW front \in Seq(Hunks),
           NEW start \in Nat, NEW len \in Nat, NEW ops \in Seq(AnyOp), NEW sign \in LineOps, NEW text \in Texts,
           Stands(old, new, diff, Append(front, HunkOf(start, len, ops)))
    PROVE  Stands(old, new, Append(diff, LineOf(sign, text)),
                  Append(front, HunkOf(start, len, Append(ops, FullOp(sign, text)))))
<1> DEFINE t == LineOf(sign, text)
           more == Append(ops, FullOp(sign, text))
           h == HunkOf(start, len, ops)
           g == HunkOf(start, len, more)
<1>1. more \in Seq(AnyOp) /\ FullOp(sign, text) \in AnyOp /\ FullOp(sign, text).op = sign
  BY OpTypes
<1>2. Cardinality(OldLines(more)) = Cardinality(OldLines(ops)) + (IF sign \in OldOps THEN 1 ELSE 0)
  BY <1>1, CountMore
<1> HIDE DEF more
<1>3. /\ h \in Hunks /\ h.ops = ops /\ h.len = len
      /\ g \in Hunks /\ g.ops = more /\ g.len = len
  BY <1>1, HunkTypes
<1>4. t \in DiffLine /\ t.kind = "line" /\ t.op = sign
  BY DEF DiffLine, LineOf
<1>5. ParseLine(Open(<<>>, FileOf(old, new, Append(front, h))), t) = Open(<<>>, FileOf(old, new, Append(front, g)))
  BY FirstLineRead DEF more
<1> HIDE DEF t, h, g
<1>6. diff \in Seq(DiffLine) /\ Len(diff) >= 2 /\ Follows(diff, Append(front, h)) /\ Stands(old, new, diff, Append(front, h))
  BY DEF Stands, h
<1>7. Follows(Append(diff, t), Append(front, g))
  <2>1. t.kind \in {"line", "no newline"} /\ g.len = h.len
    BY <1>3, <1>4
  <2>2. Cardinality(OldLines(g.ops)) =
           Cardinality(OldLines(h.ops)) + (IF t.kind = "line" /\ t.op \in OldOps THEN 1 ELSE 0)
    BY <1>2, <1>3, <1>4
  <2> QED BY <1>3, <1>4, <1>6, <2>1, <2>2, FollowsMore, Zenon
<1>8. Append(front, g) \in Seq(Hunks)
  BY <1>3, AppendProperties
<1>9. Stands(old, new, Append(diff, t), Append(front, g))
  BY <1>4, <1>5, <1>6, <1>7, <1>8, StandsMore
<1> QED BY <1>9 DEF t, g, more

LEMMA StandsEnd ==
    ASSUME NEW old \in PathKinds, NEW new \in PathKinds, NEW diff, NEW front \in Seq(Hunks),
           NEW start \in Nat, NEW len \in Nat, NEW ops \in Seq(AnyOp), NEW sign \in LineOps, NEW text \in Texts,
           Stands(old, new, diff, Append(front, HunkOf(start, len, Append(ops, FullOp(sign, text)))))
    PROVE  Stands(old, new, Append(diff, NoNewline),
                  Append(front, HunkOf(start, len, Append(ops, CutOp(sign, text)))))
<1> DEFINE t == NoNewline
           less == Append(ops, FullOp(sign, text))
           more == Append(ops, CutOp(sign, text))
           h == HunkOf(start, len, less)
           g == HunkOf(start, len, more)
<1>1. /\ less \in Seq(AnyOp) /\ FullOp(sign, text) \in AnyOp /\ FullOp(sign, text).op = sign
      /\ more \in Seq(AnyOp) /\ CutOp(sign, text) \in AnyOp /\ CutOp(sign, text).op = sign
  BY OpTypes
<1>2. Cardinality(OldLines(more)) = Cardinality(OldLines(less)) + 0
  <2>1. /\ Cardinality(OldLines(ops)) \in Nat
        /\ Cardinality(OldLines(more)) = Cardinality(OldLines(ops)) + (IF sign \in OldOps THEN 1 ELSE 0)
    BY <1>1, CountMore
  <2>2. Cardinality(OldLines(less)) = Cardinality(OldLines(ops)) + (IF sign \in OldOps THEN 1 ELSE 0)
    BY <1>1, CountMore
  <2> HIDE DEF more, less
  <2> QED BY <2>1, <2>2
<1>3. ParseLine(Open(<<>>, FileOf(old, new, Append(front, h))), t) = Open(<<>>, FileOf(old, new, Append(front, g)))
  BY FirstEndRead
<1> HIDE DEF more, less
<1>4. /\ h \in Hunks /\ h.ops = less /\ h.len = len
      /\ g \in Hunks /\ g.ops = more /\ g.len = len
  BY <1>1, HunkTypes
<1>5. t \in DiffLine /\ t.kind = "no newline"
  BY DEF DiffLine, NoNewline
<1> HIDE DEF t, h, g
<1>6. diff \in Seq(DiffLine) /\ Len(diff) >= 2 /\ Follows(diff, Append(front, h)) /\ Stands(old, new, diff, Append(front, h))
  BY DEF Stands, h, less
<1>7. Follows(Append(diff, t), Append(front, g))
  <2>1. t.kind \in {"line", "no newline"} /\ g.len = h.len /\ t.kind # "line"
    BY <1>4, <1>5, Zenon
  <2>2. Cardinality(OldLines(g.ops)) =
           Cardinality(OldLines(h.ops)) + (IF t.kind = "line" /\ t.op \in OldOps THEN 1 ELSE 0)
    BY <1>2, <1>4, <2>1, Zenon
  <2> QED BY <1>4, <1>5, <1>6, <2>1, <2>2, FollowsMore, Zenon
<1>8. Append(front, g) \in Seq(Hunks)
  BY <1>4, AppendProperties
<1>9. Stands(old, new, Append(diff, t), Append(front, g))
  BY <1>3, <1>5, <1>6, <1>7, <1>8, StandsMore, Zenon
<1> QED BY <1>9 DEF t, g, more

LEMMA StandsWrong ==
    ASSUME NEW old \in PathKinds, NEW new \in PathKinds, NEW diff, NEW hunks, Stands(old, new, diff, hunks),
           NEW t \in DiffLine, t.kind = "+++" \/ (t.kind = "---" /\ ~Counts(Last(hunks)))
    PROVE  Rejects(old, new, Append(diff, t))
<1> DEFINE more == Append(diff, t)
           s == Open(<<>>, FileOf(old, new, hunks))
<1>1. /\ diff \in Seq(DiffLine) /\ Len(diff) >= 2 /\ Tracked(old, new, diff)
      /\ Parses(diff, s) /\ hunks \in Seq(Hunks) /\ <<>> \in Seq(PatchFile)
  BY DEF Stands
<1>2. more \in Seq(DiffLine) /\ Len(more) >= 2
  BY <1>1, MoreLines
<1>3. ParseLine(s, t) = Refused
  BY <1>1, WrongRead
<1>4. Parses(more, Refused)
  <2>1. Parses(more, ParseLine(s, t))
    BY <1>1, ParsesMore
  <2> QED BY <1>3, <2>1
<1>5. ~Quiet(more)
  BY <1>1, QuietMore
<1>6. Tracked(old, new, more)
  <2>1. Reads(old, new, more, Refused)
    BY <1>4, <1>5 DEF Reads
  <2> QED BY <1>1, <2>1, TrackedMore
<1> HIDE DEF more
<1>7. Rejects(old, new, more)
  BY <1>2, <1>4, <1>5, <1>6 DEF Rejects
<1> QED BY <1>7 DEF more

LEMMA StandsFirst ==
    ASSUME NEW old \in PathKinds, NEW new \in PathKinds,
           ~Unpatchable(old, new)
    PROVE  Stands(old, new, <<OldHeader(old), NewHeader(new)>>, <<>>)
<1> DEFINE a == OldHeader(old)
           b == NewHeader(new)
           diff == <<a, b>>
           s == Open(<<>>, FileOf(old, new, <<>>))
<1>1. a \in DiffLine /\ b \in DiffLine /\ a.kind # "@@" /\ b.kind # "@@"
  BY DEF OldHeader, NewHeader, DiffLine
<1>2. ParseLine(ParseLine(Begun, a), b) = s
  <2>1. <<>> \in Seq(PatchFile)
    OBVIOUS
  <2>2. ParseLine(ParseLine(Begun, a), b) =
          IF Unpatchable(old, new) THEN Refused ELSE s
    BY <2>1, SectionRead
  <2> QED BY <2>2
<1> HIDE DEF a, b, s
<1>3. diff = Append(Append(<<>>, a), b) /\ Append(<<>>, a) \in Seq(DiffLine) /\ <<>> \in Seq(DiffLine)
  BY <1>1
<1>4. Parses(Append(<<>>, a), ParseLine(Begun, a))
  BY <1>1, <1>3, ParsesNone, ParsesMore
<1>5. Parses(diff, s)
  <2>1. Parses(Append(Append(<<>>, a), b), ParseLine(ParseLine(Begun, a), b))
    BY <1>1, <1>3, <1>4, ParsesMore
  <2> QED BY <1>2, <1>3, <2>1
<1>6. /\ diff \in Seq(DiffLine) /\ Len(diff) = 2 /\ DOMAIN diff = 1 .. 2
      /\ \A k \in 1 .. 2 : diff[k].kind # "@@"
  BY <1>1
<1> HIDE DEF diff
<1>7. Follows(diff, <<>>)
  <2>1. 3 .. 2 = {}
    OBVIOUS
  <2>2. Quiet(diff)
    BY <1>6, <2>1 DEF Quiet
  <2> QED BY <1>6, <2>2 DEF Follows
<1>8. Tracked(old, new, diff)
  <2>1. \A k \in 2 .. Len(diff) : SubSeq(diff, 1, k) = diff
    <3>1. \A k \in 2 .. 2 : k = 2
      OBVIOUS
    <3> QED BY <1>6, <3>1, SubSeqFull
  <2>2. <<>> \in Seq(Hunks)
    OBVIOUS
  <2>3. Reads(old, new, diff, s)
    BY <1>5, <1>7, <2>2 DEF Reads, s
  <2> QED BY <2>1, <2>3 DEF Tracked
<1>9. Stands(old, new, diff, <<>>)
  <2>1. <<>> \in Seq(Hunks)
    OBVIOUS
  <2> QED BY <1>5, <1>6, <1>7, <1>8, <2>1 DEF Stands, s
<1> QED BY <1>9 DEF diff, a, b

-----------------------------------------------------------------------------
(* The lines of a script that change something are shown. *)
Shows(script, shown) ==
    /\ script \in Scripts /\ shown \in SUBSET (1 .. Len(script))
    /\ \A i \in 1 .. Len(script) : script[i].op # " " => i \in shown

RiskyLine(o) == (o.op = "-" /\ o.text \in Dashes) \/ (o.op = "+" /\ o.text \in Pluses)

(* What is known of the hunks after the first i lines: in the middle of a  *)
(* hunk it lacks the old lines up to its end, elsewhere nothing.           *)
InHunk(script, shown, i, hunks) ==
    /\ hunks \in Seq(Hunks)
    /\ (\E j \in shown : j =< i) => hunks # <<>>
    /\ IF i \in shown
       THEN \E front \in Seq(Hunks), start \in Nat, len \in Nat, ops \in Seq(AnyOp) :
               /\ hunks = Append(front, HunkOf(start, len, ops))
               /\ len + OldUpTo(script, i) = Cardinality(OldLines(ops)) + OldUpTo(script, HunkEnd(shown, i))
       ELSE hunks = <<>> \/ Counts(Last(hunks))

(* The hunk that the line i goes into, begun for it if need be.            *)
Opened(script, shown, i, hunks, front, start, len, ops) ==
    /\ front \in Seq(Hunks) /\ start \in Nat /\ len \in Nat /\ ops \in Seq(AnyOp)
    /\ IF i - 1 \in shown THEN hunks = Append(front, HunkOf(start, len, ops))
       ELSE /\ hunks = front /\ ops = <<>> /\ (hunks = <<>> \/ Counts(Last(hunks)))
            /\ Header(script, shown, i) = HunkHeader(start, len)
            /\ start = IF len = 0 THEN OldUpTo(script, i - 1) ELSE OldUpTo(script, i - 1) + 1
    /\ len + OldUpTo(script, i - 1) = Cardinality(OldLines(ops)) + OldUpTo(script, HunkEnd(shown, i))

LEMMA ShownTypes ==
    ASSUME NEW script, NEW shown, Shows(script, shown), NEW i \in 1 .. Len(script)
    PROVE  /\ script \in Scripts /\ Len(script) \in Nat /\ shown \in SUBSET (1 .. Len(script))
           /\ i \in Nat /\ i - 1 \in 0 .. Len(script) /\ i \in 0 .. Len(script)
           /\ OldUpTo(script, i - 1) \in Nat /\ OldUpTo(script, i) \in Nat
           /\ OldUpTo(script, i) = OldUpTo(script, i - 1) + (IF script[i].op \in OldOps THEN 1 ELSE 0)
           /\ script[i].text \in Texts /\ script[i].op \in LineOps
<1>1. script \in Scripts /\ shown \in SUBSET (1 .. Len(script)) /\ Len(script) \in Nat
  <2>1. script \in Scripts /\ shown \in SUBSET (1 .. Len(script))
    BY Zenon DEF Shows
  <2>2. Len(script) \in Nat
    BY <2>1 DEF Scripts
  <2> QED BY <2>1, <2>2
<1>2. i \in Nat /\ i - 1 \in 0 .. Len(script) /\ i \in 0 .. Len(script)
  BY <1>1
<1>3. /\ OldUpTo(script, i - 1) \in Nat
      /\ OldUpTo(script, i) = OldUpTo(script, i - 1) + (IF script[i].op \in OldOps THEN 1 ELSE 0)
  BY <1>1, OldStep
<1>4. OldUpTo(script, i) \in Nat
  BY <1>3
<1>5. script[i].text \in Texts /\ script[i].op \in LineOps
  BY <1>1, LineTexts
<1> QED BY <1>1, <1>2, <1>3, <1>4, <1>5

LEMMA EndTypes ==
    ASSUME NEW script, NEW shown, Shows(script, shown), NEW i \in shown
    PROVE  /\ i \in 1 .. Len(script) /\ HunkEnd(shown, i) \in i .. Len(script)
           /\ OldUpTo(script, HunkEnd(shown, i)) \in Nat
           /\ OldUpTo(script, i) =< OldUpTo(script, HunkEnd(shown, i))
           /\ i - 1 \in shown => HunkEnd(shown, i - 1) = HunkEnd(shown, i)
           /\ i + 1 \notin shown => HunkEnd(shown, i) = i
<1>1. script \in Scripts /\ shown \in SUBSET (1 .. Len(script)) /\ Len(script) \in Nat
  <2>1. script \in Scripts /\ shown \in SUBSET (1 .. Len(script))
    BY Zenon DEF Shows
  <2>2. Len(script) \in Nat
    BY <2>1 DEF Scripts
  <2> QED BY <2>1, <2>2
<1>2. i \in 1 .. Len(script) /\ HunkEnd(shown, i) \in i .. Len(script)
  BY <1>1, HunkEnds
<1>3. HunkEnd(shown, i) \in 0 .. Len(script) /\ i \in 0 .. HunkEnd(shown, i)
  BY <1>1, <1>2
<1>4. /\ OldUpTo(script, HunkEnd(shown, i)) \in Nat
      /\ OldUpTo(script, i) =< OldUpTo(script, HunkEnd(shown, i))
  BY <1>1, <1>3, OldRises
<1>5. /\ i - 1 \in shown => HunkEnd(shown, i - 1) = HunkEnd(shown, i)
      /\ i + 1 \notin shown => HunkEnd(shown, i) = i
  BY <1>1, HunkEndSame
<1> QED BY <1>2, <1>4, <1>5

LEMMA Opens ==
    ASSUME NEW script, NEW shown, Shows(script, shown), NEW i \in shown, NEW hunks, InHunk(script, shown, i - 1, hunks)
    PROVE  \E front, start, len, ops : Opened(script, shown, i, hunks, front, start, len, ops)
<1> DEFINE before == OldUpTo(script, i - 1)
           all == OldUpTo(script, HunkEnd(shown, i))
<1>1. i \in 1 .. Len(script)
  BY EndTypes
<1>2. before \in Nat /\ OldUpTo(script, i) \in Nat /\ before =< OldUpTo(script, i)
  BY <1>1, ShownTypes
<1>3. all \in Nat /\ before =< all
  <2>1. all \in Nat /\ OldUpTo(script, i) =< all
    BY EndTypes
  <2> HIDE DEF all, before
  <2> QED BY <1>2, <2>1
<1>4. CASE i - 1 \in shown
  <2>1. HunkEnd(shown, i - 1) = HunkEnd(shown, i)
    BY <1>4, EndTypes
  <2>2. PICK front \in Seq(Hunks), start \in Nat, len \in Nat, ops \in Seq(AnyOp) :
               /\ hunks = Append(front, HunkOf(start, len, ops))
               /\ len + before = Cardinality(OldLines(ops)) + all
    BY <1>4, <2>1 DEF InHunk
  <2>3. Opened(script, shown, i, hunks, front, start, len, ops)
    BY <1>4, <2>2 DEF Opened
  <2> QED BY <2>3
<1>5. CASE i - 1 \notin shown
  <2> DEFINE len == all - before
             start == IF len = 0 THEN before ELSE before + 1
  <2>1. hunks \in Seq(Hunks) /\ (hunks = <<>> \/ Counts(Last(hunks)))
    BY <1>5 DEF InHunk
  <2>2. Header(script, shown, i) = HunkHeader(start, len)
    BY DEF Header
  <2> HIDE DEF before, all
  <2>3. len \in Nat /\ start \in Nat /\ len + before = 0 + all
    BY <1>2, <1>3
  <2>4. <<>> \in Seq(AnyOp)
    OBVIOUS
  <2>5. Opened(script, shown, i, hunks, hunks, start, len, <<>>)
    BY <1>5, <2>1, <2>2, <2>3, <2>4, CountNone DEF Opened, before, all
  <2> QED BY <2>5
<1> QED BY <1>4, <1>5

(* Where no further line is shown a hunk is over, with the old lines that  *)
(* its header announces.                                                   *)
LEMMA HunkOver ==
    ASSUME NEW script, NEW shown, Shows(script, shown), NEW i \in Nat, i + 1 \notin shown,
           NEW hunks, InHunk(script, shown, i, hunks)
    PROVE  hunks = <<>> \/ Counts(Last(hunks))
<1>1. CASE i \in shown
  <2>1. HunkEnd(shown, i) = i
    BY <1>1, EndTypes
  <2>2. PICK front \in Seq(Hunks), start \in Nat, len \in Nat, ops \in Seq(AnyOp) :
             /\ hunks = Append(front, HunkOf(start, len, ops))
             /\ len + OldUpTo(script, i) = Cardinality(OldLines(ops)) + OldUpTo(script, i)
    BY <1>1, <2>1 DEF InHunk
  <2>3. HunkOf(start, len, ops) \in Hunks /\ HunkOf(start, len, ops).len = len /\ HunkOf(start, len, ops).ops = ops
    BY HunkTypes
  <2>4. Last(hunks) = HunkOf(start, len, ops)
    BY <2>2, <2>3, LastAppend
  <2>5. Cardinality(OldLines(ops)) \in Nat
    BY CountsTypes
  <2>6. OldUpTo(script, i) \in Nat
    <3>1. i \in 1 .. Len(script)
      BY <1>1, EndTypes
    <3> QED BY <3>1, ShownTypes
  <2>7. len = Cardinality(OldLines(ops))
    BY <2>2, <2>5, <2>6
  <2> QED BY <2>3, <2>4, <2>7 DEF Counts
<1>2. CASE i \notin shown
  BY <1>2 DEF InHunk
<1> QED BY <1>1, <1>2

LEMMA AtHidden ==
    ASSUME NEW script, NEW shown, Shows(script, shown), NEW i \in 1 .. Len(script), i \notin shown,
           NEW hunks, InHunk(script, shown, i - 1, hunks)
    PROVE  InHunk(script, shown, i, hunks)
<1>1. hunks \in Seq(Hunks) /\ i \in Nat /\ shown \in SUBSET Nat
  <2>1. shown \in SUBSET (1 .. Len(script)) /\ i \in Nat
    BY ShownTypes
  <2> QED BY <2>1 DEF InHunk
<1>2. (\E j \in shown : j =< i) => hunks # <<>>
  <2>1. \A j \in shown : j =< i => j =< i - 1
    BY <1>1
  <2> QED BY <2>1 DEF InHunk
<1>3. hunks = <<>> \/ Counts(Last(hunks))
  <2>1. i - 1 \in Nat /\ i - 1 + 1 = i
    <3>1. i - 1 \in 0 .. Len(script) /\ Len(script) \in Nat /\ i \in Nat
      BY ShownTypes
    <3> QED BY <3>1
  <2> QED BY <2>1, HunkOver
<1> QED BY <1>1, <1>2, <1>3 DEF InHunk

LEMMA AtShown ==
    ASSUME NEW script, NEW shown, Shows(script, shown), NEW i \in shown, NEW hunks,
           NEW front, NEW start, NEW len, NEW ops, Opened(script, shown, i, hunks, front, start, len, ops),
           NEW o \in AnyOp, o.op = script[i].op
    PROVE  InHunk(script, shown, i, Append(front, HunkOf(start, len, Append(ops, o))))
<1> DEFINE more == Append(ops, o)
           h == HunkOf(start, len, more)
           all == OldUpTo(script, HunkEnd(shown, i))
           before == OldUpTo(script, i - 1)
           now == OldUpTo(script, i)
<1>1. front \in Seq(Hunks) /\ start \in Nat /\ len \in Nat /\ ops \in Seq(AnyOp)
  BY DEF Opened
<1>2. more \in Seq(AnyOp)
  BY <1>1, AppendProperties
<1>3. /\ Cardinality(OldLines(ops)) \in Nat
      /\ Cardinality(OldLines(more)) = Cardinality(OldLines(ops)) + (IF o.op \in OldOps THEN 1 ELSE 0)
  BY <1>1, CountMore
<1>4. before \in Nat /\ now = before + (IF o.op \in OldOps THEN 1 ELSE 0) /\ all \in Nat
  <2>1. i \in 1 .. Len(script) /\ all \in Nat
    BY EndTypes
  <2>2. before \in Nat /\ now = before + (IF script[i].op \in OldOps THEN 1 ELSE 0)
    BY <2>1, ShownTypes
  <2> HIDE DEF all, before, now
  <2> QED BY <2>1, <2>2
<1>5. len + before = Cardinality(OldLines(ops)) + all
  BY DEF Opened
<1> HIDE DEF more, before, now, all
<1> DEFINE held == Cardinality(OldLines(ops))
           moreHeld == Cardinality(OldLines(more))
           one == IF o.op \in OldOps THEN 1 ELSE 0
<1>11. held \in Nat /\ moreHeld = held + one /\ one \in Nat /\ len \in Nat
  BY <1>1, <1>3
<1>12. now = before + one /\ before \in Nat /\ all \in Nat /\ len + before = held + all
  BY <1>4, <1>5
<1> HIDE DEF held, moreHeld, one
<1>13. len + now = moreHeld + all
  BY <1>11, <1>12
<1>6. len + now = Cardinality(OldLines(more)) + all
  BY <1>13 DEF moreHeld
<1>7. h \in Hunks
  BY <1>1, <1>2, HunkTypes
<1> HIDE DEF h
<1>8. Append(front, h) \in Seq(Hunks) /\ Append(front, h) # <<>>
  BY <1>1, <1>7, LastAppend
<1>9. \E f \in Seq(Hunks), s \in Nat, l \in Nat, os \in Seq(AnyOp) :
         /\ Append(front, h) = Append(f, HunkOf(s, l, os))
         /\ l + now = Cardinality(OldLines(os)) + all
  BY <1>1, <1>2, <1>6 DEF h
<1>10. InHunk(script, shown, i, Append(front, h))
  BY <1>8, <1>9 DEF InHunk, now, all
<1> QED BY <1>10 DEF h, more

LEMMA LineKinds ==
    ASSUME NEW o \in Op
    PROVE  /\ Line(o.op, o.text) \in DiffLine
           /\ ~RiskyLine(o) => Line(o.op, o.text) = LineOf(o.op, o.text)
           /\ RiskyLine(o) => \/ o.op = "-" /\ Line(o.op, o.text).kind = "---"
                              \/ Line(o.op, o.text).kind = "+++"
<1>1. o.op \in LineOps /\ o.text \in Texts
  BY ScriptTexts
<1>2. CASE o.op = "-" /\ o.text \in Dashes
  <2>1. Line(o.op, o.text) = OldHeader("name")
    BY <1>2 DEF Line
  <2>2. OldHeader("name") \in DiffLine /\ OldHeader("name").kind = "---"
    BY DEF OldHeader, DiffLine, PathKinds
  <2> QED BY <1>2, <2>1, <2>2 DEF RiskyLine
<1>3. CASE o.op = "+" /\ o.text \in Pluses
  <2>1. Line(o.op, o.text) = NewHeader("name")
    BY <1>3 DEF Line
  <2>2. NewHeader("name") \in DiffLine /\ NewHeader("name").kind = "+++"
    BY DEF NewHeader, DiffLine, PathKinds
  <2> QED BY <1>3, <2>1, <2>2 DEF RiskyLine
<1>4. CASE ~RiskyLine(o)
  <2>1. Line(o.op, o.text) = LineOf(o.op, o.text)
    BY <1>4 DEF Line, LineOf, RiskyLine
  <2>2. LineOf(o.op, o.text) \in DiffLine
    BY <1>1 DEF LineOf, DiffLine
  <2> QED BY <1>4, <2>1, <2>2
<1> QED BY <1>2, <1>3, <1>4 DEF RiskyLine

LEMMA HeaderKind ==
    ASSUME NEW script, NEW shown, Shows(script, shown), NEW i \in shown
    PROVE  Header(script, shown, i) \in DiffLine
<1> DEFINE before == OldUpTo(script, i - 1)
           all == OldUpTo(script, HunkEnd(shown, i))
           len == all - before
           start == IF len = 0 THEN before ELSE before + 1
<1>1. i \in 1 .. Len(script) /\ all \in Nat /\ OldUpTo(script, i) =< all
  BY EndTypes
<1>2. before \in Nat /\ OldUpTo(script, i) \in Nat /\ before =< OldUpTo(script, i)
  <2> DEFINE now == OldUpTo(script, i)
             one == IF script[i].op \in OldOps THEN 1 ELSE 0
  <2>1. i \in 1 .. Len(script)
    BY <1>1
  <2>2. before \in Nat /\ now \in Nat /\ now = before + one
    BY <2>1, ShownTypes, Zenon
  <2>3. one \in Nat
    OBVIOUS
  <2> HIDE DEF before, now, one
  <2>4. before =< now
    BY <2>2, <2>3
  <2> QED BY <2>2, <2>4 DEF now
<1>3. Header(script, shown, i) = HunkHeader(start, len)
  BY DEF Header
<1> HIDE DEF before, all
<1>4. start \in Nat /\ len \in Nat
  BY <1>1, <1>2
<1> HIDE DEF start, len
<1> QED BY <1>3, <1>4 DEF HunkHeader, DiffLine

(* A diff, and what is printed of the line i added to it. *)
Headed(script, shown, i, diff) ==
    IF i - 1 \in shown THEN diff ELSE Append(diff, Header(script, shown, i))

Lined(script, shown, i, diff) ==
    Append(Headed(script, shown, i, diff), Line(script[i].op, script[i].text))

LEMMA PrintedAppends ==
    ASSUME NEW script, NEW shown, Shows(script, shown), NEW i \in 1 .. Len(script), NEW oldNl, NEW newNl,
           NEW diff \in Seq(DiffLine)
    PROVE  /\ Printed(script, shown, i, oldNl, newNl) \in Seq(DiffLine)
           /\ i \notin shown => diff \o Printed(script, shown, i, oldNl, newNl) = diff
           /\ i \in shown =>
                 diff \o Printed(script, shown, i, oldNl, newNl) =
                    IF Unended(script, i, oldNl, newNl)
                    THEN Append(Lined(script, shown, i, diff), NoNewline)
                    ELSE Lined(script, shown, i, diff)
<1> DEFINE h == Header(script, shown, i)
           t == Line(script[i].op, script[i].text)
           e == NoNewline
           none == <<>>
           first == IF i - 1 \in shown THEN none ELSE <<h>>
           last == IF Unended(script, i, oldNl, newNl) THEN <<e>> ELSE none
           printed == Printed(script, shown, i, oldNl, newNl)
<1>1. t \in DiffLine
  <2>1. script \in Scripts
    BY Zenon DEF Shows
  <2>2. script[i] \in Op
    BY <2>1, LineTexts
  <2> QED BY <2>2, LineKinds
<1>2. e \in DiffLine /\ none \in Seq(DiffLine)
  BY DEF DiffLine
<1>3. CASE i \notin shown
  <2>1. printed = <<>>
    BY <1>3 DEF Printed
  <2>2. diff \o <<>> = diff
    BY ConcatEmptySeq
  <2>3. diff \o printed = diff
    BY <2>1, <2>2
  <2>4. printed \in Seq(DiffLine)
    BY <2>1
  <2> HIDE DEF printed
  <2>5. printed \in Seq(DiffLine) /\ diff \o printed = diff
    BY <2>3, <2>4
  <2> QED BY <1>3, <2>5 DEF printed
<1>4. CASE i \in shown
  <2>1. h \in DiffLine
    BY <1>4, HeaderKind
  <2>2. printed = first \o <<t>> \o last
    BY <1>4 DEF Printed, HunkStarts
  <2>3. /\ Headed(script, shown, i, diff) = IF i - 1 \in shown THEN diff ELSE Append(diff, h)
        /\ Lined(script, shown, i, diff) = Append(Headed(script, shown, i, diff), t)
    BY DEF Headed, Lined
  <2> HIDE DEF h, t, e, printed
  <2>4. first \in Seq(DiffLine) /\ <<t>> \in Seq(DiffLine) /\ last \in Seq(DiffLine)
    BY <1>1, <1>2, <2>1
  <2>7. diff \o first = Headed(script, shown, i, diff)
    BY <2>1, <2>3, <1>2, AppendIsConcat, ConcatEmptySeq
  <2>8. Headed(script, shown, i, diff) \in Seq(DiffLine)
    BY <2>1, <2>3, AppendProperties
  <2>9. Headed(script, shown, i, diff) \o <<t>> = Lined(script, shown, i, diff)
    BY <1>1, <2>3, <2>8, AppendIsConcat
  <2>10. Lined(script, shown, i, diff) \in Seq(DiffLine)
    BY <1>1, <2>3, <2>8, AppendProperties
  <2>11. Lined(script, shown, i, diff) \o last =
            IF Unended(script, i, oldNl, newNl) THEN Append(Lined(script, shown, i, diff), e)
            ELSE Lined(script, shown, i, diff)
    BY <1>2, <2>10, AppendIsConcat, ConcatEmptySeq
  <2> DEFINE middle == <<t>>
  <2> HIDE DEF first, last, middle
  <2>5. first \o middle \in Seq(DiffLine) /\ printed \in Seq(DiffLine) /\ middle \in Seq(DiffLine)
    BY <2>2, <2>4, ConcatProperties DEF middle
  <2>6. diff \o printed = ((diff \o first) \o middle) \o last
    <3>1. diff \o ((first \o middle) \o last) = ((diff \o first) \o middle) \o last
      <4>1. first \in Seq(DiffLine)
        BY <2>4
      <4>2. last \in Seq(DiffLine)
        BY <2>4
      <4>3. middle \in Seq(DiffLine)
        BY <2>5
      <4>4. diff \in Seq(DiffLine)
        OBVIOUS
      <4> DEFINE two == first \o middle
                 head == diff \o first
      <4>5. two \in Seq(DiffLine) /\ head \in Seq(DiffLine)
        BY <4>1, <4>3, <4>4, ConcatProperties
      <4>6. head \o middle = diff \o two
        <5>1. Joins(diff, first, middle)
          BY <4>1, <4>3, <4>4, Joined
        <5> QED BY <5>1 DEF Joins
      <4> HIDE DEF two, head
      <4>7. (diff \o two) \o last = diff \o (two \o last)
        <5>1. Joins(diff, two, last)
          BY <4>2, <4>4, <4>5, Joined
        <5> QED BY <5>1 DEF Joins
      <4>8. diff \o (two \o last) = (head \o middle) \o last
        BY <4>6, <4>7
      <4> QED BY <4>8 DEF two, head
    <3> QED BY <2>2, <3>1 DEF middle
  <2>12. diff \o printed = IF Unended(script, i, oldNl, newNl) THEN Append(Lined(script, shown, i, diff), e)
            ELSE Lined(script, shown, i, diff)
    BY <2>6, <2>7, <2>9, <2>11 DEF middle
  <2> QED BY <1>4, <2>5, <2>12 DEF printed, e
<1> QED BY <1>3, <1>4

LEMMA PrintedShown ==
    ASSUME NEW script, NEW shown, Shows(script, shown), NEW i \in shown, NEW oldNl, NEW newNl,
           NEW diff \in Seq(DiffLine)
    PROVE  diff \o Printed(script, shown, i, oldNl, newNl)
              \in {Append(Lined(script, shown, i, diff), NoNewline), Lined(script, shown, i, diff)}
<1>1. i \in 1 .. Len(script)
  BY EndTypes
<1>2. CASE Unended(script, i, oldNl, newNl)
  <2>1. diff \o Printed(script, shown, i, oldNl, newNl) = Append(Lined(script, shown, i, diff), NoNewline)
    BY <1>1, <1>2, PrintedAppends
  <2> QED BY <2>1
<1>3. CASE ~Unended(script, i, oldNl, newNl)
  <2>1. diff \o Printed(script, shown, i, oldNl, newNl) = Lined(script, shown, i, diff)
    BY <1>1, <1>3, PrintedAppends
  <2> QED BY <2>1
<1> QED BY <1>2, <1>3

LEMMA HeadedStands ==
    ASSUME NEW old \in PathKinds, NEW new \in PathKinds, NEW script, NEW shown, Shows(script, shown), NEW i \in shown,
           NEW diff, NEW hunks, Stands(old, new, diff, hunks),
           NEW front, NEW start, NEW len, NEW ops, Opened(script, shown, i, hunks, front, start, len, ops)
    PROVE  Stands(old, new, Headed(script, shown, i, diff), Append(front, HunkOf(start, len, ops)))
<1>1. start \in Nat /\ len \in Nat
  BY DEF Opened
<1>2. CASE i - 1 \in shown
  BY <1>2 DEF Opened, Headed
<1>3. CASE i - 1 \notin shown
  <2>1. /\ hunks = front /\ ops = <<>> /\ (hunks = <<>> \/ Counts(Last(hunks)))
        /\ Header(script, shown, i) = HunkHeader(start, len)
    BY <1>3 DEF Opened
  <2>2. Headed(script, shown, i, diff) = Append(diff, HunkHeader(start, len))
    BY <1>3, <2>1 DEF Headed
  <2>3. Stands(old, new, Append(diff, HunkHeader(start, len)), Append(hunks, HunkOf(start, len, <<>>)))
    BY <1>1, <2>1, StandsHeader
  <2> QED BY <2>1, <2>2, <2>3
<1> QED BY <1>2, <1>3

(* The line of a hunk that a line of the script becomes. *)
Given(script, i, oldNl, newNl) ==
    IF Unended(script, i, oldNl, newNl) THEN CutOp(script[i].op, script[i].text)
    ELSE FullOp(script[i].op, script[i].text)

LEMMA LinePrinted ==
    ASSUME NEW old \in PathKinds, NEW new \in PathKinds, NEW script, NEW shown, Shows(script, shown), NEW i \in shown,
           NEW oldNl, NEW newNl, NEW diff, NEW hunks, Stands(old, new, diff, hunks),
           NEW front, NEW start, NEW len, NEW ops, Opened(script, shown, i, hunks, front, start, len, ops),
           ~RiskyLine(script[i])
    PROVE  Stands(old, new, diff \o Printed(script, shown, i, oldNl, newNl),
                  Append(front, HunkOf(start, len, Append(ops, Given(script, i, oldNl, newNl)))))
<1> DEFINE sign == script[i].op
           text == script[i].text
<1>1. i \in 1 .. Len(script)
  BY EndTypes
<1>2. script[i] \in Op /\ sign \in LineOps /\ text \in Texts
  <2>1. script \in Scripts
    BY Zenon DEF Shows
  <2> QED BY <1>1, <2>1, LineTexts
<1>3. front \in Seq(Hunks) /\ start \in Nat /\ len \in Nat /\ ops \in Seq(AnyOp)
  BY DEF Opened
<1>4. diff \in Seq(DiffLine)
  BY DEF Stands
<1>5. Line(sign, text) = LineOf(sign, text)
  BY <1>2, LineKinds
<1>6. Stands(old, new, Headed(script, shown, i, diff), Append(front, HunkOf(start, len, ops)))
  BY HeadedStands
<1>7. Lined(script, shown, i, diff) = Append(Headed(script, shown, i, diff), LineOf(sign, text))
  BY <1>5 DEF Lined
<1>8. Stands(old, new, Lined(script, shown, i, diff), Append(front, HunkOf(start, len, Append(ops, FullOp(sign, text)))))
  BY <1>2, <1>3, <1>6, <1>7, StandsLine
<1>9. CASE Unended(script, i, oldNl, newNl)
  <2>1. diff \o Printed(script, shown, i, oldNl, newNl) = Append(Lined(script, shown, i, diff), NoNewline)
    BY <1>1, <1>4, <1>9, PrintedAppends
  <2>2. Stands(old, new, Append(Lined(script, shown, i, diff), NoNewline),
               Append(front, HunkOf(start, len, Append(ops, CutOp(sign, text)))))
    BY <1>2, <1>3, <1>8, StandsEnd
  <2> QED BY <1>9, <2>1, <2>2 DEF Given
<1>10. CASE ~Unended(script, i, oldNl, newNl)
  <2>1. diff \o Printed(script, shown, i, oldNl, newNl) = Lined(script, shown, i, diff)
    BY <1>1, <1>4, <1>10, PrintedAppends
  <2> QED BY <1>8, <1>10, <2>1 DEF Given
<1> QED BY <1>9, <1>10

LEMMA RiskRejected ==
    ASSUME NEW old \in PathKinds, NEW new \in PathKinds, NEW script, NEW shown, Shows(script, shown), NEW i \in shown,
           NEW oldNl, NEW newNl, NEW diff, NEW hunks, Stands(old, new, diff, hunks),
           NEW front, NEW start, NEW len, NEW ops, Opened(script, shown, i, hunks, front, start, len, ops),
           RiskyLine(script[i])
    PROVE  Rejects(old, new, diff \o Printed(script, shown, i, oldNl, newNl))
<1> DEFINE t == Line(script[i].op, script[i].text)
           h == HunkOf(start, len, ops)
           before == OldUpTo(script, i - 1)
           all == OldUpTo(script, HunkEnd(shown, i))
<1>1. i \in 1 .. Len(script) /\ all \in Nat /\ OldUpTo(script, i) =< all
  BY EndTypes
<1>2. script[i] \in Op
  <2>1. script \in Scripts
    BY Zenon DEF Shows
  <2> QED BY <1>1, <2>1, LineTexts
<1>3. front \in Seq(Hunks) /\ start \in Nat /\ len \in Nat /\ ops \in Seq(AnyOp)
  BY DEF Opened
<1>4. diff \in Seq(DiffLine)
  BY DEF Stands
<1>5. t \in DiffLine /\ ((script[i].op = "-" /\ t.kind = "---") \/ t.kind = "+++")
  BY <1>2, LineKinds
<1>6. h \in Hunks /\ h.len = len /\ h.ops = ops
  BY <1>3, HunkTypes
<1>7. Last(Append(front, h)) = h
  BY <1>3, <1>6, LastAppend
<1>8. t.kind = "---" => ~Counts(h)
  <2> SUFFICES ASSUME t.kind = "---" PROVE Cardinality(OldLines(ops)) # len
    BY <1>6 DEF Counts
  <2>1. script[i].op \in OldOps
    BY <1>5, Zenon DEF OldOps
  <2>2. before \in Nat /\ OldUpTo(script, i) = before + 1
    BY <1>1, <2>1, ShownTypes
  <2>3. Cardinality(OldLines(ops)) \in Nat
    BY <1>3, CountsTypes
  <2>4. len + before = Cardinality(OldLines(ops)) + all
    BY DEF Opened
  <2> HIDE DEF before, all
  <2> QED BY <1>1, <1>3, <2>2, <2>3, <2>4
<1>9. Stands(old, new, Headed(script, shown, i, diff), Append(front, h))
  BY HeadedStands
<1>10. Lined(script, shown, i, diff) = Append(Headed(script, shown, i, diff), t)
  BY DEF Lined
<1> HIDE DEF t, h
<1>11. Rejects(old, new, Lined(script, shown, i, diff))
  BY <1>5, <1>7, <1>8, <1>9, <1>10, StandsWrong
<1>12. Rejects(old, new, Append(Lined(script, shown, i, diff), NoNewline))
  <2>1. NoNewline \in DiffLine
    BY DEF DiffLine
  <2> QED BY <1>11, <2>1, RejectsMore
<1> QED BY <1>4, <1>11, <1>12, PrintedShown

LEMMA RejectsPrinted ==
    ASSUME NEW old, NEW new, NEW script, NEW shown, Shows(script, shown), NEW i \in 1 .. Len(script),
           NEW oldNl, NEW newNl, NEW diff, Rejects(old, new, diff)
    PROVE  Rejects(old, new, diff \o Printed(script, shown, i, oldNl, newNl))
<1> DEFINE headed == Headed(script, shown, i, diff)
           lined == Lined(script, shown, i, diff)
<1>1. diff \in Seq(DiffLine)
  BY DEF Rejects
<1>2. CASE i \notin shown
  <2>1. diff \o Printed(script, shown, i, oldNl, newNl) = diff
    <3>1. Printed(script, shown, i, oldNl, newNl) = <<>>
      BY <1>2 DEF Printed
    <3> QED BY <1>1, <3>1, ConcatEmptySeq
  <2> QED BY <2>1
<1>3. CASE i \in shown
  <2>1. Header(script, shown, i) \in DiffLine
    BY <1>3, HeaderKind
  <2>2. Line(script[i].op, script[i].text) \in DiffLine
    <3>1. script \in Scripts
      BY Zenon DEF Shows
    <3>2. script[i] \in Op
      BY <3>1, LineTexts
    <3> QED BY <3>2, LineKinds
  <2>3. Rejects(old, new, headed)
    BY <2>1, RejectsMore DEF Headed
  <2>4. Rejects(old, new, lined)
    BY <2>2, <2>3, RejectsMore DEF Lined
  <2>5. Rejects(old, new, Append(lined, NoNewline))
    <3>1. NoNewline \in DiffLine
      BY DEF DiffLine
    <3> HIDE DEF lined
    <3> QED BY <2>4, <3>1, RejectsMore
  <2> QED BY <1>1, <1>3, <2>4, <2>5, PrintedShown
<1> QED BY <1>2, <1>3

-----------------------------------------------------------------------------
(* A hunk without old lines is at the beginning of the file.               *)
Anchored(script, shown) ==
    \A i \in HunkStarts(shown) :
        (\E j \in i .. HunkEnd(shown, i) : script[j].op # "+") \/ Side(SubSeq(script, 1, i - 1), OldOps) = <<>>

(* What has been built of the hunks when i lines of the script are printed *)
(* is the new version of these lines, but for the old ones that follow the *)
(* last hunk.                                                              *)
EndsRight(script, shown, newNl, i, nl) ==
    /\ newNl => nl
    /\ ~newNl /\ (\E j \in shown : j =< i /\ IsLast(script, j, NewOps)) => ~nl

Halfway(script, shown, newNl, i, hunks) ==
    \E s \in Within(Side(script, OldOps)) :
        /\ Building(Side(script, OldOps), hunks, s) /\ s.ok
        /\ s.cursor =< OldUpTo(script, i) /\ (i \in shown => s.cursor = OldUpTo(script, i))
        /\ s.lines \o SubSeq(Side(script, OldOps), s.cursor + 1, OldUpTo(script, i))
              = Side(SubSeq(script, 1, i), NewOps)
        /\ EndsRight(script, shown, newNl, i, s.nl)

Ready(script, shown, newNl, i, hunks, s) ==
    /\ s \in Within(Side(script, OldOps))
    /\ Building(Side(script, OldOps), hunks, s) /\ s.ok
    /\ s.cursor = OldUpTo(script, i)
    /\ s.lines = Side(SubSeq(script, 1, i), NewOps)
    /\ EndsRight(script, shown, newNl, i, s.nl)

LEMMA SideTypes ==
    ASSUME NEW script, NEW shown, Shows(script, shown), NEW i \in 1 .. Len(script)
    PROVE  /\ Side(script, OldOps) \in Seq(Texts) /\ Len(Side(script, OldOps)) \in Nat
           /\ Side(SubSeq(script, 1, i - 1), NewOps) \in Seq(Texts)
           /\ Side(SubSeq(script, 1, i), NewOps) =
                 IF script[i].op \in NewOps THEN Append(Side(SubSeq(script, 1, i - 1), NewOps), script[i].text)
                 ELSE Side(SubSeq(script, 1, i - 1), NewOps)
           /\ OldUpTo(script, i) =< Len(Side(script, OldOps))
           /\ script[i].op \in OldOps =>
                 Side(script, OldOps)[OldUpTo(script, i - 1) + 1] = script[i].text
<1>1. script \in Scripts
  BY Zenon DEF Shows
<1>2. Side(script, OldOps) \in Seq(Texts)
  BY <1>1, WholeSide
<1>3. Len(Side(script, OldOps)) \in Nat
  BY <1>2
<1>4. /\ Side(SubSeq(script, 1, i - 1), NewOps) \in Seq(Texts)
      /\ Side(SubSeq(script, 1, i), NewOps) =
            IF script[i].op \in NewOps THEN Append(Side(SubSeq(script, 1, i - 1), NewOps), script[i].text)
            ELSE Side(SubSeq(script, 1, i - 1), NewOps)
  BY <1>1, NextSide
<1>5. /\ OldUpTo(script, i) =< Len(Side(script, OldOps))
      /\ script[i].op \in OldOps =>
            Side(script, OldOps)[OldUpTo(script, i - 1) + 1] = script[i].text
  BY <1>1, OldLineThere
<1> QED BY <1>2, <1>3, <1>4, <1>5

LEMMA WithinTypes ==
    ASSUME NEW lines \in Seq(Texts), NEW s \in Within(lines)
    PROVE  s \in States /\ s.lines \in Seq(Texts) /\ s.cursor \in Nat /\ s.nl \in BOOLEAN
           /\ (s.ok => s.cursor =< Len(lines))
BY DEF Within, States

LEMMA BuildingWithin ==
    ASSUME NEW lines \in Seq(Texts), NEW hunks \in Seq(Hunks), NEW s, Building(lines, hunks, s)
    PROVE  s \in Within(lines)
<1>1. PICK run : Builds(lines, hunks, run) /\ s = run[Len(hunks)]
  BY DEF Building
<1>2. Len(hunks) \in 0 .. Len(hunks)
  OBVIOUS
<1> QED BY <1>1, <1>2 DEF Builds

LEMMA NoneBetween ==
    ASSUME NEW front \in Seq(Texts), NEW lines \in Seq(Texts), NEW c \in 0 .. Len(lines)
    PROVE  front \o SubSeq(lines, c + 1, c) = front
<1>1. SubSeq(lines, c + 1, c) = <<>>
  BY SubSeqEmpty
<1> QED BY <1>1, ConcatEmptySeq

LEMMA OneLineMore ==
    ASSUME NEW lines \in Seq(Texts), NEW c \in Nat, NEW m \in Nat, c =< m, m + 1 =< Len(lines)
    PROVE  SubSeq(lines, c + 1, m + 1) = Append(SubSeq(lines, c + 1, m), lines[m + 1])
<1>1. c + 1 \in 1 .. Len(lines) /\ m + 1 \in c + 1 .. Len(lines) /\ m + 1 - 1 = m
  OBVIOUS
<1>2. SubSeq(lines, c + 1, m + 1) = SubSeq(lines, c + 1, m) \o <<lines[m + 1]>>
  BY <1>1, SubSeqRecursiveSecond
<1>3. SubSeq(lines, c + 1, m) \in Seq(Texts) /\ lines[m + 1] \in Texts
  BY <1>1, SubSeqProperties
<1> QED BY <1>2, <1>3, AppendIsConcat

LEMMA HalfwayNone ==
    ASSUME NEW script, NEW shown, Shows(script, shown), NEW newNl
    PROVE  Halfway(script, shown, newNl, 0, <<>>)
<1> DEFINE lines == Side(script, OldOps)
           s == Untouched
           none == <<>>
<1>1. script \in Scripts /\ shown \in SUBSET (1 .. Len(script)) /\ Len(script) \in Nat
  <2>1. script \in Scripts /\ shown \in SUBSET (1 .. Len(script))
    BY Zenon DEF Shows
  <2>2. Len(script) \in Nat
    BY <2>1 DEF Scripts
  <2> QED BY <2>1, <2>2
<1>2. lines \in Seq(Texts)
  BY <1>1, WholeSide
<1>3. Building(lines, <<>>, s)
  BY <1>2, BuildingNone
<1>4. s \in Within(lines)
  BY <1>2 DEF Untouched, States, Within
<1>5. Side(SubSeq(script, 1, 0), OldOps) = <<>> /\ Side(SubSeq(script, 1, 0), NewOps) = <<>>
  BY <1>1, WholeSide
<1>6. OldUpTo(script, 0) = 0
  BY <1>5 DEF OldUpTo
<1>7. s.ok /\ s.cursor = 0 /\ s.lines = <<>> /\ s.nl
  BY DEF Untouched
<1>8. s.lines \o SubSeq(lines, s.cursor + 1, 0) = <<>>
  <2>1. s.lines \in Seq(Texts) /\ 0 \in 0 .. Len(lines)
    BY <1>2, <1>7
  <2> HIDE DEF s, lines
  <2> QED BY <1>2, <1>7, <2>1, NoneBetween
<1>9. EndsRight(script, shown, newNl, 0, s.nl) /\ 0 \notin shown
  BY <1>1, <1>7 DEF EndsRight
<1> HIDE DEF s, lines
<1>10. /\ s.cursor =< OldUpTo(script, 0) /\ (0 \in shown => s.cursor = OldUpTo(script, 0))
       /\ s.lines \o SubSeq(lines, s.cursor + 1, OldUpTo(script, 0)) = Side(SubSeq(script, 1, 0), NewOps)
  <2> DEFINE p == OldUpTo(script, 0)
  <2>1. p = 0
    BY <1>6
  <2> HIDE DEF p
  <2>2. s.cursor =< p /\ (0 \in shown => s.cursor = p)
    BY <1>7, <2>1
  <2>3. s.lines \o SubSeq(lines, s.cursor + 1, p) = Side(SubSeq(script, 1, 0), NewOps)
    BY <1>5, <1>8, <2>1, Zenon
  <2> QED BY <2>2, <2>3 DEF p
<1>11. \E r \in Within(lines) :
          /\ Building(lines, none, r) /\ r.ok
          /\ r.cursor =< OldUpTo(script, 0) /\ (0 \in shown => r.cursor = OldUpTo(script, 0))
          /\ r.lines \o SubSeq(lines, r.cursor + 1, OldUpTo(script, 0)) = Side(SubSeq(script, 1, 0), NewOps)
          /\ EndsRight(script, shown, newNl, 0, r.nl)
  BY <1>3, <1>4, <1>7, <1>9, <1>10
<1> HIDE DEF none
<1>12. Halfway(script, shown, newNl, 0, none)
  BY <1>11 DEF Halfway, lines
<1> QED BY <1>12 DEF none

LEMMA HalfwayHidden ==
    ASSUME NEW script, NEW shown, Shows(script, shown), NEW i \in 1 .. Len(script), i \notin shown,
           NEW newNl, NEW hunks, Halfway(script, shown, newNl, i - 1, hunks)
    PROVE  Halfway(script, shown, newNl, i, hunks)
<1> DEFINE lines == Side(script, OldOps)
           before == OldUpTo(script, i - 1)
           now == OldUpTo(script, i)
           text == script[i].text
           new == Side(SubSeq(script, 1, i - 1), NewOps)
<1>1. PICK s \in Within(lines) :
        /\ Building(lines, hunks, s) /\ s.ok /\ s.cursor =< before
        /\ s.lines \o SubSeq(lines, s.cursor + 1, before) = new
        /\ EndsRight(script, shown, newNl, i - 1, s.nl)
  BY DEF Halfway
<1>2. script[i].op = " " /\ shown \in SUBSET (1 .. Len(script)) /\ Len(script) \in Nat
  BY ShownTypes, Zenon DEF Shows
<1>3. before \in Nat /\ now = before + 1
  BY <1>2, ShownTypes, Zenon DEF OldOps
<1>4. /\ lines \in Seq(Texts) /\ now =< Len(lines) /\ lines[before + 1] = text
      /\ Side(SubSeq(script, 1, i), NewOps) = Append(new, text)
  BY <1>2, SideTypes, Zenon DEF OldOps, NewOps
<1>5. s.lines \in Seq(Texts) /\ s.cursor \in Nat
  BY <1>4, WithinTypes
<1>6. text \in Texts
  BY ShownTypes
<1>7. EndsRight(script, shown, newNl, i, s.nl)
  <2>1. ASSUME NEW j \in shown, j =< i PROVE j =< i - 1
    <3>1. j # i
      OBVIOUS
    <3>2. j \in 1 .. Len(script)
      BY <1>2, Zenon
    <3>3. Len(script) \in Nat
      BY <1>2, Zenon
    <3>4. j \in Nat /\ i \in Nat
      BY <3>2, <3>3
    <3> QED BY <2>1, <3>1, <3>4
  <2> QED BY <1>1, <2>1 DEF EndsRight
<1> HIDE DEF before, now, lines, text, new
<1>8. SubSeq(lines, s.cursor + 1, now) = Append(SubSeq(lines, s.cursor + 1, before), text)
  <2>1. s.cursor =< before /\ before + 1 =< Len(lines)
    BY <1>1, <1>3, <1>4
  <2>2. SubSeq(lines, s.cursor + 1, before + 1) = Append(SubSeq(lines, s.cursor + 1, before), lines[before + 1])
    BY <1>3, <1>4, <1>5, <2>1, OneLineMore
  <2> QED BY <1>3, <1>4, <2>2
<1>9. s.lines \o SubSeq(lines, s.cursor + 1, now) = Append(new, text)
  <2>1. SubSeq(lines, s.cursor + 1, before) \in Seq(Texts)
    BY <1>3, <1>4, <1>5, SubSeqProperties
  <2>2. Append(s.lines \o SubSeq(lines, s.cursor + 1, before), text)
           = s.lines \o Append(SubSeq(lines, s.cursor + 1, before), text)
    BY <1>5, <1>6, <2>1, AppendConcat
  <2> QED BY <1>1, <1>8, <2>2
<1>10. s.cursor =< now
  BY <1>1, <1>3, <1>5
<1>11. \E r \in Within(lines) :
         /\ Building(lines, hunks, r) /\ r.ok /\ r.cursor =< now /\ (i \in shown => r.cursor = now)
         /\ r.lines \o SubSeq(lines, r.cursor + 1, now) = Append(new, text)
         /\ EndsRight(script, shown, newNl, i, r.nl)
  BY <1>1, <1>7, <1>9, <1>10
<1> QED BY <1>4, <1>11 DEF Halfway, lines, now

LEMMA HunkPlaced ==
    ASSUME NEW script, NEW shown, Shows(script, shown), Anchored(script, shown),
           NEW i \in shown, i - 1 \notin shown, NEW hunks,
           NEW front, NEW start, NEW len, NEW ops, Opened(script, shown, i, hunks, front, start, len, ops)
    PROVE  OldUpTo(script, i - 1) = IF start = 0 THEN 0 ELSE start - 1
<1> DEFINE before == OldUpTo(script, i - 1)
           end == HunkEnd(shown, i)
           all == OldUpTo(script, end)
<1>1. i \in 1 .. Len(script) /\ end \in i .. Len(script) /\ all \in Nat
  BY EndTypes
<1>2. before \in Nat /\ script \in Scripts /\ Len(script) \in Nat /\ i \in Nat
  BY <1>1, ShownTypes
<1>3. start = (IF len = 0 THEN before ELSE before + 1) /\ len \in Nat
  BY DEF Opened
<1>4. len + before = Cardinality(OldLines(ops)) + all
  BY DEF Opened
<1>5. len + before = all
  <2>1. Cardinality(OldLines(ops)) = 0
    <3>1. ops = <<>>
      BY DEF Opened
    <3> QED BY <3>1, CountNone
  <2> HIDE DEF before, all
  <2> QED BY <1>1, <1>4, <2>1
<1>6. CASE Side(SubSeq(script, 1, i - 1), OldOps) = <<>>
  <2>1. before = 0
    BY <1>6 DEF OldUpTo
  <2> HIDE DEF before
  <2>2. before = IF start = 0 THEN 0 ELSE start - 1
    BY <1>3, <2>1
  <2> QED BY <2>2 DEF before
<1>7. CASE \E j \in i .. end : script[j].op # "+"
  <2>1. PICK j \in i .. end : script[j].op # "+"
    BY <1>7
  <2>2. j \in 1 .. Len(script) /\ j - 1 \in 0 .. Len(script) /\ i - 1 \in 0 .. j - 1 /\ j \in 0 .. end /\ end \in 0 .. Len(script)
    BY <1>1, <1>2
  <2>3. script[j].op \in OldOps
    <3>1. script[j].op \in LineOps
      BY <1>2, <2>2, LineTexts
    <3> QED BY <2>1, <3>1, Zenon DEF LineOps, OldOps
  <2>4. OldUpTo(script, j - 1) \in Nat /\ OldUpTo(script, j) = OldUpTo(script, j - 1) + 1
    BY <1>2, <2>2, <2>3, OldStep
  <2>5. before =< OldUpTo(script, j - 1)
    BY <1>2, <2>2, OldRises
  <2>6. OldUpTo(script, j) =< all
    BY <1>2, <2>2, OldRises
  <2> HIDE DEF before, all
  <2>7. before = IF start = 0 THEN 0 ELSE start - 1
    BY <1>1, <1>2, <1>3, <1>5, <2>4, <2>5, <2>6
  <2> QED BY <2>7 DEF before
<1> QED BY <1>6, <1>7 DEF Anchored, HunkStarts

(* The state of build_new before a shown line, its hunk begun.             *)
LEMMA HunkReady ==
    ASSUME NEW script, NEW shown, Shows(script, shown), Anchored(script, shown), NEW i \in shown,
           NEW newNl, NEW hunks, Halfway(script, shown, newNl, i - 1, hunks),
           NEW front, NEW start, NEW len, NEW ops, Opened(script, shown, i, hunks, front, start, len, ops)
    PROVE  \E s : Ready(script, shown, newNl, i - 1, Append(front, HunkOf(start, len, ops)), s)
<1> DEFINE lines == Side(script, OldOps)
           p == OldUpTo(script, i - 1)
           new == Side(SubSeq(script, 1, i - 1), NewOps)
           h == HunkOf(start, len, ops)
<1>1. PICK s \in Within(lines) :
        /\ Building(lines, hunks, s) /\ s.ok
        /\ s.cursor =< p /\ (i - 1 \in shown => s.cursor = p)
        /\ s.lines \o SubSeq(lines, s.cursor + 1, p) = new
        /\ EndsRight(script, shown, newNl, i - 1, s.nl)
  BY DEF Halfway
<1>2. i \in 1 .. Len(script)
  BY EndTypes
<1>3. p \in Nat /\ OldUpTo(script, i) \in Nat /\ p =< OldUpTo(script, i)
  BY <1>2, ShownTypes
<1>4. lines \in Seq(Texts) /\ OldUpTo(script, i) =< Len(lines) /\ Len(lines) \in Nat
  BY <1>2, SideTypes
<1>5. s.lines \in Seq(Texts) /\ s.cursor \in Nat /\ p =< Len(lines)
  <2>1. s.lines \in Seq(Texts) /\ s.cursor \in Nat
    BY <1>4, WithinTypes
  <2> HIDE DEF p, lines
  <2> QED BY <1>3, <1>4, <2>1
<1>6. front \in Seq(Hunks) /\ start \in Nat /\ len \in Nat /\ ops \in Seq(AnyOp)
  BY DEF Opened
<1>7. h \in Hunks
  BY <1>6, HunkTypes
<1>8. CASE i - 1 \in shown
  <2>1. hunks = Append(front, h)
    BY <1>8 DEF Opened
  <2>2. s.cursor = p
    BY <1>1, <1>8
  <2>3. s.lines = new
    <3>1. p \in 0 .. Len(lines)
      <4> HIDE DEF p, lines
      <4> QED BY <1>3, <1>4, <1>5
    <3>2. s.lines \o SubSeq(lines, p + 1, p) = s.lines
      <4> HIDE DEF p, lines
      <4> QED BY <1>4, <1>5, <3>1, NoneBetween
    <3> HIDE DEF p, lines, new
    <3> QED BY <1>1, <2>2, <3>2
  <2>4. Ready(script, shown, newNl, i - 1, Append(front, h), s)
    <3> HIDE DEF h
    <3> QED BY <1>1, <2>1, <2>2, <2>3 DEF Ready
  <2> QED BY <2>4
<1>9. CASE i - 1 \notin shown
  <2> DEFINE g == HunkOf(start, len, ops)
             r == BegunAt(lines, s, p)
  <2>1. hunks = front /\ ops = <<>>
    BY <1>9 DEF Opened
  <2>0. Blank(ops)
    BY <2>1 DEF Blank
  <2>2. p = IF start = 0 THEN 0 ELSE start - 1
    BY <1>9, HunkPlaced
  <2>3. p \in s.cursor .. Len(lines)
    <3> HIDE DEF p, lines
    <3> QED BY <1>1, <1>3, <1>4, <1>5
  <2>4. ApplyHunk(lines, s, g) = r
    <3> HIDE DEF p, lines
    <3>1. lines \in Seq(Texts)
      BY <1>4
    <3>2. s \in Within(lines) /\ s.ok
      BY <1>1
    <3>3. start \in Nat /\ len \in Nat
      BY <1>6
    <3> QED BY <2>0, <2>2, <2>3, <3>1, <3>2, <3>3, HunkBegunAt
  <2>5. g \in Hunks /\ g = h
    BY <1>7
  <2> HIDE DEF g
  <2>6. Building(lines, Append(hunks, g), r)
    <3>1. hunks \in Seq(Hunks)
      BY <1>6, <2>1
    <3>2. Building(lines, Append(hunks, g), ApplyHunk(lines, s, g))
      <4> HIDE DEF lines, r
      <4> QED BY <1>1, <1>4, <2>5, <3>1, BuildingMore
    <3> QED BY <2>4, <3>2
  <2>7. r.ok /\ r.nl = s.nl /\ r.cursor = p /\ r.lines = new
    BY <1>1 DEF BegunAt
  <2>8. r \in Within(lines)
    <3>1. Append(hunks, g) \in Seq(Hunks)
      BY <1>6, <2>1, <2>5, LastAppend
    <3> HIDE DEF lines, r
    <3> QED BY <1>4, <2>6, <3>1, BuildingWithin
  <2>9. Append(hunks, g) = Append(front, h)
    BY <2>1, <2>5
  <2> HIDE DEF r, h
  <2>10. Ready(script, shown, newNl, i - 1, Append(front, h), r)
    BY <1>1, <2>6, <2>7, <2>8, <2>9 DEF Ready
  <2> QED BY <2>10 DEF h
<1> QED BY <1>8, <1>9

LEMMA GivenTypes ==
    ASSUME NEW script \in Scripts, NEW i \in 1 .. Len(script), NEW oldNl, NEW newNl,
           Consistent(script, oldNl, newNl)
    PROVE  /\ Given(script, i, oldNl, newNl) \in AnyOp
           /\ Given(script, i, oldNl, newNl).op = script[i].op
           /\ Given(script, i, oldNl, newNl).text = script[i].text
           /\ script[i].op \in NewOps =>
                 (Given(script, i, oldNl, newNl).nl <=> ~(IsLast(script, i, NewOps) /\ ~newNl))
<1> DEFINE o == Given(script, i, oldNl, newNl)
           sign == script[i].op
           text == script[i].text
           none == <<>>
<1>1. sign \in LineOps /\ text \in Texts
  BY LineTexts
<1>2. none \in Seq(AnyOp) /\ o \in {FullOp(sign, text), CutOp(sign, text)}
  BY DEF Given
<1>3. o \in AnyOp /\ o.op = sign /\ o.text = text
  <2> HIDE DEF o, none, sign, text
  <2> QED BY <1>1, <1>2, OpTypes
<1>4. o.nl <=> ~Unended(script, i, oldNl, newNl)
  BY DEF Given, FullOp, CutOp
<1>5. sign \in NewOps => (Unended(script, i, oldNl, newNl) <=> IsLast(script, i, NewOps) /\ ~newNl)
  <2>1. CASE sign = " "
    <3>1. (IsLast(script, i, OldOps) /\ ~oldNl) <=> (IsLast(script, i, NewOps) /\ ~newNl)
      <4>1. i \in DOMAIN script
        BY DEF Scripts
      <4> QED BY <2>1, <4>1, Zenon DEF Consistent
    <3> QED BY <3>1 DEF Unended
  <2>2. CASE sign # " "
    <3>1. sign \in NewOps => ~IsLast(script, i, OldOps)
      BY <2>2, Zenon DEF NewOps, OldOps, IsLast
    <3> QED BY <3>1 DEF Unended
  <2> QED BY <2>1, <2>2, Zenon
<1> HIDE DEF o
<1>6. sign \in NewOps => (o.nl <=> ~(IsLast(script, i, NewOps) /\ ~newNl))
  BY <1>4, <1>5
<1> QED BY <1>3, <1>6 DEF o

LEMMA EndsRightMore ==
    ASSUME NEW script, NEW shown, Shows(script, shown), NEW i \in 1 .. Len(script), NEW newNl, NEW before, NEW now,
           EndsRight(script, shown, newNl, i - 1, before),
           script[i].op \in NewOps => (now <=> ~(IsLast(script, i, NewOps) /\ ~newNl)),
           script[i].op \notin NewOps => now = before
    PROVE  EndsRight(script, shown, newNl, i, now)
<1>1. i \in Nat /\ shown \in SUBSET (1 .. Len(script))
  BY ShownTypes
<1>2. Len(script) \in Nat
  BY ShownTypes
<1>3. newNl => now
  BY DEF EndsRight
<1>4. ASSUME ~newNl, NEW j \in shown, j =< i, IsLast(script, j, NewOps), now PROVE FALSE
  <2>1. j \in 1 .. Len(script)
    BY <1>1
  <2>2. j \in Nat /\ i \in Nat
    BY <1>1, <1>2, <2>1
  <2>3. CASE j = i
    <3>1. IsLast(script, i, NewOps)
      BY <1>4, <2>3
    <3>2. script[i].op \in NewOps
      BY <3>1 DEF IsLast
    <3> QED BY <1>4, <3>1, <3>2
  <2>4. CASE j # i
    <3>1. j =< i - 1 /\ i \in j + 1 .. Len(script)
      BY <1>2, <1>4, <2>2, <2>4
    <3>2. script[i].op \notin NewOps
      BY <1>4, <3>1 DEF IsLast
    <3>3. ~before
      BY <1>4, <3>1 DEF EndsRight
    <3> QED BY <1>4, <3>2, <3>3
  <2> QED BY <2>3, <2>4
<1> QED BY <1>3, <1>4 DEF EndsRight

LEMMA OpStep ==
    ASSUME NEW lines \in Seq(Texts), NEW s \in Within(lines), s.ok, NEW o \in AnyOp,
           o.op \in OldOps => s.cursor < Len(lines) /\ lines[s.cursor + 1] = o.text
    PROVE  LET r == ApplyOp(lines, s, o)
           IN  /\ r.ok
               /\ r.lines = IF o.op \in NewOps THEN Append(s.lines, o.text) ELSE s.lines
               /\ r.nl = IF o.op \in NewOps THEN o.nl ELSE s.nl
               /\ r.cursor = s.cursor + (IF o.op \in OldOps THEN 1 ELSE 0)
<1>1. s.cursor \in Nat /\ Len(lines) \in Nat
  BY WithinTypes
<1>2. ~(o.op \in OldOps /\ Differs(o, s.cursor, lines))
  BY <1>1 DEF Differs
<1>3. ApplyOp(lines, s, o) =
         [ok     |-> TRUE,
          lines  |-> IF o.op \in NewOps THEN Append(s.lines, o.text) ELSE s.lines,
          nl     |-> IF o.op \in NewOps THEN o.nl ELSE s.nl,
          cursor |-> IF o.op \in OldOps THEN s.cursor + 1 ELSE s.cursor]
  BY <1>2 DEF ApplyOp, EndsIn
<1> QED BY <1>1, <1>3

LEMMA HalfwayShown ==
    ASSUME NEW script, NEW shown, Shows(script, shown), NEW i \in shown,
           NEW oldNl, NEW newNl, Consistent(script, oldNl, newNl),
           NEW front \in Seq(Hunks), NEW start \in Nat, NEW len \in Nat, NEW ops \in Seq(AnyOp), NEW s,
           Ready(script, shown, newNl, i - 1, Append(front, HunkOf(start, len, ops)), s)
    PROVE  Halfway(script, shown, newNl, i,
                   Append(front, HunkOf(start, len, Append(ops, Given(script, i, oldNl, newNl)))))
<1> DEFINE lines == Side(script, OldOps)
           o == Given(script, i, oldNl, newNl)
           r == ApplyOp(lines, s, o)
           more == Append(front, HunkOf(start, len, Append(ops, o)))
           before == OldUpTo(script, i - 1)
           now == OldUpTo(script, i)
           new == Side(SubSeq(script, 1, i - 1), NewOps)
<1>1. i \in 1 .. Len(script)
  BY EndTypes
<1>2. script \in Scripts
  BY Zenon DEF Shows
<1>3. /\ o \in AnyOp /\ o.op = script[i].op /\ o.text = script[i].text
      /\ script[i].op \in NewOps => (o.nl <=> ~(IsLast(script, i, NewOps) /\ ~newNl))
  BY <1>1, <1>2, GivenTypes
<1>4. /\ lines \in Seq(Texts) /\ Len(lines) \in Nat /\ now =< Len(lines)
      /\ Side(SubSeq(script, 1, i), NewOps) = IF script[i].op \in NewOps THEN Append(new, script[i].text) ELSE new
      /\ script[i].op \in OldOps => lines[before + 1] = script[i].text
  BY <1>1, SideTypes
<1>5. before \in Nat /\ now = before + (IF script[i].op \in OldOps THEN 1 ELSE 0)
  BY <1>1, ShownTypes
<1>6. /\ s \in Within(lines) /\ Building(lines, Append(front, HunkOf(start, len, ops)), s) /\ s.ok
      /\ s.cursor = before /\ s.lines = new /\ EndsRight(script, shown, newNl, i - 1, s.nl)
  BY DEF Ready
<1> HIDE DEF o, lines, before, now, new
<1>7. o.op \in OldOps => s.cursor < Len(lines) /\ lines[s.cursor + 1] = o.text
  BY <1>3, <1>4, <1>5, <1>6
<1>8. /\ r.ok
      /\ r.lines = IF o.op \in NewOps THEN Append(s.lines, o.text) ELSE s.lines
      /\ r.nl = IF o.op \in NewOps THEN o.nl ELSE s.nl
      /\ r.cursor = s.cursor + (IF o.op \in OldOps THEN 1 ELSE 0)
  BY <1>3, <1>4, <1>6, <1>7, OpStep
<1>9. Building(lines, more, r)
  BY <1>3, <1>4, <1>6, BuildingOp
<1>10. more \in Seq(Hunks)
  <2>1. Append(ops, o) \in Seq(AnyOp)
    BY <1>3, AppendProperties
  <2>2. HunkOf(start, len, Append(ops, o)) \in Hunks
    BY <2>1, HunkTypes
  <2> QED BY <2>2, LastAppend
<1> HIDE DEF r, more
<1>11. r \in Within(lines)
  BY <1>4, <1>9, <1>10, BuildingWithin
<1>12. r.cursor = now
  BY <1>3, <1>5, <1>6, <1>8
<1>13. r.lines = Side(SubSeq(script, 1, i), NewOps)
  BY <1>3, <1>4, <1>6, <1>8
<1>14. EndsRight(script, shown, newNl, i, r.nl)
  <2>1. script[i].op \in NewOps => (r.nl <=> ~(IsLast(script, i, NewOps) /\ ~newNl))
    BY <1>3, <1>8
  <2>2. script[i].op \notin NewOps => r.nl = s.nl
    BY <1>3, <1>8
  <2> QED BY <1>1, <1>6, <2>1, <2>2, EndsRightMore
<1>15. r.lines \o SubSeq(lines, r.cursor + 1, now) = Side(SubSeq(script, 1, i), NewOps)
  <2>1. r.lines \in Seq(Texts)
    BY <1>4, <1>11, WithinTypes
  <2>2. now \in 0 .. Len(lines)
    BY <1>4, <1>5
  <2>3. r.lines \o SubSeq(lines, now + 1, now) = r.lines
    BY <1>4, <2>1, <2>2, NoneBetween
  <2> QED BY <1>12, <1>13, <2>3
<1>16. r.cursor =< now
  BY <1>5, <1>12
<1>17. \E u \in Within(lines) :
        /\ Building(lines, more, u) /\ u.ok
        /\ u.cursor =< now /\ (i \in shown => u.cursor = now)
        /\ u.lines \o SubSeq(lines, u.cursor + 1, now) = Side(SubSeq(script, 1, i), NewOps)
        /\ EndsRight(script, shown, newNl, i, u.nl)
  BY <1>8, <1>9, <1>11, <1>12, <1>14, <1>15, <1>16
<1> QED BY <1>17 DEF Halfway, lines, now, more, o

StandsAt(old, new, script, shown, oldNl, newNl, i, diff, hunks) ==
    /\ Stands(old, new, diff, hunks) /\ InHunk(script, shown, i, hunks)
    /\ Anchored(script, shown) /\ Consistent(script, oldNl, newNl) =>
          Halfway(script, shown, newNl, i, hunks)

-----------------------------------------------------------------------------
(* Either a line that reads as a header has been printed and the diff is   *)
(* refused, or its hunks stand and have been applied as far as they go.    *)
Placed(old, new, script, shown, oldNl, newNl, i, diff) ==
    \/ Rejects(old, new, diff) /\ \E j \in 1 .. i : RiskyLine(script[j])
    \/ \E hunks : StandsAt(old, new, script, shown, oldNl, newNl, i, diff, hunks)

LEMMA PlacedFirst ==
    ASSUME NEW old \in PathKinds, NEW new \in PathKinds,
           ~Unpatchable(old, new),
           NEW script, NEW shown, Shows(script, shown), NEW oldNl, NEW newNl
    PROVE  Placed(old, new, script, shown, oldNl, newNl, 0, <<OldHeader(old), NewHeader(new)>>)
<1> DEFINE diff == <<OldHeader(old), NewHeader(new)>>
           none == <<>>
<1>1. Stands(old, new, diff, none)
  BY StandsFirst
<1>2. shown \in SUBSET (1 .. Len(script)) /\ none \in Seq(Hunks)
  <2>1. shown \in SUBSET (1 .. Len(script))
    BY Zenon DEF Shows
  <2>2. none \in Seq(Hunks)
    OBVIOUS
  <2> QED BY <2>1, <2>2
<1>3. Halfway(script, shown, newNl, 0, none)
  BY HalfwayNone
<1>4. none = <<>> /\ ~(\E j \in shown : j =< 0) /\ 0 \notin shown
  BY <1>2
<1> HIDE DEF none, diff
<1>5. InHunk(script, shown, 0, none)
  BY <1>2, <1>4 DEF InHunk
<1>6. Placed(old, new, script, shown, oldNl, newNl, 0, diff)
  BY <1>1, <1>3, <1>5 DEF Placed, StandsAt
<1> QED BY <1>6 DEF diff

LEMMA GivenOp ==
    ASSUME NEW script \in Scripts, NEW i \in 1 .. Len(script), NEW oldNl, NEW newNl
    PROVE  Given(script, i, oldNl, newNl) \in AnyOp /\ Given(script, i, oldNl, newNl).op = script[i].op
<1> DEFINE o == Given(script, i, oldNl, newNl)
           sign == script[i].op
           text == script[i].text
           none == <<>>
<1>1. sign \in LineOps /\ text \in Texts
  BY LineTexts
<1>2. none \in Seq(AnyOp) /\ o \in {FullOp(sign, text), CutOp(sign, text)}
  BY DEF Given
<1>3. o \in AnyOp /\ o.op = sign
  <2> HIDE DEF o, none, sign, text
  <2> QED BY <1>1, <1>2, OpTypes
<1> QED BY <1>3

LEMMA PlacedStep ==
    ASSUME NEW old \in PathKinds, NEW new \in PathKinds,
           NEW script, NEW shown, Shows(script, shown), NEW oldNl, NEW newNl,
           NEW i \in 1 .. Len(script), NEW diff, Placed(old, new, script, shown, oldNl, newNl, i - 1, diff)
    PROVE  Placed(old, new, script, shown, oldNl, newNl, i, diff \o Printed(script, shown, i, oldNl, newNl))
<1> DEFINE next == diff \o Printed(script, shown, i, oldNl, newNl)
           o == Given(script, i, oldNl, newNl)
<1>1. script \in Scripts /\ i \in Nat
  BY ShownTypes
<1>2. i \in 1 .. i
  BY <1>1
<1>3. CASE Rejects(old, new, diff) /\ \E j \in 1 .. i - 1 : RiskyLine(script[j])
  <2>1. Rejects(old, new, next)
    BY <1>3, RejectsPrinted
  <2>2. \E j \in 1 .. i : RiskyLine(script[j])
    <3>1. PICK j \in 1 .. i - 1 : RiskyLine(script[j])
      BY <1>3
    <3>2. j \in 1 .. i
      BY <1>1
    <3> QED BY <3>1, <3>2
  <2> QED BY <2>1, <2>2 DEF Placed
<1>4. ASSUME NEW hunks, StandsAt(old, new, script, shown, oldNl, newNl, i - 1, diff, hunks)
      PROVE  Placed(old, new, script, shown, oldNl, newNl, i, next)
  <2>0. /\ Stands(old, new, diff, hunks) /\ InHunk(script, shown, i - 1, hunks)
        /\ Anchored(script, shown) /\ Consistent(script, oldNl, newNl) =>
              Halfway(script, shown, newNl, i - 1, hunks)
    BY <1>4 DEF StandsAt
  <2>1. CASE i \notin shown
    <3>1. diff \in Seq(DiffLine)
      BY <2>0 DEF Stands
    <3>2. next = diff
      <4>1. Printed(script, shown, i, oldNl, newNl) = <<>>
        BY <2>1 DEF Printed
      <4> QED BY <3>1, <4>1, ConcatEmptySeq
    <3>3. InHunk(script, shown, i, hunks)
      BY <2>0, <2>1, AtHidden
    <3>4. Anchored(script, shown) /\ Consistent(script, oldNl, newNl) => Halfway(script, shown, newNl, i, hunks)
      BY <2>0, <2>1, HalfwayHidden
    <3> HIDE DEF next
    <3> QED BY <2>0, <3>2, <3>3, <3>4 DEF Placed, StandsAt
  <2>2. CASE i \in shown
    <3>1. PICK front, start, len, ops : Opened(script, shown, i, hunks, front, start, len, ops)
      BY <2>0, <2>2, Opens
    <3>2. CASE RiskyLine(script[i])
      <4>1. Rejects(old, new, next)
        BY <2>0, <2>2, <3>1, <3>2, RiskRejected
      <4> HIDE DEF next
      <4> QED BY <1>2, <3>2, <4>1 DEF Placed, StandsAt
    <3>3. CASE ~RiskyLine(script[i])
      <4> DEFINE more == Append(front, HunkOf(start, len, Append(ops, o)))
      <4>1. Stands(old, new, next, more)
        BY <2>0, <2>2, <3>1, <3>3, LinePrinted
      <4>2. o \in AnyOp /\ o.op = script[i].op
        BY <1>1, GivenOp
      <4>3. InHunk(script, shown, i, more)
        <5> HIDE DEF o
        <5> QED BY <2>2, <3>1, <4>2, AtShown
      <4>4. ASSUME Anchored(script, shown), Consistent(script, oldNl, newNl)
            PROVE  Halfway(script, shown, newNl, i, more)
        <5>1. front \in Seq(Hunks) /\ start \in Nat /\ len \in Nat /\ ops \in Seq(AnyOp)
          BY <3>1 DEF Opened
        <5>2. PICK s : Ready(script, shown, newNl, i - 1, Append(front, HunkOf(start, len, ops)), s)
          BY <2>0, <2>2, <3>1, <4>4, HunkReady
        <5> QED BY <2>2, <4>4, <5>1, <5>2, HalfwayShown
      <4> HIDE DEF next, more
      <4> QED BY <4>1, <4>3, <4>4 DEF Placed, StandsAt
    <3> QED BY <3>2, <3>3
  <2> QED BY <2>1, <2>2
<1>5. CASE \E hunks : StandsAt(old, new, script, shown, oldNl, newNl, i - 1, diff, hunks)
  BY <1>4, <1>5
<1>6. \/ Rejects(old, new, diff) /\ \E j \in 1 .. i - 1 : RiskyLine(script[j])
      \/ \E hunks : StandsAt(old, new, script, shown, oldNl, newNl, i - 1, diff, hunks)
  BY Zenon DEF Placed
<1> QED BY <1>3, <1>5, <1>6

(* All the lines of a script that a diff prints. *)
PrintedAll(script, shown, oldNl, newNl) ==
    FlattenSeq([i \in DOMAIN script |-> Printed(script, shown, i, oldNl, newNl)])

LEMMA PlacedAll ==
    ASSUME NEW old \in PathKinds, NEW new \in PathKinds,
           ~Unpatchable(old, new),
           NEW script, NEW shown, Shows(script, shown), NEW oldNl, NEW newNl
    PROVE  Placed(old, new, script, shown, oldNl, newNl, Len(script),
                  Section(old, new, PrintedAll(script, shown, oldNl, newNl)))
<1> DEFINE n == Len(script)
           s == [i \in DOMAIN script |-> Printed(script, shown, i, oldNl, newNl)]
           heads == <<OldHeader(old), NewHeader(new)>>
           none == <<>>
<1>1. script \in Scripts /\ n \in Nat /\ DOMAIN script = 1 .. n
  <2>1. script \in Scripts
    BY Zenon DEF Shows
  <2> QED BY <2>1 DEF Scripts
<1>2. heads \in Seq(DiffLine)
  <2>1. Stands(old, new, heads, <<>>)
    BY StandsFirst
  <2> HIDE DEF heads
  <2> QED BY <2>1 DEF Stands
<1>3. s \in Seq(Seq(DiffLine)) /\ Len(s) = n /\ \A i \in 1 .. n : s[i] = Printed(script, shown, i, oldNl, newNl)
  <2>1. ASSUME NEW i \in 1 .. n PROVE Printed(script, shown, i, oldNl, newNl) \in Seq(DiffLine)
    BY <1>2, PrintedAppends
  <2>2. s = [i \in 1 .. n |-> Printed(script, shown, i, oldNl, newNl)]
    BY <1>1
  <2> HIDE DEF s, n
  <2> QED BY <1>1, <2>1, <2>2
<1>4. PICK flat \in [0 .. Len(s) -> Seq(DiffLine)] :
              /\ flat[0] = <<>> /\ \A k \in 1 .. Len(s) : flat[k] = flat[k - 1] \o s[k]
              /\ FlattenSeq(s) = flat[Len(s)]
  <2> HIDE DEF s
  <2> QED BY <1>3, FlattenBuilt
<1> DEFINE T == {k \in 0 .. n : Placed(old, new, script, shown, oldNl, newNl, k, heads \o flat[k])}
<1>5. 0 \in T
  <2>1. heads \o flat[0] = heads
    <3> HIDE DEF heads
    <3> QED BY <1>2, <1>4, ConcatEmptySeq
  <2>2. Placed(old, new, script, shown, oldNl, newNl, 0, heads)
    BY PlacedFirst
  <2>3. 0 \in 0 .. n
    BY <1>1
  <2> HIDE DEF heads, n
  <2>4. Placed(old, new, script, shown, oldNl, newNl, 0, heads \o flat[0])
    BY <2>1, <2>2
  <2> QED BY <2>3, <2>4
<1>6. ASSUME NEW k \in 1 .. n, k - 1 \in T PROVE k \in T
  <2> DEFINE p == Printed(script, shown, k, oldNl, newNl)
             sofar == flat[k - 1]
  <2>1. Placed(old, new, script, shown, oldNl, newNl, k - 1, heads \o sofar)
    BY <1>6
  <2>2. Placed(old, new, script, shown, oldNl, newNl, k, (heads \o sofar) \o p)
    <3> HIDE DEF heads, sofar
    <3> QED BY <2>1, PlacedStep
  <2>3. k - 1 \in 0 .. n /\ k \in 0 .. n
    BY <1>1
  <2>4. flat[k] = sofar \o p
    <3> HIDE DEF s, n
    <3> QED BY <1>3, <1>4
  <2>5. sofar \in Seq(DiffLine)
    <3> HIDE DEF s, n
    <3> QED BY <1>3, <1>4, <2>3
  <2>6. p \in Seq(DiffLine)
    BY <1>2, PrintedAppends
  <2> HIDE DEF heads, sofar, p
  <2>7. (heads \o sofar) \o p = heads \o (sofar \o p)
    <3>1. Joins(heads, sofar, p)
      BY <1>2, <2>5, <2>6, Joined
    <3> QED BY <3>1 DEF Joins
  <2>8. Placed(old, new, script, shown, oldNl, newNl, k, heads \o flat[k])
    BY <2>2, <2>4, <2>7
  <2> QED BY <2>3, <2>8 DEF T
<1>7. n \in T
  <2>1. \A k \in 0 .. n : k \in T
    <3> HIDE DEF T, n
    <3> QED BY <1>1, <1>5, <1>6, UpwardsTo
  <2> HIDE DEF T
  <2> QED BY <1>1, <2>1
<1>8. Section(old, new, PrintedAll(script, shown, oldNl, newNl)) = heads \o flat[n]
  <2>1. PrintedAll(script, shown, oldNl, newNl) = flat[n]
    <3>1. PrintedAll(script, shown, oldNl, newNl) = FlattenSeq(s)
      BY DEF PrintedAll
    <3> HIDE DEF s
    <3> QED BY <1>3, <1>4, <3>1
  <2> QED BY <2>1 DEF Section
<1>9. Placed(old, new, script, shown, oldNl, newNl, n, heads \o flat[n])
  BY <1>7
<1> HIDE DEF heads, n
<1>10. Placed(old, new, script, shown, oldNl, newNl, n, Section(old, new, PrintedAll(script, shown, oldNl, newNl)))
  BY <1>8, <1>9
<1> QED BY <1>10 DEF n

LEMMA PrintedType ==
    ASSUME NEW script, NEW shown, Shows(script, shown), NEW oldNl, NEW newNl
    PROVE  PrintedAll(script, shown, oldNl, newNl) \in Seq(DiffLine)
<1> DEFINE n == Len(script)
           s == [i \in DOMAIN script |-> Printed(script, shown, i, oldNl, newNl)]
           none == <<>>
<1>1. script \in Scripts /\ n \in Nat /\ DOMAIN script = 1 .. n
  <2>1. script \in Scripts
    BY Zenon DEF Shows
  <2> QED BY <2>1 DEF Scripts
<1>2. none \in Seq(DiffLine)
  OBVIOUS
<1>3. s \in Seq(Seq(DiffLine))
  <2> HIDE DEF none
  <2>1. ASSUME NEW i \in 1 .. n PROVE Printed(script, shown, i, oldNl, newNl) \in Seq(DiffLine)
    BY <1>2, PrintedAppends
  <2>2. s = [i \in 1 .. n |-> Printed(script, shown, i, oldNl, newNl)]
    BY <1>1
  <2> HIDE DEF s, n
  <2> QED BY <1>1, <2>1, <2>2
<1>4. PICK flat \in [0 .. Len(s) -> Seq(DiffLine)] :
              /\ flat[0] = <<>> /\ \A k \in 1 .. Len(s) : flat[k] = flat[k - 1] \o s[k]
              /\ FlattenSeq(s) = flat[Len(s)]
  <2> HIDE DEF s
  <2> QED BY <1>3, FlattenBuilt
<1>5. Len(s) \in 0 .. Len(s)
  <2> HIDE DEF s
  <2> QED BY <1>3
<1>6. PrintedAll(script, shown, oldNl, newNl) = FlattenSeq(s)
  BY DEF PrintedAll
<1> HIDE DEF s
<1> QED BY <1>4, <1>5, <1>6

-----------------------------------------------------------------------------
(* The lines of a section. *)
LEMMA SectionLines ==
    ASSUME NEW old \in PathKinds, NEW new \in PathKinds, NEW lines \in Seq(DiffLine)
    PROVE  /\ Section(old, new, lines) \in Seq(DiffLine)
           /\ Len(Section(old, new, lines)) >= 2 /\ Len(Section(old, new, lines)) \in Nat
           /\ Section(old, new, lines)[1] = OldHeader(old)
           /\ Section(old, new, lines)[2] = NewHeader(new)
<1> DEFINE a == OldHeader(old)
           b == NewHeader(new)
           heads == <<a, b>>
           whole == heads \o lines
<1>1. a \in DiffLine /\ b \in DiffLine
  BY DEF OldHeader, NewHeader, DiffLine
<1>2. Section(old, new, lines) = whole
  BY DEF Section
<1> HIDE DEF a, b
<1>3. heads \in Seq(DiffLine) /\ Len(heads) = 2 /\ heads[1] = a /\ heads[2] = b
  BY <1>1
<1> HIDE DEF heads
<1>4. whole \in Seq(DiffLine) /\ Len(whole) = Len(heads) + Len(lines) /\ \A k \in 1 .. Len(heads) : whole[k] = heads[k]
  <2>1. heads \in Seq(DiffLine)
    BY <1>3
  <2> QED BY <2>1, ConcatProperties
<1>5. Len(lines) \in Nat
  OBVIOUS
<1> HIDE DEF whole
<1>6. Len(whole) >= 2 /\ Len(whole) \in Nat
  BY <1>3, <1>4, <1>5
<1>7. whole[1] = a /\ whole[2] = b
  BY <1>3, <1>4
<1> QED BY <1>2, <1>4, <1>6, <1>7 DEF a, b

LEMMA BadHeaders ==
    ASSUME NEW old \in PathKinds, NEW new \in PathKinds, Unpatchable(old, new)
    PROVE  ParseLine(ParseLine(Begun, OldHeader(old)), NewHeader(new)) = Refused
<1>1. <<>> \in Seq(PatchFile)
  OBVIOUS
<1>2. ParseLine(ParseLine(Begun, OldHeader(old)), NewHeader(new)) =
         IF Unpatchable(old, new) THEN Refused ELSE Open(<<>>, FileOf(old, new, <<>>))
  BY <1>1, SectionRead
<1> QED BY <1>2

(* A diff that has the headers of no file that may be patched is refused.  *)
LEMMA HeadersRefused ==
    ASSUME NEW old \in PathKinds, NEW new \in PathKinds,
           Unpatchable(old, new),
           NEW diff \in Seq(DiffLine), Len(diff) >= 2, diff[1] = OldHeader(old), diff[2] = NewHeader(new)
    PROVE  Parses(diff, Refused)
<1> DEFINE n == Len(diff)
           first == ParseLine(Begun, OldHeader(old))
           run == [k \in 0 .. n |-> IF k = 0 THEN Begun ELSE IF k = 1 THEN first ELSE Refused]
<1>1. n \in Nat /\ n >= 2
  OBVIOUS
<1>2. ParseLine(first, NewHeader(new)) = Refused
  <2>1. ParseLine(ParseLine(Begun, OldHeader(old)), NewHeader(new)) = Refused
    BY BadHeaders
  <2> QED BY <2>1
<1>3. run[0] = Begun /\ Refused = run[n]
  BY <1>1
<1>4. ASSUME NEW k \in 1 .. n PROVE run[k] = ParseLine(run[k - 1], diff[k])
  <2>1. CASE k = 1
    <3>1. run[k] = first /\ run[k - 1] = Begun
      BY <1>1, <2>1
    <3> QED BY <2>1, <3>1
  <2>2. CASE k = 2
    <3>1. run[k] = Refused /\ run[k - 1] = first
      BY <1>1, <2>2
    <3> QED BY <1>2, <2>2, <3>1
  <2>3. CASE k # 1 /\ k # 2
    <3>1. run[k] = Refused /\ run[k - 1] = Refused
      BY <1>1, <2>3
    <3> QED BY <3>1, RefusedRead
  <2> QED BY <2>1, <2>2, <2>3
<1> HIDE DEF run
<1> QED BY <1>3, <1>4 DEF Parses

LEMMA NotOpenRefused ==
    ASSUME NEW diff \in Seq(DiffLine), NEW s, Parses(diff, s), s.mode # "hunks"
    PROVE  Parse(diff) = <<>>
BY ParseIs

(* What the inputs of the kinds "diff" and "parse" are. *)
LEMMA ShowsChanges ==
    ASSUME NEW script \in Scripts, NEW context \in Nat
    PROVE  Shows(script, Shown(script, context))
<1>1. DOMAIN script = 1 .. Len(script)
  BY DEF Scripts
<1>2. Shown(script, context) \in SUBSET (1 .. Len(script))
  BY <1>1, Zenon DEF Shown
<1>3. ASSUME NEW i \in 1 .. Len(script), script[i].op # " " PROVE i \in Shown(script, context)
  <2>1. i - i \in -context .. context
    <3>1. i - i = 0
      OBVIOUS
    <3> QED BY <3>1
  <2> QED BY <1>1, <1>3, <2>1, Zenon DEF Shown
<1> QED BY <1>2, <1>3, Zenon DEF Shows

LEMMA CutTypes ==
    ASSUME NEW c \in Cuts
    PROVE  /\ c.script \in Scripts /\ c.context = 1 /\ c.length \in Nat
           /\ c.old \in PathKinds /\ c.new \in PathKinds
<1>1. HunkOps \in Nat
  BY AlgorithmsAssumption
<1>2. /\ c.script \in BoundedSeq(Op, HunkOps) /\ c.context = 1 /\ c.length \in 0 .. HunkOps + 3
      /\ c.old \in PathKinds /\ c.new \in PathKinds
  BY DEF Cuts
<1>3. c.script \in Scripts
  BY <1>1, <1>2, BoundedSeqs DEF Scripts
<1> QED BY <1>1, <1>2, <1>3

LEMMA CutRead ==
    ASSUME NEW c \in Cuts
    PROVE  Parse(CutDiff(c)) # <<>> <=> Understood(c)
<1> DEFINE shown == Shown(c.script, c.context)
           all == PrintedAll(c.script, shown, TRUE, TRUE)
           diff == Section(c.old, c.new, all)
           m == Least(c.length, Len(diff))
           cut == SubSeq(diff, 1, m)
           good == ~Unpatchable(c.old, c.new)
<1>1. c.script \in Scripts /\ c.context \in Nat /\ c.length \in Nat /\ c.old \in PathKinds /\ c.new \in PathKinds
  BY CutTypes
<1>2. Shows(c.script, shown)
  BY <1>1, ShowsChanges
<1>3. all \in Seq(DiffLine)
  <2> HIDE DEF shown
  <2> QED BY <1>2, PrintedType
<1>4. CutDiff(c) = cut
  BY DEF CutDiff, UnifiedDiff, PrintedAll
<1>5. /\ diff \in Seq(DiffLine) /\ Len(diff) >= 2 /\ Len(diff) \in Nat
      /\ diff[1] = OldHeader(c.old) /\ diff[2] = NewHeader(c.new)
  <2> HIDE DEF all
  <2> QED BY <1>1, <1>3, SectionLines
<1>6. Understood(c) <=> Whole(cut) /\ good /\ Quiet(cut)
  <2> HIDE DEF cut
  <2> QED BY <1>4 DEF Understood, Quiet, Unpatchable
<1> HIDE DEF diff, all, shown
<1>7. m \in 0 .. Len(diff) /\ m \in Nat /\ (m >= 2 \/ m = 0 \/ m = 1)
  BY <1>1, <1>5 DEF Least
<1> HIDE DEF m
<1>8. cut \in Seq(DiffLine) /\ Len(cut) = m /\ \A k \in 1 .. m : cut[k] = diff[k]
  BY <1>5, <1>7
<1>9. CASE m >= 2 /\ good
  <2>1. Tracked(c.old, c.new, diff)
    <3>1. Placed(c.old, c.new, c.script, shown, TRUE, TRUE, Len(c.script), diff)
      BY <1>1, <1>2, <1>9, PlacedAll DEF diff, all
    <3> QED BY <3>1 DEF Placed, StandsAt, Stands, Rejects
  <2>2. PICK s : Reads(c.old, c.new, cut, s)
    <3>1. m \in 2 .. Len(diff)
      BY <1>5, <1>7, <1>9
    <3> QED BY <2>1, <3>1 DEF Tracked
  <2>3. Parse(cut) # <<>> <=> Quiet(cut) /\ Whole(cut)
    <3> HIDE DEF cut
    <3> QED BY <1>1, <1>8, <2>2, ReadRight
  <2> HIDE DEF cut, good
  <2> QED BY <1>4, <1>6, <1>9, <2>3
<1>10. CASE m >= 2 /\ ~good
  <2>1. cut[1] = diff[1] /\ cut[2] = diff[2]
    <3>1. 1 \in 1 .. m /\ 2 \in 1 .. m
      BY <1>7, <1>10
    <3> HIDE DEF cut, good
    <3> QED BY <1>8, <3>1
  <2>2. Parses(cut, Refused)
    <3> HIDE DEF cut
    <3> QED BY <1>1, <1>5, <1>8, <1>10, <2>1, HeadersRefused
  <2>3. Refused.mode # "hunks"
    BY DEF Refused
  <2>4. Parse(cut) = <<>>
    <3> HIDE DEF cut
    <3> QED BY <1>8, <2>2, <2>3, NotOpenRefused
  <2> HIDE DEF cut, good
  <2> QED BY <1>4, <1>6, <1>10, <2>4
<1>11. CASE m < 2
  <2>1. \A k \in 1 .. m : k = 1 /\ cut[k] = OldHeader(c.old)
    <3>1. \A k \in 1 .. m : k = 1
      BY <1>7, <1>11
    <3> HIDE DEF cut, good
    <3> QED BY <1>5, <1>8, <3>1
  <2>2. ~Whole(cut)
    <3>1. DOMAIN cut = 1 .. m
      <4> HIDE DEF cut
      <4> QED BY <1>8
    <3>2. OldHeader(c.old).kind # "@@"
      BY DEF OldHeader
    <3> HIDE DEF cut
    <3> QED BY <2>1, <3>1, <3>2 DEF Whole
  <2>3. Parse(cut) = <<>>
    <3> DEFINE run == [k \in 0 .. m |-> IF k = 0 THEN Begun ELSE ParseLine(Begun, OldHeader(c.old))]
    <3>1. run[0] = Begun
      BY <1>7
    <3>2. \A k \in 1 .. m : run[k] = ParseLine(run[k - 1], cut[k])
      <4> SUFFICES ASSUME NEW k \in 1 .. m PROVE run[k] = ParseLine(run[k - 1], cut[k])
        OBVIOUS
      <4>1. k = 1 /\ cut[k] = OldHeader(c.old)
        BY <2>1
      <4>2. run[k] = ParseLine(Begun, OldHeader(c.old)) /\ run[k - 1] = Begun
        BY <1>7, <4>1
      <4> QED BY <4>1, <4>2
    <3>3. m \in 0 .. m
      BY <1>7
    <3>4. run[m].mode # "hunks"
      <4>1. Begun.mode # "hunks"
        BY DEF Begun
      <4>2. ParseLine(Begun, OldHeader(c.old)).mode # "hunks"
        BY DEF Begun, ParseLine, BeginFile, OldHeader
      <4> QED BY <3>3, <4>1, <4>2
    <3> HIDE DEF run, cut
    <3>5. Parses(cut, run[m])
      BY <1>8, <3>1, <3>2 DEF Parses
    <3> QED BY <1>8, <3>4, <3>5, NotOpenRefused
  <2> HIDE DEF cut, good
  <2> QED BY <1>4, <1>6, <2>2, <2>3
<1>12. m >= 2 \/ m < 2
  BY <1>7
<1> HIDE DEF good
<1> QED BY <1>9, <1>10, <1>11, <1>12

LEMMA DiffTypes ==
    ASSUME NEW d \in Diffs
    PROVE  /\ d.script \in Scripts /\ d.context \in Nat
           /\ d.oldNl \in BOOLEAN /\ d.newNl \in BOOLEAN /\ d.creates \in BOOLEAN
           /\ Changed(d.script) /\ Consistent(d.script, d.oldNl, d.newNl)
<1>1. ScriptLines \in Nat
  BY AlgorithmsAssumption
<1>2. /\ d.script \in BoundedSeq(Op, ScriptLines) /\ d.context \in 0 .. 1
      /\ d.oldNl \in BOOLEAN /\ d.newNl \in BOOLEAN /\ d.creates \in BOOLEAN
      /\ Changed(d.script) /\ Consistent(d.script, d.oldNl, d.newNl)
  BY DEF Diffs
<1>3. d.script \in Scripts
  BY <1>1, <1>2, BoundedSeqs DEF Scripts
<1>4. d.context \in Nat
  BY <1>2
<1> QED BY <1>2, <1>3, <1>4

-----------------------------------------------------------------------------
(* The file of a diff whose lines have all been read. *)
LEMMA FileRead ==
    ASSUME NEW script, NEW shown, Shows(script, shown), Changed(script),
           NEW hunks, InHunk(script, shown, Len(script), hunks)
    PROVE  /\ hunks \in Seq(Hunks)
           /\ FileOf("name", "name", hunks) \in PatchFile /\ Closed(FileOf("name", "name", hunks))
           /\ FileOf("name", "name", hunks).hunks = hunks
<1>1. script \in Scripts /\ shown \in SUBSET (1 .. Len(script))
  BY Zenon DEF Shows
<1>2. Len(script) \in Nat /\ DOMAIN script = 1 .. Len(script)
  BY <1>1 DEF Scripts
<1>3. hunks \in Seq(Hunks)
  BY DEF InHunk
<1>4. hunks # <<>>
  <2>1. PICK j \in 1 .. Len(script) : script[j].op # " "
    BY <1>2, Zenon DEF Changed
  <2>2. j \in shown
    BY <2>1, Zenon DEF Shows
  <2>3. j =< Len(script)
    BY <1>2
  <2> QED BY <2>2, <2>3 DEF InHunk
<1>5. Counts(Last(hunks))
  <2>1. Len(script) + 1 \notin shown
    BY <1>1, <1>2
  <2> QED BY <1>2, <1>4, <2>1, HunkOver
<1>6. "name" \in PathKinds
  BY DEF PathKinds
<1>7. FileOf("name", "name", hunks) \in PatchFile /\ FileOf("name", "name", hunks).hunks = hunks
  BY <1>3, <1>6, FileTypes
<1> QED BY <1>3, <1>4, <1>5, <1>7 DEF Closed

(* What build_new makes of the old version and all the hunks. *)
LEMMA NewText ==
    ASSUME NEW script, NEW shown, Shows(script, shown), NEW oldNl, NEW newNl \in BOOLEAN,
           Consistent(script, oldNl, newNl), newNl \/ \E i \in shown : IsLast(script, i, NewOps),
           NEW hunks \in Seq(Hunks), Halfway(script, shown, newNl, Len(script), hunks)
    PROVE  BuildNew([lines |-> Side(script, OldOps), nl |-> oldNl], hunks) = Text(Side(script, NewOps), newNl)
<1> DEFINE lines == Side(script, OldOps)
           n == Len(script)
           all == OldUpTo(script, n)
           new == Side(script, NewOps)
<1>1. script \in Scripts /\ shown \in SUBSET (1 .. n)
  BY Zenon DEF Shows
<1>2. n \in Nat
  BY <1>1 DEF Scripts
<1>3. lines \in Seq(Texts) /\ Side(SubSeq(script, 1, n), NewOps) = new /\ all = Len(lines)
  <2>1. Side(SubSeq(script, 1, n), OldOps) = lines
    BY <1>1, WholeSide
  <2>2. lines \in Seq(Texts) /\ Side(SubSeq(script, 1, n), NewOps) = new
    BY <1>1, WholeSide
  <2> QED BY <2>1, <2>2 DEF OldUpTo
<1>4. PICK s \in Within(lines) :
        /\ Building(lines, hunks, s) /\ s.ok
        /\ s.lines \o SubSeq(lines, s.cursor + 1, all) = Side(SubSeq(script, 1, n), NewOps)
        /\ EndsRight(script, shown, newNl, n, s.nl)
  BY DEF Halfway
<1>5. s.nl \in BOOLEAN
  <2> HIDE DEF lines
  <2> QED BY <1>3, WithinTypes
<1>6. (new = <<>> \/ s.nl) = newNl
  <2>1. CASE newNl
    BY <1>4, <1>5, <2>1 DEF EndsRight
  <2>2. CASE ~newNl
    <3>1. new # <<>>
      BY <2>2, Zenon DEF Consistent
    <3>2. ~s.nl
      <4>1. PICK i \in shown : IsLast(script, i, NewOps)
        BY <2>2
      <4>2. i =< n
        BY <1>1, <1>2
      <4> QED BY <1>4, <2>2, <4>1, <4>2 DEF EndsRight
    <3> QED BY <2>2, <3>1, <3>2
  <2> QED BY <2>1, <2>2
<1> DEFINE out == s.lines \o SubSeq(lines, s.cursor + 1, Len(lines))
<1>7. out = new
  BY <1>3, <1>4
<1>8. BuildNew([lines |-> lines, nl |-> oldNl], hunks) =
         [ok |-> s.ok, lines |-> IF s.ok THEN out ELSE <<>>, nl |-> out = <<>> \/ s.nl]
  <2> HIDE DEF lines
  <2> QED BY <1>3, <1>4, BuildIs
<1>9. s.ok = TRUE
  <2>1. s.ok \in BOOLEAN
    BY DEF Within, States
  <2> QED BY <1>4, <2>1
<1> HIDE DEF out, new, lines
<1>10. BuildNew([lines |-> lines, nl |-> oldNl], hunks) = [ok |-> TRUE, lines |-> new, nl |-> newNl]
  BY <1>6, <1>7, <1>8, <1>9
<1> QED BY <1>10 DEF Text, lines, new

-----------------------------------------------------------------------------
(* The second section of a diff. *)
Made == FileOf("/dev/null", "name", <<HunkOf(0, 0, <<CutOp("+", AnyLine)>>)>>)

LEMMA AnyLineIs == AnyLine \in Texts /\ Line("+", AnyLine) = LineOf("+", AnyLine)
<1>1. AnyLine \in Plain
  BY AlgorithmsAssumption DEF AnyLine, Plain
<1> QED BY <1>1 DEF Plain, Line, LineOf

LEMMA TwoAndThree ==
    ASSUME NEW diff \in Seq(DiffLine), NEW x \in Seq(DiffLine), NEW y \in Seq(DiffLine)
    PROVE  x \o y \in Seq(DiffLine) /\ diff \o (x \o y) = (diff \o x) \o y
<1>1. x \o y \in Seq(DiffLine)
  BY ConcatProperties
<1>2. Joins(diff, x, y)
  BY Joined
<1> QED BY <1>1, <1>2 DEF Joins

LEMMA CreationLines ==
    ASSUME NEW diff \in Seq(DiffLine)
    PROVE  /\ Creation \in Seq(DiffLine)
           /\ diff \o Creation =
                Append(Append(Append(Append(Append(diff, OldHeader("/dev/null")), NewHeader("name")),
                                     HunkHeader(0, 0)), LineOf("+", AnyLine)), NoNewline)
<1> DEFINE a == OldHeader("/dev/null")
           b == NewHeader("name")
           c == HunkHeader(0, 0)
           d == LineOf("+", AnyLine)
           e == NoNewline
<1>1. a \in DiffLine /\ b \in DiffLine
  BY DEF OldHeader, NewHeader, DiffLine, PathKinds
<1>2. c \in DiffLine /\ e \in DiffLine
  BY DEF HunkHeader, DiffLine
<1>3. d \in DiffLine
  BY AnyLineIs, Zenon DEF LineOf, DiffLine, LineOps
<1>4. Creation = <<a, b>> \o <<c, d, e>>
  BY AnyLineIs DEF Creation, Section
<1> HIDE DEF a, b, c, d, e
<1> DEFINE x == <<a, b>>
           y == <<c, d, e>>
           two == Append(Append(diff, a), b)
<1>5. x \in Seq(DiffLine) /\ y \in Seq(DiffLine) /\ two \in Seq(DiffLine)
  BY <1>1, <1>2, <1>3
<1>6. diff \o x = two
  BY <1>1
<1> HIDE DEF two
<1>7. two \o y = Append(Append(Append(two, c), d), e)
  BY <1>2, <1>3, <1>5
<1> HIDE DEF x, y
<1>8. x \o y \in Seq(DiffLine) /\ diff \o (x \o y) = (diff \o x) \o y
  BY <1>5, TwoAndThree
<1>9. Creation = x \o y
  BY <1>4 DEF x, y
<1>10. Creation \in Seq(DiffLine) /\ diff \o Creation = Append(Append(Append(two, c), d), e)
  BY <1>6, <1>7, <1>8, <1>9
<1> QED BY <1>10 DEF a, b, c, d, e, two

LEMMA CreationRead ==
    ASSUME NEW diff \in Seq(DiffLine), NEW file \in PatchFile, Closed(file), Parses(diff, Open(<<>>, file))
    PROVE  Parses(diff \o Creation, Open(<<file>>, Made))
<1> DEFINE zero == 0
           plus == "+"
           a == OldHeader("/dev/null")
           b == NewHeader("name")
           c == HunkHeader(zero, zero)
           d == LineOf(plus, AnyLine)
           e == NoNewline
           done == <<file>>
           none == <<>>
           n0 == "/dev/null"
           n1 == "name"
           full == FullOp(plus, AnyLine)
           cut == CutOp(plus, AnyLine)
<1>1. a \in DiffLine /\ b \in DiffLine /\ c \in DiffLine /\ d \in DiffLine /\ e \in DiffLine
  <2>1. a \in DiffLine /\ b \in DiffLine
    BY DEF OldHeader, NewHeader, DiffLine, PathKinds
  <2>2. c \in DiffLine /\ e \in DiffLine
    BY DEF HunkHeader, DiffLine
  <2>3. d \in DiffLine
    BY AnyLineIs, Zenon DEF LineOf, DiffLine, LineOps
  <2> QED BY <2>1, <2>2, <2>3
<1>2. done \in Seq(PatchFile) /\ done = Append(none, file) /\ none \in Seq(PatchFile)
      /\ none \in Seq(Hunks) /\ none \in Seq(AnyOp) /\ none = <<>>
  OBVIOUS
<1>3. n0 \in PathKinds /\ n1 \in PathKinds /\ plus \in LineOps /\ ~Unpatchable(n0, n1)
  BY DEF PathKinds, LineOps, Unpatchable
<1>4. AnyLine \in Texts
  BY AnyLineIs
<1>5. ParseLine(ParseLine(Open(none, file), a), b) = Open(done, FileOf(n0, n1, <<>>))
  <2> DEFINE s == Open(none, file)
  <2>1. \E front \in Seq(PatchFile), f \in PatchFile : s = Open(front, f) /\ Closed(f) /\ done = Append(front, f)
    <3> HIDE DEF done, none
    <3> QED BY <1>2
  <2> HIDE DEF s, done, none, n0, n1
  <2>2. ParseLine(ParseLine(s, OldHeader(n0)), NewHeader(n1)) =
           IF Unpatchable(n0, n1) THEN Refused ELSE Open(done, FileOf(n0, n1, <<>>))
    <3>1. done \in Seq(PatchFile)
      BY <1>2
    <3>2. n0 \in PathKinds
      BY <1>3
    <3>3. n1 \in PathKinds
      BY <1>3
    <3> QED BY <2>1, <3>1, <3>2, <3>3, SectionRead
  <2> QED BY <1>3, <2>2 DEF s, n0, n1
<1>6. ParseLine(Open(done, FileOf(n0, n1, none)), c) = Open(done, FileOf(n0, n1, Append(none, HunkOf(zero, zero, none))))
  <2>1. none = <<>> \/ Counts(Last(none))
    OBVIOUS
  <2>2. zero \in Nat
    OBVIOUS
  <2> HIDE DEF done, none, n0, n1, zero
  <2>3. done \in Seq(PatchFile)
    BY <1>2
  <2>4. none \in Seq(Hunks)
    BY <1>2
  <2>5. none = <<>>
    BY <1>2
  <2>6. n0 \in PathKinds /\ n1 \in PathKinds
    BY <1>3
  <2> DEFINE ops == none
  <2>7. Blank(ops) /\ ops = none
    BY <2>5 DEF Blank
  <2> HIDE DEF ops, c
  <2>8. c = HunkHeader(zero, zero)
    BY DEF c
  <2>9. ParseLine(Open(done, FileOf(n0, n1, none)), HunkHeader(zero, zero))
           = Open(done, FileOf(n0, n1, Append(none, HunkOf(zero, zero, ops))))
    BY <2>1, <2>2, <2>3, <2>4, <2>6, <2>7, HeaderReadOn
  <2> QED BY <2>7, <2>8, <2>9
<1>7. ParseLine(Open(done, FileOf(n0, n1, Append(none, HunkOf(zero, zero, none)))), d)
         = Open(done, FileOf(n0, n1, Append(none, HunkOf(zero, zero, Append(none, full)))))
  <2>1. zero \in Nat
    OBVIOUS
  <2> HIDE DEF done, none, n0, n1, plus, zero
  <2>2. done \in Seq(PatchFile)
    BY <1>2
  <2>3. none \in Seq(Hunks)
    BY <1>2
  <2>4. none \in Seq(AnyOp)
    BY <1>2
  <2>5. n0 \in PathKinds /\ n1 \in PathKinds /\ plus \in LineOps
    BY <1>3
  <2> QED BY <1>4, <2>1, <2>2, <2>3, <2>4, <2>5, LineRead DEF full
<1>8. ParseLine(Open(done, FileOf(n0, n1, Append(none, HunkOf(zero, zero, Append(none, full))))), e)
         = Open(done, FileOf(n0, n1, Append(none, HunkOf(zero, zero, Append(none, cut)))))
  <2>1. zero \in Nat
    OBVIOUS
  <2> HIDE DEF done, none, n0, n1, plus, zero
  <2>2. done \in Seq(PatchFile)
    BY <1>2
  <2>3. none \in Seq(Hunks)
    BY <1>2
  <2>4. none \in Seq(AnyOp)
    BY <1>2
  <2>5. n0 \in PathKinds /\ n1 \in PathKinds /\ plus \in LineOps
    BY <1>3
  <2> QED BY <1>4, <2>1, <2>2, <2>3, <2>4, <2>5, EndRead DEF full, cut
<1>9. Append(none, HunkOf(zero, zero, Append(none, cut))) = <<HunkOf(zero, zero, <<cut>>)>>
  OBVIOUS
<1>10. Open(done, FileOf(n0, n1, Append(none, HunkOf(zero, zero, Append(none, cut))))) = Open(<<file>>, Made)
  BY <1>9 DEF Made
<1> HIDE DEF a, b, c, d, e, done
<1>11. LET r == ParseLine(ParseLine(ParseLine(ParseLine(ParseLine(Open(<<>>, file), a), b), c), d), e)
       IN  Parses(Append(Append(Append(Append(Append(diff, a), b), c), d), e), r)
  <2>1. /\ Append(diff, a) \in Seq(DiffLine) /\ Append(Append(diff, a), b) \in Seq(DiffLine)
        /\ Append(Append(Append(diff, a), b), c) \in Seq(DiffLine)
        /\ Append(Append(Append(Append(diff, a), b), c), d) \in Seq(DiffLine)
    BY <1>1
  <2> QED BY <1>1, <2>1, ParsesMore
<1>12. diff \o Creation = Append(Append(Append(Append(Append(diff, a), b), c), d), e)
  BY CreationLines DEF a, b, c, d, e
<1> HIDE DEF none, n0, n1, full, cut
<1>13. Open(<<>>, file) = Open(none, file) /\ FileOf(n0, n1, <<>>) = FileOf(n0, n1, none)
  BY <1>2
<1> QED BY <1>5, <1>6, <1>7, <1>8, <1>10, <1>11, <1>12, <1>13

LEMMA CreationRefused ==
    ASSUME NEW diff \in Seq(DiffLine), Parses(diff, Refused)
    PROVE  Parses(diff \o Creation, Refused)
<1> DEFINE a == OldHeader("/dev/null")
           b == NewHeader("name")
           c == HunkHeader(0, 0)
           d == LineOf("+", AnyLine)
           e == NoNewline
<1>1. a \in DiffLine /\ b \in DiffLine /\ c \in DiffLine /\ d \in DiffLine /\ e \in DiffLine
  <2>1. a \in DiffLine /\ b \in DiffLine
    BY DEF OldHeader, NewHeader, DiffLine, PathKinds
  <2>2. c \in DiffLine /\ e \in DiffLine
    BY DEF HunkHeader, DiffLine
  <2>3. d \in DiffLine
    BY AnyLineIs, Zenon DEF LineOf, DiffLine, LineOps
  <2> QED BY <2>1, <2>2, <2>3
<1>2. diff \o Creation = Append(Append(Append(Append(Append(diff, a), b), c), d), e)
  BY CreationLines
<1> HIDE DEF a, b, c, d, e
<1>3. ASSUME NEW some \in Seq(DiffLine), Parses(some, Refused), NEW t \in DiffLine
      PROVE  Append(some, t) \in Seq(DiffLine) /\ Parses(Append(some, t), Refused)
  <2>1. Parses(Append(some, t), ParseLine(Refused, t))
    BY <1>3, ParsesMore
  <2>2. ParseLine(Refused, t) = Refused
    BY RefusedRead
  <2>3. Append(some, t) \in Seq(DiffLine)
    BY AppendProperties
  <2> QED BY <2>1, <2>2, <2>3
<1>4. Append(diff, a) \in Seq(DiffLine) /\ Parses(Append(diff, a), Refused)
  BY <1>1, <1>3
<1>5. Append(Append(diff, a), b) \in Seq(DiffLine) /\ Parses(Append(Append(diff, a), b), Refused)
  BY <1>1, <1>3, <1>4
<1>6. /\ Append(Append(Append(diff, a), b), c) \in Seq(DiffLine)
      /\ Parses(Append(Append(Append(diff, a), b), c), Refused)
  BY <1>1, <1>3, <1>5
<1>7. /\ Append(Append(Append(Append(diff, a), b), c), d) \in Seq(DiffLine)
      /\ Parses(Append(Append(Append(Append(diff, a), b), c), d), Refused)
  BY <1>1, <1>3, <1>6
<1>8. Parses(Append(Append(Append(Append(Append(diff, a), b), c), d), e), Refused)
  BY <1>1, <1>3, <1>7
<1> QED BY <1>2, <1>8

None(n) == n = 0
Inserts(o, text) == o.op = "+" /\ o.text = text /\ o.nl = FALSE
Makes(lines, hunks, text) ==
    \E s : /\ Building(lines, hunks, s)
           /\ s.ok = TRUE /\ s.lines = <<text>> /\ s.cursor = 0 /\ s.nl = FALSE

LEMMA CreatedBuilding ==
    ASSUME NEW lines \in Seq(Texts), Blank(lines), NEW front \in Seq(Hunks), Blank(front),
           NEW ops \in Seq(AnyOp), Blank(ops), NEW zero \in Nat, None(zero),
           NEW text \in Texts, NEW o \in AnyOp, Inserts(o, text)
    PROVE  Makes(lines, Append(front, HunkOf(zero, zero, Append(ops, o))), text)
<1>0. zero = 0 /\ o.op = "+" /\ o.text = text /\ o.nl = FALSE
  BY DEF None, Inserts
<1> DEFINE h == HunkOf(zero, zero, ops)
           begun == BegunAt(lines, Untouched, zero)
           s == ApplyOp(lines, begun, o)
<1>1. Building(lines, front, Untouched)
  <2>1. Building(lines, <<>>, Untouched)
    BY BuildingNone
  <2> QED BY <2>1 DEF Blank
<1>2. h \in Hunks
  BY HunkTypes
<1>3. Untouched \in Within(lines)
  BY <1>1, BuildingWithin
<1>4. Untouched.ok /\ Untouched.cursor = 0 /\ Untouched.lines = <<>>
  BY DEF Untouched
<1>5. ApplyHunk(lines, Untouched, h) = begun
  <2>1. zero \in Untouched.cursor .. Len(lines) /\ zero = IF zero = 0 THEN 0 ELSE zero - 1
    BY <1>0, <1>4 DEF Blank
  <2>2. Untouched.ok
    BY <1>4
  <2>3. zero \in Untouched.cursor .. Len(lines)
    BY <2>1
  <2>4. zero = IF zero = 0 THEN 0 ELSE zero - 1
    BY <2>1
  <2> QED BY <1>3, <2>2, <2>3, <2>4, HunkBegunAt
<1>6. begun.ok /\ begun.cursor = 0 /\ begun.lines = <<>>
  <2>1. begun.lines = Untouched.lines \o SubSeq(lines, Untouched.cursor + 1, zero)
    BY DEF BegunAt
  <2>2. Untouched.lines \in Seq(Texts) /\ zero \in 0 .. Len(lines)
    BY <1>0, <1>4 DEF Blank
  <2>3. Untouched.lines \o SubSeq(lines, zero + 1, zero) = Untouched.lines
    BY <2>2, NoneBetween
  <2>4. begun.ok /\ begun.cursor = zero
    BY DEF BegunAt
  <2> HIDE DEF begun
  <2> QED BY <1>0, <1>4, <2>1, <2>3, <2>4
<1> HIDE DEF h, begun
<1>7. Building(lines, Append(front, h), begun)
  BY <1>1, <1>2, <1>5, BuildingMore
<1>8. begun \in Within(lines)
  <2>1. Append(front, h) \in Seq(Hunks)
    BY <1>2, LastAppend
  <2> QED BY <1>7, <2>1, BuildingWithin
<1>9. Building(lines, Append(front, HunkOf(zero, zero, Append(ops, o))), s)
  BY <1>6, <1>7, BuildingOp DEF h
<1>10. o.op \in NewOps /\ o.op \notin OldOps
  BY <1>0 DEF NewOps, OldOps
<1>11. /\ s.ok /\ s.lines = Append(begun.lines, text) /\ s.nl = FALSE /\ s.cursor = begun.cursor + 0
  <2>1. o.op \in OldOps => begun.cursor < Len(lines) /\ lines[begun.cursor + 1] = o.text
    BY <1>10
  <2>2. begun.ok
    BY <1>6
  <2>3. /\ s.ok
        /\ s.lines = IF o.op \in NewOps THEN Append(begun.lines, o.text) ELSE begun.lines
        /\ s.nl = IF o.op \in NewOps THEN o.nl ELSE begun.nl
        /\ s.cursor = begun.cursor + (IF o.op \in OldOps THEN 1 ELSE 0)
    BY <1>8, <2>1, <2>2, OpStep
  <2> HIDE DEF s
  <2> QED BY <1>0, <1>10, <2>3
<1> HIDE DEF s
<1>12. s.ok = TRUE
  <2>1. Append(front, HunkOf(zero, zero, Append(ops, o))) \in Seq(Hunks)
    <3>1. Append(ops, o) \in Seq(AnyOp)
      BY AppendProperties
    <3>2. HunkOf(zero, zero, Append(ops, o)) \in Hunks
      BY <3>1, HunkTypes
    <3> QED BY <3>2, LastAppend
  <2>2. s \in Within(lines)
    BY <1>9, <2>1, BuildingWithin
  <2>3. s.ok \in BOOLEAN
    BY <2>2 DEF Within, States
  <2> QED BY <1>11, <2>3
<1>13. s.lines = <<text>> /\ s.cursor = 0
  BY <1>6, <1>11
<1> QED BY <1>9, <1>11, <1>12, <1>13 DEF Makes

LEMMA CreatedText ==
    /\ BuildNew([lines |-> <<>>, nl |-> TRUE], Made.hunks) = Text(<<AnyLine>>, FALSE)
    /\ Made \in PatchFile /\ Closed(Made)
<1> DEFINE o == CutOp("+", AnyLine)
           none == <<>>
           zero == 0
           hunks == Append(none, HunkOf(zero, zero, Append(none, o)))
<1>1. none \in Seq(Texts) /\ none \in Seq(Hunks) /\ none \in Seq(AnyOp) /\ none = <<>> /\ zero \in Nat /\ zero = 0
  OBVIOUS
<1>2. AnyLine \in Texts /\ o \in AnyOp /\ o.op = "+" /\ o.text = AnyLine /\ o.nl = FALSE
  BY AnyLineIs DEF CutOp, AnyOp, LineOps
<1>3. hunks = <<HunkOf(0, 0, <<o>>)>>
  OBVIOUS
<1> HIDE DEF o, zero
<1>4. hunks \in Seq(Hunks) /\ Append(none, o) \in Seq(AnyOp) /\ HunkOf(zero, zero, Append(none, o)) \in Hunks
  <2>1. Append(none, o) \in Seq(AnyOp)
    BY <1>2
  <2>2. HunkOf(zero, zero, Append(none, o)) \in Hunks
    <3> HIDE DEF none
    <3> QED BY <1>1, <2>1, HunkTypes
  <2>3. hunks \in Seq(Hunks)
    BY <2>2
  <2> QED BY <2>1, <2>2, <2>3
<1>5. Made = FileOf("/dev/null", "name", hunks)
  BY <1>3 DEF Made, o
<1> HIDE DEF none
<1>6. PICK s : Building(none, hunks, s) /\ s.ok = TRUE /\ s.lines = <<AnyLine>> /\ s.cursor = 0 /\ s.nl = FALSE
  <2> DEFINE text == AnyLine
             lines == none
             front == none
             ops == none
  <2>1. text \in Texts /\ o \in AnyOp /\ Inserts(o, text)
    BY <1>2 DEF Inserts
  <2>2. zero \in Nat /\ None(zero)
    BY <1>1 DEF None
  <2>3. lines \in Seq(Texts) /\ Blank(lines)
    BY <1>1 DEF Blank
  <2>4. front \in Seq(Hunks) /\ Blank(front)
    BY <1>1 DEF Blank
  <2>5. ops \in Seq(AnyOp) /\ Blank(ops)
    BY <1>1 DEF Blank
  <2>6. lines = none /\ hunks = Append(front, HunkOf(zero, zero, Append(ops, o)))
    OBVIOUS
  <2> HIDE DEF text, lines, front, ops, hunks
  <2>7. Makes(lines, Append(front, HunkOf(zero, zero, Append(ops, o))), text)
    BY <2>1, <2>2, <2>3, <2>4, <2>5, CreatedBuilding
  <2>8. Makes(none, hunks, text)
    BY <2>6, <2>7
  <2> QED BY <2>8 DEF Makes, text
<1>7. Made \in PatchFile /\ Made.hunks = hunks
  <2>1. "/dev/null" \in PathKinds /\ "name" \in PathKinds
    BY DEF PathKinds
  <2> HIDE DEF hunks
  <2> QED BY <1>4, <1>5, <2>1, FileTypes
<1>8. Closed(Made)
  <2> DEFINE h == HunkOf(zero, zero, Append(none, o))
  <2>1. hunks # <<>> /\ Last(hunks) = h
    <3> HIDE DEF h
    <3>1. h \in Hunks
      BY <1>4 DEF h
    <3>2. hunks = Append(none, h)
      BY DEF h
    <3> HIDE DEF hunks
    <3> QED BY <1>1, <3>1, <3>2, LastAppend
  <2>2. h.len = zero /\ h.ops = Append(none, o)
    <3> DEFINE more == Append(none, o)
    <3>1. more \in Seq(AnyOp) /\ zero \in Nat
      BY <1>1, <1>4
    <3> HIDE DEF more
    <3>2. HunkOf(zero, zero, more).len = zero /\ HunkOf(zero, zero, more).ops = more
      BY <3>1, HunkTypes
    <3> QED BY <3>2 DEF more
  <2>3. Cardinality(OldLines(Append(none, o))) = 0
    <3>1. Cardinality(OldLines(Append(none, o))) = Cardinality(OldLines(none)) + (IF o.op \in OldOps THEN 1 ELSE 0)
      BY <1>1, <1>2, CountMore
    <3>2. Cardinality(OldLines(none)) = 0
      BY <1>1, CountNone
    <3>3. o.op \notin OldOps
      BY <1>2 DEF OldOps
    <3> QED BY <3>1, <3>2, <3>3
  <2>4. Counts(h)
    BY <1>1, <2>2, <2>3 DEF Counts
  <2> HIDE DEF hunks, h
  <2> QED BY <1>7, <2>1, <2>4 DEF Closed
<1> DEFINE out == s.lines \o SubSeq(none, s.cursor + 1, Len(none))
<1>9. BuildNew([lines |-> none, nl |-> TRUE], hunks) =
         [ok |-> s.ok, lines |-> IF s.ok THEN out ELSE <<>>, nl |-> out = <<>> \/ s.nl]
  <2> HIDE DEF hunks
  <2> QED BY <1>1, <1>4, <1>6, BuildIs
<1>10. out = <<AnyLine>>
  <2>1. Len(none) = 0
    BY <1>1
  <2>2. SubSeq(none, 1, 0) = <<>>
    BY SubSeqEmpty
  <2>3. <<AnyLine>> \o <<>> = <<AnyLine>>
    OBVIOUS
  <2>4. s.cursor + 1 = 1
    BY <1>6
  <2>5. SubSeq(none, s.cursor + 1, Len(none)) = <<>>
    BY <2>1, <2>2, <2>4
  <2> QED BY <1>6, <2>3, <2>5
<1> HIDE DEF out
<1>11. (out = <<>> \/ s.nl) = FALSE
  BY <1>6, <1>10
<1>12. BuildNew([lines |-> none, nl |-> TRUE], hunks) = [ok |-> TRUE, lines |-> <<AnyLine>>, nl |-> FALSE]
  <2> HIDE DEF hunks
  <2> QED BY <1>6, <1>9, <1>10, <1>11
<1> HIDE DEF hunks
<1> QED BY <1>7, <1>8, <1>12 DEF Text, none

LEMMA PairIs ==
    ASSUME NEW S, NEW x \in S, NEW y \in S, NEW s \in Seq(S), s = <<x>>
    PROVE  Append(s, y) = <<x, y>>
<1> DEFINE pair == <<x, y>>
<1>1. Len(s) = 1 /\ s[1] = x
  OBVIOUS
<1>2. pair \in Seq(S) /\ Len(pair) = 2 /\ pair[1] = x /\ pair[2] = y
  OBVIOUS
<1> HIDE DEF pair
<1> DEFINE t == Append(s, y)
<1>3. t \in Seq(S)
  BY AppendProperties
<1>4. Len(t) = Len(s) + 1
  BY AppendProperties
<1>5. t[Len(s) + 1] = y
  BY AppendProperties
<1>6. \A i \in 1 .. Len(s) : t[i] = s[i]
  BY AppendProperties
<1> HIDE DEF t
<1>7. Len(t) = 2 /\ t[1] = x /\ t[2] = y
  BY <1>1, <1>3, <1>4, <1>5, <1>6
<1>8. t = pair
  BY <1>2, <1>3, <1>7
<1> QED BY <1>8 DEF pair, t

(* The parsed files of a diff whose lines all stand. *)
LEMMA FilesOf ==
    ASSUME NEW d \in Diffs, NEW full \in Seq(DiffLine),
           DiffOf(d) = full \o (IF d.creates THEN Creation ELSE <<>>),
           NEW file \in PatchFile, Closed(file), Parses(full, Open(<<>>, file))
    PROVE  Parse(DiffOf(d)) = IF d.creates THEN <<file, Made>> ELSE <<file>>
<1>1. MaxFiles \in Nat /\ MaxFiles >= 2
  BY AlgorithmsAssumption, PatchAssumption
<1>2. Creation \in Seq(DiffLine)
  BY CreationLines
<1>3. CASE d.creates
  <2> DEFINE diff == full \o Creation
             done == <<file>>
  <2>1. diff \in Seq(DiffLine) /\ DiffOf(d) = diff
    BY <1>2, <1>3
  <2>2. done \in Seq(PatchFile) /\ Append(done, Made) = <<file, Made>> /\ Len(<<file, Made>>) = 2
    <3>1. Made \in PatchFile
      BY CreatedText
    <3>2. done \in Seq(PatchFile) /\ done = <<file>>
      OBVIOUS
    <3>3. Len(<<file, Made>>) = 2
      OBVIOUS
    <3> HIDE DEF done
    <3> QED BY <3>1, <3>2, <3>3, PairIs
  <2>3. Parses(diff, Open(done, Made))
    BY CreationRead
  <2>4. Made \in PatchFile /\ Closed(Made)
    BY CreatedText
  <2> HIDE DEF diff, done
  <2>5. Open(done, Made).mode = "hunks" /\ Open(done, Made).files = <<file, Made>>
        /\ Last(Open(done, Made).files) = Made
    BY <2>2, <2>4, OpenIs
  <2> DEFINE s == Open(done, Made)
  <2> HIDE DEF s
  <2>6. Parse(diff) = IF s.mode = "hunks" /\ Closed(Last(s.files)) /\ Len(s.files) =< MaxFiles
                      THEN s.files ELSE <<>>
    BY <2>1, <2>3, ParseIs DEF s
  <2>7. s.mode = "hunks" /\ Closed(Last(s.files)) /\ s.files = <<file, Made>> /\ Len(s.files) =< MaxFiles
    BY <1>1, <2>2, <2>4, <2>5 DEF s
  <2> QED BY <1>3, <2>1, <2>6, <2>7
<1>4. CASE ~d.creates
  <2> DEFINE none == <<>>
  <2>1. none \in Seq(PatchFile) /\ Append(none, file) = <<file>> /\ Len(<<file>>) = 1
    OBVIOUS
  <2>2. DiffOf(d) = full
    BY <1>4, ConcatEmptySeq
  <2>3. Parses(full, Open(none, file))
    OBVIOUS
  <2> HIDE DEF none
  <2>4. Open(none, file).mode = "hunks" /\ Open(none, file).files = <<file>>
        /\ Last(Open(none, file).files) = file
    BY <2>1, OpenIs
  <2> DEFINE s == Open(none, file)
  <2> HIDE DEF s
  <2>5. Parse(full) = IF s.mode = "hunks" /\ Closed(Last(s.files)) /\ Len(s.files) =< MaxFiles
                      THEN s.files ELSE <<>>
    BY <2>3, ParseIs DEF s
  <2>6. s.mode = "hunks" /\ Closed(Last(s.files)) /\ s.files = <<file>> /\ Len(s.files) =< MaxFiles
    BY <1>1, <2>1, <2>4 DEF s
  <2> QED BY <1>4, <2>2, <2>5, <2>6
<1>5. d.creates \in BOOLEAN
  BY DiffTypes
<1> QED BY <1>3, <1>4, <1>5

(* The diff of a script is that of the lines it shows, with the section    *)
(* that creates a file behind it.                                          *)
LEMMA DiffIs ==
    ASSUME NEW d \in Diffs
    PROVE  LET shown == Shown(d.script, d.context)
               full  == Section("name", "name", PrintedAll(d.script, shown, d.oldNl, d.newNl))
           IN  /\ Shows(d.script, shown)
               /\ full \in Seq(DiffLine)
               /\ DiffOf(d) = full \o (IF d.creates THEN Creation ELSE <<>>)
               /\ Placed("name", "name", d.script, shown, d.oldNl, d.newNl, Len(d.script), full)
<1> DEFINE shown == Shown(d.script, d.context)
           printed == PrintedAll(d.script, shown, d.oldNl, d.newNl)
           name == "name"
<1>1. Shows(d.script, shown)
  BY DiffTypes, ShowsChanges
<1>2. name \in PathKinds /\ ~Unpatchable(name, name)
  BY DEF PathKinds, Unpatchable
<1>3. printed = UnifiedDiff(d.script, d.context, d.oldNl, d.newNl)
  BY DEF PrintedAll, UnifiedDiff
<1>4. DiffOf(d) = Section(name, name, printed) \o (IF d.creates THEN Creation ELSE <<>>)
  BY <1>3 DEF DiffOf
<1> HIDE DEF shown, name
<1>5. printed \in Seq(DiffLine)
  BY <1>1, PrintedType
<1>6. Section(name, name, printed) \in Seq(DiffLine)
  <2> HIDE DEF printed
  <2> QED BY <1>2, <1>5, SectionLines
<1>7. Placed(name, name, d.script, shown, d.oldNl, d.newNl, Len(d.script), Section(name, name, printed))
  BY <1>1, <1>2, PlacedAll
<1> QED BY <1>1, <1>4, <1>6, <1>7 DEF shown, name

(* With a line that reads as a header the diff is refused. *)
LEMMA DiffRefused ==
    ASSUME NEW d \in Diffs, NEW full \in Seq(DiffLine),
           DiffOf(d) = full \o (IF d.creates THEN Creation ELSE <<>>), Parses(full, Refused)
    PROVE  Parse(DiffOf(d)) = <<>>
<1>1. Creation \in Seq(DiffLine) /\ d.creates \in BOOLEAN
  BY CreationLines, DiffTypes
<1>2. Parses(DiffOf(d), Refused) /\ DiffOf(d) \in Seq(DiffLine)
  <2>1. CASE d.creates
    BY <1>1, <2>1, CreationRefused, ConcatProperties
  <2>2. CASE ~d.creates
    BY <2>2, ConcatEmptySeq
  <2> QED BY <1>1, <2>1, <2>2
<1>3. Refused.mode # "hunks"
  BY DEF Refused
<1> QED BY <1>2, <1>3, NotOpenRefused

LEMMA AnchoredDiff ==
    ASSUME NEW script, NEW context, ~Bare(script, context)
    PROVE  Anchored(script, Shown(script, context))
BY Zenon DEF Anchored, Bare

(* A diff that is accepted makes the second file of the first. *)
LEMMA DiffApplied ==
    ASSUME NEW d \in Diffs, ~Bare(d.script, d.context), EndShown(d.script, d.context, d.newNl)
    PROVE  \/ ApplyDiff(d) = [refused |-> TRUE] /\ Risky(d.script)
           \/ ApplyDiff(d) = [refused |-> FALSE,
                              built |-> Text(Side(d.script, NewOps), d.newNl),
                              others |-> IF d.creates THEN <<Text(<<AnyLine>>, FALSE)>> ELSE <<>>]
<1> DEFINE script == d.script
           shown == Shown(script, d.context)
           full == Section("name", "name", PrintedAll(script, shown, d.oldNl, d.newNl))
           n == Len(script)
<1>1. /\ Shows(script, shown) /\ full \in Seq(DiffLine)
      /\ DiffOf(d) = full \o (IF d.creates THEN Creation ELSE <<>>)
      /\ Placed("name", "name", script, shown, d.oldNl, d.newNl, n, full)
  BY DiffIs
<1>2. /\ script \in Scripts /\ d.oldNl \in BOOLEAN /\ d.newNl \in BOOLEAN /\ d.creates \in BOOLEAN
      /\ Changed(script) /\ Consistent(script, d.oldNl, d.newNl)
  BY DiffTypes
<1>3. Anchored(script, shown)
  BY AnchoredDiff
<1>4. d.newNl \/ \E i \in shown : IsLast(script, i, NewOps)
  BY DEF EndShown
<1> HIDE DEF script, shown, full
<1>5. CASE Rejects("name", "name", full) /\ \E j \in 1 .. n : RiskyLine(script[j])
  <2>1. Parse(DiffOf(d)) = <<>>
    BY <1>1, <1>5, DiffRefused DEF Rejects
  <2>2. ApplyDiff(d) = [refused |-> TRUE]
    BY <2>1, Zenon DEF ApplyDiff
  <2>3. Risky(script)
    <3>1. DOMAIN script = 1 .. n
      BY <1>2 DEF Scripts
    <3>2. \E j \in DOMAIN script : RiskyLine(script[j])
      BY <1>5, <3>1
    <3> QED BY <3>2, Zenon DEF Risky, RiskyLine
  <2> QED BY <2>2, <2>3 DEF script
<1>6. ASSUME NEW hunks, StandsAt("name", "name", script, shown, d.oldNl, d.newNl, n, full, hunks)
      PROVE  ApplyDiff(d) = [refused |-> FALSE,
                              built |-> Text(Side(script, NewOps), d.newNl),
                              others |-> IF d.creates THEN <<Text(<<AnyLine>>, FALSE)>> ELSE <<>>]
  <2>1. /\ Stands("name", "name", full, hunks) /\ InHunk(script, shown, n, hunks)
        /\ Halfway(script, shown, d.newNl, n, hunks)
    BY <1>2, <1>3, <1>6 DEF StandsAt
  <2> DEFINE file == FileOf("name", "name", hunks)
  <2>2. hunks \in Seq(Hunks) /\ file \in PatchFile /\ Closed(file) /\ file.hunks = hunks
    BY <1>1, <1>2, <2>1, FileRead
  <2>3. Parses(full, Open(<<>>, file))
    BY <2>1 DEF Stands
  <2> HIDE DEF file
  <2> DEFINE parsed == Parse(DiffOf(d))
  <2>4. parsed = IF d.creates THEN <<file, Made>> ELSE <<file>>
    BY <1>1, <2>2, <2>3, FilesOf
  <2>5. BuildNew([lines |-> Side(script, OldOps), nl |-> d.oldNl], hunks) = Text(Side(script, NewOps), d.newNl)
    BY <1>1, <1>2, <1>4, <2>1, <2>2, NewText
  <2>6. ApplyDiff(d) = IF parsed = <<>> THEN [refused |-> TRUE]
           ELSE [refused |-> FALSE,
                 built |-> BuildNew([lines |-> Side(script, OldOps), nl |-> d.oldNl], parsed[1].hunks),
                 others |-> [i \in 1 .. Len(parsed) - 1 |->
                                BuildNew([lines |-> <<>>, nl |-> TRUE], parsed[i + 1].hunks)]]
    BY Zenon DEF ApplyDiff, script
  <2>7. /\ parsed # <<>> /\ parsed[1] = file /\ Len(parsed) = IF d.creates THEN 2 ELSE 1
        /\ d.creates => parsed[2] = Made
    <3> HIDE DEF parsed
    <3> QED BY <2>4
  <2>8. BuildNew([lines |-> Side(script, OldOps), nl |-> d.oldNl], parsed[1].hunks) = Text(Side(script, NewOps), d.newNl)
    BY <2>2, <2>5, <2>7, Zenon
  <2> DEFINE Other(f) == BuildNew([lines |-> <<>>, nl |-> TRUE], f.hunks)
             others == [i \in 1 .. Len(parsed) - 1 |-> Other(parsed[i + 1])]
             created == Text(<<AnyLine>>, FALSE)
  <2>9. Other(Made) = created
    BY CreatedText
  <2>10. others = IF d.creates THEN <<created>> ELSE <<>>
    <3> HIDE DEF parsed, Other, created
    <3>1. CASE d.creates
      <4>1. Len(parsed) - 1 = 1 /\ parsed[1 + 1] = Made
        BY <2>7, <3>1
      <4>2. others = [i \in 1 .. 1 |-> Other(parsed[i + 1])]
        BY <4>1
      <4>3. \A i \in 1 .. 1 : Other(parsed[i + 1]) = created
        BY <2>9, <4>1
      <4>4. others = [i \in 1 .. 1 |-> created]
        BY <4>2, <4>3
      <4>5. <<created>> = [i \in 1 .. 1 |-> created]
        OBVIOUS
      <4> QED BY <3>1, <4>4, <4>5
    <3>2. CASE ~d.creates
      <4>1. Len(parsed) - 1 = 0
        BY <2>7, <3>2
      <4>2. others = [i \in 1 .. 0 |-> Other(parsed[i + 1])]
        BY <4>1
      <4>3. [i \in 1 .. 0 |-> Other(parsed[i + 1])] = <<>>
        OBVIOUS
      <4> QED BY <3>2, <4>2, <4>3
    <3> QED BY <3>1, <3>2
  <2>11. ApplyDiff(d) = [refused |-> FALSE,
                 built |-> BuildNew([lines |-> Side(script, OldOps), nl |-> d.oldNl], parsed[1].hunks),
                 others |-> others]
    BY <2>6, <2>7, Zenon
  <2> HIDE DEF others, parsed, Other
  <2> QED BY <2>8, <2>10, <2>11, Zenon
<1> HIDE DEF n
<1>7. CASE \E hunks : StandsAt("name", "name", script, shown, d.oldNl, d.newNl, n, full, hunks)
  <2>1. ApplyDiff(d) = [refused |-> FALSE,
                        built |-> Text(Side(script, NewOps), d.newNl),
                        others |-> IF d.creates THEN <<Text(<<AnyLine>>, FALSE)>> ELSE <<>>]
    BY <1>6, <1>7, Zenon
  <2> QED BY <2>1, Zenon DEF script
<1>8. \/ Rejects("name", "name", full) /\ \E j \in 1 .. n : RiskyLine(script[j])
      \/ \E hunks : StandsAt("name", "name", script, shown, d.oldNl, d.newNl, n, full, hunks)
  BY <1>1, Zenon DEF Placed
<1> QED BY <1>5, <1>7, <1>8

-----------------------------------------------------------------------------
(* What is computed of an input is what parse and build_new make of it.    *)
Answered(x) ==
    /\ x.kind = "diff" => output = [ok |-> TRUE, diff |-> ApplyDiff(x)]
    /\ x.kind = "parse" => output = [ok |-> TRUE, files |-> Parse(CutDiff(x))]
    /\ x.kind = "hunks" =>
          output = [ok |-> TRUE, hunks |-> BuildNew([lines |-> x.lines, nl |-> TRUE], x.hunks)]

Tried ==
    /\ input \in Diffs \cup Cuts \cup Placings \cup Searches
    /\ output = NoOutput \/ Answered(input)

LEMMA KindsApart ==
    /\ \A d \in Diffs : d.kind = "diff"
    /\ \A c \in Cuts : c.kind = "parse"
    /\ \A p \in Placings : p.kind = "hunks"
    /\ \A s \in Searches : s.kind = "search"
BY DEF Diffs, Cuts, Placings, Searches

LEMMA TriedInputs ==
    ASSUME Tried
    PROVE  /\ Computed("diff") => input \in Diffs /\ output.diff = ApplyDiff(input)
           /\ Computed("parse") => input \in Cuts /\ output.files = Parse(CutDiff(input))
           /\ Computed("hunks") =>
                 /\ input \in Placings
                 /\ output.hunks = BuildNew([lines |-> input.lines, nl |-> TRUE], input.hunks)
<1>1. ASSUME NEW kind, Computed(kind) PROVE input.kind = kind /\ Answered(input)
  BY <1>1 DEF Tried, Computed, NoOutput
<1>2. /\ input.kind = "diff" => input \in Diffs
      /\ input.kind = "parse" => input \in Cuts
      /\ input.kind = "hunks" => input \in Placings
  BY KindsApart DEF Tried
<1>3. CASE Computed("diff")
  BY <1>1, <1>2, <1>3 DEF Answered, Computed
<1>4. CASE Computed("parse")
  BY <1>1, <1>2, <1>4 DEF Answered, Computed
<1>5. CASE Computed("hunks")
  <2> DEFINE answer == BuildNew([lines |-> input.lines, nl |-> TRUE], input.hunks)
  <2>1. input.kind = "hunks" /\ input \in Placings
    BY <1>1, <1>2, <1>5
  <2>2. output = [ok |-> TRUE, hunks |-> answer]
    BY <1>1, <1>5, <2>1, Zenon DEF Answered
  <2> HIDE DEF answer
  <2>3. output.hunks = answer
    BY <2>2
  <2>4. ~Computed("diff") /\ ~Computed("parse")
    BY <2>1 DEF Computed
  <2> QED BY <2>1, <2>3, <2>4 DEF answer
<1> QED BY <1>3, <1>4, <1>5

LEMMA TriedStep == Tried /\ [TextNext]_textVars => Tried'
<1> SUFFICES ASSUME Tried, [TextNext]_textVars PROVE Tried'
  OBVIOUS
<1> USE DEF Tried, Answered
<1>1. CASE ComputeDiff
  BY <1>1 DEF ComputeDiff
<1>2. CASE ComputeParse
  BY <1>2 DEF ComputeParse
<1>3. CASE ComputeHunks
  BY <1>3 DEF ComputeHunks
<1>4. CASE ComputeSearch
  BY <1>4 DEF ComputeSearch
<1>5. CASE UNCHANGED textVars
  BY <1>5 DEF textVars
<1> QED BY <1>1, <1>2, <1>3, <1>4, <1>5 DEF TextNext

LEMMA TriedCorrect == TextSpec => []Tried
<1>1. TextInit => Tried
  BY DEF TextInit, Tried
<1> QED BY <1>1, TriedStep, PTL DEF TextSpec

(* Whatever the texts, the file and the hunks, however many and long: they *)
(* apply exactly when each finds its old lines where it says, in order,    *)
(* and then these are replaced and no other line is touched.               *)
THEOREM HunksExactCorrect == TextSpec => []HunksExact
<1>1. Tried => HunksExact
  <2> SUFFICES ASSUME Tried, Computed("hunks")
               PROVE  (output.hunks.ok <=> Fits(input))
                      /\ (output.hunks.ok => output.hunks.lines = Spliced(input))
    BY DEF HunksExact
  <2>1. /\ input \in Placings
        /\ output.hunks = BuildNew([lines |-> input.lines, nl |-> TRUE], input.hunks)
    BY TriedInputs
  <2>2. input.lines \in Seq(Texts) /\ input.hunks \in Seq(Hunks)
    BY <2>1, PlacingTypes
  <2> QED BY <2>1, <2>2, BuildExact
<1> QED BY <1>1, TriedCorrect, PTL

(* However long the script that a diff was made of, and wherever the diff  *)
(* is cut off: parse accepts what is left exactly when it has all the old  *)
(* lines of its last hunk, names no path out of bounds, deletes no file    *)
(* and has no further line that reads as a header of a file.               *)
THEOREM ParseRefusesCorrect == TextSpec => []ParseRefuses
<1>1. Tried => ParseRefuses
  <2> SUFFICES ASSUME Tried, Computed("parse") PROVE output.files # <<>> <=> Understood(input)
    BY DEF ParseRefuses
  <2>1. input \in Cuts /\ output.files = Parse(CutDiff(input))
    BY TriedInputs
  <2>2. Parse(CutDiff(input)) # <<>> <=> Understood(input)
    BY <2>1, CutRead
  <2> QED BY <2>1, <2>2, Zenon
<1> QED BY <1>1, TriedCorrect, PTL

(* Whatever the texts, the two versions of a file and the context: parse   *)
(* and build_new make the second version of the first and its diff, final  *)
(* newline and all, and the file that a second section creates; only a     *)
(* diff with a line that reads as a header may be refused instead.         *)
THEOREM PatchRebuildsCorrect == TextSpec => []PatchRebuilds
<1>1. Tried => PatchRebuilds
  <2> SUFFICES ASSUME Tried, Computed("diff"), ~Bare(input.script, input.context),
                      EndShown(input.script, input.context, input.newNl)
               PROVE  Rebuilt(input) \/ (output.diff.refused /\ Risky(input.script))
    BY DEF PatchRebuilds
  <2>1. input \in Diffs /\ output.diff = ApplyDiff(input)
    BY TriedInputs
  <2> DEFINE built == Text(Side(input.script, NewOps), input.newNl)
             others == IF input.creates THEN <<Text(<<AnyLine>>, FALSE)>> ELSE <<>>
  <2>2. \/ ApplyDiff(input) = [refused |-> TRUE] /\ Risky(input.script)
        \/ ApplyDiff(input) = [refused |-> FALSE, built |-> built, others |-> others]
    BY <2>1, DiffApplied
  <2> HIDE DEF built, others
  <2>3. CASE ApplyDiff(input) = [refused |-> TRUE] /\ Risky(input.script)
    BY <2>1, <2>3
  <2>4. CASE ApplyDiff(input) = [refused |-> FALSE, built |-> built, others |-> others]
    <3>1. ~output.diff.refused /\ output.diff.built = built /\ output.diff.others = others
      BY <2>1, <2>4
    <3> QED BY <3>1, Zenon DEF Rebuilt, built, others
  <2> QED BY <2>2, <2>3, <2>4
<1> QED BY <1>1, TriedCorrect, PTL
=============================================================================
