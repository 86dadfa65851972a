---------------------------- MODULE StateFileProofs ----------------------------
(* Theorems about StateFile, for any threads, directories and number of    *)
(* changes.                                                                *)
EXTENDS StateFile, NaturalSets, SequenceTheorems

(* The todo list: what a change makes of a list without equal ids.         *)
Unique(items) == \A i, j \in DOMAIN items : items[i].id = items[j].id => i = j

LEMMA ItemsProperties ==
    ASSUME NEW items \in Items
    PROVE  /\ Len(items) \in Nat /\ DOMAIN items = 1 .. Len(items)
           /\ \A i \in 1 .. Len(items) :
                 /\ items[i] \in [id : Nat \ {0}, by : 1 .. MaxChanges]
                 /\ items[i].id \in Nat \ {0}
           /\ IsFiniteSet(Ids(items)) /\ Ids(items) \subseteq Nat \ {0}
<1>1. Len(items) \in Nat /\ DOMAIN items = 1 .. Len(items)
  BY DEF Items
<1>2. \A i \in 1 .. Len(items) : items[i] \in [id : Nat \ {0}, by : 1 .. MaxChanges]
  BY ElementOfSeq DEF Items
<1>3. IsFiniteSet(Ids(items))
  <2>1. IsFiniteSet(1 .. Len(items))
    BY <1>1, FS_Interval
  <2> DEFINE f == [i \in 1 .. Len(items) |-> items[i].id]
  <2>2. f \in Surjection(1 .. Len(items), Ids(items))
    BY <1>1 DEF Surjection, Ids
  <2> HIDE DEF f
  <2> QED BY <2>1, <2>2, FS_Surjection
<1> QED BY <1>1, <1>2, <1>3 DEF Ids

LEMMA NextIdIsNew ==
    ASSUME NEW items \in Items
    PROVE  NextId(items) \in Nat \ {0} /\ NextId(items) \notin Ids(items)
<1>1. CASE items = <<>>
  BY <1>1, ItemsProperties DEF NextId, Ids
<1>2. CASE items # <<>>
  <2>1. Ids(items) # {}
    <3>1. Len(items) \in Nat \ {0}
      BY <1>2 DEF Items
    <3>2. 1 \in DOMAIN items
      BY <3>1, ItemsProperties
    <3> QED BY <3>2 DEF Ids
  <2>2. \E m \in Ids(items) : \A n \in Ids(items) : n =< m
    BY <2>1, ItemsProperties, GreatestNat
  <2> DEFINE m == CHOOSE m \in Ids(items) : \A n \in Ids(items) : n <= m
  <2>3. m \in Ids(items) /\ \A n \in Ids(items) : n =< m
    BY <2>2
  <2>4. NextId(items) = 1 + m
    BY <1>2 DEF NextId
  <2> HIDE DEF m
  <2> QED BY <2>3, <2>4, ItemsProperties
<1> QED BY <1>1, <1>2

LEMMA FirstProperties ==
    ASSUME NEW items \in Items, NEW id \in Ids(items)
    PROVE  First(items, id) \in 1 .. Len(items) /\ items[First(items, id)].id = id
<1> DEFINE S == {i \in DOMAIN items : items[i].id = id}
<1>1. S # {} /\ S \subseteq Nat
  BY ItemsProperties DEF Ids
<1>2. PICK i \in S : \A j \in S : i =< j
  BY <1>1, LeastNat
<1>3. i \in DOMAIN items /\ items[i].id = id /\ \A j \in 1 .. i - 1 : items[j].id # id
  BY <1>2, ItemsProperties
<1> QED BY <1>3, ItemsProperties DEF First

LEMMA ResultsUnique ==
    ASSUME NEW items \in Items, NEW n \in 1 .. MaxChanges, NEW r \in Results(items, n)
    PROVE  r \in Items /\ (Unique(items) => Unique(r))
<1> DEFINE Item == [id : Nat \ {0}, by : 1 .. MaxChanges]
<1>1. CASE r = Added(items, n)
  <2> DEFINE new == [id |-> NextId(items), by |-> n]
  <2>1. new \in Item /\ items \in Seq(Item)
    BY NextIdIsNew DEF Items
  <2>2. r = Append(items, new)
    BY <1>1 DEF Added
  <2>3. new.id \notin Ids(items)
    BY NextIdIsNew
  <2> HIDE DEF Item, new
  <2>4. /\ r \in Seq(Item) /\ Len(r) = Len(items) + 1
        /\ \A i \in 1 .. Len(items) : r[i] = items[i]
        /\ r[Len(items) + 1] = new
    BY <2>1, <2>2
  <2>5. DOMAIN r = 1 .. Len(items) + 1
    BY <2>4
  <2>6. Unique(items) => Unique(r)
    BY <2>3, <2>4, <2>5, ItemsProperties DEF Unique, Ids
  <2> QED BY <2>4, <2>6 DEF Items, Item
<1>2. CASE r = <<>>
  BY <1>2 DEF Items, Unique
<1>3. ASSUME NEW id \in Ids(items), r = Updated(items, id, n) PROVE r \in Items /\ (Unique(items) => Unique(r))
  <2> DEFINE f == First(items, id)
  <2>1. f \in 1 .. Len(items)
    BY FirstProperties
  <2>2. r = [items EXCEPT ![f] = [items[f] EXCEPT !.by = n]]
    BY <1>3 DEF Updated
  <2>3. [items[f] EXCEPT !.by = n] \in Item /\ [items[f] EXCEPT !.by = n].id = items[f].id
    BY <2>1, ItemsProperties
  <2> HIDE DEF f, Item
  <2>4. r \in Seq(Item) /\ Len(r) = Len(items)
    BY <2>1, <2>2, <2>3, ExceptSeq DEF Items, Item
  <2>5. DOMAIN r = DOMAIN items /\ \A i \in DOMAIN items : r[i].id = items[i].id
    BY <2>1, <2>2, <2>3
  <2> QED BY <2>4, <2>5 DEF Items, Item, Unique
<1>4. ASSUME NEW id \in Ids(items), r = Deleted(items, id) PROVE r \in Items /\ (Unique(items) => Unique(r))
  <2> DEFINE f == First(items, id)
             a == SubSeq(items, 1, f - 1)
             b == SubSeq(items, f + 1, Len(items))
  <2>1. f \in 1 .. Len(items) /\ Len(items) \in Nat
    BY FirstProperties, ItemsProperties
  <2>2. r = a \o b
    BY <1>4 DEF Deleted
  <2>3. items \in Seq(Item) /\ \A i \in 1 .. Len(items) : items[i] \in Item
    BY ItemsProperties DEF Items
  <2> HIDE DEF f, Item
  <2>4. /\ a \in Seq(Item) /\ Len(a) = f - 1
        /\ \A i \in 1 .. f - 1 : a[i] = items[i]
    BY <2>1, <2>3, SubSeqProperties
  <2>5. /\ b \in Seq(Item) /\ Len(b) = Len(items) - f
        /\ \A i \in 1 .. Len(items) - f : b[i] = items[f + i]
    BY <2>1, <2>3, SubSeqProperties
  <2> HIDE DEF a, b
  <2>6. /\ r \in Seq(Item) /\ Len(r) = Len(items) - 1
        /\ \A i \in 1 .. Len(items) - 1 : r[i] = IF i < f THEN items[i] ELSE items[i + 1]
    <3>1. /\ r \in Seq(Item) /\ Len(r) = Len(a) + Len(b)
          /\ \A i \in 1 .. Len(a) + Len(b) : r[i] = IF i <= Len(a) THEN a[i] ELSE b[i - Len(a)]
      BY <2>2, <2>4, <2>5, ConcatProperties
    <3>2. Len(a) + Len(b) = Len(items) - 1
      BY <2>1, <2>4, <2>5
    <3>3. ASSUME NEW i \in 1 .. Len(items) - 1
          PROVE  r[i] = IF i < f THEN items[i] ELSE items[i + 1]
      <4>1. CASE i < f
        BY <2>1, <2>4, <3>1, <3>2, <4>1
      <4>2. CASE i >= f
        <5>1. r[i] = b[i - (f - 1)] /\ i - (f - 1) \in 1 .. Len(items) - f
          BY <2>1, <2>4, <3>1, <3>2, <4>2
        <5>2. f + (i - (f - 1)) = i + 1
          BY <2>1
        <5> QED BY <2>1, <2>5, <4>2, <5>1, <5>2
      <4> QED BY <2>1, <4>1, <4>2
    <3> QED BY <3>1, <3>2, <3>3
  <2>7. DOMAIN r = 1 .. Len(items) - 1
    BY <2>6
  <2>8. ASSUME Unique(items) PROVE Unique(r)
    <3>1. \A i \in 1 .. Len(items) - 1 :
             \E k \in 1 .. Len(items) :
                r[i] = items[k] /\ k = IF i < f THEN i ELSE i + 1
      BY <2>1, <2>6
    <3>2. \A i, j \in 1 .. Len(items) : items[i].id = items[j].id => i = j
      BY <2>8, ItemsProperties DEF Unique
    <3>3. ASSUME NEW i \in 1 .. Len(items) - 1, NEW j \in 1 .. Len(items) - 1, r[i].id = r[j].id
          PROVE  i = j
      <4>1. PICK k \in 1 .. Len(items) : r[i] = items[k] /\ k = IF i < f THEN i ELSE i + 1
        BY <3>1
      <4>2. PICK l \in 1 .. Len(items) : r[j] = items[l] /\ l = IF j < f THEN j ELSE j + 1
        BY <3>1
      <4>3. k = l
        BY <3>2, <3>3, <4>1, <4>2
      <4> QED BY <2>1, <4>1, <4>2, <4>3
    <3> QED BY <2>7, <3>3 DEF Unique
  <2> QED BY <2>6, <2>8 DEF Items, Item
<1> QED BY <1>1, <1>2, <1>3, <1>4 DEF Results

-----------------------------------------------------------------------------
(* Types. *)

LEMMA Shapes ==
    /\ Workspace \in Dirs /\ Empty \in State /\ NoTodos \in Lists
    /\ \A s \in State : s.cwd \in Dirs /\ s.todos \in Lists
    /\ \A s \in State, d \in Dirs : [s EXCEPT !["cwd"] = d] \in State
    /\ \A s \in State, l \in Lists : [s EXCEPT !["todos"] = l] \in State
<1>1. <<>> \in Items
  BY DEF Items
<1>2. NoTodos \in Lists
  BY <1>1, StateAssumption DEF NoTodos, Lists
<1> QED BY <1>2, StateAssumption DEF Empty, State

LEMMA TypeStep == TypeOK /\ [Next]_vars => TypeOK'
<1> SUFFICES ASSUME TypeOK, [Next]_vars PROVE TypeOK'
  OBVIOUS
<1> USE Shapes, StateAssumption DEF TypeOK, Keys
<1>1. ASSUME NEW t \in Threads, NEW d \in Dirs, SetCwd(t, d) PROVE TypeOK'
  <2>1. \A u \in Threads : value'[u] \in IF key'[u] = "cwd" THEN Dirs ELSE Lists
    BY <1>1 DEF SetCwd
  <2> QED BY <1>1, <2>1 DEF SetCwd
<1>2. ASSUME NEW t \in Threads, ChangeTodos(t) PROVE TypeOK'
  <2>1. changes + 1 \in 1 .. MaxChanges /\ changes' = changes + 1 /\ changes' \in 0 .. MaxChanges
    BY <1>2 DEF ChangeTodos
  <2>2. PICK items \in Results(todos.items, changes + 1) :
           /\ todos' = [change |-> changes + 1, items |-> items]
           /\ value' = [value EXCEPT ![t] = todos']
    BY <1>2 DEF ChangeTodos
  <2>3. todos' \in Lists
    BY <2>1, <2>2, ResultsUnique DEF Lists
  <2>4. key' = [key EXCEPT ![t] = "todos"]
    BY <1>2 DEF ChangeTodos
  <2>5. \A u \in Threads : value'[u] \in IF key'[u] = "cwd" THEN Dirs ELSE Lists
    BY <2>2, <2>3, <2>4
  <2> QED BY <1>2, <2>1, <2>3, <2>5 DEF ChangeTodos
<1>3. ASSUME NEW t \in Threads, Load(t) PROVE TypeOK'
  <2>1. Readable \subseteq State
    BY DEF Readable
  <2> QED BY <1>3, <2>1 DEF Load, memory
<1>4. ASSUME NEW t \in Threads, Save(t) PROVE TypeOK'
  <2>1. Merged(t) \in State
    <3>1. CASE key[t] = "cwd"
      BY <3>1 DEF Merged
    <3>2. CASE key[t] = "todos"
      BY <3>2 DEF Merged
    <3> QED BY <3>1, <3>2
  <2>2. disk' \in State /\ stale' \in SUBSET Keys
    BY <1>4, <2>1 DEF Save
  <2>3. value' \in [Threads -> Dirs \cup Lists]
    BY <1>4 DEF Save
  <2>4. \A u \in Threads : value'[u] \in IF key'[u] = "cwd" THEN Dirs ELSE Lists
    BY <1>4 DEF Save
  <2> QED BY <1>4, <2>2, <2>3, <2>4 DEF Save, memory
<1>5. CASE Restart
  <2>1. cwd' \in Dirs /\ todos' \in Lists
    BY <1>5 DEF Restart, Readable
  <2>2. \A u \in Threads : value'[u] = Workspace /\ key'[u] = "cwd"
    BY <1>5 DEF Restart
  <2>3. stale' \in SUBSET Keys
    BY <1>5 DEF Restart
  <2> QED BY <1>5, <2>1, <2>2, <2>3 DEF Restart
<1>6. CASE UNCHANGED vars
  BY <1>6 DEF vars, memory
<1> QED BY <1>1, <1>2, <1>3, <1>4, <1>5, <1>6 DEF Next

(* Every variable has its type in every state.                             *)
THEOREM TypeCorrect == Spec => []TypeOK
<1>1. Init => TypeOK
  <2> SUFFICES ASSUME Init PROVE TypeOK
    OBVIOUS
  <2>1. \A t \in Threads : value[t] = Workspace /\ key[t] = "cwd"
    BY DEF Init
  <2>2. changes \in 0 .. MaxChanges
    BY StateAssumption DEF Init
  <2> QED BY <2>1, <2>2, Shapes, StateAssumption DEF Init, TypeOK, Keys
<1> QED BY <1>1, TypeStep, PTL DEF Spec

-----------------------------------------------------------------------------
(* The locks and the copies.  Who has read the file holds the store's lock *)
(* and has the file as it is, since only the holder replaces it; who saves *)
(* todos holds their lock and has the list as it is.                       *)
Copies ==
    \A t \in Threads :
        /\ pc[t] = "merge" <=> storeLock = t
        /\ pc[t] # "idle" /\ key[t] = "todos" <=> todoLock = t
        /\ pc[t] # "idle" /\ key[t] = "todos" => value[t] = todos
        /\ pc[t] = "merge" => data[t] = disk

(* The numbers of the lists: that on file is never ahead of that in memory. *)
Numbers == disk.todos.change =< todos.change /\ todos.change =< changes

(* While set_cwd calls have not overlapped there is one at most, which has *)
(* the directory as it is.                                                 *)
LoneSave ==
    ~crossed => \A t \in SavingCwd : value[t] = cwd /\ \A u \in SavingCwd : u = t

Inv == Copies /\ Numbers /\ LoneSave /\ TodosSaved /\ CwdSaved /\ IdsUnique

(* A file that is there can be read.                                       *)
CanRead == "read" \notin Faults

LEMMA InvInit == Init => Inv
<1> SUFFICES ASSUME Init PROVE Inv
  OBVIOUS
<1>1. Copies
  BY StateAssumption DEF Init, Copies
<1>2. Numbers
  BY DEF Init, Numbers, Empty, NoTodos
<1>3. LoneSave /\ TodosSaved /\ CwdSaved
  BY DEF Init, LoneSave, TodosSaved, CwdSaved, SavingCwd, Empty
<1>4. IdsUnique
  BY DEF Init, IdsUnique, Empty, NoTodos
<1> QED BY <1>1, <1>2, <1>3, <1>4 DEF Inv

LEMMA SetCwdStep ==
    ASSUME TypeOK, Inv, NEW t \in Threads, NEW d \in Dirs, SetCwd(t, d)
    PROVE  Inv'
<1> USE DEF TypeOK, Inv, SetCwd
<1>1. SavingCwd' = SavingCwd \cup {t}
  BY DEF SavingCwd
<1>2. Copies'
  BY DEF Copies
<1>3. Numbers'
  BY DEF Numbers
<1>4. LoneSave'
  BY <1>1 DEF LoneSave
<1>5. TodosSaved' /\ CwdSaved'
  BY <1>1 DEF TodosSaved, CwdSaved
<1>6. IdsUnique'
  BY DEF IdsUnique
<1> QED BY <1>2, <1>3, <1>4, <1>5, <1>6

LEMMA ChangeTodosStep ==
    ASSUME TypeOK, Inv, NEW t \in Threads, ChangeTodos(t)
    PROVE  Inv'
<1> USE DEF TypeOK, Inv
<1>1. PICK items \in Results(todos.items, changes + 1) :
         /\ todos' = [change |-> changes + 1, items |-> items]
         /\ value' = [value EXCEPT ![t] = todos']
  BY DEF ChangeTodos
<1>2. /\ pc[t] = "idle" /\ pc' = [pc EXCEPT ![t] = "save"] /\ key' = [key EXCEPT ![t] = "todos"]
      /\ todoLock = Nobody /\ todoLock' = t
      /\ UNCHANGED <<cwd, stale, crossed, disk, storeLock, data>>
      /\ changes < MaxChanges /\ changes' = changes + 1
  BY DEF ChangeTodos, TodosBusy
<1>3. SavingCwd' = SavingCwd
  BY <1>2 DEF SavingCwd
<1>4. Copies'
  BY <1>1, <1>2, StateAssumption DEF Copies
<1>5. Numbers'
  <2>1. todos'.change = changes + 1 /\ disk.todos.change \in Nat /\ todos.change \in Nat
    BY <1>1 DEF State, Lists
  <2> QED BY <1>2, <2>1 DEF Numbers
<1>6. LoneSave' /\ CwdSaved'
  BY <1>1, <1>2, <1>3 DEF LoneSave, CwdSaved, SavingCwd
<1>7. TodosSaved'
  BY <1>2, StateAssumption DEF TodosSaved
<1>8. IdsUnique'
  <2>1. changes + 1 \in 1 .. MaxChanges /\ todos.items \in Items
    BY <1>2, StateAssumption DEF Lists
  <2>2. Unique(todos.items) /\ Unique(disk.todos.items)
    BY DEF IdsUnique, Unique
  <2>3. Unique(items)
    BY <2>1, <2>2, ResultsUnique
  <2> QED BY <1>1, <1>2, <2>2, <2>3 DEF IdsUnique, Unique
<1> QED BY <1>4, <1>5, <1>6, <1>7, <1>8

LEMMA LoadStep ==
    ASSUME CanRead, TypeOK, Inv, NEW t \in Threads, Load(t)
    PROVE  Inv'
<1> USE DEF TypeOK, Inv
<1>1. /\ pc[t] = "save" /\ pc' = [pc EXCEPT ![t] = "merge"]
      /\ storeLock = Nobody /\ storeLock' = t
      /\ data' = [data EXCEPT ![t] = disk]
      /\ UNCHANGED <<memory, stale, crossed, disk, todoLock, key, value>>
  BY DEF Load, StoreBusy, Readable, CanRead
<1>2. SavingCwd' = SavingCwd
  BY <1>1 DEF SavingCwd
<1>3. Copies'
  BY <1>1, StateAssumption DEF Copies, memory
<1>4. Numbers' /\ TodosSaved' /\ IdsUnique'
  BY <1>1 DEF Numbers, TodosSaved, IdsUnique, memory
<1>5. LoneSave' /\ CwdSaved'
  BY <1>1, <1>2 DEF LoneSave, CwdSaved, memory
<1> QED BY <1>3, <1>4, <1>5

LEMMA SaveStep ==
    ASSUME TypeOK, Inv, NEW t \in Threads, Save(t)
    PROVE  /\ Inv'
           /\ disk'.cwd # disk.cwd => key[t] = "cwd"
           /\ disk'.todos # disk.todos => key[t] = "todos"
<1> USE DEF TypeOK, Inv
<1>1. /\ pc[t] = "merge" /\ pc' = [pc EXCEPT ![t] = "idle"]
      /\ storeLock = t /\ storeLock' = Nobody
      /\ todoLock' = IF todoLock = t THEN Nobody ELSE todoLock
      /\ key' = [key EXCEPT ![t] = "cwd"] /\ value' = [value EXCEPT ![t] = Workspace]
      /\ data' = [data EXCEPT ![t] = Empty]
      /\ UNCHANGED <<memory, crossed>>
  BY DEF Save, Copies
<1>2. \/ disk' = disk /\ stale' = stale \cup {key[t]}
      \/ disk' = [disk EXCEPT ![key[t]] = value[t]] /\ stale' = stale \ {key[t]}
  BY <1>1 DEF Save, Merged, Copies
<1>3. SavingCwd' = SavingCwd \ {t}
  BY <1>1 DEF SavingCwd
<1>4. Copies'
  BY <1>1, StateAssumption DEF Copies, memory
<1>5. CASE key[t] = "todos"
  <2>1. todoLock = t /\ todoLock' = Nobody /\ value[t] = todos /\ t \notin SavingCwd
    BY <1>1, <1>5 DEF Copies, SavingCwd
  <2>2. /\ disk'.cwd = disk.cwd
        /\ disk'.todos = disk.todos \/ disk'.todos = todos
        /\ "todos" \notin stale' => disk'.todos = todos
        /\ "cwd" \in stale' <=> "cwd" \in stale
    BY <1>2, <1>5, <2>1 DEF State
  <2>3. Numbers'
    BY <1>1, <2>2 DEF Numbers, memory, State, Lists
  <2>4. TodosSaved'
    BY <1>1, <2>2 DEF TodosSaved, memory
  <2>5. CwdSaved' /\ LoneSave'
    BY <1>1, <1>3, <2>1, <2>2 DEF CwdSaved, LoneSave, memory
  <2>6. IdsUnique'
    BY <1>1, <2>2 DEF IdsUnique, memory
  <2> QED BY <1>4, <1>5, <2>2, <2>3, <2>4, <2>5, <2>6
<1>6. CASE key[t] = "cwd"
  <2>1. todoLock # t /\ todoLock' = todoLock /\ t \in SavingCwd
    BY <1>1, <1>6 DEF Copies, SavingCwd
  <2>2. /\ disk'.todos = disk.todos
        /\ "cwd" \notin stale' => disk'.cwd = value[t]
        /\ "todos" \in stale' <=> "todos" \in stale
    BY <1>2, <1>6, <2>1 DEF State
  <2>3. Numbers' /\ IdsUnique'
    BY <1>1, <2>2 DEF Numbers, IdsUnique, memory
  <2>4. TodosSaved'
    BY <1>1, <2>1, <2>2 DEF TodosSaved, memory
  <2>5. CwdSaved' /\ LoneSave'
    BY <1>1, <1>3, <2>1, <2>2 DEF CwdSaved, LoneSave, memory
  <2> QED BY <1>4, <1>6, <2>2, <2>3, <2>4, <2>5
<1> QED BY <1>5, <1>6 DEF Keys

LEMMA RestartStep ==
    ASSUME CanRead, TypeOK, Inv, Restart
    PROVE  Inv'
<1> USE DEF TypeOK, Inv
<1>1. /\ todos' = disk.todos /\ disk' = disk /\ changes' = changes
      /\ stale' = {k \in Keys : k = "cwd" /\ cwd' # disk.cwd}
      /\ crossed' = FALSE /\ todoLock' = Nobody /\ storeLock' = Nobody
      /\ pc' = [t \in Threads |-> "idle"]
  BY DEF Restart, Readable, CanRead
<1>2. SavingCwd' = {}
  BY <1>1 DEF SavingCwd
<1>3. Copies'
  BY <1>1, StateAssumption DEF Copies
<1>4. Numbers'
  BY <1>1 DEF Numbers, State, Lists
<1>5. TodosSaved' /\ IdsUnique'
  BY <1>1 DEF TodosSaved, IdsUnique
<1>6. LoneSave' /\ CwdSaved'
  BY <1>1, <1>2 DEF LoneSave, CwdSaved, Keys
<1> QED BY <1>3, <1>4, <1>5, <1>6

LEMMA InvStep == CanRead /\ TypeOK /\ Inv /\ [Next]_vars => Inv'
<1>1. Inv /\ UNCHANGED vars => Inv'
  BY DEF Inv, Copies, Numbers, LoneSave, TodosSaved, CwdSaved, IdsUnique, SavingCwd, vars, memory
<1> QED BY <1>1, SetCwdStep, ChangeTodosStep, LoadStep, SaveStep, RestartStep DEF Next

LEMMA InvCorrect == CanRead => (Spec => []Inv)
<1> SUFFICES ASSUME CanRead PROVE Spec => []Inv
  OBVIOUS
<1>1. TypeOK /\ Inv /\ [Next]_vars => Inv'
  BY InvStep
<1> QED BY <1>1, InvInit, TypeCorrect, PTL DEF Spec

(* Provided that the file can be read, it has the list that the tool shows *)
(* whenever no change is under way and the last save was good: killed at   *)
(* any point, the server starts again with a list it had.                  *)
THEOREM TodosSavedCorrect == CanRead => (Spec => []TodosSaved)
<1>1. Inv => TodosSaved
  BY DEF Inv
<1> QED BY <1>1, InvCorrect, PTL

(* So it has the directory, unless set_cwd calls have overlapped.          *)
THEOREM CwdSavedCorrect == CanRead => (Spec => []CwdSaved)
<1>1. Inv => CwdSaved
  BY DEF Inv
<1> QED BY <1>1, InvCorrect, PTL

(* No changes and restarts give two todos the same id.                     *)
THEOREM IdsUniqueCorrect == CanRead => (Spec => []IdsUnique)
<1>1. Inv => IdsUnique
  BY DEF Inv
<1> QED BY <1>1, InvCorrect, PTL

(* Only a save replaces the file.                                          *)
LEMMA DiskStep ==
    ASSUME TypeOK, Inv, [Next]_vars, disk' # disk
    PROVE  \E t \in Threads : Save(t)
BY DEF Next, SetCwd, ChangeTodos, Load, Restart, vars

(* A list on file never gives way to an older one.                         *)
THEOREM TodosForwardCorrect == CanRead => (Spec => TodosForward)
<1> SUFFICES ASSUME CanRead PROVE Spec => TodosForward
  OBVIOUS
<1>1. TypeOK /\ TypeOK' /\ Inv /\ [Next]_vars => [disk'.todos.change >= disk.todos.change]_vars
  <2> SUFFICES ASSUME TypeOK, TypeOK', Inv, [Next]_vars
               PROVE  disk'.todos.change >= disk.todos.change
    OBVIOUS
  <2>1. disk.todos.change \in Nat /\ todos.change \in Nat
    BY DEF TypeOK, State, Lists
  <2>2. CASE disk'.todos = disk.todos
    BY <2>1, <2>2
  <2>3. CASE disk'.todos # disk.todos
    <3>1. PICK t \in Threads : Save(t)
      BY <2>3, DiskStep
    <3>2. pc[t] = "merge" /\ key[t] = "todos" /\ value[t] = todos
      BY <2>3, <3>1, SaveStep DEF Save, Inv, Copies
    <3>3. disk'.todos = todos
      BY <2>3, <3>1, <3>2 DEF Save, Merged, Inv, Copies, TypeOK, State
    <3> QED BY <2>1, <3>3 DEF Inv, Numbers
  <2> QED BY <2>2, <2>3
<1> QED BY <1>1, InvCorrect, TypeCorrect, PTL DEF Spec, TodosForward

(* A save never undoes what was saved under the other key.                 *)
THEOREM OtherKeyKeptCorrect == CanRead => (Spec => OtherKeyKept)
<1> SUFFICES ASSUME CanRead PROVE Spec => OtherKeyKept
  OBVIOUS
<1>1. TypeOK /\ Inv /\ [Next]_vars =>
        [\A k \in Keys :
            disk'[k] # disk[k] => \E t \in Threads : pc[t] = "merge" /\ key[t] = k]_vars
  <2> SUFFICES ASSUME TypeOK, Inv, [Next]_vars, NEW k \in Keys, disk'[k] # disk[k]
               PROVE  \E t \in Threads : pc[t] = "merge" /\ key[t] = k
    OBVIOUS
  <2>1. PICK t \in Threads : Save(t)
    BY DiskStep
  <2> QED BY <2>1, SaveStep DEF Save, Keys
<1> QED BY <1>1, InvCorrect, TypeCorrect, PTL DEF Spec, OtherKeyKept
=============================================================================
