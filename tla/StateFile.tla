------------------------------- MODULE StateFile -------------------------------
(***************************************************************************)
(* What outlives the server: StateStore of agent_runtime/state.py, the     *)
(* file that keeps the current directory and the todo list, with its two   *)
(* writers, Capabilities.workspace (set_cwd) and the TodoStore of todos.py.*)
(* Both change their copy in memory and then save it; a save reads the     *)
(* file, puts the one key in, and replaces the file.  The server may be    *)
(* killed at any point and is started again.                               *)
(*                                                                         *)
(* A todo is its id and the number of the change that wrote its title or   *)
(* status.  A list carries the number of the change that made it, which    *)
(* the code does not have and no action reads.                             *)
(***************************************************************************)
EXTENDS Integers, Sequences

CONSTANTS
    Threads,        \* the pool threads
    Dirs,           \* the directories set_cwd is given
    Workspace,      \* the directory a server without a saved one starts in
    Nobody,         \* the holder of a lock that is free
    Faults,         \* what may fail: "read", "write", or a directory be "gone"
    MaxChanges      \* bound: the changes to the todo list

ASSUME StateAssumption ==
    /\ Workspace \in Dirs
    /\ Nobody \notin Threads
    /\ Faults \subseteq {"read", "write", "gone"}
    /\ MaxChanges \in Nat

Keys == {"cwd", "todos"}

VARIABLES
    cwd,        \* Capabilities._cwd
    todos,      \* TodoStore._items
    changes,    \* (history) the number of the last change
    stale,      \* (history) the keys whose last save failed, or whose value
                \*   was not taken over by a restart
    crossed,    \* (history) TRUE when set_cwd calls have overlapped since the
                \*   last one that began alone
    disk,       \* the state file: a value for each key, or its default
    todoLock,   \* TodoStore._lock
    storeLock,  \* StateStore._lock
    pc,         \* thread -> idle, save (calls the store), merge (has read the file)
    key,        \* thread -> what it saves
    value,      \* thread -> the value it saves
    data        \* thread -> what it read

memory == <<cwd, todos, changes>>
vars == <<memory, stale, crossed, disk, todoLock, storeLock, pc, key, value, data>>

Items == Seq([id : Nat \ {0}, by : 1 .. MaxChanges])
Lists == [change : 0 .. MaxChanges, items : Items]
State == [cwd : Dirs, todos : Lists]

(* A missing or unreadable file: keys are absent, readers take the default. *)
NoTodos == [change |-> 0, items |-> <<>>]
Empty == [cwd |-> Workspace, todos |-> NoTodos]

TypeOK ==
    /\ cwd \in Dirs /\ todos \in Lists /\ changes \in 0 .. MaxChanges
    /\ disk \in State /\ stale \in SUBSET Keys /\ crossed \in BOOLEAN
    /\ {todoLock, storeLock} \subseteq Threads \cup {Nobody}
    /\ pc \in [Threads -> {"idle", "save", "merge"}]
    /\ key \in [Threads -> Keys]
    /\ value \in [Threads -> Dirs \cup Lists]
    /\ \A t \in Threads : value[t] \in IF key[t] = "cwd" THEN Dirs ELSE Lists
    /\ data \in [Threads -> State]

Init ==
    /\ cwd = Workspace /\ todos = NoTodos /\ changes = 0
    /\ disk = Empty /\ stale = {} /\ crossed = FALSE
    /\ todoLock = Nobody /\ storeLock = Nobody
    /\ pc = [t \in Threads |-> "idle"]
    /\ key = [t \in Threads |-> "cwd"] /\ value = [t \in Threads |-> Workspace]
    /\ data = [t \in Threads |-> Empty]

-----------------------------------------------------------------------------
(* set_cwd: the assignment under its own lock, the save after that. *)

SavingCwd == {t \in Threads : pc[t] # "idle" /\ key[t] = "cwd"}

SetCwd(t, d) ==
    /\ pc[t] = "idle"
    /\ cwd' = d
    /\ crossed' = (SavingCwd # {})
    /\ key' = [key EXCEPT ![t] = "cwd"]
    /\ value' = [value EXCEPT ![t] = d]
    /\ pc' = [pc EXCEPT ![t] = "save"]
    /\ UNCHANGED <<todos, changes, stale, disk, todoLock, storeLock, data>>

-----------------------------------------------------------------------------
(* add, update, delete and clear: the change and its save under one lock. *)

Ids(items) == {items[i].id : i \in DOMAIN items}

NextIdMutant(items) == Len(items) + 1
NextId(items) == 1 + (IF items = <<>> THEN 0
                      ELSE CHOOSE m \in Ids(items) : \A n \in Ids(items) : n <= m)

Added(items, n) == Append(items, [id |-> NextId(items), by |-> n])

(* An id that is not there is answered with an error and changes nothing.  *)
First(items, id) ==
    CHOOSE i \in DOMAIN items : items[i].id = id /\ \A j \in 1 .. i - 1 : items[j].id # id

Updated(items, id, n) == [items EXCEPT ![First(items, id)].by = n]

Deleted(items, id) ==
    LET i == First(items, id) IN SubSeq(items, 1, i - 1) \o SubSeq(items, i + 1, Len(items))

Results(items, n) ==
    {Added(items, n), <<>>}
    \cup {Updated(items, id, n) : id \in Ids(items)}
    \cup {Deleted(items, id) : id \in Ids(items)}

TodosBusyMutant == FALSE
TodosBusy == todoLock # Nobody

ChangeTodos(t) ==
    /\ pc[t] = "idle" /\ ~TodosBusy
    /\ changes < MaxChanges
    /\ todoLock' = t
    /\ changes' = changes + 1
    /\ \E items \in Results(todos.items, changes') :
          /\ todos' = [change |-> changes', items |-> items]
          /\ value' = [value EXCEPT ![t] = todos']
    /\ key' = [key EXCEPT ![t] = "todos"]
    /\ pc' = [pc EXCEPT ![t] = "save"]
    /\ UNCHANGED <<cwd, stale, crossed, disk, storeLock, data>>

-----------------------------------------------------------------------------
(* _save. *)

StoreBusyMutant == FALSE
StoreBusy == storeLock # Nobody

(* load: what cannot be read counts as empty. *)
Readable == {disk} \cup (IF "read" \in Faults THEN {Empty} ELSE {})

Load(t) ==
    /\ pc[t] = "save" /\ ~StoreBusy
    /\ storeLock' = t
    /\ \E read \in Readable :
          data' = [data EXCEPT ![t] = read]
    /\ pc' = [pc EXCEPT ![t] = "merge"]
    /\ UNCHANGED <<memory, stale, crossed, disk, todoLock, key, value>>

MergedMutant(t) == [data[t] EXCEPT !["todos"] = value[t]]
FileWinsMutant(t) == IF key[t] = "cwd" THEN data[t] ELSE [data[t] EXCEPT !["todos"] = value[t]]
Merged(t) == [data[t] EXCEPT ![key[t]] = value[t]]

(* The new file takes the place of the old one, or an error is swallowed.  *)
Save(t) ==
    /\ pc[t] = "merge"
    /\ \E fails \in {FALSE} \cup (IF "write" \in Faults THEN {TRUE} ELSE {}) :
          /\ disk' = IF fails THEN disk ELSE Merged(t)
          /\ stale' = IF fails THEN stale \cup {key[t]} ELSE stale \ {key[t]}
    /\ storeLock' = Nobody
    /\ todoLock' = IF todoLock = t THEN Nobody ELSE todoLock
    /\ pc' = [pc EXCEPT ![t] = "idle"]
    /\ key' = [key EXCEPT ![t] = "cwd"] /\ value' = [value EXCEPT ![t] = Workspace]
    /\ data' = [data EXCEPT ![t] = Empty]
    /\ UNCHANGED <<memory, crossed>>

-----------------------------------------------------------------------------
(* The server dies, whatever it was doing, and a new one loads the file. A *)
(* directory that is gone by then gives way to the workspace.              *)
Restart ==
    /\ \E read \in Readable :
          /\ cwd' \in {read.cwd} \cup (IF "gone" \in Faults THEN {Workspace} ELSE {})
          /\ todos' = read.todos
    /\ stale' = {k \in Keys : k = "cwd" /\ cwd' # disk.cwd}
    /\ crossed' = FALSE
    /\ todoLock' = Nobody /\ storeLock' = Nobody
    /\ pc' = [t \in Threads |-> "idle"]
    /\ key' = [t \in Threads |-> "cwd"] /\ value' = [t \in Threads |-> Workspace]
    /\ data' = [t \in Threads |-> Empty]
    /\ UNCHANGED <<changes, disk>>

Next ==
    \/ \E t \in Threads :
          \/ \E d \in Dirs : SetCwd(t, d)
          \/ ChangeTodos(t) \/ Load(t) \/ Save(t)
    \/ Restart

Spec == Init /\ [][Next]_vars

-----------------------------------------------------------------------------
(* Once no change is under way the file has the list that the tool shows,  *)
(* whatever the server was killed in, unless the last save of it failed:   *)
(* a restart finds the last list, and one good save makes up for bad ones. *)
TodosSaved == todoLock = Nobody /\ "todos" \notin stale => disk.todos = todos

(* So it has the current directory, unless set_cwd calls have overlapped:  *)
(* their saves may be in the other order than their assignments            *)
(* (capabilities.py 108-111).                                              *)
CwdSaved == SavingCwd = {} /\ ~crossed /\ "cwd" \notin stale => disk.cwd = cwd

(* A list on file never gives way to an older one.                         *)
TodosForward == [][disk'.todos.change >= disk.todos.change]_vars

(* No two todos have the same id, in memory or on file, over any sequence  *)
(* of changes and restarts: update and delete act on the first item that   *)
(* has the id they are given.                                              *)
IdsUnique ==
    \A items \in {todos.items, disk.todos.items} :
        \A i, j \in DOMAIN items : items[i].id = items[j].id => i = j

(* A save changes its own key only: "a concurrent set_cwd and todo update  *)
(* can no longer drop each other's state" (CHANGELOG.md).                  *)
OtherKeyKept ==
    [][\A k \in Keys :
          disk'[k] # disk[k] => \E t \in Threads : pc[t] = "merge" /\ key[t] = k]_vars
=============================================================================
