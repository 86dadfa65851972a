# A formal model of LocalForge MCP

LocalForge MCP (`src/agent_runtime/`, Python) is a tool server that an AI client starts and talks
to over stdin and stdout: JSON-RPC requests come in, are run by a pool of threads, and answer in
any order. Its tools start and stop processes, run commands, edit, patch and search files and keep a
todo list. This directory models the parts of it where threads, children, crashes and slow peers
meet, and the pure functions whose boundary cases decide what a patch or a search gives: TLA+
modules, TLC runs over small instances, and theorems that the TLA+ proof system checks for all instances.

    tlc  -workers 2 -config RegistryRestart.cfg MCProcessRegistry.tla     # a run: see the table
    tlapm ProcessRegistryProofs.tla                                       # the proofs of a module

Line numbers below are those of files in `src/agent_runtime/` unless another file is named.

## Inventory of the system

| Component | Source | State | Operations | What makes it hard |
|---|---|---|---|---|
| Process registry | `processes.py` | `items`: id -> child, one lock | start, stop, restart, list, status, `_gc`, cleanup at exit | handlers give the lock up between their steps; children die when they like; a stop waits 10 s, kills, waits again |
| Output log of a process | `processes.py` | bounded buffer of chunks, a condition variable | two pump threads append, `read` pages with a cursor and waits | eviction under the reader's cursor, wakeups, deadlines, restart of the id |
| Process stdin | `processes.py` | a pipe, its buffer and a lock per child | `write` on a helper thread with a timeout | helpers left behind by timeouts write later, together with those of new writes |
| Job object | `job.py` | one kernel handle | adopt a child | the server dying between spawn and adoption |
| Command execution | `capabilities.py` | none | execute with a timeout, kill tree | descendants that fork, leave the group and hold the pipe |
| File mutations | `capabilities.py` | the files; 256 striped locks | write, replace_text, multi_edit, apply_patch, copy, move, delete, mkdir | read-validate-write, several locks at once, failure half way |
| Persistent state | `state.py`, `todos.py`, `capabilities.py` | current directory and todo list, in memory and in one file | set_cwd; add, update, delete, clear; load at start | two writers of one file, kill at any point |
| JSON-RPC loop | `server.py` | pool queue, count of pending requests, `stdout_dead` | read a line, run a call or a batch, write a response, end of input, Ctrl+C | backlog bound, a client that does not read, nested pools |
| Patches | `patch.py` | none | parse a diff, apply hunks to lines | boundary cases of line arithmetic |
| Search and git | `capabilities.py` | cache of the repository root | run rg and git, page their output | limits and context windows; a cache filled outside its lock |
| Policy and redaction | `security.py` | none | check paths and commands, mask secrets | string functions |
| Configuration, tool tables, errors | `config.py`, `server.py`, `errors.py` | read once | schemas, aliases, dispatch | none |

How they interact. `Server.run_stdio` hands each line to the pool; a pool thread runs
`Server.handle`, which dispatches to one of the components; `batch` runs its calls on a pool of
its own. All components are therefore called concurrently. The pump threads and the helper
threads of writes are daemons. `set_cwd` and the todo list share `StateStore`. At exit the pool is
drained, so every foreground command has to end, and then `atexit` runs the registry's cleanup.

What makes each one correct:

- registry: a running child can always be reached by its id or by the cleanup; a stop that answers
  has ended the child; the limit on processes is meaningful; exit leaves no child behind;
- log: the buffer stays within its bound, a reader misses nothing without being told, and never
  sleeps on output it has not seen;
- stdin: a write always answers, `ok` means sent, nothing is sent twice or overtaken;
- commands: an answer comes with complete output and leaves no process behind;
- files: an edit overwrites only what it was validated against, locks do not deadlock;
- state: a restart finds what the tool last showed; the two keys do not destroy each other; ids are unique;
- loop: every request is answered once, the backlog stays bounded, and the server ends;
- patches and search: a diff of two files makes the second of the first, anything else is refused;
  the matches returned are the first ones, and what is cut off is said to be;
- repository root: an answer is no older than the lifetime of the cache and the time git takes.

The hazards these come from are listed with their lines in `PROJECT.json` ("hazards").

## The modules

An action is one stretch of a handler that nothing can interrupt as far as the state of the model
goes: a block under a lock, one system call, one dictionary read. Definitions keep the names of the
source where they can. Definitions named `...Mutant` are wrong variants of the definition after
them, one plausible bug each; they take no part in the model, and each property is known to tell
the two apart (`PROJECT.json`, "mutants"). Variables marked "(history)" are read by properties only.

**ProcessRegistry** models `ProcessManager` without its logs. `pc[t]` is the place of thread `t` in its
handler: `gc` and `spawn` for `start` (109-130), `get`, `signal`, `wait`, `kill`, `rewait` and
`status` for `stop` (214-222), `recall`, the steps of a stop, `stopped`, `pop` and those of a start for
`restart` (224-230), `gc`, `keys` and `visit` for `list` (241-243). `items` is the dictionary,
`leader` and `tree` the operating system's view of a child and its descendants, `aged` stands for the
clock. `Gc` is the whole of `_gc` in one step with the comparison its caller makes of the count it
returns: the count is taken under the lock and the comparison reads nothing else. It polls the children
three times (68, 70, 76) and the lock does not keep them from exiting: `dying` are those that exit in between.
SIGTERM changes nothing by itself, since a child may ignore it; a child may exit at any time. On Windows
`taskkill` may run into its own timeout, which raises out of `stop`, or fail (`Missed`), since nobody looks at
its exit code; `spared` (history) remembers the children of which that is true. The job object
is best-effort: it may have taken in any of the `Adoptable`, which are none without `kill_children_on_exit` (121);
since its outcome shows nowhere before, the model decides it when the server ends (`JobKills`). The main thread runs
`cleanup` once the workers are idle, which is what the drained pool (`server.py` 548) and the order
of the interpreter's exit hooks give. Not in it: descendants that leave the process group, reuse of
process ids by the system, and children of another user, to whom `killpg` raises `PermissionError`.

**OutputFeed** is what a log promises: a feed of numbered chunks whose oldest may be dropped, and readers
that take runs of consecutive chunks, learn when they missed some, and may leave for another feed.
**ProcessLog** is the code: pumps (79-107), the buffer, `read` (132-163) with the look, the wait on the
condition, the deadline and the final status lookup, and restarts of the id. There is one log per
child that the id named: a reader or pump that holds an old one goes on with it. Its
`Evict` follows the loop at 98-100 with the running total `bytes`; the sums of sizes (`Total`) and the
chunks a cursor has not passed (`Newer`) are recursive functions, which can be proved about. `ImplementsFeed` maps the log of
the first child to the feed: `oldest` is the number of the first chunk kept, `batch` the answer of
the last look. What a pump has read decodes to a text of another size (`TextSizes`), or to none, which it drops.

**ProcessStdin** models `write` (166-190) and what stays behind after its timeout. Callers take `stdin_lock`,
start a helper, join it with a timeout and give the lock back; `is_alive` is asked after that. A
helper goes through the lock and the buffer of Python's `BufferedWriter`: `write` puts the text in the
buffer, `flush` keeps the lock until everything in the buffer is in the pipe, other helpers' texts
included. `entered` is the order in which texts enter, `pushed` how far the pipe has them, `unread` what
the child has still to read. The child reads when it likes or never; when it exits a descendant may
keep the read end. A text is one unit and fits the buffer.

**Execute** models `execute` and `_kill_tree`: spawn, `communicate` with its timeout, the kill, and the second
`communicate` that has none. `kin` says which kinds of descendants the child has: in its group and
holding the pipe ("piped"), in the group without it ("quiet"), out of the group with it ("away"), and
with neither ("gone"), which the kill misses and nobody waits for. The kill may raise, and `taskkill` may
fail unnoticed (`Miss`). **ForegroundCalls** composes it with the JSON-RPC loop: it extends
StdioServer and instantiates Execute for `Runners`, of which `<<w, 0>>` is worker `w` and `<<w, i>>` the i-th
thread of the pool of its batch. A call ends when its command does (`CallHandled`, `BatchCallOver`), and a batch
when its calls have.

**FileEdits** models the mutations of `Capabilities.filesystem` on files. The content of a file is the number of
the write that made it. A call locks its stripes in the order of the table (92-94), then reads and
validates (`replace_text`, `multi_edit`, `apply_patch`) and writes, one target after the other; a
copy truncates and fills in two steps; any write may fail. Releasing several locks is one step: a lock
given back a moment earlier lets others do nothing that giving it back later does not.
Outside: directories, and other programs that write the same files.

**StateFile** models `StateStore._save`, `Capabilities.workspace` (set_cwd) and `TodoStore` with its items: an
item is its id and the change that wrote it, `NextId`, `Added`, `Updated` and `Deleted` follow `todos.py`.
Memory and file are separate, the save is a read and a replacement under the store's lock, and
`Restart` may come at any point, with the file replaced by `os.replace` either completely or not at all.
A saved directory may be gone by the time of the restart.

**StdioServer** models `run_stdio` (431-548), `_guarded_write` (26-50), `handle` (401-429) and `batch` (348-399).
`unsent` is what the client will still send; the main thread accepts or refuses a line, workers take
lines, and responses are written by helper threads while the caller waits with a timeout. Notifications have
no id; the methods `initialized` and `notifications/...` are never answered, with an id or without (`Silent`, 421-422).
The client may stop reading and go on, break the pipe, or interrupt the server. Where `Starves` is TRUE the
system may refuse a thread: to the pool, after `submit` has queued the line (`SubmitFails`), to a
response (`HandledStarves`) or to the refusal of a line, which ends the main loop (`RejectStarves`). `threads` are
the pool's threads so far; `starved` (history) says that one of the three has happened. What a tool does is
left out, as are the notifications of `log_to_client`, which is off by default.

**RepoRoot** models `workspace(get)`, `_workspace_info` and `_git_root` with the cache of one directory and its
lifetime. git runs outside the lock of the cache; it reads the repository at one moment and its answer
is stored at a later one. Time is counted in ticks.

**PatchApply** and **SearchMatches** are functions: `Parse` and `BuildNew` of `patch.py`, and `_rg_matches` and
`_search_python`. **TextAlgorithms** tries them: it enumerates inputs (`Diffs`, `Cuts`, `Placings`, `Searches`), computes
one output in one step, and its invariants compare the output with a definition written
independently of the code: the sides of an edit script, hunks spliced by their places, the matches of a
corpus in order. Texts are model values, of which one reads as `--- x` after a `-` and one as `+++ x` after
a `+`, so that lines that look like headers occur.

The `MC...` modules only give values to constants. Modules named `...Proofs` hold theorems.
`NaturalSets` has the lemmas they share: the extremes of sets of numbers, recursion up to a number, and
sequences put one after the other.

## The runs

| Run | Instance | Shows |
|---|---|---|
| RegistryRestart | 2 workers, 2 ids, 2 spawns, limit 1, all operations, POSIX | `TypeOK`; `LimitOvershoot`: live entries and starts let through stay below limit + workers; `RegistryBounded`: so does the dictionary, exited entries included; `LiveEntryKept`: only a restart's pop drops a live entry; `OldestDroppedFirst` |
| RegistryShared | 2 workers, 1 id, 2 spawns, start and stop, Windows, fair | `NoOrphan`: every live child has an entry; `StopEndsItsChild`; `CleanExitEndsChildren`: a clean exit leaves only children that `taskkill` failed on, whatever the job has taken in; `StopEndsChild` (liveness) |
| RegistryRestartOrphan | 2 workers, 1 id, 3 spawns, POSIX | violated: `CleanExitEndsChildren` |
| LogFeed | 2 readers, 2 streams, 1 or 2 read that decode to 2 or 1, buffer 2, 3 chunks, a restart | `NoLostWakeup`, `BytesAccount`, `ImplementsFeed` (refinement) |
| StdinWrites | 2 callers, a pipe of 1 text, 3 texts, fair | `TypeOK`; `InOrder`: only a text whose write timed out is overtaken; `OkSent`; `WriteAnswers` and `HelpersEnd` (liveness) |
| EditsShared | 2 threads, 3 files on 2 stripes, patches in opposite orders, 4 writes | `EditsAreCurrent`, `Disjoint`, `DeadlockFree` |
| StateSaved | 3 threads, 2 directories, 4 changes, failing saves, kills, a directory that vanishes | `TypeOK`, `TodosSaved`, `CwdSaved`, `IdsUnique`, `TodosForward`, `OtherKeyKept` |
| RootLookups | 2 threads, 2 directories, lifetime 2, git up to 1 tick | `RootFresh`: how old an answer can be |
| ServerRuns | a batch of up to 2, one without id and a silent method, 2 workers, backlog 2, a client that stalls, breaks or interrupts, threads refused, fair | `PendingExact` and `AnsweredOnce`: the count and the answers until a thread is refused, no double answer in any case; `ServerEnds` (liveness) |
| ExecuteCalls | a call and a batch of 2, 1 worker, an interrupt, Windows, all kinds, fair | `AnsweredEnded`, `TimeoutEndsGroup`, `ExitLeavesNoChild`; `PinnedByEscapee` and `EndsUnlessPinned` (liveness): what a call, and the end of the server, may wait for |
| TextFunctions | 4 texts, scripts of 4 lines, hunks of 2 lines and one more hunk of 1, files of up to 4 lines, 2 files, context 0 to 3 | `PatchRebuilds`, `ParseRefuses`, `HunksExact`, `FirstHits`, `ContextNear` |
| PatchInsertion | scripts of 3 lines, contexts 0 and 1, texts that are no headers | violated: `PatchApplies` |

The module of a run is the `MC` module of its component: ProcessRegistry for `Registry...`, ProcessLog,
ProcessStdin, FileEdits, StateFile, RepoRoot, StdioServer (ServerRuns), ForegroundCalls
(ExecuteCalls) and TextAlgorithms for the last two.

**Bounds.** Every bound is a constant with "bound:" in its comment (`MaxSpawns`, `MaxSeq`, `MaxRestarts`,
`MaxTexts`, `MaxWrites`, `MaxChanges`, `ScriptLines`, `Kinds` and the like); it stops the environment from
acting and never cuts a handler short: a call of FileEdits begins only if there is room for all its writes. Two
workers are enough for every overlap of two handlers; the hazards listed are of two actors and one resource.
With limit 1 and two ids `_gc` has to choose whom to drop and two starts can pass the limit together. A buffer
of 2 with chunks of 1 and 2 evicts none, one or two chunks at once, and the first reader can still be in the old
log when a second looks at the new one. Three texts and a pipe of one give a blocked helper, one left behind in
the buffer by a timeout, and a later write that meets it. Three files on two stripes give both a shared stripe
and an order to get wrong; four writes let two patches of two files overlap. Four changes make a list of two,
delete one of them and add again. A backlog of 2 against three lines makes the main thread refuse. In
RegistryShared Windows includes POSIX: a `taskkill` that never fails behaves as `killpg`. In ExecuteCalls one
worker has two runners, itself and the thread of its batch; commands of different runners share nothing but the
end of the server, which the proof of `ExitLeavesNoChild` covers for any number. In ServerRuns a batch without
calls stands for a request. The numbers of RootLookups only have to differ. Scripts of four lines contain two
hunks with a gap, insertions and removals at either end of a file and next to each other; on a file of three
lines a second hunk can overlap the first, touch it or come before it; contexts up to 3 reach beyond the
distance of 2 at which ripgrep's events of one file end. Deadlock checking is off where the system may stop: the
server exits, clients may have nothing more to say, an input has been computed, bounds are reached; RootLookups
and StateSaved, which can always go on, are checked for it.

**Fairness.** `ProcessRegistry` assumes weak fairness of each thread's handler and of cleanup (threads are
scheduled, waits have timeouts) and that a child that got SIGKILL exits. It assumes nothing of a child that got
SIGTERM. `ProcessStdin` assumes weak fairness of the join, which has a timeout, and of the check after it, and
strong fairness of taking `stdin_lock` and of helpers: a lock that comes free again and again, or a pipe that
has room again and again, is got in the end; nothing is assumed of the child. `StdioServer` assumes weak
fairness of the main thread, workers and writers and that tool calls end; for helper threads strong fairness:
one that can write again and again, because the client goes on reading now and then, does write. Nothing is
assumed of the client but that it sends its lines and closes its end. `ForegroundCalls` assumes the same of
threads and helpers and does not assume that calls end: `communicate` has its timeout and children do what they
like. A worker and the threads of its batch share one fairness condition, which is enough because a line has
finitely many steps, none of which goes back. The other runs check safety only.

## What is proved

For every value of the constants that satisfies the assumptions named in the modules:

| Module | Theorems (the property without `Correct`) | Under |
|---|---|---|
| `ProcessRegistryProofs` | `TypeCorrect`, `StopCorrect` (StopEndsItsChild), `LiveEntryKeptCorrect`, `OvershootCorrect` (LimitOvershoot), `BoundedCorrect` (RegistryBounded), `OldestDroppedFirstCorrect` | |
| | `NoOrphanCorrect` | `"restart" \notin Ops`; with restart it is false |
| | `CleanExitCorrect` (CleanExitEndsChildren) | `"restart" \notin Ops`; POSIX and Windows, whatever the job has adopted |
| `ProcessLogProofs` | `NoLostWakeupCorrect`, `BytesAccountCorrect`, `ImplementsFeedCorrect` (ProcessLog implements OutputFeed) | |
| `ProcessStdinProofs` | `TypeCorrect`, `InOrderCorrect`, `OkSentCorrect` | |
| `ForegroundCallsProofs` | `PendingExactCorrect`, `AnsweredOnceCorrect` of StdioServer | |
| | `ServerSpec`, `ChildSpec`: the composition implements StdioServer, and Execute at each thread | |
| | `AnsweredEndedCorrect`, `TimeoutEndsGroupCorrect`, `ExitLeavesNoChildCorrect` of the composition | |
| `FileEditsProofs` | `DisjointCorrect`, `DeadlockFreeCorrect` | |
| | `HunksExactCorrect`, `PatchRebuildsCorrect`, `ParseRefusesCorrect` of TextAlgorithms | |
| | `EditsAreCurrentCorrect` | `OneEach`: no patch names a file twice; with one it is false |
| `StateFileProofs` | `TypeCorrect` | |
| | `TodosSavedCorrect`, `CwdSavedCorrect`, `IdsUniqueCorrect`, `TodosForwardCorrect`, `OtherKeyKeptCorrect` | `CanRead`: a save can always read the file; without it `OtherKeyKept` is false |
| `SearchGitProofs` | `TypeCorrect`, `RootFreshCorrect` of RepoRoot; `FirstHitsCorrect`, `ContextNearCorrect` of TextAlgorithms | |

The assumptions are those of the code: sizes and limits are positive, the lifetime of the cache is
(`GIT_ROOT_TTL_SECONDS`, 30), a patch may have two files (`MAX_FILES`, 10, `patch.py` 7), some line of a file looks
unlike a header, and sets of threads, ids and stripes are finite where they are counted or ordered.

Few of the invariants are inductive alone.

- *Registry.* `Control` ties the step of a handler to its operation (a stop never spawns, a handler past
  its lookup has a child, the main thread only stops); `Born` says that entries and handlers refer to
  children that have been spawned. `StopEndsItsChild` is proved from `EndedAfterWait`, which needs both: a
  wait that returned saw a leader that was neither alive nor unborn, and no step makes an exited leader
  anything else. `NoOrphan` follows from two facts about a step: a live entry is dropped by a pop only
  (`LiveEntryStep`), and a child comes to life together with its entry (`BirthStep`).
  `LimitOvershoot` counts the starts that have passed the test of the limit with the live entries; a
  `_gc` lets one through only below the limit, a spawn turns one into a live entry, nothing else adds
  to either. `CleanExitEndsChildren` needs `Leaving`: once the main thread has begun no other handler
  runs (`Quiet`), and each child that runs is one that `taskkill` has failed on or that cleanup still has to visit or to
  signal (`Swept`); with `NoOrphan` nothing else is left at the end. The job object takes no part in the argument.
  `RegistryBounded` is the same count of all entries, in two lemmas: a `_gc` leaves no more entries than
  live ones or the limit (`SurvivorsBounded`), and steps other than a spawn only shrink it (`BoundedShrinks`). Entries
  that were live when `_gc` chose and exit before it counts stay; that there are not too many is `LimitOvershoot`.
  `OldestDroppedFirst` needs `AgedInOrder`: whoever has outlived the time limit was started no later
  than those who have not, so what `_gc` drops for its age is no exception to the order.
- *Log.* A reader waits only on a log it has just looked at under its lock, and every append wakes all
  who wait on it. `BytesAccount` rests on what a sum of sizes does when a size is appended and when the
  first ones are cut off (`TotalAppend`, `TotalSplit`). The refinement needs `Numbered`, that the chunks of a
  log have consecutive numbers that end before `next` (`Gapless`), and `Reading`, that a reader of the first
  log has seen and been shown its chunks only and never comes back to it from a later one. An append
  with its evictions is then one `Emit` (`AddedGrows`, `EvictGrows`), a look one `Take`, because what it finds
  is the run of numbers from its cursor, or from the oldest chunk, on (`NewerNumbers`, `FitsSome`).
- *Stdin.* Texts are numbered by the lock, so `InOrder` is about helpers that have still to write when
  the lock is given back. `LastRuns`: a helper that runs although its join has not timed out is that of
  the last text. `Overtaken` is `InOrder` of all that has entered the buffer. `OkSent` follows from
  `Delivered` (a helper that ends with ok saw the buffer empty) and `Entered` (it enters its text once).
- *Commands.* `ChildPlace` is about an answered call and is proved of Execute alone. `ChildSpec` shows that every
  step of the composition is a step of Execute or none, so that it holds of all runners. For the exit, `Places` says
  which runners can be in a command at each step of their worker (`Lines`, `Commands`): none when it is idle or writes,
  of a batch no more threads than it counts as running. The exit waits for idle workers, so all commands are
  over (`AllOver`), and one that is over has seen its child exit or its kill raise.
- *Loop.* `Counting` keeps the queue a sequence and the workers' lines apart; each step of the main thread and of
  a worker that moves a line keeps the count. `AnsweredOnce` needs `Path`, the whole way of a line: it is
  in one place at a time, unsent, in the queue once, or with one thread (`QueueDistinct`, `OnePlace`); only
  a line that no thread has written yet is in the hands of one that will (`OneResponse`); and as long as
  the output works and `run_stdio` gets its threads none gets lost on the way (`NoneLost`). Both need `~starved` where the
  code gives up the count or the line; that no line is answered twice needs neither.
- *Files.* `Shape` relates the lists of targets to the operation, `Held` says which stripes a call has at which
  of its steps; two calls at work have disjoint stripes, hence disjoint files, and what one has read
  nobody else writes. `DeadlockFree` takes the greatest stripe that is waited for: the locks are taken in
  one order, so whoever holds that stripe waits for none: it would be a greater one.
- *Patches.* `HunksExact` is about any text, any file and any number of hunks of any length. One line of a
  hunk keeps the state of `build_new` exact (`OpApplied`: it has found what the hunk names so far and has
  put out the new side of it), hence all lines of a hunk do (`OpsApplied`), a hunk applies just when its old
  lines stand where it says and behind the hunk before (`HunkApplied`), and so for all hunks (`BuildExact`).
  `ParseRefuses` and `PatchRebuilds` follow the printing of a script line by line and read each line as it is
  printed. `Stands` says that what is printed has been read as one file with the hunks that its lines
  announce (`Follows`), `Rejects` that it has been refused, and `Tracked` the same of every beginning of it, which
  is what a cut-off diff is (`CutRead`). `InHunk` counts: in the middle of a hunk it lacks as many old lines as the
  script has up to the hunk's end, so it is complete when the next one begins. `Halfway` says what `build_new` makes
  of the hunks read so far: the new version of the lines printed so far, but for kept lines behind the last hunk,
  with the final newline decided by the last line shown (`EndsRight`). It needs `Anchored`, that a hunk without
  old lines is at the beginning of the file; *PatchInsertion* shows what becomes of one that is not.
  `Placed` joins these for the first lines of a script, `PlacedStep` adds one line, and `DiffApplied` is the end.
- *State.* `Copies` says what a save under way carries, `Numbers` that file, memory and changes are in order, and
  `LoneSave` that a set_cwd that nobody overlapped saves what is in memory. That ids are unique after a change is
  `ResultsUnique`, a lemma about sequences: one more than the greatest is new, and neither an update nor
  a removal makes two alike.
- *Repository root.* `Known` bounds the age of what each place holds: what git has read and is carrying
  (`GitAge`), what the cache has (`CacheAge`), and that a thread asks about the directory it was called in
  (`SameDir`).
- *Search.* Of any corpus, file by file: the matches in ripgrep's events are those of the files in order
  (`FileMatches`, `StreamMatches`), and so are the entries of `_search_python` until there are enough
  (`PyLineStep`, `PyFileStep`); the first of either are the first of the corpus. `ContextNear` needs `Apart`: in
  the stream, context within a distance of 2 of a match is of its file, because an end and a begin
  lie between two files (`ApartConcat`), and within a file the lines next to a match are in the stream,
  so positions are no closer than lines (`AscendingUp`, `AscendingDown`).

What a recursive function computes is proved without an induction theorem, which the provers cannot
instantiate: `IteratesExist` and `IteratesAgree` say that a recursion up to a number has one solution, by
the least number for which it would fail.

Only model-checked: the liveness properties (`StopEndsChild`, `WriteAnswers`, `HelpersEnd`, `ServerEnds`,
`PinnedByEscapee`, `EndsUnlessPinned`), which rest on fairness and `ENABLED` and are out of the prover's reach.

## Disagreements between code and documentation

Shown by runs that expect a violation:

1. *RegistryRestartOrphan.* `restart` pops whatever its id names by then (229). Two overlapping
   restarts: A stops the child and pops it, B has passed its lookup in `stop` of the same
   child, A starts a new child, B pops A's new child. It runs on, unknown, after a clean exit.
   `CHANGELOG.md` 96: "Fixed duplicate process IDs spawning orphan processes."
2. *PatchInsertion.* A hunk that only inserts has the number of the line after which to insert
   (`@@ -1,0 +2 @@`); `patch.py` 125 takes it for the first line to replace, so `+b` goes before the line
   instead of after it and the call succeeds. `README.md` 170 promises "exact context".

Visible in the models without a run of their own:

- *Registry and log.* Concurrent starts exceed `max_processes` (114; `LimitOvershoot` says by how much). The job
  object is best-effort (`job.py` 105-120 gives up in silence), where `CHANGELOG.md` 8 promises that a crash
  leaves no child. A stop does nothing when the leader has exited (201), so descendants survive a forced one,
  which answers ok (`TerminateTree`); `server.py` 126: "Force-kill the process tree on stop". Sequence numbers
  restart with the child, the reader's cursor does not, and chunks are skipped with `cursor_lost` false (149,
  against `README.md` 269). A read that waits does not end when its stream closes, though the comment at 104
  says so.
- *Stdin.* Writes are not serialized once one has timed out (174): its text may come after later ones.
- *Commands.* `execute` is not bounded by its timeout when a descendant left the group or the child had exited
  (`capabilities.py` 721); the comment at `server.py` 544-547 counts on it. A descendant that left the group and
  closed the pipe (`setsid x >/dev/null &`) is neither killed nor waited for ("gone" of Execute), against
  `CHANGELOG.md` 99: "process-tree termination for foreground timeouts".
- *Files.* A patch with two sections for one file keeps only the second one's changes
  (`capabilities.py` 366), where `README.md` 193 promises a `content_mismatch`. A patch whose second write
  fails keeps the first (371), against "all-or-nothing", `README.md` 170.
- *State.* Two overlapping `set_cwd` calls may save in the opposite order of their assignments
  (`capabilities.py` 108-111, "best-effort" in `CHANGELOG.md` 82). A state file that cannot be read at the moment
  of a save loses its other key (`state.py` 37; `"read"` in `Faults`). The id of a todo is used again once the
  greatest has been deleted (`todos.py` 37, 13).
- *Loop.* `max_concurrency` does not bound the calls of batches (`server.py` 394 against `README.md` 307). A
  notification that raises is answered (`server.py` 497 against `CHANGELOG.md` 102). A request with an id whose
  method is `initialized` or `notifications/...` is never answered (421-422). A helper thread that the system
  refuses to a response (46) takes the exception past the line that counts the request down (500), and to a
  refusal of the main thread ends the server. When it refuses a pool thread, `submit` raises after it has queued
  the line; 534 takes it off the count, and whoever handles it does so again, so that more lines than
  `MAX_PENDING_REQUESTS` can wait (`SubmitFails`, against `CHANGELOG.md` 7: "bounded at 128"). After Ctrl+C
  `shutdown(wait=False)` returns at once, but the interpreter joins the threads of all pools before it exits;
  the comment at `server.py` 540-541 says "exit without waiting for in-flight tool calls". `Exit` and with it
  `ExitLeavesNoChild` follow the interpreter, not the comment.
- *Patches.* A file without a final newline gains one when the diff does not show its end (147-148). A removed
  line `-- x` or an added one `++ x` at a hunk's end reads as a header (85). The count of new lines in a hunk
  header is not looked at (103).
- *Search.* With ripgrep the context lacks lines that match themselves and beyond a distance of 2 takes
  lines of the wrong files (`capabilities.py` 547). `truncated` is true at exactly the maximum (531, 654), but
  not for `files_only` (504).

## Not modelled, and the plan

Next, in this order:

1. Directories in FileEdits: `mkdir`, and the recursive delete, copy and move, which lock the directory's path only.
2. A hard crash of the server in ProcessRegistry: what survives it is what the job has not adopted yet, and
   grandchildren forked between `Popen` and the assignment.
3. The notifications of `log_to_client` in StdioServer; they share the lock of the responses.

Left out for good: the policy and redaction of `security.py` (functions of strings and of the file system
without state of their own; where a handler calls them, the models allow a refusal), the globs and
filters of search, `multi_search` and the git presets (they build command lines and match names),
configuration and the tool tables.
