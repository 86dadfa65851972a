------------------------------- MODULE RepoRoot -------------------------------
(***************************************************************************)
(* workspace(get) of agent_runtime/capabilities.py: _workspace_info and    *)
(* _git_root, which keeps the repository root of the last directory asked  *)
(* about for a short time, and asks git otherwise.  git runs outside the   *)
(* lock of the cache, so lookups overlap, and an answer that git gave      *)
(* earlier may be stored later.  Directories become repositories and cease *)
(* to be, and the current directory moves (StateFile has set_cwd).         *)
(*                                                                         *)
(* Time is counted in ticks, as ages.  Steps other than running git take   *)
(* no time.                                                                *)
(***************************************************************************)
EXTENDS Integers

CONSTANTS
    Threads,        \* the pool threads
    Dirs,           \* the directories that may be current
    Roots,          \* the repository roots that directories may have
    NoRoot,         \* the answer for a directory outside repositories
    TTL,            \* GIT_ROOT_TTL_SECONDS
    GitTimeout      \* the timeout of git rev-parse

ASSUME RootAssumption ==
    /\ NoRoot \notin Roots
    /\ TTL \in Nat \ {0} /\ GitTimeout \in Nat

Horizon == TTL + GitTimeout         \* ages beyond it count as this one

VARIABLES
    cwd,        \* Capabilities._cwd
    root,       \* directory -> its repository root
    since,      \* (history) directory, root -> the age of the last moment when
                \*   the directory had this root
    cache,      \* _git_root_cache, with the age of its entry
    pc,         \* thread -> idle, ask, look, git, end (git has its answer), store
    shown,      \* thread -> the cwd of its answer
    asked,      \* thread -> the directory it looks up
    spent,      \* thread -> how long its git has run
    got,        \* thread -> the root found
    moved       \* (history) thread -> TRUE when cwd has changed under its call

env == <<root, since>>
locals == <<shown, asked, spent, got>>
vars == <<cwd, env, cache, pc, locals, moved>>

Answers == Roots \cup {NoRoot}

TypeOK ==
    /\ cwd \in Dirs
    /\ root \in [Dirs -> Answers]
    /\ since \in [Dirs -> [Roots -> 0 .. Horizon]]
    /\ cache \in [dir : Dirs, root : Answers, age : 0 .. TTL]
    /\ pc \in [Threads -> {"idle", "ask", "look", "git", "end", "store"}]
    /\ shown \in [Threads -> Dirs] /\ asked \in [Threads -> Dirs]
    /\ spent \in [Threads -> 0 .. GitTimeout]
    /\ got \in [Threads -> Answers]
    /\ moved \in [Threads -> BOOLEAN]

(* The cache starts with no directory; an entry too old says the same.     *)
Init ==
    /\ cwd \in Dirs
    /\ root \in [Dirs -> Answers]
    /\ since = [d \in Dirs |-> [r \in Roots |-> IF r = root[d] THEN 0 ELSE Horizon]]
    /\ cache = [dir |-> cwd, root |-> NoRoot, age |-> TTL]
    /\ pc = [t \in Threads |-> "idle"]
    /\ shown = [t \in Threads |-> cwd] /\ asked = [t \in Threads |-> cwd]
    /\ spent = [t \in Threads |-> 0]
    /\ got = [t \in Threads |-> NoRoot]
    /\ moved = [t \in Threads |-> FALSE]

Goto(t, place) == pc' = [pc EXCEPT ![t] = place]

-----------------------------------------------------------------------------
(* _workspace_info reads the current directory for its answer, and once    *)
(* more for the lookup.                                                    *)

Begin(t) ==
    /\ pc[t] = "idle"
    /\ shown' = [shown EXCEPT ![t] = cwd]
    /\ moved' = [moved EXCEPT ![t] = FALSE]
    /\ Goto(t, "ask")
    /\ UNCHANGED <<cwd, env, cache, asked, spent, got>>

Ask(t) ==
    /\ pc[t] = "ask"
    /\ asked' = [asked EXCEPT ![t] = cwd]
    /\ Goto(t, "look")
    /\ UNCHANGED <<cwd, env, cache, shown, spent, got, moved>>

HitMutant(t) == cache.age < TTL
Hit(t) == cache.dir = asked[t] /\ cache.age < TTL

Answered(t, r) ==
    /\ got' = [got EXCEPT ![t] = r]
    /\ spent' = [spent EXCEPT ![t] = 0]
    /\ Goto(t, "idle")
    /\ UNCHANGED <<cwd, env, shown, asked, moved>>

LookHit(t) ==
    /\ pc[t] = "look" /\ Hit(t)
    /\ Answered(t, cache.root)
    /\ UNCHANGED cache

LookMiss(t) ==
    /\ pc[t] = "look" /\ ~Hit(t)
    /\ got' = [got EXCEPT ![t] = NoRoot]
    /\ Goto(t, "git")
    /\ UNCHANGED <<cwd, env, cache, shown, asked, spent, moved>>

(* git looks at the directory, and ends a while later ...                  *)
GitReads(t) ==
    /\ pc[t] = "git"
    /\ got' = [got EXCEPT ![t] = root[asked[t]]]
    /\ Goto(t, "end")
    /\ UNCHANGED <<cwd, env, cache, shown, asked, spent, moved>>

GitEnds(t) ==
    /\ pc[t] = "end"
    /\ Goto(t, "store")
    /\ UNCHANGED <<cwd, env, cache, locals, moved>>

(* ... or cannot be started or does not end in time.                       *)
GitFails(t) ==
    /\ pc[t] \in {"git", "end"}
    /\ got' = [got EXCEPT ![t] = NoRoot]
    /\ Goto(t, "store")
    /\ UNCHANGED <<cwd, env, cache, shown, asked, spent, moved>>

Store(t) ==
    /\ pc[t] = "store"
    /\ cache' = [dir |-> asked[t], root |-> got[t], age |-> 0]
    /\ Answered(t, got[t])

Lookup(t) ==
    \/ Begin(t) \/ Ask(t) \/ LookHit(t) \/ LookMiss(t)
    \/ GitReads(t) \/ GitEnds(t) \/ GitFails(t) \/ Store(t)

-----------------------------------------------------------------------------
(* What goes on around it. *)

SetCwd(d) ==
    /\ d # cwd
    /\ cwd' = d
    /\ moved' = [t \in Threads |-> moved[t] \/ pc[t] = "ask"]
    /\ UNCHANGED <<env, cache, pc, locals>>

Repository(d, r) ==
    /\ r # root[d]
    /\ root' = [root EXCEPT ![d] = r]
    /\ since' = [since EXCEPT ![d] = [q \in Roots |-> IF q = r THEN 0 ELSE @[q]]]
    /\ UNCHANGED <<cwd, cache, pc, locals, moved>>

Older(age, end) == IF age < end THEN age + 1 ELSE end

InGit(t) == pc[t] \in {"git", "end"}

Tick ==
    /\ \A t \in Threads : pc[t] = "idle" \/ (InGit(t) /\ spent[t] < GitTimeout)
    /\ cache' = [cache EXCEPT !.age = Older(@, TTL)]
    /\ since' = [d \in Dirs |-> [r \in Roots |->
                    IF r = root[d] THEN 0 ELSE Older(since[d][r], Horizon)]]
    /\ spent' = [t \in Threads |-> IF InGit(t) THEN spent[t] + 1 ELSE spent[t]]
    /\ UNCHANGED <<cwd, root, pc, shown, asked, got, moved>>

Next ==
    \/ \E t \in Threads : Lookup(t)
    \/ \E d \in Dirs : SetCwd(d) \/ \E r \in Answers : Repository(d, r)
    \/ Tick

Spec == Init /\ [][Next]_vars

-----------------------------------------------------------------------------
(* The root in an answer was the root of the directory in the same answer  *)
(* less than the lifetime of the cache plus the time git may take ago,     *)
(* however lookups of old and new state overlap, unless the current        *)
(* directory changed between the two times it was read (117-118).          *)
RootFresh ==
    [][\A t \in Threads :
          pc[t] # "idle" /\ pc'[t] = "idle" /\ got'[t] \in Roots =>
              moved[t] \/ since[shown[t]][got'[t]] < Horizon]_vars
=============================================================================
