---------------------------- MODULE SearchGitProofs ---------------------------
(* Theorems about RepoRoot, for any threads, directories, roots, lifetime  *)
(* of the cache and timeout of git, and about content search, for any      *)
(* files and any number of context lines and matches.                      *)
EXTENDS RepoRoot, TextAlgorithms, NaturalSets, SequenceTheorems

LEMMA TypeInit == Init => TypeOK
BY RootAssumption DEF Init, TypeOK, Answers, Horizon

LEMMA TypeStep == TypeOK /\ [Next]_vars => TypeOK'
<1> SUFFICES ASSUME TypeOK, [Next]_vars PROVE TypeOK'
  OBVIOUS
<1> USE RootAssumption DEF TypeOK, Answers, Goto, env, locals
<1>1. ASSUME NEW t \in Threads, Begin(t) \/ Ask(t) PROVE TypeOK'
  <2>1. CASE Begin(t)
    BY <2>1 DEF Begin
  <2>2. CASE Ask(t)
    BY <2>2 DEF Ask
  <2> QED BY <1>1, <2>1, <2>2
<1>2. ASSUME NEW t \in Threads, LookHit(t) \/ LookMiss(t) PROVE TypeOK'
  <2>1. CASE LookHit(t)
    BY <2>1 DEF LookHit, Answered
  <2>2. CASE LookMiss(t)
    BY <2>2 DEF LookMiss, Answered
  <2> QED BY <1>2, <2>1, <2>2
<1>3. ASSUME NEW t \in Threads, GitReads(t) \/ GitEnds(t) \/ GitFails(t) PROVE TypeOK'
  <2>1. CASE GitReads(t)
    BY <2>1 DEF GitReads
  <2>2. CASE GitEnds(t)
    BY <2>2 DEF GitEnds
  <2>3. CASE GitFails(t)
    BY <2>3 DEF GitFails
  <2> QED BY <1>3, <2>1, <2>2, <2>3
<1>4. ASSUME NEW t \in Threads, Store(t) PROVE TypeOK'
  BY <1>4 DEF Store, Answered
<1>5. ASSUME NEW d \in Dirs, SetCwd(d) PROVE TypeOK'
  BY <1>5 DEF SetCwd
<1>6. ASSUME NEW d \in Dirs, NEW r \in Answers, Repository(d, r) PROVE TypeOK'
  <2>1. [q \in Roots |-> IF q = r THEN 0 ELSE since[d][q]] \in [Roots -> 0 .. Horizon]
    BY DEF Horizon
  <2> QED BY <1>6, <2>1 DEF Repository
<1>7. CASE Tick
  <2>1. cache' \in [dir : Dirs, root : Answers, age : 0 .. TTL]
    <3>1. cache.age \in 0 .. TTL /\ Older(cache.age, TTL) \in 0 .. TTL
      BY DEF Older
    <3>2. cache' = [cache EXCEPT !.age = Older(cache.age, TTL)]
      BY <1>7 DEF Tick
    <3> QED BY <3>1, <3>2
  <2>2. since' \in [Dirs -> [Roots -> 0 .. Horizon]]
    BY <1>7 DEF Tick, Older, Horizon
  <2>3. spent' \in [Threads -> 0 .. GitTimeout]
    <3>1. \A t \in Threads : InGit(t) => spent[t] + 1 \in 0 .. GitTimeout
      <4> SUFFICES ASSUME NEW t \in Threads, InGit(t) PROVE spent[t] + 1 \in 0 .. GitTimeout
        OBVIOUS
      <4>1. spent[t] < GitTimeout /\ spent[t] \in 0 .. GitTimeout
        BY <1>7 DEF Tick, InGit
      <4> QED BY <4>1
    <3>2. spent' = [t \in Threads |-> IF InGit(t) THEN spent[t] + 1 ELSE spent[t]]
      BY <1>7 DEF Tick
    <3> QED BY <3>1, <3>2
  <2> QED BY <1>7, <2>1, <2>2, <2>3 DEF Tick
<1>8. CASE UNCHANGED vars
  BY <1>8 DEF vars
<1> QED BY <1>1, <1>2, <1>3, <1>4, <1>5, <1>6, <1>7, <1>8 DEF Next, Lookup

(* Every variable has its type in every state.                             *)
THEOREM TypeCorrect == Spec => []TypeOK
BY TypeInit, TypeStep, PTL DEF Spec

-----------------------------------------------------------------------------
(* How old what is known of a root may be: what a thread has from git, as  *)
(* old as the run of git is long; what the cache has, older by its age.  A *)
(* call whose directory did not move looks up the one that it shows.       *)
RootNow == \A d \in Dirs : root[d] \in Roots => since[d][root[d]] = 0

CacheAge == cache.root \in Roots => since[cache.dir][cache.root] =< cache.age + GitTimeout

GitAge ==
    \A t \in Threads :
        pc[t] \in {"end", "store"} /\ got[t] \in Roots => since[asked[t]][got[t]] =< spent[t]

SameDir ==
    /\ \A t \in Threads : pc[t] \in {"look", "git", "end", "store"} =>
                              moved[t] \/ shown[t] = asked[t]
    /\ \A t \in Threads : pc[t] = "ask" => moved[t] \/ shown[t] = cwd

Known == TypeOK /\ RootNow /\ CacheAge /\ GitAge /\ SameDir

LEMMA KnownInit == Init => Known
<1> SUFFICES ASSUME Init PROVE Known
  OBVIOUS
<1>1. RootNow
  BY DEF Init, RootNow
<1>2. CacheAge /\ GitAge /\ SameDir
  BY RootAssumption DEF Init, CacheAge, GitAge, SameDir
<1> QED BY <1>1, <1>2, TypeInit DEF Known

LEMMA KnownStep == Known /\ [Next]_vars => Known'
<1> SUFFICES ASSUME Known, [Next]_vars PROVE Known'
  OBVIOUS
<1>0. TypeOK' /\ TypeOK
  BY TypeStep DEF Known
<1> USE <1>0, RootAssumption DEF Known, Answers, Goto, env, locals
<1>1. ASSUME NEW t \in Threads, Begin(t) \/ Ask(t) PROVE Known'
  <2>1. CASE Begin(t)
    BY <2>1 DEF Begin, TypeOK, RootNow, CacheAge, GitAge, SameDir
  <2>2. CASE Ask(t)
    BY <2>2 DEF Ask, TypeOK, RootNow, CacheAge, GitAge, SameDir
  <2> QED BY <1>1, <2>1, <2>2
<1>2. ASSUME NEW t \in Threads, LookHit(t) \/ LookMiss(t) PROVE Known'
  <2>1. CASE LookHit(t)
    BY <2>1 DEF LookHit, Answered, TypeOK, RootNow, CacheAge, GitAge, SameDir
  <2>2. CASE LookMiss(t)
    BY <2>2 DEF LookMiss, Answered, TypeOK, RootNow, CacheAge, GitAge, SameDir
  <2> QED BY <1>2, <2>1, <2>2
<1>3. ASSUME NEW t \in Threads, GitReads(t) \/ GitEnds(t) \/ GitFails(t) PROVE Known'
  <2>1. CASE GitReads(t)
    BY <2>1 DEF GitReads, TypeOK, RootNow, CacheAge, GitAge, SameDir
  <2>2. CASE GitEnds(t)
    BY <2>2 DEF GitEnds, TypeOK, RootNow, CacheAge, GitAge, SameDir
  <2>3. CASE GitFails(t)
    BY <2>3 DEF GitFails, TypeOK, RootNow, CacheAge, GitAge, SameDir
  <2> QED BY <1>3, <2>1, <2>2, <2>3
<1>4. ASSUME NEW t \in Threads, Store(t) PROVE Known'
  BY <1>4 DEF Store, Answered, TypeOK, RootNow, CacheAge, GitAge, SameDir
<1>5. ASSUME NEW d \in Dirs, SetCwd(d) PROVE Known'
  BY <1>5 DEF SetCwd, TypeOK, RootNow, CacheAge, GitAge, SameDir
<1>6. ASSUME NEW d \in Dirs, NEW r \in Answers, Repository(d, r) PROVE Known'
  <2>1. \A e \in Dirs, q \in Roots : since'[e][q] =< since[e][q]
    BY <1>6 DEF Repository, TypeOK, Horizon
  <2>2. RootNow'
    BY <1>6 DEF Repository, TypeOK, RootNow
  <2>3. CacheAge' /\ GitAge'
    BY <1>6, <2>1 DEF Repository, TypeOK, Horizon, CacheAge, GitAge
  <2> QED BY <1>6, <2>2, <2>3 DEF Repository, SameDir
<1>7. CASE Tick
  <2>1. \A e \in Dirs, q \in Roots :
           /\ since'[e][q] =< since[e][q] + 1 /\ since'[e][q] =< Horizon
           /\ since[e][q] \in Nat /\ since'[e][q] \in Nat
    BY <1>7 DEF Tick, Older, TypeOK, Horizon
  <2>2. RootNow'
    BY <1>7 DEF Tick, RootNow, TypeOK
  <2>3. CacheAge'
    BY <1>7, <2>1 DEF Tick, Older, CacheAge, TypeOK, Horizon
  <2>4. GitAge'
    BY <1>7, <2>1 DEF Tick, InGit, GitAge, TypeOK
  <2>5. SameDir'
    BY <1>7 DEF Tick, SameDir
  <2> QED BY <2>2, <2>3, <2>4, <2>5
<1>8. CASE UNCHANGED vars
  BY <1>8 DEF vars, RootNow, CacheAge, GitAge, SameDir
<1> QED BY <1>1, <1>2, <1>3, <1>4, <1>5, <1>6, <1>7, <1>8 DEF Next, Lookup

(* A call answers from the cache or with what git found.                   *)
LEMMA AnswerFrom ==
    ASSUME TypeOK, [Next]_vars, NEW t \in Threads, pc[t] # "idle", pc'[t] = "idle"
    PROVE  LookHit(t) \/ Store(t)
<1> USE DEF TypeOK, Goto
<1>1. ASSUME NEW u \in Threads, Begin(u) \/ Ask(u) PROVE FALSE
  BY <1>1 DEF Begin, Ask
<1>2. ASSUME NEW u \in Threads, LookMiss(u) \/ GitReads(u) \/ GitEnds(u) \/ GitFails(u) PROVE FALSE
  BY <1>2 DEF LookMiss, GitReads, GitEnds, GitFails
<1>3. ASSUME NEW u \in Threads, LookHit(u) \/ Store(u) PROVE u = t
  BY <1>3 DEF LookHit, Store, Answered
<1>4. ASSUME NEW d \in Dirs, SetCwd(d) \/ \E r \in Answers : Repository(d, r) PROVE FALSE
  BY <1>4 DEF SetCwd, Repository
<1>5. CASE Tick \/ UNCHANGED vars
  BY <1>5 DEF Tick, vars
<1> QED BY <1>1, <1>2, <1>3, <1>4, <1>5 DEF Next, Lookup

(* However lookups overlap and whatever becomes of directories, the root   *)
(* in an answer was the root of its directory less than the lifetime of    *)
(* the cache and the time git may take ago.                                *)
THEOREM RootFreshCorrect == Spec => RootFresh
<1> DEFINE Fresh == \A t \in Threads :
                       pc[t] # "idle" /\ pc'[t] = "idle" /\ got'[t] \in Roots =>
                           moved[t] \/ since[shown[t]][got'[t]] < Horizon
<1>1. Known /\ [Next]_vars => Fresh
  <2> SUFFICES ASSUME Known, [Next]_vars, NEW t \in Threads,
                      pc[t] # "idle", pc'[t] = "idle", got'[t] \in Roots, ~moved[t]
               PROVE  since[shown[t]][got'[t]] < Horizon
    OBVIOUS
  <2> USE RootAssumption DEF Known, TypeOK, SameDir, Horizon, Answered
  <2>1. CASE LookHit(t)
    BY <2>1 DEF LookHit, Hit, CacheAge
  <2>2. CASE Store(t)
    BY <2>2 DEF Store, GitAge
  <2> QED BY <2>1, <2>2, AnswerFrom
<1>2. Spec => []Known
  BY KnownInit, KnownStep, PTL DEF Spec
<1> QED BY <1>1, <1>2, PTL DEF Spec, RootFresh

-----------------------------------------------------------------------------

(* The numbers up to n that are in S, from those up to n - 1.              *)
Grown(n, S, up) == IF n \in S THEN Append(up, n) ELSE up

LEMMA AscendingBuilt ==
    ASSUME NEW n \in Nat, NEW S
    PROVE  \E up \in [0 .. n -> Seq(Nat)] :
              /\ up[0] = <<>> /\ \A k \in 1 .. n : up[k] = Grown(k, S, up[k - 1])
              /\ Ascending(n, S) = up[n]
<1> DEFINE V == Seq(Nat)
           F == [k \in 1 .. n |-> [v \in V |-> Grown(k, S, v)]]
           Equation(u) == u = [k \in 0 .. n |-> IF k = 0 THEN <<>>
                                  ELSE IF k \in S THEN Append(u[k - 1], k)
                                  ELSE u[k - 1]]
           up == CHOOSE u : Equation(u)
<1>1. <<>> \in V /\ F \in [1 .. n -> [V -> V]]
  BY DEF Grown
<1>2. PICK g : Iterates(n, V, <<>>, F, g)
  <2> HIDE DEF F, V
  <2> QED BY <1>1, IteratesExist
<1>3. g \in [0 .. n -> V] /\ g[0] = <<>> /\ \A k \in 1 .. n : g[k] = Grown(k, S, g[k - 1])
  <2>1. \A k \in 1 .. n : k - 1 \in 0 .. n
    OBVIOUS
  <2> HIDE DEF V
  <2> QED BY <1>2, <2>1 DEF Iterates
<1>4. Equation(g)
  <2>1. \A k \in 0 .. n : k # 0 => k \in 1 .. n
    OBVIOUS
  <2> HIDE DEF V
  <2> QED BY <1>3, <2>1 DEF Grown
<1>5. Equation(up)
  <2> HIDE DEF Equation
  <2> QED BY <1>4
<1>6. Ascending(n, S) = up[n]
  BY DEF Ascending
<1> HIDE DEF up
<1>7. up[0] = <<>> /\ \A k \in 1 .. n : up[k] = Grown(k, S, up[k - 1])
  <2>1. 0 \in 0 .. n /\ \A k \in 1 .. n : k \in 0 .. n /\ k # 0
    OBVIOUS
  <2> QED BY <1>5, <2>1, Zenon DEF Grown
<1> HIDE DEF Equation
<1>8. Agree(n, up, g)
  <2>1. up[0] = g[0] /\ \A k \in 1 .. n : up[k - 1] = g[k - 1] => up[k] = g[k]
    BY <1>3, <1>7, Zenon
  <2> QED BY <2>1, IteratesAgree
<1>9. Ascending(n, S) = g[n]
  BY <1>6, <1>8 DEF Agree
<1> HIDE DEF V
<1> QED BY <1>3, <1>9 DEF V

LEMMA AscendingNext ==
    ASSUME NEW n \in Nat, NEW S
    PROVE  /\ Ascending(n, S) \in Seq(Nat)
           /\ n = 0 => Ascending(n, S) = <<>>
           /\ n # 0 => Ascending(n, S) = Grown(n, S, Ascending(n - 1, S))
<1>1. PICK up \in [0 .. n -> Seq(Nat)] :
              /\ up[0] = <<>> /\ \A k \in 1 .. n : up[k] = Grown(k, S, up[k - 1])
              /\ Ascending(n, S) = up[n]
  BY AscendingBuilt
<1>2. ASSUME n # 0 PROVE Ascending(n, S) = Grown(n, S, Ascending(n - 1, S))
  <2>1. n - 1 \in Nat
    BY <1>2
  <2>2. PICK less \in [0 .. n - 1 -> Seq(Nat)] :
              /\ less[0] = <<>> /\ \A k \in 1 .. n - 1 : less[k] = Grown(k, S, less[k - 1])
              /\ Ascending(n - 1, S) = less[n - 1]
    BY <2>1, AscendingBuilt
  <2>3. Agree(n - 1, up, less)
    <3>1. up[0] = less[0] /\ \A k \in 1 .. n - 1 : up[k - 1] = less[k - 1] => up[k] = less[k]
      BY <1>1, <2>2
    <3> QED BY <2>1, <3>1, IteratesAgree
  <2>4. up[n - 1] = less[n - 1] /\ n \in 1 .. n
    BY <1>2, <2>1, <2>3 DEF Agree
  <2> QED BY <1>1, <2>2, <2>4
<1>3. up[n] \in Seq(Nat)
  BY <1>1
<1> QED BY <1>1, <1>2, <1>3

LEMMA AscendingElements ==
    ASSUME NEW n \in Nat, NEW S
    PROVE  LET s == Ascending(n, S)
           IN  /\ s \in Seq(Nat)
               /\ \A i \in 1 .. Len(s) : s[i] \in 1 .. n /\ s[i] \in S
               /\ \A i, j \in 1 .. Len(s) : i < j => s[i] < s[j]
               /\ \A k \in 1 .. n : k \in S => \E i \in 1 .. Len(s) : s[i] = k
<1> DEFINE Sorted(m, s) ==
               /\ s \in Seq(Nat)
               /\ \A i \in 1 .. Len(s) : s[i] \in 1 .. m /\ s[i] \in S
               /\ \A i, j \in 1 .. Len(s) : i < j => s[i] < s[j]
               /\ \A k \in 1 .. m : k \in S => \E i \in 1 .. Len(s) : s[i] = k
           T == {m \in 0 .. n : Sorted(m, Ascending(m, S))}
<1>1. 0 \in T
  <2>1. Ascending(0, S) = <<>>
    BY AscendingNext
  <2>2. Sorted(0, <<>>)
    OBVIOUS
  <2> HIDE DEF Sorted
  <2> QED BY <2>1, <2>2
<1>2. ASSUME NEW m \in 1 .. n, m - 1 \in T PROVE m \in T
  <2> DEFINE s == Ascending(m - 1, S)
             t == Ascending(m, S)
  <2>1. m \in Nat /\ m # 0 /\ m - 1 \in Nat /\ Sorted(m - 1, s)
    BY <1>2
  <2>2. t = Grown(m, S, s)
    BY <2>1, AscendingNext
  <2> HIDE DEF s, t
  <2>3. CASE m \in S
    <3>1. t = Append(s, m)
      BY <2>2, <2>3 DEF Grown
    <3>2. t \in Seq(Nat) /\ Len(t) = Len(s) + 1 /\ Len(s) \in Nat /\ t[Len(s) + 1] = m
          /\ \A i \in 1 .. Len(s) : t[i] = s[i]
      BY <2>1, <3>1
    <3>3. \A i \in 1 .. Len(t) : i \in 1 .. Len(s) \/ i = Len(s) + 1
      BY <3>2
    <3>4. \A i \in 1 .. Len(s) : i \in 1 .. Len(t)
      BY <3>2
    <3> QED
      <4>1. \A i \in 1 .. Len(t) : t[i] \in 1 .. m /\ t[i] \in S
        <5>1. \A i \in 1 .. Len(s) : t[i] \in 1 .. m /\ t[i] \in S
          <6>1. \A x \in 1 .. m - 1 : x \in 1 .. m
            OBVIOUS
          <6>2. \A i \in 1 .. Len(s) : s[i] \in 1 .. m - 1 /\ s[i] \in S /\ t[i] = s[i]
            BY <2>1, <3>2
          <6> QED BY <6>1, <6>2
        <5>2. t[Len(s) + 1] \in 1 .. m /\ t[Len(s) + 1] \in S
          BY <2>3, <3>2
        <5> QED BY <3>3, <5>1, <5>2
      <4>2. \A i, j \in 1 .. Len(t) : i < j => t[i] < t[j]
        <5> SUFFICES ASSUME NEW i \in 1 .. Len(t), NEW j \in 1 .. Len(t), i < j PROVE t[i] < t[j]
          OBVIOUS
        <5>1. i \in 1 .. Len(s)
          BY <3>2
        <5>2. t[i] = s[i] /\ s[i] \in 1 .. m - 1
          BY <2>1, <3>2, <5>1
        <5>3. CASE j = Len(s) + 1
          BY <2>1, <3>2, <5>2, <5>3
        <5>4. CASE j \in 1 .. Len(s)
          BY <2>1, <3>2, <5>1, <5>4
        <5> QED BY <3>3, <5>3, <5>4
      <4>3. \A k \in 1 .. m : k \in S => \E i \in 1 .. Len(t) : t[i] = k
        <5> SUFFICES ASSUME NEW k \in 1 .. m, k \in S PROVE \E i \in 1 .. Len(t) : t[i] = k
          OBVIOUS
        <5>1. CASE k = m
          BY <3>2, <5>1
        <5>2. CASE k # m
          <6>1. k \in 1 .. m - 1
            BY <5>2
          <6>2. PICK i \in 1 .. Len(s) : s[i] = k
            BY <2>1, <6>1
          <6> QED BY <3>2, <3>4, <6>2
        <5> QED BY <5>1, <5>2
      <4> QED BY <3>2, <4>1, <4>2, <4>3 DEF t
  <2>4. CASE m \notin S
    <3>1. t = s
      BY <2>2, <2>4 DEF Grown
    <3>2. \A k \in 1 .. m : k \in S => k \in 1 .. m - 1
      BY <2>4
    <3>3. Sorted(m, s)
      BY <2>1, <3>2
    <3> QED BY <3>1, <3>3 DEF t
  <2> QED BY <2>3, <2>4
<1>3. \A m \in 0 .. n : m \in T
  <2> HIDE DEF T
  <2> QED BY <1>1, <1>2, UpwardsTo
<1>4. n \in T
  BY <1>3
<1> QED BY <1>4

LEMMA AscendingLocal ==
    ASSUME NEW n \in Nat, NEW S, NEW R, \A k \in 1 .. n : k \in S <=> k \in R
    PROVE  Ascending(n, S) = Ascending(n, R)
<1> DEFINE T == {m \in 0 .. n : Ascending(m, S) = Ascending(m, R)}
<1>1. 0 \in T
  BY AscendingNext
<1>2. ASSUME NEW m \in 1 .. n, m - 1 \in T PROVE m \in T
  <2>1. m \in Nat /\ m # 0 /\ m - 1 \in Nat /\ m \in 0 .. n /\ m \in 1 .. n
    OBVIOUS
  <2>2. /\ Ascending(m, S) = Grown(m, S, Ascending(m - 1, S))
        /\ Ascending(m, R) = Grown(m, R, Ascending(m - 1, R))
    BY <2>1, AscendingNext
  <2> QED BY <1>2, <2>1, <2>2 DEF Grown
<1>3. \A m \in 0 .. n : m \in T
  <2> HIDE DEF T
  <2> QED BY <1>1, <1>2, UpwardsTo
<1> QED BY <1>3

-----------------------------------------------------------------------------
(* The lines of the matches in a stream of events.                         *)
Positions == Nat \X Nat

Stream == {[type |-> "begin"], [type |-> "end"]} \cup [type : {"match", "context"}, line : Positions]

MatchLines(events) ==
    LET found == OfType(events, "match")
    IN  [i \in DOMAIN found |-> events[found[i]].line]

LEMMA FoundTypes ==
    ASSUME NEW events \in Seq(Stream), NEW type
    PROVE  LET found == OfType(events, type)
           IN  /\ found \in Seq(Nat)
               /\ \A i \in 1 .. Len(found) :
                     found[i] \in 1 .. Len(events) /\ events[found[i]].type = type
BY AscendingElements DEF OfType

LEMMA MatchLinesType ==
    ASSUME NEW events \in Seq(Stream)
    PROVE  /\ MatchLines(events) \in Seq(Positions)
           /\ Len(MatchLines(events)) = Len(OfType(events, "match"))
<1> DEFINE found == OfType(events, "match")
<1>1. /\ found \in Seq(Nat)
      /\ \A i \in 1 .. Len(found) : found[i] \in 1 .. Len(events) /\ events[found[i]].type = "match"
  BY FoundTypes
<1> HIDE DEF found
<1>2. \A i \in 1 .. Len(found) : events[found[i]] \in Stream
  BY <1>1
<1>3. \A e \in Stream : e.type = "match" => e.line \in Positions
  BY DEF Stream
<1>4. \A i \in 1 .. Len(found) : events[found[i]].line \in Positions
  BY <1>1, <1>2, <1>3
<1>5. MatchLines(events) = [i \in 1 .. Len(found) |-> events[found[i]].line]
  BY <1>1 DEF MatchLines, found
<1>6. Len(found) \in Nat
  BY <1>1
<1> QED BY <1>4, <1>5, <1>6 DEF found

LEMMA MatchLinesAppend ==
    ASSUME NEW events \in Seq(Stream), NEW e \in Stream
    PROVE  MatchLines(Append(events, e)) =
               IF e.type = "match" THEN Append(MatchLines(events), e.line) ELSE MatchLines(events)
<1> DEFINE n == Len(events)
           more == Append(events, e)
           old == OfType(events, "match")
           new == OfType(more, "match")
           M(es) == {i \in DOMAIN es : es[i].type = "match"}
<1>1. /\ n \in Nat /\ Len(more) = n + 1 /\ more[n + 1] = e /\ more \in Seq(Stream)
      /\ \A i \in 1 .. n : more[i] = events[i]
  OBVIOUS
<1>2. DOMAIN events = 1 .. n /\ DOMAIN more = 1 .. n + 1
  BY <1>1
<1>3. old = Ascending(n, M(events)) /\ new = Ascending(n + 1, M(more))
  BY <1>1 DEF OfType
<1> HIDE DEF n, more, old, new
<1>4. Ascending(n, M(more)) = old
  <2>1. \A i \in 1 .. n : i \in 1 .. n + 1
    BY <1>1
  <2>2. \A i \in 1 .. n : i \in M(events) <=> i \in M(more)
    BY <1>1, <1>2, <2>1
  <2> HIDE DEF M
  <2> QED BY <1>1, <1>3, <2>2, AscendingLocal
<1>5. new = Grown(n + 1, M(more), old)
  <2>1. n + 1 \in Nat /\ n + 1 # 0 /\ (n + 1) - 1 = n
    BY <1>1
  <2> HIDE DEF M
  <2> QED BY <1>3, <1>4, <2>1, AscendingNext
<1>6. n + 1 \in M(more) <=> e.type = "match"
  BY <1>1, <1>2
<1> HIDE DEF M
<1>7. /\ old \in Seq(Nat) /\ Len(old) \in Nat
      /\ \A i \in 1 .. Len(old) : old[i] \in 1 .. n
  BY FoundTypes DEF old, n
<1>8. MatchLines(events) = [i \in 1 .. Len(old) |-> events[old[i]].line]
  BY <1>7 DEF MatchLines, old
<1>9. CASE e.type = "match"
  <2>1. new = Append(old, n + 1)
    BY <1>5, <1>6, <1>9 DEF Grown
  <2>2. /\ new \in Seq(Nat) /\ Len(new) = Len(old) + 1 /\ new[Len(old) + 1] = n + 1
        /\ \A i \in 1 .. Len(old) : new[i] = old[i]
    BY <1>1, <1>7, <2>1
  <2>3. MatchLines(more) = [i \in 1 .. Len(new) |-> more[new[i]].line]
    BY <2>2 DEF MatchLines, new
  <2> DEFINE L == MatchLines(events)
  <2>4. L \in Seq(Positions) /\ Len(L) = Len(old) /\ \A i \in 1 .. Len(old) : L[i] = events[old[i]].line
    BY <1>8, MatchLinesType DEF old
  <2>5. e.line \in Positions
    BY <1>9 DEF Stream
  <2> HIDE DEF L
  <2>6. /\ Append(L, e.line) \in Seq(Positions) /\ Len(Append(L, e.line)) = Len(new)
        /\ Append(L, e.line)[Len(old) + 1] = e.line
        /\ \A i \in 1 .. Len(old) : Append(L, e.line)[i] = L[i]
    BY <2>2, <2>4, <2>5
  <2>7. \A i \in 1 .. Len(new) : i \in 1 .. Len(old) \/ i = Len(old) + 1
    BY <1>7, <2>2
  <2>8. \A i \in 1 .. Len(new) : Append(L, e.line)[i] = more[new[i]].line
    <3>1. \A i \in 1 .. Len(old) : Append(L, e.line)[i] = more[new[i]].line
      <4> SUFFICES ASSUME NEW i \in 1 .. Len(old) PROVE Append(L, e.line)[i] = more[new[i]].line
        OBVIOUS
      <4>1. new[i] = old[i] /\ old[i] \in 1 .. n
        BY <1>7, <2>2
      <4>2. more[new[i]] = events[old[i]]
        BY <1>1, <4>1
      <4> QED BY <2>4, <2>6, <4>2
    <3>2. Append(L, e.line)[Len(old) + 1] = more[new[Len(old) + 1]].line
      BY <1>1, <2>2, <2>6
    <3> QED BY <2>7, <3>1, <3>2
  <2>9. Append(L, e.line) = [i \in 1 .. Len(new) |-> Append(L, e.line)[i]]
    BY <2>6
  <2> QED BY <1>9, <2>3, <2>8, <2>9 DEF more, L
<1>10. CASE e.type # "match"
  <2>1. new = old
    BY <1>5, <1>6, <1>10 DEF Grown
  <2>2. MatchLines(more) = [i \in 1 .. Len(old) |-> more[old[i]].line]
    BY <1>7, <2>1 DEF MatchLines, new
  <2>3. \A i \in 1 .. Len(old) : more[old[i]].line = events[old[i]].line
    BY <1>1, <1>7
  <2> QED BY <1>8, <1>10, <2>2, <2>3 DEF more
<1> QED BY <1>9, <1>10
(* The matching lines of a file, as positions in the corpus, and what is   *)
(* printed of some lines of it.                                            *)
HitsOf(file, f) ==
    LET hits == Ascending(Len(file), Matching(file))
    IN  [i \in DOMAIN hits |-> At(f, hits[i])]

Placed(f, s) == [i \in DOMAIN s |-> At(f, s[i])]

Event(file, f, n) == [type |-> IF file[n] THEN "match" ELSE "context", line |-> At(f, n)]

EventsOf(file, f, s) == [i \in DOMAIN s |-> Event(file, f, s[i])]

LEMMA PlacedAppend ==
    ASSUME NEW f \in Nat, NEW s \in Seq(Nat), NEW n \in Nat
    PROVE  /\ Placed(f, s) \in Seq(Positions)
           /\ Placed(f, Append(s, n)) = Append(Placed(f, s), At(f, n))
<1>1. \A k \in Nat : At(f, k) \in Positions
  BY DEF At, Positions
<1>2. Placed(f, s) \in Seq(Positions) /\ Len(Placed(f, s)) = Len(s)
      /\ \A i \in 1 .. Len(s) : Placed(f, s)[i] = At(f, s[i])
  <2>1. DOMAIN s = 1 .. Len(s) /\ Len(s) \in Nat /\ \A i \in 1 .. Len(s) : s[i] \in Nat
    OBVIOUS
  <2>2. Placed(f, s) = [i \in 1 .. Len(s) |-> At(f, s[i])]
    BY <2>1 DEF Placed
  <2> QED BY <1>1, <2>1, <2>2
<1> DEFINE t == Append(s, n)
           a == Placed(f, t)
           b == Append(Placed(f, s), At(f, n))
<1>3. t \in Seq(Nat) /\ Len(t) = Len(s) + 1 /\ t[Len(s) + 1] = n /\ Len(s) \in Nat
      /\ \A i \in 1 .. Len(s) : t[i] = s[i]
  OBVIOUS
<1>4. a \in Seq(Positions) /\ Len(a) = Len(t) /\ \A i \in 1 .. Len(t) : a[i] = At(f, t[i])
  <2> HIDE DEF t
  <2> QED BY <1>1, <1>3 DEF Placed
<1>5. b \in Seq(Positions) /\ Len(b) = Len(s) + 1 /\ b[Len(s) + 1] = At(f, n)
      /\ \A i \in 1 .. Len(s) : b[i] = Placed(f, s)[i]
  <2>1. At(f, n) \in Positions
    BY <1>1
  <2> QED BY <1>2, <2>1, AppendProperties
<1> HIDE DEF a, b, t
<1>6. \A i \in 1 .. Len(t) : i \in 1 .. Len(s) \/ i = Len(s) + 1
  BY <1>3
<1>7. \A i \in 1 .. Len(t) : a[i] = b[i]
  BY <1>2, <1>3, <1>4, <1>5, <1>6
<1>8. a = b
  BY <1>3, <1>4, <1>5, <1>7, SeqEqual
<1> QED BY <1>2, <1>8 DEF a, b, t

LEMMA EventsAppend ==
    ASSUME NEW file \in Seq(BOOLEAN), NEW f \in Nat, NEW s \in Seq(Nat), NEW n \in Nat
    PROVE  /\ EventsOf(file, f, s) \in Seq(Stream)
           /\ EventsOf(file, f, Append(s, n)) = Append(EventsOf(file, f, s), Event(file, f, n))
<1>1. \A k \in Nat : Event(file, f, k) \in Stream
  BY DEF Event, Stream, At, Positions
<1>2. EventsOf(file, f, s) \in Seq(Stream) /\ Len(EventsOf(file, f, s)) = Len(s)
      /\ \A i \in 1 .. Len(s) : EventsOf(file, f, s)[i] = Event(file, f, s[i])
  <2>1. DOMAIN s = 1 .. Len(s) /\ Len(s) \in Nat /\ \A i \in 1 .. Len(s) : s[i] \in Nat
    OBVIOUS
  <2>2. EventsOf(file, f, s) = [i \in 1 .. Len(s) |-> Event(file, f, s[i])]
    BY <2>1 DEF EventsOf
  <2> QED BY <1>1, <2>1, <2>2
<1> DEFINE t == Append(s, n)
           a == EventsOf(file, f, t)
           b == Append(EventsOf(file, f, s), Event(file, f, n))
<1>3. t \in Seq(Nat) /\ Len(t) = Len(s) + 1 /\ t[Len(s) + 1] = n /\ Len(s) \in Nat
      /\ \A i \in 1 .. Len(s) : t[i] = s[i]
  OBVIOUS
<1>4. a \in Seq(Stream) /\ Len(a) = Len(t) /\ \A i \in 1 .. Len(t) : a[i] = Event(file, f, t[i])
  <2> HIDE DEF t
  <2> QED BY <1>1, <1>3 DEF EventsOf
<1>5. b \in Seq(Stream) /\ Len(b) = Len(s) + 1 /\ b[Len(s) + 1] = Event(file, f, n)
      /\ \A i \in 1 .. Len(s) : b[i] = EventsOf(file, f, s)[i]
  <2>1. Event(file, f, n) \in Stream
    BY <1>1
  <2> QED BY <1>2, <2>1, AppendProperties
<1> HIDE DEF a, b, t
<1>6. \A i \in 1 .. Len(t) : i \in 1 .. Len(s) \/ i = Len(s) + 1
  BY <1>3
<1>7. \A i \in 1 .. Len(t) : a[i] = b[i]
  BY <1>2, <1>3, <1>4, <1>5, <1>6
<1>8. a = b
  BY <1>3, <1>4, <1>5, <1>7, SeqEqual
<1> QED BY <1>2, <1>8 DEF a, b, t

LEMMA ConcatAppend ==
    ASSUME NEW V, NEW s \in Seq(V), NEW t \in Seq(V), NEW v \in V
    PROVE  s \o Append(t, v) = Append(s \o t, v)
<1>1. Append(t, v) = t \o <<v>> /\ <<v>> \in Seq(V) /\ s \o t \in Seq(V)
  BY AppendIsConcat, ConcatProperties
<1>2. Append(s \o t, v) = (s \o t) \o <<v>>
  BY <1>1, AppendIsConcat
<1> DEFINE last == <<v>>
<1>3. last \in Seq(V)
  BY <1>1
<1> HIDE DEF last
<1>4. Joins(s, t, last)
  BY <1>3, Joined
<1> QED BY <1>1, <1>2, <1>4 DEF Joins, last

LEMMA MatchesShown ==
    ASSUME NEW file \in Seq(BOOLEAN), NEW context \in Nat
    PROVE  /\ \A k \in Matching(file) : k \in Near(file, context)
           /\ Matching(file) \subseteq 1 .. Len(file)
           /\ Near(file, context) \subseteq 1 .. Len(file)
<1>1. DOMAIN file = 1 .. Len(file) /\ Len(file) \in Nat
  OBVIOUS
<1>2. \A k \in 1 .. Len(file) : k - k \in -context .. context
  OBVIOUS
<1> QED BY <1>1, <1>2 DEF Matching, Near

(* What a file adds to the matches of the stream.                          *)
LEMMA FileMatches ==
    ASSUME NEW file \in Seq(BOOLEAN), NEW f \in Nat, NEW context \in Nat, NEW front \in Seq(Stream)
    PROVE  /\ FileEvents(file, f, context) \in Seq(Stream)
           /\ HitsOf(file, f) \in Seq(Positions)
           /\ MatchLines(front \o FileEvents(file, f, context)) = MatchLines(front) \o HitsOf(file, f)
<1> DEFINE n == Len(file)
           N == Near(file, context)
           M == Matching(file)
           begin == [type |-> "begin"]
           end == [type |-> "end"]
           front1 == Append(front, begin)
           seen(m) == Ascending(m, N)
           hits(m) == Ascending(m, M)
           T == {m \in 0 .. n : MatchLines(front1 \o EventsOf(file, f, seen(m)))
                                    = MatchLines(front) \o Placed(f, hits(m))}
<1>1. n \in Nat /\ begin \in Stream /\ end \in Stream /\ begin.type # "match" /\ end.type # "match"
  BY DEF Stream
<1>2. front1 \in Seq(Stream) /\ MatchLines(front1) = MatchLines(front) /\ MatchLines(front) \in Seq(Positions)
  BY <1>1, MatchLinesAppend, MatchLinesType, AppendProperties
<1> HIDE DEF begin, end, front1
<1>3. M \subseteq N /\ \A k \in M : file[k]
  BY MatchesShown DEF Matching
<1>3a. \A k \in 1 .. n : k \in N /\ k \notin M => ~file[k]
  BY DEF Matching, Near
<1> HIDE DEF N, M, n
<1>4. \A m \in Nat : seen(m) \in Seq(Nat) /\ hits(m) \in Seq(Nat)
  BY AscendingNext
<1>5. 0 \in T
  <2>1. seen(0) = <<>> /\ hits(0) = <<>>
    BY AscendingNext
  <2>2. EventsOf(file, f, <<>>) = <<>> /\ Placed(f, <<>>) = <<>>
    BY DEF EventsOf, Placed
  <2>3. front1 \o <<>> = front1 /\ MatchLines(front) \o <<>> = MatchLines(front)
    BY <1>2, ConcatEmptySeq
  <2> HIDE DEF seen, hits
  <2>4. MatchLines(front1 \o EventsOf(file, f, seen(0))) = MatchLines(front) \o Placed(f, hits(0))
    BY <1>2, <2>1, <2>2, <2>3
  <2> QED BY <1>1, <2>4
<1>6. ASSUME NEW m \in 1 .. n, m - 1 \in T PROVE m \in T
  <2>1. m \in Nat /\ m # 0 /\ m - 1 \in Nat /\ m \in 0 .. n
    BY <1>1
  <2>2. seen(m) = Grown(m, N, seen(m - 1)) /\ hits(m) = Grown(m, M, hits(m - 1))
    BY <2>1, AscendingNext
  <2>3. seen(m - 1) \in Seq(Nat) /\ hits(m - 1) \in Seq(Nat)
    BY <1>4, <2>1
  <2> DEFINE es == EventsOf(file, f, seen(m - 1))
             hs == Placed(f, hits(m - 1))
             e == Event(file, f, m)
  <2>4. es \in Seq(Stream) /\ hs \in Seq(Positions) /\ e \in Stream /\ e.line = At(f, m) /\ At(f, m) \in Positions
    <3>1. es \in Seq(Stream) /\ hs \in Seq(Positions)
      BY <2>1, <2>3, PlacedAppend, EventsAppend
    <3>2. At(f, m) \in Positions
      BY <2>1 DEF At, Positions
    <3> QED BY <3>1, <3>2 DEF Event, Stream
  <2>5. /\ EventsOf(file, f, Append(seen(m - 1), m)) = Append(es, e)
        /\ Placed(f, Append(hits(m - 1), m)) = Append(hs, At(f, m))
    BY <2>1, <2>3, PlacedAppend, EventsAppend
  <2>6. MatchLines(front1 \o es) = MatchLines(front) \o hs
    BY <1>6
  <2> HIDE DEF es, hs
  <2>7. front1 \o es \in Seq(Stream) /\ front1 \o Append(es, e) = Append(front1 \o es, e)
    BY <1>2, <2>4, ConcatAppend, ConcatProperties
  <2>8. MatchLines(front) \o Append(hs, At(f, m)) = Append(MatchLines(front) \o hs, At(f, m))
    BY <1>2, <2>4, ConcatAppend
  <2>9. CASE m \in M
    <3>1. e.type = "match"
      BY <1>3, <2>9 DEF Event
    <3>2. m \in N
      BY <1>3, <2>9
    <3> HIDE DEF e
    <3>3. MatchLines(Append(front1 \o es, e)) = Append(MatchLines(front1 \o es), e.line)
      BY <2>4, <2>7, <3>1, MatchLinesAppend
    <3>4. /\ EventsOf(file, f, seen(m)) = Append(es, e)
          /\ Placed(f, hits(m)) = Append(hs, At(f, m))
      BY <2>2, <2>5, <2>9, <3>2 DEF Grown
    <3> HIDE DEF seen, hits
    <3>5. MatchLines(front1 \o EventsOf(file, f, seen(m))) = MatchLines(front) \o Placed(f, hits(m))
      BY <2>4, <2>6, <2>7, <2>8, <3>3, <3>4
    <3> QED BY <2>1, <3>5
  <2>10. CASE m \in N /\ m \notin M
    <3>1. e.type # "match"
      BY <1>3a, <2>10 DEF Event
    <3> HIDE DEF e
    <3>3. MatchLines(Append(front1 \o es, e)) = MatchLines(front1 \o es)
      BY <2>4, <2>7, <3>1, MatchLinesAppend
    <3>4. /\ EventsOf(file, f, seen(m)) = Append(es, e)
          /\ Placed(f, hits(m)) = hs
      BY <2>2, <2>5, <2>10 DEF Grown, hs
    <3> HIDE DEF seen, hits
    <3>5. MatchLines(front1 \o EventsOf(file, f, seen(m))) = MatchLines(front) \o Placed(f, hits(m))
      BY <2>6, <2>7, <3>3, <3>4
    <3> QED BY <2>1, <3>5
  <2>11. CASE m \notin N
    <3>1. m \notin M
      BY <1>3, <2>11
    <3>2. seen(m) = seen(m - 1) /\ hits(m) = hits(m - 1)
      BY <2>2, <2>11, <3>1 DEF Grown
    <3> HIDE DEF seen, hits
    <3>3. MatchLines(front1 \o EventsOf(file, f, seen(m))) = MatchLines(front) \o Placed(f, hits(m))
      BY <2>6, <3>2 DEF es, hs
    <3> QED BY <2>1, <3>3
  <2> QED BY <2>9, <2>10, <2>11
<1>7. n \in T
  <2>1. \A m \in 0 .. n : m \in T
    <3> HIDE DEF T
    <3> QED BY <1>1, <1>5, <1>6, UpwardsTo
  <2> HIDE DEF T
  <2> QED BY <1>1, <2>1
<1> DEFINE es == EventsOf(file, f, seen(n))
           hs == Placed(f, hits(n))
<1>8. es \in Seq(Stream) /\ hs \in Seq(Positions) /\ hs = HitsOf(file, f)
  <2>1. seen(n) \in Seq(Nat) /\ hits(n) \in Seq(Nat)
    BY <1>1, <1>4
  <2>2. hs = HitsOf(file, f)
    BY DEF Placed, HitsOf, n, M
  <2> QED BY <2>1, <2>2, PlacedAppend, EventsAppend
<1>9. MatchLines(front1 \o es) = MatchLines(front) \o hs
  BY <1>7
<1>10. FileEvents(file, f, context) = IF seen(n) = <<>> THEN <<>> ELSE <<begin>> \o es \o <<end>>
  BY DEF FileEvents, EventsOf, Event, n, N, begin, end
<1>11. CASE seen(n) = <<>>
  <2>1. \A k \in 1 .. n : k \notin N
    <3>1. \A k \in 1 .. n : k \in N => \E i \in 1 .. Len(seen(n)) : seen(n)[i] = k
      BY <1>1, AscendingElements
    <3>2. Len(seen(n)) = 0
      BY <1>11
    <3> QED BY <3>1, <3>2
  <2>2. Ascending(n, M) = Ascending(n, N)
    BY <1>1, <1>3, <2>1, AscendingLocal
  <2>3. hs = <<>>
    BY <1>11, <2>2 DEF Placed
  <2>4. front \o <<>> = front /\ MatchLines(front) \o <<>> = MatchLines(front)
    BY <1>2, ConcatEmptySeq
  <2> HIDE DEF hs, es
  <2> QED BY <1>8, <1>10, <1>11, <2>3, <2>4
<1>12. CASE seen(n) # <<>>
  <2> HIDE DEF es, hs, seen
  <2>1. <<begin>> \in Seq(Stream) /\ <<end>> \in Seq(Stream)
    BY <1>1
  <2>2. <<begin>> \o es \in Seq(Stream) /\ (<<begin>> \o es) \o <<end>> \in Seq(Stream)
    BY <1>8, <2>1, ConcatProperties
  <2>3. front1 = front \o <<begin>> /\ front1 \o es \in Seq(Stream)
    BY <1>1, <1>2, <1>8, AppendIsConcat, ConcatProperties DEF front1
  <2>4. front \o ((<<begin>> \o es) \o <<end>>) = (front \o (<<begin>> \o es)) \o <<end>>
    <3> DEFINE middle == <<begin>> \o es
               last == <<end>>
    <3>1. middle \in Seq(Stream)
      BY <2>1, <2>2
    <3>2. last \in Seq(Stream)
      BY <2>1, <2>2
    <3>3. front \in Seq(Stream)
      OBVIOUS
    <3> HIDE DEF middle, last
    <3>4. Joins(front, middle, last)
      BY <3>1, <3>2, <3>3, Joined
    <3> QED BY <3>4 DEF Joins, middle, last
  <2>5. front \o (<<begin>> \o es) = front1 \o es
    <3> DEFINE first == <<begin>>
    <3>1. first \in Seq(Stream)
      BY <2>1
    <3>2. front \in Seq(Stream) /\ es \in Seq(Stream)
      BY <1>8
    <3> HIDE DEF first
    <3>3. Joins(front, first, es)
      BY <3>1, <3>2, Joined
    <3> QED BY <2>3, <3>3 DEF Joins, first
  <2>6. (front1 \o es) \o <<end>> = Append(front1 \o es, end)
    BY <1>1, <2>3, AppendIsConcat
  <2>7. MatchLines(Append(front1 \o es, end)) = MatchLines(front1 \o es)
    BY <1>1, <2>3, MatchLinesAppend
  <2> QED BY <1>8, <1>9, <1>10, <1>12, <2>2, <2>4, <2>5, <2>6, <2>7
<1> QED BY <1>11, <1>12
CorpusType == Seq(Seq(BOOLEAN))

LEMMA HitsBuilt ==
    ASSUME NEW corpus \in CorpusType
    PROVE  \E all \in [0 .. Len(corpus) -> Seq(Positions)] :
              /\ all[0] = <<>>
              /\ \A f \in 1 .. Len(corpus) : all[f] = all[f - 1] \o HitsOf(corpus[f], f)
              /\ AllHits(corpus) = all[Len(corpus)]
<1> DEFINE n == Len(corpus)
           s == [f \in 1 .. n |-> HitsOf(corpus[f], f)]
<1>1. n \in Nat /\ DOMAIN corpus = 1 .. n /\ \A f \in 1 .. n : f \in Nat /\ corpus[f] \in Seq(BOOLEAN)
  BY DEF CorpusType
<1>2. \A f \in 1 .. n : HitsOf(corpus[f], f) \in Seq(Positions)
  <2>1. <<>> \in Seq(Stream) /\ 0 \in Nat
    OBVIOUS
  <2> HIDE DEF n
  <2> QED BY <1>1, <2>1, FileMatches
<1>3. s \in Seq(Seq(Positions)) /\ Len(s) = n /\ \A f \in 1 .. n : s[f] = HitsOf(corpus[f], f)
  <2> HIDE DEF n
  <2> QED BY <1>1, <1>2
<1>4. AllHits(corpus) = FlattenSeq(s)
  BY <1>1 DEF AllHits, HitsOf
<1> HIDE DEF s, n
<1>5. PICK flat \in [0 .. Len(s) -> Seq(Positions)] :
              /\ flat[0] = <<>> /\ \A k \in 1 .. Len(s) : flat[k] = flat[k - 1] \o s[k]
              /\ FlattenSeq(s) = flat[Len(s)]
  BY <1>3, FlattenBuilt
<1>6. flat \in [0 .. n -> Seq(Positions)] /\ \A f \in 1 .. n : flat[f] = flat[f - 1] \o HitsOf(corpus[f], f)
  BY <1>3, <1>5
<1> QED BY <1>3, <1>4, <1>5, <1>6 DEF n

(* The stream of a corpus, file by file.                                   *)
LEMMA StreamBuilt ==
    ASSUME NEW corpus \in CorpusType, NEW context \in Nat
    PROVE  \E up \in [0 .. Len(corpus) -> Seq(Stream)] :
              /\ up[0] = <<>>
              /\ \A f \in 1 .. Len(corpus) : up[f] = up[f - 1] \o FileEvents(corpus[f], f, context)
              /\ RgEvents(corpus, context) = up[Len(corpus)]
<1> DEFINE n == Len(corpus)
           s == [f \in 1 .. n |-> FileEvents(corpus[f], f, context)]
<1>1. n \in Nat /\ DOMAIN corpus = 1 .. n /\ \A f \in 1 .. n : f \in Nat /\ corpus[f] \in Seq(BOOLEAN)
  BY DEF CorpusType
<1>2. \A f \in 1 .. n : FileEvents(corpus[f], f, context) \in Seq(Stream)
  <2>1. <<>> \in Seq(Stream)
    OBVIOUS
  <2> HIDE DEF n
  <2> QED BY <1>1, <2>1, FileMatches
<1>3. s \in Seq(Seq(Stream)) /\ Len(s) = n /\ \A f \in 1 .. n : s[f] = FileEvents(corpus[f], f, context)
  <2> HIDE DEF n
  <2> QED BY <1>1, <1>2
<1>4. RgEvents(corpus, context) = FlattenSeq(s)
  BY <1>1 DEF RgEvents
<1> HIDE DEF s, n
<1>5. PICK flat \in [0 .. Len(s) -> Seq(Stream)] :
              /\ flat[0] = <<>> /\ \A k \in 1 .. Len(s) : flat[k] = flat[k - 1] \o s[k]
              /\ FlattenSeq(s) = flat[Len(s)]
  BY <1>3, FlattenBuilt
<1>6. flat \in [0 .. n -> Seq(Stream)] /\ \A f \in 1 .. n : flat[f] = flat[f - 1] \o FileEvents(corpus[f], f, context)
  BY <1>3, <1>5
<1> QED BY <1>3, <1>4, <1>5, <1>6 DEF n

(* The matches in the stream are those of the corpus.                      *)
LEMMA StreamMatches ==
    ASSUME NEW corpus \in CorpusType, NEW context \in Nat
    PROVE  /\ RgEvents(corpus, context) \in Seq(Stream)
           /\ AllHits(corpus) \in Seq(Positions)
           /\ MatchLines(RgEvents(corpus, context)) = AllHits(corpus)
<1> DEFINE n == Len(corpus)
<1>1. n \in Nat /\ \A f \in 1 .. n : f \in Nat /\ corpus[f] \in Seq(BOOLEAN)
  BY DEF CorpusType
<1> HIDE DEF n
<1>2. PICK up \in [0 .. n -> Seq(Stream)] :
              /\ up[0] = <<>>
              /\ \A f \in 1 .. n : up[f] = up[f - 1] \o FileEvents(corpus[f], f, context)
              /\ RgEvents(corpus, context) = up[n]
  BY StreamBuilt DEF n
<1>3. PICK all \in [0 .. n -> Seq(Positions)] :
              /\ all[0] = <<>>
              /\ \A f \in 1 .. n : all[f] = all[f - 1] \o HitsOf(corpus[f], f)
              /\ AllHits(corpus) = all[n]
  BY HitsBuilt DEF n
<1> DEFINE T == {f \in 0 .. n : MatchLines(up[f]) = all[f]}
<1>4. 0 \in T
  <2>1. <<>> \in Seq(Stream) /\ Ascending(0, {i \in DOMAIN <<>> : <<>>[i].type = "match"}) = <<>>
    BY AscendingNext
  <2>2. MatchLines(<<>>) = <<>>
    BY <2>1 DEF MatchLines, OfType
  <2> QED BY <1>1, <1>2, <1>3, <2>2
<1>5. ASSUME NEW f \in 1 .. n, f - 1 \in T PROVE f \in T
  <2>1. f - 1 \in 0 .. n /\ f \in 0 .. n /\ up[f - 1] \in Seq(Stream)
    BY <1>1, <1>2
  <2>2. MatchLines(up[f]) = MatchLines(up[f - 1]) \o HitsOf(corpus[f], f)
    <3>1. up[f] = up[f - 1] \o FileEvents(corpus[f], f, context)
      BY <1>2
    <3>2. f \in Nat /\ corpus[f] \in Seq(BOOLEAN)
      BY <1>1
    <3>3. MatchLines(up[f - 1] \o FileEvents(corpus[f], f, context))
              = MatchLines(up[f - 1]) \o HitsOf(corpus[f], f)
      <4> HIDE DEF T
      <4> QED BY <2>1, <3>2, FileMatches
    <3> QED BY <3>1, <3>3
  <2> QED BY <1>3, <1>5, <2>1, <2>2
<1>6. n \in T
  <2>1. \A f \in 0 .. n : f \in T
    <3> HIDE DEF T
    <3> QED BY <1>1, <1>4, <1>5, UpwardsTo
  <2> QED BY <1>1, <2>1
<1> QED BY <1>1, <1>2, <1>3, <1>6

-----------------------------------------------------------------------------
First(s, maximum) == SubSeq(s, 1, Least(maximum, Len(s)))

LinesOf(results) == [i \in DOMAIN results |-> results[i].line]

LEMMA LeastOf ==
    ASSUME NEW a \in Nat, NEW b \in Nat
    PROVE  Least(a, b) \in 0 .. b /\ Least(a, b) =< a /\ (Least(a, b) < a => Least(a, b) = b)
BY DEF Least

LEMMA FirstElements ==
    ASSUME NEW V, NEW s \in Seq(V), NEW maximum \in Nat
    PROVE  LET m == Least(maximum, Len(s))
           IN  /\ m \in 0 .. Len(s)
               /\ First(s, maximum) \in Seq(V) /\ Len(First(s, maximum)) = m
               /\ \A i \in 1 .. m : i \in 1 .. Len(s) /\ First(s, maximum)[i] = s[i]
<1> DEFINE m == Least(maximum, Len(s))
<1>1. Len(s) \in Nat /\ m \in 0 .. Len(s)
  <2>1. Len(s) \in Nat
    OBVIOUS
  <2> QED BY <2>1, LeastOf
<1> HIDE DEF m
<1>2. First(s, maximum) = SubSeq(s, 1, m)
  BY DEF First, m
<1>3. SubSeq(s, 1, m) \in Seq(V) /\ Len(SubSeq(s, 1, m)) = m /\ \A i \in 1 .. m : SubSeq(s, 1, m)[i] = s[i]
  <2>1. m \in Nat /\ 1 \in Int /\ (m = 0 \/ (1 =< m /\ m =< Len(s)))
    BY <1>1
  <2>2. CASE m = 0
    <3>1. SubSeq(s, 1, 0) = <<>>
      BY SubSeqEmpty
    <3> QED BY <2>2, <3>1
  <2>3. CASE m # 0
    <3>1. \A i \in 1 .. m : i \in 1 .. Len(s)
      BY <1>1
    <3> QED BY <2>1, <2>3, <3>1, SubSeqProperties
  <2> QED BY <2>2, <2>3
<1> QED BY <1>1, <1>2, <1>3 DEF m

LEMMA RgFirst ==
    ASSUME NEW corpus \in CorpusType, NEW context \in Nat, NEW maximum \in Nat \ {0}
    PROVE  LET answer == SearchRg(corpus, maximum, context)
           IN  /\ Hits(answer) = First(AllHits(corpus), maximum)
               /\ ~answer.truncated => Hits(answer) = AllHits(corpus)
<1> DEFINE events == RgEvents(corpus, context)
           all == AllHits(corpus)
           found == OfType(events, "match")
           results == RgMatches(events, maximum, context)
           m == Least(maximum, Len(found))
<1>1. events \in Seq(Stream) /\ all \in Seq(Positions) /\ MatchLines(events) = all
  BY StreamMatches
<1> HIDE DEF events, all
<1>2. found \in Seq(Nat) /\ Len(found) \in Nat /\ DOMAIN found = 1 .. Len(found)
  BY <1>1, FoundTypes
<1>3. Len(all) = Len(found) /\ all = [i \in 1 .. Len(found) |-> events[found[i]].line]
  BY <1>1, <1>2, MatchLinesType DEF MatchLines
<1>4. results = [i \in 1 .. m |-> RgEntry(events, found[i], context)]
  BY DEF RgMatches
<1> HIDE DEF found, results
<1>5. m \in 0 .. Len(found) /\ m =< maximum /\ (m < maximum => m = Len(found))
  BY <1>2, LeastOf
<1> HIDE DEF m
<1>6. Len(results) = m /\ DOMAIN results = 1 .. m
  BY <1>4, <1>5
<1>7. \A i \in 1 .. m : results[i].line = events[found[i]].line
  BY <1>4 DEF RgEntry
<1>8. Hits(SearchRg(corpus, maximum, context)) = [i \in 1 .. m |-> events[found[i]].line]
  BY <1>6, <1>7 DEF Hits, SearchRg, results, events
<1>9. First(all, maximum) = [i \in 1 .. m |-> events[found[i]].line]
  <2>1. m = Least(maximum, Len(all))
    BY <1>3 DEF m
  <2>2. /\ First(all, maximum) \in Seq(Positions) /\ Len(First(all, maximum)) = m
        /\ \A i \in 1 .. m : i \in 1 .. Len(all) /\ First(all, maximum)[i] = all[i]
    BY <1>1, <2>1, FirstElements
  <2>3. \A i \in 1 .. m : First(all, maximum)[i] = events[found[i]].line
    BY <1>3, <2>2
  <2>4. First(all, maximum) = [i \in 1 .. m |-> First(all, maximum)[i]]
    BY <2>2
  <2> QED BY <2>3, <2>4
<1>10. ASSUME ~SearchRg(corpus, maximum, context).truncated
       PROVE  Hits(SearchRg(corpus, maximum, context)) = all
  <2>1. ~(m >= maximum)
    BY <1>6, <1>10 DEF SearchRg, Truncated, results, events
  <2>2. m = Len(found)
    <3>1. Len(found) \in Nat /\ m \in 0 .. Len(found)
      BY <1>2, <1>5, Zenon
    <3>2. m < maximum \/ m >= maximum
      BY <3>1
    <3> QED BY <1>5, <2>1, <3>2
  <2> QED BY <1>3, <1>8, <2>2
<1> QED BY <1>8, <1>9, <1>10 DEF all
-----------------------------------------------------------------------------
(* What _search_python may put into its answer.                            *)
PyEntries(corpus, context) ==
    UNION {{[line |-> At(f, n), context |-> PyContext(corpus[f], f, n, context)] :
               n \in DOMAIN corpus[f]} : f \in DOMAIN corpus}

LEMMA PyEntryIs ==
    ASSUME NEW corpus \in CorpusType, NEW context, NEW e \in PyEntries(corpus, context)
    PROVE  /\ e.line \in Positions
           /\ \E f \in DOMAIN corpus : \E n \in DOMAIN corpus[f] :
                 e.line = At(f, n) /\ e.context = PyContext(corpus[f], f, n, context)
<1>1. PICK f \in DOMAIN corpus : \E n \in DOMAIN corpus[f] :
         e = [line |-> At(f, n), context |-> PyContext(corpus[f], f, n, context)]
  BY Zenon DEF PyEntries
<1>2. PICK n \in DOMAIN corpus[f] :
         e = [line |-> At(f, n), context |-> PyContext(corpus[f], f, n, context)]
  BY <1>1
<1>3. e.line = At(f, n) /\ e.context = PyContext(corpus[f], f, n, context)
  BY <1>2
<1>4. f \in Nat /\ n \in Nat
  <2>1. f \in 1 .. Len(corpus) /\ corpus[f] \in Seq(BOOLEAN)
    BY DEF CorpusType
  <2>2. n \in 1 .. Len(corpus[f])
    BY <2>1
  <2> QED BY <2>1, <2>2
<1>5. At(f, n) \in Positions
  BY <1>4 DEF At, Positions
<1> QED BY <1>3, <1>5

LEMMA LinesAppend ==
    ASSUME NEW corpus \in CorpusType, NEW context,
           NEW results \in Seq(PyEntries(corpus, context)), NEW e \in PyEntries(corpus, context)
    PROVE  /\ LinesOf(results) \in Seq(Positions) /\ Len(LinesOf(results)) = Len(results)
           /\ LinesOf(Append(results, e)) = Append(LinesOf(results), e.line)
<1> DEFINE E == PyEntries(corpus, context)
           t == Append(results, e)
           a == LinesOf(t)
           b == Append(LinesOf(results), e.line)
<1>1. \A x \in E : x.line \in Positions
  BY PyEntryIs
<1>2. results \in Seq(E) /\ e \in E
  OBVIOUS
<1> HIDE DEF E
<1>3. /\ t \in Seq(E) /\ Len(t) = Len(results) + 1 /\ t[Len(results) + 1] = e /\ Len(results) \in Nat
      /\ \A i \in 1 .. Len(results) : t[i] = results[i]
  BY <1>2
<1> HIDE DEF t
<1>4. \A s \in Seq(E) : /\ LinesOf(s) \in Seq(Positions) /\ Len(LinesOf(s)) = Len(s)
                        /\ \A i \in 1 .. Len(s) : LinesOf(s)[i] = s[i].line
  <2> SUFFICES ASSUME NEW s \in Seq(E)
               PROVE  /\ LinesOf(s) \in Seq(Positions) /\ Len(LinesOf(s)) = Len(s)
                      /\ \A i \in 1 .. Len(s) : LinesOf(s)[i] = s[i].line
    OBVIOUS
  <2>1. DOMAIN s = 1 .. Len(s) /\ Len(s) \in Nat /\ \A i \in 1 .. Len(s) : s[i] \in E
    OBVIOUS
  <2>2. LinesOf(s) = [i \in 1 .. Len(s) |-> s[i].line]
    BY <2>1 DEF LinesOf
  <2> QED BY <1>1, <2>1, <2>2
<1>5. /\ a \in Seq(Positions) /\ Len(a) = Len(t) /\ \A i \in 1 .. Len(t) : a[i] = t[i].line
  BY <1>3, <1>4
<1>6. /\ LinesOf(results) \in Seq(Positions) /\ Len(LinesOf(results)) = Len(results)
      /\ \A i \in 1 .. Len(results) : LinesOf(results)[i] = results[i].line
  BY <1>2, <1>4
<1>7. /\ b \in Seq(Positions) /\ Len(b) = Len(results) + 1 /\ b[Len(results) + 1] = e.line
      /\ \A i \in 1 .. Len(results) : b[i] = LinesOf(results)[i]
  BY <1>1, <1>2, <1>6, AppendProperties
<1> HIDE DEF a, b
<1>8. \A i \in 1 .. Len(t) : i \in 1 .. Len(results) \/ i = Len(results) + 1
  BY <1>3
<1>9. \A i \in 1 .. Len(t) : a[i] = b[i]
  <2>1. \A i \in 1 .. Len(results) : i \in 1 .. Len(t)
    BY <1>3
  <2>2. \A i \in 1 .. Len(results) : a[i] = b[i]
    BY <1>3, <1>5, <1>6, <1>7, <2>1
  <2>3. Len(results) + 1 \in 1 .. Len(t)
    BY <1>3
  <2>4. a[Len(results) + 1] = b[Len(results) + 1]
    BY <1>3, <1>5, <1>7, <2>3
  <2> QED BY <1>8, <2>2, <2>4
<1>10. a = b
  BY <1>3, <1>5, <1>7, <1>9, SeqEqual
<1> QED BY <1>6, <1>10 DEF a, b, t

LEMMA FirstAppend ==
    ASSUME NEW V, NEW s \in Seq(V), NEW v \in V, NEW maximum \in Nat \ {0}
    PROVE  /\ Len(First(s, maximum)) >= maximum => First(Append(s, v), maximum) = First(s, maximum)
           /\ Len(First(s, maximum)) < maximum =>
                 First(s, maximum) = s /\ First(Append(s, v), maximum) = Append(s, v)
<1> DEFINE t == Append(s, v)
           n == Len(s)
           m == Least(maximum, n)
           k == Least(maximum, n + 1)
<1>1. t \in Seq(V) /\ Len(t) = n + 1 /\ n \in Nat /\ \A i \in 1 .. n : t[i] = s[i]
  OBVIOUS
<1> HIDE DEF t
<1>2. /\ First(s, maximum) \in Seq(V) /\ Len(First(s, maximum)) = m
      /\ \A i \in 1 .. m : First(s, maximum)[i] = s[i]
  BY FirstElements
<1>3. /\ First(t, maximum) \in Seq(V) /\ Len(First(t, maximum)) = k
      /\ \A i \in 1 .. k : First(t, maximum)[i] = t[i]
  BY <1>1, FirstElements
<1> HIDE DEF n
<1>4. CASE maximum =< n
  <2>1. m = maximum /\ k = maximum
    BY <1>1, <1>4 DEF Least
  <2>2. \A i \in 1 .. maximum : First(t, maximum)[i] = First(s, maximum)[i]
    <3>1. \A i \in 1 .. maximum : i \in 1 .. n
      BY <1>1, <1>4
    <3> QED BY <1>1, <1>2, <1>3, <2>1, <3>1
  <2>3. First(t, maximum) = First(s, maximum)
    BY <1>2, <1>3, <2>1, <2>2, SeqEqual
  <2>4. ~(Len(First(s, maximum)) < maximum)
    BY <1>2, <2>1
  <2> QED BY <2>3, <2>4 DEF t
<1>5. CASE ~(maximum =< n)
  <2>1. m = n /\ k = n + 1 /\ n < maximum
    BY <1>1, <1>5 DEF Least
  <2>2. First(s, maximum) = s
    BY <1>2, <2>1, SeqEqual DEF n
  <2>3. First(t, maximum) = t
    BY <1>1, <1>3, <2>1, SeqEqual
  <2>4. ~(Len(First(s, maximum)) >= maximum)
    BY <1>1, <1>2, <2>1
  <2> QED BY <2>2, <2>3, <2>4 DEF t
<1> QED BY <1>4, <1>5

(* One line, and one file, of the search without ripgrep: the answer has   *)
(* the first of all matches so far.                                        *)
LEMMA PyLineStep ==
    ASSUME NEW corpus \in CorpusType, NEW context, NEW maximum \in Nat \ {0},
           NEW results \in Seq(PyEntries(corpus, context)), NEW all \in Seq(Positions),
           LinesOf(results) = First(all, maximum),
           NEW f \in DOMAIN corpus, NEW n \in DOMAIN corpus[f]
    PROVE  LET line == PyLine(corpus, f, maximum, context, results, n)
           IN  /\ line \in Seq(PyEntries(corpus, context))
               /\ LinesOf(line) = First(IF corpus[f][n] THEN Append(all, At(f, n)) ELSE all, maximum)
<1> DEFINE e == [line |-> At(f, n), context |-> PyContext(corpus[f], f, n, context)]
           E == PyEntries(corpus, context)
           line == PyLine(corpus, f, maximum, context, results, n)
<1>1. e \in E /\ e.line = At(f, n)
  <2>1. e \in E
    <3> DEFINE Of(g) == {[line |-> At(g, m), context |-> PyContext(corpus[g], g, m, context)] :
                            m \in DOMAIN corpus[g]}
    <3>1. E = UNION {Of(g) : g \in DOMAIN corpus}
      BY DEF PyEntries
    <3>2. e \in Of(f)
      OBVIOUS
    <3> HIDE DEF Of, e, E
    <3> QED BY <3>1, <3>2, Zenon
  <2>2. e.line = At(f, n)
    OBVIOUS
  <2> QED BY <2>1, <2>2
<1>2. e.line \in Positions
  BY <1>1, PyEntryIs
<1>3. /\ Len(LinesOf(results)) = Len(results)
      /\ LinesOf(Append(results, e)) = Append(LinesOf(results), e.line)
  BY <1>1, LinesAppend
<1>4. line = IF Full(results, maximum) \/ ~corpus[f][n] THEN results ELSE Append(results, e)
  BY DEF PyLine
<1>5. results \in Seq(E) /\ Append(results, e) \in Seq(E) /\ Len(results) \in Nat
  BY <1>1
<1> HIDE DEF e, E
<1>6. CASE ~corpus[f][n]
  BY <1>4, <1>5, <1>6 DEF E
<1>7. CASE corpus[f][n] /\ Full(results, maximum)
  <2>1. Len(First(all, maximum)) >= maximum
    BY <1>3, <1>7 DEF Full
  <2>2. First(Append(all, At(f, n)), maximum) = First(all, maximum)
    BY <1>1, <1>2, <2>1, FirstAppend
  <2> QED BY <1>4, <1>5, <1>7, <2>2 DEF E
<1>8. CASE corpus[f][n] /\ ~Full(results, maximum)
  <2>1. Len(First(all, maximum)) < maximum
    BY <1>3, <1>5, <1>8 DEF Full
  <2>2. First(all, maximum) = all /\ First(Append(all, At(f, n)), maximum) = Append(all, At(f, n))
    BY <1>1, <1>2, <2>1, FirstAppend
  <2>3. line = Append(results, e)
    BY <1>4, <1>8
  <2>4. LinesOf(line) = Append(all, At(f, n))
    BY <1>1, <1>3, <2>2, <2>3
  <2> QED BY <1>5, <1>8, <2>2, <2>3, <2>4 DEF E
<1> QED BY <1>6, <1>7, <1>8
LEMMA PyFileStep ==
    ASSUME NEW corpus \in CorpusType, NEW context, NEW maximum \in Nat \ {0},
           NEW results \in Seq(PyEntries(corpus, context)), NEW all \in Seq(Positions),
           LinesOf(results) = First(all, maximum), NEW f \in DOMAIN corpus
    PROVE  LET file == PyFile(corpus, maximum, context, results, f)
           IN  /\ file \in Seq(PyEntries(corpus, context))
               /\ LinesOf(file) = First(all \o HitsOf(corpus[f], f), maximum)
<1> DEFINE n == Len(corpus[f])
           W == Seq(PyEntries(corpus, context))
           Read(w, k) == PyLine(corpus, f, maximum, context, w, k)
           F == [k \in 1 .. n |-> [w \in W |-> Read(w, k)]]
           M == Matching(corpus[f])
           hits(k) == Ascending(k, M)
           Right(k, w) == LinesOf(w) = First(all \o Placed(f, hits(k)), maximum)
           Equation(u) == u = [k \in 0 .. n |-> IF k = 0 THEN results
                                  ELSE PyLine(corpus, f, maximum, context, u[k - 1], k)]
           after == CHOOSE u : Equation(u)
<1>1. n \in Nat /\ f \in Nat /\ corpus[f] \in Seq(BOOLEAN) /\ DOMAIN corpus[f] = 1 .. n
  BY DEF CorpusType
<1>2. \A k \in 1 .. n : k \in M <=> corpus[f][k]
  BY <1>1 DEF Matching
<1>3. results \in W
  OBVIOUS
<1> HIDE DEF M, n
<1>4. \A k \in 0 .. n : hits(k) \in Seq(Nat) /\ Placed(f, hits(k)) \in Seq(Positions)
                        /\ all \o Placed(f, hits(k)) \in Seq(Positions)
  <2> SUFFICES ASSUME NEW k \in 0 .. n
               PROVE  /\ hits(k) \in Seq(Nat) /\ Placed(f, hits(k)) \in Seq(Positions)
                      /\ all \o Placed(f, hits(k)) \in Seq(Positions)
    OBVIOUS
  <2>1. k \in Nat
    BY <1>1
  <2>2. hits(k) \in Seq(Nat)
    BY <2>1, AscendingNext
  <2>3. Placed(f, hits(k)) \in Seq(Positions)
    BY <1>1, <2>1, <2>2, PlacedAppend
  <2> QED BY <2>2, <2>3, ConcatProperties
<1>5. ASSUME NEW k \in 1 .. n, NEW w \in W, Right(k - 1, w)
      PROVE  Read(w, k) \in W /\ Right(k, Read(w, k))
  <2>1. k \in Nat /\ k # 0 /\ k - 1 \in 0 .. n /\ k \in 0 .. n /\ k \in DOMAIN corpus[f]
    BY <1>1
  <2> DEFINE so == all \o Placed(f, hits(k - 1))
  <2>2. so \in Seq(Positions) /\ Placed(f, hits(k - 1)) \in Seq(Positions) /\ hits(k - 1) \in Seq(Nat)
    BY <1>4, <2>1
  <2>3. LinesOf(w) = First(so, maximum)
    BY <1>5
  <2>4. Read(w, k) \in W /\ LinesOf(Read(w, k)) = First(IF corpus[f][k] THEN Append(so, At(f, k)) ELSE so, maximum)
    <3> HIDE DEF so
    <3> QED BY <2>1, <2>2, <2>3, PyLineStep
  <2>5. hits(k) = Grown(k, M, hits(k - 1))
    BY <2>1, AscendingNext
  <2>6. all \o Placed(f, hits(k)) = IF corpus[f][k] THEN Append(so, At(f, k)) ELSE so
    <3>1. CASE corpus[f][k]
      <4>1. hits(k) = Append(hits(k - 1), k)
        BY <1>2, <2>5, <3>1 DEF Grown
      <4>2. Placed(f, Append(hits(k - 1), k)) = Append(Placed(f, hits(k - 1)), At(f, k))
        BY <1>1, <2>1, <2>2, PlacedAppend
      <4>3. At(f, k) \in Positions
        BY <1>1, <2>1 DEF At, Positions
      <4>4. all \o Append(Placed(f, hits(k - 1)), At(f, k)) = Append(so, At(f, k))
        BY <2>2, <4>3, ConcatAppend
      <4> QED BY <3>1, <4>1, <4>2, <4>4
    <3>2. CASE ~corpus[f][k]
      <4>1. hits(k) = hits(k - 1)
        BY <1>2, <2>5, <3>2 DEF Grown
      <4> QED BY <3>2, <4>1
    <3> QED BY <3>1, <3>2
  <2> HIDE DEF Read, so
  <2> QED BY <2>4, <2>6
<1>6. Right(0, results)
  <2>1. hits(0) = <<>>
    BY AscendingNext
  <2>2. Placed(f, hits(0)) = <<>>
    BY <2>1 DEF Placed
  <2>3. all \o <<>> = all
    BY ConcatEmptySeq
  <2> QED BY <2>2, <2>3
(* The steps from states that are right only: from the others they stay.   *)
<1> DEFINE G == [k \in 1 .. n |-> [w \in W |-> IF Right(k - 1, w) THEN Read(w, k) ELSE w]]
<1> HIDE DEF Right, Read, hits, W
<1>7. G \in [1 .. n -> [W -> W]]
  BY <1>5
<1>8. PICK g : Iterates(n, W, results, G, g)
  <2> HIDE DEF G
  <2> QED BY <1>1, <1>3, <1>7, IteratesExist
<1>9. g \in [0 .. n -> W] /\ g[0] = results
      /\ \A k \in 1 .. n : g[k] = IF Right(k - 1, g[k - 1]) THEN Read(g[k - 1], k) ELSE g[k - 1]
  <2>1. \A k \in 1 .. n : k - 1 \in 0 .. n
    BY <1>1
  <2> QED BY <1>8, <2>1 DEF Iterates
<1> HIDE DEF G
<1>10. \A k \in 0 .. n : Right(k, g[k])
  <2> DEFINE T == {k \in 0 .. n : Right(k, g[k])}
  <2>1. 0 \in T
    BY <1>1, <1>6, <1>9
  <2>2. ASSUME NEW k \in 1 .. n, k - 1 \in T PROVE k \in T
    <3>1. k \in 0 .. n /\ g[k - 1] \in W /\ Right(k - 1, g[k - 1])
      BY <1>9, <2>2
    <3>2. g[k] = Read(g[k - 1], k)
      BY <1>9, <3>1
    <3> QED BY <1>5, <3>1, <3>2
  <2> HIDE DEF T
  <2>3. \A k \in 0 .. n : k \in T
    BY <1>1, <2>1, <2>2, UpwardsTo
  <2> QED BY <2>3 DEF T
<1>11. \A k \in 1 .. n : g[k] = Read(g[k - 1], k)
  <2>1. \A k \in 1 .. n : k - 1 \in 0 .. n
    BY <1>1
  <2> QED BY <1>9, <1>10, <2>1
<1>12. Equation(g)
  <2>1. \A k \in 0 .. n : k # 0 => k \in 1 .. n
    BY <1>1
  <2>2. g = [k \in 0 .. n |-> g[k]]
    BY <1>9
  <2>3. \A k \in 0 .. n : g[k] = IF k = 0 THEN results ELSE PyLine(corpus, f, maximum, context, g[k - 1], k)
    BY <1>9, <1>11, <2>1 DEF Read
  <2> QED BY <2>2, <2>3
<1>13. Equation(after)
  <2> HIDE DEF Equation
  <2> QED BY <1>12
<1>14. PyFile(corpus, maximum, context, results, f) = after[n]
  BY DEF PyFile, n
<1> HIDE DEF after
<1>15. Agree(n, after, g)
  <2>1. 0 \in 0 .. n /\ \A k \in 1 .. n : k \in 0 .. n /\ k # 0
    BY <1>1
  <2>2. after[0] = results /\ \A k \in 1 .. n : after[k] = PyLine(corpus, f, maximum, context, after[k - 1], k)
    BY <1>13, <2>1, Zenon
  <2> HIDE DEF Equation
  <2>3. after[0] = g[0] /\ \A k \in 1 .. n : after[k - 1] = g[k - 1] => after[k] = g[k]
    BY <1>9, <1>11, <2>2, Zenon DEF Read
  <2> QED BY <1>1, <2>3, IteratesAgree
<1> HIDE DEF Equation
<1>16. PyFile(corpus, maximum, context, results, f) = g[n] /\ g[n] \in W /\ Right(n, g[n])
  <2>1. n \in 0 .. n
    BY <1>1
  <2> QED BY <1>9, <1>10, <1>14, <1>15, <2>1 DEF Agree
<1>17. Placed(f, hits(n)) = HitsOf(corpus[f], f)
  BY DEF Placed, HitsOf, hits, M, n
<1> QED BY <1>16, <1>17 DEF Right, W

(* All files, from none.                                                   *)
LEMMA PyFirst ==
    ASSUME NEW corpus \in CorpusType, NEW context, NEW maximum \in Nat \ {0}
    PROVE  LET answer == SearchPython(corpus, maximum, context)
           IN  /\ answer.results \in Seq(PyEntries(corpus, context))
               /\ Hits(answer) = First(AllHits(corpus), maximum)
               /\ ~answer.truncated => Hits(answer) = AllHits(corpus)
<1> DEFINE n == Len(corpus)
           W == Seq(PyEntries(corpus, context))
           Read(w, f) == PyFile(corpus, maximum, context, w, f)
           Equation(u) == u = [f \in 0 .. n |-> IF f = 0 THEN <<>>
                                  ELSE PyFile(corpus, maximum, context, u[f - 1], f)]
           after == CHOOSE u : Equation(u)
           results == after[n]
<1>1. n \in Nat /\ DOMAIN corpus = 1 .. n /\ <<>> \in W
  BY DEF CorpusType
<1> HIDE DEF n
<1>2. PICK all \in [0 .. n -> Seq(Positions)] :
              /\ all[0] = <<>>
              /\ \A f \in 1 .. n : all[f] = all[f - 1] \o HitsOf(corpus[f], f)
              /\ AllHits(corpus) = all[n]
  BY HitsBuilt DEF n
<1> DEFINE Right(f, w) == LinesOf(w) = First(all[f], maximum)
           G == [f \in 1 .. n |-> [w \in W |-> IF Right(f - 1, w) THEN Read(w, f) ELSE w]]
<1>3. Right(0, <<>>)
  <2>1. LinesOf(<<>>) = <<>> /\ First(<<>>, maximum) = <<>>
    <3>1. Least(maximum, 0) = 0
      BY DEF Least
    <3>2. Len(<<>>) = 0 /\ SubSeq(<<>>, 1, 0) = <<>>
      BY SubSeqEmpty
    <3> QED BY <3>1, <3>2 DEF LinesOf, First
  <2> QED BY <1>2, <2>1
<1>4. ASSUME NEW f \in 1 .. n, NEW w \in W, Right(f - 1, w)
      PROVE  Read(w, f) \in W /\ Right(f, Read(w, f))
  <2>1. f - 1 \in 0 .. n /\ f \in DOMAIN corpus
    BY <1>1
  <2>2. all[f - 1] \in Seq(Positions) /\ all[f] = all[f - 1] \o HitsOf(corpus[f], f)
    BY <1>2, <2>1
  <2>3. Read(w, f) \in W /\ LinesOf(Read(w, f)) = First(all[f - 1] \o HitsOf(corpus[f], f), maximum)
    BY <1>4, <2>1, <2>2, PyFileStep
  <2> HIDE DEF Read
  <2> QED BY <2>2, <2>3
<1> HIDE DEF Right, Read, W
<1>5. G \in [1 .. n -> [W -> W]]
  BY <1>4
<1>6. PICK g : Iterates(n, W, <<>>, G, g)
  <2> HIDE DEF G
  <2> QED BY <1>1, <1>5, IteratesExist
<1>7. g \in [0 .. n -> W] /\ g[0] = <<>>
      /\ \A f \in 1 .. n : g[f] = IF Right(f - 1, g[f - 1]) THEN Read(g[f - 1], f) ELSE g[f - 1]
  <2>1. \A f \in 1 .. n : f - 1 \in 0 .. n
    BY <1>1
  <2> QED BY <1>6, <2>1 DEF Iterates
<1> HIDE DEF G
<1>8. \A f \in 0 .. n : Right(f, g[f])
  <2> DEFINE T == {f \in 0 .. n : Right(f, g[f])}
  <2>1. 0 \in T
    BY <1>1, <1>3, <1>7
  <2>2. ASSUME NEW f \in 1 .. n, f - 1 \in T PROVE f \in T
    <3>1. f \in 0 .. n /\ g[f - 1] \in W /\ Right(f - 1, g[f - 1])
      BY <1>7, <2>2
    <3>2. g[f] = Read(g[f - 1], f)
      BY <1>7, <3>1
    <3> QED BY <1>4, <3>1, <3>2
  <2> HIDE DEF T
  <2>3. \A f \in 0 .. n : f \in T
    BY <1>1, <2>1, <2>2, UpwardsTo
  <2> QED BY <2>3 DEF T
<1>9. \A f \in 1 .. n : g[f] = Read(g[f - 1], f)
  <2>1. \A f \in 1 .. n : f - 1 \in 0 .. n
    BY <1>1
  <2> QED BY <1>7, <1>8, <2>1
<1>10. Equation(g)
  <2>1. \A f \in 0 .. n : f # 0 => f \in 1 .. n
    BY <1>1
  <2>2. g = [f \in 0 .. n |-> g[f]]
    BY <1>7
  <2>3. \A f \in 0 .. n : g[f] = IF f = 0 THEN <<>> ELSE PyFile(corpus, maximum, context, g[f - 1], f)
    BY <1>7, <1>9, <2>1 DEF Read
  <2> QED BY <2>2, <2>3
<1>11. Equation(after)
  <2> HIDE DEF Equation
  <2> QED BY <1>10
<1>12. SearchPython(corpus, maximum, context) = [results |-> results, truncated |-> Full(results, maximum)]
  BY DEF SearchPython, n
<1> HIDE DEF after
<1>13. Agree(n, after, g)
  <2>1. 0 \in 0 .. n /\ \A f \in 1 .. n : f \in 0 .. n /\ f # 0
    BY <1>1
  <2>2. after[0] = <<>> /\ \A f \in 1 .. n : after[f] = PyFile(corpus, maximum, context, after[f - 1], f)
    BY <1>11, <2>1, Zenon
  <2> HIDE DEF Equation
  <2>3. after[0] = g[0] /\ \A f \in 1 .. n : after[f - 1] = g[f - 1] => after[f] = g[f]
    BY <1>7, <1>9, <2>2, Zenon DEF Read
  <2> QED BY <1>1, <2>3, IteratesAgree
<1> HIDE DEF Equation
<1>14. results \in W /\ LinesOf(results) = First(AllHits(corpus), maximum)
  <2>1. n \in 0 .. n
    BY <1>1
  <2>2. results = g[n] /\ g[n] \in W
    BY <1>7, <1>13, <2>1 DEF Agree
  <2>3. Right(n, g[n])
    BY <1>8, <2>1
  <2> QED BY <1>2, <2>2, <2>3 DEF Right
<1> HIDE DEF results
<1>15. Hits(SearchPython(corpus, maximum, context)) = LinesOf(results)
  BY <1>12 DEF Hits, LinesOf
<1>16. ASSUME ~SearchPython(corpus, maximum, context).truncated
       PROVE  First(AllHits(corpus), maximum) = AllHits(corpus)
  <2> DEFINE hits == AllHits(corpus)
  <2>1. hits \in Seq(Positions)
    <3>1. n \in 0 .. n
      BY <1>1
    <3> QED BY <1>2, <3>1
  <2>2. Len(First(hits, maximum)) = Len(results)
    <3>1. /\ results \in Seq(PyEntries(corpus, context)) /\ LinesOf(results) = First(hits, maximum)
      BY <1>14 DEF W
    <3>2. DOMAIN results = 1 .. Len(results) /\ Len(results) \in Nat
      BY <3>1
    <3>3. LinesOf(results) = [i \in 1 .. Len(results) |-> results[i].line]
      BY <3>2 DEF LinesOf
    <3> QED BY <3>1, <3>2, <3>3
  <2>3. Len(results) < maximum
    <3>1. ~(Len(results) >= maximum)
      <4>1. SearchPython(corpus, maximum, context).truncated <=> Full(results, maximum)
        BY <1>12
      <4> QED BY <1>16, <4>1 DEF Full
    <3>2. Len(results) \in Nat
      BY <1>14 DEF W
    <3> QED BY <3>1, <3>2
  <2> HIDE DEF hits
  <2>4. Len(First(hits, maximum)) = Least(maximum, Len(hits)) /\ Len(hits) \in Nat
    <3>1. Len(hits) \in Nat
      BY <2>1
    <3> QED BY <2>1, <3>1, FirstElements
  <2>5. Least(maximum, Len(hits)) = Len(hits)
    BY <2>2, <2>3, <2>4, LeastOf
  <2>6. \A i \in 1 .. Len(hits) : First(hits, maximum)[i] = hits[i]
    BY <2>1, <2>5, FirstElements
  <2>7. First(hits, maximum) \in Seq(Positions)
    BY <2>1, FirstElements
  <2> QED BY <2>1, <2>4, <2>5, <2>6, <2>7, SeqEqual DEF hits
<1> QED BY <1>12, <1>14, <1>15, <1>16 DEF W
-----------------------------------------------------------------------------
(* The context of a match, as a set of lines.                              *)
LEMMA SetOfConcat ==
    ASSUME NEW V, NEW s \in Seq(V), NEW t \in Seq(V)
    PROVE  ToSet(s \o t) = ToSet(s) \cup ToSet(t)
<1> DEFINE u == s \o t
<1>1. /\ Len(s) \in Nat /\ Len(t) \in Nat /\ DOMAIN s = 1 .. Len(s) /\ DOMAIN t = 1 .. Len(t)
      /\ Len(u) = Len(s) + Len(t) /\ DOMAIN u = 1 .. Len(s) + Len(t)
      /\ \A i \in 1 .. Len(s) + Len(t) : u[i] = IF i =< Len(s) THEN s[i] ELSE t[i - Len(s)]
  OBVIOUS
<1> HIDE DEF u
<1>2. ASSUME NEW i \in 1 .. Len(s) + Len(t) PROVE u[i] \in ToSet(s) \cup ToSet(t)
  <2>1. CASE i =< Len(s)
    <3>1. i \in 1 .. Len(s) /\ u[i] = s[i]
      BY <1>1, <2>1
    <3> QED BY <1>1, <3>1 DEF ToSet
  <2>2. CASE ~(i =< Len(s))
    <3>1. i - Len(s) \in 1 .. Len(t) /\ u[i] = t[i - Len(s)]
      BY <1>1, <2>2
    <3> QED BY <1>1, <3>1 DEF ToSet
  <2> QED BY <2>1, <2>2
<1>3. ASSUME NEW i \in 1 .. Len(s) PROVE s[i] \in ToSet(u)
  <2>1. i \in 1 .. Len(s) + Len(t) /\ u[i] = s[i]
    BY <1>1
  <2> QED BY <1>1, <2>1 DEF ToSet
<1>4. ASSUME NEW i \in 1 .. Len(t) PROVE t[i] \in ToSet(u)
  <2>1. i + Len(s) \in 1 .. Len(s) + Len(t) /\ ~(i + Len(s) =< Len(s)) /\ (i + Len(s)) - Len(s) = i
    BY <1>1
  <2>2. u[i + Len(s)] = t[i]
    BY <1>1, <2>1
  <2> QED BY <1>1, <2>1, <2>2 DEF ToSet
<1>5. ToSet(u) \subseteq ToSet(s) \cup ToSet(t)
  BY <1>1, <1>2 DEF ToSet
<1>6. ToSet(s) \subseteq ToSet(u) /\ ToSet(t) \subseteq ToSet(u)
  BY <1>1, <1>3, <1>4 DEF ToSet
<1> QED BY <1>5, <1>6 DEF u

LEMMA PartElements ==
    ASSUME NEW V, NEW s \in Seq(V), NEW a \in Nat \ {0}, NEW b \in 0 .. Len(s)
    PROVE  LET part == SubSeq(s, a, b)
           IN  /\ part \in Seq(V)
               /\ Len(part) = IF a =< b THEN b - a + 1 ELSE 0
               /\ \A i \in 1 .. Len(part) : a + i - 1 \in a .. b /\ part[i] = s[a + i - 1]
               /\ \A k \in a .. b : k - a + 1 \in 1 .. Len(part) /\ part[k - a + 1] = s[k]
<1> DEFINE part == SubSeq(s, a, b)
<1>1. Len(s) \in Nat /\ b \in Int /\ a \in Int /\ \A k \in a .. b : s[k] \in V
  <2>1. Len(s) \in Nat
    OBVIOUS
  <2>2. \A k \in a .. b : k \in 1 .. Len(s)
    BY <2>1
  <2> QED BY <2>1, <2>2
<1>2. /\ part \in Seq(V) /\ Len(part) = IF a =< b THEN b - a + 1 ELSE 0
      /\ \A i \in 1 .. b - a + 1 : part[i] = s[a + i - 1]
  BY <1>1, SubSeqProperties
<1> HIDE DEF part
<1>3. \A i \in 1 .. Len(part) : i \in 1 .. b - a + 1 /\ a + i - 1 \in a .. b
  BY <1>1, <1>2
<1>4. ASSUME NEW k \in a .. b PROVE k - a + 1 \in 1 .. Len(part) /\ part[k - a + 1] = s[k]
  <2>1. k - a + 1 \in 1 .. b - a + 1 /\ a + (k - a + 1) - 1 = k /\ a =< b
    BY <1>1
  <2>2. k - a + 1 \in 1 .. Len(part)
    BY <1>2, <2>1
  <2> QED BY <1>2, <2>1, <2>2
<1> QED BY <1>2, <1>3, <1>4 DEF part

LEMMA SetOfPart ==
    ASSUME NEW V, NEW s \in Seq(V), NEW a \in Nat \ {0}, NEW b \in 0 .. Len(s)
    PROVE  SubSeq(s, a, b) \in Seq(V) /\ ToSet(SubSeq(s, a, b)) = {s[k] : k \in a .. b}
<1> DEFINE part == SubSeq(s, a, b)
<1>1. /\ part \in Seq(V)
      /\ \A i \in 1 .. Len(part) : a + i - 1 \in a .. b /\ part[i] = s[a + i - 1]
      /\ \A k \in a .. b : k - a + 1 \in 1 .. Len(part) /\ part[k - a + 1] = s[k]
  BY PartElements
<1> HIDE DEF part
<1>2. DOMAIN part = 1 .. Len(part)
  BY <1>1
<1> QED BY <1>1, <1>2 DEF ToSet, part

LEMMA PyContextIs ==
    ASSUME NEW corpus \in CorpusType, NEW context \in Nat, NEW f \in DOMAIN corpus, NEW n \in DOMAIN corpus[f]
    PROVE  ToSet(PyContext(corpus[f], f, n, context)) = Around(corpus, At(f, n), context)
<1> DEFINE file == corpus[f]
           lines == [m \in DOMAIN file |-> At(f, m)]
           size == Len(file)
           low == Most(0, n - 1 - context) + 1
           high == Least(size, n + context)
<1>1. /\ f \in Nat /\ file \in Seq(BOOLEAN) /\ size \in Nat /\ DOMAIN file = 1 .. size /\ n \in 1 .. size
  BY DEF CorpusType
<1> HIDE DEF file, size
<1>2. \A m \in 1 .. size : At(f, m) \in Positions
  BY <1>1 DEF At, Positions
<1>3. lines \in Seq(Positions) /\ Len(lines) = size /\ \A m \in 1 .. size : lines[m] = At(f, m)
  BY <1>1, <1>2
<1>4. low \in Nat \ {0} /\ high \in 0 .. size /\ n - 1 \in 0 .. size /\ n + 1 \in Nat \ {0}
  BY <1>1 DEF Most, Least
<1>5. \A m \in 1 .. size : m \in n - context .. n + context /\ m # n <=>
                              m \in low .. n - 1 \/ m \in n + 1 .. high
  BY <1>1 DEF Most, Least
<1>6. \A m \in low .. n - 1 : m \in 1 .. size
  BY <1>1, <1>4
<1>7. \A m \in n + 1 .. high : m \in 1 .. size
  BY <1>1, <1>4
<1>8. PyContext(corpus[f], f, n, context) = SubSeq(lines, low, n - 1) \o SubSeq(lines, n + 1, high)
  BY DEF PyContext, file, size
<1> HIDE DEF lines, low, high
<1>9. /\ SubSeq(lines, low, n - 1) \in Seq(Positions) /\ SubSeq(lines, n + 1, high) \in Seq(Positions)
      /\ ToSet(SubSeq(lines, low, n - 1)) = {lines[m] : m \in low .. n - 1}
      /\ ToSet(SubSeq(lines, n + 1, high)) = {lines[m] : m \in n + 1 .. high}
  BY <1>3, <1>4, SetOfPart
<1>10. ToSet(PyContext(corpus[f], f, n, context))
           = {lines[m] : m \in low .. n - 1} \cup {lines[m] : m \in n + 1 .. high}
  <2> DEFINE a == SubSeq(lines, low, n - 1)
             b == SubSeq(lines, n + 1, high)
  <2>1. a \in Seq(Positions) /\ b \in Seq(Positions)
    BY <1>9
  <2> HIDE DEF a, b
  <2>2. ToSet(a \o b) = ToSet(a) \cup ToSet(b)
    BY <2>1, SetOfConcat
  <2> QED BY <1>8, <1>9, <2>2, Zenon DEF a, b
<1>11. Around(corpus, At(f, n), context) = {At(f, m) : m \in ((1 .. size) \cap (n - context .. n + context)) \ {n}}
  BY <1>1 DEF Around, At, file
<1>12. {lines[m] : m \in low .. n - 1} \cup {lines[m] : m \in n + 1 .. high}
           = {At(f, m) : m \in ((1 .. size) \cap (n - context .. n + context)) \ {n}}
  BY <1>3, <1>5, <1>6, <1>7
<1> QED BY <1>10, <1>11, <1>12

LEMMA ContextInSet ==
    ASSUME NEW events \in Seq(Stream)
    PROVE  /\ ContextIn(events) \in Seq(Positions)
           /\ \A x \in ToSet(ContextIn(events)) :
                 \E i \in 1 .. Len(events) : events[i].type = "context" /\ x = events[i].line
<1> DEFINE kept == OfType(events, "context")
<1>1. /\ kept \in Seq(Nat)
      /\ \A i \in 1 .. Len(kept) : kept[i] \in 1 .. Len(events) /\ events[kept[i]].type = "context"
  BY FoundTypes
<1>2. ContextIn(events) = [i \in DOMAIN kept |-> events[kept[i]].line]
  BY DEF ContextIn
<1> HIDE DEF kept
<1>3. DOMAIN kept = 1 .. Len(kept) /\ Len(kept) \in Nat
  BY <1>1
<1>4. \A i \in 1 .. Len(kept) : events[kept[i]] \in Stream
  BY <1>1
<1>5. \A e \in Stream : e.type = "context" => e.line \in Positions
  BY DEF Stream
<1>6. \A i \in 1 .. Len(kept) : events[kept[i]].line \in Positions
  BY <1>1, <1>4, <1>5
<1>7. ContextIn(events) \in Seq(Positions) /\ DOMAIN ContextIn(events) = 1 .. Len(kept)
  BY <1>2, <1>3, <1>6
<1>8. ASSUME NEW x \in ToSet(ContextIn(events))
      PROVE  \E i \in 1 .. Len(events) : events[i].type = "context" /\ x = events[i].line
  <2>1. PICK i \in 1 .. Len(kept) : x = ContextIn(events)[i]
    BY <1>7 DEF ToSet
  <2>2. x = events[kept[i]].line
    BY <1>2, <1>3, <2>1
  <2> QED BY <1>1, <2>2
<1> QED BY <1>7, <1>8

(* Numbers that follow one another stay together, up to a distance of 2.   *)
LEMMA AscendingUp ==
    ASSUME NEW n \in Nat, NEW S, NEW i \in 1 .. Len(Ascending(n, S)), NEW j \in 1 .. Len(Ascending(n, S)),
           i < j, j =< i + 2,
           \A k \in 1 .. n : Ascending(n, S)[i] < k /\ k =< Ascending(n, S)[i] + (j - i) => k \in S
    PROVE  Ascending(n, S)[j] =< Ascending(n, S)[i] + (j - i)
<1> DEFINE s == Ascending(n, S)
           a == s[i]
           b == s[j]
           d == j - i
<1>1. /\ s \in Seq(Nat)
      /\ \A x \in 1 .. Len(s) : s[x] \in 1 .. n
      /\ \A x, y \in 1 .. Len(s) : x < y => s[x] < s[y]
      /\ \A k \in 1 .. n : k \in S => \E x \in 1 .. Len(s) : s[x] = k
  BY AscendingElements
<1>2. i \in 1 .. Len(s) /\ j \in 1 .. Len(s) /\ Len(s) \in Nat /\ d \in 1 .. 2 /\ j = i + d /\ i \in Int
  BY <1>1
<1>3. \A k \in 1 .. n : a < k /\ k =< a + d => k \in S
  OBVIOUS
<1> HIDE DEF s, d
<1>4. a \in 1 .. n /\ b \in 1 .. n
  BY <1>1, <1>2
<1>5. \A x \in 1 .. Len(s) : a < s[x] /\ s[x] < b => i < x /\ x < j
  <2> SUFFICES ASSUME NEW x \in 1 .. Len(s), a < s[x], s[x] < b PROVE i < x /\ x < j
    OBVIOUS
  <2>1. s[x] \in 1 .. n /\ (x < i => s[x] < a) /\ (j < x => b < s[x])
    BY <1>1, <1>2
  <2>2. (x = i => s[x] = a) /\ (x = j => s[x] = b)
    OBVIOUS
  <2> DEFINE c == s[x]
  <2>3. c \in 1 .. n /\ a < c /\ c < b
    BY <2>1
  <2>4. (x < i => c < a) /\ (j < x => b < c) /\ (x = i => c = a) /\ (x = j => c = b)
    BY <2>1, <2>2
  <2> HIDE DEF a, b, c
  <2>5. ~(x < i) /\ ~(j < x) /\ x # i /\ x # j
    BY <1>4, <2>3, <2>4
  <2> QED BY <1>2, <2>5
<1>6. ASSUME NEW k \in 1 .. n, a < k, k =< a + d, k < b PROVE d = 2 /\ s[i + 1] = k
  <2>1. PICK x \in 1 .. Len(s) : s[x] = k
    BY <1>1, <1>3, <1>6
  <2>2. i < x /\ x < j
    BY <1>5, <1>6, <2>1
  <2>3. d = 2 /\ x = i + 1
    BY <1>2, <2>2
  <2> QED BY <2>1, <2>3
<1> HIDE DEF a, b
<1>7. ASSUME b > a + d PROVE FALSE
  <2>1. a + 1 \in 1 .. n /\ a < a + 1 /\ a + 1 =< a + d /\ a + 1 < b
    BY <1>2, <1>4, <1>7
  <2>2. d = 2 /\ s[i + 1] = a + 1
    BY <1>6, <2>1
  <2>3. a + 2 \in 1 .. n /\ a < a + 2 /\ a + 2 =< a + d /\ a + 2 < b
    BY <1>2, <1>4, <1>7, <2>2
  <2>4. s[i + 1] = a + 2
    BY <1>6, <2>3
  <2> QED BY <1>4, <2>2, <2>4
<1>8. b =< a + d
  BY <1>2, <1>4, <1>7
<1> QED BY <1>8 DEF a, b, s, d

LEMMA AscendingDown ==
    ASSUME NEW n \in Nat, NEW S, NEW i \in 1 .. Len(Ascending(n, S)), NEW j \in 1 .. Len(Ascending(n, S)),
           i < j, j =< i + 2,
           \A k \in 1 .. n : Ascending(n, S)[j] - (j - i) =< k /\ k < Ascending(n, S)[j] => k \in S
    PROVE  Ascending(n, S)[j] - (j - i) =< Ascending(n, S)[i]
<1> DEFINE s == Ascending(n, S)
           a == s[i]
           b == s[j]
           d == j - i
<1>1. /\ s \in Seq(Nat)
      /\ \A x \in 1 .. Len(s) : s[x] \in 1 .. n
      /\ \A x, y \in 1 .. Len(s) : x < y => s[x] < s[y]
      /\ \A k \in 1 .. n : k \in S => \E x \in 1 .. Len(s) : s[x] = k
  BY AscendingElements
<1>2. i \in 1 .. Len(s) /\ j \in 1 .. Len(s) /\ Len(s) \in Nat /\ d \in 1 .. 2 /\ j = i + d /\ i \in Int
  BY <1>1
<1>3. \A k \in 1 .. n : b - d =< k /\ k < b => k \in S
  OBVIOUS
<1> HIDE DEF s, d
<1>4. a \in 1 .. n /\ b \in 1 .. n
  BY <1>1, <1>2
<1>5. \A x \in 1 .. Len(s) : a < s[x] /\ s[x] < b => i < x /\ x < j
  <2> SUFFICES ASSUME NEW x \in 1 .. Len(s), a < s[x], s[x] < b PROVE i < x /\ x < j
    OBVIOUS
  <2>1. s[x] \in 1 .. n /\ (x < i => s[x] < a) /\ (j < x => b < s[x])
    BY <1>1, <1>2
  <2>2. (x = i => s[x] = a) /\ (x = j => s[x] = b)
    OBVIOUS
  <2> DEFINE c == s[x]
  <2>3. c \in 1 .. n /\ a < c /\ c < b
    BY <2>1
  <2>4. (x < i => c < a) /\ (j < x => b < c) /\ (x = i => c = a) /\ (x = j => c = b)
    BY <2>1, <2>2
  <2> HIDE DEF a, b, c
  <2>5. ~(x < i) /\ ~(j < x) /\ x # i /\ x # j
    BY <1>4, <2>3, <2>4
  <2> QED BY <1>2, <2>5
<1>6. ASSUME NEW k \in 1 .. n, a < k, k < b, b - d =< k PROVE d = 2 /\ s[i + 1] = k
  <2>1. PICK x \in 1 .. Len(s) : s[x] = k
    BY <1>1, <1>3, <1>6
  <2>2. i < x /\ x < j
    BY <1>5, <1>6, <2>1
  <2>3. d = 2 /\ x = i + 1
    BY <1>2, <2>2
  <2> QED BY <2>1, <2>3
<1> HIDE DEF a, b
<1>7. ASSUME a < b - d PROVE FALSE
  <2>1. b - 1 \in 1 .. n /\ a < b - 1 /\ b - 1 < b /\ b - d =< b - 1
    BY <1>2, <1>4, <1>7
  <2>2. d = 2 /\ s[i + 1] = b - 1
    BY <1>6, <2>1
  <2>3. b - 2 \in 1 .. n /\ a < b - 2 /\ b - 2 < b /\ b - d =< b - 2
    BY <1>2, <1>4, <1>7, <2>2
  <2>4. s[i + 1] = b - 2
    BY <1>6, <2>3
  <2> QED BY <1>4, <2>2, <2>4
<1>8. b - d =< a
  BY <1>2, <1>4, <1>7
<1> QED BY <1>8 DEF a, b, s, d

(* What a stream of the files before the f'th and itself must be, for the  *)
(* events within the distance of a match to be of its file and near it.    *)
Apart(corpus, context, events) ==
    \A p, q \in 1 .. Len(events) :
        events[p].type = "match" /\ events[q].type = "context" /\ q \in p - context .. p + context
            => events[q].line \in Around(corpus, events[p].line, context)

Ended(events) == Len(events) # 0 => events[Len(events)].type = "end"
Begun(events) == Len(events) # 0 => events[1].type = "begin"

LEMMA FileApart ==
    ASSUME NEW corpus \in CorpusType, NEW context \in 0 .. 2, NEW f \in DOMAIN corpus
    PROVE  LET events == FileEvents(corpus[f], f, context)
           IN  Begun(events) /\ Ended(events) /\ Apart(corpus, context, events)
<1> DEFINE file == corpus[f]
           N == Near(file, context)
           n == Len(file)
           s == Ascending(n, N)
           begin == [type |-> "begin"]
           end == [type |-> "end"]
           es == EventsOf(file, f, s)
           events == FileEvents(file, f, context)
<1>1. f \in Nat /\ file \in Seq(BOOLEAN) /\ n \in Nat /\ context \in Nat /\ DOMAIN file = 1 .. n
  BY DEF CorpusType
<1>2. begin \in Stream /\ end \in Stream /\ begin.type = "begin" /\ end.type = "end"
  BY DEF Stream
<1>3. events = IF s = <<>> THEN <<>> ELSE <<begin>> \o es \o <<end>>
  BY DEF FileEvents, EventsOf, Event
<1>4. \A k, m \in 1 .. n : file[k] /\ m \in k - context .. k + context => m \in N
  <2>1. \A k, m \in 1 .. n : m \in k - context .. k + context => k - m \in -context .. context
    BY <1>1
  <2> HIDE DEF file, n
  <2> QED BY <1>1, <2>1 DEF Near, Matching
<1> HIDE DEF file, n, N, begin, end, events
<1>5. /\ s \in Seq(Nat) /\ Len(s) \in Nat
      /\ \A i \in 1 .. Len(s) : s[i] \in 1 .. n
      /\ \A i, j \in 1 .. Len(s) : i < j => s[i] < s[j]
  <2>1. /\ s \in Seq(Nat) /\ \A i \in 1 .. Len(s) : s[i] \in 1 .. n
        /\ \A i, j \in 1 .. Len(s) : i < j => s[i] < s[j]
    BY <1>1, AscendingElements
  <2> HIDE DEF s
  <2> QED BY <2>1
<1>6. es \in Seq(Stream) /\ Len(es) = Len(s) /\ \A i \in 1 .. Len(s) : es[i] = Event(file, f, s[i])
  <2> HIDE DEF s
  <2>1. es \in Seq(Stream)
    BY <1>1, <1>5, EventsAppend
  <2>2. es = [i \in 1 .. Len(s) |-> Event(file, f, s[i])]
    BY <1>5 DEF EventsOf
  <2> QED BY <1>5, <2>1, <2>2
<1> HIDE DEF es
<1>7. CASE s = <<>>
  BY <1>3, <1>7 DEF Begun, Ended, Apart, events, file
<1>8. CASE s # <<>>
  <2> HIDE DEF s
  <2>1. events = <<begin>> \o es \o <<end>>
    BY <1>3, <1>8
  <2>2. /\ Len(events) = Len(s) + 2 /\ events[1] = begin /\ events[Len(s) + 2] = end
        /\ \A i \in 2 .. Len(s) + 1 : events[i] = es[i - 1]
    <3>1. <<begin>> \in Seq(Stream) /\ <<end>> \in Seq(Stream)
      BY <1>2
    <3> DEFINE front == <<begin>> \o es
    <3>2. front \in Seq(Stream) /\ Len(front) = Len(s) + 1 /\ front[1] = begin
          /\ \A i \in 2 .. Len(s) + 1 : front[i] = es[i - 1]
      BY <1>5, <1>6, <3>1
    <3>3. events = front \o <<end>>
      BY <2>1
    <3> HIDE DEF front
    <3> QED BY <1>5, <3>1, <3>2, <3>3
  <2>3. Begun(events) /\ Ended(events)
    BY <1>2, <1>5, <2>2 DEF Begun, Ended
  <2>4. ASSUME NEW i \in 1 .. Len(events), events[i].type \in {"match", "context"}
        PROVE  /\ i - 1 \in 1 .. Len(s) /\ events[i].line = At(f, s[i - 1])
               /\ file[s[i - 1]] <=> events[i].type = "match"
    <3>1. i # 1 /\ i # Len(s) + 2
      BY <1>2, <2>2, <2>4
    <3>2. i \in 2 .. Len(s) + 1 /\ i - 1 \in 1 .. Len(s)
      BY <1>5, <2>2, <3>1
    <3>3. events[i] = Event(file, f, s[i - 1])
      BY <1>6, <2>2, <3>2
    <3> QED BY <3>2, <3>3 DEF Event
  <2>5. ASSUME NEW p \in 1 .. Len(events), NEW q \in 1 .. Len(events), events[p].type = "match",
               events[q].type = "context", q \in p - context .. p + context
        PROVE  events[q].line \in Around(corpus, events[p].line, context)
    <3> DEFINE i == p - 1
               j == q - 1
    <3>1. /\ i \in 1 .. Len(s) /\ events[p].line = At(f, s[i]) /\ file[s[i]]
          /\ j \in 1 .. Len(s) /\ events[q].line = At(f, s[j]) /\ ~file[s[j]]
      BY <2>4, <2>5
    <3>2. j \in i - context .. i + context
      BY <2>2, <2>5
    <3> HIDE DEF i, j
    <3>3. s[i] \in 1 .. n /\ s[j] \in 1 .. n /\ s[i] # s[j] /\ i # j
      BY <1>5, <3>1
    <3>4. s[j] \in s[i] - context .. s[i] + context
      <4> DEFINE a == s[i]
      <4>0. a \in 1 .. n /\ i \in Int /\ j \in Int
        <5>1. i \in Int /\ j \in Int
          BY <3>1
        <5>2. a \in 1 .. n
          BY <3>3
        <5> QED BY <5>1, <5>2
      <4>1. \A k \in 1 .. n : k \in s[i] - context .. s[i] + context => k \in N
        BY <1>4, <3>1, <3>3
      <4>2. CASE i < j
        <5>1. j =< i + 2 /\ j - i =< context /\ j - i > 0
          BY <1>1, <3>2, <4>0, <4>2
        <5>2. \A k \in 1 .. n : a < k /\ k =< a + (j - i) => k \in N
          <6> HIDE DEF a
          <6>1. \A k \in 1 .. n : a < k /\ k =< a + (j - i) => k \in a - context .. a + context
            BY <1>1, <4>0, <5>1
          <6> QED BY <4>1, <6>1 DEF a
        <5>3. s[j] =< s[i] + (j - i)
          BY <1>1, <3>1, <4>2, <5>1, <5>2, AscendingUp DEF s
        <5>4. s[i] < s[j]
          BY <1>5, <3>1, <4>2
        <5> DEFINE b == s[j]
        <5>5. a < b /\ b =< a + (j - i) /\ b \in 1 .. n
          BY <3>3, <5>3, <5>4
        <5> HIDE DEF a, b
        <5>6. b \in a - context .. a + context
          BY <1>1, <4>0, <5>1, <5>5
        <5> QED BY <5>6 DEF a, b
      <4>3. CASE j < i
        <5>1. i =< j + 2 /\ i - j =< context /\ i - j > 0
          BY <1>1, <3>2, <4>0, <4>3
        <5>2. \A k \in 1 .. n : a - (i - j) =< k /\ k < a => k \in N
          <6> HIDE DEF a
          <6>1. \A k \in 1 .. n : a - (i - j) =< k /\ k < a => k \in a - context .. a + context
            BY <1>1, <4>0, <5>1
          <6> QED BY <4>1, <6>1 DEF a
        <5>3. s[i] - (i - j) =< s[j]
          BY <1>1, <3>1, <4>3, <5>1, <5>2, AscendingDown DEF s
        <5>4. s[j] < s[i]
          BY <1>5, <3>1, <4>3
        <5> DEFINE b == s[j]
        <5>5. b < a /\ a - (i - j) =< b /\ b \in 1 .. n
          BY <3>3, <5>3, <5>4
        <5> HIDE DEF a, b
        <5>6. b \in a - context .. a + context
          BY <1>1, <4>0, <5>1, <5>5
        <5> QED BY <5>6 DEF a, b
      <4> QED BY <3>1, <3>3, <4>2, <4>3
    <3>5. At(f, s[j]) \in Around(corpus, At(f, s[i]), context)
      <4>1. s[j] \in (DOMAIN corpus[f] \cap (s[i] - context .. s[i] + context)) \ {s[i]}
        BY <1>1, <3>3, <3>4 DEF file
      <4> QED BY <4>1 DEF Around, At
    <3> QED BY <3>1, <3>5
  <2>6. Apart(corpus, context, events)
    BY <2>5 DEF Apart
  <2> QED BY <2>3, <2>6 DEF events, file
<1> QED BY <1>7, <1>8

(* The stream of all files: matches end before the end of a file, context  *)
(* starts after the begin of the next one.                                 *)
LEMMA ApartConcat ==
    ASSUME NEW corpus \in CorpusType, NEW context \in 0 .. 2, NEW a \in Seq(Stream), NEW b \in Seq(Stream),
           Ended(a), Apart(corpus, context, a),
           Begun(b), Ended(b), Apart(corpus, context, b)
    PROVE  Ended(a \o b) /\ Apart(corpus, context, a \o b)
<1> DEFINE u == a \o b
           m == Len(a)
           n == Len(b)
<1>1. /\ m \in Nat /\ n \in Nat /\ Len(u) = m + n
      /\ \A i \in 1 .. m : u[i] = a[i]
      /\ \A i \in 1 .. n : u[m + i] = b[i]
      /\ \A i \in m + 1 .. m + n : u[i] = b[i - m]
  OBVIOUS
<1> HIDE DEF u, m, n
<1>2. Ended(u)
  <2>1. CASE n # 0
    <3>1. n \in 1 .. n /\ u[m + n] = b[n]
      BY <1>1, <2>1
    <3> QED BY <1>1, <2>1, <3>1 DEF Ended, n
  <2>2. CASE n = 0
    <3>1. Len(u) = m
      BY <1>1, <2>2
    <3>2. m # 0 => m \in 1 .. m
      BY <1>1
    <3> QED BY <1>1, <3>1, <3>2 DEF Ended, m
  <2> QED BY <2>1, <2>2
<1>3. ASSUME NEW p \in 1 .. m + n, NEW q \in 1 .. m + n, u[p].type = "match", u[q].type = "context",
             q \in p - context .. p + context
      PROVE  u[q].line \in Around(corpus, u[p].line, context)
  <2>1. ASSUME NEW i \in 1 .. m, u[i].type # "end" PROVE i < m
    BY <1>1, <2>1 DEF Ended, m
  <2>2. ASSUME NEW i \in m + 1 .. m + n, u[i].type # "begin" PROVE i > m + 1
    <3>1. i = m + 1 => n # 0 /\ 1 \in 1 .. n /\ u[i] = b[1]
      BY <1>1
    <3>2. i # m + 1
      BY <2>2, <3>1 DEF Begun, n
    <3> QED BY <1>1, <3>2
  <2>3. \A i \in 1 .. m + n : i \in 1 .. m \/ i \in m + 1 .. m + n
    BY <1>1
  <2>4. CASE p \in 1 .. m /\ q \in 1 .. m
    <3>1. u[p] = a[p] /\ u[q] = a[q]
      BY <1>1, <2>4
    <3> QED BY <1>3, <2>4, <3>1 DEF Apart, m
  <2>5. CASE p \in m + 1 .. m + n /\ q \in m + 1 .. m + n
    <3>1. u[p] = b[p - m] /\ u[q] = b[q - m]
      BY <1>1, <2>5
    <3>2. p - m \in 1 .. n /\ q - m \in 1 .. n /\ q - m \in (p - m) - context .. (p - m) + context
      BY <1>1, <1>3, <2>5
    <3> QED BY <1>3, <3>1, <3>2 DEF Apart, n
  <2>6. CASE p \in 1 .. m /\ q \in m + 1 .. m + n
    BY <1>1, <1>3, <2>1, <2>2, <2>6
  <2>7. CASE p \in m + 1 .. m + n /\ q \in 1 .. m
    BY <1>1, <1>3, <2>1, <2>2, <2>7
  <2> QED BY <2>3, <2>4, <2>5, <2>6, <2>7
<1>4. Apart(corpus, context, u)
  BY <1>1, <1>3 DEF Apart
<1> QED BY <1>2, <1>4 DEF u

LEMMA StreamApart ==
    ASSUME NEW corpus \in CorpusType, NEW context \in 0 .. 2
    PROVE  Apart(corpus, context, RgEvents(corpus, context))
<1> DEFINE n == Len(corpus)
<1>1. n \in Nat /\ DOMAIN corpus = 1 .. n /\ context \in Nat
      /\ \A f \in 1 .. n : f \in Nat /\ corpus[f] \in Seq(BOOLEAN)
  BY DEF CorpusType
<1> HIDE DEF n
<1>2. PICK up \in [0 .. n -> Seq(Stream)] :
              /\ up[0] = <<>>
              /\ \A f \in 1 .. n : up[f] = up[f - 1] \o FileEvents(corpus[f], f, context)
              /\ RgEvents(corpus, context) = up[n]
  BY <1>1, StreamBuilt DEF n
<1> DEFINE Right(events) == Ended(events) /\ Apart(corpus, context, events)
           T == {f \in 0 .. n : Right(up[f])}
<1>3. 0 \in T
  BY <1>1, <1>2 DEF Ended, Apart
<1>4. ASSUME NEW f \in 1 .. n, f - 1 \in T PROVE f \in T
  <2> DEFINE a == up[f - 1]
             b == FileEvents(corpus[f], f, context)
  <2>1. f - 1 \in 0 .. n /\ f \in 0 .. n /\ f \in Nat /\ corpus[f] \in Seq(BOOLEAN) /\ f \in DOMAIN corpus
    BY <1>1
  <2>2. a \in Seq(Stream) /\ b \in Seq(Stream) /\ up[f] = a \o b
    <3>1. <<>> \in Seq(Stream)
      OBVIOUS
    <3> QED BY <1>1, <1>2, <2>1, <3>1, FileMatches
  <2>3. Right(a)
    BY <1>4
  <2>4. Begun(b) /\ Ended(b) /\ Apart(corpus, context, b)
    BY <2>1, FileApart
  <2> HIDE DEF a, b
  <2>5. Right(a \o b)
    BY <2>2, <2>3, <2>4, ApartConcat
  <2> HIDE DEF Right
  <2> QED BY <2>1, <2>2, <2>5
<1>5. n \in T
  <2> HIDE DEF T
  <2>1. \A f \in 0 .. n : f \in T
    BY <1>1, <1>3, <1>4, UpwardsTo
  <2> QED BY <1>1, <2>1
<1> QED BY <1>2, <1>5

(* The context that ripgrep's answer has for a match.                      *)
LEMMA WindowNear ==
    ASSUME NEW events \in Seq(Stream), NEW a \in Nat \ {0}, NEW b \in 0 .. Len(events)
    PROVE  /\ ContextIn(SubSeq(events, a, b)) \in Seq(Positions)
           /\ \A x \in ToSet(ContextIn(SubSeq(events, a, b))) :
                 \E q \in a .. b : events[q].type = "context" /\ x = events[q].line
<1> DEFINE part == SubSeq(events, a, b)
<1>1. /\ part \in Seq(Stream)
      /\ \A i \in 1 .. Len(part) : a + i - 1 \in a .. b /\ part[i] = events[a + i - 1]
  BY PartElements
<1> HIDE DEF part
<1>2. /\ ContextIn(part) \in Seq(Positions)
      /\ \A x \in ToSet(ContextIn(part)) :
            \E i \in 1 .. Len(part) : part[i].type = "context" /\ x = part[i].line
  BY <1>1, ContextInSet
<1>3. ASSUME NEW x \in ToSet(ContextIn(part))
      PROVE  \E q \in a .. b : events[q].type = "context" /\ x = events[q].line
  <2>1. PICK i \in 1 .. Len(part) : part[i].type = "context" /\ x = part[i].line
    BY <1>2
  <2> QED BY <1>1, <2>1
<1> QED BY <1>2, <1>3 DEF part

LEMMA RgContext ==
    ASSUME NEW corpus \in CorpusType, NEW context \in 0 .. 2, NEW maximum \in Nat \ {0},
           NEW e \in ToSet(SearchRg(corpus, maximum, context).results)
    PROVE  ToSet(e.context) \subseteq Around(corpus, e.line, context)
<1> DEFINE events == RgEvents(corpus, context)
           found == OfType(events, "match")
           results == RgMatches(events, maximum, context)
           m == Least(maximum, Len(found))
           size == Len(events)
<1>1. events \in Seq(Stream) /\ Apart(corpus, context, events) /\ size \in Nat
  <2>1. context \in Nat
    OBVIOUS
  <2>2. events \in Seq(Stream)
    BY <2>1, StreamMatches
  <2> HIDE DEF events
  <2> QED BY <2>2, StreamApart DEF events
<1> HIDE DEF events
<1>2. /\ found \in Seq(Nat) /\ Len(found) \in Nat
      /\ \A i \in 1 .. Len(found) : found[i] \in 1 .. size /\ events[found[i]].type = "match"
  <2>1. found \in Seq(Nat) /\ \A i \in 1 .. Len(found) : found[i] \in 1 .. size /\ events[found[i]].type = "match"
    BY <1>1, FoundTypes
  <2> HIDE DEF found
  <2> QED BY <2>1
<1> HIDE DEF found
<1>3. results = [i \in 1 .. m |-> RgEntry(events, found[i], context)] /\ m \in 0 .. Len(found)
  BY <1>2, LeastOf DEF RgMatches, found
<1> HIDE DEF m
<1>4. PICK i \in 1 .. m : e = RgEntry(events, found[i], context)
  <2>1. e \in ToSet(results)
    BY DEF SearchRg, events
  <2> QED BY <1>3, <2>1 DEF ToSet
<1> DEFINE p == found[i]
           low == Before(p, context)
           high == Least(p + context, size)
           before == ContextIn(SubSeq(events, low, p - 1))
           behind == ContextIn(SubSeq(events, p + 1, high))
<1>5. p \in 1 .. size /\ events[p].type = "match"
  BY <1>2, <1>3
<1>6. e.line = events[p].line /\ e.context = before \o behind
  BY <1>4 DEF RgEntry
<1> HIDE DEF p, size
<1>7. /\ low \in Nat \ {0} /\ p - 1 \in 0 .. size
      /\ p + 1 \in Nat \ {0} /\ high \in 0 .. size
      /\ \A q \in low .. p - 1 : q \in 1 .. size /\ q \in p - context .. p + context
      /\ \A q \in p + 1 .. high : q \in 1 .. size /\ q \in p - context .. p + context
  <2>1. p \in 1 .. size /\ size \in Nat /\ context \in Nat
    BY <1>1, <1>5
  <2>2. low \in Nat \ {0} /\ low >= p - context
    BY <2>1 DEF Before, Most
  <2>3. high \in 0 .. size /\ high =< p + context
    BY <2>1 DEF Least
  <2> HIDE DEF low, high
  <2> QED BY <2>1, <2>2, <2>3
<1> HIDE DEF low, high
<1>8. /\ before \in Seq(Positions)
      /\ \A x \in ToSet(before) :
            \E q \in low .. p - 1 : events[q].type = "context" /\ x = events[q].line
  BY <1>1, <1>7, WindowNear DEF size
<1>9. /\ behind \in Seq(Positions)
      /\ \A x \in ToSet(behind) :
            \E q \in p + 1 .. high : events[q].type = "context" /\ x = events[q].line
  BY <1>1, <1>7, WindowNear DEF size
<1> HIDE DEF before, behind
<1>10. \A q \in 1 .. size : events[q].type = "context" /\ q \in p - context .. p + context
          => events[q].line \in Around(corpus, events[p].line, context)
  BY <1>1, <1>5 DEF Apart, size
<1>11. ToSet(before) \subseteq Around(corpus, e.line, context)
  BY <1>6, <1>7, <1>8, <1>10
<1>12. ToSet(behind) \subseteq Around(corpus, e.line, context)
  BY <1>6, <1>7, <1>9, <1>10
<1>13. ToSet(before \o behind) = ToSet(before) \cup ToSet(behind)
  BY <1>8, <1>9, SetOfConcat
<1> QED BY <1>6, <1>11, <1>12, <1>13

-----------------------------------------------------------------------------
(* The inputs of the kind "search" are corpora, and what is computed of    *)
(* them is the answer of each engine.                                      *)
Searched ==
    input.kind = "search" =>
        /\ input \in Searches
        /\ \/ output = NoOutput
           \/ output = [ok |-> TRUE,
                        rg |-> SearchRg(input.corpus, input.maximum, input.context),
                        py |-> SearchPython(input.corpus, input.maximum, input.context)]

LEMMA BoundedSeqs ==
    ASSUME NEW S, NEW n \in Nat, NEW s \in BoundedSeq(S, n)
    PROVE  s \in Seq(S)
<1>1. PICK m \in 0 .. n : s \in [1 .. m -> S]
  BY DEF BoundedSeq, SeqOf
<1> QED BY <1>1, SeqDef

LEMMA SearchTypes ==
    ASSUME NEW s \in Searches
    PROVE  s.corpus \in CorpusType /\ s.maximum \in Nat \ {0} /\ s.context \in Nat
<1>1. FileLines \in Nat /\ Corpora \in Nat /\ Contexts \subseteq Nat
  BY AlgorithmsAssumption
<1>2. /\ s.corpus \in BoundedSeq(BoundedSeq(BOOLEAN, FileLines), Corpora)
      /\ s.maximum \in 1 .. 3 /\ s.context \in Contexts
  BY DEF Searches
<1>3. s.corpus \in Seq(BoundedSeq(BOOLEAN, FileLines))
  BY <1>1, <1>2, BoundedSeqs
<1>4. BoundedSeq(BOOLEAN, FileLines) \subseteq Seq(BOOLEAN)
  BY <1>1, BoundedSeqs
<1>5. s.corpus \in CorpusType
  <2> DEFINE B == BoundedSeq(BOOLEAN, FileLines)
             C == Seq(BOOLEAN)
  <2>1. s.corpus \in Seq(B) /\ B \subseteq C
    BY <1>3, <1>4
  <2> HIDE DEF B, C
  <2>2. s.corpus \in Seq(C)
    BY <2>1, SeqMonotonic
  <2> QED BY <2>2 DEF CorpusType, C
<1>6. s.maximum \in Nat \ {0}
  BY <1>2
<1>7. s.context \in Nat
  BY <1>1, <1>2
<1> QED BY <1>5, <1>6, <1>7

LEMMA SearchedInit == TextInit => Searched
<1> SUFFICES ASSUME TextInit PROVE Searched
  OBVIOUS
<1>1. /\ \A d \in Diffs : d.kind = "diff"
      /\ \A c \in Cuts : c.kind = "parse"
      /\ \A p \in Placings : p.kind = "hunks"
  BY DEF Diffs, Cuts, Placings
<1> QED BY <1>1 DEF TextInit, Searched

LEMMA SearchedStep == Searched /\ [TextNext]_textVars => Searched'
<1> SUFFICES ASSUME Searched, [TextNext]_textVars PROVE Searched'
  OBVIOUS
<1> USE DEF Searched
<1>1. CASE ComputeDiff
  BY <1>1 DEF ComputeDiff
<1>2. CASE ComputeParse
  BY <1>2 DEF ComputeParse
<1>3. CASE ComputeHunks
  BY <1>3 DEF ComputeHunks
<1>4. CASE ComputeSearch
  BY <1>4 DEF ComputeSearch
<1>5. CASE UNCHANGED textVars
  BY <1>5 DEF textVars
<1> QED BY <1>1, <1>2, <1>3, <1>4, <1>5 DEF TextNext

LEMMA SearchComputed ==
    ASSUME Searched, Computed("search")
    PROVE  /\ input.corpus \in CorpusType /\ input.maximum \in Nat \ {0} /\ input.context \in Nat
           /\ output.rg = SearchRg(input.corpus, input.maximum, input.context)
           /\ output.py = SearchPython(input.corpus, input.maximum, input.context)
<1>1. output # NoOutput /\ input.kind = "search"
  BY DEF Computed, NoOutput
<1>2. input \in Searches
  BY <1>1 DEF Searched
<1>3. /\ output.rg = SearchRg(input.corpus, input.maximum, input.context)
      /\ output.py = SearchPython(input.corpus, input.maximum, input.context)
  BY <1>1 DEF Searched
<1> QED BY <1>2, <1>3, SearchTypes

(* Whatever the files, their number and their length: the search by        *)
(* ripgrep's events and the one line by line both answer with the first    *)
(* matches of the corpus in order, as many as are asked for, and with all  *)
(* of them when they do not call the answer truncated.                     *)
THEOREM FirstHitsCorrect == TextSpec => []FirstHits
<1>1. Searched => FirstHits
  <2> SUFFICES ASSUME Searched, Computed("search"), NEW answer \in {output.rg, output.py}
               PROVE  /\ Hits(answer) = First(AllHits(input.corpus), input.maximum)
                      /\ ~answer.truncated => Hits(answer) = AllHits(input.corpus)
    BY DEF FirstHits, First
  <2>1. CASE answer = output.rg
    BY <2>1, SearchComputed, RgFirst
  <2>2. CASE answer = output.py
    BY <2>2, SearchComputed, PyFirst
  <2> QED BY <2>1, <2>2
<1> QED BY <1>1, SearchedInit, SearchedStep, PTL DEF TextSpec

(* The context of every match is of its own file: the lines around it up   *)
(* to the distance asked for, all of them line by line; of ripgrep's       *)
(* events none farther away, for a distance of at most 2, since a begin    *)
(* and an end stand between the lines of two files.                        *)
THEOREM ContextNearCorrect == TextSpec => []ContextNear
<1>1. Searched => ContextNear
  <2> SUFFICES ASSUME Searched, Computed("search")
               PROVE  /\ \A e \in ToSet(output.py.results) :
                            ToSet(e.context) = Around(input.corpus, e.line, input.context)
                      /\ input.context =< 2 =>
                            \A e \in ToSet(output.rg.results) :
                                ToSet(e.context) \subseteq Around(input.corpus, e.line, input.context)
    BY DEF ContextNear
  <2> DEFINE corpus == input.corpus
             maximum == input.maximum
             context == input.context
  <2>1. /\ corpus \in CorpusType /\ maximum \in Nat \ {0} /\ context \in Nat
        /\ output.rg = SearchRg(corpus, maximum, context)
        /\ output.py = SearchPython(corpus, maximum, context)
    BY SearchComputed
  <2> HIDE DEF corpus, maximum, context
  <2>2. ASSUME NEW e \in ToSet(output.py.results)
        PROVE  ToSet(e.context) = Around(corpus, e.line, context)
    <3> DEFINE results == output.py.results
    <3>1. results \in Seq(PyEntries(corpus, context))
      BY <2>1, PyFirst
    <3> HIDE DEF results
    <3>2. e \in PyEntries(corpus, context)
      <4>1. e \in ToSet(results)
        BY <2>2 DEF results
      <4> QED BY <3>1, <4>1 DEF ToSet
    <3>3. PICK f \in DOMAIN corpus : \E n \in DOMAIN corpus[f] :
             e.line = At(f, n) /\ e.context = PyContext(corpus[f], f, n, context)
      BY <2>1, <3>2, PyEntryIs
    <3>4. PICK n \in DOMAIN corpus[f] :
             e.line = At(f, n) /\ e.context = PyContext(corpus[f], f, n, context)
      BY <3>3
    <3> QED BY <2>1, <3>4, PyContextIs
  <2>3. ASSUME context =< 2, NEW e \in ToSet(output.rg.results)
        PROVE  ToSet(e.context) \subseteq Around(corpus, e.line, context)
    <3>1. context \in 0 .. 2
      BY <2>1, <2>3
    <3>2. e \in ToSet(SearchRg(corpus, maximum, context).results)
      BY <2>1, <2>3
    <3> QED BY <2>1, <3>1, <3>2, RgContext
  <2> QED BY <2>2, <2>3 DEF corpus, context
<1> QED BY <1>1, SearchedInit, SearchedStep, PTL DEF TextSpec
=============================================================================
