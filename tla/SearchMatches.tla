---------------------------- MODULE SearchMatches -----------------------------
(***************************************************************************)
(* Content search of agent_runtime/capabilities.py as functions: how       *)
(* _rg_matches turns the event stream of ripgrep into an answer, and how   *)
(* _search_python does the same search without ripgrep.                    *)
(*                                                                         *)
(* A corpus is the files in the order in which they are visited, after the *)
(* filters (globs, hidden, size, binary); a file is a sequence of BOOLEAN, *)
(* TRUE for a line that matches.  A line is its file and its number.       *)
(***************************************************************************)
EXTENDS Integers, SequencesExt

At(f, n) == <<f, n>>

Least(a, b) == IF a < b THEN a ELSE b
Most(a, b) == IF a > b THEN a ELSE b

(* The numbers up to n that are in a set, in order. *)
Ascending(n, S) ==
    LET up[k \in 0 .. n] ==
            IF k = 0 THEN <<>>
            ELSE IF k \in S THEN Append(up[k - 1], k)
            ELSE up[k - 1]
    IN  up[n]

Matching(file) == {n \in DOMAIN file : file[n]}

-----------------------------------------------------------------------------
(* The events of rg --json -C context: for each file with a match its      *)
(* matches and the lines near them, between a begin and an end.            *)

Near(file, context) ==
    {n \in DOMAIN file : \E m \in Matching(file) : m - n \in -context .. context}

FileEvents(file, f, context) ==
    LET lines == Ascending(Len(file), Near(file, context))
    IN  IF lines = <<>> THEN <<>>
        ELSE <<[type |-> "begin"]>>
             \o [i \in DOMAIN lines |->
                    [type |-> IF file[lines[i]] THEN "match" ELSE "context",
                     line |-> At(f, lines[i])]]
             \o <<[type |-> "end"]>>

RgEvents(corpus, context) ==
    FlattenSeq([f \in DOMAIN corpus |-> FileEvents(corpus[f], f, context)])

-----------------------------------------------------------------------------
(* _rg_matches: the context of a match is what there is of context events  *)
(* among the `context' events before it and after it.                      *)

OfType(events, type) == Ascending(Len(events), {i \in DOMAIN events : events[i].type = type})

ContextIn(events) ==
    LET kept == OfType(events, "context")
    IN  [i \in DOMAIN kept |-> events[kept[i]].line]

BeforeMutant(i, context) == 1
Before(i, context) == Most(1, i - context)

RgEntry(events, i, context) ==
    [line    |-> events[i].line,
     context |-> ContextIn(SubSeq(events, Before(i, context), i - 1))
                 \o ContextIn(SubSeq(events, i + 1, Least(i + context, Len(events))))]

RgMatches(events, maximum, context) ==
    LET found == OfType(events, "match")
    IN  [i \in 1 .. Least(maximum, Len(found)) |-> RgEntry(events, found[i], context)]

TruncatedMutant(matches, maximum) == Len(matches) > maximum
Truncated(matches, maximum) == Len(matches) >= maximum

SearchRg(corpus, maximum, context) ==
    LET matches == RgMatches(RgEvents(corpus, context), maximum, context)
    IN  [results |-> matches, truncated |-> Truncated(matches, maximum)]

-----------------------------------------------------------------------------
(* _search_python: file by file, line by line, until there are enough.     *)

PyContext(file, f, n, context) ==
    LET lines == [m \in DOMAIN file |-> At(f, m)]
    IN  SubSeq(lines, Most(0, n - 1 - context) + 1, n - 1)
        \o SubSeq(lines, n + 1, Least(Len(file), n + context))

Full(results, maximum) == Len(results) >= maximum

PyLine(corpus, f, maximum, context, results, n) ==
    IF Full(results, maximum) \/ ~corpus[f][n] THEN results
    ELSE Append(results, [line |-> At(f, n), context |-> PyContext(corpus[f], f, n, context)])

PyFile(corpus, maximum, context, results, f) ==
    LET after[n \in 0 .. Len(corpus[f])] ==
            IF n = 0 THEN results ELSE PyLine(corpus, f, maximum, context, after[n - 1], n)
    IN  after[Len(corpus[f])]

SearchPython(corpus, maximum, context) ==
    LET after[f \in 0 .. Len(corpus)] ==
            IF f = 0 THEN <<>> ELSE PyFile(corpus, maximum, context, after[f - 1], f)
        results == after[Len(corpus)]
    IN  [results |-> results, truncated |-> Full(results, maximum)]
=============================================================================
