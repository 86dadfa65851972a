---------------------------- MODULE TextAlgorithms -----------------------------
(***************************************************************************)
(* The functions of PatchApply and SearchMatches against what they are     *)
(* meant to compute.  A behaviour takes one input and computes its output; *)
(* the inputs are every diff of small files, every small set of hunks with *)
(* every small file, and every small corpus.                               *)
(***************************************************************************)
EXTENDS PatchApply, SearchMatches

CONSTANTS
    ScriptLines,    \* bound: the lines of an edit script
    HunkOps,        \* bound: the lines of a hunk
    MoreHunks,      \* bound: the hunks after the first one
    OtherLines,     \* bound: the lines of the file that hunks are tried on
    FileLines,      \* bound: the lines of a searched file
    Corpora,        \* bound: the files searched
    Contexts        \* the numbers of context lines

ASSUME AlgorithmsAssumption ==
    /\ {ScriptLines, HunkOps, MoreHunks, OtherLines, FileLines, Corpora} \subseteq Nat
    /\ Contexts \subseteq 0 .. 5
    /\ MaxFiles >= 2 /\ Texts \ (Dashes \cup Pluses) # {}

VARIABLES input, output
textVars == <<input, output>>

NoOutput == [ok |-> FALSE]

-----------------------------------------------------------------------------
(* Edit scripts: all the lines of two versions of a file, each kept (" "), *)
(* removed ("-") or added ("+"), and the unified diff of a script.         *)

LineOps == {" ", "-", "+"}

Op == [op : LineOps, text : Texts]

Plain == Texts \ (Dashes \cup Pluses)
AnyLine == CHOOSE text \in Plain : TRUE

Side(script, ops) ==
    LET side[k \in 0 .. Len(script)] ==
            IF k = 0 THEN <<>>
            ELSE IF script[k].op \in ops THEN Append(side[k - 1], script[k].text)
            ELSE side[k - 1]
    IN  side[Len(script)]

(* The line that ends a version of the file. *)
IsLast(script, i, ops) ==
    script[i].op \in ops /\ \A j \in i + 1 .. Len(script) : script[j].op \notin ops

(* A kept line has its newline in both versions or in neither.             *)
Consistent(script, oldNl, newNl) ==
    /\ \A i \in DOMAIN script : script[i].op = " " =>
          ((IsLast(script, i, OldOps) /\ ~oldNl) <=> (IsLast(script, i, NewOps) /\ ~newNl))
    /\ Side(script, OldOps) = <<>> => oldNl
    /\ Side(script, NewOps) = <<>> => newNl

Changed(script) == \E i \in DOMAIN script : script[i].op # " "

(* The lines that a diff with `context' lines of context shows.            *)
Shown(script, context) ==
    {i \in DOMAIN script : \E j \in DOMAIN script :
        script[j].op # " " /\ j - i \in -context .. context}

HunkStarts(shown) == {i \in shown : i - 1 \notin shown}
HunkEnd(shown, i) == CHOOSE j \in shown : j >= i /\ j + 1 \notin shown /\ i .. j \subseteq shown

(* The old lines before a line and itself. *)
OldUpTo(script, i) == Len(Side(SubSeq(script, 1, i), OldOps))

(* A hunk without old lines is numbered by the line it comes after.        *)
Header(script, shown, i) ==
    LET before == OldUpTo(script, i - 1)
        len    == OldUpTo(script, HunkEnd(shown, i)) - before
    IN  HunkHeader(IF len = 0 THEN before ELSE before + 1, len)

Unended(script, i, oldNl, newNl) ==
    (IsLast(script, i, OldOps) /\ ~oldNl) \/ (IsLast(script, i, NewOps) /\ ~newNl)

Printed(script, shown, i, oldNl, newNl) ==
    IF i \notin shown THEN <<>>
    ELSE (IF i \in HunkStarts(shown) THEN <<Header(script, shown, i)>> ELSE <<>>)
         \o <<Line(script[i].op, script[i].text)>>
         \o (IF Unended(script, i, oldNl, newNl) THEN <<NoNewline>> ELSE <<>>)

UnifiedDiff(script, context, oldNl, newNl) ==
    FlattenSeq([i \in DOMAIN script |->
                    Printed(script, Shown(script, context), i, oldNl, newNl)])

Section(old, new, hunks) == <<OldHeader(old), NewHeader(new)>> \o hunks

(* A second section, which creates a file of one line. *)
Creation ==
    Section("/dev/null", "name", <<HunkHeader(0, 0), Line("+", AnyLine), NoNewline>>)

(* A hunk of a diff that adds lines behind a line that it does not show.   *)
Bare(script, context) ==
    LET shown == Shown(script, context)
    IN  \E i \in HunkStarts(shown) :
            /\ \A j \in i .. HunkEnd(shown, i) : script[j].op = "+"
            /\ Side(SubSeq(script, 1, i - 1), OldOps) # <<>>

(* The line that ends the new version is shown, or needs no mention.       *)
EndShown(script, context, newNl) ==
    newNl \/ \E i \in Shown(script, context) : IsLast(script, i, NewOps)

(* A line that reads as a header. *)
Risky(script) ==
    \E i \in DOMAIN script : \/ script[i].op = "-" /\ script[i].text \in Dashes
                             \/ script[i].op = "+" /\ script[i].text \in Pluses

Diffs ==
    {d \in [kind : {"diff"}, script : BoundedSeq(Op, ScriptLines), context : Contexts \cap 0 .. 1,
            oldNl : BOOLEAN, newNl : BOOLEAN, creates : BOOLEAN] :
        Changed(d.script) /\ Consistent(d.script, d.oldNl, d.newNl)}

DiffOf(d) ==
    Section("name", "name", UnifiedDiff(d.script, d.context, d.oldNl, d.newNl))
    \o IF d.creates THEN Creation ELSE <<>>

ApplyDiff(d) ==
    LET files == Parse(DiffOf(d))
    IN  IF files = <<>> THEN [refused |-> TRUE]
        ELSE [refused |-> FALSE,
              built |-> BuildNew([lines |-> Side(d.script, OldOps), nl |-> d.oldNl], files[1].hunks),
              others |-> [i \in 1 .. Len(files) - 1 |->
                             BuildNew([lines |-> <<>>, nl |-> TRUE], files[i + 1].hunks)]]

-----------------------------------------------------------------------------
(* Diffs that lost their end, and diffs between files of other names.      *)

PathKinds == {"name", "/dev/null", "bad"}

Cuts ==
    {c \in [kind : {"parse"}, script : BoundedSeq(Op, HunkOps), context : {1},
            length : 0 .. HunkOps + 3, old : PathKinds, new : PathKinds] : Changed(c.script)}

CutDiff(c) ==
    LET diff == Section(c.old, c.new, UnifiedDiff(c.script, c.context, TRUE, TRUE))
    IN  SubSeq(diff, 1, Least(c.length, Len(diff)))

OldAfter(diff, i) == {j \in i + 1 .. Len(diff) : diff[j].kind = "line" /\ diff[j].op \in OldOps}

(* What is left has a hunk, and of the last one all the old lines.         *)
Whole(diff) ==
    \E i \in DOMAIN diff :
        /\ diff[i].kind = "@@" /\ \A j \in i + 1 .. Len(diff) : diff[j].kind # "@@"
        /\ Cardinality(OldAfter(diff, i)) = diff[i].len

Understood(c) ==
    /\ Whole(CutDiff(c))
    /\ "bad" \notin {c.old, c.new}
    /\ c.new = "/dev/null" => c.old = "/dev/null"
    /\ \A i \in 3 .. Len(CutDiff(c)) : CutDiff(c)[i].kind \notin {"---", "+++"}

-----------------------------------------------------------------------------
(* Hunks on a file that need not be the one they were made for.            *)

Hunk(ops) == [start : 0 .. OtherLines + 1, len : {0}, ops : ops]

HunkOp == [op : LineOps, text : Plain, nl : {TRUE}]

HunkLists ==
    UNION {{<<h>> \o more : more \in BoundedSeq(Hunk(BoundedSeq(HunkOp, 1)), MoreHunks)} :
              h \in Hunk(BoundedSeq(HunkOp, HunkOps))}

Placings ==
    [kind : {"hunks"}, lines : BoundedSeq(Plain, OtherLines), hunks : HunkLists]

(* Where a hunk says that its old lines are. *)
Place(h) == IF h.start = 0 THEN 0 ELSE h.start - 1
Behind(h) == Place(h) + Len(Side(h.ops, OldOps))

FindsLines(h, lines) ==
    /\ Behind(h) <= Len(lines)
    /\ SubSeq(lines, Place(h) + 1, Behind(h)) = Side(h.ops, OldOps)

(* The end of the part of the file that the first i hunks have to do with. *)
Past(p, i) == IF i = 0 THEN 0 ELSE Behind(p.hunks[i])

Fits(p) ==
    \A i \in 1 .. Len(p.hunks) :
        Past(p, i - 1) <= Place(p.hunks[i]) /\ FindsLines(p.hunks[i], p.lines)

Spliced(p) ==
    LET front[i \in 0 .. Len(p.hunks)] ==
            IF i = 0 THEN <<>>
            ELSE front[i - 1] \o SubSeq(p.lines, Past(p, i - 1) + 1, Place(p.hunks[i]))
                             \o Side(p.hunks[i].ops, NewOps)
    IN  front[Len(p.hunks)] \o SubSeq(p.lines, Past(p, Len(p.hunks)) + 1, Len(p.lines))

-----------------------------------------------------------------------------
(* Corpora, with all their matching lines in order. *)

Searches ==
    [kind : {"search"}, corpus : BoundedSeq(BoundedSeq(BOOLEAN, FileLines), Corpora),
     maximum : 1 .. 3, context : Contexts]

AllHits(corpus) ==
    FlattenSeq([f \in DOMAIN corpus |->
        LET hits == Ascending(Len(corpus[f]), Matching(corpus[f]))
        IN  [i \in DOMAIN hits |-> At(f, hits[i])]])

Hits(answer) == [i \in DOMAIN answer.results |-> answer.results[i].line]

Around(corpus, line, context) ==
    {At(line[1], n) : n \in (DOMAIN corpus[line[1]] \cap line[2] - context .. line[2] + context) \ {line[2]}}

-----------------------------------------------------------------------------
TextInit ==
    /\ input \in Diffs \cup Cuts \cup Placings \cup Searches
    /\ output = NoOutput

ComputeDiff ==
    /\ input.kind = "diff" /\ output = NoOutput
    /\ output' = [ok |-> TRUE, diff |-> ApplyDiff(input)]
    /\ UNCHANGED input

ComputeParse ==
    /\ input.kind = "parse" /\ output = NoOutput
    /\ output' = [ok |-> TRUE, files |-> Parse(CutDiff(input))]
    /\ UNCHANGED input

ComputeHunks ==
    /\ input.kind = "hunks" /\ output = NoOutput
    /\ output' = [ok |-> TRUE, hunks |-> BuildNew([lines |-> input.lines, nl |-> TRUE], input.hunks)]
    /\ UNCHANGED input

ComputeSearch ==
    /\ input.kind = "search" /\ output = NoOutput
    /\ output' = [ok |-> TRUE,
                  rg |-> SearchRg(input.corpus, input.maximum, input.context),
                  py |-> SearchPython(input.corpus, input.maximum, input.context)]
    /\ UNCHANGED input

TextNext == ComputeDiff \/ ComputeParse \/ ComputeHunks \/ ComputeSearch

TextSpec == TextInit /\ [][TextNext]_textVars

Computed(kind) == output.ok /\ input.kind = kind

-----------------------------------------------------------------------------
Text(lines, nl) == [ok |-> TRUE, lines |-> lines, nl |-> nl]

Rebuilt(d) ==
    /\ ~output.diff.refused
    /\ output.diff.built = Text(Side(d.script, NewOps), d.newNl)
    /\ output.diff.others = IF d.creates THEN <<Text(<<AnyLine>>, FALSE)>> ELSE <<>>

(* apply_patch "takes a unified diff for multi-hunk or multi-file edits:   *)
(* exact context" (README.md): of the diff of two files that it accepts    *)
(* and the first one it makes the lines of the second.                     *)
PatchApplies ==
    Computed("diff") /\ ~output.diff.refused =>
        output.diff.built.lines = Side(input.script, NewOps)

(* A patch makes the second file of the first, newlines and all, unless    *)
(* the diff has a hunk of insertions without context, or does not show the *)
(* end of a file without a final newline, or has a line that reads as a    *)
(* header; with such a line it may be refused but is never misapplied.     *)
PatchRebuilds ==
    Computed("diff") /\ ~Bare(input.script, input.context)
                     /\ EndShown(input.script, input.context, input.newNl) =>
        Rebuilt(input) \/ (output.diff.refused /\ Risky(input.script))

(* A diff that is cut off among the old lines of a hunk, lacks its hunks,  *)
(* deletes a file or names one out of bounds is refused as a whole; one    *)
(* that only lost added lines is not, since the header's count of new      *)
(* lines is not looked at (patch.py 103).                                  *)
ParseRefuses == Computed("parse") => (output.files # <<>> <=> Understood(input))

(* On any file whatever, hunks apply if and only if each finds its old     *)
(* lines at its place, in order and without overlap; then these lines are  *)
(* replaced and all others are kept: "exact context" (README.md).          *)
HunksExact ==
    Computed("hunks") =>
        /\ output.hunks.ok <=> Fits(input)
        /\ output.hunks.ok => output.hunks.lines = Spliced(input)

(* Both engines return the first `maximum' matches in order, and when they *)
(* do not say that the answer is truncated it is complete.                 *)
FirstHits ==
    Computed("search") =>
        \A answer \in {output.rg, output.py} :
            LET all == AllHits(input.corpus)
            IN  /\ Hits(answer) = SubSeq(all, 1, Least(input.maximum, Len(all)))
                /\ ~answer.truncated => Hits(answer) = all

(* The context of a match is of its file and within the distance asked     *)
(* for.  Without ripgrep it is all of that; with ripgrep it lacks lines    *)
(* that match themselves, and is right only up to a distance of 2, beyond  *)
(* which the events of the files before and after come into reach.         *)
ContextNear ==
    Computed("search") =>
        /\ \A e \in ToSet(output.py.results) :
              ToSet(e.context) = Around(input.corpus, e.line, input.context)
        /\ input.context <= 2 =>
              \A e \in ToSet(output.rg.results) :
                  ToSet(e.context) \subseteq Around(input.corpus, e.line, input.context)
=============================================================================
