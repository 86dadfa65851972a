------------------------------ MODULE PatchApply ------------------------------
(***************************************************************************)
(* agent_runtime/patch.py as functions: parse, which reads a unified diff  *)
(* and refuses what it does not understand, and build_new, which applies   *)
(* the hunks of one file to its text or finds that they do not fit.        *)
(*                                                                         *)
(* A line of the diff is a record with its kind; a line of a file is a     *)
(* member of Texts.  A file is its lines and whether the last one ends in  *)
(* a newline.  A parsed path is "name", "/dev/null", or "bad" when it is   *)
(* absolute or escapes the base.  The limit on the characters of a diff    *)
(* is left out.                                                            *)
(***************************************************************************)
EXTENDS Integers, SequencesExt

CONSTANTS
    Texts,          \* the lines of files
    Dashes,         \* those that begin with "-- "
    Pluses,         \* those that begin with "++ "
    MaxFiles        \* the files of one patch

ASSUME PatchAssumption ==
    /\ Dashes \subseteq Texts /\ Pluses \subseteq Texts
    /\ MaxFiles \in Nat \ {0}

-----------------------------------------------------------------------------
(* The lines of a diff. *)

OldHeader(path) == [kind |-> "---", path |-> path]
NewHeader(path) == [kind |-> "+++", path |-> path]
HunkHeader(start, len) == [kind |-> "@@", start |-> start, len |-> len]
NoNewline == [kind |-> "no newline"]

(* A removed line "-- x" reads "--- x" in the diff, an added "++ x" reads   *)
(* "+++ x": the parser takes both for headers.                             *)
Line(op, text) ==
    CASE op = "-" /\ text \in Dashes -> OldHeader("name")
      [] op = "+" /\ text \in Pluses -> NewHeader("name")
      [] OTHER -> [kind |-> "line", op |-> op, text |-> text]

-----------------------------------------------------------------------------
(* parse: an automaton over the lines.  `mode' is the header it expects    *)
(* next, or "hunks" inside a file.                                         *)

Refused == [mode |-> "refused", files |-> <<>>]

OldOps == {" ", "-"}
NewOps == {" ", "+"}

OldLines(ops) == {i \in DOMAIN ops : ops[i].op \in OldOps}

CountsMutant(h) == TRUE
Counts(h) == Cardinality(OldLines(h.ops)) = h.len

(* The hunk that ends here has the old lines that its header announced.    *)
Closed(file) == file.hunks # <<>> /\ Counts(Last(file.hunks))

Inside(s, file) == [mode |-> "hunks", files |-> Append(Front(s.files), file)]

WithHunk(file, h) == [file EXCEPT !.hunks = Append(@, h)]
WithOps(file, ops) == [file EXCEPT !.hunks = Append(Front(@), [Last(@) EXCEPT !.ops = ops])]

BeginFile(s, t) ==
    IF t.kind # "---" THEN Refused
    ELSE [mode |-> "+++",
          files |-> Append(s.files, [old |-> t.path, new |-> t.path, hunks |-> <<>>])]

NamesFile(s, t) ==
    LET file == Last(s.files)
    IN  IF \/ t.kind # "+++"
           \/ "bad" \in {file.old, t.path}
           \/ t.path = "/dev/null" /\ file.old # "/dev/null"
        THEN Refused
        ELSE Inside(s, [file EXCEPT !.new = t.path])

InHunks(s, t) ==
    LET file == Last(s.files)
        ops  == Last(file.hunks).ops
    IN  CASE t.kind = "@@" /\ (file.hunks = <<>> \/ Closed(file)) ->
                Inside(s, WithHunk(file, [start |-> t.start, len |-> t.len, ops |-> <<>>]))
          [] t.kind = "line" /\ file.hunks # <<>> ->
                Inside(s, WithOps(file, Append(ops, [op |-> t.op, text |-> t.text, nl |-> TRUE])))
          [] t.kind = "no newline" /\ file.hunks # <<>> /\ ops # <<>> ->
                Inside(s, WithOps(file, Append(Front(ops), [Last(ops) EXCEPT !.nl = FALSE])))
          [] t.kind = "---" /\ Closed(file) -> BeginFile(s, t)
          [] OTHER -> Refused

ParseLine(s, t) ==
    CASE s.mode = "---" -> BeginFile(s, t)
      [] s.mode = "+++" -> NamesFile(s, t)
      [] s.mode = "hunks" -> InHunks(s, t)
      [] OTHER -> s

(* The files of the patch, none when it is refused.                        *)
Parse(diff) ==
    LET after[k \in 0 .. Len(diff)] ==
            IF k = 0 THEN [mode |-> "---", files |-> <<>>] ELSE ParseLine(after[k - 1], diff[k])
        s == after[Len(diff)]
    IN  IF s.mode = "hunks" /\ Closed(Last(s.files)) /\ Len(s.files) <= MaxFiles
        THEN s.files ELSE <<>>

-----------------------------------------------------------------------------
(* build_new.  `cursor' counts the lines of the original that are dealt    *)
(* with.                                                                   *)

Mismatch == [ok |-> FALSE, lines |-> <<>>, nl |-> TRUE, cursor |-> 0]

StartMutant(h) == h.start
Start(h) == IF h.start > 0 THEN h.start - 1 ELSE 0

MisplacedMutant(h, cursor, lines) == Start(h) > Len(lines)
Misplaced(h, cursor, lines) == Start(h) < cursor \/ Start(h) > Len(lines)

Differs(o, cursor, lines) == cursor >= Len(lines) \/ lines[cursor + 1] # o.text

EndsIn(o) == o.nl

ApplyOp(lines, s, o) ==
    IF ~s.ok \/ (o.op \in OldOps /\ Differs(o, s.cursor, lines)) THEN Mismatch
    ELSE [ok     |-> TRUE,
          lines  |-> IF o.op \in NewOps THEN Append(s.lines, o.text) ELSE s.lines,
          nl     |-> IF o.op \in NewOps THEN EndsIn(o) ELSE s.nl,
          cursor |-> IF o.op \in OldOps THEN s.cursor + 1 ELSE s.cursor]

UpTo(lines, s, h) ==
    [s EXCEPT !.lines = @ \o SubSeq(lines, s.cursor + 1, Start(h)), !.cursor = Start(h)]

ApplyHunk(lines, s, h) ==
    LET after[k \in 0 .. Len(h.ops)] ==
            IF k = 0 THEN UpTo(lines, s, h) ELSE ApplyOp(lines, after[k - 1], h.ops[k])
    IN  IF ~s.ok \/ Misplaced(h, s.cursor, lines) THEN Mismatch ELSE after[Len(h.ops)]

Untouched == [ok |-> TRUE, lines |-> <<>>, nl |-> TRUE, cursor |-> 0]

BuildNew(original, hunks) ==
    LET lines == original.lines
        after[k \in 0 .. Len(hunks)] ==
            IF k = 0 THEN Untouched ELSE ApplyHunk(lines, after[k - 1], hunks[k])
        s == after[Len(hunks)]
        out == s.lines \o SubSeq(lines, s.cursor + 1, Len(lines))
    IN  [ok |-> s.ok, lines |-> IF s.ok THEN out ELSE <<>>, nl |-> out = <<>> \/ s.nl]
=============================================================================
