------------------------------- MODULE DiffReaders ----------------------------
(* The three readers of a diff: validateUnifiedDiff, which decides whether it may
   be sent, parseDiffFileTabs, which the viewer's tabs come from, and parseAllFiles,
   whose files are the panes under the tabs.  They read it line by line; what is
   read is written by git, with a few lines that git would not have put there. *)
EXTENDS Naturals, Sequences, FiniteSetsExt

CONSTANTS DiffPaths, MaxDiffFiles, MaxHunks, MaxSlips

ASSUME DiffReadersAssumption == MaxDiffFiles \in Nat /\ MaxHunks \in Nat /\ MaxSlips \in Nat

NoPath == ""

\* A line: its kind, the path it names, the counts of a hunk header.
Line(kind, path, old, new) == [kind |-> kind, path |-> path, old |-> old, new |-> new]
Plain(kind) == Line(kind, NoPath, 0, 0)
EndOfDiff == Plain("end")

PlainKinds == {"new file", "deleted file", "binary", "add", "del", "context", "blank", "marker", "other",
               "bad hunk"}
AnyLine ==
    {Plain(k) : k \in PlainKinds}
    \cup {Line(k, p, 0, 0) : k \in {"git", "from", "to", "minus", "plus"}, p \in DiffPaths \cup {NoPath}}
    \cup {Line("hunk", NoPath, o, n) : o, n \in 0..1}

VARIABLES line,    \* the line about to be read
          writer,  \* what git has still to write
          check,   \* validateUnifiedDiff
          tabs,    \* parseDiffFileTabs: the accumulators of the tabs, the last one open
          files    \* parseAllFiles: the sections

readerVars == <<line, writer, check, tabs, files>>

-----------------------------------------------------------------------------
\* What git writes

NewPath == CHOOSE p \in DiffPaths : TRUE

\* The header of a file of each kind; "bare" ones have no content to show.
Header(kind, p, q) ==
    LET git == Line("git", p, 0, 0)
        from == Line("minus", p, 0, 0)
        to == Line("plus", p, 0, 0)
    IN CASE kind = "added" -> <<git, Plain("new file"), Line("minus", NoPath, 0, 0), to>>
         [] kind = "deleted" -> <<git, Plain("deleted file"), from, Line("plus", NoPath, 0, 0)>>
         [] kind = "modified" -> <<git, from, to>>
         [] kind = "renamed" -> <<git, Line("from", q, 0, 0), Line("to", p, 0, 0), Line("minus", q, 0, 0), to>>
         [] kind = "moved" -> <<git, Line("from", q, 0, 0), Line("to", p, 0, 0)>>
         [] kind = "empty" -> <<git, Plain("new file")>>
         [] kind = "emptied" -> <<git, Plain("deleted file")>>
         [] kind = "mode" -> <<git, Plain("other")>>
         [] kind = "binary" -> <<git, Plain("other"), Plain("binary")>>

Shown == {"added", "deleted", "modified", "renamed"}
Bare == {"moved", "empty", "emptied", "mode", "binary"}

Resting(w) == w.todo = <<>> /\ w.old = 0 /\ w.new = 0

\* The lines git may write next, each with the writer after it.
NextFile(w) ==
    IF Resting(w) /\ w.whole /\ Len(w.kinds) + w.slips < MaxDiffFiles
    THEN {LET h == Header(k, p, q) IN
            <<h[1], [w EXCEPT !.todo = Tail(h), !.kinds = Append(@, k), !.whole = k \in Bare]>>
          : k \in IF w.hunks < MaxHunks THEN Shown \cup Bare ELSE Bare, p \in {NewPath}, q \in DiffPaths \ {NewPath}}
    ELSE {}

NextHeaderLine(w) ==
    IF w.todo # <<>> THEN {<<Head(w.todo), [w EXCEPT !.todo = Tail(@)]>>} ELSE {}

NextHunk(w) ==
    IF Resting(w) /\ w.kinds # <<>> /\ w.kinds[Len(w.kinds)] \in Shown /\ w.hunks < MaxHunks
    THEN {<<Line("hunk", NoPath, o, n), [w EXCEPT !.old = o, !.new = n, !.hunks = @ + 1, !.whole = TRUE]>>
          : o \in 0..1, n \in 1..2}
    ELSE {}

\* A removed line "-- x" reads "--- x", an added one "++ x" reads "+++ x".  Where
\* lines are replaced, those removed come first.
NextBodyLine(w) ==
    {<<l, [w EXCEPT !.old = @ - 1]>>
        : l \in IF w.old > 0 THEN {Plain("del"), Line("minus", NoPath, 0, 0)} ELSE {}}
    \cup {<<l, [w EXCEPT !.new = @ - 1]>>
        : l \in IF w.new > w.old THEN {Plain("add"), Line("plus", NoPath, 0, 0)} ELSE {}}
    \cup (IF w.old > 0 /\ w.new > 0
          THEN {<<Plain("context"), [w EXCEPT !.old = @ - 1, !.new = @ - 1]>>} ELSE {})

\* "\ No newline at end of file" follows a line of a body.
NextMarker(w) ==
    IF line.kind \in {"add", "del", "context"} /\ w.todo = <<>> /\ w.old = 0 /\ ~w.marked
    THEN {<<Plain("marker"), [w EXCEPT !.marked = @ \/ Resting(w)]>>} ELSE {}

LastLine(w) ==
    IF Resting(w) /\ w.whole /\ line.kind # "blank"
    THEN {<<EndOfDiff, w>>, <<Plain("blank"), [w EXCEPT !.last = TRUE]>>} ELSE {}

\* A line that git did not write there, or the end of a diff cut short.
Slips(w) ==
    IF w.slips < MaxSlips /\ Len(w.kinds) < MaxDiffFiles
    THEN {<<l, [w EXCEPT !.slips = @ + 1]>> : l \in AnyLine}
         \cup {<<EndOfDiff, [w EXCEPT !.slips = @ + 1]>>}
    ELSE {}

Written(w) ==
    IF w.last THEN {<<EndOfDiff, w>>}
    ELSE NextFile(w) \cup NextHeaderLine(w) \cup NextHunk(w) \cup NextBodyLine(w)
         \cup NextMarker(w) \cup LastLine(w) \cup Slips(w)

-----------------------------------------------------------------------------
\* validateUnifiedDiff

NotChecked == [inFile |-> FALSE, saw |-> FALSE, open |-> FALSE, old |-> 0, new |-> 0, files |-> 0,
               additions |-> 0, deletions |-> 0, issues |-> FALSE, over |-> FALSE, skip |-> FALSE,
               grown |-> 0, shrunk |-> 0]

\* closeHunkIfUnfinished
Closed(c) ==
    [c EXCEPT !.issues = @ \/ (c.open /\ (c.old > 0 \/ c.new > 0)), !.open = FALSE]

Refused(c) == [c EXCEPT !.issues = TRUE, !.over = TRUE]

\* A malformed header names no path and opens no file.
GitHeader(c, l) ==
    IF l.path = NoPath THEN [Closed(c) EXCEPT !.saw = FALSE]
    ELSE [Closed(c) EXCEPT !.files = @ + 1, !.saw = TRUE, !.inFile = TRUE]

\* "--- " and "+++ ", which is read with it.
PathHeader(c) ==
    [Closed(c) EXCEPT !.files = IF c.saw THEN @ ELSE @ + 1, !.saw = FALSE, !.inFile = TRUE, !.skip = TRUE]

HunkHeader(c, l) ==
    IF l.kind = "bad hunk" \/ ~c.inFile THEN Refused(c)
    ELSE [Closed(c) EXCEPT !.open = TRUE, !.old = l.old, !.new = l.new,
                           !.grown = @ + l.new, !.shrunk = @ + l.old]

Sign(l) ==
    CASE l.kind \in {"context", "blank"} -> " "
      [] l.kind \in {"add", "plus"} -> "+"
      [] l.kind \in {"del", "minus"} -> "-"
      [] l.kind = "marker" -> "\\"
      [] OTHER -> "none"

\* Mutant: the blank line at the end is a line too many.
HunkLineStrict(c, l) ==
    LET expecting == c.old > 0 \/ c.new > 0
        sign == Sign(l)
    IN IF ~expecting /\ sign = "none" THEN [c EXCEPT !.open = FALSE]
       ELSE IF ~expecting \/ sign = "none" THEN Refused(c)
       ELSE CASE sign = " " /\ c.old > 0 /\ c.new > 0 -> [c EXCEPT !.old = @ - 1, !.new = @ - 1]
              [] sign = "+" /\ c.new > 0 -> [c EXCEPT !.additions = @ + 1, !.new = @ - 1]
              [] sign = "-" /\ c.old > 0 -> [c EXCEPT !.deletions = @ + 1, !.old = @ - 1]
              [] sign = "\\" -> c
              [] OTHER -> Refused(c)

HunkLine(c, l) ==
    LET expecting == c.old > 0 \/ c.new > 0
        sign == Sign(l)
    IN IF ~expecting /\ (sign = "none" \/ l.kind = "blank") THEN [c EXCEPT !.open = FALSE]
       ELSE IF ~expecting \/ sign = "none" THEN Refused(c)
       ELSE CASE sign = " " /\ c.old > 0 /\ c.new > 0 -> [c EXCEPT !.old = @ - 1, !.new = @ - 1]
              [] sign = "+" /\ c.new > 0 -> [c EXCEPT !.additions = @ + 1, !.new = @ - 1]
              [] sign = "-" /\ c.old > 0 -> [c EXCEPT !.deletions = @ + 1, !.old = @ - 1]
              [] sign = "\\" -> c
              [] OTHER -> Refused(c)

CheckLine(c, l, next) ==
    IF c.over THEN c
    ELSE IF c.skip THEN [c EXCEPT !.skip = FALSE]
    ELSE IF l.kind = "git" THEN GitHeader(c, l)
    ELSE IF l.kind = "minus" /\ next.kind = "plus" THEN PathHeader(c)
    ELSE IF l.kind \in {"hunk", "bad hunk"} THEN HunkHeader(c, l)
    ELSE IF c.open THEN HunkLine(c, l) ELSE c

Accepted(c) == ~Closed(c).issues /\ c.files > 0

-----------------------------------------------------------------------------
\* parseDiffFileTabs

NewTab(l, number) ==
    [path |-> l.path, from |-> NoPath, to |-> NoPath, minus |-> NoPath, plus |-> NoPath,
     binary |-> FALSE, isNew |-> FALSE, isDeleted |-> FALSE, additions |-> 0, deletions |-> 0,
     inHunk |-> FALSE, start |-> number, end |-> number]

HeaderLine(t, l) ==
    CASE l.kind = "new file" -> [t EXCEPT !.isNew = TRUE]
      [] l.kind = "deleted file" -> [t EXCEPT !.isDeleted = TRUE]
      [] l.kind = "from" -> [t EXCEPT !.from = l.path]
      [] l.kind = "to" -> [t EXCEPT !.to = l.path]
      [] l.kind = "binary" -> [t EXCEPT !.binary = TRUE]
      [] l.kind = "minus" -> [t EXCEPT !.minus = l.path]
      [] l.kind = "plus" -> [t EXCEPT !.plus = l.path]
      [] OTHER -> t

BodyLine(t, l) ==
    CASE Sign(l) = "+" -> [t EXCEPT !.additions = @ + 1]
      [] Sign(l) = "-" -> [t EXCEPT !.deletions = @ + 1]
      [] OTHER -> t

TabLine(t, l, number) ==
    LET u == [t EXCEPT !.end = number]
    IN IF l.kind \in {"hunk", "bad hunk"} THEN [u EXCEPT !.inHunk = TRUE]
       ELSE IF u.inHunk THEN BodyLine(u, l) ELSE HeaderLine(u, l)

ReadTabs(ts, l, number) ==
    IF l.kind = "git" THEN Append(ts, NewTab(l, number))
    ELSE IF ts = <<>> THEN ts ELSE [ts EXCEPT ![Len(ts)] = TabLine(@, l, number)]

\* finalizeTab; a path that is not there is NoPath.
TabPath(t) == IF t.to # NoPath THEN t.to ELSE IF t.plus # NoPath THEN t.plus ELSE t.path

ChangeKind(t) ==
    IF t.binary THEN "binary"
    ELSE IF t.from # NoPath /\ t.to # NoPath THEN "renamed"
    ELSE IF t.isNew \/ t.minus = NoPath THEN "added"
    ELSE IF t.isDeleted \/ t.plus = NoPath THEN "deleted" ELSE "modified"

-----------------------------------------------------------------------------
\* splitIntoFileSections and parseFileSection

NewSection(l) == [path |-> l.path, minus |-> NoPath, plus |-> NoPath, binary |-> FALSE, hunks |-> 0]

SectionLine(f, l) ==
    CASE l.kind \in {"hunk", "bad hunk"} -> [f EXCEPT !.hunks = @ + 1]
      [] f.hunks > 0 -> f
      [] l.kind = "binary" -> [f EXCEPT !.binary = TRUE]
      [] l.kind = "minus" /\ f.minus = NoPath -> [f EXCEPT !.minus = l.path]
      [] l.kind = "plus" /\ f.plus = NoPath -> [f EXCEPT !.plus = l.path]
      [] OTHER -> f

ReadFiles(fs, l) ==
    CASE l.kind = "git" -> Append(fs, NewSection(l))
      [] fs = <<>> -> fs
      [] OTHER -> [fs EXCEPT ![Len(fs)] = SectionLine(@, l)]

ExtractPath(f) ==
    IF f.plus # NoPath THEN f.plus ELSE IF f.minus # NoPath THEN f.minus ELSE f.path

-----------------------------------------------------------------------------
DiffReadersInit ==
    /\ writer = [todo |-> <<>>, old |-> 0, new |-> 0, kinds |-> <<>>, whole |-> TRUE, hunks |-> 0, slips |-> 0,
                 marked |-> FALSE, last |-> FALSE, lookalike |-> FALSE, lines |-> 0]
    /\ line = Plain("start")
    /\ check = NotChecked /\ tabs = <<>> /\ files = <<>>

\* One line is read by all three, with the one after it in sight.
ReadLine ==
    /\ line # EndOfDiff
    /\ \E next \in Written(writer) :
         /\ line' = next[1]
         /\ writer' = [next[2] EXCEPT !.lines = @ + 1,
                         !.lookalike = @ \/ (check.open /\ line.kind = "minus" /\ next[1].kind = "plus")]
         /\ IF line.kind = "start" THEN UNCHANGED <<check, tabs, files>>
            ELSE /\ check' = CheckLine(check, line, next[1])
                 /\ tabs' = ReadTabs(tabs, line, writer.lines)
                 /\ files' = ReadFiles(files, line)

DiffReadersNext == ReadLine

DiffRead == line = EndOfDiff
ByGit == DiffRead /\ writer.slips = 0 /\ writer.kinds # <<>>

Total(ts, Count(_)) == MapThenSumSet(LAMBDA i : Count(ts[i]), DOMAIN ts)

-----------------------------------------------------------------------------
\* validate.spec.ts 43-90: what git writes is accepted; unless the last line of a hunk
\* is followed by "\ No newline at end of file", or a hunk removes "-- x" and then adds
\* "++ y", which read like the header of a file.
GitDiffAccepted == ByGit /\ ~writer.marked /\ ~writer.lookalike => Accepted(check)

\* A diff that is accepted has as many lines more, or fewer, as its hunks declare,
\* whatever lines are missing from it or too many.
AcceptedBalances ==
    DiffRead /\ Accepted(check) =>
        check.additions + check.shrunk = check.deletions + check.grown

\* The banner's numbers are those of the tabs, for a diff that git wrote.
StatsMatchTabs ==
    ByGit /\ Accepted(check) /\ ~writer.lookalike =>
        /\ check.files = Len(tabs)
        /\ check.additions = Total(tabs, LAMBDA t : t.additions)
        /\ check.deletions = Total(tabs, LAMBDA t : t.deletions)

\* diff-viewer.tsx 162-163: the tab and the pane of one index are about one file, for
\* every text; and they name it alike in a diff that git wrote.
TabsMatchFiles ==
    /\ Len(tabs) = Len(files)
    /\ \A i \in DOMAIN tabs :
         /\ tabs[i].binary = files[i].binary
         /\ ByGit => TabPath(tabs[i]) = ExtractPath(files[i])

\* A tab tells the change of its file, if git wrote more than a header of it.
TabTellsChange ==
    ByGit => \A i \in DOMAIN tabs :
        writer.kinds[i] \in Shown \cup {"binary"} => ChangeKind(tabs[i]) = writer.kinds[i]

\* diff-viewer.tsx 141-144: the tabs' ranges follow each other without a gap and end
\* where the diff ends, so that each line is under one tab.
TabsCoverDiff ==
    /\ \A i \in 1..(Len(tabs) - 1) : tabs[i + 1].start = tabs[i].end + 1
    /\ tabs # <<>> /\ DiffRead => tabs[Len(tabs)].end = writer.lines - 1
===============================================================================
