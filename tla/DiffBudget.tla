------------------------------- MODULE DiffBudget -----------------------------
(* parseAndStripDiff: what is left out of a diff until it fits the prompt.  The CLI
   renders what is left and the server reads that again.  A line is one token. *)
EXTENDS Naturals, SequencesExt

CONSTANTS MaxStripped,   \* files of a diff
          MaxFileHunks,  \* hunks of a file
          TokenBudget

ASSUME DiffBudgetAssumption == MaxStripped \in Nat /\ MaxFileHunks \in Nat /\ TokenBudget \in Nat

VARIABLES stripped,  \* the files, as a sequence
          before,    \* their tokens when the first one is dropped
          stripping  \* where parseAndStripDiff is, and whether it left something out

budgetVars == <<stripped, before, stripping>>

\* A file has the lines of its header and those of each hunk.
ParsedFiles ==
    [header : {1, 2}, hunks : UNION {[1..n -> {1}] : n \in 0..MaxFileHunks} \cup {<<3>>},
     skipped : {0}, binary : BOOLEAN, omitted : {FALSE}]

\* renderFile, as the kinds of its lines
HunkText(h) == <<"@@">> \o [i \in 1..h |-> "line"]

Render(f) ==
    LET header == <<"diff">> \o [i \in 1..(f.header - 1) |-> IF f.binary THEN "binary" ELSE "header"]
        first == HunkText(f.hunks[1])
        last == HunkText(f.hunks[Len(f.hunks)])
    IN IF f.omitted THEN <<"file omitted">>
       ELSE IF f.binary THEN header
       ELSE IF f.skipped > 0 THEN header \o first \o <<"hunks omitted">> \o last
       ELSE header \o FlattenSeq([i \in DOMAIN f.hunks |-> HunkText(f.hunks[i])])

RenderFiles(fs) == FlattenSeq([i \in DOMAIN fs |-> Render(fs[i])])

CountTokens(fs) == Len(RenderFiles(fs))

DropMiddleHunks(f) ==
    IF f.binary \/ Len(f.hunks) <= 2 THEN f
    ELSE [f EXCEPT !.skipped = Len(f.hunks) - 2, !.hunks = <<f.hunks[1], f.hunks[Len(f.hunks)]>>]

Candidates(fs) == {i \in DOMAIN fs : ~fs[i].omitted}

\* The first of the smallest.
SmallestFile(fs) ==
    LET size(i) == Len(Render(fs[i]))
    IN CHOOSE i \in Candidates(fs) : \A j \in Candidates(fs) : size(i) < size(j) \/ (size(i) = size(j) /\ i <= j)

DropFile(f) == [f EXCEPT !.omitted = TRUE, !.hunks = <<>>, !.header = 0]

-----------------------------------------------------------------------------
DiffBudgetInit ==
    /\ stripped \in UNION {[1..n -> ParsedFiles] : n \in 0..MaxStripped}
    /\ before = <<>>
    /\ stripping = [at |-> "parsed", truncated |-> FALSE]

OverBudget == CountTokens(stripped) > TokenBudget

StripHunks ==
    /\ stripping.at = "parsed"
    /\ stripped' = IF OverBudget THEN [i \in DOMAIN stripped |-> DropMiddleHunks(stripped[i])] ELSE stripped
    /\ stripping' = [at |-> "files", truncated |-> stripped' # stripped]
    /\ before' = [i \in DOMAIN stripped |-> Len(Render(stripped'[i]))]

\* One turn of the loop
StripFile ==
    /\ stripping.at = "files" /\ OverBudget /\ Candidates(stripped) # {}
    /\ stripped' = [stripped EXCEPT ![SmallestFile(stripped)] = DropFile(@)]
    /\ stripping' = [stripping EXCEPT !.truncated = TRUE]
    /\ UNCHANGED before

StripEnds ==
    /\ stripping.at = "files" /\ ~(OverBudget /\ Candidates(stripped) # {})
    /\ stripping' = [stripping EXCEPT !.at = "end"]
    /\ UNCHANGED <<stripped, before>>

DiffBudgetNext == StripHunks \/ StripFile \/ StripEnds

-----------------------------------------------------------------------------
\* What the server makes of the rendering: parseFileSection, line by line.
ReadAgain(fs, kind) ==
    LET f == fs[Len(fs)]
        n == Len(f.hunks)
        g == IF kind = "@@" THEN [f EXCEPT !.hunks = Append(@, 0)]
             ELSE IF n > 0 THEN [f EXCEPT !.hunks[n] = @ + 1]
             ELSE [f EXCEPT !.header = @ + 1, !.binary = @ \/ kind = "binary"]
    IN IF kind = "diff"
       THEN Append(fs, [header |-> 1, hunks |-> <<>>, skipped |-> 0, binary |-> FALSE, omitted |-> FALSE])
       ELSE IF fs = <<>> THEN fs
       ELSE [fs EXCEPT ![Len(fs)] = g]

ParsedAgain == FoldLeft(ReadAgain, <<>>, RenderFiles(stripped))

\* index.ts 386-392: what is returned fits the budget, unless nothing but the names
\* of the files is left.
FitsBudget == stripping.at = "end" => ~OverBudget \/ Candidates(stripped) = {}

\* index.ts 206-221: no file is left out before one that was smaller.
SmallestGoFirst ==
    \A i, j \in DOMAIN before : stripped[i].omitted /\ ~stripped[j].omitted => before[i] <= before[j]

\* The diff that the CLI sends comes back on the server: each file that was kept, with
\* as many hunks, and nothing is left out of it a second time.
KeptFilesComeBack ==
    stripping.at = "end" =>
        LET kept == SelectSeq(stripped, LAMBDA f : ~f.omitted)
        IN /\ Len(ParsedAgain) = Len(kept)
           /\ \A i \in DOMAIN kept :
                /\ ParsedAgain[i].binary => kept[i].binary
                /\ Len(ParsedAgain[i].hunks) = IF kept[i].binary THEN 0 ELSE Len(kept[i].hunks)
           /\ ~OverBudget => CountTokens(ParsedAgain) <= TokenBudget
===============================================================================
