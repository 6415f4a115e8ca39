------------------------------- MODULE DiffViewer -----------------------------
(* The viewer over the diff of the generate page: a tab for each file, the editor of
   the whole text or the split pane of one file.  The pane's editors are made by an
   effect of its mount and outlive what the pane shows; the language they are
   coloured in is a module that is loaded meanwhile, as the code of the editor and of
   the pane is.  Theme, labels and what has the keyboard focus are left out: the user
   moves the focus as they like before any key. *)
EXTENDS Naturals, SequencesExt

CONSTANTS ViewedPaths, PlainPaths,  \* PlainPaths: with no extension the viewer knows
          MaxViewed, MaxViewerSteps

ASSUME DiffViewerAssumption ==
    PlainPaths \subseteq ViewedPaths /\ MaxViewed \in Nat /\ MaxViewerSteps \in Nat

ViewModes == {"unified", "split"}

\* A binary file has no text to show side by side, one that was only renamed has no line.
ViewedFile == [path : ViewedPaths, content : {"binary", "empty", "v1", "v2"}]
ViewedDiffs == UNION {[1..n -> ViewedFile] : n \in 0..MaxViewed}

\* files (of the diff), active, caret (the tab it was put on), mode, stored (the mode that
\* local storage has, "none", or "disabled"), code (of what is under the tabs), pane
VARIABLE viewer

\* The code of the editor and of the pane is fetched when it is first rendered; a skeleton is
\* shown until it is there.
ViewerParts == {"editor", "pane"}
NothingLoaded == [part \in ViewerParts |-> "unasked"]

\* A language is named by the path it is for; "diff" where there is none.
NoLanguage == "diff"
ExtensionToLanguageKey(path) == IF path \in PlainPaths THEN NoLanguage ELSE path
LanguageKey(f) == IF f.content = "binary" THEN NoLanguage ELSE ExtensionToLanguageKey(f.path)

NoPane == [key |-> <<>>, made |-> FALSE, attached |-> FALSE, doc |-> "empty", lacked |-> {},
           language |-> NoLanguage, loading |-> FALSE, reads |-> NoLanguage]

ActiveFile(v) == v.files[v.active]
Shows(f) == f.content \notin {"binary", "empty"}

\* Mutant: the pane is known by its tab alone.
PaneKeyOfTab(v) == <<v.active>>

PaneKey(v) == <<v.active, ActiveFile(v).path>>

\* The editors are made, in the containers that are there, when the pane is mounted.
MountedPane(v) ==
    LET f == ActiveFile(v) IN
    [NoPane EXCEPT !.key = PaneKey(v), !.made = Shows(f), !.attached = Shows(f), !.doc = f.content,
                   !.lacked = IF Shows(f) THEN {} ELSE {f.path}]

\* A pane that stays takes the new text into its editors; a placeholder in its
\* place removes their containers.
KeptPane(v) ==
    LET f == ActiveFile(v) IN
    [v.pane EXCEPT !.attached = @ /\ Shows(f), !.doc = IF v.pane.made THEN f.content ELSE @,
                   !.lacked = IF Shows(f) THEN @ ELSE @ \cup {f.path}]

\* The effect of the language key: what was being loaded is dropped, the editors that
\* were made are coloured as a diff or get the language when it is there.
Highlighted(pane, key) ==
    IF key = pane.language THEN pane
    ELSE [pane EXCEPT !.language = key, !.loading = pane.made /\ key # NoLanguage,
                      !.reads = IF key = NoLanguage THEN NoLanguage ELSE @]

\* What is under the tabs.
Showing(v) ==
    CASE v.mode = "unified" \/ v.files = <<>> -> "editor"
      [] v.active \in DOMAIN v.files -> "pane"
      [] OTHER -> "nothing"

Asked(code, part) == IF part \in ViewerParts /\ code[part] = "unasked" THEN [code EXCEPT ![part] = "asked"] ELSE code

ShownPane(v) ==
    IF Showing(v) # "pane" \/ v.code["pane"] # "there" THEN NoPane
    ELSE Highlighted(IF v.pane.key = PaneKey(v) THEN KeptPane(v) ELSE MountedPane(v), LanguageKey(ActiveFile(v)))

\* A render and its effects.  The editor of the whole text is gone, with its caret,
\* where something else is under the tabs.
Panel(v) ==
    [v EXCEPT !.code = Asked(@, Showing(v)),
              !.pane = ShownPane(v),
              !.caret = IF Showing(v) = "editor" THEN @ ELSE 0]

\* The effect that leaves a tab that is gone renders again.
Rendered(v) ==
    IF v.active > Len(v.files) /\ v.files # <<>> THEN Panel([Panel(v) EXCEPT !.active = 1]) ELSE Panel(v)

\* Local storage may be disabled, then nothing is kept and "split" is read.
ReadStoredMode(stored) == IF stored \in ViewModes THEN stored ELSE "split"
WriteStoredMode(stored, mode) == IF stored = "disabled" THEN stored ELSE mode

\* The first render is "unified", the effect of the mount reads the mode before anything
\* can be typed.
Mounted(stored, code, steps) ==
    [files |-> <<>>, active |-> 1, caret |-> 0, mode |-> ReadStoredMode(stored), stored |-> stored,
     code |-> Asked(code, "editor"), pane |-> NoPane, steps |-> steps]

ViewerInit == \E stored \in ViewModes \cup {"none", "disabled"} : viewer = Mounted(stored, NothingLoaded, 0)

ViewerStep(v) ==
    /\ viewer.steps < MaxViewerSteps
    /\ viewer' = Rendered([v EXCEPT !.steps = @ + 1])

\* The code is there: the editor tells the viewer that it is ready, the pane is mounted for
\* the tab that is active by now.
CodeLoads(part) ==
    /\ viewer.code[part] = "asked"
    /\ viewer' = Rendered([viewer EXCEPT !.code[part] = "there"])

\* The diff is typed, read from a file or the clipboard, or cleared, and parsed again.
ValueChanges(fs) == fs # viewer.files /\ ViewerStep([viewer EXCEPT !.files = fs, !.caret = 0])

\* The editor of the whole text, where it is ready, has its caret put where the file begins.
HandleSelectTab(i) ==
    ViewerStep([viewer EXCEPT !.active = i,
                              !.caret = IF viewer.mode = "unified" /\ viewer.code["editor"] = "there" THEN i ELSE @])

ClickTab == \E i \in DOMAIN viewer.files : HandleSelectTab(i)

\* The keys start from the tab that is shown as the active one.
SafeActive == IF viewer.active > Len(viewer.files) THEN Len(viewer.files) ELSE viewer.active

\* The arrows go round; Home and End.
HandleKeyDown ==
    LET n == Len(viewer.files)
    IN n > 0 /\ \E i \in {(SafeActive % n) + 1, ((SafeActive + n - 2) % n) + 1, 1, n} : HandleSelectTab(i)

SetModePersist(mode) ==
    viewer.files # <<>> /\ ViewerStep([viewer EXCEPT !.mode = mode, !.stored = WriteStoredMode(@, mode)])

\* Either arrow takes the other mode.
HandleRadioKeyDown == SetModePersist(IF viewer.mode = "unified" THEN "split" ELSE "unified")

\* The module of the language is there, or cannot be loaded.
LanguageSettles ==
    /\ viewer.pane.loading
    /\ \E reads \in {viewer.pane.language, viewer.pane.reads} :
         viewer' = [viewer EXCEPT !.pane.loading = FALSE, !.pane.reads = reads]

\* The page is left and opened again, or loaded again with its code.
ReloadViewer ==
    /\ viewer.steps < MaxViewerSteps
    /\ \E code \in {viewer.code, NothingLoaded} : viewer' = Mounted(viewer.stored, code, viewer.steps + 1)

ViewerNext ==
    \/ \E fs \in ViewedDiffs : ValueChanges(fs)
    \/ ClickTab \/ HandleKeyDown
    \/ \E mode \in ViewModes : SetModePersist(mode)
    \/ HandleRadioKeyDown
    \/ \E part \in ViewerParts : CodeLoads(part)
    \/ LanguageSettles
    \/ ReloadViewer

-----------------------------------------------------------------------------
\* diff-viewer.tsx 112-116: one of the tabs is the active one, also when a diff with
\* fewer files takes the place of another, and the caret is not put on another.
ActiveTabShown ==
    viewer.files # <<>> => viewer.active \in DOMAIN viewer.files /\ viewer.caret \in {0, viewer.active}

\* split-diff-pane.tsx 228-288: the editors on the screen have the text of the active
\* file, although they were made for another diff, and no other file's language.
PaneShowsFile ==
    viewer.pane.attached =>
        /\ viewer.pane.doc = ActiveFile(viewer).content
        /\ viewer.pane.reads \in {NoLanguage, LanguageKey(ActiveFile(viewer))}

\* split-diff-pane.tsx 163-226: a pane with a text to show has its editors, unless this
\* very file had nothing to show since the pane was opened: then the pane stays
\* blank until another tab is chosen.
PaneBlankOnlyForFile ==
    viewer.pane # NoPane /\ Shows(ActiveFile(viewer)) /\ ~viewer.pane.attached
        => ActiveFile(viewer).path \in viewer.pane.lacked

\* diff-viewer.tsx 118-121: where local storage works, the mode that was chosen last is the
\* one a later visit has.
ModeOutlivesVisit ==
    [][viewer.files # <<>> /\ viewer'.files = <<>> /\ viewer.stored # "disabled"
          => viewer'.mode = viewer.mode]_viewer

-------------------------------------------------------------------------------
(* The two sides of a file in the split view: the documents that are built from its
   hunks line by line, and the scrolling of one pane after the other.  A line is
   its number. *)

CONSTANTS MaxSplitLines, MaxScrolls,
          PaneEnds  \* how far each pane scrolls; long lines wrap, so one may be taller

ASSUME SplitDocsAssumption ==
    /\ MaxSplitLines \in Nat /\ MaxScrolls \in Nat
    /\ PaneEnds \subseteq Nat /\ PaneEnds # {}

Sides == {"left", "right"}
Across(side) == IF side = "left" THEN "right" ELSE "left"

VARIABLES split,  \* left, right, and the removed and added lines not yet put side by side
          signs,  \* the lines read, by what begins them: a hunk's "header", "-", "+" or neither
          panes   \* what each side is scrolled to, and the scroll events still to come

splitVars == <<split, signs, panes>>

LineSigns == {"header", "del", "add", "context"}

Row(signal, n) == [signal |-> signal, line |-> n]
Padding == Row("empty", 0)

\* flush
Flushed(s) ==
    LET n == IF Len(s.dels) > Len(s.adds) THEN Len(s.dels) ELSE Len(s.adds)
    IN [s EXCEPT !.left = @ \o [i \in 1..n |-> IF i \in DOMAIN s.dels THEN Row("del", s.dels[i]) ELSE Padding],
                 !.right = @ \o [i \in 1..n |-> IF i \in DOMAIN s.adds THEN Row("add", s.adds[i]) ELSE Padding],
                 !.dels = <<>>, !.adds = <<>>]

BothSides(s, signal, n) == [s EXCEPT !.left = Append(@, Row(signal, n)), !.right = Append(@, Row(signal, n))]

SplitLine(s, sign, n) ==
    CASE sign = "del" -> [s EXCEPT !.dels = Append(@, n)]
      [] sign = "add" -> [s EXCEPT !.adds = Append(@, n)]
      [] OTHER -> BothSides(Flushed(s), sign, n)

SplitDocsInit ==
    /\ split = [left |-> <<>>, right |-> <<>>, dels |-> <<>>, adds |-> <<>>, built |-> FALSE]
    /\ signs = <<>>
    /\ \E ends \in [Sides -> PaneEnds] :
         panes = [at |-> [s \in Sides |-> 0], ends |-> ends, events |-> <<>>, scrolls |-> 0]

ReadSplitLine(sign) ==
    /\ ~split.built /\ Len(signs) < MaxSplitLines /\ (signs = <<>> => sign = "header")
    /\ signs' = Append(signs, sign)
    /\ split' = SplitLine(split, sign, Len(signs) + 1)
    /\ UNCHANGED panes

DocsBuilt ==
    /\ ~split.built
    /\ split' = [Flushed(split) EXCEPT !.built = TRUE]
    /\ UNCHANGED <<signs, panes>>

-----------------------------------------------------------------------------
\* The browser tells a pane's new position by an event, later and once.  Long lines wrap, so
\* there is no position across.
Moved(p, side, y) ==
    IF p.at[side] = y THEN p
    ELSE [p EXCEPT !.at[side] = y,
                   !.events = IF \E i \in DOMAIN @ : @[i] = side THEN @ ELSE Append(@, side)]

UserScrolls(side, y) ==
    /\ split.built /\ signs # <<>> /\ panes.scrolls < MaxScrolls
    /\ panes' = [Moved(panes, side, y) EXCEPT !.scrolls = @ + 1]
    /\ UNCHANGED <<split, signs>>

\* sync: the other pane goes as far as it can.  The lock is let go by a microtask, so
\* no event that comes later finds it.
Follow(p, side) ==
    LET dst == Across(side)
        y == p.at[side]
    IN Moved(p, dst, IF y > p.ends[dst] THEN p.ends[dst] ELSE y)

ScrollEvent ==
    /\ panes.events # <<>>
    /\ panes' = Follow([panes EXCEPT !.events = Tail(@)], Head(panes.events))
    /\ UNCHANGED <<split, signs>>

SplitDocsNext ==
    \/ \E sign \in LineSigns : ReadSplitLine(sign)
    \/ DocsBuilt
    \/ \E side \in Sides : \E y \in 0..panes.ends[side] : UserScrolls(side, y)
    \/ ScrollEvent

-----------------------------------------------------------------------------
LinesIn(rows) == {rows[i].line : i \in DOMAIN rows} \ {0}
LinesWithout(sign) == {i \in DOMAIN signs : signs[i] # sign}
InOrder(rows) ==
    \A i, j \in DOMAIN rows : i < j /\ rows[i].line # 0 /\ rows[j].line # 0 => rows[i].line < rows[j].line

\* split-view.ts 26-86: the left side is the old text and the right side the new one,
\* each line once and in its order.
SidesTellTexts ==
    split.built =>
        /\ LinesIn(split.left) = LinesWithout("add") /\ InOrder(split.left)
        /\ LinesIn(split.right) = LinesWithout("del") /\ InOrder(split.right)

\* A line that both sides have is in the same row of both.
SidesAreLevel ==
    /\ Len(split.left) = Len(split.right)
    /\ \A i \in DOMAIN split.left :
         split.left[i].signal \in {"context", "header"} => split.right[i] = split.left[i]

\* syncScroll: when no event is to come the panes are at the same height, or one of
\* them is at its end.
PanesSettle ==
    panes.events = <<>> =>
        \E s \in Sides :
          /\ panes.at[s] <= panes.at[Across(s)]
          /\ panes.at[s] = panes.at[Across(s)] \/ panes.at[s] = panes.ends[s]
===============================================================================
