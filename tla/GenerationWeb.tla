---------------------------- MODULE GenerationWeb ----------------------------
(* The generate page's stream (useGenerateStream in
   apps/web/src/features/generation/hooks.ts) and the proxy route between it and
   the API.  page is the React state with abortRef (cur); ws[g] is the n-th run
   of start(), which posts call g.  Every setState of a run is applied to the
   page's one state, whichever run is the latest; page.tainted remembers that an
   older run had not ended when the latest one began (no guard reads it).  Error
   codes and messages are left out. *)
EXTENDS GenerationServer

NoCall == 0

VARIABLES page, ws

Blank == [status |-> "idle", shown |-> <<>>, done |-> "none",
          cur |-> NoCall, mounted |-> TRUE, tainted |-> FALSE]
NewRun == [at |-> "unused", aborted |-> FALSE]

WebInit == page = Blank /\ ws = [g \in Calls |-> NewRun]

Streaming == page.status = "streaming"
Runs(c) == ws[c].at \notin {"unused", "over"}

\* Aborting a run closes its connection, through the proxy, to the API.
AbortOf(c) ==
    /\ ws' = IF c = NoCall THEN ws ELSE [ws EXCEPT ![c].aborted = TRUE]
    /\ wire' = IF c = NoCall THEN wire ELSE [wire EXCEPT ![c] = Hangup(c)]

\* Mutant: start() keeps the suggestions of the run before.
StartKeepsShown(g) ==
    /\ page.mounted /\ ~Streaming
    /\ ws[g].at = "unused" /\ \A c \in 1 .. g - 1 : ws[c].at # "unused"
    /\ page' = [page EXCEPT !.status = "streaming", !.done = "none", !.cur = g,
                            !.tainted = \E c \in Calls : Runs(c)]
    /\ ws' = [c \in Calls |-> CASE c = g -> [ws[c] EXCEPT !.at = "token"]
                                [] c = page.cur -> [ws[c] EXCEPT !.aborted = TRUE]
                                [] OTHER -> ws[c]]
    /\ wire' = IF page.cur = NoCall THEN wire
               ELSE [wire EXCEPT ![page.cur] = Hangup(page.cur)]
    /\ UNCHANGED srv

\* start(): the button is disabled while the page is streaming, not while an
\* older run is still being read.
Start(g) ==
    /\ page.mounted /\ ~Streaming
    /\ ws[g].at = "unused" /\ \A c \in 1 .. g - 1 : ws[c].at # "unused"
    /\ page' = [page EXCEPT !.status = "streaming", !.shown = <<>>,
                            !.done = "none", !.cur = g,
                            !.tainted = \E c \in Calls : Runs(c)]
    /\ ws' = [c \in Calls |-> CASE c = g -> [ws[c] EXCEPT !.at = "token"]
                                [] c = page.cur -> [ws[c] EXCEPT !.aborted = TRUE]
                                [] OTHER -> ws[c]]
    /\ wire' = IF page.cur = NoCall THEN wire
               ELSE [wire EXCEPT ![page.cur] = Hangup(page.cur)]
    /\ UNCHANGED srv

\* The token is there: the request goes to the proxy, unless it is aborted.
\* The proxy refuses a foreign origin, fails to reach the API, or forwards.
Post(g) ==
    /\ ws[g].at = "token"
    /\ ws' = [ws EXCEPT ![g].at = "fetch"]
    /\ IF ws[g].aborted THEN UNCHANGED wire
       ELSE \/ wire' = [wire EXCEPT ![g].sent = TRUE]
            \/ \E code \in {403, 502} :
                 wire' = [wire EXCEPT ![g] = [@ EXCEPT !.status = code, !.end = "ended"]]
    /\ UNCHANGED <<page, srv>>

\* A run's last setState, and its finally block.
Ends(g, status) ==
    /\ page' = IF page.mounted
               THEN [page EXCEPT !.status = status,
                                 !.cur = IF @ = g /\ ws[g].at = "read" THEN NoCall ELSE @]
               ELSE page
    /\ ws' = [ws EXCEPT ![g].at = "over"]
    /\ wire' = [wire EXCEPT ![g] = Hangup(g)]
    /\ UNCHANGED srv

\* fetch or read rejects because of the run's own abort.
Aborted(g) ==
    /\ ws[g].at \in {"fetch", "read"}
    /\ ws[g].aborted
    /\ Ends(g, "cancelled")

\* The page cannot reach the proxy, or the connection breaks before the head.
FetchRejects(g) ==
    /\ ws[g].at = "fetch" /\ ~ws[g].aborted
    /\ Ends(g, "error")

Head200(g) ==
    /\ ws[g].at = "fetch" /\ ~ws[g].aborted
    /\ wire[g].status # 0
    /\ ws' = [ws EXCEPT ![g].at = IF wire[g].status = 200 THEN "read" ELSE "text"]
    /\ UNCHANGED <<page, serverVars>>

\* The error envelope; a body that cannot be read counts as an empty one.
ErrorText(g) ==
    /\ ws[g].at = "text"
    /\ Ends(g, "error")

\* mergeSuggestion: the latest frame of an index replaces the one before it.
Merge(shown, g, index) ==
    IF \E k \in DOMAIN shown : shown[k].index = index
    THEN [k \in DOMAIN shown |-> IF shown[k].index = index
                                 THEN [call |-> g, index |-> index] ELSE shown[k]]
    ELSE Append(shown, [call |-> g, index |-> index])

ApplyFrame(g, f) ==
    CASE f.kind = "suggestion" -> [page EXCEPT !.shown = Merge(@, g, f.index)]
      [] f.kind = "done" ->
           [page EXCEPT !.status = IF Streaming THEN "done" ELSE @,
                        !.done = IF f.stored THEN "stored" ELSE "not stored"]
      [] OTHER -> [page EXCEPT !.status = "error"]

ReadFrame(g) ==
    /\ ws[g].at = "read" /\ ~ws[g].aborted
    /\ wire[g].frames # <<>>
    /\ page' = IF page.mounted THEN ApplyFrame(g, Head(wire[g].frames)) ELSE page
    /\ wire' = [wire EXCEPT ![g].frames = Tail(@)]
    /\ UNCHANGED <<srv, ws>>

ReadEnds(g) ==
    /\ ws[g].at = "read" /\ ~ws[g].aborted
    /\ wire[g].frames = <<>> /\ wire[g].end = "ended"
    /\ Ends(g, IF Streaming THEN "done" ELSE page.status)

ReadBreaks(g) ==
    /\ ws[g].at = "read" /\ ~ws[g].aborted
    /\ wire[g].frames = <<>> /\ wire[g].end = "reset"
    /\ Ends(g, "error")

\* The Cancel button is there while the page is streaming.
Cancel ==
    /\ page.mounted /\ Streaming
    /\ AbortOf(page.cur)
    /\ page' = [page EXCEPT !.cur = NoCall]
    /\ UNCHANGED srv

\* Navigation away runs the effect's clean-up.
Unmount ==
    /\ page.mounted
    /\ AbortOf(page.cur)
    /\ page' = [page EXCEPT !.cur = NoCall, !.mounted = FALSE]
    /\ UNCHANGED srv

RunStep(g) ==
    \/ Post(g) \/ Aborted(g) \/ FetchRejects(g) \/ Head200(g) \/ ErrorText(g)
    \/ ReadFrame(g) \/ ReadEnds(g) \/ ReadBreaks(g)

WebTypeOK ==
    /\ page \in [status : {"idle", "streaming", "done", "cancelled", "error"},
                 shown : Seq([call : Calls, index : 0 .. Count - 1]),
                 done : {"none", "stored", "not stored"},
                 cur : Calls \cup {NoCall}, mounted : BOOLEAN, tainted : BOOLEAN]
    /\ ws \in [Calls -> [at : {"unused", "token", "fetch", "text", "read", "over"},
                         aborted : BOOLEAN]]

=============================================================================
