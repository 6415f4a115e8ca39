-------------------------- MODULE GenerationProofs --------------------------
(***************************************************************************)
(* The safety properties of the run Generation, for every number of calls, *)
(* suggestions and provider results.  The inductive invariant has one part *)
(* per component: what holds of a handler and its connection (CallInv), of *)
(* the page and its runs (WebInv), of the CLI (CliInv), of a command       *)
(* (CommandInv).  The server's steps are treated one call at a time, and   *)
(* what a client may do to a connection is ClientTouches.                  *)
(***************************************************************************)
EXTENDS Generation, TLAPS

-----------------------------------------------------------------------------
\* The inductive invariant

\* A handler: its goal is set with the row that is to be written, and an abort
\* means that the client has left.
HandlerInv(s, w) ==
  /\ s.at \notin {"persist", "ended"} => s.goal = "none"
  /\ s.at = "persist" => s.goal # "none"
  /\ s.at = "usage" \/ s.goal = "completed" => s.collected > 0
  /\ s.goal = "cancelled" => s.aborted
  /\ s.aborted => s.closed
  /\ s.closed => w.gone
  /\ s.at # "idle" => w.sent

\* A row is written when the handler ends, with its goal.
RowInv(s) ==
  /\ s.rows = <<>> \/ (s.at = "ended" /\ s.goal # "none" /\ s.rows = <<s.goal>>)
  /\ \A e \in s.published : s.rows = <<e>>

\* A frame that is no suggestion is the last thing a handler writes.
FrameInv(s, w) ==
  \A k \in 1 .. Len(w.frames) :
    /\ w.frames[k].kind # "suggestion" => s.at = "ended" /\ k = Len(w.frames) /\ w.end # "open"
    /\ w.frames[k].kind = "done" => s.goal = "completed"
    /\ w.frames[k] = DoneFrame(TRUE) => s.rows = <<"completed">>

CallInv(s, w) == HandlerInv(s, w) /\ RowInv(s) /\ FrameInv(s, w)

\* The runs of start() begin in order, and only the latest may still be read.
RunsInv ==
  /\ \A c, d \in Calls : ws[c].at # "unused" /\ d < c => ws[d].at # "unused"
  /\ \A c, d \in Calls : page.cur = c /\ d > c => ws[d].at = "unused"
  /\ \A c \in Calls : page.cur = c => ws[c].at # "unused" /\ page.mounted
  /\ \A c \in Calls : Web!Runs(c) /\ ~ws[c].aborted => page.cur = c
  /\ \A c \in Calls : ws[c].at = "unused" => ~ws[c].aborted
  /\ ~page.tainted => \A c, d \in Calls : Web!Runs(c) /\ d > c => ws[d].at = "unused"

\* A run and its call: nothing is sent before the token is there, and what is
\* answered has been sent.
SentInv ==
  \A c \in Calls :
    /\ ws[c].at # "unused" => client = "web"
    /\ client = "web" /\ ws[c].at \in {"unused", "token"} => wire[c] = NoWire
    /\ ws[c].at = "read" => wire[c].status = 200
    /\ ws[c].at # "unused" /\ wire[c].sent /\ wire[c].end = "ended" => srv[c].at = "ended"
    /\ ws[c].at # "unused" /\ srv[c].at \in {"idle", "key"} => wire[c].status # 200

\* What is left of a complete response ends with a frame that is no suggestion;
\* once that is read, the page is not streaming or knows the done frame.
RestInv ==
  \A c \in Calls :
    Web!Runs(c) /\ ~ws[c].aborted /\ wire[c].status = 200 /\ wire[c].end = "ended" =>
      IF wire[c].frames = <<>>
      THEN ws[c].at = "read" /\ (page.status # "streaming" \/ page.done # "none")
      ELSE wire[c].frames[Len(wire[c].frames)].kind # "suggestion"

WebInv == RunsInv /\ SentInv /\ RestInv /\ EndingShown /\ OneRunShown /\ CancelledIsMeant

\* Nothing of an answer is known before it is read; a frame that ended the
\* stream stands for what the handler did.
AnswerInv ==
  /\ cli.at \notin {"read", "pick", "copy", "commit", "finish", "exit"} =>
       ~cli.done /\ cli.received = 0 /\ cli.begun = {}
  /\ cli.done => srv[Cli!Now].goal = "completed"
  /\ cli.at \in {"pick", "copy", "commit", "finish"} \/ cli.exit = 0 => cli.done
  /\ cli.at # "exit" => cli.exit = 999

\* After --commit the process gets to its end only by a commit, or when Ctrl-C
\* killed git.
CommittedInv ==
  (cli.at = "finish" \/ cli.exit = 0) /\ WithCommit /\ cli.sigintAt # "commit" => cli.committed

\* Ctrl-C while the CLI waits keeps it waiting or ends it with 130.
InterruptInv ==
  /\ cli.sigintAt # "none" <=> cli.interrupted
  /\ cli.sigintAt \in {"connect", "backoff", "fetch", "read"} =>
       \/ cli.at \in {"connect", "backoff", "fetch", "read"}
       \/ cli.at = "exit" /\ (cli.idle \/ cli.exit = 130)

CliInv == AnswerInv /\ RetriesAreClean /\ CommittedInv /\ InterruptInv

\* A command answers with the run it has chosen, which complies best.
CommandInv ==
  /\ cmd.at = "second" => cmd.chosen = cmd.first /\ cmd.chosen.n > 0 /\ cmd.goal = "none"
  /\ cmd.at \in {"start", "first"} => cmd.goal = "none"
  /\ cmd.at = "persist" => cmd.goal # "none"
  /\ cmd.goal = "completed" => cmd.chosen.n > 0 /\ cmd.chosen.ok >= cmd.first.ok
  /\ cmd.at # "over" => cmd.rows = <<>> /\ cmd.published = {} /\ cmd.answer = "none"
  /\ cmd.answer \in {"stored", "not stored"} => cmd.goal = "completed"
  /\ Len(cmd.rows) <= 1
  /\ \A e \in cmd.published : cmd.rows = <<e>>

Inv ==
  /\ TypeOK
  /\ \A g \in Calls : CallInv(srv[g], wire[g])
  /\ WebInv /\ CliInv /\ CommandInv

-----------------------------------------------------------------------------
\* Frames and connections

\* What the API writes to a connection keeps its type.
LEMMA FrameTypes ==
  /\ ErrorFrame \in Frames /\ ErrorFrame.kind = "error"
  /\ \A b \in BOOLEAN : DoneFrame(b) \in Frames /\ DoneFrame(b).kind = "done"
  /\ \A i \in 0 .. Count - 1 : Suggestion(i) \in Frames /\ Suggestion(i).kind = "suggestion"
  /\ NewHandler \in Handlers /\ NoWire \in Wires
<1>1. /\ ErrorFrame \in Frames /\ ErrorFrame.kind = "error"
      /\ \A b \in BOOLEAN : DoneFrame(b) \in Frames /\ DoneFrame(b).kind = "done"
      /\ \A i \in 0 .. Count - 1 : Suggestion(i) \in Frames /\ Suggestion(i).kind = "suggestion"
  BY DEF Frames, ErrorFrame, DoneFrame, Suggestion
<1>2. NewHandler \in Handlers
  BY CountAssumption DEF NewHandler, Handlers, RowStatus
<1>3. NoWire \in Wires
  BY DEF NoWire, Wires
<1> QED BY <1>1, <1>2, <1>3

\* A client's touch of a connection: it sends, closes or reads, or the proxy answers in
\* the API's place; the handler's part of the invariant does not notice.
ClientTouches(w, v) ==
  /\ (w.gone => v.gone) /\ (w.sent => v.sent)
  /\ v.frames = w.frames \/ v.frames = <<>> \/ (w.frames # <<>> /\ v.frames = Tail(w.frames))
  /\ v.end = w.end \/ v.end = "ended"

\* What a client does to a connection leaves what the server says of its call true.
LEMMA TouchKeepsCall ==
  ASSUME NEW s \in Handlers, NEW w \in Wires, NEW v \in Wires,
         CallInv(s, w), ClientTouches(w, v)
  PROVE  CallInv(s, v)
<1>1. HandlerInv(s, v)
  BY DEF CallInv, HandlerInv, ClientTouches, Wires
<1>2. FrameInv(s, v)
  <2>1. w.frames \in Seq(Frames) /\ v.frames \in Seq(Frames)
    BY DEF Wires
  <2>2. CASE v.frames = w.frames
    BY <2>2 DEF CallInv, FrameInv, ClientTouches
  <2>3. CASE v.frames = <<>>
    BY <2>3 DEF FrameInv
  <2>4. CASE w.frames # <<>> /\ v.frames = Tail(w.frames)
    <3>1. /\ Len(w.frames) \in Nat \ {0} /\ Len(v.frames) = Len(w.frames) - 1
          /\ \A k \in 1 .. Len(v.frames) : v.frames[k] = w.frames[k + 1]
      BY <2>1, <2>4
    <3>2. ASSUME NEW k \in 1 .. Len(v.frames)
          PROVE  /\ v.frames[k].kind # "suggestion" =>
                       s.at = "ended" /\ k = Len(v.frames) /\ v.end # "open"
                 /\ v.frames[k].kind = "done" => s.goal = "completed"
                 /\ v.frames[k] = DoneFrame(TRUE) => s.rows = <<"completed">>
      <4>1. k + 1 \in 1 .. Len(w.frames) /\ v.frames[k] = w.frames[k + 1]
        BY <3>1
      <4>2. /\ w.frames[k + 1].kind # "suggestion" =>
                 s.at = "ended" /\ k + 1 = Len(w.frames) /\ w.end # "open"
            /\ w.frames[k + 1].kind = "done" => s.goal = "completed"
            /\ w.frames[k + 1] = DoneFrame(TRUE) => s.rows = <<"completed">>
        BY <4>1 DEF CallInv, FrameInv
      <4>3. w.end # "open" => v.end # "open"
        BY DEF ClientTouches
      <4>4. k + 1 = Len(w.frames) => k = Len(v.frames)
        BY <3>1
      <4> QED BY <4>1, <4>2, <4>3, <4>4
    <3> QED BY <3>2 DEF FrameInv
  <2> QED BY <2>2, <2>3, <2>4 DEF ClientTouches
<1> QED BY <1>1, <1>2 DEF CallInv

\* Writing one more frame: suggestions before the end, or the last frame.
LEMMA AppendKeepsFrames ==
  ASSUME NEW w \in Wires, NEW v \in Wires, NEW s \in Handlers, NEW t \in Handlers, NEW f \in Frames,
         s.at # "ended", FrameInv(s, w), v.frames = Append(w.frames, f),
         f.kind = "suggestion" \/ (t.at = "ended" /\ v.end # "open"),
         f.kind = "done" => t.goal = "completed",
         f = DoneFrame(TRUE) => t.rows = <<"completed">>
  PROVE  FrameInv(t, v)
<1>1. /\ Len(w.frames) \in Nat /\ Len(v.frames) = Len(w.frames) + 1
      /\ \A k \in 1 .. Len(w.frames) : v.frames[k] = w.frames[k]
      /\ v.frames[Len(w.frames) + 1] = f
  BY DEF Wires
<1>2. \A k \in 1 .. Len(w.frames) :
        /\ w.frames[k].kind = "suggestion"
        /\ w.frames[k].kind # "done" /\ w.frames[k] # DoneFrame(TRUE)
  BY DEF FrameInv, DoneFrame
<1>3. ASSUME NEW k \in 1 .. Len(v.frames)
      PROVE  /\ v.frames[k].kind # "suggestion" => t.at = "ended" /\ k = Len(v.frames) /\ v.end # "open"
             /\ v.frames[k].kind = "done" => t.goal = "completed"
             /\ v.frames[k] = DoneFrame(TRUE) => t.rows = <<"completed">>
  <2>1. CASE k \in 1 .. Len(w.frames)
    BY <1>1, <1>2, <2>1
  <2>2. CASE k = Len(w.frames) + 1
    <3>1. v.frames[k] = f /\ k = Len(v.frames)
      BY <1>1, <2>2
    <3> QED BY <3>1
  <2>3. k \in 1 .. Len(w.frames) \/ k = Len(w.frames) + 1
    BY <1>1
  <2> QED BY <2>1, <2>2, <2>3
<1> QED BY <1>3 DEF FrameInv

\* A step that writes nothing, before the end.
LEMMA SameFrames ==
  ASSUME NEW w \in Wires, NEW v \in Wires, NEW s \in Handlers, NEW t \in Handlers,
         s.at # "ended", FrameInv(s, w), v.frames = w.frames
  PROVE  FrameInv(t, v)
<1>1. \A k \in 1 .. Len(w.frames) :
        /\ w.frames[k].kind = "suggestion"
        /\ w.frames[k].kind # "done" /\ w.frames[k] # DoneFrame(TRUE)
  BY DEF FrameInv, DoneFrame
<1> QED BY <1>1 DEF FrameInv

-----------------------------------------------------------------------------
\* The handler's steps

\* A step of a handler, or a fault it meets, as its client and the other calls see it.
Follows(s, w, t, v) ==
  /\ w.sent /\ v.sent
  /\ s.goal # "none" => t.goal = s.goal
  /\ s.aborted /\ s.goal = "none" => t.goal \in {"none", "cancelled"}
  /\ s.rows = <<"completed">> => t.rows = s.rows
  /\ s.at = "ended" => t = s /\ v.frames = w.frames /\ (v.end = "ended" => w.end = "ended")
  /\ t.at \in {"idle", "key"} => s.at \in {"idle", "key"} /\ v.status = w.status
  /\ s.at \notin {"idle", "key"} => v.status = w.status
  /\ v.end = "ended" /\ w.end # "ended" =>
       /\ t.at = "ended"
       /\ v.status = 200 => v.frames # <<>> /\ v.frames[Len(v.frames)].kind # "suggestion"

ServerMoves(g) ==
  /\ ServerTypeOK'
  /\ \A h \in Calls \ {g} : srv'[h] = srv[h] /\ wire'[h] = wire[h]
  /\ CallInv(srv'[g], wire'[g])
  /\ Follows(srv[g], wire[g], srv'[g], wire'[g])

\* A step that replaces one call's records is judged by the two records.
LEMMA MovesByRecords ==
  ASSUME ServerTypeOK, NEW g \in Calls, NEW t \in Handlers, NEW v \in Wires,
         srv' = [srv EXCEPT ![g] = t], wire' = [wire EXCEPT ![g] = v],
         CallInv(t, v), Follows(srv[g], wire[g], t, v)
  PROVE  ServerMoves(g)
<1>1. srv'[g] = t /\ wire'[g] = v
  BY DEF ServerTypeOK
<1>2. ServerTypeOK' /\ \A h \in Calls \ {g} : srv'[h] = srv[h] /\ wire'[h] = wire[h]
  BY DEF ServerTypeOK
<1> QED BY <1>1, <1>2 DEF ServerMoves

\* An answer before the stream has begun.
LEMMA AnswerMoves ==
  ASSUME ServerTypeOK, NEW g \in Calls, CallInv(srv[g], wire[g]),
         srv[g].at \in {"idle", "key"}, wire[g].sent,
         NEW code \in Nat \ {200}, Answer(g, code)
  PROVE  ServerMoves(g)
<1> DEFINE s == srv[g]
           w == wire[g]
           t == [s EXCEPT !.at = "ended"]
           v == IF Reaches(g) THEN [w EXCEPT !.status = code, !.end = "ended"] ELSE w
<1>1. s \in Handlers /\ w \in Wires
  BY DEF ServerTypeOK
<1>2. t \in Handlers /\ v \in Wires
  BY <1>1 DEF Handlers, Wires
<1>3. srv' = [srv EXCEPT ![g] = t] /\ wire' = [wire EXCEPT ![g] = v]
  BY DEF Answer, ServerTypeOK
<1>4. /\ t.goal = s.goal /\ t.collected = s.collected /\ t.rows = s.rows /\ t.at = "ended"
      /\ t.published = s.published /\ t.aborted = s.aborted /\ t.closed = s.closed
      /\ v.gone = w.gone /\ v.sent = w.sent /\ v.frames = w.frames
      /\ v.end # w.end => v.end = "ended" /\ v.status = code
      /\ v.status = w.status \/ v.status = code
  BY <1>1 DEF Handlers, Wires
<1>5. CallInv(t, v)
  <2>1. HandlerInv(t, v) /\ RowInv(t)
    BY <1>1, <1>4 DEF CallInv, HandlerInv, RowInv, Handlers
  <2>2. FrameInv(t, v)
    <3>1. s.at # "ended" /\ FrameInv(s, w)
      BY DEF CallInv
    <3> HIDE DEF s, w, t, v
    <3> QED BY <1>1, <1>2, <1>4, <3>1, SameFrames
  <2> QED BY <2>1, <2>2 DEF CallInv
<1>6. Follows(s, w, t, v)
  BY <1>4 DEF CallInv, HandlerInv, Follows
<1> HIDE DEF s, w, t, v
<1> QED BY <1>2, <1>3, <1>5, <1>6, MovesByRecords DEF s, w

\* Steps that write nothing to the client.
LEMMA QuietMoves ==
  ASSUME ServerTypeOK, NEW g \in Calls, CallInv(srv[g], wire[g]), NEW t \in Handlers,
         srv' = [srv EXCEPT ![g] = t], wire' = wire,
         wire[g].sent, srv[g].at # "ended",
         HandlerInv(t, wire[g]), RowInv(t),
         srv[g].goal # "none" => t.goal = srv[g].goal,
         srv[g].aborted /\ srv[g].goal = "none" => t.goal \in {"none", "cancelled"},
         t.at \in {"idle", "key"} => srv[g].at \in {"idle", "key"}
  PROVE  ServerMoves(g)
<1> DEFINE w == wire[g]
<1>1. srv[g] \in Handlers /\ w \in Wires /\ wire' = [wire EXCEPT ![g] = w]
  BY DEF ServerTypeOK
<1>2. FrameInv(t, w)
  BY <1>1, SameFrames DEF CallInv
<1>3. CallInv(t, w)
  BY <1>2 DEF CallInv
<1>4. Follows(srv[g], w, t, w)
  BY DEF Follows, CallInv, RowInv
<1> HIDE DEF w
<1> QED BY <1>1, <1>3, <1>4, MovesByRecords DEF w

\* Steps that write one frame, or the response's end, to a client that is there.
LEMMA WritingMoves ==
  ASSUME ServerTypeOK, NEW g \in Calls, CallInv(srv[g], wire[g]), NEW t \in Handlers, NEW v \in Wires,
         srv' = [srv EXCEPT ![g] = t], wire' = [wire EXCEPT ![g] = v],
         srv[g].at # "ended", wire[g].sent,
         v.sent = wire[g].sent, v.gone = wire[g].gone,
         NEW f \in Frames, v.frames = Append(wire[g].frames, f),
         HandlerInv(t, v), RowInv(t),
         f.kind = "suggestion" => v.end = wire[g].end,
         f.kind # "suggestion" => t.at = "ended" /\ v.end = "ended",
         f.kind = "done" => t.goal = "completed",
         f = DoneFrame(TRUE) => t.rows = <<"completed">>,
         srv[g].goal # "none" => t.goal = srv[g].goal,
         srv[g].aborted /\ srv[g].goal = "none" => t.goal \in {"none", "cancelled"},
         t.at \notin {"idle", "key"},
         srv[g].at = "key" \/ v.status = wire[g].status
  PROVE  ServerMoves(g)
<1> DEFINE s == srv[g]
           w == wire[g]
<1>1. s \in Handlers /\ w \in Wires
  BY DEF ServerTypeOK
<1>2. s.at # "ended" /\ FrameInv(s, w) /\ v.frames = Append(w.frames, f)
  BY DEF CallInv
<1>3. /\ f.kind = "suggestion" \/ (t.at = "ended" /\ v.end # "open")
      /\ f.kind = "done" => t.goal = "completed"
      /\ f = DoneFrame(TRUE) => t.rows = <<"completed">>
  OBVIOUS
<1>4. FrameInv(t, v) /\ v.frames # <<>> /\ v.frames[Len(v.frames)] = f
  <2> HIDE DEF s, w
  <2>1. FrameInv(t, v)
    BY <1>1, <1>2, <1>3, AppendKeepsFrames
  <2>2. w.frames \in Seq(Frames)
    BY <1>1 DEF Wires
  <2>3. v.frames # <<>> /\ v.frames[Len(v.frames)] = f
    BY <1>2, <2>2
  <2> QED BY <2>1, <2>3
<1>5. CallInv(t, v)
  BY <1>4 DEF CallInv
<1>6. v.end = "ended" /\ w.end # "ended" =>
        t.at = "ended" /\ v.frames # <<>> /\ v.frames[Len(v.frames)].kind # "suggestion"
  BY <1>4
<1>7. s.rows = <<>> /\ <<"completed">> # <<>>
  BY <1>2 DEF CallInv, RowInv
<1>8. Follows(s, w, t, v)
  <2>1. v.sent
    OBVIOUS
  <2> QED BY <1>2, <1>6, <1>7, <2>1 DEF Follows
<1> HIDE DEF s, w
<1> QED BY <1>5, <1>8, MovesByRecords DEF s, w

\* A suggestion is written, or lost with the client.
LEMMA SuggestionMoves ==
  ASSUME ServerTypeOK, NEW g \in Calls, CallInv(srv[g], wire[g]), NEW t \in Handlers,
         srv' = [srv EXCEPT ![g] = t],
         NEW f \in Frames, f.kind = "suggestion",
         wire' = [wire EXCEPT ![g] = Written(g, <<f>>)],
         srv[g].at = "provider", t.at = "provider",
         HandlerInv(t, wire[g]), RowInv(t)
  PROVE  ServerMoves(g)
<1> DEFINE w == wire[g]
           v == [w EXCEPT !.frames = Append(w.frames, f)]
<1>1. w \in Wires /\ w.sent /\ wire \in [Calls -> Wires]
  BY DEF ServerTypeOK, CallInv, HandlerInv
<1>2. v \in Wires /\ v.sent = w.sent /\ v.gone = w.gone /\ v.end = w.end /\ v.status = w.status
      /\ v.frames = Append(w.frames, f)
  <2>1. w.frames \in Seq(Frames)
    BY <1>1 DEF Wires
  <2>2. Append(w.frames, f) \in Seq(Frames)
    BY <2>1
  <2> QED BY <1>1, <2>2 DEF Wires
<1>3. Written(g, <<f>>) = IF Reaches(g) THEN v ELSE w
  <2>1. w.frames \o <<f>> = Append(w.frames, f)
    BY <1>1 DEF Wires
  <2> QED BY <2>1 DEF Written
<1>4. t.goal = "none" /\ srv[g].goal = "none"
  BY DEF HandlerInv, CallInv
<1>5. CASE Reaches(g)
  <2>1. wire' = [wire EXCEPT ![g] = v] /\ f.kind # "done"
    BY <1>3, <1>5
  <2>2. HandlerInv(t, v) /\ f # DoneFrame(TRUE)
    BY <1>2 DEF HandlerInv, DoneFrame
  <2> HIDE DEF v
  <2> QED BY <1>1, <1>2, <1>4, <2>1, <2>2, WritingMoves
<1>6. CASE ~Reaches(g)
  <2>1. wire' = wire
    BY <1>1, <1>3, <1>6
  <2> QED BY <1>1, <1>4, <2>1, QuietMoves
<1> QED BY <1>5, <1>6

\* The response ends with a frame, unless the client is gone.
LEMMA FinishMoves ==
  ASSUME ServerTypeOK, NEW g \in Calls, CallInv(srv[g], wire[g]), NEW t \in Handlers,
         srv' = [srv EXCEPT ![g] = t],
         NEW f \in Frames, f.kind # "suggestion",
         wire' = [wire EXCEPT ![g] = Finished(g, <<f>>)],
         srv[g].at \notin {"idle", "ended"}, t.at = "ended",
         f.kind = "done" => t.goal = "completed",
         f = DoneFrame(TRUE) => t.rows = <<"completed">>,
         HandlerInv(t, wire[g]), RowInv(t), t.goal = srv[g].goal
  PROVE  ServerMoves(g)
<1> DEFINE w == wire[g]
           v == [w EXCEPT !.frames = Append(w.frames, f), !.end = "ended"]
<1>1. w \in Wires /\ w.sent /\ wire \in [Calls -> Wires]
  BY DEF ServerTypeOK, CallInv, HandlerInv
<1>2. v \in Wires /\ v.sent = w.sent /\ v.gone = w.gone /\ v.end = "ended" /\ v.status = w.status
      /\ v.frames = Append(w.frames, f)
  <2>1. w.frames \in Seq(Frames)
    BY <1>1 DEF Wires
  <2>2. Append(w.frames, f) \in Seq(Frames)
    BY <2>1
  <2> QED BY <1>1, <2>2 DEF Wires
<1>3. Finished(g, <<f>>) = IF Reaches(g) THEN v ELSE w
  <2>1. w.frames \o <<f>> = Append(w.frames, f)
    BY <1>1 DEF Wires
  <2> QED BY <2>1 DEF Finished
<1>4. srv[g].goal # "none" => t.goal = srv[g].goal
  OBVIOUS
<1>5. srv[g].aborted /\ srv[g].goal = "none" => t.goal \in {"none", "cancelled"}
  OBVIOUS
<1>6. CASE Reaches(g)
  <2>1. wire' = [wire EXCEPT ![g] = v]
    BY <1>3, <1>6
  <2>2. HandlerInv(t, v)
    BY <1>2 DEF HandlerInv
  <2> HIDE DEF v
  <2> QED BY <1>1, <1>2, <1>4, <1>5, <2>1, <2>2, WritingMoves
<1>7. CASE ~Reaches(g)
  <2>1. wire' = wire
    BY <1>1, <1>3, <1>7
  <2> QED BY <1>1, <1>4, <1>5, <2>1, QuietMoves
<1> QED BY <1>6, <1>7

\* Receive: a guard's answer, or the key lookup.
LEMMA ReceiveMoves ==
  ASSUME ServerTypeOK, NEW g \in Calls, CallInv(srv[g], wire[g]), Receive(g)
  PROVE  ServerMoves(g)
<1>1. CASE \E code \in RefusalCodes : Answer(g, code)
  <2>1. PICK code \in RefusalCodes : Answer(g, code)
    BY <1>1
  <2>2. code \in Nat \ {200}
    BY RefusalsAssumption
  <2> QED BY <2>1, <2>2, AnswerMoves DEF Receive
<1>2. CASE srv' = [srv EXCEPT ![g].at = "key"] /\ UNCHANGED wire
  <2> DEFINE s == srv[g]
             t == [s EXCEPT !.at = "key"]
  <2>1. s \in Handlers /\ s.at = "idle" /\ wire[g].sent
    BY DEF ServerTypeOK, Receive
  <2>2. t \in Handlers /\ t.at = "key" /\ t.goal = s.goal /\ t.collected = s.collected
        /\ t.aborted = s.aborted /\ t.closed = s.closed /\ t.rows = s.rows /\ t.published = s.published
    BY <2>1 DEF Handlers
  <2>3. srv' = [srv EXCEPT ![g] = t] /\ wire' = wire
    BY <1>2 DEF ServerTypeOK
  <2>4. HandlerInv(t, wire[g]) /\ RowInv(t) /\ s.goal = "none" /\ t.goal = "none"
    BY <2>1, <2>2 DEF CallInv, HandlerInv, RowInv
  <2> HIDE DEF t
  <2> QED BY <2>1, <2>2, <2>3, <2>4, QuietMoves
<1> QED BY <1>1, <1>2 DEF Receive

\* KeyRead: an answer, the stream begins, or it consists of an error frame.
LEMMA KeyReadMoves ==
  ASSUME ServerTypeOK, NEW g \in Calls, CallInv(srv[g], wire[g]), KeyRead(g)
  PROVE  ServerMoves(g)
<1> DEFINE s == srv[g]
           w == wire[g]
<1>1. /\ s \in Handlers /\ w \in Wires /\ s.at = "key" /\ s.goal = "none" /\ w.sent
      /\ srv \in [Calls -> Handlers] /\ wire \in [Calls -> Wires]
  BY DEF ServerTypeOK, KeyRead, CallInv, HandlerInv
<1>2. CASE \E code \in {412, 500} : Answer(g, code)
  <2>1. PICK code \in {412, 500} : Answer(g, code)
    BY <1>2
  <2>2. code \in Nat \ {200}
    OBVIOUS
  <2> QED BY <1>1, <2>1, <2>2, AnswerMoves
<1>3. CASE StartStream(g)
  <2> DEFINE t == [s EXCEPT !.listening = TRUE, !.at = "policy"]
             v == IF Reaches(g) THEN [w EXCEPT !.status = 200] ELSE w
  <2>1. t \in Handlers /\ t.at = "policy" /\ t.goal = s.goal /\ t.collected = s.collected
        /\ t.aborted = s.aborted /\ t.closed = s.closed /\ t.rows = s.rows /\ t.published = s.published
    BY <1>1 DEF Handlers
  <2>2. v \in Wires /\ v.sent = w.sent /\ v.gone = w.gone /\ v.frames = w.frames /\ v.end = w.end
    BY <1>1 DEF Wires
  <2>3. srv' = [srv EXCEPT ![g] = t] /\ wire' = [wire EXCEPT ![g] = v]
    BY <1>1, <1>3 DEF StartStream
  <2>4. HandlerInv(t, v) /\ RowInv(t)
    BY <1>1, <2>1, <2>2 DEF CallInv, HandlerInv, RowInv
  <2>5. s.at # "ended" /\ FrameInv(s, w)
    BY <1>1 DEF CallInv
  <2>6. FrameInv(t, v)
    <3> HIDE DEF s, w, t, v
    <3> QED BY <1>1, <2>1, <2>2, <2>5, SameFrames
  <2>7. CallInv(t, v)
    BY <2>4, <2>6 DEF CallInv
  <2>8. Follows(s, w, t, v)
    BY <1>1, <2>1, <2>2 DEF Follows
  <2> HIDE DEF s, w, t, v
  <2> QED BY <2>1, <2>2, <2>3, <2>7, <2>8, MovesByRecords DEF s, w
<1>4. CASE /\ srv' = [srv EXCEPT ![g].listening = TRUE, ![g].at = "ended"]
           /\ wire' = [wire EXCEPT ![g] =
               IF Reaches(g)
               THEN [@ EXCEPT !.status = 200, !.end = "ended", !.frames = <<ErrorFrame>>]
               ELSE @]
  <2> DEFINE t == [s EXCEPT !.listening = TRUE, !.at = "ended"]
             v == IF Reaches(g)
                  THEN [w EXCEPT !.status = 200, !.end = "ended", !.frames = <<ErrorFrame>>]
                  ELSE w
  <2>1. t \in Handlers /\ t.at = "ended" /\ t.goal = s.goal /\ t.collected = s.collected
        /\ t.aborted = s.aborted /\ t.closed = s.closed /\ t.rows = s.rows /\ t.published = s.published
    BY <1>1 DEF Handlers
  <2>2. /\ ErrorFrame \in Frames /\ ErrorFrame.kind # "suggestion" /\ ErrorFrame.kind # "done"
        /\ ErrorFrame # DoneFrame(TRUE) /\ <<ErrorFrame>> \in Seq(Frames)
    BY FrameTypes DEF ErrorFrame, DoneFrame
  <2>3. v \in Wires /\ v.sent = w.sent /\ v.gone = w.gone
    BY <1>1, <2>2 DEF Wires
  <2>4. srv' = [srv EXCEPT ![g] = t] /\ wire' = [wire EXCEPT ![g] = v]
    BY <1>1, <1>4
  <2>5. HandlerInv(t, v) /\ RowInv(t)
    BY <1>1, <2>1, <2>3 DEF CallInv, HandlerInv, RowInv
  <2>6. CASE Reaches(g)
    <3>1. v.frames = <<ErrorFrame>> /\ v.end = "ended" /\ v.status = 200
      BY <1>1, <2>6 DEF Wires
    <3>2. v.frames # <<>> /\ Len(v.frames) = 1 /\ v.frames[1] = ErrorFrame
      <4> HIDE DEF v
      <4> QED BY <3>1
    <3>3. FrameInv(t, v)
      <4> HIDE DEF s, w, t, v
      <4>1. \A k \in 1 .. Len(v.frames) : k = 1 /\ k = Len(v.frames) /\ v.frames[k] = ErrorFrame
        BY <3>2
      <4>2. v.end # "open" /\ t.at = "ended"
        BY <2>1, <3>1
      <4> QED BY <2>2, <4>1, <4>2 DEF FrameInv
    <3>4. CallInv(t, v)
      BY <2>5, <3>3 DEF CallInv
    <3>5. Follows(s, w, t, v)
      BY <1>1, <2>1, <2>2, <2>3, <3>2 DEF Follows
    <3> HIDE DEF s, w, t, v
    <3> QED BY <2>1, <2>3, <2>4, <3>4, <3>5, MovesByRecords DEF s, w
  <2>7. CASE ~Reaches(g)
    <3>1. wire' = wire
      BY <1>1, <2>4, <2>7
    <3>2. HandlerInv(t, w)
      BY <2>5, <2>7
    <3> HIDE DEF t
    <3> QED BY <1>1, <2>1, <2>4, <2>5, <3>1, <3>2, QuietMoves
  <2> QED BY <2>6, <2>7
<1> QED BY <1>2, <1>3, <1>4 DEF KeyRead

\* PolicyRead: the provider is asked, or an error frame ends the stream.
LEMMA PolicyReadMoves ==
  ASSUME ServerTypeOK, NEW g \in Calls, CallInv(srv[g], wire[g]), PolicyRead(g)
  PROVE  ServerMoves(g)
<1> DEFINE s == srv[g]
<1>1. s \in Handlers /\ s.at = "policy" /\ s.goal = "none" /\ wire[g].sent /\ srv \in [Calls -> Handlers]
  BY DEF ServerTypeOK, PolicyRead, CallInv, HandlerInv
<1>2. CASE srv' = [srv EXCEPT ![g].at = "provider"] /\ UNCHANGED wire
  <2> DEFINE t == [s EXCEPT !.at = "provider"]
  <2>1. t \in Handlers /\ t.at = "provider" /\ t.goal = s.goal /\ t.collected = s.collected
        /\ t.aborted = s.aborted /\ t.closed = s.closed /\ t.rows = s.rows /\ t.published = s.published
    BY <1>1 DEF Handlers
  <2>2. srv' = [srv EXCEPT ![g] = t] /\ wire' = wire
    BY <1>1, <1>2
  <2>3. HandlerInv(t, wire[g]) /\ RowInv(t)
    BY <1>1, <2>1 DEF CallInv, HandlerInv, RowInv
  <2> HIDE DEF t
  <2> QED BY <1>1, <2>1, <2>2, <2>3, QuietMoves
<1>3. CASE /\ srv' = [srv EXCEPT ![g].at = "ended"]
           /\ wire' = [wire EXCEPT ![g] = Finished(g, <<ErrorFrame>>)]
  <2> DEFINE t == [s EXCEPT !.at = "ended"]
  <2>1. t \in Handlers /\ t.at = "ended" /\ t.goal = s.goal /\ t.collected = s.collected
        /\ t.aborted = s.aborted /\ t.closed = s.closed /\ t.rows = s.rows /\ t.published = s.published
    BY <1>1 DEF Handlers
  <2>2. srv' = [srv EXCEPT ![g] = t]
    BY <1>1, <1>3
  <2>3. HandlerInv(t, wire[g]) /\ RowInv(t)
    BY <1>1, <2>1 DEF CallInv, HandlerInv, RowInv
  <2>4. ErrorFrame \in Frames /\ ErrorFrame.kind # "suggestion" /\ ErrorFrame.kind # "done"
        /\ ErrorFrame # DoneFrame(TRUE)
    BY FrameTypes DEF ErrorFrame, DoneFrame
  <2> HIDE DEF t
  <2> QED BY <1>1, <1>3, <2>1, <2>2, <2>3, <2>4, FinishMoves
<1> QED BY <1>2, <1>3 DEF PolicyRead

\* ProviderEmits: one suggestion more, up to those that were asked for.
LEMMA ProviderEmitsMoves ==
  ASSUME ServerTypeOK, NEW g \in Calls, CallInv(srv[g], wire[g]), ProviderEmits(g)
  PROVE  ServerMoves(g)
<1> DEFINE s == srv[g]
           t == [s EXCEPT !.collected = s.collected + 1]
           f == Suggestion(s.collected)
<1>1. /\ s \in Handlers /\ s.at = "provider" /\ s.goal = "none" /\ srv \in [Calls -> Handlers]
      /\ s.collected \in 0 .. Count /\ s.collected < Count
  BY DEF ServerTypeOK, ProviderEmits, CallInv, HandlerInv, Handlers
<1>2. s.collected + 1 \in 0 .. Count /\ s.collected \in 0 .. Count - 1
  BY <1>1, CountAssumption
<1>3. t \in Handlers /\ t.at = s.at /\ t.goal = s.goal /\ t.aborted = s.aborted
      /\ t.closed = s.closed /\ t.rows = s.rows /\ t.published = s.published
  BY <1>1, <1>2 DEF Handlers
<1>4. srv' = [srv EXCEPT ![g] = t] /\ wire' = [wire EXCEPT ![g] = Written(g, <<f>>)]
  BY <1>1 DEF ProviderEmits
<1>5. HandlerInv(t, wire[g]) /\ RowInv(t)
  BY <1>1, <1>3 DEF CallInv, HandlerInv, RowInv
<1>6. f \in Frames /\ f.kind = "suggestion"
  BY <1>2, FrameTypes
<1> HIDE DEF t, f
<1> QED BY <1>1, <1>3, <1>4, <1>5, <1>6, SuggestionMoves

\* The catch block.
LEMMA CaughtMoves ==
  ASSUME ServerTypeOK, NEW g \in Calls, CallInv(srv[g], wire[g]), srv[g].at = "provider", Caught(g)
  PROVE  ServerMoves(g)
<1> DEFINE s == srv[g]
           goal == IF s.aborted THEN "cancelled" ELSE "failed"
           t == [s EXCEPT !.at = "persist", !.goal = goal]
<1>1. s \in Handlers /\ s.goal = "none" /\ wire[g].sent /\ srv \in [Calls -> Handlers]
  BY DEF ServerTypeOK, CallInv, HandlerInv
<1>2. t \in Handlers /\ t.at = "persist" /\ t.goal = goal /\ t.collected = s.collected
      /\ t.aborted = s.aborted /\ t.closed = s.closed /\ t.rows = s.rows /\ t.published = s.published
  BY <1>1 DEF Handlers, RowStatus
<1>3. srv' = [srv EXCEPT ![g] = t] /\ wire' = wire
  BY <1>1 DEF Caught
<1>4. HandlerInv(t, wire[g]) /\ RowInv(t)
  BY <1>1, <1>2 DEF CallInv, HandlerInv, RowInv
<1>5. s.aborted => t.goal \in {"none", "cancelled"}
  BY <1>2
<1> HIDE DEF t
<1> QED BY <1>1, <1>2, <1>3, <1>4, <1>5, QuietMoves

\* ProviderThrows and ProviderEnds: the catch block, or the usage is awaited.
LEMMA ProviderEndsMoves ==
  ASSUME ServerTypeOK, NEW g \in Calls, CallInv(srv[g], wire[g]), ProviderThrows(g) \/ ProviderEnds(g)
  PROVE  ServerMoves(g)
<1> DEFINE s == srv[g]
           t == [s EXCEPT !.at = "usage"]
<1>1. s.at = "provider"
  BY DEF ProviderThrows, ProviderEnds
<1>2. CASE Caught(g)
  BY <1>1, <1>2, CaughtMoves
<1>3. CASE s.collected # 0 /\ srv' = [srv EXCEPT ![g].at = "usage"] /\ UNCHANGED wire
  <2>1. /\ s \in Handlers /\ s.goal = "none" /\ wire[g].sent /\ srv \in [Calls -> Handlers]
        /\ s.collected \in 0 .. Count
    BY <1>1 DEF ServerTypeOK, CallInv, HandlerInv, Handlers
  <2>2. t \in Handlers /\ t.at = "usage" /\ t.goal = s.goal /\ t.collected = s.collected
        /\ t.aborted = s.aborted /\ t.closed = s.closed /\ t.rows = s.rows /\ t.published = s.published
    BY <2>1 DEF Handlers
  <2>3. srv' = [srv EXCEPT ![g] = t] /\ wire' = wire
    BY <1>3, <2>1
  <2>4. s.collected > 0
    BY <1>3, <2>1
  <2>5. HandlerInv(t, wire[g]) /\ RowInv(t)
    BY <1>1, <2>1, <2>2, <2>4 DEF CallInv, HandlerInv, RowInv
  <2> HIDE DEF t
  <2> QED BY <1>1, <2>1, <2>2, <2>3, <2>5, QuietMoves
<1> QED BY <1>2, <1>3 DEF ProviderThrows, ProviderEnds

\* UsageRead: an abort in the last await makes the call a cancelled one.
LEMMA UsageReadMoves ==
  ASSUME ServerTypeOK, NEW g \in Calls, CallInv(srv[g], wire[g]), UsageRead(g)
  PROVE  ServerMoves(g)
<1> DEFINE s == srv[g]
           goal == IF s.aborted THEN "cancelled" ELSE "completed"
           t == [s EXCEPT !.at = "persist", !.goal = goal]
<1>1. /\ s \in Handlers /\ s.at = "usage" /\ s.goal = "none" /\ wire[g].sent
      /\ s.collected > 0 /\ srv \in [Calls -> Handlers]
  BY DEF ServerTypeOK, CallInv, HandlerInv, UsageRead
<1>2. t \in Handlers /\ t.at = "persist" /\ t.goal = goal /\ t.collected = s.collected
      /\ t.aborted = s.aborted /\ t.closed = s.closed /\ t.rows = s.rows /\ t.published = s.published
  BY <1>1 DEF Handlers, RowStatus
<1>3. srv' = [srv EXCEPT ![g] = t] /\ wire' = wire
  BY <1>1 DEF UsageRead
<1>4. HandlerInv(t, wire[g]) /\ RowInv(t)
  BY <1>1, <1>2 DEF CallInv, HandlerInv, RowInv
<1>5. s.aborted => t.goal \in {"none", "cancelled"}
  BY <1>2
<1> HIDE DEF t
<1> QED BY <1>1, <1>2, <1>3, <1>4, <1>5, QuietMoves

\* Persist: the row of the goal, or none; the last frame; the event of the row.
LEMMA PersistMoves ==
  ASSUME ServerTypeOK, NEW g \in Calls, CallInv(srv[g], wire[g]), NEW stored \in BOOLEAN, Persist(g, stored)
  PROVE  ServerMoves(g)
<1> DEFINE s == srv[g]
           rows == IF stored THEN Append(s.rows, s.goal) ELSE s.rows
           told == IF stored THEN s.published \cup ({s.goal} \ {"cancelled"}) ELSE s.published
           t == [s EXCEPT !.at = "ended", !.rows = rows, !.published = told]
<1>1. /\ s \in Handlers /\ s.at = "persist" /\ s.goal # "none" /\ wire[g].sent /\ wire[g] \in Wires
      /\ s.rows = <<>> /\ srv \in [Calls -> Handlers] /\ wire \in [Calls -> Wires]
  BY DEF ServerTypeOK, CallInv, HandlerInv, RowInv, Persist
<1>2. s.goal \in RowStatus /\ s.published \in SUBSET {"failed", "completed"}
  BY <1>1 DEF Handlers
<1>3. s.published = {}
  <2>1. \A e \in s.published : <<e>> = <<>>
    BY <1>1 DEF CallInv, RowInv
  <2>2. \A e \in s.published : <<e>> # <<>>
    OBVIOUS
  <2> QED BY <2>1, <2>2
<1>4. rows = IF stored THEN <<s.goal>> ELSE <<>>
  BY <1>1
<1>5. rows \in Seq(RowStatus) /\ told \in SUBSET {"failed", "completed"}
  <2>1. <<s.goal>> \in Seq(RowStatus) /\ <<>> \in Seq(RowStatus)
    BY <1>2
  <2>2. told \in SUBSET {"failed", "completed"}
    BY <1>2 DEF RowStatus
  <2> QED BY <1>4, <2>1, <2>2
<1>6. told \subseteq IF stored THEN {s.goal} ELSE {}
  BY <1>3
<1>7. srv' = [srv EXCEPT ![g] = t] /\ wire' = [wire EXCEPT ![g] = Finished(g, LastFrames(g, stored))]
  BY <1>1 DEF Persist
<1> HIDE DEF rows, told
<1>8. t \in Handlers /\ t.at = "ended" /\ t.goal = s.goal /\ t.collected = s.collected
      /\ t.aborted = s.aborted /\ t.closed = s.closed /\ t.rows = rows /\ t.published = told
  BY <1>1, <1>5 DEF Handlers
<1>9. HandlerInv(t, wire[g])
  BY <1>1, <1>8 DEF CallInv, HandlerInv
<1>10. RowInv(t)
  <2>1. t.rows = <<>> \/ (t.at = "ended" /\ t.goal # "none" /\ t.rows = <<t.goal>>)
    BY <1>1, <1>4, <1>8
  <2>2. \A e \in t.published : t.rows = <<e>>
    BY <1>4, <1>6, <1>8
  <2> QED BY <2>1, <2>2 DEF RowInv
<1> HIDE DEF t
<1>11. CASE s.goal = "failed"
  <2>1. LastFrames(g, stored) = <<ErrorFrame>>
    BY <1>11 DEF LastFrames
  <2>2. ErrorFrame \in Frames /\ ErrorFrame.kind # "suggestion" /\ ErrorFrame.kind # "done"
        /\ ErrorFrame # DoneFrame(TRUE)
    BY FrameTypes DEF ErrorFrame, DoneFrame
  <2> QED BY <1>1, <1>7, <1>8, <1>9, <1>10, <2>1, <2>2, FinishMoves
<1>12. CASE s.goal = "completed"
  <2> DEFINE f == DoneFrame(stored)
  <2>1. LastFrames(g, stored) = <<f>>
    BY <1>12 DEF LastFrames
  <2>2. f \in Frames /\ f.kind # "suggestion" /\ f.kind = "done"
    BY FrameTypes
  <2>3. f = DoneFrame(TRUE) => stored
    BY DEF DoneFrame
  <2>4. t.goal = "completed" /\ (f = DoneFrame(TRUE) => t.rows = <<"completed">>)
    BY <1>4, <1>8, <1>12, <2>3
  <2> HIDE DEF f
  <2> QED BY <1>1, <1>7, <1>8, <1>9, <1>10, <2>1, <2>2, <2>4, FinishMoves
<1>13. CASE s.goal = "cancelled"
  <2>1. wire[g].gone
    BY <1>13 DEF CallInv, HandlerInv
  <2>2. ~Reaches(g)
    BY <2>1 DEF Reaches
  <2>3. wire' = wire
    BY <1>1, <1>7, <2>2 DEF Finished
  <2> QED BY <1>1, <1>7, <1>8, <1>9, <1>10, <2>3, QuietMoves
<1> QED BY <1>1, <1>2, <1>11, <1>12, <1>13 DEF RowStatus

\* ServerSeesClose: an abort needs the listener, and the client has left.
LEMMA SeesCloseMoves ==
  ASSUME ServerTypeOK, NEW g \in Calls, CallInv(srv[g], wire[g]), ServerSeesClose(g)
  PROVE  ServerMoves(g)
<1> DEFINE s == srv[g]
           t == [s EXCEPT !.closed = TRUE, !.aborted = s.listening]
<1>1. /\ s \in Handlers /\ s.at \notin {"idle", "ended"} /\ ~s.closed /\ wire[g].gone
      /\ wire[g].sent /\ srv \in [Calls -> Handlers] /\ s.goal # "cancelled"
  BY DEF ServerTypeOK, CallInv, HandlerInv, ServerSeesClose
<1>2. t \in Handlers /\ t.at = s.at /\ t.goal = s.goal /\ t.collected = s.collected
      /\ t.closed /\ t.rows = s.rows /\ t.published = s.published
  BY <1>1 DEF Handlers
<1>3. srv' = [srv EXCEPT ![g] = t] /\ wire' = wire
  BY <1>1 DEF ServerSeesClose
<1>4. HandlerInv(t, wire[g]) /\ RowInv(t)
  BY <1>1, <1>2 DEF CallInv, HandlerInv, RowInv
<1> HIDE DEF t
<1> QED BY <1>1, <1>2, <1>3, <1>4, QuietMoves

\* InstanceDies: whatever the handler was about to do is not done.
LEMMA InstanceDiesMoves ==
  ASSUME ServerTypeOK, NEW g \in Calls, CallInv(srv[g], wire[g]), InstanceDies(g)
  PROVE  ServerMoves(g)
<1> DEFINE s == srv[g]
           w == wire[g]
           t == [s EXCEPT !.at = "ended"]
           v == IF Reaches(g) THEN [w EXCEPT !.end = "reset"] ELSE w
<1>1. /\ s \in Handlers /\ w \in Wires /\ s.at \notin {"idle", "ended"} /\ w.sent /\ s.rows = <<>>
      /\ srv \in [Calls -> Handlers] /\ wire \in [Calls -> Wires] /\ <<>> # <<"completed">>
  BY DEF ServerTypeOK, CallInv, HandlerInv, RowInv, InstanceDies
<1>2. t \in Handlers /\ t.at = "ended" /\ t.goal = s.goal /\ t.collected = s.collected
      /\ t.aborted = s.aborted /\ t.closed = s.closed /\ t.rows = s.rows /\ t.published = s.published
  BY <1>1 DEF Handlers
<1>3. /\ v \in Wires /\ v.sent = w.sent /\ v.gone = w.gone /\ v.frames = w.frames /\ v.status = w.status
      /\ v.end = w.end \/ v.end = "reset"
  BY <1>1 DEF Wires
<1>4. srv' = [srv EXCEPT ![g] = t] /\ wire' = [wire EXCEPT ![g] = v]
  BY <1>1 DEF InstanceDies
<1>5. HandlerInv(t, v) /\ RowInv(t) /\ s.at # "ended" /\ FrameInv(s, w)
  BY <1>1, <1>2, <1>3 DEF CallInv, HandlerInv, RowInv
<1>6. FrameInv(t, v)
  <2> HIDE DEF s, w, t, v
  <2> QED BY <1>1, <1>2, <1>3, <1>5, SameFrames
<1>7. CallInv(t, v)
  BY <1>5, <1>6 DEF CallInv
<1>8. Follows(s, w, t, v)
  BY <1>1, <1>2, <1>3 DEF Follows
<1> HIDE DEF s, w, t, v
<1> QED BY <1>2, <1>3, <1>4, <1>7, <1>8, MovesByRecords DEF s, w

\* ConnectionBreaks
LEMMA ConnectionBreaksMoves ==
  ASSUME ServerTypeOK, NEW g \in Calls, CallInv(srv[g], wire[g]), ConnectionBreaks(g)
  PROVE  ServerMoves(g)
<1> DEFINE s == srv[g]
           w == wire[g]
<1>1. /\ s \in Handlers /\ w \in Wires /\ w.sent /\ w.end = "open"
      /\ srv \in [Calls -> Handlers] /\ wire \in [Calls -> Wires]
  BY DEF ServerTypeOK, ConnectionBreaks
<1>2. PICK end \in {"open", "reset"} : wire' = [wire EXCEPT ![g].end = end, ![g].gone = TRUE]
  BY DEF ConnectionBreaks
<1> DEFINE v == [w EXCEPT !.end = end, !.gone = TRUE]
<1>3. v \in Wires /\ v.sent = w.sent /\ v.gone /\ v.frames = w.frames /\ v.status = w.status /\ v.end = end
  BY <1>1 DEF Wires
<1>4. srv' = [srv EXCEPT ![g] = s] /\ wire' = [wire EXCEPT ![g] = v]
  BY <1>1, <1>2 DEF ConnectionBreaks
<1>5. HandlerInv(s, v) /\ RowInv(s) /\ FrameInv(s, w)
  BY <1>1, <1>3 DEF CallInv, HandlerInv
<1>6. \A k \in 1 .. Len(w.frames) : w.frames[k].kind = "suggestion"
  BY <1>1, <1>5 DEF FrameInv
<1>7. FrameInv(s, v)
  BY <1>3, <1>5, <1>6 DEF FrameInv
<1>8. CallInv(s, v)
  BY <1>5, <1>7 DEF CallInv
<1>9. Follows(s, w, s, v)
  BY <1>1, <1>3 DEF Follows
<1> HIDE DEF s, w, v
<1> QED BY <1>1, <1>3, <1>4, <1>8, <1>9, MovesByRecords DEF s, w

\* Every step of the API and every fault.
LEMMA ServerNextMoves ==
  ASSUME ServerTypeOK, \A g \in Calls : CallInv(srv[g], wire[g]), ServerNext
  PROVE  \E g \in Calls : ServerMoves(g)
<1>1. PICK g \in Calls : ServerStep(g) \/ InstanceDies(g) \/ ConnectionBreaks(g)
  BY DEF ServerNext, ServerFault
<1>2. CallInv(srv[g], wire[g])
  OBVIOUS
<1>3. ServerMoves(g)
  BY <1>1, <1>2, ReceiveMoves, KeyReadMoves, PolicyReadMoves, ProviderEmitsMoves, ProviderEndsMoves,
     UsageReadMoves, PersistMoves, SeesCloseMoves, InstanceDiesMoves, ConnectionBreaksMoves DEF ServerStep
<1> QED BY <1>3

-----------------------------------------------------------------------------
\* The page's steps

\* Closing a connection loses what was not read, and nothing else.
LEMMA HangupTouches ==
  ASSUME NEW g \in Calls, wire \in [Calls -> Wires]
  PROVE  /\ Hangup(g) \in Wires /\ ClientTouches(wire[g], Hangup(g))
         /\ Hangup(g).sent = wire[g].sent /\ Hangup(g).status = wire[g].status
         /\ Hangup(g).end = wire[g].end /\ Hangup(g).frames = <<>>
         /\ wire[g] = NoWire => Hangup(g) = NoWire
<1> DEFINE w == wire[g]
           left == w.gone \/ w.sent
           nothing == <<>>
           h == [w EXCEPT !.gone = left, !.frames = nothing]
<1>1. w \in Wires /\ left \in BOOLEAN /\ (w.gone => left = TRUE) /\ nothing \in Seq(Frames)
  BY DEF Wires
<1>2. Hangup(g) = h
  BY DEF Hangup
<1>3. NoWire.gone = FALSE /\ NoWire.sent = FALSE /\ NoWire.frames = nothing /\ nothing = <<>>
  BY DEF NoWire
<1>4. w = NoWire => left = FALSE
  BY <1>3
<1> HIDE DEF left, nothing
<1>5. h \in Wires /\ h.sent = w.sent /\ h.status = w.status /\ h.end = w.end /\ h.frames = nothing
      /\ h.gone = left
  BY <1>1 DEF Wires
<1>6. w = NoWire => h = NoWire
  <2> SUFFICES ASSUME w = NoWire PROVE h = NoWire
    OBVIOUS
  <2>1. NoWire \in Wires /\ NoWire.gone = left /\ NoWire.frames = nothing
    BY <1>3, <1>4, FrameTypes
  <2> HIDE DEF h
  <2> QED BY <1>5, <2>1 DEF Wires
<1>7. ClientTouches(w, h)
  BY <1>1, <1>3, <1>5 DEF ClientTouches
<1> HIDE DEF h
<1> QED BY <1>2, <1>3, <1>5, <1>6, <1>7

\* What one step of the page and its runs does to the connections: those of
\* the runs it aborts or ends are closed, the others are left alone.
Closes(S) ==
  /\ wire' \in [Calls -> Wires]
  /\ \A c \in S : wire'[c] = Hangup(c)
  /\ \A c \in Calls \ S : wire'[c] = wire[c]

\* Hanging up one connection closes that one.
LEMMA ClosesOne ==
  ASSUME NEW g \in Calls, wire \in [Calls -> Wires], wire' = [wire EXCEPT ![g] = Hangup(g)]
  PROVE  Closes({g})
BY HangupTouches DEF Closes

\* The server's part of the invariant outlives what the clients do.
LEMMA ClosingKeepsCalls ==
  ASSUME ServerTypeOK, \A g \in Calls : CallInv(srv[g], wire[g]), srv' = srv,
         wire' \in [Calls -> Wires], \A g \in Calls : ClientTouches(wire[g], wire'[g])
  PROVE  ServerTypeOK' /\ \A g \in Calls : CallInv(srv'[g], wire'[g])
<1>1. ServerTypeOK'
  BY DEF ServerTypeOK
<1>2. ASSUME NEW g \in Calls
      PROVE  CallInv(srv'[g], wire'[g])
  <2>1. srv[g] \in Handlers /\ wire[g] \in Wires /\ wire'[g] \in Wires
    BY DEF ServerTypeOK
  <2>2. CallInv(srv[g], wire[g]) /\ ClientTouches(wire[g], wire'[g])
    OBVIOUS
  <2>3. CallInv(srv[g], wire'[g])
    BY <2>1, <2>2, TouchKeepsCall
  <2> QED BY <2>3
<1> QED BY <1>1, <1>2

PageTypes == page \in [status : {"idle", "streaming", "done", "cancelled", "error"},
                       shown : Seq([call : Calls, index : 0 .. Count - 1]),
                       done : {"none", "stored", "not stored"},
                       cur : Calls \cup {0}, mounted : BOOLEAN, tainted : BOOLEAN]
RunTypes == ws \in [Calls -> [at : {"unused", "token", "fetch", "text", "read", "over"},
                              aborted : BOOLEAN]]

\* The instance's types and helpers are those of the module.
LEMMA WebNames ==
  /\ Web!WebTypeOK <=> PageTypes /\ RunTypes
  /\ \A c : Web!Runs(c) <=> ws[c].at \notin {"unused", "over"}
  /\ \A c : Web!Hangup(c) = Hangup(c)
  /\ Web!NoCall = 0 /\ Web!Calls = Calls
  /\ Web!Streaming <=> page.status = "streaming"
BY DEF Web!WebTypeOK, PageTypes, RunTypes, Web!Runs, Web!Hangup, Hangup, Web!NoCall, Web!Calls, Calls,
       Web!Streaming

\* What is assumed of the state before a step of the page, and shown of the one after.
WebGood ==
  /\ ServerTypeOK /\ PageTypes /\ RunTypes
  /\ \A g \in Calls : CallInv(srv[g], wire[g])
  /\ WebInv

\* A run's last setState, in whatever way it ends.
LEMMA EndsKeeps ==
  ASSUME WebGood, client' = client, NEW g \in Calls,
         NEW status \in {"idle", "streaming", "done", "cancelled", "error"},
         ws[g].at \notin {"unused", "over"}, Web!Ends(g, status),
         status # "streaming",
         status = "done" => page.done # "none",
         status = "cancelled" => page.status = "cancelled" \/ ws[g].aborted
  PROVE  WebGood'
<1> DEFINE cur == IF page.cur = g /\ ws[g].at = "read" THEN 0 ELSE page.cur
           p == [page EXCEPT !.status = status, !.cur = cur]
<1>1. /\ PageTypes /\ RunTypes /\ wire \in [Calls -> Wires] /\ 0 \notin Calls
  BY DEF WebGood, ServerTypeOK, Calls
<1>2. /\ page' = IF page.mounted THEN p ELSE page
      /\ ws' = [ws EXCEPT ![g].at = "over"]
      /\ wire' = [wire EXCEPT ![g] = Hangup(g)] /\ srv' = srv
  BY WebNames DEF Web!Ends
<1>3. /\ p.status = status /\ p.cur = cur /\ p.shown = page.shown /\ p.done = page.done
      /\ p.mounted = page.mounted /\ p.tainted = page.tainted
      /\ p \in [status : {"idle", "streaming", "done", "cancelled", "error"},
                shown : Seq([call : Calls, index : 0 .. Count - 1]),
                done : {"none", "stored", "not stored"},
                cur : Calls \cup {0}, mounted : BOOLEAN, tainted : BOOLEAN]
  BY <1>1 DEF PageTypes
<1>4. /\ page'.shown = page.shown /\ page'.done = page.done /\ page'.tainted = page.tainted
      /\ page'.mounted = page.mounted /\ page'.cur \in {page.cur, cur}
      /\ page'.status = page.status \/ page'.status = status
      /\ PageTypes'
  BY <1>1, <1>2, <1>3 DEF PageTypes
<1>5. /\ RunTypes'
      /\ ws'[g].at = "over" /\ ws'[g].aborted = ws[g].aborted
      /\ \A c \in Calls \ {g} : ws'[c] = ws[c]
  BY <1>1, <1>2 DEF RunTypes
<1> HIDE DEF p
<1>6. Closes({g})
  BY <1>1, <1>2, ClosesOne
<1>7. \A c \in Calls : /\ ClientTouches(wire[c], wire'[c]) /\ wire'[c].sent = wire[c].sent
                       /\ wire'[c].status = wire[c].status /\ wire'[c].end = wire[c].end
                       /\ c # g => wire'[c] = wire[c]
  BY <1>1, <1>6, HangupTouches DEF Closes, ClientTouches
<1>8. ServerTypeOK' /\ \A c \in Calls : CallInv(srv'[c], wire'[c])
  BY <1>2, <1>6, <1>7, ClosingKeepsCalls DEF WebGood, Closes
<1>9. \A c \in Calls : (ws'[c].at = "unused" <=> ws[c].at = "unused") /\ ws'[c].aborted = ws[c].aborted
  BY <1>5
<1>10. \A c \in Calls : Web!Runs(c)' => Web!Runs(c) /\ c # g
  BY <1>5, <1>9, WebNames DEF Web!Runs
<1>11. RunsInv /\ SentInv /\ RestInv /\ EndingShown /\ OneRunShown /\ CancelledIsMeant
  BY DEF WebGood, WebInv
<1>12. RunsInv'
  <2>1. \A c \in Calls : page'.cur = c => page.cur = c
    BY <1>1, <1>4
  <2>2. \A c \in Calls : Web!Runs(c)' /\ ~ws'[c].aborted => page'.cur = c
    BY <1>4, <1>9, <1>10, <1>11 DEF RunsInv
  <2>3. ~page'.tainted => \A c, d \in Calls : Web!Runs(c)' /\ d > c => ws'[d].at = "unused"
    BY <1>4, <1>9, <1>10, <1>11 DEF RunsInv
  <2> QED BY <1>4, <1>9, <1>11, <2>1, <2>2, <2>3 DEF RunsInv
<1>13. SentInv'
  <2> SUFFICES ASSUME NEW c \in Calls
               PROVE  /\ ws'[c].at # "unused" => client' = "web"
                      /\ client' = "web" /\ ws'[c].at \in {"unused", "token"} => wire'[c] = NoWire
                      /\ ws'[c].at = "read" => wire'[c].status = 200
                      /\ ws'[c].at # "unused" /\ wire'[c].sent /\ wire'[c].end = "ended" => srv'[c].at = "ended"
                      /\ ws'[c].at # "unused" /\ srv'[c].at \in {"idle", "key"} => wire'[c].status # 200
    BY DEF SentInv
  <2> QED BY <1>2, <1>5, <1>7, <1>9, <1>11 DEF SentInv
<1>14. RestInv'
  <2> SUFFICES ASSUME NEW c \in Calls, Web!Runs(c)', ~ws'[c].aborted,
                      wire'[c].status = 200, wire'[c].end = "ended"
               PROVE  IF wire'[c].frames = <<>>
                      THEN ws'[c].at = "read" /\ (page'.status # "streaming" \/ page'.done # "none")
                      ELSE wire'[c].frames[Len(wire'[c].frames)].kind # "suggestion"
    BY DEF RestInv
  <2>1. c # g /\ Web!Runs(c) /\ ~ws[c].aborted /\ wire'[c] = wire[c] /\ ws'[c] = ws[c]
    BY <1>5, <1>7, <1>9, <1>10
  <2> QED BY <1>4, <1>11, <2>1 DEF RestInv
<1>15. EndingShown'
  BY <1>2, <1>4, <1>11 DEF EndingShown
<1>16. OneRunShown'
  BY <1>4, <1>9, <1>11 DEF OneRunShown
<1>17. CancelledIsMeant'
  <2> SUFFICES ASSUME page'.mounted, page'.status = "cancelled", ~page'.tainted
               PROVE  \E e \in Calls : /\ ws'[e].aborted /\ ws'[e].at = "over"
                                       /\ \A c \in Calls : c > e => ws'[c].at = "unused"
    BY DEF CancelledIsMeant
  <2>1. CASE page.status = "cancelled"
    <3>1. PICK e \in Calls : /\ ws[e].aborted /\ ws[e].at = "over"
                            /\ \A c \in Calls : c > e => ws[c].at = "unused"
      BY <1>4, <1>11, <2>1 DEF CancelledIsMeant
    <3> QED BY <1>5, <1>9, <3>1
  <2>2. CASE page.status # "cancelled"
    <3>1. ws[g].aborted /\ Web!Runs(g)
      BY <1>4, <2>2, WebNames
    <3>2. \A c \in Calls : c > g => ws[c].at = "unused"
      BY <1>4, <1>11, <3>1 DEF RunsInv
    <3> QED BY <1>5, <1>9, <3>1, <3>2
  <2> QED BY <2>1, <2>2
<1> QED BY <1>4, <1>5, <1>8, <1>12, <1>13, <1>14, <1>15, <1>16, <1>17 DEF WebGood, WebInv

\* start(): the run before is aborted, and the new one is the latest.
LEMMA StartKeeps ==
  ASSUME WebGood, client = "web", client' = client, NEW g \in Calls, Web!Start(g)
  PROVE  WebGood'
<1> DEFINE tainted == \E c \in Calls : Web!Runs(c)
           blank == <<>>
           p == [page EXCEPT !.status = "streaming", !.shown = blank, !.done = "none", !.cur = g,
                             !.tainted = tainted]
           old == page.cur
           S == IF old = 0 THEN {} ELSE {old}
<1>1. /\ PageTypes /\ RunTypes /\ wire \in [Calls -> Wires] /\ 0 \notin Calls
      /\ tainted \in BOOLEAN /\ blank \in Seq([call : Calls, index : 0 .. Count - 1])
      /\ old \in Calls \cup {0} /\ Calls \subseteq Nat
  <2>1. PageTypes /\ RunTypes /\ wire \in [Calls -> Wires] /\ 0 \notin Calls /\ Calls \subseteq Nat
    BY DEF WebGood, ServerTypeOK, Calls
  <2>2. tainted \in BOOLEAN
    OBVIOUS
  <2>3. blank \in Seq([call : Calls, index : 0 .. Count - 1])
    OBVIOUS
  <2>4. old \in Calls \cup {0}
    BY <2>1 DEF PageTypes
  <2> QED BY <2>1, <2>2, <2>3, <2>4
<1>2. RunsInv /\ SentInv /\ RestInv
  BY DEF WebGood, WebInv
<1>3. /\ page.mounted /\ page.status # "streaming"
      /\ ws[g].at = "unused" /\ \A c \in 1 .. g - 1 : ws[c].at # "unused"
      /\ page' = p /\ srv' = srv
      /\ ws' = [c \in Calls |-> CASE c = g -> [ws[c] EXCEPT !.at = "token"]
                                  [] c = old -> [ws[c] EXCEPT !.aborted = TRUE]
                                  [] OTHER -> ws[c]]
      /\ wire' = IF old = 0 THEN wire ELSE [wire EXCEPT ![old] = Hangup(old)]
  BY WebNames DEF Web!Start
<1>4. old # g /\ ~ws[g].aborted
  BY <1>2, <1>3 DEF RunsInv
<1>5. /\ ws'[g].at = "token" /\ ~ws'[g].aborted
      /\ old # 0 => ws'[old].at = ws[old].at /\ ws'[old].aborted
      /\ \A c \in Calls \ {g, old} : ws'[c] = ws[c]
      /\ RunTypes'
  BY <1>1, <1>3, <1>4 DEF RunTypes
<1> HIDE DEF tainted, blank
<1>6. /\ page'.status = "streaming" /\ page'.shown = blank /\ page'.done = "none" /\ page'.cur = g
      /\ page'.mounted /\ page'.tainted = tainted /\ PageTypes'
  BY <1>1, <1>3 DEF PageTypes
<1> HIDE DEF p
<1>7. Closes(S)
  <2>1. CASE old = 0
    BY <1>1, <1>3, <2>1 DEF Closes
  <2>2. CASE old # 0
    <3>1. old \in Calls /\ wire' = [wire EXCEPT ![old] = Hangup(old)]
      BY <1>1, <1>3, <2>2
    <3>2. Closes({old})
      BY <1>1, <3>1, ClosesOne
    <3> QED BY <2>2, <3>2
  <2> QED BY <2>1, <2>2
<1>8. \A c \in Calls : /\ ClientTouches(wire[c], wire'[c]) /\ wire'[c].sent = wire[c].sent
                       /\ wire'[c].status = wire[c].status /\ wire'[c].end = wire[c].end
                       /\ wire[c] = NoWire => wire'[c] = NoWire
                       /\ c # old => wire'[c] = wire[c]
  <2> SUFFICES ASSUME NEW c \in Calls
               PROVE  /\ ClientTouches(wire[c], wire'[c]) /\ wire'[c].sent = wire[c].sent
                      /\ wire'[c].status = wire[c].status /\ wire'[c].end = wire[c].end
                      /\ wire[c] = NoWire => wire'[c] = NoWire
                      /\ c # old => wire'[c] = wire[c]
    OBVIOUS
  <2>1. CASE c = old
    <3>1. wire'[c] = Hangup(c)
      BY <1>1, <1>7, <2>1 DEF Closes
    <3> QED BY <1>1, <2>1, <3>1, HangupTouches
  <2>2. CASE c # old
    <3>1. wire'[c] = wire[c]
      BY <1>1, <1>7, <2>2 DEF Closes
    <3> QED BY <2>2, <3>1 DEF ClientTouches
  <2> QED BY <2>1, <2>2
<1>9. ServerTypeOK' /\ \A c \in Calls : CallInv(srv'[c], wire'[c])
  BY <1>3, <1>7, <1>8, ClosingKeepsCalls DEF WebGood, Closes
<1>10. \A c \in Calls : c < g => ws[c].at # "unused"
  BY <1>1, <1>3 DEF Calls
<1>11. \A c \in Calls : ws[c].at # "unused" => c < g
  <2> SUFFICES ASSUME NEW c \in Calls, ws[c].at # "unused", ~(c < g) PROVE FALSE
    OBVIOUS
  <2>1. c # g /\ c \in Nat /\ g \in Nat
    BY <1>1, <1>3
  <2>2. g < c
    BY <2>1
  <2> QED BY <1>2, <1>3, <2>2 DEF RunsInv
<1>12. \A c \in Calls : c # g => (ws'[c].at = ws[c].at)
  BY <1>1, <1>5
<1>13. \A c \in Calls : ws'[c].at # "unused" => c = g \/ c < g
  BY <1>11, <1>12
<1>14. RunsInv'
  <2>1. \A c, d \in Calls : ws'[c].at # "unused" /\ d < c => ws'[d].at # "unused"
    <3> SUFFICES ASSUME NEW c \in Calls, NEW d \in Calls, ws'[c].at # "unused", d < c
                 PROVE  ws'[d].at # "unused"
      OBVIOUS
    <3>1. CASE d = g
      BY <1>5, <3>1
    <3>2. CASE d # g
      <4>1. d < g
        BY <1>1, <1>13
      <4> QED BY <1>10, <1>12, <3>2, <4>1
    <3> QED BY <3>1, <3>2
  <2>2. \A d \in Calls : d > g => ws'[d].at = "unused"
    <3> SUFFICES ASSUME NEW d \in Calls, d > g PROVE ws'[d].at = "unused"
      OBVIOUS
    <3>1. d # g /\ ~(d < g)
      BY <1>1
    <3> QED BY <1>13, <3>1
  <2>3. \A c \in Calls : Web!Runs(c)' /\ ~ws'[c].aborted => c = g
    <3> SUFFICES ASSUME NEW c \in Calls, Web!Runs(c)', ~ws'[c].aborted, c # g PROVE FALSE
      OBVIOUS
    <3>1. c # old
      BY <1>1, <1>5
    <3>2. ws'[c] = ws[c]
      BY <1>5, <3>1
    <3>3. Web!Runs(c) /\ ~ws[c].aborted
      BY <3>2 DEF Web!Runs
    <3> QED BY <1>2, <3>1, <3>3 DEF RunsInv
  <2>4. \A c \in Calls : ws'[c].at = "unused" => ~ws'[c].aborted
    <3> SUFFICES ASSUME NEW c \in Calls, ws'[c].at = "unused" PROVE ~ws'[c].aborted
      OBVIOUS
    <3>1. c # g /\ ws[c].at = "unused"
      BY <1>5, <1>12
    <3>2. c # old
      BY <1>2, <3>1 DEF RunsInv
    <3> QED BY <1>2, <1>5, <3>1, <3>2 DEF RunsInv
  <2>5. ~page'.tainted => \A c, d \in Calls : Web!Runs(c)' /\ d > c => ws'[d].at = "unused"
    <3> SUFFICES ASSUME ~tainted, NEW c \in Calls, NEW d \in Calls, Web!Runs(c)', d > c
                 PROVE  ws'[d].at = "unused"
      BY <1>6
    <3>1. ~Web!Runs(c)
      BY DEF tainted
    <3>2. c = g
      BY <1>12, <3>1 DEF Web!Runs
    <3> QED BY <2>2, <3>2
  <2> QED BY <1>5, <1>6, <2>1, <2>2, <2>3, <2>4, <2>5 DEF RunsInv
<1>15. SentInv'
  <2> SUFFICES ASSUME NEW c \in Calls
               PROVE  /\ ws'[c].at # "unused" => client' = "web"
                      /\ client' = "web" /\ ws'[c].at \in {"unused", "token"} => wire'[c] = NoWire
                      /\ ws'[c].at = "read" => wire'[c].status = 200
                      /\ ws'[c].at # "unused" /\ wire'[c].sent /\ wire'[c].end = "ended" => srv'[c].at = "ended"
                      /\ ws'[c].at # "unused" /\ srv'[c].at \in {"idle", "key"} => wire'[c].status # 200
    BY DEF SentInv
  <2>1. CASE c = g
    <3>1. wire[g] = NoWire
      BY <1>2, <1>3 DEF SentInv
    <3>2. wire'[g] = NoWire
      BY <1>8, <3>1
    <3> QED BY <1>5, <2>1, <3>2 DEF NoWire
  <2>2. CASE c # g
    BY <1>2, <1>3, <1>8, <1>12, <2>2 DEF SentInv
  <2> QED BY <2>1, <2>2
<1>16. RestInv'
  <2> SUFFICES ASSUME NEW c \in Calls, Web!Runs(c)', ~ws'[c].aborted,
                      wire'[c].status = 200, wire'[c].end = "ended"
               PROVE  FALSE
    BY DEF RestInv
  <2>1. c = g
    BY <1>6, <1>14 DEF RunsInv
  <2>2. wire[g] = NoWire
    BY <1>2, <1>3 DEF SentInv
  <2>3. wire'[g] = NoWire
    BY <1>8, <2>2
  <2> QED BY <2>1, <2>3 DEF NoWire
<1>17. EndingShown'
  BY <1>6 DEF EndingShown
<1>18. OneRunShown'
  BY <1>6 DEF OneRunShown, blank
<1>19. CancelledIsMeant'
  BY <1>6 DEF CancelledIsMeant
<1> QED BY <1>5, <1>6, <1>9, <1>14, <1>15, <1>16, <1>17, <1>18, <1>19 DEF WebGood, WebInv

\* The token is there: the request is sent, answered by the proxy, or not made.
LEMMA PostKeeps ==
  ASSUME WebGood, client = "web", client' = client, NEW g \in Calls, Web!Post(g)
  PROVE  WebGood'
<1> DEFINE w == wire[g]
<1>1. /\ PageTypes /\ RunTypes /\ wire \in [Calls -> Wires] /\ RunsInv /\ SentInv /\ RestInv
      /\ EndingShown /\ OneRunShown /\ CancelledIsMeant
  BY DEF WebGood, ServerTypeOK, WebInv
<1>2. /\ ws[g].at = "token" /\ page' = page /\ srv' = srv /\ ws' = [ws EXCEPT ![g].at = "fetch"]
      /\ \/ wire' = wire
         \/ wire' = [wire EXCEPT ![g].sent = TRUE]
         \/ \E code \in {403, 502} : wire' = [wire EXCEPT ![g] = [@ EXCEPT !.status = code, !.end = "ended"]]
  BY DEF Web!Post
<1>3. /\ ws'[g].at = "fetch" /\ ws'[g].aborted = ws[g].aborted /\ RunTypes'
      /\ \A c \in Calls \ {g} : ws'[c] = ws[c]
  BY <1>1, <1>2 DEF RunTypes
<1>4. w = NoWire /\ w \in Wires /\ ~w.sent /\ w.end = "open" /\ w.status = 0 /\ w.frames = <<>>
  BY <1>1, <1>2 DEF SentInv, NoWire
<1>5. /\ wire' \in [Calls -> Wires] /\ \A c \in Calls \ {g} : wire'[c] = wire[c]
      /\ wire'[g].status # 200 /\ (wire'[g].sent => wire'[g].end # "ended")
      /\ ClientTouches(w, wire'[g])
  <2>1. CASE wire' = wire
    BY <1>1, <1>4, <2>1 DEF ClientTouches
  <2>2. CASE wire' = [wire EXCEPT ![g].sent = TRUE]
    <3> DEFINE v == [w EXCEPT !.sent = TRUE]
    <3>1. v \in Wires /\ v.status = 0 /\ v.end = "open" /\ v.frames = w.frames /\ v.gone = w.gone /\ v.sent
      BY <1>4 DEF Wires
    <3>2. wire' = [wire EXCEPT ![g] = v]
      BY <1>1, <2>2
    <3> HIDE DEF v
    <3>3. wire'[g] = v /\ wire' \in [Calls -> Wires] /\ \A c \in Calls \ {g} : wire'[c] = wire[c]
      BY <1>1, <3>1, <3>2
    <3> QED BY <1>4, <3>1, <3>3 DEF ClientTouches
  <2>3. CASE \E code \in {403, 502} : wire' = [wire EXCEPT ![g] = [@ EXCEPT !.status = code, !.end = "ended"]]
    <3>1. PICK code \in {403, 502} : wire' = [wire EXCEPT ![g] = [@ EXCEPT !.status = code, !.end = "ended"]]
      BY <2>3
    <3> DEFINE v == [w EXCEPT !.status = code, !.end = "ended"]
    <3>2. v \in Wires /\ v.status = code /\ v.end = "ended" /\ v.frames = w.frames /\ v.gone = w.gone
          /\ v.sent = w.sent
      <4>1. code \in Nat /\ w \in Wires
        BY <1>4
      <4> QED BY <4>1 DEF Wires
    <3>3. wire' = [wire EXCEPT ![g] = v]
      <4>1. w \in Wires /\ wire \in [Calls -> Wires]
        BY <1>1, <1>4
      <4> QED BY <3>1, <4>1
    <3> HIDE DEF v
    <3>4. wire'[g] = v /\ wire' \in [Calls -> Wires] /\ \A c \in Calls \ {g} : wire'[c] = wire[c]
      BY <1>1, <3>2, <3>3
    <3> QED BY <1>4, <3>2, <3>4 DEF ClientTouches
  <2> QED BY <1>2, <2>1, <2>2, <2>3
<1>6. \A c \in Calls : ClientTouches(wire[c], wire'[c])
  BY <1>5 DEF ClientTouches
<1>7. ServerTypeOK' /\ \A c \in Calls : CallInv(srv'[c], wire'[c])
  BY <1>2, <1>5, <1>6, ClosingKeepsCalls DEF WebGood
<1>8. \A c \in Calls : (ws'[c].at = "unused" <=> ws[c].at = "unused") /\ ws'[c].aborted = ws[c].aborted
  BY <1>2, <1>3
<1>9. \A c \in Calls : (Web!Runs(c)' <=> Web!Runs(c)) /\ (ws'[c].at = "over" <=> ws[c].at = "over")
  BY <1>2, <1>3, WebNames DEF Web!Runs
<1>10. RunsInv'
  BY <1>1, <1>2, <1>8, <1>9 DEF RunsInv
<1>11. SentInv'
  <2> SUFFICES ASSUME NEW c \in Calls
               PROVE  /\ ws'[c].at # "unused" => client' = "web"
                      /\ client' = "web" /\ ws'[c].at \in {"unused", "token"} => wire'[c] = NoWire
                      /\ ws'[c].at = "read" => wire'[c].status = 200
                      /\ ws'[c].at # "unused" /\ wire'[c].sent /\ wire'[c].end = "ended" => srv'[c].at = "ended"
                      /\ ws'[c].at # "unused" /\ srv'[c].at \in {"idle", "key"} => wire'[c].status # 200
    BY DEF SentInv
  <2>1. CASE c = g
    BY <1>3, <1>5, <2>1
  <2>2. CASE c # g
    <3>1. ws'[c] = ws[c] /\ wire'[c] = wire[c] /\ srv'[c] = srv[c]
      BY <1>2, <1>3, <1>5, <2>2
    <3> QED BY <1>1, <3>1 DEF SentInv
  <2> QED BY <2>1, <2>2
<1>12. RestInv'
  <2> SUFFICES ASSUME NEW c \in Calls, Web!Runs(c)', ~ws'[c].aborted,
                      wire'[c].status = 200, wire'[c].end = "ended"
               PROVE  IF wire'[c].frames = <<>>
                      THEN ws'[c].at = "read" /\ (page'.status # "streaming" \/ page'.done # "none")
                      ELSE wire'[c].frames[Len(wire'[c].frames)].kind # "suggestion"
    BY DEF RestInv
  <2>1. c # g
    BY <1>5
  <2>2. ws'[c] = ws[c] /\ wire'[c] = wire[c] /\ Web!Runs(c) /\ page' = page
    BY <1>2, <1>3, <1>5, <1>9, <2>1
  <2> QED BY <1>1, <2>2 DEF RestInv
<1>13. PageTypes' /\ EndingShown' /\ OneRunShown' /\ CancelledIsMeant'
  <2>1. PageTypes'
    <3>1. PageTypes /\ page' = page
      BY <1>1, <1>2
    <3> QED BY <3>1 DEF PageTypes
  <2>2. EndingShown'
    BY <1>1, <1>2 DEF EndingShown
  <2>3. OneRunShown'
    BY <1>1, <1>2, <1>8 DEF OneRunShown
  <2>4. CancelledIsMeant'
    BY <1>1, <1>2, <1>8, <1>9 DEF CancelledIsMeant
  <2> QED BY <2>1, <2>2, <2>3, <2>4
<1> QED BY <1>3, <1>7, <1>10, <1>11, <1>12, <1>13 DEF WebGood, WebInv

\* The head of the response.
LEMMA HeadKeeps ==
  ASSUME WebGood, client' = client, NEW g \in Calls, Web!Head200(g)
  PROVE  WebGood'
<1> DEFINE at == IF wire[g].status = 200 THEN "read" ELSE "text"
<1>1. /\ PageTypes /\ RunTypes /\ RunsInv /\ SentInv /\ RestInv
      /\ EndingShown /\ OneRunShown /\ CancelledIsMeant
      /\ ServerTypeOK /\ \A c \in Calls : CallInv(srv[c], wire[c])
  BY DEF WebGood, WebInv
<1>2. /\ ws[g].at = "fetch" /\ page' = page /\ srv' = srv /\ wire' = wire
      /\ ws' = [ws EXCEPT ![g].at = at]
  BY DEF Web!Head200, Web!serverVars
<1>3. /\ ws'[g].at = at /\ ws'[g].aborted = ws[g].aborted /\ RunTypes'
      /\ \A c \in Calls \ {g} : ws'[c] = ws[c]
  BY <1>1, <1>2 DEF RunTypes
<1>4. \A c \in Calls : (ws'[c].at = "unused" <=> ws[c].at = "unused") /\ ws'[c].aborted = ws[c].aborted
  BY <1>2, <1>3
<1>5. \A c \in Calls : (Web!Runs(c)' <=> Web!Runs(c)) /\ (ws'[c].at = "over" <=> ws[c].at = "over")
  BY <1>2, <1>3, WebNames DEF Web!Runs
<1>6. RunsInv'
  BY <1>1, <1>2, <1>4, <1>5 DEF RunsInv
<1>7. SentInv'
  <2> SUFFICES ASSUME NEW c \in Calls
               PROVE  /\ ws'[c].at # "unused" => client' = "web"
                      /\ client' = "web" /\ ws'[c].at \in {"unused", "token"} => wire'[c] = NoWire
                      /\ ws'[c].at = "read" => wire'[c].status = 200
                      /\ ws'[c].at # "unused" /\ wire'[c].sent /\ wire'[c].end = "ended" => srv'[c].at = "ended"
                      /\ ws'[c].at # "unused" /\ srv'[c].at \in {"idle", "key"} => wire'[c].status # 200
    BY DEF SentInv
  <2>1. CASE c = g
    BY <1>1, <1>2, <1>3, <2>1 DEF SentInv
  <2>2. CASE c # g
    BY <1>1, <1>2, <1>3, <2>2 DEF SentInv
  <2> QED BY <2>1, <2>2
<1>8. RestInv'
  <2> SUFFICES ASSUME NEW c \in Calls, Web!Runs(c)', ~ws'[c].aborted,
                      wire'[c].status = 200, wire'[c].end = "ended"
               PROVE  IF wire'[c].frames = <<>>
                      THEN ws'[c].at = "read" /\ (page'.status # "streaming" \/ page'.done # "none")
                      ELSE wire'[c].frames[Len(wire'[c].frames)].kind # "suggestion"
    BY DEF RestInv
  <2>1. Web!Runs(c) /\ ~ws[c].aborted /\ wire'[c] = wire[c] /\ page' = page
    BY <1>2, <1>4, <1>5
  <2>2. IF wire[c].frames = <<>>
        THEN ws[c].at = "read" /\ (page.status # "streaming" \/ page.done # "none")
        ELSE wire[c].frames[Len(wire[c].frames)].kind # "suggestion"
    BY <1>1, <2>1 DEF RestInv
  <2>3. ws[c].at = "read" => ws'[c].at = "read"
    BY <1>2, <1>3
  <2> QED BY <2>1, <2>2, <2>3
<1>9. PageTypes' /\ EndingShown' /\ OneRunShown' /\ CancelledIsMeant'
  <2>1. PageTypes' /\ EndingShown'
    BY <1>1, <1>2 DEF PageTypes, EndingShown
  <2>2. OneRunShown'
    BY <1>1, <1>2, <1>4 DEF OneRunShown
  <2>3. CancelledIsMeant'
    BY <1>1, <1>2, <1>4, <1>5 DEF CancelledIsMeant
  <2> QED BY <2>1, <2>2, <2>3
<1>10. ServerTypeOK' /\ \A c \in Calls : CallInv(srv'[c], wire'[c])
  BY <1>1, <1>2 DEF ServerTypeOK
<1> QED BY <1>3, <1>6, <1>7, <1>8, <1>9, <1>10 DEF WebGood, WebInv

\* Cancel and Unmount: the run is aborted and forgotten.
LEMMA AbortKeeps ==
  ASSUME WebGood, client' = client, srv' = srv, Web!AbortOf(page.cur), NEW mounted \in BOOLEAN,
         page' = [page EXCEPT !.cur = 0, !.mounted = mounted], mounted => page.mounted
  PROVE  WebGood'
<1> DEFINE old == page.cur
           S == IF old = 0 THEN {} ELSE {old}
<1>1. /\ PageTypes /\ RunTypes /\ RunsInv /\ SentInv /\ RestInv
      /\ EndingShown /\ OneRunShown /\ CancelledIsMeant
      /\ wire \in [Calls -> Wires] /\ old \in Calls \cup {0} /\ 0 \notin Calls
  <2>1. /\ PageTypes /\ RunTypes /\ RunsInv /\ SentInv /\ RestInv
        /\ EndingShown /\ OneRunShown /\ CancelledIsMeant
    BY DEF WebGood, WebInv
  <2>2. wire \in [Calls -> Wires] /\ 0 \notin Calls
    BY DEF WebGood, ServerTypeOK, Calls
  <2>3. old \in Calls \cup {0}
    BY <2>1 DEF PageTypes
  <2> QED BY <2>1, <2>2, <2>3
<1>2. /\ ws' = IF old = 0 THEN ws ELSE [ws EXCEPT ![old].aborted = TRUE]
      /\ wire' = IF old = 0 THEN wire ELSE [wire EXCEPT ![old] = Hangup(old)]
  BY WebNames DEF Web!AbortOf
<1>3. /\ page'.status = page.status /\ page'.shown = page.shown /\ page'.done = page.done
      /\ page'.tainted = page.tainted /\ page'.cur = 0 /\ (page'.mounted => page.mounted) /\ PageTypes'
  BY <1>1 DEF PageTypes
<1>4. /\ \A c \in Calls : ws'[c].at = ws[c].at /\ (ws[c].aborted => ws'[c].aborted)
      /\ \A c \in Calls : c # old => ws'[c] = ws[c]
      /\ old # 0 => ws'[old].aborted
      /\ RunTypes'
  <2>1. CASE old = 0
    BY <1>1, <1>2, <2>1 DEF RunTypes
  <2>2. CASE old # 0
    BY <1>1, <1>2, <2>2 DEF RunTypes
  <2> QED BY <2>1, <2>2
<1>5. Closes(S)
  <2>1. CASE old = 0
    BY <1>1, <1>2, <2>1 DEF Closes
  <2>2. CASE old # 0
    <3>1. old \in Calls /\ wire' = [wire EXCEPT ![old] = Hangup(old)]
      BY <1>1, <1>2, <2>2
    <3>2. Closes({old})
      BY <1>1, <3>1, ClosesOne
    <3> QED BY <2>2, <3>2
  <2> QED BY <2>1, <2>2
<1>6. \A c \in Calls : /\ ClientTouches(wire[c], wire'[c]) /\ wire'[c].sent = wire[c].sent
                       /\ wire'[c].status = wire[c].status /\ wire'[c].end = wire[c].end
                       /\ wire[c] = NoWire => wire'[c] = NoWire
                       /\ c # old => wire'[c] = wire[c]
  <2> SUFFICES ASSUME NEW c \in Calls
               PROVE  /\ ClientTouches(wire[c], wire'[c]) /\ wire'[c].sent = wire[c].sent
                      /\ wire'[c].status = wire[c].status /\ wire'[c].end = wire[c].end
                      /\ wire[c] = NoWire => wire'[c] = NoWire
                      /\ c # old => wire'[c] = wire[c]
    OBVIOUS
  <2>1. CASE c = old
    <3>1. wire'[c] = Hangup(c)
      BY <1>1, <1>5, <2>1 DEF Closes
    <3> QED BY <1>1, <2>1, <3>1, HangupTouches
  <2>2. CASE c # old
    <3>1. wire'[c] = wire[c]
      BY <1>1, <1>5, <2>2 DEF Closes
    <3> QED BY <2>2, <3>1 DEF ClientTouches
  <2> QED BY <2>1, <2>2
<1>7. ServerTypeOK' /\ \A c \in Calls : CallInv(srv'[c], wire'[c])
  BY <1>5, <1>6, ClosingKeepsCalls DEF WebGood, Closes
<1>8. \A c \in Calls : Web!Runs(c)' <=> Web!Runs(c)
  BY <1>4 DEF Web!Runs
<1>9. \A c \in Calls : ~(Web!Runs(c)' /\ ~ws'[c].aborted)
  <2> SUFFICES ASSUME NEW c \in Calls, Web!Runs(c)', ~ws'[c].aborted PROVE FALSE
    OBVIOUS
  <2>1. c # old /\ Web!Runs(c) /\ ~ws[c].aborted
    BY <1>1, <1>4, <1>8
  <2> QED BY <1>1, <2>1 DEF RunsInv
<1>10. RunsInv'
  <2>1. \A c \in Calls : ws'[c].at = "unused" => ~ws'[c].aborted
    <3> SUFFICES ASSUME NEW c \in Calls, ws'[c].at = "unused" PROVE ~ws'[c].aborted
      OBVIOUS
    <3>1. c # old
      BY <1>1, <1>4 DEF RunsInv
    <3> QED BY <1>1, <1>4, <3>1 DEF RunsInv
  <2>2. ~page'.tainted => \A c, d \in Calls : Web!Runs(c)' /\ d > c => ws'[d].at = "unused"
    BY <1>1, <1>3, <1>4, <1>8 DEF RunsInv
  <2>3. \A c, d \in Calls : ws'[c].at # "unused" /\ d < c => ws'[d].at # "unused"
    BY <1>1, <1>4 DEF RunsInv
  <2>4. \A c \in Calls : page'.cur # c
    BY <1>1, <1>3
  <2> QED BY <1>9, <2>1, <2>2, <2>3, <2>4 DEF RunsInv
<1>11. SentInv'
  BY <1>1, <1>4, <1>6 DEF SentInv
<1>12. RestInv'
  BY <1>9 DEF RestInv
<1>13. EndingShown'
  BY <1>1, <1>3 DEF EndingShown
<1>14. OneRunShown'
  BY <1>1, <1>3, <1>4 DEF OneRunShown
<1>15. CancelledIsMeant'
  BY <1>1, <1>3, <1>4 DEF CancelledIsMeant
<1> QED BY <1>3, <1>4, <1>7, <1>10, <1>11, <1>12, <1>13, <1>14, <1>15 DEF WebGood, WebInv

\* The last element stays the last one when the first is taken.
LEMMA TailKeepsLast ==
  ASSUME NEW S, NEW s \in Seq(S), s # <<>>
  PROVE  IF Len(s) = 1 THEN Tail(s) = <<>> /\ Head(s) = s[Len(s)]
         ELSE Tail(s) # <<>> /\ Tail(s)[Len(Tail(s))] = s[Len(s)]
<1> DEFINE rest == Tail(s)
<1>1. /\ Len(s) \in Nat \ {0} /\ rest \in Seq(S) /\ Len(rest) = Len(s) - 1 /\ Head(s) = s[1]
      /\ \A k \in 1 .. Len(s) - 1 : rest[k] = s[k + 1]
  OBVIOUS
<1> HIDE DEF rest
<1>2. rest = <<>> <=> Len(rest) = 0
  BY <1>1
<1>3. CASE Len(s) = 1
  <2>1. Len(rest) = 0 /\ Head(s) = s[Len(s)]
    BY <1>1, <1>3
  <2> QED BY <1>2, <1>3, <2>1 DEF rest
<1>4. CASE Len(s) # 1
  <2>1. /\ Len(s) - 1 \in 1 .. Len(s) - 1 /\ (Len(s) - 1) + 1 = Len(s)
        /\ Len(rest) = Len(s) - 1 /\ Len(rest) # 0
    BY <1>1, <1>4
  <2>2. rest[Len(rest)] = s[Len(s)]
    BY <1>1, <2>1
  <2> QED BY <1>2, <1>4, <2>1, <2>2 DEF rest
<1> QED BY <1>3, <1>4

\* Reading one frame takes it from the connection.
LEMMA TailTouches ==
  ASSUME NEW g \in Calls, wire \in [Calls -> Wires], wire[g].frames # <<>>,
         wire' = [wire EXCEPT ![g].frames = Tail(@)]
  PROVE  /\ wire' \in [Calls -> Wires]
         /\ \A c \in Calls \ {g} : wire'[c] = wire[c]
         /\ \A c \in Calls : ClientTouches(wire[c], wire'[c]) /\ wire'[c].sent = wire[c].sent
              /\ wire'[c].status = wire[c].status /\ wire'[c].end = wire[c].end
         /\ wire'[g].frames = Tail(wire[g].frames)
<1> DEFINE w == wire[g]
           rest == Tail(w.frames)
           v == [w EXCEPT !.frames = rest]
<1>1. w \in Wires
  OBVIOUS
<1>2. w.frames \in Seq(Frames) /\ w.frames # <<>>
  BY <1>1 DEF Wires
<1>3. rest \in Seq(Frames)
  BY <1>2
<1>4. wire' = [wire EXCEPT ![g] = v]
  OBVIOUS
<1> HIDE DEF rest
<1>5. v \in Wires /\ v.sent = w.sent /\ v.status = w.status /\ v.end = w.end /\ v.gone = w.gone
      /\ v.frames = rest
  BY <1>1, <1>3 DEF Wires
<1> HIDE DEF v
<1>6. wire'[g] = v /\ wire' \in [Calls -> Wires] /\ \A c \in Calls \ {g} : wire'[c] = wire[c]
  BY <1>4, <1>5
<1>7. ClientTouches(w, v)
  BY <1>2, <1>5 DEF ClientTouches, rest
<1>8. \A c \in Calls \ {g} : ClientTouches(wire[c], wire'[c])
  BY <1>6 DEF ClientTouches
<1> QED BY <1>5, <1>6, <1>7, <1>8 DEF rest

\* mergeSuggestion puts in what the run has read, and keeps the rest.
LEMMA MergeAddsOwn ==
  ASSUME NEW g \in Calls, NEW i \in 0 .. Count - 1,
         NEW shown \in Seq([call : Calls, index : 0 .. Count - 1])
  PROVE  /\ Web!Merge(shown, g, i) \in Seq([call : Calls, index : 0 .. Count - 1])
         /\ \A k \in DOMAIN Web!Merge(shown, g, i) :
              \/ Web!Merge(shown, g, i)[k].call = g
              \/ k \in DOMAIN shown /\ Web!Merge(shown, g, i)[k] = shown[k]
<1> DEFINE Item == [call : Calls, index : 0 .. Count - 1]
           mine == [call |-> g, index |-> i]
           m == Web!Merge(shown, g, i)
<1>1. mine \in Item /\ mine.call = g
  OBVIOUS
<1> HIDE DEF mine
<1>2. CASE \E k \in DOMAIN shown : shown[k].index = i
  <2>1. m = [k \in DOMAIN shown |-> IF shown[k].index = i THEN mine ELSE shown[k]]
    BY <1>2 DEF Web!Merge, mine
  <2>0. shown \in Seq(Item)
    OBVIOUS
  <2> HIDE DEF Item
  <2>2. DOMAIN shown = 1 .. Len(shown) /\ Len(shown) \in Nat /\ \A k \in DOMAIN shown : shown[k] \in Item
    BY <2>0
  <2>3. m \in [1 .. Len(shown) -> Item]
    BY <1>1, <2>1, <2>2
  <2>4. m \in Seq(Item)
    BY <2>2, <2>3
  <2>5. \A k \in DOMAIN m : m[k] = mine \/ (k \in DOMAIN shown /\ m[k] = shown[k])
    BY <2>1, <2>2
  <2> HIDE DEF m
  <2>6. \A k \in DOMAIN m : m[k].call = g \/ (k \in DOMAIN shown /\ m[k] = shown[k])
    BY <1>1, <2>5
  <2> QED BY <2>4, <2>6 DEF m, Item
<1>3. CASE ~\E k \in DOMAIN shown : shown[k].index = i
  <2>1. m = Append(shown, mine)
    BY <1>3 DEF Web!Merge, mine
  <2>2. shown \in Seq(Item)
    OBVIOUS
  <2> HIDE DEF Item
  <2>3. m \in Seq(Item) /\ Len(m) = Len(shown) + 1 /\ m[Len(shown) + 1] = mine
        /\ \A k \in 1 .. Len(shown) : m[k] = shown[k]
    BY <1>1, <2>1, <2>2
  <2>4. DOMAIN m = 1 .. Len(shown) + 1 /\ DOMAIN shown = 1 .. Len(shown) /\ Len(shown) \in Nat
    BY <2>2, <2>3
  <2> HIDE DEF m
  <2>5. \A k \in DOMAIN m : m[k] = mine \/ (k \in DOMAIN shown /\ m[k] = shown[k])
    BY <2>3, <2>4
  <2>6. \A k \in DOMAIN m : m[k].call = g \/ (k \in DOMAIN shown /\ m[k] = shown[k])
    BY <1>1, <2>5
  <2> QED BY <2>3, <2>6 DEF m, Item
<1> QED BY <1>2, <1>3

\* A frame that is applied to the page.
LEMMA FrameApplied ==
  ASSUME PageTypes, NEW g \in Calls, NEW f \in Frames, page' = Web!ApplyFrame(g, f)
  PROVE  /\ PageTypes'
         /\ page'.cur = page.cur /\ page'.mounted = page.mounted /\ page'.tainted = page.tainted
         /\ page'.status \in {page.status, "done", "error"}
         /\ f.kind # "suggestion" => page'.status # "streaming" \/ page'.done # "none"
         /\ page'.status # "streaming" \/ page.status = "streaming"
         /\ page'.status = "done" => page'.done # "none" \/ (page.status = "done" /\ page'.done = page.done)
         /\ page'.done = "stored" => page.done = "stored" \/ f = DoneFrame(TRUE)
         /\ \A k \in DOMAIN page'.shown :
              page'.shown[k].call = g \/ (k \in DOMAIN page.shown /\ page'.shown[k] = page.shown[k])
<1>1. CASE f.kind = "suggestion"
  <2> DEFINE shown == Web!Merge(page.shown, g, f.index)
  <2>1. PICK i \in 0 .. Count - 1 : f = Suggestion(i)
    BY <1>1 DEF Frames, ErrorFrame, DoneFrame
  <2>2. f.index = i
    BY <2>1 DEF Suggestion
  <2>3. page.shown \in Seq([call : Calls, index : 0 .. Count - 1])
    BY DEF PageTypes
  <2>4. /\ shown \in Seq([call : Calls, index : 0 .. Count - 1])
        /\ \A k \in DOMAIN shown : shown[k].call = g \/ (k \in DOMAIN page.shown /\ shown[k] = page.shown[k])
    BY <2>2, <2>3, MergeAddsOwn
  <2>5. page' = [page EXCEPT !.shown = shown]
    BY <1>1 DEF Web!ApplyFrame
  <2> HIDE DEF shown
  <2>6. PageTypes' /\ page'.shown = shown /\ page'.cur = page.cur /\ page'.mounted = page.mounted
        /\ page'.tainted = page.tainted /\ page'.status = page.status /\ page'.done = page.done
    BY <2>4, <2>5 DEF PageTypes
  <2> QED BY <1>1, <2>4, <2>6
<1>2. CASE f.kind = "done"
  <2> DEFINE status == IF page.status = "streaming" THEN "done" ELSE page.status
             done == IF f.stored THEN "stored" ELSE "not stored"
  <2>1. PICK b \in BOOLEAN : f = DoneFrame(b)
    BY <1>2 DEF Frames, ErrorFrame, Suggestion
  <2>2. f.stored = b
    BY <2>1 DEF DoneFrame
  <2>3. page' = [page EXCEPT !.status = status, !.done = done]
    BY <1>2, WebNames DEF Web!ApplyFrame
  <2>4. PageTypes' /\ page'.shown = page.shown /\ page'.cur = page.cur /\ page'.mounted = page.mounted
        /\ page'.tainted = page.tainted /\ page'.status = status /\ page'.done = done
    BY <2>3 DEF PageTypes
  <2>5. done = "stored" => f = DoneFrame(TRUE)
    BY <2>1, <2>2
  <2>6. done # "none" /\ status \in {page.status, "done"} /\ status # "streaming"
    OBVIOUS
  <2> HIDE DEF done, status
  <2> QED BY <1>2, <2>4, <2>5, <2>6
<1>3. CASE f.kind \notin {"suggestion", "done"}
  <2>1. page' = [page EXCEPT !.status = "error"]
    BY <1>3 DEF Web!ApplyFrame
  <2>2. PageTypes' /\ page'.shown = page.shown /\ page'.cur = page.cur /\ page'.mounted = page.mounted
        /\ page'.tainted = page.tainted /\ page'.status = "error" /\ page'.done = page.done
    BY <2>1 DEF PageTypes
  <2> QED BY <1>3, <2>2
<1> QED BY <1>1, <1>2, <1>3

\* ReadFrame: only the latest run reads, and the frame that ends a stream is its last.
LEMMA ReadFrameKeeps ==
  ASSUME WebGood, client' = client, NEW g \in Calls, Web!ReadFrame(g)
  PROVE  WebGood'
<1> DEFINE w == wire[g]
           f == Head(w.frames)
<1>1. /\ PageTypes /\ RunTypes /\ RunsInv /\ SentInv /\ RestInv
      /\ EndingShown /\ OneRunShown /\ CancelledIsMeant
      /\ wire \in [Calls -> Wires] /\ w \in Wires /\ CallInv(srv[g], w)
  BY DEF WebGood, WebInv, ServerTypeOK
<1>2. /\ ws[g].at = "read" /\ ~ws[g].aborted /\ w.frames # <<>> /\ srv' = srv /\ ws' = ws
      /\ page' = IF page.mounted THEN Web!ApplyFrame(g, f) ELSE page
      /\ wire' = [wire EXCEPT ![g].frames = Tail(@)]
  BY DEF Web!ReadFrame
<1>3. Web!Runs(g) /\ page.cur = g /\ page.mounted
  BY <1>1, <1>2, WebNames DEF RunsInv
<1>4. w.frames \in Seq(Frames) /\ Len(w.frames) \in Nat \ {0} /\ f = w.frames[1] /\ f \in Frames
      /\ Tail(w.frames) \in Seq(Frames) /\ Len(Tail(w.frames)) = Len(w.frames) - 1
      /\ \A k \in 1 .. Len(w.frames) - 1 : Tail(w.frames)[k] = w.frames[k + 1]
  BY <1>1, <1>2 DEF Wires
<1>5. page' = Web!ApplyFrame(g, f)
  BY <1>2, <1>3
<1> HIDE DEF f
<1>6. /\ PageTypes'
      /\ page'.cur = page.cur /\ page'.mounted = page.mounted /\ page'.tainted = page.tainted
      /\ page'.status \in {page.status, "done", "error"}
      /\ f.kind # "suggestion" => page'.status # "streaming" \/ page'.done # "none"
      /\ page'.status # "streaming" \/ page.status = "streaming"
      /\ page'.status = "done" => page'.done # "none" \/ (page.status = "done" /\ page'.done = page.done)
      /\ page'.done = "stored" => page.done = "stored" \/ f = DoneFrame(TRUE)
      /\ \A k \in DOMAIN page'.shown :
           page'.shown[k].call = g \/ (k \in DOMAIN page.shown /\ page'.shown[k] = page.shown[k])
  BY <1>1, <1>4, <1>5, FrameApplied
<1>7. /\ wire' \in [Calls -> Wires]
      /\ \A c \in Calls \ {g} : wire'[c] = wire[c]
      /\ \A c \in Calls : ClientTouches(wire[c], wire'[c]) /\ wire'[c].sent = wire[c].sent
           /\ wire'[c].status = wire[c].status /\ wire'[c].end = wire[c].end
      /\ wire'[g].frames = Tail(w.frames)
  BY <1>1, <1>2, TailTouches
<1>8. ServerTypeOK' /\ \A c \in Calls : CallInv(srv'[c], wire'[c])
  BY <1>2, <1>7, ClosingKeepsCalls DEF WebGood
<1>9. \A c \in Calls : (Web!Runs(c)' <=> Web!Runs(c))
  BY <1>2 DEF Web!Runs
<1>10. RunsInv'
  BY <1>1, <1>2, <1>6, <1>9 DEF RunsInv
<1>11. SentInv'
  <2> SUFFICES ASSUME NEW c \in Calls
               PROVE  /\ ws'[c].at # "unused" => client' = "web"
                      /\ client' = "web" /\ ws'[c].at \in {"unused", "token"} => wire'[c] = NoWire
                      /\ ws'[c].at = "read" => wire'[c].status = 200
                      /\ ws'[c].at # "unused" /\ wire'[c].sent /\ wire'[c].end = "ended" => srv'[c].at = "ended"
                      /\ ws'[c].at # "unused" /\ srv'[c].at \in {"idle", "key"} => wire'[c].status # 200
    BY DEF SentInv
  <2>1. ws'[c].at \in {"unused", "token"} => wire'[c] = wire[c]
    BY <1>2, <1>7
  <2> QED BY <1>1, <1>2, <1>7, <2>1 DEF SentInv
<1>12. RestInv'
  <2> SUFFICES ASSUME NEW c \in Calls, Web!Runs(c)', ~ws'[c].aborted,
                      wire'[c].status = 200, wire'[c].end = "ended"
               PROVE  IF wire'[c].frames = <<>>
                      THEN ws'[c].at = "read" /\ (page'.status # "streaming" \/ page'.done # "none")
                      ELSE wire'[c].frames[Len(wire'[c].frames)].kind # "suggestion"
    BY DEF RestInv
  <2>1. Web!Runs(c) /\ ~ws[c].aborted /\ wire[c].status = 200 /\ wire[c].end = "ended"
    BY <1>2, <1>7, <1>9
  <2>2. c = g
    BY <1>1, <1>3, <2>1 DEF RunsInv
  <2>3. w.frames[Len(w.frames)].kind # "suggestion"
    BY <1>1, <1>2, <2>1, <2>2 DEF RestInv
  <2> DEFINE rest == Tail(w.frames)
  <2>4. IF Len(w.frames) = 1 THEN rest = <<>> /\ f = w.frames[Len(w.frames)]
        ELSE rest # <<>> /\ rest[Len(rest)] = w.frames[Len(w.frames)]
    BY <1>2, <1>4, TailKeepsLast DEF f
  <2>5. wire'[c].frames = rest /\ ws'[c].at = "read"
    BY <1>2, <1>7, <2>2
  <2> HIDE DEF rest
  <2> QED BY <1>6, <2>3, <2>4, <2>5
<1>13. EndingShown'
  <2>1. f = DoneFrame(TRUE) => srv[g].rows = <<"completed">>
    <3>1. 1 \in 1 .. Len(w.frames) /\ f = w.frames[1]
      BY <1>4
    <3> QED BY <1>1, <3>1 DEF CallInv, FrameInv
  <2>2. page'.status = "done" => page'.done # "none"
    BY <1>1, <1>6 DEF EndingShown
  <2>3. page'.done = "stored" => \E c \in Calls : srv'[c].rows = <<"completed">>
    BY <1>1, <1>2, <1>6, <2>1 DEF EndingShown
  <2> QED BY <2>2, <2>3 DEF EndingShown
<1>14. OneRunShown'
  <2> SUFFICES ASSUME NEW k \in DOMAIN page'.shown, NEW c \in Calls, ws'[c].at # "unused"
               PROVE  page'.shown[k].call >= c
    BY DEF OneRunShown
  <2>1. CASE page'.shown[k].call = g
    <3>1. ~(c > g)
      BY <1>1, <1>2, <1>3 DEF RunsInv
    <3>2. g \in Nat /\ c \in Nat
      BY DEF Calls
    <3> QED BY <2>1, <3>1, <3>2
  <2>2. CASE k \in DOMAIN page.shown /\ page'.shown[k] = page.shown[k]
    BY <1>1, <1>2, <2>2 DEF OneRunShown
  <2> QED BY <1>6, <2>1, <2>2
<1>15. CancelledIsMeant'
  BY <1>1, <1>2, <1>6 DEF CancelledIsMeant
<1> QED BY <1>1, <1>2, <1>6, <1>8, <1>10, <1>11, <1>12, <1>13, <1>14, <1>15 DEF WebGood, WebInv, RunTypes

\* Every step of the page and its runs.
LEMMA WebNextKeeps ==
  ASSUME WebGood, WebNext
  PROVE  WebGood'
<1>1. client = "web" /\ client' = client
  BY DEF WebNext
<1>2. /\ PageTypes /\ RunTypes /\ SentInv /\ RestInv /\ EndingShown
  BY DEF WebGood, WebInv
<1>3. ASSUME NEW g \in Calls, Web!Start(g) \/ Web!RunStep(g)
      PROVE  WebGood'
  <2>1. CASE Web!Start(g)
    BY <1>1, <2>1, StartKeeps
  <2>2. CASE Web!Post(g)
    BY <1>1, <2>2, PostKeeps
  <2>3. CASE Web!Aborted(g)
    BY <1>1, <2>3, EndsKeeps DEF Web!Aborted
  <2>4. CASE Web!FetchRejects(g)
    BY <1>1, <2>4, EndsKeeps DEF Web!FetchRejects
  <2>5. CASE Web!Head200(g)
    BY <1>1, <2>5, HeadKeeps
  <2>6. CASE Web!ErrorText(g)
    BY <1>1, <2>6, EndsKeeps DEF Web!ErrorText
  <2>7. CASE Web!ReadFrame(g)
    BY <1>1, <2>7, ReadFrameKeeps
  <2>8. CASE Web!ReadEnds(g)
    <3> DEFINE status == IF page.status = "streaming" THEN "done" ELSE page.status
    <3>1. /\ ws[g].at = "read" /\ ~ws[g].aborted /\ wire[g].frames = <<>> /\ wire[g].end = "ended"
          /\ Web!Ends(g, status)
      BY <2>8, WebNames DEF Web!ReadEnds
    <3>2. wire[g].status = 200 /\ Web!Runs(g)
      BY <1>2, <3>1, WebNames DEF SentInv
    <3>3. page.status # "streaming" \/ page.done # "none"
      BY <1>2, <3>1, <3>2 DEF RestInv
    <3>4. status \in {"idle", "streaming", "done", "cancelled", "error"} /\ status # "streaming"
      BY <1>2 DEF PageTypes
    <3>5. status = "done" => page.done # "none"
      BY <1>2, <3>3 DEF EndingShown
    <3>6. status = "cancelled" => page.status = "cancelled" \/ ws[g].aborted
      OBVIOUS
    <3> HIDE DEF status
    <3> QED BY <1>1, <3>1, <3>4, <3>5, <3>6, EndsKeeps
  <2>9. CASE Web!ReadBreaks(g)
    BY <1>1, <2>9, EndsKeeps DEF Web!ReadBreaks
  <2> QED BY <1>3, <2>1, <2>2, <2>3, <2>4, <2>5, <2>6, <2>7, <2>8, <2>9 DEF Web!RunStep
<1>4. CASE Web!Cancel
  <2>1. /\ srv' = srv /\ Web!AbortOf(page.cur) /\ page.mounted /\ page' = [page EXCEPT !.cur = 0]
    BY <1>4, WebNames DEF Web!Cancel
  <2>2. page' = [page EXCEPT !.cur = 0, !.mounted = TRUE]
    BY <1>2, <2>1 DEF PageTypes
  <2> QED BY <1>1, <2>1, <2>2, AbortKeeps
<1>5. CASE Web!Unmount
  <2>1. /\ srv' = srv /\ Web!AbortOf(page.cur) /\ page' = [page EXCEPT !.cur = 0, !.mounted = FALSE]
    BY <1>5, WebNames DEF Web!Unmount
  <2> QED BY <1>1, <2>1, AbortKeeps
<1> QED BY <1>3, <1>4, <1>5 DEF WebNext

\* Every step of the API, as the page finds it.
LEMMA ServerKeepsWeb ==
  ASSUME WebGood, NEW g \in Calls, ServerMoves(g), UNCHANGED <<client, page, ws>>
  PROVE  WebGood'
<1> DEFINE s == srv[g]
           w == wire[g]
           t == srv'[g]
           v == wire'[g]
<1>1. /\ PageTypes /\ RunTypes /\ RunsInv /\ SentInv /\ RestInv
      /\ EndingShown /\ OneRunShown /\ CancelledIsMeant
      /\ \A c \in Calls : CallInv(srv[c], wire[c])
  BY DEF WebGood, WebInv
<1>2. /\ ServerTypeOK' /\ CallInv(t, v) /\ Follows(s, w, t, v)
      /\ \A c \in Calls \ {g} : srv'[c] = srv[c] /\ wire'[c] = wire[c]
  BY DEF ServerMoves
<1>3. \A c \in Calls : CallInv(srv'[c], wire'[c])
  BY <1>1, <1>2
<1>4. page' = page /\ ws' = ws /\ client' = client
  OBVIOUS
<1>5. \A c \in Calls : Web!Runs(c)' <=> Web!Runs(c)
  BY <1>4 DEF Web!Runs
<1>6. RunsInv'
  BY <1>1, <1>4, <1>5 DEF RunsInv
<1>7. w.sent /\ (w = NoWire => ~w.sent)
  BY <1>2 DEF Follows, NoWire
<1>8. SentInv'
  <2> SUFFICES ASSUME NEW c \in Calls
               PROVE  /\ ws'[c].at # "unused" => client' = "web"
                      /\ client' = "web" /\ ws'[c].at \in {"unused", "token"} => wire'[c] = NoWire
                      /\ ws'[c].at = "read" => wire'[c].status = 200
                      /\ ws'[c].at # "unused" /\ wire'[c].sent /\ wire'[c].end = "ended" => srv'[c].at = "ended"
                      /\ ws'[c].at # "unused" /\ srv'[c].at \in {"idle", "key"} => wire'[c].status # 200
    BY DEF SentInv
  <2>1. CASE c = g
    <3>1. /\ ws[g].at # "unused" => client = "web"
          /\ client = "web" /\ ws[g].at \in {"unused", "token"} => w = NoWire
          /\ ws[g].at = "read" => w.status = 200
          /\ ws[g].at # "unused" /\ w.sent /\ w.end = "ended" => s.at = "ended"
          /\ ws[g].at # "unused" /\ s.at \in {"idle", "key"} => w.status # 200
      BY <1>1 DEF SentInv
    <3> HIDE DEF s, w, t, v
    <3>2. /\ ws[g].at = "read" => v.status = 200
          /\ ws[g].at # "unused" /\ v.end = "ended" => t.at = "ended"
          /\ ws[g].at # "unused" /\ t.at \in {"idle", "key"} => v.status # 200
      BY <1>2, <1>7, <3>1 DEF Follows
    <3> QED BY <1>4, <1>7, <2>1, <3>1, <3>2 DEF t, v
  <2>2. CASE c # g
    <3>1. srv'[c] = srv[c] /\ wire'[c] = wire[c]
      BY <1>2, <2>2
    <3> QED BY <1>1, <1>4, <3>1 DEF SentInv
  <2> QED BY <2>1, <2>2
<1>9. RestInv'
  <2> SUFFICES ASSUME NEW c \in Calls, Web!Runs(c)', ~ws'[c].aborted,
                      wire'[c].status = 200, wire'[c].end = "ended"
               PROVE  IF wire'[c].frames = <<>>
                      THEN ws'[c].at = "read" /\ (page'.status # "streaming" \/ page'.done # "none")
                      ELSE wire'[c].frames[Len(wire'[c].frames)].kind # "suggestion"
    BY DEF RestInv
  <2>1. Web!Runs(c) /\ ~ws[c].aborted /\ ws[c].at # "unused"
    BY <1>4, <1>5, WebNames
  <2>2. CASE c # g
    <3>1. wire'[c] = wire[c]
      BY <1>2, <2>2
    <3> QED BY <1>1, <1>4, <2>1, <3>1 DEF RestInv
  <2>3. CASE c = g /\ w.end # "ended"
    <3>1. v.frames # <<>> /\ v.frames[Len(v.frames)].kind # "suggestion"
      BY <1>2, <2>3 DEF Follows
    <3> QED BY <2>3, <3>1
  <2>4. CASE c = g /\ w.end = "ended"
    <3>1. s.at = "ended"
      BY <1>1, <1>7, <2>1, <2>4 DEF SentInv
    <3>2. v.frames = w.frames /\ v.status = w.status
      BY <1>2, <3>1 DEF Follows
    <3>3. wire[c].status = 200 /\ wire[c].end = "ended" /\ wire'[c].frames = wire[c].frames
      BY <2>4, <3>2
    <3> QED BY <1>1, <1>4, <2>1, <3>3 DEF RestInv
  <2> QED BY <2>2, <2>3, <2>4
<1>10. \A c \in Calls : srv[c].rows = <<"completed">> => srv'[c].rows = <<"completed">>
  BY <1>2 DEF Follows
<1>11. EndingShown'
  BY <1>1, <1>4, <1>10 DEF EndingShown
<1>12. PageTypes' /\ RunTypes'
  BY <1>1, <1>4 DEF PageTypes, RunTypes
<1>13. OneRunShown'
  BY <1>1, <1>4 DEF OneRunShown
<1>14. CancelledIsMeant'
  BY <1>1, <1>4 DEF CancelledIsMeant
<1> QED BY <1>2, <1>3, <1>6, <1>8, <1>9, <1>11, <1>12, <1>13, <1>14 DEF WebGood, WebInv

-----------------------------------------------------------------------------
\* The CLI's steps

Places == {"worktree", "diff", "config", "connect", "fetch", "errbody", "read",
           "backoff", "pick", "copy", "commit", "finish", "exit"}
Waiting == {"connect", "backoff", "fetch", "read"}
Answered == {"read", "pick", "copy", "commit", "finish", "exit"}

Signals == Places \cup {"none"}
Suggested == Seq((1 .. 2) \X Nat)
Attempts == SUBSET (1 .. 2)
Codes == {0, 1, 2, 3, 4, 5, 130, 999}
Processes ==
  [at : Places, attempt : 1 .. 2, received : Nat, got : Suggested,
   done : BOOLEAN, failed : BOOLEAN, idle : BOOLEAN, interrupted : BOOLEAN,
   sigintAt : Signals, begun : Attempts, committed : BOOLEAN, exit : Codes]
CliTypes == cli \in Processes

\* The names the CLI's module gives to what the server's module calls the same.
LEMMA CliNames ==
  /\ \A c \in Calls : Cli!Hangup(c) = Hangup(c)
  /\ Cli!Now = cli.attempt /\ (Cli!CliTypeOK <=> CliTypes)
  /\ 1 .. 2 \subseteq Calls
<1>1. \A c \in Calls : Cli!Hangup(c) = Hangup(c)
  BY DEF Cli!Hangup, Hangup
<1>2. Cli!Now = cli.attempt
  BY DEF Cli!Now
<1>3. Cli!CliTypeOK <=> CliTypes
  BY DEF Cli!CliTypeOK, CliTypes, Cli!CliPlaces, Places, Signals, Suggested, Attempts, Codes, Processes
<1>4. 1 .. 2 \subseteq Calls
  BY CallsAssumption DEF Calls
<1> QED BY <1>1, <1>2, <1>3, <1>4

CliGood == ServerTypeOK /\ CliTypes /\ (\A g \in Calls : CallInv(srv[g], wire[g])) /\ CliInv

\* The process goes on to its next place.
LEMMA GoesKeeps ==
  ASSUME CliGood, srv' = srv, NEW next \in Places \ {"exit"}, cli.at # "exit",
         cli' = [cli EXCEPT !.at = next],
         next \in {"pick", "copy", "commit", "finish"} => cli.done,
         next \notin Answered => cli.at \notin Answered,
         next = "finish" => ~WithCommit \/ cli.sigintAt = "commit",
         cli.at \in Waiting /\ cli.interrupted => next \in Waiting
  PROVE  CliTypes' /\ CliInv'
<1>0. cli \in Processes
  BY DEF CliGood, CliTypes
<1>1. /\ CliTypes' /\ cli'.at = next /\ cli'.attempt = cli.attempt /\ cli'.received = cli.received
      /\ cli'.got = cli.got /\ cli'.idle = cli.idle /\ cli'.sigintAt = cli.sigintAt
      /\ cli'.begun = cli.begun /\ cli'.exit = cli.exit
  <2>1. cli' \in Processes
    BY <1>0 DEF Processes
  <2>2. /\ cli'.at = next /\ cli'.attempt = cli.attempt /\ cli'.received = cli.received
        /\ cli'.got = cli.got /\ cli'.idle = cli.idle /\ cli'.sigintAt = cli.sigintAt
        /\ cli'.begun = cli.begun /\ cli'.exit = cli.exit
    BY <1>0 DEF Processes
  <2> QED BY <2>1, <2>2 DEF CliTypes
<1>2. (cli'.done <=> cli.done) /\ (cli'.interrupted <=> cli.interrupted) /\ (cli'.committed <=> cli.committed)
  BY <1>0 DEF Processes
<1>3. AnswerInv /\ RetriesAreClean /\ CommittedInv /\ InterruptInv
  BY DEF CliGood, CliInv
<1>4. cli.exit = 999
  BY <1>3 DEF AnswerInv
<1>5. AnswerInv'
  BY <1>1, <1>2, <1>3, <1>4, CliNames DEF AnswerInv, Answered, Cli!Now
<1>6. RetriesAreClean'
  BY <1>1, <1>3 DEF RetriesAreClean, Cli!Now
<1>7. CommittedInv'
  BY <1>1, <1>2, <1>4 DEF CommittedInv
<1>8. InterruptInv'
  BY <1>1, <1>2, <1>3 DEF InterruptInv, Waiting
<1> QED BY <1>1, <1>5, <1>6, <1>7, <1>8 DEF CliInv

\* The process exits: with 0 from its end only, with 130 when it was interrupted
\* while it waited.
LEMMA ExitsKeeps ==
  ASSUME CliGood, srv' = srv, NEW code \in {0, 1, 2, 3, 4, 5, 130}, cli.at # "exit",
         cli' = [cli EXCEPT !.at = "exit", !.exit = code],
         code = 0 => cli.at = "finish",
         cli.at \in Waiting /\ cli.interrupted => cli.idle \/ code = 130
  PROVE  CliTypes' /\ CliInv'
<1>0. cli \in Processes /\ "exit" \in Places /\ code \in Codes
  BY DEF CliGood, CliTypes, Places, Codes
<1>1. /\ CliTypes' /\ cli'.at = "exit" /\ cli'.attempt = cli.attempt /\ cli'.received = cli.received
      /\ cli'.got = cli.got /\ cli'.sigintAt = cli.sigintAt
      /\ cli'.begun = cli.begun /\ cli'.exit = code
  <2>1. cli' \in Processes
    BY <1>0 DEF Processes
  <2>2. /\ cli'.at = "exit" /\ cli'.attempt = cli.attempt /\ cli'.received = cli.received
        /\ cli'.got = cli.got /\ cli'.sigintAt = cli.sigintAt
        /\ cli'.begun = cli.begun /\ cli'.exit = code
    BY <1>0 DEF Processes
  <2> QED BY <2>1, <2>2 DEF CliTypes
<1>2. /\ cli'.done <=> cli.done
      /\ cli'.idle <=> cli.idle
      /\ cli'.interrupted <=> cli.interrupted
      /\ cli'.committed <=> cli.committed
  BY <1>0 DEF Processes
<1>3. AnswerInv /\ RetriesAreClean /\ CommittedInv /\ InterruptInv
  BY DEF CliGood, CliInv
<1>4. AnswerInv'
  BY <1>1, <1>2, <1>3 DEF AnswerInv, Cli!Now
<1>5. RetriesAreClean'
  BY <1>1, <1>3 DEF RetriesAreClean, Cli!Now
<1>6. CommittedInv'
  BY <1>1, <1>2, <1>3 DEF CommittedInv
<1>7. InterruptInv'
  BY <1>1, <1>2, <1>3 DEF InterruptInv, Waiting
<1> QED BY <1>1, <1>4, <1>5, <1>6, <1>7 DEF CliInv

\* What a step of the CLI keeps: it only touches connections, and the CLI's own part holds.
CliTouches ==
  /\ srv' = srv /\ wire' \in [Calls -> Wires]
  /\ \A g \in Calls : ClientTouches(wire[g], wire'[g])
CliKept == CliTouches /\ CliTypes' /\ CliInv'

\* The facts every step of the CLI starts from.
LEMMA CliFacts ==
  ASSUME CliGood
  PROVE  /\ wire \in [Calls -> Wires] /\ cli \in Processes
         /\ cli.attempt \in Calls /\ Cli!Now = cli.attempt /\ Cli!Hangup(cli.attempt) = Hangup(cli.attempt)
         /\ AnswerInv /\ RetriesAreClean /\ CommittedInv /\ InterruptInv
<1>1. cli \in Processes /\ wire \in [Calls -> Wires]
  BY DEF CliGood, CliTypes, ServerTypeOK
<1>2. cli.attempt \in 1 .. 2
  BY <1>1 DEF Processes
<1>3. cli.attempt \in Calls
  BY <1>2, CliNames
<1> QED BY <1>1, <1>3, CliNames DEF CliGood, CliInv

\* A connection that is left alone, or closed by the client.
LEMMA LeftAlone ==
  ASSUME CliGood, srv' = srv,
         wire' = wire \/ wire' = [wire EXCEPT ![cli.attempt] = Hangup(cli.attempt)]
  PROVE  CliTouches
<1>1. wire \in [Calls -> Wires] /\ cli.attempt \in Calls
  BY CliFacts
<1>2. \A g \in Calls : ClientTouches(wire[g], wire[g])
  BY DEF ClientTouches
<1>3. Hangup(cli.attempt) \in Wires /\ ClientTouches(wire[cli.attempt], Hangup(cli.attempt))
  BY <1>1, HangupTouches
<1> QED BY <1>1, <1>2, <1>3 DEF CliTouches

\* The process goes on and leaves its connection alone.
LEMMA GoesOn ==
  ASSUME CliGood, NEW next \in Places \ {"exit"}, Cli!Goes(next), cli.at # "exit",
         next \in {"pick", "copy", "commit", "finish"} => cli.done,
         next \notin Answered => cli.at \notin Answered,
         next = "finish" => ~WithCommit \/ cli.sigintAt = "commit",
         cli.at \in Waiting /\ cli.interrupted => next \in Waiting
  PROVE  CliKept
<1>1. srv' = srv /\ wire' = wire /\ cli' = [cli EXCEPT !.at = next]
  BY DEF Cli!Goes, Cli!serverVars
<1>2. CliTouches
  BY <1>1, LeftAlone
<1>3. CliTypes' /\ CliInv'
  BY <1>1, GoesKeeps
<1> QED BY <1>2, <1>3 DEF CliKept

\* The process exits and closes its connection.
LEMMA ExitsWith ==
  ASSUME CliGood, NEW code \in {0, 1, 2, 3, 4, 5, 130}, Cli!Exits(code), cli.at # "exit",
         code = 0 => cli.at = "finish",
         cli.at \in Waiting /\ cli.interrupted => cli.idle \/ code = 130
  PROVE  CliKept
<1>1. /\ srv' = srv /\ cli' = [cli EXCEPT !.at = "exit", !.exit = code]
      /\ wire' = [wire EXCEPT ![cli.attempt] = Hangup(cli.attempt)]
  BY CliFacts DEF Cli!Exits
<1>2. CliTouches
  BY <1>1, LeftAlone
<1>3. CliTypes' /\ CliInv'
  BY <1>1, ExitsKeeps
<1> QED BY <1>2, <1>3 DEF CliKept

\* handleError never exits with 0, and with 130 what was aborted.
LEMMA ExitCodes ==
  /\ \A err : Cli!ExitCode(err) \in {1, 2, 3, 4, 5, 130}
  /\ Cli!ExitCode("aborted") = 130
BY DEF Cli!ExitCode

\* handleError's exit, from a place that is not interrupted while it waits.
LEMMA FailsPlainly ==
  ASSUME CliGood, NEW err, Cli!Exits(Cli!ExitCode(err)), cli.at # "exit",
         ~(cli.at \in Waiting /\ cli.interrupted)
  PROVE  CliKept
<1>1. Cli!ExitCode(err) \in {1, 2, 3, 4, 5, 130}
  BY ExitCodes
<1>2. /\ Cli!ExitCode(err) \in {0, 1, 2, 3, 4, 5, 130}
      /\ Cli!ExitCode(err) # 0
  BY <1>1
<1> QED BY <1>2, ExitsWith

\* The steps before the request: the work tree, the diff, the configuration.
LEMMA BeforeTheRequest ==
  ASSUME CliGood, Cli!CheckWorkTree \/ Cli!ReadDiff \/ Cli!ReadConfig
  PROVE  CliKept
<1>1. CASE Cli!CheckWorkTree
  <2>1. cli.at = "worktree" /\ "diff" \in Places \ {"exit"}
    BY <1>1 DEF Cli!CheckWorkTree, Places
  <2>2. CASE Cli!Goes("diff")
    BY <2>1, <2>2, GoesOn DEF Answered, Waiting
  <2>3. CASE Cli!Exits(Cli!ExitCode("not a repository")) \/ Cli!Exits(Cli!ExitCode("git"))
    BY <2>1, <2>3, FailsPlainly DEF Waiting
  <2> QED BY <1>1, <2>2, <2>3 DEF Cli!CheckWorkTree
<1>2. CASE Cli!ReadDiff
  <2>1. cli.at = "diff" /\ "config" \in Places \ {"exit"}
    BY <1>2 DEF Cli!ReadDiff, Places
  <2>2. CASE Cli!Goes("config")
    BY <2>1, <2>2, GoesOn DEF Answered, Waiting
  <2>3. CASE Cli!Exits(Cli!ExitCode("nothing to commit")) \/ Cli!Exits(Cli!ExitCode("git"))
    BY <2>1, <2>3, FailsPlainly DEF Waiting
  <2> QED BY <1>2, <2>2, <2>3 DEF Cli!ReadDiff
<1>3. CASE Cli!ReadConfig
  <2>1. cli.at = "config" /\ "connect" \in Places \ {"exit"}
    BY <1>3 DEF Cli!ReadConfig, Places
  <2>2. CASE Cli!Goes("connect")
    BY <2>1, <2>2, GoesOn DEF Answered, Waiting
  <2>3. CASE \E err \in {"config", "option"} : Cli!Exits(Cli!ExitCode(err))
    BY <2>1, <2>3, FailsPlainly DEF Waiting
  <2> QED BY <1>3, <2>2, <2>3 DEF Cli!ReadConfig
<1> QED BY <1>1, <1>2, <1>3

\* A request that fails: the timer's or the user's abort, or a broken connection,
\* of which only one before the answer is tried again.
LEMMA FailsKeep ==
  ASSUME CliGood, NEW broken \in {"network", "stream"}, cli.at \in {"connect", "fetch", "read"},
         Cli!FailsWith(Cli!Failure(broken)), broken = "network" => cli.at = "fetch"
  PROVE  CliKept
<1> DEFINE err == Cli!Failure(broken)
<1>1. /\ err = "network" => broken = "network"
      /\ cli.interrupted => cli.idle \/ err = "aborted"
  BY DEF Cli!Failure
<1> HIDE DEF err
<1>2. CASE Cli!Retries(err)
  <2>1. cli.at = "fetch" /\ ~cli.interrupted
    BY <1>1, <1>2 DEF Cli!Retries
  <2>2. /\ cli' = [cli EXCEPT !.at = "backoff"] /\ srv' = srv
        /\ wire' = [wire EXCEPT ![cli.attempt] = Hangup(cli.attempt)]
    BY <1>2, CliFacts DEF Cli!FailsWith, err
  <2>3. "backoff" \in Places \ {"exit"}
    BY DEF Places
  <2>4. CliTypes' /\ CliInv'
    BY <2>1, <2>2, <2>3, GoesKeeps DEF Answered
  <2>5. CliTouches
    BY <2>2, LeftAlone
  <2> QED BY <2>4, <2>5 DEF CliKept
<1>3. CASE ~Cli!Retries(err)
  <2>1. Cli!Exits(Cli!ExitCode(err))
    BY <1>3 DEF Cli!FailsWith, err
  <2>2. Cli!ExitCode(err) \in {1, 2, 3, 4, 5, 130} /\ (err = "aborted" => Cli!ExitCode(err) = 130)
    BY ExitCodes
  <2>3. /\ Cli!ExitCode(err) \in {0, 1, 2, 3, 4, 5, 130}
        /\ Cli!ExitCode(err) # 0
    BY <2>2
  <2> QED BY <1>1, <2>1, <2>2, <2>3, ExitsWith
<1> QED BY <1>2, <1>3

\* Connect: the request is sent, unless Ctrl-C came first.
LEMMA ConnectKeeps ==
  ASSUME CliGood, Cli!Connect
  PROVE  CliKept
<1>1. cli.at = "connect" /\ cli.attempt \in Calls /\ wire \in [Calls -> Wires] /\ Cli!Now = cli.attempt
  BY CliFacts DEF Cli!Connect
<1>2. CASE cli.interrupted
  <2> DEFINE err == Cli!Failure("network")
  <2>1. Cli!Exits(Cli!ExitCode(err)) /\ (cli.idle \/ err = "aborted")
    BY <1>2 DEF Cli!Connect, Cli!Failure
  <2> HIDE DEF err
  <2>2. Cli!ExitCode(err) \in {1, 2, 3, 4, 5, 130} /\ (err = "aborted" => Cli!ExitCode(err) = 130)
    BY ExitCodes
  <2>3. /\ Cli!ExitCode(err) \in {0, 1, 2, 3, 4, 5, 130}
        /\ Cli!ExitCode(err) # 0
    BY <2>2
  <2> QED BY <1>1, <2>1, <2>2, <2>3, ExitsWith
<1>3. CASE ~cli.interrupted
  <2> DEFINE w == wire[cli.attempt]
             v == [w EXCEPT !.sent = TRUE]
  <2>1. v \in Wires /\ ClientTouches(w, v)
    BY <1>1 DEF Wires, ClientTouches
  <2>2. srv' = srv /\ cli' = [cli EXCEPT !.at = "fetch"] /\ wire' = [wire EXCEPT ![cli.attempt] = v]
    BY <1>1, <1>3 DEF Cli!Connect
  <2>3. "fetch" \in Places \ {"exit"}
    BY DEF Places
  <2>4. CliTypes' /\ CliInv'
    BY <1>1, <1>3, <2>2, <2>3, GoesKeeps DEF Answered
  <2>5. \A g \in Calls : ClientTouches(wire[g], wire[g])
    BY DEF ClientTouches
  <2> HIDE DEF v
  <2>6. CliTouches
    BY <1>1, <2>1, <2>2, <2>5 DEF CliTouches
  <2> QED BY <2>4, <2>6 DEF CliKept
<1> QED BY <1>2, <1>3

\* Backoff: the second attempt begins with nothing received.
LEMMA BackoffKeeps ==
  ASSUME CliGood, Cli!Backoff
  PROVE  CliKept
<1> DEFINE nothing == <<>>
<1>1. /\ cli \in Processes /\ cli.at = "backoff" /\ srv' = srv /\ wire' = wire
      /\ cli' = [cli EXCEPT !.at = "connect", !.attempt = 2, !.got = nothing]
      /\ AnswerInv /\ RetriesAreClean /\ CommittedInv /\ InterruptInv
  BY CliFacts DEF Cli!Backoff, Cli!serverVars
<1>2. CliTouches
  BY <1>1, LeftAlone
<1>3. nothing \in Suggested /\ "connect" \in Places /\ Len(nothing) = 0 /\ DOMAIN nothing = {}
  BY DEF Suggested, Places
<1> DEFINE second == 2
<1> HIDE DEF nothing
<1>4. cli' \in Processes
  <2>1. second \in 1 .. 2 /\ cli' = [cli EXCEPT !.at = "connect", !.attempt = second, !.got = nothing]
    BY <1>1
  <2>2. cli \in Processes /\ nothing \in Suggested /\ "connect" \in Places
    BY <1>1, <1>3
  <2> HIDE DEF second
  <2> QED BY <2>1, <2>2 DEF Processes
<1>5. /\ cli'.at = "connect" /\ cli'.attempt = 2 /\ cli'.got = nothing /\ cli'.received = cli.received
      /\ cli'.sigintAt = cli.sigintAt /\ cli'.begun = cli.begun /\ cli'.exit = cli.exit
  BY <1>1 DEF Processes
<1>6. (cli'.done <=> cli.done) /\ (cli'.interrupted <=> cli.interrupted)
  BY <1>1 DEF Processes
<1>7. ~cli.done /\ cli.received = 0 /\ cli.begun = {} /\ cli.exit = 999
  BY <1>1 DEF AnswerInv
<1>8. AnswerInv'
  BY <1>5, <1>6, <1>7 DEF AnswerInv
<1>9. RetriesAreClean'
  BY <1>3, <1>5, <1>7 DEF RetriesAreClean
<1>10. CommittedInv'
  BY <1>5, <1>7 DEF CommittedInv
<1>11. InterruptInv'
  BY <1>1, <1>5, <1>6 DEF InterruptInv
<1> QED BY <1>2, <1>4, <1>8, <1>9, <1>10, <1>11 DEF CliKept, CliTypes, CliInv

\* Headers and ErrorBody: the head of the answer decides how its body is read.
LEMMA HeadersKeep ==
  ASSUME CliGood, Cli!Headers \/ Cli!ErrorBody
  PROVE  CliKept
<1>1. CASE Cli!Headers
  <2> DEFINE next == IF wire[cli.attempt].status = 200 THEN "read" ELSE "errbody"
  <2>1. cli.at = "fetch" /\ ~cli.interrupted /\ Cli!Goes(next)
    BY <1>1, CliFacts DEF Cli!Headers
  <2>2. next \in {"read", "errbody"} /\ next \in Places \ {"exit"}
    BY DEF Places
  <2> HIDE DEF next
  <2> QED BY <2>1, <2>2, GoesOn DEF Answered
<1>2. CASE Cli!ErrorBody
  <2>1. PICK err : Cli!Exits(Cli!ExitCode(err))
    BY <1>2 DEF Cli!ErrorBody
  <2>2. cli.at = "errbody"
    BY <1>2 DEF Cli!ErrorBody
  <2> QED BY <2>1, <2>2, FailsPlainly DEF Waiting
<1> QED BY <1>1, <1>2

\* The end of the body, in order or not, and a fetch that fails.
LEMMA ReadEndsKeep ==
  ASSUME CliGood, Cli!FetchFails \/ Cli!ReadBreaks \/ Cli!ReadEnds
  PROVE  CliKept
<1>1. CASE Cli!FetchFails
  BY <1>1, FailsKeep DEF Cli!FetchFails
<1>2. CASE Cli!ReadBreaks
  BY <1>2, FailsKeep DEF Cli!ReadBreaks
<1>3. CASE Cli!ReadEnds
  <2>1. cli.at = "read" /\ ~cli.interrupted /\ ~cli.idle
    BY <1>3 DEF Cli!ReadEnds
  <2>2. CASE cli.failed \/ ~cli.done
    <3>1. Cli!FailsWith("stream") /\ Cli!Failure("stream") = "stream"
      BY <1>3, <2>1, <2>2 DEF Cli!ReadEnds, Cli!Failure
    <3> QED BY <2>1, <3>1, FailsKeep
  <2>3. CASE Cli!Exits(Cli!ExitCode("no suggestions"))
    BY <2>1, <2>3, FailsPlainly
  <2>4. CASE cli.done /\ Cli!Goes("pick")
    <3>1. "pick" \in Places \ {"exit"}
      BY DEF Places
    <3> QED BY <2>1, <2>4, <3>1, GoesOn DEF Answered
  <2> QED BY <1>3, <2>2, <2>3, <2>4 DEF Cli!ReadEnds
<1> QED BY <1>1, <1>2, <1>3

\* One suggestion more of the call that is read.
LEMMA GotOneMore ==
  ASSUME NEW got \in Suggested, NEW c \in 1 .. 2, NEW i \in Nat,
         \A k \in DOMAIN got : got[k][1] = c
  PROVE  /\ Append(got, <<c, i>>) \in Suggested
         /\ Len(Append(got, <<c, i>>)) = Len(got) + 1
         /\ \A k \in DOMAIN Append(got, <<c, i>>) : Append(got, <<c, i>>)[k][1] = c
<1> DEFINE e == <<c, i>>
           more == Append(got, e)
<1>1. e \in (1 .. 2) \X Nat /\ e[1] = c
  OBVIOUS
<1> HIDE DEF e
<1>2. /\ more \in Suggested /\ Len(more) = Len(got) + 1
      /\ DOMAIN more = 1 .. Len(got) + 1 /\ DOMAIN got = 1 .. Len(got) /\ Len(got) \in Nat
      /\ \A k \in 1 .. Len(got) : more[k] = got[k]
      /\ more[Len(got) + 1] = e
  BY <1>1 DEF Suggested
<1> HIDE DEF more
<1>3. \A k \in DOMAIN more : more[k][1] = c
  <2> SUFFICES ASSUME NEW k \in DOMAIN more PROVE more[k][1] = c
    OBVIOUS
  <2>1. CASE k = Len(got) + 1
    BY <1>1, <1>2, <2>1
  <2>2. CASE k \in 1 .. Len(got)
    BY <1>2, <2>2
  <2> QED BY <1>2, <2>1, <2>2
<1> QED BY <1>2, <1>3 DEF more, e

\* ReadFrame: what is read is what the handler has written.
LEMMA CliFrameKeeps ==
  ASSUME CliGood, Cli!ReadFrame
  PROVE  CliKept
<1> DEFINE n == cli.attempt
           w == wire[n]
           f == w.frames[1]
<1>1. /\ cli \in Processes /\ wire \in [Calls -> Wires] /\ w \in Wires /\ n \in Calls /\ n \in 1 .. 2
      /\ AnswerInv /\ RetriesAreClean /\ CommittedInv /\ InterruptInv
  BY CliFacts DEF Processes
<1>2. /\ cli.at = "read" /\ w.frames # <<>> /\ ~cli.interrupted /\ ~cli.idle /\ srv' = srv
      /\ wire' = [wire EXCEPT ![n].frames = Tail(@)]
  BY CliFacts DEF Cli!ReadFrame
<1>3. CliTouches
  BY <1>1, <1>2, TailTouches DEF CliTouches
<1>4. w.frames \in Seq(Frames) /\ Head(w.frames) = f /\ f \in Frames /\ 1 \in 1 .. Len(w.frames)
  BY <1>1, <1>2 DEF Wires
<1>5. f.kind = "done" => srv[n].goal = "completed"
  <2>1. FrameInv(srv[n], w)
    BY <1>1 DEF CliGood, CallInv
  <2> HIDE DEF f, w
  <2> QED BY <1>4, <2>1 DEF FrameInv, f
<1>6. f.kind = "suggestion" => f.index \in Nat
  <2> HIDE DEF f
  <2> QED BY <1>4, CountAssumption DEF Frames, Suggestion, ErrorFrame, DoneFrame
<1>7. "read" \in Answered /\ cli.begun \in Attempts /\ cli.begun \cup {n} \in Attempts
      /\ cli.begun \cup {n} \subseteq {n} /\ cli.got \in Suggested /\ cli.received \in Nat
      /\ Len(cli.got) = cli.received /\ (\A k \in DOMAIN cli.got : cli.got[k][1] = n)
      /\ cli.exit = 999 /\ cli.sigintAt = "none"
  BY <1>1, <1>2 DEF RetriesAreClean, Processes, Attempts, Answered, AnswerInv, InterruptInv, Cli!Now
<1> DEFINE begun == cli.begun \cup {n}
<1>8. CASE f.kind = "suggestion"
  <2> DEFINE got == Append(cli.got, <<n, f.index>>)
             received == cli.received + 1
  <2>1. got \in Suggested /\ Len(got) = received /\ received \in Nat /\ \A k \in DOMAIN got : got[k][1] = n
    BY <1>1, <1>6, <1>7, <1>8, GotOneMore
  <2>2. cli' = [cli EXCEPT !.got = got, !.received = received, !.begun = begun]
    BY <1>4, <1>8, CliFacts DEF Cli!ReadFrame
  <2>3. begun \in Attempts /\ begun \subseteq {n}
    BY <1>7
  <2> HIDE DEF got, received, begun
  <2>4. cli' \in Processes
    BY <1>1, <2>1, <2>2, <2>3 DEF Processes
  <2>5. /\ cli'.at = "read" /\ cli'.attempt = n /\ cli'.got = got /\ cli'.received = received
        /\ cli'.sigintAt = "none" /\ cli'.begun = begun /\ cli'.exit = 999
    BY <1>1, <1>2, <1>7, <2>2 DEF Processes
  <2>6. (cli'.done <=> cli.done) /\ (cli'.interrupted <=> cli.interrupted)
    BY <1>1, <2>2 DEF Processes
  <2>7. AnswerInv'
    BY <1>1, <1>2, <2>5, <2>6 DEF AnswerInv, Cli!Now
  <2>8. RetriesAreClean'
    BY <2>1, <2>3, <2>5 DEF RetriesAreClean, Cli!Now
  <2>9. CommittedInv' /\ InterruptInv'
    BY <1>2, <2>5, <2>6 DEF CommittedInv, InterruptInv
  <2> QED BY <1>3, <2>4, <2>7, <2>8, <2>9 DEF CliKept, CliTypes, CliInv
<1>9. ASSUME NEW done \in BOOLEAN, NEW failed \in BOOLEAN,
             cli' = [cli EXCEPT !.done = done, !.failed = failed, !.begun = begun],
             done => srv[n].goal = "completed"
      PROVE  CliKept
  <2>1. begun \in Attempts /\ begun \subseteq {n}
    BY <1>7
  <2> HIDE DEF begun
  <2>2. cli' \in Processes
    BY <1>1, <1>9, <2>1 DEF Processes
  <2>3. /\ cli'.at = "read" /\ cli'.attempt = n /\ cli'.got = cli.got /\ cli'.received = cli.received
        /\ cli'.sigintAt = "none" /\ cli'.begun = begun /\ cli'.exit = 999
    BY <1>1, <1>2, <1>7, <1>9 DEF Processes
  <2>4. (cli'.done <=> done) /\ (cli'.interrupted <=> cli.interrupted)
    BY <1>1, <1>9 DEF Processes
  <2>5. AnswerInv'
    BY <1>2, <1>9, <2>3, <2>4 DEF AnswerInv, Cli!Now
  <2>6. RetriesAreClean'
    BY <1>7, <2>1, <2>3 DEF RetriesAreClean, Cli!Now
  <2>7. CommittedInv' /\ InterruptInv'
    BY <1>2, <2>3, <2>4 DEF CommittedInv, InterruptInv
  <2> QED BY <1>3, <2>2, <2>5, <2>6, <2>7 DEF CliKept, CliTypes, CliInv
<1>10. CASE f.kind = "done"
  <2>1. cli' = [cli EXCEPT !.done = TRUE, !.begun = begun]
    BY <1>4, <1>10, CliFacts DEF Cli!ReadFrame
  <2>2. cli' = [cli EXCEPT !.done = TRUE, !.failed = cli.failed, !.begun = begun] /\ cli.failed \in BOOLEAN
    BY <1>1, <2>1 DEF Processes
  <2> QED BY <1>5, <1>9, <1>10, <2>2
<1>11. CASE f.kind \notin {"suggestion", "done"}
  <2>1. cli' = [cli EXCEPT !.failed = TRUE, !.begun = begun]
    BY <1>4, <1>11, CliFacts DEF Cli!ReadFrame
  <2>2. cli' = [cli EXCEPT !.done = cli.done, !.failed = TRUE, !.begun = begun] /\ cli.done \in BOOLEAN
    BY <1>1, <2>1 DEF Processes
  <2>3. cli.done => srv[n].goal = "completed"
    BY <1>1 DEF AnswerInv, Cli!Now
  <2> QED BY <1>9, <2>2, <2>3
<1> QED BY <1>8, <1>10, <1>11

\* IdleFires: the timer's mark, and the connection is closed.
LEMMA IdleKeeps ==
  ASSUME CliGood, Cli!IdleFires
  PROVE  CliKept
<1>1. /\ cli \in Processes /\ cli.at \in {"fetch", "read"} /\ cli' = [cli EXCEPT !.idle = TRUE]
      /\ srv' = srv /\ wire' = [wire EXCEPT ![cli.attempt] = Hangup(cli.attempt)]
      /\ AnswerInv /\ RetriesAreClean /\ CommittedInv /\ InterruptInv
  BY CliFacts DEF Cli!IdleFires
<1>2. CliTouches
  BY <1>1, LeftAlone
<1>3. cli' \in Processes
  BY <1>1 DEF Processes
<1>4. /\ cli'.at = cli.at /\ cli'.attempt = cli.attempt /\ cli'.got = cli.got
      /\ cli'.received = cli.received /\ cli'.sigintAt = cli.sigintAt
      /\ cli'.begun = cli.begun /\ cli'.exit = cli.exit
  BY <1>1 DEF Processes
<1>5. (cli'.done <=> cli.done) /\ (cli'.interrupted <=> cli.interrupted)
  BY <1>1 DEF Processes
<1>6. AnswerInv'
  BY <1>1, <1>4, <1>5 DEF AnswerInv, Cli!Now
<1>7. RetriesAreClean'
  BY <1>1, <1>4 DEF RetriesAreClean, Cli!Now
<1>8. CommittedInv'
  BY <1>1, <1>4 DEF CommittedInv, AnswerInv
<1>9. InterruptInv'
  BY <1>1, <1>4, <1>5 DEF InterruptInv
<1> QED BY <1>2, <1>3, <1>6, <1>7, <1>8, <1>9 DEF CliKept, CliTypes, CliInv

\* Pick, Copy and Finish: to the commit only if it was asked for, and past it never.
LEMMA PickKeeps ==
  ASSUME CliGood, Cli!Pick \/ Cli!Copy \/ Cli!Finish
  PROVE  CliKept
<1>1. AnswerInv
  BY CliFacts
<1>2. CASE Cli!Pick
  <2> DEFINE next == IF WithCopy THEN "copy" ELSE IF WithCommit THEN "commit" ELSE "finish"
  <2>1. cli.at = "pick" /\ cli.done
    BY <1>1, <1>2 DEF Cli!Pick, AnswerInv
  <2>2. CASE Cli!Goes(next)
    <3>1. next \in Places \ {"exit"} /\ next \in Answered /\ (next = "finish" => ~WithCommit)
      BY DEF Places, Answered
    <3> HIDE DEF next
    <3> QED BY <2>1, <2>2, <3>1, GoesOn DEF Waiting
  <2>3. CASE Cli!Exits(Cli!ExitCode("quit"))
    BY <2>1, <2>3, FailsPlainly DEF Waiting
  <2> QED BY <1>2, <2>2, <2>3 DEF Cli!Pick
<1>3. CASE Cli!Copy
  <2> DEFINE next == IF WithCommit THEN "commit" ELSE "finish"
  <2>1. cli.at = "copy" /\ cli.done
    BY <1>1, <1>3 DEF Cli!Copy, AnswerInv
  <2>2. CASE Cli!Goes(next)
    <3>1. next \in Places \ {"exit"} /\ next \in Answered /\ (next = "finish" => ~WithCommit)
      BY DEF Places, Answered
    <3> HIDE DEF next
    <3> QED BY <2>1, <2>2, <3>1, GoesOn DEF Waiting
  <2>3. CASE Cli!Exits(Cli!ExitCode("clipboard"))
    BY <2>1, <2>3, FailsPlainly DEF Waiting
  <2> QED BY <1>3, <2>2, <2>3 DEF Cli!Copy
<1>4. CASE Cli!Finish
  <2>1. cli.at = "finish" /\ Cli!Exits(0)
    BY <1>4 DEF Cli!Finish
  <2> QED BY <2>1, ExitsWith DEF Waiting
<1> QED BY <1>2, <1>3, <1>4

\* Commit: it is made, fails, or git is killed by the Ctrl-C it gets as well.
LEMMA CommitKeeps ==
  ASSUME CliGood, Cli!Commit
  PROVE  CliKept
<1>1. /\ cli \in Processes /\ cli.at = "commit" /\ cli.done
      /\ AnswerInv /\ RetriesAreClean /\ CommittedInv /\ InterruptInv
  BY CliFacts DEF Cli!Commit, AnswerInv
<1>2. CASE cli' = [cli EXCEPT !.at = "finish", !.committed = TRUE] /\ UNCHANGED Cli!serverVars
  <2>1. srv' = srv /\ wire' = wire
    BY <1>2 DEF Cli!serverVars
  <2>2. CliTouches
    BY <2>1, LeftAlone
  <2>3. cli' \in Processes
    <3>1. "finish" \in Places
      BY DEF Places
    <3> QED BY <1>1, <1>2, <3>1 DEF Processes
  <2>4. /\ cli'.at = "finish" /\ cli'.attempt = cli.attempt /\ cli'.got = cli.got
        /\ cli'.received = cli.received /\ cli'.sigintAt = cli.sigintAt
        /\ cli'.begun = cli.begun /\ cli'.exit = cli.exit
    BY <1>1, <1>2 DEF Processes
  <2>5. cli'.committed /\ (cli'.done <=> cli.done) /\ (cli'.interrupted <=> cli.interrupted)
    BY <1>1, <1>2 DEF Processes
  <2>6. AnswerInv'
    BY <1>1, <2>1, <2>4, <2>5 DEF AnswerInv, Cli!Now
  <2>7. RetriesAreClean'
    BY <1>1, <2>4 DEF RetriesAreClean, Cli!Now
  <2>8. CommittedInv'
    BY <2>5 DEF CommittedInv
  <2>9. InterruptInv'
    BY <1>1, <2>4, <2>5 DEF InterruptInv
  <2> QED BY <2>2, <2>3, <2>6, <2>7, <2>8, <2>9 DEF CliKept, CliTypes, CliInv
<1>3. CASE Cli!Exits(Cli!ExitCode("git"))
  BY <1>1, <1>3, FailsPlainly DEF Waiting
<1>4. CASE Cli!GitKilled /\ Cli!Goes("finish")
  <2>1. cli.sigintAt = "commit" /\ Cli!Goes("finish") /\ "finish" \in Places \ {"exit"}
    BY <1>1, <1>4 DEF Cli!GitKilled, Places
  <2> QED BY <1>1, <2>1, GoesOn DEF Answered, Waiting
<1> QED BY <1>2, <1>3, <1>4 DEF Cli!Commit

\* Ctrl-C: the place where it came is kept, and a connection in use is closed.
LEMMA InterruptKeeps ==
  ASSUME CliGood, Cli!Interrupt
  PROVE  CliKept
<1>1. /\ cli \in Processes /\ cli.at # "exit" /\ ~cli.interrupted /\ cli.at \in Places
      /\ AnswerInv /\ RetriesAreClean /\ CommittedInv /\ InterruptInv
  BY CliFacts DEF Cli!Interrupt, Cli!Live, Processes
<1>2. /\ srv' = srv /\ cli' = [cli EXCEPT !.interrupted = TRUE, !.sigintAt = cli.at]
      /\ wire' = wire \/ wire' = [wire EXCEPT ![cli.attempt] = Hangup(cli.attempt)]
  BY CliFacts DEF Cli!Interrupt
<1>3. CliTouches
  BY <1>2, LeftAlone
<1>4. cli' \in Processes
  <2>1. cli.at \in Signals
    BY <1>1 DEF Signals
  <2> QED BY <1>1, <1>2, <2>1 DEF Processes
<1>5. /\ cli'.at = cli.at /\ cli'.attempt = cli.attempt /\ cli'.got = cli.got
      /\ cli'.received = cli.received /\ cli'.sigintAt = cli.at
      /\ cli'.begun = cli.begun /\ cli'.exit = cli.exit
  BY <1>1, <1>2 DEF Processes
<1>6. (cli'.done <=> cli.done) /\ cli'.interrupted /\ (cli'.committed <=> cli.committed)
  BY <1>1, <1>2 DEF Processes
<1>7. AnswerInv'
  BY <1>1, <1>2, <1>5, <1>6 DEF AnswerInv, Cli!Now
<1>8. RetriesAreClean'
  BY <1>1, <1>5 DEF RetriesAreClean, Cli!Now
<1>9. cli.sigintAt = "none" /\ cli.at # "none" /\ cli.exit = 999
  BY <1>1 DEF InterruptInv, Places, AnswerInv
<1>10. CommittedInv'
  BY <1>1, <1>5, <1>6, <1>9 DEF CommittedInv
<1>11. InterruptInv'
  BY <1>5, <1>6, <1>9 DEF InterruptInv
<1> QED BY <1>3, <1>4, <1>7, <1>8, <1>10, <1>11 DEF CliKept, CliTypes, CliInv

\* Every step of the CLI.
LEMMA CliNextKeeps ==
  ASSUME CliGood, CliNext
  PROVE  CliKept
<1>1. Cli!CliStep \/ Cli!Interrupt
  BY DEF CliNext
<1> QED BY <1>1, BeforeTheRequest, ConnectKeeps, HeadersKeep, ReadEndsKeep, CliFrameKeeps, IdleKeeps,
           BackoffKeeps, PickKeeps, CommitKeeps, InterruptKeeps DEF Cli!CliStep

-----------------------------------------------------------------------------
\* A command's steps

Results == {r \in [n : 1 .. PerRun, ok : 0 .. PerRun] : r.ok <= r.n} \cup {[n |-> 0, ok |-> 0]}
Rows == Seq({"failed", "completed"})
Events == SUBSET {"failed", "completed"}
Commands ==
  [at : {"start", "first", "second", "persist", "over"}, policy : BOOLEAN,
   first : Results, chosen : Results, regenerated : BOOLEAN,
   goal : {"none", "failed", "completed"}, rows : Rows, published : Events,
   answer : {"none", "thrown", "stored", "not stored"}]
CommandTypes == cmd \in Commands

\* What runs and commands are called in the handler's module.
LEMMA CommandNames ==
  /\ Command!CommandTypeOK <=> CommandTypes
  /\ Command!NoRun \in Results
  /\ \A r \in Command!ProviderRuns : r \in Results /\ r.n > 0 /\ r.n \in Nat /\ r.ok \in Nat
  /\ \A r \in Results : r.ok \in Nat
<1>1. Command!CommandTypeOK <=> CommandTypes
  BY DEF Command!CommandTypeOK, CommandTypes, Commands, Results, Rows, Events, Command!ProviderRuns, Command!NoRun
<1>2. Command!NoRun \in Results
  BY DEF Command!NoRun, Results
<1>3. \A r \in Command!ProviderRuns : r \in Results /\ r.n > 0 /\ r.n \in Nat /\ r.ok \in Nat
  BY PerRunAssumption DEF Command!ProviderRuns, Results
<1>4. \A r \in Results : r.ok \in Nat
  BY PerRunAssumption DEF Results
<1> QED BY <1>1, <1>2, <1>3, <1>4

\* Before the persist nothing is stored, published or answered.
LEMMA ResolveKeeps ==
  ASSUME CommandTypes, CommandInv, Command!Resolve
  PROVE  CommandTypes' /\ CommandInv'
<1>1. cmd \in Commands /\ cmd.at = "start"
  BY DEF CommandTypes, Command!Resolve
<1>2. CASE cmd' = [cmd EXCEPT !.at = "over", !.answer = "thrown"]
  <2>1. cmd' \in Commands
    BY <1>1, <1>2 DEF Commands
  <2>2. /\ cmd'.at = "over" /\ cmd'.answer = "thrown" /\ cmd'.goal = cmd.goal /\ cmd'.rows = cmd.rows
        /\ cmd'.published = cmd.published
    BY <1>1, <1>2 DEF Commands
  <2>3. cmd.goal = "none" /\ cmd.rows = <<>> /\ cmd.published = {}
    BY <1>1 DEF CommandInv
  <2> QED BY <2>1, <2>2, <2>3 DEF CommandTypes, CommandInv
<1>3. CASE \E p \in BOOLEAN : cmd' = [cmd EXCEPT !.at = "first", !.policy = p]
  <2>1. PICK p \in BOOLEAN : cmd' = [cmd EXCEPT !.at = "first", !.policy = p]
    BY <1>3
  <2>2. cmd' \in Commands
    BY <1>1, <2>1 DEF Commands
  <2>3. /\ cmd'.at = "first" /\ cmd'.answer = cmd.answer /\ cmd'.goal = cmd.goal /\ cmd'.rows = cmd.rows
        /\ cmd'.published = cmd.published
    BY <1>1, <2>1 DEF Commands
  <2>4. cmd.goal = "none" /\ cmd.rows = <<>> /\ cmd.published = {} /\ cmd.answer = "none"
    BY <1>1 DEF CommandInv
  <2> QED BY <2>2, <2>3, <2>4 DEF CommandTypes, CommandInv
<1> QED BY <1>2, <1>3 DEF Command!Resolve

\* FirstRun: it fails, is kept, or is to be done again.
LEMMA FirstRunKeeps ==
  ASSUME CommandTypes, CommandInv, Command!FirstRun
  PROVE  CommandTypes' /\ CommandInv'
<1>1. cmd \in Commands /\ cmd.at = "first"
  BY DEF CommandTypes, Command!FirstRun
<1>2. cmd.rows = <<>> /\ cmd.published = {} /\ cmd.answer = "none"
  BY <1>1 DEF CommandInv
<1>3. CASE cmd' = [cmd EXCEPT !.at = "persist", !.goal = "failed"]
  <2>1. cmd' \in Commands
    BY <1>1, <1>3 DEF Commands
  <2>2. /\ cmd'.at = "persist" /\ cmd'.answer = cmd.answer /\ cmd'.goal = "failed" /\ cmd'.rows = cmd.rows
        /\ cmd'.published = cmd.published
    BY <1>1, <1>3 DEF Commands
  <2> QED BY <1>2, <2>1, <2>2 DEF CommandTypes, CommandInv
<1>4. ASSUME NEW r \in Command!ProviderRuns, NEW at, NEW goal,
             \/ at = "second" /\ goal = "none"
             \/ at = "persist" /\ goal = "completed",
             cmd' = [cmd EXCEPT !.first = r, !.chosen = r, !.at = at, !.goal = goal]
      PROVE  CommandTypes' /\ CommandInv'
  <2>1. r \in Results /\ r.n > 0 /\ r.ok >= r.ok
    BY CommandNames
  <2>2. cmd' \in Commands
    BY <1>1, <1>4, <2>1 DEF Commands
  <2>3. /\ cmd'.at = at /\ cmd'.answer = cmd.answer /\ cmd'.goal = goal /\ cmd'.rows = cmd.rows
        /\ cmd'.published = cmd.published /\ cmd'.first = r /\ cmd'.chosen = r
    BY <1>1, <1>4 DEF Commands
  <2> QED BY <1>2, <1>4, <2>1, <2>2, <2>3 DEF CommandTypes, CommandInv
<1>5. CASE \E r \in Command!ProviderRuns, enabled \in BOOLEAN :
             /\ cmd.policy \/ r.ok = r.n
             /\ LET again == cmd.policy /\ enabled /\ r.ok < r.n IN
                cmd' = [cmd EXCEPT !.first = r, !.chosen = r,
                                   !.at = IF again THEN "second" ELSE "persist",
                                   !.goal = IF again THEN "none" ELSE "completed"]
  <2>1. PICK r \in Command!ProviderRuns, enabled \in BOOLEAN :
          LET again == cmd.policy /\ enabled /\ r.ok < r.n IN
          cmd' = [cmd EXCEPT !.first = r, !.chosen = r,
                             !.at = IF again THEN "second" ELSE "persist",
                             !.goal = IF again THEN "none" ELSE "completed"]
    BY <1>5
  <2> DEFINE again == cmd.policy /\ enabled /\ r.ok < r.n
             at == IF again THEN "second" ELSE "persist"
             goal == IF again THEN "none" ELSE "completed"
  <2>2. cmd' = [cmd EXCEPT !.first = r, !.chosen = r, !.at = at, !.goal = goal]
    BY <2>1
  <2>3. \/ at = "second" /\ goal = "none"
        \/ at = "persist" /\ goal = "completed"
    OBVIOUS
  <2> HIDE DEF at, goal
  <2> QED BY <1>4, <2>2, <2>3
<1> QED BY <1>3, <1>5 DEF Command!FirstRun

\* SecondRun: it fails, and takes the first with it, or is taken if it complies better.
LEMMA SecondRunKeeps ==
  ASSUME CommandTypes, CommandInv, Command!SecondRun
  PROVE  CommandTypes' /\ CommandInv'
<1>1. cmd \in Commands /\ cmd.at = "second" /\ cmd.first \in Results /\ cmd.chosen \in Results
  BY DEF CommandTypes, Command!SecondRun, Commands
<1>2. cmd.rows = <<>> /\ cmd.published = {} /\ cmd.answer = "none" /\ cmd.chosen = cmd.first
      /\ cmd.chosen.n > 0
  BY <1>1 DEF CommandInv
<1>3. CASE cmd' = [cmd EXCEPT !.at = "persist", !.goal = "failed", !.chosen = Command!NoRun]
  <2>1. cmd' \in Commands
    BY <1>1, <1>3, CommandNames DEF Commands
  <2>2. /\ cmd'.at = "persist" /\ cmd'.answer = cmd.answer /\ cmd'.goal = "failed" /\ cmd'.rows = cmd.rows
        /\ cmd'.published = cmd.published
    BY <1>1, <1>3 DEF Commands
  <2> QED BY <1>2, <2>1, <2>2 DEF CommandTypes, CommandInv
<1>4. CASE \E r \in Command!ProviderRuns :
             LET better == r.ok > cmd.chosen.ok IN
             cmd' = [cmd EXCEPT !.at = "persist", !.goal = "completed",
                                !.chosen = IF better THEN r ELSE @, !.regenerated = better]
  <2>1. PICK r \in Command!ProviderRuns :
          LET better == r.ok > cmd.chosen.ok IN
          cmd' = [cmd EXCEPT !.at = "persist", !.goal = "completed",
                             !.chosen = IF better THEN r ELSE @, !.regenerated = better]
    BY <1>4
  <2> DEFINE better == r.ok > cmd.chosen.ok
             chosen == IF better THEN r ELSE cmd.chosen
  <2>2. cmd' = [cmd EXCEPT !.at = "persist", !.goal = "completed", !.chosen = chosen, !.regenerated = better]
    BY <2>1
  <2>3. /\ r \in Results /\ r.n > 0 /\ r.ok \in Nat /\ cmd.chosen.ok \in Nat
        /\ r.n \in Nat
    BY <1>1, CommandNames
  <2>4. chosen \in Results /\ chosen.ok >= cmd.first.ok /\ chosen.n > 0 /\ better \in BOOLEAN
    BY <1>1, <1>2, <2>3
  <2> HIDE DEF better, chosen
  <2>5. cmd' \in Commands
    BY <1>1, <2>2, <2>4 DEF Commands
  <2>6. /\ cmd'.at = "persist" /\ cmd'.answer = cmd.answer /\ cmd'.goal = "completed"
        /\ cmd'.rows = cmd.rows /\ cmd'.published = cmd.published /\ cmd'.first = cmd.first
        /\ cmd'.chosen = chosen
    BY <1>1, <2>2 DEF Commands
  <2> QED BY <1>2, <2>3, <2>4, <2>5, <2>6 DEF CommandTypes, CommandInv
<1> QED BY <1>3, <1>4 DEF Command!SecondRun

\* PersistCommand: the row and its event, or neither; the answer is the chosen run's.
LEMMA PersistCommandKeeps ==
  ASSUME CommandTypes, CommandInv, NEW stored \in BOOLEAN, Command!PersistCommand(stored)
  PROVE  CommandTypes' /\ CommandInv'
<1>1. cmd \in Commands /\ cmd.at = "persist" /\ cmd.goal \in {"failed", "completed"}
  BY DEF CommandTypes, Command!PersistCommand, Commands, CommandInv
<1>2. /\ cmd.rows = <<>> /\ cmd.published = {}
      /\ cmd.goal = "completed" => cmd.chosen.n > 0 /\ cmd.chosen.ok >= cmd.first.ok
  BY <1>1 DEF CommandInv
<1> DEFINE rows == IF stored THEN Append(cmd.rows, cmd.goal) ELSE cmd.rows
           events == IF stored THEN {cmd.goal} ELSE {}
           answer == IF cmd.goal = "failed" THEN "thrown" ELSE IF stored THEN "stored" ELSE "not stored"
<1>3. cmd' = [cmd EXCEPT !.at = "over", !.rows = rows, !.published = events, !.answer = answer]
  BY DEF Command!PersistCommand
<1>4. rows = IF stored THEN <<cmd.goal>> ELSE <<>>
  BY <1>2
<1>5. rows \in Rows /\ (Len(rows) = 0 \/ Len(rows) = 1)
  <2>1. <<cmd.goal>> \in Seq({"failed", "completed"}) /\ <<>> \in Seq({"failed", "completed"})
    BY <1>1
  <2>2. Len(<<cmd.goal>>) = 1 /\ Len(<<>>) = 0
    OBVIOUS
  <2>3. rows = <<cmd.goal>> \/ rows = <<>>
    BY <1>4
  <2> HIDE DEF rows
  <2>4. rows \in Rows
    BY <2>1, <2>3 DEF Rows
  <2>5. Len(rows) = 0 \/ Len(rows) = 1
    BY <2>2, <2>3
  <2> QED BY <2>4, <2>5
<1>6. events \in Events /\ answer \in {"none", "thrown", "stored", "not stored"}
  BY <1>1 DEF Events
<1>7. \A e \in events : rows = <<e>>
  BY <1>4
<1>8. answer \in {"stored", "not stored"} => cmd.goal = "completed"
  BY <1>1
<1> HIDE DEF rows, events, answer
<1>9. cmd' \in Commands
  BY <1>1, <1>3, <1>5, <1>6 DEF Commands
<1>10. /\ cmd'.at = "over" /\ cmd'.answer = answer /\ cmd'.goal = cmd.goal /\ cmd'.rows = rows
       /\ cmd'.published = events /\ cmd'.first = cmd.first /\ cmd'.chosen = cmd.chosen
  BY <1>1, <1>3 DEF Commands
<1>11. Len(cmd'.rows) = 0 \/ Len(cmd'.rows) = 1
  BY <1>5, <1>10
<1>12. Len(cmd'.rows) <= 1
  <2> DEFINE n == Len(cmd'.rows)
  <2>1. n = 0 \/ n = 1
    BY <1>11
  <2> HIDE DEF n
  <2>2. n <= 1
    BY <2>1
  <2> QED BY <2>2 DEF n
<1>13. \A e \in cmd'.published : cmd'.rows = <<e>>
  BY <1>7, <1>10
<1> QED BY <1>2, <1>8, <1>9, <1>10, <1>12, <1>13 DEF CommandTypes, CommandInv

\* Every step of a command.
LEMMA CommandNextKeeps ==
  ASSUME CommandTypes, CommandInv, CommandNext
  PROVE  CommandTypes' /\ CommandInv'
<1>1. Command!CommandStep
  BY DEF CommandNext
<1> QED BY <1>1, ResolveKeeps, FirstRunKeeps, SecondRunKeeps, PersistCommandKeeps DEF Command!CommandStep

-----------------------------------------------------------------------------
\* The composition

\* The CLI's steps, as the page's part sees them: no run has begun.
LEMMA CliKeepsWeb ==
  ASSUME WebGood, client = "cli", CliTouches, UNCHANGED <<client, page, ws>>
  PROVE  WebGood'
<1>1. /\ ServerTypeOK /\ PageTypes /\ RunTypes /\ RunsInv /\ SentInv
      /\ EndingShown /\ OneRunShown /\ CancelledIsMeant
      /\ \A c \in Calls : CallInv(srv[c], wire[c])
  BY DEF WebGood, WebInv
<1>2. srv' = srv /\ page' = page /\ ws' = ws /\ client' = client
  BY DEF CliTouches
<1>3. ServerTypeOK' /\ \A g \in Calls : CallInv(srv'[g], wire'[g])
  BY <1>1, ClosingKeepsCalls DEF CliTouches
<1>4. \A c \in Calls : ws[c].at = "unused"
  BY <1>1 DEF SentInv
<1>5. \A c \in Calls : ~Web!Runs(c)' /\ (Web!Runs(c)' <=> Web!Runs(c))
  BY <1>2, <1>4 DEF Web!Runs
<1>6. RunsInv'
  BY <1>1, <1>2, <1>5 DEF RunsInv
<1>7. SentInv'
  BY <1>2, <1>4 DEF SentInv
<1>8. RestInv'
  BY <1>5 DEF RestInv
<1>9. EndingShown' /\ OneRunShown' /\ CancelledIsMeant'
  BY <1>1, <1>2 DEF EndingShown, OneRunShown, CancelledIsMeant
<1> QED BY <1>1, <1>2, <1>3, <1>6, <1>7, <1>8, <1>9 DEF WebGood, WebInv, PageTypes, RunTypes

\* What the CLI has been told stays true: a handler's goal is set once.
LEMMA ServerKeepsCli ==
  ASSUME CliGood, NEW g \in Calls, ServerMoves(g), cli' = cli
  PROVE  CliTypes' /\ CliInv'
<1>1. cli.attempt \in Calls /\ AnswerInv /\ RetriesAreClean /\ CommittedInv /\ InterruptInv
  BY CliFacts
<1>2. srv[cli.attempt].goal = "completed" => srv'[cli.attempt].goal = "completed"
  BY <1>1 DEF ServerMoves, Follows
<1>3. AnswerInv'
  BY <1>1, <1>2 DEF AnswerInv, Cli!Now
<1>4. RetriesAreClean' /\ CommittedInv' /\ InterruptInv'
  BY <1>1 DEF RetriesAreClean, CommittedInv, InterruptInv, Cli!Now
<1> QED BY <1>3, <1>4 DEF CliGood, CliTypes, CliInv

\* The page's steps leave the handlers and the CLI alone.
LEMMA WebLeavesServer ==
  ASSUME WebNext
  PROVE  srv' = srv /\ cli' = cli /\ cmd' = cmd /\ client' = client
BY DEF WebNext, Web!Start, Web!RunStep, Web!Cancel, Web!Unmount, Web!Post, Web!Aborted, Web!FetchRejects,
       Web!Head200, Web!ErrorText, Web!ReadFrame, Web!ReadEnds, Web!ReadBreaks, Web!Ends, Web!serverVars

\* A state in which nothing but another component has moved.
LEMMA SameCli ==
  ASSUME CliGood, srv' = srv, cli' = cli
  PROVE  CliTypes' /\ CliInv'
<1>1. AnswerInv /\ RetriesAreClean /\ CommittedInv /\ InterruptInv
  BY CliFacts
<1>2. AnswerInv' /\ RetriesAreClean' /\ CommittedInv' /\ InterruptInv'
  BY <1>1 DEF AnswerInv, RetriesAreClean, CommittedInv, InterruptInv, Cli!Now
<1> QED BY <1>2 DEF CliGood, CliTypes, CliInv

\* The page's part of a state that only other components have changed.
LEMMA SameWeb ==
  ASSUME WebGood, UNCHANGED <<client, srv, wire, page, ws>>
  PROVE  WebGood'
<1>1. /\ ServerTypeOK /\ PageTypes /\ RunTypes /\ RunsInv /\ SentInv /\ RestInv
      /\ EndingShown /\ OneRunShown /\ CancelledIsMeant
      /\ \A c \in Calls : CallInv(srv[c], wire[c])
  BY DEF WebGood, WebInv
<1>2. \A c \in Calls : Web!Runs(c)' <=> Web!Runs(c)
  BY DEF Web!Runs
<1>3. RunsInv' /\ SentInv' /\ RestInv'
  BY <1>1, <1>2 DEF RunsInv, SentInv, RestInv
<1>4. EndingShown' /\ OneRunShown' /\ CancelledIsMeant'
  BY <1>1 DEF EndingShown, OneRunShown, CancelledIsMeant
<1>5. ServerTypeOK' /\ PageTypes' /\ RunTypes'
  BY <1>1 DEF ServerTypeOK, PageTypes, RunTypes
<1>6. \A c \in Calls : CallInv(srv'[c], wire'[c])
  BY <1>1
<1> QED BY <1>3, <1>4, <1>5, <1>6 DEF WebGood, WebInv

\* The invariant is that of the parts.
LEMMA InvParts == Inv <=> WebGood /\ CliTypes /\ CliInv /\ CommandTypes /\ CommandInv
BY WebNames, CliNames, CommandNames DEF Inv, TypeOK, WebGood

\* Initially nothing has been asked.
LEMMA InitKeeps == GenerationInit => Inv
<1> SUFFICES ASSUME GenerationInit PROVE Inv
  OBVIOUS
<1>1. /\ client \in {"web", "cli", "command"}
      /\ srv = [g \in Calls |-> NewHandler] /\ wire = [g \in Calls |-> NoWire]
      /\ page = Web!Blank /\ ws = [g \in Calls |-> Web!NewRun]
      /\ cli = Cli!NewCli /\ cmd = Command!NewCommand
  BY DEF GenerationInit, ServerInit, Web!WebInit, Web!Calls, Calls
<1>2. /\ NewHandler \in Handlers /\ NewHandler.at = "idle" /\ NewHandler.goal = "none"
      /\ NewHandler.rows = <<>> /\ NewHandler.published = {} /\ ~NewHandler.aborted /\ ~NewHandler.closed
      /\ NoWire \in Wires /\ NoWire.frames = <<>> /\ NoWire.status = 0
  BY FrameTypes DEF NewHandler, NoWire
<1>3. ServerTypeOK
  BY <1>1, <1>2 DEF ServerTypeOK
<1>4. CallInv(NewHandler, NoWire)
  <2>1. Len(NoWire.frames) = 0
    BY <1>2
  <2>2. FrameInv(NewHandler, NoWire)
    BY <2>1 DEF FrameInv
  <2>3. HandlerInv(NewHandler, NoWire) /\ RowInv(NewHandler)
    BY <1>2 DEF HandlerInv, RowInv
  <2> QED BY <2>2, <2>3 DEF CallInv
<1>5. \A g \in Calls : CallInv(srv[g], wire[g])
  BY <1>1, <1>4
<1>6. PageTypes /\ RunTypes
  BY <1>1 DEF PageTypes, RunTypes, Web!Blank, Web!NewRun, Web!NoCall
<1>7. /\ page.cur = 0 /\ page.status = "idle" /\ page.done = "none" /\ page.shown = <<>>
      /\ \A c \in Calls : ws[c].at = "unused" /\ ~ws[c].aborted /\ wire[c] = NoWire /\ c # 0
  BY <1>1 DEF Web!Blank, Web!NewRun, Web!NoCall, Calls
<1>8. \A c \in Calls : ~Web!Runs(c)
  BY <1>7 DEF Web!Runs
<1>9. RunsInv /\ SentInv /\ RestInv
  BY <1>7, <1>8 DEF RunsInv, SentInv, RestInv
<1>10. EndingShown /\ OneRunShown /\ CancelledIsMeant
  BY <1>7 DEF EndingShown, OneRunShown, CancelledIsMeant
<1>11. CliTypes
  BY <1>1 DEF CliTypes, Cli!NewCli, Processes, Places, Signals, Suggested, Attempts, Codes
<1>12. /\ cli.at = "worktree" /\ cli.exit = 999 /\ cli.sigintAt = "none" /\ cli.got = <<>>
       /\ cli.received = 0 /\ cli.begun = {} /\ cli.attempt = 1
       /\ ~cli.done /\ ~cli.interrupted
  BY <1>1 DEF Cli!NewCli
<1>13. CliInv
  <2>1. Len(cli.got) = 0 /\ DOMAIN cli.got = {}
    BY <1>12
  <2>2. AnswerInv /\ CommittedInv /\ InterruptInv
    BY <1>12 DEF AnswerInv, CommittedInv, InterruptInv
  <2>3. RetriesAreClean
    BY <1>12, <2>1 DEF RetriesAreClean
  <2> QED BY <2>2, <2>3 DEF CliInv
<1>14. CommandTypes
  <2>1. <<>> \in Rows /\ {} \in Events /\ Command!NoRun \in Results
    BY CommandNames DEF Rows, Events
  <2> QED BY <1>1, <2>1 DEF CommandTypes, Commands, Command!NewCommand
<1>15. CommandInv
  <2>1. cmd.at = "start" /\ cmd.goal = "none" /\ cmd.rows = <<>> /\ cmd.published = {} /\ cmd.answer = "none"
    BY <1>1 DEF Command!NewCommand
  <2> QED BY <2>1 DEF CommandInv
<1>16. WebGood
  BY <1>3, <1>5, <1>6, <1>9, <1>10 DEF WebGood, WebInv
<1> QED BY <1>11, <1>13, <1>14, <1>15, <1>16, InvParts

\* Every step, of whichever component, keeps the invariant.
LEMMA NextKeeps == Inv /\ [Next]_vars => Inv'
<1> SUFFICES ASSUME Inv, [Next]_vars
             PROVE  WebGood' /\ CliTypes' /\ CliInv' /\ CommandTypes' /\ CommandInv'
  BY InvParts, PTL
<1>1. WebGood /\ CliTypes /\ CliInv /\ CommandTypes /\ CommandInv
  BY InvParts
<1>2. /\ ServerTypeOK /\ \A g \in Calls : CallInv(srv[g], wire[g])
  BY <1>1 DEF WebGood
<1>3. CliGood
  BY <1>1, <1>2 DEF CliGood
<1>4. CASE ServerNext
  <2>1. PICK g \in Calls : ServerMoves(g)
    BY <1>2, <1>4, ServerNextMoves
  <2>2. UNCHANGED <<client, page, ws>> /\ cli' = cli /\ cmd' = cmd
    BY <1>4 DEF ServerNext, clientVars
  <2>3. WebGood'
    BY <1>1, <2>1, <2>2, ServerKeepsWeb
  <2>4. CliTypes' /\ CliInv'
    BY <1>3, <2>1, <2>2, ServerKeepsCli
  <2>5. CommandTypes' /\ CommandInv'
    BY <1>1, <2>2 DEF CommandTypes, CommandInv
  <2> QED BY <2>3, <2>4, <2>5
<1>5. CASE WebNext
  <2>1. WebGood'
    BY <1>1, <1>5, WebNextKeeps
  <2>2. srv' = srv /\ cli' = cli /\ cmd' = cmd
    BY <1>5, WebLeavesServer
  <2>3. CliTypes' /\ CliInv'
    BY <1>3, <2>2, SameCli
  <2>4. CommandTypes' /\ CommandInv'
    BY <1>1, <2>2 DEF CommandTypes, CommandInv
  <2> QED BY <2>1, <2>3, <2>4
<1>6. CASE CliNext
  <2>1. CliTouches /\ CliTypes' /\ CliInv'
    BY <1>3, <1>6, CliNextKeeps DEF CliKept
  <2>2. client = "cli" /\ UNCHANGED <<client, page, ws>> /\ cmd' = cmd
    BY <1>6 DEF CliNext
  <2>3. WebGood'
    BY <1>1, <2>1, <2>2, CliKeepsWeb
  <2>4. CommandTypes' /\ CommandInv'
    BY <1>1, <2>2 DEF CommandTypes, CommandInv
  <2> QED BY <2>1, <2>3, <2>4
<1>7. CASE CommandNext
  <2>1. UNCHANGED <<client, srv, wire, page, ws>> /\ cli' = cli
    BY <1>7 DEF CommandNext
  <2>2. CommandTypes' /\ CommandInv'
    BY <1>1, <1>7, CommandNextKeeps
  <2>3. WebGood' /\ CliTypes' /\ CliInv'
    BY <1>1, <1>3, <2>1, SameWeb, SameCli
  <2> QED BY <2>2, <2>3
<1>8. CASE UNCHANGED vars
  <2>1. UNCHANGED <<client, srv, wire, page, ws>> /\ cli' = cli /\ cmd' = cmd
    BY <1>8 DEF vars
  <2>2. CommandTypes' /\ CommandInv'
    BY <1>1, <2>1 DEF CommandTypes, CommandInv
  <2>3. WebGood' /\ CliTypes' /\ CliInv'
    BY <1>1, <1>3, <2>1, SameWeb, SameCli
  <2> QED BY <2>2, <2>3
<1> QED BY <1>4, <1>5, <1>6, <1>7, <1>8 DEF Next

\* The invariant holds throughout.
LEMMA AlwaysInv == Spec => []Inv
BY InitKeeps, NextKeeps, PTL DEF Spec

-----------------------------------------------------------------------------
\* The run's properties

\* TypeOK, for every number of calls and suggestions.
THEOREM GenerationTypes == Spec => []TypeOK
<1>1. Inv => TypeOK
  BY DEF Inv
<1> QED BY <1>1, AlwaysInv, PTL

\* A call leaves at most one row, which tells what happened (the persists of
\* generation-stream.service.ts).
THEOREM RowsTruth == Spec => []RowsTellTheTruth
<1>1. Inv => RowsTellTheTruth
  <2> SUFFICES ASSUME Inv, NEW g \in Calls
               PROVE  /\ Len(srv[g].rows) <= 1
                      /\ srv[g].rows = <<"cancelled">> => srv[g].aborted /\ wire[g].gone
                      /\ srv[g].rows = <<"completed">> => srv[g].collected > 0
                      /\ \A e \in srv[g].published : srv[g].rows = <<e>>
    BY DEF RowsTellTheTruth
  <2>1. HandlerInv(srv[g], wire[g]) /\ RowInv(srv[g])
    BY DEF Inv, CallInv
  <2>2. srv[g].rows = <<>> \/ srv[g].rows = <<srv[g].goal>>
    BY <2>1 DEF RowInv
  <2>3. Len(srv[g].rows) = 0 \/ Len(srv[g].rows) = 1
    <3> DEFINE goal == srv[g].goal
    <3>1. Len(<<>>) = 0 /\ Len(<<goal>>) = 1
      OBVIOUS
    <3> QED BY <2>2, <3>1
  <2>4. \A e : srv[g].rows = <<e>> => srv[g].goal = e
    BY <2>2
  <2>5. srv[g].rows = <<"cancelled">> => srv[g].aborted /\ wire[g].gone
    BY <2>1, <2>4 DEF HandlerInv
  <2>6. srv[g].rows = <<"completed">> => srv[g].collected > 0
    BY <2>1, <2>4 DEF HandlerInv
  <2>7. \A e \in srv[g].published : srv[g].rows = <<e>>
    BY <2>1 DEF RowInv
  <2>8. Len(srv[g].rows) <= 1
    <3> DEFINE n == Len(srv[g].rows)
    <3>1. n = 0 \/ n = 1
      BY <2>3
    <3> HIDE DEF n
    <3>2. n <= 1
      BY <3>1
    <3> QED BY <3>2 DEF n
  <2> QED BY <2>5, <2>6, <2>7, <2>8
<1> QED BY <1>1, AlwaysInv, PTL

\* Nothing follows a done or error frame (the generate controller's end of a response).
THEOREM OneEndingAlways == Spec => []OneEnding
<1>1. Inv => OneEnding
  <2> SUFFICES ASSUME Inv, NEW g \in Calls, NEW k \in DOMAIN wire[g].frames,
                      wire[g].frames[k].kind # "suggestion"
               PROVE  k = Len(wire[g].frames) /\ wire[g].end # "open"
    BY DEF OneEnding
  <2>1. FrameInv(srv[g], wire[g])
    BY DEF Inv, CallInv
  <2>2. wire[g].frames \in Seq(Frames)
    BY DEF Inv, TypeOK, ServerTypeOK, Wires
  <2>3. k \in 1 .. Len(wire[g].frames)
    BY <2>2
  <2> QED BY <2>1, <2>3 DEF FrameInv
<1> QED BY <1>1, AlwaysInv, PTL

\* What the page shows of its latest run and of the end of it (hooks.ts).
THEOREM PageTruth == Spec => []PageTellsTheTruth
<1>1. Inv => PageTellsTheTruth
  BY DEF Inv, WebInv, PageTellsTheTruth
<1> QED BY <1>1, AlwaysInv, PTL

\* What the CLI picks from and exits with (generate.ts, the retry, the end of run()
\* and handleError).
THEOREM CliTruth == Spec => []CliTellsTheTruth
<1>1. Inv => CliSucceedsForReal
  BY DEF Inv, CliInv, AnswerInv, CommittedInv, CliSucceedsForReal
<1>2. Inv => RetriesAreClean
  BY DEF Inv, CliInv
<1>3. Inv => InterruptsExit130
  BY DEF Inv, CliInv, InterruptInv, InterruptsExit130
<1>4. Inv => CliTellsTheTruth
  BY <1>1, <1>2, <1>3 DEF CliTellsTheTruth
<1> QED BY <1>4, AlwaysInv, PTL

\* A command answers with its better run (generate-message.handler.ts).
THEOREM BetterRun == Spec => []RegenerationHelps
<1>1. Inv => RegenerationHelps
  BY DEF Inv, CommandInv, RegenerationHelps
<1> QED BY <1>1, AlwaysInv, PTL

\* An aborted call is never taken for a failed or completed one (the catch block
\* and the check after the usage in generation-stream.service.ts).
THEOREM AbortsAreCancelled == Spec => AbortedCallsAreCancelled
<1> DEFINE Step == \A g \in Calls : srv[g].aborted /\ srv[g].goal = "none"
                     => srv'[g].goal \in {"none", "cancelled"}
<1>1. Inv /\ [Next]_vars => [Step]_vars
  <2> SUFFICES ASSUME Inv, [Next]_vars PROVE Step
    OBVIOUS
  <2>1. /\ ServerTypeOK /\ \A g \in Calls : CallInv(srv[g], wire[g])
    BY DEF Inv, TypeOK
  <2>2. CASE ServerNext
    <3>1. PICK g \in Calls : ServerMoves(g)
      BY <2>1, <2>2, ServerNextMoves
    <3>2. srv[g].aborted /\ srv[g].goal = "none" => srv'[g].goal \in {"none", "cancelled"}
      BY <3>1 DEF ServerMoves, Follows
    <3>3. \A h \in Calls \ {g} : srv'[h] = srv[h]
      BY <3>1 DEF ServerMoves
    <3> QED BY <3>2, <3>3
  <2>3. CASE WebNext
    BY <2>3, WebLeavesServer
  <2>4. CASE CliNext
    <3>1. WebGood /\ CliTypes /\ CliInv
      BY InvParts
    <3>2. CliTouches
      BY <2>1, <2>4, <3>1, CliNextKeeps DEF CliGood, CliKept
    <3> QED BY <3>2 DEF CliTouches
  <2>5. CASE CommandNext
    BY <2>5 DEF CommandNext
  <2>6. CASE UNCHANGED vars
    BY <2>6 DEF vars
  <2> QED BY <2>2, <2>3, <2>4, <2>5, <2>6 DEF Next
<1> QED BY <1>1, AlwaysInv, PTL DEF Spec, AbortedCallsAreCancelled

=============================================================================
