---------------------------- MODULE SyncProgress ----------------------------
(***************************************************************************)
(* The repository page: useSyncProgress with its socket, the optimistic    *)
(* flag of SyncProgressProvider, the "Sync now" button and the banner's    *)
(* "Retry", and the API's answers to them.  Below: what the page shows of  *)
(* a synchronisation, composed with the attempts and their events.         *)
(***************************************************************************)
EXTENDS Enrichment

CONSTANT MaxClicks  \* bound: resyncs the user asks for

ASSUME ClicksAssumption == MaxClicks \in Nat

VARIABLES socket,     \* of the page; "in": joined the repository's room
          live,       \* the state of useSyncProgress
          optimistic, \* optimisticEnqueued
          http,       \* per mutation: its request
          asked,      \* SyncRequestedEvents whose handler has not run
          clicks      \* resyncs asked for so far

page == <<socket, live, optimistic, http, asked, clicks>>

Source == {"button", "retry"}

Nothing == [status |-> "idle", done |-> 0, total |-> 0]

InitPage ==
  /\ socket = "off" /\ live = Nothing /\ optimistic = FALSE
  /\ http = [s \in Source |-> "none"]
  /\ asked = 0 /\ clicks = 0
  /\ whole = TRUE

\* Mutant: the optimistic state hides the live one.
ShownWhileEnqueued ==
  IF optimistic THEN [Nothing EXCEPT !.status = "syncing"] ELSE live

\* What the button and the banner show.
Shown == IF optimistic /\ live.status = "idle"
         THEN [Nothing EXCEPT !.status = "syncing"]
         ELSE live

\* The page is opened again, or for the repository again.  It may have missed
\* something if an attempt was under way.  Requests on their way may still
\* reach the API; nobody hears the answers.
Load ==
  /\ socket' = "off" /\ live' = Nothing /\ optimistic' = FALSE
  /\ http' = [s \in Source |-> "none"]
  /\ whole' = (phase \in {"none", "waiting"} /\ wire = <<>>)
  /\ \E k \in 0 .. Cardinality({s \in Source : http[s] = "sent"}) :
       asked' = asked + k
  /\ UNCHANGED <<attempt, wire, clicks>>

\* The handshake with its middleware; then the client emits "join".
Connect ==
  /\ socket = "off"
  /\ socket' = "joining"
  /\ UNCHANGED <<attempt, wire, whole, live, optimistic, http, asked, clicks>>

\* handleJoin; nobody repeats a join that failed.
Join ==
  /\ socket = "joining"
  /\ socket' \in {"in"} \cup IF "db" \in Faults THEN {"out"} ELSE {}
  /\ UNCHANGED <<attempt, wire, whole, live, optimistic, http, asked, clicks>>

\* What is on the socket is lost, what the adapter still holds is not.
Disconnect ==
  /\ "socket" \in Faults /\ socket # "off"
  /\ socket' = "off"
  /\ \E k \in 0 .. Len(wire) :
       /\ wire' = SubSeq(wire, k + 1, Len(wire))
       /\ whole' = (whole /\ k = 0)
  /\ UNCHANGED <<attempt, live, optimistic, http, asked, clicks>>

\* The three listeners of useSyncProgress.
Heard(e) ==
  CASE e.kind = "progress" ->
         [status |-> "syncing", done |-> e.done, total |-> e.total]
    [] e.kind = "completed" ->
         [status |-> "completed", done |-> e.done,
          total |-> IF e.done > live.total THEN e.done ELSE live.total]
    [] OTHER -> [live EXCEPT !.status = "failed"]

\* onCompleted and onFailed, and the effect on live.status, end the
\* optimistic state.
Receive ==
  /\ wire # <<>>
  /\ wire' = Tail(wire)
  /\ IF socket = "in"
       THEN /\ live' = Heard(Head(wire))
            /\ optimistic' = (optimistic /\ live'.status = live.status
                                         /\ live'.status = "syncing")
            /\ UNCHANGED whole
       ELSE whole' = FALSE /\ UNCHANGED <<live, optimistic>>
  /\ UNCHANGED <<attempt, socket, http, asked, clicks>>

Enabled(s) ==
  /\ http[s] = "none"
  /\ IF s = "button" THEN Shown.status # "syncing" ELSE Shown.status = "failed"

Click(s) ==
  /\ Enabled(s) /\ clicks < MaxClicks
  /\ http' = [http EXCEPT ![s] = "sent"]
  /\ clicks' = clicks + 1
  /\ UNCHANGED <<attempt, wire, whole, socket, live, optimistic, asked>>

\* The API publishes SyncRequestedEvent and answers 202, or fails.
Accept(s) ==
  /\ http[s] = "sent"
  /\ \/ http' = [http EXCEPT ![s] = "accepted"] /\ asked' = asked + 1
     \/ "db" \in Faults /\ http' = [http EXCEPT ![s] = "refused"] /\ UNCHANGED asked
  /\ UNCHANGED <<attempt, wire, whole, socket, live, optimistic, clicks>>

\* enqueueSync: a job that is under way is left alone.
Enqueue ==
  /\ asked > 0
  /\ asked' = asked - 1
  /\ \/ phase = "none" /\ phase' = "waiting"
     \/ phase # "none" /\ UNCHANGED phase
  /\ UNCHANGED <<tries, total, pool, wire, whole, socket, live, optimistic, http, clicks>>

\* onSuccess calls markEnqueued, onError shows a toast.
Answer(s) ==
  /\ http[s] \in {"accepted", "refused"}
  /\ http' = [http EXCEPT ![s] = "none"]
  /\ optimistic' = (optimistic \/ http[s] = "accepted")
  /\ UNCHANGED <<attempt, wire, whole, socket, live, asked, clicks>>

PageStep ==
  \/ Connect \/ Join \/ Receive \/ Enqueue
  \/ \E s \in Source : Accept(s) \/ Answer(s)

-----------------------------------------------------------------------------
(***************************************************************************)
(* The composition: attempts, wire and page.                               *)
(***************************************************************************)

vars == <<phase, tries, total, pool, wire, whole, page>>

Init == InitAttempt /\ InitPage

Next ==
  \/ (AttemptStep \/ \E i \in Runner : RunnerStep(i)) /\ UNCHANGED page
  \/ PageStep \/ Load \/ Disconnect \/ \E s \in Source : Click(s)

Spec == Init /\ [][Next]_vars

\* Every promise settles in the end, and the socket reconnects and delivers.
\* Users and faults are not fair.
FairSpec ==
  /\ Spec
  /\ WF_vars(AttemptStep /\ UNCHANGED page)
  /\ \A i \in Runner : WF_vars(RunnerStep(i) /\ UNCHANGED page)
  /\ WF_vars(Connect) /\ WF_vars(Join) /\ WF_vars(Receive) /\ WF_vars(Enqueue)
  /\ \A s \in Source : WF_vars(Accept(s)) /\ WF_vars(Answer(s))

(***************************************************************************)
(* Types                                                                   *)
(***************************************************************************)
\* Every variable has its type.
TypeOK ==
  /\ AttemptTypeOK
  /\ socket \in {"off", "joining", "in", "out"}
  /\ live \in [status : {"idle", "syncing", "completed", "failed"},
               done : Index, total : Index]
  /\ optimistic \in BOOLEAN
  /\ http \in [Source -> {"none", "sent", "accepted", "refused"}]
  /\ asked \in Nat /\ clicks \in 0 .. MaxClicks

(***************************************************************************)
(* Safety                                                                  *)
(***************************************************************************)

\* On a page that misses nothing, the bar never goes back: not from listing to
\* enrichment (sync.processor.ts:142-145) and not while runners overtake each
\* other between updateProgress and publish.
NeverSnapsBack ==
  [][whole' /\ live.status = "syncing" /\ live'.status = "syncing" =>
       /\ live.total > 0 => live'.total = live.total
       /\ live.total > 0 => live'.done >= live.done]_vars

(***************************************************************************)
(* Liveness                                                                *)
(***************************************************************************)

\* A page that misses nothing does not stay on "syncing", with the button
\* disabled: also when clicks, retries and answers overtake the events.
BannerEnds ==
  whole /\ Shown.status = "syncing" ~> Shown.status # "syncing" \/ ~whole
=============================================================================
