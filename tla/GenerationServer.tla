-------------------------- MODULE GenerationServer --------------------------
(* POST /generate on the API: GenerateController.generate drains
   GenerationStreamService.stream, which drains the provider's generator.  A
   step is what runs between two awaits.  wire[g] is the connection of call g
   as the client finds it; srv[g] is the handler's own state.  The server
   learns that a client has closed its side with a delay (ServerSeesClose). *)
EXTENDS Naturals, Sequences

CONSTANTS MaxCalls,       \* requests to the endpoint
          Count,          \* suggestions a request asks for
          RefusalCodes,   \* answers of guards and of body validation
          MaxFaults       \* instances that die and connections that break

ASSUME CountAssumption == Count \in Nat \ {0}
ASSUME CallsAssumption == MaxCalls \in Nat \ {0, 1}  \* the CLI tries twice
ASSUME RefusalsAssumption == RefusalCodes \subseteq Nat \ {0, 200}

VARIABLES srv,   \* srv[g]: the handler of call g
          wire,  \* wire[g]: the connection of call g
          faults \* faults so far

serverVars == <<srv, wire>>
Calls == 1 .. MaxCalls

RowStatus == {"failed", "cancelled", "completed"}
Suggestion(i) == [kind |-> "suggestion", index |-> i]
ErrorFrame == [kind |-> "error"]   \* for its code see LlmKeys
DoneFrame(stored) == [kind |-> "done", stored |-> stored]
Frames == {Suggestion(i) : i \in 0 .. Count - 1} \cup {ErrorFrame}
          \cup {DoneFrame(b) : b \in BOOLEAN}

NewHandler == [at |-> "idle", listening |-> FALSE, closed |-> FALSE,
               aborted |-> FALSE, collected |-> 0, goal |-> "none",
               rows |-> <<>>, published |-> {}]

NoWire == [sent |-> FALSE, status |-> 0, frames |-> <<>>, end |-> "open",
           gone |-> FALSE]

-----------------------------------------------------------------------------
(* Writing.  canWrite() is false once the socket is destroyed; what is written
   to a client that has left is lost. *)
Reaches(g) == ~srv[g].closed /\ ~wire[g].gone

Written(g, frames) ==
    IF Reaches(g) THEN [wire[g] EXCEPT !.frames = @ \o frames] ELSE wire[g]

Finished(g, frames) ==
    IF Reaches(g) THEN [wire[g] EXCEPT !.frames = @ \o frames, !.end = "ended"]
    ELSE wire[g]

\* The client closes its side; what it has not read is lost.
Hangup(c) == [wire[c] EXCEPT !.gone = wire[c].gone \/ wire[c].sent, !.frames = <<>>]

\* A plain JSON answer: an exception before the headers were flushed.
Answer(g, code) ==
    /\ srv' = [srv EXCEPT ![g].at = "ended"]
    /\ wire' = [wire EXCEPT ![g] =
         IF Reaches(g) THEN [@ EXCEPT !.status = code, !.end = "ended"] ELSE @]

-----------------------------------------------------------------------------
\* Guards, throttler and body schema, then the key lookup is awaited.
Receive(g) ==
    /\ srv[g].at = "idle"
    /\ wire[g].sent
    /\ \/ \E code \in RefusalCodes : Answer(g, code)
       \/ srv' = [srv EXCEPT ![g].at = "key"] /\ UNCHANGED wire

\* The key lookup answers: no key, a failure, or the stream begins.  The close
\* listener is registered only now, and 'close' is not repeated for it.
StartStream(g) ==
    /\ srv' = [srv EXCEPT ![g].listening = TRUE, ![g].at = "policy"]
    /\ wire' = [wire EXCEPT ![g] = IF Reaches(g) THEN [@ EXCEPT !.status = 200] ELSE @]

KeyRead(g) ==
    /\ srv[g].at = "key"
    /\ \/ \E code \in {412, 500} : Answer(g, code)
       \/ StartStream(g)
       \/ /\ srv' = [srv EXCEPT ![g].listening = TRUE, ![g].at = "ended"]
          /\ wire' = [wire EXCEPT ![g] =
               IF Reaches(g)
               THEN [@ EXCEPT !.status = 200, !.end = "ended",
                              !.frames = <<ErrorFrame>>]
               ELSE @]

\* resolvePolicy: denied, a database error, or a policy, or none.
PolicyRead(g) ==
    /\ srv[g].at = "policy"
    /\ \/ srv' = [srv EXCEPT ![g].at = "provider"] /\ UNCHANGED wire
       \/ /\ srv' = [srv EXCEPT ![g].at = "ended"]
          /\ wire' = [wire EXCEPT ![g] = Finished(g, <<ErrorFrame>>)]

\* The provider's next suggestion is enriched, collected and yielded.
ProviderEmits(g) ==
    /\ srv[g].at = "provider"
    /\ srv[g].collected < Count
    /\ srv' = [srv EXCEPT ![g].collected = @ + 1]
    /\ wire' = [wire EXCEPT ![g] = Written(g, <<Suggestion(srv[g].collected)>>)]

\* Mutant: the catch block does not look at the abort signal.
CaughtBlindly(g) ==
    /\ srv' = [srv EXCEPT ![g].at = "persist", ![g].goal = "failed"]
    /\ UNCHANGED wire

\* The catch block: an aborted call is cancelled, whatever was thrown.
Caught(g) ==
    /\ srv' = [srv EXCEPT ![g].at = "persist",
                          ![g].goal = IF srv[g].aborted THEN "cancelled" ELSE "failed"]
    /\ UNCHANGED wire

ProviderThrows(g) ==
    /\ srv[g].at = "provider"
    /\ Caught(g)

\* The element stream ends, or has more elements than were asked for.
ProviderEnds(g) ==
    /\ srv[g].at = "provider"
    /\ IF srv[g].collected = 0
       THEN Caught(g)
       ELSE srv' = [srv EXCEPT ![g].at = "usage"] /\ UNCHANGED wire

\* Mutant: the usage of an aborted stream never comes, and the handler waits.
UsageNeverComes(g) ==
    /\ srv[g].at = "usage"
    /\ ~srv[g].aborted
    /\ srv' = [srv EXCEPT ![g].at = "persist", ![g].goal = "completed"]
    /\ UNCHANGED wire

\* Usage is telemetry: its failure changes no more than the token count.
UsageRead(g) ==
    /\ srv[g].at = "usage"
    /\ srv' = [srv EXCEPT ![g].at = "persist",
                          ![g].goal = IF srv[g].aborted THEN "cancelled" ELSE "completed"]
    /\ UNCHANGED wire

\* persist() stores a row or swallows its error; only a stored row is published.
LastFrames(g, stored) ==
    CASE srv[g].goal = "failed" -> <<ErrorFrame>>
      [] srv[g].goal = "completed" -> <<DoneFrame(stored)>>
      [] OTHER -> <<>>

\* Mutant: the event is published although the row was not stored.
PublishesAnyway(g, stored) ==
    /\ srv[g].at = "persist"
    /\ srv' = [srv EXCEPT ![g].at = "ended",
                          ![g].rows = IF stored THEN Append(@, srv[g].goal) ELSE @,
                          ![g].published = @ \cup ({srv[g].goal} \ {"cancelled"})]
    /\ wire' = [wire EXCEPT ![g] = Finished(g, LastFrames(g, stored))]

\* Mutant: the catch block misses its return, so a failed call goes on to the
\* persist of a completed one.
PersistTwice(g, stored) ==
    /\ srv[g].at = "persist"
    /\ IF srv[g].goal = "failed"
       THEN /\ srv' = [srv EXCEPT ![g].goal = "completed",
                                  ![g].rows = IF stored THEN Append(@, "failed") ELSE @]
            /\ wire' = [wire EXCEPT ![g] = Written(g, LastFrames(g, stored))]
       ELSE /\ srv' = [srv EXCEPT ![g].at = "ended",
                                  ![g].rows = IF stored THEN Append(@, srv[g].goal) ELSE @]
            /\ wire' = [wire EXCEPT ![g] = Finished(g, LastFrames(g, stored))]

Persist(g, stored) ==
    /\ srv[g].at = "persist"
    /\ srv' = [srv EXCEPT ![g].at = "ended",
                          ![g].rows = IF stored THEN Append(@, srv[g].goal) ELSE @,
                          ![g].published = IF stored THEN @ \cup ({srv[g].goal} \ {"cancelled"})
                                                     ELSE @]
    /\ wire' = [wire EXCEPT ![g] = Finished(g, LastFrames(g, stored))]

\* The socket's 'close' event; an abort needs the listener.
ServerSeesClose(g) ==
    /\ wire[g].gone
    /\ srv[g].at \notin {"idle", "ended"}
    /\ ~srv[g].closed
    /\ srv' = [srv EXCEPT ![g].closed = TRUE, ![g].aborted = srv[g].listening]
    /\ UNCHANGED wire

\* The API instance dies: no row, and the client finds a broken connection.
InstanceDies(g) ==
    /\ srv[g].at \notin {"idle", "ended"}
    /\ srv' = [srv EXCEPT ![g].at = "ended"]
    /\ wire' = [wire EXCEPT ![g] = IF Reaches(g) THEN [@ EXCEPT !.end = "reset"] ELSE @]

\* The connection breaks: the server finds it closed in its own time, the
\* client finds an error or silence.
ConnectionBreaks(g) ==
    /\ wire[g].sent /\ wire[g].end = "open" /\ ~wire[g].gone
    /\ \E end \in {"open", "reset"} :
         wire' = [wire EXCEPT ![g].end = end, ![g].gone = TRUE]
    /\ UNCHANGED srv

ServerStep(g) ==
    \/ Receive(g) \/ KeyRead(g) \/ PolicyRead(g)
    \/ ProviderEmits(g) \/ ProviderThrows(g) \/ ProviderEnds(g) \/ UsageRead(g)
    \/ \E stored \in BOOLEAN : Persist(g, stored)
    \/ ServerSeesClose(g)

ServerFault(g) ==
    /\ faults < MaxFaults
    /\ faults' = faults + 1
    /\ InstanceDies(g) \/ ConnectionBreaks(g)

ServerInit ==
    /\ srv = [g \in Calls |-> NewHandler]
    /\ wire = [g \in Calls |-> NoWire]
    /\ faults = 0

Handlers == [at : {"idle", "key", "policy", "provider", "usage", "persist", "ended"},
             listening : BOOLEAN, closed : BOOLEAN, aborted : BOOLEAN,
             collected : 0 .. Count, goal : RowStatus \cup {"none"},
             rows : Seq(RowStatus), published : SUBSET {"failed", "completed"}]

Wires == [sent : BOOLEAN, status : Nat, frames : Seq(Frames),
          end : {"open", "ended", "reset"}, gone : BOOLEAN]

ServerTypeOK == srv \in [Calls -> Handlers] /\ wire \in [Calls -> Wires]

=============================================================================
