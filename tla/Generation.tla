------------------------------ MODULE Generation ------------------------------
(* The generation of commit messages: the API's stream with its web client or
   with the CLI, and the command handler beside it.  Which of the three is
   looked at is chosen once: they share no state. *)
EXTENDS GenerationServer

CONSTANTS WithCopy, WithCommit, PerRun

ASSUME ClientsAssumption == WithCopy \in BOOLEAN /\ WithCommit \in BOOLEAN
ASSUME PerRunAssumption == PerRun \in Nat \ {0}

VARIABLES client, page, ws, cli, cmd

vars == <<client, srv, wire, faults, page, ws, cli, cmd>>
clientVars == <<page, ws, cli, cmd>>

Web == INSTANCE GenerationWeb
Cli == INSTANCE GenerationCli
Command == INSTANCE GenerateCommand

GenerationInit ==
    /\ client \in {"web", "cli", "command"}
    /\ ServerInit /\ Web!WebInit
    /\ cli = Cli!NewCli
    /\ cmd = Command!NewCommand

ServerNext ==
    /\ \E g \in Calls : (ServerStep(g) /\ UNCHANGED faults) \/ ServerFault(g)
    /\ UNCHANGED <<client, clientVars>>

WebNext ==
    /\ client = "web"
    /\ \/ \E g \in Calls : Web!Start(g) \/ Web!RunStep(g)
       \/ Web!Cancel \/ Web!Unmount
    /\ UNCHANGED <<client, faults, cli, cmd>>

CliNext ==
    /\ client = "cli"
    /\ Cli!CliStep \/ Cli!Interrupt
    /\ UNCHANGED <<client, faults, page, ws, cmd>>

CommandNext ==
    /\ client = "command"
    /\ Command!CommandStep
    /\ UNCHANGED <<client, srv, wire, faults, page, ws, cli>>

Next == ServerNext \/ WebNext \/ CliNext \/ CommandNext

(* Fairness.  Handlers go on once what they wait for has come; the provider is
   only known to end a call that was aborted (the SDK's abort signal); browser
   and CLI run their continuations.  Users need not do anything. *)
HandlerGoesOn(g) ==
    \/ Receive(g) \/ KeyRead(g) \/ PolicyRead(g) \/ UsageRead(g)
    \/ \E stored \in BOOLEAN : Persist(g, stored)

ProviderStops(g) ==
    srv[g].aborted /\ (ProviderThrows(g) \/ ProviderEnds(g))

Spec ==
    /\ GenerationInit /\ [][Next]_vars
    /\ \A g \in Calls :
         /\ WF_vars(HandlerGoesOn(g) /\ UNCHANGED <<client, faults, clientVars>>)
         /\ WF_vars(ProviderStops(g) /\ UNCHANGED <<client, faults, clientVars>>)
         /\ WF_vars(client = "web" /\ Web!RunStep(g) /\ UNCHANGED <<client, faults, cli, cmd>>)
    /\ WF_vars(client = "cli" /\ Cli!CliStep /\ UNCHANGED <<client, faults, page, ws, cmd>>)

-----------------------------------------------------------------------------
\* The handlers, connections and clients have the types the code gives them.
TypeOK ==
    ServerTypeOK /\ Web!WebTypeOK /\ Cli!CliTypeOK /\ Command!CommandTypeOK

\* A call leaves at most one history row, and the row tells what happened: a
\* cancelled one belongs to a client that has left, a completed one to a stream
\* that delivered suggestions, and an event is published for the stored row only
\* (generation-stream.service.ts, the persists and their returns).
RowsTellTheTruth ==
    \A g \in Calls :
      /\ Len(srv[g].rows) <= 1
      /\ srv[g].rows = <<"cancelled">> => srv[g].aborted /\ wire[g].gone
      /\ srv[g].rows = <<"completed">> => srv[g].collected > 0
      /\ \A e \in srv[g].published : srv[g].rows = <<e>>

\* What the abort of a call brings about is never taken for the provider's
\* failure, nor a call aborted in its last await for a completed one: no event
\* is then published (the catch block and the check after the usage).
AbortedCallsAreCancelled ==
    [][\A g \in Calls : srv[g].aborted /\ srv[g].goal = "none"
         => srv'[g].goal \in {"none", "cancelled"}]_vars

\* A stream has one ending: nothing follows a done or error frame, and the
\* response ends with it.
OneEnding ==
    \A g \in Calls :
      \A k \in DOMAIN wire[g].frames :
        wire[g].frames[k].kind # "suggestion" =>
          k = Len(wire[g].frames) /\ wire[g].end # "open"

\* The page says "done" only when the API has sent a done frame, and names a
\* history entry only when there is one.
EndingShown ==
    /\ page.status = "done" => page.done # "none"
    /\ page.done = "stored" => \E g \in Calls : srv[g].rows = <<"completed">>

\* The suggestions shown are those of the latest run: what an aborted run still
\* receives never mixes with them (start() and the abort in hooks.ts).
OneRunShown ==
    \A k \in DOMAIN page.shown, c \in Calls :
      ws[c].at # "unused" => page.shown[k].call >= c

\* "Generation cancelled." is shown for the latest run, which was aborted, unless
\* an older run had not ended when the latest began (its late state is then taken).
CancelledIsMeant ==
    page.mounted /\ page.status = "cancelled" /\ ~page.tainted =>
      \E g \in Calls :
        /\ ws[g].aborted /\ ws[g].at = "over"
        /\ \A c \in Calls : c > g => ws[c].at = "unused"

\* What the page shows is true of the latest run: its ending, its suggestions and
\* its cancellation, while the frames and aborts of older runs still arrive.
PageTellsTheTruth == EndingShown /\ OneRunShown /\ CancelledIsMeant

\* Exit code 0 means that the API completed the generation whose suggestion was
\* picked, and that git committed if it was asked to and let run.
CliSucceedsForReal ==
    cli.exit = 0 =>
      /\ srv[Cli!Now].goal = "completed"
      /\ cli.sigintAt # "commit" /\ WithCommit => cli.committed

\* The CLI repeats a request only before anything of its answer was read, so it
\* never mixes the suggestions of two generations.
RetriesAreClean ==
    /\ Len(cli.got) = cli.received
    /\ \A k \in DOMAIN cli.got : cli.got[k][1] = Cli!Now
    /\ cli.begun \subseteq {Cli!Now}

\* Ctrl-C while the CLI waits for the API ends it with 130, unless the idle
\* timer was first.
InterruptsExit130 ==
    cli.sigintAt \in {"connect", "backoff", "fetch", "read"} /\ cli.at = "exit" /\ ~cli.idle
      => cli.exit = 130

\* What the CLI shows and its exit code are true of the one generation it ends with,
\* whatever was lost, repeated or interrupted before.
CliTellsTheTruth == CliSucceedsForReal /\ RetriesAreClean /\ InterruptsExit130

\* A command is answered with its best run: regenerating never leaves fewer
\* compliant suggestions, and what is answered is what is stored.
RegenerationHelps ==
    /\ cmd.goal = "completed" => cmd.chosen.ok >= cmd.first.ok
    /\ cmd.answer \in {"stored", "not stored"} =>
         cmd.goal = "completed" /\ cmd.chosen.n > 0
    /\ Len(cmd.rows) <= 1 /\ \A e \in cmd.published : cmd.rows = <<e>>

\* Once a handler's signal is aborted, its call ends: the provider is not kept
\* working for nobody.
AbortEndsTheCall == \A g \in Calls : srv[g].aborted ~> srv[g].at = "ended"

\* Cancel ends the page's streaming state, whatever the API does.
CancelEnds ==
    (page.mounted /\ page.status = "streaming" /\ page.cur = Web!NoCall)
      ~> (page.status # "streaming" \/ ~page.mounted)

\* Ctrl-C ends the CLI, whatever the API does.
InterruptEnds == cli.interrupted ~> cli.at = "exit"

\* Whoever stops a generation is released by all who work for it: the handler by its
\* aborted call, the page by Cancel, the CLI by Ctrl-C.
StopsEnd == AbortEndsTheCall /\ CancelEnds /\ InterruptEnds

=============================================================================
