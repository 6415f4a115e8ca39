---------------------------- MODULE GenerationCli ----------------------------
(* `git-insight generate` (apps/cli/src/commands/generate.ts with lib/git.ts,
   lib/config.ts and streamGenerate of lib/api-client.ts): one process, from the
   work tree check to its exit code, with one retry after a network error.
   Attempt n uses call n. *)
EXTENDS GenerationServer

CONSTANTS WithCopy,  \* --copy was given
          WithCommit \* --commit was given

VARIABLE cli

NewCli == [at |-> "worktree", attempt |-> 1, received |-> 0, got |-> <<>>,
           done |-> FALSE, failed |-> FALSE, idle |-> FALSE, interrupted |-> FALSE,
           sigintAt |-> "none", begun |-> {}, committed |-> FALSE, exit |-> 999]

Live == cli.at # "exit"
Now == cli.attempt

\* handleError: the exit code of every error class.
ExitCode(err) ==
    CASE err \in {"not a repository", "nothing to commit"} -> 2
      [] err \in {"aborted", "quit"} -> 130
      [] err \in {"config", "auth"} -> 3
      [] err \in {"network", "timeout"} -> 4
      [] err \in {"stream", "api 5xx", "no suggestions"} -> 5
      [] OTHER -> 1

Exits(code) ==
    /\ cli' = [cli EXCEPT !.at = "exit", !.exit = code]
    /\ wire' = [wire EXCEPT ![Now] = Hangup(Now)]
    /\ UNCHANGED srv

Goes(next) == cli' = [cli EXCEPT !.at = next] /\ UNCHANGED serverVars

-----------------------------------------------------------------------------
(* git runs as a child of the CLI, which Ctrl-C reaches as well.  runGit takes
   a child killed by a signal (no exit code) for one that succeeded: the work
   tree check then misses its output, a diff may be cut short or empty. *)
GitKilled == cli.sigintAt = cli.at

CheckWorkTree ==
    /\ cli.at = "worktree"
    /\ Goes("diff") \/ Exits(ExitCode("not a repository")) \/ Exits(ExitCode("git"))

\* readDiffWithFallback: the staged diff, or the diff to HEAD, or nothing.
ReadDiff ==
    /\ cli.at = "diff"
    /\ Goes("config") \/ Exits(ExitCode("nothing to commit")) \/ Exits(ExitCode("git"))

\* loadConfig and the options; the diff is parsed and rendered.
ReadConfig ==
    /\ cli.at = "config"
    /\ \E err \in {"config", "option"} : Exits(ExitCode(err)) \/ Goes("connect")

-----------------------------------------------------------------------------
(* streamGenerate.  The idle timer and SIGINT abort the fetch and its body; a
   fetch that finds the signal aborted fails at once. *)
Failure(broken) ==
    IF cli.idle THEN "timeout"           \* the abort reason is the TimeoutError
    ELSE IF cli.interrupted THEN "aborted"
    ELSE broken

Connect ==
    /\ cli.at = "connect"
    /\ IF cli.interrupted THEN Exits(ExitCode(Failure("network")))
       ELSE /\ cli' = [cli EXCEPT !.at = "fetch"]
            /\ wire' = [wire EXCEPT ![Now].sent = TRUE]
            /\ UNCHANGED srv

\* Mutant: a stream that broke in the middle is tried again too.
RetriesStreams(err) ==
    /\ err \in {"network", "stream"}
    /\ cli.attempt = 1
    /\ ~cli.interrupted

\* A network error of the first attempt waits and is tried again.
Retries(err) ==
    /\ err = "network"
    /\ cli.attempt = 1
    /\ ~cli.interrupted

FailsWith(err) ==
    IF Retries(err)
    THEN /\ cli' = [cli EXCEPT !.at = "backoff"]
         /\ wire' = [wire EXCEPT ![Now] = Hangup(Now)]
         /\ UNCHANGED srv
    ELSE Exits(ExitCode(err))

Backoff ==
    /\ cli.at = "backoff"
    /\ cli' = [cli EXCEPT !.at = "connect", !.attempt = 2, !.got = <<>>]
    /\ UNCHANGED serverVars

\* fetch rejects: refused, broken before the headers are read, or aborted.
FetchFails ==
    /\ cli.at = "fetch"
    /\ FailsWith(Failure("network"))

\* The head of the response.  For an error the timer and the listener are gone
\* before its body is read.
Headers ==
    /\ cli.at = "fetch"
    /\ wire[Now].status # 0 /\ ~cli.interrupted /\ ~cli.idle
    /\ Goes(IF wire[Now].status = 200 THEN "read" ELSE "errbody")

ErrorBody ==
    /\ cli.at = "errbody"
    /\ Exits(ExitCode(CASE wire[Now].status \in {401, 403} -> "auth"
                        [] wire[Now].status >= 500 -> "api 5xx"
                        [] OTHER -> "api"))

\* The reader feeds one frame to the parser.
ReadFrame ==
    /\ cli.at = "read"
    /\ wire[Now].frames # <<>> /\ ~cli.interrupted /\ ~cli.idle
    /\ LET f == Head(wire[Now].frames) IN
       cli' = CASE f.kind = "suggestion" ->
                     [cli EXCEPT !.got = Append(@, <<Now, f.index>>), !.received = @ + 1,
                                 !.begun = @ \cup {Now}]
                [] f.kind = "done" -> [cli EXCEPT !.done = TRUE, !.begun = @ \cup {Now}]
                [] OTHER -> [cli EXCEPT !.failed = TRUE, !.begun = @ \cup {Now}]
    /\ wire' = [wire EXCEPT ![Now].frames = Tail(@)]
    /\ UNCHANGED srv

ReadBreaks ==
    /\ cli.at = "read"
    /\ \/ cli.interrupted \/ cli.idle
       \/ wire[Now].frames = <<>> /\ wire[Now].end = "reset"
    /\ FailsWith(Failure("stream"))

\* The end of the body: an error frame, no done frame, or the list to pick from.
ReadEnds ==
    /\ cli.at = "read"
    /\ wire[Now].frames = <<>> /\ wire[Now].end = "ended"
    /\ ~cli.interrupted /\ ~cli.idle
    /\ IF cli.failed \/ ~cli.done THEN FailsWith("stream")
       ELSE IF cli.got = <<>> THEN Exits(ExitCode("no suggestions"))
       ELSE Goes("pick")

\* No byte for the whole idle interval: heartbeats keep a live server's stream
\* from it, so the connection is broken or the server gone.
IdleFires ==
    /\ cli.at \in {"fetch", "read"}
    /\ ~cli.idle /\ ~cli.interrupted
    /\ wire[Now].gone \/ wire[Now].status = 0
    /\ wire[Now].frames = <<>> /\ wire[Now].end = "open"
    /\ cli' = [cli EXCEPT !.idle = TRUE]
    /\ wire' = [wire EXCEPT ![Now] = Hangup(Now)]
    /\ UNCHANGED srv

-----------------------------------------------------------------------------
\* select(): a suggestion, quit, or Ctrl-C in the prompt.
Pick ==
    /\ cli.at = "pick"
    /\ \/ Goes(IF WithCopy THEN "copy" ELSE IF WithCommit THEN "commit" ELSE "finish")
       \/ Exits(ExitCode("quit"))

Copy ==
    /\ cli.at = "copy"
    /\ Exits(ExitCode("clipboard")) \/ Goes(IF WithCommit THEN "commit" ELSE "finish")

\* git commit succeeds or exits with an error; killed, it has committed or not.
Commit ==
    /\ cli.at = "commit"
    /\ \/ cli' = [cli EXCEPT !.at = "finish", !.committed = TRUE] /\ UNCHANGED serverVars
       \/ Exits(ExitCode("git"))
       \/ GitKilled /\ Goes("finish")

Finish == cli.at = "finish" /\ Exits(0)

\* Ctrl-C: the handler aborts the controller, once; a second one is not modelled
\* (it ends the process).
Interrupt ==
    /\ Live /\ ~cli.interrupted
    /\ cli.at # "pick"
    /\ cli' = [cli EXCEPT !.interrupted = TRUE, !.sigintAt = cli.at]
    /\ wire' = IF cli.at \in {"fetch", "read"} THEN [wire EXCEPT ![Now] = Hangup(Now)] ELSE wire
    /\ UNCHANGED srv

CliStep ==
    \/ CheckWorkTree \/ ReadDiff \/ ReadConfig
    \/ Connect \/ FetchFails \/ Headers \/ ErrorBody
    \/ ReadFrame \/ ReadBreaks \/ ReadEnds \/ IdleFires \/ Backoff
    \/ Pick \/ Copy \/ Commit \/ Finish

CliPlaces == {"worktree", "diff", "config", "connect", "fetch", "errbody", "read",
              "backoff", "pick", "copy", "commit", "finish", "exit"}

CliTypeOK ==
    cli \in [at : CliPlaces, attempt : 1 .. 2, received : Nat, got : Seq((1 .. 2) \X Nat),
             done : BOOLEAN, failed : BOOLEAN, idle : BOOLEAN, interrupted : BOOLEAN,
             sigintAt : CliPlaces \cup {"none"}, begun : SUBSET (1 .. 2),
             committed : BOOLEAN, exit : {0, 1, 2, 3, 4, 5, 130, 999}]

=============================================================================
