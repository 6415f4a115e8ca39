------------------------------ MODULE CliConfig ------------------------------
(* The CLI's config file and the commands beside `generate`: `git-insight configure`
   verifies a key and saves it, `whoami` and `keys list` read the file and call the
   API (apps/cli/src/lib/config.ts, commands/ and lib/api-client.ts).  A user's
   processes run at once, over one file; each may be killed. *)
EXTENDS Naturals

CONSTANTS Processes,
          Configs, ValidConfigs,  \* ValidConfigs: those that configSchema accepts
          NearConfigs,            \* in another file that a search finds
          MaxCommands, MaxHandEdits

\* A configuration, with the key in it, is named by the length of its text.
ASSUME CliConfigAssumption ==
    /\ Configs \subseteq Nat \ {0} /\ ValidConfigs \subseteq Configs /\ NearConfigs \subseteq Configs
    /\ MaxCommands \in Nat /\ MaxHandEdits \in Nat

VARIABLES rc,     \* ~/.projectrc or the file of PROJECTRC_PATH: its mode, the text it
                  \* begins with, and how much of a longer text follows
          shell,  \* what runs in each process
          around  \* whether PROJECTRC_PATH is set, another file that a search finds,
                  \* what the API has accepted of a configure, and the configuration
                  \* that the file must hold: the last saved, if none disturbed it

cliConfigVars == <<rc, shell, around>>

NoConfig == 0
NoConfigFile == [there |-> FALSE, private |-> FALSE, config |-> NoConfig, tail |-> 0]
ConfigFile(private, config) == [there |-> TRUE, private |-> private, config |-> config, tail |-> 0]

FilesWith(configs) == {ConfigFile(private, c) : private \in BOOLEAN, c \in configs}

IsEmptyFile(f) == f.config = NoConfig /\ f.tail = 0

\* Every text ends with a newline; one left of a longer text does no harm.
IsJsonFile(f) == f.config # NoConfig /\ f.tail <= 1

-----------------------------------------------------------------------------
NoExitYet == 999

NewCommand(cmd, at) ==
    [cmd |-> cmd, at |-> at, config |-> NoConfig, place |-> "home", answer |-> "none", exit |-> NoExitYet,
     linked |-> FALSE, touched |-> FALSE, alone |-> FALSE, knew |-> NoConfig]

CliConfigInit ==
    /\ rc \in {NoConfigFile} \cup FilesWith(Configs)
    /\ shell = [p \in Processes |-> NewCommand("none", "idle")]
    /\ \E env \in BOOLEAN, place \in {"project", "package"}, f \in {NoConfigFile} \cup FilesWith(NearConfigs) :
         /\ f = NoConfigFile => place = "project"
         /\ env => f = NoConfigFile
         /\ around = [env |-> env, place |-> place, file |-> f, accepted |-> {}, saved |-> NoConfig,
                      commands |-> 0, edits |-> 0]

\* The handlers of the commands: the exit code of every error.
CommandExitCode(err) ==
    CASE err = "ok" -> 0
      [] err \in {"missing", "invalid", "permissions", "read", "auth"} -> 3
      [] err = "network" -> 4
      [] err = "cancelled" -> 130
      [] err = "killed" -> 137
      [] OTHER -> 1

CommandEnded(s, err) ==
    [NewCommand(s.cmd, "exit") EXCEPT
        !.exit = CommandExitCode(err), !.touched = s.touched,
        !.knew = IF err \in {"missing", "invalid"} THEN s.knew ELSE NoConfig]
CommandAt(p, at) == shell' = [shell EXCEPT ![p].at = at]
CommandExits(p, err) == shell' = [shell EXCEPT ![p] = CommandEnded(@, err)]

StartCommand(p, cmd) ==
    /\ shell[p].at \in {"idle", "exit"}
    /\ around.commands < MaxCommands
    /\ shell' = [shell EXCEPT ![p] = NewCommand(cmd, IF cmd = "configure" THEN "ask" ELSE "read")]
    /\ around' = [around EXCEPT !.commands = @ + 1]
    /\ UNCHANGED rc

\* From the options or typed, where Ctrl-C ends it; then checked against the schema.
AskConfig(p) ==
    /\ shell[p].at = "ask"
    /\ \/ CommandExits(p, "cancelled")
       \/ \E c \in ValidConfigs : shell' = [shell EXCEPT ![p].config = c, ![p].at = "call"]
       \/ Configs # ValidConfigs /\ CommandExits(p, "schema")
    /\ UNCHANGED <<rc, around>>

-----------------------------------------------------------------------------
(* loadConfig. *)

\* cosmiconfig takes the first file with something in it: one of the project's
\* directories, then the home directory's, then package.json.
FoundPlace ==
    IF around.env THEN "home"
    ELSE IF around.place = "project" /\ ~IsEmptyFile(around.file) THEN "project"
    ELSE IF ~IsEmptyFile(rc) \/ IsEmptyFile(around.file) THEN "home"
    ELSE "package"

ConfigFileAt(place) == IF place = "home" THEN rc ELSE around.file

\* An error of the search itself is not a ConfigError.
ConfigReadError(err) == IF around.env THEN err ELSE "search"

ReadConfigFile(p) ==
    /\ shell[p].at = "read"
    /\ LET f == ConfigFileAt(FoundPlace)
           s == [shell[p] EXCEPT !.place = FoundPlace,
                                 !.knew = IF FoundPlace = "home" THEN around.saved ELSE NoConfig]
       IN \/ f.there /\ CommandExits(p, ConfigReadError("read"))
          \/ shell' = [shell EXCEPT ![p] =
                          IF IsEmptyFile(f) THEN CommandEnded(s, "missing")
                          ELSE IF ~IsJsonFile(f) THEN CommandEnded(s, ConfigReadError("invalid"))
                          ELSE [s EXCEPT !.at = "stat", !.config = f.config]]
    /\ UNCHANGED <<rc, around>>

\* assertSecureMode and the schema.
StatConfigFile(p) ==
    /\ shell[p].at = "stat"
    /\ LET f == ConfigFileAt(shell[p].place) IN
       IF ~f.there THEN CommandExits(p, "read")
       ELSE IF ~f.private THEN CommandExits(p, "permissions")
       ELSE IF shell[p].config \notin ValidConfigs THEN CommandExits(p, "invalid")
       ELSE CommandAt(p, "call")
    /\ UNCHANGED <<rc, around>>

-----------------------------------------------------------------------------
(* whoami, and listApiKeys of `keys list`, which is as `whoami` is but for the route. *)

\* The API looks at the key; it may also fail.
ApiAnswersCommand(p) ==
    /\ shell[p].at = "call"
    /\ \E answer \in {"ok", "auth", "api"} :
         /\ shell' = [shell EXCEPT ![p].at = "answered", ![p].answer = answer]
         /\ around' = [around EXCEPT !.accepted =
                          IF answer = "ok" /\ shell[p].cmd = "configure" THEN @ \cup {shell[p].config} ELSE @]
    /\ UNCHANGED rc

CallErrors == {"network", "timeout"}

\* fetch rejects: no connection, or the timer has aborted it.
CommandCallFails(p) ==
    /\ shell[p].at \in {"call", "answered"}
    /\ \E err \in CallErrors : CommandExits(p, err)
    /\ UNCHANGED <<rc, around>>

ReceiveAnswer(p) ==
    /\ shell[p].at = "answered"
    /\ IF shell[p].answer = "ok" /\ shell[p].cmd = "configure" THEN CommandAt(p, "open")
       ELSE CommandExits(p, shell[p].answer)
    /\ UNCHANGED <<rc, around>>

-----------------------------------------------------------------------------
(* saveConfig: open, write, then chmod and close, one after the other. *)
SavingConfig(p) == shell[p].at \in {"write", "chmod"}

\* History: no save that is under way is the only one to touch the file.
SavesDisturbed(sh) == [q \in Processes |-> [sh[q] EXCEPT !.alone = FALSE]]

SaveFails(p) == CommandExits(p, "io") /\ UNCHANGED <<rc, around>>

\* Mutant: the file is opened without losing its text.
OpenKeepingText(p) ==
    /\ shell[p].at = "open"
    /\ rc' = [rc EXCEPT !.there = TRUE, !.private = ~rc.there \/ @]
    /\ shell' = [SavesDisturbed(shell) EXCEPT
                   ![p].at = "write", ![p].linked = TRUE, ![p].touched = TRUE,
                   ![p].alone = \A q \in Processes : ~SavingConfig(q)]
    /\ around' = [around EXCEPT !.saved = NoConfig]

\* "w": a file that is there keeps its mode and loses its text.
OpenConfigFile(p) ==
    /\ shell[p].at = "open"
    /\ \/ SaveFails(p)
       \/ /\ rc' = ConfigFile(~rc.there \/ rc.private, NoConfig)
          /\ shell' = [SavesDisturbed(shell) EXCEPT
                         ![p].at = "write", ![p].linked = TRUE, ![p].touched = TRUE,
                         ![p].alone = \A q \in Processes : ~SavingConfig(q)]
          /\ around' = [around EXCEPT !.saved = NoConfig]

\* The handle writes from the beginning, what is longer stays behind it.
Overwritten(f, n, config) ==
    LET length == f.config + f.tail
    IN [f EXCEPT !.config = config,
                 !.tail = IF config # NoConfig THEN IF length > n THEN length - n ELSE 0
                          ELSE IF length > n THEN length ELSE n]

\* A file that was removed meanwhile is written to in vain.
ThroughHandle(p, f) == IF shell[p].linked THEN f ELSE rc

WriteConfigFile(p) ==
    /\ shell[p].at = "write"
    /\ \/ /\ rc' = ThroughHandle(p, Overwritten(rc, shell[p].config, shell[p].config))
          /\ CommandAt(p, "chmod")
       \/ /\ \E n \in 1..(shell[p].config - 1) : rc' = ThroughHandle(p, Overwritten(rc, n, NoConfig))
          /\ CommandExits(p, "io")
       \/ UNCHANGED rc /\ CommandExits(p, "io")
    /\ UNCHANGED around

ChmodConfigFile(p) ==
    /\ shell[p].at = "chmod"
    /\ \/ SaveFails(p)
       \/ /\ rc' = ThroughHandle(p, [rc EXCEPT !.private = TRUE])
          /\ CommandExits(p, "ok")
          /\ around' = [around EXCEPT !.saved = IF shell[p].alone THEN shell[p].config ELSE NoConfig]

KillCommand(p) ==
    /\ shell[p].at \notin {"idle", "exit"}
    /\ CommandExits(p, "killed")
    /\ UNCHANGED <<rc, around>>

-----------------------------------------------------------------------------
\* The user writes the file, changes its mode or removes it.
EditConfigByHand ==
    /\ around.edits < MaxHandEdits
    /\ around' = [around EXCEPT !.edits = @ + 1, !.saved = NoConfig]
    /\ \/ /\ rc' \in FilesWith(Configs \cup {NoConfig})
          /\ shell' = SavesDisturbed(shell)
       \/ /\ rc' = NoConfigFile
          /\ shell' = [p \in Processes |-> [shell[p] EXCEPT !.alone = FALSE, !.linked = FALSE]]

CommandStep(p) ==
    \/ \E cmd \in {"configure", "whoami"} : StartCommand(p, cmd)
    \/ AskConfig(p) \/ ReadConfigFile(p) \/ StatConfigFile(p)
    \/ ApiAnswersCommand(p) \/ CommandCallFails(p) \/ ReceiveAnswer(p)
    \/ OpenConfigFile(p) \/ WriteConfigFile(p) \/ ChmodConfigFile(p) \/ KillCommand(p)

CliConfigNext ==
    \/ \E p \in Processes : CommandStep(p)
    \/ EditConfigByHand

-----------------------------------------------------------------------------
CommandPlaces == {"idle", "ask", "read", "stat", "call", "answered", "open", "write", "chmod", "exit"}

\* config.ts 10-33: what the file, the commands and their surroundings are.
CliConfigTypeOK ==
    /\ rc \in [there : BOOLEAN, private : BOOLEAN, config : Configs \cup {NoConfig}, tail : Nat]
    /\ \A p \in Processes :
         /\ shell[p].at \in CommandPlaces /\ shell[p].config \in Configs \cup {NoConfig}
         /\ shell[p].at \in {"open", "write", "chmod"} =>
              shell[p].cmd = "configure" /\ shell[p].config \in ValidConfigs
    /\ around.saved \in ValidConfigs \cup {NoConfig}

\* config.ts 125-139: what a configure saved, that none disturbed, is in the file, whole
\* and private, until the next one opens it or somebody writes by hand.
SavedIsThere == around.saved # NoConfig => rc = ConfigFile(TRUE, around.saved)

\* configure.ts 48-56: no key is saved that the API has not accepted.
OnlyAcceptedSaved ==
    around.saved \in around.accepted \cup {NoConfig} /\ \A p \in Processes :
        shell[p].at \in {"open", "write", "chmod"}
            => shell[p].config \in around.accepted

\* configure.ts 29-42: "config not saved" is true, and so for all that end without it.
RefusedLeavesFile ==
    \A p \in Processes : shell[p].exit \in {3, 4, 130} => ~shell[p].touched

\* config.ts 35-75: a command that reads after a save finds what was saved.
ReadersFindSaved ==
    \A p \in Processes :
        shell[p].knew # NoConfig => shell[p].config = shell[p].knew /\ shell[p].at # "exit"
==============================================================================
