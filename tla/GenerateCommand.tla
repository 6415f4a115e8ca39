--------------------------- MODULE GenerateCommand ---------------------------
(* GenerateMessageHandler.execute (generate-message.handler.ts): the generation
   without a stream, with one regeneration when suggestions break the policy.
   cmd is one command: how many suggestions of each provider run comply, of how
   many; the answer; the rows stored; the events published.  Failures before
   the try block (diff, policy access) are answered without a row. *)
EXTENDS Naturals, Sequences

CONSTANT PerRun  \* suggestions a run of the provider is asked for

VARIABLE cmd

\* A finished provider run: n suggestions (the provider throws on none) of
\* which ok comply.
ProviderRuns == {r \in [n : 1 .. PerRun, ok : 0 .. PerRun] : r.ok <= r.n}
NoRun == [n |-> 0, ok |-> 0]

NewCommand == [at |-> "start", policy |-> FALSE, first |-> NoRun, chosen |-> NoRun,
               regenerated |-> FALSE, goal |-> "none", rows |-> <<>>,
               published |-> {}, answer |-> "none"]

CommandTypeOK ==
    cmd \in [at : {"start", "first", "second", "persist", "over"}, policy : BOOLEAN,
             first : ProviderRuns \cup {NoRun}, chosen : ProviderRuns \cup {NoRun},
             regenerated : BOOLEAN, goal : {"none", "failed", "completed"},
             rows : Seq({"failed", "completed"}), published : SUBSET {"failed", "completed"},
             answer : {"none", "thrown", "stored", "not stored"}]

\* The diff is parsed and the policy resolved; either may throw.
Resolve ==
    /\ cmd.at = "start"
    /\ \/ cmd' = [cmd EXCEPT !.at = "over", !.answer = "thrown"]
       \/ \E p \in BOOLEAN : cmd' = [cmd EXCEPT !.at = "first", !.policy = p]

\* Without a policy every suggestion complies.
FirstRun ==
    /\ cmd.at = "first"
    /\ \/ cmd' = [cmd EXCEPT !.at = "persist", !.goal = "failed"]
       \/ \E r \in ProviderRuns, enabled \in BOOLEAN :
            /\ cmd.policy \/ r.ok = r.n
            /\ LET again == cmd.policy /\ enabled /\ r.ok < r.n IN
               cmd' = [cmd EXCEPT !.first = r, !.chosen = r,
                                  !.at = IF again THEN "second" ELSE "persist",
                                  !.goal = IF again THEN "none" ELSE "completed"]

\* Mutant: the second run is taken whenever it has more suggestions.
SecondRunByLength ==
    /\ cmd.at = "second"
    /\ \/ cmd' = [cmd EXCEPT !.at = "persist", !.goal = "failed", !.chosen = NoRun]
       \/ \E r \in ProviderRuns :
            LET better == r.n > cmd.chosen.n IN
            cmd' = [cmd EXCEPT !.at = "persist", !.goal = "completed",
                               !.chosen = IF better THEN r ELSE @,
                               !.regenerated = better]

\* The second run is taken if more of its suggestions comply; if it fails, the
\* command fails and drops the first run's suggestions.
SecondRun ==
    /\ cmd.at = "second"
    /\ \/ cmd' = [cmd EXCEPT !.at = "persist", !.goal = "failed", !.chosen = NoRun]
       \/ \E r \in ProviderRuns :
            LET better == r.ok > cmd.chosen.ok IN
            cmd' = [cmd EXCEPT !.at = "persist", !.goal = "completed",
                               !.chosen = IF better THEN r ELSE @,
                               !.regenerated = better]

PersistCommand(stored) ==
    /\ cmd.at = "persist"
    /\ cmd' = [cmd EXCEPT !.at = "over",
                          !.rows = IF stored THEN Append(@, cmd.goal) ELSE @,
                          !.published = IF stored THEN {cmd.goal} ELSE {},
                          !.answer = IF cmd.goal = "failed" THEN "thrown"
                                     ELSE IF stored THEN "stored" ELSE "not stored"]

CommandStep ==
    \/ Resolve \/ FirstRun \/ SecondRun
    \/ \E stored \in BOOLEAN : PersistCommand(stored)

=============================================================================
