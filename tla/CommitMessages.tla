----------------------------- MODULE CommitMessages ---------------------------
(* Messages of commits: how they are parsed, scored and judged by a policy, what a
   policy asks of the provider that writes them, how its suggestion becomes a
   message, and how the history judges the suggestion again. *)
EXTENDS Naturals, Sequences, SequencesExt

CONSTANTS MaxMessageLines,  \* of a commit, its header included
          MaxBodyLines,     \* of a suggestion's body
          MaxRules          \* of a policy

ASSUME CommitMessagesAssumption ==
    MaxMessageLines \in Nat /\ MaxBodyLines \in Nat /\ MaxRules \in Nat

\* A line is told apart by how it begins: a word and ": " (a token of a footer),
\* "BREAKING CHANGE: ", anything else, spaces included, or nothing at all.
LineKinds == {"text", "token", "breaking", "blank"}
Tokens == {"token", "breaking"}

\* The first line: "none" has no colon, "odd" one that HEADER_RE does not match.  A
\* scope or a subject of spaces only is "" and 0.
HeaderOf(form, type, scope, subject, bang) ==
    [form |-> form, type |-> type, scope |-> scope, subject |-> subject, bang |-> bang]
Headers ==
    {HeaderOf("none", "", "", 0, FALSE), HeaderOf("odd", "", "", 0, FALSE),
     HeaderOf("cc", "feat", "", 0, FALSE), HeaderOf("cc", "feat", "", 80, TRUE),
     HeaderOf("cc", "feat", "api", 60, FALSE), HeaderOf("cc", "misc", "api", 50, FALSE)}

VALID_TYPES == {"feat"}  \* the eleven types; "misc" is none of them

VARIABLES commit,  \* header, lines, what it is parsed to, its score
          reply    \* a suggestion on its way: stage, policy (the row), snapshot (as it was
                   \* read), prompt, suggestion, parsed, verdict, shown (by the history)

messageVars == <<commit, reply>>

-----------------------------------------------------------------------------
\* parseConventionalCommit

Malformed(reason) ==
    [ok |-> FALSE, reason |-> reason, type |-> "", scope |-> "", subject |-> 0,
     body |-> <<>>, footer |-> <<>>, breaking |-> FALSE]

\* A blank line is held back until the line after it tells what it separates.
ReadMessageLine(p, l) ==
    CASE p.state = "body" ->
            IF l = "blank" THEN [p EXCEPT !.state = "blank"] ELSE [p EXCEPT !.body = Append(@, l)]
      [] p.state = "blank" /\ l \in Tokens -> [p EXCEPT !.state = "footer", !.footer = <<l>>]
      [] p.state = "blank" /\ l \notin Tokens -> [p EXCEPT !.state = "body", !.body = @ \o <<"blank", l>>]
      [] p.state = "footer" -> [p EXCEPT !.footer = Append(@, l)]

ReadLines(lines) ==
    FoldLeft(ReadMessageLine, [state |-> "body", body |-> <<>>, footer |-> <<>>], lines)

\* lines: those after the header.
Parse(header, lines) ==
    LET read == ReadLines(Tail(lines)) IN
    IF header.form = "none" THEN Malformed("no-type")
    ELSE IF header.form = "odd" \/ header.subject = 0 \/ (lines # <<>> /\ lines[1] # "blank")
    THEN Malformed("malformed-header")
    ELSE [ok |-> TRUE, reason |-> "", type |-> header.type, scope |-> header.scope,
          subject |-> header.subject,
          body |-> IF lines = <<>> THEN <<>> ELSE read.body,
          footer |-> IF lines = <<>> THEN <<>> ELSE read.footer,
          breaking |-> header.bang
                       \/ (lines # <<>> /\ \E k \in DOMAIN read.footer : read.footer[k] = "breaking")]

-----------------------------------------------------------------------------
\* scoreCommit

SubjectLengthPoints(length) ==
    CASE length = 0 -> 0
      [] length \in 1 .. 50 -> 20
      [] length \in 51 .. 72 -> 15
      [] OTHER -> 5

Points(weight, got) == IF got THEN weight ELSE 0

ScoreCommit(parsed) ==
    Points(30, parsed.ok) + Points(10, parsed.type \in VALID_TYPES) + Points(10, parsed.scope # "")
    + SubjectLengthPoints(parsed.subject)
    + Points(15, parsed.body # <<>>) + Points(15, parsed.footer # <<>>)

-----------------------------------------------------------------------------
\* Policies: what they ask for and what they accept

Rule(ruleType, values, limit, on) == [ruleType |-> ruleType, values |-> values, limit |-> limit, on |-> on]

\* The rules of the policies looked at; a pattern of scopes is the set it matches.
MessageRules ==
    {Rule("allowedTypes", {"feat"}, 0, FALSE), Rule("allowedTypes", {"misc"}, 0, FALSE),
     Rule("allowedScopes", {"api"}, 0, FALSE), Rule("maxSubjectLength", {}, 50, FALSE),
     Rule("bodyRequired", {}, 0, TRUE), Rule("bodyRequired", {}, 0, FALSE),
     Rule("footerRequired", {}, 0, TRUE)}

\* NoPolicy: none was chosen, or it was deleted since.
PolicyWith(rules) == [there |-> TRUE, rules |-> rules]
NoPolicy == [there |-> FALSE, rules |-> <<>>]
Rulebooks == {NoPolicy} \cup {PolicyWith(rules) : rules \in SeqOf(MessageRules, MaxRules)}

\* The rule functions, and the registry.
AllowedTypes(parsed, rule) == parsed.type \in rule.values
AllowedScopes(parsed, rule) == parsed.scope \in rule.values
MaxSubjectLength(parsed, rule) == parsed.subject <= rule.limit
BodyRequired(parsed, rule) == rule.on => parsed.body # <<>>
FooterRequired(parsed, rule) == rule.on => parsed.footer # <<>>

Accepts(rule, parsed) ==
    CASE rule.ruleType = "allowedTypes" -> AllowedTypes(parsed, rule)
      [] rule.ruleType = "allowedScopes" -> AllowedScopes(parsed, rule)
      [] rule.ruleType = "maxSubjectLength" -> MaxSubjectLength(parsed, rule)
      [] rule.ruleType = "bodyRequired" -> BodyRequired(parsed, rule)
      [] rule.ruleType = "footerRequired" -> FooterRequired(parsed, rule)

\* ValidatorService.validate
Validate(parsed, rules) == parsed.ok /\ \A k \in DOMAIN rules : Accepts(rules[k], parsed)

DefaultPrompt == [types |-> VALID_TYPES, anyScope |-> TRUE, scopes |-> {}, limit |-> 72, asks |-> {}]

\* A rule replaces what one of its kind asked for before it.
Asked(prompt, rule) ==
    CASE rule.ruleType = "allowedTypes" -> [prompt EXCEPT !.types = rule.values]
      [] rule.ruleType = "allowedScopes" -> [prompt EXCEPT !.scopes = rule.values, !.anyScope = FALSE]
      [] rule.ruleType = "maxSubjectLength" -> [prompt EXCEPT !.limit = rule.limit]
      [] rule.ruleType \in {"bodyRequired", "footerRequired"} ->
            IF rule.on THEN [prompt EXCEPT !.asks = @ \cup {rule.ruleType}] ELSE prompt

ResolvePolicy(policy) == FoldLeft(Asked, DefaultPrompt, policy.rules)

-----------------------------------------------------------------------------
\* Suggestions

Suggestion(header, body, footer) == [header |-> header, body |-> body, footer |-> footer]

\* What a provider may answer: a type is a word, a subject is not empty.
Suggestions ==
    {Suggestion(h, b, f) : h \in {x \in Headers : x.form # "none" /\ ~x.bang},
                           b \in SeqOf(LineKinds \ {"breaking"}, MaxBodyLines),
                           f \in {<<>>} \cup {<<l>> : l \in LineKinds}}

\* String.trim
Trim(lines) ==
    LET said == {k \in DOMAIN lines : lines[k] # "blank"}
    IN IF said = {} THEN <<>>
       ELSE SubSeq(lines, CHOOSE k \in said : \A j \in said : k <= j,
                          CHOOSE k \in said : \A j \in said : j <= k)

\* formatSuggestionAsCommitMessage: the lines under the header.
FormatSuggestion(s) ==
    (IF Trim(s.body) = <<>> THEN <<>> ELSE <<"blank">> \o Trim(s.body))
    \o (IF Trim(s.footer) = <<>> THEN <<>> ELSE <<"blank">> \o Trim(s.footer))

ParseSuggestion(s) == Parse(s.header, FormatSuggestion(s))

\* What is compliant where there is no policy to ask.
Compliant(parsed, policy, otherwise) == IF policy.there THEN Validate(parsed, policy.rules) ELSE otherwise

-----------------------------------------------------------------------------
NoHeader == HeaderOf("none", "", "", 0, FALSE)
NoReply(policy) ==
    [stage |-> "idle", policy |-> policy, snapshot |-> NoPolicy, prompt |-> DefaultPrompt,
     suggestion |-> Suggestion(NoHeader, <<>>, <<>>), parsed |-> Malformed("empty"),
     verdict |-> TRUE, shown |-> TRUE]

CommitWith(header, lines) ==
    LET parsed == Parse(header, lines)
    IN [header |-> header, lines |-> lines, parsed |-> parsed, score |-> ScoreCommit(parsed)]

CommitMessagesInit ==
    /\ commit \in {CommitWith(h, <<>>) : h \in Headers}
    /\ reply \in {NoReply(policy) : policy \in Rulebooks}

\* A commit that is a line longer is parsed and scored by a sync or a rescore.
WriteLine ==
    /\ reply = NoReply(NoPolicy)
    /\ Len(commit.lines) + 1 < MaxMessageLines
    /\ \E l \in LineKinds : commit' = CommitWith(commit.header, Append(commit.lines, l))
    /\ UNCHANGED reply

\* The policy is read once, for the prompt and for what the provider answers.
BuildPrompt ==
    /\ reply.stage = "idle" /\ commit = CommitWith(NoHeader, <<>>)
    /\ reply' = [reply EXCEPT !.stage = "asked", !.snapshot = reply.policy,
                              !.prompt = ResolvePolicy(reply.policy)]
    /\ UNCHANGED commit

\* Mutant: the suggestion is judged by the policy as it is by now.
EnrichByRow(s) ==
    reply' = [reply EXCEPT !.stage = "answered", !.suggestion = s, !.parsed = ParseSuggestion(s),
                           !.verdict = Compliant(ParseSuggestion(s), reply.policy, TRUE)]

Enrich(s) ==
    reply' = [reply EXCEPT !.stage = "answered", !.suggestion = s, !.parsed = ParseSuggestion(s),
                           !.verdict = Compliant(ParseSuggestion(s), reply.snapshot, TRUE)]

SuggestionArrives ==
    /\ reply.stage = "asked"
    /\ \E s \in Suggestions : Enrich(s)
    /\ UNCHANGED commit

\* Of the policies looked at, those of one rule are changed or deleted meanwhile.
EditPolicy ==
    /\ reply.stage \in {"asked", "answered"} /\ reply.policy = reply.snapshot
    /\ Len(reply.policy.rules) = 1 /\ \E policy \in Rulebooks :
         /\ Len(policy.rules) <= 1
         /\ reply' = [reply EXCEPT !.policy = policy]
    /\ UNCHANGED commit

\* GenerationHistoryService.enrichSuggestion
ShownNow ==
    reply' = [reply EXCEPT !.stage = "shown",
                           !.shown = Compliant(ParseSuggestion(reply.suggestion), reply.policy, reply.verdict)]

ReadHistory ==
    /\ reply.stage = "answered"
    /\ ShownNow
    /\ UNCHANGED commit

CommitMessagesNext == WriteLine \/ BuildPrompt \/ SuggestionArrives \/ EditPolicy \/ ReadHistory

-----------------------------------------------------------------------------
\* Put together again, body and footer are the lines after the one that follows the
\* header: the parser loses, moves and doubles none of them (a blank line at the end
\* is not read yet).
ParsedKeepsMessage ==
    (commit.parsed.ok /\ commit.lines # <<>>) =>
        LET parsed == commit.parsed
            together == parsed.body
                        \o (IF parsed.footer = <<>> THEN <<>> ELSE <<"blank">> \o parsed.footer)
        IN Tail(commit.lines) \in {together, Append(together, "blank")}

\* The footer begins at the first token that an odd number of blank lines precedes,
\* the one under the header not counted, and runs to the end: a token elsewhere is
\* text of the body.
OpensFooter(lines, k) ==
    /\ lines[k] \in Tokens
    /\ \E j \in 1 .. k - 1 :
         /\ \A i \in k - j .. k - 1 : lines[i] = "blank"
         /\ (k - j = 1 \/ lines[k - j - 1] # "blank")
         /\ j % 2 = 1

FooterStartsAfterBlank ==
    (commit.parsed.ok /\ commit.lines # <<>>) =>
        LET lines == Tail(commit.lines)
            starts == {k \in DOMAIN lines : OpensFooter(lines, k)}
        IN commit.parsed.footer =
              IF starts = {} THEN <<>>
              ELSE SubSeq(lines, CHOOSE k \in starts : \A j \in starts : k <= j, Len(lines))

\* The score tells conventional messages from the others: these get nothing for what
\* they have, those 35 at least; and 100 takes every part, a valid type and a
\* subject of 50 at most.
ScoreSeparates ==
    LET parsed == commit.parsed IN
    /\ commit.score \in (IF parsed.ok THEN 35 .. 100 ELSE {0})
    /\ commit.score = 100 =>
         parsed.type \in VALID_TYPES /\ parsed.scope # "" /\ parsed.subject <= 50
         /\ parsed.body # <<>> /\ parsed.footer # <<>>

\* Of the paragraphs of a body, none begins like a footer.
PlainBody(body) == \A k \in 1 .. Len(body) - 1 : body[k] = "blank" => body[k + 1] = "text"

\* A suggestion with a body and a footer that begins with a token is read back from
\* the message it was made into: what is judged is what the provider wrote.
SuggestionReadBack ==
    LET s == reply.suggestion IN
    (/\ reply.stage \in {"answered", "shown"} /\ reply.parsed.ok
     /\ Trim(s.body) # <<>> /\ PlainBody(Trim(s.body))
     /\ s.footer = <<>> \/ Head(s.footer) \in Tokens)
    => reply.parsed.body = Trim(s.body) /\ reply.parsed.footer = s.footer

\* A suggestion that does what the prompt asks.
Obeys(s, prompt) ==
    /\ s.header.form = "cc" /\ s.header.type \in prompt.types
    /\ s.header.subject \in 1 .. prompt.limit
    /\ prompt.anyScope \/ s.header.scope \in prompt.scopes
    /\ "bodyRequired" \in prompt.asks => Trim(s.body) # <<>>
    /\ "footerRequired" \in prompt.asks => (Trim(s.body) # <<>> /\ s.footer # <<>> /\ Head(s.footer) \in Tokens)

Distinct(rules) == \A j, k \in DOMAIN rules : rules[j].ruleType = rules[k].ruleType => j = k

\* A suggestion that does what the prompt asks is compliant, where the policy has one
\* rule of a kind, even if it is edited while the provider writes.
ObedientReplyPasses ==
    (/\ reply.stage \in {"answered", "shown"} /\ Distinct(reply.snapshot.rules)
     /\ Obeys(reply.suggestion, reply.prompt))
    => reply.verdict

\* The history shows the verdict that was given, unless the policy is another by now
\* and still there.
HistoryKeepsVerdict ==
    (reply.stage = "shown" /\ (reply.policy = reply.snapshot \/ ~reply.policy.there)) =>
        reply.shown = reply.verdict
===============================================================================
