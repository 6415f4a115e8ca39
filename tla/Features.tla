------------------------------- MODULE Features -------------------------------
(* The services, caches and keys beside the synchronisation, the policies and the
   generation of messages.  They share no state, so a behaviour is about one of
   them, chosen at the start; the variables of the others stay as they are. *)
EXTENDS PagedLists, Analytics, Sessions, ApiKeys, LlmKeys, CommitMessages

CONSTANT Chosen  \* those looked at

VARIABLE feature

vars == <<feature, listVars, analyticsVars, sessionVars, apiKeyVars, llmKeyVars, messageVars>>

Init ==
    /\ feature \in Chosen
    /\ IF feature = "listings" THEN ListsInit ELSE rows = {} /\ list = Mounted("history", NoFilter)
    /\ IF feature = "rescore" THEN RescoreInit /\ CacheInit ELSE AnalyticsInit
    /\ IF feature = "sessions" THEN SessionsInit ELSE SessionsInit /\ ~user.there
    /\ ApiKeysInit
    /\ LlmKeysInit
    /\ IF feature = "commit messages" THEN CommitMessagesInit ELSE CommitMessagesInit /\ commit = CommitWith(NoHeader, <<>>) /\ reply = NoReply(NoPolicy)

ListingsFeature ==
    /\ feature = "listings" /\ ListsNext
    /\ UNCHANGED <<feature, analyticsVars, sessionVars, apiKeyVars, llmKeyVars, messageVars>>

RescoreFeature ==
    /\ feature = "rescore" /\ RescoreNext /\ UNCHANGED cacheVars
    /\ UNCHANGED <<feature, listVars, sessionVars, apiKeyVars, llmKeyVars, messageVars>>

AnalyticsFeature ==
    /\ feature = "analytics" /\ AnalyticsNext
    /\ UNCHANGED <<feature, listVars, sessionVars, apiKeyVars, llmKeyVars, messageVars>>

SessionsFeature ==
    /\ feature = "sessions" /\ SessionsNext
    /\ UNCHANGED <<feature, listVars, analyticsVars, apiKeyVars, llmKeyVars, messageVars>>

ApiKeysFeature ==
    /\ feature = "api keys" /\ ApiKeysNext
    /\ UNCHANGED <<feature, listVars, analyticsVars, sessionVars, llmKeyVars, messageVars>>

LlmKeysFeature ==
    /\ feature = "llm keys" /\ LlmKeysNext
    /\ UNCHANGED <<feature, listVars, analyticsVars, sessionVars, apiKeyVars, messageVars>>

CommitMessagesFeature ==
    /\ feature = "commit messages" /\ CommitMessagesNext
    /\ UNCHANGED <<feature, listVars, analyticsVars, sessionVars, apiKeyVars, llmKeyVars>>

Next ==
    \/ ListingsFeature
    \/ RescoreFeature
    \/ AnalyticsFeature
    \/ SessionsFeature
    \/ ApiKeysFeature
    \/ LlmKeysFeature
    \/ CommitMessagesFeature

\* Only what needs nobody's click and no answer is fair: a key of Redis expires.
Spec ==
    /\ Init /\ [][Next]_vars
    /\ \A k \in Kinds : WF_vars(feature = "analytics" /\ Expire(k)
          /\ UNCHANGED <<feature, listVars, sessionVars, apiKeyVars, llmKeyVars, messageVars>>)

-------------------------------------------------------------------------------
\* A list that is walked page by page shows every row that matches and none twice,
\* while rows are added and filters change (history-view.tsx and the cursors).
ListsShowEveryRow == NothingTwice /\ WalkIsComplete

\* Statistics from before a sync are served only where the sync overlapped the fill or
\* the sweep, and a page that was told of a sync shows it (analytics-cache.service.ts,
\* the invalidation handlers).  That nothing stale stays for ever is CacheComesFresh.
StatsFollowSync == StaleOnlyByOverlap /\ PageShowsSync

\* Proxy, layout and callback agree about who is logged in, a session ends only for the
\* cookies that were dropped, and a stored GitHub token is not lost to an older write.
SessionsHold ==
    /\ [](SessionsTypeOK /\ NoRedirectLoop /\ LoggedMeansSynced /\ LostByDroppedCookies)
    /\ TokenKept

\* A revoked key opens nothing, a secret is shown once, events tell of what was done,
\* and the page, whose optimistic changes overlap, settles on the API's rows.
ApiKeysHold ==
    ApiKeysTypeOK /\ KeysPageSettles /\ RevokedKeyRefused /\ KeyEventsMatch /\ SecretShownOnce

\* Only a verified key is stored, one for each provider, the events tell of each
\* change, and a late answer leaves neither page nor dialog with what it is not about.
LlmKeysHold ==
    /\ LlmKeysTypeOK /\ LlmPageSettles /\ StoredKeyVerified /\ UniqueOnlyByOverlap
    /\ DeletionsTold /\ ErrorIsAboutForm

\* What is parsed, formatted and judged is one message: a suggestion is read back as it
\* was written, a reply that obeys the prompt passes the policy it was written for,
\* and the history shows that verdict (cc-parser.ts, the policy's validator).
MessagesKeepTheirMeaning ==
    /\ ParsedKeepsMessage /\ FooterStartsAfterBlank /\ ScoreSeparates /\ SuggestionReadBack
    /\ ObedientReplyPasses /\ HistoryKeepsVerdict
===============================================================================
