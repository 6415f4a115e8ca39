------------------------------- MODULE LlmKeys --------------------------------
(* A user's keys at the LLM providers: upsert and remove of LlmKeysService with
   the repository's read-then-save, and the page with its upsert and delete
   dialogs.  There is at most one row for a provider (the unique constraint). *)
EXTENDS Naturals, FiniteSets, QueryCache

(* What verify() makes of a failed call to a provider: the mapping of
   llm-provider.errors.ts.  An error of the AI SDK is a record: an API response with
   its status and the billing marker its body holds, an abort or timeout, or a
   RetryError around the last attempt's error. *)

Api(status, marker) == [type |-> "api", status |-> status, marker |-> marker]
Plain(type) == [type |-> type]
Retried(last) == [type |-> "retry", last |-> last]

\* isInsufficientQuota and isAnthropicLowCredit look for a marker in the body.
OutOfCredit(err) ==
    \/ err.status = 429 /\ err.marker = "insufficient_quota"
    \/ err.status = 400 /\ err.marker = "low credit"

\* mapProviderError of an error that wraps no other.
ClassOf(err) ==
    CASE err.type = "abort" -> "Timeout"
      [] err.type = "api" ->
           IF err.status \in {401, 403} THEN "Auth"
           ELSE IF OutOfCredit(err) THEN "QuotaExhausted"
           ELSE IF err.status = 429 THEN "Quota"
           ELSE "Upstream"
      [] OTHER -> "Upstream"

\* A RetryError stands for its last attempt, if it names one.
MapProviderError(err) ==
    IF err.type = "retry"
    THEN IF err.last.type = "none" THEN "Upstream" ELSE ClassOf(err.last)
    ELSE ClassOf(err)

\* verify(): a bad key is FALSE, a rate limit counts as a good key, the rest is
\* thrown (here: the class itself).
VerifyVerdict(err) ==
    CASE MapProviderError(err) = "Auth" -> "bad"
      [] MapProviderError(err) = "Quota" -> "good"
      [] OTHER -> MapProviderError(err)

-----------------------------------------------------------------------------

CONSTANTS LlmProviders, KeyTexts, LlmCalls, MaxLlmFaults

ASSUME LlmKeysAssumption ==
    /\ LlmProviders # {} /\ MaxLlmFaults \in Nat
    /\ LlmCalls \subseteq Nat \ {0} /\ IsFiniteSet(LlmCalls)

NoRow == "none"
OldKey == "old"    \* a key stored before
NoProvider == "none"
DefaultProvider == CHOOSE p \in LlmProviders : TRUE
EmptyForm == [provider |-> DefaultProvider, key |-> NoRow]

VARIABLES llmRow,   \* [provider -> the key that its row holds]
          llmCall,  \* [call -> an upsert or delete, from the click to the answer]
          llmPage,  \* the query and the dialogs
          llmLog    \* events published: [upserted, deleted -> number per provider]

llmKeyVars == <<llmRow, llmCall, llmPage, llmLog>>

\* verified: the provider took the key; found: the row that findOne read; before:
\* the calls that were done with before this one.
NoLlmCall == [op |-> "none", at |-> "idle", form |-> EmptyForm, verified |-> FALSE, found |-> NoRow,
              prev |-> {}, outcome |-> "none", waiting |-> FALSE, early |-> FALSE, before |-> {}]

Configured == {p \in LlmProviders : llmRow[p] # NoRow}

LlmKeysInit ==
    /\ llmRow = [p \in LlmProviders |-> IF p = DefaultProvider THEN OldKey ELSE NoRow]
    /\ llmCall = [c \in LlmCalls |-> NoLlmCall]
    /\ llmPage = [query |-> MountedQuery({DefaultProvider}), open |-> FALSE, form |-> EmptyForm, submitting |-> FALSE,
                  error |-> "none", errorOf |-> EmptyForm, drifted |-> FALSE,
                  asked |-> NoProvider, latest |-> 0, faults |-> 0]
    /\ llmLog = [upserted |-> [p \in LlmProviders |-> IF p = DefaultProvider THEN 1 ELSE 0], deleted |-> [p \in LlmProviders |-> 0]]

LlmFault == llmPage.faults < MaxLlmFaults
LlmWaiting == \E c \in LlmCalls : llmCall[c].waiting /\ llmCall[c].op = "upsert"

-----------------------------------------------------------------------------
\* The upsert dialog

OpenUpsert ==
    /\ ~llmPage.open /\ llmPage.asked = NoProvider
    /\ llmPage' = [llmPage EXCEPT !.open = TRUE]
    /\ UNCHANGED <<llmRow, llmCall, llmLog>>

\* handleClose with reset(), by the user or after a success.
Closed(p) == [p EXCEPT !.open = FALSE, !.form = EmptyForm, !.submitting = FALSE, !.error = "none",
                       !.drifted = @ \/ LlmWaiting]

CloseUpsert ==
    /\ llmPage.open
    /\ llmPage' = Closed(llmPage)
    /\ UNCHANGED <<llmRow, llmCall, llmLog>>

\* Both fields are open while a call is under way; a change of either clears the
\* error.
Edited(form) == [llmPage EXCEPT !.form = form, !.drifted = @ \/ LlmWaiting, !.error = "none"]

EditForm ==
    /\ llmPage.open
    /\ \E p \in LlmProviders, k \in KeyTexts :
         /\ llmPage.form # [provider |-> p, key |-> k]
         /\ llmPage.form.provider = p \/ llmPage.form.key = k
         /\ llmPage' = Edited([provider |-> p, key |-> k])
    /\ UNCHANGED <<llmRow, llmCall, llmLog>>

\* handleSubmit
SubmitLlmKey(c) ==
    /\ llmCall[c].op = "none" /\ llmPage.open /\ llmPage.form.key # NoRow /\ ~llmPage.submitting
    /\ llmPage' = [llmPage EXCEPT !.submitting = TRUE, !.error = "none", !.drifted = @ /\ LlmWaiting]
    /\ llmCall' = [llmCall EXCEPT ![c].op = "upsert", ![c].at = "verify", ![c].form = llmPage.form,
            ![c].waiting = TRUE, ![c].before = {d \in LlmCalls : llmCall[d].outcome = "ok"}]
    /\ UNCHANGED <<llmRow, llmLog>>

\* onSuccess puts the row in the list, onSettled asks for it again.  Then the
\* dialog, whatever it shows by now, is closed or gets the error.
UpsertSettled(c, outcome) ==
    LET q == llmPage.query
        form == llmCall[c].form
        p == [llmPage EXCEPT !.submitting = FALSE, !.query = InvalidateQueries(
                IF outcome = "ok" THEN SetQueryData(q, q.data \cup {form.provider}) ELSE q)]
    IN IF outcome = "ok" THEN Closed(p) ELSE [p EXCEPT !.error = outcome, !.errorOf = form]

-----------------------------------------------------------------------------
\* LlmKeysService.upsert

\* What a provider may answer to verify().
VerifyErrors == {Api(401, "none"), Api(429, "none"), Api(429, "insufficient_quota"),
                 Plain("abort"), Retried(Api(500, "none"))}

\* Mutant: only a key that was refused is kept out.
StatusByRefusal(verdict) == IF verdict = "bad" THEN "422" ELSE "good"

\* A verdict of the provider: the key is stored, or a 422 tells why not.
StatusOf(verdict) == IF verdict = "good" THEN "good" ELSE "422"

LlmVerified(c) ==
    /\ llmCall[c].at = "verify"
    /\ \E verdict \in {"good"} \cup {VerifyVerdict(e) : e \in VerifyErrors} :
         llmCall' = [llmCall EXCEPT ![c].verified = verdict = "good",
            ![c].at = IF StatusOf(verdict) = "good" THEN "find" ELSE "answer",
            ![c].outcome = IF StatusOf(verdict) = "good" THEN @ ELSE "422"]
    /\ UNCHANGED <<llmRow, llmPage, llmLog>>

\* upsertForUser: findOne
UpsertFinds(c) ==
    /\ llmCall[c].at = "find"
    /\ llmCall' = [llmCall EXCEPT ![c].at = "save", ![c].found = llmRow[llmCall[c].form.provider]]
    /\ UNCHANGED <<llmRow, llmPage, llmLog>>

\* save: of a row that was found (inserted again if it is gone), or an insert,
\* which the unique constraint refuses when the row has come since.
UpsertSaves(c) ==
    LET form == llmCall[c].form
        refused == llmCall[c].found = NoRow /\ llmRow[form.provider] # NoRow
    IN /\ llmCall[c].at = "save"
       /\ llmRow' = IF refused THEN llmRow ELSE [llmRow EXCEPT ![form.provider] = form.key]
       /\ llmCall' = [llmCall EXCEPT ![c].at = IF refused THEN "answer" ELSE "publish",
                                     ![c].outcome = IF refused THEN "unique" ELSE "ok"]
       /\ UNCHANGED <<llmPage, llmLog>>

-----------------------------------------------------------------------------
\* The delete dialog and LlmKeysService.remove

\* Only the latest deletion's row shows that it is under way.
IsDeleting(p) == \E c \in LlmCalls : c = llmPage.latest /\ llmCall[c].waiting /\ llmCall[c].form.provider = p

AskDelete(p) ==
    /\ ~llmPage.open /\ llmPage.asked = NoProvider
    /\ ~llmPage.query.error /\ p \in llmPage.query.data /\ ~IsDeleting(p)
    /\ llmPage' = [llmPage EXCEPT !.asked = p]
    /\ UNCHANGED <<llmRow, llmCall, llmLog>>

CancelDelete ==
    /\ llmPage.asked # NoProvider
    /\ llmPage' = [llmPage EXCEPT !.asked = NoProvider]
    /\ UNCHANGED <<llmRow, llmCall, llmLog>>

\* handleDelete and onMutate
ConfirmDelete(c) ==
    LET p == llmPage.asked
        q == CancelQueries(llmPage.query)
    IN /\ p # NoProvider /\ llmCall[c].op = "none"
       /\ llmPage' = [llmPage EXCEPT !.asked = NoProvider, !.latest = c, !.query = SetQueryData(q, q.data \ {p})]
       /\ llmCall' = [llmCall EXCEPT ![c].op = "delete", ![c].at = "remove", ![c].form.provider = p,
                                     ![c].prev = q.data, ![c].waiting = TRUE]
       /\ UNCHANGED <<llmRow, llmLog>>

\* deleteByUserAndProvider: one statement, which says whether there was a row.
Removes(c) ==
    LET p == llmCall[c].form.provider
        removed == llmRow[p] # NoRow
    IN /\ llmCall[c].at = "remove"
       /\ llmRow' = [llmRow EXCEPT ![p] = NoRow]
       /\ llmCall' = [llmCall EXCEPT ![c].at = IF removed THEN "publish" ELSE "answer",
                                     ![c].outcome = IF removed THEN "ok" ELSE "404"]
       /\ UNCHANGED <<llmPage, llmLog>>

\* The event, once the statement's result is there.
Publishes(c) ==
    LET p == llmCall[c].form.provider IN
    /\ llmCall[c].at = "publish"
    /\ llmLog' = IF llmCall[c].op = "upsert" THEN [llmLog EXCEPT !.upserted[p] = @ + 1]
                 ELSE [llmLog EXCEPT !.deleted[p] = @ + 1]
    /\ llmCall' = [llmCall EXCEPT ![c].at = "answer"]
    /\ UNCHANGED <<llmRow, llmPage>>

\* onError brings back the list from before the click; onSettled asks for it.
DeleteSettled(c, outcome) ==
    LET q == llmPage.query
    IN [llmPage EXCEPT !.query =
          InvalidateQueries(IF outcome = "ok" THEN q ELSE SetQueryData(q, llmCall[c].prev))]

-----------------------------------------------------------------------------
\* Answers, and the list

LlmSettled(c, outcome) ==
    IF llmCall[c].op = "upsert" THEN UpsertSettled(c, outcome) ELSE DeleteSettled(c, outcome)

LlmAnswered(c) ==
    /\ llmCall[c].at = "answer" /\ llmCall[c].waiting
    /\ llmPage' = LlmSettled(c, llmCall[c].outcome)
    /\ llmCall' = [llmCall EXCEPT ![c].waiting = FALSE]
    /\ UNCHANGED <<llmRow, llmLog>>

\* The connection breaks: the page is told of an error, the API works on.
LlmLost(c) ==
    /\ LlmFault /\ llmCall[c].waiting
    /\ llmPage' = [LlmSettled(c, "unknown_error") EXCEPT !.faults = @ + 1]
    /\ llmCall' = [llmCall EXCEPT ![c].waiting = FALSE, ![c].early = llmCall[c].at # "answer"]
    /\ UNCHANGED <<llmRow, llmLog>>

LlmListRead ==
    /\ llmPage.query.fetch.at = "sent"
    /\ llmPage' = [llmPage EXCEPT !.query = Reads(@, Configured)]
    /\ UNCHANGED <<llmRow, llmCall, llmLog>>

LlmListAnswered ==
    /\ llmPage.query.fetch.at = "back"
    /\ llmPage' = [llmPage EXCEPT !.query = Succeeds(@)]
    /\ UNCHANGED <<llmRow, llmCall, llmLog>>

LlmListFailed ==
    /\ LlmFault /\ ~Idle(llmPage.query)
    /\ llmPage' = [llmPage EXCEPT !.query = Fails(@), !.faults = @ + 1]
    /\ UNCHANGED <<llmRow, llmCall, llmLog>>

\* The error's retry button.
LlmListRetry ==
    /\ llmPage.query.error /\ Idle(llmPage.query)
    /\ llmPage' = [llmPage EXCEPT !.query = InvalidateQueries(@)]
    /\ UNCHANGED <<llmRow, llmCall, llmLog>>

LlmKeysNext ==
    \/ OpenUpsert \/ CloseUpsert \/ EditForm \/ CancelDelete
    \/ \E p \in LlmProviders : AskDelete(p)
    \/ \E c \in LlmCalls :
         \/ SubmitLlmKey(c) \/ LlmVerified(c) \/ UpsertFinds(c) \/ UpsertSaves(c)
         \/ ConfirmDelete(c) \/ Removes(c) \/ Publishes(c)
         \/ LlmAnswered(c) \/ LlmLost(c)
    \/ LlmListRead \/ LlmListAnswered \/ LlmListFailed \/ LlmListRetry

-----------------------------------------------------------------------------
\* The types; the button is disabled only while a call is under way.
LlmKeysTypeOK ==
    /\ llmRow \in [LlmProviders -> KeyTexts \cup {NoRow, OldKey}]
    /\ \A c \in LlmCalls : llmCall[c].at \in {"idle", "verify", "find", "save", "remove", "publish", "answer"}
    /\ llmPage.query.data \subseteq LlmProviders
    /\ llmPage.submitting => LlmWaiting

\* llm-keys/hooks.ts: with two optimistic updates and a list that may be read before
\* either is done, the page shows the providers with a row when nothing is under
\* way, unless it had given up a call that the API went on with.
LlmPageSettles ==
    /\ Idle(llmPage.query) /\ ~llmPage.query.error
    /\ \A c \in LlmCalls : ~llmCall[c].waiting /\ ~llmCall[c].early
    => llmPage.query.data = Configured

\* llm-keys.service.ts 40-90: every key it stores was taken by its provider.
StoredKeyVerified ==
    \A p \in LlmProviders : llmRow[p] \notin {NoRow, OldKey} =>
        \E c \in LlmCalls : llmCall[c].verified /\ llmCall[c].form = [provider |-> p, key |-> llmRow[p]]

\* llm-api-key.repository.ts 52-79: an upsert runs into the unique constraint only
\* when another one of the provider had found no row either and came first.
UniqueOnlyByOverlap ==
    \A c \in LlmCalls : llmCall[c].outcome = "unique" =>
        \E d \in LlmCalls \ llmCall[c].before :
            /\ llmCall[d].op = "upsert" /\ llmCall[d].outcome = "ok"
            /\ llmCall[d].form.provider = llmCall[c].form.provider

\* llm-keys.service.ts 92-96: once all is told, no more deletions of a provider's key
\* are told of than saves of it.
DeletionsTold ==
    (\A c \in LlmCalls : llmCall[c].at # "publish") =>
        \A p \in LlmProviders : llmLog.deleted[p] <= llmLog.upserted[p]

\* upsert-llm-key-dialog.tsx: the error on the screen is about the provider and the
\* key on the screen, unless they were changed, or the dialog closed, during a call.
ErrorIsAboutForm ==
    llmPage.open /\ llmPage.error # "none" /\ ~llmPage.drifted => llmPage.errorOf = llmPage.form
===============================================================================
