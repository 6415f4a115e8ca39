------------------------------- MODULE ApiKeys --------------------------------
(* A user's API keys: mintApiKey and revokeApiKey of AuthService, the guard that
   lets a key in, the audit rows, and the page with its create and revoke
   dialogs.  A key is its row's number; the page's list is a set of keys. *)
EXTENDS Naturals, Sequences, FiniteSets, QueryCache

CONSTANTS KeyPrefixes, MintMaxAttempts, KeyCalls, MaxKeyFaults

ASSUME ApiKeysAssumption ==
    /\ MintMaxAttempts \in Nat \ {0} /\ MaxKeyFaults \in Nat /\ KeyPrefixes # {}
    /\ KeyCalls \subseteq Nat \ {0} /\ IsFiniteSet(KeyCalls)

NoKey == 0

VARIABLES keyRow,   \* rows of api_keys: [key -> [prefix, revoked]]
          keyCall,  \* [call -> a create or revoke, from the click to the answer]
          keyPage,  \* the query, the dialogs; seen: secrets a closed dialog had shown
          keyUse,   \* a client that presents a key
          keyLog    \* events published for each row: [created, revoked]

apiKeyVars == <<keyRow, keyCall, keyPage, keyUse, keyLog>>

Keys == DOMAIN keyRow
ActiveKeys == {k \in Keys : ~keyRow[k].revoked}

\* at: the API's side; waiting: the page's; early: given up while the API worked;
\* overlaps: another revocation of the row had found it active too.
NoKeyCall == [op |-> "none", at |-> "idle", key |-> NoKey, tries |-> 0, prev |-> {},
              ok |-> FALSE, waiting |-> FALSE, early |-> FALSE]
NoUse == [at |-> "idle", key |-> NoKey, found |-> NoKey, gone |-> FALSE]

ApiKeysInit ==
    /\ keyRow = <<[prefix |-> CHOOSE p \in KeyPrefixes : TRUE, revoked |-> FALSE]>>
    /\ keyCall = [c \in KeyCalls |-> NoKeyCall]
    /\ keyPage = [query |-> MountedQuery({1}), open |-> FALSE, secret |-> NoKey, submitting |-> FALSE,
                  seen |-> {}, asked |-> NoKey, latest |-> NoKey, faults |-> 0]
    /\ keyUse = NoUse
    /\ keyLog = <<[created |-> 1, revoked |-> 0]>>

KeyFault == keyPage.faults < MaxKeyFaults

-----------------------------------------------------------------------------
\* The create dialog and mintApiKey

OpenKeyDialog ==
    /\ ~keyPage.open /\ keyPage.asked = NoKey
    /\ keyPage' = [keyPage EXCEPT !.open = TRUE]
    /\ UNCHANGED <<keyRow, keyCall, keyUse, keyLog>>

\* reset()
ResetDialog(p) == [p EXCEPT !.submitting = FALSE, !.secret = NoKey]

\* handleClose, possible at any time.
CloseKeyDialog ==
    /\ keyPage.open
    /\ keyPage' = [ResetDialog(keyPage) EXCEPT !.open = FALSE, !.seen = @ \cup {keyPage.secret}]
    /\ UNCHANGED <<keyRow, keyCall, keyUse, keyLog>>

\* handleCreate: the form is there while no secret is, its button is disabled
\* while it submits.
SubmitKey(c) ==
    /\ keyCall[c].op = "none" /\ keyPage.open /\ keyPage.secret = NoKey /\ ~keyPage.submitting
    /\ keyPage' = [keyPage EXCEPT !.submitting = TRUE]
    /\ keyCall' = [keyCall EXCEPT ![c].op = "create", ![c].at = "mint", ![c].waiting = TRUE]
    /\ UNCHANGED <<keyRow, keyUse, keyLog>>

\* isUniqueViolation: prefixes are unique over revoked keys too.
Collides(p) == \E k \in Keys : keyRow[k].prefix = p

\* A pass of mintApiKey's loop that collides; the last one ends it.
MintCollides(c) ==
    /\ keyCall[c].at = "mint"
    /\ \E p \in KeyPrefixes : Collides(p)
    /\ keyCall' = [keyCall EXCEPT ![c].tries = @ + 1,
            ![c].at = IF keyCall[c].tries + 1 = MintMaxAttempts THEN "answer" ELSE "mint"]
    /\ UNCHANGED <<keyRow, keyPage, keyUse, keyLog>>

\* A pass that saves the row and publishes.
MintKey(c) ==
    /\ keyCall[c].at = "mint"
    /\ \E p \in KeyPrefixes :
         /\ ~Collides(p)
         /\ keyRow' = Append(keyRow, [prefix |-> p, revoked |-> FALSE])
    /\ keyCall' = [keyCall EXCEPT ![c].at = "answer", ![c].key = Len(keyRow) + 1, ![c].ok = TRUE]
    /\ keyLog' = Append(keyLog, [created |-> 1, revoked |-> 0])
    /\ UNCHANGED <<keyPage, keyUse>>

\* onSuccess puts the key in front of the list, onSettled asks for it again; then
\* the dialog, whichever form it shows by now, gets the secret.
CreateSettled(c, ok) ==
    LET q == keyPage.query
        k == keyCall[c].key
        data == IF ok THEN SetQueryData(q, q.data \cup {k}) ELSE q
    IN [keyPage EXCEPT !.query = InvalidateQueries(data), !.submitting = FALSE,
                       !.secret = IF ok THEN k ELSE @]

-----------------------------------------------------------------------------
\* The revoke dialog and revokeApiKey

\* Only the latest revocation's row shows that it is under way.
IsRevoking(k) == \E c \in KeyCalls : c = keyPage.latest /\ keyCall[c].waiting /\ keyCall[c].key = k

AskRevoke(k) ==
    /\ ~keyPage.open /\ keyPage.asked = NoKey
    /\ ~keyPage.query.error /\ k \in keyPage.query.data /\ ~IsRevoking(k)
    /\ keyPage' = [keyPage EXCEPT !.asked = k]
    /\ UNCHANGED <<keyRow, keyCall, keyUse, keyLog>>

CancelRevoke ==
    /\ keyPage.asked # NoKey
    /\ keyPage' = [keyPage EXCEPT !.asked = NoKey]
    /\ UNCHANGED <<keyRow, keyCall, keyUse, keyLog>>

\* handleRevoke and onMutate
ConfirmRevoke(c) ==
    LET k == keyPage.asked
        q == CancelQueries(keyPage.query)
    IN /\ k # NoKey /\ keyCall[c].op = "none"
       /\ keyPage' = [keyPage EXCEPT !.asked = NoKey, !.latest = c, !.query = SetQueryData(q, q.data \ {k})]
       /\ keyCall' = [keyCall EXCEPT ![c].op = "revoke", ![c].at = "find", ![c].key = k,
                                     ![c].prev = q.data, ![c].waiting = TRUE]
       /\ UNCHANGED <<keyRow, keyUse, keyLog>>

\* findActiveByIdForUser, or a 404.
RevokeFinds(c) ==
    /\ keyCall[c].at = "find"
    /\ keyCall' = [keyCall EXCEPT ![c].at = IF keyCall[c].key \in ActiveKeys THEN "update" ELSE "answer"]
    /\ UNCHANGED <<keyRow, keyPage, keyUse, keyLog>>

\* revoke(), whatever the row holds by now; then the event.
RevokeUpdates(c) ==
    /\ keyCall[c].at = "update"
    /\ keyRow' = [keyRow EXCEPT ![keyCall[c].key].revoked = TRUE]
    /\ keyLog' = [keyLog EXCEPT ![keyCall[c].key].revoked = @ + 1]
    /\ keyCall' = [keyCall EXCEPT ![c].at = "answer", ![c].ok = TRUE]
    /\ UNCHANGED <<keyPage, keyUse>>

\* Mutant: a revocation that succeeds does not ask for the list.
RevokeSettledQuietly(c, ok) ==
    LET q == keyPage.query
    IN [keyPage EXCEPT !.query =
          IF ok THEN q ELSE InvalidateQueries(SetQueryData(q, keyCall[c].prev))]

\* onError brings back the list from before the click; onSettled asks for it.
RevokeSettled(c, ok) ==
    LET q == keyPage.query
    IN [keyPage EXCEPT !.query =
          InvalidateQueries(IF ok THEN q ELSE SetQueryData(q, keyCall[c].prev))]

-----------------------------------------------------------------------------
\* Answers, and the list

Settled(c, ok) == IF keyCall[c].op = "create" THEN CreateSettled(c, ok) ELSE RevokeSettled(c, ok)

CallAnswered(c) ==
    /\ keyCall[c].at = "answer" /\ keyCall[c].waiting
    /\ keyPage' = Settled(c, keyCall[c].ok)
    /\ keyCall' = [keyCall EXCEPT ![c].waiting = FALSE]
    /\ UNCHANGED <<keyRow, keyUse, keyLog>>

\* The connection breaks: the page is told of an error, the API works on.
CallLost(c) ==
    /\ KeyFault /\ keyCall[c].waiting
    /\ keyPage' = [Settled(c, FALSE) EXCEPT !.faults = @ + 1]
    /\ keyCall' = [keyCall EXCEPT ![c].waiting = FALSE, ![c].early = keyCall[c].at # "answer"]
    /\ UNCHANGED <<keyRow, keyUse, keyLog>>

KeyListRead ==
    /\ keyPage.query.fetch.at = "sent"
    /\ keyPage' = [keyPage EXCEPT !.query = Reads(@, ActiveKeys)]
    /\ UNCHANGED <<keyRow, keyCall, keyUse, keyLog>>

KeyListAnswered ==
    /\ keyPage.query.fetch.at = "back"
    /\ keyPage' = [keyPage EXCEPT !.query = Succeeds(@)]
    /\ UNCHANGED <<keyRow, keyCall, keyUse, keyLog>>

KeyListFailed ==
    /\ KeyFault /\ ~Idle(keyPage.query)
    /\ keyPage' = [keyPage EXCEPT !.query = Fails(@), !.faults = @ + 1]
    /\ UNCHANGED <<keyRow, keyCall, keyUse, keyLog>>

\* The error's retry button.
KeyListRetry ==
    /\ keyPage.query.error /\ Idle(keyPage.query)
    /\ keyPage' = [keyPage EXCEPT !.query = InvalidateQueries(@)]
    /\ UNCHANGED <<keyRow, keyCall, keyUse, keyLog>>

-----------------------------------------------------------------------------
\* ApiKeyGuard

\* A client sends a key, or another secret with its prefix (NoKey).
PresentKey ==
    /\ keyUse.at = "idle"
    /\ \E k \in Keys, forged \in BOOLEAN :
         keyUse' = [at |-> "find", key |-> IF forged THEN NoKey ELSE k, found |-> k,
                    gone |-> keyRow[k].revoked]
    /\ UNCHANGED <<keyRow, keyCall, keyPage, keyLog>>

\* findActiveByPrefix
FindActiveByPrefix(k) == IF k \in ActiveKeys THEN k ELSE NoKey

GuardFinds ==
    /\ keyUse.at = "find"
    /\ keyUse' = [keyUse EXCEPT !.at = "verify", !.found = FindActiveByPrefix(keyUse.found)]
    /\ UNCHANGED <<keyRow, keyCall, keyPage, keyLog>>

\* argon2.verify, against a decoy when there is no row.
GuardVerifies ==
    /\ keyUse.at = "verify"
    /\ keyUse' = [keyUse EXCEPT !.at =
                    IF keyUse.found # NoKey /\ keyUse.key = keyUse.found THEN "admitted" ELSE "refused"]
    /\ UNCHANGED <<keyRow, keyCall, keyPage, keyLog>>

KeyUseEnds ==
    /\ keyUse.at \in {"admitted", "refused"}
    /\ keyUse' = NoUse
    /\ UNCHANGED <<keyRow, keyCall, keyPage, keyLog>>

ApiKeysNext ==
    \/ OpenKeyDialog \/ CloseKeyDialog \/ CancelRevoke
    \/ \E k \in Keys : AskRevoke(k)
    \/ \E c \in KeyCalls :
         \/ SubmitKey(c) \/ MintCollides(c) \/ MintKey(c)
         \/ ConfirmRevoke(c) \/ RevokeFinds(c) \/ RevokeUpdates(c)
         \/ CallAnswered(c) \/ CallLost(c)
    \/ KeyListRead \/ KeyListAnswered \/ KeyListFailed \/ KeyListRetry
    \/ PresentKey \/ GuardFinds \/ GuardVerifies \/ KeyUseEnds

-----------------------------------------------------------------------------
\* The types, with the unique constraint: no two rows, revoked or not, have the
\* same prefix (mintApiKey's insert is refused), so that a presented key finds
\* its own row or none.
ApiKeysTypeOK ==
    /\ keyRow \in Seq([prefix : KeyPrefixes, revoked : BOOLEAN])
    /\ \A j, k \in Keys : keyRow[j].prefix = keyRow[k].prefix => j = k
    /\ Len(keyLog) = Len(keyRow)
    /\ \A c \in KeyCalls : keyCall[c].key \in Keys \cup {NoKey}
    /\ keyPage.secret \in Keys \cup {NoKey} /\ keyPage.query.data \subseteq Keys
    /\ keyUse.at \in {"idle", "find", "verify", "admitted", "refused"}

\* hooks.ts: rollbacks bring back lists from before other clicks, and an answer to
\* the list's query may have been read before a key was made or revoked.  When
\* nothing is under way and the list shows no error, it shows the active keys,
\* unless the page had given up a call that the API went on with.
KeysPageSettles ==
    /\ Idle(keyPage.query) /\ ~keyPage.query.error
    /\ \A c \in KeyCalls : ~keyCall[c].waiting /\ ~keyCall[c].early
    => keyPage.query.data = ActiveKeys

\* api-key.guard.ts: a key that was revoked when the request came is not let in,
\* nor is another secret with a key's prefix.
RevokedKeyRefused == keyUse.at = "admitted" => ~keyUse.gone /\ keyUse.key # NoKey

\* auth.service.ts 139-148: a revocation is told of only for a row that is revoked,
\* and more than once only if revocations of the row met.
KeyEventsMatch ==
    \A k \in Keys :
      LET tells == {c \in KeyCalls : keyCall[c].op = "revoke" /\ keyCall[c].key = k /\ keyCall[c].ok}
      IN /\ keyRow[k].revoked <=> keyLog[k].revoked > 0
         /\ keyLog[k].revoked <= Cardinality(tells)

\* create-api-key-dialog.tsx: a secret is on the screen of one opened dialog only.
SecretShownOnce == keyPage.open /\ keyPage.secret # NoKey => keyPage.secret \notin keyPage.seen
===============================================================================
