------------------------------- MODULE Sessions -------------------------------
(* One GitHub user's logins in several browsers: the route handlers under
   /auth, the proxy and the dashboard's layout that let a browser in or send it
   away, the API's /auth/sync, /me and DELETE /me, the users row they write, and
   what Supabase keeps.  A login is a number; it names its session and the
   GitHub token that came with it.  A session's cookie holds a generation of the
   refresh token: a refresh makes the next one, and Supabase ends a session that
   is refreshed by an older one, but for a short grace time. *)
EXTENDS Naturals, FiniteSets

CONSTANTS Browsers, MaxLogins, MaxGen, MaxTrouble

ASSUME SessionsAssumption == MaxLogins \in Nat /\ MaxGen \in Nat /\ MaxTrouble \in Nat

None == 0
Logins == 1 .. MaxLogins
GuestOnly == {"/", "/login"}
Shown == {"landing", "login", "dashboard"}
Me == 0
Calls == Logins \cup {Me}  \* of mirrorFromAdmin: a login's /auth/sync, or a /me

VARIABLES supa,     \* uid (0: no account), made, logins begun; trouble met
          session,  \* [login -> its Supabase session]
          user,     \* the row of users, with its GitHub token
          mirror,   \* [call -> a mirrorFromAdmin with its local variables]
          browser,  \* [browser -> its page or request, and its cookie]
          logged    \* logins with an auth.login row in the audit log

sessionVars == <<supa, session, user, mirror, browser, logged>>

NoCookie == [login |-> None, gen |-> 0, old |-> FALSE]
NoSession == [live |-> FALSE, gen |-> 0, grace |-> FALSE, uid |-> None, dropped |-> FALSE, reused |-> FALSE]
NoUser == [there |-> FALSE, token |-> None, raced |-> FALSE]
NoCall == [at |-> "idle", uid |-> None, token |-> None,
           read |-> NoUser, stale |-> FALSE, ok |-> FALSE]

\* An account may exist from before the trigger, without its row.
SessionsInit ==
    /\ supa = [uid |-> 1, made |-> 1, begun |-> 0, trouble |-> 0, synced |-> {}, failed |-> {}]
    /\ session = [l \in Logins |-> NoSession]
    /\ user \in {NoUser, [NoUser EXCEPT !.there = TRUE]}
    /\ mirror = [c \in Calls |-> NoCall]
    /\ browser = [b \in Browsers |-> [at |-> "landing", path |-> "/", cookie |-> NoCookie,
                                      hops |-> 0, login |-> None]]
    /\ logged = {}

Trouble == supa.trouble < MaxTrouble
Met == [supa EXCEPT !.trouble = @ + 1]
Go(b, path) == [browser EXCEPT ![b].at = "get", ![b].path = path, ![b].hops = 0]
Redirect(b, path) == [browser EXCEPT ![b].path = path, ![b].hops = @ + 1]

Live(l) == l # None /\ session[l].live /\ session[l].uid = supa.uid

-----------------------------------------------------------------------------
\* supabase-js with a cookie.

\* A cookie whose access token is over is refreshed: the session and the cookie
\* afterwards.
Refreshed(c) ==
    LET s == IF c.login = None THEN NoSession ELSE session[c.login] IN
    CASE ~c.old -> [session |-> s, cookie |-> c]
      [] c.old /\ Live(c.login) /\ (c.gen = s.gen \/ s.grace) ->
           LET gen == IF c.gen = s.gen THEN s.gen + 1 ELSE s.gen
           IN [session |-> [s EXCEPT !.gen = gen, !.grace = TRUE],
               cookie |-> [c EXCEPT !.gen = gen, !.old = FALSE]]
      [] OTHER -> [session |-> [s EXCEPT !.live = FALSE, !.reused = @ \/ Live(c.login)],
                   cookie |-> NoCookie]

\* A Server Component's setAll is swallowed, and the proxy returns another
\* response than the one it sets the cookies on: dropped, for the record.
RefreshUnwritten(b) ==
    LET c == browser[b].cookie
        fresh == Refreshed(c)
    IN IF c.login = None THEN UNCHANGED session
       ELSE session' = [session EXCEPT ![c.login] =
                          [fresh.session EXCEPT !.dropped = @ \/ fresh.cookie # c]]

\* getUser: Supabase knows the (refreshed) access token's session.
Knows(c) == c.login # None /\ Live(c.login) /\ Refreshed(c).session.live

\* The user the proxy and the layout see.
UserOf(b) == Knows(browser[b].cookie)

-----------------------------------------------------------------------------
\* Page loads

Visit(b) ==
    /\ browser[b].at \in Shown
    /\ \E path \in GuestOnly \cup {"/dashboard"} : browser' = Go(b, path)
    /\ UNCHANGED <<supa, session, user, mirror, logged>>

\* proxy(): a known user does not see the guest pages.
Proxy(b) ==
    /\ browser[b].at = "get" /\ browser[b].path \in GuestOnly
    /\ RefreshUnwritten(b)
    /\ browser' = IF UserOf(b) THEN Redirect(b, "/dashboard")
                  ELSE [browser EXCEPT ![b].at = IF browser[b].path = "/" THEN "landing" ELSE "login"]
    /\ UNCHANGED <<supa, user, mirror, logged>>

\* DashboardLayout: nobody else sees the dashboard.
Layout(b) ==
    /\ browser[b].at = "get" /\ browser[b].path = "/dashboard"
    /\ RefreshUnwritten(b)
    /\ browser' = IF UserOf(b) THEN [browser EXCEPT ![b].at = "dashboard"]
                  ELSE Redirect(b, "/login")
    /\ UNCHANGED <<supa, user, mirror, logged>>

\* getUser fails: both take it for nobody.
UserUnknown(b) ==
    /\ Trouble /\ browser[b].at = "get"
    /\ supa' = Met
    /\ browser' = IF browser[b].path = "/dashboard" THEN Redirect(b, "/login")
                  ELSE [browser EXCEPT ![b].at = IF browser[b].path = "/" THEN "landing" ELSE "login"]
    /\ UNCHANGED <<session, user, mirror, logged>>

\* resolveBrowserToken, before a request of the page; the browser writes its
\* cookies itself.
BrowserRefreshes(b) ==
    /\ browser[b].at = "dashboard" /\ browser[b].cookie.old
    /\ LET fresh == Refreshed(browser[b].cookie)
       IN /\ session' = [session EXCEPT ![browser[b].cookie.login] = fresh.session]
          /\ browser' = [browser EXCEPT ![b].cookie = fresh.cookie]
    /\ UNCHANGED <<supa, user, mirror, logged>>

TokenAges(b) ==
    LET c == browser[b].cookie IN
    /\ c.login # None /\ ~c.old /\ c.gen < MaxGen
    /\ browser' = [browser EXCEPT ![b].cookie.old = TRUE]
    /\ UNCHANGED <<supa, session, user, mirror, logged>>

GraceEnds(l) ==
    /\ session[l].grace
    /\ session' = [session EXCEPT ![l].grace = FALSE]
    /\ UNCHANGED <<supa, user, mirror, browser, logged>>

-----------------------------------------------------------------------------
\* The login

\* POST /auth/sign-in and GitHub's answer: a code, or none.
SignIn(b) ==
    /\ browser[b].at = "login" /\ supa.begun < MaxLogins
    /\ supa' = [supa EXCEPT !.begun = @ + 1]
    /\ \/ browser' = [browser EXCEPT ![b].at = "exchange", ![b].login = supa.begun + 1]
       \/ browser' = Go(b, "/")
    /\ UNCHANGED <<session, user, mirror, logged>>

\* exchangeCodeForSession: the session's cookies, and at a first login the
\* account, whose row a trigger inserts.
Exchange(b) ==
    LET l == browser[b].login
        uid == IF supa.uid = None THEN supa.made + 1 ELSE supa.uid IN
    /\ browser[b].at = "exchange"
    /\ session' = [session EXCEPT ![l] = [NoSession EXCEPT !.live = TRUE, !.uid = uid]]
    /\ browser' = [browser EXCEPT ![b].at = "whoami", ![b].cookie = [NoCookie EXCEPT !.login = l]]
    /\ IF supa.uid = None
         THEN supa' = [supa EXCEPT !.uid = uid, !.made = uid] /\ user' = [NoUser EXCEPT !.there = TRUE]
         ELSE UNCHANGED <<supa, user>>
    /\ UNCHANGED <<mirror, logged>>

\* The exchange, or getUser after it, answers with an error.
LoginFails(b) ==
    /\ browser[b].at \in {"exchange", "whoami"}
    /\ Trouble /\ supa' = Met
    /\ browser' = Go(b, "/")
    /\ UNCHANGED <<session, user, mirror, logged>>

\* getUser and getSession; then POST /auth/sync, with the GitHub token if the
\* session has one.
PostSync(b) ==
    LET c == browser[b].cookie IN
    /\ browser[b].at = "whoami"
    /\ IF ~UserOf(b) THEN browser' = Go(b, "/") /\ UNCHANGED mirror
       ELSE /\ browser' = [browser EXCEPT ![b].at = "sync"]
            /\ \E token \in {None, c.login} :
                 mirror' = [mirror EXCEPT ![c.login] = [NoCall EXCEPT !.at = "guard",
                   !.uid = session[c.login].uid, !.token = token]]
    /\ UNCHANGED <<supa, session, user, logged>>

\* The callback reads the sync's answer (synced and failed are for the record).
SyncAnswered(b) ==
    LET l == browser[b].login IN
    /\ browser[b].at = "sync" /\ mirror[l].at = "answered"
    /\ browser' = IF mirror[l].ok THEN [browser EXCEPT ![b].at = "event"] ELSE Go(b, "/")
    /\ supa' = IF mirror[l].ok THEN [supa EXCEPT !.synced = @ \cup {l}]
               ELSE [supa EXCEPT !.failed = @ \cup {l}]
    /\ mirror' = [mirror EXCEPT ![l] = NoCall]
    /\ UNCHANGED <<session, user, logged>>

\* The connection to the API breaks; the API may go on with the call.
SyncLost(b) ==
    LET l == browser[b].login IN
    /\ browser[b].at = "sync" /\ mirror[l].at \notin {"idle", "answered"}
    /\ Trouble
    /\ supa' = [Met EXCEPT !.failed = @ \cup {l}]
    /\ browser' = Go(b, "/")
    /\ UNCHANGED <<session, user, mirror, logged>>

\* POST /auth/sign-in-event, best effort, and the audit handler's row; then
\* the redirect to next.
SignInEvent(b) ==
    LET l == browser[b].cookie.login IN
    /\ browser[b].at = "event"
    /\ browser' = Go(b, "/dashboard")
    /\ \/ Knows(browser[b].cookie) /\ user.there /\ logged' = logged \cup {l} /\ UNCHANGED supa
       \/ ~(Knows(browser[b].cookie) /\ user.there) /\ UNCHANGED <<logged, supa>>
       \/ Trouble /\ supa' = Met /\ UNCHANGED logged
    /\ UNCHANGED <<session, user, mirror>>

-----------------------------------------------------------------------------
\* The API's mirrorFromAdmin, for /auth/sync and, where no row is found, /me

\* A page's /me, behind the guard, that finds no row.
GetMe ==
    /\ mirror[Me].at = "idle" /\ supa.uid # None /\ ~user.there
    /\ \E l \in Logins : Live(l)
    /\ mirror' = [mirror EXCEPT ![Me] = [NoCall EXCEPT !.at = "identity", !.uid = supa.uid]]
    /\ UNCHANGED <<supa, session, user, browser, logged>>

\* The answer, to the browser that still waits for it.
Answers(c, ok) ==
    [mirror EXCEPT ![c] = IF \E b \in Browsers : browser[b].at = "sync" /\ browser[b].login = c
                          THEN [NoCall EXCEPT !.at = "answered", !.ok = ok]
                          ELSE NoCall]

\* SupabaseAuthGuard: getUser with the token.
Guard(c) ==
    /\ mirror[c].at = "guard"
    /\ mirror' = IF Live(c) THEN [mirror EXCEPT ![c].at = "identity"]
                 ELSE Answers(c, FALSE)
    /\ UNCHANGED <<supa, session, user, browser, logged>>

\* getUserById: null, and so 401, for a deleted account and for any error.
Identity(c) ==
    /\ mirror[c].at = "identity"
    /\ \/ /\ mirror' = IF mirror[c].uid = supa.uid THEN [mirror EXCEPT ![c].at = "find"]
                       ELSE Answers(c, FALSE)
          /\ UNCHANGED supa
       \/ Trouble /\ supa' = Met /\ mirror' = Answers(c, FALSE)
    /\ UNCHANGED <<session, user, browser, logged>>

\* upsertFromAuth's findOne; a row of another account is another row.
Find(c) ==
    /\ mirror[c].at = "find"
    /\ mirror' = [mirror EXCEPT ![c].at = "save", ![c].stale = FALSE,
                    ![c].read = IF mirror[c].uid = supa.uid THEN user ELSE NoUser]
    /\ UNCHANGED <<supa, session, user, browser, logged>>

\* Mutant: a call without a token clears the column.
TokenSavedNull(c) == mirror[c].token

\* accessToken is only in the input with a provider token.
TokenSaved(c) == IF mirror[c].token # None THEN mirror[c].token ELSE mirror[c].read.token

\* save(entity): all columns as they were read or set, over whatever is there by
\* now; a deleted account's row cannot come back (foreign key).
Save(c) ==
    /\ mirror[c].at = "save"
    /\ IF mirror[c].uid # supa.uid THEN mirror' = Answers(c, FALSE) /\ UNCHANGED user
       ELSE /\ user' = [there |-> TRUE, token |-> TokenSaved(c), raced |-> mirror[c].stale]
            /\ mirror' = [d \in Calls |->
                 IF d = c THEN Answers(c, TRUE)[c]
                 ELSE [mirror[d] EXCEPT !.stale = @ \/ mirror[d].at = "save"]]
    /\ UNCHANGED <<supa, session, browser, logged>>

-----------------------------------------------------------------------------
\* Leaving

\* POST /auth/sign-out: getSession may refresh and a route handler's cookies are
\* written; the event is best effort.
SignOut(b) ==
    LET c == browser[b].cookie
        fresh == Refreshed(c) IN
    /\ browser[b].at = "dashboard"
    /\ session' = IF c.login = None THEN session ELSE [session EXCEPT ![c.login] = fresh.session]
    /\ browser' = [browser EXCEPT ![b].at = "signout", ![b].cookie = fresh.cookie]
    /\ UNCHANGED <<supa, user, mirror, logged>>

EndSessions(uid) == [l \in Logins |-> IF session[l].uid = uid THEN [session[l] EXCEPT !.live = FALSE]
                                      ELSE session[l]]

\* supabase.auth.signOut ends all sessions of the user and drops the cookie;
\* an error leaves both, and is not looked at.
SupabaseSignOut(b) ==
    LET c == browser[b].cookie IN
    /\ browser[b].at = "signout"
    /\ \/ /\ session' = IF Live(c.login) THEN EndSessions(supa.uid) ELSE session
          /\ browser' = [Go(b, "/") EXCEPT ![b].cookie = NoCookie]
          /\ UNCHANGED supa
       \/ /\ Trouble /\ supa' = Met
          /\ browser' = Go(b, "/") /\ UNCHANGED session
    /\ UNCHANGED <<user, mirror, logged>>

\* handleConfirmDelete and the route: without a session 401 and a toast, else
\* DELETE /me.
DeleteAccount(b) ==
    LET c == browser[b].cookie
        fresh == Refreshed(c) IN
    /\ browser[b].at = "dashboard" /\ c.login # None
    /\ session' = [session EXCEPT ![c.login] = fresh.session]
    /\ browser' = [browser EXCEPT ![b].at = IF fresh.cookie = NoCookie THEN "dashboard" ELSE "delete",
                                  ![b].cookie = fresh.cookie]
    /\ UNCHANGED <<supa, user, mirror, logged>>

\* deleteUser, which cascades; the answer may be lost or be an error.
DeleteMe(b) ==
    LET gone == Live(browser[b].cookie.login) IN
    /\ browser[b].at = "delete"
    /\ \/ /\ gone
          /\ \/ browser' = [browser EXCEPT ![b].at = "signout"] /\ supa' = [supa EXCEPT !.uid = None]
             \/ Trouble /\ browser' = Go(b, "/dashboard") /\ supa' = [Met EXCEPT !.uid = None]
          /\ session' = EndSessions(supa.uid) /\ user' = NoUser /\ logged' = {}
       \/ /\ \/ ~gone /\ UNCHANGED supa
             \/ Trouble /\ supa' = Met
          /\ browser' = Go(b, "/dashboard")
          /\ UNCHANGED <<session, user, logged>>
    /\ UNCHANGED mirror

SessionsNext ==
    \/ \E b \in Browsers :
         \/ Visit(b) \/ Proxy(b) \/ Layout(b) \/ UserUnknown(b) \/ BrowserRefreshes(b) \/ TokenAges(b)
         \/ SignIn(b) \/ Exchange(b) \/ LoginFails(b) \/ PostSync(b) \/ SyncAnswered(b) \/ SyncLost(b)
         \/ SignInEvent(b) \/ SignOut(b) \/ SupabaseSignOut(b) \/ DeleteAccount(b) \/ DeleteMe(b)
    \/ \E c \in Calls : Guard(c) \/ Identity(c) \/ Find(c) \/ Save(c)
    \/ GetMe
    \/ \E l \in Logins : GraceEnds(l)

-----------------------------------------------------------------------------
SessionsTypeOK ==
    /\ supa.uid \in 0 .. supa.made /\ supa.trouble \in 0 .. MaxTrouble
    /\ \A l \in Logins : session[l].uid \in 0 .. supa.made /\ session[l].gen \in 0 .. MaxGen
    /\ user.there => supa.uid # None
    /\ \A b \in Browsers : browser[b].cookie.login \in 0 .. supa.begun

\* No page load is sent back and forth between the proxy and the layout: it
\* is redirected twice at most, and twice more for each failed getUser
\* (proxy.ts:50, layout.tsx:31).
NoRedirectLoop == \A b \in Browsers : browser[b].hops <= 2 + 2 * supa.trouble

\* Once a login's GitHub token has been stored, no later login without one and no
\* /me takes it away, but for calls that overlapped in upsertFromAuth
\* (auth.service.ts:88, user.repository.ts:64).
TokenKept ==
    [][user.token # None /\ user'.there /\ user'.token = None => user'.raced]_sessionVars

\* A login is in the audit log only if its sync succeeded before
\* (callback/route.ts:70).
LoggedMeansSynced == logged \subseteq supa.synced

\* Supabase ends a session for an old refresh token only where a refresh's
\* cookies were dropped before, by a Server Component or by the proxy
\* (server.ts:17, proxy.ts:38); the refreshes of the browser and of the route
\* handlers do not lose theirs.
LostByDroppedCookies == \A l \in Logins : session[l].reused => session[l].dropped

===============================================================================
