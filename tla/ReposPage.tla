------------------------------ MODULE ReposPage -------------------------------
(* The repositories page: the list of GitHub's repositories, the list of the
   connected ones, and connect and disconnect with their optimistic updates of
   both lists.  A repository is its GitHub id; an entry of the connected list
   may be a stub.  A row shown twice until the list is read again counts once. *)
EXTENDS Naturals, QueryCache

CONSTANTS GithubIds, RepoCalls, MaxRepoFaults

ASSUME ReposPageAssumption == RepoCalls \subseteq Nat \ {0} /\ MaxRepoFaults \in Nat

NoRepo == "none"

VARIABLES connectedRow,  \* ids of the rows of repositories that are connected
          repoCall,      \* [call -> a connect or disconnect, from the click to the answer]
          repoPage       \* the queries, the dialog, the latest call of each mutation

reposVars == <<connectedRow, repoCall, repoPage>>

Real(g) == [repo |-> g, stub |-> FALSE]
Stub(g) == [repo |-> g, stub |-> TRUE]
Reals(ids) == {Real(g) : g \in ids}

\* early: the page gave the call up while the API worked.
NoRepoCall == [op |-> "none", at |-> "idle", repo |-> NoRepo, ok |-> FALSE, waiting |-> FALSE,
               early |-> FALSE, prevGithub |-> {}, prevConnected |-> {}]

ReposPageInit ==
    /\ connectedRow \in SUBSET GithubIds
    /\ repoCall = [c \in RepoCalls |-> NoRepoCall]
    /\ repoPage = [github |-> MountedQuery(connectedRow), connected |-> MountedQuery(Reals(connectedRow)),
                   asked |-> NoRepo, latest |-> [connect |-> 0, disconnect |-> 0], faults |-> 0]

RepoFault == repoPage.faults < MaxRepoFaults

\* A mutation's isPending and variables are those of its latest call.
RepoPending(op, g) ==
    LET c == repoPage.latest[op]
    IN c # 0 /\ repoCall[c].waiting /\ repoCall[c].repo = g

\* A click: both fetches are given up, both lists remembered and changed.
Mutated(c, op, g, github, connected) ==
    LET p == repoPage IN
    /\ repoCall' = [repoCall EXCEPT ![c] = [NoRepoCall EXCEPT !.op = op, !.at = "find", !.repo = g,
            !.waiting = TRUE, !.prevGithub = p.github.data, !.prevConnected = p.connected.data]]
    /\ repoPage' = [p EXCEPT !.github = SetQueryData(CancelQueries(@), github),
                             !.connected = SetQueryData(CancelQueries(@), connected),
                             !.latest[op] = c, !.asked = NoRepo]
    /\ UNCHANGED connectedRow

-----------------------------------------------------------------------------
\* The clicks

\* The button of a card, while neither list knows the repository as connected;
\* onMutate puts a stub in the connected list.
Connect(c, g) ==
    LET p == repoPage IN
    /\ repoCall[c].op = "none" /\ ~p.github.error /\ p.asked = NoRepo
    /\ g \notin p.github.data /\ p.connected.data \cap {Real(g), Stub(g)} = {} /\ ~RepoPending("connect", g)
    /\ Mutated(c, "connect", g, p.github.data \cup {g}, p.connected.data \cup {Stub(g)})

\* A stub cannot be disconnected.
AskDisconnect(g) ==
    /\ ~repoPage.connected.error /\ repoPage.asked = NoRepo
    /\ Real(g) \in repoPage.connected.data /\ ~RepoPending("disconnect", g)
    /\ repoPage' = [repoPage EXCEPT !.asked = g]
    /\ UNCHANGED <<connectedRow, repoCall>>

CancelDisconnect ==
    /\ repoPage.asked # NoRepo
    /\ repoPage' = [repoPage EXCEPT !.asked = NoRepo]
    /\ UNCHANGED <<connectedRow, repoCall>>

\* onMutate: the row may have left the list while the dialog was open; then the
\* other list stays as it is.
ConfirmDisconnect(c) ==
    LET p == repoPage
        g == p.asked
    IN /\ g # NoRepo /\ repoCall[c].op = "none"
       /\ Mutated(c, "disconnect", g,
                  IF Real(g) \in p.connected.data THEN p.github.data \ {g} ELSE p.github.data,
                  p.connected.data \ {Real(g)})

-----------------------------------------------------------------------------
\* The API

\* A connected repository is not connected again, an unconnected one not
\* disconnected.
RepoCallFinds(c) ==
    LET refused == (repoCall[c].repo \in connectedRow) = (repoCall[c].op = "connect") IN
    /\ repoCall[c].at = "find"
    /\ repoCall' = [repoCall EXCEPT ![c].at = IF refused THEN "answer" ELSE "write"]
    /\ UNCHANGED <<connectedRow, repoPage>>

RepoCallWrites(c) ==
    /\ repoCall[c].at = "write"
    /\ connectedRow' = IF repoCall[c].op = "connect" THEN connectedRow \cup {repoCall[c].repo}
                       ELSE connectedRow \ {repoCall[c].repo}
    /\ repoCall' = [repoCall EXCEPT ![c].at = "answer", ![c].ok = TRUE]
    /\ UNCHANGED repoPage

-----------------------------------------------------------------------------
\* The answers

\* onError brings both lists back as they were at the click.
RolledBack(c) == [repoPage EXCEPT !.github = SetQueryData(@, repoCall[c].prevGithub),
                                  !.connected = SetQueryData(@, repoCall[c].prevConnected)]

\* onSuccess of connect: the row for its stub.
StubReplaced(c) ==
    LET g == repoCall[c].repo
    IN [repoPage EXCEPT !.connected = SetQueryData(@, (@.data \ {Stub(g)}) \cup {Real(g)})]

\* onSettled
BothRefetched(p) == [p EXCEPT !.github = InvalidateQueries(@), !.connected = InvalidateQueries(@)]

RepoSettled(c, ok) ==
    BothRefetched(IF ~ok THEN RolledBack(c)
                  ELSE IF repoCall[c].op = "connect" THEN StubReplaced(c)
                  ELSE repoPage)

RepoAnswered(c) ==
    /\ repoCall[c].at = "answer" /\ repoCall[c].waiting
    /\ repoPage' = RepoSettled(c, repoCall[c].ok)
    /\ repoCall' = [repoCall EXCEPT ![c].waiting = FALSE]
    /\ UNCHANGED connectedRow

\* The connection breaks: the page is told of an error, the API works on.
RepoLost(c) ==
    /\ RepoFault /\ repoCall[c].waiting
    /\ repoPage' = [RepoSettled(c, FALSE) EXCEPT !.faults = @ + 1]
    /\ repoCall' = [repoCall EXCEPT ![c].waiting = FALSE, ![c].early = repoCall[c].at # "answer"]
    /\ UNCHANGED connectedRow

-----------------------------------------------------------------------------
\* The lists: two queries, read in their own time.

Lists == {"github", "connected"}

RepoListRead(l) ==
    /\ repoPage[l].fetch.at = "sent"
    /\ repoPage' = [repoPage EXCEPT ![l] =
                      Reads(@, IF l = "github" THEN connectedRow ELSE Reals(connectedRow))]
    /\ UNCHANGED <<connectedRow, repoCall>>

RepoListAnswered(l) ==
    /\ repoPage[l].fetch.at = "back"
    /\ repoPage' = [repoPage EXCEPT ![l] = Succeeds(@)]
    /\ UNCHANGED <<connectedRow, repoCall>>

RepoListFailed(l) ==
    /\ RepoFault /\ ~Idle(repoPage[l])
    /\ repoPage' = [repoPage EXCEPT ![l] = Fails(@), !.faults = @ + 1]
    /\ UNCHANGED <<connectedRow, repoCall>>

\* The error's retry button.
RepoListRetry(l) ==
    /\ repoPage[l].error /\ Idle(repoPage[l])
    /\ repoPage' = [repoPage EXCEPT ![l] = InvalidateQueries(@)]
    /\ UNCHANGED <<connectedRow, repoCall>>

ReposPageNext ==
    \/ \E c \in RepoCalls :
         \/ \E g \in GithubIds : Connect(c, g)
         \/ ConfirmDisconnect(c) \/ RepoCallFinds(c) \/ RepoCallWrites(c)
         \/ RepoAnswered(c) \/ RepoLost(c)
    \/ \E g \in GithubIds : AskDisconnect(g)
    \/ CancelDisconnect
    \/ \E l \in Lists : RepoListRead(l) \/ RepoListAnswered(l) \/ RepoListFailed(l) \/ RepoListRetry(l)

-----------------------------------------------------------------------------
RepoCallsOver == \A c \in RepoCalls : ~repoCall[c].waiting /\ ~repoCall[c].early

\* repositories/hooks.ts: a roll-back writes over what other calls did, and the two
\* lists are read at different times.  When nothing is under way, a list that is
\* not in error shows the API's rows, none of them a stub, unless the page had
\* given up a call that the API went on with.
ReposPageSettles ==
    RepoCallsOver =>
      /\ Idle(repoPage.github) /\ ~repoPage.github.error => repoPage.github.data = connectedRow
      /\ Idle(repoPage.connected) /\ ~repoPage.connected.error => repoPage.connected.data = Reals(connectedRow)

\* A repository is not shown as a stub and as a row at once, unless a call failed,
\* whose roll-back may bring an old list back (onSuccess filters the stub).
StubOrRow ==
    (\A c \in RepoCalls : repoCall[c].op # "none" /\ ~repoCall[c].waiting => repoCall[c].ok /\ ~repoCall[c].early)
      /\ repoPage.faults = 0
    => \A g \in GithubIds : ~({Real(g), Stub(g)} \subseteq repoPage.connected.data)
===============================================================================
