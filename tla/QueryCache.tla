------------------------------ MODULE QueryCache ------------------------------
(* React Query as the pages use it: a query with its data, its error and its one
   fetch.  A fetch is sent, the API reads what it answers with, and the answer
   is back.  The operators are pure: each page keeps its queries in a variable
   of its own. *)
EXTENDS Naturals

NoFetch == [at |-> "none", body |-> {}]
Sent == [at |-> "sent", body |-> {}]

\* A mounted query with the data of the server component, stale from the start.
MountedQuery(data) == [data |-> data, error |-> FALSE, fetch |-> Sent]

SetQueryData(q, data) == [q EXCEPT !.data = data, !.error = FALSE]

CancelQueries(q) == [q EXCEPT !.fetch = NoFetch]

\* invalidateQueries and refetch: a fetch under way is given up for a new one.
InvalidateQueries(q) == [q EXCEPT !.fetch = Sent]

\* The API reads its tables for the answer.
Reads(q, body) == [q EXCEPT !.fetch = [at |-> "back", body |-> body]]

\* The answer has come; or an error, which no retry follows (retry: 0).
Succeeds(q) == [data |-> q.fetch.body, error |-> FALSE, fetch |-> NoFetch]
Fails(q) == [q EXCEPT !.error = TRUE, !.fetch = NoFetch]

Idle(q) == q.fetch = NoFetch
===============================================================================
