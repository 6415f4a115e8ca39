------------------------------ MODULE PolicyDb ------------------------------
(***************************************************************************)
(* Tables policies and policy_rules of one repository, as Postgres runs    *)
(* the transactions of policy.repository.ts under READ COMMITTED: a        *)
(* statement sees what is committed and its own transaction's writes, a    *)
(* row written by a transaction stays locked until that one ends, and a    *)
(* statement that meets a lock waits.  rq[c] is the one request of client  *)
(* c with its transaction; rule rows are named by the client that wrote    *)
(* them (NoClient: they were there before).                                *)
(***************************************************************************)
EXTENDS FiniteSets

CONSTANTS Client, NoClient, Policy

ASSUME NoClientAssumption == NoClient \notin Client

ASSUME PolicyAssumption == Policy # {}

VARIABLES row,    \* per policy: the committed row
          draft,  \* per policy: the row as its lock holder sees it
          lock,   \* per policy: the client whose transaction wrote it
          rules,  \* per policy: the writers of its committed rule rows
          rq      \* per client: its request

Writer == Client \cup {NoClient}

Row == [status : {"unborn", "live", "gone"}, active : BOOLEAN, name : Writer]

Live(r) == r.status = "live"

Active(r) == Live(r) /\ r.active

Seen(c, p) == IF lock[p] = c THEN draft[p] ELSE row[p]

\* Rule rows of p that a transaction of d has deleted.
RulesCutBy(d, p) == IF rq[d].target = p THEN rq[d].cut \cap rules[p] ELSE {}

\* q has an entry in the unique index that may still count.
Indexed(q) ==
  Active(draft[q]) /\ (lock[q] \in Client => rq[lock[q]].pc # "index")

\* Only the end of the transaction that wrote q tells whether q is active.
IndexUnclear(q) == Active(row[q]) \/ Indexed(q)

\* The clients whose transactions the next statement of c must wait for.
Blockers(c) ==
  LET p == rq[c].target
  IN CASE rq[c].pc = "erase" /\ Live(row[p]) ->
            {lock[p]} \cup {d \in Client : rq[d].put /\ rq[d].target = p}
       [] rq[c].pc = "cascade" -> {d \in Client : RulesCutBy(d, p) # {}}
       [] rq[c].pc = "demoteRow" -> {lock[q] : q \in rq[c].found}
       [] rq[c].pc \in {"update", "insert"} -> {lock[p]}
       [] rq[c].pc = "index" ->
            {lock[q] : q \in {s \in Policy \ {p} : IndexUnclear(s)}}
       [] rq[c].pc = "cut" ->
            {d \in Client : RulesCutBy(d, p) \cap rq[c].old # {}}
       [] rq[c].pc = "put" /\ draft[p].status = "gone" -> {lock[p]}
       [] OTHER -> {}

WaitsFor(c) == Blockers(c) \ {c, NoClient}

\* The clients of S wait for each other, c among them.
Deadlocked(c) ==
  \E S \in SUBSET Client :
    /\ c \in S
    /\ \A d \in S : /\ WaitsFor(d) \cap S # {}
                    /\ \E e \in S : d \in WaitsFor(e)

Idle == [pc |-> "idle", kind |-> "none", target |-> CHOOSE p \in Policy : TRUE,
         found |-> {}, ent |-> [status |-> "unborn", active |-> FALSE,
                                name |-> NoClient],
         cols |-> {}, old |-> {}, cut |-> {}, put |-> FALSE, reply |-> "none"]

\* The request is over and its transaction with it.
Answer(c, a) ==
  [rq EXCEPT ![c] = [Idle EXCEPT !.pc = "done", !.kind = rq[c].kind,
                                 !.reply = a]]

Release(c) == lock' = [p \in Policy |-> IF lock[p] = c THEN NoClient ELSE lock[p]]

\* Mutant: policy_rules is created without ON DELETE CASCADE.
CommitWithoutCascade(c, r) ==
  /\ row' = [p \in Policy |-> Seen(c, p)]
  /\ rules' = [p \in Policy |->
                 IF rq[c].target = p /\ Live(row[p])
                 THEN (rules[p] \ rq[c].cut) \cup (IF rq[c].put THEN {c} ELSE {})
                 ELSE rules[p]]
  /\ Release(c)
  /\ rq' = r
  /\ UNCHANGED draft

\* COMMIT: the writes of c become visible; r is the state after it.
CommitTo(c, r) ==
  /\ row' = [p \in Policy |-> Seen(c, p)]
  /\ rules' = [p \in Policy |->
                 CASE rq[c].target # p -> rules[p]
                   [] rq[c].target = p /\ Seen(c, p).status = "gone" -> {}
                   [] OTHER -> (rules[p] \ rq[c].cut)
                               \cup (IF rq[c].put THEN {c} ELSE {})]
  /\ Release(c)
  /\ rq' = r
  /\ UNCHANGED draft

\* Mutant: the statements run outside of dataSource.transaction().
RollbackKeepingLocks(c, a) ==
  /\ draft' = [p \in Policy |-> IF lock[p] = c THEN row[p] ELSE draft[p]]
  /\ rq' = Answer(c, a)
  /\ UNCHANGED <<row, rules, lock>>

Rollback(c, a) ==
  /\ draft' = [p \in Policy |-> IF lock[p] = c THEN row[p] ELSE draft[p]]
  /\ Release(c)
  /\ rq' = Answer(c, a)
  /\ UNCHANGED <<row, rules>>

\* A write of c to the rows of P: g gives their new values.
Write(c, P, g(_)) ==
  /\ draft' = [p \in Policy |-> IF p \in P THEN g(p) ELSE draft[p]]
  /\ lock' = [p \in Policy |-> IF p \in P THEN c ELSE lock[p]]
  /\ UNCHANGED <<row, rules>>
=============================================================================
