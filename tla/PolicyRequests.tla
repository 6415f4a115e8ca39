--------------------------- MODULE PolicyRequests ---------------------------
(***************************************************************************)
(* The policy operations of policy.service.ts, policy.repository.ts and    *)
(* the default policy handler as concurrent transactions on PolicyDb, one  *)
(* action per SQL statement.  A client issues one request.                 *)
(***************************************************************************)
EXTENDS PolicyDb

CONSTANTS Kinds,   \* the kinds of requests that are issued
          Faults   \* whether a statement or an instance may fail

ASSUME KindsAssumption ==
  Kinds \subseteq {"create", "default", "delete", "activate",
                   "rename", "rules", "clear", "both"}

vars == <<row, draft, lock, rules, rq>>

Named == {"rename", "both"}

\* Some policies exist, at most one of them is active.
Init ==
  /\ \E live \in SUBSET Policy : \E act \in {{}} \cup {{p} : p \in live} :
       row = [p \in Policy |->
                [status |-> IF p \in live THEN "live" ELSE "unborn",
                 active |-> p \in act, name |-> NoClient]]
  /\ draft = row
  /\ lock = [p \in Policy |-> NoClient]
  /\ rules = [p \in Policy |-> IF Live(row[p]) THEN {NoClient} ELSE {}]
  /\ rq = [c \in Client |-> Idle]

At(c, pc) == rq[c].pc = pc /\ WaitsFor(c) = {}

Goto(c, pc) == rq' = [rq EXCEPT ![c].pc = pc]

FirstStatement(k) ==
  CASE k = "delete" -> "erase"
    [] k = "activate" -> "demote"
    [] k \in Named -> "load"
    [] OTHER -> "scan"

AfterSave(c) == IF rq[c].kind = "both" THEN "scan" ELSE "full"

\* The service's findWithRules and the checks on what it returned.
Request(c, k, p) ==
  /\ rq[c].pc = "idle" /\ k \in Kinds \ {"create", "default"}
  /\ rq' = [rq EXCEPT ![c].kind = k, ![c].target = p,
              ![c].pc = IF Live(row[p]) /\ ~(k = "delete" /\ row[p].active)
                        THEN FirstStatement(k) ELSE "done",
              ![c].reply = IF ~Live(row[p]) THEN "notFound"
                           ELSE IF k = "delete" /\ row[p].active THEN "refused"
                           ELSE "none"]
  /\ UNCHANGED <<row, draft, lock, rules>>

\* create asks for nothing; the handler's listByRepository looks for any
\* policy of the repository.
RequestNew(c, k) ==
  /\ rq[c].pc = "idle" /\ k \in Kinds \cap {"create", "default"}
  /\ LET skip == k = "default" /\ \E p \in Policy : Live(row[p])
     IN rq' = [rq EXCEPT ![c].kind = k,
                 ![c].pc = IF skip THEN "done" ELSE "new",
                 ![c].reply = IF skip THEN "skipped" ELSE "none"]
  /\ UNCHANGED <<row, draft, lock, rules>>

\* createWithRules: nothing of it is visible before its commit.
Create(c, p) ==
  /\ At(c, "new") /\ row[p].status = "unborn"
  /\ LET new == [status |-> "live", active |-> FALSE, name |-> c]
     IN row' = [row EXCEPT ![p] = new] /\ draft' = [draft EXCEPT ![p] = new]
  /\ rules' = [rules EXCEPT ![p] = {c}]
  /\ rq' = [rq EXCEPT ![c].target = p,
              ![c].pc = IF rq[c].kind = "default" THEN "demote" ELSE "done",
              ![c].reply = IF rq[c].kind = "default" THEN "none" ELSE "ok"]
  /\ UNCHANGED lock

\* DELETE FROM policies: a row that is gone meanwhile is no error.
Erase(c) ==
  LET p == rq[c].target
  IN /\ At(c, "erase")
     /\ \/ /\ ~Live(row[p])
           /\ rq' = Answer(c, "ok")
           /\ UNCHANGED <<row, draft, lock, rules>>
        \/ /\ Live(row[p])
           /\ Write(c, {p}, LAMBDA s : [row[s] EXCEPT !.status = "gone",
                                                      !.active = FALSE])
           /\ Goto(c, "cascade")

\* ON DELETE CASCADE of the rule rows, and the statement's own commit.
Cascade(c) == At(c, "cascade") /\ CommitTo(c, Answer(c, "ok"))

\* UPDATE ... SET is_active = false WHERE is_active: the statement's
\* snapshot, then the rows, each checked again once it is free.
Demote(c) ==
  /\ At(c, "demote")
  /\ rq' = [rq EXCEPT ![c].found = {q \in Policy : Active(row[q])},
                      ![c].pc = "demoteRow"]
  /\ UNCHANGED <<row, draft, lock, rules>>

DemoteRow(c) ==
  /\ At(c, "demoteRow")
  /\ Write(c, {q \in rq[c].found : Active(row[q])},
           LAMBDA q : [row[q] EXCEPT !.active = FALSE])
  /\ rq' = [rq EXCEPT ![c].found = {}, ![c].pc = "load"]

\* findOne and its assertion; the entity is changed in memory.
Load(c) ==
  LET v == Seen(c, rq[c].target)
  IN /\ At(c, "load")
     /\ \/ ~Live(v) /\ Rollback(c, "error")
        \/ /\ Live(v)
           /\ rq' = [rq EXCEPT ![c].pc = "select",
                       ![c].ent = IF rq[c].kind \in Named
                                  THEN [v EXCEPT !.name = c]
                                  ELSE [v EXCEPT !.active = TRUE]]
           /\ UNCHANGED <<row, draft, lock, rules>>

\* save() reads the row again: it updates the columns that differ from the
\* entity, and inserts the entity when there is no row.
Select(c) ==
  LET v == Seen(c, rq[c].target)
      diff == {f \in {"active", "name"} : rq[c].ent[f] # v[f]}
  IN /\ At(c, "select")
     /\ rq' = [rq EXCEPT ![c].cols = IF Live(v) THEN diff ELSE {},
                 ![c].pc = IF ~Live(v) THEN "insert"
                           ELSE IF diff = {} THEN AfterSave(c) ELSE "update"]
     /\ UNCHANGED <<row, draft, lock, rules>>

Saved(c, activates) == Goto(c, IF activates THEN "index" ELSE AfterSave(c))

Update(c) ==
  LET p == rq[c].target
      v == Seen(c, p)
      take(f) == IF f \in rq[c].cols THEN rq[c].ent[f] ELSE v[f]
  IN /\ At(c, "update")
     /\ \/ ~Live(v) /\ Goto(c, AfterSave(c)) /\ UNCHANGED <<row, draft, lock, rules>>
        \/ /\ Live(v)
           /\ Write(c, {p}, LAMBDA s : [v EXCEPT !.active = take("active"),
                                                 !.name = take("name")])
           /\ Saved(c, "active" \in rq[c].cols /\ rq[c].ent.active)

Insert(c) ==
  LET p == rq[c].target
  IN /\ At(c, "insert")
     /\ \/ Live(row[p]) /\ Rollback(c, "conflict")
        \/ /\ ~Live(row[p])
           /\ Write(c, {p}, LAMBDA s : rq[c].ent)
           /\ Saved(c, rq[c].ent.active)

\* Mutant: the migration creates an index that is not unique.
IndexNotUnique(c) ==
  At(c, "index") /\ Goto(c, AfterSave(c)) /\ UNCHANGED <<row, draft, lock, rules>>

\* The unique index policies_active_per_repo_idx.
Index(c) ==
  LET taken == \E q \in Policy \ {rq[c].target} : Active(Seen(c, q))
  IN /\ At(c, "index")
     /\ \/ taken /\ Rollback(c, "conflict")
        \/ ~taken /\ Goto(c, AfterSave(c)) /\ UNCHANGED <<row, draft, lock, rules>>

\* DELETE FROM policy_rules: snapshot, then the rows that are still there.
Scan(c) ==
  /\ At(c, "scan")
  /\ rq' = [rq EXCEPT ![c].old = rules[rq[c].target], ![c].pc = "cut"]
  /\ UNCHANGED <<row, draft, lock, rules>>

\* Mutant: an update adds its rules to the old ones.
CutNothing(c) ==
  /\ At(c, "cut")
  /\ rq' = [rq EXCEPT ![c].old = {},
              ![c].pc = IF rq[c].kind = "clear" THEN "full" ELSE "put"]
  /\ UNCHANGED <<row, draft, lock, rules>>

Cut(c) ==
  /\ At(c, "cut")
  /\ rq' = [rq EXCEPT ![c].cut = rq[c].old \cap rules[rq[c].target],
              ![c].old = {},
              ![c].pc = IF rq[c].kind = "clear" THEN "full" ELSE "put"]
  /\ UNCHANGED <<row, draft, lock, rules>>

\* INSERT INTO policy_rules under the foreign key.
Put(c) ==
  /\ At(c, "put")
  /\ \/ ~Live(Seen(c, rq[c].target)) /\ Rollback(c, "error")
     \/ /\ Live(Seen(c, rq[c].target))
        /\ rq' = [rq EXCEPT ![c].put = TRUE, ![c].pc = "full"]
        /\ UNCHANGED <<row, draft, lock, rules>>

\* Mutant: the assertion after the save is missing.
FullUnchecked(c) == At(c, "full") /\ CommitTo(c, Answer(c, "ok"))

\* The last findOne with its assertion, and COMMIT.
Full(c) ==
  /\ At(c, "full")
  /\ \/ ~Live(Seen(c, rq[c].target)) /\ Rollback(c, "error")
     \/ Live(Seen(c, rq[c].target)) /\ CommitTo(c, Answer(c, "ok"))

\* Postgres aborts one of the transactions that wait for each other.
Victim(c) == Deadlocked(c) /\ Rollback(c, "error")

\* The connection or the instance is lost in the middle of a request.
Fail(c) == Faults /\ rq[c].pc \notin {"idle", "done"} /\ Rollback(c, "error")

Statement(c) ==
  \/ \E p \in Policy : Create(c, p)
  \/ Erase(c) \/ Cascade(c) \/ Demote(c) \/ DemoteRow(c) \/ Load(c)
  \/ Select(c) \/ Update(c) \/ Insert(c) \/ Index(c)
  \/ Scan(c) \/ Cut(c) \/ Put(c) \/ Full(c)

Next ==
  \E c \in Client :
    \/ \E k \in Kinds, p \in Policy : Request(c, k, p)
    \/ \E k \in Kinds : RequestNew(c, k)
    \/ Statement(c) \/ Victim(c) \/ Fail(c)

Spec == Init /\ [][Next]_vars

\* Postgres goes on with every statement that need not wait and breaks every
\* deadlock.
FairSpec == Spec /\ \A c \in Client : WF_vars(Statement(c)) /\ WF_vars(Victim(c))
-----------------------------------------------------------------------------
(***************************************************************************)
(* What the policies of a repository must satisfy, whatever requests       *)
(* overlap.                                                                *)
(***************************************************************************)
Stages == {"idle", "new", "erase", "cascade", "demote", "demoteRow", "load",
           "select", "update", "insert", "index", "scan", "cut", "put",
           "full", "done"}

RequestType ==
  [pc : Stages, kind : Kinds \cup {"none"}, target : Policy,
   found : SUBSET Policy, ent : Row, cols : SUBSET {"active", "name"},
   old : SUBSET Writer, cut : SUBSET Writer, put : BOOLEAN,
   reply : {"none", "ok", "notFound", "refused", "skipped", "conflict", "error"}]

\* Every variable has its type.
TypeOK ==
  /\ row \in [Policy -> Row] /\ draft \in [Policy -> Row]
  /\ lock \in [Policy -> Client \cup {NoClient}]
  /\ rules \in [Policy -> SUBSET Writer]
  /\ rq \in [Client -> RequestType]

ActiveOnes == {p \in Policy : Active(row[p])}

\* Two policies of a repository are never active at once (the partial unique
\* index together with the demotion at the start of activate()).
AtMostOneActive == \A p, q \in ActiveOnes : p = q

\* A rule row belongs to an existing policy: neither a cascading delete nor
\* an aborted update leaves rules behind.
NoOrphanRules == \A p \in Policy : rules[p] # {} => Live(row[p])

\* A request of c of one of the kinds commits with success in this step.
Succeeds(c, kinds) ==
  rq[c].kind \in kinds /\ rq[c].pc # "done" /\ rq'[c].reply = "ok"

\* As long as nobody renames a policy, the commit of an activation, by a user
\* or of the default policy, never leaves a repository that had an active
\* policy without one, and its own policy is the active one if it had to be
\* changed (policy.repository.ts:36-37).
ActivationNeverEmpties ==
  [][(\A d \in Client : rq[d].kind \notin Named) =>
       \A c \in Client : Succeeds(c, {"activate", "default"}) =>
         /\ ActiveOnes # {} => ActiveOnes' # {}
         /\ lock[rq[c].target] = c => rq[c].target \in ActiveOnes']_vars

\* An update of the rules that also changes the name locks the policy first:
\* beside others of its kind it leaves exactly its own rules, as long as
\* nobody updates rules alone (no row of policies is locked then) or deletes
\* the policy (save() inserts it again, and two inserts may follow).
NamedUpdatesReplace ==
  [][(\A d \in Client : rq[d].kind \notin {"rules", "clear", "delete"}) =>
       \A c \in Client : Succeeds(c, {"both"}) =>
         rules'[rq[c].target] = {c}]_vars

\* Every request is answered: no lock is kept for ever and deadlocks end.
AllAnswered == \A c \in Client : rq[c].pc # "idle" ~> rq[c].pc = "done"

\* A repository that has an active policy keeps having one
\* (policy.integration.test.ts:146, "never ends with 0 or 2 active").
ActiveStays == [][ActiveOnes # {} => ActiveOnes' # {}]_vars
=============================================================================
