---------------------------- MODULE PolicyProofs ----------------------------
(***************************************************************************)
(* At most one policy of a repository is active, for every number of       *)
(* clients and policies.                                                   *)
(***************************************************************************)
EXTENDS PolicyRequests, TLAPS

-----------------------------------------------------------------------------
(***************************************************************************)
(* The inductive invariant behind AtMostOneActive.                         *)
(***************************************************************************)

\* Stages in which the request may hold row locks.
Holding == {"cascade", "load", "select", "update", "insert", "index", "scan",
            "cut", "put", "full"}

\* Only a running transaction holds locks.
LocksHeld ==
  \A p \in Policy : lock[p] \in Client => rq[lock[p]].pc \in Holding

FreeDraft == \A p \in Policy : lock[p] = NoClient => draft[p] = row[p]

\* At most one entry may come out of all transactions.
IndexSound ==
  \A p, q \in Policy : p # q => ~(Indexed(p) /\ Indexed(q))

\* Whoever activates p next to an active q has demoted q itself.
Succession ==
  \A p, q \in Policy :
    p # q /\ Indexed(p) /\ Active(row[q]) =>
      lock[p] \in Client /\ lock[q] = lock[p]

LockDiscipline ==
  LocksHeld /\ FreeDraft /\ AtMostOneActive /\ IndexSound /\ Succession

IInv == TypeOK /\ LockDiscipline
-----------------------------------------------------------------------------
(***************************************************************************)
(* The inductive invariant behind NoOrphanRules.                           *)
(***************************************************************************)

\* What save() is about to write is a row that was loaded.
EntitiesLive ==
  \A c \in Client : rq[c].pc \in {"select", "update", "insert"} => Live(rq[c].ent)

\* Only a DELETE that has still to cascade holds a row that is no more.
DraftsLive ==
  \A p \in Policy : lock[p] \in Client /\ ~Live(draft[p]) =>
    /\ draft[p].status = "gone"
    /\ rq[lock[p]].pc = "cascade" /\ rq[lock[p]].target = p

\* Rules are inserted last.
PutLast == \A c \in Client : rq[c].put => rq[c].pc = "full"

RulesInv == NoOrphanRules /\ EntitiesLive /\ DraftsLive /\ PutLast
-----------------------------------------------------------------------------
(***************************************************************************)
(* The inductive invariants behind ActivationNeverEmpties and              *)
(* NamedUpdatesReplace.                                                    *)
(***************************************************************************)

Activating == {"activate", "default"}

SaveStages == {"load", "select", "update", "insert", "index"}

\* A request has its answer when it is over, and each stage its kinds.
StageKinds ==
  \A c \in Client :
    /\ rq[c].pc = "idle" => rq[c].kind = "none"
    /\ rq[c].pc # "done" => rq[c].reply = "none"
    /\ rq[c].pc \in {"erase", "cascade"} => rq[c].kind = "delete"
    /\ rq[c].pc \in {"demote", "demoteRow"} => rq[c].kind \in Activating
    /\ rq[c].pc \in SaveStages => rq[c].kind \in Activating \cup Named
    /\ rq[c].pc \in {"scan", "cut", "put"} => rq[c].kind \in {"rules", "clear", "both"}
    /\ rq[c].pc = "new" => rq[c].kind \in {"create", "default"}

\* A row that a request is about exists, or has existed.
KnownTargets ==
  \A c \in Client : rq[c].pc \notin {"idle", "new", "done"} =>
    row[rq[c].target].status # "unborn"

NoRenames == \A d \in Client : rq[d].kind \notin Named

\* No statement changes a name.
NamesStay ==
  /\ \A p \in Policy : draft[p].name = row[p].name
  /\ \A c \in Client : rq[c].pc \in {"select", "update", "insert"} =>
       rq[c].ent.name = row[rq[c].target].name

\* save() writes the entity that activate() has set active.
EntActive ==
  \A c \in Client :
    /\ rq[c].pc \in {"select", "update", "insert"} => rq[c].ent.active
    /\ rq[c].pc = "update" => rq[c].cols = {"active"}

\* What an activation has saved to its own policy is an active row.
SavedActive ==
  \A c \in Client :
    /\ rq[c].pc = "index" => lock[rq[c].target] = c
    /\ rq[c].kind \in Activating /\ rq[c].pc \in {"index", "full"} /\ lock[rq[c].target] = c
         => Active(draft[rq[c].target])

\* A row that was deleted comes back by save() only, and active.
ReturnsActive ==
  \A p \in Policy : lock[p] \in Client /\ Live(draft[p]) /\ ~Live(row[p]) => Active(draft[p])

\* An activation that has demoted a policy and saved nothing does not find its own.
EmptyHanded ==
  \A c \in Client :
    rq[c].kind \in Activating /\ rq[c].pc = "full" /\ lock[rq[c].target] # c
      => \A q \in Policy : lock[q] = c /\ Active(row[q]) => ~Live(row[rq[c].target])

Activations == NamesStay /\ EntActive /\ SavedActive /\ ReturnsActive /\ EmptyHanded

ActInv == StageKinds /\ KnownTargets /\ (NoRenames => Activations)

NoneDeletes == \A d \in Client : rq[d].kind \notin {"rules", "clear", "delete"}

\* No policy is ever deleted, so save() never inserts.
RowsStay ==
  /\ \A p \in Policy : row[p].status # "gone" /\ draft[p].status # "gone"
  /\ \A c \in Client : rq[c].pc # "insert"

\* The name that an update is about to give is nobody else's.
OwnNames ==
  \A c \in Client : rq[c].pc = "idle" \/ (rq[c].kind = "both" /\ rq[c].pc # "done") =>
    /\ \A p \in Policy : row[p].name # c /\ (draft[p].name = c => lock[p] = c)
    /\ \A d \in Client \ {c} : rq[d].pc \in {"select", "update"} => rq[d].ent.name # c

\* Changing the name comes first and locks the policy to the end.
LocksFirst ==
  \A c \in Client : rq[c].kind = "both" =>
    /\ rq[c].pc \in {"load", "select", "update"} => \A p \in Policy : lock[p] # c
    /\ rq[c].pc \in {"select", "update"} => rq[c].ent.name = c
    /\ rq[c].pc \in {"index", "scan", "cut", "put", "full"} => lock[rq[c].target] = c

\* Under that lock nobody else touches the rules.
ReplacesAll ==
  \A c \in Client :
    /\ rq[c].cut # {} \/ rq[c].put => rq[c].kind = "both" /\ rq[c].pc \in {"put", "full"}
    /\ rq[c].kind = "both" /\ rq[c].pc = "full" => rq[c].put
    /\ rq[c].pc = "cut" => rq[c].old = rules[rq[c].target]
    /\ rq[c].kind = "both" /\ rq[c].pc \in {"put", "full"} => rq[c].cut = rules[rq[c].target]

Replacing == RowsStay /\ OwnNames /\ LocksFirst /\ ReplacesAll

BothInv == NoneDeletes => Replacing
-----------------------------------------------------------------------------
\* A request moves on without touching rows or locks.
LEMMA Quiet ==
  ASSUME LockDiscipline, NEW c \in Client, UNCHANGED <<row, draft, lock>>,
         \A d \in Client : d # c => rq'[d].pc = rq[d].pc,
         rq[c].pc # "index",
         rq'[c].pc \in Holding \/ rq[c].pc \notin Holding
  PROVE  LockDiscipline'
<1>1. \A p \in Policy : Indexed(p)' => Indexed(p)
  BY DEF Indexed, Active, Live
<1>2. LocksHeld'
  BY DEF LockDiscipline, LocksHeld
<1>3. FreeDraft' /\ AtMostOneActive'
  BY DEF LockDiscipline, FreeDraft, AtMostOneActive, ActiveOnes, Active, Live
<1>4. IndexSound' /\ Succession'
  BY <1>1 DEF LockDiscipline, IndexSound, Succession, Active, Live
<1> QED BY <1>2, <1>3, <1>4 DEF LockDiscipline

\* A statement writes the rows P, which nobody else has locked; a row that it
\* activates still has to pass the index.
LEMMA Writing ==
  ASSUME LockDiscipline, NEW c \in Client, NEW P \in SUBSET Policy,
         UNCHANGED row,
         \A p \in P : lock[p] \in {c, NoClient} /\ lock'[p] = c,
         \A p \in Policy \ P : lock'[p] = lock[p] /\ draft'[p] = draft[p],
         \A p \in P : Active(draft'[p]) => rq'[c].pc = "index" \/ Indexed(p),
         \A d \in Client : d # c => rq'[d].pc = rq[d].pc,
         rq[c].pc # "index",
         rq'[c].pc \in Holding
  PROVE  LockDiscipline'
<1> USE NoClientAssumption
<1>1. ASSUME NEW p \in Policy, Indexed(p)' PROVE Indexed(p)
  <2>1. CASE p \in P
    BY <1>1, <2>1 DEF Indexed, Active, Live
  <2>2. CASE p \notin P
    BY <1>1, <2>2 DEF Indexed, Active, Live
  <2> QED BY <2>1, <2>2
<1>2. LocksHeld'
  BY DEF LockDiscipline, LocksHeld
<1>3. FreeDraft'
  BY DEF LockDiscipline, FreeDraft
<1>4. AtMostOneActive'
  BY DEF LockDiscipline, AtMostOneActive, ActiveOnes, Active, Live
<1>5. IndexSound'
  BY <1>1 DEF LockDiscipline, IndexSound
<1>6. Succession'
  <2>1. SUFFICES ASSUME NEW p \in Policy, NEW q \in Policy, p # q,
                        Indexed(p)', Active(row[q])'
                 PROVE  lock'[p] \in Client /\ lock'[q] = lock'[p]
    BY DEF Succession
  <2>2. lock[p] \in Client /\ lock[q] = lock[p]
    BY <2>1, <1>1 DEF LockDiscipline, Succession, Active, Live
  <2> QED BY <2>2
<1> QED BY <1>2, <1>3, <1>4, <1>5, <1>6 DEF LockDiscipline

\* COMMIT keeps the lock discipline: what c activated is the only active row,
\* because it demoted the others itself.
LEMMA Committing ==
  ASSUME LockDiscipline, NEW c \in Client, NEW r, CommitTo(c, r),
         lock \in [Policy -> Client \cup {NoClient}],
         \A d \in Client : d # c => rq'[d].pc = rq[d].pc,
         rq[c].pc # "index"
  PROVE  LockDiscipline'
<1> USE NoClientAssumption
<1>1. \A p \in Policy : /\ row'[p] = IF lock[p] = c THEN draft[p] ELSE row[p]
                        /\ lock'[p] = IF lock[p] = c THEN NoClient ELSE lock[p]
                        /\ draft'[p] = draft[p]
  BY DEF CommitTo, Seen, Release
<1>2. \A p \in Policy : Indexed(p)' => Indexed(p)
  BY <1>1 DEF Indexed, Active, Live
<1>3. \A p \in Policy : Active(row[p])' =>
        IF lock[p] = c THEN Indexed(p) ELSE Active(row[p])
  BY <1>1 DEF Indexed, Active, Live
<1>4. LocksHeld'
  BY <1>1 DEF LockDiscipline, LocksHeld
<1>5. FreeDraft'
  BY <1>1 DEF LockDiscipline, FreeDraft
<1>6. AtMostOneActive'
  <2>1. SUFFICES ASSUME NEW p \in Policy, NEW q \in Policy, p # q,
                        Active(row[p])', Active(row[q])'
                 PROVE  FALSE
    BY DEF AtMostOneActive, ActiveOnes
  <2> QED BY <2>1, <1>3
          DEF LockDiscipline, AtMostOneActive, ActiveOnes, IndexSound, Succession
<1>7. IndexSound'
  BY <1>2 DEF LockDiscipline, IndexSound
<1>8. Succession'
  <2>1. SUFFICES ASSUME NEW p \in Policy, NEW q \in Policy, p # q,
                        Indexed(p)', Active(row[q])'
                 PROVE  lock'[p] \in Client /\ lock'[q] = lock'[p]
    BY DEF Succession
  <2>2. Indexed(p)
    BY <2>1, <1>2
  <2>3. lock[q] # c /\ Active(row[q])
    BY <2>1, <2>2, <1>3 DEF LockDiscipline, IndexSound
  <2>4. lock[p] \in Client /\ lock[q] = lock[p]
    BY <2>1, <2>2, <2>3 DEF LockDiscipline, Succession
  <2> QED BY <2>3, <2>4, <1>1
<1> QED BY <1>4, <1>5, <1>6, <1>7, <1>8 DEF LockDiscipline

\* ROLLBACK keeps it: the rows of c are again what they were.
LEMMA RollingBack ==
  ASSUME LockDiscipline, NEW c \in Client, NEW a, Rollback(c, a),
         lock \in [Policy -> Client \cup {NoClient}],
         \A d \in Client : d # c => rq'[d].pc = rq[d].pc
  PROVE  LockDiscipline'
<1> USE NoClientAssumption
<1>1. \A p \in Policy : /\ draft'[p] = IF lock[p] = c THEN row[p] ELSE draft[p]
                        /\ lock'[p] = IF lock[p] = c THEN NoClient ELSE lock[p]
                        /\ row'[p] = row[p]
  BY DEF Rollback, Release
<1>2. \A p \in Policy : Indexed(p)' =>
        IF lock[p] = c THEN Active(row[p]) ELSE Indexed(p)
  BY <1>1 DEF Indexed, Active, Live
<1>3. \A p \in Policy : Active(row[p])' => Active(row[p])
  BY <1>1 DEF Active, Live
<1>4. LocksHeld'
  BY <1>1 DEF LockDiscipline, LocksHeld
<1>5. FreeDraft'
  BY <1>1 DEF LockDiscipline, FreeDraft
<1>6. AtMostOneActive'
  BY <1>3 DEF LockDiscipline, AtMostOneActive, ActiveOnes
<1>7. IndexSound'
  BY <1>2 DEF LockDiscipline, IndexSound, Succession, AtMostOneActive, ActiveOnes
<1>8. Succession'
  <2>1. SUFFICES ASSUME NEW p \in Policy, NEW q \in Policy, p # q,
                        Indexed(p)', Active(row[q])'
                 PROVE  lock'[p] \in Client /\ lock'[q] = lock'[p]
    BY DEF Succession
  <2>2. lock[p] # c /\ Indexed(p)
    BY <2>1, <1>2, <1>3 DEF LockDiscipline, AtMostOneActive, ActiveOnes
  <2>3. lock[p] \in Client /\ lock[q] = lock[p]
    BY <2>1, <2>2, <1>3 DEF LockDiscipline, Succession
  <2> QED BY <2>2, <2>3, <1>1
<1> QED BY <1>4, <1>5, <1>6, <1>7, <1>8 DEF LockDiscipline

\* A statement that does not wait meets no lock of another client.
LEMMA NoWait ==
  ASSUME NEW c \in Client, WaitsFor(c) = {}
  PROVE  Blockers(c) \subseteq {c, NoClient}
BY DEF WaitsFor

\* The target is free for a DELETE, an UPDATE and an INSERT.
LEMMA TargetFree ==
  ASSUME NEW c \in Client, WaitsFor(c) = {},
         \/ rq[c].pc = "erase" /\ Live(row[rq[c].target])
         \/ rq[c].pc = "update"
         \/ rq[c].pc = "insert"
  PROVE  lock[rq[c].target] \in {c, NoClient}
<1>1. lock[rq[c].target] \in Blockers(c)
  <2>1. CASE rq[c].pc = "erase" /\ Live(row[rq[c].target])
    BY <2>1 DEF Blockers
  <2>2. CASE rq[c].pc = "update" \/ rq[c].pc = "insert"
    BY <2>2 DEF Blockers
  <2> QED BY <2>1, <2>2
<1> QED BY <1>1, NoWait

\* The rows to demote are free.
LEMMA FoundFree ==
  ASSUME NEW c \in Client, WaitsFor(c) = {}, rq[c].pc = "demoteRow",
         NEW q \in rq[c].found
  PROVE  lock[q] \in {c, NoClient}
<1>1. lock[q] \in Blockers(c)
  BY DEF Blockers
<1> QED BY <1>1, NoWait

\* Nobody else holds a row that is active or has an entry in the index.
LEMMA IndexClear ==
  ASSUME NEW c \in Client, WaitsFor(c) = {}, rq[c].pc = "index",
         NEW q \in Policy, q # rq[c].target, Active(row[q]) \/ Indexed(q)
  PROVE  lock[q] \in {c, NoClient}
<1>1. lock[q] \in Blockers(c)
  BY DEF Blockers, IndexUnclear
<1> QED BY <1>1, NoWait
-----------------------------------------------------------------------------
Replies == {"none", "ok", "notFound", "refused", "skipped", "conflict", "error"}

\* Only the request of c is touched, and it goes to stage s.
Moves(c, s) ==
  /\ rq' \in [Client -> RequestType]
  /\ rq'[c].pc = s
  /\ \A d \in Client : d # c => rq'[d] = rq[d]

\* A client without a request has the type of a request.
LEMMA IdleType == Idle \in RequestType
<1>1. (CHOOSE p \in Policy : TRUE) \in Policy
  BY PolicyAssumption
<1>2. Idle.ent \in Row
  BY DEF Idle, Row, Writer
<1> QED BY <1>1, <1>2, Zenon DEF Idle, RequestType, Stages

\* An answer ends the request.
LEMMA Answering ==
  ASSUME TypeOK, NEW c \in Client, NEW a \in Replies, rq' = Answer(c, a)
  PROVE  Moves(c, "done")
<1> DEFINE x == [Idle EXCEPT !.pc = "done", !.kind = rq[c].kind, !.reply = a]
<1>1. rq[c].kind \in Kinds \cup {"none"}
  BY DEF TypeOK, RequestType
<1>2. x \in RequestType /\ x.pc = "done"
  BY <1>1, IdleType DEF RequestType, Stages, Replies
<1>3. rq' = [rq EXCEPT ![c] = x]
  BY DEF Answer
<1> HIDE DEF x
<1> QED BY <1>2, <1>3 DEF TypeOK, Moves

\* Goto is a move.
LEMMA Going ==
  ASSUME TypeOK, NEW c \in Client, NEW s \in Stages, Goto(c, s)
  PROVE  Moves(c, s)
<1>1. [rq[c] EXCEPT !.pc = s] \in RequestType
  BY DEF TypeOK, RequestType
<1>2. rq' = [rq EXCEPT ![c] = [rq[c] EXCEPT !.pc = s]]
  BY DEF Goto
<1>3. [rq[c] EXCEPT !.pc = s].pc = s
  BY DEF TypeOK, RequestType
<1> QED BY <1>1, <1>2, <1>3 DEF TypeOK, Moves

\* COMMIT keeps the types.
LEMMA CommitType ==
  ASSUME TypeOK, NEW c \in Client, NEW a \in Replies, CommitTo(c, Answer(c, a))
  PROVE  TypeOK' /\ Moves(c, "done")
<1>1. Moves(c, "done")
  BY Answering DEF CommitTo
<1>2. row' \in [Policy -> Row] /\ draft' \in [Policy -> Row]
  BY DEF CommitTo, Seen, TypeOK
<1>3. lock' \in [Policy -> Client \cup {NoClient}]
  BY DEF CommitTo, Release, TypeOK
<1>4. rules' \in [Policy -> SUBSET Writer]
  <2>1. rules \in [Policy -> SUBSET Writer] /\ {c} \subseteq Writer
    BY DEF TypeOK, Writer
  <2> QED BY <2>1, Zenon DEF CommitTo
<1> QED BY <1>1, <1>2, <1>3, <1>4 DEF TypeOK, Moves

\* ROLLBACK keeps the types.
LEMMA RollbackType ==
  ASSUME TypeOK, NEW c \in Client, NEW a \in Replies, Rollback(c, a)
  PROVE  TypeOK' /\ Moves(c, "done")
<1>1. Moves(c, "done")
  BY Answering DEF Rollback
<1>2. draft' \in [Policy -> Row] /\ lock' \in [Policy -> Client \cup {NoClient}]
  BY DEF Rollback, Release, TypeOK
<1> QED BY <1>1, <1>2 DEF Rollback, TypeOK, Moves

\* A transaction that commits keeps the invariant.
LEMMA Commits ==
  ASSUME IInv, NEW c \in Client, NEW a \in Replies, CommitTo(c, Answer(c, a)),
         rq[c].pc # "index"
  PROVE  IInv'
<1>1. TypeOK' /\ Moves(c, "done")
  BY CommitType DEF IInv
<1>2. LockDiscipline'
  BY <1>1, Committing DEF IInv, TypeOK, Moves
<1> QED BY <1>1, <1>2 DEF IInv

\* A transaction that is rolled back keeps the invariant.
LEMMA RollsBack ==
  ASSUME IInv, NEW c \in Client, NEW a \in Replies, Rollback(c, a)
  PROVE  IInv'
<1>1. TypeOK' /\ Moves(c, "done")
  BY RollbackType DEF IInv
<1>2. LockDiscipline'
  BY <1>1, RollingBack DEF IInv, TypeOK, Moves
<1> QED BY <1>1, <1>2 DEF IInv

\* So does a statement that only moves the request on.
LEMMA StepsOn ==
  ASSUME IInv, NEW c \in Client, NEW s \in Stages, Moves(c, s),
         UNCHANGED <<row, draft, lock, rules>>,
         rq[c].pc # "index", s \in Holding \/ rq[c].pc \notin Holding
  PROVE  IInv'
<1>1. TypeOK'
  BY DEF IInv, TypeOK, Moves
<1>2. LockDiscipline'
  BY Quiet DEF IInv, Moves
<1> QED BY <1>1, <1>2 DEF IInv
-----------------------------------------------------------------------------
\* The service's findWithRules keeps the invariant.
LEMMA RequestStep ==
  ASSUME IInv, NEW c \in Client, NEW k \in Kinds, NEW p \in Policy,
         Request(c, k, p)
  PROVE  IInv'
<1> DEFINE ok == Live(row[p]) /\ ~(k = "delete" /\ row[p].active)
           s == IF ok THEN FirstStatement(k) ELSE "done"
           a == IF ~Live(row[p]) THEN "notFound"
                ELSE IF k = "delete" /\ row[p].active THEN "refused" ELSE "none"
           x == [rq[c] EXCEPT !.kind = k, !.target = p, !.pc = s, !.reply = a]
<1>1. s \in Stages /\ a \in Replies
  BY DEF FirstStatement, Stages, Replies, Named
<1>2. rq' = [rq EXCEPT ![c] = x]
  BY DEF Request
<1>3. x \in RequestType /\ x.pc = s
  <2> HIDE DEF s, a
  <2> QED BY <1>1 DEF IInv, TypeOK, RequestType, Replies
<1>4. Moves(c, s)
  <2> HIDE DEF s, x
  <2> QED BY <1>2, <1>3 DEF IInv, TypeOK, Moves
<1> HIDE DEF s, a, x
<1> QED BY <1>1, <1>4, StepsOn DEF Request, Holding

\* So does the start of a creation.
LEMMA RequestNewStep ==
  ASSUME IInv, NEW c \in Client, NEW k \in Kinds, RequestNew(c, k)
  PROVE  IInv'
<1> DEFINE skip == k = "default" /\ \E p \in Policy : Live(row[p])
           s == IF skip THEN "done" ELSE "new"
           a == IF skip THEN "skipped" ELSE "none"
           x == [rq[c] EXCEPT !.kind = k, !.pc = s, !.reply = a]
<1>1. s \in Stages /\ a \in Replies
  BY DEF Stages, Replies
<1>2. rq' = [rq EXCEPT ![c] = x]
  BY DEF RequestNew
<1>3. x \in RequestType /\ x.pc = s
  <2> HIDE DEF s, a
  <2> QED BY <1>1 DEF IInv, TypeOK, RequestType, Replies
<1>4. Moves(c, s)
  <2> HIDE DEF s, x
  <2> QED BY <1>2, <1>3 DEF IInv, TypeOK, Moves
<1> HIDE DEF s, a, x
<1> QED BY <1>1, <1>4, StepsOn DEF RequestNew, Holding

\* createWithRules adds an inactive row.
LEMMA CreateStep ==
  ASSUME IInv, NEW c \in Client, NEW p \in Policy, Create(c, p)
  PROVE  IInv'
<1> DEFINE new == [status |-> "live", active |-> FALSE, name |-> c]
           s == IF rq[c].kind = "default" THEN "demote" ELSE "done"
           a == IF rq[c].kind = "default" THEN "none" ELSE "ok"
           x == [rq[c] EXCEPT !.target = p, !.pc = s, !.reply = a]
<1>1. new \in Row /\ ~Active(new)
  BY DEF Row, Writer, Active
<1>2. row' = [row EXCEPT ![p] = new] /\ draft' = [draft EXCEPT ![p] = new]
  BY DEF Create
<1>3. rq[c].pc = "new" /\ UNCHANGED lock
  BY DEF Create, At
<1> HIDE DEF new
<1>4. Moves(c, s)
  <2>1. s \in Stages /\ a \in Replies
    BY DEF Stages, Replies
  <2>2. rq' = [rq EXCEPT ![c] = x]
    BY DEF Create
  <2>3. x \in RequestType /\ x.pc = s
    <3> HIDE DEF s, a
    <3> QED BY <2>1 DEF IInv, TypeOK, RequestType, Replies
  <2> HIDE DEF s, x
  <2> QED BY <2>2, <2>3 DEF IInv, TypeOK, Moves
<1>5. TypeOK'
  <2>1. row' \in [Policy -> Row] /\ draft' \in [Policy -> Row]
    BY <1>1, <1>2 DEF IInv, TypeOK
  <2>2. rules' \in [Policy -> SUBSET Writer]
    BY DEF Create, IInv, TypeOK, Writer
  <2> QED BY <2>1, <2>2, <1>3, <1>4 DEF IInv, TypeOK, Moves
<1>6. \A q \in Policy : /\ Active(row[q])' => Active(row[q])
                        /\ Indexed(q)' => Indexed(q)
  <2> SUFFICES ASSUME NEW q \in Policy
               PROVE  /\ Active(row[q])' => Active(row[q])
                      /\ Indexed(q)' => Indexed(q)
    OBVIOUS
  <2>1. CASE q = p
    BY <2>1, <1>1, <1>2 DEF IInv, TypeOK, Indexed, Active, Live
  <2>2. CASE q # p
    <3>1. row'[q] = row[q] /\ draft'[q] = draft[q]
      BY <2>2, <1>2 DEF IInv, TypeOK
    <3>2. lock[q] \in Client => rq'[lock[q]].pc = rq[lock[q]].pc \/ rq[lock[q]].pc # "index"
      BY <1>3, <1>4 DEF Moves
    <3> QED BY <3>1, <3>2, <1>3 DEF Indexed, Active, Live
  <2> QED BY <2>1, <2>2
<1>7. LocksHeld' /\ FreeDraft'
  <2>1. LocksHeld'
    BY <1>3, <1>4 DEF IInv, LockDiscipline, LocksHeld, Moves, Holding
  <2>2. FreeDraft'
    BY <1>2, <1>3 DEF IInv, TypeOK, LockDiscipline, FreeDraft
  <2> QED BY <2>1, <2>2
<1>8. AtMostOneActive' /\ IndexSound' /\ Succession'
  BY <1>3, <1>6 DEF IInv, LockDiscipline, AtMostOneActive, ActiveOnes,
                    IndexSound, Succession
<1> QED BY <1>5, <1>7, <1>8 DEF IInv, LockDiscipline

\* DELETE locks the row; it is not active any more.
LEMMA EraseStep ==
  ASSUME IInv, NEW c \in Client, Erase(c)
  PROVE  IInv'
<1> DEFINE p == rq[c].target
<1>0. rq[c].pc = "erase" /\ WaitsFor(c) = {} /\ p \in Policy
  BY DEF Erase, At, IInv, TypeOK, RequestType
<1>1. CASE rq' = Answer(c, "ok") /\ UNCHANGED <<row, draft, lock, rules>>
  <2>1. Moves(c, "done")
    BY <1>1, Answering DEF IInv, Replies
  <2> QED BY <2>1, <1>0, <1>1, StepsOn DEF Stages, Holding
<1>2. CASE /\ Live(row[p])
           /\ Write(c, {p}, LAMBDA t : [row[t] EXCEPT !.status = "gone",
                                                     !.active = FALSE])
           /\ Goto(c, "cascade")
  <2>1. Moves(c, "cascade")
    BY <1>2, Going DEF IInv, Stages
  <2>2. lock[p] \in {c, NoClient}
    BY <1>0, <1>2, TargetFree
  <2>3. /\ draft' = [q \in Policy |->
                      IF q \in {p} THEN [row[q] EXCEPT !.status = "gone",
                                                      !.active = FALSE]
                      ELSE draft[q]]
        /\ lock' = [q \in Policy |-> IF q \in {p} THEN c ELSE lock[q]]
        /\ UNCHANGED <<row, rules>>
    BY <1>2 DEF Write
  <2>4. [row[p] EXCEPT !.status = "gone", !.active = FALSE] \in Row
    <3>1. row[p] \in Row
      BY <1>0 DEF IInv, TypeOK
    <3> HIDE DEF p
    <3> QED BY <3>1 DEF Row
  <2>5. TypeOK'
    BY <2>1, <2>3, <2>4 DEF IInv, TypeOK, Moves
  <2>6. LockDiscipline'
    <3>1. ~Active(draft'[p])
      BY <2>3, <1>0 DEF IInv, TypeOK, Row, Active, Live
    <3>2. {p} \in SUBSET Policy
      BY <1>0
    <3>3. rq'[c].pc \in Holding /\ rq[c].pc # "index"
      BY <1>0, <2>1 DEF Moves, Holding
    <3>4. LockDiscipline /\ \A d \in Client : d # c => rq'[d].pc = rq[d].pc
      BY <2>1 DEF Moves, IInv
    <3>5. /\ \A q \in {p} : lock[q] \in {c, NoClient} /\ lock'[q] = c
          /\ \A q \in Policy \ {p} : lock'[q] = lock[q] /\ draft'[q] = draft[q]
          /\ UNCHANGED row
      BY <1>0, <2>2, <2>3
    <3> HIDE DEF p
    <3> QED BY <3>1, <3>2, <3>3, <3>4, <3>5, Writing
  <2> QED BY <2>5, <2>6 DEF IInv
<1> QED BY <1>1, <1>2 DEF Erase

\* The cascade ends the DELETE.
LEMMA CascadeStep ==
  ASSUME IInv, NEW c \in Client, Cascade(c)
  PROVE  IInv'
BY Commits DEF Cascade, At, Replies

\* The snapshot of the demotion changes nothing.
LEMMA DemoteStep ==
  ASSUME IInv, NEW c \in Client, Demote(c)
  PROVE  IInv'
<1> DEFINE F == {q \in Policy : Active(row[q])}
           x == [rq[c] EXCEPT !.found = F, !.pc = "demoteRow"]
<1>1. rq' = [rq EXCEPT ![c] = x]
  BY DEF Demote
<1>2. x \in RequestType /\ x.pc = "demoteRow"
  <2>1. F \in SUBSET Policy
    OBVIOUS
  <2> HIDE DEF F
  <2> QED BY <2>1 DEF IInv, TypeOK, RequestType, Stages
<1>3. Moves(c, "demoteRow")
  <2> HIDE DEF x
  <2> QED BY <1>1, <1>2 DEF IInv, TypeOK, Moves
<1> QED BY <1>3, StepsOn DEF Demote, At, Stages, Holding

\* The demotion locks rows and makes them inactive.
LEMMA DemoteRowStep ==
  ASSUME IInv, NEW c \in Client, DemoteRow(c)
  PROVE  IInv'
<1> DEFINE P == {q \in rq[c].found : Active(row[q])}
           x == [rq[c] EXCEPT !.found = {}, !.pc = "load"]
<1>0. rq[c].pc = "demoteRow" /\ WaitsFor(c) = {} /\ P \in SUBSET Policy
  BY DEF DemoteRow, At, IInv, TypeOK, RequestType
<1>1. Moves(c, "load")
  <2>1. rq' = [rq EXCEPT ![c] = x]
    BY DEF DemoteRow
  <2>2. x \in RequestType /\ x.pc = "load"
    BY DEF IInv, TypeOK, RequestType, Stages
  <2> HIDE DEF x
  <2> QED BY <2>1, <2>2 DEF IInv, TypeOK, Moves
<1>2. /\ draft' = [q \in Policy |-> IF q \in P THEN [row[q] EXCEPT !.active = FALSE]
                                    ELSE draft[q]]
      /\ lock' = [q \in Policy |-> IF q \in P THEN c ELSE lock[q]]
      /\ UNCHANGED <<row, rules>>
  BY DEF DemoteRow, Write
<1>3. \A q \in P : lock[q] \in {c, NoClient}
  BY <1>0, FoundFree
<1> HIDE DEF P
<1>4. \A q \in P : [row[q] EXCEPT !.active = FALSE] \in Row
  BY <1>0 DEF IInv, TypeOK, Row
<1>5. TypeOK'
  BY <1>0, <1>1, <1>2, <1>4 DEF IInv, TypeOK, Moves
<1>6. LockDiscipline'
  <2>1. \A q \in P : ~Active(draft'[q])
    BY <1>0, <1>2 DEF IInv, TypeOK, Row, Active, Live
  <2>2. rq'[c].pc \in Holding /\ rq[c].pc # "index"
    BY <1>0, <1>1 DEF Moves, Holding
  <2>3. LockDiscipline /\ \A d \in Client : d # c => rq'[d].pc = rq[d].pc
    BY <1>1 DEF Moves, IInv
  <2>4. /\ \A q \in P : lock'[q] = c
        /\ \A q \in Policy \ P : lock'[q] = lock[q] /\ draft'[q] = draft[q]
    BY <1>0, <1>2
  <2> QED BY <1>0, <1>2, <1>3, <2>1, <2>2, <2>3, <2>4, Writing
<1> QED BY <1>5, <1>6 DEF IInv

\* findOne changes nothing.
LEMMA LoadStep ==
  ASSUME IInv, NEW c \in Client, Load(c)
  PROVE  IInv'
<1> DEFINE v == Seen(c, rq[c].target)
           e == IF rq[c].kind \in Named THEN [v EXCEPT !.name = c]
                ELSE [v EXCEPT !.active = TRUE]
           x == [rq[c] EXCEPT !.pc = "select", !.ent = e]
<1>0. rq[c].pc = "load"
  BY DEF Load, At
<1>1. CASE Rollback(c, "error")
  BY <1>1, RollsBack DEF Replies
<1>2. CASE rq' = [rq EXCEPT ![c] = x] /\ UNCHANGED <<row, draft, lock, rules>>
  <2>1. e \in Row
    <3>1. v \in Row
      BY DEF Seen, IInv, TypeOK, RequestType
    <3> HIDE DEF v
    <3> QED BY <3>1 DEF Row, Writer
  <2>2. x \in RequestType /\ x.pc = "select"
    <3> HIDE DEF e
    <3> QED BY <2>1 DEF IInv, TypeOK, RequestType, Stages
  <2>3. Moves(c, "select")
    <3> HIDE DEF x
    <3> QED BY <1>2, <2>2 DEF IInv, TypeOK, Moves
  <2> QED BY <1>0, <1>2, <2>3, StepsOn DEF Stages, Holding
<1>3. \/ Rollback(c, "error")
      \/ rq' = [rq EXCEPT ![c] = x] /\ UNCHANGED <<row, draft, lock, rules>>
  BY DEF Load
<1> QED BY <1>1, <1>2, <1>3

\* The SELECT of save() changes nothing.
LEMMA SelectStep ==
  ASSUME IInv, NEW c \in Client, Select(c)
  PROVE  IInv'
<1> DEFINE v == Seen(c, rq[c].target)
           diff == {f \in {"active", "name"} : rq[c].ent[f] # v[f]}
           k == IF Live(v) THEN diff ELSE {}
           s == IF ~Live(v) THEN "insert"
                ELSE IF diff = {} THEN AfterSave(c) ELSE "update"
           x == [rq[c] EXCEPT !.cols = k, !.pc = s]
<1>0. rq[c].pc = "select"
  BY DEF Select, At
<1>1. rq' = [rq EXCEPT ![c] = x] /\ UNCHANGED <<row, draft, lock, rules>>
  BY DEF Select
<1>2. s \in Stages /\ s \in Holding
  BY DEF AfterSave, Stages, Holding
<1>3. x \in RequestType /\ x.pc = s
  <2>1. k \in SUBSET {"active", "name"}
    OBVIOUS
  <2> HIDE DEF k, s
  <2> QED BY <1>2, <2>1 DEF IInv, TypeOK, RequestType
<1>4. Moves(c, s)
  <2> HIDE DEF x, s
  <2> QED BY <1>1, <1>3 DEF IInv, TypeOK, Moves
<1> HIDE DEF s, x
<1> QED BY <1>0, <1>1, <1>2, <1>4, StepsOn

\* A save that writes the row p of the request.
LEMMA Saving ==
  ASSUME IInv, NEW c \in Client, NEW p \in Policy, NEW w \in Row,
         lock[p] \in {c, NoClient}, NEW s \in Stages, Moves(c, s),
         s \in Holding, rq[c].pc # "index",
         Active(w) => s = "index" \/ Indexed(p),
         draft' = [q \in Policy |-> IF q \in {p} THEN w ELSE draft[q]],
         lock' = [q \in Policy |-> IF q \in {p} THEN c ELSE lock[q]],
         UNCHANGED <<row, rules>>
  PROVE  IInv'
<1>1. TypeOK'
  BY DEF IInv, TypeOK, Moves
<1>2. LockDiscipline'
  <2>1. \A q \in {p} : Active(draft'[q]) => rq'[c].pc = "index" \/ Indexed(q)
    BY DEF Moves
  <2>2. rq'[c].pc \in Holding /\ {p} \in SUBSET Policy
    BY DEF Moves
  <2>3. LockDiscipline /\ \A d \in Client : d # c => rq'[d].pc = rq[d].pc
    BY DEF Moves, IInv
  <2>4. /\ \A q \in {p} : lock[q] \in {c, NoClient} /\ lock'[q] = c
        /\ \A q \in Policy \ {p} : lock'[q] = lock[q] /\ draft'[q] = draft[q]
    OBVIOUS
  <2> QED BY <2>1, <2>2, <2>3, <2>4, Writing
<1> QED BY <1>1, <1>2 DEF IInv

\* UPDATE activates a row only on the way to the index, or leaves an active
\* row active.
LEMMA UpdateStep ==
  ASSUME IInv, NEW c \in Client, Update(c)
  PROVE  IInv'
<1> DEFINE p == rq[c].target
           v == Seen(c, p)
           take(f) == IF f \in rq[c].cols THEN rq[c].ent[f] ELSE v[f]
           w == [v EXCEPT !.active = take("active"), !.name = take("name")]
           on == "active" \in rq[c].cols /\ rq[c].ent.active
           s == IF on THEN "index" ELSE AfterSave(c)
<1>0. rq[c].pc = "update" /\ WaitsFor(c) = {} /\ p \in Policy
  BY DEF Update, At, IInv, TypeOK, RequestType
<1>1. AfterSave(c) \in Stages /\ s \in Stages /\ AfterSave(c) \in Holding /\ s \in Holding
  BY DEF AfterSave, Stages, Holding
<1>2. CASE Goto(c, AfterSave(c)) /\ UNCHANGED <<row, draft, lock, rules>>
  <2>1. Moves(c, AfterSave(c))
    BY <1>1, <1>2, Going DEF IInv
  <2> QED BY <1>0, <1>1, <1>2, <2>1, StepsOn
<1>3. CASE Write(c, {p}, LAMBDA t : w) /\ Goto(c, s)
  <2>1. Moves(c, s)
    <3> HIDE DEF s
    <3> QED BY <1>1, <1>3, Going DEF IInv
  <2>2. lock[p] \in {c, NoClient}
    BY <1>0, TargetFree
  <2>3. v \in Row /\ rq[c].ent \in Row
    BY DEF Seen, IInv, TypeOK, RequestType
  <2>4. w \in Row /\ w.active = take("active") /\ w.status = v.status
    <3>1. take("active") \in BOOLEAN /\ take("name") \in Writer
      <4> HIDE DEF v
      <4> QED BY <2>3 DEF Row
    <3> HIDE DEF v, take
    <3> QED BY <2>3, <3>1 DEF Row
  <2>5. /\ draft' = [q \in Policy |-> IF q \in {p} THEN w ELSE draft[q]]
        /\ lock' = [q \in Policy |-> IF q \in {p} THEN c ELSE lock[q]]
        /\ UNCHANGED <<row, rules>>
    BY <1>3 DEF Write
  <2>6. Active(w) => s = "index" \/ Indexed(p)
    <3>1. SUFFICES ASSUME Active(w), s # "index" PROVE Indexed(p)
      OBVIOUS
    <3>2. Active(v)
      <4>1. ~on
        BY <3>1
      <4> HIDE DEF v, w
      <4> QED BY <3>1, <4>1, <2>4 DEF Active, Live
    <3>3. draft[p] = v
      BY <2>2, <1>0, NoClientAssumption DEF Seen, IInv, LockDiscipline, FreeDraft
    <3>4. lock[p] \in Client => rq[lock[p]].pc # "index"
      BY <2>2, <1>0, NoClientAssumption
    <3> HIDE DEF v
    <3> QED BY <3>2, <3>3, <3>4 DEF Indexed
  <2> HIDE DEF s, w, p
  <2> QED BY <1>0, <1>1, <2>1, <2>2, <2>4, <2>5, <2>6, Saving
<1>4. \/ Goto(c, AfterSave(c)) /\ UNCHANGED <<row, draft, lock, rules>>
      \/ Write(c, {p}, LAMBDA t : w) /\ Goto(c, s)
  BY DEF Update, Saved
<1> QED BY <1>2, <1>3, <1>4

\* save() of a row that is gone inserts the entity, active or not.
LEMMA InsertStep ==
  ASSUME IInv, NEW c \in Client, Insert(c)
  PROVE  IInv'
<1> DEFINE p == rq[c].target
           w == rq[c].ent
           s == IF w.active THEN "index" ELSE AfterSave(c)
<1>0. rq[c].pc = "insert" /\ WaitsFor(c) = {} /\ p \in Policy /\ w \in Row
  BY DEF Insert, At, IInv, TypeOK, RequestType
<1>1. s \in Stages /\ s \in Holding
  BY DEF AfterSave, Stages, Holding
<1>2. CASE Rollback(c, "conflict")
  BY <1>2, RollsBack DEF Replies
<1>3. CASE Write(c, {p}, LAMBDA t : w) /\ Goto(c, s)
  <2>1. Moves(c, s)
    <3> HIDE DEF s
    <3> QED BY <1>1, <1>3, Going DEF IInv
  <2>2. lock[p] \in {c, NoClient}
    BY <1>0, TargetFree
  <2>3. /\ draft' = [q \in Policy |-> IF q \in {p} THEN w ELSE draft[q]]
        /\ lock' = [q \in Policy |-> IF q \in {p} THEN c ELSE lock[q]]
        /\ UNCHANGED <<row, rules>>
    BY <1>3 DEF Write
  <2>4. Active(w) => s = "index"
    BY DEF Active
  <2> HIDE DEF s, w, p
  <2> QED BY <1>0, <1>1, <2>1, <2>2, <2>3, <2>4, Saving
<1>4. \/ Rollback(c, "conflict")
      \/ Write(c, {p}, LAMBDA t : w) /\ Goto(c, s)
  BY DEF Insert, Saved
<1> QED BY <1>2, <1>3, <1>4

\* The unique index admits the row only if no other one can be active.
LEMMA IndexStep ==
  ASSUME IInv, NEW c \in Client, Index(c)
  PROVE  IInv'
<1> DEFINE p == rq[c].target
           s == AfterSave(c)
<1> USE NoClientAssumption
<1>0. rq[c].pc = "index" /\ WaitsFor(c) = {} /\ p \in Policy
  BY DEF Index, At, IInv, TypeOK, RequestType
<1>1. CASE Rollback(c, "conflict")
  BY <1>1, RollsBack DEF Replies
<1>2. CASE /\ \A q \in Policy \ {p} : ~Active(Seen(c, q))
           /\ Goto(c, s) /\ UNCHANGED <<row, draft, lock, rules>>
  <2>1. s \in Stages /\ s \in Holding
    BY DEF AfterSave, Stages, Holding
  <2>2. Moves(c, s)
    <3> HIDE DEF s
    <3> QED BY <1>2, <2>1, Going DEF IInv
  <2>3. TypeOK'
    BY <1>2, <2>2 DEF IInv, TypeOK, Moves
  <2>4. ASSUME NEW q \in Policy, q # p
        PROVE  ~Indexed(q)' /\ (Active(row[q]) => lock[q] = c)
    <3>1. Active(row[q]) \/ Indexed(q) => lock[q] \in {c, NoClient}
      BY <1>0, <2>4, IndexClear
    <3>2. lock[q] = c => ~Active(draft[q])
      BY <1>2, <2>4 DEF Seen
    <3>3. lock[q] = NoClient => ~Active(row[q]) /\ ~Active(draft[q])
      BY <1>2, <2>4 DEF Seen, IInv, LockDiscipline, FreeDraft
    <3>4. Active(row[q]) => lock[q] = c
      BY <3>1, <3>3
    <3>5. ASSUME Indexed(q)' PROVE FALSE
      <4>1. lock[q] # c /\ lock[q] # NoClient
        BY <3>5, <3>2, <3>3, <1>2 DEF Indexed, Active, Live
      <4>2. Indexed(q)
        BY <3>5, <4>1, <1>2, <2>2 DEF Indexed, Moves, Active, Live
      <4> QED BY <3>1, <4>1, <4>2
    <3> QED BY <3>4, <3>5
  <2>5. LocksHeld' /\ FreeDraft'
    BY <1>2, <2>1, <2>2
       DEF IInv, LockDiscipline, LocksHeld, FreeDraft, Moves
  <2>6. AtMostOneActive'
    BY <1>2 DEF IInv, LockDiscipline, AtMostOneActive, ActiveOnes, Active, Live
  <2>7. IndexSound'
    BY <2>4 DEF IndexSound
  <2>8. Succession'
    <3>1. SUFFICES ASSUME NEW x \in Policy, NEW q \in Policy, x # q,
                          Indexed(x)', Active(row[q])'
                   PROVE  lock'[x] \in Client /\ lock'[q] = lock'[x]
      BY DEF Succession
    <3>2. x = p /\ q # p
      BY <3>1, <2>4
    <3>3. Active(row[q])
      BY <3>1, <1>2 DEF Active, Live
    <3>4. lock[q] = c
      BY <3>2, <3>3, <2>4
    <3>5. lock[p] = c
      <4>1. ASSUME lock[p] # c PROVE FALSE
        <5>1. Indexed(p)
          BY <3>1, <3>2, <4>1, <1>2, <2>2 DEF Indexed, Moves, Active, Live
        <5>2. lock[p] = lock[q]
          BY <5>1, <3>2, <3>3, <1>0 DEF IInv, LockDiscipline, Succession
        <5> QED BY <5>2, <3>4, <4>1
      <4> QED BY <4>1
    <3> QED BY <3>2, <3>4, <3>5, <1>2
  <2> QED BY <2>3, <2>5, <2>6, <2>7, <2>8 DEF IInv, LockDiscipline
<1>3. \/ Rollback(c, "conflict")
      \/ /\ \A q \in Policy \ {p} : ~Active(Seen(c, q))
         /\ Goto(c, s) /\ UNCHANGED <<row, draft, lock, rules>>
  BY DEF Index
<1> QED BY <1>1, <1>2, <1>3

\* The snapshot of the rule rows changes nothing.
LEMMA ScanStep ==
  ASSUME IInv, NEW c \in Client, Scan(c)
  PROVE  IInv'
<1> DEFINE x == [rq[c] EXCEPT !.old = rules[rq[c].target], !.pc = "cut"]
<1>1. rq' = [rq EXCEPT ![c] = x]
  BY DEF Scan
<1>2. x \in RequestType /\ x.pc = "cut"
  <2>1. rules[rq[c].target] \in SUBSET Writer
    BY DEF IInv, TypeOK, RequestType
  <2> QED BY <2>1 DEF IInv, TypeOK, RequestType, Stages
<1>3. Moves(c, "cut")
  <2> HIDE DEF x
  <2> QED BY <1>1, <1>2 DEF IInv, TypeOK, Moves
<1> QED BY <1>3, StepsOn DEF Scan, At, Stages, Holding

\* Deleting rule rows touches no policy.
LEMMA CutStep ==
  ASSUME IInv, NEW c \in Client, Cut(c)
  PROVE  IInv'
<1> DEFINE k == rq[c].old \cap rules[rq[c].target]
           s == IF rq[c].kind = "clear" THEN "full" ELSE "put"
           x == [rq[c] EXCEPT !.cut = k, !.old = {}, !.pc = s]
<1>1. rq' = [rq EXCEPT ![c] = x]
  BY DEF Cut
<1>2. s \in Stages /\ s \in Holding
  BY DEF Stages, Holding
<1>3. x \in RequestType /\ x.pc = s
  <2>1. k \in SUBSET Writer
    BY DEF IInv, TypeOK, RequestType
  <2> HIDE DEF k, s
  <2> QED BY <1>2, <2>1 DEF IInv, TypeOK, RequestType
<1>4. Moves(c, s)
  <2> HIDE DEF x, s
  <2> QED BY <1>1, <1>3 DEF IInv, TypeOK, Moves
<1> HIDE DEF s, x
<1> QED BY <1>2, <1>4, StepsOn DEF Cut, At

\* Inserting rule rows touches no policy.
LEMMA PutStep ==
  ASSUME IInv, NEW c \in Client, Put(c)
  PROVE  IInv'
<1> DEFINE x == [rq[c] EXCEPT !.put = TRUE, !.pc = "full"]
<1>1. CASE Rollback(c, "error")
  BY <1>1, RollsBack DEF Replies
<1>2. CASE rq' = [rq EXCEPT ![c] = x] /\ UNCHANGED <<row, draft, lock, rules>>
  <2>1. x \in RequestType /\ x.pc = "full"
    BY DEF IInv, TypeOK, RequestType, Stages
  <2>2. Moves(c, "full")
    <3> HIDE DEF x
    <3> QED BY <1>2, <2>1 DEF IInv, TypeOK, Moves
  <2> QED BY <1>2, <2>2, StepsOn DEF Put, At, Stages, Holding
<1>3. \/ Rollback(c, "error")
      \/ rq' = [rq EXCEPT ![c] = x] /\ UNCHANGED <<row, draft, lock, rules>>
  BY DEF Put
<1> QED BY <1>1, <1>2, <1>3

\* The last statement commits or rolls back.
LEMMA FullStep ==
  ASSUME IInv, NEW c \in Client, Full(c)
  PROVE  IInv'
<1>1. CASE Rollback(c, "error")
  BY <1>1, RollsBack DEF Replies
<1>2. CASE CommitTo(c, Answer(c, "ok"))
  BY <1>2, Commits DEF Full, At, Replies
<1> QED BY <1>1, <1>2 DEF Full
-----------------------------------------------------------------------------
\* The invariant holds initially.
LEMMA Initially == Init => IInv
<1> SUFFICES ASSUME Init PROVE IInv
  OBVIOUS
<1> USE NoClientAssumption
<1>1. PICK live \in SUBSET Policy : \E act \in {{}} \cup {{p} : p \in live} :
        row = [p \in Policy |->
                 [status |-> IF p \in live THEN "live" ELSE "unborn",
                  active |-> p \in act, name |-> NoClient]]
  BY DEF Init
<1>2. PICK act \in {{}} \cup {{p} : p \in live} :
        row = [p \in Policy |->
                 [status |-> IF p \in live THEN "live" ELSE "unborn",
                  active |-> p \in act, name |-> NoClient]]
  BY <1>1
<1>3. row \in [Policy -> Row]
  BY <1>2 DEF Row, Writer
<1>4. TypeOK
  BY <1>3, IdleType DEF Init, TypeOK, Writer
<1>5. \A p, q \in Policy : Active(row[p]) /\ Active(row[q]) => p = q
  BY <1>2 DEF Active
<1>6. /\ draft = row
      /\ \A p \in Policy : lock[p] = NoClient
  BY DEF Init
<1>7. LockDiscipline
  BY <1>5, <1>6 DEF LockDiscipline, LocksHeld, FreeDraft, AtMostOneActive,
                    ActiveOnes, IndexSound, Succession, Indexed
<1> QED BY <1>4, <1>7 DEF IInv

\* Every step keeps the invariant.
LEMMA Inductive == IInv /\ [Next]_vars => IInv'
<1> SUFFICES ASSUME IInv, [Next]_vars PROVE IInv'
  OBVIOUS
<1>1. CASE UNCHANGED vars
  BY <1>1 DEF vars, IInv, TypeOK, LockDiscipline, LocksHeld, FreeDraft,
              AtMostOneActive, ActiveOnes, IndexSound, Succession, Indexed,
              Active, Live
<1>2. ASSUME NEW c \in Client, NEW k \in Kinds, NEW p \in Policy, Request(c, k, p)
      PROVE  IInv'
  BY <1>2, RequestStep
<1>3. ASSUME NEW c \in Client, NEW k \in Kinds, RequestNew(c, k) PROVE IInv'
  BY <1>3, RequestNewStep
<1>4. ASSUME NEW c \in Client, Statement(c) PROVE IInv'
  BY <1>4, CreateStep, EraseStep, CascadeStep, DemoteStep, DemoteRowStep,
     LoadStep, SelectStep, UpdateStep, InsertStep, IndexStep, ScanStep,
     CutStep, PutStep, FullStep DEF Statement
<1>5. ASSUME NEW c \in Client, Victim(c) \/ Fail(c) PROVE IInv'
  <2>1. Rollback(c, "error")
    BY <1>5 DEF Victim, Fail
  <2> QED BY <2>1, RollsBack DEF Replies
<1> QED BY <1>1, <1>2, <1>3, <1>4, <1>5 DEF Next

\* The inductive invariant holds in every reachable state.
THEOREM Invariance == Spec => []IInv
BY Initially, Inductive, PTL DEF Spec

\* TypeOK for every number of clients and policies.
THEOREM TypeCorrectness == Spec => []TypeOK
<1>1. IInv => TypeOK
  BY DEF IInv
<1> QED BY <1>1, Invariance, PTL

\* Two policies of a repository are never active at once, whatever requests
\* overlap and fail.
THEOREM OneActivePolicy == Spec => []AtMostOneActive
<1>1. IInv => AtMostOneActive
  BY DEF IInv, LockDiscipline
<1> QED BY <1>1, Invariance, PTL
-----------------------------------------------------------------------------
\* A step of c that commits nothing: every row stays as it is for its lock's
\* holder, or is free or live, or waits for the cascade of c.
LEMMA Uncommitted ==
  ASSUME TypeOK, RulesInv, NEW c \in Client, NEW s \in Stages, Moves(c, s),
         UNCHANGED <<row, rules>>,
         \A p \in Policy :
           \/ lock'[p] = lock[p] /\ draft'[p] = draft[p]
              /\ (lock[p] = c => rq[c].pc # "cascade")
           \/ lock'[p] \notin Client
           \/ Live(draft'[p])
           \/ /\ lock'[p] = c /\ draft'[p].status = "gone"
              /\ s = "cascade" /\ rq'[c].target = p,
         s \in {"select", "update", "insert"} => Live(rq'[c].ent),
         rq'[c].put => s = "full"
  PROVE  RulesInv'
<1>1. NoOrphanRules'
  BY DEF RulesInv, NoOrphanRules, Live
<1>2. EntitiesLive'
  BY DEF RulesInv, EntitiesLive, Moves, Live
<1>3. PutLast'
  BY DEF RulesInv, PutLast, Moves
<1>4. DraftsLive'
  <2> SUFFICES ASSUME NEW p \in Policy, lock'[p] \in Client, ~Live(draft'[p])
               PROVE  /\ draft'[p].status = "gone"
                      /\ rq'[lock'[p]].pc = "cascade" /\ rq'[lock'[p]].target = p
    BY DEF DraftsLive, Live
  <2>1. CASE /\ lock'[p] = lock[p] /\ draft'[p] = draft[p]
             /\ lock[p] = c => rq[c].pc # "cascade"
    BY <2>1 DEF RulesInv, DraftsLive, Moves, Live
  <2>2. CASE /\ lock'[p] = c /\ draft'[p].status = "gone"
             /\ s = "cascade" /\ rq'[c].target = p
    BY <2>2 DEF Moves
  <2> QED BY <2>1, <2>2 DEF Live
<1> QED BY <1>1, <1>2, <1>3, <1>4 DEF RulesInv

\* The end of a request that is answered.
LEMMA Answered ==
  ASSUME TypeOK, NEW c \in Client, NEW a \in Replies, rq' = Answer(c, a)
  PROVE  Moves(c, "done") /\ ~rq'[c].put
<1>1. Moves(c, "done")
  BY Answering
<1>2. rq'[c] = [Idle EXCEPT !.pc = "done", !.kind = rq[c].kind, !.reply = a]
  BY DEF Answer, TypeOK
<1>3. rq'[c].put = FALSE
  BY <1>2 DEF Idle
<1> QED BY <1>1, <1>3

\* ROLLBACK leaves no rules behind.
LEMMA RollbackKeepsRules ==
  ASSUME TypeOK, RulesInv, NEW c \in Client, NEW a \in Replies, Rollback(c, a)
  PROVE  RulesInv'
<1> USE NoClientAssumption
<1>1. Moves(c, "done") /\ ~rq'[c].put
  BY Answered DEF Rollback
<1>2. ASSUME NEW p \in Policy
      PROVE  \/ lock'[p] = lock[p] /\ draft'[p] = draft[p] /\ lock[p] # c
             \/ lock'[p] \notin Client
  BY DEF Rollback, Release, TypeOK
<1>3. UNCHANGED <<row, rules>>
  BY DEF Rollback
<1> QED BY <1>1, <1>2, <1>3, Uncommitted DEF Stages

\* COMMIT makes rules visible with their policy, or deletes them with it.
LEMMA CommitKeepsRules ==
  ASSUME TypeOK, RulesInv, NEW c \in Client, NEW a \in Replies,
         CommitTo(c, Answer(c, a)),
         \/ rq[c].pc = "cascade"
         \/ rq[c].pc = "full" /\ Live(Seen(c, rq[c].target))
  PROVE  RulesInv'
<1> USE NoClientAssumption
<1>1. Moves(c, "done") /\ ~rq'[c].put
  BY Answered DEF CommitTo
<1>2. EntitiesLive' /\ PutLast'
  BY <1>1 DEF RulesInv, EntitiesLive, PutLast, Moves, Live
<1>3. DraftsLive'
  <2> SUFFICES ASSUME NEW p \in Policy, lock'[p] \in Client, ~Live(draft'[p])
               PROVE  /\ draft'[p].status = "gone"
                      /\ rq'[lock'[p]].pc = "cascade" /\ rq'[lock'[p]].target = p
    BY DEF DraftsLive, Live
  <2>1. lock'[p] = lock[p] /\ lock[p] # c /\ draft' = draft
    BY DEF CommitTo, Release, TypeOK
  <2> QED BY <2>1, <1>1 DEF RulesInv, DraftsLive, Moves, Live
<1>4. NoOrphanRules'
  <2> SUFFICES ASSUME NEW p \in Policy, rules'[p] # {}
               PROVE  Live(row'[p])
    BY DEF NoOrphanRules, Live
  <2>1. row'[p] = Seen(c, p)
    BY DEF CommitTo, TypeOK
  <2>2. CASE rq[c].target # p
    <3>1. rules'[p] = rules[p]
      BY <2>2 DEF CommitTo
    <3>2. Live(row[p])
      BY <3>1 DEF RulesInv, NoOrphanRules
    <3>3. lock[p] = c => Live(draft[p])
      BY <2>2 DEF RulesInv, DraftsLive
    <3> QED BY <2>1, <3>2, <3>3 DEF Seen
  <2>3. CASE rq[c].target = p /\ rq[c].pc = "full"
    BY <2>1, <2>3
  <2>4. CASE rq[c].target = p /\ rq[c].pc = "cascade"
    <3>1. /\ Seen(c, p).status # "gone"
          /\ rules'[p] = (rules[p] \ rq[c].cut) \cup (IF rq[c].put THEN {c} ELSE {})
      BY <2>4 DEF CommitTo
    <3>2. ~rq[c].put
      BY <2>4 DEF RulesInv, PutLast
    <3>3. Live(row[p])
      BY <3>1, <3>2 DEF RulesInv, NoOrphanRules
    <3>4. lock[p] = c => Live(draft[p])
      BY <3>1 DEF RulesInv, DraftsLive, Seen
    <3> QED BY <2>1, <3>3, <3>4 DEF Seen
  <2> QED BY <2>2, <2>3, <2>4
<1> QED BY <1>2, <1>3, <1>4 DEF RulesInv

\* Requests that begin hold no row and have inserted no rules.
LEMMA RequestKeepsRules ==
  ASSUME TypeOK, RulesInv, NEW c \in Client,
         \/ \E k \in Kinds, p \in Policy : Request(c, k, p)
         \/ \E k \in Kinds : RequestNew(c, k)
  PROVE  RulesInv'
<1>1. rq[c].pc = "idle" /\ UNCHANGED <<row, draft, lock, rules>>
  BY DEF Request, RequestNew
<1>2. ~rq[c].put
  BY <1>1 DEF RulesInv, PutLast
<1>3. CASE \E k \in Kinds, p \in Policy : Request(c, k, p)
  <2>1. PICK k \in Kinds, p \in Policy : Request(c, k, p)
    BY <1>3
  <2> DEFINE s == IF Live(row[p]) /\ ~(k = "delete" /\ row[p].active)
                  THEN FirstStatement(k) ELSE "done"
             a == IF ~Live(row[p]) THEN "notFound"
                  ELSE IF k = "delete" /\ row[p].active THEN "refused" ELSE "none"
             x == [rq[c] EXCEPT !.kind = k, !.target = p, !.pc = s, !.reply = a]
  <2>2. rq' = [rq EXCEPT ![c] = x]
    BY <2>1 DEF Request
  <2>3. s \in Stages \ {"select", "update", "insert"} /\ a \in Replies
    BY DEF FirstStatement, Stages, Named, Replies
  <2>4. x \in RequestType /\ x.pc = s /\ x.put = rq[c].put
    <3> HIDE DEF s, a
    <3> QED BY <2>3 DEF TypeOK, RequestType, Replies
  <2>5. Moves(c, s) /\ rq'[c].put = rq[c].put
    <3> HIDE DEF s, x
    <3> QED BY <2>2, <2>4 DEF TypeOK, Moves
  <2> HIDE DEF s
  <2> QED BY <1>1, <1>2, <2>3, <2>5, Uncommitted
<1>4. CASE \E k \in Kinds : RequestNew(c, k)
  <2>1. PICK k \in Kinds : RequestNew(c, k)
    BY <1>4
  <2> DEFINE skip == k = "default" /\ \E p \in Policy : Live(row[p])
             s == IF skip THEN "done" ELSE "new"
             a == IF skip THEN "skipped" ELSE "none"
             x == [rq[c] EXCEPT !.kind = k, !.pc = s, !.reply = a]
  <2>2. rq' = [rq EXCEPT ![c] = x]
    BY <2>1 DEF RequestNew
  <2>3. s \in Stages \ {"select", "update", "insert"} /\ a \in Replies
    BY DEF Stages, Replies
  <2>4. x \in RequestType /\ x.pc = s /\ x.put = rq[c].put
    <3> HIDE DEF s, a
    <3> QED BY <2>3 DEF TypeOK, RequestType, Replies
  <2>5. Moves(c, s) /\ rq'[c].put = rq[c].put
    <3> HIDE DEF s, x
    <3> QED BY <2>2, <2>4 DEF TypeOK, Moves
  <2> HIDE DEF s
  <2> QED BY <1>1, <1>2, <2>3, <2>5, Uncommitted
<1> QED BY <1>3, <1>4

\* createWithRules inserts the policy with its rules.
LEMMA CreateKeepsRules ==
  ASSUME TypeOK, RulesInv, NEW c \in Client, NEW p \in Policy, Create(c, p)
  PROVE  RulesInv'
<1> DEFINE new == [status |-> "live", active |-> FALSE, name |-> c]
           s == IF rq[c].kind = "default" THEN "demote" ELSE "done"
           a == IF rq[c].kind = "default" THEN "none" ELSE "ok"
           x == [rq[c] EXCEPT !.target = p, !.pc = s, !.reply = a]
<1>1. /\ row' = [row EXCEPT ![p] = new] /\ draft' = [draft EXCEPT ![p] = new]
      /\ rules' = [rules EXCEPT ![p] = {c}] /\ rq' = [rq EXCEPT ![c] = x]
      /\ rq[c].pc = "new" /\ lock' = lock /\ Live(new)
  BY DEF Create, At, Live
<1>2. Moves(c, s) /\ rq'[c].put = rq[c].put
  <2>1. s \in Stages /\ a \in Replies
    BY DEF Stages, Replies
  <2>2. x \in RequestType /\ x.pc = s /\ x.put = rq[c].put
    <3> HIDE DEF s, a
    <3> QED BY <2>1 DEF TypeOK, RequestType, Replies
  <2> HIDE DEF s, x
  <2> QED BY <1>1, <2>2 DEF TypeOK, Moves
<1>3. s \notin {"select", "update", "insert", "full"} /\ ~rq[c].put
  BY <1>1 DEF RulesInv, PutLast
<1> HIDE DEF new, s, x
<1>4. NoOrphanRules'
  BY <1>1 DEF RulesInv, NoOrphanRules, TypeOK, Live
<1>5. EntitiesLive' /\ PutLast'
  BY <1>2, <1>3 DEF RulesInv, EntitiesLive, PutLast, Moves, Live
<1>6. DraftsLive'
  BY <1>1, <1>2 DEF RulesInv, DraftsLive, TypeOK, Moves, Live
<1> QED BY <1>4, <1>5, <1>6 DEF RulesInv

\* Statements that neither write rows nor end the transaction.
LEMMA QuietKeepsRules ==
  ASSUME TypeOK, RulesInv, NEW c \in Client, NEW s \in Stages, Moves(c, s),
         UNCHANGED <<row, draft, lock, rules>>, rq[c].pc # "cascade",
         s \in {"select", "update", "insert"} => Live(rq'[c].ent),
         rq'[c].put => s = "full"
  PROVE  RulesInv'
BY Uncommitted

\* Goto changes only the stage.
LEMMA GoesOn ==
  ASSUME TypeOK, NEW c \in Client, NEW s \in Stages, Goto(c, s)
  PROVE  /\ Moves(c, s) /\ rq'[c].put = rq[c].put
         /\ rq'[c].ent = rq[c].ent /\ rq'[c].target = rq[c].target
<1>1. Moves(c, s)
  BY Going
<1>2. rq'[c] = [rq[c] EXCEPT !.pc = s] /\ rq[c] \in RequestType
  BY DEF Goto, TypeOK
<1> QED BY <1>1, <1>2 DEF RequestType

\* DELETE leaves its row to the cascade.
LEMMA EraseKeepsRules ==
  ASSUME TypeOK, RulesInv, NEW c \in Client, Erase(c)
  PROVE  RulesInv'
<1> DEFINE p == rq[c].target
<1>1. rq[c].pc = "erase" /\ p \in Policy
  BY DEF Erase, At, TypeOK, RequestType
<1>2. ~rq[c].put
  BY <1>1 DEF RulesInv, PutLast
<1>3. CASE rq' = Answer(c, "ok") /\ UNCHANGED <<row, draft, lock, rules>>
  <2>1. Moves(c, "done") /\ ~rq'[c].put
    BY <1>3, Answered DEF Replies
  <2> QED BY <2>1, <1>1, <1>3, QuietKeepsRules DEF Stages
<1>4. CASE /\ Write(c, {p}, LAMBDA t : [row[t] EXCEPT !.status = "gone", !.active = FALSE])
           /\ Goto(c, "cascade")
  <2>1. Moves(c, "cascade") /\ rq'[c].put = rq[c].put /\ rq'[c].target = p
    BY <1>4, GoesOn DEF Stages
  <2>2. /\ draft' = [q \in Policy |->
                      IF q \in {p} THEN [row[q] EXCEPT !.status = "gone", !.active = FALSE]
                      ELSE draft[q]]
        /\ lock' = [q \in Policy |-> IF q \in {p} THEN c ELSE lock[q]]
        /\ UNCHANGED <<row, rules>>
    BY <1>4 DEF Write
  <2>3. row[p] \in Row
    BY <1>1 DEF TypeOK
  <2>4. draft'[p].status = "gone" /\ lock'[p] = c
    BY <2>2, <2>3, <1>1 DEF Row
  <2>5. ASSUME NEW q \in Policy, q # p
        PROVE  lock'[q] = lock[q] /\ draft'[q] = draft[q]
    BY <2>2, <2>5
  <2>6. UNCHANGED <<row, rules>>
    BY <2>2
  <2>7. "cascade" \in Stages
    BY DEF Stages
  <2> HIDE DEF p
  <2>8. \A q \in Policy :
          \/ lock'[q] = lock[q] /\ draft'[q] = draft[q]
             /\ (lock[q] = c => rq[c].pc # "cascade")
          \/ lock'[q] \notin Client
          \/ Live(draft'[q])
          \/ /\ lock'[q] = c /\ draft'[q].status = "gone"
             /\ "cascade" = "cascade" /\ rq'[c].target = q
    BY <1>1, <2>1, <2>4, <2>5
  <2> QED BY <1>2, <2>1, <2>6, <2>7, <2>8, Uncommitted
<1> QED BY <1>3, <1>4 DEF Erase

\* The demotion writes rows that are live.
LEMMA DemoteKeepsRules ==
  ASSUME TypeOK, RulesInv, NEW c \in Client, Demote(c) \/ DemoteRow(c)
  PROVE  RulesInv'
<1>1. CASE Demote(c)
  <2> DEFINE F == {q \in Policy : Active(row[q])}
             x == [rq[c] EXCEPT !.found = F, !.pc = "demoteRow"]
  <2>1. rq' = [rq EXCEPT ![c] = x] /\ rq[c].pc = "demote" /\ UNCHANGED <<row, draft, lock, rules>>
    BY <1>1 DEF Demote, At
  <2>2. F \in SUBSET Policy
    OBVIOUS
  <2>3. x \in RequestType /\ x.pc = "demoteRow" /\ x.put = rq[c].put
    <3> HIDE DEF F
    <3> QED BY <2>2 DEF TypeOK, RequestType, Stages
  <2>4. Moves(c, "demoteRow") /\ rq'[c].put = rq[c].put
    <3> HIDE DEF x
    <3> QED BY <2>1, <2>3 DEF TypeOK, Moves
  <2>5. ~rq[c].put
    BY <2>1 DEF RulesInv, PutLast
  <2> QED BY <2>1, <2>4, <2>5, QuietKeepsRules DEF Stages
<1>2. CASE DemoteRow(c)
  <2> DEFINE P == {q \in rq[c].found : Active(row[q])}
             x == [rq[c] EXCEPT !.found = {}, !.pc = "load"]
  <2>1. rq' = [rq EXCEPT ![c] = x] /\ rq[c].pc = "demoteRow" /\ UNCHANGED <<row, rules>>
    BY <1>2 DEF DemoteRow, At, Write
  <2>2. /\ draft' = [q \in Policy |-> IF q \in P THEN [row[q] EXCEPT !.active = FALSE] ELSE draft[q]]
        /\ lock' = [q \in Policy |-> IF q \in P THEN c ELSE lock[q]]
    BY <1>2 DEF DemoteRow, Write
  <2>3. x \in RequestType /\ x.pc = "load" /\ x.put = rq[c].put
    BY DEF TypeOK, RequestType, Stages
  <2>4. Moves(c, "load") /\ rq'[c].put = rq[c].put
    <3> HIDE DEF x
    <3> QED BY <2>1, <2>3 DEF TypeOK, Moves
  <2>5. ~rq[c].put
    BY <2>1 DEF RulesInv, PutLast
  <2>6. ASSUME NEW q \in Policy
        PROVE  \/ lock'[q] = lock[q] /\ draft'[q] = draft[q]
               \/ Live(draft'[q])
    <3>1. CASE q \in P
      <4>1. draft'[q] = [row[q] EXCEPT !.active = FALSE] /\ row[q] \in Row /\ row[q].status = "live"
        BY <2>2, <3>1 DEF TypeOK, Active, Live
      <4> QED BY <4>1 DEF Row, Live
    <3>2. CASE q \notin P
      BY <2>2, <3>2
    <3> QED BY <3>1, <3>2
  <2> HIDE DEF x, P
  <2> QED BY <2>1, <2>4, <2>5, <2>6, Uncommitted DEF Stages
<1> QED BY <1>1, <1>2

\* save() goes on with a row that was there when it was loaded.
LEMMA LoadKeepsRules ==
  ASSUME TypeOK, RulesInv, NEW c \in Client, Load(c)
  PROVE  RulesInv'
<1> DEFINE v == Seen(c, rq[c].target)
           e == IF rq[c].kind \in Named THEN [v EXCEPT !.name = c]
                ELSE [v EXCEPT !.active = TRUE]
           x == [rq[c] EXCEPT !.pc = "select", !.ent = e]
<1>1. rq[c].pc = "load" /\ rq[c].target \in Policy
  BY DEF Load, At, TypeOK, RequestType
<1>2. CASE Rollback(c, "error")
  BY <1>2, RollbackKeepsRules DEF Replies
<1>3. CASE Live(v) /\ rq' = [rq EXCEPT ![c] = x] /\ UNCHANGED <<row, draft, lock, rules>>
  <2>1. v \in Row
    BY <1>1 DEF Seen, TypeOK
  <2> HIDE DEF v
  <2>2. e \in Row /\ Live(e)
    BY <2>1, <1>3 DEF Row, Live, Writer
  <2> HIDE DEF e
  <2>3. x \in RequestType /\ x.pc = "select" /\ x.put = rq[c].put /\ x.ent = e
    BY <2>2 DEF TypeOK, RequestType, Stages
  <2> HIDE DEF x
  <2>4. Moves(c, "select") /\ rq'[c].put = rq[c].put /\ rq'[c].ent = e
    BY <1>3, <2>3 DEF TypeOK, Moves
  <2>5. ~rq[c].put
    BY <1>1 DEF RulesInv, PutLast
  <2> QED BY <1>1, <1>3, <2>2, <2>4, <2>5, QuietKeepsRules DEF Stages
<1>4. \/ Rollback(c, "error")
      \/ Live(v) /\ rq' = [rq EXCEPT ![c] = x] /\ UNCHANGED <<row, draft, lock, rules>>
  BY DEF Load
<1> QED BY <1>2, <1>3, <1>4

\* The entity stays as it is while save() looks for its row.
LEMMA SelectKeepsRules ==
  ASSUME TypeOK, RulesInv, NEW c \in Client, Select(c)
  PROVE  RulesInv'
<1> DEFINE v == Seen(c, rq[c].target)
           diff == {f \in {"active", "name"} : rq[c].ent[f] # v[f]}
           k == IF Live(v) THEN diff ELSE {}
           s == IF ~Live(v) THEN "insert" ELSE IF diff = {} THEN AfterSave(c) ELSE "update"
           x == [rq[c] EXCEPT !.cols = k, !.pc = s]
<1>1. rq[c].pc = "select" /\ rq' = [rq EXCEPT ![c] = x] /\ UNCHANGED <<row, draft, lock, rules>>
  BY DEF Select, At
<1>2. s \in Stages /\ k \in SUBSET {"active", "name"}
  BY DEF AfterSave, Stages
<1> HIDE DEF s, k
<1>3. x \in RequestType /\ x.pc = s /\ x.put = rq[c].put /\ x.ent = rq[c].ent
  BY <1>2 DEF TypeOK, RequestType
<1> HIDE DEF x
<1>4. Moves(c, s) /\ rq'[c].put = rq[c].put /\ rq'[c].ent = rq[c].ent
  BY <1>1, <1>3 DEF TypeOK, Moves
<1>5. ~rq[c].put /\ Live(rq[c].ent)
  BY <1>1 DEF RulesInv, PutLast, EntitiesLive
<1> QED BY <1>1, <1>2, <1>4, <1>5, QuietKeepsRules

\* What save() writes is live.
LEMMA SaveKeepsRules ==
  ASSUME TypeOK, RulesInv, NEW c \in Client, NEW p \in Policy, NEW w, Live(w),
         NEW s \in {"index", "scan", "full"}, Goto(c, s),
         rq[c].pc \in {"update", "insert"}, UNCHANGED <<row, rules>>,
         draft' = [q \in Policy |-> IF q \in {p} THEN w ELSE draft[q]],
         lock' = [q \in Policy |-> IF q \in {p} THEN c ELSE lock[q]]
  PROVE  RulesInv'
<1>1. Moves(c, s) /\ rq'[c].put = rq[c].put
  BY GoesOn DEF Stages
<1>2. ~rq[c].put
  BY DEF RulesInv, PutLast
<1>3. ASSUME NEW q \in Policy
      PROVE  (lock'[q] = lock[q] /\ draft'[q] = draft[q]) \/ Live(draft'[q])
  BY DEF Live
<1>4. s \in Stages /\ rq[c].pc # "cascade"
  BY DEF Stages
<1>5. s \notin {"select", "update", "insert"}
  OBVIOUS
<1> QED BY <1>1, <1>2, <1>3, <1>4, <1>5, Uncommitted

\* UPDATE and INSERT write rows that are live.
LEMMA UpdateKeepsRules ==
  ASSUME TypeOK, RulesInv, NEW c \in Client, Update(c) \/ Insert(c)
  PROVE  RulesInv'
<1> DEFINE p == rq[c].target
<1>1. p \in Policy /\ AfterSave(c) \in {"scan", "full"}
  BY DEF TypeOK, RequestType, AfterSave
<1>2. CASE Update(c)
  <2> DEFINE v == Seen(c, p)
             take(f) == IF f \in rq[c].cols THEN rq[c].ent[f] ELSE v[f]
             w == [v EXCEPT !.active = take("active"), !.name = take("name")]
             s == IF "active" \in rq[c].cols /\ rq[c].ent.active THEN "index" ELSE AfterSave(c)
  <2>1. rq[c].pc = "update" /\ s \in {"index", "scan", "full"}
    BY <1>1, <1>2 DEF Update, At
  <2>2. CASE Goto(c, AfterSave(c)) /\ UNCHANGED <<row, draft, lock, rules>>
    <3>1. ~rq[c].put
      BY <2>1 DEF RulesInv, PutLast
    <3>2. AfterSave(c) \in Stages
      BY <1>1 DEF Stages
    <3>3. Moves(c, AfterSave(c)) /\ rq'[c].put = rq[c].put
      BY <2>2, <3>2, GoesOn
    <3> QED BY <1>1, <2>1, <2>2, <3>1, <3>2, <3>3, QuietKeepsRules
  <2>3. CASE /\ Live(v) /\ Goto(c, s)
             /\ Write(c, {p}, LAMBDA t : w)
    <3>1. v \in Row
      BY <1>1 DEF Seen, TypeOK
    <3>2. Live(w)
      <4> HIDE DEF v, take
      <4> QED BY <2>3, <3>1 DEF Live, Row
    <3>3. /\ draft' = [q \in Policy |-> IF q \in {p} THEN w ELSE draft[q]]
          /\ lock' = [q \in Policy |-> IF q \in {p} THEN c ELSE lock[q]]
          /\ UNCHANGED <<row, rules>>
      BY <2>3 DEF Write
    <3> HIDE DEF s, w, p
    <3> QED BY <1>1, <2>1, <2>3, <3>2, <3>3, SaveKeepsRules
  <2>4. \/ Goto(c, AfterSave(c)) /\ UNCHANGED <<row, draft, lock, rules>>
        \/ /\ Live(v) /\ Goto(c, s)
           /\ Write(c, {p}, LAMBDA t : w)
    BY <1>2 DEF Update, Saved
  <2> QED BY <2>2, <2>3, <2>4
<1>3. CASE Insert(c)
  <2> DEFINE w == rq[c].ent
             s == IF w.active THEN "index" ELSE AfterSave(c)
  <2>1. rq[c].pc = "insert" /\ s \in {"index", "scan", "full"}
    BY <1>1, <1>3 DEF Insert, At
  <2>2. CASE Rollback(c, "conflict")
    BY <2>2, RollbackKeepsRules DEF Replies
  <2>3. CASE Goto(c, s) /\ Write(c, {p}, LAMBDA t : w)
    <3>1. Live(w)
      BY <2>1 DEF RulesInv, EntitiesLive
    <3>2. /\ draft' = [q \in Policy |-> IF q \in {p} THEN w ELSE draft[q]]
          /\ lock' = [q \in Policy |-> IF q \in {p} THEN c ELSE lock[q]]
          /\ UNCHANGED <<row, rules>>
      BY <2>3 DEF Write
    <3> HIDE DEF s, w, p
    <3> QED BY <1>1, <2>1, <2>3, <3>1, <3>2, SaveKeepsRules
  <2>4. \/ Rollback(c, "conflict")
        \/ Goto(c, s) /\ Write(c, {p}, LAMBDA t : w)
    BY <1>3 DEF Insert, Saved
  <2> QED BY <2>2, <2>3, <2>4
<1> QED BY <1>2, <1>3

\* The index and the rule rows' statements leave every policy as it is.
LEMMA RuleRowsKeepRules ==
  ASSUME TypeOK, RulesInv, NEW c \in Client, Index(c) \/ Scan(c) \/ Cut(c) \/ Put(c)
  PROVE  RulesInv'
<1>1. rq[c].pc \in {"index", "scan", "cut", "put"}
  BY DEF Index, Scan, Cut, Put, At
<1>2. ~rq[c].put
  BY <1>1 DEF RulesInv, PutLast
<1>3. CASE Rollback(c, "conflict") \/ Rollback(c, "error")
  BY <1>3, RollbackKeepsRules DEF Replies
<1>4. CASE Goto(c, AfterSave(c)) /\ UNCHANGED <<row, draft, lock, rules>>
  <2>1. AfterSave(c) \in {"scan", "full"} /\ AfterSave(c) \in Stages
    BY DEF AfterSave, Stages
  <2>2. Moves(c, AfterSave(c)) /\ rq'[c].put = rq[c].put
    BY <1>4, <2>1, GoesOn
  <2> QED BY <1>1, <1>2, <1>4, <2>1, <2>2, QuietKeepsRules
<1>5. CASE Scan(c)
  <2> DEFINE k == rules[rq[c].target]
             x == [rq[c] EXCEPT !.old = k, !.pc = "cut"]
  <2>1. rq' = [rq EXCEPT ![c] = x] /\ UNCHANGED <<row, draft, lock, rules>>
    BY <1>5 DEF Scan
  <2>2. k \in SUBSET Writer
    BY DEF TypeOK, RequestType
  <2> HIDE DEF k
  <2>3. x \in RequestType /\ x.pc = "cut" /\ x.put = rq[c].put
    BY <2>2 DEF TypeOK, RequestType, Stages
  <2> HIDE DEF x
  <2>4. Moves(c, "cut") /\ rq'[c].put = rq[c].put
    BY <2>1, <2>3 DEF TypeOK, Moves
  <2> QED BY <1>1, <1>2, <2>1, <2>4, QuietKeepsRules DEF Stages
<1>6. CASE Cut(c)
  <2> DEFINE k == rq[c].old \cap rules[rq[c].target]
             s == IF rq[c].kind = "clear" THEN "full" ELSE "put"
             x == [rq[c] EXCEPT !.cut = k, !.old = {}, !.pc = s]
  <2>1. rq' = [rq EXCEPT ![c] = x] /\ UNCHANGED <<row, draft, lock, rules>>
    BY <1>6 DEF Cut
  <2>2. k \in SUBSET Writer /\ s \in {"full", "put"} /\ s \in Stages
    BY DEF TypeOK, RequestType, Stages
  <2> HIDE DEF k, s
  <2>3. x \in RequestType /\ x.pc = s /\ x.put = rq[c].put
    BY <2>2 DEF TypeOK, RequestType
  <2> HIDE DEF x
  <2>4. Moves(c, s) /\ rq'[c].put = rq[c].put
    BY <2>1, <2>3 DEF TypeOK, Moves
  <2> QED BY <1>1, <1>2, <2>1, <2>2, <2>4, QuietKeepsRules
<1>7. ASSUME rq' = [rq EXCEPT ![c].put = TRUE, ![c].pc = "full"],
             UNCHANGED <<row, draft, lock, rules>>
      PROVE  RulesInv'
  <2> DEFINE x == [rq[c] EXCEPT !.put = TRUE, !.pc = "full"]
  <2>1. rq' = [rq EXCEPT ![c] = x]
    BY <1>7
  <2>2. x \in RequestType /\ x.pc = "full"
    BY DEF TypeOK, RequestType, Stages
  <2> HIDE DEF x
  <2>3. Moves(c, "full")
    BY <2>1, <2>2 DEF TypeOK, Moves
  <2> QED BY <1>1, <1>7, <2>3, QuietKeepsRules DEF Stages
<1>8. CASE Index(c)
  BY <1>3, <1>4, <1>8 DEF Index
<1>9. CASE Put(c)
  <2>1. \/ Rollback(c, "error")
        \/ /\ rq' = [rq EXCEPT ![c].put = TRUE, ![c].pc = "full"]
           /\ UNCHANGED <<row, draft, lock, rules>>
    BY <1>9 DEF Put
  <2> QED BY <2>1, <1>3, <1>7
<1> QED BY <1>5, <1>6, <1>8, <1>9

\* The last statements commit or roll back.
LEMMA EndsKeepRules ==
  ASSUME TypeOK, RulesInv, NEW c \in Client, Cascade(c) \/ Full(c) \/ Victim(c) \/ Fail(c)
  PROVE  RulesInv'
<1>1. CASE Rollback(c, "error")
  BY <1>1, RollbackKeepsRules DEF Replies
<1>2. CASE Cascade(c)
  <2>1. rq[c].pc = "cascade" /\ CommitTo(c, Answer(c, "ok")) /\ "ok" \in Replies
    BY <1>2 DEF Cascade, At, Replies
  <2> QED BY <2>1, CommitKeepsRules
<1>3. CASE Full(c) /\ ~Rollback(c, "error")
  BY <1>3, CommitKeepsRules DEF Full, At, Replies
<1> QED BY <1>1, <1>2, <1>3 DEF Victim, Fail

\* No rule and no draft is there at the start.
LEMMA RulesStart == Init => RulesInv
<1> SUFFICES ASSUME Init PROVE RulesInv
  OBVIOUS
<1> USE NoClientAssumption
<1>1. NoOrphanRules /\ DraftsLive
  BY DEF Init, NoOrphanRules, DraftsLive
<1>2. EntitiesLive /\ PutLast
  BY DEF Init, EntitiesLive, PutLast, Idle
<1> QED BY <1>1, <1>2 DEF RulesInv

\* Every step keeps what holds of the rules.
LEMMA RulesStay == IInv /\ RulesInv /\ [Next]_vars => RulesInv'
<1> SUFFICES ASSUME IInv, RulesInv, [Next]_vars PROVE RulesInv'
  OBVIOUS
<1>1. TypeOK
  BY DEF IInv
<1>2. CASE UNCHANGED vars
  BY <1>2 DEF vars, RulesInv, NoOrphanRules, EntitiesLive, DraftsLive, PutLast, Live
<1>3. ASSUME NEW c \in Client, Statement(c) PROVE RulesInv'
  BY <1>1, <1>3, CreateKeepsRules, EraseKeepsRules, DemoteKeepsRules, LoadKeepsRules,
     SelectKeepsRules, UpdateKeepsRules, RuleRowsKeepRules, EndsKeepRules DEF Statement
<1>4. ASSUME NEW c \in Client, NEW k \in Kinds, \/ \E p \in Policy : Request(c, k, p)
                                                \/ RequestNew(c, k)
      PROVE  RulesInv'
  BY <1>1, <1>4, RequestKeepsRules
<1>5. ASSUME NEW c \in Client, Victim(c) \/ Fail(c) PROVE RulesInv'
  BY <1>1, <1>5, EndsKeepRules
<1> QED BY <1>2, <1>3, <1>4, <1>5 DEF Next

\* No rules outlive their policy, and none are inserted for one that is gone:
\* the cascade, the foreign key and the last findOne see to it, whatever
\* requests overlap and fail.
THEOREM NoRulesWithoutPolicy == Spec => []NoOrphanRules
<1>1. RulesInv => NoOrphanRules
  BY DEF RulesInv
<1> QED BY RulesStart, RulesStay, <1>1, Invariance, PTL DEF Spec
-----------------------------------------------------------------------------
\* What a step of c does to the rows: nothing; a commit; a rollback; writes to rows
\* P that nobody else has locked; a row that is created.
Untouched == UNCHANGED <<row, draft, lock>>

Committed(c) ==
  /\ \A p \in Policy : /\ row'[p] = IF lock[p] = c THEN draft[p] ELSE row[p]
                       /\ lock'[p] = IF lock[p] = c THEN NoClient ELSE lock[p]
  /\ draft' = draft /\ rq[c].pc # "index"

RolledBack(c) ==
  /\ \A p \in Policy : /\ draft'[p] = IF lock[p] = c THEN row[p] ELSE draft[p]
                       /\ lock'[p] = IF lock[p] = c THEN NoClient ELSE lock[p]
  /\ row' = row

Wrote(c, P) ==
  /\ \A p \in P : lock[p] \in {c, NoClient} /\ lock'[p] = c
  /\ \A p \in Policy \ P : lock'[p] = lock[p] /\ draft'[p] = draft[p]
  /\ row' = row

Born(p) ==
  /\ row[p].status = "unborn" /\ draft'[p] = row'[p]
  /\ Live(row'[p]) /\ ~row'[p].active
  /\ \A q \in Policy \ {p} : row'[q] = row[q] /\ draft'[q] = draft[q]
  /\ lock' = lock

\* Nobody else's request changes.
Alone(c) == \A d \in Client : d # c => rq'[d] = rq[d]

\* A commit makes the drafts of its request the rows, and touches no other request.
LEMMA CommitEffect ==
  ASSUME TypeOK, NEW c \in Client, NEW a, CommitTo(c, Answer(c, a)), rq[c].pc # "index"
  PROVE  Committed(c) /\ Alone(c)
<1>1. Committed(c)
  BY DEF CommitTo, Committed, Seen, Release
<1>2. Alone(c)
  BY DEF CommitTo, Answer, Alone, TypeOK
<1> QED BY <1>1, <1>2

\* A roll-back drops the drafts of its request, and touches no other request.
LEMMA RollbackEffect ==
  ASSUME TypeOK, NEW c \in Client, NEW a, Rollback(c, a)
  PROVE  RolledBack(c) /\ Alone(c)
<1>1. RolledBack(c)
  BY DEF Rollback, RolledBack, Release
<1>2. Alone(c)
  BY DEF Rollback, Answer, Alone, TypeOK
<1> QED BY <1>1, <1>2

\* An answer ends the request.
LEMMA AnswerEnds ==
  ASSUME TypeOK, NEW c \in Client, NEW a, rq' = Answer(c, a)
  PROVE  rq'[c].pc = "done" /\ rq'[c].kind = rq[c].kind /\ rq'[c].reply = a
BY DEF Answer, Idle, TypeOK

\* One of these, whatever the step; a write only by the statements of Writes.
Unwritten(c) ==
  Untouched \/ Committed(c) \/ RolledBack(c) \/ \E p \in Policy : Born(p)

RowEffect(c) == Unwritten(c) \/ \E P \in SUBSET Policy : Wrote(c, P)

Writes(c) == Erase(c) \/ DemoteRow(c) \/ Update(c) \/ Insert(c)

StepOf(c) ==
  \/ \E k \in Kinds, p \in Policy : Request(c, k, p)
  \/ \E k \in Kinds : RequestNew(c, k)
  \/ Statement(c) \/ Victim(c) \/ Fail(c)

\* A write of one row, or of the rows to demote, is one that does not wait.
LEMMA EraseEffect ==
  ASSUME TypeOK, NEW c \in Client, Erase(c)
  PROVE  \/ Untouched /\ rq' = Answer(c, "ok")
         \/ /\ Wrote(c, {rq[c].target}) /\ Goto(c, "cascade")
            /\ Live(row[rq[c].target]) /\ ~Live(draft'[rq[c].target])
            /\ draft'[rq[c].target].name = row[rq[c].target].name
<1> DEFINE p == rq[c].target
           w == [row[p] EXCEPT !.status = "gone", !.active = FALSE]
<1>1. rq[c].pc = "erase" /\ WaitsFor(c) = {} /\ p \in Policy
  BY DEF Erase, At, TypeOK, RequestType
<1>2. CASE Live(row[p]) /\ Write(c, {p}, LAMBDA s : [row[s] EXCEPT !.status = "gone", !.active = FALSE])
           /\ Goto(c, "cascade")
  <2>1. lock[p] \in {c, NoClient}
    BY <1>1, <1>2, TargetFree
  <2>2. /\ draft' = [q \in Policy |-> IF q \in {p} THEN [row[q] EXCEPT !.status = "gone", !.active = FALSE]
                                      ELSE draft[q]]
        /\ lock' = [q \in Policy |-> IF q \in {p} THEN c ELSE lock[q]]
        /\ UNCHANGED row
    BY <1>2 DEF Write
  <2>3. Wrote(c, {p}) /\ draft'[p] = w
    BY <1>1, <2>1, <2>2 DEF Wrote
  <2>4. row[p] \in Row
    BY <1>1 DEF TypeOK
  <2>5. ~Live(w) /\ w.name = row[p].name
    BY <2>4 DEF Row, Live
  <2> QED BY <1>2, <2>3, <2>5
<1> QED BY <1>2 DEF Erase, Untouched

\* A demotion writes drafts of rows that are live, and keeps their names.
LEMMA DemoteEffect ==
  ASSUME TypeOK, NEW c \in Client, DemoteRow(c)
  PROVE  \E P \in SUBSET Policy :
           /\ Wrote(c, P)
           /\ \A p \in P : Live(row[p]) /\ draft'[p].name = row[p].name
<1> DEFINE P == {q \in rq[c].found : Active(row[q])}
           W == [q \in Policy |-> [row[q] EXCEPT !.active = FALSE]]
<1>1. rq[c].pc = "demoteRow" /\ WaitsFor(c) = {} /\ P \in SUBSET Policy
  BY DEF DemoteRow, At, TypeOK, RequestType
<1>2. \A p \in P : lock[p] \in {c, NoClient} /\ Live(row[p])
  BY <1>1, FoundFree DEF Active
<1>3. /\ draft' = [q \in Policy |-> IF q \in P THEN [row[q] EXCEPT !.active = FALSE] ELSE draft[q]]
      /\ lock' = [q \in Policy |-> IF q \in P THEN c ELSE lock[q]]
      /\ UNCHANGED row
  BY DEF DemoteRow, Write
<1>4. \A p \in Policy : W[p].name = row[p].name
  BY DEF TypeOK, Row
<1> HIDE DEF P
<1>5. Wrote(c, P) /\ \A p \in P : draft'[p] = W[p]
  BY <1>1, <1>2, <1>3 DEF Wrote
<1> QED BY <1>1, <1>2, <1>4, <1>5

\* What save() writes to its row.
LEMMA UpdateEffect ==
  ASSUME TypeOK, NEW c \in Client, Update(c)
  PROVE  LET p == rq[c].target
             v == Seen(c, p)
         IN \/ Untouched /\ ~Live(v) /\ Goto(c, AfterSave(c))
            \/ /\ Wrote(c, {p}) /\ Live(v) /\ Live(draft'[p])
               /\ draft'[p].active = (IF "active" \in rq[c].cols THEN rq[c].ent.active ELSE v.active)
               /\ draft'[p].name = (IF "name" \in rq[c].cols THEN rq[c].ent.name ELSE v.name)
               /\ Goto(c, IF "active" \in rq[c].cols /\ rq[c].ent.active THEN "index" ELSE AfterSave(c))
<1> DEFINE p == rq[c].target
           v == Seen(c, p)
           take(f) == IF f \in rq[c].cols THEN rq[c].ent[f] ELSE v[f]
           w == [v EXCEPT !.active = take("active"), !.name = take("name")]
<1>1. rq[c].pc = "update" /\ WaitsFor(c) = {} /\ p \in Policy
  BY DEF Update, At, TypeOK, RequestType
<1>2. lock[p] \in {c, NoClient}
  BY <1>1, TargetFree
<1>3. CASE Live(v) /\ Write(c, {p}, LAMBDA t : w)
           /\ Goto(c, IF "active" \in rq[c].cols /\ rq[c].ent.active THEN "index" ELSE AfterSave(c))
  <2>1. /\ draft' = [q \in Policy |-> IF q \in {p} THEN w ELSE draft[q]]
        /\ lock' = [q \in Policy |-> IF q \in {p} THEN c ELSE lock[q]]
        /\ UNCHANGED row
    BY <1>3 DEF Write
  <2> HIDE DEF w
  <2>2. Wrote(c, {p}) /\ draft'[p] = w
    BY <1>1, <1>2, <2>1 DEF Wrote
  <2>3. v \in Row
    BY <1>1 DEF Seen, TypeOK
  <2>4. w.status = v.status /\ w.active = take("active") /\ w.name = take("name")
    <3> HIDE DEF v, take
    <3> QED BY <2>3 DEF w, Row
  <2> QED BY <1>3, <2>2, <2>4 DEF Live
<1>4. \/ ~Live(v) /\ Goto(c, AfterSave(c)) /\ UNCHANGED <<row, draft, lock, rules>>
      \/ /\ Live(v) /\ Write(c, {p}, LAMBDA t : w)
         /\ Goto(c, IF "active" \in rq[c].cols /\ rq[c].ent.active THEN "index" ELSE AfterSave(c))
  BY DEF Update, Saved
<1> QED BY <1>3, <1>4 DEF Untouched

\* An INSERT fails on a conflict, or writes the loaded row where none is live.
LEMMA InsertEffect ==
  ASSUME TypeOK, NEW c \in Client, Insert(c)
  PROVE  LET p == rq[c].target
         IN \/ Rollback(c, "conflict")
            \/ /\ Wrote(c, {p}) /\ draft'[p] = rq[c].ent /\ ~Live(row[p])
               /\ Goto(c, IF rq[c].ent.active THEN "index" ELSE AfterSave(c))
<1> DEFINE p == rq[c].target
<1>1. rq[c].pc = "insert" /\ WaitsFor(c) = {} /\ p \in Policy
  BY DEF Insert, At, TypeOK, RequestType
<1>2. lock[p] \in {c, NoClient}
  BY <1>1, TargetFree
<1>3. CASE ~Live(row[p]) /\ Write(c, {p}, LAMBDA t : rq[c].ent) /\ Saved(c, rq[c].ent.active)
  <2>1. /\ draft' = [q \in Policy |-> IF q \in {p} THEN rq[c].ent ELSE draft[q]]
        /\ lock' = [q \in Policy |-> IF q \in {p} THEN c ELSE lock[q]]
        /\ UNCHANGED row
    BY <1>3 DEF Write
  <2>2. Wrote(c, {p}) /\ draft'[p] = rq[c].ent
    BY <1>1, <1>2, <2>1 DEF Wrote
  <2> QED BY <1>3, <2>2 DEF Saved
<1> QED BY <1>3 DEF Insert

\* A creation adds a row under the name its request brings.
LEMMA CreateEffect ==
  ASSUME TypeOK, NEW c \in Client, NEW p \in Policy, Create(c, p)
  PROVE  Born(p) /\ row'[p].name = c
BY DEF Create, Born, TypeOK, Live

\* A statement that writes no policy leaves rows, drafts and the other requests.
LEMMA QuietEffect ==
  ASSUME TypeOK, NEW c \in Client, StepOf(c), ~Writes(c)
  PROVE  Unwritten(c) /\ Alone(c)
<1>2. CASE \E p \in Policy : Create(c, p)
  <2>1. Unwritten(c)
    BY <1>2, CreateEffect DEF Unwritten
  <2>2. Alone(c)
    BY <1>2 DEF Create, Alone, TypeOK
  <2> QED BY <2>1, <2>2
<1>3. ASSUME NEW a, Rollback(c, a) \/ (CommitTo(c, Answer(c, a)) /\ rq[c].pc # "index")
      PROVE  Unwritten(c) /\ Alone(c)
  BY <1>3, RollbackEffect, CommitEffect DEF Unwritten
<1>4. CASE Cascade(c) \/ Full(c) \/ Victim(c) \/ Fail(c)
  BY <1>3, <1>4 DEF Cascade, Full, Victim, Fail, At
<1>5. CASE Demote(c) \/ Select(c) \/ Scan(c) \/ Cut(c)
  BY <1>5 DEF Demote, Select, Scan, Cut, Unwritten, Untouched, Alone, TypeOK
<1>6. CASE Load(c) \/ Index(c) \/ Put(c)
  <2>1. ASSUME ~Rollback(c, "error"), ~Rollback(c, "conflict")
        PROVE  Unwritten(c) /\ Alone(c)
    BY <1>6, <2>1 DEF Load, Index, Put, Goto, Unwritten, Untouched, Alone, TypeOK
  <2> QED BY <1>3, <2>1
<1>7. CASE \/ \E k \in Kinds, p \in Policy : Request(c, k, p)
           \/ \E k \in Kinds : RequestNew(c, k)
  BY <1>7 DEF Request, RequestNew, Unwritten, Untouched, Alone, TypeOK
<1> QED BY <1>2, <1>4, <1>5, <1>6, <1>7 DEF StepOf, Statement, Writes

\* Every step has one of the effects above.
LEMMA StepEffect ==
  ASSUME TypeOK, NEW c \in Client, StepOf(c)
  PROVE  RowEffect(c) /\ Alone(c)
<1>1. CASE Writes(c)
  <2>1. {rq[c].target} \in SUBSET Policy
    BY DEF TypeOK, RequestType
  <2>2. RowEffect(c)
    BY <1>1, <2>1, EraseEffect, DemoteEffect, UpdateEffect, InsertEffect, RollbackEffect
       DEF Writes, RowEffect, Unwritten
  <2>3. Alone(c)
    BY <1>1, RollbackEffect
       DEF Writes, Erase, DemoteRow, Update, Insert, Saved, Goto, Answer, Alone, TypeOK
  <2> QED BY <2>2, <2>3
<1> QED BY <1>1, QuietEffect DEF RowEffect

\* A row that was born stays known.
LEMMA RowsStayKnown ==
  ASSUME TypeOK, DraftsLive, NEW c \in Client, RowEffect(c),
         NEW p \in Policy, row[p].status # "unborn"
  PROVE  row'[p].status # "unborn"
<1>1. CASE Committed(c)
  BY <1>1 DEF Committed, DraftsLive, Live
<1>2. CASE \E q \in Policy : Born(q)
  BY <1>2 DEF Born, Live
<1> QED BY <1>1, <1>2 DEF RowEffect, Unwritten, Untouched, RolledBack, Wrote

\* What the request for a new policy leaves.
LEMMA AskNew ==
  ASSUME TypeOK, NEW c \in Client, NEW k \in Kinds, RequestNew(c, k)
  PROVE  /\ rq'[c].pc \in {"done", "new"} /\ (rq'[c].pc = "new" => rq'[c].reply = "none")
         /\ rq'[c].kind = k /\ k \in {"create", "default"}
<1> DEFINE skip == k = "default" /\ \E p \in Policy : Live(row[p])
           st == IF skip THEN "done" ELSE "new"
           a == IF skip THEN "skipped" ELSE "none"
           x == [rq[c] EXCEPT !.kind = k, !.pc = st, !.reply = a]
<1>1. rq' = [rq EXCEPT ![c] = x] /\ k \in {"create", "default"}
  BY DEF RequestNew
<1>2. x.pc = st /\ x.reply = a /\ x.kind = k
  <2> HIDE DEF st, a
  <2> QED BY DEF TypeOK, RequestType
<1>3. st \in {"done", "new"} /\ (st = "new" => a = "none")
  OBVIOUS
<1> HIDE DEF x, st, a
<1>4. rq'[c] = x
  BY <1>1 DEF TypeOK
<1> QED BY <1>1, <1>2, <1>3, <1>4

\* Where each stage leads.
LEMMA StagesOfStep ==
  ASSUME TypeOK, TypeOK', NEW c \in Client, StepOf(c), StageKinds, KnownTargets
  PROVE  /\ rq'[c].pc # "idle"
         /\ rq'[c].pc # "done" => rq'[c].reply = "none"
         /\ rq'[c].pc \in {"erase", "cascade"} => rq'[c].kind = "delete"
         /\ rq'[c].pc \in {"demote", "demoteRow"} => rq'[c].kind \in Activating
         /\ rq'[c].pc \in SaveStages => rq'[c].kind \in Activating \cup Named
         /\ rq'[c].pc \in {"scan", "cut", "put"} => rq'[c].kind \in {"rules", "clear", "both"}
         /\ rq'[c].pc = "new" => rq'[c].kind \in {"create", "default"}
         /\ rq'[c].pc \notin {"idle", "new", "done"} =>
              \/ row[rq'[c].target].status # "unborn"
              \/ row'[rq'[c].target].status # "unborn"
<1> USE DEF StageKinds, KnownTargets, SaveStages, Activating, Named
<1>1. ASSUME NEW a, rq' = Answer(c, a)
      PROVE  rq'[c].pc = "done"
  BY <1>1, AnswerEnds
<1>2. CASE rq'[c].pc = "done"
  BY <1>2
<1>3. ASSUME NEW s, Goto(c, s)
      PROVE  rq'[c] = [rq[c] EXCEPT !.pc = s] /\ rq[c] \in RequestType
  BY <1>3 DEF Goto, TypeOK
<1>4. ASSUME NEW s, Goto(c, s)
      PROVE  rq'[c].pc = s /\ rq'[c].kind = rq[c].kind /\ rq'[c].target = rq[c].target
             /\ rq'[c].reply = rq[c].reply
  <2> DEFINE r == rq[c]
  <2>1. rq'[c] = [r EXCEPT !.pc = s] /\ r \in RequestType
    BY <1>3, <1>4
  <2> HIDE DEF r
  <2>2. rq'[c].pc = s /\ rq'[c].kind = r.kind /\ rq'[c].target = r.target /\ rq'[c].reply = r.reply
    BY <2>1 DEF RequestType
  <2> QED BY <2>2 DEF r
<1>5. CASE Erase(c) /\ Goto(c, "cascade")
  BY <1>4, <1>5 DEF Erase, At
<1>6. CASE (Update(c) \/ Insert(c) \/ Index(c)) /\ \E s \in {"index", AfterSave(c)} : Goto(c, s)
  BY <1>4, <1>6 DEF Update, Insert, Index, At, AfterSave
<1>7. CASE Demote(c) \/ DemoteRow(c) \/ Select(c) \/ Scan(c) \/ Cut(c)
  BY <1>7 DEF Demote, DemoteRow, Select, Scan, Cut, At, AfterSave, TypeOK, RequestType
<1>8. CASE Load(c) \/ Put(c)
  BY <1>8, <1>1 DEF Load, Put, Rollback, At, TypeOK, RequestType
<1>9. CASE \E p \in Policy : Create(c, p)
  <2>1. PICK p \in Policy : Create(c, p)
    BY <1>9
  <2> DEFINE st == IF rq[c].kind = "default" THEN "demote" ELSE "done"
             a == IF rq[c].kind = "default" THEN "none" ELSE "ok"
             x == [rq[c] EXCEPT !.target = p, !.pc = st, !.reply = a]
  <2>2. rq' = [rq EXCEPT ![c] = x] /\ rq[c].pc = "new"
    BY <2>1 DEF Create, At
  <2>3. x.pc = st /\ x.reply = a /\ x.kind = rq[c].kind /\ x.target = p
    <3> HIDE DEF st, a
    <3> QED BY DEF TypeOK, RequestType
  <2>4. row'[p].status # "unborn"
    BY <2>1, CreateEffect DEF Born, Live
  <2> HIDE DEF x
  <2>5. rq'[c] = x
    BY <2>2 DEF TypeOK
  <2> QED BY <2>2, <2>3, <2>4, <2>5
<1>10. CASE \E k \in Kinds, p \in Policy : Request(c, k, p)
  BY <1>10, KindsAssumption DEF Request, FirstStatement, Live, TypeOK, RequestType
<1>11. CASE \E k \in Kinds : RequestNew(c, k)
  BY <1>11, AskNew
<1>12. ASSUME Erase(c) PROVE Goto(c, "cascade") \/ rq'[c].pc = "done"
  BY <1>12, <1>1 DEF Erase
<1>13. ASSUME Update(c) \/ Insert(c) \/ Index(c)
       PROVE  (\E s \in {"index", AfterSave(c)} : Goto(c, s)) \/ rq'[c].pc = "done"
  BY <1>13, <1>1 DEF Update, Insert, Index, Saved, Rollback
<1>14. ASSUME Cascade(c) \/ Full(c) \/ Victim(c) \/ Fail(c) PROVE rq'[c].pc = "done"
  BY <1>14, <1>1 DEF Cascade, Full, Victim, Fail, Rollback, CommitTo
<1> QED BY <1>2, <1>5, <1>6, <1>7, <1>8, <1>9, <1>10, <1>11, <1>12, <1>13, <1>14 DEF StepOf, Statement

\* Every step keeps the kind of request at each stage, and targets that were known.
LEMMA StagesStay ==
  ASSUME TypeOK, TypeOK', DraftsLive, StageKinds, KnownTargets, NEW c \in Client, StepOf(c)
  PROVE  StageKinds' /\ KnownTargets'
<1>1. RowEffect(c) /\ Alone(c)
  BY StepEffect
<1>2. \A p \in Policy : row[p].status # "unborn" => row'[p].status # "unborn"
  BY <1>1, RowsStayKnown
<1>3. \A d \in Client : rq[d].target \in Policy /\ rq'[d].target \in Policy
  BY DEF TypeOK, RequestType
<1>4. StageKinds'
  BY <1>1, StagesOfStep DEF StageKinds, Alone
<1>5. KnownTargets'
  BY <1>1, <1>2, <1>3, StagesOfStep DEF KnownTargets, Alone
<1> QED BY <1>4, <1>5
-----------------------------------------------------------------------------
\* Activations, client by client and row by row.
ActsWell(c) ==
  LET p == rq[c].target IN
  /\ rq[c].pc \in {"select", "update", "insert"} => rq[c].ent.name = row[p].name /\ rq[c].ent.active
  /\ rq[c].pc = "update" => rq[c].cols = {"active"}
  /\ rq[c].pc = "index" => lock[p] = c
  /\ rq[c].kind \in Activating /\ rq[c].pc \in {"index", "full"} /\ lock[p] = c => Active(draft[p])
  /\ rq[c].kind \in Activating /\ rq[c].pc = "full" /\ lock[p] # c =>
       \A q \in Policy : lock[q] = c /\ Active(row[q]) => ~Live(row[p])

RowWell(p) ==
  /\ draft[p].name = row[p].name
  /\ lock[p] \in Client /\ Live(draft[p]) /\ ~Live(row[p]) => Active(draft[p])

\* The invariant of the activations, by request and by policy.
LEMMA ActivationsPart ==
  Activations <=> (\A c \in Client : ActsWell(c)) /\ (\A p \in Policy : RowWell(p))
BY DEF Activations, ActsWell, RowWell, NamesStay, EntActive, SavedActive, ReturnsActive, EmptyHanded

\* The same, after a step.
LEMMA ActivationsPartNext ==
  Activations' <=> (\A c \in Client : ActsWell(c)') /\ (\A p \in Policy : RowWell(p)')
BY DEF Activations, ActsWell, RowWell, NamesStay, EntActive, SavedActive, ReturnsActive, EmptyHanded,
       Active, Live

\* What another client's step leaves of d's activation.
LEMMA OthersActWell ==
  ASSUME IInv, KnownTargets, \A p \in Policy : RowWell(p),
         NEW c \in Client, RowEffect(c), NEW d \in Client, d # c, rq'[d] = rq[d], ActsWell(d)
  PROVE  ActsWell(d)'
<1> DEFINE p == rq[d].target
<1>1. p \in Policy /\ p = rq'[d].target /\ d # NoClient
  BY NoClientAssumption DEF IInv, TypeOK, RequestType
<1>2. rq[d].pc \in {"select", "update", "insert", "index", "full"} => row[p].status # "unborn"
  BY DEF KnownTargets
<1> HIDE DEF p
<1>3. \A q \in Policy : lock'[q] = d <=> lock[q] = d
  BY <1>1, NoClientAssumption DEF RowEffect, Unwritten, Untouched, Committed, RolledBack, Wrote, Born
<1>4. ASSUME NEW q \in Policy, row[q].status # "unborn"
      PROVE  row'[q].name = row[q].name /\ (lock[q] = d => draft'[q] = draft[q])
  BY <1>1, <1>3, <1>4, NoClientAssumption
     DEF RowEffect, Unwritten, Untouched, Committed, RolledBack, Wrote, Born, RowWell
<1>5. ASSUME NEW q \in Policy, lock[q] = d, Active(row'[q])
      PROVE  Active(row[q])
  BY <1>1, <1>5, NoClientAssumption
     DEF RowEffect, Unwritten, Untouched, Committed, RolledBack, Wrote, Born, Active
<1>6. ASSUME NEW q \in Policy, lock[q] = d, Active(row[q]), ~Live(row[p]), row[p].status # "unborn"
      PROVE  ~Live(row'[p])
  <2>1. CASE Committed(c)
    <3>1. SUFFICES ASSUME lock[p] = c, Live(draft[p]) PROVE FALSE
      BY <1>1, <1>6, <2>1 DEF Committed
    <3>2. Active(draft[p])
      BY <1>1, <1>6, <3>1 DEF RowWell
    <3>3. Indexed(p)
      BY <2>1, <3>1, <3>2 DEF Indexed, Committed
    <3> QED BY <1>1, <1>6, <3>1, <3>3 DEF IInv, LockDiscipline, Succession
  <2>2. CASE ~Committed(c)
    BY <1>1, <1>6, <2>2 DEF RowEffect, Unwritten, Untouched, RolledBack, Wrote, Born
  <2> QED BY <2>1, <2>2
<1>7. /\ rq'[d].pc \in {"select", "update", "insert"} => rq'[d].ent.name = row'[p].name /\ rq'[d].ent.active
      /\ rq'[d].pc = "update" => rq'[d].cols = {"active"}
      /\ rq'[d].pc = "index" => lock'[p] = d
  BY <1>1, <1>2, <1>3, <1>4 DEF ActsWell, p
<1>8. rq'[d].kind \in Activating /\ rq'[d].pc \in {"index", "full"} /\ lock'[p] = d => Active(draft'[p])
  BY <1>1, <1>2, <1>3, <1>4 DEF ActsWell, p
<1>9. rq'[d].kind \in Activating /\ rq'[d].pc = "full" /\ lock'[p] # d =>
        \A q \in Policy : lock'[q] = d /\ Active(row'[q]) => ~Live(row'[p])
  BY <1>1, <1>2, <1>3, <1>5, <1>6 DEF ActsWell, p
<1> QED BY <1>1, <1>7, <1>8, <1>9 DEF ActsWell, Active, Live

\* What a step of c writes to a row while nobody renames.
WroteWell(c, P) ==
  /\ Wrote(c, P)
  /\ \A q \in P : /\ draft'[q].name = row[q].name
                  /\ Live(draft'[q]) /\ ~Live(row[q]) => Active(draft'[q])

\* While nobody renames, a write keeps the names, and brings a row back only as an active one.
LEMMA WritesWell ==
  ASSUME IInv, RulesInv, StageKinds, NoRenames, \A d \in Client : ActsWell(d),
         \A q \in Policy : RowWell(q), NEW c \in Client, Writes(c)
  PROVE  Unwritten(c) \/ \E P \in SUBSET Policy : WroteWell(c, P)
<1> DEFINE t == rq[c].target
<1>1. t \in Policy /\ TypeOK
  BY DEF IInv, TypeOK, RequestType
<1>2. ActsWell(c) /\ RowWell(t)
  BY <1>1
<1>3. {t} \in SUBSET Policy
  BY <1>1
<1>4. CASE Erase(c)
  BY <1>1, <1>3, <1>4, EraseEffect DEF WroteWell, Unwritten
<1>5. CASE DemoteRow(c)
  BY <1>1, <1>5, DemoteEffect DEF WroteWell
<1>6. CASE Update(c)
  <2>1. rq[c].pc = "update"
    BY <1>6 DEF Update, At
  <2>2. rq[c].cols = {"active"} /\ rq[c].ent.active
    BY <1>2, <2>1 DEF ActsWell
  <2>3. Untouched \/ (Wrote(c, {t}) /\ Live(draft'[t]) /\ draft'[t].active
                      /\ draft'[t].name = Seen(c, t).name)
    BY <1>1, <1>6, <2>2, UpdateEffect
  <2>4. Seen(c, t).name = row[t].name
    BY <1>1, <1>2 DEF Seen, RowWell
  <2>5. Untouched \/ WroteWell(c, {t})
    BY <2>3, <2>4 DEF WroteWell, Active
  <2> QED BY <1>3, <2>5 DEF Unwritten
<1>7. CASE Insert(c)
  <2>1. rq[c].pc = "insert"
    BY <1>7 DEF Insert, At
  <2>2. rq[c].ent.name = row[t].name /\ rq[c].ent.active
    BY <1>2, <2>1 DEF ActsWell
  <2>3. Unwritten(c) \/ (Wrote(c, {t}) /\ draft'[t] = rq[c].ent)
    BY <1>1, <1>7, InsertEffect, RollbackEffect DEF Unwritten
  <2>4. Unwritten(c) \/ WroteWell(c, {t})
    BY <2>2, <2>3 DEF WroteWell, Active
  <2> QED BY <1>3, <2>4
<1> QED BY <1>4, <1>5, <1>6, <1>7 DEF Writes

\* A step keeps what the activations need of each row.
LEMMA RowsActWell ==
  ASSUME IInv, RulesInv, StageKinds, NoRenames, \A d \in Client : ActsWell(d),
         \A q \in Policy : RowWell(q), NEW c \in Client, StepOf(c), NEW p \in Policy
  PROVE  RowWell(p)'
<1>1. Unwritten(c) \/ \E P \in SUBSET Policy : WroteWell(c, P)
  BY WritesWell, QuietEffect DEF IInv
<1>2. RowWell(p)
  OBVIOUS
<1> SUFFICES /\ draft'[p].name = row'[p].name
             /\ lock'[p] \in Client /\ Live(draft'[p]) /\ ~Live(row'[p]) => Active(draft'[p])
  BY DEF RowWell, Active, Live
<1>3. CASE Unwritten(c)
  BY <1>2, <1>3, NoClientAssumption
     DEF Unwritten, Untouched, Committed, RolledBack, Born, RowWell, IInv, LockDiscipline, FreeDraft
<1>4. CASE \E P \in SUBSET Policy : WroteWell(c, P)
  BY <1>2, <1>4 DEF WroteWell, Wrote, RowWell
<1> QED BY <1>1, <1>3, <1>4

\* What c's own statement leaves of its activation.
LEMMA GoesTo ==
  ASSUME TypeOK, NEW c \in Client, NEW s, Goto(c, s)
  PROVE  /\ rq'[c].pc = s /\ rq'[c].kind = rq[c].kind /\ rq'[c].target = rq[c].target
         /\ rq'[c].ent = rq[c].ent /\ rq'[c].cols = rq[c].cols /\ rq'[c].reply = rq[c].reply
         /\ rq'[c].cut = rq[c].cut /\ rq'[c].put = rq[c].put /\ rq'[c].old = rq[c].old
<1> DEFINE r == rq[c]
<1>1. rq'[c] = [r EXCEPT !.pc = s] /\ r \in RequestType
  BY DEF Goto, TypeOK
<1> HIDE DEF r
<1>2. /\ rq'[c].pc = s /\ rq'[c].kind = r.kind /\ rq'[c].target = r.target
      /\ rq'[c].ent = r.ent /\ rq'[c].cols = r.cols /\ rq'[c].reply = r.reply
      /\ rq'[c].cut = r.cut /\ rq'[c].put = r.put /\ rq'[c].old = r.old
  BY <1>1 DEF RequestType
<1> QED BY <1>2 DEF r

\* A request that is not saving promises nothing to the activations.
LEMMA OverActsWell ==
  ASSUME NEW c \in Client, \/ rq'[c].pc \notin {"select", "update", "insert", "index", "full"}
                           \/ rq'[c].pc = "full" /\ rq'[c].kind \notin Activating
  PROVE  ActsWell(c)'
BY DEF ActsWell, Active, Live

\* Loading the row keeps what its request promises.
LEMMA LoadActsWell ==
  ASSUME TypeOK, StageKinds, NoRenames, NEW c \in Client, Load(c), RowWell(rq[c].target)
  PROVE  ActsWell(c)'
<1> DEFINE p == rq[c].target
           v == Seen(c, p)
           e == IF rq[c].kind \in Named THEN [v EXCEPT !.name = c] ELSE [v EXCEPT !.active = TRUE]
<1>1. rq[c].pc = "load" /\ p \in Policy /\ v \in Row
  BY DEF Load, At, TypeOK, RequestType, Seen
<1>2. CASE Rollback(c, "error")
  BY <1>2, AnswerEnds, OverActsWell DEF Rollback
<1>3. CASE /\ rq' = [rq EXCEPT ![c].pc = "select", ![c].ent = e]
           /\ UNCHANGED <<row, draft, lock, rules>>
  <2>1. rq[c].kind \notin Named
    BY DEF NoRenames
  <2>2. e.name = v.name /\ e.active
    <3> HIDE DEF v
    <3> QED BY <1>1, <2>1 DEF Row
  <2>3. v.name = row[p].name
    BY <1>1 DEF Seen, RowWell
  <2> DEFINE x == [rq[c] EXCEPT !.pc = "select", !.ent = e]
  <2>4. x.pc = "select" /\ x.ent = e /\ x.target = p
    <3> HIDE DEF e
    <3> QED BY DEF TypeOK, RequestType
  <2>5. rq' = [rq EXCEPT ![c] = x]
    BY <1>3
  <2> HIDE DEF x, e
  <2>6. rq'[c] = x
    BY <2>5 DEF TypeOK
  <2>7. rq'[c].pc = "select" /\ rq'[c].ent.name = row'[rq'[c].target].name /\ rq'[c].ent.active
    BY <1>3, <2>2, <2>3, <2>4, <2>6
  <2> QED BY <2>7 DEF ActsWell, Active, Live
<1> QED BY <1>2, <1>3 DEF Load

\* The SELECT of save() keeps what its request promises.
LEMMA SelectActsWell ==
  ASSUME IInv, StageKinds, NoRenames, NEW c \in Client, Select(c), RowWell(rq[c].target), ActsWell(c)
  PROVE  ActsWell(c)'
<1> DEFINE p == rq[c].target
           v == Seen(c, p)
           diff == {f \in {"active", "name"} : rq[c].ent[f] # v[f]}
           st == IF ~Live(v) THEN "insert" ELSE IF diff = {} THEN AfterSave(c) ELSE "update"
           cs == IF Live(v) THEN diff ELSE {}
           x == [rq[c] EXCEPT !.cols = cs, !.pc = st]
<1>1. /\ rq[c].pc = "select" /\ rq' = [rq EXCEPT ![c] = x]
      /\ UNCHANGED <<row, draft, lock, rules>>
  BY DEF Select, At
<1>2. TypeOK /\ p \in Policy /\ v \in Row /\ rq[c].ent \in Row
  BY DEF IInv, TypeOK, RequestType, Seen
<1>3. rq[c].ent.name = row[p].name /\ rq[c].ent.active
  BY <1>1 DEF ActsWell
<1>4. v.name = row[p].name
  BY <1>2 DEF Seen, RowWell
<1>5. diff = IF v.active THEN {} ELSE {"active"}
  <2> HIDE DEF v
  <2> QED BY <1>2, <1>3, <1>4 DEF Row
<1>6. rq[c].kind \in Activating /\ AfterSave(c) = "full"
  BY <1>1 DEF StageKinds, NoRenames, SaveStages, AfterSave, Named
<1>7. /\ x.pc = st /\ x.cols = cs /\ x.ent = rq[c].ent /\ x.target = p /\ x.kind = rq[c].kind
  <2> HIDE DEF st, cs
  <2> QED BY <1>2 DEF TypeOK, RequestType
<1>8. st = "update" => cs = {"active"}
  <2> HIDE DEF v
  <2> QED BY <1>5, <1>6
<1>9. st = "full" => Active(v)
  <2> HIDE DEF v
  <2> QED BY <1>5 DEF Active
<1>10. st \in {"insert", "update", "full"}
  <2> HIDE DEF v
  <2> QED BY <1>6
<1> HIDE DEF x, st, cs
<1>11. rq'[c] = x
  BY <1>1, <1>2 DEF TypeOK
<1>12. lock[p] # c /\ st = "full" => \A q \in Policy : lock[q] = c /\ Active(row[q]) => ~Live(row[p])
  BY <1>2, <1>9 DEF Seen, IInv, LockDiscipline, AtMostOneActive, ActiveOnes
<1>13. lock[p] = c /\ st = "full" => Active(draft[p])
  BY <1>9 DEF Seen
<1> HIDE DEF diff, v
<1>14. /\ rq'[c].pc \in {"select", "update", "insert"} =>
            rq'[c].ent.name = row'[rq'[c].target].name /\ rq'[c].ent.active
       /\ rq'[c].pc = "update" => rq'[c].cols = {"active"}
       /\ rq'[c].pc # "index"
       /\ rq'[c].pc = "full" => /\ lock'[rq'[c].target] = c => Active(draft'[rq'[c].target])
                                /\ lock'[rq'[c].target] # c =>
                                     \A q \in Policy : lock'[q] = c /\ Active(row'[q]) =>
                                       ~Live(row'[rq'[c].target])
  BY <1>1, <1>3, <1>7, <1>8, <1>10, <1>11, <1>12, <1>13
<1> QED BY <1>14 DEF ActsWell, Active, Live

\* The UPDATE or INSERT of save() keeps what its request promises.
LEMMA SaveActsWell ==
  ASSUME IInv, RulesInv, StageKinds, NoRenames, NEW c \in Client, Update(c) \/ Insert(c),
         RowWell(rq[c].target), ActsWell(c)
  PROVE  ActsWell(c)'
<1> DEFINE p == rq[c].target
<1>1. TypeOK /\ p \in Policy /\ rq[c].ent \in Row /\ rq[c].pc \in {"update", "insert"}
  BY DEF IInv, TypeOK, RequestType, Update, Insert, At
<1>2. rq[c].ent.active /\ (rq[c].pc = "update" => rq[c].cols = {"active"}) /\ Live(rq[c].ent)
  BY <1>1 DEF ActsWell, RulesInv, EntitiesLive
<1>3. rq[c].kind \in Activating /\ AfterSave(c) = "full"
  BY <1>1 DEF StageKinds, NoRenames, SaveStages, AfterSave, Named
<1>4. CASE Rollback(c, "conflict")
  BY <1>1, <1>4, AnswerEnds, OverActsWell DEF Rollback
<1>5. CASE Wrote(c, {p}) /\ Active(draft'[p]) /\ Goto(c, "index")
  <2>1. lock'[p] = c
    BY <1>5 DEF Wrote
  <2>2. rq'[c].pc = "index" /\ rq'[c].target = p
    BY <1>1, <1>5, GoesTo
  <2> QED BY <1>5, <2>1, <2>2 DEF ActsWell, Active, Live
<1>6. CASE Untouched /\ ~Live(Seen(c, p)) /\ Goto(c, "full")
  <2>1. lock[p] # c
    BY <1>1, <1>6 DEF Seen, RulesInv, DraftsLive
  <2>2. rq'[c].pc = "full" /\ rq'[c].target = p
    BY <1>1, <1>6, GoesTo
  <2> QED BY <1>6, <2>1, <2>2 DEF ActsWell, Active, Live, Untouched, Seen
<1>7. CASE Update(c)
  <2>1. rq[c].pc = "update"
    BY <1>7 DEF Update, At
  <2>2. \/ Untouched /\ ~Live(Seen(c, p)) /\ Goto(c, "full")
        \/ Wrote(c, {p}) /\ Active(draft'[p]) /\ Goto(c, "index")
    BY <1>1, <1>2, <1>3, <1>7, <2>1, UpdateEffect DEF Active
  <2> QED BY <1>5, <1>6, <2>2
<1>8. CASE Insert(c)
  <2>1. \/ Rollback(c, "conflict")
        \/ Wrote(c, {p}) /\ Active(draft'[p]) /\ Goto(c, "index")
    BY <1>1, <1>2, <1>8, InsertEffect DEF Active
  <2> QED BY <1>4, <1>5, <2>1
<1> QED BY <1>7, <1>8

\* The check of the partial unique index keeps what its request promises.
LEMMA IndexActsWell ==
  ASSUME TypeOK, StageKinds, NoRenames, NEW c \in Client, Index(c), ActsWell(c)
  PROVE  ActsWell(c)'
<1>1. rq[c].pc = "index"
  BY DEF Index, At
<1>2. rq[c].kind \in Activating /\ AfterSave(c) = "full"
  BY <1>1 DEF StageKinds, NoRenames, SaveStages, AfterSave, Named
<1>3. CASE Rollback(c, "conflict")
  BY <1>3, AnswerEnds, OverActsWell DEF Rollback
<1>4. CASE Goto(c, "full") /\ UNCHANGED <<row, draft, lock, rules>>
  <2>1. rq'[c].pc = "full" /\ rq'[c].target = rq[c].target
    BY <1>4, GoesTo
  <2>2. lock[rq[c].target] = c /\ Active(draft[rq[c].target])
    BY <1>1, <1>2 DEF ActsWell
  <2> QED BY <1>4, <2>1, <2>2 DEF ActsWell, Active, Live
<1> QED BY <1>2, <1>3, <1>4 DEF Index

\* Every step of a request keeps what that request promises.
LEMMA OwnActsWell ==
  ASSUME IInv, TypeOK', RulesInv, StageKinds, StageKinds', NoRenames, NoRenames', NEW c \in Client,
         StepOf(c), RowWell(rq[c].target), ActsWell(c)
  PROVE  ActsWell(c)'
<1>1. TypeOK
  BY DEF IInv
<1>2. CASE Load(c) \/ Select(c) \/ Update(c) \/ Insert(c) \/ Index(c)
  BY <1>1, <1>2, LoadActsWell, SelectActsWell, SaveActsWell, IndexActsWell
<1>3. ASSUME NEW a, rq' = Answer(c, a)
      PROVE  ActsWell(c)'
  BY <1>1, <1>3, AnswerEnds, OverActsWell
<1>4. CASE Cascade(c) \/ Full(c) \/ Victim(c) \/ Fail(c)
  BY <1>3, <1>4 DEF Cascade, Full, Victim, Fail, CommitTo, Rollback
<1>5. CASE Erase(c)
  BY <1>1, <1>3, <1>5, GoesTo, OverActsWell DEF Erase
<1>6. CASE Demote(c) \/ DemoteRow(c) \/ Scan(c)
  BY <1>1, <1>6, OverActsWell DEF Demote, DemoteRow, Scan, TypeOK, RequestType
<1>7. CASE Cut(c) \/ Put(c)
  <2>1. rq[c].kind \notin Activating
    BY <1>7 DEF Cut, Put, At, StageKinds, Activating
  <2>2. rq' = Answer(c, "error") \/ (rq'[c].pc \in {"full", "put"} /\ rq'[c].kind = rq[c].kind)
    BY <1>1, <1>7 DEF Cut, Put, Rollback, TypeOK, RequestType
  <2> QED BY <1>3, <2>1, <2>2, OverActsWell
<1>8. CASE \E p \in Policy : Create(c, p)
  BY <1>1, <1>8, OverActsWell DEF Create, TypeOK, RequestType
<1>9. CASE \E k \in Kinds, p \in Policy : Request(c, k, p)
  BY <1>1, <1>9, OverActsWell, KindsAssumption DEF Request, FirstStatement, TypeOK, RequestType, Named
<1>10. CASE \E k \in Kinds : RequestNew(c, k)
  <2>1. rq'[c].pc \in {"done", "new"}
    BY <1>1, <1>10, AskNew
  <2> QED BY <2>1, OverActsWell
<1> QED BY <1>2, <1>4, <1>5, <1>6, <1>7, <1>8, <1>9, <1>10 DEF StepOf, Statement
-----------------------------------------------------------------------------
\* The kind of a request is chosen once.
LEMMA KindsFixed ==
  ASSUME TypeOK, NEW c \in Client, StepOf(c)
  PROVE  rq'[c].kind = rq[c].kind \/ rq[c].pc = "idle"
<1>1. ASSUME NEW a, rq' = Answer(c, a)
      PROVE  rq'[c].kind = rq[c].kind
  BY <1>1, AnswerEnds
<1>2. ASSUME NEW st, Goto(c, st)
      PROVE  rq'[c].kind = rq[c].kind
  BY <1>2, GoesTo
<1>3. CASE Cascade(c) \/ Full(c) \/ Victim(c) \/ Fail(c)
  BY <1>1, <1>3 DEF Cascade, Full, Victim, Fail, CommitTo, Rollback
<1>4. CASE Erase(c) \/ Update(c) \/ Insert(c) \/ Index(c)
  BY <1>1, <1>2, <1>4 DEF Erase, Update, Insert, Index, Rollback, Saved
<1>5. CASE Demote(c) \/ DemoteRow(c) \/ Select(c) \/ Scan(c) \/ Cut(c)
  BY <1>5 DEF Demote, DemoteRow, Select, Scan, Cut, TypeOK, RequestType
<1>6. CASE Load(c) \/ Put(c)
  BY <1>1, <1>6 DEF Load, Put, Rollback, TypeOK, RequestType
<1>7. CASE \E p \in Policy : Create(c, p)
  BY <1>7 DEF Create, TypeOK, RequestType
<1>8. CASE \/ \E k \in Kinds, p \in Policy : Request(c, k, p)
           \/ \E k \in Kinds : RequestNew(c, k)
  BY <1>8 DEF Request, RequestNew
<1> QED BY <1>3, <1>4, <1>5, <1>6, <1>7, <1>8 DEF StepOf, Statement

\* Before it is issued a request has no kind.
LEMMA StepKinds ==
  ASSUME IInv, RulesInv, ActInv, NEW c \in Client, StepOf(c), NoRenames'
  PROVE  NoRenames
<1>1. Alone(c) /\ (rq'[c].kind = rq[c].kind \/ rq[c].kind = "none")
  BY StepEffect, KindsFixed DEF IInv, ActInv, StageKinds
<1> QED BY <1>1 DEF NoRenames, Alone, Named

\* Every step keeps the invariant of the activations.
LEMMA ActivationsStay ==
  ASSUME IInv, IInv', RulesInv, ActInv, NEW c \in Client, StepOf(c)
  PROVE  ActInv'
<1>1. StageKinds' /\ KnownTargets'
  BY StagesStay DEF IInv, RulesInv, ActInv
<1>2. ASSUME NoRenames'
      PROVE  Activations'
  <2>1. NoRenames
    BY <1>2, StepKinds
  <2>2. (\A d \in Client : ActsWell(d)) /\ (\A p \in Policy : RowWell(p))
    BY <2>1, ActivationsPart DEF ActInv
  <2>3. RowEffect(c) /\ Alone(c)
    BY StepEffect DEF IInv
  <2>4. \A p \in Policy : RowWell(p)'
    BY <2>1, <2>2, RowsActWell DEF ActInv
  <2>5. rq[c].target \in Policy
    BY DEF IInv, TypeOK, RequestType
  <2>6. ActsWell(c)'
    BY <1>1, <1>2, <2>1, <2>2, <2>5, OwnActsWell DEF ActInv, IInv
  <2>7. ASSUME NEW d \in Client, d # c
        PROVE  ActsWell(d)'
    BY <2>2, <2>3, <2>7, OthersActWell DEF ActInv, Alone
  <2> QED BY <2>4, <2>6, <2>7, ActivationsPartNext
<1> QED BY <1>1, <1>2 DEF ActInv

\* The invariant of the activations holds at the start.
LEMMA ActStarts == Init => ActInv
<1> SUFFICES ASSUME Init PROVE ActInv
  OBVIOUS
<1>1. \A c \in Client : rq[c].pc = "idle" /\ rq[c].kind = "none" /\ rq[c].reply = "none"
  BY DEF Init, Idle
<1>2. \A p \in Policy : draft[p] = row[p] /\ lock[p] = NoClient
  BY DEF Init
<1>3. StageKinds /\ KnownTargets
  BY <1>1 DEF StageKinds, KnownTargets, SaveStages
<1>4. Activations
  BY <1>1, <1>2, NoClientAssumption
     DEF Activations, NamesStay, EntActive, SavedActive, ReturnsActive, EmptyHanded, Activating
<1> QED BY <1>3, <1>4 DEF ActInv

\* All invariants of the policies together.
LEMMA AllInvariants == Spec => [](IInv /\ RulesInv /\ ActInv)
<1>1. Init => IInv /\ RulesInv /\ ActInv
  BY Initially, RulesStart, ActStarts
<1>2. IInv /\ RulesInv /\ ActInv /\ [Next]_vars => (IInv /\ RulesInv /\ ActInv)'
  <2> SUFFICES ASSUME IInv, RulesInv, ActInv, [Next]_vars
               PROVE  (IInv /\ RulesInv /\ ActInv)'
    OBVIOUS
  <2>1. IInv' /\ RulesInv'
    BY Inductive, RulesStay
  <2>2. CASE UNCHANGED vars
    <3>1. UNCHANGED row /\ UNCHANGED draft /\ UNCHANGED lock /\ UNCHANGED rq
      BY <2>2 DEF vars
    <3>2. StageKinds' /\ KnownTargets'
      BY <3>1 DEF ActInv, StageKinds, KnownTargets
    <3>3. NoRenames' => NoRenames
      BY <3>1 DEF NoRenames
    <3>4. NamesStay /\ EntActive => NamesStay' /\ EntActive'
      BY <3>1 DEF NamesStay, EntActive
    <3>5. SavedActive => SavedActive'
      BY <3>1 DEF SavedActive, Active, Live
    <3>6. ReturnsActive => ReturnsActive'
      BY <3>1 DEF ReturnsActive, Active, Live
    <3>7. EmptyHanded => EmptyHanded'
      BY <3>1 DEF EmptyHanded, Active, Live
    <3> QED BY <2>1, <3>2, <3>3, <3>4, <3>5, <3>6, <3>7 DEF ActInv, Activations
  <2>3. CASE Next
    <3>1. PICK c \in Client : StepOf(c)
      BY <2>3 DEF Next, StepOf
    <3> QED BY <2>1, <3>1, ActivationsStay
  <2> QED BY <2>1, <2>2, <2>3
<1> QED BY <1>1, <1>2, PTL DEF Spec

\* Only the last statement of these requests answers that it has succeeded.
LEMMA OkByFull ==
  ASSUME TypeOK, TypeOK', StageKinds, KnownTargets, NEW c \in Client, StepOf(c),
         rq[c].kind \in {"activate", "default", "both"}, rq'[c].reply = "ok", rq[c].pc # "done"
  PROVE  Full(c) /\ Live(Seen(c, rq[c].target)) /\ CommitTo(c, Answer(c, "ok"))
<1>1. rq'[c].pc = "done"
  BY StagesOfStep
<1>2. ASSUME NEW a, a # "ok", rq' = Answer(c, a)
      PROVE  FALSE
  BY <1>2, AnswerEnds
<1>3. ASSUME NEW st, Goto(c, st), st # "done"
      PROVE  FALSE
  BY <1>1, <1>3, GoesTo
<1>4. ~Erase(c) /\ ~Cascade(c)
  BY DEF Erase, Cascade, At, StageKinds, Activating
<1>5. ~Update(c) /\ ~Insert(c) /\ ~Index(c)
  BY <1>2, <1>3 DEF Update, Insert, Index, Saved, AfterSave, Rollback
<1>6. ~Demote(c) /\ ~DemoteRow(c) /\ ~Select(c) /\ ~Scan(c) /\ ~Cut(c)
  BY <1>1 DEF Demote, DemoteRow, Select, Scan, Cut, AfterSave, TypeOK, RequestType
<1>7. ~Load(c) /\ ~Put(c)
  BY <1>1, <1>2 DEF Load, Put, Rollback, TypeOK, RequestType
<1>8. ~Victim(c) /\ ~Fail(c)
  BY <1>2 DEF Victim, Fail, Rollback
<1>9. \A q \in Policy : ~Create(c, q)
  <2> SUFFICES ASSUME NEW q \in Policy, Create(c, q) PROVE FALSE
    OBVIOUS
  <2>1. rq[c].kind = "default"
    BY DEF Create, At, StageKinds, Activating
  <2>2. rq' = [rq EXCEPT ![c].target = q, ![c].pc = "demote", ![c].reply = "none"]
    BY <2>1 DEF Create
  <2> QED BY <1>1, <2>2 DEF TypeOK, RequestType
<1>10. /\ \A k \in Kinds, q \in Policy : ~Request(c, k, q)
       /\ \A k \in Kinds : ~RequestNew(c, k)
  BY DEF Request, RequestNew, StageKinds, Activating
<1>11. Full(c)
  BY <1>4, <1>5, <1>6, <1>7, <1>8, <1>9, <1>10 DEF StepOf, Statement
<1>12. Live(Seen(c, rq[c].target)) /\ CommitTo(c, Answer(c, "ok"))
  BY <1>2, <1>11 DEF Full, Rollback
<1> QED BY <1>11, <1>12

\* An activation that has locked its policy makes it the active one; one that has not
\* leaves what was active.
LEMMA ActivationStep ==
  ASSUME IInv, IInv', RulesInv, ActInv, NoRenames, NEW c \in Client, StepOf(c),
         Succeeds(c, {"activate", "default"})
  PROVE  /\ ActiveOnes # {} => ActiveOnes' # {}
         /\ lock[rq[c].target] = c => rq[c].target \in ActiveOnes'
<1> DEFINE p == rq[c].target
<1>1. p \in Policy /\ TypeOK /\ ActsWell(c)
  BY ActivationsPart DEF ActInv, IInv, TypeOK, RequestType
<1>2. Full(c) /\ Live(Seen(c, p)) /\ Committed(c)
  <2>1. rq[c].kind \in {"activate", "default"} /\ rq'[c].reply = "ok" /\ rq[c].pc # "done"
    BY DEF Succeeds
  <2>2. TypeOK' /\ StageKinds /\ KnownTargets
    BY DEF IInv, ActInv
  <2>3. Full(c) /\ Live(Seen(c, p)) /\ CommitTo(c, Answer(c, "ok"))
    BY <1>1, <2>1, <2>2, OkByFull
  <2> QED BY <1>1, <2>3, CommitEffect DEF Full, At
<1>3. rq[c].pc = "full" /\ rq[c].kind \in Activating
  BY <1>2 DEF Full, At, Succeeds, Activating
<1>4. CASE lock[p] = c
  <2>1. Active(draft[p]) /\ row'[p] = draft[p]
    BY <1>1, <1>2, <1>3, <1>4 DEF ActsWell, Committed
  <2> QED BY <1>1, <2>1 DEF ActiveOnes, Active, Live
<1>5. CASE lock[p] # c
  <2>1. Live(row[p])
    BY <1>2, <1>5 DEF Seen
  <2>2. \A q \in Policy : Active(row[q]) => lock[q] # c
    BY <1>1, <1>3, <1>5, <2>1 DEF ActsWell
  <2>3. \A q \in Policy : Active(row[q]) => row'[q] = row[q]
    BY <1>2, <2>2 DEF Committed
  <2> QED BY <1>5, <2>3 DEF ActiveOnes, Active, Live
<1> QED BY <1>4, <1>5

\* As long as nobody renames a policy, an activation never leaves a repository
\* without an active policy, and makes its own active when it had to change it.
THEOREM ActivationLeavesOneActive == Spec => ActivationNeverEmpties
<1> DEFINE kept ==
      (\A d \in Client : rq[d].kind \notin Named) =>
       \A c \in Client : Succeeds(c, {"activate", "default"}) =>
         /\ ActiveOnes # {} => ActiveOnes' # {}
         /\ lock[rq[c].target] = c => rq[c].target \in ActiveOnes'
<1>1. IInv /\ RulesInv /\ ActInv /\ [Next]_vars => [kept]_vars
  <2> SUFFICES ASSUME IInv, RulesInv, ActInv, Next, NoRenames,
                      NEW c \in Client, Succeeds(c, {"activate", "default"})
               PROVE  /\ ActiveOnes # {} => ActiveOnes' # {}
                      /\ lock[rq[c].target] = c => rq[c].target \in ActiveOnes'
    BY DEF NoRenames
  <2>1. IInv'
    BY Inductive
  <2>2. PICK d \in Client : StepOf(d)
    BY DEF Next, StepOf
  <2>3. Alone(d)
    BY <2>2, StepEffect DEF IInv
  <2>4. rq[c].reply # "ok"
    BY DEF ActInv, StageKinds, Succeeds
  <2>5. d = c
    BY <2>3, <2>4 DEF Alone, Succeeds
  <2> QED BY <2>1, <2>2, <2>5, ActivationStep
<1> QED BY <1>1, AllInvariants, PTL DEF Spec, ActivationNeverEmpties
-----------------------------------------------------------------------------
\* Updates, client by client.
UpdatesWell(c) ==
  LET t == rq[c].target IN
  /\ rq[c].pc # "insert"
  /\ rq[c].kind = "both" =>
       /\ rq[c].pc \in {"load", "select", "update"} => \A p \in Policy : lock[p] # c
       /\ rq[c].pc \in {"select", "update"} => rq[c].ent.name = c
       /\ rq[c].pc \in {"index", "scan", "cut", "put", "full"} => lock[t] = c
  /\ rq[c].cut # {} \/ rq[c].put => rq[c].kind = "both" /\ rq[c].pc \in {"put", "full"}
  /\ rq[c].kind = "both" /\ rq[c].pc = "full" => rq[c].put
  /\ rq[c].pc = "cut" => rq[c].old = rules[t]
  /\ rq[c].kind = "both" /\ rq[c].pc \in {"put", "full"} => rq[c].cut = rules[t]

Unnamed(c) == rq[c].pc = "idle" \/ (rq[c].kind = "both" /\ rq[c].pc # "done")

OwnName(c) ==
  Unnamed(c) =>
    /\ \A p \in Policy : row[p].name # c /\ (draft[p].name = c => lock[p] = c)
    /\ \A d \in Client \ {c} : rq[d].pc \in {"select", "update"} => rq[d].ent.name # c

NoRowGone == \A p \in Policy : row[p].status # "gone" /\ draft[p].status # "gone"

\* The invariant of the replacements, by request.
LEMMA ReplacingParts ==
  Replacing <=> NoRowGone /\ (\A c \in Client : UpdatesWell(c)) /\ (\A c \in Client : OwnName(c))
BY DEF Replacing, RowsStay, OwnNames, LocksFirst, ReplacesAll, NoRowGone, UpdatesWell, OwnName, Unnamed

\* The same, after a step.
LEMMA ReplacingPartsNext ==
  Replacing' <=> NoRowGone' /\ (\A c \in Client : UpdatesWell(c)') /\ (\A c \in Client : OwnName(c)')
BY DEF Replacing, RowsStay, OwnNames, LocksFirst, ReplacesAll, NoRowGone, UpdatesWell, OwnName, Unnamed

\* Without deletions the target of a running request is there.
LEMMA SeenLive ==
  ASSUME IInv, RulesInv, StageKinds, KnownTargets, NoneDeletes, NoRowGone,
         NEW c \in Client, rq[c].pc \notin {"idle", "new", "done"}
  PROVE  LET t == rq[c].target IN t \in Policy /\ Live(row[t]) /\ Live(Seen(c, t)) /\ Seen(c, t) \in Row
<1> DEFINE t == rq[c].target
<1>1. t \in Policy /\ row[t] \in Row /\ draft[t] \in Row
  BY DEF IInv, TypeOK, RequestType
<1>2. row[t].status \notin {"unborn", "gone"} /\ draft[t].status # "gone"
  BY <1>1 DEF KnownTargets, NoRowGone
<1>3. Live(row[t])
  BY <1>1, <1>2 DEF Row, Live
<1>4. lock[t] = c => Live(draft[t])
  BY <1>1, <1>2 DEF RulesInv, DraftsLive
<1> QED BY <1>1, <1>3, <1>4 DEF Seen

\* Without deletions no row goes.
LEMMA NoRowGoes ==
  ASSUME IInv', RulesInv', StageKinds', NoneDeletes', NoRowGone, NEW c \in Client, RowEffect(c)
  PROVE  NoRowGone'
<1> SUFFICES ASSUME NEW p \in Policy PROVE row'[p].status # "gone" /\ draft'[p].status # "gone"
  BY DEF NoRowGone
<1>1. row'[p].status # "gone"
  BY DEF RowEffect, Unwritten, Untouched, Committed, RolledBack, Wrote, Born, NoRowGone, Live
<1>2. CASE lock'[p] \in Client
  <2>1. rq'[lock'[p]].pc # "cascade"
    BY <1>2 DEF StageKinds, NoneDeletes
  <2>2. Live(draft'[p])
    BY <1>2, <2>1 DEF RulesInv, DraftsLive, Live
  <2> QED BY <1>1, <2>2 DEF Live
<1>3. CASE lock'[p] \notin Client
  <2>1. draft'[p] = row'[p]
    BY <1>3 DEF IInv, TypeOK, LockDiscipline, FreeDraft
  <2> QED BY <1>1, <2>1
<1> QED BY <1>2, <1>3

\* Which rules a step of c can change.
LEMMA RulesEffect ==
  ASSUME TypeOK, NEW c \in Client, StepOf(c), NEW p \in Policy, rules'[p] # rules[p]
  PROVE  \/ row[p].status = "unborn"
         \/ rq[c].target = p /\ (rq[c].cut # {} \/ rq[c].put \/ Seen(c, p).status = "gone")
<1>1. ASSUME NEW a, CommitTo(c, a)
      PROVE  rq[c].target = p /\ (rq[c].cut # {} \/ rq[c].put \/ Seen(c, p).status = "gone")
  <2> DEFINE put == IF rq[c].put THEN {c} ELSE {}
  <2>1. rules'[p] = CASE rq[c].target # p -> rules[p]
                      [] rq[c].target = p /\ Seen(c, p).status = "gone" -> {}
                      [] OTHER -> (rules[p] \ rq[c].cut) \cup put
    BY <1>1 DEF CommitTo
  <2>2. CASE rq[c].target # p
    BY <2>1, <2>2
  <2> SUFFICES ASSUME rq[c].cut = {}, ~rq[c].put, rq[c].target = p, Seen(c, p).status # "gone"
               PROVE  FALSE
    BY <2>2
  <2>3. put = {}
    OBVIOUS
  <2> HIDE DEF put
  <2>4. (rules[p] \ {}) \cup {} = rules[p]
    OBVIOUS
  <2> QED BY <2>1, <2>2, <2>3, <2>4
<1>2. CASE \E q \in Policy : Create(c, q)
  BY <1>2 DEF Create, TypeOK
<1>3. CASE Cascade(c) \/ Full(c)
  BY <1>1, <1>3 DEF Cascade, Full, Rollback
<1> QED BY <1>2, <1>3 DEF StepOf, Statement, Request, RequestNew, Erase, Demote, DemoteRow, Load, Select,
           Update, Insert, Index, Scan, Cut, Put, Victim, Fail, Rollback, Write

\* An update that has locked its policy keeps the lock and the rules while others go on.
LEMMA OthersUpdateWell ==
  ASSUME IInv, RulesInv, KnownTargets, NoRowGone, NEW c \in Client, StepOf(c), UpdatesWell(c), RowEffect(c),
         NEW d \in Client, d # c, rq'[d] = rq[d], UpdatesWell(d), StageKinds, NoneDeletes
  PROVE  UpdatesWell(d)'
<1> DEFINE t == rq[d].target
<1>1. t \in Policy /\ t = rq'[d].target /\ d # NoClient /\ TypeOK
  BY NoClientAssumption DEF IInv, TypeOK, RequestType
<1>2. \A q \in Policy : lock'[q] = d <=> lock[q] = d
  BY <1>1, NoClientAssumption DEF RowEffect, Unwritten, Untouched, Committed, RolledBack, Wrote, Born
<1>3. ASSUME rq[d].kind = "both", rq[d].pc \in {"cut", "put", "full"}
      PROVE  rules'[t] = rules[t]
  <2>1. lock[t] = d
    BY <1>3 DEF UpdatesWell
  <2>2. row[t].status # "unborn"
    BY <1>3 DEF KnownTargets
  <2>3. rq[c].target = t => rq[c].cut = {} /\ ~rq[c].put
    BY <2>1 DEF UpdatesWell
  <2>4. Seen(c, t).status # "gone"
    BY <1>1 DEF NoRowGone, Seen
  <2> QED BY <1>1, <2>2, <2>3, <2>4, RulesEffect
<1>4. rq[d].pc = "cut" => rq[d].kind = "both"
  BY DEF StageKinds, NoneDeletes
<1> HIDE DEF t
<1> QED BY <1>1, <1>2, <1>3, <1>4 DEF UpdatesWell, t

\* Every name that a request of c writes comes from its entity or was there already.
LEMMA NamesWritten ==
  ASSUME TypeOK, NEW c \in Client, Writes(c)
  PROVE  \/ Unwritten(c)
         \/ \E P \in SUBSET Policy :
              /\ Wrote(c, P)
              /\ \A q \in P : \/ draft'[q].name = Seen(c, q).name
                              \/ draft'[q].name = row[q].name
                              \/ rq[c].pc \in {"update", "insert"} /\ draft'[q].name = rq[c].ent.name
<1> DEFINE t == rq[c].target
<1>1. {t} \in SUBSET Policy
  BY DEF TypeOK, RequestType
<1>2. CASE Erase(c)
  BY <1>1, <1>2, EraseEffect DEF Unwritten
<1>3. CASE DemoteRow(c)
  BY <1>3, DemoteEffect
<1>4. CASE Update(c)
  <2>1. rq[c].pc = "update"
    BY <1>4 DEF Update, At
  <2>2. Untouched \/ (Wrote(c, {t}) /\ (draft'[t].name = Seen(c, t).name \/ draft'[t].name = rq[c].ent.name))
    BY <1>4, UpdateEffect
  <2> QED BY <1>1, <2>1, <2>2 DEF Unwritten
<1>5. CASE Insert(c)
  <2>1. rq[c].pc = "insert"
    BY <1>5 DEF Insert, At
  <2>2. Rollback(c, "conflict") \/ (Wrote(c, {t}) /\ draft'[t].name = rq[c].ent.name)
    BY <1>5, InsertEffect
  <2> QED BY <1>1, <2>1, <2>2, RollbackEffect DEF Unwritten
<1> QED BY <1>2, <1>3, <1>4, <1>5 DEF Writes

\* The entity of a request: unchanged, or what it has just loaded.
LEMMA EntityOfStep ==
  ASSUME TypeOK, NEW c \in Client, StepOf(c), rq'[c].pc \in {"select", "update"}
  PROVE  \/ rq'[c].ent = rq[c].ent /\ rq[c].pc = "select"
         \/ rq'[c].ent.name \in {c, Seen(c, rq[c].target).name}
<1>1. ASSUME NEW a, rq' = Answer(c, a)
      PROVE  FALSE
  BY <1>1, AnswerEnds
<1>2. ASSUME NEW st, Goto(c, st), st \notin {"select", "update"}
      PROVE  FALSE
  BY <1>2, GoesTo
<1>3. ~Cascade(c) /\ ~Full(c) /\ ~Victim(c) /\ ~Fail(c)
  BY <1>1 DEF Cascade, Full, Victim, Fail, CommitTo, Rollback
<1>4. ~Erase(c) /\ ~Update(c) /\ ~Insert(c) /\ ~Index(c)
  BY <1>1, <1>2 DEF Erase, Update, Insert, Index, Rollback, Saved, AfterSave
<1>5. ~Demote(c) /\ ~DemoteRow(c) /\ ~Scan(c) /\ ~Cut(c)
  BY DEF Demote, DemoteRow, Scan, Cut, TypeOK, RequestType
<1>6. ~Put(c)
  BY <1>1 DEF Put, Rollback, TypeOK, RequestType
<1>7. \A p \in Policy : ~Create(c, p)
  BY DEF Create, TypeOK, RequestType
<1>8. /\ \A k \in Kinds, p \in Policy : ~Request(c, k, p)
      /\ \A k \in Kinds : ~RequestNew(c, k)
  <2>1. \A k \in Kinds : ~RequestNew(c, k)
    BY AskNew
  <2>2. ASSUME NEW k \in Kinds, NEW p \in Policy, Request(c, k, p)
        PROVE  FALSE
    <3> DEFINE st == IF Live(row[p]) /\ ~(k = "delete" /\ row[p].active) THEN FirstStatement(k) ELSE "done"
               a == IF ~Live(row[p]) THEN "notFound"
                    ELSE IF k = "delete" /\ row[p].active THEN "refused" ELSE "none"
    <3>1. rq' = [rq EXCEPT ![c].kind = k, ![c].target = p, ![c].pc = st, ![c].reply = a]
      BY <2>2 DEF Request
    <3>2. st \notin {"select", "update"}
      BY DEF FirstStatement
    <3> HIDE DEF st, a
    <3> QED BY <3>1, <3>2 DEF TypeOK, RequestType
  <2> QED BY <2>1, <2>2
<1>9. CASE Select(c)
  BY <1>9 DEF Select, At, TypeOK, RequestType
<1>10. CASE Load(c)
  <2> DEFINE v == Seen(c, rq[c].target)
             e == IF rq[c].kind \in Named THEN [v EXCEPT !.name = c] ELSE [v EXCEPT !.active = TRUE]
  <2>1. v \in Row
    BY DEF Seen, TypeOK, RequestType
  <2>2. e.name \in {c, v.name}
    <3> HIDE DEF v
    <3> QED BY <2>1 DEF Row
  <2>3. rq' = [rq EXCEPT ![c].pc = "select", ![c].ent = e]
    BY <1>1, <1>10 DEF Load, Rollback
  <2>4. rq'[c].ent = e
    <3> HIDE DEF e
    <3> QED BY <2>3 DEF TypeOK, RequestType
  <2> QED BY <2>2, <2>4
<1> QED BY <1>3, <1>4, <1>5, <1>6, <1>7, <1>8, <1>9, <1>10 DEF StepOf, Statement

\* Only the end of a request releases its locks.
LEMMA ReleaseEnds ==
  ASSUME TypeOK, NEW c \in Client, StepOf(c), NEW p \in Policy, lock[p] = c, lock'[p] # c
  PROVE  rq'[c].pc = "done"
<1>1. ASSUME NEW a, rq' = Answer(c, a)
      PROVE  rq'[c].pc = "done"
  BY <1>1, AnswerEnds
<1>2. CASE Cascade(c) \/ Full(c) \/ Victim(c) \/ Fail(c)
  BY <1>1, <1>2 DEF Cascade, Full, Victim, Fail, CommitTo, Rollback
<1>3. CASE Erase(c) \/ DemoteRow(c) \/ Update(c)
  BY <1>3, EraseEffect, DemoteEffect, UpdateEffect DEF Untouched, Wrote
<1>4. CASE Insert(c)
  BY <1>1, <1>4, InsertEffect DEF Rollback, Wrote
<1>5. CASE Load(c) \/ Index(c) \/ Put(c)
  BY <1>1, <1>5 DEF Load, Index, Put, Rollback
<1> QED BY <1>2, <1>3, <1>4, <1>5 DEF StepOf, Statement, Request, RequestNew, Create, Demote, Select, Scan, Cut

\* A request that is over stays so.
LEMMA DoneStays ==
  ASSUME TypeOK, NEW c \in Client, StepOf(c), rq[c].pc = "done"
  PROVE  rq'[c].pc = "done"
BY AnswerEnds DEF StepOf, Statement, Request, RequestNew, Create, Erase, Cascade, Demote, DemoteRow, Load,
     Select, Update, Insert, Index, Scan, Cut, Put, Full, Victim, Fail, At, Rollback

\* A policy is born by a request of its own kind, with the name of that.
LEMMA BornNamed ==
  ASSUME TypeOK, StageKinds, NEW c \in Client, StepOf(c), NEW p \in Policy, Born(p)
  PROVE  row'[p].name = c /\ rq[c].kind \in {"create", "default"} /\ rq[c].pc = "new"
<1>1. row'[p] # row[p] /\ lock' = lock /\ p \in Policy
  BY DEF Born, Live
<1>2. ASSUME NEW a, CommitTo(c, a)
      PROVE  FALSE
  BY <1>1, <1>2, NoClientAssumption DEF CommitTo, Release, Seen
<1>3. \E q \in Policy : Create(c, q)
  BY <1>1, <1>2 DEF StepOf, Statement, Request, RequestNew, Erase, Cascade, Demote, DemoteRow, Load,
       Select, Update, Insert, Index, Scan, Cut, Put, Full, Victim, Fail, Rollback, Write
<1>4. PICK q \in Policy : Create(c, q)
  BY <1>3
<1>5. p = q
  BY <1>1, <1>4 DEF Create, TypeOK
<1> QED BY <1>4, <1>5, CreateEffect DEF Create, At, StageKinds

\* A name that is still to be given stays unused.
LEMMA NamesStayOwn ==
  ASSUME IInv, IInv', StageKinds, KnownTargets, NEW c \in Client, StepOf(c), rq[c].pc # "insert",
         NEW d \in Client, OwnName(d)
  PROVE  OwnName(d)'
<1> SUFFICES ASSUME Unnamed(d)'
             PROVE  /\ \A p \in Policy : row'[p].name # d /\ (draft'[p].name = d => lock'[p] = d)
                    /\ \A e \in Client \ {d} : rq'[e].pc \in {"select", "update"} => rq'[e].ent.name # d
  BY DEF OwnName
<1>1. TypeOK /\ d # NoClient /\ c # NoClient /\ RowEffect(c) /\ Alone(c)
  BY NoClientAssumption, StepEffect DEF IInv
<1>2. Unnamed(d)
  <2>1. CASE d # c
    BY <1>1, <2>1 DEF Unnamed, Alone
  <2>2. CASE d = c
    <3>1. rq'[c].pc # "idle"
      BY <1>1, StagesOfStep DEF IInv
    <3>2. rq[c].pc # "done"
      BY <1>1, <2>2, <3>1, DoneStays DEF Unnamed
    <3> QED BY <1>1, <2>2, <3>1, <3>2, KindsFixed DEF Unnamed
  <2> QED BY <2>1, <2>2
<1>3. /\ \A p \in Policy : row[p].name # d /\ (draft[p].name = d => lock[p] = d)
      /\ \A e \in Client \ {d} : rq[e].pc \in {"select", "update"} => rq[e].ent.name # d
  BY <1>2 DEF OwnName
<1>4. ASSUME NEW p \in Policy, lock[p] = c, lock'[p] # c
      PROVE  c # d
  BY <1>1, <1>4, ReleaseEnds DEF Unnamed, StageKinds
<1>5. ASSUME NEW p \in Policy, Born(p)
      PROVE  row'[p].name # d
  BY <1>1, <1>2, <1>5, BornNamed DEF Unnamed
<1>6. ASSUME NEW p \in Policy
      PROVE  row'[p].name # d /\ (draft'[p].name = d => lock'[p] = d)
  <2>1. CASE Untouched
    BY <1>3, <2>1 DEF Untouched
  <2>2. CASE Committed(c)
    <3>1. ASSUME lock[p] = c
          PROVE  draft[p].name # d
      BY <1>1, <1>3, <1>4, <2>2, <3>1 DEF Committed
    <3> QED BY <1>3, <2>2, <3>1 DEF Committed
  <2>3. CASE RolledBack(c)
    BY <1>3, <2>3 DEF RolledBack
  <2>4. CASE \E q \in Policy : Born(q)
    BY <1>3, <1>5, <2>4 DEF Born
  <2>5. ASSUME NEW P \in SUBSET Policy, Wrote(c, P),
               \A q \in P : \/ draft'[q].name = Seen(c, q).name
                            \/ draft'[q].name = row[q].name
                            \/ rq[c].pc \in {"update", "insert"} /\ draft'[q].name = rq[c].ent.name
        PROVE  row'[p].name # d /\ (draft'[p].name = d => lock'[p] = d)
    <3>1. row'[p].name # d
      BY <1>3, <2>5 DEF Wrote
    <3>2. CASE p \notin P
      BY <1>3, <2>5, <3>1, <3>2 DEF Wrote
    <3>3. CASE p \in P /\ c = d
      BY <2>5, <3>1, <3>3 DEF Wrote
    <3>4. CASE p \in P /\ c # d
      <4>1. Seen(c, p).name # d /\ row[p].name # d
        BY <1>3, <3>4 DEF Seen
      <4>2. rq[c].pc = "update" => rq[c].ent.name # d
        BY <1>3, <3>4
      <4> QED BY <2>5, <3>1, <3>4, <4>1, <4>2
    <3> QED BY <3>2, <3>3, <3>4
  <2> QED BY <1>1, <2>1, <2>2, <2>3, <2>4, <2>5, QuietEffect, NamesWritten DEF Unwritten
<1>7. ASSUME NEW e \in Client \ {d}, rq'[e].pc \in {"select", "update"}
      PROVE  rq'[e].ent.name # d
  <2>1. CASE e # c
    BY <1>1, <1>3, <1>7, <2>1 DEF Alone
  <2>2. CASE e = c
    <3>1. \A q \in Policy : Seen(c, q).name # d
      BY <1>1, <1>3, <1>7, <2>2 DEF Seen
    <3>2. rq[c].target \in Policy
      BY <1>1 DEF TypeOK, RequestType
    <3> QED BY <1>1, <1>3, <1>7, <2>2, <3>1, <3>2, EntityOfStep
  <2> QED BY <2>1, <2>2
<1> QED BY <1>6, <1>7

\* What a request's own statements leave of its update.
LEMMA AnswerUpdatesWell ==
  ASSUME TypeOK, NEW c \in Client, NEW a, rq' = Answer(c, a)
  PROVE  UpdatesWell(c)'
<1>1. rq'[c].pc = "done" /\ rq'[c].cut = {} /\ ~rq'[c].put
  BY DEF Answer, Idle, TypeOK
<1> QED BY <1>1 DEF UpdatesWell

\* A request that touches no rules.
LEMMA PlainUpdatesWell ==
  ASSUME NEW c \in Client, rq'[c].cut = {}, ~rq'[c].put, rq'[c].pc \notin {"insert", "cut"},
         \/ rq'[c].kind # "both"
         \/ rq'[c].pc \in {"idle", "new", "erase", "cascade", "demote", "demoteRow", "done"}
         \/ rq'[c].pc \in {"load", "select", "update"} /\ (\A p \in Policy : lock'[p] # c)
            /\ (rq'[c].pc # "load" => rq'[c].ent.name = c)
         \/ rq'[c].pc \in {"index", "scan"} /\ lock'[rq'[c].target] = c
  PROVE  UpdatesWell(c)'
BY DEF UpdatesWell

\* A request that begins replaces nothing yet.
LEMMA IdleUpdatesWell ==
  ASSUME IInv, NEW c \in Client, UpdatesWell(c), StageKinds,
         \/ \E k \in Kinds, p \in Policy : Request(c, k, p)
         \/ \E k \in Kinds : RequestNew(c, k)
  PROVE  UpdatesWell(c)'
<1>1. rq[c].pc = "idle" /\ rq[c].cut = {} /\ ~rq[c].put /\ rq[c] \in RequestType /\ c # NoClient
  BY NoClientAssumption DEF Request, RequestNew, UpdatesWell, IInv, TypeOK
<1>2. \A p \in Policy : lock[p] # c
  BY <1>1 DEF IInv, LockDiscipline, LocksHeld, Holding
<1>3. CASE \E k \in Kinds, p \in Policy : Request(c, k, p)
  <2>1. PICK k \in Kinds, p \in Policy : Request(c, k, p)
    BY <1>3
  <2> DEFINE st == IF Live(row[p]) /\ ~(k = "delete" /\ row[p].active) THEN FirstStatement(k) ELSE "done"
             a == IF ~Live(row[p]) THEN "notFound"
                  ELSE IF k = "delete" /\ row[p].active THEN "refused" ELSE "none"
             x == [rq[c] EXCEPT !.kind = k, !.target = p, !.pc = st, !.reply = a]
  <2>2. rq' = [rq EXCEPT ![c] = x] /\ UNCHANGED <<row, draft, lock, rules>>
    BY <2>1 DEF Request
  <2>3. st \in {"erase", "demote", "load", "scan", "done"} /\ (k = "both" => st \in {"load", "done"})
    BY DEF FirstStatement, Named
  <2>4. x.kind = k /\ x.pc = st /\ x.cut = {} /\ ~x.put
    <3> HIDE DEF st, a
    <3> QED BY <1>1 DEF RequestType
  <2> HIDE DEF x, st
  <2>5. rq'[c] = x
    BY <2>2 DEF IInv, TypeOK
  <2> QED BY <1>2, <2>2, <2>3, <2>4, <2>5, PlainUpdatesWell
<1>4. CASE \E k \in Kinds : RequestNew(c, k)
  <2>1. PICK k \in Kinds : RequestNew(c, k)
    BY <1>4
  <2> DEFINE skip == k = "default" /\ \E p \in Policy : Live(row[p])
             st == IF skip THEN "done" ELSE "new"
             a == IF skip THEN "skipped" ELSE "none"
             x == [rq[c] EXCEPT !.kind = k, !.pc = st, !.reply = a]
  <2>2. rq' = [rq EXCEPT ![c] = x]
    BY <2>1 DEF RequestNew
  <2>3. x.pc = st /\ x.cut = {} /\ ~x.put
    <3> HIDE DEF st, a
    <3> QED BY <1>1 DEF RequestType
  <2>4. st \in {"done", "new"}
    OBVIOUS
  <2> HIDE DEF x, st
  <2>5. rq'[c] = x
    BY <2>2 DEF IInv, TypeOK
  <2> QED BY <2>3, <2>4, <2>5, PlainUpdatesWell
<1> QED BY <1>3, <1>4

\* Saving the policy keeps what an update of name and rules needs.
LEMMA SaveUpdatesWell ==
  ASSUME IInv, RulesInv, StageKinds, KnownTargets, NoneDeletes, NoRowGone,
         NEW c \in Client, UpdatesWell(c), OwnName(c), Load(c) \/ Select(c) \/ Update(c) \/ Index(c)
  PROVE  UpdatesWell(c)'
<1> DEFINE t == rq[c].target
           v == Seen(c, t)
<1>1. TypeOK /\ rq[c] \in RequestType
  BY DEF IInv, TypeOK
<1>2. rq[c].pc \in {"load", "select", "update", "index"} /\ rq[c].cut = {} /\ ~rq[c].put
  BY DEF Load, Select, Update, Index, At, UpdatesWell
<1>3. t \in Policy /\ Live(v) /\ v \in Row
  BY <1>2, SeenLive
<1>4. rq[c].kind = "both" /\ rq[c].pc # "index" => \A p \in Policy : lock[p] # c
  BY <1>2 DEF UpdatesWell
<1>5. rq[c].kind \in {"activate", "default", "rename", "both"}
  BY <1>2 DEF StageKinds, SaveStages, Activating, Named
<1> HIDE DEF v
<1>6. CASE Load(c)
  <2> DEFINE e == IF rq[c].kind \in Named THEN [v EXCEPT !.name = c] ELSE [v EXCEPT !.active = TRUE]
             x == [rq[c] EXCEPT !.pc = "select", !.ent = e]
  <2>1. rq' = [rq EXCEPT ![c] = x] /\ UNCHANGED <<row, draft, lock, rules>>
    BY <1>3, <1>6 DEF Load, v
  <2>2. rq[c].kind = "both" => e.name = c
    BY <1>3 DEF Named, Row
  <2>3. x.pc = "select" /\ x.ent = e /\ x.cut = {} /\ ~x.put /\ x.kind = rq[c].kind
    <3> HIDE DEF e
    <3> QED BY <1>1, <1>2 DEF RequestType
  <2> HIDE DEF x, e
  <2>4. rq'[c] = x
    BY <1>1, <2>1 DEF TypeOK
  <2>5. rq[c].kind = "both" => \A p \in Policy : lock[p] # c
    BY <1>4, <1>6 DEF Load, At
  <2> QED BY <2>1, <2>2, <2>3, <2>4, <2>5, PlainUpdatesWell
<1>7. CASE Select(c)
  <2> DEFINE diff == {f \in {"active", "name"} : rq[c].ent[f] # v[f]}
             st == IF ~Live(v) THEN "insert" ELSE IF diff = {} THEN AfterSave(c) ELSE "update"
             cs == IF Live(v) THEN diff ELSE {}
             x == [rq[c] EXCEPT !.cols = cs, !.pc = st]
  <2>1. rq' = [rq EXCEPT ![c] = x] /\ UNCHANGED <<row, draft, lock, rules>> /\ rq[c].pc = "select"
    BY <1>7 DEF Select, At, v
  <2>2. ASSUME rq[c].kind = "both"
        PROVE  st = "update" /\ rq[c].ent.name = c /\ \A p \in Policy : lock[p] # c
    <3>1. rq[c].ent.name = c /\ \A p \in Policy : lock[p] # c
      BY <2>1, <2>2 DEF UpdatesWell
    <3>2. v.name # c
      BY <1>3, <2>1, <2>2, <3>1 DEF OwnName, Unnamed, Seen, v
    <3>3. "name" \in diff
      BY <3>1, <3>2
    <3> QED BY <1>3, <3>1, <3>3
  <2>3. st \in {"full", "scan", "update"} /\ (st # "update" => rq[c].kind # "both")
    BY <1>3, <2>2 DEF AfterSave
  <2>4. x.pc = st /\ x.ent = rq[c].ent /\ x.cut = {} /\ ~x.put /\ x.kind = rq[c].kind
    <3> HIDE DEF st, cs
    <3> QED BY <1>1, <1>2 DEF RequestType
  <2> HIDE DEF x, st, cs, diff
  <2>5. rq'[c] = x
    BY <1>1, <2>1 DEF TypeOK
  <2> QED BY <2>1, <2>2, <2>3, <2>4, <2>5, PlainUpdatesWell
<1>8. CASE Update(c)
  <2>1. PICK st \in {"index", AfterSave(c)} : Wrote(c, {t}) /\ Goto(c, st)
    BY <1>1, <1>3, <1>8, UpdateEffect DEF v
  <2>2. lock'[t] = c
    BY <2>1 DEF Wrote
  <2>3. st \in {"index", "scan", "full"} /\ (st = "full" => rq[c].kind # "both")
    BY <2>1 DEF AfterSave
  <2>4. /\ rq'[c].pc = st /\ rq'[c].kind = rq[c].kind /\ rq'[c].target = t
        /\ rq'[c].cut = {} /\ ~rq'[c].put
    BY <1>1, <1>2, <2>1, GoesTo
  <2> QED BY <2>2, <2>3, <2>4, PlainUpdatesWell
<1>9. CASE Index(c)
  <2>1. CASE Rollback(c, "conflict")
    BY <1>1, <2>1, AnswerUpdatesWell DEF Rollback
  <2>2. CASE Goto(c, AfterSave(c)) /\ UNCHANGED <<row, draft, lock, rules>>
    <3>1. /\ rq'[c].pc = AfterSave(c) /\ rq'[c].kind = rq[c].kind /\ rq'[c].target = t
          /\ rq'[c].cut = {} /\ ~rq'[c].put
      BY <1>1, <1>2, <2>2, GoesTo
    <3>2. AfterSave(c) = (IF rq[c].kind = "both" THEN "scan" ELSE "full")
      BY DEF AfterSave
    <3>3. rq[c].kind = "both" => lock'[t] = c
      BY <1>9, <2>2 DEF Index, At, UpdatesWell
    <3> QED BY <3>1, <3>2, <3>3, PlainUpdatesWell
  <2> QED BY <1>9, <2>1, <2>2 DEF Index
<1> QED BY <1>6, <1>7, <1>8, <1>9

\* Scanning, deleting and inserting rules keeps what an update of name and rules needs.
LEMMA RuleRowsUpdateWell ==
  ASSUME IInv, RulesInv, StageKinds, KnownTargets, NoneDeletes, NoRowGone,
         NEW c \in Client, UpdatesWell(c), Scan(c) \/ Cut(c) \/ Put(c)
  PROVE  UpdatesWell(c)'
<1> DEFINE t == rq[c].target
<1>1. TypeOK /\ rq[c] \in RequestType
  BY DEF IInv, TypeOK
<1>2. rq[c].pc \in {"scan", "cut", "put"} /\ rq[c].kind = "both" /\ lock[t] = c
  BY DEF Scan, Cut, Put, At, StageKinds, NoneDeletes, UpdatesWell
<1>3. t \in Policy /\ Live(Seen(c, t)) /\ rules[t] \in SUBSET Writer
  BY <1>1, <1>2, SeenLive DEF TypeOK
<1>4. CASE Scan(c)
  <2>1. rq[c].pc = "scan" /\ rq[c].cut = {} /\ ~rq[c].put
    BY <1>4 DEF Scan, At, UpdatesWell
  <2>2. /\ rq'[c].pc = "cut" /\ rq'[c].old = rules[t] /\ rq'[c].cut = {} /\ ~rq'[c].put
        /\ rq'[c].kind = rq[c].kind /\ rq'[c].target = t /\ lock' = lock /\ rules' = rules
    BY <1>1, <1>4, <2>1 DEF Scan, TypeOK, RequestType
  <2> QED BY <1>2, <2>2 DEF UpdatesWell
<1>5. CASE Cut(c)
  <2>1. rq[c].pc = "cut" /\ rq[c].old = rules[t] /\ ~rq[c].put
    BY <1>5 DEF Cut, At, UpdatesWell
  <2>2. /\ rq'[c].pc = "put" /\ rq'[c].cut = rules[t] /\ ~rq'[c].put
        /\ rq'[c].kind = rq[c].kind /\ rq'[c].target = t /\ lock' = lock /\ rules' = rules
    BY <1>1, <1>2, <1>3, <1>5, <2>1 DEF Cut, TypeOK, RequestType
  <2> QED BY <1>2, <2>2 DEF UpdatesWell
<1>6. CASE Put(c)
  <2>1. rq[c].pc = "put" /\ rq[c].cut = rules[t]
    BY <1>2, <1>6 DEF Put, At, UpdatesWell
  <2>2. /\ rq'[c].pc = "full" /\ rq'[c].cut = rules[t] /\ rq'[c].put
        /\ rq'[c].kind = rq[c].kind /\ rq'[c].target = t /\ lock' = lock /\ rules' = rules
    BY <1>1, <1>3, <1>6, <2>1 DEF Put, TypeOK, RequestType
  <2> QED BY <1>2, <2>2 DEF UpdatesWell
<1> QED BY <1>4, <1>5, <1>6

\* Every step of a request keeps what that request needs.
LEMMA OwnUpdatesWell ==
  ASSUME IInv, RulesInv, StageKinds, KnownTargets, NoneDeletes, NoRowGone,
         NEW c \in Client, StepOf(c), UpdatesWell(c), OwnName(c)
  PROVE  UpdatesWell(c)'
<1>1. TypeOK /\ rq[c] \in RequestType
  BY DEF IInv, TypeOK
<1>2. CASE Cascade(c) \/ Full(c) \/ Victim(c) \/ Fail(c)
  BY <1>1, <1>2, AnswerUpdatesWell DEF Cascade, Full, Victim, Fail, CommitTo, Rollback
<1>3. ~Erase(c) /\ ~Insert(c)
  BY DEF Erase, Insert, At, StageKinds, NoneDeletes, UpdatesWell
<1>4. CASE Demote(c) \/ DemoteRow(c)
  <2>1. rq[c].kind \in Activating /\ rq[c].cut = {} /\ ~rq[c].put
    BY <1>4 DEF Demote, DemoteRow, At, StageKinds, UpdatesWell
  <2>2. /\ rq'[c].kind = rq[c].kind /\ rq'[c].cut = rq[c].cut /\ rq'[c].put = rq[c].put
        /\ rq'[c].pc \in {"demoteRow", "load"}
    BY <1>1, <1>4 DEF Demote, DemoteRow, TypeOK, RequestType
  <2> QED BY <2>1, <2>2, PlainUpdatesWell DEF Activating
<1>5. CASE \E p \in Policy : Create(c, p)
  <2>1. rq[c].cut = {} /\ ~rq[c].put
    BY <1>5 DEF Create, At, UpdatesWell
  <2>2. PICK p \in Policy : Create(c, p)
    BY <1>5
  <2> DEFINE st == IF rq[c].kind = "default" THEN "demote" ELSE "done"
             a == IF rq[c].kind = "default" THEN "none" ELSE "ok"
             x == [rq[c] EXCEPT !.target = p, !.pc = st, !.reply = a]
  <2>3. rq' = [rq EXCEPT ![c] = x]
    BY <2>2 DEF Create
  <2>4. x.pc = st /\ x.cut = {} /\ ~x.put
    <3> HIDE DEF st, a
    <3> QED BY <1>1, <2>1 DEF RequestType
  <2>5. st \in {"demote", "done"}
    OBVIOUS
  <2> HIDE DEF x, st
  <2>6. rq'[c] = x
    BY <1>1, <2>3 DEF TypeOK
  <2> QED BY <2>4, <2>5, <2>6, PlainUpdatesWell
<1> QED BY <1>2, <1>3, <1>4, <1>5, IdleUpdatesWell, SaveUpdatesWell, RuleRowsUpdateWell DEF StepOf, Statement
-----------------------------------------------------------------------------
\* Every step keeps the invariant of the replacements.
LEMMA ReplacingStays ==
  ASSUME IInv, IInv', RulesInv, RulesInv', ActInv, ActInv', BothInv, NEW c \in Client, StepOf(c)
  PROVE  BothInv'
<1> SUFFICES ASSUME NoneDeletes' PROVE Replacing'
  BY DEF BothInv
<1>1. RowEffect(c) /\ Alone(c) /\ StageKinds /\ StageKinds' /\ KnownTargets
  BY StepEffect DEF IInv, ActInv
<1>2. NoneDeletes
  <2>1. rq'[c].kind = rq[c].kind \/ rq[c].kind = "none"
    BY <1>1, KindsFixed DEF IInv, StageKinds
  <2> QED BY <1>1, <2>1 DEF NoneDeletes, Alone
<1>3. NoRowGone /\ (\A d \in Client : UpdatesWell(d)) /\ (\A d \in Client : OwnName(d))
  BY <1>2, ReplacingParts DEF BothInv
<1>4. NoRowGone'
  BY <1>1, <1>3, NoRowGoes
<1>5. ASSUME NEW d \in Client
      PROVE  OwnName(d)'
  <2>1. rq[c].pc # "insert" /\ OwnName(d)
    BY <1>3 DEF UpdatesWell
  <2> QED BY <1>1, <2>1, NamesStayOwn
<1>6. UpdatesWell(c)'
  BY <1>1, <1>2, <1>3, OwnUpdatesWell
<1>7. ASSUME NEW d \in Client, d # c
      PROVE  UpdatesWell(d)'
  <2>1. rq'[d] = rq[d] /\ UpdatesWell(d) /\ UpdatesWell(c)
    BY <1>1, <1>3, <1>7 DEF Alone
  <2> QED BY <1>1, <1>2, <1>3, <1>7, <2>1, OthersUpdateWell
<1> QED BY <1>4, <1>5, <1>6, <1>7, ReplacingPartsNext

\* The invariant of the replacements holds at the start.
LEMMA BothStarts == Init => BothInv
<1> SUFFICES ASSUME Init PROVE Replacing
  BY DEF BothInv
<1>1. \A c \in Client : /\ rq[c].pc = "idle" /\ rq[c].kind = "none"
                        /\ rq[c].cut = {} /\ ~rq[c].put
  BY DEF Init, Idle
<1>2. \A p \in Policy : /\ draft[p] = row[p] /\ lock[p] = NoClient /\ row[p].name = NoClient
                        /\ row[p].status # "gone"
  BY DEF Init
<1>3. \A c \in Client : c # NoClient
  BY NoClientAssumption
<1> QED BY <1>1, <1>2, <1>3 DEF Replacing, RowsStay, OwnNames, LocksFirst, ReplacesAll

\* The invariant of the replacements always holds.
LEMMA BothInvariant == Spec => []BothInv
<1>1. IInv /\ IInv' /\ RulesInv /\ RulesInv' /\ ActInv /\ ActInv' /\ BothInv /\ [Next]_vars => BothInv'
  <2>1. CASE UNCHANGED vars
    <3> SUFFICES ASSUME BothInv, UNCHANGED vars PROVE BothInv'
      BY <2>1
    <3>1. UNCHANGED row /\ UNCHANGED draft /\ UNCHANGED lock /\ UNCHANGED rules /\ UNCHANGED rq
      BY DEF vars
    <3>2. NoneDeletes' => NoneDeletes
      BY <3>1 DEF NoneDeletes
    <3>3. RowsStay => RowsStay'
      BY <3>1 DEF RowsStay
    <3>4. OwnNames => OwnNames'
      BY <3>1 DEF OwnNames
    <3>5. LocksFirst /\ ReplacesAll => LocksFirst' /\ ReplacesAll'
      BY <3>1 DEF LocksFirst, ReplacesAll
    <3> QED BY <3>2, <3>3, <3>4, <3>5 DEF BothInv, Replacing
  <2>2. CASE Next
    BY <2>2, ReplacingStays DEF Next, StepOf
  <2> QED BY <2>1, <2>2
<1> QED BY <1>1, BothStarts, AllInvariants, PTL DEF Spec

\* A step of kind "both" that succeeds is the last of an update that holds its policy.
LEMMA NamedUpdateStep ==
  ASSUME IInv, IInv', RulesInv, ActInv, BothInv, NoneDeletes,
         NEW c \in Client, StepOf(c), Succeeds(c, {"both"})
  PROVE  rules'[rq[c].target] = {c}
<1> DEFINE t == rq[c].target
<1>1. TypeOK /\ t \in Policy /\ UpdatesWell(c) /\ NoRowGone /\ StageKinds /\ KnownTargets
  BY ReplacingParts DEF BothInv, ActInv, IInv, TypeOK, RequestType
<1>2. rq[c].kind = "both" /\ rq'[c].reply = "ok" /\ rq[c].pc # "done"
  BY DEF Succeeds
<1>3. Full(c) /\ CommitTo(c, Answer(c, "ok"))
  BY <1>1, <1>2, OkByFull DEF IInv
<1>4. rq[c].pc = "full" /\ rq[c].put /\ rq[c].cut = rules[t]
  BY <1>1, <1>2, <1>3 DEF Full, At, UpdatesWell
<1>5. Seen(c, t).status # "gone"
  BY <1>1 DEF NoRowGone, Seen
<1>6. rules'[t] = (rules[t] \ rq[c].cut) \cup {c}
  BY <1>1, <1>3, <1>4, <1>5 DEF CommitTo
<1> QED BY <1>4, <1>6

\* An update of name and rules leaves exactly its own rules, beside any other
\* requests that neither update rules alone nor delete.
THEOREM NamedUpdatesLeaveOwnRules == Spec => NamedUpdatesReplace
<1> DEFINE replaced ==
      (\A d \in Client : rq[d].kind \notin {"rules", "clear", "delete"}) =>
       \A c \in Client : Succeeds(c, {"both"}) => rules'[rq[c].target] = {c}
<1>1. IInv /\ RulesInv /\ ActInv /\ BothInv /\ [Next]_vars => [replaced]_vars
  <2> SUFFICES ASSUME IInv, RulesInv, ActInv, BothInv, Next, NoneDeletes,
                      NEW c \in Client, Succeeds(c, {"both"})
               PROVE  rules'[rq[c].target] = {c}
    BY DEF NoneDeletes
  <2>1. PICK d \in Client : StepOf(d)
    BY DEF Next, StepOf
  <2>2. Alone(d)
    BY <2>1, StepEffect DEF IInv
  <2>3. rq[c].reply # "ok"
    BY DEF ActInv, StageKinds, Succeeds
  <2>4. d = c
    BY <2>2, <2>3 DEF Alone, Succeeds
  <2>5. IInv'
    BY Inductive
  <2> QED BY <2>1, <2>4, <2>5, NamedUpdateStep
<1> QED BY <1>1, AllInvariants, BothInvariant, PTL DEF Spec, NamedUpdatesReplace
=============================================================================
