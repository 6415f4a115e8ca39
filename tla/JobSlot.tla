------------------------------ MODULE JobSlot ------------------------------
(***************************************************************************)
(* What the sync queue promises per repository: one slot, held by at most  *)
(* one worker at a time.  A held slot is given up by its holder as it ends *)
(* its work, or by the loss of the lock, never taken away or refilled; a   *)
(* worker that lost the lock may go on, but can no longer move the slot.   *)
(***************************************************************************)
CONSTANTS Repo, NoRepo, Worker, NoWorker

VARIABLES phase,   \* per slot: "free", "queued" or "running"
          holder,  \* per slot: the worker that holds it, or NoWorker
          work     \* per worker: the slot it works for, or NoRepo

Init ==
  /\ phase = [r \in Repo |-> "free"]
  /\ holder = [r \in Repo |-> NoWorker]
  /\ work = [w \in Worker |-> NoRepo]

Move(r, from, to, h) ==
  /\ phase[r] = from
  /\ phase' = [phase EXCEPT ![r] = to]
  /\ holder' = [holder EXCEPT ![r] = h]

WorkOn(w, r) == work' = [work EXCEPT ![w] = r]

Submit(r) == Move(r, "free", "queued", NoWorker) /\ UNCHANGED work

Withdraw(r) == Move(r, "queued", "free", NoWorker) /\ UNCHANGED work

Start(r, w) ==
  /\ work[w] = NoRepo
  /\ Move(r, "queued", "running", w)
  /\ WorkOn(w, r)

\* The holder ends its attempt: done for good, or queued for a retry.
Finish(r, w) ==
  /\ holder[r] = w /\ work[w] = r
  /\ \E to \in {"free", "queued"} : Move(r, "running", to, NoWorker)
  /\ WorkOn(w, NoRepo)

\* The lock is lost; the worker goes on as a zombie or died.
LoseHolder(r, w) ==
  /\ holder[r] = w /\ work[w] = r
  /\ Move(r, "running", "running", NoWorker)
  /\ UNCHANGED work \/ WorkOn(w, NoRepo)

\* The end of a worker that does not hold the slot it worked for.
EndZombie(w) ==
  /\ \A r \in Repo : holder[r] # w
  /\ work[w] # NoRepo
  /\ WorkOn(w, NoRepo)
  /\ UNCHANGED <<phase, holder>>

Recover(r) ==
  /\ holder[r] = NoWorker
  /\ \E to \in {"free", "queued"} : Move(r, "running", to, NoWorker)
  /\ UNCHANGED work

Next ==
  \/ \E r \in Repo : Submit(r) \/ Withdraw(r) \/ Recover(r)
  \/ \E r \in Repo, w \in Worker : Start(r, w) \/ Finish(r, w) \/ LoseHolder(r, w)
  \/ \E w \in Worker : EndZombie(w)

Spec == Init /\ [][Next]_<<phase, holder, work>>
=============================================================================
