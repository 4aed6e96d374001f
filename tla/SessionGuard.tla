----------------------------- MODULE SessionGuard -----------------------------
(***************************************************************************)
(* The lock and the generation counter of SessionGuard (_session.py), as   *)
(* the pieces of actions that PortalSession and MobileSession put          *)
(* together.  Both clients own one guard; the guard knows nothing of the   *)
(* tokens it protects, so the steps of a login and of an action belong to  *)
(* the modules that extend this one.                                       *)
(*                                                                         *)
(* A task runs until it suspends: an uncontended `async with self._lock`   *)
(* does not suspend, so taking a free lock and the code up to the first    *)
(* request are one step.  asyncio.Lock hands the lock to its waiters in    *)
(* the order they came, and a newcomer never overtakes them.               *)
(***************************************************************************)
EXTENDS Naturals, SequencesExt

CONSTANTS Callers,  \* the tasks that share the client
          Nobody    \* the holder of a free lock

ASSUME NobodyAssumption == Nobody \notin Callers

VARIABLES
    lock,        \* the task that owns _lock, resumed or about to be
    waiters,     \* the tasks parked in _lock.acquire(), oldest first
    generation,  \* _generation, the number of completed logins
    stage,       \* which call of the guard each task is inside
    seen         \* the local `generation` of run(), returned by its ensure()

guardVars == <<lock, waiters, generation, stage, seen>>

\* "open" is a bare ensure(); "run" and "retry" are the two passes of run(),
\* and only the second one calls ensure(expired=generation).
Stages == {"none", "open", "run", "retry"}

GuardTypeOK ==
    /\ lock \in Callers \cup {Nobody}
    /\ waiters \in Seq(Callers)
    /\ generation \in Nat
    /\ stage \in [Callers -> Stages]
    /\ seen \in [Callers -> Nat]

GuardInit ==
    /\ lock = Nobody
    /\ waiters = <<>>
    /\ generation = 0
    /\ stage = [c \in Callers |-> "none"]
    /\ seen = [c \in Callers |-> 0]

\* Bugs the properties must catch: the expired session is kept; the session is
\* dropped whoever renewed it since.
StaleNever(c, s) == FALSE
StaleAnyway(c, s) == s = "retry"

\* `expired == self._generation`: the session of this very generation is the
\* one the caller saw expire, so it is dropped.
Stale(c, s) == s = "retry" /\ seen[c] = generation

Enqueue(c) ==
    /\ lock # Nobody
    /\ waiters' = Append(waiters, c)
    /\ UNCHANGED <<lock, generation, seen>>

Keep(c) ==
    /\ lock' = c
    /\ UNCHANGED <<waiters, generation, seen>>

\* Leaving the `async with`: the oldest waiter owns the lock from here on.
Release ==
    IF waiters = <<>>
    THEN lock' = Nobody /\ waiters' = <<>>
    ELSE lock' = Head(waiters) /\ waiters' = Tail(waiters)

\* Bug: ensure() falls off its end and returns None.
ReturnNone(c, s, g) ==
    /\ Release
    /\ generation' = g
    /\ seen' = IF s = "run" THEN [seen EXCEPT ![c] = Nobody] ELSE seen

\* ensure() returns generation g; run() remembers it in its first pass only.
Return(c, s, g) ==
    /\ Release
    /\ generation' = g
    /\ seen' = IF s = "run" THEN [seen EXCEPT ![c] = g] ELSE seen

\* Bugs: a failed login keeps the lock; a failed login is counted.
RaiseLocked(c) ==
    /\ UNCHANGED <<lock, waiters, generation>>
    /\ seen' = [seen EXCEPT ![c] = 0]

RaiseCounted(c) ==
    /\ Release
    /\ generation' = generation + 1
    /\ seen' = [seen EXCEPT ![c] = 0]

\* ensure() raises: the lock is released and no generation is consumed.
Raise(c) ==
    /\ Release
    /\ UNCHANGED generation
    /\ seen' = [seen EXCEPT ![c] = 0]

\* Bug: a cancelled task stays in the queue.
WithdrawLate(c) ==
    /\ IF lock = c THEN Release ELSE UNCHANGED <<lock, waiters>>
    /\ seen' = [seen EXCEPT ![c] = 0]
    /\ UNCHANGED generation

\* A task is cancelled inside ensure(): it gives back the lock, whether it runs
\* under it or was only just handed it, or else leaves the queue.
Withdraw(c) ==
    /\ IF lock = c
       THEN Release
       ELSE /\ \E i \in 1..Len(waiters) : waiters[i] = c /\ waiters' = RemoveAt(waiters, i)
            /\ UNCHANGED lock
    /\ seen' = [seen EXCEPT ![c] = 0]
    /\ UNCHANGED generation

\* The action returns or raises past the guard, outside the lock.
Leave(c) ==
    /\ seen' = [seen EXCEPT ![c] = 0]
    /\ UNCHANGED <<lock, waiters, generation>>
===============================================================================
