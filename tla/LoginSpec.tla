------------------------------- MODULE LoginSpec -------------------------------
(***************************************************************************)
(* What a SessionGuard promises to the tasks that share a session, without *)
(* its lock, its queue or the steps of a login (docstring of _session.py,  *)
(* lines 8-12): one login at a time; a login starts only when no session   *)
(* is held or when the starter saw the current one expire; each completed  *)
(* login opens exactly one new generation; and every login ends.           *)
(***************************************************************************)
EXTENDS Naturals

CONSTANTS Callers, Nobody

VARIABLES
    renewer,     \* the task that is logging in
    generation,  \* completed logins
    held,        \* is a session held, as seen between logins
    basis        \* the generations each task may still report as expired

vars == <<renewer, generation, held, basis>>

Init ==
    /\ renewer = Nobody
    /\ generation = 0
    /\ held = FALSE
    /\ basis = [c \in Callers |-> {}]

Begin(c) ==
    /\ renewer = Nobody
    /\ ~held \/ generation \in basis[c]
    /\ renewer' = c
    /\ held' = FALSE
    /\ UNCHANGED <<generation, basis>>

\* The task that completes a login works on its own generation, unless it
\* came for the session alone or is in its last attempt.
Complete(c) ==
    /\ renewer = c
    /\ renewer' = Nobody
    /\ generation' = generation + 1
    /\ held' = TRUE
    /\ \E b \in {basis[c], {generation + 1}, {}} : basis' = [basis EXCEPT ![c] = b]

Fail(c) ==
    /\ renewer = c
    /\ renewer' = Nobody
    /\ held' \in BOOLEAN
    /\ basis' = [basis EXCEPT ![c] = {}]
    /\ UNCHANGED generation

\* A task joins the session that is held, or is done with it.
Join(c) ==
    /\ renewer = Nobody
    /\ held
    /\ basis' = [basis EXCEPT ![c] = {generation}]
    /\ UNCHANGED <<renewer, generation, held>>

Part(c) ==
    /\ basis' = [basis EXCEPT ![c] = {}]
    /\ UNCHANGED <<renewer, generation, held>>

Next == \E c \in Callers : Begin(c) \/ Complete(c) \/ Fail(c) \/ Join(c) \/ Part(c)

Safety == Init /\ [][Next]_vars

Spec == Safety /\ \A c \in Callers : WF_vars(Complete(c) \/ Fail(c))
===============================================================================
