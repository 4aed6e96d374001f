----------------------------- MODULE MobileSession -----------------------------
(***************************************************************************)
(* The session of the mobility API: MobileClient (_mobile.py) behind its   *)
(* SessionGuard.  A poll asks for the recent readings in one request and   *)
(* may be cancelled at any await, because it is a child of the poll's      *)
(* TaskGroup; an import walks the months of a year, one request after      *)
(* another inside ONE call of run(), each with the token cached when it is *)
(* sent.  A login is one request, the token is 0 when there is none.       *)
(***************************************************************************)
EXTENDS SessionGuard

CONSTANTS Polls,       \* the callers of recent_daily(); the others import
          MaxMonths,   \* bound: the months of a year
          MaxSessions  \* bound: the sessions the backend opens in a behaviour

ASSUME MobileAssumption ==
    /\ Polls \subseteq Callers
    /\ MaxMonths \in Nat \ {0}
    /\ MaxSessions \in Nat

VARIABLES
    pc,      \* what each task is suspended on
    todo,    \* the requests an action still sends, the pending one included
    sent,    \* the session whose token travels with a task's request
    tok,     \* _token
    issued,  \* backend: the last serial number
    live     \* backend: the sessions it honours

\* History, read by properties only.
VARIABLES
    jolted    \* tasks during whose call the backend ended a session

vars == <<guardVars, pc, todo, sent, tok, issued, live, jolted>>

Sessions == 1..MaxSessions
Tokens == 0..MaxSessions
Points == {"idle", "queued", "connect", "flight"}

TypeOK ==
    /\ GuardTypeOK
    /\ pc \in [Callers -> Points]
    /\ todo \in [Callers -> 0..MaxMonths]
    /\ sent \in [Callers -> Tokens]
    /\ tok \in Tokens
    /\ issued \in Tokens
    /\ live \subseteq Sessions
    /\ jolted \subseteq Callers

Init ==
    /\ GuardInit
    /\ pc = [c \in Callers |-> "idle"]
    /\ todo = [c \in Callers |-> 0]
    /\ sent = [c \in Callers |-> 0]
    /\ tok = 0
    /\ issued = 0
    /\ live = {}
    /\ jolted = {}

-------------------------------------------------------------------------------
At(c, point) == pc' = [pc EXCEPT ![c] = point]

UnchangedBackend == UNCHANGED <<issued, live>>

\* The call ends with a result, an error or a cancellation.
Ends(c) ==
    /\ At(c, "idle")
    /\ stage' = [stage EXCEPT ![c] = "none"]
    /\ todo' = [todo EXCEPT ![c] = 0]
    /\ sent' = [sent EXCEPT ![c] = 0]
    /\ jolted' = jolted \ {c}

Awaits(c, s, point) ==
    /\ At(c, point)
    /\ stage' = [stage EXCEPT ![c] = s]
    /\ todo' = [todo EXCEPT ![c] = 0]
    /\ sent' = [sent EXCEPT ![c] = 0]
    /\ UNCHANGED jolted

\* The action starts, again from its first month after an expiry.  The months
\* of the year are counted when it starts.
Acts(c, s, token) ==
    /\ At(c, "flight")
    /\ stage' = [stage EXCEPT ![c] = s]
    /\ \E n \in 1..MaxMonths :
          /\ c \in Polls => n = 1
          /\ todo' = [todo EXCEPT ![c] = n]
    /\ sent' = [sent EXCEPT ![c] = token]
    /\ UNCHANGED jolted

\* The body of ensure() once the lock is owned.
Ensure(c, s) ==
    \/ /\ tok # 0 /\ ~Stale(c, s)
       /\ Return(c, s, generation)
       /\ Acts(c, s, tok)
       /\ UNCHANGED tok
    \/ /\ tok = 0 \/ Stale(c, s)
       /\ Keep(c)
       /\ tok' = 0
       /\ Awaits(c, s, "connect")

\* Bug: no lock around ensure().
CallUnlocked(c, s) == Ensure(c, s)

Call(c, s) ==
    \/ lock = Nobody /\ Ensure(c, s)
    \/ Enqueue(c) /\ Awaits(c, s, "queued") /\ UNCHANGED tok

Start(c) ==
    /\ pc[c] = "idle"
    /\ Call(c, "run")
    /\ UnchangedBackend

Resume(c) ==
    /\ pc[c] = "queued"
    /\ lock = c
    /\ Ensure(c, stage[c])
    /\ UnchangedBackend

\* The backend accepts the credentials: it opens a session and may end the
\* account's others.
Opens ==
    /\ issued < MaxSessions
    /\ issued' = issued + 1
    /\ \E kept \in {live, {}} : live' = kept \cup {issued'}

\* Bug: the login opens no generation.
ConnectOkUncounted(c) ==
    /\ pc[c] = "connect"
    /\ Opens
    /\ tok' = issued'
    /\ Return(c, stage[c], generation)
    /\ Acts(c, stage[c], tok')

ConnectOk(c) ==
    /\ pc[c] = "connect"
    /\ Opens
    /\ tok' = issued'
    /\ Return(c, stage[c], generation + 1)
    /\ Acts(c, stage[c], tok')

\* Any failure of /connect: the backend may have opened a session whose token
\* never reached the client.
ConnectFails(c) ==
    /\ pc[c] = "connect"
    /\ Raise(c)
    /\ Ends(c)
    /\ Opens \/ UnchangedBackend
    /\ UNCHANGED tok

-------------------------------------------------------------------------------
\* The answers to the requests of an action.

\* A month is read and the next one is asked for with the token of now.
NextMonth(c) ==
    /\ pc[c] = "flight"
    /\ todo[c] > 1
    /\ tok # 0
    /\ todo' = [todo EXCEPT ![c] = @ - 1]
    /\ sent' = [sent EXCEPT ![c] = tok]
    /\ UNCHANGED <<guardVars, pc, tok, jolted>>
    /\ UnchangedBackend

\* `self._token is None`: the next request raises instead of being sent.
NotAuthenticated(c) ==
    /\ pc[c] = "flight"
    /\ todo[c] > 1
    /\ tok = 0
    /\ Leave(c)
    /\ Ends(c)
    /\ UNCHANGED tok
    /\ UnchangedBackend

\* The last answer arrives, or any error but an expiry in place of an answer.
Finish(c) ==
    /\ pc[c] = "flight"
    /\ Leave(c)
    /\ Ends(c)
    /\ UNCHANGED tok
    /\ UnchangedBackend

\* 401 or 403: run() renews the session once.
Refused(c) ==
    /\ pc[c] = "flight"
    /\ sent[c] \notin live
    /\ \/ stage[c] = "run" /\ Call(c, "retry")
       \/ stage[c] = "retry" /\ Leave(c) /\ Ends(c) /\ UNCHANGED tok
    /\ UnchangedBackend

\* A sibling request of the poll failed: the TaskGroup cancels this one.  A
\* login in flight may have reached the backend.
Cancel(c) ==
    /\ c \in Polls
    /\ \/ pc[c] = "queued" /\ Withdraw(c) /\ UnchangedBackend
       \/ pc[c] = "connect" /\ Withdraw(c) /\ (Opens \/ UnchangedBackend)
       \/ pc[c] = "flight" /\ Leave(c) /\ UnchangedBackend
    /\ Ends(c)
    /\ UNCHANGED tok

\* The backend ends a session on its own.
Lapse(s) ==
    /\ s \in live
    /\ live' = live \ {s}
    /\ jolted' = {c \in Callers : stage[c] # "none"}
    /\ UNCHANGED <<guardVars, pc, todo, sent, tok, issued>>

Step(c) ==
    \/ Resume(c) \/ ConnectOk(c) \/ ConnectFails(c)
    \/ NextMonth(c) \/ NotAuthenticated(c) \/ Finish(c) \/ Refused(c)

Next ==
    \/ \E c \in Callers : Start(c) \/ Step(c) \/ Cancel(c)
    \/ \E s \in Sessions : Lapse(s)

\* The event loop runs every ready task and every request times out.
Fairness == \A c \in Callers : WF_vars(Step(c))

Spec == Init /\ [][Next]_vars /\ Fairness

-------------------------------------------------------------------------------
\* Properties.

LoggingIn(c) == pc[c] = "connect"

\* A session the backend still honours is never given up for another one, not
\* even when the task that opened it was cancelled (_session.py:53-57).
NoLiveSessionDropped == [][tok # 0 /\ tok' # tok => tok \notin live]_vars

\* The second pass of an action is refused only if the backend ended a session
\* during the call: a session that was dead from the start costs one login.
ExpiryNeedsLapse ==
    \A c \in Callers :
        stage[c] = "retry" /\ pc[c] = "flight" /\ sent[c] \notin live => c \in jolted

\* Every call ends, cancelled or not: nobody waits for ever on the lock.
EveryCallEnds == \A c \in Callers : stage[c] # "none" ~> stage[c] = "none"

\* The refinement mapping: the task that logs in, the session, the generation
\* a task may still report as expired.
Renewer == IF \E c \in Callers : LoggingIn(c) THEN CHOOSE c \in Callers : LoggingIn(c) ELSE Nobody

Held == tok # 0

Reports(c) ==
    \/ stage[c] = "run" /\ pc[c] = "flight"
    \/ stage[c] = "retry" /\ pc[c] \in {"queued", "connect"}

Basis == [c \in Callers |-> IF Reports(c) THEN {seen[c]} ELSE {}]

Abstract == INSTANCE LoginSpec WITH renewer <- Renewer, held <- Held, basis <- Basis

\* The guard of the mobility client keeps the promise of LoginSpec as well.
ImplementsLoginSpec == Abstract!Spec
===============================================================================
