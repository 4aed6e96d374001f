----------------------------- MODULE PortalSession -----------------------------
(***************************************************************************)
(* The session of the web portal: PortalAuth (_auth.py) behind its         *)
(* SessionGuard, shared by the coordinator's polls and the statistics      *)
(* imports.  A session is named by its serial number at the portal, 0      *)
(* stands for "no token", and an app token is only held or not.            *)
(* The portal may end a session at any time, and a new login may end the   *)
(* account's other sessions.  Every request has a timeout, so it is        *)
(* always answered, if only by an error.                                   *)
(***************************************************************************)
EXTENDS SessionGuard, FiniteSets

CONSTANTS Polls,       \* the callers whose requests are TaskGroup children
          MaxSessions  \* bound: the sessions the portal opens in a behaviour

ASSUME PollsAssumption == Polls \subseteq Callers
ASSUME MaxSessionsAssumption == MaxSessions \in Nat

VARIABLES
    pc,       \* what each task is suspended on
    sent,     \* the session whose token travels with a task's request
    app,      \* is _app_token set
    ael,      \* _ael_token
    context,  \* the session the AEL_CONTEXT cookie was encoded for
    issued,   \* portal: the last serial number
    live      \* portal: the sessions it honours

\* History, read by properties only.
VARIABLES
    lapsed,   \* sessions the portal ended while the client held them
    jolted    \* tasks during whose call the portal ended a session

portalVars == <<pc, sent, app, ael, context, issued, live, lapsed, jolted>>
vars == <<guardVars, portalVars>>

Sessions == 1..MaxSessions
Tokens == 0..MaxSessions

\* "landing", "token", "login" and "contract" are the requests of steps 1 to 4
\* of authenticate(); step 5 sends nothing.
LoginSteps == {"landing", "token", "login", "contract"}
Points == {"idle", "queued", "spawned", "flight"} \cup LoginSteps

TypeOK ==
    /\ GuardTypeOK
    /\ pc \in [Callers -> Points]
    /\ sent \in [Callers -> Tokens]
    /\ app \in BOOLEAN
    /\ ael \in Tokens
    /\ context \in Tokens
    /\ issued \in Tokens
    /\ live \subseteq Sessions
    /\ lapsed \subseteq Sessions
    /\ jolted \subseteq Callers

Init ==
    /\ GuardInit
    /\ pc = [c \in Callers |-> "idle"]
    /\ sent = [c \in Callers |-> 0]
    /\ app = FALSE
    /\ ael = 0
    /\ context = 0
    /\ issued = 0
    /\ live = {}
    /\ lapsed = {}
    /\ jolted = {}

-------------------------------------------------------------------------------
IsAuthenticated == ael # 0

At(c, point) == pc' = [pc EXCEPT ![c] = point]

UnchangedPortal == UNCHANGED <<issued, live, lapsed>>

\* The call of the client ends with a result or an error.
Ends(c) ==
    /\ At(c, "idle")
    /\ stage' = [stage EXCEPT ![c] = "none"]
    /\ sent' = [sent EXCEPT ![c] = 0]
    /\ jolted' = jolted \ {c}

\* ensure() returned with `token` cached: a bare ensure() ends, a single GET
\* reads the token at once, the GETs of a poll when their tasks first run.
Proceeds(c, s, token) ==
    IF s = "open"
    THEN Ends(c)
    ELSE /\ IF c \in Polls
            THEN At(c, "spawned") /\ UNCHANGED sent
            ELSE At(c, "flight") /\ sent' = [sent EXCEPT ![c] = token]
         /\ stage' = [stage EXCEPT ![c] = s]
         /\ UNCHANGED jolted

\* The body of ensure() once the lock is owned: a session that is still good
\* is returned, else invalidate() and the landing step drop both tokens.
Ensure(c, s) ==
    \/ /\ IsAuthenticated /\ ~Stale(c, s)
       /\ Return(c, s, generation)
       /\ Proceeds(c, s, ael)
       /\ UNCHANGED <<app, ael, context>>
    \/ /\ ~IsAuthenticated \/ Stale(c, s)
       /\ Keep(c)
       /\ app' = FALSE
       /\ ael' = 0
       /\ At(c, "landing")
       /\ stage' = [stage EXCEPT ![c] = s]
       /\ sent' = [sent EXCEPT ![c] = 0]
       /\ UNCHANGED <<context, jolted>>

\* Bug: no lock around ensure().
CallUnlocked(c, s) == Ensure(c, s)

Call(c, s) ==
    \/ lock = Nobody /\ Ensure(c, s)
    \/ /\ Enqueue(c)
       /\ At(c, "queued")
       /\ stage' = [stage EXCEPT ![c] = s]
       /\ sent' = [sent EXCEPT ![c] = 0]
       /\ UNCHANGED <<app, ael, context, jolted>>

\* client.authenticate() or a fetch is called.
Start(c) ==
    /\ pc[c] = "idle"
    /\ \E s \in {"open", "run"} : Call(c, s)
    /\ UnchangedPortal

\* The lock was handed to a waiter, which now runs the body of ensure().
Resume(c) ==
    /\ pc[c] = "queued"
    /\ lock = c
    /\ Ensure(c, stage[c])
    /\ UnchangedPortal

-------------------------------------------------------------------------------
\* authenticate(): one action per answer it awaits.

LandingOk(c) ==
    /\ pc[c] = "landing"
    /\ At(c, "token")
    /\ UNCHANGED <<guardVars, sent, app, ael, context, jolted>>
    /\ UnchangedPortal

\* The app token is set just before the credentials are posted.
TokenOk(c) ==
    /\ pc[c] = "token"
    /\ app' = TRUE
    /\ At(c, "login")
    /\ UNCHANGED <<guardVars, sent, ael, context, jolted>>
    /\ UnchangedPortal

\* The portal accepts the credentials: it opens a session and may end the
\* account's others.
Opens ==
    /\ issued < MaxSessions
    /\ issued' = issued + 1
    /\ \E kept \in {live, {}} : live' = kept \cup {issued'}
    /\ UNCHANGED lapsed

\* Bug: the app token outlives the login.
LoginOkKeepsApp(c) ==
    /\ pc[c] = "login"
    /\ Opens
    /\ ael' = issued'
    /\ At(c, "contract")
    /\ UNCHANGED <<guardVars, sent, app, context, jolted>>

LoginOk(c) ==
    /\ pc[c] = "login"
    /\ Opens
    /\ ael' = issued'
    /\ app' = FALSE
    /\ At(c, "contract")
    /\ UNCHANGED <<guardVars, sent, context, jolted>>

\* Bug: a completed login opens no generation.
ContractOkUncounted(c) ==
    /\ pc[c] = "contract"
    /\ context' = ael
    /\ Return(c, stage[c], generation)
    /\ Proceeds(c, stage[c], ael)
    /\ UNCHANGED <<app, ael>>
    /\ UnchangedPortal

\* Steps 4 and 5: the cookie is planted and the guard counts the login.
ContractOk(c) ==
    /\ pc[c] = "contract"
    /\ context' = ael
    /\ Return(c, stage[c], generation + 1)
    /\ Proceeds(c, stage[c], ael)
    /\ UNCHANGED <<app, ael>>
    /\ UnchangedPortal

\* A step raises, whatever the error, and leaves the tokens as they are.
LoginFails(c) ==
    /\ Raise(c)
    /\ Ends(c)
    /\ UNCHANGED <<app, ael, context>>

StepFails(c) ==
    /\ pc[c] \in LoginSteps
    /\ LoginFails(c)
    /\ UnchangedPortal

\* The portal opened a session, but the answer is lost or has no user block.
LoginUnusable(c) ==
    /\ pc[c] = "login"
    /\ Opens
    /\ LoginFails(c)

-------------------------------------------------------------------------------
\* The requests of an action, and the answers run() sees.

Send(c) ==
    /\ pc[c] = "spawned"
    /\ sent' = [sent EXCEPT ![c] = ael]
    /\ At(c, "flight")
    /\ UNCHANGED <<guardVars, app, ael, context, jolted>>
    /\ UnchangedPortal

\* The answer is a result or an error that is not an expiry; an error can come
\* in place of any answer, so the token tells nothing.
Answered(c) ==
    /\ pc[c] = "flight"
    /\ Ends(c)
    /\ Leave(c)
    /\ UNCHANGED <<app, ael, context>>
    /\ UnchangedPortal

\* 401 or 403: run() renews the session once.
Refused(c) ==
    /\ pc[c] = "flight"
    /\ sent[c] \notin live
    /\ \/ stage[c] = "run" /\ Call(c, "retry")
       \/ /\ stage[c] = "retry"
          /\ Leave(c)
          /\ Ends(c)
          /\ UNCHANGED <<app, ael, context>>
    /\ UnchangedPortal

\* The portal ends a session on its own.
Lapse(s) ==
    /\ s \in live
    /\ live' = live \ {s}
    /\ lapsed' = IF s = ael THEN lapsed \cup {s} ELSE lapsed
    /\ jolted' = {c \in Callers : stage[c] # "none"}
    /\ UNCHANGED <<guardVars, pc, sent, app, ael, context, issued>>

LoginStep(c) ==
    \/ LandingOk(c) \/ TokenOk(c) \/ LoginOk(c) \/ ContractOk(c)
    \/ StepFails(c) \/ LoginUnusable(c)

Step(c) ==
    \/ Resume(c) \/ LoginStep(c) \/ Send(c) \/ Answered(c) \/ Refused(c)

Next ==
    \/ \E c \in Callers : Start(c) \/ Step(c)
    \/ \E s \in Sessions : Lapse(s)

\* The event loop runs every ready task and every request times out.
Fairness == \A c \in Callers : WF_vars(Step(c))

Spec == Init /\ [][Next]_vars /\ Fairness

-------------------------------------------------------------------------------
\* Properties.

LoggingIn(c) == pc[c] \in LoginSteps

\* Two tasks are never inside authenticate() at once: the credentials of a
\* client are in at most one login, whoever asked for it (_session.py:46-58).
OneLogin == \A c, d \in Callers : LoggingIn(c) /\ LoggingIn(d) => c = d

\* _app_token and _ael_token are never both set, whatever failed logins left
\* behind (the claim of _headers, _auth.py:250-252).
TokensExclusive == ~(app /\ IsAuthenticated)

\* A task in its second attempt works on a later login than the one it saw
\* expire, whether it logged in itself or another task did.
RetryIsNewer ==
    \A c \in Callers :
        stage[c] = "retry" /\ pc[c] \in {"spawned", "flight"} => generation > seen[c]

\* A session that was already dead when the call began never costs the call:
\* the second attempt is refused only if the portal ended the session that was
\* held at some time during the call ("recover once on expiry", _session.py).
ExpiryNeedsLapse ==
    \A c \in Callers :
        stage[c] = "retry" /\ pc[c] = "flight" /\ sent[c] \notin live => c \in jolted

\* N concurrent expiries cost one login: past the first, there is at most one
\* completed login for each session that the portal ended while it was held.
LoginsPerLapse == generation <= Cardinality(lapsed) + 1

\* Only an expiry or a login cut short makes the client give up a session: one
\* that was completed and that the portal still honours is never dropped by a
\* late report about an earlier one.
NoLiveSessionDropped ==
    [][IsAuthenticated /\ ael' # ael => ael \notin live \/ context # ael]_vars

\* Every call of the client returns or raises: nobody waits for ever on the
\* lock or behind a login.
EveryCallEnds == \A c \in Callers : stage[c] # "none" ~> stage[c] = "none"

\* The refinement mapping: the task inside a login, the session as it is seen
\* between logins, the generation a task may still report as expired.
Renewer == IF \E c \in Callers : LoggingIn(c) THEN CHOOSE c \in Callers : LoggingIn(c) ELSE Nobody

Held == IsAuthenticated /\ \A c \in Callers : ~LoggingIn(c)

Reports(c) ==
    \/ stage[c] = "run" /\ pc[c] \in {"spawned", "flight"}
    \/ stage[c] = "retry" /\ pc[c] \in {"queued"} \cup LoginSteps

Basis == [c \in Callers |-> IF Reports(c) THEN {seen[c]} ELSE {}]

Abstract == INSTANCE LoginSpec WITH renewer <- Renewer, held <- Held, basis <- Basis

\* The guard, its queue and the steps of a login keep the promise of LoginSpec.
ImplementsLoginSpec == Abstract!Spec

\* The code says that AEL_CONTEXT is set for every call that follows a login
\* (_auth.py:11-12); a login cut short after step 3 leaves it out.
ContextPlanted ==
    IsAuthenticated /\ (\A c \in Callers : ~LoggingIn(c)) => context = ael
===============================================================================
