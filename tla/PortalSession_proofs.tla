-------------------------- MODULE PortalSession_proofs --------------------------
(***************************************************************************)
(* Safety of PortalSession for any set of callers, any split of it into    *)
(* polls and imports, and any number of sessions.  The properties are not  *)
(* inductive; Inv below is, and each of its parts says why one of them is  *)
(* kept:                                                                   *)
(*   - the task that logs in owns the lock (LockInv), hence OneLogin;      *)
(*   - no AEL token is held before step 3 is answered (TokenInv), hence    *)
(*     TokensExclusive;                                                    *)
(*   - nobody saw a generation that is still to come (GenerationInv),      *)
(*     hence RetryIsNewer;                                                 *)
(*   - a request of the current generation travels with the token of the   *)
(*     current session as long as that session is Sound, and a report      *)
(*     about the current generation is made about an unsound one           *)
(*     (ReportInv), hence NoLiveSessionDropped;                            *)
(*   - every login that counts was paid for by a session that ended, and   *)
(*     every token that no longer works is of such a session (LapseInv),   *)
(*     hence LoginsPerLapse;                                               *)
(*   - while no session ends, a call that has seen an older generation     *)
(*     retries with a sound session (CalmInv), hence ExpiryNeedsLapse.     *)
(* The last part maps every step to LoginSpec, from the same invariants.   *)
(***************************************************************************)
EXTENDS PortalSession, SequenceTheorems, FiniteSetTheorems, TLAPS

\* The session that is held was opened by a login that ended with its cookie,
\* and the portal honours it.
Sound == ael \in live /\ context = ael

LockInv == \A c \in Callers : LoggingIn(c) => lock = c

TokenInv ==
    /\ TokensExclusive
    /\ \A c \in Callers : pc[c] \in {"landing", "token", "login"} => ael = 0

GenerationInv ==
    /\ \A c \in Callers : seen[c] <= generation
    /\ RetryIsNewer

SerialInv ==
    /\ ael <= issued
    /\ context <= issued
    /\ \A s \in live : s <= issued

ReportInv ==
    \A c \in Callers :
        seen[c] = generation /\ Sound =>
            /\ stage[c] = "run" /\ pc[c] = "flight" => sent[c] = ael
            /\ ~(stage[c] = "retry" /\ pc[c] = "queued")

Inv == TypeOK /\ LockInv /\ TokenInv /\ GenerationInv /\ SerialInv /\ ReportInv

-------------------------------------------------------------------------------
\* Releasing the lock hands it to a caller or to nobody and shortens the queue.
LEMMA ReleaseType ==
    ASSUME GuardTypeOK, Release
    PROVE  lock' \in Callers \cup {Nobody} /\ waiters' \in Seq(Callers)
<1>1. CASE waiters = <<>>
    BY <1>1 DEF GuardTypeOK, Release
<1>2. CASE waiters # <<>>
    BY <1>2, HeadTailProperties DEF GuardTypeOK, Release
<1> QED
    BY <1>1, <1>2

\* ensure(), run by a task that owns the lock or found it free and that does
\* not report a sound session, keeps the invariant (_session.py:52-58).
LEMMA EnsureKeepsInv ==
    ASSUME Inv, NEW c \in Callers, NEW s \in Stages,
           lock \in {c, Nobody}, ~LoggingIn(c),
           Stale(c, s) => ~Sound,
           Ensure(c, s), UnchangedPortal
    PROVE  Inv'
<1> USE DEF UnchangedPortal
<1>1. \A d \in Callers : ~LoggingIn(d)
    BY NobodyAssumption DEF Inv, LockInv
<1>2. CASE IsAuthenticated /\ ~Stale(c, s) /\ Return(c, s, generation)
           /\ Proceeds(c, s, ael) /\ UNCHANGED <<app, ael, context>>
    <2>1. TypeOK'
        <3>1. GuardTypeOK'
            BY <1>2, ReleaseType DEF Inv, TypeOK, GuardTypeOK, Return, Proceeds, Ends, Stages
        <3> QED
            BY <1>2, <3>1, MaxSessionsAssumption
            DEF Inv, TypeOK, Proceeds, Ends, At, Points, LoginSteps, Tokens
    <2>2. \A d \in Callers : ~LoggingIn(d)'
        BY <1>1, <1>2 DEF Inv, TypeOK, LoggingIn, Proceeds, Ends, At, LoginSteps
    <2>3. LockInv'
        BY <2>2 DEF LockInv
    <2>4. TokenInv'
        BY <1>2, <2>2 DEF Inv, TokenInv, TokensExclusive, IsAuthenticated, LoggingIn, LoginSteps
    <2>5. GenerationInv'
        <3>1. \A d \in Callers : seen'[d] <= generation'
            BY <1>2 DEF Inv, TypeOK, GuardTypeOK, GenerationInv, Return
        <3>2. RetryIsNewer'
            BY <1>2 DEF Inv, TypeOK, GuardTypeOK, GenerationInv, RetryIsNewer, Return,
                        Stale, Proceeds, Ends, At
        <3> QED
            BY <3>1, <3>2 DEF GenerationInv
    <2>6. SerialInv'
        BY <1>2 DEF Inv, SerialInv
    <2>7. ReportInv'
        BY <1>2 DEF Inv, TypeOK, GuardTypeOK, ReportInv, Sound, Return, Proceeds, Ends, At
    <2> QED
        BY <2>1, <2>3, <2>4, <2>5, <2>6, <2>7 DEF Inv
<1>3. CASE /\ ~IsAuthenticated \/ Stale(c, s)
           /\ Keep(c)
           /\ app' = FALSE
           /\ ael' = 0
           /\ At(c, "landing")
           /\ stage' = [stage EXCEPT ![c] = s]
           /\ sent' = [sent EXCEPT ![c] = 0]
           /\ UNCHANGED <<context, jolted>>
    <2>1. TypeOK'
        <3>1. GuardTypeOK'
            BY <1>3 DEF Inv, TypeOK, GuardTypeOK, Keep
        <3>2. pc' \in [Callers -> Points] /\ sent' \in [Callers -> Tokens] /\ ael' \in Tokens
            BY <1>3, MaxSessionsAssumption DEF Inv, TypeOK, At, Points, LoginSteps, Tokens
        <3> QED
            BY <1>3, <3>1, <3>2 DEF Inv, TypeOK
    <2>2. LockInv'
        BY <1>1, <1>3 DEF Inv, TypeOK, LockInv, LoggingIn, Keep, At
    <2>3. TokenInv'
        BY <1>3 DEF TokenInv, TokensExclusive, IsAuthenticated
    <2>4. GenerationInv'
        BY <1>3 DEF Inv, TypeOK, GuardTypeOK, GenerationInv, RetryIsNewer, Keep, At
    <2>5. SerialInv'
        BY <1>3 DEF Inv, TypeOK, Tokens, SerialInv
    <2>6. ~Sound'
        BY <1>3 DEF Inv, TypeOK, Sessions, Sound
    <2>7. ReportInv'
        BY <2>6 DEF ReportInv
    <2> QED
        BY <2>1, <2>2, <2>3, <2>4, <2>5, <2>7 DEF Inv
<1> QED
    BY <1>2, <1>3 DEF Ensure

\* Taking the lock or queueing for it keeps the invariant.
LEMMA CallKeepsInv ==
    ASSUME Inv, NEW c \in Callers, NEW s \in Stages,
           ~LoggingIn(c),
           Stale(c, s) => ~Sound,
           Call(c, s), UnchangedPortal
    PROVE  Inv'
<1>1. CASE lock = Nobody /\ Ensure(c, s)
    BY <1>1, EnsureKeepsInv
<1>2. CASE /\ Enqueue(c)
           /\ At(c, "queued")
           /\ stage' = [stage EXCEPT ![c] = s]
           /\ sent' = [sent EXCEPT ![c] = 0]
           /\ UNCHANGED <<app, ael, context, jolted>>
    <2> USE DEF UnchangedPortal
    <2>1. TypeOK'
        BY <1>2, MaxSessionsAssumption
        DEF Inv, TypeOK, GuardTypeOK, Enqueue, At, Points, Tokens
    <2>2. LockInv'
        BY <1>2 DEF Inv, TypeOK, LockInv, LoggingIn, Enqueue, At, LoginSteps
    <2>3. TokenInv'
        BY <1>2 DEF Inv, TypeOK, TokenInv, TokensExclusive, IsAuthenticated, At
    <2>4. GenerationInv'
        BY <1>2 DEF Inv, TypeOK, GuardTypeOK, GenerationInv, RetryIsNewer, Enqueue, At
    <2>5. SerialInv'
        BY <1>2 DEF Inv, SerialInv
    <2>6. ReportInv'
        BY <1>2 DEF Inv, TypeOK, GuardTypeOK, ReportInv, Sound, Stale, Enqueue, At
    <2> QED
        BY <2>1, <2>2, <2>3, <2>4, <2>5, <2>6 DEF Inv
<1> QED
    BY <1>1, <1>2 DEF Call

-------------------------------------------------------------------------------
\* The initial state satisfies the invariant.
LEMMA InitInv == Init => Inv
<1> SUFFICES ASSUME Init PROVE Inv
    OBVIOUS
<1>1. TypeOK
    <2>1. GuardTypeOK
        BY EmptySeq DEF Init, GuardInit, GuardTypeOK, Stages
    <2>2. /\ pc \in [Callers -> Points]
          /\ sent \in [Callers -> Tokens]
          /\ {ael, context, issued} \subseteq Tokens
        BY MaxSessionsAssumption DEF Init, Points, Tokens
    <2> QED
        BY <2>1, <2>2 DEF Init, TypeOK
<1>2. LockInv /\ TokenInv /\ GenerationInv /\ SerialInv /\ ReportInv
    BY DEF Init, GuardInit, LockInv, LoggingIn, LoginSteps, TokenInv, TokensExclusive,
           IsAuthenticated, GenerationInv, RetryIsNewer, SerialInv, ReportInv, Sound
<1> QED
    BY <1>1, <1>2 DEF Inv

\* What the portal may do while a login is answered: it opens at most one
\* session, whose serial number is new.
LEMMA PortalTypes ==
    ASSUME Inv, UnchangedPortal \/ Opens
    PROVE  /\ issued' \in Tokens /\ issued <= issued'
           /\ live' \subseteq Sessions /\ lapsed' \subseteq Sessions
           /\ \A s \in live' : s <= issued' /\ (s <= issued => s \in live)
<1> USE DEF Inv, TypeOK, Tokens, Sessions
<1>1. CASE UnchangedPortal
    BY <1>1 DEF UnchangedPortal, SerialInv
<1>2. CASE Opens
    <2>1. PICK kept \in {live, {}} : live' = kept \cup {issued'}
        BY <1>2 DEF Opens
    <2>2. kept \subseteq live
        OBVIOUS
    <2>3. issued' = issued + 1 /\ issued < MaxSessions /\ lapsed' = lapsed
        BY <1>2 DEF Opens
    <2>4. issued' \in Sessions /\ issued' \in Tokens /\ issued <= issued'
        BY <2>3, MaxSessionsAssumption
    <2>5. \A s \in live' : s <= issued' /\ (s <= issued => s \in live)
        BY <2>1, <2>2, <2>3, <2>4 DEF SerialInv
    <2> QED
        BY <2>1, <2>2, <2>3, <2>4, <2>5
<1> QED
    BY <1>1, <1>2

\* A login that fails at any step, with or without a session opened at the
\* portal, keeps the invariant (_auth.py:149-230).
LEMMA LoginFailsKeepsInv ==
    ASSUME Inv, NEW c \in Callers, pc[c] \in LoginSteps, LoginFails(c),
           \/ UnchangedPortal
           \/ pc[c] = "login" /\ Opens
    PROVE  Inv'
<1>1. lock = c /\ \A d \in Callers : LoggingIn(d) => d = c
    BY DEF Inv, LockInv, LoggingIn
<1>2. TypeOK'
    <2>1. GuardTypeOK'
        <3>1. lock' \in Callers \cup {Nobody} /\ waiters' \in Seq(Callers)
            BY ReleaseType DEF Inv, TypeOK, LoginFails, Raise
        <3> QED
            BY <3>1 DEF Inv, TypeOK, GuardTypeOK, LoginFails, Raise, Ends, Stages
    <2>2. issued' \in Tokens /\ live' \subseteq Sessions /\ lapsed' \subseteq Sessions
        BY PortalTypes
    <2> QED
        BY <2>1, <2>2, MaxSessionsAssumption
        DEF Inv, TypeOK, LoginFails, Ends, At, Points, LoginSteps, Tokens
<1>3. \A d \in Callers : ~LoggingIn(d)'
    BY <1>1 DEF Inv, TypeOK, LoginFails, Ends, At, LoggingIn, LoginSteps
<1>4. LockInv'
    BY <1>3 DEF LockInv
<1>5. TokenInv'
    BY <1>3 DEF Inv, TokenInv, TokensExclusive, IsAuthenticated, LoginFails, LoggingIn, LoginSteps
<1>6. GenerationInv'
    BY DEF Inv, TypeOK, GuardTypeOK, GenerationInv, RetryIsNewer, LoginFails, Raise, Ends, At
<1>7. SerialInv'
    BY PortalTypes DEF Inv, TypeOK, SerialInv, LoginFails, Tokens
<1>8. Sound' => Sound
    BY PortalTypes DEF Inv, SerialInv, Sound, LoginFails
<1>9. ReportInv'
    BY <1>8 DEF Inv, TypeOK, GuardTypeOK, ReportInv, LoginFails, Raise, Ends, At
<1> QED
    BY <1>2, <1>4, <1>5, <1>6, <1>7, <1>9 DEF Inv

\* The two answers that only move a login on (_auth.py:149-209).
LEMMA EarlyStepsKeepInv ==
    ASSUME Inv, NEW c \in Callers, LandingOk(c) \/ TokenOk(c)
    PROVE  Inv'
<1>1. pc[c] \in {"landing", "token"} /\ ael = 0
    BY DEF Inv, TokenInv, LandingOk, TokenOk
<1>2. /\ \E point \in {"token", "login"} : pc' = [pc EXCEPT ![c] = point]
      /\ app' \in BOOLEAN
      /\ UNCHANGED <<guardVars, sent, ael, context, jolted, issued, live, lapsed>>
    BY DEF Inv, TypeOK, LandingOk, TokenOk, At, UnchangedPortal
<1>3. TypeOK'
    BY <1>2 DEF Inv, TypeOK, GuardTypeOK, guardVars, Points, LoginSteps
<1>4. LockInv'
    BY <1>1, <1>2 DEF Inv, TypeOK, LockInv, LoggingIn, LoginSteps, guardVars
<1>5. TokenInv'
    BY <1>1, <1>2 DEF TokenInv, TokensExclusive, IsAuthenticated
<1>6. GenerationInv'
    BY <1>2 DEF Inv, TypeOK, GenerationInv, RetryIsNewer, guardVars
<1>7. SerialInv'
    BY <1>2 DEF Inv, SerialInv
<1>8. ReportInv'
    BY <1>2 DEF Inv, TypeOK, ReportInv, Sound, guardVars
<1> QED
    BY <1>3, <1>4, <1>5, <1>6, <1>7, <1>8 DEF Inv

\* Step 3 is answered: no other task is inside a login, so nobody relies on
\* the token being unset; the session is not sound before step 5.
LEMMA LoginOkKeepsInv ==
    ASSUME Inv, NEW c \in Callers, LoginOk(c)
    PROVE  Inv'
<1>1. pc[c] = "login" /\ \A d \in Callers : LoggingIn(d) => d = c
    BY DEF Inv, LockInv, LoggingIn, LoginSteps, LoginOk
<1>2. issued' = issued + 1 /\ ael' = issued' /\ app' = FALSE
    BY DEF LoginOk, Opens
<1>3. TypeOK'
    BY PortalTypes, <1>2 DEF Inv, TypeOK, GuardTypeOK, LoginOk, At, Points, LoginSteps, guardVars
<1>4. LockInv'
    BY <1>1 DEF Inv, TypeOK, LockInv, LoggingIn, LoginOk, At, LoginSteps, guardVars
<1>5. TokenInv'
    BY <1>1, <1>2 DEF Inv, TypeOK, TokenInv, TokensExclusive, LoggingIn, LoginSteps, LoginOk, At
<1>6. GenerationInv'
    BY DEF Inv, TypeOK, GenerationInv, RetryIsNewer, LoginOk, At, guardVars
<1>7. SerialInv'
    BY PortalTypes, <1>2 DEF Inv, TypeOK, SerialInv, LoginOk, Tokens
<1>8. ~Sound'
    BY <1>2 DEF Inv, TypeOK, SerialInv, Sound, LoginOk, Tokens
<1>9. ReportInv'
    BY <1>8 DEF ReportInv
<1> QED
    BY <1>3, <1>4, <1>5, <1>6, <1>7, <1>9 DEF Inv

\* A login is completed: its generation is newer than any that was seen, and
\* the request that follows at once carries its token.
LEMMA ContractOkKeepsInv ==
    ASSUME Inv, NEW c \in Callers, ContractOk(c)
    PROVE  Inv'
<1>1. pc[c] = "contract" /\ \A d \in Callers : LoggingIn(d) => d = c
    BY DEF Inv, LockInv, LoggingIn, LoginSteps, ContractOk
<1>2. /\ generation' = generation + 1
      /\ \A d \in Callers : seen'[d] = IF d = c /\ stage[c] = "run" THEN generation'
                                                                  ELSE seen[d]
    BY DEF Inv, TypeOK, GuardTypeOK, ContractOk, Return
<1>3. TypeOK'
    <2>1. lock' \in Callers \cup {Nobody} /\ waiters' \in Seq(Callers)
        BY ReleaseType DEF Inv, TypeOK, ContractOk, Return
    <2>2. GuardTypeOK'
        <3>1. stage' \in [Callers -> Stages]
            BY DEF Inv, TypeOK, GuardTypeOK, ContractOk, Proceeds, Ends, Stages
        <3>2. generation' \in Nat /\ seen' \in [Callers -> Nat]
            BY DEF Inv, TypeOK, GuardTypeOK, ContractOk, Return
        <3> QED
            BY <2>1, <3>1, <3>2 DEF GuardTypeOK
    <2>3. pc' \in [Callers -> Points] /\ sent' \in [Callers -> Tokens] /\ jolted' \subseteq Callers
        BY MaxSessionsAssumption
        DEF Inv, TypeOK, ContractOk, Proceeds, Ends, At, Points, LoginSteps, Tokens
    <2> QED
        BY <2>2, <2>3 DEF Inv, TypeOK, ContractOk, UnchangedPortal
<1>4. \A d \in Callers : ~LoggingIn(d)'
    BY <1>1 DEF Inv, TypeOK, LoggingIn, ContractOk, Proceeds, Ends, At, LoginSteps
<1>5. LockInv'
    BY <1>4 DEF LockInv
<1>6. TokenInv'
    BY <1>4 DEF Inv, TokenInv, TokensExclusive, IsAuthenticated, ContractOk, LoggingIn, LoginSteps
<1>7. GenerationInv'
    <2>1. \A d \in Callers : seen'[d] <= generation'
        BY <1>2 DEF Inv, TypeOK, GuardTypeOK, GenerationInv
    <2>2. \A d \in Callers \ {c} : stage'[d] = stage[d] /\ pc'[d] = pc[d]
        BY DEF Inv, TypeOK, GuardTypeOK, ContractOk, Proceeds, Ends, At
    <2>3. stage'[c] \in {stage[c], "none"}
        BY DEF Inv, TypeOK, GuardTypeOK, ContractOk, Proceeds, Ends
    <2>4. RetryIsNewer'
        BY <1>2, <2>2, <2>3 DEF Inv, TypeOK, GuardTypeOK, GenerationInv, RetryIsNewer
    <2> QED
        BY <2>1, <2>4 DEF GenerationInv
<1>8. SerialInv'
    BY DEF Inv, SerialInv, ContractOk, UnchangedPortal
<1>9. ReportInv'
    <2>1. \A d \in Callers : seen'[d] = generation' => d = c /\ stage[c] = "run"
        BY <1>2 DEF Inv, TypeOK, GuardTypeOK, GenerationInv
    <2>2. stage[c] = "run" =>
            stage'[c] = "run" /\ (pc'[c] = "flight" => sent'[c] = ael')
        BY DEF Inv, TypeOK, GuardTypeOK, ContractOk, Proceeds, At
    <2> QED
        BY <2>1, <2>2 DEF ReportInv
<1> QED
    BY <1>3, <1>5, <1>6, <1>7, <1>8, <1>9 DEF Inv

\* The requests of an action and the portal's own steps.
LEMMA ActionStepsKeepInv ==
    ASSUME Inv, NEW c \in Callers, Send(c) \/ Answered(c)
    PROVE  Inv'
<1> USE DEF UnchangedPortal
<1>1. /\ pc[c] \in {"spawned", "flight"}
      /\ UNCHANGED <<lock, waiters, generation, app, ael, context, issued, live, lapsed>>
    BY DEF Send, Answered, Leave, guardVars
<1>2. TypeOK'
    <2>1. GuardTypeOK'
        <3>1. CASE Send(c)
            BY <3>1 DEF Inv, TypeOK, GuardTypeOK, Send, guardVars
        <3>2. CASE Answered(c)
            BY <3>2 DEF Inv, TypeOK, GuardTypeOK, Answered, Leave, Ends, Stages
        <3> QED
            BY <3>1, <3>2
    <2> QED
        BY <1>1, <2>1, MaxSessionsAssumption
        DEF Inv, TypeOK, Send, Answered, Leave, Ends, At, Points, LoginSteps, Tokens
<1>3. LockInv'
    BY <1>1 DEF Inv, TypeOK, LockInv, LoggingIn, LoginSteps, Send, Answered, Ends, At
<1>4. TokenInv'
    BY <1>1 DEF Inv, TypeOK, TokenInv, TokensExclusive, IsAuthenticated, Send, Answered, Ends, At
<1>5. GenerationInv'
    <2>1. CASE Send(c)
        BY <2>1 DEF Inv, TypeOK, GenerationInv, RetryIsNewer, Send, At, guardVars
    <2>2. CASE Answered(c)
        BY <2>2 DEF Inv, TypeOK, GuardTypeOK, GenerationInv, RetryIsNewer, Answered, Leave,
                    Ends, At
    <2> QED
        BY <2>1, <2>2
<1>6. SerialInv'
    BY <1>1 DEF Inv, SerialInv
<1>7. ReportInv'
    BY <1>1 DEF Inv, TypeOK, GuardTypeOK, ReportInv, Sound, Send, Answered, Leave, Ends, At,
                guardVars
<1> QED
    BY <1>2, <1>3, <1>4, <1>5, <1>6, <1>7 DEF Inv

\* A refused request is reported about an unsound session, or about an earlier
\* generation.
LEMMA RefusedIsUnsound ==
    ASSUME Inv, NEW c \in Callers, pc[c] = "flight", stage[c] = "run", sent[c] \notin live
    PROVE  Stale(c, "retry") => ~Sound
BY DEF Inv, ReportInv, Stale, Sound

\* A waiter that resumes to report an expiry reports it about an unsound one.
LEMMA QueuedIsUnsound ==
    ASSUME Inv, NEW c \in Callers, pc[c] = "queued"
    PROVE  Stale(c, stage[c]) => ~Sound
BY DEF Inv, ReportInv, Stale

\* Every step of the system keeps the invariant.
LEMMA NextKeepsInv == Inv /\ [Next]_vars => Inv'
<1> SUFFICES ASSUME Inv, [Next]_vars PROVE Inv'
    OBVIOUS
<1>1. ASSUME NEW c \in Callers, Start(c) PROVE Inv'
    <2>1. PICK s \in {"open", "run"} : Call(c, s)
        BY <1>1 DEF Start
    <2>2. ~LoggingIn(c) /\ ~Stale(c, s) /\ s \in Stages
        BY <1>1 DEF Start, LoggingIn, LoginSteps, Stale, Stages
    <2> QED
        BY <1>1, <2>1, <2>2, CallKeepsInv DEF Start
<1>2. ASSUME NEW c \in Callers, Resume(c) PROVE Inv'
    <2>1. ~LoggingIn(c) /\ stage[c] \in Stages
        BY <1>2 DEF Inv, TypeOK, GuardTypeOK, Resume, LoggingIn, LoginSteps
    <2>2. Stale(c, stage[c]) => ~Sound
        BY <1>2, QueuedIsUnsound DEF Resume
    <2> QED
        BY <1>2, <2>1, <2>2, EnsureKeepsInv DEF Resume
<1>3. ASSUME NEW c \in Callers, LandingOk(c) \/ TokenOk(c) PROVE Inv'
    BY <1>3, EarlyStepsKeepInv
<1>4. ASSUME NEW c \in Callers, LoginOk(c) PROVE Inv'
    BY <1>4, LoginOkKeepsInv
<1>5. ASSUME NEW c \in Callers, ContractOk(c) PROVE Inv'
    BY <1>5, ContractOkKeepsInv
<1>6. ASSUME NEW c \in Callers, StepFails(c) PROVE Inv'
    BY <1>6, LoginFailsKeepsInv DEF StepFails
<1>7. ASSUME NEW c \in Callers, LoginUnusable(c) PROVE Inv'
    BY <1>7, LoginFailsKeepsInv DEF LoginUnusable, LoginSteps
<1>8. ASSUME NEW c \in Callers, Send(c) \/ Answered(c) PROVE Inv'
    BY <1>8, ActionStepsKeepInv
<1>9. ASSUME NEW c \in Callers, Refused(c) PROVE Inv'
    <2>1. ~LoggingIn(c) /\ "retry" \in Stages
        BY <1>9 DEF Refused, LoggingIn, LoginSteps, Stages
    <2>2. CASE stage[c] = "run" /\ Call(c, "retry")
        <3>1. Stale(c, "retry") => ~Sound
            BY <1>9, <2>2, RefusedIsUnsound DEF Refused
        <3> QED
            BY <1>9, <2>1, <2>2, <3>1, CallKeepsInv DEF Refused
    <2>3. CASE stage[c] = "retry" /\ Leave(c) /\ Ends(c) /\ UNCHANGED <<app, ael, context>>
        BY <1>9, <2>3, ActionStepsKeepInv DEF Refused, Answered
    <2> QED
        BY <1>9, <2>2, <2>3 DEF Refused
<1>10. ASSUME NEW s \in Sessions, Lapse(s) PROVE Inv'
    <2>1. UNCHANGED <<guardVars, pc, sent, app, ael, context, issued>> /\ live' \subseteq live
        BY <1>10 DEF Lapse
    <2>2. TypeOK'
        BY <1>10, <2>1 DEF Inv, TypeOK, GuardTypeOK, Lapse, guardVars
    <2>3. LockInv' /\ TokenInv' /\ GenerationInv' /\ SerialInv' /\ ReportInv'
        BY <2>1 DEF Inv, LockInv, LoggingIn, TokenInv, TokensExclusive, IsAuthenticated,
                    GenerationInv, RetryIsNewer, SerialInv, ReportInv, Sound, guardVars
    <2> QED
        BY <2>2, <2>3 DEF Inv
<1>11. CASE UNCHANGED vars
    BY <1>11 DEF Inv, TypeOK, GuardTypeOK, LockInv, LoggingIn, TokenInv, TokensExclusive,
                 IsAuthenticated, GenerationInv, RetryIsNewer, SerialInv, ReportInv, Sound,
                 vars, guardVars, portalVars
<1> QED
    BY <1>1, <1>2, <1>3, <1>4, <1>5, <1>6, <1>7, <1>8, <1>9, <1>10, <1>11
    DEF Next, Step, LoginStep

-------------------------------------------------------------------------------
\* The invariant holds in every reachable state.
THEOREM InvHolds == Spec => []Inv
<1>1. Init => Inv
    BY InitInv
<1>2. Inv /\ [Next]_vars => Inv'
    BY NextKeepsInv
<1> QED
    BY <1>1, <1>2, PTL DEF Spec

\* Every variable keeps its type, whatever fails and in whatever order.
THEOREM TypeCorrect == Spec => []TypeOK
<1>1. Inv => TypeOK
    BY DEF Inv
<1> QED
    BY <1>1, InvHolds, PTL

\* Two tasks never run authenticate() at once: the lock of ensure() is held
\* from the landing request to the counted login (_session.py:52-58).
THEOREM OneLoginAtATime == Spec => []OneLogin
<1>1. Inv => OneLogin
    BY DEF Inv, LockInv, OneLogin
<1> QED
    BY <1>1, InvHolds, PTL

\* The app token and the AEL token are never both set, also after logins that
\* failed half way (_auth.py:247-255).
THEOREM TokensNeverBothSet == Spec => []TokensExclusive
<1>1. Inv => TokensExclusive
    BY DEF Inv, TokenInv
<1> QED
    BY <1>1, InvHolds, PTL

\* The second pass of run() works on a later generation than the first.
THEOREM RetryUsesNewerLogin == Spec => []RetryIsNewer
<1>1. Inv => RetryIsNewer
    BY DEF Inv, GenerationInv
<1> QED
    BY <1>1, InvHolds, PTL

\* Only an unsound session is given up for another one or for none: the task
\* that drops it found it expired, or is the one that logs in without any.
LEMMA StepDropsUnsound ==
    ASSUME Inv, [Next]_vars, ael' # ael
    PROVE  ~Sound
<1>1. ASSUME NEW c \in Callers, NEW s \in Stages, Ensure(c, s), Stale(c, s) => ~Sound
      PROVE  ~Sound
    BY <1>1 DEF Ensure, IsAuthenticated, Sound, Inv, TypeOK, Sessions
<1>2. ASSUME NEW c \in Callers, Start(c) PROVE ~Sound
    BY <1>1, <1>2 DEF Start, Call, Stale, Stages
<1>3. ASSUME NEW c \in Callers, Resume(c) PROVE ~Sound
    BY <1>1, <1>3, QueuedIsUnsound DEF Resume, Inv, TypeOK, GuardTypeOK
<1>4. ASSUME NEW c \in Callers, LoginStep(c) PROVE ~Sound
    BY <1>4 DEF Inv, TypeOK, Sessions, Sound, TokenInv, LoginStep, LandingOk, TokenOk, LoginOk,
                ContractOk, StepFails, LoginUnusable, LoginFails
<1>5. ASSUME NEW c \in Callers, Send(c) \/ Answered(c) PROVE ~Sound
    BY <1>5 DEF Send, Answered
<1>6. ASSUME NEW c \in Callers, Refused(c) PROVE ~Sound
    BY <1>1, <1>6, RefusedIsUnsound DEF Refused, Call, Stages
<1>7. ASSUME NEW s \in Sessions, Lapse(s) PROVE ~Sound
    BY <1>7 DEF Lapse
<1>8. CASE UNCHANGED vars
    BY <1>8 DEF vars, portalVars
<1> QED
    BY <1>2, <1>3, <1>4, <1>5, <1>6, <1>7, <1>8 DEF Next, Step

\* A completed session that the portal still honours is never given up: a late
\* report of an expiry cannot reset the token of a later login.
THEOREM NoFreshSessionLost == Spec => NoLiveSessionDropped
<1> DEFINE Kept == IsAuthenticated /\ ael' # ael => ael \notin live \/ context # ael
<1>1. Inv /\ [Next]_vars => [Kept]_vars
    BY StepDropsUnsound DEF Sound
<1> QED
    BY <1>1, InvHolds, PTL DEF Spec, NoLiveSessionDropped

-------------------------------------------------------------------------------
(***************************************************************************)
(* How often the client logs in.  Serial numbers grow, so the sessions     *)
(* whose login was completed are among those up to the one the cookie is   *)
(* for; each of them but the last has lapsed, for otherwise it had not     *)
(* been given up.                                                          *)
(***************************************************************************)

\* The sessions up to the cookie's that lapsed, and the cookie's own.
Completed == {s \in lapsed \cup {context} : s \in 1..context}

CountInv == generation <= Cardinality(Completed)

\* A session that is held and dead, or completed and not held any more, lapsed
\* while it was held; the session of an unfinished login is the newest.
EndedInv ==
    /\ ael # 0 /\ ael \notin live => ael \in lapsed
    /\ context # 0 /\ context # ael => context \in lapsed
    /\ \A c \in Callers : pc[c] = "contract" => context < ael

LapseInv == CountInv /\ EndedInv

LEMMA BoundedFinite ==
    ASSUME NEW S, NEW n \in Nat
    PROVE  LET T == {s \in S : s \in 1..n} IN IsFiniteSet(T) /\ Cardinality(T) \in Nat
<1> DEFINE T == {s \in S : s \in 1..n}
<1>1. IsFiniteSet(1..n) /\ T \subseteq 1..n
    BY FS_Interval
<1> QED
    BY <1>1, FS_Subset, FS_CardinalityType

\* The steps that neither open nor complete nor end a session.
LEMMA QuietKeepsLapseInv ==
    ASSUME LapseInv, UNCHANGED <<generation, context, live, lapsed>>,
           ael' = ael \/ (ael' = 0 /\ ~Sound),
           \A c \in Callers : pc'[c] = "contract" => pc[c] = "contract" /\ ael' = ael
    PROVE  LapseInv'
<1>1. CountInv'
    BY DEF LapseInv, CountInv, Completed
<1>2. EndedInv'
    BY DEF LapseInv, EndedInv, Sound
<1> QED
    BY <1>1, <1>2 DEF LapseInv

LEMMA EnsureKeepsLapseInv ==
    ASSUME Inv, LapseInv, NEW c \in Callers, NEW s \in Stages,
           lock \in {c, Nobody}, ~LoggingIn(c),
           Stale(c, s) => ~Sound,
           Ensure(c, s), UnchangedPortal
    PROVE  LapseInv'
<1>1. \A d \in Callers : pc[d] # "contract"
    BY NobodyAssumption DEF Inv, LockInv, LoggingIn, LoginSteps
<1>2. UNCHANGED <<generation, context, live, lapsed>>
    BY DEF Ensure, Return, Keep, UnchangedPortal
<1>3. ael' = ael \/ (ael' = 0 /\ ~Sound)
    BY DEF Ensure, IsAuthenticated, Sound, Inv, TypeOK, Sessions
<1>4. \A d \in Callers : pc'[d] # "contract"
    BY <1>1 DEF Ensure, Proceeds, Ends, At, Inv, TypeOK
<1> QED
    BY <1>2, <1>3, <1>4, QuietKeepsLapseInv

LEMMA CallKeepsLapseInv ==
    ASSUME Inv, LapseInv, NEW c \in Callers, NEW s \in Stages,
           ~LoggingIn(c),
           Stale(c, s) => ~Sound,
           Call(c, s), UnchangedPortal
    PROVE  LapseInv'
<1>1. CASE lock = Nobody /\ Ensure(c, s)
    BY <1>1, EnsureKeepsLapseInv
<1>2. CASE Enqueue(c) /\ At(c, "queued") /\ UNCHANGED <<app, ael, context, jolted>>
    BY <1>2, QuietKeepsLapseInv DEF Enqueue, At, UnchangedPortal, Inv, TypeOK
<1> QED
    BY <1>1, <1>2 DEF Call

\* A session opens: step 3 is answered, or its answer cannot be used.
LEMMA OpensKeepsLapseInv ==
    ASSUME Inv, LapseInv, NEW c \in Callers, LoginOk(c) \/ LoginUnusable(c)
    PROVE  LapseInv'
<1>1. /\ ael = 0 /\ issued' = issued + 1 /\ issued' \in live'
      /\ UNCHANGED <<generation, context, lapsed>>
      /\ ael' = issued' \/ (ael' = 0 /\ pc' = [pc EXCEPT ![c] = "idle"])
    BY DEF Inv, TokenInv, LoginOk, LoginUnusable, LoginFails, Raise, Ends, At, Opens, guardVars
<1>2. CountInv'
    BY <1>1 DEF LapseInv, CountInv, Completed
<1>3. \A d \in Callers : pc[d] # "contract"
    BY DEF Inv, LockInv, LoggingIn, LoginSteps, LoginOk, LoginUnusable
<1>4. context < issued'
    BY <1>1 DEF Inv, TypeOK, SerialInv, Tokens
<1>5. EndedInv'
    BY <1>1, <1>3, <1>4 DEF LapseInv, EndedInv, Inv, TypeOK
<1> QED
    BY <1>2, <1>5 DEF LapseInv

\* A login is completed: the session completed before it has lapsed, and the
\* new one is not yet counted.
LEMMA ContractOkKeepsLapseInv ==
    ASSUME Inv, LapseInv, NEW c \in Callers, ContractOk(c)
    PROVE  LapseInv'
<1>1. /\ pc[c] = "contract" /\ context' = ael /\ generation' = generation + 1
      /\ UNCHANGED <<ael, live, lapsed>>
    BY DEF ContractOk, Return, UnchangedPortal
<1>2. context \in Nat /\ ael \in Nat /\ generation \in Nat /\ context < ael
    BY <1>1, MaxSessionsAssumption DEF LapseInv, EndedInv, Inv, TypeOK, GuardTypeOK, Tokens
<1>3. Completed \cup {ael} \subseteq Completed' /\ ael \notin Completed
    BY <1>1, <1>2 DEF LapseInv, EndedInv, Completed
<1>4. /\ IsFiniteSet(Completed) /\ Cardinality(Completed) \in Nat
      /\ IsFiniteSet(Completed') /\ Cardinality(Completed') \in Nat
    <2>1. Completed \subseteq 1..context /\ context \in Nat
        BY <1>2 DEF Completed
    <2>2. Completed' \subseteq 1..ael /\ ael \in Nat
        BY <1>1, <1>2 DEF Completed
    <2>3. IsFiniteSet(Completed) /\ Cardinality(Completed) \in Nat
        BY <2>1, BoundedFinite
    <2>4. IsFiniteSet(Completed') /\ Cardinality(Completed') \in Nat
        BY <2>2, BoundedFinite
    <2> QED
        BY <2>3, <2>4
<1>5. Cardinality(Completed \cup {ael}) = Cardinality(Completed) + 1
    BY <1>3, <1>4, FS_AddElement
<1>6. Cardinality(Completed \cup {ael}) <= Cardinality(Completed')
    BY <1>3, <1>4, FS_Subset
<1>7. CountInv'
    <2>1. Cardinality(Completed \cup {ael}) \in Nat
        BY <1>4, <1>5
    <2> QED
        BY <1>1, <1>2, <1>4, <1>5, <1>6, <2>1 DEF LapseInv, CountInv
<1>8. \A d \in Callers : pc'[d] # "contract"
    <2>1. \A d \in Callers : LoggingIn(d) => d = c
        BY <1>1 DEF Inv, LockInv, LoggingIn, LoginSteps
    <2> QED
        BY <1>1, <2>1 DEF Inv, TypeOK, LoggingIn, LoginSteps, ContractOk, Proceeds, Ends, At
<1>9. EndedInv'
    BY <1>1, <1>8 DEF LapseInv, EndedInv
<1> QED
    BY <1>7, <1>9 DEF LapseInv

\* The portal ends a session: the set of lapsed ones only grows.
LEMMA LapseKeepsLapseInv ==
    ASSUME Inv, LapseInv, NEW s \in Sessions, Lapse(s)
    PROVE  LapseInv'
<1>1. /\ UNCHANGED <<generation, pc, ael, context>>
      /\ live' = live \ {s} /\ lapsed \subseteq lapsed' /\ (s = ael => ael \in lapsed')
    BY DEF Lapse, guardVars
<1>2. CountInv'
    <2>1. IsFiniteSet(Completed') /\ Cardinality(Completed') \in Nat /\ Cardinality(Completed) \in Nat
        BY <1>1, BoundedFinite DEF Completed, Inv, TypeOK, Tokens
    <2>2. Completed \subseteq Completed'
        BY <1>1 DEF Completed
    <2>3. Cardinality(Completed) <= Cardinality(Completed')
        BY <2>1, <2>2, FS_Subset
    <2> QED
        BY <1>1, <2>1, <2>3 DEF LapseInv, CountInv, Inv, TypeOK, GuardTypeOK
<1>3. EndedInv'
    BY <1>1 DEF LapseInv, EndedInv
<1> QED
    BY <1>2, <1>3 DEF LapseInv

LEMMA NextKeepsLapseInv ==
    ASSUME Inv, LapseInv, [Next]_vars
    PROVE  LapseInv'
<1>1. ASSUME NEW c \in Callers, Start(c) PROVE LapseInv'
    BY <1>1, CallKeepsLapseInv DEF Start, LoggingIn, LoginSteps, Stale, Stages
<1>2. ASSUME NEW c \in Callers, Resume(c) PROVE LapseInv'
    <2>1. ~LoggingIn(c) /\ stage[c] \in Stages
        BY <1>2 DEF Inv, TypeOK, GuardTypeOK, Resume, LoggingIn, LoginSteps
    <2> QED
        BY <1>2, <2>1, QueuedIsUnsound, EnsureKeepsLapseInv DEF Resume
<1>3. ASSUME NEW c \in Callers, LandingOk(c) \/ TokenOk(c) \/ Send(c) \/ Answered(c) \/ StepFails(c)
      PROVE  LapseInv'
    <2>1. UNCHANGED <<generation, context, live, lapsed, ael>>
        BY <1>3 DEF LandingOk, TokenOk, Send, Answered, StepFails, LoginFails, Raise, Leave,
                    UnchangedPortal, guardVars
    <2>2. \A d \in Callers : pc'[d] = "contract" => pc[d] = "contract"
        BY <1>3 DEF Inv, TypeOK, LandingOk, TokenOk, Send, Answered, StepFails, LoginFails, Ends, At
    <2> QED
        BY <2>1, <2>2, QuietKeepsLapseInv
<1>4. ASSUME NEW c \in Callers, LoginOk(c) \/ LoginUnusable(c) PROVE LapseInv'
    BY <1>4, OpensKeepsLapseInv
<1>5. ASSUME NEW c \in Callers, ContractOk(c) PROVE LapseInv'
    BY <1>5, ContractOkKeepsLapseInv
<1>6. ASSUME NEW c \in Callers, Refused(c) PROVE LapseInv'
    <2>1. CASE stage[c] = "run" /\ Call(c, "retry")
        BY <1>6, <2>1, RefusedIsUnsound, CallKeepsLapseInv DEF Refused, LoggingIn, LoginSteps, Stages
    <2>2. CASE stage[c] = "retry" /\ Leave(c) /\ Ends(c) /\ UNCHANGED <<app, ael, context>>
        BY <1>3, <1>6, <2>2 DEF Refused, Answered
    <2> QED
        BY <1>6, <2>1, <2>2 DEF Refused
<1>7. ASSUME NEW s \in Sessions, Lapse(s) PROVE LapseInv'
    BY <1>7, LapseKeepsLapseInv
<1>8. CASE UNCHANGED vars
    BY <1>8, QuietKeepsLapseInv DEF vars, guardVars, portalVars
<1> QED
    BY <1>1, <1>2, <1>3, <1>4, <1>5, <1>6, <1>7, <1>8 DEF Next, Step, LoginStep

LEMMA LapseInvHolds == Spec => []LapseInv
<1>1. Init => LapseInv
    <2>1. ASSUME Init PROVE LapseInv
        <3>1. Completed = {}
            BY <2>1 DEF Init, Completed
        <3> QED
            BY <2>1, <3>1, FS_EmptySet DEF Init, GuardInit, LapseInv, CountInv, EndedInv
    <2> QED
        BY <2>1
<1>2. Inv /\ LapseInv /\ [Next]_vars => LapseInv'
    BY NextKeepsLapseInv
<1> QED
    BY <1>1, <1>2, InvHolds, PTL DEF Spec

\* N concurrent expiries cost one login: the completed logins are at most one
\* more than the sessions that lapsed while they were held (_session.py:52-62).
THEOREM OneLoginPerLapse == Spec => []LoginsPerLapse
<1>1. Inv /\ LapseInv => LoginsPerLapse
    <2> SUFFICES ASSUME Inv, LapseInv PROVE LoginsPerLapse
        OBVIOUS
    <2>1. IsFiniteSet(lapsed) /\ context \in Nat
        <3>1. IsFiniteSet(1..MaxSessions) /\ lapsed \subseteq 1..MaxSessions
            BY FS_Interval, MaxSessionsAssumption DEF Inv, TypeOK, Sessions
        <3>2. context \in Nat
            BY MaxSessionsAssumption DEF Inv, TypeOK, Tokens
        <3> QED
            BY <3>1, <3>2, FS_Subset
    <2>2. /\ IsFiniteSet(lapsed \cup {context}) /\ Cardinality(lapsed) \in Nat
          /\ Cardinality(lapsed \cup {context}) <= Cardinality(lapsed) + 1
        <3>1. Cardinality(lapsed) \in Nat
            BY <2>1, FS_CardinalityType
        <3>2. /\ IsFiniteSet(lapsed \cup {context})
              /\ Cardinality(lapsed \cup {context})
                    = IF context \in lapsed THEN Cardinality(lapsed) ELSE Cardinality(lapsed) + 1
            BY <2>1, FS_AddElement
        <3> QED
            BY <3>1, <3>2
    <2>3. /\ Cardinality(Completed) <= Cardinality(lapsed \cup {context})
          /\ Cardinality(Completed) \in Nat /\ Cardinality(lapsed \cup {context}) \in Nat
        BY <2>1, <2>2, FS_Subset, FS_CardinalityType, BoundedFinite DEF Completed
    <2> QED
        BY <2>2, <2>3 DEF LapseInv, CountInv, LoginsPerLapse, Inv, TypeOK, GuardTypeOK
<1> QED
    BY <1>1, LapseInvHolds, InvHolds, PTL

-------------------------------------------------------------------------------
(***************************************************************************)
(* Whose second pass is refused.  Once a login has been completed that is  *)
(* newer than what a task saw, the session stays sound until the portal    *)
(* ends it, and with it ends the calm of every call under way: a sound     *)
(* session is neither dropped nor replaced (StepDropsUnsound).             *)
(***************************************************************************)

\* A task that has remembered the generation of its first pass.
Past(c) == stage[c] = "retry" \/ (stage[c] = "run" /\ pc[c] \in {"spawned", "flight"})

Calm(c) == Past(c) /\ c \notin jolted

RenewedInv == \A c \in Callers : Calm(c) /\ seen[c] < generation => Sound

OpenedInv == \A c, d \in Callers : Calm(c) /\ pc[d] = "contract" => ael \in live

SentInv ==
    \A c \in Callers : Calm(c) /\ stage[c] = "retry" /\ pc[c] = "flight" => sent[c] = ael

CalmInv == RenewedInv /\ OpenedInv /\ SentInv

\* What a step does to the session that is held as far as calm tasks care: it
\* stays as it is, or no calm task has seen an earlier generation.
LEMMA UnsoundIsUnseen ==
    ASSUME Inv, CalmInv, NEW c \in Callers, Calm(c), ~Sound
    PROVE  seen[c] = generation /\ ~(stage[c] = "retry" /\ pc[c] \in {"spawned", "flight"})
BY DEF Inv, TypeOK, GuardTypeOK, GenerationInv, RetryIsNewer, CalmInv, RenewedInv

LEMMA EnsureKeepsCalmInv ==
    ASSUME Inv, CalmInv, NEW c \in Callers, NEW s \in Stages,
           lock \in {c, Nobody}, ~LoggingIn(c),
           s = "retry" => Past(c),
           Stale(c, s) => ~Sound,
           Ensure(c, s), UnchangedPortal
    PROVE  CalmInv'
<1>1. \A d \in Callers : pc[d] # "contract"
    BY NobodyAssumption DEF Inv, LockInv, LoggingIn, LoginSteps
<1>2. CASE IsAuthenticated /\ ~Stale(c, s) /\ Return(c, s, generation)
           /\ Proceeds(c, s, ael) /\ UNCHANGED <<app, ael, context>>
    <2>1. \A d \in Callers : Calm(d)' /\ seen'[d] < generation' => Calm(d) /\ seen[d] < generation
        BY <1>2 DEF Inv, TypeOK, GuardTypeOK, Calm, Past, Return, Proceeds, Ends, At, Stages
    <2>2. RenewedInv'
        BY <1>2, <2>1 DEF CalmInv, RenewedInv, Sound, UnchangedPortal
    <2>3. OpenedInv'
        BY <1>1, <1>2 DEF Inv, TypeOK, OpenedInv, Proceeds, Ends, At
    <2>4. SentInv'
        BY <1>2 DEF Inv, TypeOK, GuardTypeOK, CalmInv, SentInv, Calm, Past, Proceeds, Ends, At
    <2> QED
        BY <2>2, <2>3, <2>4 DEF CalmInv
<1>3. CASE /\ ~IsAuthenticated \/ Stale(c, s)
           /\ Keep(c)
           /\ app' = FALSE
           /\ ael' = 0
           /\ At(c, "landing")
           /\ stage' = [stage EXCEPT ![c] = s]
           /\ sent' = [sent EXCEPT ![c] = 0]
           /\ UNCHANGED <<context, jolted>>
    <2>1. ~Sound
        BY <1>3 DEF IsAuthenticated, Sound, Inv, TypeOK, Sessions
    <2>2. \A d \in Callers : Calm(d)' => Calm(d)
        BY <1>3 DEF Inv, TypeOK, GuardTypeOK, Calm, Past, At, Stages
    <2>3. RenewedInv'
        BY <1>3, <2>1, <2>2 DEF CalmInv, RenewedInv, Keep
    <2>4. OpenedInv'
        BY <1>1, <1>3 DEF Inv, TypeOK, OpenedInv, At
    <2>5. SentInv'
        BY <1>3, <2>1, <2>2, UnsoundIsUnseen DEF Inv, TypeOK, GuardTypeOK, SentInv, Calm, At
    <2> QED
        BY <2>3, <2>4, <2>5 DEF CalmInv
<1> QED
    BY <1>2, <1>3 DEF Ensure

LEMMA CallKeepsCalmInv ==
    ASSUME Inv, CalmInv, NEW c \in Callers, NEW s \in Stages,
           ~LoggingIn(c),
           s = "retry" => Past(c),
           Stale(c, s) => ~Sound,
           Call(c, s), UnchangedPortal
    PROVE  CalmInv'
<1>1. CASE lock = Nobody /\ Ensure(c, s)
    BY <1>1, EnsureKeepsCalmInv
<1>2. CASE /\ Enqueue(c)
           /\ At(c, "queued")
           /\ stage' = [stage EXCEPT ![c] = s]
           /\ sent' = [sent EXCEPT ![c] = 0]
           /\ UNCHANGED <<app, ael, context, jolted>>
    <2>1. \A d \in Callers : Calm(d)' => Calm(d) /\ (pc'[d] = "flight" => UNCHANGED <<stage[d], pc[d], sent[d]>>)
        BY <1>2 DEF Inv, TypeOK, GuardTypeOK, Calm, Past, At, Stages
    <2>2. \A d \in Callers : pc'[d] = "contract" => pc[d] = "contract"
        BY <1>2 DEF Inv, TypeOK, At
    <2> QED
        BY <1>2, <2>1, <2>2
        DEF CalmInv, RenewedInv, OpenedInv, SentInv, Sound, Enqueue, UnchangedPortal
<1> QED
    BY <1>1, <1>2 DEF Call

\* A step of a login before its end; no task sees another generation.
LEMMA LoginKeepsCalmInv ==
    ASSUME Inv, CalmInv, NEW c \in Callers,
           \/ LandingOk(c) \/ TokenOk(c) \/ LoginOk(c)
           \/ StepFails(c) \/ LoginUnusable(c)
    PROVE  CalmInv'
<1>1. \A d \in Callers : Calm(d)' => Calm(d) /\ UNCHANGED <<stage[d], seen[d], sent[d]>>
                                     /\ (pc'[d] = "flight" => pc[d] = "flight")
    BY DEF Inv, TypeOK, GuardTypeOK, Calm, Past, LandingOk, TokenOk, LoginOk, StepFails,
           LoginUnusable, LoginFails, Raise, Ends, At, guardVars
<1>2. CASE LoginOk(c) \/ LoginUnusable(c)
    <2>1. ael = 0 /\ ~Sound /\ generation' = generation
        BY <1>2 DEF Inv, TypeOK, Sessions, Sound, TokenInv, LoginOk, LoginUnusable, LoginFails,
                    Raise, guardVars
    <2>2. RenewedInv' /\ SentInv'
        BY <1>1, <2>1, UnsoundIsUnseen DEF RenewedInv, SentInv, Inv, TypeOK, GuardTypeOK, CalmInv
    <2>3. OpenedInv'
        <3>1. CASE LoginOk(c)
            BY <3>1 DEF OpenedInv, LoginOk, Opens
        <3>2. CASE LoginUnusable(c)
            <4>1. \A d \in Callers : pc'[d] # "contract"
                BY <3>2 DEF Inv, TypeOK, LockInv, LoggingIn, LoginSteps, LoginUnusable, LoginFails,
                            Ends, At
            <4> QED
                BY <4>1 DEF OpenedInv
        <3> QED
            BY <1>2, <3>1, <3>2
    <2> QED
        BY <2>2, <2>3 DEF CalmInv
<1>3. CASE LandingOk(c) \/ TokenOk(c) \/ StepFails(c)
    <2>1. UNCHANGED <<generation, ael, context, live>>
        BY <1>3 DEF LandingOk, TokenOk, StepFails, LoginFails, Raise, UnchangedPortal, guardVars
    <2>2. \A d \in Callers : pc'[d] = "contract" => pc[d] = "contract"
        BY <1>3 DEF Inv, TypeOK, LandingOk, TokenOk, StepFails, LoginFails, Ends, At
    <2> QED
        BY <1>1, <2>1, <2>2 DEF CalmInv, RenewedInv, OpenedInv, SentInv, Sound
<1> QED
    BY <1>2, <1>3

\* A login is completed: for the tasks that are calm it is sound.
LEMMA ContractOkKeepsCalmInv ==
    ASSUME Inv, CalmInv, NEW c \in Callers, ContractOk(c)
    PROVE  CalmInv'
<1>1. pc[c] = "contract" /\ context' = ael /\ UNCHANGED <<ael, live>>
    BY DEF ContractOk, UnchangedPortal
<1>2. \A d \in Callers : Calm(d)' /\ seen'[d] < generation' => Calm(d)
    BY DEF Inv, TypeOK, GuardTypeOK, Calm, Past, ContractOk, Return, Proceeds, Ends, At, Stages
<1>3. RenewedInv'
    BY <1>1, <1>2 DEF CalmInv, RenewedInv, OpenedInv, Sound
<1>4. OpenedInv'
    <2>1. \A d \in Callers : LoggingIn(d) => d = c
        BY <1>1 DEF Inv, LockInv, LoggingIn, LoginSteps
    <2>2. \A d \in Callers : pc'[d] # "contract"
        BY <1>1, <2>1 DEF Inv, TypeOK, LoggingIn, LoginSteps, ContractOk, Proceeds, Ends, At
    <2> QED
        BY <2>2 DEF OpenedInv
<1>5. SentInv'
    BY <1>1 DEF Inv, TypeOK, GuardTypeOK, CalmInv, SentInv, Calm, Past, ContractOk, Proceeds, Ends, At
<1> QED
    BY <1>3, <1>4, <1>5 DEF CalmInv

LEMMA ActionKeepsCalmInv ==
    ASSUME Inv, CalmInv, NEW c \in Callers, Send(c) \/ Answered(c)
    PROVE  CalmInv'
<1>1. UNCHANGED <<generation, ael, context, live>>
    BY DEF Send, Answered, Leave, UnchangedPortal, guardVars
<1>2. \A d \in Callers : Calm(d)' => Calm(d) /\ seen'[d] = seen[d] /\ stage'[d] = stage[d]
    BY DEF Inv, TypeOK, GuardTypeOK, Calm, Past, Send, Answered, Leave, Ends, At, guardVars
<1>3. \A d \in Callers : pc'[d] = "contract" => pc[d] = "contract"
    BY DEF Inv, TypeOK, Send, Answered, Ends, At
<1>4. RenewedInv' /\ OpenedInv'
    BY <1>1, <1>2, <1>3 DEF CalmInv, RenewedInv, OpenedInv, Sound
<1>5. SentInv'
    BY <1>1, <1>2 DEF Inv, TypeOK, CalmInv, SentInv, Send, Answered, Ends, At
<1> QED
    BY <1>4, <1>5 DEF CalmInv

LEMMA NextKeepsCalmInv ==
    ASSUME Inv, CalmInv, [Next]_vars
    PROVE  CalmInv'
<1>1. ASSUME NEW c \in Callers, Start(c) PROVE CalmInv'
    BY <1>1, CallKeepsCalmInv DEF Start, LoggingIn, LoginSteps, Stale, Stages
<1>2. ASSUME NEW c \in Callers, Resume(c) PROVE CalmInv'
    <2>1. ~LoggingIn(c) /\ stage[c] \in Stages /\ (stage[c] = "retry" => Past(c))
        BY <1>2 DEF Inv, TypeOK, GuardTypeOK, Resume, LoggingIn, LoginSteps, Past
    <2> QED
        BY <1>2, <2>1, QueuedIsUnsound, EnsureKeepsCalmInv DEF Resume
<1>3. ASSUME NEW c \in Callers,
             LandingOk(c) \/ TokenOk(c) \/ LoginOk(c) \/ StepFails(c) \/ LoginUnusable(c)
      PROVE  CalmInv'
    BY <1>3, LoginKeepsCalmInv
<1>4. ASSUME NEW c \in Callers, ContractOk(c) PROVE CalmInv'
    BY <1>4, ContractOkKeepsCalmInv
<1>5. ASSUME NEW c \in Callers, Send(c) \/ Answered(c) PROVE CalmInv'
    BY <1>5, ActionKeepsCalmInv
<1>6. ASSUME NEW c \in Callers, Refused(c) PROVE CalmInv'
    <2>1. CASE stage[c] = "run" /\ Call(c, "retry")
        <3>1. ~LoggingIn(c) /\ Past(c) /\ "retry" \in Stages
            BY <1>6, <2>1 DEF Refused, LoggingIn, LoginSteps, Past, Stages
        <3> QED
            BY <1>6, <2>1, <3>1, RefusedIsUnsound, CallKeepsCalmInv DEF Refused
    <2>2. CASE stage[c] = "retry" /\ Leave(c) /\ Ends(c) /\ UNCHANGED <<app, ael, context>>
        BY <1>5, <1>6, <2>2 DEF Refused, Answered
    <2> QED
        BY <1>6, <2>1, <2>2 DEF Refused
<1>7. ASSUME NEW s \in Sessions, Lapse(s) PROVE CalmInv'
    <2>1. \A c \in Callers : ~Calm(c)'
        BY <1>7 DEF Lapse, Calm, Past, guardVars
    <2> QED
        BY <2>1 DEF CalmInv, RenewedInv, OpenedInv, SentInv
<1>8. CASE UNCHANGED vars
    BY <1>8 DEF CalmInv, RenewedInv, OpenedInv, SentInv, Calm, Past, Sound, vars, guardVars, portalVars
<1> QED
    BY <1>1, <1>2, <1>3, <1>4, <1>5, <1>6, <1>7, <1>8 DEF Next, Step, LoginStep

\* A session that was dead before the call costs it one renewal, never its
\* result: the second pass is refused only if the portal ended a session while
\* the call ran (_session.py:60-74).
THEOREM SecondPassNeedsLapse == Spec => []ExpiryNeedsLapse
<1>1. Init => CalmInv
    BY DEF Init, GuardInit, CalmInv, RenewedInv, OpenedInv, SentInv, Calm, Past
<1>2. Inv /\ CalmInv /\ [Next]_vars => CalmInv'
    BY NextKeepsCalmInv
<1>3. Inv /\ CalmInv => ExpiryNeedsLapse
    BY UnsoundIsUnseen DEF ExpiryNeedsLapse, CalmInv, SentInv, Calm, Past, Sound
<1> QED
    BY <1>1, <1>2, <1>3, InvHolds, PTL DEF Spec

-------------------------------------------------------------------------------
(***************************************************************************)
(* The safety part of the refinement of LoginSpec.                         *)
(***************************************************************************)

\* The mapping while somebody logs in, and while nobody does.
Mapped ==
    /\ \A c \in Callers : LoggingIn(c) => Renewer = c /\ Held = FALSE
    /\ (\A c \in Callers : ~LoggingIn(c)) => Renewer = Nobody /\ (Held <=> IsAuthenticated)
    /\ Held \in BOOLEAN
    /\ Basis = [c \in Callers |-> IF Reports(c) THEN {seen[c]} ELSE {}]

LEMMA InvMapped == Inv => Mapped
<1> SUFFICES ASSUME Inv PROVE Mapped
    OBVIOUS
<1>1. ASSUME NEW c \in Callers, LoggingIn(c) PROVE Renewer = c /\ Held = FALSE
    BY <1>1 DEF Inv, LockInv, Renewer, Held
<1>2. ASSUME \A c \in Callers : ~LoggingIn(c) PROVE Renewer = Nobody
    BY <1>2 DEF Renewer
<1>3. (\A c \in Callers : ~LoggingIn(c)) => (Held <=> IsAuthenticated)
    BY DEF Held
<1>4. Held \in BOOLEAN
    BY DEF Held
<1> QED
    BY <1>1, <1>2, <1>3, <1>4 DEF Mapped, Basis

\* A step that nobody begins or ends a login with, and which changes at most
\* what one task may report.
LEMMA QuietStepMaps ==
    ASSUME Mapped, Mapped', UNCHANGED generation, NEW c \in Callers,
           \A d \in Callers : LoggingIn(d)' <=> LoggingIn(d),
           (IsAuthenticated' <=> IsAuthenticated) \/ (\E d \in Callers : LoggingIn(d)),
           \A d \in Callers \ {c} : (Reports(d)' <=> Reports(d)) /\ seen'[d] = seen[d],
           \/ ~Reports(c)'
           \/ Reports(c)' /\ IsAuthenticated /\ seen'[c] = generation
              /\ \A d \in Callers : ~LoggingIn(d)
           \/ Reports(c)' /\ Reports(c) /\ seen'[c] = seen[c]
    PROVE  [Abstract!Next]_(Abstract!vars)
<1>1. Renewer' = Renewer /\ Held' = Held
    <2>1. CASE \A d \in Callers : ~LoggingIn(d)
        BY <2>1 DEF Mapped
    <2>2. CASE \E d \in Callers : LoggingIn(d)
        BY <2>2 DEF Mapped
    <2> QED
        BY <2>1, <2>2
<1>2. CASE ~Reports(c)'
    <2>1. Basis' = [Basis EXCEPT ![c] = {}]
        BY <1>2 DEF Mapped
    <2> QED
        BY <1>1, <2>1 DEF Abstract!Next, Abstract!Part
<1>3. CASE Reports(c)' /\ IsAuthenticated /\ seen'[c] = generation
           /\ \A d \in Callers : ~LoggingIn(d)
    <2>1. Basis' = [Basis EXCEPT ![c] = {generation}]
        BY <1>3 DEF Mapped
    <2>2. Renewer = Nobody /\ Held
        BY <1>3 DEF Mapped
    <2> QED
        BY <1>1, <2>1, <2>2 DEF Abstract!Next, Abstract!Join
<1>4. CASE Reports(c)' /\ Reports(c) /\ seen'[c] = seen[c]
    <2>1. Basis' = Basis
        BY <1>4 DEF Mapped
    <2> QED
        BY <1>1, <2>1 DEF Abstract!vars
<1> QED
    BY <1>2, <1>3, <1>4

\* ensure() joins the session that is held, is done with it, or begins a login.
LEMMA EnsureMaps ==
    ASSUME Inv, Mapped, Mapped', NEW c \in Callers, NEW s \in Stages,
           lock \in {c, Nobody}, ~LoggingIn(c), Reports(c) <=> s = "retry",
           Ensure(c, s)
    PROVE  [Abstract!Next]_(Abstract!vars)
<1>1. \A d \in Callers : ~LoggingIn(d)
    BY NobodyAssumption DEF Inv, LockInv
<1>2. CASE IsAuthenticated /\ ~Stale(c, s) /\ Return(c, s, generation)
           /\ Proceeds(c, s, ael) /\ UNCHANGED <<app, ael, context>>
    <2>1. \A d \in Callers : ~LoggingIn(d)'
        BY <1>1, <1>2 DEF Inv, TypeOK, LoggingIn, Proceeds, Ends, At, LoginSteps
    <2>2. UNCHANGED generation /\ (IsAuthenticated' <=> IsAuthenticated)
        BY <1>2 DEF Return, IsAuthenticated
    <2>3. \A d \in Callers \ {c} : (Reports(d)' <=> Reports(d)) /\ seen'[d] = seen[d]
        BY <1>2 DEF Inv, TypeOK, GuardTypeOK, Reports, Return, Proceeds, Ends, At
    <2>4. ~Reports(c)' \/ seen'[c] = generation
        BY <1>2 DEF Inv, TypeOK, GuardTypeOK, Reports, Return, Proceeds, Ends, At, LoginSteps
    <2> QED
        BY <1>1, <1>2, <2>1, <2>2, <2>3, <2>4, QuietStepMaps
<1>3. CASE /\ ~IsAuthenticated \/ Stale(c, s)
           /\ Keep(c)
           /\ app' = FALSE
           /\ ael' = 0
           /\ At(c, "landing")
           /\ stage' = [stage EXCEPT ![c] = s]
           /\ sent' = [sent EXCEPT ![c] = 0]
           /\ UNCHANGED <<context, jolted>>
    <2>1. Renewer = Nobody /\ (Held <=> IsAuthenticated)
        BY <1>1 DEF Mapped
    <2>2. Renewer' = c /\ Held' = FALSE
        BY <1>3 DEF Mapped, LoggingIn, LoginSteps, At, Inv, TypeOK
    <2>3. \A d \in Callers : (Reports(d)' <=> Reports(d)) /\ seen'[d] = seen[d]
        BY <1>3 DEF Inv, TypeOK, GuardTypeOK, Reports, Keep, At, LoginSteps
    <2>4. Basis' = Basis
        BY <2>3 DEF Mapped
    <2>5. ~Held \/ generation \in Basis[c]
        BY <1>3, <2>1 DEF Mapped, Stale
    <2>6. UNCHANGED generation
        BY <1>3 DEF Keep
    <2> QED
        BY <2>1, <2>2, <2>4, <2>5, <2>6 DEF Abstract!Next, Abstract!Begin
<1> QED
    BY <1>2, <1>3 DEF Ensure

\* To queue for the lock is no step of LoginSpec.
LEMMA CallMaps ==
    ASSUME Inv, Mapped, Mapped', NEW c \in Callers, NEW s \in Stages,
           ~LoggingIn(c), Reports(c) <=> s = "retry", Call(c, s)
    PROVE  [Abstract!Next]_(Abstract!vars)
<1>1. CASE lock = Nobody /\ Ensure(c, s)
    BY <1>1, EnsureMaps
<1>2. CASE /\ Enqueue(c)
           /\ At(c, "queued")
           /\ stage' = [stage EXCEPT ![c] = s]
           /\ sent' = [sent EXCEPT ![c] = 0]
           /\ UNCHANGED <<app, ael, context, jolted>>
    <2>1. UNCHANGED <<generation, seen, ael>>
        BY <1>2 DEF Enqueue
    <2>2. \A d \in Callers : LoggingIn(d)' <=> LoggingIn(d)
        BY <1>2 DEF Inv, TypeOK, LoggingIn, At, LoginSteps
    <2>3. \A d \in Callers : Reports(d)' <=> Reports(d)
        BY <1>2 DEF Inv, TypeOK, GuardTypeOK, Reports, At
    <2> QED
        BY <2>1, <2>2, <2>3, QuietStepMaps DEF IsAuthenticated
<1> QED
    BY <1>1, <1>2 DEF Call

\* The steps of a login before its end.
LEMMA LoginStepMaps ==
    ASSUME Inv, Mapped, Mapped', NEW c \in Callers, LandingOk(c) \/ TokenOk(c) \/ LoginOk(c)
    PROVE  [Abstract!Next]_(Abstract!vars)
<1>1. LoggingIn(c) /\ UNCHANGED <<generation, seen, stage>>
    BY DEF LandingOk, TokenOk, LoginOk, LoggingIn, LoginSteps, guardVars
<1>2. \A d \in Callers : LoggingIn(d)' <=> LoggingIn(d)
    BY DEF Inv, TypeOK, LoggingIn, LandingOk, TokenOk, LoginOk, At, LoginSteps
<1>3. \A d \in Callers : Reports(d)' <=> Reports(d)
    BY <1>1 DEF Inv, TypeOK, Reports, LandingOk, TokenOk, LoginOk, At, LoginSteps
<1> QED
    BY <1>1, <1>2, <1>3, QuietStepMaps

\* A login that ends, well or badly, ends the one of LoginSpec.
LEMMA LoginEndMaps ==
    ASSUME Inv, EndedInv, Mapped, Mapped', NEW c \in Callers,
           ContractOk(c) \/ (pc[c] \in LoginSteps /\ LoginFails(c))
    PROVE  [Abstract!Next]_(Abstract!vars)
<1>1. LoggingIn(c) /\ \A d \in Callers : LoggingIn(d) => d = c
    BY DEF Inv, LockInv, LoggingIn, ContractOk, LoginSteps
<1>2. \A d \in Callers : ~LoggingIn(d)'
    BY <1>1 DEF Inv, TypeOK, LoggingIn, ContractOk, LoginFails, Proceeds, Ends, At, LoginSteps
<1>3. Renewer = c /\ Renewer' = Nobody /\ (Held' <=> IsAuthenticated') /\ Held' \in BOOLEAN
    BY <1>1, <1>2 DEF Mapped
<1>4. \A d \in Callers \ {c} : (Reports(d)' <=> Reports(d)) /\ seen'[d] = seen[d]
    BY DEF Inv, TypeOK, GuardTypeOK, Reports, ContractOk, LoginFails, Return, Raise, Proceeds,
           Ends, At
<1>5. CASE ContractOk(c)
    <2>1. generation' = generation + 1
        BY <1>5 DEF ContractOk, Return
    <2>2. Held' = TRUE
        BY <1>3, <1>5 DEF EndedInv, IsAuthenticated, ContractOk, Inv, TypeOK, Tokens
    <2>3. Reports(c)' => seen'[c] = generation + 1
        BY <1>5 DEF Inv, TypeOK, GuardTypeOK, Reports, ContractOk, Return, Proceeds, Ends, At,
                    LoginSteps
    <2>4. \E b \in {{generation + 1}, {}} : Basis' = [Basis EXCEPT ![c] = b]
        <3>1. ASSUME Reports(c)' PROVE Basis' = [Basis EXCEPT ![c] = {generation + 1}]
            BY <1>4, <2>3, <3>1 DEF Mapped
        <3>2. ASSUME ~Reports(c)' PROVE Basis' = [Basis EXCEPT ![c] = {}]
            BY <1>4, <3>2 DEF Mapped
        <3> QED
            BY <3>1, <3>2
    <2> QED
        BY <1>3, <2>1, <2>2, <2>4 DEF Abstract!Next, Abstract!Complete
<1>6. CASE pc[c] \in LoginSteps /\ LoginFails(c)
    <2>1. ~Reports(c)' /\ generation' = generation
        BY <1>6 DEF Inv, TypeOK, GuardTypeOK, Reports, LoginFails, Raise, Ends, At
    <2>2. Basis' = [Basis EXCEPT ![c] = {}]
        BY <1>4, <2>1 DEF Mapped
    <2> QED
        BY <1>3, <2>1, <2>2 DEF Abstract!Next, Abstract!Fail
<1> QED
    BY <1>5, <1>6

\* The requests of an action: its end gives up the report.
LEMMA ActionMaps ==
    ASSUME Inv, Mapped, Mapped', NEW c \in Callers, Send(c) \/ Answered(c)
    PROVE  [Abstract!Next]_(Abstract!vars)
<1>1. UNCHANGED <<generation, ael>>
    BY DEF Send, Answered, Leave, guardVars
<1>2. \A d \in Callers : LoggingIn(d)' <=> LoggingIn(d)
    BY DEF Inv, TypeOK, LoggingIn, Send, Answered, Ends, At, LoginSteps
<1>3. \A d \in Callers \ {c} : (Reports(d)' <=> Reports(d)) /\ seen'[d] = seen[d]
    BY DEF Inv, TypeOK, GuardTypeOK, Reports, Send, Answered, Leave, Ends, At, guardVars
<1>4. ~Reports(c)' \/ (Reports(c)' /\ Reports(c) /\ seen'[c] = seen[c])
    BY DEF Inv, TypeOK, GuardTypeOK, Reports, Send, Answered, Leave, Ends, At, guardVars, LoginSteps
<1> QED
    BY <1>1, <1>2, <1>3, <1>4, QuietStepMaps DEF IsAuthenticated

\* Every step is one of LoginSpec, or none.
LEMMA NextMaps ==
    ASSUME Inv, EndedInv, Mapped, Mapped', [Next]_vars
    PROVE  [Abstract!Next]_(Abstract!vars)
<1>1. ASSUME NEW c \in Callers, Start(c) PROVE [Abstract!Next]_(Abstract!vars)
    <2>1. ~LoggingIn(c) /\ ~Reports(c)
        BY <1>1 DEF Start, LoggingIn, Reports, LoginSteps
    <2> QED
        BY <1>1, <2>1, CallMaps DEF Start, Stages
<1>2. ASSUME NEW c \in Callers, Resume(c) PROVE [Abstract!Next]_(Abstract!vars)
    <2>1. ~LoggingIn(c) /\ stage[c] \in Stages /\ (Reports(c) <=> stage[c] = "retry")
        BY <1>2 DEF Inv, TypeOK, GuardTypeOK, Resume, LoggingIn, Reports, LoginSteps
    <2> QED
        BY <1>2, <2>1, EnsureMaps DEF Resume
<1>3. ASSUME NEW c \in Callers, LandingOk(c) \/ TokenOk(c) \/ LoginOk(c)
      PROVE  [Abstract!Next]_(Abstract!vars)
    BY <1>3, LoginStepMaps
<1>4. ASSUME NEW c \in Callers, ContractOk(c) \/ StepFails(c) \/ LoginUnusable(c)
      PROVE  [Abstract!Next]_(Abstract!vars)
    BY <1>4, LoginEndMaps DEF StepFails, LoginUnusable, LoginSteps
<1>5. ASSUME NEW c \in Callers, Send(c) \/ Answered(c) PROVE [Abstract!Next]_(Abstract!vars)
    BY <1>5, ActionMaps
<1>6. ASSUME NEW c \in Callers, Refused(c) PROVE [Abstract!Next]_(Abstract!vars)
    <2>1. CASE stage[c] = "run" /\ Call(c, "retry")
        <3>1. ~LoggingIn(c) /\ Reports(c)
            BY <1>6, <2>1 DEF Refused, LoggingIn, Reports, LoginSteps
        <3> QED
            BY <2>1, <3>1, CallMaps DEF Stages
    <2>2. CASE stage[c] = "retry" /\ Leave(c) /\ Ends(c) /\ UNCHANGED <<app, ael, context>>
        BY <1>5, <1>6, <2>2 DEF Refused, Answered
    <2> QED
        BY <1>6, <2>1, <2>2 DEF Refused
<1>7. ASSUME UNCHANGED <<guardVars, pc, ael>> PROVE [Abstract!Next]_(Abstract!vars)
    <2>1. \A d \in Callers : (LoggingIn(d)' <=> LoggingIn(d)) /\ (Reports(d)' <=> Reports(d))
        BY <1>7 DEF LoggingIn, Reports, guardVars
    <2>2. Renewer' = Renewer /\ Held' = Held
        <3>1. CASE \A d \in Callers : ~LoggingIn(d)
            BY <1>7, <2>1, <3>1 DEF Mapped, IsAuthenticated
        <3>2. CASE \E d \in Callers : LoggingIn(d)
            BY <2>1, <3>2 DEF Mapped
        <3> QED
            BY <3>1, <3>2
    <2>3. Basis' = Basis /\ generation' = generation
        BY <1>7, <2>1 DEF Mapped, guardVars
    <2> QED
        BY <2>2, <2>3 DEF Abstract!vars
<1>8. CASE UNCHANGED vars
    BY <1>7, <1>8 DEF vars, guardVars, portalVars
<1> QED
    BY <1>1, <1>2, <1>3, <1>4, <1>5, <1>6, <1>7, <1>8 DEF Next, Step, LoginStep, Lapse

\* The guard of the portal's session, its queue and the five steps of a login
\* keep what LoginSpec promises of one atomic login (_session.py:46-74): every
\* step is one of LoginSpec's or changes nothing that it shows.
THEOREM PortalKeepsLoginSpec == Spec => Abstract!Safety
<1>1. Init => Abstract!Init
    <2> SUFFICES ASSUME Init PROVE Abstract!Init
        OBVIOUS
    <2>1. Mapped /\ (\A c \in Callers : ~LoggingIn(c) /\ ~Reports(c)) /\ ~IsAuthenticated
        BY InitInv, InvMapped
        DEF Init, GuardInit, LoggingIn, Reports, LoginSteps, IsAuthenticated
    <2>2. generation = 0
        BY DEF Init, GuardInit
    <2> QED
        BY <2>1, <2>2 DEF Mapped, Abstract!Init
<1>2. Inv /\ Inv' /\ LapseInv /\ [Next]_vars => [Abstract!Next]_(Abstract!vars)
    <2>1. Inv' => Mapped'
        BY InvMapped, PTL
    <2> QED
        BY <2>1, InvMapped, NextMaps DEF LapseInv
<1>3. Spec => []LapseInv
    BY LapseInvHolds
<1> QED
    BY <1>1, <1>2, <1>3, InvHolds, PTL DEF Spec, Abstract!Safety
===============================================================================
