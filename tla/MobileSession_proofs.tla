-------------------------- MODULE MobileSession_proofs --------------------------
(***************************************************************************)
(* Safety of MobileSession for any callers, months and sessions, with      *)
(* cancellation at every await.  It is the argument of                     *)
(* PortalSession_proofs for a login of one request, where an action may    *)
(* also change the session it uses between two months:                     *)
(*   - the task that logs in owns the lock (LockInv) and has dropped the   *)
(*     token (TokenInv), so a login cut short loses none;                  *)
(*   - as long as the backend honours the session that is held, a task     *)
(*     that could report its generation sent its request with its token,   *)
(*     and none queues with such a report (ReportInv).                     *)
(***************************************************************************)
EXTENDS MobileSession, SequenceTheorems, TLAPS

LockInv == \A c \in Callers : LoggingIn(c) => lock = c

TokenInv == \A c \in Callers : LoggingIn(c) => tok = 0

GenerationInv == \A c \in Callers : seen[c] <= generation

SerialInv == tok <= issued /\ \A s \in live : s <= issued

ReportInv ==
    \A c \in Callers :
        seen[c] = generation /\ tok \in live =>
            /\ stage[c] = "run" /\ pc[c] = "flight" => sent[c] = tok
            /\ ~(stage[c] = "retry" /\ pc[c] = "queued")

Inv == TypeOK /\ LockInv /\ TokenInv /\ GenerationInv /\ SerialInv /\ ReportInv

-------------------------------------------------------------------------------
\* Releasing the lock, or leaving its queue, keeps the types of both.
LEMMA ReleaseType ==
    ASSUME GuardTypeOK, Release
    PROVE  lock' \in Callers \cup {Nobody} /\ waiters' \in Seq(Callers)
<1>1. CASE waiters = <<>>
  BY <1>1 DEF GuardTypeOK, Release
<1>2. CASE waiters # <<>>
  BY <1>2, HeadTailProperties DEF GuardTypeOK, Release
<1> QED
  BY <1>1, <1>2

LEMMA RemoveAtType ==
    ASSUME NEW S, NEW s \in Seq(S), NEW i \in 1..Len(s)
    PROVE  RemoveAt(s, i) \in Seq(S)
<1>1. Len(s) \in Nat /\ \A j \in 1..Len(s) : s[j] \in S
  BY LenProperties, ElementOfSeq
<1>2. SubSeq(s, 1, i - 1) \in Seq(S) /\ SubSeq(s, i + 1, Len(s)) \in Seq(S)
  BY <1>1, SubSeqProperties
<1> QED
  BY <1>2, ConcatProperties DEF RemoveAt

LEMMA WithdrawType ==
    ASSUME GuardTypeOK, NEW c \in Callers, Withdraw(c)
    PROVE  lock' \in Callers \cup {Nobody} /\ waiters' \in Seq(Callers)
<1>1. CASE lock = c
  BY <1>1, ReleaseType DEF Withdraw
<1>2. CASE lock # c
  BY <1>2, RemoveAtType DEF Withdraw, GuardTypeOK
<1> QED
  BY <1>1, <1>2

LEMMA OpensType ==
    ASSUME TypeOK, Opens
    PROVE  /\ issued' = issued + 1 /\ issued' \in Sessions
           /\ live' \subseteq live \cup {issued'} /\ issued' \in live'
BY MobileAssumption DEF TypeOK, Opens, Sessions, Tokens

-------------------------------------------------------------------------------
\* A call that ends, for whatever reason, reports nothing any more.  The lock,
\* its queue and the backend's sessions have changed only as far as the token
\* that is held allows.
LEMMA EndsKeepsInv ==
    ASSUME Inv, NEW c \in Callers, Ends(c),
           lock' \in Callers \cup {Nobody}, waiters' \in Seq(Callers),
           lock' = lock \/ \A d \in Callers : LoggingIn(d) => d = c,
           seen' = [seen EXCEPT ![c] = 0], UNCHANGED <<generation, tok>>,
           UnchangedBackend \/ (Opens /\ tok = 0)
    PROVE  Inv'
<1>1. /\ issued' \in Tokens /\ live' \subseteq Sessions
      /\ SerialInv' /\ (tok \in live' => tok \in live)
  <2>1. CASE UnchangedBackend
    BY <2>1 DEF UnchangedBackend, Inv, TypeOK, SerialInv
  <2>2. CASE Opens /\ tok = 0
    <3>1. /\ issued' = issued + 1 /\ issued' \in Sessions
          /\ live' \subseteq live \cup {issued'}
      BY <2>2, OpensType DEF Inv
    <3>2. issued' \in Tokens /\ live' \subseteq Sessions
      BY <3>1, MobileAssumption DEF Inv, TypeOK, Tokens, Sessions
    <3>3. SerialInv'
      BY <3>1, <3>2, MobileAssumption DEF Inv, TypeOK, SerialInv, Tokens, Sessions
    <3>4. tok \notin live'
      BY <2>2, <3>2, MobileAssumption DEF Sessions
    <3> QED
      BY <3>2, <3>3, <3>4
  <2> QED
    BY <2>1, <2>2
<1>2. TypeOK'
  BY <1>1, MobileAssumption DEF Inv, TypeOK, GuardTypeOK, Ends, At, Points, Tokens, Stages
<1>3. \A d \in Callers : LoggingIn(d)' => LoggingIn(d) /\ d # c
  BY DEF Inv, TypeOK, Ends, At, LoggingIn
<1>4. LockInv' /\ TokenInv'
  BY <1>3 DEF Inv, LockInv, TokenInv
<1>5. GenerationInv'
  BY DEF Inv, TypeOK, GuardTypeOK, GenerationInv
<1>6. ReportInv'
  BY <1>1 DEF Inv, TypeOK, GuardTypeOK, ReportInv, Ends, At
<1> QED
  BY <1>1, <1>2, <1>4, <1>5, <1>6 DEF Inv

\* ensure(), run by a task that owns the lock or found it free and that does
\* not report a session the backend honours (_session.py:52-58).
LEMMA EnsureKeepsInv ==
    ASSUME Inv, NEW c \in Callers, NEW s \in Stages,
           lock \in {c, Nobody}, ~LoggingIn(c),
           Stale(c, s) => tok \notin live,
           Ensure(c, s), UnchangedBackend
    PROVE  Inv' /\ (tok # 0 /\ tok' # tok => tok \notin live)
<1> USE DEF UnchangedBackend
<1>1. \A d \in Callers : ~LoggingIn(d)
  BY NobodyAssumption DEF Inv, LockInv
<1>2. CASE tok # 0 /\ ~Stale(c, s) /\ Return(c, s, generation) /\ Acts(c, s, tok) /\ UNCHANGED tok
  <2>1. TypeOK'
    <3>1. GuardTypeOK'
      BY <1>2, ReleaseType DEF Inv, TypeOK, GuardTypeOK, Return, Acts
    <3>2. todo' \in [Callers -> 0..MaxMonths]
      BY <1>2, MobileAssumption DEF Inv, TypeOK, Acts
    <3> QED
      BY <1>2, <3>1, <3>2 DEF Inv, TypeOK, Acts, At, Points
  <2>2. \A d \in Callers : ~LoggingIn(d)'
    BY <1>1, <1>2 DEF Inv, TypeOK, LoggingIn, Acts, At
  <2>3. LockInv' /\ TokenInv'
    BY <2>2 DEF LockInv, TokenInv
  <2>4. GenerationInv' /\ SerialInv'
    BY <1>2 DEF Inv, TypeOK, GuardTypeOK, GenerationInv, SerialInv, Return
  <2>5. ReportInv'
    BY <1>2 DEF Inv, TypeOK, GuardTypeOK, ReportInv, Return, Acts, At
  <2> QED
    BY <1>2, <2>1, <2>3, <2>4, <2>5 DEF Inv
<1>3. CASE (tok = 0 \/ Stale(c, s)) /\ Keep(c) /\ tok' = 0 /\ Awaits(c, s, "connect")
  <2>1. TypeOK'
    BY <1>3, MobileAssumption DEF Inv, TypeOK, GuardTypeOK, Keep, Awaits, At, Points, Tokens
  <2>2. LockInv' /\ TokenInv'
    BY <1>1, <1>3 DEF Inv, TypeOK, LockInv, TokenInv, LoggingIn, Keep, Awaits, At
  <2>3. GenerationInv' /\ SerialInv'
    BY <1>3 DEF Inv, TypeOK, GuardTypeOK, GenerationInv, SerialInv, Tokens, Keep
  <2>4. ReportInv'
    BY <1>3 DEF Inv, TypeOK, Sessions, ReportInv
  <2> QED
    BY <1>3, <2>1, <2>2, <2>3, <2>4 DEF Inv
<1> QED
  BY <1>2, <1>3 DEF Ensure

\* Taking the lock or queueing for it.
LEMMA CallKeepsInv ==
    ASSUME Inv, NEW c \in Callers, NEW s \in Stages,
           ~LoggingIn(c),
           Stale(c, s) => tok \notin live,
           Call(c, s), UnchangedBackend
    PROVE  Inv' /\ (tok # 0 /\ tok' # tok => tok \notin live)
<1>1. CASE lock = Nobody /\ Ensure(c, s)
  BY <1>1, EnsureKeepsInv
<1>2. CASE Enqueue(c) /\ Awaits(c, s, "queued") /\ UNCHANGED tok
  <2> USE DEF UnchangedBackend
  <2>1. TypeOK'
    BY <1>2, MobileAssumption DEF Inv, TypeOK, GuardTypeOK, Enqueue, Awaits, At, Points, Tokens
  <2>2. LockInv' /\ TokenInv'
    BY <1>2 DEF Inv, TypeOK, LockInv, TokenInv, LoggingIn, Enqueue, Awaits, At
  <2>3. GenerationInv' /\ SerialInv'
    BY <1>2 DEF Inv, GenerationInv, SerialInv, Enqueue
  <2>4. ReportInv'
    BY <1>2 DEF Inv, TypeOK, GuardTypeOK, ReportInv, Stale, Enqueue, Awaits, At
  <2> QED
    BY <1>2, <2>1, <2>2, <2>3, <2>4 DEF Inv
<1> QED
  BY <1>1, <1>2 DEF Call

-------------------------------------------------------------------------------
\* A task other than the owner of the lock is not logging in.
LEMMA OwnerAlone ==
    ASSUME LockInv, NEW c \in Callers, lock = c
    PROVE  \A d \in Callers : LoggingIn(d) => d = c
BY DEF LockInv

\* A login that succeeds: every report anybody holds is of an older generation
\* (_session.py:59-62).
LEMMA ConnectOkKeepsInv ==
    ASSUME Inv, NEW c \in Callers, ConnectOk(c)
    PROVE  Inv'
<1>1. /\ pc[c] = "connect" /\ Opens /\ tok' = issued'
      /\ Return(c, stage[c], generation + 1) /\ Acts(c, stage[c], issued')
  BY DEF ConnectOk
<1>2. /\ issued' = issued + 1 /\ issued' \in Sessions
      /\ live' \subseteq live \cup {issued'}
  BY <1>1, OpensType DEF Inv
<1>3. issued' \in Tokens /\ live' \subseteq Sessions
  BY <1>2, MobileAssumption DEF Inv, TypeOK, Tokens, Sessions
<1>4. GuardTypeOK'
  BY <1>1, ReleaseType DEF Inv, TypeOK, GuardTypeOK, Return, Acts, Stages
<1>5. TypeOK'
  <2>1. todo' \in [Callers -> 0..MaxMonths]
    BY <1>1, MobileAssumption DEF Inv, TypeOK, Acts
  <2> QED
    BY <1>1, <1>3, <1>4, <2>1 DEF Inv, TypeOK, Acts, At, Points
<1>6. LockInv' /\ TokenInv'
  <2>1. \A d \in Callers : LoggingIn(d) => d = c
    BY <1>1, OwnerAlone DEF Inv, LockInv, LoggingIn
  <2>2. \A d \in Callers : ~LoggingIn(d)'
    BY <1>1, <2>1 DEF Inv, TypeOK, LoggingIn, Acts, At
  <2> QED
    BY <2>2 DEF LockInv, TokenInv
<1>7. GenerationInv'
  BY <1>1 DEF Inv, TypeOK, GuardTypeOK, GenerationInv, Return
<1>8. SerialInv'
  BY <1>1, <1>2, <1>3, MobileAssumption DEF Inv, TypeOK, SerialInv, Tokens, Sessions
<1>9. ReportInv'
  <2>1. generation' = generation + 1
    BY <1>1 DEF Return
  <2>2. \A d \in Callers : seen'[d] = generation' => d = c /\ stage[c] = "run"
    BY <1>1, <2>1 DEF Inv, TypeOK, GuardTypeOK, GenerationInv, Return
  <2>3. pc'[c] = "flight" /\ sent'[c] = tok'
    BY <1>1 DEF Inv, TypeOK, Acts, At
  <2> QED
    BY <2>2, <2>3 DEF ReportInv
<1> QED
  BY <1>5, <1>6, <1>7, <1>8, <1>9 DEF Inv

\* A login that fails consumes no generation (_session.py:59-60).
LEMMA ConnectFailsKeepsInv ==
    ASSUME Inv, NEW c \in Callers, ConnectFails(c)
    PROVE  Inv'
<1>1. lock' \in Callers \cup {Nobody} /\ waiters' \in Seq(Callers)
  BY ReleaseType DEF Inv, TypeOK, ConnectFails, Raise
<1>2. tok = 0 /\ \A d \in Callers : LoggingIn(d) => d = c
  BY OwnerAlone DEF Inv, LockInv, TokenInv, LoggingIn, ConnectFails
<1> QED
  BY <1>1, <1>2, EndsKeepsInv DEF ConnectFails, Raise

\* An action that ends, with its answer or without.
LEMMA LeaveKeepsInv ==
    ASSUME Inv, NEW c \in Callers, Leave(c), Ends(c), UNCHANGED tok, UnchangedBackend
    PROVE  Inv'
<1>1. lock' \in Callers \cup {Nobody} /\ waiters' \in Seq(Callers)
  BY DEF Inv, TypeOK, GuardTypeOK, Leave
<1> QED
  BY <1>1, EndsKeepsInv DEF Leave

\* A cancellation at any await.
LEMMA CancelKeepsInv ==
    ASSUME Inv, NEW c \in Callers, Cancel(c)
    PROVE  Inv'
<1>1. CASE pc[c] \in {"queued", "connect"} /\ Withdraw(c)
            /\ (UnchangedBackend \/ (pc[c] = "connect" /\ Opens))
  <2>1. lock' \in Callers \cup {Nobody} /\ waiters' \in Seq(Callers)
    BY <1>1, WithdrawType DEF Inv, TypeOK
  <2>2. lock' = lock \/ \A d \in Callers : LoggingIn(d) => d = c
    BY <1>1, OwnerAlone DEF Inv, Withdraw
  <2>3. UnchangedBackend \/ (Opens /\ tok = 0)
    BY <1>1 DEF Inv, TokenInv, LoggingIn
  <2> QED
    BY <1>1, <2>1, <2>2, <2>3, EndsKeepsInv DEF Cancel, Withdraw
<1>2. CASE pc[c] = "flight" /\ Leave(c) /\ UnchangedBackend
  BY <1>2, LeaveKeepsInv DEF Cancel
<1> QED
  BY <1>1, <1>2 DEF Cancel

\* The next month is asked for with the token of now.
LEMMA NextMonthKeepsInv ==
    ASSUME Inv, NEW c \in Callers, NextMonth(c)
    PROVE  Inv'
<1> USE DEF NextMonth, UnchangedBackend
<1>1. TypeOK'
  <2>1. todo' \in [Callers -> 0..MaxMonths]
    BY MobileAssumption DEF Inv, TypeOK
  <2> QED
    BY <2>1 DEF Inv, TypeOK, GuardTypeOK, guardVars
<1>2. LockInv' /\ TokenInv' /\ GenerationInv' /\ SerialInv'
  BY DEF Inv, LockInv, TokenInv, LoggingIn, GenerationInv, SerialInv, guardVars
<1>3. ReportInv'
  BY DEF Inv, TypeOK, ReportInv, guardVars
<1> QED
  BY <1>1, <1>2, <1>3 DEF Inv

\* The backend ends a session: fewer reports are constrained.
LEMMA LapseKeepsInv ==
    ASSUME Inv, NEW s \in Sessions, Lapse(s)
    PROVE  Inv'
<1>1. TypeOK'
  BY DEF Inv, TypeOK, GuardTypeOK, Lapse, guardVars
<1>2. LockInv' /\ TokenInv' /\ GenerationInv' /\ SerialInv'
  BY DEF Inv, LockInv, TokenInv, LoggingIn, GenerationInv, SerialInv, Lapse, guardVars
<1>3. ReportInv'
  BY DEF Inv, ReportInv, Lapse, guardVars
<1> QED
  BY <1>1, <1>2, <1>3 DEF Inv

-------------------------------------------------------------------------------
LEMMA InitInv == Init => Inv
<1> SUFFICES ASSUME Init PROVE Inv
  OBVIOUS
<1>1. TypeOK
  BY MobileAssumption
     DEF Init, GuardInit, TypeOK, GuardTypeOK, Points, Stages, Tokens, Sessions
<1> QED
  BY <1>1 DEF Init, GuardInit, Inv, LockInv, TokenInv, GenerationInv, SerialInv,
              ReportInv, LoggingIn

\* One step: the invariant is kept, and no session the backend honours is
\* given up for another one.
LEMMA NextKeepsInv ==
    ASSUME Inv, [Next]_vars
    PROVE  Inv' /\ (tok # 0 /\ tok' # tok => tok \notin live)
<1>1. CASE UNCHANGED vars
  BY <1>1 DEF Inv, TypeOK, GuardTypeOK, LockInv, TokenInv, LoggingIn,
              GenerationInv, SerialInv, ReportInv, vars, guardVars
<1>2. ASSUME NEW c \in Callers, Start(c)
      PROVE  Inv' /\ (tok # 0 /\ tok' # tok => tok \notin live)
  BY <1>2, CallKeepsInv DEF Start, LoggingIn, Stale, Stages
<1>3. ASSUME NEW c \in Callers, Resume(c)
      PROVE  Inv' /\ (tok # 0 /\ tok' # tok => tok \notin live)
  <2>1. stage[c] \in Stages /\ ~LoggingIn(c)
    BY <1>3 DEF Inv, TypeOK, GuardTypeOK, Resume, LoggingIn
  <2>2. Stale(c, stage[c]) => tok \notin live
    BY <1>3 DEF Inv, ReportInv, Stale, Resume
  <2> QED
    BY <1>3, <2>1, <2>2, EnsureKeepsInv DEF Resume
<1>4. ASSUME NEW c \in Callers, ConnectOk(c)
      PROVE  Inv' /\ tok = 0
  BY <1>4, ConnectOkKeepsInv DEF Inv, TokenInv, LoggingIn, ConnectOk
<1>5. ASSUME NEW c \in Callers, ConnectFails(c)
      PROVE  Inv' /\ tok' = tok
  BY <1>5, ConnectFailsKeepsInv DEF ConnectFails
<1>6. ASSUME NEW c \in Callers, NextMonth(c)
      PROVE  Inv' /\ tok' = tok
  BY <1>6, NextMonthKeepsInv DEF NextMonth
<1>7. ASSUME NEW c \in Callers, NotAuthenticated(c) \/ Finish(c)
      PROVE  Inv' /\ tok' = tok
  BY <1>7, LeaveKeepsInv DEF NotAuthenticated, Finish
<1>8. ASSUME NEW c \in Callers, Refused(c)
      PROVE  Inv' /\ (tok # 0 /\ tok' # tok => tok \notin live)
  <2>1. CASE stage[c] = "run" /\ Call(c, "retry")
    <3>1. ~LoggingIn(c) /\ (Stale(c, "retry") => tok \notin live)
      BY <1>8, <2>1 DEF Inv, ReportInv, Stale, LoggingIn, Refused
    <3> QED
      BY <1>8, <2>1, <3>1, CallKeepsInv DEF Refused, Stages
  <2>2. CASE Leave(c) /\ Ends(c) /\ UNCHANGED tok
    BY <1>8, <2>2, LeaveKeepsInv DEF Refused
  <2> QED
    BY <1>8, <2>1, <2>2 DEF Refused
<1>9. ASSUME NEW c \in Callers, Cancel(c)
      PROVE  Inv' /\ tok' = tok
  BY <1>9, CancelKeepsInv DEF Cancel
<1>10. ASSUME NEW s \in Sessions, Lapse(s)
       PROVE  Inv' /\ tok' = tok
  BY <1>10, LapseKeepsInv DEF Lapse
<1> QED
  BY <1>1, <1>2, <1>3, <1>4, <1>5, <1>6, <1>7, <1>8, <1>9, <1>10 DEF Next, Step

\* The inductive invariant of the module.
THEOREM MobileInv == Spec => []Inv
<1>1. Inv /\ [Next]_vars => Inv'
  BY NextKeepsInv
<1> QED
  BY InitInv, <1>1, PTL DEF Spec

\* Type correctness, whatever is cancelled and whoever waits.
THEOREM MobileTypeCorrect == Spec => []TypeOK
<1>1. Inv => TypeOK
  BY DEF Inv
<1> QED
  BY MobileInv, <1>1, PTL

\* The guard renews the mobility session only when the backend has ended it,
\* whoever reports the expiry, however late, and whoever is cancelled
\* meanwhile (_session.py:45-62).
THEOREM MobileNoLiveSessionDropped == Spec => NoLiveSessionDropped
<1>1. Inv /\ [Next]_vars => [tok # 0 /\ tok' # tok => tok \notin live]_vars
  BY NextKeepsInv
<1> QED
  BY MobileInv, <1>1, PTL DEF Spec, NoLiveSessionDropped

-------------------------------------------------------------------------------
(***************************************************************************)
(* Whose second pass is refused.  Once a login has been completed that is  *)
(* newer than what a task saw, its session is honoured until the backend   *)
(* ends it, and with it ends the calm of every call under way.             *)
(***************************************************************************)

\* A task that has remembered the generation of its first pass.
Past(c) == stage[c] = "retry" \/ (stage[c] = "run" /\ pc[c] = "flight")

Calm(c) == Past(c) /\ c \notin jolted

\* The second pass works on a later login than the first.
NewerInv == \A c \in Callers : stage[c] = "retry" /\ pc[c] = "flight" => seen[c] < generation

RenewedInv == \A c \in Callers : Calm(c) /\ seen[c] < generation => tok \in live

SentInv ==
    \A c \in Callers : Calm(c) /\ stage[c] = "retry" /\ pc[c] = "flight" => sent[c] = tok

CalmInv == NewerInv /\ RenewedInv /\ SentInv

\* A task that is past its first pass keeps its report, its pass and its
\* request, as long as the token is kept or was not honoured.
LEMMA OthersKeepCalmInv ==
    ASSUME Inv, CalmInv, UNCHANGED <<generation, live>>,
           tok' = tok \/ tok \notin live,
           \A d \in Callers : Calm(d)' => Calm(d) /\ seen'[d] = seen[d],
           \A d \in Callers : stage'[d] = "retry" /\ pc'[d] = "flight" =>
              stage[d] = "retry" /\ pc[d] = "flight" /\ seen'[d] = seen[d]
              /\ (sent'[d] = sent[d] \/ sent'[d] = tok')
    PROVE  CalmInv'
<1>1. NewerInv'
    BY DEF CalmInv, NewerInv
<1>2. \A d \in Callers : Calm(d) /\ seen[d] < generation => tok' = tok
    BY DEF CalmInv, RenewedInv
<1>3. RenewedInv'
    BY <1>2 DEF CalmInv, RenewedInv
<1>4. SentInv'
    BY <1>2 DEF CalmInv, NewerInv, SentInv
<1> QED
    BY <1>1, <1>3, <1>4 DEF CalmInv

LEMMA EnsureKeepsCalmInv ==
    ASSUME Inv, CalmInv, NEW c \in Callers, NEW s \in Stages,
           s = "retry" => Past(c),
           Stale(c, s) => tok \notin live,
           Ensure(c, s), UnchangedBackend
    PROVE  CalmInv'
<1>1. CASE tok # 0 /\ ~Stale(c, s) /\ Return(c, s, generation) /\ Acts(c, s, tok) /\ UNCHANGED tok
    <2>1. \A d \in Callers : Calm(d)' /\ seen'[d] < generation' => Calm(d) /\ seen[d] < generation
        BY <1>1 DEF Inv, TypeOK, GuardTypeOK, Calm, Past, Return, Acts, At, Stages
    <2>2. RenewedInv'
        BY <1>1, <2>1 DEF CalmInv, RenewedInv, UnchangedBackend
    <2>3. NewerInv'
        BY <1>1 DEF Inv, TypeOK, GuardTypeOK, GenerationInv, CalmInv, NewerInv, Stale, Return, Acts, At
    <2>4. SentInv'
        BY <1>1 DEF Inv, TypeOK, GuardTypeOK, CalmInv, SentInv, Calm, Past, Acts, At
    <2> QED
        BY <2>2, <2>3, <2>4 DEF CalmInv
<1>2. CASE (tok = 0 \/ Stale(c, s)) /\ Keep(c) /\ tok' = 0 /\ Awaits(c, s, "connect")
    <2>1. tok \notin live
        BY <1>2 DEF Inv, TypeOK, Sessions
    <2> QED
        BY <1>2, <2>1, OthersKeepCalmInv
        DEF Inv, TypeOK, GuardTypeOK, Calm, Past, Keep, Awaits, At, UnchangedBackend
<1> QED
    BY <1>1, <1>2 DEF Ensure

LEMMA CallKeepsCalmInv ==
    ASSUME Inv, CalmInv, NEW c \in Callers, NEW s \in Stages,
           s = "retry" => Past(c),
           Stale(c, s) => tok \notin live,
           Call(c, s), UnchangedBackend
    PROVE  CalmInv'
<1>1. CASE lock = Nobody /\ Ensure(c, s)
    BY <1>1, EnsureKeepsCalmInv
<1>2. CASE Enqueue(c) /\ Awaits(c, s, "queued") /\ UNCHANGED tok
    BY <1>2, OthersKeepCalmInv
    DEF Inv, TypeOK, GuardTypeOK, Calm, Past, Enqueue, Awaits, At, UnchangedBackend
<1> QED
    BY <1>1, <1>2 DEF Call

\* A login that succeeds: its session is honoured, and it is not sent by any
\* task but the one that logged in.
LEMMA ConnectOkKeepsCalmInv ==
    ASSUME Inv, CalmInv, NEW c \in Callers, ConnectOk(c)
    PROVE  CalmInv'
<1>1. /\ pc[c] = "connect" /\ Opens /\ tok' = issued' /\ tok = 0
      /\ Return(c, stage[c], generation + 1) /\ Acts(c, stage[c], tok')
    BY DEF Inv, TokenInv, LoggingIn, ConnectOk
<1>2. tok' \in live' /\ tok \notin live
    BY <1>1, OpensType DEF Inv, TypeOK, Sessions
<1>3. NewerInv'
    BY <1>1 DEF Inv, TypeOK, GuardTypeOK, GenerationInv, NewerInv, Return, Acts, At
<1>4. RenewedInv'
    BY <1>2 DEF RenewedInv
<1>5. SentInv'
    BY <1>1, <1>2 DEF Inv, TypeOK, GuardTypeOK, CalmInv, NewerInv, RenewedInv, SentInv, Calm, Past,
                      Acts, At
<1> QED
    BY <1>3, <1>4, <1>5 DEF CalmInv

\* A call that ends: its task is past nothing any more.  A login that fails or
\* is cancelled may have opened a session, but the client holds none.
LEMMA EndsKeepsCalmInv ==
    ASSUME Inv, CalmInv, NEW c \in Callers, Ends(c),
           seen' = [seen EXCEPT ![c] = 0], UNCHANGED <<generation, tok>>,
           UnchangedBackend \/ (Opens /\ tok = 0)
    PROVE  CalmInv'
<1>1. /\ \A d \in Callers : Calm(d)' => Calm(d) /\ seen'[d] = seen[d]
      /\ \A d \in Callers : stage'[d] = "retry" /\ pc'[d] = "flight" =>
            /\ stage[d] = "retry" /\ pc[d] = "flight"
            /\ seen'[d] = seen[d] /\ sent'[d] = sent[d]
    BY DEF Inv, TypeOK, GuardTypeOK, Calm, Past, Ends, At
<1>2. CASE UnchangedBackend
    BY <1>1, <1>2, OthersKeepCalmInv DEF UnchangedBackend
<1>3. CASE Opens /\ tok = 0
    <2>1. tok \notin live
        BY <1>3 DEF Inv, TypeOK, Sessions
    <2> QED
        BY <1>1, <2>1 DEF CalmInv, NewerInv, RenewedInv, SentInv
<1> QED
    BY <1>2, <1>3

LEMMA NextKeepsCalmInv ==
    ASSUME Inv, CalmInv, [Next]_vars
    PROVE  CalmInv'
<1>1. CASE UNCHANGED vars
    BY <1>1 DEF CalmInv, NewerInv, RenewedInv, SentInv, Calm, Past, vars, guardVars
<1>2. ASSUME NEW c \in Callers, Start(c) PROVE CalmInv'
    BY <1>2, CallKeepsCalmInv DEF Start, Stale, Stages
<1>3. ASSUME NEW c \in Callers, Resume(c) PROVE CalmInv'
    <2>1. Stale(c, stage[c]) => tok \notin live
        BY <1>3 DEF Inv, ReportInv, Stale, Resume
    <2>2. stage[c] \in Stages
        BY <1>3 DEF Inv, TypeOK, GuardTypeOK, Resume
    <2> QED
        BY <1>3, <2>1, <2>2, EnsureKeepsCalmInv DEF Resume, Past
<1>4. ASSUME NEW c \in Callers, ConnectOk(c) PROVE CalmInv'
    BY <1>4, ConnectOkKeepsCalmInv
<1>5. ASSUME NEW c \in Callers,
             ConnectFails(c) \/ NotAuthenticated(c) \/ Finish(c) \/ Cancel(c)
      PROVE  CalmInv'
    <2>1. /\ Ends(c) /\ seen' = [seen EXCEPT ![c] = 0] /\ UNCHANGED <<generation, tok>>
          /\ UnchangedBackend \/ (Opens /\ pc[c] = "connect")
        BY <1>5 DEF ConnectFails, NotAuthenticated, Finish, Cancel, Raise, Leave, Withdraw
    <2>2. pc[c] = "connect" => tok = 0
        BY DEF Inv, TokenInv, LoggingIn
    <2> QED
        BY <2>1, <2>2, EndsKeepsCalmInv
<1>6. ASSUME NEW c \in Callers, NextMonth(c) PROVE CalmInv'
    BY <1>6, OthersKeepCalmInv
    DEF Inv, TypeOK, NextMonth, Calm, Past, UnchangedBackend, guardVars
<1>7. ASSUME NEW c \in Callers, Refused(c) PROVE CalmInv'
    <2>1. CASE stage[c] = "run" /\ Call(c, "retry")
        <3>1. Past(c) /\ (Stale(c, "retry") => tok \notin live)
            BY <1>7, <2>1 DEF Inv, ReportInv, Stale, Past, Refused
        <3> QED
            BY <1>7, <2>1, <3>1, CallKeepsCalmInv DEF Refused, Stages
    <2>2. CASE Leave(c) /\ Ends(c) /\ UNCHANGED tok
        BY <1>7, <2>2, EndsKeepsCalmInv DEF Refused, Leave
    <2> QED
        BY <1>7, <2>1, <2>2 DEF Refused
<1>8. ASSUME NEW s \in Sessions, Lapse(s) PROVE CalmInv'
    <2>1. \A c \in Callers : ~Calm(c)'
        BY <1>8 DEF Lapse, Calm, Past, guardVars
    <2> QED
        BY <1>8, <2>1 DEF CalmInv, NewerInv, RenewedInv, SentInv, Lapse, guardVars
<1> QED
    BY <1>1, <1>2, <1>3, <1>4, <1>5, <1>6, <1>7, <1>8 DEF Next, Step

\* The second pass is refused only if the backend ended a session while the
\* call ran, also for a year whose months are read one by one
\* (_session.py:60-74).
THEOREM MobileSecondPassNeedsLapse == Spec => []ExpiryNeedsLapse
<1>1. Init => CalmInv
    BY DEF Init, GuardInit, CalmInv, NewerInv, RenewedInv, SentInv, Calm, Past
<1>2. Inv /\ CalmInv /\ [Next]_vars => CalmInv'
    BY NextKeepsCalmInv
<1>3. Inv /\ CalmInv => ExpiryNeedsLapse
    BY DEF ExpiryNeedsLapse, CalmInv, NewerInv, RenewedInv, SentInv, Calm, Past
<1> QED
    BY <1>1, <1>2, <1>3, MobileInv, PTL DEF Spec

-------------------------------------------------------------------------------
(***************************************************************************)
(* The safety part of the refinement of LoginSpec.                         *)
(***************************************************************************)

\* The mapping while somebody logs in, and while nobody does.
Mapped ==
    /\ \A c \in Callers : LoggingIn(c) => Renewer = c
    /\ (\A c \in Callers : ~LoggingIn(c)) => Renewer = Nobody
    /\ Basis = [c \in Callers |-> IF Reports(c) THEN {seen[c]} ELSE {}]

LEMMA InvMapped == Inv => Mapped
<1> SUFFICES ASSUME Inv PROVE Mapped
    OBVIOUS
<1>1. ASSUME NEW c \in Callers, LoggingIn(c) PROVE Renewer = c
    BY <1>1 DEF Inv, LockInv, Renewer
<1>2. ASSUME \A c \in Callers : ~LoggingIn(c) PROVE Renewer = Nobody
    BY <1>2 DEF Renewer
<1> QED
    BY <1>1, <1>2 DEF Mapped, Basis

\* A step that nobody begins or ends a login with, and which changes at most
\* what one task may report.
LEMMA QuietStepMaps ==
    ASSUME Mapped, Mapped', UNCHANGED <<generation, tok>>, NEW c \in Callers,
           \A d \in Callers : LoggingIn(d)' <=> LoggingIn(d),
           \A d \in Callers \ {c} : (Reports(d)' <=> Reports(d)) /\ seen'[d] = seen[d],
           \/ ~Reports(c)'
           \/ Reports(c)' /\ tok # 0 /\ seen'[c] = generation
              /\ \A d \in Callers : ~LoggingIn(d)
           \/ Reports(c)' /\ Reports(c) /\ seen'[c] = seen[c]
    PROVE  [Abstract!Next]_(Abstract!vars)
<1>1. Renewer' = Renewer /\ Held' = Held
    <2>1. CASE \A d \in Callers : ~LoggingIn(d)
        BY <2>1 DEF Mapped, Held
    <2>2. CASE \E d \in Callers : LoggingIn(d)
        BY <2>2 DEF Mapped, Held
    <2> QED
        BY <2>1, <2>2
<1>2. CASE ~Reports(c)'
    <2>1. Basis' = [Basis EXCEPT ![c] = {}]
        BY <1>2 DEF Mapped
    <2> QED
        BY <1>1, <2>1 DEF Abstract!Next, Abstract!Part
<1>3. CASE Reports(c)' /\ tok # 0 /\ seen'[c] = generation
           /\ \A d \in Callers : ~LoggingIn(d)
    <2>1. Basis' = [Basis EXCEPT ![c] = {generation}]
        BY <1>3 DEF Mapped
    <2>2. Renewer = Nobody /\ Held
        BY <1>3 DEF Mapped, Held
    <2> QED
        BY <1>1, <2>1, <2>2 DEF Abstract!Next, Abstract!Join
<1>4. CASE Reports(c)' /\ Reports(c) /\ seen'[c] = seen[c]
    <2>1. Basis' = Basis
        BY <1>4 DEF Mapped
    <2> QED
        BY <1>1, <2>1 DEF Abstract!vars
<1> QED
    BY <1>2, <1>3, <1>4

\* ensure() joins the session that is held, is done with it, or begins a login.
LEMMA EnsureMaps ==
    ASSUME Inv, Mapped, Mapped', NEW c \in Callers, NEW s \in Stages,
           lock \in {c, Nobody}, ~LoggingIn(c), Reports(c) <=> s = "retry",
           Ensure(c, s)
    PROVE  [Abstract!Next]_(Abstract!vars)
<1>1. \A d \in Callers : ~LoggingIn(d)
    BY NobodyAssumption DEF Inv, LockInv
<1>2. CASE tok # 0 /\ ~Stale(c, s) /\ Return(c, s, generation) /\ Acts(c, s, tok) /\ UNCHANGED tok
    <2>1. \A d \in Callers : ~LoggingIn(d)'
        BY <1>1, <1>2 DEF Inv, TypeOK, LoggingIn, Acts, At
    <2>2. \A d \in Callers \ {c} : (Reports(d)' <=> Reports(d)) /\ seen'[d] = seen[d]
        BY <1>2 DEF Inv, TypeOK, GuardTypeOK, Reports, Return, Acts, At
    <2>3. ~Reports(c)' \/ seen'[c] = generation
        BY <1>2 DEF Inv, TypeOK, GuardTypeOK, Reports, Return, Acts, At
    <2>4. UNCHANGED generation
        BY <1>2 DEF Return
    <2> QED
        BY <1>1, <1>2, <2>1, <2>2, <2>3, <2>4, QuietStepMaps
<1>3. CASE (tok = 0 \/ Stale(c, s)) /\ Keep(c) /\ tok' = 0 /\ Awaits(c, s, "connect")
    <2>1. Renewer = Nobody /\ Renewer' = c /\ Held' = FALSE
        BY <1>1, <1>3 DEF Mapped, Held, LoggingIn, Awaits, At, Inv, TypeOK
    <2>2. \A d \in Callers : (Reports(d)' <=> Reports(d)) /\ seen'[d] = seen[d]
        BY <1>3 DEF Inv, TypeOK, GuardTypeOK, Reports, Keep, Awaits, At
    <2>3. Basis' = Basis /\ generation' = generation
        BY <1>3, <2>2 DEF Mapped, Keep
    <2>4. ~Held \/ generation \in Basis[c]
        BY <1>3 DEF Mapped, Held, Stale
    <2> QED
        BY <2>1, <2>3, <2>4 DEF Abstract!Next, Abstract!Begin
<1> QED
    BY <1>2, <1>3 DEF Ensure

\* To queue for the lock is no step of LoginSpec.
LEMMA CallMaps ==
    ASSUME Inv, Mapped, Mapped', NEW c \in Callers, NEW s \in Stages,
           ~LoggingIn(c), Reports(c) <=> s = "retry", Call(c, s)
    PROVE  [Abstract!Next]_(Abstract!vars)
<1>1. CASE lock = Nobody /\ Ensure(c, s)
    BY <1>1, EnsureMaps
<1>2. CASE Enqueue(c) /\ Awaits(c, s, "queued") /\ UNCHANGED tok
    <2>1. UNCHANGED <<generation, seen, tok>>
        BY <1>2 DEF Enqueue
    <2>2. \A d \in Callers : LoggingIn(d)' <=> LoggingIn(d)
        BY <1>2 DEF Inv, TypeOK, LoggingIn, Awaits, At
    <2>3. \A d \in Callers : Reports(d)' <=> Reports(d)
        BY <1>2 DEF Inv, TypeOK, GuardTypeOK, Reports, Awaits, At
    <2> QED
        BY <2>1, <2>2, <2>3, QuietStepMaps
<1> QED
    BY <1>1, <1>2 DEF Call

\* A login that succeeds, fails or is cancelled ends the one of LoginSpec.
LEMMA LoginEndMaps ==
    ASSUME Inv, Mapped, Mapped', NEW c \in Callers, pc[c] = "connect",
           \/ ConnectOk(c)
           \/ Ends(c) /\ seen' = [seen EXCEPT ![c] = 0] /\ UNCHANGED generation
    PROVE  [Abstract!Next]_(Abstract!vars)
<1>1. LoggingIn(c) /\ \A d \in Callers : LoggingIn(d) => d = c
    BY DEF Inv, LockInv, LoggingIn
<1>2. \A d \in Callers : ~LoggingIn(d)'
    BY <1>1 DEF Inv, TypeOK, LoggingIn, ConnectOk, Acts, Ends, At
<1>3. Renewer = c /\ Renewer' = Nobody
    BY <1>1, <1>2 DEF Mapped
<1>4. \A d \in Callers \ {c} : (Reports(d)' <=> Reports(d)) /\ seen'[d] = seen[d]
    BY DEF Inv, TypeOK, GuardTypeOK, Reports, ConnectOk, Return, Acts, Ends, At
<1>5. CASE ConnectOk(c)
    <2>1. generation' = generation + 1
        BY <1>5 DEF ConnectOk, Return
    <2>2. Held' = TRUE
        BY <1>5, OpensType, MobileAssumption DEF Held, ConnectOk, Inv, Sessions
    <2>3. Reports(c)' => seen'[c] = generation + 1
        BY <1>5 DEF Inv, TypeOK, GuardTypeOK, Reports, ConnectOk, Return, Acts, At
    <2>4. \E b \in {{generation + 1}, {}} : Basis' = [Basis EXCEPT ![c] = b]
        <3>1. ASSUME Reports(c)' PROVE Basis' = [Basis EXCEPT ![c] = {generation + 1}]
            BY <1>4, <2>3, <3>1 DEF Mapped
        <3>2. ASSUME ~Reports(c)' PROVE Basis' = [Basis EXCEPT ![c] = {}]
            BY <1>4, <3>2 DEF Mapped
        <3> QED
            BY <3>1, <3>2
    <2> QED
        BY <1>3, <2>1, <2>2, <2>4 DEF Abstract!Next, Abstract!Complete
<1>6. CASE Ends(c) /\ seen' = [seen EXCEPT ![c] = 0] /\ UNCHANGED generation
    <2>1. ~Reports(c)'
        BY <1>6 DEF Inv, TypeOK, GuardTypeOK, Reports, Ends, At
    <2>2. Basis' = [Basis EXCEPT ![c] = {}] /\ Held' \in BOOLEAN
        BY <1>4, <2>1 DEF Mapped, Held
    <2> QED
        BY <1>3, <1>6, <2>2 DEF Abstract!Next, Abstract!Fail
<1> QED
    BY <1>5, <1>6

\* A call that ends outside a login, also one that is cancelled while it waits
\* for the lock, gives up its report.
LEMMA EndsMaps ==
    ASSUME Inv, Mapped, Mapped', NEW c \in Callers, ~LoggingIn(c), Ends(c),
           seen' = [seen EXCEPT ![c] = 0], UNCHANGED <<generation, tok>>
    PROVE  [Abstract!Next]_(Abstract!vars)
<1>1. \A d \in Callers : LoggingIn(d)' <=> LoggingIn(d)
    BY DEF Inv, TypeOK, LoggingIn, Ends, At
<1>2. \A d \in Callers \ {c} : (Reports(d)' <=> Reports(d)) /\ seen'[d] = seen[d]
    BY DEF Inv, TypeOK, GuardTypeOK, Reports, Ends, At
<1>3. ~Reports(c)'
    BY DEF Inv, TypeOK, GuardTypeOK, Reports, Ends, At
<1> QED
    BY <1>1, <1>2, <1>3, QuietStepMaps

\* Every step is one of LoginSpec, or none.
LEMMA NextMaps ==
    ASSUME Inv, Mapped, Mapped', [Next]_vars
    PROVE  [Abstract!Next]_(Abstract!vars)
<1>1. ASSUME NEW c \in Callers, Start(c) PROVE [Abstract!Next]_(Abstract!vars)
    <2>1. ~LoggingIn(c) /\ ~Reports(c)
        BY <1>1 DEF Start, LoggingIn, Reports
    <2> QED
        BY <1>1, <2>1, CallMaps DEF Start, Stages
<1>2. ASSUME NEW c \in Callers, Resume(c) PROVE [Abstract!Next]_(Abstract!vars)
    <2>1. ~LoggingIn(c) /\ stage[c] \in Stages /\ (Reports(c) <=> stage[c] = "retry")
        BY <1>2 DEF Inv, TypeOK, GuardTypeOK, Resume, LoggingIn, Reports
    <2> QED
        BY <1>2, <2>1, EnsureMaps DEF Resume
<1>3. ASSUME NEW c \in Callers, ConnectOk(c) \/ ConnectFails(c)
      PROVE  [Abstract!Next]_(Abstract!vars)
    BY <1>3, LoginEndMaps DEF ConnectOk, ConnectFails, Raise
<1>4. ASSUME NEW c \in Callers, NotAuthenticated(c) \/ Finish(c)
      PROVE  [Abstract!Next]_(Abstract!vars)
    BY <1>4, EndsMaps DEF NotAuthenticated, Finish, Leave, LoggingIn
<1>5. ASSUME NEW c \in Callers, Cancel(c) PROVE [Abstract!Next]_(Abstract!vars)
    <2>1. Ends(c) /\ seen' = [seen EXCEPT ![c] = 0] /\ UNCHANGED <<generation, tok>>
        BY <1>5 DEF Cancel, Withdraw, Leave
    <2> QED
        BY <1>5, <2>1, EndsMaps, LoginEndMaps DEF LoggingIn
<1>6. ASSUME NEW c \in Callers, Refused(c) PROVE [Abstract!Next]_(Abstract!vars)
    <2>1. ~LoggingIn(c)
        BY <1>6 DEF Refused, LoggingIn
    <2>2. CASE stage[c] = "run" /\ Call(c, "retry")
        BY <1>6, <2>1, <2>2, CallMaps DEF Refused, Reports, Stages
    <2>3. CASE Leave(c) /\ Ends(c) /\ UNCHANGED tok
        BY <2>1, <2>3, EndsMaps DEF Leave
    <2> QED
        BY <1>6, <2>2, <2>3 DEF Refused
<1>7. ASSUME UNCHANGED <<guardVars, pc, tok>> PROVE [Abstract!Next]_(Abstract!vars)
    <2>1. \A d \in Callers : (LoggingIn(d)' <=> LoggingIn(d)) /\ (Reports(d)' <=> Reports(d))
        BY <1>7 DEF LoggingIn, Reports, guardVars
    <2>2. Renewer' = Renewer /\ Held' = Held
        <3>1. CASE \A d \in Callers : ~LoggingIn(d)
            BY <1>7, <2>1, <3>1 DEF Mapped, Held
        <3>2. CASE \E d \in Callers : LoggingIn(d)
            BY <1>7, <2>1, <3>2 DEF Mapped, Held
        <3> QED
            BY <3>1, <3>2
    <2>3. Basis' = Basis /\ generation' = generation
        BY <1>7, <2>1 DEF Mapped, guardVars
    <2> QED
        BY <2>2, <2>3 DEF Abstract!vars
<1>8. CASE UNCHANGED vars
    BY <1>7, <1>8 DEF vars
<1> QED
    BY <1>1, <1>2, <1>3, <1>4, <1>5, <1>6, <1>7, <1>8 DEF Next, Step, NextMonth, Lapse

\* The guard of the mobility session keeps what LoginSpec promises of one
\* atomic login, with a cancellation at any of its awaits (_session.py:46-74).
THEOREM MobileKeepsLoginSpec == Spec => Abstract!Safety
<1>1. Init => Abstract!Init
    <2> SUFFICES ASSUME Init PROVE Abstract!Init
        OBVIOUS
    <2>1. Mapped /\ (\A c \in Callers : ~LoggingIn(c) /\ ~Reports(c)) /\ Held = FALSE
        BY InitInv, InvMapped DEF Init, GuardInit, LoggingIn, Reports, Held
    <2>2. generation = 0
        BY DEF Init, GuardInit
    <2> QED
        BY <2>1, <2>2 DEF Mapped, Abstract!Init
<1>2. Inv /\ Inv' /\ [Next]_vars => [Abstract!Next]_(Abstract!vars)
    <2>1. Inv' => Mapped'
        BY InvMapped, PTL
    <2> QED
        BY <2>1, InvMapped, NextMaps
<1> QED
    BY <1>1, <1>2, MobileInv, PTL DEF Spec, Abstract!Safety
===============================================================================
