----------------------------- MODULE Requests_proofs -----------------------------
(***************************************************************************)
(* Safety of Requests for any number of retries and redirects.  What makes *)
(* the properties inductive is what holds while a request is out:          *)
(*   - nobody has a result yet, so an answer decides it (WaitingInv);      *)
(*   - only a call with attempts left waits for another one, and the       *)
(*     credentials have one attempt (BackoffInv);                          *)
(*   - credentials that may have been acted upon are not in the request    *)
(*     any more (SubmissionInv), hence CredentialsOnce.                    *)
(***************************************************************************)
EXTENDS Requests, TLAPS

WaitingInv == pc # "idle" => result = "none"

BackoffInv == pc = "backoff" => attempt < Attempts(kind)

SubmissionInv ==
    kind \in CredentialKinds =>
        /\ processed <= 1
        /\ pc # "idle" /\ body => processed = 0

Inv ==
    /\ TypeOK /\ WaitingInv /\ BackoffInv /\ SubmissionInv
    /\ NothingLeaks /\ OutageIsNotRejection /\ LoginNeverExpires

-------------------------------------------------------------------------------
\* A call has at least one attempt, credentials have exactly one.
LEMMA AttemptsBound ==
    \A k \in Kinds : Attempts(k) \in 1..MaxRetries /\ (k \in CredentialKinds => Attempts(k) = 1)
BY RequestsAssumption DEF Attempts, Kinds, CredentialKinds

\* What a caller gets is a result, for a login never an expiry, and for the
\* portal's login AuthError only after one of the answers that refuse it.
LEMMA ResultType ==
    ASSUME NEW k \in Kinds, NEW answer \in Finals
    PROVE  /\ Result(k, answer) \in Results
           /\ k \in PortalLogin \cup {"connect"} => Result(k, answer) # "expired"
           /\ k = "login" /\ Result(k, answer) = "auth" =>
                 answer \in {"soft", "expired", "refused", "incomplete"}
<1>1. CASE k = "landing"
  BY <1>1 DEF Result, LandingResult, Results
<1>2. CASE k \in {"token", "contract"}
  BY <1>2 DEF Result, StepResult, Results
<1>3. CASE k = "login"
  <2>1. Result(k, answer) = LoginResult(answer)
    BY <1>3 DEF Result
  <2>2. LoginResult(answer) \in {"ok", "auth", "api"}
    BY DEF LoginResult
  <2>3. LoginResult(answer) = "auth" => answer \in {"soft", "expired", "refused", "incomplete"}
    BY DEF LoginResult, Transport, ClientErrors, Finals
  <2> QED
    BY <1>3, <2>1, <2>2, <2>3 DEF Results
<1>4. CASE k = "connect"
  BY <1>4 DEF Result, ConnectResult, Results
<1>5. CASE k \in {"required", "optional", "month"}
  <2>1. Result(k, answer) = DataResult(k, answer)
    BY <1>5 DEF Result
  <2>2. DataResult(k, answer) \in Results
    BY <1>5 DEF DataResult, Transport, Finals, Results
  <2> QED
    BY <1>5, <2>1, <2>2 DEF PortalLogin
<1> QED
  BY <1>1, <1>2, <1>3, <1>4, <1>5 DEF Kinds, PortalLogin, CredentialKinds

\* A request that fails in transport is never a rejection of the portal's login.
LEMMA FailureType ==
    ASSUME NEW k \in Kinds
    PROVE  /\ Failure(k) \in {"auth", "empty", "api"}
           /\ k = "login" => Failure(k) = "api"
BY DEF Failure

-------------------------------------------------------------------------------
LEMMA InitInv == Init => Inv
<1> SUFFICES ASSUME Init PROVE Inv
  OBVIOUS
<1>1. TypeOK
  <2>1. attempt \in 1..MaxRetries /\ hop \in 0..MaxRedirects
    BY RequestsAssumption DEF Init
  <2>2. kind \in Kinds /\ result \in Results
    BY DEF Init, Kinds, PortalLogin, Results
  <2> QED
    BY <2>1, <2>2 DEF Init, TypeOK
<1>2. WaitingInv /\ BackoffInv /\ SubmissionInv
  BY DEF Init, WaitingInv, BackoffInv, SubmissionInv, CredentialKinds
<1>3. NothingLeaks /\ OutageIsNotRejection /\ LoginNeverExpires
  BY DEF Init, NothingLeaks, OutageIsNotRejection, LoginNeverExpires
<1> QED
  BY <1>1, <1>2, <1>3 DEF Inv

\* The call ends with r after an answer that may have been acted upon.
LEMMA EndsKeepsInv ==
    ASSUME Inv, pc = "sent", NEW r \in Results, Ends(r),
           Acts \/ UNCHANGED processed,
           answered' \in Finals \cup {"none", "lost", "broken", "redirect"},
           kind = "login" /\ r = "auth" =>
              answered' \in {"soft", "expired", "refused", "incomplete"},
           kind \in PortalLogin \cup {"connect"} => r # "expired"
    PROVE  Inv'
<1>1. TypeOK'
  BY DEF Inv, TypeOK, Ends, Acts
<1>2. SubmissionInv'
  BY DEF Inv, TypeOK, SubmissionInv, Ends, Acts
<1> QED
  BY <1>1, <1>2 DEF Inv, WaitingInv, BackoffInv, NothingLeaks, OutageIsNotRejection,
                    LoginNeverExpires, Ends

LEMMA CallKeepsInv == ASSUME Inv, NEW k \in Kinds, Call(k) PROVE Inv'
<1>1. TypeOK'
  BY RequestsAssumption DEF Inv, TypeOK, Call, MethodOf, HasBody, Results
<1>2. NothingLeaks'
  BY DEF NothingLeaks, Call, HasBody, MethodOf
<1> QED
  BY <1>1, <1>2 DEF Inv, Call, WaitingInv, BackoffInv, SubmissionInv,
                    OutageIsNotRejection, LoginNeverExpires

LEMMA AnswerKeepsInv == ASSUME Inv, NEW answer \in Finals, Answer(answer) PROVE Inv'
<1>1. kind \in Kinds
  BY DEF Inv, TypeOK
<1> QED
  BY <1>1, ResultType, EndsKeepsInv DEF Answer

LEMMA FailsKeepsInv == ASSUME Inv, NEW how \in {"lost", "broken"}, Fails(how) PROVE Inv'
<1>0. kind \in Kinds /\ pc = "sent" /\ answered' = how /\ Acts
  BY DEF Inv, TypeOK, Fails
<1>1. CASE attempt < Attempts(kind)
  <2>1. pc' = "backoff" /\ UNCHANGED <<kind, attempt, hop, method, body, host, result>>
    BY <1>1 DEF Fails
  <2>2. kind \notin CredentialKinds
    BY <1>0, <1>1, AttemptsBound DEF Inv, TypeOK
  <2>3. TypeOK'
    BY <1>0, <2>1 DEF Inv, TypeOK, Acts
  <2>4. BackoffInv'
    BY <1>1, <2>1 DEF BackoffInv, Attempts
  <2>5. WaitingInv' /\ OutageIsNotRejection' /\ LoginNeverExpires'
    BY <1>0, <2>1 DEF Inv, WaitingInv, OutageIsNotRejection, LoginNeverExpires
  <2> QED
    BY <2>1, <2>2, <2>3, <2>4, <2>5 DEF Inv, SubmissionInv, NothingLeaks
<1>2. CASE ~(attempt < Attempts(kind))
  <2>1. Ends(Failure(kind))
    BY <1>2 DEF Fails
  <2> QED
    BY <1>0, <2>1, FailureType, EndsKeepsInv DEF Results
<1> QED
  BY <1>1, <1>2

LEMMA RetryKeepsInv == ASSUME Inv, Retry PROVE Inv'
<1>0. kind \in Kinds
  BY DEF Inv, TypeOK
<1>1. kind \notin CredentialKinds
  BY <1>0, AttemptsBound DEF Inv, TypeOK, BackoffInv, Retry
<1>2. TypeOK'
  <2>1. attempt' \in 1..MaxRetries
    BY <1>0, AttemptsBound, RequestsAssumption DEF Inv, TypeOK, BackoffInv, Retry
  <2> QED
    BY <2>1, RequestsAssumption DEF Inv, TypeOK, Retry, MethodOf, HasBody
<1>3. NothingLeaks'
  BY DEF NothingLeaks, Retry, HasBody, MethodOf
<1>4. WaitingInv' /\ OutageIsNotRejection' /\ LoginNeverExpires'
  BY DEF Inv, Retry, WaitingInv, OutageIsNotRejection, LoginNeverExpires
<1> QED
  BY <1>1, <1>2, <1>3, <1>4 DEF Inv, BackoffInv, SubmissionInv, Retry

LEMMA RedirectKeepsInv ==
    ASSUME Inv, NEW demotes \in BOOLEAN, NEW target, Redirect(demotes, target) PROVE Inv'
<1>0. kind \in Kinds /\ pc = "sent" /\ answered' = "redirect" /\ (Acts \/ UNCHANGED processed)
  BY DEF Inv, TypeOK, Redirect
<1>1. CASE ~Allowed(target) \/ TooMany
  <2>1. Ends(Failure(kind))
    BY <1>1 DEF Redirect
  <2> QED
    BY <1>0, <2>1, FailureType, EndsKeepsInv DEF Results
<1>2. CASE Allowed(target) /\ ~TooMany
  <2>1. /\ hop' = hop + 1
        /\ method' = NextMethod(demotes)
        /\ body' = NextBody(demotes)
        /\ host' = "portal"
        /\ UNCHANGED <<kind, pc, attempt, result>>
    BY <1>2 DEF Redirect, Allowed
  <2>2. IF demotes THEN Acts ELSE UNCHANGED processed
    BY DEF Redirect
  <2>3. TypeOK'
    <3>1. hop' \in 0..MaxRedirects
      BY <1>2, <2>1, RequestsAssumption DEF Inv, TypeOK, TooMany
    <3>2. method' \in {"GET", "POST"}
      BY <2>1 DEF Inv, TypeOK, NextMethod
    <3>3. body' \in BOOLEAN
      BY <2>1 DEF NextBody
    <3>4. processed' \in Nat
      BY <2>2 DEF Inv, TypeOK, Acts
    <3> QED
      BY <1>0, <2>1, <3>1, <3>2, <3>3, <3>4 DEF Inv, TypeOK
  <2>4. NothingLeaks'
    BY <2>1 DEF NothingLeaks, NextBody
  <2>5. SubmissionInv'
    <3> SUFFICES ASSUME kind \in CredentialKinds
                 PROVE  processed' <= 1 /\ (body' => processed' = 0)
      BY <2>1 DEF SubmissionInv
    <3>1. processed \in Nat /\ processed <= 1 /\ (body => processed = 0)
      BY <1>0 DEF Inv, TypeOK, SubmissionInv
    <3>2. CASE ~body
      BY <2>1, <2>2, <3>1, <3>2 DEF NextBody, Acts
    <3>3. CASE body /\ demotes
      <4>1. method = "POST"
        BY <3>3 DEF Inv, TypeOK, NothingLeaks
      <4>2. ~body'
        BY <2>1, <3>3, <4>1 DEF NextBody, NextMethod
      <4> QED
        BY <2>2, <3>1, <3>3, <4>2 DEF Acts
    <3>4. CASE body /\ ~demotes
      BY <2>2, <3>1, <3>4
    <3> QED
      BY <3>2, <3>3, <3>4
  <2>6. WaitingInv' /\ OutageIsNotRejection' /\ LoginNeverExpires' /\ BackoffInv'
    BY <1>0, <2>1 DEF Inv, WaitingInv, OutageIsNotRejection, LoginNeverExpires, BackoffInv
  <2> QED
    BY <2>3, <2>4, <2>5, <2>6 DEF Inv
<1> QED
  BY <1>1, <1>2

LEMMA NextKeepsInv == Inv /\ [Next]_vars => Inv'
<1> SUFFICES ASSUME Inv, [Next]_vars PROVE Inv'
  OBVIOUS
<1>1. ASSUME NEW k \in Kinds, Call(k) PROVE Inv'
  BY <1>1, CallKeepsInv
<1>2. ASSUME Receive PROVE Inv'
  <2>1. ASSUME NEW answer \in Finals, Answer(answer) PROVE Inv'
    BY <2>1, AnswerKeepsInv
  <2>2. ASSUME NEW how \in {"lost", "broken"}, Fails(how) PROVE Inv'
    BY <2>2, FailsKeepsInv
  <2>3. ASSUME NEW demotes \in BOOLEAN, NEW target \in {"portal", "elsewhere", "nowhere"},
               Redirect(demotes, target)
        PROVE  Inv'
    BY <2>3, RedirectKeepsInv
  <2> QED
    BY <1>2, <2>1, <2>2, <2>3 DEF Receive
<1>3. ASSUME Retry PROVE Inv'
  BY <1>3, RetryKeepsInv
<1>4. CASE UNCHANGED vars
  BY <1>4 DEF vars, Inv, TypeOK, WaitingInv, BackoffInv, SubmissionInv, NothingLeaks,
              OutageIsNotRejection, LoginNeverExpires, Attempts
<1> QED
  BY <1>1, <1>2, <1>3, <1>4 DEF Next

-------------------------------------------------------------------------------
\* The invariant of every request, with its type and the claim that the guard
\* behind the redirect loop is never reached (_http.py:169).
THEOREM RequestsInv == Spec => []Inv
<1>1. Init => Inv
  BY InitInv
<1>2. Inv /\ [Next]_vars => Inv'
  BY NextKeepsInv
<1> QED
  BY <1>1, <1>2, PTL DEF Spec

\* The type invariant.
THEOREM RequestsTypeCorrect == Spec => []TypeOK
<1>1. Inv => TypeOK
  BY DEF Inv
<1> QED
  BY <1>1, RequestsInv, PTL

\* However many retries and redirects the constants allow, one call that submits
\* the credentials has them acted upon at most once (_http.py:59-62).
THEOREM CredentialsActedUponOnce == Spec => []CredentialsOnce
<1>1. Inv => CredentialsOnce
  BY DEF Inv, SubmissionInv, CredentialsOnce
<1> QED
  BY <1>1, RequestsInv, PTL

\* An outage never asks for a new password (_auth.py:281-287).
THEOREM OutageNeverRejects == Spec => []OutageIsNotRejection
<1>1. Inv => OutageIsNotRejection
  BY DEF Inv
<1> QED
  BY <1>1, RequestsInv, PTL

\* No step of a login raises a session expiry, which SessionGuard would take for
\* one of the session it is opening (_session.py:69).
THEOREM LoginRaisesNoExpiry == Spec => []LoginNeverExpires
<1>1. Inv => LoginNeverExpires
  BY DEF Inv
<1> QED
  BY <1>1, RequestsInv, PTL

\* Nothing is sent but by https to the portal's host, and no body after a
\* demotion to GET (_redirects.py:62-107).
THEOREM NothingEverLeaks == Spec => []NothingLeaks
<1>1. Inv => NothingLeaks
  BY DEF Inv
<1> QED
  BY <1>1, RequestsInv, PTL
===============================================================================
