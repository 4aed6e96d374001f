-------------------------------- MODULE Requests --------------------------------
(***************************************************************************)
(* One HTTP request of a client, from the call to the exception or payload *)
(* its caller sees: the retry loop and the classification of answers       *)
(* (_http.py), the redirects (_redirects.py), and what each kind of call   *)
(* makes of the outcome (_auth.py, api.py, _mobile.py).                    *)
(*                                                                         *)
(* The server may answer anything at each hop, or lose the request or its  *)
(* answer.  The kinds of calls are:                                        *)
(*   "landing", "token", "login", "contract"  - steps 1 to 4 of the portal *)
(*                                              login;                     *)
(*   "connect"  - the login of the mobility API;                           *)
(*   "required", "optional"  - data of the portal, by _safe_get or by the  *)
(*                             tolerant _chart_entries;                    *)
(*   "month"    - data of the mobility API.                                *)
(***************************************************************************)
EXTENDS Naturals

CONSTANTS MaxRetries,   \* MAX_RETRIES of const.py
          MaxRedirects  \* MAX_REDIRECTS of const.py

ASSUME RequestsAssumption == MaxRetries \in Nat \ {0} /\ MaxRedirects \in Nat

VARIABLES
    kind,     \* the kind of the call
    pc,       \* "idle", "sent" (waiting for an answer) or "backoff"
    attempt,  \* attempt number of the retry loop, from 1
    hop,      \* redirects followed in this attempt
    method,   \* method of the request that was last sent
    body,     \* does it carry the JSON body
    host,     \* where it was sent
    result    \* what the caller got

\* History, read by properties only.
VARIABLES
    processed, \* submissions of the body that the server may have acted upon
    answered   \* the last answer

vars == <<kind, pc, attempt, hop, method, body, host, result, processed, answered>>

PortalLogin == {"landing", "token", "login", "contract"}
CredentialKinds == {"login", "connect"}
Kinds == PortalLogin \cup CredentialKinds \cup {"required", "optional", "month"}

MethodOf(k) == IF k \in {"token", "login", "connect", "month"} THEN "POST" ELSE "GET"
HasBody(k) == MethodOf(k) = "POST"

\* retry=not checks_credentials, retry=False; the landing page is not retried.
Attempts(k) == IF k \in CredentialKinds \cup {"landing"} THEN 1 ELSE MaxRetries

\* Final answers: a usable payload; one without the required field or with a
\* mobility Code other than 100; a user block that is missing; no JSON object; 400 with
\* severity Information; 401 or 403; another 4xx.
Finals == {"payload", "incomplete", "malformed", "garbage", "soft", "expired", "refused"}
Results == {"none", "ok", "empty", "expired", "auth", "api4xx", "api"}

\* The bound on hop is the claim that the guard after the loop of
\* open_following_redirects is never reached (_http.py:169).
TypeOK ==
    /\ kind \in Kinds
    /\ pc \in {"idle", "sent", "backoff"}
    /\ attempt \in 1..MaxRetries
    /\ hop \in 0..MaxRedirects
    /\ method \in {"GET", "POST"}
    /\ body \in BOOLEAN
    /\ host \in {"portal", "elsewhere"}
    /\ result \in Results
    /\ processed \in Nat
    /\ answered \in Finals \cup {"none", "lost", "broken", "redirect"}

Init ==
    /\ kind = "landing"
    /\ pc = "idle"
    /\ attempt = 1
    /\ hop = 0
    /\ method = "GET"
    /\ body = FALSE
    /\ host = "portal"
    /\ result = "none"
    /\ processed = 0
    /\ answered = "none"

-------------------------------------------------------------------------------
\* _raise_for_status, _parse_json_or_raise and the Code check of _request.
Transport(k, answer) ==
    CASE answer \in {"payload", "malformed"} -> "ok"
      [] answer = "incomplete" -> IF k = "month" THEN "api" ELSE "incomplete"
      [] answer = "soft" -> "nodata"
      [] answer = "expired" -> "expired"
      [] answer = "refused" -> "api4xx"
      [] answer = "garbage" -> "api"

ClientErrors == {"nodata", "expired", "api4xx"}

\* Bug: transport errors of the login POST ask for a new password too.
LoginResultEager(answer) == IF answer = "payload" THEN "ok" ELSE "auth"

\* _auth_call with checks_credentials and the user block of _step_login.
LoginResult(answer) ==
    LET outcome == Transport("login", answer) IN
    CASE outcome \in ClientErrors \cup {"incomplete"} -> "auth"
      [] outcome = "api" \/ answer = "malformed" -> "api"
      [] OTHER -> "ok"

\* Bug: the other steps pass on what the transport raised.
StepResultRaw(k, answer) ==
    IF Transport(k, answer) \in {"expired", "api", "api4xx"} THEN Transport(k, answer) ELSE "ok"

\* _auth_call of the other steps: any failure becomes a plain API error.
StepResult(k, answer) ==
    IF Transport(k, answer) = "ok" \/ (k # "token" /\ answer = "incomplete")
    THEN "ok" ELSE "api"

\* _authenticate of the mobility client: every failure is an AuthError.
ConnectResult(answer) == IF answer \in {"payload", "malformed"} THEN "ok" ELSE "auth"

\* _safe_get turns a soft 400 into an empty result, the optional chart any error
\* but an expiry.
DataResult(k, answer) ==
    LET outcome == Transport(k, answer) IN
    CASE outcome \in {"ok", "incomplete"} -> "ok"
      [] outcome = "nodata" /\ k = "required" -> "empty"
      [] outcome = "nodata" /\ k = "month" -> "api4xx"
      [] outcome # "expired" /\ k = "optional" -> "empty"
      [] OTHER -> outcome

\* The landing page is not parsed: only its status counts.
LandingResult(answer) ==
    IF answer \in {"soft", "expired", "refused"} THEN "api" ELSE "ok"

Result(k, answer) ==
    CASE k = "landing" -> LandingResult(answer)
      [] k \in {"token", "contract"} -> StepResult(k, answer)
      [] k = "login" -> LoginResult(answer)
      [] k = "connect" -> ConnectResult(answer)
      [] k \in {"required", "optional", "month"} -> DataResult(k, answer)

\* What the caller sees of a request that failed in transport.
Failure(k) ==
    CASE k = "connect" -> "auth"
      [] k = "optional" -> "empty"
      [] OTHER -> "api"

Ends(r) ==
    /\ pc' = "idle"
    /\ result' = r
    /\ UNCHANGED <<kind, attempt, hop, method, body, host>>

\* The server may have acted upon the body of the pending request.
Acts == processed' = IF body THEN processed + 1 ELSE processed

-------------------------------------------------------------------------------
Call(k) ==
    /\ pc = "idle"
    /\ kind' = k
    /\ pc' = "sent"
    /\ attempt' = 1
    /\ hop' = 0
    /\ method' = MethodOf(k)
    /\ body' = HasBody(k)
    /\ host' = "portal"
    /\ result' = "none"
    /\ processed' = 0
    /\ answered' = "none"

\* A final answer below 500.
Answer(answer) ==
    /\ pc = "sent"
    /\ Acts
    /\ answered' = answer
    /\ Ends(Result(kind, answer))

\* Bug: every request is retried.
FailsRetrying(how) ==
    /\ pc = "sent"
    /\ Acts
    /\ answered' = how
    /\ IF attempt < MaxRetries
       THEN pc' = "backoff" /\ UNCHANGED <<kind, attempt, hop, method, body, host, result>>
       ELSE Ends(Failure(kind))

\* A timeout, a network error or a 5xx: the loop waits and tries again, or the
\* last error is wrapped.
Fails(how) ==
    /\ pc = "sent"
    /\ Acts
    /\ answered' = how
    /\ IF attempt < Attempts(kind)
       THEN pc' = "backoff" /\ UNCHANGED <<kind, attempt, hop, method, body, host, result>>
       ELSE Ends(Failure(kind))

\* Bug: the attempts are not counted.
RetryForever ==
    /\ pc = "backoff"
    /\ pc' = "sent"
    /\ hop' = 0
    /\ method' = MethodOf(kind)
    /\ body' = HasBody(kind)
    /\ host' = "portal"
    /\ UNCHANGED <<kind, attempt, result, processed, answered>>

\* A new attempt starts from the first URL, method and body.
Retry ==
    /\ pc = "backoff"
    /\ pc' = "sent"
    /\ attempt' = attempt + 1
    /\ hop' = 0
    /\ method' = MethodOf(kind)
    /\ body' = HasBody(kind)
    /\ host' = "portal"
    /\ UNCHANGED <<kind, result, processed, answered>>

\* Bug: the redirect is followed wherever it points.
AllowedAnywhere(target) == target # "nowhere"

\* _validated_target: https on the portal's own host, and a Location at all.
Allowed(target) == target = "portal"

\* 301, 302 and 303 demote a POST to a GET; 307 and 308 repeat it.
NextMethod(demotes) == IF demotes /\ method = "POST" THEN "GET" ELSE method

\* Bug: a GET that comes from a POST keeps the body.
NextBodyKept(demotes) == body

\* drop_body_after_get_redirect, for the hop after this one.
NextBody(demotes) == body /\ NextMethod(demotes) # "GET"

\* Bug: one hop too many is followed.
TooManyLate == hop > MaxRedirects

TooMany == hop >= MaxRedirects

\* A redirect with demotes = FALSE was not acted upon: 307 and 308 ask for the
\* same request elsewhere.
Redirect(demotes, target) ==
    /\ pc = "sent"
    /\ answered' = "redirect"
    /\ IF demotes THEN Acts ELSE UNCHANGED processed
    /\ IF ~Allowed(target) \/ TooMany
       THEN Ends(Failure(kind))
       ELSE /\ hop' = hop + 1
            /\ method' = NextMethod(demotes)
            /\ body' = NextBody(demotes)
            /\ host' = target
            /\ UNCHANGED <<kind, pc, attempt, result>>

Receive ==
    \/ \E answer \in Finals : Answer(answer)
    \/ \E how \in {"lost", "broken"} : Fails(how)
    \/ \E demotes \in BOOLEAN, target \in {"portal", "elsewhere", "nowhere"} :
          Redirect(demotes, target)

Next == (\E k \in Kinds : Call(k)) \/ Receive \/ Retry

\* Each attempt is bounded by the client timeout and each wait by max=8 s.
Spec == Init /\ [][Next]_vars /\ WF_vars(Receive \/ Retry)

-------------------------------------------------------------------------------
\* Properties.

\* The server acts at most once upon one submission of the credentials, whatever
\* is lost, answered with a 5xx or redirected: no call counts twice towards the
\* account lockout (_http.py:59-62, _auth.py:286-287, _mobile.py:123-124).  How
\* many calls log in is not bounded here.
CredentialsOnce == kind \in CredentialKinds => processed <= 1

\* The user is asked for a new password only when the portal answered the login
\* itself and refused it: an outage never looks like one (_auth.py:281-287).
OutageIsNotRejection ==
    kind = "login" /\ result = "auth" =>
        answered \in {"soft", "expired", "refused", "incomplete"}

\* No step of a login raises a session expiry: SessionGuard would take it for
\* an expiry of the session it is opening (_session.py:69).
LoginNeverExpires ==
    kind \in PortalLogin \cup {"connect"} => result # "expired"

\* Everything that is sent goes by https to the portal's host, and a request
\* that a redirect demoted to GET no longer carries the body
\* (_redirects.py:62-107).
NothingLeaks == host = "portal" /\ (method = "GET" => ~body)

\* Every call ends: redirects and retries are both bounded.
EveryRequestEnds == pc # "idle" ~> pc = "idle"
===============================================================================
