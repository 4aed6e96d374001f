---------------------------------- MODULE Poll ----------------------------------
(***************************************************************************)
(* One hourly update: the coordinator (coordinator.py) makes sure of a     *)
(* session and fetches; fetch() runs four requests in a TaskGroup under    *)
(* the guard, renews the session once on an expiry, and makes one error of *)
(* the many a group may raise (api.py).  The daily task asks the mobility  *)
(* API when the web has no daily series.                                   *)
(*                                                                         *)
(* A child task that ends is noticed by the group in a callback of a later *)
(* round of the event loop, in the order the tasks ended: until then other *)
(* children may end too, with errors of their own.  The answers are any:   *)
(* PortalSession says which ones a session allows, Requests how a request  *)
(* ends.                                                                   *)
(***************************************************************************)
EXTENDS Naturals, Sequences

CONSTANT HasMobile  \* is the provider in MOBILE_ENDPOINTS

ASSUME HasMobileAssumption == HasMobile \in BOOLEAN

VARIABLES
    phase,    \* what the update waits for, see Phases
    attempt,  \* pass of run(): 1, or 2 after an expiry
    child,    \* state of each task of the group
    outcome,  \* what a task ended with
    ended,    \* tasks that ended, the group not knowing yet, oldest first
    errors,   \* errors the group has collected, in the order it learnt of them
    update    \* how the last update ended

\* History, read by properties only.
VARIABLE rejected  \* did the portal refuse the credentials in this update

vars == <<phase, attempt, child, outcome, ended, errors, update, rejected>>

\* "opening" is client.authenticate(), "ensuring" the ensure() of run() and
\* "renewing" the one that follows an expiry.
Phases == {"idle", "opening", "ensuring", "fetching", "renewing"}

Required == {"last", "monthly", "history"}
Children == Required \cup {"daily"}

\* "expired" is SessionExpiredError, "auth" AuthError, "api" any other ApiError
\* and "other" an exception that is none of the integration's.
Errors == {"expired", "auth", "api", "other"}
Outcomes == {"pending", "data", "empty", "cancelled"} \cup Errors

TypeOK ==
    /\ phase \in Phases
    /\ attempt \in 1..2
    /\ child \in [Children -> {"none", "web", "mobile", "cancelling", "done"}]
    /\ outcome \in [Children -> Outcomes]
    /\ ended \in Seq(Children)
    /\ errors \in Seq(Errors)
    /\ update \in {"none", "data", "reauth", "failed", "crashed"}
    /\ rejected \in BOOLEAN

NoTasks ==
    /\ child' = [k \in Children |-> "none"]
    /\ outcome' = [k \in Children |-> "pending"]
    /\ ended' = <<>>
    /\ errors' = <<>>

Init ==
    /\ phase = "idle"
    /\ attempt = 1
    /\ child = [k \in Children |-> "none"]
    /\ outcome = [k \in Children |-> "pending"]
    /\ ended = <<>>
    /\ errors = <<>>
    /\ update = "none"
    /\ rejected = FALSE

-------------------------------------------------------------------------------
\* _async_update_data: which errors ask for a password, which only fail.
Update(error) ==
    CASE error = "auth" -> "reauth"
      [] error \in {"expired", "api"} -> "failed"
      [] error = "other" -> "crashed"

Ends(how) ==
    /\ phase' = "idle"
    /\ update' = how

Spawns ==
    /\ phase' = "fetching"
    /\ child' = [k \in Children |-> "web"]
    /\ outcome' = [k \in Children |-> "pending"]
    /\ ended' = <<>>
    /\ errors' = <<>>

Start ==
    /\ phase = "idle"
    /\ phase' = "opening"
    /\ attempt' = 1
    /\ update' = "none"
    /\ rejected' = FALSE
    /\ NoTasks

Opened ==
    /\ phase = "opening"
    /\ phase' = "ensuring"
    /\ UNCHANGED <<attempt, child, outcome, ended, errors, update, rejected>>

Ensured ==
    /\ phase = "ensuring"
    /\ Spawns
    /\ UNCHANGED <<attempt, update, rejected>>

\* Bug: run() renews the session at every expiry.
RenewedAgain ==
    /\ phase = "renewing"
    /\ Spawns
    /\ UNCHANGED <<attempt, update, rejected>>

Renewed ==
    /\ phase = "renewing"
    /\ Spawns
    /\ attempt' = attempt + 1
    /\ UNCHANGED <<update, rejected>>

\* A login fails; none of them ends with an expiry (Requests, LoginNeverExpires).
LoginFails ==
    /\ phase \in {"opening", "ensuring", "renewing"}
    /\ \E error \in {"auth", "api"} :
          /\ Ends(Update(error))
          /\ rejected' = (error = "auth")
    /\ UNCHANGED <<attempt, child, outcome, ended, errors>>

-------------------------------------------------------------------------------
\* The tasks of the group.

TaskEnds(k, how) ==
    /\ child' = [child EXCEPT ![k] = "done"]
    /\ outcome' = [outcome EXCEPT ![k] = how]
    /\ ended' = Append(ended, k)
    /\ UNCHANGED <<phase, attempt, errors, update, rejected>>

\* _safe_get: "empty" is the soft 400.
RequiredAnswer(k) ==
    /\ k \in Required /\ child[k] = "web"
    /\ \E how \in {"data", "empty", "expired", "api"} : TaskEnds(k, how)

\* _recent_daily: the optional chart has entries, none - which stands for every
\* error but an expiry - or the session has expired.
DailyAnswer ==
    /\ child["daily"] = "web"
    /\ \E how \in {"data", "empty", "expired"} :
          IF how = "empty" /\ HasMobile
          THEN /\ child' = [child EXCEPT !["daily"] = "mobile"]
               /\ UNCHANGED <<phase, attempt, outcome, ended, errors, update, rejected>>
          ELSE TaskEnds("daily", how)

\* Bug: only API errors of the mobility client are swallowed, not its AuthError.
MobileDailyNarrow(how) == IF how \in {"expired", "api"} THEN "empty" ELSE how

\* _mobile_daily: every error of the integration is swallowed.  A payload of
\* another shape raises an AttributeError, which is not one.
MobileDaily(how) == IF how \in {"expired", "auth", "api"} THEN "empty" ELSE how

MobileAnswer ==
    /\ child["daily"] = "mobile"
    /\ \E how \in {"data", "empty"} \cup Errors : TaskEnds("daily", MobileDaily(how))

CancelLands(k) ==
    /\ child[k] = "cancelling"
    /\ TaskEnds(k, "cancelled")

\* The group learns that its oldest ended task ended: the first error makes it
\* cancel every task that has not ended yet.
Noticed ==
    /\ ended # <<>>
    /\ ended' = Tail(ended)
    /\ LET how == outcome[Head(ended)] IN
          IF how \in Errors
          THEN /\ errors' = Append(errors, how)
               /\ child' = [k \in Children |->
                              IF child[k] \in {"web", "mobile"} THEN "cancelling" ELSE child[k]]
          ELSE UNCHANGED <<errors, child>>
    /\ UNCHANGED <<phase, attempt, outcome, update, rejected>>

\* Bug: the error that came first is raised.
FirstErrorPlain == Head(errors)

\* The TaskGroup is left once it knows of the end of each of its tasks.
GroupOver == ended = <<>> /\ \A k \in Children : child[k] = "done"

\* _first_error: an expiry comes first.
FirstError ==
    IF \E i \in DOMAIN errors : errors[i] = "expired" THEN "expired" ELSE Head(errors)

Fetched ==
    /\ phase = "fetching" /\ GroupOver
    /\ errors = <<>>
    /\ Ends("data")
    /\ UNCHANGED <<attempt, child, outcome, ended, errors, rejected>>

\* Bug: every expiry renews the session.
ShouldRenewAlways == FirstError = "expired"

ShouldRenew == FirstError = "expired" /\ attempt = 1

FetchRaises ==
    /\ phase = "fetching" /\ GroupOver
    /\ errors # <<>>
    /\ \/ ShouldRenew /\ phase' = "renewing" /\ UNCHANGED update
       \/ ~ShouldRenew /\ Ends(Update(FirstError))
    /\ UNCHANGED <<attempt, child, outcome, ended, errors, rejected>>

Task(k) == RequiredAnswer(k) \/ CancelLands(k)

Progress ==
    \/ Opened \/ Ensured \/ Renewed \/ LoginFails
    \/ \E k \in Children : Task(k)
    \/ DailyAnswer \/ MobileAnswer \/ Noticed \/ Fetched \/ FetchRaises

Next == Start \/ Progress

\* The event loop runs every callback and every request times out.
Spec == Init /\ [][Next]_vars /\ WF_vars(Progress)

-------------------------------------------------------------------------------
\* Properties.

\* An update fails in its first pass only if none of its requests told it that
\* the session had expired, whatever else failed and in whatever order the
\* group learnt of it (_first_error, api.py:339-348).
ExpiryWins ==
    [][phase = "fetching" /\ phase' = "idle" /\ attempt = 1 =>
          \A k \in Children : outcome[k] # "expired"]_vars

\* The user is asked for a password only if the portal refused it in this very
\* update, never because of the mobility API (coordinator.py:40-47).
ReauthOnRejection == update = "reauth" => rejected

\* The mobility fallback is "best-effort, never breaks the poll" (api.py:251), but
\* for one thing: a payload of another shape raises an exception that is none of
\* the integration's and crashes the update (_mobile.py:76-80, api.py:252-256).
\* No other error of the daily series but an expiry, the AuthError of the
\* mobility API and its timeouts among them, makes an update fail, crash or ask
\* for a password.
DailyFailsByShapeOnly ==
    [][phase = "fetching" /\ phase' = "idle" /\ update' # "data" =>
          \/ \E k \in Required : outcome[k] \in Errors
          \/ outcome["daily"] = "expired"
          \/ outcome["daily"] = "other" /\ update' = "crashed"]_vars

\* Every update ends, with at most one renewal.
UpdateEnds == phase # "idle" ~> phase = "idle"
===============================================================================
