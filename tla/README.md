# Eaux de Marseille for Home Assistant: TLA+ models and proofs

The integration reads a water meter's consumption from the customer portals of
Eaux de Marseille and SEMM, shows it as sensors and rebuilds long-term
statistics from it. It is a small program, but its hard parts are concurrent:
polls and statistics imports share one HTTP session whose token may expire at
any time, a poll is four requests of which one failure cancels the others, the
imports rewrite a database while the portal revises its data, and credentials
must not be sent more often than needed because the account locks.

All paths below are relative to `src/custom_components/eaux_marseille/`.

## 1. Inventory

| Component | State | Operations | Talks to | What makes it correct |
|---|---|---|---|---|
| Session guard, `_session.py` | `_lock`, `_generation` | `ensure`, `run` | the client that owns it, by three callbacks | one login at a time; an expiry seen by N tasks costs one login; a good session is never dropped; the lock is always given back |
| Portal login, `_auth.py` | `_app_token`, `_ael_token`, cookies | five login steps, `get`, `invalidate` | HTTP transport | never both tokens; a session is complete when it is used; only a rejection asks for a password |
| Portal client, `api.py` | the guard, the mobility client, the cache | `authenticate`, `fetch`, `fetch_monthly_range`, `fetch_daily_range`, `check_contract` | both clients, the cache | an expiry wins over the errors it causes; no error of the daily series breaks a poll |
| Mobility client, `_mobile.py` | `_token`, its own guard | `recent_daily`, `daily_range` | HTTP transport | same as the guard, under cancellation by the poll |
| HTTP transport, `_http.py`, `_redirects.py` | attempt, hop, method, body | `request_with_retry`, `open_following_redirects` | the portals | one submission of the credentials is acted upon once; nothing leaves the portal's host or https; every call ends |
| Closed-year cache, `_year_cache.py` | entries by (series, year) | `get` | the fetchers | only final years are kept (but for one race at New Year) |
| Statistics importer, `statistics.py` | local `by_date`, running sum; the recorder; a repair issue | `async_import_historical_statistics` | client, recorder, issue registry | the recorder converges to the portal; sums ascend; failures are reported |
| Entry lifecycle, `__init__.py` | entry data, `last_imported_index`, timer, listener | setup, unload | coordinator, importer, client | nothing runs on a closed client; new data is imported; every client is accounted for |
| Coordinator, `coordinator.py` | last data | `_async_update_data` | client | right error to Home Assistant |
| Services, `services.py`, `_client_factory.py` | none | refresh, reimport | coordinator; a client of their own | the entry is loaded; the client is closed |
| Config flow, `config_flow.py` | flow state, entries | user, reauth, reconfigure | a throw-away client | no two entries for one contract; what is stored was validated |
| Aggregation of a poll, `models.py` | none | `from_api_responses` | the coordinator's data | the freshest index of the four answers; no value is invented or lost |
| Sensors, diagnostics, constants | none | pure functions and tables | - | - |

How they interact: the coordinator, the listener on its data, the daily timer
and the service all run as tasks of one event loop. The first three share one
`EauxDeMarseilleClient`, hence one guard for the portal and one for the
mobility API; the service builds a client of its own. A task runs without
interruption from one `await` to the next, so the interleavings that matter are
those of awaits: the answers of requests, the lock of the guard, the recorder.

The behaviours that are hard here, with the line where each bites, are the
`hazards` of `PROJECT.json`; the properties below are chosen for them.

## 2. Modules

    SessionGuard --- PortalSession --- MCPortalSession       LoginSpec (abstract)
                 \                 \-- PortalSession_proofs      ^      ^
                  \- MobileSession --- MCMobileSession            |      |
                                  \-- MobileSession_proofs       |      |
                                     PortalSession and MobileSession implement it
    Requests --- Requests_proofs     (checked as it is)
    Poll     --- Poll_proofs         (checked as it is)
    Statistics --- MCStatistics
              \--- Statistics_proofs
    ConfigFlow --- MCConfigFlow
              \--- ConfigFlow_proofs
    Readings --- Integration --- MCIntegration
                            \--- Integration_proofs

**SessionGuard** is the lock and the generation counter as pieces of actions:
`Enqueue`, `Keep`, `Return`, `Raise`, `Withdraw` are the ways through
`ensure()`, `Leave` the end of `run()`. `lock` is the task that owns the lock
or was just handed it, `waiters` the parked tasks in order. `stage` says
whether a task is in a bare `ensure()` ("open"), in the first pass of `run()`
or in the retry, and `seen` is its local `generation`.

**PortalSession** puts them together with the five-step login. One action per
answer awaited: `LandingOk`, `TokenOk`, `LoginOk`, `ContractOk`, and
`StepFails`/`LoginUnusable` for a step that raises. A session is its serial
number at the portal, so `ael = 2` is "the token of the second session" and
`live` the sessions the portal honours. `Start` and `Refused` run the code from
the call (or the 401) up to the next await, including the uncontended lock.
`Lapse` and `Opens` are the portal: it ends sessions whenever it wants, and a
login may end the account's other sessions.

**MobileSession** is the same guard around a login of one request, with what
only the mobility client has: an import sends several requests inside one
`run()` and reads the token anew for each (`NextMonth`, `NotAuthenticated`), and
a poll may be cancelled at every await (`Cancel`), even inside the login.

**LoginSpec** is what a guard promises, without lock, queue and steps: one
login at a time, started only by a task that found no session or saw the
current one expire; each completed login opens one generation; every login
ends. Both sessions implement it through the mappings at the end of their
modules: `renewer` is the task inside a login, `held` the token between logins,
`basis` the generation a task may still report as expired.

**Requests** is one HTTP request from call to result for each kind of call. The
server answers anything at each hop (`Answer`, `Redirect`), or the answer is
lost or a 5xx (`Fails`). `Transport`, `LoginResult`, `StepResult`,
`ConnectResult`, `DataResult` and `LandingResult` are the classification, one
operator per place where the code turns one exception into another. `processed`
counts how often the server may have acted upon the body.

**Poll** is one hourly update: the coordinator's login and fetch, the TaskGroup
of four requests, the renewal after an expiry and the error the coordinator
sees. A child task that ends (`TaskEnds`) and the group's learning of it
(`Noticed`, in the order the tasks ended) are two steps, because asyncio runs
done callbacks in a later round of its loop; between them other children may
end with errors of their own. `MobileDaily` is what `_mobile_daily` swallows.
The logins of `PortalSession` and the fate of a single request in `Requests` are
here one outcome each; in particular `LoginFails` relies on `LoginNeverExpires`.

**Statistics** is the imports, the cache, the recorder and the repair issue. A
year has one reading; `recorder[s][y]` is the point of that reading with its
cumulative sum. `Collect` is an iteration of the loop over years, with the
cached years that follow it (they cost no await), and at the last year the
storing of the series and the start of the next. A request and its answer are
two moments: `answer` is what the portal served when it was asked, `Receive`
uses it later and makes the check of the cache with the clock of then. When a
`NewYear` falls in between and closes the year asked for, the import is in
`overtaken`; `frozen` remembers which cached years came from such an answer.

**ConfigFlow** is the forms of the config flow over the entries of this domain. A
flow is at its form, or waits for one of the two requests of
`_validate_credentials`; what it read before (`data`, `uid`) is used after them,
while other flows, removals and changes of passwords happen. `Claimed`,
`Close`, `Remove` and the replacement in `Create` are the flow manager of Home
Assistant as this code relies on it.

**Readings** is the arithmetic of a poll as operators: which values of the
dashboard win over the history, which daily entry is the newest, which index is
the precise one, what is skipped of the mobility API's readings.

**Integration** is the life of an entry over Readings: `Setup` to
`FirstRefreshOk` is `async_setup_entry` cut at its await, `PollOk` is a poll with
the listener that follows it, `ImportEnds` and `ImportFails` are an import of one
of the four origins, `UnloadPlatforms`, `CloseClient` and `RunUnloadCallbacks` are
an unload cut at its awaits. Poll and Statistics say what is inside a poll and an
import; here each is one outcome. What a poll is served depends on the contract
(`Services`), and the optional daily series may be missing from any poll. `Index`
is what the sensor shows, `recorded` how far the recorder's statistics go.

## 3. Runs

| Run | Bounds | Shows |
|---|---|---|
| `portal_session` | 3 callers (1 poll, 2 imports), 3 sessions | the safety of the portal session |
| `portal_session_live` | 3 callers, 2 sessions | every call ends; LoginSpec is implemented |
| `portal_session_context` | as above | violated: `ContextPlanted` |
| `mobile_session` | 3 callers (1 poll), 2 months, 3 sessions | the same with months and cancellation |
| `requests` | `MAX_RETRIES = 3`, `MAX_REDIRECTS = 5`, the values of `const.py` | one request of each kind |
| `poll` | none but two passes of `run()`, which `TypeOK` checks | one update with any answers in any order |
| `statistics` | timer and service, 2 series, years 1..3, readings 0..2, 2 troubles | cache, repair and convergence |
| `statistics_year_end` | one import, one series, 1 trouble | violated: `CacheIsFinal` |
| `statistics_new_year` | one import, one mobile-only series | violated: `SumsAscend` |
| `statistics_issue` | one import, one series, 4 troubles | violated: `FailureKeepsIssue` |
| `config_flow` | 2 flows, 2 accounts, 2 providers, 2 entries ever, 1 change of each password | what entries hold; one entry per contract |
| `integration` | 3 contracts, 2 clients, meter 2..3 litres, 2 litres per m3, 1 failed import, one import of each origin at a time | lifecycle, data and imports of an entry |

Why the bounds are enough. *Callers*: a task that logs in, one that waits behind
it, and one that holds an older generation are the three roles of the guard;
the poll and the imports differ only in when they read the token. *Sessions*:
three let a session expire, be renewed, and expire again while a task still
reports the first; the serial number bounds logins, and a login past the bound
fails instead (`StepFails`, `ConnectFails`), so nothing deadlocks on it.
Liveness needs one renewal, so two sessions. *Months*: two are enough for a
request that is neither the first nor alone. *Years*: the window in which the
portal revises is two years, the first two of the three, and the New Year that
follows closes the first: a request for it may be pending, its answer under way,
or it may be asked for, cached and read again only later. *Troubles*
bound revisions, failed requests, failed imports and restarts together; two
let one of them hit an import and another its repair.

*Flows and entries*: one flow is validated while another one ends; a second entry
is the one that could be replaced or duplicated; the two accounts share a
contract, so that an entry can move between accounts, and one owns a second
contract of the same number. In both ConfigFlow and Integration the system stops
when the bounds are used up, which is why those runs do not check deadlock.
*Clients*: two allow a failed setup and another one, a reload, or a service
beside the entry. *Litres*: the meter advances once; because the chart of months
lags one reading and a bill is in whole m3, the three indexes then take different
values, and each contract of MCIntegration falls back to a different one.

What each property says is in the comment above it. The ones to read first:

- `NoLiveSessionDropped` and `LoginsPerLapse`: the reason the generation exists.
- `ExpiryNeedsLapse`: an expiry that predates a call never costs the call; it
  fails only if the portal ends a session while the call runs.
- `EveryCallEnds`: no failure and no cancellation loses the lock.
- `CredentialsOnce`, `OutageIsNotRejection`: what the lockout comments promise of
  one call. How many calls log in is not bounded (see the hazard at `_auth.py:287`).
- `ExpiryWins`: a poll renews its session whatever else fails.
- `ReauthOnRejection`, `DailyFailsByShapeOnly`: no error of the mobility API asks
  for a password or fails a poll; only a payload of another shape does, with an
  exception that is none of the integration's (the hazard at `_mobile.py:78`).
- `OnlyNewYearFreezes`: the cache keeps what the portal no longer revises, unless
  New Year came between a request and its answer (`CacheIsFinal`).
- `CalmImportIsExact`, `SelfHeals`: the promise of `statistics.py:7-17`, for series
  the web portal has and as long as nothing is frozen in the cache; a frozen year
  stays wrong for the entry's imports until a restart.
- `IndexFallsWithDaily`: the index of the sensors falls only when a poll lacks the
  daily series of the poll before.
- `EntriesValidated`, `OneEntryPerContract`: whatever forms overlap, an entry holds
  data the portal accepted together.
- `IndexCovered`, `NewReadingRecorded`: an import that started no earlier than the
  reading covers every index the sensors show, and the statistics get there even
  if an import failed, because the timer does not depend on the marker.

Every property of a passing run has a mutant, a plausible bug beside the
definition it would replace ("Bug: ..."), under which TLC finds it violated.

### Disagreements found

- `_auth.py:224`: the token is set before the login is complete. When the
  request for the default contract fails, the next call takes the session as it
  is, and no later one plants the cookie until the portal answers 401 or 403
  (`ContextPlanted`).
- `api.py:213`: a daily series that only the mobility API serves loses a year
  from the sums at each New Year, while the points of that year stay
  (`SumsAscend`).
- `statistics.py:157`: an import none of whose requests succeeded counts as
  successful and clears the repair issue (`FailureKeepsIssue`).
- `_year_cache.py:37`: the clock is read after the answer, so an answer given before
  New Year and revised since is kept as final (`CacheIsFinal`).

Seen while modelling, without a run of their own:

- `config_flow.py:209`: a reconfiguration to another contract or provider, which
  `config_flow.py:190` offers, is always refused, with the message that another entry
  has it (`strings.json:45`): the guard of `RefuseIdentity` compares with the flow's
  own entry.
- `_mobile.py:78`: a `Result` whose `SyntheseConso` is null raises an exception that
  the fallback that "never breaks the poll" (`api.py:251`) does not catch: the outcome
  `"crashed"` of Poll.
- `__init__.py:100`: the listener also fires when the index falls back to an older
  source, not only "on a genuine advance" (`__init__.py:91-92`): in Integration it
  follows every change of `Index`.
- `_mobile.py:150`: a branch "guarded by SessionGuard" is the action
  `NotAuthenticated` of MobileSession and is reached, when one import renews the
  session while another is between two months.

### Fairness

`WF_vars(Step(c))` in the sessions: the event loop runs every ready task, and
every request ends because `aiohttp.ClientTimeout` bounds each attempt and the
attempts are bounded (`_http.py:68-72`); asyncio's lock is handed over in order.
There is no fairness on `Start`, `Lapse` or `Cancel`. In Requests the same
timeout, and the bounded wait between attempts; in Poll the event loop runs every
callback and every request ends. In Statistics the daily timer
starts an import for ever (`__init__.py:110`) and every request of an import is
answered; the service's imports progress but need not start. In Integration the daily timer of a loaded
entry fires for ever (`__init__.py:110`) and every import ends; weak fairness is
enough, because an import of the timer only waits for the one before it. Polls
and services need not happen. Revisions and
failures are finite by `troubles`, which is what "once the portal is stable"
means in `SelfHeals`.

### Assumptions about the outside

A session the portal honours is not answered with 401 or 403. A login may end
every other session of the account or none. The recorder upserts by series and
start and never deletes (`statistics.py:7-9`). `asyncio.Lock` is fair and a
cancelled waiter passes its turn on. The portal revises only this year and the
last (`_year_cache.py:3-8`). Home Assistant runs the callbacks of an entry after
`async_unload_entry`, replaces an entry when one of the same unique id is created,
does not count a reauthentication among the flows that claim an id, and polls
no more by itself after `ConfigEntryAuthFailed`. An import whose client is closed
finds nothing. The data of one poll, and what one import finds, are the portal's at
one moment.

## 4. Proofs

`PortalSession_proofs` proves, for every set of callers, every choice of polls
among them and every bound on sessions:

| Theorem | Property |
|---|---|
| `InvHolds` | the inductive invariant `Inv` |
| `TypeCorrect` | `TypeOK` |
| `OneLoginAtATime` | `OneLogin` |
| `TokensNeverBothSet` | `TokensExclusive` |
| `RetryUsesNewerLogin` | `RetryIsNewer` |
| `NoFreshSessionLost` | `NoLiveSessionDropped` |

They rest on `NobodyAssumption`, `PollsAssumption` and `MaxSessionsAssumption`,
which TLC evaluates too. None of the safety properties is inductive as it
stands, so `Inv` adds:

- `LockInv`: who is inside a login owns the lock; hence `OneLogin`.
- `TokenInv`: no AEL token is held before step 3 is answered; hence
  `TokensExclusive`.
- `GenerationInv`: nobody saw a generation still to come, and a retry that
  proceeded saw an earlier one (`RetryIsNewer`).
- `SerialInv`: tokens, cookies and live sessions are numbered up to `issued`, so
  a new session is none of them.
- `ReportInv`: as long as the present session is sound - completed and honoured -
  a request that could report the present generation travels with its token, and
  nobody queues with such a report. Only a report of the present generation, or a
  login that starts without a session, changes a token; hence
  `NoLiveSessionDropped`.

The proof has a lemma per group of actions, over `EnsureKeepsInv` and
`CallKeepsInv` for the code of `ensure()` that three actions share, and one step
per action in `NextKeepsInv`. `Inv` was checked by TLC before it was proved.

`Requests_proofs` proves, for any number of retries and redirects
(`RequestsAssumption`), `TypeOK` - in which the bound on `hop` is the claim that
the guard behind the redirect loop is unreachable -, `CredentialsOnce`,
`OutageIsNotRejection`, `LoginNeverExpires` and `NothingLeaks`. `CredentialsOnce`
speaks of one call, and `NothingLeaks` of host and scheme, which is what
`_validated_target` compares; ports are not modelled. The invariant adds
that nobody has a result while a request is out, that only a call with attempts
left waits for another one, and that credentials which may have been acted upon
are no longer in the request. The lemma `ResultType` is the classification of
answers by itself.

`Poll_proofs` proves `TypeOK`, `ReauthOnRejection`, `ExpiryWins` and
`DailyFailsByShapeOnly` with or without a mobility API. The heart of it is `KeptInv`: an
error a task ended with is either still to be noticed or was collected, so when
the group is over every error is among those `_first_error` chooses from; and
`OriginInv` with `KindInv`: whatever was collected is what some task ended with, and
each task can only end with the errors its tolerance lets through.

`MobileSession_proofs` proves `TypeOK` and `NoLiveSessionDropped` for any callers,
polls, months and sessions. The argument is the one above with fewer tokens, but
against two more actions: a call may be cancelled at any await (`CancelKeepsInv`:
a login cut short has no token to lose, because the token was dropped before it
began), and an action reads the token anew for each month (`NextMonthKeepsInv`),
so `ReportInv` speaks of the token of the last request, not of the one the action
began with.

`ConfigFlow_proofs` proves `TypeOK`, `EntriesValidated`, `OneEntryPerContract` and
`NoEntryReplaced` for any finite set of flows over any accounts and contracts. Its
invariant says that what a flow read before its two requests still holds after
them: the data being validated are about the contract whose unique id the entry
has, or will have and no entry has yet (`Sound`); no two setups hold the same
unique id, so none takes the id another one checked (`ClaimInv`); and a bound on
entries counts the setups still open (`CapInv`).

`Integration_proofs` proves `TypeOK`, `ClientsAccounted`, `NoImportOnceUnloaded`,
`DataIsFreshest`, `IndexCovered` and `IndexFallsWithDaily` for any contracts, any
number of clients and any meter. `LifeInv` says how far the entry's client and its timer have come in each
state: a timer or a listener belongs to the present client or to none. `HoldInv`
adds that the entry shares its client neither with the service nor with a failed
setup; without it closing one could close the other, and `TypeOK`, which says that
the clients of failed setups stay open, is not inductive. `DataIsFreshest` is a
fact about Readings: `InProgressSkipped` unfolds the filter over the mobility API's
readings, `DailyIndex`, `MonthIndex`, `LastReadingWhole` and `BillableBounds` say
what each answer contributes, and `IndexIsFreshest` puts them together for any
meter and any factor between litres and m3. `IndexCovered` needs `ShownInv`: what
the imports keep up with is the marker of the listener, which is the index shown
or, after a poll that shows none, an older one; and before Home Assistant has
started the import that will cover it is the one that waits. `IndexFallsWithDaily`
needs `SourceInv`, by which the answers of two polls are those of one contract at a
meter that rises, and the lemmas `IndexSource` and `IndexAscends`: the source of the
index depends on what was served alone, and each source ascends with the meter.

`Statistics_proofs` proves, for any importers, years and readings and any sequence
of distinct series:

| Theorem | Says | Under |
|---|---|---|
| `StatisticsTypeCorrect` | `TypeOK`: every stored sum is a number | - |
| `OnlyOvertakenAnswersFreeze` | `OnlyNewYearFreezes` | - |
| `CalmImportRepairs` | an undisturbed import leaves every series that is not mobile-only exact, unless its cache holds a frozen answer | - |
| `CalmImportHeals` | `CalmImportIsExact` | `MobileOnly = {}` |
| `ExactAscends` | where the recorder is exact, sums ascend over the years | - |

The conditions are needed: where an answer is frozen TLC breaks `CacheIsFinal` (the
run `statistics_year_end`), and with a mobile-only series it breaks `SumsAscend` (the
run `statistics_new_year`). `CacheInv` is not inductive without `AnswerInv`: an answer
under way about a closed year is what the portal serves, so that caching it later is
right, unless it was overtaken. `CollectedInv` is the loop invariant of
`_collect_series`: a calm import holds the portal's readings of every year before
the one it asks for, and every series before the present one is exact in the
recorder. The running sum is a recursive function over the years. That it exists,
that it satisfies its equation and that it ascends are inductions over the years;
the library's induction rules cannot be used here, so `LeastNatural`, derived from
the well-foundedness of the naturals, takes their place: a least year that fails
is shown not to fail.

### How the counting properties and the refinement are proved

`LoginsPerLapse` compares two histories, so it needs an invariant about the present
that ties them: `LapseInv` of PortalSession_proofs says that the generation never
exceeds the number of completed sessions, which are that of the context cookie and
the earlier ones that lapsed (`CountInv`), and that a held token the portal no longer
honours, or a context cookie of another session than the one held, is of a session
that lapsed (`EndedInv`). A completed login then adds a session to those counted and
loses none: it starts without a session, and the one before it lapsed.

`ExpiryNeedsLapse` speaks of a call during which the portal ended no session that
was held (the call is not in `jolted`; `Calm` in the proofs). `CalmInv`
says that such a call, once it has seen a generation older than the present one,
finds a sound session (`RenewedInv`), that the login it waits for opens one
(`OpenedInv`), and that its retry travels with the present token (`SentInv`); hence
the retry is not answered with an expiry. The mobility session has the same theorem
with months and cancellation.

`PortalKeepsLoginSpec` and `MobileKeepsLoginSpec` prove `Spec => Abstract!Safety`,
where `Safety` is `Init /\ [][Next]_vars` of LoginSpec: the initial states map to
initial states and every step, under the inductive invariant, to a step of the
abstract specification or to a stutter. The proofs have one lemma per group of
actions (`QuietStepMaps`, `EnsureMaps`, `CallMaps`, `LoginStepMaps`, `LoginEndMaps`;
for the mobility session also `EndsMaps`, since a call may be cancelled inside the
login or in the queue) over `InvMapped`, which computes the four mapped variables
from the state of the calls. The fairness half of LoginSpec stays with TLC
(`ImplementsLoginSpec`).

### What is only model-checked

Every invariant and every action property of a passing run is a theorem. All
liveness stays with TLC, being out of the prover's reach: `EveryCallEnds`,
`EveryRequestEnds`, `UpdateEnds`, `SelfHeals`, `NewReadingRecorded` and the fairness
half of `ImplementsLoginSpec`. Induction over data is done for the running sums
alone; the total of the year in Readings is opaque to the proofs, which no property
reads, and the filter over the mobility API's readings is unfolded for the three
readings the model serves, not for a list of any length.

## 5. Not modelled

Sensors, diagnostics, translations and constants are stateless tables and
formatting; the sensors' unique ids, which leave out the provider
(`sensor.py:64`), are a hazard without a property. The encoding of the context
cookie and of headers is abstracted to the session it is for. Dates are ordered
values: the text of dates and time zones is left out, and so are the copied and
rounded fields of `ConsumptionData`. In Statistics a year has one reading, so the
sort and the deduplication of dates inside a year, which await nothing, are not
there. A malformed contract number, a service call for an entry that is not
loaded and platforms that refuse to unload change nothing and have no action.

## 6. Plan

All components with state are modelled, and their safety is proved. What could
still be added: a bound on the logins of an import with a refused password, over
Requests and Statistics together, and lemmas about Readings for charts of any length.
