------------------------------- MODULE Statistics -------------------------------
(***************************************************************************)
(* The historical statistics: imports (statistics.py) that fetch the years *)
(* of a series one after another through the client and its cache of       *)
(* closed years (_year_cache.py), rebuild the cumulative sums and upsert   *)
(* them into the recorder.  Imports run concurrently - the daily timer,    *)
(* the listener on new readings and the service do not know of each other  *)
(* - while the portal revises the readings of this year and the last, and  *)
(* the year may end.                                                       *)
(*                                                                         *)
(* A year has one reading, the consumption it stands for, 0 for none.  The *)
(* sources and the recorder are modelled from how the importer uses them:  *)
(* the recorder upserts by (series, start) and never deletes.              *)
(***************************************************************************)
EXTENDS Naturals, Sequences, FiniteSetsExt

CONSTANTS Importers,    \* tasks that import
          Services,     \* the ones of the service: each has a client of its own
          Series,       \* the series imported, in order
          MobileOnly,   \* the series only the mobility API has: the recent years
          FirstYear,    \* _START_YEAR
          LastYear,     \* bound: the clock stops in this year
          MaxReading,   \* bound: the largest reading
          MaxTroubles   \* bound: revisions, failures and restarts together

ASSUME StatisticsAssumption ==
    /\ Services \subseteq Importers
    /\ Series \in Seq({Series[n] : n \in DOMAIN Series}) /\ Series # <<>>
    /\ MobileOnly \subseteq {Series[n] : n \in DOMAIN Series}
    /\ FirstYear \in Nat /\ LastYear \in Nat /\ FirstYear < LastYear
    /\ MaxReading \in Nat \ {0} /\ MaxTroubles \in Nat

VARIABLES
    now,       \* the current year in the portal's time zone
    portal,    \* the readings the portal would serve
    cache,     \* ClosedYearCache of the client of the config entry
    recorder,  \* the points of each series: state and sum, sum 0 for no point
    issue,     \* is the repair issue raised
    pc,        \* "idle", "recorder" (waiting for it) or "fetch"
    at,        \* the series an import collects, an index of Series
    year,      \* the year whose answer it waits for
    horizon,   \* `current_year` of its loop
    got,       \* `by_date`, the readings collected
    answer,    \* the reading that travels back
    overtaken, \* imports whose answer was under way when its year closed
    troubles   \* revisions, failures and restarts that may still happen

\* History, read by properties only.
VARIABLES
    calm,   \* imports that started alone and that nothing disturbed since
    frozen  \* <<series, year>> cached from an overtaken answer

importVars == <<pc, at, year, horizon, got, answer, overtaken>>
vars == <<now, portal, cache, recorder, issue, importVars, troubles, calm, frozen>>

Years == FirstYear..LastYear
Readings == 0..MaxReading
Names == {Series[n] : n \in DOMAIN Series}
NoYears == [y \in Years |-> 0]
NoPoint == [state |-> 0, sum |-> 0]

TypeOK ==
    /\ now \in Years
    /\ portal \in [Years -> Readings]
    /\ cache \in [Names -> [Years -> Readings]]
    /\ recorder \in [Names -> [Years -> [state : Readings, sum : Nat]]]
    /\ issue \in BOOLEAN
    /\ pc \in [Importers -> {"idle", "recorder", "fetch"}]
    /\ at \in [Importers -> DOMAIN Series]
    /\ year \in [Importers -> Years]
    /\ horizon \in [Importers -> Years]
    /\ got \in [Importers -> [Years -> Readings]]
    /\ answer \in [Importers -> Readings]
    /\ troubles \in 0..MaxTroubles
    /\ overtaken \subseteq Importers /\ calm \subseteq Importers
    /\ frozen \subseteq Names \X Years

Init ==
    /\ now = FirstYear + 1
    /\ portal = [y \in Years |-> IF y <= FirstYear + 1 THEN 1 ELSE 0]
    /\ cache = [s \in Names |-> NoYears]
    /\ recorder = [s \in Names |-> [y \in Years |-> NoPoint]]
    /\ issue = FALSE
    /\ pc = [i \in Importers |-> "idle"]
    /\ at = [i \in Importers |-> 1]
    /\ year = [i \in Importers |-> FirstYear]
    /\ horizon = [i \in Importers |-> FirstYear]
    /\ got = [i \in Importers |-> NoYears]
    /\ answer = [i \in Importers |-> 0]
    /\ overtaken = {}
    /\ troubles = MaxTroubles
    /\ calm = {} /\ frozen = {}

-------------------------------------------------------------------------------
\* running_sum once the points up to that of year y are built.
SumUpTo(readings, y) ==
    LET sum[z \in Years] == readings[z] + (IF z = FirstYear THEN 0 ELSE sum[z - 1])
    IN  sum[y]

\* Bugs: the sum starts again from zero every year; state and sum are swapped.
StatYearly(readings, y) == [state |-> readings[y], sum |-> readings[y]]
StatSwapped(readings, y) == [state |-> SumUpTo(readings, y), sum |-> readings[y]]

\* _entry_to_stat: a reading and the running sum up to it.
Stat(readings, y) == [state |-> readings[y], sum |-> SumUpTo(readings, y)]

\* async_add_external_statistics, external: the points that are given replace
\* the ones of the same start, the others stay.
Upsert(points, readings) ==
    [y \in Years |-> IF readings[y] = 0 THEN points[y] ELSE Stat(readings, y)]

Cached(i, s, y) == i \notin Services /\ cache[s][y] # 0

\* The loop goes on at year `from`: cached years are taken at once, the next
\* one that is not cached is requested.  The current year is never cached.
FetchFrom(i, s, from, until, collected) ==
    LET next == Min({y \in from..until : y = until \/ ~Cached(i, s, y)}) IN
    /\ pc' = [pc EXCEPT ![i] = "fetch"]
    /\ year' = [year EXCEPT ![i] = next]
    /\ got' = [got EXCEPT ![i] =
                  [y \in Years |-> IF y \in from..(next - 1) THEN cache[s][y] ELSE collected[y]]]
    /\ answer' = [answer EXCEPT ![i] = portal[next]]
    /\ overtaken' = overtaken \ {i}

Collects(i, n) ==
    /\ at' = [at EXCEPT ![i] = n]
    /\ horizon' = [horizon EXCEPT ![i] = now]
    /\ FetchFrom(i, Series[n], FirstYear, now, NoYears)

Rests(i) ==
    /\ pc' = [pc EXCEPT ![i] = "idle"]
    /\ at' = [at EXCEPT ![i] = 1]
    /\ year' = [year EXCEPT ![i] = FirstYear]
    /\ horizon' = [horizon EXCEPT ![i] = FirstYear]
    /\ got' = [got EXCEPT ![i] = NoYears]
    /\ answer' = [answer EXCEPT ![i] = 0]
    /\ overtaken' = overtaken \ {i}

\* A failure, a revision or a restart: it counts against the bound, and no
\* import that runs is calm any more.
Trouble ==
    /\ troubles > 0
    /\ troubles' = troubles - 1
    /\ calm' = {}

-------------------------------------------------------------------------------
\* A timer, the listener, the service or the start of Home Assistant.
Start(i) ==
    /\ pc[i] = "idle"
    /\ pc' = [pc EXCEPT ![i] = "recorder"]
    /\ calm' = IF \A j \in Importers : pc[j] = "idle" THEN {i} ELSE {}
    /\ UNCHANGED <<now, portal, cache, recorder, issue, troubles, frozen>>
    /\ UNCHANGED <<at, year, horizon, got, answer, overtaken>>

RecorderReady(i) ==
    /\ pc[i] = "recorder"
    /\ Collects(i, 1)
    /\ UNCHANGED <<now, portal, cache, recorder, issue, troubles, calm, frozen>>

Stored(i, readings) ==
    [recorder EXCEPT ![Series[at[i]]] = Upsert(@, readings)]

\* Bug: a success leaves the repair issue of an earlier failure.
SucceedsQuietly(i) == Rests(i) /\ UNCHANGED issue

\* The import of the last series succeeds and clears the repair issue.
Succeeds(i) == Rests(i) /\ issue' = FALSE

\* Year `year[i]` yields `reading`, 0 if it was empty or raised: the loop goes
\* on, or the series is stored and the next one is collected.
Collect(i, reading) ==
    LET collected == [got[i] EXCEPT ![year[i]] = reading] IN
    IF year[i] < horizon[i]
    THEN /\ FetchFrom(i, Series[at[i]], year[i] + 1, horizon[i], collected)
         /\ UNCHANGED <<at, horizon, recorder, issue>>
    ELSE /\ recorder' = Stored(i, collected)
         /\ IF at[i] < Len(Series)
            THEN Collects(i, at[i] + 1) /\ UNCHANGED issue
            ELSE Succeeds(i)

\* _daily_range: only the years the mobility API keeps are asked of it, which
\* is tested while the year is fetched: before or after a New Year meanwhile.
Served(i) ==
    CASE Series[at[i]] \notin MobileOnly \/ year[i] + 1 >= now -> {answer[i]}
      [] OTHER -> IF i \in overtaken THEN {0, answer[i]} ELSE {0}

\* Bug: the previous year is taken for closed.
ClosedEarly(y) == y < now

\* The check of ClosedYearCache, made once the answer is there.
Closed(y) == y + 1 < now

Remember(i, reading) ==
    IF i \notin Services /\ reading # 0 /\ Closed(year[i])
    THEN /\ cache' = [cache EXCEPT ![Series[at[i]]][year[i]] = reading]
         /\ frozen' = IF i \in overtaken THEN frozen \cup {<<Series[at[i]], year[i]>>} ELSE frozen
    ELSE UNCHANGED <<cache, frozen>>

Receive(i) ==
    /\ pc[i] = "fetch"
    /\ \E reading \in Served(i) : Remember(i, reading) /\ Collect(i, reading)
    /\ UNCHANGED <<now, portal, troubles, calm>>

\* The request of a year fails: it is logged, or swallowed by a tolerant
\* fetcher, and the year is missing from the series.
FetchFails(i) ==
    /\ pc[i] = "fetch"
    /\ Trouble
    /\ Collect(i, 0)
    /\ UNCHANGED <<now, portal, cache, frozen>>

\* The recorder is not there, or a reading that cannot be converted raises when
\* its series is built: the import ends before it stores the series, and the
\* issue is raised.
Fails(i) ==
    /\ \/ pc[i] = "recorder" /\ UNCHANGED <<cache, frozen>>
       \/ /\ pc[i] = "fetch" /\ year[i] = horizon[i]
          /\ \E reading \in Served(i) : Remember(i, reading)
    /\ Trouble
    /\ issue' = TRUE
    /\ Rests(i)
    /\ UNCHANGED <<now, portal, recorder>>

-------------------------------------------------------------------------------
\* The portal revises a reading of this year or of the last one.
Revise(y) ==
    /\ y <= now /\ now <= y + 1
    /\ Trouble
    /\ \E reading \in Readings \ {0, portal[y]} : portal' = [portal EXCEPT ![y] = reading]
    /\ UNCHANGED <<now, cache, recorder, issue, importVars, frozen>>

\* The last year closes, also under a request that asks for it.
NewYear ==
    /\ now < LastYear
    /\ now' = now + 1
    /\ portal' = [portal EXCEPT ![now + 1] = 1]
    /\ overtaken' = overtaken \cup {i \in Importers : pc[i] = "fetch" /\ year[i] + 1 = now}
    /\ calm' = {}
    /\ UNCHANGED <<cache, recorder, issue, pc, at, year, horizon, got, answer, troubles, frozen>>

\* Home Assistant restarts: tasks, caches and repair issues are gone.
Restart ==
    /\ Trouble
    /\ cache' = [s \in Names |-> NoYears]
    /\ issue' = FALSE
    /\ pc' = [i \in Importers |-> "idle"]
    /\ at' = [i \in Importers |-> 1]
    /\ year' = [i \in Importers |-> FirstYear]
    /\ horizon' = [i \in Importers |-> FirstYear]
    /\ got' = [i \in Importers |-> NoYears]
    /\ answer' = [i \in Importers |-> 0]
    /\ overtaken' = {} /\ frozen' = {}
    /\ UNCHANGED <<now, portal, recorder>>

Next ==
    \/ \E i \in Importers : Start(i) \/ RecorderReady(i) \/ Receive(i) \/ FetchFails(i) \/ Fails(i)
    \/ \E y \in Years : Revise(y)
    \/ NewYear
    \/ Restart

\* The daily timer starts an import for ever, and every request is answered.
Fairness ==
    \A i \in Importers \ Services :
        WF_vars(Start(i)) /\ WF_vars(RecorderReady(i) \/ Receive(i))

Spec == Init /\ [][Next]_vars /\ Fairness /\ \A i \in Services : WF_vars(RecorderReady(i) \/ Receive(i))

-------------------------------------------------------------------------------
\* Properties.

\* The recorder holds every reading of the portal with its cumulative sum.
Exact ==
    \A s \in Names, y \in FirstYear..now :
        recorder[s][y] = [state |-> portal[y], sum |-> SumUpTo(portal, y)]

\* "Keep the entries of years the portal no longer revises"
\* (_year_cache.py:21): what is cached is what the portal serves for ever.  Not
\* so, because the clock is read after the answer arrived (_year_cache.py:36-37):
\* an answer requested before New Year may be cached after it, whatever
\* revision the portal made in between.
CacheIsFinal ==
    \A s \in Names, y \in Years : cache[s][y] # 0 => cache[s][y] = portal[y]

\* That is the only way a reading the portal no longer serves gets into the
\* cache: every other answer is cached only if it can be revised no more,
\* whichever import asked for it and however many New Years came meanwhile
\* (_year_cache.py:27-38).
OnlyNewYearFreezes ==
    \A s \in Names, y \in Years :
        cache[s][y] # 0 /\ <<s, y>> \notin frozen => cache[s][y] = portal[y]

\* One import that runs alone and undisturbed repairs everything: readings that
\* were revised, years an earlier import missed, sums a concurrent import left
\* behind, the repair issue ("corrected rather than frozen", statistics.py:56-58).
\* This holds without series that only the mobility API has (SumsAscend), and,
\* but for the service, without an answer the cache froze at New Year
\* (CacheIsFinal).
CalmImportIsExact ==
    [][\A i \in calm \cap calm' :
          pc[i] # "idle" /\ pc'[i] = "idle" /\ (i \in Services \/ frozen = {}) =>
              Exact' /\ ~issue']_vars

\* Once the portal is stable and nothing fails any more, the recorder converges
\* and the repair issue goes (statistics.py:7-17, "self-healing"), under the
\* same two conditions: an answer frozen at New Year stays until the restart.
SelfHeals == <>[](frozen = {}) => <>[](Exact /\ ~issue)

\* The cumulative sum never decreases from a point to a later one, "an
\* internally consistent set whatever the portal has revised"
\* (statistics.py:134-138).
SumsAscend ==
    \A s \in Names, y, z \in Years :
        y < z /\ recorder[s][y] # NoPoint /\ recorder[s][z] # NoPoint =>
            recorder[s][y].sum <= recorder[s][z].sum

\* The docstring says that failures surface as a repair issue which only a
\* successful run clears (statistics.py:60-62); here an import none of whose
\* requests succeeded clears it: a year whose request fails
\* costs its points and is only logged.
FailureKeepsIssue ==
    [][\A i \in Importers :
          FetchFails(i) /\ pc'[i] = "idle" /\ got[i] = NoYears /\ issue => issue']_vars
===============================================================================
