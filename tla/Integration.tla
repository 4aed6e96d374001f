------------------------------- MODULE Integration -------------------------------
(***************************************************************************)
(* The life of a config entry (__init__.py): it is set up with a client of *)
(* its own, polled, unloaded and set up again, while four kinds of imports *)
(* run on their own: the one of the setup, which waits for Home Assistant  *)
(* to start, those of the listener on new readings and of the daily timer, *)
(* and those of the service (services.py), on a client of their own.       *)
(*                                                                         *)
(* Poll says how a poll ends and Statistics what an import does; here both *)
(* are one answer.  What a poll yields is computed by Readings from what   *)
(* the portal would serve.  Home Assistant is modelled from how the entry  *)
(* uses it: after an unload it runs the callbacks that were registered for *)
(* it, and after an authentication error it polls no more by itself.       *)
(***************************************************************************)
EXTENDS Readings, FiniteSetsExt

CONSTANTS Contracts,   \* what a contract may be served, a subset of Services
          MaxClients,  \* bound: the clients built in a behaviour
          FirstLitres, \* bound: the index of the meter at first
          MaxLitres,   \* bound: and at last
          MaxFailures  \* bound: failed imports

\* How much a contract is served: the dashboard with all of the last reading,
\* its date only, or nothing; the monthly chart or nothing yet; the daily chart,
\* the mobility API's, or neither.
Services == [billing : {"full", "dated", "none"}, monthly : BOOLEAN,
             daily : {"web", "mobile", "none"}]

ASSUME IntegrationAssumption ==
    /\ Contracts \subseteq Services
    /\ MaxClients \in Nat /\ MaxLitres \in Nat /\ FirstLitres \in 0..MaxLitres
    /\ MaxFailures \in Nat

VARIABLES
    state,     \* of the entry, see States
    started,   \* has Home Assistant started
    built,     \* the clients built so far are 1..built
    client,    \* the client of the entry, 0 for none
    opened,    \* the clients whose HTTP session is open
    waiting,   \* clients whose import waits for the start of Home Assistant
    tracked,   \* clients with a daily timer and a listener on new readings
    polling,   \* is a poll under way
    scheduled, \* will Home Assistant poll by itself
    answers,   \* what the last good poll was served
    marker,    \* last_imported_index
    imports,   \* the import of each origin: its client and what it will find
    contract,  \* portal: what the contract is served
    meter,     \* portal: the index of the meter
    recorded,  \* the daily index the recorder's statistics go up to
    failures   \* failed imports that may still happen

\* History, read by properties only.
VARIABLES
    leaked,    \* clients of setups whose first refresh failed
    covered    \* the daily index when an import of the entry last started

entryVars == <<state, started, built, client, opened, leaked>>
callVars == <<waiting, tracked, polling, scheduled, answers, marker>>
importVars == <<imports, recorded, failures, covered>>
portalVars == <<contract, meter>>
vars == <<entryVars, callVars, importVars, portalVars>>

\* "retry" is an entry whose setup failed, "closing" one whose platforms are
\* unloaded and "closed" one whose client is closed too.
States == {"none", "setup", "retry", "loaded", "closing", "closed"}
Origins == {"setup", "listener", "timer", "service"}
Clients == 1..MaxClients
Litres == 0..MaxLitres
NoImport == [client |-> 0, finds |-> 0]
Bare == [billing |-> "none", monthly |-> FALSE, daily |-> "none"]
NoAnswers == [meter |-> 0, served |-> Bare]

TypeOK ==
    /\ state \in States
    /\ started \in BOOLEAN /\ polling \in BOOLEAN /\ scheduled \in BOOLEAN
    /\ built \in 0..MaxClients /\ client \in 0..built
    /\ opened \subseteq 1..built /\ leaked \subseteq opened
    /\ waiting \subseteq 1..built /\ tracked \subseteq 1..built
    /\ answers \in [meter : Litres, served : Services]
    /\ marker \in Litres \cup {None}
    /\ imports \in [Origins -> [client : 0..built, finds : Litres]]
    /\ contract \in Contracts /\ meter \in Litres
    /\ recorded \in Litres /\ covered \in Litres
    /\ failures \in 0..MaxFailures

Init ==
    /\ state = "none"
    /\ started \in BOOLEAN
    /\ built = 0 /\ client = 0
    /\ opened = {} /\ leaked = {}
    /\ waiting = {} /\ tracked = {}
    /\ polling = FALSE /\ scheduled = FALSE
    /\ answers = NoAnswers
    /\ marker = None
    /\ imports = [o \in Origins |-> NoImport]
    /\ contract \in Contracts /\ meter = FirstLitres
    /\ recorded = 0 /\ covered = 0
    /\ failures = MaxFailures

-------------------------------------------------------------------------------
\* The four answers of a poll, from what the portal has.  The chart of months
\* is a reading behind the daily one, and bills are in whole m3.

Before(n) == IF n = 0 THEN 0 ELSE n - 1
Billable(a) == Before(a.meter) \div LitresPerM3

Reading(index) == [date |-> index, index |-> index, volume |-> 1]
Entry(date, index) == [date |-> date, index |-> index, volume |-> 1]

Billed(a) ==
    CASE a.served.billing = "full" -> Reading(Billable(a))
      [] a.served.billing = "dated" -> [Empty EXCEPT !.date = Billable(a)]
      [] OTHER -> Empty

\* The history is served newest first.
History(a) ==
    IF a.served.billing = "none" THEN <<>>
    ELSE [n \in 1..(Billable(a) + 1) |-> Reading(Billable(a) + 1 - n)]

Monthly(a) ==
    IF a.served.monthly THEN <<Entry(1, 0), Entry(2, Before(a.meter))>> ELSE <<>>

\* The daily chart is served newest first; the mobility API ends with the
\* reading in progress.
Daily(a) ==
    CASE a.served.daily = "web" -> <<Entry(2, a.meter), Entry(1, 0)>>
      [] a.served.daily = "mobile" -> ToWebEntries(<<Entry(1, 0), Entry(2, a.meter), Entry(3, None)>>)
      [] OTHER -> <<>>

\* The daily series is optional: a poll may go without it.
Served == {contract, [contract EXCEPT !.daily = "none"]}

DataOf(a) == FromApiResponses(Billed(a), Monthly(a), History(a), Daily(a))
IndexOf(a) == DataOf(a).precise
Index == IndexOf(answers)

-------------------------------------------------------------------------------
\* Imports, one of each origin at a time (bound).

Begins(o, c) ==
    /\ imports[o] = NoImport
    /\ imports' = [imports EXCEPT ![o] = [client |-> c, finds |-> meter]]
    /\ covered' = IF o # "service" /\ c = client THEN meter ELSE covered
    /\ UNCHANGED <<recorded, failures>>

BeginsNone == UNCHANGED importVars

\* Bug: the client of the service is closed only after a good import.
ClosesAfterSuccess(o, stored) ==
    opened' = IF o = "service" /\ stored THEN opened \ {imports[o].client} ELSE opened

\* services.py closes the client of its import in any case.
Closes(o, stored) ==
    opened' = IF o = "service" THEN opened \ {imports[o].client} ELSE opened

UnchangedEntry == UNCHANGED <<state, started, built, client, leaked>>

\* An import whose client is closed finds nothing: each of its requests raises.
ImportEnds(o) ==
    /\ imports[o] # NoImport
    /\ imports' = [imports EXCEPT ![o] = NoImport]
    /\ recorded' = IF imports[o].client \in opened THEN Max({recorded, imports[o].finds}) ELSE recorded
    /\ Closes(o, TRUE)
    /\ UnchangedEntry
    /\ UNCHANGED <<callVars, failures, covered, portalVars>>

ImportFails(o) ==
    /\ imports[o] # NoImport
    /\ failures > 0
    /\ failures' = failures - 1
    /\ imports' = [imports EXCEPT ![o] = NoImport]
    /\ Closes(o, FALSE)
    /\ UnchangedEntry
    /\ UNCHANGED <<callVars, recorded, covered, portalVars>>

-------------------------------------------------------------------------------
\* async_setup_entry.

Builds ==
    /\ built < MaxClients
    /\ built' = built + 1
    /\ opened' = opened \cup {built'}

Setup ==
    /\ state \in {"none", "retry"}
    /\ Builds
    /\ state' = "setup"
    /\ client' = built'
    /\ UNCHANGED <<started, leaked, callVars, importVars, portalVars>>

\* Bug: nothing is imported by a setup before Home Assistant has started.
InitialImportForgotten ==
    IF started THEN Begins("setup", client) /\ UNCHANGED waiting
    ELSE BeginsNone /\ UNCHANGED waiting

InitialImport ==
    IF started
    THEN Begins("setup", client) /\ UNCHANGED waiting
    ELSE BeginsNone /\ waiting' = waiting \cup {client}

\* Bug: the daily timer is not set.
TimerForgotten == UNCHANGED tracked

Tracks == tracked' = tracked \cup {client}

FirstRefreshOk(served) ==
    /\ state = "setup"
    /\ state' = "loaded"
    /\ answers' = [meter |-> meter, served |-> served]
    /\ InitialImport
    /\ marker' = IndexOf(answers')
    /\ Tracks
    /\ scheduled' = TRUE
    /\ UNCHANGED <<started, built, client, opened, leaked, polling, portalVars>>

\* The client of a setup that fails is not closed.
FirstRefreshFails ==
    /\ state = "setup"
    /\ state' = "retry"
    /\ client' = 0
    /\ leaked' = leaked \cup {client}
    /\ UNCHANGED <<started, built, opened, callVars, importVars, portalVars>>

HomeAssistantStarts ==
    /\ ~started
    /\ started' = TRUE
    /\ UNCHANGED <<state, built, client, opened, leaked, callVars, importVars, portalVars>>

\* The one-shot listener of the start event, which nothing unsubscribes.
StartedFires(c) ==
    /\ started /\ c \in waiting
    /\ waiting' = waiting \ {c}
    /\ Begins("setup", c)
    /\ UNCHANGED <<entryVars, tracked, polling, scheduled, answers, marker, portalVars>>

TimerFires(c) ==
    /\ c \in tracked
    /\ Begins("timer", c)
    /\ UNCHANGED <<entryVars, callVars, portalVars>>

-------------------------------------------------------------------------------
\* Polls.

PollStarts ==
    /\ state = "loaded" /\ scheduled /\ ~polling
    /\ polling' = TRUE
    /\ UNCHANGED <<entryVars, waiting, tracked, scheduled, answers, marker, importVars, portalVars>>

\* Bug: the billed index is compared, which moves once a quarter.
NewIndexBilled(a) ==
    LET index == DataOf(a).last.index IN index # None /\ index # marker

\* _reimport_on_new_data: an index other than the last one.
NewIndex(a) == IndexOf(a) # None /\ IndexOf(a) # marker

PollOk(served) ==
    /\ polling /\ client \in opened
    /\ polling' = FALSE
    /\ scheduled' = TRUE
    /\ answers' = [meter |-> meter, served |-> served]
    /\ IF NewIndex(answers')
       THEN marker' = IndexOf(answers') /\ Begins("listener", client)
       ELSE UNCHANGED marker /\ BeginsNone
    /\ UNCHANGED <<entryVars, waiting, tracked, portalVars>>

\* UpdateFailed, or ConfigEntryAuthFailed, after which only a refresh by the
\* service polls again.
PollFails ==
    /\ polling
    /\ polling' = FALSE
    /\ scheduled' \in BOOLEAN
    /\ UNCHANGED <<entryVars, waiting, tracked, answers, marker, importVars, portalVars>>

-------------------------------------------------------------------------------
\* Services, for entries that are loaded (_resolve_entry).

Refresh ==
    /\ state = "loaded" /\ ~polling
    /\ polling' = TRUE
    /\ UNCHANGED <<entryVars, waiting, tracked, scheduled, answers, marker, importVars, portalVars>>

Reimport ==
    /\ state = "loaded"
    /\ Builds
    /\ Begins("service", built')
    /\ UNCHANGED <<state, started, client, leaked, callVars, portalVars>>

-------------------------------------------------------------------------------
\* async_unload_entry; Home Assistant runs the callbacks of the entry after it.

UnloadPlatforms ==
    /\ state = "loaded"
    /\ state' = "closing"
    /\ UNCHANGED <<started, built, client, opened, leaked, callVars, importVars, portalVars>>

CloseClient ==
    /\ state = "closing"
    /\ state' = "closed"
    /\ opened' = opened \ {client}
    /\ UNCHANGED <<started, built, client, leaked, callVars, importVars, portalVars>>

\* Bug: the timer and the listener are not registered with the entry.
UntrackedNever == UNCHANGED tracked

Untracked == tracked' = tracked \ {client}

RunUnloadCallbacks ==
    /\ state = "closed"
    /\ state' = "none"
    /\ client' = 0
    /\ Untracked
    /\ polling' = FALSE /\ scheduled' = FALSE
    /\ answers' = NoAnswers /\ marker' = None
    /\ covered' = 0
    /\ UNCHANGED <<started, built, opened, leaked, waiting, imports, recorded, failures, portalVars>>

-------------------------------------------------------------------------------
\* The portal: consumption shows a day later.
MeterRead ==
    /\ meter < MaxLitres
    /\ meter' = meter + 1
    /\ UNCHANGED <<entryVars, callVars, importVars, contract>>

Next ==
    \/ Setup \/ FirstRefreshFails \/ HomeAssistantStarts
    \/ PollStarts \/ PollFails \/ Refresh \/ Reimport
    \/ UnloadPlatforms \/ CloseClient \/ RunUnloadCallbacks
    \/ MeterRead
    \/ \E served \in Served : FirstRefreshOk(served) \/ PollOk(served)
    \/ \E c \in Clients : StartedFires(c) \/ TimerFires(c)
    \/ \E o \in Origins : ImportEnds(o) \/ ImportFails(o)

\* The daily timer fires for ever and every import ends.
Fairness ==
    /\ \A c \in Clients : WF_vars(TimerFires(c))
    /\ \A o \in Origins : WF_vars(ImportEnds(o))

Spec == Init /\ [][Next]_vars /\ Fairness

-------------------------------------------------------------------------------
\* Properties.

\* The data of a poll hold the freshest index any of its answers offers, and
\* the last reading is whole: what the dashboard leaves out comes from the
\* history (models.py:71-106).
DataIsFreshest ==
    LET offered ==
          {e.index : e \in Range(Daily(answers)) \cup Range(Monthly(answers))}
              \cup (IF History(answers) = <<>> THEN {} ELSE {Billable(answers) * LitresPerM3})
    IN /\ Index = IF offered = {} THEN None ELSE Max(offered)
       /\ History(answers) # <<>> => DataOf(answers).last = Reading(Billable(answers))

\* From one poll to the next the meter index, a TOTAL_INCREASING sensor, falls
\* only when the daily series that it was read from is missing: otherwise the
\* source of the index and its order among the entries are the same for every
\* poll (models.py:85-106, api.py:236-248).
IndexFallsWithDaily ==
    [][answers # answers' /\ Index # None /\ Index' # None /\ Index' < Index =>
          Daily(answers) # <<>> /\ Daily(answers') = <<>>]_vars

\* Whatever index the sensors show, an import that started no earlier covers
\* it: that of the setup, even one made before Home Assistant started, or that
\* of the listener (__init__.py:81-102).
IndexCovered ==
    state = "loaded" /\ started /\ client \notin waiting /\ Index # None => Index <= covered

\* No timer and no listener of an entry starts an import once it is unloaded;
\* the import that waits for the start of Home Assistant may (__init__.py:104-110).
NoImportOnceUnloaded ==
    [][\A o \in {"timer", "listener"} :
          imports[o] = NoImport /\ imports'[o] # NoImport => imports'[o].client = client]_vars

\* Every open client is the entry's, that of an import of the service that still
\* runs, or one whose setup failed (__init__.py:119, services.py:83-87).
ClientsAccounted ==
    \A c \in opened : c = client \/ c = imports["service"].client \/ c \in leaked

\* The statistics catch up with every index the sensors of a loaded entry show,
\* though failed imports are not repeated by the listener (__init__.py:99-110).
NewReadingRecorded ==
    \A v \in FirstLitres..MaxLitres :
        state = "loaded" /\ Index = v ~> state # "loaded" \/ recorded >= v
===============================================================================
