--------------------------- MODULE Integration_proofs ---------------------------
(***************************************************************************)
(* Safety of Integration, for any contracts, clients and meters:           *)
(*   - who uses which client: LifeInv says how far the entry's own client  *)
(*     and its timer have come in each state of the entry, and HoldInv     *)
(*     that neither the service nor a failed setup shares that client;     *)
(*   - what a poll shows: the lemmas about Readings lead to                *)
(*     IndexIsFreshest, for any answers of the portal;                     *)
(*   - that an import covers what is shown (ShownInv): the marker of the   *)
(*     listener, not the last poll, is what the imports keep up with;      *)
(*   - that what is shown falls only with the daily series: the answers of *)
(*     a poll are those of the contract at a meter that only rises         *)
(*     (SourceInv).                                                        *)
(***************************************************************************)
EXTENDS Integration, SequenceTheorems, TLAPS

ClientInv ==
    /\ built \in Nat
    /\ client \in 0..built
    /\ opened \subseteq 1..built
    /\ waiting \subseteq 1..built
    /\ imports \in [Origins -> [client : 0..built, finds : Int]]

LifeInv ==
    /\ state \in {"none", "retry"} => client = 0
    /\ state = "setup" => client # 0
    /\ state = "closed" => client \notin opened
    /\ state \in {"none", "setup", "retry"} => tracked = {}
    /\ tracked \subseteq {client}

Inv == ClientInv /\ LifeInv /\ ClientsAccounted /\ meter \in Int

-------------------------------------------------------------------------------
\* An import that begins takes a free place and changes no other one.
LEMMA BeginsType ==
    ASSUME NEW n \in Nat, NEW o \in Origins, NEW c \in 0..n, meter \in Int,
           imports \in [Origins -> [client : 0..n, finds : Int]], Begins(o, c)
    PROVE  /\ imports' \in [Origins -> [client : 0..n, finds : Int]]
           /\ imports[o] = NoImport /\ imports'[o].client = c
           /\ \A p \in Origins \ {o} : imports'[p] = imports[p]
BY DEF Begins

\* An import that is over: the service closes its client, and nobody else does.
LEMMA OverKeepsInv ==
    ASSUME Inv, NEW o \in Origins, NEW stored \in BOOLEAN,
           imports' = [imports EXCEPT ![o] = NoImport], Closes(o, stored), UnchangedEntry,
           UNCHANGED <<callVars, meter>>
    PROVE  Inv'
<1>1. opened' \subseteq opened /\ (o = "service" => imports[o].client \notin opened')
  BY DEF Closes
<1>2. ClientInv' /\ LifeInv'
  BY <1>1 DEF Inv, ClientInv, LifeInv, UnchangedEntry, callVars, NoImport
<1>3. ClientsAccounted'
  BY <1>1 DEF Inv, ClientInv, ClientsAccounted, UnchangedEntry, NoImport, Origins
<1> QED
  BY <1>2, <1>3 DEF Inv

\* An action that leaves the clients alone but may start an import of the entry.
LEMMA CalmKeepsInv ==
    ASSUME Inv, UNCHANGED <<built, client, opened, leaked>>, meter' \in Int, waiting' \subseteq 1..built,
           imports' \in [Origins -> [client : 0..built, finds : Int]],
           imports'["service"] = imports["service"],
           LifeInv'
    PROVE  Inv'
BY DEF Inv, ClientInv, ClientsAccounted

\* The actions that may start an import of the entry's client.
LEMMA EntryImportsKeepInv ==
    ASSUME Inv, NEW o \in {"setup", "timer", "listener"}, NEW c \in 0..built,
           Begins(o, c) \/ BeginsNone,
           UNCHANGED <<built, client, opened, leaked, meter>>,
           waiting' \subseteq 1..built, LifeInv'
    PROVE  Inv'
<1>1. CASE Begins(o, c)
  BY <1>1, BeginsType, CalmKeepsInv DEF Inv, ClientInv, Origins
<1>2. CASE BeginsNone
  BY <1>2, CalmKeepsInv DEF Inv, ClientInv, BeginsNone, importVars
<1> QED
  BY <1>1, <1>2

LEMMA SetupKeepsInv ==
    ASSUME Inv, Setup \/ FirstRefreshFails \/ \E served \in Served : FirstRefreshOk(served)
    PROVE  Inv'
<1>1. CASE Setup
  <2>1. built' = built + 1 /\ client' = built' /\ opened' = opened \cup {built'} /\ state' = "setup"
        /\ UNCHANGED <<leaked, waiting, tracked, imports, meter>> /\ client = 0 /\ tracked = {}
    BY <1>1 DEF Setup, Builds, callVars, importVars, portalVars, Inv, LifeInv
  <2> QED
    BY <2>1 DEF Inv, ClientInv, LifeInv, ClientsAccounted
<1>2. CASE FirstRefreshFails
  <2>1. state' = "retry" /\ client' = 0 /\ leaked' = leaked \cup {client} /\ tracked = {}
        /\ UNCHANGED <<built, opened, waiting, tracked, imports, meter>>
    BY <1>2 DEF FirstRefreshFails, callVars, importVars, portalVars, Inv, LifeInv
  <2> QED
    BY <2>1 DEF Inv, ClientInv, LifeInv, ClientsAccounted
<1>3. ASSUME NEW served \in Served, FirstRefreshOk(served) PROVE Inv'
  <2>1. /\ state = "setup" /\ state' = "loaded" /\ InitialImport
        /\ tracked' = tracked \cup {client}
        /\ UNCHANGED <<built, client, opened, leaked, meter>>
    BY <1>3 DEF FirstRefreshOk, Tracks, portalVars
  <2>2. LifeInv' /\ client \in 1..built
    BY <2>1 DEF Inv, ClientInv, LifeInv
  <2>3. (Begins("setup", client) \/ BeginsNone) /\ waiting' \subseteq waiting \cup {client}
    BY <2>1 DEF InitialImport
  <2> QED
    BY <2>1, <2>2, <2>3, EntryImportsKeepInv DEF Inv, ClientInv
<1> QED
  BY <1>1, <1>2, <1>3

LEMMA CallsKeepInv ==
    ASSUME Inv,
           \/ \E c \in Clients : StartedFires(c) \/ TimerFires(c)
           \/ \E served \in Served : PollOk(served)
    PROVE  Inv'
<1>1. ASSUME NEW c \in Clients, StartedFires(c) PROVE Inv'
  <2>1. /\ c \in 1..built /\ Begins("setup", c) /\ waiting' \subseteq 1..built
        /\ UNCHANGED <<state, built, client, opened, leaked, tracked, meter>>
    BY <1>1 DEF StartedFires, entryVars, portalVars, Inv, ClientInv
  <2> QED
    BY <2>1, EntryImportsKeepInv DEF Inv, LifeInv
<1>2. ASSUME NEW c \in Clients, TimerFires(c) PROVE Inv'
  <2>1. /\ c = client /\ c \in 0..built /\ Begins("timer", c) /\ waiting' \subseteq 1..built
        /\ UNCHANGED <<state, built, client, opened, leaked, tracked, meter>>
    BY <1>2 DEF TimerFires, entryVars, callVars, portalVars, Inv, ClientInv, LifeInv
  <2> QED
    BY <2>1, EntryImportsKeepInv DEF Inv, LifeInv
<1>3. ASSUME NEW served \in Served, PollOk(served) PROVE Inv'
  <2>1. /\ Begins("listener", client) \/ BeginsNone
        /\ waiting' \subseteq 1..built
        /\ UNCHANGED <<state, built, client, opened, leaked, tracked, meter>>
    BY <1>3 DEF PollOk, entryVars, portalVars, Inv, ClientInv
  <2>2. client \in 0..built
    BY DEF Inv, ClientInv
  <2> QED
    BY <2>1, <2>2, EntryImportsKeepInv DEF Inv, LifeInv
<1> QED
  BY <1>1, <1>2, <1>3

LEMMA ReimportKeepsInv ==
    ASSUME Inv, Reimport
    PROVE  Inv'
<1>1. /\ state = "loaded" /\ built' = built + 1 /\ opened' = opened \cup {built'}
      /\ Begins("service", built')
      /\ UNCHANGED <<state, client, leaked, waiting, tracked, meter>>
  BY DEF Reimport, Builds, callVars, portalVars
<1>2. built' \in Nat /\ built' \in 0..built'
      /\ imports \in [Origins -> [client : 0..built', finds : Int]]
  BY <1>1 DEF Inv, ClientInv
<1>3. /\ imports' \in [Origins -> [client : 0..built', finds : Int]]
      /\ imports["service"] = NoImport /\ imports'["service"].client = built'
  BY <1>1, <1>2, BeginsType DEF Inv, Origins
<1>4. ClientInv' /\ LifeInv'
  BY <1>1, <1>3 DEF Inv, ClientInv, LifeInv
<1>5. ClientsAccounted'
  BY <1>1, <1>3 DEF Inv, ClientInv, ClientsAccounted, NoImport
<1> QED
  BY <1>1, <1>4, <1>5 DEF Inv

LEMMA UnloadKeepsInv ==
    ASSUME Inv, UnloadPlatforms \/ CloseClient \/ RunUnloadCallbacks
    PROVE  Inv'
<1>1. CASE UnloadPlatforms
  <2>1. state' = "closing" /\ UNCHANGED <<built, client, opened, leaked, waiting, tracked, imports, meter>>
    BY <1>1 DEF UnloadPlatforms, callVars, importVars, portalVars
  <2> QED
    BY <2>1 DEF Inv, ClientInv, LifeInv, ClientsAccounted
<1>2. CASE CloseClient
  <2>1. /\ state' = "closed" /\ opened' = opened \ {client}
        /\ UNCHANGED <<built, client, leaked, waiting, tracked, imports, meter>>
    BY <1>2 DEF CloseClient, callVars, importVars, portalVars
  <2> QED
    BY <2>1 DEF Inv, ClientInv, LifeInv, ClientsAccounted
<1>3. CASE RunUnloadCallbacks
  <2>1. /\ state = "closed" /\ state' = "none" /\ client' = 0 /\ tracked' = tracked \ {client}
        /\ UNCHANGED <<built, opened, leaked, waiting, imports, meter>>
    BY <1>3 DEF RunUnloadCallbacks, Untracked, portalVars
  <2> QED
    BY <2>1 DEF Inv, ClientInv, LifeInv, ClientsAccounted
<1> QED
  BY <1>1, <1>2, <1>3

-------------------------------------------------------------------------------
LEMMA InitInv == Init => Inv
BY IntegrationAssumption DEF Init, Inv, ClientInv, LifeInv, ClientsAccounted, NoImport

LEMMA NextKeepsInv == Inv /\ [Next]_vars => Inv'
<1> SUFFICES ASSUME Inv, [Next]_vars PROVE Inv'
  OBVIOUS
<1>1. CASE HomeAssistantStarts \/ PollStarts \/ PollFails \/ Refresh
  <2>1. UNCHANGED <<state, built, client, opened, leaked, waiting, tracked, imports, meter>>
    BY <1>1 DEF HomeAssistantStarts, PollStarts, PollFails, Refresh, entryVars, callVars, importVars, portalVars
  <2> QED
    BY <2>1 DEF Inv, ClientInv, LifeInv, ClientsAccounted
<1>2. CASE MeterRead
  <2>1. UNCHANGED <<state, built, client, opened, leaked, waiting, tracked, imports>> /\ meter' = meter + 1
    BY <1>2 DEF MeterRead, entryVars, callVars, importVars
  <2> QED
    BY <2>1 DEF Inv, ClientInv, LifeInv, ClientsAccounted
<1>3. ASSUME NEW o \in Origins, ImportEnds(o) \/ ImportFails(o) PROVE Inv'
  BY <1>3, OverKeepsInv DEF ImportEnds, ImportFails, portalVars
<1>4. CASE UNCHANGED vars
  <2>1. UNCHANGED <<state, built, client, opened, leaked, waiting, tracked, imports, meter>>
    BY <1>4 DEF vars, entryVars, callVars, importVars, portalVars
  <2> QED
    BY <2>1 DEF Inv, ClientInv, LifeInv, ClientsAccounted
<1> QED
  BY <1>1, <1>2, <1>3, <1>4, SetupKeepsInv, CallsKeepInv, ReimportKeepsInv, UnloadKeepsInv DEF Next

\* The inductive invariant: the entry's client and its timer in each state of
\* the entry (__init__.py:62-120).
THEOREM LifecycleInv == Spec => []Inv
<1>1. Init => Inv
  BY InitInv
<1>2. Inv /\ [Next]_vars => Inv'
  BY NextKeepsInv
<1> QED
  BY <1>1, <1>2, PTL DEF Spec

\* Every open client is the entry's, or that of a running import of the service,
\* or was left by a failed setup, through any number of setups and reloads
\* (__init__.py:64-67, 119, services.py:83-87).
THEOREM EveryClientAccountedFor == Spec => []ClientsAccounted
<1>1. Inv => ClientsAccounted
  BY DEF Inv
<1> QED
  BY <1>1, LifecycleInv, PTL

\* What a step may start.
OwnImports ==
    \A o \in {"timer", "listener"} :
        imports[o] = NoImport /\ imports'[o] # NoImport => imports'[o].client = client

LEMMA BeginsOwn ==
    ASSUME Inv, NEW o \in Origins, NEW c \in Nat, Begins(o, c), o \in {"timer", "listener"} => c = client
    PROVE  OwnImports
<1>1. imports' = [imports EXCEPT ![o] = [client |-> c, finds |-> meter]]
  BY DEF Begins
<1>2. DOMAIN imports = Origins
  BY DEF Inv, ClientInv
<1> QED
  BY <1>1, <1>2 DEF OwnImports, Origins

LEMMA StepStartsOwn == Inv /\ [Next]_vars => OwnImports
<1> SUFFICES ASSUME Inv, [Next]_vars PROVE OwnImports
  OBVIOUS
<1>1. /\ client \in Nat /\ waiting \subseteq Nat /\ built + 1 \in Nat
      /\ tracked \subseteq {client}
  BY DEF Inv, ClientInv, LifeInv
<1>2. CASE UNCHANGED imports
  BY <1>2 DEF OwnImports
<1>3. ASSUME NEW served \in Served, FirstRefreshOk(served) PROVE OwnImports
  <2>1. Begins("setup", client) \/ UNCHANGED imports
    BY <1>3 DEF FirstRefreshOk, InitialImport, BeginsNone, importVars
  <2> QED
    BY <1>1, <1>2, <2>1, BeginsOwn DEF Origins
<1>4. ASSUME NEW served \in Served, PollOk(served) PROVE OwnImports
  <2>1. Begins("listener", client) \/ UNCHANGED imports
    BY <1>4 DEF PollOk, BeginsNone, importVars
  <2> QED
    BY <1>1, <1>2, <2>1, BeginsOwn DEF Origins
<1>5. ASSUME NEW c \in Clients, StartedFires(c) PROVE OwnImports
  BY <1>1, <1>5, BeginsOwn DEF StartedFires, Origins
<1>6. ASSUME NEW c \in Clients, TimerFires(c) PROVE OwnImports
  <2>1. c = client /\ Begins("timer", c)
    BY <1>1, <1>6 DEF TimerFires
  <2> QED
    BY <1>1, <2>1, BeginsOwn DEF Origins
<1>7. CASE Reimport
  <2>1. Begins("service", built + 1)
    BY <1>7 DEF Reimport, Builds
  <2> QED
    BY <1>1, <2>1, BeginsOwn DEF Origins
<1>8. ASSUME NEW o \in Origins, ImportEnds(o) \/ ImportFails(o) PROVE OwnImports
  <2>1. imports' = [imports EXCEPT ![o] = NoImport] /\ DOMAIN imports = Origins
    BY <1>8 DEF ImportEnds, ImportFails, Inv, ClientInv
  <2> QED
    BY <2>1 DEF OwnImports, Origins
<1>9. CASE \/ Setup \/ FirstRefreshFails \/ HomeAssistantStarts
           \/ PollStarts \/ PollFails \/ Refresh
           \/ UnloadPlatforms \/ CloseClient \/ RunUnloadCallbacks \/ MeterRead \/ UNCHANGED vars
  <2>1. UNCHANGED imports
    BY <1>9 DEF Setup, FirstRefreshFails, HomeAssistantStarts, PollStarts, PollFails, Refresh,
       UnloadPlatforms, CloseClient, RunUnloadCallbacks, MeterRead, vars, importVars
  <2> QED
    BY <1>2, <2>1
<1> QED
  BY <1>3, <1>4, <1>5, <1>6, <1>7, <1>8, <1>9 DEF Next

\* The timer and the listener start imports on the client of the entry as it is
\* set up, never on that of an earlier setup (__init__.py:104-110).
THEOREM OnlyTheEntryImports == Spec => NoImportOnceUnloaded
<1>1. Inv /\ [Next]_vars => OwnImports
  BY StepStartsOwn
<1>2. OwnImports => [\A o \in {"timer", "listener"} :
          imports[o] = NoImport /\ imports'[o] # NoImport => imports'[o].client = client]_vars
  BY DEF OwnImports
<1> QED
  BY <1>1, <1>2, LifecycleInv, PTL DEF Spec, NoImportOnceUnloaded

-------------------------------------------------------------------------------
(***************************************************************************)
(* What a poll shows.                                                      *)
(***************************************************************************)

\* Two readings put together.
LEMMA AppendTwo ==
    ASSUME NEW a, NEW b
    PROVE  Append(<<>>, a) = <<a>> /\ Append(<<a>>, b) = <<a, b>>
<1> DEFINE S == {a, b}
<1>1. <<>> \in Seq(S) /\ <<a>> \in Seq(S) /\ <<a, b>> \in Seq(S) /\ a \in S /\ b \in S
  OBVIOUS
<1>2. /\ Len(<<>>) = 0
      /\ Len(<<a>>) = 1 /\ <<a>>[1] = a
      /\ Len(<<a, b>>) = 2 /\ <<a, b>>[1] = a /\ <<a, b>>[2] = b
  OBVIOUS
<1> HIDE DEF S
<1>3. Append(<<>>, a) = <<a>>
  <2>1. Append(<<>>, a) \in Seq(S) /\ Len(Append(<<>>, a)) = Len(<<>>) + 1 /\ Append(<<>>, a)[Len(<<>>) + 1] = a
    BY <1>1, AppendProperties
  <2> DEFINE u == Append(<<>>, a)
             v == <<a>>
  <2>2. u \in Seq(S) /\ v \in Seq(S) /\ Len(u) = 1 /\ Len(v) = 1 /\ u[1] = v[1]
    BY <2>1, <1>1, <1>2
  <2> HIDE DEF u, v
  <2>3. u = v
    BY <2>2, SeqEqual
  <2> QED
    BY <2>3 DEF u, v
<1>4. Append(<<a>>, b) = <<a, b>>
  <2> DEFINE u == Append(<<a>>, b)
             v == <<a, b>>
             t == <<a>>
  <2>1. /\ u \in Seq(S) /\ Len(u) = Len(t) + 1
        /\ \A i \in 1..Len(t) : u[i] = t[i]
        /\ u[Len(t) + 1] = b
    BY <1>1, AppendProperties
  <2>2. Len(t) = 1 /\ t[1] = a /\ v \in Seq(S) /\ Len(v) = 2 /\ v[1] = a /\ v[2] = b
    BY <1>1, <1>2
  <2> HIDE DEF u, v, t
  <2>3. Len(u) = 2 /\ u[1] = a /\ u[2] = b
    BY <2>1, <2>2
  <2>4. u = v
    BY <2>1, <2>2, <2>3, SeqEqual
  <2> QED
    BY <2>4 DEF u, v
<1> QED
  BY <1>3, <1>4

\* The mobility API's readings without the one in progress.
LEMMA InProgressSkipped ==
    ASSUME NEW a, NEW b, NEW c, a.index # None, a.date # None, b.index # None, b.date # None, c.index = None
    PROVE  ToWebEntries(<<a, b, c>>) = <<a, b>>
<1> DEFINE s == <<a, b, c>>
           Whole(r) == r.index # None /\ r.date # None
           Kept(f) == [n \in 0..Len(s) |->
                          IF n = 0 THEN <<>>
                          ELSE IF Whole(s[n]) THEN Append(f[n - 1], s[n])
                          ELSE f[n - 1]]
           g == [n \in 0..3 |-> CASE n = 0 -> <<>> [] n = 1 -> <<a>> [] OTHER -> <<a, b>>]
           kept == CHOOSE f : f = Kept(f)
<1>1. Len(s) = 3 /\ s[1] = a /\ s[2] = b /\ s[3] = c /\ Whole(a) /\ Whole(b) /\ ~Whole(c)
  OBVIOUS
<1> HIDE DEF s, Whole
<1>2. ASSUME NEW f PROVE  \A n \in 0..3 : Kept(f)[n] = IF n = 0 THEN <<>>
                          ELSE IF Whole(s[n]) THEN Append(f[n - 1], s[n])
                          ELSE f[n - 1]
  BY <1>1
<1>3. ASSUME NEW f
      PROVE  /\ Kept(f)[0] = <<>> /\ Kept(f)[1] = Append(f[0], a)
             /\ Kept(f)[2] = Append(f[1], b) /\ Kept(f)[3] = f[2]
             /\ Kept(f) = [n \in 0..3 |-> Kept(f)[n]]
  <2>1. Kept(f) = [n \in 0..3 |-> Kept(f)[n]]
    BY <1>1
  <2> HIDE DEF Kept
  <2>2. 1 - 1 = 0 /\ 2 - 1 = 1 /\ 3 - 1 = 2
    OBVIOUS
  <2>3. Kept(f)[0] = <<>>
    BY <1>2
  <2>4. Kept(f)[1] = Append(f[0], a)
    <3>1. Kept(f)[1] = IF 1 = 0 THEN <<>> ELSE IF Whole(s[1]) THEN Append(f[1 - 1], s[1]) ELSE f[1 - 1]
      BY <1>2
    <3> QED
      BY <3>1, <2>2, <1>1
  <2>5. Kept(f)[2] = Append(f[1], b)
    <3>1. Kept(f)[2] = IF 2 = 0 THEN <<>> ELSE IF Whole(s[2]) THEN Append(f[2 - 1], s[2]) ELSE f[2 - 1]
      BY <1>2
    <3> QED
      BY <3>1, <2>2, <1>1
  <2>6. Kept(f)[3] = f[2]
    <3>1. Kept(f)[3] = IF 3 = 0 THEN <<>> ELSE IF Whole(s[3]) THEN Append(f[3 - 1], s[3]) ELSE f[3 - 1]
      BY <1>2
    <3> QED
      BY <3>1, <2>2, <1>1
  <2> QED
    BY <2>1, <2>3, <2>4, <2>5, <2>6
<1>4. g = Kept(g)
  <2>1. /\ g[0] = <<>> /\ g[1] = <<a>> /\ g[2] = <<a, b>> /\ g[3] = <<a, b>>
        /\ g = [n \in 0..3 |-> g[n]]
    OBVIOUS
  <2> HIDE DEF Kept, g
  <2>2. Kept(g)[0] = g[0] /\ Kept(g)[1] = g[1] /\ Kept(g)[2] = g[2] /\ Kept(g)[3] = g[3]
    <3>1. Kept(g)[0] = <<>> /\ Kept(g)[1] = Append(g[0], a) /\ Kept(g)[2] = Append(g[1], b) /\ Kept(g)[3] = g[2]
      BY <1>3
    <3>2. Append(<<>>, a) = <<a>> /\ Append(<<a>>, b) = <<a, b>>
      BY AppendTwo
    <3> QED
      BY <3>1, <3>2, <2>1
  <2>3. \A n \in 0..3 : n = 0 \/ n = 1 \/ n = 2 \/ n = 3
    OBVIOUS
  <2>4. \A n \in 0..3 : Kept(g)[n] = g[n]
    BY <2>2, <2>3
  <2>5. Kept(g) = [n \in 0..3 |-> Kept(g)[n]]
    BY <1>3
  <2> QED
    BY <2>1, <2>4, <2>5
<1>5. kept = Kept(kept)
  <2> HIDE DEF Kept, g
  <2> QED
    BY <1>4
<1>6. ToWebEntries(s) = kept[3]
  BY <1>1 DEF ToWebEntries, Whole
<1> HIDE DEF kept, Kept
<1>7. kept[0] = <<>> /\ kept[1] = Append(kept[0], a) /\ kept[2] = Append(kept[1], b) /\ kept[3] = kept[2]
  BY <1>3, <1>5
<1> QED
  BY <1>6, <1>7, AppendTwo DEF s

\* The index shown is the largest of those offered, if it is one of them.
LEMMA MaxIs ==
    ASSUME NEW T, T \subseteq Int, NEW x \in T, \A y \in T : x >= y
    PROVE  Max(T) = x
<1>1. Max(T) \in T /\ \A y \in T : Max(T) >= y
  BY DEF Max
<1>2. Max(T) \in Int /\ x \in Int /\ Max(T) >= x /\ x >= Max(T)
  BY <1>1
<1> QED
  BY <1>2

\* An import leaves one of two indexes recorded.
LEMMA MaxOfTwo ==
    ASSUME NEW x \in Int, NEW y \in Int
    PROVE  Max({x, y}) \in {x, y}
<1> DEFINE T == {x, y}
<1>1. T \subseteq Int /\ x \in T /\ y \in T
  OBVIOUS
<1>2. CASE x >= y
  <2>1. \A z \in T : x >= z
    BY <1>2
  <2> HIDE DEF T
  <2>2. Max(T) = x
    BY <1>1, <2>1, MaxIs
  <2> QED
    BY <2>2 DEF T
<1>3. CASE y >= x
  <2>1. \A z \in T : y >= z
    BY <1>3
  <2> HIDE DEF T
  <2>2. Max(T) = y
    BY <1>1, <2>1, MaxIs
  <2> QED
    BY <2>2 DEF T
<1> QED
  BY <1>2, <1>3

\* What a poll may be served, whatever the bounds.
Answers == [meter : Nat, served : Services]

\* A bill is no more than the reading it is made from.
LEMMA BillableBounds ==
    ASSUME NEW a \in Answers
    PROVE  /\ Before(a.meter) \in Nat /\ Before(a.meter) <= a.meter
           /\ Billable(a) \in Nat
           /\ Billable(a) * LitresPerM3 \in Nat
           /\ Billable(a) * LitresPerM3 <= Before(a.meter)
<1>1. a.meter \in Nat
  BY DEF Answers
<1>2. Before(a.meter) \in Nat /\ Before(a.meter) <= a.meter
  BY <1>1 DEF Before
<1>3. ASSUME NEW n \in Nat
      PROVE  n \div LitresPerM3 \in Nat /\ (n \div LitresPerM3) * LitresPerM3 \in Nat
             /\ (n \div LitresPerM3) * LitresPerM3 <= n
  BY ReadingsAssumption
<1> QED
  BY <1>2, <1>3 DEF Billable

\* The last reading is whole whatever the dashboard leaves out.
LEMMA LastReadingWhole ==
    ASSUME NEW a \in Answers
    PROVE  /\ a.served.billing = "none" => History(a) = <<>> /\ DataOf(a).last = Empty
           /\ a.served.billing # "none" =>
                 History(a) # <<>> /\ DataOf(a).last = Reading(Billable(a))
<1>1. /\ Billable(a) \in Nat /\ None \notin Int
      /\ a.served.billing \in {"full", "dated", "none"}
  BY BillableBounds, ReadingsAssumption DEF Answers, Services
<1> DEFINE latest == IF History(a) = <<>> THEN Empty ELSE History(a)[1]
<1>2. DataOf(a).last = Layered(Billed(a), latest)
  BY DEF DataOf, FromApiResponses
<1>3. CASE a.served.billing = "none"
  <2>1. History(a) = <<>> /\ Billed(a) = Empty
    BY <1>3 DEF History, Billed
  <2> QED
    BY <1>2, <1>3, <2>1 DEF Layered, Empty
<1>4. CASE a.served.billing # "none"
  <2>1. History(a) = [n \in 1..(Billable(a) + 1) |-> Reading(Billable(a) + 1 - n)]
    BY <1>4 DEF History
  <2>2. 1 \in DOMAIN History(a) /\ History(a)[1] = Reading(Billable(a) + 1 - 1)
    BY <1>1, <2>1
  <2>3. History(a) # <<>> /\ latest = Reading(Billable(a))
    BY <1>1, <2>2
  <2>4. Layered(Billed(a), Reading(Billable(a))) = Reading(Billable(a))
    BY <1>1, <1>4 DEF Layered, Billed, Empty, Reading
  <2> QED
    BY <1>2, <1>4, <2>3, <2>4
<1> QED
  BY <1>3, <1>4

\* The newest point of the daily chart, newest first or last.
LEMMA DailyIndex ==
    ASSUME NEW a \in Answers
    PROVE  /\ a.served.daily = "none" =>
                 Daily(a) = <<>> /\ LatestByDate(Daily(a)).index = None
           /\ a.served.daily # "none" =>
                 /\ LatestByDate(Daily(a)).index = a.meter
                 /\ {e.index : e \in Range(Daily(a))} = {0, a.meter}
<1>1. /\ a.meter \in Nat /\ None \notin Int
      /\ a.served.daily \in {"web", "mobile", "none"}
  BY ReadingsAssumption DEF Answers, Services
<1>2. CASE a.served.daily = "none"
  BY <1>2 DEF Daily, LatestByDate, Empty
<1> DEFINE old == Entry(1, 0)
           new == Entry(2, a.meter)
<1>3. /\ old.date = 1 /\ old.index = 0 /\ new.date = 2 /\ new.index = a.meter
      /\ old.date # None /\ old.index # None /\ new.date # None /\ new.index # None
  BY <1>1 DEF Entry
<1> HIDE DEF old, new
<1>4. CASE a.served.daily = "web"
  <2>1. Daily(a) = <<new, old>>
    BY <1>4 DEF Daily, old, new
  <2>2. LatestByDate(<<new, old>>) = new
    BY <1>3 DEF LatestByDate
  <2>3. Range(<<new, old>>) = {new, old}
    BY DEF Range
  <2> QED
    BY <1>3, <1>4, <2>1, <2>2, <2>3
<1>5. CASE a.served.daily = "mobile"
  <2>1. Daily(a) = ToWebEntries(<<old, new, Entry(3, None)>>)
    BY <1>5 DEF Daily, old, new
  <2>2. Entry(3, None).index = None
    BY DEF Entry
  <2>3. Daily(a) = <<old, new>>
    BY <1>3, <2>1, <2>2, InProgressSkipped
  <2>4. LatestByDate(<<old, new>>) = new
    BY <1>3 DEF LatestByDate
  <2>5. Range(<<old, new>>) = {new, old}
    BY DEF Range
  <2> QED
    BY <1>3, <1>5, <2>3, <2>4, <2>5
<1> QED
  BY <1>1, <1>2, <1>4, <1>5

\* The chart of months ends with the month in progress.
LEMMA MonthIndex ==
    ASSUME NEW a \in Answers
    PROVE  /\ ~a.served.monthly => Monthly(a) = <<>>
           /\ a.served.monthly =>
                 /\ Monthly(a) # <<>> /\ Last(Monthly(a)).index = Before(a.meter)
                 /\ {e.index : e \in Range(Monthly(a))} = {0, Before(a.meter)}
<1>1. CASE ~a.served.monthly
  BY <1>1 DEF Monthly
<1>2. CASE a.served.monthly
  <2> DEFINE old == Entry(1, 0)
             new == Entry(2, Before(a.meter))
  <2>1. Monthly(a) = <<old, new>> /\ old.index = 0 /\ new.index = Before(a.meter)
    BY <1>2 DEF Monthly, Entry
  <2> HIDE DEF old, new
  <2>2. Len(<<old, new>>) = 2 /\ <<old, new>>[2] = new /\ <<old, new>> # <<>>
        /\ Range(<<old, new>>) = {new, old}
    BY DEF Range
  <2> QED
    BY <1>2, <2>1, <2>2 DEF Last
<1> QED
  BY <1>1, <1>2

\* The indexes in what a poll is served, in litres.
IndexesOffered(a) ==
    {e.index : e \in Range(Daily(a)) \cup Range(Monthly(a))}
        \cup (IF History(a) = <<>> THEN {} ELSE {Billable(a) * LitresPerM3})

\* Of the three indexes a poll may hold, the most precise is the largest.
LEMMA IndexIsFreshest ==
    ASSUME NEW a \in Answers
    PROVE  /\ IndexOf(a) = IF IndexesOffered(a) = {} THEN None ELSE Max(IndexesOffered(a))
           /\ IndexOf(a) # None => IndexOf(a) \in 0..a.meter
<1>1. None \notin Int /\ a.meter \in Nat
  BY ReadingsAssumption DEF Answers
<1> DEFINE daily == LatestByDate(Daily(a)).index
           month == IF Monthly(a) = <<>> THEN Empty ELSE Last(Monthly(a))
           billed == DataOf(a).last.index
           bill == Billable(a) * LitresPerM3
           dailies == {e.index : e \in Range(Daily(a))}
           months == {e.index : e \in Range(Monthly(a))}
           bills == IF History(a) = <<>> THEN {} ELSE {bill}
<1>2. IndexOf(a) = Precise(daily, month.index, billed)
  BY DEF IndexOf, DataOf, FromApiResponses
<1>3. /\ Before(a.meter) \in Nat /\ Before(a.meter) <= a.meter
      /\ bill \in Nat /\ bill <= Before(a.meter)
      /\ Billable(a) \in Nat
  BY BillableBounds
<1>4. \/ daily = None /\ dailies = {}
      \/ daily = a.meter /\ dailies = {0, a.meter}
  <2>1. CASE a.served.daily = "none"
    BY <2>1, DailyIndex DEF Range
  <2>2. CASE a.served.daily # "none"
    BY <2>2, DailyIndex
  <2> QED
    BY <2>1, <2>2
<1>5. \/ month.index = None /\ months = {}
      \/ month.index = Before(a.meter) /\ months = {0, Before(a.meter)}
  <2>1. CASE ~a.served.monthly
    BY <2>1, MonthIndex DEF Range, Empty
  <2>2. CASE a.served.monthly
    BY <2>2, MonthIndex
  <2> QED
    BY <2>1, <2>2
<1>6. \/ billed = None /\ bills = {}
      \/ billed = Billable(a) /\ bills = {bill}
  <2>1. Empty.index = None /\ Reading(Billable(a)).index = Billable(a)
    BY DEF Empty, Reading
  <2>2. CASE a.served.billing = "none"
    BY <2>1, <2>2, LastReadingWhole
  <2>3. CASE a.served.billing # "none"
    BY <2>1, <2>3, LastReadingWhole
  <2> QED
    BY <2>2, <2>3
<1>7. IndexesOffered(a) = dailies \cup months \cup bills
  BY DEF IndexesOffered
<1> HIDE DEF daily, month, billed, bill, dailies, months, bills
<1>8. CASE daily # None
  <2>1. IndexOf(a) = a.meter
    BY <1>2, <1>4, <1>8 DEF Precise
  <2>2. /\ IndexesOffered(a) \subseteq Int /\ a.meter \in IndexesOffered(a)
        /\ \A y \in IndexesOffered(a) : a.meter >= y
    BY <1>1, <1>3, <1>4, <1>5, <1>6, <1>7, <1>8
  <2> QED
    BY <1>1, <2>1, <2>2, MaxIs
<1>9. CASE daily = None /\ month.index # None
  <2>1. IndexOf(a) = Before(a.meter)
    BY <1>2, <1>5, <1>9 DEF Precise
  <2>2. /\ IndexesOffered(a) \subseteq Int /\ Before(a.meter) \in IndexesOffered(a)
        /\ \A y \in IndexesOffered(a) : Before(a.meter) >= y
    BY <1>1, <1>3, <1>4, <1>5, <1>6, <1>7, <1>9
  <2> QED
    BY <1>1, <1>3, <2>1, <2>2, MaxIs
<1>10. CASE daily = None /\ month.index = None /\ billed # None
  <2>1. IndexOf(a) = bill
    BY <1>2, <1>6, <1>10 DEF Precise, bill
  <2>2. IndexesOffered(a) = {bill}
    BY <1>1, <1>3, <1>4, <1>5, <1>6, <1>7, <1>10
  <2>3. Max({bill}) = bill
    BY <1>3, MaxIs
  <2> QED
    BY <1>1, <1>3, <2>1, <2>2, <2>3
<1>11. CASE daily = None /\ month.index = None /\ billed = None
  <2>1. IndexOf(a) = None
    BY <1>2, <1>11 DEF Precise
  <2>2. IndexesOffered(a) = {}
    BY <1>1, <1>3, <1>4, <1>5, <1>6, <1>7, <1>11
  <2> QED
    BY <2>1, <2>2
<1> QED
  BY <1>8, <1>9, <1>10, <1>11

\* Before the first poll, and after an unload, no index is shown.
LEMMA NothingShown == NoAnswers \in Answers /\ IndexOf(NoAnswers) = None
<1>1. NoAnswers \in Answers
  BY DEF NoAnswers, Bare, Answers, Services
<1>2. NoAnswers.served.daily = "none" /\ ~NoAnswers.served.monthly /\ NoAnswers.served.billing = "none"
  BY DEF NoAnswers, Bare
<1>3. Daily(NoAnswers) = <<>> /\ Monthly(NoAnswers) = <<>> /\ History(NoAnswers) = <<>>
  BY <1>1, <1>2, DailyIndex, MonthIndex, LastReadingWhole
<1>4. IndexesOffered(NoAnswers) = {}
  BY <1>3 DEF IndexesOffered, Range
<1> QED
  BY <1>1, <1>4, IndexIsFreshest

-------------------------------------------------------------------------------
(***************************************************************************)
(* Types, and the clients a setup or the service has left behind.          *)
(***************************************************************************)

HoldInv ==
    /\ state \in {"setup", "loaded", "closing"} => client \in opened
    /\ client \notin leaked
    /\ imports["service"].client \notin leaked
    /\ client # 0 => imports["service"].client # client

TypeInv == TypeOK /\ HoldInv

\* The optional daily series may be missing; what is left is still an answer.
LEMMA ServedIsService ==
    ASSUME TypeOK, NEW served \in Served
    PROVE  [meter |-> meter, served |-> served] \in Answers
BY IntegrationAssumption DEF TypeOK, Served, Services, Answers, Litres

\* Every index a poll may show is one of the meter's.
LEMMA ShownIndex ==
    ASSUME TypeOK, NEW served \in Served
    PROVE  LET index == IndexOf([meter |-> meter, served |-> served])
           IN index = None \/ (index \in 0..meter /\ index \in Litres)
<1> DEFINE a == [meter |-> meter, served |-> served]
<1>1. a \in Answers /\ a.meter = meter
  BY ServedIsService
<1>2. meter \in Nat /\ MaxLitres \in Nat /\ meter <= MaxLitres
  BY IntegrationAssumption DEF TypeOK, Litres
<1> HIDE DEF a
<1>3. IndexOf(a) = None \/ IndexOf(a) \in 0..meter
  BY <1>1, IndexIsFreshest
<1> QED
  BY <1>2, <1>3 DEF Litres, a

\* An import takes a client that is built and will find an index of the meter.
LEMMA BeginsKeepsType ==
    ASSUME TypeOK, NEW n \in Nat, built <= n, NEW o \in Origins, NEW c \in 0..n, Begins(o, c)
    PROVE  /\ imports' \in [Origins -> [client : 0..n, finds : Litres]]
           /\ covered' \in Litres /\ recorded' \in Litres /\ failures' \in 0..MaxFailures
           /\ imports'[o].client = c
           /\ o # "service" => imports'["service"] = imports["service"]
<1>1. built \in Nat /\ meter \in Litres /\ 0..built \subseteq 0..n
  BY IntegrationAssumption DEF TypeOK
<1> QED
  BY <1>1 DEF Begins, TypeOK, Origins

\* The actions that leave the clients alone.
LEMMA FrameKeepsType ==
    ASSUME TypeInv, UNCHANGED <<built, client, opened, leaked>>,
           state' \in {"setup", "loaded", "closing"} => state \in {"setup", "loaded", "closing"},
           state' \in States, started' \in BOOLEAN, polling' \in BOOLEAN, scheduled' \in BOOLEAN,
           waiting' \subseteq 1..built, tracked' \subseteq 1..built,
           answers' \in [meter : Litres, served : Services], marker' \in Litres \cup {None},
           contract' \in Contracts, meter' \in Litres,
           imports' \in [Origins -> [client : 0..built, finds : Litres]],
           imports'["service"] = imports["service"],
           covered' \in Litres, recorded' \in Litres, failures' \in 0..MaxFailures
    PROVE  TypeInv'
BY DEF TypeInv, TypeOK, HoldInv

LEMMA SetupKeepsType ==
    ASSUME Inv, TypeInv, Setup \/ FirstRefreshFails
    PROVE  TypeInv'
<1>1. CASE Setup
  <2>1. /\ built < MaxClients /\ built' = built + 1 /\ client' = built' /\ opened' = opened \cup {built'}
        /\ state' = "setup"
        /\ UNCHANGED <<started, leaked, waiting, tracked, polling, scheduled, answers, marker,
                       imports, recorded, failures, covered, contract, meter>>
    BY <1>1 DEF Setup, Builds, callVars, importVars, portalVars
  <2>2. built \in Nat /\ MaxClients \in Nat /\ 1..built \subseteq 1..built' /\ 0..built \subseteq 0..built'
        /\ built' \in 0..MaxClients /\ built' \notin 0..built
    BY <2>1, IntegrationAssumption DEF TypeInv, TypeOK
  <2>3. TypeOK'
    BY <2>1, <2>2 DEF TypeInv, TypeOK, States
  <2>4. imports["service"].client \in 0..built /\ leaked \subseteq 1..built
    BY DEF TypeInv, TypeOK, Origins
  <2> QED
    BY <2>1, <2>2, <2>3, <2>4 DEF TypeInv, HoldInv
<1>2. CASE FirstRefreshFails
  <2>1. /\ state = "setup" /\ state' = "retry" /\ client' = 0 /\ leaked' = leaked \cup {client}
        /\ UNCHANGED <<started, built, opened, waiting, tracked, polling, scheduled, answers, marker,
                       imports, recorded, failures, covered, contract, meter>>
    BY <1>2 DEF FirstRefreshFails, callVars, importVars, portalVars
  <2>2. client \in opened /\ client # 0 /\ built \in Nat /\ leaked \subseteq 1..built /\ 0 \notin 1..built
    BY <2>1 DEF TypeInv, TypeOK, HoldInv, Inv, LifeInv
  <2>3. TypeOK'
    BY <2>1, <2>2 DEF TypeInv, TypeOK, States
  <2>4. HoldInv'
    BY <2>1, <2>2 DEF TypeInv, HoldInv
  <2> QED
    BY <2>3, <2>4 DEF TypeInv
<1> QED
  BY <1>1, <1>2

LEMMA LoadedKeepsType ==
    ASSUME Inv, TypeInv, NEW served \in Served, FirstRefreshOk(served) \/ PollOk(served)
    PROVE  TypeInv'
<1> DEFINE a == [meter |-> meter, served |-> served]
<1>1. a \in [meter : Litres, served : Services] /\ (IndexOf(a) = None \/ IndexOf(a) \in Litres)
  BY ServedIsService, ShownIndex DEF TypeInv, TypeOK, Answers
<1>2. /\ built \in Nat /\ client \in 0..built /\ "setup" \in Origins /\ "listener" \in Origins
  BY IntegrationAssumption DEF TypeInv, TypeOK, Origins
<1>3. CASE FirstRefreshOk(served)
  <2>1. /\ state = "setup" /\ state' = "loaded" /\ answers' = a /\ marker' = IndexOf(a)
        /\ InitialImport /\ tracked' = tracked \cup {client} /\ scheduled' = TRUE
        /\ UNCHANGED <<started, built, client, opened, leaked, polling, contract, meter>>
    BY <1>3 DEF FirstRefreshOk, Tracks, portalVars
  <2>2. client \in 1..built
    BY <2>1 DEF TypeInv, TypeOK, HoldInv
  <2>3. /\ waiting' \subseteq 1..built
        /\ Begins("setup", client) \/ UNCHANGED <<imports, recorded, failures, covered>>
    BY <2>1, <2>2 DEF InitialImport, BeginsNone, importVars, TypeInv, TypeOK
  <2>4. /\ imports' \in [Origins -> [client : 0..built, finds : Litres]]
        /\ imports'["service"] = imports["service"]
        /\ covered' \in Litres /\ recorded' \in Litres /\ failures' \in 0..MaxFailures
    BY <1>2, <2>3, BeginsKeepsType DEF TypeInv, TypeOK
  <2>5. /\ answers' \in [meter : Litres, served : Services] /\ marker' \in Litres \cup {None}
        /\ tracked' \subseteq 1..built
    BY <1>1, <2>1, <2>2 DEF TypeInv, TypeOK
  <2> HIDE DEF a
  <2> QED
    BY <2>1, <2>3, <2>4, <2>5, FrameKeepsType DEF TypeInv, TypeOK, States
<1>4. CASE PollOk(served)
  <2>1. /\ answers' = a /\ polling' = FALSE /\ scheduled' = TRUE
        /\ \/ marker' = IndexOf(a) /\ Begins("listener", client)
           \/ marker' = marker /\ UNCHANGED <<imports, recorded, failures, covered>>
        /\ UNCHANGED <<state, started, built, client, opened, leaked, waiting, tracked, contract, meter>>
    BY <1>4 DEF PollOk, BeginsNone, entryVars, portalVars, importVars
  <2>2. /\ imports' \in [Origins -> [client : 0..built, finds : Litres]]
        /\ imports'["service"] = imports["service"]
        /\ covered' \in Litres /\ recorded' \in Litres /\ failures' \in 0..MaxFailures
    BY <1>2, <2>1, BeginsKeepsType DEF TypeInv, TypeOK
  <2>3. answers' \in [meter : Litres, served : Services] /\ marker' \in Litres \cup {None}
    BY <1>1, <2>1 DEF TypeInv, TypeOK
  <2> HIDE DEF a
  <2> QED
    BY <2>1, <2>2, <2>3, FrameKeepsType DEF TypeInv, TypeOK
<1> QED
  BY <1>3, <1>4

LEMMA ImportsKeepType ==
    ASSUME Inv, TypeInv, NEW c \in Clients, StartedFires(c) \/ TimerFires(c)
    PROVE  TypeInv'
<1>1. /\ built \in Nat /\ waiting \subseteq 0..built /\ tracked \subseteq 0..built
      /\ "setup" \in Origins /\ "timer" \in Origins
  BY IntegrationAssumption DEF TypeInv, TypeOK, Origins
<1>2. /\ Begins("setup", c) \/ Begins("timer", c)
      /\ c \in 0..built /\ waiting' \subseteq waiting
      /\ UNCHANGED <<state, started, built, client, opened, leaked, tracked, polling, scheduled,
                     answers, marker, contract, meter>>
  BY <1>1 DEF StartedFires, TimerFires, entryVars, callVars, portalVars
<1>3. /\ imports' \in [Origins -> [client : 0..built, finds : Litres]]
      /\ imports'["service"] = imports["service"]
      /\ covered' \in Litres /\ recorded' \in Litres /\ failures' \in 0..MaxFailures
  BY <1>1, <1>2, BeginsKeepsType DEF TypeInv
<1> QED
  BY <1>2, <1>3, FrameKeepsType DEF TypeInv, TypeOK

\* The service closes no client but its own, which is neither the entry's nor
\* one left behind.
LEMMA OverKeepsType ==
    ASSUME Inv, TypeInv, NEW o \in Origins, ImportEnds(o) \/ ImportFails(o)
    PROVE  TypeInv'
<1>1. /\ imports' = [imports EXCEPT ![o] = NoImport]
      /\ opened' = IF o = "service" THEN opened \ {imports["service"].client} ELSE opened
      /\ UNCHANGED <<state, started, built, client, leaked, waiting, tracked, polling, scheduled,
                     answers, marker, covered, contract, meter>>
  BY DEF ImportEnds, ImportFails, Closes, UnchangedEntry, callVars, portalVars
<1>2. recorded' \in Litres /\ failures' \in 0..MaxFailures
  <2>1. CASE ImportFails(o)
    BY <2>1, IntegrationAssumption DEF ImportFails, TypeInv, TypeOK
  <2>2. CASE ImportEnds(o)
    <3>1. recorded \in Litres /\ imports[o].finds \in Litres /\ Litres \subseteq Int
      BY DEF TypeInv, TypeOK, Litres
    <3>2. Max({recorded, imports[o].finds}) \in Litres
      BY <3>1, MaxOfTwo
    <3> QED
      BY <2>2, <3>1, <3>2 DEF ImportEnds, TypeInv, TypeOK
  <2> QED
    BY <2>1, <2>2
<1>3. /\ built \in Nat /\ NoImport \in [client : 0..built, finds : Litres] /\ NoImport.client = 0
      /\ leaked \subseteq 1..built /\ opened \subseteq 1..built
  BY IntegrationAssumption DEF TypeInv, TypeOK, NoImport, Litres
<1>4. imports' \in [Origins -> [client : 0..built, finds : Litres]]
  BY <1>1, <1>3 DEF TypeInv, TypeOK
<1>5. leaked \subseteq opened'
  BY <1>1 DEF TypeInv, TypeOK, HoldInv
<1>6. TypeOK'
  BY <1>1, <1>2, <1>3, <1>4, <1>5 DEF TypeInv, TypeOK
<1>7. imports'["service"] = imports["service"] \/ imports'["service"] = NoImport
  BY <1>1 DEF TypeInv, TypeOK, Origins
<1>8. state \in {"setup", "loaded", "closing"} => client \in opened'
  BY <1>1, <1>3 DEF TypeInv, HoldInv
<1>9. HoldInv'
  BY <1>1, <1>3, <1>7, <1>8 DEF TypeInv, HoldInv
<1> QED
  BY <1>6, <1>9 DEF TypeInv

LEMMA ReimportKeepsType ==
    ASSUME Inv, TypeInv, Reimport
    PROVE  TypeInv'
<1>1. /\ state = "loaded" /\ built < MaxClients /\ built' = built + 1 /\ opened' = opened \cup {built'}
      /\ Begins("service", built')
      /\ UNCHANGED <<state, started, client, leaked, waiting, tracked, polling, scheduled, answers,
                     marker, contract, meter>>
  BY DEF Reimport, Builds, callVars, portalVars
<1>2. built \in Nat /\ MaxClients \in Nat /\ built' \in Nat /\ built <= built' /\ built' \in 0..built'
      /\ 1..built \subseteq 1..built' /\ 0..built \subseteq 0..built'
      /\ built' \in 0..MaxClients /\ built' \notin 0..built /\ "service" \in Origins
  BY <1>1, IntegrationAssumption DEF TypeInv, TypeOK, Origins
<1>3. /\ imports' \in [Origins -> [client : 0..built', finds : Litres]]
      /\ covered' \in Litres /\ recorded' \in Litres /\ failures' \in 0..MaxFailures
      /\ imports'["service"].client = built'
  BY <1>1, <1>2, BeginsKeepsType DEF TypeInv
<1>4. TypeOK'
  BY <1>1, <1>2, <1>3 DEF TypeInv, TypeOK
<1>5. HoldInv'
  BY <1>1, <1>2, <1>3 DEF TypeInv, TypeOK, HoldInv
<1> QED
  BY <1>4, <1>5 DEF TypeInv

LEMMA UnloadKeepsType ==
    ASSUME Inv, TypeInv, UnloadPlatforms \/ CloseClient \/ RunUnloadCallbacks
    PROVE  TypeInv'
<1>1. CASE UnloadPlatforms
  <2>1. /\ state = "loaded" /\ state' = "closing"
        /\ UNCHANGED <<started, built, client, opened, leaked, waiting, tracked, polling, scheduled,
                       answers, marker, imports, recorded, failures, covered, contract, meter>>
    BY <1>1 DEF UnloadPlatforms, callVars, importVars, portalVars
  <2> QED
    BY <2>1 DEF TypeInv, TypeOK, HoldInv, States
<1>2. CASE CloseClient
  <2>1. /\ state' = "closed" /\ opened' = opened \ {client}
        /\ UNCHANGED <<started, built, client, leaked, waiting, tracked, polling, scheduled,
                       answers, marker, imports, recorded, failures, covered, contract, meter>>
    BY <1>2 DEF CloseClient, callVars, importVars, portalVars
  <2>2. leaked \subseteq opened'
    BY <2>1 DEF TypeInv, TypeOK, HoldInv
  <2> QED
    BY <2>1, <2>2 DEF TypeInv, TypeOK, HoldInv, States
<1>3. CASE RunUnloadCallbacks
  <2>1. /\ state' = "none" /\ client' = 0 /\ tracked' = tracked \ {client}
        /\ polling' = FALSE /\ scheduled' = FALSE /\ answers' = NoAnswers /\ marker' = None /\ covered' = 0
        /\ UNCHANGED <<started, built, opened, leaked, waiting, imports, recorded, failures, contract, meter>>
    BY <1>3 DEF RunUnloadCallbacks, Untracked, portalVars
  <2>2. NoAnswers \in [meter : Litres, served : Services] /\ 0 \in Litres
    BY IntegrationAssumption DEF NoAnswers, Bare, Services, Litres
  <2>3. built \in Nat /\ leaked \subseteq 1..built /\ 0 \notin 1..built
    BY DEF TypeInv, TypeOK
  <2> HIDE DEF NoAnswers
  <2>4. TypeOK'
    <3>1. state' \in States /\ marker' \in Litres \cup {None} /\ covered' \in Litres
      BY <2>1, <2>2 DEF States
    <3>2. client' \in 0..built' /\ tracked' \subseteq 1..built'
      BY <2>1, <2>3 DEF TypeInv, TypeOK
    <3>3. answers' \in [meter : Litres, served : Services]
      BY <2>1, <2>2
    <3>4. polling' \in BOOLEAN /\ scheduled' \in BOOLEAN
      BY <2>1
    <3>5. /\ started' \in BOOLEAN /\ built' \in 0..MaxClients
          /\ opened' \subseteq 1..built' /\ leaked' \subseteq opened' /\ waiting' \subseteq 1..built'
          /\ imports' \in [Origins -> [client : 0..built', finds : Litres]]
          /\ recorded' \in Litres /\ failures' \in 0..MaxFailures
          /\ contract' \in Contracts /\ meter' \in Litres
      BY <2>1 DEF TypeInv, TypeOK
    <3> QED
      BY <3>1, <3>2, <3>3, <3>4, <3>5 DEF TypeOK
  <2>5. HoldInv'
    BY <2>1, <2>3 DEF TypeInv, HoldInv
  <2> QED
    BY <2>4, <2>5 DEF TypeInv
<1> QED
  BY <1>1, <1>2, <1>3

LEMMA NextKeepsType == Inv /\ TypeInv /\ [Next]_vars => TypeInv'
<1> SUFFICES ASSUME Inv, TypeInv, [Next]_vars PROVE TypeInv'
  OBVIOUS
<1>1. CASE HomeAssistantStarts \/ PollStarts \/ PollFails \/ Refresh \/ UNCHANGED vars
  <2>1. /\ UNCHANGED <<state, built, client, opened, leaked, waiting, tracked, answers, marker,
                       imports, recorded, failures, covered, contract, meter>>
        /\ started' \in BOOLEAN /\ polling' \in BOOLEAN /\ scheduled' \in BOOLEAN
    BY <1>1 DEF HomeAssistantStarts, PollStarts, PollFails, Refresh, vars, entryVars, callVars,
       importVars, portalVars, TypeInv, TypeOK
  <2> QED
    BY <2>1 DEF TypeInv, TypeOK, HoldInv
<1>2. CASE MeterRead
  <2>1. /\ UNCHANGED <<state, started, built, client, opened, leaked, waiting, tracked, polling, scheduled,
                       answers, marker, imports, recorded, failures, covered, contract>>
        /\ meter < MaxLitres /\ meter' = meter + 1
    BY <1>2 DEF MeterRead, entryVars, callVars, importVars
  <2>2. meter' \in Litres
    BY <2>1, IntegrationAssumption DEF TypeInv, TypeOK, Litres
  <2> QED
    BY <2>1, <2>2 DEF TypeInv, TypeOK, HoldInv
<1> QED
  BY <1>1, <1>2, SetupKeepsType, LoadedKeepsType, ImportsKeepType, OverKeepsType, ReimportKeepsType,
     UnloadKeepsType DEF Next

LEMMA InitType == Init => TypeInv
<1> SUFFICES ASSUME Init PROVE TypeInv
  OBVIOUS
<1>1. NoAnswers \in [meter : Litres, served : Services] /\ 0 \in Litres /\ FirstLitres \in Litres
  BY IntegrationAssumption DEF NoAnswers, Bare, Services, Litres
<1>2. imports \in [Origins -> [client : 0..built, finds : Litres]] /\ imports["service"].client = 0
  BY <1>1 DEF Init, NoImport, Origins
<1>3. /\ state \in States /\ answers \in [meter : Litres, served : Services]
      /\ marker \in Litres \cup {None} /\ polling \in BOOLEAN /\ scheduled \in BOOLEAN
  BY <1>1 DEF Init, States
<1>4. /\ started \in BOOLEAN /\ built \in 0..MaxClients /\ client \in 0..built
      /\ opened \subseteq 1..built /\ leaked \subseteq opened
      /\ waiting \subseteq 1..built /\ tracked \subseteq 1..built
  BY IntegrationAssumption DEF Init
<1>5. /\ contract \in Contracts /\ meter \in Litres /\ recorded \in Litres /\ covered \in Litres
      /\ failures \in 0..MaxFailures
  BY <1>1, IntegrationAssumption DEF Init
<1>6. TypeOK
  BY <1>2, <1>3, <1>4, <1>5 DEF TypeOK
<1> QED
  BY <1>2, <1>6 DEF Init, TypeInv, HoldInv

LEMMA TypeInvHolds == Spec => []TypeInv
<1>1. Init => TypeInv
  BY InitType
<1>2. Inv /\ TypeInv /\ [Next]_vars => TypeInv'
  BY NextKeepsType
<1> QED
  BY <1>1, <1>2, LifecycleInv, PTL DEF Spec

\* Every index the entry shows, compares and imports is one of its meter, and
\* the clients of failed setups stay open (__init__.py:62-120).
THEOREM IntegrationTypeCorrect == Spec => []TypeOK
<1>1. TypeInv => TypeOK
  BY DEF TypeInv
<1> QED
  BY <1>1, TypeInvHolds, PTL

\* Whatever the portal leaves out of a poll, the data hold the freshest index it
\* offers and a whole last reading, the mobility API's readings included
\* (models.py:71-117, _mobile.py:170-190).
THEOREM FreshestIsShown == Spec => []DataIsFreshest
<1>1. TypeInv => DataIsFreshest
  <2> SUFFICES ASSUME TypeInv PROVE DataIsFreshest
    OBVIOUS
  <2>1. answers \in Answers
    BY DEF TypeInv, TypeOK, Answers, Litres
  <2>2. Index = IF IndexesOffered(answers) = {} THEN None ELSE Max(IndexesOffered(answers))
    BY <2>1, IndexIsFreshest DEF Index
  <2>3. History(answers) # <<>> => DataOf(answers).last = Reading(Billable(answers))
    BY <2>1, LastReadingWhole
  <2> QED
    BY <2>2, <2>3 DEF DataIsFreshest, IndexesOffered
<1> QED
  BY <1>1, TypeInvHolds, PTL

-------------------------------------------------------------------------------
(***************************************************************************)
(* Every index shown is covered by an import.                              *)
(***************************************************************************)

\* The listener compares with the last index it knows of, which may be older
\* than the last poll: one that shows no index leaves it as it is.  Before Home
\* Assistant has started, the import of the setup is what covers it.
ShownInv ==
    /\ state \in {"none", "setup", "retry"} => marker = None /\ ~polling
    /\ covered <= meter
    /\ Index # None => Index = marker
    /\ marker # None => marker <= meter
    /\ started /\ client \notin waiting /\ marker # None => marker <= covered
    /\ ~started /\ state \in {"loaded", "closing", "closed"} => client \in waiting

\* What an import that begins covers is what the meter shows.
LEMMA BeginsCovers ==
    ASSUME TypeOK, ShownInv, NEW o, NEW c, Begins(o, c)
    PROVE  /\ covered \in Int /\ meter \in Int /\ covered <= covered' /\ covered' <= meter
           /\ o # "service" /\ c = client => covered' = meter
BY DEF Begins, TypeOK, ShownInv, Litres

LEMMA SetupKeepsShown ==
    ASSUME TypeInv, ShownInv, Setup \/ FirstRefreshFails
    PROVE  ShownInv'
<1>1. /\ state \in {"none", "retry", "setup"} /\ state' \in {"setup", "retry"}
      /\ UNCHANGED <<marker, polling, covered, meter, answers, started, waiting>>
  BY DEF Setup, FirstRefreshFails, callVars, importVars, portalVars
<1> QED
  BY <1>1 DEF ShownInv, Index

LEMMA LoadedKeepsShown ==
    ASSUME Inv, TypeInv, ShownInv, NEW served \in Served, FirstRefreshOk(served) \/ PollOk(served)
    PROVE  ShownInv'
<1> DEFINE a == [meter |-> meter, served |-> served]
<1>1. IndexOf(a) = None \/ IndexOf(a) \in 0..meter
  BY ShownIndex DEF TypeInv
<1>2. meter \in Int /\ covered \in Int /\ marker \in Int \cup {None}
  BY DEF TypeInv, TypeOK, Litres
<1>3. CASE FirstRefreshOk(served)
  <2>1. /\ state = "setup" /\ state' = "loaded" /\ answers' = a /\ marker' = IndexOf(a)
        /\ InitialImport
        /\ UNCHANGED <<started, client, polling, meter>>
    BY <1>3 DEF FirstRefreshOk, portalVars
  <2>2. Index' = IndexOf(a)
    BY <2>1 DEF Index
  <2> HIDE DEF a
  <2>3. CASE started
    <3>1. covered' = meter
      BY <2>1, <2>3, BeginsCovers DEF InitialImport, TypeInv
    <3> QED
      BY <1>1, <1>2, <2>1, <2>2, <2>3, <3>1 DEF ShownInv
  <2>4. CASE ~started
    <3>1. covered' = covered /\ client' \in waiting'
      BY <2>1, <2>4 DEF InitialImport, BeginsNone, importVars
    <3> QED
      BY <1>1, <1>2, <2>1, <2>2, <2>4, <3>1 DEF ShownInv
  <2> QED
    BY <2>3, <2>4
<1>4. CASE PollOk(served)
  <2>1. /\ polling /\ client \in opened /\ polling' = FALSE /\ answers' = a
        /\ \/ marker' = IndexOf(a) /\ IndexOf(a) # None /\ Begins("listener", client)
           \/ marker' = marker /\ UNCHANGED covered /\ (IndexOf(a) = None \/ IndexOf(a) = marker)
        /\ UNCHANGED <<state, started, client, waiting, meter>>
    BY <1>4 DEF PollOk, NewIndex, BeginsNone, entryVars, portalVars, importVars
  <2>2. Index' = IndexOf(a)
    BY <2>1 DEF Index
  <2>3. state \notin {"none", "setup", "retry"}
    BY <2>1 DEF ShownInv
  <2> HIDE DEF a
  <2>4. CASE marker' = IndexOf(a) /\ IndexOf(a) # None /\ Begins("listener", client)
    <3>1. covered' = meter
      BY <2>4, BeginsCovers DEF TypeInv
    <3> QED
      BY <1>1, <1>2, <2>1, <2>2, <2>3, <2>4, <3>1 DEF ShownInv
  <2>5. CASE marker' = marker /\ UNCHANGED covered /\ (IndexOf(a) = None \/ IndexOf(a) = marker)
    BY <2>1, <2>2, <2>3, <2>5 DEF ShownInv
  <2> QED
    BY <2>1, <2>4, <2>5
<1> QED
  BY <1>3, <1>4

LEMMA ImportsKeepShown ==
    ASSUME TypeInv, ShownInv
    PROVE  /\ \A c \in Clients : StartedFires(c) \/ TimerFires(c) => ShownInv'
           /\ Reimport => ShownInv'
<1>1. meter \in Int /\ covered \in Int /\ marker \in Int \cup {None}
  BY DEF TypeInv, TypeOK, Litres
<1>2. ASSUME NEW c \in Clients, StartedFires(c) PROVE ShownInv'
  <2>1. /\ started /\ c \in waiting /\ waiting' = waiting \ {c} /\ Begins("setup", c)
        /\ UNCHANGED <<state, started, client, marker, polling, answers, meter>>
    BY <1>2 DEF StartedFires, entryVars, portalVars
  <2>2. covered <= covered' /\ covered' <= meter /\ (c = client => covered' = meter) /\ covered' \in Int
    BY <1>1, <2>1, BeginsCovers DEF TypeInv, Begins
  <2> QED
    BY <1>1, <2>1, <2>2 DEF ShownInv, Index
<1>3. ASSUME NEW c \in Clients, TimerFires(c) PROVE ShownInv'
  <2>1. /\ Begins("timer", c)
        /\ UNCHANGED <<state, started, client, waiting, marker, polling, answers, meter>>
    BY <1>3 DEF TimerFires, entryVars, callVars, portalVars
  <2>2. covered <= covered' /\ covered' <= meter /\ covered' \in Int
    BY <1>1, <2>1, BeginsCovers DEF TypeInv, Begins
  <2> QED
    BY <1>1, <2>1, <2>2 DEF ShownInv, Index
<1>4. ASSUME Reimport PROVE ShownInv'
  <2>1. /\ Begins("service", built')
        /\ UNCHANGED <<state, started, client, waiting, marker, polling, answers, meter>>
    BY <1>4 DEF Reimport, callVars, portalVars
  <2>2. covered <= covered' /\ covered' <= meter /\ covered' \in Int
    BY <1>1, <2>1, BeginsCovers DEF TypeInv, Begins
  <2> QED
    BY <1>1, <2>1, <2>2 DEF ShownInv, Index
<1> QED
  BY <1>2, <1>3, <1>4

LEMMA UnloadKeepsShown ==
    ASSUME TypeInv, ShownInv, UnloadPlatforms \/ CloseClient \/ RunUnloadCallbacks
    PROVE  ShownInv'
<1>1. CASE UnloadPlatforms \/ CloseClient
  <2>1. /\ state \in {"loaded", "closing"} /\ state' \in {"closing", "closed"}
        /\ UNCHANGED <<started, client, waiting, marker, polling, answers, covered, meter>>
    BY <1>1 DEF UnloadPlatforms, CloseClient, callVars, importVars, portalVars
  <2> QED
    BY <2>1 DEF ShownInv, Index
<1>2. CASE RunUnloadCallbacks
  <2>1. /\ state' = "none" /\ polling' = FALSE /\ answers' = NoAnswers /\ marker' = None /\ covered' = 0
        /\ meter' = meter
    BY <1>2 DEF RunUnloadCallbacks, portalVars
  <2>2. Index' = None
    BY <2>1, NothingShown DEF Index
  <2>3. 0 <= meter
    BY DEF TypeInv, TypeOK, Litres
  <2> QED
    BY <2>1, <2>2, <2>3 DEF ShownInv
<1> QED
  BY <1>1, <1>2

LEMMA NextKeepsShown == Inv /\ TypeInv /\ ShownInv /\ [Next]_vars => ShownInv'
<1> SUFFICES ASSUME Inv, TypeInv, ShownInv, [Next]_vars PROVE ShownInv'
  OBVIOUS
<1>1. meter \in Int /\ covered \in Int /\ marker \in Int \cup {None}
  BY DEF TypeInv, TypeOK, Litres
<1>2. CASE HomeAssistantStarts
  <2>1. /\ ~started /\ started' = TRUE
        /\ UNCHANGED <<state, client, waiting, marker, polling, answers, covered, meter>>
    BY <1>2 DEF HomeAssistantStarts, callVars, importVars, portalVars
  <2>2. state \in States
    BY DEF TypeInv, TypeOK
  <2> QED
    BY <2>1, <2>2 DEF ShownInv, Index, States
<1>3. CASE \/ PollStarts \/ PollFails \/ Refresh \/ UNCHANGED vars
           \/ \E o \in Origins : ImportEnds(o) \/ ImportFails(o)
  <2>1. /\ polling' = polling \/ polling' = FALSE \/ state = "loaded"
        /\ UNCHANGED <<state, started, client, waiting, marker, answers, covered, meter>>
    BY <1>3 DEF PollStarts, PollFails, Refresh, ImportEnds, ImportFails, UnchangedEntry, vars, entryVars,
       callVars, importVars, portalVars
  <2> QED
    BY <2>1 DEF ShownInv, Index
<1>4. CASE MeterRead
  <2>1. /\ meter' = meter + 1
        /\ UNCHANGED <<state, started, client, waiting, marker, polling, answers, covered>>
    BY <1>4 DEF MeterRead, entryVars, callVars, importVars
  <2> QED
    BY <1>1, <2>1 DEF ShownInv, Index
<1> QED
  BY <1>2, <1>3, <1>4, SetupKeepsShown, LoadedKeepsShown, ImportsKeepShown, UnloadKeepsShown DEF Next

LEMMA InitShown == Init => ShownInv
<1> SUFFICES ASSUME Init PROVE ShownInv
  OBVIOUS
<1>1. /\ state = "none" /\ polling = FALSE /\ marker = None /\ covered = 0 /\ answers = NoAnswers
      /\ meter = FirstLitres
  BY DEF Init
<1>2. Index = None
  BY <1>1, NothingShown DEF Index
<1>3. 0 <= FirstLitres
  BY IntegrationAssumption
<1> QED
  BY <1>1, <1>2, <1>3 DEF ShownInv

\* The sensors of a loaded entry never show an index that no import of the entry
\* set out to cover, in any order of polls, imports, reloads and the start of
\* Home Assistant (__init__.py:81-110).
THEOREM ShownIsCovered == Spec => []IndexCovered
<1>1. Init => ShownInv
  BY InitShown
<1>2. Inv /\ TypeInv /\ ShownInv /\ [Next]_vars => ShownInv'
  BY NextKeepsShown
<1>3. ShownInv => IndexCovered
  BY DEF ShownInv, IndexCovered
<1> QED
  BY <1>1, <1>2, <1>3, LifecycleInv, TypeInvHolds, PTL DEF Spec

-------------------------------------------------------------------------------
(***************************************************************************)
(* The index falls only with the daily series.                             *)
(***************************************************************************)

\* A bill is made from whole m3: it does not fall while the meter rises.
LEMMA BillsAscend ==
    ASSUME NEW m \in Nat, NEW n \in Nat, m <= n
    PROVE  (m \div LitresPerM3) * LitresPerM3 <= (n \div LitresPerM3) * LitresPerM3
<1> DEFINE p == m \div LitresPerM3
           q == n \div LitresPerM3
<1>1. LitresPerM3 \in Nat /\ LitresPerM3 > 0 /\ p \in Nat /\ q \in Nat
  BY ReadingsAssumption
<1>2. p * LitresPerM3 <= m /\ n < q * LitresPerM3 + LitresPerM3
  BY ReadingsAssumption
<1> HIDE DEF p, q
<1>3. CASE p <= q
  BY <1>1, <1>3 DEF p, q
<1>4. CASE q + 1 <= p
  <2>1. (q + 1) * LitresPerM3 <= p * LitresPerM3
    BY <1>1, <1>4
  <2>2. (q + 1) * LitresPerM3 = q * LitresPerM3 + LitresPerM3
    BY <1>1
  <2> QED
    BY <1>1, <1>2, <2>1, <2>2
<1> QED
  BY <1>1, <1>3, <1>4

\* Where the index of a poll comes from.
LEMMA IndexSource ==
    ASSUME NEW a \in Answers
    PROVE  IndexOf(a) =
             IF a.served.daily # "none" THEN a.meter
             ELSE IF a.served.monthly THEN Before(a.meter)
             ELSE IF a.served.billing # "none" THEN Billable(a) * LitresPerM3
             ELSE None
<1> DEFINE daily == LatestByDate(Daily(a)).index
           month == IF Monthly(a) = <<>> THEN Empty ELSE Last(Monthly(a))
           billed == DataOf(a).last.index
<1>1. IndexOf(a) = Precise(daily, month.index, billed)
  BY DEF IndexOf, DataOf, FromApiResponses
<1>2. /\ None \notin Int /\ a.meter \in Nat
      /\ Before(a.meter) \in Nat /\ Billable(a) \in Nat
  BY ReadingsAssumption, BillableBounds DEF Answers
<1>3. daily = IF a.served.daily # "none" THEN a.meter ELSE None
  BY DailyIndex
<1>4. month.index = IF a.served.monthly THEN Before(a.meter) ELSE None
  BY MonthIndex DEF Empty
<1>5. billed = IF a.served.billing # "none" THEN Billable(a) ELSE None
  <2>1. Empty.index = None /\ Reading(Billable(a)).index = Billable(a)
    BY DEF Empty, Reading
  <2>2. CASE a.served.billing = "none"
    BY <2>1, <2>2, LastReadingWhole
  <2>3. CASE a.served.billing # "none"
    BY <2>1, <2>3, LastReadingWhole
  <2> QED
    BY <2>2, <2>3
<1> HIDE DEF daily, month, billed
<1> QED
  BY <1>1, <1>2, <1>3, <1>4, <1>5 DEF Precise

\* Of two polls that are served alike, the later one shows no smaller index.
LEMMA IndexAscends ==
    ASSUME NEW a \in Answers, NEW b \in Answers, a.meter <= b.meter,
           a.served.billing = b.served.billing, a.served.monthly = b.served.monthly,
           a.served.daily = "none" \/ b.served.daily # "none",
           IndexOf(a) # None, IndexOf(b) # None
    PROVE  IndexOf(a) <= IndexOf(b)
<1>1. /\ a.meter \in Nat /\ b.meter \in Nat
      /\ Before(a.meter) \in Nat /\ Before(b.meter) \in Nat
      /\ Before(a.meter) <= a.meter
  BY BillableBounds DEF Answers
<1>2. Before(a.meter) <= Before(b.meter)
  BY <1>1 DEF Before
<1>3. Billable(a) * LitresPerM3 <= Billable(b) * LitresPerM3
  BY <1>1, <1>2, BillsAscend DEF Billable
<1>4. CASE b.served.daily # "none"
  <2>1. IndexOf(a) \in 0..a.meter
    BY IndexIsFreshest
  <2> QED
    BY <1>1, <1>4, <2>1, IndexSource
<1>5. CASE a.served.daily = "none" /\ b.served.daily = "none"
  BY <1>2, <1>3, <1>5, IndexSource
<1> QED
  BY <1>4, <1>5

\* What the last poll was served is the contract's, at a meter that has risen.
SourceInv ==
    answers = NoAnswers \/ (answers.meter <= meter /\ answers.served \in Served)

\* A step leaves the answers, takes them from the contract or forgets them.
LEMMA AnswersMove ==
    ASSUME TypeInv, [Next]_vars
    PROVE  /\ contract' = contract /\ meter \in Nat /\ meter' \in Nat /\ meter <= meter'
           /\ \/ UNCHANGED answers
              \/ answers' = NoAnswers
              \/ \E served \in Served : answers' = [meter |-> meter, served |-> served]
<1>1. meter \in Nat
  BY IntegrationAssumption DEF TypeInv, TypeOK, Litres
<1>2. ASSUME NEW served \in Served, FirstRefreshOk(served) \/ PollOk(served)
      PROVE  /\ UNCHANGED <<contract, meter>>
             /\ answers' = [meter |-> meter, served |-> served]
  BY <1>2 DEF FirstRefreshOk, PollOk, portalVars
<1>3. CASE RunUnloadCallbacks
  BY <1>1, <1>3 DEF RunUnloadCallbacks, portalVars
<1>4. CASE MeterRead
  BY <1>1, <1>4 DEF MeterRead, callVars
<1>5. ASSUME \/ Setup \/ FirstRefreshFails \/ HomeAssistantStarts
             \/ PollStarts \/ PollFails \/ Refresh \/ Reimport
             \/ UnloadPlatforms \/ CloseClient
             \/ \E c \in Clients : StartedFires(c) \/ TimerFires(c)
             \/ \E o \in Origins : ImportEnds(o) \/ ImportFails(o)
             \/ UNCHANGED vars
      PROVE  UNCHANGED <<answers, contract, meter>>
  BY <1>5 DEF Setup, FirstRefreshFails, HomeAssistantStarts, PollStarts, PollFails, Refresh, Reimport,
     UnloadPlatforms, CloseClient, StartedFires, TimerFires, ImportEnds, ImportFails, vars,
     callVars, portalVars
<1> QED
  BY <1>1, <1>2, <1>3, <1>4, <1>5 DEF Next

LEMMA NextKeepsSource == TypeInv /\ SourceInv /\ [Next]_vars => SourceInv'
<1> SUFFICES ASSUME TypeInv, SourceInv, [Next]_vars PROVE SourceInv'
  OBVIOUS
<1>1. /\ Served' = Served /\ meter \in Nat /\ meter' \in Nat /\ meter <= meter'
      /\ \/ UNCHANGED answers
         \/ answers' = NoAnswers
         \/ \E served \in Served : answers' = [meter |-> meter, served |-> served]
  BY AnswersMove DEF Served
<1>2. answers.meter \in Nat
  BY IntegrationAssumption DEF TypeInv, TypeOK, Litres
<1>3. CASE UNCHANGED answers
  BY <1>1, <1>2, <1>3 DEF SourceInv
<1>4. CASE answers' = NoAnswers
  BY <1>4 DEF SourceInv
<1>5. CASE \E served \in Served : answers' = [meter |-> meter, served |-> served]
  BY <1>1, <1>5 DEF SourceInv
<1> QED
  BY <1>1, <1>3, <1>4, <1>5

\* A poll that shows less than the poll before it lacks the daily series that
\* the other one had.
LEMMA NextFallsWithDaily ==
    ASSUME TypeInv, SourceInv, [Next]_vars, Index # None, Index' # None, Index' < Index
    PROVE  Daily(answers) # <<>> /\ Daily(answers') = <<>>
<1>1. answers \in Answers /\ None \notin Int
  BY IntegrationAssumption, ReadingsAssumption DEF TypeInv, TypeOK, Answers, Litres
<1>2. Index = IndexOf(answers) /\ Index' = IndexOf(answers') /\ Index \in Nat
  <2>1. answers.meter \in Nat /\ IndexOf(answers) \in 0..answers.meter
    BY <1>1, IndexIsFreshest DEF Index, Answers
  <2> QED
    BY <2>1 DEF Index
<1>3. answers # NoAnswers /\ answers' # NoAnswers /\ answers' # answers
  BY <1>2, NothingShown
<1>4. PICK served \in Served : answers' = [meter |-> meter, served |-> served]
  BY <1>3, AnswersMove
<1>5. /\ answers' \in Answers /\ answers.meter <= answers'.meter
      /\ answers.served \in Served /\ answers'.served \in Served
  BY <1>3, <1>4, ServedIsService DEF SourceInv, TypeInv
<1>6. /\ answers.served.billing = answers'.served.billing
      /\ answers.served.monthly = answers'.served.monthly
  <2>1. contract \in Services
    BY IntegrationAssumption DEF TypeInv, TypeOK
  <2>2. \A one \in Served : one.billing = contract.billing /\ one.monthly = contract.monthly
    BY <2>1 DEF Served, Services
  <2> QED
    BY <1>5, <2>2
<1>7. answers.served.daily # "none" /\ answers'.served.daily = "none"
  <2> SUFFICES ASSUME answers.served.daily = "none" \/ answers'.served.daily # "none"
               PROVE  FALSE
    OBVIOUS
  <2>1. PICK b \in Answers : b = answers'
    BY <1>5
  <2>2. IndexOf(answers) <= IndexOf(b) /\ IndexOf(b) \in 0..b.meter /\ b.meter \in Nat
    BY <1>1, <1>2, <1>5, <1>6, <2>1, IndexAscends, IndexIsFreshest DEF Answers
  <2> QED
    BY <1>2, <2>1, <2>2
<1>8. Daily(answers) # <<>>
  <2>1. {e.index : e \in Range(Daily(answers))} = {0, answers.meter}
    BY <1>1, <1>7, DailyIndex
  <2> QED
    BY <2>1 DEF Range
<1>9. Daily(answers') = <<>>
  BY <1>5, <1>7, DailyIndex
<1> QED
  BY <1>8, <1>9

\* The index of the sensors falls only with the daily series, for any contracts
\* and any meter (models.py:85-106).
THEOREM OnlyTheSourceLowersTheIndex == Spec => IndexFallsWithDaily
<1>1. Init => SourceInv
  BY DEF Init, SourceInv
<1>2. TypeInv /\ SourceInv /\ [Next]_vars => SourceInv'
  BY NextKeepsSource
<1>3. TypeInv /\ SourceInv /\ [Next]_vars =>
        [answers # answers' /\ Index # None /\ Index' # None /\ Index' < Index =>
            Daily(answers) # <<>> /\ Daily(answers') = <<>>]_vars
  BY NextFallsWithDaily
<1> QED
  BY <1>1, <1>2, <1>3, TypeInvHolds, PTL DEF Spec, IndexFallsWithDaily
===============================================================================
