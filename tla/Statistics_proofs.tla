--------------------------- MODULE Statistics_proofs ---------------------------
(***************************************************************************)
(* Safety of Statistics for any importers, series, years and readings:     *)
(*   - the running sum is what the loop of _collect_series makes of it,    *)
(*     a number that never falls (SumUpToRecursion, SumUpToAscends);       *)
(*   - a closed year is cached as the portal serves it for ever, but for   *)
(*     the answers that a New Year overtook (CacheInv): every other one    *)
(*     was captured once its year was closed (AnswerInv);                  *)
(*   - an import that runs alone and undisturbed has collected the         *)
(*     portal's readings up to the year it asks for and has stored the     *)
(*     series before the one it collects (CollectedInv), so that it ends   *)
(*     with every point of every series exact, unless it read the cache    *)
(*     and a New Year had frozen an answer there.                          *)
(***************************************************************************)
EXTENDS Statistics, WellFoundedInduction, TLAPS

-------------------------------------------------------------------------------
(***************************************************************************)
(* Numbers.                                                                *)
(***************************************************************************)

\* Every set of naturals has a least element, which stands in for induction.
LEMMA LeastNatural ==
    ASSUME NEW T, T \subseteq Nat, T # {}
    PROVE  \E x \in T : \A y \in T : x <= y
<1> DEFINE R == OpToRel(<, Nat)
<1>1. \E x \in T : \A y \in T : <<y, x>> \notin R
    <2> HIDE DEF R
    <2>1. IsWellFoundedOn(R, Nat)
        BY NatLessThanWellFounded DEF R
    <2> QED
        BY <2>1, WFMin
<1>2. \A x, y \in Nat : <<y, x>> \notin R => x <= y
    BY DEF OpToRel
<1> QED
    BY <1>1, <1>2

LEMMA MinIsLeast ==
    ASSUME NEW T, T \subseteq Nat, T # {}
    PROVE  Min(T) \in T /\ \A y \in T : Min(T) <= y
BY LeastNatural DEF Min

\* The years are numbers, and those up to another one are years as well.
LEMMA YearsAreNaturals ==
    /\ FirstYear \in Years /\ LastYear \in Years /\ Years \subseteq Nat
    /\ \A y \in Years : FirstYear <= y /\ y <= LastYear
    /\ \A y \in Nat : FirstYear <= y /\ y <= LastYear => y \in Years
BY StatisticsAssumption DEF Years

\* The years the loop may ask for next are years.
LEMMA YearsBetween ==
    ASSUME NEW y \in Years, NEW h \in Years, y < h
    PROVE  y + 1 \in Years /\ \A next \in (y + 1)..h : next \in Years
<1>1. y \in Nat /\ h \in Nat /\ FirstYear \in Nat /\ FirstYear <= y /\ h <= LastYear /\ LastYear \in Nat
    BY YearsAreNaturals
<1>2. y + 1 \in Nat /\ FirstYear <= y + 1 /\ y + 1 <= LastYear
    BY <1>1
<1>3. ASSUME NEW next \in (y + 1)..h PROVE next \in Nat /\ FirstYear <= next /\ next <= LastYear
    BY <1>1
<1> QED
    BY <1>2, <1>3, YearsAreNaturals

\* A loop over the years has a result: the running sum exists.
LEMMA RunningSumExists ==
    ASSUME NEW readings \in [Years -> Nat]
    PROVE  \E sum \in [Years -> Nat] :
              sum = [z \in Years |-> readings[z] + (IF z = FirstYear THEN 0 ELSE sum[z - 1])]
<1> DEFINE Sums(f, n) ==
        /\ f \in [FirstYear..n -> Nat]
        /\ \A z \in FirstYear..n : f[z] = readings[z] + (IF z = FirstYear THEN 0 ELSE f[z - 1])
<1>1. \A n \in Years : \E f : Sums(f, n)
    <2> DEFINE T == {n \in Years : ~ \E f : Sums(f, n)}
    <2> SUFFICES ASSUME T # {} PROVE FALSE
        OBVIOUS
    <2>1. PICK n \in T : \A m \in T : n <= m
        BY LeastNatural, YearsAreNaturals
    <2>2. n \in Years /\ n \in Nat /\ FirstYear \in Nat /\ FirstYear <= n
        BY YearsAreNaturals
    <2>3. CASE n = FirstYear
        <3>1. Sums([z \in FirstYear..n |-> readings[z]], n)
            BY <2>2, <2>3
        <3> QED
            BY <3>1
    <2>4. CASE n # FirstYear
        <3>1. n - 1 \in Years /\ n - 1 \notin T
            <4>1. n - 1 \in Years /\ ~(n <= n - 1)
                BY <2>2, <2>4, YearsAreNaturals
            <4> HIDE DEF T
            <4> QED
                BY <2>1, <4>1
        <3>2. PICK f : Sums(f, n - 1)
            BY <3>1
        <3> DEFINE g == [z \in FirstYear..n |-> IF z = n THEN readings[n] + f[n - 1] ELSE f[z]]
        <3>3. g \in [FirstYear..n -> Nat]
            BY <2>2, <2>4, <3>2
        <3>4. ASSUME NEW z \in FirstYear..n
              PROVE  g[z] = readings[z] + (IF z = FirstYear THEN 0 ELSE g[z - 1])
            <4>1. CASE z = n
                <5>1. g[z - 1] = f[n - 1] /\ z # FirstYear
                    BY <2>2, <2>4, <4>1
                <5> QED
                    BY <2>2, <4>1, <5>1
            <4>2. CASE z # n
                <5>1. z \in FirstYear..(n - 1) /\ g[z] = f[z]
                    BY <2>2, <4>2
                <5>2. z # FirstYear => g[z - 1] = f[z - 1]
                    BY <2>2, <5>1
                <5> QED
                    BY <3>2, <5>1, <5>2
            <4> QED
                BY <4>1, <4>2
        <3>5. Sums(g, n)
            BY <3>3, <3>4
        <3> QED
            BY <3>5
    <2> QED
        BY <2>3, <2>4
<1>2. PICK f : Sums(f, LastYear)
    BY <1>1, YearsAreNaturals
<1>3. f \in [Years -> Nat]
    BY <1>2 DEF Years
<1>4. f = [z \in Years |-> readings[z] + (IF z = FirstYear THEN 0 ELSE f[z - 1])]
    BY <1>2, <1>3 DEF Years
<1> QED
    BY <1>3, <1>4

\* SumUpTo adds the reading of a year to the sum of the year before
\* (_entry_to_stat, statistics.py:190-212).
LEMMA SumUpToRecursion ==
    ASSUME NEW readings \in [Years -> Nat], NEW y \in Years
    PROVE  /\ SumUpTo(readings, y) \in Nat
           /\ SumUpTo(readings, y) =
                readings[y] + (IF y = FirstYear THEN 0 ELSE SumUpTo(readings, y - 1))
<1> DEFINE Sums(f) == f = [z \in Years |-> readings[z] + (IF z = FirstYear THEN 0 ELSE f[z - 1])]
           sum == CHOOSE f : Sums(f)
<1>1. Sums(sum)
    BY RunningSumExists
<1>2. \A z \in Years : SumUpTo(readings, z) = sum[z]
    BY DEF SumUpTo
<1> HIDE DEF sum
<1>3. \A z \in Years : sum[z] = readings[z] + (IF z = FirstYear THEN 0 ELSE sum[z - 1])
    BY <1>1
<1>4. \A z \in Years : sum[z] \in Nat
    <2> DEFINE T == {z \in Years : sum[z] \notin Nat}
    <2> SUFFICES ASSUME T # {} PROVE FALSE
        OBVIOUS
    <2>1. PICK n \in T : \A m \in T : n <= m
        BY LeastNatural, YearsAreNaturals
    <2>2. n # FirstYear => n - 1 \in Years /\ n - 1 \notin T
        BY <2>1, YearsAreNaturals
    <2> QED
        BY <1>3, <2>2
<1>5. y # FirstYear => y - 1 \in Years
    BY YearsAreNaturals
<1> QED
    BY <1>2, <1>3, <1>4, <1>5

\* The sum never falls from a year to a later one (statistics.py:134-138).
LEMMA SumUpToAscends ==
    ASSUME NEW readings \in [Years -> Nat], NEW y \in Years, NEW z \in Years, y <= z
    PROVE  SumUpTo(readings, y) <= SumUpTo(readings, z)
<1> DEFINE T == {x \in Years : y <= x /\ ~(SumUpTo(readings, y) <= SumUpTo(readings, x))}
<1> SUFFICES ASSUME T # {} PROVE FALSE
    OBVIOUS
<1>1. PICK n \in T : \A m \in T : n <= m
    BY LeastNatural, YearsAreNaturals
<1>2. n \in Years /\ y <= n /\ n # y /\ y \in Nat /\ n \in Nat /\ FirstYear <= y
    BY SumUpToRecursion, YearsAreNaturals
<1>3. n - 1 \in Years /\ y <= n - 1 /\ n # FirstYear
    BY <1>2, YearsAreNaturals
<1>4. SumUpTo(readings, y) <= SumUpTo(readings, n - 1)
    <2>1. n - 1 \notin T
        <3> HIDE DEF T
        <3> QED
            BY <1>1, <1>2
    <2> QED
        BY <1>3, <2>1
<1>5. SumUpTo(readings, n) = readings[n] + SumUpTo(readings, n - 1) /\ readings[n] \in Nat
    BY <1>2, <1>3, SumUpToRecursion
<1>6. /\ SumUpTo(readings, y) \in Nat /\ SumUpTo(readings, n) \in Nat
      /\ SumUpTo(readings, n - 1) \in Nat
    BY <1>2, <1>3, SumUpToRecursion
<1> QED
    BY <1>4, <1>5, <1>6

-------------------------------------------------------------------------------
(***************************************************************************)
(* The steps of the loop.                                                  *)
(***************************************************************************)

\* The loop has taken the years from `from` from the cache, up to the year
\* `next` that it asks for.
Asks(i, s, from, next, collected) ==
    /\ \A y \in from..(next - 1) : Cached(i, s, y)
    /\ pc' = [pc EXCEPT ![i] = "fetch"]
    /\ year' = [year EXCEPT ![i] = next]
    /\ got' = [got EXCEPT ![i] =
                  [y \in Years |-> IF y \in from..(next - 1) THEN cache[s][y] ELSE collected[y]]]
    /\ answer' = [answer EXCEPT ![i] = portal[next]]
    /\ overtaken' = overtaken \ {i}

LEMMA FetchFromAsks ==
    ASSUME NEW i, NEW s, NEW from \in Years, NEW until \in Years, NEW collected,
           from <= until, FetchFrom(i, s, from, until, collected)
    PROVE  \E next \in from..until : Asks(i, s, from, next, collected)
<1> DEFINE T == {y \in from..until : y = until \/ ~Cached(i, s, y)}
           next == Min(T)
<1>1. T \subseteq Nat /\ T # {}
    BY YearsAreNaturals
<1>2. next \in T /\ \A y \in T : next <= y
    BY <1>1, MinIsLeast
<1>3. from \in Nat /\ until \in Nat
    BY YearsAreNaturals
<1>4. FetchFrom(i, s, from, until, collected) =>
        /\ pc' = [pc EXCEPT ![i] = "fetch"]
        /\ year' = [year EXCEPT ![i] = next]
        /\ got' = [got EXCEPT ![i] =
              [y \in Years |-> IF y \in from..(next - 1) THEN cache[s][y] ELSE collected[y]]]
        /\ answer' = [answer EXCEPT ![i] = portal[next]]
        /\ overtaken' = overtaken \ {i}
    BY DEF FetchFrom
<1> HIDE DEF next
<1>5. \A y \in from..(next - 1) : Cached(i, s, y)
    <2> TAKE y \in from..(next - 1)
    <2>1. y \in from..until /\ ~(next <= y)
        BY <1>2, <1>3
    <2> QED
        BY <1>2, <2>1
<1> QED
    BY <1>2, <1>4, <1>5 DEF Asks

\* What collecting a year does: the loop asks for another year of the series,
\* the series is stored and the next one is asked for, or the import succeeds.
LEMMA CollectCases ==
    ASSUME TypeOK, NEW i \in Importers, NEW reading, Collect(i, reading)
    PROVE  LET collected == [got[i] EXCEPT ![year[i]] = reading] IN
           \/ /\ year[i] < horizon[i]
              /\ \E next \in (year[i] + 1)..horizon[i] :
                    Asks(i, Series[at[i]], year[i] + 1, next, collected)
              /\ UNCHANGED <<at, horizon, recorder, issue>>
           \/ /\ ~(year[i] < horizon[i])
              /\ recorder' = Stored(i, collected)
              /\ at[i] < Len(Series)
              /\ at' = [at EXCEPT ![i] = at[i] + 1]
              /\ horizon' = [horizon EXCEPT ![i] = now]
              /\ \E next \in FirstYear..now :
                    Asks(i, Series[at[i] + 1], FirstYear, next, NoYears)
              /\ UNCHANGED issue
           \/ /\ ~(year[i] < horizon[i])
              /\ recorder' = Stored(i, collected)
              /\ ~(at[i] < Len(Series))
              /\ Rests(i) /\ issue' = FALSE
<1> DEFINE collected == [got[i] EXCEPT ![year[i]] = reading]
<1>1. CASE year[i] < horizon[i]
    <2>1. year[i] \in Years /\ horizon[i] \in Years
        BY DEF TypeOK
    <2>2. year[i] + 1 \in Years /\ year[i] + 1 <= horizon[i]
        BY <1>1, <2>1, YearsAreNaturals
    <2>3. /\ FetchFrom(i, Series[at[i]], year[i] + 1, horizon[i], collected)
          /\ UNCHANGED <<at, horizon, recorder, issue>>
        BY <1>1 DEF Collect
    <2> QED
        BY <1>1, <2>1, <2>2, <2>3, FetchFromAsks
<1>2. CASE ~(year[i] < horizon[i]) /\ at[i] < Len(Series)
    <2>1. recorder' = Stored(i, collected) /\ Collects(i, at[i] + 1) /\ UNCHANGED issue
        BY <1>2 DEF Collect
    <2>2. FirstYear \in Years /\ now \in Years /\ FirstYear <= now
        BY YearsAreNaturals DEF TypeOK
    <2>3. \E next \in FirstYear..now : Asks(i, Series[at[i] + 1], FirstYear, next, NoYears)
        BY <2>1, <2>2, FetchFromAsks DEF Collects
    <2> QED
        BY <1>2, <2>1, <2>3 DEF Collects
<1>3. CASE ~(year[i] < horizon[i]) /\ ~(at[i] < Len(Series))
    BY <1>3 DEF Collect, Succeeds
<1> QED
    BY <1>1, <1>2, <1>3

\* An import that gets the recorder asks for the first year that is missing.
LEMMA RecorderReadyAsks ==
    ASSUME TypeOK, NEW i \in Importers, RecorderReady(i)
    PROVE  /\ at' = [at EXCEPT ![i] = 1] /\ horizon' = [horizon EXCEPT ![i] = now]
           /\ \E next \in FirstYear..now : Asks(i, Series[1], FirstYear, next, NoYears)
<1>1. FirstYear \in Years /\ now \in Years /\ FirstYear <= now
    BY YearsAreNaturals DEF TypeOK
<1> QED
    BY <1>1, FetchFromAsks DEF RecorderReady, Collects

-------------------------------------------------------------------------------
(***************************************************************************)
(* Types.                                                                  *)
(***************************************************************************)

LEMMA SeriesType ==
    /\ Len(Series) \in Nat /\ DOMAIN Series = 1..Len(Series) /\ 1 \in DOMAIN Series
    /\ \A n \in DOMAIN Series : Series[n] \in Names
BY StatisticsAssumption DEF Names

LEMMA ReadingsType ==
    /\ Readings \subseteq Nat /\ 0 \in Readings /\ 1 \in Readings
    /\ NoYears \in [Years -> Readings]
    /\ NoPoint \in [state : Readings, sum : Nat]
BY StatisticsAssumption DEF Readings, NoYears, NoPoint

\* What a series is stored as: points of the type of the recorder's.
LEMMA StatType ==
    ASSUME NEW readings \in [Years -> Readings], NEW y \in Years
    PROVE  Stat(readings, y) \in [state : Readings, sum : Nat]
<1>1. readings \in [Years -> Nat]
    BY ReadingsType
<1> QED
    BY <1>1, SumUpToRecursion DEF Stat

LEMMA StoredType ==
    ASSUME TypeOK, NEW i \in Importers, NEW readings \in [Years -> Readings]
    PROVE  Stored(i, readings) \in [Names -> [Years -> [state : Readings, sum : Nat]]]
<1> DEFINE Points == [state : Readings, sum : Nat]
<1>1. Series[at[i]] \in Names
    BY SeriesType DEF TypeOK
<1>2. \A y \in Years : Stat(readings, y) \in Points
    BY StatType
<1>3. recorder \in [Names -> [Years -> Points]]
    BY DEF TypeOK
<1> HIDE DEF Points
<1>4. Upsert(recorder[Series[at[i]]], readings) \in [Years -> Points]
    BY <1>1, <1>2, <1>3 DEF Upsert
<1> QED
    BY <1>1, <1>3, <1>4 DEF Stored, Points

\* An import that asks for a year of a series.
LEMMA AsksType ==
    ASSUME TypeOK, NEW i \in Importers, NEW s \in Names, NEW from \in Years, NEW next \in Years,
           NEW collected \in [Years -> Readings], Asks(i, s, from, next, collected)
    PROVE  /\ pc' \in [Importers -> {"idle", "recorder", "fetch"}]
           /\ year' \in [Importers -> Years]
           /\ got' \in [Importers -> [Years -> Readings]]
           /\ answer' \in [Importers -> Readings]
           /\ overtaken' \subseteq Importers
<1>1. \A y \in Years : cache[s][y] \in Readings /\ collected[y] \in Readings
    BY DEF TypeOK
<1>2. [y \in Years |-> IF y \in from..(next - 1) THEN cache[s][y] ELSE collected[y]]
        \in [Years -> Readings]
    BY <1>1
<1>3. portal[next] \in Readings
    BY DEF TypeOK
<1> QED
    BY <1>2, <1>3 DEF TypeOK, Asks

LEMMA RestsType ==
    ASSUME TypeOK, NEW i \in Importers, Rests(i)
    PROVE  /\ pc' \in [Importers -> {"idle", "recorder", "fetch"}]
           /\ at' \in [Importers -> DOMAIN Series]
           /\ year' \in [Importers -> Years]
           /\ horizon' \in [Importers -> Years]
           /\ got' \in [Importers -> [Years -> Readings]]
           /\ answer' \in [Importers -> Readings]
           /\ overtaken' \subseteq Importers
BY SeriesType, ReadingsType, YearsAreNaturals DEF TypeOK, Rests

\* The state of the imports, and what they share.
ImportsType ==
    /\ pc \in [Importers -> {"idle", "recorder", "fetch"}]
    /\ at \in [Importers -> DOMAIN Series]
    /\ year \in [Importers -> Years]
    /\ horizon \in [Importers -> Years]
    /\ got \in [Importers -> [Years -> Readings]]
    /\ answer \in [Importers -> Readings]
    /\ overtaken \subseteq Importers

SharedType ==
    /\ recorder \in [Names -> [Years -> [state : Readings, sum : Nat]]]
    /\ issue \in BOOLEAN

LEMMA CollectType ==
    ASSUME TypeOK, NEW i \in Importers, NEW reading \in Readings, Collect(i, reading)
    PROVE  ImportsType' /\ SharedType'
<1> DEFINE collected == [got[i] EXCEPT ![year[i]] = reading]
<1>1. /\ collected \in [Years -> Readings] /\ NoYears \in [Years -> Readings]
      /\ year[i] \in Years /\ horizon[i] \in Years /\ now \in Years /\ FirstYear \in Years
      /\ at[i] \in DOMAIN Series
    BY ReadingsType, YearsAreNaturals DEF TypeOK
<1>2. recorder' \in {recorder, Stored(i, collected)}
    BY CollectCases
<1>3. Stored(i, collected) \in [Names -> [Years -> [state : Readings, sum : Nat]]]
    BY <1>1, StoredType
<1>4. SharedType'
    BY <1>2, <1>3, CollectCases DEF TypeOK, SharedType
<1> HIDE DEF collected
<1>5. ASSUME NEW next \in (year[i] + 1)..horizon[i], year[i] < horizon[i],
             Asks(i, Series[at[i]], year[i] + 1, next, collected), UNCHANGED <<at, horizon>>
      PROVE  ImportsType'
    <2>1. Series[at[i]] \in Names
        BY <1>1, SeriesType
    <2>2. year[i] + 1 \in Years /\ next \in Years
        <3>1. year[i] \in Years /\ horizon[i] \in Years
            BY <1>1
        <3> QED
            BY <1>5, <3>1, YearsBetween
    <2> QED
        BY <1>1, <1>5, <2>1, <2>2, AsksType DEF TypeOK, ImportsType
<1>6. ASSUME NEW next \in FirstYear..now, at[i] < Len(Series),
             at' = [at EXCEPT ![i] = at[i] + 1], horizon' = [horizon EXCEPT ![i] = now],
             Asks(i, Series[at[i] + 1], FirstYear, next, NoYears)
      PROVE  ImportsType'
    <2>1. at[i] + 1 \in DOMAIN Series
        BY <1>1, <1>6, SeriesType
    <2>2. Series[at[i] + 1] \in Names /\ next \in Years
        <3>1. Series[at[i] + 1] \in Names
            BY <2>1, SeriesType
        <3>2. next \in Years
            BY <1>1, StatisticsAssumption DEF Years
        <3> QED
            BY <3>1, <3>2
    <2>3. /\ pc' \in [Importers -> {"idle", "recorder", "fetch"}]
          /\ year' \in [Importers -> Years]
          /\ got' \in [Importers -> [Years -> Readings]]
          /\ answer' \in [Importers -> Readings]
          /\ overtaken' \subseteq Importers
        BY <1>1, <1>6, <2>2, AsksType
    <2>4. at' \in [Importers -> DOMAIN Series] /\ horizon' \in [Importers -> Years]
        BY <1>1, <1>6, <2>1 DEF TypeOK
    <2> QED
        BY <2>3, <2>4 DEF ImportsType
<1>7. ASSUME Rests(i) PROVE ImportsType'
    BY <1>7, RestsType DEF ImportsType
<1> QED
    BY <1>4, <1>5, <1>6, <1>7, CollectCases DEF collected

\* What a year yields: the answer, or nothing.
LEMMA ServedReading ==
    ASSUME NEW i \in Importers, NEW reading \in Served(i)
    PROVE  reading \in {0, answer[i]}
BY DEF Served

LEMMA InitType == Init => TypeOK
<1> SUFFICES ASSUME Init PROVE TypeOK
    OBVIOUS
<1>1. FirstYear + 1 \in Years
    BY StatisticsAssumption DEF Years
<1>2. portal \in [Years -> Readings]
    BY ReadingsType DEF Init
<1>3. ImportsType
    BY SeriesType, ReadingsType, YearsAreNaturals DEF Init, ImportsType
<1>4. troubles \in 0..MaxTroubles
    BY StatisticsAssumption DEF Init
<1> QED
    BY <1>1, <1>2, <1>3, <1>4, ReadingsType DEF Init, TypeOK, ImportsType

\* Every step keeps the types.
LEMMA NextType ==
    ASSUME TypeOK, [Next]_vars
    PROVE  TypeOK'
<1>1. Trouble => troubles' \in 0..MaxTroubles /\ calm' \subseteq Importers
    BY StatisticsAssumption DEF TypeOK, Trouble
<1>2. ASSUME NEW i \in Importers, Start(i) PROVE TypeOK'
    BY <1>2 DEF TypeOK, Start
<1>3. ASSUME NEW i \in Importers, RecorderReady(i) PROVE TypeOK'
    <2>1. PICK next \in FirstYear..now : Asks(i, Series[1], FirstYear, next, NoYears)
        BY <1>3, RecorderReadyAsks
    <2>2. Series[1] \in Names
        BY SeriesType
    <2>3. now \in Years /\ next \in Years /\ FirstYear \in Years
        BY YearsAreNaturals DEF TypeOK
    <2>4. /\ pc' \in [Importers -> {"idle", "recorder", "fetch"}]
          /\ year' \in [Importers -> Years]
          /\ got' \in [Importers -> [Years -> Readings]]
          /\ answer' \in [Importers -> Readings]
          /\ overtaken' \subseteq Importers
        BY <2>1, <2>2, <2>3, AsksType, ReadingsType
    <2>5. at' \in [Importers -> DOMAIN Series] /\ horizon' \in [Importers -> Years]
        <3>1. at' = [at EXCEPT ![i] = 1] /\ horizon' = [horizon EXCEPT ![i] = now]
            BY <1>3, RecorderReadyAsks
        <3> QED
            BY <2>3, <3>1, SeriesType DEF TypeOK
    <2> QED
        BY <1>3, <2>4, <2>5 DEF TypeOK, RecorderReady
<1>4. ASSUME NEW i \in Importers, NEW reading \in Served(i) PROVE reading \in Readings
    <2>1. answer[i] \in Readings /\ 0 \in Readings
        BY ReadingsType DEF TypeOK
    <2>2. reading \in {0, answer[i]}
        BY ServedReading
    <2> QED
        BY <2>1, <2>2
<1>5. ASSUME NEW i \in Importers, NEW reading \in Served(i), Remember(i, reading)
      PROVE  cache' \in [Names -> [Years -> Readings]] /\ frozen' \subseteq Names \X Years
    <2>1. Series[at[i]] \in Names /\ year[i] \in Years
        BY SeriesType DEF TypeOK
    <2>2. reading \in Readings
        BY <1>4
    <2>3. cache' \in [Names -> [Years -> Readings]]
        <3>1. cache \in [Names -> [Years -> Readings]]
            BY DEF TypeOK
        <3>2. cache' = cache \/ cache' = [cache EXCEPT ![Series[at[i]]][year[i]] = reading]
            BY <1>5 DEF Remember
        <3> QED
            BY <2>1, <2>2, <3>1, <3>2
    <2>4. frozen' \subseteq Names \X Years
        BY <1>5, <2>1 DEF TypeOK, Remember
    <2> QED
        BY <2>3, <2>4
<1>6. ASSUME NEW i \in Importers, Receive(i) PROVE TypeOK'
    <2>1. PICK reading \in Served(i) : Remember(i, reading) /\ Collect(i, reading)
        BY <1>6 DEF Receive
    <2>2. ImportsType' /\ SharedType'
        BY <1>4, <2>1, CollectType
    <2>3. cache' \in [Names -> [Years -> Readings]] /\ frozen' \subseteq Names \X Years
        BY <1>5, <2>1
    <2> QED
        BY <1>6, <2>2, <2>3 DEF TypeOK, ImportsType, SharedType, Receive
<1>7. ASSUME NEW i \in Importers, FetchFails(i) PROVE TypeOK'
    <2>1. ImportsType' /\ SharedType'
        BY <1>7, CollectType, ReadingsType DEF FetchFails
    <2> QED
        BY <1>1, <1>7, <2>1 DEF TypeOK, ImportsType, SharedType, FetchFails
<1>8. ASSUME NEW i \in Importers, Fails(i) PROVE TypeOK'
    <2>1. cache' \in [Names -> [Years -> Readings]] /\ frozen' \subseteq Names \X Years
        BY <1>5, <1>8 DEF TypeOK, Fails
    <2> QED
        BY <1>1, <1>8, <2>1, RestsType DEF TypeOK, Fails
<1>9. ASSUME NEW y \in Years, Revise(y) PROVE TypeOK'
    BY <1>1, <1>9 DEF TypeOK, Revise, importVars
<1>10. CASE NewYear
    <2>1. now + 1 \in Years /\ 1 \in Readings
        BY <1>10, YearsAreNaturals, ReadingsType DEF TypeOK, NewYear
    <2> QED
        BY <1>10, <2>1 DEF TypeOK, NewYear, importVars
<1>11. CASE Restart
    BY <1>1, <1>11, SeriesType, ReadingsType, YearsAreNaturals DEF TypeOK, Restart
<1>12. CASE UNCHANGED vars
    BY <1>12 DEF TypeOK, vars, importVars
<1> QED
    BY <1>2, <1>3, <1>6, <1>7, <1>8, <1>9, <1>10, <1>11, <1>12 DEF Next

\* Type correctness: the sums are numbers and every import stays within the
\* series and the years, whatever fails, is revised or restarts
\* (statistics.py:116-160).
THEOREM StatisticsTypeCorrect == Spec => []TypeOK
<1>1. TypeOK /\ [Next]_vars => TypeOK'
    BY NextType
<1> QED
    BY InitType, <1>1, PTL DEF Spec

-------------------------------------------------------------------------------
(***************************************************************************)
(* What is closed stays as it is.                                          *)
(***************************************************************************)

\* The portal serves a reading for every year up to this one.
PortalInv == \A y \in Years : portal[y] # 0 <=> y <= now

\* A loop asks for no year that is still to come.
HorizonInv ==
    \A i \in Importers : pc[i] = "fetch" => year[i] <= horizon[i] /\ horizon[i] <= now

\* What travels back for a closed year is what the portal serves for ever,
\* unless the year closed meanwhile.
AnswerInv ==
    \A i \in Importers \ overtaken :
        pc[i] = "fetch" /\ Closed(year[i]) => answer[i] = portal[year[i]]

CacheInv ==
    \A s \in Names, y \in Years :
        cache[s][y] # 0 => Closed(y) /\ (<<s, y>> \in frozen \/ cache[s][y] = portal[y])

ClockInv == PortalInv /\ HorizonInv

FinalInv == AnswerInv /\ CacheInv

\* The others do not move when one import does, and a year is asked of the
\* portal as it is.
OthersStay(i) ==
    \A j \in Importers \ {i} :
        /\ pc'[j] = pc[j] /\ at'[j] = at[j] /\ year'[j] = year[j]
        /\ horizon'[j] = horizon[j] /\ got'[j] = got[j] /\ answer'[j] = answer[j]
        /\ j \in overtaken' <=> j \in overtaken

Asked(i) ==
    pc'[i] = "fetch" =>
        year'[i] <= horizon'[i] /\ horizon'[i] <= now /\ answer'[i] = portal[year'[i]]

LEMMA AsksMoves ==
    ASSUME TypeOK, NEW i \in Importers, NEW s, NEW from, NEW next \in Years, NEW collected,
           NEW until \in Years, next <= until, until <= now,
           Asks(i, s, from, next, collected),
           \E n : at' = [at EXCEPT ![i] = n], horizon' = [horizon EXCEPT ![i] = until]
    PROVE  OthersStay(i) /\ Asked(i)
<1>1. OthersStay(i)
    BY DEF TypeOK, OthersStay, Asks
<1>2. year'[i] = next /\ horizon'[i] = until /\ answer'[i] = portal[next]
    BY DEF TypeOK, Asks
<1> QED
    BY <1>1, <1>2 DEF Asked

LEMMA RecorderReadyMoves ==
    ASSUME TypeOK, NEW i \in Importers, RecorderReady(i)
    PROVE  OthersStay(i) /\ Asked(i)
<1>1. PICK next \in FirstYear..now : Asks(i, Series[1], FirstYear, next, NoYears)
    BY RecorderReadyAsks
<1>2. at' = [at EXCEPT ![i] = 1] /\ horizon' = [horizon EXCEPT ![i] = now]
    BY RecorderReadyAsks
<1>3. now \in Years /\ next \in Years /\ next <= now /\ now <= now
    BY StatisticsAssumption DEF TypeOK, Years
<1>4. \E n : at' = [at EXCEPT ![i] = n]
    BY <1>2
<1> QED
    BY <1>1, <1>2, <1>3, <1>4, AsksMoves

LEMMA RestsMoves ==
    ASSUME TypeOK, NEW i \in Importers, Rests(i)
    PROVE  OthersStay(i) /\ Asked(i) /\ pc'[i] = "idle"
BY DEF TypeOK, OthersStay, Asked, Rests

LEMMA CollectMoves ==
    ASSUME TypeOK, HorizonInv, NEW i \in Importers, NEW reading, pc[i] = "fetch",
           Collect(i, reading)
    PROVE  OthersStay(i) /\ Asked(i)
<1> DEFINE collected == [got[i] EXCEPT ![year[i]] = reading]
<1>1. /\ year[i] \in Years /\ horizon[i] \in Years /\ now \in Years
      /\ year[i] <= horizon[i] /\ horizon[i] <= now
    BY DEF TypeOK, HorizonInv
<1>2. ASSUME NEW next \in (year[i] + 1)..horizon[i],
             Asks(i, Series[at[i]], year[i] + 1, next, collected), UNCHANGED <<at, horizon>>
      PROVE  OthersStay(i) /\ Asked(i)
    <2>1. next \in Years /\ next <= horizon[i]
        BY <1>1, StatisticsAssumption DEF Years
    <2>2. at' = [at EXCEPT ![i] = at[i]] /\ horizon' = [horizon EXCEPT ![i] = horizon[i]]
        BY <1>2 DEF TypeOK
    <2> HIDE DEF collected
    <2> QED
        BY <1>1, <1>2, <2>1, <2>2, AsksMoves
<1>3. ASSUME NEW next \in FirstYear..now,
             at' = [at EXCEPT ![i] = at[i] + 1], horizon' = [horizon EXCEPT ![i] = now],
             Asks(i, Series[at[i] + 1], FirstYear, next, NoYears)
      PROVE  OthersStay(i) /\ Asked(i)
    <2>1. next \in Years /\ next <= now /\ now <= now
        BY <1>1, StatisticsAssumption DEF Years
    <2> QED
        BY <1>1, <1>3, <2>1, AsksMoves
<1>4. ASSUME Rests(i) PROVE OthersStay(i) /\ Asked(i)
    BY <1>4, RestsMoves
<1>5. \/ /\ \E next \in (year[i] + 1)..horizon[i] :
               Asks(i, Series[at[i]], year[i] + 1, next, collected)
         /\ UNCHANGED <<at, horizon>>
      \/ /\ at' = [at EXCEPT ![i] = at[i] + 1]
         /\ horizon' = [horizon EXCEPT ![i] = now]
         /\ \E next \in FirstYear..now : Asks(i, Series[at[i] + 1], FirstYear, next, NoYears)
      \/ Rests(i)
    BY CollectCases
<1> HIDE DEF collected
<1> QED
    BY <1>2, <1>3, <1>4, <1>5

\* Under an import that moves alone, the clock and the answers stay in order.
LEMMA MovesKeepInv ==
    ASSUME TypeOK, ClockInv, NEW i \in Importers, OthersStay(i), Asked(i),
           UNCHANGED <<now, portal>>
    PROVE  ClockInv' /\ (AnswerInv => AnswerInv')
<1>1. PortalInv'
    BY DEF ClockInv, PortalInv
<1>2. HorizonInv'
    BY DEF ClockInv, HorizonInv, OthersStay, Asked
<1>3. ASSUME AnswerInv PROVE AnswerInv'
    BY <1>3 DEF AnswerInv, OthersStay, Asked, Closed
<1> QED
    BY <1>1, <1>2, <1>3 DEF ClockInv

\* Only the answer of a closed year is remembered, and an answer that is not
\* marked as frozen was captured once the year was closed.
LEMMA RememberKeepsCacheInv ==
    ASSUME TypeOK, FinalInv, NEW i \in Importers, pc[i] = "fetch",
           NEW reading \in Served(i), Remember(i, reading), UNCHANGED <<now, portal>>
    PROVE  CacheInv'
<1>1. CASE i \notin Services /\ reading # 0 /\ Closed(year[i])
    <2>1. i \notin overtaken => reading = portal[year[i]]
        BY <1>1, ServedReading DEF FinalInv, AnswerInv
    <2>2. cache' = [cache EXCEPT ![Series[at[i]]][year[i]] = reading]
        BY <1>1 DEF Remember
    <2>3. /\ frozen \subseteq frozen'
          /\ i \in overtaken => <<Series[at[i]], year[i]>> \in frozen'
        BY <1>1 DEF Remember
    <2>4. \A s \in Names, y \in Years :
             \/ cache'[s][y] = cache[s][y]
             \/ s = Series[at[i]] /\ y = year[i] /\ cache'[s][y] = reading
        BY <2>2 DEF TypeOK
    <2>5. ASSUME NEW s \in Names, NEW y \in Years, cache'[s][y] # 0
          PROVE  Closed(y) /\ (<<s, y>> \in frozen' \/ cache'[s][y] = portal[y])
        BY <1>1, <2>1, <2>3, <2>4, <2>5 DEF FinalInv, CacheInv
    <2> QED
        BY <2>5 DEF CacheInv, Closed
<1>2. CASE ~(i \notin Services /\ reading # 0 /\ Closed(year[i]))
    BY <1>2 DEF Remember, FinalInv, CacheInv, Closed
<1> QED
    BY <1>1, <1>2

LEMMA NextKeepsClockInv ==
    ASSUME TypeOK, ClockInv, [Next]_vars
    PROVE  ClockInv'
<1>1. ASSUME NEW i \in Importers, Start(i) PROVE ClockInv'
    BY <1>1 DEF TypeOK, ClockInv, PortalInv, HorizonInv, Start
<1>2. ASSUME NEW i \in Importers, RecorderReady(i) PROVE ClockInv'
    BY <1>2, RecorderReadyMoves, MovesKeepInv DEF RecorderReady
<1>3. ASSUME NEW i \in Importers, Receive(i) \/ FetchFails(i) PROVE ClockInv'
    <2>1. OthersStay(i) /\ Asked(i)
        BY <1>3, CollectMoves DEF ClockInv, Receive, FetchFails
    <2> QED
        BY <1>3, <2>1, MovesKeepInv DEF Receive, FetchFails
<1>4. ASSUME NEW i \in Importers, Fails(i) PROVE ClockInv'
    BY <1>4, RestsMoves, MovesKeepInv DEF Fails
<1>5. ASSUME NEW y \in Years, Revise(y) PROVE ClockInv'
    BY <1>5 DEF TypeOK, ClockInv, PortalInv, HorizonInv, Revise, importVars
<1>6. CASE NewYear
    <2>1. now \in Nat /\ now' = now + 1 /\ portal' = [portal EXCEPT ![now + 1] = 1]
        BY <1>6, YearsAreNaturals DEF TypeOK, NewYear
    <2>2. PortalInv'
        BY <2>1, YearsAreNaturals DEF TypeOK, ClockInv, PortalInv
    <2>3. HorizonInv'
        <3>1. \A i \in Importers : horizon[i] \in Nat
            BY YearsAreNaturals DEF TypeOK
        <3> QED
            BY <1>6, <2>1, <3>1 DEF ClockInv, HorizonInv, NewYear, importVars
    <2> QED
        BY <2>2, <2>3 DEF ClockInv
<1>7. CASE Restart
    BY <1>7 DEF ClockInv, PortalInv, HorizonInv, Restart
<1>8. CASE UNCHANGED vars
    BY <1>8 DEF ClockInv, PortalInv, HorizonInv, vars, importVars
<1> QED
    BY <1>1, <1>2, <1>3, <1>4, <1>5, <1>6, <1>7, <1>8 DEF Next

LEMMA NextKeepsFinalInv ==
    ASSUME TypeOK, ClockInv, FinalInv, [Next]_vars
    PROVE  FinalInv'
<1>1. ASSUME NEW i \in Importers, Start(i) PROVE FinalInv'
    BY <1>1 DEF TypeOK, FinalInv, AnswerInv, CacheInv, Closed, Start
<1>2. ASSUME NEW i \in Importers, RecorderReady(i) PROVE FinalInv'
    BY <1>2, RecorderReadyMoves, MovesKeepInv DEF FinalInv, CacheInv, Closed, RecorderReady
<1>3. ASSUME NEW i \in Importers, Receive(i) PROVE FinalInv'
    <2>1. PICK reading \in Served(i) : Remember(i, reading) /\ Collect(i, reading)
        BY <1>3 DEF Receive
    <2>2. CacheInv'
        BY <1>3, <2>1, RememberKeepsCacheInv DEF Receive
    <2>3. AnswerInv'
        BY <1>3, <2>1, CollectMoves, MovesKeepInv DEF FinalInv, ClockInv, Receive
    <2> QED
        BY <2>2, <2>3 DEF FinalInv
<1>4. ASSUME NEW i \in Importers, FetchFails(i) PROVE FinalInv'
    BY <1>4, CollectMoves, MovesKeepInv DEF FinalInv, ClockInv, CacheInv, Closed, FetchFails
<1>5. ASSUME NEW i \in Importers, Fails(i) PROVE FinalInv'
    <2>1. CacheInv'
        BY <1>5, RememberKeepsCacheInv DEF FinalInv, CacheInv, Closed, Fails
    <2>2. AnswerInv'
        BY <1>5, RestsMoves, MovesKeepInv DEF FinalInv, Fails
    <2> QED
        BY <2>1, <2>2 DEF FinalInv
<1>6. ASSUME NEW y \in Years, Revise(y) PROVE FinalInv'
    <2>1. ~Closed(y) /\ \A z \in Years \ {y} : portal'[z] = portal[z]
        BY <1>6, YearsAreNaturals DEF TypeOK, Closed, Revise
    <2> QED
        BY <1>6, <2>1 DEF TypeOK, FinalInv, AnswerInv, CacheInv, Closed, Revise, importVars
<1>7. CASE NewYear
    <2>1. \A y \in Years : Closed(y) => Closed(y)' /\ portal'[y] = portal[y]
        BY <1>7, YearsAreNaturals DEF TypeOK, Closed, NewYear
    <2>2. \A y \in Years : Closed(y)' => Closed(y) \/ y + 1 = now
        BY <1>7, YearsAreNaturals DEF TypeOK, Closed, NewYear
    <2>3. CacheInv'
        BY <1>7, <2>1 DEF FinalInv, CacheInv, NewYear
    <2>4. AnswerInv'
        <3> SUFFICES ASSUME NEW i \in Importers, i \notin overtaken', pc'[i] = "fetch",
                            year'[i] + 1 < now'
                     PROVE  answer'[i] = portal'[year'[i]]
            BY DEF AnswerInv, Closed
        <3>1. /\ pc[i] = "fetch" /\ year'[i] = year[i] /\ answer'[i] = answer[i]
              /\ i \notin overtaken /\ year[i] + 1 # now /\ year[i] \in Years
            BY <1>7 DEF TypeOK, NewYear
        <3>2. Closed(year[i])
            BY <2>2, <3>1 DEF Closed
        <3> QED
            BY <2>1, <3>1, <3>2 DEF FinalInv, AnswerInv
    <2> QED
        BY <2>3, <2>4 DEF FinalInv
<1>8. CASE Restart
    BY <1>8 DEF FinalInv, AnswerInv, CacheInv, NoYears, Restart
<1>9. CASE UNCHANGED vars
    BY <1>9 DEF FinalInv, AnswerInv, CacheInv, Closed, vars, importVars
<1> QED
    BY <1>1, <1>2, <1>3, <1>4, <1>5, <1>6, <1>7, <1>8, <1>9 DEF Next

LEMMA ClockInvHolds == Spec => []ClockInv
<1>1. Init => ClockInv
    BY StatisticsAssumption DEF Init, ClockInv, PortalInv, HorizonInv, Years
<1>2. TypeOK /\ ClockInv /\ [Next]_vars => ClockInv'
    BY NextKeepsClockInv
<1> QED
    BY <1>1, <1>2, StatisticsTypeCorrect, PTL DEF Spec

LEMMA FinalInvHolds == Spec => []FinalInv
<1>1. Init => FinalInv
    BY DEF Init, FinalInv, AnswerInv, CacheInv, NoYears
<1>2. TypeOK /\ ClockInv /\ FinalInv /\ [Next]_vars => FinalInv'
    BY NextKeepsFinalInv
<1> QED
    BY <1>1, <1>2, StatisticsTypeCorrect, ClockInvHolds, PTL DEF Spec

\* A reading that is cached is the portal's for ever, unless its answer was
\* under way when the year closed (_year_cache.py:27-38).
THEOREM OnlyOvertakenAnswersFreeze == Spec => []OnlyNewYearFreezes
<1>1. FinalInv => OnlyNewYearFreezes
    BY DEF FinalInv, CacheInv, OnlyNewYearFreezes
<1> QED
    BY <1>1, FinalInvHolds, PTL

-------------------------------------------------------------------------------
(***************************************************************************)
(* What an import that is not disturbed leaves behind.                     *)
(***************************************************************************)

\* A calm import runs alone.
AloneInv == \A i \in calm : \A j \in Importers \ {i} : pc[j] = "idle"

\* What the portal serves of the years before y.
Before(y) == [z \in Years |-> IF z < y THEN portal[z] ELSE 0]

ExactSeries(s) == \A y \in FirstYear..now : recorder[s][y] = Stat(portal, y)

\* A calm import asks up to this year, has collected what the portal serves of
\* the years before the one it asks for, and has stored the series before.  A
\* series that only the mobility API has lacks the years it does not keep.
Collected(i) ==
    /\ horizon[i] = now
    /\ answer[i] = portal[year[i]]
    /\ Series[at[i]] \notin MobileOnly => got[i] = Before(year[i])
    /\ \A n \in 1..(at[i] - 1) : Series[n] \notin MobileOnly => ExactSeries(Series[n])

\* An import that reads nothing frozen: it has no cache, or an exact one.
Unfrozen(i) == i \in Services \/ frozen = {}

CollectedInv == \A i \in calm : pc[i] = "fetch" /\ Unfrozen(i) => Collected(i)

CalmInv == AloneInv /\ CollectedInv

\* Cached years are the portal's, so that it does not matter which are cached.
LEMMA AsksCollects ==
    ASSUME TypeOK, FinalInv, NEW i \in Importers, Unfrozen(i), NEW s \in Names,
           NEW from \in Years, NEW next \in Years, from <= next,
           Asks(i, s, from, next, Before(from)), UNCHANGED portal
    PROVE  got'[i] = Before(next)'
<1>1. got'[i] = [y \in Years |-> IF y \in from..(next - 1) THEN cache[s][y] ELSE Before(from)[y]]
    BY DEF TypeOK, Asks
<1>2. ASSUME NEW y \in Years
      PROVE  (IF y \in from..(next - 1) THEN cache[s][y] ELSE Before(from)[y])
               = (IF y < next THEN portal[y] ELSE 0)
    <2>1. y \in Nat /\ from \in Nat /\ next \in Nat
        BY YearsAreNaturals
    <2>2. CASE y \in from..(next - 1)
        <3>1. cache[s][y] = portal[y]
            BY <2>2 DEF Asks, Cached, Unfrozen, FinalInv, CacheInv
        <3> QED
            BY <2>1, <2>2, <3>1
    <2>3. CASE y \notin from..(next - 1)
        BY <2>1, <2>3 DEF Before
    <2> QED
        BY <2>2, <2>3
<1> QED
    BY <1>1, <1>2 DEF Before

\* A series of all the years up to this one is stored with every point.
LEMMA StoresExact ==
    ASSUME TypeOK, PortalInv, NEW i \in Importers,
           recorder' = Stored(i, [Before(now) EXCEPT ![now] = portal[now]]),
           UNCHANGED <<now, portal>>
    PROVE  \A s \in Names : ExactSeries(s) \/ s = Series[at[i]] => ExactSeries(s)'
<1>1. [Before(now) EXCEPT ![now] = portal[now]] = portal
    <2> DEFINE readings == [Before(now) EXCEPT ![now] = portal[now]]
    <2>1. now \in Years /\ now \in Nat
        BY YearsAreNaturals DEF TypeOK
    <2>2. ASSUME NEW y \in Years PROVE readings[y] = portal[y]
        <3>1. y \in Nat /\ (y = now \/ y < now \/ ~(y <= now))
            BY <2>1, YearsAreNaturals
        <3> QED
            BY <2>1, <3>1 DEF PortalInv, Before
    <2>3. readings = [y \in Years |-> readings[y]] /\ portal = [y \in Years |-> portal[y]]
        BY DEF TypeOK, Before
    <2> HIDE DEF readings
    <2>4. readings = portal
        BY <2>2, <2>3
    <2> QED
        BY <2>4 DEF readings
<1>2. recorder' = [recorder EXCEPT ![Series[at[i]]] = Upsert(@, portal)]
    BY <1>1 DEF Stored
<1>3. Series[at[i]] \in Names
    BY SeriesType DEF TypeOK
<1>4. \A y \in FirstYear..now : y \in Years /\ portal[y] # 0
    BY StatisticsAssumption DEF TypeOK, PortalInv, Years
<1>5. \A y \in FirstYear..now : recorder'[Series[at[i]]][y] = Stat(portal, y)
    BY <1>2, <1>3, <1>4 DEF TypeOK, Upsert
<1>6. \A y \in FirstYear..now : Stat(portal, y)' = Stat(portal, y)
    OBVIOUS
<1>7. ASSUME NEW s \in Names, s = Series[at[i]] PROVE ExactSeries(s)'
    BY <1>5, <1>6, <1>7 DEF ExactSeries
<1>8. ASSUME NEW s \in Names, s # Series[at[i]], ExactSeries(s) PROVE ExactSeries(s)'
    <2>1. recorder'[s] = recorder[s]
        BY <1>2, <1>8 DEF TypeOK
    <2> QED
        BY <1>6, <1>8, <2>1 DEF ExactSeries
<1> QED
    BY <1>7, <1>8

\* A calm import that asks for a year, of the series it is in or of the next.
LEMMA AsksKeepsCollected ==
    ASSUME TypeOK, FinalInv, NEW i \in Importers, Unfrozen(i), NEW n \in DOMAIN Series,
           NEW from \in Years, NEW next \in Years, from <= next, NEW collected,
           Asks(i, Series[n], from, next, collected),
           Series[n] \notin MobileOnly => collected = Before(from),
           UNCHANGED <<now, portal>>, at'[i] = n, horizon'[i] = now,
           \A m \in 1..(n - 1) : Series[m] \notin MobileOnly => ExactSeries(Series[m])'
    PROVE  Collected(i)' /\ pc'[i] = "fetch"
<1>1. year'[i] = next /\ answer'[i] = portal[next] /\ pc'[i] = "fetch"
    BY DEF TypeOK, Asks
<1>2. ASSUME Series[n] \notin MobileOnly PROVE got'[i] = Before(next)'
    BY <1>2, SeriesType, AsksCollects
<1>3. Before(next)' = Before(year[i])'
    BY <1>1 DEF Before
<1> QED
    BY <1>1, <1>2, <1>3 DEF Collected

LEMMA RecorderReadyCollects ==
    ASSUME TypeOK, FinalInv, NEW i \in Importers, Unfrozen(i), RecorderReady(i)
    PROVE  Collected(i)'
<1>1. PICK next \in FirstYear..now : Asks(i, Series[1], FirstYear, next, NoYears)
    BY RecorderReadyAsks
<1>2. at'[i] = 1 /\ horizon'[i] = now
    BY RecorderReadyAsks DEF TypeOK
<1>3. FirstYear \in Years /\ next \in Years /\ FirstYear <= next
    BY StatisticsAssumption DEF TypeOK, Years
<1>4. NoYears = Before(FirstYear)
    BY YearsAreNaturals DEF NoYears, Before
<1> QED
    BY <1>1, <1>2, <1>3, <1>4, SeriesType, AsksKeepsCollected DEF RecorderReady

\* A calm import collects on, or has stored every series with every point and
\* cleared the issue.
LEMMA ReceiveCollects ==
    ASSUME TypeOK, ClockInv, FinalInv, NEW i \in Importers, Unfrozen(i), Collected(i),
           Receive(i)
    PROVE  \/ Collected(i)' /\ pc'[i] = "fetch"
           \/ /\ \A s \in Names \ MobileOnly : ExactSeries(s)'
              /\ pc'[i] = "idle" /\ issue' = FALSE
<1>0. PICK reading \in Served(i) : Collect(i, reading)
    BY DEF Receive
<1> DEFINE collected == [got[i] EXCEPT ![year[i]] = reading]
<1>1. /\ year[i] \in Years /\ now \in Years /\ year[i] <= now /\ horizon[i] = now
      /\ now \in Nat /\ year[i] \in Nat
    BY YearsAreNaturals DEF TypeOK, ClockInv, HorizonInv, Collected, Receive
<1>2. UNCHANGED <<now, portal>> /\ Collect(i, reading)
    BY <1>0 DEF Receive
<1>3. at[i] \in DOMAIN Series /\ Series[at[i]] \in Names /\ at[i] \in Nat
    BY SeriesType DEF TypeOK
<1>4. ASSUME Series[at[i]] \notin MobileOnly
      PROVE  collected = [Before(year[i]) EXCEPT ![year[i]] = portal[year[i]]]
    BY <1>4 DEF Served, Collected
<1>5. ASSUME Series[at[i]] \notin MobileOnly PROVE collected = Before(year[i] + 1)
    <2>1. ASSUME NEW z \in Years
          PROVE  (IF z = year[i] THEN portal[year[i]] ELSE IF z < year[i] THEN portal[z] ELSE 0)
                   = (IF z < year[i] + 1 THEN portal[z] ELSE 0)
        <3>1. z \in Nat
            BY YearsAreNaturals
        <3> QED
            BY <1>1, <3>1
    <2>2. [Before(year[i]) EXCEPT ![year[i]] = portal[year[i]]]
            = [z \in Years |-> IF z = year[i] THEN portal[year[i]]
                               ELSE IF z < year[i] THEN portal[z] ELSE 0]
        BY <1>1 DEF Before
    <2> QED
        BY <1>4, <1>5, <2>1, <2>2 DEF Before
<1>6. ASSUME recorder' = Stored(i, collected), ~(year[i] < horizon[i])
      PROVE  \A m \in 1..at[i] : Series[m] \notin MobileOnly =>
                \A s \in Names : s = Series[m] => ExactSeries(s)'
    <2>1. year[i] = now
        BY <1>1, <1>6
    <2>2. ASSUME NEW m \in 1..at[i], Series[m] \notin MobileOnly, NEW s \in Names, s = Series[m]
          PROVE  ExactSeries(s)'
        <3>1. CASE Series[at[i]] \notin MobileOnly
            <4>1. recorder' = Stored(i, [Before(now) EXCEPT ![now] = portal[now]])
                BY <1>4, <1>6, <2>1, <3>1
            <4>2. ExactSeries(s) \/ s = Series[at[i]]
                BY <1>3, <2>2 DEF Collected
            <4> QED
                BY <1>2, <4>1, <4>2, StoresExact DEF ClockInv
        <3>2. CASE Series[at[i]] \in MobileOnly
            <4>1. s # Series[at[i]] /\ ExactSeries(s)
                BY <1>3, <2>2, <3>2 DEF Collected
            <4>2. recorder'[s] = recorder[s]
                BY <1>3, <1>6, <4>1 DEF TypeOK, Stored
            <4>3. \A y \in FirstYear..now : Stat(portal, y)' = Stat(portal, y)
                BY <1>2
            <4> QED
                BY <1>2, <4>1, <4>2, <4>3 DEF ExactSeries
        <3> QED
            BY <3>1, <3>2
    <2> QED
        BY <2>2
<1> HIDE DEF collected
<1>7. ASSUME NEW next \in (year[i] + 1)..horizon[i], year[i] < horizon[i],
             Asks(i, Series[at[i]], year[i] + 1, next, collected),
             UNCHANGED <<at, horizon, recorder>>
      PROVE  Collected(i)' /\ pc'[i] = "fetch"
    <2>1. PICK n \in DOMAIN Series : n = at[i]
        BY <1>3
    <2>2. PICK from \in Years : from = year[i] + 1
        <3>1. year[i] + 1 \in Years
            <4>1. year[i] \in Years /\ horizon[i] \in Years
                BY <1>1
            <4> QED
                BY <1>7, <4>1, YearsBetween
        <3> QED
            BY <3>1
    <2>3. next \in Years /\ from <= next
        <3>1. year[i] \in Years /\ horizon[i] \in Years /\ year[i] \in Nat /\ horizon[i] \in Nat
            BY <1>1, YearsAreNaturals
        <3>2. next \in Years
            BY <1>7, <3>1, YearsBetween
        <3> QED
            BY <1>7, <2>2, <3>1, <3>2
    <2>4. \A s \in Names : ExactSeries(s) => ExactSeries(s)'
        BY <1>2, <1>7 DEF ExactSeries
    <2>5. \A m \in 1..(n - 1) : Series[m] \notin MobileOnly => ExactSeries(Series[m])'
        BY <1>3, <2>1, <2>4, SeriesType DEF Collected
    <2>6. at'[i] = n /\ horizon'[i] = now
        BY <1>1, <1>7, <2>1
    <2> QED
        BY <1>2, <1>5, <1>7, <2>1, <2>2, <2>3, <2>5, <2>6, AsksKeepsCollected
<1>8. ASSUME NEW next \in FirstYear..now, at[i] < Len(Series),
             recorder' = Stored(i, collected), ~(year[i] < horizon[i]),
             at' = [at EXCEPT ![i] = at[i] + 1], horizon' = [horizon EXCEPT ![i] = now],
             Asks(i, Series[at[i] + 1], FirstYear, next, NoYears)
      PROVE  Collected(i)' /\ pc'[i] = "fetch"
    <2>1. PICK n \in DOMAIN Series : n = at[i] + 1
        BY <1>3, <1>8, SeriesType
    <2>2. FirstYear \in Years /\ next \in Years /\ FirstYear <= next
        BY <1>1, StatisticsAssumption DEF Years
    <2>3. NoYears = Before(FirstYear)
        BY YearsAreNaturals DEF NoYears, Before
    <2>4. \A m \in 1..(n - 1) : Series[m] \notin MobileOnly => ExactSeries(Series[m])'
        <3>1. 1..(n - 1) = 1..at[i]
            BY <1>3, <2>1
        <3>2. \A m \in 1..at[i] : Series[m] \in Names
            BY <1>3, SeriesType
        <3> QED
            BY <1>6, <1>8, <3>1, <3>2 DEF collected
    <2>5. at'[i] = n /\ horizon'[i] = now
        BY <1>8, <2>1 DEF TypeOK
    <2> QED
        BY <1>2, <1>8, <2>1, <2>2, <2>3, <2>4, <2>5, AsksKeepsCollected
<1>9. ASSUME ~(at[i] < Len(Series)), recorder' = Stored(i, collected), ~(year[i] < horizon[i])
      PROVE  \A s \in Names \ MobileOnly : ExactSeries(s)'
    <2>1. \A s \in Names : \E m \in 1..at[i] : Series[m] = s
        BY <1>3, <1>9, SeriesType DEF Names
    <2> QED
        BY <1>6, <1>9, <2>1 DEF collected
<1> QED
    BY <1>2, <1>7, <1>8, <1>9, RestsMoves, CollectCases DEF collected

LEMMA NextKeepsCalmInv ==
    ASSUME TypeOK, ClockInv, FinalInv, CalmInv, [Next]_vars
    PROVE  CalmInv'
<1>1. Trouble => CalmInv'
    BY DEF Trouble, CalmInv, AloneInv, CollectedInv
<1>2. ASSUME NEW i \in Importers, Start(i) PROVE CalmInv'
    <2>1. calm' \subseteq {i} /\ pc'[i] = "recorder"
        BY <1>2 DEF TypeOK, Start
    <2>2. calm' # {} => \A j \in Importers \ {i} : pc'[j] = "idle"
        BY <1>2 DEF TypeOK, Start
    <2> QED
        BY <2>1, <2>2 DEF CalmInv, AloneInv, CollectedInv
<1>3. ASSUME NEW i \in Importers, calm' = calm, pc[i] # "idle", OthersStay(i),
             i \in calm /\ Unfrozen(i)' => Collected(i)' \/ pc'[i] = "idle"
      PROVE  CalmInv'
    <2>1. calm \subseteq {i}
        BY <1>3 DEF TypeOK, CalmInv, AloneInv
    <2>2. AloneInv'
        BY <1>3, <2>1 DEF CalmInv, AloneInv, OthersStay
    <2>3. CollectedInv'
        BY <1>3, <2>1 DEF CollectedInv
    <2> QED
        BY <2>2, <2>3 DEF CalmInv
<1>4. ASSUME NEW i \in Importers, RecorderReady(i) PROVE CalmInv'
    BY <1>3, <1>4, RecorderReadyMoves, RecorderReadyCollects DEF Unfrozen, RecorderReady
<1>5. ASSUME NEW i \in Importers, Receive(i) PROVE CalmInv'
    <2>1. OthersStay(i) /\ calm' = calm /\ pc[i] = "fetch"
        BY <1>5, CollectMoves DEF ClockInv, Receive
    <2>2. Unfrozen(i)' => Unfrozen(i)
        BY <1>5 DEF Unfrozen, Receive, Remember
    <2>3. i \in calm /\ Unfrozen(i)' => Collected(i)' \/ pc'[i] = "idle"
        BY <1>5, <2>1, <2>2, ReceiveCollects DEF CalmInv, CollectedInv
    <2> QED
        BY <1>3, <2>1, <2>3
<1>6. ASSUME NEW i \in Importers, FetchFails(i) \/ Fails(i) PROVE CalmInv'
    BY <1>1, <1>6 DEF FetchFails, Fails
<1>7. ASSUME NEW y \in Years, Revise(y) PROVE CalmInv'
    BY <1>1, <1>7 DEF Revise
<1>8. CASE NewYear
    BY <1>8 DEF NewYear, CalmInv, AloneInv, CollectedInv
<1>9. CASE Restart
    BY <1>1, <1>9 DEF Restart
<1>10. CASE UNCHANGED vars
    <2>1. \A i \in Importers : Collected(i) => Collected(i)'
        BY <1>10 DEF Collected, ExactSeries, Before, Stat, vars, importVars
    <2> QED
        BY <1>10, <2>1 DEF TypeOK, CalmInv, AloneInv, CollectedInv, Unfrozen, vars, importVars
<1> QED
    BY <1>2, <1>4, <1>5, <1>6, <1>7, <1>8, <1>9, <1>10 DEF Next

\* What a calm import has done when it ends.
CalmEnds ==
    \A i \in calm \cap calm' : pc[i] # "idle" /\ pc'[i] = "idle" /\ Unfrozen(i) =>
        (\A s \in Names \ MobileOnly : ExactSeries(s)') /\ ~issue'

LEMMA NextCalmEnds ==
    ASSUME TypeOK, ClockInv, FinalInv, CalmInv, Next
    PROVE  CalmEnds
<1> SUFFICES ASSUME NEW i \in calm, i \in calm', pc[i] # "idle", pc'[i] = "idle", Unfrozen(i)
             PROVE  (\A s \in Names \ MobileOnly : ExactSeries(s)') /\ ~issue'
    BY DEF CalmEnds
<1>1. i \in Importers /\ ~Trouble
    BY DEF TypeOK, Trouble
<1>2. ~NewYear /\ ~Restart /\ \A y \in Years : ~Revise(y)
    BY <1>1 DEF NewYear, Restart, Revise
<1>3. \A j \in Importers : ~FetchFails(j) /\ ~Fails(j)
    BY <1>1 DEF FetchFails, Fails
<1>4. \A j \in Importers : ~Start(j)
    BY <1>1 DEF TypeOK, Start
<1>5. \A j \in Importers \ {i} : ~RecorderReady(j) /\ ~Receive(j)
    BY DEF CalmInv, AloneInv, RecorderReady, Receive
<1>6. ~RecorderReady(i)
    <2>1. ASSUME RecorderReady(i) PROVE pc'[i] = "fetch"
        BY <1>1, <2>1, RecorderReadyAsks DEF TypeOK, Asks
    <2> QED
        BY <2>1
<1>7. Receive(i) /\ Collected(i)
    BY <1>1, <1>2, <1>3, <1>4, <1>5, <1>6 DEF Next, CalmInv, CollectedInv, Receive
<1> QED
    BY <1>1, <1>7, ReceiveCollects

LEMMA CalmInvHolds == Spec => []CalmInv
<1>1. Init => CalmInv
    BY DEF Init, CalmInv, AloneInv, CollectedInv
<1>2. TypeOK /\ ClockInv /\ FinalInv /\ CalmInv /\ [Next]_vars => CalmInv'
    BY NextKeepsCalmInv
<1> QED
    BY <1>1, <1>2, StatisticsTypeCorrect, ClockInvHolds, FinalInvHolds, PTL DEF Spec

\* An import that runs alone and undisturbed writes every point of every
\* series the web portal has, from whatever the recorder held before, unless
\* it reads a cache that holds an answer frozen at New Year
\* (statistics.py:116-160).
THEOREM CalmImportRepairs == Spec => [][CalmEnds]_vars
<1>1. TypeOK /\ ClockInv /\ FinalInv /\ CalmInv /\ [Next]_vars => [CalmEnds]_vars
    BY NextCalmEnds
<1> QED
    BY <1>1, StatisticsTypeCorrect, ClockInvHolds, FinalInvHolds, CalmInvHolds, PTL DEF Spec

\* So when the web portal has all of them the recorder is exact, and the repair
\* issue is gone (statistics.py:56-62).
THEOREM CalmImportHeals ==
    ASSUME MobileOnly = {}
    PROVE  Spec => CalmImportIsExact
<1>1. ASSUME CalmEnds
      PROVE  \A i \in calm \cap calm' :
                pc[i] # "idle" /\ pc'[i] = "idle" /\ (i \in Services \/ frozen = {}) =>
                    Exact' /\ ~issue'
    <2> SUFFICES ASSUME \A s \in Names : ExactSeries(s)' PROVE Exact'
        BY <1>1 DEF CalmEnds, Unfrozen
    <2> QED
        BY DEF Exact, ExactSeries, Stat
<1>2. [CalmEnds]_vars =>
        [\A i \in calm \cap calm' :
            pc[i] # "idle" /\ pc'[i] = "idle" /\ (i \in Services \/ frozen = {}) =>
                Exact' /\ ~issue']_vars
    BY <1>1
<1> QED
    BY <1>2, CalmImportRepairs, PTL DEF CalmImportIsExact

\* An exact recorder is consistent: the sums of a series ascend
\* (statistics.py:134-138).
THEOREM ExactAscends ==
    ASSUME TypeOK, Exact, NEW s \in Names,
           NEW y \in FirstYear..now, NEW z \in FirstYear..now, y <= z
    PROVE  recorder[s][y].sum <= recorder[s][z].sum
<1>1. portal \in [Years -> Nat] /\ y \in Years /\ z \in Years
    <2>1. \A x \in FirstYear..now : x \in Years
        BY StatisticsAssumption DEF TypeOK, Years
    <2> QED
        BY <2>1, ReadingsType DEF TypeOK
<1>2. SumUpTo(portal, y) <= SumUpTo(portal, z)
    BY <1>1, SumUpToAscends
<1>3. \A x \in FirstYear..now : recorder[s][x].sum = SumUpTo(portal, x)
    <2> TAKE x \in FirstYear..now
    <2>1. recorder[s][x] = [state |-> portal[x], sum |-> SumUpTo(portal, x)]
        BY DEF Exact
    <2> QED
        BY <2>1
<1> QED
    BY <1>2, <1>3
===============================================================================
