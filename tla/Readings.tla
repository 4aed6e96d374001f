-------------------------------- MODULE Readings --------------------------------
(***************************************************************************)
(* What a poll makes of the portal's four answers (models.py) and of the   *)
(* mobility API's readings (_mobile.py).                                   *)
(*                                                                         *)
(* None is a value that is missing or null.  A billed reading has a date,  *)
(* an index in m3 and a volume; an entry of a chart has a date, an index   *)
(* in litres and a volume.  Dates and volumes are numbers, and indexes are *)
(* counted in litres, so that the conversion of _litres_to_m3 is the one   *)
(* of the billed index here, which knows whole m3 only.                    *)
(***************************************************************************)
EXTENDS Integers, SequencesExt

CONSTANTS None,
          LitresPerM3  \* 1000; smaller in the instances

ASSUME ReadingsAssumption == None \notin Int /\ LitresPerM3 \in Nat \ {0}

\* The empty payload {}: every field is read with dict.get.
Empty == [date |-> None, index |-> None, volume |-> None]

\* Bug: the dashboard's fields win even when they are null.
LayeredBlindly(billed, latest) == IF billed = Empty THEN latest ELSE billed

\* The dashboard's present values over the newest entry of the history.
Layered(billed, latest) ==
    [k \in DOMAIN Empty |-> IF billed[k] # None THEN billed[k] ELSE latest[k]]

\* Bug: the list is taken for chronological.
LatestListed(entries) == IF entries = <<>> THEN Empty ELSE Last(entries)

\* _latest_by_date: max() keeps the first of several.
LatestByDate(entries) ==
    IF entries = <<>> THEN Empty
    ELSE LET Date(n) == IF entries[n].date = None THEN -1 ELSE entries[n].date
             first == CHOOSE n \in DOMAIN entries :
                         \A m \in DOMAIN entries : Date(m) < Date(n) \/ (Date(m) = Date(n) /\ n <= m)
         IN entries[first]

\* Bug: the indexes of the charts are taken for m3.
PreciseTwice(daily, month, billed) ==
    IF daily # None THEN daily * LitresPerM3
    ELSE IF month # None THEN month * LitresPerM3
    ELSE IF billed # None THEN billed * LitresPerM3
    ELSE None

\* The first value that is present: a chart's index, else the billed one.
Precise(daily, month, billed) ==
    IF daily # None THEN daily
    ELSE IF month # None THEN month
    ELSE IF billed # None THEN billed * LitresPerM3
    ELSE None

\* The sum of the volumes that are present, None if there is none.
YearTotal(monthly) ==
    LET volumes == SelectSeq(monthly, LAMBDA entry : entry.volume # None) IN
    IF volumes = <<>> THEN None
    ELSE FoldLeft(LAMBDA total, entry : total + entry.volume, 0, volumes)

\* ConsumptionData.from_api_responses.
FromApiResponses(billed, monthly, history, daily) ==
    LET latest == IF history = <<>> THEN Empty ELSE history[1]
        previous == IF Len(history) > 1 THEN history[2] ELSE Empty
        reading == Layered(billed, latest)
        month == IF monthly = <<>> THEN Empty ELSE Last(monthly)
    IN [last |-> reading,
        previous |-> previous,
        precise |-> Precise(LatestByDate(daily).index, month.index, reading.index),
        monthVolume |-> month.volume,
        yearVolume |-> YearTotal(monthly)]

\* Bug: readings in progress are kept.
ToWebEntriesAll(releves) == releves

\* _to_web_entry over the readings of the mobility API: the one in progress has
\* no index yet and is skipped, and so is one without a date.
ToWebEntries(releves) ==
    LET Whole(r) == r.index # None /\ r.date # None
        kept[n \in 0..Len(releves)] ==
            IF n = 0 THEN <<>>
            ELSE IF Whole(releves[n]) THEN Append(kept[n - 1], releves[n])
            ELSE kept[n - 1]
    IN kept[Len(releves)]
===============================================================================
