---------------------------- MODULE PrivateExport ----------------------------
(* The differentially private export of metrics.rs: exact counters that the
   engine's threads increment, and an exporter that several scrapers share. A
   scraper reads the wall clock before it takes the exporter's mutex, so its
   reading may be old when it gets in, and the wall clock may be set back.

   What privacy means is a statement about two histories: one event more or
   less may change the released counts by one in total. The module runs both
   histories at once: "actual" counts every event, "without" counts all but one
   chosen event; noise is left out, so a release is what noise is added to.
*)
EXTENDS Integers, Sequences

CONSTANTS Counters,     \* the coordinates of the released vector
          Chosen,       \* the coordinate of the chosen event
          Scrapers,     \* threads that export
          Window,       \* window_ms
          MaxReleases,  \* the cap of with_max_releases
          MaxTime,      \* bound on the wall clock
          MaxEvents     \* bound on each counter

ASSUME PrivateExportAssumption ==
    /\ Chosen \in Counters
    /\ Window \in Nat \ {0} /\ MaxReleases \in Nat \ {0}
    /\ MaxTime \in Nat /\ MaxEvents \in Nat

VARIABLES
    actual, without,   \* the atomic counters in the two histories
    last,              \* last_lifetime in the two histories
    starts,            \* window_start_ms of each release so far; the last one
                       \* is the cached snapshot
    clock,             \* the wall clock
    reading,           \* the clock value a scraper holds, if it is exporting
    leaked,            \* how far the releases of the two histories differ so
                       \* far, in each coordinate
    counterReset       \* snapshot_and_reset was called

exportVars ==
    <<actual, without, last, starts, clock, reading, leaked, counterReset>>

NotReading == -1

ExportTypeOK ==
    /\ actual \in [Counters -> 0..MaxEvents] /\ without \in [Counters -> 0..MaxEvents]
    /\ last \in [actual : [Counters -> 0..MaxEvents], without : [Counters -> 0..MaxEvents]]
    /\ starts \in Seq(0..MaxTime)
    /\ clock \in 0..MaxTime
    /\ reading \in [Scrapers -> {NotReading} \cup 0..MaxTime]
    /\ leaked \in [Counters -> Nat]
    /\ counterReset \in BOOLEAN

ExportInit ==
    LET zero == [c \in Counters |-> 0]
    IN  /\ actual = zero /\ without = zero
        /\ last = [actual |-> zero, without |-> zero]
        /\ starts = <<>>
        /\ clock = 0
        /\ reading = [s \in Scrapers |-> NotReading]
        /\ leaked = zero
        /\ counterReset = FALSE

(* record_queued and its siblings: an event both histories have ... *)
Record(c) ==
    /\ actual[c] < MaxEvents
    /\ actual' = [actual EXCEPT ![c] = @ + 1]
    /\ without' = [without EXCEPT ![c] = @ + 1]
    /\ UNCHANGED <<last, starts, clock, reading, leaked, counterReset>>

(* ... and the chosen event, which happens once and in one of them. *)
RecordChosen ==
    /\ actual = without
    /\ leaked[Chosen] = 0 /\ last.actual = last.without /\ ~counterReset
    /\ actual[Chosen] < MaxEvents
    /\ actual' = [actual EXCEPT ![Chosen] = @ + 1]
    /\ UNCHANGED <<without, last, starts, clock, reading, leaked, counterReset>>

(* snapshot_and_reset swaps each counter for zero on its own. *)
ResetCounter(c) ==
    /\ actual' = [actual EXCEPT ![c] = 0]
    /\ without' = [without EXCEPT ![c] = 0]
    /\ counterReset' = TRUE
    /\ UNCHANGED <<last, starts, clock, reading, leaked>>

(* The wall clock moves, now and then backwards. *)
Tick ==
    /\ clock' \in {clock + 1, clock - 1} \cap 0..MaxTime
    /\ UNCHANGED <<actual, without, last, starts, reading, leaked, counterReset>>

ReadClock(s) ==
    /\ reading[s] = NotReading
    /\ reading' = [reading EXCEPT ![s] = clock]
    /\ UNCHANGED <<actual, without, last, starts, clock, leaked, counterReset>>

MinusSaturating(a, b) == IF a > b THEN a - b ELSE 0

(* What a release tells of one counter: the events since the last release. *)
Delta(count, before, c) == MinusSaturating(count[c], before[c])

Difference(a, b) == IF a > b THEN a - b ELSE b - a

(* Bug: the elapsed time wraps when the reading is older than the window. *)
InWindowWrapping(now) ==
    /\ starts # <<>>
    /\ now >= starts[Len(starts)] /\ now - starts[Len(starts)] < Window

(* The cached release still covers this moment. *)
InWindow(now) ==
    /\ starts # <<>>
    /\ MinusSaturating(now, starts[Len(starts)]) < Window

BudgetExhausted == starts # <<>> /\ Len(starts) >= MaxReleases

(* Bug: what was released is released again. *)
ReleaseKeepingLast(now) ==
    /\ leaked' = [c \in Counters |->
          leaked[c] + Difference(Delta(actual, last.actual, c),
                                 Delta(without, last.without, c))]
    /\ starts' = Append(starts, now)
    /\ UNCHANGED last

(* A new window: noise the counts since the last one and remember where they
   stood. *)
NewRelease(now) ==
    /\ leaked' = [c \in Counters |->
          leaked[c] + Difference(Delta(actual, last.actual, c),
                                 Delta(without, last.without, c))]
    /\ starts' = Append(starts, now)
    /\ last' = [actual |-> actual, without |-> without]

(* export, under the mutex. *)
Export(s) ==
    /\ reading[s] # NotReading
    /\ reading' = [reading EXCEPT ![s] = NotReading]
    /\ IF InWindow(reading[s]) \/ BudgetExhausted
       THEN UNCHANGED <<last, starts, leaked>>
       ELSE NewRelease(reading[s])
    /\ UNCHANGED <<actual, without, clock, counterReset>>

ExportNext ==
    \/ \E c \in Counters : Record(c) \/ ResetCounter(c)
    \/ RecordChosen
    \/ Tick
    \/ \E s \in Scrapers : ReadClock(s) \/ Export(s)

ExportSpec == ExportInit /\ [][ExportNext]_exportVars

-----------------------------------------------------------------------------
(* One event more or less changes the released vectors by one in total, over
   all windows ever released, unless somebody calls snapshot_and_reset: an
   event is in exactly one window. *)
EventInOneWindow ==
    ~counterReset =>
        /\ leaked[Chosen] <= 1
        /\ \A c \in Counters \ {Chosen} : leaked[c] = 0

(* However scrapers interleave and however old the clock reading they bring,
   noise is drawn once a window, and never more often than the cap allows. *)
NoSecondDrawInWindow ==
    /\ Len(starts) <= MaxReleases
    /\ \A i, j \in DOMAIN starts : i < j => starts[j] >= starts[i] + Window
=============================================================================
