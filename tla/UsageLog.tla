------------------------------ MODULE UsageLog ------------------------------
(***************************************************************************)
(* The usage logs of one queue: what was pushed and pulled by the hour and, *)
(* for half a day, by the minute (that documents of that age expire is left *)
(* out).  The statistics worker writes them with upserts that nobody waits  *)
(* for, on collections without a unique index (lib/queue_stats_worker.js,   *)
(* models/usage_log.js), and the user's charts add up what they find        *)
(* (routes/restricted/usage_log.js).                                        *)
(***************************************************************************)
EXTENDS Naturals, FiniteSets, FiniteSetsExt, Functions

CONSTANTS UsageEvents,    \* events that the service sends to the worker
          UsageBuffer,    \* most events that the worker processes at once
          Minutes,        \* the minutes of the model are 0..Minutes - 1
          MinutesPerHour, \* the first of every so many is a full hour
          UsageFailures   \* most events whose updates the database refuses

ASSUME UsageAssumption ==
  /\ UsageEvents \in Nat /\ UsageBuffer \in Nat \ {0} /\ UsageFailures \in Nat
  /\ Minutes \in Nat \ {0} /\ MinutesPerHour \in Nat \ {0}

Events == 1..UsageEvents
EventTypes == {"msg_push", "msg_pull"}
UsageLogs == {"hourly", "realtime"}
Minute == 0..Minutes - 1
HourOf(m) == m - (m % MinutesPerHour)
Hours == {HourOf(m) : m \in Minute}

VARIABLES usageEvent,   \* event -> what was counted, when, and whether the worker has it
          usageUpdates, \* updates under way: of which log, with which events
          usageDoc,     \* log -> its documents, named by the event that made them
          refused       \* log -> events of the updates that failed (history)

usageVars == <<usageEvent, usageUpdates, usageDoc, refused>>

Update == [log: UsageLogs, of: SUBSET Events, pc: {"sent", "insert"}]

UsageTypeOK ==
  /\ usageEvent \in [Events -> [st: {"none", "queued", "taken"}, type: EventTypes, ts: Minute]]
  /\ usageUpdates \subseteq Update
  /\ usageDoc \in [UsageLogs -> [Events ->
       [there: BOOLEAN, date: Minute,
        message_pushed: 0..UsageEvents, message_pulled: 0..UsageEvents]]]
  /\ refused \in [UsageLogs -> SUBSET Events]

UsageInit ==
  /\ usageEvent = [e \in Events |-> [st |-> "none", type |-> "msg_push", ts |-> 0]]
  /\ usageUpdates = {}
  /\ usageDoc = [l \in UsageLogs |-> [e \in Events |->
       [there |-> FALSE, date |-> 0, message_pushed |-> 0, message_pulled |-> 0]]]
  /\ refused = [l \in UsageLogs |-> {}]

-----------------------------------------------------------------------------
\* addPushed and addPulled put one event of one message into the worker's queue.  The
\* events are numbered in the order of their time stamps.
AddUsage(e, t, m) ==
  /\ usageEvent[e].st = "none"
  /\ \A f \in Events : f < e => usageEvent[f].st # "none" /\ usageEvent[f].ts <= m
  /\ usageEvent' = [usageEvent EXCEPT ![e] = [st |-> "queued", type |-> t, ts |-> m]]
  /\ UNCHANGED <<usageUpdates, usageDoc, refused>>

\* The worker adds the events of its buffer up by the minute, and sends for every
\* minute an update to both logs, without waiting.
UpdatesOf(buffer) ==
  {[log |-> l, of |-> {e \in buffer : usageEvent[e].ts = m}, pc |-> "sent"] :
     l \in UsageLogs, m \in {usageEvent[e].ts : e \in buffer}}

ProcessUsage(buffer) ==
  /\ buffer # {} /\ Cardinality(buffer) <= UsageBuffer
  /\ \A e \in buffer : usageEvent[e].st = "queued"
  /\ usageEvent' = [e \in Events |-> IF e \in buffer THEN [usageEvent[e] EXCEPT !.st = "taken"]
                                     ELSE usageEvent[e]]
  /\ usageUpdates' = usageUpdates \cup UpdatesOf(buffer)
  /\ UNCHANGED <<usageDoc, refused>>

\* Mutant of DatesOf: the date of the hourly log keeps its minutes.
DatesKept(l, m) == {m}

\* The date of an update.  Both updates are given one Date object, whose minutes are
\* cleared once the realtime update is sent: the driver may see it before or after,
\* in the condition and in the modifier.
DatesOf(l, m) == IF l = "hourly" THEN {HourOf(m)} ELSE {m, HourOf(m)}

MinuteOf(u) == usageEvent[CHOOSE e \in u.of : TRUE].ts

OfType(es, t) == {e \in es : usageEvent[e].type = t}

\* Mutant of Increments: the counters are set.
Replaces(doc, u, date) ==
  [doc EXCEPT !.there = TRUE, !.date = date,
              !.message_pushed = Cardinality(OfType(u.of, "msg_push")),
              !.message_pulled = Cardinality(OfType(u.of, "msg_pull"))]

\* What $set and $inc make of a document.
Increments(doc, u, date) ==
  [doc EXCEPT !.there = TRUE, !.date = date,
              !.message_pushed = @ + Cardinality(OfType(u.of, "msg_push")),
              !.message_pulled = @ + Cardinality(OfType(u.of, "msg_pull"))]

\* The upsert changes one of the documents that match, or finds none ...
UpsertUsage(u) ==
  /\ u \in usageUpdates /\ u.pc = "sent"
  /\ \E match \in DatesOf(u.log, MinuteOf(u)), date \in DatesOf(u.log, MinuteOf(u)) :
       LET found == {d \in Events : /\ usageDoc[u.log][d].there
                                    /\ usageDoc[u.log][d].date = match} IN
       \/ /\ found = {}
          /\ usageUpdates' = (usageUpdates \ {u}) \cup {[u EXCEPT !.pc = "insert"]}
          /\ UNCHANGED usageDoc
       \/ \E d \in found :
            /\ usageDoc' = [usageDoc EXCEPT ![u.log][d] = Increments(@, u, date)]
            /\ usageUpdates' = usageUpdates \ {u}
  /\ UNCHANGED <<usageEvent, refused>>

\* ... and inserts one, even if another update has inserted the same meanwhile.
InsertUsage(u) ==
  LET d == Min(u.of) IN
  /\ u \in usageUpdates /\ u.pc = "insert"
  /\ \E date \in DatesOf(u.log, MinuteOf(u)) :
       usageDoc' = [usageDoc EXCEPT ![u.log][d] = Increments(@, u, date)]
  /\ usageUpdates' = usageUpdates \ {u}
  /\ UNCHANGED <<usageEvent, refused>>

\* An update that fails is only printed.
UsageRefused(u) ==
  /\ u \in usageUpdates /\ u.pc = "sent"
  /\ Cardinality(UNION {refused[l] : l \in UsageLogs}) < UsageFailures
  /\ refused' = [refused EXCEPT ![u.log] = @ \cup u.of]
  /\ usageUpdates' = usageUpdates \ {u}
  /\ UNCHANGED <<usageEvent, usageDoc>>

-----------------------------------------------------------------------------
(* The charts: $match, $group and $sum over the documents of a log.         *)

SumOf(l, S, Field(_)) == SumFunctionOnSet([d \in Events |-> Field(usageDoc[l][d])], S)
Dated(l, dates) == {d \in Events : usageDoc[l][d].there /\ usageDoc[l][d].date \in dates}

\* /last_5d: both counters of a date.
Last5d(h) ==
  [message_pushed |-> SumOf("hourly", Dated("hourly", {h}), LAMBDA doc : doc.message_pushed),
   message_pulled |-> SumOf("hourly", Dated("hourly", {h}), LAMBDA doc : doc.message_pulled)]

\* /last_24h_queue and /last_5d_queue: one sum of both.
Last5dQueue(h) ==
  SumOf("hourly", Dated("hourly", {h}), LAMBDA doc : doc.message_pulled + doc.message_pushed)

\* /today: both counters of all dates (the dates of the model are of one day).
UsageToday ==
  [message_pushed |-> SumOf("hourly", Dated("hourly", Minute), LAMBDA doc : doc.message_pushed),
   message_pulled |-> SumOf("hourly", Dated("hourly", Minute), LAMBDA doc : doc.message_pulled)]

\* /last_12h_queue: what was pushed, by the dates of the realtime log.
Last12hQueue(dates) ==
  SumOf("realtime", Dated("realtime", dates), LAMBDA doc : doc.message_pushed)

-----------------------------------------------------------------------------
UsageNext ==
  \/ \E e \in Events, t \in EventTypes, m \in Minute : AddUsage(e, t, m)
  \/ \E buffer \in SUBSET Events : ProcessUsage(buffer)
  \/ \E u \in usageUpdates : UpsertUsage(u) \/ InsertUsage(u) \/ UsageRefused(u)

UsageSpec == UsageInit /\ [][UsageNext]_usageVars

-----------------------------------------------------------------------------
\* The events whose update of a log has come through, and how many there are of a type
\* and hour.
UnderWay(l) == UNION {u.of : u \in {v \in usageUpdates : v.log = l}}
Counted(l) == {e \in Events : usageEvent[e].st = "taken"} \ (UnderWay(l) \cup refused[l])
CountedIn(l, t, h) ==
  Cardinality({e \in OfType(Counted(l), t) : HourOf(usageEvent[e].ts) = h})

SameHour(h) == {m \in Minute : HourOf(m) = h}

\* However the updates of overlapping buffers meet, duplicates of a document
\* included, the charts by the hour show exactly what was counted, and the chart by
\* the minute has every message once, in its hour.
UsageAddsUp ==
  /\ \A h \in Hours :
       /\ Last5d(h).message_pushed = CountedIn("hourly", "msg_push", h)
       /\ Last5d(h).message_pulled = CountedIn("hourly", "msg_pull", h)
       /\ Last5dQueue(h) = Last5d(h).message_pushed + Last5d(h).message_pulled
       /\ Last12hQueue(SameHour(h)) = CountedIn("realtime", "msg_push", h)
  /\ UsageToday.message_pushed =
       SumFunctionOnSet([h \in Hours |-> CountedIn("hourly", "msg_push", h)], Hours)
=============================================================================
