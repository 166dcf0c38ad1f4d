-------------------------- MODULE MongoQueueClient --------------------------
(***************************************************************************)
(* The MongoDB driver of a queue (lib/queue_backend/mongodb.js).           *)
(*                                                                         *)
(* A queue is two collections: the data of the messages, and one metadata  *)
(* document per message that makes it visible to pulls.  No operation on   *)
(* the two is atomic: push inserts data then metadata, a pull removes      *)
(* metadata then data, purge and delete empty data then metadata.  Every   *)
(* process of the service (the API servers and the workers) runs these     *)
(* steps at its own pace and may die between any two of them.              *)
(*                                                                         *)
(* A message is named by the push call that inserts it.                    *)
(***************************************************************************)
EXTENDS Naturals, FiniteSets

CONSTANTS Messages,  \* push calls, each of one message
          Consumers, \* processes that pull again and again
          Purges,    \* purge calls
          Deletes,   \* delete calls
          Count,     \* messages a pull asks for
          Crashes,   \* whether a process may die with a call in progress
          None       \* a consumer holds no metadata

ASSUME MongoAssumption == Count \in Nat \ {0} /\ Crashes \in BOOLEAN
ASSUME NoneAssumption == None \notin Messages

VARIABLES data,       \* messages whose data is stored
          meta,       \* messages whose metadata is stored
          dataExists, \* the data collection exists: drop() fails otherwise
          push,       \* progress of each push
          wipe,       \* progress of each purge and delete
          pull,       \* progress of each consumer's pull
          pick,       \* message whose metadata the pull removed last
          got,        \* what the pull in progress has collected
          delivered   \* what the pulls of a consumer have returned

vars == <<data, meta, dataExists, push, wipe, pull, pick, got, delivered>>
pulls == <<pull, pick, got, delivered>>

TypeOK ==
  /\ data \subseteq Messages
  /\ meta \subseteq Messages
  /\ dataExists \in BOOLEAN
  /\ push \in [Messages -> {"idle", "inserted", "done", "dead"}]
  /\ wipe \in [Purges \cup Deletes -> {"idle", "half", "done", "dead"}]
  /\ pull \in [Consumers -> {"loop", "picked", "returning", "dead"}]
  /\ pick \in [Consumers -> Messages \cup {None}]
  /\ got \in [Consumers -> SUBSET Messages]
  /\ delivered \in [Consumers -> SUBSET Messages]

Init ==
  /\ data = {}
  /\ meta = {}
  /\ dataExists = FALSE
  /\ push = [m \in Messages |-> "idle"]
  /\ wipe = [w \in Purges \cup Deletes |-> "idle"]
  /\ pull = [c \in Consumers |-> "loop"]
  /\ pick = [c \in Consumers |-> None]
  /\ got = [c \in Consumers |-> {}]
  /\ delivered = [c \in Consumers |-> {}]

-----------------------------------------------------------------------------
(* push: insert the data, then the metadata that points to it. *)

InsertData(m) ==
  /\ data' = data \cup {m}
  /\ dataExists' = TRUE
  /\ UNCHANGED meta

InsertMeta(m) ==
  /\ meta' = meta \cup {m}
  /\ UNCHANGED <<data, dataExists>>

PushStep(m, label, next, Insert(_)) ==
  /\ push[m] = label
  /\ Insert(m)
  /\ push' = [push EXCEPT ![m] = next]
  /\ UNCHANGED <<wipe, pulls>>

\* Mutant of Push: the metadata is inserted first.
PushMetaFirst(m) == \/ PushStep(m, "idle", "inserted", InsertMeta)
                    \/ PushStep(m, "inserted", "done", InsertData)

Push(m) == \/ PushStep(m, "idle", "inserted", InsertData)
           \/ PushStep(m, "inserted", "done", InsertMeta)

-----------------------------------------------------------------------------
(* pull: up to Count times remove some metadata, then the data it points to.
   The sort is passed as a third argument that findOneAndDelete does not have, so
   the order of messages is whatever order the collection yields them in.        *)

\* Mutant of TakeMeta: the metadata is found and stays.
FindMeta(c) ==
  /\ pull[c] = "loop"
  /\ \E m \in meta : pick' = [pick EXCEPT ![c] = m]
  /\ pull' = [pull EXCEPT ![c] = "picked"]
  /\ UNCHANGED <<data, meta, dataExists, push, wipe, got, delivered>>

TakeMeta(c) ==
  /\ pull[c] = "loop"
  /\ \E m \in meta : /\ meta' = meta \ {m}
                     /\ pick' = [pick EXCEPT ![c] = m]
  /\ pull' = [pull EXCEPT ![c] = "picked"]
  /\ UNCHANGED <<data, dataExists, push, wipe, got, delivered>>

\* Mutant of FindNothing: what _pull yields is collected before it is tested.
CollectNothing(c) ==
  /\ pull[c] = "loop"
  /\ meta = {}
  /\ got' = [got EXCEPT ![c] = @ \cup {None}]
  /\ pull' = [pull EXCEPT ![c] = "returning"]
  /\ UNCHANGED <<data, meta, dataExists, push, wipe, pick, delivered>>

\* No metadata: _pull yields nothing and the loop breaks.
FindNothing(c) ==
  /\ pull[c] = "loop"
  /\ meta = {}
  /\ pull' = [pull EXCEPT ![c] = "returning"]
  /\ UNCHANGED <<data, meta, dataExists, push, wipe, pick, got, delivered>>

\* Mutant of TakeData: the data is read and stays.
ReadData(c) ==
  /\ pull[c] = "picked"
  /\ got' = [got EXCEPT ![c] = @ \cup ({pick[c]} \cap data)]
  /\ pull' = [pull EXCEPT ![c] =
                IF pick[c] \in data /\ Cardinality(got'[c]) < Count THEN "loop"
                ELSE "returning"]
  /\ pick' = [pick EXCEPT ![c] = None]
  /\ UNCHANGED <<data, meta, dataExists, push, wipe, delivered>>

\* Data that is gone looks like an empty queue: the loop breaks there as well.
TakeData(c) ==
  /\ pull[c] = "picked"
  /\ data' = data \ {pick[c]}
  /\ got' = [got EXCEPT ![c] = @ \cup ({pick[c]} \cap data)]
  /\ pull' = [pull EXCEPT ![c] =
                IF pick[c] \in data /\ Cardinality(got'[c]) < Count THEN "loop"
                ELSE "returning"]
  /\ pick' = [pick EXCEPT ![c] = None]
  /\ UNCHANGED <<meta, dataExists, push, wipe, delivered>>

\* The pull returns what it has; the next one of this consumer begins.
Return(c) ==
  /\ pull[c] = "returning"
  /\ delivered' = [delivered EXCEPT ![c] = @ \cup got[c]]
  /\ got' = [got EXCEPT ![c] = {}]
  /\ pull' = [pull EXCEPT ![c] = "loop"]
  /\ UNCHANGED <<data, meta, dataExists, push, wipe, pick>>

Pull(c) == TakeMeta(c) \/ FindNothing(c) \/ TakeData(c) \/ Return(c)

-----------------------------------------------------------------------------
(* purge and delete: the data, then the metadata. *)

PurgeData(w) ==
  /\ w \in Purges /\ wipe[w] = "idle"
  /\ data' = {}
  /\ wipe' = [wipe EXCEPT ![w] = "half"]
  /\ UNCHANGED <<meta, dataExists, push, pulls>>

\* drop() rejects when there is no data collection: the metadata is not dropped.
DropData(w) ==
  /\ w \in Deletes /\ wipe[w] = "idle"
  /\ data' = {}
  /\ dataExists' = FALSE
  /\ wipe' = [wipe EXCEPT ![w] = IF dataExists THEN "half" ELSE "done"]
  /\ UNCHANGED <<meta, push, pulls>>

WipeMeta(w) ==
  /\ wipe[w] = "half"
  /\ meta' = {}
  /\ wipe' = [wipe EXCEPT ![w] = "done"]
  /\ UNCHANGED <<data, dataExists, push, pulls>>

Wipe(w) == PurgeData(w) \/ DropData(w) \/ WipeMeta(w)

-----------------------------------------------------------------------------
(* A process dies between two steps of a call: the call goes no further. *)

CrashPush(m) ==
  /\ push[m] = "inserted"
  /\ push' = [push EXCEPT ![m] = "dead"]
  /\ UNCHANGED <<data, meta, dataExists, wipe, pulls>>

CrashWipe(w) ==
  /\ wipe[w] = "half"
  /\ wipe' = [wipe EXCEPT ![w] = "dead"]
  /\ UNCHANGED <<data, meta, dataExists, push, pulls>>

CrashPull(c) ==
  /\ pull[c] # "dead"
  /\ pull' = [pull EXCEPT ![c] = "dead"]
  /\ pick' = [pick EXCEPT ![c] = None]
  /\ got' = [got EXCEPT ![c] = {}]
  /\ UNCHANGED <<data, meta, dataExists, push, wipe, delivered>>

Crash ==
  /\ Crashes
  /\ \/ \E m \in Messages : CrashPush(m)
     \/ \E w \in Purges \cup Deletes : CrashWipe(w)
     \/ \E c \in Consumers : CrashPull(c)

-----------------------------------------------------------------------------
Next == \/ \E m \in Messages : Push(m)
        \/ \E c \in Consumers : Pull(c)
        \/ \E w \in Purges \cup Deletes : Wipe(w)
        \/ Crash

Spec == Init /\ [][Next]_vars

\* The calls in progress go on, and consumers pull again and again.
FairSpec == /\ Spec
            /\ \A m \in Messages : WF_vars(Push(m))
            /\ \A c \in Consumers : WF_vars(Pull(c))

-----------------------------------------------------------------------------
(* The abstract queue. *)

\* A message is fresh until its metadata is inserted, unless its data was wiped
\* before that; it is queued as long as both its parts are there; a pull that
\* removed its metadata has taken it if the data is still there to be removed.
Lossy == Purges \cup Deletes # {} \/ Crashes

MQ == INSTANCE MessageQueue WITH
        fresh  <- {m \in Messages : push[m] = "idle" \/ (push[m] = "inserted" /\ m \in data)},
        queued <- meta \cap data,
        taken  <- [c \in Consumers |-> got[c] \cup ({pick[c]} \cap data)]

\* Two collections updated one after the other behave like one queue that gives
\* each message to at most one pull, gives out nothing that was not pushed, and
\* loses messages to purges, deletions and crashes only.
ImplementsQueue == MQ!Spec

-----------------------------------------------------------------------------
(* What the driver keeps as long as nothing is purged, deleted or crashes. *)

\* A pull comes back with less than it asked for only when there is nothing to
\* pull: at no time does metadata point to data that is not there.
ShortPullMeansEmpty ==
  [][\A c \in Consumers :
       /\ pull[c] # "returning" /\ pull'[c] = "returning"
       /\ Cardinality(got'[c]) < Count
       => meta = {}]_pull

\* No data stays behind: what is stored is visible to pulls, or about to be, or
\* in the hands of the pull that removes it.
NoOrphans ==
  \A m \in data : \/ m \in meta
                  \/ push[m] = "inserted"
                  \/ \E c \in Consumers : pick[c] = m

\* Every message that is pushed is returned by some pull.
EventuallyDelivered ==
  \A m \in Messages : push[m] = "done" ~> \E c \in Consumers : m \in delivered[c]
=============================================================================
