---------------------------- MODULE QueueService ----------------------------
(***************************************************************************)
(* The queue operations of the API and the accounting behind them.         *)
(*                                                                         *)
(* Requests (repository/queue.js, called from routes/core.js, the gRPC     *)
(* server and routes/restricted/queue.js) read and write three stores that *)
(* no transaction ties together: the queue documents and the user's quota  *)
(* in MongoDB, and the backend queue that holds the messages.  Counters    *)
(* and quota are not written by the requests: every operation sends a      *)
(* statistics event without awaiting it, a worker                          *)
(* (lib/queue_stats_worker.js) collects events in a buffer and turns a     *)
(* buffer into $inc updates, which are not awaited either.                 *)
(*                                                                         *)
(* One step is the code between two awaits that reach a database.  One     *)
(* user is modelled: documents are looked up by {name, user}, so users     *)
(* share nothing but the worker.  A request is a process that serves one   *)
(* call.  A message is <<r, i>>, the i-th message of the push r; bytes are *)
(* charged in the same updates as messages and are abstracted with them.   *)
(***************************************************************************)
EXTENDS Integers, FiniteSets

CONSTANTS Requests,        \* the calls the API serves
          Names,           \* queue names
          Existing,        \* names whose queue exists at the start
          Ops,             \* operations the requests perform
          Provider,        \* driver of the user's backend
          CreateRights,    \* values of access_create_queue among the tokens
          MaxBatch,        \* most messages in one push or pull
          MaxInQueue,      \* quota.max_messages_in_queue
          InitialMessages, \* quota.messages_left at the start
          InitialQueues,   \* quota.queues_left at the start
          BufferSize,      \* bufferSize of the statistics worker
          Failures,        \* whether databases and backends may reject calls
          NoDoc,           \* null: the lookup found no queue document
          Missing          \* the backend holds no queue of this name

Messages == Requests \X (1 .. MaxBatch)

\* Where a document was created: by a request in its gate (prePushAction), in
\* push itself, by the route that adds a queue, or before the start.
Phases == {"gate", "push", "route"}
DocIds == (Requests \X Phases) \cup {<<"seed", "init">>}

\* counted: the counters are present in the stored document.  The upsert that
\* creates a document does not write them; mongoose fills in 0 on load.
Docs == [id: DocIds, messages_in_queue: Int, total_messages: Int, counted: BOOLEAN]

EventTypes == {"msg_push", "msg_pull", "queue_create", "queue_delete"}
Events == [type: EventTypes, by: Requests, at: Phases \cup {"pull", "delete"},
           name: Names, msgs: SUBSET Messages]

\* One update of the worker: on the counters of a queue or on the quota.
Updates == [on: {"queue"}, name: Names, events: SUBSET Events]
             \cup [on: {"user"}, events: SUBSET Events]

OpNames == {"push", "pull", "purge", "delete", "create", "settings", "alarm"}
Labels == {"gate_find", "gate_user", "get_find", "upsert", "load",
           "client_create", "send", "pull_find", "pulling", "purge_find",
           "purge_save", "purge_client", "delete_find", "delete_remove",
           "delete_client", "edit_find", "edit_save", "done"}

\* not_created: a call that had upserted the document could not create the
\* backend queue.  failed: any other error.
Answers == {"none", "ok", "refused", "queue_not_found", "not_created", "failed"}

ASSUME QueueServiceAssumption ==
  /\ IsFiniteSet(Requests)
  /\ Existing \subseteq Names
  /\ Ops \subseteq OpNames
  /\ Provider \in {"mongodb", "rabbitmq", "redis"}
  /\ CreateRights \subseteq BOOLEAN
  /\ MaxBatch \in Nat \ {0}
  /\ BufferSize \in Nat \ {0}
  /\ Failures \in BOOLEAN
  /\ MaxInQueue \in Nat
  /\ InitialMessages \in Nat
  /\ InitialQueues \in Nat

ASSUME NoDocAssumption == NoDoc \notin Docs
ASSUME MissingAssumption == \A S \in SUBSET Messages : Missing # S

VARIABLES queueDoc,    \* name -> its document in the queues collection, or NoDoc
          quota,       \* the user's quota counters
          store,       \* name -> messages held by the backend, or Missing
          unsent,      \* events whose QueueStats push is on its way
          statsQueue,  \* events stored in the __queue_stats queue
          buffer,      \* events the worker holds in memory
          updates,     \* updates the worker issued, not yet executed
          req          \* request -> its progress and local variables

vars == <<queueDoc, quota, store, unsent, statsQueue, buffer, updates, req>>

-----------------------------------------------------------------------------
(* Local state of a request. *)

\* msgs: the messages to push.  got: the messages a pull holds, or those a push
\* has handed to the driver.  doc: the queue document as the request loaded it.
ReqStates == [pc: Labels, op: OpNames, name: Names, may_create: BOOLEAN,
              phase: Phases, count: 1 .. MaxBatch, doc: Docs \cup {NoDoc},
              got: SUBSET Messages, answer: Answers]

FirstLabel(op) == CASE op = "push"   -> "gate_find"
                    [] op = "pull"   -> "pull_find"
                    [] op = "purge"  -> "purge_find"
                    [] op = "delete" -> "delete_find"
                    [] op = "create" -> "upsert"
                    [] op \in {"settings", "alarm"} -> "edit_find"

\* Mutant of Calls: parseInt(count) without "|| 1" lets a pull of 0 through.
CallsOfZero(op) ==
  [pc: {FirstLabel(op)}, op: {op}, name: Names, may_create: CreateRights,
   phase: {"gate"}, count: 0 .. MaxBatch, doc: {NoDoc}, got: {{}}, answer: {"none"}]

\* The calls a client can make of one operation.
Calls(op) ==
  [pc: {FirstLabel(op)}, op: {op}, name: Names,
   may_create: IF op = "push" THEN CreateRights ELSE {TRUE},
   phase: {IF op = "create" THEN "route" ELSE "gate"},
   count: IF op \in {"push", "pull"} THEN 1 .. MaxBatch ELSE {1},
   doc: {NoDoc}, got: {{}}, answer: {"none"}]

At(r, label) == req[r].pc = label
Goto(r, label) == req' = [req EXCEPT ![r].pc = label]
Load(r, doc, label) == req' = [req EXCEPT ![r].pc = label, ![r].doc = doc]
Answer(r, a) == req' = [req EXCEPT ![r].pc = "done", ![r].answer = a]

\* The messages a push sends.
Batch(r) == {r} \X (1 .. req[r].count)

\* The document under the name the request works on, as it is stored now.
Stored(r) == queueDoc[req[r].name]
Backlog(r) == store[req[r].name]

\* An event is sent without await: from here it travels on its own.
SendEvent(r, type, at, msgs) ==
  unsent' = unsent \cup {[type |-> type, by |-> r, at |-> at,
                          name |-> req[r].name, msgs |-> msgs]}

worker == <<statsQueue, buffer, updates>>
database == <<queueDoc, quota>>

-----------------------------------------------------------------------------
Init ==
  /\ queueDoc = [n \in Names |->
                   IF n \in Existing
                   THEN [id |-> <<"seed", "init">>, messages_in_queue |-> 0,
                         total_messages |-> 0, counted |-> FALSE]
                   ELSE NoDoc]
  /\ quota = [messages_left |-> InitialMessages, queues_left |-> InitialQueues]
  /\ store = [n \in Names |-> IF n \in Existing THEN {} ELSE Missing]
  /\ unsent = {}
  /\ statsQueue = {}
  /\ buffer = {}
  /\ updates = {}
  /\ req \in [Requests -> UNION {Calls(op) : op \in Ops}]

-----------------------------------------------------------------------------
(* push: the gate (prePushAction). *)

\* The token is missing, inactive or without the right to the operation or the
\* queue, or the data is missing or too large: answered before any change.
Reject(r) ==
  /\ req[r].pc \in {"gate_find", "pull_find"}
  /\ Answer(r, "refused")
  /\ UNCHANGED <<database, store, unsent, worker>>

\* The gate loads the queue document ...
GateFind(r) ==
  /\ At(r, "gate_find")
  /\ Load(r, Stored(r), "gate_user")
  /\ UNCHANGED <<database, store, unsent, worker>>

\* ... then the user, and compares the quota with the document loaded before.
CanPush == quota.messages_left > 0
CanCreateQueue == quota.queues_left > 0

\* Mutant of Admitted: the right to create a queue is not looked at.
AdmittedAnyToken(r) ==
  /\ req[r].doc # NoDoc => req[r].doc.messages_in_queue <= MaxInQueue
  /\ CanPush
  /\ req[r].doc = NoDoc => CanCreateQueue

Admitted(r) ==
  /\ req[r].doc # NoDoc => req[r].doc.messages_in_queue <= MaxInQueue
  /\ CanPush
  /\ req[r].doc = NoDoc => req[r].may_create /\ CanCreateQueue

GateUser(r) ==
  /\ At(r, "gate_user")
  /\ \/ /\ ~ Admitted(r)
        /\ Answer(r, "refused")
     \/ /\ Admitted(r)
        /\ req' = [req EXCEPT ![r].pc = "get_find",
                     ![r].phase = IF req[r].doc = NoDoc THEN "gate" ELSE "push"]
  /\ UNCHANGED <<database, store, unsent, worker>>

-----------------------------------------------------------------------------
(* getQueue and create: in the gate, in push, or for the route that adds a queue. *)

\* Once getQueue returns: the gate goes on with push, push with its loop, the
\* route with its answer, or with the save of a notification that was asked for.
Got(r, doc) ==
  CASE req[r].phase = "gate" ->
         req' = [req EXCEPT ![r].pc = "get_find", ![r].phase = "push", ![r].doc = doc]
    [] req[r].phase = "push" -> Load(r, doc, "send")
    [] req[r].phase = "route" ->
         \/ req' = [req EXCEPT ![r].pc = "done", ![r].doc = doc, ![r].answer = "ok"]
         \/ Load(r, doc, "edit_save")

GetFind(r) ==
  /\ At(r, "get_find")
  /\ IF Stored(r) = NoDoc THEN Goto(r, "upsert") ELSE Got(r, Stored(r))
  /\ UNCHANGED <<database, store, unsent, worker>>

\* create, first half: the backend exists, and the document is upserted by name.
\* The counters of a document that exists already are left alone.
Upsert(r) ==
  /\ At(r, "upsert")
  /\ queueDoc' = [queueDoc EXCEPT ![req[r].name] =
                    IF @ = NoDoc
                    THEN [id |-> <<r, req[r].phase>>, messages_in_queue |-> 0,
                          total_messages |-> 0, counted |-> FALSE]
                    ELSE @]
  /\ Goto(r, "load")
  /\ UNCHANGED <<quota, store, unsent, worker>>

\* The upsert rejects, by the unique index when two insert at a time, or because
\* the database fails: create catches the error and goes on.
UpsertFails(r) ==
  /\ Failures
  /\ At(r, "upsert")
  /\ Goto(r, "load")
  /\ UNCHANGED <<database, store, unsent, worker>>

\* No default backend or no backend of that key: create throws.
NoBackend(r) ==
  /\ At(r, "upsert")
  /\ Answer(r, "failed")
  /\ UNCHANGED <<database, store, unsent, worker>>

\* Mutant of LoadCreated: the queue is not created at the backend.
LoadCreatedOnly(r) ==
  /\ At(r, "load")
  /\ IF Stored(r) = NoDoc THEN Answer(r, "failed") ELSE Got(r, Stored(r))
  /\ UNCHANGED <<database, store, unsent, worker>>

\* create, second half: the document is loaded again; deleted meanwhile, it is
\* null and looking up its client throws.
LoadCreated(r) ==
  /\ At(r, "load")
  /\ IF Stored(r) = NoDoc THEN Answer(r, "failed")
                          ELSE Load(r, Stored(r), "client_create")
  /\ UNCHANGED <<database, store, unsent, worker>>

\* The driver creates the backend queue if there is none, and the creation is
\* reported, whether the document was new or not.
ClientCreate(r) ==
  /\ At(r, "client_create")
  /\ store' = [store EXCEPT ![req[r].name] = IF @ = Missing THEN {} ELSE @]
  /\ SendEvent(r, "queue_create", req[r].phase, {})
  /\ Got(r, req[r].doc)
  /\ UNCHANGED <<database, worker>>

\* The document is there, or will be, before its backend queue.
Creating(r) == req[r].pc \in {"load", "client_create"}

-----------------------------------------------------------------------------
(* push: the loop over the messages. *)

\* A push to a backend queue that does not exist: MongoDB creates the collection,
\* RabbitMQ drops the message without an error, rsmq reports an error.
AfterPush(held, m) ==
  CASE held # Missing -> held \cup {m}
    [] held = Missing /\ Provider = "mongodb" -> {m}
    [] OTHER -> Missing

\* Mutant of PushFails: the driver swallows the error of a failed push.
PushSwallowed(r) == FALSE

PushFails(r) == Backlog(r) = Missing /\ Provider = "redis"

\* The statistics event of a push is sent after the last message.
Send(r) ==
  /\ At(r, "send")
  /\ ~ PushFails(r)
  /\ LET m == <<r, 1 + Cardinality(req[r].got)>>
         sent == req[r].got \cup {m}
     IN  /\ store' = [store EXCEPT ![req[r].name] = AfterPush(@, m)]
         /\ IF sent = Batch(r)
            THEN /\ SendEvent(r, "msg_push", "push", sent)
                 /\ req' = [req EXCEPT ![r].pc = "done", ![r].got = sent,
                                       ![r].answer = "ok"]
            ELSE /\ req' = [req EXCEPT ![r].got = sent]
                 /\ UNCHANGED unsent
  /\ UNCHANGED <<database, worker>>

\* The driver's push rejects: the messages stored before it are not reported.
SendFails(r) ==
  /\ At(r, "send")
  /\ PushFails(r)
  /\ Answer(r, "failed")
  /\ UNCHANGED <<database, store, unsent, worker>>

-----------------------------------------------------------------------------
(* pull *)

PullFind(r) ==
  /\ At(r, "pull_find")
  /\ IF Stored(r) = NoDoc THEN Answer(r, "queue_not_found")
                          ELSE Load(r, Stored(r), "pulling")
  /\ UNCHANGED <<database, store, unsent, worker>>

PullOne(r) ==
  /\ At(r, "pulling")
  /\ Backlog(r) # Missing
  /\ Cardinality(req[r].got) < req[r].count
  /\ \E m \in Backlog(r) :
       /\ store' = [store EXCEPT ![req[r].name] = @ \ {m}]
       /\ req' = [req EXCEPT ![r].got = @ \cup {m}]
  /\ UNCHANGED <<database, unsent, worker>>

\* RabbitMQ's get and rsmq's pop on a queue that does not exist report an error;
\* a collection that does not exist is empty.
PullFails(r) == /\ Backlog(r) = Missing
                /\ Provider # "mongodb"
                /\ Cardinality(req[r].got) < req[r].count

PullEnds(r) == \/ Cardinality(req[r].got) = req[r].count
               \/ Backlog(r) \in {{}, Missing}

\* The loop ends with count messages or the first empty answer; what was pulled
\* is reported if it is not empty.
PullReturn(r) ==
  /\ At(r, "pulling")
  /\ PullEnds(r) /\ ~ PullFails(r)
  /\ IF req[r].got = {} THEN UNCHANGED unsent
                        ELSE SendEvent(r, "msg_pull", "pull", req[r].got)
  /\ Answer(r, "ok")
  /\ UNCHANGED <<database, store, worker>>

PullThrows(r) ==
  /\ At(r, "pulling")
  /\ PullFails(r)
  /\ Answer(r, "failed")
  /\ UNCHANGED <<database, store, unsent, worker>>

-----------------------------------------------------------------------------
(* Saves of a copy of the document. *)

\* Mutant of Saved: the counters of the copy are written, stored before or not.
SavedWhole(loaded, doc) ==
  IF doc = NoDoc THEN doc
  ELSE IF doc.id # loaded.id THEN doc
  ELSE [doc EXCEPT !.messages_in_queue = loaded.messages_in_queue,
                   !.total_messages = loaded.total_messages,
                   !.counted = TRUE]

\* save() writes, to the document of that _id, the fields that changed since the
\* load and the defaults that mongoose filled in at the load: 0 for each counter
\* that was not stored then, whatever has been counted since.
Saved(loaded, doc) ==
  IF doc = NoDoc THEN doc
  ELSE IF doc.id # loaded.id \/ loaded.counted THEN doc
  ELSE [doc EXCEPT !.messages_in_queue = 0, !.total_messages = 0, !.counted = TRUE]

\* The settings of a queue are changed in a copy; without a document that throws.
\* A pass of the alarms finds only a document whose counters are stored: those
\* of an alarm were saved with its threshold.
EditFind(r) ==
  /\ At(r, "edit_find")
  /\ IF Stored(r) = NoDoc \/ (req[r].op = "alarm" /\ ~ Stored(r).counted)
     THEN Answer(r, "queue_not_found")
     ELSE Load(r, Stored(r), "edit_save")
  /\ UNCHANGED <<database, store, unsent, worker>>

\* The copy may be the one that create has loaded before the driver's create.
EditSave(r) ==
  /\ At(r, "edit_save")
  /\ queueDoc' = [queueDoc EXCEPT ![req[r].name] = Saved(req[r].doc, @)]
  /\ Answer(r, "ok")
  /\ UNCHANGED <<quota, store, unsent, worker>>

-----------------------------------------------------------------------------
(* purge *)

PurgeFind(r) ==
  /\ At(r, "purge_find")
  /\ IF Stored(r) = NoDoc THEN Answer(r, "queue_not_found")
                          ELSE Load(r, Stored(r), "purge_save")
  /\ UNCHANGED <<database, store, unsent, worker>>

\* The counter is written if it was not 0 at the load, or as a default.
PurgeSaved(loaded, doc) ==
  IF doc = NoDoc THEN doc
  ELSE IF doc.id # loaded.id \/ (loaded.counted /\ loaded.messages_in_queue = 0) THEN doc
  ELSE [doc EXCEPT !.messages_in_queue = 0,
                   !.total_messages = IF loaded.counted THEN @ ELSE 0,
                   !.counted = TRUE]

PurgeSave(r) ==
  /\ At(r, "purge_save")
  /\ queueDoc' = [queueDoc EXCEPT ![req[r].name] = PurgeSaved(req[r].doc, @)]
  /\ Goto(r, "purge_client")
  /\ UNCHANGED <<quota, store, unsent, worker>>

\* Purging a RabbitMQ queue that does not exist is an error.
PurgeClient(r) ==
  /\ At(r, "purge_client")
  /\ store' = [store EXCEPT ![req[r].name] = IF @ = Missing THEN @ ELSE {}]
  /\ Answer(r, IF Backlog(r) = Missing /\ Provider = "rabbitmq" THEN "failed" ELSE "ok")
  /\ UNCHANGED <<database, unsent, worker>>

-----------------------------------------------------------------------------
(* delete *)

DeleteFind(r) ==
  /\ At(r, "delete_find")
  /\ IF Stored(r) = NoDoc THEN Answer(r, "queue_not_found")
                          ELSE Load(r, Stored(r), "delete_remove")
  /\ UNCHANGED <<database, store, unsent, worker>>

\* remove() goes by _id; it succeeds when the document is gone already.
DeleteRemove(r) ==
  /\ At(r, "delete_remove")
  /\ queueDoc' = [queueDoc EXCEPT ![req[r].name] =
                    IF @ # NoDoc /\ @.id = req[r].doc.id THEN NoDoc ELSE @]
  /\ Goto(r, "delete_client")
  /\ UNCHANGED <<quota, store, unsent, worker>>

\* The backend queue goes by its name, whoever created it.
DeleteClient(r) ==
  /\ At(r, "delete_client")
  /\ store' = [store EXCEPT ![req[r].name] = Missing]
  /\ SendEvent(r, "queue_delete", "delete", {})
  /\ Answer(r, "ok")
  /\ UNCHANGED <<database, worker>>

-----------------------------------------------------------------------------
\* A call to a database or a backend rejects, for whatever reason: the broker is
\* down, the message log takes no entry before a push, a save finds its document
\* removed, rsmq refuses to create a queue that another call has just created.
\* Only the upsert is caught: the request ends where it is, and what it did stays.
Rejects(r) ==
  /\ Failures
  /\ req[r].pc \notin {"upsert", "done"}
  /\ Answer(r, IF Creating(r) THEN "not_created" ELSE "failed")
  /\ UNCHANGED <<database, store, unsent, worker>>

-----------------------------------------------------------------------------
(* The statistics queue and its worker. *)

\* The un-awaited push of an event stores it.  Sends overtake each other.
StoreEvent ==
  \E e \in unsent :
    /\ unsent' = unsent \ {e}
    /\ statsQueue' = statsQueue \cup {e}
    /\ UNCHANGED <<database, store, buffer, updates, req>>

OfType(S, types) == {e \in S : e.type \in types}
CounterEvents(S, n) == {e \in OfType(S, {"msg_push", "msg_pull"}) : e.name = n}
\* Mutants of QuotaEvents: pushes, or creations, never reach the quota update.
QuotaEventsNoPush(S) == OfType(S, {"queue_create", "queue_delete"})
QuotaEventsNoCreate(S) == OfType(S, {"msg_push", "queue_delete"})

QuotaEvents(S) == OfType(S, {"msg_push", "queue_create", "queue_delete"})

\* Mutant of UpdatesFor: a buffer makes an entry for a queue on its pushes only.
UpdatesForPushes(S) ==
  {[on |-> "queue", name |-> n, events |-> CounterEvents(S, n)] :
       n \in {e.name : e \in OfType(S, {"msg_push"})}}
    \cup {[on |-> "user", events |-> E] : E \in {QuotaEvents(S)} \ {{}}}

\* processBufferFn: one update per queue that has events and one for the user.
\* They are all issued, and the buffer reset, before any other callback runs.
UpdatesFor(S) ==
  {[on |-> "queue", name |-> n, events |-> CounterEvents(S, n)] :
       n \in {e.name : e \in OfType(S, {"msg_push", "msg_pull"})}}
    \cup {[on |-> "user", events |-> E] : E \in {QuotaEvents(S)} \ {{}}}

\* The worker pulled an event; a full buffer is flushed at once.
WorkerPull ==
  \E e \in statsQueue :
    /\ statsQueue' = statsQueue \ {e}
    /\ LET filled == buffer \cup {e}
       IN  IF Cardinality(filled) = BufferSize
           THEN buffer' = {} /\ updates' = updates \cup UpdatesFor(filled)
           ELSE buffer' = filled /\ UNCHANGED updates
    /\ UNCHANGED <<database, store, unsent, req>>

\* Mutant of WorkerIdle: a worker that goes to sleep keeps a part-filled buffer.
WorkerIdleKeeps ==
  /\ statsQueue = {}
  /\ Cardinality(buffer) = BufferSize
  /\ buffer' = {}
  /\ updates' = updates \cup UpdatesFor(buffer)
  /\ UNCHANGED <<database, store, unsent, statsQueue, req>>

\* The worker found its queue empty: it flushes what it holds before it sleeps.
WorkerIdle ==
  /\ statsQueue = {}
  /\ buffer # {}
  /\ buffer' = {}
  /\ updates' = updates \cup UpdatesFor(buffer)
  /\ UNCHANGED <<database, store, unsent, statsQueue, req>>

\* The messages that the events of a type carry, and how many they are.
MessagesOf(S, type) == UNION {e.msgs : e \in OfType(S, {type})}
Pushed(S) == Cardinality(MessagesOf(S, "msg_push"))
Pulled(S) == Cardinality(MessagesOf(S, "msg_pull"))

\* Mutant of Counted: pulls are not told from pushes in the counter.
CountedAll(doc, S) ==
  IF doc = NoDoc THEN doc
  ELSE [doc EXCEPT !.messages_in_queue = @ + Pushed(S) + Pulled(S),
                   !.total_messages = @ + Pushed(S),
                   !.counted = TRUE]

\* An update of a queue goes by the queue's name: it finds whatever document is
\* there now, or none.
Counted(doc, S) ==
  IF doc = NoDoc THEN doc
  ELSE [doc EXCEPT !.messages_in_queue = @ + (Pushed(S) - Pulled(S)),
                   !.total_messages = @ + Pushed(S),
                   !.counted = TRUE]

\* Updates were not awaited, so they execute in any order.
ApplyStats ==
  \E u \in updates :
    /\ u.on = "queue"
    /\ queueDoc' = [queueDoc EXCEPT ![u.name] = Counted(@, u.events)]
    /\ updates' = updates \ {u}
    /\ UNCHANGED <<quota, store, unsent, statsQueue, buffer, req>>

ApplyQuota ==
  \E u \in updates :
    /\ u.on = "user"
    /\ quota' = [messages_left |-> quota.messages_left - Pushed(u.events),
                 queues_left |-> quota.queues_left
                                   + Cardinality(OfType(u.events, {"queue_delete"}))
                                   - Cardinality(OfType(u.events, {"queue_create"}))]
    /\ updates' = updates \ {u}
    /\ UNCHANGED <<queueDoc, store, unsent, statsQueue, buffer, req>>

-----------------------------------------------------------------------------
PushStep(r) == Reject(r) \/ GateFind(r) \/ GateUser(r) \/ Send(r) \/ SendFails(r)
CreateStep(r) == \/ GetFind(r) \/ Upsert(r) \/ UpsertFails(r) \/ NoBackend(r)
                 \/ LoadCreated(r) \/ ClientCreate(r)
PullStep(r) == PullFind(r) \/ PullOne(r) \/ PullReturn(r) \/ PullThrows(r)
PurgeStep(r) == PurgeFind(r) \/ PurgeSave(r) \/ PurgeClient(r)
DeleteStep(r) == DeleteFind(r) \/ DeleteRemove(r) \/ DeleteClient(r)
EditStep(r) == EditFind(r) \/ EditSave(r)

RequestStep(r) == \/ PushStep(r) \/ CreateStep(r) \/ PullStep(r)
                  \/ PurgeStep(r) \/ DeleteStep(r) \/ EditStep(r) \/ Rejects(r)
WorkerStep == WorkerPull \/ WorkerIdle
Apply == ApplyStats \/ ApplyQuota

Next == \/ \E r \in Requests : RequestStep(r)
        \/ StoreEvent \/ WorkerStep \/ Apply

Spec == Init /\ [][Next]_vars

\* Every call that started is answered by the database, sends and updates are
\* executed, and the worker loop runs.
FairSpec == /\ Spec
            /\ \A r \in Requests : WF_vars(RequestStep(r))
            /\ WF_vars(StoreEvent)
            /\ WF_vars(WorkerStep)
            /\ WF_vars(ApplyStats)
            /\ WF_vars(ApplyQuota)

-----------------------------------------------------------------------------
(* Type correctness. *)

TypeOK ==
  /\ queueDoc \in [Names -> Docs \cup {NoDoc}]
  /\ quota \in [messages_left: Int, queues_left: Int]
  /\ store \in [Names -> {Missing} \cup SUBSET Messages]
  /\ unsent \subseteq Events
  /\ statsQueue \subseteq Events
  /\ buffer \subseteq Events
  /\ updates \subseteq Updates
  /\ req \in [Requests -> ReqStates]

-----------------------------------------------------------------------------
(* What the properties speak of. *)

UpdatesOn(kind) == {u \in updates : u.on = kind}

\* Events whose effect on the counters (kind "queue") or on the quota (kind
\* "user") is still to come.
Pending(kind) == unsent \cup statsQueue \cup buffer
                   \cup UNION {u.events : u \in UpdatesOn(kind)}

Held(n) == IF store[n] = Missing THEN {} ELSE store[n]

\* Messages of n that a push has stored, or a pull has taken, and not reported:
\* the call is in progress, or it has failed and never will report them.
Unreported(n, op) == UNION {req[r].got : r \in {q \in Requests :
                        req[q].name = n /\ req[q].op = op /\ req[q].answer # "ok"}}

\* Messages of the pushes that were answered with success.
Accepted == UNION {req[r].got : r \in {q \in Requests :
                              req[q].op = "push" /\ req[q].answer = "ok"}}
Delivered == UNION {req[r].got : r \in {q \in Requests : req[q].op = "pull"}}

-----------------------------------------------------------------------------
(* Safety properties. *)

\* The counter of a queue never exceeds the total of messages pushed to it: what
\* updateStats adds to messages_in_queue it adds to total_messages, a pull only
\* lowers the first, and no purge, deletion or new creation between an operation
\* and its update breaks this.
InQueueAtMostTotal ==
  \A n \in Names : queueDoc[n] # NoDoc =>
    queueDoc[n].messages_in_queue <= queueDoc[n].total_messages

\* With pushes and pulls alone no message is counted twice and none is missed:
\* at every moment messages_in_queue, corrected by the events on their way and by
\* what calls that are in progress or have failed do not report, is the number of
\* messages in the backend.
CountersAccount ==
  \A n \in Names : queueDoc[n] # NoDoc =>
    LET pending == CounterEvents(Pending("queue"), n)
    IN  queueDoc[n].messages_in_queue + Pushed(pending) - Pulled(pending)
          = Cardinality(Held(n)) - Cardinality(Unreported(n, "push"))
              + Cardinality(Unreported(n, "pull"))

\* Every message of an accepted push is charged to the user exactly once, in
\* whatever order the events, buffers and updates of the worker go through and
\* whatever happens to the queue meanwhile.
QuotaAccounts ==
  quota.messages_left - Pushed(Pending("user"))
    = InitialMessages - Cardinality(Accepted)

\* Requests that are creating the backend queue of a document, or failed to.
Creators == {r \in Requests : Creating(r) \/ req[r].answer = "not_created"}

\* As long as no queue is deleted, a queue in the database has been charged to
\* the user, or the charge is on its way, or a request is still between the upsert
\* and the event, or was stopped there by a backend that rejected the creation:
\* the documents that are never charged are no more than such failures.
QueuesAreCharged ==
  Cardinality({n \in Names \ Existing : queueDoc[n] # NoDoc})
    <= InitialQueues - quota.queues_left
         + Cardinality(OfType(Pending("user"), {"queue_create"}))
         + Cardinality(Creators)

\* A message that a push was answered for is in the backend or in the hands of a
\* pull, as long as nobody purges or deletes.
AcceptedIsKept ==
  \A m \in Accepted : m \in Delivered \/ \E n \in Names : m \in Held(n)

\* Without deletions a queue document has its backend queue, unless a request that
\* creates it is on the way there, or the backend has rejected its creation: then
\* the document stays, and calls that find it use a queue that is not there.
DocsAreBacked ==
  \A n \in Names : queueDoc[n] # NoDoc /\ store[n] = Missing =>
    \E r \in Creators : req[r].name = n

\* A push creates a queue only for a token that may create one: the gate answers
\* "Token not authorized to create queue" before getQueue, and push itself calls
\* getQueue again, without the check.
CreationIsAuthorized ==
  [][\A n \in Names : queueDoc[n] = NoDoc /\ queueDoc'[n] # NoDoc =>
       \E r \in Requests : /\ At(r, "upsert") /\ req'[r].pc = "load"
                           /\ req[r].may_create]_vars

\* A copy that r is about to save, loaded before the counters of the document were
\* stored.
SavesUncounted(r, doc) ==
  /\ req[r].pc \in {"edit_save", "purge_save"}
  /\ req[r].doc.id = doc.id /\ ~ req[r].doc.counted

\* The total of a document never falls, whatever is pushed, purged, saved, deleted
\* and created anew, unless a copy is saved that was loaded before anything had been
\* counted: mongoose writes back the 0 that it filled in, and the events counted
\* since are gone.
TotalNeverDrops ==
  [][\A n \in Names :
       /\ queueDoc[n] # NoDoc /\ queueDoc'[n] # NoDoc
       /\ queueDoc[n].id = queueDoc'[n].id
       => \/ queueDoc'[n].total_messages >= queueDoc[n].total_messages
          \/ \E r \in Requests : SavesUncounted(r, queueDoc[n]) /\ req'[r] # req[r]]_vars

-----------------------------------------------------------------------------
(* Liveness. *)

\* messages_in_queue is the number of messages in the backend, but for those of
\* calls that failed half-way, and the quota has been charged for every accepted
\* message.
CountersRight ==
  /\ \A n \in Names : queueDoc[n] # NoDoc =>
       queueDoc[n].messages_in_queue
         = Cardinality(Held(n)) - Cardinality(Unreported(n, "push"))
             + Cardinality(Unreported(n, "pull"))
  /\ quota.messages_left = InitialMessages - Cardinality(Accepted)

\* With pushes and pulls alone the counters end up right and stay so, once the calls
\* are over.
CountersConverge == <>[]CountersRight

-----------------------------------------------------------------------------
(* What a test of the repository says and the code does not keep. *)

\* test/060-core_queue_counters.js:146: messages in queue is "not below zero".
NotBelowZero ==
  \A n \in Names : queueDoc[n] # NoDoc => queueDoc[n].messages_in_queue >= 0
=============================================================================
