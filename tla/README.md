# Verification of qutrunk-api

TLA+ models of the queue service in this repository, TLC configurations that
check them on small instances, and proofs of their main invariants that TLAPS
checks for every value of the constants. Paths are relative to `src/`.

## 1. The system

Clients push messages to named queues and pull them, through REST
(`routes/core.js`) or gRPC (`proto/server.js`). A queue belongs to a user and
lives on a backend - MongoDB, RabbitMQ or Redis - that the user configured.
Quotas and counters are kept in MongoDB, and are updated by a separate worker
process from events that the API writes to an internal queue.

    clients --> routes / gRPC --> repository/queue.js --> queue_provider_db --> queue_provider --> driver --> backend
                                      |      |                                        ^
                                      |      +--(events, not awaited)--> __queue_stats queue --> worker loop --> $inc on
                                      +--> queue documents, users                                             queues, users

Several API processes and several workers may run. Each is a single-threaded
Node process: code interleaves only where it waits for a database, a backend or
a timer. Nothing uses transactions. An unhandled rejection is logged and does
not end a process (`app.js:131`; the Node versions the project names do the same
by default).

### Components

| component | state | operations | what makes it correct |
|---|---|---|---|
| Queue operations, `repository/queue.js` | none of its own; reads and writes queue documents, quota, backend | push with its gate, pull, purge, delete, create / getQueue | an accepted message is in the backend; a queue is created only with the right to; a document has its backend queue unless its creation was rejected; every operation is reported once |
| Queue documents and quota, `models/queue.js`, `models/user.js` | `messages_in_queue`, `total_messages`; `messages_left`, `queues_left` | increments by the worker, saves by purge, settings, notifications and addQuota | counters agree with the backend once events have arrived; every accepted message is charged once |
| Statistics worker, `lib/queue_stats_worker.js` | buffer | turn a buffer into one update per queue and user | no event is dropped or applied to the wrong counter |
| Worker loop, `lib/queue_worker.js` | buffer, `stopped`, `stopCb`, `initialized` | init, pull, flush, sleep, SIGINT | no event processed twice, bounded loss, termination, no buffer that waits for ever |
| Drivers, `lib/queue_backend/*.js` | connection flags; collections or channels | push, pull, purge, delete, connect, reconnect | a message goes to at most one pull and is lost only to purge, deletion or crash |
| Connections, `lib/queue_provider.js`, `lib/queue_provider_db.js` | `pool`, `isAdding`, `backends` | create, get, close, load all, get a backend's client | one connection per key, none lost but by a failed connect, no key locked, list and pool agree |
| Backends of a user, `repository/queue_backend.js` | backend documents with `default` | create, setDefault, delete, testConnection | one default, no queue without its backend |
| Message log, `lib/log_worker.js`, `repository/message_log.js` | log documents, `last_used` | upserts, retention | every entry is in its document until it is removed, and the newest are not removed for the count |
| gRPC server, `proto/server.js` | per stream: `stopped`, sleep counter | subscribe (pull and write in a loop), push, pull | little is taken for a client that has gone, nothing waits while a subscriber runs |
| Access tokens, `routes/middleware/core.js`, `routes/restricted/access_token.js` | tokens with their rights | create, edit, delete; the checks before push, pull and subscribe | a right that was taken away admits no later push or pull, a removed token opens no later stream |
| Users, `repository/user.js`, `routes/public.js`, `routes/restricted.js` | password, address, identities, codes, quota | register, login, reset, change, addQuota | the last password holds, identities differ, the quota adds up |
| Usage log, `lib/queue_stats_worker.js`, `routes/restricted/usage_log.js` | counts by hour and by minute | upserts, charts | charts show what was counted |
| Life of a process, `app.js` | connections, signals | listen, time out, SIGINT | what was accepted is answered before the process exits, and it exits |
| Alarms, `repository/queue.js` | threshold and alarm of a queue | raise, step down | an alarm is up for a reason |
| Load tests, `bin/perf/` | messages, reports | produce, consume, judge | the verdict is true |

### Behaviours that are hard

* Several stores without a transaction: the queue document is upserted before
  the backend queue exists; purge and delete touch three stores one by one; the
  MongoDB driver keeps a message in two collections.
* Events, updates and saves that are not awaited, so they overtake each other:
  a pull is counted before the push it follows, a purge resets a counter that
  increments are on their way to.
* Any call to a database or a backend may reject half-way through an operation, and
  nothing that was done before is undone.
* State that is read, waited on and used: the gate's document, `isAdding`,
  the list of backends, the default backend, the quota that addQuota saves.
* Messages that are acknowledged when pulled: what a process holds in memory is
  lost when it dies, and one message can be lost when it stops politely.
* A loop whose rejection nobody catches, an init that two callers run at once,
  a flag that is set outside the `try` that clears it (`rabbitmq.js`).
* Documents that are read, changed as a copy and saved: what a save writes is what
  differs from the copy that was read, not the copy (users, tokens, backends).
* Upserts on one document that nobody waits for, one of which is refused.

PROJECT.json lists every hazard at its line with the properties that cover it.

## 2. Modules

| module | models | 
|---|---|
| `QueueService` | requests, documents, quota, backend queues, events, worker and its updates (`repository/queue.js`, `lib/queue_stats_worker.js`) |
| `MCQueueService` | symmetry for TLC |
| `QueueService_proofs` | type correctness, counters never exceed totals, totals never drop; quota, counters, creations and the backend agree; what is accepted is kept; in the end the counters are right |
| `MessageQueue` | what a driver promises (abstract) |
| `MongoQueueClient` | the MongoDB driver step by step (`lib/queue_backend/mongodb.js`) |
| `MongoQueueClient_proofs` | the driver implements the abstract queue, leaves nothing behind and misses nothing |
| `QueueWorker` | the worker loop of one or more processes (`lib/queue_worker.js`) |
| `QueueWorker_proofs` | type correctness, nothing processed twice, buffers fit, losses are bounded |
| `ConnectionPool` | the pool and the list of backends with their callers (`lib/queue_provider.js`, `lib/queue_provider_db.js`, `QueueWorker.init`, `testConnection`) |
| `ConnectionPool_proofs` | type correctness, the marks, no leak, list and pool agree, the worker's queue is ready |
| `Calls` | calls in progress, the form of a table of calls that the modules below use |
| `QueueBackends` | the backends of a user, the default one, and the queues on them (`repository/queue_backend.js`) |
| `Accounts` | users, passwords, addresses, identities, quota (`repository/user.js`, `routes/public.js`, `routes/restricted.js`) |
| `AccessTokens` | tokens and what they admit (`routes/restricted/access_token.js`, `routes/middleware/core.js`) |
| `Users_proofs` | of the three above: one default, no queue without its backend; a revoked right admits nothing; passwords, identities and quota are sound |
| `RabbitClient` | the RabbitMQ client's connection (`lib/queue_backend/rabbitmq.js`) |
| `RedisClient` | the Redis driver command by command, implementing `MessageQueue` (`lib/queue_backend/redis.js`) |
| `Drivers_proofs` | no message in two places (`MessageQueue`); the Redis driver implements it; one call of RabbitMQ connects, none is forgotten, flags tell the truth |
| `GrpcServer` | subscribers and single calls (`proto/server.js`) |
| `MessageLog` | entries, documents and retention (`lib/log_worker.js`, `repository/message_log.js`) |
| `UsageLog` | usage by hour and minute, and the charts (`updateUsage`, `routes/restricted/usage_log.js`) |
| `ApiProcess` | the life of an API process (`app.js`) |
| `Notifications` | the alarm of a queue (`repository/queue.js`) |
| `Processes_proofs` | requests are served before the exit; a stopped stream takes one message; the log keeps its entries; an alarm is due; verdicts of load tests are true; charts of the usage log add up |
| `LoadTest` | the load tests (`bin/perf`) |
| `Services` | the eleven parts above, one of which runs |
| `Services_proofs` | the composition runs its parts: what is proved of each holds of all |
| `MC*` | constants for TLC |

How they fit together. `QueueService` sees a backend queue as a set and a driver
call as one step: `MongoQueueClient` shows that this is what the MongoDB driver
offers (up to the failures of a process that dies inside a call). It sees the
statistics worker as two steps, `WorkerPull` and `WorkerIdle`, of a worker that
runs; `QueueWorker` models the same loop with several processes, SIGINT,
failures and kills. It assumes that a process has its connections and an
initialised `QueueStats`; `ConnectionPool` models how they come about.

`QueueService` sees a token as the outcome of its checks, a backend as given and
the user as a quota: `AccessTokens`, `QueueBackends` and `Accounts` model what it
abstracts. `RedisClient` shows that the Redis driver, too, offers the abstract
queue of `MessageQueue`. `Services` composes the parts around the queue
operations. They work on different collections, clients or processes and share
no variable of these models, so an interleaving of two of them adds no state of
either: the variable `part` says which one runs in a behaviour, and the rest stay
in an empty initial state. A property of one part is then checked in all states
of that part, and the products of independent states are not enumerated.

Definitions that begin with a "Mutant of X" comment are not used by any
specification. Each is a plausible mistake in X, and the project checks that it
breaks a property.

### QueueService

A request `r` is one call: `req[r]` holds its position (`pc`), its arguments and
local variables. A step is the code from one wait on a database or driver to the
next. push goes `gate_find`, `gate_user` (prePushAction), `get_find`, `upsert`,
`load`, `client_create` (getQueue and create, run in the gate, `phase` "gate",
and again in push, `phase` "push"), then `send` once per message. `queueDoc` has
the documents by name, with the identity that save and remove go by. `counted`
says whether the stored document has its counters: an upsert leaves them out,
mongoose fills them in on load, and any save of that copy then writes them. This is
how a purge (`PurgeSaved`), a change of the settings, or the notification of a queue
that was just created (`Saved`) resets `total_messages` of a document that was loaded
before its first update: the route that adds a queue saves the copy that create has
loaded before the driver's create, so that pushes and their updates come in between.
An alarm is saved the same way (operation "alarm"), but a pass of the alarms only finds
documents whose counters are stored already, since a threshold was saved with them.

With `Failures` any call to a database or a backend may reject (`Rejects`): the
request is answered and what it did stays. Only the upsert is caught inside create
(`UpsertFails`). A request whose creation at the backend was rejected is answered
`not_created`: its document stays without a backend queue and without a charge, and
`Creators` counts it. `unsent`, `statsQueue`, `buffer` and `updates` are the
stages of an event. They are sets: events are distinct and every stage may
reorder them, because sends are not awaited, the driver's sort argument is not
one that `findOneAndDelete` takes, and updates are not awaited either.

Bytes are charged in the same updates as messages and are abstracted with them.
Tokens are abstracted to the outcome of their checks (`Reject`) and to the right
to create queues. One user is modelled: lookups are by name and user.

### MongoQueueClient and MessageQueue

`data` and `meta` are the two collections. The refinement mapping reads the
abstract queue off them: a message is queued while both parts are there, taken
when a pull has removed its metadata and its data is still there to remove, and
fresh until its metadata is inserted. `Lossy` is true when there are purges,
deletions or crashes: without them the abstract queue may lose nothing.

### QueueWorker

`loop` is where `startWorker` is. `processBufferFn` does not wait for its
updates, so a flush is part of the step that calls it and the SIGINT handler is
one step. `flushed` keeps every buffer that was handed over, `counted` what the
database executed. `Fail` is a rejected init or pull: `startWorker` ends and the
process stays. `Update` may execute the updates of a process that has gone, or
never: process.exit waits for none, so they count as lost until they execute
(`Unexecuted`), and no bound on them is claimed. Not modelled: `processBufferFn` throwing on an event that is not
JSON (only the senders write events), and updates that the database refuses.

### ConnectionPool

`call[c]` is one call in the process: the use of a backend (`getBackendClient`),
the loading of all of them, a connection test, or the push of a statistics event
(`init`). What follows an await of a call that did not itself wait runs before
anything else in the process, so a test's connection enters and leaves the pool
in one step, and the loading skips backends that others are adding within a
step (`LoadNext`, in any order of the backends). close is not awaited and is
taken to succeed. `opened` are the connections that exist: a connect that fails may
leave its client behind (`LeavesClient`: a redis client goes on dialling after its
timeout, a RabbitMQ connection survives the failure of its channels), and nobody
closes it. The keys of tests are a set of their own (`KeysAssumption`); users choose
them and the code does not keep them apart from the ids of backends, which are 24
hexadecimal digits, or from the worker's key, so a test under such a key is left out.

### QueueBackends, Accounts, AccessTokens

A request is a record in a table of calls (`Calls`): which operation, where it
is, what it has read. Calls begin in the order of their numbers, which loses no
interleaving of their steps. A save writes the paths that differ from what was
read (`SavesDefault`, `SavedPaths`, `Edited`): that is mongoose's behaviour, not
the repository's, and the properties rest on it.

What goes wrong when two calls overlap that the code does not keep apart is part
of the models, and the properties say exactly which overlap they except:
`OneDefault` excepts two calls that choose the default, `QueuesBacked` a deletion
of a backend that overlaps with the creation of a queue, `QuotaAddsUp` a charge
between the read and the save of a top-up, and a top-up that came as a form,
because its text is appended to the digits of the number. The history variables
`met` and `muddled` record these overlaps. `revoked` and `rival` of
`AccessTokens` record which rights are gone, and which another edit is giving. A stream of gRPC
(`SubscribeBegin`, `OpenStream`, `StreamPull`) asks only that the token exists
("known" among `Needs`): it is opened with an inactive token, and goes on pulling with
the copies of its setup whatever is revoked later. `RevokedIsRefused` therefore says of
streams only that a removed token opens none.

### RabbitClient, RedisClient, GrpcServer

`RabbitClient` has the two flags, the connections that are open, and the calls of
one process. `early` records that a connection ended before its handlers were
attached: `connecting` may then stay set for ever (the channels are created
outside the `try`), or `connected` may be set for a connection that is gone.
`RedisClient` is at the granularity of the library's commands, each of which may
fail, a push having stored its message or not; a purge is a list, a deletion, a
list and a creation. `GrpcServer` has a stream's loop with its naps; the client's
departure is learnt only from a write that fails, and the event comes later.

### MessageLog, UsageLog, ApiProcess, Notifications, LoadTest

`MessageLog` splits an upsert into the search and the insert, so that two entries
of a message can both try to insert, of which the index on `_id` refuses one; that
entry is lost (`lost`). `UsageLog` does the same without an index: two documents
of one hour appear, and the charts add them up. `Minutes` and `MinutesPerHour`
are the scale of the clock. `ApiProcess` has the timeouts, rejections and
departures of requests on connections of their own, and the two callbacks of
SIGINT. `Notifications` has passes that overlap; `crossed` records when two did. A
threshold is saved with a copy that was loaded earlier (`copies`), as a whole, and with
0 for counters that the copy was loaded without.
`LoadTest` has the consumers that the master forks, their reports and its verdict.

## 3. Runs

Bounds are the constants of the cfg files; there are no state constraints, so
every run explores all behaviours of its instance. Deadlock checking is off
where the system may stop: calls end, workers exit, consumers die.

| run | instance | shows |
|---|---|---|
| `QS_quota` | 3 requests of any of 7 operations, 1 name, redis, buffer of 2, failures | types, `InQueueAtMostTotal`, `QuotaAccounts`, `TotalNeverDrops` |
| `QS_create` | 3 pushes, pulls, creations of one missing queue, tokens with and without the right, failures | `AcceptedIsKept`, `QueuesAreCharged`, `DocsAreBacked`, `CreationIsAuthorized` |
| `QS_converge` | 3 pushes and pulls of up to 2 messages, MongoDB, failures, fairness | `CountersAccount`, `CountersConverge` |
| `QS_belowzero` | a push and a pull | **violated**: `NotBelowZero` |
| `QS_lostpush` | 2 first pushes, RabbitMQ | **violated**: `AcceptedIsKept` |
| `MQ_lossy` | 3 messages, 2 consumers, a purge, a deletion, crashes | types, `ImplementsQueue` |
| `MQ_live` | 3 messages, 2 consumers, fairness, no loss | `ImplementsQueue` without loss, `NoOrphans`, `ShortPullMeansEmpty`, `EventuallyDelivered` |
| `QW_loop` | 2 workers, 3 events, buffers of 3, SIGINT, failures, kills, fairness | types, `BuffersSound` (no event is processed twice, buffers fit), `LossIsBounded`, `EventuallyCounted`, `StopCompletes` |
| `QW_stop` | 1 worker, SIGINT and an init that rejects | **violated**: `StopsAfterSignal` |
| `CP_pool` | 3 calls of any kind, 2 backends, failing connects, fairness | types, `NoneLeaked`, `MarkedWhileConnecting`, `ListMatchesPool`, `StatsReady`, `AskedForIsOpened` |
| `CP_test` | 2 tests under one key | **violated**: `TestTellsTheTruth` |
| `SV_parts` | each part of `Services` on its own, see below | thirteen properties, in the table below |

Why the bounds are enough. The races of `QueueService` are between two calls on
one name; a third call adds a bystander whose effects are in flight at the same
time. A buffer of 2 is filled, part-filled and flushed by size and by idleness
with 3 events. Two messages per push (`QS_converge`) let a batch fail in its middle, and `CountersConverge` has the quota in it; queues share
nothing but the worker, so one name suffices. In `QueueWorker`, buffers of 3
with 3 events are filled by one worker or split among two, and a SIGINT can fall
on a buffer of one or two with a message in flight. In `ConnectionPool`, three
callers are the one that connects, the one that meets it, and one that comes
later; two backends let a load skip one and connect the other.

### SV_parts

One run, because the parts share one specification; about 407,000 states.

| part | instance | property: what it says |
|---|---|---|
| backends | 2 calls, up to 3 backends, 2 keys, 2 queues | `BackendsSound`: one default at most, no queue without its backend, except for the overlaps named |
| accounts | 3 requests, 2 users, 1 address, 2 social identities, 1 charge | `CredentialsSound`: a user's password is the last that was saved, hashed once, and identities differ; `QuotaAddsUp`: what is left is what was given less what was charged |
| tokens | 3 requests, 1 token, 2 sets of rights | `RevokedIsRefused`: no later push or pull is admitted by a right that was taken, no later stream is opened for a removed token |
| rabbit | 3 calls, 2 ends of connections, 1 failing dial | `RabbitSound`: one call connects, no connection is forgotten, flags are true; `PartsSettle`: no call waits for ever |
| redis | 3 calls, pulls of 2 | `RedisImplementsQueue`: the driver is the abstract queue |
| grpc | 1 subscriber, 3 single calls, a failing pull, a removal | `StoppedTakesOne`: one message at most is taken after the stop; `PartsSettle`: nothing waits while a subscriber runs |
| log | 2 messages, buffers of 2, 2 passes | `LogSound`: entries are where they belong or their loss is explained, and the newest documents are kept |
| usage | 2 events, buffers of 2, 3 minutes in 2 hours, 1 refused update | `UsageAddsUp`: charts show what was counted |
| api | 2 requests, 2 signals | `ServedBeforeExit`: requests are answered before the exit; `PartsSettle`: the process exits |
| notify | 3 passes, counts to 3, thresholds 0 and 2 | `ToolsSound` (`AlarmIsDue`) |
| load | 3 messages, 2 consumers, 2 faults | `ToolsSound` (`VerdictIsTrue`) |

Why these bounds are enough. Two calls on the backends overlap in every way two
can, and what a third could do to either it can do before or after as part of the
initial state, which is any state of backends and queues that a user may have.
Edits of tokens need a third request to be the push that must be refused. A
RabbitMQ client is used by the one that connects, the one that waits, and the one
that closes; two connections can die in one behaviour. Streams share only the
queue, and a single pull competes for messages like another subscriber would, so
one stream suffices; three single calls let two messages follow the stop. An
upsert meets one other of the same document, and a second message gives the
retention a choice. Three minutes in two hours let buffers span a minute and an
hour. Accounts have one address because conflicts need only one. Deadlock is not
checked: requests and processes end.

The four violations are disagreements with what the repository says:

* `QS_belowzero`: `test/060-core_queue_counters.js:146` wants the counter "not
  below zero". The events of a pull and of the push before it are independent
  sends, and the worker may count the pull first. `CountersConverge` says that
  the error is temporary when only pushes and pulls run.
* `QS_lostpush`: create writes the document before the backend queue. A second
  push finds the document and sends to a RabbitMQ queue that does not exist; the
  broker drops it and the push is answered with success. With redis the send
  fails instead, which is why `QS_create` runs on redis.
* `QW_stop`: SIGINT logs that stopping "might take up to" the stand-by time; a worker
  that gets the signal while it initialises, and whose init is then rejected, never
  stops. A rejected pull would end the loop in the same way.
* `CP_test`: of two connection tests under one key the second is told that the
  backend cannot be connected to, although nothing failed.

### Fairness

Weak fairness only. `QueueService`: every call's next step, the storing of
events, the worker's steps, and each of the two kinds of update - databases
answer, and the worker loop has no exit in this model. `MongoQueueClient`: calls
in progress continue and consumers call pull again, as subscribers and workers
do. `QueueWorker`: each loop's next step (awaits return, the sleep ends), and the
updates of a process that lives; nothing is assumed of SIGINT, failures, kills or
pushes. `ConnectionPool`: each call's next step, which may be a failure.

`Services`, for `PartsSettle`: the steps of RabbitMQ calls (the broker answers or
the connection ends, and the timers of `connect` and `reconnect` fire; dials and
ends are bounded, so that the broker comes back in the end); each stream's loop
and the event of a write that failed (`setTimeout` and the stream's events); the
timers, closing connections and callbacks of a process that was asked to stop.
Nothing is assumed of handlers, of clients, or of calls that are yet to begin.

## 4. Proofs

Eight modules of theorems, each about the components it extends. All are checked by
tlapm with no assumption beyond the named ones on constants (finite sets where
cardinalities are taken, positive sizes, values that stand for "none" distinct from
the rest) and, where a theorem says so, on which operations the clients use. Every
invariant, every action property and every refinement that the passing runs check has a
theorem; the liveness properties are named at the end of this section.

### QueueService

* `TypeCorrect`: `TypeOK` is inductive. The work is in the record updates of requests
  (`ReqUpdate`, `Moved`) and in the worker's arithmetic: the messages of any set of
  events are finite in number, so counters stay integers (`MessagesFinite`,
  `CountsAreNat`).
* `InQueueAtMostTotalHolds`: `TypeOK /\ InQueueAtMostTotal` is inductive, because an
  update adds to `messages_in_queue` what it adds to `total_messages` less a natural
  number, and the other writers lower the first, set both to 0 or leave them.
* `TotalNeverDropsHolds`, an action property: one step per writer of a document. Two
  saves can write a smaller total, `PurgeSave` and `EditSave`, and only with a copy whose
  counters were filled in (`SavesUncounted`); every other step that changes a document
  makes it, removes it or adds a natural number.

The second part of `QueueService_proofs` has the properties that count. None is inductive:
an update
that is executed takes events out of `updates` and adds their messages to a number, which
keeps the sum only if no event was anywhere else and no message is in two events.
`AccountInv` (theorem `AccountsInOrder`) says that:

* `Labelled`: where a request is (`pc`, `phase`) fits its operation; the messages it
  has handed over are the first ones of its batch, and all of them when a push is
  answered with success.
* `AllSent`: an event on its way was sent by the request it names, about the messages
  that request was answered for, and each reason to send occurs once per request. Two
  events of messages with the same request would be the same event.
* `Apart`: an event waits in one stage, and in one update for the queue and one for the
  user at most.

`AccountInv` is kept by `StepOfOne` (one request moves, and keeps its arguments), by one
lemma for each group of steps of a request, and by the worker's steps, which move events
from one stage to the next. On it rest:

* `QuotaAccountsHolds`, with no assumption on the operations, the driver or the limits:
  purges, deletions of queues and calls that fail included, the quota falls by the
  accepted messages.
* `DocsAreBackedHolds`, `CreationIsAuthorizedHolds`, `QueuesAreChargedHolds`, which add
  `Entitled`: what a request found is still there, and one that is about to upsert is in
  the gate (with the right to create) or in the route that adds a queue. The second
  getQueue of push, which checks nothing, therefore finds the document. They assume
  `"delete" \notin Ops`, as the run `QS_create` does: with deletions the code does not
  keep them (two hazards of PROJECT.json), because a document can go between the gate and
  that getQueue. The charge of a queue counts the documents made, the creations
  reported, and the requests that owe one (`Owing`: those of `Creators` that have a
  document, under way or rejected by the backend), by `CreationStep` and cardinalities of
  finite sets. A rejected creation moves a request from one kind of `Creators` to the
  other.
* `AcceptedIsKeptHolds`, `CountersAccountHolds`, which add `MessagesInv`: a message is
  in the backend or in the hands of one pull, a message that was handed over stays in one
  of the two, and who has handed over or taken messages has a document and a backend
  queue. `CountersAccountHolds` first relates the counter and the events on their way
  to what requests were answered for (`CountsAnswered`), then that to the backend.
  `AcceptedIsKeptHolds` assumes that nobody purges or deletes, which drops messages by
  intention; `CountersAccountHolds`, that there are only pushes and pulls, since a save of
  a copy may write filled-in counters. Both assume
  `Provider # "rabbitmq"`: RabbitMQ drops a message to a queue that is not there and
  the driver reports success, and the run `QS_lostpush` shows the loss.
* `SettledCountersConverge`, under the assumptions of `CountersAccountHolds`, is the safety part of
  `CountersConverge`. In a state where every call is answered and no event or update is
  left (`Settled`), the counters are right, by `CountersAccount` and `QuotaAccounts`, and
  nothing happens any more (`SettledStays`). So `CountersConverge` follows from
  `<>Settled`, the end of calls and events under fairness, which the run `QS_converge`
  checks with it.

### Drivers

* `QueueAtMostOnce` (`Drivers_proofs`): `TypeOK /\ AtMostOnce` of the abstract queue
  is inductive.
* `MongoImplementsQueue` (`MongoQueueClient_proofs`): every step of the driver is a step
  of the abstract queue or none. The mapping needs `PickInv`: metadata exists only for
  pushes that are over, and a removed metadata document is in one consumer's hands and
  no longer stored. Without it two consumers might hold one message, and the removal of
  data would not be one abstract step.
* `NoOrphansHolds`, `ShortPullMeansEmptyHolds`: `BackedInv` says the converse of
  `NoOrphans` as well, that metadata, a push between its inserts and a pull between its
  removals have their data. Without the converse a pull might find metadata, no data,
  and end early. They assume no purge, deletion or crash: each leaves data without
  metadata behind, or a push between two halves of a purge does.
* `RedisImplements` (`Drivers_proofs`): `RedisCallsHold` says what a call may hold where
  it is (only a pull has taken messages; only a call that is done has an answer). Each
  command is an abstract push, take, return, loss or stutter: a push that fails with its
  message stored and one that fails without are both steps the queue allows. A purge is
  a list, a deletion, a list and a creation, of which the deletion loses everything at
  once.
* `RabbitSoundHolds`: the invariant adds to `RabbitSound` where each call is
  (`CallsHold`: a call that connects works on the latest connection, one that waits for
  the broker on a connection that has its handlers) and what the flags mean
  (`FlagsHold`: whoever connects has `connecting`, the client is then not connected, and
  a client that is neither has no open connection). `connecting` and the one call that
  connects are then set and cleared together, until `early`.

### QueueWorker and ConnectionPool

* `FlushedOnceHolds` needs that everything anywhere was sent (or a new event could
  already be held) and that a pull brings one message or none. Every step of the loop is
  a flush of the buffer and part of what is in flight (`FlushKeepsInv`) or drops some of
  what is held (`DropKeepsInv`). `BufferFitsHolds` rests on it: the message of a pull is
  new to the buffer, so the length grows by exactly one. `BuffersSoundHolds` joins them.
* `LossIsBoundedHolds`: what a step loses is compared with what it adds to the bound.
  `HoldsLittle` limits the first: a message is in flight only between the answer of a
  pull and its use, and a worker that was told to stop has flushed its buffer. So a stop
  or a failure loses one message, and a kill no more than a full buffer and the one in
  flight (`LossesStayBounded`, of what was never flushed). The updates that processes
  which have gone left unexecuted are added to both sides (`LossInvBounds`).
* `MarkedHolds`: one caller moves at a time, and the marks without its own key are what
  the others connect (`MarksFollow`). `NoneLeakedHolds` rests on `Unshared`: a marked key
  has no connection, so a connection never enters the pool over another one; and on
  `Keyed`, by which a caller that has failed keeps its answer and its key, so that what
  its connect left behind stays accounted for (`LeakedStep`).
* `ListMatchesPoolHolds`, `StatsReadyHolds`: `Keyed` says that callers keep to the keys
  of their kind (a test never opens the worker's key), and that who creates the worker's
  queue has its connection. Each step of a caller is then one of a few changes to pool and
  list (`Enters`, `Lists`), nothing leaves the pool, and no failure is forgotten
  (`StaysOpen`): what the properties excuse by a failure stays excused.

### Users, tokens and backends (`Users_proofs`)

* `BackendsSoundHolds`: what a call has read must still be true when it writes.
  `Informed` and `Founded` say so for the default and for the backend of a queue: while
  only one call chooses the default, nobody adds one, and deletions only take some away;
  while no deletion overlaps, a backend that was found stays. `ArrivesKeeps` treats every
  call that begins, `MovesKeeps` every step of one that is under way.
* `RevokedIsRefusedHolds`: `RevokedGone` (a revoked right is not in the stored token) is
  kept because no edit under way gives a right that was revoked, and what a token has got
  since an edit read it is in that edit's `rival` (`Current`), every other edit of the
  token being known to it (`EditsKnown`). A deletion revokes everything, being known
  included, which is what a stream needs to open.
* `CredentialsSoundHolds`, `QuotaAddsUpHolds`: they are inductive together with
  `RequestsHold`, what a request holds when it writes. A new password in a copy was not
  hashed yet, so the hook of the model hashes it once; and a top-up that met no charge
  holds the stored quota plus its amount, which is what makes its `$set` of a sum as good
  as an increment. `muddled` is where the second part stops being true.

### Processes (`Processes_proofs`)

* `ServedBeforeExitHolds`: `RequestAnswered` ties replies to handlers and connections, and
  `Draining` says that the database is closed after the last connection, and the exit
  comes after that.
* `StoppedTakesOneHolds`: a subscriber that has taken a message after its stop is on the
  way to write it and then leaves (`StopsAfterOne`). `GrpcTypeCorrect` needs that the
  queue has no more messages than pushes were answered, or its size would have no bound.
* `LogSoundHolds`: a document has what done entries wrote, and only their kinds
  (`DocsFollow`); why an entry is missing is known (`EntriesExplained`); and a pass that is
  alone has found only documents that `max_log_count` newer entries follow (`PassHolds`).
  The last is a count: of the documents of a queue the oldest `excess` ones leave
  `max_log_count` newer ones each (`OldestHaveNewer`), and that stays so while entries
  are added.
* `AlarmIsDueHolds`: unless two writes crossed, a pass that has found the queue may still
  raise the alarm (`FoundDue`): the peak since the alarm went down has reached the
  threshold. `AlarmIsDue` is one half of `ToolsSound`.
* `VerdictIsTrueHolds`, the other half: the verdict compares a number and a total size with
  what was pushed, and the property is about the messages. `LoadSound` says that no message
  is held twice and that none is missing while no consumer has died, so that number and
  size are sums over the parts of one set (`CountOfParts`, `SumOfParts`), which a missing
  message makes smaller. A verdict needs the report of every consumer, dead ones send none,
  and a report is sent after an empty answer, which only a fault of gRPC gives while
  messages wait.
* `UsageAddsUpHolds`: the inductive invariant is about any set of hours, of which the charts
  ask for one or for all (`SumsSound`). `UpdatesSound` says that updates under way of one
  log have no event in common and that each is about one minute, so an upsert counts
  exactly its own events and in one hour; `DocsSound`, that a document's name is an event
  it has counted, so an insert never meets one that is there. Two documents of one hour
  break none of this, which is why the charts must add documents up. That no counter
  exceeds the number of events (`UsageTypeCorrect`) follows from the sums, a counter
  being at most the sum it is part of. The clock has a minute at least (`UsageAssumption`).

The last two rest on facts about sums over finite sets, for any function to the naturals:
a sum exists and is unique (`SumFacts`, from the definition of `SumFunctionOnSet`), grows by
a term with each element, is the sum of the sums of disjoint parts, is bounded and compared
term by term, and counts a set when it adds up the sizes of its classes. Each is proved by
induction over finite sets. The library states that induction with an operator as its
parameter, which the provers cannot instantiate; here it is said of a set of subsets that
has the empty set and grows by elements (`SubsetInduction`), which comes from the least
cardinality of a set outside it (`SmallestSet`).

### Composition (`Services_proofs`)

* `ServicesRunParts`: a behaviour of `Services` is a behaviour of each part's own
  specification, fairness included. A step of one part leaves the variables of the others
  alone (`PartSteps`), so it is a step or a stutter of every part.
* Everything that is proved of a part then holds in the composition, for all parts at once:
  `ServicesTypeCorrect`, `ToolsSoundHolds`, and `ServicesSound` with the rest of the
  properties of `SV_parts` that are not about liveness.

### Only model-checked

The liveness properties, and with them fairness, which tlapm's ENABLED does not reach:
`CountersConverge` (what remains of it is `<>Settled`, see above), `EventuallyDelivered`,
`EventuallyCounted`, `StopCompletes`, `AskedForIsOpened`, `PartsSettle`. The violations of
section 3 are runs only, too.

No module declares a RECURSIVE operator.

## 5. Order of work

The most important first; all modules of the plan are written.

1. `QueueService`: quota, counters, creation and deletion races.
2. `MongoQueueClient` refining `MessageQueue`.
3. `QueueWorker`.
4. `ConnectionPool`.
5. `QueueBackends`, `AccessTokens`, `Accounts`: copies of documents that are saved.
6. `RabbitClient`, `RedisClient`: the other two drivers.
7. `GrpcServer`, `MessageLog`, `UsageLog`, `ApiProcess`.
8. `Notifications`, `LoadTest`.
9. Proofs of the accounting, of losses, of the pool's list, of the Redis driver, and of
   accounts, processes, streams, logs and alarms: done, see section 4.
10. Proofs of the usage log and the load tests, which need sums; of the composition; and of
   what convergence of the counters rests on: done.
11. Open: liveness, should the prover learn ENABLED. Termination is the place to begin
   (`<>Settled`, `StopCompletes`): the steps of calls and of the worker's loop go one way.

## 6. Not modelled

* `lib/cache_layer.js`: no module requires it.
* Swagger UI and other assets, `swagger.js`: vendored or generated.
* `lib/fixtures.js`, `bin/init_replica_set.js`, `bin/perf/generate_load.js`,
  `proto/client.js`: straight-line tools without concurrency.
* `lib/statsd.js`, `routes/middleware/cors.js`, parsing of HTTP bodies, templates of
  mails: I/O or stateless. Redirects of the social networks: code of libraries.
* The routes that list or show the message log and queues only read. Of a queue's
  settings the save is modelled (operation "settings"), not the switch for the message
  log, which only decides whether log entries are sent.
* The expiry of documents of the realtime usage log and of other indexes: the
  database does it, and no code depends on when.
* `purgeQueue` and `onStandBy` of the worker: only tests use them.

PROJECT.json says for each component what is left out.
