--------------------------- MODULE ConnectionPool ---------------------------
(***************************************************************************)
(* The connections of one process to its backends: the pool                *)
(* (lib/queue_provider.js), the list of backends loaded from the database  *)
(* (lib/queue_provider_db.js), and their callers: requests that use a      *)
(* queue of a backend, the loading of all backends at startup, the test of *)
(* a connection when a backend is added, and the statistics events whose   *)
(* first push initialises the worker's own connection.                     *)
(*                                                                         *)
(* The process is single-threaded; callers interleave where they wait for  *)
(* a database or a backend.  Everything a caller does between two such     *)
(* waits is one step: what follows an await of a call that did not wait    *)
(* itself runs before any other caller.                                    *)
(***************************************************************************)
EXTENDS FiniteSets

CONSTANTS Callers,   \* calls that run in this process
          Backends,  \* _ids of the backends in the database
          TestKeys,  \* keys under which connections are tested
          StatsKey,  \* key of the worker's connection, __qutrunk__queue_stats
          None       \* no connection in the pool

Keys == Backends \cup TestKeys \cup {StatsKey}

ASSUME NoneAssumption == None \notin Callers
\* The code does not enforce the next one: a test runs under a key its user chose.
ASSUME KeysAssumption == /\ Backends \cap TestKeys = {}
                         /\ StatsKey \notin Backends \cup TestKeys

VARIABLES pool,        \* key -> the caller whose connection it holds, or None
          isAdding,    \* keys for which a create waits for its connection
          backends,    \* backends getBackendClient takes for registered
          initialized, \* the worker's flag of that name
          opened,      \* clients with a connection, or that go on dialling for one
          call         \* caller -> what it calls and where it is

vars == <<pool, isAdding, backends, initialized, opened, call>>

Kinds == {"use", "load", "test", "event"}
Labels == {"start", "finding", "connecting", "creating", "done"}

\* already: create threw "already exists".  no_client: create returned nothing
\* and its caller dereferenced it.  failed: the backend refused.
Answers == {"none", "ok", "already", "no_client", "failed"}
CallStates == [kind: Kinds, key: Keys, pc: Labels, todo: SUBSET Backends,
               answer: Answers]

KeysOf(kind) == CASE kind = "test" -> TestKeys
                  [] kind = "event" -> {StatsKey}
                  [] OTHER -> Backends

Calls(kind) == [kind: {kind}, key: KeysOf(kind), pc: {"start"}, todo: {{}},
                answer: {"none"}]

TypeOK ==
  /\ pool \in [Keys -> Callers \cup {None}]
  /\ isAdding \subseteq Keys
  /\ backends \subseteq Backends
  /\ initialized \in BOOLEAN
  /\ opened \subseteq Callers \X Keys
  /\ call \in [Callers -> CallStates]

Init ==
  /\ pool = [k \in Keys |-> None]
  /\ isAdding = {}
  /\ backends = {}
  /\ initialized = FALSE
  /\ opened = {}
  /\ call \in [Callers -> UNION {Calls(kind) : kind \in Kinds}]

-----------------------------------------------------------------------------
At(c, kind, label) == call[c].kind = kind /\ call[c].pc = label
Goto(c, label) == call' = [call EXCEPT ![c].pc = label]
Answer(c, a) == call' = [call EXCEPT ![c].pc = "done", ![c].answer = a]

IsOpen(k) == pool[k] # None
Register(k) == backends' = backends \cup {k}

-----------------------------------------------------------------------------
(* create, up to the wait for the connection. *)

Free(k) == ~ IsOpen(k) /\ k \notin isAdding

\* Nobody has the key or is adding it: this caller does.
Connect(c) ==
  /\ Free(call[c].key)
  /\ isAdding' = isAdding \cup {call[c].key}
  /\ Goto(c, "connecting")
  /\ UNCHANGED <<backends, initialized>>

\* A connection exists: create throws.
Already(c) ==
  /\ IsOpen(call[c].key)
  /\ Answer(c, "already")
  /\ UNCHANGED <<isAdding, backends, initialized>>

\* Mutant of NoClient: the key is registered whoever called.
NoClientRegisters(c) ==
  /\ call[c].key \in isAdding /\ ~ IsOpen(call[c].key)
  /\ Register(call[c].key)
  /\ Answer(c, "no_client")
  /\ UNCHANGED <<isAdding, initialized>>

\* One is being made: create warns and returns nothing.  A test closes it and the
\* worker takes its client: both throw.  addBackend registers the backend first,
\* and getBackendClient throws when it finds no connection.
NoClient(c) ==
  /\ call[c].key \in isAdding /\ ~ IsOpen(call[c].key)
  /\ IF call[c].kind = "use" THEN Register(call[c].key) ELSE UNCHANGED backends
  /\ Answer(c, "no_client")
  /\ UNCHANGED <<isAdding, initialized>>

Create(c) == Connect(c) \/ Already(c) \/ NoClient(c)

-----------------------------------------------------------------------------
(* What callers do before create. *)

\* Mutant of Lookup: backends added after the start are not looked for.
LookupLoaded(c) ==
  /\ At(c, "use", "start")
  /\ Answer(c, IF call[c].key \in backends /\ IsOpen(call[c].key) THEN "ok" ELSE "no_client")
  /\ UNCHANGED <<pool, isAdding, backends, initialized, opened>>

\* getBackendClient: a registered backend is taken from the pool at once ...
Lookup(c) ==
  /\ At(c, "use", "start")
  /\ IF call[c].key \in backends
     THEN Answer(c, IF IsOpen(call[c].key) THEN "ok" ELSE "no_client")
     ELSE Goto(c, "finding")
  /\ UNCHANGED <<pool, isAdding, backends, initialized, opened>>

\* ... any other is read from the database and added.
Found(c) ==
  /\ At(c, "use", "finding")
  /\ Create(c)
  /\ UNCHANGED <<pool, opened>>

\* testConnection, under the key the user gave.
Test(c) ==
  /\ At(c, "test", "start")
  /\ Create(c)
  /\ UNCHANGED <<pool, opened>>

\* QueueWorker.push: init, unless it was completed before.
Event(c) ==
  /\ At(c, "event", "start")
  /\ \/ /\ initialized
        /\ Answer(c, "ok")
        /\ UNCHANGED <<isAdding, backends, initialized>>
     \/ ~ initialized /\ Create(c)
  /\ UNCHANGED <<pool, opened>>

\* Mutant of LoadNext: the list is filled before the connections are made.
LoadNextListed(c, registered, adding, todo) ==
  /\ backends' = Backends
  /\ \/ todo = {} /\ Answer(c, "ok") /\ isAdding' = adding
     \/ \E k \in todo :
          \/ IsOpen(k) /\ Answer(c, "already") /\ isAdding' = adding
          \/ /\ Free(k)
             /\ isAdding' = adding \cup {k}
             /\ call' = [call EXCEPT ![c].pc = "connecting", ![c].key = k,
                                     ![c].todo = todo \ {k}]

\* loadAndInitializeBackends adds backend after backend, of todo, to those that
\* are registered.  One that a request is adding is registered without waiting;
\* one that a request has added ends the loading.
LoadNext(c, registered, adding, todo) ==
  \E skipped \in SUBSET (todo \cap adding) :
    /\ backends' = registered \cup skipped
    /\ \/ todo = skipped /\ Answer(c, "ok") /\ isAdding' = adding
       \/ \E k \in todo \ skipped :
            \/ IsOpen(k) /\ Answer(c, "already") /\ isAdding' = adding
            \/ /\ Free(k)
               /\ isAdding' = adding \cup {k}
               /\ call' = [call EXCEPT ![c].pc = "connecting", ![c].key = k,
                                       ![c].todo = todo \ (skipped \cup {k})]

Load(c) ==
  /\ At(c, "load", "start")
  /\ LoadNext(c, backends, isAdding, Backends)
  /\ UNCHANGED <<pool, initialized, opened>>

-----------------------------------------------------------------------------
(* The connection is there, or not. *)

\* create puts the connection into the pool.
Enter(c) ==
  /\ pool' = [pool EXCEPT ![call[c].key] = c]
  /\ opened' = opened \cup {<<c, call[c].key>>}
  /\ isAdding' = isAdding \ {call[c].key}

\* Mutant of UseConnected: the backend is not registered.
UseUnregistered(c) ==
  /\ At(c, "use", "connecting")
  /\ Enter(c)
  /\ Answer(c, "ok")
  /\ UNCHANGED <<backends, initialized>>

UseConnected(c) ==
  /\ At(c, "use", "connecting")
  /\ Enter(c)
  /\ Register(call[c].key)
  /\ Answer(c, "ok")
  /\ UNCHANGED initialized

\* The loading goes on with the next backend at once.
LoadConnected(c) ==
  /\ At(c, "load", "connecting")
  /\ pool' = [pool EXCEPT ![call[c].key] = c]
  /\ opened' = opened \cup {<<c, call[c].key>>}
  /\ LoadNext(c, backends \cup {call[c].key}, isAdding \ {call[c].key}, call[c].todo)
  /\ UNCHANGED initialized

\* Mutant of TestConnected: the connection is not closed.
TestUnclosed(c) ==
  /\ At(c, "test", "connecting")
  /\ opened' = opened \cup {<<c, call[c].key>>}
  /\ isAdding' = isAdding \ {call[c].key}
  /\ Answer(c, "ok")
  /\ UNCHANGED <<pool, backends, initialized>>

\* A test closes the connection and takes it out of the pool before any other
\* caller runs.
TestConnected(c) ==
  /\ At(c, "test", "connecting")
  /\ isAdding' = isAdding \ {call[c].key}
  /\ Answer(c, "ok")
  /\ UNCHANGED <<pool, opened, backends, initialized>>

\* The worker goes on to create its queue; the flag is set when it exists.
EventConnected(c) ==
  /\ At(c, "event", "connecting")
  /\ Enter(c)
  /\ Goto(c, "creating")
  /\ UNCHANGED <<backends, initialized>>

\* Mutant of QueueCreated: the flag is not set.
QueueCreatedOnly(c) ==
  /\ At(c, "event", "creating")
  /\ Answer(c, "ok")
  /\ UNCHANGED <<pool, isAdding, backends, opened, initialized>>

QueueCreated(c) ==
  /\ At(c, "event", "creating")
  /\ initialized' = TRUE
  /\ Answer(c, "ok")
  /\ UNCHANGED <<pool, isAdding, backends, opened>>

\* A redis client goes on dialling after connect has given up on it, and a RabbitMQ
\* connection without its channels stays: nobody has it and nobody closes it.
LeavesClient(c) ==
  \/ UNCHANGED opened
  \/ opened' = opened \cup {<<c, call[c].key>>}

\* Mutant of ConnectFails: the key stays marked as being added.
ConnectFailsMarked(c) ==
  /\ call[c].pc = "connecting"
  /\ LeavesClient(c)
  /\ Answer(c, "failed")
  /\ UNCHANGED <<pool, isAdding, backends, initialized>>

\* connect rejects: create clears the mark and throws, whoever the caller is.
ConnectFails(c) ==
  /\ call[c].pc = "connecting"
  /\ isAdding' = isAdding \ {call[c].key}
  /\ LeavesClient(c)
  /\ Answer(c, "failed")
  /\ UNCHANGED <<pool, backends, initialized>>

\* client.create rejects: the connection stays in the pool and init throws.
CreationFails(c) ==
  /\ At(c, "event", "creating")
  /\ Answer(c, "failed")
  /\ UNCHANGED <<pool, isAdding, backends, initialized, opened>>

-----------------------------------------------------------------------------
Begin(c) == Lookup(c) \/ Found(c) \/ Test(c) \/ Event(c) \/ Load(c)
Connected(c) == \/ UseConnected(c) \/ LoadConnected(c) \/ TestConnected(c)
                \/ EventConnected(c) \/ QueueCreated(c)
Fails(c) == ConnectFails(c) \/ CreationFails(c)

Step(c) == Begin(c) \/ Connected(c) \/ Fails(c)

Next == \E c \in Callers : Step(c)

Spec == Init /\ [][Next]_vars

\* The databases and backends answer, one way or the other.
FairSpec == Spec /\ \A c \in Callers : WF_vars(Step(c))

-----------------------------------------------------------------------------
Connecting(c, k) == call[c].pc = "connecting" /\ call[c].key = k
Failed(k) == \E c \in Callers : call[c].answer = "failed" /\ call[c].key = k

Pooled == {<<pool[k], k>> : k \in {j \in Keys : IsOpen(j)}}

\* What the pool holds is there, and a connection outside it is one whose connect
\* was answered with an error: callers that race for a key, tests, and loads that
\* end half-way leave none behind.  Each failed connect may leave one, so a
\* backend that refuses while callers come back piles them up.
NoneLeaked ==
  /\ Pooled \subseteq opened
  /\ \A leaked \in opened \ Pooled :
       call[leaked[1]].answer = "failed" /\ call[leaked[1]].key = leaked[2]

\* A key is marked as being added exactly while one caller waits for its
\* connection: the mark never outlives the wait, which would shut out every later
\* caller, and never ends before it, which would let a second one in.
MarkedWhileConnecting ==
  \A k \in Keys :
    /\ k \in isAdding <=> \E c \in Callers : Connecting(c, k)
    /\ \A c, d \in Callers : Connecting(c, k) /\ Connecting(d, k) => c = d

\* getBackendClient decides by its own list, create by the pool: a backend with a
\* connection is in the list, so that a request that comes later is served
\* instead of running into "already exists".
OpenIsRegistered == \A b \in Backends : IsOpen(b) => b \in backends

\* The other way round a backend may be in the list without a connection, because
\* a second caller registers it while the first is connecting: but then the
\* connection is still coming, or the backend refused it.
RegisteredIsComing ==
  \A b \in backends : IsOpen(b) \/ b \in isAdding \/ Failed(b)

\* The list of backends and the pool tell callers the same, both ways.
ListMatchesPool == OpenIsRegistered /\ RegisteredIsComing

\* The worker's connection exists and its flag is not set only while its queue is
\* being created, or when that failed: then no later init succeeds.
StatsReady ==
  /\ initialized => IsOpen(StatsKey)
  /\ IsOpen(StatsKey) /\ ~ initialized =>
       Failed(StatsKey) \/ \E c \in Callers : At(c, "event", "creating")

\* A backend that a request asked for, and the worker's connection, are there in
\* the end, however many callers got in each other's way, unless it was refused.
AskedForIsOpened ==
  \A c \in Callers :
    call[c].kind \in {"use", "event"} ~> IsOpen(call[c].key) \/ Failed(call[c].key)

\* test/032-queue_backend.js:169: a backend that is not there is answered with
\* "Cannot connect to backend".  Nothing else is: testConnection says so only
\* when connecting failed.
TestTellsTheTruth ==
  \A c \in Callers :
    call[c].kind = "test" /\ call[c].pc = "done" => call[c].answer \in {"ok", "failed"}
=============================================================================
