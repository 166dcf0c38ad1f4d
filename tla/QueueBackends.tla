--------------------------- MODULE QueueBackends ---------------------------
(***************************************************************************)
(* The backends of one user: their documents, which of them is the         *)
(* default, and the queues that refer to them (repository/queue_backend.js *)
(* with its routes, and the choice of a backend in create of               *)
(* repository/queue.js).                                                   *)
(*                                                                         *)
(* A call is a request to the API.  A step is the code from one answer of  *)
(* the database to the next; calls interleave between steps, and nothing   *)
(* holds the documents that a call has read.                               *)
(***************************************************************************)
EXTENDS Calls

CONSTANTS BackendCalls, \* number of calls, in the order they arrive
          MaxBackends,  \* bound on the documents that are ever created
          BackendKeys,  \* keys a user may name backends by
          QueueNames,   \* names of queues
          NoKey         \* a queue is created without naming a backend

ASSUME BackendsAssumption ==
  BackendCalls \in Nat /\ MaxBackends \in Nat /\ QueueNames # {}

VARIABLES backendDoc, \* _id -> its document
          queueOf,    \* name of a queue -> the backend its document refers to
          bcall,      \* call -> what it does and where it is
          met         \* operations that were in progress together (history)

backendVars == <<backendDoc, queueOf, bcall, met>>

BackendCallers == 1..BackendCalls
BackendIds == 1..MaxBackends  \* _ids, in the order they are given
NoBackend == 0
AnyName == CHOOSE n \in QueueNames : TRUE

\* The schema: a document that was not created yet or is removed is kept as such,
\* because an _id is never given twice.
BackendDocs == [key: BackendKeys \cup {NoKey}, default: BOOLEAN,
                state: {"unused", "stored", "removed"}]

BackendOps == {"create", "setDefault", "delete", "createQueue", "show"}

\* was: whether there was a default (create), or this was it (setDefault), when
\* the call looked.  other: the default that setDefault found.
BackendCallStates ==
  [op: BackendOps \cup {"none"},
   pc: {"idle", "find_default", "test", "save", "clear", "set", "count", "remove",
        "upsert", "client", "done"},
   key: BackendKeys \cup {NoKey}, id: BackendIds \cup {NoBackend},
   other: BackendIds \cup {NoBackend}, name: QueueNames, was: BOOLEAN,
   answer: {"none", "ok", "failed", "unanswered"}]

BackendsTypeOK ==
  /\ backendDoc \in [BackendIds -> BackendDocs]
  /\ queueOf \in [QueueNames -> BackendIds \cup {NoBackend}]
  /\ bcall \in [BackendCallers -> BackendCallStates]
  /\ met \subseteq SUBSET BackendOps

Stored(b) == backendDoc[b].state = "stored"
IsDefault(b) == Stored(b) /\ backendDoc[b].default
Defaults == {b \in BackendIds : IsDefault(b)}

\* Users come with backends of distinct keys, the first of which is the default,
\* and with queues on some of them.
BackendsInit ==
  /\ \E n \in 0..MaxBackends, key \in [BackendIds -> BackendKeys] :
       /\ \A a, b \in 1..n : key[a] = key[b] => a = b
       /\ backendDoc = [b \in BackendIds |->
            IF b \in 1..n THEN [key |-> key[b], default |-> b = 1, state |-> "stored"]
            ELSE [key |-> NoKey, default |-> FALSE, state |-> "unused"]]
  /\ queueOf \in [QueueNames -> BackendIds \cup {NoBackend}]
  /\ \A n \in QueueNames : queueOf[n] # NoBackend => Stored(queueOf[n])
  /\ bcall = [c \in BackendCallers |->
                [op |-> "none", pc |-> "idle", key |-> NoKey, id |-> NoBackend,
                 other |-> NoBackend, name |-> AnyName, was |-> FALSE, answer |-> "none"]]
  /\ met = {}

-----------------------------------------------------------------------------
Moves(c, r) == bcall' = [bcall EXCEPT ![c] = r] /\ UNCHANGED met

\* met keeps the operations that were in progress when another began.
Arrives(c, r) ==
  /\ IsNext(bcall, c)
  /\ bcall' = [bcall EXCEPT ![c] = r]
  /\ met' = IF r.pc = "done" THEN met
            ELSE met \cup {{r.op, bcall[d].op} : d \in Ongoing(bcall)}

Answered(c, a) == Ends(bcall[c], a)
Begun(c, o) == [bcall[c] EXCEPT !.op = o]
Refused(c, o) == Ends(Begun(c, o), "failed")

-----------------------------------------------------------------------------
(* create: a backend is added once its connection was tested. *)

IsNextId(b) == /\ backendDoc[b].state = "unused"
               /\ \A a \in BackendIds : a < b => backendDoc[a].state # "unused"

KeyTaken(k) == \E b \in BackendIds : Stored(b) /\ backendDoc[b].key = k

CreateBegin(c, k) ==
  /\ Arrives(c, IF KeyTaken(k) THEN Refused(c, "create")
                ELSE [Begun(c, "create") EXCEPT !.pc = "find_default", !.key = k])
  /\ UNCHANGED <<backendDoc, queueOf>>

CreateFindDefault(c) ==
  /\ InProgress(bcall, c, "create", "find_default")
  /\ Moves(c, [bcall[c] EXCEPT !.pc = "test", !.was = (Defaults # {})])
  /\ UNCHANGED <<backendDoc, queueOf>>

\* testConnection connects and closes, or throws (ConnectionPool has its races).
CreateTest(c) ==
  /\ InProgress(bcall, c, "create", "test")
  /\ \/ Moves(c, GoesTo(bcall[c], "save"))
     \/ Moves(c, Answered(c, "failed"))
  /\ UNCHANGED <<backendDoc, queueOf>>

\* The route answers with the new _id, or with the error it caught.
CreateAnswer(c, a) == Moves(c, Answered(c, a))

\* Mutant of CreateSave: the first backend is not made the default, every later is.
CreateSaveAlways(c) ==
  /\ InProgress(bcall, c, "create", "save")
  /\ \/ /\ KeyTaken(bcall[c].key)
        /\ CreateAnswer(c, "failed")
        /\ UNCHANGED backendDoc
     \/ \E b \in BackendIds :
          /\ ~ KeyTaken(bcall[c].key)
          /\ IsNextId(b)
          /\ backendDoc' = [backendDoc EXCEPT ![b] =
               [key |-> bcall[c].key, default |-> bcall[c].was, state |-> "stored"]]
          /\ CreateAnswer(c, "ok")
  /\ UNCHANGED queueOf

\* The index on key and user refuses a key that was taken meanwhile.
CreateSave(c) ==
  /\ InProgress(bcall, c, "create", "save")
  /\ \/ /\ KeyTaken(bcall[c].key)
        /\ CreateAnswer(c, "failed")
        /\ UNCHANGED backendDoc
     \/ \E b \in BackendIds :
          /\ ~ KeyTaken(bcall[c].key)
          /\ IsNextId(b)
          /\ backendDoc' = [backendDoc EXCEPT ![b] =
               [key |-> bcall[c].key, default |-> ~ bcall[c].was, state |-> "stored"]]
          /\ CreateAnswer(c, "ok")
  /\ UNCHANGED queueOf

-----------------------------------------------------------------------------
(* setDefault: the old default is cleared, then the new one is set. *)

SetDefaultBegin(c, b) ==
  /\ Arrives(c, IF Stored(b)
                THEN [Begun(c, "setDefault") EXCEPT !.pc = "find_default", !.id = b,
                                                    !.was = backendDoc[b].default]
                ELSE Refused(c, "setDefault"))
  /\ UNCHANGED <<backendDoc, queueOf>>

SetDefaultFind(c) ==
  /\ InProgress(bcall, c, "setDefault", "find_default")
  /\ \/ /\ Defaults = {}
        /\ Moves(c, GoesTo(bcall[c], "set"))
     \/ \E b \in Defaults :
          Moves(c, IF b = bcall[c].id THEN GoesTo(bcall[c], "set")
                   ELSE [bcall[c] EXCEPT !.pc = "clear", !.other = b])
  /\ UNCHANGED <<backendDoc, queueOf>>

\* A save writes the paths that were changed since the document was read, and
\* never brings a removed document back; whether it throws then depends on the
\* version of mongoose.
SavesDefault(b, v) ==
  backendDoc' = IF Stored(b) THEN [backendDoc EXCEPT ![b].default = v] ELSE backendDoc

\* The route answers with success, or with the error it caught.
SetDefaultAnswer(c, a) == Moves(c, Answered(c, a))

SetDefaultClear(c) ==
  /\ InProgress(bcall, c, "setDefault", "clear")
  /\ SavesDefault(bcall[c].other, FALSE)
  /\ \/ Moves(c, GoesTo(bcall[c], "set"))
     \/ ~ Stored(bcall[c].other) /\ SetDefaultAnswer(c, "failed")
  /\ UNCHANGED queueOf

\* Nothing is written when the document already was the default as it was read.
SetDefaultSet(c) ==
  /\ InProgress(bcall, c, "setDefault", "set")
  /\ \/ /\ bcall[c].was
        /\ SetDefaultAnswer(c, "ok")
        /\ UNCHANGED backendDoc
     \/ /\ ~ bcall[c].was
        /\ SavesDefault(bcall[c].id, TRUE)
        /\ \/ SetDefaultAnswer(c, "ok")
           \/ ~ Stored(bcall[c].id) /\ SetDefaultAnswer(c, "failed")
  /\ UNCHANGED queueOf

-----------------------------------------------------------------------------
(* delete: a backend is removed when no queue refers to it. *)

DeleteBegin(c, b) ==
  /\ Arrives(c, IF Stored(b) THEN [Begun(c, "delete") EXCEPT !.pc = "count", !.id = b]
                ELSE Refused(c, "delete"))
  /\ UNCHANGED <<backendDoc, queueOf>>

\* The route answers with success, or with the error it caught.
DeleteAnswer(c, a) == Moves(c, Answered(c, a))

\* Mutant of DeleteCount: the queues are not counted.
DeleteUncounted(c) ==
  /\ InProgress(bcall, c, "delete", "count")
  /\ Moves(c, GoesTo(bcall[c], "remove"))
  /\ UNCHANGED <<backendDoc, queueOf>>

DeleteCount(c) ==
  /\ InProgress(bcall, c, "delete", "count")
  /\ IF \E n \in QueueNames : queueOf[n] = bcall[c].id
     THEN DeleteAnswer(c, "failed")
     ELSE Moves(c, GoesTo(bcall[c], "remove"))
  /\ UNCHANGED <<backendDoc, queueOf>>

DeleteRemove(c) ==
  /\ InProgress(bcall, c, "delete", "remove")
  /\ backendDoc' = [backendDoc EXCEPT ![bcall[c].id].state = "removed",
                                      ![bcall[c].id].default = FALSE]
  /\ DeleteAnswer(c, "ok")
  /\ UNCHANGED queueOf

-----------------------------------------------------------------------------
(* Queues take a backend, by its key or the default one. *)

CreateQueueBegin(c, n, k) ==
  /\ \/ \E b \in BackendIds :
          /\ IF k = NoKey THEN IsDefault(b) ELSE Stored(b) /\ backendDoc[b].key = k
          /\ Arrives(c, [Begun(c, "createQueue") EXCEPT !.pc = "upsert", !.id = b,
                                                        !.name = n, !.key = k])
     \/ /\ IF k = NoKey THEN Defaults = {} ELSE ~ KeyTaken(k)
        /\ Arrives(c, Refused(c, "createQueue"))
  /\ UNCHANGED <<backendDoc, queueOf>>

\* The document is written whether or not there is one: creating a queue that
\* exists moves it to the backend of the call.
CreateQueueUpsert(c) ==
  /\ InProgress(bcall, c, "createQueue", "upsert")
  /\ queueOf' = [queueOf EXCEPT ![bcall[c].name] = bcall[c].id]
  /\ Moves(c, GoesTo(bcall[c], "client"))
  /\ UNCHANGED backendDoc

\* create reads the queue again and asks for the client of its backend: that fails
\* when the queue is gone, and may fail when the backend is.
CreateQueueClient(c) ==
  /\ InProgress(bcall, c, "createQueue", "client")
  /\ LET b == queueOf[bcall[c].name] IN
       \/ b # NoBackend /\ Moves(c, Answered(c, "ok"))
       \/ b \notin {d \in BackendIds : Stored(d)} /\ Moves(c, Answered(c, "failed"))
  /\ UNCHANGED <<backendDoc, queueOf>>

\* A queue's document is removed (QueueService has the steps of the deletion).
QueueRemoved(n) ==
  /\ queueOf[n] # NoBackend
  /\ queueOf' = [queueOf EXCEPT ![n] = NoBackend]
  /\ UNCHANGED <<backendDoc, bcall, met>>

\* show dereferences what it found: for a backend that is not there nothing is
\* answered.
Show(c, b) ==
  /\ Arrives(c, [Begun(c, "show") EXCEPT !.pc = "done", !.id = b,
                   !.answer = IF Stored(b) THEN "ok" ELSE "unanswered"])
  /\ UNCHANGED <<backendDoc, queueOf>>

ListBackends(c) ==
  /\ Arrives(c, [Begun(c, "show") EXCEPT !.pc = "done", !.answer = "ok"])
  /\ UNCHANGED <<backendDoc, queueOf>>

-----------------------------------------------------------------------------
CreateStep(c) == CreateFindDefault(c) \/ CreateTest(c) \/ CreateSave(c)
SetDefaultStep(c) == SetDefaultFind(c) \/ SetDefaultClear(c) \/ SetDefaultSet(c)
DeleteStep(c) == DeleteCount(c) \/ DeleteRemove(c)
CreateQueueStep(c) == CreateQueueUpsert(c) \/ CreateQueueClient(c)

BackendsNext ==
  \/ \E c \in BackendCallers, k \in BackendKeys : CreateBegin(c, k)
  \/ \E c \in BackendCallers, b \in BackendIds :
       SetDefaultBegin(c, b) \/ DeleteBegin(c, b) \/ Show(c, b)
  \/ \E c \in BackendCallers, n \in QueueNames, k \in BackendKeys \cup {NoKey} :
       CreateQueueBegin(c, n, k)
  \/ \E c \in BackendCallers :
       ListBackends(c) \/ CreateStep(c) \/ SetDefaultStep(c) \/ DeleteStep(c) \/ CreateQueueStep(c)
  \/ \E n \in QueueNames : QueueRemoved(n)

BackendsSpec == BackendsInit /\ [][BackendsNext]_backendVars

-----------------------------------------------------------------------------
\* Operations that make a backend the default.
Choosers == {"create", "setDefault"}

\* A user has at most one default backend, so that it is defined where a queue is
\* created, unless two calls that choose the default have overlapped: each looks
\* for the old default and writes later.  Deletions and creations of queues in
\* between do no harm, and neither do failing tests or saves.
OneDefault ==
  (\A o, p \in Choosers : {o, p} \notin met) => \A a, b \in Defaults : a = b

\* A queue refers to a backend that exists, or its messages are out of reach,
\* unless a deletion of a backend has overlapped with the creation of a queue.
QueuesBacked ==
  {"delete", "createQueue"} \notin met =>
    \A n \in QueueNames : queueOf[n] # NoBackend => Stored(queueOf[n])

\* Both: queues that are created find a backend, and those that exist keep theirs.
BackendsSound == OneDefault /\ QueuesBacked
=============================================================================
