------------------------ MODULE QueueService_proofs ------------------------
(***************************************************************************)
(* Proofs about QueueService, for every set of requests, queue names and   *)
(* operations, every driver and every value of the limits.  The second part *)
(* is about the accounting: what the events of the requests, the buffers   *)
(* and the updates of the worker carry is charged and counted exactly once, *)
(* for every size of a batch and of a buffer, in whatever order they go.   *)
(***************************************************************************)
EXTENDS QueueService, FiniteSetTheorems, TLAPS

\* Events in memory and in the stores are finitely many, so that counting the
\* messages they carry makes sense.
EventsFinite ==
  /\ IsFiniteSet(unsent)
  /\ IsFiniteSet(statsQueue)
  /\ IsFiniteSet(buffer)
  /\ \A u \in updates : IsFiniteSet(u.events)

\* A request holds messages only between its push loop or pull loop and its
\* answer, and in the push loop there is always one of the batch left to send.
HandsInOrder ==
  \A r \in Requests :
    /\ req[r].pc \notin {"send", "pulling", "done"} => req[r].got = {}
    /\ req[r].pc = "send" => req[r].got \subseteq Batch(r) /\ req[r].got # Batch(r)

TypeInv == TypeOK /\ EventsFinite /\ HandsInOrder

-----------------------------------------------------------------------------
(* Counting. *)

\* The messages that can exist are finitely many.
LEMMA MessagesFinite == IsFiniteSet(Messages)
<1>1. IsFiniteSet(1 .. MaxBatch)
  BY FS_Interval, QueueServiceAssumption
<1> QED
  BY <1>1, FS_Product, QueueServiceAssumption DEF Messages

\* A set of events carries a natural number of pushed and of pulled messages.
LEMMA CountsAreNat ==
  ASSUME NEW S \in SUBSET Events
  PROVE  Pushed(S) \in Nat /\ Pulled(S) \in Nat
<1>1. MessagesOf(S, "msg_push") \subseteq Messages /\ MessagesOf(S, "msg_pull") \subseteq Messages
  BY DEF MessagesOf, OfType, Events
<1>2. IsFiniteSet(MessagesOf(S, "msg_push")) /\ IsFiniteSet(MessagesOf(S, "msg_pull"))
  BY <1>1, MessagesFinite, FS_Subset
<1> QED
  BY <1>2, FS_CardinalityType DEF Pushed, Pulled

\* Selecting events of some types from a finite set leaves a finite set of them.
LEMMA OfTypeSelects ==
  ASSUME NEW S \in SUBSET Events, NEW types
  PROVE  /\ OfType(S, types) \in SUBSET Events
         /\ IsFiniteSet(S) => IsFiniteSet(OfType(S, types))
                              /\ Cardinality(OfType(S, types)) \in Nat
<1>1. OfType(S, types) \subseteq S
  BY DEF OfType
<1> QED
  BY <1>1, FS_Subset, FS_CardinalityType

\* The updates made from a finite buffer are well formed and finite.
LEMMA UpdatesForType ==
  ASSUME NEW S \in SUBSET Events, IsFiniteSet(S)
  PROVE  /\ UpdatesFor(S) \subseteq Updates
         /\ \A u \in UpdatesFor(S) : IsFiniteSet(u.events)
<1>1. \A n : CounterEvents(S, n) \in SUBSET Events /\ IsFiniteSet(CounterEvents(S, n))
  <2> TAKE n
  <2>1. CounterEvents(S, n) \subseteq S
    BY DEF CounterEvents, OfType
  <2> QED
    BY <2>1, FS_Subset
<1>2. QuotaEvents(S) \in SUBSET Events /\ IsFiniteSet(QuotaEvents(S))
  BY OfTypeSelects DEF QuotaEvents
<1>3. ASSUME NEW u \in UpdatesFor(S)
      PROVE  u \in Updates /\ IsFiniteSet(u.events)
  <2>1. CASE \E n \in {e.name : e \in OfType(S, {"msg_push", "msg_pull"})} :
               u = [on |-> "queue", name |-> n, events |-> CounterEvents(S, n)]
    <3>1. PICK e \in OfType(S, {"msg_push", "msg_pull"}) :
             u = [on |-> "queue", name |-> e.name, events |-> CounterEvents(S, e.name)]
      BY <2>1
    <3>2. e.name \in Names
      BY <3>1 DEF OfType, Events
    <3> QED
      BY <3>1, <3>2, <1>1 DEF Updates
  <2>2. CASE u = [on |-> "user", events |-> QuotaEvents(S)]
    BY <2>2, <1>2 DEF Updates
  <2> QED
    BY <1>3, <2>1, <2>2 DEF UpdatesFor
<1> QED
  BY <1>3

\* New counters in a document give a document.
LEMMA DocUpdate ==
  ASSUME NEW doc \in Docs, NEW m \in Int, NEW t \in Int
  PROVE  [doc EXCEPT !.messages_in_queue = m, !.total_messages = t, !.counted = TRUE] \in Docs
  BY DEF Docs

\* Counting a set of events into a document gives a document, into none gives none.
LEMMA CountedType ==
  ASSUME NEW doc \in Docs \cup {NoDoc}, NEW S \in SUBSET Events
  PROVE  Counted(doc, S) \in Docs \cup {NoDoc} /\ (Counted(doc, S) = NoDoc <=> doc = NoDoc)
<1>1. Pushed(S) \in Int /\ Pulled(S) \in Int
  BY CountsAreNat
<1>2. CASE doc # NoDoc
  <2>1. doc \in Docs
    BY <1>2
  <2>2. /\ doc.messages_in_queue + (Pushed(S) - Pulled(S)) \in Int
        /\ doc.total_messages + Pushed(S) \in Int
    BY <1>1, <2>1 DEF Docs
  <2>3. Counted(doc, S) \in Docs
    BY <1>2, <2>1, <2>2, DocUpdate, Zenon DEF Counted
  <2> QED
    BY <1>2, <2>3, NoDocAssumption
<1>3. CASE doc = NoDoc
  BY <1>3 DEF Counted
<1> QED
  BY <1>2, <1>3

\* Saving a purged document gives a document, saving to none gives none.
LEMMA PurgeSavedType ==
  ASSUME NEW loaded, NEW doc \in Docs \cup {NoDoc}
  PROVE  /\ PurgeSaved(loaded, doc) \in Docs \cup {NoDoc}
         /\ PurgeSaved(loaded, doc) = NoDoc <=> doc = NoDoc
<1>1. CASE doc = NoDoc
  BY <1>1 DEF PurgeSaved
<1>2. CASE doc # NoDoc
  <2>1. doc \in Docs /\ 0 \in Int
    BY <1>2
  <2>2. (IF loaded.counted THEN doc.total_messages ELSE 0) \in Int
    BY <2>1 DEF Docs
  <2>3. PurgeSaved(loaded, doc) \in Docs
    BY <1>2, <2>1, <2>2, DocUpdate, Zenon DEF PurgeSaved
  <2> QED
    BY <1>2, <2>3, NoDocAssumption
<1> QED
  BY <1>1, <1>2

\* Saving a copy gives a document, saving to none gives none.
LEMMA SavedType ==
  ASSUME NEW loaded, NEW doc \in Docs \cup {NoDoc}
  PROVE  /\ Saved(loaded, doc) \in Docs \cup {NoDoc}
         /\ Saved(loaded, doc) = NoDoc <=> doc = NoDoc
<1>1. CASE doc = NoDoc
  BY <1>1 DEF Saved
<1>2. CASE doc # NoDoc
  <2>1. doc \in Docs /\ 0 \in Int
    BY <1>2
  <2>2. Saved(loaded, doc) \in Docs
    BY <1>2, <2>1, DocUpdate, Zenon DEF Saved
  <2> QED
    BY <1>2, <2>2, NoDocAssumption
<1> QED
  BY <1>1, <1>2

\* g is f with the request r moved to label l, its messages and their number kept.
Moved(f, g, r, l) ==
  /\ g \in [Requests -> ReqStates]
  /\ g[r].pc = l /\ g[r].got = f[r].got /\ g[r].count = f[r].count
  /\ \A q \in Requests \ {r} : g[q] = f[q]

\* The assignments that the actions make to a request move it.
LEMMA ReqUpdate ==
  ASSUME NEW f \in [Requests -> ReqStates], NEW r \in Requests, NEW l \in Labels,
         NEW d \in Docs \cup {NoDoc}, NEW a \in Answers, NEW p \in Phases
  PROVE  /\ Moved(f, [f EXCEPT ![r].pc = l], r, l)
         /\ Moved(f, [f EXCEPT ![r].pc = l, ![r].doc = d], r, l)
         /\ Moved(f, [f EXCEPT ![r].pc = l, ![r].answer = a], r, l)
         /\ Moved(f, [f EXCEPT ![r].pc = l, ![r].phase = p], r, l)
         /\ Moved(f, [f EXCEPT ![r].pc = l, ![r].phase = p, ![r].doc = d], r, l)
         /\ Moved(f, [f EXCEPT ![r].pc = l, ![r].doc = d, ![r].answer = a], r, l)
<1>1. Moved(f, [f EXCEPT ![r].pc = l], r, l)
  BY DEF Moved, ReqStates
<1>2. Moved(f, [f EXCEPT ![r].pc = l, ![r].doc = d], r, l)
  BY ZenonT(60) DEF Moved, ReqStates
<1>3. Moved(f, [f EXCEPT ![r].pc = l, ![r].answer = a], r, l)
  BY ZenonT(60) DEF Moved, ReqStates
<1>4. Moved(f, [f EXCEPT ![r].pc = l, ![r].phase = p], r, l)
  BY ZenonT(60) DEF Moved, ReqStates
<1>5. ASSUME NEW h, Moved(f, h, r, l)
      PROVE  /\ Moved(f, [h EXCEPT ![r].doc = d], r, l)
             /\ Moved(f, [h EXCEPT ![r].answer = a], r, l)
  BY <1>5 DEF Moved, ReqStates
<1>6. Moved(f, [f EXCEPT ![r].pc = l, ![r].phase = p, ![r].doc = d], r, l)
  BY <1>4, <1>5
<1>7. Moved(f, [f EXCEPT ![r].pc = l, ![r].doc = d, ![r].answer = a], r, l)
  BY <1>2, <1>5
<1> QED
  BY <1>1, <1>2, <1>3, <1>4, <1>6, <1>7

\* The first k messages of a request are k messages.
LEMMA PrefixSize ==
  ASSUME NEW r \in Requests, NEW k \in 1 .. MaxBatch
  PROVE  /\ IsFiniteSet({r} \X (1 .. k)) /\ Cardinality({r} \X (1 .. k)) = k
         /\ {r} \X (1 .. k) \subseteq Messages /\ <<r, 1>> \in {r} \X (1 .. k)
<1>1. MaxBatch \in Nat /\ k \in Nat /\ 1 \in Int /\ k \in Int /\ ~ (1 > k) /\ k - 1 + 1 = k
  BY QueueServiceAssumption
<1>2. IsFiniteSet(1 .. k) /\ Cardinality(1 .. k) = IF 1 > k THEN 0 ELSE k - 1 + 1
  BY <1>1, FS_Interval, Zenon
<1>3. IsFiniteSet({r}) /\ Cardinality({r}) = 1
  BY FS_Singleton
<1>4. /\ IsFiniteSet({r} \X (1 .. k))
      /\ Cardinality({r} \X (1 .. k)) = Cardinality({r}) * Cardinality(1 .. k)
  BY <1>2, <1>3, FS_Product, Zenon
<1>5. Cardinality({r} \X (1 .. k)) = 1 * k
  BY <1>1, <1>2, <1>3, <1>4
<1>6. {r} \X (1 .. k) \subseteq Messages /\ <<r, 1>> \in {r} \X (1 .. k)
  BY <1>1, QueueServiceAssumption DEF Messages
<1> QED
  BY <1>1, <1>4, <1>5, <1>6

\* A batch has as many messages as its count says.
LEMMA BatchSize ==
  ASSUME NEW r \in Requests, req[r].count \in 1 .. MaxBatch
  PROVE  /\ IsFiniteSet(Batch(r)) /\ Cardinality(Batch(r)) = req[r].count
         /\ Batch(r) \subseteq Messages /\ Batch(r) # {}
  BY PrefixSize, ZenonT(60) DEF Batch

-----------------------------------------------------------------------------
(* Type correctness. *)

\* A call that begins is one of the states a request may have: each of its fields is.
LEMMA CallsAreRequests == \A op \in Ops : Calls(op) \subseteq ReqStates
<1> SUFFICES ASSUME NEW op \in Ops, NEW c \in Calls(op) PROVE c \in ReqStates
  OBVIOUS
<1>1. op \in OpNames /\ 1 \in 1 .. MaxBatch /\ CreateRights \subseteq BOOLEAN
  BY QueueServiceAssumption
<1>2. FirstLabel(op) \in Labels
  BY <1>1 DEF FirstLabel, OpNames, Labels
<1>3. /\ c = [pc |-> c.pc, op |-> c.op, name |-> c.name, may_create |-> c.may_create,
              phase |-> c.phase, count |-> c.count, doc |-> c.doc, got |-> c.got,
              answer |-> c.answer]
      /\ c.pc = FirstLabel(op) /\ c.op = op /\ c.name \in Names
      /\ c.may_create \in IF op = "push" THEN CreateRights ELSE {TRUE}
      /\ c.phase = IF op = "create" THEN "route" ELSE "gate"
      /\ c.count \in IF op \in {"push", "pull"} THEN 1 .. MaxBatch ELSE {1}
      /\ c.doc = NoDoc /\ c.got = {} /\ c.answer = "none"
  BY DEF Calls
<1>4. /\ c.pc \in Labels /\ c.op \in OpNames /\ c.may_create \in BOOLEAN
      /\ c.phase \in Phases /\ c.count \in 1 .. MaxBatch
  BY <1>1, <1>2, <1>3 DEF Phases
<1>5. c.doc \in Docs \cup {NoDoc} /\ c.got \in SUBSET Messages /\ c.answer \in Answers
  BY <1>3 DEF Answers
<1> QED
  BY <1>3, <1>4, <1>5 DEF ReqStates

LEMMA TypeInit == Init => TypeInv
<1> SUFFICES ASSUME Init PROVE TypeInv
  OBVIOUS
<1> USE DEF Init
<1>1. queueDoc \in [Names -> Docs \cup {NoDoc}]
  BY DEF Docs, DocIds
<1>2. quota \in [messages_left: Int, queues_left: Int]
  BY QueueServiceAssumption
<1>3. store \in [Names -> {Missing} \cup SUBSET Messages]
  OBVIOUS
<1>4. req \in [Requests -> ReqStates]
  BY CallsAreRequests
<1>5. HandsInOrder
  <2> SUFFICES ASSUME NEW r \in Requests
               PROVE  req[r].got = {} /\ req[r].pc # "send"
    BY DEF HandsInOrder
  <2>1. PICK op \in Ops : req[r] \in Calls(op)
    BY Zenon
  <2>2. op \in OpNames
    BY QueueServiceAssumption
  <2> QED
    BY <2>1, <2>2 DEF Calls, FirstLabel, OpNames
<1> QED
  BY <1>1, <1>2, <1>3, <1>4, <1>5, FS_EmptySet DEF TypeInv, TypeOK, EventsFinite

\* Every action of a request keeps the types of the variables it changes.
LEMMA TypeRequest ==
  ASSUME TypeInv, NEW r \in Requests, RequestStep(r)
  PROVE  TypeInv'
<1> USE DEF TypeInv
<1>t. /\ queueDoc \in [Names -> Docs \cup {NoDoc}]
      /\ store \in [Names -> {Missing} \cup SUBSET Messages]
      /\ unsent \subseteq Events /\ IsFiniteSet(unsent)
      /\ req \in [Requests -> ReqStates]
      /\ req[r].name \in Names /\ req[r].got \in SUBSET Messages
      /\ req[r].doc \in Docs \cup {NoDoc} /\ req[r].phase \in Phases
      /\ req[r].count \in 1 .. MaxBatch
      /\ Stored(r) \in Docs \cup {NoDoc}
  BY DEF TypeOK, EventsFinite, ReqStates, Stored

\* What an action may do to the request, to the documents, to the backend and to
\* the events, and what it leaves alone.
<1> DEFINE ReqTyped   == req' \in [Requests -> ReqStates] /\ HandsInOrder'
           DocsTyped  == queueDoc' \in [Names -> Docs \cup {NoDoc}]
           StoreTyped == store' \in [Names -> {Missing} \cup SUBSET Messages]
           SentTyped  == unsent' \subseteq Events /\ IsFiniteSet(unsent')
           Empty == req[r].got = {}
<1>q. ASSUME ReqTyped, DocsTyped, StoreTyped, SentTyped, UNCHANGED <<quota, worker>>
      PROVE  TypeInv'
  BY <1>q DEF TypeOK, EventsFinite, worker
<1>h. HandsInOrder
  OBVIOUS
<1> HIDE DEF TypeInv

\* Moving a request to a label, with a document or an answer.
<1>m. ASSUME NEW l \in Labels, Moved(req, req', r, l), Empty \/ l = "done"
      PROVE  ReqTyped
  <2>1. req' \in [Requests -> ReqStates]
    BY <1>m DEF Moved
  <2>2. ASSUME NEW q \in Requests \ {r}
        PROVE  req'[q] = req[q] /\ Batch(q)' = Batch(q)
    BY <1>m DEF Moved, Batch
  <2>3. Batch(r)' = Batch(r) /\ Batch(r) # {}
    BY <1>m, <1>t, BatchSize DEF Moved, Batch
  <2>4. HandsInOrder'
    BY <1>m, <1>h, <2>2, <2>3 DEF HandsInOrder, Moved
  <2> QED
    BY <2>1, <2>4
<1>w. "none" \in Answers /\ "gate" \in Phases /\ NoDoc \in Docs \cup {NoDoc}
  BY DEF Answers, Phases
<1>e. req[r].pc \notin {"send", "pulling", "done"} => Empty
  BY <1>h DEF HandsInOrder
<1>g. ASSUME NEW l \in Labels, Goto(r, l), Empty PROVE ReqTyped
  <2>1. Moved(req, req', r, l)
    BY <1>t, <1>w, <1>g, ReqUpdate, Zenon DEF Goto
  <2> QED
    BY <2>1, <1>g, <1>m
<1>l. ASSUME NEW l \in Labels, NEW d \in Docs \cup {NoDoc}, Load(r, d, l), Empty
      PROVE  ReqTyped
  <2>1. Moved(req, req', r, l)
    BY <1>t, <1>w, <1>l, ReqUpdate, Zenon DEF Load
  <2> QED
    BY <2>1, <1>l, <1>m
<1>a. ASSUME NEW a \in Answers, Answer(r, a) PROVE ReqTyped
  <2>1. "done" \in Labels
    BY DEF Labels
  <2>2. Moved(req, req', r, "done")
    BY <1>t, <1>w, <1>a, <2>1, ReqUpdate, Zenon DEF Answer
  <2> QED
    BY <2>1, <2>2, <1>m
<1>o. ASSUME NEW d \in Docs \cup {NoDoc}, Got(r, d), Empty PROVE ReqTyped
  <2>1. {"get_find", "send", "done"} \subseteq Labels /\ "push" \in Phases /\ "ok" \in Answers
    BY DEF Labels, Phases, Answers
  <2>2. CASE req[r].phase = "gate"
    <3>1. req' = [req EXCEPT ![r].pc = "get_find", ![r].phase = "push", ![r].doc = d]
      BY <1>o, <2>2 DEF Got
    <3>2. Moved(req, req', r, "get_find")
      BY <1>t, <3>1, <2>1, ReqUpdate
    <3> QED
      BY <3>2, <2>1, <1>o, <1>m
  <2>3. CASE req[r].phase = "push"
    <3>1. Load(r, d, "send")
      BY <1>o, <2>3 DEF Got
    <3> QED
      BY <1>l, <1>o, <3>1, <2>1
  <2>4. CASE req[r].phase = "route"
    <3>1. CASE req' = [req EXCEPT ![r].pc = "done", ![r].doc = d, ![r].answer = "ok"]
      <4>1. Moved(req, req', r, "done")
        BY <1>t, <3>1, <2>1, ReqUpdate
      <4> QED
        BY <4>1, <2>1, <1>m
    <3>2. CASE Load(r, d, "edit_save")
      BY <1>l, <1>o, <3>2 DEF Labels
    <3> QED
      BY <1>o, <2>4, <3>1, <3>2 DEF Got
  <2> QED
    BY <1>t, <2>2, <2>3, <2>4 DEF Phases
<1>s. ASSUME NEW type \in EventTypes, NEW at \in Phases \cup {"pull", "delete"},
             NEW msgs \in SUBSET Messages, SendEvent(r, type, at, msgs)
      PROVE  SentTyped
  <2>1. [type |-> type, by |-> r, at |-> at, name |-> req[r].name, msgs |-> msgs] \in Events
    BY <1>t DEF Events
  <2> QED
    BY <1>t, <1>s, <2>1, FS_AddElement DEF SendEvent
<1>d. ASSUME NEW d \in Docs \cup {NoDoc}, queueDoc' = [queueDoc EXCEPT ![req[r].name] = d]
      PROVE  DocsTyped
  BY <1>t, <1>d
<1>b. ASSUME NEW h \in {Missing} \cup SUBSET Messages,
             store' = [store EXCEPT ![req[r].name] = h]
      PROVE  StoreTyped
  BY <1>t, <1>b
<1>u. /\ UNCHANGED database => DocsTyped /\ UNCHANGED quota
      /\ UNCHANGED store => StoreTyped
      /\ UNCHANGED unsent => SentTyped
  BY <1>t DEF database
<1> HIDE DEF ReqTyped, DocsTyped, StoreTyped, SentTyped, Empty

<1>1. CASE PushStep(r)
  <2>1. CASE Reject(r)
    BY <2>1, <1>a, <1>u, <1>q DEF Reject, Answers
  <2>2. CASE GateFind(r)
    BY <2>2, <1>t, <1>l, <1>e, <1>u, <1>q DEF GateFind, At, Labels
  <2>3. CASE GateUser(r)
    <3>1. CASE Answer(r, "refused")
      BY <2>3, <3>1, <1>a, <1>u, <1>q DEF GateUser, Answers
    <3>2. CASE req' = [req EXCEPT ![r].pc = "get_find",
                         ![r].phase = IF req[r].doc = NoDoc THEN "gate" ELSE "push"]
      <4>1. "get_find" \in Labels /\ (IF req[r].doc = NoDoc THEN "gate" ELSE "push") \in Phases
        BY DEF Labels, Phases
      <4>2. Moved(req, req', r, "get_find")
        BY <3>2, <4>1, <1>t, <1>w, ReqUpdate, Zenon
      <4>3. ReqTyped
        BY <2>3, <4>1, <4>2, <1>e, <1>m DEF GateUser, At
      <4> QED
        BY <2>3, <4>3, <1>u, <1>q DEF GateUser
    <3> QED
      BY <2>3, <3>1, <3>2 DEF GateUser
  <2>4. CASE Send(r)
    <3> DEFINE m == <<r, 1 + Cardinality(req[r].got)>>
               sent == req[r].got \cup {m}
    <3>1. req[r].pc = "send" /\ req[r].got \subseteq Batch(r) /\ req[r].got # Batch(r)
      BY <2>4, <1>h DEF Send, At, HandsInOrder
    <3>2. m \in Batch(r) /\ m \in Messages
      <4>1. /\ IsFiniteSet(Batch(r)) /\ Cardinality(Batch(r)) = req[r].count
            /\ Batch(r) \subseteq Messages
        BY <1>t, BatchSize
      <4>2. Cardinality(req[r].got) \in Nat /\ Cardinality(req[r].got) < req[r].count
        BY <3>1, <4>1, FS_Subset, FS_CardinalityType
      <4> QED
        BY <4>1, <4>2, <1>t, QueueServiceAssumption DEF Batch
    <3>3. sent \in SUBSET Messages /\ sent \subseteq Batch(r)
      BY <3>1, <3>2, <1>t
    <3>4. /\ store' = [store EXCEPT ![req[r].name] = AfterPush(Backlog(r), m)]
          /\ IF sent = Batch(r)
             THEN /\ SendEvent(r, "msg_push", "push", sent)
                  /\ req' = [req EXCEPT ![r].pc = "done", ![r].got = sent,
                                        ![r].answer = "ok"]
             ELSE /\ req' = [req EXCEPT ![r].got = sent]
                  /\ UNCHANGED unsent
      BY <2>4, Zenon DEF Send, Backlog
    <3> HIDE DEF m, sent
    <3>5. StoreTyped
      <4>1. AfterPush(Backlog(r), m) \in {Missing} \cup SUBSET Messages
        BY <3>2, <1>t DEF AfterPush, Backlog
      <4> QED
        BY <3>4, <4>1, <1>b
    <3>6. SentTyped
      BY <3>3, <3>4, <1>s, <1>u DEF EventTypes, Phases
    <3>7. ReqTyped
      <4> DEFINE held == [req EXCEPT ![r].got = sent]
      <4>1. /\ held \in [Requests -> ReqStates] /\ held[r].pc = "send"
            /\ held[r].got = sent /\ held[r].count = req[r].count
            /\ \A q \in Requests \ {r} : held[q] = req[q]
        BY <3>1, <3>3, <1>t DEF ReqStates
      <4>2. CASE sent # Batch(r)
        <5>1. req' = held
          BY <3>4, <4>2
        <5>2. \A q \in Requests : Batch(q)' = Batch(q)
          BY <4>1, <5>1, <1>t DEF Batch
        <5>3. HandsInOrder'
          BY <3>3, <4>1, <4>2, <5>1, <5>2, <1>h DEF HandsInOrder
        <5> QED
          BY <4>1, <5>1, <5>3 DEF ReqTyped
      <4>3. CASE sent = Batch(r)
        <5>1. "done" \in Labels /\ "ok" \in Answers
          BY DEF Labels, Answers
        <5>2. /\ req' \in [Requests -> ReqStates] /\ req'[r].pc = "done"
              /\ \A q \in Requests \ {r} : req'[q] = req[q]
          BY <3>4, <4>3, <3>3, <5>1, <1>t DEF ReqStates
        <5>3. HandsInOrder'
          BY <5>2, <1>h DEF HandsInOrder, Batch
        <5> QED
          BY <5>2, <5>3 DEF ReqTyped
      <4> QED
        BY <4>2, <4>3
    <3> QED
      BY <2>4, <3>5, <3>6, <3>7, <1>u, <1>q DEF Send
  <2>5. CASE SendFails(r)
    BY <2>5, <1>a, <1>u, <1>q DEF SendFails, Answers
  <2> QED
    BY <1>1, <2>1, <2>2, <2>3, <2>4, <2>5 DEF PushStep
<1>2. CASE CreateStep(r)
  <2>1. CASE GetFind(r)
    BY <2>1, <1>t, <1>g, <1>o, <1>e, <1>u, <1>q DEF GetFind, At, Labels
  <2>2. CASE Upsert(r)
    <3> DEFINE new == [id |-> <<r, req[r].phase>>, messages_in_queue |-> 0,
                       total_messages |-> 0, counted |-> FALSE]
    <3>1. new \in Docs
      BY <1>t DEF Docs, DocIds
    <3> HIDE DEF new
    <3>2. (IF Stored(r) = NoDoc THEN new ELSE Stored(r)) \in Docs \cup {NoDoc}
      BY <3>1, <1>t
    <3>3. DocsTyped
      BY <2>2, <3>2, <1>d DEF Upsert, Stored, new
    <3>4. ReqTyped
      BY <2>2, <1>e, <1>g DEF Upsert, At, Labels
    <3> QED
      BY <2>2, <3>3, <3>4, <1>u, <1>q DEF Upsert
  <2>3. CASE NoBackend(r)
    BY <2>3, <1>a, <1>u, <1>q DEF NoBackend, Answers
  <2>4. CASE LoadCreated(r)
    BY <2>4, <1>t, <1>a, <1>l, <1>e, <1>u, <1>q DEF LoadCreated, At, Labels, Answers
  <2>5. CASE ClientCreate(r)
    <3>1. StoreTyped
      <4>1. (IF Backlog(r) = Missing THEN {} ELSE Backlog(r)) \in {Missing} \cup SUBSET Messages
        BY <1>t DEF Backlog
      <4> QED
        BY <2>5, <4>1, <1>b DEF ClientCreate, Backlog
    <3>2. SentTyped
      BY <2>5, <1>s, <1>t DEF ClientCreate, EventTypes
    <3> QED
      BY <2>5, <3>1, <3>2, <1>t, <1>e, <1>o, <1>u, <1>q DEF ClientCreate, At
  <2>6. CASE UpsertFails(r)
    BY <2>6, <1>e, <1>g, <1>u, <1>q DEF UpsertFails, At, Labels
  <2> QED
    BY <1>2, <2>1, <2>2, <2>3, <2>4, <2>5, <2>6 DEF CreateStep
<1>3. CASE PullStep(r)
  <2>1. CASE PullFind(r)
    BY <2>1, <1>t, <1>a, <1>l, <1>e, <1>u, <1>q DEF PullFind, At, Labels, Answers
  <2>2. CASE PullOne(r)
    <3>1. PICK m \in Backlog(r) :
             /\ store' = [store EXCEPT ![req[r].name] = Backlog(r) \ {m}]
             /\ req' = [req EXCEPT ![r].got = req[r].got \cup {m}]
      BY <2>2 DEF PullOne, Backlog
    <3>2. Backlog(r) \in SUBSET Messages
      BY <2>2, <1>t DEF PullOne, Backlog
    <3>3. StoreTyped
      BY <3>1, <3>2, <1>b
    <3>4. ReqTyped
      <4>1. req[r].got \cup {m} \in SUBSET Messages
        BY <3>2, <1>t
      <4>2. req' \in [Requests -> ReqStates]
        BY <3>1, <4>1, <1>t DEF ReqStates
      <4>3. req'[r].pc = "pulling" /\ \A q \in Requests \ {r} : req'[q] = req[q]
        BY <2>2, <3>1, <1>t DEF PullOne, At, ReqStates
      <4>4. HandsInOrder'
        BY <4>3, <1>h DEF HandsInOrder, Batch
      <4> QED
        BY <4>2, <4>4 DEF ReqTyped
    <3> QED
      BY <2>2, <3>3, <3>4, <1>u, <1>q DEF PullOne
  <2>3. CASE PullReturn(r)
    <3>1. SentTyped
      BY <2>3, <1>s, <1>t, <1>u DEF PullReturn, EventTypes
    <3> QED
      BY <2>3, <3>1, <1>a, <1>u, <1>q DEF PullReturn, Answers
  <2>4. CASE PullThrows(r)
    BY <2>4, <1>a, <1>u, <1>q DEF PullThrows, Answers
  <2> QED
    BY <1>3, <2>1, <2>2, <2>3, <2>4 DEF PullStep
<1>4. CASE PurgeStep(r)
  <2>1. CASE PurgeFind(r)
    BY <2>1, <1>t, <1>a, <1>l, <1>e, <1>u, <1>q DEF PurgeFind, At, Labels, Answers
  <2>2. CASE PurgeSave(r)
    <3>1. DocsTyped
      BY <2>2, <1>t, <1>d, PurgeSavedType DEF PurgeSave, Stored
    <3> QED
      BY <2>2, <3>1, <1>e, <1>g, <1>u, <1>q DEF PurgeSave, At, Labels
  <2>3. CASE PurgeClient(r)
    <3>1. StoreTyped
      <4>1. (IF Backlog(r) = Missing THEN Backlog(r) ELSE {}) \in {Missing} \cup SUBSET Messages
        BY <1>t DEF Backlog
      <4> QED
        BY <2>3, <4>1, <1>b DEF PurgeClient, Backlog
    <3>2. PICK a \in Answers : Answer(r, a)
      BY <2>3 DEF PurgeClient, Answers
    <3> QED
      BY <2>3, <3>1, <3>2, <1>a, <1>u, <1>q DEF PurgeClient
  <2> QED
    BY <1>4, <2>1, <2>2, <2>3 DEF PurgeStep
<1>5. CASE DeleteStep(r)
  <2>1. CASE DeleteFind(r)
    BY <2>1, <1>t, <1>a, <1>l, <1>e, <1>u, <1>q DEF DeleteFind, At, Labels, Answers
  <2>2. CASE DeleteRemove(r)
    <3>1. (IF Stored(r) # NoDoc /\ Stored(r).id = req[r].doc.id THEN NoDoc ELSE Stored(r))
             \in Docs \cup {NoDoc}
      BY <1>t
    <3>2. DocsTyped
      BY <2>2, <3>1, <1>d DEF DeleteRemove, Stored
    <3> QED
      BY <2>2, <3>2, <1>e, <1>g, <1>u, <1>q DEF DeleteRemove, At, Labels
  <2>3. CASE DeleteClient(r)
    <3>1. StoreTyped
      BY <2>3, <1>b DEF DeleteClient
    <3>2. SentTyped
      BY <2>3, <1>s DEF DeleteClient, EventTypes
    <3> QED
      BY <2>3, <3>1, <3>2, <1>a, <1>u, <1>q DEF DeleteClient, Answers
  <2> QED
    BY <1>5, <2>1, <2>2, <2>3 DEF DeleteStep
<1>6. CASE EditStep(r)
  <2>1. CASE EditFind(r)
    BY <2>1, <1>t, <1>a, <1>l, <1>e, <1>u, <1>q DEF EditFind, At, Labels, Answers
  <2>2. CASE EditSave(r)
    <3>1. DocsTyped
      BY <2>2, <1>t, <1>d, SavedType DEF EditSave, Stored
    <3> QED
      BY <2>2, <3>1, <1>a, <1>u, <1>q DEF EditSave, Answers
  <2> QED
    BY <1>6, <2>1, <2>2 DEF EditStep
<1>7. CASE Rejects(r)
  <2>1. PICK a \in Answers : Answer(r, a)
    BY <1>7 DEF Rejects, Answers
  <2> QED
    BY <1>7, <2>1, <1>a, <1>u, <1>q DEF Rejects
<1> QED
  BY <1>1, <1>2, <1>3, <1>4, <1>5, <1>6, <1>7 DEF RequestStep

\* The events on their way to the worker, the worker and its updates keep the types.
LEMMA TypeBackground ==
  ASSUME TypeInv, StoreEvent \/ WorkerStep \/ Apply
  PROVE  TypeInv'
<1> USE DEF TypeInv
<1>t. /\ queueDoc \in [Names -> Docs \cup {NoDoc}]
      /\ quota \in [messages_left: Int, queues_left: Int]
      /\ unsent \subseteq Events /\ statsQueue \subseteq Events /\ buffer \subseteq Events
      /\ updates \subseteq Updates
      /\ IsFiniteSet(unsent) /\ IsFiniteSet(statsQueue) /\ IsFiniteSet(buffer)
      /\ \A u \in updates : IsFiniteSet(u.events)
  BY DEF TypeOK, EventsFinite
<1>h. ASSUME UNCHANGED req PROVE HandsInOrder'
  BY <1>h DEF HandsInOrder, Batch
\* A step that only moves events and updates around.
<1>q. ASSUME UNCHANGED <<database, store, req>>,
             unsent' \subseteq Events, statsQueue' \subseteq Events, buffer' \subseteq Events,
             IsFiniteSet(unsent'), IsFiniteSet(statsQueue'), IsFiniteSet(buffer'),
             updates' \subseteq Updates, \A u \in updates' : IsFiniteSet(u.events)
      PROVE  TypeInv'
  BY <1>q, <1>h DEF TypeOK, EventsFinite, database
<1>1. CASE StoreEvent
  <2>1. PICK e \in unsent : /\ unsent' = unsent \ {e}
                            /\ statsQueue' = statsQueue \cup {e}
                            /\ UNCHANGED <<database, store, buffer, updates, req>>
    BY <1>1 DEF StoreEvent
  <2>2. IsFiniteSet(unsent') /\ IsFiniteSet(statsQueue')
    BY <1>t, <2>1, FS_AddElement, FS_RemoveElement
  <2> QED
    BY <1>t, <2>1, <2>2, <1>q
<1>2. CASE WorkerPull
  <2>1. PICK e \in statsQueue :
          /\ statsQueue' = statsQueue \ {e}
          /\ IF Cardinality(buffer \cup {e}) = BufferSize
             THEN buffer' = {} /\ updates' = updates \cup UpdatesFor(buffer \cup {e})
             ELSE buffer' = buffer \cup {e} /\ UNCHANGED updates
          /\ UNCHANGED <<database, store, unsent, req>>
    BY <1>2 DEF WorkerPull
  <2>2. /\ IsFiniteSet(statsQueue') /\ IsFiniteSet(buffer \cup {e})
        /\ buffer \cup {e} \in SUBSET Events /\ IsFiniteSet({})
    <3>1. IsFiniteSet(statsQueue')
      BY <1>t, <2>1, FS_RemoveElement
    <3>2. IsFiniteSet(buffer \cup {e})
      BY <1>t, FS_AddElement
    <3>3. buffer \cup {e} \in SUBSET Events
      BY <1>t
    <3> QED
      BY <3>1, <3>2, <3>3, FS_EmptySet
  <2>3. /\ UpdatesFor(buffer \cup {e}) \subseteq Updates
        /\ \A u \in UpdatesFor(buffer \cup {e}) : IsFiniteSet(u.events)
    BY <2>2, UpdatesForType
  <2> QED
    BY <1>t, <2>1, <2>2, <2>3, <1>q
<1>3. CASE WorkerIdle
  <2>1. /\ UpdatesFor(buffer) \subseteq Updates
        /\ \A u \in UpdatesFor(buffer) : IsFiniteSet(u.events)
    BY <1>t, UpdatesForType
  <2> QED
    BY <1>3, <1>t, <2>1, <1>q, FS_EmptySet DEF WorkerIdle
<1>4. CASE ApplyStats
  <2>1. PICK u \in updates :
          /\ u.on = "queue"
          /\ queueDoc' = [queueDoc EXCEPT ![u.name] = Counted(queueDoc[u.name], u.events)]
          /\ updates' = updates \ {u}
          /\ UNCHANGED <<quota, store, unsent, statsQueue, buffer, req>>
    BY <1>4 DEF ApplyStats
  <2>2. u.name \in Names /\ u.events \in SUBSET Events
    BY <1>t, <2>1 DEF Updates
  <2>3. Counted(queueDoc[u.name], u.events) \in Docs \cup {NoDoc}
    BY <1>t, <2>2, CountedType
  <2>4. queueDoc' \in [Names -> Docs \cup {NoDoc}]
    BY <1>t, <2>1, <2>2, <2>3
  <2> QED
    BY <1>t, <2>1, <2>4, <1>h DEF TypeOK, EventsFinite
<1>5. CASE ApplyQuota
  <2>1. PICK u \in updates :
          /\ u.on = "user"
          /\ quota' = [messages_left |-> quota.messages_left - Pushed(u.events),
                       queues_left |-> quota.queues_left
                                         + Cardinality(OfType(u.events, {"queue_delete"}))
                                         - Cardinality(OfType(u.events, {"queue_create"}))]
          /\ updates' = updates \ {u}
          /\ UNCHANGED <<queueDoc, store, unsent, statsQueue, buffer, req>>
    BY <1>5 DEF ApplyQuota
  <2>2. u.events \in SUBSET Events /\ IsFiniteSet(u.events)
    BY <1>t, <2>1 DEF Updates
  <2>3. /\ Pushed(u.events) \in Int
        /\ Cardinality(OfType(u.events, {"queue_delete"})) \in Int
        /\ Cardinality(OfType(u.events, {"queue_create"})) \in Int
    BY <2>2, CountsAreNat, OfTypeSelects
  <2>4. quota' \in [messages_left: Int, queues_left: Int]
    BY <1>t, <2>1, <2>3
  <2> QED
    BY <1>t, <2>1, <2>4, <1>h DEF TypeOK, EventsFinite
<1> QED
  BY <1>1, <1>2, <1>3, <1>4, <1>5 DEF WorkerStep, Apply

LEMMA TypeNext == TypeInv /\ [Next]_vars => TypeInv'
<1> SUFFICES ASSUME TypeInv, [Next]_vars PROVE TypeInv'
  OBVIOUS
<1>1. CASE UNCHANGED vars
  BY <1>1 DEF vars, TypeInv, TypeOK, EventsFinite, HandsInOrder, Batch
<1>2. ASSUME NEW r \in Requests, RequestStep(r) PROVE TypeInv'
  BY <1>2, TypeRequest
<1>3. CASE StoreEvent \/ WorkerStep \/ Apply
  BY <1>3, TypeBackground
<1> QED
  BY <1>1, <1>2, <1>3 DEF Next

\* Every document, quota, backend queue, event, update and request keeps its type,
\* whatever the calls, the driver and the limits.
THEOREM TypeCorrect == Spec => []TypeOK
<1>1. TypeInv => TypeOK
  BY DEF TypeInv
<1> QED
  BY <1>1, TypeInit, TypeNext, PTL DEF Spec

-----------------------------------------------------------------------------
(* The counter of a queue and the total pushed to it. *)

\* A document whose total is a natural number not below its counter.
Counts(doc) == doc # NoDoc => /\ doc.total_messages >= 0
                              /\ doc.messages_in_queue <= doc.total_messages

TotalInv == \A n \in Names : Counts(queueDoc[n])

\* An update with pushes and pulls, or the save of a copy, keeps a document's
\* counter below its total.
LEMMA CountsKept ==
  ASSUME NEW doc \in Docs \cup {NoDoc}, Counts(doc), NEW S \in SUBSET Events, NEW loaded
  PROVE  /\ Counts(Counted(doc, S))
         /\ Counts(PurgeSaved(loaded, doc)) /\ Counts(Saved(loaded, doc))
<1>1. CASE doc = NoDoc
  BY <1>1 DEF Counts, Counted, PurgeSaved, Saved
<1>2. CASE doc # NoDoc
  <2>1. /\ doc \in Docs /\ doc.messages_in_queue \in Int /\ doc.total_messages \in Int
        /\ doc.total_messages >= 0 /\ doc.messages_in_queue <= doc.total_messages
    BY <1>2 DEF Docs, Counts
  <2>2. Pushed(S) \in Nat /\ Pulled(S) \in Nat
    BY CountsAreNat
  <2>3. /\ Counted(doc, S).messages_in_queue = doc.messages_in_queue + (Pushed(S) - Pulled(S))
        /\ Counted(doc, S).total_messages = doc.total_messages + Pushed(S)
    BY <1>2, <2>1 DEF Counted, Docs
  <2>4. \/ PurgeSaved(loaded, doc) = doc
        \/ /\ PurgeSaved(loaded, doc).messages_in_queue = 0
           /\ PurgeSaved(loaded, doc).total_messages \in {0, doc.total_messages}
    <3> DEFINE t == IF loaded.counted THEN doc.total_messages ELSE 0
               saved == [doc EXCEPT !.messages_in_queue = 0, !.total_messages = t,
                                    !.counted = TRUE]
    <3>1. PurgeSaved(loaded, doc) \in {doc, saved}
      BY <1>2 DEF PurgeSaved
    <3>2. t \in {0, doc.total_messages}
      OBVIOUS
    <3> HIDE DEF t
    <3>3. saved.messages_in_queue = 0 /\ saved.total_messages = t
      BY <2>1 DEF Docs
    <3> QED
      BY <3>1, <3>2, <3>3
  <2>5. \/ Saved(loaded, doc) = doc
        \/ Saved(loaded, doc).messages_in_queue = 0 /\ Saved(loaded, doc).total_messages = 0
    BY <1>2, <2>1 DEF Saved, Docs
  <2> QED
    BY <1>2, <2>1, <2>2, <2>3, <2>4, <2>5 DEF Counts
<1> QED
  BY <1>1, <1>2

\* Of the steps of a request four write the queue document.
DocWritten(r) == Upsert(r) \/ PurgeSave(r) \/ DeleteRemove(r) \/ EditSave(r)

LEMMA DocWriters ==
  ASSUME NEW r \in Requests, RequestStep(r)
  PROVE  UNCHANGED queueDoc \/ DocWritten(r)
<1>1. CASE PushStep(r) \/ CreateStep(r)
  BY <1>1 DEF PushStep, CreateStep, Reject, GateFind, GateUser, Send, SendFails, GetFind,
     NoBackend, LoadCreated, UpsertFails, ClientCreate, database, DocWritten
<1>2. CASE PullStep(r) \/ PurgeStep(r)
  BY <1>2 DEF PullStep, PurgeStep, PullFind, PullOne, PullReturn, PullThrows, PurgeFind,
     PurgeClient, database, DocWritten
<1>3. CASE DeleteStep(r) \/ EditStep(r) \/ Rejects(r)
  BY <1>3 DEF DeleteStep, EditStep, DeleteFind, DeleteClient, EditFind, Rejects, database,
     DocWritten
<1> QED
  BY <1>1, <1>2, <1>3 DEF RequestStep

LEMMA TotalNext == TypeInv /\ TotalInv /\ [Next]_vars => TotalInv'
<1> SUFFICES ASSUME TypeInv, TotalInv, [Next]_vars PROVE TotalInv'
  OBVIOUS
<1>t. /\ queueDoc \in [Names -> Docs \cup {NoDoc}]
      /\ \A r \in Requests : req[r].name \in Names
      /\ \A u \in updates : u.events \in SUBSET Events /\ (u.on = "queue" => u.name \in Names)
  BY DEF TypeInv, TypeOK, ReqStates, Updates
\* A step that leaves the documents alone, or changes one into one that counts.
<1>q. ASSUME UNCHANGED queueDoc PROVE TotalInv'
  BY <1>q DEF TotalInv
<1>d. ASSUME NEW n \in Names, NEW d, Counts(d), queueDoc' = [queueDoc EXCEPT ![n] = d]
      PROVE  TotalInv'
  BY <1>t, <1>d DEF TotalInv
<1>1. ASSUME NEW r \in Requests, Upsert(r) PROVE TotalInv'
  <2> DEFINE new == [id |-> <<r, req[r].phase>>, messages_in_queue |-> 0,
                     total_messages |-> 0, counted |-> FALSE]
  <2>1. Counts(new) /\ Counts(Stored(r))
    BY <1>t DEF Counts, TotalInv, Stored
  <2>2. queueDoc' = [queueDoc EXCEPT ![req[r].name] =
                       IF Stored(r) = NoDoc THEN new ELSE Stored(r)]
    BY <1>1 DEF Upsert, Stored
  <2> HIDE DEF new
  <2>3. Counts(IF Stored(r) = NoDoc THEN new ELSE Stored(r))
    BY <2>1
  <2> QED
    BY <2>2, <2>3, <1>d, <1>t
<1>2. ASSUME NEW r \in Requests, PurgeSave(r) PROVE TotalInv'
  <2>1. Counts(PurgeSaved(req[r].doc, Stored(r)))
    BY <1>t, CountsKept DEF TotalInv, Stored
  <2> QED
    BY <1>2, <2>1, <1>d, <1>t DEF PurgeSave, Stored
<1>3. ASSUME NEW r \in Requests, DeleteRemove(r) PROVE TotalInv'
  <2>1. Counts(IF Stored(r) # NoDoc /\ Stored(r).id = req[r].doc.id THEN NoDoc ELSE Stored(r))
    BY <1>t DEF Counts, TotalInv, Stored
  <2> QED
    BY <1>3, <2>1, <1>d, <1>t DEF DeleteRemove, Stored
<1>8. ASSUME NEW r \in Requests, EditSave(r) PROVE TotalInv'
  <2>1. Counts(Saved(req[r].doc, Stored(r)))
    BY <1>t, CountsKept DEF TotalInv, Stored
  <2> QED
    BY <1>8, <2>1, <1>d, <1>t DEF EditSave, Stored
<1>4. CASE ApplyStats
  <2>1. PICK u \in updates :
          /\ u.on = "queue"
          /\ queueDoc' = [queueDoc EXCEPT ![u.name] = Counted(queueDoc[u.name], u.events)]
    BY <1>4 DEF ApplyStats
  <2>2. Counts(Counted(queueDoc[u.name], u.events))
    BY <1>t, <2>1, CountsKept DEF TotalInv
  <2> QED
    BY <2>1, <2>2, <1>d, <1>t
<1>5. CASE UNCHANGED queueDoc
  BY <1>5, <1>q
<1>6. ASSUME NEW r \in Requests, RequestStep(r)
      PROVE  UNCHANGED queueDoc \/ DocWritten(r)
  BY <1>6, DocWriters
<1>7. CASE StoreEvent \/ WorkerStep \/ ApplyQuota
  <2>1. UNCHANGED queueDoc
    BY <1>7 DEF StoreEvent, WorkerStep, WorkerPull, WorkerIdle, ApplyQuota, database
  <2> QED
    BY <2>1, <1>q
<1> QED
  BY <1>1, <1>2, <1>3, <1>4, <1>5, <1>6, <1>7, <1>8 DEF Next, Apply, vars, DocWritten

\* messages_in_queue never exceeds total_messages: no order in which updates are
\* executed, and no purge, deletion or creation between an operation and its
\* update, lets a queue count more messages than were ever pushed to it.
THEOREM InQueueAtMostTotalHolds == Spec => []InQueueAtMostTotal
<1>1. Init => TotalInv
  BY DEF Init, TotalInv, Counts
<1>2. TotalInv => InQueueAtMostTotal
  BY DEF TotalInv, Counts, InQueueAtMostTotal
<1> QED
  BY <1>1, <1>2, TypeInit, TypeNext, TotalNext, PTL DEF Spec

\* What a step may do to the total of a document that it leaves in place.
TotalKept(n) ==
  /\ queueDoc[n] # NoDoc /\ queueDoc'[n] # NoDoc
  /\ queueDoc[n].id = queueDoc'[n].id
  => \/ queueDoc'[n].total_messages >= queueDoc[n].total_messages
     \/ \E r \in Requests : SavesUncounted(r, queueDoc[n]) /\ req'[r] # req[r]

LEMMA TotalStep ==
  ASSUME TypeInv, [Next]_vars, NEW n \in Names
  PROVE  TotalKept(n)
<1>t. /\ queueDoc \in [Names -> Docs \cup {NoDoc}]
      /\ req \in [Requests -> ReqStates] /\ \A r \in Requests : req[r].name \in Names
      /\ \A u \in updates : u.events \in SUBSET Events /\ (u.on = "queue" => u.name \in Names)
  BY DEF TypeInv, TypeOK, ReqStates, Updates
<1>i. queueDoc[n] # NoDoc => queueDoc[n].total_messages \in Int
  BY <1>t DEF Docs
<1>q. ASSUME queueDoc'[n] = queueDoc[n] PROVE TotalKept(n)
  BY <1>q, <1>i DEF TotalKept
<1>1. ASSUME NEW r \in Requests, Upsert(r) PROVE TotalKept(n)
  BY <1>1, <1>t, <1>q DEF Upsert, TotalKept
\* The step of a request that saves a copy changes the request.
<1>c. ASSUME NEW r \in Requests, PurgeSave(r) \/ EditSave(r)
      PROVE  req'[r] # req[r]
  BY <1>c, <1>t DEF PurgeSave, EditSave, At, Goto, Answer, ReqStates
<1>2. ASSUME NEW r \in Requests, PurgeSave(r) PROVE TotalKept(n)
  <2>1. CASE req[r].name = n /\ SavesUncounted(r, queueDoc[n])
    BY <1>2, <2>1, <1>c DEF TotalKept
  <2>2. CASE req[r].name = n /\ ~ SavesUncounted(r, queueDoc[n]) /\ queueDoc[n] # NoDoc
    <3>1. queueDoc'[n] = PurgeSaved(req[r].doc, queueDoc[n]) /\ req[r].pc = "purge_save"
      BY <1>2, <2>2, <1>t DEF PurgeSave, At
    <3>2. queueDoc[n] \in Docs
      BY <2>2, <1>t
    <3>3. queueDoc'[n].total_messages = queueDoc[n].total_messages
      BY <2>2, <3>1, <3>2 DEF PurgeSaved, SavesUncounted, Docs
    <3> QED
      BY <3>3, <2>2, <1>i DEF TotalKept
  <2>3. CASE req[r].name # n
    BY <1>2, <2>3, <1>t, <1>q DEF PurgeSave
  <2> QED
    BY <2>1, <2>2, <2>3 DEF TotalKept
<1>8. ASSUME NEW r \in Requests, EditSave(r) PROVE TotalKept(n)
  <2>1. CASE req[r].name = n /\ SavesUncounted(r, queueDoc[n])
    BY <1>8, <2>1, <1>c DEF TotalKept
  <2>2. CASE req[r].name = n /\ ~ SavesUncounted(r, queueDoc[n]) /\ queueDoc[n] # NoDoc
    <3>1. queueDoc'[n] = Saved(req[r].doc, queueDoc[n]) /\ req[r].pc = "edit_save"
      BY <1>8, <2>2, <1>t DEF EditSave, At
    <3>2. queueDoc'[n] = queueDoc[n]
      BY <2>2, <3>1 DEF Saved, SavesUncounted
    <3> QED
      BY <3>2, <1>q
  <2>3. CASE req[r].name # n
    BY <1>8, <2>3, <1>t, <1>q DEF EditSave
  <2> QED
    BY <2>1, <2>2, <2>3 DEF TotalKept
<1>3. ASSUME NEW r \in Requests, DeleteRemove(r) PROVE TotalKept(n)
  BY <1>3, <1>t, <1>q DEF DeleteRemove, TotalKept
<1>4. CASE ApplyStats
  <2>1. PICK u \in updates :
          /\ u.on = "queue"
          /\ queueDoc' = [queueDoc EXCEPT ![u.name] = Counted(queueDoc[u.name], u.events)]
    BY <1>4 DEF ApplyStats
  <2>2. Pushed(u.events) \in Nat
    BY <1>t, CountsAreNat
  <2>3. CASE u.name = n /\ queueDoc[n] # NoDoc
    <3>1. queueDoc[n] \in Docs /\ queueDoc'[n] = Counted(queueDoc[n], u.events)
      BY <1>t, <2>1, <2>3
    <3>2. queueDoc'[n].total_messages = queueDoc[n].total_messages + Pushed(u.events)
      BY <2>3, <3>1 DEF Counted, Docs
    <3> QED
      BY <1>i, <2>2, <2>3, <3>2 DEF TotalKept
  <2>4. CASE u.name # n \/ queueDoc[n] = NoDoc
    BY <1>t, <1>q, <2>1, <2>4 DEF Counted
  <2> QED
    BY <2>3, <2>4
<1>5. CASE UNCHANGED queueDoc
  BY <1>5, <1>q
<1>6. ASSUME NEW r \in Requests, RequestStep(r)
      PROVE  UNCHANGED queueDoc \/ DocWritten(r)
  BY <1>6, DocWriters
<1>7. CASE StoreEvent \/ WorkerStep \/ ApplyQuota
  <2>1. UNCHANGED queueDoc
    BY <1>7 DEF StoreEvent, WorkerStep, WorkerPull, WorkerIdle, ApplyQuota, database
  <2> QED
    BY <2>1, <1>q
<1> QED
  BY <1>1, <1>2, <1>3, <1>4, <1>5, <1>6, <1>7, <1>8 DEF Next, Apply, vars, DocWritten

\* The total of a document goes down only when a request saves a copy that it loaded
\* before anything was counted: the other purges and saves, an update of the worker,
\* a creation that finds the document and a deletion of another document of that
\* name leave it or raise it.
THEOREM TotalNeverDropsHolds == Spec => TotalNeverDrops
<1>1. TypeInv /\ [Next]_vars
        => [\A n \in Names :
              /\ queueDoc[n] # NoDoc /\ queueDoc'[n] # NoDoc
              /\ queueDoc[n].id = queueDoc'[n].id
              => \/ queueDoc'[n].total_messages >= queueDoc[n].total_messages
                 \/ \E r \in Requests :
                      SavesUncounted(r, queueDoc[n]) /\ req'[r] # req[r]]_vars
  BY TotalStep DEF TotalKept
<1> QED
  BY <1>1, TypeInit, TypeNext, PTL DEF Spec, TotalNeverDrops

-----------------------------------------------------------------------------
(* The accounting. *)


\* The labels that a call of an operation passes.
OpLabels(op) ==
  CASE op = "push"   -> {"gate_find", "gate_user", "get_find", "upsert", "load",
                         "client_create", "send", "done"}
    [] op = "pull"   -> {"pull_find", "pulling", "done"}
    [] op = "purge"  -> {"purge_find", "purge_save", "purge_client", "done"}
    [] op = "delete" -> {"delete_find", "delete_remove", "delete_client", "done"}
    [] op = "create" -> {"upsert", "load", "client_create", "edit_save", "done"}
    [] op \in {"settings", "alarm"} -> {"edit_find", "edit_save", "done"}

\* The local state of a request r, which s is, fits its operation.
Fits(r, s) ==
  /\ s.pc \in OpLabels(s.op)
  /\ s.phase = "route" <=> s.op = "create"
  /\ s.pc \in {"gate_find", "gate_user"} => s.phase = "gate"
  /\ s.pc = "send" => s.phase = "push"
  /\ s.pc # "done" => s.answer = "none"
  /\ s.op = "push" => \E k \in 0 .. MaxBatch : s.got = {r} \X (1 .. k)
  /\ s.op = "push" /\ s.answer = "ok" => s.got = {r} \X (1 .. s.count)

Labelled == \A r \in Requests : Fits(r, req[r])

\* The request whose state is s has created the queue in phase p, or found it.
Created(s, p) ==
  \/ p = "gate" /\ s.phase = "push"
  \/ p = "push" /\ s.phase = "push" /\ s.pc \in {"send", "done"}
  \/ p = "route" /\ s.op = "create" /\ s.pc \in {"edit_save", "done"}

\* A request whose state is s has sent the event e.
Sent(e, s) ==
  /\ e.name = s.name
  /\ \/ /\ e.type = "msg_push" /\ e.at = "push" /\ e.msgs = s.got
        /\ s.op = "push" /\ s.answer = "ok"
     \/ /\ e.type = "msg_pull" /\ e.at = "pull" /\ e.msgs = s.got
        /\ s.op = "pull" /\ s.answer = "ok"
     \/ e.type = "queue_create" /\ e.msgs = {} /\ Created(s, e.at)
     \/ /\ e.type = "queue_delete" /\ e.at = "delete" /\ e.msgs = {}
        /\ s.op = "delete" /\ s.answer = "ok"

Waiting == Pending("queue") \cup Pending("user")
AllSent == \A e \in Waiting : Sent(e, req[e.by])

\* An event waits in one place only: on its way, in the queue, in the buffer, or in
\* one update of the counters and one of the quota.
Apart ==
  /\ unsent \cap statsQueue = {} /\ unsent \cap buffer = {} /\ statsQueue \cap buffer = {}
  /\ \A u \in updates : /\ u.events # {}
                        /\ u.events \cap (unsent \cup statsQueue \cup buffer) = {}
                        /\ u.on = "queue" => u.events = CounterEvents(u.events, u.name)
                        /\ u.on = "user" => u.events = QuotaEvents(u.events)
  /\ \A u, v \in updates : u.on = v.on /\ u # v => u.events \cap v.events = {}

AccountInv == TypeInv /\ Labelled /\ AllSent /\ Apart

-----------------------------------------------------------------------------
(* A step of a request. *)

\* A step changes the state of one request, and not what it was called with.
LEMMA StepOfOne ==
  ASSUME TypeInv, Labelled, NEW r \in Requests, RequestStep(r)
  PROVE  /\ req[r].pc # "done"
         /\ \A q \in Requests \ {r} : req'[q] = req[q]
         /\ req'[r] \in ReqStates
         /\ req'[r].op = req[r].op /\ req'[r].name = req[r].name
         /\ req'[r].count = req[r].count /\ req'[r].may_create = req[r].may_create
         /\ UNCHANGED <<quota, worker>>
<1>t. req \in [Requests -> ReqStates] /\ req[r] \in ReqStates /\ Fits(r, req[r])
  BY DEF TypeInv, TypeOK, Labelled
<1>p. req'[r] \in ReqStates
  <2>1. TypeInv'
    BY TypeRequest
  <2> QED
    BY <2>1 DEF TypeInv, TypeOK
<1>q. UNCHANGED <<quota, worker>>
  BY DEF RequestStep, PushStep, CreateStep, PullStep, PurgeStep, DeleteStep,
     EditStep, Reject, GateFind, GateUser, Send, SendFails, GetFind, NoBackend, LoadCreated,
     Upsert, UpsertFails, ClientCreate, PullFind, PullOne, PullReturn, PullThrows, PurgeFind,
     PurgeSave, PurgeClient, DeleteFind, DeleteRemove, DeleteClient, EditFind, EditSave, Rejects,
     database
<1> DEFINE Ok == /\ req[r].pc # "done"
                 /\ \A q \in Requests \ {r} : req'[q] = req[q]
                 /\ req'[r].op = req[r].op /\ req'[r].name = req[r].name
                 /\ req'[r].count = req[r].count /\ req'[r].may_create = req[r].may_create
<1>1. ASSUME PushStep(r) PROVE Ok
  <2>1. CASE Reject(r) \/ GateFind(r) \/ SendFails(r)
    BY <2>1, <1>t DEF Reject, GateFind, SendFails, At, Answer, Load, ReqStates
  <2>2. CASE GateUser(r)
    BY <2>2, <1>t DEF GateUser, At, Answer, ReqStates
  <2>3. CASE Send(r)
    BY <2>3, <1>t DEF Send, At, ReqStates
  <2> QED
    BY <1>1, <2>1, <2>2, <2>3 DEF PushStep
<1>2. ASSUME CreateStep(r) PROVE Ok
  <2>1. ASSUME NEW d, Got(r, d), req[r].pc # "done" PROVE Ok
    <3>1. req[r].phase \in {"gate", "push", "route"}
      BY <1>t DEF ReqStates, Phases
    <3>2. CASE req[r].phase = "gate"
      BY <2>1, <3>2, <1>t DEF Got, ReqStates
    <3>3. CASE req[r].phase = "push"
      BY <2>1, <3>3, <1>t DEF Got, Load, ReqStates
    <3>4. CASE req[r].phase = "route"
      BY <2>1, <3>4, <1>t DEF Got, Load, ReqStates
    <3> QED
      BY <3>1, <3>2, <3>3, <3>4
  <2>2. CASE GetFind(r)
    BY <2>1, <2>2, <1>t DEF GetFind, At, Goto, ReqStates
  <2>3. CASE Upsert(r) \/ UpsertFails(r) \/ NoBackend(r) \/ LoadCreated(r)
    BY <2>3, <1>t DEF Upsert, UpsertFails, NoBackend, LoadCreated, At, Goto, Answer, Load,
       ReqStates
  <2>4. CASE ClientCreate(r)
    BY <2>1, <2>4 DEF ClientCreate, At
  <2> QED
    BY <1>2, <2>2, <2>3, <2>4 DEF CreateStep
<1>3. ASSUME PullStep(r) PROVE Ok
  BY <1>3, <1>t DEF PullStep, PullFind, PullOne, PullReturn, PullThrows, At, Answer, Load,
     ReqStates
<1>4. ASSUME PurgeStep(r) PROVE Ok
  BY <1>4, <1>t DEF PurgeStep, PurgeFind, PurgeSave, PurgeClient, At, Answer, Load, Goto,
     ReqStates
<1>5. ASSUME DeleteStep(r) PROVE Ok
  BY <1>5, <1>t DEF DeleteStep, DeleteFind, DeleteRemove, DeleteClient, At, Answer, Load, Goto,
     ReqStates
<1>6. ASSUME EditStep(r) \/ Rejects(r) PROVE Ok
  BY <1>6, <1>t DEF EditStep, EditFind, EditSave, Rejects, At, Answer, Load, ReqStates
<1> QED
  BY <1>p, <1>q, <1>1, <1>2, <1>3, <1>4, <1>5, <1>6 DEF RequestStep

\* The messages a push hands to the driver come one after the other.
LEMMA NextOfBatch ==
  ASSUME NEW r \in Requests, NEW k \in 0 .. MaxBatch, NEW c \in 1 .. MaxBatch,
         NEW got, got = {r} \X (1 .. k), got \subseteq {r} \X (1 .. c), got # {r} \X (1 .. c)
  PROVE  /\ Cardinality(got) = k /\ k + 1 \in 1 .. c
         /\ <<r, k + 1>> \notin got
         /\ got \cup {<<r, k + 1>>} = {r} \X (1 .. k + 1)
<1>1. MaxBatch \in Nat
  BY QueueServiceAssumption
<1>2. Cardinality(got) = k
  <2>1. CASE k = 0
    <3>1. got = {}
      BY <2>1
    <3> QED
      BY <3>1, <2>1, FS_EmptySet
  <2>2. CASE k # 0
    <3>1. k \in 1 .. MaxBatch
      BY <2>2, <1>1
    <3> QED
      BY <3>1, PrefixSize
  <2> QED
    BY <2>1, <2>2
<1>3. k < c
  <2> SUFFICES ASSUME c <= k PROVE FALSE
    BY <1>1
  <2>1. <<r, k>> \in got
    BY <1>1
  <2>2. k <= c
    BY <1>1, <2>1
  <2> QED
    BY <1>1, <2>2
<1>4. got \cup {<<r, k + 1>>} = {r} \X (1 .. k + 1)
  BY <1>1
<1>5. <<r, k + 1>> \notin got
  BY <1>1
<1> QED
  BY <1>1, <1>2, <1>3, <1>4, <1>5

\* What the loop of a push does to the state of its request.
LEMMA SendEffect ==
  ASSUME TypeInv, Labelled, NEW r \in Requests, Send(r)
  PROVE  LET m == <<r, 1 + Cardinality(req[r].got)>> IN
         /\ req[r].op = "push" /\ req[r].pc = "send" /\ req[r].phase = "push"
         /\ m \notin req[r].got /\ m \in Batch(r)
         /\ req'[r].got = req[r].got \cup {m} /\ req'[r].phase = "push"
         /\ \E k \in 0 .. MaxBatch : req'[r].got = {r} \X (1 .. k)
         /\ store' = [store EXCEPT ![req[r].name] = AfterPush(@, m)]
         /\ \/ /\ req'[r].pc = "done" /\ req'[r].answer = "ok"
               /\ req'[r].got = Batch(r)
               /\ SendEvent(r, "msg_push", "push", Batch(r))
            \/ /\ req'[r].pc = "send" /\ req'[r].answer = "none" /\ UNCHANGED unsent
<1>1. /\ req \in [Requests -> ReqStates] /\ req[r] \in ReqStates /\ Fits(r, req[r])
      /\ req[r].count \in 1 .. MaxBatch /\ req[r].pc = "send" /\ req[r].answer = "none"
      /\ req[r].got \subseteq Batch(r) /\ req[r].got # Batch(r)
  BY DEF TypeInv, TypeOK, Labelled, ReqStates, HandsInOrder, Send, At, Fits
<1>2. req[r].op = "push" /\ req[r].phase = "push"
  <2>1. req[r].op \in OpNames
    BY <1>1 DEF ReqStates
  <2> QED
    BY <2>1, <1>1 DEF Fits, OpLabels, OpNames
<1>3. PICK k \in 0 .. MaxBatch : req[r].got = {r} \X (1 .. k)
  BY <1>1, <1>2 DEF Fits
<1>4. /\ Cardinality(req[r].got) = k /\ k + 1 \in 1 .. req[r].count
      /\ <<r, k + 1>> \notin req[r].got
      /\ req[r].got \cup {<<r, k + 1>>} = {r} \X (1 .. k + 1)
  BY <1>1, <1>3, NextOfBatch DEF Batch
<1>5. k + 1 = 1 + k /\ k + 1 \in 0 .. MaxBatch
  BY <1>1, <1>4, QueueServiceAssumption
<1> DEFINE m == <<r, 1 + Cardinality(req[r].got)>>
           sent == req[r].got \cup {m}
<1>6. m = <<r, k + 1>> /\ m \in Batch(r) /\ m \notin req[r].got /\ sent = {r} \X (1 .. k + 1)
  BY <1>4, <1>5 DEF Batch
<1>7. /\ store' = [store EXCEPT ![req[r].name] = AfterPush(store[req[r].name], m)]
      /\ IF sent = Batch(r)
         THEN /\ SendEvent(r, "msg_push", "push", sent)
              /\ req' = [req EXCEPT ![r].pc = "done", ![r].got = sent, ![r].answer = "ok"]
         ELSE /\ req' = [req EXCEPT ![r].got = sent]
              /\ UNCHANGED unsent
  BY DEF Send
<1> HIDE DEF m, sent
<1>8. CASE sent = Batch(r)
  <2>1. req'[r].pc = "done" /\ req'[r].answer = "ok" /\ req'[r].got = sent /\
          req'[r].phase = "push"
    BY <1>1, <1>2, <1>7, <1>8 DEF ReqStates
  <2> QED
    BY <1>1, <1>2, <1>5, <1>6, <1>7, <1>8, <2>1 DEF m, sent
<1>9. CASE sent # Batch(r)
  <2>1. req'[r].pc = "send" /\ req'[r].answer = "none" /\ req'[r].got = sent /\
          req'[r].phase = "push"
    BY <1>1, <1>2, <1>7, <1>9 DEF ReqStates
  <2> QED
    BY <1>1, <1>2, <1>5, <1>6, <1>7, <1>9, <2>1 DEF m, sent
<1> QED
  BY <1>8, <1>9

\* A step of a request leaves it in a state that fits its operation.
LEMMA StepFits ==
  ASSUME TypeInv, Labelled, NEW r \in Requests, RequestStep(r)
  PROVE  Fits(r, req'[r])
<1>t. /\ req \in [Requests -> ReqStates] /\ req[r] \in ReqStates /\ Fits(r, req[r])
      /\ req[r].op \in OpNames /\ req[r].phase \in {"gate", "push", "route"}
  BY DEF TypeInv, TypeOK, Labelled, ReqStates, Phases
\* A step that leaves the messages alone and does not accept a push.
<1>m. ASSUME /\ req'[r].op = req[r].op /\ req'[r].got = req[r].got
             /\ req'[r].pc \in OpLabels(req[r].op)
             /\ req'[r].phase = "route" <=> req[r].op = "create",
             req'[r].pc \in {"gate_find", "gate_user"} => req'[r].phase = "gate",
             req'[r].pc = "send" => req'[r].phase = "push",
             req'[r].pc # "done" => req'[r].answer = "none",
             req'[r].answer = "ok" => req[r].op # "push"
      PROVE  Fits(r, req'[r])
  BY <1>m, <1>t DEF Fits
<1>g. ASSUME NEW l, Goto(r, l) \/ \E d : Load(r, d, l),
             req[r].pc # "done", l \in OpLabels(req[r].op),
             l \notin {"gate_find", "done"},
             l = "gate_user" => req[r].phase = "gate", l = "send" => req[r].phase = "push"
      PROVE  Fits(r, req'[r])
  <2>1. /\ req'[r].pc = l /\ req'[r].op = req[r].op /\ req'[r].got = req[r].got
        /\ req'[r].phase = req[r].phase /\ req'[r].answer = req[r].answer
    BY <1>g, <1>t DEF Goto, Load, ReqStates
  <2>2. req[r].answer = "none"
    BY <1>g, <1>t DEF Fits
  <2> QED
    BY <2>1, <2>2, <1>g, <1>m, <1>t DEF Fits
<1>a. ASSUME NEW a, Answer(r, a), a = "ok" => req[r].op # "push"
      PROVE  Fits(r, req'[r])
  <2>1. /\ req'[r].pc = "done" /\ req'[r].op = req[r].op /\ req'[r].got = req[r].got
        /\ req'[r].phase = req[r].phase /\ req'[r].answer = a
    BY <1>a, <1>t DEF Answer, ReqStates
  <2>2. "done" \in OpLabels(req[r].op)
    BY <1>t DEF OpNames, OpLabels
  <2> QED
    BY <2>1, <2>2, <1>a, <1>m, <1>t DEF Fits
<1>p. ASSUME req[r].pc \in {"gate_find", "gate_user", "get_find"} PROVE req[r].op = "push"
  BY <1>p, <1>t DEF Fits, OpNames, OpLabels
<1>c. ASSUME req[r].pc \in {"upsert", "load", "client_create"}
               PROVE req[r].op \in {"push", "create"}
  BY <1>c, <1>t DEF Fits, OpNames, OpLabels
<1>o. ASSUME NEW d, Got(r, d), req[r].op \in {"push", "create"}, req[r].pc # "done"
      PROVE  Fits(r, req'[r])
  <2>1. CASE req[r].phase = "gate"
    <3>1. /\ req'[r].pc = "get_find" /\ req'[r].op = req[r].op /\ req'[r].got = req[r].got
          /\ req'[r].phase = "push" /\ req'[r].answer = req[r].answer
      BY <1>o, <2>1, <1>t DEF Got, ReqStates
    <3>2. req[r].op = "push" /\ req[r].answer = "none"
      BY <1>o, <2>1, <1>t DEF Fits
    <3> QED
      BY <3>1, <3>2, <1>m DEF OpLabels
  <2>2. CASE req[r].phase = "push"
    <3>1. req[r].op = "push"
      BY <1>o, <2>2, <1>t DEF Fits
    <3> QED
      BY <3>1, <1>o, <2>2, <1>g DEF Got, OpLabels
  <2>3. CASE req[r].phase = "route"
    <3>1. req[r].op = "create"
      BY <2>3, <1>t DEF Fits
    <3>2. CASE req' = [req EXCEPT ![r].pc = "done", ![r].doc = d, ![r].answer = "ok"]
      <4>1. /\ req'[r].pc = "done" /\ req'[r].op = req[r].op /\ req'[r].got = req[r].got
            /\ req'[r].phase = req[r].phase /\ req'[r].answer = "ok"
        BY <3>2, <1>t DEF ReqStates
      <4> QED
        BY <3>1, <4>1, <1>m, <1>t DEF Fits, OpLabels
    <3>3. CASE Load(r, d, "edit_save")
      BY <1>o, <3>1, <3>3, <1>g DEF OpLabels
    <3> QED
      BY <1>o, <2>3, <3>2, <3>3 DEF Got
  <2> QED
    BY <1>t, <2>1, <2>2, <2>3
<1>1. CASE PushStep(r)
  <2>1. CASE Reject(r) \/ SendFails(r)
    BY <2>1, <1>a DEF Reject, SendFails
  <2>2. CASE GateFind(r)
    <3>1. req[r].op = "push" /\ req[r].phase = "gate"
      BY <2>2, <1>p, <1>t DEF GateFind, At, Fits
    <3> QED
      BY <2>2, <3>1, <1>g DEF GateFind, At, OpLabels
  <2>3. CASE GateUser(r)
    <3>1. CASE Answer(r, "refused")
      BY <3>1, <1>a
    <3>2. CASE req' = [req EXCEPT ![r].pc = "get_find",
                         ![r].phase = IF req[r].doc = NoDoc THEN "gate" ELSE "push"]
      <4>1. /\ req'[r].pc = "get_find" /\ req'[r].op = req[r].op /\ req'[r].got = req[r].got
            /\ req'[r].phase \in {"gate", "push"} /\ req'[r].answer = req[r].answer
        BY <3>2, <1>t DEF ReqStates
      <4>2. req[r].op = "push" /\ req[r].answer = "none"
        BY <2>3, <1>p, <1>t DEF GateUser, At, Fits
      <4> QED
        BY <4>1, <4>2, <1>m DEF OpLabels
    <3> QED
      BY <2>3, <3>1, <3>2 DEF GateUser
  <2>4. CASE Send(r)
    <3>1. /\ req[r].op = "push" /\ req'[r].phase = "push" /\ req'[r].op = "push"
          /\ \E k \in 0 .. MaxBatch : req'[r].got = {r} \X (1 .. k)
          /\ \/ req'[r].pc = "done" /\ req'[r].got = Batch(r)
             \/ req'[r].pc = "send" /\ req'[r].answer = "none"
      BY <2>4, SendEffect, StepOfOne
    <3>2. Batch(r) = {r} \X (1 .. req'[r].count)
      BY StepOfOne DEF Batch
    <3> QED
      BY <3>1, <3>2 DEF Fits, OpLabels
  <2> QED
    BY <1>1, <2>1, <2>2, <2>3, <2>4 DEF PushStep
<1>2. CASE CreateStep(r)
  <2>1. CASE GetFind(r)
    BY <2>1, <1>g, <1>o, <1>p DEF GetFind, At, OpLabels
  <2>2. CASE Upsert(r) \/ UpsertFails(r)
    BY <2>2, <1>g, <1>c DEF Upsert, UpsertFails, At, OpLabels
  <2>3. CASE NoBackend(r)
    BY <2>3, <1>a DEF NoBackend
  <2>4. CASE LoadCreated(r)
    BY <2>4, <1>a, <1>g, <1>c DEF LoadCreated, At, OpLabels
  <2>5. CASE ClientCreate(r)
    BY <2>5, <1>o, <1>c DEF ClientCreate, At
  <2> QED
    BY <1>2, <2>1, <2>2, <2>3, <2>4, <2>5 DEF CreateStep
<1>3. CASE PullStep(r)
  <2>p. ASSUME req[r].pc \in {"pull_find", "pulling"} PROVE req[r].op = "pull"
    BY <2>p, <1>t DEF Fits, OpNames, OpLabels
  <2>1. CASE PullFind(r)
    BY <2>1, <2>p, <1>a, <1>g DEF PullFind, At, OpLabels
  <2>2. CASE PullOne(r)
    <3>1. req'[r].pc = req[r].pc /\ req'[r].op = req[r].op /\ req'[r].phase = req[r].phase
          /\ req'[r].answer = req[r].answer
      BY <2>2, <1>t DEF PullOne, ReqStates
    <3> QED
      BY <2>2, <3>1, <2>p, <1>t DEF Fits, PullOne, At
  <2>3. CASE PullReturn(r)
    BY <2>3, <2>p, <1>a DEF PullReturn, At
  <2>4. CASE PullThrows(r)
    BY <2>4, <1>a DEF PullThrows
  <2> QED
    BY <1>3, <2>1, <2>2, <2>3, <2>4 DEF PullStep
<1>4. CASE PurgeStep(r)
  <2>p. ASSUME req[r].pc \in {"purge_find", "purge_save", "purge_client"}
                 PROVE req[r].op = "purge"
    BY <2>p, <1>t DEF Fits, OpNames, OpLabels
  <2>1. CASE PurgeFind(r)
    BY <2>1, <2>p, <1>a, <1>g DEF PurgeFind, At, OpLabels
  <2>2. CASE PurgeSave(r)
    BY <2>2, <2>p, <1>g DEF PurgeSave, At, OpLabels
  <2>3. CASE PurgeClient(r)
    BY <2>3, <2>p, <1>a DEF PurgeClient, At
  <2> QED
    BY <1>4, <2>1, <2>2, <2>3 DEF PurgeStep
<1>5. CASE DeleteStep(r)
  <2>p. ASSUME req[r].pc \in {"delete_find", "delete_remove", "delete_client"}
                 PROVE req[r].op = "delete"
    BY <2>p, <1>t DEF Fits, OpNames, OpLabels
  <2>1. CASE DeleteFind(r)
    BY <2>1, <2>p, <1>a, <1>g DEF DeleteFind, At, OpLabels
  <2>2. CASE DeleteRemove(r)
    BY <2>2, <2>p, <1>g DEF DeleteRemove, At, OpLabels
  <2>3. CASE DeleteClient(r)
    BY <2>3, <2>p, <1>a DEF DeleteClient, At
  <2> QED
    BY <1>5, <2>1, <2>2, <2>3 DEF DeleteStep
<1>6. CASE EditStep(r)
  <2>p. /\ req[r].pc = "edit_find" => req[r].op \in {"settings", "alarm"}
        /\ req[r].pc = "edit_save" => req[r].op # "push"
    BY <1>t DEF Fits, OpNames, OpLabels
  <2>1. CASE EditFind(r)
    BY <2>1, <2>p, <1>a, <1>g DEF EditFind, At, OpLabels
  <2>2. CASE EditSave(r)
    BY <2>2, <2>p, <1>a DEF EditSave, At
  <2> QED
    BY <1>6, <2>1, <2>2 DEF EditStep
<1>7. CASE Rejects(r)
  <2>1. Answer(r, "failed") \/ Answer(r, "not_created")
    BY <1>7 DEF Rejects
  <2> QED
    BY <2>1, <1>a
<1> QED
  BY <1>1, <1>2, <1>3, <1>4, <1>5, <1>6, <1>7 DEF RequestStep

\* A request that has got as far as push does not go back.
LEMMA PhaseStays ==
  ASSUME TypeInv, Labelled, NEW r \in Requests, RequestStep(r), req[r].phase = "push"
  PROVE  req'[r].phase = "push" /\ (req[r].pc = "send" => req'[r].pc \in {"send", "done"})
<1>t. /\ req \in [Requests -> ReqStates] /\ req[r] \in ReqStates /\ Fits(r, req[r])
  BY DEF TypeInv, TypeOK, Labelled
<1>1. CASE PushStep(r)
  <2>1. CASE Reject(r) \/ SendFails(r)
    BY <2>1, <1>t DEF Reject, SendFails, Answer, ReqStates
  <2>2. CASE GateFind(r) \/ GateUser(r)
    BY <2>2, <1>t DEF GateFind, GateUser, At, Fits
  <2>3. CASE Send(r)
    BY <2>3, SendEffect
  <2> QED
    BY <1>1, <2>1, <2>2, <2>3 DEF PushStep
<1>2. CASE CreateStep(r)
  <2>1. ASSUME NEW d, Got(r, d) PROVE req'[r].phase = "push"
    BY <2>1, <1>t DEF Got, Load, ReqStates
  <2> QED
    BY <1>2, <2>1, <1>t DEF CreateStep, GetFind, Upsert, UpsertFails, NoBackend, LoadCreated,
       ClientCreate, At, Answer, Load, Goto, ReqStates
<1>3. CASE PullStep(r)
  BY <1>3, <1>t DEF PullStep, PullFind, PullOne, PullReturn, PullThrows, At, Answer, Load,
     ReqStates
<1>4. CASE PurgeStep(r)
  BY <1>4, <1>t DEF PurgeStep, PurgeFind, PurgeSave, PurgeClient, At, Answer, Load, Goto,
     ReqStates
<1>5. CASE DeleteStep(r)
  BY <1>5, <1>t DEF DeleteStep, DeleteFind, DeleteRemove, DeleteClient, At, Answer, Load, Goto,
     ReqStates
<1>6. CASE EditStep(r) \/ Rejects(r)
  BY <1>6, <1>t DEF EditStep, EditFind, EditSave, Rejects, At, Answer, Load, ReqStates
<1> QED
  BY <1>1, <1>2, <1>3, <1>4, <1>5, <1>6 DEF RequestStep

\* The save of a copy is the last thing that a request does.
LEMMA SaveIsLast ==
  ASSUME TypeInv, NEW r \in Requests, RequestStep(r), At(r, "edit_save")
  PROVE  req'[r].pc = "done"
<1>1. EditSave(r) \/ Rejects(r)
  BY DEF RequestStep, PushStep, CreateStep, PullStep, PurgeStep, DeleteStep, EditStep,
     Reject, GateFind, GateUser, Send, SendFails, GetFind, Upsert, UpsertFails, NoBackend,
     LoadCreated, ClientCreate, PullFind, PullOne, PullReturn, PullThrows, PurgeFind, PurgeSave,
     PurgeClient, DeleteFind, DeleteRemove, DeleteClient, EditFind, At
<1>2. req \in [Requests -> ReqStates]
  BY DEF TypeInv, TypeOK
<1> QED
  BY <1>1, <1>2 DEF EditSave, Rejects, Answer, ReqStates

\* What a request has sent it has sent for good.
LEMMA SentStays ==
  ASSUME TypeInv, Labelled, NEW r \in Requests, RequestStep(r), NEW e, Sent(e, req[r])
  PROVE  Sent(e, req'[r])
<1>1. /\ req[r].answer = "none" /\ req[r].pc # "done" /\ req'[r].name = req[r].name
      /\ req'[r].op = req[r].op
  BY StepOfOne DEF Labelled, Fits
<1>2. e.name = req[r].name /\ e.type = "queue_create" /\ e.msgs = {} /\ Created(req[r], e.at)
  BY <1>1 DEF Sent
<1>3. Created(req'[r], e.at)
  BY <1>1, <1>2, PhaseStays, SaveIsLast DEF Created, At
<1> QED
  BY <1>1, <1>2, <1>3 DEF Sent

\* A step of a request sends one event or none, and one that it has not sent before.
\* A push is accepted exactly when it is reported.
LEMMA Reports ==
  ASSUME TypeInv, Labelled, NEW r \in Requests, RequestStep(r)
  PROVE  \/ /\ unsent' = unsent /\ ~ ClientCreate(r)
            /\ req[r].op = "pull" /\ req'[r].answer = "ok" => req'[r].got = {}
            /\ ~ (req[r].op = "push" /\ req'[r].answer = "ok")
         \/ \E e \in Events :
              /\ unsent' = unsent \cup {e} /\ e.by = r
              /\ Sent(e, req'[r]) /\ ~ Sent(e, req[r])
              /\ e.type = "msg_push" <=> (req[r].op = "push" /\ req'[r].answer = "ok")
              /\ e.type = "msg_pull" <=> (req[r].op = "pull" /\ req'[r].answer = "ok")
              /\ e.type = "queue_create" <=> ClientCreate(r)
<1> DEFINE Silent == /\ unsent' = unsent /\ ~ ClientCreate(r)
                     /\ req[r].op = "pull" /\ req'[r].answer = "ok" => req'[r].got = {}
                     /\ ~ (req[r].op = "push" /\ req'[r].answer = "ok")
           Says(e) == /\ unsent' = unsent \cup {e} /\ e.by = r
                      /\ Sent(e, req'[r]) /\ ~ Sent(e, req[r])
                      /\ e.type = "msg_push" <=> (req[r].op = "push" /\ req'[r].answer = "ok")
                      /\ e.type = "msg_pull" <=> (req[r].op = "pull" /\ req'[r].answer = "ok")
                      /\ e.type = "queue_create" <=> ClientCreate(r)
<1>c. req[r].pc # "client_create" => ~ ClientCreate(r)
  BY DEF ClientCreate, At
<1>t. /\ req \in [Requests -> ReqStates] /\ req[r] \in ReqStates /\ Fits(r, req[r])
      /\ req[r].op \in OpNames /\ req[r].phase \in Phases /\ req[r].name \in Names
      /\ req[r].got \in SUBSET Messages
      /\ req[r].pc # "done" /\ req[r].answer = "none" /\ Fits(r, req'[r])
      /\ req'[r].op = req[r].op /\ req'[r].name = req[r].name
      /\ req'[r] \in ReqStates
  BY StepOfOne, StepFits DEF TypeInv, TypeOK, Labelled, ReqStates, Fits
<1>e. ASSUME NEW ty \in EventTypes, NEW at \in Phases \cup {"pull", "delete"},
             NEW msgs \in SUBSET Messages
      PROVE  /\ [type |-> ty, by |-> r, at |-> at, name |-> req[r].name, msgs |-> msgs] \in Events
  BY <1>e, <1>t DEF Events
<1>a. ASSUME NEW a, Answer(r, a) PROVE req'[r].answer = a /\ req'[r].pc = "done"
                                       /\ req'[r].phase = req[r].phase /\ req'[r].got = req[r].got
  BY <1>a, <1>t DEF Answer, ReqStates
<1>1. CASE ClientCreate(r)
  <2> DEFINE e == [type |-> "queue_create", by |-> r, at |-> req[r].phase,
                   name |-> req[r].name, msgs |-> {}]
  <2>1. e \in Events
    BY <1>t, <1>e DEF EventTypes
  <2>2. unsent' = unsent \cup {e} /\ req[r].pc = "client_create" /\ Got(r, req[r].doc)
    BY <1>1 DEF ClientCreate, SendEvent, At
  <2>3. req[r].op \in {"push", "create"}
    BY <2>2, <1>t DEF Fits, OpLabels, OpNames
  <2>4. ~ Created(req[r], req[r].phase)
    BY <2>2, <1>t DEF Created, Fits
  <2>5. Created(req'[r], req[r].phase) /\ (req[r].op = "push" => req'[r].answer = "none")
    <3>1. CASE req[r].phase = "gate"
      <4>1. req'[r].phase = "push" /\ req'[r].answer = req[r].answer
        BY <2>2, <3>1, <1>t DEF Got, ReqStates
      <4> QED
        BY <4>1, <3>1, <1>t DEF Created
    <3>2. CASE req[r].phase = "push"
      <4>1. req'[r].phase = "push" /\ req'[r].answer = req[r].answer /\ req'[r].pc = "send"
        BY <2>2, <3>2, <1>t DEF Got, Load, ReqStates
      <4> QED
        BY <4>1, <3>2, <1>t DEF Created
    <3>3. CASE req[r].phase = "route"
      <4>1. req'[r].pc \in {"edit_save", "done"}
        BY <2>2, <3>3, <1>t DEF Got, Load, ReqStates
      <4> QED
        BY <4>1, <3>3, <1>t DEF Created, Fits
    <3> QED
      BY <3>1, <3>2, <3>3, <1>t DEF Phases
  <2>6. Says(e)
    BY <1>1, <2>2, <2>3, <2>4, <2>5, <1>t DEF Sent
  <2> QED
    BY <2>1, <2>6
<1>2. CASE Send(r)
  <2>s. ~ ClientCreate(r)
    BY <1>2, <1>c DEF Send, At
  <2>1. CASE UNCHANGED unsent /\ req'[r].answer = "none"
    BY <2>1, <2>s
  <2>2. CASE /\ req'[r].answer = "ok" /\ req'[r].got = Batch(r)
             /\ SendEvent(r, "msg_push", "push", Batch(r))
    <3> DEFINE e == [type |-> "msg_push", by |-> r, at |-> "push",
                     name |-> req[r].name, msgs |-> Batch(r)]
    <3>1. req[r].op = "push"
      BY <1>2, SendEffect
    <3>2. Batch(r) \in SUBSET Messages
      BY <1>t, BatchSize DEF ReqStates
    <3>3. e \in Events
      BY <3>2, <1>e DEF EventTypes, Phases
    <3>4. Says(e)
      BY <2>2, <2>s, <3>1, <1>t DEF SendEvent, Sent
    <3> QED
      BY <3>3, <3>4
  <2> QED
    BY <1>2, <2>1, <2>2, SendEffect
<1>3. CASE PullReturn(r)
  <2>1. /\ req[r].op = "pull" /\ req'[r].answer = "ok" /\ req'[r].got = req[r].got
        /\ ~ ClientCreate(r)
    BY <1>3, <1>a, <1>c, <1>t DEF PullReturn, At, Fits, OpLabels, OpNames
  <2>2. CASE req[r].got = {}
    BY <1>3, <2>1, <2>2 DEF PullReturn
  <2>3. CASE req[r].got # {}
    <3> DEFINE e == [type |-> "msg_pull", by |-> r, at |-> "pull",
                     name |-> req[r].name, msgs |-> req[r].got]
    <3>1. e \in Events
      BY <1>t, <1>e DEF EventTypes
    <3>2. Says(e)
      BY <1>3, <2>1, <2>3, <1>t DEF PullReturn, SendEvent, Sent
    <3> QED
      BY <3>1, <3>2
  <2> QED
    BY <2>2, <2>3
<1>4. CASE DeleteClient(r)
  <2> DEFINE e == [type |-> "queue_delete", by |-> r, at |-> "delete",
                   name |-> req[r].name, msgs |-> {}]
  <2>1. req[r].op = "delete" /\ req'[r].answer = "ok" /\ ~ ClientCreate(r)
    BY <1>4, <1>a, <1>c, <1>t DEF DeleteClient, At, Fits, OpLabels, OpNames
  <2>2. e \in Events
    BY <1>e DEF EventTypes
  <2>3. Says(e)
    BY <1>4, <2>1, <1>t DEF DeleteClient, SendEvent, Sent
  <2> QED
    BY <2>2, <2>3
<1>5. CASE GetFind(r) \/ Upsert(r) \/ UpsertFails(r) \/ NoBackend(r) \/ LoadCreated(r)
  <2>1. unsent' = unsent /\ ~ ClientCreate(r)
    BY <1>5, <1>c DEF GetFind, Upsert, UpsertFails, NoBackend, LoadCreated, At
  <2>2. CASE GetFind(r)
    <3>0. req[r].op = "push"
      BY <2>2, <1>t DEF GetFind, At, Fits, OpLabels, OpNames
    <3>1. ASSUME NEW d, Got(r, d) PROVE req[r].op = "push" => req'[r].answer = "none"
      <4>1. CASE req[r].phase = "gate" \/ req[r].phase = "push"
        <5>1. \/ req' = [req EXCEPT ![r].pc = "get_find", ![r].phase = "push", ![r].doc = d]
              \/ req' = [req EXCEPT ![r].pc = "send", ![r].doc = d]
          BY <4>1, <3>1 DEF Got, Load
        <5> QED
          BY <5>1, <1>t DEF ReqStates
      <4>2. CASE req[r].phase = "route"
        BY <4>2, <1>t DEF Fits
      <4> QED
        BY <4>1, <4>2, <1>t DEF Phases
    <3> QED
      BY <2>1, <2>2, <3>0, <3>1, <1>t DEF GetFind, Goto, ReqStates
  <2>3. CASE Upsert(r) \/ UpsertFails(r) \/ NoBackend(r) \/ LoadCreated(r)
    BY <2>1, <2>3, <1>t DEF Upsert, UpsertFails, NoBackend, LoadCreated, Goto, Load, Answer,
       ReqStates
  <2> QED
    BY <1>5, <2>2, <2>3
<1>6. CASE Reject(r) \/ GateFind(r) \/ GateUser(r) \/ SendFails(r)
  BY <1>6, <1>c, <1>t DEF Reject, GateFind, GateUser, SendFails, At, Answer, Load, ReqStates
<1>7. CASE PullFind(r) \/ PullOne(r) \/ PullThrows(r)
  BY <1>7, <1>c, <1>t DEF PullFind, PullOne, PullThrows, At, Answer, Load, ReqStates
<1>8. CASE PurgeFind(r) \/ PurgeSave(r) \/ DeleteFind(r) \/ DeleteRemove(r)
  BY <1>8, <1>c, <1>t DEF PurgeFind, PurgeSave, DeleteFind, DeleteRemove, At, Answer, Load, Goto,
     ReqStates
<1>9. CASE PurgeClient(r)
  <2>1. req[r].op = "purge" /\ ~ ClientCreate(r)
    BY <1>9, <1>c, <1>t DEF PurgeClient, At, Fits, OpLabels, OpNames
  <2> QED
    BY <1>9, <2>1 DEF PurgeClient
<1>10. CASE EditFind(r)
  BY <1>10, <1>c, <1>t DEF EditFind, At, Answer, Load, ReqStates
<1>11. CASE EditSave(r)
  <2>1. req[r].op \notin {"push", "pull"} /\ ~ ClientCreate(r)
    BY <1>11, <1>c, <1>t DEF EditSave, At, Fits, OpLabels, OpNames
  <2> QED
    BY <1>11, <2>1 DEF EditSave
<1>12. CASE Rejects(r)
  <2>1. req'[r].answer # "ok" /\ unsent' = unsent
    BY <1>12, <1>a DEF Rejects
  <2>2. ~ ClientCreate(r)
    <3>1. ASSUME ClientCreate(r) PROVE FALSE
      <4>0. req[r].phase \in Phases /\ Got(r, req[r].doc)
        BY <3>1, <1>t DEF ClientCreate, ReqStates
      <4>1. \/ req'[r].pc \in {"get_find", "send", "edit_save"}
            \/ req'[r].answer = "ok"
        <5>1. CASE req[r].phase = "gate"
          BY <4>0, <5>1, <1>t DEF Got, ReqStates
        <5>2. CASE req[r].phase = "push"
          BY <4>0, <5>2, <1>t DEF Got, Load, ReqStates
        <5>3. CASE req[r].phase = "route"
          BY <4>0, <5>3, <1>t DEF Got, Load, ReqStates
        <5> QED
          BY <4>0, <5>1, <5>2, <5>3 DEF Phases
      <4>2. req'[r].pc = "done" /\ req'[r].answer \in {"failed", "not_created"}
        BY <1>12, <1>a, <1>t DEF Rejects, Answer, ReqStates
      <4> QED
        BY <4>1, <4>2
    <3> QED
      BY <3>1
  <2> QED
    BY <2>1, <2>2
<1> QED
  BY <1>1, <1>2, <1>3, <1>4, <1>5, <1>6, <1>7, <1>8, <1>9, <1>10, <1>11, <1>12
     DEF RequestStep, PushStep, CreateStep, PullStep, PurgeStep, DeleteStep, EditStep

-----------------------------------------------------------------------------
(* Events on their way. *)

\* What the updates made from a buffer carry: every event that counts, each in one
\* update of the counters and one of the quota at most, and nothing else.
LEMMA Flushed ==
  ASSUME NEW S \in SUBSET Events
  PROVE  /\ \A u \in UpdatesFor(S) :
              /\ u.events # {} /\ u.events \subseteq S /\ u.on \in {"queue", "user"}
              /\ u.on = "queue" =>
                   u = [on |-> "queue", name |-> u.name, events |-> CounterEvents(S, u.name)]
              /\ u.on = "user" => u = [on |-> "user", events |-> QuotaEvents(S)]
         /\ \A e \in QuotaEvents(S) : \E u \in UpdatesFor(S) : u.on = "user" /\ e \in u.events
         /\ \A e \in OfType(S, {"msg_push", "msg_pull"}) :
              \E u \in UpdatesFor(S) : u.on = "queue" /\ u.name = e.name /\ e \in u.events
<1> DEFINE Q == {[on |-> "queue", name |-> n, events |-> CounterEvents(S, n)] :
                   n \in {e.name : e \in OfType(S, {"msg_push", "msg_pull"})}}
           U == {[on |-> "user", events |-> E] : E \in {QuotaEvents(S)} \ {{}}}
<1>1. UpdatesFor(S) = Q \cup U
  BY DEF UpdatesFor
<1>2. ASSUME NEW u \in Q PROVE /\ u.events # {} /\ u.events \subseteq S /\ u.on = "queue"
                               /\ u = [on |-> "queue", name |-> u.name,
                                       events |-> CounterEvents(S, u.name)]
  BY DEF CounterEvents, OfType
<1>3. ASSUME NEW u \in U PROVE /\ u.events # {} /\ u.events \subseteq S /\ u.on = "user"
                               /\ u = [on |-> "user", events |-> QuotaEvents(S)]
  BY DEF QuotaEvents, OfType
<1>4. ASSUME NEW e \in QuotaEvents(S) PROVE \E u \in U : u.on = "user" /\ e \in u.events
  <2>1. QuotaEvents(S) # {}
    BY <1>4
  <2>2. [on |-> "user", events |-> QuotaEvents(S)] \in U
    BY <2>1
  <2> QED
    BY <2>2, <1>4
<1>5. ASSUME NEW e \in OfType(S, {"msg_push", "msg_pull"})
      PROVE  \E u \in Q : u.on = "queue" /\ u.name = e.name /\ e \in u.events
  <2>1. [on |-> "queue", name |-> e.name, events |-> CounterEvents(S, e.name)] \in Q
    BY <1>5
  <2>2. e \in CounterEvents(S, e.name)
    BY <1>5 DEF CounterEvents, OfType
  <2> QED
    BY <2>1, <2>2
<1> HIDE DEF Q, U
<1> QED
  BY <1>1, <1>2, <1>3, <1>4, <1>5

\* What is on its way and what of it counts.
LEMMA PendingHas ==
  ASSUME NEW kind, NEW e
  PROVE  e \in Pending(kind) <=> \/ e \in unsent \cup statsQueue \cup buffer
                                 \/ \E u \in updates : u.on = kind /\ e \in u.events
  BY DEF Pending, UpdatesOn

\* The worker moves events and makes updates of them; nothing that counts is lost,
\* and nothing appears.
LEMMA Moves ==
  ASSUME TypeInv, Apart, StoreEvent \/ WorkerStep
  PROVE  /\ UNCHANGED <<queueDoc, quota, store, req>> /\ Apart'
         /\ Waiting' \subseteq Waiting
         /\ QuotaEvents(Pending("user"))' = QuotaEvents(Pending("user"))
         /\ \A n \in Names : CounterEvents(Pending("queue"), n)'
                               = CounterEvents(Pending("queue"), n)
<1>t. /\ unsent \subseteq Events /\ statsQueue \subseteq Events /\ buffer \subseteq Events
  BY DEF TypeInv, TypeOK
<1>1. CASE StoreEvent
  <2>1. PICK e \in unsent : /\ unsent' = unsent \ {e}
                            /\ statsQueue' = statsQueue \cup {e}
                            /\ UNCHANGED <<database, store, buffer, updates, req>>
    BY <1>1 DEF StoreEvent
  <2>2. UNCHANGED <<queueDoc, quota, store, req>>
    BY <2>1 DEF database
  <2>3. unsent' \cup statsQueue' \cup buffer' = unsent \cup statsQueue \cup buffer
    BY <2>1
  <2>4. ASSUME NEW kind PROVE Pending(kind)' = Pending(kind)
    BY <2>1, <2>3 DEF Pending, UpdatesOn
  <2>5. Apart'
    BY <2>1, <2>3, Zenon DEF Apart
  <2> QED
    BY <2>2, <2>4, <2>5 DEF Waiting, QuotaEvents, CounterEvents
\* A flush of S, which is the buffer with the event just pulled or the buffer alone.
<1>f. ASSUME NEW S \in SUBSET Events, UNCHANGED unsent, statsQueue' \subseteq statsQueue,
             statsQueue' \cap S = {}, S \cap unsent = {},
             unsent \cap statsQueue = {},
             \A u \in updates : u.events \cap S = {},
             unsent' \cup statsQueue' \cup S = unsent \cup statsQueue \cup buffer,
             buffer' = {}, updates' = updates \cup UpdatesFor(S)
      PROVE  /\ Apart' /\ Waiting' \subseteq Waiting
             /\ QuotaEvents(Pending("user"))' = QuotaEvents(Pending("user"))
             /\ \A n \in Names : CounterEvents(Pending("queue"), n)'
                                   = CounterEvents(Pending("queue"), n)
  <2> DEFINE W == UpdatesFor(S)
  <2>1. /\ \A u \in W :
             /\ u.events # {} /\ u.events \subseteq S /\ u.on \in {"queue", "user"}
             /\ u.on = "queue" =>
                  u = [on |-> "queue", name |-> u.name, events |-> CounterEvents(S, u.name)]
             /\ u.on = "user" => u = [on |-> "user", events |-> QuotaEvents(S)]
        /\ \A e \in QuotaEvents(S) : \E u \in W : u.on = "user" /\ e \in u.events
        /\ \A e \in OfType(S, {"msg_push", "msg_pull"}) :
             \E u \in W : u.on = "queue" /\ u.name = e.name /\ e \in u.events
    BY Flushed
  <2>2. \A n, k : CounterEvents(CounterEvents(S, n), n) = CounterEvents(S, n)
                  /\ (n # k => CounterEvents(S, n) \cap CounterEvents(S, k) = {})
    BY DEF CounterEvents, OfType
  <2>3. QuotaEvents(QuotaEvents(S)) = QuotaEvents(S)
    BY DEF QuotaEvents, OfType
  <2>4. \A u, v \in W : u.on = v.on /\ u # v => u.events \cap v.events = {}
    <3>1. ASSUME NEW u \in W, NEW v \in W, u.on = v.on, u # v
          PROVE  u.events \cap v.events = {}
      <4>1. CASE u.on = "user"
        <5>1. u = [on |-> "user", events |-> QuotaEvents(S)] /\ v = u
          BY <3>1, <4>1, <2>1
        <5> QED
          BY <5>1, <3>1
      <4>2. CASE u.on = "queue"
        <5>1. /\ u = [on |-> "queue", name |-> u.name, events |-> CounterEvents(S, u.name)]
              /\ v = [on |-> "queue", name |-> v.name, events |-> CounterEvents(S, v.name)]
          BY <3>1, <4>2, <2>1
        <5> QED
          BY <5>1, <3>1, <4>2, <2>1, <2>2
      <4> QED
        BY <3>1, <4>1, <4>2, <2>1
    <3> QED
      BY <3>1
  <2> HIDE DEF W
  <2>u. updates' = updates \cup W
    BY <1>f DEF W
  <2>5. Apart'
    <3>1. unsent' \cap statsQueue' = {} /\ unsent' \cap buffer' = {} /\
            statsQueue' \cap buffer' = {}
      BY <1>f
    <3>2. ASSUME NEW u \in updates
          PROVE  /\ u.events # {}
                 /\ u.events \cap (unsent' \cup statsQueue' \cup buffer') = {}
                 /\ u.on = "queue" => u.events = CounterEvents(u.events, u.name)
                 /\ u.on = "user" => u.events = QuotaEvents(u.events)
      <4>1. /\ u.events # {}
            /\ u.events \cap (unsent \cup statsQueue \cup buffer) = {}
            /\ u.on = "queue" => u.events = CounterEvents(u.events, u.name)
            /\ u.on = "user" => u.events = QuotaEvents(u.events)
        BY <3>2 DEF Apart
      <4> QED
        BY <4>1, <1>f
    <3>3. ASSUME NEW u \in W
          PROVE  /\ u.events # {}
                 /\ u.events \cap (unsent' \cup statsQueue' \cup buffer') = {}
                 /\ u.on = "queue" => u.events = CounterEvents(u.events, u.name)
                 /\ u.on = "user" => u.events = QuotaEvents(u.events)
      <4>1. u.events # {} /\ u.events \subseteq S
        BY <3>3, <2>1
      <4>2. u.events \cap (unsent' \cup statsQueue' \cup buffer') = {}
        BY <4>1, <1>f
      <4>3. u.on = "queue" => u.events = CounterEvents(u.events, u.name)
        BY <3>3, <2>1, <2>2
      <4>4. u.on = "user" => u.events = QuotaEvents(u.events)
        BY <3>3, <2>1, <2>3
      <4> QED
        BY <4>1, <4>2, <4>3, <4>4
    <3>4. ASSUME NEW u \in updates', NEW v \in updates', u.on = v.on, u # v
          PROVE  u.events \cap v.events = {}
      <4>1. CASE u \in updates /\ v \in updates
        BY <4>1, <3>4 DEF Apart
      <4>2. CASE u \in W /\ v \in W
        BY <4>2, <3>4, <2>4
      <4>3. CASE u \in updates /\ v \in W
        BY <4>3, <2>1, <1>f
      <4>4. CASE u \in W /\ v \in updates
        BY <4>4, <2>1, <1>f
      <4> QED
        BY <4>1, <4>2, <4>3, <4>4, <2>u
    <3> QED
      BY <3>1, <3>2, <3>3, <3>4, <2>u DEF Apart
  <2>6. ASSUME NEW e, NEW kind
        PROVE  e \in Pending(kind)' <=> \/ e \in unsent' \cup statsQueue'
                                        \/ \E u \in updates : u.on = kind /\ e \in u.events
                                        \/ \E u \in W : u.on = kind /\ e \in u.events
    <3>1. e \in Pending(kind)' <=> \/ e \in unsent' \cup statsQueue' \cup buffer'
                                   \/ \E u \in updates' : u.on = kind /\ e \in u.events
      BY DEF Pending, UpdatesOn
    <3> QED
      BY <3>1, <2>u, <1>f
  <2>7. ASSUME NEW e, NEW kind
        PROVE  e \in Pending(kind) <=> \/ e \in unsent' \cup statsQueue' \cup S
                                       \/ \E u \in updates : u.on = kind /\ e \in u.events
    BY <1>f, PendingHas
  <2>8. Waiting' \subseteq Waiting
    BY <2>6, <2>7, <2>1 DEF Waiting
  <2>9. QuotaEvents(Pending("user"))' = QuotaEvents(Pending("user"))
    <3>1. ASSUME NEW e, e.type \in {"msg_push", "queue_create", "queue_delete"}
          PROVE  e \in Pending("user")' <=> e \in Pending("user")
      BY <3>1, <2>6, <2>7, <2>1 DEF QuotaEvents, OfType
    <3> QED
      BY <3>1 DEF QuotaEvents, OfType
  <2>10. ASSUME NEW n \in Names
         PROVE  CounterEvents(Pending("queue"), n)' = CounterEvents(Pending("queue"), n)
    <3>1. ASSUME NEW e, e.type \in {"msg_push", "msg_pull"}
          PROVE  e \in Pending("queue")' <=> e \in Pending("queue")
      BY <3>1, <2>6, <2>7, <2>1 DEF OfType
    <3> QED
      BY <3>1 DEF CounterEvents, OfType
  <2> QED
    BY <2>5, <2>8, <2>9, <2>10
<1>2. CASE WorkerPull
  <2>1. PICK e \in statsQueue :
          /\ statsQueue' = statsQueue \ {e}
          /\ IF Cardinality(buffer \cup {e}) = BufferSize
             THEN buffer' = {} /\ updates' = updates \cup UpdatesFor(buffer \cup {e})
             ELSE buffer' = buffer \cup {e} /\ UNCHANGED updates
          /\ UNCHANGED <<database, store, unsent, req>>
    BY <1>2 DEF WorkerPull
  <2>2. UNCHANGED <<queueDoc, quota, store, req, unsent>>
    BY <2>1 DEF database
  <2>3. CASE buffer' = {} /\ updates' = updates \cup UpdatesFor(buffer \cup {e})
    <3>1. /\ unsent \cap statsQueue = {} /\ unsent \cap buffer = {} /\ statsQueue \cap buffer = {}
          /\ \A u \in updates : u.events \cap (unsent \cup statsQueue \cup buffer) = {}
      BY DEF Apart
    <3> DEFINE S == buffer \cup {e}
    <3>2. /\ S \in SUBSET Events /\ statsQueue' \cap S = {} /\ S \cap unsent = {}
          /\ \A u \in updates : u.events \cap S = {}
          /\ unsent' \cup statsQueue' \cup S = unsent \cup statsQueue \cup buffer
          /\ statsQueue' \subseteq statsQueue
      BY <1>t, <2>1, <2>2, <3>1
    <3>3. updates' = updates \cup UpdatesFor(S)
      BY <2>3
    <3> HIDE DEF S
    <3> QED
      BY <2>2, <2>3, <3>1, <3>2, <3>3, <1>f
  <2>4. CASE buffer' = buffer \cup {e} /\ UNCHANGED updates
    <3>1. unsent' \cup statsQueue' \cup buffer' = unsent \cup statsQueue \cup buffer
      BY <2>1, <2>2, <2>4
    <3>2. ASSUME NEW kind PROVE Pending(kind)' = Pending(kind)
      BY <2>4, <3>1 DEF Pending, UpdatesOn
    <3>3. Apart'
      BY <2>1, <2>2, <2>4, <3>1, Zenon DEF Apart
    <3> QED
      BY <2>2, <3>2, <3>3 DEF Waiting, QuotaEvents, CounterEvents
  <2> QED
    BY <2>1, <2>3, <2>4
<1>3. CASE WorkerIdle
  <2>1. UNCHANGED <<queueDoc, quota, store, req, unsent, statsQueue>>
    BY <1>3 DEF WorkerIdle, database
  <2>2. buffer' = {} /\ updates' = updates \cup UpdatesFor(buffer)
    BY <1>3 DEF WorkerIdle
  <2>3. /\ unsent \cap statsQueue = {} /\ unsent \cap buffer = {} /\ statsQueue \cap buffer = {}
        /\ \A u \in updates : u.events \cap (unsent \cup statsQueue \cup buffer) = {}
    BY DEF Apart
  <2>4. \A u \in updates : u.events \cap buffer = {}
    BY <2>3
  <2> QED
    BY <1>t, <2>1, <2>2, <2>3, <2>4, <1>f
<1> QED
  BY <1>1, <1>2, <1>3 DEF WorkerStep

\* An update takes its events with it, and only those, and only for its own kind.
LEMMA Executes ==
  ASSUME TypeInv, Apart, NEW u \in updates, updates' = updates \ {u},
         UNCHANGED <<unsent, statsQueue, buffer>>
  PROVE  /\ Apart' /\ Waiting' \subseteq Waiting
         /\ u.events \subseteq Pending(u.on)
         /\ Pending(u.on)' = Pending(u.on) \ u.events
         /\ \A kind : kind # u.on => Pending(kind)' = Pending(kind)
<1>1. Apart'
  BY Zenon DEF Apart
<1>2. ASSUME NEW kind, NEW e
      PROVE  e \in Pending(kind)' <=> \/ e \in unsent \cup statsQueue \cup buffer
                                      \/ \E v \in updates \ {u} : v.on = kind /\ e \in v.events
  BY DEF Pending, UpdatesOn
<1>3. \A v \in updates \ {u} : v.on = u.on => u.events \cap v.events = {}
  BY DEF Apart
<1>4. u.events \cap (unsent \cup statsQueue \cup buffer) = {}
  BY DEF Apart
<1>5. u.events \subseteq Pending(u.on)
  BY PendingHas
<1>6. Pending(u.on)' = Pending(u.on) \ u.events
  BY <1>2, <1>3, <1>4, PendingHas
<1>7. ASSUME NEW kind, kind # u.on PROVE Pending(kind)' = Pending(kind)
  <2>1. ASSUME NEW e PROVE e \in Pending(kind)' <=> e \in Pending(kind)
    <3>1. \A v \in updates : v.on = kind => v \in updates \ {u}
      BY <1>7
    <3>2. e \in Pending(kind) <=> \/ e \in unsent \cup statsQueue \cup buffer
                                  \/ \E v \in updates : v.on = kind /\ e \in v.events
      BY DEF Pending, UpdatesOn
    <3> QED
      BY <1>2, <3>1, <3>2
  <2> QED
    BY <2>1
<1>8. Waiting' \subseteq Waiting
  <2>1. ASSUME NEW kind PROVE Pending(kind)' \subseteq Pending(kind)
    BY <1>2, PendingHas
  <2> QED
    BY <2>1 DEF Waiting
<1> QED
  BY <1>1, <1>5, <1>6, <1>7, <1>8

\* A new event is in no place yet, and from now on it is in one.
LEMMA Arrives ==
  ASSUME TypeInv, Apart, NEW e, e \notin Waiting, unsent' = unsent \cup {e},
         UNCHANGED worker
  PROVE  /\ Apart'
         /\ \A kind : Pending(kind)' = Pending(kind) \cup {e}
<1>1. UNCHANGED <<statsQueue, buffer, updates>>
  BY DEF worker
<1>2. ASSUME NEW kind PROVE Pending(kind)' = Pending(kind) \cup {e}
  BY <1>1 DEF Pending, UpdatesOn
<1>3. /\ e \notin unsent /\ e \notin statsQueue /\ e \notin buffer
      /\ \A u \in updates : u.on \in {"queue", "user"} => e \notin u.events
  BY PendingHas DEF Waiting
<1>4. \A u \in updates : u.on \in {"queue", "user"}
  BY DEF TypeInv, TypeOK, Updates
<1>5. /\ unsent' \cap statsQueue' = {} /\ unsent' \cap buffer' = {} /\
           statsQueue' \cap buffer' = {}
  BY <1>1, <1>3 DEF Apart
<1>6. \A u \in updates : u.events \cap (unsent' \cup statsQueue' \cup buffer') = {}
  BY <1>1, <1>3, <1>4 DEF Apart
<1>7. Apart'
  BY <1>1, <1>5, <1>6, Zenon DEF Apart
<1> QED
  BY <1>2, <1>7

-----------------------------------------------------------------------------
(* The inductive invariant of the accounting. *)

\* Every request starts as a call of an operation that the requests perform.
LEMMA FirstState ==
  ASSUME Init, NEW r \in Requests
  PROVE  /\ \E op \in Ops : req[r] \in Calls(op)
         /\ req[r].answer = "none" /\ req[r].got = {}
<1>1. PICK op \in Ops : req[r] \in Calls(op)
  BY Zenon DEF Init
<1>2. req[r].answer = "none" /\ req[r].got = {}
  BY <1>1 DEF Calls
<1> QED
  BY <1>1, <1>2

LEMMA AccountInit == Init => AccountInv
<1> SUFFICES ASSUME Init PROVE AccountInv
  OBVIOUS
<1>1. unsent = {} /\ statsQueue = {} /\ buffer = {} /\ updates = {}
  BY DEF Init
<1>2. Apart /\ Waiting = {}
  BY <1>1 DEF Apart, Waiting, Pending, UpdatesOn
<1>3. ASSUME NEW r \in Requests PROVE Fits(r, req[r])
  <2>1. PICK op \in Ops : req[r] \in Calls(op)
    BY FirstState
  <2>2. op \in OpNames /\ 0 \in 0 .. MaxBatch
    BY QueueServiceAssumption
  <2>3. {r} \X (1 .. 0) = {}
    OBVIOUS
  <2> QED
    BY <2>1, <2>2, <2>3 DEF Calls, FirstLabel, OpNames, OpLabels, Fits
<1> QED
  BY <1>2, <1>3, TypeInit DEF AccountInv, Labelled, AllSent

\* A step of a request keeps the accounts in order; a new event is one that was on
\* its way nowhere.
LEMMA AccountRequest ==
  ASSUME AccountInv, NEW r \in Requests, RequestStep(r)
  PROVE  /\ AccountInv'
         /\ \/ /\ \A kind : Pending(kind)' = Pending(kind)
               /\ ~ ClientCreate(r)
               /\ req[r].op = "pull" /\ req'[r].answer = "ok" => req'[r].got = {}
               /\ ~ (req[r].op = "push" /\ req'[r].answer = "ok")
            \/ \E e \in Events :
                 /\ \A kind : Pending(kind)' = Pending(kind) \cup {e}
                 /\ e \notin Waiting /\ e.by = r
                 /\ Sent(e, req'[r]) /\ ~ Sent(e, req[r])
                 /\ e.type = "msg_push" <=> (req[r].op = "push" /\ req'[r].answer = "ok")
                 /\ e.type = "msg_pull" <=> (req[r].op = "pull" /\ req'[r].answer = "ok")
                 /\ e.type = "queue_create" <=> ClientCreate(r)
<1> USE DEF AccountInv
<1>1. TypeInv'
  BY TypeRequest
<1>2. /\ \A q \in Requests \ {r} : req'[q] = req[q]
      /\ UNCHANGED worker /\ req'[r].op = req[r].op
  BY StepOfOne
<1>3. Labelled'
  BY <1>2, StepFits DEF Labelled
<1>4. ASSUME NEW e \in Waiting PROVE Sent(e, req'[e.by]) /\ e.by \in Requests
  <2>1. e.by \in Requests
    BY PendingHas DEF Waiting, TypeInv, TypeOK, Events, Updates
  <2>2. Sent(e, req[e.by])
    BY DEF AllSent
  <2> QED
    BY <1>2, <2>1, <2>2, SentStays
<1>5. CASE /\ unsent' = unsent /\ ~ ClientCreate(r)
           /\ req[r].op = "pull" /\ req'[r].answer = "ok" => req'[r].got = {}
           /\ ~ (req[r].op = "push" /\ req'[r].answer = "ok")
  <2>1. Apart'
    BY <1>2, <1>5, Zenon DEF Apart, worker
  <2>2. ASSUME NEW kind PROVE Pending(kind)' = Pending(kind)
    BY <1>2, <1>5 DEF Pending, UpdatesOn, worker
  <2>3. AllSent'
    BY <1>4, <2>2 DEF AllSent, Waiting
  <2> QED
    BY <1>1, <1>3, <1>5, <2>1, <2>2, <2>3
<1>6. CASE \E e \in Events :
             /\ unsent' = unsent \cup {e} /\ e.by = r
             /\ Sent(e, req'[r]) /\ ~ Sent(e, req[r])
             /\ e.type = "msg_push" <=> (req[r].op = "push" /\ req'[r].answer = "ok")
             /\ e.type = "msg_pull" <=> (req[r].op = "pull" /\ req'[r].answer = "ok")
             /\ e.type = "queue_create" <=> ClientCreate(r)
  <2>1. PICK e \in Events :
             /\ unsent' = unsent \cup {e} /\ e.by = r
             /\ Sent(e, req'[r]) /\ ~ Sent(e, req[r])
             /\ e.type = "msg_push" <=> (req[r].op = "push" /\ req'[r].answer = "ok")
             /\ e.type = "msg_pull" <=> (req[r].op = "pull" /\ req'[r].answer = "ok")
             /\ e.type = "queue_create" <=> ClientCreate(r)
    BY <1>6
  <2>2. e \notin Waiting
    BY <2>1 DEF AllSent
  <2>3. Apart' /\ \A kind : Pending(kind)' = Pending(kind) \cup {e}
    BY <1>2, <2>1, <2>2, Arrives
  <2>4. Waiting' = Waiting \cup {e}
    BY <2>3 DEF Waiting
  <2>5. AllSent'
    BY <1>4, <2>1, <2>4 DEF AllSent
  <2> QED
    BY <1>1, <1>3, <2>1, <2>2, <2>3, <2>5
<1> QED
  BY <1>5, <1>6, Reports

LEMMA AccountNext == AccountInv /\ [Next]_vars => AccountInv'
<1> SUFFICES ASSUME AccountInv, [Next]_vars PROVE AccountInv'
  OBVIOUS
<1>1. TypeInv'
  BY TypeNext DEF AccountInv
<1>q. ASSUME UNCHANGED req, Waiting' \subseteq Waiting, Apart' PROVE AccountInv'
  BY <1>1, <1>q DEF AccountInv, Labelled, AllSent
<1>2. ASSUME NEW r \in Requests, RequestStep(r) PROVE AccountInv'
  BY <1>2, AccountRequest
<1>3. CASE StoreEvent \/ WorkerStep
  BY <1>3, <1>q, Moves DEF AccountInv
<1>4. CASE Apply
  <2>1. PICK u \in updates : /\ updates' = updates \ {u}
                             /\ UNCHANGED <<unsent, statsQueue, buffer, req>>
    BY <1>4 DEF Apply, ApplyStats, ApplyQuota
  <2> QED
    BY <2>1, <1>q, Executes DEF AccountInv
<1>5. CASE UNCHANGED vars
  <2>1. Waiting' = Waiting /\ UNCHANGED req
    BY <1>5 DEF vars, Waiting, Pending, UpdatesOn
  <2>2. Apart'
    BY <1>5, Zenon DEF vars, Apart, AccountInv
  <2> QED
    BY <2>1, <2>2, <1>q
<1> QED
  BY <1>2, <1>3, <1>4, <1>5 DEF Next

\* The accounts are in order in every state of every behaviour.
THEOREM AccountsInOrder == Spec => []AccountInv
  BY AccountInit, AccountNext, PTL DEF Spec

-----------------------------------------------------------------------------
(* Counting what is on its way. *)

\* Two finite sets with nothing in common have together as many elements as both.
LEMMA DisjointSize ==
  ASSUME NEW S, NEW T, IsFiniteSet(S), IsFiniteSet(T), S \cap T = {}
  PROVE  /\ IsFiniteSet(S \cup T)
         /\ Cardinality(S \cup T) = Cardinality(S) + Cardinality(T)
         /\ Cardinality(S) \in Nat /\ Cardinality(T) \in Nat
<1>1. Cardinality(S \cap T) = 0
  BY FS_EmptySet
<1>2. Cardinality(S) \in Nat /\ Cardinality(T) \in Nat
  BY FS_CardinalityType
<1>3. /\ IsFiniteSet(S \cup T)
      /\ Cardinality(S \cup T) = Cardinality(S) + Cardinality(T) - Cardinality(S \cap T)
  BY FS_Union
<1> QED
  BY <1>1, <1>2, <1>3

LEMMA PendingType ==
  ASSUME TypeInv, NEW kind \in {"queue", "user"}
  PROVE  Pending(kind) \in SUBSET Events /\ Pending(kind) \subseteq Waiting
  BY DEF Pending, UpdatesOn, Waiting, TypeInv, TypeOK, Updates

\* A request reports its messages in one event; the messages of different pushes
\* are different.
LEMMA ReportsDiffer ==
  ASSUME AccountInv, NEW e \in Waiting, e.type = "msg_push"
  PROVE  /\ e.msgs = Batch(e.by) /\ e.by \in Requests
         /\ req[e.by].op = "push" /\ req[e.by].answer = "ok" /\ e.msgs = req[e.by].got
         /\ \A f \in Waiting : f.type = "msg_push" /\ e # f => e.msgs \cap f.msgs = {}
<1>w. Waiting \subseteq Events
  BY PendingType DEF AccountInv, Waiting
<1>1. ASSUME NEW f \in Waiting, f.type = "msg_push"
      PROVE  /\ f = [type |-> "msg_push", by |-> f.by, at |-> "push",
                     name |-> req[f.by].name, msgs |-> Batch(f.by)]
             /\ f.by \in Requests /\ req[f.by].op = "push" /\ req[f.by].answer = "ok"
             /\ f.msgs = req[f.by].got
  <2>1. f.by \in Requests /\ Sent(f, req[f.by]) /\ Fits(f.by, req[f.by])
    BY <1>1, <1>w DEF AccountInv, AllSent, Labelled, Events
  <2>2. /\ f.name = req[f.by].name /\ f.at = "push" /\ f.msgs = req[f.by].got
        /\ req[f.by].op = "push" /\ req[f.by].answer = "ok"
    BY <1>1, <2>1 DEF Sent
  <2>3. f.msgs = Batch(f.by)
    BY <2>1, <2>2 DEF Fits, Batch
  <2> QED
    BY <1>1, <1>w, <2>1, <2>2, <2>3 DEF Events
<1>2. ASSUME NEW f \in Waiting, f.type = "msg_push", e # f PROVE e.msgs \cap f.msgs = {}
  <2>1. e.by # f.by
    BY <1>1, <1>2
  <2> QED
    BY <1>1, <1>2, <2>1 DEF Batch
<1> QED
  BY <1>1, <1>2

\* The accepted pushes hold finitely many messages.
LEMMA AcceptedFinite ==
  ASSUME TypeInv
  PROVE  Accepted \subseteq Messages /\ IsFiniteSet(Accepted)
<1>1. Accepted \subseteq Messages
  BY DEF Accepted, TypeInv, TypeOK, ReqStates
<1> QED
  BY <1>1, MessagesFinite, FS_Subset

LEMMA MessagesOfType ==
  ASSUME NEW S \in SUBSET Events, NEW type
  PROVE  MessagesOf(S, type) \subseteq Messages /\ IsFiniteSet(MessagesOf(S, type))
<1>1. MessagesOf(S, type) \subseteq Messages
  BY DEF MessagesOf, OfType, Events
<1> QED
  BY <1>1, MessagesFinite, FS_Subset

\* Only a push adds to the accepted messages, and only those of its batch.
LEMMA AcceptedNext ==
  ASSUME AccountInv, NEW r \in Requests, RequestStep(r)
  PROVE  Accepted' = Accepted \cup (IF req[r].op = "push" /\ req'[r].answer = "ok"
                                    THEN Batch(r) ELSE {})
<1>1. /\ \A q \in Requests \ {r} : req'[q] = req[q]
      /\ req'[r].op = req[r].op /\ req'[r].count = req[r].count
      /\ req[r].pc # "done"
  BY StepOfOne DEF AccountInv
<1>2. req[r].answer # "ok"
  BY <1>1 DEF AccountInv, Labelled, Fits
<1>3. req[r].op = "push" /\ req'[r].answer = "ok" => req'[r].got = Batch(r)
  BY <1>1, StepFits DEF AccountInv, Fits, Batch
<1> QED
  BY <1>1, <1>2, <1>3 DEF Accepted

-----------------------------------------------------------------------------
(* The quota of messages. *)

\* A report that is sent is charged for as many messages as were accepted with it.
LEMMA QuotaRequest ==
  ASSUME AccountInv, QuotaAccounts, NEW r \in Requests, RequestStep(r)
  PROVE  QuotaAccounts'
<1> DEFINE P == Pending("user")
           ok == req[r].op = "push" /\ req'[r].answer = "ok"
<1>t. /\ P \in SUBSET Events /\ P \subseteq Waiting /\ quota' = quota
      /\ quota.messages_left \in Int /\ InitialMessages \in Int
  BY PendingType, StepOfOne, QueueServiceAssumption DEF AccountInv, TypeInv, TypeOK
<1>1. CASE \A kind : Pending(kind)' = Pending(kind) /\ ~ ok
  <2>1. Accepted' = Accepted /\ P' = P
    BY <1>1, AcceptedNext
  <2>2. Pushed(P)' = Pushed(P)
    BY <2>1 DEF Pushed, MessagesOf, OfType
  <2> QED
    BY <1>t, <2>1, <2>2 DEF QuotaAccounts
<1>2. ASSUME NEW e \in Events, P' = P \cup {e}, e \notin Waiting, e.by = r,
             Sent(e, req'[r]), ~ Sent(e, req[r]), e.type = "msg_push" <=> ok
      PROVE  QuotaAccounts'
  <2>1. CASE ~ ok
    <3>1. Accepted' = Accepted
      BY <2>1, AcceptedNext
    <3>2. Pushed(P)' = Pushed(P)
      BY <1>2, <2>1 DEF Pushed, MessagesOf, OfType
    <3> QED
      BY <1>t, <3>1, <3>2 DEF QuotaAccounts
  <2>2. CASE ok
    <3>1. Accepted' = Accepted \cup Batch(r)
      BY <2>2, AcceptedNext
    <3>2. e.msgs = Batch(r) /\ e.type = "msg_push"
      <4>1. e.msgs = req'[r].got /\ req'[r].op = "push" /\ req'[r].answer = "ok"
        BY <1>2, <2>2, StepOfOne DEF Sent, AccountInv
      <4> QED
        BY <4>1, <1>2, <2>2, StepFits, StepOfOne DEF Fits, Batch, AccountInv
    <3>3. MessagesOf(P, "msg_push")' = MessagesOf(P, "msg_push") \cup Batch(r)
      BY <1>2, <3>2 DEF MessagesOf, OfType
    <3>4. /\ IsFiniteSet(MessagesOf(P, "msg_push")) /\ IsFiniteSet(Accepted)
          /\ IsFiniteSet(Batch(r))
      <4>1. req[r].count \in 1 .. MaxBatch
        BY DEF AccountInv, TypeInv, TypeOK, ReqStates
      <4> QED
        BY <1>t, <4>1, MessagesOfType, AcceptedFinite, BatchSize DEF AccountInv
    <3>5. Accepted \cap Batch(r) = {}
      <4>1. req[r].answer # "ok"
        BY StepOfOne DEF AccountInv, Labelled, Fits
      <4>2. ASSUME NEW q \in Requests, req[q].op = "push" PROVE req[q].got \subseteq {q} \X Nat
        BY <4>2, QueueServiceAssumption DEF AccountInv, Labelled, Fits
      <4> QED
        BY <4>1, <4>2 DEF Accepted, Batch
    <3>6. MessagesOf(P, "msg_push") \subseteq Accepted
      BY <1>t, ReportsDiffer DEF MessagesOf, OfType, Accepted
    <3>7. MessagesOf(P, "msg_push") \cap Batch(r) = {}
      BY <3>5, <3>6
    <3>8. Cardinality(Accepted)' = Cardinality(Accepted) + Cardinality(Batch(r))
      BY <3>1, <3>4, <3>5, DisjointSize
    <3>9. Pushed(P)' = Pushed(P) + Cardinality(Batch(r))
      BY <3>3, <3>4, <3>7, DisjointSize DEF Pushed
    <3>10. /\ Cardinality(Accepted) \in Int /\ Cardinality(Batch(r)) \in Int
           /\ Pushed(P) \in Int
      BY <3>4, FS_CardinalityType DEF Pushed
    <3> QED
      BY <1>t, <3>8, <3>9, <3>10 DEF QuotaAccounts
  <2> QED
    BY <2>1, <2>2
<1> QED
  BY <1>1, <1>2, AccountRequest

\* The quota update takes off what its events carry, which is on its way no more.
LEMMA QuotaApply ==
  ASSUME AccountInv, QuotaAccounts, Apply
  PROVE  QuotaAccounts'
<1> DEFINE P == Pending("user")
<1>t. /\ P \in SUBSET Events /\ P \subseteq Waiting /\ quota.messages_left \in Int
      /\ InitialMessages \in Int
  BY PendingType, QueueServiceAssumption DEF AccountInv, TypeInv, TypeOK
<1>1. CASE ApplyStats
  <2>1. PICK u \in updates : /\ u.on = "queue" /\ updates' = updates \ {u}
                             /\ UNCHANGED <<quota, unsent, statsQueue, buffer, req>>
    BY <1>1 DEF ApplyStats
  <2>2. P' = P
    BY <2>1, Executes DEF AccountInv
  <2>3. Pushed(P)' = Pushed(P) /\ Accepted' = Accepted
    BY <2>1, <2>2 DEF Pushed, MessagesOf, OfType, Accepted
  <2> QED
    BY <2>1, <2>3 DEF QuotaAccounts
<1>2. CASE ApplyQuota
  <2>1. PICK u \in updates :
          /\ u.on = "user"
          /\ quota'.messages_left = quota.messages_left - Pushed(u.events)
          /\ updates' = updates \ {u}
          /\ UNCHANGED <<unsent, statsQueue, buffer, req>>
    BY <1>2 DEF ApplyQuota
  <2> DEFINE E == u.events
  <2>2. E \subseteq P /\ P' = P \ E
    BY <2>1, Executes DEF AccountInv
  <2>3. MessagesOf(P, "msg_push") = MessagesOf(P', "msg_push") \cup MessagesOf(E, "msg_push")
    BY <2>2 DEF MessagesOf, OfType
  <2>4. MessagesOf(P', "msg_push") \cap MessagesOf(E, "msg_push") = {}
    <3>1. ASSUME NEW e \in P', NEW f \in E, e.type = "msg_push", f.type = "msg_push"
          PROVE  e.msgs \cap f.msgs = {}
      BY <3>1, <2>2, <1>t, ReportsDiffer
    <3> QED
      BY <3>1 DEF MessagesOf, OfType
  <2>5. /\ IsFiniteSet(MessagesOf(P', "msg_push")) /\ IsFiniteSet(MessagesOf(E, "msg_push"))
    <3>1. P' \in SUBSET Events /\ E \in SUBSET Events
      BY <1>t, <2>2
    <3> HIDE DEF E, P
    <3> QED
      BY <3>1, MessagesOfType
  <2> HIDE DEF E, P
  <2>6. /\ Pushed(P) = Pushed(P') + Pushed(E)
        /\ Pushed(P') \in Nat /\ Pushed(E) \in Nat
    BY <2>3, <2>4, <2>5, DisjointSize DEF Pushed
  <2>7. Accepted' = Accepted
    BY <2>1 DEF Accepted
  <2>8. Pushed(P)' = Pushed(P')
    BY DEF Pushed, MessagesOf, OfType
  <2>9. quota.messages_left - Pushed(P) = InitialMessages - Cardinality(Accepted)
    BY DEF QuotaAccounts, P
  <2>10. quota'.messages_left - Pushed(P)' = InitialMessages - Cardinality(Accepted)
    BY <1>t, <2>1, <2>6, <2>8, <2>9 DEF E
  <2> QED
    BY <2>7, <2>10 DEF QuotaAccounts, P
<1> QED
  BY <1>1, <1>2 DEF Apply

\* Every message of an accepted push is charged to the user exactly once: whatever
\* the sizes of batches and buffers, in whatever order sends, flushes and updates
\* go through, and whatever happens to the queues meanwhile, the quota and the
\* pushes on their way to it are short of the initial quota by the accepted messages.
THEOREM QuotaAccountsHolds == Spec => []QuotaAccounts
<1>1. Init => QuotaAccounts
  <2> SUFFICES ASSUME Init PROVE QuotaAccounts
    OBVIOUS
  <2>1. Pending("user") = {}
    BY DEF Init, Pending, UpdatesOn
  <2>2. Pushed(Pending("user")) = 0
    BY <2>1, FS_EmptySet DEF Pushed, MessagesOf, OfType
  <2>3. Accepted = {}
    BY FirstState DEF Accepted
  <2> QED
    BY <2>2, <2>3, FS_EmptySet, QueueServiceAssumption DEF QuotaAccounts, Init
<1>2. AccountInv /\ QuotaAccounts /\ [Next]_vars => QuotaAccounts'
  <2> SUFFICES ASSUME AccountInv, QuotaAccounts, [Next]_vars PROVE QuotaAccounts'
    OBVIOUS
  <2>q. ASSUME UNCHANGED <<quota, req>>,
                 QuotaEvents(Pending("user"))' = QuotaEvents(Pending("user"))
        PROVE  QuotaAccounts'
    <3>1. \A S : OfType(QuotaEvents(S), {"msg_push"}) = OfType(S, {"msg_push"})
      BY DEF QuotaEvents, OfType
    <3>2. OfType(Pending("user"), {"msg_push"})' = OfType(Pending("user"), {"msg_push"})
      BY <2>q, <3>1
    <3>3. Pushed(Pending("user"))' = Pushed(Pending("user"))
      BY <3>2 DEF Pushed, MessagesOf
    <3> QED
      BY <2>q, <3>3 DEF QuotaAccounts, Accepted
  <2>1. CASE StoreEvent \/ WorkerStep
    BY <2>1, <2>q, Moves DEF AccountInv
  <2>2. CASE UNCHANGED vars
    BY <2>2, <2>q DEF vars, Pending, UpdatesOn
  <2> QED
    BY <2>1, <2>2, QuotaRequest, QuotaApply DEF Next
<1> QED
  BY <1>1, <1>2, AccountInit, AccountNext, PTL DEF Spec

-----------------------------------------------------------------------------
(* Queues that nobody deletes. *)

Called == \A r \in Requests : req[r].op \in Ops

\* How far a request whose state is s has got with the queue whose document is d now:
\* what it found is still there, it creates with the right to, and only in the gate
\* or for the route that adds a queue.
Entitled(s, d) ==
  /\ s.doc # NoDoc => d # NoDoc
  /\ s.pc = "client_create" => d # NoDoc
  /\ s.phase = "push" => d # NoDoc
  /\ s.pc \in {"get_find", "upsert"} /\ s.phase = "gate" => s.may_create
  /\ s.pc = "upsert" => s.phase # "push"
  /\ s.op # "push" => s.may_create

AllEntitled == \A r \in Requests : Entitled(req[r], Stored(r))

CreatedInv == AccountInv /\ Called /\ AllEntitled

LEMMA CreatedInit == Init => CreatedInv
<1> SUFFICES ASSUME Init PROVE CreatedInv
  OBVIOUS
<1>1. ASSUME NEW r \in Requests
      PROVE  req[r].op \in Ops /\ Entitled(req[r], Stored(r))
  <2>1. PICK op \in Ops : req[r] \in Calls(op)
    BY FirstState
  <2>2. op \in OpNames
    BY QueueServiceAssumption
  <2> QED
    BY <2>1, <2>2 DEF Calls, FirstLabel, OpNames, Entitled
<1> QED
  BY <1>1, AccountInit DEF CreatedInv, Called, AllEntitled

\* Without deletions a document and a backend queue that are there stay there, and
\* only an upsert makes a document.
LEMMA DocsStay ==
  ASSUME AccountInv, Called, "delete" \notin Ops, NEW r \in Requests, RequestStep(r),
         NEW n \in Names
  PROVE  /\ ~ DeleteStep(r)
         /\ queueDoc[n] # NoDoc => queueDoc'[n] # NoDoc
         /\ queueDoc'[n] # NoDoc => queueDoc[n] # NoDoc \/ (Upsert(r) /\ req[r].name = n)
         /\ store[n] # Missing => store'[n] # Missing
<1>t. /\ queueDoc \in [Names -> Docs \cup {NoDoc}] /\ req[r] \in ReqStates
      /\ store \in [Names -> {Missing} \cup SUBSET Messages]
      /\ req[r].name \in Names /\ Fits(r, req[r]) /\ req[r].op \in OpNames \ {"delete"}
      /\ TypeInv'
  BY TypeNext DEF AccountInv, TypeInv, TypeOK, ReqStates, Labelled, Called, Next
<1>1. req[r].pc \notin {"delete_find", "delete_remove", "delete_client"}
  BY <1>t DEF Fits, OpLabels, OpNames
<1>2. ~ DeleteStep(r)
  BY <1>1 DEF DeleteStep, DeleteFind, DeleteRemove, DeleteClient, At
<1>3. CASE Upsert(r)
  <2>1. /\ [id |-> <<r, req[r].phase>>, messages_in_queue |-> 0,
             total_messages |-> 0, counted |-> FALSE] \in Docs
    BY <1>t DEF Docs, DocIds, ReqStates
  <2> QED
    BY <1>2, <1>3, <1>t, <2>1, NoDocAssumption DEF Upsert
<1>4. CASE PurgeSave(r)
  <2>1. PurgeSaved(req[r].doc, queueDoc[n]) = NoDoc <=> queueDoc[n] = NoDoc
    BY <1>t, PurgeSavedType
  <2> QED
    BY <1>2, <1>4, <1>t, <2>1 DEF PurgeSave
<1>7. CASE EditSave(r)
  <2>1. Saved(req[r].doc, queueDoc[n]) = NoDoc <=> queueDoc[n] = NoDoc
    BY <1>t, SavedType
  <2> QED
    BY <1>2, <1>7, <1>t, <2>1 DEF EditSave
<1>5. CASE UNCHANGED queueDoc
  <2>1. CASE UNCHANGED store
    BY <1>2, <1>5, <2>1
  <2>2. CASE ClientCreate(r)
    BY <1>2, <1>5, <1>t, <2>2, MissingAssumption DEF ClientCreate
  <2>3. CASE Send(r)
    <3>1. ASSUME NEW m, store[n] # Missing
          PROVE  AfterPush(store[n], m) = store[n] \cup {m}
      BY <3>1 DEF AfterPush
    <3>3. PICK m : m \in Batch(r) /\ store' = [store EXCEPT ![req[r].name] = AfterPush(@, m)]
      BY <2>3, SendEffect DEF AccountInv
    <3>4. m \in Messages
      BY <3>3, <1>t, BatchSize DEF ReqStates
    <3> QED
      BY <1>2, <1>5, <1>t, <3>1, <3>3, <3>4, MissingAssumption
  <2>4. CASE PullOne(r)
    <3>1. PICK m : store' = [store EXCEPT ![req[r].name] = store[req[r].name] \ {m}]
      BY <2>4 DEF PullOne
    <3>2. store[req[r].name] # Missing
      BY <2>4 DEF PullOne, Backlog
    <3> QED
      BY <1>2, <1>5, <1>t, <3>1, <3>2, MissingAssumption
  <2>5. CASE PurgeClient(r)
    BY <1>2, <1>5, <1>t, <2>5, MissingAssumption DEF PurgeClient
  <2>6. UNCHANGED store \/ ClientCreate(r) \/ Send(r) \/ PullOne(r) \/ PurgeClient(r)
    BY <1>2 DEF RequestStep, PushStep, CreateStep, PullStep, PurgeStep, EditStep,
       Reject, GateFind, GateUser, SendFails, GetFind, Upsert, UpsertFails, NoBackend,
       LoadCreated, PullFind, PullReturn, PullThrows, PurgeFind, PurgeSave, EditFind, EditSave,
       Rejects
  <2> QED
    BY <2>1, <2>2, <2>3, <2>4, <2>5, <2>6
<1>6. DeleteRemove(r) => DeleteStep(r)
  BY DEF DeleteStep
<1> QED
  BY <1>2, <1>3, <1>4, <1>5, <1>6, <1>7, DocWriters DEF DocWritten

\* The worker and its updates neither make nor remove a document.
LEMMA DocsBackground ==
  ASSUME AccountInv, StoreEvent \/ WorkerStep \/ Apply, NEW n \in Names
  PROVE  /\ UNCHANGED <<store, req>>
         /\ queueDoc'[n] # NoDoc <=> queueDoc[n] # NoDoc
<1>t. /\ queueDoc \in [Names -> Docs \cup {NoDoc}]
      /\ \A u \in updates : u.events \in SUBSET Events /\ (u.on = "queue" => u.name \in Names)
  BY DEF AccountInv, TypeInv, TypeOK, Updates
<1>1. UNCHANGED <<store, req>>
  BY DEF StoreEvent, WorkerStep, WorkerPull, WorkerIdle, Apply, ApplyStats, ApplyQuota
<1>2. CASE StoreEvent \/ WorkerStep \/ ApplyQuota
  <2>1. UNCHANGED queueDoc
    BY <1>2 DEF StoreEvent, WorkerStep, WorkerPull, WorkerIdle, ApplyQuota, database
  <2> QED
    BY <1>1, <2>1
<1>3. CASE ApplyStats
  <2>1. PICK u \in updates :
          /\ u.on = "queue"
          /\ queueDoc' = [queueDoc EXCEPT ![u.name] = Counted(queueDoc[u.name], u.events)]
    BY <1>3 DEF ApplyStats
  <2>2. Counted(queueDoc[n], u.events) = NoDoc <=> queueDoc[n] = NoDoc
    BY <1>t, CountedType
  <2> QED
    BY <1>1, <1>t, <2>1, <2>2
<1> QED
  BY <1>2, <1>3 DEF Apply

\* A step of a request r keeps it entitled: what it loads is stored, and the gate
\* lets it create a queue only with the right to.
LEMMA EntitledStep ==
  ASSUME AccountInv, Called, AllEntitled, "delete" \notin Ops,
         NEW r \in Requests, RequestStep(r)
  PROVE  Entitled(req'[r], Stored(r)')
<1>t. /\ req \in [Requests -> ReqStates] /\ req[r] \in ReqStates /\ Fits(r, req[r])
      /\ req[r].op \in OpNames /\ req[r].phase \in {"gate", "push", "route"}
      /\ req[r].name \in Names
      /\ Entitled(req[r], Stored(r))
  BY DEF AccountInv, TypeInv, TypeOK, Labelled, ReqStates, Phases, AllEntitled
<1>s. /\ req'[r].op = req[r].op /\ req'[r].name = req[r].name
      /\ req'[r].may_create = req[r].may_create
  BY StepOfOne DEF AccountInv
<1>d. Stored(r) # NoDoc => Stored(r)' # NoDoc
  BY <1>s, <1>t, DocsStay DEF Stored
<1>x. ~ DeleteStep(r)
  BY <1>t, DocsStay
\* A step that stays in its phase and goes to a label.
<1>l. ASSUME /\ req'[r].phase = req[r].phase
             /\ req'[r].doc # NoDoc => Stored(r)' # NoDoc
             /\ req'[r].pc = "client_create" => Stored(r)' # NoDoc
             /\ req'[r].pc \notin {"get_find", "upsert"}
      PROVE  Entitled(req'[r], Stored(r)')
  BY <1>l, <1>s, <1>t, <1>d DEF Entitled
<1>a. ASSUME NEW a, Answer(r, a) PROVE Entitled(req'[r], Stored(r)')
  <2>1. /\ req'[r].pc = "done" /\ req'[r].phase = req[r].phase /\ req'[r].doc = req[r].doc
    BY <1>a, <1>t DEF Answer, ReqStates
  <2> QED
    BY <2>1, <1>l, <1>d, <1>t DEF Entitled
<1>o. ASSUME NEW l, l \notin {"get_find", "upsert", "load"}, NEW d,
             Load(r, d, l), Stored(r) # NoDoc
      PROVE  Entitled(req'[r], Stored(r)')
  <2>1. req'[r].pc = l /\ req'[r].phase = req[r].phase
    BY <1>o, <1>t DEF Load, ReqStates
  <2> QED
    BY <2>1, <1>o, <1>l, <1>d
<1>g. ASSUME NEW d, Got(r, d), Stored(r) # NoDoc PROVE Entitled(req'[r], Stored(r)')
  <2>1. CASE req[r].phase = "gate"
    <3>1. req'[r].pc = "get_find" /\ req'[r].phase = "push"
      BY <1>g, <2>1, <1>t DEF Got, ReqStates
    <3> QED
      BY <3>1, <1>g, <1>d, <1>s, <1>t DEF Entitled
  <2>2. CASE req[r].phase = "push"
    BY <1>g, <2>2, <1>o DEF Got
  <2>3. CASE req[r].phase = "route"
    <3>1. req'[r].pc \in {"edit_save", "done"} /\ req'[r].phase = "route"
      BY <1>g, <2>3, <1>t DEF Got, Load, ReqStates
    <3> QED
      BY <3>1, <2>3, <1>g, <1>d, <1>l
  <2> QED
    BY <2>1, <2>2, <2>3, <1>t
<1>1. CASE Reject(r) \/ SendFails(r) \/ NoBackend(r) \/ PullReturn(r) \/ PullThrows(r) \/
             PurgeClient(r) \/ EditSave(r) \/ Rejects(r)
  BY <1>1, <1>a DEF Reject, SendFails, NoBackend, PullReturn, PullThrows, PurgeClient, EditSave,
     Rejects
<1>2. CASE GateFind(r)
  <2>1. /\ req'[r].pc = "gate_user" /\ req'[r].phase = req[r].phase
        /\ req'[r].doc = Stored(r)
    BY <1>2, <1>t DEF GateFind, Load, ReqStates
  <2> QED
    BY <2>1, <1>d, <1>l
<1>3. CASE GateUser(r)
  <2>1. CASE Answer(r, "refused")
    BY <2>1, <1>a
  <2>2. CASE /\ Admitted(r)
             /\ req' = [req EXCEPT ![r].pc = "get_find",
                          ![r].phase = IF req[r].doc = NoDoc THEN "gate" ELSE "push"]
    <3>1. /\ req'[r].pc = "get_find" /\ req'[r].doc = req[r].doc
          /\ req'[r].phase = IF req[r].doc = NoDoc THEN "gate" ELSE "push"
      BY <2>2, <1>t DEF ReqStates
    <3>2. req[r].doc = NoDoc => req[r].may_create
      BY <2>2 DEF Admitted
    <3> QED
      BY <3>1, <3>2, <1>d, <1>s, <1>t DEF Entitled
  <2> QED
    BY <1>3, <2>1, <2>2 DEF GateUser
<1>4. CASE Send(r)
  <2>1. /\ req'[r].phase = req[r].phase /\ req'[r].pc \in {"send", "done"}
        /\ req[r].phase = "push"
    BY <1>4, SendEffect DEF AccountInv
  <2> QED
    BY <2>1, <1>d, <1>l, <1>t DEF Entitled
<1>5. CASE GetFind(r)
  <2>1. CASE Stored(r) = NoDoc
    <3>1. /\ req'[r].pc = "upsert" /\ req'[r].phase = req[r].phase /\ req'[r].doc = req[r].doc
          /\ req[r].pc = "get_find"
      BY <1>5, <2>1, <1>t DEF GetFind, At, Goto, ReqStates
    <3> QED
      BY <3>1, <2>1, <1>d, <1>s, <1>t DEF Entitled
  <2>2. CASE Stored(r) # NoDoc
    BY <1>5, <2>2, <1>g DEF GetFind
  <2> QED
    BY <2>1, <2>2
<1>6. CASE Upsert(r)
  <2>1. /\ req'[r].pc = "load" /\ req'[r].phase = req[r].phase /\ req'[r].doc = req[r].doc
    BY <1>6, <1>t DEF Upsert, Goto, ReqStates
  <2>2. Stored(r)' # NoDoc
    <3>1. [id |-> <<r, req[r].phase>>, messages_in_queue |-> 0,
           total_messages |-> 0, counted |-> FALSE] \in Docs
      BY <1>t DEF Docs, DocIds, Phases
    <3>2. queueDoc \in [Names -> Docs \cup {NoDoc}]
      BY DEF AccountInv, TypeInv, TypeOK
    <3>3. queueDoc'[req[r].name] # NoDoc
      BY <1>6, <1>t, <3>1, <3>2, NoDocAssumption DEF Upsert
    <3> QED
      BY <3>3, <1>s DEF Stored
  <2> QED
    BY <2>1, <2>2, <1>l
<1>11. CASE UpsertFails(r)
  <2>1. /\ req'[r].pc = "load" /\ req'[r].phase = req[r].phase /\ req'[r].doc = req[r].doc
    BY <1>11, <1>t DEF UpsertFails, Goto, ReqStates
  <2> QED
    BY <2>1, <1>d, <1>l, <1>t DEF Entitled
<1>7. CASE LoadCreated(r)
  <2>1. CASE Stored(r) = NoDoc
    BY <1>7, <2>1, <1>a DEF LoadCreated
  <2>2. CASE Stored(r) # NoDoc
    BY <1>7, <2>2, <1>o DEF LoadCreated
  <2> QED
    BY <2>1, <2>2
<1>8. CASE ClientCreate(r)
  BY <1>8, <1>g, <1>t DEF ClientCreate, At, Entitled
<1>9. CASE PullFind(r) \/ PurgeFind(r) \/ EditFind(r)
  <2>1. CASE Answer(r, "queue_not_found")
    BY <2>1, <1>a
  <2>2. CASE Stored(r) # NoDoc /\ ~ Answer(r, "queue_not_found")
    BY <1>9, <2>2, <1>o DEF PullFind, PurgeFind, EditFind
  <2>3. CASE Stored(r) = NoDoc
    BY <1>9, <2>1, <2>3 DEF PullFind, PurgeFind, EditFind
  <2> QED
    BY <2>1, <2>2, <2>3
<1>10. CASE PullOne(r) \/ PurgeSave(r)
  <2>1. /\ req'[r].pc \in {"pulling", "purge_client"} /\ req'[r].phase = req[r].phase
        /\ req'[r].doc = req[r].doc
    BY <1>10, <1>t DEF PullOne, PurgeSave, At, Goto, ReqStates
  <2> QED
    BY <2>1, <1>d, <1>l, <1>t DEF Entitled
<1> QED
  BY <1>x, <1>1, <1>2, <1>3, <1>4, <1>5, <1>6, <1>7, <1>8, <1>9, <1>10, <1>11
     DEF RequestStep, PushStep, CreateStep, PullStep, PurgeStep, EditStep

LEMMA CreatedNext ==
  ASSUME "delete" \notin Ops, CreatedInv, [Next]_vars
  PROVE  CreatedInv'
<1> USE DEF CreatedInv
<1>1. AccountInv'
  BY AccountNext
<1>t. /\ \A r \in Requests : req[r].name \in Names
  BY DEF AccountInv, TypeInv, TypeOK, ReqStates
<1>2. ASSUME NEW r \in Requests, RequestStep(r) PROVE CreatedInv'
  <2>1. /\ \A q \in Requests \ {r} : req'[q] = req[q]
        /\ req'[r].op = req[r].op
    BY <1>2, StepOfOne DEF AccountInv
  <2>2. ASSUME NEW q \in Requests \ {r} PROVE Entitled(req'[q], Stored(q)')
    <3>1. Stored(q) # NoDoc => Stored(q)' # NoDoc
      BY <1>2, <1>t, <2>1, DocsStay DEF Stored
    <3> QED
      BY <3>1, <2>1 DEF AllEntitled, Entitled
  <2>3. AllEntitled'
    BY <1>2, <2>2, EntitledStep DEF AllEntitled
  <2> QED
    BY <1>1, <2>1, <2>3 DEF Called
<1>3. CASE StoreEvent \/ WorkerStep \/ Apply
  <2>1. UNCHANGED req /\ \A n \in Names : queueDoc'[n] # NoDoc <=> queueDoc[n] # NoDoc
    <3>1. UNCHANGED req
      BY <1>3 DEF StoreEvent, WorkerStep, WorkerPull, WorkerIdle, Apply, ApplyStats, ApplyQuota
    <3> QED
      BY <3>1, <1>3, DocsBackground
  <2> QED
    BY <1>1, <1>t, <2>1 DEF Called, AllEntitled, Entitled, Stored
<1>4. CASE UNCHANGED vars
  BY <1>1, <1>4 DEF vars, Called, AllEntitled, Entitled, Stored
<1> QED
  BY <1>2, <1>3, <1>4 DEF Next

\* A request that is creating a backend queue goes on to create it, or is answered
\* that it was not created, unless it finds no document to create it for.
LEMMA CreatorStays ==
  ASSUME "delete" \notin Ops, CreatedInv, NEW r \in Requests, RequestStep(r),
         Creating(r) \/ req[r].answer = "not_created", At(r, "load") => Stored(r) # NoDoc
  PROVE  \/ ClientCreate(r)
         \/ req'[r].pc = "client_create" \/ req'[r].answer = "not_created"
<1>t. req \in [Requests -> ReqStates] /\ Fits(r, req[r]) /\ req[r].pc # "done"
  BY StepOfOne DEF CreatedInv, AccountInv, TypeInv, TypeOK, Labelled
<1>1. req[r].pc \in {"load", "client_create"}
  BY <1>t DEF Fits, Creating
<1>2. LoadCreated(r) \/ ClientCreate(r) \/ Rejects(r)
  BY <1>1 DEF RequestStep, PushStep, CreateStep, PullStep, PurgeStep, DeleteStep, EditStep,
     Reject, GateFind, GateUser, Send, SendFails, GetFind, Upsert, UpsertFails, NoBackend,
     PullFind, PullOne, PullReturn, PullThrows, PurgeFind, PurgeSave, PurgeClient,
     DeleteFind, DeleteRemove, DeleteClient, EditFind, EditSave, At
<1>3. CASE LoadCreated(r)
  BY <1>3, <1>t DEF LoadCreated, At, Load, ReqStates
<1>4. CASE Rejects(r)
  BY <1>4, <1>1, <1>t DEF Rejects, Creating, Answer, ReqStates
<1> QED
  BY <1>2, <1>3, <1>4

LEMMA BackedRequest ==
  ASSUME "delete" \notin Ops, CreatedInv, DocsAreBacked, NEW r \in Requests, RequestStep(r)
  PROVE  DocsAreBacked'
<1> USE DEF CreatedInv
<1>t. /\ req \in [Requests -> ReqStates] /\ req[r] \in ReqStates /\ req[r].name \in Names
      /\ store \in [Names -> {Missing} \cup SUBSET Messages]
  BY DEF AccountInv, TypeInv, TypeOK, ReqStates
<1>s. \A q \in Requests : req'[q].name = req[q].name /\ (q # r => req'[q] = req[q])
  BY StepOfOne DEF AccountInv
<1> DEFINE Makes(q) == q.pc \in {"load", "client_create"} \/ q.answer = "not_created"
<1> SUFFICES ASSUME NEW n \in Names, queueDoc'[n] # NoDoc, store'[n] = Missing
             PROVE  \E q \in Requests : req'[q].name = n /\ Makes(req'[q])
  BY DEF DocsAreBacked, Creators, Creating
<1>1. store[n] = Missing
  BY DocsStay
<1>2. CASE Upsert(r) /\ req[r].name = n
  <2>1. req'[r].pc = "load" /\ req'[r].name = n
    BY <1>2, <1>t DEF Upsert, Goto, ReqStates
  <2> QED
    BY <2>1
<1>3. CASE queueDoc[n] # NoDoc
  <2>1. PICK q \in Requests : req[q].name = n /\ Makes(req[q])
    BY <1>1, <1>3 DEF DocsAreBacked, Creators, Creating
  <2>2. CASE q # r
    BY <1>s, <2>1, <2>2
  <2>3. CASE q = r
    <3>1. ~ ClientCreate(r)
      <4>1. ASSUME ClientCreate(r) PROVE store'[n] # Missing
        BY <4>1, <1>t, <2>1, <2>3, MissingAssumption DEF ClientCreate
      <4> QED
        BY <4>1
    <3>2. Makes(req'[r])
      <4>1. Creating(r) \/ req[r].answer = "not_created"
        BY <2>1, <2>3 DEF Creating
      <4>2. Stored(r) # NoDoc
        BY <1>3, <2>1, <2>3 DEF Stored
      <4>3. req'[r].pc = "client_create" \/ req'[r].answer = "not_created"
        BY <3>1, <4>1, <4>2, CreatorStays
      <4> QED
        BY <4>3
    <3> QED
      BY <3>2, <1>s, <2>1, <2>3
  <2> QED
    BY <2>1, <2>2, <2>3
<1> QED
  BY <1>2, <1>3, DocsStay

\* Where nobody deletes queues, every queue document has its backend queue, or a
\* request that creates the queue is between the upsert and the backend or was stopped
\* there by an error: whatever else fails, and however calls are interleaved, nothing
\* else leaves a document without its queue.
THEOREM DocsAreBackedHolds ==
  ASSUME "delete" \notin Ops
  PROVE  Spec => []DocsAreBacked
<1>1. Init => DocsAreBacked
  <2> SUFFICES ASSUME Init, NEW n \in Names, queueDoc[n] # NoDoc PROVE store[n] # Missing
    BY DEF DocsAreBacked
  <2> QED
    BY MissingAssumption DEF Init
<1>2. CreatedInv /\ DocsAreBacked /\ [Next]_vars => DocsAreBacked'
  <2> SUFFICES ASSUME CreatedInv, DocsAreBacked, [Next]_vars PROVE DocsAreBacked'
    OBVIOUS
  <2>1. CASE StoreEvent \/ WorkerStep \/ Apply
    <3>1. ASSUME NEW n \in Names
          PROVE  UNCHANGED <<store, req>> /\ (queueDoc'[n] # NoDoc <=> queueDoc[n] # NoDoc)
      BY <2>1, DocsBackground DEF CreatedInv
    <3> QED
      BY <3>1 DEF DocsAreBacked, Creators, Creating
  <2>2. CASE UNCHANGED vars
    BY <2>2 DEF vars, DocsAreBacked, Creators, Creating
  <2> QED
    BY <2>1, <2>2, BackedRequest DEF Next
<1>3. CreatedInv /\ [Next]_vars => CreatedInv'
  BY CreatedNext
<1> QED
  BY <1>1, <1>2, <1>3, CreatedInit, PTL DEF Spec

\* Where nobody deletes queues, a push makes a queue document only for a token that
\* may create queues, although push calls getQueue again without looking at the token.
THEOREM CreationIsAuthorizedHolds ==
  ASSUME "delete" \notin Ops
  PROVE  Spec => CreationIsAuthorized
<1>1. CreatedInv /\ [Next]_vars
        => [\A n \in Names : queueDoc[n] = NoDoc /\ queueDoc'[n] # NoDoc =>
              \E r \in Requests : /\ At(r, "upsert") /\ req'[r].pc = "load"
                                  /\ req[r].may_create]_vars
  <2> SUFFICES ASSUME CreatedInv, Next, NEW n \in Names, queueDoc[n] = NoDoc, queueDoc'[n] # NoDoc
               PROVE  \E r \in Requests : /\ At(r, "upsert") /\ req'[r].pc = "load"
                                          /\ req[r].may_create
    OBVIOUS
  <2>1. PICK r \in Requests : RequestStep(r)
    BY DocsBackground DEF Next, CreatedInv
  <2>2. Upsert(r)
    BY <2>1, DocsStay DEF CreatedInv
  <2>3. req \in [Requests -> ReqStates] /\ Fits(r, req[r]) /\ Entitled(req[r], Stored(r))
    BY DEF CreatedInv, AccountInv, TypeInv, TypeOK, Labelled, AllEntitled
  <2>4. req[r].pc = "upsert" /\ req'[r].pc = "load"
    BY <2>2, <2>3 DEF Upsert, At, Goto, ReqStates
  <2>5. req[r].may_create
    BY <2>3, <2>4 DEF Entitled, Fits, ReqStates, Phases
  <2> QED
    BY <2>4, <2>5 DEF At
<1>2. CreatedInv /\ [Next]_vars => CreatedInv'
  BY CreatedNext
<1> QED
  BY <1>1, <1>2, CreatedInit, PTL DEF Spec, CreationIsAuthorized

-----------------------------------------------------------------------------
(* The quota of queues. *)

Made == {n \in Names \ Existing : queueDoc[n] # NoDoc}

\* Creators that have, or will have, a document to answer for: one whose upsert has
\* failed may still find none.
Owing == {r \in Creators : At(r, "load") => Stored(r) # NoDoc}
Creations == OfType(Pending("user"), {"queue_create"})

ChargedInv ==
  /\ IsFiniteSet(Made) /\ IsFiniteSet(Creations)
  /\ Cardinality(Made) <= InitialQueues - quota.queues_left
                             + Cardinality(Creations) + Cardinality(Owing)

\* Where nobody deletes queues, a request that made a document owes it until it
\* reports the creation, or for good; no other step takes from what is owed.
LEMMA CreationStep ==
  ASSUME "delete" \notin Ops, CreatedInv, NEW r \in Requests, RequestStep(r)
  PROVE  \/ Upsert(r) /\ ~ ClientCreate(r) /\ r \notin Owing /\ Owing \cup {r} \subseteq Owing'
         \/ ClientCreate(r) /\ ~ Upsert(r) /\ r \in Owing /\ Owing \ {r} \subseteq Owing'
         \/ ~ Upsert(r) /\ ~ ClientCreate(r) /\ Owing \subseteq Owing'
<1>t. /\ req \in [Requests -> ReqStates] /\ Fits(r, req[r])
      /\ \A q \in Requests : req[q].name \in Names
      /\ queueDoc \in [Names -> Docs \cup {NoDoc}]
  BY DEF CreatedInv, AccountInv, TypeInv, TypeOK, ReqStates, Labelled
<1>s. /\ \A q \in Requests \ {r} : req'[q] = req[q]
      /\ \A q \in Requests : req'[q].name = req[q].name
  BY StepOfOne DEF CreatedInv, AccountInv
<1>d. \A q \in Requests : Stored(q) # NoDoc => Stored(q)' # NoDoc
  BY <1>s, <1>t, DocsStay DEF Stored, CreatedInv
<1>1. Owing \ {r} \subseteq Owing'
  BY <1>s, <1>d DEF Owing, Creators, Creating, At
<1>2. CASE Upsert(r)
  <2>1. req[r].pc = "upsert" /\ req[r].answer = "none" /\ req'[r].pc = "load"
    BY <1>2, <1>t DEF Upsert, At, Goto, Fits, ReqStates
  <2>2. Stored(r)' # NoDoc
    <3>1. [id |-> <<r, req[r].phase>>, messages_in_queue |-> 0,
           total_messages |-> 0, counted |-> FALSE] \in Docs
      BY DEF CreatedInv, AccountInv, TypeInv, TypeOK, ReqStates, Docs, DocIds
    <3>2. queueDoc'[req[r].name] # NoDoc
      BY <1>2, <1>t, <3>1, NoDocAssumption DEF Upsert
    <3> QED
      BY <3>2, <1>s DEF Stored
  <2>3. r \notin Owing /\ r \in Owing'
    BY <2>1, <2>2 DEF Owing, Creators, Creating, At
  <2>4. ~ ClientCreate(r)
    BY <2>1 DEF ClientCreate, At
  <2> QED
    BY <1>1, <1>2, <2>3, <2>4
<1>3. CASE ClientCreate(r)
  <2>1. req[r].pc = "client_create"
    BY <1>3 DEF ClientCreate, At
  <2>2. r \in Owing /\ ~ Upsert(r)
    BY <2>1 DEF Owing, Creators, Creating, At, Upsert
  <2> QED
    BY <1>1, <1>3, <2>2
<1>4. CASE ~ Upsert(r) /\ ~ ClientCreate(r)
  <2>1. ASSUME r \in Owing PROVE r \in Owing'
    <3>1. req'[r].pc = "client_create" \/ req'[r].answer = "not_created"
      BY <1>4, <2>1, CreatorStays DEF Owing, Creators
    <3>2. CASE req'[r].pc = "client_create"
      BY <3>2 DEF Owing, Creators, Creating, At
    <3>3. CASE req'[r].answer = "not_created"
      <4>1. req'[r].pc = "done"
        BY <3>3, StepFits DEF Fits, CreatedInv, AccountInv
      <4> QED
        BY <3>3, <4>1 DEF Owing, Creators, At
    <3> QED
      BY <3>1, <3>2, <3>3
  <2> QED
    BY <1>1, <1>4, <2>1
<1> QED
  BY <1>2, <1>3, <1>4

LEMMA ChargedRequest ==
  ASSUME "delete" \notin Ops, CreatedInv, ChargedInv, NEW r \in Requests, RequestStep(r)
  PROVE  ChargedInv'
<1> USE DEF CreatedInv, ChargedInv
<1>t. /\ quota.queues_left \in Int /\ InitialQueues \in Int /\ req[r].name \in Names
      /\ queueDoc \in [Names -> Docs \cup {NoDoc}]
      /\ UNCHANGED quota
  BY StepOfOne, QueueServiceAssumption DEF AccountInv, TypeInv, TypeOK, ReqStates
<1>f. /\ IsFiniteSet(Owing) /\ Cardinality(Owing) \in Nat
      /\ IsFiniteSet(Owing') /\ Cardinality(Owing') \in Nat
      /\ Cardinality(Made) \in Nat /\ Cardinality(Creations) \in Nat
  <2>1. IsFiniteSet(Owing) /\ IsFiniteSet(Owing')
    BY FS_Subset, QueueServiceAssumption DEF Owing, Creators
  <2> QED
    BY <2>1, FS_CardinalityType
<1>e. /\ ~ ClientCreate(r) => Creations' = Creations
      /\ ClientCreate(r) => \E e : e \notin Creations /\ Creations' = Creations \cup {e}
  <2>1. CASE (\A kind : Pending(kind)' = Pending(kind)) /\ ~ ClientCreate(r)
    BY <2>1 DEF Creations, OfType
  <2>2. ASSUME NEW e, \A kind : Pending(kind)' = Pending(kind) \cup {e}, e \notin Waiting,
               e.type = "queue_create" <=> ClientCreate(r)
        PROVE  /\ ~ ClientCreate(r) => Creations' = Creations
               /\ ClientCreate(r) => e \notin Creations /\ Creations' = Creations \cup {e}
    <3>1. Pending("user")' = Pending("user") \cup {e}
      BY <2>2
    <3>2. e \notin Pending("user")
      BY <2>2 DEF Waiting
    <3> QED
      BY <2>2, <3>1, <3>2 DEF Creations, OfType
  <2> QED
    BY <2>1, <2>2, AccountRequest
<1>m. \/ ~ Upsert(r) /\ Made' = Made
      \/ Upsert(r) /\ Made' \subseteq Made \cup {req[r].name}
  <2>1. \A n \in Names : /\ queueDoc[n] # NoDoc => queueDoc'[n] # NoDoc
                         /\ queueDoc'[n] # NoDoc =>
                              queueDoc[n] # NoDoc \/ (Upsert(r) /\ req[r].name = n)
    BY DocsStay
  <2> QED
    BY <2>1 DEF Made
<1>1. CASE Upsert(r) /\ ~ ClientCreate(r) /\ r \notin Owing /\ Owing \cup {r} \subseteq Owing'
  <2>1. Creations' = Creations
    BY <1>1, <1>e
  <2>2. Cardinality(Owing') >= Cardinality(Owing) + 1
    <3>1. Cardinality(Owing \cup {r}) = Cardinality(Owing) + 1
      BY <1>1, <1>f, FS_AddElement
    <3>2. Cardinality(Owing \cup {r}) <= Cardinality(Owing')
      BY <1>1, <1>f, FS_Subset
    <3> QED
      BY <1>f, <3>1, <3>2
  <2>3. /\ IsFiniteSet(Made \cup {req[r].name})
        /\ Cardinality(Made \cup {req[r].name}) <= Cardinality(Made) + 1
    <3>1. /\ IsFiniteSet(Made \cup {req[r].name})
          /\ Cardinality(Made \cup {req[r].name})
               = IF req[r].name \in Made THEN Cardinality(Made) ELSE Cardinality(Made) + 1
      BY FS_AddElement
    <3> QED
      BY <1>f, <3>1
  <2>4. IsFiniteSet(Made') /\ Cardinality(Made') <= Cardinality(Made \cup {req[r].name})
    BY <1>1, <1>m, <2>3, FS_Subset
  <2>5. Cardinality(Made') \in Nat /\ Cardinality(Made \cup {req[r].name}) \in Nat
    BY <2>3, <2>4, FS_CardinalityType
  <2> QED
    BY <1>f, <1>t, <2>1, <2>2, <2>3, <2>4, <2>5
<1>2. CASE ClientCreate(r) /\ ~ Upsert(r) /\ r \in Owing /\ Owing \ {r} \subseteq Owing'
  <2>1. Made' = Made
    BY <1>2, <1>m
  <2>2. Cardinality(Owing') >= Cardinality(Owing) - 1
    <3>1. Cardinality(Owing \ {r}) = Cardinality(Owing) - 1
      BY <1>2, <1>f, FS_RemoveElement
    <3>2. Cardinality(Owing \ {r}) <= Cardinality(Owing')
      BY <1>2, <1>f, FS_Subset
    <3> QED
      BY <1>f, <3>1, <3>2
  <2>3. /\ IsFiniteSet(Creations')
        /\ Cardinality(Creations') = Cardinality(Creations) + 1
    BY <1>2, <1>e, FS_AddElement
  <2> QED
    BY <1>f, <1>t, <2>1, <2>2, <2>3
<1>3. CASE ~ Upsert(r) /\ ~ ClientCreate(r) /\ Owing \subseteq Owing'
  <2>1. Cardinality(Owing) <= Cardinality(Owing')
    BY <1>3, <1>f, FS_Subset
  <2> QED
    BY <1>3, <1>e, <1>f, <1>m, <1>t, <2>1
<1> QED
  BY <1>1, <1>2, <1>3, CreationStep

LEMMA ChargedBackground ==
  ASSUME "delete" \notin Ops, CreatedInv, ChargedInv, StoreEvent \/ WorkerStep \/ Apply
  PROVE  ChargedInv'
<1> USE DEF CreatedInv, ChargedInv
<1>t. /\ quota.queues_left \in Int /\ InitialQueues \in Int
  BY QueueServiceAssumption DEF AccountInv, TypeInv, TypeOK
<1>u. /\ Made' = Made /\ Owing' = Owing
  <2>1. UNCHANGED req
    BY DEF StoreEvent, WorkerStep, WorkerPull, WorkerIdle, Apply, ApplyStats, ApplyQuota
  <2>2. \A n \in Names : queueDoc'[n] # NoDoc <=> queueDoc[n] # NoDoc
    BY DocsBackground
  <2>3. \A r \in Requests : req[r].name \in Names
    BY DEF AccountInv, TypeInv, TypeOK, ReqStates
  <2> QED
    BY <2>1, <2>2, <2>3 DEF Made, Owing, Creators, Creating, At, Stored
<1>q. ASSUME UNCHANGED quota, Creations' = Creations PROVE ChargedInv'
  BY <1>q, <1>u
<1>1. CASE StoreEvent \/ WorkerStep
  <2>1. UNCHANGED quota /\ QuotaEvents(Pending("user"))' = QuotaEvents(Pending("user"))
    BY <1>1, Moves DEF AccountInv
  <2>2. \A S : OfType(S, {"queue_create"}) = OfType(QuotaEvents(S), {"queue_create"})
    BY DEF OfType, QuotaEvents
  <2>3. Creations' = Creations
    BY <2>1, <2>2 DEF Creations
  <2> QED
    BY <2>1, <2>3, <1>q
<1>2. CASE ApplyStats
  <2>1. PICK u \in updates : /\ u.on = "queue" /\ updates' = updates \ {u}
                             /\ UNCHANGED <<quota, unsent, statsQueue, buffer>>
    BY <1>2 DEF ApplyStats
  <2>2. Pending("user")' = Pending("user")
    BY <2>1, Executes DEF AccountInv
  <2> QED
    BY <2>1, <2>2, <1>q DEF Creations, OfType
<1>3. CASE ApplyQuota
  <2>1. PICK u \in updates :
          /\ u.on = "user"
          /\ quota'.queues_left = quota.queues_left
                                    + Cardinality(OfType(u.events, {"queue_delete"}))
                                    - Cardinality(OfType(u.events, {"queue_create"}))
          /\ updates' = updates \ {u}
          /\ UNCHANGED <<unsent, statsQueue, buffer, req>>
    BY <1>3 DEF ApplyQuota
  <2> DEFINE E == OfType(u.events, {"queue_create"})
  <2>2. u.events \subseteq Pending("user") /\ Pending("user")' = Pending("user") \ u.events
    BY <2>1, Executes DEF AccountInv
  <2>3. OfType(u.events, {"queue_delete"}) = {}
    <3>1. ASSUME NEW e \in u.events PROVE e.type # "queue_delete"
      <4>1. e \in Waiting /\ e.by \in Requests
        BY <2>2, PendingType DEF AccountInv, Events
      <4>2. Sent(e, req[e.by]) /\ req[e.by].op # "delete"
        BY <4>1 DEF AccountInv, AllSent, Called
      <4> QED
        BY <4>2 DEF Sent
    <3> QED
      BY <3>1 DEF OfType
  <2>4. E \subseteq Creations /\ Creations' = Creations \ E
    BY <2>2 DEF Creations, OfType
  <2> HIDE DEF E
  <2>5. /\ IsFiniteSet(Creations') /\ Creations \cap E = E
        /\ Cardinality(Creations') = Cardinality(Creations) - Cardinality(E)
    <3>1. Creations \cap E = E
      BY <2>4
    <3> QED
      BY <2>4, <3>1, FS_Difference
  <2>6. Cardinality(OfType(u.events, {"queue_delete"})) = 0
    BY <2>3, FS_EmptySet
  <2>7. Cardinality(E) \in Nat /\ Cardinality(Creations) \in Nat
    BY <2>4, FS_Subset, FS_CardinalityType
  <2>8. quota'.queues_left = quota.queues_left - Cardinality(E)
    BY <1>t, <2>1, <2>6, <2>7 DEF E
  <2>9. Cardinality(Made) \in Nat /\ Cardinality(Owing) \in Nat
    <3>1. IsFiniteSet(Owing)
      BY FS_Subset, QueueServiceAssumption DEF Owing, Creators
    <3> QED
      BY <3>1, FS_CardinalityType
  <2>10. InitialQueues - quota'.queues_left + Cardinality(Creations') + Cardinality(Owing')
           = InitialQueues - quota.queues_left + Cardinality(Creations) + Cardinality(Owing)
    BY <1>t, <1>u, <2>5, <2>7, <2>8, <2>9
  <2> QED
    BY <1>u, <2>5, <2>10
<1> QED
  BY <1>1, <1>2, <1>3 DEF Apply

\* Where nobody deletes queues, the queues that were made are no more than the charged
\* ones, those whose charge is on its way, those whose request has not reported them
\* yet and those whose creation the backend rejected: only such a failure leaves a
\* queue that nobody pays for.
THEOREM QueuesAreChargedHolds ==
  ASSUME "delete" \notin Ops
  PROVE  Spec => []QueuesAreCharged
<1>1. Init => ChargedInv
  <2> SUFFICES ASSUME Init PROVE ChargedInv
    OBVIOUS
  <2>1. Made = {} /\ Creations = {}
    BY DEF Init, Made, Creations, Pending, UpdatesOn, OfType
  <2>2. IsFiniteSet(Owing)
    BY FS_Subset, QueueServiceAssumption DEF Owing, Creators
  <2>3. /\ Cardinality(Made) = 0 /\ Cardinality(Creations) = 0 /\ Cardinality(Owing) \in Nat
        /\ IsFiniteSet(Made) /\ IsFiniteSet(Creations)
    BY <2>1, <2>2, FS_EmptySet, FS_CardinalityType
  <2>4. quota.queues_left = InitialQueues /\ InitialQueues \in Nat
    BY QueueServiceAssumption DEF Init
  <2> QED
    BY <2>3, <2>4 DEF ChargedInv
<1>2. CreatedInv /\ ChargedInv /\ [Next]_vars => ChargedInv'
  <2> SUFFICES ASSUME CreatedInv, ChargedInv, [Next]_vars PROVE ChargedInv'
    OBVIOUS
  <2>1. CASE UNCHANGED vars
    <3>1. UNCHANGED <<queueDoc, quota, req>> /\ Pending("user")' = Pending("user")
      BY <2>1 DEF vars, Pending, UpdatesOn
    <3>2. Made' = Made /\ Creations' = Creations /\ Owing' = Owing
      BY <3>1 DEF Made, Creations, OfType, Owing, Creators, Creating, At, Stored
    <3> QED
      BY <3>1, <3>2 DEF ChargedInv
  <2> QED
    BY <2>1, ChargedRequest, ChargedBackground DEF Next
<1>3. CreatedInv /\ [Next]_vars => CreatedInv'
  BY CreatedNext
<1>4. TypeInv /\ ChargedInv => QueuesAreCharged
  <2> SUFFICES ASSUME TypeInv, ChargedInv PROVE QueuesAreCharged
    OBVIOUS
  <2>1. Owing \subseteq Creators /\ IsFiniteSet(Creators)
    BY FS_Subset, QueueServiceAssumption DEF Owing, Creators
  <2>2. Cardinality(Owing) <= Cardinality(Creators)
    BY <2>1, FS_Subset
  <2>3. /\ Cardinality(Owing) \in Nat /\ Cardinality(Creators) \in Nat
        /\ Cardinality(Made) \in Nat /\ Cardinality(Creations) \in Nat
    BY <2>1, FS_Subset, FS_CardinalityType DEF ChargedInv
  <2>4. quota.queues_left \in Int /\ InitialQueues \in Int
    BY QueueServiceAssumption DEF TypeInv, TypeOK
  <2> QED
    BY <2>2, <2>3, <2>4 DEF ChargedInv, QueuesAreCharged, Made, Creations
<1> QED
  BY <1>1, <1>2, <1>3, <1>4, CreatedInit, TypeInit, TypeNext, PTL DEF Spec

-----------------------------------------------------------------------------
(* Messages of queues that nobody purges or deletes. *)

\* A message in a backend queue comes from a push to that queue, which has handed it
\* to the driver.
HeldFrom ==
  \A n \in Names : \A m \in Held(n) :
    /\ m \in Messages /\ req[m[1]].op = "push" /\ req[m[1]].name = n
    /\ m \in req[m[1]].got

\* So does a message that a pull has taken, and it is in the backend no more.
TakenFrom ==
  \A q \in Requests : req[q].op = "pull" => \A m \in req[q].got :
    /\ m \in Messages /\ req[m[1]].op = "push" /\ req[m[1]].name = req[q].name
    /\ m \in req[m[1]].got /\ m \notin Held(req[q].name)

\* No two pulls take the same message.
TakenOnce ==
  \A p, q \in Requests : req[p].op = "pull" /\ req[q].op = "pull" /\ p # q
                           => req[p].got \cap req[q].got = {}

\* A message that a push has handed to the driver is in the backend, or a pull has it.
HandedIsKept ==
  \A r \in Requests : req[r].op = "push" => \A m \in req[r].got :
    m \in Held(req[r].name) \/ \E q \in Requests : req[q].op = "pull" /\ m \in req[q].got

\* A request that has handed over or taken messages has a queue document and a backend
\* queue.
Grounded ==
  \A r \in Requests : req[r].got # {} => Stored(r) # NoDoc /\ Backlog(r) # Missing

MessagesInv == HeldFrom /\ TakenFrom /\ TakenOnce /\ HandedIsKept /\ Grounded

LEMMA MessagesInit == Init => MessagesInv
<1> SUFFICES ASSUME Init PROVE MessagesInv
  OBVIOUS
<1>1. ASSUME NEW r \in Requests PROVE req[r].got = {}
  BY FirstState
<1>2. ASSUME NEW n \in Names PROVE Held(n) = {}
  BY DEF Init, Held
<1> QED
  BY <1>1, <1>2 DEF MessagesInv, HeldFrom, TakenFrom, TakenOnce, HandedIsKept, Grounded

\* What a step does to messages: a push hands one over, a pull takes one, and every
\* other step leaves them where they are.
LEMMA MessageStep ==
  ASSUME {"purge", "delete"} \cap Ops = {}, Provider # "rabbitmq", CreatedInv, Grounded,
         NEW r \in Requests, RequestStep(r)
  PROVE  \/ /\ req[r].op = "push" /\ Stored(r) # NoDoc /\ store'[req[r].name] # Missing
            /\ \E m \in Batch(r) :
                 /\ m \notin req[r].got /\ req'[r].got = req[r].got \cup {m}
                 /\ \A n \in Names : Held(n)' = IF n = req[r].name THEN Held(n) \cup {m}
                                               ELSE Held(n)
         \/ /\ req[r].op = "pull" /\ store'[req[r].name] # Missing
            /\ \E m \in Held(req[r].name) :
                 /\ req'[r].got = req[r].got \cup {m}
                 /\ \A n \in Names : Held(n)' = IF n = req[r].name THEN Held(n) \ {m}
                                               ELSE Held(n)
         \/ req'[r].got = req[r].got /\ \A n \in Names : Held(n)' = Held(n)
<1> USE DEF CreatedInv
<1>t. /\ req \in [Requests -> ReqStates] /\ req[r] \in ReqStates /\ Fits(r, req[r])
      /\ req[r].op \in OpNames \ {"purge", "delete"} /\ req[r].phase \in {"gate", "push", "route"}
      /\ req[r].name \in Names /\ Entitled(req[r], Stored(r))
      /\ store \in [Names -> {Missing} \cup SUBSET Messages]
      /\ req[r].pc \notin {"send", "pulling", "done"} => req[r].got = {}
      /\ TypeInv'
  BY TypeNext DEF AccountInv, TypeInv, TypeOK, Labelled, ReqStates, Phases, AllEntitled, Called,
     HandsInOrder, Next
<1>x. ~ DeleteStep(r) /\ ~ PurgeStep(r)
  BY <1>t, DocsStay DEF PurgeStep, PurgeFind, PurgeSave, PurgeClient, At, Fits, OpLabels, OpNames
<1>h. ASSUME UNCHANGED store PROVE \A n \in Names : Held(n)' = Held(n)
  BY <1>h DEF Held
<1>a. ASSUME NEW a, Answer(r, a)
      PROVE  req'[r].got = req[r].got
  BY <1>a, <1>t DEF Answer, ReqStates
<1>g. ASSUME NEW d, Got(r, d)
      PROVE  req'[r].got = req[r].got
  <2>1. CASE req[r].phase = "gate"
    BY <1>g, <2>1, <1>t DEF Got, ReqStates
  <2>2. CASE req[r].phase = "push"
    BY <1>g, <2>2, <1>t DEF Got, Load, ReqStates
  <2>3. CASE req[r].phase = "route"
    BY <1>g, <2>3, <1>t DEF Got, Load, ReqStates
  <2> QED
    BY <1>t, <2>1, <2>2, <2>3
<1>1. CASE Send(r)
  <2>1. PICK m \in Batch(r) :
          /\ req[r].op = "push" /\ req[r].phase = "push" /\ m \notin req[r].got
          /\ req'[r].got = req[r].got \cup {m}
          /\ store' = [store EXCEPT ![req[r].name] = AfterPush(store[req[r].name], m)]
    BY <1>1, SendEffect DEF AccountInv
  <2>2. m \in Messages
    BY <1>t, <2>1, BatchSize DEF ReqStates
  <2>3. AfterPush(store[req[r].name], m) = Held(req[r].name) \cup {m}
    BY <1>1, <1>t, QueueServiceAssumption DEF AfterPush, Held, Send, PushFails, Backlog
  <2>4. Held(req[r].name) \subseteq Messages
    BY <1>t DEF Held
  <2>5. Held(req[r].name) \cup {m} # Missing
    BY <2>2, <2>4, MissingAssumption
  <2>6. \A n \in Names : Held(n)' = IF n = req[r].name THEN Held(n) \cup {m} ELSE Held(n)
    BY <1>t, <2>1, <2>3, <2>5 DEF Held
  <2>7. store'[req[r].name] # Missing /\ Stored(r) # NoDoc
    BY <1>t, <2>1, <2>3, <2>5 DEF Entitled
  <2> QED
    BY <2>1, <2>6, <2>7
<1>2. CASE PullOne(r)
  <2>1. PICK m \in store[req[r].name] :
          /\ store' = [store EXCEPT ![req[r].name] = store[req[r].name] \ {m}]
          /\ req' = [req EXCEPT ![r].got = req[r].got \cup {m}]
          /\ req[r].pc = "pulling" /\ store[req[r].name] # Missing
    BY <1>2 DEF PullOne, Backlog, At
  <2>2. req[r].op = "pull" /\ req'[r].pc = "pulling" /\ req'[r].got = req[r].got \cup {m}
    BY <1>t, <2>1 DEF Fits, OpLabels, OpNames, ReqStates
  <2>3. store[req[r].name] \ {m} # Missing
    BY <1>t, <2>1, MissingAssumption
  <2>4. \A n \in Names : Held(n)' = IF n = req[r].name THEN Held(n) \ {m} ELSE Held(n)
    BY <1>t, <2>1, <2>3 DEF Held
  <2>5. store'[req[r].name] # Missing /\ m \in Held(req[r].name)
    BY <1>t, <2>1, <2>3 DEF Held
  <2> QED
    BY <2>2, <2>4, <2>5
<1>3. CASE ClientCreate(r)
  <2>1. \A n \in Names : Held(n)' = Held(n)
    BY <1>3, <1>t DEF ClientCreate, Held
  <2> QED
    BY <1>3, <1>g, <2>1 DEF ClientCreate
<1>4. CASE SendFails(r) \/ PullThrows(r) \/ PullReturn(r) \/ Rejects(r)
  BY <1>4, <1>a, <1>h DEF SendFails, PullThrows, PullReturn, Rejects
<1>5. CASE EditFind(r) \/ EditSave(r)
  <2>1. UNCHANGED store
    BY <1>5 DEF EditFind, EditSave
  <2>2. req'[r].got = req[r].got
    BY <1>5, <1>t DEF EditFind, EditSave, Answer, Load, ReqStates
  <2> QED
    BY <2>1, <2>2, <1>h
<1>6. CASE GetFind(r)
  <2>1. UNCHANGED store /\ (Goto(r, "upsert") \/ Got(r, Stored(r)))
    BY <1>6 DEF GetFind
  <2>2. CASE Goto(r, "upsert")
    BY <2>1, <2>2, <1>h, <1>t DEF Goto, ReqStates
  <2> QED
    BY <2>1, <2>2, <1>g, <1>h
<1>7. CASE \/ Reject(r) \/ GateFind(r) \/ GateUser(r) \/ Upsert(r) \/ UpsertFails(r)
           \/ NoBackend(r) \/ LoadCreated(r) \/ PullFind(r)
  <2>1. UNCHANGED store
    BY <1>7, <1>t DEF Reject, GateFind, GateUser, Upsert, UpsertFails, NoBackend, LoadCreated,
       PullFind
  <2>2. req'[r].got = req[r].got
    BY <1>7, <1>t DEF Reject, GateFind, GateUser, Upsert, UpsertFails, NoBackend, LoadCreated,
       PullFind, Answer, Load, Goto, ReqStates
  <2> QED
    BY <2>1, <2>2, <1>h
<1> QED
  BY <1>x, <1>1, <1>2, <1>3, <1>4, <1>5, <1>6, <1>7
     DEF RequestStep, PushStep, CreateStep, PullStep, EditStep

LEMMA MessagesRequest ==
  ASSUME {"purge", "delete"} \cap Ops = {}, Provider # "rabbitmq", CreatedInv, MessagesInv,
         NEW r \in Requests, RequestStep(r)
  PROVE  MessagesInv'
<1> USE DEF MessagesInv
<1>s. /\ \A q \in Requests \ {r} : req'[q] = req[q]
      /\ req'[r].op = req[r].op /\ req'[r].name = req[r].name /\ req[r].name \in Names
      /\ \A q \in Requests : req'[q].op = req[q].op /\ req'[q].name = req[q].name
                             /\ req[q].name \in Names
  <2>1. \A q \in Requests : req[q].name \in Names
    BY DEF CreatedInv, AccountInv, TypeInv, TypeOK, ReqStates
  <2> QED
    BY <2>1, StepOfOne DEF CreatedInv, AccountInv
<1>f. ASSUME NEW q \in Requests, req[q].op = "push", NEW m \in req[q].got PROVE m[1] = q
  BY <1>f DEF CreatedInv, AccountInv, Labelled, Fits
\* Nobody's queue document or backend queue goes.
<1>d. \A q \in Requests : /\ Stored(q) # NoDoc => Stored(q)' # NoDoc
                          /\ Backlog(q) # Missing => Backlog(q)' # Missing
  <2>1. \A n \in Names : /\ queueDoc[n] # NoDoc => queueDoc'[n] # NoDoc
                         /\ store[n] # Missing => store'[n] # Missing
    BY DocsStay DEF CreatedInv
  <2> QED
    BY <1>s, <2>1 DEF Stored, Backlog
<1>1. ASSUME req[r].op = "push", Stored(r) # NoDoc, store'[req[r].name] # Missing,
             NEW m \in Batch(r), m \notin req[r].got, req'[r].got = req[r].got \cup {m},
             \A n \in Names : Held(n)' = IF n = req[r].name THEN Held(n) \cup {m} ELSE Held(n)
      PROVE  MessagesInv'
  <2>1. m[1] = r /\ m \in Messages
    <3>1. req[r].count \in 1 .. MaxBatch
      BY DEF CreatedInv, AccountInv, TypeInv, TypeOK, ReqStates
    <3> QED
      BY <3>1, BatchSize DEF Batch
  <2>2. \A q \in Requests : req[q].got \subseteq req'[q].got
                            /\ (req[q].op = "pull" => req'[q].got = req[q].got)
    BY <1>s, <1>1
  <2>3. \A q \in Requests : req[q].op = "pull" => m \notin req[q].got
    BY <1>1, <2>1 DEF TakenFrom
  <2>4. HeldFrom'
    <3>1. ASSUME NEW n \in Names, NEW k \in Held(n)'
          PROVE  /\ k \in Messages /\ req'[k[1]].op = "push" /\ req'[k[1]].name = n
                 /\ k \in req'[k[1]].got
      <4>1. CASE k \in Held(n)
        <5>1. k \in Messages /\ req[k[1]].op = "push" /\ req[k[1]].name = n /\ k \in req[k[1]].got
          BY <4>1 DEF HeldFrom
        <5>2. k[1] \in Requests
          BY <5>1 DEF Messages
        <5> QED
          BY <5>1, <5>2, <1>s, <2>2
      <4>2. CASE k = m /\ n = req[r].name
        BY <4>2, <1>1, <1>s, <2>1
      <4> QED
        BY <3>1, <4>1, <4>2, <1>1
    <3> QED
      BY <3>1 DEF HeldFrom
  <2>5. TakenFrom'
    <3>1. ASSUME NEW q \in Requests, req[q].op = "pull", NEW k \in req[q].got
          PROVE  /\ k \in Messages /\ req'[k[1]].op = "push" /\ req'[k[1]].name = req[q].name
                 /\ k \in req'[k[1]].got /\ k \notin Held(req[q].name)'
      <4>1. /\ k \in Messages /\ req[k[1]].op = "push" /\ req[k[1]].name = req[q].name
            /\ k \in req[k[1]].got /\ k \notin Held(req[q].name)
        BY <3>1 DEF TakenFrom
      <4>2. k[1] \in Requests /\ k # m
        BY <3>1, <4>1, <2>3 DEF Messages
      <4> QED
        BY <4>1, <4>2, <1>s, <1>1, <2>2
    <3> QED
      BY <3>1, <1>s, <2>2 DEF TakenFrom
  <2>6. TakenOnce'
    BY <1>s, <2>2 DEF TakenOnce
  <2>7. HandedIsKept'
    <3>1. ASSUME NEW q \in Requests, req[q].op = "push", NEW k \in req'[q].got
          PROVE  \/ k \in Held(req[q].name)'
                 \/ \E p \in Requests : req[p].op = "pull" /\ k \in req[p].got
      <4>1. CASE k \in req[q].got
        BY <3>1, <4>1, <1>1, <1>s DEF HandedIsKept
      <4>2. CASE q = r /\ k = m
        BY <4>2, <1>1, <1>s
      <4> QED
        BY <3>1, <4>1, <4>2, <1>1, <1>s
    <3> QED
      BY <3>1, <1>s, <2>2 DEF HandedIsKept
  <2>8. Grounded'
    BY <1>1, <1>d, <1>s DEF Grounded, Stored, Backlog
  <2> QED
    BY <2>4, <2>5, <2>6, <2>7, <2>8
<1>2. ASSUME req[r].op = "pull", store'[req[r].name] # Missing,
             NEW m \in Held(req[r].name), req'[r].got = req[r].got \cup {m},
             \A n \in Names : Held(n)' = IF n = req[r].name THEN Held(n) \ {m} ELSE Held(n)
      PROVE  MessagesInv'
  <2>1. /\ m \in Messages /\ m[1] \in Requests /\ req[m[1]].op = "push"
        /\ req[m[1]].name = req[r].name /\ m \in req[m[1]].got
    BY <1>s DEF HeldFrom, Messages
  <2>2. \A q \in Requests : req[q].op = "push" => req'[q] = req[q]
    BY <1>s, <1>2
  <2>3. \A q \in Requests : req[q].op = "pull" => m \notin req[q].got
    BY <2>1 DEF TakenFrom
  <2>4. HeldFrom'
    <3>1. ASSUME NEW n \in Names, NEW k \in Held(n)'
          PROVE  /\ k \in Messages /\ req'[k[1]].op = "push" /\ req'[k[1]].name = n
                 /\ k \in req'[k[1]].got
      <4>1. /\ k \in Messages /\ req[k[1]].op = "push" /\ req[k[1]].name = n
            /\ k \in req[k[1]].got /\ k[1] \in Requests
        BY <3>1, <1>2 DEF HeldFrom, Messages
      <4> QED
        BY <4>1, <2>2
    <3> QED
      BY <3>1 DEF HeldFrom
  <2>5. TakenFrom'
    <3>1. ASSUME NEW q \in Requests, req[q].op = "pull", NEW k \in req'[q].got
          PROVE  /\ k \in Messages /\ req'[k[1]].op = "push" /\ req'[k[1]].name = req[q].name
                 /\ k \in req'[k[1]].got /\ k \notin Held(req[q].name)'
      <4>1. CASE k \in req[q].got
        <5>1. /\ k \in Messages /\ req[k[1]].op = "push" /\ req[k[1]].name = req[q].name
              /\ k \in req[k[1]].got /\ k \notin Held(req[q].name) /\ k[1] \in Requests
          BY <3>1, <4>1 DEF TakenFrom, Messages
        <5> QED
          BY <5>1, <2>2, <1>2, <1>s
      <4>2. CASE q = r /\ k = m
        BY <4>2, <2>1, <2>2, <1>2, <1>s
      <4> QED
        BY <3>1, <4>1, <4>2, <1>2, <1>s
    <3> QED
      BY <3>1, <1>s DEF TakenFrom
  <2>6. TakenOnce'
    <3>1. ASSUME NEW p \in Requests, NEW q \in Requests, req[p].op = "pull", req[q].op = "pull",
                   p # q
          PROVE  req'[p].got \cap req'[q].got = {}
      <4>1. req[p].got \cap req[q].got = {} /\ m \notin req[p].got /\ m \notin req[q].got
        BY <3>1, <2>3 DEF TakenOnce
      <4> QED
        BY <3>1, <4>1, <1>2, <1>s
    <3> QED
      BY <3>1, <1>s DEF TakenOnce
  <2>7. HandedIsKept'
    <3>1. ASSUME NEW q \in Requests, req[q].op = "push", NEW k \in req[q].got
          PROVE  \/ k \in Held(req[q].name)'
                 \/ \E p \in Requests : req[p].op = "pull" /\ k \in req'[p].got
      <4>1. CASE k = m
        BY <4>1, <1>2
      <4>2. CASE k # m /\ k \in Held(req[q].name)
        BY <4>2, <1>2, <1>s
      <4>3. CASE \E p \in Requests : req[p].op = "pull" /\ k \in req[p].got
        BY <4>3, <1>2, <1>s
      <4> QED
        BY <3>1, <4>1, <4>2, <4>3 DEF HandedIsKept
    <3> QED
      BY <3>1, <1>s, <2>2 DEF HandedIsKept
  <2>8. Stored(r) # NoDoc
    BY <2>1 DEF Grounded, Stored
  <2>9. Grounded'
    BY <1>2, <1>d, <1>s, <2>8 DEF Grounded, Stored, Backlog
  <2> QED
    BY <2>4, <2>5, <2>6, <2>7, <2>9
<1>3. ASSUME req'[r].got = req[r].got, \A n \in Names : Held(n)' = Held(n)
      PROVE  MessagesInv'
  <2>1. \A q \in Requests : req'[q].got = req[q].got
    BY <1>3, <1>s
  <2>2. \A n \in Names : \A m \in Held(n) : m[1] \in Requests
    BY DEF HeldFrom, Messages
  <2>3. \A q \in Requests : req[q].op = "pull" => \A m \in req[q].got : m[1] \in Requests
    BY DEF TakenFrom, Messages
  <2>4. HeldFrom'
    BY <1>3, <1>s, <2>1, <2>2 DEF HeldFrom
  <2>5. TakenFrom'
    BY <1>3, <1>s, <2>1, <2>3 DEF TakenFrom
  <2>6. TakenOnce' /\ HandedIsKept'
    BY <1>3, <1>s, <2>1 DEF TakenOnce, HandedIsKept
  <2>7. Grounded'
    BY <1>d, <1>s, <2>1 DEF Grounded
  <2> QED
    BY <2>4, <2>5, <2>6, <2>7
<1> QED
  BY <1>1, <1>2, <1>3, MessageStep

LEMMA MessagesNext ==
  ASSUME {"purge", "delete"} \cap Ops = {}, Provider # "rabbitmq", CreatedInv, MessagesInv,
         [Next]_vars
  PROVE  MessagesInv'
<1>1. CASE StoreEvent \/ WorkerStep \/ Apply
  <2>1. UNCHANGED <<store, req>>
    BY <1>1 DEF StoreEvent, WorkerStep, WorkerPull, WorkerIdle, Apply, ApplyStats, ApplyQuota
  <2>2. \A n \in Names : (queueDoc'[n] # NoDoc <=> queueDoc[n] # NoDoc)
    BY <1>1, DocsBackground DEF CreatedInv
  <2>3. \A r \in Requests : req[r].name \in Names
    BY DEF CreatedInv, AccountInv, TypeInv, TypeOK, ReqStates
  <2> QED
    BY <2>1, <2>2, <2>3 DEF MessagesInv, HeldFrom, TakenFrom, TakenOnce, HandedIsKept, Grounded,
       Held, Stored, Backlog
<1>2. CASE UNCHANGED vars
  BY <1>2 DEF vars, MessagesInv, HeldFrom, TakenFrom, TakenOnce, HandedIsKept, Grounded,
     Held, Stored, Backlog
<1> QED
  BY <1>1, <1>2, MessagesRequest DEF Next

\* Where nobody purges or deletes, and the driver reports a push that it cannot store,
\* every message that a push was answered for is in the backend or was taken by a pull.
THEOREM AcceptedIsKeptHolds ==
  ASSUME {"purge", "delete"} \cap Ops = {}, Provider # "rabbitmq"
  PROVE  Spec => []AcceptedIsKept
<1>1. CreatedInv /\ MessagesInv => AcceptedIsKept
  <2> SUFFICES ASSUME CreatedInv, MessagesInv, NEW m \in Accepted
               PROVE  m \in Delivered \/ \E n \in Names : m \in Held(n)
    BY DEF AcceptedIsKept
  <2>1. PICK r \in Requests : req[r].op = "push" /\ m \in req[r].got
    BY DEF Accepted
  <2>2. req[r].name \in Names
    BY DEF CreatedInv, AccountInv, TypeInv, TypeOK, ReqStates
  <2> QED
    BY <2>1, <2>2 DEF MessagesInv, HandedIsKept, Delivered
<1>2. CreatedInv /\ [Next]_vars => CreatedInv'
  BY CreatedNext
<1>3. CreatedInv /\ MessagesInv /\ [Next]_vars => MessagesInv'
  BY MessagesNext
<1> QED
  BY <1>1, <1>2, <1>3, CreatedInit, MessagesInit, PTL DEF Spec

-----------------------------------------------------------------------------
(* The counter of a queue. *)

\* The messages of the pushes, and of the pulls, on n that were answered with success.
AnsweredOn(n, op) ==
  UNION {req[r].got : r \in {q \in Requests :
           req[q].name = n /\ req[q].op = op /\ req[q].answer = "ok"}}

\* The counter of n, and the events that are still to be counted in it.
Counter(n) == IF queueDoc[n] = NoDoc THEN 0 ELSE queueDoc[n].messages_in_queue
Uncounted(n) == CounterEvents(Pending("queue"), n)

\* Counted or on its way to be counted is what was answered.
CountsAnswered ==
  \A n \in Names :
    Counter(n) + Pushed(Uncounted(n)) - Pulled(Uncounted(n))
      = Cardinality(AnsweredOn(n, "push")) - Cardinality(AnsweredOn(n, "pull"))

LEMMA CountedTypes ==
  ASSUME CreatedInv, NEW n \in Names
  PROVE  /\ Counter(n) \in Int
         /\ Uncounted(n) \in SUBSET Events /\ Uncounted(n) \subseteq Waiting
         /\ \A op : /\ AnsweredOn(n, op) \subseteq Messages /\ IsFiniteSet(AnsweredOn(n, op))
                    /\ Cardinality(AnsweredOn(n, op)) \in Nat
<1>1. Counter(n) \in Int
  BY DEF CreatedInv, AccountInv, TypeInv, TypeOK, Counter, Docs
<1>2. Uncounted(n) \in SUBSET Events /\ Uncounted(n) \subseteq Waiting
  <2>1. Pending("queue") \in SUBSET Events /\ Pending("queue") \subseteq Waiting
    BY PendingType DEF CreatedInv, AccountInv
  <2> QED
    BY <2>1 DEF Uncounted, CounterEvents, OfType
<1>3. ASSUME NEW op PROVE /\ AnsweredOn(n, op) \subseteq Messages
                          /\ IsFiniteSet(AnsweredOn(n, op))
                          /\ Cardinality(AnsweredOn(n, op)) \in Nat
  <2>1. AnsweredOn(n, op) \subseteq Messages
    BY DEF AnsweredOn, CreatedInv, AccountInv, TypeInv, TypeOK, ReqStates
  <2> QED
    BY <2>1, MessagesFinite, FS_Subset, FS_CardinalityType
<1> QED
  BY <1>1, <1>2, <1>3

\* Different reports of one type are about different messages, each of them those of
\* its request, which was answered.
LEMMA MovesDiffer ==
  ASSUME CreatedInv, MessagesInv, NEW n \in Names, NEW e \in Uncounted(n)
  PROVE  /\ e.by \in Requests /\ req[e.by].name = n /\ e.name = n
         /\ e.msgs = req[e.by].got /\ req[e.by].answer = "ok"
         /\ e.type = "msg_push" => req[e.by].op = "push"
         /\ e.type = "msg_pull" => req[e.by].op = "pull"
         /\ \A f \in Uncounted(n) : e.type = f.type /\ e # f => e.msgs \cap f.msgs = {}
<1>1. ASSUME NEW f \in Uncounted(n)
      PROVE  /\ f.by \in Requests /\ req[f.by].name = n /\ f.name = n /\ f \in Waiting
             /\ f.msgs = req[f.by].got /\ req[f.by].answer = "ok"
             /\ f.type = "msg_push" => req[f.by].op = "push"
             /\ f.type = "msg_pull" => req[f.by].op = "pull" /\ f.at = "pull"
             /\ f.type \in {"msg_push", "msg_pull"} /\ f \in Events
  <2>1. /\ f \in Events /\ f \in Waiting /\ f.name = n /\ f.type \in {"msg_push", "msg_pull"}
        /\ f.by \in Requests
    BY CountedTypes DEF Uncounted, CounterEvents, OfType, Events
  <2>2. Sent(f, req[f.by])
    BY <2>1 DEF CreatedInv, AccountInv, AllSent
  <2> QED
    BY <2>1, <2>2 DEF Sent
<1>2. ASSUME NEW f \in Uncounted(n), e.type = f.type, e # f PROVE e.msgs \cap f.msgs = {}
  <2>1. CASE e.type = "msg_push"
    BY <1>1, <1>2, <2>1, ReportsDiffer DEF CreatedInv
  <2>2. CASE e.type = "msg_pull"
    <3>1. e.by # f.by
      BY <1>1, <1>2, <2>2 DEF Events
    <3> QED
      BY <1>1, <1>2, <2>2, <3>1 DEF MessagesInv, TakenOnce
  <2> QED
    BY <1>1, <2>1, <2>2
<1> QED
  BY <1>1, <1>2

\* A request that is answered with success adds its messages to the answered ones.
LEMMA AnsweredNext ==
  ASSUME CreatedInv, NEW r \in Requests, RequestStep(r), NEW n \in Names,
         NEW op \in {"push", "pull"}
  PROVE  AnsweredOn(n, op)' = IF req[r].name = n /\ req[r].op = op /\ req'[r].answer = "ok"
                              THEN AnsweredOn(n, op) \cup req'[r].got ELSE AnsweredOn(n, op)
<1>1. /\ \A q \in Requests \ {r} : req'[q] = req[q]
      /\ req'[r].op = req[r].op /\ req'[r].name = req[r].name
      /\ req[r].pc # "done"
  BY StepOfOne DEF CreatedInv, AccountInv
<1>2. req[r].answer # "ok"
  BY <1>1 DEF CreatedInv, AccountInv, Labelled, Fits
<1> QED
  BY <1>1, <1>2 DEF AnsweredOn

LEMMA CountsRequest ==
  ASSUME Ops \subseteq {"push", "pull"}, Provider # "rabbitmq", CreatedInv, MessagesInv,
         CountsAnswered, NEW r \in Requests, RequestStep(r), NEW n \in Names
  PROVE  (Counter(n) + Pushed(Uncounted(n)) - Pulled(Uncounted(n))
            = Cardinality(AnsweredOn(n, "push")) - Cardinality(AnsweredOn(n, "pull")))'
<1> DEFINE U == Uncounted(n)
           ok(op) == req[r].op = op /\ req'[r].answer = "ok"
<1>t. /\ Counter(n) \in Int /\ U \in SUBSET Events /\ Pushed(U) \in Nat /\ Pulled(U) \in Nat
      /\ \A op : IsFiniteSet(AnsweredOn(n, op)) /\ Cardinality(AnsweredOn(n, op)) \in Nat
  BY CountedTypes, CountsAreNat
<1>i. Counter(n) + Pushed(U) - Pulled(U)
        = Cardinality(AnsweredOn(n, "push")) - Cardinality(AnsweredOn(n, "pull"))
  BY DEF CountsAnswered
\* No step of a request changes the counter.
<1>c. Counter(n)' = Counter(n)
  <2>1. ~ PurgeSave(r) /\ ~ DeleteRemove(r) /\ ~ EditSave(r)
    <3>1. Fits(r, req[r]) /\ req[r].op \in {"push", "pull"}
      BY DEF CreatedInv, AccountInv, Labelled, Called
    <3> QED
      BY <3>1 DEF PurgeSave, DeleteRemove, EditSave, At, Fits, OpLabels
  <2>2. CASE UNCHANGED queueDoc
    BY <2>2 DEF Counter
  <2>3. CASE Upsert(r)
    <3> DEFINE new == [id |-> <<r, req[r].phase>>, messages_in_queue |-> 0,
                       total_messages |-> 0, counted |-> FALSE]
    <3>1. queueDoc \in [Names -> Docs \cup {NoDoc}]
      BY DEF CreatedInv, AccountInv, TypeInv, TypeOK
    <3>2. queueDoc'[n] = queueDoc[n] \/ (queueDoc[n] = NoDoc /\ queueDoc'[n] = new)
      BY <2>3, <3>1 DEF Upsert
    <3>3. new.messages_in_queue = 0
      OBVIOUS
    <3> HIDE DEF new
    <3> QED
      BY <3>2, <3>3 DEF Counter
  <2> QED
    BY <2>1, <2>2, <2>3, DocWriters DEF DocWritten
\* A request that has taken or handed over messages reports what it alone has.
<1>d. \A op \in {"push", "pull"} : ok(op) => AnsweredOn(n, op) \cap req'[r].got = {}
  <2>1. MessagesInv' /\ CreatedInv'
    BY MessagesRequest, CreatedNext DEF Next
  <2>2. \A q \in Requests \ {r} : req'[q] = req[q]
    BY StepOfOne DEF CreatedInv, AccountInv
  <2>3. req[r].answer # "ok" /\ req'[r].op = req[r].op
    BY StepOfOne DEF CreatedInv, AccountInv, Labelled, Fits
  <2>4. ASSUME NEW q \in Requests \ {r}, req[q].op = req[r].op, req[r].op \in {"push", "pull"}
        PROVE  req[q].got \cap req'[r].got = {}
    <3>1. CASE req[r].op = "push"
      <4>1. req'[q].got \subseteq {q} \X Nat /\ req'[r].got \subseteq {r} \X Nat
        <5>1. MaxBatch \in Nat /\ Fits(q, req'[q]) /\ Fits(r, req'[r])
          BY <2>1, QueueServiceAssumption DEF CreatedInv, AccountInv, Labelled
        <5> QED
          BY <2>2, <2>3, <2>4, <3>1, <5>1 DEF Fits
      <4> QED
        BY <2>2, <4>1
    <3>2. CASE req[r].op = "pull"
      BY <2>1, <2>2, <2>3, <2>4, <3>2 DEF MessagesInv, TakenOnce
    <3> QED
      BY <2>4, <3>1, <3>2
  <2> QED
    BY <2>3, <2>4 DEF AnsweredOn
<1>f. IsFiniteSet(req'[r].got)
  <2>1. req'[r].got \subseteq Messages
    BY StepOfOne DEF CreatedInv, AccountInv, ReqStates
  <2> QED
    BY <2>1, MessagesFinite, FS_Subset
<1>1. CASE /\ \A kind : Pending(kind)' = Pending(kind)
           /\ ok("pull") => req'[r].got = {}
           /\ ~ ok("push")
  <2>1. U' = U
    BY <1>1 DEF Uncounted, CounterEvents, OfType
  <2>2. Pushed(U)' = Pushed(U) /\ Pulled(U)' = Pulled(U)
    BY <2>1 DEF Pushed, Pulled, MessagesOf, OfType
  <2>3. /\ AnsweredOn(n, "push")' = AnsweredOn(n, "push")
        /\ AnsweredOn(n, "pull")' = AnsweredOn(n, "pull")
    <3>1. /\ AnsweredOn(n, "push")' = AnsweredOn(n, "push")
      BY <1>1, AnsweredNext
    <3>2. CASE ok("pull")
      <4>1. \/ AnsweredOn(n, "pull")' = AnsweredOn(n, "pull") \cup req'[r].got
            \/ AnsweredOn(n, "pull")' = AnsweredOn(n, "pull")
        BY AnsweredNext
      <4> QED
        BY <1>1, <3>1, <3>2, <4>1
    <3>3. CASE ~ ok("pull")
      BY <3>1, <3>3, AnsweredNext
    <3> QED
      BY <3>2, <3>3
  <2> QED
    BY <1>c, <1>i, <2>2, <2>3
<1>2. ASSUME NEW e \in Events, \A kind : Pending(kind)' = Pending(kind) \cup {e},
             e \notin Waiting, Sent(e, req'[r]),
             e.type = "msg_push" <=> ok("push"), e.type = "msg_pull" <=> ok("pull")
      PROVE  Counter(n)' + Pushed(U)' - Pulled(U)'
               = Cardinality(AnsweredOn(n, "push"))' - Cardinality(AnsweredOn(n, "pull"))'
  <2>1. CASE req[r].name # n \/ e.type \notin {"msg_push", "msg_pull"}
    <3>1. e.name = req[r].name
      BY <1>2, StepOfOne DEF Sent, CreatedInv, AccountInv
    <3>2. U' = U
      BY <1>2, <2>1, <3>1 DEF Uncounted, CounterEvents, OfType
    <3>3. Pushed(U)' = Pushed(U) /\ Pulled(U)' = Pulled(U)
      BY <3>2 DEF Pushed, Pulled, MessagesOf, OfType
    <3>4. /\ AnsweredOn(n, "push")' = AnsweredOn(n, "push")
          /\ AnsweredOn(n, "pull")' = AnsweredOn(n, "pull")
      BY <1>2, <2>1, AnsweredNext
    <3> QED
      BY <1>c, <1>i, <3>3, <3>4
  <2>2. ASSUME NEW ty \in {"msg_push", "msg_pull"}, NEW op \in {"push", "pull"},
               ty = "msg_push" <=> op = "push", e.type = ty, req[r].name = n
        PROVE  /\ Cardinality(MessagesOf(U, ty))'
                     = Cardinality(MessagesOf(U, ty)) + Cardinality(req'[r].got)
               /\ Cardinality(AnsweredOn(n, op))'
                     = Cardinality(AnsweredOn(n, op)) + Cardinality(req'[r].got)
               /\ \A ot \in {"msg_push", "msg_pull"} \ {ty} :
                    MessagesOf(U, ot)' = MessagesOf(U, ot)
               /\ \A oo \in {"push", "pull"} \ {op} : AnsweredOn(n, oo)' = AnsweredOn(n, oo)
    <3>1. /\ e.name = n /\ e.msgs = req'[r].got /\ ok(op)
      BY <1>2, <2>2, StepOfOne DEF Sent, CreatedInv, AccountInv
    <3>2. U' = U \cup {e}
      BY <1>2, <2>2, <3>1 DEF Uncounted, CounterEvents, OfType
    <3>3. MessagesOf(U, ty)' = MessagesOf(U, ty) \cup req'[r].got
      BY <2>2, <3>1, <3>2 DEF MessagesOf, OfType
    <3>4. AnsweredOn(n, op)' = AnsweredOn(n, op) \cup req'[r].got
      BY <2>2, <3>1, AnsweredNext
    <3>5. AnsweredOn(n, op) \cap req'[r].got = {}
      BY <3>1, <1>d
    <3>6. MessagesOf(U, ty) \subseteq AnsweredOn(n, op)
      BY <2>2, MovesDiffer DEF MessagesOf, OfType, AnsweredOn
    <3>7. MessagesOf(U, ty) \cap req'[r].got = {}
      BY <3>5, <3>6
    <3>8. IsFiniteSet(MessagesOf(U, ty)) /\ IsFiniteSet(AnsweredOn(n, op))
      BY <1>t, MessagesOfType
    <3>9. Cardinality(MessagesOf(U, ty))'
             = Cardinality(MessagesOf(U, ty)) + Cardinality(req'[r].got)
      BY <1>f, <3>3, <3>7, <3>8, DisjointSize
    <3>10. Cardinality(AnsweredOn(n, op))'
             = Cardinality(AnsweredOn(n, op)) + Cardinality(req'[r].got)
      BY <1>f, <3>4, <3>5, <3>8, DisjointSize
    <3>11. \A ot \in {"msg_push", "msg_pull"} \ {ty} : MessagesOf(U, ot)' = MessagesOf(U, ot)
      BY <2>2, <3>2 DEF MessagesOf, OfType
    <3>12. ASSUME NEW oo \in {"push", "pull"} \ {op}
           PROVE  AnsweredOn(n, oo)' = AnsweredOn(n, oo)
      BY <3>1, AnsweredNext
    <3> QED
      BY <3>9, <3>10, <3>11, <3>12
  <2>3. Cardinality(req'[r].got) \in Nat
    BY <1>f, FS_CardinalityType
  <2>4. CASE e.type = "msg_push" /\ req[r].name = n
    <3>1. /\ Pushed(U)' = Pushed(U) + Cardinality(req'[r].got) /\ Pulled(U)' = Pulled(U)
          /\ Cardinality(AnsweredOn(n, "push"))'
               = Cardinality(AnsweredOn(n, "push")) + Cardinality(req'[r].got)
          /\ AnsweredOn(n, "pull")' = AnsweredOn(n, "pull")
      BY <2>2, <2>4 DEF Pushed, Pulled
    <3> QED
      BY <1>c, <1>i, <1>t, <2>3, <3>1
  <2>5. CASE e.type = "msg_pull" /\ req[r].name = n
    <3>1. /\ Pulled(U)' = Pulled(U) + Cardinality(req'[r].got) /\ Pushed(U)' = Pushed(U)
          /\ Cardinality(AnsweredOn(n, "pull"))'
               = Cardinality(AnsweredOn(n, "pull")) + Cardinality(req'[r].got)
          /\ AnsweredOn(n, "push")' = AnsweredOn(n, "push")
      BY <2>2, <2>5 DEF Pushed, Pulled
    <3> QED
      BY <1>c, <1>i, <1>t, <2>3, <3>1
  <2> QED
    BY <2>1, <2>4, <2>5
<1> QED
  BY <1>1, <1>2, AccountRequest DEF CreatedInv

\* An update of the counters counts its events, which are on their way no more.
LEMMA CountsApply ==
  ASSUME CreatedInv, MessagesInv, CountsAnswered, ApplyStats, NEW n \in Names
  PROVE  Counter(n)' + Pushed(Uncounted(n))' - Pulled(Uncounted(n))'
           = Counter(n) + Pushed(Uncounted(n)) - Pulled(Uncounted(n))
<1> DEFINE U == Uncounted(n)
<1>1. PICK u \in updates :
        /\ u.on = "queue"
        /\ queueDoc' = [queueDoc EXCEPT ![u.name] = Counted(queueDoc[u.name], u.events)]
        /\ updates' = updates \ {u}
        /\ UNCHANGED <<quota, store, unsent, statsQueue, buffer, req>>
  BY DEF ApplyStats
<1>2. /\ u.name \in Names /\ u.events = CounterEvents(u.events, u.name)
      /\ queueDoc \in [Names -> Docs \cup {NoDoc}]
  BY <1>1 DEF CreatedInv, AccountInv, Apart, TypeInv, TypeOK, Updates
<1>3. u.events \subseteq Pending("queue") /\ Pending("queue")' = Pending("queue") \ u.events
  BY <1>1, Executes DEF CreatedInv, AccountInv
<1>4. CASE u.name # n
  <2>1. U' = U
    BY <1>2, <1>3, <1>4 DEF Uncounted, CounterEvents, OfType
  <2>2. Pushed(U)' = Pushed(U) /\ Pulled(U)' = Pulled(U)
    BY <2>1 DEF Pushed, Pulled, MessagesOf, OfType
  <2>3. Counter(n)' = Counter(n)
    BY <1>1, <1>2, <1>4 DEF Counter
  <2> QED
    BY <2>2, <2>3
<1>5. CASE u.name = n
  <2> DEFINE E == u.events
             V == U \ E
  <2>1. E \subseteq U /\ U' = V
    BY <1>2, <1>3, <1>5 DEF Uncounted, CounterEvents, OfType
  <2>2. U \in SUBSET Events /\ Counter(n) \in Int
    BY CountedTypes
  <2>3. ASSUME NEW ty
        PROVE  /\ Cardinality(MessagesOf(U, ty)) = Cardinality(MessagesOf(V, ty))
                                                     + Cardinality(MessagesOf(E, ty))
               /\ Cardinality(MessagesOf(V, ty)) \in Nat /\ Cardinality(MessagesOf(E, ty)) \in Nat
    <3>1. MessagesOf(U, ty) = MessagesOf(V, ty) \cup MessagesOf(E, ty)
      BY <2>1 DEF MessagesOf, OfType
    <3>2. ASSUME NEW e \in V, NEW f \in E, e.type = ty, f.type = ty PROVE e.msgs \cap f.msgs = {}
      BY <2>1, <3>2, MovesDiffer
    <3>3. MessagesOf(V, ty) \cap MessagesOf(E, ty) = {}
      BY <3>2 DEF MessagesOf, OfType
    <3>4. V \in SUBSET Events /\ E \in SUBSET Events
      BY <2>1, <2>2
    <3> HIDE DEF E, V, U
    <3>5. IsFiniteSet(MessagesOf(V, ty)) /\ IsFiniteSet(MessagesOf(E, ty))
      BY <3>4, MessagesOfType
    <3> QED
      BY <3>1, <3>3, <3>5, DisjointSize
  <2>4. /\ Pushed(U) = Pushed(V) + Pushed(E) /\ Pulled(U) = Pulled(V) + Pulled(E)
        /\ Pushed(V) \in Nat /\ Pushed(E) \in Nat /\ Pulled(V) \in Nat /\ Pulled(E) \in Nat
    BY <2>3 DEF Pushed, Pulled
  <2>5. Pushed(U)' = Pushed(V) /\ Pulled(U)' = Pulled(V)
    BY <2>1 DEF Pushed, Pulled, MessagesOf, OfType
  <2>6. Counter(n)' = Counter(n) + (Pushed(E) - Pulled(E))
    <3>1. queueDoc'[n] = Counted(queueDoc[n], E)
      BY <1>1, <1>2, <1>5
    <3>2. CASE queueDoc[n] = NoDoc
      <4>1. ASSUME NEW e \in E PROVE e.msgs = {}
        <5>1. e.by \in Requests /\ req[e.by].name = n /\ e.msgs = req[e.by].got
          BY <2>1, MovesDiffer
        <5> QED
          BY <5>1, <3>2 DEF MessagesInv, Grounded, Stored
      <4>2. MessagesOf(E, "msg_push") = {} /\ MessagesOf(E, "msg_pull") = {}
        BY <4>1 DEF MessagesOf, OfType
      <4>3. Pushed(E) = 0 /\ Pulled(E) = 0
        BY <4>2, FS_EmptySet DEF Pushed, Pulled
      <4> QED
        BY <3>1, <3>2, <4>3 DEF Counted, Counter
    <3>3. CASE queueDoc[n] # NoDoc
      <4>1. queueDoc[n] \in Docs /\ queueDoc[n].messages_in_queue \in Int
        BY <1>2, <3>3 DEF Docs
      <4>2. E \in SUBSET Events
        BY <2>1, <2>2
      <4>3. queueDoc'[n] # NoDoc
        BY <3>1, <3>3, <4>1, <4>2, CountedType
      <4>4. queueDoc'[n].messages_in_queue
              = queueDoc[n].messages_in_queue + (Pushed(E) - Pulled(E))
        BY <3>1, <3>3, <4>1 DEF Counted, Docs
      <4> QED
        BY <3>3, <4>3, <4>4 DEF Counter
    <3> QED
      BY <3>2, <3>3
  <2> HIDE DEF E, V, U
  <2> QED
    BY <2>2, <2>4, <2>5, <2>6 DEF U
<1> QED
  BY <1>4, <1>5

LEMMA CountsNext ==
  ASSUME Ops \subseteq {"push", "pull"}, Provider # "rabbitmq", CreatedInv, MessagesInv,
         CountsAnswered, [Next]_vars
  PROVE  CountsAnswered'
<1>q. ASSUME UNCHANGED req,
             \A n \in Names : Counter(n)' + Pushed(Uncounted(n))' - Pulled(Uncounted(n))'
                                = Counter(n) + Pushed(Uncounted(n)) - Pulled(Uncounted(n))
      PROVE  CountsAnswered'
  <2>1. \A n \in Names, op \in {"push", "pull"} : AnsweredOn(n, op)' = AnsweredOn(n, op)
    BY <1>q DEF AnsweredOn
  <2> QED
    BY <1>q, <2>1 DEF CountsAnswered
<1>u. ASSUME NEW n \in Names, Uncounted(n)' = Uncounted(n)
      PROVE  Pushed(Uncounted(n))' = Pushed(Uncounted(n)) /\
               Pulled(Uncounted(n))' = Pulled(Uncounted(n))
  BY <1>u DEF Pushed, Pulled, MessagesOf, OfType
<1>1. ASSUME NEW r \in Requests, RequestStep(r) PROVE CountsAnswered'
  BY <1>1, CountsRequest DEF CountsAnswered
<1>2. CASE StoreEvent \/ WorkerStep
  <2>1. /\ UNCHANGED <<queueDoc, req>>
        /\ \A n \in Names : Uncounted(n)' = Uncounted(n)
    BY <1>2, Moves DEF CreatedInv, AccountInv, Uncounted
  <2>2. \A n \in Names : Counter(n)' = Counter(n)
    BY <2>1 DEF Counter
  <2> QED
    BY <2>1, <2>2, <1>q, <1>u
<1>3. CASE ApplyStats
  <2>1. UNCHANGED req
    BY <1>3 DEF ApplyStats
  <2> QED
    BY <2>1, <1>3, <1>q, CountsApply
<1>4. CASE ApplyQuota
  <2>1. PICK u \in updates :
          /\ u.on = "user" /\ updates' = updates \ {u}
          /\ UNCHANGED <<queueDoc, unsent, statsQueue, buffer, req>>
    BY <1>4 DEF ApplyQuota
  <2>2. Pending("queue")' = Pending("queue")
    BY <2>1, Executes DEF CreatedInv, AccountInv
  <2>3. \A n \in Names : Uncounted(n)' = Uncounted(n) /\ Counter(n)' = Counter(n)
    BY <2>1, <2>2 DEF Uncounted, CounterEvents, OfType, Counter
  <2> QED
    BY <2>1, <2>3, <1>q, <1>u
<1>5. CASE UNCHANGED vars
  <2>1. \A n \in Names : Uncounted(n)' = Uncounted(n) /\ Counter(n)' = Counter(n)
    BY <1>5 DEF vars, Uncounted, Pending, UpdatesOn, CounterEvents, OfType, Counter
  <2> QED
    BY <1>5, <2>1, <1>q, <1>u DEF vars
<1> QED
  BY <1>1, <1>2, <1>3, <1>4, <1>5 DEF Next, Apply

\* What a backend queue holds is what its pushes have handed over without what its
\* pulls have taken, whether they report it or not.
LEMMA HeldSize ==
  ASSUME CreatedInv, MessagesInv, NEW n \in Names
  PROVE  Cardinality(Held(n)) - Cardinality(Unreported(n, "push"))
             + Cardinality(Unreported(n, "pull"))
           = Cardinality(AnsweredOn(n, "push")) - Cardinality(AnsweredOn(n, "pull"))
<1> DEFINE A == AnsweredOn(n, "push")
           S == Unreported(n, "push")
           B == AnsweredOn(n, "pull")
           T == Unreported(n, "pull")
<1>t. ASSUME NEW r \in Requests
      PROVE  /\ Fits(r, req[r]) /\ req[r].op \in OpNames /\ req[r].name \in Names
             /\ req[r].got \subseteq Messages
  BY DEF CreatedInv, AccountInv, TypeInv, TypeOK, ReqStates, Labelled
<1>f. IsFiniteSet(A) /\ IsFiniteSet(B) /\ IsFiniteSet(S) /\ IsFiniteSet(T) /\ IsFiniteSet(Held(n))
  <2>1. S \subseteq Messages /\ T \subseteq Messages /\ Held(n) \subseteq Messages
    BY <1>t DEF Unreported, MessagesInv, HeldFrom
  <2> QED
    BY <2>1, MessagesFinite, FS_Subset, CountedTypes
<1>1. A \cap S = {}
  <2>1. ASSUME NEW q \in Requests, req[q].op = "push" PROVE req[q].got \subseteq {q} \X Nat
    BY <2>1, <1>t, QueueServiceAssumption DEF Fits
  <2> QED
    BY <2>1 DEF AnsweredOn, Unreported
<1>2. B \cap T = {}
  BY DEF AnsweredOn, Unreported, MessagesInv, TakenOnce
<1>3. A \cup S = Held(n) \cup (B \cup T)
  <2>1. ASSUME NEW m \in A \cup S PROVE m \in Held(n) \cup (B \cup T)
    <3>1. PICK r \in Requests : req[r].op = "push" /\ req[r].name = n /\ m \in req[r].got
      BY DEF AnsweredOn, Unreported
    <3>2. CASE m \in Held(n)
      BY <3>2
    <3>3. CASE \E q \in Requests : req[q].op = "pull" /\ m \in req[q].got
      <4>1. PICK q \in Requests : req[q].op = "pull" /\ m \in req[q].got
        BY <3>3
      <4>2. m[1] = r
        BY <1>t, <3>1 DEF Fits
      <4>3. req[q].name = n
        BY <3>1, <4>1, <4>2 DEF MessagesInv, TakenFrom
      <4> QED
        BY <4>1, <4>3 DEF AnsweredOn, Unreported
    <3> QED
      BY <3>1, <3>2, <3>3 DEF MessagesInv, HandedIsKept
  <2>2. ASSUME NEW m \in Held(n) \cup (B \cup T) PROVE m \in A \cup S
    <3>1. m \in Messages /\ req[m[1]].op = "push" /\ req[m[1]].name = n /\ m \in req[m[1]].got
      <4>1. CASE m \in Held(n)
        BY <4>1 DEF MessagesInv, HeldFrom
      <4>2. CASE m \in B \cup T
        <5>1. PICK q \in Requests : req[q].op = "pull" /\ req[q].name = n /\ m \in req[q].got
          BY <4>2 DEF AnsweredOn, Unreported
        <5> QED
          BY <5>1 DEF MessagesInv, TakenFrom
      <4> QED
        BY <2>2, <4>1, <4>2
    <3>2. m[1] \in Requests
      BY <3>1 DEF Messages
    <3> QED
      BY <3>1, <3>2 DEF AnsweredOn, Unreported
  <2> QED
    BY <2>1, <2>2
<1>4. Held(n) \cap (B \cup T) = {}
  <2>1. ASSUME NEW q \in Requests, req[q].op = "pull", req[q].name = n
        PROVE  req[q].got \cap Held(n) = {}
    BY <2>1 DEF MessagesInv, TakenFrom
  <2> QED
    BY <2>1 DEF AnsweredOn, Unreported
<1> HIDE DEF A, B, S, T
<1>5. /\ Cardinality(A \cup S) = Cardinality(A) + Cardinality(S)
      /\ Cardinality(B \cup T) = Cardinality(B) + Cardinality(T)
      /\ IsFiniteSet(B \cup T)
      /\ Cardinality(A) \in Nat /\ Cardinality(S) \in Nat
      /\ Cardinality(B) \in Nat /\ Cardinality(T) \in Nat
  BY <1>f, <1>1, <1>2, DisjointSize
<1>6. /\ Cardinality(A \cup S) = Cardinality(Held(n)) + Cardinality(B \cup T)
      /\ Cardinality(Held(n)) \in Nat
  BY <1>f, <1>3, <1>4, <1>5, DisjointSize
<1> QED
  BY <1>5, <1>6 DEF A, B, S, T

\* With pushes and pulls alone, which may fail at any point and create the queues they
\* push to, and a driver that reports a push that it cannot store, no message is counted
\* twice and none is missed: the counter of a queue and the events on their way to it
\* make up what the backend holds, corrected by what requests in progress, or stopped
\* by an error, have handed over or taken.
THEOREM CountersAccountHolds ==
  ASSUME Ops \subseteq {"push", "pull"}, Provider # "rabbitmq"
  PROVE  Spec => []CountersAccount
<1>1. Init => CountsAnswered
  <2> SUFFICES ASSUME Init, NEW n \in Names
               PROVE  Counter(n) + Pushed(Uncounted(n)) - Pulled(Uncounted(n))
                        = Cardinality(AnsweredOn(n, "push")) - Cardinality(AnsweredOn(n, "pull"))
    BY DEF CountsAnswered
  <2>1. Uncounted(n) = {}
    BY DEF Init, Uncounted, CounterEvents, OfType, Pending, UpdatesOn
  <2>2. Counter(n) = 0
    BY DEF Init, Counter
  <2>3. Pushed(Uncounted(n)) = 0 /\ Pulled(Uncounted(n)) = 0
    BY <2>1, FS_EmptySet DEF Pushed, Pulled, MessagesOf, OfType
  <2>4. AnsweredOn(n, "push") = {} /\ AnsweredOn(n, "pull") = {}
    BY FirstState DEF AnsweredOn
  <2> QED
    BY <2>2, <2>3, <2>4, FS_EmptySet
<1>2. CreatedInv /\ MessagesInv /\ CountsAnswered => CountersAccount
  <2> SUFFICES ASSUME CreatedInv, MessagesInv, CountsAnswered, NEW n \in Names,
                        queueDoc[n] # NoDoc
               PROVE  queueDoc[n].messages_in_queue + Pushed(Uncounted(n)) - Pulled(Uncounted(n))
                        = Cardinality(Held(n)) - Cardinality(Unreported(n, "push"))
                            + Cardinality(Unreported(n, "pull"))
    BY DEF CountersAccount, Uncounted
  <2> QED
    BY HeldSize DEF CountsAnswered, Counter
<1>3. CreatedInv /\ [Next]_vars => CreatedInv'
  BY CreatedNext
<1>4. CreatedInv /\ MessagesInv /\ [Next]_vars => MessagesInv'
  BY MessagesNext
<1>5. CreatedInv /\ MessagesInv /\ CountsAnswered /\ [Next]_vars => CountsAnswered'
  BY CountsNext
<1> QED
  BY <1>1, <1>2, <1>3, <1>4, <1>5, CreatedInit, MessagesInit, PTL DEF Spec

-----------------------------------------------------------------------------
(* When everything has come to an end. *)

\* Every call is answered, and no event and no update is on its way.
Settled ==
  /\ \A r \in Requests : At(r, "done")
  /\ unsent = {} /\ statsQueue = {} /\ buffer = {} /\ updates = {}

\* Nothing happens after that.
LEMMA SettledStays == Settled /\ [Next]_vars => UNCHANGED vars
<1> SUFFICES ASSUME Settled, Next PROVE FALSE
  OBVIOUS
<1>1. ASSUME NEW r \in Requests, RequestStep(r) PROVE FALSE
  <2>1. req[r].pc = "done"
    BY DEF Settled, At
  <2>2. ~ PushStep(r) /\ ~ EditStep(r) /\ ~ Rejects(r)
    BY <2>1 DEF PushStep, Reject, GateFind, GateUser, Send, SendFails, EditStep, EditFind,
                EditSave, Rejects, At
  <2>3. ~ CreateStep(r)
    BY <2>1 DEF CreateStep, GetFind, Upsert, UpsertFails, NoBackend, LoadCreated, ClientCreate,
                At
  <2>4. ~ PullStep(r) /\ ~ PurgeStep(r) /\ ~ DeleteStep(r)
    BY <2>1 DEF PullStep, PullFind, PullOne, PullReturn, PullThrows, PurgeStep, PurgeFind,
                PurgeSave, PurgeClient, DeleteStep, DeleteFind, DeleteRemove, DeleteClient, At
  <2> QED
    BY <1>1, <2>2, <2>3, <2>4 DEF RequestStep
<1>2. ~ StoreEvent /\ ~ WorkerStep /\ ~ Apply
  BY DEF Settled, StoreEvent, WorkerStep, WorkerPull, WorkerIdle, Apply, ApplyStats, ApplyQuota
<1> QED
  BY <1>1, <1>2 DEF Next

\* With pushes and pulls alone, and a driver that reports a push that it cannot store,
\* the counters and the quota are right as soon as every call is answered
\* and every event and update has gone through: that they converge takes nothing but an
\* end of the calls, the events and the updates.
THEOREM SettledCountersConverge ==
  ASSUME Ops \subseteq {"push", "pull"}, Provider # "rabbitmq"
  PROVE  Spec => [](Settled => CountersRight) /\ (<>Settled => CountersConverge)
<1>1. Settled /\ CountersAccount /\ QuotaAccounts /\ TypeOK => CountersRight
  <2> SUFFICES ASSUME Settled, CountersAccount, QuotaAccounts, TypeOK PROVE CountersRight
    OBVIOUS
  <2>1. Pending("queue") = {} /\ Pending("user") = {}
    BY DEF Settled, Pending, UpdatesOn
  <2>2. \A S : S = {} => Pushed(S) = 0 /\ Pulled(S) = 0
    BY FS_EmptySet DEF Pushed, Pulled, MessagesOf, OfType
  <2>3. Pushed(Pending("user")) = 0
    BY <2>1, <2>2
  <2>4. quota.messages_left = InitialMessages - Cardinality(Accepted)
    <3>1. quota.messages_left \in Int
      BY DEF TypeOK
    <3> QED
      BY <2>3, <3>1 DEF QuotaAccounts
  <2>5. ASSUME NEW n \in Names, queueDoc[n] # NoDoc
        PROVE  queueDoc[n].messages_in_queue
                 = Cardinality(Held(n)) - Cardinality(Unreported(n, "push"))
                     + Cardinality(Unreported(n, "pull"))
    <3>1. CounterEvents(Pending("queue"), n) = {}
      BY <2>1 DEF CounterEvents, OfType
    <3>4. /\ Pushed(CounterEvents(Pending("queue"), n)) = 0
          /\ Pulled(CounterEvents(Pending("queue"), n)) = 0
      BY <2>2, <3>1
    <3>5. queueDoc[n].messages_in_queue \in Int
      BY <2>5 DEF TypeOK, Docs
    <3>6. /\ Cardinality(Held(n)) \in Int
          /\ Cardinality(Unreported(n, "push")) \in Int
          /\ Cardinality(Unreported(n, "pull")) \in Int
      <4>1. /\ Held(n) \subseteq Messages
            /\ Unreported(n, "push") \subseteq Messages
            /\ Unreported(n, "pull") \subseteq Messages
        BY DEF TypeOK, ReqStates, Held, Unreported
      <4> QED
        BY <4>1, MessagesFinite, FS_Subset, FS_CardinalityType
    <3> QED
      BY <2>5, <3>4, <3>5, <3>6 DEF CountersAccount
  <2> QED
    BY <2>4, <2>5 DEF CountersRight
<1>2. Settled /\ CountersRight /\ [Next]_vars => (Settled /\ CountersRight)'
  <2>1. Settled /\ CountersRight /\ UNCHANGED vars => (Settled /\ CountersRight)'
    BY DEF vars, Settled, At, CountersRight, Held, Unreported, Accepted
  <2> QED
    BY <2>1, SettledStays
<1> QED
  BY <1>1, <1>2, CountersAccountHolds, QuotaAccountsHolds, TypeCorrect, PTL
     DEF Spec, CountersConverge
=============================================================================
