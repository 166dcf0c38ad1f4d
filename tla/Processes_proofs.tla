--------------------------- MODULE Processes_proofs ---------------------------
(***************************************************************************)
(* Proofs about the processes around the queue operations, for any number   *)
(* of requests, streams, messages and passes: the HTTP service leaves no    *)
(* request without an answer, a subscriber that was stopped takes one       *)
(* message at most, the log of messages keeps what was written to it, an    *)
(* alarm is up for a reason, the charts of the usage log show what was      *)
(* counted, and the verdict of a load test is true.  The part on induction  *)
(* and sums states, for functions instead of operators, what                *)
(* SumFunctionOnSet returns.                                                *)
(***************************************************************************)
EXTENDS ApiProcess, GrpcServer, MessageLog, Notifications, UsageLog, LoadTest,
        FiniteSetTheorems, TLAPS

-----------------------------------------------------------------------------
(* The HTTP service. *)

\* What an answer says about the handler and the connection of a request.
RequestAnswered(r) ==
  /\ http[r].reply = "handler" => http[r].handler = "ended"
  /\ http[r].handler = "running" => http[r].conn \in {"open", "closed"}
  /\ http[r].conn = "closed" => http[r].reply # "none"
  /\ http[r].conn = "none" => http[r].reply = "none" /\ http[r].handler = "none"

\* The server listens until it is asked to stop, and the database is closed after the
\* last connection.
Draining ==
  /\ closing = "mongo" => Connections = {}
  /\ exitCode # "none" => closing = "mongo"
  /\ exitCode = "0" => signals = 1

HttpStates == [conn: {"none", "open", "closed", "refused"},
               handler: {"none", "running", "ended", "failed"},
               reply: {"none", "handler", "timeout", "aborted"}]

ApiInv == ApiTypeOK /\ (\A r \in HttpRequests : RequestAnswered(r)) /\ Draining

LEMMA ApiInvInit == ApiInit => ApiInv
BY ApiAssumption DEF ApiInit, ApiInv, ApiTypeOK, RequestAnswered, Draining, Connections

\* A step that changes no request.
LEMMA HttpAlone ==
  ASSUME ApiInv, UNCHANGED http
  PROVE  \A r \in HttpRequests : RequestAnswered(r)'
BY DEF ApiInv, RequestAnswered

\* A step of one request, which opens no connection after the server was closed.
LEMMA HttpMoves ==
  ASSUME ApiInv, NEW r \in HttpRequests, NEW h \in HttpStates,
         http' = [http EXCEPT ![r] = h], UNCHANGED <<signals, closing, exitCode>>,
         boot' = boot,
         h.reply = "handler" => h.handler = "ended",
         h.handler = "running" => h.conn \in {"open", "closed"},
         h.conn = "closed" => h.reply # "none",
         h.conn = "none" => h.reply = "none" /\ h.handler = "none",
         h.conn = "open" => http[r].conn = "open" \/ closing = "no"
  PROVE  ApiInv'
<1>1. http'[r] = h /\ \A q \in HttpRequests \ {r} : http'[q] = http[q]
  BY DEF ApiInv, ApiTypeOK
<1>2. ApiTypeOK'
  BY DEF ApiInv, ApiTypeOK, HttpStates
<1>3. \A q \in HttpRequests : RequestAnswered(q)'
  BY <1>1 DEF ApiInv, RequestAnswered
<1>4. Draining'
  BY <1>1 DEF ApiInv, Draining, Connections
<1> QED
  BY <1>2, <1>3, <1>4 DEF ApiInv

LEMMA RequestStepsKeep ==
  ASSUME ApiInv, NEW r \in HttpRequests,
         Accept(r) \/ Answer(r) \/ Reject(r) \/ TimeOut(r) \/ Disconnect(r) \/ Abort(r)
  PROVE  ApiInv'
<1>1. http[r] \in HttpStates /\ RequestAnswered(r)
  BY DEF ApiInv, ApiTypeOK, HttpStates
<1>2. CASE Accept(r)
  <2> DEFINE n == IF closing = "no" THEN [http[r] EXCEPT !.conn = "open", !.handler = "running"]
                  ELSE [http[r] EXCEPT !.conn = "refused"]
  <2>1. /\ n \in HttpStates /\ n.reply = http[r].reply
        /\ closing = "no" => n.conn = "open" /\ n.handler = "running"
        /\ closing # "no" => n.conn = "refused" /\ n.handler = http[r].handler
    BY <1>1 DEF HttpStates
  <2>2. http' = [http EXCEPT ![r] = n]
    BY <1>2 DEF Accept
  <2> HIDE DEF n
  <2> QED
    BY <1>1, <1>2, <2>1, <2>2, HttpMoves DEF Accept, RequestAnswered, shutdown
<1>3. CASE Answer(r)
  <2> DEFINE n == [http[r] EXCEPT !.handler = "ended",
                             !.reply = IF @ = "none" THEN "handler" ELSE @]
  <2>1. n \in HttpStates /\ n.handler = "ended" /\ n.conn = http[r].conn
        /\ n.reply = IF http[r].reply = "none" THEN "handler" ELSE http[r].reply
    BY <1>1 DEF HttpStates
  <2>2. http' = [http EXCEPT ![r] = n]
    BY <1>1, <1>3 DEF Answer
  <2> HIDE DEF n
  <2> QED
    BY <1>1, <1>3, <2>1, <2>2, HttpMoves DEF Answer, RequestAnswered, shutdown
<1>4. CASE Reject(r)
  <2> DEFINE n == [http[r] EXCEPT !.handler = "failed"]
  <2>1. n \in HttpStates /\ n.handler = "failed"
        /\ n.conn = http[r].conn /\ n.reply = http[r].reply
    BY <1>1 DEF HttpStates
  <2>2. http' = [http EXCEPT ![r] = n]
    BY <1>1, <1>4 DEF Reject
  <2> HIDE DEF n
  <2> QED
    BY <1>1, <1>4, <2>1, <2>2, HttpMoves DEF Reject, RequestAnswered, shutdown
<1>5. CASE TimeOut(r)
  <2> DEFINE n == [http[r] EXCEPT !.reply = "timeout"]
  <2>1. n \in HttpStates /\ n.reply = "timeout"
        /\ n.conn = http[r].conn /\ n.handler = http[r].handler
    BY <1>1 DEF HttpStates
  <2>2. http' = [http EXCEPT ![r] = n]
    BY <1>1, <1>5 DEF TimeOut
  <2> HIDE DEF n
  <2> QED
    BY <1>1, <1>5, <2>1, <2>2, HttpMoves DEF TimeOut, RequestAnswered, shutdown
<1>6. CASE Disconnect(r)
  <2> DEFINE n == [http[r] EXCEPT !.conn = "closed"]
  <2>1. n \in HttpStates /\ n.conn = "closed"
        /\ n.handler = http[r].handler /\ n.reply = http[r].reply
    BY <1>1 DEF HttpStates
  <2>2. http' = [http EXCEPT ![r] = n]
    BY <1>1, <1>6 DEF Disconnect
  <2> HIDE DEF n
  <2> QED
    BY <1>1, <1>6, <2>1, <2>2, HttpMoves DEF Disconnect, RequestAnswered, shutdown
<1>7. CASE Abort(r)
  <2> DEFINE n == [http[r] EXCEPT !.conn = "closed", !.reply = "aborted"]
  <2>1. n \in HttpStates /\ n.conn = "closed"
        /\ n.reply = "aborted" /\ n.handler = http[r].handler
    BY <1>1 DEF HttpStates
  <2>2. http' = [http EXCEPT ![r] = n]
    BY <1>1, <1>7 DEF Abort
  <2> HIDE DEF n
  <2> QED
    BY <1>1, <1>7, <2>1, <2>2, HttpMoves DEF Abort, RequestAnswered, shutdown
<1> QED
  BY <1>2, <1>3, <1>4, <1>5, <1>6, <1>7

LEMMA ApiInvNext == ApiInv /\ [ApiNext]_apiVars => ApiInv'
<1> SUFFICES ASSUME ApiInv, [ApiNext]_apiVars PROVE ApiInv'
  OBVIOUS
<1>1. CASE UNCHANGED apiVars
  BY <1>1 DEF apiVars, ApiInv, ApiTypeOK, RequestAnswered, Draining, Connections
<1>2. CASE InitQueueProvider \/ MongoConnected
  BY <1>2, HttpAlone
     DEF InitQueueProvider, MongoConnected, shutdown, ApiInv, ApiTypeOK, Draining, Connections
<1>3. CASE Signal
  <2>1. signals' \in 0..MaxSignals
    BY <1>3, ApiAssumption DEF Signal, ApiInv, ApiTypeOK
  <2> QED
    BY <1>3, <2>1, HttpAlone
       DEF Signal, Running, ApiInv, ApiTypeOK, Draining, Connections
<1>4. CASE Drained
  BY <1>4, HttpAlone DEF Drained, Running, ApiInv, ApiTypeOK, Draining, Connections
<1>5. CASE ClosedAgain \/ MongoClosed
  BY <1>5, HttpAlone
     DEF ClosedAgain, MongoClosed, Running, ApiInv, ApiTypeOK, Draining, Connections
<1>6. ASSUME NEW r \in HttpRequests,
             Accept(r) \/ Answer(r) \/ Reject(r) \/ TimeOut(r) \/ Disconnect(r) \/ Abort(r)
      PROVE  ApiInv'
  BY <1>6, RequestStepsKeep
<1> QED
  BY <1>1, <1>2, <1>3, <1>4, <1>5, <1>6 DEF ApiNext

\* Whenever the process of app.js exits, each request that it accepted was answered or
\* given up by its client, and only a single SIGINT is followed by success.
THEOREM ServedBeforeExitHolds == ApiSpec => []ServedBeforeExit
<1>1. ApiInv => ServedBeforeExit
  BY DEF ApiInv, ApiTypeOK, RequestAnswered, Draining, Connections, ServedBeforeExit
<1> QED
  BY <1>1, ApiInvInit, ApiInvNext, PTL DEF ApiSpec

-----------------------------------------------------------------------------
(* The gRPC service. *)

\* A subscriber that was stopped and has not taken a message yet may take one; having
\* taken it, the subscriber writes it and leaves its loop.
StopsAfterOne(s) ==
  /\ afterStop[s] \in {0, 1}
  /\ afterStop[s] = 1 => stream[s].stopped /\ stream[s].pc \in {"write", "ended"}

\* No more messages are in the queue than were pushed.
Pushed == {c \in UnaryCallers : unary[c].op = "push" /\ unary[c].pc = "done"}

GrpcInv == /\ GrpcTypeOK
           /\ \A s \in Streams : StopsAfterOne(s)
           /\ inQueue <= Cardinality(Pushed)

PushedBounded == IsFiniteSet(Pushed) /\ Cardinality(Pushed) \in 0..UnaryCalls

LEMMA PushedFinite == PushedBounded
<1>1. UnaryCalls \in Nat
  BY GrpcAssumption
<1>2. IsFiniteSet(UnaryCallers) /\ Cardinality(UnaryCallers) = UnaryCalls
  BY <1>1, FS_Interval DEF UnaryCallers
<1>3. Pushed \subseteq UnaryCallers
  BY DEF Pushed
<1>4. IsFiniteSet(Pushed) /\ Cardinality(Pushed) <= UnaryCalls
  BY <1>2, <1>3, FS_Subset
<1>5. Cardinality(Pushed) \in Nat
  BY <1>4, FS_CardinalityType
<1> QED
  BY <1>1, <1>4, <1>5 DEF PushedBounded

LEMMA GrpcInvInit == GrpcInit => GrpcInv
<1> SUFFICES ASSUME GrpcInit PROVE GrpcInv
  OBVIOUS
<1>1. inQueue \in 0..UnaryCalls /\ inQueue <= Cardinality(Pushed)
  BY PushedFinite, GrpcAssumption DEF PushedBounded, GrpcInit
<1> QED
  BY <1>1, GrpcAssumption
     DEF GrpcInit, GrpcInv, GrpcTypeOK, StreamStates, UnaryStates, StopsAfterOne

\* A step of one stream, which takes as many messages as afterStop shows.
LEMMA StreamMoves ==
  ASSUME GrpcInv, NEW s \in Streams, NEW r \in StreamStates, NEW n \in {0, 1},
         stream' = [stream EXCEPT ![s] = r], afterStop' = [afterStop EXCEPT ![s] = n],
         n = 1 => r.stopped /\ r.pc \in {"write", "ended"},
         UNCHANGED <<unary, queueThere, removals>>,
         inQueue' \in Nat, inQueue' <= inQueue,
         pullFailures' \in 0..MaxPullFailures
  PROVE  GrpcInv'
<1>1. /\ stream' \in [Streams -> StreamStates] /\ stream'[s] = r
      /\ afterStop' \in [Streams -> Nat] /\ afterStop'[s] = n
      /\ \A q \in Streams \ {s} : stream'[q] = stream[q] /\ afterStop'[q] = afterStop[q]
  BY DEF GrpcInv, GrpcTypeOK
<1>2. Pushed' = Pushed
  BY DEF Pushed
<1>3. inQueue' \in 0..UnaryCalls /\ inQueue' <= Cardinality(Pushed')
  BY <1>2, PushedFinite, GrpcAssumption DEF PushedBounded, GrpcInv, GrpcTypeOK
<1>4. GrpcTypeOK'
  BY <1>1, <1>3 DEF GrpcInv, GrpcTypeOK
<1>5. \A q \in Streams : StopsAfterOne(q)'
  BY <1>1 DEF GrpcInv, StopsAfterOne
<1> QED
  BY <1>3, <1>4, <1>5 DEF GrpcInv

LEMMA StreamTyped ==
  ASSUME GrpcInv, NEW s \in Streams
  PROVE  /\ stream[s] \in StreamStates /\ afterStop[s] \in {0, 1} /\ StopsAfterOne(s)
         /\ inQueue \in Nat /\ pullFailures \in 0..MaxPullFailures
         /\ stream \in [Streams -> StreamStates] /\ afterStop \in [Streams -> Nat]
BY DEF GrpcInv, GrpcTypeOK, StopsAfterOne

\* Steps that take nothing and go to another place of the loop.
LEMMA StreamGoesKeeps ==
  ASSUME GrpcInv, NEW s \in Streams,
         NEW l \in {"queue", "find", "take", "nap", "rejected", "ended", "killed"},
         StreamGoes(s, l), stream[s].pc \notin {"write", "ended"},
         UNCHANGED <<afterStop, unary, inQueue, queueThere, removals>>,
         pullFailures' \in 0..MaxPullFailures
  PROVE  GrpcInv'
<1> DEFINE r == [stream[s] EXCEPT !.pc = l]
<1>1. r \in StreamStates
  BY StreamTyped DEF StreamStates
<1>2. stream' = [stream EXCEPT ![s] = r]
  BY StreamTyped DEF StreamGoes
<1>3. afterStop[s] = 0 /\ afterStop' = [afterStop EXCEPT ![s] = 0]
  BY StreamTyped DEF StopsAfterOne
<1>4. inQueue' \in Nat /\ inQueue' <= inQueue
  BY StreamTyped
<1> DEFINE n == 0
<1>5. n \in {0, 1} /\ n # 1
  OBVIOUS
<1>6. afterStop' = [afterStop EXCEPT ![s] = n]
  BY <1>3
<1> HIDE DEF r, n
<1> QED
  BY <1>1, <1>2, <1>4, <1>5, <1>6, StreamMoves

LEMMA StreamStepsKeep ==
  ASSUME GrpcInv, NEW s \in Streams,
         \/ Subscribe(s) \/ SetupQueue(s) \/ FindQueueOfStream(s) \/ TakeForStream(s)
         \/ WriteToStream(s) \/ Nap(s) \/ PullThrows(s) \/ StreamError(s) \/ ClientGoes(s)
  PROVE  GrpcInv'
<1>1. CASE Subscribe(s) \/ SetupQueue(s) \/ FindQueueOfStream(s) \/ Nap(s)
  <2>1. /\ UNCHANGED <<afterStop, unary, inQueue, queueThere, removals>>
        /\ pullFailures' \in 0..MaxPullFailures
        /\ stream[s].pc \notin {"write", "ended"}
    BY <1>1, StreamTyped
       DEF Subscribe, SetupQueue, FindQueueOfStream, Nap, QueueAlone, IsNext, StreamAt
  <2>2. \E l \in {"queue", "find", "take", "nap", "rejected", "ended", "killed"} :
          StreamGoes(s, l)
    BY <1>1 DEF Subscribe, SetupQueue, FindQueueOfStream, Nap, LoopsTo
  <2> QED
    BY <2>1, <2>2, StreamGoesKeeps
<1>2. CASE PullThrows(s)
  <2>1. pullFailures' \in 0..MaxPullFailures
    BY <1>2, StreamTyped, GrpcAssumption DEF PullThrows
  <2> QED
    BY <1>2, <2>1, StreamGoesKeeps DEF PullThrows, StreamAt
<1>3. CASE TakeForStream(s)
  <2>1. CASE inQueue = 0 /\ StreamGoes(s, "nap") /\ UNCHANGED <<inQueue, afterStop>>
    BY <1>3, <2>1, StreamGoesKeeps, StreamTyped DEF TakeForStream, StreamAt
  <2>2. CASE /\ inQueue > 0 /\ inQueue' = inQueue - 1
             /\ StreamGoes(s, "write")
             /\ afterStop' = [afterStop EXCEPT ![s] = IF stream[s].stopped THEN @ + 1 ELSE @]
    <3> DEFINE r == [stream[s] EXCEPT !.pc = "write"]
               n == IF stream[s].stopped THEN 1 ELSE 0
    <3>1. r \in StreamStates /\ r.pc = "write" /\ r.stopped = stream[s].stopped
      BY StreamTyped DEF StreamStates
    <3>2. stream' = [stream EXCEPT ![s] = r]
      BY <2>2, StreamTyped DEF StreamGoes
    <3>3. afterStop[s] = 0
      BY <1>3, StreamTyped DEF TakeForStream, StreamAt, StopsAfterOne
    <3>4. afterStop' = [afterStop EXCEPT ![s] = n] /\ n \in {0, 1}
      BY <2>2, <3>3, StreamTyped
    <3>5. inQueue' \in Nat /\ inQueue' <= inQueue
      BY <2>2, StreamTyped
    <3>6. n = 1 => r.stopped
      BY <3>1
    <3>7. UNCHANGED <<unary, queueThere, removals>> /\ pullFailures' \in 0..MaxPullFailures
      BY <1>3, StreamTyped DEF TakeForStream
    <3> HIDE DEF r, n
    <3> QED
      BY <3>1, <3>2, <3>4, <3>5, <3>6, <3>7, StreamMoves
  <2> QED
    BY <1>3, <2>1, <2>2 DEF TakeForStream
<1>4. CASE WriteToStream(s)
  <2> DEFINE f == (stream[s].failing \/ ~ stream[s].present)
             r == [stream[s] EXCEPT !.pc = LoopsTo(s), !.failing = f]
  <2>1. f \in BOOLEAN /\ LoopsTo(s) \in {"ended", "find"}
        /\ (stream[s].stopped => LoopsTo(s) = "ended")
    BY DEF LoopsTo
  <2>2. stream' = [stream EXCEPT ![s] = r]
    BY <1>4, StreamTyped DEF WriteToStream, StreamStates
  <2>3. r \in StreamStates /\ r.pc = LoopsTo(s) /\ r.stopped = stream[s].stopped
    <3> HIDE DEF f
    <3> QED
      BY <2>1, StreamTyped DEF StreamStates
  <2>4. afterStop' = [afterStop EXCEPT ![s] = afterStop[s]]
    BY <1>4, StreamTyped DEF WriteToStream
  <2>5. /\ UNCHANGED <<unary, queueThere, removals>> /\ pullFailures' \in 0..MaxPullFailures
        /\ inQueue' \in Nat /\ inQueue' <= inQueue
    BY <1>4, StreamTyped DEF WriteToStream, QueueAlone
  <2> HIDE DEF f, r
  <2>6. afterStop[s] = 1 => r.stopped /\ r.pc \in {"write", "ended"}
    BY <2>1, <2>3, StreamTyped DEF StopsAfterOne
  <2> QED
    BY <2>2, <2>3, <2>4, <2>5, <2>6, StreamTyped, StreamMoves
<1>5. CASE StreamError(s) \/ ClientGoes(s)
  <2> DEFINE r == IF StreamError(s) THEN [stream[s] EXCEPT !.stopped = TRUE]
                  ELSE [stream[s] EXCEPT !.present = FALSE]
  <2>1. stream' = [stream EXCEPT ![s] = r]
    BY <1>5, StreamTyped DEF StreamError, ClientGoes
  <2>2. /\ r \in StreamStates /\ r.pc = stream[s].pc
        /\ (stream[s].stopped => r.stopped)
    <3>1. CASE StreamError(s)
      BY <3>1, StreamTyped DEF StreamStates
    <3>2. CASE ~ StreamError(s)
      BY <3>2, StreamTyped DEF StreamStates
    <3> QED
      BY <3>1, <3>2
  <2>3. afterStop' = [afterStop EXCEPT ![s] = afterStop[s]]
    BY <1>5, StreamTyped DEF StreamError, ClientGoes
  <2>4. /\ UNCHANGED <<unary, queueThere, removals>> /\ pullFailures' \in 0..MaxPullFailures
        /\ inQueue' \in Nat /\ inQueue' <= inQueue
    BY <1>5, StreamTyped DEF StreamError, ClientGoes, QueueAlone
  <2> HIDE DEF r
  <2>5. afterStop[s] = 1 => r.stopped /\ r.pc \in {"write", "ended"}
    BY <2>2, StreamTyped DEF StopsAfterOne
  <2> QED
    BY <2>1, <2>2, <2>3, <2>4, <2>5, StreamTyped, StreamMoves
<1> QED
  BY <1>1, <1>2, <1>3, <1>4, <1>5

\* Steps that leave the streams alone.
LEMMA StreamsRest ==
  ASSUME GrpcInv, StreamsAlone
  PROVE  \A s \in Streams : StopsAfterOne(s)'
BY DEF GrpcInv, StreamsAlone, StopsAfterOne

\* Single calls that push nothing.
LEMMA UnaryMoves ==
  ASSUME GrpcInv, NEW c \in UnaryCallers, NEW r \in UnaryStates, UnaryStep(c, r), StreamsAlone,
         UNCHANGED <<queueThere, pullFailures, removals>>,
         c \notin Pushed, ~ (r.op = "push" /\ r.pc = "done"),
         inQueue' \in Nat, inQueue' <= inQueue
  PROVE  GrpcInv'
<1>1. /\ unary' \in [UnaryCallers -> UnaryStates] /\ unary'[c] = r
      /\ \A d \in UnaryCallers \ {c} : unary'[d] = unary[d]
  BY DEF GrpcInv, GrpcTypeOK, UnaryStep
<1>2. Pushed' = Pushed
  BY <1>1 DEF Pushed
<1>3. inQueue' \in 0..UnaryCalls /\ inQueue' <= Cardinality(Pushed')
  BY <1>2, PushedFinite, GrpcAssumption DEF PushedBounded, GrpcInv, GrpcTypeOK
<1>4. GrpcTypeOK'
  BY <1>1, <1>3 DEF GrpcInv, GrpcTypeOK, StreamsAlone
<1> QED
  BY <1>3, <1>4, StreamsRest DEF GrpcInv

LEMMA UnaryTyped ==
  ASSUME GrpcInv, NEW c \in UnaryCallers
  PROVE  unary[c] \in UnaryStates /\ unary \in [UnaryCallers -> UnaryStates] /\ inQueue \in Nat
BY DEF GrpcInv, GrpcTypeOK

LEMMA UnaryStepsKeep ==
  ASSUME GrpcInv, NEW c \in UnaryCallers,
         \/ \E o \in {"push", "pull"} : UnaryBegin(c, o)
         \/ UnaryFind(c) \/ UnaryTake(c)
  PROVE  GrpcInv'
<1>1. ASSUME NEW o \in {"push", "pull"}, UnaryBegin(c, o)
      PROVE  GrpcInv'
  <2> DEFINE l == IF o = "push" THEN "send" ELSE "find"
             r == [unary[c] EXCEPT !.op = o, !.pc = l]
  <2>1. r \in UnaryStates /\ r.op = o /\ r.pc = l
    BY UnaryTyped DEF UnaryStates
  <2>2. UnaryStep(c, r) /\ StreamsAlone /\ UNCHANGED <<queueThere, pullFailures, removals>>
        /\ inQueue' = inQueue
    BY <1>1 DEF UnaryBegin, QueueAlone
  <2>3. c \notin Pushed
    BY <1>1 DEF UnaryBegin, IsNext, Pushed
  <2>4. l # "done"
    OBVIOUS
  <2> HIDE DEF r, l
  <2> QED
    BY <2>1, <2>2, <2>3, <2>4, UnaryTyped, UnaryMoves
<1>2. CASE UnaryFind(c)
  <2> DEFINE r == IF queueThere THEN GoesTo(unary[c], "take") ELSE Ends(unary[c], "failed")
  <2>1. unary[c].op = "pull" /\ UnaryStep(c, r) /\ StreamsAlone
        /\ UNCHANGED <<queueThere, pullFailures, removals>> /\ inQueue' = inQueue
    BY <1>2 DEF UnaryFind, QueueAlone, InProgress
  <2>2. r \in UnaryStates /\ r.op = "pull"
    BY <2>1, UnaryTyped DEF UnaryStates, GoesTo, Ends
  <2>3. c \notin Pushed
    BY <2>1 DEF Pushed
  <2> HIDE DEF r
  <2> QED
    BY <2>1, <2>2, <2>3, UnaryTyped, UnaryMoves
<1>3. CASE UnaryTake(c)
  <2> DEFINE r == Ends(unary[c], "ok")
  <2>1. unary[c].op = "pull" /\ UnaryStep(c, r) /\ StreamsAlone
        /\ UNCHANGED <<queueThere, pullFailures, removals>>
    BY <1>3 DEF UnaryTake, InProgress
  <2>2. inQueue' \in Nat /\ inQueue' <= inQueue
    BY <1>3, UnaryTyped DEF UnaryTake
  <2>3. r \in UnaryStates /\ r.op = "pull"
    BY <2>1, UnaryTyped DEF UnaryStates, Ends
  <2>4. c \notin Pushed
    BY <2>1 DEF Pushed
  <2> HIDE DEF r
  <2> QED
    BY <2>1, <2>2, <2>3, <2>4, UnaryMoves
<1> QED
  BY <1>1, <1>2, <1>3

LEMMA UnaryPushKeeps ==
  ASSUME GrpcInv, NEW c \in UnaryCallers, UnaryPush(c)
  PROVE  GrpcInv'
<1> DEFINE r == Ends(unary[c], "ok")
<1>1. /\ unary[c].op = "push" /\ unary[c].pc = "send" /\ UnaryStep(c, r) /\ StreamsAlone
      /\ UNCHANGED <<pullFailures, removals>> /\ queueThere' = TRUE
      /\ inQueue' = inQueue + 1
  BY DEF UnaryPush, InProgress
<1>2. r \in UnaryStates /\ r.op = "push" /\ r.pc = "done"
  BY <1>1, UnaryTyped DEF UnaryStates, Ends
<1> HIDE DEF r
<1>3. /\ unary' \in [UnaryCallers -> UnaryStates] /\ unary'[c] = r
      /\ \A d \in UnaryCallers \ {c} : unary'[d] = unary[d]
  BY <1>1, <1>2 DEF GrpcInv, GrpcTypeOK, UnaryStep
<1>4. Pushed' = Pushed \cup {c} /\ c \notin Pushed
  BY <1>1, <1>2, <1>3 DEF Pushed
<1>5. Cardinality(Pushed') = Cardinality(Pushed) + 1
  BY <1>4, PushedFinite, FS_AddElement DEF PushedBounded
<1>6. PushedBounded'
  BY PushedFinite, PTL
<1>7. inQueue' \in 0..UnaryCalls /\ inQueue' <= Cardinality(Pushed')
  BY <1>1, <1>5, <1>6, PushedFinite, GrpcAssumption DEF PushedBounded, GrpcInv, GrpcTypeOK
<1>8. GrpcTypeOK'
  BY <1>1, <1>3, <1>7 DEF GrpcInv, GrpcTypeOK, StreamsAlone
<1> QED
  BY <1>1, <1>7, <1>8, StreamsRest DEF GrpcInv

LEMMA GrpcInvNext == GrpcInv /\ [GrpcNext]_grpcVars => GrpcInv'
<1> SUFFICES ASSUME GrpcInv, [GrpcNext]_grpcVars PROVE GrpcInv'
  OBVIOUS
<1>1. CASE UNCHANGED grpcVars
  BY <1>1 DEF grpcVars, GrpcInv, GrpcTypeOK, StopsAfterOne, Pushed
<1>2. ASSUME NEW s \in Streams,
             Subscribe(s) \/ StreamStep(s) \/ PullThrows(s) \/ StreamError(s) \/ ClientGoes(s)
      PROVE  GrpcInv'
  BY <1>2, StreamStepsKeep DEF StreamStep
<1>3. ASSUME NEW c \in UnaryCallers,
             \/ \E o \in {"push", "pull"} : UnaryBegin(c, o)
             \/ UnaryPush(c) \/ UnaryFind(c) \/ UnaryTake(c)
      PROVE  GrpcInv'
  BY <1>3, UnaryStepsKeep, UnaryPushKeeps
<1>4. CASE QueueRemoval
  <2>1. Pushed' = Pushed /\ removals' \in 0..MaxRemovals
    BY <1>4, GrpcAssumption DEF QueueRemoval, Pushed, GrpcInv, GrpcTypeOK
  <2>2. inQueue' \in 0..UnaryCalls /\ inQueue' <= Cardinality(Pushed')
    BY <1>4, <2>1, PushedFinite, GrpcAssumption DEF PushedBounded, QueueRemoval
  <2>3. GrpcTypeOK'
    BY <1>4, <2>1, <2>2 DEF QueueRemoval, GrpcInv, GrpcTypeOK, StreamsAlone
  <2> QED
    BY <1>4, <2>2, <2>3, StreamsRest DEF QueueRemoval, GrpcInv
<1> QED
  BY <1>1, <1>2, <1>3, <1>4 DEF GrpcNext

\* The server of proto/server.js never counts below zero or above what was pushed.
THEOREM GrpcTypeCorrect == GrpcSpec => []GrpcTypeOK
<1>1. GrpcInv => GrpcTypeOK
  BY DEF GrpcInv
<1> QED
  BY <1>1, GrpcInvInit, GrpcInvNext, PTL DEF GrpcSpec

\* Whatever other subscribers and calls do, a subscriber of proto/server.js that has
\* learned that its client is gone takes one message more at most.
THEOREM StoppedTakesOneHolds == GrpcSpec => []StoppedTakesOne
<1>1. GrpcInv => StoppedTakesOne
  BY DEF GrpcInv, StopsAfterOne, StoppedTakesOne
<1> QED
  BY <1>1, GrpcInvInit, GrpcInvNext, PTL DEF GrpcSpec

-----------------------------------------------------------------------------
(* The log of messages. *)

\* A document has what entries that are done have written, and is removed as a whole.
DocsFollow ==
  \A m \in Logged :
    /\ \A t \in logDoc[m].has : t \in EntryTypes /\ entry[m][t] = "done"
    /\ logDoc[m].there <=> logDoc[m].has # {}

\* The messages newer than m that were logged.
NewerLogged(m) == {n \in Logged : n > m /\ entry[n]["log"] = "done"}

Passing(p) == pass[p].pc \notin {"idle", "done"}

\* A pass that is alone removes no more than there is too much, and nothing that fewer
\* than max_log_count newer messages follow.
PassHolds(p) ==
  /\ pass[p].pc = "excess" => pass[p].limit + MaxLogCount <= Cardinality(OfQueues)
  /\ pass[p].pc = "remove" =>
       \A m \in pass[p].found : Cardinality(NewerLogged(m)) >= MaxLogCount

AloneSound ==
  ~ overlapped =>
    /\ \A p, q \in PassIds : Passing(p) /\ Passing(q) => p = q
    /\ \A p \in PassIds : PassHolds(p)
    /\ \A m \in Logged : cleared[m] = "count" => Cardinality(NewerLogged(m)) >= MaxLogCount

LogInv == LogTypeOK /\ DocsFollow /\ EntriesExplained /\ AloneSound

LEMMA LoggedFinite ==
  /\ IsFiniteSet(Logged)
  /\ \A S \in SUBSET Logged : IsFiniteSet(S) /\ Cardinality(S) \in Nat
  /\ \A S, T \in SUBSET Logged : S \subseteq T => Cardinality(S) <= Cardinality(T)
<1>1. IsFiniteSet(Logged)
  BY LogAssumption, FS_Interval DEF Logged
<1>2. \A S \in SUBSET Logged : IsFiniteSet(S)
  BY <1>1, FS_Subset
<1>3. \A S \in SUBSET Logged : Cardinality(S) \in Nat
  BY <1>2, FS_CardinalityType
<1>4. \A S, T \in SUBSET Logged : S \subseteq T => Cardinality(S) <= Cardinality(T)
  BY <1>2, FS_Subset
<1> QED
  BY <1>1, <1>2, <1>3, <1>4

\* As many messages are newer than the oldest ones as the quota allows.
LEMMA OldestHaveNewer ==
  ASSUME LogInv, NEW n \in Nat, n + MaxLogCount <= Cardinality(OfQueues), NEW m \in Oldest(n)
  PROVE  Cardinality(NewerLogged(m)) >= MaxLogCount
<1> DEFINE Older == {o \in OfQueues : o < m}
           Newer == {o \in OfQueues : o > m}
<1>1. /\ m \in Logged /\ m \in OfQueues /\ OfQueues \in SUBSET Logged
      /\ Older \in SUBSET Logged /\ Newer \in SUBSET Logged /\ NewerLogged(m) \in SUBSET Logged
      /\ \A o \in Logged : o \in Nat
  BY DEF Oldest, OfQueues, Logged, NewerLogged
<1>2. OfQueues = (Older \cup {m}) \cup Newer /\ (Older \cup {m}) \cap Newer = {}
      /\ m \notin Older
  <2>1. \A o \in OfQueues : o < m \/ o = m \/ o > m
    BY <1>1
  <2>2. \A o \in OfQueues : ~ (o > m /\ (o < m \/ o = m))
    BY <1>1
  <2> QED
    BY <1>1, <2>1, <2>2
<1>3. Cardinality(Older) < n
  BY DEF Oldest
<1>4. Newer \subseteq NewerLogged(m)
  BY DEF LogInv, DocsFollow, OfQueues, NewerLogged
<1> HIDE DEF Older, Newer
<1>5. IsFiniteSet(Older) /\ Cardinality(Older) \in Nat
      /\ IsFiniteSet(Newer) /\ Cardinality(Newer) \in Nat
      /\ Cardinality(NewerLogged(m)) \in Nat /\ Cardinality(Newer) <= Cardinality(NewerLogged(m))
  BY <1>1, <1>4, LoggedFinite
<1>6. IsFiniteSet(Older \cup {m}) /\ Cardinality(Older \cup {m}) = Cardinality(Older) + 1
  BY <1>2, <1>5, FS_AddElement
<1>7. Cardinality(OfQueues) = Cardinality(Older \cup {m}) + Cardinality(Newer)
  <2>1. Cardinality({}) = 0
    BY FS_EmptySet
  <2>2. Cardinality((Older \cup {m}) \cup Newer)
          = Cardinality(Older \cup {m}) + Cardinality(Newer)
              - Cardinality((Older \cup {m}) \cap Newer)
    BY <1>5, <1>6, FS_Union
  <2>3. Cardinality(OfQueues)
          = Cardinality(Older \cup {m}) + Cardinality(Newer) - Cardinality({})
    BY <1>2, <2>2
  <2> QED
    BY <1>5, <1>6, <2>1, <2>3
<1> QED
  BY <1>3, <1>5, <1>6, <1>7, LogAssumption

LEMMA LogInvInit == LogInit => LogInv
<1> SUFFICES ASSUME LogInit PROVE LogInv
  OBVIOUS
<1>1. LogTypeOK
  <2>1. entry \in [Logged -> [EntryTypes -> EntryStates]]
    BY DEF LogInit, EntryStates
  <2>2. logDoc \in [Logged -> [there: BOOLEAN, has: SUBSET EntryTypes]]
    BY DEF LogInit, NoLog
  <2>3. pass \in [PassIds -> [pc: {"idle", "expired", "count", "excess", "remove", "done"},
                              found: SUBSET Logged, limit: 0..ClearLimit]]
    BY LogAssumption DEF LogInit
  <2>4. /\ uses \subseteq Logged /\ lastUsed \in Logged \cup {0}
        /\ cleared \in [Logged -> {"no", "time", "count"}] /\ overlapped \in BOOLEAN
    BY DEF LogInit
  <2> QED
    BY <2>1, <2>2, <2>3, <2>4 DEF LogTypeOK
<1>2. DocsFollow /\ EntriesExplained /\ AloneSound
  BY DEF LogInit, DocsFollow, EntriesExplained, AloneSound, Passing, PassHolds, NoLog,
         EntryTypes
<1> QED
  BY <1>1, <1>2 DEF LogInv

-----------------------------------------------------------------------------
\* While entries are written and no document is removed, nothing that a pass relies on
\* is lost.
LEMMA AloneKept ==
  ASSUME LogInv, LogTypeOK', OfQueues \subseteq OfQueues',
         UNCHANGED <<pass, cleared, overlapped>>,
         \A n \in Logged : entry[n]["log"] = "done" => entry'[n]["log"] = "done"
  PROVE  AloneSound'
<1>1. Cardinality(OfQueues) \in Nat /\ Cardinality(OfQueues') \in Nat
      /\ Cardinality(OfQueues) <= Cardinality(OfQueues')
  <2>1. OfQueues \in SUBSET Logged /\ OfQueues' \in SUBSET Logged
    BY DEF OfQueues
  <2> QED
    BY <2>1, LoggedFinite
<1>2. ASSUME NEW m \in Logged, Cardinality(NewerLogged(m)) >= MaxLogCount
      PROVE  Cardinality(NewerLogged(m)') >= MaxLogCount
  <2>1. NewerLogged(m) \in SUBSET Logged /\ NewerLogged(m)' \in SUBSET Logged
        /\ NewerLogged(m) \subseteq NewerLogged(m)'
    BY DEF NewerLogged
  <2>2. Cardinality(NewerLogged(m)) \in Nat /\ Cardinality(NewerLogged(m)') \in Nat
        /\ Cardinality(NewerLogged(m)) <= Cardinality(NewerLogged(m)')
    BY <2>1, LoggedFinite
  <2> QED
    BY <1>2, <2>2, LogAssumption
<1>3. \A p \in PassIds : pass[p].limit \in Nat /\ pass[p].found \subseteq Logged
  BY LogAssumption DEF LogInv, LogTypeOK
<1> HIDE DEF OfQueues
<1>4. ASSUME ~ overlapped, NEW p \in PassIds PROVE PassHolds(p)'
  BY <1>1, <1>2, <1>3, <1>4, LogAssumption DEF LogInv, AloneSound, PassHolds
<1> QED
  BY <1>2, <1>4 DEF LogInv, AloneSound, Passing

LEMMA EntryMoves ==
  ASSUME LogTypeOK, NEW m \in Logged, NEW t \in EntryTypes, NEW s \in EntryStates,
         EntryBecomes(m, t, s)
  PROVE  /\ entry' \in [Logged -> [EntryTypes -> EntryStates]]
         /\ entry'[m][t] = s
         /\ \A n \in Logged, u \in EntryTypes : <<n, u>> # <<m, t>> => entry'[n][u] = entry[n][u]
BY DEF LogTypeOK, EntryBecomes

\* An entry that was not done goes on without a write.
LEMMA EntryWaits ==
  ASSUME LogInv, NEW m \in Logged, NEW t \in EntryTypes,
         NEW s \in EntryStates \ {"done", "lost"},
         EntryBecomes(m, t, s), entry[m][t] # "done",
         UNCHANGED <<logDoc, cleared, uses, lastUsed, pass, overlapped>>
  PROVE  LogInv'
<1>1. /\ entry' \in [Logged -> [EntryTypes -> EntryStates]]
      /\ entry'[m][t] = s
      /\ \A n \in Logged, u \in EntryTypes : <<n, u>> # <<m, t>> => entry'[n][u] = entry[n][u]
  BY EntryMoves DEF LogInv
<1>2. \A n \in Logged, u \in EntryTypes :
        /\ entry[n][u] = "done" <=> entry'[n][u] = "done"
        /\ entry'[n][u] = "lost" => entry[n][u] = "lost"
  BY <1>1
<1>3. LogTypeOK'
  BY <1>1 DEF LogInv, LogTypeOK
<1>4. DocsFollow' /\ EntriesExplained'
  BY <1>2 DEF LogInv, DocsFollow, EntriesExplained
<1>5. AloneSound'
  BY <1>2, <1>3, AloneKept DEF OfQueues, EntryTypes
<1> QED
  BY <1>3, <1>4, <1>5 DEF LogInv

LEMMA EntryStepsKeep ==
  ASSUME LogInv, NEW m \in Logged, AddLog(m) \/ SetMessageProcessed(m) \/ UpdateToken(m)
  PROVE  LogInv'
<1>1. "log" \in EntryTypes /\ "processed" \in EntryTypes
      /\ "queued" \in EntryStates \ {"done", "lost"}
  BY DEF EntryTypes, EntryStates
<1>2. CASE AddLog(m)
  BY <1>1, <1>2, EntryWaits DEF AddLog, documents, tokenUse, cron
<1>3. CASE SetMessageProcessed(m)
  BY <1>1, <1>3, EntryWaits DEF SetMessageProcessed, documents, tokenUse, cron
<1>4. CASE UpdateToken(m)
  <2>1. UNCHANGED <<entry, logDoc, cleared, pass, overlapped>>
        /\ uses' \subseteq Logged /\ lastUsed' \in Logged \cup {0}
    BY <1>4 DEF UpdateToken, documents, cron, LogInv, LogTypeOK
  <2>2. LogTypeOK' /\ DocsFollow' /\ EntriesExplained'
    BY <2>1 DEF LogInv, LogTypeOK, DocsFollow, EntriesExplained
  <2>3. AloneSound'
    BY <2>1, <2>2, AloneKept DEF OfQueues
  <2> QED
    BY <2>2, <2>3 DEF LogInv
<1> QED
  BY <1>2, <1>3, <1>4

LEMMA ProcessBufferKeeps ==
  ASSUME LogInv, NEW buffer \in SUBSET (Logged \X EntryTypes), NEW first \in Logged \X EntryTypes,
         ProcessBuffer(buffer, first)
  PROVE  LogInv'
<1>1. \A n \in Logged, u \in EntryTypes :
        entry'[n][u] = IF <<n, u>> \in buffer THEN "sent" ELSE entry[n][u]
  BY DEF ProcessBuffer
<1>2. \A n \in Logged, u \in EntryTypes : <<n, u>> \in buffer => entry[n][u] = "queued"
  <2> TAKE n \in Logged, u \in EntryTypes
  <2> HAVE <<n, u>> \in buffer
  <2>1. entry[<<n, u>>[1]][<<n, u>>[2]] = "queued"
    BY DEF ProcessBuffer
  <2> QED
    BY <2>1
<1>3. \A n \in Logged, u \in EntryTypes :
        /\ entry[n][u] = "done" <=> entry'[n][u] = "done"
        /\ entry'[n][u] = "lost" => entry[n][u] = "lost"
  BY <1>1, <1>2
<1>4. entry' \in [Logged -> [EntryTypes -> EntryStates]]
  BY DEF ProcessBuffer, EntryStates, LogInv, LogTypeOK
<1>5. UNCHANGED <<logDoc, cleared, pass, overlapped, lastUsed>> /\ uses' \subseteq Logged
  BY DEF ProcessBuffer, documents, cron, LogInv, LogTypeOK
<1>6. LogTypeOK'
  BY <1>4, <1>5 DEF LogInv, LogTypeOK
<1>7. DocsFollow' /\ EntriesExplained'
  BY <1>3, <1>5 DEF LogInv, DocsFollow, EntriesExplained
<1>8. AloneSound'
  BY <1>3, <1>5, <1>6, AloneKept DEF OfQueues, EntryTypes
<1> QED
  BY <1>6, <1>7, <1>8 DEF LogInv

\* An entry that was sent is written to the document.
LEMMA SetsKeeps ==
  ASSUME LogInv, NEW m \in Logged, NEW t \in EntryTypes, Sets(m, t), EntryBecomes(m, t, "done"),
         entry[m][t] \in {"sent", "insert"},
         UNCHANGED <<cleared, uses, lastUsed, pass, overlapped>>
  PROVE  LogInv'
<1>1. /\ entry' \in [Logged -> [EntryTypes -> EntryStates]]
      /\ entry'[m][t] = "done"
      /\ \A n \in Logged, u \in EntryTypes : <<n, u>> # <<m, t>> => entry'[n][u] = entry[n][u]
  <2>1. "done" \in EntryStates
    BY DEF EntryStates
  <2> QED
    BY <2>1, EntryMoves DEF LogInv
<1>2. \A n \in Logged, u \in EntryTypes :
        /\ entry[n][u] = "done" => entry'[n][u] = "done"
        /\ entry'[n][u] = "done" => entry[n][u] = "done" \/ (n = m /\ u = t)
        /\ entry'[n][u] = "lost" => entry[n][u] = "lost"
  BY <1>1
<1>3. /\ logDoc' \in [Logged -> [there: BOOLEAN, has: SUBSET EntryTypes]]
      /\ logDoc'[m].there /\ logDoc'[m].has = logDoc[m].has \cup {t}
      /\ \A n \in Logged \ {m} : logDoc'[n] = logDoc[n]
  <2> DEFINE h == logDoc[m].has \cup {t}
  <2>1. logDoc' = [logDoc EXCEPT ![m] = [there |-> TRUE, has |-> h]]
    BY DEF Sets
  <2>2. h \subseteq EntryTypes
    BY DEF LogInv, LogTypeOK
  <2> HIDE DEF h
  <2>3. [there |-> TRUE, has |-> h] \in [there: BOOLEAN, has: SUBSET EntryTypes]
    BY <2>2
  <2>4. /\ logDoc' \in [Logged -> [there: BOOLEAN, has: SUBSET EntryTypes]]
        /\ logDoc'[m] = [there |-> TRUE, has |-> h]
        /\ \A n \in Logged \ {m} : logDoc'[n] = logDoc[n]
    BY <2>1, <2>3 DEF LogInv, LogTypeOK
  <2> QED
    BY <2>4 DEF h
<1>4. LogTypeOK'
  BY <1>1, <1>3 DEF LogInv, LogTypeOK
<1>5. DocsFollow'
  BY <1>1, <1>2, <1>3 DEF LogInv, DocsFollow
<1>6. EntriesExplained'
  BY <1>1, <1>2, <1>3 DEF LogInv, EntriesExplained
<1>7. OfQueues \subseteq OfQueues'
  BY <1>3 DEF OfQueues
<1>8. AloneSound'
  BY <1>2, <1>4, <1>7, AloneKept DEF EntryTypes
<1> QED
  BY <1>4, <1>5, <1>6, <1>8 DEF LogInv

LEMMA WritesKeep ==
  ASSUME LogInv, NEW m \in Logged, NEW t \in EntryTypes, Upsert(m, t) \/ UpsertInserts(m, t)
  PROVE  LogInv'
<1>1. /\ entry[m][t] \in {"sent", "insert"} /\ entry[m][t] # "done"
      /\ UNCHANGED <<cleared, uses, lastUsed, pass, overlapped>>
  BY DEF Upsert, UpsertInserts, tokenUse, cron
<1>2. CASE Sets(m, t) /\ EntryBecomes(m, t, "done")
  BY <1>1, <1>2, SetsKeeps
<1>3. ASSUME NEW s \in {"insert", "sent"}, EntryBecomes(m, t, s), UNCHANGED logDoc
      PROVE  LogInv'
  <2>1. s \in EntryStates \ {"done", "lost"}
    BY DEF EntryStates
  <2> QED
    BY <1>1, <1>3, <2>1, EntryWaits
<1>4. CASE /\ entry[m][t] = "insert" /\ logDoc[m].there
           /\ EntryBecomes(m, t, "lost") /\ UNCHANGED logDoc
  <2>1. /\ entry' \in [Logged -> [EntryTypes -> EntryStates]]
        /\ entry'[m][t] = "lost"
        /\ \A n \in Logged, u \in EntryTypes : <<n, u>> # <<m, t>> => entry'[n][u] = entry[n][u]
    <3>1. "lost" \in EntryStates
      BY DEF EntryStates
    <3> QED
      BY <1>4, <3>1, EntryMoves DEF LogInv
  <2>2. \A u \in EntryTypes \ {t} : entry[m][u] = "done"
    <3>1. PICK u \in logDoc[m].has : u \in EntryTypes /\ entry[m][u] = "done"
      BY <1>4 DEF LogInv, DocsFollow
    <3>2. u # t
      BY <1>4, <3>1
    <3> QED
      BY <3>1, <3>2 DEF EntryTypes
  <2>3. \A n \in Logged, u \in EntryTypes : entry[n][u] = "done" <=> entry'[n][u] = "done"
    BY <1>4, <2>1
  <2>4. LogTypeOK'
    BY <1>1, <1>4, <2>1 DEF LogInv, LogTypeOK
  <2>5. DocsFollow'
    BY <1>4, <2>3 DEF LogInv, DocsFollow
  <2>6. EntriesExplained'
    BY <1>1, <1>4, <2>1, <2>2, <2>3 DEF LogInv, EntriesExplained
  <2>7. AloneSound'
    BY <1>1, <1>4, <2>3, <2>4, AloneKept DEF OfQueues, EntryTypes
  <2> QED
    BY <2>4, <2>5, <2>6, <2>7 DEF LogInv
<1> QED
  BY <1>1, <1>2, <1>3, <1>4 DEF Upsert, UpsertInserts

-----------------------------------------------------------------------------
PassStates == [pc: {"idle", "expired", "count", "excess", "remove", "done"},
               found: SUBSET Logged, limit: 0..ClearLimit]

LEMMA PassTyped ==
  ASSUME LogTypeOK, NEW p \in PassIds
  PROVE  /\ pass[p] \in PassStates /\ pass[p].limit \in Nat /\ pass[p].limit <= ClearLimit
         /\ pass[p].found \subseteq Logged
BY LogAssumption DEF LogTypeOK, PassStates

\* A step of a pass.  When no passes have overlapped it is the only one in progress.
LEMMA AlonePassed ==
  ASSUME LogInv, NEW p \in PassIds, NEW r \in PassStates, PassMoves(p, r), UNCHANGED entry,
         ~ overlapped' => ~ overlapped /\ \A q \in PassIds \ {p} : ~ Passing(q),
         ~ overlapped /\ r.pc = "excess" => r.limit + MaxLogCount <= Cardinality(OfQueues'),
         ~ overlapped /\ r.pc = "remove" =>
           \A m \in r.found : Cardinality(NewerLogged(m)) >= MaxLogCount,
         ~ overlapped => \A m \in Logged : cleared'[m] = "count" =>
           cleared[m] = "count" \/ Cardinality(NewerLogged(m)) >= MaxLogCount
  PROVE  pass' \in [PassIds -> PassStates] /\ AloneSound'
<1>1. /\ pass' \in [PassIds -> PassStates] /\ pass'[p] = r
      /\ \A q \in PassIds \ {p} : pass'[q] = pass[q]
  BY DEF LogInv, LogTypeOK, PassStates, PassMoves
<1>2. \A m : NewerLogged(m)' = NewerLogged(m)
  BY DEF NewerLogged
<1>3. ASSUME ~ overlapped' PROVE \A q \in PassIds : PassHolds(q)'
  <2> SUFFICES ASSUME NEW q \in PassIds PROVE PassHolds(q)'
    OBVIOUS
  <2>1. CASE q = p
    BY <1>1, <1>2, <1>3, <2>1 DEF PassHolds
  <2>2. CASE q # p
    BY <1>1, <1>3, <2>2 DEF PassHolds, Passing
  <2> QED
    BY <2>1, <2>2
<1>4. ASSUME ~ overlapped'
      PROVE  \A q, s \in PassIds : Passing(q)' /\ Passing(s)' => q = s
  BY <1>1, <1>4 DEF Passing
<1>5. ASSUME ~ overlapped', NEW m \in Logged, cleared'[m] = "count"
      PROVE  Cardinality(NewerLogged(m)') >= MaxLogCount
  BY <1>2, <1>5 DEF LogInv, AloneSound
<1> QED
  BY <1>1, <1>3, <1>4, <1>5 DEF AloneSound

\* A pass that has started is the only one unless passes have overlapped.
LEMMA OnlyPass ==
  ASSUME LogInv, NEW p \in PassIds, Passing(p), UNCHANGED overlapped
  PROVE  ~ overlapped' => ~ overlapped /\ \A q \in PassIds \ {p} : ~ Passing(q)
BY DEF LogInv, AloneSound

\* A pass removes documents.
LEMMA ClearsKeeps ==
  ASSUME LogInv, NEW p \in PassIds, NEW why \in {"time", "count"}, Clears(p, why),
         UNCHANGED <<entry, uses, lastUsed>>
  PROVE  /\ logDoc' \in [Logged -> [there: BOOLEAN, has: SUBSET EntryTypes]]
         /\ cleared' \in [Logged -> {"no", "time", "count"}]
         /\ DocsFollow' /\ EntriesExplained'
         /\ \A m \in Logged : cleared'[m] = cleared[m] \/
              (m \in pass[p].found /\ cleared'[m] = why)
<1>1. /\ NoLog \in [there: BOOLEAN, has: SUBSET EntryTypes]
      /\ NoLog.has = {} /\ NoLog.there = FALSE
  BY DEF NoLog
<1>2. \A m \in Logged : logDoc'[m] = IF m \in pass[p].found THEN NoLog ELSE logDoc[m]
  BY DEF Clears
<1>3. \A m \in Logged :
        cleared'[m] = IF m \in pass[p].found /\ logDoc[m].there THEN why ELSE cleared[m]
  BY DEF Clears
<1>4. logDoc' \in [Logged -> [there: BOOLEAN, has: SUBSET EntryTypes]]
  <2> HIDE DEF NoLog
  <2> QED
    BY <1>1 DEF Clears, LogInv, LogTypeOK
<1>5. cleared' \in [Logged -> {"no", "time", "count"}]
  BY DEF Clears, LogInv, LogTypeOK
<1>6. DocsFollow'
  BY <1>1, <1>2 DEF LogInv, DocsFollow
<1>7. EntriesExplained'
  <2> SUFFICES ASSUME NEW m \in Logged, NEW t \in EntryTypes
               PROVE  /\ entry'[m][t] = "done" => t \in logDoc'[m].has \/ cleared'[m] # "no"
                      /\ entry'[m][t] = "lost" =>
                           \A u \in EntryTypes \ {t} : entry'[m][u] = "done"
    BY DEF EntriesExplained
  <2>1. /\ entry[m][t] = "done" => t \in logDoc[m].has \/ cleared[m] # "no"
        /\ entry[m][t] = "lost" => \A u \in EntryTypes \ {t} : entry[m][u] = "done"
        /\ logDoc[m].there <=> logDoc[m].has # {}
    BY DEF LogInv, EntriesExplained, DocsFollow
  <2> QED
    BY <1>2, <1>3, <2>1
<1> QED
  BY <1>3, <1>4, <1>5, <1>6, <1>7

LEMMA RemovesKeep ==
  ASSUME LogInv, NEW p \in PassIds, RemoveExpired(p) \/ RemoveExcess(p)
  PROVE  LogInv'
<1> DEFINE l == IF RemoveExpired(p) THEN "count" ELSE "done"
           why == IF RemoveExpired(p) THEN "time" ELSE "count"
           r == [pass[p] EXCEPT !.pc = l, !.found = {}]
<1>1. l \in {"count", "done"} /\ why \in {"time", "count"}
  OBVIOUS
<1>2. Clears(p, why) /\ UNCHANGED <<overlapped, entry, uses, lastUsed>>
  BY DEF RemoveExpired, RemoveExcess, Entries
<1>3. PassMoves(p, r)
  BY DEF RemoveExpired, RemoveExcess
<1>4. r \in PassStates /\ r.pc = l
  <2> HIDE DEF l
  <2> QED
    BY <1>1, PassTyped DEF PassStates, LogInv
<1>5. Passing(p)
  BY DEF RemoveExpired, RemoveExcess, PassAt, Passing
<1>6. ~ overlapped /\ why = "count" =>
        \A m \in pass[p].found : Cardinality(NewerLogged(m)) >= MaxLogCount
  BY DEF RemoveExcess, PassAt, LogInv, AloneSound, PassHolds
<1> HIDE DEF r, l, why
<1>7. /\ logDoc' \in [Logged -> [there: BOOLEAN, has: SUBSET EntryTypes]]
      /\ cleared' \in [Logged -> {"no", "time", "count"}]
      /\ DocsFollow' /\ EntriesExplained'
      /\ \A m \in Logged : cleared'[m] = cleared[m] \/ (m \in pass[p].found /\ cleared'[m] = why)
  BY <1>1, <1>2, ClearsKeeps
<1>8. pass' \in [PassIds -> PassStates] /\ AloneSound'
  <2>1. ~ overlapped' => ~ overlapped /\ \A q \in PassIds \ {p} : ~ Passing(q)
    BY <1>2, <1>5, OnlyPass
  <2>2. ~ overlapped => \A m \in Logged : cleared'[m] = "count" =>
           cleared[m] = "count" \/ Cardinality(NewerLogged(m)) >= MaxLogCount
    BY <1>6, <1>7
  <2>3. r.pc # "excess" /\ r.pc # "remove"
    BY <1>1, <1>4
  <2> QED
    BY <1>2, <1>3, <1>4, <2>1, <2>2, <2>3, AlonePassed
<1>9. LogTypeOK'
  BY <1>2, <1>7, <1>8 DEF LogInv, LogTypeOK, PassStates
<1> QED
  BY <1>7, <1>8, <1>9 DEF LogInv

\* Steps of a pass that only read.
LEMMA LogReadsKeep ==
  ASSUME LogInv, NEW p \in PassIds, NEW r \in PassStates, PassMoves(p, r),
         UNCHANGED <<entry, uses, lastUsed, logDoc, cleared>>, overlapped' \in BOOLEAN,
         ~ overlapped' => ~ overlapped /\ \A q \in PassIds \ {p} : ~ Passing(q),
         ~ overlapped /\ r.pc = "excess" => r.limit + MaxLogCount <= Cardinality(OfQueues),
         ~ overlapped /\ r.pc = "remove" =>
           \A m \in r.found : Cardinality(NewerLogged(m)) >= MaxLogCount
  PROVE  LogInv'
<1>1. OfQueues' = OfQueues
  BY DEF OfQueues
<1>2. pass' \in [PassIds -> PassStates] /\ AloneSound'
  BY <1>1, AlonePassed
<1>3. LogTypeOK'
  BY <1>2 DEF LogInv, LogTypeOK, PassStates
<1>4. DocsFollow' /\ EntriesExplained'
  BY DEF LogInv, DocsFollow, EntriesExplained
<1> QED
  BY <1>2, <1>3, <1>4 DEF LogInv

LEMMA StartPassKeeps ==
  ASSUME LogInv, NEW p \in PassIds, StartPass(p)
  PROVE  LogInv'
<1>1. PICK old \in SUBSET Logged :
        PassMoves(p, [pc |-> "expired", found |-> old, limit |-> ClearLimit])
  BY DEF StartPass, OfQueues
<1> DEFINE r == [pc |-> "expired", found |-> old, limit |-> ClearLimit]
<1>2. r \in PassStates /\ r.pc = "expired" /\ PassMoves(p, r)
  BY <1>1, LogAssumption DEF PassStates
<1>3. UNCHANGED <<entry, uses, lastUsed, logDoc, cleared>> /\ overlapped' \in BOOLEAN
  BY DEF StartPass, Entries, documents
<1>4. ~ overlapped' => ~ overlapped /\ \A q \in PassIds \ {p} : ~ Passing(q)
  BY DEF StartPass, Passing
<1> HIDE DEF r
<1> QED
  BY <1>2, <1>3, <1>4, LogReadsKeep

LEMMA CountDocumentsKeeps ==
  ASSUME LogInv, NEW p \in PassIds, CountDocuments(p)
  PROVE  LogInv'
<1> DEFINE c == Cardinality(OfQueues)
           n == IF pass[p].limit < c - MaxLogCount THEN pass[p].limit ELSE c - MaxLogCount
           over == [pass[p] EXCEPT !.pc = "excess", !.limit = n]
           ended == [pass[p] EXCEPT !.pc = "done"]
<1>1. pass[p] \in PassStates /\ pass[p].limit \in Nat /\ pass[p].limit <= ClearLimit
  BY PassTyped DEF LogInv
<1>2. c \in Nat
  BY LoggedFinite DEF OfQueues
<1>3. MaxLogCount < c => n \in 0..ClearLimit /\ n + MaxLogCount <= c
  <2> HIDE DEF c
  <2> QED
    BY <1>1, <1>2, LogAssumption
<1>4. /\ UNCHANGED <<entry, uses, lastUsed, logDoc, cleared, overlapped>>
      /\ overlapped' \in BOOLEAN /\ Passing(p)
  BY DEF CountDocuments, Entries, documents, LogInv, LogTypeOK, PassAt, Passing
<1>5. ~ overlapped' => ~ overlapped /\ \A q \in PassIds \ {p} : ~ Passing(q)
  BY <1>4, OnlyPass
<1>6. CASE MaxLogCount < c
  <2>1. PassMoves(p, over)
    BY <1>6 DEF CountDocuments
  <2> HIDE DEF n, c
  <2>2. over \in PassStates /\ over.pc = "excess" /\ over.limit = n
    BY <1>1, <1>3, <1>6 DEF PassStates
  <2>3. over.limit + MaxLogCount <= Cardinality(OfQueues)
    BY <1>3, <1>6, <2>2 DEF c
  <2> HIDE DEF over
  <2> QED
    BY <1>4, <1>5, <2>1, <2>2, <2>3, LogReadsKeep
<1>7. CASE ~ (MaxLogCount < c)
  <2>1. PassMoves(p, ended)
    BY <1>7 DEF CountDocuments
  <2>2. ended \in PassStates /\ ended.pc = "done"
    BY <1>1 DEF PassStates
  <2> HIDE DEF ended
  <2> QED
    BY <1>4, <1>5, <2>1, <2>2, LogReadsKeep
<1> QED
  BY <1>6, <1>7

LEMMA FindExcessKeeps ==
  ASSUME LogInv, NEW p \in PassIds, FindExcess(p)
  PROVE  LogInv'
<1> DEFINE r == [pass[p] EXCEPT !.pc = "remove", !.found = Oldest(pass[p].limit)]
<1>1. pass[p] \in PassStates /\ pass[p].limit \in Nat
  BY PassTyped DEF LogInv
<1>2. Oldest(pass[p].limit) \subseteq Logged
  BY DEF Oldest, OfQueues
<1>3. r \in PassStates /\ r.pc = "remove" /\ r.found = Oldest(pass[p].limit)
  BY <1>1, <1>2 DEF PassStates
<1>4. /\ UNCHANGED <<entry, uses, lastUsed, logDoc, cleared, overlapped>>
      /\ overlapped' \in BOOLEAN /\ Passing(p) /\ PassMoves(p, r)
  BY DEF FindExcess, Entries, documents, LogInv, LogTypeOK, PassAt, Passing
<1>5. ~ overlapped' => ~ overlapped /\ \A q \in PassIds \ {p} : ~ Passing(q)
  BY <1>4, OnlyPass
<1>6. ~ overlapped => \A m \in Oldest(pass[p].limit) : Cardinality(NewerLogged(m)) >= MaxLogCount
  <2>1. ~ overlapped => pass[p].limit + MaxLogCount <= Cardinality(OfQueues)
    BY DEF FindExcess, PassAt, LogInv, AloneSound, PassHolds
  <2> QED
    BY <1>1, <2>1, OldestHaveNewer
<1> HIDE DEF r
<1> QED
  BY <1>3, <1>4, <1>5, <1>6, LogReadsKeep

LEMMA LogInvNext == LogInv /\ [LogNext]_logVars => LogInv'
<1> SUFFICES ASSUME LogInv, [LogNext]_logVars PROVE LogInv'
  OBVIOUS
<1>1. CASE UNCHANGED logVars
  <2>1. UNCHANGED <<entry, logDoc, uses, lastUsed, pass, cleared, overlapped>>
    BY <1>1 DEF logVars
  <2>2. LogTypeOK' /\ DocsFollow' /\ EntriesExplained'
    BY <2>1 DEF LogInv, LogTypeOK, DocsFollow, EntriesExplained
  <2>3. AloneSound'
    BY <2>1, <2>2, AloneKept DEF OfQueues
  <2> QED
    BY <2>2, <2>3 DEF LogInv
<1>2. ASSUME NEW m \in Logged, AddLog(m) \/ SetMessageProcessed(m) \/ UpdateToken(m)
      PROVE  LogInv'
  BY <1>2, EntryStepsKeep
<1>3. ASSUME NEW buffer \in SUBSET (Logged \X EntryTypes), NEW first \in Logged \X EntryTypes,
             ProcessBuffer(buffer, first)
      PROVE  LogInv'
  BY <1>3, ProcessBufferKeeps
<1>4. CASE LogWrites
  BY <1>4, WritesKeep DEF LogWrites
<1>5. ASSUME NEW p \in PassIds,
             \/ StartPass(p) \/ RemoveExpired(p) \/ CountDocuments(p) \/ FindExcess(p)
             \/ RemoveExcess(p)
      PROVE  LogInv'
  BY <1>5, StartPassKeeps, RemovesKeep, CountDocumentsKeeps, FindExcessKeeps
<1> QED
  BY <1>1, <1>2, <1>3, <1>4, <1>5 DEF LogNext

\* The documents and the passes of the log keep their types (models/message_log.js).
THEOREM LogTypeCorrect == LogSpec => []LogTypeOK
<1>1. LogInv => LogTypeOK
  BY DEF LogInv
<1> QED
  BY <1>1, LogInvInit, LogInvNext, PTL DEF LogSpec

\* For any number of messages, buffers and passes: what the worker of lib/log_worker.js
\* has written stays until the cron job removes it, an entry is lost only to the other
\* one of its message, and a pass of repository/message_log.js that meets no other one
\* leaves the newest documents that the quota allows.
THEOREM LogSoundHolds == LogSpec => []LogSound
<1>1. LogInv => LogSound
  BY DEF LogInv, AloneSound, LogSound, NewestKept, NewerLogged
<1> QED
  BY <1>1, LogInvInit, LogInvNext, PTL DEF LogSpec

-----------------------------------------------------------------------------
(* The alarm of a queue. *)

\* What was counted has been seen, and what a pass that raises the alarm has found still
\* holds, unless another write of the alarm has crossed it.
FoundDue ==
  /\ counted <= peak
  /\ ~ crossed => \A p \in Ongoing(npass) :
       npass[p].op = "raise" => alarm.threshold > 0 /\ peak >= alarm.threshold

NotifyInv == NotifyTypeOK /\ FoundDue /\ AlarmIsDue

Alarms == [threshold: Thresholds \cup {0}, active: BOOLEAN]
NotifyStates == [op: {"none", "raise", "stepDown"}, pc: {"idle", "load", "save", "done"},
                 active: BOOLEAN, answer: {"none", "ok", "failed"}]

LEMMA NotifyBounds == MaxCounted \in Nat /\ \A t \in Thresholds \cup {0} : t \in Nat
<1>1. MaxCounted \in Nat /\ \A t \in Thresholds : t \in Nat
  BY ZenonT(30), NotifyAssumption
<1>2. 0 \in Nat
  OBVIOUS
<1> QED
  BY ZenonT(30), <1>1, <1>2

LEMMA NotifyTyped ==
  ASSUME NotifyInv
  PROVE  /\ counted \in Nat /\ peak \in Nat /\ counted \in 0..MaxCounted /\ peak \in 0..MaxCounted
         /\ alarm \in Alarms /\ alarm.threshold \in Nat /\ crossed \in BOOLEAN
         /\ stored \in BOOLEAN /\ copies \subseteq BOOLEAN
         /\ npass \in [NotifyPassIds -> NotifyStates]
         /\ Ongoing(npass) = {p \in NotifyPassIds : npass[p].pc \notin {"idle", "done"}}
<1>1. alarm \in Alarms /\ alarm.threshold \in Nat
  <2>1. alarm \in Alarms
    BY DEF NotifyInv, NotifyTypeOK, Alarms
  <2>2. alarm.threshold \in Thresholds \cup {0}
    BY <2>1 DEF Alarms
  <2> QED
    BY <2>1, <2>2, NotifyBounds
<1>2. npass \in [NotifyPassIds -> NotifyStates]
  BY DEF NotifyInv, NotifyTypeOK, NotifyStates
<1>3. DOMAIN npass = NotifyPassIds
  BY <1>2
<1>4. /\ counted \in 0..MaxCounted /\ peak \in 0..MaxCounted /\ crossed \in BOOLEAN
      /\ stored \in BOOLEAN /\ copies \subseteq BOOLEAN
  BY DEF NotifyInv, NotifyTypeOK
<1>5. counted \in Nat /\ peak \in Nat
  BY <1>4, NotifyBounds
<1> QED
  BY <1>1, <1>2, <1>3, <1>4, <1>5 DEF Ongoing

LEMMA NotifyInvInit == NotifyInit => NotifyInv
<1> SUFFICES ASSUME NotifyInit PROVE NotifyInv
  OBVIOUS
<1>1. NotifyTypeOK
  <2>1. alarm \in Alarms
    BY DEF NotifyInit, Alarms
  <2>2. npass \in [NotifyPassIds -> NotifyStates]
    BY DEF NotifyInit, NotifyStates
  <2>3. counted \in 0..MaxCounted /\ peak \in 0..MaxCounted /\ crossed \in BOOLEAN
    <3>1. counted = 0 /\ peak = 0 /\ crossed = FALSE
      BY DEF NotifyInit
    <3>2. MaxCounted \in Nat
      BY NotifyBounds
    <3>3. 0 \in 0..MaxCounted
      BY <3>2, SMT
    <3> QED
      BY <3>1, <3>3
  <2>4. stored \in BOOLEAN /\ copies \subseteq BOOLEAN
    BY DEF NotifyInit
  <2> QED
    BY <2>1, <2>2, <2>3, <2>4 DEF NotifyTypeOK, Alarms, NotifyStates
<1>2. FoundDue /\ AlarmIsDue
  BY DEF NotifyInit, FoundDue, AlarmIsDue, Ongoing
<1> QED
  BY <1>1, <1>2 DEF NotifyInv

\* A pass that moves and writes no alarm.  It may go on with raising an alarm only if
\* it did before or has found the queue.
LEMMA NotifyMoves ==
  ASSUME NotifyInv, NEW p \in NotifyPassIds, NEW r \in NotifyStates,
         npass' = [npass EXCEPT ![p] = r], UNCHANGED <<alarm, counted, stored, copies, peak, crossed>>,
         ~ crossed /\ r.pc \notin {"idle", "done"} /\ r.op = "raise" =>
           alarm.threshold > 0 /\ peak >= alarm.threshold
  PROVE  NotifyInv'
<1>1. /\ npass' \in [NotifyPassIds -> NotifyStates] /\ npass'[p] = r
      /\ \A q \in NotifyPassIds \ {p} : npass'[q] = npass[q]
  BY NotifyTyped
<1>2. NotifyTypeOK'
  BY <1>1 DEF NotifyInv, NotifyTypeOK, NotifyStates
<1>3. Ongoing(npass') = {q \in NotifyPassIds : npass'[q].pc \notin {"idle", "done"}}
  BY <1>1 DEF Ongoing
<1>4. FoundDue'
  BY <1>1, <1>3, NotifyTyped DEF NotifyInv, FoundDue
<1>5. AlarmIsDue'
  BY DEF NotifyInv, AlarmIsDue
<1> QED
  BY <1>2, <1>4, <1>5 DEF NotifyInv

LEMMA SearchesKeep ==
  ASSUME NotifyInv, NEW p \in NotifyPassIds, NEW o \in {"raise", "stepDown"},
         NEW found \in BOOLEAN, Searches(p, o, found),
         o = "raise" /\ found => alarm.threshold > 0 /\ alarm.threshold <= counted
  PROVE  NotifyInv'
<1> DEFINE q == [npass[p] EXCEPT !.op = o]
           r == IF found THEN [npass[p] EXCEPT !.op = o, !.pc = "load"] ELSE Ends(q, "ok")
<1>1. npass' = [npass EXCEPT ![p] = r] /\ UNCHANGED <<alarm, counted, stored, copies, peak, crossed>>
  BY DEF Searches
<1>2. npass[p] \in NotifyStates
  BY NotifyTyped
<1>3. q \in NotifyStates /\ q.op = o
  BY <1>2 DEF NotifyStates
<1>4. r \in NotifyStates /\ r.op = o /\ (~ found => r.pc = "done")
  <2>1. CASE found
    BY <1>2, <2>1 DEF NotifyStates
  <2>2. CASE ~ found
    <3> HIDE DEF q
    <3> QED
      BY <1>3, <2>2 DEF NotifyStates, Ends
  <2> QED
    BY <2>1, <2>2
<1> HIDE DEF q, r
<1>5. found /\ o = "raise" => alarm.threshold > 0 /\ peak >= alarm.threshold
  BY NotifyTyped DEF NotifyInv, FoundDue
<1> QED
  BY <1>1, <1>4, <1>5, NotifyMoves

LEMMA NotifyLoadsKeeps ==
  ASSUME NotifyInv, NEW p \in NotifyPassIds, NotifyLoads(p)
  PROVE  NotifyInv'
<1>1. npass[p] \in NotifyStates /\ alarm.active \in BOOLEAN /\ p \in Ongoing(npass)
  BY NotifyTyped DEF NotifyLoads, Alarms
<1>2. CASE npass' = [npass EXCEPT ![p].pc = "save", ![p].active = alarm.active]
  <2> DEFINE r == [npass[p] EXCEPT !.pc = "save", !.active = alarm.active]
  <2>1. npass' = [npass EXCEPT ![p] = r]
    BY <1>2, NotifyTyped
  <2>2. r \in NotifyStates /\ r.op = npass[p].op
    BY <1>1 DEF NotifyStates
  <2> HIDE DEF r
  <2>3. UNCHANGED <<alarm, counted, stored, copies, peak, crossed>>
    BY DEF NotifyLoads
  <2> QED
    BY <1>1, <2>1, <2>2, <2>3, NotifyMoves DEF NotifyInv, FoundDue
<1>3. CASE npass' = [npass EXCEPT ![p] = Ends(@, "failed")]
  <2> DEFINE r == Ends(npass[p], "failed")
  <2>1. npass' = [npass EXCEPT ![p] = r]
    BY <1>3
  <2>2. r \in NotifyStates /\ r.pc = "done"
    BY <1>1 DEF NotifyStates, Ends
  <2> HIDE DEF r
  <2> QED
    BY <2>1, <2>2, NotifyMoves DEF NotifyLoads
<1> QED
  BY <1>2, <1>3 DEF NotifyLoads

LEMMA NotifySavesKeeps ==
  ASSUME NotifyInv, NEW p \in NotifyPassIds, NotifySaves(p)
  PROVE  NotifyInv'
<1> DEFINE q == [npass[p] EXCEPT !.active = FALSE]
           r == Ends(q, "ok")
           new == npass[p].op = "raise"
<1>1. npass[p] \in NotifyStates /\ p \in Ongoing(npass)
  BY NotifyTyped DEF NotifySaves
<1>2. q \in NotifyStates
  BY <1>1 DEF NotifyStates
<1>3. r \in NotifyStates /\ r.pc = "done"
  <2> HIDE DEF q
  <2> QED
    BY <1>2 DEF NotifyStates, Ends
<1>4. npass' = [npass EXCEPT ![p] = r] /\ UNCHANGED <<counted, stored, copies>>
  BY DEF NotifySaves
<1> HIDE DEF q, r
<1>5. CASE UNCHANGED <<alarm, peak, crossed>>
  BY <1>3, <1>4, <1>5, NotifyMoves
<1>6. CASE /\ alarm' = [alarm EXCEPT !.active = new]
           /\ peak' = IF new THEN peak ELSE counted
           /\ Crosses(p)
  <2>1. /\ npass' \in [NotifyPassIds -> NotifyStates] /\ npass'[p] = r
        /\ \A s \in NotifyPassIds \ {p} : npass'[s] = npass[s]
    BY <1>3, <1>4, NotifyTyped
  <2>2. Ongoing(npass') = Ongoing(npass) \ {p}
    BY <1>3, <2>1, NotifyTyped DEF Ongoing
  <2>3. ~ crossed' => ~ crossed /\ Ongoing(npass) \ {p} = {}
    BY <1>6 DEF Crosses
  <2>4. new \in BOOLEAN
    OBVIOUS
  <2>5. alarm' \in Alarms /\ alarm'.threshold = alarm.threshold /\ alarm'.active = new
    <3> HIDE DEF new
    <3> QED
      BY <1>6, <2>4, NotifyTyped DEF Alarms
  <2>6. NotifyTypeOK'
    <3>1. counted' \in 0..MaxCounted /\ peak' \in 0..MaxCounted
      BY <1>4, <1>6, NotifyTyped
    <3>2. crossed' \in BOOLEAN /\ stored' \in BOOLEAN /\ copies' \subseteq BOOLEAN
      BY <1>4, <1>6, NotifyTyped DEF Crosses
    <3> QED
      BY <2>1, <2>5, <3>1, <3>2 DEF NotifyTypeOK, Alarms, NotifyStates
  <2>7. FoundDue'
    <3>1. counted' <= peak'
      BY <1>4, <1>6, NotifyTyped DEF NotifyInv, FoundDue
    <3>2. ~ crossed' => Ongoing(npass') = {}
      BY <2>2, <2>3
    <3> QED
      BY <3>1, <3>2 DEF FoundDue
  <2>8. AlarmIsDue'
    BY <1>1, <1>6, <2>3, <2>5 DEF NotifyInv, FoundDue, AlarmIsDue
  <2> QED
    BY <2>6, <2>7, <2>8 DEF NotifyInv
<1> QED
  BY <1>5, <1>6 DEF NotifySaves

LEMMA NotifyInvNext == NotifyInv /\ [NotifyNext]_notifyVars => NotifyInv'
<1> SUFFICES ASSUME NotifyInv, [NotifyNext]_notifyVars PROVE NotifyInv'
  OBVIOUS
<1>1. CASE UNCHANGED notifyVars
  BY <1>1 DEF notifyVars, NotifyInv, NotifyTypeOK, FoundDue, AlarmIsDue
<1>2. ASSUME NEW n \in 0..MaxCounted, CountChanges(n)
      PROVE  NotifyInv'
  <2>1. counted' = n /\ peak' \in 0..MaxCounted /\ peak' >= peak /\ peak' >= n
        /\ stored' \in BOOLEAN /\ UNCHANGED <<alarm, npass, crossed, copies>>
    BY <1>2, NotifyTyped DEF CountChanges, Counts
  <2>2. NotifyTypeOK'
    BY <2>1 DEF NotifyInv, NotifyTypeOK
  <2>3. FoundDue' /\ AlarmIsDue'
    BY <2>1, NotifyTyped DEF NotifyInv, FoundDue, AlarmIsDue
  <2> QED
    BY <2>2, <2>3 DEF NotifyInv
<1>3. ASSUME NEW t \in Thresholds, NEW loaded \in BOOLEAN, SetThreshold(t, loaded)
      PROVE  NotifyInv'
  <2>1. alarm' \in Alarms /\ alarm'.active = FALSE
    BY <1>3 DEF SetThreshold, Alarms
  <2>2. counted' \in 0..MaxCounted /\ peak' = counted'
    <3>1. counted' \in {counted, 0} /\ peak' = counted'
      BY <1>3 DEF SetThreshold
    <3>2. 0 \in 0..MaxCounted
      BY NotifyBounds
    <3> QED
      BY <3>1, <3>2, NotifyTyped
  <2>3. /\ stored' \in BOOLEAN /\ crossed' \in BOOLEAN
        /\ UNCHANGED <<npass, copies>>
    BY <1>3 DEF SetThreshold, Crosses
  <2>4. NotifyTypeOK'
    BY <2>1, <2>2, <2>3 DEF NotifyInv, NotifyTypeOK, Alarms
  <2>5. ~ crossed' => Ongoing(npass) = {}
    <3>1. Ongoing(npass) \subseteq NotifyPassIds /\ 0 \notin NotifyPassIds
      BY NotifyTyped, NotifyAssumption DEF NotifyPassIds
    <3> QED
      BY <1>3, <3>1 DEF SetThreshold, Crosses
  <2>6. counted' <= peak'
    BY <2>2, NotifyBounds
  <2>7. FoundDue' /\ AlarmIsDue'
    BY <2>1, <2>3, <2>5, <2>6 DEF FoundDue, AlarmIsDue
  <2> QED
    BY <2>4, <2>7 DEF NotifyInv
<1>4. ASSUME NEW p \in NotifyPassIds, RaiseFinds(p) \/ StepDownFinds(p)
      PROVE  NotifyInv'
  <2>1. CASE RaiseFinds(p)
    <3> DEFINE found == alarm.threshold > 0 /\ ~ alarm.active /\ alarm.threshold <= counted
    <3>1. found \in BOOLEAN /\ Searches(p, "raise", found)
      BY <2>1 DEF RaiseFinds
    <3> QED
      BY <3>1, SearchesKeep
  <2>2. CASE StepDownFinds(p)
    <3> DEFINE found == alarm.threshold > 0 /\ alarm.active /\ alarm.threshold >= counted
    <3>1. found \in BOOLEAN /\ Searches(p, "stepDown", found)
      BY <2>2 DEF StepDownFinds
    <3> QED
      BY <3>1, SearchesKeep
  <2> QED
    BY <1>4, <2>1, <2>2
<1>5. CASE LoadQueue
  <2>1. copies' \subseteq BOOLEAN /\ UNCHANGED <<alarm, counted, stored, npass, peak, crossed>>
    BY <1>5, NotifyTyped DEF LoadQueue
  <2> QED
    BY <2>1 DEF NotifyInv, NotifyTypeOK, FoundDue, AlarmIsDue
<1> QED
  BY <1>1, <1>2, <1>3, <1>4, <1>5, NotifyLoadsKeeps, NotifySavesKeeps DEF NotifyNext

\* For any number of passes and any thresholds: unless a write of the alarm has crossed
\* a pass that had found the queue, the alarm of repository/queue.js is up only when the
\* queue has reached its threshold since it was last down.
THEOREM AlarmIsDueHolds == NotifySpec => []AlarmIsDue
<1>1. NotifyInv => AlarmIsDue
  BY DEF NotifyInv
<1> QED
  BY <1>1, NotifyInvInit, NotifyInvNext, PTL DEF NotifySpec


-----------------------------------------------------------------------------
(* Induction, with a set for the property. *)

\* A set of numbers has a least one.
LEMMA LeastNat ==
  ASSUME NEW T \in SUBSET Nat, T # {}
  PROVE  \E n \in T : \A m \in T : n <= m
<1>1. IsWellFoundedOn(OpToRel(<, Nat), Nat)
  BY NatLessThanWellFounded
<1>2. PICK n \in T : \A m \in T : ~ (<<m, n>> \in OpToRel(<, Nat))
  BY <1>1, WFMin
<1>3. \A m \in T : ~ (m < n)
  BY <1>2 DEF OpToRel
<1> QED
  BY <1>3

\* A set of finite sets has a smallest one.
LEMMA SmallestSet ==
  ASSUME NEW S, IsFiniteSet(S), NEW P \in SUBSET SUBSET S, P # {}
  PROVE  \E T \in P : \A U \in SUBSET T : U \in P => U = T
<1>1. \A T \in SUBSET S : IsFiniteSet(T) /\ Cardinality(T) \in Nat
  BY FS_Subset, FS_CardinalityType
<1> DEFINE Sizes == {Cardinality(T) : T \in P}
<1>2. Sizes \in SUBSET Nat /\ Sizes # {}
  BY <1>1
<1>3. PICK n \in Sizes : \A m \in Sizes : n <= m
  BY <1>2, LeastNat
<1>4. PICK T \in P : Cardinality(T) = n
  BY <1>3
<1>5. ASSUME NEW U \in SUBSET T, U \in P, U # T PROVE FALSE
  <2>1. Cardinality(U) \in Nat /\ Cardinality(T) \in Nat /\ Cardinality(T) <= Cardinality(U)
    BY <1>1, <1>3, <1>4, <1>5
  <2>2. Cardinality(U) < Cardinality(T)
    BY <1>1, <1>5, FS_Subset
  <2> QED
    BY <2>1, <2>2
<1> QED
  BY <1>5

\* What holds of the empty set, and of a set with one element more, holds of all.
LEMMA SubsetInduction ==
  ASSUME NEW S, IsFiniteSet(S), NEW P \in SUBSET SUBSET S, {} \in P,
         \A T \in P, x \in S : x \notin T => T \cup {x} \in P
  PROVE  \A T \in SUBSET S : T \in P
<1> SUFFICES ASSUME NEW T0 \in SUBSET S, T0 \notin P PROVE FALSE
  OBVIOUS
<1> DEFINE Q == (SUBSET S) \ P
<1>1. PICK T \in Q : \A U \in SUBSET T : U \in Q => U = T
  <2>1. Q \in SUBSET SUBSET S /\ Q # {}
    OBVIOUS
  <2> HIDE DEF Q
  <2> QED
    BY <2>1, SmallestSet
<1>2. T # {} /\ T \subseteq S /\ T \notin P
  BY <1>1
<1>x. PICK x \in T : TRUE
  BY <1>2
<1>3. T \ {x} \in P /\ x \in S /\ (T \ {x}) \cup {x} = T
  BY <1>1
<1> QED
  BY <1>1, <1>3

-----------------------------------------------------------------------------
(* Sums. *)

\* What SumFunctionOnSet makes of a set, given what it makes of smaller ones.
Adds(f, g, s) ==
  IF s = {} THEN 0 ELSE f[CHOOSE x \in s : TRUE] + g[s \ {CHOOSE x \in s : TRUE}]

LEMMA SumExpands ==
  ASSUME NEW f, NEW S
  PROVE  SumFunctionOnSet(f, S) = (CHOOSE g : g = [s \in SUBSET S |-> Adds(f, g, s)])[S]
BY DEF SumFunctionOnSet, FoldFunctionOnSet, MapThenFoldSet, Adds

\* The recursion defines a function: extend it by the size of the sets.
LEMMA SumExists ==
  ASSUME NEW S, IsFiniteSet(S), NEW f, \A x \in S : f[x] \in Nat
  PROVE  \E g \in [SUBSET S -> Nat] : \A s \in SUBSET S : g[s] = Adds(f, g, s)
<1>1. \A T \in SUBSET S : /\ IsFiniteSet(T) /\ Cardinality(T) \in Nat
                        /\ Cardinality(T) <= Cardinality(S)
  BY FS_Subset, FS_CardinalityType
<1>2. \A s \in SUBSET S : s # {} =>
        /\ (CHOOSE x \in s : TRUE) \in s
        /\ s \ {CHOOSE x \in s : TRUE} \in SUBSET S
        /\ Cardinality(s \ {CHOOSE x \in s : TRUE}) = Cardinality(s) - 1
  BY <1>1, FS_RemoveElement
<1> DEFINE Upto(n, g) == \A s \in SUBSET S : Cardinality(s) <= n => g[s] = Adds(f, g, s)
           Bad == {n \in Nat : \A g \in [SUBSET S -> Nat] : ~ Upto(n, g)}
<1>3. Bad = {}
  <2> SUFFICES ASSUME Bad # {} PROVE FALSE
    OBVIOUS
  <2>1. PICK n \in Bad : \A m \in Bad : n <= m
    <3>1. Bad \in SUBSET Nat
      OBVIOUS
    <3> HIDE DEF Bad
    <3> QED
      BY <3>1, LeastNat
  <2>2. \E g \in [SUBSET S -> Nat] :
          \A s \in SUBSET S : Cardinality(s) < n => g[s] = Adds(f, g, s)
    <3>1. CASE n = 0
      <4>1. [s \in SUBSET S |-> 0] \in [SUBSET S -> Nat]
        OBVIOUS
      <4>2. \A s \in SUBSET S : ~ (Cardinality(s) < n)
        BY <1>1, <3>1
      <4> QED
        BY <4>1, <4>2
    <3>2. CASE n # 0
      <4>1. n \in Nat /\ n - 1 \in Nat /\ ~ (n <= n - 1)
        BY <2>1, <3>2
      <4>b. n - 1 \notin Bad
        BY <2>1, <4>1
      <4> DEFINE k == n - 1
      <4>2. PICK g \in [SUBSET S -> Nat] : Upto(k, g)
        <5>1. k \in Nat /\ k \notin Bad
          BY <4>1, <4>b
        <5> HIDE DEF k, Upto
        <5> QED
          BY <5>1
      <4>3. \A s \in SUBSET S : Cardinality(s) < n => Cardinality(s) <= n - 1
        BY <1>1, <4>1
      <4> QED
        BY <4>2, <4>3
    <3> QED
      BY <3>1, <3>2
  <2>3. PICK g \in [SUBSET S -> Nat] :
          \A s \in SUBSET S : Cardinality(s) < n => g[s] = Adds(f, g, s)
    BY <2>2
  <2> DEFINE h == [s \in SUBSET S |-> IF Cardinality(s) < n THEN g[s] ELSE Adds(f, g, s)]
  <2>4. \A s \in SUBSET S : Adds(f, g, s) \in Nat
    <3> TAKE s \in SUBSET S
    <3>1. CASE s = {}
      BY <3>1 DEF Adds
    <3>2. CASE s # {}
      <4> DEFINE c == CHOOSE x \in s : TRUE
      <4>1. c \in s /\ s \ {c} \in SUBSET S
        BY <1>2, <3>2
      <4>2. f[c] \in Nat /\ g[s \ {c}] \in Nat
        BY <4>1
      <4>3. Adds(f, g, s) = f[c] + g[s \ {c}]
        BY <3>2 DEF Adds
      <4> HIDE DEF c
      <4> QED
        BY <4>2, <4>3
    <3> QED
      BY <3>1, <3>2
  <2>5. h \in [SUBSET S -> Nat]
    BY <2>4
  <2>6. ASSUME NEW s \in SUBSET S, Cardinality(s) <= n PROVE h[s] = Adds(f, h, s)
    <3>1. h[s] = Adds(f, g, s)
      BY <2>3
    <3>2. CASE s = {}
      BY <3>1, <3>2 DEF Adds
    <3>3. CASE s # {}
      <4> DEFINE t == s \ {CHOOSE x \in s : TRUE}
      <4>1. t \in SUBSET S /\ Cardinality(t) < n
        BY <1>1, <1>2, <2>1, <2>6, <3>3
      <4>2. h[t] = g[t]
        BY <4>1
      <4> HIDE DEF h
      <4> QED
        BY <3>1, <3>3, <4>2 DEF Adds
    <3> QED
      BY <3>2, <3>3
  <2>7. Upto(n, h)
    BY <2>6
  <2> QED
    BY <2>1, <2>5, <2>7
<1>4. Cardinality(S) \in Nat /\ Cardinality(S) \notin Bad
  BY <1>1, <1>3
<1>5. PICK g \in [SUBSET S -> Nat] : Upto(Cardinality(S), g)
  BY <1>4
<1> QED
  BY <1>1, <1>5

\* It defines one function, and that is what SumFunctionOnSet returns.
LEMMA SumIs ==
  ASSUME NEW S, IsFiniteSet(S), NEW f, \A x \in S : f[x] \in Nat,
         NEW g \in [SUBSET S -> Nat], \A s \in SUBSET S : g[s] = Adds(f, g, s),
         NEW T \in SUBSET S
  PROVE  SumFunctionOnSet(f, T) = g[T]
<1>1. IsFiniteSet(T) /\ \A x \in T : f[x] \in Nat
  BY FS_Subset
<1> DEFINE Rec(h) == h = [s \in SUBSET T |-> Adds(f, h, s)]
           it == CHOOSE h : Rec(h)
<1>2. \E h : Rec(h)
  <2>1. PICK h \in [SUBSET T -> Nat] : \A s \in SUBSET T : h[s] = Adds(f, h, s)
    BY <1>1, SumExists
  <2>2. h = [s \in SUBSET T |-> Adds(f, h, s)]
    BY <2>1
  <2> QED
    BY <2>2
<1>3. Rec(it)
  BY <1>2
<1>4. \A s \in SUBSET T : it[s] = Adds(f, it, s)
  <2> HIDE DEF it
  <2> QED
    BY <1>3
<1>5. SumFunctionOnSet(f, T) = it[T]
  BY SumExpands
<1> HIDE DEF it
<1> DEFINE Differ == {s \in SUBSET T : it[s] # g[s]}
<1>6. Differ = {}
  <2> SUFFICES ASSUME Differ # {} PROVE FALSE
    OBVIOUS
  <2>1. PICK s \in Differ : \A u \in SUBSET s : u \in Differ => u = s
    <3>1. Differ \in SUBSET SUBSET T
      OBVIOUS
    <3> HIDE DEF Differ
    <3> QED
      BY <1>1, <3>1, SmallestSet
  <2>2. it[s] = Adds(f, it, s) /\ g[s] = Adds(f, g, s)
    BY <1>4
  <2>3. CASE s = {}
    BY <2>1, <2>2, <2>3 DEF Adds
  <2>4. CASE s # {}
    <3> DEFINE u == s \ {CHOOSE x \in s : TRUE}
    <3>1. (CHOOSE x \in s : TRUE) \in s
      BY <2>4
    <3>2. u \in SUBSET s /\ u # s /\ u \in SUBSET T
      BY <3>1
    <3>3. it[u] = g[u]
      BY <2>1, <3>2
    <3> QED
      BY <2>1, <2>2, <2>4, <3>3 DEF Adds
  <2> QED
    BY <2>3, <2>4
<1> QED
  BY <1>5, <1>6

\* A sum is a number, nothing for the empty set, and it does not matter which element
\* is added last.
LEMMA SumFacts ==
  ASSUME NEW S, IsFiniteSet(S), NEW f, \A x \in S : f[x] \in Nat
  PROVE  /\ SumFunctionOnSet(f, {}) = 0
         /\ \A T \in SUBSET S : SumFunctionOnSet(f, T) \in Nat
         /\ \A T \in SUBSET S : \A x \in T :
              SumFunctionOnSet(f, T) = f[x] + SumFunctionOnSet(f, T \ {x})
<1>1. PICK g \in [SUBSET S -> Nat] : \A s \in SUBSET S : g[s] = Adds(f, g, s)
  BY SumExists
<1>2. \A T \in SUBSET S : SumFunctionOnSet(f, T) = g[T]
  BY <1>1, SumIs
<1>3. g[{}] = 0 /\ {} \in SUBSET S
  BY <1>1 DEF Adds
<1>4. \A s \in SUBSET S : s # {} => \E c \in s : g[s] = f[c] + g[s \ {c}]
  BY <1>1 DEF Adds
<1> DEFINE Odd == {T \in SUBSET S : \E x \in T : g[T] # f[x] + g[T \ {x}]}
<1>5. Odd = {}
  <2> SUFFICES ASSUME Odd # {} PROVE FALSE
    OBVIOUS
  <2>1. PICK T \in Odd : \A U \in SUBSET T : U \in Odd => U = T
    <3>1. Odd \in SUBSET SUBSET S
      OBVIOUS
    <3> HIDE DEF Odd
    <3> QED
      BY <3>1, SmallestSet
  <2>2. PICK x \in T : g[T] # f[x] + g[T \ {x}]
    BY <2>1
  <2>3. T \in SUBSET S /\ x \in S
    BY <2>1, <2>2
  <2>4. PICK c \in T : g[T] = f[c] + g[T \ {c}]
    BY <1>4, <2>2, <2>3
  <2>5. x # c
    BY <2>2, <2>4
  <2> DEFINE V == T \ {x}
             W == T \ {c}
  <2>6. /\ V \in SUBSET T /\ V # T /\ c \in V /\ V \in SUBSET S
        /\ W \in SUBSET T /\ W # T /\ x \in W /\ W \in SUBSET S
        /\ V \ {c} = W \ {x} /\ V \ {c} \in SUBSET S
    BY <2>2, <2>3, <2>4, <2>5
  <2>7. V \notin Odd /\ W \notin Odd
    BY <2>1, <2>6
  <2>8. g[V] = f[c] + g[V \ {c}] /\ g[W] = f[x] + g[W \ {x}]
    BY <2>6, <2>7
  <2>9. f[c] \in Nat /\ f[x] \in Nat /\ g[V \ {c}] \in Nat
    BY <2>3, <2>4, <2>6
  <2>10. g[T] = f[c] + g[W] /\ g[T] # f[x] + g[V] /\ g[W \ {x}] = g[V \ {c}]
    BY <2>2, <2>4, <2>6
  <2> HIDE DEF V, W
  <2> QED
    BY <2>8, <2>9, <2>10
<1>6. \A T \in SUBSET S : \A x \in T : T \ {x} \in SUBSET S /\ g[T] = f[x] + g[T \ {x}]
  BY <1>5
<1> QED
  BY <1>2, <1>3, <1>6

\* One element more.
LEMMA SumAdds ==
  ASSUME NEW S, IsFiniteSet(S), NEW f, \A x \in S : f[x] \in Nat,
         NEW T \in SUBSET S, NEW x \in S, x \notin T
  PROVE  SumFunctionOnSet(f, T \cup {x}) = f[x] + SumFunctionOnSet(f, T)
<1>1. T \cup {x} \in SUBSET S /\ x \in T \cup {x} /\ (T \cup {x}) \ {x} = T
  OBVIOUS
<1> QED
  BY <1>1, SumFacts

\* No term is larger than the sum.
LEMMA SumBounds ==
  ASSUME NEW S, IsFiniteSet(S), NEW f, \A x \in S : f[x] \in Nat,
         NEW T \in SUBSET S, NEW x \in T
  PROVE  f[x] <= SumFunctionOnSet(f, T)
<1>1. /\ f[x] \in Nat /\ SumFunctionOnSet(f, T \ {x}) \in Nat
      /\ SumFunctionOnSet(f, T) = f[x] + SumFunctionOnSet(f, T \ {x})
  BY SumFacts
<1> QED
  BY <1>1

\* Only the values on the set count.
LEMMA SumSame ==
  ASSUME NEW S, IsFiniteSet(S), NEW f, NEW g,
         \A x \in S : f[x] \in Nat /\ g[x] = f[x]
  PROVE  SumFunctionOnSet(g, S) = SumFunctionOnSet(f, S)
<1> DEFINE P == {T \in SUBSET S : SumFunctionOnSet(g, T) = SumFunctionOnSet(f, T)}
<1>1. {} \in P
  BY SumFacts
<1>2. ASSUME NEW T \in P, NEW x \in S, x \notin T PROVE T \cup {x} \in P
  <2>1. /\ SumFunctionOnSet(f, T \cup {x}) = f[x] + SumFunctionOnSet(f, T)
        /\ SumFunctionOnSet(g, T \cup {x}) = g[x] + SumFunctionOnSet(g, T)
    BY <1>2, SumAdds
  <2> QED
    BY <2>1
<1>3. P \in SUBSET SUBSET S
  OBVIOUS
<1>4. S \in P
  <2> HIDE DEF P
  <2> QED
    BY <1>1, <1>2, <1>3, SubsetInduction
<1> QED
  BY <1>4

\* Sums of sums of functions.
LEMMA SumPlus ==
  ASSUME NEW S, IsFiniteSet(S), NEW f, NEW g, NEW h,
         \A x \in S : f[x] \in Nat /\ g[x] \in Nat /\ h[x] = f[x] + g[x]
  PROVE  SumFunctionOnSet(h, S) = SumFunctionOnSet(f, S) + SumFunctionOnSet(g, S)
<1> DEFINE P == {T \in SUBSET S :
                   SumFunctionOnSet(h, T) = SumFunctionOnSet(f, T) + SumFunctionOnSet(g, T)}
<1>0. \A x \in S : h[x] \in Nat
  OBVIOUS
<1>1. {} \in P
  BY <1>0, SumFacts
<1>2. ASSUME NEW T \in P, NEW x \in S, x \notin T PROVE T \cup {x} \in P
  <2>1. /\ SumFunctionOnSet(f, T \cup {x}) = f[x] + SumFunctionOnSet(f, T)
        /\ SumFunctionOnSet(g, T \cup {x}) = g[x] + SumFunctionOnSet(g, T)
        /\ SumFunctionOnSet(h, T \cup {x}) = h[x] + SumFunctionOnSet(h, T)
    BY <1>0, <1>2, SumAdds
  <2>2. SumFunctionOnSet(f, T) \in Nat /\ SumFunctionOnSet(g, T) \in Nat
    BY SumFacts
  <2>3. f[x] \in Nat /\ g[x] \in Nat /\ h[x] = f[x] + g[x]
    OBVIOUS
  <2>4. SumFunctionOnSet(h, T) = SumFunctionOnSet(f, T) + SumFunctionOnSet(g, T)
    OBVIOUS
  <2>5. SumFunctionOnSet(h, T \cup {x})
          = SumFunctionOnSet(f, T \cup {x}) + SumFunctionOnSet(g, T \cup {x})
    BY <2>1, <2>2, <2>3, <2>4
  <2> QED
    BY <2>5
<1>3. P \in SUBSET SUBSET S
  OBVIOUS
<1>4. S \in P
  <2> HIDE DEF P
  <2> QED
    BY <1>1, <1>2, <1>3, SubsetInduction
<1> QED
  BY <1>4

\* A sum whose terms are all 1 counts.
LEMMA SumCounts ==
  ASSUME NEW S, IsFiniteSet(S), NEW f, \A x \in S : f[x] = 1
  PROVE  SumFunctionOnSet(f, S) = Cardinality(S)
<1> DEFINE P == {T \in SUBSET S : SumFunctionOnSet(f, T) = Cardinality(T)}
<1>1. {} \in P
  BY SumFacts, FS_EmptySet
<1>2. ASSUME NEW T \in P, NEW x \in S, x \notin T PROVE T \cup {x} \in P
  <2>1. SumFunctionOnSet(f, T \cup {x}) = f[x] + SumFunctionOnSet(f, T)
    BY <1>2, SumAdds
  <2>2. IsFiniteSet(T)
    BY FS_Subset
  <2>3. Cardinality(T) \in Nat /\ Cardinality(T \cup {x}) = Cardinality(T) + 1
    BY <1>2, <2>2, FS_AddElement, FS_CardinalityType
  <2> QED
    BY <2>1, <2>3
<1>3. P \in SUBSET SUBSET S
  OBVIOUS
<1>4. S \in P
  <2> HIDE DEF P
  <2> QED
    BY <1>1, <1>2, <1>3, SubsetInduction
<1> QED
  BY <1>4

\* The sum over two sets that share no element.
LEMMA SumUnion ==
  ASSUME NEW S, IsFiniteSet(S), NEW f, \A x \in S : f[x] \in Nat,
         NEW T \in SUBSET S, NEW U \in SUBSET S, T \cap U = {}
  PROVE  SumFunctionOnSet(f, T \cup U) = SumFunctionOnSet(f, T) + SumFunctionOnSet(f, U)
<1> DEFINE P == {V \in SUBSET U :
        SumFunctionOnSet(f, T \cup V) = SumFunctionOnSet(f, T) + SumFunctionOnSet(f, V)}
<1>0. IsFiniteSet(U)
  BY FS_Subset
<1>1. {} \in P
  <2>1. T \cup {} = T
    OBVIOUS
  <2>2. SumFunctionOnSet(f, T) \in Nat /\ SumFunctionOnSet(f, {}) = 0
    BY SumFacts
  <2> QED
    BY <2>1, <2>2
<1>2. ASSUME NEW V \in P, NEW x \in U, x \notin V PROVE V \cup {x} \in P
  <2>1. /\ V \in SUBSET S /\ x \in S /\ T \cup V \in SUBSET S /\ x \notin T \cup V
        /\ (T \cup V) \cup {x} = T \cup (V \cup {x})
    BY <1>2
  <2>2. SumFunctionOnSet(f, V \cup {x}) = f[x] + SumFunctionOnSet(f, V)
    BY <1>2, <2>1, SumAdds
  <2> DEFINE R == T \cup V
  <2>3. SumFunctionOnSet(f, R \cup {x}) = f[x] + SumFunctionOnSet(f, R)
    <3>1. R \in SUBSET S /\ x \in S /\ x \notin R
      BY <2>1
    <3> HIDE DEF R
    <3> QED
      BY <3>1, SumAdds
  <2>4. /\ SumFunctionOnSet(f, T) \in Nat /\ SumFunctionOnSet(f, V) \in Nat /\ f[x] \in Nat
        /\ SumFunctionOnSet(f, T \cup V) = SumFunctionOnSet(f, T) + SumFunctionOnSet(f, V)
    BY <2>1, SumFacts
  <2>5. SumFunctionOnSet(f, T \cup (V \cup {x}))
          = SumFunctionOnSet(f, T) + SumFunctionOnSet(f, V \cup {x})
    <3>1. SumFunctionOnSet(f, T \cup (V \cup {x})) = f[x] + SumFunctionOnSet(f, T \cup V)
      BY <2>1, <2>3, Zenon
    <3> QED
      BY <2>2, <2>4, <3>1
  <2> QED
    BY <2>5
<1>3. P \in SUBSET SUBSET U
  OBVIOUS
<1>4. U \in P
  <2> HIDE DEF P
  <2> QED
    BY <1>0, <1>1, <1>2, <1>3, SubsetInduction
<1> QED
  BY <1>4

\* The sums over sets that share no element add up to the sum over all of them.
LEMMA SumOfParts ==
  ASSUME NEW S, IsFiniteSet(S), NEW f, \A x \in S : f[x] \in Nat,
         NEW W, IsFiniteSet(W), NEW pt, \A w \in W : pt[w] \subseteq S,
         \A v, w \in W : v # w => pt[v] \cap pt[w] = {},
         NEW h, \A w \in W : h[w] = SumFunctionOnSet(f, pt[w])
  PROVE  SumFunctionOnSet(h, W) = SumFunctionOnSet(f, UNION {pt[w] : w \in W})
<1> DEFINE Of(V) == UNION {pt[w] : w \in V}
           P == {V \in SUBSET W : SumFunctionOnSet(h, V) = SumFunctionOnSet(f, Of(V))}
<1>0. \A w \in W : h[w] \in Nat
  BY SumFacts
<1>1. {} \in P
  <2>1. Of({}) = {}
    OBVIOUS
  <2>2. SumFunctionOnSet(f, {}) = 0 /\ SumFunctionOnSet(h, {}) = 0
    BY <1>0, SumFacts
  <2> QED
    BY <2>1, <2>2
<1>2. ASSUME NEW V \in P, NEW x \in W, x \notin V PROVE V \cup {x} \in P
  <2>1. /\ V \in SUBSET W
        /\ SumFunctionOnSet(h, V) = SumFunctionOnSet(f, Of(V))
    OBVIOUS
  <2>2. /\ Of(V) \in SUBSET S /\ pt[x] \in SUBSET S /\ Of(V) \cap pt[x] = {}
        /\ Of(V \cup {x}) = Of(V) \cup pt[x]
    BY <1>2, <2>1
  <2> HIDE DEF Of, P
  <2>3. SumFunctionOnSet(f, Of(V) \cup pt[x])
          = SumFunctionOnSet(f, Of(V)) + SumFunctionOnSet(f, pt[x])
    BY <2>2, SumUnion
  <2>4. SumFunctionOnSet(h, V \cup {x}) = h[x] + SumFunctionOnSet(h, V)
    BY <1>0, <1>2, <2>1, SumAdds
  <2>5. SumFunctionOnSet(f, Of(V)) \in Nat /\ h[x] \in Nat /\ h[x] = SumFunctionOnSet(f, pt[x])
    BY <1>0, <2>2, SumFacts
  <2>6. SumFunctionOnSet(h, V \cup {x}) = SumFunctionOnSet(f, Of(V \cup {x}))
    <3>1. SumFunctionOnSet(f, Of(V \cup {x})) = SumFunctionOnSet(f, Of(V) \cup pt[x])
      BY <2>2, Zenon
    <3> QED
      BY <2>1, <2>3, <2>4, <2>5, <3>1
  <2> QED
    BY <2>1, <2>6 DEF P
<1>3. P \in SUBSET SUBSET W
  OBVIOUS
<1>4. W \in P
  <2> HIDE DEF P
  <2> QED
    BY <1>1, <1>2, <1>3, SubsetInduction
<1> QED
  BY <1>4

\* So do their sizes.
LEMMA CountOfParts ==
  ASSUME NEW S, IsFiniteSet(S), NEW W, IsFiniteSet(W), NEW pt, \A w \in W : pt[w] \subseteq S,
         \A v, w \in W : v # w => pt[v] \cap pt[w] = {},
         NEW h, \A w \in W : h[w] = Cardinality(pt[w])
  PROVE  SumFunctionOnSet(h, W) = Cardinality(UNION {pt[w] : w \in W})
<1> DEFINE f == [x \in S |-> 1]
           all == UNION {pt[w] : w \in W}
<1>1. \A x \in S : f[x] = 1 /\ f[x] \in Nat
  OBVIOUS
<1> HIDE DEF f
<1>2. \A w \in W : h[w] = SumFunctionOnSet(f, pt[w])
  <2> TAKE w \in W
  <2>1. IsFiniteSet(pt[w]) /\ \A x \in pt[w] : f[x] = 1
    BY <1>1, FS_Subset
  <2> QED
    BY <2>1, SumCounts
<1>3. SumFunctionOnSet(h, W) = SumFunctionOnSet(f, all)
  BY <1>1, <1>2, SumOfParts
<1>4. IsFiniteSet(all) /\ \A x \in all : f[x] = 1
  <2>1. all \in SUBSET S
    OBVIOUS
  <2> QED
    BY <1>1, <2>1, FS_Subset
<1>5. SumFunctionOnSet(f, all) = Cardinality(all)
  BY <1>4, SumCounts
<1> QED
  BY <1>3, <1>5

\* A term that changes changes the sum by as much, and one that is new adds itself.
LEMMA SumChanges ==
  ASSUME NEW S, IsFiniteSet(S), NEW f, NEW g,
         \A x \in S : f[x] \in Nat /\ g[x] \in Nat,
         NEW d \in S, \A x \in S \ {d} : g[x] = f[x],
         NEW T \in SUBSET S, NEW U \in SUBSET S, d \in U, U \ {d} = T \ {d},
         d \notin T => f[d] = 0
  PROVE  SumFunctionOnSet(g, U) + f[d] = SumFunctionOnSet(f, T) + g[d]
<1> DEFINE R == T \ {d}
<1>1. R \in SUBSET S /\ U \ {d} = R /\ IsFiniteSet(R) /\ d \notin R
  BY FS_Subset
<1>2. SumFunctionOnSet(g, U) = g[d] + SumFunctionOnSet(g, R)
  BY <1>1, SumFacts
<1>3. SumFunctionOnSet(g, R) = SumFunctionOnSet(f, R)
  <2>1. \A x \in R : f[x] \in Nat /\ g[x] = f[x]
    OBVIOUS
  <2> HIDE DEF R
  <2> QED
    BY <1>1, <2>1, SumSame
<1>4. SumFunctionOnSet(f, T) = f[d] + SumFunctionOnSet(f, R)
  <2>1. CASE d \in T
    BY <2>1, SumFacts
  <2>2. CASE d \notin T
    <3>1. R = T /\ f[d] = 0
      BY <2>2
    <3>2. SumFunctionOnSet(f, T) \in Nat
      BY SumFacts
    <3> QED
      BY <3>1, <3>2
  <2> QED
    BY <2>1, <2>2
<1>5. SumFunctionOnSet(f, R) \in Nat /\ f[d] \in Nat /\ g[d] \in Nat
  BY <1>1, SumFacts
<1> QED
  BY <1>2, <1>3, <1>4, <1>5

-----------------------------------------------------------------------------
(* Load tests. *)

\* No message is held twice, and as long as no consumer has died none is missing; the
\* consumers start when all is pushed, and one that has sent its report has found the
\* queue empty, unless a fault of gRPC made it look so.
LoadSound ==
  /\ \A w \in LoadConsumers : consumer[w].got \cap waiting = {}
  /\ \A v, w \in LoadConsumers : v # w => consumer[v].got \cap consumer[w].got = {}
  /\ load.pc # "collect" => \A w \in LoadConsumers : consumer[w] = [pc |-> "none", got |-> {}]
  /\ load.pc = "collect" => produced = LoadMessages
  /\ (\A w \in LoadConsumers : consumer[w].pc # "dead") =>
        waiting \cup Reported(LoadConsumers) = 1..produced
  /\ \A w \in reports : consumer[w].pc = "sent"
  /\ \A w \in LoadConsumers :
        consumer[w].pc = "sent" /\ waiting # {} => faults > 0 /\ load.test = "grpc"
  /\ verdict # "none" => reports = LoadConsumers

LoadInv == LoadTypeOK /\ LoadSound /\ VerdictIsTrue

LEMMA LoadSets ==
  /\ IsFiniteSet(Payloads) /\ Cardinality(Payloads) = LoadMessages
  /\ IsFiniteSet(LoadConsumers) /\ LoadConsumers # {}
<1>1. LoadMessages \in Nat /\ LoadWorkers \in Nat /\ 1 \in LoadConsumers
  BY LoadAssumption DEF LoadConsumers
<1>2. 1 \in Int /\ LoadMessages \in Int /\ LoadWorkers \in Int
  BY <1>1
<1>3. IsFiniteSet(1..LoadWorkers) /\ IsFiniteSet(1..LoadMessages)
  BY <1>2, FS_Interval
<1>4. Cardinality(1..LoadMessages) = LoadMessages
  BY <1>1, <1>2, FS_Interval
<1> QED
  BY <1>1, <1>3, <1>4 DEF Payloads, LoadConsumers

\* What the master makes of the reports of all consumers.
LEMMA LoadSums ==
  ASSUME LoadTypeOK, LoadSound
  PROVE  /\ CountOf(LoadConsumers) = Cardinality(Reported(LoadConsumers))
         /\ SizeOf(LoadConsumers) = SumFunctionOnSet(LengthOf, Reported(LoadConsumers))
         /\ Reported(LoadConsumers) \subseteq Payloads
<1> DEFINE pt == [w \in LoadConsumers |-> consumer[w].got]
           all == UNION {pt[w] : w \in LoadConsumers}
           h == [w \in LoadConsumers |-> Cardinality(consumer[w].got)]
           k == [w \in LoadConsumers |-> SumFunctionOnSet(LengthOf, consumer[w].got)]
<1>1. \A w \in LoadConsumers : pt[w] \subseteq Payloads
  BY DEF LoadTypeOK
<1>2. \A v, w \in LoadConsumers : v # w => pt[v] \cap pt[w] = {}
  BY DEF LoadSound
<1>3. \A w \in LoadConsumers : /\ h[w] = Cardinality(pt[w])
                               /\ k[w] = SumFunctionOnSet(LengthOf, pt[w])
  OBVIOUS
<1>4. all = Reported(LoadConsumers) /\ all \subseteq Payloads
  BY <1>1 DEF Reported
<1>5. \A m \in Payloads : LengthOf[m] \in Nat
  BY DEF LengthOf, Payloads
<1>6. CountOf(LoadConsumers) = SumFunctionOnSet(h, LoadConsumers)
  BY DEF CountOf
<1>7. SizeOf(LoadConsumers) = SumFunctionOnSet(k, LoadConsumers)
  BY DEF SizeOf
<1> HIDE DEF pt, h, k
<1>8. SumFunctionOnSet(h, LoadConsumers) = Cardinality(all)
  BY <1>1, <1>2, <1>3, LoadSets, CountOfParts
<1>9. SumFunctionOnSet(k, LoadConsumers) = SumFunctionOnSet(LengthOf, all)
  BY <1>1, <1>2, <1>3, <1>5, LoadSets, SumOfParts
<1> QED
  BY <1>4, <1>6, <1>7, <1>8, <1>9

\* With a report of every consumer the master agrees when no message is left, and only
\* then.
LEMMA LoadAgrees ==
  ASSUME LoadTypeOK, LoadSound, load.pc = "collect",
         \A w \in LoadConsumers : consumer[w].pc = "sent"
  PROVE  /\ CountAgrees(LoadConsumers) => Reported(LoadConsumers) = Payloads /\ waiting = {}
         /\ waiting = {} => CountAgrees(LoadConsumers) /\ SizeAgrees(LoadConsumers)
<1>1. waiting \cup Reported(LoadConsumers) = Payloads
  BY DEF LoadSound, Payloads
<1>2. waiting \cap Reported(LoadConsumers) = {}
  BY DEF LoadSound, Reported
<1>3. ASSUME CountAgrees(LoadConsumers) PROVE Reported(LoadConsumers) = Payloads /\ waiting = {}
  <2>1. Reported(LoadConsumers) \subseteq Payloads
    BY <1>1
  <2>2. Cardinality(Reported(LoadConsumers)) = Cardinality(Payloads)
    BY <1>3, LoadSums, LoadSets DEF CountAgrees
  <2>3. Reported(LoadConsumers) = Payloads
    BY <2>1, <2>2, LoadSets, FS_Subset, FS_CardinalityType
  <2> QED
    BY <1>1, <1>2, <2>3
<1>4. ASSUME waiting = {} PROVE CountAgrees(LoadConsumers) /\ SizeAgrees(LoadConsumers)
  <2>1. Reported(LoadConsumers) = Payloads
    BY <1>1, <1>4
  <2> QED
    BY <2>1, LoadSums, LoadSets DEF CountAgrees, SizeAgrees
<1> QED
  BY <1>3, <1>4

LEMMA LoadInvInit == LoadInit => LoadInv
<1> SUFFICES ASSUME LoadInit PROVE LoadInv
  OBVIOUS
<1>1. load.pc = "setup" /\ load.test \in {"backend", "http", "grpc"}
  BY DEF LoadInit
<1>2. LoadTypeOK
  BY LoadAssumption DEF LoadInit, LoadTypeOK
<1>3. LoadSound
  <2>1. Reported(LoadConsumers) = {} /\ 1..produced = {}
    BY DEF LoadInit, Reported
  <2> QED
    BY <1>1, <2>1 DEF LoadInit, LoadSound
<1> QED
  BY <1>2, <1>3 DEF LoadInv, LoadInit, VerdictIsTrue

LEMMA LoadInvNext == LoadInv /\ [LoadNext]_loadVars => LoadInv'
<1> SUFFICES ASSUME LoadInv, [LoadNext]_loadVars PROVE LoadInv'
  OBVIOUS
<1> USE DEF LoadInv
<1>0. \/ verdict = "none"
      \/ load.pc = "collect" /\ \A w \in LoadConsumers : consumer[w].pc = "sent"
  BY LoadSets DEF LoadSound
<1>1. CASE SetUpBackend \/ SetUpService
  <2>1. UNCHANGED <<produced, waiting, consumer, reports, faults, verdict>>
    BY <1>1 DEF SetUpBackend, SetUpService
  <2>2. load' = [load EXCEPT !.pc = "produce"] /\ load.pc = "setup"
    BY <1>1 DEF SetUpBackend, SetUpService, MasterAt, MasterGoes
  <2>3. load'.pc = "produce" /\ load'.test = load.test /\ LoadTypeOK'
    BY <2>1, <2>2 DEF LoadTypeOK
  <2>4. Reported(LoadConsumers)' = Reported(LoadConsumers)
    BY <2>1 DEF Reported
  <2> QED
    BY <2>1, <2>2, <2>3, <2>4 DEF LoadSound, VerdictIsTrue
<1>2. CASE PushNext
  <2>1. /\ load.pc = "produce" /\ verdict = "none" /\ produced < LoadMessages
        /\ produced' = produced + 1 /\ waiting' = waiting \cup {produced + 1}
        /\ UNCHANGED <<load, consumer, reports, faults, verdict>>
    BY <1>2 DEF PushNext, MasterAt
  <2>2. produced \in Nat /\ LoadMessages \in Nat /\ produced + 1 \in Payloads
    BY <2>1, LoadAssumption DEF LoadTypeOK, Payloads
  <2>3. LoadTypeOK'
    BY <2>1, <2>2 DEF LoadTypeOK
  <2>4. \A w \in LoadConsumers : consumer[w] = [pc |-> "none", got |-> {}]
    BY <2>1 DEF LoadSound
  <2>5. Reported(LoadConsumers)' = {} /\ Reported(LoadConsumers) = {}
    BY <2>1, <2>4 DEF Reported
  <2>6. waiting = 1..produced /\ waiting' = 1..produced'
    BY <2>1, <2>2, <2>4, <2>5 DEF LoadSound
  <2> QED
    BY <2>1, <2>3, <2>4, <2>5, <2>6 DEF LoadSound, VerdictIsTrue
<1>3. CASE PushFails
  <2>1. UNCHANGED <<produced, waiting, consumer, reports, verdict>>
    BY <1>3 DEF PushFails
  <2>2. /\ load' = [load EXCEPT !.pc = "dead"] /\ load.pc = "produce" /\ verdict = "none"
        /\ faults < LoadFaults /\ faults' = faults + 1
    BY <1>3 DEF PushFails, MasterAt, MasterGoes, Fault
  <2>3. load'.pc = "dead" /\ load'.test = load.test /\ LoadTypeOK'
    BY <2>1, <2>2, LoadAssumption DEF LoadTypeOK
  <2>4. Reported(LoadConsumers)' = Reported(LoadConsumers)
    BY <2>1 DEF Reported
  <2>5. \A w \in LoadConsumers : consumer[w].pc = "none"
    BY <2>2 DEF LoadSound
  <2> QED
    BY <2>1, <2>2, <2>3, <2>4, <2>5 DEF LoadSound, VerdictIsTrue
<1>4. CASE ForkWorkers
  <2>1. /\ load.pc = "produce" /\ verdict = "none" /\ produced = LoadMessages
        /\ load' = [load EXCEPT !.pc = "collect"]
        /\ consumer' = [w \in LoadConsumers |-> [consumer[w] EXCEPT !.pc = "pull"]]
        /\ UNCHANGED <<produced, waiting, reports, faults, verdict>>
    BY <1>4 DEF ForkWorkers, MasterAt, MasterGoes
  <2>2. \A w \in LoadConsumers : consumer[w] = [pc |-> "none", got |-> {}]
    BY <2>1 DEF LoadSound
  <2>3. consumer' = [w \in LoadConsumers |-> [pc |-> "pull", got |-> {}]]
    BY <2>1, <2>2
  <2>4. load'.pc = "collect" /\ load'.test = load.test /\ LoadTypeOK'
    BY <2>1, <2>3 DEF LoadTypeOK
  <2>5. Reported(LoadConsumers)' = {} /\ Reported(LoadConsumers) = {}
    BY <2>2, <2>3 DEF Reported
  <2>6. reports = {} /\ waiting = 1..produced
    BY <2>2, <2>5 DEF LoadSound, LoadTypeOK
  <2> QED
    BY <2>1, <2>3, <2>4, <2>5, <2>6 DEF LoadSound, VerdictIsTrue
<1>5. ASSUME NEW w \in LoadConsumers, Takes(w) PROVE LoadInv'
  <2>1. PICK m \in waiting :
          /\ consumer[w].pc = "pull" /\ waiting' = waiting \ {m}
          /\ consumer' = [consumer EXCEPT ![w].got = @ \cup {m}]
          /\ UNCHANGED <<load, produced, reports, faults, verdict>>
    BY <1>5 DEF Takes
  <2>2. verdict = "none" /\ load.pc = "collect" /\ m \in Payloads
    BY <1>0, <2>1 DEF LoadSound, LoadTypeOK
  <2>3. \A v \in LoadConsumers : /\ consumer'[v].pc = consumer[v].pc
                                 /\ consumer'[v].got = IF v = w THEN consumer[w].got \cup {m}
                                                       ELSE consumer[v].got
    BY <2>1 DEF LoadTypeOK
  <2>4. LoadTypeOK'
    <3>1. consumer[w].got \cup {m} \in SUBSET Payloads
      BY <2>2 DEF LoadTypeOK
    <3> QED
      BY <2>1, <3>1 DEF LoadTypeOK
  <2>5. waiting' \cup Reported(LoadConsumers)' = waiting \cup Reported(LoadConsumers)
    BY <2>1, <2>3 DEF Reported
  <2>6. LoadSound'
    BY <2>1, <2>2, <2>3, <2>5 DEF LoadSound
  <2> QED
    BY <2>1, <2>2, <2>4, <2>6 DEF VerdictIsTrue
<1>6. ASSUME NEW w \in LoadConsumers, SendsReport(w) PROVE LoadInv'
  <2>1. /\ consumer[w].pc = "pull" /\ waiting = {}
        /\ consumer' = [consumer EXCEPT ![w].pc = "sent"]
        /\ UNCHANGED <<load, produced, waiting, reports, faults, verdict>>
    BY <1>6 DEF SendsReport
  <2>2. verdict = "none" /\ load.pc = "collect"
    BY <1>0, <2>1 DEF LoadSound
  <2>3. \A v \in LoadConsumers : /\ consumer'[v].got = consumer[v].got
                                 /\ consumer'[v].pc = IF v = w THEN "sent" ELSE consumer[v].pc
    BY <2>1 DEF LoadTypeOK
  <2>4. LoadTypeOK'
    BY <2>1 DEF LoadTypeOK
  <2>5. Reported(LoadConsumers)' = Reported(LoadConsumers)
    BY <2>3 DEF Reported
  <2>6. LoadSound'
    BY <2>1, <2>2, <2>3, <2>5 DEF LoadSound, LoadTypeOK
  <2> QED
    BY <2>1, <2>2, <2>4, <2>6 DEF VerdictIsTrue
<1>7. ASSUME NEW w \in LoadConsumers, ConsumeFails(w) PROVE LoadInv'
  <2>1. /\ consumer[w].pc = "pull" /\ faults < LoadFaults /\ faults' = faults + 1
        /\ UNCHANGED <<load, produced, reports, verdict>>
    BY <1>7 DEF ConsumeFails, Fault
  <2>2. verdict = "none" /\ load.pc = "collect"
    BY <1>0, <2>1 DEF LoadSound
  <2>3. faults \in Nat /\ faults' \in 0..LoadFaults /\ faults' > 0
    BY <2>1, LoadAssumption DEF LoadTypeOK
  <2>4. \/ waiting' \subseteq waiting /\ consumer' = [consumer EXCEPT ![w].pc = "dead"]
        \/ /\ load.test = "grpc" /\ waiting' = waiting
           /\ consumer' = [consumer EXCEPT ![w].pc = "sent"]
    BY <1>7 DEF ConsumeFails
  <2>5. CASE waiting' \subseteq waiting /\ consumer' = [consumer EXCEPT ![w].pc = "dead"]
    <3>1. \A v \in LoadConsumers : /\ consumer'[v].got = consumer[v].got
                                   /\ consumer'[v].pc = IF v = w THEN "dead" ELSE consumer[v].pc
      BY <2>5 DEF LoadTypeOK
    <3>2. LoadTypeOK'
      BY <2>1, <2>3, <2>5 DEF LoadTypeOK
    <3>3. LoadSound'
      BY <2>1, <2>2, <2>3, <2>5, <3>1 DEF LoadSound, LoadTypeOK
    <3> QED
      BY <2>1, <2>2, <3>2, <3>3 DEF VerdictIsTrue
  <2>6. CASE /\ load.test = "grpc" /\ waiting' = waiting
             /\ consumer' = [consumer EXCEPT ![w].pc = "sent"]
    <3>1. \A v \in LoadConsumers : /\ consumer'[v].got = consumer[v].got
                                   /\ consumer'[v].pc = IF v = w THEN "sent" ELSE consumer[v].pc
      BY <2>6 DEF LoadTypeOK
    <3>2. LoadTypeOK'
      BY <2>1, <2>3, <2>6 DEF LoadTypeOK
    <3>3. Reported(LoadConsumers)' = Reported(LoadConsumers)
      BY <3>1 DEF Reported
    <3>4. LoadSound'
      BY <2>1, <2>2, <2>3, <2>6, <3>1, <3>3 DEF LoadSound, LoadTypeOK
    <3> QED
      BY <2>1, <2>2, <3>2, <3>4 DEF VerdictIsTrue
  <2> QED
    BY <2>4, <2>5, <2>6
<1>8. ASSUME NEW w \in LoadConsumers, ReportLost(w) PROVE LoadInv'
  <2>1. /\ consumer[w].pc = "sent" /\ w \notin reports
        /\ faults < LoadFaults /\ faults' = faults + 1
        /\ consumer' = [consumer EXCEPT ![w].pc = "dead"]
        /\ UNCHANGED <<load, produced, waiting, reports, verdict>>
    BY <1>8 DEF ReportLost, Fault
  <2>2. verdict = "none" /\ load.pc = "collect"
    BY <2>1 DEF LoadSound
  <2>3. faults \in Nat /\ faults' \in 0..LoadFaults /\ faults' > 0
    BY <2>1, LoadAssumption DEF LoadTypeOK
  <2>4. \A v \in LoadConsumers : /\ consumer'[v].got = consumer[v].got
                                 /\ consumer'[v].pc = IF v = w THEN "dead" ELSE consumer[v].pc
    BY <2>1 DEF LoadTypeOK
  <2>5. LoadTypeOK'
    BY <2>1, <2>3 DEF LoadTypeOK
  <2>6. LoadSound'
    BY <2>1, <2>2, <2>3, <2>4 DEF LoadSound, LoadTypeOK
  <2> QED
    BY <2>1, <2>2, <2>5, <2>6 DEF VerdictIsTrue
<1>9. ASSUME NEW w \in LoadConsumers, Report(w) PROVE LoadInv'
  <2>1. /\ load.pc = "collect" /\ verdict = "none" /\ consumer[w].pc = "sent"
        /\ reports' = reports \cup {w}
        /\ UNCHANGED <<load, produced, waiting, consumer, faults>>
    BY <1>9 DEF Report, MasterAt
  <2>2. reports' \subseteq LoadConsumers /\ \A v \in reports' : consumer[v].pc = "sent"
    BY <2>1 DEF LoadSound, LoadTypeOK
  <2>3. verdict' \in {"none", "TEST_OK", "TEST_NOT_OK"}
    BY <1>9 DEF Report
  <2>4. verdict' # "none" => reports' = LoadConsumers
    BY <1>9 DEF Report, Collected
  <2>5. LoadTypeOK' /\ LoadSound'
    <3>1. Reported(LoadConsumers)' = Reported(LoadConsumers)
      BY <2>1 DEF Reported
    <3> QED
      BY <2>1, <2>2, <2>3, <2>4, <3>1 DEF LoadTypeOK, LoadSound
  <2>6. VerdictIsTrue'
    <3>1. Reported(LoadConsumers)' = Reported(LoadConsumers)
      BY <2>1 DEF Reported
    <3>2. CASE verdict' = "none"
      BY <3>2 DEF VerdictIsTrue
    <3>3. CASE verdict' # "none"
      <4>1. reports' = LoadConsumers /\ \A v \in LoadConsumers : consumer[v].pc = "sent"
        BY <2>2, <2>4, <3>3
      <4>2. /\ CountAgrees(LoadConsumers) => Reported(LoadConsumers) = Payloads /\ waiting = {}
            /\ waiting = {} => CountAgrees(LoadConsumers) /\ SizeAgrees(LoadConsumers)
        BY <2>1, <4>1, LoadAgrees
      <4>3. verdict' = IF /\ CountAgrees(reports')
                          /\ load.test = "backend" \/ SizeAgrees(reports')
                       THEN "TEST_OK" ELSE "TEST_NOT_OK"
        BY <1>9, <3>3 DEF Report
      <4>4. waiting # {} => faults > 0 /\ load.test = "grpc"
        BY <4>1, LoadSets DEF LoadSound
      <4> HIDE DEF LoadInv
      <4>5. CASE verdict' = "TEST_OK"
        <5>1. CountAgrees(LoadConsumers)
          BY <4>1, <4>3, <4>5
        <5> QED
          BY <2>1, <3>1, <4>2, <4>5, <5>1 DEF VerdictIsTrue
      <4>6. CASE verdict' # "TEST_OK"
        <5>1. waiting # {}
          BY <4>1, <4>2, <4>3, <4>6
        <5> QED
          BY <2>1, <4>4, <4>6, <5>1 DEF VerdictIsTrue
      <4> QED
        BY <4>5, <4>6
    <3> QED
      BY <3>2, <3>3
  <2> QED
    BY <2>5, <2>6
<1>10. CASE UNCHANGED loadVars
  <2>1. UNCHANGED <<load, produced, waiting, consumer, reports, faults, verdict>>
    BY <1>10 DEF loadVars
  <2>2. Reported(LoadConsumers)' = Reported(LoadConsumers)
    BY <2>1 DEF Reported
  <2> QED
    BY <2>1, <2>2 DEF LoadTypeOK, LoadSound, VerdictIsTrue
<1> QED
  BY <1>1, <1>2, <1>3, <1>4, <1>5, <1>6, <1>7, <1>8, <1>9, <1>10 DEF LoadNext

LEMMA LoadInvHolds == LoadSpec => []LoadInv
<1>1. LoadInit => LoadInv
  BY LoadInvInit
<1>2. LoadInv /\ [LoadNext]_loadVars => LoadInv'
  BY LoadInvNext
<1> QED
  BY <1>1, <1>2, PTL DEF LoadSpec

\* The variables of a load test have their types.
THEOREM LoadTypeCorrect == LoadSpec => []LoadTypeOK
<1>1. LoadInv => LoadTypeOK
  BY DEF LoadInv
<1> QED
  BY <1>1, LoadInvHolds, PTL

\* Whatever fails, for any number of messages and consumers: TEST_OK means that every
\* message has been pulled, and TEST_NOT_OK that some were left, after a fault by gRPC.
THEOREM VerdictIsTrueHolds == LoadSpec => []VerdictIsTrue
<1>1. LoadInv => VerdictIsTrue
  BY DEF LoadInv
<1> QED
  BY <1>1, LoadInvHolds, PTL

-----------------------------------------------------------------------------
(* The usage log. *)

\* What a document counts of a type, the documents of a set of hours, and the events of a
\* type and those hours whose updates have come through.
Counter(doc, t) == IF t = "msg_push" THEN doc.message_pushed ELSE doc.message_pulled
Counters(l, t) == [d \in Events |-> Counter(usageDoc[l][d], t)]
DocsOn(l, H) == {d \in Events : usageDoc[l][d].there /\ HourOf(usageDoc[l][d].date) \in H}
CountedOn(l, t, H) == {e \in OfType(Counted(l), t) : HourOf(usageEvent[e].ts) \in H}

\* The types, without the bound of the counters, which follows from the sums.
UsageTypes ==
  /\ usageEvent \in [Events -> [st: {"none", "queued", "taken"}, type: EventTypes, ts: Minute]]
  /\ usageUpdates \subseteq Update
  /\ usageDoc \in [UsageLogs -> [Events ->
       [there: BOOLEAN, date: Minute, message_pushed: Nat, message_pulled: Nat]]]
  /\ refused \in [UsageLogs -> SUBSET Events]

\* An update under way has events of one minute, which the worker has taken, and which no
\* other update of its log has had.
UpdatesSound ==
  /\ \A u \in usageUpdates : /\ u.of # {} /\ u.of \cap refused[u.log] = {}
                             /\ \A e, f \in u.of : usageEvent[e].ts = usageEvent[f].ts
  /\ \A l \in UsageLogs : \A e \in UnderWay(l) \cup refused[l] : usageEvent[e].st = "taken"
  /\ \A u, v \in usageUpdates : u.log = v.log /\ u # v => u.of \cap v.of = {}

\* A document is named by an event that it has counted; one that is not there counts nothing.
DocsSound ==
  \A l \in UsageLogs, d \in Events :
    /\ usageDoc[l][d].there => d \in Counted(l)
    /\ l = "hourly" /\ usageDoc[l][d].there =>
         HourOf(usageDoc[l][d].date) = usageDoc[l][d].date
    /\ ~ usageDoc[l][d].there => \A t \in EventTypes : Counter(usageDoc[l][d], t) = 0

\* Over any set of hours, the documents of a log add up to what was counted.
SumsSound ==
  \A l \in UsageLogs, t \in EventTypes, H \in SUBSET Hours :
    SumFunctionOnSet(Counters(l, t), DocsOn(l, H)) = Cardinality(CountedOn(l, t, H))

UsageInv == UsageTypes /\ UpdatesSound /\ DocsSound /\ SumsSound

\* An hour is a minute of its own hour.
LEMMA HourFacts ==
  \A m \in Minute : HourOf(m) \in Minute /\ HourOf(m) \in Hours /\ HourOf(HourOf(m)) = HourOf(m)
<1> SUFFICES ASSUME NEW m \in Minute
             PROVE  HourOf(m) \in Minute /\ HourOf(m) \in Hours /\ HourOf(HourOf(m)) = HourOf(m)
  OBVIOUS
<1> DEFINE P == MinutesPerHour
           q == m \div P
           h == P * q
<1>1. P \in Nat \ {0} /\ m \in Nat /\ Minutes \in Nat \ {0} /\ m <= Minutes - 1
  BY UsageAssumption DEF Minute
<1> HIDE DEF P
<1>2. m = P * (m \div P) + (m % P) /\ m \div P \in Nat
  BY <1>1
<1>3. m % P \in 0..P - 1 /\ m % P <= m
  BY <1>1
<1> HIDE DEF q
<1>4. q \in Nat /\ h \in Nat /\ h % P = 0
  BY <1>1, <1>2 DEF q
<1>5. m = h + (m % P)
  BY <1>2 DEF q
<1> HIDE DEF h
<1>6. m - (m % P) = h /\ h - (h % P) = h /\ h <= m
  BY <1>1, <1>3, <1>4, <1>5
<1>7. HourOf(m) = h /\ HourOf(h) = h
  BY <1>6 DEF HourOf, P
<1>8. h \in Minute
  BY <1>1, <1>4, <1>6 DEF Minute
<1> QED
  BY <1>7, <1>8 DEF Hours

LEMMA EventSets ==
  /\ IsFiniteSet(Events) /\ Cardinality(Events) = UsageEvents
  /\ \A T \in SUBSET Events : /\ IsFiniteSet(T) /\ Cardinality(T) \in Nat
                              /\ Cardinality(T) <= UsageEvents
<1>1. 1 \in Int /\ UsageEvents \in Nat /\ UsageEvents \in Int
  BY UsageAssumption
<1>2. IsFiniteSet(1..UsageEvents) /\ Cardinality(1..UsageEvents) = UsageEvents
  BY <1>1, FS_Interval
<1>3. IsFiniteSet(Events) /\ Cardinality(Events) = UsageEvents
  BY <1>2 DEF Events
<1> QED
  BY <1>3, FS_Subset, FS_CardinalityType

LEMMA MinutesAreFinite == IsFiniteSet(Minute) /\ IsFiniteSet(Hours)
<1>1. 0 \in Int /\ Minutes - 1 \in Int
  BY UsageAssumption
<1>2. IsFiniteSet(Minute)
  BY <1>1, FS_Interval DEF Minute
<1>3. Hours \in SUBSET Minute
  BY HourFacts DEF Hours
<1> QED
  BY <1>2, <1>3, FS_Subset

\* The terms of the sums are numbers.
LEMMA CountersType ==
  ASSUME UsageTypes, NEW l \in UsageLogs, NEW t \in EventTypes
  PROVE  \A d \in Events : /\ Counters(l, t)[d] = Counter(usageDoc[l][d], t)
                           /\ Counters(l, t)[d] \in Nat
BY DEF UsageTypes, Counters, Counter

\* No counter exceeds the number of events: it is a term of a sum of theirs.
LEMMA UsageTypesFollow == UsageInv => UsageTypeOK
<1> SUFFICES ASSUME UsageInv PROVE UsageTypeOK
  OBVIOUS
<1>1. ASSUME NEW l \in UsageLogs, NEW d \in Events, NEW t \in EventTypes
      PROVE  Counter(usageDoc[l][d], t) \in 0..UsageEvents
  <2>0. UsageEvents \in Nat
    BY UsageAssumption
  <2>1. CASE ~ usageDoc[l][d].there
    BY <2>0, <2>1 DEF UsageInv, DocsSound
  <2>2. CASE usageDoc[l][d].there
    <3>1. usageDoc[l][d].date \in Minute
      BY DEF UsageInv, UsageTypes
    <3>2. d \in DocsOn(l, Hours) /\ DocsOn(l, Hours) \in SUBSET Events
      BY <2>2, <3>1, HourFacts DEF DocsOn
    <3>3. \A x \in Events : /\ Counters(l, t)[x] = Counter(usageDoc[l][x], t)
                            /\ Counters(l, t)[x] \in Nat
      BY CountersType DEF UsageInv
    <3>4. Counters(l, t)[d] <= SumFunctionOnSet(Counters(l, t), DocsOn(l, Hours))
      BY <3>2, <3>3, EventSets, SumBounds
    <3>5. SumFunctionOnSet(Counters(l, t), DocsOn(l, Hours))
            = Cardinality(CountedOn(l, t, Hours))
      BY DEF UsageInv, SumsSound
    <3>6. CountedOn(l, t, Hours) \in SUBSET Events
      BY DEF CountedOn, OfType, Counted
    <3>7. Cardinality(CountedOn(l, t, Hours)) \in Nat
          /\ Cardinality(CountedOn(l, t, Hours)) <= UsageEvents
      BY <3>6, EventSets
    <3> QED
      BY <2>0, <3>3, <3>4, <3>5, <3>7
  <2> QED
    BY <2>1, <2>2
<1>2. \A l \in UsageLogs, d \in Events :
        /\ usageDoc[l][d].message_pushed \in 0..UsageEvents
        /\ usageDoc[l][d].message_pulled \in 0..UsageEvents
  <2> TAKE l \in UsageLogs, d \in Events
  <2>1. "msg_push" \in EventTypes /\ "msg_pull" \in EventTypes
    BY DEF EventTypes
  <2> QED
    BY <1>1, <2>1 DEF Counter
<1>3. usageDoc \in [UsageLogs -> [Events ->
         [there: BOOLEAN, date: Minute, message_pushed: Nat, message_pulled: Nat]]]
  BY DEF UsageInv, UsageTypes
<1>4. \A l \in UsageLogs, d \in Events : usageDoc[l][d] \in
         [there: BOOLEAN, date: Minute,
          message_pushed: 0..UsageEvents, message_pulled: 0..UsageEvents]
  <2> TAKE l \in UsageLogs, d \in Events
  <2>1. usageDoc[l][d] \in
          [there: BOOLEAN, date: Minute, message_pushed: Nat, message_pulled: Nat]
    BY <1>3
  <2> QED
    BY <1>2, <2>1
<1>5. usageDoc \in [UsageLogs -> [Events ->
        [there: BOOLEAN, date: Minute,
         message_pushed: 0..UsageEvents, message_pulled: 0..UsageEvents]]]
  <2> DEFINE D == [there: BOOLEAN, date: Minute,
                   message_pushed: 0..UsageEvents, message_pulled: 0..UsageEvents]
  <2>1. \A l \in UsageLogs, d \in Events : usageDoc[l][d] \in D
    BY <1>4
  <2> HIDE DEF D
  <2>2. \A l \in UsageLogs : usageDoc[l] \in [Events -> D]
    BY <1>3, <2>1
  <2>3. usageDoc \in [UsageLogs -> [Events -> D]]
    BY <1>3, <2>2
  <2> QED
    BY <2>3 DEF D
<1> QED
  BY <1>5 DEF UsageInv, UsageTypes, UsageTypeOK

\* The charts are sums of the invariant, over one hour and over all.
LEMMA UsageAdds == UsageInv => UsageAddsUp
<1> SUFFICES ASSUME UsageInv PROVE UsageAddsUp
  OBVIOUS
<1>0. "hourly" \in UsageLogs /\ "realtime" \in UsageLogs
      /\ "msg_push" \in EventTypes /\ "msg_pull" \in EventTypes
  BY DEF UsageLogs, EventTypes
<1>1. \A l \in UsageLogs, t \in EventTypes, H \in SUBSET Hours :
        SumFunctionOnSet(Counters(l, t), DocsOn(l, H)) = Cardinality(CountedOn(l, t, H))
  BY DEF UsageInv, SumsSound
<1>2. \A l \in UsageLogs, d \in Events : usageDoc[l][d].date \in Minute
  BY DEF UsageInv, UsageTypes
<1>3. \A h \in Hours : Dated("hourly", {h}) = DocsOn("hourly", {h})
  <2>1. \A d \in Events : usageDoc["hourly"][d].there =>
          HourOf(usageDoc["hourly"][d].date) = usageDoc["hourly"][d].date
    BY <1>0 DEF UsageInv, DocsSound
  <2> QED
    BY <2>1 DEF Dated, DocsOn
<1>4. Dated("hourly", Minute) = DocsOn("hourly", Hours)
  BY <1>0, <1>2, HourFacts DEF Dated, DocsOn
<1>5. \A h \in Hours : Dated("realtime", SameHour(h)) = DocsOn("realtime", {h})
  BY <1>0, <1>2 DEF Dated, DocsOn, SameHour
<1>6. \A l \in UsageLogs, t \in EventTypes, h \in Hours :
        Cardinality(CountedOn(l, t, {h})) = CountedIn(l, t, h)
  <2> TAKE l \in UsageLogs, t \in EventTypes, h \in Hours
  <2>1. CountedOn(l, t, {h}) = {e \in OfType(Counted(l), t) : HourOf(usageEvent[e].ts) = h}
    BY DEF CountedOn
  <2> QED
    BY <2>1 DEF CountedIn
<1> DEFINE pushed(l) == [d \in Events |-> usageDoc[l][d].message_pushed]
           pulled(l) == [d \in Events |-> usageDoc[l][d].message_pulled]
           both(l) == [d \in Events |->
                         usageDoc[l][d].message_pulled + usageDoc[l][d].message_pushed]
<1>7. \A l \in UsageLogs : /\ pushed(l) = Counters(l, "msg_push")
                           /\ pulled(l) = Counters(l, "msg_pull")
  BY DEF Counters, Counter
<1>8. ASSUME NEW h \in Hours
      PROVE  /\ Last5d(h).message_pushed = CountedIn("hourly", "msg_push", h)
             /\ Last5d(h).message_pulled = CountedIn("hourly", "msg_pull", h)
             /\ Last5dQueue(h) = Last5d(h).message_pushed + Last5d(h).message_pulled
             /\ Last12hQueue(SameHour(h)) = CountedIn("realtime", "msg_push", h)
  <2> DEFINE docs == DocsOn("hourly", {h})
  <2>0. {h} \in SUBSET Hours
    OBVIOUS
  <2>1. Last5d(h).message_pushed = SumFunctionOnSet(pushed("hourly"), docs)
    BY <1>3 DEF Last5d, SumOf
  <2>2. Last5d(h).message_pulled = SumFunctionOnSet(pulled("hourly"), docs)
    BY <1>3 DEF Last5d, SumOf
  <2>3. Last5dQueue(h) = SumFunctionOnSet(both("hourly"), docs)
    BY <1>3 DEF Last5dQueue, SumOf
  <2>4. Last12hQueue(SameHour(h)) = SumFunctionOnSet(pushed("realtime"), DocsOn("realtime", {h}))
    BY <1>5 DEF Last12hQueue, SumOf
  <2>5. docs \in SUBSET Events /\ IsFiniteSet(docs)
    BY EventSets DEF DocsOn
  <2>6. \A d \in docs : /\ pulled("hourly")[d] \in Nat /\ pushed("hourly")[d] \in Nat
                        /\ both("hourly")[d] = pulled("hourly")[d] + pushed("hourly")[d]
    BY <1>0, <2>5 DEF UsageInv, UsageTypes
  <2> HIDE DEF pushed, pulled, both, docs
  <2>7. SumFunctionOnSet(both("hourly"), docs)
          = SumFunctionOnSet(pulled("hourly"), docs) + SumFunctionOnSet(pushed("hourly"), docs)
    BY <2>5, <2>6, SumPlus
  <2>8. /\ SumFunctionOnSet(pulled("hourly"), docs) \in Nat
        /\ SumFunctionOnSet(pushed("hourly"), docs) \in Nat
    BY <2>5, <2>6, SumFacts
  <2>9. Last5dQueue(h) = Last5d(h).message_pushed + Last5d(h).message_pulled
    BY <2>1, <2>2, <2>3, <2>7, <2>8
  <2>10. /\ SumFunctionOnSet(pushed("hourly"), docs) = CountedIn("hourly", "msg_push", h)
         /\ SumFunctionOnSet(pulled("hourly"), docs) = CountedIn("hourly", "msg_pull", h)
         /\ SumFunctionOnSet(pushed("realtime"), DocsOn("realtime", {h}))
              = CountedIn("realtime", "msg_push", h)
    BY <1>0, <1>1, <1>6, <1>7, <2>0 DEF docs
  <2> QED
    BY <2>1, <2>2, <2>4, <2>9, <2>10
<1>9. UsageToday.message_pushed =
        SumFunctionOnSet([h \in Hours |-> CountedIn("hourly", "msg_push", h)], Hours)
  <2> DEFINE of == [h \in Hours |-> CountedOn("hourly", "msg_push", {h})]
             n == [h \in Hours |-> CountedIn("hourly", "msg_push", h)]
  <2>1. UsageToday.message_pushed = SumFunctionOnSet(pushed("hourly"), DocsOn("hourly", Hours))
    BY <1>4 DEF UsageToday, SumOf
  <2>2. SumFunctionOnSet(pushed("hourly"), DocsOn("hourly", Hours))
          = Cardinality(CountedOn("hourly", "msg_push", Hours))
    BY <1>0, <1>1, <1>7
  <2>3. \A h \in Hours : of[h] \subseteq Events /\ n[h] = Cardinality(of[h])
    BY <1>0, <1>6 DEF CountedOn, OfType, Counted
  <2>4. \A g, h \in Hours : g # h => of[g] \cap of[h] = {}
    BY DEF CountedOn
  <2>5. UNION {of[h] : h \in Hours} = CountedOn("hourly", "msg_push", Hours)
    BY DEF CountedOn
  <2> HIDE DEF of, n
  <2>6. SumFunctionOnSet(n, Hours) = Cardinality(UNION {of[h] : h \in Hours})
    BY <2>3, <2>4, EventSets, MinutesAreFinite, CountOfParts
  <2>7. UsageToday.message_pushed = SumFunctionOnSet(n, Hours)
    BY <2>1, <2>2, <2>5, <2>6
  <2> QED
    BY <2>7 DEF n
<1> QED
  BY <1>8, <1>9 DEF UsageAddsUp

LEMMA UsageInvInit == UsageInit => UsageInv
<1> SUFFICES ASSUME UsageInit PROVE UsageInv
  OBVIOUS
<1>1. \A l \in UsageLogs : UnderWay(l) = {} /\ refused[l] = {} /\ Counted(l) = {}
  BY DEF UsageInit, UnderWay, Counted
<1>2. \A l \in UsageLogs, d \in Events :
         usageDoc[l][d] =
           [there |-> FALSE, date |-> 0, message_pushed |-> 0, message_pulled |-> 0]
  BY DEF UsageInit
<1>3. UsageTypes
  <2>1. 0 \in Minute /\ \A t \in {"msg_push", "msg_pull"} : t \in EventTypes
    BY UsageAssumption DEF Minute, EventTypes
  <2>2. usageDoc \in [UsageLogs -> [Events ->
          [there: BOOLEAN, date: Minute, message_pushed: Nat, message_pulled: Nat]]]
    BY <2>1 DEF UsageInit
  <2>3. usageEvent \in [Events ->
          [st: {"none", "queued", "taken"}, type: EventTypes, ts: Minute]]
    BY <2>1 DEF UsageInit
  <2> QED
    BY <2>2, <2>3 DEF UsageInit, UsageTypes
<1>4. UpdatesSound
  BY <1>1 DEF UsageInit, UpdatesSound
<1>5. DocsSound
  BY <1>2 DEF DocsSound, Counter
<1>6. SumsSound
  <2> SUFFICES ASSUME NEW l \in UsageLogs, NEW t \in EventTypes, NEW H \in SUBSET Hours
               PROVE  SumFunctionOnSet(Counters(l, t), DocsOn(l, H))
                        = Cardinality(CountedOn(l, t, H))
    BY DEF SumsSound
  <2>1. DocsOn(l, H) = {} /\ CountedOn(l, t, H) = {}
    BY <1>1, <1>2 DEF DocsOn, CountedOn, OfType
  <2>2. SumFunctionOnSet(Counters(l, t), {}) = 0
    BY <1>3, CountersType, EventSets, SumFacts
  <2> QED
    BY <2>1, <2>2, FS_EmptySet
<1> QED
  BY <1>3, <1>4, <1>5, <1>6 DEF UsageInv

\* The dates of an update are all in the hour of its events.
LEMMA DatesFacts ==
  ASSUME UsageTypes, UpdatesSound, NEW u \in usageUpdates
  PROVE  /\ u.log \in UsageLogs /\ u.of \in SUBSET Events /\ u.of # {}
         /\ MinuteOf(u) \in Minute /\ \A e \in u.of : usageEvent[e].ts = MinuteOf(u)
         /\ \A date \in DatesOf(u.log, MinuteOf(u)) :
              /\ date \in Minute /\ HourOf(date) = HourOf(MinuteOf(u))
              /\ u.log = "hourly" => HourOf(date) = date
<1>1. u.log \in UsageLogs /\ u.of \in SUBSET Events /\ u.of # {}
  BY DEF UsageTypes, UpdatesSound, Update
<1>2. (CHOOSE e \in u.of : TRUE) \in u.of
  BY <1>1
<1>3. MinuteOf(u) \in Minute /\ \A e \in u.of : usageEvent[e].ts = MinuteOf(u)
  BY <1>1, <1>2 DEF MinuteOf, UsageTypes, UpdatesSound
<1> QED
  BY <1>1, <1>3, HourFacts DEF DatesOf

\* An update that comes to its end is the only one of its log with its events.
LEMMA UpdateEnds ==
  ASSUME UsageTypes, UpdatesSound, NEW u \in usageUpdates, usageUpdates' = usageUpdates \ {u}
  PROVE  /\ u.of \subseteq UnderWay(u.log)
         /\ UnderWay(u.log)' = UnderWay(u.log) \ u.of
         /\ \A l \in UsageLogs \ {u.log} : UnderWay(l)' = UnderWay(l)
<1>1. u.of \subseteq UnderWay(u.log)
  BY DEF UnderWay
<1>2. \A l \in UsageLogs \ {u.log} : UnderWay(l)' = UnderWay(l)
  BY DEF UnderWay
<1>3. UnderWay(u.log)' = UNION {v.of : v \in {w \in usageUpdates \ {u} : w.log = u.log}}
  BY DEF UnderWay
<1>4. \A v \in usageUpdates \ {u} : v.log = u.log => v.of \cap u.of = {}
  BY DEF UpdatesSound
<1>5. UNION {v.of : v \in {w \in usageUpdates \ {u} : w.log = u.log}} = UnderWay(u.log) \ u.of
  BY <1>4 DEF UnderWay
<1> QED
  BY <1>1, <1>2, <1>3, <1>5

Writes(u, d, date) == usageDoc' = [usageDoc EXCEPT ![u.log][d] = Increments(@, u, date)]

\* An update that writes a document of the hour of its events, or a new one named by one
\* of them, keeps the sums.
LEMMA UsageWrites ==
  ASSUME UsageInv, NEW u \in usageUpdates, NEW d \in Events,
         NEW date \in DatesOf(u.log, MinuteOf(u)),
         \/ /\ usageDoc[u.log][d].there
            /\ HourOf(usageDoc[u.log][d].date) = HourOf(MinuteOf(u))
         \/ d \in u.of,
         Writes(u, d, date), usageUpdates' = usageUpdates \ {u},
         UNCHANGED <<usageEvent, refused>>
  PROVE  UsageInv'
<1> DEFINE L == u.log
           m == MinuteOf(u)
           old == usageDoc[L][d]
           new == Increments(old, u, date)
<1>0. UsageTypes /\ UpdatesSound /\ DocsSound /\ SumsSound
  BY DEF UsageInv
<1>1. /\ L \in UsageLogs /\ u.of \in SUBSET Events /\ u.of # {} /\ m \in Minute
      /\ \A e \in u.of : usageEvent[e].ts = m
      /\ date \in Minute /\ HourOf(date) = HourOf(m) /\ (L = "hourly" => HourOf(date) = date)
  BY <1>0, DatesFacts
<1>2. /\ u.of \subseteq UnderWay(L) /\ UnderWay(L)' = UnderWay(L) \ u.of
      /\ \A l \in UsageLogs \ {L} : UnderWay(l)' = UnderWay(l)
  BY <1>0, UpdateEnds
<1>3. /\ Counted(L)' = Counted(L) \cup u.of /\ Counted(L) \cap u.of = {}
      /\ \A l \in UsageLogs \ {L} : Counted(l)' = Counted(l)
  <2>1. u.of \cap refused[L] = {} /\ \A e \in u.of : usageEvent[e].st = "taken"
    BY <1>0, <1>1, <1>2 DEF UpdatesSound
  <2> QED
    BY <1>1, <1>2, <2>1 DEF Counted
<1>4. /\ usageDoc'[L][d] = new
      /\ \A l \in UsageLogs, x \in Events : l # L \/ x # d => usageDoc'[l][x] = usageDoc[l][x]
      /\ usageDoc' = [usageDoc EXCEPT ![L] = [usageDoc[L] EXCEPT ![d] = new]]
  BY <1>0, <1>1 DEF UsageTypes, Writes
<1> DEFINE n(t) == Cardinality(OfType(u.of, t))
<1>5. \A t \in EventTypes : n(t) \in Nat
  <2> TAKE t \in EventTypes
  <2>1. OfType(u.of, t) \in SUBSET Events
    BY <1>1 DEF OfType
  <2> QED
    BY <2>1, EventSets
<1>6. /\ old.date \in Minute
      /\ new = [there |-> TRUE, date |-> date,
                message_pushed |-> old.message_pushed + n("msg_push"),
                message_pulled |-> old.message_pulled + n("msg_pull")]
  <2>1. old \in [there: BOOLEAN, date: Minute, message_pushed: Nat, message_pulled: Nat]
    BY <1>0, <1>1 DEF UsageTypes
  <2>2. new = [old EXCEPT !.there = TRUE, !.date = date,
                          !.message_pushed = @ + n("msg_push"),
                          !.message_pulled = @ + n("msg_pull")]
    BY DEF Increments
  <2> HIDE DEF old, new, n
  <2> QED
    BY <2>1, <2>2
<1>7. /\ new.there /\ new.date = date
      /\ \A t \in EventTypes : Counter(new, t) = Counter(old, t) + n(t)
  BY <1>6 DEF Counter, EventTypes
<1> HIDE DEF new, n
<1>8. UsageTypes'
  <2>1. "msg_push" \in EventTypes /\ "msg_pull" \in EventTypes
    BY DEF EventTypes
  <2>2. old.message_pushed \in Nat /\ old.message_pulled \in Nat
    BY <1>0, <1>1 DEF UsageTypes
  <2>3. new \in [there: BOOLEAN, date: Minute, message_pushed: Nat, message_pulled: Nat]
    BY <1>1, <1>5, <1>6, <2>1, <2>2
  <2> DEFINE D == [there: BOOLEAN, date: Minute, message_pushed: Nat, message_pulled: Nat]
  <2>4. usageDoc \in [UsageLogs -> [Events -> D]] /\ new \in D
    BY <1>0, <2>3 DEF UsageTypes
  <2> HIDE DEF D
  <2>5. [usageDoc[L] EXCEPT ![d] = new] \in [Events -> D]
    BY <1>1, <2>4
  <2>6. usageDoc' \in [UsageLogs -> [Events -> D]]
    BY <1>1, <1>4, <2>4, <2>5
  <2> QED
    BY <1>0, <2>6 DEF UsageTypes, D
<1>9. UpdatesSound'
  <2>1. \A l \in UsageLogs : UnderWay(l)' \subseteq UnderWay(l)
    BY <1>2
  <2> QED
    BY <1>0, <2>1 DEF UpdatesSound
<1>10. (old.there /\ HourOf(old.date) = HourOf(m)) \/ (d \in u.of /\ ~ old.there)
  BY <1>0, <1>1, <1>3 DEF DocsSound
<1>11. DocsSound'
  <2> SUFFICES ASSUME NEW l \in UsageLogs, NEW x \in Events
               PROVE  /\ usageDoc'[l][x].there => x \in Counted(l)'
                      /\ l = "hourly" /\ usageDoc'[l][x].there =>
                           HourOf(usageDoc'[l][x].date) = usageDoc'[l][x].date
                      /\ ~ usageDoc'[l][x].there =>
                           \A t \in EventTypes : Counter(usageDoc'[l][x], t) = 0
    BY DEF DocsSound
  <2>1. CASE l = L /\ x = d
    <3>1. x \in Counted(l)'
      BY <1>0, <1>1, <1>3, <1>10, <2>1 DEF DocsSound
    <3> QED
      BY <1>1, <1>4, <1>7, <2>1, <3>1
  <2>2. CASE l # L \/ x # d
    BY <1>0, <1>3, <1>4, <2>2 DEF DocsSound
  <2> QED
    BY <2>1, <2>2
<1>12. SumsSound'
  <2> SUFFICES ASSUME NEW l \in UsageLogs, NEW t \in EventTypes, NEW H \in SUBSET Hours
               PROVE  SumFunctionOnSet(Counters(l, t)', DocsOn(l, H)')
                        = Cardinality(CountedOn(l, t, H)')
    BY DEF SumsSound
  <2> DEFINE f == Counters(l, t)
             g == Counters(l, t)'
             T == DocsOn(l, H)
             U == DocsOn(l, H)'
  <2>1. SumFunctionOnSet(f, T) = Cardinality(CountedOn(l, t, H))
    BY <1>0 DEF SumsSound
  <2>2. \A x \in Events : f[x] = Counter(usageDoc[l][x], t) /\ f[x] \in Nat
    BY <1>0, CountersType
  <2>3. \A x \in Events : g[x] = Counter(usageDoc'[l][x], t)
    BY DEF Counters
  <2>4. T \in SUBSET Events /\ U \in SUBSET Events
    BY DEF DocsOn
  <2>5. \A x \in Events : l # L \/ x # d => g[x] = f[x] /\ (x \in U <=> x \in T)
    BY <1>4, <2>2, <2>3 DEF DocsOn
  <2>6. CASE l # L
    <3>1. U = T /\ \A x \in T : g[x] = f[x] /\ f[x] \in Nat
      BY <2>2, <2>4, <2>5, <2>6
    <3>2. CountedOn(l, t, H)' = CountedOn(l, t, H)
      BY <1>3, <2>6 DEF CountedOn, OfType
    <3>3. IsFiniteSet(T)
      BY <2>4, EventSets
    <3> HIDE DEF f, g, T, U
    <3>4. SumFunctionOnSet(g, T) = SumFunctionOnSet(f, T)
      BY <3>1, <3>3, SumSame
    <3> QED
      BY <2>1, <3>1, <3>2, <3>4 DEF f, g, T, U
  <2>7. CASE l = L /\ HourOf(m) \notin H
    <3>1. d \notin U
      BY <1>1, <1>4, <1>7, <2>7 DEF DocsOn
    <3>2. d \notin T
      BY <1>1, <1>10, <2>7 DEF DocsOn
    <3>3. U = T /\ \A x \in T : g[x] = f[x] /\ f[x] \in Nat
      <4>1. \A x \in T : x \in Events /\ x # d
        BY <2>4, <3>2
      <4>2. \A x \in U : x \in Events /\ x # d
        BY <2>4, <3>1
      <4> HIDE DEF f, g, T, U
      <4> QED
        BY <2>2, <2>5, <4>1, <4>2
    <3>4. CountedOn(l, t, H)' = CountedOn(l, t, H)
      <4>1. \A e \in u.of : HourOf(usageEvent[e].ts) \notin H
        BY <1>1, <2>7
      <4>2. Counted(l)' = Counted(l) \cup u.of
        BY <1>3, <2>7
      <4> QED
        BY <4>1, <4>2 DEF CountedOn, OfType
    <3>5. IsFiniteSet(T)
      BY <2>4, EventSets
    <3> HIDE DEF f, g, T, U
    <3>6. SumFunctionOnSet(g, T) = SumFunctionOnSet(f, T)
      BY <3>3, <3>5, SumSame
    <3> QED
      BY <2>1, <3>3, <3>4, <3>6 DEF f, g, T, U
  <2>8. CASE l = L /\ HourOf(m) \in H
    <3>1. d \in U
      BY <1>1, <1>4, <1>7, <2>8 DEF DocsOn
    <3>2. d \notin T => f[d] = 0
      <4>1. d \notin T => ~ old.there
        BY <1>1, <1>10, <2>8 DEF DocsOn
      <4> QED
        BY <1>0, <2>2, <2>8, <4>1 DEF DocsSound
    <3>3. g[d] = f[d] + n(t)
      BY <1>4, <1>7, <2>2, <2>3, <2>8
    <3>4. \A x \in Events \ {d} : g[x] = f[x]
      BY <2>5
    <3>5. U \ {d} = T \ {d}
      BY <2>4, <2>5
    <3>6. n(t) \in Nat /\ \A x \in Events : f[x] \in Nat /\ g[x] \in Nat
      BY <1>5, <2>2, <3>3, <3>4
    <3>7. SumFunctionOnSet(g, U) = SumFunctionOnSet(f, T) + n(t)
      <4>0. IsFiniteSet(Events) /\ \A x \in Events : f[x] \in Nat /\ g[x] \in Nat
        BY <3>6, EventSets
      <4> HIDE DEF f, g, T, U
      <4>1. SumFunctionOnSet(g, U) + f[d] = SumFunctionOnSet(f, T) + g[d]
        BY <2>4, <3>1, <3>2, <3>4, <3>5, <4>0, SumChanges
      <4>2. /\ SumFunctionOnSet(g, U) \in Nat /\ SumFunctionOnSet(f, T) \in Nat
            /\ f[d] \in Nat /\ g[d] \in Nat /\ n(t) \in Nat
        BY <2>4, <3>6, EventSets, SumFacts
      <4> QED
        BY <3>3, <4>1, <4>2
    <3>8. /\ CountedOn(l, t, H)' = CountedOn(l, t, H) \cup OfType(u.of, t)
          /\ CountedOn(l, t, H) \cap OfType(u.of, t) = {}
      BY <1>1, <1>3, <2>8 DEF CountedOn, OfType
    <3>9. CountedOn(l, t, H) \in SUBSET Events /\ OfType(u.of, t) \in SUBSET Events
      BY <1>1 DEF CountedOn, OfType, Counted
    <3>10. Cardinality(CountedOn(l, t, H) \cup OfType(u.of, t))
             = Cardinality(CountedOn(l, t, H)) + n(t)
      <4> DEFINE A == CountedOn(l, t, H)
                 B == OfType(u.of, t)
      <4>1. IsFiniteSet(A) /\ IsFiniteSet(B) /\ A \cap B = {}
        BY <3>8, <3>9, EventSets
      <4>2. Cardinality(A) \in Nat /\ Cardinality(B) \in Nat /\ Cardinality(A \cap B) = 0
        BY <3>9, <4>1, EventSets, FS_EmptySet
      <4>3. n(t) = Cardinality(B)
        BY DEF n
      <4> HIDE DEF A, B
      <4>4. Cardinality(A \cup B) = Cardinality(A) + Cardinality(B) - Cardinality(A \cap B)
        BY <4>1, FS_Union
      <4>5. Cardinality(A \cup B) = Cardinality(A) + n(t)
        BY <4>2, <4>3, <4>4
      <4> QED
        BY <4>5 DEF A, B
    <3> QED
      BY <2>1, <3>7, <3>8, <3>10 DEF f, g, T, U
  <2> QED
    BY <2>6, <2>7, <2>8
<1> QED
  BY <1>8, <1>9, <1>11, <1>12 DEF UsageInv

\* A step that changes neither the documents nor what has come through keeps them sound.
LEMMA UsageKeeps ==
  ASSUME UsageTypes, DocsSound, SumsSound, UNCHANGED usageDoc,
         \A l \in UsageLogs : Counted(l)' = Counted(l),
         \A l \in UsageLogs : \A e \in Counted(l) :
            usageEvent'[e].type = usageEvent[e].type /\ usageEvent'[e].ts = usageEvent[e].ts
  PROVE  DocsSound' /\ SumsSound'
<1>1. DocsSound'
  BY DEF DocsSound
<1>2. ASSUME NEW l \in UsageLogs, NEW t \in EventTypes, NEW H \in SUBSET Hours
      PROVE  /\ Counters(l, t)' = Counters(l, t) /\ DocsOn(l, H)' = DocsOn(l, H)
             /\ CountedOn(l, t, H)' = CountedOn(l, t, H)
  <2>1. Counters(l, t)' = Counters(l, t) /\ DocsOn(l, H)' = DocsOn(l, H)
    BY DEF Counters, DocsOn
  <2>2. CountedOn(l, t, H)' = CountedOn(l, t, H)
    BY DEF CountedOn, OfType
  <2> QED
    BY <2>1, <2>2
<1>3. SumsSound'
  <2> SUFFICES ASSUME NEW l \in UsageLogs, NEW t \in EventTypes, NEW H \in SUBSET Hours
               PROVE  SumFunctionOnSet(Counters(l, t)', DocsOn(l, H)')
                        = Cardinality(CountedOn(l, t, H)')
    BY DEF SumsSound
  <2> QED
    BY <1>2 DEF SumsSound
<1> QED
  BY <1>1, <1>3

LEMMA UsageInvNext == UsageInv /\ [UsageNext]_usageVars => UsageInv'
<1> SUFFICES ASSUME UsageInv, [UsageNext]_usageVars PROVE UsageInv'
  OBVIOUS
<1>0. UsageTypes /\ UpdatesSound /\ DocsSound /\ SumsSound
  BY DEF UsageInv
<1>1. ASSUME NEW e \in Events, NEW t \in EventTypes, NEW m \in Minute, AddUsage(e, t, m)
      PROVE  UsageInv'
  <2>1. /\ usageEvent[e].st = "none"
        /\ usageEvent' = [usageEvent EXCEPT ![e] = [st |-> "queued", type |-> t, ts |-> m]]
        /\ UNCHANGED <<usageUpdates, usageDoc, refused>>
    BY <1>1 DEF AddUsage
  <2>2. \A f \in Events : f # e => usageEvent'[f] = usageEvent[f]
    BY <1>0, <2>1 DEF UsageTypes
  <2>3. usageEvent'[e].st = "queued"
    BY <1>0, <2>1 DEF UsageTypes
  <2>4. UsageTypes'
    BY <1>0, <2>1 DEF UsageTypes
  <2>5. \A l \in UsageLogs : UnderWay(l)' = UnderWay(l) /\ Counted(l)' = Counted(l)
    BY <2>1, <2>2, <2>3 DEF UnderWay, Counted
  <2>6. \A l \in UsageLogs : /\ UnderWay(l) \subseteq Events \ {e}
                             /\ refused[l] \subseteq Events \ {e}
    <3> TAKE l \in UsageLogs
    <3>1. UnderWay(l) \subseteq Events /\ refused[l] \subseteq Events
      BY <1>0 DEF UnderWay, UsageTypes, Update
    <3> QED
      BY <1>0, <2>1, <3>1 DEF UpdatesSound
  <2>7. \A u \in usageUpdates : u.log \in UsageLogs /\ u.of \subseteq Events \ {e}
    <3> TAKE u \in usageUpdates
    <3>1. u.log \in UsageLogs /\ u.of \subseteq UnderWay(u.log)
      BY <1>0 DEF UnderWay, UsageTypes, Update
    <3> QED
      BY <2>6, <3>1
  <2>8. UpdatesSound'
    <3>1. \A u \in usageUpdates' : /\ u.of # {} /\ u.of \cap refused'[u.log] = {}
                                   /\ \A f, g \in u.of : usageEvent'[f].ts = usageEvent'[g].ts
      BY <1>0, <2>1, <2>2, <2>7 DEF UpdatesSound
    <3>2. \A l \in UsageLogs :
            \A f \in UnderWay(l)' \cup refused'[l] : usageEvent'[f].st = "taken"
      BY <1>0, <2>1, <2>2, <2>5, <2>6 DEF UpdatesSound
    <3> QED
      BY <1>0, <2>1, <3>1, <3>2 DEF UpdatesSound
  <2>9. \A l \in UsageLogs : \A f \in Counted(l) : usageEvent'[f] = usageEvent[f]
    BY <2>1, <2>2 DEF Counted
  <2>10. DocsSound' /\ SumsSound'
    BY <1>0, <2>1, <2>5, <2>9, UsageKeeps
  <2> QED
    BY <2>4, <2>8, <2>10 DEF UsageInv
<1>2. ASSUME NEW buffer \in SUBSET Events, ProcessUsage(buffer) PROVE UsageInv'
  <2>1. /\ \A e \in buffer : usageEvent[e].st = "queued"
        /\ usageEvent' = [e \in Events |->
              IF e \in buffer THEN [usageEvent[e] EXCEPT !.st = "taken"] ELSE usageEvent[e]]
        /\ usageUpdates' = usageUpdates \cup UpdatesOf(buffer)
        /\ UNCHANGED <<usageDoc, refused>>
    BY <1>2 DEF ProcessUsage
  <2>2. \A e \in Events :
          /\ usageEvent'[e].type = usageEvent[e].type /\ usageEvent'[e].ts = usageEvent[e].ts
          /\ usageEvent'[e].st = IF e \in buffer THEN "taken" ELSE usageEvent[e].st
    BY <1>0, <2>1 DEF UsageTypes
  <2>3. UpdatesOf(buffer) \subseteq Update
    BY DEF UpdatesOf, Update
  <2>4. UsageTypes'
    <3>1. usageEvent' \in [Events ->
            [st: {"none", "queued", "taken"}, type: EventTypes, ts: Minute]]
      BY <1>0, <2>1 DEF UsageTypes
    <3> QED
      BY <1>0, <2>1, <2>3, <3>1 DEF UsageTypes
  <2>5. \A u \in UpdatesOf(buffer) :
          /\ u.log \in UsageLogs /\ u.of # {} /\ u.of \subseteq buffer
          /\ \A e, f \in u.of : usageEvent[e].ts = usageEvent[f].ts
          /\ \A e \in u.of, f \in buffer : usageEvent[e].ts = usageEvent[f].ts => f \in u.of
    BY DEF UpdatesOf
  <2>6. \A u, v \in UpdatesOf(buffer) : u.log = v.log /\ u # v => u.of \cap v.of = {}
    <3> DEFINE at(m) == {e \in buffer : usageEvent[e].ts = m}
               Ms == {usageEvent[e].ts : e \in buffer}
    <3>1. \A u \in UpdatesOf(buffer) : \E l \in UsageLogs, m \in Ms :
            u = [log |-> l, of |-> at(m), pc |-> "sent"]
      BY DEF UpdatesOf
    <3>2. \A m, k : m # k => at(m) \cap at(k) = {}
      OBVIOUS
    <3> HIDE DEF at, Ms
    <3>3. ASSUME NEW u \in UpdatesOf(buffer), NEW v \in UpdatesOf(buffer), u.log = v.log, u # v
          PROVE  u.of \cap v.of = {}
      <4>1. PICK l \in UsageLogs, m \in Ms : u = [log |-> l, of |-> at(m), pc |-> "sent"]
        BY <3>1
      <4>2. PICK k \in UsageLogs, n \in Ms : v = [log |-> k, of |-> at(n), pc |-> "sent"]
        BY <3>1
      <4>3. l = k /\ u.of = at(m) /\ v.of = at(n)
        BY <3>3, <4>1, <4>2
      <4>4. m # n
        BY <3>3, <4>1, <4>2, <4>3
      <4> QED
        BY <3>2, <4>3, <4>4
    <3> QED
      BY <3>3
  <2>7. \A l \in UsageLogs : UnderWay(l)' = UnderWay(l) \cup buffer
    <3> TAKE l \in UsageLogs
    <3>1. UnderWay(l)' =
            UNION {v.of : v \in {w \in usageUpdates \cup UpdatesOf(buffer) : w.log = l}}
      BY <2>1 DEF UnderWay
    <3>2. UnderWay(l)' \subseteq UnderWay(l) \cup buffer
      BY <2>5, <3>1 DEF UnderWay
    <3>3. UnderWay(l) \subseteq UnderWay(l)'
      BY <3>1 DEF UnderWay
    <3>4. \A e \in buffer : \E u \in UpdatesOf(buffer) : u.log = l /\ e \in u.of
      <4> TAKE e \in buffer
      <4> DEFINE at(m) == {f \in buffer : usageEvent[f].ts = m}
                 Ms == {usageEvent[f].ts : f \in buffer}
      <4>1. UpdatesOf(buffer)
              = {[log |-> k, of |-> at(m), pc |-> "sent"] : k \in UsageLogs, m \in Ms}
        BY DEF UpdatesOf
      <4>2. usageEvent[e].ts \in Ms /\ e \in at(usageEvent[e].ts)
        OBVIOUS
      <4> HIDE DEF at, Ms
      <4>3. [log |-> l, of |-> at(usageEvent[e].ts), pc |-> "sent"] \in UpdatesOf(buffer)
        BY <4>1, <4>2
      <4> QED
        BY <4>2, <4>3
    <3> QED
      BY <3>1, <3>2, <3>3, <3>4
  <2>8. \A l \in UsageLogs : UnderWay(l) \cap buffer = {} /\ refused[l] \cap buffer = {}
    BY <1>0, <2>1 DEF UpdatesSound
  <2>9. \A l \in UsageLogs : Counted(l)' = Counted(l)
    BY <2>1, <2>2, <2>7, <2>8 DEF Counted
  <2>10. \A u \in usageUpdates : /\ u.log \in UsageLogs /\ u.of \subseteq Events
                                 /\ u.of \cap buffer = {}
    <3> TAKE u \in usageUpdates
    <3>1. u.log \in UsageLogs /\ u.of \subseteq Events /\ u.of \subseteq UnderWay(u.log)
      BY <1>0 DEF UnderWay, UsageTypes, Update
    <3> QED
      BY <2>8, <3>1
  <2>11. UpdatesSound'
    <3>1. \A u \in usageUpdates' : /\ u.of # {} /\ u.of \cap refused'[u.log] = {}
                                   /\ \A e, f \in u.of : usageEvent'[e].ts = usageEvent'[f].ts
      <4>1. CASE UpdatesOf(buffer) = {}
        BY <1>0, <2>1, <2>2, <2>10, <4>1 DEF UpdatesSound
      <4> TAKE u \in usageUpdates'
      <4>2. CASE u \in usageUpdates
        BY <1>0, <2>1, <2>2, <2>10, <4>2 DEF UpdatesSound
      <4>3. CASE u \in UpdatesOf(buffer)
        BY <2>1, <2>2, <2>5, <2>8, <4>3
      <4> QED
        BY <2>1, <4>2, <4>3
    <3>2. \A l \in UsageLogs :
            \A e \in UnderWay(l)' \cup refused'[l] : usageEvent'[e].st = "taken"
      <4> TAKE l \in UsageLogs
      <4>1. UnderWay(l) \subseteq Events /\ refused[l] \subseteq Events
        BY <1>0 DEF UnderWay, UsageTypes, Update
      <4> QED
        BY <1>0, <2>1, <2>2, <2>7, <4>1 DEF UpdatesSound
    <3>3. \A u, v \in usageUpdates' : u.log = v.log /\ u # v => u.of \cap v.of = {}
      <4> TAKE u, v \in usageUpdates'
      <4>1. CASE u \in usageUpdates /\ v \in usageUpdates
        BY <1>0, <4>1 DEF UpdatesSound
      <4>2. CASE u \in UpdatesOf(buffer) /\ v \in UpdatesOf(buffer)
        BY <2>6, <4>2
      <4>3. CASE u \in usageUpdates /\ v \in UpdatesOf(buffer)
        BY <2>5, <2>10, <4>3
      <4>4. CASE v \in usageUpdates /\ u \in UpdatesOf(buffer)
        BY <2>5, <2>10, <4>4
      <4> QED
        BY <2>1, <4>1, <4>2, <4>3, <4>4
    <3> QED
      BY <3>1, <3>2, <3>3 DEF UpdatesSound
  <2>12. \A l \in UsageLogs : Counted(l) \subseteq Events
    BY DEF Counted
  <2>13. DocsSound' /\ SumsSound'
    BY <1>0, <2>1, <2>2, <2>9, <2>12, UsageKeeps
  <2> QED
    BY <2>4, <2>11, <2>13 DEF UsageInv
<1>3. ASSUME NEW u \in usageUpdates, UpsertUsage(u) PROVE UsageInv'
  <2>0. UNCHANGED <<usageEvent, refused>>
    BY <1>3 DEF UpsertUsage
  <2>f. /\ u.log \in UsageLogs /\ u.of \in SUBSET Events /\ u.of # {}
        /\ \A date \in DatesOf(u.log, MinuteOf(u)) :
              date \in Minute /\ HourOf(date) = HourOf(MinuteOf(u))
    BY <1>0, DatesFacts
  <2>1. CASE /\ usageUpdates' = (usageUpdates \ {u}) \cup {[u EXCEPT !.pc = "insert"]}
             /\ UNCHANGED usageDoc
    <3> DEFINE w == [u EXCEPT !.pc = "insert"]
    <3>1. w \in Update /\ w.log = u.log /\ w.of = u.of
      BY <1>0 DEF UsageTypes, Update
    <3>2. usageUpdates' = (usageUpdates \ {u}) \cup {w}
      BY <2>1
    <3> HIDE DEF w
    <3>3. UsageTypes'
      BY <1>0, <2>0, <2>1, <3>1, <3>2 DEF UsageTypes
    <3>4. \A l \in UsageLogs : UnderWay(l)' = UnderWay(l)
      <4> TAKE l \in UsageLogs
      <4>1. UnderWay(l)' = UNION {x.of : x \in {y \in (usageUpdates \ {u}) \cup {w} : y.log = l}}
        BY <3>2 DEF UnderWay
      <4> QED
        BY <3>1, <4>1 DEF UnderWay
    <3>5. \A l \in UsageLogs : Counted(l)' = Counted(l)
      BY <2>0, <3>4 DEF Counted
    <3>6. UpdatesSound'
      <4>1. \A x \in usageUpdates' : /\ x.of # {} /\ x.of \cap refused'[x.log] = {}
                                     /\ \A e, f \in x.of : usageEvent'[e].ts = usageEvent'[f].ts
        BY <1>0, <2>0, <3>1, <3>2 DEF UpdatesSound
      <4>2. \A x, y \in usageUpdates' : x.log = y.log /\ x # y => x.of \cap y.of = {}
        BY <1>0, <3>1, <3>2 DEF UpdatesSound
      <4>3. \A l \in UsageLogs :
              \A e \in UnderWay(l)' \cup refused'[l] : usageEvent'[e].st = "taken"
        BY <1>0, <2>0, <3>4 DEF UpdatesSound
      <4> QED
        BY <4>1, <4>2, <4>3 DEF UpdatesSound
    <3>7. DocsSound' /\ SumsSound'
      BY <1>0, <2>0, <2>1, <3>5, UsageKeeps
    <3> QED
      BY <3>3, <3>6, <3>7 DEF UsageInv
  <2>2. CASE \E date \in DatesOf(u.log, MinuteOf(u)), d \in Events :
               /\ usageDoc[u.log][d].there
               /\ usageDoc[u.log][d].date \in DatesOf(u.log, MinuteOf(u))
               /\ Writes(u, d, date) /\ usageUpdates' = usageUpdates \ {u}
    <3>1. PICK date \in DatesOf(u.log, MinuteOf(u)), d \in Events :
               /\ usageDoc[u.log][d].there
               /\ usageDoc[u.log][d].date \in DatesOf(u.log, MinuteOf(u))
               /\ Writes(u, d, date) /\ usageUpdates' = usageUpdates \ {u}
      BY <2>2
    <3>2. HourOf(usageDoc[u.log][d].date) = HourOf(MinuteOf(u))
      BY <2>f, <3>1
    <3> QED
      BY <2>0, <3>1, <3>2, UsageWrites
  <2> QED
    BY <1>3, <2>1, <2>2 DEF UpsertUsage, Writes
<1>4. ASSUME NEW u \in usageUpdates, InsertUsage(u) PROVE UsageInv'
  <2>1. u.of \in SUBSET Events /\ u.of # {} /\ u.of \in SUBSET Nat
    BY <1>0, DatesFacts DEF Events
  <2>2. Min(u.of) \in u.of
    <3>1. \E x \in u.of : \A y \in u.of : x <= y
      BY <2>1, LeastNat
    <3> QED
      BY <3>1 DEF Min
  <2>3. \E date \in DatesOf(u.log, MinuteOf(u)) : Writes(u, Min(u.of), date)
    BY <1>4 DEF InsertUsage, Writes
  <2>4. usageUpdates' = usageUpdates \ {u} /\ UNCHANGED <<usageEvent, refused>>
    BY <1>4 DEF InsertUsage
  <2> QED
    BY <2>1, <2>2, <2>3, <2>4, UsageWrites
<1>5. ASSUME NEW u \in usageUpdates, UsageRefused(u) PROVE UsageInv'
  <2>1. /\ refused' = [refused EXCEPT ![u.log] = @ \cup u.of]
        /\ usageUpdates' = usageUpdates \ {u} /\ UNCHANGED <<usageEvent, usageDoc>>
    BY <1>5 DEF UsageRefused
  <2>2. u.log \in UsageLogs /\ u.of \in SUBSET Events
    BY <1>0, DatesFacts
  <2>3. /\ u.of \subseteq UnderWay(u.log) /\ UnderWay(u.log)' = UnderWay(u.log) \ u.of
        /\ \A l \in UsageLogs \ {u.log} : UnderWay(l)' = UnderWay(l)
    BY <1>0, <2>1, UpdateEnds
  <2>4. /\ refused'[u.log] = refused[u.log] \cup u.of
        /\ \A l \in UsageLogs \ {u.log} : refused'[l] = refused[l]
        /\ UsageTypes'
    <3>1. refused[u.log] \cup u.of \in SUBSET Events
      BY <1>0, <2>2 DEF UsageTypes
    <3> QED
      BY <1>0, <2>1, <2>2, <3>1 DEF UsageTypes
  <2>5. \A l \in UsageLogs : UnderWay(l)' \cup refused'[l] = UnderWay(l) \cup refused[l]
    BY <2>2, <2>3, <2>4
  <2>6. \A l \in UsageLogs : Counted(l)' = Counted(l)
    BY <2>1, <2>5 DEF Counted
  <2>7. UpdatesSound'
    <3>1. \A v \in usageUpdates' :
            v.of # {} /\ \A e, f \in v.of : usageEvent[e].ts = usageEvent[f].ts
      BY <1>0, <2>1 DEF UpdatesSound
    <3>2. \A v \in usageUpdates' : v.of \cap refused'[v.log] = {}
      <4> TAKE v \in usageUpdates'
      <4>1. v \in usageUpdates /\ v # u /\ v.log \in UsageLogs /\ v.of \cap refused[v.log] = {}
        BY <1>0, <2>1 DEF UpdatesSound, UsageTypes, Update
      <4>2. CASE v.log = u.log
        <5>1. v.of \cap u.of = {}
          BY <1>0, <4>1, <4>2 DEF UpdatesSound
        <5> QED
          BY <2>4, <4>1, <4>2, <5>1
      <4>3. CASE v.log # u.log
        BY <2>4, <4>1, <4>3
      <4> QED
        BY <4>2, <4>3
    <3>3. \A l \in UsageLogs :
            \A e \in UnderWay(l)' \cup refused'[l] : usageEvent'[e].st = "taken"
      BY <1>0, <2>1, <2>5 DEF UpdatesSound
    <3> QED
      BY <1>0, <2>1, <3>1, <3>2, <3>3 DEF UpdatesSound
  <2>8. DocsSound' /\ SumsSound'
    BY <1>0, <2>1, <2>6, UsageKeeps
  <2> QED
    BY <2>4, <2>7, <2>8 DEF UsageInv
<1>6. CASE UNCHANGED usageVars
  <2>1. UNCHANGED <<usageEvent, usageUpdates, usageDoc, refused>>
    BY <1>6 DEF usageVars
  <2>2. \A l \in UsageLogs : UnderWay(l)' = UnderWay(l) /\ Counted(l)' = Counted(l)
    BY <2>1 DEF UnderWay, Counted
  <2>3. UsageTypes' /\ UpdatesSound'
    BY <1>0, <2>1, <2>2 DEF UsageTypes, UpdatesSound
  <2>4. DocsSound' /\ SumsSound'
    BY <1>0, <2>1, <2>2, UsageKeeps
  <2> QED
    BY <2>3, <2>4 DEF UsageInv
<1> QED
  BY <1>1, <1>2, <1>3, <1>4, <1>5, <1>6 DEF UsageNext

LEMMA UsageInvHolds == UsageSpec => []UsageInv
<1>1. UsageInit => UsageInv
  BY UsageInvInit
<1>2. UsageInv /\ [UsageNext]_usageVars => UsageInv'
  BY UsageInvNext
<1> QED
  BY <1>1, <1>2, PTL DEF UsageSpec

\* The variables of the usage logs have their types; no counter exceeds the events.
THEOREM UsageTypeCorrect == UsageSpec => []UsageTypeOK
BY UsageInvHolds, UsageTypesFollow, PTL

\* For any events, buffers, hours and failures, the charts show exactly what was counted,
\* each hour and the whole day.
THEOREM UsageAddsUpHolds == UsageSpec => []UsageAddsUp
BY UsageInvHolds, UsageAdds, PTL
=============================================================================
