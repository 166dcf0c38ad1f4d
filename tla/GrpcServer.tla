----------------------------- MODULE GrpcServer -----------------------------
(***************************************************************************)
(* The gRPC service on one queue (proto/server.js, proto/client.js): the   *)
(* subscribers, each of which pulls messages and writes them to the stream *)
(* of its client until it learns that the client has gone, next to single  *)
(* pushes and pulls.  The checks of tokens are in AccessTokens.            *)
(*                                                                         *)
(* The server learns that a client has gone only from a write that failed: *)
(* the event comes later than the write.                                   *)
(***************************************************************************)
EXTENDS Calls, Integers

CONSTANTS MaxStreams, \* number of subscriptions, in the order clients open them
          UnaryCalls, \* number of single pushes and pulls, in the order they begin
          MaxPullFailures, \* how often the driver fails a pull
          MaxRemovals \* how often the queue is removed and created again

ASSUME GrpcAssumption ==
  MaxStreams \in Nat /\ UnaryCalls \in Nat /\ MaxPullFailures \in Nat
  /\ MaxRemovals \in Nat

VARIABLES stream,   \* subscription -> its state
          unary,    \* call -> what it does and where it is
          inQueue,  \* how many messages the queue holds: no two of them differ here
          queueThere,
          pullFailures, removals,
          afterStop \* subscription -> messages taken after it was stopped (history)

grpcVars == <<stream, unary, inQueue, queueThere, pullFailures, removals, afterStop>>

Streams == 1..MaxStreams
UnaryCallers == 1..UnaryCalls

\* present: the client is there.  failing: a write has failed and the event is to
\* come.  rejected, ended and killed: the stream stays open and silent after the
\* token or the queue was not found, the loop was left, or a pull has thrown.
StreamStates ==
  [pc: {"idle", "queue", "find", "take", "write", "nap", "rejected", "ended", "killed"},
   present: BOOLEAN, failing: BOOLEAN, stopped: BOOLEAN]

UnaryStates ==
  [op: {"none", "push", "pull"}, pc: {"idle", "send", "find", "take", "done"},
   answer: {"none", "ok", "failed"}]

GrpcTypeOK ==
  /\ stream \in [Streams -> StreamStates]
  /\ unary \in [UnaryCallers -> UnaryStates]
  /\ inQueue \in 0..UnaryCalls
  /\ queueThere \in BOOLEAN
  /\ pullFailures \in 0..MaxPullFailures /\ removals \in 0..MaxRemovals
  /\ afterStop \in [Streams -> Nat]

GrpcInit ==
  /\ stream = [s \in Streams |->
                 [pc |-> "idle", present |-> TRUE, failing |-> FALSE, stopped |-> FALSE]]
  /\ unary = [c \in UnaryCallers |->
                [op |-> "none", pc |-> "idle", answer |-> "none"]]
  /\ inQueue = 0 /\ queueThere \in BOOLEAN
  /\ pullFailures = 0 /\ removals = 0
  /\ afterStop = [s \in Streams |-> 0]

StreamGoes(s, l) == stream' = [stream EXCEPT ![s].pc = l]
StreamAt(s, l) == stream[s].pc = l
QueueAlone == UNCHANGED <<inQueue, queueThere, pullFailures, removals>>
StreamsAlone == UNCHANGED <<stream, afterStop>>

\* What happens to a stream makes no difference once its loop is left.
Looping(s) == stream[s].pc \in {"find", "take", "write", "nap"}
Active(s) == StreamAt(s, "queue") \/ Looping(s)

-----------------------------------------------------------------------------
(* A subscription. *)

\* Mutant of LoopsTo: stopped is not looked at.
LoopsForEver(s) == "find"

\* Where the loop goes on in the turn in which it is reached.
LoopsTo(s) == IF stream[s].stopped THEN "ended" ELSE "find"

\* subscribe and setup: the token, then the queue; without them the call is left.
Subscribe(s) ==
  /\ IsNext(stream, s)
  /\ StreamGoes(s, "queue") \/ StreamGoes(s, "rejected")
  /\ QueueAlone /\ UNCHANGED <<unary, afterStop>>

SetupQueue(s) ==
  /\ StreamAt(s, "queue")
  /\ StreamGoes(s, IF queueThere THEN LoopsTo(s) ELSE "rejected")
  /\ QueueAlone /\ UNCHANGED <<unary, afterStop>>

\* Without the queue the loop is left for good.
FindQueueOfStream(s) ==
  /\ StreamAt(s, "find")
  /\ StreamGoes(s, IF queueThere THEN "take" ELSE "ended")
  /\ QueueAlone /\ UNCHANGED <<unary, afterStop>>

\* The pull takes a message, which is logged before it is written, or finds none.
TakeForStream(s) ==
  /\ StreamAt(s, "take")
  /\ \/ /\ inQueue > 0
        /\ inQueue' = inQueue - 1
        /\ StreamGoes(s, "write")
        /\ afterStop' = [afterStop EXCEPT ![s] = IF stream[s].stopped THEN @ + 1 ELSE @]
     \/ inQueue = 0 /\ StreamGoes(s, "nap") /\ UNCHANGED <<inQueue, afterStop>>
  /\ UNCHANGED <<unary, queueThere, pullFailures, removals>>

\* What a pull throws ends start(), and nothing else.
PullThrows(s) ==
  /\ StreamAt(s, "take") /\ pullFailures < MaxPullFailures
  /\ StreamGoes(s, "killed")
  /\ pullFailures' = pullFailures + 1
  /\ UNCHANGED <<unary, inQueue, queueThere, removals, afterStop>>

\* What is written to a client that has gone is lost, and fails some time later.
WriteToStream(s) ==
  /\ StreamAt(s, "write")
  /\ stream' = [stream EXCEPT ![s].pc = LoopsTo(s), ![s].failing = (@ \/ ~ stream[s].present)]
  /\ QueueAlone /\ UNCHANGED <<unary, afterStop>>

\* 100 ms, and longer each time nothing was found.
Nap(s) ==
  /\ StreamAt(s, "nap")
  /\ StreamGoes(s, LoopsTo(s))
  /\ QueueAlone /\ UNCHANGED <<unary, afterStop>>

StreamError(s) ==
  /\ stream[s].failing /\ Active(s) /\ ~ stream[s].stopped
  /\ stream' = [stream EXCEPT ![s].stopped = TRUE]
  /\ QueueAlone /\ UNCHANGED <<unary, afterStop>>

ClientGoes(s) ==
  /\ stream[s].present /\ Active(s)
  /\ stream' = [stream EXCEPT ![s].present = FALSE]
  /\ QueueAlone /\ UNCHANGED <<unary, afterStop>>

-----------------------------------------------------------------------------
(* Single calls, once their token has passed the checks. *)

UnaryStep(c, r) == unary' = [unary EXCEPT ![c] = r]

UnaryBegin(c, o) ==
  /\ IsNext(unary, c)
  /\ UnaryStep(c, [unary[c] EXCEPT !.op = o, !.pc = IF o = "push" THEN "send" ELSE "find"])
  /\ QueueAlone /\ StreamsAlone

\* A push creates the queue that is not there.
UnaryPush(c) ==
  /\ InProgress(unary, c, "push", "send")
  /\ inQueue' = inQueue + 1
  /\ queueThere' = TRUE
  /\ UnaryStep(c, Ends(unary[c], "ok"))
  /\ UNCHANGED <<pullFailures, removals>> /\ StreamsAlone

UnaryFind(c) ==
  /\ InProgress(unary, c, "pull", "find")
  /\ UnaryStep(c, IF queueThere THEN GoesTo(unary[c], "take") ELSE Ends(unary[c], "failed"))
  /\ QueueAlone /\ StreamsAlone

\* Mutant of UnaryTake: a message is taken whether or not there is one.
UnaryTakeBlindly(c) ==
  /\ InProgress(unary, c, "pull", "take")
  /\ inQueue' = inQueue - 1
  /\ UnaryStep(c, Ends(unary[c], "ok"))
  /\ UNCHANGED <<queueThere, pullFailures, removals>> /\ StreamsAlone

UnaryTake(c) ==
  /\ InProgress(unary, c, "pull", "take")
  /\ inQueue' = IF inQueue = 0 THEN 0 ELSE inQueue - 1
  /\ UnaryStep(c, Ends(unary[c], "ok"))
  /\ UNCHANGED <<queueThere, pullFailures, removals>> /\ StreamsAlone

\* The queue is removed by another request, with its messages.
QueueRemoval ==
  /\ queueThere /\ removals < MaxRemovals
  /\ queueThere' = FALSE /\ inQueue' = 0
  /\ removals' = removals + 1
  /\ UNCHANGED <<unary, pullFailures>> /\ StreamsAlone

-----------------------------------------------------------------------------
StreamStep(s) ==
  \/ SetupQueue(s) \/ FindQueueOfStream(s) \/ TakeForStream(s)
  \/ WriteToStream(s) \/ Nap(s)

GrpcNext ==
  \/ \E s \in Streams :
       Subscribe(s) \/ StreamStep(s) \/ PullThrows(s) \/ StreamError(s) \/ ClientGoes(s)
  \/ \E c \in UnaryCallers, o \in {"push", "pull"} : UnaryBegin(c, o)
  \/ \E c \in UnaryCallers : UnaryPush(c) \/ UnaryFind(c) \/ UnaryTake(c)
  \/ QueueRemoval

\* The database answers, timers run out, and the event of a failed write comes.
GrpcFairness == \A s \in Streams : WF_grpcVars(StreamStep(s)) /\ WF_grpcVars(StreamError(s))

GrpcSpec == GrpcInit /\ [][GrpcNext]_grpcVars /\ GrpcFairness

-----------------------------------------------------------------------------
\* When a subscriber learns that its client has gone it may be in the middle of a
\* pull: it takes that message and loses it, and no other.
StoppedTakesOne == \A s \in Streams : afterStop[s] <= 1

\* No message waits while a subscriber runs, and no subscriber runs whose client has
\* gone and was written to: the loop takes what there is, and is left when the queue
\* is gone, a pull throws or a write has failed.
SubscribersServed == \A s \in Streams : Looping(s) => inQueue = 0 /\ ~ stream[s].failing
=============================================================================
