---------------------------- MODULE RedisClient ----------------------------
(***************************************************************************)
(* The Redis driver (lib/queue_backend/redis.js) on one queue: its calls   *)
(* are sequences of commands of the library rsmq, between which the other  *)
(* calls go on.  It implements MessageQueue: a message is delivered once,  *)
(* or is lost to a deletion, a purge or a call that fails.                 *)
(*                                                                         *)
(* Every command may fail because the connection does; a push may then     *)
(* have stored its message or not.                                         *)
(***************************************************************************)
EXTENDS Calls

CONSTANTS RedisCalls, \* number of calls, in the order they begin
          PullCount   \* how many messages a pull asks for

ASSUME RedisAssumption == RedisCalls \in Nat /\ PullCount \in Nat \ {0}

VARIABLES there,   \* whether the queue exists
          inRedis, \* the messages in the queue: a message has the number of its push
          dcall    \* call -> what it does, where it is, what a pull has popped

redisVars == <<there, inRedis, dcall>>

RedisCallers == 1..RedisCalls

RedisOps == {"connect", "create", "purge", "delete", "push", "pull"}

\* hung: the promise of the call is never settled.
RedisCallStates ==
  [op: RedisOps \cup {"none"},
   pc: {"idle", "ping", "list", "drop", "list_again", "make", "send", "pop", "return", "done"},
   left: 0..PullCount, got: SUBSET RedisCallers,
   answer: {"none", "ok", "failed", "hung"}]

RedisTypeOK ==
  /\ there \in BOOLEAN
  /\ inRedis \subseteq RedisCallers
  /\ dcall \in [RedisCallers -> RedisCallStates]

RedisInit ==
  /\ there \in BOOLEAN
  /\ inRedis = {}
  /\ dcall = [c \in RedisCallers |->
                [op |-> "none", pc |-> "idle", left |-> 0, got |-> {}, answer |-> "none"]]

RedisStep(c, r) == dcall' = [dcall EXCEPT ![c] = r]
RedisGoes(c, l) == RedisStep(c, GoesTo(dcall[c], l))
RedisEnds(c, a) == RedisStep(c, Ends(dcall[c], a))
RedisAt(c, l) == dcall[c].pc = l
QueueKept == UNCHANGED <<there, inRedis>>

\* Each call sends its first command as it begins.
FirstCommand(o) == CASE o = "connect" -> "ping" [] o = "push" -> "send"
                     [] o = "pull" -> "pop" [] OTHER -> "list"

RedisBegin(c, o) ==
  /\ IsNext(dcall, c)
  /\ RedisStep(c, [dcall[c] EXCEPT !.op = o, !.pc = FirstCommand(o),
                                   !.left = IF o = "pull" THEN PullCount ELSE 0])
  /\ QueueKept

-----------------------------------------------------------------------------
\* connect: the answer to a ping or the timer of 1.5 s, whichever is first; the
\* other finds the promise settled.
Ping(c) ==
  /\ RedisAt(c, "ping")
  /\ RedisEnds(c, "ok") \/ RedisEnds(c, "failed")
  /\ QueueKept

\* create, purge and delete list the queues first: nothing is to be done when the
\* queue is there (create) or is not (purge, delete).
ListQueues(c) ==
  /\ RedisAt(c, "list")
  /\ IF there = (dcall[c].op = "create") THEN RedisEnds(c, "ok")
     ELSE RedisGoes(c, IF dcall[c].op = "create" THEN "make" ELSE "drop")
  /\ QueueKept

\* deleteQueue fails when another call has deleted the queue since.  purge goes on
\* to create it.
DropQueue(c) ==
  /\ RedisAt(c, "drop")
  /\ there' = FALSE
  /\ inRedis' = {}
  /\ IF ~ there THEN RedisEnds(c, "failed")
     ELSE IF dcall[c].op = "delete" THEN RedisEnds(c, "ok")
     ELSE RedisGoes(c, "list_again")

ListAgain(c) ==
  /\ RedisAt(c, "list_again")
  /\ IF there THEN RedisEnds(c, "ok") ELSE RedisGoes(c, "make")
  /\ QueueKept

\* What is thrown in the callback of a purge settles no promise.
Throws(c) == RedisEnds(c, IF dcall[c].op = "purge" /\ dcall[c].pc \in {"list_again", "make"}
                          THEN "hung" ELSE "failed")

\* createQueue fails when another call has created the queue since.
MakeQueue(c) ==
  /\ RedisAt(c, "make")
  /\ IF there THEN Throws(c) ELSE RedisEnds(c, "ok")
  /\ there' = TRUE
  /\ UNCHANGED inRedis

Send(c) ==
  /\ RedisAt(c, "send")
  /\ IF there THEN inRedis' = inRedis \cup {c} /\ RedisEnds(c, "ok")
     ELSE RedisEnds(c, "failed") /\ UNCHANGED inRedis
  /\ UNCHANGED there

\* Mutant of Pop: the message is received and stays in the queue.
Receive(c) ==
  /\ RedisAt(c, "pop")
  /\ \/ /\ ~ there
        /\ RedisStep(c, Ends([dcall[c] EXCEPT !.got = {}, !.left = 0], "failed"))
        /\ UNCHANGED inRedis
     \/ /\ there /\ inRedis = {}
        /\ RedisStep(c, Ends([dcall[c] EXCEPT !.left = 0], "ok"))
        /\ UNCHANGED inRedis
     \/ \E m \in inRedis :
          /\ there
          /\ UNCHANGED inRedis
          /\ RedisStep(c, [dcall[c] EXCEPT !.got = @ \cup {m}, !.left = @ - 1,
                             !.pc = IF dcall[c].left = 1 THEN "return" ELSE "pop"])
  /\ UNCHANGED there

\* popMessage: the loop ends when the queue is empty.  Without the queue the pull
\* fails, and what it had popped is lost.
Pop(c) ==
  /\ RedisAt(c, "pop")
  /\ \/ /\ ~ there
        /\ RedisStep(c, Ends([dcall[c] EXCEPT !.got = {}, !.left = 0], "failed"))
        /\ UNCHANGED inRedis
     \/ /\ there /\ inRedis = {}
        /\ RedisStep(c, Ends([dcall[c] EXCEPT !.left = 0], "ok"))
        /\ UNCHANGED inRedis
     \/ \E m \in inRedis :
          /\ there
          /\ inRedis' = inRedis \ {m}
          /\ RedisStep(c, [dcall[c] EXCEPT !.got = @ \cup {m}, !.left = @ - 1,
                             !.pc = IF dcall[c].left = 1 THEN "return" ELSE "pop"])
  /\ UNCHANGED there

PullReturns(c) == RedisAt(c, "return") /\ RedisEnds(c, "ok") /\ QueueKept

\* The connection fails a command, before or after Redis has carried it out.
CommandFails(c) ==
  \/ /\ dcall[c].pc \in {"list", "drop", "list_again", "make", "send"}
     /\ Throws(c)
     /\ QueueKept
  \/ /\ RedisAt(c, "send") /\ there
     /\ inRedis' = inRedis \cup {c}
     /\ RedisEnds(c, "failed")
     /\ UNCHANGED there
  \/ \E gone \in SUBSET inRedis :
       /\ RedisAt(c, "pop") /\ there /\ \A m, n \in gone : m = n
       /\ inRedis' = inRedis \ gone
       /\ RedisStep(c, Ends([dcall[c] EXCEPT !.got = {}, !.left = 0], "failed"))
       /\ UNCHANGED there

RedisNext ==
  \E c \in RedisCallers :
    \/ \E o \in RedisOps : RedisBegin(c, o)
    \/ Ping(c) \/ ListQueues(c) \/ DropQueue(c) \/ ListAgain(c) \/ MakeQueue(c)
    \/ Send(c) \/ Pop(c) \/ PullReturns(c) \/ CommandFails(c)

RedisSpec == RedisInit /\ [][RedisNext]_redisVars

-----------------------------------------------------------------------------
Pulled(c) == dcall[c].op = "pull" /\ dcall[c].answer = "ok"

RedisQueue == INSTANCE MessageQueue WITH
  Messages  <- RedisCallers,
  Consumers <- RedisCallers,
  Lossy     <- TRUE,
  fresh     <- {c \in RedisCallers : dcall[c].pc \in {"idle", "send"}},
  queued    <- inRedis,
  taken     <- [c \in RedisCallers |-> IF Pulled(c) THEN {} ELSE dcall[c].got],
  delivered <- [c \in RedisCallers |-> IF Pulled(c) THEN dcall[c].got ELSE {}]

\* Pushes, pulls, purges and deletions of a queue, with their commands interleaved
\* and failing, are steps of the queue that drivers promise: no message is
\* delivered twice or to two callers, and none comes back after it was lost.
RedisImplementsQueue == RedisQueue!Spec
=============================================================================
