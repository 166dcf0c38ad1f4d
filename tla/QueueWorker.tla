---------------------------- MODULE QueueWorker ----------------------------
(***************************************************************************)
(* The loop that turns queued events into database updates                 *)
(* (lib/queue_worker.js; lib/queue_stats_worker.js and lib/log_worker.js   *)
(* extend it), run by one or several processes on one queue.               *)
(*                                                                         *)
(* A process is single-threaded: the code between two awaits that wait for *)
(* a database or a timer is one step.  flushBuffer waits for nothing of    *)
(* that kind, because processBufferFn issues its updates without awaiting  *)
(* them: a flush is part of the step that calls it.                        *)
(*                                                                         *)
(* The backend queue is the abstract one of MessageQueue: a pull takes one *)
(* message out and acknowledges it at once.                                *)
(***************************************************************************)
EXTENDS Naturals, FiniteSets

CONSTANTS Workers,    \* processes that run the worker
          Messages,   \* events pushed to the queue
          BufferSize, \* messages a buffer holds when it is flushed
          Failures,   \* whether init and pull may reject
          Crashes     \* whether a process may be killed

ASSUME WorkerAssumption ==
  /\ IsFiniteSet(Workers)
  /\ IsFiniteSet(Messages)
  /\ BufferSize \in Nat \ {0}
  /\ Failures \in BOOLEAN
  /\ Crashes \in BOOLEAN

VARIABLES sent,     \* messages pushed so far
          queue,    \* messages in the backend queue
          loop,     \* where startWorker of each process is
          stopped,  \* SIGINT set the flag, with process.exit as the callback
          inflight, \* what the pull in progress has taken out of the queue
          buffer,   \* messages the process holds in memory
          flushed,  \* the buffers that were handed to processBufferFn
          counted   \* messages whose updates the database has executed

vars == <<sent, queue, loop, stopped, inflight, buffer, flushed, counted>>

\* failed: startWorker rejected, the process stays.  exited: process.exit().
Running == {"init", "pulling", "answered", "asleep"}
Alive == Running \cup {"failed"}
Places == Alive \cup {"exited", "killed"}

TypeOK ==
  /\ sent \subseteq Messages
  /\ queue \subseteq Messages
  /\ loop \in [Workers -> Places]
  /\ stopped \in [Workers -> BOOLEAN]
  /\ inflight \in [Workers -> SUBSET Messages]
  /\ buffer \in [Workers -> SUBSET Messages]
  /\ flushed \in [Workers -> SUBSET SUBSET Messages]
  /\ counted \subseteq Messages

Init ==
  /\ sent = {}
  /\ queue = {}
  /\ loop = [w \in Workers |-> "init"]
  /\ stopped = [w \in Workers |-> FALSE]
  /\ inflight = [w \in Workers |-> {}]
  /\ buffer = [w \in Workers |-> {}]
  /\ flushed = [w \in Workers |-> {}]
  /\ counted = {}

-----------------------------------------------------------------------------
\* Mutant of Flush: the buffer is handed over and not reset.
FlushKeeps(w, held) ==
  /\ flushed' = [flushed EXCEPT ![w] = @ \cup ({held} \ {{}})]
  /\ buffer' = [buffer EXCEPT ![w] = held]

\* flushBuffer with the messages held: an empty buffer is not processed.
Flush(w, held) ==
  /\ flushed' = [flushed EXCEPT ![w] = @ \cup ({held} \ {{}})]
  /\ buffer' = [buffer EXCEPT ![w] = {}]

\* Mutant of Hold: the array that pull returned is buffered, not its message.
HoldArray(w, held) ==
  /\ buffer' = [buffer EXCEPT ![w] = buffer[w] \cup ({held \ buffer[w]} \ {{}})]
  /\ UNCHANGED flushed

Hold(w, held) ==
  /\ buffer' = [buffer EXCEPT ![w] = held]
  /\ UNCHANGED flushed

\* The end of the loop's body: the next pull, or stopCb, which exits.
Again(w) == loop' = [loop EXCEPT ![w] = IF stopped[w] THEN "exited" ELSE "pulling"]

\* Some process pushes an event.
Push(m) ==
  /\ m \notin sent
  /\ sent' = sent \cup {m}
  /\ queue' = queue \cup {m}
  /\ UNCHANGED <<loop, stopped, inflight, buffer, flushed, counted>>

\* init connects, creates the queue and lets the loop begin.
Start(w) ==
  /\ loop[w] = "init"
  /\ Again(w)
  /\ UNCHANGED <<sent, queue, stopped, inflight, buffer, flushed, counted>>

\* The backend executes the pull.
Pull(w) ==
  /\ loop[w] = "pulling"
  /\ \/ \E m \in queue : /\ queue' = queue \ {m}
                         /\ inflight' = [inflight EXCEPT ![w] = {m}]
     \/ queue = {} /\ UNCHANGED <<queue, inflight>>
  /\ loop' = [loop EXCEPT ![w] = "answered"]
  /\ UNCHANGED <<sent, stopped, buffer, flushed, counted>>

\* Mutant of Receive: the buffer is compared with its limit before the message
\* is added.
ReceiveLate(w) ==
  /\ loop[w] = "answered"
  /\ inflight[w] # {}
  /\ IF Cardinality(buffer[w]) = BufferSize
     THEN Flush(w, buffer[w] \cup inflight[w])
     ELSE Hold(w, buffer[w] \cup inflight[w])
  /\ inflight' = [inflight EXCEPT ![w] = {}]
  /\ Again(w)
  /\ UNCHANGED <<sent, queue, stopped, counted>>

\* The pull brought a message; a buffer that is full now is flushed.
Receive(w) ==
  /\ loop[w] = "answered"
  /\ inflight[w] # {}
  /\ LET held == buffer[w] \cup inflight[w]
     IN  IF Cardinality(held) = BufferSize THEN Flush(w, held) ELSE Hold(w, held)
  /\ inflight' = [inflight EXCEPT ![w] = {}]
  /\ Again(w)
  /\ UNCHANGED <<sent, queue, stopped, counted>>

\* Mutant of StandBy: only a full buffer is flushed, also before sleeping.
StandByHolding(w) ==
  /\ loop[w] = "answered"
  /\ inflight[w] = {}
  /\ Hold(w, buffer[w])
  /\ loop' = [loop EXCEPT ![w] = "asleep"]
  /\ UNCHANGED <<sent, queue, stopped, inflight, counted>>

\* The pull brought nothing: the worker flushes what it holds and sleeps.
StandBy(w) ==
  /\ loop[w] = "answered"
  /\ inflight[w] = {}
  /\ Flush(w, buffer[w])
  /\ loop' = [loop EXCEPT ![w] = "asleep"]
  /\ UNCHANGED <<sent, queue, stopped, inflight, counted>>

\* Mutant of Wake: the flag is not looked at after the sleep.
WakeAnyway(w) ==
  /\ loop[w] = "asleep"
  /\ loop' = [loop EXCEPT ![w] = "pulling"]
  /\ UNCHANGED <<sent, queue, stopped, inflight, buffer, flushed, counted>>

Wake(w) ==
  /\ loop[w] = "asleep"
  /\ Again(w)
  /\ UNCHANGED <<sent, queue, stopped, inflight, buffer, flushed, counted>>

\* init or pull rejects: nothing catches it, and startWorker ends without stopCb.
\* What the backend had already taken out for this pull is lost.
Fail(w) ==
  /\ Failures
  /\ loop[w] \in {"init", "pulling", "answered"}
  /\ loop' = [loop EXCEPT ![w] = "failed"]
  /\ inflight' = [inflight EXCEPT ![w] = {}]
  /\ UNCHANGED <<sent, queue, stopped, buffer, flushed, counted>>

\* Mutant of Interrupt: the handler stops the worker without flushing.
InterruptOnly(w) ==
  /\ loop[w] \in Alive
  /\ Hold(w, buffer[w])
  /\ stopped' = [stopped EXCEPT ![w] = TRUE]
  /\ UNCHANGED <<sent, queue, loop, inflight, counted>>

\* SIGINT: the buffer is flushed and the loop told to end, whatever it waits for.
Interrupt(w) ==
  /\ loop[w] \in Alive
  /\ Flush(w, buffer[w])
  /\ stopped' = [stopped EXCEPT ![w] = TRUE]
  /\ UNCHANGED <<sent, queue, loop, inflight, counted>>

\* The database executes the updates of a flushed buffer.  Those of a process
\* that has gone were on their way or never left it: they may never execute.
Update(w) ==
  /\ \E batch \in flushed[w] : /\ ~ batch \subseteq counted
                               /\ counted' = counted \cup batch
  /\ UNCHANGED <<sent, queue, loop, stopped, inflight, buffer, flushed>>

Kill(w) ==
  /\ Crashes
  /\ loop[w] \in Alive
  /\ loop' = [loop EXCEPT ![w] = "killed"]
  /\ inflight' = [inflight EXCEPT ![w] = {}]
  /\ buffer' = [buffer EXCEPT ![w] = {}]
  /\ UNCHANGED <<sent, queue, stopped, flushed, counted>>

-----------------------------------------------------------------------------
Loop(w) == Start(w) \/ Pull(w) \/ Receive(w) \/ StandBy(w) \/ Wake(w)

Next == \/ \E m \in Messages : Push(m)
        \/ \E w \in Workers : \/ Loop(w) \/ Update(w)
                              \/ Fail(w) \/ Interrupt(w) \/ Kill(w)

Spec == Init /\ [][Next]_vars

\* Awaits come back and sleeps end; the updates of a process that lives execute.
FairSpec == /\ Spec
            /\ \A w \in Workers : WF_vars(Loop(w))
            /\ \A w \in Workers : WF_vars(loop[w] \in Alive /\ Update(w))

-----------------------------------------------------------------------------
FlushedBy(w) == UNION flushed[w]
HeldBy(w) == inflight[w] \cup buffer[w] \cup FlushedBy(w)

\* No event is processed twice: two buffers never share a message, and a message
\* that was flushed is in no buffer, no pull and not in the queue, with several
\* workers on one queue and wherever SIGINT, a failure or a kill strikes.
FlushedOnce ==
  /\ \A w \in Workers :
       /\ \A b1, b2 \in flushed[w] : b1 # b2 => b1 \cap b2 = {}
       /\ inflight[w] \cap buffer[w] = {}
       /\ (inflight[w] \cup buffer[w]) \cap FlushedBy(w) = {}
       /\ HeldBy(w) \cap queue = {}
  /\ \A v, w \in Workers : v # w => HeldBy(v) \cap HeldBy(w) = {}

\* The loop compares the length of the buffer with its limit by ===, so a buffer
\* that once passes the limit is not flushed by size again: it never passes it,
\* and the handler of SIGINT, which runs between any two steps, keeps it so.
BufferFits ==
  \A w \in Workers : /\ Cardinality(buffer[w]) < BufferSize
                     /\ \A b \in flushed[w] : Cardinality(b) <= BufferSize

\* The buffers of the workers (lib/queue_worker.js) hold each event once, and none of
\* them more than its limit.
BuffersSound == FlushedOnce /\ BufferFits

Gone(w) == loop[w] \notin Alive
Ended(how) == Cardinality({w \in Workers : loop[w] = how})

\* Events of updates that were issued and not executed when their process ended.
\* The database may still execute them, or never have received them.
Unexecuted == (UNION {FlushedBy(w) : w \in {v \in Workers : Gone(v)}}) \ counted

\* What may never be counted: events that are neither counted nor in the queue, and
\* that no living worker pulls, buffers or has issued the updates of.
Lost == sent \ (queue \cup counted \cup (UNION {inflight[w] : w \in Workers})
                  \cup (UNION {buffer[w] \cup FlushedBy(w) : w \in {v \in Workers : ~ Gone(v)}}))

\* Of the events that were not handed to the database, a stop by SIGINT loses at most
\* the one whose pull was in flight, a failed pull at most its own, and a kill less
\* than a buffer and that one.  The updates that a process leaves behind come on top,
\* however it ended: process.exit waits for none of them, so nothing in the code
\* bounds their number.  A worker that runs loses nothing.
LossIsBounded ==
  Cardinality(Lost) <= Ended("failed") + Ended("exited") + BufferSize * Ended("killed")
                         + Cardinality(Unexecuted)

\* As long as every worker runs, each event is counted in the end: no
\* part-filled buffer waits for ever.
EventuallyCounted ==
  \A m \in Messages :
    m \in sent ~> m \in counted \/ \E w \in Workers : loop[w] \notin Running

\* SIGINT ends the process, unless its loop is over already.
StopCompletes ==
  \A w \in Workers : stopped[w] ~> loop[w] \in {"exited", "killed", "failed"}

\* lib/queue_worker.js:123: on SIGINT the worker says it "might take up to" the
\* stand-by time to stop: it stops, also after its loop has failed.
StopsAfterSignal ==
  \A w \in Workers : stopped[w] ~> loop[w] \in {"exited", "killed"}
=============================================================================
