------------------------- MODULE QueueWorker_proofs -------------------------
(***************************************************************************)
(* The worker loop processes no event twice and never overfills a buffer,  *)
(* for every set of workers and events and every buffer size, with SIGINT, *)
(* failing pulls and kills at any point.                                   *)
(***************************************************************************)
EXTENDS QueueWorker, FiniteSetTheorems, TLAPS

\* Whatever is anywhere was sent, and a pull brings one message or none.
KnownMessages == /\ queue \subseteq sent
                 /\ \A w \in Workers : HeldBy(w) \subseteq sent

OneInFlight == \A w \in Workers :
                 inflight[w] = {} \/ \E m \in Messages : inflight[w] = {m}

Inv == TypeOK /\ KnownMessages /\ OneInFlight /\ FlushedOnce

-----------------------------------------------------------------------------
\* What flushBuffer adds to the messages that were flushed.
LEMMA FlushAdds ==
  ASSUME NEW w \in Workers, NEW held \in SUBSET Messages, TypeOK, Flush(w, held)
  PROVE  /\ flushed' \in [Workers -> SUBSET SUBSET Messages]
         /\ buffer' \in [Workers -> SUBSET Messages]
         /\ buffer'[w] = {}
         /\ FlushedBy(w)' = FlushedBy(w) \cup held
         /\ \A b \in flushed'[w] : b \in flushed[w] \/ b = held
         /\ \A v \in Workers \ {w} : /\ flushed'[v] = flushed[v]
                                     /\ buffer'[v] = buffer[v]
                                     /\ FlushedBy(v)' = FlushedBy(v)
<1>1. flushed'[w] = flushed[w] \cup ({held} \ {{}})
  BY DEF Flush, TypeOK
<1>2. FlushedBy(w)' = FlushedBy(w) \cup held
  BY <1>1 DEF FlushedBy
<1>3. \A v \in Workers \ {w} : flushed'[v] = flushed[v] /\ buffer'[v] = buffer[v]
  BY DEF Flush, TypeOK
<1>4. flushed' \in [Workers -> SUBSET SUBSET Messages] /\ buffer' \in [Workers -> SUBSET Messages]
  BY DEF Flush, TypeOK
<1>5. buffer'[w] = {}
  BY DEF Flush, TypeOK
<1> QED
  BY <1>1, <1>2, <1>3, <1>4, <1>5 DEF FlushedBy

\* A flush of the whole buffer, and of what the pull brought, moves messages that
\* no other place holds; a process that drops what it holds only removes some.
LEMMA FlushKeepsInv ==
  ASSUME NEW w \in Workers, NEW x \in SUBSET inflight[w], Inv,
         Flush(w, buffer[w] \cup x),
         inflight' \in [Workers -> SUBSET Messages],
         inflight'[w] = inflight[w] \ x,
         \A v \in Workers \ {w} : inflight'[v] = inflight[v],
         UNCHANGED <<sent, queue>>
  PROVE  KnownMessages' /\ FlushedOnce'
<1> DEFINE held == buffer[w] \cup x
<1>1. held \in SUBSET Messages
  BY DEF Inv, TypeOK
<1>2. /\ buffer'[w] = {}
      /\ FlushedBy(w)' = FlushedBy(w) \cup held
      /\ \A b \in flushed'[w] : b \in flushed[w] \/ b = held
      /\ \A v \in Workers \ {w} : /\ flushed'[v] = flushed[v]
                                  /\ buffer'[v] = buffer[v]
                                  /\ FlushedBy(v)' = FlushedBy(v)
  BY <1>1, FlushAdds DEF Inv
<1> HIDE DEF held
<1>3. HeldBy(w)' \subseteq HeldBy(w)
  BY <1>2 DEF HeldBy, held
<1>4. \A v \in Workers \ {w} : HeldBy(v)' = HeldBy(v)
  BY <1>2 DEF HeldBy
<1>5. KnownMessages'
  BY <1>3, <1>4 DEF Inv, KnownMessages
<1>6. held \cap FlushedBy(w) = {}
  BY DEF Inv, FlushedOnce, held
<1>7. \A b1, b2 \in flushed'[w] : b1 # b2 => b1 \cap b2 = {}
  <2> SUFFICES ASSUME NEW b1 \in flushed'[w], NEW b2 \in flushed'[w], b1 # b2
               PROVE  b1 \cap b2 = {}
    OBVIOUS
  <2>1. CASE b1 \in flushed[w] /\ b2 \in flushed[w]
    BY <2>1 DEF Inv, FlushedOnce
  <2>2. CASE b1 \in flushed[w] /\ b2 = held
    BY <2>2, <1>6 DEF FlushedBy
  <2>3. CASE b1 = held /\ b2 \in flushed[w]
    BY <2>3, <1>6 DEF FlushedBy
  <2> QED
    BY <1>2, <2>1, <2>2, <2>3
<1>8. /\ inflight'[w] \cap buffer'[w] = {}
      /\ (inflight'[w] \cup buffer'[w]) \cap FlushedBy(w)' = {}
      /\ HeldBy(w)' \cap queue' = {}
  BY <1>2, <1>3 DEF Inv, FlushedOnce, held
<1>9. \A v \in Workers \ {w} :
        /\ \A b1, b2 \in flushed'[v] : b1 # b2 => b1 \cap b2 = {}
        /\ inflight'[v] \cap buffer'[v] = {}
        /\ (inflight'[v] \cup buffer'[v]) \cap FlushedBy(v)' = {}
        /\ HeldBy(v)' \cap queue' = {}
  BY <1>2, <1>4 DEF Inv, FlushedOnce
<1>10. \A v, u \in Workers : v # u => HeldBy(v)' \cap HeldBy(u)' = {}
  BY <1>3, <1>4 DEF Inv, FlushedOnce
<1> QED
  BY <1>5, <1>7, <1>8, <1>9, <1>10 DEF FlushedOnce

\* A step of w that hands over nothing and keeps or drops what w holds.
LEMMA DropKeepsInv ==
  ASSUME NEW w \in Workers, Inv,
         inflight' \in [Workers -> SUBSET Messages],
         buffer' \in [Workers -> SUBSET Messages],
         inflight'[w] \cup buffer'[w] \subseteq inflight[w] \cup buffer[w],
         inflight'[w] \cap buffer'[w] = {},
         \A v \in Workers \ {w} : inflight'[v] = inflight[v] /\ buffer'[v] = buffer[v],
         UNCHANGED <<sent, queue, flushed>>
  PROVE  KnownMessages' /\ FlushedOnce'
<1>1. \A v \in Workers : FlushedBy(v)' = FlushedBy(v)
  BY DEF FlushedBy
<1>2. HeldBy(w)' \subseteq HeldBy(w)
  BY <1>1 DEF HeldBy
<1>3. \A v \in Workers \ {w} : HeldBy(v)' = HeldBy(v)
  BY <1>1 DEF HeldBy
<1>4. KnownMessages'
  BY <1>2, <1>3 DEF Inv, KnownMessages
<1>5. \A v \in Workers :
        /\ \A b1, b2 \in flushed'[v] : b1 # b2 => b1 \cap b2 = {}
        /\ inflight'[v] \cap buffer'[v] = {}
        /\ (inflight'[v] \cup buffer'[v]) \cap FlushedBy(v)' = {}
        /\ HeldBy(v)' \cap queue' = {}
  BY <1>1, <1>2, <1>3 DEF Inv, FlushedOnce
<1>6. \A v, u \in Workers : v # u => HeldBy(v)' \cap HeldBy(u)' = {}
  BY <1>2, <1>3 DEF Inv, FlushedOnce
<1> QED
  BY <1>4, <1>5, <1>6 DEF FlushedOnce

LEMMA InvInit == Init => Inv
<1> SUFFICES ASSUME Init PROVE Inv
  OBVIOUS
<1>1. TypeOK
  BY DEF Init, TypeOK, Places, Alive, Running
<1>2. \A w \in Workers : HeldBy(w) = {} /\ FlushedBy(w) = {} /\ flushed[w] = {}
  BY DEF Init, HeldBy, FlushedBy
<1>3. KnownMessages /\ OneInFlight
  BY <1>2 DEF Init, KnownMessages, OneInFlight
<1>4. FlushedOnce
  BY <1>2 DEF Init, FlushedOnce
<1> QED
  BY <1>1, <1>3, <1>4 DEF Inv

LEMMA InvPush == ASSUME NEW m \in Messages, Inv, Push(m) PROVE Inv'
<1>1. /\ sent' = sent \cup {m} /\ queue' = queue \cup {m} /\ m \notin sent
      /\ UNCHANGED <<loop, stopped, inflight, buffer, flushed, counted>>
  BY DEF Push
<1>2. \A w \in Workers : HeldBy(w)' = HeldBy(w) /\ FlushedBy(w)' = FlushedBy(w)
  BY <1>1 DEF HeldBy, FlushedBy
<1>3. \A w \in Workers : m \notin HeldBy(w)
  BY <1>1 DEF Inv, KnownMessages
<1>4. TypeOK'
  BY <1>1 DEF Inv, TypeOK
<1>5. KnownMessages' /\ OneInFlight'
  BY <1>1, <1>2 DEF Inv, KnownMessages, OneInFlight
<1>6. FlushedOnce'
  BY <1>1, <1>2, <1>3 DEF Inv, FlushedOnce
<1> QED
  BY <1>4, <1>5, <1>6 DEF Inv

\* The backend takes one message out of the queue, which no worker holds.
LEMMA InvPull == ASSUME NEW w \in Workers, Inv, Pull(w) PROVE Inv'
<1>1. TypeOK'
  BY DEF Inv, TypeOK, Pull, Places, Alive, Running
<1>2. OneInFlight'
  BY DEF Inv, TypeOK, OneInFlight, Pull
<1>3. CASE UNCHANGED <<queue, inflight>>
  BY <1>1, <1>2, <1>3, DropKeepsInv DEF Inv, TypeOK, FlushedOnce, Pull
<1>4. ASSUME NEW m \in queue, queue' = queue \ {m},
             inflight' = [inflight EXCEPT ![w] = {m}]
      PROVE  Inv'
  <2>1. /\ inflight'[w] = {m}
        /\ \A v \in Workers \ {w} : inflight'[v] = inflight[v]
        /\ UNCHANGED <<sent, buffer, flushed>>
    BY <1>4 DEF Pull, Inv, TypeOK
  <2>2. \A v \in Workers : FlushedBy(v)' = FlushedBy(v)
    BY <2>1 DEF FlushedBy
  <2>3. HeldBy(w)' \subseteq HeldBy(w) \cup {m}
    BY <2>1, <2>2 DEF HeldBy
  <2>4. \A v \in Workers \ {w} : HeldBy(v)' = HeldBy(v)
    BY <2>1, <2>2 DEF HeldBy
  <2>5. \A v \in Workers : m \notin HeldBy(v)
    BY DEF Inv, FlushedOnce
  <2>6. KnownMessages'
    BY <1>4, <2>1, <2>3, <2>4 DEF Inv, KnownMessages
  <2>7. m \notin buffer[w] /\ m \notin FlushedBy(w)
    BY <2>5 DEF HeldBy
  <2>8. \A v \in Workers :
          /\ \A b1, b2 \in flushed'[v] : b1 # b2 => b1 \cap b2 = {}
          /\ inflight'[v] \cap buffer'[v] = {}
          /\ (inflight'[v] \cup buffer'[v]) \cap FlushedBy(v)' = {}
    BY <2>1, <2>2, <2>7 DEF Inv, FlushedOnce
  <2>9. \A v \in Workers : HeldBy(v)' \cap queue' = {}
    BY <1>4, <2>3, <2>4 DEF Inv, FlushedOnce
  <2>10. \A v, u \in Workers : v # u => HeldBy(v)' \cap HeldBy(u)' = {}
    BY <2>3, <2>4, <2>5 DEF Inv, FlushedOnce
  <2> QED
    BY <1>1, <1>2, <2>6, <2>8, <2>9, <2>10 DEF Inv, FlushedOnce
<1> QED
  BY <1>3, <1>4 DEF Pull

LEMMA InvReceive == ASSUME NEW w \in Workers, Inv, Receive(w) PROVE Inv'
<1> DEFINE held == buffer[w] \cup inflight[w]
<1>1. held \in SUBSET Messages
  BY DEF Inv, TypeOK
<1>2. /\ inflight' = [inflight EXCEPT ![w] = {}]
      /\ loop' = [loop EXCEPT ![w] = IF stopped[w] THEN "exited" ELSE "pulling"]
      /\ UNCHANGED <<sent, queue, stopped, counted>>
      /\ Flush(w, held) \/ Hold(w, held)
  BY DEF Receive, Again
<1>3. /\ inflight' \in [Workers -> SUBSET Messages]
      /\ inflight'[w] = {}
      /\ \A v \in Workers \ {w} : inflight'[v] = inflight[v]
  BY <1>2 DEF Inv, TypeOK
<1>4. OneInFlight'
  BY <1>3 DEF Inv, OneInFlight
<1>5. loop' \in [Workers -> Places]
  BY <1>2 DEF Inv, TypeOK, Places, Alive, Running
<1>6. CASE Flush(w, held)
  <2>1. KnownMessages' /\ FlushedOnce'
    BY <1>2, <1>3, <1>6, FlushKeepsInv
  <2>2. flushed' \in [Workers -> SUBSET SUBSET Messages] /\
          buffer' \in [Workers -> SUBSET Messages]
    BY <1>1, <1>6, FlushAdds DEF Inv
  <2> QED
    BY <1>2, <1>3, <1>4, <1>5, <2>1, <2>2 DEF Inv, TypeOK
<1>7. CASE Hold(w, held)
  <2>1. /\ buffer' \in [Workers -> SUBSET Messages]
        /\ buffer'[w] = held
        /\ \A v \in Workers \ {w} : buffer'[v] = buffer[v]
        /\ flushed' = flushed
    BY <1>1, <1>7 DEF Hold, Inv, TypeOK
  <2>2. KnownMessages' /\ FlushedOnce'
    BY <1>2, <1>3, <2>1, DropKeepsInv
  <2> QED
    BY <1>2, <1>3, <1>4, <1>5, <2>1, <2>2 DEF Inv, TypeOK
<1> QED
  BY <1>2, <1>6, <1>7

\* The flush before sleeping and the one of SIGINT: the buffer and nothing else.
LEMMA InvFlushOnly ==
  ASSUME NEW w \in Workers, Inv, Flush(w, buffer[w]),
         UNCHANGED <<sent, queue, inflight, counted>>,
         stopped' \in [Workers -> BOOLEAN], loop' \in [Workers -> Places]
  PROVE  Inv'
<1>1. buffer[w] \cup {} = buffer[w] /\ {} \in SUBSET inflight[w]
  OBVIOUS
<1>2. KnownMessages' /\ FlushedOnce'
  BY <1>1, FlushKeepsInv DEF Inv, TypeOK
<1>3. flushed' \in [Workers -> SUBSET SUBSET Messages] /\ buffer' \in [Workers -> SUBSET Messages]
  BY FlushAdds DEF Inv, TypeOK
<1>4. OneInFlight'
  BY DEF Inv, OneInFlight
<1> QED
  BY <1>2, <1>3, <1>4 DEF Inv, TypeOK

\* A process that fails or is killed forgets what it holds.
LEMMA InvForget ==
  ASSUME NEW w \in Workers, Inv, Fail(w) \/ Kill(w)
  PROVE  Inv'
<1>1. /\ inflight' = [inflight EXCEPT ![w] = {}]
      /\ buffer' = buffer \/ buffer' = [buffer EXCEPT ![w] = {}]
      /\ UNCHANGED <<sent, queue, stopped, flushed, counted>>
      /\ loop' \in [Workers -> Places]
  BY DEF Fail, Kill, Inv, TypeOK, Places, Alive, Running
<1>2. /\ inflight' \in [Workers -> SUBSET Messages]
      /\ buffer' \in [Workers -> SUBSET Messages]
      /\ inflight'[w] = {}
      /\ buffer'[w] \subseteq buffer[w]
      /\ \A v \in Workers \ {w} : inflight'[v] = inflight[v] /\ buffer'[v] = buffer[v]
  BY <1>1 DEF Inv, TypeOK
<1>3. KnownMessages' /\ FlushedOnce'
  BY <1>1, <1>2, DropKeepsInv
<1>4. OneInFlight'
  BY <1>2 DEF Inv, OneInFlight
<1> QED
  BY <1>1, <1>2, <1>3, <1>4 DEF Inv, TypeOK

\* Steps that touch neither the queue nor what workers hold.
LEMMA InvElsewhere ==
  ASSUME Inv, UNCHANGED <<sent, queue, inflight, buffer, flushed>>,
         stopped' = stopped, loop' \in [Workers -> Places], counted' \subseteq Messages
  PROVE  Inv'
<1>1. \A w \in Workers : HeldBy(w)' = HeldBy(w) /\ FlushedBy(w)' = FlushedBy(w)
  BY DEF HeldBy, FlushedBy
<1>2. TypeOK'
  BY DEF Inv, TypeOK
<1>3. KnownMessages' /\ OneInFlight'
  BY <1>1 DEF Inv, KnownMessages, OneInFlight
<1>4. FlushedOnce'
  BY <1>1 DEF Inv, FlushedOnce
<1> QED
  BY <1>2, <1>3, <1>4 DEF Inv

LEMMA InvNext == Inv /\ [Next]_vars => Inv'
<1> SUFFICES ASSUME Inv, [Next]_vars PROVE Inv'
  OBVIOUS
<1> USE DEF Inv, TypeOK
<1>1. CASE UNCHANGED vars
  BY <1>1, InvElsewhere DEF vars
<1>2. ASSUME NEW m \in Messages, Push(m) PROVE Inv'
  BY <1>2, InvPush
<1>3. ASSUME NEW w \in Workers, Loop(w) PROVE Inv'
  <2>1. CASE Start(w)
    BY <2>1, InvElsewhere DEF Start, Again, Places, Alive, Running
  <2>2. CASE Pull(w)
    BY <2>2, InvPull
  <2>3. CASE Receive(w)
    BY <2>3, InvReceive
  <2>4. CASE StandBy(w)
    BY <2>4, InvFlushOnly DEF StandBy, Places, Alive, Running
  <2>5. CASE Wake(w)
    BY <2>5, InvElsewhere DEF Wake, Again, Places, Alive, Running
  <2> QED
    BY <1>3, <2>1, <2>2, <2>3, <2>4, <2>5 DEF Loop
<1>4. ASSUME NEW w \in Workers, Update(w) PROVE Inv'
  BY <1>4, InvElsewhere DEF Update
<1>5. ASSUME NEW w \in Workers, Fail(w) \/ Kill(w) PROVE Inv'
  BY <1>5, InvForget
<1>6. ASSUME NEW w \in Workers, Interrupt(w) PROVE Inv'
  BY <1>6, InvFlushOnly DEF Interrupt
<1> QED
  BY <1>1, <1>2, <1>3, <1>4, <1>5, <1>6 DEF Next

\* The state of the workers keeps its types.
THEOREM TypeCorrect == Spec => []TypeOK
<1>1. Inv => TypeOK
  BY DEF Inv
<1> QED
  BY <1>1, InvInit, InvNext, PTL DEF Spec

\* No event is handed to processBufferFn twice, whatever stops a worker and
\* however many run.
THEOREM FlushedOnceHolds == Spec => []FlushedOnce
<1>1. Inv => FlushedOnce
  BY DEF Inv
<1> QED
  BY <1>1, InvInit, InvNext, PTL DEF Spec

-----------------------------------------------------------------------------
LEMMA BuffersFinite ==
  ASSUME TypeOK
  PROVE  \A w \in Workers : IsFiniteSet(buffer[w]) /\ Cardinality(buffer[w]) \in Nat
BY WorkerAssumption, FS_Subset, FS_CardinalityType DEF TypeOK

\* A flush of what fits leaves an empty buffer.
LEMMA FlushFits ==
  ASSUME NEW w \in Workers, NEW held \in SUBSET Messages, TypeOK, BufferFits,
         Flush(w, held), Cardinality(held) <= BufferSize
  PROVE  BufferFits'
<1>1. /\ buffer'[w] = {}
      /\ \A b \in flushed'[w] : b \in flushed[w] \/ b = held
      /\ \A v \in Workers \ {w} : flushed'[v] = flushed[v] /\ buffer'[v] = buffer[v]
  BY FlushAdds
<1>2. Cardinality(buffer'[w]) < BufferSize
  BY <1>1, FS_EmptySet, WorkerAssumption
<1>3. \A b \in flushed'[w] : Cardinality(b) <= BufferSize
  BY <1>1 DEF BufferFits
<1>4. \A v \in Workers \ {w} : /\ Cardinality(buffer'[v]) < BufferSize
                               /\ \A b \in flushed'[v] : Cardinality(b) <= BufferSize
  BY <1>1 DEF BufferFits
<1> QED
  BY <1>2, <1>3, <1>4 DEF BufferFits

\* The message of a pull is one that the buffer does not hold, so it takes the
\* length to the limit at most, and at the limit the buffer is flushed.
LEMMA ReceiveFits ==
  ASSUME NEW w \in Workers, Inv, BufferFits, Receive(w)
  PROVE  BufferFits'
<1> DEFINE held == buffer[w] \cup inflight[w]
<1>1. PICK m \in Messages : inflight[w] = {m}
  BY DEF Receive, Inv, OneInFlight
<1>2. m \notin buffer[w]
  BY <1>1 DEF Inv, FlushedOnce
<1>3. IsFiniteSet(buffer[w]) /\ Cardinality(buffer[w]) \in Nat
  BY BuffersFinite DEF Inv
<1>4. Cardinality(held) = Cardinality(buffer[w]) + 1
  <2>1. held = buffer[w] \cup {m}
    BY <1>1
  <2>2. Cardinality(buffer[w] \cup {m}) = Cardinality(buffer[w]) + 1
    BY <1>2, <1>3, FS_AddElement
  <2> QED
    BY <2>1, <2>2
<1>5. Cardinality(buffer[w]) < BufferSize
  BY DEF BufferFits
<1>6. Cardinality(held) <= BufferSize
  BY <1>3, <1>4, <1>5, WorkerAssumption
<1>7. held \in SUBSET Messages
  BY DEF Inv, TypeOK
<1>8. CASE Flush(w, held)
  BY <1>6, <1>7, <1>8, FlushFits DEF Inv
<1>9. CASE Cardinality(held) # BufferSize /\ Hold(w, held)
  <2>1. Cardinality(held) < BufferSize
    BY <1>3, <1>4, <1>6, <1>9, WorkerAssumption
  <2>2. /\ buffer'[w] = held
        /\ \A v \in Workers \ {w} : buffer'[v] = buffer[v]
        /\ flushed' = flushed
    BY <1>9 DEF Hold, Inv, TypeOK
  <2> QED
    BY <2>1, <2>2 DEF BufferFits
<1> QED
  BY <1>8, <1>9 DEF Receive

LEMMA FitsNext == Inv /\ BufferFits /\ [Next]_vars => BufferFits'
<1> SUFFICES ASSUME Inv, BufferFits, [Next]_vars PROVE BufferFits'
  OBVIOUS
<1>1. ASSUME NEW w \in Workers, Flush(w, buffer[w]) PROVE BufferFits'
  <2>1. Cardinality(buffer[w]) <= BufferSize
    BY BuffersFinite, WorkerAssumption DEF Inv, BufferFits
  <2> QED
    BY <1>1, <2>1, FlushFits DEF Inv, TypeOK
<1>2. CASE UNCHANGED <<buffer, flushed>>
  BY <1>2 DEF BufferFits
<1>3. ASSUME NEW w \in Workers, Loop(w) PROVE BufferFits'
  <2>1. CASE Receive(w)
    BY <2>1, ReceiveFits
  <2>2. CASE StandBy(w)
    BY <2>2, <1>1 DEF StandBy
  <2>3. CASE Start(w) \/ Pull(w) \/ Wake(w)
    BY <2>3, <1>2 DEF Start, Pull, Wake
  <2> QED
    BY <1>3, <2>1, <2>2, <2>3 DEF Loop
<1>4. ASSUME NEW w \in Workers, Kill(w) PROVE BufferFits'
  <2>1. /\ buffer'[w] = {}
        /\ \A v \in Workers \ {w} : buffer'[v] = buffer[v]
        /\ flushed' = flushed
    BY <1>4 DEF Kill, Inv, TypeOK
  <2>2. Cardinality(buffer'[w]) < BufferSize
    BY <2>1, FS_EmptySet, WorkerAssumption
  <2> QED
    BY <2>1, <2>2 DEF BufferFits
<1>5. ASSUME NEW w \in Workers, Interrupt(w) PROVE BufferFits'
  BY <1>5, <1>1 DEF Interrupt
<1>6. ASSUME NEW w \in Workers, Update(w) \/ Fail(w) PROVE BufferFits'
  BY <1>6, <1>2 DEF Update, Fail
<1>7. ASSUME NEW m \in Messages, Push(m) PROVE BufferFits'
  BY <1>7, <1>2 DEF Push
<1>8. CASE UNCHANGED vars
  BY <1>8, <1>2 DEF vars
<1> QED
  BY <1>3, <1>4, <1>5, <1>6, <1>7, <1>8 DEF Next

\* A buffer never reaches its limit between two steps, and what is flushed never
\* exceeds it: the comparison by === cannot be missed.
THEOREM BufferFitsHolds == Spec => []BufferFits
<1>1. Init => BufferFits
  BY FS_EmptySet, WorkerAssumption DEF Init, BufferFits
<1> QED
  BY <1>1, InvInit, InvNext, FitsNext, PTL DEF Spec

\* What QW_loop checks of the buffers of lib/queue_worker.js, for any workers, events
\* and limit.
THEOREM BuffersSoundHolds == Spec => []BuffersSound
BY FlushedOnceHolds, BufferFitsHolds, PTL DEF BuffersSound

-----------------------------------------------------------------------------
(* What is lost. *)

\* Only a loop whose pull was answered has a message in flight; a process that was
\* told to stop and has not gone yet holds nothing.
HoldsLittle ==
  \A w \in Workers : /\ inflight[w] # {} => loop[w] = "answered"
                     /\ stopped[w] /\ loop[w] \in Alive => buffer[w] = {}

LEMMA HoldsLittleNext == Inv /\ HoldsLittle /\ [Next]_vars => HoldsLittle'
<1> SUFFICES ASSUME Inv, HoldsLittle, [Next]_vars PROVE HoldsLittle'
  OBVIOUS
<1> USE DEF Inv, TypeOK, HoldsLittle, Alive, Running
<1>1. CASE UNCHANGED vars
  BY <1>1 DEF vars
<1>2. ASSUME NEW m \in Messages, Push(m) PROVE HoldsLittle'
  BY <1>2 DEF Push
<1>3. ASSUME NEW w \in Workers, Loop(w) PROVE HoldsLittle'
  <2>1. CASE Start(w) \/ Wake(w)
    BY <2>1 DEF Start, Wake, Again
  <2>2. CASE Pull(w)
    BY <2>2 DEF Pull
  <2>3. CASE Receive(w)
    <3>1. /\ inflight'[w] = {} /\ stopped' = stopped
          /\ loop'[w] = (IF stopped[w] THEN "exited" ELSE "pulling")
          /\ \A v \in Workers \ {w} : /\ inflight'[v] = inflight[v] /\ loop'[v] = loop[v]
                                      /\ buffer'[v] = buffer[v]
      BY <2>3 DEF Receive, Again, Flush, Hold
    <3> QED
      BY <3>1
  <2>4. CASE StandBy(w)
    BY <2>4 DEF StandBy, Flush
  <2> QED
    BY <1>3, <2>1, <2>2, <2>3, <2>4 DEF Loop
<1>4. ASSUME NEW w \in Workers, Update(w) PROVE HoldsLittle'
  BY <1>4 DEF Update
<1>5. ASSUME NEW w \in Workers, Fail(w) \/ Kill(w) PROVE HoldsLittle'
  BY <1>5 DEF Fail, Kill
<1>6. ASSUME NEW w \in Workers, Interrupt(w) PROVE HoldsLittle'
  BY <1>6 DEF Interrupt, Flush
<1> QED
  BY <1>1, <1>2, <1>3, <1>4, <1>5, <1>6 DEF Next

-----------------------------------------------------------------------------
\* Events that were never handed to the database: neither in the queue, nor in a pull
\* or the buffer of a worker that lives, nor flushed by anybody.
Unflushed ==
  sent \ (queue \cup (UNION {inflight[w] \cup FlushedBy(w) : w \in Workers})
            \cup (UNION {buffer[w] : w \in {v \in Workers : loop[v] \in Alive}}))

UnflushedIsBounded ==
  Cardinality(Unflushed)
    <= Ended("failed") + Ended("exited") + BufferSize * Ended("killed")

\* An event was never flushed when it is nowhere else.
LostMeans ==
  \A m : m \in Unflushed <=> /\ m \in sent /\ m \notin queue
                        /\ \A w \in Workers : /\ m \notin inflight[w]
                                              /\ m \notin FlushedBy(w)
                                              /\ loop[w] \in Alive => m \notin buffer[w]

LEMMA LostIs == LostMeans
<1> DEFINE Kept == UNION {inflight[w] \cup FlushedBy(w) : w \in Workers}
           Held == UNION {buffer[w] : w \in {v \in Workers : loop[v] \in Alive}}
<1>1. \A m : m \in Kept <=> \E w \in Workers : m \in inflight[w] \cup FlushedBy(w)
  BY Zenon
<1>2. \A m : m \in Held <=> \E w \in {v \in Workers : loop[v] \in Alive} : m \in buffer[w]
  BY Zenon
<1>3. Unflushed = sent \ (queue \cup Kept \cup Held)
  BY DEF Unflushed
<1> SUFFICES ASSUME NEW m
             PROVE  m \in Unflushed <=> /\ m \in sent /\ m \notin queue
                                   /\ \A w \in Workers :
                                        /\ m \notin inflight[w]
                                        /\ m \notin FlushedBy(w)
                                        /\ loop[w] \in Alive => m \notin buffer[w]
  BY DEF LostMeans
<1> HIDE DEF Kept, Held
<1>4. m \in Unflushed <=> m \in sent /\ m \notin queue /\ m \notin Kept /\ m \notin Held
  BY <1>3
<1>5. m \notin Kept <=> \A w \in Workers : m \notin inflight[w] /\ m \notin FlushedBy(w)
  BY <1>1
<1>6. m \notin Held <=> \A w \in Workers : loop[w] \in Alive => m \notin buffer[w]
  BY <1>2
<1> QED
  BY <1>4, <1>5, <1>6, Zenon

LEMMA LostGrows ==
  ASSUME TypeOK, TypeOK', NEW X \in SUBSET Messages, Unflushed' \subseteq Unflushed \cup X
  PROVE  /\ Cardinality(Unflushed) \in Nat /\ Cardinality(Unflushed') \in Nat /\ Cardinality(X) \in Nat
         /\ Cardinality(Unflushed') <= Cardinality(Unflushed) + Cardinality(X)
<1>1. Unflushed \subseteq Messages /\ Unflushed' \subseteq Messages
  BY DEF TypeOK, Unflushed
<1>2. IsFiniteSet(Unflushed) /\ IsFiniteSet(Unflushed') /\ IsFiniteSet(X)
  BY <1>1, WorkerAssumption, FS_Subset
<1>3. Cardinality(Unflushed) \in Nat /\ Cardinality(Unflushed') \in Nat /\ Cardinality(X) \in Nat
      /\ Cardinality(Unflushed \cap X) \in Nat
  BY <1>2, FS_CardinalityType, FS_Intersection
<1>4. /\ IsFiniteSet(Unflushed \cup X)
      /\ Cardinality(Unflushed \cup X) = Cardinality(Unflushed) + Cardinality(X) - Cardinality(Unflushed \cap X)
  BY <1>2, FS_Union
<1>5. Cardinality(Unflushed') <= Cardinality(Unflushed \cup X)
  BY <1>4, FS_Subset
<1> QED
  BY <1>3, <1>4, <1>5

LEMMA EndedMoves ==
  ASSUME TypeOK, NEW w \in Workers, NEW how, loop[w] # how, loop' = [loop EXCEPT ![w] = how]
  PROVE  /\ Ended(how)' = Ended(how) + 1
         /\ \A was : was = loop[w] => Ended(was)' = Ended(was) - 1
         /\ \A other : other # how /\ other # loop[w] => Ended(other)' = Ended(other)
<1> DEFINE In(place)  == {v \in Workers : loop[v] = place}
           In2(place) == {v \in Workers : loop'[v] = place}
<1>1. \A place : IsFiniteSet(In(place)) /\ Cardinality(In(place)) \in Nat
  BY WorkerAssumption, FS_Subset, FS_CardinalityType
<1>2. In2(how) = In(how) \cup {w} /\ w \notin In(how)
  BY DEF TypeOK
<1>3. Cardinality(In(how) \cup {w}) = Cardinality(In(how)) + 1
  <2> HIDE DEF In
  <2> QED
    BY <1>1, <1>2, FS_AddElement
<1>4. ASSUME NEW was, was = loop[w]
      PROVE  Cardinality(In2(was)) = Cardinality(In(was)) - 1
  <2>1. In2(was) = In(was) \ {w} /\ w \in In(was)
    BY <1>4 DEF TypeOK
  <2>2. Cardinality(In(was) \ {w}) = Cardinality(In(was)) - 1
    <3> HIDE DEF In
    <3> QED
      BY <1>1, <2>1, FS_RemoveElement
  <2> QED
    BY <2>1, <2>2
<1>5. ASSUME NEW other, other # how, other # loop[w]
      PROVE  In2(other) = In(other)
  BY <1>5 DEF TypeOK
<1> QED
  BY <1>2, <1>3, <1>4, <1>5 DEF Ended

LEMMA EndedTyped == \A how : Ended(how) \in Nat
<1>1. \A how : IsFiniteSet({w \in Workers : loop[w] = how})
  BY WorkerAssumption, FS_Subset
<1> QED
  BY <1>1, FS_CardinalityType DEF Ended

LEMMA OneMore == \A b, k \in Nat : b * (k + 1) = b * k + b /\ b * k \in Nat
OBVIOUS

\* What a step adds to the losses, and what it adds to the bound.
LossInv == UnflushedIsBounded /\ HoldsLittle /\ BufferFits /\ Inv

LEMMA NothingLost ==
  ASSUME UnflushedIsBounded, TypeOK, TypeOK', Unflushed' \subseteq Unflushed,
         \A how \in {"failed", "exited", "killed"} : Ended(how)' = Ended(how)
  PROVE  UnflushedIsBounded'
<1>1. {} \in SUBSET Messages /\ Cardinality({}) = 0 /\ Unflushed' \subseteq Unflushed \cup {}
  BY FS_EmptySet
<1>2. /\ Cardinality(Unflushed) \in Nat /\ Cardinality(Unflushed') \in Nat
      /\ Cardinality(Unflushed') <= Cardinality(Unflushed) + 0
  BY <1>1, LostGrows
<1>3. Ended("failed")' = Ended("failed") /\ Ended("exited")' = Ended("exited")
      /\ Ended("killed")' = Ended("killed")
  OBVIOUS
<1> QED
  <2> DEFINE bound == Ended("failed") + Ended("exited") + BufferSize * Ended("killed")
  <2>1. bound \in Nat
    BY EndedTyped, OneMore, WorkerAssumption
  <2>2. bound' = bound
    BY <1>3
  <2>3. Cardinality(Unflushed) <= bound
    BY DEF UnflushedIsBounded
  <2> HIDE DEF bound
  <2>4. Cardinality(Unflushed') <= bound'
    BY <1>2, <2>1, <2>2, <2>3
  <2> QED
    BY <2>4 DEF UnflushedIsBounded, bound

\* A loop ends, other than by a kill, with one message at most.
LEMMA OneLost ==
  ASSUME UnflushedIsBounded, TypeOK, TypeOK', NEW w \in Workers, NEW how \in {"failed", "exited"},
         loop[w] \in Running, loop' = [loop EXCEPT ![w] = how],
         NEW X \in SUBSET Messages, Unflushed' \subseteq Unflushed \cup X,
         X = {} \/ \E m \in Messages : X = {m}
  PROVE  UnflushedIsBounded'
<1>1. Cardinality(X) <= 1 /\ Cardinality(X) \in Nat
  <2>1. CASE X = {}
    BY <2>1, FS_EmptySet
  <2>2. ASSUME NEW m \in Messages, X = {m} PROVE Cardinality(X) = 1
    BY <2>2, FS_Singleton
  <2> QED
    BY <2>1, <2>2
<1>2. /\ Cardinality(Unflushed) \in Nat /\ Cardinality(Unflushed') \in Nat
      /\ Cardinality(Unflushed') <= Cardinality(Unflushed) + Cardinality(X)
  BY LostGrows
<1>3. loop[w] \notin {"failed", "exited", "killed"}
  BY DEF Running
<1>4. /\ Ended(how)' = Ended(how) + 1
      /\ \A other : other # how /\ other # loop[w] => Ended(other)' = Ended(other)
  BY <1>3, EndedMoves
<1>5. Ended("killed")' = Ended("killed")
  BY <1>3, <1>4
<1>6. Ended("failed")' + Ended("exited")' = Ended("failed") + Ended("exited") + 1
  BY <1>3, <1>4, EndedTyped
<1>7. Ended("failed") \in Nat /\ Ended("exited") \in Nat
      /\ Ended("failed")' \in Nat /\ Ended("exited")' \in Nat
  BY <1>3, <1>4, EndedTyped
<1>8. BufferSize * Ended("killed") \in Nat
  BY EndedTyped, OneMore, WorkerAssumption
<1>9. Cardinality(Unflushed) <= Ended("failed") + Ended("exited") + BufferSize * Ended("killed")
  BY DEF UnflushedIsBounded
<1> DEFINE k == BufferSize * Ended("killed")
<1>10. k' = k
  BY <1>5
<1> HIDE DEF k
<1>11. Cardinality(Unflushed') <= Ended("failed")' + Ended("exited")' + k'
  BY <1>1, <1>2, <1>6, <1>7, <1>8, <1>9, <1>10 DEF k
<1> QED
  BY <1>11 DEF UnflushedIsBounded, k

\* A kill costs less than a buffer and the message in flight; a process whose loop had
\* failed has none in flight, and counts as killed from now on.
LEMMA KillLoses ==
  ASSUME LossInv, Inv', NEW w \in Workers, Kill(w)
  PROVE  UnflushedIsBounded'
<1> DEFINE X == inflight[w] \cup buffer[w]
<1>1. /\ loop[w] \in Alive /\ loop' = [loop EXCEPT ![w] = "killed"] /\ loop[w] # "killed"
      /\ inflight' = [inflight EXCEPT ![w] = {}] /\ buffer' = [buffer EXCEPT ![w] = {}]
      /\ UNCHANGED <<sent, queue, flushed>> /\ loop[w] # "exited"
  BY DEF Kill, Alive, Running
<1>2. TypeOK /\ TypeOK' /\ X \in SUBSET Messages
  BY DEF LossInv, Inv, TypeOK
<1>3. \A v \in Workers \ {w} : inflight'[v] = inflight[v] /\ buffer'[v] = buffer[v]
                               /\ loop'[v] = loop[v]
  BY <1>1, <1>2 DEF TypeOK
<1>4. \A v \in Workers : FlushedBy(v)' = FlushedBy(v)
  BY <1>1 DEF FlushedBy
<1>5. Unflushed' \subseteq Unflushed \cup X
  <2> SUFFICES ASSUME NEW m \in Unflushed', m \notin X PROVE m \in Unflushed
    OBVIOUS
  <2>1. LostMeans /\ LostMeans'
    BY LostIs, PTL
  <2>2. /\ m \in sent' /\ m \notin queue'
        /\ \A v \in Workers : /\ m \notin inflight'[v]
                              /\ m \notin FlushedBy(v)'
                              /\ loop'[v] \in Alive => m \notin buffer'[v]
    BY <2>1 DEF LostMeans
  <2> QED
    BY <1>1, <1>3, <1>4, <2>1, <2>2 DEF LostMeans
<1>6. Cardinality(X) \in Nat /\ Cardinality(X) <= BufferSize
      /\ (loop[w] = "failed" => Cardinality(X) <= BufferSize - 1)
  <2>1. IsFiniteSet(buffer[w]) /\ Cardinality(buffer[w]) \in Nat
        /\ Cardinality(buffer[w]) < BufferSize
    BY <1>2, BuffersFinite DEF LossInv, BufferFits
  <2>2. CASE inflight[w] = {}
    BY <2>1, <2>2, WorkerAssumption
  <2>3. ASSUME NEW m \in Messages, inflight[w] = {m} PROVE <1>6!:
    <3>1. m \notin buffer[w]
      BY <2>3 DEF LossInv, Inv, FlushedOnce
    <3>2. Cardinality(buffer[w] \cup {m}) = Cardinality(buffer[w]) + 1
      BY <2>1, <3>1, FS_AddElement
    <3>3. X = buffer[w] \cup {m}
      BY <2>3
    <3>4. loop[w] # "failed"
      BY <2>3 DEF LossInv, HoldsLittle
    <3> HIDE DEF X
    <3> QED
      BY <2>1, <3>2, <3>3, <3>4, WorkerAssumption
  <2> QED
    BY <2>2, <2>3 DEF LossInv, Inv, OneInFlight
<1> HIDE DEF X
<1>7. /\ Cardinality(Unflushed) \in Nat /\ Cardinality(Unflushed') \in Nat
      /\ Cardinality(Unflushed') <= Cardinality(Unflushed) + Cardinality(X)
  BY <1>2, <1>5, LostGrows
<1>8. /\ Ended("killed")' = Ended("killed") + 1
      /\ \A was : was = loop[w] => Ended(was)' = Ended(was) - 1
      /\ \A other : other # "killed" /\ other # loop[w] => Ended(other)' = Ended(other)
  BY <1>1, <1>2, EndedMoves
<1>9. Ended("exited")' = Ended("exited")
  BY <1>1, <1>8
<1>10. Ended("failed")' = IF loop[w] = "failed" THEN Ended("failed") - 1 ELSE Ended("failed")
  BY <1>8
<1> DEFINE k == BufferSize * Ended("killed")
<1>11. k' = k + BufferSize /\ k \in Nat
  BY <1>8, EndedTyped, OneMore, WorkerAssumption
<1>12. Cardinality(Unflushed) <= Ended("failed") + Ended("exited") + k
  BY DEF LossInv, UnflushedIsBounded
<1> HIDE DEF k
<1>13. Ended("failed") \in Nat /\ Ended("exited") \in Nat
  BY EndedTyped
<1>14. Cardinality(Unflushed') <= Ended("failed")' + Ended("exited")' + k'
  <2>1. CASE loop[w] = "failed"
    BY <1>6, <1>7, <1>9, <1>10, <1>11, <1>12, <1>13, <2>1, WorkerAssumption
  <2>2. CASE loop[w] # "failed"
    BY <1>6, <1>7, <1>9, <1>10, <1>11, <1>12, <1>13, <2>2, WorkerAssumption
  <2> QED
    BY <2>1, <2>2
<1> QED
  BY <1>14 DEF UnflushedIsBounded, k

\* A step of w that loses X at most: the rest of what w had in its reach is in it still.
LEMMA LostWithin ==
  ASSUME NEW w \in Workers, NEW X, UNCHANGED sent,
         \A v \in Workers \ {w} : /\ inflight'[v] = inflight[v] /\ buffer'[v] = buffer[v]
                                  /\ flushed'[v] = flushed[v] /\ loop'[v] = loop[v],
         flushed[w] \subseteq flushed'[w],
         queue \subseteq queue' \cup inflight'[w],
         \A m \in inflight[w] \cup (IF loop[w] \in Alive THEN buffer[w] ELSE {}) :
           \/ m \in X \/ m \in inflight'[w] \/ m \in FlushedBy(w)'
           \/ loop'[w] \in Alive /\ m \in buffer'[w]
  PROVE  Unflushed' \subseteq Unflushed \cup X
<1>1. LostMeans /\ LostMeans'
  BY LostIs, PTL
<1>2. /\ FlushedBy(w) \subseteq FlushedBy(w)'
      /\ \A v \in Workers \ {w} : FlushedBy(v)' = FlushedBy(v)
  BY DEF FlushedBy
<1> SUFFICES ASSUME NEW m \in Unflushed', m \notin X PROVE m \in Unflushed
  OBVIOUS
<1>3. /\ m \in sent' /\ m \notin queue'
      /\ \A v \in Workers : /\ m \notin inflight'[v]
                            /\ m \notin FlushedBy(v)'
                            /\ loop'[v] \in Alive => m \notin buffer'[v]
  BY <1>1 DEF LostMeans
<1>4. m \in sent /\ m \notin queue
  BY <1>3
<1>5. m \notin inflight[w] /\ m \notin FlushedBy(w) /\ (loop[w] \in Alive => m \notin buffer[w])
  BY <1>2, <1>3
<1>6. \A v \in Workers \ {w} : /\ m \notin inflight[v]
                               /\ m \notin FlushedBy(v)
                               /\ loop[v] \in Alive => m \notin buffer[v]
  BY <1>2, <1>3
<1> QED
  BY <1>1, <1>4, <1>5, <1>6 DEF LostMeans

\* The places of loops that have ended count as before.
LEMMA SameEnds ==
  ASSUME TypeOK, NEW w \in Workers,
         loop' = loop \/ \E l \in Running : loop' = [loop EXCEPT ![w] = l] /\ loop[w] \in Running
  PROVE  \A how \in {"failed", "exited", "killed"} : Ended(how)' = Ended(how)
<1> SUFFICES ASSUME NEW how \in {"failed", "exited", "killed"}
             PROVE  {v \in Workers : loop'[v] = how} = {v \in Workers : loop[v] = how}
  BY DEF Ended
<1> QED
  BY DEF TypeOK, Running

\* A loop that ends by the flag, or goes on: it loses what it still holds in the
\* buffer when it ends, one message at most.
LEMMA AgainLoses ==
  ASSUME UnflushedIsBounded, TypeOK, TypeOK', NEW w \in Workers, Again(w), loop[w] \in Running,
         UNCHANGED sent, queue \subseteq queue', flushed[w] \subseteq flushed'[w],
         \A v \in Workers \ {w} : /\ inflight'[v] = inflight[v] /\ buffer'[v] = buffer[v]
                                  /\ flushed'[v] = flushed[v],
         inflight[w] \cup buffer[w] \subseteq inflight'[w] \cup FlushedBy(w)' \cup buffer'[w],
         stopped[w] => buffer'[w] = {} \/ \E m \in Messages : buffer'[w] = {m}
  PROVE  UnflushedIsBounded'
<1>1. \A v \in Workers \ {w} : loop'[v] = loop[v]
  BY DEF Again, TypeOK
<1>2. CASE stopped[w]
  <2>1. loop' = [loop EXCEPT ![w] = "exited"]
    BY <1>2 DEF Again
  <2>2. buffer'[w] \in SUBSET Messages
    BY DEF TypeOK
  <2>3. ASSUME NEW X, X = buffer'[w] PROVE Unflushed' \subseteq Unflushed \cup X
    BY <1>1, <2>3, LostWithin
  <2>4. ASSUME NEW X \in SUBSET Messages, X = buffer'[w] PROVE UnflushedIsBounded'
    BY <1>2, <2>1, <2>3, <2>4, OneLost
  <2> QED
    BY <2>2, <2>4
<1>3. CASE ~ stopped[w]
  <2>1. loop' = [loop EXCEPT ![w] = "pulling"] /\ loop'[w] = "pulling"
    BY <1>3 DEF Again, TypeOK
  <2>2. loop'[w] \in Alive
    BY <2>1 DEF Alive, Running
  <2>3. Unflushed' \subseteq Unflushed \cup {}
    BY <1>1, <2>2, LostWithin
  <2>4. \A how \in {"failed", "exited", "killed"} : Ended(how)' = Ended(how)
    <3>1. "pulling" \in Running
      BY DEF Running
    <3> QED
      BY <2>1, <3>1, SameEnds
  <2> QED
    BY <2>3, <2>4, NothingLost
<1> QED
  BY <1>2, <1>3

LEMMA LoopLoses ==
  ASSUME LossInv, Inv', NEW w \in Workers, Loop(w)
  PROVE  UnflushedIsBounded'
<1> USE DEF Inv, TypeOK, LossInv
<1>1. UnflushedIsBounded /\ TypeOK /\ TypeOK'
  OBVIOUS
<1>2. CASE Start(w) \/ Wake(w)
  <2>1. /\ Again(w) /\ loop[w] \in Running
        /\ UNCHANGED <<sent, queue, stopped, inflight, buffer, flushed>>
    BY <1>2 DEF Start, Wake, Running
  <2>2. stopped[w] => buffer'[w] = {}
    BY <2>1 DEF HoldsLittle, Alive
  <2> QED
    BY <1>1, <2>1, <2>2, AgainLoses
<1>3. CASE Pull(w)
  <2>1. /\ loop[w] = "pulling" /\ loop' = [loop EXCEPT ![w] = "answered"]
        /\ UNCHANGED <<sent, buffer, flushed>> /\ inflight[w] = {}
        /\ queue \subseteq queue' \cup inflight'[w]
        /\ \A v \in Workers \ {w} : inflight'[v] = inflight[v] /\ loop'[v] = loop[v]
    BY <1>3 DEF Pull, HoldsLittle
  <2>2. loop'[w] = "answered" /\ "answered" \in Running /\ "pulling" \in Running
        /\ "answered" \in Alive
    BY <2>1 DEF Running, Alive
  <2>3. Unflushed' \subseteq Unflushed \cup {}
    BY <2>1, <2>2, LostWithin
  <2>4. \A how \in {"failed", "exited", "killed"} : Ended(how)' = Ended(how)
    BY <2>1, <2>2, SameEnds
  <2> QED
    BY <1>1, <2>3, <2>4, NothingLost
<1>4. CASE Receive(w)
  <2> DEFINE held == buffer[w] \cup inflight[w]
  <2>1. /\ loop[w] = "answered" /\ Again(w) /\ UNCHANGED <<sent, queue, stopped>>
        /\ inflight' = [inflight EXCEPT ![w] = {}]
        /\ Flush(w, held) \/ Hold(w, held)
    BY <1>4 DEF Receive
  <2>2. loop[w] \in Running /\ loop[w] \in Alive
    BY <2>1 DEF Running, Alive
  <2>3. held \in SUBSET Messages
    OBVIOUS
  <2>4. \A v \in Workers \ {w} : inflight'[v] = inflight[v]
    BY <2>1
  <2>5. PICK m \in Messages : inflight[w] = {m}
    BY <1>4 DEF Receive, OneInFlight
  <2>6. stopped[w] => buffer[w] = {}
    BY <2>2 DEF HoldsLittle
  <2>7. CASE Flush(w, held)
    <3>1. /\ buffer'[w] = {} /\ FlushedBy(w)' = FlushedBy(w) \cup held
          /\ \A v \in Workers \ {w} : flushed'[v] = flushed[v] /\ buffer'[v] = buffer[v]
      BY <2>3, <2>7, FlushAdds
    <3>2. flushed[w] \subseteq flushed'[w]
      BY <2>7 DEF Flush
    <3> QED
      BY <1>1, <2>1, <2>2, <2>4, <3>1, <3>2, AgainLoses
  <2>8. CASE Hold(w, held)
    <3>1. /\ buffer'[w] = held /\ flushed' = flushed
          /\ \A v \in Workers \ {w} : buffer'[v] = buffer[v]
      BY <2>8 DEF Hold
    <3>2. stopped[w] => buffer'[w] = {m}
      BY <2>5, <2>6, <3>1
    <3> QED
      BY <1>1, <2>1, <2>2, <2>4, <3>1, <3>2, AgainLoses
  <2> QED
    BY <2>1, <2>7, <2>8
<1>5. CASE StandBy(w)
  <2>1. /\ loop[w] = "answered" /\ loop' = [loop EXCEPT ![w] = "asleep"]
        /\ UNCHANGED <<sent, queue, inflight>> /\ inflight[w] = {} /\ Flush(w, buffer[w])
        /\ \A v \in Workers \ {w} : inflight'[v] = inflight[v] /\ loop'[v] = loop[v]
    BY <1>5 DEF StandBy
  <2>2. /\ FlushedBy(w)' = FlushedBy(w) \cup buffer[w]
        /\ \A v \in Workers \ {w} : flushed'[v] = flushed[v] /\ buffer'[v] = buffer[v]
    BY <2>1, FlushAdds
  <2>3. flushed[w] \subseteq flushed'[w]
    BY <2>1 DEF Flush
  <2>4. Unflushed' \subseteq Unflushed \cup {}
    BY <2>1, <2>2, <2>3, LostWithin
  <2>5. \A how \in {"failed", "exited", "killed"} : Ended(how)' = Ended(how)
    BY <2>1, SameEnds DEF Running
  <2> QED
    BY <1>1, <2>4, <2>5, NothingLost
<1> QED
  BY <1>2, <1>3, <1>4, <1>5 DEF Loop

LEMMA LossNext == LossInv /\ Inv' /\ [Next]_vars => UnflushedIsBounded'
<1> SUFFICES ASSUME LossInv, Inv', [Next]_vars PROVE UnflushedIsBounded'
  OBVIOUS
<1>1. UnflushedIsBounded /\ TypeOK /\ TypeOK'
  BY DEF LossInv, Inv
<1>2. CASE UNCHANGED vars
  BY <1>1, <1>2 DEF vars, UnflushedIsBounded, Unflushed, FlushedBy, Ended
<1>3. ASSUME NEW m \in Messages, Push(m) PROVE UnflushedIsBounded'
  <2>1. LostMeans /\ LostMeans'
    BY LostIs, PTL
  <2>2. \A w \in Workers : FlushedBy(w)' = FlushedBy(w)
    BY <1>3 DEF Push, FlushedBy
  <2>3. Unflushed' \subseteq Unflushed
    BY <1>3, <2>1, <2>2 DEF Push, LostMeans
  <2>4. \A how \in {"failed", "exited", "killed"} : Ended(how)' = Ended(how)
    BY <1>3 DEF Push, Ended
  <2> QED
    BY <1>1, <2>3, <2>4, NothingLost
<1>4. ASSUME NEW w \in Workers, Loop(w) PROVE UnflushedIsBounded'
  BY <1>4, LoopLoses
<1>5. ASSUME NEW w \in Workers, Update(w) PROVE UnflushedIsBounded'
  BY <1>5 DEF Update, LossInv, UnflushedIsBounded, Unflushed, FlushedBy, Ended
<1>6. ASSUME NEW w \in Workers, Fail(w) PROVE UnflushedIsBounded'
  <2>1. /\ loop[w] \in Running /\ loop' = [loop EXCEPT ![w] = "failed"]
        /\ UNCHANGED <<sent, queue, buffer, flushed>>
        /\ \A v \in Workers \ {w} : inflight'[v] = inflight[v] /\ loop'[v] = loop[v]
    BY <1>1, <1>6 DEF Fail, Running, TypeOK
  <2>2. loop'[w] = "failed" /\ "failed" \in Alive
    BY <1>1, <2>1 DEF TypeOK, Alive
  <2>3. inflight[w] \in SUBSET Messages
        /\ (inflight[w] = {} \/ \E m \in Messages : inflight[w] = {m})
    BY <1>1 DEF TypeOK, LossInv, Inv, OneInFlight
  <2>4. Unflushed' \subseteq Unflushed \cup inflight[w]
    BY <2>1, <2>2, LostWithin
  <2> QED
    BY <1>1, <2>1, <2>3, <2>4, OneLost
<1>7. ASSUME NEW w \in Workers, Interrupt(w) PROVE UnflushedIsBounded'
  <2>1. /\ loop[w] \in Alive /\ UNCHANGED <<sent, queue, loop, inflight>>
        /\ Flush(w, buffer[w]) /\ buffer[w] \in SUBSET Messages
    BY <1>1, <1>7 DEF Interrupt, TypeOK
  <2>2. /\ FlushedBy(w)' = FlushedBy(w) \cup buffer[w]
        /\ \A v \in Workers \ {w} : flushed'[v] = flushed[v] /\ buffer'[v] = buffer[v]
    BY <1>1, <2>1, FlushAdds
  <2>3. flushed[w] \subseteq flushed'[w]
    BY <1>1, <2>1 DEF Flush, TypeOK
  <2>4. Unflushed' \subseteq Unflushed \cup {}
    BY <2>1, <2>2, <2>3, LostWithin
  <2>5. \A how \in {"failed", "exited", "killed"} : Ended(how)' = Ended(how)
    BY <2>1 DEF Ended
  <2> QED
    BY <1>1, <2>4, <2>5, NothingLost
<1>8. ASSUME NEW w \in Workers, Kill(w) PROVE UnflushedIsBounded'
  BY <1>8, KillLoses
<1> QED
  BY <1>2, <1>3, <1>4, <1>5, <1>6, <1>7, <1>8 DEF Next

\* Whatever stops them, workers leave no more events unflushed than a message for each
\* that failed or stopped and a buffer for each that was killed.
THEOREM LossesStayBounded == Spec => []LossInv
<1>1. Init => LossInv
  <2> SUFFICES ASSUME Init PROVE LossInv
    OBVIOUS
  <2>1. Inv
    BY InvInit
  <2>2. BufferFits
    BY FS_EmptySet, WorkerAssumption DEF Init, BufferFits
  <2>3. HoldsLittle
    BY DEF Init, HoldsLittle
  <2>4. Unflushed = {}
    BY DEF Init, Unflushed
  <2>5. Cardinality(Unflushed) = 0
    BY <2>4, FS_EmptySet
  <2>6. Ended("failed") \in Nat /\ Ended("exited") \in Nat /\ BufferSize * Ended("killed") \in Nat
    BY EndedTyped, OneMore, WorkerAssumption
  <2> DEFINE k == BufferSize * Ended("killed")
  <2>7. UnflushedIsBounded
    <3> HIDE DEF k
    <3>1. 0 <= Ended("failed") + Ended("exited") + k
      BY <2>6 DEF k
    <3> QED
      BY <2>5, <3>1 DEF UnflushedIsBounded, k
  <2> QED
    BY <2>1, <2>2, <2>3, <2>7 DEF LossInv
<1>2. LossInv /\ [Next]_vars => LossInv'
  BY InvNext, HoldsLittleNext, FitsNext, LossNext DEF LossInv
<1> QED
  BY <1>1, <1>2, PTL DEF Spec

\* What is lost was either never flushed or is in an update of a process that has gone.
LEMMA LossIsOfTwoKinds == Lost \subseteq Unflushed \cup Unexecuted
<1> SUFFICES ASSUME NEW m \in Lost, m \notin Unexecuted PROVE m \in Unflushed
  OBVIOUS
<1> DEFINE Pulling == UNION {inflight[w] : w \in Workers}
           Living == UNION {buffer[w] \cup FlushedBy(w) : w \in {v \in Workers : ~ Gone(v)}}
<1>1. /\ m \in sent /\ m \notin queue /\ m \notin counted
      /\ \A w \in Workers : m \notin inflight[w]
      /\ \A w \in Workers : ~ Gone(w) => m \notin buffer[w] /\ m \notin FlushedBy(w)
  <2>1. \A w \in Workers : m \in inflight[w] => m \in Pulling
    BY Zenon
  <2>2. \A w \in {v \in Workers : ~ Gone(v)} : m \in buffer[w] \cup FlushedBy(w) => m \in Living
    BY Zenon
  <2>3. m \in sent \ (queue \cup counted \cup Pulling \cup Living)
    BY DEF Lost
  <2> HIDE DEF Pulling, Living
  <2> QED
    BY <2>1, <2>2, <2>3
<1>2. \A w \in Workers : Gone(w) => m \notin FlushedBy(w)
  <2> DEFINE Behind == UNION {FlushedBy(w) : w \in {v \in Workers : Gone(v)}}
  <2>1. \A w \in {v \in Workers : Gone(v)} : m \in FlushedBy(w) => m \in Behind
    BY Zenon
  <2>2. m \notin Behind
    BY <1>1 DEF Unexecuted
  <2> HIDE DEF Behind
  <2> QED
    BY <2>1, <2>2
<1>3. \A w \in Workers : m \notin FlushedBy(w)
  BY <1>1, <1>2
<1>4. \A w \in Workers : loop[w] \in Alive => m \notin buffer[w]
  BY <1>1 DEF Gone
<1> QED
  BY <1>1, <1>3, <1>4, LostIs DEF LostMeans

LEMMA LossInvBounds == LossInv => LossIsBounded
<1> SUFFICES ASSUME LossInv PROVE LossIsBounded
  OBVIOUS
<1>1. /\ IsFiniteSet(Unflushed) /\ IsFiniteSet(Unexecuted)
      /\ Unflushed \subseteq Messages
  <2>1. Unflushed \subseteq Messages /\ Unexecuted \subseteq Messages
    BY DEF LossInv, Inv, TypeOK, Unflushed, Unexecuted, FlushedBy
  <2> QED
    BY <2>1, WorkerAssumption, FS_Subset
<1>2. /\ IsFiniteSet(Unflushed \cup Unexecuted)
      /\ Cardinality(Unflushed \cup Unexecuted)
           = Cardinality(Unflushed) + Cardinality(Unexecuted)
               - Cardinality(Unflushed \cap Unexecuted)
  BY <1>1, FS_Union
<1>3. /\ Cardinality(Lost) <= Cardinality(Unflushed \cup Unexecuted)
      /\ Cardinality(Lost) \in Nat
  BY <1>2, LossIsOfTwoKinds, FS_Subset, FS_CardinalityType
<1>4. /\ Cardinality(Unflushed) \in Nat /\ Cardinality(Unexecuted) \in Nat
      /\ Cardinality(Unflushed \cap Unexecuted) \in Nat
      /\ Cardinality(Unflushed \cup Unexecuted) \in Nat
  BY <1>1, <1>2, FS_CardinalityType, FS_Intersection
<1> DEFINE bound == Ended("failed") + Ended("exited") + BufferSize * Ended("killed")
<1>5. bound \in Nat
  BY EndedTyped, OneMore, WorkerAssumption
<1>6. Cardinality(Unflushed) <= bound
  BY DEF LossInv, UnflushedIsBounded
<1> HIDE DEF bound
<1>7. Cardinality(Lost) <= bound + Cardinality(Unexecuted)
  BY <1>2, <1>3, <1>4, <1>5, <1>6
<1> QED
  BY <1>7, Zenon DEF LossIsBounded, bound

\* Whatever stops them, workers lose no more than a message for each that failed or
\* stopped, a buffer for each that was killed, and the updates that those which have
\* gone had issued and the database did not execute.
THEOREM LossIsBoundedHolds == Spec => []LossIsBounded
BY LossesStayBounded, LossInvBounds, PTL
=============================================================================
