------------------------ MODULE ConnectionPool_proofs ------------------------
(***************************************************************************)
(* Whatever callers race for connections, in any number and for any        *)
(* backends: a key is marked exactly while one of them connects it, and    *)
(* what is open is in the pool, or was left by a connect that failed.      *)
(***************************************************************************)
EXTENDS ConnectionPool, TLAPS

\* A key that is marked has no connection yet; a use or a load has a backend
\* for its key.
Unshared == /\ \A k \in isAdding : pool[k] = None
            /\ \A c \in Callers :
                 call[c].kind \in {"use", "load"} => call[c].key \in Backends

Inv == TypeOK /\ Unshared /\ MarkedWhileConnecting

\* No caller but c moves.
LEMMA OneMoves ==
  ASSUME NEW c \in Callers, TypeOK, NEW p \in Labels, NEW a \in Answers,
         call' = [call EXCEPT ![c].pc = p, ![c].answer = a]
  PROVE  /\ call' \in [Callers -> CallStates]
         /\ call'[c].kind = call[c].kind /\ call'[c].key = call[c].key
         /\ call'[c].pc = p
         /\ \A d \in Callers \ {c} : call'[d] = call[d]
<1>1. /\ call'[c] = [call[c] EXCEPT !.pc = p, !.answer = a]
      /\ \A d \in Callers \ {c} : call'[d] = call[d]
      /\ DOMAIN call' = Callers
  BY DEF TypeOK
<1>2. call[c] \in CallStates
  BY DEF TypeOK
<1>3. call'[c] \in CallStates
  BY <1>1, <1>2 DEF CallStates
<1> QED
  BY <1>1, <1>2, <1>3 DEF TypeOK, CallStates

LEMMA OneGoes ==
  ASSUME NEW c \in Callers, TypeOK, NEW p \in Labels, Goto(c, p)
  PROVE  /\ call' \in [Callers -> CallStates]
         /\ call'[c].kind = call[c].kind /\ call'[c].key = call[c].key
         /\ call'[c].pc = p
         /\ \A d \in Callers \ {c} : call'[d] = call[d]
<1>1. /\ call'[c] = [call[c] EXCEPT !.pc = p]
      /\ \A d \in Callers \ {c} : call'[d] = call[d]
      /\ DOMAIN call' = Callers
  BY DEF TypeOK, Goto
<1>2. call[c] \in CallStates
  BY DEF TypeOK
<1>3. call'[c] \in CallStates
  BY <1>1, <1>2 DEF CallStates
<1> QED
  BY <1>1, <1>2, <1>3 DEF TypeOK, CallStates, Goto

LEMMA OneLoads ==
  ASSUME NEW c \in Callers, TypeOK, NEW k \in Keys, NEW T \in SUBSET Backends,
         call' = [call EXCEPT ![c].pc = "connecting", ![c].key = k, ![c].todo = T]
  PROVE  /\ call' \in [Callers -> CallStates]
         /\ call'[c].kind = call[c].kind /\ call'[c].key = k
         /\ call'[c].pc = "connecting"
         /\ \A d \in Callers \ {c} : call'[d] = call[d]
<1>1. /\ call'[c] = [call[c] EXCEPT !.pc = "connecting", !.key = k, !.todo = T]
      /\ \A d \in Callers \ {c} : call'[d] = call[d]
      /\ DOMAIN call' = Callers
  BY DEF TypeOK
<1>2. call[c] \in CallStates
  BY DEF TypeOK
<1>3. call'[c] \in CallStates
  BY <1>1, <1>2 DEF CallStates, Labels
<1> QED
  BY <1>1, <1>2, <1>3 DEF TypeOK, CallStates

\* A caller answers.
LEMMA OneAnswers ==
  ASSUME NEW c \in Callers, TypeOK, NEW a \in Answers, Answer(c, a)
  PROVE  /\ call' \in [Callers -> CallStates]
         /\ call'[c].kind = call[c].kind /\ call'[c].key = call[c].key
         /\ call'[c].pc = "done"
         /\ \A d \in Callers \ {c} : call'[d] = call[d]
BY OneMoves DEF Answer, Labels

-----------------------------------------------------------------------------
\* What is marked without the key c connects is what the others connect.
Rest(c) == {k \in isAdding : ~ Connecting(c, k)}

\* One caller moves: what it stops connecting loses its mark, and what it begins
\* to connect was not marked.
LEMMA MarksFollow ==
  ASSUME NEW c \in Callers, Inv, call' \in [Callers -> CallStates],
         \A d \in Callers \ {c} : call'[d] = call[d],
         \/ call'[c].pc # "connecting" /\ isAdding' = Rest(c)
         \/ /\ call'[c].pc = "connecting" /\ call'[c].key \notin Rest(c)
            /\ isAdding' = Rest(c) \cup {call'[c].key}
  PROVE  MarkedWhileConnecting'
<1>1. \A k \in Keys : k \in Rest(c) <=> \E d \in Callers \ {c} : Connecting(d, k)
  <2> SUFFICES ASSUME NEW k \in Keys
               PROVE  k \in Rest(c) <=> \E d \in Callers \ {c} : Connecting(d, k)
    OBVIOUS
  <2>1. k \in Rest(c) => \E d \in Callers \ {c} : Connecting(d, k)
    BY DEF Rest, Inv, MarkedWhileConnecting
  <2>2. ASSUME NEW d \in Callers \ {c}, Connecting(d, k) PROVE k \in Rest(c)
    BY <2>2 DEF Rest, Inv, MarkedWhileConnecting
  <2> QED
    BY <2>1, <2>2
<1>2. \A k \in Keys, d \in Callers \ {c} : Connecting(d, k)' <=> Connecting(d, k)
  BY DEF Connecting
<1>3. \A k \in Keys : Connecting(c, k)' <=> call'[c].pc = "connecting" /\ call'[c].key = k
  BY DEF Connecting
<1>4. \A k \in Keys : k \in isAdding' <=> \E d \in Callers : Connecting(d, k)'
  BY <1>1, <1>2, <1>3
<1>5. \A k \in Keys, d, e \in Callers : Connecting(d, k)' /\ Connecting(e, k)' => d = e
  <2> SUFFICES ASSUME NEW k \in Keys, NEW d \in Callers, NEW e \in Callers,
                      Connecting(d, k)', Connecting(e, k)', d # e
               PROVE  FALSE
    OBVIOUS
  <2>1. CASE d # c /\ e # c
    BY <2>1, <1>2 DEF Inv, MarkedWhileConnecting
  <2>2. CASE d = c
    BY <2>2, <1>1, <1>2, <1>3
  <2>3. CASE e = c
    BY <2>3, <1>1, <1>2, <1>3
  <2> QED
    BY <2>1, <2>2, <2>3
<1> QED
  BY <1>4, <1>5 DEF MarkedWhileConnecting

\* A caller that neither connected nor begins to connect leaves all marks alone.
LEMMA MarksStay ==
  ASSUME NEW c \in Callers, Inv, call' \in [Callers -> CallStates],
         \A d \in Callers \ {c} : call'[d] = call[d],
         call[c].pc # "connecting", call'[c].pc # "connecting", isAdding' = isAdding
  PROVE  MarkedWhileConnecting'
<1>1. Rest(c) = isAdding
  BY DEF Rest, Connecting
<1> QED
  BY <1>1, MarksFollow

\* A caller that is connecting holds the mark of its key alone.
LEMMA RestOfConnecting ==
  ASSUME NEW c \in Callers, Inv, call[c].pc = "connecting"
  PROVE  /\ Rest(c) = isAdding \ {call[c].key}
         /\ call[c].key \in isAdding
         /\ call[c].key \in Keys
<1>1. call[c].key \in Keys
  BY DEF Inv, TypeOK, CallStates
<1>2. call[c].key \in isAdding
  BY <1>1 DEF Inv, MarkedWhileConnecting, Connecting
<1> QED
  BY <1>1, <1>2 DEF Rest, Connecting

\* A caller that connected answers, or goes on with its queue.
LEMMA MarksEnd ==
  ASSUME NEW c \in Callers, Inv, call' \in [Callers -> CallStates],
         \A d \in Callers \ {c} : call'[d] = call[d],
         call[c].pc = "connecting", call'[c].pc # "connecting",
         isAdding' = isAdding \ {call[c].key}
  PROVE  MarkedWhileConnecting'
BY RestOfConnecting, MarksFollow

-----------------------------------------------------------------------------
\* create, up to its wait: the pool is left alone.
LEMMA CreateKeeps ==
  ASSUME NEW c \in Callers, Inv, call[c].pc # "connecting", Create(c),
         UNCHANGED <<pool, opened>>
  PROVE  Inv'
<1>1. call[c].key \in Keys
  BY DEF Inv, TypeOK, CallStates
<1>2. CASE Connect(c)
  <2>1. /\ isAdding' = isAdding \cup {call[c].key} /\ call[c].key \notin isAdding
        /\ pool[call[c].key] = None
        /\ UNCHANGED <<backends, initialized>>
    BY <1>2 DEF Connect, Free, IsOpen
  <2>2. /\ call' \in [Callers -> CallStates]
        /\ call'[c].kind = call[c].kind /\ call'[c].key = call[c].key
        /\ call'[c].pc = "connecting"
        /\ \A d \in Callers \ {c} : call'[d] = call[d]
    BY <1>2, OneGoes DEF Connect, Inv, Labels
  <2>3. Rest(c) = isAdding
    BY DEF Rest, Connecting
  <2>4. MarkedWhileConnecting'
    BY <2>1, <2>2, <2>3, MarksFollow
  <2>5. TypeOK'
    BY <1>1, <2>1, <2>2 DEF Inv, TypeOK
  <2>6. Unshared'
    BY <2>1, <2>2 DEF Inv, Unshared
  <2> QED
    BY <2>4, <2>5, <2>6 DEF Inv
<1>3. CASE Already(c) \/ NoClient(c)
  <2>1. /\ isAdding' = isAdding /\ initialized' = initialized
        /\ backends' = backends \/
              (call[c].kind = "use" /\ backends' = backends \cup {call[c].key})
    BY <1>3 DEF Already, NoClient, Register
  <2>2. /\ call' \in [Callers -> CallStates]
        /\ call'[c].kind = call[c].kind /\ call'[c].key = call[c].key
        /\ call'[c].pc = "done"
        /\ \A d \in Callers \ {c} : call'[d] = call[d]
    BY <1>3, OneAnswers DEF Already, NoClient, Inv, Answers
  <2>3. MarkedWhileConnecting'
    BY <2>1, <2>2, MarksStay
  <2>4. backends' \subseteq Backends
    BY <2>1 DEF Inv, TypeOK, Unshared
  <2>5. TypeOK'
    BY <2>1, <2>2, <2>4 DEF Inv, TypeOK
  <2>6. Unshared'
    BY <2>1, <2>2 DEF Inv, Unshared
  <2> QED
    BY <2>3, <2>5, <2>6 DEF Inv
<1> QED
  BY <1>2, <1>3 DEF Create

\* A caller that does not connect answers, or goes on to look in the database.
LEMMA AsideKeeps ==
  ASSUME NEW c \in Callers, Inv, call[c].pc # "connecting",
         \/ \E a \in Answers : Answer(c, a)
         \/ Goto(c, "finding"),
         UNCHANGED <<pool, isAdding, backends, opened>>, initialized' \in BOOLEAN
  PROVE  Inv'
<1>1. /\ call' \in [Callers -> CallStates]
      /\ call'[c].kind = call[c].kind /\ call'[c].key = call[c].key
      /\ call'[c].pc # "connecting"
      /\ \A d \in Callers \ {c} : call'[d] = call[d]
  BY OneAnswers, OneGoes DEF Inv, Labels
<1>2. MarkedWhileConnecting'
  BY <1>1, MarksStay
<1>3. TypeOK'
  BY <1>1 DEF Inv, TypeOK
<1>4. Unshared'
  BY <1>1 DEF Inv, Unshared
<1> QED
  BY <1>2, <1>3, <1>4 DEF Inv

\* The loading goes from what it connected, if anything, to what it connects
\* next, if anything.
LEMMA LoadKeeps ==
  ASSUME NEW c \in Callers, Inv, call[c].kind = "load",
         NEW registered \in SUBSET Backends, NEW todo \in SUBSET Backends,
         LoadNext(c, registered, Rest(c), todo),
         pool' \in [Keys -> Callers \cup {None}],
         \A k \in Keys : k \in Rest(c) \/ (Free(k) /\ k \in Backends) => pool'[k] = None,
         initialized' = initialized, opened' \subseteq Callers \X Keys
  PROVE  Inv'
<1>1. PICK skipped \in SUBSET (todo \cap Rest(c)) :
        /\ backends' = registered \cup skipped
        /\ \/ Answer(c, "ok") /\ isAdding' = Rest(c)
           \/ Answer(c, "already") /\ isAdding' = Rest(c)
           \/ \E k \in todo \ skipped :
                /\ Free(k)
                /\ isAdding' = Rest(c) \cup {k}
                /\ call' = [call EXCEPT ![c].pc = "connecting", ![c].key = k,
                                        ![c].todo = todo \ (skipped \cup {k})]
  BY DEF LoadNext
<1>2. Rest(c) \subseteq isAdding /\ isAdding \subseteq Keys
  BY DEF Rest, Inv, TypeOK
<1>3. backends' \subseteq Backends
  BY <1>1
<1>4. CASE /\ Answer(c, "ok") \/ Answer(c, "already")
           /\ isAdding' = Rest(c)
  <2>1. /\ call' \in [Callers -> CallStates]
        /\ call'[c].kind = call[c].kind /\ call'[c].key = call[c].key
        /\ call'[c].pc = "done"
        /\ \A d \in Callers \ {c} : call'[d] = call[d]
    BY <1>4, OneAnswers DEF Inv, Answers
  <2>2. MarkedWhileConnecting'
    BY <1>4, <2>1, MarksFollow
  <2>3. TypeOK'
    BY <1>2, <1>3, <1>4, <2>1 DEF Inv, TypeOK
  <2>4. Unshared'
    BY <1>2, <1>4, <2>1 DEF Inv, Unshared
  <2> QED
    BY <2>2, <2>3, <2>4 DEF Inv
<1>5. ASSUME NEW k \in todo \ skipped, Free(k), isAdding' = Rest(c) \cup {k},
             call' = [call EXCEPT ![c].pc = "connecting", ![c].key = k,
                                  ![c].todo = todo \ (skipped \cup {k})]
      PROVE  Inv'
  <2>1. k \in Keys /\ k \in Backends /\ k \notin Rest(c)
    BY <1>5, <1>2 DEF Keys, Free
  <2>2. /\ call' \in [Callers -> CallStates]
        /\ call'[c].kind = call[c].kind /\ call'[c].key = k
        /\ call'[c].pc = "connecting"
        /\ \A d \in Callers \ {c} : call'[d] = call[d]
    <3>1. todo \ (skipped \cup {k}) \in SUBSET Backends
      OBVIOUS
    <3> QED
      BY <1>5, <2>1, <3>1, OneLoads DEF Inv
  <2>3. MarkedWhileConnecting'
    BY <1>5, <2>1, <2>2, MarksFollow
  <2>4. TypeOK'
    BY <1>2, <1>3, <1>5, <2>1, <2>2 DEF Inv, TypeOK
  <2>5. Unshared'
    BY <1>2, <1>5, <2>1, <2>2 DEF Inv, Unshared
  <2> QED
    BY <2>3, <2>4, <2>5 DEF Inv
<1> QED
  BY <1>1, <1>4, <1>5

\* A connection that arrived or failed: the mark goes, and the pool changes at
\* that key only.
LEMMA EndKeeps ==
  ASSUME NEW c \in Callers, Inv, call[c].pc = "connecting",
         \/ \E a \in Answers : Answer(c, a)
         \/ Goto(c, "creating"),
         isAdding' = isAdding \ {call[c].key},
         pool' = pool \/ pool' = [pool EXCEPT ![call[c].key] = c],
         backends' \subseteq Backends, initialized' = initialized,
         opened' \subseteq Callers \X Keys
  PROVE  Inv'
<1>1. /\ call' \in [Callers -> CallStates]
      /\ call'[c].kind = call[c].kind /\ call'[c].key = call[c].key
      /\ call'[c].pc # "connecting"
      /\ \A d \in Callers \ {c} : call'[d] = call[d]
  BY OneAnswers, OneGoes DEF Inv, Labels
<1>2. MarkedWhileConnecting'
  BY <1>1, MarksEnd
<1>3. call[c].key \in Keys
  BY RestOfConnecting
<1>4. TypeOK'
  BY <1>1, <1>3 DEF Inv, TypeOK
<1>5. Unshared'
  BY <1>1, <1>3 DEF Inv, Unshared, TypeOK
<1> QED
  BY <1>2, <1>4, <1>5 DEF Inv

LEMMA InvInit == Init => Inv
<1> SUFFICES ASSUME Init PROVE Inv
  OBVIOUS
<1>1. \A c \in Callers : /\ call[c] \in CallStates
                         /\ call[c].pc = "start"
                         /\ call[c].kind \in {"use", "load"} => call[c].key \in Backends
  <2> SUFFICES ASSUME NEW c \in Callers
               PROVE  /\ call[c] \in CallStates
                      /\ call[c].pc = "start"
                      /\ call[c].kind \in {"use", "load"} => call[c].key \in Backends
    OBVIOUS
  <2>1. PICK kind \in Kinds : call[c] \in Calls(kind)
    BY DEF Init
  <2>2. KeysOf(kind) \subseteq Keys /\ (kind \in {"use", "load"} => KeysOf(kind) = Backends)
    BY DEF Keys, KeysOf, Kinds
  <2> QED
    BY <2>1, <2>2 DEF Calls, CallStates, Labels, Answers
<1>2. call \in [Callers -> CallStates]
  BY <1>1 DEF Init
<1>3. TypeOK
  BY <1>2 DEF Init, TypeOK
<1>4. Unshared
  BY <1>1 DEF Init, Unshared
<1>5. MarkedWhileConnecting
  BY <1>1 DEF Init, MarkedWhileConnecting, Connecting
<1> QED
  BY <1>3, <1>4, <1>5 DEF Inv

LEMMA InvBegin == ASSUME NEW c \in Callers, Inv, Begin(c) PROVE Inv'
<1>1. CASE Lookup(c)
  <2>1. (\E a \in Answers : Answer(c, a)) \/ Goto(c, "finding")
    BY <1>1 DEF Lookup, Answers
  <2> QED
    BY <1>1, <2>1, AsideKeeps DEF Lookup, At, Inv, TypeOK
<1>2. CASE Found(c) \/ Test(c)
  BY <1>2, CreateKeeps DEF Found, Test, At
<1>3. CASE Event(c)
  <2>1. CASE initialized /\ Answer(c, "ok") /\ UNCHANGED <<isAdding, backends, initialized>>
    BY <1>3, <2>1, AsideKeeps DEF Event, At, Answers, Inv, TypeOK
  <2>2. CASE Create(c)
    BY <1>3, <2>2, CreateKeeps DEF Event, At
  <2> QED
    BY <1>3, <2>1, <2>2 DEF Event
<1>4. CASE Load(c)
  <2>1. Rest(c) = isAdding
    BY <1>4 DEF Load, At, Rest, Connecting
  <2>2. backends \in SUBSET Backends /\ Backends \in SUBSET Backends
    BY DEF Inv, TypeOK
  <2>3. LoadNext(c, backends, Rest(c), Backends)
    BY <1>4, <2>1 DEF Load
  <2>4. \A k \in Keys : k \in Rest(c) \/ (Free(k) /\ k \in Backends) => pool'[k] = None
    BY <1>4, <2>1 DEF Load, Free, IsOpen, Inv, Unshared
  <2>5. call[c].kind = "load" /\ UNCHANGED <<pool, initialized, opened>>
    BY <1>4 DEF Load, At
  <2>6. pool' \in [Keys -> Callers \cup {None}] /\ opened' \subseteq Callers \X Keys
    BY <2>5 DEF Inv, TypeOK
  <2> QED
    BY <2>2, <2>3, <2>4, <2>5, <2>6, LoadKeeps
<1> QED
  BY <1>1, <1>2, <1>3, <1>4 DEF Begin

LEMMA InvConnected == ASSUME NEW c \in Callers, Inv, Connected(c) PROVE Inv'
<1>1. call[c].pc = "connecting" => opened \cup {<<c, call[c].key>>} \subseteq Callers \X Keys
  BY RestOfConnecting DEF Inv, TypeOK
<1>2. CASE UseConnected(c)
  <2>1. call[c].key \in Backends
    BY <1>2 DEF UseConnected, At, Inv, Unshared
  <2>2. backends' \subseteq Backends
    BY <1>2, <2>1 DEF UseConnected, Register, Inv, TypeOK
  <2>3. Answer(c, "ok") /\ "ok" \in Answers
    BY <1>2 DEF UseConnected, Answers
  <2> QED
    BY <1>1, <1>2, <2>2, <2>3, EndKeeps DEF UseConnected, Enter, At
<1>3. CASE LoadConnected(c)
  <2>1. /\ call[c].kind = "load" /\ call[c].pc = "connecting"
        /\ pool' = [pool EXCEPT ![call[c].key] = c]
        /\ opened' = opened \cup {<<c, call[c].key>>}
        /\ initialized' = initialized
    BY <1>3 DEF LoadConnected, At
  <2>2. /\ Rest(c) = isAdding \ {call[c].key}
        /\ call[c].key \in isAdding /\ call[c].key \in Keys
    BY <2>1, RestOfConnecting
  <2>3. /\ backends \cup {call[c].key} \in SUBSET Backends
        /\ call[c].todo \in SUBSET Backends
    BY <2>1 DEF Inv, TypeOK, CallStates, Unshared
  <2>4. LoadNext(c, backends \cup {call[c].key}, Rest(c), call[c].todo)
    BY <1>3, <2>2 DEF LoadConnected
  <2>5. \A k \in Keys : k \in Rest(c) \/ (Free(k) /\ k \in Backends) => pool'[k] = None
    BY <2>1, <2>2 DEF Free, IsOpen, Inv, Unshared, TypeOK
  <2>6. pool' \in [Keys -> Callers \cup {None}] /\ opened' \subseteq Callers \X Keys
    BY <1>1, <2>1, <2>2 DEF Inv, TypeOK
  <2> QED
    BY <2>1, <2>3, <2>4, <2>5, <2>6, LoadKeeps
<1>4. CASE TestConnected(c)
  <2>1. Answer(c, "ok") /\ "ok" \in Answers
    BY <1>4 DEF TestConnected, Answers
  <2> QED
    BY <1>4, <2>1, EndKeeps DEF TestConnected, At, Inv, TypeOK
<1>5. CASE EventConnected(c)
  BY <1>1, <1>5, EndKeeps DEF EventConnected, Enter, At, Inv, TypeOK
<1>6. CASE QueueCreated(c)
  <2>1. Answer(c, "ok") /\ "ok" \in Answers
    BY <1>6 DEF QueueCreated, Answers
  <2> QED
    BY <1>6, <2>1, AsideKeeps DEF QueueCreated, At
<1> QED
  BY <1>2, <1>3, <1>4, <1>5, <1>6 DEF Connected

LEMMA InvFails == ASSUME NEW c \in Callers, Inv, Fails(c) PROVE Inv'
<1>1. "failed" \in Answers
  BY DEF Answers
<1>2. CASE ConnectFails(c)
  <2>1. call[c].pc = "connecting" /\ LeavesClient(c)
    BY <1>2 DEF ConnectFails
  <2>2. opened' \subseteq Callers \X Keys
    BY <2>1, RestOfConnecting DEF LeavesClient, Inv, TypeOK
  <2> QED
    BY <1>1, <1>2, <2>2, EndKeeps DEF ConnectFails, Inv, TypeOK
<1>3. CASE CreationFails(c)
  BY <1>1, <1>3, AsideKeeps DEF CreationFails, At, Inv, TypeOK
<1> QED
  BY <1>2, <1>3 DEF Fails

LEMMA InvNext == Inv /\ [Next]_vars => Inv'
<1> SUFFICES ASSUME Inv, [Next]_vars PROVE Inv'
  OBVIOUS
<1>1. CASE UNCHANGED vars
  <2>1. \A c \in Callers, k \in Keys : Connecting(c, k)' <=> Connecting(c, k)
    BY <1>1 DEF vars, Connecting
  <2> QED
    BY <1>1, <2>1 DEF vars, Inv, TypeOK, Unshared, MarkedWhileConnecting
<1> QED
  BY <1>1, InvBegin, InvConnected, InvFails DEF Next, Step

\* Pool, marks, list and calls keep their types.
THEOREM TypeCorrect == Spec => []TypeOK
<1>1. Inv => TypeOK
  BY DEF Inv
<1> QED
  BY <1>1, InvInit, InvNext, PTL DEF Spec

\* A key is marked as being added exactly while one caller, and only one, waits
\* for its connection.
THEOREM MarkedHolds == Spec => []MarkedWhileConnecting
<1>1. Inv => MarkedWhileConnecting
  BY DEF Inv
<1> QED
  BY <1>1, InvInit, InvNext, PTL DEF Spec

-----------------------------------------------------------------------------
(* The list of backends, and the connection of the statistics worker. *)

\* Keys belong to the kind of their caller; who has an answer is done; who creates the
\* worker's queue has its connection.
Keyed == \A c \in Callers :
           /\ call[c].kind = "event" => call[c].key = StatsKey
           /\ call[c].kind = "test" => call[c].key \in TestKeys
           /\ call[c].answer # "none" => call[c].pc = "done"
           /\ call[c].pc = "creating" => call[c].kind = "event" /\ IsOpen(StatsKey)

\* How the record of a caller changes.
LEMMA RecordMoves ==
  ASSUME NEW c \in Callers, TypeOK
  PROVE  /\ \A a \in Answers : Answer(c, a) =>
              /\ call'[c].kind = call[c].kind /\ call'[c].key = call[c].key
              /\ call'[c].pc = "done" /\ call'[c].answer = a
              /\ \A d \in Callers \ {c} : call'[d] = call[d]
         /\ \A p \in Labels : Goto(c, p) =>
              /\ call'[c].kind = call[c].kind /\ call'[c].key = call[c].key
              /\ call'[c].pc = p /\ call'[c].answer = call[c].answer
              /\ \A d \in Callers \ {c} : call'[d] = call[d]
<1>1. call[c] \in CallStates
  BY DEF TypeOK
<1>2. ASSUME NEW a \in Answers, Answer(c, a)
      PROVE  call'[c] = [call[c] EXCEPT !.pc = "done", !.answer = a]
             /\ \A d \in Callers \ {c} : call'[d] = call[d]
  BY <1>2 DEF Answer, TypeOK
<1>3. ASSUME NEW p \in Labels, Goto(c, p)
      PROVE  call'[c] = [call[c] EXCEPT !.pc = p]
             /\ \A d \in Callers \ {c} : call'[d] = call[d]
  BY <1>3 DEF Goto, TypeOK
<1> QED
  BY <1>1, <1>2, <1>3 DEF CallStates

LEMMA LoadMoves ==
  ASSUME NEW c \in Callers, TypeOK, NEW registered, NEW adding, NEW todo \in SUBSET Backends,
         LoadNext(c, registered, adding, todo)
  PROVE  /\ call'[c].kind = call[c].kind
         /\ \A d \in Callers \ {c} : call'[d] = call[d]
         /\ \/ call'[c].pc = "done"
            \/ call'[c].pc = "connecting" /\ call'[c].answer = call[c].answer
         /\ backends' \in {registered \cup s : s \in SUBSET adding}
         /\ adding \subseteq isAdding'
<1>1. call[c] \in CallStates
  BY DEF TypeOK
<1>2. PICK skipped \in SUBSET (todo \cap adding) :
        /\ backends' = registered \cup skipped
        /\ \/ Answer(c, "ok") /\ isAdding' = adding
           \/ Answer(c, "already") /\ isAdding' = adding
           \/ \E k \in todo \ skipped :
                /\ isAdding' = adding \cup {k}
                /\ call' = [call EXCEPT ![c].pc = "connecting", ![c].key = k,
                                        ![c].todo = todo \ (skipped \cup {k})]
  BY DEF LoadNext
<1>3. CASE (Answer(c, "ok") \/ Answer(c, "already")) /\ isAdding' = adding
  BY <1>2, <1>3, RecordMoves DEF Answers
<1>4. ASSUME NEW k \in todo \ skipped, isAdding' = adding \cup {k},
             call' = [call EXCEPT ![c].pc = "connecting", ![c].key = k,
                                  ![c].todo = todo \ (skipped \cup {k})]
      PROVE  /\ call'[c].kind = call[c].kind
             /\ \A d \in Callers \ {c} : call'[d] = call[d]
             /\ call'[c].pc = "connecting" /\ call'[c].answer = call[c].answer
  <2>1. call'[c] = [call[c] EXCEPT !.pc = "connecting", !.key = k,
                                   !.todo = todo \ (skipped \cup {k})]
        /\ \A d \in Callers \ {c} : call'[d] = call[d]
    BY <1>4 DEF TypeOK
  <2> QED
    BY <1>1, <2>1 DEF CallStates
<1> QED
  BY <1>2, <1>3, <1>4

\* create without a wait answers, or marks the key.
LEMMA CreateMoves ==
  ASSUME NEW c \in Callers, Inv, call[c].answer = "none", Create(c)
  PROVE  /\ \A d \in Callers \ {c} : call'[d] = call[d]
         /\ call'[c].kind = call[c].kind /\ call'[c].key = call[c].key
         /\ call'[c].answer # "none" => call'[c].pc = "done"
         /\ call'[c].pc # "creating"
         /\ isAdding \subseteq isAdding' /\ initialized' = initialized
         /\ \/ backends' = backends
            \/ backends' = backends \cup {call[c].key} /\ call[c].key \in isAdding
<1>1. CASE Connect(c)
  BY <1>1, RecordMoves DEF Connect, Inv, Labels
<1>2. CASE Already(c)
  BY <1>2, RecordMoves DEF Already, Inv, Answers
<1>3. CASE NoClient(c)
  BY <1>3, RecordMoves DEF NoClient, Inv, Answers, Register
<1> QED
  BY <1>1, <1>2, <1>3 DEF Create

\* What a step of a caller does to its record.
Moves(c) ==
  /\ call[c].answer = "none"
  /\ \A d \in Callers \ {c} : call'[d] = call[d]
  /\ call'[c].kind = call[c].kind
  /\ call[c].kind # "load" => call'[c].key = call[c].key
  /\ call'[c].answer # "none" => call'[c].pc = "done"
  /\ call'[c].pc = "creating" => call[c].kind = "event" /\ IsOpen(StatsKey)'

\* What it does to the list and the marks: what is added to the list is open or about
\* to be, and what loses its mark is open, was only tested, or was refused.
Lists(c) ==
  /\ backends \subseteq backends'
  /\ \A k \in backends' \ backends : IsOpen(k)' \/ k \in isAdding'
  /\ \A k \in isAdding \ isAdding' :
       \/ IsOpen(k)'
       \/ k \in TestKeys
       \/ call'[c].answer = "failed" /\ call'[c].key = k

\* And to the pool: connections enter it, those of backends together with their backend.
Enters(c) ==
  \/ pool' = pool
  \/ /\ call[c].key \in Keys /\ pool' = [pool EXCEPT ![call[c].key] = c]
     /\ call[c].key \in Backends => call[c].key \in backends'
     /\ call[c].key = StatsKey => call'[c].kind = "event" /\ call'[c].pc = "creating"

LEMMA BeginMoves ==
  ASSUME NEW c \in Callers, Inv, Keyed, Begin(c)
  PROVE  Moves(c) /\ Lists(c) /\ Enters(c) /\ initialized' = initialized
<1>1. CASE Lookup(c)
  <2>1. call[c].answer = "none"
    BY <1>1 DEF Lookup, At, Keyed
  <2>2. (\E a \in {"ok", "no_client"} : Answer(c, a)) \/ Goto(c, "finding")
    BY <1>1 DEF Lookup
  <2>3. Moves(c)
    BY <2>1, <2>2, RecordMoves DEF Inv, Moves, Answers, Labels
  <2> QED
    BY <1>1, <2>3 DEF Lookup, Lists, Enters
<1>2. CASE Found(c) \/ Test(c) \/ (Event(c) /\ ~ initialized)
  <2>1. call[c].answer = "none" /\ Create(c) /\ pool' = pool
    BY <1>2 DEF Found, Test, Event, At, Keyed
  <2>2. Moves(c) /\ initialized' = initialized
    BY <2>1, CreateMoves DEF Moves
  <2>3. Lists(c)
    BY <2>1, CreateMoves DEF Lists
  <2> QED
    BY <2>1, <2>2, <2>3 DEF Enters
<1>3. CASE Event(c) /\ initialized
  <2>1. call[c].answer = "none" /\ Answer(c, "ok")
        /\ UNCHANGED <<pool, isAdding, backends, initialized>>
    BY <1>3 DEF Event, At, Keyed
  <2>2. Moves(c)
    BY <2>1, RecordMoves DEF Inv, Moves, Answers
  <2> QED
    BY <2>1, <2>2 DEF Lists, Enters
<1>4. CASE Load(c)
  <2>1. /\ call[c].answer = "none" /\ call[c].kind = "load"
        /\ LoadNext(c, backends, isAdding, Backends)
        /\ pool' = pool /\ initialized' = initialized
    BY <1>4 DEF Load, At, Keyed
  <2>2. /\ call'[c].kind = call[c].kind
        /\ \A d \in Callers \ {c} : call'[d] = call[d]
        /\ \/ call'[c].pc = "done"
           \/ call'[c].pc = "connecting" /\ call'[c].answer = call[c].answer
        /\ backends' \in {backends \cup s : s \in SUBSET isAdding}
        /\ isAdding \subseteq isAdding'
    BY <2>1, LoadMoves DEF Inv
  <2>3. Moves(c)
    BY <2>1, <2>2 DEF Moves
  <2>4. Lists(c)
    BY <2>2 DEF Lists
  <2> QED
    BY <2>1, <2>3, <2>4 DEF Enters
<1> QED
  BY <1>1, <1>2, <1>3, <1>4 DEF Begin, Event

\* A connection that enters the pool is open from then on.
LEMMA EnteredIsOpen ==
  ASSUME NEW c \in Callers, TypeOK, NEW k \in Keys, pool' = [pool EXCEPT ![k] = c]
  PROVE  /\ pool'[k] # None
         /\ \A j \in Keys \ {k} : pool'[j] = pool[j]
BY NoneAssumption DEF TypeOK

LEMMA ConnectedMoves ==
  ASSUME NEW c \in Callers, Inv, Keyed, Connected(c), ~ QueueCreated(c)
  PROVE  Moves(c) /\ Lists(c) /\ Enters(c) /\ initialized' = initialized
<1>1. CASE UseConnected(c)
  <2>1. /\ call[c].answer = "none" /\ call[c].kind = "use" /\ call[c].pc = "connecting"
        /\ Answer(c, "ok") /\ initialized' = initialized
        /\ pool' = [pool EXCEPT ![call[c].key] = c]
        /\ isAdding' = isAdding \ {call[c].key}
        /\ backends' = backends \cup {call[c].key}
    BY <1>1 DEF UseConnected, At, Keyed, Enter, Register
  <2>2. call[c].key \in Keys /\ call[c].key \in Backends
    BY <2>1, RestOfConnecting DEF Inv, Unshared
  <2>3. pool'[call[c].key] # None
    BY <2>1, <2>2, EnteredIsOpen DEF Inv
  <2>4. Moves(c)
    BY <2>1, RecordMoves DEF Inv, Moves, Answers
  <2>5. Lists(c)
    BY <2>1, <2>3 DEF Lists, IsOpen
  <2>6. Enters(c)
    BY <2>1, <2>2, KeysAssumption DEF Enters
  <2> QED
    BY <2>1, <2>4, <2>5, <2>6
<1>2. CASE LoadConnected(c)
  <2>1. /\ call[c].answer = "none" /\ call[c].kind = "load" /\ call[c].pc = "connecting"
        /\ initialized' = initialized
        /\ pool' = [pool EXCEPT ![call[c].key] = c]
        /\ LoadNext(c, backends \cup {call[c].key}, isAdding \ {call[c].key}, call[c].todo)
    BY <1>2 DEF LoadConnected, At, Keyed
  <2>2. /\ call[c].key \in Keys /\ call[c].key \in Backends
        /\ call[c].todo \in SUBSET Backends
    BY <2>1, RestOfConnecting DEF Inv, TypeOK, CallStates, Unshared
  <2>3. pool'[call[c].key] # None
    BY <2>1, <2>2, EnteredIsOpen DEF Inv
  <2>4. /\ call'[c].kind = call[c].kind
        /\ \A d \in Callers \ {c} : call'[d] = call[d]
        /\ \/ call'[c].pc = "done"
           \/ call'[c].pc = "connecting" /\ call'[c].answer = call[c].answer
        /\ backends' \in {(backends \cup {call[c].key}) \cup s :
                            s \in SUBSET (isAdding \ {call[c].key})}
        /\ isAdding \ {call[c].key} \subseteq isAdding'
    BY <2>1, <2>2, LoadMoves DEF Inv
  <2>5. Moves(c)
    BY <2>1, <2>4 DEF Moves
  <2>6. Lists(c)
    BY <2>3, <2>4 DEF Lists, IsOpen
  <2>7. Enters(c)
    BY <2>1, <2>2, <2>4, KeysAssumption DEF Enters
  <2> QED
    BY <2>1, <2>5, <2>6, <2>7
<1>3. CASE TestConnected(c)
  <2>1. /\ call[c].answer = "none" /\ call[c].kind = "test"
        /\ Answer(c, "ok") /\ isAdding' = isAdding \ {call[c].key}
        /\ UNCHANGED <<pool, backends, initialized>>
    BY <1>3 DEF TestConnected, At, Keyed
  <2>2. Moves(c)
    BY <2>1, RecordMoves DEF Inv, Moves, Answers
  <2>3. Lists(c)
    BY <2>1 DEF Lists, Keyed
  <2> QED
    BY <2>1, <2>2, <2>3 DEF Enters
<1>4. CASE EventConnected(c)
  <2>1. /\ call[c].answer = "none" /\ call[c].kind = "event" /\ call[c].pc = "connecting"
        /\ Goto(c, "creating") /\ UNCHANGED <<backends, initialized>>
        /\ pool' = [pool EXCEPT ![call[c].key] = c]
        /\ isAdding' = isAdding \ {call[c].key}
    BY <1>4 DEF EventConnected, At, Keyed, Enter
  <2>2. call[c].key \in Keys /\ call[c].key = StatsKey
    BY <2>1, RestOfConnecting DEF Keyed
  <2>3. pool'[call[c].key] # None
    BY <2>1, <2>2, EnteredIsOpen DEF Inv
  <2>4. call'[c].pc = "creating" /\ call'[c].kind = "event" /\ Moves(c)
    BY <2>1, <2>2, <2>3, RecordMoves DEF Inv, Moves, Labels, IsOpen
  <2>5. Lists(c)
    BY <2>1, <2>3 DEF Lists, IsOpen
  <2>6. Enters(c)
    BY <2>1, <2>2, <2>4, KeysAssumption DEF Enters
  <2> QED
    BY <2>1, <2>4, <2>5, <2>6
<1> QED
  BY <1>1, <1>2, <1>3, <1>4 DEF Connected

LEMMA FailsMove ==
  ASSUME NEW c \in Callers, Inv, Keyed, Fails(c)
  PROVE  /\ Moves(c) /\ Lists(c) /\ Enters(c) /\ initialized' = initialized
         /\ call'[c].answer = "failed" /\ call'[c].key = call[c].key
<1>1. /\ call[c].pc # "done" /\ Answer(c, "failed")
      /\ isAdding' = isAdding \/ isAdding' = isAdding \ {call[c].key}
      /\ UNCHANGED <<pool, backends, initialized>>
  BY DEF Fails, ConnectFails, CreationFails, At
<1>2. /\ call'[c].kind = call[c].kind /\ call'[c].key = call[c].key
      /\ call'[c].pc = "done" /\ call'[c].answer = "failed"
      /\ \A d \in Callers \ {c} : call'[d] = call[d]
  BY <1>1, RecordMoves DEF Inv, Answers
<1>3. Moves(c)
  BY <1>1, <1>2 DEF Moves, Keyed
<1>4. Lists(c)
  BY <1>1, <1>2 DEF Lists
<1> QED
  BY <1>1, <1>2, <1>3, <1>4 DEF Enters

LEMMA CreatedMoves ==
  ASSUME NEW c \in Callers, Inv, Keyed, QueueCreated(c)
  PROVE  /\ Moves(c) /\ Lists(c) /\ Enters(c)
         /\ initialized' = TRUE /\ IsOpen(StatsKey)
<1>1. /\ call[c].pc = "creating" /\ Answer(c, "ok") /\ initialized' = TRUE
      /\ UNCHANGED <<pool, isAdding, backends>> /\ call[c].answer = "none" /\ IsOpen(StatsKey)
  BY DEF QueueCreated, At, Keyed
<1>2. Moves(c)
  BY <1>1, RecordMoves DEF Inv, Answers, Moves
<1> QED
  BY <1>1, <1>2 DEF Lists, Enters

ListInv == Keyed /\ ListMatchesPool /\ StatsReady

\* Nothing leaves the pool, and no failure is forgotten.
LEMMA StaysOpen ==
  ASSUME NEW c \in Callers, Inv, Keyed, Moves(c), Enters(c)
  PROVE  /\ \A k \in Keys : IsOpen(k) => IsOpen(k)'
         /\ \A k \in Keys : Failed(k) => Failed(k)'
         /\ \A k \in Keys : IsOpen(k)' /\ ~ IsOpen(k) =>
              k = call[c].key /\ pool' = [pool EXCEPT ![call[c].key] = c]
<1>1. \A k \in Keys : IsOpen(k) => IsOpen(k)'
  BY NoneAssumption DEF Enters, IsOpen, Inv, TypeOK
<1>2. \A k \in Keys : Failed(k) => Failed(k)'
  BY DEF Moves, Failed
<1>3. \A k \in Keys : IsOpen(k)' /\ ~ IsOpen(k) =>
        k = call[c].key /\ pool' = [pool EXCEPT ![call[c].key] = c]
  BY DEF Enters, IsOpen, Inv, TypeOK
<1> QED
  BY <1>1, <1>2, <1>3

LEMMA ListInvStep ==
  ASSUME NEW c \in Callers, Inv, Inv', ListInv, Moves(c), Lists(c), Enters(c),
         \/ initialized' = initialized
         \/ initialized' = TRUE /\ IsOpen(StatsKey),
         At(c, "event", "creating") => initialized' = TRUE \/ call'[c].answer = "failed"
  PROVE  ListInv'
<1>1. Keyed /\ StatsKey \in Keys /\ Backends \subseteq Keys
  BY DEF ListInv, Keys
<1>2. /\ \A k \in Keys : IsOpen(k) => IsOpen(k)'
      /\ \A k \in Keys : Failed(k) => Failed(k)'
      /\ \A k \in Keys : IsOpen(k)' /\ ~ IsOpen(k) =>
           k = call[c].key /\ pool' = [pool EXCEPT ![call[c].key] = c]
  BY <1>1, StaysOpen
<1>3. Keyed'
  BY <1>1, <1>2 DEF Keyed, Moves
<1>4. OpenIsRegistered'
  <2> SUFFICES ASSUME NEW b \in Backends, IsOpen(b)' PROVE b \in backends'
    BY DEF OpenIsRegistered
  <2>1. CASE IsOpen(b)
    BY <2>1 DEF ListInv, ListMatchesPool, OpenIsRegistered, Lists
  <2>2. CASE ~ IsOpen(b)
    <3>1. b = call[c].key /\ pool' # pool
      BY <1>1, <1>2, <2>2 DEF IsOpen
    <3> QED
      BY <3>1 DEF Enters
  <2> QED
    BY <2>1, <2>2
<1>5. RegisteredIsComing'
  <2> SUFFICES ASSUME NEW b \in backends' PROVE IsOpen(b)' \/ b \in isAdding' \/ Failed(b)'
    BY DEF RegisteredIsComing
  <2>1. b \in Keys /\ b \notin TestKeys
    BY <1>1, KeysAssumption DEF Inv, TypeOK
  <2>2. CASE b \notin backends
    BY <2>2 DEF Lists
  <2>3. CASE b \in backends
    <3>1. IsOpen(b) \/ b \in isAdding \/ Failed(b)
      BY <2>3 DEF ListInv, ListMatchesPool, RegisteredIsComing
    <3>2. CASE b \in isAdding /\ b \notin isAdding'
      <4>1. IsOpen(b)' \/ (call'[c].answer = "failed" /\ call'[c].key = b)
        BY <2>1, <3>2 DEF Lists
      <4> QED
        BY <4>1 DEF Failed
    <3> QED
      BY <1>2, <2>1, <3>1, <3>2
  <2> QED
    BY <2>2, <2>3
<1>6. StatsReady'
  <2>1. initialized' => IsOpen(StatsKey)'
    BY <1>1, <1>2 DEF ListInv, StatsReady
  <2>2. ASSUME IsOpen(StatsKey)', ~ initialized'
        PROVE  Failed(StatsKey)' \/ \E d \in Callers : At(d, "event", "creating")'
    <3>1. CASE ~ IsOpen(StatsKey)
      <4>1. call[c].key = StatsKey /\ pool' # pool
        BY <1>1, <1>2, <2>2, <3>1 DEF IsOpen
      <4> QED
        BY <4>1 DEF Enters, At
    <3>2. CASE IsOpen(StatsKey)
      <4>1. ~ initialized
        BY <2>2 DEF Inv, TypeOK
      <4>2. CASE Failed(StatsKey)
        BY <1>1, <1>2, <4>2
      <4>3. ASSUME NEW d \in Callers, At(d, "event", "creating")
            PROVE  Failed(StatsKey)' \/ At(d, "event", "creating")'
        <5>1. CASE d = c
          <6>1. call'[c].answer = "failed" /\ call'[c].key = StatsKey
            BY <1>1, <2>2, <4>3, <5>1 DEF Moves, Keyed, At
          <6> QED
            BY <6>1 DEF Failed
        <5>2. CASE d # c
          BY <4>3, <5>2 DEF Moves, At
        <5> QED
          BY <5>1, <5>2
      <4> QED
        BY <3>2, <4>1, <4>2, <4>3 DEF ListInv, StatsReady
    <3> QED
      BY <3>1, <3>2
  <2> QED
    BY <2>1, <2>2 DEF StatsReady
<1> QED
  BY <1>3, <1>4, <1>5, <1>6 DEF ListInv, ListMatchesPool

LEMMA ListInvNext == Inv /\ Inv' /\ ListInv /\ [Next]_vars => ListInv'
<1> SUFFICES ASSUME Inv, Inv', ListInv, [Next]_vars PROVE ListInv'
  OBVIOUS
<1>1. Keyed
  BY DEF ListInv
<1>2. CASE UNCHANGED vars
  BY <1>2 DEF vars, ListInv, Keyed, ListMatchesPool, OpenIsRegistered, RegisteredIsComing,
              StatsReady, IsOpen, Failed, At
<1>3. ASSUME NEW c \in Callers, Begin(c) PROVE ListInv'
  <2>1. ~ At(c, "event", "creating")
    BY <1>3 DEF Begin, Lookup, Found, Test, Event, Load, At
  <2> QED
    BY <1>1, <1>3, <2>1, BeginMoves, ListInvStep
<1>4. ASSUME NEW c \in Callers, Connected(c) PROVE ListInv'
  <2>1. CASE QueueCreated(c)
    BY <1>1, <2>1, CreatedMoves, ListInvStep
  <2>2. CASE ~ QueueCreated(c)
    <3>1. ~ At(c, "event", "creating")
      BY <1>4, <2>2 DEF Connected, UseConnected, LoadConnected, TestConnected, EventConnected, At
    <3> QED
      BY <1>1, <1>4, <2>2, <3>1, ConnectedMoves, ListInvStep
  <2> QED
    BY <2>1, <2>2
<1>5. ASSUME NEW c \in Callers, Fails(c) PROVE ListInv'
  BY <1>1, <1>5, FailsMove, ListInvStep
<1> QED
  BY <1>2, <1>3, <1>4, <1>5 DEF Next, Step

LEMMA ListInvInit == Init => ListInv
<1> SUFFICES ASSUME Init PROVE ListInv
  OBVIOUS
<1>1. ASSUME NEW c \in Callers
      PROVE  /\ call[c].kind = "event" => call[c].key = StatsKey
             /\ call[c].kind = "test" => call[c].key \in TestKeys
             /\ call[c].answer = "none" /\ call[c].pc = "start"
  <2>1. PICK kind \in Kinds : call[c] \in Calls(kind)
    BY DEF Init
  <2>2. /\ kind = "event" => KeysOf(kind) = {StatsKey}
        /\ kind = "test" => KeysOf(kind) = TestKeys
    BY DEF KeysOf
  <2> QED
    BY <2>1, <2>2 DEF Calls
<1>2. Keyed
  BY <1>1 DEF Keyed
<1>3. \A k \in Keys : ~ IsOpen(k)
  BY DEF Init, IsOpen
<1>4. ListMatchesPool
  BY <1>3 DEF Init, ListMatchesPool, OpenIsRegistered, RegisteredIsComing, Keys
<1>5. StatsReady
  BY <1>3 DEF Init, StatsReady, Keys
<1> QED
  BY <1>2, <1>4, <1>5 DEF ListInv

\* The list that getBackendClient reads and the pool that create reads never disagree:
\* what is open is listed, and what is listed is open, coming, or was refused.
THEOREM ListMatchesPoolHolds == Spec => []ListMatchesPool
<1>1. ListInv => ListMatchesPool
  BY DEF ListInv
<1> QED
  BY <1>1, InvInit, InvNext, ListInvInit, ListInvNext, PTL DEF Spec

\* A worker that is initialised has its connection; one that has the connection is
\* initialised, about to be, or failed.
THEOREM StatsReadyHolds == Spec => []StatsReady
<1>1. ListInv => StatsReady
  BY DEF ListInv
<1> QED
  BY <1>1, InvInit, InvNext, ListInvInit, ListInvNext, PTL DEF Spec

-----------------------------------------------------------------------------
(* Connections that nobody has. *)

\* NoneLeaked, caller by caller and key by key.
ByKey ==
  \A d \in Callers, k \in Keys :
    /\ pool[k] = d => <<d, k>> \in opened
    /\ <<d, k>> \in opened =>
         pool[k] = d \/ (call[d].answer = "failed" /\ call[d].key = k)

LEMMA LeakedByKey == TypeOK => (NoneLeaked <=> ByKey)
<1> SUFFICES ASSUME TypeOK PROVE NoneLeaked <=> ByKey
  OBVIOUS
<1>1. \A d \in Callers, k \in Keys : <<d, k>> \in Pooled <=> pool[k] = d
  BY NoneAssumption DEF Pooled, IsOpen
<1>2. Pooled \subseteq Callers \X Keys /\ opened \subseteq Callers \X Keys
  BY DEF Pooled, IsOpen, TypeOK
<1>3. Pooled \subseteq opened <=>
        \A d \in Callers, k \in Keys : <<d, k>> \in Pooled => <<d, k>> \in opened
  BY <1>2
<1>4. (\A p \in opened \ Pooled : call[p[1]].answer = "failed" /\ call[p[1]].key = p[2])
      <=> \A d \in Callers, k \in Keys :
            <<d, k>> \in opened /\ <<d, k>> \notin Pooled =>
              call[d].answer = "failed" /\ call[d].key = k
  BY <1>2
<1> QED
  BY <1>1, <1>3, <1>4 DEF NoneLeaked, ByKey

\* A connection enters the pool at a key that had none, so none is overwritten; one
\* that stays outside is of a caller that has just failed, and has no other answer.
LEMMA LeakedStep ==
  ASSUME NEW c \in Callers, Inv, Inv', NoneLeaked, Moves(c),
         \/ UNCHANGED <<pool, opened>>
         \/ /\ call[c].pc = "connecting"
            /\ pool' = [pool EXCEPT ![call[c].key] = c]
            /\ opened' = opened \cup {<<c, call[c].key>>}
         \/ /\ pool' = pool /\ opened' = opened \cup {<<c, call[c].key>>}
            /\ call'[c].answer = "failed" /\ call'[c].key = call[c].key
  PROVE  NoneLeaked'
<1>1. \A d \in Callers, k \in Keys :
        /\ pool[k] = d => <<d, k>> \in opened
        /\ <<d, k>> \in opened =>
             pool[k] = d \/ (call[d].answer = "failed" /\ call[d].key = k)
  BY LeakedByKey DEF Inv, ByKey
<1>2. \A d \in Callers : call[d].answer = "failed" => call'[d] = call[d]
  BY DEF Moves
<1>3. \A d \in Callers, k \in Keys :
        /\ pool'[k] = d => <<d, k>> \in opened'
        /\ <<d, k>> \in opened' =>
             pool'[k] = d \/ (call'[d].answer = "failed" /\ call'[d].key = k)
  <2> SUFFICES ASSUME NEW d \in Callers, NEW k \in Keys
               PROVE  /\ pool'[k] = d => <<d, k>> \in opened'
                      /\ <<d, k>> \in opened' =>
                           pool'[k] = d \/ (call'[d].answer = "failed" /\ call'[d].key = k)
    OBVIOUS
  <2>1. CASE UNCHANGED <<pool, opened>>
    BY <1>1, <1>2, <2>1
  <2>2. CASE /\ call[c].pc = "connecting"
             /\ pool' = [pool EXCEPT ![call[c].key] = c]
             /\ opened' = opened \cup {<<c, call[c].key>>}
    <3>1. call[c].key \in Keys /\ pool[call[c].key] = None
      BY <2>2, RestOfConnecting DEF Inv, Unshared
    <3>2. pool'[call[c].key] = c /\ (k # call[c].key => pool'[k] = pool[k])
      BY <2>2, <3>1 DEF Inv, TypeOK
    <3>3. <<d, k>> \in opened' <=> <<d, k>> \in opened \/ (d = c /\ k = call[c].key)
      BY <2>2
    <3> QED
      BY <1>1, <1>2, <3>1, <3>2, <3>3, NoneAssumption
  <2>3. CASE /\ pool' = pool /\ opened' = opened \cup {<<c, call[c].key>>}
             /\ call'[c].answer = "failed" /\ call'[c].key = call[c].key
    <3>1. <<d, k>> \in opened' <=> <<d, k>> \in opened \/ (d = c /\ k = call[c].key)
      BY <2>3
    <3> QED
      BY <1>1, <1>2, <2>3, <3>1
  <2> QED
    BY <2>1, <2>2, <2>3
<1>4. ByKey'
  BY <1>3 DEF ByKey
<1>5. TypeOK'
  BY DEF Inv
<1> QED
  BY <1>4, <1>5, LeakedByKey, PTL

LEMMA LeakedNext == Inv /\ Inv' /\ Keyed /\ NoneLeaked /\ [Next]_vars => NoneLeaked'
<1> SUFFICES ASSUME Inv, Inv', Keyed, NoneLeaked, [Next]_vars PROVE NoneLeaked'
  OBVIOUS
<1>1. ASSUME NEW c \in Callers, Begin(c) PROVE NoneLeaked'
  <2>1. UNCHANGED <<pool, opened>>
    BY <1>1 DEF Begin, Lookup, Found, Test, Event, Load
  <2> QED
    BY <1>1, <2>1, BeginMoves, LeakedStep
<1>2. ASSUME NEW c \in Callers, Connected(c) PROVE NoneLeaked'
  <2>1. \/ UNCHANGED <<pool, opened>>
        \/ /\ call[c].pc = "connecting"
           /\ pool' = [pool EXCEPT ![call[c].key] = c]
           /\ opened' = opened \cup {<<c, call[c].key>>}
    BY <1>2 DEF Connected, UseConnected, LoadConnected, TestConnected,
         EventConnected, QueueCreated, Enter, At
  <2>2. Moves(c)
    BY <1>2, ConnectedMoves, CreatedMoves
  <2> QED
    BY <2>1, <2>2, LeakedStep
<1>3. ASSUME NEW c \in Callers, Fails(c) PROVE NoneLeaked'
  <2>1. pool' = pool /\ (opened' = opened \/ opened' = opened \cup {<<c, call[c].key>>})
    BY <1>3 DEF Fails, ConnectFails, CreationFails, LeavesClient
  <2> QED
    BY <1>3, <2>1, FailsMove, LeakedStep
<1>4. CASE UNCHANGED vars
  BY <1>4 DEF vars, NoneLeaked, Pooled, IsOpen
<1> QED
  BY <1>1, <1>2, <1>3, <1>4 DEF Next, Step

\* What the pool holds is there, and whatever is open outside it is the client of a
\* caller whose connect failed: no race opens two connections for one key, and none is
\* forgotten but those.
THEOREM NoneLeakedHolds == Spec => []NoneLeaked
<1>1. Init => NoneLeaked
  BY DEF Init, NoneLeaked, Pooled, IsOpen
<1>2. ListInv => Keyed
  BY DEF ListInv
<1> QED
  BY <1>1, <1>2, InvInit, InvNext, ListInvInit, ListInvNext, LeakedNext, PTL DEF Spec
=============================================================================
