---------------------- MODULE MongoQueueClient_proofs ----------------------
(***************************************************************************)
(* The MongoDB driver implements the abstract queue, for every set of      *)
(* pushes, consumers, purges and deletions, with and without crashes.      *)
(***************************************************************************)
EXTENDS MongoQueueClient, TLAPS

\* Metadata exists only for pushes that are over; metadata that a pull removed is
\* not stored any more and no other pull removed it; a pull holds some only
\* between its two steps.
PickInv ==
  /\ \A m \in meta : push[m] = "done"
  /\ \A c \in Consumers :
       /\ pull[c] # "picked" => pick[c] = None
       /\ pick[c] # None => /\ push[pick[c]] = "done" /\ pick[c] \notin meta
                            /\ \A d \in Consumers \ {c} : pick[d] # pick[c]

Inv == TypeOK /\ PickInv

LEMMA InvInit == Init => Inv
<1> SUFFICES ASSUME Init PROVE Inv
  OBVIOUS
<1>1. TypeOK
  BY DEF Init, TypeOK
<1>2. PickInv
  BY DEF Init, PickInv
<1> QED
  BY <1>1, <1>2 DEF Inv

LEMMA InvNext == Inv /\ [Next]_vars => Inv'
<1> SUFFICES ASSUME Inv, [Next]_vars PROVE Inv'
  OBVIOUS
<1> USE NoneAssumption DEF Inv, TypeOK, PickInv, pulls
<1>1. CASE UNCHANGED vars
  BY <1>1 DEF vars
<1>2. ASSUME NEW m \in Messages, Push(m) PROVE Inv'
  <2>1. CASE PushStep(m, "idle", "inserted", InsertData)
    BY <2>1 DEF PushStep, InsertData
  <2>2. CASE PushStep(m, "inserted", "done", InsertMeta)
    BY <2>2 DEF PushStep, InsertMeta
  <2> QED
    BY <1>2, <2>1, <2>2 DEF Push
<1>3. ASSUME NEW c \in Consumers, Pull(c) PROVE Inv'
  <2>1. CASE TakeMeta(c)
    BY <2>1 DEF TakeMeta
  <2>2. CASE FindNothing(c)
    BY <2>2 DEF FindNothing
  <2>3. CASE TakeData(c)
    BY <2>3 DEF TakeData
  <2>4. CASE Return(c)
    BY <2>4 DEF Return
  <2> QED
    BY <1>3, <2>1, <2>2, <2>3, <2>4 DEF Pull
<1>4. ASSUME NEW w \in Purges \cup Deletes, Wipe(w) PROVE Inv'
  BY <1>4, ZenonT(60) DEF Wipe, PurgeData, DropData, WipeMeta
<1>5. CASE Crash
  <2>1. ASSUME NEW m \in Messages, CrashPush(m) PROVE Inv'
    BY <2>1 DEF CrashPush
  <2>2. ASSUME NEW w \in Purges \cup Deletes, CrashWipe(w) PROVE Inv'
    BY <2>2 DEF CrashWipe
  <2>3. ASSUME NEW c \in Consumers, CrashPull(c) PROVE Inv'
    BY <2>3 DEF CrashPull
  <2> QED
    BY <1>5, <2>1, <2>2, <2>3 DEF Crash
<1> QED
  BY <1>1, <1>2, <1>3, <1>4, <1>5 DEF Next

\* The variables of both collections and of the calls keep their types, whatever
\* the interleaving and wherever a process dies.
THEOREM TypeCorrect == Spec => []TypeOK
<1>1. Inv => TypeOK
  BY DEF Inv
<1> QED
  BY <1>1, InvInit, InvNext, PTL DEF Spec

-----------------------------------------------------------------------------
\* Each step of the driver is a step of the abstract queue, or none.
LEMMA StepSimulation == Inv /\ [Next]_vars => [MQ!Next]_(MQ!vars)
<1> SUFFICES ASSUME Inv, [Next]_vars PROVE MQ!Next \/ UNCHANGED MQ!vars
  OBVIOUS
<1> DEFINE Fresh  == {m \in Messages : push[m] = "idle" \/ (push[m] = "inserted" /\ m \in data)}
           Queued == meta \cap data
           Held   == [c \in Consumers |-> got[c] \cup ({pick[c]} \cap data)]
<1>u. ASSUME Fresh' = Fresh, Queued' = Queued, Held' = Held, delivered' = delivered
      PROVE  UNCHANGED MQ!vars
  BY <1>u DEF MQ!vars
<1>l. ASSUME Lossy, Fresh' \subseteq Fresh, Queued' \subseteq Queued,
             \A c \in Consumers : Held'[c] \in SUBSET Messages /\ Held'[c] \subseteq Held[c],
             delivered' = delivered
      PROVE  MQ!Next
  BY <1>l DEF MQ!Next, MQ!Lose
<1> USE NoneAssumption DEF Inv, TypeOK, PickInv, pulls
<1>1. CASE UNCHANGED vars
  BY <1>1, <1>u DEF vars
<1>2. ASSUME NEW m \in Messages, Push(m) PROVE MQ!Next \/ UNCHANGED MQ!vars
  <2>1. CASE PushStep(m, "idle", "inserted", InsertData)
    <3>1. Fresh' = Fresh /\ Queued' = Queued /\ delivered' = delivered
      BY <2>1 DEF PushStep, InsertData
    <3>2. Held' = Held
      BY <2>1 DEF PushStep, InsertData
    <3> QED
      BY <3>1, <3>2, <1>u
  <2>2. CASE PushStep(m, "inserted", "done", InsertMeta) /\ m \in data
    <3>1. m \in Fresh /\ Fresh' = Fresh \ {m} /\ Queued' = Queued \cup {m}
      BY <2>2 DEF PushStep, InsertMeta
    <3>2. Held' = Held /\ delivered' = delivered
      BY <2>2 DEF PushStep, InsertMeta
    <3> QED
      BY <3>1, <3>2 DEF MQ!Next, MQ!Put
  <2>3. CASE PushStep(m, "inserted", "done", InsertMeta) /\ m \notin data
    <3>1. Fresh' = Fresh /\ Queued' = Queued /\ Held' = Held /\ delivered' = delivered
      BY <2>3 DEF PushStep, InsertMeta
    <3> QED
      BY <3>1, <1>u
  <2> QED
    BY <1>2, <2>1, <2>2, <2>3 DEF Push
<1>3. ASSUME NEW c \in Consumers, Pull(c) PROVE MQ!Next \/ UNCHANGED MQ!vars
  <2>1. CASE TakeMeta(c)
    <3>1. PICK m \in meta : meta' = meta \ {m} /\ pick' = [pick EXCEPT ![c] = m]
      BY <2>1 DEF TakeMeta
    <3>2. pick[c] = None /\ Fresh' = Fresh /\ delivered' = delivered /\ data' = data /\ got' = got
      BY <2>1 DEF TakeMeta
    <3>3. CASE m \in data
      <4>1. m \in Queued /\ Queued' = Queued \ {m}
        BY <3>1, <3>2, <3>3
      <4>2. Held' = [Held EXCEPT ![c] = Held[c] \cup {m}]
        <5>1. ASSUME NEW d \in Consumers
              PROVE  Held'[d] = IF d = c THEN Held[c] \cup {m} ELSE Held[d]
          BY <3>1, <3>2, <3>3
        <5> HIDE DEF Inv
        <5> QED
          BY <5>1, Zenon
      <4> QED
        BY <3>2, <4>1, <4>2 DEF MQ!Next, MQ!Take
    <3>4. CASE m \notin data
      <4>1. Queued' = Queued /\ Held' = Held
        BY <3>1, <3>2, <3>4
      <4> QED
        BY <3>2, <4>1, <1>u
    <3> QED
      BY <3>3, <3>4
  <2>2. CASE FindNothing(c)
    <3>1. Fresh' = Fresh /\ Queued' = Queued /\ Held' = Held /\ delivered' = delivered
      BY <2>2 DEF FindNothing
    <3> QED
      BY <3>1, <1>u
  <2>3. CASE TakeData(c)
    <3>1. Fresh' = Fresh /\ Queued' = Queued /\ delivered' = delivered
      BY <2>3 DEF TakeData
    <3>2. ASSUME NEW d \in Consumers PROVE Held'[d] = Held[d]
      BY <2>3 DEF TakeData
    <3> QED
      BY <3>1, <3>2, <1>u
  <2>4. CASE Return(c)
    <3>1. Fresh' = Fresh /\ Queued' = Queued /\ Held[c] = got[c]
      BY <2>4 DEF Return
    <3>2. delivered' = [delivered EXCEPT ![c] = delivered[c] \cup Held[c]]
      BY <2>4, <3>1 DEF Return
    <3>3. Held' = [Held EXCEPT ![c] = {}]
      <4>1. ASSUME NEW d \in Consumers
            PROVE  Held'[d] = IF d = c THEN {} ELSE Held[d]
        BY <2>4 DEF Return
      <4> QED
        BY <4>1, ZenonT(60)
    <3> QED
      BY <3>1, <3>2, <3>3 DEF MQ!Next, MQ!Return
  <2> QED
    BY <1>3, <2>1, <2>2, <2>3, <2>4 DEF Pull
<1>4. ASSUME NEW w \in Purges \cup Deletes, Wipe(w) PROVE MQ!Next \/ UNCHANGED MQ!vars
  <2>1. Lossy
    BY <1>4 DEF Lossy
  <2>2. Fresh' \subseteq Fresh /\ Queued' \subseteq Queued /\ delivered' = delivered
    BY <1>4 DEF Wipe, PurgeData, DropData, WipeMeta
  <2>3. \A c \in Consumers : Held'[c] \in SUBSET Messages /\ Held'[c] \subseteq Held[c]
    BY <1>4 DEF Wipe, PurgeData, DropData, WipeMeta
  <2> QED
    BY <2>1, <2>2, <2>3, <1>l
<1>5. CASE Crash
  <2>1. Lossy
    BY <1>5 DEF Crash, Lossy
  <2>2. ASSUME NEW m \in Messages, CrashPush(m) PROVE MQ!Next
    <3>1. Fresh' \subseteq Fresh /\ Queued' \subseteq Queued /\ delivered' = delivered
      BY <2>2 DEF CrashPush
    <3>2. \A c \in Consumers : Held'[c] \in SUBSET Messages /\ Held'[c] \subseteq Held[c]
      BY <2>2 DEF CrashPush
    <3> QED
      BY <2>1, <3>1, <3>2, <1>l
  <2>3. ASSUME NEW w \in Purges \cup Deletes, CrashWipe(w) PROVE UNCHANGED MQ!vars
    BY <2>3, <1>u DEF CrashWipe
  <2>4. ASSUME NEW c \in Consumers, CrashPull(c) PROVE MQ!Next
    <3>1. Fresh' \subseteq Fresh /\ Queued' \subseteq Queued /\ delivered' = delivered
      BY <2>4 DEF CrashPull
    <3>2. ASSUME NEW d \in Consumers
          PROVE  Held'[d] \in SUBSET Messages /\ Held'[d] \subseteq Held[d]
      BY <2>4 DEF CrashPull
    <3> QED
      BY <2>1, <3>1, <3>2, <1>l
  <2> QED
    BY <1>5, <2>2, <2>3, <2>4 DEF Crash
<1> QED
  BY <1>1, <1>2, <1>3, <1>4, <1>5 DEF Next

\* The two collections and the calls on them implement the abstract queue: every
\* behaviour of the driver is one that the queue allows.
THEOREM MongoImplementsQueue == Spec => ImplementsQueue
<1>1. Init => MQ!Init
  BY NoneAssumption DEF Init, MQ!Init
<1> QED
  BY <1>1, InvInit, InvNext, StepSimulation, PTL DEF Spec, MQ!Spec, ImplementsQueue

-----------------------------------------------------------------------------
(* Without purges, deletions and crashes. *)

Undisturbed == Purges = {} /\ Deletes = {} /\ ~ Crashes

\* Metadata, a pull that removed some, and a push that goes on to insert it, all
\* have the data of their message; and no other data is there.
BackedInv ==
  /\ meta \subseteq data
  /\ \A m \in Messages : push[m] = "inserted" => m \in data
  /\ \A c \in Consumers : pull[c] = "picked" => pick[c] \in data
  /\ NoOrphans

LEMMA BackedNext == Undisturbed /\ Inv /\ BackedInv /\ [Next]_vars => BackedInv'
<1> SUFFICES ASSUME Undisturbed, Inv, BackedInv, [Next]_vars PROVE BackedInv'
  OBVIOUS
<1> USE NoneAssumption DEF Inv, TypeOK, PickInv, pulls, BackedInv, NoOrphans
<1>1. CASE UNCHANGED vars
  BY <1>1 DEF vars
<1>2. ASSUME NEW m \in Messages, Push(m) PROVE BackedInv'
  <2>1. CASE PushStep(m, "idle", "inserted", InsertData)
    BY <2>1 DEF PushStep, InsertData
  <2>2. CASE PushStep(m, "inserted", "done", InsertMeta)
    BY <2>2 DEF PushStep, InsertMeta
  <2> QED
    BY <1>2, <2>1, <2>2 DEF Push
<1>3. ASSUME NEW c \in Consumers, Pull(c) PROVE BackedInv'
  <2>1. CASE TakeMeta(c)
    BY <2>1 DEF TakeMeta
  <2>2. CASE FindNothing(c)
    BY <2>2 DEF FindNothing
  <2>3. CASE TakeData(c)
    <3>1. \A d \in Consumers \ {c} : pull'[d] = pull[d] /\ pick'[d] = pick[d]
      BY <2>3 DEF TakeData
    <3>2. /\ pull[c] = "picked" /\ pull'[c] # "picked" /\ pick'[c] = None
          /\ data' = data \ {pick[c]} /\ UNCHANGED <<meta, push>>
      BY <2>3 DEF TakeData
    <3>3. \A d \in Consumers \ {c} : pull[d] = "picked" => pick[d] # pick[c]
      BY <3>2
    <3>4. (\A d \in Consumers : pull[d] = "picked" => pick[d] \in data)'
      BY <3>1, <3>2, <3>3
    <3>5. NoOrphans'
      BY <3>1, <3>2
    <3>6. push[pick[c]] = "done" /\ pick[c] \notin meta
      BY <3>2
    <3> QED
      BY <3>2, <3>4, <3>5, <3>6
  <2>4. CASE Return(c)
    BY <2>4 DEF Return
  <2> QED
    BY <1>3, <2>1, <2>2, <2>3, <2>4 DEF Pull
<1> QED
  BY <1>1, <1>2, <1>3 DEF Next, Crash, Undisturbed

LEMMA BackedInit == Init => BackedInv
BY DEF Init, BackedInv, NoOrphans

LEMMA ShortPullStep ==
  Undisturbed /\ Inv /\ BackedInv /\ [Next]_vars =>
    [\A c \in Consumers :
       /\ pull[c] # "returning" /\ pull'[c] = "returning"
       /\ Cardinality(got'[c]) < Count
       => meta = {}]_pull
<1> SUFFICES ASSUME Undisturbed, Inv, BackedInv, [Next]_vars,
                    NEW c \in Consumers, pull[c] # "returning", pull'[c] = "returning",
                    Cardinality(got'[c]) < Count
             PROVE  meta = {}
  OBVIOUS
<1>1. PICK d \in Consumers : Pull(d)
  BY DEF Next, Crash, Undisturbed, vars, Push, PushStep, pulls
<1>2. CASE FindNothing(d)
  BY <1>2 DEF FindNothing
<1>3. CASE TakeData(d)
  <2>1. d = c
    BY <1>3 DEF TakeData, Inv, TypeOK
  <2>2. pick[c] \in data
    BY <1>3, <2>1 DEF TakeData, BackedInv
  <2>3. pull'[c] = "loop"
    BY <1>3, <2>1, <2>2 DEF TakeData, Inv, TypeOK
  <2> QED
    BY <2>3
<1>4. CASE TakeMeta(d) \/ Return(d)
  BY <1>4 DEF TakeMeta, Return, Inv, TypeOK
<1> QED
  BY <1>1, <1>2, <1>3, <1>4 DEF Pull

\* Without purges, deletions and crashes no data is left behind that no pull can see.
THEOREM NoOrphansHolds ==
  ASSUME Purges = {}, Deletes = {}, ~ Crashes
  PROVE  Spec => []NoOrphans
<1>1. Undisturbed
  BY DEF Undisturbed
<1>2. Inv /\ BackedInv /\ [Next]_vars => (Inv /\ BackedInv)'
  BY <1>1, InvNext, BackedNext
<1>3. BackedInv => NoOrphans
  BY DEF BackedInv
<1> QED
  BY <1>2, <1>3, InvInit, BackedInit, PTL DEF Spec

\* Nor does a pull come back short while the queue has messages.
THEOREM ShortPullMeansEmptyHolds ==
  ASSUME Purges = {}, Deletes = {}, ~ Crashes
  PROVE  Spec => ShortPullMeansEmpty
<1>1. Undisturbed
  BY DEF Undisturbed
<1>2. Inv /\ BackedInv /\ [Next]_vars => (Inv /\ BackedInv)'
  BY <1>1, InvNext, BackedNext
<1>3. Inv /\ BackedInv /\ [Next]_vars =>
        [\A c \in Consumers :
           /\ pull[c] # "returning" /\ pull'[c] = "returning"
           /\ Cardinality(got'[c]) < Count
           => meta = {}]_pull
  BY <1>1, ShortPullStep
<1> QED
  BY <1>2, <1>3, InvInit, BackedInit, PTL DEF Spec, ShortPullMeansEmpty
=============================================================================
