----------------------------- MODULE Users_proofs -----------------------------
(***************************************************************************)
(* Proofs about what belongs to a user, for any number of requests.  There *)
(* is one default backend at most, and queues refer to backends that       *)
(* exist, unless calls overlap that the code does not keep apart.  A right *)
(* that was taken from a token admits nothing any more.  Passwords and     *)
(* identities stay sound, and a quota adds up.                             *)
(***************************************************************************)
EXTENDS QueueBackends, AccessTokens, Accounts, TLAPS

-----------------------------------------------------------------------------
(* Backends. *)

Under(r) == r.pc \notin {"idle", "done"}
Choosing(r) == Under(r) /\ r.op \in Choosers

\* The histories in which nothing overlapped that may do harm.
ChoosersApart == \A o, p \in Choosers : {o, p} \notin met
DeletesApart == {"delete", "createQueue"} \notin met

\* Where a call may be, and that it has the _id that it needs.
Placed(r) ==
  Under(r) =>
    \/ r.op = "create" /\ r.pc \in {"find_default", "test", "save"}
    \/ /\ r.op = "setDefault" /\ r.pc \in {"find_default", "clear", "set"}
       /\ r.id \in BackendIds /\ (r.pc = "clear" => r.other \in BackendIds)
    \/ r.op = "delete" /\ r.pc \in {"count", "remove"} /\ r.id \in BackendIds
    \/ r.op = "createQueue" /\ r.pc \in {"upsert", "client"} /\ r.id \in BackendIds

\* What a call has read about the default still holds when it writes.
Informed(r) ==
  /\ (r.op = "create" /\ r.pc \in {"test", "save"} /\ ~ r.was) => Defaults = {}
  /\ (r.op = "setDefault" /\ r.pc = "clear") => Defaults \subseteq {r.other}
  /\ (r.op = "setDefault" /\ r.pc = "set") => Defaults \subseteq {r.id}

\* So does what it has read about the backend of a queue.
Founded(r) ==
  /\ (r.op = "createQueue" /\ r.pc = "upsert") => Stored(r.id)
  /\ (r.op = "delete" /\ r.pc = "remove") => \A n \in QueueNames : queueOf[n] # r.id

AllPlaced == \A c \in BackendCallers : Placed(bcall[c])

DefaultsKept ==
  ChoosersApart =>
    /\ \A c, d \in BackendCallers : Choosing(bcall[c]) /\ Choosing(bcall[d]) => c = d
    /\ \A c \in BackendCallers : Informed(bcall[c])
    /\ \A a, b \in Defaults : a = b

QueuesKept ==
  DeletesApart =>
    /\ \A c, d \in BackendCallers :
         ~ (/\ Under(bcall[c]) /\ bcall[c].op = "delete"
            /\ Under(bcall[d]) /\ bcall[d].op = "createQueue")
    /\ \A c \in BackendCallers : Founded(bcall[c])
    /\ \A n \in QueueNames : queueOf[n] # NoBackend => Stored(queueOf[n])

BackendsInv == BackendsTypeOK /\ AllPlaced /\ DefaultsKept /\ QueuesKept

-----------------------------------------------------------------------------
\* A call begins: if it stays under way, met has it with every other.
LEMMA ArrivesKeeps ==
  ASSUME BackendsInv, NEW c \in BackendCallers, NEW r \in BackendCallStates, Arrives(c, r),
         UNCHANGED <<backendDoc, queueOf>>,
         r.op \in BackendOps, Placed(r),
         r.pc \in {"done", "find_default", "count", "upsert"},
         r.pc = "upsert" => Stored(r.id)
  PROVE  BackendsInv'
<1>1. /\ bcall' \in [BackendCallers -> BackendCallStates]
      /\ bcall'[c] = r
      /\ \A d \in BackendCallers \ {c} : bcall'[d] = bcall[d]
  BY DEF BackendsInv, BackendsTypeOK, Arrives
<1>2. met \subseteq met' /\ bcall[c].pc = "idle"
  BY DEF Arrives, IsNext
<1>3. \A d \in BackendCallers : Under(bcall[d]) <=> d \in Ongoing(bcall)
  BY DEF Under, Ongoing, BackendsInv, BackendsTypeOK
<1>4. Under(r) => \A d \in BackendCallers : Under(bcall[d]) => {r.op, bcall[d].op} \in met'
  BY <1>3 DEF Arrives, Under
<1>5. \A d \in BackendCallers : Under(bcall[d]) => bcall[d].op \in BackendOps
  BY DEF BackendsInv, AllPlaced, Placed, BackendOps
<1>6. met' \subseteq SUBSET BackendOps
  BY <1>3, <1>5 DEF Arrives, BackendsInv, BackendsTypeOK, Ongoing
<1>7. BackendsTypeOK'
  BY <1>1, <1>6 DEF BackendsInv, BackendsTypeOK
<1>8. AllPlaced'
  BY <1>1 DEF BackendsInv, AllPlaced, Placed, Under
<1>9. Defaults' = Defaults /\ \A b : Stored(b)' = Stored(b)
  BY DEF Defaults, IsDefault, Stored
<1>10. ASSUME ChoosersApart' PROVE DefaultsKept'
  <2>1. ChoosersApart
    BY <1>2, <1>10 DEF ChoosersApart
  <2>2. Choosing(r) => \A d \in BackendCallers : ~ Choosing(bcall[d])
    BY <1>4, <1>10 DEF ChoosersApart, Choosing
  <2>3. \A d, e \in BackendCallers : (Choosing(bcall[d]) /\ Choosing(bcall[e]) => d = e)'
    BY <1>1, <2>1, <2>2 DEF BackendsInv, DefaultsKept, Choosing, Under
  <2>4. \A d \in BackendCallers : Informed(bcall[d])'
    BY <1>1, <1>9, <2>1 DEF BackendsInv, DefaultsKept, Informed
  <2>5. (\A a, b \in Defaults : a = b)'
    BY <1>9, <2>1 DEF BackendsInv, DefaultsKept
  <2> QED
    BY <2>3, <2>4, <2>5 DEF DefaultsKept
<1>11. ASSUME DeletesApart' PROVE QueuesKept'
  <2>1. DeletesApart
    BY <1>2, <1>11 DEF DeletesApart
  <2>2. {"createQueue", "delete"} = {"delete", "createQueue"}
    OBVIOUS
  <2>3. Under(r) => \A d \in BackendCallers :
          Under(bcall[d]) => /\ ~ (r.op = "delete" /\ bcall[d].op = "createQueue")
                             /\ ~ (r.op = "createQueue" /\ bcall[d].op = "delete")
    BY <1>4, <1>11, <2>2 DEF DeletesApart
  <2>4. \A d, e \in BackendCallers :
          ~ (/\ Under(bcall'[d]) /\ bcall'[d].op = "delete"
             /\ Under(bcall'[e]) /\ bcall'[e].op = "createQueue")
    BY <1>1, <2>1, <2>3 DEF BackendsInv, QueuesKept, Under
  <2>5. \A d \in BackendCallers : Founded(bcall[d])'
    BY <1>1, <1>9, <2>1 DEF BackendsInv, QueuesKept, Founded
  <2>6. (\A n \in QueueNames : queueOf[n] # NoBackend => Stored(queueOf[n]))'
    BY <1>9, <2>1 DEF BackendsInv, QueuesKept
  <2> QED
    BY <2>4, <2>5, <2>6 DEF QueuesKept, Under
<1>12. DefaultsKept' /\ QueuesKept'
  BY <1>10, <1>11 DEF DefaultsKept, QueuesKept
<1> QED
  BY <1>7, <1>8, <1>12 DEF BackendsInv

\* A call goes on.  What it writes may only concern the calls that could be under way
\* with it.
LEMMA MovesKeeps ==
  ASSUME BackendsInv, NEW c \in BackendCallers, NEW r \in BackendCallStates, Moves(c, r),
         Under(bcall[c]), r.op = bcall[c].op, Placed(r),
         backendDoc' \in [BackendIds -> BackendDocs],
         queueOf' \in [QueueNames -> BackendIds \cup {NoBackend}],
         ChoosersApart => Informed(r)' /\ (\A a, b \in Defaults : a = b)',
         r.op \notin Choosers => Defaults' \subseteq Defaults,
         DeletesApart => /\ Founded(r)'
                         /\ (\A n \in QueueNames : queueOf[n] # NoBackend => Stored(queueOf[n]))',
         r.op # "delete" => \A b \in BackendIds : Stored(b) => Stored(b)',
         r.op # "createQueue" => queueOf' = queueOf
  PROVE  BackendsInv'
<1>1. /\ bcall' \in [BackendCallers -> BackendCallStates]
      /\ bcall'[c] = r
      /\ \A d \in BackendCallers \ {c} : bcall'[d] = bcall[d]
      /\ met' = met
  BY DEF BackendsInv, BackendsTypeOK, Moves
<1>2. BackendsTypeOK'
  BY <1>1 DEF BackendsInv, BackendsTypeOK
<1>3. AllPlaced'
  BY <1>1 DEF BackendsInv, AllPlaced, Placed, Under
<1>4. ASSUME ChoosersApart PROVE DefaultsKept'
  <2>1. \A d \in BackendCallers \ {c} : r.op \in Choosers => ~ Choosing(bcall[d])
    BY <1>4 DEF BackendsInv, DefaultsKept, Choosing
  <2>2. \A d, e \in BackendCallers : (Choosing(bcall[d]) /\ Choosing(bcall[e]) => d = e)'
    BY <1>1, <1>4 DEF BackendsInv, DefaultsKept, Choosing, Under
  <2>3. ASSUME NEW d \in BackendCallers \ {c} PROVE Informed(bcall[d])'
    <3>1. Placed(bcall[d]) /\ Informed(bcall[d]) /\ bcall'[d] = bcall[d]
      BY <1>1, <1>4 DEF BackendsInv, AllPlaced, DefaultsKept
    <3>2. CASE r.op \in Choosers
      BY <2>1, <3>1, <3>2 DEF Choosing, Choosers, Informed, Under
    <3>3. CASE r.op \notin Choosers
      BY <3>1, <3>3 DEF Informed
    <3> QED
      BY <3>2, <3>3
  <2>4. Informed(bcall[c])'
    BY <1>1, <1>4 DEF Informed
  <2>5. \A d \in BackendCallers : Informed(bcall[d])'
    BY <2>3, <2>4
  <2> QED
    BY <1>4, <2>2, <2>5 DEF DefaultsKept
<1>5. ASSUME DeletesApart PROVE QueuesKept'
  <2>1. \A d, e \in BackendCallers :
          ~ (/\ Under(bcall'[d]) /\ bcall'[d].op = "delete"
             /\ Under(bcall'[e]) /\ bcall'[e].op = "createQueue")
    BY <1>1, <1>5 DEF BackendsInv, QueuesKept, Under
  <2>2. ASSUME NEW d \in BackendCallers \ {c} PROVE Founded(bcall[d])'
    <3>1. Placed(bcall[d]) /\ Founded(bcall[d]) /\ bcall'[d] = bcall[d]
      BY <1>1, <1>5 DEF BackendsInv, AllPlaced, QueuesKept
    <3>2. /\ r.op = "delete" => ~ (Under(bcall[d]) /\ bcall[d].op = "createQueue")
          /\ r.op = "createQueue" => ~ (Under(bcall[d]) /\ bcall[d].op = "delete")
      BY <1>5 DEF BackendsInv, QueuesKept
    <3>3. (bcall[d].op = "createQueue" /\ bcall[d].pc = "upsert") => Stored(bcall[d].id)'
      BY <3>1, <3>2 DEF Founded, Placed, Under
    <3>4. (bcall[d].op = "delete" /\ bcall[d].pc = "remove") =>
            \A n \in QueueNames : queueOf'[n] # bcall[d].id
      BY <3>1, <3>2 DEF Founded, Under
    <3> QED
      BY <3>1, <3>3, <3>4 DEF Founded
  <2>3. Founded(bcall[c])'
    BY <1>1, <1>5 DEF Founded
  <2>4. \A d \in BackendCallers : Founded(bcall[d])'
    BY <2>2, <2>3
  <2> QED
    BY <1>5, <2>1, <2>4 DEF QueuesKept, Under
<1>6. DefaultsKept' /\ QueuesKept'
  BY <1>1, <1>4, <1>5 DEF DefaultsKept, QueuesKept, ChoosersApart, DeletesApart
<1> QED
  BY <1>2, <1>3, <1>6 DEF BackendsInv
-----------------------------------------------------------------------------
LEMMA BackendCallTyped ==
  ASSUME BackendsInv, NEW c \in BackendCallers
  PROVE  bcall[c] \in BackendCallStates /\ Placed(bcall[c])
BY DEF BackendsInv, BackendsTypeOK, AllPlaced

\* A call that is over asks for nothing more.
LEMMA OverIsQuiet ==
  ASSUME NEW r \in BackendCallStates, r.pc = "done"
  PROVE  /\ Placed(r) /\ Informed(r) /\ Founded(r)
         /\ Informed(r)' /\ Founded(r)'
BY DEF Placed, Under, Informed, Founded

LEMMA BackendEndsTyped ==
  ASSUME NEW x \in BackendCallStates, NEW a \in {"ok", "failed"}
  PROVE  /\ Ends(x, a) \in BackendCallStates
         /\ Ends(x, a).pc = "done" /\ Ends(x, a).op = x.op /\ Ends(x, a).id = x.id
BY DEF Ends, BackendCallStates

LEMMA GoesToTyped ==
  ASSUME NEW x \in BackendCallStates, NEW l \in {"set", "remove"}
  PROVE  /\ GoesTo(x, l) \in BackendCallStates
         /\ GoesTo(x, l).pc = l /\ GoesTo(x, l).op = x.op /\ GoesTo(x, l).id = x.id
BY DEF GoesTo, BackendCallStates

\* A call that is refused as it begins.
LEMMA RefusedKeeps ==
  ASSUME BackendsInv, NEW c \in BackendCallers, NEW o \in BackendOps, Arrives(c, Refused(c, o)),
         UNCHANGED <<backendDoc, queueOf>>
  PROVE  BackendsInv'
<1> DEFINE r == Refused(c, o)
<1>1. bcall[c] \in BackendCallStates
  BY BackendCallTyped
<1>2. r \in BackendCallStates /\ r.op = o /\ r.pc = "done"
  BY <1>1 DEF Refused, Begun, Ends, BackendCallStates
<1>3. Arrives(c, r)
  OBVIOUS
<1> HIDE DEF r
<1>4. Placed(r)
  BY <1>2, OverIsQuiet
<1> QED
  BY <1>2, <1>3, <1>4, ArrivesKeeps

\* The lookups, which change no document.
LEMMA ReadsKeep ==
  ASSUME BackendsInv, NEW c \in BackendCallers, NEW r \in BackendCallStates, Moves(c, r),
         Under(bcall[c]), r.op = bcall[c].op, Placed(r),
         UNCHANGED <<backendDoc, queueOf>>,
         ChoosersApart => Informed(r), DeletesApart => Founded(r)
  PROVE  BackendsInv'
<1>1. /\ backendDoc' \in [BackendIds -> BackendDocs]
      /\ queueOf' \in [QueueNames -> BackendIds \cup {NoBackend}]
  BY DEF BackendsInv, BackendsTypeOK
<1>2. Defaults' = Defaults /\ \A b : Stored(b)' = Stored(b)
  BY DEF Defaults, IsDefault, Stored
<1>3. ChoosersApart => Informed(r)' /\ (\A a, b \in Defaults : a = b)'
  BY <1>2 DEF BackendsInv, DefaultsKept, Informed
<1>4. DeletesApart => /\ Founded(r)'
                      /\ (\A n \in QueueNames : queueOf[n] # NoBackend => Stored(queueOf[n]))'
  BY <1>2 DEF BackendsInv, QueuesKept, Founded
<1> QED
  BY <1>1, <1>2, <1>3, <1>4, MovesKeeps

LEMMA CreateBeginKeeps ==
  ASSUME BackendsInv, NEW c \in BackendCallers, NEW k \in BackendKeys, CreateBegin(c, k)
  PROVE  BackendsInv'
<1> DEFINE r == [Begun(c, "create") EXCEPT !.pc = "find_default", !.key = k]
<1>1. bcall[c] \in BackendCallStates /\ UNCHANGED <<backendDoc, queueOf>>
  BY BackendCallTyped DEF CreateBegin
<1>2. r \in BackendCallStates /\ r.op = "create" /\ r.pc = "find_default"
  BY <1>1 DEF Begun, BackendCallStates, BackendOps
<1>3. Arrives(c, Refused(c, "create")) \/ Arrives(c, r)
  BY DEF CreateBegin
<1> HIDE DEF r
<1>4. Placed(r) /\ r.op \in BackendOps
  BY <1>2 DEF Placed, BackendOps
<1> QED
  BY <1>1, <1>2, <1>3, <1>4, ArrivesKeeps, RefusedKeeps

\* The calls that name a backend by its _id.
LEMMA BackendNamedBeginsKeep ==
  ASSUME BackendsInv, NEW c \in BackendCallers, NEW b \in BackendIds,
         SetDefaultBegin(c, b) \/ DeleteBegin(c, b) \/ Show(c, b)
  PROVE  BackendsInv'
<1>1. bcall[c] \in BackendCallStates /\ UNCHANGED <<backendDoc, queueOf>>
  BY BackendCallTyped DEF SetDefaultBegin, DeleteBegin, Show
<1>2. backendDoc[b].default \in BOOLEAN
  BY DEF BackendsInv, BackendsTypeOK, BackendDocs
<1>3. CASE SetDefaultBegin(c, b)
  <2> DEFINE r == [Begun(c, "setDefault") EXCEPT !.pc = "find_default", !.id = b,
                                                 !.was = backendDoc[b].default]
  <2>1. /\ r \in BackendCallStates /\ r.op = "setDefault" /\ r.pc = "find_default"
        /\ r.id = b
    BY <1>1, <1>2 DEF Begun, BackendCallStates, BackendOps
  <2>2. Arrives(c, Refused(c, "setDefault")) \/ Arrives(c, r)
    BY <1>3 DEF SetDefaultBegin
  <2> HIDE DEF r
  <2>3. Placed(r) /\ r.op \in BackendOps /\ "setDefault" \in BackendOps
    BY <2>1 DEF Placed, BackendOps
  <2> QED
    BY <1>1, <2>1, <2>2, <2>3, ArrivesKeeps, RefusedKeeps
<1>4. CASE DeleteBegin(c, b)
  <2> DEFINE r == [Begun(c, "delete") EXCEPT !.pc = "count", !.id = b]
  <2>1. r \in BackendCallStates /\ r.op = "delete" /\ r.pc = "count" /\ r.id = b
    BY <1>1 DEF Begun, BackendCallStates, BackendOps
  <2>2. Arrives(c, Refused(c, "delete")) \/ Arrives(c, r)
    BY <1>4 DEF DeleteBegin
  <2> HIDE DEF r
  <2>3. Placed(r) /\ r.op \in BackendOps
    BY <2>1 DEF Placed, BackendOps
  <2> QED
    BY <1>1, <2>1, <2>2, <2>3, ArrivesKeeps, RefusedKeeps
<1>5. CASE Show(c, b)
  <2>1. PICK a \in {"ok", "unanswered"} :
          Arrives(c, [Begun(c, "show") EXCEPT !.pc = "done", !.id = b, !.answer = a])
    BY <1>5 DEF Show
  <2> DEFINE r == [Begun(c, "show") EXCEPT !.pc = "done", !.id = b, !.answer = a]
  <2>2. r \in BackendCallStates /\ r.op = "show" /\ r.pc = "done"
    BY <1>1 DEF Begun, BackendCallStates, BackendOps
  <2>3. Arrives(c, r)
    BY <2>1
  <2> HIDE DEF r
  <2>4. Placed(r) /\ r.op \in BackendOps
    BY <2>2, OverIsQuiet DEF BackendOps
  <2> QED
    BY <1>1, <2>2, <2>3, <2>4, ArrivesKeeps
<1> QED
  BY <1>3, <1>4, <1>5

LEMMA ListKeeps ==
  ASSUME BackendsInv, NEW c \in BackendCallers, ListBackends(c)
  PROVE  BackendsInv'
<1> DEFINE r == [Begun(c, "show") EXCEPT !.pc = "done", !.answer = "ok"]
<1>1. bcall[c] \in BackendCallStates
  BY BackendCallTyped
<1>2. r \in BackendCallStates /\ r.op = "show" /\ r.pc = "done"
  BY <1>1, ZenonT(60) DEF Begun, BackendCallStates, BackendOps
<1>3. Arrives(c, r) /\ UNCHANGED <<backendDoc, queueOf>>
  BY DEF ListBackends
<1> HIDE DEF r
<1>4. Placed(r) /\ r.op \in BackendOps
  BY <1>2, OverIsQuiet DEF BackendOps
<1> QED
  BY <1>2, <1>3, <1>4, ArrivesKeeps

LEMMA CreateQueueBeginKeeps ==
  ASSUME BackendsInv, NEW c \in BackendCallers, NEW n \in QueueNames,
         NEW k \in BackendKeys \cup {NoKey}, CreateQueueBegin(c, n, k)
  PROVE  BackendsInv'
<1>1. bcall[c] \in BackendCallStates /\ UNCHANGED <<backendDoc, queueOf>>
  BY BackendCallTyped DEF CreateQueueBegin
<1>2. CASE Arrives(c, Refused(c, "createQueue"))
  BY <1>1, <1>2, RefusedKeeps DEF BackendOps
<1>3. CASE \E d \in BackendIds :
             /\ Stored(d)
             /\ Arrives(c, [Begun(c, "createQueue") EXCEPT !.pc = "upsert", !.id = d,
                                                           !.name = n, !.key = k])
  <2>1. PICK d \in BackendIds :
          /\ Stored(d)
          /\ Arrives(c, [Begun(c, "createQueue") EXCEPT !.pc = "upsert", !.id = d,
                                                        !.name = n, !.key = k])
    BY <1>3
  <2> DEFINE r == [Begun(c, "createQueue") EXCEPT !.pc = "upsert", !.id = d,
                                                  !.name = n, !.key = k]
  <2>2. r \in BackendCallStates /\ r.op = "createQueue" /\ r.pc = "upsert" /\ r.id = d
    BY <1>1 DEF Begun, BackendCallStates, BackendOps
  <2>3. Arrives(c, r)
    BY <2>1
  <2> HIDE DEF r
  <2>4. Placed(r) /\ r.op \in BackendOps /\ Stored(r.id)
    BY <2>1, <2>2 DEF Placed, BackendOps
  <2> QED
    BY <1>1, <2>2, <2>3, <2>4, ArrivesKeeps
<1> QED
  BY <1>2, <1>3 DEF CreateQueueBegin, IsDefault

\* create does not ask for the default again when it saves.
LEMMA BackendCreateKeeps ==
  ASSUME BackendsInv, NEW c \in BackendCallers, CreateStep(c)
  PROVE  BackendsInv'
<1>1. bcall[c] \in BackendCallStates /\ Placed(bcall[c])
  BY BackendCallTyped
<1>2. bcall[c].op = "create" /\ Under(bcall[c]) /\ UNCHANGED queueOf
  BY DEF CreateStep, CreateFindDefault, CreateTest, CreateSave, InProgress, Under
<1>3. ChoosersApart => Informed(bcall[c]) /\ \A a, b \in Defaults : a = b
  BY DEF BackendsInv, DefaultsKept
<1>4. CASE CreateFindDefault(c)
  <2> DEFINE r == [bcall[c] EXCEPT !.pc = "test", !.was = (Defaults # {})]
  <2>1. /\ r \in BackendCallStates /\ r.op = "create" /\ r.pc = "test"
        /\ (~ r.was => Defaults = {})
    BY <1>1, <1>2 DEF BackendCallStates
  <2>2. Moves(c, r) /\ UNCHANGED <<backendDoc, queueOf>>
    BY <1>4 DEF CreateFindDefault
  <2> HIDE DEF r
  <2>3. Placed(r) /\ Informed(r) /\ Founded(r)
    BY <2>1 DEF Placed, Informed, Founded
  <2> QED
    BY <1>2, <2>1, <2>2, <2>3, ReadsKeep
<1>5. CASE CreateTest(c)
  <2>1. UNCHANGED <<backendDoc, queueOf>> /\ bcall[c].pc = "test"
    BY <1>5 DEF CreateTest, InProgress
  <2>2. CASE Moves(c, GoesTo(bcall[c], "save"))
    <3> DEFINE r == GoesTo(bcall[c], "save")
    <3>1. /\ r \in BackendCallStates /\ r.op = "create" /\ r.pc = "save"
          /\ r.was = bcall[c].was
      BY <1>1, <1>2 DEF GoesTo, BackendCallStates
    <3>2. Moves(c, r)
      BY <2>2
    <3> HIDE DEF r
    <3>3. Placed(r) /\ Founded(r) /\ (ChoosersApart => Informed(r))
      BY <1>2, <1>3, <2>1, <3>1 DEF Placed, Founded, Informed
    <3> QED
      BY <1>2, <2>1, <3>1, <3>2, <3>3, ReadsKeep
  <2>3. CASE Moves(c, Answered(c, "failed"))
    BY <1>1, <1>2, <2>1, <2>3, BackendEndsTyped, OverIsQuiet, ReadsKeep DEF Answered
  <2> QED
    BY <1>5, <2>2, <2>3 DEF CreateTest
<1>6. CASE CreateSave(c)
  <2>1. PICK a \in {"failed", "ok"} : CreateAnswer(c, a)
    BY <1>6 DEF CreateSave
  <2>2. PICK r \in BackendCallStates : r.op = "create" /\ r.pc = "done" /\ Moves(c, r)
    BY <1>1, <1>2, <2>1, BackendEndsTyped DEF CreateAnswer, Answered
  <2>3. Placed(r) /\ Informed(r)' /\ Founded(r)'
    BY <2>2, OverIsQuiet
  <2>4. CASE UNCHANGED backendDoc
    <3>1. ChoosersApart => Informed(r)
      BY <2>2 DEF Informed
    <3>2. Founded(r)
      BY <2>2 DEF Founded
    <3> QED
      BY <1>2, <2>2, <2>3, <2>4, <3>1, <3>2, ReadsKeep
  <2>5. CASE \E b \in BackendIds :
               /\ IsNextId(b)
               /\ backendDoc' = [backendDoc EXCEPT ![b] =
                    [key |-> bcall[c].key, default |-> ~ bcall[c].was, state |-> "stored"]]
    <3>1. PICK b \in BackendIds :
            /\ IsNextId(b)
            /\ backendDoc' = [backendDoc EXCEPT ![b] =
                 [key |-> bcall[c].key, default |-> ~ bcall[c].was, state |-> "stored"]]
      BY <2>5
    <3>2. bcall[c].key \in BackendKeys \cup {NoKey} /\ bcall[c].was \in BOOLEAN
      BY <1>1 DEF BackendCallStates
    <3>3. backendDoc \in [BackendIds -> BackendDocs]
      BY DEF BackendsInv, BackendsTypeOK
    <3>4. backendDoc' \in [BackendIds -> BackendDocs]
      BY <3>1, <3>2, <3>3 DEF BackendDocs
    <3>5. \A d \in BackendIds : Stored(d) => Stored(d)'
      BY <3>1, <3>3 DEF Stored
    <3>6. /\ bcall[c].was => Defaults' \subseteq Defaults
          /\ Defaults' \subseteq Defaults \cup {b}
      BY <3>1, <3>2, <3>3 DEF Defaults, IsDefault, Stored
    <3>7. ChoosersApart => (\A a1, b1 \in Defaults : a1 = b1)'
      BY <1>2, <1>3, <1>6, <3>2, <3>6 DEF CreateSave, InProgress, Informed
    <3>8. DeletesApart =>
            (\A n \in QueueNames : queueOf[n] # NoBackend => Stored(queueOf[n]))'
      BY <1>2, <3>5 DEF QueuesKept, BackendsInv, BackendsTypeOK
    <3>9. queueOf' \in [QueueNames -> BackendIds \cup {NoBackend}]
      BY <1>2 DEF BackendsInv, BackendsTypeOK
    <3> QED
      BY <1>2, <2>2, <2>3, <3>4, <3>5, <3>7, <3>8, <3>9, MovesKeeps DEF Choosers
  <2> QED
    BY <1>6, <2>4, <2>5 DEF CreateSave
<1> QED
  BY <1>4, <1>5, <1>6 DEF CreateStep
\* Another backend that chooses the default is not under way, so what the call found
\* is still all there is.
LEMMA SetDefaultKeeps ==
  ASSUME BackendsInv, NEW c \in BackendCallers, SetDefaultStep(c)
  PROVE  BackendsInv'
<1>1. bcall[c] \in BackendCallStates /\ Placed(bcall[c])
  BY BackendCallTyped
<1>2. bcall[c].op = "setDefault" /\ Under(bcall[c]) /\ UNCHANGED queueOf
  BY DEF SetDefaultStep, SetDefaultFind, SetDefaultClear, SetDefaultSet, InProgress, Under
<1>3. ChoosersApart => Informed(bcall[c]) /\ \A a, b \in Defaults : a = b
  BY DEF BackendsInv, DefaultsKept
<1>4. bcall[c].id \in BackendIds
  BY <1>1, <1>2 DEF Placed
<1>5. backendDoc \in [BackendIds -> BackendDocs]
  BY DEF BackendsInv, BackendsTypeOK
<1>6. queueOf' \in [QueueNames -> BackendIds \cup {NoBackend}]
  BY <1>2 DEF BackendsInv, BackendsTypeOK
<1>7. ASSUME NEW b \in BackendIds, NEW v \in BOOLEAN, SavesDefault(b, v)
      PROVE  /\ backendDoc' \in [BackendIds -> BackendDocs]
             /\ \A d \in BackendIds : Stored(d) => Stored(d)'
             /\ v => Defaults' \subseteq Defaults \cup {b}
             /\ ~ v => Defaults' \subseteq Defaults \ {b}
             /\ DeletesApart =>
                  (\A n \in QueueNames : queueOf[n] # NoBackend => Stored(queueOf[n]))'
  <2>1. CASE Stored(b)
    <3>1. backendDoc' = [backendDoc EXCEPT ![b].default = v]
      BY <1>7, <2>1 DEF SavesDefault
    <3>2. backendDoc' \in [BackendIds -> BackendDocs]
      BY <1>5, <3>1 DEF BackendDocs
    <3>3. /\ backendDoc'[b].state = backendDoc[b].state /\ backendDoc'[b].default = v
          /\ \A d \in BackendIds \ {b} : backendDoc'[d] = backendDoc[d]
      BY <1>5, <3>1 DEF BackendDocs
    <3>4. \A d \in BackendIds : Stored(d)' = Stored(d)
      BY <3>3 DEF Stored
    <3>5. /\ \A d \in BackendIds \ {b} : IsDefault(d)' = IsDefault(d)
          /\ ~ v => ~ IsDefault(b)'
      BY <3>3, <3>4 DEF IsDefault, Stored
    <3>6. /\ v => Defaults' \subseteq Defaults \cup {b}
          /\ ~ v => Defaults' \subseteq Defaults \ {b}
      BY <3>5 DEF Defaults
    <3> QED
      BY <1>2, <3>2, <3>4, <3>6 DEF BackendsInv, QueuesKept, BackendsTypeOK
  <2>2. CASE ~ Stored(b)
    <3>1. backendDoc' = backendDoc
      BY <1>7, <2>2 DEF SavesDefault
    <3>2. Defaults' = Defaults /\ b \notin Defaults /\ \A d : Stored(d)' = Stored(d)
      BY <2>2, <3>1 DEF Defaults, IsDefault, Stored
    <3> QED
      BY <1>2, <1>5, <3>1, <3>2 DEF BackendsInv, QueuesKept
  <2> QED
    BY <2>1, <2>2
<1>8. CASE SetDefaultFind(c)
  <2>1. PICK r \in BackendCallStates :
          /\ Moves(c, r) /\ r.op = "setDefault" /\ r.id = bcall[c].id
          /\ \/ r.pc = "set" /\ (Defaults = {} \/ r.id \in Defaults)
             \/ r.pc = "clear" /\ r.other \in Defaults
    <3>1. /\ GoesTo(bcall[c], "set") \in BackendCallStates
          /\ GoesTo(bcall[c], "set").op = "setDefault"
          /\ GoesTo(bcall[c], "set").pc = "set"
          /\ GoesTo(bcall[c], "set").id = bcall[c].id
      BY <1>1, <1>2 DEF GoesTo, BackendCallStates
    <3>2. \A b \in Defaults :
            /\ [bcall[c] EXCEPT !.pc = "clear", !.other = b] \in BackendCallStates
            /\ [bcall[c] EXCEPT !.pc = "clear", !.other = b].op = "setDefault"
            /\ [bcall[c] EXCEPT !.pc = "clear", !.other = b].pc = "clear"
            /\ [bcall[c] EXCEPT !.pc = "clear", !.other = b].id = bcall[c].id
            /\ [bcall[c] EXCEPT !.pc = "clear", !.other = b].other = b
      BY <1>1, <1>2 DEF BackendCallStates, Defaults
    <3>3. CASE Defaults = {} /\ Moves(c, GoesTo(bcall[c], "set"))
      BY <3>1, <3>3
    <3>4. CASE \E b \in Defaults : b = bcall[c].id /\ Moves(c, GoesTo(bcall[c], "set"))
      BY <3>1, <3>4
    <3>5. CASE \E b \in Defaults : Moves(c, [bcall[c] EXCEPT !.pc = "clear", !.other = b])
      BY <3>2, <3>5
    <3> QED
      BY <1>8, <3>3, <3>4, <3>5 DEF SetDefaultFind
  <2>2. Placed(r) /\ Founded(r)
    BY <1>4, <2>1 DEF Placed, Founded, Defaults
  <2>3. ChoosersApart => Informed(r)
    BY <1>3, <2>1 DEF Informed
  <2>4. UNCHANGED <<backendDoc, queueOf>>
    BY <1>8 DEF SetDefaultFind
  <2> QED
    BY <1>2, <2>1, <2>2, <2>3, <2>4, ReadsKeep
<1>9. CASE SetDefaultClear(c)
  <2>1. PICK r \in BackendCallStates :
          /\ Moves(c, r) /\ r.op = "setDefault" /\ r.id = bcall[c].id
          /\ r.pc \in {"set", "done"}
    BY <1>1, <1>2, <1>9, BackendEndsTyped, GoesToTyped DEF SetDefaultClear, SetDefaultAnswer,
       Answered
  <2>2. bcall[c].pc = "clear" /\ bcall[c].other \in BackendIds
    BY <1>1, <1>2, <1>9 DEF SetDefaultClear, InProgress, Placed
  <2>3. SavesDefault(bcall[c].other, FALSE)
    BY <1>9 DEF SetDefaultClear
  <2>4. /\ backendDoc' \in [BackendIds -> BackendDocs]
        /\ \A d \in BackendIds : Stored(d) => Stored(d)'
        /\ Defaults' \subseteq Defaults \ {bcall[c].other}
        /\ DeletesApart =>
             (\A n \in QueueNames : queueOf[n] # NoBackend => Stored(queueOf[n]))'
    BY <1>7, <2>2, <2>3
  <2>5. ChoosersApart => Defaults' = {}
    BY <1>2, <1>3, <2>2, <2>4 DEF Informed
  <2>6. Placed(r) /\ Founded(r)'
    BY <1>4, <2>1 DEF Placed, Under, Founded
  <2>7. ChoosersApart => Informed(r)' /\ (\A a, b \in Defaults : a = b)'
    BY <2>1, <2>5 DEF Informed
  <2> QED
    BY <1>2, <1>6, <2>1, <2>4, <2>6, <2>7, MovesKeeps DEF Choosers
<1>10. CASE SetDefaultSet(c)
  <2>1. PICK r \in BackendCallStates :
          Moves(c, r) /\ r.op = "setDefault" /\ r.pc = "done"
    <3>1. Moves(c, Ends(bcall[c], "ok")) \/ Moves(c, Ends(bcall[c], "failed"))
      BY <1>10 DEF SetDefaultSet, SetDefaultAnswer, Answered
    <3>2. \A a \in {"ok", "failed"} :
            /\ Ends(bcall[c], a) \in BackendCallStates
            /\ Ends(bcall[c], a).op = "setDefault" /\ Ends(bcall[c], a).pc = "done"
      BY <1>1, <1>2, BackendEndsTyped
    <3> QED
      BY <3>1, <3>2
  <2>2. Placed(r) /\ Informed(r)' /\ Founded(r)' /\ Informed(r) /\ Founded(r)
    BY <2>1, OverIsQuiet
  <2>3. CASE UNCHANGED backendDoc
    BY <1>2, <2>1, <2>2, <2>3, ReadsKeep
  <2>4. CASE SavesDefault(bcall[c].id, TRUE)
    <3>1. /\ backendDoc' \in [BackendIds -> BackendDocs]
          /\ \A d \in BackendIds : Stored(d) => Stored(d)'
          /\ Defaults' \subseteq Defaults \cup {bcall[c].id}
          /\ DeletesApart =>
               (\A n \in QueueNames : queueOf[n] # NoBackend => Stored(queueOf[n]))'
      BY <1>4, <1>7, <2>4
    <3>2. ChoosersApart => Defaults \subseteq {bcall[c].id}
      BY <1>2, <1>3, <1>10 DEF SetDefaultSet, InProgress, Informed
    <3>3. ChoosersApart => (\A a, b \in Defaults : a = b)'
      BY <3>1, <3>2
    <3> QED
      BY <1>2, <1>6, <2>1, <2>2, <3>1, <3>3, MovesKeeps DEF Choosers
  <2> QED
    BY <1>10, <2>3, <2>4 DEF SetDefaultSet
<1> QED
  BY <1>8, <1>9, <1>10 DEF SetDefaultStep

LEMMA BackendDeleteKeeps ==
  ASSUME BackendsInv, NEW c \in BackendCallers, DeleteStep(c)
  PROVE  BackendsInv'
<1>1. bcall[c] \in BackendCallStates /\ Placed(bcall[c])
  BY BackendCallTyped
<1>2. bcall[c].op = "delete" /\ Under(bcall[c]) /\ UNCHANGED queueOf
  BY DEF DeleteStep, DeleteCount, DeleteRemove, InProgress, Under
<1>3. bcall[c].id \in BackendIds
  BY <1>1, <1>2 DEF Placed
<1>4. CASE DeleteCount(c)
  <2>1. PICK r \in BackendCallStates :
          /\ Moves(c, r) /\ r.op = "delete" /\ r.id \in BackendIds
          /\ \/ r.pc = "done"
             \/ r.pc = "remove" /\ \A n \in QueueNames : queueOf[n] # r.id
    BY <1>1, <1>2, <1>3, <1>4, BackendEndsTyped, GoesToTyped DEF DeleteCount, DeleteAnswer,
       Answered
  <2>2. Placed(r) /\ Informed(r) /\ Founded(r)
    BY <2>1 DEF Placed, Under, Informed, Founded
  <2>3. UNCHANGED <<backendDoc, queueOf>>
    BY <1>4 DEF DeleteCount
  <2> QED
    BY <1>2, <2>1, <2>2, <2>3, ReadsKeep
<1>5. CASE DeleteRemove(c)
  <2>1. PICK r \in BackendCallStates : Moves(c, r) /\ r.op = "delete" /\ r.pc = "done"
    BY <1>1, <1>2, <1>5, BackendEndsTyped DEF DeleteRemove, DeleteAnswer, Answered
  <2>2. Placed(r) /\ Informed(r)' /\ Founded(r)'
    BY <2>1, OverIsQuiet
  <2>3. backendDoc \in [BackendIds -> BackendDocs]
    BY DEF BackendsInv, BackendsTypeOK
  <2>4. backendDoc' = [backendDoc EXCEPT ![bcall[c].id].state = "removed",
                                         ![bcall[c].id].default = FALSE]
    BY <1>5 DEF DeleteRemove
  <2>5. /\ backendDoc' \in [BackendIds -> BackendDocs]
        /\ \A b \in BackendIds \ {bcall[c].id} : backendDoc'[b] = backendDoc[b]
        /\ backendDoc'[bcall[c].id].default = FALSE
    BY <1>3, <2>3, <2>4 DEF BackendDocs
  <2>6. Defaults' \subseteq Defaults
    BY <2>5 DEF Defaults, IsDefault, Stored
  <2>7. DeletesApart => (\A n \in QueueNames : queueOf[n] # NoBackend => Stored(queueOf[n]))'
    <3>1. DeletesApart => \A n \in QueueNames : queueOf[n] # bcall[c].id
      BY <1>2, <1>5 DEF DeleteRemove, InProgress, BackendsInv, QueuesKept, Founded
    <3> QED
      BY <1>2, <2>5, <3>1 DEF BackendsInv, QueuesKept, BackendsTypeOK, Stored
  <2>8. ChoosersApart => (\A a, b \in Defaults : a = b)'
    BY <2>6 DEF BackendsInv, DefaultsKept
  <2>9. queueOf' \in [QueueNames -> BackendIds \cup {NoBackend}] /\ r.op \notin Choosers
    BY <1>2, <2>1 DEF BackendsInv, BackendsTypeOK, Choosers
  <2> QED
    BY <1>2, <2>1, <2>2, <2>5, <2>6, <2>7, <2>8, <2>9, MovesKeeps
<1> QED
  BY <1>4, <1>5 DEF DeleteStep

LEMMA CreateQueueKeeps ==
  ASSUME BackendsInv, NEW c \in BackendCallers, CreateQueueStep(c)
  PROVE  BackendsInv'
<1>1. bcall[c] \in BackendCallStates /\ Placed(bcall[c])
  BY BackendCallTyped
<1>2. bcall[c].op = "createQueue" /\ Under(bcall[c]) /\ UNCHANGED backendDoc
  BY DEF CreateQueueStep, CreateQueueUpsert, CreateQueueClient, InProgress, Under
<1>3. bcall[c].id \in BackendIds /\ bcall[c].name \in QueueNames
  BY <1>1, <1>2 DEF Placed, BackendCallStates
<1>4. CASE CreateQueueUpsert(c)
  <2>1. PICK r \in BackendCallStates :
          /\ Moves(c, r) /\ r.op = "createQueue" /\ r.pc = "client" /\ r.id \in BackendIds
    BY <1>1, <1>2, <1>3, <1>4 DEF CreateQueueUpsert, GoesTo, BackendCallStates
  <2>2. Placed(r) /\ Informed(r)' /\ Founded(r)'
    BY <2>1 DEF Placed, Informed, Founded
  <2>3. Defaults' = Defaults /\ \A b : Stored(b)' = Stored(b)
    BY <1>2 DEF Defaults, IsDefault, Stored
  <2>4. queueOf' = [queueOf EXCEPT ![bcall[c].name] = bcall[c].id]
    BY <1>4 DEF CreateQueueUpsert
  <2>5. /\ queueOf' \in [QueueNames -> BackendIds \cup {NoBackend}]
        /\ backendDoc' \in [BackendIds -> BackendDocs]
    BY <1>2, <1>3, <2>4 DEF BackendsInv, BackendsTypeOK
  <2>6. DeletesApart => Stored(bcall[c].id)
    BY <1>2, <1>4 DEF CreateQueueUpsert, InProgress, BackendsInv, QueuesKept, Founded
  <2>7. DeletesApart => (\A n \in QueueNames : queueOf[n] # NoBackend => Stored(queueOf[n]))'
    BY <1>3, <2>3, <2>4, <2>6 DEF BackendsInv, QueuesKept, BackendsTypeOK
  <2>8. ChoosersApart => (\A a, b \in Defaults : a = b)'
    BY <2>3 DEF BackendsInv, DefaultsKept
  <2> QED
    BY <1>2, <2>1, <2>2, <2>3, <2>5, <2>7, <2>8, MovesKeeps
<1>5. CASE CreateQueueClient(c)
  <2>1. PICK r \in BackendCallStates : Moves(c, r) /\ r.op = "createQueue" /\ r.pc = "done"
    BY <1>1, <1>2, <1>5, BackendEndsTyped DEF CreateQueueClient, Answered
  <2>2. Placed(r) /\ Informed(r) /\ Founded(r)
    BY <2>1, OverIsQuiet
  <2>3. UNCHANGED <<backendDoc, queueOf>>
    BY <1>5 DEF CreateQueueClient
  <2> QED
    BY <1>2, <2>1, <2>2, <2>3, ReadsKeep
<1> QED
  BY <1>4, <1>5 DEF CreateQueueStep

LEMMA QueueRemovedKeeps ==
  ASSUME BackendsInv, NEW n \in QueueNames, QueueRemoved(n)
  PROVE  BackendsInv'
<1>1. /\ UNCHANGED <<backendDoc, bcall, met>>
      /\ queueOf' = [queueOf EXCEPT ![n] = NoBackend]
  BY DEF QueueRemoved
<1>2. BackendsTypeOK' /\ AllPlaced'
  BY <1>1 DEF BackendsInv, BackendsTypeOK, AllPlaced
<1>3. Defaults' = Defaults /\ \A b : Stored(b)' = Stored(b)
  BY <1>1 DEF Defaults, IsDefault, Stored
<1>4. DefaultsKept'
  BY <1>1, <1>3 DEF BackendsInv, DefaultsKept, ChoosersApart, Informed
<1>5. \A q \in QueueNames : queueOf'[q] \in {queueOf[q], NoBackend}
  BY <1>1 DEF BackendsInv, BackendsTypeOK
<1>6. \A b \in BackendIds : b # NoBackend
  BY BackendsAssumption DEF BackendIds, NoBackend
<1>7. \A c \in BackendCallers :
        (bcall[c].op = "delete" /\ bcall[c].pc = "remove") => bcall[c].id \in BackendIds
  BY DEF BackendsInv, AllPlaced, Placed, Under
<1>8. ASSUME DeletesApart PROVE \A c \in BackendCallers : Founded(bcall[c])'
  BY <1>1, <1>3, <1>5, <1>6, <1>7, <1>8 DEF BackendsInv, QueuesKept, Founded
<1>9. QueuesKept'
  BY <1>1, <1>3, <1>5, <1>8 DEF BackendsInv, QueuesKept, DeletesApart, Under
<1> QED
  BY <1>2, <1>4, <1>9 DEF BackendsInv

-----------------------------------------------------------------------------
LEMMA BackendsInvInit == BackendsInit => BackendsInv
<1> SUFFICES ASSUME BackendsInit PROVE BackendsInv
  OBVIOUS
<1>1. PICK m \in 0..MaxBackends, key \in [BackendIds -> BackendKeys] :
        backendDoc = [b \in BackendIds |->
          IF b \in 1..m THEN [key |-> key[b], default |-> b = 1, state |-> "stored"]
          ELSE [key |-> NoKey, default |-> FALSE, state |-> "unused"]]
  BY DEF BackendsInit
<1>2. backendDoc \in [BackendIds -> BackendDocs]
  BY <1>1 DEF BackendDocs
<1>3. AnyName \in QueueNames
  BY BackendsAssumption DEF AnyName
<1>4. \A c \in BackendCallers : bcall[c] \in BackendCallStates /\ bcall[c].pc = "idle"
  BY <1>3 DEF BackendsInit, BackendCallStates
<1>5. BackendsTypeOK
  BY <1>2, <1>4 DEF BackendsInit, BackendsTypeOK
<1>6. AllPlaced
  BY <1>4 DEF AllPlaced, Placed, Under
<1>7. \A a, b \in Defaults : a = b
  BY <1>1 DEF Defaults, IsDefault, Stored
<1>8. DefaultsKept
  BY <1>4, <1>7 DEF DefaultsKept, Choosing, Under, Informed
<1>9. QueuesKept
  BY <1>4 DEF BackendsInit, QueuesKept, Under, Founded
<1> QED
  BY <1>5, <1>6, <1>8, <1>9 DEF BackendsInv

LEMMA BackendsInvNext == BackendsInv /\ [BackendsNext]_backendVars => BackendsInv'
<1> SUFFICES ASSUME BackendsInv, [BackendsNext]_backendVars PROVE BackendsInv'
  OBVIOUS
<1>1. CASE UNCHANGED backendVars
  BY <1>1 DEF backendVars, BackendsInv, BackendsTypeOK, AllPlaced, DefaultsKept, QueuesKept,
     ChoosersApart,
              DeletesApart, Informed, Founded, Defaults, IsDefault, Stored
<1>2. CASE BackendsNext
  <2>1. CASE \E c \in BackendCallers, k \in BackendKeys : CreateBegin(c, k)
    BY <2>1, CreateBeginKeeps
  <2>2. CASE \E c \in BackendCallers, b \in BackendIds :
               SetDefaultBegin(c, b) \/ DeleteBegin(c, b) \/ Show(c, b)
    BY <2>2, BackendNamedBeginsKeep
  <2>3. CASE \E c \in BackendCallers, n \in QueueNames, k \in BackendKeys \cup {NoKey} :
               CreateQueueBegin(c, n, k)
    BY <2>3, CreateQueueBeginKeeps
  <2>4. CASE \E c \in BackendCallers :
               \/ ListBackends(c) \/ CreateStep(c) \/ SetDefaultStep(c)
               \/ DeleteStep(c) \/ CreateQueueStep(c)
    BY <2>4, ListKeeps, BackendCreateKeeps, SetDefaultKeeps, BackendDeleteKeeps, CreateQueueKeeps
  <2>5. CASE \E n \in QueueNames : QueueRemoved(n)
    BY <2>5, QueueRemovedKeeps
  <2> QED
    BY <1>2, <2>1, <2>2, <2>3, <2>4, <2>5 DEF BackendsNext
<1> QED
  BY <1>1, <1>2

LEMMA BackendsInvHolds == BackendsSpec => []BackendsInv
BY BackendsInvInit, BackendsInvNext, PTL DEF BackendsSpec

\* Every variable of the model of the backends (queue_backend.js) keeps its type.
THEOREM BackendsTypeCorrect == BackendsSpec => []BackendsTypeOK
<1>1. BackendsInv => BackendsTypeOK
  BY DEF BackendsInv
<1> QED
  BY BackendsInvHolds, <1>1, PTL

\* However many calls and backends there are: a user has one default backend at most,
\* unless two calls overlapped that choose it, and every queue refers to a backend
\* that exists, unless a deletion overlapped with the creation of a queue.
THEOREM BackendsSoundHolds == BackendsSpec => []BackendsSound
<1>1. BackendsInv => BackendsSound
  BY DEF BackendsInv, DefaultsKept, QueuesKept, ChoosersApart, DeletesApart, BackendsSound,
         OneDefault,
         QueuesBacked
<1> QED
  BY BackendsInvHolds, <1>1, PTL

-----------------------------------------------------------------------------
(* Tokens. *)

Edits(call) == call.op = "edit" /\ call.pc = "save"
Deletes(call) == call.op = "delete" /\ call.pc = "remove"

\* The token that is edited or deleted was there once.  An edit gives no right that
\* was revoked, and what the token has got since the edit read it is in rival.
Changing(call) ==
  Edits(call) \/ Deletes(call) => /\ call.id \in TokenIds
                                  /\ token[call.id].state # "unused"
Current(call) ==
  Edits(call) /\ TokenStored(call.id) =>
    /\ \A r \in call.form \ call.read : <<call.id, r>> \notin revoked
    /\ token[call.id].rights \ call.read \subseteq call.rival

\* A call of the core API uses what it has read, none of which was revoked before.
Admits(call) ==
  /\ call.pc = "idle" => call.used = {}
  /\ call.pc \in {"user", "gate", "find", "open"} =>
       /\ "known" \in call.read
       /\ call.used \subseteq call.read /\ call.read \cap call.late = {}
  /\ call.used \cap call.late = {}

TokenCallsHold == \A c \in TokenCallers :
               Changing(tcall[c]) /\ Current(tcall[c]) /\ Admits(tcall[c])

\* What one edit gives, every other edit of the token knows of.
EditsKnown ==
  \A c, d \in TokenCallers :
    (c # d /\ Edits(tcall[c]) /\ Edits(tcall[d]) /\ tcall[c].id = tcall[d].id) =>
      tcall[c].form \ tcall[c].read \subseteq tcall[d].rival

RevokedGone ==
  \A t \in TokenIds, r \in Needs :
    <<t, r>> \in revoked => /\ token[t].state # "unused"
                            /\ TokenStored(t) => r \notin Held(t)

TokensInv == TokensTypeOK /\ TokenCallsHold /\ EditsKnown /\ RevokedGone

-----------------------------------------------------------------------------
\* A request goes on, and no token changes.
LEMMA TokenStepKeeps ==
  ASSUME TokensInv, NEW c \in TokenCallers, NEW r \in TokenCallStates, TokenStep(c, r),
         UNCHANGED <<token, revoked>>, ~ Edits(r), Changing(r), Admits(r)
  PROVE  TokensInv'
<1>1. /\ tcall' \in [TokenCallers -> TokenCallStates]
      /\ tcall'[c] = r
      /\ \A d \in TokenCallers \ {c} : tcall'[d] = tcall[d]
  BY DEF TokensInv, TokensTypeOK, TokenStep
<1>2. TokensTypeOK' /\ RevokedGone'
  BY <1>1 DEF TokensInv, TokensTypeOK, RevokedGone, TokenStored, Held
<1>3. TokenCallsHold'
  BY <1>1 DEF TokensInv, TokenCallsHold, Changing, Current, Admits, TokenStored, Deletes, Edits
<1>4. EditsKnown'
  BY <1>1 DEF TokensInv, EditsKnown, Edits
<1> QED
  BY <1>2, <1>3, <1>4 DEF TokensInv

LEMMA TokenCallTyped ==
  ASSUME TokensInv, NEW c \in TokenCallers
  PROVE  tcall[c] \in TokenCallStates /\ Admits(tcall[c])
BY DEF TokensInv, TokensTypeOK, TokenCallsHold

\* A request that is over asks for nothing more.
LEMMA TokenEndsTyped ==
  ASSUME TokensInv, NEW c \in TokenCallers, NEW a \in {"ok", "failed", "unanswered"},
         TokenEnds(c, a)
  PROVE  \E r \in TokenCallStates :
           TokenStep(c, r) /\ r.pc = "done" /\ r.used = {} /\ r.late = {}
<1> DEFINE r == Ends([Forgets(tcall[c]) EXCEPT !.late = {}, !.used = {}], a)
<1>1. r \in TokenCallStates /\ r.pc = "done" /\ r.used = {} /\ r.late = {}
  BY TokenCallTyped, ZenonT(60) DEF Ends, Forgets, TokenCallStates
<1> QED
  BY <1>1 DEF TokenEnds

LEMMA TokenEndsKeeps ==
  ASSUME TokensInv, NEW c \in TokenCallers, NEW a \in {"ok", "failed", "unanswered"},
         TokenEnds(c, a), UNCHANGED <<token, revoked>>
  PROVE  TokensInv'
<1>1. PICK r \in TokenCallStates :
        TokenStep(c, r) /\ r.pc = "done" /\ r.used = {} /\ r.late = {}
  BY TokenEndsTyped
<1>2. ~ Edits(r) /\ Changing(r) /\ Admits(r)
  BY <1>1 DEF Edits, Deletes, Changing, Admits
<1> QED
  BY <1>1, <1>2, TokenStepKeeps

\* A request that begins and is over at once.
LEMMA TokenAtOnceKeeps ==
  ASSUME TokensInv, NEW c \in TokenCallers, NEW o \in TokenOps, NEW t \in TokenIds \cup {0},
         NEW a \in {"ok", "failed", "unanswered"},
         tcall[c].pc = "idle", TokenStep(c, Ends(TokenOp(c, o, t), a)),
         UNCHANGED <<token, revoked>>
  PROVE  TokensInv'
<1> DEFINE r == Ends(TokenOp(c, o, t), a)
<1>1. r \in TokenCallStates /\ r.pc = "done" /\ r.used = tcall[c].used
  BY TokenCallTyped, ZenonT(60) DEF Ends, TokenOp, TokenCallStates
<1>2. TokenStep(c, r) /\ tcall[c].used = {}
  BY TokenCallTyped DEF Admits
<1> HIDE DEF r
<1>3. ~ Edits(r) /\ Changing(r) /\ Admits(r)
  BY <1>1, <1>2 DEF Edits, Deletes, Changing, Admits
<1> QED
  BY <1>1, <1>2, <1>3, TokenStepKeeps

LEMMA TokenCreateKeeps ==
  ASSUME TokensInv, NEW c \in TokenCallers,
         (\E form \in Forms : CreateTokenBegin(c, form)) \/ CreateTokenSave(c)
  PROVE  TokensInv'
<1>1. tcall[c] \in TokenCallStates /\ Admits(tcall[c])
  BY TokenCallTyped
<1>2. CASE \E form \in Forms : CreateTokenBegin(c, form)
  <2>1. PICK form \in Forms : CreateTokenBegin(c, form)
    BY <1>2
  <2> DEFINE r == [TokenOp(c, "create", 0) EXCEPT !.pc = "save", !.form = form]
  <2>2. form \in SUBSET Rights
    BY TokensAssumption
  <2>3. /\ r \in TokenCallStates /\ r.op = "create" /\ r.pc = "save"
        /\ r.used = tcall[c].used
    BY <1>1, <2>2 DEF TokenOp, TokenCallStates, TokenOps
  <2>4. TokenStep(c, r) /\ tcall[c].pc = "idle" /\ UNCHANGED <<token, revoked>>
    BY <2>1 DEF CreateTokenBegin, TokenArrives, IsNext
  <2> HIDE DEF r
  <2>5. ~ Edits(r) /\ Changing(r) /\ Admits(r)
    BY <1>1, <2>3, <2>4 DEF Edits, Deletes, Changing, Admits
  <2> QED
    BY <2>3, <2>4, <2>5, TokenStepKeeps
<1>3. CASE CreateTokenSave(c)
  <2>1. PICK r \in TokenCallStates :
          TokenStep(c, r) /\ r.pc = "done" /\ r.used = {} /\ r.late = {}
    BY <1>3, TokenEndsTyped DEF CreateTokenSave
  <2>2. PICK t \in TokenIds :
          /\ token[t].state = "unused"
          /\ token' = [token EXCEPT ![t] = [state |-> "stored", rights |-> tcall[c].form]]
    BY <1>3 DEF CreateTokenSave
  <2>3. /\ tcall' \in [TokenCallers -> TokenCallStates]
        /\ tcall'[c] = r
        /\ \A d \in TokenCallers \ {c} : tcall'[d] = tcall[d]
    BY <2>1 DEF TokensInv, TokensTypeOK, TokenStep
  <2>4. tcall[c].form \in SUBSET Rights /\ revoked' = revoked
    BY <1>1, <1>3 DEF TokenCallStates, CreateTokenSave
  <2>5. /\ token' \in [TokenIds -> TokenDocs]
        /\ \A s \in TokenIds \ {t} : token'[s] = token[s]
        /\ token'[t].state = "stored"
    BY <2>2, <2>4 DEF TokensInv, TokensTypeOK, TokenDocs
  <2>6. TokensTypeOK'
    BY <2>3, <2>4, <2>5 DEF TokensInv, TokensTypeOK
  <2>7. RevokedGone'
    BY <2>2, <2>4, <2>5 DEF TokensInv, RevokedGone, TokenStored, Held
  <2>8. ASSUME NEW d \in TokenCallers \ {c}
        PROVE  (Changing(tcall[d]) /\ Current(tcall[d]) /\ Admits(tcall[d]))'
    <3>1. tcall'[d] = tcall[d] /\ Changing(tcall[d]) /\ Current(tcall[d]) /\ Admits(tcall[d])
      BY <2>3 DEF TokensInv, TokenCallsHold
    <3>2. (Edits(tcall[d]) \/ Deletes(tcall[d])) => token'[tcall[d].id] = token[tcall[d].id]
      BY <2>2, <2>5, <3>1 DEF Changing
    <3> QED
      BY <2>4, <3>1, <3>2 DEF Changing, Current, Admits, Edits, Deletes, TokenStored
  <2>9. (Changing(tcall[c]) /\ Current(tcall[c]) /\ Admits(tcall[c]))'
    BY <2>1, <2>3 DEF Changing, Current, Admits, Edits, Deletes
  <2>10. EditsKnown'
    BY <2>1, <2>3 DEF TokensInv, EditsKnown, Edits
  <2> QED
    BY <2>6, <2>7, <2>8, <2>9, <2>10 DEF TokensInv, TokenCallsHold
<1> QED
  BY <1>2, <1>3

\* An edit that begins reads the token, and takes part in the others.
LEMMA EditBeginKeeps ==
  ASSUME TokensInv, NEW c \in TokenCallers, NEW t \in TokenIds, NEW form \in Forms,
         EditBegin(c, t, form)
  PROVE  TokensInv'
<1>1. tcall[c] \in TokenCallStates /\ Admits(tcall[c]) /\ tcall[c].pc = "idle"
  BY TokenCallTyped DEF EditBegin, IsNext
<1>2. form \in SUBSET Rights
  BY TokensAssumption
<1>3. CASE ~ TokenStored(t)
  <2>1. TokenStep(c, Ends(TokenOp(c, "edit", t), "unanswered")) /\ UNCHANGED <<token, revoked>>
    BY <1>3 DEF EditBegin
  <2> QED
    BY <1>1, <2>1, TokenAtOnceKeeps DEF TokenOps
<1>4. CASE TokenStored(t)
  <2> DEFINE gives == form \ token[t].rights
             r == [TokenOp(c, "edit", t) EXCEPT !.pc = "save", !.form = form,
                     !.read = token[t].rights, !.rival = Giving(t)]
             Joined(d) == IF tcall[d].id = t
                          THEN [tcall[d] EXCEPT !.rival = @ \cup gives] ELSE tcall[d]
  <2>1. /\ tcall' = [d \in TokenCallers |-> IF d = c THEN r ELSE Joined(d)]
        /\ revoked' = revoked \ ({t} \X gives)
        /\ token' = token
    BY <1>4 DEF EditBegin
  <2>2. token[t].rights \in SUBSET Rights
    BY DEF TokensInv, TokensTypeOK, TokenDocs
  <2>3. Giving(t) \in SUBSET Rights
    BY DEF Giving, Gives, TokensInv, TokensTypeOK, TokenCallStates
  <2>4. /\ r \in TokenCallStates /\ Edits(r) /\ r.id = t /\ r.form = form
        /\ r.read = token[t].rights /\ r.rival = Giving(t)
        /\ r.used = tcall[c].used
    BY <1>1, <1>2, <2>2, <2>3 DEF TokenOp, TokenCallStates, TokenOps, Edits, Needs
  <2>5. ASSUME NEW d \in TokenCallers
        PROVE  /\ Joined(d) \in TokenCallStates
               /\ Joined(d).op = tcall[d].op /\ Joined(d).pc = tcall[d].pc
               /\ Joined(d).id = tcall[d].id /\ Joined(d).read = tcall[d].read
               /\ Joined(d).form = tcall[d].form /\ Joined(d).used = tcall[d].used
               /\ Joined(d).late = tcall[d].late
               /\ tcall[d].rival \subseteq Joined(d).rival
               /\ tcall[d].id = t => gives \subseteq Joined(d).rival
    <3>1. tcall[d] \in TokenCallStates
      BY TokenCallTyped
    <3>2. CASE tcall[d].id = t
      <4> DEFINE x == [tcall[d] EXCEPT !.rival = tcall[d].rival \cup gives]
      <4>1. /\ x \in TokenCallStates
            /\ x.op = tcall[d].op /\ x.pc = tcall[d].pc /\ x.id = tcall[d].id
            /\ x.read = tcall[d].read /\ x.form = tcall[d].form /\ x.used = tcall[d].used
            /\ x.late = tcall[d].late /\ x.rival = tcall[d].rival \cup gives
        BY <1>2, <3>1 DEF TokenCallStates
      <4> QED
        BY <3>2, <4>1
    <3>3. CASE tcall[d].id # t
      BY <3>1, <3>3
    <3> QED
      BY <3>2, <3>3
  <2> HIDE DEF Joined, r
  <2>6. tcall'[c] = r /\ \A d \in TokenCallers \ {c} : tcall'[d] = Joined(d)
    BY <2>1
  <2>7. \A d \in TokenCallers \ {c} :
          (Edits(tcall[d]) /\ tcall[d].id = t) =>
            tcall[d].form \ tcall[d].read \subseteq Giving(t)
    BY DEF Giving, Gives, Edits
  <2>8. TokensTypeOK'
    BY <2>1, <2>4, <2>5 DEF TokensInv, TokensTypeOK
  <2>9. RevokedGone'
    BY <2>1 DEF TokensInv, RevokedGone, TokenStored, Held
  <2>10. EditsKnown'
    <3>1. ASSUME NEW d \in TokenCallers \ {c}
          PROVE  (Edits(tcall'[d]) <=> Edits(tcall[d])) /\ tcall'[d].id = tcall[d].id
      BY <2>5, <2>6 DEF Edits
    <3>2. ASSUME NEW d \in TokenCallers \ {c}, Edits(tcall[d]), tcall[d].id = t
          PROVE  /\ tcall'[c].form \ tcall'[c].read \subseteq tcall'[d].rival
                 /\ tcall'[d].form \ tcall'[d].read \subseteq tcall'[c].rival
      BY <2>4, <2>5, <2>6, <2>7, <3>2
    <3>3. ASSUME NEW d \in TokenCallers \ {c}, NEW e \in TokenCallers \ {c}, d # e,
                 Edits(tcall[d]), Edits(tcall[e]), tcall[d].id = tcall[e].id
          PROVE  tcall'[d].form \ tcall'[d].read \subseteq tcall'[e].rival
      <4>1. tcall[d].form \ tcall[d].read \subseteq tcall[e].rival
        BY <3>3 DEF TokensInv, EditsKnown
      <4>2. /\ tcall'[d].form = tcall[d].form /\ tcall'[d].read = tcall[d].read
            /\ tcall[e].rival \subseteq tcall'[e].rival
        BY <2>5, <2>6
      <4> QED
        BY <4>1, <4>2
    <3>4. tcall'[c].id = t
      BY <2>4, <2>6
    <3>5. \A d, e \in TokenCallers :
            (d # e /\ Edits(tcall'[d]) /\ Edits(tcall'[e]) /\ tcall'[d].id = tcall'[e].id) =>
              tcall'[d].form \ tcall'[d].read \subseteq tcall'[e].rival
      BY <3>1, <3>2, <3>3, <3>4
    <3> QED
      BY <3>5 DEF EditsKnown, Edits
  <2>11. (Changing(tcall[c]) /\ Current(tcall[c]) /\ Admits(tcall[c]))'
    BY <1>1, <1>4, <2>1, <2>4, <2>6 DEF Changing, Current, Admits, Edits, Deletes, TokenStored
  <2>12. ASSUME NEW d \in TokenCallers \ {c}
         PROVE  (Changing(tcall[d]) /\ Current(tcall[d]) /\ Admits(tcall[d]))'
    <3>1. Changing(tcall[d]) /\ Current(tcall[d]) /\ Admits(tcall[d])
      BY DEF TokensInv, TokenCallsHold
    <3>2. /\ tcall'[d].op = tcall[d].op /\ tcall'[d].pc = tcall[d].pc
          /\ tcall'[d].id = tcall[d].id /\ tcall'[d].read = tcall[d].read
          /\ tcall'[d].form = tcall[d].form /\ tcall'[d].used = tcall[d].used
          /\ tcall'[d].late = tcall[d].late /\ tcall[d].rival \subseteq tcall'[d].rival
      BY <2>5, <2>6
    <3>3. Changing(tcall[d])' /\ Admits(tcall[d])'
      BY <2>1, <3>1, <3>2 DEF Changing, Admits, Edits, Deletes
    <3>4. Current(tcall[d])'
      BY <2>1, <3>1, <3>2 DEF Current, Edits, TokenStored
    <3> QED
      BY <3>3, <3>4
  <2> QED
    BY <2>8, <2>9, <2>10, <2>11, <2>12 DEF TokensInv, TokenCallsHold
<1> QED
  BY <1>3, <1>4

\* An edit writes what differs from its copy: rights that are neither in its form nor
\* in rival are gone then.
LEMMA EditSaveKeeps ==
  ASSUME TokensInv, NEW c \in TokenCallers, EditSave(c)
  PROVE  TokensInv'
<1> DEFINE call == tcall[c]
           own == call.id
<1>1. call \in TokenCallStates /\ Edits(call) /\ Changing(call) /\ Current(call)
  BY TokenCallTyped DEF EditSave, InProgress, Edits, TokensInv, TokenCallsHold
<1>2. own \in TokenIds
  BY <1>1 DEF Changing
<1>3. CASE ~ TokenStored(own)
  BY <1>3, TokenEndsKeeps DEF EditSave
<1>4. CASE TokenStored(own)
  <2>1. /\ token' = [token EXCEPT ![own].rights = Edited(@, call.read, call.form)]
        /\ revoked' = revoked \cup ({own} \X (Rights \ (call.form \cup call.rival)))
        /\ TokenEnds(c, "ok")
    BY <1>4 DEF EditSave
  <2>2. PICK over \in TokenCallStates :
          TokenStep(c, over) /\ over.pc = "done" /\ over.used = {} /\ over.late = {}
    BY <2>1, TokenEndsTyped
  <2>3. /\ tcall' \in [TokenCallers -> TokenCallStates]
        /\ tcall'[c] = over
        /\ \A d \in TokenCallers \ {c} : tcall'[d] = tcall[d]
    BY <2>2 DEF TokensInv, TokensTypeOK, TokenStep
  <2>4. call.form \in SUBSET Rights /\ token[own] \in TokenDocs
    BY <1>1, <1>2 DEF TokenCallStates, TokensInv, TokensTypeOK
  <2> DEFINE new == Edited(token[own].rights, call.read, call.form)
  <2>5. new \in SUBSET Rights
    BY <2>4 DEF Edited, TokenDocs
  <2>6. token' = [token EXCEPT ![own].rights = new]
    BY <2>1
  <2>7. /\ new \subseteq token[own].rights \cup (call.form \ call.read)
        /\ \A x \in new : x \notin call.form => x \in token[own].rights /\ x \notin call.read
    BY DEF Edited
  <2> HIDE DEF new
  <2>8. /\ token' \in [TokenIds -> TokenDocs]
        /\ \A s \in TokenIds \ {own} : token'[s] = token[s]
        /\ token'[own].state = "stored" /\ token'[own].rights = new
    BY <1>2, <1>4, <2>4, <2>5, <2>6 DEF TokensInv, TokensTypeOK, TokenDocs, TokenStored
  <2>9. TokensTypeOK'
    BY <1>2, <2>1, <2>3, <2>8 DEF TokensInv, TokensTypeOK, Needs
  <2>10. /\ \A x \in call.form \ call.read : <<own, x>> \notin revoked
         /\ token[own].rights \ call.read \subseteq call.rival
    BY <1>1, <1>4 DEF Current
  <2>11. \A x \in Needs : <<own, x>> \in revoked' => x \notin new \cup {"known"}
    <3>1. SUFFICES ASSUME NEW x \in Needs, <<own, x>> \in revoked', x \in new \cup {"known"}
                   PROVE  FALSE
      OBVIOUS
    <3>2. CASE <<own, x>> \in revoked
      BY <1>2, <1>4, <2>7, <2>10, <3>1, <3>2 DEF TokensInv, RevokedGone, Held
    <3>3. CASE x \in Rights \ (call.form \cup call.rival)
      BY <2>7, <2>10, <3>1, <3>3 DEF Rights
    <3> QED
      BY <2>1, <3>1, <3>2, <3>3
  <2>12. RevokedGone'
    <3>1. \A s \in TokenIds \ {own}, x \in Needs : <<s, x>> \in revoked' => <<s, x>> \in revoked
      BY <2>1
    <3>2. \A s \in TokenIds \ {own}, x \in Needs :
            <<s, x>> \in revoked' => /\ token'[s].state # "unused"
                                     /\ token'[s].state = "stored" =>
                                          x \notin token'[s].rights \cup {"known"}
      BY <2>8, <3>1 DEF TokensInv, RevokedGone, TokenStored, Held
    <3>3. \A x \in Needs :
            <<own, x>> \in revoked' => /\ token'[own].state # "unused"
                                       /\ token'[own].state = "stored" =>
                                            x \notin token'[own].rights \cup {"known"}
      BY <2>8, <2>11
    <3>4. \A s \in TokenIds : s = own \/ s \in TokenIds \ {own}
      OBVIOUS
    <3>5. \A s \in TokenIds, x \in Needs :
            <<s, x>> \in revoked' => /\ token'[s].state # "unused"
                                     /\ token'[s].state = "stored" =>
                                          x \notin token'[s].rights \cup {"known"}
      BY <3>2, <3>3, <3>4
    <3> QED
      BY <3>5 DEF RevokedGone, TokenStored, Held
  <2>13. EditsKnown'
    BY <2>2, <2>3 DEF TokensInv, EditsKnown, Edits
  <2>14. (Changing(tcall[c]) /\ Current(tcall[c]) /\ Admits(tcall[c]))'
    BY <2>2, <2>3 DEF Changing, Current, Admits, Edits, Deletes
  <2>15. ASSUME NEW d \in TokenCallers \ {c}
         PROVE  (Changing(tcall[d]) /\ Current(tcall[d]) /\ Admits(tcall[d]))'
    <3>1. tcall'[d] = tcall[d] /\ Changing(tcall[d]) /\ Current(tcall[d]) /\ Admits(tcall[d])
      BY <2>3 DEF TokensInv, TokenCallsHold
    <3>2. Changing(tcall[d])' /\ Admits(tcall[d])'
      BY <1>2, <2>8, <3>1 DEF Changing, Admits, Edits, Deletes
    <3>3. ASSUME Edits(tcall[d]), tcall[d].id = own
          PROVE  /\ \A x \in tcall[d].form \ tcall[d].read : <<own, x>> \notin revoked'
                 /\ new \ tcall[d].read \subseteq tcall[d].rival
      <4>1. /\ tcall[d].form \ tcall[d].read \subseteq call.rival
            /\ call.form \ call.read \subseteq tcall[d].rival
        BY <1>1, <3>3 DEF TokensInv, EditsKnown
      <4>2. /\ \A x \in tcall[d].form \ tcall[d].read : <<own, x>> \notin revoked
            /\ token[own].rights \ tcall[d].read \subseteq tcall[d].rival
        BY <1>4, <3>1, <3>3 DEF Current
      <4> QED
        BY <2>1, <2>7, <4>1, <4>2
    <3>4. ASSUME Edits(tcall[d]), tcall[d].id # own, tcall[d].id \in TokenIds
          PROVE  /\ token'[tcall[d].id] = token[tcall[d].id]
                 /\ \A x : <<tcall[d].id, x>> \in revoked' => <<tcall[d].id, x>> \in revoked
      BY <2>1, <2>8, <3>4
    <3>5. Current(tcall[d])'
      <4>1. CASE ~ Edits(tcall[d])
        BY <3>1, <4>1 DEF Current, Edits
      <4>2. CASE Edits(tcall[d]) /\ tcall[d].id = own
        BY <2>8, <3>1, <3>3, <4>2 DEF Current, Edits
      <4>3. CASE Edits(tcall[d]) /\ tcall[d].id # own
        <5>1. tcall[d].id \in TokenIds
          BY <3>1, <4>3 DEF Changing
        <5> QED
          BY <3>1, <3>4, <4>3, <5>1 DEF Current, Edits, TokenStored
      <4> QED
        BY <4>1, <4>2, <4>3
    <3> QED
      BY <3>2, <3>5
  <2> QED
    BY <2>9, <2>12, <2>13, <2>14, <2>15 DEF TokensInv, TokenCallsHold
<1> QED
  BY <1>3, <1>4

LEMMA TokenDeleteKeeps ==
  ASSUME TokensInv, NEW c \in TokenCallers, DeleteTokenRemove(c)
  PROVE  TokensInv'
<1> DEFINE own == tcall[c].id
<1>1. tcall[c] \in TokenCallStates /\ Changing(tcall[c]) /\ Deletes(tcall[c])
  BY TokenCallTyped DEF DeleteTokenRemove, InProgress, Deletes, TokensInv, TokenCallsHold
<1>2. own \in TokenIds
  BY <1>1 DEF Changing
<1>3. /\ token' = [token EXCEPT ![own].state = "removed"]
      /\ revoked' = revoked \cup ({own} \X Needs)
      /\ TokenEnds(c, "ok")
  BY DEF DeleteTokenRemove
<1>4. PICK over \in TokenCallStates :
        TokenStep(c, over) /\ over.pc = "done" /\ over.used = {} /\ over.late = {}
  BY <1>3, TokenEndsTyped
<1>5. /\ tcall' \in [TokenCallers -> TokenCallStates]
      /\ tcall'[c] = over
      /\ \A d \in TokenCallers \ {c} : tcall'[d] = tcall[d]
  BY <1>4 DEF TokensInv, TokensTypeOK, TokenStep
<1>6. /\ token' \in [TokenIds -> TokenDocs]
      /\ \A s \in TokenIds \ {own} : token'[s] = token[s]
      /\ token'[own].state = "removed"
  BY <1>2, <1>3 DEF TokensInv, TokensTypeOK, TokenDocs
<1>7. TokensTypeOK'
  BY <1>2, <1>3, <1>5, <1>6 DEF TokensInv, TokensTypeOK
<1>8. RevokedGone'
  <2>1. \A s \in TokenIds \ {own}, x \in Needs : <<s, x>> \in revoked' => <<s, x>> \in revoked
    BY <1>3
  <2>2. \A s \in TokenIds \ {own}, x \in Needs :
          <<s, x>> \in revoked' => /\ token'[s].state # "unused"
                                   /\ token'[s].state = "stored" =>
                                        x \notin token'[s].rights \cup {"known"}
    BY <1>6, <2>1 DEF TokensInv, RevokedGone, TokenStored, Held
  <2>3. \A s \in TokenIds : s = own \/ s \in TokenIds \ {own}
    OBVIOUS
  <2>4. \A s \in TokenIds, x \in Needs :
          <<s, x>> \in revoked' => /\ token'[s].state # "unused"
                                   /\ token'[s].state = "stored" =>
                                        x \notin token'[s].rights \cup {"known"}
    BY <1>6, <2>2, <2>3
  <2> QED
    BY <2>4 DEF RevokedGone, TokenStored, Held
<1>9. EditsKnown'
  BY <1>4, <1>5 DEF TokensInv, EditsKnown, Edits
<1>10. (Changing(tcall[c]) /\ Current(tcall[c]) /\ Admits(tcall[c]))'
  BY <1>4, <1>5 DEF Changing, Current, Admits, Edits, Deletes
<1>11. ASSUME NEW d \in TokenCallers \ {c}
       PROVE  (Changing(tcall[d]) /\ Current(tcall[d]) /\ Admits(tcall[d]))'
  <2>1. tcall'[d] = tcall[d] /\ Changing(tcall[d]) /\ Current(tcall[d]) /\ Admits(tcall[d])
    BY <1>5 DEF TokensInv, TokenCallsHold
  <2>2. Changing(tcall[d])' /\ Admits(tcall[d])'
    BY <1>2, <1>6, <2>1 DEF Changing, Admits, Edits, Deletes
  <2>3. Current(tcall[d])'
    <3>1. CASE ~ Edits(tcall[d])
      BY <2>1, <3>1 DEF Current, Edits
    <3>2. CASE Edits(tcall[d]) /\ tcall[d].id = own
      BY <1>6, <2>1, <3>2 DEF Current, TokenStored
    <3>3. CASE Edits(tcall[d]) /\ tcall[d].id # own
      <4>1. tcall[d].id \in TokenIds
        BY <2>1, <3>3 DEF Changing
      <4>2. /\ token'[tcall[d].id] = token[tcall[d].id]
            /\ \A x : <<tcall[d].id, x>> \in revoked' => <<tcall[d].id, x>> \in revoked
        BY <1>3, <1>6, <3>3, <4>1
      <4> QED
        BY <2>1, <3>3, <4>2 DEF Current, Edits, TokenStored
    <3> QED
      BY <3>1, <3>2, <3>3
  <2> QED
    BY <2>2, <2>3
<1> QED
  BY <1>7, <1>8, <1>9, <1>10, <1>11 DEF TokensInv, TokenCallsHold

\* The requests about one token that begin.
LEMMA TokenNamedBeginsKeep ==
  ASSUME TokensInv, NEW c \in TokenCallers, NEW t \in TokenIds,
         DeleteTokenBegin(c, t) \/ ShowToken(c, t)
  PROVE  TokensInv'
<1>1. /\ tcall[c] \in TokenCallStates /\ Admits(tcall[c]) /\ tcall[c].pc = "idle"
      /\ UNCHANGED <<token, revoked>>
  BY TokenCallTyped DEF DeleteTokenBegin, ShowToken, TokenArrives, IsNext
<1>2. CASE TokenStored(t) /\ TokenStep(c, GoesTo(TokenOp(c, "delete", t), "remove"))
  <2> DEFINE r == GoesTo(TokenOp(c, "delete", t), "remove")
  <2>1. /\ r \in TokenCallStates /\ r.op = "delete" /\ r.pc = "remove" /\ r.id = t
        /\ r.used = tcall[c].used
    BY <1>1 DEF GoesTo, TokenOp, TokenCallStates, TokenOps
  <2>2. TokenStep(c, r)
    BY <1>2
  <2> HIDE DEF r
  <2>3. ~ Edits(r) /\ Changing(r) /\ Admits(r)
    BY <1>1, <1>2, <2>1 DEF Edits, Deletes, Changing, Admits, TokenStored
  <2> QED
    BY <1>1, <2>1, <2>2, <2>3, TokenStepKeeps
<1>3. CASE DeleteTokenBegin(c, t)
  BY <1>1, <1>2, <1>3, TokenAtOnceKeeps DEF DeleteTokenBegin, TokenArrives, TokenOps
<1>4. CASE ShowToken(c, t)
  BY <1>1, <1>4, TokenAtOnceKeeps DEF ShowToken, TokenArrives, TokenOps
<1> QED
  BY <1>3, <1>4

LEMMA CoreBeginKeeps ==
  ASSUME TokensInv, NEW c \in TokenCallers, NEW t \in TokenIds,
         NEW o \in {"push", "pull", "subscribe"}, NEW l \in {"user", "gate", "open"},
         CoreBegin(c, o, t, l)
  PROVE  TokensInv'
<1>1. CoreBegin(c, o, t, l)
  OBVIOUS
<1>2. /\ tcall[c] \in TokenCallStates /\ Admits(tcall[c]) /\ tcall[c].pc = "idle"
      /\ UNCHANGED <<token, revoked>>
  BY <1>1, TokenCallTyped DEF CoreBegin, TokenArrives, IsNext
<1>3. CASE ~ TokenStored(t)
  BY <1>1, <1>2, <1>3, TokenAtOnceKeeps DEF CoreBegin, TokenArrives, TokenOps
<1>4. CASE TokenStored(t)
  <2> DEFINE r == [TokenOp(c, o, t) EXCEPT !.pc = l, !.read = Held(t),
                                           !.late = LateRights(t)]
  <2>1. /\ Held(t) \in SUBSET Needs /\ LateRights(t) \in SUBSET Needs
        /\ "known" \in Held(t)
    BY DEF TokensInv, TokensTypeOK, TokenDocs, LateRights, Held, Needs
  <2>2. /\ r \in TokenCallStates /\ r.op = o /\ r.pc = l /\ r.read = Held(t)
        /\ r.late = LateRights(t) /\ r.used = tcall[c].used
    BY <1>2, <2>1 DEF TokenOp, TokenCallStates, TokenOps
  <2>3. TokenStep(c, r)
    BY <1>1, <1>4 DEF CoreBegin, TokenArrives
  <2> HIDE DEF r
  <2>4. Held(t) \cap LateRights(t) = {}
    BY <1>4 DEF TokensInv, RevokedGone, LateRights
  <2>5. ~ Edits(r) /\ Changing(r) /\ Admits(r)
    BY <1>2, <2>1, <2>2, <2>4 DEF Edits, Deletes, Changing, Admits
  <2> QED
    BY <1>2, <2>2, <2>3, <2>5, TokenStepKeeps
<1> QED
  BY <1>3, <1>4

LEMMA CoreStepKeeps ==
  ASSUME TokensInv, NEW c \in TokenCallers,
         HttpUser(c) \/ Gate(c) \/ GateQueue(c) \/ OpenStream(c)
  PROVE  TokensInv'
<1>1. /\ tcall[c] \in TokenCallStates /\ Admits(tcall[c])
      /\ tcall[c].pc \in {"user", "gate", "find", "open"} /\ UNCHANGED <<token, revoked>>
  BY TokenCallTyped DEF HttpUser, Gate, GateQueue, OpenStream
<1>2. /\ tcall[c].used \subseteq tcall[c].read /\ tcall[c].read \cap tcall[c].late = {}
      /\ tcall[c].read \in SUBSET Needs /\ "known" \in tcall[c].read
  BY <1>1 DEF Admits, TokenCallStates
<1>3. CASE TokenEnds(c, "failed") \/ TokenEnds(c, "unanswered")
  BY <1>1, <1>3, TokenEndsKeeps
<1>4. CASE HttpUser(c)
  <2> DEFINE r == GoesTo(tcall[c], "gate")
  <2>1. /\ r \in TokenCallStates /\ r.pc = "gate" /\ r.used = tcall[c].used
        /\ r.read = tcall[c].read /\ r.late = tcall[c].late
    BY <1>1 DEF GoesTo, TokenCallStates
  <2>2. TokenStep(c, r)
    BY <1>4 DEF HttpUser
  <2> HIDE DEF r
  <2>3. ~ Edits(r) /\ Changing(r) /\ Admits(r)
    BY <1>2, <2>1 DEF Edits, Deletes, Changing, Admits
  <2> QED
    BY <1>1, <2>1, <2>2, <2>3, TokenStepKeeps
<1>5. ASSUME NEW l \in {"find", "stream"}, NEW needs \in SUBSET tcall[c].read,
             TokenStep(c, [tcall[c] EXCEPT !.pc = l, !.used = needs])
      PROVE  TokensInv'
  <2> DEFINE r == [tcall[c] EXCEPT !.pc = l, !.used = needs]
  <2>1. /\ r \in TokenCallStates /\ r.pc = l /\ r.used \subseteq tcall[c].read
        /\ r.read = tcall[c].read /\ r.late = tcall[c].late
    BY <1>1, <1>2, <1>5 DEF TokenCallStates
  <2>2. TokenStep(c, r)
    BY <1>5
  <2> HIDE DEF r
  <2>3. ~ Edits(r) /\ Changing(r) /\ Admits(r)
    BY <1>2, <2>1 DEF Edits, Deletes, Changing, Admits
  <2> QED
    BY <1>1, <2>1, <2>2, <2>3, TokenStepKeeps
<1>6. ASSUME NEW needs \in SUBSET tcall[c].read,
             TokenStep(c, Ends([Forgets(tcall[c]) EXCEPT !.used = @ \cup needs], "admitted"))
      PROVE  TokensInv'
  <2> DEFINE r == Ends([Forgets(tcall[c]) EXCEPT !.used = tcall[c].used \cup needs], "admitted")
  <2>1. /\ r \in TokenCallStates /\ r.pc = "done" /\ r.used = tcall[c].used \cup needs
        /\ r.late = tcall[c].late
    BY <1>1, <1>2 DEF Ends, Forgets, TokenCallStates
  <2>2. Forgets(tcall[c]).used = tcall[c].used
    BY <1>1 DEF Forgets, TokenCallStates
  <2>3. TokenStep(c, r)
    BY <1>6, <2>2
  <2> HIDE DEF r
  <2>4. ~ Edits(r) /\ Changing(r) /\ Admits(r)
    BY <1>2, <2>1 DEF Edits, Deletes, Changing, Admits
  <2> QED
    BY <1>1, <2>1, <2>3, <2>4, TokenStepKeeps
<1>7. CASE Gate(c)
  <2>1. CASE /\ {"active", tcall[c].op} \subseteq tcall[c].read
             /\ TokenStep(c, [tcall[c] EXCEPT !.pc = "find",
                                              !.used = {"known", "active", tcall[c].op}])
    <3>1. {"known", "active", tcall[c].op} \in SUBSET tcall[c].read
      BY <1>2, <2>1
    <3> QED
      BY <1>5, <2>1, <3>1
  <2> QED
    BY <1>3, <1>7, <2>1 DEF Gate
<1>8. CASE GateQueue(c)
  <2>1. \/ TokenEnds(c, "failed")
        \/ \E needs \in SUBSET tcall[c].read :
             TokenStep(c, Ends([Forgets(tcall[c]) EXCEPT !.used = @ \cup needs], "admitted"))
    BY <1>8 DEF GateQueue
  <2> QED
    BY <1>3, <1>6, <2>1
<1>9. CASE OpenStream(c)
  <2>1. {"known"} \in SUBSET tcall[c].read
    BY <1>2
  <2> QED
    BY <1>3, <1>5, <1>9, <2>1 DEF OpenStream
<1> QED
  BY <1>4, <1>7, <1>8, <1>9

\* A stream pulls on with what it was opened with.
LEMMA StreamPullKeeps ==
  ASSUME TokensInv, NEW c \in TokenCallers, StreamPull(c)
  PROVE  TokensInv'
<1>1. /\ tcall[c] \in TokenCallStates /\ Admits(tcall[c]) /\ tcall[c].pc = "stream"
      /\ UNCHANGED <<token, revoked>>
  BY TokenCallTyped DEF StreamPull
<1>2. CASE TokenEnds(c, "ok")
  BY <1>1, <1>2, TokenEndsKeeps
<1>3. CASE TokenStep(c, [tcall[c] EXCEPT !.answer = "admitted"])
  <2> DEFINE r == [tcall[c] EXCEPT !.answer = "admitted"]
  <2>1. /\ r \in TokenCallStates /\ r.pc = "stream" /\ r.used = tcall[c].used
        /\ r.late = tcall[c].late
    BY <1>1 DEF TokenCallStates
  <2>2. TokenStep(c, r)
    BY <1>3
  <2> HIDE DEF r
  <2>3. ~ Edits(r) /\ Changing(r) /\ Admits(r)
    BY <1>1, <2>1 DEF Edits, Deletes, Changing, Admits
  <2> QED
    BY <1>1, <2>1, <2>2, <2>3, TokenStepKeeps
<1> QED
  BY <1>2, <1>3 DEF StreamPull

-----------------------------------------------------------------------------
LEMMA TokensInvInit == TokensInit => TokensInv
<1> SUFFICES ASSUME TokensInit PROVE TokensInv
  OBVIOUS
<1>1. \A f \in Forms : f \in SUBSET Rights
  BY TokensAssumption
<1>2. /\ revoked = {} /\ token \in [TokenIds -> TokenDocs]
      /\ tcall \in [TokenCallers -> TokenCallStates]
      /\ \A c \in TokenCallers : tcall[c].op = "none" /\ tcall[c].pc = "idle" /\
           tcall[c].used = {}
  BY <1>1 DEF TokensInit, TokenDocs, TokenCallStates
<1>3. TokensTypeOK /\ RevokedGone
  BY <1>2 DEF TokensTypeOK, RevokedGone
<1>4. TokenCallsHold /\ EditsKnown
  BY <1>2 DEF TokenCallsHold, EditsKnown, Changing, Current, Admits, Edits, Deletes
<1> QED
  BY <1>3, <1>4 DEF TokensInv

LEMMA TokensInvNext == TokensInv /\ [TokensNext]_tokenVars => TokensInv'
<1> SUFFICES ASSUME TokensInv, [TokensNext]_tokenVars PROVE TokensInv'
  OBVIOUS
<1>1. CASE UNCHANGED tokenVars
  BY <1>1 DEF tokenVars, TokensInv, TokensTypeOK, TokenCallsHold, EditsKnown, RevokedGone,
     Changing, Current,
              Admits, TokenStored, Held
<1>2. CASE TokensNext
  <2>1. CASE \E c \in TokenCallers, t \in TokenIds, form \in Forms : EditBegin(c, t, form)
    BY <2>1, EditBeginKeeps
  <2>2. CASE \E c \in TokenCallers, form \in Forms : CreateTokenBegin(c, form)
    BY <2>2, TokenCreateKeeps
  <2>3. CASE \E c \in TokenCallers, t \in TokenIds :
               DeleteTokenBegin(c, t) \/ ShowToken(c, t) \/ SubscribeBegin(c, t)
    BY <2>3, TokenNamedBeginsKeep, CoreBeginKeeps DEF SubscribeBegin
  <2>4. CASE \E c \in TokenCallers, t \in TokenIds, o \in {"push", "pull"} :
               HttpBegin(c, o, t) \/ GrpcBegin(c, o, t)
    BY <2>4, CoreBeginKeeps DEF HttpBegin, GrpcBegin
  <2>5. CASE \E c \in TokenCallers : ListTokens(c)
    <3>1. PICK c \in TokenCallers : ListTokens(c)
      BY <2>5
    <3>2. tcall[c].pc = "idle" /\ UNCHANGED <<token, revoked>>
      BY <3>1 DEF ListTokens, TokenArrives, IsNext
    <3> QED
      BY <3>1, <3>2, TokenAtOnceKeeps DEF ListTokens, TokenArrives, TokenOps
  <2>6. CASE \E c \in TokenCallers :
               \/ CreateTokenSave(c) \/ EditSave(c) \/ DeleteTokenRemove(c)
               \/ HttpUser(c) \/ Gate(c) \/ GateQueue(c) \/ OpenStream(c) \/ StreamPull(c)
    BY <2>6, TokenCreateKeeps, EditSaveKeeps, TokenDeleteKeeps, CoreStepKeeps,
       StreamPullKeeps
  <2> QED
    BY <1>2, <2>1, <2>2, <2>3, <2>4, <2>5, <2>6 DEF TokensNext
<1> QED
  BY <1>1, <1>2

\* However many requests and tokens there are: a push or pull is never admitted by a
\* right that was taken from its token before it began, and no stream is opened with a
\* token that was removed before (access_token.js, core.js, proto/server.js).  What an
\* open stream pulls is not asked again, and no theorem says so.
THEOREM RevokedIsRefusedHolds == TokensSpec => []RevokedIsRefused
<1>1. TokensInv => RevokedIsRefused
  BY DEF TokensInv, TokenCallsHold, Admits, RevokedIsRefused
<1> QED
  BY <1>1, TokensInvInit, TokensInvNext, PTL DEF TokensSpec

-----------------------------------------------------------------------------
(* Accounts. *)

\* What a request holds when it writes: the user it works on; a new password that was
\* not hashed yet; and, unless its user is muddled, the quota that it topped up.
Prepared(r) ==
  /\ r.pc \in {"find", "stamp", "mail", "save"} => r.id \in AccountIds
  /\ r.pc = "insert" => r.read.stored /\ r.read.password.hashed = 0
  /\ r.op \in {"reset", "password"} /\ r.pc = "save" =>
       r.read.password.hashed = 0 /\ r.read.password.word # NoWord

ToppedUp(r) ==
  r.op = "topUp" /\ r.pc = "save" =>
    /\ account[r.id].stored
    /\ r.id \notin muddled /\ ~ r.form /\ r.amount # 0 =>
         r.read.quota = account[r.id].quota + r.amount

RequestsHold == \A c \in AccountCallers : Prepared(acall[c]) /\ ToppedUp(acall[c])

AccountsInv == AccountsTypeOK /\ RequestsHold /\ CredentialsSound /\ QuotaAddsUp

-----------------------------------------------------------------------------
LEMMA RequestMoves ==
  ASSUME NEW c \in AccountCallers, AccountsTypeOK, NEW r \in AccountCallStates, Recalls(c, r)
  PROVE  /\ acall' \in [AccountCallers -> AccountCallStates]
         /\ acall'[c] = r
         /\ \A d \in AccountCallers \ {c} : acall'[d] = acall[d]
BY DEF AccountsTypeOK, Recalls

LEMMA DocsTyped ==
  /\ NoAccount \in AccountDocs /\ ~ NoAccount.stored /\ NoAccount.quota = 0
  /\ NoAccount.email = NoEmail /\ NoAccount.social = NoSocial
  /\ NoAccount.password = [word |-> NoWord, hashed |-> 0]
  /\ NoRequest \in AccountCallStates /\ NoRequest.pc = "idle" /\ NoRequest.read = NoAccount
<1>1. NoAccount \in AccountDocs /\ ~ NoAccount.stored /\ NoAccount.quota = 0
      /\ NoAccount.email = NoEmail /\ NoAccount.social = NoSocial
      /\ NoAccount.password = [word |-> NoWord, hashed |-> 0]
  BY DEF NoAccount, AccountDocs
<1> HIDE DEF NoAccount
<1>2. NoRequest \in AccountCallStates /\ NoRequest.pc = "idle" /\ NoRequest.read = NoAccount
  BY <1>1 DEF NoRequest, AccountCallStates
<1> QED
  BY <1>1, <1>2

\* A request that is over holds nothing.
LEMMA OverTyped ==
  ASSUME NEW a \in {"ok", "failed", "unanswered"}
  PROVE  Outcome(a) \in AccountCallStates /\ Outcome(a).pc = "done"
BY DocsTyped DEF Outcome, Ends, AccountCallStates

\* A request goes on and writes nothing but, at most, the users that were mailed a code.
LEMMA RequestKeeps ==
  ASSUME NEW c \in AccountCallers, AccountsInv, NEW r \in AccountCallStates, Recalls(c, r),
         UNCHANGED <<account, lastWord, charges, due, muddled>>, coded' \subseteq AccountIds,
         Prepared(r), ToppedUp(r)
  PROVE  AccountsInv'
<1>1. /\ acall' \in [AccountCallers -> AccountCallStates]
      /\ acall'[c] = r
      /\ \A d \in AccountCallers \ {c} : acall'[d] = acall[d]
  BY RequestMoves DEF AccountsInv
<1>2. AccountsTypeOK'
  BY <1>1 DEF AccountsInv, AccountsTypeOK
<1>3. RequestsHold'
  BY <1>1 DEF AccountsInv, RequestsHold, Prepared, ToppedUp
<1>4. CredentialsSound' /\ QuotaAddsUp'
  BY DEF AccountsInv, CredentialsSound, PasswordIsTheLast, IdentitiesDiffer, QuotaAddsUp
<1> QED
  BY <1>2, <1>3, <1>4 DEF AccountsInv

LEMMA RequestEnds ==
  ASSUME NEW c \in AccountCallers, AccountsInv,
         NEW a \in {"ok", "failed", "unanswered"}, Recalls(c, Outcome(a)),
         UNCHANGED <<account, lastWord, charges, due, muddled>>, coded' \subseteq AccountIds
  PROVE  AccountsInv'
<1> DEFINE r == Outcome(a)
<1>1. r \in AccountCallStates /\ r.pc = "done"
  BY OverTyped
<1>2. Recalls(c, r)
  OBVIOUS
<1> HIDE DEF r
<1> QED
  BY <1>1, <1>2, RequestKeeps DEF Prepared, ToppedUp

-----------------------------------------------------------------------------
Passwords == [word : Words \cup {NoWord, ShortWord}, hashed : Nat]

\* The hook puts a password through the hash once more.
LEMMA HashTyped ==
  ASSUME NEW p \in Passwords
  PROVE  Hash(p) \in Passwords /\ Hash(p).word = p.word /\ Hash(p).hashed = p.hashed + 1
BY DEF Hash, Passwords

LEMMA PlainTyped ==
  ASSUME NEW w \in Words \cup {ShortWord}
  PROVE  /\ Plain(w) \in Passwords
         /\ Plain(w).word = w /\ Plain(w).word # NoWord /\ Plain(w).hashed = 0
BY AccountsAssumption DEF Plain, Passwords

LEMMA DocFields ==
  ASSUME NEW doc \in AccountDocs
  PROVE  /\ doc.stored \in BOOLEAN /\ doc.email \in Emails \cup {NoEmail}
         /\ doc.social \in SocialIds \cup {NoSocial}
         /\ doc.password \in Passwords /\ doc.quota \in Int
BY DEF AccountDocs, Passwords

\* What a save writes, and what it leaves.
LEMMA Saved ==
  ASSUME AccountsTypeOK, NEW u \in AccountIds, NEW doc \in AccountDocs, NEW paths,
         account' = SavedPaths(u, doc, paths)
  PROVE  /\ account' \in [AccountIds -> AccountDocs]
         /\ \A v \in AccountIds \ {u} : account'[v] = account[v]
         /\ account'[u].stored = account[u].stored
         /\ account'[u].social = account[u].social
         /\ account'[u].email = IF "email" \in paths THEN doc.email ELSE account[u].email
         /\ account'[u].password =
              IF "password" \in paths THEN Hash(doc.password) ELSE account[u].password
         /\ account'[u].quota = IF "quota" \in paths THEN doc.quota ELSE account[u].quota
<1> DEFINE e == IF "email" \in paths THEN doc.email ELSE account[u].email
           p == IF "password" \in paths THEN Hash(doc.password) ELSE account[u].password
           q == IF "quota" \in paths THEN doc.quota ELSE account[u].quota
<1>1. account \in [AccountIds -> AccountDocs]
  BY DEF AccountsTypeOK
<1>2. e \in Emails \cup {NoEmail} /\ p \in Passwords /\ q \in Int
  BY <1>1, DocFields, HashTyped
<1> DEFINE f == [account EXCEPT ![u].email = e]
           g == [f EXCEPT ![u].password = p]
<1>3. account' = [g EXCEPT ![u].quota = q]
  <2>1. f \in [AccountIds -> AccountDocs] /\ f[u].password = account[u].password
        /\ f[u].quota = account[u].quota
    <3> HIDE DEF e
    <3> QED
      BY <1>1, <1>2 DEF AccountDocs, Passwords
  <2>2. g[u].quota = account[u].quota
    <3> HIDE DEF f, p
    <3> QED
      BY <2>1, <1>2 DEF AccountDocs, Passwords
  <2>3. account' = [[[account EXCEPT ![u].email = e] EXCEPT ![u].password =
                        IF "password" \in paths THEN Hash(doc.password) ELSE f[u].password]
                      EXCEPT ![u].quota = IF "quota" \in paths THEN doc.quota
                                          ELSE [f EXCEPT ![u].password =
                        IF "password" \in paths THEN Hash(doc.password)
                          ELSE f[u].password][u].quota]
    BY DEF SavedPaths
  <2> QED
    BY <2>1, <2>2, <2>3
<1> HIDE DEF e, p, q
<1>4. /\ f \in [AccountIds -> AccountDocs]
      /\ \A v \in AccountIds \ {u} : f[v] = account[v]
      /\ f[u].stored = account[u].stored /\ f[u].social = account[u].social
      /\ f[u].email = e
  BY <1>1, <1>2 DEF AccountDocs
<1>5. /\ g \in [AccountIds -> AccountDocs]
      /\ \A v \in AccountIds \ {u} : g[v] = f[v]
      /\ g[u].stored = f[u].stored /\ g[u].social = f[u].social
      /\ g[u].email = f[u].email /\ g[u].password = p
  <2> HIDE DEF f
  <2> QED
    BY <1>4, <1>2 DEF AccountDocs, Passwords
<1>6. /\ account' \in [AccountIds -> AccountDocs]
      /\ \A v \in AccountIds \ {u} : account'[v] = g[v]
      /\ account'[u].stored = g[u].stored /\ account'[u].social = g[u].social
      /\ account'[u].email = g[u].email /\ account'[u].password = g[u].password
      /\ account'[u].quota = q
  <2> HIDE DEF f, g
  <2> QED
    BY <1>5, <1>3, <1>2 DEF AccountDocs
<1> HIDE DEF f, g
<1> QED
  BY <1>4, <1>5, <1>6 DEF e, p, q

\* A save of other paths leaves the documents as they are, whatever copy it holds.
LEMMA SavedNothing ==
  ASSUME AccountsTypeOK, NEW u \in AccountIds, NEW doc, NEW paths,
         "email" \notin paths, "password" \notin paths, "quota" \notin paths
  PROVE  SavedPaths(u, doc, paths) = account
BY DEF SavedPaths, AccountsTypeOK, AccountDocs

-----------------------------------------------------------------------------
\* A new document holds a password that was not hashed yet.
Draft(doc) == doc \in AccountDocs /\ doc.stored /\ doc.password.hashed = 0

LEMMA RegisteredTyped ==
  ASSUME NEW e \in Emails, NEW w \in Words \cup {ShortWord}
  PROVE  Draft(Registered(e, w))
<1>1. FreeQuota \in Int
  BY AccountsAssumption
<1>2. Plain(w) \in Passwords /\ Plain(w).hashed = 0
  BY PlainTyped
<1> QED
  BY <1>1, <1>2, DocsTyped DEF Registered, Draft, AccountDocs, Passwords

LEMMA SocialTyped ==
  ASSUME NEW e \in Emails \cup {NoEmail}, NEW s \in SocialIds
  PROVE  /\ Draft([NoAccount EXCEPT !.stored = TRUE, !.email = e, !.social = s])
         /\ Draft([NoAccount EXCEPT !.stored = TRUE, !.social = s, !.quota = FreeQuota])
<1>1. FreeQuota \in Int
  BY AccountsAssumption
<1>2. NoAccount \in AccountDocs /\ NoAccount.password.hashed = 0
  BY DocsTyped
<1>3. Draft([NoAccount EXCEPT !.stored = TRUE, !.email = e, !.social = s])
  BY <1>2 DEF Draft, AccountDocs
<1>4. Draft([NoAccount EXCEPT !.stored = TRUE, !.social = s, !.quota = FreeQuota])
  BY <1>1, <1>2 DEF Draft, AccountDocs
<1> QED
  BY <1>3, <1>4

LEMMA RequestTyped ==
  ASSUME NEW o \in AccountOps
  PROVE  /\ Request(o) \in AccountCallStates /\ Request(o).op = o
         /\ Request(o).amount = 0 /\ ~ Request(o).form
<1>1. NoRequest.amount = 0 /\ ~ NoRequest.form
  BY DEF NoRequest
<1> QED
  BY <1>1, DocsTyped DEF Request, AccountCallStates

\* A request goes on with a new document.
LEMMA DraftKeeps ==
  ASSUME NEW c \in AccountCallers, AccountsInv, NEW o \in AccountOps, NEW doc, Draft(doc),
         Recalls(c, [Request(o) EXCEPT !.pc = "insert", !.read = doc]), OnlyCalls
  PROVE  AccountsInv'
<1> DEFINE q == Request(o)
           r == [q EXCEPT !.pc = "insert", !.read = doc]
<1>1. q \in AccountCallStates
  BY RequestTyped
<1>2. r \in AccountCallStates /\ r.pc = "insert" /\ r.read = doc
  <2> HIDE DEF q
  <2> QED
    BY <1>1 DEF Draft, AccountCallStates
<1>3. Recalls(c, r)
  OBVIOUS
<1>4. UNCHANGED <<account, lastWord, charges, due, muddled>> /\ coded' \subseteq AccountIds
  BY DEF OnlyCalls, NoQuotaWritten, AccountsInv, AccountsTypeOK
<1> HIDE DEF q, r
<1>5. Prepared(r) /\ ToppedUp(r)
  BY <1>2 DEF Prepared, ToppedUp, Draft
<1> QED
  BY <1>2, <1>3, <1>4, <1>5, RequestKeeps

\* A request that is answered in its first step.
LEMMA AnsweredKeeps ==
  ASSUME NEW c \in AccountCallers, AccountsInv,
         NEW a \in {"ok", "failed", "unanswered"}, Requests(c, Outcome(a)), OnlyCalls
  PROVE  AccountsInv'
<1>1. UNCHANGED <<account, lastWord, charges, due, muddled>> /\ coded' \subseteq AccountIds
  BY DEF OnlyCalls, NoQuotaWritten, AccountsInv, AccountsTypeOK
<1> QED
  BY <1>1, RequestEnds DEF Requests

LEMMA NewUsersKeep ==
  ASSUME AccountsInv, NEW c \in AccountCallers,
         \/ \E e \in Emails, w \in Words \cup {ShortWord} : RegisterBegin(c, e, w)
         \/ \E s \in GoogleIds, e \in Emails \cup {NoEmail} : GoogleBegin(c, e, s)
         \/ \E s \in PassportIds : PassportBegin(c, s)
  PROVE  AccountsInv'
<1>1. ASSUME NEW e \in Emails, NEW w \in Words \cup {ShortWord}, RegisterBegin(c, e, w)
      PROVE  AccountsInv'
  <2>1. CASE Rejects(c)
    BY <1>1, <2>1, AnsweredKeeps DEF RegisterBegin, Rejects
  <2>2. CASE InsertsNext(c, Registered(e, w))
    BY <1>1, <2>2, RegisteredTyped, DraftKeeps
       DEF RegisterBegin, InsertsNext, Requests, AccountOps
  <2> QED
    BY <1>1, <2>1, <2>2 DEF RegisterBegin
<1>2. ASSUME NEW s \in GoogleIds, NEW e \in Emails \cup {NoEmail}, GoogleBegin(c, e, s)
      PROVE  AccountsInv'
  <2>1. s \in SocialIds
    BY DEF SocialIds
  <2>2. ASSUME NEW a \in {"ok", "failed", "unanswered"}, Requests(c, Outcome(a))
        PROVE  AccountsInv'
    BY <1>2, <2>2, AnsweredKeeps DEF GoogleBegin
  <2>3. CASE Requests(c, [Request("google") EXCEPT !.pc = "insert",
                !.read = [NoAccount EXCEPT !.stored = TRUE, !.email = e, !.social = s]])
    BY <1>2, <2>1, <2>3, SocialTyped, DraftKeeps DEF GoogleBegin, Requests, AccountOps
  <2> QED
    BY <1>2, <2>2, <2>3 DEF GoogleBegin, TokenChecks
<1>3. ASSUME NEW s \in PassportIds, PassportBegin(c, s)
      PROVE  AccountsInv'
  <2>1. s \in SocialIds
    BY DEF SocialIds
  <2>2. CASE Requests(c, Outcome("ok"))
    BY <1>3, <2>2, AnsweredKeeps DEF PassportBegin
  <2>3. CASE Requests(c, [Request("passport") EXCEPT !.pc = "insert",
                !.read = [NoAccount EXCEPT !.stored = TRUE, !.social = s, !.quota = FreeQuota]])
    BY <1>3, <2>1, <2>3, SocialTyped, DraftKeeps DEF PassportBegin, Requests, AccountOps
  <2> QED
    BY <1>3, <2>2, <2>3 DEF PassportBegin
<1> QED
  BY <1>1, <1>2, <1>3

-----------------------------------------------------------------------------
\* A request that has read a user goes on with the copy.
LEMMA LoadKeeps ==
  ASSUME NEW c \in AccountCallers, AccountsInv, NEW o \in {"login", "remind"},
         NEW l \in {"stamp", "mail"}, NEW u \in AccountIds, Loads(c, o, l, u), OnlyCalls
  PROVE  AccountsInv'
<1> DEFINE q == Request(o)
           r == [q EXCEPT !.pc = l, !.id = u, !.read = account[u]]
<1>1. q \in AccountCallStates /\ account[u] \in AccountDocs
  BY RequestTyped DEF AccountOps, AccountsInv, AccountsTypeOK
<1>2. r \in AccountCallStates /\ r.pc = l /\ r.id = u
  <2> HIDE DEF q
  <2> QED
    BY <1>1 DEF AccountCallStates
<1>3. Recalls(c, r)
  BY DEF Loads, Requests
<1>4. UNCHANGED <<account, lastWord, charges, due, muddled>> /\ coded' \subseteq AccountIds
  BY DEF OnlyCalls, NoQuotaWritten, AccountsInv, AccountsTypeOK
<1> HIDE DEF q, r
<1>5. Prepared(r) /\ ToppedUp(r)
  BY <1>2 DEF Prepared, ToppedUp
<1> QED
  BY <1>2, <1>3, <1>4, <1>5, RequestKeeps

\* One that is to save a password holds it as it was given.
LEMMA PasswordKeeps ==
  ASSUME NEW c \in AccountCallers, AccountsInv, NEW o \in {"reset", "password"},
         NEW u \in AccountIds, NEW w \in Words \cup {ShortWord},
         Requests(c, [Request(o) EXCEPT !.pc = "save", !.id = u,
                        !.read = [account[u] EXCEPT !.password = Plain(w)]]),
         OnlyCalls
  PROVE  AccountsInv'
<1> DEFINE q == Request(o)
           d == [account[u] EXCEPT !.password = Plain(w)]
           r == [q EXCEPT !.pc = "save", !.id = u, !.read = d]
<1>1. q \in AccountCallStates /\ q.op = o /\ account[u] \in AccountDocs
  BY RequestTyped DEF AccountOps, AccountsInv, AccountsTypeOK
<1>2. d \in AccountDocs /\ d.password = Plain(w)
  BY <1>1, PlainTyped DEF AccountDocs, Passwords
<1>3. r \in AccountCallStates /\ r.pc = "save" /\ r.id = u /\ r.read = d /\ r.op = o
  <2> HIDE DEF q, d
  <2> QED
    BY <1>1, <1>2 DEF AccountCallStates
<1>4. Recalls(c, r)
  BY DEF Requests
<1>5. UNCHANGED <<account, lastWord, charges, due, muddled>> /\ coded' \subseteq AccountIds
  BY DEF OnlyCalls, NoQuotaWritten, AccountsInv, AccountsTypeOK
<1> HIDE DEF q, d, r
<1>6. Prepared(r) /\ ToppedUp(r)
  BY <1>2, <1>3, PlainTyped DEF Prepared, ToppedUp
<1> QED
  BY <1>3, <1>4, <1>5, <1>6, RequestKeeps

LEMMA LooksKeep ==
  ASSUME AccountsInv, NEW c \in AccountCallers,
         \/ \E e \in Emails : CheckEmail(c, e)
         \/ \E s \in GoogleIds : CheckAccessToken(c, s)
         \/ \E u \in AccountIds : ShowAccount(c, u)
  PROVE  AccountsInv'
<1>1. \E a \in {"ok", "failed", "unanswered"} : Looks(c, a)
  <2>1. ASSUME NEW e \in Emails, CheckEmail(c, e) PROVE Looks(c, "ok") \/ Looks(c, "failed")
    BY <2>1 DEF CheckEmail
  <2>2. ASSUME NEW s \in GoogleIds, CheckAccessToken(c, s)
        PROVE  Looks(c, "ok") \/ Looks(c, "failed") \/ Looks(c, "unanswered")
    BY <2>2 DEF CheckAccessToken, TokenChecks
  <2>3. ASSUME NEW u \in AccountIds, ShowAccount(c, u)
        PROVE  Looks(c, "ok") \/ Looks(c, "failed")
    BY <2>3 DEF ShowAccount
  <2> QED
    BY <2>1, <2>2, <2>3
<1> QED
  BY <1>1, AnsweredKeeps DEF Looks

LEMMA LoginsKeep ==
  ASSUME AccountsInv, NEW c \in AccountCallers,
         \/ \E e \in Emails, w \in Words \cup {ShortWord} : LoginBegin(c, e, w)
         \/ \E e \in Emails : RemindBegin(c, e)
  PROVE  AccountsInv'
<1>1. ASSUME NEW e \in Emails, NEW w \in Words \cup {ShortWord}, LoginBegin(c, e, w)
      PROVE  AccountsInv'
  <2>1. ASSUME NEW u \in HasEmail(e), Loads(c, "login", "stamp", u) PROVE AccountsInv'
    BY <1>1, <2>1, LoadKeeps DEF LoginBegin, HasEmail
  <2>2. CASE Rejects(c)
    BY <1>1, <2>2, AnsweredKeeps DEF LoginBegin, Rejects
  <2> QED
    BY <1>1, <2>1, <2>2 DEF LoginBegin
<1>2. ASSUME NEW e \in Emails, RemindBegin(c, e)
      PROVE  AccountsInv'
  <2>1. ASSUME NEW u \in HasEmail(e), Loads(c, "remind", "mail", u) PROVE AccountsInv'
    BY <1>2, <2>1, LoadKeeps DEF RemindBegin, HasEmail
  <2>2. CASE Rejects(c)
    BY <1>2, <2>2, AnsweredKeeps DEF RemindBegin, Rejects
  <2> QED
    BY <1>2, <2>1, <2>2 DEF RemindBegin
<1> QED
  BY <1>1, <1>2

LEMMA PasswordBeginsKeep ==
  ASSUME AccountsInv, NEW c \in AccountCallers, NEW u \in AccountIds,
         NEW w \in Words \cup {ShortWord}, ResetBegin(c, u, w) \/ PasswordBegin(c, u, w)
  PROVE  AccountsInv'
<1>1. CASE ResetBegin(c, u, w)
  <2>1. CASE Rejects(c)
    BY <1>1, <2>1, AnsweredKeeps DEF ResetBegin, Rejects
  <2>2. CASE ~ Rejects(c)
    BY <1>1, <2>2, PasswordKeeps DEF ResetBegin
  <2> QED
    BY <2>1, <2>2
<1>2. CASE PasswordBegin(c, u, w)
  <2>1. CASE Rejects(c)
    BY <1>2, <2>1, AnsweredKeeps DEF PasswordBegin, Rejects
  <2>2. CASE ~ Rejects(c)
    BY <1>2, <2>2, PasswordKeeps DEF PasswordBegin
  <2> QED
    BY <2>1, <2>2
<1> QED
  BY <1>1, <1>2

LEMMA EmailBeginKeeps ==
  ASSUME AccountsInv, NEW c \in AccountCallers, NEW u \in AccountIds, NEW e \in Emails,
         EmailBegin(c, u, e)
  PROVE  AccountsInv'
<1> DEFINE q == Request("email")
           d == [account[u] EXCEPT !.email = e]
           f == (account[u].email # e)
           r == [q EXCEPT !.pc = "find", !.id = u, !.read = d, !.form = f]
<1>1. q \in AccountCallStates /\ q.op = "email" /\ account[u] \in AccountDocs
  BY RequestTyped DEF AccountOps, AccountsInv, AccountsTypeOK
<1>2. d \in AccountDocs
  BY <1>1 DEF AccountDocs
<1>3. r \in AccountCallStates /\ r.pc = "find" /\ r.id = u
  <2>1. f \in BOOLEAN
    OBVIOUS
  <2> HIDE DEF q, d, f
  <2> QED
    BY <1>1, <1>2, <2>1 DEF AccountCallStates
<1>4. UNCHANGED <<account, lastWord, charges, due, muddled>> /\ coded' \subseteq AccountIds
  BY DEF EmailBegin, OnlyCalls, NoQuotaWritten, AccountsInv, AccountsTypeOK
<1>5. CASE Rejects(c)
  BY <1>5, AnsweredKeeps DEF EmailBegin, Rejects
<1>6. CASE Recalls(c, r)
  <2> HIDE DEF q, d, f, r
  <2>1. Prepared(r) /\ ToppedUp(r)
    BY <1>3 DEF Prepared, ToppedUp
  <2> QED
    BY <1>3, <1>4, <1>6, <2>1, RequestKeeps
<1> QED
  BY <1>5, <1>6 DEF EmailBegin, Requests

\* A copy that holds a quota with the amount on top of it, whatever the form.
LEMMA ToppedTyped ==
  ASSUME NEW quota \in Int, NEW n \in Nat, NEW form \in BOOLEAN
  PROVE  Topped(quota, n, form) \in Int /\ (~ form => Topped(quota, n, form) = quota + n)
BY DEF Topped

LEMMA TopUpBeginKeeps ==
  ASSUME AccountsInv, NEW c \in AccountCallers, NEW u \in AccountIds, NEW n \in Grants,
         NEW form \in BOOLEAN, TopUpBegin(c, u, n, form)
  PROVE  AccountsInv'
<1> DEFINE q == Request("topUp")
           t == Topped(account[u].quota, n, form)
           d == [account[u] EXCEPT !.quota = t]
           r == [q EXCEPT !.pc = "save", !.id = u, !.amount = n, !.form = form, !.read = d]
<1>1. q \in AccountCallStates /\ q.op = "topUp" /\ account[u] \in AccountDocs
  BY RequestTyped DEF AccountOps, AccountsInv, AccountsTypeOK
<1>2. n \in Nat
  BY AccountsAssumption
<1>3. t \in Int /\ (~ form => t = account[u].quota + n)
  BY <1>1, <1>2, ToppedTyped, DocFields
<1>4. d \in AccountDocs /\ d.quota = t
  <2> HIDE DEF t
  <2> QED
    BY <1>1, <1>3 DEF AccountDocs
<1>5. /\ r \in AccountCallStates /\ r.pc = "save" /\ r.id = u /\ r.op = "topUp"
      /\ r.amount = n /\ r.form = form /\ r.read = d
  <2> HIDE DEF q, d
  <2> QED
    BY <1>1, <1>2, <1>4 DEF AccountCallStates
<1>6. UNCHANGED <<account, lastWord, charges, due, muddled>> /\ coded' \subseteq AccountIds
  BY DEF TopUpBegin, OnlyCalls, NoQuotaWritten, AccountsInv, AccountsTypeOK
<1>7. CASE Rejects(c)
  BY <1>7, AnsweredKeeps DEF TopUpBegin, Rejects
<1>8. CASE account[u].stored /\ Recalls(c, r)
  <2> HIDE DEF q, t, d, r
  <2>1. Prepared(r) /\ ToppedUp(r)
    BY <1>3, <1>4, <1>5, <1>8 DEF Prepared, ToppedUp
  <2> QED
    BY <1>5, <1>6, <1>8, <2>1, RequestKeeps
<1> QED
  <2>1. [account[u] EXCEPT !.quota = Topped(@, n, form)] = d
    BY <1>1 DEF AccountDocs
  <2> QED
    BY <1>7, <1>8, <2>1 DEF TopUpBegin, Requests, Authorized

\* The answer of a request that goes on, with the name of what it does.
LEMMA CallTyped ==
  ASSUME AccountsInv, NEW c \in AccountCallers
  PROVE  /\ acall[c] \in AccountCallStates /\ Prepared(acall[c]) /\ ToppedUp(acall[c])
         /\ acall[c].read \in AccountDocs
         /\ acall[c].amount \in Nat /\ acall[c].form \in BOOLEAN
         /\ acall[c].pc \in {"find", "stamp", "mail", "save"} => acall[c].id \in AccountIds
BY DEF AccountsInv, AccountsTypeOK, RequestsHold, AccountCallStates, Prepared

LEMMA RemindMailKeeps ==
  ASSUME AccountsInv, NEW c \in AccountCallers, RemindMail(c)
  PROVE  AccountsInv'
<1>1. acall[c].id \in AccountIds
  BY CallTyped DEF RemindMail, InProgress
<1>2. UNCHANGED <<account, lastWord, charges, due, muddled>> /\ coded' \subseteq AccountIds
  BY <1>1 DEF RemindMail, NoQuotaWritten, AccountsInv, AccountsTypeOK
<1>3. PICK a \in MailOutcomes : Over(c, a)
  BY DEF RemindMail
<1> QED
  BY <1>1, <1>2, <1>3, RequestEnds DEF Over, MailOutcomes

LEMMA EmailFindKeeps ==
  ASSUME AccountsInv, NEW c \in AccountCallers, EmailFind(c)
  PROVE  AccountsInv'
<1> DEFINE r == GoesTo(acall[c], "save")
<1>1. acall[c] \in AccountCallStates /\ acall[c].id \in AccountIds /\ acall[c].op = "email"
  BY CallTyped DEF EmailFind, InProgress
<1>2. r \in AccountCallStates /\ r.pc = "save" /\ r.op = "email" /\ r.id = acall[c].id
  BY <1>1 DEF GoesTo, AccountCallStates
<1>3. UNCHANGED <<account, lastWord, charges, due, muddled>> /\ coded' \subseteq AccountIds
  BY DEF EmailFind, OnlyCalls, NoQuotaWritten, AccountsInv, AccountsTypeOK
<1>4. CASE Over(c, "failed")
  BY <1>1, <1>3, <1>4, RequestEnds DEF Over
<1>5. CASE Recalls(c, r)
  <2> HIDE DEF r
  <2>1. Prepared(r) /\ ToppedUp(r)
    BY <1>1, <1>2 DEF Prepared, ToppedUp
  <2> QED
    BY <1>2, <1>3, <1>5, <2>1, RequestKeeps
<1> QED
  BY <1>4, <1>5 DEF EmailFind

LEMMA CodeExpiresKeeps ==
  ASSUME AccountsInv, NEW u \in AccountIds, CodeExpires(u)
  PROVE  AccountsInv'
<1>1. AccountsTypeOK'
  BY DEF AccountsInv, AccountsTypeOK, CodeExpires, NoQuotaWritten
<1>2. RequestsHold' /\ CredentialsSound' /\ QuotaAddsUp'
  BY DEF AccountsInv, CodeExpires, NoQuotaWritten, RequestsHold, Prepared, ToppedUp,
         CredentialsSound, PasswordIsTheLast, IdentitiesDiffer, QuotaAddsUp
<1> QED
  BY <1>1, <1>2 DEF AccountsInv

LEMMA LoginStampKeeps ==
  ASSUME AccountsInv, NEW c \in AccountCallers, LoginStamp(c)
  PROVE  AccountsInv'
<1>1. acall[c].id \in AccountIds
  BY CallTyped DEF LoginStamp, InProgress
<1>2. account' = account
  BY <1>1, SavedNothing DEF AccountsInv, LoginStamp
<1>3. UNCHANGED <<account, lastWord, charges, due, muddled>> /\ coded' \subseteq AccountIds
  BY <1>2 DEF LoginStamp, NoQuotaWritten, AccountsInv, AccountsTypeOK
<1> QED
  BY <1>1, <1>3, RequestEnds DEF LoginStamp, Over

-----------------------------------------------------------------------------
\* A request that is answered holds nothing, and the others hold what they held.
LEMMA OverMoves ==
  ASSUME AccountsInv, NEW c \in AccountCallers, NEW a \in {"ok", "failed", "unanswered"},
         Over(c, a)
  PROVE  /\ acall' \in [AccountCallers -> AccountCallStates]
         /\ acall'[c].pc = "done"
         /\ \A d \in AccountCallers \ {c} : acall'[d] = acall[d]
<1> DEFINE r == Outcome(a)
<1>1. r \in AccountCallStates /\ r.pc = "done"
  BY CallTyped, OverTyped
<1>2. Recalls(c, r)
  BY DEF Over
<1> HIDE DEF r
<1> QED
  BY <1>1, <1>2, RequestMoves DEF AccountsInv

LEMMA PasswordSaveKeeps ==
  ASSUME AccountsInv, NEW c \in AccountCallers, PasswordSave(c)
  PROVE  AccountsInv'
<1> DEFINE u == acall[c].id
           doc == acall[c].read
<1>1. u \in AccountIds /\ doc \in AccountDocs
      /\ doc.password \in Passwords /\ doc.password.hashed = 0 /\ doc.password.word # NoWord
  BY CallTyped, DocFields DEF PasswordSave, Prepared
<1>2. coded' \subseteq AccountIds /\ UNCHANGED <<coded, charges, due, muddled>>
  BY DEF PasswordSave, NoQuotaWritten, AccountsInv, AccountsTypeOK
<1>3. PICK a \in {"ok", "failed", "unanswered"} : Over(c, a)
  BY DEF PasswordSave
<1>4. CASE UNCHANGED <<account, lastWord>>
  BY <1>1, <1>2, <1>3, <1>4, RequestEnds DEF Over
<1>5. CASE /\ account' = SavedPaths(u, doc, {"password"})
           /\ lastWord' = [lastWord EXCEPT ![u] = doc.password.word]
  <2> HIDE DEF u, doc
  <2>1. /\ account' \in [AccountIds -> AccountDocs]
        /\ \A v \in AccountIds \ {u} : account'[v] = account[v]
        /\ account'[u].stored = account[u].stored
        /\ account'[u].social = account[u].social
        /\ account'[u].email = account[u].email
        /\ account'[u].password = Hash(doc.password)
        /\ account'[u].quota = account[u].quota
    BY <1>1, <1>5, Saved DEF AccountsInv
  <2>2. /\ account'[u].password.word = doc.password.word
        /\ account'[u].password.hashed = 1
    BY <1>1, <2>1, HashTyped
  <2>3. lastWord' \in [AccountIds -> Words \cup {NoWord, ShortWord}]
        /\ lastWord'[u] = doc.password.word
        /\ \A v \in AccountIds \ {u} : lastWord'[v] = lastWord[v]
    BY <1>1, <1>5 DEF AccountsInv, AccountsTypeOK, Passwords
  <2>4. AccountsTypeOK'
    BY <1>2, <1>3, <2>1, <2>3, OverMoves DEF AccountsInv, AccountsTypeOK
  <2>5. RequestsHold'
    BY <1>2, <1>3, <2>1, OverMoves, CallTyped DEF RequestsHold, Prepared, ToppedUp
  <2>6. PasswordIsTheLast'
    BY <1>1, <2>1, <2>2, <2>3 DEF AccountsInv, CredentialsSound, PasswordIsTheLast
  <2>7. IdentitiesDiffer'
    BY <2>1 DEF AccountsInv, CredentialsSound, IdentitiesDiffer
  <2>8. QuotaAddsUp'
    BY <1>2, <2>1 DEF AccountsInv, QuotaAddsUp
  <2> QED
    BY <2>4, <2>5, <2>6, <2>7, <2>8 DEF AccountsInv, CredentialsSound
<1> QED
  BY <1>4, <1>5 DEF PasswordSave

LEMMA EmailSaveKeeps ==
  ASSUME AccountsInv, NEW c \in AccountCallers, EmailSave(c)
  PROVE  AccountsInv'
<1> DEFINE u == acall[c].id
           doc == acall[c].read
<1>1. u \in AccountIds /\ doc \in AccountDocs
  BY CallTyped DEF EmailSave, InProgress
<1>2. /\ coded' \subseteq AccountIds /\ UNCHANGED <<coded, lastWord, charges, due, muddled>>
  BY DEF EmailSave, NoQuotaWritten, AccountsInv, AccountsTypeOK
<1>3. PICK a \in {"ok", "failed"} : Over(c, a)
  BY DEF EmailSave
<1>4. CASE UNCHANGED account
  BY <1>1, <1>2, <1>3, <1>4, RequestEnds DEF Over
<1>5. CASE account' = SavedPaths(u, doc, {})
  BY <1>1, <1>4, <1>5, SavedNothing DEF AccountsInv
<1>6. CASE /\ account' = SavedPaths(u, doc, {"email"})
           /\ HasEmail(doc.email) \ {u} = {}
  <2> HIDE DEF u, doc
  <2>1. /\ account' \in [AccountIds -> AccountDocs]
        /\ \A v \in AccountIds \ {u} : account'[v] = account[v]
        /\ account'[u].stored = account[u].stored
        /\ account'[u].social = account[u].social
        /\ account'[u].email = doc.email
        /\ account'[u].password = account[u].password
        /\ account'[u].quota = account[u].quota
    BY <1>1, <1>6, Saved DEF AccountsInv
  <2>2. AccountsTypeOK'
    BY <1>2, <1>3, <2>1, OverMoves DEF AccountsInv, AccountsTypeOK
  <2>3. RequestsHold'
    BY <1>2, <1>3, <2>1, OverMoves, CallTyped DEF RequestsHold, Prepared, ToppedUp
  <2>4. PasswordIsTheLast'
    BY <1>2, <2>1 DEF AccountsInv, CredentialsSound, PasswordIsTheLast
  <2>5. \A v \in AccountIds \ {u} : account[v].stored => account[v].email # doc.email
    BY <1>6 DEF HasEmail
  <2>6. IdentitiesDiffer'
    BY <2>1, <2>5 DEF AccountsInv, CredentialsSound, IdentitiesDiffer
  <2>7. QuotaAddsUp'
    BY <1>2, <2>1 DEF AccountsInv, QuotaAddsUp
  <2> QED
    BY <2>2, <2>3, <2>4, <2>6, <2>7 DEF AccountsInv, CredentialsSound
<1> QED
  BY <1>4, <1>5, <1>6 DEF EmailSave

\* A new user has the address and the identity of nobody else.
LEMMA InsertKeeps ==
  ASSUME AccountsInv, NEW c \in AccountCallers, Insert(c)
  PROVE  AccountsInv'
<1> DEFINE doc == acall[c].read
<1>1. /\ doc \in AccountDocs
      /\ doc.stored /\ doc.password \in Passwords /\ doc.password.hashed = 0
      /\ doc.quota \in Int
  BY CallTyped, DocFields DEF Insert, Prepared
<1>2. coded' \subseteq AccountIds /\ UNCHANGED <<coded, charges, muddled>>
  BY DEF Insert, AccountsInv, AccountsTypeOK
<1>3. PICK a \in {"ok", "unanswered"} : Over(c, a)
  BY DEF Insert
<1>4. CASE UNCHANGED <<account, lastWord, due>>
  BY <1>1, <1>2, <1>3, <1>4, RequestEnds DEF Over
<1>5. ASSUME NEW u \in AccountIds, ~ Duplicate(doc), NextAccount(u),
             account' = Inserted(u, doc),
             lastWord' = [lastWord EXCEPT ![u] = doc.password.word],
             due' = [due EXCEPT ![u] = doc.quota]
      PROVE  AccountsInv'
  <2> DEFINE new == IF doc.password.word = NoWord THEN doc
                    ELSE [doc EXCEPT !.password = Hash(@)]
  <2>1. /\ new \in AccountDocs /\ new.stored /\ new.email = doc.email
        /\ new.social = doc.social /\ new.quota = doc.quota
        /\ new.password.word = doc.password.word
        /\ new.password.hashed = IF doc.password.word = NoWord THEN 0 ELSE 1
    <3> HIDE DEF doc
    <3>1. CASE doc.password.word = NoWord
      BY <1>1, <3>1
    <3>2. CASE doc.password.word # NoWord
      <4> DEFINE p == Hash(doc.password)
                 d == [doc EXCEPT !.password = p]
      <4>1. p \in Passwords /\ p.word = doc.password.word /\ p.hashed = 1
        BY <1>1, HashTyped
      <4>2. d \in AccountDocs /\ d.stored /\ d.email = doc.email /\ d.social = doc.social
            /\ d.quota = doc.quota /\ d.password = p
        <5> HIDE DEF p
        <5> QED
          BY <1>1, <4>1 DEF AccountDocs, Passwords
      <4>3. new = d
        BY <3>2
      <4> QED
        BY <3>2, <4>1, <4>2, <4>3
    <3> QED
      BY <3>1, <3>2
  <2>2. account' = [account EXCEPT ![u] = new]
    BY <1>5 DEF Inserted
  <2> HIDE DEF doc, new
  <2>3. /\ account' \in [AccountIds -> AccountDocs] /\ account'[u] = new
        /\ \A v \in AccountIds \ {u} : account'[v] = account[v]
        /\ lastWord' \in [AccountIds -> Words \cup {NoWord, ShortWord}]
        /\ lastWord'[u] = doc.password.word
        /\ \A v \in AccountIds \ {u} : lastWord'[v] = lastWord[v]
        /\ due' \in [AccountIds -> Int] /\ due'[u] = doc.quota
        /\ \A v \in AccountIds \ {u} : due'[v] = due[v]
    BY <1>1, <1>5, <2>1, <2>2 DEF AccountsInv, AccountsTypeOK, Passwords
  <2>4. AccountsTypeOK'
    BY <1>2, <1>3, <2>3, OverMoves DEF AccountsInv, AccountsTypeOK
  <2>5. ~ account[u].stored
    BY <1>5 DEF NextAccount
  <2>6. RequestsHold'
    BY <1>2, <1>3, <2>3, <2>5, OverMoves, CallTyped DEF RequestsHold, Prepared, ToppedUp
  <2>7. PasswordIsTheLast'
    BY <2>1, <2>3 DEF AccountsInv, CredentialsSound, PasswordIsTheLast
  <2>8. \A v \in AccountIds \ {u} : account[v].stored =>
          /\ account[v].email = doc.email => doc.email = NoEmail
          /\ account[v].social = doc.social => doc.social = NoSocial
    BY <1>5 DEF Duplicate, HasEmail, HasSocial
  <2>9. IdentitiesDiffer'
    BY <2>1, <2>3, <2>8 DEF AccountsInv, CredentialsSound, IdentitiesDiffer
  <2>10. QuotaAddsUp'
    BY <1>2, <2>1, <2>3 DEF AccountsInv, QuotaAddsUp
  <2> QED
    BY <2>4, <2>6, <2>7, <2>9, <2>10 DEF AccountsInv, CredentialsSound
<1> QED
  BY <1>4, <1>5 DEF Insert

\* A top-up that nobody disturbed has on top of the quota what was asked for; another
\* one that holds a copy of the quota muddles the user.
LEMMA TopUpSaveKeeps ==
  ASSUME AccountsInv, NEW c \in AccountCallers, TopUpSave(c)
  PROVE  AccountsInv'
<1> DEFINE u == acall[c].id
           doc == acall[c].read
           n == acall[c].amount
<1>1. u \in AccountIds /\ doc \in AccountDocs
      /\ n \in Nat /\ doc.quota \in Int
  BY CallTyped, DocFields DEF TopUpSave, InProgress
<1>2. account[u].stored
      /\ (u \notin muddled /\ ~ acall[c].form /\ n # 0 => doc.quota = account[u].quota + n)
  BY CallTyped DEF TopUpSave, InProgress, ToppedUp
<1>3. /\ coded' \subseteq AccountIds /\ UNCHANGED <<coded, charges, lastWord>>
      /\ Over(c, "ok") /\ due' = [due EXCEPT ![u] = @ + n]
      /\ Muddles(u, n # 0 /\ (acall[c].form \/ HeldByOthers(u, c)))
  BY DEF TopUpSave, AccountsInv, AccountsTypeOK
<1>4. due' \in [AccountIds -> Int] /\ due'[u] = due[u] + n
      /\ \A v \in AccountIds \ {u} : due'[v] = due[v]
  BY <1>1, <1>3 DEF AccountsInv, AccountsTypeOK
<1>5. CASE n = 0
  <2>1. UNCHANGED <<account, muddled>>
    BY <1>1, <1>3, <1>5, SavedNothing DEF TopUpSave, AccountsInv, Muddles
  <2>2. due[u] \in Int
    BY <1>1 DEF AccountsInv, AccountsTypeOK
  <2>3. due' = due
    BY <1>1, <1>3, <1>5, <2>2 DEF AccountsInv, AccountsTypeOK
  <2> QED
    BY <1>1, <1>3, <2>1, <2>3, RequestEnds DEF Over
<1>6. CASE n # 0
  <2>1. account' = SavedPaths(u, doc, {"quota"})
    BY <1>6 DEF TopUpSave
  <2> HIDE DEF u, doc, n
  <2>2. /\ account' \in [AccountIds -> AccountDocs]
        /\ \A v \in AccountIds \ {u} : account'[v] = account[v]
        /\ account'[u].stored = account[u].stored
        /\ account'[u].social = account[u].social
        /\ account'[u].email = account[u].email
        /\ account'[u].password = account[u].password
        /\ account'[u].quota = doc.quota
    BY <1>1, <2>1, Saved DEF AccountsInv
  <2>3. /\ muddled' \subseteq AccountIds /\ muddled \subseteq muddled'
        /\ \A v \in AccountIds \ {u} : v \in muddled' => v \in muddled
        /\ acall[c].form \/ HeldByOthers(u, c) => u \in muddled'
    BY <1>1, <1>3, <1>6 DEF AccountsInv, AccountsTypeOK, Muddles
  <2>4. AccountsTypeOK'
    BY <1>3, <1>4, <2>2, <2>3, OverMoves DEF AccountsInv, AccountsTypeOK
  <2>5. RequestsHold'
    <3> SUFFICES ASSUME NEW d \in AccountCallers PROVE Prepared(acall'[d]) /\ ToppedUp(acall[d])'
      BY DEF RequestsHold, Prepared
    <3>1. CASE d = c
      BY <1>3, <3>1, OverMoves DEF Prepared, ToppedUp
    <3>2. CASE d # c
      <4>1. acall'[d] = acall[d] /\ Prepared(acall[d]) /\ ToppedUp(acall[d])
        BY <1>3, <3>2, OverMoves, CallTyped
      <4>2. acall[d].pc = "save" => acall[d].id \in AccountIds
        BY <4>1 DEF Prepared
      <4>3. acall[d].op = "topUp" /\ acall[d].pc = "save" /\ acall[d].id = u => u \in muddled'
        BY <2>3, <3>2 DEF HeldByOthers, InProgress
      <4> QED
        BY <1>1, <2>2, <2>3, <4>1, <4>2, <4>3 DEF ToppedUp
    <3> QED
      BY <3>1, <3>2
  <2>6. PasswordIsTheLast' /\ IdentitiesDiffer'
    BY <1>3, <2>2 DEF AccountsInv, CredentialsSound, PasswordIsTheLast, IdentitiesDiffer
  <2>7. QuotaAddsUp'
    BY <1>1, <1>2, <1>4, <1>6, <2>2, <2>3 DEF AccountsInv, QuotaAddsUp
  <2> QED
    BY <2>4, <2>5, <2>6, <2>7 DEF AccountsInv, CredentialsSound
<1> QED
  BY <1>5, <1>6

\* A charge muddles a user whose quota a top-up has read and not yet saved.
LEMMA ChargeKeeps ==
  ASSUME AccountsInv, NEW u \in AccountIds, Charge(u)
  PROVE  AccountsInv'
<1>1. account[u] \in AccountDocs /\ account[u].quota \in Int /\ due[u] \in Int
  BY DocFields DEF AccountsInv, AccountsTypeOK
<1>2. /\ account' \in [AccountIds -> AccountDocs]
      /\ \A v \in AccountIds \ {u} : account'[v] = account[v]
      /\ account'[u].stored = account[u].stored
      /\ account'[u].social = account[u].social
      /\ account'[u].email = account[u].email
      /\ account'[u].password = account[u].password
      /\ account'[u].quota = account[u].quota - 1
  <2> DEFINE q == account[u].quota - 1
  <2>1. q \in Int /\ account \in [AccountIds -> AccountDocs]
        /\ account' = [account EXCEPT ![u].quota = q]
    BY <1>1 DEF Charge, AccountsInv, AccountsTypeOK
  <2> HIDE DEF q
  <2>2. /\ account' \in [AccountIds -> AccountDocs]
        /\ \A v \in AccountIds \ {u} : account'[v] = account[v]
        /\ account'[u].stored = account[u].stored
        /\ account'[u].social = account[u].social
        /\ account'[u].email = account[u].email
        /\ account'[u].password = account[u].password
        /\ account'[u].quota = q
    BY <2>1 DEF AccountDocs
  <2> QED
    BY <2>2 DEF q
<1>3. /\ due' \in [AccountIds -> Int] /\ due'[u] = due[u] - 1
      /\ \A v \in AccountIds \ {u} : due'[v] = due[v]
  BY <1>1 DEF Charge, AccountsInv, AccountsTypeOK
<1>4. charges' \in 0..MaxCharges /\ UNCHANGED <<acall, coded, lastWord>>
  BY AccountsAssumption DEF Charge, AccountsInv, AccountsTypeOK
<1>5. /\ muddled' \subseteq AccountIds /\ muddled \subseteq muddled'
      /\ \A v \in AccountIds \ {u} : v \in muddled' => v \in muddled
      /\ HeldByOthers(u, 0) => u \in muddled'
  BY DEF Charge, AccountsInv, AccountsTypeOK, Muddles
<1>6. AccountsTypeOK'
  BY <1>2, <1>3, <1>4, <1>5 DEF AccountsInv, AccountsTypeOK
<1>7. RequestsHold'
  <2> SUFFICES ASSUME NEW d \in AccountCallers PROVE Prepared(acall'[d]) /\ ToppedUp(acall[d])'
    BY DEF RequestsHold, Prepared
  <2>1. acall'[d] = acall[d] /\ Prepared(acall[d]) /\ ToppedUp(acall[d])
    BY <1>4, CallTyped
  <2>2. acall[d].pc = "save" => acall[d].id \in AccountIds
    BY <2>1 DEF Prepared
  <2>3. d \in AccountCallers \ {0}
    BY AccountsAssumption DEF AccountCallers
  <2>4. acall[d].op = "topUp" /\ acall[d].pc = "save" /\ acall[d].id = u => u \in muddled'
    BY <1>5, <2>3 DEF HeldByOthers, InProgress
  <2> QED
    BY <1>2, <1>5, <2>1, <2>2, <2>4 DEF ToppedUp
<1>8. PasswordIsTheLast' /\ IdentitiesDiffer'
  BY <1>2, <1>4 DEF AccountsInv, CredentialsSound, PasswordIsTheLast, IdentitiesDiffer
<1>9. QuotaAddsUp'
  BY <1>1, <1>2, <1>3, <1>5 DEF AccountsInv, QuotaAddsUp
<1> QED
  BY <1>6, <1>7, <1>8, <1>9 DEF AccountsInv, CredentialsSound

-----------------------------------------------------------------------------
LEMMA AccountsInvInit == AccountsInit => AccountsInv
<1> SUFFICES ASSUME AccountsInit PROVE AccountsInv
  OBVIOUS
<1>1. /\ acall = [c \in AccountCallers |-> NoRequest]
      /\ coded = {} /\ charges = 0 /\ muddled = {} /\ charges \in 0..MaxCharges
  BY AccountsAssumption DEF AccountsInit
<1>2. RequestsHold /\ acall \in [AccountCallers -> AccountCallStates]
  BY <1>1, DocsTyped DEF RequestsHold, Prepared, ToppedUp
<1>3. CASE /\ account = [u \in AccountIds |-> NoAccount]
           /\ lastWord = [u \in AccountIds |-> NoWord]
           /\ due = [u \in AccountIds |-> 0]
  <2>1. AccountsTypeOK
    BY <1>1, <1>2, <1>3, DocsTyped DEF AccountsTypeOK
  <2>2. CredentialsSound /\ QuotaAddsUp
    BY <1>3, DocsTyped DEF CredentialsSound, PasswordIsTheLast, IdentitiesDiffer, QuotaAddsUp
  <2> QED
    BY <1>2, <2>1, <2>2 DEF AccountsInv
<1>4. ASSUME NEW e \in Emails, NEW w \in Words,
             account = [u \in AccountIds |->
                          IF u = 1 THEN [Registered(e, w) EXCEPT !.password = Hash(@)]
                          ELSE NoAccount],
             lastWord = [u \in AccountIds |-> IF u = 1 THEN w ELSE NoWord],
             due = [u \in AccountIds |-> IF u = 1 THEN FreeQuota ELSE 0]
      PROVE  AccountsInv
  <2> DEFINE d == Registered(e, w)
             p == Hash(d.password)
             first == [d EXCEPT !.password = p]
  <2>1. d \in AccountDocs /\ d.stored /\ d.quota = FreeQuota /\ d.password = Plain(w)
    <3>1. FreeQuota \in Int /\ Plain(w) \in Passwords
      BY AccountsAssumption, PlainTyped
    <3> QED
      BY <3>1, DocsTyped DEF Registered, AccountDocs, Passwords
  <2>2. p \in Passwords /\ p.word = w /\ p.hashed = 1
    <3> HIDE DEF d
    <3> QED
      BY <2>1, PlainTyped, HashTyped
  <2>3. first \in AccountDocs /\ first.stored /\ first.quota = FreeQuota /\ first.password = p
    <3> HIDE DEF d, p
    <3> QED
      BY <2>1, <2>2 DEF AccountDocs, Passwords
  <2>4. account = [u \in AccountIds |-> IF u = 1 THEN first ELSE NoAccount]
    BY <1>4
  <2> HIDE DEF d, p, first
  <2>5. AccountsTypeOK
    BY <1>1, <1>2, <1>4, <2>3, <2>4, DocsTyped, AccountsAssumption DEF AccountsTypeOK
  <2>6. PasswordIsTheLast
    BY <1>4, <2>2, <2>3, <2>4, DocsTyped, AccountsAssumption DEF PasswordIsTheLast
  <2>7. IdentitiesDiffer
    BY <2>4, DocsTyped DEF IdentitiesDiffer
  <2>8. QuotaAddsUp
    BY <1>4, <2>3, <2>4, DocsTyped DEF QuotaAddsUp
  <2> QED
    BY <1>2, <2>5, <2>6, <2>7, <2>8 DEF AccountsInv, CredentialsSound
<1>5. (CHOOSE e \in Emails : TRUE) \in Emails /\ (CHOOSE w \in Words : TRUE) \in Words
  BY AccountsAssumption
<1> QED
  BY <1>3, <1>4, <1>5 DEF AccountsInit

LEMMA AccountsInvNext == AccountsInv /\ [AccountsNext]_accountVars => AccountsInv'
<1> SUFFICES ASSUME AccountsInv, [AccountsNext]_accountVars PROVE AccountsInv'
  OBVIOUS
<1>1. CASE UNCHANGED accountVars
  BY <1>1 DEF accountVars, AccountsInv, AccountsTypeOK, RequestsHold, Prepared, ToppedUp,
              CredentialsSound, PasswordIsTheLast, IdentitiesDiffer, QuotaAddsUp
<1>2. ASSUME NEW c \in AccountCallers,
             \/ \E e \in Emails, w \in Words \cup {ShortWord} :
                  RegisterBegin(c, e, w) \/ LoginBegin(c, e, w)
             \/ \E s \in GoogleIds, e \in Emails \cup {NoEmail} : GoogleBegin(c, e, s)
             \/ \E s \in PassportIds : PassportBegin(c, s)
             \/ \E e \in Emails : CheckEmail(c, e) \/ RemindBegin(c, e)
             \/ \E s \in GoogleIds : CheckAccessToken(c, s)
             \/ \E u \in AccountIds : ShowAccount(c, u)
      PROVE  AccountsInv'
  BY <1>2, NewUsersKeep, LoginsKeep, LooksKeep
<1>3. ASSUME NEW c \in AccountCallers, NEW u \in AccountIds,
             \/ \E w \in Words \cup {ShortWord} : ResetBegin(c, u, w) \/ PasswordBegin(c, u, w)
             \/ \E e \in Emails : EmailBegin(c, u, e)
             \/ \E n \in Grants, form \in BOOLEAN : TopUpBegin(c, u, n, form)
      PROVE  AccountsInv'
  BY <1>3, PasswordBeginsKeep, EmailBeginKeeps, TopUpBeginKeeps
<1>4. ASSUME NEW c \in AccountCallers,
             \/ Insert(c) \/ LoginStamp(c) \/ RemindMail(c) \/ PasswordSave(c)
             \/ EmailFind(c) \/ EmailSave(c) \/ TopUpSave(c)
      PROVE  AccountsInv'
  BY <1>4, InsertKeeps, LoginStampKeeps, RemindMailKeeps, PasswordSaveKeeps, EmailFindKeeps,
     EmailSaveKeeps, TopUpSaveKeeps
<1>5. ASSUME NEW u \in AccountIds, CodeExpires(u) \/ Charge(u)
      PROVE  AccountsInv'
  BY <1>5, CodeExpiresKeeps, ChargeKeeps
<1> QED
  BY <1>1, <1>2, <1>3, <1>4, <1>5 DEF AccountsNext

\* The documents of users, and the copies that requests hold, keep their types (the
\* requests of routes/public.js and routes/restricted.js on models/user.js).
THEOREM AccountsTypeCorrect == AccountsSpec => []AccountsTypeOK
<1>1. AccountsInv => AccountsTypeOK
  BY DEF AccountsInv
<1> QED
  BY <1>1, AccountsInvInit, AccountsInvNext, PTL DEF AccountsSpec

\* Whatever requests overlap, every user logs in with the password that was saved last,
\* which was hashed once (the hook of models/user.js), and no two users share an address
\* or an identity of a social network (its sparse unique indexes).
THEOREM CredentialsSoundHolds == AccountsSpec => []CredentialsSound
<1>1. AccountsInv => CredentialsSound
  BY DEF AccountsInv
<1> QED
  BY <1>1, AccountsInvInit, AccountsInvNext, PTL DEF AccountsSpec

\* For any number of requests and charges, and any amounts, the quota of a user is what
\* was given and added less what was charged, unless a top-up came as a form or the quota
\* was written while a top-up held a copy (the restricted route that adds messages).
THEOREM QuotaAddsUpHolds == AccountsSpec => []QuotaAddsUp
<1>1. AccountsInv => QuotaAddsUp
  BY DEF AccountsInv
<1> QED
  BY <1>1, AccountsInvInit, AccountsInvNext, PTL DEF AccountsSpec
=============================================================================
