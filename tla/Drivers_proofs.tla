--------------------------- MODULE Drivers_proofs ----------------------------
(***************************************************************************)
(* Proofs about what the drivers of lib/queue_backend promise and keep.    *)
(* The abstract queue hands out no message twice.  However many calls      *)
(* share a client of RabbitMQ, and however often connections end and dials *)
(* fail: one call connects at a time, and no connection is forgotten.  The *)
(* Redis driver implements the abstract queue.                             *)
(***************************************************************************)
EXTENDS MessageQueue, RabbitClient, RedisClient, TLAPS

-----------------------------------------------------------------------------
(* The abstract queue, for every set of messages and consumers. *)

QueueInv == TypeOK /\ AtMostOnce

LEMMA QueueInvNext == QueueInv /\ [Next]_vars => QueueInv'
<1> SUFFICES ASSUME QueueInv, [Next]_vars PROVE QueueInv'
  OBVIOUS
<1> USE DEF QueueInv, TypeOK, AtMostOnce
<1>1. CASE UNCHANGED vars
  BY <1>1 DEF vars
<1>2. ASSUME NEW m \in Messages, Put(m) PROVE QueueInv'
  BY <1>2 DEF Put
<1>3. ASSUME NEW c \in Consumers, NEW m \in Messages, Take(c, m) PROVE QueueInv'
  BY <1>3 DEF Take
<1>4. ASSUME NEW c \in Consumers, Return(c) PROVE QueueInv'
  BY <1>4 DEF Return
<1>5. CASE Lose
  <2>1. /\ fresh' \subseteq fresh /\ queued' \subseteq queued /\ delivered' = delivered
        /\ taken' \in [Consumers -> SUBSET Messages]
        /\ \A c \in Consumers : taken'[c] \subseteq taken[c]
    BY <1>5 DEF Lose
  <2>2. TypeOK'
    BY <2>1
  <2>3. AtMostOnce'
    BY <2>1
  <2> QED
    BY <2>2, <2>3
<1> QED
  BY <1>1, <1>2, <1>3, <1>4, <1>5 DEF Next

\* The queue never has a message in two places, in particular never hands one to
\* two pulls.
THEOREM QueueAtMostOnce == Spec => []AtMostOnce
<1>1. Init => QueueInv
  BY DEF Init, QueueInv, TypeOK, AtMostOnce
<1>2. QueueInv => AtMostOnce
  BY DEF QueueInv
<1> QED
  BY <1>1, <1>2, QueueInvNext, PTL DEF Spec

-----------------------------------------------------------------------------
(* The client of RabbitMQ. *)


\* A call that opens the channels has the connection in use, which has no handlers
\* yet; a call that waits for an answer, or closes, has one with handlers.
RabbitCallsHold ==
  \A c \in RabbitCallers :
    /\ rcall[c].pc \in {"channels", "ready"} =>
         /\ rcall[c].on = conn /\ rcall[c].on \notin handled /\ conn # 0
         /\ early \/ rcall[c].on \in openConns
    /\ rcall[c].pc \in {"reply", "closing", "closed"} => rcall[c].on \in handled

\* Whoever connects has the flag and nobody else a connection.
FlagsHold ==
  /\ handled \subseteq 1..conn
  /\ connected => conn \in handled
  /\ \A c \in RabbitCallers : rcall[c].pc \in ConnectingPcs => connecting /\ ~ connected
  /\ ~ connected /\ (\A c \in RabbitCallers : rcall[c].pc \notin {"channels", "ready"})
       => openConns = {}

RabbitInv == RabbitTypeOK /\ RabbitSound /\ RabbitCallsHold /\ FlagsHold

-----------------------------------------------------------------------------
\* One call moves.
LEMMA RabbitCallMoves ==
  ASSUME NEW c \in RabbitCallers, RabbitTypeOK, NEW r \in RabbitCallStates, RabbitStep(c, r)
  PROVE  /\ rcall' \in [RabbitCallers -> RabbitCallStates]
         /\ rcall'[c] = r
         /\ \A d \in RabbitCallers \ {c} : rcall'[d] = rcall[d]
BY DEF RabbitTypeOK, RabbitStep

\* What becomes of the record of a call.
LEMMA OnConnectionStates ==
  ASSUME NEW call \in RabbitCallStates, NEW k \in ConnIds \cup {0}, NEW open \in BOOLEAN
  PROVE  LET r == OnConnection(call, k, open) IN
         /\ r \in RabbitCallStates
         /\ r.pc = "done" \/ (r.pc = "reply" /\ r.on = k)
BY DEF RabbitCallStates, OnConnection, Ends

LEMMA AfterCloseStates ==
  ASSUME NEW call \in RabbitCallStates
  PROVE  AfterClose(call) \in RabbitCallStates /\ AfterClose(call).pc \in {"connect", "done"}
<1> DEFINE free == [call EXCEPT !.on = 0]
<1>1. free \in RabbitCallStates
  BY DEF RabbitCallStates
<1>2. LET r == [call EXCEPT !.pc = "connect", !.on = 0] IN
      r \in RabbitCallStates /\ r.pc = "connect"
  BY DEF RabbitCallStates
<1>3. Ends(free, "ok") \in RabbitCallStates /\ Ends(free, "ok").pc = "done"
  BY <1>1 DEF RabbitCallStates, Ends
<1> QED
  BY <1>2, <1>3 DEF AfterClose

LEMMA FailsMoves ==
  ASSUME NEW c \in RabbitCallers, RabbitTypeOK, Fails(c)
  PROVE  \E r \in RabbitCallStates : r.pc \in {"connect", "done"} /\ RabbitStep(c, r)
<1>1. rcall[c] \in RabbitCallStates
  BY DEF RabbitTypeOK
<1> DEFINE r == IF rcall[c].op = "reconnect"
                THEN [rcall[c] EXCEPT !.pc = "connect", !.on = 0]
                ELSE Ends([rcall[c] EXCEPT !.on = 0], "failed")
<1>2. r \in RabbitCallStates /\ r.pc \in {"connect", "done"}
  BY <1>1 DEF RabbitCallStates, Ends
<1> QED
  BY <1>2 DEF Fails

-----------------------------------------------------------------------------
LEMMA RabbitInvInit == RabbitInit => RabbitInv
<1> SUFFICES ASSUME RabbitInit PROVE RabbitInv
  OBVIOUS
<1>1. RabbitTypeOK
  <2>1. [op |-> "none", pc |-> "idle", on |-> 0, answer |-> "none"] \in RabbitCallStates
    BY DEF RabbitCallStates
  <2>2. rcall \in [RabbitCallers -> RabbitCallStates]
    BY <2>1 DEF RabbitInit
  <2>3. deaths \in 0..MaxDeaths /\ failures \in 0..MaxFailures
    BY RabbitAssumption DEF RabbitInit
  <2> QED
    BY <2>2, <2>3 DEF RabbitInit, RabbitTypeOK
<1>2. RabbitSound
  BY DEF RabbitInit, RabbitSound, OneConnects, NoneForgotten, ConnectedIsOpen, ConnectingPcs
<1>3. RabbitCallsHold /\ FlagsHold
  BY DEF RabbitInit, RabbitCallsHold, FlagsHold, ConnectingPcs
<1> QED
  BY <1>1, <1>2, <1>3 DEF RabbitInv

\* A call that is not connecting moves to another place where it does not connect,
\* and nothing else changes but the channel.
LEMMA Quiet ==
  ASSUME RabbitInv, NEW c \in RabbitCallers, NEW r \in RabbitCallStates, RabbitStep(c, r),
         rcall[c].pc \notin ConnectingPcs, r.pc \notin ConnectingPcs,
         r.pc \in {"reply", "closing", "closed"} => r.on \in handled,
         channel' \in BOOLEAN,
         UNCHANGED <<connected, connecting, conn, openConns, handled>>, UNCHANGED counts
  PROVE  RabbitInv'
<1>1. /\ rcall' \in [RabbitCallers -> RabbitCallStates]
      /\ rcall'[c] = r
      /\ \A d \in RabbitCallers \ {c} : rcall'[d] = rcall[d]
  BY RabbitCallMoves DEF RabbitInv
<1>2. RabbitTypeOK'
  BY <1>1 DEF RabbitInv, RabbitTypeOK, counts
<1>3. \A d \in RabbitCallers : rcall'[d].pc \in ConnectingPcs <=> rcall[d].pc \in ConnectingPcs
  BY <1>1
<1>4. RabbitSound'
  BY <1>3 DEF RabbitInv, RabbitSound, OneConnects, NoneForgotten, ConnectedIsOpen, counts
<1>5. RabbitCallsHold'
  BY <1>1 DEF RabbitInv, RabbitCallsHold, counts, ConnectingPcs
<1>6. FlagsHold'
  BY <1>1, <1>3 DEF RabbitInv, FlagsHold, counts, ConnectingPcs
<1> QED
  BY <1>2, <1>4, <1>5, <1>6 DEF RabbitInv

LEMMA BeginKeeps ==
  ASSUME RabbitInv, NEW c \in RabbitCallers, NEW o \in RabbitOps,
         CallBegin(c, o) \/ CloseBegin(c, o)
  PROVE  RabbitInv'
<1> DEFINE call == [rcall[c] EXCEPT !.op = o]
<1>1. rcall[c].pc = "idle" /\ rcall[c] \in RabbitCallStates /\ channel' \in BOOLEAN
      /\ conn \in ConnIds \cup {0} /\ channel \in BOOLEAN
  BY DEF CallBegin, CloseBegin, IsNext, RabbitInv, RabbitTypeOK, links
<1>2. call \in RabbitCallStates
  BY <1>1 DEF RabbitCallStates
<1>3. connected => conn \in handled
  BY DEF RabbitInv, FlagsHold
<1>4. CASE CallBegin(c, o)
  <2> DEFINE r == IF connected /\ o # "connect" THEN OnConnection(call, conn, channel)
                  ELSE GoesTo(call, "connect")
  <2>1. /\ r \in RabbitCallStates /\ r.pc \in {"done", "reply", "connect"}
        /\ r.pc = "reply" => r.on \in handled
    <3>1. LET t == OnConnection(call, conn, channel) IN
          t \in RabbitCallStates /\ (t.pc = "done" \/ (t.pc = "reply" /\ t.on = conn))
      BY <1>1, <1>2, OnConnectionStates
    <3>2. GoesTo(call, "connect") \in RabbitCallStates /\ GoesTo(call, "connect").pc = "connect"
      BY <1>2 DEF GoesTo, RabbitCallStates
    <3> QED
      BY <1>3, <3>1, <3>2
  <2>2. RabbitStep(c, r)
    BY <1>4 DEF CallBegin
  <2>3. UNCHANGED <<connected, connecting, conn, openConns, handled>> /\ UNCHANGED counts
    BY <1>4 DEF CallBegin, links
  <2>4. rcall[c].pc \notin ConnectingPcs /\ r.pc \notin ConnectingPcs
    BY <1>1, <2>1 DEF ConnectingPcs
  <2>5. r.pc \in {"reply", "closing", "closed"} => r.on \in handled
    BY <2>1
  <2> HIDE DEF r
  <2> QED
    BY <1>1, <2>1, <2>2, <2>3, <2>4, <2>5, Quiet
<1>5. CASE CloseBegin(c, o)
  <2> DEFINE r == IF ~ connected THEN AfterClose(call)
                  ELSE IF ~ channel THEN Ends(call, "failed")
                  ELSE [call EXCEPT !.pc = "closing", !.on = conn]
  <2>1. /\ r \in RabbitCallStates /\ r.pc \in {"done", "connect", "closing"}
        /\ r.pc = "closing" => r.on \in handled
    <3>1. AfterClose(call) \in RabbitCallStates /\ AfterClose(call).pc \in {"connect", "done"}
      BY <1>2, AfterCloseStates
    <3>2. Ends(call, "failed") \in RabbitCallStates /\ Ends(call, "failed").pc = "done"
      BY <1>2 DEF Ends, RabbitCallStates
    <3>3. LET t == [call EXCEPT !.pc = "closing", !.on = conn] IN
          t \in RabbitCallStates /\ t.pc = "closing" /\ t.on = conn
      BY <1>1, <1>2 DEF RabbitCallStates
    <3> QED
      BY <1>3, <3>1, <3>2, <3>3
  <2>2. RabbitStep(c, r)
    BY <1>5 DEF CloseBegin
  <2>3. UNCHANGED <<connected, connecting, conn, openConns, handled>> /\ UNCHANGED counts
    BY <1>5 DEF CloseBegin, links
  <2>4. rcall[c].pc \notin ConnectingPcs /\ r.pc \notin ConnectingPcs
    BY <1>1, <2>1 DEF ConnectingPcs
  <2>5. r.pc \in {"reply", "closing", "closed"} => r.on \in handled
    BY <2>1
  <2> HIDE DEF r
  <2> QED
    BY <1>1, <2>1, <2>2, <2>3, <2>4, <2>5, Quiet
<1> QED
  BY <1>4, <1>5

\* The broker answers, fails the call or closes the channel; the channels are closed.
LEMMA AnswersKeep ==
  ASSUME RabbitInv, NEW c \in RabbitCallers, Reply(c) \/ CloseChannels(c)
  PROVE  RabbitInv'
<1> DEFINE call == [rcall[c] EXCEPT !.on = 0]
<1>1. /\ rcall[c].pc \in {"reply", "closing"} /\ rcall[c] \in RabbitCallStates
      /\ channel' \in BOOLEAN
      /\ rcall[c].on \in handled
  BY DEF Reply, CloseChannels, RabbitInv, RabbitTypeOK, RabbitAt, RabbitCallsHold
<1>2. call \in RabbitCallStates
  BY <1>1 DEF RabbitCallStates
<1>3. /\ \A a \in {"ok", "failed"} : Ends(call, a) \in RabbitCallStates /\
              Ends(call, a).pc = "done"
      /\ GoesTo(rcall[c], "closed") \in RabbitCallStates
      /\ GoesTo(rcall[c], "closed").pc = "closed" /\ GoesTo(rcall[c], "closed").on \in handled
  BY <1>1, <1>2 DEF Ends, GoesTo, RabbitCallStates
<1>4. PICK r \in RabbitCallStates :
        /\ RabbitStep(c, r) /\ r.pc \in {"done", "closed"}
        /\ r.pc = "closed" => r.on \in handled
  BY <1>3 DEF Reply, CloseChannels
<1>5. UNCHANGED <<connected, connecting, conn, openConns, handled>> /\ UNCHANGED counts
  BY DEF Reply, CloseChannels
<1>6. rcall[c].pc \notin ConnectingPcs /\ r.pc \notin ConnectingPcs
  BY <1>1, <1>4 DEF ConnectingPcs
<1> QED
  BY <1>1, <1>4, <1>5, <1>6, Quiet

-----------------------------------------------------------------------------
(* The calls that connect. *)

\* Nobody connects while the flag is clear; whoever connects does so alone.
LEMMA Alone ==
  ASSUME RabbitInv, NEW c \in RabbitCallers, ~ connecting \/ rcall[c].pc \in ConnectingPcs
  PROVE  \A d \in RabbitCallers \ {c} : rcall[d].pc \notin ConnectingPcs
BY DEF RabbitInv, FlagsHold, RabbitSound, OneConnects

LEMMA ConnectEnterKeeps ==
  ASSUME RabbitInv, NEW c \in RabbitCallers, ConnectEnter(c)
  PROVE  RabbitInv'
<1>1. /\ rcall[c].pc = "connect" /\ ~ connecting /\ rcall[c] \in RabbitCallStates
      /\ connecting \in BOOLEAN /\ conn \in ConnIds \cup {0} /\ channel \in BOOLEAN
  BY DEF ConnectEnter, RabbitInv, RabbitTypeOK, RabbitAt
<1>2. UNCHANGED <<connected, conn, openConns, handled, channel>> /\ UNCHANGED counts
  BY DEF ConnectEnter, links
<1>3. CASE connected
  <2> DEFINE r == OnConnection(rcall[c], conn, channel)
  <2>1. r \in RabbitCallStates /\ (r.pc = "done" \/ (r.pc = "reply" /\ r.on = conn))
    BY <1>1, OnConnectionStates
  <2>2. RabbitStep(c, r) /\ connecting' = connecting
    BY <1>3 DEF ConnectEnter
  <2>3. rcall[c].pc \notin ConnectingPcs /\ r.pc \notin ConnectingPcs
    BY <1>1, <2>1 DEF ConnectingPcs
  <2>4. r.pc \in {"reply", "closing", "closed"} => r.on \in handled
    BY <1>3, <2>1 DEF RabbitInv, FlagsHold
  <2> HIDE DEF r
  <2> QED
    BY <1>1, <1>2, <2>1, <2>2, <2>3, <2>4, Quiet
<1>4. CASE ~ connected
  <2> DEFINE r == GoesTo(rcall[c], "dial")
  <2>1. r \in RabbitCallStates /\ r.pc = "dial"
    BY <1>1 DEF GoesTo, RabbitCallStates
  <2>2. RabbitStep(c, r) /\ connecting' = TRUE
    BY <1>4 DEF ConnectEnter
  <2> HIDE DEF r
  <2>3. /\ rcall' \in [RabbitCallers -> RabbitCallStates]
        /\ rcall'[c] = r
        /\ \A d \in RabbitCallers \ {c} : rcall'[d] = rcall[d]
    BY <2>1, <2>2, RabbitCallMoves DEF RabbitInv
  <2>4. \A d \in RabbitCallers \ {c} : rcall[d].pc \notin ConnectingPcs
    BY <1>1, Alone
  <2>5. RabbitTypeOK'
    BY <1>2, <2>2, <2>3 DEF RabbitInv, RabbitTypeOK, counts
  <2>6. RabbitSound'
    BY <1>2, <1>4, <2>1, <2>2, <2>3, <2>4
    DEF RabbitInv, RabbitSound, OneConnects, NoneForgotten, ConnectedIsOpen, counts, ConnectingPcs
  <2>7. RabbitCallsHold'
    BY <1>2, <2>1, <2>3 DEF RabbitInv, RabbitCallsHold, counts
  <2>8. FlagsHold'
    BY <1>1, <1>2, <1>4, <2>1, <2>2, <2>3, <2>4 DEF RabbitInv, FlagsHold, ConnectingPcs
  <2> QED
    BY <2>5, <2>6, <2>7, <2>8 DEF RabbitInv
<1> QED
  BY <1>3, <1>4

LEMMA DialSucceedsKeeps ==
  ASSUME RabbitInv, NEW c \in RabbitCallers, DialSucceeds(c)
  PROVE  RabbitInv'
<1> DEFINE r == [rcall[c] EXCEPT !.pc = "channels", !.on = conn + 1]
<1>1. /\ rcall[c].pc = "dial" /\ conn + 1 \in ConnIds /\ rcall[c] \in RabbitCallStates
      /\ conn \in Nat
  BY DEF DialSucceeds, RabbitAt, RabbitInv, RabbitTypeOK, ConnIds
<1>2. r \in RabbitCallStates /\ r.pc = "channels" /\ r.on = conn + 1
  BY <1>1 DEF RabbitCallStates
<1>3. RabbitStep(c, r)
  BY DEF DialSucceeds
<1> HIDE DEF r
<1>4. /\ rcall' \in [RabbitCallers -> RabbitCallStates]
      /\ rcall'[c] = r
      /\ \A d \in RabbitCallers \ {c} : rcall'[d] = rcall[d]
  BY <1>2, <1>3, RabbitCallMoves DEF RabbitInv
<1>5. /\ conn' = conn + 1 /\ channel' = FALSE /\ openConns' = openConns \cup {conn + 1}
      /\ UNCHANGED <<connected, connecting, handled>> /\ UNCHANGED counts
  BY DEF DialSucceeds
<1>6. \A d \in RabbitCallers \ {c} : rcall[d].pc \notin ConnectingPcs
  BY <1>1, Alone DEF ConnectingPcs
<1>7. connecting /\ ~ connected
  BY <1>1 DEF RabbitInv, FlagsHold, ConnectingPcs
<1>8. openConns = {}
  BY <1>1, <1>6, <1>7 DEF RabbitInv, FlagsHold, ConnectingPcs
<1>9. conn + 1 \notin handled /\ conn + 1 # 0 /\ handled \subseteq 1..(conn + 1)
  BY <1>1 DEF RabbitInv, FlagsHold
<1>10. RabbitTypeOK'
  BY <1>1, <1>4, <1>5 DEF RabbitInv, RabbitTypeOK, counts
<1>11. RabbitSound'
  BY <1>2, <1>4, <1>5, <1>6, <1>7, <1>8
  DEF RabbitSound, OneConnects, NoneForgotten, ConnectedIsOpen, ConnectingPcs
<1>12. RabbitCallsHold'
  BY <1>2, <1>4, <1>5, <1>6, <1>9 DEF RabbitInv, RabbitCallsHold, ConnectingPcs
<1>13. FlagsHold'
  BY <1>2, <1>4, <1>5, <1>6, <1>7, <1>9 DEF FlagsHold, ConnectingPcs
<1> QED
  BY <1>10, <1>11, <1>12, <1>13 DEF RabbitInv

\* A dial fails, or the channels do because the connection has ended.
LEMMA FailuresKeep ==
  ASSUME RabbitInv, NEW c \in RabbitCallers,
         \/ DialFails(c)
         \/ Channels(c) /\ rcall[c].on \notin openConns
  PROVE  RabbitInv'
<1>1. /\ rcall[c].pc \in {"dial", "channels"} /\ Fails(c) /\ connecting' \in BOOLEAN
      /\ UNCHANGED <<connected, early, deaths>> /\ UNCHANGED links
      /\ failures' \in 0..MaxFailures
  <2>1. CASE DialFails(c)
    <3>1. failures \in 0..MaxFailures /\ failures < MaxFailures /\ failures' = failures + 1
      BY <2>1 DEF DialFails, RabbitInv, RabbitTypeOK
    <3>2. failures' \in 0..MaxFailures
      BY <3>1, RabbitAssumption
    <3> QED
      BY <2>1, <3>2 DEF DialFails, RabbitAt, links
  <2>2. CASE Channels(c) /\ rcall[c].on \notin openConns
    BY <2>2 DEF Channels, RabbitAt, counts, links, RabbitInv, RabbitTypeOK
  <2> QED
    BY <2>1, <2>2
<1>2. PICK r \in RabbitCallStates : r.pc \in {"connect", "done"} /\ RabbitStep(c, r)
  BY <1>1, FailsMoves DEF RabbitInv
<1>3. /\ rcall' \in [RabbitCallers -> RabbitCallStates]
      /\ rcall'[c] = r
      /\ \A d \in RabbitCallers \ {c} : rcall'[d] = rcall[d]
  BY <1>2, RabbitCallMoves DEF RabbitInv
<1>4. \A d \in RabbitCallers \ {c} : rcall[d].pc \notin ConnectingPcs
  BY <1>1, Alone DEF ConnectingPcs
<1>5. \A d \in RabbitCallers : rcall'[d].pc \notin ConnectingPcs
  BY <1>2, <1>3, <1>4 DEF ConnectingPcs
<1>6. ~ connected /\ connecting
  BY <1>1 DEF RabbitInv, FlagsHold, ConnectingPcs
<1>7. early \/ ~ connecting'
  BY DEF DialFails, Channels, RabbitAt, RabbitInv, RabbitCallsHold
<1>8. openConns = {}
  <2>1. CASE rcall[c].pc = "dial"
    BY <1>4, <1>6, <2>1 DEF RabbitInv, FlagsHold, ConnectingPcs
  <2>2. CASE rcall[c].pc = "channels"
    BY <2>2 DEF DialFails, RabbitAt, RabbitInv, RabbitCallsHold, RabbitSound, NoneForgotten
  <2> QED
    BY <1>1, <2>1, <2>2
<1>9. RabbitTypeOK'
  BY <1>1, <1>3 DEF RabbitInv, RabbitTypeOK, links
<1>10. RabbitSound'
  BY <1>1, <1>5, <1>6, <1>7, <1>8
  DEF links, RabbitSound, OneConnects, NoneForgotten, ConnectedIsOpen
<1>11. RabbitCallsHold'
  BY <1>1, <1>2, <1>3 DEF RabbitInv, RabbitCallsHold, links
<1>12. FlagsHold'
  BY <1>1, <1>5, <1>6, <1>8 DEF RabbitInv, FlagsHold, links
<1> QED
  BY <1>9, <1>10, <1>11, <1>12 DEF RabbitInv

LEMMA ChannelsKeep ==
  ASSUME RabbitInv, NEW c \in RabbitCallers, Channels(c), rcall[c].on \in openConns
  PROVE  RabbitInv'
<1> DEFINE r == GoesTo(rcall[c], "ready")
<1>1. rcall[c].pc = "channels" /\ rcall[c] \in RabbitCallStates
  BY DEF Channels, RabbitAt, RabbitInv, RabbitTypeOK
<1>2. r \in RabbitCallStates /\ r.pc = "ready" /\ r.on = rcall[c].on
  BY <1>1 DEF GoesTo, RabbitCallStates
<1>3. RabbitStep(c, r)
  BY DEF Channels
<1> HIDE DEF r
<1>4. /\ rcall' \in [RabbitCallers -> RabbitCallStates]
      /\ rcall'[c] = r
      /\ \A d \in RabbitCallers \ {c} : rcall'[d] = rcall[d]
  BY <1>2, <1>3, RabbitCallMoves DEF RabbitInv
<1>5. UNCHANGED <<connected, connecting, conn, openConns, handled, channel>> /\ UNCHANGED counts
  BY DEF Channels, links
<1>6. \A d \in RabbitCallers :
        /\ rcall'[d].pc \in ConnectingPcs <=> rcall[d].pc \in ConnectingPcs
        /\ rcall'[d].pc \in {"channels", "ready"} <=> rcall[d].pc \in {"channels", "ready"}
  BY <1>1, <1>2, <1>4 DEF ConnectingPcs
<1>7. RabbitTypeOK'
  BY <1>4, <1>5 DEF RabbitInv, RabbitTypeOK, counts
<1>8. RabbitSound'
  BY <1>5, <1>6 DEF RabbitInv, RabbitSound, OneConnects, NoneForgotten, ConnectedIsOpen, counts
<1>9. RabbitCallsHold'
  BY <1>1, <1>2, <1>4, <1>5 DEF RabbitInv, RabbitCallsHold, counts
<1>10. FlagsHold'
  BY <1>5, <1>6 DEF RabbitInv, FlagsHold
<1> QED
  BY <1>7, <1>8, <1>9, <1>10 DEF RabbitInv

LEMMA ReadyKeeps ==
  ASSUME RabbitInv, NEW c \in RabbitCallers, Ready(c)
  PROVE  RabbitInv'
<1> DEFINE free == [rcall[c] EXCEPT !.on = 0]
           r == OnConnection(free, conn, channel')
<1>1. /\ rcall[c].pc = "ready" /\ rcall[c] \in RabbitCallStates /\ rcall[c].on = conn
      /\ conn \in ConnIds \cup {0} /\ conn \notin handled
      /\ early \/ conn \in openConns
  BY DEF Ready, RabbitAt, RabbitInv, RabbitTypeOK, RabbitCallsHold
<1>2. /\ connected' = TRUE /\ connecting' = FALSE /\ handled' = handled \cup {conn}
      /\ channel' \in BOOLEAN /\ UNCHANGED <<conn, openConns>> /\ UNCHANGED counts
      /\ RabbitStep(c, r)
  BY <1>1 DEF Ready
<1>3. free \in RabbitCallStates
  BY <1>1 DEF RabbitCallStates
<1>4. r \in RabbitCallStates /\ (r.pc = "done" \/ (r.pc = "reply" /\ r.on = conn))
  BY <1>1, <1>2, <1>3, OnConnectionStates
<1> HIDE DEF r, free
<1>5. /\ rcall' \in [RabbitCallers -> RabbitCallStates]
      /\ rcall'[c] = r
      /\ \A d \in RabbitCallers \ {c} : rcall'[d] = rcall[d]
  BY <1>2, <1>4, RabbitCallMoves DEF RabbitInv
<1>6. \A d \in RabbitCallers \ {c} : rcall[d].pc \notin ConnectingPcs
  BY <1>1, Alone DEF ConnectingPcs
<1>7. \A d \in RabbitCallers : rcall'[d].pc \notin ConnectingPcs
  BY <1>4, <1>5, <1>6 DEF ConnectingPcs
<1>8. conn \in ConnIds
  BY <1>1 DEF RabbitInv, RabbitCallsHold
<1>9. RabbitTypeOK'
  BY <1>2, <1>5, <1>8 DEF RabbitInv, RabbitTypeOK, counts
<1>10. RabbitSound'
  BY <1>1, <1>2, <1>7
  DEF RabbitInv, RabbitSound, OneConnects, NoneForgotten, ConnectedIsOpen, counts
<1>11. RabbitCallsHold'
  BY <1>2, <1>4, <1>5, <1>7 DEF RabbitInv, RabbitCallsHold, counts, ConnectingPcs
<1>12. handled' \subseteq 1..conn
  BY <1>2, <1>8 DEF RabbitInv, FlagsHold, ConnIds
<1>13. FlagsHold'
  BY <1>2, <1>7, <1>12 DEF FlagsHold
<1> QED
  BY <1>9, <1>10, <1>11, <1>13 DEF RabbitInv

-----------------------------------------------------------------------------
(* Connections that end. *)

\* The connection in use ends, and its handlers, if it has them, clear the flag.
LEMMA EndKeeps ==
  ASSUME RabbitInv, NEW k \in openConns,
         openConns' = openConns \ {k},
         UNCHANGED <<connecting, conn, handled, failures>>,
         connected' = IF k \in handled THEN FALSE ELSE connected,
         early' = (early \/ k \notin handled),
         channel' \in BOOLEAN, deaths' \in 0..MaxDeaths,
         rcall' \in [RabbitCallers -> RabbitCallStates],
         \A d \in RabbitCallers :
           rcall'[d] = rcall[d] \/
             (rcall[d].pc = "closed" /\ rcall'[d].pc \in {"connect", "done"})
  PROVE  RabbitInv'
<1>1. k = conn /\ openConns' = {}
  BY DEF RabbitInv, RabbitSound, NoneForgotten
<1>2. \A d \in RabbitCallers : rcall'[d].pc \in ConnectingPcs <=> rcall[d].pc \in ConnectingPcs
  BY DEF ConnectingPcs
<1>3. RabbitTypeOK'
  BY <1>1 DEF RabbitInv, RabbitTypeOK
<1>4. RabbitSound'
  BY <1>1, <1>2 DEF RabbitInv, RabbitSound, OneConnects, NoneForgotten, ConnectedIsOpen, FlagsHold
<1>5. RabbitCallsHold'
  BY <1>1 DEF RabbitInv, RabbitCallsHold
<1>6. FlagsHold'
  BY <1>1, <1>2 DEF RabbitInv, FlagsHold
<1> QED
  BY <1>3, <1>4, <1>5, <1>6 DEF RabbitInv

LEMMA CloseConnectionKeeps ==
  ASSUME RabbitInv, NEW c \in RabbitCallers, CloseConnection(c)
  PROVE  RabbitInv'
<1>1. /\ rcall[c].pc = "closed" /\ rcall[c] \in RabbitCallStates /\ rcall[c].on \in handled
      /\ UNCHANGED <<connecting, conn, handled, channel>> /\ UNCHANGED counts
      /\ channel \in BOOLEAN /\ deaths \in 0..MaxDeaths
  BY DEF CloseConnection, RabbitAt, RabbitInv, RabbitTypeOK, RabbitCallsHold
<1>2. CASE rcall[c].on \in openConns
  <2> DEFINE r == AfterClose(rcall[c])
  <2>1. r \in RabbitCallStates /\ r.pc \in {"connect", "done"}
    BY <1>1, AfterCloseStates
  <2>2. /\ RabbitStep(c, r) /\ connected' = FALSE
        /\ openConns' = openConns \ {rcall[c].on}
    BY <1>2 DEF CloseConnection
  <2> HIDE DEF r
  <2>3. /\ rcall' \in [RabbitCallers -> RabbitCallStates]
        /\ rcall'[c] = r
        /\ \A d \in RabbitCallers \ {c} : rcall'[d] = rcall[d]
    BY <2>1, <2>2, RabbitCallMoves DEF RabbitInv
  <2>4. \A d \in RabbitCallers :
          rcall'[d] = rcall[d] \/ (rcall[d].pc = "closed" /\ rcall'[d].pc \in {"connect", "done"})
    BY <1>1, <2>1, <2>3
  <2>5. /\ UNCHANGED failures /\ early' = (early \/ rcall[c].on \notin handled)
        /\ channel' \in BOOLEAN /\ deaths' \in 0..MaxDeaths
        /\ early \in BOOLEAN
    BY <1>1 DEF counts, RabbitInv, RabbitTypeOK
  <2> QED
    BY <1>1, <1>2, <2>2, <2>3, <2>4, <2>5, EndKeeps
<1>3. CASE rcall[c].on \notin openConns
  <2> DEFINE free == [rcall[c] EXCEPT !.on = 0]
             r == Ends(free, "failed")
  <2>1. free \in RabbitCallStates
    BY <1>1 DEF RabbitCallStates
  <2>2. r \in RabbitCallStates /\ r.pc = "done"
    BY <2>1 DEF RabbitCallStates, Ends
  <2>3. RabbitStep(c, r) /\ UNCHANGED <<openConns, connected>>
    BY <1>3 DEF CloseConnection
  <2> HIDE DEF r, free
  <2>4. rcall[c].pc \notin ConnectingPcs /\ r.pc \notin ConnectingPcs
    BY <1>1, <2>2 DEF ConnectingPcs
  <2> QED
    BY <1>1, <2>2, <2>3, <2>4, Quiet
<1> QED
  BY <1>2, <1>3

LEMMA DieKeeps ==
  ASSUME RabbitInv, NEW k \in ConnIds, Die(k)
  PROVE  RabbitInv'
<1>1. deaths' \in 0..MaxDeaths
  BY RabbitAssumption DEF Die, RabbitInv, RabbitTypeOK
<1>2. rcall' \in [RabbitCallers -> RabbitCallStates] /\ channel' \in BOOLEAN
  BY DEF Die, RabbitInv, RabbitTypeOK
<1> QED
  BY <1>1, <1>2, EndKeeps DEF Die

-----------------------------------------------------------------------------
LEMMA RabbitInvNext == RabbitInv /\ [RabbitNext]_rabbitVars => RabbitInv'
<1> SUFFICES ASSUME RabbitInv, [RabbitNext]_rabbitVars PROVE RabbitInv'
  OBVIOUS
<1>1. ASSUME NEW c \in RabbitCallers, NEW o \in RabbitOps, CallBegin(c, o) \/ CloseBegin(c, o)
      PROVE  RabbitInv'
  BY <1>1, BeginKeeps
<1>2. ASSUME NEW c \in RabbitCallers, ConnectEnter(c) PROVE RabbitInv'
  BY <1>2, ConnectEnterKeeps
<1>3. ASSUME NEW c \in RabbitCallers, DialSucceeds(c) PROVE RabbitInv'
  BY <1>3, DialSucceedsKeeps
<1>4. ASSUME NEW c \in RabbitCallers, DialFails(c) PROVE RabbitInv'
  BY <1>4, FailuresKeep
<1>5. ASSUME NEW c \in RabbitCallers, Channels(c) PROVE RabbitInv'
  BY <1>5, FailuresKeep, ChannelsKeep
<1>6. ASSUME NEW c \in RabbitCallers, Ready(c) PROVE RabbitInv'
  BY <1>6, ReadyKeeps
<1>7. ASSUME NEW c \in RabbitCallers, Reply(c) \/ CloseChannels(c) PROVE RabbitInv'
  BY <1>7, AnswersKeep
<1>8. ASSUME NEW c \in RabbitCallers, CloseConnection(c) PROVE RabbitInv'
  BY <1>8, CloseConnectionKeeps
<1>9. ASSUME NEW k \in ConnIds, Die(k) PROVE RabbitInv'
  BY <1>9, DieKeeps
<1>10. CASE UNCHANGED rabbitVars
  BY <1>10 DEF rabbitVars, RabbitInv, RabbitTypeOK, RabbitSound, OneConnects, NoneForgotten,
               ConnectedIsOpen, RabbitCallsHold, FlagsHold
<1> QED
  BY <1>1, <1>2, <1>3, <1>4, <1>5, <1>6, <1>7, <1>8, <1>9, <1>10 DEF RabbitNext, RabbitCall

\* The state of a client of RabbitMQ keeps its types, for any number of calls, of
\* connections that end and of dials that fail.
THEOREM RabbitTypeCorrect == RabbitSpec => []RabbitTypeOK
<1>1. RabbitInv => RabbitTypeOK
  BY DEF RabbitInv
<1> QED
  BY <1>1, RabbitInvInit, RabbitInvNext, PTL DEF RabbitSpec

\* One call connects at a time, no open connection is forgotten, and a client that
\* says it is connected is, unless a connection ended before it had its handlers.
THEOREM RabbitSoundHolds == RabbitSpec => []RabbitSound
<1>1. RabbitInv => RabbitSound
  BY DEF RabbitInv
<1> QED
  BY <1>1, RabbitInvInit, RabbitInvNext, PTL DEF RabbitSpec

-----------------------------------------------------------------------------
(* The Redis driver implements the abstract queue. *)

\* A push has its one command to send; a pull pops until it has what it asked for,
\* and what it popped it holds until it is answered, unless it fails.
RedisCallsHold ==
  \A c \in RedisCallers :
    /\ dcall[c].pc = "idle" => dcall[c].got = {} /\ dcall[c].op = "none"
    /\ dcall[c].pc = "pop" => dcall[c].left # 0
    /\ dcall[c].pc \in {"pop", "return"} => dcall[c].op = "pull"
    /\ dcall[c].op = "pull" => dcall[c].pc \in {"pop", "return", "done"}
    /\ dcall[c].answer # "none" => dcall[c].pc = "done"
    /\ dcall[c].got # {} => dcall[c].op = "pull" /\ dcall[c].answer \in {"none", "ok"}

RedisInv == RedisTypeOK /\ RedisCallsHold

\* One call moves: r is what becomes of it.
LEMMA RedisCallMoves ==
  ASSUME NEW c \in RedisCallers, RedisTypeOK, NEW r \in RedisCallStates, RedisStep(c, r)
  PROVE  /\ dcall' \in [RedisCallers -> RedisCallStates]
         /\ dcall'[c] = r
         /\ \A d \in RedisCallers \ {c} : dcall'[d] = dcall[d]
BY DEF RedisTypeOK, RedisStep

\* A step of a call to r, with what the invariant asks of r.
LEMMA RedisMoveKeeps ==
  ASSUME NEW c \in RedisCallers, RedisInv, NEW r \in RedisCallStates, RedisStep(c, r),
         there' \in BOOLEAN, inRedis' \subseteq RedisCallers,
         r.pc = "idle" => r.got = {} /\ r.op = "none",
         r.pc = "pop" => r.left # 0,
         r.pc \in {"pop", "return"} => r.op = "pull",
         r.op = "pull" => r.pc \in {"pop", "return", "done"},
         r.answer # "none" => r.pc = "done",
         r.got # {} => r.op = "pull" /\ r.answer \in {"none", "ok"}
  PROVE  RedisInv'
<1>1. /\ dcall' \in [RedisCallers -> RedisCallStates]
      /\ dcall'[c] = r
      /\ \A d \in RedisCallers \ {c} : dcall'[d] = dcall[d]
  BY RedisCallMoves DEF RedisInv
<1>2. RedisTypeOK'
  BY <1>1 DEF RedisTypeOK
<1>3. RedisCallsHold'
  BY <1>1 DEF RedisInv, RedisCallsHold
<1> QED
  BY <1>2, <1>3 DEF RedisInv

\* A call goes to a place where it holds no more than before, or ends.
LEMMA RedisGoesOn ==
  ASSUME NEW c \in RedisCallers, RedisInv,
         NEW l \in {"drop", "list_again", "make"},
         dcall[c].pc # "done", dcall[c].op # "pull", RedisGoes(c, l),
         there' \in BOOLEAN, inRedis' \subseteq RedisCallers
  PROVE  RedisInv'
<1> DEFINE r == GoesTo(dcall[c], l)
<1>1. dcall[c] \in RedisCallStates
  BY DEF RedisInv, RedisTypeOK
<1>2. r \in RedisCallStates /\ r.pc = l /\ r.op = dcall[c].op /\ r.got = dcall[c].got
      /\ r.answer = dcall[c].answer
  BY <1>1 DEF RedisCallStates, GoesTo
<1>3. RedisStep(c, r)
  BY DEF RedisGoes
<1>4. dcall[c].got = {} /\ dcall[c].answer = "none"
  BY DEF RedisInv, RedisCallsHold
<1> HIDE DEF r
<1> QED
  BY <1>2, <1>3, <1>4, RedisMoveKeeps

LEMMA RedisAnswers ==
  ASSUME NEW c \in RedisCallers, RedisInv, NEW a \in {"ok", "failed", "hung"},
         dcall[c].got = {} \/ a = "ok", RedisEnds(c, a),
         there' \in BOOLEAN, inRedis' \subseteq RedisCallers
  PROVE  RedisInv'
<1> DEFINE r == Ends(dcall[c], a)
<1>1. dcall[c] \in RedisCallStates
  BY DEF RedisInv, RedisTypeOK
<1>2. r \in RedisCallStates /\ r.pc = "done" /\ r.op = dcall[c].op /\ r.got = dcall[c].got
      /\ r.answer = a
  BY <1>1 DEF RedisCallStates, Ends
<1>3. RedisStep(c, r)
  BY DEF RedisEnds
<1>4. dcall[c].got # {} => dcall[c].op = "pull"
  BY DEF RedisInv, RedisCallsHold
<1> HIDE DEF r
<1> QED
  BY <1>2, <1>3, <1>4, RedisMoveKeeps

LEMMA RedisInvInit == RedisInit => RedisInv
<1> SUFFICES ASSUME RedisInit PROVE RedisInv
  OBVIOUS
<1>1. RedisTypeOK
  BY RedisAssumption DEF RedisInit, RedisTypeOK, RedisCallStates
<1>2. RedisCallsHold
  BY DEF RedisInit, RedisCallsHold
<1> QED
  BY <1>1, <1>2 DEF RedisInv

\* Who has got nothing has popped nothing.
LEMMA RedisEmptyHanded ==
  ASSUME NEW c \in RedisCallers, RedisInv,
         dcall[c].pc \in {"ping", "list", "drop", "list_again", "make", "send"}
  PROVE  dcall[c].got = {} /\ dcall[c].op # "pull" /\ dcall[c].pc # "done"
         /\ dcall[c].answer = "none"
BY DEF RedisInv, RedisCallsHold

\* The record that a pull goes on with when it popped m.
LEMMA RedisPops ==
  ASSUME NEW c \in RedisCallers, RedisInv, dcall[c].pc = "pop", NEW m \in RedisCallers
  PROVE  LET r == [dcall[c] EXCEPT !.got = @ \cup {m}, !.left = @ - 1,
                     !.pc = IF dcall[c].left = 1 THEN "return" ELSE "pop"]
         IN  /\ r \in RedisCallStates
             /\ r.op = "pull" /\ r.answer = "none" /\ r.got = dcall[c].got \cup {m}
             /\ r.pc \in {"pop", "return"} /\ (r.pc = "pop" => r.left # 0)
<1> DEFINE l == IF dcall[c].left = 1 THEN "return" ELSE "pop"
           n == dcall[c].left - 1
           g == dcall[c].got \cup {m}
           r == [dcall[c] EXCEPT !.got = g, !.left = n, !.pc = l]
<1>1. dcall[c] \in RedisCallStates
  BY DEF RedisInv, RedisTypeOK
<1>2. dcall[c].left \in 1..PullCount /\ dcall[c].op = "pull" /\ dcall[c].answer = "none"
  BY <1>1, RedisAssumption DEF RedisInv, RedisCallsHold, RedisCallStates
<1>3. n \in 0..PullCount
  BY <1>2, RedisAssumption
<1>4. l \in {"return", "pop"} /\ (l = "pop" => n # 0)
  BY <1>2
<1>5. g \in SUBSET RedisCallers
  BY <1>1 DEF RedisCallStates
<1> HIDE DEF l, n, g
<1>6. r \in RedisCallStates
  BY <1>1, <1>3, <1>4, <1>5 DEF RedisCallStates
<1>7. r.op = dcall[c].op /\ r.answer = dcall[c].answer /\ r.got = g /\ r.pc = l /\ r.left = n
  BY <1>1 DEF RedisCallStates
<1> HIDE DEF r
<1>8. /\ r \in RedisCallStates
      /\ r.op = "pull" /\ r.answer = "none" /\ r.got = dcall[c].got \cup {m}
      /\ r.pc \in {"pop", "return"} /\ (r.pc = "pop" => r.left # 0)
  BY <1>2, <1>4, <1>6, <1>7 DEF g
<1> QED
  BY <1>8 DEF r, l, n, g

\* The record of a pull that ends at once, with what it popped or with nothing.
LEMMA RedisPullEnds ==
  ASSUME NEW c \in RedisCallers, RedisInv, dcall[c].pc = "pop"
  PROVE  /\ LET r == Ends([dcall[c] EXCEPT !.got = {}, !.left = 0], "failed") IN
            r \in RedisCallStates /\ r.pc = "done" /\ r.op = "pull" /\ r.answer = "failed"
            /\ r.got = {}
         /\ LET r == Ends([dcall[c] EXCEPT !.left = 0], "ok") IN
            r \in RedisCallStates /\ r.pc = "done" /\ r.op = "pull" /\ r.answer = "ok"
            /\ r.got = dcall[c].got
<1>1. dcall[c] \in RedisCallStates /\ dcall[c].op = "pull"
  BY DEF RedisInv, RedisTypeOK, RedisCallsHold
<1>2. 0 \in 0..PullCount
  BY RedisAssumption
<1> DEFINE lost == [dcall[c] EXCEPT !.got = {}, !.left = 0]
           full == [dcall[c] EXCEPT !.left = 0]
<1>3. lost \in RedisCallStates /\ lost.op = "pull" /\ lost.got = {}
  BY <1>1, <1>2 DEF RedisCallStates
<1>4. full \in RedisCallStates /\ full.op = "pull" /\ full.got = dcall[c].got
  BY <1>1, <1>2 DEF RedisCallStates
<1> HIDE DEF lost, full
<1>5. ASSUME NEW call \in RedisCallStates, NEW a \in {"ok", "failed"}
      PROVE  /\ Ends(call, a) \in RedisCallStates
             /\ Ends(call, a).pc = "done" /\ Ends(call, a).answer = a
             /\ Ends(call, a).op = call.op /\ Ends(call, a).got = call.got
  BY DEF RedisCallStates, Ends
<1>6. /\ Ends(lost, "failed") \in RedisCallStates /\ Ends(lost, "failed").pc = "done"
      /\ Ends(lost, "failed").op = "pull" /\ Ends(lost, "failed").answer = "failed"
      /\ Ends(lost, "failed").got = {}
  BY <1>3, <1>5
<1>7. /\ Ends(full, "ok") \in RedisCallStates /\ Ends(full, "ok").pc = "done"
      /\ Ends(full, "ok").op = "pull" /\ Ends(full, "ok").answer = "ok"
      /\ Ends(full, "ok").got = dcall[c].got
  BY <1>4, <1>5
<1> QED
  BY <1>6, <1>7 DEF lost, full

\* What the abstract queue has for fresh, taken and delivered.
RedisFresh == {c \in RedisCallers : dcall[c].pc \in {"idle", "send"}}
RedisTaken == [c \in RedisCallers |-> IF Pulled(c) THEN {} ELSE dcall[c].got]
RedisDelivered == [c \in RedisCallers |-> IF Pulled(c) THEN dcall[c].got ELSE {}]

\* A step of one call changes what it has put, taken or been given, and nothing else.
LEMMA RedisMapped ==
  ASSUME NEW c \in RedisCallers, RedisInv, NEW r \in RedisCallStates, RedisStep(c, r)
  PROVE  LET given == r.op = "pull" /\ r.answer = "ok" IN
         /\ RedisFresh' = IF r.pc \in {"idle", "send"} THEN RedisFresh \cup {c}
                          ELSE RedisFresh \ {c}
         /\ RedisTaken' = [RedisTaken EXCEPT ![c] = IF given THEN {} ELSE r.got]
         /\ RedisDelivered' = [RedisDelivered EXCEPT ![c] = IF given THEN r.got ELSE {}]
<1> DEFINE given == r.op = "pull" /\ r.answer = "ok"
<1>1. /\ dcall'[c] = r
      /\ \A d \in RedisCallers \ {c} : dcall'[d] = dcall[d]
  BY RedisCallMoves DEF RedisInv
<1>2. RedisFresh' = IF r.pc \in {"idle", "send"} THEN RedisFresh \cup {c}
                    ELSE RedisFresh \ {c}
  BY <1>1 DEF RedisFresh
<1>3. ASSUME NEW d \in RedisCallers
      PROVE  /\ RedisTaken'[d] = IF d = c THEN IF given THEN {} ELSE r.got ELSE RedisTaken[d]
             /\ RedisDelivered'[d] =
                  IF d = c THEN IF given THEN r.got ELSE {} ELSE RedisDelivered[d]
  BY <1>1 DEF RedisTaken, RedisDelivered, Pulled
<1> HIDE DEF given
<1>4. RedisTaken' = [RedisTaken EXCEPT ![c] = IF given THEN {} ELSE r.got]
  BY <1>3, Zenon DEF RedisTaken
<1>5. RedisDelivered' = [RedisDelivered EXCEPT ![c] = IF given THEN r.got ELSE {}]
  BY <1>3, Zenon DEF RedisDelivered
<1> QED
  BY <1>2, <1>4, <1>5 DEF given

\* A call that is not answered goes on without what it popped, or with it: the
\* abstract queue loses something, or nothing.
LEMMA RedisLoses ==
  ASSUME NEW c \in RedisCallers, RedisInv, NEW r \in RedisCallStates, RedisStep(c, r),
         dcall[c].answer = "none", r.got \subseteq dcall[c].got,
         r.op = "pull" /\ r.answer = "ok" => r.got = {},
         r.pc \in {"idle", "send"} => dcall[c].pc \in {"idle", "send"},
         inRedis' \subseteq inRedis
  PROVE  RedisQueue!Next
<1>1. r.got \in SUBSET RedisCallers
  BY DEF RedisCallStates
<1>2. RedisFresh' \subseteq RedisFresh
  BY RedisMapped DEF RedisFresh
<1>3. ~ Pulled(c) /\ RedisTaken[c] = dcall[c].got /\ RedisDelivered[c] = {}
  BY DEF Pulled, RedisTaken, RedisDelivered
<1>4. RedisTaken' = [RedisTaken EXCEPT ![c] = r.got]
  BY RedisMapped
<1>5. RedisDelivered' = [RedisDelivered EXCEPT ![c] = {}]
  BY RedisMapped
<1>6. RedisDelivered' = RedisDelivered
  BY <1>3, <1>5 DEF RedisDelivered
<1>7. RedisTaken \in [RedisCallers -> SUBSET RedisCallers]
  BY DEF RedisInv, RedisTypeOK, RedisCallStates, RedisTaken
<1>8. /\ RedisTaken' \in [RedisCallers -> SUBSET RedisCallers]
      /\ \A d \in RedisCallers : RedisTaken'[d] \subseteq RedisTaken[d]
  BY <1>1, <1>3, <1>4, <1>7
<1>9. RedisQueue!Lose
  BY <1>2, <1>6, <1>8 DEF RedisQueue!Lose, RedisFresh, RedisTaken, RedisDelivered
<1> QED
  BY <1>9 DEF RedisQueue!Next

-----------------------------------------------------------------------------
\* What a step of the driver keeps and is.
RedisSimulates == RedisInv' /\ [RedisQueue!Next]_(RedisQueue!vars)

\* A command of a call that is not a pull is answered, and nothing is stored.
LEMMA RedisQuiet ==
  ASSUME NEW c \in RedisCallers, RedisInv,
         dcall[c].pc \in {"ping", "list", "drop", "list_again", "make", "send"},
         \/ \E a \in {"ok", "failed", "hung"} : RedisEnds(c, a)
         \/ \E l \in {"drop", "list_again", "make"} : RedisGoes(c, l),
         there' \in BOOLEAN, inRedis' \subseteq inRedis
  PROVE  RedisSimulates
<1>1. dcall[c] \in RedisCallStates /\ inRedis' \subseteq RedisCallers
  BY DEF RedisInv, RedisTypeOK
<1>2. dcall[c].got = {} /\ dcall[c].op # "pull" /\ dcall[c].pc # "done"
      /\ dcall[c].answer = "none"
  BY RedisEmptyHanded
<1>3. ASSUME NEW a \in {"ok", "failed", "hung"}, RedisEnds(c, a) PROVE RedisSimulates
  <2> DEFINE r == Ends(dcall[c], a)
  <2>1. r \in RedisCallStates /\ r.pc = "done" /\ r.op = dcall[c].op /\ r.got = dcall[c].got
    BY <1>1 DEF RedisCallStates, Ends
  <2>2. RedisStep(c, r)
    BY <1>3 DEF RedisEnds
  <2> HIDE DEF r
  <2>3. RedisQueue!Next
    BY <1>2, <2>1, <2>2, RedisLoses
  <2>4. RedisInv'
    BY <1>1, <1>2, <1>3, RedisAnswers
  <2> QED
    BY <2>3, <2>4 DEF RedisSimulates
<1>4. ASSUME NEW l \in {"drop", "list_again", "make"}, RedisGoes(c, l) PROVE RedisSimulates
  <2> DEFINE r == GoesTo(dcall[c], l)
  <2>1. r \in RedisCallStates /\ r.pc = l /\ r.op = dcall[c].op /\ r.got = dcall[c].got
    BY <1>1 DEF RedisCallStates, GoesTo
  <2>2. RedisStep(c, r)
    BY <1>4 DEF RedisGoes
  <2> HIDE DEF r
  <2>3. RedisQueue!Next
    BY <1>2, <2>1, <2>2, RedisLoses
  <2>4. RedisInv'
    BY <1>1, <1>2, <1>4, RedisGoesOn
  <2> QED
    BY <2>3, <2>4 DEF RedisSimulates
<1> QED
  BY <1>3, <1>4

LEMMA RedisBeginSimulates ==
  ASSUME NEW c \in RedisCallers, NEW o \in RedisOps, RedisInv, RedisBegin(c, o)
  PROVE  RedisSimulates
<1> DEFINE n == IF o = "pull" THEN PullCount ELSE 0
           l == FirstCommand(o)
           r == [dcall[c] EXCEPT !.op = o, !.pc = l, !.left = n]
<1>1. dcall[c] \in RedisCallStates /\ dcall[c].pc = "idle" /\ there \in BOOLEAN
      /\ inRedis \subseteq RedisCallers
  BY DEF RedisInv, RedisTypeOK, RedisBegin, IsNext
<1>2. dcall[c].got = {} /\ dcall[c].answer = "none"
  BY <1>1 DEF RedisInv, RedisCallsHold
<1>3. n \in 0..PullCount /\ (o = "pull" => n # 0)
  BY RedisAssumption
<1>4. /\ l \in {"ping", "list", "send", "pop"}
      /\ l = "pop" <=> o = "pull"
  BY DEF RedisOps, FirstCommand
<1>5. RedisStep(c, r) /\ UNCHANGED <<there, inRedis>>
  BY DEF RedisBegin, QueueKept
<1> HIDE DEF n, l
<1>6. /\ r \in RedisCallStates /\ r.op = o /\ r.pc = l /\ r.left = n
      /\ r.got = {} /\ r.answer = "none"
  BY <1>1, <1>2, <1>3, <1>4 DEF RedisCallStates
<1> HIDE DEF r
<1>7. RedisInv'
  BY <1>1, <1>3, <1>4, <1>5, <1>6, RedisMoveKeeps
<1>8. RedisQueue!Next
  BY <1>1, <1>2, <1>4, <1>5, <1>6, RedisLoses
<1> QED
  BY <1>7, <1>8 DEF RedisSimulates

\* The message of a push is stored, whatever the caller hears of it.
LEMMA RedisPutSimulates ==
  ASSUME NEW c \in RedisCallers, NEW a \in {"ok", "failed"}, RedisInv, RedisAt(c, "send"),
         inRedis' = inRedis \cup {c}, RedisEnds(c, a), UNCHANGED there
  PROVE  RedisSimulates
<1> DEFINE r == Ends(dcall[c], a)
<1>1. dcall[c] \in RedisCallStates /\ there \in BOOLEAN /\ inRedis' \subseteq RedisCallers
      /\ dcall[c].pc = "send"
  BY DEF RedisInv, RedisTypeOK, RedisAt
<1>2. dcall[c].got = {} /\ dcall[c].op # "pull" /\ dcall[c].answer = "none"
  BY <1>1, RedisEmptyHanded
<1>3. r \in RedisCallStates /\ r.pc = "done" /\ r.op = dcall[c].op /\ r.got = {}
  BY <1>1, <1>2 DEF RedisCallStates, Ends
<1>4. RedisStep(c, r)
  BY DEF RedisEnds
<1> HIDE DEF r
<1>5. RedisFresh' = RedisFresh \ {c} /\ c \in RedisFresh
  BY <1>1, <1>3, <1>4, RedisMapped DEF RedisFresh
<1>6. RedisTaken' = [RedisTaken EXCEPT ![c] = {}]
      /\ RedisDelivered' = [RedisDelivered EXCEPT ![c] = {}]
  BY <1>2, <1>3, <1>4, RedisMapped
<1>7. RedisTaken[c] = {} /\ RedisDelivered[c] = {}
  BY <1>2 DEF RedisTaken, RedisDelivered, Pulled
<1>8. RedisTaken' = RedisTaken /\ RedisDelivered' = RedisDelivered
  BY <1>6, <1>7 DEF RedisTaken, RedisDelivered
<1>9. RedisQueue!Put(c)
  BY <1>5, <1>8 DEF RedisQueue!Put, RedisFresh, RedisTaken, RedisDelivered
<1>10. RedisInv'
  BY <1>1, <1>2, RedisAnswers
<1> QED
  BY <1>9, <1>10 DEF RedisSimulates, RedisQueue!Next

\* A pull is answered with what it popped: the abstract queue returns it.
LEMMA RedisReturnSimulates ==
  ASSUME NEW c \in RedisCallers, RedisInv, UNCHANGED <<there, inRedis>>,
         dcall[c].op = "pull", dcall[c].answer = "none",
         NEW r \in RedisCallStates, RedisStep(c, r), r.pc = "done", r.op = "pull",
         r.answer = "ok", r.got = dcall[c].got, dcall[c].pc \in {"pop", "return"}
  PROVE  RedisSimulates
<1>1. there \in BOOLEAN /\ inRedis \subseteq RedisCallers
  BY DEF RedisInv, RedisTypeOK
<1>2. RedisInv'
  BY <1>1, RedisMoveKeeps
<1>3. RedisFresh' = RedisFresh
  BY RedisMapped DEF RedisFresh
<1>4. RedisTaken' = [RedisTaken EXCEPT ![c] = {}]
      /\ RedisDelivered' = [RedisDelivered EXCEPT ![c] = dcall[c].got]
  BY RedisMapped
<1>5. RedisTaken[c] = dcall[c].got /\ RedisDelivered[c] = {}
  BY DEF RedisTaken, RedisDelivered, Pulled
<1>6. RedisDelivered' = [RedisDelivered EXCEPT ![c] = @ \cup RedisTaken[c]]
  BY <1>4, <1>5 DEF RedisDelivered
<1>7. RedisQueue!Return(c)
  BY <1>3, <1>4, <1>6 DEF RedisQueue!Return, RedisFresh, RedisTaken, RedisDelivered
<1> QED
  BY <1>2, <1>7 DEF RedisSimulates, RedisQueue!Next

\* A pull fails, and what it had popped is lost.
LEMMA RedisPullFailsSimulates ==
  ASSUME NEW c \in RedisCallers, RedisInv, RedisAt(c, "pop"), UNCHANGED there,
         inRedis' \subseteq inRedis,
         RedisStep(c, Ends([dcall[c] EXCEPT !.got = {}, !.left = 0], "failed"))
  PROVE  RedisSimulates
<1> DEFINE r == Ends([dcall[c] EXCEPT !.got = {}, !.left = 0], "failed")
<1>1. there \in BOOLEAN /\ inRedis \subseteq RedisCallers /\ dcall[c].pc = "pop"
  BY DEF RedisInv, RedisTypeOK, RedisAt
<1>2. r \in RedisCallStates /\ r.pc = "done" /\ r.op = "pull" /\ r.answer = "failed"
      /\ r.got = {}
  BY <1>1, RedisPullEnds
<1>3. dcall[c].answer = "none"
  BY <1>1 DEF RedisInv, RedisCallsHold
<1> HIDE DEF r
<1>4. RedisStep(c, r)
  BY DEF r
<1>5. RedisInv'
  BY <1>1, <1>2, <1>4, RedisMoveKeeps
<1>6. RedisQueue!Next
  BY <1>1, <1>2, <1>3, <1>4, RedisLoses
<1> QED
  BY <1>5, <1>6 DEF RedisSimulates

LEMMA RedisPopSimulates ==
  ASSUME NEW c \in RedisCallers, RedisInv, Pop(c)
  PROVE  RedisSimulates
<1>1. there \in BOOLEAN /\ inRedis \subseteq RedisCallers /\ dcall[c].pc = "pop"
      /\ RedisAt(c, "pop") /\ UNCHANGED there
  BY DEF RedisInv, RedisTypeOK, Pop, RedisAt
<1>2. dcall[c].answer = "none" /\ dcall[c].op = "pull"
  BY <1>1 DEF RedisInv, RedisCallsHold
<1>3. CASE /\ RedisStep(c, Ends([dcall[c] EXCEPT !.got = {}, !.left = 0], "failed"))
           /\ UNCHANGED inRedis
  BY <1>1, <1>3, RedisPullFailsSimulates
<1>4. CASE /\ RedisStep(c, Ends([dcall[c] EXCEPT !.left = 0], "ok"))
           /\ UNCHANGED inRedis
  <2> DEFINE r == Ends([dcall[c] EXCEPT !.left = 0], "ok")
  <2>1. r \in RedisCallStates /\ r.pc = "done" /\ r.op = "pull" /\ r.answer = "ok"
        /\ r.got = dcall[c].got
    BY <1>1, RedisPullEnds
  <2>2. RedisStep(c, r)
    BY <1>4
  <2> HIDE DEF r
  <2> QED
    BY <1>1, <1>2, <1>4, <2>1, <2>2, RedisReturnSimulates
<1>5. ASSUME NEW m \in inRedis, inRedis' = inRedis \ {m},
             RedisStep(c, [dcall[c] EXCEPT !.got = @ \cup {m}, !.left = @ - 1,
                             !.pc = IF dcall[c].left = 1 THEN "return" ELSE "pop"])
      PROVE  RedisSimulates
  <2> DEFINE r == [dcall[c] EXCEPT !.got = @ \cup {m}, !.left = @ - 1,
                     !.pc = IF dcall[c].left = 1 THEN "return" ELSE "pop"]
  <2>1. m \in RedisCallers
    BY <1>1
  <2>2. RedisStep(c, r)
    BY <1>5
  <2>3. /\ r \in RedisCallStates
        /\ r.op = "pull" /\ r.answer = "none" /\ r.got = dcall[c].got \cup {m}
        /\ r.pc \in {"pop", "return"} /\ (r.pc = "pop" => r.left # 0)
    BY <1>1, <2>1, RedisPops
  <2> HIDE DEF r
  <2>4. RedisInv'
    BY <1>1, <1>5, <2>2, <2>3, RedisMoveKeeps
  <2>5. RedisFresh' = RedisFresh
    BY <1>1, <2>2, <2>3, RedisMapped DEF RedisFresh
  <2>6. RedisTaken' = [RedisTaken EXCEPT ![c] = dcall[c].got \cup {m}]
        /\ RedisDelivered' = [RedisDelivered EXCEPT ![c] = {}]
    BY <2>2, <2>3, RedisMapped
  <2>7. RedisTaken[c] = dcall[c].got /\ RedisDelivered[c] = {}
    BY <1>2 DEF RedisTaken, RedisDelivered, Pulled
  <2>8. RedisTaken' = [RedisTaken EXCEPT ![c] = @ \cup {m}] /\ RedisDelivered' = RedisDelivered
    BY <2>6, <2>7 DEF RedisTaken, RedisDelivered
  <2>9. RedisQueue!Take(c, m)
    BY <1>5, <2>5, <2>8 DEF RedisQueue!Take, RedisFresh, RedisTaken, RedisDelivered
  <2> QED
    BY <2>1, <2>4, <2>9 DEF RedisSimulates, RedisQueue!Next
<1> QED
  BY <1>3, <1>4, <1>5 DEF Pop

LEMMA RedisPullReturnsSimulates ==
  ASSUME NEW c \in RedisCallers, RedisInv, PullReturns(c)
  PROVE  RedisSimulates
<1> DEFINE r == Ends(dcall[c], "ok")
<1>1. dcall[c] \in RedisCallStates /\ dcall[c].pc = "return" /\ UNCHANGED <<there, inRedis>>
  BY DEF RedisInv, RedisTypeOK, PullReturns, RedisAt, QueueKept
<1>2. dcall[c].answer = "none" /\ dcall[c].op = "pull"
  BY <1>1 DEF RedisInv, RedisCallsHold
<1>3. r \in RedisCallStates /\ r.pc = "done" /\ r.op = "pull" /\ r.answer = "ok"
      /\ r.got = dcall[c].got
  BY <1>1, <1>2 DEF RedisCallStates, Ends
<1>4. RedisStep(c, r)
  BY DEF PullReturns, RedisEnds
<1> HIDE DEF r
<1> QED
  BY <1>1, <1>2, <1>3, <1>4, RedisReturnSimulates

LEMMA RedisCommandFailsSimulates ==
  ASSUME NEW c \in RedisCallers, RedisInv, CommandFails(c)
  PROVE  RedisSimulates
<1>1. there \in BOOLEAN /\ inRedis \subseteq RedisCallers
  BY DEF RedisInv, RedisTypeOK
<1>2. CASE /\ dcall[c].pc \in {"list", "drop", "list_again", "make", "send"}
           /\ Throws(c)
           /\ QueueKept
  <2>1. \E a \in {"ok", "failed", "hung"} : RedisEnds(c, a)
    BY <1>2 DEF Throws
  <2> QED
    BY <1>1, <1>2, <2>1, RedisQuiet DEF QueueKept
<1>3. CASE /\ RedisAt(c, "send") /\ there
           /\ inRedis' = inRedis \cup {c}
           /\ RedisEnds(c, "failed")
           /\ UNCHANGED there
  BY <1>3, RedisPutSimulates
<1>4. CASE \E gone \in SUBSET inRedis :
             /\ RedisAt(c, "pop") /\ there /\ \A m, n \in gone : m = n
             /\ inRedis' = inRedis \ gone
             /\ RedisStep(c, Ends([dcall[c] EXCEPT !.got = {}, !.left = 0], "failed"))
             /\ UNCHANGED there
  BY <1>4, RedisPullFailsSimulates
<1> QED
  BY <1>2, <1>3, <1>4 DEF CommandFails

LEMMA RedisNextSimulates == RedisInv /\ [RedisNext]_redisVars => RedisSimulates
<1> SUFFICES ASSUME RedisInv, [RedisNext]_redisVars PROVE RedisSimulates
  OBVIOUS
<1>1. there \in BOOLEAN /\ inRedis \subseteq RedisCallers
  BY DEF RedisInv, RedisTypeOK
<1>2. ASSUME NEW c \in RedisCallers, NEW o \in RedisOps, RedisBegin(c, o)
      PROVE  RedisSimulates
  BY <1>2, RedisBeginSimulates
<1>3. ASSUME NEW c \in RedisCallers, Ping(c) PROVE RedisSimulates
  BY <1>1, <1>3, RedisQuiet DEF Ping, RedisAt, QueueKept
<1>4. ASSUME NEW c \in RedisCallers, ListQueues(c) PROVE RedisSimulates
  BY <1>1, <1>4, RedisQuiet DEF ListQueues, RedisAt, QueueKept
<1>5. ASSUME NEW c \in RedisCallers, DropQueue(c) PROVE RedisSimulates
  BY <1>1, <1>5, RedisQuiet DEF DropQueue, RedisAt
<1>6. ASSUME NEW c \in RedisCallers, ListAgain(c) PROVE RedisSimulates
  BY <1>1, <1>6, RedisQuiet DEF ListAgain, RedisAt, QueueKept
<1>7. ASSUME NEW c \in RedisCallers, MakeQueue(c) PROVE RedisSimulates
  BY <1>1, <1>7, RedisQuiet DEF MakeQueue, RedisAt, Throws
<1>8. ASSUME NEW c \in RedisCallers, Send(c) PROVE RedisSimulates
  <2>1. CASE inRedis' = inRedis \cup {c} /\ RedisEnds(c, "ok")
    BY <1>8, <2>1, RedisPutSimulates DEF Send
  <2>2. CASE RedisEnds(c, "failed") /\ UNCHANGED inRedis
    BY <1>1, <1>8, <2>2, RedisQuiet DEF Send, RedisAt
  <2> QED
    BY <1>8, <2>1, <2>2 DEF Send
<1>9. ASSUME NEW c \in RedisCallers, Pop(c) PROVE RedisSimulates
  BY <1>9, RedisPopSimulates
<1>10. ASSUME NEW c \in RedisCallers, PullReturns(c) PROVE RedisSimulates
  BY <1>10, RedisPullReturnsSimulates
<1>11. ASSUME NEW c \in RedisCallers, CommandFails(c) PROVE RedisSimulates
  BY <1>11, RedisCommandFailsSimulates
<1>12. CASE UNCHANGED redisVars
  <2>1. RedisInv'
    BY <1>12 DEF redisVars, RedisInv, RedisTypeOK, RedisCallsHold
  <2>2. UNCHANGED RedisQueue!vars
    BY <1>12 DEF redisVars, RedisQueue!vars, Pulled
  <2> QED
    BY <2>1, <2>2 DEF RedisSimulates
<1> QED
  BY <1>2, <1>3, <1>4, <1>5, <1>6, <1>7, <1>8, <1>9, <1>10, <1>11, <1>12 DEF RedisNext

\* The queue in Redis and the calls on it keep their types, for any number of calls
\* and any size of a pull.
THEOREM RedisTypeCorrect == RedisSpec => []RedisTypeOK
<1>1. RedisInv /\ [RedisNext]_redisVars => RedisInv'
  BY RedisNextSimulates DEF RedisSimulates
<1>2. RedisInv => RedisTypeOK
  BY DEF RedisInv
<1> QED
  BY <1>1, <1>2, RedisInvInit, PTL DEF RedisSpec

\* Calls of the Redis driver, their commands interleaved and failing, implement the
\* abstract queue: every behaviour of theirs is one that the queue allows.
THEOREM RedisImplements == RedisSpec => RedisImplementsQueue
<1>1. RedisInit => RedisQueue!Init
  <2> SUFFICES ASSUME RedisInit PROVE RedisQueue!Init
    OBVIOUS
  <2>1. RedisFresh = RedisCallers /\ inRedis = {}
    BY DEF RedisInit, RedisFresh
  <2>2. RedisTaken = [c \in RedisCallers |-> {}] /\ RedisDelivered = [c \in RedisCallers |-> {}]
    BY DEF RedisInit, RedisTaken, RedisDelivered, Pulled
  <2> QED
    BY <2>1, <2>2 DEF RedisQueue!Init, RedisFresh, RedisTaken, RedisDelivered
<1>2. RedisInv /\ [RedisNext]_redisVars => RedisInv'
  BY RedisNextSimulates DEF RedisSimulates
<1>3. RedisInv /\ [RedisNext]_redisVars => [RedisQueue!Next]_(RedisQueue!vars)
  BY RedisNextSimulates DEF RedisSimulates
<1> QED
  BY <1>1, <1>2, <1>3, RedisInvInit, PTL DEF RedisSpec, RedisQueue!Spec, RedisImplementsQueue
=============================================================================
