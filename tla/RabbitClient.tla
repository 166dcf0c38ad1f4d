---------------------------- MODULE RabbitClient ----------------------------
(***************************************************************************)
(* One client of RabbitMQ, shared by the requests of a process             *)
(* (lib/queue_backend/rabbitmq.js): how they agree on who connects, what   *)
(* happens to them when the connection or a channel ends, and how they     *)
(* come back.  The messages themselves are in QueueService.                *)
(*                                                                         *)
(* A step runs from one answer of the broker, or one turn of a timer, to   *)
(* the next.                                                               *)
(***************************************************************************)
EXTENDS Calls

CONSTANTS RabbitCalls, \* number of calls, in the order they begin
          MaxDeaths,   \* how many connections may end by themselves
          MaxFailures  \* how many dials may fail

ASSUME RabbitAssumption ==
  RabbitCalls \in Nat /\ MaxDeaths \in Nat /\ MaxFailures \in Nat

VARIABLES connected, connecting, \* the two flags of the client
          conn,     \* the connection in use; they are numbered as they are made
          openConns, \* connections that are open
          handled,  \* connections whose events set the flag connected
          channel,  \* whether the channel of conn is open
          rcall,    \* call -> what it does and where it is
          deaths, failures,
          early     \* a connection has ended before it had its handlers (history)

rabbitVars == <<connected, connecting, conn, openConns, handled, channel, rcall,
                deaths, failures, early>>

RabbitCallers == 1..RabbitCalls

\* Every call closes and makes at most one, and those that die are made anew.
ConnIds == 1..(1 + MaxDeaths + 2 * RabbitCalls)

\* get stands for pull and pullNoAck, queue for create, delete and purge.
RabbitOps == {"connect", "reconnect", "close", "push", "get", "queue"}

RabbitCallStates ==
  [op: RabbitOps \cup {"none"},
   pc: {"idle", "connect", "dial", "channels", "ready", "reply", "closing", "closed", "done"},
   on: ConnIds \cup {0}, answer: {"none", "ok", "failed"}]

RabbitTypeOK ==
  /\ connected \in BOOLEAN /\ connecting \in BOOLEAN /\ channel \in BOOLEAN /\ early \in BOOLEAN
  /\ conn \in ConnIds \cup {0}
  /\ openConns \subseteq ConnIds /\ handled \subseteq ConnIds
  /\ rcall \in [RabbitCallers -> RabbitCallStates]
  /\ deaths \in 0..MaxDeaths /\ failures \in 0..MaxFailures

RabbitInit ==
  /\ connected = FALSE /\ connecting = FALSE /\ channel = FALSE /\ early = FALSE
  /\ conn = 0 /\ openConns = {} /\ handled = {} /\ deaths = 0 /\ failures = 0
  /\ rcall = [c \in RabbitCallers |->
                [op |-> "none", pc |-> "idle", on |-> 0, answer |-> "none"]]

links == <<conn, openConns, handled, channel>>
counts == <<deaths, failures, early>>

RabbitStep(c, r) == rcall' = [rcall EXCEPT ![c] = r]
RabbitAt(c, l) == rcall[c].pc = l
ConnectingPcs == {"dial", "channels", "ready"}

-----------------------------------------------------------------------------
\* What a call does once it finds the client connected, the channel being open or
\* not: push hands the message over and swallows what that throws, the other calls
\* wait for the broker.
OnConnection(call, k, open) ==
  IF call.op \in {"connect", "reconnect", "push"} THEN Ends(call, "ok")
  ELSE IF open THEN [call EXCEPT !.pc = "reply", !.on = k]
  ELSE Ends(call, "failed")

\* connect and reconnect look at the flags in any case, the others only when they
\* are not connected.
CallBegin(c, o) ==
  LET call == [rcall[c] EXCEPT !.op = o] IN
  /\ IsNext(rcall, c)
  /\ o \in {"connect", "push", "get", "queue"}
  /\ RabbitStep(c, IF connected /\ o # "connect" THEN OnConnection(call, conn, channel)
                   ELSE GoesTo(call, "connect"))
  /\ UNCHANGED <<connected, connecting>> /\ UNCHANGED links /\ UNCHANGED counts

\* Mutant of ConnectEnter: the flag connecting is not looked at.
ConnectUnguarded(c) ==
  /\ RabbitAt(c, "connect")
  /\ IF connected
     THEN RabbitStep(c, OnConnection(rcall[c], conn, channel)) /\ UNCHANGED connecting
     ELSE RabbitStep(c, GoesTo(rcall[c], "dial")) /\ connecting' = TRUE
  /\ UNCHANGED connected /\ UNCHANGED links /\ UNCHANGED counts

\* connect: waits while another call connects, looking every 100 ms, and looks at
\* connected in the same turn.
ConnectEnter(c) ==
  /\ RabbitAt(c, "connect") /\ ~ connecting
  /\ IF connected
     THEN RabbitStep(c, OnConnection(rcall[c], conn, channel)) /\ UNCHANGED connecting
     ELSE RabbitStep(c, GoesTo(rcall[c], "dial")) /\ connecting' = TRUE
  /\ UNCHANGED connected /\ UNCHANGED links /\ UNCHANGED counts

DialSucceeds(c) ==
  /\ RabbitAt(c, "dial") /\ conn + 1 \in ConnIds
  /\ conn' = conn + 1
  /\ openConns' = openConns \cup {conn + 1}
  /\ channel' = FALSE
  /\ RabbitStep(c, [rcall[c] EXCEPT !.pc = "channels", !.on = conn + 1])
  /\ UNCHANGED <<connected, connecting, handled>> /\ UNCHANGED counts

\* reconnect tries again after 250 ms, the other calls throw.
Fails(c) == RabbitStep(c, IF rcall[c].op = "reconnect"
                          THEN [rcall[c] EXCEPT !.pc = "connect", !.on = 0]
                          ELSE Ends([rcall[c] EXCEPT !.on = 0], "failed"))

DialFails(c) ==
  /\ RabbitAt(c, "dial") /\ failures < MaxFailures
  /\ connecting' = FALSE
  /\ failures' = failures + 1
  /\ Fails(c)
  /\ UNCHANGED <<connected, deaths, early>> /\ UNCHANGED links

\* Both channels are there, or the connection ended meanwhile: that is thrown
\* outside of the try, and connecting stays as it is.
Channels(c) ==
  /\ RabbitAt(c, "channels")
  /\ IF rcall[c].on \in openConns THEN RabbitStep(c, GoesTo(rcall[c], "ready")) ELSE Fails(c)
  /\ UNCHANGED <<connected, connecting>> /\ UNCHANGED links /\ UNCHANGED counts

\* The flags and the handlers are set in the turn that follows the second answer:
\* the connection may just have ended.
Ready(c) ==
  /\ RabbitAt(c, "ready")
  /\ connected' = TRUE /\ connecting' = FALSE
  /\ handled' = handled \cup {rcall[c].on}
  /\ channel' = (rcall[c].on \in openConns)
  /\ RabbitStep(c, OnConnection([rcall[c] EXCEPT !.on = 0], conn, channel'))
  /\ UNCHANGED <<conn, openConns>> /\ UNCHANGED counts

\* The broker answers; for a queue that is not there it closes the channel, which
\* fails everything that waits on it.
Reply(c) ==
  /\ RabbitAt(c, "reply")
  /\ \/ /\ rcall[c].on \in openConns /\ channel
        /\ RabbitStep(c, Ends([rcall[c] EXCEPT !.on = 0], "ok"))
        /\ UNCHANGED channel
     \/ /\ rcall[c].on \in openConns /\ channel
        /\ RabbitStep(c, Ends([rcall[c] EXCEPT !.on = 0], "failed"))
        /\ channel' = FALSE
     \/ /\ ~ (rcall[c].on \in openConns /\ channel)
        /\ RabbitStep(c, Ends([rcall[c] EXCEPT !.on = 0], "failed"))
        /\ UNCHANGED channel
  /\ UNCHANGED <<connected, connecting, conn, openConns, handled>> /\ UNCHANGED counts

-----------------------------------------------------------------------------
(* close, and reconnect, which closes and connects until that succeeds. *)

AfterClose(call) == IF call.op = "reconnect" THEN [call EXCEPT !.pc = "connect", !.on = 0]
                    ELSE Ends([call EXCEPT !.on = 0], "ok")

CloseBegin(c, o) ==
  LET call == [rcall[c] EXCEPT !.op = o] IN
  /\ IsNext(rcall, c)
  /\ o \in {"close", "reconnect"}
  /\ RabbitStep(c, IF ~ connected THEN AfterClose(call)
                   ELSE IF ~ channel THEN Ends(call, "failed")
                   ELSE [call EXCEPT !.pc = "closing", !.on = conn])
  /\ UNCHANGED <<connected, connecting>> /\ UNCHANGED links /\ UNCHANGED counts

\* The channels first: that throws when they are closed already.
CloseChannels(c) ==
  /\ RabbitAt(c, "closing")
  /\ IF rcall[c].on \in openConns /\ channel
     THEN RabbitStep(c, GoesTo(rcall[c], "closed")) /\ channel' = FALSE
     ELSE RabbitStep(c, Ends([rcall[c] EXCEPT !.on = 0], "failed")) /\ UNCHANGED channel
  /\ UNCHANGED <<connected, connecting, conn, openConns, handled>> /\ UNCHANGED counts

\* Then the connection, whose handler clears connected, as close does.
CloseConnection(c) ==
  /\ RabbitAt(c, "closed")
  /\ IF rcall[c].on \in openConns
     THEN /\ openConns' = openConns \ {rcall[c].on}
          /\ connected' = FALSE
          /\ RabbitStep(c, AfterClose(rcall[c]))
     ELSE /\ RabbitStep(c, Ends([rcall[c] EXCEPT !.on = 0], "failed"))
          /\ UNCHANGED <<openConns, connected>>
  /\ UNCHANGED <<connecting, conn, handled, channel>> /\ UNCHANGED counts

\* Mutant of Die: the handlers clear connecting instead of connected.
DieUnnoticed(k) ==
  /\ k \in openConns /\ deaths < MaxDeaths
  /\ openConns' = openConns \ {k}
  /\ channel' = FALSE
  /\ connecting' = IF k \in handled THEN FALSE ELSE connecting
  /\ early' = (early \/ k \notin handled)
  /\ deaths' = deaths + 1
  /\ UNCHANGED <<connected, conn, handled, rcall, failures>>

\* A connection ends: the network, the heartbeat or the broker.  Its handlers run
\* at once; without them an error may also end the process, which ends all.
Die(k) ==
  /\ k \in openConns /\ deaths < MaxDeaths
  /\ openConns' = openConns \ {k}
  /\ channel' = FALSE
  /\ connected' = IF k \in handled THEN FALSE ELSE connected
  /\ early' = (early \/ k \notin handled)
  /\ deaths' = deaths + 1
  /\ UNCHANGED <<connecting, conn, handled, rcall, failures>>

-----------------------------------------------------------------------------
RabbitCall(c) ==
  \/ ConnectEnter(c) \/ DialSucceeds(c) \/ DialFails(c) \/ Channels(c) \/ Ready(c)
  \/ Reply(c) \/ CloseChannels(c) \/ CloseConnection(c)

RabbitNext ==
  \/ \E c \in RabbitCallers, o \in RabbitOps : CallBegin(c, o) \/ CloseBegin(c, o)
  \/ \E c \in RabbitCallers : RabbitCall(c)
  \/ \E k \in ConnIds : Die(k)

\* Timers run out and the broker answers or fails.
RabbitProgress == \E c \in RabbitCallers : RabbitCall(c)

RabbitSpec == RabbitInit /\ [][RabbitNext]_rabbitVars /\ WF_rabbitVars(RabbitProgress)

-----------------------------------------------------------------------------
\* However calls, ends of connections and failures of dials interleave, two calls
\* never connect at a time, so that no connection is left open that the client has
\* forgotten; and a client that says it is connected is, unless a connection has
\* ended before it had its handlers.
OneConnects ==
  \A c, d \in RabbitCallers :
    rcall[c].pc \in ConnectingPcs /\ rcall[d].pc \in ConnectingPcs => c = d

NoneForgotten == openConns \subseteq {conn}

ConnectedIsOpen ==
  ~ early => /\ connected => conn \in openConns
             /\ connecting <=> \E c \in RabbitCallers : rcall[c].pc \in ConnectingPcs

RabbitSound == OneConnects /\ NoneForgotten /\ ConnectedIsOpen

\* No call waits, whoever connected meanwhile and whatever failed, unless a
\* connection has ended before it had its handlers: then connecting may stay set, and
\* the calls wait for ever.
RabbitSettled == early \/ Ongoing(rcall) = {}
=============================================================================
