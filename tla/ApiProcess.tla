----------------------------- MODULE ApiProcess -----------------------------
(***************************************************************************)
(* The life of one process of the HTTP service (app.js): it listens before *)
(* it is ready, answers with an error what its handlers have not answered   *)
(* in time, and on SIGINT stops to listen, waits for its connections, closes *)
(* the database and exits.  Requests come on a connection each.             *)
(***************************************************************************)
EXTENDS Naturals, FiniteSets

CONSTANTS ApiRequests, \* requests that clients send
          MaxSignals   \* SIGINTs that the process gets

ASSUME ApiAssumption == ApiRequests \in Nat /\ MaxSignals \in Nat

HttpRequests == 1..ApiRequests

VARIABLES boot,     \* what the callback of listen waits for
          http,     \* request -> its connection, its handler and who answered it
          signals,  \* SIGINTs so far
          closing,  \* how far the shutdown is
          exitCode  \* "none" while the process runs

apiVars == <<boot, http, signals, closing, exitCode>>

ApiTypeOK ==
  /\ boot \in {"provider", "mongo", "ready", "failed"}
  /\ http \in [HttpRequests -> [conn: {"none", "open", "closed", "refused"},
                                handler: {"none", "running", "ended", "failed"},
                                reply: {"none", "handler", "timeout", "aborted"}]]
  /\ signals \in 0..MaxSignals
  /\ closing \in {"no", "draining", "mongo"}
  /\ exitCode \in {"none", "0", "1"}

ApiInit ==
  /\ boot = "provider"
  /\ http = [r \in HttpRequests |-> [conn |-> "none", handler |-> "none", reply |-> "none"]]
  /\ signals = 0 /\ closing = "no" /\ exitCode = "none"

Running == exitCode = "none"
Connections == {r \in HttpRequests : http[r].conn = "open"}
shutdown == <<signals, closing, exitCode>>

-----------------------------------------------------------------------------
\* The callback of listen: initQueueProvider, then mongoose.connect.  What rejects is
\* printed by the handler of unhandledRejection, and the process goes on without.
InitQueueProvider ==
  /\ Running /\ boot = "provider"
  /\ boot' \in {"mongo", "failed"}
  /\ UNCHANGED <<http, shutdown>>

MongoConnected ==
  /\ Running /\ boot = "mongo"
  /\ boot' \in {"ready", "failed"}
  /\ UNCHANGED <<http, shutdown>>

\* A client connects: the server need not be ready, it must only listen.
Accept(r) ==
  /\ Running /\ http[r].conn = "none"
  /\ \A q \in HttpRequests : q < r => http[q].conn # "none"
  /\ http' = [http EXCEPT ![r] = IF closing = "no" THEN [@ EXCEPT !.conn = "open", !.handler = "running"]
                                 ELSE [@ EXCEPT !.conn = "refused"]]
  /\ UNCHANGED <<boot, shutdown>>

\* The handler answers.  When the timeout was faster, the answer throws, which is
\* printed like any rejection; when the client has left, it goes nowhere.
Answer(r) ==
  /\ Running /\ http[r].handler = "running"
  /\ http' = [http EXCEPT ![r].handler = "ended",
                          ![r].reply = IF @ = "none" THEN "handler" ELSE @]
  /\ UNCHANGED <<boot, shutdown>>

\* It rejects, as before the provider is there, and sends nothing.
Reject(r) ==
  /\ Running /\ http[r].handler = "running"
  /\ http' = [http EXCEPT ![r].handler = "failed"]
  /\ UNCHANGED <<boot, shutdown>>

\* server_timeout_sec has passed: the error handler answers.
TimeOut(r) ==
  /\ Running /\ http[r].conn = "open" /\ http[r].reply = "none"
  /\ http' = [http EXCEPT ![r].reply = "timeout"]
  /\ UNCHANGED <<boot, shutdown>>

\* A connection that was answered on ends, by its client or for being idle, and a
\* client may leave before the answer.
Disconnect(r) ==
  /\ Running /\ http[r].conn = "open" /\ http[r].reply # "none"
  /\ http' = [http EXCEPT ![r].conn = "closed"]
  /\ UNCHANGED <<boot, shutdown>>

Abort(r) ==
  /\ Running /\ http[r].conn = "open" /\ http[r].reply = "none"
  /\ http' = [http EXCEPT ![r].conn = "closed", ![r].reply = "aborted"]
  /\ UNCHANGED <<boot, shutdown>>

-----------------------------------------------------------------------------
\* SIGINT: server.close.  A second one asks a server that does not listen: its
\* callback is called with an error, but also when the server has closed.
Signal ==
  /\ Running /\ signals < MaxSignals
  /\ signals' = signals + 1
  /\ closing' = IF closing = "no" THEN "draining" ELSE closing
  /\ UNCHANGED <<boot, http, exitCode>>

\* Mutant of Drained: the server is closed at once.
NotDrained ==
  /\ Running /\ closing = "draining"
  /\ closing' = "mongo"
  /\ exitCode' = IF signals > 1 THEN "1" ELSE "none"
  /\ UNCHANGED <<boot, http, signals>>

\* The last connection has ended: the callbacks of server.close run, the first of
\* which closes the database, and any other, which has an error, exits.
Drained ==
  /\ Running /\ closing = "draining" /\ Connections = {}
  /\ closing' = "mongo"
  /\ exitCode' = IF signals > 1 THEN "1" ELSE "none"
  /\ UNCHANGED <<boot, http, signals>>

\* The callback of a SIGINT that came after that runs at once.
ClosedAgain ==
  /\ Running /\ closing = "mongo" /\ signals > 1
  /\ exitCode' = "1"
  /\ UNCHANGED <<boot, http, signals, closing>>

\* The database is closed.
MongoClosed ==
  /\ Running /\ closing = "mongo" /\ signals = 1
  /\ exitCode' = "0"
  /\ UNCHANGED <<boot, http, signals, closing>>

-----------------------------------------------------------------------------
ApiNext ==
  \/ InitQueueProvider \/ MongoConnected \/ Signal \/ Drained \/ ClosedAgain \/ MongoClosed
  \/ \E r \in HttpRequests :
       Accept(r) \/ Answer(r) \/ Reject(r) \/ TimeOut(r) \/ Disconnect(r) \/ Abort(r)

\* Timers fire, idle connections are ended, and callbacks run.  Handlers need not end.
ApiProgress ==
  \/ Drained \/ ClosedAgain \/ MongoClosed
  \/ \E r \in HttpRequests : TimeOut(r) \/ Disconnect(r)

ApiSpec == ApiInit /\ [][ApiNext]_apiVars /\ WF_apiVars(ApiProgress)

-----------------------------------------------------------------------------
\* The process exits only after every request that it accepted was answered, by its
\* handler or for the timeout, unless the client left; handlers that are cut off had
\* been answered for; and it reports success only if it was asked once.
ServedBeforeExit ==
  exitCode # "none" =>
    /\ \A r \in HttpRequests :
         /\ http[r].conn # "open"
         /\ http[r].handler = "running" => http[r].reply \in {"timeout", "aborted"}
    /\ exitCode = "0" => signals = 1

\* A process that was asked to stop exits, whatever its handlers do.
AskedExits == signals > 0 => exitCode # "none"
=============================================================================
