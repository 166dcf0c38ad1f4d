------------------------------ MODULE LoadTest ------------------------------
(***************************************************************************)
(* The load tests (bin/perf/backend.js on a driver, bin/perf/protocol.js   *)
(* on the service): a master process pushes messages, forks consumers that *)
(* pull until nothing comes, adds their reports up and gives a verdict.    *)
(***************************************************************************)
EXTENDS Naturals, FiniteSets, Functions

CONSTANTS LoadMessages, \* MSG_COUNT
          LoadWorkers,  \* WORKER_COUNT
          LoadFaults    \* bound on the faults of the service

ASSUME LoadAssumption ==
  LoadMessages \in Nat /\ LoadWorkers \in Nat \ {0} /\ LoadFaults \in Nat

Payloads == 1..LoadMessages
LengthOf == [m \in Payloads |-> m] \* a message is as long as its number
LoadConsumers == 1..LoadWorkers

VARIABLES load,     \* which of the tests, and where its master is
          produced, \* how many messages were pushed
          waiting,  \* messages in the queue
          consumer, \* consumer -> where it is and what it has pulled
          reports,  \* consumers whose report the master has got
          faults,
          verdict

loadVars == <<load, produced, waiting, consumer, reports, faults, verdict>>

LoadTypeOK ==
  /\ load \in [test: {"backend", "http", "grpc"}, pc: {"setup", "produce", "collect", "dead"}]
  /\ produced \in 0..LoadMessages
  /\ waiting \subseteq Payloads
  /\ consumer \in [LoadConsumers -> [pc: {"none", "pull", "sent", "dead"}, got: SUBSET Payloads]]
  /\ reports \subseteq LoadConsumers
  /\ faults \in 0..LoadFaults
  /\ verdict \in {"none", "TEST_OK", "TEST_NOT_OK"}

\* The queue may hold messages of a test that was stopped; they are not counted here
\* because a backend test deletes the queue, and the fixtures give a new one.
LoadInit ==
  /\ load \in [test: {"backend", "http", "grpc"}, pc: {"setup"}]
  /\ produced = 0 /\ waiting = {} /\ reports = {} /\ faults = 0 /\ verdict = "none"
  /\ consumer = [w \in LoadConsumers |-> [pc |-> "none", got |-> {}]]

MasterAt(l) == load.pc = l /\ verdict = "none"
MasterGoes(l) == load' = [load EXCEPT !.pc = l]
Fault == faults < LoadFaults /\ faults' = faults + 1

-----------------------------------------------------------------------------
\* The client and the queue, or the service with its fixtures and workers.
SetUpBackend ==
  /\ load.test = "backend" /\ MasterAt("setup") /\ MasterGoes("produce")
  /\ UNCHANGED <<produced, waiting, consumer, reports, faults, verdict>>

SetUpService ==
  /\ load.test # "backend" /\ MasterAt("setup") /\ MasterGoes("produce")
  /\ UNCHANGED <<produced, waiting, consumer, reports, faults, verdict>>

\* Each push is awaited.
PushNext ==
  /\ MasterAt("produce") /\ produced < LoadMessages
  /\ produced' = produced + 1
  /\ waiting' = waiting \cup {produced + 1}
  /\ UNCHANGED <<load, consumer, reports, faults, verdict>>

\* One that fails ends main: with a status other than 200 the error message itself
\* throws.
PushFails ==
  /\ MasterAt("produce") /\ produced < LoadMessages
  /\ Fault
  /\ MasterGoes("dead")
  /\ UNCHANGED <<produced, waiting, consumer, reports, verdict>>

\* The consumers are forked when all messages are pushed.
ForkWorkers ==
  /\ MasterAt("produce") /\ produced = LoadMessages
  /\ MasterGoes("collect")
  /\ consumer' = [w \in LoadConsumers |-> [consumer[w] EXCEPT !.pc = "pull"]]
  /\ UNCHANGED <<produced, waiting, reports, faults, verdict>>

Takes(w) ==
  /\ consumer[w].pc = "pull"
  /\ \E m \in waiting :
       /\ waiting' = waiting \ {m}
       /\ consumer' = [consumer EXCEPT ![w].got = @ \cup {m}]
  /\ UNCHANGED <<load, produced, reports, faults, verdict>>

\* A consumer that finds nothing sends its report.
SendsReport(w) ==
  /\ consumer[w].pc = "pull" /\ waiting = {}
  /\ consumer' = [consumer EXCEPT ![w].pc = "sent"]
  /\ UNCHANGED <<load, produced, waiting, reports, faults, verdict>>

\* A pull that fails, with its message lost or not, ends the loop without a report.
\* By gRPC a status other than 200 comes without a message, like an empty queue.
ConsumeFails(w) ==
  /\ consumer[w].pc = "pull"
  /\ Fault
  /\ \/ \E gone \in SUBSET waiting :
          /\ \A m, n \in gone : m = n
          /\ waiting' = waiting \ gone
          /\ consumer' = [consumer EXCEPT ![w].pc = "dead"]
     \/ /\ load.test = "grpc"
        /\ consumer' = [consumer EXCEPT ![w].pc = "sent"]
        /\ UNCHANGED waiting
  /\ UNCHANGED <<load, produced, reports, verdict>>

\* process.send is followed by process.exit: the report may not get through.
ReportLost(w) ==
  /\ load.test = "backend" /\ consumer[w].pc = "sent" /\ w \notin reports
  /\ Fault
  /\ consumer' = [consumer EXCEPT ![w].pc = "dead"]
  /\ UNCHANGED <<load, produced, waiting, reports, verdict>>

Reported(ws) == UNION {consumer[w].got : w \in ws}
CountOf(ws) ==
  SumFunctionOnSet([w \in LoadConsumers |-> Cardinality(consumer[w].got)], ws)
SizeOf(ws) ==
  SumFunctionOnSet([w \in LoadConsumers |-> SumFunctionOnSet(LengthOf, consumer[w].got)], ws)

\* Mutant of Collected: the verdict is given with the first report.
CollectedOne(ws) == ws # {}

Collected(ws) == ws = LoadConsumers

CountAgrees(ws) == CountOf(ws) = LoadMessages
SizeAgrees(ws) == SizeOf(ws) = SumFunctionOnSet(LengthOf, Payloads)

\* The last report brings the verdict.  The test of the service also compares the
\* sizes.
Report(w) ==
  /\ MasterAt("collect") /\ consumer[w].pc = "sent" /\ w \notin reports
  /\ reports' = reports \cup {w}
  /\ verdict' =
       IF ~ Collected(reports') THEN "none"
       ELSE IF CountAgrees(reports') /\ (load.test = "backend" \/ SizeAgrees(reports'))
            THEN "TEST_OK" ELSE "TEST_NOT_OK"
  /\ UNCHANGED <<load, produced, waiting, consumer, faults>>

LoadNext ==
  \/ SetUpBackend \/ SetUpService \/ PushNext \/ PushFails \/ ForkWorkers
  \/ \E w \in LoadConsumers :
       Takes(w) \/ SendsReport(w) \/ ConsumeFails(w) \/ ReportLost(w) \/ Report(w)

LoadSpec == LoadInit /\ [][LoadNext]_loadVars

-----------------------------------------------------------------------------
\* The verdict tells the truth: TEST_OK when every message has been pulled, and
\* TEST_NOT_OK only when some were left, which takes a fault by gRPC; a message that a
\* failing pull has lost leaves the test without a verdict.
VerdictIsTrue ==
  /\ verdict = "TEST_OK" => Reported(LoadConsumers) = Payloads /\ waiting = {}
  /\ verdict = "TEST_NOT_OK" => waiting # {} /\ faults > 0 /\ load.test = "grpc"
=============================================================================
