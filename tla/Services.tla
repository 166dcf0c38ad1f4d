------------------------------ MODULE Services ------------------------------
(***************************************************************************)
(* The parts of the system around the queue operations, each as a module of *)
(* its own.  They work on different collections, clients or processes and    *)
(* share no variable, so that every property is of one part: a behaviour runs *)
(* one of them, whichever, while the others rest.                           *)
(***************************************************************************)
EXTENDS QueueBackends, Accounts, AccessTokens, RabbitClient, RedisClient, GrpcServer,
        MessageLog, UsageLog, ApiProcess, Notifications, LoadTest

VARIABLE part \* the part that runs

servicesVars == <<part, backendVars, accountVars, tokenVars, rabbitVars, redisVars, grpcVars,
                  logVars, usageVars, apiVars, notifyVars, loadVars>>

PartNames == {"backends", "accounts", "tokens", "rabbit", "redis", "grpc", "log", "usage",
              "api", "notify", "load"}

\* A part that rests is in one of its initial states, an empty one.
Resting ==
  /\ part # "backends" => \A b \in BackendIds : ~ Stored(b)
  /\ part # "accounts" => \A u \in AccountIds : account[u] = NoAccount
  /\ part # "tokens" => \A t \in TokenIds : token[t].state = "unused"
  /\ part # "redis" => ~ there
  /\ part # "grpc" => ~ queueThere
  /\ part # "load" => load.test = "backend"

ServicesInit ==
  /\ part \in PartNames
  /\ BackendsInit /\ AccountsInit /\ TokensInit /\ RabbitInit /\ RedisInit /\ GrpcInit
  /\ LogInit /\ UsageInit /\ ApiInit /\ NotifyInit /\ LoadInit
  /\ Resting

\* The parts other than p rest.
Rest(p) ==
  /\ UNCHANGED part
  /\ p # "backends" => UNCHANGED backendVars
  /\ p # "accounts" => UNCHANGED accountVars
  /\ p # "tokens" => UNCHANGED tokenVars
  /\ p # "rabbit" => UNCHANGED rabbitVars
  /\ p # "redis" => UNCHANGED redisVars
  /\ p # "grpc" => UNCHANGED grpcVars
  /\ p # "log" => UNCHANGED logVars
  /\ p # "usage" => UNCHANGED usageVars
  /\ p # "api" => UNCHANGED apiVars
  /\ p # "notify" => UNCHANGED notifyVars
  /\ p # "load" => UNCHANGED loadVars

ServicesNext ==
  \/ part = "backends" /\ BackendsNext /\ Rest("backends")
  \/ part = "accounts" /\ AccountsNext /\ Rest("accounts")
  \/ part = "tokens" /\ TokensNext /\ Rest("tokens")
  \/ part = "rabbit" /\ RabbitNext /\ Rest("rabbit")
  \/ part = "redis" /\ RedisNext /\ Rest("redis")
  \/ part = "grpc" /\ GrpcNext /\ Rest("grpc")
  \/ part = "log" /\ LogNext /\ Rest("log")
  \/ part = "usage" /\ UsageNext /\ Rest("usage")
  \/ part = "api" /\ ApiNext /\ Rest("api")
  \/ part = "notify" /\ NotifyNext /\ Rest("notify")
  \/ part = "load" /\ LoadNext /\ Rest("load")

\* Nothing of a part that rests is enabled, so that its fairness asks for nothing.
ServicesSpec ==
  /\ ServicesInit /\ [][ServicesNext]_servicesVars
  /\ WF_rabbitVars(RabbitProgress) /\ GrpcFairness /\ WF_apiVars(ApiProgress)

-----------------------------------------------------------------------------
\* The variables of the part that runs have their types.
ServicesTypeOK ==
  \/ part = "backends" /\ BackendsTypeOK
  \/ part = "accounts" /\ AccountsTypeOK
  \/ part = "tokens" /\ TokensTypeOK
  \/ part = "rabbit" /\ RabbitTypeOK
  \/ part = "redis" /\ RedisTypeOK
  \/ part = "grpc" /\ GrpcTypeOK
  \/ part = "log" /\ LogTypeOK
  \/ part = "usage" /\ UsageTypeOK
  \/ part = "api" /\ ApiTypeOK
  \/ part = "notify" /\ NotifyTypeOK
  \/ part = "load" /\ LoadTypeOK

\* The parts that no server runs keep their promises: an alarm is up for a reason, and
\* the verdict of a load test is true.
ToolsSound == AlarmIsDue /\ VerdictIsTrue

\* In the end no call of the RabbitMQ client waits, no message waits for a subscriber
\* that runs, and a process that was asked to stop has exited.
PartsSettle == <>[](RabbitSettled /\ SubscribersServed /\ AskedExits)
=============================================================================
