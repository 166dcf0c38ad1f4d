--------------------------- MODULE Services_proofs ---------------------------
(***************************************************************************)
(* Proofs about the parts together: a behaviour of Services is one of each *)
(* part, so that what is proved of every part alone holds of all of them.  *)
(***************************************************************************)
EXTENDS Services, Users_proofs, Drivers_proofs, Processes_proofs

\* A step of one part, or of another, is a step of each part or leaves it alone.
LEMMA PartSteps ==
  ASSUME [ServicesNext]_servicesVars
  PROVE  /\ [BackendsNext]_backendVars /\ [AccountsNext]_accountVars /\ [TokensNext]_tokenVars
         /\ [RabbitNext]_rabbitVars /\ [RedisNext]_redisVars /\ [GrpcNext]_grpcVars
         /\ [LogNext]_logVars /\ [UsageNext]_usageVars /\ [ApiNext]_apiVars
         /\ [NotifyNext]_notifyVars /\ [LoadNext]_loadVars
         /\ UNCHANGED part
<1>1. CASE ServicesNext
  BY <1>1 DEF ServicesNext, Rest
<1>2. CASE UNCHANGED servicesVars
  BY <1>2 DEF servicesVars
<1> QED
  BY <1>1, <1>2

\* Whatever part runs, every part behaves as its own specification says, fairness
\* included, so that what is proved of a part alone holds of the whole.
THEOREM ServicesRunParts ==
  ServicesSpec => /\ BackendsSpec /\ AccountsSpec /\ TokensSpec /\ RabbitSpec /\ RedisSpec
                  /\ GrpcSpec /\ LogSpec /\ UsageSpec /\ ApiSpec /\ NotifySpec /\ LoadSpec
<1>1. ServicesInit => /\ BackendsInit /\ AccountsInit /\ TokensInit /\ RabbitInit /\ RedisInit
                      /\ GrpcInit /\ LogInit /\ UsageInit /\ ApiInit /\ NotifyInit /\ LoadInit
  BY DEF ServicesInit
<1> QED
  BY <1>1, PartSteps, PTL
     DEF ServicesSpec, BackendsSpec, AccountsSpec, TokensSpec, RabbitSpec, RedisSpec,
         GrpcSpec, LogSpec, UsageSpec, ApiSpec, NotifySpec, LoadSpec

\* The variables of the part that runs have their types, whichever it is.
THEOREM ServicesTypeCorrect == ServicesSpec => []ServicesTypeOK
<1>1. ServicesInit => part \in PartNames
  BY DEF ServicesInit
<1>2. part \in PartNames /\ [ServicesNext]_servicesVars => (part \in PartNames)'
  BY PartSteps
<1>3. ServicesSpec => [](part \in PartNames)
  BY <1>1, <1>2, PTL DEF ServicesSpec
<1>4. TokensSpec => []TokensTypeOK
  <2>1. TokensInv => TokensTypeOK
    BY DEF TokensInv
  <2> QED
    BY <2>1, TokensInvInit, TokensInvNext, PTL DEF TokensSpec
<1>5. ApiSpec => []ApiTypeOK
  <2>1. ApiInv => ApiTypeOK
    BY DEF ApiInv
  <2> QED
    BY <2>1, ApiInvInit, ApiInvNext, PTL DEF ApiSpec
<1>6. NotifySpec => []NotifyTypeOK
  <2>1. NotifyInv => NotifyTypeOK
    BY DEF NotifyInv
  <2> QED
    BY <2>1, NotifyInvInit, NotifyInvNext, PTL DEF NotifySpec
<1>7. /\ part \in PartNames
      /\ BackendsTypeOK /\ AccountsTypeOK /\ TokensTypeOK /\ RabbitTypeOK /\ RedisTypeOK
      /\ GrpcTypeOK /\ LogTypeOK /\ UsageTypeOK /\ ApiTypeOK /\ NotifyTypeOK /\ LoadTypeOK
      => ServicesTypeOK
  BY DEF PartNames, ServicesTypeOK
<1> QED
  BY <1>3, <1>4, <1>5, <1>6, <1>7, ServicesRunParts, BackendsTypeCorrect, AccountsTypeCorrect,
     RabbitTypeCorrect, RedisTypeCorrect, GrpcTypeCorrect, LogTypeCorrect, UsageTypeCorrect,
     LoadTypeCorrect, PTL

\* An alarm is up for a reason, and the verdict of a load test is true.
THEOREM ToolsSoundHolds == ServicesSpec => []ToolsSound
<1>1. AlarmIsDue /\ VerdictIsTrue => ToolsSound
  BY DEF ToolsSound
<1> QED
  BY <1>1, ServicesRunParts, AlarmIsDueHolds, VerdictIsTrueHolds, PTL

\* What the runs of the parts check on a small instance holds for all values of the
\* constants, of every part at once.
THEOREM ServicesSound ==
  ServicesSpec => /\ [](BackendsSound /\ CredentialsSound /\ QuotaAddsUp /\ RevokedIsRefused)
                  /\ [](RabbitSound /\ StoppedTakesOne /\ LogSound /\ UsageAddsUp)
                  /\ []ServedBeforeExit
                  /\ RedisImplementsQueue
BY ServicesRunParts, BackendsSoundHolds, CredentialsSoundHolds, QuotaAddsUpHolds,
   RevokedIsRefusedHolds, RabbitSoundHolds, StoppedTakesOneHolds, LogSoundHolds,
   UsageAddsUpHolds, ServedBeforeExitHolds, RedisImplements, PTL
=============================================================================
