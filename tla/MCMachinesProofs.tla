-------------------------- MODULE MCMachinesProofs --------------------------
(***************************************************************************)
(* The machines side by side, as the run has them: the others stand still  *)
(* while one moves, so what is proved of each one alone holds of           *)
(* MachinesSpec.                                                           *)
(***************************************************************************)
EXTENDS MCMachines, WatcherProofs, MachinesProofs

MachinesInv ==
    /\ StoreInv /\ ProvidersInv /\ ChunksInv /\ QuotaInv /\ LimitInv /\ ChatInv /\ AuditInv

\* Every machine starts as it would alone.
LEMMA MachinesStart == MachinesInit => MachinesInv
BY StoreAtStart, ProvidersStart, ChunksStart, QuotaStart, FullAtTheStart, OutboxStart, AuditStart
DEF MachinesInit, MachinesInv

\* A step of one machine is none of the others.
LEMMA OneMoves ==
    [MachinesNext]_machineVars =>
        /\ [PolicyNext]_pvars /\ [WatcherNext]_vars /\ [ProvidersNext]_providersVars
        /\ [LogChunksNext]_chunkVars /\ [QuotaNext]_quotaVars /\ [RateLimitNext]_limitVars
        /\ [NotifierNext]_notifierVars /\ [ReconcileNext]_reconcileVars
BY Zenon DEF MachinesNext, Only, machineVars

\* All the inductive invariants together.
LEMMA MachinesStep == MachinesInv /\ [MachinesNext]_machineVars => MachinesInv'
BY OneMoves, EveryStepKeepsStore, ProvidersStep, ChunksStep, QuotaStep, StepKeepsIt, ChatStep, AuditStep
DEF MachinesInv

\* Every machine keeps its types, whichever of them a behaviour is a behaviour of
\* (MachinesTypeOK).
THEOREM MachinesTypeCorrect == MachinesSpec => []MachinesTypeOK
<1>1. MachinesInv => MachinesTypeOK
  BY DEF MachinesInv, StoreInv, ProvidersInv, ChunksInv, QuotaInv, LimitInv, ChatInv, OutboxInv,
         AuditInv, AuditTypes, MachinesTypeOK
<1> QED
  BY <1>1, MachinesStart, MachinesStep, PTL DEF MachinesSpec

\* In MachinesSpec each machine runs as it would alone.
LEMMA EachAsAlone ==
    MachinesSpec => /\ PolicySpec /\ WatcherSpec /\ ProvidersSpec /\ LogChunksSpec /\ QuotaSpec
                    /\ RateLimitSpec /\ NotifierSpec /\ ReconcileSpec
<1>1. MachinesInit => /\ PolicyInit /\ WatcherInit /\ ProvidersInit /\ LogChunksInit /\ QuotaInit
                      /\ RateLimitInit /\ NotifierInit /\ ReconcileInit
  BY DEF MachinesInit
<1> QED
  BY <1>1, OneMoves, PTL
  DEF MachinesSpec, PolicySpec, WatcherSpec, ProvidersSpec, LogChunksSpec, QuotaSpec, RateLimitSpec,
      NotifierSpec, ReconcileSpec

\* What the run checks of MachinesSpec holds for all values of the constants: every
\* safety and action property, with no further hypothesis.
THEOREM MachinesAreSafe ==
    MachinesSpec => /\ [](Linked /\ RowsWereVerified /\ CrashLosesNothing)
                    /\ [](DownIsLeftAlone /\ LogsAreWhole /\ QuotaHolds)
                    /\ [](LimitHeld /\ OwnMessageOnly /\ EveryTryCounted)
                    /\ [](ReconcileTypeOK /\ ShortfallIsReal)
                    /\ []ToleranceRespected /\ MoreMoneyKeepsAccess /\ SentStands
BY EachAsAlone, LinkedTheorem, RowsAreVerified, CrashTheorem, DownTheorem, LogsTheorem,
   QuotaTheorem, LimitsAreKept, OwnMessageTheorem, EveryTryTheorem, ShortfallTheorem,
   ToleranceHolds, AccessIsMonotone, SentStandsTheorem, PTL
=============================================================================
