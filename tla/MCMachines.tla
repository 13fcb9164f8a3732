---------------------------- MODULE MCMachines ----------------------------
(***************************************************************************)
(* Eight parts of the system that share no state, checked side by side: a  *)
(* behaviour is a behaviour of one of them, chosen at the start, and the   *)
(* others stand still.                                                     *)
(*                                                                         *)
(*   policy      MoneyPolicy under a growing payment and chain             *)
(*   walker      Watcher, four heights, three branches                     *)
(*   providers   Providers, two of them                                    *)
(*   chunks      LogChunks, four blocks and two addresses                  *)
(*   quota       Quota, two derivers at work for one user                  *)
(*   rate        RateLimit, two chats, Redis and one local fallback        *)
(*   outbox      Notifier, two processes, one buyer with two invoices      *)
(*   audit       Reconcile, two addresses with a transfer each             *)
(***************************************************************************)
EXTENDS MCMoneyPolicy, Watcher, Providers, LogChunks, Quota, RateLimit,
        Notifier, Reconcile, TLC

CONSTANTS p1, p2, p3, d1, d2, ana, bob, redis, here, n1, n2, x, y

TrunkAndBranches == (p1 :> {<<1, 1>>}) @@ (p2 :> {<<2, 1>>, <<3, 2>>}) @@ (p3 :> {<<3, 1>>})

AllAna   == [n \in Notes |-> ana]
FirstOnX == [n \in Notes |-> IF n = 1 THEN {x} ELSE Invoices]

\* A transfer to each of two addresses, and the second worth more.
PaidBy(t)  == t
WorthOf    == [t \in Transfers |-> t]

VARIABLE part

machineVars == <<pvars, vars, providersVars, chunkVars, quotaVars, limitVars,
                 notifierVars, reconcileVars, part>>

MachinesInit ==
    /\ part \in {"policy", "walker", "providers", "chunks", "quota", "rate", "outbox", "audit"}
    /\ PolicyInit /\ (part # "policy" => due = 1)
    /\ WatcherInit /\ ProvidersInit /\ LogChunksInit /\ QuotaInit /\ RateLimitInit
    /\ NotifierInit /\ ReconcileInit

Only(p, others) == part = p /\ UNCHANGED <<others, part>>

MachinesNext ==
    \/ Only("policy", <<vars, providersVars, chunkVars, quotaVars, limitVars, notifierVars, reconcileVars>>) /\ PolicyNext
    \/ Only("walker", <<pvars, providersVars, chunkVars, quotaVars, limitVars, notifierVars, reconcileVars>>) /\ WatcherNext
    \/ Only("providers", <<pvars, vars, chunkVars, quotaVars, limitVars, notifierVars, reconcileVars>>) /\ ProvidersNext
    \/ Only("chunks", <<pvars, vars, providersVars, quotaVars, limitVars, notifierVars, reconcileVars>>) /\ LogChunksNext
    \/ Only("quota", <<pvars, vars, providersVars, chunkVars, limitVars, notifierVars, reconcileVars>>) /\ QuotaNext
    \/ Only("rate", <<pvars, vars, providersVars, chunkVars, quotaVars, notifierVars, reconcileVars>>) /\ RateLimitNext
    \/ Only("outbox", <<pvars, vars, providersVars, chunkVars, quotaVars, limitVars, reconcileVars>>) /\ NotifierNext
    \/ Only("audit", <<pvars, vars, providersVars, chunkVars, quotaVars, limitVars, notifierVars>>) /\ ReconcileNext

MachinesSpec ==
    /\ MachinesInit /\ [][MachinesNext]_machineVars
    /\ WF_vars(part = "walker" /\ Step) /\ WF_vars(part = "walker" /\ Grows)
    /\ WF_notifierVars(part = "outbox" /\ \E s \in Senders : ClaimBatch(s) \/ Deliver(s))
    /\ WF_notifierVars(part = "outbox" /\ \E n \in Notes : Again(n))

\* The type invariant of the part that moves; the others keep their first state.
MachinesTypeOK ==
    /\ part = "walker" => WatcherTypeOK
    /\ part = "providers" => ProvidersTypeOK
    /\ part = "chunks" => LogChunksTypeOK
    /\ part = "quota" => QuotaTypeOK
    /\ part = "rate" => RateLimitTypeOK
    /\ part = "outbox" => NotifierTypeOK
    /\ part = "audit" => ReconcileTypeOK

\* A branch the network abandoned does not stay canonical, and the tip is found
\* again (Watcher!EndsOnTheNetwork, of the behaviours that are the walker's).
WalkerEndsOnTheNetwork == part = "walker" => EndsOnTheNetwork
=============================================================================
