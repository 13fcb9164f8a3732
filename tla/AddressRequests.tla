-------------------------- MODULE AddressRequests --------------------------
(***************************************************************************)
(* The queue in which the settler asks the deriver to take an address back *)
(* or to latch it: sync_address_lifecycle, address_lifecycle_requests, and *)
(* the third part of the deriver's loop.  AddressPool says what a served   *)
(* request does to the pool and to whose money it is; here it is served    *)
(* under a lease and a budget of attempts, by derivers that fail and die.  *)
(*                                                                         *)
(* Nobody waits for an answer, and a request may be given up: what makes   *)
(* that safe is that the settler asks again as long as the address needs   *)
(* it.                                                                     *)
(*                                                                         *)
(* Where a definition stands directly before another one of the same       *)
(* parameters it is a plausible slip in it, which a property must notice.  *)
(***************************************************************************)
EXTENDS QueueRow, FiniteSets

CONSTANTS
    Addresses,
    Hands,              \* deriver processes
    MaxFaults           \* bound: attempts that raise, die or outlast their lease

ASSUME AddressRequestsAssumption == MaxFaults \in Nat

VARIABLES
    home,       \* receive_addresses, with the tenant's invoice and the payments
    ask,        \* address_lifecycle_requests: the last one of each kind
    sweep,      \* what the settler's pass has selected and not yet asked for
    hand,       \* each deriver
    faults

lifecycleVars == <<home, ask, sweep, hand, faults>>

Actions == {"release", "mark_funded"}
AskIds == Addresses \X Actions      \* uq_address_lifecycle_open_per_action

\* funded is the status, and ever_funded with it.  cooling: cooldown_until is set.
\* over: the tenant's invoice is in no live status.  money: none, a payment that
\* stands, or nothing but payments that a reorg has reverted.
Homes == [status : {"free", "reserved", "funded"}, cooling : BOOLEAN, over : BOOLEAN,
          money : {"none", "stands", "reverted"}]
FreeHome == [status |-> "free", cooling |-> FALSE, over |-> TRUE, money |-> "none"]

\* drain, work, raised, wait, down: as in RequestQueue.
NoAsk == <<"none", "none">>
HandStates == [phase : {"drain", "work", "raised", "wait", "down"},
               at : AskIds \cup {NoAsk}, tried : SUBSET AskIds]
NewHand == [phase |-> "drain", at |-> NoAsk, tried |-> {}]

AddressRequestsTypeOK ==
    /\ home \in [Addresses -> Homes]
    /\ ask \in [AskIds -> Rows]
    /\ sweep \subseteq AskIds
    /\ hand \in [Hands -> HandStates]
    /\ faults \in 0..MaxFaults

AddressRequestsInit ==
    /\ home = [a \in Addresses |-> FreeHome]
    /\ ask = [x \in AskIds |-> NoRow]
    /\ sweep = {}
    /\ hand = [h \in Hands |-> [NewHand EXCEPT !.phase = "down"]]
    /\ faults = 0

-----------------------------------------------------------------------------
\* What happens to an address from outside

\* reserve_address_for_invoice takes a free address.
MoveIn(a) ==
    /\ home[a].status = "free"
    /\ home' = [home EXCEPT ![a].status = "reserved", ![a].over = FALSE]
    /\ UNCHANGED <<ask, sweep, hand, faults>>

\* The invoice expires or is settled.
TenancyEnds(a) ==
    /\ home[a].status = "reserved" /\ ~home[a].over
    /\ home' = [home EXCEPT ![a].over = TRUE]
    /\ UNCHANGED <<ask, sweep, hand, faults>>

\* A payment is recorded, and a reorg takes it away.
MoneyMoves(a) ==
    /\ \/ /\ home[a].money \in {"none", "reverted"} /\ home[a].status # "free"
          /\ home' = [home EXCEPT ![a].money = "stands"]
       \/ /\ home[a].money = "stands"
          /\ home' = [home EXCEPT ![a].money = "reverted"]
    /\ UNCHANGED <<ask, sweep, hand, faults>>

-----------------------------------------------------------------------------
\* sync_address_lifecycle, every pass of the settler

\* The two candidate statements.
NeedsLatchNew(a) ==
    /\ home[a].status \in {"free", "reserved"} /\ home[a].money = "stands"
    /\ ask[<<a, "mark_funded">>].status = "absent"
NeedsLatch(a) ==
    /\ home[a].status \in {"free", "reserved"} /\ home[a].money = "stands"
    /\ ~Open(ask[<<a, "mark_funded">>])

NeedsReleaseNew(a) ==
    /\ home[a].status = "reserved" /\ ~home[a].cooling /\ home[a].over /\ home[a].money = "none"
    /\ ask[<<a, "release">>].status = "absent"
NeedsRelease(a) ==
    /\ home[a].status = "reserved" /\ ~home[a].cooling /\ home[a].over /\ home[a].money = "none"
    /\ ~Open(ask[<<a, "release">>])

SweepSelects ==
    /\ sweep = {}
    /\ sweep' = {<<a, "mark_funded">> : a \in {b \in Addresses : NeedsLatch(b)}}
                \cup {<<a, "release">> : a \in {b \in Addresses : NeedsRelease(b)}}
    /\ sweep' # {}
    /\ UNCHANGED <<home, ask, hand, faults>>

\* enqueue_address_request: ON CONFLICT DO NOTHING.
SweepAsks ==
    /\ sweep # {}
    /\ ask' = [x \in AskIds |-> IF x \in sweep /\ ~Open(ask[x]) THEN NewRow ELSE ask[x]]
    /\ sweep' = {}
    /\ UNCHANGED <<home, hand, faults>>

-----------------------------------------------------------------------------
\* serve_one_address_request

Queued(h) == {x \in AskIds \ hand[h].tried : ask[x].status = "pending"}

\* claim_next_address_request; which one is the oldest is left open.
TakeAsk(h) ==
    /\ hand[h].phase = "drain"
    /\ \E x \in Queued(h) :
       /\ ask' = [ask EXCEPT ![x] = Claimed(@)]
       /\ hand' = [hand EXCEPT ![h] =
              [phase |-> "work", at |-> x, tried |-> hand[h].tried \cup {x}]]
    /\ UNCHANGED <<home, sweep, faults>>

\* schedule_release, mark_address_funded.
After(a, action) ==
    CASE action = "mark_funded" /\ home[a].status \in {"free", "reserved"} ->
            [home[a] EXCEPT !.status = "funded"]
      [] action = "release" /\ home[a].status = "reserved" -> [home[a] EXCEPT !.cooling = TRUE]
      [] OTHER -> home[a]

PutDown(h) == hand' = [hand EXCEPT ![h].phase = "drain", ![h].at = NoAsk]

\* Applied or a noop, committed with the answer; a lost lease undoes it.
Apply(h) ==
    /\ hand[h].phase = "work"
    /\ LET x == hand[h].at IN
       IF CanFinish(ask[x])
       THEN /\ home' = [home EXCEPT ![x[1]] = After(x[1], x[2])]
            /\ ask' = [ask EXCEPT ![x] = FinishedAs(@, "done")]
       ELSE UNCHANGED <<home, ask>>
    /\ PutDown(h)
    /\ UNCHANGED <<sweep, faults>>

ApplyRaises(h) ==
    /\ hand[h].phase = "work" /\ faults < MaxFaults
    /\ faults' = faults + 1
    /\ LET x == hand[h].at IN
       IF CanRequeue(ask[x])
       THEN ask' = [ask EXCEPT ![x] = Requeued(@)] /\ PutDown(h)
       ELSE UNCHANGED ask /\ hand' = [hand EXCEPT ![h].phase = "raised"]
    /\ UNCHANGED <<home, sweep>>

\* refuse_address_request, once the budget is out.
GiveUpAsk(h) ==
    /\ hand[h].phase = "raised"
    /\ LET x == hand[h].at IN
       ask' = IF CanFinish(ask[x]) THEN [ask EXCEPT ![x] = FinishedAs(@, "failed")] ELSE ask
    /\ PutDown(h)
    /\ UNCHANGED <<home, sweep, faults>>

-----------------------------------------------------------------------------
\* The loop of serve, with this queue in it

DrainDone(h) ==
    /\ hand[h].phase = "drain" /\ Queued(h) = {}
    /\ hand' = [hand EXCEPT ![h] =
           IF @.tried = {} THEN [NewHand EXCEPT !.phase = "wait"] ELSE NewHand]
    /\ UNCHANGED <<home, ask, sweep, faults>>

\* A notification, of this queue or of another one.
WokenUp(h) ==
    /\ hand[h].phase = "wait"
    /\ hand' = [hand EXCEPT ![h] = NewHand]
    /\ UNCHANGED <<home, ask, sweep, faults>>

\* SQL_RELEASE_DUE: the cooldown is over, or not yet.
Due(a) == home[a].status = "reserved" /\ home[a].cooling /\ home[a].over

\* housekeeping_address_requests: reclaim and prune in one commit, then
\* release_due_everywhere in another; nothing of this process comes between.
KeepHouse(h) ==
    /\ hand[h].phase \in {"wait", "down"}
    /\ ask' = [x \in AskIds |-> IF Finished(ask[x]) THEN ask[x] ELSE Reclaimed(ask[x])]
    /\ home' = [a \in Addresses |->
           IF Due(a) THEN [FreeHome EXCEPT !.money = home[a].money] ELSE home[a]]
    /\ hand' = [hand EXCEPT ![h] = NewHand]
    /\ UNCHANGED <<sweep, faults>>

HandDies(h) ==
    /\ faults < MaxFaults /\ hand[h].phase \in {"work", "raised"}
    /\ faults' = faults + 1
    /\ hand' = [hand EXCEPT ![h] = [NewHand EXCEPT !.phase = "down"]]
    /\ UNCHANGED <<home, ask, sweep>>

\* The lease of an attempt that takes too long, and of one whose holder is gone.
AskLapses(x) ==
    /\ ask[x].status = "processing" /\ ~ask[x].lapsed
    /\ IF \E h \in Hands : hand[h].at = x
       THEN faults < MaxFaults /\ faults' = faults + 1
       ELSE UNCHANGED faults
    /\ ask' = [ask EXCEPT ![x] = LeaseLapsed(@)]
    /\ UNCHANGED <<home, sweep, hand>>

-----------------------------------------------------------------------------
HandWorks(h) == Apply(h) \/ ApplyRaises(h) \/ GiveUpAsk(h)

AddressRequestsNext ==
    \/ \E a \in Addresses : MoveIn(a) \/ TenancyEnds(a) \/ MoneyMoves(a)
    \/ SweepSelects \/ SweepAsks
    \/ \E h \in Hands : \/ TakeAsk(h) \/ HandWorks(h) \/ DrainDone(h)
                        \/ WokenUp(h) \/ KeepHouse(h) \/ HandDies(h)
    \/ \E x \in AskIds : AskLapses(x)

\* The settler ticks, a live deriver goes on and a dead one is started again.  Nothing
\* says that a poll interval ever passes without a notification.
AddressRequestsFairness ==
    /\ WF_lifecycleVars(SweepSelects) /\ WF_lifecycleVars(SweepAsks)
    /\ \A h \in Hands : /\ WF_lifecycleVars(TakeAsk(h) \/ DrainDone(h))
                        /\ WF_lifecycleVars(HandWorks(h))
                        /\ WF_lifecycleVars(WokenUp(h) \/ KeepHouse(h))
                        /\ WF_lifecycleVars(hand[h].phase = "down" /\ KeepHouse(h))
    /\ \A x \in AskIds : WF_lifecycleVars(AskLapses(x))

AddressRequestsSpec ==
    AddressRequestsInit /\ [][AddressRequestsNext]_lifecycleVars /\ AddressRequestsFairness

-----------------------------------------------------------------------------
\* A claim whose holder is dead.
AskLost(x) == ask[x].status = "processing" /\ \A h \in Hands : hand[h].at # x

\* What the queue does under any traffic: money on an address is latched unless a reorg
\* takes it back first, and an address whose tenant is gone and that never held a coin
\* is set to cool, however often the request fails, unless a claim of it is lost.
AsksAreServed ==
    \A a \in Addresses :
        /\ home[a].money = "stands" ~>
               \/ home[a].status = "funded" \/ home[a].money = "reverted"
               \/ AskLost(<<a, "mark_funded">>)
        /\ home[a].status = "reserved" /\ home[a].over /\ home[a].money = "none" ~>
               \/ home[a].status = "free" \/ home[a].cooling \/ home[a].money # "none"
               \/ AskLost(<<a, "release">>)

\* Condition 1 of the reuse rules across failed attempts, lost leases and deaths:
\* an address with money on it is latched in the end, unless a reorg takes the
\* money back first.
MoneyIsLatchedInTheEnd ==
    \A a \in Addresses :
        home[a].money = "stands" ~> home[a].status = "funded" \/ home[a].money = "reverted"

\* "Giving up is not the end of the story": an address whose tenant is gone and
\* that never held a coin comes back to the pool, however often its request fails.
\* One that held a reverted coin does not: no statement looks at it again.
IdleAddressReturns ==
    \A a \in Addresses :
        home[a].status = "reserved" /\ home[a].over /\ home[a].money = "none"
            ~> home[a].status = "free" \/ home[a].money # "none"

\* Every address whose tenant is gone ends where its money says, as far as the loop of
\* serve can see to it: the last step, recovering a lost claim and releasing what has
\* cooled, is housekeeping, and housekeeping waits for a poll interval that no
\* notification ends.
EveryAddressSettles ==
    /\ AsksAreServed
    /\ []<><<\E h \in Hands : KeepHouse(h)>>_lifecycleVars =>
           MoneyIsLatchedInTheEnd /\ IdleAddressReturns
=============================================================================
