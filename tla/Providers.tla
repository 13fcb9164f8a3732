----------------------------- MODULE Providers -----------------------------
(***************************************************************************)
(* The rotation of RPC providers: one call of watcher/rpc/pool.py over the *)
(* circuit breakers and request budgets of watcher/rpc/breaker.py.         *)
(*                                                                         *)
(* A provider may give any answer to any request.  Time enters as Tick,    *)
(* which takes one unit from every cooldown, and as the end of a budget    *)
(* window.  The walker asks one thing at a time.                           *)
(*                                                                         *)
(* Where a definition stands directly before another one of the same       *)
(* parameters it is a plausible slip in it, which a property must notice.  *)
(***************************************************************************)
EXTENDS Integers

CONSTANTS
    Slots,          \* the rotation is 1..Slots
    TriesPerSlot,   \* RetryPolicy.max_attempts_per_provider
    Threshold,      \* BreakerPolicy.failure_threshold
    BaseCooldown, MaxCooldown,
    Limit           \* RequestBudget.limit

Rotation == 1..Slots

ASSUME ProvidersAssumption ==
    /\ Slots \in Nat \ {0} /\ TriesPerSlot \in Nat \ {0} /\ Threshold \in Nat \ {0}
    /\ BaseCooldown \in Nat \ {0} /\ MaxCooldown \in Nat \ {0} /\ Limit \in Nat \ {0}

\* The taxonomy of watcher/rpc/errors.py; timeout stands for what is worth
\* another try, rate_limited for what is only worth another provider.
RETRYABLE_SAME_PROVIDER == {"timeout"}
COUNTS_AS_PROVIDER_FAILURE == {"timeout", "rate_limited"}
FAILOVER == COUNTS_AS_PROVIDER_FAILURE \union {"circuit_open", "budget_exhausted"}
Failures == COUNTS_AS_PROVIDER_FAILURE \union {"range_too_large", "invalid_request"}

VARIABLES
    breaker,    \* CircuitBreaker of each provider
    spent,      \* RequestBudget of each provider, this window
    call,       \* the call under way
    asked,      \* requests each provider was sent in this window
    missed      \* failures of each provider in a row, since the last tick

providersVars == <<breaker, spent, call, asked, missed>>

\* wait is what is left of the cooldown, last the cooldown before it doubles.
Breakers == [state: {"closed", "open", "half_open"}, failures: Nat, last: Nat, wait: Nat, trial: BOOLEAN]
Healthy == [state |-> "closed", failures |-> 0, last |-> 0, wait |-> 0, trial |-> FALSE]

\* run: one answer is enough; survey: block_hash_agreement asks everybody.
Calls == [phase: {"idle", "ask", "sent"}, kind: {"run", "survey"}, slot: 1..Slots + 1,
          try: 1..TriesPerSlot]
NoCall == [phase |-> "idle", kind |-> "run", slot |-> 1, try |-> 1]

ProvidersTypeOK ==
    /\ breaker \in [Rotation -> Breakers]
    /\ spent \in [Rotation -> 0..Limit]
    /\ call \in Calls
    /\ call.phase # "idle" => call.slot \in Rotation
    /\ asked \in [Rotation -> Nat] /\ missed \in [Rotation -> Nat]

ProvidersInit ==
    /\ breaker = [p \in Rotation |-> Healthy]
    /\ spent = [p \in Rotation |-> 0] /\ asked = [p \in Rotation |-> 0]
    /\ missed = [p \in Rotation |-> 0]
    /\ call = NoCall

-----------------------------------------------------------------------------
\* CircuitBreaker

\* state: open with an elapsed cooldown is half open.
Promoted(b) ==
    IF b.state = "open" /\ b.wait = 0 THEN [b EXCEPT !.state = "half_open", !.trial = FALSE] ELSE b

\* allow: the answer, and the permit it latches.
Allows(b) == Promoted(b).state = "closed" \/ (Promoted(b).state = "half_open" /\ ~Promoted(b).trial)
Admitted(b) == [Promoted(b) EXCEPT !.trial = (Promoted(b).state = "half_open")]

\* record_failure.  The count is not reset by a trip.
Doubled(last) ==
    LET next == IF last = 0 THEN BaseCooldown ELSE 2 * last
    IN  IF next < MaxCooldown THEN next ELSE MaxCooldown
TripsOneLater(b) == b.state = "half_open" \/ b.failures > Threshold
Trips(b) == b.state = "half_open" \/ b.failures + 1 >= Threshold
Failed(b) ==
    LET now == Promoted(b)
        failures == IF now.failures < Threshold THEN now.failures + 1 ELSE Threshold
    IN  IF Trips(now)
        THEN [state |-> "open", failures |-> failures, last |-> Doubled(now.last),
              wait |-> Doubled(now.last), trial |-> FALSE]
        ELSE [now EXCEPT !.state = "closed", !.failures = failures, !.trial = FALSE]

-----------------------------------------------------------------------------
\* RpcPool

Begin ==
    /\ call.phase = "idle"
    /\ \E kind \in {"run", "survey"} : call' = [NoCall EXCEPT !.phase = "ask", !.kind = kind]
    /\ UNCHANGED <<breaker, spent, asked, missed>>

\* _run, block_hash_agreement: how the call goes on after this provider's turn.
AfterTurn(outcome) ==
    IF call.slot < Slots /\ (call.kind = "survey" \/ outcome \in FAILOVER)
    THEN [call EXCEPT !.phase = "ask", !.slot = @ + 1, !.try = 1]
    ELSE NoCall

\* _call_slot asks the budget, then the breaker.
SpendRefused ==
    /\ call.phase = "ask" /\ spent[call.slot] >= Limit
    /\ call' = AfterTurn("budget_exhausted")
    /\ UNCHANGED <<breaker, spent, asked, missed>>

SpendIfSent(p) == IF Allows(breaker[p]) THEN spent ELSE [spent EXCEPT ![p] = @ + 1]
Spend(p) == [spent EXCEPT ![p] = @ + 1]

CircuitRefused ==
    /\ call.phase = "ask" /\ spent[call.slot] < Limit /\ ~Allows(breaker[call.slot])
    /\ spent' = Spend(call.slot)
    /\ breaker' = [breaker EXCEPT ![call.slot] = Promoted(@)]
    /\ call' = AfterTurn("circuit_open")
    /\ UNCHANGED <<asked, missed>>

Request ==
    /\ call.phase = "ask" /\ spent[call.slot] < Limit /\ Allows(breaker[call.slot])
    /\ spent' = Spend(call.slot)
    /\ breaker' = [breaker EXCEPT ![call.slot] = Admitted(@)]
    /\ asked' = [asked EXCEPT ![call.slot] = @ + 1]
    /\ call' = [call EXCEPT !.phase = "sent"]
    /\ UNCHANGED missed

\* record_success: the history is forgotten.
Answered ==
    /\ call.phase = "sent"
    /\ breaker' = [breaker EXCEPT ![call.slot] = Healthy]
    /\ missed' = [missed EXCEPT ![call.slot] = 0]
    /\ call' = AfterTurn("ok")
    /\ UNCHANGED <<spent, asked>>

\* An error the provider is to blame for; the same one is asked again, after a
\* sleep, while the error is worth it and tries are left.
Blamed(outcome) ==
    /\ call.phase = "sent" /\ outcome \in COUNTS_AS_PROVIDER_FAILURE
    /\ breaker' = [breaker EXCEPT ![call.slot] = Failed(@)]
    /\ missed' = [missed EXCEPT ![call.slot] = @ + 1]
    /\ call' = IF outcome \in RETRYABLE_SAME_PROVIDER /\ call.try < TriesPerSlot
               THEN [call EXCEPT !.phase = "ask", !.try = @ + 1]
               ELSE AfterTurn(outcome)
    /\ UNCHANGED <<spent, asked>>

\* "An answer, not an outage": the breaker is told nothing.
NotBlamed(outcome) ==
    /\ call.phase = "sent" /\ outcome \in Failures \ COUNTS_AS_PROVIDER_FAILURE
    /\ call' = AfterTurn(outcome)
    /\ UNCHANGED <<breaker, spent, asked, missed>>

-----------------------------------------------------------------------------
CoolsDown(b) == IF b.wait > 0 THEN [b EXCEPT !.wait = @ - 1] ELSE b
TimePasses ==
    /\ \E p \in Rotation : breaker[p].wait > 0 \/ missed[p] > 0
    /\ breaker' = [p \in Rotation |-> CoolsDown(breaker[p])]
    /\ missed' = [p \in Rotation |-> 0]
    /\ UNCHANGED <<spent, call, asked>>

WindowRolls(p) ==
    /\ spent[p] > 0
    /\ spent' = [spent EXCEPT ![p] = 0] /\ asked' = [asked EXCEPT ![p] = 0]
    /\ UNCHANGED <<breaker, call, missed>>

ProvidersNext ==
    \/ Begin \/ SpendRefused \/ CircuitRefused \/ Request \/ Answered
    \/ \E outcome \in Failures : Blamed(outcome) \/ NotBlamed(outcome)
    \/ TimePasses
    \/ \E p \in Rotation : WindowRolls(p)

ProvidersSpec == ProvidersInit /\ [][ProvidersNext]_providersVars

-----------------------------------------------------------------------------
\* A runaway loop cannot "eat a whole day's quota": what leaves for a provider in
\* one window, retries and trials included, is within its budget.
BudgetHolds == \A p \in Rotation : asked[p] <= Limit

\* "Three strikes": between two ticks of the clock no provider fails more often
\* than the threshold, over whatever calls, retries and trials that is.
DownIsLeftAlone == \A p \in Rotation : missed[p] <= Threshold

\* "The order makes the leak impossible": the trial permit is out only while the
\* trial is.
PermitIsHeld ==
    \A p \in Rotation :
        breaker[p].state = "half_open" /\ breaker[p].trial => call.phase = "sent" /\ call.slot = p
=============================================================================
