----------------------------- MODULE RateLimit -----------------------------
(***************************************************************************)
(* The two token buckets of notifier/ratelimit.py: one for the bot, one    *)
(* for each chat, kept in Redis for all notifiers together and once more   *)
(* in each process for the time Redis is away.                             *)
(*                                                                         *)
(* Beside each bucket runs the meter of the other side: it rises by one    *)
(* with every message that was let through and falls with time, so that it *)
(* stands at the largest excess of any period that ends now.  A limit of   *)
(* burst b and rate r is kept in every period if the meter stays within b. *)
(*                                                                         *)
(* The clocks of the notifiers agree: TAKE_LUA is handed the time of the   *)
(* caller.                                                                 *)
(*                                                                         *)
(* Where a definition stands directly before another one of the same       *)
(* parameters it is a plausible slip in it, which a property must notice.  *)
(***************************************************************************)
EXTENDS Integers

CONSTANTS
    Chats,
    Stores,         \* Redis, and the fallback of each process
    Local,          \* the fallbacks among them
    GlobalBurst, GlobalRate, ChatBurst, ChatRate,
    Whole,          \* the bucket of the bot
    MaxTicks        \* bound: the clock

Buckets == Chats \union {Whole}
Burst(k) == IF k = Whole THEN GlobalBurst ELSE ChatBurst
Rate(k) == IF k = Whole THEN GlobalRate ELSE ChatRate

ASSUME RateLimitAssumption ==
    /\ Local \subseteq Stores /\ Whole \notin Chats
    /\ GlobalBurst \in Nat \ {0} /\ GlobalRate \in Nat \ {0}
    /\ ChatBurst \in Nat \ {0} /\ ChatRate \in Nat \ {0}
    /\ MaxTicks \in Nat

VARIABLES
    bucket,     \* tokens as of the time of the last write
    meter,      \* what was let through
    tick

limitVars == <<bucket, meter, tick>>

RateLimitTypeOK ==
    /\ bucket \in [Stores -> [Buckets -> [tokens: Nat, at: Nat]]]
    /\ meter \in [Stores -> [Buckets -> Nat]]
    /\ tick \in Nat
    /\ \A s \in Stores, k \in Buckets :
          bucket[s][k].tokens <= Burst(k) /\ bucket[s][k].at <= tick

FullBucket(k) == [tokens |-> Burst(k), at |-> tick]

RateLimitInit ==
    /\ tick = 0
    /\ bucket = [s \in Stores |-> [k \in Buckets |-> FullBucket(k)]]
    /\ meter = [s \in Stores |-> [k \in Buckets |-> 0]]

-----------------------------------------------------------------------------
AtMost(x, y) == IF x < y THEN x ELSE y

\* _refill; the first loop of TAKE_LUA.
Refilled(s, k) == bucket[s][k].tokens + (tick - bucket[s][k].at) * Rate(k)
HaveUncapped(s, k) == Refilled(s, k)
Have(s, k) == AtMost(Burst(k), Refilled(s, k))

\* Peek both, take both, or take neither.
TakeEither(s, c) ==
    /\ Have(s, Whole) >= 1
    /\ bucket' = [bucket EXCEPT ![s] = [k \in Buckets |->
           IF k = Whole \/ (k = c /\ Have(s, c) >= 1)
           THEN [tokens |-> Have(s, k) - 1, at |-> tick] ELSE @[k]]]
    /\ meter' = IF Have(s, c) >= 1
                THEN [meter EXCEPT ![s] = [k \in Buckets |-> IF k \in {Whole, c} THEN @[k] + 1 ELSE @[k]]]
                ELSE meter
TakeBoth(s, c) ==
    /\ Have(s, Whole) >= 1 /\ Have(s, c) >= 1
    /\ bucket' = [bucket EXCEPT ![s] = [k \in Buckets |->
           IF k \in {Whole, c} THEN [tokens |-> Have(s, k) - 1, at |-> tick] ELSE @[k]]]
    /\ meter' = [meter EXCEPT ![s] = [k \in Buckets |-> IF k \in {Whole, c} THEN @[k] + 1 ELSE @[k]]]

\* acquire: the message to c goes out once both buckets allow it.
Acquire(s, c) == TakeBoth(s, c) /\ UNCHANGED tick

\* A bucket that is not written for as long as it takes to fill an empty one
\* expires in Redis (PEXPIRE); a local one that is full is evicted
\* (_evict_idle).  Either way the next message finds a full one.
ForgettableAtOnce(s, k) == k \in Chats
Forgettable(s, k) ==
    IF s \in Local THEN k \in Chats /\ Refilled(s, k) >= Burst(k)
    ELSE (tick - bucket[s][k].at) * Rate(k) > Burst(k)
Forget(s, k) ==
    /\ Forgettable(s, k)
    /\ bucket' = [bucket EXCEPT ![s][k] = FullBucket(k)]
    /\ UNCHANGED <<meter, tick>>

Falls(level, rate) == IF level > rate THEN level - rate ELSE 0
Tick ==
    /\ tick < MaxTicks
    /\ tick' = tick + 1
    /\ meter' = [s \in Stores |-> [k \in Buckets |-> Falls(meter[s][k], Rate(k))]]
    /\ UNCHANGED bucket

RateLimitNext ==
    \/ Tick
    \/ \E s \in Stores : (\E c \in Chats : Acquire(s, c)) \/ (\E k \in Buckets : Forget(s, k))

RateLimitSpec == RateLimitInit /\ [][RateLimitNext]_limitVars

-----------------------------------------------------------------------------
\* In no period, whatever buckets expire in it, more messages leave by one store
\* than its burst and its rate allow.
LimitHeld == \A s \in Stores, k \in Buckets : meter[s][k] <= Burst(k)

\* A message that has to wait costs nothing: what is missing in a bucket was sent,
\* so a chat at its own limit never uses up the limit of all ("the leak this whole
\* script exists to avoid").
NoTokenLeaks == \A s \in Stores, k \in Buckets : Have(s, k) + meter[s][k] >= Burst(k)
=============================================================================
