--------------------------- MODULE MachinesProofs ---------------------------
(***************************************************************************)
(* The machines of MCMachines, for any constants: the money policy under   *)
(* growing payments, the notifier's rate limit, the provider pool, the     *)
(* splitting of eth_getLogs, a user's quotas, the outbox and the           *)
(* reconciliation. They share no state, and each part below has its own    *)
(* inductive invariant. (The walker has a module of its own,               *)
(* WatcherProofs.)                                                         *)
(***************************************************************************)
EXTENDS MCMoneyPolicy, RateLimit, Providers, LogChunks, Quota, Notifier, Reconcile,
        SumTheorems, SequenceTheorems, TLAPS

-----------------------------------------------------------------------------
(***************************************************************************)
(* MoneyPolicy                                                             *)
(*                                                                         *)
(* The policy decides as its unrounded definition says, for every price,   *)
(* sum, rate, tolerance, threshold and number of confirmations.            *)
(***************************************************************************)
\* Rounding

\* Rounding down loses nothing in a comparison with a whole number.
LEMMA FloorCompare ==
    ASSUME NEW x \in Int, NEW d \in Nat \ {0}, NEW k \in Int
    PROVE  k <= x \div d <=> k * d <= x
<1> DEFINE q == x \div d
           r == x % d
<1>1. q \in Int /\ r \in 0..d-1 /\ x = d * q + r
  OBVIOUS
<1> HIDE DEF q, r
<1>2. ASSUME k <= q PROVE k * d <= x
  <2>1. (q - k) * d >= 0
    BY <1>1, <1>2
  <2> QED BY <2>1, <1>1
<1>3. ASSUME ~(k <= q) PROVE ~(k * d <= x)
  <2>1. (k - q - 1) * d >= 0
    BY <1>1, <1>3
  <2> QED BY <2>1, <1>1
<1> QED BY <1>2, <1>3 DEF q

\* A rounded quotient stays below the exact one by less than a whole.
LEMMA FloorBounds ==
    ASSUME NEW x \in Int, NEW d \in Nat \ {0}
    PROVE  /\ x \div d \in Int
           /\ (x \div d) * d <= x
           /\ x < (x \div d) * d + d
<1> DEFINE q == x \div d
<1>1. q \in Int
  OBVIOUS
<1>2. q * d <= x
  BY <1>1, FloorCompare
<1>3. ~((q + 1) * d <= x)
  BY <1>1, FloorCompare
<1>4. (q + 1) * d = q * d + d
  <2> HIDE DEF q
  <2> QED BY <1>1
<1> QED BY <1>1, <1>2, <1>3, <1>4

-----------------------------------------------------------------------------
\* The decision, for one price and one sum

\* What the buyer owes is inside the tolerance exactly when it is inside both
\* of its halves.
LEMMA InsideTolerance ==
    ASSUME NEW d \in Nat \ {0}, NEW k \in Int
    PROVE  k <= UnderpayTolerance(d) <=>
               /\ k * 1000 <= d * UnderpayPct
               /\ k * RawPerUsdDen <= UnderpayCapUsd * RawPerUsdNum
<1> DEFINE pct == (d * UnderpayPct) \div 1000
           cap == (UnderpayCapUsd * RawPerUsdNum) \div RawPerUsdDen
<1>1. d * UnderpayPct \in Int /\ UnderpayCapUsd * RawPerUsdNum \in Int
  BY PolicyAssumption
<1>2. pct \in Int /\ cap \in Int
  BY <1>1, PolicyAssumption, FloorBounds
<1>3. k <= pct <=> k * 1000 <= d * UnderpayPct
  BY <1>1, FloorCompare
<1>4. k <= cap <=> k * RawPerUsdDen <= UnderpayCapUsd * RawPerUsdNum
  BY <1>1, PolicyAssumption, FloorCompare
<1>5. UnderpayTolerance(d) = IF pct <= cap THEN pct ELSE cap
  BY DEF UnderpayTolerance, Lesser, UsdToRaw
<1> HIDE DEF pct, cap
<1> QED BY <1>2, <1>3, <1>4, <1>5

\* classify grants exactly inside the tolerance, whatever the window says.
LEMMA GrantsExactly ==
    ASSUME NEW d \in Nat \ {0}, NEW t \in Int, NEW w \in BOOLEAN
    PROVE  Grants(d, t, w) <=>
               /\ t > 0
               /\ (d - t) * 1000 <= d * UnderpayPct
               /\ (d - t) * RawPerUsdDen <= UnderpayCapUsd * RawPerUsdNum
<1>1. CASE t <= 0
  BY <1>1 DEF Grants, Classify, GrantingOutcomes
<1>2. CASE t > 0 /\ t < d
  <2>1. Grants(d, t, w) <=> d - t <= UnderpayTolerance(d)
    BY <1>2 DEF Grants, Classify, GrantingOutcomes
  <2> QED BY <2>1, <1>2, InsideTolerance
<1>3. CASE t > 0 /\ t >= d
  <2>1. Grants(d, t, w)
    BY <1>3 DEF Grants, Classify, GrantingOutcomes
  <2>2. (t - d) * 1000 >= 0 /\ d * UnderpayPct >= 0
    BY <1>3, PolicyAssumption
  <2>3. (t - d) * RawPerUsdDen >= 0 /\ UnderpayCapUsd * RawPerUsdNum >= 0
    BY <1>3, PolicyAssumption
  <2>4. (d - t) * 1000 <= 0 /\ (d - t) * RawPerUsdDen <= 0
    BY <2>2, <2>3, PolicyAssumption
  <2> QED BY <1>3, <2>1, <2>2, <2>3, <2>4, PolicyAssumption
<1> QED BY <1>1, <1>2, <1>3

\* The product of a shortfall falls with the shortfall.
LEMMA GrantsMonotone ==
    ASSUME NEW d \in Nat \ {0}, NEW t \in Int, NEW u \in Int, t <= u,
           NEW w \in BOOLEAN, NEW v \in BOOLEAN, Grants(d, t, w)
    PROVE  Grants(d, u, v)
<1>1. /\ t > 0
      /\ (d - t) * 1000 <= d * UnderpayPct
      /\ (d - t) * RawPerUsdDen <= UnderpayCapUsd * RawPerUsdNum
  BY GrantsExactly
<1>2. (u - t) * RawPerUsdDen >= 0
  BY PolicyAssumption
<1>3. (d - u) * RawPerUsdDen <= (d - t) * RawPerUsdDen
  BY <1>2, PolicyAssumption
<1>4. (d - u) * 1000 <= d * UnderpayPct
  BY <1>1, PolicyAssumption
<1>5. (d - u) * RawPerUsdDen <= UnderpayCapUsd * RawPerUsdNum
  BY <1>1, <1>3, PolicyAssumption
<1> QED BY <1>1, <1>4, <1>5, GrantsExactly

-----------------------------------------------------------------------------
\* The reachable prices, sums and heights

\* The types of the five variables; finality never overtakes the chain.
PolicyTypeOK ==
    /\ due \in Nat \ {0} /\ total \in Nat /\ open \in BOOLEAN
    /\ chainHead \in Nat \ {0} /\ finalized \in 0..chainHead

\* The type invariant of the policy run, for every bound.
THEOREM PolicyTypeCorrect == PolicySpec => []PolicyTypeOK
<1>1. PolicyInit => PolicyTypeOK
  BY PolicyBounds DEF PolicyInit, PolicyTypeOK
<1>2. PolicyTypeOK /\ [PolicyNext]_pvars => PolicyTypeOK'
  <2> SUFFICES ASSUME PolicyTypeOK, [PolicyNext]_pvars PROVE PolicyTypeOK'
    OBVIOUS
  <2> USE DEF PolicyTypeOK
  <2>1. CASE TopUp BY <2>1 DEF TopUp
  <2>2. CASE CloseWindow BY <2>2 DEF CloseWindow
  <2>3. CASE Extend BY <2>3 DEF Extend
  <2>4. CASE Finalize BY <2>4 DEF Finalize
  <2>5. CASE UNCHANGED pvars BY <2>5 DEF pvars
  <2> QED BY <2>1, <2>2, <2>3, <2>4, <2>5 DEF PolicyNext
<1> QED BY <1>1, <1>2, PTL DEF PolicySpec

\* The product is granted exactly inside the underpayment tolerance, for every
\* price and sum (settler/policy.py, classify).
THEOREM ToleranceHolds == PolicySpec => []ToleranceRespected
<1>1. PolicyTypeOK => ToleranceRespected
  BY GrantsExactly DEF PolicyTypeOK, ToleranceRespected
<1> QED BY <1>1, PolicyTypeCorrect, PTL

\* A top-up, or the end of the window, never loses the product
\* (settler/policy.py, classify).
THEOREM AccessIsMonotone == PolicySpec => MoreMoneyKeepsAccess
<1>1. PolicyTypeOK /\ PolicyTypeOK' /\ [PolicyNext]_pvars =>
          [Grants(due, total, open) => Grants(due', total', open')]_pvars
  <2> SUFFICES ASSUME PolicyTypeOK, PolicyTypeOK', PolicyNext, Grants(due, total, open)
               PROVE  Grants(due', total', open')
    OBVIOUS
  <2>1. due' = due /\ total <= total'
    BY DEF PolicyNext, TopUp, CloseWindow, Extend, Finalize, PolicyTypeOK
  <2> QED BY <2>1, GrantsMonotone DEF PolicyTypeOK
<1> QED BY <1>1, PolicyTypeCorrect, PTL DEF PolicySpec, MoreMoneyKeepsAccess

\* A credited excess is worth what was sent, rounded down to one step of the
\* balance (settler/service.py, _creditable_usd).
THEOREM CreditIsExact == PolicySpec => []ExcessCreditExact
<1>1. PolicyTypeOK => ExcessCreditExact
  <2> SUFFICES ASSUME PolicyTypeOK, total > due PROVE ExcessCreditExact
    BY DEF ExcessCreditExact
  <2> DEFINE sent == (total - due) * RawPerUsdDen * UsdQuantum
  <2>1. sent \in Int
    BY PolicyAssumption DEF PolicyTypeOK
  <2>2. /\ (sent \div RawPerUsdNum) * RawPerUsdNum <= sent
        /\ sent < (sent \div RawPerUsdNum) * RawPerUsdNum + RawPerUsdNum
    BY <2>1, PolicyAssumption, FloorBounds
  <2> QED BY <2>2 DEF ExcessCreditExact, CreditableUsd
<1> QED BY <1>1, PolicyTypeCorrect, PTL

\* A block counts exactly when it is deep enough and, above the threshold,
\* finalized (settler/confirmations.py, creditable_cutoff_height).
THEOREM DepthIsCounted == PolicySpec => []CountedIsDeep
<1>1. PolicyTypeOK => CountedIsDeep
  BY PolicyAssumption
  DEF PolicyTypeOK, CountedIsDeep, CutoffHeight, NeedsFinality, WorthMoreThan, Lesser
<1> QED BY <1>1, PolicyTypeCorrect, PTL

-----------------------------------------------------------------------------
(***************************************************************************)
(* RateLimit                                                               *)
(*                                                                         *)
(* The limit is not inductive: what a bucket lets through next depends on  *)
(* what it holds. The strengthening is exact: what was let through and     *)
(* what may still be let through make up the burst, at every moment        *)
(* (TokensAndMeter). It says both that nothing too much leaves and that no *)
(* token is lost.                                                          *)
(***************************************************************************)
TokensAndMeter == \A s \in Stores, k \in Buckets : Have(s, k) + meter[s][k] = Burst(k)

LimitInv == RateLimitTypeOK /\ TokensAndMeter

-----------------------------------------------------------------------------
\* Every bucket has room, and fills.
LEMMA BurstsAndRates ==
    ASSUME NEW k \in Buckets
    PROVE  Burst(k) \in Nat \ {0} /\ Rate(k) \in Nat \ {0}
BY RateLimitAssumption DEF Burst, Rate

\* A bucket that fills for a while longer.
LEMMA OneTickMore ==
    ASSUME NEW t \in Nat, NEW at \in Nat, NEW r \in Nat, at <= t
    PROVE  /\ (t + 1 - at) * r = (t - at) * r + r
           /\ (t - at) * r \in Nat
<1> DEFINE d == t - at
<1>1. d \in Nat
  OBVIOUS
<1>2. t + 1 - at = d + 1
  OBVIOUS
<1>3. (d + 1) * r = d * r + r /\ d * r \in Nat
  BY <1>1
<1> QED
  BY <1>2, <1>3

\* What a bucket holds at the next call: its tokens refilled, never above its burst.
LEMMA WhatABucketHas ==
    ASSUME RateLimitTypeOK, NEW s \in Stores, NEW k \in Buckets
    PROVE  /\ Refilled(s, k) \in Nat
           /\ Have(s, k) \in Nat
           /\ Have(s, k) <= Burst(k)
           /\ Have(s, k) = IF Burst(k) < Refilled(s, k) THEN Burst(k) ELSE Refilled(s, k)
<1>1. /\ bucket[s][k].tokens \in Nat /\ bucket[s][k].at \in Nat /\ tick \in Nat
      /\ bucket[s][k].at <= tick
  BY DEF RateLimitTypeOK
<1>2. Burst(k) \in Nat /\ Rate(k) \in Nat
  BY BurstsAndRates
<1>3. (tick - bucket[s][k].at) * Rate(k) \in Nat
  BY <1>1, <1>2, OneTickMore
<1>4. Refilled(s, k) \in Nat
  BY <1>1, <1>3 DEF Refilled
<1> QED
  BY <1>2, <1>4 DEF Have, AtMost

-----------------------------------------------------------------------------
\* Every bucket starts full, and nothing was let through yet.
LEMMA FullAtTheStart == RateLimitInit => LimitInv
<1> SUFFICES ASSUME RateLimitInit PROVE LimitInv
  OBVIOUS
<1> USE DEF RateLimitInit
<1>1. RateLimitTypeOK
  BY BurstsAndRates DEF RateLimitTypeOK, FullBucket
<1>2. ASSUME NEW s \in Stores, NEW k \in Buckets PROVE Have(s, k) + meter[s][k] = Burst(k)
  <2>1. Burst(k) \in Nat /\ Rate(k) \in Nat /\ 0 * Rate(k) = 0
    BY BurstsAndRates
  <2>2. Refilled(s, k) = Burst(k)
    BY <2>1 DEF Refilled, FullBucket
  <2> QED
    BY <2>1, <2>2 DEF Have, AtMost
<1> QED
  BY <1>1, <1>2 DEF LimitInv, TokensAndMeter

\* A bucket that is written now has what was written into it.
LEMMA FreshBucketHas ==
    ASSUME NEW s \in Stores, NEW k \in Buckets, NEW n \in Nat, tick \in Nat, tick' = tick,
           n <= Burst(k), bucket'[s][k] = [tokens |-> n, at |-> tick]
    PROVE  Have(s, k)' = n
<1>1. Burst(k) \in Nat /\ Rate(k) \in Nat
  BY BurstsAndRates
<1>2. (tick - tick) * Rate(k) = 0
  BY <1>1
<1>3. Refilled(s, k)' = n
  BY <1>2 DEF Refilled
<1>4. Burst(k)' = Burst(k)
  BY DEF Burst
<1> QED
  BY <1>1, <1>3, <1>4 DEF Have, AtMost

\* A token is taken from both buckets of a chat, or from neither.
LEMMA AcquireKeepsIt ==
    ASSUME LimitInv, NEW s \in Stores, NEW c \in Chats, Acquire(s, c)
    PROVE  LimitInv'
<1> USE DEF LimitInv
<1>0. c \in Buckets /\ Whole \in Buckets
  BY DEF Buckets
<1>1. /\ Have(s, Whole) >= 1 /\ Have(s, c) >= 1
      /\ bucket' = [bucket EXCEPT ![s] = [k \in Buckets |->
             IF k \in {Whole, c} THEN [tokens |-> Have(s, k) - 1, at |-> tick] ELSE @[k]]]
      /\ meter' = [meter EXCEPT ![s] = [k \in Buckets |-> IF k \in {Whole, c} THEN @[k] + 1 ELSE @[k]]]
      /\ tick' = tick
  BY DEF Acquire, TakeBoth
<1>2. /\ bucket \in [Stores -> [Buckets -> [tokens: Nat, at: Nat]]]
      /\ meter \in [Stores -> [Buckets -> Nat]]
      /\ tick \in Nat
      /\ \A q \in Stores, k \in Buckets : bucket[q][k].tokens <= Burst(k) /\ bucket[q][k].at <= tick
  BY DEF RateLimitTypeOK
<1>3. \A k \in Buckets : Have(s, k) \in Nat /\ Have(s, k) <= Burst(k) /\ Burst(k) \in Nat
  BY WhatABucketHas, BurstsAndRates
<1>4. \A k \in {Whole, c} : /\ Have(s, k) - 1 \in Nat
                            /\ bucket'[s][k] = [tokens |-> Have(s, k) - 1, at |-> tick]
                            /\ meter'[s][k] = meter[s][k] + 1
  BY <1>0, <1>1, <1>2, <1>3
<1>5. \A q \in Stores, k \in Buckets : (q # s \/ k \notin {Whole, c}) =>
          bucket'[q][k] = bucket[q][k] /\ meter'[q][k] = meter[q][k]
  BY <1>1, <1>2
<1>6. RateLimitTypeOK'
  <2>1. bucket' \in [Stores -> [Buckets -> [tokens: Nat, at: Nat]]]
    BY <1>0, <1>1, <1>2, <1>4
  <2>2. meter' \in [Stores -> [Buckets -> Nat]]
    BY <1>1, <1>2
  <2>3. ASSUME NEW q \in Stores, NEW k \in Buckets
        PROVE  bucket'[q][k].tokens <= Burst(k) /\ bucket'[q][k].at <= tick'
    <3>1. CASE q = s /\ k \in {Whole, c}
      BY <1>1, <1>2, <1>3, <1>4, <3>1
    <3>2. CASE q # s \/ k \notin {Whole, c}
      BY <1>1, <1>2, <1>5, <3>2
    <3> QED
      BY <3>1, <3>2
  <2> QED
    BY <1>1, <1>2, <2>1, <2>2, <2>3 DEF RateLimitTypeOK, Burst
<1>7. ASSUME NEW q \in Stores, NEW k \in Buckets
      PROVE  Have(q, k)' + meter'[q][k] = Burst(k)
  <2>0. Have(q, k) + meter[q][k] = Burst(k)
    BY DEF TokensAndMeter
  <2>1. CASE q = s /\ k \in {Whole, c}
    <3>1. /\ Have(s, k) \in Nat /\ Have(s, k) - 1 \in Nat /\ Have(s, k) - 1 <= Burst(k)
          /\ bucket'[s][k] = [tokens |-> Have(s, k) - 1, at |-> tick]
          /\ meter'[s][k] = meter[s][k] + 1 /\ meter[s][k] \in Nat /\ Burst(k) \in Nat
      BY <1>2, <1>3, <1>4, <2>1
    <3>2. Have(s, k)' = Have(s, k) - 1
      BY <1>1, <1>2, <3>1, FreshBucketHas
    <3> HIDE DEF LimitInv
    <3> QED
      BY <2>0, <2>1, <3>1, <3>2
  <2>2. CASE q # s \/ k \notin {Whole, c}
    <3>1. Have(q, k)' = Have(q, k)
      BY <1>1, <1>5, <2>2 DEF Have, Refilled, AtMost, Burst, Rate
    <3> QED
      BY <1>5, <2>0, <2>2, <3>1
  <2> QED
    BY <2>1, <2>2
<1> QED
  BY <1>6, <1>7 DEF TokensAndMeter, Burst

\* A bucket that is dropped and made anew is full: it must have been full already.
LEMMA ForgetKeepsIt ==
    ASSUME LimitInv, NEW s \in Stores, NEW k \in Buckets, Forget(s, k)
    PROVE  LimitInv'
<1> USE DEF LimitInv
<1>1. /\ bucket \in [Stores -> [Buckets -> [tokens: Nat, at: Nat]]]
      /\ tick \in Nat /\ tick' = tick /\ meter' = meter
      /\ bucket' = [bucket EXCEPT ![s][k] = [tokens |-> Burst(k), at |-> tick]]
      /\ \A q \in Stores, j \in Buckets : bucket[q][j].tokens <= Burst(j) /\ bucket[q][j].at <= tick
  BY DEF Forget, FullBucket, RateLimitTypeOK
<1>2. \A j \in Buckets : Burst(j) \in Nat /\ Rate(j) \in Nat
  BY BurstsAndRates
<1>3. /\ bucket'[s][k] = [tokens |-> Burst(k), at |-> tick]
      /\ \A q \in Stores, j \in Buckets : (q # s \/ j # k) => bucket'[q][j] = bucket[q][j]
  BY <1>1
<1>4. Have(s, k) = Burst(k)
  <2>1. Refilled(s, k) >= Burst(k)
    <3>1. CASE s \in Local
      BY <3>1 DEF Forget, Forgettable
    <3>2. CASE s \notin Local
      <4>1. (tick - bucket[s][k].at) * Rate(k) > Burst(k)
        BY <3>2 DEF Forget, Forgettable
      <4>2. bucket[s][k].tokens \in Nat /\ (tick - bucket[s][k].at) * Rate(k) \in Nat
        BY <1>1, <1>2, OneTickMore
      <4> QED
        BY <1>2, <4>1, <4>2 DEF Refilled
    <3> QED
      BY <3>1, <3>2
  <2> QED
    BY <1>2, <2>1, WhatABucketHas
<1>5. RateLimitTypeOK'
  <2>1. bucket' \in [Stores -> [Buckets -> [tokens: Nat, at: Nat]]]
    BY <1>1, <1>2
  <2>2. ASSUME NEW q \in Stores, NEW j \in Buckets
        PROVE  bucket'[q][j].tokens <= Burst(j) /\ bucket'[q][j].at <= tick'
    BY <1>1, <1>2, <1>3
  <2> QED
    BY <1>1, <2>1, <2>2 DEF RateLimitTypeOK, Burst
<1>6. ASSUME NEW q \in Stores, NEW j \in Buckets
      PROVE  Have(q, j)' + meter'[q][j] = Burst(j)
  <2>0. Have(q, j) + meter[q][j] = Burst(j)
    BY DEF TokensAndMeter
  <2>1. Have(q, j)' = Have(q, j)
    <3>1. CASE q = s /\ j = k
      BY <1>1, <1>2, <1>3, <1>4, <3>1, FreshBucketHas
    <3>2. CASE q # s \/ j # k
      BY <1>1, <1>3, <3>2 DEF Have, Refilled, AtMost, Burst, Rate
    <3> QED
      BY <3>1, <3>2
  <2> QED
    BY <1>1, <2>0, <2>1
<1> QED
  BY <1>5, <1>6 DEF TokensAndMeter, Burst

\* Time passes: what a bucket gains the meter gives back.
LEMMA TickKeepsIt ==
    ASSUME LimitInv, Tick
    PROVE  LimitInv'
<1> USE DEF LimitInv
<1>1. /\ bucket \in [Stores -> [Buckets -> [tokens: Nat, at: Nat]]]
      /\ meter \in [Stores -> [Buckets -> Nat]]
      /\ tick \in Nat /\ tick' = tick + 1 /\ bucket' = bucket
      /\ meter' = [s \in Stores |-> [k \in Buckets |-> Falls(meter[s][k], Rate(k))]]
      /\ \A q \in Stores, j \in Buckets : bucket[q][j].tokens <= Burst(j) /\ bucket[q][j].at <= tick
  BY DEF Tick, RateLimitTypeOK
<1>2. \A j \in Buckets : Burst(j) \in Nat /\ Rate(j) \in Nat
  BY BurstsAndRates
<1>3. RateLimitTypeOK'
  <2>1. meter' \in [Stores -> [Buckets -> Nat]]
    BY <1>1, <1>2 DEF Falls
  <2> QED
    BY <1>1, <2>1 DEF RateLimitTypeOK, Burst
<1>4. ASSUME NEW s \in Stores, NEW k \in Buckets
      PROVE  Have(s, k)' + meter'[s][k] = Burst(k)
  <2>0. /\ Have(s, k) + meter[s][k] = Burst(k) /\ meter[s][k] \in Nat
        /\ Burst(k) \in Nat /\ Rate(k) \in Nat
    BY <1>1, <1>2 DEF TokensAndMeter
  <2>1. /\ Refilled(s, k) \in Nat
        /\ Have(s, k) = IF Burst(k) < Refilled(s, k) THEN Burst(k) ELSE Refilled(s, k)
    BY WhatABucketHas
  <2>2. Refilled(s, k)' = Refilled(s, k) + Rate(k)
    <3>1. bucket[s][k].tokens \in Nat /\ bucket[s][k].at \in Nat /\ bucket[s][k].at <= tick
      BY <1>1
    <3>2. (tick + 1 - bucket[s][k].at) * Rate(k)
              = (tick - bucket[s][k].at) * Rate(k) + Rate(k)
      BY <1>1, <2>0, <3>1, OneTickMore
    <3>3. (tick - bucket[s][k].at) * Rate(k) \in Nat
      BY <1>1, <2>0, <3>1, OneTickMore
    <3>4. Refilled(s, k)' = bucket[s][k].tokens + (tick + 1 - bucket[s][k].at) * Rate(k)
      <4>1. bucket'[s][k] = bucket[s][k] /\ tick' = tick + 1 /\ tick \in Nat
        BY <1>1
      <4>2. Refilled(s, k)' = bucket'[s][k].tokens + (tick' - bucket'[s][k].at) * Rate(k)
        BY ZenonT(20) DEF Refilled, Rate
      <4>3. tick' - bucket'[s][k].at = tick + 1 - bucket[s][k].at
        BY <3>1, <4>1
      <4>4. bucket'[s][k].tokens = bucket[s][k].tokens
        BY <4>1
      <4> QED
        BY <4>2, <4>3, <4>4, ZenonT(20)
    <3> QED
      BY <2>0, <3>1, <3>2, <3>3, <3>4 DEF Refilled
  <2>3. Have(s, k)' = IF Burst(k) < Refilled(s, k) + Rate(k)
                      THEN Burst(k) ELSE Refilled(s, k) + Rate(k)
    BY <2>2 DEF Have, AtMost, Burst
  <2>4. meter'[s][k] = IF meter[s][k] > Rate(k) THEN meter[s][k] - Rate(k) ELSE 0
    BY <1>1 DEF Falls
  <2> QED
    BY <2>0, <2>1, <2>3, <2>4
<1> QED
  BY <1>3, <1>4 DEF TokensAndMeter, Burst

\* Every step of the limiter keeps the balance of tokens and meter.
LEMMA StepKeepsIt == LimitInv /\ [RateLimitNext]_limitVars => LimitInv'
<1> SUFFICES ASSUME LimitInv, [RateLimitNext]_limitVars PROVE LimitInv'
  OBVIOUS
<1>1. CASE Tick
  BY <1>1, TickKeepsIt
<1>2. ASSUME NEW s \in Stores, NEW c \in Chats, Acquire(s, c) PROVE LimitInv'
  BY <1>2, AcquireKeepsIt
<1>3. ASSUME NEW s \in Stores, NEW k \in Buckets, Forget(s, k) PROVE LimitInv'
  BY <1>3, ForgetKeepsIt
<1>4. CASE UNCHANGED limitVars
  BY <1>4 DEF limitVars, LimitInv, RateLimitTypeOK, TokensAndMeter, Have, Refilled, AtMost, Burst, Rate
<1> QED
  BY <1>1, <1>2, <1>3, <1>4 DEF RateLimitNext

-----------------------------------------------------------------------------
\* No period has more messages of one store than its burst and its rate allow
\* (LimitHeld), and no token is lost (NoTokenLeaks): notifier/ratelimit.py for any
\* chats, stores, bursts, rates and times, whatever buckets expire or are evicted.
THEOREM LimitsAreKept == RateLimitSpec => []LimitHeld
<1>1. LimitInv => LimitHeld
  <2> SUFFICES ASSUME LimitInv, NEW s \in Stores, NEW k \in Buckets
               PROVE  meter[s][k] <= Burst(k)
    BY DEF LimitHeld
  <2>1. Have(s, k) \in Nat
    BY WhatABucketHas DEF LimitInv
  <2>2. Have(s, k) + meter[s][k] = Burst(k) /\ meter[s][k] \in Nat
    BY DEF LimitInv, TokensAndMeter, RateLimitTypeOK
  <2> QED
    BY <2>1, <2>2, BurstsAndRates
<1> QED
  BY <1>1, FullAtTheStart, StepKeepsIt, PTL DEF RateLimitSpec

\* What is missing in a bucket was sent: a message that has to wait for its chat
\* takes nothing from the limit of all.
THEOREM NoTokenIsLost == RateLimitSpec => []NoTokenLeaks
<1>1. LimitInv => NoTokenLeaks
  <2> SUFFICES ASSUME LimitInv, NEW s \in Stores, NEW k \in Buckets
               PROVE  Have(s, k) + meter[s][k] >= Burst(k)
    BY DEF NoTokenLeaks
  <2>1. Have(s, k) + meter[s][k] = Burst(k)
    BY DEF LimitInv, TokensAndMeter
  <2> QED
    BY <2>1, BurstsAndRates
<1> QED
  BY <1>1, FullAtTheStart, StepKeepsIt, PTL DEF RateLimitSpec

-----------------------------------------------------------------------------
(***************************************************************************)
(* Providers                                                               *)
(*                                                                         *)
(* How often a provider has failed is no bound on how often it may fail    *)
(* yet: that depends on its breaker. Struck relates the two in each of its *)
(* three states.                                                           *)
(***************************************************************************)
\* What the failures of this tick have to do with the breaker: a closed one has
\* counted them all, one that is due for a trial has seen none, and one that is
\* open had its cooldown started by the last of them.
Struck(p) ==
    /\ breaker[p].state = "closed" =>
           missed[p] <= breaker[p].failures /\ breaker[p].failures < Threshold
    /\ breaker[p].state = "half_open" => missed[p] = 0
    /\ breaker[p].state = "open" =>
           missed[p] <= Threshold /\ (breaker[p].wait = 0 => missed[p] = 0)

\* No answer is waited for behind an open breaker.
SentIsAdmitted == call.phase = "sent" => breaker[call.slot].state # "open"

ProvidersInv ==
    /\ ProvidersTypeOK
    /\ \A p \in Rotation : Struck(p) /\ asked[p] <= spent[p]
    /\ SentIsAdmitted

\* A cooldown that doubles stays a positive number.
LEMMA Doubles ==
    ASSUME NEW last \in Nat
    PROVE  Doubled(last) \in Nat /\ Doubled(last) > 0
BY ProvidersAssumption DEF Doubled

\* What the breaker's operations return is a breaker.
LEMMA BreakerTypes ==
    ASSUME NEW b \in Breakers
    PROVE  /\ Promoted(b) \in Breakers /\ Admitted(b) \in Breakers
           /\ Failed(b) \in Breakers /\ CoolsDown(b) \in Breakers /\ Healthy \in Breakers
<1>1. Promoted(b) \in Breakers
  BY DEF Promoted, Breakers
<1>2. Admitted(b) \in Breakers
  BY <1>1 DEF Admitted, Breakers
<1>3. Failed(b) \in Breakers
  <2> DEFINE now == Promoted(b)
             failures == IF now.failures < Threshold THEN now.failures + 1 ELSE Threshold
  <2>1. now \in Breakers /\ now.last \in Nat /\ now.failures \in Nat
    BY <1>1 DEF Breakers
  <2>2. failures \in Nat /\ Doubled(now.last) \in Nat
    BY <2>1, Doubles, ProvidersAssumption
  <2>3. CASE Trips(now)
    <3>1. Failed(b) = [state |-> "open", failures |-> failures, last |-> Doubled(now.last),
                       wait |-> Doubled(now.last), trial |-> FALSE]
      BY <2>3 DEF Failed
    <3> HIDE DEF failures, now
    <3> QED
      BY <2>2, <3>1 DEF Breakers
  <2>4. CASE ~Trips(now)
    <3>1. Failed(b) = [now EXCEPT !.state = "closed", !.failures = failures, !.trial = FALSE]
      BY <2>4 DEF Failed
    <3> HIDE DEF failures, now
    <3> QED
      BY <2>1, <2>2, <3>1 DEF Breakers
  <2> QED
    BY <2>3, <2>4
<1>4. CoolsDown(b) \in Breakers
  BY DEF CoolsDown, Breakers
<1> QED
  BY <1>1, <1>2, <1>3, <1>4 DEF Healthy, Breakers

\* The call that follows a provider's answer.
LEMMA TurnTypes ==
    ASSUME call \in Calls, call.phase # "idle", call.slot \in Rotation, NEW outcome
    PROVE  /\ AfterTurn(outcome) \in Calls
           /\ AfterTurn(outcome).phase \in {"idle", "ask"}
           /\ AfterTurn(outcome).phase # "idle" => AfterTurn(outcome).slot \in Rotation
<1>1. call.slot \in 1..Slots /\ call \in Calls /\ Slots \in Nat \ {0} /\ 1 \in 1..TriesPerSlot
  BY ProvidersAssumption DEF Rotation
<1>2. NoCall \in Calls /\ NoCall.phase = "idle"
  BY <1>1 DEF NoCall, Calls
<1>3. CASE call.slot < Slots /\ (call.kind = "survey" \/ outcome \in FAILOVER)
  <2>1. AfterTurn(outcome) = [call EXCEPT !.phase = "ask", !.slot = @ + 1, !.try = 1]
    BY <1>3 DEF AfterTurn
  <2>2. call.slot + 1 \in 1..Slots /\ call.slot + 1 \in 1..Slots + 1
    BY <1>1, <1>3
  <2>3. /\ AfterTurn(outcome).phase = "ask" /\ AfterTurn(outcome).slot = call.slot + 1
        /\ AfterTurn(outcome) \in Calls
    BY <1>1, <2>1, <2>2 DEF Calls
  <2> QED
    BY <2>2, <2>3 DEF Rotation
<1>4. CASE ~(call.slot < Slots /\ (call.kind = "survey" \/ outcome \in FAILOVER))
  BY <1>2, <1>4 DEF AfterTurn
<1> QED
  BY <1>3, <1>4
-----------------------------------------------------------------------------
\* Every provider starts in rotation with nothing against it.
LEMMA ProvidersStart == ProvidersInit => ProvidersInv
<1> SUFFICES ASSUME ProvidersInit PROVE ProvidersInv
  OBVIOUS
<1>1. Healthy \in Breakers /\ NoCall \in Calls /\ NoCall.phase = "idle"
  BY ProvidersAssumption DEF Healthy, Breakers, NoCall, Calls
<1>2. ProvidersTypeOK
  BY <1>1, ProvidersAssumption DEF ProvidersInit, ProvidersTypeOK
<1> QED
  BY <1>1, <1>2, ProvidersAssumption
  DEF ProvidersInit, ProvidersInv, Struck, SentIsAdmitted, Healthy

\* A step of the pool keeps the types.
LEMMA ProvidersTyped ==
    ASSUME ProvidersTypeOK, [ProvidersNext]_providersVars
    PROVE  ProvidersTypeOK'
<1> USE DEF ProvidersTypeOK
<1>0. /\ call \in Calls /\ Slots \in Nat \ {0} /\ TriesPerSlot \in Nat \ {0} /\ Limit \in Nat \ {0}
      /\ \A p \in Rotation : /\ breaker[p] \in Breakers /\ spent[p] \in 0..Limit
                             /\ asked[p] \in Nat /\ missed[p] \in Nat
  BY ProvidersAssumption
<1>1. CASE Begin
  <2>1. PICK kind \in {"run", "survey"} : call' = [NoCall EXCEPT !.phase = "ask", !.kind = kind]
    BY <1>1 DEF Begin
  <2>2. call' = [phase |-> "ask", kind |-> kind, slot |-> 1, try |-> 1]
    BY <2>1 DEF NoCall
  <2>4. call' \in Calls /\ call'.slot = 1
    BY <1>0, <2>2 DEF Calls
  <2>3. 1 \in Rotation
    BY <1>0 DEF Rotation
  <2> QED
    BY <1>1, <2>3, <2>4 DEF Begin
<1>2. CASE SpendRefused
  BY <1>0, <1>2, TurnTypes DEF SpendRefused
<1>3. CASE CircuitRefused
  <2>1. call.slot \in Rotation
    BY <1>3 DEF CircuitRefused
  <2>2. spent' \in [Rotation -> 0..Limit]
    BY <1>0, <1>3, <2>1 DEF CircuitRefused, Spend
  <2>3. breaker' \in [Rotation -> Breakers]
    BY <1>0, <1>3, <2>1, BreakerTypes DEF CircuitRefused
  <2>4. call' \in Calls /\ (call'.phase # "idle" => call'.slot \in Rotation)
    BY <1>0, <1>3, <2>1, TurnTypes DEF CircuitRefused
  <2> QED
    BY <1>3, <2>2, <2>3, <2>4 DEF CircuitRefused
<1>4. CASE Request
  <2>1. call.slot \in Rotation
    BY <1>4 DEF Request
  <2>2. spent' \in [Rotation -> 0..Limit] /\ asked' \in [Rotation -> Nat]
    BY <1>0, <1>4, <2>1 DEF Request, Spend
  <2>3. breaker' \in [Rotation -> Breakers]
    BY <1>0, <1>4, <2>1, BreakerTypes DEF Request
  <2>4. call' \in Calls /\ call'.slot = call.slot
    BY <1>0, <1>4 DEF Request, Calls
  <2> QED
    BY <1>4, <2>1, <2>2, <2>3, <2>4 DEF Request
<1>5. CASE Answered
  <2>1. call.slot \in Rotation
    BY <1>5 DEF Answered
  <2>3. breaker' \in [Rotation -> Breakers]
    BY <1>0, <1>5, <2>1, BreakerTypes DEF Answered
  <2>4. call' \in Calls /\ (call'.phase # "idle" => call'.slot \in Rotation)
    BY <1>0, <1>5, <2>1, TurnTypes DEF Answered
  <2> QED
    BY <1>5, <2>1, <2>3, <2>4 DEF Answered
<1>6. ASSUME NEW outcome \in Failures, Blamed(outcome) PROVE ProvidersTypeOK'
  <2>1. call.slot \in Rotation
    BY <1>6 DEF Blamed
  <2>3. breaker' \in [Rotation -> Breakers] /\ missed' \in [Rotation -> Nat]
    BY <1>0, <1>6, <2>1, BreakerTypes DEF Blamed
  <2>4. call' \in Calls /\ (call'.phase # "idle" => call'.slot \in Rotation)
    <3>1. CASE outcome \in RETRYABLE_SAME_PROVIDER /\ call.try < TriesPerSlot
      <4>1. call' = [call EXCEPT !.phase = "ask", !.try = @ + 1]
        BY <1>6, <3>1 DEF Blamed
      <4>2. call.try + 1 \in 1..TriesPerSlot
        BY <1>0, <3>1 DEF Calls
      <4> QED
        BY <1>0, <2>1, <4>1, <4>2 DEF Calls
    <3>2. CASE ~(outcome \in RETRYABLE_SAME_PROVIDER /\ call.try < TriesPerSlot)
      BY <1>0, <1>6, <2>1, <3>2, TurnTypes DEF Blamed
    <3> QED
      BY <3>1, <3>2
  <2> QED
    BY <1>6, <2>1, <2>3, <2>4 DEF Blamed
<1>7. ASSUME NEW outcome \in Failures, NotBlamed(outcome) PROVE ProvidersTypeOK'
  BY <1>0, <1>7, TurnTypes DEF NotBlamed
<1>8. CASE TimePasses
  BY <1>0, <1>8, BreakerTypes DEF TimePasses
<1>9. ASSUME NEW p \in Rotation, WindowRolls(p) PROVE ProvidersTypeOK'
  <2>1. spent' \in [Rotation -> 0..Limit] /\ asked' \in [Rotation -> Nat]
    BY <1>0, <1>9 DEF WindowRolls
  <2> QED
    BY <1>9, <2>1 DEF WindowRolls
<1>10. CASE UNCHANGED providersVars
  BY <1>10 DEF providersVars
<1> QED
  BY <1>1, <1>2, <1>3, <1>4, <1>5, <1>6, <1>7, <1>8, <1>9, <1>10 DEF ProvidersNext
\* What an answer, a failure and a tick do to one breaker.
LEMMA Admission ==
    ASSUME ProvidersInv, NEW p \in Rotation, Allows(breaker[p])
    PROVE  /\ Admitted(breaker[p]).state = "closed" =>
                  /\ missed[p] <= Admitted(breaker[p]).failures
                  /\ Admitted(breaker[p]).failures < Threshold
           /\ Admitted(breaker[p]).state = "half_open" => missed[p] = 0
           /\ Admitted(breaker[p]).state # "open"
<1>1. breaker[p] \in Breakers /\ Struck(p)
  BY DEF ProvidersInv, ProvidersTypeOK
<1> QED
  BY <1>1 DEF Allows, Admitted, Promoted, Struck, Breakers

\* What Struck says of a breaker after its cooldown has been looked at (Promoted).
LEMMA Refusal ==
    ASSUME ProvidersInv, NEW p \in Rotation
    PROVE  LET b == Promoted(breaker[p]) IN
           /\ b.state = "closed" => missed[p] <= b.failures /\ b.failures < Threshold
           /\ b.state = "half_open" => missed[p] = 0
           /\ b.state = "open" => missed[p] <= Threshold /\ (b.wait = 0 => missed[p] = 0)
<1>1. breaker[p] \in Breakers /\ Struck(p)
  BY DEF ProvidersInv, ProvidersTypeOK
<1> QED
  BY <1>1 DEF Promoted, Struck, Breakers

\* The failure that trips a breaker is the last of its tick.
LEMMA Strike ==
    ASSUME ProvidersInv, NEW p \in Rotation, breaker[p].state # "open"
    PROVE  LET b == Failed(breaker[p]) IN
           /\ b.state = "closed" => missed[p] + 1 <= b.failures /\ b.failures < Threshold
           /\ b.state # "half_open"
           /\ b.state = "open" => missed[p] + 1 <= Threshold /\ b.wait # 0
<1>1. /\ breaker[p] \in Breakers /\ Struck(p) /\ missed[p] \in Nat
      /\ breaker[p].last \in Nat /\ breaker[p].failures \in Nat
      /\ breaker[p].state \in {"closed", "half_open"} /\ Threshold \in Nat \ {0}
  BY ProvidersAssumption DEF ProvidersInv, ProvidersTypeOK, Breakers
<1>2. Promoted(breaker[p]) = breaker[p]
  BY DEF Promoted
<1>3. Doubled(breaker[p].last) \in Nat /\ Doubled(breaker[p].last) > 0
  BY <1>1, Doubles
<1>4. CASE Trips(breaker[p])
  <2>1. /\ Failed(breaker[p]).state = "open"
        /\ Failed(breaker[p]).wait = Doubled(breaker[p].last)
    BY <1>2, <1>4 DEF Failed
  <2>2. missed[p] + 1 <= Threshold
    BY <1>1 DEF Struck
  <2> QED
    BY <1>3, <2>1, <2>2
<1>5. CASE ~Trips(breaker[p])
  <2>1. /\ breaker[p].state = "closed" /\ breaker[p].failures + 1 < Threshold
    BY <1>1, <1>5 DEF Trips
  <2>2. /\ Failed(breaker[p]).state = "closed"
        /\ Failed(breaker[p]).failures = breaker[p].failures + 1
    BY <1>1, <1>2, <1>5, <2>1 DEF Failed, Breakers
  <2> QED
    BY <1>1, <2>1, <2>2 DEF Struck
<1> QED
  BY <1>4, <1>5

\* Every step of the pool keeps the count of failures in the breaker.
LEMMA ProvidersStep ==
    ASSUME ProvidersInv, [ProvidersNext]_providersVars
    PROVE  ProvidersInv'
<1>1. ProvidersTypeOK'
  BY ProvidersTyped DEF ProvidersInv
<1>2. /\ ProvidersTypeOK /\ SentIsAdmitted
      /\ \A p \in Rotation : Struck(p) /\ asked[p] <= spent[p]
  BY DEF ProvidersInv
<1>3. /\ breaker \in [Rotation -> Breakers] /\ missed \in [Rotation -> Nat]
      /\ spent \in [Rotation -> 0..Limit] /\ asked \in [Rotation -> Nat]
      /\ call \in Calls /\ (call.phase # "idle" => call.slot \in Rotation)
  BY <1>2 DEF ProvidersTypeOK
<1>4. ASSUME UNCHANGED <<breaker, missed>>, NEW p \in Rotation PROVE Struck(p)'
  BY <1>2, <1>4 DEF Struck
<1>5. CASE Begin
  <2>1. call'.phase = "ask"
    BY <1>5 DEF Begin, NoCall
  <2> QED
    BY <1>1, <1>2, <1>4, <1>5, <2>1 DEF Begin, ProvidersInv, SentIsAdmitted
<1>6. CASE SpendRefused
  <2>1. call'.phase # "sent"
    BY <1>3, <1>6, TurnTypes DEF SpendRefused
  <2> QED
    BY <1>1, <1>2, <1>4, <1>6, <2>1 DEF SpendRefused, ProvidersInv, SentIsAdmitted
<1>7. CASE CircuitRefused
  <2>0. call.slot \in Rotation
    BY <1>3, <1>7 DEF CircuitRefused
  <2>1. call'.phase # "sent"
    BY <1>3, <1>7, <2>0, TurnTypes DEF CircuitRefused
  <2>2. ASSUME NEW p \in Rotation PROVE Struck(p)' /\ asked'[p] <= spent'[p]
    <3>1. breaker'[p] = IF p = call.slot THEN Promoted(breaker[p]) ELSE breaker[p]
      BY <1>3, <1>7 DEF CircuitRefused
    <3>2. spent'[p] = (IF p = call.slot THEN spent[p] + 1 ELSE spent[p]) /\ asked' = asked
      BY <1>3, <1>7 DEF CircuitRefused, Spend
    <3>3. missed' = missed
      BY <1>7 DEF CircuitRefused
    <3>4. Struck(p)'
      BY <1>2, <3>1, <3>3, Refusal DEF Struck
    <3> QED
      BY <1>2, <1>3, <3>2, <3>4
  <2> QED
    BY <1>1, <2>1, <2>2 DEF ProvidersInv, SentIsAdmitted
<1>8. CASE Request
  <2>0. call.slot \in Rotation /\ Allows(breaker[call.slot])
    BY <1>3, <1>8 DEF Request
  <2>2. ASSUME NEW p \in Rotation PROVE Struck(p)' /\ asked'[p] <= spent'[p]
    <3>1. breaker'[p] = IF p = call.slot THEN Admitted(breaker[p]) ELSE breaker[p]
      BY <1>3, <1>8 DEF Request
    <3>2. /\ spent'[p] = (IF p = call.slot THEN spent[p] + 1 ELSE spent[p])
          /\ asked'[p] = (IF p = call.slot THEN asked[p] + 1 ELSE asked[p])
      BY <1>3, <1>8 DEF Request, Spend
    <3>3. missed' = missed
      BY <1>8 DEF Request
    <3>4. Struck(p)'
      BY <1>2, <2>0, <3>1, <3>3, Admission DEF Struck
    <3> QED
      BY <1>2, <1>3, <3>2, <3>4
  <2>3. call'.slot = call.slot
    BY <1>3, <1>8 DEF Request, Calls
  <2>4. breaker'[call.slot].state # "open"
    BY <1>3, <1>8, <2>0, Admission DEF Request
  <2> QED
    BY <1>1, <2>2, <2>3, <2>4 DEF ProvidersInv, SentIsAdmitted
<1>9. CASE Answered
  <2>0. call.slot \in Rotation
    BY <1>3, <1>9 DEF Answered
  <2>1. call'.phase # "sent"
    BY <1>3, <1>9, <2>0, TurnTypes DEF Answered
  <2>2. ASSUME NEW p \in Rotation PROVE Struck(p)' /\ asked'[p] <= spent'[p]
    <3>1. /\ breaker'[p] = IF p = call.slot THEN Healthy ELSE breaker[p]
          /\ missed'[p] = IF p = call.slot THEN 0 ELSE missed[p]
      BY <1>3, <1>9 DEF Answered
    <3>2. Struck(p)'
      BY <1>2, <3>1, ProvidersAssumption DEF Struck, Healthy
    <3> QED
      BY <1>2, <1>9, <3>2 DEF Answered
  <2> QED
    BY <1>1, <2>1, <2>2 DEF ProvidersInv, SentIsAdmitted
<1>10. ASSUME NEW outcome \in Failures, Blamed(outcome) PROVE ProvidersInv'
  <2>0. call.slot \in Rotation /\ breaker[call.slot].state # "open"
    BY <1>2, <1>3, <1>10 DEF Blamed, SentIsAdmitted
  <2>1. call'.phase # "sent"
    <3>1. CASE call' = [call EXCEPT !.phase = "ask", !.try = @ + 1]
      BY <1>3, <3>1 DEF Calls
    <3>2. CASE call' = AfterTurn(outcome)
      BY <1>3, <1>10, <2>0, <3>2, TurnTypes DEF Blamed
    <3> QED
      BY <1>10, <3>1, <3>2 DEF Blamed
  <2>2. ASSUME NEW p \in Rotation PROVE Struck(p)' /\ asked'[p] <= spent'[p]
    <3>1. /\ breaker'[p] = IF p = call.slot THEN Failed(breaker[p]) ELSE breaker[p]
          /\ missed'[p] = IF p = call.slot THEN missed[p] + 1 ELSE missed[p]
      BY <1>3, <1>10 DEF Blamed
    <3>2. Struck(p)'
      <4>1. CASE p = call.slot
        BY <2>0, <3>1, <4>1, Strike DEF Struck
      <4>2. CASE p # call.slot
        BY <1>2, <3>1, <4>2 DEF Struck
      <4> QED
        BY <4>1, <4>2
    <3> QED
      BY <1>2, <1>10, <3>2 DEF Blamed
  <2> QED
    BY <1>1, <2>1, <2>2 DEF ProvidersInv, SentIsAdmitted
<1>11. ASSUME NEW outcome \in Failures, NotBlamed(outcome) PROVE ProvidersInv'
  <2>1. call'.phase # "sent"
    BY <1>3, <1>11, TurnTypes DEF NotBlamed
  <2> QED
    BY <1>1, <1>2, <1>4, <1>11, <2>1 DEF NotBlamed, ProvidersInv, SentIsAdmitted
<1>12. CASE TimePasses
  <2>1. ASSUME NEW p \in Rotation PROVE Struck(p)' /\ asked'[p] <= spent'[p]
    <3>1. /\ breaker'[p] = CoolsDown(breaker[p]) /\ missed'[p] = 0
          /\ breaker[p] \in Breakers
      BY <1>3, <1>12 DEF TimePasses
    <3>2. /\ breaker'[p].state = breaker[p].state
          /\ breaker'[p].failures = breaker[p].failures
      BY <3>1 DEF CoolsDown, Breakers
    <3>3. Struck(p)'
      BY <1>2, <3>1, <3>2, ProvidersAssumption DEF Struck, Breakers
    <3> QED
      BY <1>2, <1>12, <3>3 DEF TimePasses
  <2>2. SentIsAdmitted'
    <3>1. call' = call /\ \A p \in Rotation : breaker'[p] = CoolsDown(breaker[p])
      BY <1>3, <1>12 DEF TimePasses
    <3>2. \A p \in Rotation : CoolsDown(breaker[p]).state = breaker[p].state
      BY <1>3 DEF CoolsDown, Breakers
    <3> QED
      BY <1>2, <1>3, <3>1, <3>2 DEF SentIsAdmitted
  <2> QED
    BY <1>1, <2>1, <2>2 DEF ProvidersInv
<1>13. ASSUME NEW p \in Rotation, WindowRolls(p) PROVE ProvidersInv'
  <2>1. \A q \in Rotation : asked'[q] <= spent'[q]
    BY <1>2, <1>3, <1>13 DEF WindowRolls
  <2> QED
    BY <1>1, <1>2, <1>4, <1>13, <2>1 DEF WindowRolls, ProvidersInv, SentIsAdmitted
<1>14. CASE UNCHANGED providersVars
  BY <1>1, <1>2, <1>4, <1>14 DEF providersVars, ProvidersInv, SentIsAdmitted
<1> QED
  BY <1>5, <1>6, <1>7, <1>8, <1>9, <1>10, <1>11, <1>12, <1>13, <1>14 DEF ProvidersNext

-----------------------------------------------------------------------------
\* "Three strikes" (DownIsLeftAlone): between two ticks of the clock no provider
\* fails more often than the threshold of watcher/rpc/breaker.py, over whatever
\* calls, retries, failovers and trials, for any number of providers and tries.
THEOREM DownTheorem == ProvidersSpec => []DownIsLeftAlone
<1>1. ProvidersInv => DownIsLeftAlone
  <2> SUFFICES ASSUME ProvidersInv, NEW p \in Rotation PROVE missed[p] <= Threshold
    BY DEF DownIsLeftAlone
  <2>1. /\ breaker[p].state \in {"closed", "open", "half_open"} /\ breaker[p].failures \in Nat
        /\ missed[p] \in Nat /\ Struck(p)
    BY DEF ProvidersInv, ProvidersTypeOK, Breakers
  <2> QED
    BY <2>1, ProvidersAssumption DEF Struck
<1> QED
  BY <1>1, ProvidersStart, ProvidersStep, PTL DEF ProvidersSpec

\* What leaves for a provider in one window of watcher/rpc/pool.py is within its
\* budget (BudgetHolds): every request is paid for before it is sent.
THEOREM BudgetTheorem == ProvidersSpec => []BudgetHolds
<1>1. ProvidersInv => BudgetHolds
  <2> SUFFICES ASSUME ProvidersInv, NEW p \in Rotation PROVE asked[p] <= Limit
    BY DEF BudgetHolds
  <2>1. asked[p] \in Nat /\ spent[p] \in 0..Limit /\ asked[p] <= spent[p]
    BY DEF ProvidersInv, ProvidersTypeOK
  <2> QED
    BY <2>1, ProvidersAssumption
<1> QED
  BY <1>1, ProvidersStart, ProvidersStep, PTL DEF ProvidersSpec

-----------------------------------------------------------------------------
(***************************************************************************)
(* LogChunks                                                               *)
(*                                                                         *)
(* Blocks and addresses are laid out by division with remainder, so that   *)
(* each lies in the stretch of exactly one start (OneStart); from there on *)
(* PiecesPartition is inductive: a piece that is halved is replaced by two *)
(* that share nothing.                                                     *)
(***************************************************************************)
\* Every block (every address) lies in the stretch of exactly one start.
LEMMA Division ==
    ASSUME NEW a \in Nat, NEW s \in Nat \ {0}
    PROVE  /\ a % s \in 0..s - 1
           /\ a \div s \in Nat
           /\ a = s * (a \div s) + (a % s)
OBVIOUS

\* A multiple leaves no remainder.
LEMMA Multiples ==
    ASSUME NEW q \in Nat, NEW s \in Nat \ {0}
    PROVE  s * q \in Nat /\ (s * q) % s = 0
OBVIOUS

\* The next multiple is a whole step away.
LEMMA NextMultiple ==
    ASSUME NEW p \in Nat, NEW q \in Nat, p < q, NEW s \in Nat \ {0}
    PROVE  s * q >= s * p + s
OBVIOUS

\* Every number of a range lies between exactly one start and its end: the chunks of a
\* range share nothing and leave nothing out.
LEMMA OneStart ==
    ASSUME NEW first \in Nat, NEW last \in Nat, NEW size \in Nat \ {0},
           NEW x \in first..last
    PROVE  \E n \in StartsOf(first, last, size) :
              /\ n <= x /\ x <= Ends(n, size, last)
              /\ \A m \in StartsOf(first, last, size) :
                    m <= x /\ x <= Ends(m, size, last) => m = n
<1> DEFINE q == (x - first) \div size
           n == first + size * q
<1>0. x - first \in Nat /\ x \in Nat
  OBVIOUS
<1>1. /\ (x - first) % size \in 0..size - 1 /\ q \in Nat
      /\ x - first = size * q + ((x - first) % size)
  BY <1>0, Division
<1>2. size * q \in Nat /\ (size * q) % size = 0
  BY <1>1, Multiples
<1> HIDE DEF q
<1>3. n \in Nat /\ n <= x /\ x <= n + size - 1 /\ n - first = size * q
  BY <1>0, <1>1, <1>2
<1>4. n \in StartsOf(first, last, size)
  BY <1>2, <1>3 DEF StartsOf
<1>5. x <= Ends(n, size, last)
  BY <1>3 DEF Ends, Earlier
<1>6. ASSUME NEW m \in StartsOf(first, last, size), m <= x, x <= Ends(m, size, last)
      PROVE  m = n
  <2>1. m \in Nat /\ m - first \in Nat /\ (m - first) % size = 0 /\ x <= m + size - 1
    BY <1>6 DEF StartsOf, Ends, Earlier
  <2> DEFINE p == (m - first) \div size
  <2>2. p \in Nat /\ m - first = size * p + ((m - first) % size)
    BY <2>1, Division
  <2> HIDE DEF p
  <2>3. size * p \in Nat /\ m = first + size * p
    <3>1. size * p \in Nat
      BY <2>2, Multiples
    <3>2. m - first = size * p
      BY <2>1, <2>2, <3>1
    <3> QED
      BY <2>1, <3>1, <3>2
  <2>4. ~(p < q)
    <3> SUFFICES ASSUME p < q PROVE FALSE
      OBVIOUS
    <3>1. size * q >= size * p + size
      BY <1>1, <2>2, NextMultiple
    <3> QED
      BY <1>2, <1>3, <2>1, <2>3, <3>1
  <2>5. ~(q < p)
    <3> SUFFICES ASSUME q < p PROVE FALSE
      OBVIOUS
    <3>1. size * p >= size * q + size
      BY <1>1, <2>2, NextMultiple
    <3>2. m >= n + size
      BY <1>2, <2>3, <3>1
    <3> HIDE DEF n
    <3> QED
      BY <1>0, <1>3, <1>6, <2>1, <3>2
  <2>6. p = q
    BY <1>1, <2>2, <2>4, <2>5
  <2> QED
    BY <2>3, <2>6
<1> HIDE DEF n
<1> QED
  BY <1>3, <1>4, <1>5, <1>6

-----------------------------------------------------------------------------
ChunksInv ==
    /\ LogChunksTypeOK
    /\ PiecesPartition
    /\ result = "returned" => todo = {}

\* The fields of a piece, and a piece with one of them changed.
LEMMA PieceParts ==
    ASSUME NEW piece \in Pieces
    PROVE  /\ piece.from \in Nat /\ piece.to \in Nat /\ piece.first \in Nat /\ piece.last \in Nat
           /\ \A n \in Nat : /\ [piece EXCEPT !.from = n] \in Pieces /\ [piece EXCEPT !.to = n] \in Pieces
                             /\ [piece EXCEPT !.first = n] \in Pieces /\ [piece EXCEPT !.last = n] \in Pieces
BY DEF Pieces

\* A cell is a block of the range and an address of the list.
LEMMA CellParts ==
    ASSUME NEW cell \in Cells
    PROVE  /\ cell[1] \in FirstBlock..LastBlock /\ cell[2] \in 1..Listed
           /\ cell[1] \in Nat /\ cell[2] \in Nat
BY LogChunksAssumption DEF Cells

\* The pieces of the first split lie side by side and leave nothing out.
LEMMA ChunksStart == LogChunksInit => ChunksInv
<1> SUFFICES ASSUME LogChunksInit PROVE ChunksInv
  OBVIOUS
<1> DEFINE Piece(f, a) == [from |-> f, to |-> Ends(f, MaxSpan, LastBlock),
                           first |-> a, last |-> Ends(a, MaxGroup, Listed)]
           Fs == StartsOf(FirstBlock, LastBlock, MaxSpan)
           As == StartsOf(1, Listed, MaxGroup)
<1>1. todo = {Piece(f, a) : f \in Fs, a \in As} /\ answered = [cell \in Cells |-> 0] /\ result = "asking"
  BY DEF LogChunksInit
<1>2. ASSUME NEW f \in Fs, NEW a \in As PROVE Piece(f, a) \in Pieces
  BY LogChunksAssumption DEF Pieces, StartsOf, Ends, Earlier
<1>3. LogChunksTypeOK
  BY <1>1, <1>2 DEF LogChunksTypeOK
<1>4. ASSUME NEW cell \in Cells
      PROVE  /\ answered[cell] = 0
             /\ \E piece \in todo : Within(piece, cell)
             /\ \A p, q \in todo : Within(p, cell) /\ Within(q, cell) => p = q
  <2>1. PICK n \in Fs : /\ n <= cell[1] /\ cell[1] <= Ends(n, MaxSpan, LastBlock)
                        /\ \A m \in Fs : m <= cell[1] /\ cell[1] <= Ends(m, MaxSpan, LastBlock) => m = n
    BY CellParts, LogChunksAssumption, OneStart
  <2>2. PICK k \in As : /\ k <= cell[2] /\ cell[2] <= Ends(k, MaxGroup, Listed)
                        /\ \A m \in As : m <= cell[2] /\ cell[2] <= Ends(m, MaxGroup, Listed) => m = k
    <3>1. 1 \in Nat /\ Listed \in Nat /\ MaxGroup \in Nat \ {0} /\ cell[2] \in 1..Listed
      BY CellParts, LogChunksAssumption
    <3>2. \E k \in StartsOf(1, Listed, MaxGroup) :
             /\ k <= cell[2] /\ cell[2] <= Ends(k, MaxGroup, Listed)
             /\ \A m \in StartsOf(1, Listed, MaxGroup) :
                   m <= cell[2] /\ cell[2] <= Ends(m, MaxGroup, Listed) => m = k
      BY ONLY <3>1, OneStart
    <3> QED
      BY <3>2
  <2> HIDE DEF Fs, As
  <2>3. Within(Piece(n, k), cell)
    BY <2>1, <2>2 DEF Within
  <2>4. Piece(n, k) \in todo
    BY <1>1
  <2>5. ASSUME NEW p \in todo, Within(p, cell) PROVE p = Piece(n, k)
    <3>1. PICK f \in Fs, a \in As : p = Piece(f, a)
      BY <1>1
    <3>2. f <= cell[1] /\ cell[1] <= Ends(f, MaxSpan, LastBlock) /\ a <= cell[2] /\ cell[2] <= Ends(a, MaxGroup, Listed)
      BY <2>5, <3>1 DEF Within
    <3>3. f = n /\ a = k
      BY <2>1, <2>2, <3>2
    <3> QED
      BY <3>1, <3>3
  <2> QED
    BY <1>1, <2>3, <2>4, <2>5
<1> QED
  BY <1>1, <1>3, <1>4 DEF ChunksInv, PiecesPartition

\* A piece is replaced by two that share it out.
LEMMA Split ==
    ASSUME ChunksInv, NEW piece \in todo, NEW left \in Pieces, NEW right \in Pieces,
           \A cell \in Cells : Within(piece, cell) <=> Within(left, cell) \/ Within(right, cell),
           \A cell \in Cells : ~(Within(left, cell) /\ Within(right, cell)),
           todo' = (todo \ {piece}) \union {left, right}, answered' = answered, result' = result,
           result = "asking"
    PROVE  ChunksInv'
<1>1. LogChunksTypeOK'
  BY DEF ChunksInv, LogChunksTypeOK
<1>2. ASSUME NEW cell \in Cells, answered[cell] = 1, \A p \in todo : ~Within(p, cell)
      PROVE  \A p \in todo' : ~Within(p, cell)
  BY <1>2
<1>3. ASSUME NEW cell \in Cells, answered[cell] = 0, \E p \in todo : Within(p, cell),
             \A p, q \in todo : Within(p, cell) /\ Within(q, cell) => p = q
      PROVE  /\ \E p \in todo' : Within(p, cell)
             /\ \A p, q \in todo' : Within(p, cell) /\ Within(q, cell) => p = q
  <2>1. CASE Within(piece, cell)
    BY <1>3, <2>1
  <2>2. CASE ~Within(piece, cell)
    BY <1>3, <2>2
  <2> QED
    BY <2>1, <2>2
<1>4. PiecesPartition'
  BY <1>2, <1>3 DEF ChunksInv, PiecesPartition
<1> QED
  BY <1>1, <1>4 DEF ChunksInv

\* Every answer, cut and retry keeps the partition.
LEMMA ChunksStep ==
    ASSUME ChunksInv, [LogChunksNext]_chunkVars
    PROVE  ChunksInv'
<1>0. todo \subseteq Pieces /\ answered \in [Cells -> Nat] /\ PiecesPartition
  BY DEF ChunksInv, LogChunksTypeOK
<1>1. ASSUME result = "asking", NEW piece \in todo, Collect(piece) PROVE ChunksInv'
  <2>1. /\ todo' = todo \ {piece} /\ result' = result
        /\ \A cell \in Cells : answered'[cell] = IF Within(piece, cell) THEN answered[cell] + 1 ELSE answered[cell]
        /\ answered' \in [Cells -> Nat]
    BY <1>0, <1>1 DEF Collect
  <2>2. LogChunksTypeOK'
    BY <2>1 DEF ChunksInv, LogChunksTypeOK
  <2>3. PiecesPartition'
    <3> SUFFICES ASSUME NEW cell \in Cells
                 PROVE  \/ answered'[cell] = 1 /\ \A p \in todo' : ~Within(p, cell)
                        \/ /\ answered'[cell] = 0
                           /\ \E p \in todo' : Within(p, cell)
                           /\ \A p, q \in todo' : Within(p, cell) /\ Within(q, cell) => p = q
      BY DEF PiecesPartition
    <3>1. CASE Within(piece, cell)
      <4>1. answered[cell] = 0 /\ \A p \in todo : Within(p, cell) => p = piece
        BY <1>0, <3>1 DEF PiecesPartition
      <4> QED
        BY <2>1, <3>1, <4>1
    <3>2. CASE ~Within(piece, cell)
      BY <1>0, <2>1, <3>2 DEF PiecesPartition
    <3> QED
      BY <3>1, <3>2
  <2> QED
    BY <1>1, <2>1, <2>2, <2>3 DEF ChunksInv
<1>2. ASSUME result = "asking", NEW piece \in todo, HalveBlocks(piece) PROVE ChunksInv'
  <2> DEFINE m == MiddleBlock(piece)
             left == [piece EXCEPT !.to = m]
             right == [piece EXCEPT !.from = m + 1]
  <2>1. piece \in Pieces /\ piece.from \in Nat /\ piece.to \in Nat /\ piece.first \in Nat /\ piece.last \in Nat
    BY <1>0, PieceParts
  <2>2. m \in Nat /\ piece.from <= m /\ m < piece.to
    BY <1>2, <2>1 DEF HalveBlocks, MiddleBlock, SpanOf
  <2> HIDE DEF m
  <2>3. left \in Pieces /\ right \in Pieces
    <3>1. m \in Nat /\ m + 1 \in Nat
      BY <2>2
    <3>2. /\ \A n \in Nat : [piece EXCEPT !.from = n] \in Pieces /\ [piece EXCEPT !.to = n] \in Pieces
          /\ \A n \in Nat : [piece EXCEPT !.first = n] \in Pieces /\ [piece EXCEPT !.last = n] \in Pieces
      BY <2>1, PieceParts
    <3> QED
      BY <3>1, <3>2
  <2>4. /\ left.from = piece.from /\ left.to = m /\ right.from = m + 1 /\ right.to = piece.to
        /\ left.first = piece.first /\ left.last = piece.last
        /\ right.first = piece.first /\ right.last = piece.last
    BY <2>1 DEF Pieces
  <2>5. todo' = (todo \ {piece}) \union {left, right} /\ answered' = answered /\ result' = result
    BY <1>2 DEF HalveBlocks, m
  <2> HIDE DEF left, right
  <2>6. ASSUME NEW cell \in Cells
        PROVE  /\ Within(piece, cell) <=> Within(left, cell) \/ Within(right, cell)
               /\ ~(Within(left, cell) /\ Within(right, cell))
    BY <2>1, <2>2, <2>4, CellParts DEF Within
  <2> QED
    BY <1>2, <2>3, <2>5, <2>6, Split
<1>3. ASSUME result = "asking", NEW piece \in todo, HalveAddresses(piece) PROVE ChunksInv'
  <2> DEFINE m == HalfGroup(piece)
             left == [piece EXCEPT !.last = m]
             right == [piece EXCEPT !.first = m + 1]
  <2>1. piece \in Pieces /\ piece.from \in Nat /\ piece.to \in Nat /\ piece.first \in Nat /\ piece.last \in Nat
    BY <1>0, PieceParts
  <2>2. m \in Nat /\ piece.first <= m /\ m < piece.last
    BY <1>3, <2>1 DEF HalveAddresses, HalfGroup, GroupOf
  <2> HIDE DEF m
  <2>3. left \in Pieces /\ right \in Pieces
    <3>1. m \in Nat /\ m + 1 \in Nat
      BY <2>2
    <3>2. /\ \A n \in Nat : [piece EXCEPT !.from = n] \in Pieces /\ [piece EXCEPT !.to = n] \in Pieces
          /\ \A n \in Nat : [piece EXCEPT !.first = n] \in Pieces /\ [piece EXCEPT !.last = n] \in Pieces
      BY <2>1, PieceParts
    <3> QED
      BY <3>1, <3>2
  <2>4. /\ left.first = piece.first /\ left.last = m /\ right.first = m + 1 /\ right.last = piece.last
        /\ left.from = piece.from /\ left.to = piece.to
        /\ right.from = piece.from /\ right.to = piece.to
    BY <2>1 DEF Pieces
  <2>5. todo' = (todo \ {piece}) \union {left, right} /\ answered' = answered /\ result' = result
    BY <1>3 DEF HalveAddresses, m
  <2> HIDE DEF left, right
  <2>6. ASSUME NEW cell \in Cells
        PROVE  /\ Within(piece, cell) <=> Within(left, cell) \/ Within(right, cell)
               /\ ~(Within(left, cell) /\ Within(right, cell))
    BY <2>1, <2>2, <2>4, CellParts DEF Within
  <2> QED
    BY <1>3, <2>3, <2>5, <2>6, Split
<1>4. CASE Raises \/ Returns
  BY <1>4 DEF Raises, Returns, ChunksInv, LogChunksTypeOK, PiecesPartition
<1>5. CASE UNCHANGED chunkVars
  BY <1>5 DEF chunkVars, ChunksInv, LogChunksTypeOK, PiecesPartition
<1> QED
  BY <1>1, <1>2, <1>3, <1>4, <1>5 DEF LogChunksNext

-----------------------------------------------------------------------------
\* "The chunks partition the space" (LogsAreWhole): get_logs_chunked asks for every
\* block and every address once before it returns, for any range, any address list
\* and any limits, however often a provider refuses a piece and it is halved.
THEOREM LogsTheorem == LogChunksSpec => []LogsAreWhole
<1>1. ChunksInv => LogsAreWhole
  BY DEF ChunksInv, PiecesPartition, LogsAreWhole
<1> QED
  BY <1>1, ChunksStart, ChunksStep, PTL DEF LogChunksSpec

-----------------------------------------------------------------------------
(***************************************************************************)
(* Quota                                                                   *)
(*                                                                         *)
(* The limits are checked at one step and used at another; what carries    *)
(* the check to the insert is the advisory lock, so one transaction at a   *)
(* time has counted (OneCounts) and there is room for what it is about to  *)
(* insert (RoomIsLeft).                                                    *)
(***************************************************************************)
\* What each limit counts.
Fresh == {b \in Live : ~bill[b].returned}
Dated(start) == {b \in Issued : bill[b].created \in start..start + Hour}

\* One deriver at a time has counted.
OneCounts ==
    \A d, e \in Issuers : order[d].phase = "counted" /\ order[e].phase = "counted" => d = e

\* While it holds the lock there is room for what it is about to insert.
RoomIsLeft ==
    \A d \in Issuers : order[d].phase = "counted" /\ order[d].verdict = "none" =>
        /\ Cardinality(Fresh) < MaxActiveInvoices
        /\ Cardinality(InWindow(order[d].moment)) < MaxPerHour

QuotaInv == QuotaTypeOK /\ OneCounts /\ RoomIsLeft /\ QuotaHolds

\* A set of bills is finite.
LEMMA SetsOfBills ==
    ASSUME NEW S \in SUBSET Bills
    PROVE  IsFiniteSet(S) /\ Cardinality(S) \in Nat
<1>1. IsFiniteSet(Bills)
  BY QuotaAssumption, FS_Interval DEF Bills
<1> QED
  BY <1>1, FS_Subset, FS_CardinalityType

\* Fewer bills, a smaller number.
LEMMA FewerBills ==
    ASSUME NEW S \in SUBSET Bills, NEW T \in SUBSET S
    PROVE  Cardinality(T) <= Cardinality(S)
BY SetsOfBills, FS_Subset

\* One bill more, at most one more in number.
LEMMA OneBillMore ==
    ASSUME NEW S \in SUBSET Bills, NEW b \in Bills
    PROVE  Cardinality(S \union {b}) <= Cardinality(S) + 1
<1>1. IsFiniteSet(S) /\ Cardinality(S) \in Nat
  BY SetsOfBills
<1> QED
  BY <1>1, FS_AddElement

\* What the quotas count are bills.
LEMMA AllAreBills ==
    /\ Issued \in SUBSET Bills /\ Live \in SUBSET Bills /\ Fresh \in SUBSET Live
    /\ Fresh \in SUBSET Bills
    /\ \A m : InWindow(m) \in SUBSET Bills
    /\ \A start : Dated(start) \in SUBSET Bills
BY DEF Issued, Live, Fresh, InWindow, Dated

\* Nothing is issued at the start.
LEMMA QuotaStart == QuotaInit => QuotaInv
<1> SUFFICES ASSUME QuotaInit PROVE QuotaInv
  OBVIOUS
<1>1. QuotaTypeOK
  BY QuotaAssumption
  DEF QuotaInit, QuotaTypeOK, BillRows, NoBill, QuotaOrders, NoQuotaOrder, QuotaVerdicts, Refusals, NotRefused, Never, Issued
<1>2. OneCounts /\ RoomIsLeft
  BY DEF QuotaInit, NoQuotaOrder, OneCounts, RoomIsLeft
<1>3. Issued = {} /\ Live = {}
  BY DEF QuotaInit, NoBill, Issued, Live
<1>4. ActiveHolds
  <2>1. {b \in Live : ~bill[b].returned} = {}
    BY <1>3
  <2> QED
    BY <2>1, FS_EmptySet, QuotaAssumption DEF ActiveHolds
<1>5. HourlyHolds
  <2>1. \A start \in 0..MaxClock : {b \in Issued : bill[b].created \in start..start + Hour} = {}
    BY <1>3
  <2> QED
    BY <2>1, FS_EmptySet, QuotaAssumption DEF HourlyHolds
<1> QED
  BY <1>1, <1>2, <1>4, <1>5 DEF QuotaInv, QuotaHolds

\* The fields of an issuer's order.
LEMMA OrdersAreTyped ==
    ASSUME QuotaTypeOK, NEW d \in Issuers
    PROVE  /\ order[d].phase \in {"idle", "called", "counted"} /\ order[d].moment \in Int
           /\ order[d].verdict \in QuotaVerdicts
           /\ order[d].phase # "idle" => order[d].moment \in 0..clock
BY DEF QuotaTypeOK, QuotaOrders

\* Enforcing the quotas returns a verdict.
LEMMA VerdictType == \A m : Enforced(m) \in QuotaVerdicts
BY DEF Enforced, QuotaVerdicts

\* A step of the quotas keeps the types.
LEMMA QuotaTyped ==
    ASSUME QuotaTypeOK, [QuotaNext]_quotaVars
    PROVE  QuotaTypeOK'
<1>0. /\ bill \in [Bills -> BillRows] /\ order \in [Issuers -> QuotaOrders] /\ refusal \in Refusals
      /\ clock \in 0..MaxClock /\ MaxClock \in Nat
      /\ \A b \in Issued : bill[b].created \in 0..clock
      /\ \A d \in Issuers : order[d].phase # "idle" => order[d].moment \in 0..clock
  BY QuotaAssumption DEF QuotaTypeOK
<1>1. NoQuotaOrder \in QuotaOrders /\ NoQuotaOrder.phase = "idle" /\ NotRefused \in Refusals
  BY DEF NoQuotaOrder, QuotaOrders, QuotaVerdicts, NotRefused, Refusals, Never
<1>2. ASSUME NEW d \in Issuers, order' = [order EXCEPT ![d] = NoQuotaOrder], clock' = clock
      PROVE  /\ order' \in [Issuers -> QuotaOrders]
             /\ \A e \in Issuers : order'[e].phase # "idle" => order'[e].moment \in 0..clock'
  <2>1. \A e \in Issuers : order'[e] = IF e = d THEN NoQuotaOrder ELSE order[e]
    BY <1>0, <1>2
  <2> QED
    BY <1>0, <1>1, <1>2, <2>1
<1>3. ASSUME NEW d \in Issuers, Call(d) PROVE QuotaTypeOK'
  <2> DEFINE o == [NoQuotaOrder EXCEPT !.phase = "called", !.moment = clock]
  <2>1. clock \in Int /\ clock \in 0..clock
    BY <1>0
  <2>2. o \in QuotaOrders /\ o.moment \in 0..clock
    BY <1>1, <2>1 DEF QuotaOrders
  <2>3. order' = [order EXCEPT ![d] = o] /\ UNCHANGED <<bill, refusal, clock>>
    BY <1>3 DEF Call
  <2> HIDE DEF o
  <2>4. \A e \in Issuers : order'[e] = IF e = d THEN o ELSE order[e]
    BY <1>0, <2>3
  <2> QED
    BY <1>0, <2>2, <2>3, <2>4 DEF QuotaTypeOK, Issued
<1>4. ASSUME NEW d \in Issuers, Snapshot(d) PROVE QuotaTypeOK'
  <2>1. PICK v \in QuotaVerdicts :
            order' = [order EXCEPT ![d].phase = "counted", ![d].verdict = v]
    BY <1>4, VerdictType DEF Snapshot
  <2>2. /\ UNCHANGED <<bill, refusal, clock>> /\ order[d].phase = "called"
    BY <1>4 DEF Snapshot
  <2>3. order' \in [Issuers -> QuotaOrders]
    BY <1>0, <2>1 DEF QuotaOrders
  <2>4. \A e \in Issuers : /\ order'[e].moment = order[e].moment
                           /\ e # d => order'[e] = order[e]
    BY <1>0, <2>1 DEF QuotaOrders
  <2> QED
    BY <1>0, <2>2, <2>3, <2>4 DEF QuotaTypeOK, Issued
<1>5. ASSUME NEW d \in Issuers, Refuse(d) PROVE QuotaTypeOK'
  <2>1. refusal' \in Refusals
    BY <1>0, <1>5, QuotaAssumption DEF Refuse, Refusals, QuotaOrders, FirstRetry
  <2> QED
    BY <1>0, <1>2, <1>5, <2>1 DEF Refuse, QuotaTypeOK, Issued
<1>6. ASSUME NEW d \in Issuers, Insert(d) PROVE QuotaTypeOK'
  <2>1. PICK b \in Bills : bill' = [bill EXCEPT ![b] =
              [status |-> "live", created |-> order[d].moment, returned |-> FALSE]]
    BY <1>6 DEF Insert
  <2>2. order[d].moment \in 0..clock /\ order[d].moment \in Int
    BY <1>0, <1>6 DEF Insert, QuotaOrders
  <2>3. bill' \in [Bills -> BillRows]
    BY <1>0, <2>1, <2>2 DEF BillRows
  <2>4. \A a \in Bills : a # b => bill'[a] = bill[a]
    BY <1>0, <2>1
  <2>5. bill'[b].created = order[d].moment
    BY <1>0, <2>1
  <2>6. clock' = clock
    BY <1>6 DEF Insert
  <2>7. \A a \in Issued' : bill'[a].created \in 0..clock'
    BY <1>0, <2>2, <2>4, <2>5, <2>6 DEF Issued
  <2> QED
    BY <1>0, <1>1, <1>2, <1>6, <2>3, <2>6, <2>7 DEF Insert, QuotaTypeOK
<1>7. ASSUME NEW d \in Issuers, Undo(d) PROVE QuotaTypeOK'
  BY <1>0, <1>2, <1>7 DEF Undo, QuotaTypeOK, Issued
<1>8. ASSUME NEW b \in Bills, SettlerMoves(b) PROVE QuotaTypeOK'
  <2>1. bill' \in [Bills -> BillRows]
    BY <1>0, <1>8 DEF SettlerMoves, Becomes, BillRows
  <2>2. /\ \A a \in Bills : bill'[a].created = bill[a].created
        /\ bill[b].status # "none" /\ \A a \in Bills : a # b => bill'[a] = bill[a]
    BY <1>0, <1>8 DEF SettlerMoves, Becomes, BillRows
  <2>3. UNCHANGED <<order, refusal, clock>>
    BY <1>8 DEF SettlerMoves
  <2> QED
    BY <1>0, <2>1, <2>2, <2>3 DEF QuotaTypeOK, Issued
<1>9. CASE ClockTicks
  BY <1>0, <1>9 DEF ClockTicks, QuotaTypeOK, Issued
<1>10. CASE UNCHANGED quotaVars
  BY <1>0, <1>10 DEF quotaVars, QuotaTypeOK, Issued
<1> QED
  BY <1>3, <1>4, <1>5, <1>6, <1>7, <1>8, <1>9, <1>10 DEF QuotaNext

-----------------------------------------------------------------------------
\* Nobody is counted in, and nobody is dated again.
LEMMA NoMoreBills ==
    ASSUME QuotaInv, Fresh' \subseteq Fresh,
           \A m : InWindow(m)' \subseteq InWindow(m),
           \A start : Dated(start)' \subseteq Dated(start),
           \A d \in Issuers : order'[d].phase = "counted" => order'[d] = order[d]
    PROVE  OneCounts' /\ RoomIsLeft' /\ QuotaHolds'
<1>1. OneCounts'
  BY DEF QuotaInv, OneCounts
<1>2. /\ Cardinality(Fresh') <= Cardinality(Fresh)
      /\ Cardinality(Fresh) \in Nat /\ Cardinality(Fresh') \in Nat
  BY AllAreBills, FewerBills, SetsOfBills
<1>3. ASSUME NEW m
      PROVE  /\ Cardinality(InWindow(m)') <= Cardinality(InWindow(m))
             /\ Cardinality(InWindow(m)) \in Nat /\ Cardinality(InWindow(m)') \in Nat
  BY AllAreBills, FewerBills, SetsOfBills
<1>4. ASSUME NEW start
      PROVE  /\ Cardinality(Dated(start)') <= Cardinality(Dated(start))
             /\ Cardinality(Dated(start)) \in Nat /\ Cardinality(Dated(start)') \in Nat
  BY AllAreBills, FewerBills, SetsOfBills
<1>5. RoomIsLeft'
  <2> SUFFICES ASSUME NEW d \in Issuers, order'[d].phase = "counted", order'[d].verdict = "none",
                      NEW m, m = order'[d].moment
               PROVE  /\ Cardinality(Fresh') < MaxActiveInvoices
                      /\ Cardinality(InWindow(m)') < MaxPerHour
    BY DEF RoomIsLeft, InWindow
  <2>1. /\ order'[d] = order[d]
        /\ Cardinality(Fresh) < MaxActiveInvoices
        /\ Cardinality(InWindow(m)) < MaxPerHour
    BY DEF QuotaInv, RoomIsLeft
  <2> QED
    BY <1>2, <1>3, <2>1, QuotaAssumption
<1>6. /\ Cardinality(Fresh) <= MaxActiveInvoices
      /\ \A start \in 0..MaxClock : Cardinality(Dated(start)) <= MaxPerHour
  BY DEF QuotaInv, QuotaHolds, ActiveHolds, HourlyHolds, Fresh, Dated
<1>7. /\ Cardinality(Fresh') <= MaxActiveInvoices
      /\ \A start \in 0..MaxClock : Cardinality(Dated(start)') <= MaxPerHour
  BY <1>2, <1>4, <1>6, QuotaAssumption
<1>8. QuotaHolds'
  BY <1>7 DEF QuotaHolds, ActiveHolds, HourlyHolds, Fresh, Dated
<1> QED
  BY <1>1, <1>5, <1>8

\* An issuer counts under the lock: it leaves the room it found.
LEMMA SnapshotKeepsIt ==
    ASSUME QuotaInv, NEW d \in Issuers, Snapshot(d)
    PROVE  OneCounts' /\ RoomIsLeft' /\ QuotaHolds'
<1>1. /\ order' = [order EXCEPT ![d].phase = "counted", ![d].verdict = Enforced(order[d].moment)]
      /\ \A e \in Issuers : order[e].phase # "counted"
      /\ UNCHANGED <<bill, refusal, clock>>
  BY DEF Snapshot, LockFree
<1>2. /\ \A e \in Issuers : e # d => order'[e] = order[e]
      /\ order'[d].moment = order[d].moment /\ order'[d].verdict = Enforced(order[d].moment)
  BY <1>1 DEF QuotaInv, QuotaTypeOK, QuotaOrders
<1>3. OneCounts'
  BY <1>1, <1>2 DEF OneCounts
<1>4. ASSUME Enforced(order[d].moment) = "none"
      PROVE  /\ Cardinality(Fresh) < MaxActiveInvoices
             /\ Cardinality(InWindow(order[d].moment)) < MaxPerHour
  <2>1. ~(Cardinality(Live) >= MaxActiveInvoices) /\ ~(Cardinality(InWindow(order[d].moment)) >= MaxPerHour)
    <3>1. Cardinality(Live) \in Nat /\ Cardinality(InWindow(order[d].moment)) \in Nat
      BY AllAreBills, SetsOfBills
    <3> QED
      BY <1>4, <3>1, QuotaAssumption DEF Enforced
  <2>2. /\ Cardinality(Fresh) <= Cardinality(Live) /\ Cardinality(Fresh) \in Nat
        /\ Cardinality(Live) \in Nat /\ Cardinality(InWindow(order[d].moment)) \in Nat
    BY AllAreBills, FewerBills, SetsOfBills
  <2> QED
    BY <2>1, <2>2, QuotaAssumption
<1>5. Fresh' = Fresh /\ InWindow(order[d].moment)' = InWindow(order[d].moment)
  BY <1>1, <1>2 DEF Fresh, Live, InWindow, Issued
<1>6. RoomIsLeft'
  BY <1>1, <1>2, <1>4, <1>5 DEF RoomIsLeft
<1>7. QuotaHolds'
  BY <1>1 DEF QuotaInv, QuotaHolds, ActiveHolds, HourlyHolds, Live, Issued
<1> QED
  BY <1>3, <1>6, <1>7

\* What is dated into an hour was counted, whenever that hour begins.
LEMMA InsertKeepsIt ==
    ASSUME QuotaInv, NEW d \in Issuers, Insert(d)
    PROVE  OneCounts' /\ RoomIsLeft' /\ QuotaHolds'
<1> DEFINE moment == order[d].moment
<1>1. PICK b \in Bills :
          /\ NextBill(b)
          /\ bill' = [bill EXCEPT ![b] = [status |-> "live", created |-> moment, returned |-> FALSE]]
  BY DEF Insert
<1>2. /\ order[d].phase = "counted" /\ order[d].verdict = "none"
      /\ order' = [order EXCEPT ![d] = NoQuotaOrder] /\ clock' = clock
      /\ b \notin Issued
  BY <1>1 DEF Insert, NextBill
<1>3. /\ bill \in [Bills -> BillRows] /\ order \in [Issuers -> QuotaOrders] /\ moment \in Int
  BY OrdersAreTyped DEF QuotaInv, QuotaTypeOK
<1>4. /\ \A a \in Bills : a # b => bill'[a] = bill[a]
      /\ bill'[b] = [status |-> "live", created |-> moment, returned |-> FALSE]
  BY <1>1, <1>3
<1>5. /\ Cardinality(Fresh) < MaxActiveInvoices
      /\ Cardinality(InWindow(moment)) < MaxPerHour
  BY <1>2 DEF QuotaInv, RoomIsLeft
<1>6. \A e \in Issuers : order'[e].phase # "counted"
  <2>1. \A e \in Issuers : order'[e] = IF e = d THEN NoQuotaOrder ELSE order[e]
    BY <1>2, <1>3
  <2> QED
    BY <1>2, <2>1 DEF QuotaInv, OneCounts, NoQuotaOrder
<1>7. Cardinality(Fresh') <= MaxActiveInvoices
  <2>1. Fresh' \subseteq Fresh \union {b}
    BY <1>4 DEF Fresh, Live
  <2>2. /\ Cardinality(Fresh') <= Cardinality(Fresh \union {b}) /\ Cardinality(Fresh') \in Nat
        /\ Cardinality(Fresh \union {b}) <= Cardinality(Fresh) + 1
        /\ Cardinality(Fresh) \in Nat /\ Cardinality(Fresh \union {b}) \in Nat
    <3>1. Fresh \in SUBSET Bills /\ Fresh \union {b} \in SUBSET Bills
      BY AllAreBills
    <3> QED
      BY <2>1, <3>1, FewerBills, OneBillMore, SetsOfBills
  <2> QED
    BY <1>5, <2>2, QuotaAssumption
<1>8. ASSUME NEW start \in 0..MaxClock PROVE Cardinality(Dated(start)') <= MaxPerHour
  <2>0. Cardinality(Dated(start)) <= MaxPerHour
    BY DEF QuotaInv, QuotaHolds, HourlyHolds, Dated
  <2>1. Dated(start) \in SUBSET Bills /\ Dated(start) \union {b} \in SUBSET Bills
    BY AllAreBills
  <2>2. CASE moment \in start..start + Hour
    <3>1. Dated(start)' \subseteq Dated(start) \union {b}
      BY <1>4 DEF Dated, Issued
    <3>2. Dated(start) \subseteq InWindow(moment)
      BY <1>3, <2>2, QuotaAssumption DEF Dated, InWindow, Issued, BillRows
    <3>3. /\ Cardinality(Dated(start)') <= Cardinality(Dated(start) \union {b})
          /\ Cardinality(Dated(start) \union {b}) <= Cardinality(Dated(start)) + 1
          /\ Cardinality(Dated(start)) <= Cardinality(InWindow(moment))
          /\ Cardinality(Dated(start)') \in Nat /\ Cardinality(Dated(start) \union {b}) \in Nat
          /\ Cardinality(Dated(start)) \in Nat /\ Cardinality(InWindow(moment)) \in Nat
      <4>1. InWindow(moment) \in SUBSET Bills
        BY AllAreBills
      <4> QED
        BY <2>1, <3>1, <3>2, <4>1, FewerBills, OneBillMore, SetsOfBills
    <3> QED
      BY <1>5, <3>3, QuotaAssumption
  <2>3. CASE moment \notin start..start + Hour
    <3>1. Dated(start)' \subseteq Dated(start)
      BY <1>4, <2>3 DEF Dated, Issued
    <3>2. /\ Cardinality(Dated(start)') <= Cardinality(Dated(start))
          /\ Cardinality(Dated(start)') \in Nat /\ Cardinality(Dated(start)) \in Nat
      BY <2>1, <3>1, FewerBills, SetsOfBills
    <3> QED
      BY <2>0, <3>2, QuotaAssumption
  <2> QED
    BY <2>2, <2>3
<1>9. QuotaHolds'
  BY <1>7, <1>8 DEF QuotaHolds, ActiveHolds, HourlyHolds, Fresh, Dated
<1> QED
  BY <1>6, <1>9 DEF OneCounts, RoomIsLeft

\* Every step keeps the quotas and the room of the one that has counted.
LEMMA QuotaStep ==
    ASSUME QuotaInv, [QuotaNext]_quotaVars
    PROVE  QuotaInv'
<1>0. QuotaTypeOK'
  BY QuotaTyped DEF QuotaInv
<1>1. /\ bill \in [Bills -> BillRows] /\ order \in [Issuers -> QuotaOrders]
  BY DEF QuotaInv, QuotaTypeOK
<1>2. ASSUME bill' = bill
      PROVE  /\ Fresh' \subseteq Fresh
             /\ \A m : InWindow(m)' \subseteq InWindow(m)
             /\ \A start : Dated(start)' \subseteq Dated(start)
  BY <1>2 DEF Fresh, Live, InWindow, Dated, Issued
<1>3. ASSUME NEW d \in Issuers, order' = [order EXCEPT ![d] = NoQuotaOrder]
      PROVE  \A e \in Issuers : order'[e].phase = "counted" => order'[e] = order[e]
  BY <1>1, <1>3 DEF NoQuotaOrder
<1>4. ASSUME NEW d \in Issuers, Call(d) PROVE QuotaInv'
  <2>1. \A e \in Issuers : order'[e].phase = "counted" => order'[e] = order[e]
    BY <1>1, <1>4 DEF Call, NoQuotaOrder
  <2>2. bill' = bill
    BY <1>4 DEF Call
  <2> QED
    BY <1>0, <1>2, <2>1, <2>2, NoMoreBills DEF QuotaInv
<1>5. ASSUME NEW d \in Issuers, Snapshot(d) PROVE QuotaInv'
  BY <1>0, <1>5, SnapshotKeepsIt DEF QuotaInv
<1>6. ASSUME NEW d \in Issuers, Refuse(d) \/ Undo(d) PROVE QuotaInv'
  <2>1. order' = [order EXCEPT ![d] = NoQuotaOrder] /\ bill' = bill
    BY <1>6 DEF Refuse, Undo
  <2> QED
    BY <1>0, <1>2, <1>3, <2>1, NoMoreBills DEF QuotaInv
<1>7. ASSUME NEW d \in Issuers, Insert(d) PROVE QuotaInv'
  BY <1>0, <1>7, InsertKeepsIt DEF QuotaInv
<1>8. ASSUME NEW b \in Bills, SettlerMoves(b) PROVE QuotaInv'
  <2>1. /\ \A a \in Bills : bill'[a].created = bill[a].created /\ (a # b => bill'[a] = bill[a])
        /\ bill[b].status # "none"
        /\ bill'[b].status = "live" => bill'[b].returned
    BY <1>1, <1>8 DEF SettlerMoves, Becomes, BillRows
  <2>2. Fresh' \subseteq Fresh
    BY <2>1 DEF Fresh, Live
  <2>3. /\ \A m : InWindow(m)' \subseteq InWindow(m)
        /\ \A start : Dated(start)' \subseteq Dated(start)
    BY <2>1 DEF InWindow, Dated, Issued
  <2>4. order' = order
    BY <1>8 DEF SettlerMoves
  <2> QED
    BY <1>0, <2>2, <2>3, <2>4, NoMoreBills DEF QuotaInv
<1>9. CASE ClockTicks \/ UNCHANGED quotaVars
  <2>1. bill' = bill /\ order' = order
    BY <1>9 DEF ClockTicks, quotaVars
  <2> QED
    BY <1>0, <1>2, <2>1, NoMoreBills DEF QuotaInv
<1> QED
  BY <1>4, <1>5, <1>6, <1>7, <1>8, <1>9 DEF QuotaNext

-----------------------------------------------------------------------------
\* Both limits of core/invoicing/quotas.py (QuotaHolds), for any number of derivers
\* that issue for one user at the same time: active invoices, and invoices per
\* hour, whenever the hour begins and however late the lock was had.
THEOREM QuotaTheorem == QuotaSpec => []QuotaHolds
<1>1. QuotaInv => QuotaHolds
  BY DEF QuotaInv
<1> QED
  BY <1>1, QuotaStart, QuotaStep, PTL DEF QuotaSpec

-----------------------------------------------------------------------------
(***************************************************************************)
(* Notifier                                                                *)
(*                                                                         *)
(* EveryTryCounted needs to know how many processes hold a claim on a note *)
(* that they have not sent yet: those tries are counted already            *)
(* (TriesCovered). OwnMessageOnly needs to know the same of the message a  *)
(* process is about to edit and of the one it is about to record           *)
(* (HandFits): between the look and the record nothing holds the row.      *)
(***************************************************************************)
\* Claims that somebody holds and has not sent yet.
Unsent(s) ==
    IF sender[s].phase = "record" THEN sender[s].batch \ {FirstClaim(s)} ELSE sender[s].batch
Pending(n) == {s \in Senders : \E c \in Unsent(s) : c.note = n}

\* A batch is of different notes, which exist.
BatchIntact(s) ==
    /\ sender[s].phase = "idle" => sender[s].batch = {}
    /\ \A c, d \in sender[s].batch : c.note = d.note => c = d
    /\ \A c \in sender[s].batch : note[c.note].status # "absent"

\* Each claim was counted before it can be sent.
TriesCovered == \A n \in Notes : taken[n] + Cardinality(Pending(n)) <= note[n].attempts

\* A place in the chat of a note's buyer that shows that note, or one about the same invoice.
FitsAt(n, m) ==
    /\ m \in 1..Len(chat[BuyerOf[n]])
    /\ note[chat[BuyerOf[n]][m]].invoice = note[n].invoice

ShownExist ==
    \A b \in Buyers : \A m \in 1..Len(chat[b]) : note[chat[b][m]].status # "absent"
SentFit == \A n \in Notes : note[n].status = "sent" => FitsAt(n, note[n].message)

\* The message that a process is about to edit, and the one it is about to record.
HandFits(s) ==
    /\ sender[s].phase = "send" /\ sender[s].message # 0 => FitsAt(FirstClaim(s).note, sender[s].message)
    /\ sender[s].phase = "record" /\ sender[s].verdict = "delivered" =>
           FitsAt(FirstClaim(s).note, sender[s].message)

OutboxInv ==
    /\ NotifierTypeOK
    /\ \A s \in Senders : BatchIntact(s)
    /\ TriesCovered

ChatInv ==
    /\ OutboxInv
    /\ ShownExist /\ SentFit
    /\ \A s \in Senders : HandFits(s)

\* The fields of a process's pass.
LEMMA SenderParts ==
    ASSUME NotifierTypeOK, NEW s \in Senders
    PROVE  /\ sender[s] \in Passes /\ sender[s].batch \in SUBSET Claims /\ sender[s].message \in Nat
           /\ \A c \in sender[s].batch : c.note \in Notes /\ c.attempts \in Nat
           /\ sender[s].phase \in {"idle", "look", "send", "record"}
BY DEF NotifierTypeOK, Passes, Claims

\* A process at work holds the note it works on.
LEMMA FirstIsHeld ==
    ASSUME NotifierTypeOK, NEW s \in Senders, sender[s].phase # "idle"
    PROVE  FirstClaim(s) \in sender[s].batch /\ FirstClaim(s).note \in Notes
<1> DEFINE T == {c.note : c \in sender[s].batch}
<1>1. sender[s].batch # {} /\ \A c \in sender[s].batch : c.note \in Notes
  BY SenderParts DEF NotifierTypeOK
<1>2. T \in SUBSET Nat /\ T # {}
  BY <1>1, NotifierAssumption DEF Notes
<1>3. PICK m \in T : \A k \in T : m <= k
  <2> HIDE DEF T
  <2> QED
    BY <1>2, LeastMember
<1>4. \E c \in sender[s].batch : \A d \in sender[s].batch : c.note <= d.note
  BY <1>3
<1>5. FirstClaim(s) \in sender[s].batch
  BY <1>4 DEF FirstClaim
<1> QED
  BY <1>1, <1>5

\* The fields of a row of the outbox.
LEMMA RowParts ==
    ASSUME NotifierTypeOK, NEW n \in Notes
    PROVE  /\ note[n] \in NoteRows /\ note[n].status \in NoteStatuses /\ note[n].attempts \in Nat
           /\ note[n].message \in Nat /\ note[n].invoice \in Invoices \union {NoInvoice}
           /\ taken[n] \in Nat /\ BuyerOf[n] \in Buyers
BY NotifierAssumption DEF NotifierTypeOK, NoteRows

\* A message to edit is that of a sent note to the same buyer about the same invoice.
LEMMA EditParts ==
    ASSUME NotifierTypeOK, NEW n \in Notes, NEW e \in MessagesToEdit(n)
    PROVE  /\ e \in Nat
           /\ e # 0 =>
                  \E m \in Notes : /\ BuyerOf[m] = BuyerOf[n] /\ note[m].status = "sent"
                                   /\ note[m].invoice = note[n].invoice
                                   /\ e = note[m].message
<1>1. CASE e = 0
  BY <1>1
<1>2. CASE e # 0
  <2>1. PICK m \in AboutTheSame(n) : e = note[m].message
    BY <1>2 DEF MessagesToEdit
  <2> QED
    BY <2>1, RowParts DEF AboutTheSame, Corrected
<1> QED
  BY <1>1, <1>2

-----------------------------------------------------------------------------
\* A process between two passes, and one that starts.
LEMMA IdlePassIs ==
    /\ IdlePass \in Passes /\ IdlePass.phase = "idle" /\ IdlePass.batch = {}
    /\ \A B \in SUBSET Claims :
          LET p == [IdlePass EXCEPT !.phase = "look", !.batch = B] IN
          p \in Passes /\ p.phase = "look" /\ p.batch = B
BY DEF IdlePass, Passes, Verdicts

\* The outbox starts empty, and no chat shows anything.
LEMMA OutboxStart == NotifierInit => ChatInv
<1> SUFFICES ASSUME NotifierInit PROVE ChatInv
  OBVIOUS
<1>1. NotifierTypeOK
  <2>1. NoNote \in NoteRows
    BY DEF NoNote, NoteRows, NoteStatuses
  <2>2. /\ note \in [Notes -> NoteRows] /\ taken \in [Notes -> Nat]
        /\ muted \in [Buyers -> BOOLEAN] /\ gone \in [Buyers -> BOOLEAN]
        /\ chat \in [Buyers -> Seq(Notes)]
        /\ lapses \in 0..MaxLapses /\ leaves \in 0..MaxLeaves
    BY <2>1, EmptySeq, NotifierAssumption DEF NotifierInit
  <2>3. sender \in [Senders -> Passes] /\ \A s \in Senders : sender[s].phase = "idle"
    BY IdlePassIs DEF NotifierInit
  <2> QED
    BY <2>2, <2>3 DEF NotifierTypeOK
<1>2. \A s \in Senders : sender[s] = IdlePass
  BY DEF NotifierInit
<1>3. \A s \in Senders : BatchIntact(s) /\ HandFits(s)
  BY <1>2, IdlePassIs DEF BatchIntact, HandFits
<1>4. TriesCovered
  <2> SUFFICES ASSUME NEW n \in Notes PROVE taken[n] + Cardinality(Pending(n)) <= note[n].attempts
    BY DEF TriesCovered
  <2>1. Pending(n) = {}
    BY <1>2, IdlePassIs DEF Pending, Unsent
  <2>2. taken[n] = 0 /\ note[n].attempts = 0
    BY DEF NotifierInit, NoNote
  <2> QED
    BY <2>1, <2>2, FS_EmptySet
<1>5. ShownExist /\ SentFit
  BY DEF NotifierInit, NoNote, ShownExist, SentFit
<1> QED
  BY <1>1, <1>3, <1>4, <1>5 DEF ChatInv, OutboxInv

-----------------------------------------------------------------------------
\* Types, action by action.  What the sender of one process becomes:
LEMMA SenderMoves ==
    ASSUME NotifierTypeOK, NEW s \in Senders, NEW p \in Passes, p.phase # "idle" => p.batch # {},
           sender' = [sender EXCEPT ![s] = p]
    PROVE  /\ sender' \in [Senders -> Passes]
           /\ \A q \in Senders : sender'[q].phase # "idle" => sender'[q].batch # {}
           /\ sender'[s] = p /\ \A q \in Senders : q # s => sender'[q] = sender[q]
<1>1. sender \in [Senders -> Passes] /\ \A q \in Senders : sender[q].phase # "idle" => sender[q].batch # {}
  BY DEF NotifierTypeOK
<1> QED
  BY <1>1

\* What a verdict on the first note changes of the processes.
LEMMA VerdictMoves ==
    ASSUME NotifierTypeOK, NEW s \in Senders, NEW v \in Verdicts, NEW m \in Nat,
           sender[s].phase # "idle", Verdict(s, v, m)
    PROVE  /\ sender' \in [Senders -> Passes]
           /\ \A q \in Senders : sender'[q].phase # "idle" => sender'[q].batch # {}
           /\ \A q \in Senders : q # s => sender'[q] = sender[q]
           /\ sender'[s].phase = "record" /\ sender'[s].verdict = v /\ sender'[s].message = m
           /\ sender'[s].batch = sender[s].batch
<1> DEFINE p == [sender[s] EXCEPT !.phase = "record", !.verdict = v, !.message = m]
<1>1. sender \in [Senders -> Passes] /\ sender[s].batch # {}
  BY DEF NotifierTypeOK
<1>2. sender' = [sender EXCEPT ![s] = p]
  BY <1>1 DEF Verdict
<1>3. p \in Passes /\ p.phase = "record" /\ p.verdict = v /\ p.message = m /\ p.batch = sender[s].batch
  BY <1>1 DEF Passes
<1> HIDE DEF p
<1> QED
  BY <1>1, <1>2, <1>3, SenderMoves

\* What going to the rest of the batch changes of the processes.
LEMMA BatchMoves ==
    ASSUME NotifierTypeOK, NEW s \in Senders, sender[s].phase # "idle", NextOfBatch(s)
    PROVE  /\ sender' \in [Senders -> Passes]
           /\ \A q \in Senders : sender'[q].phase # "idle" => sender'[q].batch # {}
           /\ \A q \in Senders : q # s => sender'[q] = sender[q]
           /\ sender'[s].phase = IF RestOfBatch(s) = {} THEN "idle" ELSE "look"
           /\ sender'[s].batch = RestOfBatch(s)
<1>1. RestOfBatch(s) \in SUBSET Claims
  BY SenderParts DEF RestOfBatch
<1>2. CASE RestOfBatch(s) = {}
  <2>1. sender' = [sender EXCEPT ![s] = IdlePass]
    BY <1>2 DEF NextOfBatch
  <2> QED
    BY <1>2, <2>1, IdlePassIs, SenderMoves
<1>3. CASE RestOfBatch(s) # {}
  <2> DEFINE p == [IdlePass EXCEPT !.phase = "look", !.batch = RestOfBatch(s)]
  <2>1. sender' = [sender EXCEPT ![s] = p]
    BY <1>3 DEF NextOfBatch
  <2>2. p \in Passes /\ p.phase = "look" /\ p.batch = RestOfBatch(s)
    BY <1>1, IdlePassIs
  <2> HIDE DEF p
  <2> QED
    BY <1>3, <2>1, <2>2, SenderMoves
<1> QED
  BY <1>2, <1>3

\* A row given up keeps its tries and its invoice.
LEMMA DeadRowIs ==
    ASSUME NEW r \in NoteRows
    PROVE  /\ DeadRow(r) \in NoteRows /\ DeadRow(r).status = "dead"
           /\ DeadRow(r).attempts = r.attempts /\ DeadRow(r).invoice = r.invoice
           /\ Retired(r) \in NoteRows /\ Retired(r).attempts = r.attempts
           /\ Retired(r).invoice = r.invoice
           /\ Retired(r).status # "absent" \/ r.status = "absent"
           /\ Retired(r).status = "sent" <=> r.status = "sent"
           /\ r.status = "sent" => Retired(r) = r
BY DEF DeadRow, Retired, NoteRows, NoteStatuses

\* A row claimed has one try more.
LEMMA ClaimedNoteIs ==
    ASSUME NEW r \in NoteRows
    PROVE  /\ ClaimedNote(r) \in NoteRows /\ ClaimedNote(r).status = "failed"
           /\ ClaimedNote(r).attempts = r.attempts + 1 /\ ClaimedNote(r).invoice = r.invoice
<1>1. r.attempts \in Nat
  BY DEF NoteRows
<1> DEFINE tries == r.attempts + 1
<1>2. tries \in Nat
  BY <1>1
<1>3. ClaimedNote(r) = [r EXCEPT !.status = "failed", !.attempts = tries, !.until = "lease"]
  BY DEF ClaimedNote
<1> HIDE DEF tries
<1>4. /\ ClaimedNote(r) \in NoteRows /\ ClaimedNote(r).status = "failed"
      /\ ClaimedNote(r).attempts = tries /\ ClaimedNote(r).invoice = r.invoice
  BY <1>2, <1>3 DEF NoteRows, NoteStatuses
<1> QED
  BY <1>4 DEF tries

\* A row recorded as sent.
LEMMA SentRowIs ==
    \A r \in NoteRows, m \in Nat :
        LET q == [r EXCEPT !.status = "sent", !.until = "now", !.message = m] IN
        /\ q \in NoteRows /\ q.attempts = r.attempts /\ q.status = "sent"
        /\ q.invoice = r.invoice /\ q.message = m
BY DEF NoteRows, NoteStatuses

\* What a process records about the note in its hand.
LEMMA RecordIs ==
    ASSUME NotifierTypeOK, NEW s \in Senders, Record(s)
    PROVE  /\ sender[s].phase = "record" /\ NextOfBatch(s)
           /\ note' \in [Notes -> NoteRows]
           /\ muted' \in [Buyers -> BOOLEAN]
           /\ UNCHANGED <<lapses, gone, leaves, chat, taken>>
           /\ \A n \in Notes :
                 /\ note'[n].attempts = note[n].attempts /\ note'[n].invoice = note[n].invoice
                 /\ note[n].status # "absent" => note'[n].status # "absent"
                 /\ note[n].status = "sent" => note'[n] = note[n]
                 /\ note'[n].status = "sent" => \/ note'[n] = note[n]
                                               \/ /\ sender[s].verdict = "delivered"
                                                  /\ n = FirstClaim(s).note
                                                  /\ note'[n].message = sender[s].message
<1>0. sender[s].phase = "record" /\ NextOfBatch(s)
  BY DEF Record, RecordSent, RecordTransient, RecordPermanent, RecordBlocked
<1>1. /\ note \in [Notes -> NoteRows] /\ muted \in [Buyers -> BOOLEAN]
      /\ FirstClaim(s).note \in Notes /\ sender[s].message \in Nat
  BY <1>0, FirstIsHeld, SenderParts DEF NotifierTypeOK
<1>2. CASE RecordSent(s)
  <2>1. /\ sender[s].verdict = "delivered"
        /\ UNCHANGED <<lapses, muted, gone, leaves, chat, taken>>
    BY <1>2 DEF RecordSent, buyerVars, chatVars
  <2>2. CASE StillMine(FirstClaim(s))
    <3> DEFINE r == [note[FirstClaim(s).note] EXCEPT !.status = "sent", !.until = "now", !.message = sender[s].message]
    <3>1. note' = [note EXCEPT ![FirstClaim(s).note] = r]
      BY <1>2, <2>2 DEF RecordSent
    <3>2. /\ r \in NoteRows /\ r.attempts = note[FirstClaim(s).note].attempts /\ r.status = "sent"
          /\ r.invoice = note[FirstClaim(s).note].invoice /\ r.message = sender[s].message
      <4>1. note[FirstClaim(s).note] \in NoteRows
        BY <1>1
      <4> QED
        BY <1>1, <4>1, SentRowIs
    <3>3. note[FirstClaim(s).note].status = "failed"
      BY <2>2 DEF StillMine
    <3> HIDE DEF r
    <3> QED
      BY <1>0, <1>1, <2>1, <3>1, <3>2, <3>3
  <2>3. CASE ~StillMine(FirstClaim(s))
    <3>1. note' = note
      BY <1>2, <2>3 DEF RecordSent
    <3> QED
      BY <1>0, <1>1, <2>1, <3>1
  <2> QED
    BY <2>2, <2>3
<1>3. CASE RecordTransient(s)
  <2>1. UNCHANGED <<lapses, muted, gone, leaves, chat, taken>>
    BY <1>3 DEF RecordTransient, buyerVars, chatVars
  <2>2. CASE Exhausted(FirstClaim(s))
    <3>1. note' = [note EXCEPT ![FirstClaim(s).note] = Retired(note[FirstClaim(s).note])]
      BY <1>1, <1>3, <2>2 DEF RecordTransient
    <3> QED
      BY <1>0, <1>1, <2>1, <3>1, DeadRowIs
  <2>3. CASE ~Exhausted(FirstClaim(s)) /\ StillMine(FirstClaim(s))
    <3> DEFINE r == [note[FirstClaim(s).note] EXCEPT !.until = "backoff"]
    <3>1. note' = [note EXCEPT ![FirstClaim(s).note] = r]
      BY <1>1, <1>3, <2>3 DEF RecordTransient
    <3>2. /\ r \in NoteRows /\ r.attempts = note[FirstClaim(s).note].attempts /\ r.status = "failed"
          /\ r.invoice = note[FirstClaim(s).note].invoice
      BY <1>1, <2>3 DEF NoteRows, StillMine
    <3>3. note[FirstClaim(s).note].status = "failed"
      BY <2>3 DEF StillMine
    <3> HIDE DEF r
    <3> QED
      BY <1>0, <1>1, <2>1, <3>1, <3>2, <3>3
  <2>4. CASE ~Exhausted(FirstClaim(s)) /\ ~StillMine(FirstClaim(s))
    <3>1. note' = note
      BY <1>3, <2>4 DEF RecordTransient
    <3> QED
      BY <1>0, <1>1, <2>1, <3>1
  <2> QED
    BY <2>2, <2>3, <2>4
<1>4. CASE RecordPermanent(s)
  <2>1. UNCHANGED <<lapses, muted, gone, leaves, chat, taken>>
    BY <1>4 DEF RecordPermanent, buyerVars, chatVars
  <2>2. note' = [note EXCEPT ![FirstClaim(s).note] = Retired(note[FirstClaim(s).note])]
    BY <1>1, <1>4 DEF RecordPermanent
  <2> QED
    BY <1>0, <1>1, <2>1, <2>2, DeadRowIs
<1>5. CASE RecordBlocked(s)
  <2>1. UNCHANGED <<lapses, gone, leaves, chat, taken>> /\ muted' \in [Buyers -> BOOLEAN]
    BY <1>1, <1>5 DEF RecordBlocked, chatVars
  <2>2. note' = [n \in Notes |->
              IF BuyerOf[n] = BuyerOf[FirstClaim(s).note] /\ note[n].status \in {"queued", "failed"}
              THEN DeadRow(note[n]) ELSE note[n]]
    BY <1>5 DEF RecordBlocked
  <2> QED
    BY <1>0, <1>1, <2>1, <2>2, DeadRowIs
<1> QED
  BY <1>2, <1>3, <1>4, <1>5 DEF Record

\* A pass with what it has seen of the note in its hand.
LookedIs(s) ==
    /\ sender[s].phase = "look" /\ sender'[s].phase = "send"
    /\ sender'[s].message \in MessagesToEdit(FirstClaim(s).note)

\* What looking for a message to edit changes.
LEMMA LookIs ==
    ASSUME NotifierTypeOK, NEW s \in Senders, Look(s)
    PROVE  /\ UNCHANGED <<note, lapses, muted, gone, leaves, chat, taken>>
           /\ sender' \in [Senders -> Passes]
           /\ \A q \in Senders : sender'[q].phase # "idle" => sender'[q].batch # {}
           /\ \A q \in Senders : q # s => sender'[q] = sender[q]
           /\ sender[s].phase # "idle" /\ sender[s].phase # "record"
           /\ sender'[s].batch = sender[s].batch
           /\ \/ LookedIs(s)
              \/ sender'[s].phase = "record" /\ sender'[s].verdict = "permanent"
<1>0. /\ UNCHANGED <<note, lapses, muted, gone, leaves, chat, taken>>
      /\ sender[s].phase = "look"
  BY DEF Look, outboxVars, buyerVars, chatVars
<1>2. CASE Verdict(s, "permanent", 0)
  BY <1>0, <1>2, VerdictMoves DEF Verdicts
<1>3. ASSUME NEW m \in MessagesToEdit(FirstClaim(s).note),
             sender' = [sender EXCEPT ![s].phase = "send", ![s].message = m]
      PROVE  /\ LookedIs(s)
             /\ sender' \in [Senders -> Passes] /\ sender'[s].batch = sender[s].batch
             /\ \A q \in Senders : sender'[q].phase # "idle" => sender'[q].batch # {}
             /\ \A q \in Senders : q # s => sender'[q] = sender[q]
  <2> DEFINE p == [sender[s] EXCEPT !.phase = "send", !.message = m]
  <2>0. sender \in [Senders -> Passes] /\ sender[s].batch # {}
    BY <1>0 DEF NotifierTypeOK
  <2>1. sender' = [sender EXCEPT ![s] = p]
    BY <1>3, <2>0
  <2>2. m \in Nat
    BY <1>0, FirstIsHeld, EditParts
  <2>3. p \in Passes /\ p.phase = "send" /\ p.message = m /\ p.batch = sender[s].batch
    BY <2>0, <2>2 DEF Passes
  <2> HIDE DEF p
  <2>4. /\ sender' \in [Senders -> Passes] /\ sender'[s] = p
        /\ \A q \in Senders : sender'[q].phase # "idle" => sender'[q].batch # {}
        /\ \A q \in Senders : q # s => sender'[q] = sender[q]
    BY <2>0, <2>1, <2>3, SenderMoves
  <2> QED
    BY <1>0, <1>3, <2>3, <2>4 DEF LookedIs
<1> QED
  BY <1>0, <1>2, <1>3 DEF Look

\* What a send changes of the processes, taken or refused.
LEMMA SendIs ==
    ASSUME NotifierTypeOK, NEW s \in Senders, SendFails(s) \/ SendTaken(s)
    PROVE  /\ UNCHANGED <<note, lapses, muted, gone, leaves>>
           /\ sender' \in [Senders -> Passes]
           /\ \A q \in Senders : sender'[q].phase # "idle" => sender'[q].batch # {}
           /\ \A q \in Senders : q # s => sender'[q] = sender[q]
           /\ sender[s].phase = "send" /\ sender'[s].phase = "record"
           /\ sender'[s].batch = sender[s].batch
<1>0. UNCHANGED <<note, lapses, muted, gone, leaves>> /\ sender[s].phase = "send"
  BY DEF SendFails, SendTaken, outboxVars, buyerVars, chatVars
<1>1. sender[s].message \in Nat /\ Len(chat[BuyerOf[FirstClaim(s).note]]) + 1 \in Nat
  <2>1. BuyerOf[FirstClaim(s).note] \in Buyers
    BY <1>0, FirstIsHeld, RowParts
  <2>2. chat[BuyerOf[FirstClaim(s).note]] \in Seq(Notes)
    BY <2>1 DEF NotifierTypeOK
  <2>3. Len(chat[BuyerOf[FirstClaim(s).note]]) \in Nat
    BY <2>2, LenProperties
  <2> QED
    BY <2>3, SenderParts
<1>2. PICK v \in Verdicts, m \in Nat : Verdict(s, v, m)
  BY <1>1 DEF SendFails, SendTaken, Verdicts
<1> QED
  BY <1>0, <1>2, VerdictMoves

\* What a send that Telegram takes changes of the chat.
LEMMA TakenIs ==
    ASSUME NotifierTypeOK, NEW s \in Senders, SendTaken(s)
    PROVE  \E n \in Notes, b \in Buyers, m \in Nat :
              /\ n = FirstClaim(s).note /\ b = BuyerOf[n]
              /\ m = IF sender[s].message # 0 THEN sender[s].message ELSE Len(chat[b]) + 1
              /\ chat' = [chat EXCEPT ![b] =
                    IF sender[s].message # 0 THEN [chat[b] EXCEPT ![m] = n] ELSE Append(chat[b], n)]
              /\ taken' = [taken EXCEPT ![n] = taken[n] + 1]
              /\ sender'[s].verdict = "delivered" => sender'[s].message = m
<1>0. sender[s].phase = "send"
  BY DEF SendTaken
<1> DEFINE n == FirstClaim(s).note
           b == BuyerOf[n]
           m == IF sender[s].message # 0 THEN sender[s].message ELSE Len(chat[b]) + 1
<1>1. n \in Notes /\ b \in Buyers
  BY <1>0, FirstIsHeld, RowParts
<1>2. m \in Nat
  <2>1. chat[b] \in Seq(Notes)
    BY <1>1 DEF NotifierTypeOK
  <2>2. Len(chat[b]) \in Nat
    BY <2>1, LenProperties
  <2> QED
    BY <2>2, SenderParts
<1>3. /\ chat' = [chat EXCEPT ![b] =
             IF sender[s].message # 0 THEN [chat[b] EXCEPT ![m] = n] ELSE Append(chat[b], n)]
      /\ taken' = [taken EXCEPT ![n] = taken[n] + 1]
  BY <1>1 DEF SendTaken, NotifierTypeOK
<1>4. Verdict(s, "delivered", m) \/ Verdict(s, "transient", 0)
  BY DEF SendTaken
<1> HIDE DEF m
<1>5. sender'[s].verdict = "delivered" => sender'[s].message = m
  <2>1. CASE Verdict(s, "delivered", m)
    BY <1>0, <1>2, <2>1, VerdictMoves DEF Verdicts
  <2>2. CASE Verdict(s, "transient", 0)
    BY <1>0, <2>2, VerdictMoves DEF Verdicts
  <2> QED
    BY <1>4, <2>1, <2>2
<1> QED
  BY <1>1, <1>2, <1>3, <1>5 DEF m

\* What a claim does to the rows, the tries and the claimant.
LEMMA ClaimIs ==
    ASSUME NotifierTypeOK, NEW s \in Senders, ClaimBatch(s)
    PROVE  \E B \in SUBSET Notes :
              /\ B = FirstOf({n \in Notes : Claimable(n)})
              /\ note' \in [Notes -> NoteRows]
              /\ \A n \in Notes : note'[n] = IF n \in B THEN ClaimedNote(note[n]) ELSE note[n]
              /\ \A n \in B : note[n].status \in {"queued", "failed"}
              /\ sender' \in [Senders -> Passes]
              /\ \A q \in Senders : sender'[q].phase # "idle" => sender'[q].batch # {}
              /\ \A q \in Senders : q # s => sender'[q] = sender[q]
              /\ sender[s].phase = "idle" /\ sender'[s].phase = "look"
              /\ sender'[s].batch = {[note |-> n, attempts |-> ClaimedNote(note[n]).attempts] : n \in B}
              /\ UNCHANGED <<lapses, muted, gone, leaves, chat, taken>>
<1> DEFINE C == {n \in Notes : Claimable(n)}
           B == FirstOf(C)
           claims == {[note |-> n, attempts |-> ClaimedNote(note[n]).attempts] : n \in B}
<1>1. B \in SUBSET Notes /\ \A n \in B : note[n].status \in {"queued", "failed"}
  BY DEF FirstOf, Claimable
<1>2. B # {}
  <2>1. C # {} /\ C \in SUBSET Nat
    BY NotifierAssumption DEF ClaimBatch, Notes
  <2>2. PICK m \in C : \A k \in C : m <= k
    <3> HIDE DEF C
    <3> QED
      BY <2>1, LeastMember
  <2>3. {k \in C : k < m} = {}
    BY <2>1, <2>2
  <2>4. Cardinality({k \in C : k < m}) = 0
    BY <2>3, FS_EmptySet
  <2> HIDE DEF C
  <2> QED
    BY <2>2, <2>4, NotifierAssumption DEF FirstOf
<1>3. /\ note' = [n \in Notes |-> IF n \in B THEN ClaimedNote(note[n]) ELSE note[n]]
      /\ sender' = [sender EXCEPT ![s] = [IdlePass EXCEPT !.phase = "look", !.batch = claims]]
      /\ sender[s].phase = "idle"
      /\ UNCHANGED <<lapses, muted, gone, leaves, chat, taken>>
  BY DEF ClaimBatch, buyerVars, chatVars
<1> HIDE DEF B
<1>4. note' \in [Notes -> NoteRows]
  BY <1>1, <1>3, ClaimedNoteIs DEF NotifierTypeOK
<1>5. claims \in SUBSET Claims /\ claims # {}
  <2>1. ASSUME NEW n \in B PROVE [note |-> n, attempts |-> ClaimedNote(note[n]).attempts] \in Claims
    <3>1. n \in Notes /\ ClaimedNote(note[n]) \in NoteRows
      BY <1>1, ClaimedNoteIs, RowParts
    <3>2. ClaimedNote(note[n]).attempts \in Nat
      BY <3>1 DEF NoteRows
    <3> QED
      BY <3>1, <3>2 DEF Claims
  <2> QED
    BY <1>2, <2>1
<1>6. /\ sender' \in [Senders -> Passes] /\ sender'[s].phase = "look" /\ sender'[s].batch = claims
      /\ \A q \in Senders : sender'[q].phase # "idle" => sender'[q].batch # {}
      /\ \A q \in Senders : q # s => sender'[q] = sender[q]
  <2> DEFINE p == [IdlePass EXCEPT !.phase = "look", !.batch = claims]
  <2> HIDE DEF claims
  <2>1. p \in Passes /\ p.phase = "look" /\ p.batch = claims
    BY <1>5, IdlePassIs
  <2>2. sender' = [sender EXCEPT ![s] = p]
    BY <1>3
  <2> HIDE DEF p
  <2> QED
    BY <1>5, <2>1, <2>2, SenderMoves
<1> QED
  BY <1>1, <1>3, <1>4, <1>6 DEF B

-----------------------------------------------------------------------------
\* A step of the outbox keeps the types.
LEMMA TypeStep ==
    ASSUME NotifierTypeOK, [NotifierNext]_notifierVars
    PROVE  NotifierTypeOK'
<1>0. /\ note \in [Notes -> NoteRows] /\ taken \in [Notes -> Nat]
      /\ muted \in [Buyers -> BOOLEAN] /\ gone \in [Buyers -> BOOLEAN]
      /\ chat \in [Buyers -> Seq(Notes)] /\ sender \in [Senders -> Passes]
      /\ \A s \in Senders : sender[s].phase # "idle" => sender[s].batch # {}
      /\ lapses \in 0..MaxLapses /\ leaves \in 0..MaxLeaves
  BY DEF NotifierTypeOK
<1>1. ASSUME NEW n \in Notes, Enqueue(n) PROVE NotifierTypeOK'
  <2>1. PICK i \in Invoices : note' = [note EXCEPT ![n] = [note[n] EXCEPT !.status = "queued", !.invoice = i]]
    BY <1>0, <1>1, NotifierAssumption DEF Enqueue
  <2>2. [note[n] EXCEPT !.status = "queued", !.invoice = i] \in NoteRows
    BY <1>0 DEF NoteRows, NoteStatuses
  <2>3. note' \in [Notes -> NoteRows]
    BY <1>0, <2>1, <2>2
  <2> QED
    BY <1>0, <1>1, <2>3 DEF Enqueue, NotifierTypeOK, buyerVars, chatVars
<1>2. ASSUME NEW n \in Notes, Again(n) PROVE NotifierTypeOK'
  <2>1. note' = [note EXCEPT ![n] = [note[n] EXCEPT !.until = "now"]]
    BY <1>0, <1>2 DEF Again
  <2>2. [note[n] EXCEPT !.until = "now"] \in NoteRows
    BY <1>0 DEF NoteRows
  <2>3. note' \in [Notes -> NoteRows]
    BY <1>0, <2>1, <2>2
  <2>4. lapses' \in 0..MaxLapses
    BY <1>0, <1>2, NotifierAssumption DEF Again
  <2> QED
    BY <1>0, <1>2, <2>3, <2>4 DEF Again, NotifierTypeOK, buyerVars, chatVars
<1>3. ASSUME NEW s \in Senders, ClaimBatch(s) PROVE NotifierTypeOK'
  BY <1>0, <1>3, ClaimIs DEF NotifierTypeOK
<1>4. ASSUME NEW s \in Senders, Look(s) PROVE NotifierTypeOK'
  BY <1>0, <1>4, LookIs DEF NotifierTypeOK
<1>5. ASSUME NEW s \in Senders, SendFails(s) PROVE NotifierTypeOK'
  <2>1. UNCHANGED <<chat, taken>>
    BY <1>5 DEF SendFails, chatVars
  <2> QED
    BY <1>0, <1>5, <2>1, SendIs DEF NotifierTypeOK
<1>6. ASSUME NEW s \in Senders, SendTaken(s) PROVE NotifierTypeOK'
  <2>1. PICK n \in Notes, b \in Buyers, m \in Nat :
           /\ n = FirstClaim(s).note /\ b = BuyerOf[n]
           /\ m = IF sender[s].message # 0 THEN sender[s].message ELSE Len(chat[b]) + 1
           /\ chat' = [chat EXCEPT ![b] =
                 IF sender[s].message # 0 THEN [chat[b] EXCEPT ![m] = n] ELSE Append(chat[b], n)]
           /\ taken' = [taken EXCEPT ![n] = taken[n] + 1]
           /\ sender'[s].verdict = "delivered" => sender'[s].message = m
    BY <1>6, TakenIs, Zenon
  <2>2. chat[b] \in Seq(Notes)
    BY <1>0
  <2>3. Append(chat[b], n) \in Seq(Notes)
    BY <2>2, AppendProperties
  <2>4. [chat[b] EXCEPT ![m] = n] \in Seq(Notes)
    <3>1. CASE m \in 1..Len(chat[b])
      BY <2>2, <3>1, ExceptSeq
    <3>2. CASE m \notin 1..Len(chat[b])
      <4>1. DOMAIN chat[b] = 1..Len(chat[b]) /\ chat[b] = [i \in DOMAIN chat[b] |-> chat[b][i]]
        BY <2>2
      <4>2. [chat[b] EXCEPT ![m] = n] = chat[b]
        BY <3>2, <4>1
      <4> QED
        BY <2>2, <4>2
    <3> QED
      BY <3>1, <3>2
  <2>5. chat' \in [Buyers -> Seq(Notes)]
    BY <1>0, <2>1, <2>3, <2>4
  <2>6. taken' \in [Notes -> Nat]
    BY <1>0, <2>1
  <2> QED
    BY <1>0, <1>6, <2>5, <2>6, SendIs DEF NotifierTypeOK
<1>7. ASSUME NEW s \in Senders, Record(s) PROVE NotifierTypeOK'
  <2>1. sender[s].phase # "idle" /\ NextOfBatch(s)
    BY <1>7, RecordIs
  <2>2. /\ sender' \in [Senders -> Passes]
        /\ \A q \in Senders : sender'[q].phase # "idle" => sender'[q].batch # {}
    BY <2>1, BatchMoves
  <2> QED
    BY <1>0, <1>7, <2>2, RecordIs DEF NotifierTypeOK
<1>8. ASSUME NEW s \in Senders, PassDies(s) PROVE NotifierTypeOK'
  <2>1. /\ sender' \in [Senders -> Passes]
        /\ \A q \in Senders : sender'[q].phase # "idle" => sender'[q].batch # {}
    BY <1>8, IdlePassIs, SenderMoves DEF PassDies
  <2>2. lapses' \in 0..MaxLapses
    BY <1>0, <1>8, NotifierAssumption DEF PassDies
  <2> QED
    BY <1>0, <1>8, <2>1, <2>2 DEF NotifierTypeOK, PassDies, buyerVars, chatVars
<1>9. ASSUME NEW b \in Buyers, Leave(b) \/ Return(b) PROVE NotifierTypeOK'
  <2>1. muted' \in [Buyers -> BOOLEAN] /\ gone' \in [Buyers -> BOOLEAN] /\ leaves' \in 0..MaxLeaves
    <3>1. CASE Leave(b)
      <4>1. leaves' \in 0..MaxLeaves
        BY <1>0, <3>1, NotifierAssumption DEF Leave
      <4>2. gone' = [gone EXCEPT ![b] = TRUE] /\ muted' = muted
        BY <3>1 DEF Leave
      <4>3. gone' \in [Buyers -> BOOLEAN]
        BY <1>0, <4>2
      <4> QED
        BY <1>0, <4>1, <4>2, <4>3
    <3>2. CASE Return(b)
      <4>1. gone' = [gone EXCEPT ![b] = FALSE] /\ muted' = [muted EXCEPT ![b] = FALSE] /\ leaves' = leaves
        BY <3>2 DEF Return
      <4>2. gone' \in [Buyers -> BOOLEAN] /\ muted' \in [Buyers -> BOOLEAN]
        BY <1>0, <4>1
      <4> QED
        BY <1>0, <4>1, <4>2
    <3> QED
      BY <1>9, <3>1, <3>2
  <2> QED
    BY <1>0, <1>9, <2>1 DEF Leave, Return, NotifierTypeOK, outboxVars, chatVars
<1>10. CASE UNCHANGED notifierVars
  BY <1>0, <1>10 DEF NotifierTypeOK, notifierVars, outboxVars, buyerVars, chatVars
<1> QED
  BY <1>1, <1>2, <1>3, <1>4, <1>5, <1>6, <1>7, <1>8, <1>9, <1>10 DEF NotifierNext, Deliver

-----------------------------------------------------------------------------
\* The processes that still hold a note to be sent are finitely many.
LEMMA PendingIs ==
    ASSUME NEW n
    PROVE  /\ IsFiniteSet(Pending(n)) /\ Cardinality(Pending(n)) \in Nat
           /\ \A S \in SUBSET Pending(n) : /\ IsFiniteSet(S) /\ Cardinality(S) \in Nat
                                           /\ Cardinality(S) <= Cardinality(Pending(n))
<1>1. Pending(n) \in SUBSET Senders
  BY DEF Pending
<1>2. IsFiniteSet(Pending(n))
  BY <1>1, FS_Subset, NotifierAssumption
<1> QED
  BY <1>2, FS_Subset, FS_CardinalityType

\* Claims that nobody adds to stay counted.
LEMMA TriesStay ==
    ASSUME OutboxInv, taken' = taken,
           \A n \in Notes : note'[n].attempts = note[n].attempts,
           \A q \in Senders : Unsent(q)' \subseteq Unsent(q)
    PROVE  TriesCovered'
<1> SUFFICES ASSUME NEW n \in Notes PROVE taken'[n] + Cardinality(Pending(n)') <= note'[n].attempts
  BY DEF TriesCovered
<1>1. Pending(n)' \in SUBSET Pending(n)
  BY DEF Pending
<1>2. /\ Cardinality(Pending(n)') \in Nat /\ Cardinality(Pending(n)) \in Nat
      /\ Cardinality(Pending(n)') <= Cardinality(Pending(n))
  BY <1>1, PendingIs
<1>3. taken[n] \in Nat /\ note[n].attempts \in Nat /\ taken[n] + Cardinality(Pending(n)) <= note[n].attempts
  BY RowParts DEF OutboxInv, TriesCovered
<1> QED
  BY <1>2, <1>3

\* A batch that nobody adds to stays one.
LEMMA BatchStays ==
    ASSUME OutboxInv, NEW s \in Senders, sender'[s].batch \subseteq sender[s].batch,
           sender'[s].phase = "idle" => sender'[s].batch = {},
           \A n \in Notes : note[n].status # "absent" => note'[n].status # "absent"
    PROVE  BatchIntact(s)'
BY SenderParts DEF OutboxInv, BatchIntact

\* The first claim is a matter of the batch alone.
LEMMA SameBatch ==
    ASSUME NEW s \in Senders, sender'[s].batch = sender[s].batch
    PROVE  FirstClaim(s)' = FirstClaim(s)
BY DEF FirstClaim

\* A claim counts the try before the note is in anybody's hand.
LEMMA ClaimCounts ==
    ASSUME OutboxInv, NEW s \in Senders, ClaimBatch(s)
    PROVE  (\A q \in Senders : BatchIntact(q)') /\ TriesCovered'
<1>0. NotifierTypeOK /\ BatchIntact(s)
  BY DEF OutboxInv
<1>1. PICK B \in SUBSET Notes :
         /\ B = FirstOf({n \in Notes : Claimable(n)})
         /\ note' \in [Notes -> NoteRows]
         /\ \A n \in Notes : note'[n] = IF n \in B THEN ClaimedNote(note[n]) ELSE note[n]
         /\ \A n \in B : note[n].status \in {"queued", "failed"}
         /\ sender' \in [Senders -> Passes]
         /\ \A q \in Senders : sender'[q].phase # "idle" => sender'[q].batch # {}
         /\ \A q \in Senders : q # s => sender'[q] = sender[q]
         /\ sender[s].phase = "idle" /\ sender'[s].phase = "look"
         /\ sender'[s].batch = {[note |-> n, attempts |-> ClaimedNote(note[n]).attempts] : n \in B}
         /\ UNCHANGED <<lapses, muted, gone, leaves, chat, taken>>
  BY <1>0, ClaimIs, Zenon
<1>2. /\ \A n \in B : note'[n].status = "failed" /\ note'[n].attempts = note[n].attempts + 1
      /\ \A n \in Notes \ B : note'[n] = note[n]
  BY <1>0, <1>1, ClaimedNoteIs, RowParts
<1>3. \A n \in Notes : note[n].status # "absent" => note'[n].status # "absent"
  BY <1>1, <1>2
<1>4. \A c \in sender'[s].batch : c.note \in B
  BY <1>1
<1>5. ASSUME NEW q \in Senders PROVE BatchIntact(q)'
  <2>1. CASE q = s
    BY <1>1, <1>2, <1>4, <2>1 DEF BatchIntact
  <2>2. CASE q # s
    <3>1. sender'[q] = sender[q] /\ BatchIntact(q)
      BY <1>1, <2>2 DEF OutboxInv
    <3>2. sender'[q].batch \subseteq sender[q].batch /\ (sender'[q].phase = "idle" => sender'[q].batch = {})
      BY <3>1 DEF BatchIntact
    <3> QED
      BY <1>3, <3>2, BatchStays
  <2> QED
    BY <2>1, <2>2
<1>6. TriesCovered'
  <2> SUFFICES ASSUME NEW n \in Notes PROVE taken'[n] + Cardinality(Pending(n)') <= note'[n].attempts
    BY DEF TriesCovered
  <2>0. s \notin Pending(n)
    BY <1>0, <1>1 DEF Pending, Unsent, BatchIntact
  <2>1. \A q \in Senders \ {s} : Unsent(q)' = Unsent(q)
    BY <1>1 DEF Unsent, FirstClaim
  <2>2. Unsent(s)' = sender'[s].batch
    BY <1>1 DEF Unsent
  <2>3. /\ taken[n] \in Nat /\ note[n].attempts \in Nat /\ taken'[n] = taken[n]
        /\ taken[n] + Cardinality(Pending(n)) <= note[n].attempts
        /\ IsFiniteSet(Pending(n)) /\ Cardinality(Pending(n)) \in Nat
    BY <1>0, <1>1, RowParts, PendingIs DEF OutboxInv, TriesCovered
  <2>4. CASE n \in B
    <3>1. Pending(n)' \subseteq Pending(n) \union {s}
      BY <2>1 DEF Pending
    <3>2. /\ IsFiniteSet(Pending(n) \union {s})
          /\ Cardinality(Pending(n) \union {s}) = Cardinality(Pending(n)) + 1
      BY <2>0, <2>3, FS_AddElement
    <3>3. /\ Cardinality(Pending(n)') \in Nat
          /\ Cardinality(Pending(n)') <= Cardinality(Pending(n) \union {s})
      BY <3>1, <3>2, FS_Subset, FS_CardinalityType
    <3> QED
      BY <1>2, <2>3, <2>4, <3>2, <3>3
  <2>5. CASE n \notin B
    <3>1. Pending(n)' \subseteq Pending(n)
      BY <1>4, <2>1, <2>2, <2>5 DEF Pending
    <3>2. Cardinality(Pending(n)') \in Nat /\ Cardinality(Pending(n)') <= Cardinality(Pending(n))
      BY <3>1, PendingIs
    <3> QED
      BY <1>2, <2>3, <2>5, <3>2
  <2> QED
    BY <2>4, <2>5
<1> QED
  BY <1>5, <1>6

\* Telegram takes a message: one try of its note is spent and one process less has it to send.
LEMMA TakenCounts ==
    ASSUME OutboxInv, NEW s \in Senders, SendTaken(s)
    PROVE  TriesCovered'
<1>0. NotifierTypeOK /\ BatchIntact(s)
  BY DEF OutboxInv
<1>1. PICK k \in Notes, b \in Buyers, m \in Nat :
         /\ k = FirstClaim(s).note /\ b = BuyerOf[k]
         /\ m = IF sender[s].message # 0 THEN sender[s].message ELSE Len(chat[b]) + 1
         /\ chat' = [chat EXCEPT ![b] =
               IF sender[s].message # 0 THEN [chat[b] EXCEPT ![m] = k] ELSE Append(chat[b], k)]
         /\ taken' = [taken EXCEPT ![k] = taken[k] + 1]
         /\ sender'[s].verdict = "delivered" => sender'[s].message = m
  BY <1>0, TakenIs, Zenon
<1>2. /\ note' = note /\ \A q \in Senders : q # s => sender'[q] = sender[q]
      /\ sender[s].phase = "send" /\ sender'[s].phase = "record" /\ sender'[s].batch = sender[s].batch
  BY <1>0, SendIs
<1>3. FirstClaim(s) \in sender[s].batch /\ FirstClaim(s)' = FirstClaim(s)
  BY <1>0, <1>2, FirstIsHeld, SameBatch
<1>4. Unsent(s)' = sender[s].batch \ {FirstClaim(s)} /\ Unsent(s) = sender[s].batch
  BY <1>2, <1>3 DEF Unsent
<1>5. \A q \in Senders \ {s} : Unsent(q)' = Unsent(q)
  BY <1>2 DEF Unsent, FirstClaim
<1> SUFFICES ASSUME NEW n \in Notes PROVE taken'[n] + Cardinality(Pending(n)') <= note'[n].attempts
  BY DEF TriesCovered
<1>6. /\ taken[n] \in Nat /\ note[n].attempts \in Nat /\ note'[n].attempts = note[n].attempts
      /\ taken[n] + Cardinality(Pending(n)) <= note[n].attempts
      /\ IsFiniteSet(Pending(n)) /\ Cardinality(Pending(n)) \in Nat
  BY <1>0, <1>2, RowParts, PendingIs DEF OutboxInv, TriesCovered
<1>7. CASE n = k
  <2>1. s \in Pending(n)
    BY <1>1, <1>3, <1>4, <1>7 DEF Pending
  <2>2. \A c \in sender[s].batch : c.note = n => c = FirstClaim(s)
    BY <1>0, <1>1, <1>3, <1>7 DEF BatchIntact
  <2>3. Pending(n)' \subseteq Pending(n) \ {s}
    BY <1>4, <1>5, <2>2 DEF Pending
  <2>4. /\ IsFiniteSet(Pending(n) \ {s})
        /\ Cardinality(Pending(n) \ {s}) = Cardinality(Pending(n)) - 1
    BY <1>6, <2>1, FS_RemoveElement
  <2>5. Cardinality(Pending(n)') \in Nat /\ Cardinality(Pending(n)') <= Cardinality(Pending(n) \ {s})
    BY <2>3, <2>4, FS_Subset, FS_CardinalityType
  <2>6. taken'[n] = taken[n] + 1
    BY <1>0, <1>1, <1>7 DEF NotifierTypeOK
  <2> QED
    BY <1>6, <2>4, <2>5, <2>6
<1>8. CASE n # k
  <2>1. Pending(n)' \subseteq Pending(n)
    BY <1>4, <1>5 DEF Pending
  <2>2. Cardinality(Pending(n)') \in Nat /\ Cardinality(Pending(n)') <= Cardinality(Pending(n))
    BY <2>1, PendingIs
  <2>3. taken'[n] = taken[n]
    BY <1>0, <1>1, <1>8 DEF NotifierTypeOK
  <2> QED
    BY <1>6, <2>2, <2>3
<1> QED
  BY <1>7, <1>8

\* Rows and batches of every other step: nothing is forgotten, nobody is given more to send.
Kept ==
    /\ UNCHANGED taken
    /\ \A n \in Notes : note'[n].attempts = note[n].attempts
    /\ \A n \in Notes : note[n].status # "absent" => note'[n].status # "absent"
    /\ \A q \in Senders :
          /\ sender'[q].batch \subseteq sender[q].batch
          /\ sender'[q].phase = "idle" => sender'[q].batch = {}
          /\ Unsent(q)' \subseteq Unsent(q)

\* What Kept keeps is enough for the batches and the tries.
LEMMA KeptHolds == ASSUME OutboxInv, Kept PROVE (\A q \in Senders : BatchIntact(q)') /\ TriesCovered'
BY BatchStays, TriesStay DEF Kept

\* A process that moves leaves the batches of the others alone.
LEMMA OthersKeep ==
    ASSUME OutboxInv, NEW s \in Senders, \A q \in Senders : q # s => sender'[q] = sender[q]
    PROVE  \A q \in Senders : q # s =>
               /\ sender'[q].batch \subseteq sender[q].batch
               /\ sender'[q].phase = "idle" => sender'[q].batch = {}
               /\ Unsent(q)' \subseteq Unsent(q)
BY DEF OutboxInv, BatchIntact, Unsent, FirstClaim

\* A step that changes rows only, neither their tries nor whether they exist.
LEMMA RowsOnly ==
    ASSUME OutboxInv, UNCHANGED <<sender, taken>>,
           \A n \in Notes : /\ note'[n].attempts = note[n].attempts
                            /\ note[n].status # "absent" => note'[n].status # "absent"
    PROVE  Kept
BY DEF Kept, OutboxInv, BatchIntact, Unsent, FirstClaim

\* Every step keeps the batches whole and the tries counted.
LEMMA OutboxStep ==
    ASSUME OutboxInv, [NotifierNext]_notifierVars
    PROVE  OutboxInv'
<1>0. NotifierTypeOK /\ \A s \in Senders : BatchIntact(s)
  BY DEF OutboxInv
<1>00. NotifierTypeOK'
  BY <1>0, TypeStep
<1> SUFFICES (\A q \in Senders : BatchIntact(q)') /\ TriesCovered'
  BY <1>00 DEF OutboxInv
<1>1. ASSUME NEW n \in Notes, Enqueue(n) PROVE Kept
  <2>1. PICK i : note' = [note EXCEPT ![n] = [note[n] EXCEPT !.status = "queued", !.invoice = i]]
    BY <1>0, <1>1 DEF Enqueue, NotifierTypeOK
  <2>2. \A k \in Notes : note'[k].attempts = note[k].attempts
                         /\ (note[k].status # "absent" => note'[k].status # "absent")
    BY <1>0, <2>1 DEF NotifierTypeOK, NoteRows
  <2> QED
    BY <1>1, <2>2, RowsOnly DEF Enqueue, chatVars
<1>2. ASSUME NEW n \in Notes, Again(n) PROVE Kept
  <2>1. note' = [note EXCEPT ![n] = [note[n] EXCEPT !.until = "now"]]
    BY <1>0, <1>2 DEF Again, NotifierTypeOK
  <2>2. \A k \in Notes : note'[k].attempts = note[k].attempts
                         /\ (note[k].status # "absent" => note'[k].status # "absent")
    BY <1>0, <2>1 DEF NotifierTypeOK, NoteRows
  <2> QED
    BY <1>2, <2>2, RowsOnly DEF Again, chatVars
<1>3. ASSUME NEW s \in Senders, ClaimBatch(s) PROVE (\A q \in Senders : BatchIntact(q)') /\ TriesCovered'
  BY <1>3, ClaimCounts
<1>4. ASSUME NEW s \in Senders, Look(s) PROVE Kept
  <2>1. Unsent(s)' \subseteq Unsent(s)
    BY <1>0, <1>4, LookIs DEF Unsent
  <2>2. sender'[s].phase # "idle" /\ sender'[s].batch = sender[s].batch
    BY <1>0, <1>4, LookIs DEF LookedIs
  <2>3. \A q \in Senders : q # s => sender'[q] = sender[q]
    BY <1>0, <1>4, LookIs
  <2>4. note' = note /\ taken' = taken
    BY <1>0, <1>4, LookIs
  <2> QED
    BY <2>1, <2>2, <2>3, <2>4, OthersKeep DEF Kept
<1>5. ASSUME NEW s \in Senders, SendFails(s) \/ SendTaken(s)
      PROVE  /\ \A q \in Senders : /\ sender'[q].batch \subseteq sender[q].batch
                                   /\ sender'[q].phase = "idle" => sender'[q].batch = {}
                                   /\ Unsent(q)' \subseteq Unsent(q)
             /\ note' = note
  <2>1. /\ sender[s].phase = "send" /\ sender'[s].phase = "record" /\ note' = note
        /\ sender'[s].batch = sender[s].batch
        /\ \A q \in Senders : q # s => sender'[q] = sender[q]
    BY <1>0, <1>5, SendIs
  <2>2. Unsent(s)' \subseteq Unsent(s)
    BY <2>1 DEF Unsent
  <2> QED
    BY <2>1, <2>2, OthersKeep
<1>6. ASSUME NEW s \in Senders, SendFails(s) PROVE Kept
  BY <1>5, <1>6 DEF Kept, SendFails, chatVars
<1>7. ASSUME NEW s \in Senders, SendTaken(s) PROVE (\A q \in Senders : BatchIntact(q)') /\ TriesCovered'
  <2>1. \A q \in Senders : BatchIntact(q)'
    BY <1>5, <1>7, BatchStays
  <2> QED
    BY <1>7, <2>1, TakenCounts
<1>8. ASSUME NEW s \in Senders, Record(s) PROVE Kept
  <2>1. /\ sender[s].phase = "record" /\ NextOfBatch(s) /\ taken' = taken
        /\ \A n \in Notes : /\ note'[n].attempts = note[n].attempts
                            /\ note[n].status # "absent" => note'[n].status # "absent"
    BY <1>0, <1>8, RecordIs
  <2>2. /\ sender'[s].phase = IF RestOfBatch(s) = {} THEN "idle" ELSE "look"
        /\ sender'[s].batch = RestOfBatch(s)
        /\ \A q \in Senders : q # s => sender'[q] = sender[q]
    BY <1>0, <2>1, BatchMoves
  <2>3. Unsent(s)' \subseteq Unsent(s) /\ sender'[s].batch \subseteq sender[s].batch
    BY <2>1, <2>2 DEF Unsent, RestOfBatch
  <2> QED
    BY <2>1, <2>2, <2>3, OthersKeep DEF Kept
<1>9. ASSUME NEW s \in Senders, PassDies(s) PROVE Kept
  <2>1. /\ sender'[s] = IdlePass /\ \A q \in Senders : q # s => sender'[q] = sender[q]
        /\ note' = note /\ taken' = taken
    BY <1>0, <1>9 DEF PassDies, NotifierTypeOK, chatVars
  <2>2. sender'[s].batch = {} /\ Unsent(s)' = {}
    BY <2>1, IdlePassIs DEF Unsent
  <2> QED
    BY <2>1, <2>2, OthersKeep DEF Kept
<1>10. ASSUME NEW b \in Buyers, Leave(b) \/ Return(b) PROVE Kept
  BY <1>10, RowsOnly DEF Leave, Return, outboxVars, chatVars
<1>11. CASE UNCHANGED notifierVars
  BY <1>11, RowsOnly, KeptHolds DEF notifierVars, outboxVars, chatVars
<1> QED
  BY <1>1, <1>2, <1>3, <1>4, <1>6, <1>7, <1>8, <1>9, <1>10, <1>11, KeptHolds DEF NotifierNext, Deliver

-----------------------------------------------------------------------------
\* The rows, the screens and the passes of the notifier keep their types: no pass
\* goes on with an empty batch.
THEOREM NotifierTypeCorrect == NotifierSpec => []NotifierTypeOK
<1>1. NotifierInit => NotifierTypeOK
  BY OutboxStart DEF ChatInv, OutboxInv
<1>2. NotifierTypeOK /\ [NotifierNext]_notifierVars => NotifierTypeOK'
  BY TypeStep
<1> QED
  BY <1>1, <1>2, PTL DEF NotifierSpec

\* "A stale winner updates zero rows" (SentStands): whatever another claimant, a
\* late verdict or a block does to the outbox of notifier/repository.py, a note that
\* was delivered stays so, with its message.
THEOREM SentStandsTheorem == NotifierSpec => SentStands
<1> DEFINE Stands == \A n \in Notes : note[n].status = "sent" => note'[n] = note[n]
<1>1. ASSUME NotifierTypeOK, [NotifierNext]_notifierVars PROVE [Stands]_notifierVars
  <2>1. ASSUME NEW n \in Notes, Enqueue(n) \/ Again(n) PROVE Stands
    BY <1>1, <2>1 DEF Enqueue, Again, NotifierTypeOK
  <2>2. ASSUME NEW s \in Senders, ClaimBatch(s) PROVE Stands
    BY <1>1, <2>2, ClaimIs
  <2>3. ASSUME NEW s \in Senders, Deliver(s) PROVE Stands
    <3>1. CASE Look(s)
      BY <1>1, <3>1, LookIs
    <3>2. CASE SendFails(s) \/ SendTaken(s)
      BY <1>1, <3>2, SendIs
    <3>3. CASE Record(s)
      BY <1>1, <3>3, RecordIs
    <3> QED
      BY <2>3, <3>1, <3>2, <3>3 DEF Deliver
  <2>4. ASSUME NEW s \in Senders, PassDies(s) PROVE Stands
    BY <2>4 DEF PassDies
  <2>5. ASSUME NEW b \in Buyers, Leave(b) \/ Return(b) PROVE Stands
    BY <2>5 DEF Leave, Return, outboxVars
  <2> HIDE DEF Stands
  <2> QED
    BY <1>1, <2>1, <2>2, <2>3, <2>4, <2>5 DEF NotifierNext
<1> QED
  BY <1>1, NotifierTypeCorrect, PTL DEF NotifierSpec, SentStands

\* No message leaves uncounted (EveryTryCounted), for any number of notifiers, and
\* whatever lease ends and whatever pass dies: claim_batch counts the try first.
THEOREM EveryTryTheorem == NotifierSpec => []EveryTryCounted
<1>1. NotifierInit => OutboxInv
  BY OutboxStart DEF ChatInv
<1>2. OutboxInv /\ [NotifierNext]_notifierVars => OutboxInv'
  BY OutboxStep
<1>3. ASSUME OutboxInv PROVE EveryTryCounted
  <2> SUFFICES ASSUME NEW n \in Notes PROVE taken[n] <= note[n].attempts
    BY DEF EveryTryCounted
  <2> QED
    BY <1>3, RowParts, PendingIs DEF OutboxInv, TriesCovered
<1> QED
  BY <1>1, <1>2, <1>3, PTL DEF NotifierSpec

-----------------------------------------------------------------------------
\* What is on the screens, when nothing is sent.
RowsKept ==
    \A n \in Notes : note[n].status # "absent" =>
        note'[n].status # "absent" /\ note'[n].invoice = note[n].invoice

\* What a chat shows are notes.
LEMMA ShownParts ==
    ASSUME NotifierTypeOK, NEW b \in Buyers
    PROVE  chat[b] \in Seq(Notes) /\ Len(chat[b]) \in Nat /\ \A m \in 1..Len(chat[b]) : chat[b][m] \in Notes
<1>1. chat[b] \in Seq(Notes)
  BY DEF NotifierTypeOK
<1> QED
  BY <1>1, LenProperties, ElementOfSeq

\* While the chat stands still, what it shows still fits.
LEMMA ChatStays ==
    ASSUME ChatInv, chat' = chat, RowsKept
    PROVE  /\ ShownExist'
           /\ \A n \in Notes : \A m : note[n].status # "absent" /\ FitsAt(n, m) => FitsAt(n, m)'
<1>0. NotifierTypeOK /\ ShownExist
  BY DEF ChatInv, OutboxInv
<1>1. \A b \in Buyers : \A m \in 1..Len(chat[b]) :
         /\ chat[b][m] \in Notes /\ note'[chat[b][m]].status # "absent"
         /\ note'[chat[b][m]].invoice = note[chat[b][m]].invoice
  BY <1>0, ShownParts DEF ShownExist, RowsKept
<1>2. \A n \in Notes : BuyerOf[n] \in Buyers
  BY <1>0, RowParts
<1> QED
  BY <1>1, <1>2 DEF ShownExist, FitsAt, RowsKept

\* A process that stands still keeps the message it has in hand.
LEMMA HandsStay ==
    ASSUME ChatInv, NEW s \in Senders, sender'[s] = sender[s],
           \A n \in Notes : \A m : note[n].status # "absent" /\ FitsAt(n, m) => FitsAt(n, m)'
    PROVE  HandFits(s)'
<1>0. NotifierTypeOK /\ BatchIntact(s) /\ HandFits(s)
  BY DEF ChatInv, OutboxInv
<1>1. FirstClaim(s)' = FirstClaim(s)
  BY SameBatch
<1>2. CASE sender[s].phase = "idle"
  BY <1>2 DEF HandFits
<1>3. CASE sender[s].phase # "idle"
  <2>1. PICK n \in Notes : n = FirstClaim(s).note /\ note[n].status # "absent"
    BY <1>0, <1>3, FirstIsHeld DEF BatchIntact
  <2>2. PICK m : m = sender[s].message
    OBVIOUS
  <2>3. FitsAt(n, m) => FitsAt(n, m)'
    BY <2>1
  <2>4. n = (FirstClaim(s).note)' /\ m = sender'[s].message
    BY <1>1, <2>1, <2>2
  <2> QED
    BY <1>0, <2>1, <2>2, <2>3, <2>4 DEF HandFits
<1> QED
  BY <1>2, <1>3

\* A row that stands still keeps its message.
LEMMA SentStay ==
    ASSUME ChatInv, NEW n \in Notes, note'[n] = note[n],
           \A k \in Notes : \A m : note[k].status # "absent" /\ FitsAt(k, m) => FitsAt(k, m)'
    PROVE  (note[n].status = "sent" => FitsAt(n, note[n].message))'
<1>1. note[n].status = "sent" => FitsAt(n, note[n].message)
  BY DEF ChatInv, SentFit
<1>2. note[n].status = "sent" => FitsAt(n, note[n].message)'
  BY <1>1
<1> QED
  BY <1>2 DEF FitsAt

\* A step that sends nothing and marks nothing sent.
LEMMA NothingSent ==
    ASSUME ChatInv, chat' = chat, RowsKept,
           \A n \in Notes : note'[n].status = "sent" => note'[n] = note[n]
    PROVE  /\ ShownExist' /\ SentFit'
           /\ \A s \in Senders : sender'[s] = sender[s] => HandFits(s)'
<1>1. /\ ShownExist'
      /\ \A n \in Notes : \A m : note[n].status # "absent" /\ FitsAt(n, m) => FitsAt(n, m)'
  BY ChatStays
<1>2. ASSUME NEW n \in Notes PROVE (note[n].status = "sent" => FitsAt(n, note[n].message))'
  <2>1. CASE note'[n] = note[n]
    BY <1>1, <2>1, SentStay
  <2>2. CASE note'[n] # note[n]
    BY <2>2
  <2> QED
    BY <2>1, <2>2
<1>3. SentFit'
  BY <1>2 DEF SentFit
<1> QED
  BY <1>1, <1>3, HandsStay

\* The message a note will edit shows a note of the same invoice.
LEMMA EditFits ==
    ASSUME ChatInv, NEW n \in Notes, NEW e \in MessagesToEdit(n), e # 0
    PROVE  FitsAt(n, e)
<1>1. PICK m \in Notes : /\ BuyerOf[m] = BuyerOf[n] /\ note[m].status = "sent"
                         /\ note[m].invoice = note[n].invoice
                         /\ e = note[m].message
  BY EditParts DEF ChatInv, OutboxInv
<1>2. FitsAt(m, note[m].message)
  BY <1>1 DEF ChatInv, SentFit
<1> QED
  BY <1>1, <1>2 DEF FitsAt

\* Telegram takes a message: it stands where the note belongs, and moves no other.
LEMMA TakenFits ==
    ASSUME ChatInv, NEW s \in Senders, SendTaken(s)
    PROVE  /\ ShownExist'
           /\ \A n \in Notes : \A m : FitsAt(n, m) => FitsAt(n, m)'
           /\ HandFits(s)'
<1>0. NotifierTypeOK /\ BatchIntact(s) /\ ShownExist /\ HandFits(s)
  BY DEF ChatInv, OutboxInv
<1>1. PICK k \in Notes, b \in Buyers, m \in Nat :
         /\ k = FirstClaim(s).note /\ b = BuyerOf[k]
         /\ m = IF sender[s].message # 0 THEN sender[s].message ELSE Len(chat[b]) + 1
         /\ chat' = [chat EXCEPT ![b] =
               IF sender[s].message # 0 THEN [chat[b] EXCEPT ![m] = k] ELSE Append(chat[b], k)]
         /\ taken' = [taken EXCEPT ![k] = taken[k] + 1]
         /\ sender'[s].verdict = "delivered" => sender'[s].message = m
  BY <1>0, TakenIs, Zenon
<1>2. /\ note' = note /\ sender[s].phase = "send" /\ sender'[s].phase = "record"
      /\ sender'[s].batch = sender[s].batch
  BY <1>0, SendIs
<1>3. (FirstClaim(s).note)' = k /\ note[k].status # "absent"
  BY <1>0, <1>1, <1>2, FirstIsHeld, SameBatch DEF BatchIntact
<1>4. /\ chat[b] \in Seq(Notes) /\ Len(chat[b]) \in Nat
      /\ \A j \in 1..Len(chat[b]) : chat[b][j] \in Notes
  BY <1>0, ShownParts
<1>5. sender[s].message # 0 => m \in 1..Len(chat[b]) /\ note[chat[b][m]].invoice = note[k].invoice
  BY <1>0, <1>1, <1>2 DEF HandFits, FitsAt
<1>6. chat' \in [Buyers -> Seq(Notes)] /\ \A c \in Buyers \ {b} : chat'[c] = chat[c]
  <2>1. NotifierTypeOK'
    <3>1. [NotifierNext]_notifierVars
      BY DEF NotifierNext, Deliver
    <3> QED
      BY <1>0, <3>1, TypeStep
  <2>2. chat \in [Buyers -> Seq(Notes)]
    BY <1>0 DEF NotifierTypeOK
  <2> QED
    BY <1>1, <2>1, <2>2 DEF NotifierTypeOK
<1>7. /\ Len(chat'[b]) \in Nat /\ Len(chat[b]) <= Len(chat'[b]) /\ m \in 1..Len(chat'[b]) /\ chat'[b][m] = k
      /\ \A j \in 1..Len(chat[b]) : j # m => chat'[b][j] = chat[b][j]
      /\ \A j \in 1..Len(chat'[b]) : j = m \/ j \in 1..Len(chat[b])
      /\ m \in 1..Len(chat[b]) => note[chat[b][m]].invoice = note[k].invoice
  <2>1. CASE sender[s].message # 0
    <3>1. chat'[b] = [chat[b] EXCEPT ![m] = k]
      BY <1>0, <1>1, <2>1 DEF NotifierTypeOK
    <3>2. m \in 1..Len(chat[b])
      BY <1>5, <2>1
    <3> QED
      BY <1>4, <1>5, <2>1, <3>1, <3>2, ExceptSeq
  <2>2. CASE sender[s].message = 0
    <3>1. chat'[b] = Append(chat[b], k) /\ m = Len(chat[b]) + 1
      BY <1>0, <1>1, <2>2 DEF NotifierTypeOK
    <3> QED
      BY <1>4, <3>1, AppendProperties
  <2> QED
    BY <2>1, <2>2
<1>8. ShownExist'
  <2>1. ASSUME NEW c \in Buyers, NEW j \in 1..Len(chat'[c]) PROVE note'[chat'[c][j]].status # "absent"
    <3>1. CASE c = b
      BY <1>0, <1>2, <1>3, <1>4, <1>7, <2>1, <3>1 DEF ShownExist
    <3>2. CASE c # b
      BY <1>0, <1>2, <1>6, <2>1, <3>2 DEF ShownExist
    <3> QED
      BY <3>1, <3>2
  <2> QED
    BY <2>1 DEF ShownExist
<1>9. ASSUME NEW n \in Notes, NEW j, FitsAt(n, j) PROVE FitsAt(n, j)'
  <2>0. BuyerOf[n] \in Buyers
    BY <1>0, RowParts
  <2>1. CASE BuyerOf[n] = b
    BY <1>2, <1>4, <1>7, <1>9, <2>1 DEF FitsAt
  <2>2. CASE BuyerOf[n] # b
    BY <1>2, <1>6, <1>9, <2>0, <2>2 DEF FitsAt
  <2> QED
    BY <2>1, <2>2
<1>10. HandFits(s)'
  <2>1. FitsAt(k, m)'
    BY <1>1, <1>2, <1>7 DEF FitsAt
  <2> QED
    BY <1>1, <1>2, <1>3, <2>1 DEF HandFits
<1> QED
  BY <1>8, <1>9, <1>10

\* Every step keeps each message its buyer's and its invoice's.
LEMMA ChatStep ==
    ASSUME ChatInv, [NotifierNext]_notifierVars
    PROVE  ChatInv'
<1>0. OutboxInv /\ NotifierTypeOK
  BY DEF ChatInv, OutboxInv
<1>00. OutboxInv'
  BY <1>0, OutboxStep
<1> SUFFICES ShownExist' /\ SentFit' /\ \A q \in Senders : HandFits(q)'
  BY <1>00 DEF ChatInv
<1>1. ASSUME NEW n \in Notes, Enqueue(n)
      PROVE ShownExist' /\ SentFit' /\ \A q \in Senders : HandFits(q)'
  <2>1. RowsKept /\ \A k \in Notes : note'[k].status = "sent" => note'[k] = note[k]
    <3>1. PICK i : note' = [note EXCEPT ![n] = [note[n] EXCEPT !.status = "queued", !.invoice = i]]
      BY <1>0, <1>1 DEF Enqueue, NotifierTypeOK
    <3>2. /\ note'[n].status = "queued" /\ note[n].status = "absent"
          /\ \A k \in Notes : k # n => note'[k] = note[k]
      BY <1>0, <1>1, <3>1 DEF Enqueue, NotifierTypeOK, NoteRows
    <3> QED
      BY <3>2 DEF RowsKept
  <2> QED
    BY <1>1, <2>1, NothingSent DEF Enqueue, chatVars
<1>2. ASSUME NEW n \in Notes, Again(n)
      PROVE ShownExist' /\ SentFit' /\ \A q \in Senders : HandFits(q)'
  <2>1. RowsKept /\ \A k \in Notes : note'[k].status = "sent" => note'[k] = note[k]
    <3>1. note' = [note EXCEPT ![n] = [note[n] EXCEPT !.until = "now"]] /\ note[n].status = "failed"
      BY <1>0, <1>2 DEF Again, NotifierTypeOK
    <3>2. /\ note'[n].status = "failed" /\ note'[n].invoice = note[n].invoice
          /\ \A k \in Notes : k # n => note'[k] = note[k]
      BY <1>0, <3>1 DEF NotifierTypeOK, NoteRows
    <3> QED
      BY <3>2 DEF RowsKept
  <2> QED
    BY <1>2, <2>1, NothingSent DEF Again, chatVars
<1>3. ASSUME NEW s \in Senders, ClaimBatch(s)
      PROVE ShownExist' /\ SentFit' /\ \A q \in Senders : HandFits(q)'
  <2>1. PICK B \in SUBSET Notes :
           /\ \A n \in Notes : note'[n] = IF n \in B THEN ClaimedNote(note[n]) ELSE note[n]
           /\ \A q \in Senders : q # s => sender'[q] = sender[q]
           /\ sender'[s].phase = "look"
           /\ chat' = chat
    BY <1>0, <1>3, ClaimIs
  <2>2. ASSUME NEW n \in Notes
        PROVE  /\ note'[n].invoice = note[n].invoice
               /\ note'[n] = note[n] \/ note'[n].status = "failed"
    BY <1>0, <2>1, ClaimedNoteIs, RowParts
  <2>3. RowsKept /\ \A n \in Notes : note'[n].status = "sent" => note'[n] = note[n]
    BY <2>2 DEF RowsKept
  <2>4. HandFits(s)'
    BY <2>1 DEF HandFits
  <2> QED
    BY <2>1, <2>3, <2>4, NothingSent
<1>4. ASSUME NEW s \in Senders, Look(s)
      PROVE ShownExist' /\ SentFit' /\ \A q \in Senders : HandFits(q)'
  <2>1. /\ note' = note /\ chat' = chat /\ \A q \in Senders : q # s => sender'[q] = sender[q]
        /\ sender[s].phase # "idle" /\ sender'[s].batch = sender[s].batch
        /\ LookedIs(s) \/ (sender'[s].phase = "record" /\ sender'[s].verdict = "permanent")
    BY <1>0, <1>4, LookIs
  <2>2. RowsKept
    BY <2>1 DEF RowsKept
  <2>3. HandFits(s)'
    <3>1. CASE sender'[s].phase = "record" /\ sender'[s].verdict = "permanent"
      BY <3>1 DEF HandFits
    <3>2. CASE LookedIs(s)
      <4>1. PICK n \in Notes : n = FirstClaim(s).note /\ note[n].status # "absent"
        BY <1>0, <2>1, FirstIsHeld DEF OutboxInv, BatchIntact
      <4>2. PICK m \in MessagesToEdit(n) : m = sender'[s].message
        BY <3>2, <4>1 DEF LookedIs
      <4>3. m # 0 => FitsAt(n, m)
        BY <4>2, EditFits
      <4>4. m # 0 => FitsAt(n, m)'
        BY <2>1, <2>2, <4>1, <4>3, ChatStays
      <4>5. n = (FirstClaim(s).note)' /\ m = sender'[s].message /\ sender'[s].phase = "send"
        BY <2>1, <3>2, <4>1, <4>2, SameBatch DEF LookedIs
      <4> QED
        BY <4>4, <4>5 DEF HandFits
    <3> QED
      BY <2>1, <3>1, <3>2
  <2>4. \A n \in Notes : note'[n].status = "sent" => note'[n] = note[n]
    BY <2>1
  <2> QED
    BY <2>1, <2>2, <2>3, <2>4, NothingSent
<1>5. ASSUME NEW s \in Senders, SendFails(s)
      PROVE ShownExist' /\ SentFit' /\ \A q \in Senders : HandFits(q)'
  <2>1. /\ note' = note /\ chat' = chat /\ \A q \in Senders : q # s => sender'[q] = sender[q]
        /\ sender[s].phase # "idle"
    BY <1>0, <1>5, SendIs DEF SendFails, chatVars
  <2>2. PICK v \in {"blocked", "transient", "permanent"} : Verdict(s, v, 0)
    BY <1>5 DEF SendFails
  <2>3. sender'[s].phase = "record" /\ sender'[s].verdict # "delivered"
    <3>1. v \in Verdicts /\ v # "delivered"
      BY DEF Verdicts
    <3> QED
      BY <1>0, <2>1, <2>2, <3>1, VerdictMoves
  <2>4. HandFits(s)'
    BY <2>3 DEF HandFits
  <2>5. RowsKept /\ \A n \in Notes : note'[n].status = "sent" => note'[n] = note[n]
    BY <2>1 DEF RowsKept
  <2> QED
    BY <2>1, <2>4, <2>5, NothingSent
<1>6. ASSUME NEW s \in Senders, SendTaken(s)
      PROVE ShownExist' /\ SentFit' /\ \A q \in Senders : HandFits(q)'
  <2>1. /\ ShownExist' /\ HandFits(s)'
        /\ \A n \in Notes : \A m : FitsAt(n, m) => FitsAt(n, m)'
    BY <1>6, TakenFits
  <2>2. note' = note /\ \A q \in Senders : q # s => sender'[q] = sender[q]
    BY <1>0, <1>6, SendIs
  <2>3. \A q \in Senders : HandFits(q)'
    BY <2>1, <2>2, HandsStay
  <2>4. SentFit'
    <3>1. ASSUME NEW n \in Notes PROVE (note[n].status = "sent" => FitsAt(n, note[n].message))'
      BY <2>1, <2>2, SentStay
    <3> QED
      BY <3>1 DEF SentFit
  <2> QED
    BY <2>1, <2>3, <2>4
<1>7. ASSUME NEW s \in Senders, Record(s)
      PROVE ShownExist' /\ SentFit' /\ \A q \in Senders : HandFits(q)'
  <2>1. /\ sender[s].phase = "record" /\ NextOfBatch(s) /\ chat' = chat
        /\ \A n \in Notes :
              /\ note'[n].invoice = note[n].invoice
              /\ note[n].status # "absent" => note'[n].status # "absent"
              /\ note'[n].status = "sent" => \/ note'[n] = note[n]
                                            \/ /\ sender[s].verdict = "delivered"
                                               /\ n = FirstClaim(s).note
                                               /\ note'[n].message = sender[s].message
    BY <1>0, <1>7, RecordIs
  <2>2. RowsKept
    BY <2>1 DEF RowsKept
  <2>3. /\ ShownExist'
        /\ \A n \in Notes : \A m : note[n].status # "absent" /\ FitsAt(n, m) => FitsAt(n, m)'
    BY <2>1, <2>2, ChatStays
  <2>4. sender'[s].phase \in {"idle", "look"} /\ \A q \in Senders : q # s => sender'[q] = sender[q]
    BY <1>0, <2>1, BatchMoves
  <2>5. \A q \in Senders : HandFits(q)'
    <3>1. HandFits(s)'
      BY <2>4 DEF HandFits
    <3>2. ASSUME NEW q \in Senders, q # s PROVE HandFits(q)'
      BY <2>3, <2>4, <3>2, HandsStay
    <3> QED
      BY <3>1, <3>2
  <2>6. ASSUME NEW n \in Notes PROVE (note[n].status = "sent" => FitsAt(n, note[n].message))'
    <3>1. CASE note'[n] = note[n]
      BY <2>3, <3>1, SentStay
    <3>2. CASE /\ sender[s].verdict = "delivered" /\ n = FirstClaim(s).note
               /\ note'[n].message = sender[s].message
      <4>1. PICK m : m = sender[s].message
        OBVIOUS
      <4>2. FitsAt(n, m) /\ note[n].status # "absent"
        BY <1>0, <2>1, <3>2, <4>1, FirstIsHeld DEF ChatInv, HandFits, OutboxInv, BatchIntact
      <4>3. FitsAt(n, m)'
        BY <2>3, <4>2
      <4>4. m = note'[n].message
        BY <3>2, <4>1
      <4> QED
        BY <4>3, <4>4
    <3> QED
      BY <2>1, <3>1, <3>2
  <2> QED
    BY <2>3, <2>5, <2>6 DEF SentFit
<1>8. ASSUME NEW s \in Senders, PassDies(s)
      PROVE ShownExist' /\ SentFit' /\ \A q \in Senders : HandFits(q)'
  <2>1. /\ sender'[s] = IdlePass /\ \A q \in Senders : q # s => sender'[q] = sender[q]
        /\ note' = note /\ chat' = chat
    BY <1>0, <1>8 DEF PassDies, NotifierTypeOK, chatVars
  <2>2. HandFits(s)'
    BY <2>1, IdlePassIs DEF HandFits
  <2>3. RowsKept /\ \A n \in Notes : note'[n].status = "sent" => note'[n] = note[n]
    BY <2>1 DEF RowsKept
  <2> QED
    BY <2>1, <2>2, <2>3, NothingSent
<1>9. ASSUME NEW b \in Buyers, Leave(b) \/ Return(b)
      PROVE ShownExist' /\ SentFit' /\ \A q \in Senders : HandFits(q)'
  <2>1. note' = note /\ chat' = chat /\ sender' = sender
    BY <1>9 DEF Leave, Return, outboxVars, chatVars
  <2>2. RowsKept /\ \A n \in Notes : note'[n].status = "sent" => note'[n] = note[n]
    BY <2>1 DEF RowsKept
  <2> QED
    BY <2>1, <2>2, NothingSent
<1>10. CASE UNCHANGED notifierVars
  <2>1. note' = note /\ chat' = chat /\ sender' = sender
    BY <1>10 DEF notifierVars, outboxVars, chatVars
  <2>2. RowsKept /\ \A n \in Notes : note'[n].status = "sent" => note'[n] = note[n]
    BY <2>1 DEF RowsKept
  <2> QED
    BY <2>1, <2>2, NothingSent
<1> QED
  BY <1>1, <1>2, <1>3, <1>4, <1>5, <1>6, <1>7, <1>8, <1>9, <1>10 DEF NotifierNext, Deliver

\* An edit replaces what it corrects and nothing else (OwnMessageOnly): the message
\* that find_message_id hands to AiogramSender is one about the same invoice, although
\* others are sent, edited and recorded between the look and the record.
THEOREM OwnMessageTheorem == NotifierSpec => []OwnMessageOnly
<1>1. NotifierInit => ChatInv
  BY OutboxStart
<1>2. ChatInv /\ [NotifierNext]_notifierVars => ChatInv'
  BY ChatStep
<1>3. ChatInv => OwnMessageOnly
  BY DEF ChatInv, SentFit, FitsAt, OwnMessageOnly
<1> QED
  BY <1>1, <1>2, <1>3, PTL DEF NotifierSpec

-----------------------------------------------------------------------------
(***************************************************************************)
(* Reconcile                                                               *)
(*                                                                         *)
(* What a report says of an account was read in two steps, and the world   *)
(* moved in between. What stands still is the set of transfers the ledger  *)
(* had counted: their money reached the chain for good (LedgerStands), so  *)
(* a balance below their sum misses one of them, and that one was lost     *)
(* (BalancesStand). A part of a sum is no more than the sum (SumOfPart).   *)
(***************************************************************************)
Settled  == {"deep", "orphaned", "swept"}
Lost(a)  == \E t \in Paying(a) : onChain[t] \in {"orphaned", "swept"}

CountedWasDeep == \A t \in Transfers : booked[t] = "counted" => onChain[t] \in Settled

LedgerStands ==
    job = "reconcile" => \A a \in DOMAIN expected :
        \E S \in SUBSET Paying(a) : /\ expected[a] = Total(S)
                                    /\ \A t \in S : onChain[t] \in Settled

BalancesStand ==
    job = "reconcile" => \A a \in DOMAIN actual : actual[a] < expected[a] => Lost(a)

AuditTypes ==
    /\ ReconcileTypeOK
    /\ expected \in [DOMAIN expected -> Nat]
    /\ actual \in [DOMAIN actual -> Nat]

AuditInv == AuditTypes /\ CountedWasDeep /\ LedgerStands /\ BalancesStand /\ ShortfallIsReal

-----------------------------------------------------------------------------
\* The amounts of any transfers have a sum, and it is a natural number.
LEMMA TotalIsNatural ==
    ASSUME NEW S \in SUBSET Transfers
    PROVE  Counts(AmountOf, S) /\ Total(S) \in Nat
<1>1. Counts(AmountOf, S)
  BY ReconcileAssumption, FS_Subset DEF Counts
<1> QED
  BY <1>1, SumIsNatural DEF Total

\* Min of the community modules is a member of the set.
LEMMA MinIsIn ==
    ASSUME NEW S \in SUBSET Nat, S # {}
    PROVE  Min(S) \in S
<1>1. \E x \in S : \A y \in S : x =< y
  BY LeastMember, Zenon
<1> QED
  BY <1>1 DEF Min

\* A finite set of numbers that has a member has a greatest one.
LEMMA MaxIsIn ==
    ASSUME NEW S \in SUBSET Nat, IsFiniteSet(S), S # {}
    PROVE  Max(S) \in S
<1> DEFINE Tops(T) == \E x \in T : \A y \in T : x >= y
           Bad == {k \in Nat : \E T \in SUBSET S : Cardinality(T) = k /\ T # {} /\ ~Tops(T)}
<1>1. Bad = {}
  <2> SUFFICES ASSUME Bad # {} PROVE FALSE
    OBVIOUS
  <2>1. PICK k \in Bad : \A j \in Bad : k <= j
    <3>1. Bad \in SUBSET Nat
      OBVIOUS
    <3> HIDE DEF Bad
    <3> QED
      BY <3>1, LeastMember
  <2>2. PICK T \in SUBSET S : Cardinality(T) = k /\ T # {} /\ ~Tops(T)
    BY <2>1
  <2>3. PICK x \in T : TRUE
    BY <2>2
  <2>4. T \ {x} \in SUBSET S /\ Cardinality(T \ {x}) = k - 1 /\ k - 1 \in Nat
    <3>1. /\ Cardinality(T) \in Nat
          /\ T # {} => Cardinality(T) > 0
          /\ \A y \in T : T \ {y} \in SUBSET S /\ Cardinality(T \ {y}) = Cardinality(T) - 1
      BY SmallerPart, Zenon
    <3> QED
      BY <2>2, <2>3, <3>1
  <2>5. k - 1 \notin Bad
    <3>1. ~(k <= k - 1)
      BY <2>4
    <3> HIDE DEF Bad
    <3> QED
      BY <2>1, <3>1
  <2>6. T \ {x} = {} \/ Tops(T \ {x})
    BY <2>4, <2>5
  <2>7. CASE T \ {x} = {}
    BY <2>2, <2>3, <2>7
  <2>8. CASE Tops(T \ {x})
    <3>1. PICK z \in T \ {x} : \A y \in T \ {x} : z >= y
      BY <2>8
    <3>2. x \in Nat /\ z \in Nat /\ T \in SUBSET Nat
      BY <2>2, <2>3
    <3>3. CASE z >= x
      BY <2>2, <3>1, <3>2, <3>3
    <3>4. CASE x >= z
      BY <2>2, <2>3, <3>1, <3>2, <3>4
    <3> QED
      BY <3>2, <3>3, <3>4
  <2> QED
    BY <2>6, <2>7, <2>8
<1>2. Cardinality(S) \in Nat
  BY FS_CardinalityType
<1>3. Tops(S)
  BY <1>1, <1>2
<1> QED
  BY <1>3 DEF Max

\* What is settled stays settled, and what is lost stays lost, as long as the
\* chain only moves on.
LEMMA ChainMovesOn ==
    ASSUME ReconcileTypeOK, Meanwhile
    PROVE  /\ onChain' \in [Transfers -> {"none", "fresh", "deep", "orphaned", "swept"}]
           /\ \A t \in Transfers : /\ onChain[t] \in Settled => onChain'[t] \in Settled
                                   /\ onChain[t] \in {"orphaned", "swept"} =>
                                        onChain'[t] \in {"orphaned", "swept"}
<1>1. CASE \E t \in Transfers : Moves(t)
  BY <1>1 DEF ReconcileTypeOK, Moves, Settled
<1>2. CASE \E a \in Accounts : Sweeps(a)
  BY <1>2 DEF ReconcileTypeOK, Sweeps, Settled
<1>3. CASE UNCHANGED onChain
  BY <1>3 DEF ReconcileTypeOK
<1> QED
  BY <1>1, <1>2, <1>3 DEF Meanwhile

\* An account that lost money has lost it for good.
LEMMA LostStays ==
    ASSUME ReconcileTypeOK, Meanwhile
    PROVE  \A a : Lost(a) => Lost(a)'
<1>1. \A t \in Transfers : onChain[t] \in {"orphaned", "swept"} => onChain'[t] \in {"orphaned", "swept"}
  BY ChainMovesOn
<1> QED
  BY <1>1 DEF Lost, Paying

\* The chain, the watcher, the settler and the owner keep the invariant, whatever
\* job is running.
LEMMA MeanwhileKeeps ==
    ASSUME AuditInv, Meanwhile
    PROVE  AuditInv'
<1>1. UNCHANGED <<job, expected, actual, report, export, drifts, figures>>
  BY DEF Meanwhile, jobVars, resultVars
<1>2. /\ onChain' \in [Transfers -> {"none", "fresh", "deep", "orphaned", "swept"}]
      /\ \A t \in Transfers : onChain[t] \in Settled => onChain'[t] \in Settled
  BY ChainMovesOn DEF AuditInv, AuditTypes
<1>3. \A a : Lost(a) => Lost(a)'
  BY LostStays DEF AuditInv, AuditTypes
<1>4. AuditTypes'
  <2>1. booked' \in [Transfers -> {"none", "seen", "counted", "reverted"}]
    BY DEF AuditInv, AuditTypes, ReconcileTypeOK, Meanwhile, Books
  <2>2. marked' \subseteq Accounts /\ quoted' \in BOOLEAN
    BY DEF AuditInv, AuditTypes, ReconcileTypeOK, Meanwhile, Marks
  <2> QED
    BY <1>1, <1>2, <2>1, <2>2 DEF AuditInv, AuditTypes, ReconcileTypeOK
<1>5. CountedWasDeep'
  <2>1. CASE UNCHANGED booked
    BY <1>2, <2>1 DEF AuditInv, CountedWasDeep
  <2>2. CASE UNCHANGED onChain /\ \E t \in Transfers : Books(t)
    BY <2>2 DEF AuditInv, AuditTypes, ReconcileTypeOK, CountedWasDeep, Books, Settled
  <2> QED
    BY <2>1, <2>2 DEF Meanwhile
<1>6. LedgerStands'
  BY <1>1, <1>2 DEF AuditInv, LedgerStands, Paying
<1>7. BalancesStand'
  <2>1. \A a : Lost(a) => (Lost(a))'
    BY <1>3
  <2>2. BalancesStand
    BY DEF AuditInv
  <2> QED
    BY <1>1, <2>1, <2>2 DEF BalancesStand
<1>8. ShortfallIsReal'
  BY <1>1, <1>3 DEF AuditInv, ShortfallIsReal, Lost
<1> QED
  BY <1>4, <1>5, <1>6, <1>7, <1>8 DEF AuditInv

\* What the ledger says of an account is the sum of what it counted.
LEMMA LedgerType ==
    ASSUME AuditInv
    PROVE  /\ DOMAIN Ledger \subseteq Accounts
           /\ \A a \in DOMAIN Ledger :
                /\ Ledger[a] \in Nat
                /\ \E S \in SUBSET Paying(a) : /\ Ledger[a] = Total(S)
                                               /\ \A t \in S : onChain[t] \in Settled
<1> DEFINE S(a) == {t \in Paying(a) : booked[t] = "counted"}
<1>1. \A a \in DOMAIN Ledger : Ledger[a] = Total(S(a))
  BY DEF Ledger
<1>2. \A a : S(a) \in SUBSET Paying(a) /\ S(a) \in SUBSET Transfers
  BY DEF Paying
<1>3. \A a : \A t \in S(a) : onChain[t] \in Settled
  BY DEF AuditInv, CountedWasDeep, Paying
<1>4. \A a : Total(S(a)) \in Nat
  BY <1>2, TotalIsNatural
<1>5. DOMAIN Ledger \subseteq Accounts
  BY DEF Ledger
<1> HIDE DEF S
<1> QED
  BY <1>1, <1>2, <1>3, <1>4, <1>5

\* The ledger is read: it counts only what is settled.
LEMMA StartsKeeps ==
    ASSUME AuditInv, ReconcileStarts
    PROVE  AuditInv'
<1>1. /\ expected' = [a \in DOMAIN Ledger \ marked |-> Ledger[a]]
      /\ actual' = Nothing /\ report' = Nothing /\ export' = Nothing /\ job' = "reconcile"
      /\ UNCHANGED <<onChain, booked, marked, quoted, drifts, figures>>
  BY DEF ReconcileStarts, ledgerVars
<1>2. DOMAIN Nothing = {}
  BY DEF Nothing
<1>3. AuditTypes'
  BY <1>1, <1>2, LedgerType DEF AuditInv, AuditTypes, ReconcileTypeOK, Nothing
<1>4. CountedWasDeep'
  BY <1>1 DEF AuditInv, CountedWasDeep
<1>5. LedgerStands'
  BY <1>1, LedgerType DEF LedgerStands, Paying
<1>6. BalancesStand' /\ ShortfallIsReal'
  BY <1>1, <1>2 DEF BalancesStand, ShortfallIsReal
<1> QED
  BY <1>3, <1>4, <1>5, <1>6 DEF AuditInv

\* A balance below what was counted misses a transfer the ledger had counted.
LEMMA ReadIsShort ==
    ASSUME AuditInv, job = "reconcile", NEW a \in DOMAIN expected,
           NEW unseen \in SUBSET {t \in Paying(a) : onChain[t] = "fresh"},
           BalanceSeen(a, unseen) < expected[a]
    PROVE  Lost(a)
<1> DEFINE T == {t \in Paying(a) : onChain[t] = "deep" \/ (onChain[t] = "fresh" /\ t \notin unseen)}
<1>1. PICK S \in SUBSET Paying(a) : expected[a] = Total(S) /\ \A t \in S : onChain[t] \in Settled
  BY DEF AuditInv, LedgerStands
<1>2. T \in SUBSET Transfers /\ S \in SUBSET Transfers /\ BalanceSeen(a, unseen) = Total(T)
  BY DEF Paying, BalanceSeen
<1>3. ~(S \subseteq T)
  <2> SUFFICES ASSUME S \subseteq T PROVE FALSE
    OBVIOUS
  <2> HIDE DEF T
  <2>1. Total(S) <= Total(T) /\ Total(S) \in Nat /\ Total(T) \in Nat
    BY <1>2, TotalIsNatural, SumOfPart DEF Total
  <2> QED
    BY <1>1, <1>2, <2>1
<1>4. PICK t \in S : t \notin T
  BY <1>3
<1> QED
  BY <1>1, <1>4 DEF Lost, Settled

\* A balance is read, of an account the job has not read yet.
LEMMA BalanceReadKeeps ==
    ASSUME AuditInv, BalanceRead
    PROVE  AuditInv'
<1>1. UNCHANGED <<onChain, booked, marked, quoted, job, expected, report, export, drifts, figures>>
  BY DEF BalanceRead, ledgerVars, resultVars
<1>2. Min(Unread) \in Unread
  <2>1. Unread \in SUBSET Nat /\ Unread # {}
    BY ReconcileAssumption DEF AuditInv, AuditTypes, ReconcileTypeOK, Unread, BalanceRead
  <2> QED
    BY <2>1, MinIsIn
<1>3. PICK a \in Unread : \E unseen \in SUBSET {t \in Paying(a) : onChain[t] = "fresh"} :
        actual' = [b \in DOMAIN actual \union {a} |->
                     IF b = a THEN BalanceSeen(a, unseen) ELSE actual[b]]
  BY <1>2, Zenon DEF BalanceRead
<1>4. PICK unseen \in SUBSET {t \in Paying(a) : onChain[t] = "fresh"} :
        actual' = [b \in DOMAIN actual \union {a} |->
                     IF b = a THEN BalanceSeen(a, unseen) ELSE actual[b]]
  BY <1>3
<1>5. BalanceSeen(a, unseen) \in Nat
  <2>1. {t \in Paying(a) : onChain[t] = "deep" \/ (onChain[t] = "fresh" /\ t \notin unseen)}
          \in SUBSET Transfers
    BY DEF Paying
  <2> QED
    BY <2>1, TotalIsNatural DEF BalanceSeen
<1>6. a \in DOMAIN expected
  BY DEF Unread
<1>7. AuditTypes'
  BY <1>1, <1>4, <1>5, <1>6 DEF AuditInv, AuditTypes, ReconcileTypeOK
<1>8. CountedWasDeep' /\ LedgerStands' /\ ShortfallIsReal'
  BY <1>1 DEF AuditInv, CountedWasDeep, LedgerStands, ShortfallIsReal, Paying
<1>9. BalancesStand'
  <2> SUFFICES ASSUME job = "reconcile", NEW b \in DOMAIN actual', actual'[b] < expected[b]
               PROVE  Lost(b)
    BY <1>1 DEF BalancesStand, Lost, Paying
  <2>1. CASE b = a
    <3>1. BalanceSeen(a, unseen) < expected[a]
      BY <1>4, <2>1
    <3> QED
      BY <1>6, <2>1, <3>1, ReadIsShort
  <2>2. CASE b # a
    BY <1>4, <2>2 DEF AuditInv, BalancesStand
  <2> QED
    BY <2>1, <2>2
<1> QED
  BY <1>7, <1>8, <1>9 DEF AuditInv

\* The job compares: what it reports was kept true since each of its readings.
LEMMA EndsKeeps ==
    ASSUME AuditInv, ReconcileEnds
    PROVE  AuditInv'
<1>1. /\ job = "reconcile" /\ Unread = {} /\ job' = "idle"
      /\ expected' = Nothing /\ actual' = Nothing
      /\ UNCHANGED <<onChain, booked, marked, quoted, export>>
      /\ report' \in {report, Compared}
      /\ drifts' \in {drifts, drifts \union Anchor}
      /\ figures' \in {figures, figures \union {AbsoluteDrift}}
  BY DEF ReconcileEnds, ledgerVars
<1>2. DOMAIN actual = DOMAIN expected
  BY <1>1 DEF AuditInv, AuditTypes, ReconcileTypeOK, Unread
<1>3. /\ DOMAIN Compared = DOMAIN expected
      /\ \A a \in DOMAIN expected : /\ Compared[a].expected = expected[a]
                                    /\ Compared[a].actual = actual[a]
  BY DEF Compared, ExpectedOf
<1>4. AbsoluteDrift \in Nat
  <2> DEFINE f == [a \in DOMAIN Compared |-> DriftOf(Compared[a])]
  <2>1. \A a \in DOMAIN f : f[a] \in Nat
    BY <1>2, <1>3 DEF AuditInv, AuditTypes, DriftOf
  <2>2. IsFiniteSet(DOMAIN f)
    BY <1>3, ReconcileAssumption, FS_Subset DEF AuditInv, AuditTypes, ReconcileTypeOK
  <2>3. AbsoluteDrift = SumFunctionOnSet(f, DOMAIN f)
    BY DEF AbsoluteDrift, SumFunction
  <2> HIDE DEF f
  <2> QED
    BY <2>1, <2>2, <2>3, SumIsNatural DEF Counts
<1>5. Anchor \subseteq Transfers
  <2> DEFINE with == {a \in Drifting : HasRow(a)}
             rows(a) == {t \in Paying(a) : booked[t] # "none"}
  <2>1. with \in SUBSET Nat
    BY <1>3, ReconcileAssumption DEF AuditInv, AuditTypes, ReconcileTypeOK, Drifting
  <2>2. CASE with = {}
    BY <2>2 DEF Anchor
  <2>3. CASE with # {}
    <3>1. Min(with) \in with
      BY <2>1, <2>3, MinIsIn
    <3>2. rows(Min(with)) # {} /\ rows(Min(with)) \in SUBSET Transfers
      BY <3>1 DEF HasRow, Paying
    <3>3. Max(rows(Min(with))) \in Transfers
      <4>1. IsFiniteSet(rows(Min(with))) /\ rows(Min(with)) \in SUBSET Nat
        BY <3>2, ReconcileAssumption, FS_Subset
      <4> QED
        BY <3>2, <4>1, MaxIsIn
    <3> QED
      BY <2>3, <3>3 DEF Anchor
  <2> QED
    BY <2>2, <2>3
<1>6. AuditTypes'
  BY <1>1, <1>3, <1>4, <1>5 DEF AuditInv, AuditTypes, ReconcileTypeOK, Nothing
<1>7. CountedWasDeep' /\ LedgerStands' /\ BalancesStand'
  BY <1>1 DEF AuditInv, CountedWasDeep, LedgerStands, BalancesStand
<1>8. ShortfallIsReal'
  <2>1. CASE report' = report
    BY <1>1, <2>1 DEF AuditInv, ShortfallIsReal, Paying
  <2>2. CASE report' = Compared
    BY <1>1, <1>2, <1>3, <2>2 DEF AuditInv, BalancesStand, ShortfallIsReal, Lost, Paying
  <2> QED
    BY <1>1, <2>1, <2>2
<1> QED
  BY <1>6, <1>7, <1>8 DEF AuditInv

\* The owner closes a case, a job fails, and the steps of the sweep list.
LEMMA OtherStepsKeep ==
    ASSUME AuditInv,
           \/ \E t \in Transfers : Resolves(t)
           \/ SweeplistStarts \/ JobRaises \/ SweeplistEnds \/ UNCHANGED reconcileVars
    PROVE  AuditInv'
<1>1. CASE \E t \in Transfers : Resolves(t)
  <2>1. UNCHANGED <<onChain, booked, marked, quoted, job, expected, actual, report, export, figures>>
        /\ drifts' \subseteq drifts
    BY <1>1 DEF Resolves, ledgerVars, jobVars
  <2> QED
    BY <2>1 DEF AuditInv, AuditTypes, ReconcileTypeOK, CountedWasDeep, LedgerStands,
                BalancesStand, ShortfallIsReal, Lost, Paying
<1>2. CASE SweeplistStarts
  <2>1. /\ job' = "sweeplist" /\ expected' = [a \in SweepCandidates |-> 0]
        /\ actual' = Nothing /\ report' = Nothing /\ export' = Nothing
        /\ UNCHANGED <<onChain, booked, marked, quoted, drifts, figures>>
    BY <1>2 DEF SweeplistStarts, ledgerVars
  <2> QED
    BY <2>1 DEF AuditInv, AuditTypes, ReconcileTypeOK, CountedWasDeep, LedgerStands,
                BalancesStand, ShortfallIsReal, SweepCandidates, Nothing
<1>3. CASE JobRaises
  <2>1. /\ job' = "idle" /\ expected' = Nothing /\ actual' = Nothing
        /\ UNCHANGED <<onChain, booked, marked, quoted, report, export, drifts, figures>>
    BY <1>3 DEF JobRaises, ledgerVars, resultVars
  <2> QED
    BY <2>1 DEF AuditInv, AuditTypes, ReconcileTypeOK, CountedWasDeep, LedgerStands,
                BalancesStand, ShortfallIsReal, Nothing, Paying
<1>4. CASE SweeplistEnds
  <2>1. /\ job' = "idle" /\ expected' = Nothing /\ actual' = Nothing
        /\ DOMAIN export' \subseteq DOMAIN actual
        /\ UNCHANGED <<onChain, booked, marked, quoted, report, drifts, figures>>
    BY <1>4 DEF SweeplistEnds, ledgerVars
  <2> QED
    BY <2>1 DEF AuditInv, AuditTypes, ReconcileTypeOK, CountedWasDeep, LedgerStands,
                BalancesStand, ShortfallIsReal, Nothing, Paying
<1>5. CASE UNCHANGED reconcileVars
  <2>1. UNCHANGED <<onChain, booked, marked, quoted, job, expected, actual, report, export,
                    drifts, figures>>
    BY <1>5 DEF reconcileVars, ledgerVars, jobVars, resultVars
  <2> QED
    BY <2>1 DEF AuditInv, AuditTypes, ReconcileTypeOK, CountedWasDeep, LedgerStands,
                BalancesStand, ShortfallIsReal, Lost, Paying
<1> QED
  BY <1>1, <1>2, <1>3, <1>4, <1>5

\* Nothing is counted, read or reported at the start.
LEMMA AuditStart == ReconcileInit => AuditInv
BY DEF ReconcileInit, AuditInv, AuditTypes, ReconcileTypeOK, CountedWasDeep, LedgerStands,
       BalancesStand, ShortfallIsReal, Nothing

\* Every step keeps what the ledger and the balances stand for.
LEMMA AuditStep == AuditInv /\ [ReconcileNext]_reconcileVars => AuditInv'
BY MeanwhileKeeps, StartsKeeps, BalanceReadKeeps, EndsKeeps, OtherStepsKeep DEF ReconcileNext

\* A report finds an account short only when the account lost money, whatever
\* arrived, was counted or was swept between the ledger and the balances
\* (settler/admin/reconcile.py, reconcile).
THEOREM ShortfallTheorem == ReconcileSpec => [](ReconcileTypeOK /\ ShortfallIsReal)
<1>1. AuditInv => ReconcileTypeOK /\ ShortfallIsReal
  BY DEF AuditInv, AuditTypes
<1> QED
  BY <1>1, AuditStart, AuditStep, PTL DEF ReconcileSpec
=============================================================================
